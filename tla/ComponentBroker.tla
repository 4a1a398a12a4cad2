--------------------------- MODULE ComponentBroker -------------------------
(***************************************************************************)
(* The MCP call of a component's tool: the coworker's authority is checked *)
(* when the arguments are complete and again, with the rows locked, before *)
(* the surface is created in the transaction that holds the locks.         *)
(***************************************************************************)
EXTENDS ComponentGrants

\* gen, v: the generation that called and the version seen at the first checkpoint.
BrokerRow == [pc : {"new", "checked", "opened", "bound", "insert", "done"}, call : Call \cup {None},
              s : Session \cup {None}, gen : 0..MaxGen, v : 0..MaxVersion,
              ans : {"none", "awaiting_component_input", "quarantined", "error"}]

NewBroker == [pc |-> "new", call |-> None, s |-> None, gen |-> 0, v |-> 0, ans |-> "none"]

BrokerDone(b, ans) == brk' = [brk EXCEPT ![b].pc = "done", ![b].ans = ans]

\* The registry's current version, with the descriptor this code was built with.
loadPublishedComponentVersionForStableName == pub = code

\* The session is active on the generation that calls, and offers the tool.
loadComponentOfferContext(s, gen) == sess[s].state = "active" /\ sess[s].gen = gen /\ sess[s].offers

recheckBrokerComponentAuthority(s, gen) ==
    /\ loadPublishedComponentVersionForStableName
    /\ hasActiveComponentGrant
    /\ loadComponentOfferContext(s, gen)

\* The generation context, the offer and checkpoint 1: reads, outside any transaction.
CheckArguments(b) ==
    /\ brk[b].pc = "new" /\ b \in mix.brokers
    /\ \E c \in Call, s \in mix.sessions :
          brk' = [brk EXCEPT ![b] = [NewBroker EXCEPT
                     !.call = c, !.s = s, !.gen = sess[s].gen, !.v = pub,
                     !.pc = IF recheckBrokerComponentAuthority(s, sess[s].gen) THEN "checked" ELSE "done",
                     !.ans = IF recheckBrokerComponentAuthority(s, sess[s].gen) THEN "none" ELSE "quarantined"]]
    /\ UNCHANGED <<registry, sess, turn, chan, surfaces, gcall, mix>>

\* The transaction opens with a look for an earlier surface of the call: a repeated call
\* answers with the surface it made, if the grant still stands.
FindExisting(b) ==
    LET q == brk[b] IN
    /\ q.pc = "checked"
    /\ IF ui[q.call].status = "ready" /\ ui[q.call].gen = q.gen
       THEN BrokerDone(b, IF q.v \in grant THEN "awaiting_component_input" ELSE "quarantined")
       ELSE brk' = [brk EXCEPT ![b].pc = "opened"]
    /\ UNCHANGED <<registry, sess, turn, chan, surfaces, gcall, mix>>

\* The turn of the generation is locked until the transaction ends.
BindTurn(b) ==
    LET q == brk[b] IN
    /\ q.pc = "opened"
    /\ ~TurnLocked(q.s)
    /\ IF turn[q.s].state = "streaming" /\ turn[q.s].gen = q.gen
       THEN brk' = [brk EXCEPT ![b].pc = "bound"]
       ELSE BrokerDone(b, "quarantined")
    /\ UNCHANGED <<registry, sess, turn, chan, surfaces, gcall, mix>>

\* Checkpoint 2, with the rows locked, against the version of checkpoint 1.
CheckBeforeCreate(b) ==
    LET q == brk[b] IN
    /\ q.pc = "bound"
    /\ IF recheckBrokerComponentAuthority(q.s, q.gen) /\ pub = q.v
       THEN brk' = [brk EXCEPT ![b].pc = "insert"]
       ELSE BrokerDone(b, "quarantined")
    /\ UNCHANGED <<registry, sess, turn, chan, surfaces, gcall, mix>>

\* The surface, inserted as building and made ready by its first revision.
FinalizedInstance(q) ==
    [status |-> "ready", mode |-> "complete_component_interrupt", s |-> q.s, v |-> q.v, gen |-> q.gen,
     state |-> 0]

\* The component asks for an answer: its one-use action grant and the interrupt that waits for it.
setupInteractiveBrokerArtifacts(c) == intr' = [intr EXCEPT ![c].state = "waiting"]

\* All of it commits together; a tool call id that is already taken aborts all of it.
CommitInstance(b) ==
    LET q == brk[b] IN
    /\ q.pc = "insert"
    /\ IF ui[q.call].status = "none"
       THEN /\ ui' = [ui EXCEPT ![q.call] = FinalizedInstance(q)]
            /\ setupInteractiveBrokerArtifacts(q.call)
            /\ BrokerDone(b, "awaiting_component_input")
       ELSE BrokerDone(b, "error") /\ UNCHANGED <<ui, intr>>
    /\ UNCHANGED <<registry, sess, turn, chan, act, inter, cont, remote, gcall, mix>>

\* A surface in one of the modes the broker does not create, as the test harness inserts it.
SeedSurface(c) ==
    /\ ui[c].status = "none"
    /\ \E s \in mix.sessions, mode \in mix.modes :
          ui' = [ui EXCEPT ![c] = [NoInstance EXCEPT !.status = "ready", !.mode = mode, !.s = s,
                                                     !.v = 1, !.gen = turn[s].gen]]
    /\ UNCHANGED <<registry, sess, turn, chan, act, intr, inter, cont, remote, gcall, brk, mix>>

BrokerStep(b) ==
    \/ CheckArguments(b) \/ FindExisting(b) \/ BindTurn(b) \/ CheckBeforeCreate(b) \/ CommitInstance(b)
=============================================================================
