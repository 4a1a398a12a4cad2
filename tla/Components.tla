----------------------------- MODULE Components ----------------------------
(***************************************************************************)
(* Controlled UI components: grants, broker, interactions and              *)
(* continuations running together, and what makes them correct.            *)
(***************************************************************************)
EXTENDS UiInteractions

\* A grant given before the coworker had a session; its sessions were provisioned with the tool.
EarlierGrant == [key |-> None, v |-> 1, granted |-> TRUE, action |-> "granted", rotations |-> {},
                 started |-> {}, applied |-> {}]

Init ==
    /\ mix \in Mixes
    /\ code = 1
    /\ pub = IF mix.ready THEN 1 ELSE 0
    /\ grant = IF mix.ready THEN {1} ELSE {}
    /\ audit = IF mix.ready THEN <<EarlierGrant>> ELSE <<>>
    /\ sess = [s \in Session |-> [state |-> "active", gen |-> 0, offers |-> mix.ready]]
    /\ turn = [s \in Session |-> [state |-> "streaming", gen |-> 0, step |-> "running"]]
    /\ chan = TRUE
    /\ ui = [c \in Call |-> NoInstance]
    /\ act = [c \in Call |-> [uses |-> 0, revoked |-> FALSE, reads |-> 0]]
    /\ intr = [c \in Call |-> [state |-> "none", by |-> None]]
    /\ inter = [x \in Click |-> NoInteraction]
    /\ cont = [c \in Call |-> [item |-> "none", gen |-> 0, turn |-> "none", run |-> "none",
                               sent |-> FALSE]]
    /\ remote = [c \in Call |-> 0]
    /\ gcall = [r \in GrantCall |-> NewGrantCall]
    /\ brk = [b \in Broker |-> NewBroker]

\* The API process dies, with every request, transaction and runner in it, and comes back,
\* perhaps with a newer definition of the component.  Sessions stay as they were.
ApiRestart ==
    /\ \/ code' = code
       \/ mix.deploys /\ code < MaxVersion /\ code' = code + 1
    /\ gcall' = [r \in GrantCall |-> IF gcall[r].pc = "new" THEN gcall[r]
                                     ELSE [gcall[r] EXCEPT !.pc = "done"]]
    /\ brk' = [b \in Broker |-> IF brk[b].pc = "new" THEN brk[b] ELSE [brk[b] EXCEPT !.pc = "done"]]
    /\ cont' = [c \in Call |-> [cont[c] EXCEPT !.run = "none"]]
    /\ <<code, gcall, brk, cont>>' # <<code, gcall, brk, cont>>
    /\ UNCHANGED <<pub, grant, audit, sess, turn, chan, ui, act, intr, inter, remote, mix>>

Next ==
    \/ \E r \in GrantCall : GrantStep(r)
    \/ \E s \in Session : OtherRotation(s)
    \/ \E b \in Broker : BrokerStep(b)
    \/ InteractionStep
    \/ ApiRestart

Spec == Init /\ [][Next]_vars

-----------------------------------------------------------------------------
(* Every row has its type. *)
TypeOK ==
    /\ code \in Version /\ pub \in 0..MaxVersion /\ grant \subseteq Version
    /\ audit \in Seq(AuditRow)
    /\ sess \in [Session -> SessionRow] /\ turn \in [Session -> TurnRow] /\ chan \in BOOLEAN
    /\ ui \in [Call -> InstanceRow] /\ act \in [Call -> ActionRow]
    /\ intr \in [Call -> InterruptRow] /\ inter \in [Click -> InteractionRow]
    /\ cont \in [Call -> ContinuationRow] /\ remote \in [Call -> Nat]
    /\ gcall \in [GrantCall -> GrantCallRow] /\ brk \in [Broker -> BrokerRow]

(* A surface comes into being only while the coworker may render it: at the commit the        *)
(* version is the published one and granted, the session is active on the generation that     *)
(* called and offers the tool, and the turn is running (brokerComponentToolMcpCall's second   *)
(* checkpoint and its row locks, against revocations, publications and rotations).            *)
RendersUnderAuthority ==
    [][\A c \in Call :
          /\ ui[c].status = "none" /\ ui'[c].status = "ready"
          /\ ui'[c].mode = "complete_component_interrupt"
          => /\ pub = ui'[c].v /\ pub \in grant
             /\ sess[ui'[c].s] = [state |-> "active", gen |-> ui'[c].gen, offers |-> TRUE]
             /\ turn[ui'[c].s].state = "streaming"]_vars

(* The audit trail explains the grants: a version is granted exactly when its last recorded   *)
(* change granted it, whatever raced and whatever was replayed (applyComponentGrantChange).   *)
AuditExplainsGrants ==
    \A v \in Version :
        LET changes == {i \in DOMAIN audit : audit[i].v = v /\ audit[i].action # "noop"}
        IN v \in grant <=> changes # {} /\ audit[Max(changes)].action = "granted"

(* A grant request answered ok has carried its change to every session the change lists,      *)
(* over however many attempts (applyPendingSessionRotations).                                 *)
OkMeansRotated ==
    \A r \in GrantCall :
        gcall[r].ans = "ok" => audit[gcall[r].aud].rotations = audit[gcall[r].aud].applied

(* An interrupt is answered at most once: one interaction succeeds on its surface, it is the  *)
(* one the interrupt records, and the coworker gets at most one provider turn for it; an      *)
(* interrupt withdrawn by a stop, a failure or a rotation is never answered                   *)
(* (commitUiInteraction, enqueueComponentInterruptContinuationInTx and the runner).           *)
AnsweredOnce ==
    \A c \in Call : ui[c].mode = "complete_component_interrupt" =>
        LET answers == {x \in Click : inter[x].call = c /\ inter[x].state = "succeeded"}
        IN /\ IF intr[c].state \in {"resolved", "continued"} THEN answers = {intr[c].by}
              ELSE answers = {} /\ cont[c].item = "none"
           /\ remote[c] + (IF cont[c].sent THEN 1 ELSE 0) <= 1
           /\ intr[c].state = "continued" => remote[c] = 1

(* No state update of a surface is lost: its revision counts the interactions that succeeded, *)
(* each on the revision its token was issued for, and its grant counts every use              *)
(* (evaluateUiInteractionCommitCas).                                                          *)
NoLostStateUpdate ==
    \A c \in Call :
        LET done == {x \in Click : inter[x].call = c /\ inter[x].state = "succeeded"}
        IN /\ act[c].uses = Cardinality(done)
           /\ ui[c].mode = "local_state" => /\ ui[c].state = Cardinality(done)
                                            /\ {inter[x].base : x \in done} = 0..ui[c].state - 1

-----------------------------------------------------------------------------
(* data-model.md: "Stale generation/grant or duplicate results cannot enqueue."  An answer is *)
(* enqueued only for the generation its session is on.                                        *)
StaleGenerationCannotEnqueue ==
    [][\A c \in Call : cont[c].item = "none" /\ cont'[c].item = "queued" =>
          cont'[c].gen = sess[ui[c].s].gen]_vars
=============================================================================
