---------------------------- MODULE UiInteractions -------------------------
(***************************************************************************)
(* What a person does on a surface: a token is issued for one action at    *)
(* the surface's present state, and committed at most once; completing a   *)
(* component's interrupt enqueues the continuation that carries the answer *)
(* back to the coworker, in a provider turn of its own.                    *)
(***************************************************************************)
EXTENDS ComponentBroker

\* A key already used on this grant returns the first token: nothing changes.
PriorInteraction(c, k) == {x \in Click : inter[x].call = c /\ inter[x].key = k}

\* loadRetainedDataGrantSnapshot: the linked data grant is active.
ReadsLeft(c) == act[c].reads < MaxReads

InterruptOpen(c) == intr[c].state = "waiting"

\* What a fresh token needs: a ready surface in an active channel, and an action grant that is
\* active, with its interrupt waiting or its data grant readable.
IssueAdmitted(c) ==
    /\ chan
    /\ ui[c].status = "ready"
    /\ ui[c].mode = "complete_component_interrupt" => InterruptOpen(c)
    /\ ui[c].mode = "server_read" => ReadsLeft(c)
    /\ ActionActive(c)

issueUiInteractionToken(x) ==
    /\ inter[x].state = "none" /\ x \in mix.clicks
    /\ \E c \in Call, k \in mix.keys :
          /\ PriorInteraction(c, k) = {}
          /\ IssueAdmitted(c)
          /\ inter' = [inter EXCEPT ![x] = [state |-> "token_issued", call |-> c, key |-> k,
                                            base |-> ui[c].state, lapsed |-> FALSE]]
    /\ UNCHANGED <<registry, sess, turn, chan, ui, act, intr, cont, remote, gcall, brk, mix>>

TokenLapses(x) ==
    /\ inter[x].state = "token_issued" /\ ~inter[x].lapsed
    /\ inter' = [inter EXCEPT ![x].lapsed = TRUE]
    /\ UNCHANGED <<registry, sess, turn, chan, ui, act, intr, cont, remote, gcall, brk, mix>>

\* Mutant: the surface's state may have moved on since the token was issued.
evaluateAnyState(x) ==
    LET c == inter[x].call IN
    ~inter[x].lapsed /\ ActionActive(c) /\ ui[c].status = "ready" /\ chan

\* The compare-and-swap of a commit.
evaluateUiInteractionCommitCas(x) ==
    LET c == inter[x].call IN
    /\ ~inter[x].lapsed
    /\ ActionActive(c)
    /\ ui[c].status = "ready"
    /\ ui[c].state = inter[x].base
    /\ chan

\* enqueueComponentInterruptContinuationInTx: bound to the generation of the turn that asked.
enqueueComponentInterruptContinuationInTx(c, x) ==
    /\ intr' = [intr EXCEPT ![c] = [state |-> "resolved", by |-> x]]
    /\ cont' = [cont EXCEPT ![c].item = "queued", ![c].gen = ui[c].gen, ![c].run = "claim"]

\* The three modes of an action grant.
CommitLocalState(c) ==
    /\ ui[c].mode = "local_state"
    /\ ui' = [ui EXCEPT ![c].state = @ + 1]
    /\ act' = [act EXCEPT ![c].uses = @ + 1]
    /\ UNCHANGED <<intr, cont>>

CommitServerRead(c) ==
    /\ ui[c].mode = "server_read"
    /\ ReadsLeft(c)
    /\ act' = [act EXCEPT ![c].uses = @ + 1, ![c].reads = @ + 1]
    /\ UNCHANGED <<ui, intr, cont>>

CommitInterrupt(c, x) ==
    /\ ui[c].mode = "complete_component_interrupt"
    /\ InterruptOpen(c)
    /\ enqueueComponentInterruptContinuationInTx(c, x)
    /\ act' = [act EXCEPT ![c].uses = @ + 1]
    /\ UNCHANGED ui

\* One transaction under row locks.  A terminal interaction answers as it did before, and an
\* interrupt that is not waiting refuses the commit: neither changes anything.
commitUiInteraction(x) ==
    LET c == inter[x].call IN
    /\ inter[x].state = "token_issued"
    /\ \/ /\ ~evaluateUiInteractionCommitCas(x)
          /\ inter' = [inter EXCEPT ![x].state = "stale"]
          /\ UNCHANGED <<ui, act, intr, cont>>
       \/ /\ evaluateUiInteractionCommitCas(x)
          /\ inter' = [inter EXCEPT ![x].state = "succeeded"]
          /\ CommitLocalState(c) \/ CommitServerRead(c) \/ CommitInterrupt(c, x)
    /\ UNCHANGED <<registry, sess, turn, chan, remote, gcall, brk, mix>>

-----------------------------------------------------------------------------
(* The run step under the surface. *)

requestRunStepStop(s) ==
    /\ s \in mix.sessions
    /\ turn[s].step = "running"
    /\ turn' = [turn EXCEPT ![s].step = "cancelling"]
    /\ staleWaitingUiComponentInterruptsForRunStep(OpenOn(s))
    /\ UNCHANGED <<registry, sess, chan, ui, cont, remote, gcall, brk, mix>>

\* The provider's turn ends; a failed one closes what the step left open.
TurnEnds(s) ==
    /\ s \in mix.sessions
    /\ turn[s].state = "streaming"
    /\ ~TurnLocked(s)
    /\ turn' = [turn EXCEPT ![s].state = "ended", ![s].step = "ended"]
    /\ \/ UNCHANGED <<intr, act, inter>>
       \/ OpenOn(s) # {} /\ staleWaitingUiComponentInterruptsForRunStep(OpenOn(s))
    /\ UNCHANGED <<registry, sess, chan, ui, cont, remote, gcall, brk, mix>>

archiveChannel ==
    /\ chan /\ mix.clicks # {}
    /\ chan' = FALSE
    /\ UNCHANGED <<registry, sess, turn, surfaces, gcall, brk, mix>>

-----------------------------------------------------------------------------
(* The continuation.  The API that committed the answer runs it once; a worker command may    *)
(* claim it, or take up a turn whose process is gone.                                         *)

Run(c, pc) == [cont EXCEPT ![c].run = pc]

markAgentTurnUncertain(state) ==
    IF state \in {"creating", "streaming"} THEN "uncertain" ELSE state

\* A busy, rotating or rotated session or an archived channel refuses, and so does other work
\* ahead in the queue: the item stays queued.
claimTurnQueueItem(c) ==
    LET s == ui[c].s IN
    /\ cont[c].run = "claim"
    /\ \/ /\ cont[c].item = "queued" /\ chan
          /\ sess[s].state = "active" /\ sess[s].gen = cont[c].gen
          /\ turn[s].state = "ended"
          /\ \A d \in Call \ {c} : ui[d].s = s => cont[d].turn \in {"none", "uncertain", "ended"}
          /\ cont' = [cont EXCEPT ![c].item = "claimed", ![c].turn = "acquiring", ![c].run = "lock"]
       \/ cont' = Run(c, "none")
    /\ UNCHANGED <<registry, sess, turn, chan, ui, act, intr, inter, remote, gcall, brk, mix>>

\* A worker command for an item or a turn nobody works on.
WorkerCommand(c) ==
    /\ cont[c].run = "none"
    /\ \/ cont[c].item = "queued" /\ cont' = Run(c, "claim")
       \/ cont[c].turn = "acquiring" /\ cont' = Run(c, "lock")
    /\ UNCHANGED <<registry, sess, turn, chan, ui, act, intr, inter, remote, gcall, brk, mix>>

lockAgentTurnForCreate(c) ==
    /\ cont[c].run = "lock"
    /\ cont' = IF cont[c].turn = "acquiring"
               THEN [cont EXCEPT ![c].turn = "creating", ![c].run = "create"]
               ELSE Run(c, "none")
    /\ UNCHANGED <<registry, sess, turn, chan, ui, act, intr, inter, remote, gcall, brk, mix>>

\* createTurn: it answers, fails, or times out with or without an effect to come.
CreateContinuation(c) ==
    /\ cont[c].run = "create"
    /\ \/ cont' = Run(c, "bind") /\ remote' = [remote EXCEPT ![c] = @ + 1]
       \/ \E late \in BOOLEAN :
             /\ cont' = [cont EXCEPT ![c].turn = markAgentTurnUncertain(@), ![c].run = "none",
                                    ![c].sent = late]
             /\ UNCHANGED remote
    /\ UNCHANGED <<registry, sess, turn, chan, ui, act, intr, inter, gcall, brk, mix>>

LateCreate(c) ==
    /\ cont[c].sent
    /\ cont' = [cont EXCEPT ![c].sent = FALSE]
    /\ remote' = [remote EXCEPT ![c] = @ + 1]
    /\ UNCHANGED <<registry, sess, turn, chan, ui, act, intr, inter, gcall, brk, mix>>

\* bindTrueForgeTurnId, then markComponentInterruptContinued.
Bound(c, run) ==
    /\ cont' = [cont EXCEPT ![c].turn = "streaming", ![c].run = run]
    /\ intr' = [intr EXCEPT ![c].state = IF @ = "resolved" THEN "continued" ELSE @]

\* A create response binds a creating turn only.
BindContinuation(c) ==
    /\ cont[c].run = "bind"
    /\ \/ cont[c].turn = "creating" /\ Bound(c, "none")
       \/ /\ cont[c].turn # "creating"
          /\ cont' = [cont EXCEPT ![c].turn = markAgentTurnUncertain(@), ![c].run = "none"]
          /\ UNCHANGED intr
    /\ UNCHANGED <<registry, sess, turn, chan, ui, act, inter, remote, gcall, brk, mix>>

\* Mutant: a reconciliation that finds nothing creates again.
NothingInHistoryCreates(c) == Run(c, "create")

\* A reconciliation that finds no exact match refuses to create.
NothingInHistory(c) == [cont EXCEPT ![c].turn = "uncertain"]

\* The worker reconciles a turn that is creating or uncertain against the provider's history;
\* the context is loaded only while the interrupt is resolved.
ReconcileContinuation(c) ==
    /\ cont[c].turn \in {"creating", "uncertain"}
    /\ intr[c].state = "resolved"
    /\ IF remote[c] = 1 THEN Bound(c, cont[c].run)
       ELSE cont' = NothingInHistory(c) /\ UNCHANGED intr
    /\ UNCHANGED <<registry, sess, turn, chan, ui, act, inter, remote, gcall, brk, mix>>

ContinuationEnds(c) ==
    /\ cont[c].turn = "streaming"
    /\ cont' = [cont EXCEPT ![c].turn = "ended"]
    /\ UNCHANGED <<registry, sess, turn, chan, ui, act, intr, inter, remote, gcall, brk, mix>>

InteractionStep ==
    \/ \E x \in Click : issueUiInteractionToken(x) \/ TokenLapses(x) \/ commitUiInteraction(x)
    \/ \E c \in Call : \/ SeedSurface(c) \/ claimTurnQueueItem(c) \/ WorkerCommand(c)
                       \/ lockAgentTurnForCreate(c) \/ CreateContinuation(c) \/ LateCreate(c)
                       \/ BindContinuation(c) \/ ReconcileContinuation(c) \/ ContinuationEnds(c)
    \/ \E s \in Session : requestRunStepStop(s) \/ TurnEnds(s)
    \/ archiveChannel
=============================================================================
