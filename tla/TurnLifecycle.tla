--------------------------- MODULE TurnLifecycle ---------------------------
(***************************************************************************)
(* The life of an agent turn after its claim: the create-or-reconcile      *)
(* attempts that open the provider turn (packages/orchestration            *)
(* create-or-reconcile-turn.ts over packages/db turn-lifecycle.ts) and the *)
(* ingestion of the provider's events.                                     *)
(*                                                                         *)
(* An attempt is several transactions with provider calls between them, so *)
(* its progress is state of its own (call), lost when its process crashes. *)
(* TrueForge, the provider, is outside the repository: prov only counts    *)
(* the turns it has opened.  The worker takes a pg_advisory_lock around an *)
(* attempt, but on a pool of one connection, where advisory locks are      *)
(* re-entrant, and the API takes none; the model does not rely on it.      *)
(***************************************************************************)
EXTENDS TurnQueue

CONSTANTS
    DuplicateCommands,  \* may a create command be delivered twice for one turn?
    LateEffects,        \* may a create request take effect after its caller gave up?
    MaxMade             \* bound on the provider turns opened for one agent turn

ASSUME CreateAssumption ==
    DuplicateCommands \in BOOLEAN /\ LateEffects \in BOOLEAN /\ MaxMade \in Nat

VARIABLES
    prov,   \* by agent turn: provider turns opened for it (made), to resume it (again),
            \* and requests for either that are under way with nobody waiting
    call    \* by process: the create-or-reconcile attempt it is in

lifecycleVars == <<prov, call>>

Provider == [made : 0..MaxMade, again : 0..MaxMade, late : 0..MaxMade, lateAgain : 0..MaxMade]

Attempt == [pc : {"idle", "claimed", "locked", "read", "created", "failed", "stepfail", "refresh"},
            turn : 0..MaxTurn,
            force : BOOLEAN,   \* forceReconcile
            local : BOOLEAN,   \* localTrueforgeTurnId was loaded
            unc : BOOLEAN,     \* the lock found the turn uncertain
            api : BOOLEAN,     \* bindDurableTrueForgeTurn rather than a worker command
            found : 0..MaxMade]

NoAttempt == [pc |-> "idle", turn |-> 0, force |-> FALSE, local |-> FALSE, unc |-> FALSE,
              api |-> FALSE, found |-> 0]

\* Provider turns and attempts have their types.
LifecycleTypeOK ==
    /\ prov \in [TurnId -> Provider]
    /\ call \in [Worker -> Attempt]

LifecycleInit ==
    /\ prov = [t \in TurnId |-> [made |-> 0, again |-> 0, late |-> 0, lateAgain |-> 0]]
    /\ call = [w \in Worker |-> NoAttempt]

-----------------------------------------------------------------------------
(***************************************************************************)
(* Attempts.  A worker command locks a turn named by the command; the API  *)
(* claims the item itself and goes on with the turn the claim opened.      *)
(***************************************************************************)
LatestOfStep(k, t) ==
    /\ turn[t].state # "absent" /\ turn[t].step = k
    /\ \A u \in TurnId : turn[u].state # "absent" /\ turn[u].step = k => u <= t

\* bindDurableTrueForgeTurn looks at the step's latest item, and claims it unless
\* the step's latest turn is already bound to a provider turn.
claimForBind(w, i, t, u) ==
    /\ call[w].pc = "idle"
    /\ \A j \in ItemId : item[j].state # "absent" /\ item[j].step = item[i].step => j <= i
    /\ \A x \in TurnId : LatestOfStep(item[i].step, x) => ~ turn[x].tf
    /\ claimTurnQueueItem(w, i, t, u)
    /\ call' = [call EXCEPT ![w] = [NoAttempt EXCEPT !.pc = "claimed", !.turn = t, !.api = TRUE]]
    /\ UNCHANGED prov

Lockable == {"acquiring", "creating", "uncertain"}

LockedTurns(t) == [turn EXCEPT ![t].state = IF @ = "acquiring" THEN "creating" ELSE @]

\* A create command says which state its sender saw: 'acquiring' asks for a
\* create, 'creating' or 'uncertain' forces reconciliation.  The state is not
\* compared with the row.  Without duplicates a turn gets one create command.
CommandDelivered(t, force) ==
    \/ force /\ turn[t].state \in {"creating", "uncertain"}
    \/ ~ force /\ ( \/ DuplicateCommands
                    \/ /\ turn[t].state = "acquiring"
                       /\ \A w \in Worker : call[w].turn # t )

\* Only these inputs have a create context; for the others the command fails.
HasCreateContext(t) == item[turn[t].item].type \in {"normal", "correction"}

executeCreateOrReconcileTurn(w, t, force, local) ==
    /\ call[w].pc = "idle"
    /\ turn[t].state \in Lockable
    /\ CommandDelivered(t, force)
    /\ HasCreateContext(t)
    /\ local => turn[t].tf
    /\ turn' = LockedTurns(t)
    /\ call' = [call EXCEPT ![w] = [NoAttempt EXCEPT !.pc = "locked", !.turn = t,
                   !.force = force, !.local = local, !.unc = (turn[t].state = "uncertain")]]
    /\ UNCHANGED <<sess, gen, run, step, item, group, act, prov>>

\* The API locks the turn it claimed; when the lock refuses, it fails the step.
lockClaimedTurn(w) ==
    LET t == call[w].turn IN
    /\ call[w].pc = "claimed"
    /\ \/ /\ turn[t].state \in Lockable
          /\ turn' = LockedTurns(t)
          /\ call' = [call EXCEPT ![w] = [@ EXCEPT !.pc = "locked",
                                                   !.unc = (turn[t].state = "uncertain")]]
       \/ /\ turn[t].state \notin Lockable
          /\ call' = [call EXCEPT ![w].pc = "stepfail"]
          /\ UNCHANGED turn
    /\ UNCHANGED <<sess, gen, run, step, item, group, act, prov>>

ReadsHistory(w) == call[w].force \/ call[w].local

\* history_read_failed: the attempt goes on to mark the turn uncertain.
historyReadFails(w) == [call EXCEPT ![w].pc = "failed"]

\* The history lists the turns opened for this input.  They match only if the
\* predecessor computed for the reconciliation is the one the create used.
listTurns(w) ==
    /\ call[w].pc = "locked" /\ ReadsHistory(w)
    /\ \/ \E n \in {0, prov[call[w].turn].made} :
             call' = [call EXCEPT ![w] = [@ EXCEPT !.pc = "read", !.found = n]]
       \/ call' = historyReadFails(w)
    /\ UNCHANGED <<tables, prov>>

\* Mutant: a reconciliation that finds nothing creates.
createWhenNotFound(w) ==
    IF call[w].found = 1 THEN "bind_existing"
    ELSE IF call[w].found > 1 \/ call[w].local THEN "fail_closed"
    ELSE "create_new"

\* decideCreateOrReconcile, and the rule that reconciliation never creates.
decideCreateOrReconcile(w) ==
    IF call[w].found = 1 THEN "bind_existing"
    ELSE IF call[w].found > 1 \/ call[w].local THEN "fail_closed"
    ELSE IF call[w].force \/ call[w].unc THEN "fail_closed"
    ELSE "create_new"

Decided(w) == \/ call[w].pc = "read"
              \/ call[w].pc = "locked" /\ ~ ReadsHistory(w)

failClosed(w) ==
    /\ Decided(w) /\ decideCreateOrReconcile(w) = "fail_closed"
    /\ call' = [call EXCEPT ![w].pc = "failed"]
    /\ UNCHANGED <<tables, prov>>

\* The create request: answered, or lost before or after it took effect, or given up
\* by a caller that timed out while the provider goes on.
createTurn(w) ==
    LET t == call[w].turn IN
    /\ Decided(w) /\ decideCreateOrReconcile(w) = "create_new"
    /\ \/ /\ prov[t].made < MaxMade
          /\ prov' = [prov EXCEPT ![t].made = @ + 1]
          /\ \E pc \in {"created", "failed"} : call' = [call EXCEPT ![w].pc = pc]
       \/ /\ LateEffects /\ prov[t].late < MaxMade
          /\ prov' = [prov EXCEPT ![t].late = @ + 1]
          /\ call' = [call EXCEPT ![w].pc = "failed"]
       \/ /\ call' = [call EXCEPT ![w].pc = "failed"]
          /\ UNCHANGED prov
    /\ UNCHANGED tables

\* The provider carries out a request whose caller is gone.
lateCreate(t) ==
    /\ prov[t].late > 0 /\ prov[t].made < MaxMade
    /\ prov' = [prov EXCEPT ![t].late = @ - 1, ![t].made = @ + 1]
    /\ UNCHANGED <<tables, call>>

lateResponse(t) ==
    /\ prov[t].lateAgain > 0 /\ prov[t].again < MaxMade
    /\ prov' = [prov EXCEPT ![t].lateAgain = @ - 1, ![t].again = @ + 1]
    /\ UNCHANGED <<tables, call>>

StreamTurn(t) ==
    /\ turn' = [turn EXCEPT ![t] = [@ EXCEPT !.state = "streaming", !.tf = TRUE]]
    /\ UNCHANGED <<sess, gen, run, step, item, group, act>>

\* bindTrueForgeTurnId(create_response): only a creating turn.
bindCreated(w) ==
    LET t == call[w].turn IN
    /\ call[w].pc = "created"
    /\ \/ /\ turn[t].state = "creating"
          /\ StreamTurn(t)
          /\ call' = [call EXCEPT ![w] = NoAttempt]
       \/ /\ turn[t].state # "creating"
          /\ call' = [call EXCEPT ![w].pc = "failed"]
          /\ UNCHANGED tables
    /\ UNCHANGED prov

\* bindTrueForgeTurnId(history_reconciliation): a creating or an uncertain turn.
\* The update of an uncertain turn can hit the remote-active index, which throws
\* the attempt away.
bindReconciled(w) ==
    LET t == call[w].turn IN
    /\ Decided(w) /\ decideCreateOrReconcile(w) = "bind_existing"
    /\ \/ /\ turn[t].state \in {"creating", "uncertain"} /\ IndexAdmits(t)
          /\ StreamTurn(t)
          /\ call' = [call EXCEPT ![w] = NoAttempt]
       \/ /\ turn[t].state \in {"creating", "uncertain"} /\ ~ IndexAdmits(t)
          /\ call' = [call EXCEPT ![w] = NoAttempt]
          /\ UNCHANGED tables
       \/ /\ turn[t].state \notin {"creating", "uncertain"}
          /\ call' = [call EXCEPT ![w].pc = "failed"]
          /\ UNCHANGED tables
    /\ UNCHANGED prov

AfterFailure(w) ==
    IF call[w].api THEN [call EXCEPT ![w].pc = "stepfail"] ELSE [call EXCEPT ![w] = NoAttempt]

\* Mutant: the create is not known to have started, so the turn is left as it is.
UncertainOnceStreaming == {"streaming", "uncertain"}

\* The states from which canTransitionAgentTurn leads to uncertain, and that itself.
MayBecomeUncertain == {"acquiring", "creating", "streaming", "uncertain"}

markAgentTurnUncertain(w) ==
    /\ call[w].pc = "failed"
    /\ turn' = [turn EXCEPT ![call[w].turn].state =
                   IF @ \in MayBecomeUncertain THEN "uncertain" ELSE @]
    /\ call' = AfterFailure(w)
    /\ UNCHANGED <<sess, gen, run, step, item, group, act, prov>>

\* markRunStepFailed: the step, and in a second transaction its run.
markRunStepFailed(w) ==
    /\ call[w].pc = "stepfail"
    /\ step' = [step EXCEPT ![turn[call[w].turn].step].state =
                   IF @ \in StepTerminal THEN @ ELSE "failed"]
    /\ call' = [call EXCEPT ![w].pc = "refresh"]
    /\ UNCHANGED <<sess, gen, run, item, turn, group, act, prov>>

refreshRunLifecycleForStep(w) ==
    /\ call[w].pc = "refresh"
    /\ run' = applyRunLifecycleProjection(step, step[turn[call[w].turn].step].run)
    /\ call' = [call EXCEPT ![w] = NoAttempt]
    /\ UNCHANGED <<sess, gen, step, item, turn, group, act, prov>>

\* The process dies: its attempt is forgotten, its transactions stand.
Crash(w) ==
    /\ call[w].pc # "idle"
    /\ call' = [call EXCEPT ![w] = NoAttempt]
    /\ UNCHANGED <<tables, prov>>

-----------------------------------------------------------------------------
(***************************************************************************)
(* Events.  A provider turn ends once, in a pause, in success or in an     *)
(* error, but any of its events may be delivered again.                    *)
(***************************************************************************)
FirstEvents  == {"delta", "pause", "done", "error"}
PauseEvents  == {"pause", "pause2"}
DoneEvents   == {"done", "done2"}
ErrorEvents  == {"error", "error2"}
Terminal(e)  == e \in PauseEvents \cup DoneEvents \cup ErrorEvents
SameTurn(e)  == IF e \in FirstEvents THEN FirstEvents ELSE EventId \ FirstEvents

Emitted(t, e) ==
    /\ e \in Emits
    /\ IF e \in FirstEvents THEN prov[t].made > 0 ELSE prov[t].again > 0
    /\ Terminal(e) => \A x \in turn[t].seen \cap SameTurn(e) : Terminal(x) => x = e
    /\ e \in {"done", "error"} => group[t].state = "absent"

\* The states the API passes as expectedTurnStates; the worker's are among them.
IngestStates == {"creating", "streaming", "required_actions", "completed", "failed"}

\* Mutant: a pause writes the step's waiting state into the turn.
TurnOutcomeOfStep(e, was) ==
    IF e \in PauseEvents THEN "awaiting"
    ELSE IF e \in DoneEvents THEN "completed"
    ELSE IF e \in ErrorEvents THEN "failed"
    ELSE IF was = "creating" THEN "streaming" ELSE was

\* Mutant: progress always means streaming, although it may be ingested after the outcome.
TurnOutcomeStreaming(e, was) ==
    IF e \in PauseEvents THEN "required_actions"
    ELSE IF e \in DoneEvents THEN "completed"
    ELSE IF e \in ErrorEvents THEN "failed" ELSE "streaming"

\* The turn, step and item states an event inserted for the first time leads to.
TurnOutcome(e, was) ==
    IF e \in PauseEvents THEN "required_actions"
    ELSE IF e \in DoneEvents THEN "completed"
    ELSE IF e \in ErrorEvents THEN "failed"
    ELSE IF was = "creating" THEN "streaming" ELSE was

StepOutcome(e, t, was) ==
    IF e \in PauseEvents THEN "awaiting"
    ELSE IF e \in DoneEvents THEN "completed"
    ELSE IF e \in ErrorEvents THEN "failed"
    ELSE IF turn[t].state = "creating" /\ was \in {"queued", "acquiring_session", "running"}
         THEN "running" ELSE was

SettledItem(row, state) == [row EXCEPT !.state = state, !.owner = NoWorker, !.expired = FALSE]

ItemOutcome(e, row) ==
    IF e \in PauseEvents \cup DoneEvents THEN SettledItem(row, "completed")
    ELSE IF e \in ErrorEvents THEN SettledItem(row, "failed")
    ELSE row

ingestNormalizedTrueForgeEvent(t, e) ==
    LET inserted == e \notin turn[t].seen
        k  == turn[t].step
        st == IF inserted THEN [step EXCEPT ![k].state = StepOutcome(e, t, @)] ELSE step
    IN  /\ turn[t].state \in IngestStates
        /\ Emitted(t, e)
        /\ turn' = IF inserted
                   THEN [turn EXCEPT ![t].state = TurnOutcome(e, @), ![t].seen = @ \cup {e}]
                   ELSE turn
        /\ step' = st
        /\ item' = IF inserted THEN [item EXCEPT ![turn[t].item] = ItemOutcome(e, @)] ELSE item
        /\ run' = IF Terminal(e) \/ (inserted /\ turn[t].state = "creating")
                  THEN applyRunLifecycleProjection(st, step[k].run) ELSE run
        /\ UNCHANGED <<sess, gen, group, act, prov, call>>
=============================================================================
