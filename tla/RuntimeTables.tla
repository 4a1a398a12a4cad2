--------------------------- MODULE RuntimeTables ---------------------------
(***************************************************************************)
(* The PostgreSQL rows ForgeRoom's coworker runtime keeps, and the queries *)
(* every component makes over them.  A row is a record, a table a function *)
(* from row numbers to records; a row that has not been inserted yet has   *)
(* state "absent".  Rows are inserted in increasing number, so the number  *)
(* of a queue item also stands for its fifo_sequence, and the number of a  *)
(* turn for its started_at order.                                          *)
(*                                                                         *)
(* Each exported function of packages/db runs in one transaction, so one   *)
(* action of the modules that extend this one is one transaction.          *)
(***************************************************************************)
EXTENDS Integers, FiniteSets

CONSTANTS
    Session,     \* channel_agent_sessions of one channel
    Worker,      \* processes that claim leases and drive create attempts
    NoWorker,    \* NULL lease_owner
    Act,         \* required actions a provider pause can ask for
    Approval,    \* those answered by an approval decision; the rest are questions
    NoAct,       \* a queue item that is linked to no required action
    MaxRun, MaxStep, MaxItem, MaxTurn,  \* bounds on the rows a run may insert
    MaxGen,      \* bound on the generations of one session
    Emits        \* the provider events a run of the model delivers

ASSUME SessionAssumption == Session # {} /\ IsFiniteSet(Session)
ASSUME WorkerAssumption  == NoWorker \notin Worker
ASSUME ActAssumption     == Approval \subseteq Act /\ NoAct \notin Act /\ IsFiniteSet(Act)
\* Events of the provider turn first created for an agent turn, and of the one
\* that resumes it: progress, a pause with required actions, success, error.
EventId == {"delta", "pause", "done", "error", "delta2", "pause2", "done2", "error2"}

ASSUME EventAssumption   == Emits \subseteq EventId
ASSUME BoundAssumption   == /\ MaxRun \in Nat /\ MaxStep \in Nat /\ MaxItem \in Nat
                            /\ MaxTurn \in Nat /\ MaxGen \in Nat \ {0}

VARIABLES
    sess,    \* channel_agent_sessions of a channel that is not archived
    gen,     \* channel_agent_session_generations, by session
    run,     \* runs.lifecycle
    step,    \* run_steps
    item,    \* turn_queue_items
    turn,    \* agent_turns with the run_events ingested for them
    group,   \* pause_groups with their pause_resumes row, by source turn
    act      \* required_actions with their proposal or question, by source turn

tables == <<sess, gen, run, step, item, turn, group, act>>

RunId  == 1..MaxRun
StepId == 1..MaxStep
ItemId == 1..MaxItem
TurnId == 1..MaxTurn
GenId  == 1..MaxGen

(***************************************************************************)
(* Row types.  The three waiting step states (awaiting_input,              *)
(* awaiting_approval, blocked_connection) are told apart only by the text  *)
(* a browser shows; every guard in the code names all three, so they are   *)
(* one state here.                                                         *)
(***************************************************************************)
SessionRow == [state : {"active", "rotating"}, cur : GenId]

GenState == {"absent", "ready", "rotating", "retired"}

Lifecycle == {"absent", "queued", "active", "completed", "partial", "failed", "cancelled"}

StepState == {"absent", "queued", "acquiring_session", "running", "awaiting",
              "cancelling", "cancelled", "completed", "failed"}

StepRow == [state : StepState, run : 0..MaxRun, sess : Session]

InputType == {"normal", "correction", "pause_group_response"}

ItemState == {"absent", "queued", "claimed", "completed", "failed"}

ItemRow == [state : ItemState,
            type : InputType, sess : Session, step : 0..MaxStep, bound : 0..MaxGen,
            owner : Worker \cup {NoWorker}, expired : BOOLEAN,
            linkT : 0..MaxTurn, linkA : Act \cup {NoAct}]

TurnState == {"absent", "acquiring", "creating", "streaming", "required_actions",
              "completed", "failed", "cancelled", "uncertain"}

TurnRow == [state : TurnState,
            sess : Session, item : 0..MaxItem, step : 0..MaxStep, gen : 0..MaxGen,
            tf : BOOLEAN, seen : SUBSET Emits]

GroupRow == [state : {"absent", "collecting", "ready", "resuming", "resumed",
                      "uncertain", "cancelled", "stale"},
             need : SUBSET Act, count : Nat,
             resume : {"none", "claimed", "creating", "uncertain", "completed"}]

\* ra: required_actions.state; dec: the proposal's or the question's outcome.
ActRow == [ra  : {"absent", "pending", "resolved", "cancelled", "expired", "stale"},
           dec : {"open", "allowed", "denied", "changes", "answered", "expired", "stale"}]

(***************************************************************************)
(* Every table holds rows of its type.                                     *)
(***************************************************************************)
TypeOK ==
    /\ sess  \in [Session -> SessionRow]
    /\ gen   \in [Session -> [GenId -> GenState]]
    /\ run   \in [RunId -> Lifecycle]
    /\ step  \in [StepId -> StepRow]
    /\ item  \in [ItemId -> ItemRow]
    /\ turn  \in [TurnId -> TurnRow]
    /\ group \in [TurnId -> GroupRow]
    /\ act   \in [TurnId -> [Act -> ActRow]]

NullSession == CHOOSE s \in Session : TRUE

NoStep  == [state |-> "absent", run |-> 0, sess |-> NullSession]
NoItem  == [state |-> "absent", type |-> "normal", sess |-> NullSession, step |-> 0, bound |-> 0,
            owner |-> NoWorker, expired |-> FALSE, linkT |-> 0, linkA |-> NoAct]
NoTurn  == [state |-> "absent", sess |-> NullSession, item |-> 0, step |-> 0, gen |-> 0,
            tf |-> FALSE, seen |-> {}]
NoGroup == [state |-> "absent", need |-> {}, count |-> 0, resume |-> "none"]
NoActRow == [ra |-> "absent", dec |-> "open"]

(***************************************************************************)
(* A provisioned channel: every coworker session is active on generation   *)
(* 1, and nothing has been asked of it yet.                                *)
(***************************************************************************)
TablesInit ==
    /\ sess  = [s \in Session |-> [state |-> "active", cur |-> 1]]
    /\ gen   = [s \in Session |-> [g \in GenId |-> IF g = 1 THEN "ready" ELSE "absent"]]
    /\ run   = [r \in RunId |-> "absent"]
    /\ step  = [s \in StepId |-> NoStep]
    /\ item  = [i \in ItemId |-> NoItem]
    /\ turn  = [t \in TurnId |-> NoTurn]
    /\ group = [t \in TurnId |-> NoGroup]
    /\ act   = [t \in TurnId |-> [a \in Act |-> NoActRow]]

-----------------------------------------------------------------------------
(* Row allocation: the next insert takes the lowest absent row. *)

NextStep(k) == /\ step[k].state = "absent"
               /\ \A j \in StepId : j < k => step[j].state # "absent"
NextItem(i) == /\ item[i].state = "absent"
               /\ \A j \in ItemId : j < i => item[j].state # "absent"
NextTurn(t) == /\ turn[t].state = "absent"
               /\ \A j \in TurnId : j < t => turn[j].state # "absent"
NextRun(r)  == /\ run[r] = "absent"
               /\ \A j \in RunId : j < r => run[j] # "absent"

-----------------------------------------------------------------------------
(* Queries shared by the components. *)

\* The states the partial unique index agent_turns_remote_active_uidx covers
\* (nothing in the code ever enters 'resuming').
RemoteActiveState == {"acquiring", "creating", "streaming"}

RemoteActive(t) == turn[t].state \in RemoteActiveState

\* The index, for a turn that is about to enter a remote-active state.
IndexAdmits(t) ==
    \A u \in TurnId : RemoteActive(u) /\ turn[u].sess = turn[t].sess => u = t

TURN_QUEUE_PRIORITY(type) ==
    CASE type = "pause_group_response" -> 100
      [] type = "correction" -> 10
      [] type = "normal" -> 0

\* Mutant: fifo_sequence DESC.
PrecedesNewestFirst(i, j) ==
    LET pi == TURN_QUEUE_PRIORITY(item[i].type)
        pj == TURN_QUEUE_PRIORITY(item[j].type)
    IN  pi > pj \/ (pi = pj /\ i > j)

\* i precedes j in ORDER BY priority DESC, fifo_sequence ASC.
Precedes(i, j) ==
    LET pi == TURN_QUEUE_PRIORITY(item[i].type)
        pj == TURN_QUEUE_PRIORITY(item[j].type)
    IN  pi > pj \/ (pi = pj /\ i < j)

IsHead(i) ==
    /\ item[i].state = "queued"
    /\ \A j \in ItemId \ {i} :
          item[j].state = "queued" /\ item[j].sess = item[i].sess => Precedes(i, j)

UnresolvedGroups(s) ==
    {t \in TurnId : turn[t].sess = s /\ group[t].state \in {"collecting", "ready"}}

\* The turn a reclaim looks at: ORDER BY started_at DESC LIMIT 1.
LatestTurn(i, t) ==
    /\ turn[t].state # "absent" /\ turn[t].item = i
    /\ \A u \in TurnId : turn[u].state # "absent" /\ turn[u].item = i => u <= t

\* agent_turns_queue_binding_fk has no ON UPDATE clause: once a turn refers to
\* (item, generation), an update of the item to another generation aborts.
RebindAllowed(i, g) ==
    \A t \in TurnId : turn[t].state # "absent" /\ turn[t].item = i => turn[t].gen = g

StepTerminal == {"completed", "failed", "cancelled"}

(***************************************************************************)
(* The lifecycle of a run whose steps are in the states of S.  (The        *)
(* 'unknown' step state is never written, so its branch is left out.)      *)
(***************************************************************************)
aggregateRunFromSteps(S) ==
    IF S \subseteq {"queued"} THEN "queued"
    ELSE IF ~ (S \subseteq StepTerminal) THEN "active"
    ELSE IF S = {"completed"} THEN "completed"
    ELSE IF S = {"failed"} THEN "failed"
    ELSE IF S = {"cancelled"} THEN "cancelled"
    ELSE "partial"

StepStates(st, r) == {st[k].state : k \in {j \in StepId : st[j].state # "absent" /\ st[j].run = r}}

\* The run table after applyRunLifecycleProjection, given the new steps.
applyRunLifecycleProjection(st, r) == [run EXCEPT ![r] = aggregateRunFromSteps(StepStates(st, r))]
=============================================================================
