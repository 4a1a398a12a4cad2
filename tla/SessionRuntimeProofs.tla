------------------------ MODULE SessionRuntimeProofs ------------------------
(***************************************************************************)
(* The references between rows resolve, every variable has its type and a  *)
(* session has at most one remote-active turn; a session that accepts work *)
(* runs on exactly one ready generation, and waiting work follows it       *)
(* there, whatever rotations begin, complete, fail or crash, for every     *)
(* value of the constants.                                                 *)
(*                                                                         *)
(* LiveGeneration is not inductive: the abort reopens the generation its   *)
(* procedure remembered, and the completion makes the session active       *)
(* without a look at its generation.  ProcedureKnows says what a rotation  *)
(* under way may rely on.                                                  *)
(***************************************************************************)
EXTENDS SessionRuntime, TLAPS

-----------------------------------------------------------------------------
(***************************************************************************)
(* Types.  The type invariant is not inductive on its own: what an attempt *)
(* reads from its turn, and what a request for changes copies from the     *)
(* step it is about, have a type only because the references resolve, so   *)
(* the lemmas assume ReferencesResolve as well.                            *)
(***************************************************************************)

\* The placeholder session of an absent row is a session.
LEMMA NullSessionType == NullSession \in Session
  BY SessionAssumption DEF NullSession

\* Absent rows have their table's type.
LEMMA EmptyRows ==
    /\ NoStep \in StepRow /\ NoStep.state = "absent"
    /\ NoItem \in ItemRow /\ NoItem.state = "absent"
    /\ NoTurn \in TurnRow /\ NoTurn.state = "absent"
    /\ NoGroup \in GroupRow /\ NoGroup.state = "absent" /\ NoGroup.resume = "none"
    /\ NoActRow \in ActRow /\ NoActRow.ra = "absent"
  <1>1. NoStep \in StepRow /\ NoStep.state = "absent"
    BY NullSessionType, BoundAssumption DEF NoStep, StepRow, StepState
  <1>2. NoItem \in ItemRow /\ NoItem.state = "absent"
    BY NullSessionType, BoundAssumption DEF NoItem, ItemRow, ItemState, InputType
  <1>3. NoTurn \in TurnRow /\ NoTurn.state = "absent"
    BY NullSessionType, BoundAssumption DEF NoTurn, TurnRow, TurnState
  <1>4. NoGroup \in GroupRow /\ NoGroup.state = "absent" /\ NoGroup.resume = "none"
    BY DEF NoGroup, GroupRow
  <1>5. NoActRow \in ActRow /\ NoActRow.ra = "absent"
    BY DEF NoActRow, ActRow
  <1> QED BY <1>1, <1>2, <1>3, <1>4, <1>5

\* No attempt, resume or rotation has its type too.
LEMMA EmptyProcedures ==
    NoAttempt \in Attempt /\ NoResume \in ResumeAttempt /\ NoRotation \in Rotation
  BY BoundAssumption, CreateAssumption
  DEF NoAttempt, Attempt, NoResume, ResumeAttempt, NoRotation, Rotation

\* Row numbers are also values of the columns that refer to rows.
LEMMA RowNumbers ==
    RunId \subseteq 0..MaxRun /\ StepId \subseteq 0..MaxStep /\ ItemId \subseteq 0..MaxItem
    /\ TurnId \subseteq 0..MaxTurn /\ GenId \subseteq 0..MaxGen /\ 0 \in 0..MaxGen /\ 1 \in GenId
  BY BoundAssumption DEF RunId, StepId, ItemId, TurnId, GenId

\* The initial tables and procedures.
LEMMA InitTypes == Init => TypeInvariant
  <1> SUFFICES ASSUME Init PROVE TypeInvariant
    OBVIOUS
  <1>1. TypeOK
    BY EmptyRows, RowNumbers DEF Init, TablesInit, TypeOK, SessionRow, GenState, Lifecycle
  <1>2. LifecycleTypeOK
    BY EmptyProcedures, CreateAssumption DEF Init, LifecycleInit, LifecycleTypeOK, Provider
  <1>3. PauseTypeOK /\ ControlTypeOK /\ RotationTypeOK
    BY EmptyProcedures, RowNumbers
    DEF Init, PauseInit, PauseTypeOK, ControlInit, ControlTypeOK, RotationInit, RotationTypeOK
  <1> QED BY <1>1, <1>2, <1>3 DEF TypeInvariant

\* Steps that stutter.
LEMMA StutterTypes == TypeInvariant /\ UNCHANGED vars => TypeInvariant'
  BY DEF TypeInvariant, TypeOK, LifecycleTypeOK, PauseTypeOK, ControlTypeOK, RotationTypeOK,
         vars, tables, lifecycleVars, pauseVars

-----------------------------------------------------------------------------
(* Rows that are updated. *)

\* An update of a row's state, or of an item's lease, keeps the row's type.
LEMMA UpdatedRows ==
    /\ \A row \in StepRow, x \in StepState : [row EXCEPT !.state = x] \in StepRow
    /\ \A row \in TurnRow, x \in TurnState : [row EXCEPT !.state = x] \in TurnRow
    /\ \A row \in TurnRow, x \in TurnState, b \in BOOLEAN :
          [row EXCEPT !.state = x, !.tf = b] \in TurnRow
    /\ \A row \in ItemRow, x \in ItemState, o \in Worker \cup {NoWorker} :
          [row EXCEPT !.state = x, !.owner = o, !.expired = FALSE] \in ItemRow
    /\ \A row \in ItemRow, b \in BOOLEAN : [row EXCEPT !.expired = b] \in ItemRow
  <1>1. \A row \in StepRow, x \in StepState : [row EXCEPT !.state = x] \in StepRow
    BY DEF StepRow
  <1>2. \A row \in TurnRow, x \in TurnState : [row EXCEPT !.state = x] \in TurnRow
    BY DEF TurnRow
  <1>3. \A row \in TurnRow, x \in TurnState, b \in BOOLEAN :
          [row EXCEPT !.state = x, !.tf = b] \in TurnRow
    BY DEF TurnRow
  <1>4. \A row \in ItemRow, x \in ItemState, o \in Worker \cup {NoWorker} :
          [row EXCEPT !.state = x, !.owner = o, !.expired = FALSE] \in ItemRow
    BY DEF ItemRow
  <1>5. \A row \in ItemRow, b \in BOOLEAN : [row EXCEPT !.expired = b] \in ItemRow
    BY DEF ItemRow
  <1> QED BY <1>1, <1>2, <1>3, <1>4, <1>5

\* So does the table the row is in.
LEMMA UpdatedTables ==
    ASSUME TypeOK
    PROVE  /\ \A k \in StepId, x \in StepState :
                 [step EXCEPT ![k].state = x] \in [StepId -> StepRow]
           /\ \A t \in TurnId, x \in TurnState :
                 [turn EXCEPT ![t].state = x] \in [TurnId -> TurnRow]
           /\ \A i \in ItemId, row \in ItemRow : [item EXCEPT ![i] = row] \in [ItemId -> ItemRow]
  <1>1. \A k \in StepId, x \in StepState : [step EXCEPT ![k].state = x] \in [StepId -> StepRow]
    BY UpdatedRows DEF TypeOK
  <1>2. \A t \in TurnId, x \in TurnState : [turn EXCEPT ![t].state = x] \in [TurnId -> TurnRow]
    BY UpdatedRows DEF TypeOK
  <1> QED BY <1>1, <1>2 DEF TypeOK

-----------------------------------------------------------------------------
(* Rows that are inserted. *)

\* The rows createDirectMultiAgentRun, corrections and resumes insert.
LEMMA InsertedRows ==
    /\ \A r \in 0..MaxRun, s \in Session : QueuedStep(r, s) \in StepRow
    /\ \A type \in InputType, s \in Session, k \in 0..MaxStep, b \in 0..MaxGen :
          QueuedItem(type, s, k, b) \in ItemRow
    /\ \A type \in InputType, s \in Session, k \in 0..MaxStep, b \in 0..MaxGen,
          t \in 0..MaxTurn :
          /\ [QueuedItem(type, s, k, b) EXCEPT !.linkT = t] \in ItemRow
          /\ \A a \in Act : [QueuedItem(type, s, k, b) EXCEPT !.linkT = t, !.linkA = a] \in ItemRow
  <1>1. \A r \in 0..MaxRun, s \in Session : QueuedStep(r, s) \in StepRow
    BY DEF QueuedStep, StepRow, StepState
  <1>2. \A type \in InputType, s \in Session, k \in 0..MaxStep, b \in 0..MaxGen :
          QueuedItem(type, s, k, b) \in ItemRow
    BY EmptyRows DEF QueuedItem, ItemRow, ItemState
  <1>3. \A row \in ItemRow, t \in 0..MaxTurn :
          /\ [row EXCEPT !.linkT = t] \in ItemRow
          /\ \A a \in Act : [row EXCEPT !.linkT = t, !.linkA = a] \in ItemRow
    BY DEF ItemRow
  <1> QED BY <1>1, <1>2, <1>3

\* createDirectMultiAgentRun
LEMMA CreateRunTypes ==
    ASSUME TypeOK, NEW r \in RunId, NEW T \in SUBSET Session,
           NEW f \in [T -> StepId], NEW q \in [T -> ItemId], createDirectMultiAgentRun(r, T, f, q)
    PROVE  TypeOK'
  <1>1. run' \in [RunId -> Lifecycle]
    BY DEF createDirectMultiAgentRun, TypeOK, Lifecycle
  <1>2. step' \in [StepId -> StepRow]
    <2> SUFFICES ASSUME NEW k \in StepId, \E s \in T : f[s] = k
                 PROVE  QueuedStep(r, CHOOSE s \in T : f[s] = k) \in StepRow
      BY DEF createDirectMultiAgentRun, TypeOK
    <2>1. (CHOOSE s \in T : f[s] = k) \in Session
      OBVIOUS
    <2> QED BY <2>1, InsertedRows, RowNumbers
  <1>3. item' \in [ItemId -> ItemRow]
    <2> SUFFICES ASSUME NEW i \in ItemId, \E s \in T : q[s] = i
                 PROVE  LET s == CHOOSE x \in T : q[x] = i
                        IN  QueuedItem("normal", s, f[s], 0) \in ItemRow
      BY DEF createDirectMultiAgentRun, TypeOK
    <2> DEFINE s == CHOOSE x \in T : q[x] = i
    <2>1. s \in T /\ s \in Session
      OBVIOUS
    <2>2. f[s] \in 0..MaxStep
      BY <2>1, RowNumbers
    <2> HIDE DEF s
    <2>3. QueuedItem("normal", s, f[s], 0) \in ItemRow
      BY <2>1, <2>2, InsertedRows, RowNumbers DEF InputType
    <2> QED BY <2>3 DEF s
  <1> QED BY <1>1, <1>2, <1>3 DEF createDirectMultiAgentRun, TypeOK

\* claimTurnQueueItem
LEMMA ClaimTypes ==
    ASSUME TypeOK, NEW w \in Worker, NEW i \in ItemId, NEW t \in TurnId, NEW u \in 0..MaxTurn,
           claimTurnQueueItem(w, i, t, u)
    PROVE  TypeOK'
  <1> DEFINE s == item[i].sess
             cur == sess[s].cur
  <1>0. s \in Session /\ cur \in GenId /\ cur \in 0..MaxGen
    BY RowNumbers DEF TypeOK, ItemRow, SessionRow
  <1>1. item' \in [ItemId -> ItemRow]
    <2> DEFINE row == [item[i] EXCEPT !.state = "claimed", !.bound = cur,
                                      !.owner = w, !.expired = FALSE]
    <2>1. row \in ItemRow
      <3>1. item[i] \in ItemRow
        BY DEF TypeOK
      <3> HIDE DEF cur
      <3> QED BY <3>1, <1>0 DEF ItemRow, ItemState
    <2>2. item' = [item EXCEPT ![i] = row]
      BY DEF claimTurnQueueItem
    <2> QED BY <2>1, <2>2 DEF TypeOK
  <1>2. turn' \in [TurnId -> TurnRow]
    <2>1. SupersededTurns(u) \in [TurnId -> TurnRow]
      BY UpdatedRows DEF SupersededTurns, TypeOK, TurnState
    <2>2. [NoTurn EXCEPT !.state = "acquiring", !.sess = s, !.item = i,
                         !.step = item[i].step, !.gen = cur] \in TurnRow
      <3>1. item[i].step \in 0..MaxStep /\ i \in 0..MaxItem
        BY RowNumbers DEF TypeOK, ItemRow
      <3> HIDE DEF s, cur
      <3> QED BY <3>1, <1>0, EmptyRows DEF TurnRow, TurnState
    <2> QED BY <2>1, <2>2 DEF claimTurnQueueItem
  <1>3. step' \in [StepId -> StepRow]
    <2>1. SupersededSteps(u) \in [StepId -> StepRow]
      BY DEF SupersededSteps, TypeOK, StepRow, StepState
    <2> QED BY <2>1 DEF claimTurnQueueItem, AcquireStep, StepRow, StepState
  <1>4. run' \in [RunId -> Lifecycle]
    BY DEF claimTurnQueueItem, TypeOK, ActivateRun, Lifecycle
  <1>5. group' \in [TurnId -> GroupRow]
    BY ZenonT(60) DEF claimTurnQueueItem, TypeOK, GroupRow
  <1>6. act' \in [TurnId -> [Act -> ActRow]]
    <2>1. \A row \in ActRow : WithdrawActions(row) \in ActRow
      BY DEF WithdrawActions, ActRow
    <2> QED BY <2>1 DEF claimTurnQueueItem, TypeOK
  <1> QED BY <1>1, <1>2, <1>3, <1>4, <1>5, <1>6 DEF claimTurnQueueItem, TypeOK

\* LeaseExpires, heartbeatTurnQueueLease and reclaimExpiredTurnQueueLease
LEMMA LeaseTypes == TypeInvariant /\ LeaseStep => TypeInvariant'
  <1> SUFFICES ASSUME TypeInvariant, LeaseStep PROVE TypeInvariant'
    OBVIOUS
  <1>1. ASSUME NEW i \in ItemId, LeaseExpires(i) PROVE TypeOK'
    BY ZenonT(60), <1>1 DEF LeaseExpires, TypeInvariant, TypeOK, ItemRow
  <1>2. ASSUME NEW w \in Worker, NEW i \in ItemId, heartbeatTurnQueueLease(w, i) PROVE TypeOK'
    BY ZenonT(60), <1>2 DEF heartbeatTurnQueueLease, TypeInvariant, TypeOK, ItemRow
  <1>3. ASSUME NEW i \in ItemId, NEW t \in TurnId, reclaimExpiredTurnQueueLease(i, t) PROVE TypeOK'
    <2>1. turn' \in [TurnId -> TurnRow]
      BY <1>3, UpdatedTables DEF reclaimExpiredTurnQueueLease, TypeInvariant, TurnState
    <2>2. item' \in [ItemId -> ItemRow]
      BY <1>3, UpdatedRows DEF reclaimExpiredTurnQueueLease, TypeInvariant, TypeOK, ItemState
    <2> QED BY <1>3, <2>1, <2>2 DEF reclaimExpiredTurnQueueLease, TypeInvariant, TypeOK
  <1>4. UNCHANGED beyondTables
    BY DEF LeaseStep
  <1> QED BY <1>1, <1>2, <1>3, <1>4
          DEF LeaseStep, TypeInvariant, beyondTables, LifecycleTypeOK, PauseTypeOK, ControlTypeOK,
              RotationTypeOK, lifecycleVars, pauseVars

\* The queue: runs and claims
LEMMA QueueTypes == TypeInvariant /\ QueueStep => TypeInvariant'
  <1> SUFFICES ASSUME TypeInvariant, QueueStep PROVE TypeInvariant'
    OBVIOUS
  <1>1. TypeOK'
    BY CreateRunTypes, ClaimTypes DEF QueueStep, TypeInvariant
  <1>2. UNCHANGED beyondTables
    BY DEF QueueStep
  <1> QED BY <1>1, <1>2
          DEF TypeInvariant, beyondTables, LifecycleTypeOK, PauseTypeOK, ControlTypeOK,
              RotationTypeOK, lifecycleVars, pauseVars

-----------------------------------------------------------------------------
(* The turn lifecycle. *)

\* What an attempt's next step may write into its turn, its step and its run.
LEMMA LifecycleRows ==
    ASSUME TypeOK
    PROVE  /\ \A t \in TurnId : LockedTurns(t) \in [TurnId -> TurnRow]
           /\ \A t \in TurnId : [turn EXCEPT ![t] = [@ EXCEPT !.state = "streaming", !.tf = TRUE]]
                                \in [TurnId -> TurnRow]
           /\ \A st, r : applyRunLifecycleProjection(st, r) \in [RunId -> Lifecycle]
  <1>1. \A t \in TurnId : LockedTurns(t) \in [TurnId -> TurnRow]
    <2> SUFFICES ASSUME NEW t \in TurnId PROVE LockedTurns(t) \in [TurnId -> TurnRow]
      OBVIOUS
    <2>1. turn[t].state \in TurnState
      BY DEF TypeOK, TurnRow
    <2>2. (IF turn[t].state = "acquiring" THEN "creating" ELSE turn[t].state) \in TurnState
      BY <2>1 DEF TurnState
    <2> QED BY <2>2, UpdatedTables DEF LockedTurns
  <1>2. \A t \in TurnId : [turn EXCEPT ![t] = [@ EXCEPT !.state = "streaming", !.tf = TRUE]]
                          \in [TurnId -> TurnRow]
    BY UpdatedRows DEF TypeOK, TurnState
  <1>3. \A S : aggregateRunFromSteps(S) \in Lifecycle
    BY DEF aggregateRunFromSteps, Lifecycle
  <1>4. \A st, r : applyRunLifecycleProjection(st, r) \in [RunId -> Lifecycle]
    BY <1>3 DEF TypeOK, applyRunLifecycleProjection
  <1> QED BY <1>1, <1>2, <1>4

\* What it may write into its own progress.
LEMMA AttemptRows ==
    ASSUME LifecycleTypeOK, NEW w \in Worker
    PROVE  /\ [call EXCEPT ![w] = NoAttempt] \in [Worker -> Attempt]
           /\ \A pc \in {"idle", "claimed", "locked", "read", "created", "failed", "stepfail",
                         "refresh"} : [call EXCEPT ![w].pc = pc] \in [Worker -> Attempt]
           /\ AfterFailure(w) \in [Worker -> Attempt]
           /\ historyReadFails(w) \in [Worker -> Attempt]
  <1>1. [call EXCEPT ![w] = NoAttempt] \in [Worker -> Attempt]
    BY EmptyProcedures DEF LifecycleTypeOK
  <1>2. \A pc \in {"idle", "claimed", "locked", "read", "created", "failed", "stepfail",
                   "refresh"} : [call EXCEPT ![w].pc = pc] \in [Worker -> Attempt]
    BY DEF LifecycleTypeOK, Attempt
  <1> QED BY <1>1, <1>2 DEF AfterFailure, historyReadFails

\* Every step of a create-or-reconcile attempt
LEMMA AttemptTypes ==
    ASSUME TypeInvariant, ReferencesResolve, NEW w \in Worker, AttemptStep(w)
    PROVE  TypeOK' /\ LifecycleTypeOK'
  <1> TypeOK /\ LifecycleTypeOK
    BY DEF TypeInvariant
  <1>1. CASE lockClaimedTurn(w)
    <2> DEFINE t == call[w].turn
    <2>1. t \in TurnId
      BY <1>1 DEF lockClaimedTurn, ReferencesResolve, ProceduresHaveRows
    <2>2. turn' \in [TurnId -> TurnRow]
      BY <1>1, <2>1, LifecycleRows DEF lockClaimedTurn, TypeOK
    <2>3. call' \in [Worker -> Attempt]
      <3>1. \A b \in BOOLEAN : [call[w] EXCEPT !.pc = "locked", !.unc = b] \in Attempt
        BY DEF LifecycleTypeOK, Attempt
      <3>2. \A b \in BOOLEAN : [call EXCEPT ![w] = [@ EXCEPT !.pc = "locked", !.unc = b]]
                               \in [Worker -> Attempt]
        BY <3>1 DEF LifecycleTypeOK
      <3>3. [call EXCEPT ![w].pc = "stepfail"] \in [Worker -> Attempt]
        BY AttemptRows
      <3> QED BY <1>1, <3>2, <3>3 DEF lockClaimedTurn
    <2> QED BY <1>1, <2>2, <2>3 DEF lockClaimedTurn, TypeOK, LifecycleTypeOK
  <1>2. CASE listTurns(w)
    <2>1. call[w].turn \in TurnId
      BY <1>2 DEF listTurns, ReferencesResolve, ProceduresHaveRows
    <2>2. \A n \in {0, prov[call[w].turn].made} : n \in 0..MaxMade
      BY <2>1, CreateAssumption DEF LifecycleTypeOK, Provider
    <2>3. \A n \in 0..MaxMade : [call[w] EXCEPT !.pc = "read", !.found = n] \in Attempt
      BY DEF LifecycleTypeOK, Attempt
    <2>4. \A n \in 0..MaxMade : [call EXCEPT ![w] = [@ EXCEPT !.pc = "read", !.found = n]]
                                \in [Worker -> Attempt]
      BY <2>3 DEF LifecycleTypeOK
    <2>5. historyReadFails(w) \in [Worker -> Attempt]
      BY AttemptRows
    <2>6. call' \in [Worker -> Attempt]
      BY <1>2, <2>2, <2>4, <2>5 DEF listTurns
    <2> QED BY <1>2, <2>6 DEF listTurns, TypeOK, LifecycleTypeOK, tables
  <1>3. CASE failClosed(w)
    BY <1>3, AttemptRows DEF failClosed, TypeOK, LifecycleTypeOK, tables
  <1>4. CASE createTurn(w)
    <2>1. prov' \in [TurnId -> Provider]
      BY <1>4, CreateAssumption DEF createTurn, LifecycleTypeOK, Provider
    <2>2. call' \in [Worker -> Attempt]
      <3>1. \A pc \in {"created", "failed"} : [call EXCEPT ![w].pc = pc] \in [Worker -> Attempt]
        BY AttemptRows
      <3> QED BY <1>4, <3>1 DEF createTurn
    <2> QED BY <1>4, <2>1, <2>2 DEF createTurn, TypeOK, LifecycleTypeOK, tables
  <1>5. CASE bindCreated(w)
    <2>1. call[w].turn \in TurnId
      BY <1>5 DEF bindCreated, ReferencesResolve, ProceduresHaveRows
    <2>2. turn' \in [TurnId -> TurnRow]
      BY ZenonT(60), <1>5, <2>1, LifecycleRows DEF bindCreated, StreamTurn, TypeOK, tables
    <2>3. call' \in [Worker -> Attempt]
      <3>1. /\ [call EXCEPT ![w] = NoAttempt] \in [Worker -> Attempt]
            /\ [call EXCEPT ![w].pc = "failed"] \in [Worker -> Attempt]
        BY AttemptRows
      <3> QED BY <1>5, <3>1 DEF bindCreated
    <2>4. UNCHANGED <<sess, gen, run, step, item, group, act, prov>>
      BY <1>5 DEF bindCreated, StreamTurn, tables
    <2> QED BY <2>2, <2>3, <2>4 DEF TypeOK, LifecycleTypeOK
  <1>6. CASE bindReconciled(w)
    <2>1. call[w].turn \in TurnId
      BY <1>6 DEF bindReconciled, Decided, ReferencesResolve, ProceduresHaveRows
    <2>2. turn' \in [TurnId -> TurnRow]
      BY ZenonT(60), <1>6, <2>1, LifecycleRows DEF bindReconciled, StreamTurn, TypeOK, tables
    <2>3. call' \in [Worker -> Attempt]
      <3>1. /\ [call EXCEPT ![w] = NoAttempt] \in [Worker -> Attempt]
            /\ [call EXCEPT ![w].pc = "failed"] \in [Worker -> Attempt]
        BY AttemptRows
      <3> QED BY <1>6, <3>1 DEF bindReconciled
    <2>4. UNCHANGED <<sess, gen, run, step, item, group, act, prov>>
      BY <1>6 DEF bindReconciled, StreamTurn, tables
    <2> QED BY <2>2, <2>3, <2>4 DEF TypeOK, LifecycleTypeOK
  <1>7. CASE markAgentTurnUncertain(w)
    <2>1. turn' \in [TurnId -> TurnRow]
      <3>1. call[w].turn \in TurnId
        BY <1>7 DEF markAgentTurnUncertain, ReferencesResolve, ProceduresHaveRows
      <3>2. (IF turn[call[w].turn].state \in MayBecomeUncertain THEN "uncertain"
             ELSE turn[call[w].turn].state) \in TurnState
        BY <3>1 DEF TypeOK, TurnRow, TurnState
      <3> QED BY <1>7, <3>1, <3>2, UpdatedTables DEF markAgentTurnUncertain
    <2> QED BY <1>7, <2>1, AttemptRows DEF markAgentTurnUncertain, TypeOK, LifecycleTypeOK
  <1>8. CASE markRunStepFailed(w)
    <2>1. step' \in [StepId -> StepRow]
      BY ZenonT(60), <1>8 DEF markRunStepFailed, TypeOK, StepRow, StepState
    <2> QED BY <1>8, <2>1, AttemptRows DEF markRunStepFailed, TypeOK, LifecycleTypeOK
  <1>9. CASE refreshRunLifecycleForStep(w)
    BY <1>9, LifecycleRows, AttemptRows DEF refreshRunLifecycleForStep, TypeOK, LifecycleTypeOK
  <1> QED BY <1>1, <1>2, <1>3, <1>4, <1>5, <1>6, <1>7, <1>8, <1>9 DEF AttemptStep

\* executeCreateOrReconcileTurn
LEMMA CommandTypes ==
    ASSUME TypeInvariant, NEW w \in Worker, CommandStep(w)
    PROVE  TypeOK' /\ LifecycleTypeOK'
  <1> PICK t \in TurnId, force \in BOOLEAN, local \in BOOLEAN :
           executeCreateOrReconcileTurn(w, t, force, local)
    BY DEF CommandStep
  <1>1. turn' \in [TurnId -> TurnRow]
    BY LifecycleRows DEF executeCreateOrReconcileTurn, TypeInvariant
  <1>2. call' \in [Worker -> Attempt]
    <2>1. \A b \in BOOLEAN : [NoAttempt EXCEPT !.pc = "locked", !.turn = t, !.force = force,
                                               !.local = local, !.unc = b] \in Attempt
      BY EmptyProcedures, RowNumbers DEF Attempt
    <2> QED BY <2>1 DEF executeCreateOrReconcileTurn, TypeInvariant, LifecycleTypeOK
  <1> QED BY <1>1, <1>2 DEF executeCreateOrReconcileTurn, TypeInvariant, TypeOK, LifecycleTypeOK

\* ingestNormalizedTrueForgeEvent
LEMMA EventTypes ==
    ASSUME TypeInvariant, EventStep
    PROVE  TypeOK' /\ LifecycleTypeOK'
  <1> PICK t \in TurnId, e \in Emits : ingestNormalizedTrueForgeEvent(t, e)
    BY DEF EventStep
  <1>1. turn' \in [TurnId -> TurnRow]
    <2>1. TurnOutcome(e, turn[t].state) \in TurnState
      BY DEF TypeInvariant, TypeOK, TurnRow, TurnState, TurnOutcome
    <2>2. \A x \in TurnState : [turn EXCEPT ![t].state = x, ![t].seen = @ \cup {e}]
                               \in [TurnId -> TurnRow]
      BY DEF TypeInvariant, TypeOK, TurnRow
    <2> QED BY <2>1, <2>2 DEF ingestNormalizedTrueForgeEvent, TypeInvariant, TypeOK
  <1>2. step' \in [StepId -> StepRow]
    <2> DEFINE k == turn[t].step
               x == StepOutcome(e, t, step[k].state)
    <2>1. step' \in {step, [step EXCEPT ![k].state = x]}
      BY DEF ingestNormalizedTrueForgeEvent
    <2>2. CASE k \in StepId
      <3>1. x \in StepState
        BY <2>2 DEF TypeInvariant, TypeOK, StepRow, StepState, StepOutcome
      <3> QED BY <2>1, <2>2, <3>1, UpdatedTables DEF TypeInvariant, TypeOK
    <2>3. CASE k \notin StepId
      <3>1. [step EXCEPT ![k].state = x] = step
        BY <2>3 DEF TypeInvariant, TypeOK
      <3> QED BY <2>1, <3>1 DEF TypeInvariant, TypeOK
    <2> QED BY <2>2, <2>3
  <1>3. item' \in [ItemId -> ItemRow]
    <2>1. \A row \in ItemRow : ItemOutcome(e, row) \in ItemRow
      BY UpdatedRows DEF ItemOutcome, SettledItem, ItemState
    <2> QED BY <2>1 DEF ingestNormalizedTrueForgeEvent, TypeInvariant, TypeOK
  <1>4. run' \in [RunId -> Lifecycle]
    BY LifecycleRows DEF ingestNormalizedTrueForgeEvent, TypeInvariant, TypeOK
  <1> QED BY <1>1, <1>2, <1>3, <1>4
          DEF ingestNormalizedTrueForgeEvent, TypeInvariant, TypeOK, LifecycleTypeOK

\* The turn lifecycle
LEMMA LifecycleTypes == TypeInvariant /\ ReferencesResolve /\ LifecycleStep => TypeInvariant'
  <1> SUFFICES ASSUME TypeInvariant, ReferencesResolve, LifecycleStep PROVE TypeInvariant'
    OBVIOUS
  <1>1. ASSUME NEW t \in TurnId, lateCreate(t) \/ lateResponse(t)
        PROVE  TypeOK' /\ LifecycleTypeOK'
    <2>1. prov' \in [TurnId -> Provider]
      BY <1>1, CreateAssumption
      DEF lateCreate, lateResponse, TypeInvariant, LifecycleTypeOK, Provider
    <2> QED BY <1>1, <2>1
            DEF lateCreate, lateResponse, TypeInvariant, TypeOK, LifecycleTypeOK, tables
  <1>2. TypeOK' /\ LifecycleTypeOK'
    BY <1>1, AttemptTypes, CommandTypes, EventTypes DEF LifecycleStep
  <1>3. UNCHANGED <<pauseVars, correcting, rot>>
    BY DEF LifecycleStep
  <1> QED BY <1>2, <1>3 DEF TypeInvariant, PauseTypeOK, ControlTypeOK, RotationTypeOK, pauseVars

\* claimForBind
LEMMA ApiTypes == TypeInvariant /\ ApiStep => TypeInvariant'
  <1> SUFFICES ASSUME TypeInvariant, ApiStep PROVE TypeInvariant'
    OBVIOUS
  <1> PICK w \in Worker, i \in ItemId, t \in TurnId, u \in 0..MaxTurn : claimForBind(w, i, t, u)
    BY DEF ApiStep
  <1>1. TypeOK'
    BY ClaimTypes DEF claimForBind, TypeInvariant
  <1>2. call' \in [Worker -> Attempt]
    <2>1. [NoAttempt EXCEPT !.pc = "claimed", !.turn = t, !.api = TRUE] \in Attempt
      BY EmptyProcedures, RowNumbers DEF Attempt
    <2> QED BY <2>1 DEF claimForBind, TypeInvariant, LifecycleTypeOK
  <1>3. UNCHANGED <<prov, pauseVars, correcting, rot>>
    BY DEF ApiStep, claimForBind
  <1> QED BY <1>1, <1>2, <1>3
          DEF TypeInvariant, LifecycleTypeOK, PauseTypeOK, ControlTypeOK, RotationTypeOK, pauseVars

\* Crash and ResumerCrash
LEMMA CrashTypes == TypeInvariant /\ CrashStep => TypeInvariant'
  BY EmptyProcedures
  DEF CrashStep, Crash, ResumerCrash, TypeInvariant, TypeOK, LifecycleTypeOK, PauseTypeOK,
      ControlTypeOK, RotationTypeOK, tables, lifecycleVars, pauseVars

-----------------------------------------------------------------------------
(* Required actions. *)

\* AwaitHumans, the common part of a capture and a recapture
LEMMA AwaitTypes ==
    ASSUME TypeOK, NEW t \in TurnId, AwaitHumans(t)
    PROVE  /\ turn' \in [TurnId -> TurnRow] /\ step' \in [StepId -> StepRow]
           /\ item' \in [ItemId -> ItemRow] /\ run' \in [RunId -> Lifecycle]
  <1>1. turn' \in [TurnId -> TurnRow]
    BY UpdatedRows DEF AwaitHumans, TypeOK, TurnState
  <1>2. step' \in [StepId -> StepRow]
    BY UpdatedRows DEF AwaitHumans, TypeOK, StepState
  <1>3. item' \in [ItemId -> ItemRow]
    BY UpdatedRows DEF AwaitHumans, SettledItem, TypeOK, ItemState
  <1>4. run' \in [RunId -> Lifecycle]
    BY LifecycleRows DEF AwaitHumans
  <1> QED BY <1>1, <1>2, <1>3, <1>4

\* Captures, repeated captures and captures that fail
LEMMA CaptureTypes == TypeInvariant /\ CaptureStep => TypeInvariant'
  <1> SUFFICES ASSUME TypeInvariant, CaptureStep PROVE TypeInvariant'
    OBVIOUS
  <1> TypeOK
    BY DEF TypeInvariant
  <1> PICK t \in TurnId : \/ captureTrueForgeRequiredActions(t)
                          \/ \E need \in SUBSET Act : persistPauseGroupCapture(t, need)
                          \/ recapturePauseGroup(t)
                          \/ captureFails(t)
    BY DEF CaptureStep, buildPauseGroupCapturePlan
  <1>1. TypeOK'
    <2>1. CASE captureTrueForgeRequiredActions(t) \/ captureFails(t)
      BY <2>1 DEF captureTrueForgeRequiredActions, captureFails, TypeOK, tables
    <2>2. ASSUME NEW need \in SUBSET Act, persistPauseGroupCapture(t, need) PROVE TypeOK'
      <3>1. group' \in [TurnId -> GroupRow]
        <4>1. [NoGroup EXCEPT !.state = "collecting", !.need = need] \in GroupRow
          BY EmptyRows DEF GroupRow
        <4> QED BY <2>2, <4>1 DEF persistPauseGroupCapture, TypeOK
      <3>2. act' \in [TurnId -> [Act -> ActRow]]
        <4>1. [ra |-> "pending", dec |-> "open"] \in ActRow
          BY DEF ActRow
        <4> QED BY <2>2, <4>1, EmptyRows DEF persistPauseGroupCapture, TypeOK
      <3>3. AwaitHumans(t) /\ UNCHANGED <<sess, gen>>
        BY <2>2 DEF persistPauseGroupCapture
      <3> QED BY <3>1, <3>2, <3>3, AwaitTypes DEF TypeOK
    <2>3. CASE recapturePauseGroup(t)
      <3>1. AwaitHumans(t) /\ UNCHANGED <<sess, gen, group, act>>
        BY <2>3 DEF recapturePauseGroup
      <3> QED BY <3>1, AwaitTypes DEF TypeOK
    <2> QED BY <2>1, <2>2, <2>3
  <1>2. checked' \in SUBSET TurnId /\ UNCHANGED <<lifecycleVars, resumer, correcting, rot>>
    BY DEF CaptureStep, captureTrueForgeRequiredActions, persistPauseGroupCapture,
           recapturePauseGroup, captureFails, TypeInvariant, PauseTypeOK
  <1> QED BY <1>1, <1>2
          DEF TypeInvariant, LifecycleTypeOK, PauseTypeOK, ControlTypeOK, RotationTypeOK,
              lifecycleVars

\* The updates of a required action and of its group's count.
LEMMA DecisionRows ==
    ASSUME TypeOK, NEW t \in TurnId
    PROVE  /\ \A a \in Act, dec \in {"allowed", "denied", "changes", "answered"} :
                 [act EXCEPT ![t][a] = Resolve(@, dec)] \in [TurnId -> [Act -> ActRow]]
           /\ \A a \in Act, mark \in {"expired", "stale"} :
                 [act EXCEPT ![t][a] = Close(@, mark)] \in [TurnId -> [Act -> ActRow]]
           /\ CountResolved(t) => group' \in [TurnId -> GroupRow]
  <1>1. \A row \in ActRow, dec \in {"allowed", "denied", "changes", "answered"} :
           Resolve(row, dec) \in ActRow
    BY DEF Resolve, ActRow
  <1>2. \A row \in ActRow, mark \in {"expired", "stale"} : Close(row, mark) \in ActRow
    BY DEF Close, ActRow
  <1>3. CountResolved(t) => group' \in [TurnId -> GroupRow]
    <2> DEFINE full == group[t].count + 1 >= Cardinality(group[t].need)
    <2>1. CountResolved(t) => group' = [group EXCEPT ![t].count = @ + 1,
                                                     ![t].state = IF full THEN "ready" ELSE @]
      BY DEF CountResolved
    <2> HIDE DEF full
    <2>2. [group EXCEPT ![t].count = @ + 1] \in [TurnId -> GroupRow]
      <3>1. group[t].count \in Nat
        BY DEF TypeOK, GroupRow
      <3>2. \A row \in GroupRow, n \in Nat : [row EXCEPT !.count = n] \in GroupRow
        BY DEF GroupRow
      <3>3. \A n \in Nat : [group EXCEPT ![t].count = n] \in [TurnId -> GroupRow]
        BY <3>2 DEF TypeOK
      <3> QED BY <3>1, <3>3
    <2>3. \A g \in [TurnId -> GroupRow] :
             [g EXCEPT ![t].state = IF full THEN "ready" ELSE @] \in [TurnId -> GroupRow]
      BY DEF GroupRow
    <2> QED BY <2>1, <2>2, <2>3
  <1> QED BY <1>1, <1>2, <1>3 DEF TypeOK

\* Gate, approval, request for changes and answer
LEMMA DecisionTypes == TypeInvariant /\ ReferencesResolve /\ DecisionStep => TypeInvariant'
  <1> SUFFICES ASSUME TypeInvariant, ReferencesResolve, DecisionStep PROVE TypeInvariant'
    OBVIOUS
  <1> TypeOK
    BY DEF TypeInvariant
  <1> PICK t \in TurnId, a \in Act :
          \/ \E mark \in {"expired", "stale"} : evaluateGate(t, a, mark)
          \/ \E dec \in {"allowed", "denied"} : recordApprovalDecision(t, a, dec)
          \/ \E k \in StepId, i \in ItemId : recordRequestChanges(t, a, k, i)
          \/ \E dec \in {"answered", "stale"} : recordQuestionAnswer(t, a, dec)
    BY DEF DecisionStep
  <1>1. ASSUME NEW mark \in {"expired", "stale"}, evaluateGate(t, a, mark) PROVE TypeOK'
    BY <1>1, DecisionRows DEF evaluateGate, TypeOK
  <1>2. ASSUME NEW dec \in {"allowed", "denied"}, recordApprovalDecision(t, a, dec) PROVE TypeOK'
    <2>1. act' \in [TurnId -> [Act -> ActRow]]
      BY <1>2, DecisionRows DEF recordApprovalDecision
    <2>2. group' \in [TurnId -> GroupRow]
      BY <1>2, DecisionRows DEF recordApprovalDecision
    <2> QED BY <1>2, <2>1, <2>2 DEF recordApprovalDecision, TypeOK
  <1>3. ASSUME NEW k \in StepId, NEW i \in ItemId, recordRequestChanges(t, a, k, i) PROVE TypeOK'
    <2>1. turn[t].state # "absent"
      BY <1>3 DEF recordRequestChanges, Undecided, ReferencesResolve, PausesHaveTurns
    <2>2. turn[t].step \in StepId /\ turn[t].sess \in Session /\ turn[t].gen \in 0..MaxGen
      BY <2>1 DEF TypeOK, TurnRow, ReferencesResolve, TurnsHaveItems, ItemsHaveSteps
    <2>3. QueuedStep(step[turn[t].step].run, turn[t].sess) \in StepRow
      BY <2>2, InsertedRows DEF TypeOK, StepRow
    <2>4. [QueuedItem("correction", turn[t].sess, k, turn[t].gen) EXCEPT !.linkT = t, !.linkA = a]
          \in ItemRow
      BY <2>2, InsertedRows, RowNumbers DEF InputType
    <2>5. act' \in [TurnId -> [Act -> ActRow]]
      BY <1>3, DecisionRows DEF recordRequestChanges
    <2>6. step' \in [StepId -> StepRow] /\ item' \in [ItemId -> ItemRow]
      BY <1>3, <2>3, <2>4 DEF recordRequestChanges, TypeOK
    <2> QED BY <1>3, <2>5, <2>6 DEF recordRequestChanges, TypeOK
  <1>4. ASSUME NEW dec \in {"answered", "stale"}, recordQuestionAnswer(t, a, dec) PROVE TypeOK'
    <2>2. act' \in [TurnId -> [Act -> ActRow]]
      BY <1>4, DecisionRows DEF recordQuestionAnswer
    <2>3. group' \in [TurnId -> GroupRow]
      BY <1>4, DecisionRows DEF recordQuestionAnswer, TypeOK
    <2> QED BY <1>4, <2>2, <2>3 DEF recordQuestionAnswer, TypeOK
  <1>5. TypeOK'
    BY <1>1, <1>2, <1>3, <1>4
  <1>6. UNCHANGED <<lifecycleVars, pauseVars, correcting, rot>>
    <2>1. UNCHANGED <<correcting, rot>>
      BY DEF DecisionStep
    <2>2. ASSUME NEW mark, evaluateGate(t, a, mark) PROVE UNCHANGED <<lifecycleVars, pauseVars>>
      BY <2>2 DEF evaluateGate
    <2>3. ASSUME NEW dec, recordApprovalDecision(t, a, dec) \/ recordQuestionAnswer(t, a, dec)
          PROVE  UNCHANGED <<lifecycleVars, pauseVars>>
      BY <2>3 DEF recordApprovalDecision, recordQuestionAnswer
    <2>4. ASSUME NEW k, NEW i, recordRequestChanges(t, a, k, i)
          PROVE  UNCHANGED <<lifecycleVars, pauseVars>>
      BY <2>4 DEF recordRequestChanges
    <2> QED BY <2>1, <2>2, <2>3, <2>4
  <1> QED BY <1>5, <1>6
          DEF TypeInvariant, LifecycleTypeOK, PauseTypeOK, ControlTypeOK, RotationTypeOK,
              lifecycleVars, pauseVars

\* The updates of a group and of an attempt to resume it.
LEMMA ResumeRows ==
    /\ \A row \in GroupRow, x \in {"none", "claimed", "creating", "uncertain", "completed"} :
          [row EXCEPT !.resume = x] \in GroupRow
    /\ \A row \in GroupRow, x \in {"resuming", "resumed", "uncertain", "cancelled", "stale"} :
          [row EXCEPT !.state = x] \in GroupRow
    /\ \A row \in ResumeAttempt, x \in {"loaded", "creating", "read", "made", "failed"} :
          [row EXCEPT !.pc = x] \in ResumeAttempt
    /\ \A t \in TurnId : [NoResume EXCEPT !.pc = "loaded", !.turn = t] \in ResumeAttempt
  <1>1. \A row \in GroupRow, x \in {"none", "claimed", "creating", "uncertain", "completed"} :
          [row EXCEPT !.resume = x] \in GroupRow
    BY DEF GroupRow
  <1>2. \A row \in GroupRow, x \in {"resuming", "resumed", "uncertain", "cancelled", "stale"} :
          [row EXCEPT !.state = x] \in GroupRow
    BY DEF GroupRow
  <1>3. \A row \in ResumeAttempt, x \in {"loaded", "creating", "read", "made", "failed"} :
          [row EXCEPT !.pc = x] \in ResumeAttempt
    BY DEF ResumeAttempt
  <1>4. \A t \in TurnId : [NoResume EXCEPT !.pc = "loaded", !.turn = t] \in ResumeAttempt
    BY EmptyProcedures, RowNumbers DEF ResumeAttempt
  <1> QED BY <1>1, <1>2, <1>3, <1>4

\* The same for the tables they are in.
LEMMA ResumeTables ==
    ASSUME TypeOK, PauseTypeOK, NEW w \in Worker
    PROVE  /\ [resumer EXCEPT ![w] = NoResume] \in [Worker -> ResumeAttempt]
           /\ \A x \in {"loaded", "creating", "read", "made", "failed"} :
                 [resumer EXCEPT ![w].pc = x] \in [Worker -> ResumeAttempt]
           /\ \A t \in TurnId, x \in {"none", "claimed", "creating", "uncertain", "completed"} :
                 [group EXCEPT ![t].resume = x] \in [TurnId -> GroupRow]
           /\ \A g \in [TurnId -> GroupRow], t \in TurnId, x \in {"resumed", "uncertain"} :
                 [g EXCEPT ![t].state = IF @ \in {"resuming", "uncertain"} THEN x ELSE @]
                 \in [TurnId -> GroupRow]
  <1>1. [resumer EXCEPT ![w] = NoResume] \in [Worker -> ResumeAttempt]
    BY EmptyProcedures DEF PauseTypeOK
  <1>2. \A x \in {"loaded", "creating", "read", "made", "failed"} :
           [resumer EXCEPT ![w].pc = x] \in [Worker -> ResumeAttempt]
    BY ResumeRows DEF PauseTypeOK
  <1>3. \A t \in TurnId, x \in {"none", "claimed", "creating", "uncertain", "completed"} :
           [group EXCEPT ![t].resume = x] \in [TurnId -> GroupRow]
    BY ResumeRows DEF TypeOK
  <1>4. \A g \in [TurnId -> GroupRow], t \in TurnId, x \in {"resumed", "uncertain"} :
           [g EXCEPT ![t].state = IF @ \in {"resuming", "uncertain"} THEN x ELSE @]
           \in [TurnId -> GroupRow]
    BY DEF GroupRow
  <1> QED BY <1>1, <1>2, <1>3, <1>4

\* Every step of a resume
LEMMA ResumeTypes == TypeInvariant /\ ReferencesResolve /\ ResumeStep => TypeInvariant'
  <1> SUFFICES ASSUME TypeInvariant, ReferencesResolve, ResumeStep PROVE TypeInvariant'
    OBVIOUS
  <1> TypeOK /\ PauseTypeOK /\ LifecycleTypeOK
    BY DEF TypeInvariant
  <1> PICK w \in Worker :
          \/ \E t \in TurnId, i \in ItemId : claimPauseGroupResume(w, t, i)
          \/ \E t \in TurnId : loadPauseResumeForCreate(w, t)
          \/ ResumeAttemptStep(w)
    BY DEF ResumeStep
  <1> DEFINE t0 == resumer[w].turn
             Types == TypeOK' /\ PauseTypeOK' /\ LifecycleTypeOK'
  <1>1. ASSUME NEW t \in TurnId, NEW i \in ItemId, claimPauseGroupResume(w, t, i) PROVE Types
    <2>1. turn[t].sess \in Session /\ turn[t].step \in 0..MaxStep /\ turn[t].gen \in 0..MaxGen
      BY DEF TypeOK, TurnRow
    <2>2. [QueuedItem("pause_group_response", turn[t].sess, turn[t].step, turn[t].gen)
             EXCEPT !.linkT = t] \in ItemRow
      BY <2>1, InsertedRows, RowNumbers DEF InputType
    <2>3. item' \in [ItemId -> ItemRow]
      BY <1>1, <2>2 DEF claimPauseGroupResume, ResponseItem, TypeOK
    <2>4. [group[t] EXCEPT !.state = "resuming", !.resume = "claimed"] \in GroupRow
      BY DEF TypeOK, GroupRow
    <2>5. group' \in [TurnId -> GroupRow]
      BY <1>1, <2>4 DEF claimPauseGroupResume, TypeOK
    <2>6. resumer' \in [Worker -> ResumeAttempt]
      BY <1>1, ResumeRows DEF claimPauseGroupResume, PauseTypeOK
    <2> QED BY <1>1, <2>3, <2>5, <2>6
            DEF claimPauseGroupResume, TypeOK, PauseTypeOK, LifecycleTypeOK, lifecycleVars
  <1>2. ASSUME NEW t \in TurnId, loadPauseResumeForCreate(w, t) PROVE Types
    BY <1>2, ResumeRows
    DEF loadPauseResumeForCreate, TypeOK, PauseTypeOK, LifecycleTypeOK, tables, lifecycleVars
  <1>a. resumer[w].pc # "idle" => t0 \in TurnId
    BY DEF ReferencesResolve, ProceduresHaveRows
  <1>b. /\ [resumer EXCEPT ![w] = NoResume] \in [Worker -> ResumeAttempt]
        /\ [resumer EXCEPT ![w].pc = "creating"] \in [Worker -> ResumeAttempt]
        /\ [resumer EXCEPT ![w].pc = "made"] \in [Worker -> ResumeAttempt]
        /\ [resumer EXCEPT ![w].pc = "failed"] \in [Worker -> ResumeAttempt]
    BY ResumeTables
  <1>3. ASSUME markPauseResumeCreating(w) PROVE Types
    <2>1. group' \in [TurnId -> GroupRow]
      <3>1. [group EXCEPT ![t0].resume = "creating"] \in [TurnId -> GroupRow]
        BY <1>3, <1>a, ResumeTables DEF markPauseResumeCreating
      <3> QED BY <1>3, <3>1 DEF markPauseResumeCreating, TypeOK
    <2>2. resumer' \in [Worker -> ResumeAttempt]
      BY <1>3, <1>b DEF markPauseResumeCreating
    <2> QED BY <1>3, <2>1, <2>2
            DEF markPauseResumeCreating, TypeOK, PauseTypeOK, LifecycleTypeOK, lifecycleVars
  <1>4. ASSUME listResponseTurns(w) PROVE Types
    <2>1. t0 \in TurnId
      BY <1>4 DEF listResponseTurns, ReferencesResolve, ProceduresHaveRows
    <2>2. prov[t0].again \in 0..MaxMade
      BY <2>1 DEF LifecycleTypeOK, Provider
    <2>3. \A n \in 0..MaxMade : [resumer[w] EXCEPT !.pc = "read", !.found = n] \in ResumeAttempt
      BY DEF PauseTypeOK, ResumeAttempt
    <2>4. resumer' \in [Worker -> ResumeAttempt]
      <3>1. [resumer EXCEPT ![w] = [@ EXCEPT !.pc = "read", !.found = prov[t0].again]]
            \in [Worker -> ResumeAttempt]
        BY <2>2, <2>3 DEF PauseTypeOK
      <3> QED BY <1>4, <3>1, <1>b DEF listResponseTurns
    <2> QED BY <1>4, <2>4
            DEF listResponseTurns, TypeOK, PauseTypeOK, LifecycleTypeOK, tables, lifecycleVars
  <1>5. ASSUME createResponseTurn(w) PROVE Types
    <2>1. prov' \in [TurnId -> Provider]
      BY <1>5, CreateAssumption DEF createResponseTurn, LifecycleTypeOK, Provider
    <2>2. resumer' \in [Worker -> ResumeAttempt]
      BY <1>5, <1>b DEF createResponseTurn
    <2> QED BY <1>5, <2>1, <2>2
            DEF createResponseTurn, TypeOK, PauseTypeOK, LifecycleTypeOK, tables
  <1>6. ASSUME completePauseResume(w) PROVE Types
    <2>1. group' \in [TurnId -> GroupRow]
      <3>1. resumer[w].pc # "idle"
        BY <1>6 DEF completePauseResume
      <3>2. [group EXCEPT ![t0].resume = "completed"] \in [TurnId -> GroupRow]
        BY <3>1, <1>a, ResumeTables
      <3>3. [[group EXCEPT ![t0].resume = "completed"] EXCEPT
               ![t0].state = IF @ \in {"resuming", "uncertain"} THEN "resumed" ELSE @]
            \in [TurnId -> GroupRow]
        BY <3>1, <3>2, <1>a, ResumeTables
      <3> QED BY <1>6, <3>3 DEF completePauseResume, TypeOK
    <2>2. resumer' \in [Worker -> ResumeAttempt]
      BY <1>6, <1>b DEF completePauseResume
    <2> QED BY <1>6, <2>1, <2>2
            DEF completePauseResume, TypeOK, PauseTypeOK, LifecycleTypeOK, lifecycleVars
  <1>7. ASSUME markPauseResumeUncertain(w) PROVE Types
    <2>1. group' \in [TurnId -> GroupRow]
      <3> DEFINE x == IF group[t0].resume \in PauseResumeOpen THEN "uncertain" ELSE group[t0].resume
      <3>1. t0 \in TurnId
        BY <1>7, <1>a DEF markPauseResumeUncertain
      <3>2. x \in {"none", "claimed", "creating", "uncertain", "completed"}
        BY <3>1 DEF TypeOK, GroupRow
      <3>3. [group EXCEPT ![t0].resume = x] \in [TurnId -> GroupRow]
        BY <3>1, <3>2, ResumeTables
      <3>4. [[group EXCEPT ![t0].resume = x] EXCEPT
               ![t0].state = IF @ \in {"resuming", "uncertain"} THEN "uncertain" ELSE @]
            \in [TurnId -> GroupRow]
        BY <3>1, <3>3, ResumeTables
      <3> QED BY <1>7, <3>4 DEF markPauseResumeUncertain
    <2>2. resumer' \in [Worker -> ResumeAttempt]
      BY <1>7, EmptyProcedures DEF markPauseResumeUncertain, PauseTypeOK
    <2> QED BY <1>7, <2>1, <2>2
            DEF markPauseResumeUncertain, TypeOK, PauseTypeOK, LifecycleTypeOK, lifecycleVars
  <1>8. Types
    BY <1>1, <1>2, <1>3, <1>4, <1>5, <1>6, <1>7 DEF ResumeAttemptStep
  <1>9. UNCHANGED <<correcting, rot>>
    BY DEF ResumeStep
  <1> QED BY <1>8, <1>9 DEF TypeInvariant, ControlTypeOK, RotationTypeOK

-----------------------------------------------------------------------------
(* Run control. *)

\* requestRunStepStop and settleCancelledStep
LEMMA StopTypes == TypeInvariant /\ StopStep => TypeInvariant'
  <1> SUFFICES ASSUME TypeInvariant, StopStep PROVE TypeInvariant'
    OBVIOUS
  <1> PICK k \in StepId : requestRunStepStop(k) \/ settleCancelledStep(k)
    BY DEF StopStep
  <1>1. step' \in [StepId -> StepRow]
    <2>1. TypeOK
      BY DEF TypeInvariant
    <2>2. /\ [step EXCEPT ![k].state = "cancelling"] \in [StepId -> StepRow]
          /\ [step EXCEPT ![k].state = "cancelled"] \in [StepId -> StepRow]
      BY <2>1, UpdatedTables DEF StepState
    <2> QED BY <2>2 DEF requestRunStepStop, settleCancelledStep
  <1>2. turn' \in [TurnId -> TurnRow]
    BY ZenonT(60), UpdatedRows DEF requestRunStepStop, settleCancelledStep, TypeInvariant, TypeOK, TurnState
  <1>3. UNCHANGED <<sess, gen, run, item, group, act, lifecycleVars, pauseVars, correcting, rot>>
    BY DEF StopStep, requestRunStepStop, settleCancelledStep
  <1> QED BY <1>1, <1>2, <1>3
          DEF TypeInvariant, TypeOK, LifecycleTypeOK, PauseTypeOK, ControlTypeOK, RotationTypeOK,
              lifecycleVars, pauseVars

\* insertCorrectionStep and enqueueCorrectionForStep
LEMMA CorrectionTypes == TypeInvariant /\ CorrectionStep => TypeInvariant'
  <1> SUFFICES ASSUME TypeInvariant, CorrectionStep PROVE TypeInvariant'
    OBVIOUS
  <1> TypeOK /\ ControlTypeOK
    BY DEF TypeInvariant
  <1>1. ASSUME NEW p \in StepId, NEW k \in StepId, NEW g \in GenId, insertCorrectionStep(p, k, g)
        PROVE  TypeOK' /\ ControlTypeOK'
    <2>1. QueuedStep(step[p].run, step[p].sess) \in StepRow
      BY InsertedRows DEF TypeOK, StepRow
    <2> QED BY <1>1, <2>1, RowNumbers DEF insertCorrectionStep, TypeOK, ControlTypeOK
  <1>2. ASSUME NEW k \in StepId, NEW i \in ItemId, enqueueCorrectionForStep(k, i)
        PROVE  TypeOK' /\ ControlTypeOK'
    <2>1. QueuedItem("correction", step[k].sess, k, correcting[k]) \in ItemRow
      BY InsertedRows, RowNumbers DEF TypeOK, StepRow, ControlTypeOK, InputType
    <2> QED BY <1>2, <2>1, RowNumbers DEF enqueueCorrectionForStep, TypeOK, ControlTypeOK
  <1>3. TypeOK' /\ ControlTypeOK'
    BY <1>1, <1>2 DEF CorrectionStep
  <1>4. UNCHANGED <<lifecycleVars, pauseVars, rot>>
    BY DEF CorrectionStep, insertCorrectionStep, enqueueCorrectionForStep
  <1> QED BY <1>3, <1>4
          DEF TypeInvariant, LifecycleTypeOK, PauseTypeOK, RotationTypeOK, lifecycleVars, pauseVars

\* markActiveTurnsNeedsAttentionOnRestart
LEMMA RestartTypes == TypeInvariant /\ RestartStep => TypeInvariant'
  <1> SUFFICES ASSUME TypeInvariant, RestartStep PROVE TypeInvariant'
    OBVIOUS
  <1>1. turn' \in [TurnId -> TurnRow]
    BY UpdatedRows
    DEF RestartStep, markActiveTurnsNeedsAttentionOnRestart, TypeInvariant, TypeOK, TurnState
  <1> QED BY <1>1
          DEF RestartStep, markActiveTurnsNeedsAttentionOnRestart, TypeInvariant, TypeOK,
              LifecycleTypeOK, PauseTypeOK, ControlTypeOK, RotationTypeOK, lifecycleVars, pauseVars

-----------------------------------------------------------------------------
(* Rotation. *)

\* Every step of a rotation, of its failure and of its crash
LEMMA RotationTypes ==
    ASSUME TypeInvariant, NEW s \in Session,
           \/ \E restrict \in BOOLEAN, a \in 0..MaxTurn : beginSessionRotation(s, restrict, a)
           \/ stopActiveTurn(s)
           \/ \E g \in GenId : atomicSwapSessionGeneration(s, g)
           \/ completeSessionRotation(s)
           \/ rotationThrows(s) \/ abortSessionRotation(s) \/ RotationCrash(s)
    PROVE  TypeInvariant'
  <1> TypeOK /\ RotationTypeOK
    BY DEF TypeInvariant
  <1> DEFINE Types == TypeOK' /\ RotationTypeOK'
  <1>0. /\ \A row \in Rotation, x \in {"stopped", "swapped", "failed"} :
              [row EXCEPT !.pc = x] \in Rotation
        /\ \A row \in SessionRow, x \in {"active", "rotating"} : [row EXCEPT !.state = x] \in SessionRow
        /\ \A row \in SessionRow, g \in GenId : [row EXCEPT !.cur = g] \in SessionRow
        /\ sess[s].cur \in GenId
    BY DEF Rotation, SessionRow, TypeOK
  <1>1. ASSUME NEW restrict \in BOOLEAN, NEW a \in 0..MaxTurn, beginSessionRotation(s, restrict, a)
        PROVE  Types
    <2>1. sess' \in [Session -> SessionRow]
      BY <1>1, <1>0 DEF beginSessionRotation, TypeOK
    <2>2. gen' \in [Session -> [GenId -> GenState]]
      BY <1>1 DEF beginSessionRotation, TypeOK, GenState
    <2>3. [NoRotation EXCEPT !.pc = "begun", !.prev = sess[s].cur, !.restrict = restrict,
                             !.active = a] \in Rotation
      BY <1>0, RowNumbers, EmptyProcedures DEF Rotation
    <2>4. rot' \in [Session -> Rotation]
      BY <1>1, <2>3 DEF beginSessionRotation, RotationTypeOK
    <2> QED BY <1>1, <2>1, <2>2, <2>4 DEF beginSessionRotation, TypeOK, RotationTypeOK
  <1>2. ASSUME stopActiveTurn(s) PROVE Types
    <2>1. step' \in [StepId -> StepRow]
      BY ZenonT(60), <1>2 DEF stopActiveTurn, TypeOK, StepRow, StepState
    <2>2. rot' \in [Session -> Rotation]
      BY <1>2, <1>0 DEF stopActiveTurn, RotationTypeOK
    <2> QED BY <1>2, <2>1, <2>2 DEF stopActiveTurn, TypeOK, RotationTypeOK
  <1>3. ASSUME NEW g \in GenId, atomicSwapSessionGeneration(s, g) PROVE Types
    <2>1. sess' \in [Session -> SessionRow]
      BY <1>3, <1>0 DEF atomicSwapSessionGeneration, TypeOK
    <2>2. gen' \in [Session -> [GenId -> GenState]]
      BY <1>3 DEF atomicSwapSessionGeneration, ReplaceGeneration, TypeOK, GenState
    <2>3. item' \in [ItemId -> ItemRow]
      <3>1. \A row \in ItemRow : [row EXCEPT !.bound = g] \in ItemRow
        BY RowNumbers DEF ItemRow
      <3> QED BY <1>3, <3>1 DEF atomicSwapSessionGeneration, TypeOK
    <2>4. group' \in [TurnId -> GroupRow]
      BY <1>3, ResumeRows DEF atomicSwapSessionGeneration, StaleGroups, TypeOK
    <2>5. act' \in [TurnId -> [Act -> ActRow]]
      <3>1. StaleActs(s, rot[s].prev) \in [TurnId -> [Act -> ActRow]]
        BY DEF StaleActs, TypeOK, ActRow
      <3> QED BY <1>3, <3>1 DEF atomicSwapSessionGeneration, TypeOK
    <2>6. [rot[s] EXCEPT !.pc = "swapped", !.new = g] \in Rotation
      BY RowNumbers DEF RotationTypeOK, Rotation
    <2>7. rot' \in [Session -> Rotation]
      BY <1>3, <2>6 DEF atomicSwapSessionGeneration, RotationTypeOK
    <2> QED BY <1>3, <2>1, <2>2, <2>3, <2>4, <2>5, <2>7
            DEF atomicSwapSessionGeneration, TypeOK, RotationTypeOK
  <1>4. ASSUME completeSessionRotation(s) PROVE Types
    <2>1. sess' \in [Session -> SessionRow]
      BY <1>4 DEF completeSessionRotation, TypeOK, SessionRow
    <2> QED BY <1>4, <2>1, EmptyProcedures DEF completeSessionRotation, TypeOK, RotationTypeOK
  <1>5. ASSUME rotationThrows(s) \/ RotationCrash(s) PROVE Types
    <2>1. rot' \in [Session -> Rotation]
      <3>1. /\ [rot EXCEPT ![s].pc = "failed"] \in [Session -> Rotation]
            /\ [rot EXCEPT ![s] = NoRotation] \in [Session -> Rotation]
        BY <1>0, EmptyProcedures DEF RotationTypeOK
      <3> QED BY <1>5, <3>1 DEF rotationThrows, RotationCrash
    <2> QED BY <1>5, <2>1 DEF rotationThrows, RotationCrash, TypeOK, RotationTypeOK, tables
  <1>6. ASSUME abortSessionRotation(s) PROVE Types
    <2>1. sess' \in [Session -> SessionRow]
      <3>1. [sess EXCEPT ![s].state = "active"] \in [Session -> SessionRow]
        BY <1>0 DEF TypeOK
      <3> QED BY <1>6, <3>1 DEF abortSessionRotation, TypeOK
    <2>2. gen' \in [Session -> [GenId -> GenState]]
      <3>1. [gen EXCEPT ![s][rot[s].prev] = IF @ = "rotating" THEN "ready" ELSE @]
            \in [Session -> [GenId -> GenState]]
        BY DEF TypeOK, GenState
      <3> QED BY <1>6, <3>1 DEF abortSessionRotation, TypeOK
    <2> QED BY <1>6, <2>1, <2>2, EmptyProcedures DEF abortSessionRotation, TypeOK, RotationTypeOK
  <1>7. Types
    BY <1>1, <1>2, <1>3, <1>4, <1>5, <1>6
  <1>8. UNCHANGED otherVars
    BY DEF beginSessionRotation, stopActiveTurn, atomicSwapSessionGeneration,
           completeSessionRotation, rotationThrows, abortSessionRotation, RotationCrash
  <1> QED BY <1>7, <1>8
          DEF TypeInvariant, otherVars, LifecycleTypeOK, PauseTypeOK, ControlTypeOK, lifecycleVars,
              pauseVars

-----------------------------------------------------------------------------
\* Every step of the runtime keeps the types, as long as the references resolve.
LEMMA NextTypes == TypeInvariant /\ ReferencesResolve /\ [Next]_vars => TypeInvariant'
  <1> SUFFICES ASSUME TypeInvariant, ReferencesResolve, [Next]_vars PROVE TypeInvariant'
    OBVIOUS
  <1>1. RotationStep \/ RotationFailureStep => TypeInvariant'
    BY RotationTypes DEF RotationStep, RotationFailureStep
  <1> QED BY <1>1, StutterTypes, QueueTypes, LeaseTypes, LifecycleTypes, ApiTypes, CrashTypes,
             CaptureTypes, DecisionTypes, ResumeTypes, StopTypes, CorrectionTypes, RestartTypes
          DEF Next

-----------------------------------------------------------------------------
(***************************************************************************)
(* References and the serial slot.  Most actions only change the state of  *)
(* rows that exist.  Kept says that of a step: no row appears or           *)
(* disappears, no reference changes, and no turn becomes remote-active.  A *)
(* step that is Kept preserves the invariant; the actions that insert      *)
(* rows, and the reconciliation that makes an uncertain turn remote-active *)
(* again, are treated on their own.                                        *)
(***************************************************************************)

\* The inductive invariant.
RuntimeInv == TypeInvariant /\ ReferencesResolve /\ OneRemoteActive

RunsKept == \A r \in RunId : run[r] # "absent" => run'[r] # "absent"

StepsKept ==
    \A k \in StepId : /\ step'[k].state = "absent" <=> step[k].state = "absent"
                      /\ step'[k].run = step[k].run /\ step'[k].sess = step[k].sess

ItemsKept ==
    \A i \in ItemId : /\ item'[i].state = "absent" <=> item[i].state = "absent"
                      /\ item'[i].sess = item[i].sess /\ item'[i].step = item[i].step

TurnsKept ==
    \A t \in TurnId : /\ turn'[t].state = "absent" <=> turn[t].state = "absent"
                      /\ turn'[t].sess = turn[t].sess
                      /\ turn'[t].item = turn[t].item /\ turn'[t].step = turn[t].step

SlotsKept == \A t \in TurnId : turn'[t].state \in RemoteActiveState => RemoteActive(t)

PausesKept ==
    \A t \in TurnId :
       /\ group'[t].state = "absent" <=> group[t].state = "absent"
       /\ \A a \in Act : act'[t][a].ra # "absent" => act[t][a].ra # "absent"

\* The procedures under way after the step are about rows that existed before it.
ProceduresKept ==
    /\ \A w \in Worker : call'[w].pc # "idle" =>
          call'[w].turn \in TurnId /\ turn[call'[w].turn].state # "absent"
    /\ \A w \in Worker : resumer'[w].pc # "idle" => resumer'[w].turn \in TurnId
    /\ \A k \in StepId : correcting'[k] # 0 => step[k].state # "absent"

Kept == RunsKept /\ StepsKept /\ ItemsKept /\ TurnsKept /\ PausesKept /\ ProceduresKept

\* A step that keeps the rows keeps the references between them.
LEMMA KeptReferences == ReferencesResolve /\ Kept => ReferencesResolve'
  <1> SUFFICES ASSUME ReferencesResolve, Kept PROVE ReferencesResolve'
    OBVIOUS
  <1>1. StepsHaveRuns'
    BY DEF Kept, RunsKept, StepsKept, ReferencesResolve, StepsHaveRuns
  <1>2. ItemsHaveSteps'
    BY DEF Kept, ItemsKept, StepsKept, ReferencesResolve, ItemsHaveSteps
  <1>3. TurnsHaveItems'
    BY DEF Kept, ItemsKept, TurnsKept, ReferencesResolve, TurnsHaveItems
  <1>4. PausesHaveTurns'
    BY DEF Kept, PausesKept, TurnsKept, ReferencesResolve, PausesHaveTurns
  <1>5. ProceduresHaveRows'
    BY DEF Kept, ProceduresKept, StepsKept, TurnsKept, ReferencesResolve, ProceduresHaveRows
  <1> QED BY <1>1, <1>2, <1>3, <1>4, <1>5 DEF ReferencesResolve

\* A step that makes no turn remote-active keeps the sessions' slots exclusive.
LEMMA KeptSlots == OneRemoteActive /\ TurnsKept /\ SlotsKept => OneRemoteActive'
  BY DEF OneRemoteActive, TurnsKept, SlotsKept, RemoteActive

\* Tables and procedures that do not change are kept.
LEMMA UnchangedKept ==
    /\ UNCHANGED run => RunsKept
    /\ UNCHANGED step => StepsKept
    /\ UNCHANGED item => ItemsKept
    /\ UNCHANGED turn => TurnsKept /\ SlotsKept
    /\ UNCHANGED <<group, act>> => PausesKept
    /\ ReferencesResolve /\ UNCHANGED <<call, resumer, correcting>> => ProceduresKept
  <1>1. ReferencesResolve /\ UNCHANGED <<call, resumer, correcting>> => ProceduresKept
    BY DEF ReferencesResolve, ProceduresHaveRows, ProceduresKept
  <1> QED BY <1>1 DEF RunsKept, StepsKept, ItemsKept, TurnsKept, SlotsKept, RemoteActive, PausesKept

\* Changing the state of a row that exists keeps its table.
LEMMA UpdateKept ==
    ASSUME TypeOK
    PROVE  /\ \A k \in StepId, x \in StepState \ {"absent"} :
                 step[k].state # "absent" /\ step' = [step EXCEPT ![k].state = x] => StepsKept
           /\ \A t \in TurnId, x \in TurnState \ {"absent"} :
                 turn[t].state # "absent" /\ turn' = [turn EXCEPT ![t].state = x] => TurnsKept
           /\ \A st, r : run' = applyRunLifecycleProjection(st, r) => RunsKept
  <1>1. \A k \in StepId, x \in StepState \ {"absent"} :
           step[k].state # "absent" /\ step' = [step EXCEPT ![k].state = x] => StepsKept
    BY DEF TypeOK, StepRow, StepsKept
  <1>2. \A t \in TurnId, x \in TurnState \ {"absent"} :
           turn[t].state # "absent" /\ turn' = [turn EXCEPT ![t].state = x] => TurnsKept
    BY DEF TypeOK, TurnRow, TurnsKept
  <1>3. \A S : aggregateRunFromSteps(S) # "absent"
    BY DEF aggregateRunFromSteps
  <1>4. \A st, r : run' = applyRunLifecycleProjection(st, r) => RunsKept
    BY <1>3 DEF TypeOK, applyRunLifecycleProjection, RunsKept
  <1> QED BY <1>1, <1>2, <1>4

-----------------------------------------------------------------------------
(* The initial state. *)

\* The initial tables are empty and no procedure is under way.
LEMMA InitInv == Init => RuntimeInv
  <1> SUFFICES ASSUME Init PROVE RuntimeInv
    OBVIOUS
  <1>1. ReferencesResolve
    BY EmptyRows
    DEF Init, TablesInit, LifecycleInit, PauseInit, ControlInit, NoAttempt, NoResume,
        ReferencesResolve, StepsHaveRuns, ItemsHaveSteps, TurnsHaveItems, PausesHaveTurns,
        ProceduresHaveRows
  <1>2. OneRemoteActive
    BY EmptyRows DEF Init, TablesInit, OneRemoteActive, RemoteActive, RemoteActiveState
  <1> QED BY <1>1, <1>2, InitTypes DEF RuntimeInv

-----------------------------------------------------------------------------
(* The queue. *)

\* createDirectMultiAgentRun: the new items refer to the new steps, which take rows
\* no turn, correction or item referred to before.
LEMMA CreateRunInv ==
    ASSUME RuntimeInv, NEW r \in RunId, NEW T \in SUBSET Session,
           NEW f \in [T -> StepId], NEW q \in [T -> ItemId],
           createDirectMultiAgentRun(r, T, f, q), UNCHANGED beyondTables
    PROVE  ReferencesResolve' /\ OneRemoteActive'
  <1> TypeOK /\ ReferencesResolve /\ OneRemoteActive
    BY DEF RuntimeInv, TypeInvariant
  <1>1. \A k \in StepId : \/ step[k].state = "absent" /\ step'[k].state = "queued"
                             /\ step'[k].run = r
                             /\ \E s \in T : f[s] = k /\ step'[k].sess = s
                          \/ step'[k] = step[k] /\ \A s \in T : f[s] # k
    BY DEF createDirectMultiAgentRun, QueuedStep
  <1>2. \A i \in ItemId : \/ item[i].state = "absent" /\ item'[i].state = "queued"
                             /\ \E s \in T : item'[i].step = f[s] /\ item'[i].sess = s
                          \/ item'[i] = item[i]
    <2> TAKE i \in ItemId
    <2>1. CASE \E s \in T : q[s] = i
      <3> DEFINE s == CHOOSE x \in T : q[x] = i
      <3>1. s \in T /\ q[s] = i
        BY <2>1
      <3>2. item'[i] = QueuedItem("normal", s, f[s], 0)
        BY <2>1 DEF createDirectMultiAgentRun
      <3> HIDE DEF s
      <3>3. item[i].state = "absent"
        BY <3>1 DEF createDirectMultiAgentRun
      <3>4. item'[i].state = "queued" /\ item'[i].step = f[s] /\ item'[i].sess = s
        BY <3>2, EmptyRows DEF QueuedItem, ItemRow
      <3> QED BY <3>1, <3>3, <3>4
    <2>2. CASE ~ \E s \in T : q[s] = i
      BY <2>2 DEF createDirectMultiAgentRun
    <2> QED BY <2>1, <2>2
  <1>3. \A s \in T : f[s] \in StepId /\ step'[f[s]].state = "queued" /\ step'[f[s]].sess = s
    BY <1>1 DEF createDirectMultiAgentRun
  <1>4. RunsKept /\ run'[r] # "absent"
    BY DEF createDirectMultiAgentRun, RunsKept, TypeOK
  <1>5. UNCHANGED <<turn, group, act, call, resumer, correcting>>
    BY DEF createDirectMultiAgentRun, beyondTables, lifecycleVars, pauseVars
  <1>6. StepsHaveRuns'
    BY <1>1, <1>4 DEF RunsKept, ReferencesResolve, StepsHaveRuns
  <1>7. ItemsHaveSteps'
    BY <1>1, <1>2, <1>3 DEF ReferencesResolve, ItemsHaveSteps
  <1>8. TurnsHaveItems'
    BY <1>2, <1>5 DEF ReferencesResolve, TurnsHaveItems
  <1>9. PausesHaveTurns' /\ ProceduresHaveRows'
    BY <1>1, <1>5 DEF ReferencesResolve, PausesHaveTurns, ProceduresHaveRows
  <1>10. OneRemoteActive'
    BY <1>5, KeptSlots, UnchangedKept
  <1> QED BY <1>6, <1>7, <1>8, <1>9, <1>10 DEF ReferencesResolve

\* claimTurnQueueItem: the new turn refers to its item, and takes a slot that the
\* eligibility check found free.
LEMMA ClaimInv ==
    ASSUME RuntimeInv, NEW w \in Worker, NEW i \in ItemId, NEW t \in TurnId, NEW u \in 0..MaxTurn,
           claimTurnQueueItem(w, i, t, u)
    PROVE  /\ StepsHaveRuns' /\ ItemsHaveSteps' /\ TurnsHaveItems' /\ PausesHaveTurns'
           /\ OneRemoteActive'
           /\ StepsKept
           /\ turn'[t].state # "absent"
           /\ \A x \in TurnId : turn[x].state # "absent" => turn'[x].state # "absent"
  <1> TypeOK /\ ReferencesResolve /\ OneRemoteActive
    BY DEF RuntimeInv, TypeInvariant
  <1> DEFINE s == item[i].sess
  <1>1. StepsKept
    <2> DEFINE st == SupersededSteps(u)
    <2>1. st \in [StepId -> StepRow]
      BY UpdatedRows DEF SupersededSteps, TypeOK, StepState
    <2>2. \A k \in StepId : /\ st[k].state = "absent" <=> step[k].state = "absent"
                            /\ st[k].run = step[k].run /\ st[k].sess = step[k].sess
      BY DEF SupersededSteps, TypeOK, StepRow
    <2>3. step' = AcquireStep(st, item[i].step)
      BY DEF claimTurnQueueItem
    <2> HIDE DEF st
    <2>4. \A k \in StepId : /\ step'[k].state = "absent" <=> st[k].state = "absent"
                            /\ step'[k].run = st[k].run /\ step'[k].sess = st[k].sess
      BY <2>1, <2>3 DEF AcquireStep, StepRow
    <2> QED BY <2>2, <2>4 DEF StepsKept
  <1>2. RunsKept
    BY DEF claimTurnQueueItem, ActivateRun, RunsKept, TypeOK
  <1>3. ItemsKept /\ item[i].state = "queued"
    BY DEF claimTurnQueueItem, IsHead, ItemsKept, TypeOK, ItemRow
  <1>4. /\ turn[t].state = "absent"
        /\ turn'[t].state = "acquiring" /\ turn'[t].sess = s
        /\ turn'[t].item = i /\ turn'[t].step = item[i].step
    <2>1. SupersededTurns(u) \in [TurnId -> TurnRow]
      BY UpdatedRows DEF SupersededTurns, TypeOK, TurnState
    <2> DEFINE row == [NoTurn EXCEPT !.state = "acquiring", !.sess = s, !.item = i,
                                     !.step = item[i].step, !.gen = sess[s].cur]
    <2>2. turn'[t] = row
      BY <2>1 DEF claimTurnQueueItem
    <2>3. row.state = "acquiring" /\ row.sess = s /\ row.item = i /\ row.step = item[i].step
      BY EmptyRows DEF TurnRow
    <2> QED BY <2>2, <2>3 DEF claimTurnQueueItem, NextTurn
  <1>5. \A x \in TurnId \ {t} :
           /\ turn'[x].state = "absent" <=> turn[x].state = "absent"
           /\ turn'[x].sess = turn[x].sess
           /\ turn'[x].item = turn[x].item /\ turn'[x].step = turn[x].step
           /\ turn'[x].state \in RemoteActiveState => RemoteActive(x)
    <2> TAKE x \in TurnId \ {t}
    <2>1. turn'[x] = SupersededTurns(u)[x]
      BY DEF claimTurnQueueItem, SupersededTurns
    <2>2. turn'[x] = turn[x] \/ (turn[x].state = "required_actions"
                                 /\ turn'[x] = [turn[x] EXCEPT !.state = "cancelled"])
      BY <2>1 DEF SupersededTurns
    <2> QED BY <2>2 DEF TypeOK, TurnRow, RemoteActive, RemoteActiveState
  <1>6. PausesKept
    <2>1. u \in TurnId => group[u].state # "absent"
      BY BoundAssumption DEF claimTurnQueueItem, Supersedes, LinkedCorrection, TurnId
    <2>2. \A x \in TurnId : group'[x].state = "absent" <=> group[x].state = "absent"
      BY <2>1 DEF claimTurnQueueItem, TypeOK, GroupRow
    <2>3. \A row \in ActRow : WithdrawActions(row).ra # "absent" => row.ra # "absent"
      BY DEF WithdrawActions, ActRow
    <2>4. \A x \in TurnId, a \in Act : act'[x][a].ra # "absent" => act[x][a].ra # "absent"
      BY <2>3 DEF claimTurnQueueItem, TypeOK
    <2> QED BY <2>2, <2>4 DEF PausesKept
  <1>7. StepsHaveRuns' /\ ItemsHaveSteps'
    BY <1>1, <1>2, <1>3
    DEF RunsKept, StepsKept, ItemsKept, ReferencesResolve, StepsHaveRuns, ItemsHaveSteps
  <1>8. TurnsHaveItems'
    BY <1>3, <1>4, <1>5 DEF ItemsKept, ReferencesResolve, TurnsHaveItems
  <1>9. PausesHaveTurns'
    BY <1>4, <1>5, <1>6 DEF PausesKept, ReferencesResolve, PausesHaveTurns
  <1>10. OneRemoteActive'
    <2>1. \A x \in TurnId : turn[x].sess = s => ~ RemoteActive(x)
      BY DEF claimTurnQueueItem, evaluateClaimEligibility
    <2> QED BY <2>1, <1>4, <1>5 DEF OneRemoteActive, RemoteActive
  <1> QED BY <1>1, <1>4, <1>5, <1>7, <1>8, <1>9, <1>10

\* Both steps of the queue.
LEMMA QueueInv == RuntimeInv /\ QueueStep => ReferencesResolve' /\ OneRemoteActive'
  <1> SUFFICES ASSUME RuntimeInv, QueueStep PROVE ReferencesResolve' /\ OneRemoteActive'
    OBVIOUS
  <1>1. ASSUME NEW w \in Worker, NEW i \in ItemId, NEW t \in TurnId, NEW u \in 0..MaxTurn,
               claimTurnQueueItem(w, i, t, u), UNCHANGED beyondTables
        PROVE  ReferencesResolve' /\ OneRemoteActive'
    <2>1. ProceduresHaveRows'
      BY <1>1, ClaimInv
      DEF RuntimeInv, ReferencesResolve, ProceduresHaveRows, StepsKept, beyondTables,
          lifecycleVars, pauseVars
    <2> QED BY <1>1, <2>1, ClaimInv DEF ReferencesResolve
  <1> QED BY <1>1, CreateRunInv DEF QueueStep

\* claimForBind: the API's attempt is about the turn its claim opened.
LEMMA ApiInv == RuntimeInv /\ ApiStep => ReferencesResolve' /\ OneRemoteActive'
  <1> SUFFICES ASSUME RuntimeInv, ApiStep PROVE ReferencesResolve' /\ OneRemoteActive'
    OBVIOUS
  <1> PICK w \in Worker, i \in ItemId, t \in TurnId, u \in 0..MaxTurn : claimForBind(w, i, t, u)
    BY DEF ApiStep
  <1>1. claimTurnQueueItem(w, i, t, u)
    BY DEF claimForBind
  <1>2. \A v \in Worker : call'[v] = call[v] \/ call'[v].turn = t
    BY DEF claimForBind, RuntimeInv, TypeInvariant, LifecycleTypeOK, NoAttempt
  <1>3. UNCHANGED <<resumer, correcting>>
    BY DEF ApiStep, pauseVars
  <1>4. ProceduresHaveRows'
    BY <1>1, <1>2, <1>3, ClaimInv DEF RuntimeInv, ReferencesResolve, ProceduresHaveRows, StepsKept
  <1> QED BY <1>1, <1>4, ClaimInv DEF ReferencesResolve

\* Leases
LEMMA LeaseInv == RuntimeInv /\ LeaseStep => ReferencesResolve' /\ OneRemoteActive'
  <1> SUFFICES ASSUME RuntimeInv, LeaseStep PROVE Kept /\ SlotsKept
    BY KeptReferences, KeptSlots DEF RuntimeInv, Kept
  <1> TypeOK /\ ReferencesResolve
    BY DEF RuntimeInv, TypeInvariant
  <1>1. ASSUME NEW i \in ItemId, NEW w \in Worker, heartbeatTurnQueueLease(w, i)
        PROVE  ItemsKept /\ UNCHANGED turn
    BY <1>1 DEF heartbeatTurnQueueLease, ItemsKept, TypeOK, ItemRow
  <1>2. ASSUME NEW i \in ItemId, LeaseExpires(i) PROVE ItemsKept /\ UNCHANGED turn
    BY <1>2 DEF LeaseExpires, ItemsKept, TypeOK, ItemRow
  <1>3. ASSUME NEW i \in ItemId, NEW t \in TurnId, reclaimExpiredTurnQueueLease(i, t)
        PROVE  ItemsKept /\ TurnsKept /\ SlotsKept
    <2>1. ItemsKept
      BY <1>3 DEF reclaimExpiredTurnQueueLease, ItemsKept, TypeOK, ItemRow
    <2>2. TurnsKept
      BY <1>3, UpdateKept DEF reclaimExpiredTurnQueueLease, LatestTurn, TurnState
    <2>3. SlotsKept
      BY <1>3 DEF reclaimExpiredTurnQueueLease, SlotsKept, RemoteActive, RemoteActiveState, TypeOK,
                  TurnRow
    <2> QED BY <2>1, <2>2, <2>3
  <1>4. ItemsKept /\ TurnsKept /\ SlotsKept
    BY <1>1, <1>2, <1>3, UnchangedKept DEF LeaseStep
  <1>5. UNCHANGED <<run, step, group, act, call, resumer, correcting>>
    BY DEF LeaseStep, LeaseExpires, heartbeatTurnQueueLease, reclaimExpiredTurnQueueLease,
           beyondTables, lifecycleVars, pauseVars
  <1> QED BY <1>4, <1>5, UnchangedKept DEF Kept

-----------------------------------------------------------------------------
(* The turn lifecycle. *)

\* The lock only moves a turn within the remote-active states.
LEMMA LockKept ==
    ASSUME TypeOK, NEW t \in TurnId, turn[t].state # "absent", turn' = LockedTurns(t)
    PROVE  TurnsKept /\ SlotsKept
  <1> DEFINE x == IF turn[t].state = "acquiring" THEN "creating" ELSE turn[t].state
  <1>1. x \in TurnState \ {"absent"}
    BY DEF TypeOK, TurnRow, TurnState
  <1>2. turn' = [turn EXCEPT ![t].state = x]
    BY DEF LockedTurns
  <1>3. x \in RemoteActiveState => RemoteActive(t)
    BY DEF RemoteActive, RemoteActiveState
  <1> HIDE DEF x
  <1>4. TurnsKept
    BY <1>1, <1>2, UpdateKept
  <1>5. SlotsKept
    BY <1>2, <1>3 DEF SlotsKept, RemoteActive, TypeOK, TurnRow
  <1> QED BY <1>4, <1>5

\* A step of an attempt other than the reconciliation keeps the rows and the slots.
LEMMA AttemptKept ==
    ASSUME RuntimeInv, NEW w \in Worker, AttemptStep(w), ~ bindReconciled(w)
    PROVE  TurnsKept /\ SlotsKept /\ StepsKept /\ RunsKept
  <1> TypeOK /\ ReferencesResolve
    BY DEF RuntimeInv, TypeInvariant
  <1> DEFINE t == call[w].turn
  <1>0. call[w].pc # "idle" => /\ t \in TurnId /\ turn[t].state # "absent"
                               /\ turn[t].step \in StepId /\ step[turn[t].step].state # "absent"
    BY DEF ReferencesResolve, ProceduresHaveRows, TurnsHaveItems, ItemsHaveSteps
  <1>1. CASE lockClaimedTurn(w)
    <2>1. t \in TurnId /\ turn[t].state # "absent"
      BY <1>1, <1>0 DEF lockClaimedTurn
    <2>2. turn' = turn \/ turn' = LockedTurns(t)
      BY <1>1 DEF lockClaimedTurn
    <2>3. TurnsKept /\ SlotsKept
      BY <2>1, <2>2, LockKept, UnchangedKept
    <2> QED BY <1>1, <2>3, UnchangedKept DEF lockClaimedTurn
  <1>2. CASE listTurns(w) \/ failClosed(w) \/ createTurn(w)
    BY <1>2, UnchangedKept DEF listTurns, failClosed, createTurn, tables
  <1>3. CASE bindCreated(w)
    <2>1. CASE UNCHANGED tables
      BY <2>1, UnchangedKept DEF tables
    <2>2. CASE turn[t].state = "creating" /\ StreamTurn(t)
      <3>1. t \in TurnId
        BY <1>3, <1>0 DEF bindCreated
      <3> HIDE DEF t
      <3>2. TurnsKept /\ SlotsKept
        BY <2>2, <3>1
        DEF StreamTurn, TurnsKept, SlotsKept, RemoteActive, RemoteActiveState, TypeOK, TurnRow
      <3> QED BY <2>2, <3>2, UnchangedKept DEF StreamTurn
    <2> QED BY <1>3, <2>1, <2>2 DEF bindCreated
  <1>4. CASE markAgentTurnUncertain(w)
    <2>1. t \in TurnId /\ turn[t].state # "absent"
      BY <1>4, <1>0 DEF markAgentTurnUncertain
    <2>2. TurnsKept
      <3> DEFINE x == IF turn[t].state \in MayBecomeUncertain THEN "uncertain"
                      ELSE turn[t].state
      <3>1. x \in TurnState \ {"absent"}
        BY <2>1 DEF TypeOK, TurnRow, TurnState
      <3>2. turn' = [turn EXCEPT ![t].state = x]
        BY <1>4 DEF markAgentTurnUncertain
      <3> HIDE DEF x
      <3> QED BY <2>1, <3>1, <3>2, UpdateKept
    <2>3. SlotsKept
      BY <1>4, <2>1
      DEF markAgentTurnUncertain, SlotsKept, RemoteActive, RemoteActiveState, TypeOK, TurnRow
    <2> QED BY <1>4, <2>2, <2>3, UnchangedKept DEF markAgentTurnUncertain
  <1>5. CASE markRunStepFailed(w)
    <2> DEFINE k == turn[t].step
               x == IF step[k].state \in StepTerminal THEN step[k].state ELSE "failed"
    <2>1. k \in StepId /\ step[k].state # "absent"
      BY <1>5, <1>0 DEF markRunStepFailed
    <2>2. x \in StepState \ {"absent"}
      BY <2>1 DEF TypeOK, StepRow, StepState
    <2>3. step' = [step EXCEPT ![k].state = x]
      BY <1>5 DEF markRunStepFailed
    <2> HIDE DEF x, k
    <2>4. StepsKept
      BY <2>1, <2>2, <2>3, UpdateKept
    <2> QED BY <1>5, <2>4, UnchangedKept DEF markRunStepFailed
  <1>6. CASE refreshRunLifecycleForStep(w)
    BY <1>6, UpdateKept, UnchangedKept DEF refreshRunLifecycleForStep
  <1> QED BY <1>1, <1>2, <1>3, <1>4, <1>5, <1>6 DEF AttemptStep

\* bindReconciled: the index admits the turn only into a free slot.
LEMMA ReconcileKept ==
    ASSUME RuntimeInv, NEW w \in Worker, bindReconciled(w)
    PROVE  TurnsKept /\ OneRemoteActive' /\ StepsKept /\ RunsKept
  <1> TypeOK /\ ReferencesResolve /\ OneRemoteActive
    BY DEF RuntimeInv, TypeInvariant
  <1> DEFINE t == call[w].turn
  <1>1. t \in TurnId
    BY DEF bindReconciled, Decided, ReferencesResolve, ProceduresHaveRows
  <1>2. CASE UNCHANGED tables
    BY <1>2, KeptSlots, UnchangedKept DEF tables
  <1>3. CASE turn[t].state \in {"creating", "uncertain"} /\ IndexAdmits(t) /\ StreamTurn(t)
    <2> HIDE DEF t
    <2>1. TurnsKept
      BY <1>1, <1>3 DEF StreamTurn, TurnsKept, TypeOK, TurnRow
    <2>2. \A x \in TurnId \ {t} : turn'[x] = turn[x]
      BY <1>1, <1>3 DEF StreamTurn, TypeOK
    <2>3. OneRemoteActive'
      BY <1>1, <1>3, <2>1, <2>2 DEF OneRemoteActive, RemoteActive, IndexAdmits, TurnsKept
    <2> QED BY <1>3, <2>1, <2>3, UnchangedKept DEF StreamTurn
  <1> QED BY <1>2, <1>3 DEF bindReconciled

\* What any step of an attempt does to the attempts under way.
LEMMA AttemptProcedures ==
    ASSUME RuntimeInv, NEW w \in Worker, AttemptStep(w)
    PROVE  \A v \in Worker : call'[v].pc # "idle" => call[v].pc # "idle" /\ call'[v].turn = call[v].turn
  <1> LifecycleTypeOK
    BY DEF RuntimeInv, TypeInvariant
  <1>0. /\ call[w] \in Attempt /\ NoAttempt.pc = "idle" /\ call[w].pc # "idle"
        /\ DOMAIN call = Worker
    BY DEF LifecycleTypeOK, NoAttempt, AttemptStep, lockClaimedTurn, listTurns, failClosed,
           createTurn, bindCreated, bindReconciled, Decided, markAgentTurnUncertain,
           markRunStepFailed, refreshRunLifecycleForStep
  <1>1. \E row : /\ call' = [call EXCEPT ![w] = row]
                 /\ row.pc # "idle" => row.turn = call[w].turn
    <2>1. CASE call' = [call EXCEPT ![w] = NoAttempt]
      BY <2>1, <1>0
    <2>2. ASSUME NEW x, call' = [call EXCEPT ![w].pc = x]
          PROVE  \E row : /\ call' = [call EXCEPT ![w] = row]
                          /\ row.pc # "idle" => row.turn = call[w].turn
      <3>1. /\ call' = [call EXCEPT ![w] = [@ EXCEPT !.pc = x]]
            /\ [call[w] EXCEPT !.pc = x].turn = call[w].turn
        BY <2>2, <1>0 DEF Attempt
      <3> QED BY <3>1
    <2>3. ASSUME NEW x, call' = [call EXCEPT ![w] = [@ EXCEPT !.pc = "locked", !.unc = x]]
          PROVE  \E row : /\ call' = [call EXCEPT ![w] = row]
                          /\ row.pc # "idle" => row.turn = call[w].turn
      <3>1. [call[w] EXCEPT !.pc = "locked", !.unc = x].turn = call[w].turn
        BY <1>0 DEF Attempt
      <3> QED BY <2>3, <3>1
    <2>4. ASSUME NEW x, call' = [call EXCEPT ![w] = [@ EXCEPT !.pc = "read", !.found = x]]
          PROVE  \E row : /\ call' = [call EXCEPT ![w] = row]
                          /\ row.pc # "idle" => row.turn = call[w].turn
      <3>1. [call[w] EXCEPT !.pc = "read", !.found = x].turn = call[w].turn
        BY <1>0 DEF Attempt
      <3> QED BY <2>4, <3>1
    <2> QED BY <2>1, <2>2, <2>3, <2>4
            DEF AttemptStep, lockClaimedTurn, listTurns, historyReadFails, failClosed, createTurn,
                bindCreated, bindReconciled, markAgentTurnUncertain, AfterFailure,
                markRunStepFailed, refreshRunLifecycleForStep
  <1> QED BY <1>0, <1>1

\* ingestNormalizedTrueForgeEvent: an event ends the turn or leaves it in its slot.
LEMMA EventKept ==
    ASSUME RuntimeInv, EventStep
    PROVE  TurnsKept /\ SlotsKept /\ StepsKept /\ ItemsKept /\ RunsKept
  <1> TypeOK /\ ReferencesResolve
    BY DEF RuntimeInv, TypeInvariant
  <1> PICK t \in TurnId, e \in Emits : ingestNormalizedTrueForgeEvent(t, e)
    BY DEF EventStep
  <1> DEFINE k == turn[t].step
             i == turn[t].item
  <1>0. /\ turn[t].state \in IngestStates
        /\ k \in StepId /\ step[k].state # "absent" /\ i \in ItemId /\ item[i].state # "absent"
    BY DEF ingestNormalizedTrueForgeEvent, IngestStates, ReferencesResolve, TurnsHaveItems,
           ItemsHaveSteps
  <1>1. TurnsKept /\ SlotsKept
    <2> DEFINE x == TurnOutcome(e, turn[t].state)
    <2>1. /\ x # "absent"
          /\ x \in RemoteActiveState => RemoteActive(t)
      BY <1>0 DEF TurnOutcome, IngestStates, RemoteActive, RemoteActiveState
    <2>2. turn' = turn \/ turn' = [turn EXCEPT ![t].state = x, ![t].seen = @ \cup {e}]
      BY DEF ingestNormalizedTrueForgeEvent
    <2> HIDE DEF x
    <2>3. CASE turn' = [turn EXCEPT ![t].state = x, ![t].seen = @ \cup {e}]
      BY <1>0, <2>1, <2>3
      DEF TurnsKept, SlotsKept, RemoteActive, IngestStates, TypeOK, TurnRow
    <2> QED BY <2>2, <2>3, UnchangedKept
  <1>2. StepsKept
    <2> DEFINE x == StepOutcome(e, t, step[k].state)
    <2>1. step' = step \/ step' = [step EXCEPT ![k].state = x]
      BY DEF ingestNormalizedTrueForgeEvent
    <2>2. x \in StepState \ {"absent"}
      BY <1>0 DEF StepOutcome, TypeOK, StepRow, StepState
    <2> HIDE DEF x, k
    <2> QED BY <1>0, <2>1, <2>2, UpdateKept, UnchangedKept
  <1>3. ItemsKept
    <2>1. item' = item \/ item' = [item EXCEPT ![i] = ItemOutcome(e, @)]
      BY DEF ingestNormalizedTrueForgeEvent
    <2>2. \A row \in ItemRow : /\ row.state # "absent" => ItemOutcome(e, row).state # "absent"
                               /\ ItemOutcome(e, row).sess = row.sess
                               /\ ItemOutcome(e, row).step = row.step
      BY DEF ItemOutcome, SettledItem, ItemRow
    <2> HIDE DEF i
    <2> QED BY <1>0, <2>1, <2>2 DEF ItemsKept, TypeOK
  <1>4. RunsKept
    BY UpdateKept, UnchangedKept DEF ingestNormalizedTrueForgeEvent
  <1> QED BY <1>1, <1>2, <1>3, <1>4

\* The turn lifecycle
LEMMA LifecycleInv == RuntimeInv /\ LifecycleStep => ReferencesResolve' /\ OneRemoteActive'
  <1> SUFFICES ASSUME RuntimeInv, LifecycleStep PROVE ReferencesResolve' /\ OneRemoteActive'
    OBVIOUS
  <1> TypeOK /\ ReferencesResolve /\ OneRemoteActive /\ LifecycleTypeOK
    BY DEF RuntimeInv, TypeInvariant
  <1>0. UNCHANGED <<resumer, correcting>>
    BY DEF LifecycleStep, pauseVars
  <1>1. ASSUME NEW w \in Worker, AttemptStep(w) PROVE ReferencesResolve' /\ OneRemoteActive'
    <2>1. TurnsKept /\ StepsKept /\ RunsKept /\ OneRemoteActive'
      BY <1>1, AttemptKept, ReconcileKept, KeptSlots
    <2>2. UNCHANGED <<item, group, act>>
      BY <1>1 DEF AttemptStep, lockClaimedTurn, listTurns, failClosed, createTurn, bindCreated,
                  bindReconciled, StreamTurn, markAgentTurnUncertain, markRunStepFailed,
                  refreshRunLifecycleForStep, tables
    <2>3. ProceduresKept
      BY <1>1, <1>0, AttemptProcedures DEF ReferencesResolve, ProceduresHaveRows, ProceduresKept
    <2> QED BY <2>1, <2>2, <2>3, UnchangedKept, KeptReferences DEF Kept
  <1>2. ASSUME NEW w \in Worker, CommandStep(w) PROVE Kept /\ SlotsKept
    <2> PICK t \in TurnId, force \in BOOLEAN, local \in BOOLEAN :
             executeCreateOrReconcileTurn(w, t, force, local)
      BY <1>2 DEF CommandStep
    <2>1. turn[t].state # "absent" /\ turn' = LockedTurns(t)
      BY DEF executeCreateOrReconcileTurn, Lockable
    <2>2. TurnsKept /\ SlotsKept
      BY <2>1, LockKept
    <2>3. \A v \in Worker : call'[v] = call[v] \/ call'[v].turn = t
      BY DEF executeCreateOrReconcileTurn, LifecycleTypeOK, NoAttempt
    <2>4. ProceduresKept
      BY <1>0, <2>1, <2>3 DEF ReferencesResolve, ProceduresHaveRows, ProceduresKept
    <2> QED BY <2>2, <2>4, UnchangedKept DEF executeCreateOrReconcileTurn, Kept
  <1>3. ASSUME EventStep PROVE Kept /\ SlotsKept
    <2>1. UNCHANGED <<group, act, call>>
      BY <1>3 DEF EventStep, ingestNormalizedTrueForgeEvent
    <2> QED BY <1>0, <1>3, <2>1, EventKept, UnchangedKept DEF Kept
  <1>4. ASSUME NEW t \in TurnId, lateCreate(t) \/ lateResponse(t) PROVE Kept /\ SlotsKept
    BY <1>0, <1>4, UnchangedKept DEF lateCreate, lateResponse, tables, Kept
  <1>5. ASSUME Kept, SlotsKept PROVE ReferencesResolve' /\ OneRemoteActive'
    BY <1>5, KeptReferences, KeptSlots DEF Kept
  <1> QED BY <1>1, <1>2, <1>3, <1>4, <1>5 DEF LifecycleStep

\* A crash only forgets attempts.
LEMMA CrashInv == RuntimeInv /\ CrashStep => ReferencesResolve' /\ OneRemoteActive'
  <1> SUFFICES ASSUME RuntimeInv, CrashStep PROVE Kept /\ SlotsKept
    BY KeptReferences, KeptSlots DEF RuntimeInv, Kept
  <1> ReferencesResolve
    BY DEF RuntimeInv
  <1>1. UNCHANGED <<tables, correcting>>
    BY DEF CrashStep, Crash, ResumerCrash
  <1>2. ProceduresKept
    <2>1. \A w \in Worker : call'[w] = call[w] \/ call'[w].pc = "idle"
      BY DEF CrashStep, Crash, ResumerCrash, NoAttempt, lifecycleVars, RuntimeInv, TypeInvariant,
             LifecycleTypeOK
    <2>2. \A w \in Worker : resumer'[w] = resumer[w] \/ resumer'[w].pc = "idle"
      BY DEF CrashStep, Crash, ResumerCrash, NoResume, pauseVars, RuntimeInv, TypeInvariant,
             PauseTypeOK
    <2> QED BY <1>1, <2>1, <2>2 DEF ReferencesResolve, ProceduresHaveRows, ProceduresKept
  <1> QED BY <1>1, <1>2, UnchangedKept DEF tables, Kept

-----------------------------------------------------------------------------
(* Required actions. *)

\* AwaitHumans takes the turn out of its slot.
LEMMA AwaitKept ==
    ASSUME TypeOK, ReferencesResolve, NEW t \in TurnId, turn[t].state # "absent", AwaitHumans(t)
    PROVE  TurnsKept /\ SlotsKept /\ StepsKept /\ ItemsKept /\ RunsKept
  <1> DEFINE k == turn[t].step
             i == turn[t].item
  <1>0. k \in StepId /\ step[k].state # "absent" /\ i \in ItemId /\ item[i].state # "absent"
    BY DEF ReferencesResolve, TurnsHaveItems, ItemsHaveSteps
  <1>1. TurnsKept /\ SlotsKept
    BY DEF AwaitHumans, TurnsKept, SlotsKept, RemoteActive, RemoteActiveState, TypeOK, TurnRow
  <1>2. StepsKept
    <2>1. step' = [step EXCEPT ![k].state = "awaiting"]
      BY DEF AwaitHumans
    <2> HIDE DEF k
    <2> QED BY <1>0, <2>1, UpdateKept DEF StepState
  <1>3. ItemsKept
    <2>1. item' = [item EXCEPT ![i] = SettledItem(@, "completed")]
      BY DEF AwaitHumans
    <2>2. \A row \in ItemRow : /\ SettledItem(row, "completed").state = "completed"
                               /\ SettledItem(row, "completed").sess = row.sess
                               /\ SettledItem(row, "completed").step = row.step
      BY DEF SettledItem, ItemRow
    <2> HIDE DEF i
    <2> QED BY <1>0, <2>1, <2>2 DEF ItemsKept, TypeOK
  <1>4. RunsKept
    BY UpdateKept DEF AwaitHumans
  <1> QED BY <1>1, <1>2, <1>3, <1>4

\* Captures: a pause is recorded for a turn that exists.
LEMMA CaptureInv == RuntimeInv /\ CaptureStep => ReferencesResolve' /\ OneRemoteActive'
  <1> SUFFICES ASSUME RuntimeInv, CaptureStep PROVE ReferencesResolve' /\ OneRemoteActive'
    OBVIOUS
  <1> TypeOK /\ ReferencesResolve /\ OneRemoteActive
    BY DEF RuntimeInv, TypeInvariant
  <1> PICK t \in TurnId : \/ captureTrueForgeRequiredActions(t)
                          \/ \E need \in SUBSET Act : persistPauseGroupCapture(t, need)
                          \/ recapturePauseGroup(t)
                          \/ captureFails(t)
    BY DEF CaptureStep, buildPauseGroupCapturePlan
  <1>0. UNCHANGED <<call, resumer, correcting>>
    BY DEF CaptureStep, captureTrueForgeRequiredActions, persistPauseGroupCapture,
           recapturePauseGroup, captureFails, lifecycleVars
  <1>1. CASE captureTrueForgeRequiredActions(t) \/ captureFails(t)
    <2>1. UNCHANGED tables
      BY <1>1 DEF captureTrueForgeRequiredActions, captureFails
    <2> QED BY <1>0, <2>1, UnchangedKept, KeptReferences, KeptSlots DEF tables, Kept
  <1>2. CASE recapturePauseGroup(t)
    <2>1. turn[t].state # "absent"
      BY <1>2 DEF recapturePauseGroup, ReferencesResolve, PausesHaveTurns
    <2>2. AwaitHumans(t) /\ UNCHANGED <<group, act>>
      BY <1>2 DEF recapturePauseGroup
    <2>3. Kept /\ SlotsKept
      BY <1>0, <2>1, <2>2, AwaitKept, UnchangedKept DEF Kept
    <2> QED BY <2>3, KeptReferences, KeptSlots DEF Kept
  <1>3. ASSUME NEW need \in SUBSET Act, persistPauseGroupCapture(t, need)
        PROVE  ReferencesResolve' /\ OneRemoteActive'
    <2>1. turn[t].state # "absent" /\ AwaitHumans(t)
      BY <1>3 DEF persistPauseGroupCapture
    <2>2. TurnsKept /\ SlotsKept /\ StepsKept /\ ItemsKept /\ RunsKept /\ ProceduresKept
      BY <1>0, <2>1, AwaitKept, UnchangedKept
    <2>3. \A x \in TurnId \ {t} : group'[x] = group[x] /\ act'[x] = act[x]
      BY <1>3 DEF persistPauseGroupCapture, TypeOK
    <2>7. group'[t].state # "absent"
      <3>1. [NoGroup EXCEPT !.state = "collecting", !.need = need].state = "collecting"
        BY EmptyRows DEF GroupRow
      <3> QED BY <1>3, <3>1 DEF persistPauseGroupCapture, TypeOK
    <2>4. PausesHaveTurns'
      BY <2>1, <2>2, <2>3, <2>7 DEF TurnsKept, ReferencesResolve, PausesHaveTurns
    <2>5. StepsHaveRuns' /\ ItemsHaveSteps'
      BY <2>2 DEF RunsKept, StepsKept, ItemsKept, ReferencesResolve, StepsHaveRuns, ItemsHaveSteps
    <2>6. TurnsHaveItems' /\ ProceduresHaveRows'
      BY <2>2 DEF TurnsKept, StepsKept, ItemsKept, ProceduresKept, ReferencesResolve,
                  TurnsHaveItems, ProceduresHaveRows
    <2> QED BY <2>2, <2>4, <2>5, <2>6, KeptSlots DEF ReferencesResolve
  <1> QED BY <1>1, <1>2, <1>3

\* A new step and its item, inserted together or one after the other.
LEMMA InsertStep ==
    ASSUME TypeOK, ReferencesResolve, NEW k \in StepId, NextStep(k),
           NEW r \in RunId, run[r] # "absent", NEW s \in Session,
           step' = [step EXCEPT ![k] = QueuedStep(r, s)], UNCHANGED run
    PROVE  /\ StepsHaveRuns'
           /\ step'[k].state # "absent" /\ step'[k].sess = s
           /\ \A j \in StepId : step[j].state # "absent" => step'[j] = step[j]
  BY DEF NextStep, QueuedStep, TypeOK, ReferencesResolve, StepsHaveRuns

\* An item whose step is there after the step keeps the items' references.
LEMMA InsertItem ==
    ASSUME TypeOK, ReferencesResolve, NEW i \in ItemId, NextItem(i), NEW row \in ItemRow,
           row.step \in StepId, step'[row.step].state # "absent", step'[row.step].sess = row.sess,
           \A j \in StepId : step[j].state # "absent" => step'[j] = step[j],
           item' = [item EXCEPT ![i] = row]
    PROVE  ItemsHaveSteps' /\ \A j \in ItemId : item[j].state # "absent" => item'[j] = item[j]
  <1>1. \A j \in ItemId : item'[j] = (IF j = i THEN row ELSE item[j])
    BY DEF TypeOK
  <1>2. item[i].state = "absent"
    BY DEF NextItem
  <1> QED BY <1>1, <1>2 DEF ReferencesResolve, ItemsHaveSteps

\* The columns of the rows that corrections and resumes insert.
LEMMA InsertedColumns ==
    ASSUME NEW type \in InputType, NEW s \in Session, NEW k \in 0..MaxStep, NEW b \in 0..MaxGen,
           NEW t, NEW a
    PROVE  /\ QueuedItem(type, s, k, b).step = k /\ QueuedItem(type, s, k, b).sess = s
           /\ [QueuedItem(type, s, k, b) EXCEPT !.linkT = t].step = k
           /\ [QueuedItem(type, s, k, b) EXCEPT !.linkT = t].sess = s
           /\ [QueuedItem(type, s, k, b) EXCEPT !.linkT = t, !.linkA = a].step = k
           /\ [QueuedItem(type, s, k, b) EXCEPT !.linkT = t, !.linkA = a].sess = s
  BY EmptyRows DEF QueuedItem, ItemRow

\* Decisions: a request for changes inserts a correction in the run and the session
\* of the turn it is about.
LEMMA DecisionInv == RuntimeInv /\ DecisionStep => ReferencesResolve' /\ OneRemoteActive'
  <1> SUFFICES ASSUME RuntimeInv, DecisionStep PROVE ReferencesResolve' /\ OneRemoteActive'
    OBVIOUS
  <1> TypeOK /\ ReferencesResolve /\ OneRemoteActive
    BY DEF RuntimeInv, TypeInvariant
  <1> PICK t \in TurnId, a \in Act :
          \/ \E mark \in {"expired", "stale"} : evaluateGate(t, a, mark)
          \/ \E dec \in {"allowed", "denied"} : recordApprovalDecision(t, a, dec)
          \/ \E k \in StepId, i \in ItemId : recordRequestChanges(t, a, k, i)
          \/ \E dec \in {"answered", "stale"} : recordQuestionAnswer(t, a, dec)
    BY DEF DecisionStep
  <1>0. Undecided(t, a)
    BY DEF evaluateGate, recordApprovalDecision, recordRequestChanges, recordQuestionAnswer
  <1>1. turn[t].state # "absent" /\ act[t][a].ra # "absent"
    BY <1>0 DEF Undecided, ReferencesResolve, PausesHaveTurns
  <1>2. \A x \in TurnId, b \in Act : act'[x][b].ra # "absent" => act[x][b].ra # "absent"
    <2>1. \E row : act' = [act EXCEPT ![t][a] = row]
      BY DEF evaluateGate, recordApprovalDecision, recordRequestChanges, recordQuestionAnswer
    <2> QED BY <1>1, <2>1 DEF TypeOK
  <1>3. group[t].state # "absent"
    BY <1>1 DEF ReferencesResolve, PausesHaveTurns
  <1>4. \A x \in TurnId : group'[x].state = "absent" <=> group[x].state = "absent"
    <2>1. group' = group \/ CountResolved(t)
      BY DEF evaluateGate, recordApprovalDecision, recordRequestChanges, recordQuestionAnswer
    <2>2. CASE CountResolved(t)
      <3>1. \A x \in TurnId \ {t} : group'[x] = group[x]
        BY <2>2 DEF CountResolved, TypeOK
      <3>2. group'[t].state \in {"ready", group[t].state}
        BY <2>2 DEF CountResolved, TypeOK, GroupRow
      <3> QED BY <1>3, <3>1, <3>2
    <2> QED BY <2>1, <2>2
  <1>5. PausesKept
    BY <1>2, <1>4 DEF PausesKept
  <1>6. UNCHANGED <<run, turn, call, resumer, correcting>>
    <2>1. UNCHANGED correcting
      BY DEF DecisionStep
    <2>2. UNCHANGED <<run, turn, lifecycleVars, pauseVars>>
      BY DEF evaluateGate, recordApprovalDecision, recordRequestChanges, recordQuestionAnswer
    <2> QED BY <2>1, <2>2 DEF lifecycleVars, pauseVars
  <1>7. CASE UNCHANGED <<step, item>>
    <2>1. Kept /\ SlotsKept
      BY <1>5, <1>6, <1>7, UnchangedKept DEF Kept
    <2> QED BY <2>1, KeptReferences, KeptSlots DEF Kept
  <1>8. ASSUME NEW k \in StepId, NEW i \in ItemId, recordRequestChanges(t, a, k, i)
        PROVE  ReferencesResolve' /\ OneRemoteActive'
    <2> DEFINE p == turn[t].step
               r == step[p].run
               s == turn[t].sess
               row == [QueuedItem("correction", s, k, turn[t].gen) EXCEPT !.linkT = t, !.linkA = a]
    <2>1. p \in StepId /\ step[p].state # "absent" /\ s \in Session /\ turn[t].gen \in 0..MaxGen
      BY <1>1 DEF ReferencesResolve, TurnsHaveItems, ItemsHaveSteps, TypeOK, TurnRow
    <2>2. r \in RunId /\ run[r] # "absent"
      BY <2>1 DEF ReferencesResolve, StepsHaveRuns
    <2>3. NextStep(k) /\ step' = [step EXCEPT ![k] = QueuedStep(r, s)]
      BY <1>8 DEF recordRequestChanges
    <2>4. NextItem(i) /\ item' = [item EXCEPT ![i] = row]
      BY <1>8 DEF recordRequestChanges
    <2>5. row \in ItemRow /\ row.step = k /\ row.sess = s
      <3> HIDE DEF s
      <3>1. /\ "correction" \in InputType /\ s \in Session /\ k \in 0..MaxStep
            /\ turn[t].gen \in 0..MaxGen /\ t \in 0..MaxTurn
        BY <2>1, RowNumbers DEF InputType
      <3>2. row \in ItemRow
        BY <3>1, InsertedRows
      <3> QED BY <3>1, <3>2, InsertedColumns
    <2> HIDE DEF row, s, r, p
    <2>6. /\ StepsHaveRuns'
          /\ step'[k].state # "absent" /\ step'[k].sess = s
          /\ \A j \in StepId : step[j].state # "absent" => step'[j] = step[j]
      BY <1>6, <2>1, <2>2, <2>3, InsertStep
    <2>7. /\ ItemsHaveSteps'
          /\ \A j \in ItemId : item[j].state # "absent" => item'[j] = item[j]
      BY <2>4, <2>5, <2>6, InsertItem
    <2>8. TurnsHaveItems' /\ PausesHaveTurns' /\ ProceduresHaveRows'
      BY <1>5, <1>6, <2>6, <2>7
      DEF ReferencesResolve, TurnsHaveItems, PausesKept, PausesHaveTurns, ProceduresHaveRows
    <2>9. OneRemoteActive'
      BY <1>6, UnchangedKept, KeptSlots
    <2> QED BY <2>6, <2>7, <2>8, <2>9 DEF ReferencesResolve
  <1> QED BY <1>7, <1>8 DEF evaluateGate, recordApprovalDecision, recordQuestionAnswer

\* Resumes: the response belongs to the step and the session of the turn that paused.
LEMMA ResumeInv == RuntimeInv /\ ResumeStep => ReferencesResolve' /\ OneRemoteActive'
  <1> SUFFICES ASSUME RuntimeInv, ResumeStep PROVE ReferencesResolve' /\ OneRemoteActive'
    OBVIOUS
  <1> TypeOK /\ ReferencesResolve /\ OneRemoteActive /\ PauseTypeOK
    BY DEF RuntimeInv, TypeInvariant
  <1> PICK w \in Worker :
          \/ \E t \in TurnId, i \in ItemId : claimPauseGroupResume(w, t, i)
          \/ \E t \in TurnId : loadPauseResumeForCreate(w, t)
          \/ ResumeAttemptStep(w)
    BY DEF ResumeStep
  <1>0. UNCHANGED <<run, step, turn, act, call, correcting>>
    BY DEF ResumeStep, claimPauseGroupResume, loadPauseResumeForCreate, ResumeAttemptStep,
           markPauseResumeCreating, listResponseTurns, createResponseTurn, completePauseResume,
           markPauseResumeUncertain, tables, lifecycleVars
  <1>1. \A v \in Worker : resumer'[v].pc # "idle" => resumer'[v].turn \in TurnId
    <2>1. \A v \in Worker \ {w} : resumer'[v] = resumer[v]
      BY DEF claimPauseGroupResume, loadPauseResumeForCreate, ResumeAttemptStep,
             markPauseResumeCreating, listResponseTurns, createResponseTurn, completePauseResume,
             markPauseResumeUncertain, PauseTypeOK
    <2>2. resumer'[w].pc # "idle" => resumer'[w].turn \in TurnId
      <3>1. ASSUME NEW t \in TurnId,
                   resumer' = [resumer EXCEPT ![w] = [NoResume EXCEPT !.pc = "loaded", !.turn = t]]
            PROVE  resumer'[w].turn \in TurnId
        BY <3>1 DEF PauseTypeOK, NoResume
      <3>2. ASSUME resumer[w].pc # "idle",
                   \/ resumer' = [resumer EXCEPT ![w] = NoResume]
                   \/ \E x : resumer' = [resumer EXCEPT ![w].pc = x]
                   \/ \E n : resumer' = [resumer EXCEPT ![w] = [@ EXCEPT !.pc = "read", !.found = n]]
            PROVE  resumer'[w].pc # "idle" => resumer'[w].turn \in TurnId
        <4>1. resumer[w].turn \in TurnId
          BY <3>2 DEF ReferencesResolve, ProceduresHaveRows
        <4>2. resumer'[w].pc = "idle" \/ resumer'[w].turn = resumer[w].turn
          <5>1. CASE resumer' = [resumer EXCEPT ![w] = NoResume]
            BY <5>1 DEF PauseTypeOK, NoResume
          <5>2. ASSUME NEW x, resumer' = [resumer EXCEPT ![w].pc = x]
                PROVE  resumer'[w].turn = resumer[w].turn
            BY <5>2 DEF PauseTypeOK, ResumeAttempt
          <5>3. ASSUME NEW n, resumer' = [resumer EXCEPT ![w] = [@ EXCEPT !.pc = "read", !.found = n]]
                PROVE  resumer'[w].turn = resumer[w].turn
            BY <5>3 DEF PauseTypeOK, ResumeAttempt
          <5> QED BY <3>2, <5>1, <5>2, <5>3
        <4> QED BY <4>1, <4>2
      <3>3. CASE ResumeAttemptStep(w)
        BY <3>2, <3>3 DEF ResumeAttemptStep, markPauseResumeCreating, listResponseTurns,
           createResponseTurn, completePauseResume, markPauseResumeUncertain
      <3> QED BY <3>1, <3>3 DEF claimPauseGroupResume, loadPauseResumeForCreate
    <2> QED BY <1>0, <2>1, <2>2 DEF ReferencesResolve, ProceduresHaveRows
  <1>2. ProceduresKept /\ ProceduresHaveRows'
    BY <1>0, <1>1 DEF ReferencesResolve, ProceduresHaveRows, ProceduresKept
  <1>3. ASSUME NEW t \in TurnId, NEW i \in ItemId, claimPauseGroupResume(w, t, i)
        PROVE  ReferencesResolve' /\ OneRemoteActive'
    <2> DEFINE k == turn[t].step
               s == turn[t].sess
               row == [QueuedItem("pause_group_response", s, k, turn[t].gen) EXCEPT !.linkT = t]
    <2>0. group[t].state = "ready" /\ group' = [group EXCEPT ![t] = [@ EXCEPT !.state = "resuming",
                                                                            !.resume = "claimed"]]
      BY <1>3 DEF claimPauseGroupResume
    <2>1. turn[t].state # "absent"
      BY <2>0 DEF ReferencesResolve, PausesHaveTurns
    <2>2. /\ k \in StepId /\ step[k].state # "absent" /\ step[k].sess = s
          /\ s \in Session /\ turn[t].gen \in 0..MaxGen
      BY <2>1 DEF ReferencesResolve, TurnsHaveItems, ItemsHaveSteps, TypeOK, TurnRow
    <2>3. NextItem(i) /\ item' = [item EXCEPT ![i] = row]
      BY <1>3 DEF claimPauseGroupResume, ResponseItem
    <2>4. row \in ItemRow /\ row.step = k /\ row.sess = s
      <3> HIDE DEF s, k
      <3>1. /\ "pause_group_response" \in InputType /\ s \in Session /\ k \in 0..MaxStep
            /\ turn[t].gen \in 0..MaxGen /\ t \in 0..MaxTurn
        BY <2>2, RowNumbers DEF InputType
      <3>2. row \in ItemRow
        BY <3>1, InsertedRows
      <3> QED BY <3>1, <3>2, InsertedColumns
    <2> HIDE DEF row, s, k
    <2>5. /\ ItemsHaveSteps'
          /\ \A j \in ItemId : item[j].state # "absent" => item'[j] = item[j]
      BY <1>0, <2>2, <2>3, <2>4, InsertItem
    <2>6. PausesKept
      BY <1>0, <2>0 DEF PausesKept, TypeOK, GroupRow
    <2>7. StepsHaveRuns' /\ TurnsHaveItems' /\ PausesHaveTurns'
      BY <1>0, <2>5, <2>6
      DEF ReferencesResolve, StepsHaveRuns, TurnsHaveItems, PausesKept, PausesHaveTurns
    <2> QED BY <1>0, <1>2, <2>5, <2>7, UnchangedKept, KeptSlots DEF ReferencesResolve
  <1>4. ASSUME UNCHANGED item, PausesKept PROVE ReferencesResolve' /\ OneRemoteActive'
    BY <1>0, <1>2, <1>4, UnchangedKept, KeptReferences, KeptSlots DEF Kept
  <1>5. ASSUME NEW t \in TurnId, loadPauseResumeForCreate(w, t) PROVE UNCHANGED item /\ PausesKept
    BY <1>5, UnchangedKept DEF loadPauseResumeForCreate, tables
  <1>6. ASSUME ResumeAttemptStep(w) PROVE UNCHANGED item /\ PausesKept
    <2> DEFINE t == resumer[w].turn
    <2>1. t \in TurnId
      BY <1>6 DEF ResumeAttemptStep, markPauseResumeCreating, listResponseTurns,
                  createResponseTurn, completePauseResume, markPauseResumeUncertain,
                  ReferencesResolve, ProceduresHaveRows
    <2>2. UNCHANGED item
      BY <1>6 DEF ResumeAttemptStep, markPauseResumeCreating, listResponseTurns,
                  createResponseTurn, completePauseResume, markPauseResumeUncertain, tables
    <2>3. ASSUME NEW x, group' = [group EXCEPT ![t].resume = x] PROVE PausesKept
      BY <1>0, <2>1, <2>3 DEF PausesKept, TypeOK, GroupRow
    <2>4. ASSUME NEW x, NEW y \in {"resumed", "uncertain"},
                 group' = [group EXCEPT ![t].resume = x,
                             ![t].state = IF @ \in {"resuming", "uncertain"} THEN y ELSE @]
          PROVE  PausesKept
      BY <1>0, <2>1, <2>4 DEF PausesKept, TypeOK, GroupRow
    <2>5. CASE markPauseResumeCreating(w)
      BY <1>0, <2>3, <2>5, UnchangedKept DEF markPauseResumeCreating
    <2>6. CASE listResponseTurns(w) \/ createResponseTurn(w)
      BY <2>6, UnchangedKept DEF listResponseTurns, createResponseTurn, tables
    <2>7. CASE completePauseResume(w)
      BY <1>0, <2>4, <2>7, UnchangedKept DEF completePauseResume
    <2>8. CASE markPauseResumeUncertain(w)
      BY <2>4, <2>8 DEF markPauseResumeUncertain
    <2> QED BY <1>6, <2>2, <2>5, <2>6, <2>7, <2>8 DEF ResumeAttemptStep
  <1> QED BY <1>3, <1>4, <1>5, <1>6

-----------------------------------------------------------------------------
(* Run control. *)

\* Stops: settling a step takes its turns out of their slots.
LEMMA StopInv == RuntimeInv /\ StopStep => ReferencesResolve' /\ OneRemoteActive'
  <1> SUFFICES ASSUME RuntimeInv, StopStep PROVE Kept /\ SlotsKept
    BY KeptReferences, KeptSlots DEF RuntimeInv, Kept
  <1> TypeOK /\ ReferencesResolve
    BY DEF RuntimeInv, TypeInvariant
  <1> PICK k \in StepId : requestRunStepStop(k) \/ settleCancelledStep(k)
    BY DEF StopStep
  <1>1. StepsKept
    BY UpdateKept DEF requestRunStepStop, Stoppable, settleCancelledStep, StepState
  <1>2. TurnsKept /\ SlotsKept
    <2>1. \A t \in TurnId : \/ turn'[t] = turn[t]
                            \/ /\ turn[t].state # "absent"
                               /\ turn'[t] = [turn[t] EXCEPT !.state = "cancelled"]
      BY DEF requestRunStepStop, settleCancelledStep, RemoteActiveState
    <2>2. \A row \in TurnRow : LET new == [row EXCEPT !.state = "cancelled"]
                               IN  /\ new.state = "cancelled" /\ new.sess = row.sess
                                   /\ new.item = row.item /\ new.step = row.step
      BY DEF TurnRow
    <2>3. \A t \in TurnId : turn[t] \in TurnRow
      BY DEF TypeOK
    <2> QED BY <2>1, <2>2, <2>3 DEF TurnsKept, SlotsKept, RemoteActive, RemoteActiveState
  <1>3. UNCHANGED <<run, item, group, act, call, resumer, correcting>>
    BY DEF requestRunStepStop, settleCancelledStep, lifecycleVars, pauseVars
  <1> QED BY <1>1, <1>2, <1>3, UnchangedKept DEF Kept

\* Corrections: the step is inserted first, and exists when its item is inserted.
LEMMA CorrectionInv == RuntimeInv /\ CorrectionStep => ReferencesResolve' /\ OneRemoteActive'
  <1> SUFFICES ASSUME RuntimeInv, CorrectionStep PROVE ReferencesResolve' /\ OneRemoteActive'
    OBVIOUS
  <1> TypeOK /\ ReferencesResolve /\ OneRemoteActive /\ ControlTypeOK
    BY DEF RuntimeInv, TypeInvariant
  <1>0. /\ UNCHANGED <<run, turn, group, act, call, resumer>>
        /\ OneRemoteActive'
    <2>1. UNCHANGED <<run, turn, group, act, call, resumer>>
      BY DEF CorrectionStep, insertCorrectionStep, enqueueCorrectionForStep, lifecycleVars,
             pauseVars
    <2> QED BY <2>1, UnchangedKept, KeptSlots
  <1>1. ASSUME NEW p \in StepId, NEW k \in StepId, NEW g \in GenId, insertCorrectionStep(p, k, g)
        PROVE  ReferencesResolve'
    <2> DEFINE r == step[p].run
               s == step[p].sess
    <2>1. r \in RunId /\ run[r] # "absent" /\ s \in Session
      BY <1>1 DEF insertCorrectionStep, ReferencesResolve, StepsHaveRuns, TypeOK, StepRow
    <2>2. NextStep(k) /\ step' = [step EXCEPT ![k] = QueuedStep(r, s)] /\ UNCHANGED item
      BY <1>1 DEF insertCorrectionStep
    <2> HIDE DEF r, s
    <2>3. /\ StepsHaveRuns' /\ step'[k].state # "absent"
          /\ \A j \in StepId : step[j].state # "absent" => step'[j] = step[j]
      BY <1>0, <2>1, <2>2, InsertStep
    <2>4. ItemsHaveSteps' /\ TurnsHaveItems' /\ PausesHaveTurns'
      BY <1>0, <2>2, <2>3
      DEF ReferencesResolve, ItemsHaveSteps, TurnsHaveItems, PausesHaveTurns
    <2>5. \A j \in StepId \ {k} : correcting'[j] = correcting[j]
      BY <1>1 DEF insertCorrectionStep, ControlTypeOK
    <2>6. ProceduresHaveRows'
      BY <1>0, <2>3, <2>5 DEF ReferencesResolve, ProceduresHaveRows
    <2> QED BY <2>3, <2>4, <2>6 DEF ReferencesResolve
  <1>2. ASSUME NEW k \in StepId, NEW i \in ItemId, enqueueCorrectionForStep(k, i)
        PROVE  ReferencesResolve'
    <2> DEFINE s == step[k].sess
               row == QueuedItem("correction", s, k, correcting[k])
    <2>1. /\ step[k].state # "absent" /\ s \in Session /\ correcting[k] \in 0..MaxGen
          /\ UNCHANGED step
      BY <1>2 DEF enqueueCorrectionForStep, ReferencesResolve, ProceduresHaveRows, TypeOK, StepRow,
                  ControlTypeOK
    <2>2. NextItem(i) /\ item' = [item EXCEPT ![i] = row]
      BY <1>2 DEF enqueueCorrectionForStep
    <2>3. row \in ItemRow /\ row.step = k /\ row.sess = s
      <3> HIDE DEF s
      <3>1. "correction" \in InputType /\ k \in 0..MaxStep
        BY RowNumbers DEF InputType
      <3>2. row \in ItemRow
        BY <2>1, <3>1, InsertedRows
      <3> QED BY <2>1, <3>1, <3>2, InsertedColumns
    <2> HIDE DEF row
    <2>4. /\ ItemsHaveSteps'
          /\ \A j \in ItemId : item[j].state # "absent" => item'[j] = item[j]
      BY <2>1, <2>2, <2>3, InsertItem
    <2>5. StepsHaveRuns' /\ TurnsHaveItems' /\ PausesHaveTurns'
      BY <1>0, <2>1, <2>4
      DEF ReferencesResolve, StepsHaveRuns, TurnsHaveItems, PausesHaveTurns
    <2>6. \A j \in StepId : correcting'[j] # 0 => correcting[j] # 0
      BY <1>2 DEF enqueueCorrectionForStep, ControlTypeOK
    <2>7. ProceduresHaveRows'
      BY <1>0, <2>1, <2>6 DEF ReferencesResolve, ProceduresHaveRows
    <2> QED BY <2>4, <2>5, <2>7 DEF ReferencesResolve
  <1> QED BY <1>0, <1>1, <1>2 DEF CorrectionStep

\* A restart takes every live turn out of its slot.
LEMMA RestartInv == RuntimeInv /\ RestartStep => ReferencesResolve' /\ OneRemoteActive'
  <1> SUFFICES ASSUME RuntimeInv, RestartStep PROVE Kept /\ SlotsKept
    BY KeptReferences, KeptSlots DEF RuntimeInv, Kept
  <1> TypeOK /\ ReferencesResolve
    BY DEF RuntimeInv, TypeInvariant
  <1>1. TurnsKept /\ SlotsKept
    BY DEF RestartStep, markActiveTurnsNeedsAttentionOnRestart, TurnsKept, SlotsKept, RemoteActive,
           RemoteActiveState, TypeOK, TurnRow
  <1>2. UNCHANGED <<run, step, item, group, act, call, resumer, correcting>>
    BY DEF RestartStep, markActiveTurnsNeedsAttentionOnRestart, lifecycleVars, pauseVars
  <1> QED BY <1>1, <1>2, UnchangedKept DEF Kept

-----------------------------------------------------------------------------
(* Rotation changes no reference and no turn. *)

\* Every step of a rotation, of its failure and of its crash
LEMMA RotationInv ==
    RuntimeInv /\ (RotationStep \/ RotationFailureStep) => ReferencesResolve' /\ OneRemoteActive'
  <1> SUFFICES ASSUME RuntimeInv, RotationStep \/ RotationFailureStep PROVE Kept /\ SlotsKept
    BY KeptReferences, KeptSlots DEF RuntimeInv, Kept
  <1> TypeOK /\ ReferencesResolve
    BY DEF RuntimeInv, TypeInvariant
  <1> PICK s \in Session :
           \/ \E restrict \in BOOLEAN, a \in 0..MaxTurn : beginSessionRotation(s, restrict, a)
           \/ stopActiveTurn(s)
           \/ \E g \in GenId : atomicSwapSessionGeneration(s, g)
           \/ completeSessionRotation(s)
           \/ rotationThrows(s) \/ abortSessionRotation(s) \/ RotationCrash(s)
    BY DEF RotationStep, RotationFailureStep
  <1>1. UNCHANGED <<run, turn, call, resumer, correcting>>
    BY DEF beginSessionRotation, stopActiveTurn, atomicSwapSessionGeneration,
           completeSessionRotation, rotationThrows, abortSessionRotation, RotationCrash, tables,
           otherVars, lifecycleVars, pauseVars
  <1>2. CASE stopActiveTurn(s)
    <2>1. StepsKept
      BY <1>2 DEF stopActiveTurn, Stoppable, StepsKept, TypeOK, StepRow
    <2> QED BY <1>1, <1>2, <2>1, UnchangedKept DEF stopActiveTurn, Kept
  <1>3. ASSUME NEW g \in GenId, atomicSwapSessionGeneration(s, g) PROVE Kept /\ SlotsKept
    <2>1. ItemsKept
      BY <1>3 DEF atomicSwapSessionGeneration, ItemsKept, TypeOK, ItemRow
    <2>2. \A t \in TurnId : group'[t].state = "absent" <=> group[t].state = "absent"
      BY <1>3 DEF atomicSwapSessionGeneration, StaleGroups, StaleGroup, TypeOK, GroupRow
    <2>3. \A t \in TurnId, a \in Act : act'[t][a].ra # "absent" => act[t][a].ra # "absent"
      BY <1>3 DEF atomicSwapSessionGeneration, StaleActs
    <2>4. UNCHANGED step
      BY <1>3 DEF atomicSwapSessionGeneration
    <2> QED BY <1>1, <2>1, <2>2, <2>3, <2>4, UnchangedKept DEF PausesKept, Kept
  <1>4. CASE \/ \E restrict \in BOOLEAN, a \in 0..MaxTurn : beginSessionRotation(s, restrict, a)
             \/ completeSessionRotation(s)
             \/ rotationThrows(s) \/ abortSessionRotation(s) \/ RotationCrash(s)
    <2>1. UNCHANGED <<step, item, group, act>>
      BY <1>4 DEF beginSessionRotation, completeSessionRotation, rotationThrows,
                  abortSessionRotation, RotationCrash, tables
    <2> QED BY <1>1, <2>1, UnchangedKept DEF Kept
  <1> QED BY <1>2, <1>3, <1>4

-----------------------------------------------------------------------------
(* The theorems. *)

\* A step that changes nothing.
LEMMA StutterInv == RuntimeInv /\ UNCHANGED vars => ReferencesResolve' /\ OneRemoteActive'
  BY UnchangedKept, KeptReferences, KeptSlots
  DEF RuntimeInv, vars, tables, lifecycleVars, pauseVars, Kept

\* The invariant is inductive.
LEMMA NextInv == RuntimeInv /\ [Next]_vars => RuntimeInv'
  <1> SUFFICES ASSUME RuntimeInv, [Next]_vars PROVE RuntimeInv'
    OBVIOUS
  <1>1. TypeInvariant'
    BY NextTypes DEF RuntimeInv
  <1>2. ReferencesResolve' /\ OneRemoteActive'
    BY StutterInv, QueueInv, LeaseInv, LifecycleInv, ApiInv, CrashInv, CaptureInv, DecisionInv,
       ResumeInv, StopInv, CorrectionInv, RestartInv, RotationInv
    DEF Next
  <1> QED BY <1>1, <1>2 DEF RuntimeInv

\* So it holds always.
LEMMA SpecInv == Spec => []RuntimeInv
  BY InitInv, NextInv, PTL DEF Spec

\* Whatever is claimed, created, captured, decided, resumed, stopped, corrected,
\* rotated or lost in a crash, every row of the tables has its columns' types.
THEOREM TypeCorrectness == Spec => []TypeInvariant
  <1>1. RuntimeInv => TypeInvariant
    BY DEF RuntimeInv
  <1> QED BY <1>1, SpecInv, PTL

\* Items belong to steps of their own session, turns to their items' sessions and
\* steps, pauses to turns, and attempts to rows that exist.
THEOREM ReferentialIntegrity == Spec => []ReferencesResolve
  <1>1. RuntimeInv => ReferencesResolve
    BY DEF RuntimeInv
  <1> QED BY <1>1, SpecInv, PTL

\* No session ever has two remote-active turns, for any number of sessions, workers,
\* messages, turns and rotations: the claim's eligibility check, together with the
\* index the reconciliation of an uncertain turn runs into, is enough.
THEOREM SerialSlot == Spec => []OneRemoteActive
  <1>1. RuntimeInv => OneRemoteActive
    BY DEF RuntimeInv
  <1> QED BY <1>1, SpecInv, PTL
-----------------------------------------------------------------------------
(***************************************************************************)
(* How rows move.  A step of the runtime does one of a few things to a     *)
(* turn and to an item; TurnMoves and ItemMoves say which, with what the   *)
(* guards of the code say at that moment.                                  *)
(***************************************************************************)

\* The columns of a turn that its insert writes for good.
TurnColumns(t) == /\ turn'[t].sess = turn[t].sess /\ turn'[t].item = turn[t].item
                  /\ turn'[t].step = turn[t].step /\ turn'[t].gen = turn[t].gen

\* claimTurnQueueItem opens the turn, for the head of a queue whose session has no
\* remote-active turn.
TurnOpened(t) ==
    /\ NextTurn(t) /\ turn'[t].state = "acquiring" /\ ~ turn'[t].tf /\ turn'[t].seen = {}
    /\ turn'[t].item \in ItemId /\ IsHead(turn'[t].item)
    /\ turn'[t].sess = item[turn'[t].item].sess /\ turn'[t].gen = sess[turn'[t].sess].cur
    /\ evaluateClaimEligibility(turn'[t].sess)
    /\ item'[turn'[t].item].state = "claimed"
    /\ \A i \in ItemId \ {turn'[t].item} : item'[i] = item[i]

\* The create attempt locks it, binds it, or gives up on it; a restart gives up on it too.
TurnLocked(t) ==
    /\ turn[t].state = "acquiring" /\ turn'[t].state = "creating"
    /\ turn'[t].tf = turn[t].tf /\ turn'[t].seen = turn[t].seen

TurnStreams(t) ==
    /\ turn[t].state \in {"creating", "uncertain"} /\ turn'[t].state = "streaming"
    /\ turn'[t].tf /\ turn'[t].seen = turn[t].seen
    /\ \E w \in Worker : call[w].turn = t /\ (call[w].pc = "created" \/ call[w].found = 1)

TurnUncertain(t) ==
    /\ turn[t].state \in RemoteActiveState /\ turn'[t].state = "uncertain"
    /\ turn'[t].tf = turn[t].tf /\ turn'[t].seen = turn[t].seen

\* A reclaim, a stop or a superseding correction cancels it.
TurnCancelled(t) ==
    /\ turn[t].state \in RemoteActiveState \cup {"uncertain", "required_actions"}
    /\ turn'[t].state = "cancelled"
    /\ turn'[t].tf = turn[t].tf /\ turn'[t].seen = turn[t].seen

\* An event of a provider turn is ingested for the first time.
TurnIngests(t) ==
    /\ turn[t].state \in IngestStates /\ turn'[t].tf = turn[t].tf
    /\ \E e \in Emits : /\ e \notin turn[t].seen /\ Emitted(t, e)
                        /\ turn'[t].state = TurnOutcome(e, turn[t].state)
                        /\ turn'[t].seen = turn[t].seen \cup {e}

\* A pause is captured, or captured again.
TurnAwaits(t) ==
    /\ t \in checked
    /\ \/ group[t].state # "absent"
       \/ turn[t].state \in {"streaming", "creating", "required_actions", "acquiring"}
    /\ turn'[t].state = "required_actions" /\ turn'[t].tf /\ turn'[t].seen = turn[t].seen

TurnChanges(t) ==
    \/ TurnLocked(t) \/ TurnStreams(t) \/ TurnUncertain(t) \/ TurnCancelled(t)
    \/ TurnIngests(t) \/ TurnAwaits(t)

TurnMove(t) == turn'[t] = turn[t] \/ TurnOpened(t) \/ (TurnColumns(t) /\ TurnChanges(t))

\* The claim opens one turn, and may cancel the one whose pause it supersedes.
LEMMA ClaimMoves ==
    ASSUME TypeOK, NEW w \in Worker, NEW i \in ItemId, NEW t \in TurnId, NEW u \in 0..MaxTurn,
           claimTurnQueueItem(w, i, t, u)
    PROVE  /\ TurnOpened(t) /\ turn'[t].item = i
           /\ \A x \in TurnId \ {t} : turn'[x] = turn[x] \/ (TurnColumns(x) /\ TurnCancelled(x))
  <1>1. SupersededTurns(u) \in [TurnId -> TurnRow]
    BY UpdatedRows DEF SupersededTurns, TypeOK, TurnState
  <1> DEFINE s == item[i].sess
             row == [NoTurn EXCEPT !.state = "acquiring", !.sess = s, !.item = i,
                                   !.step = item[i].step, !.gen = sess[s].cur]
  <1>2. turn'[t] = row
    BY <1>1 DEF claimTurnQueueItem
  <1>3. /\ row.state = "acquiring" /\ row.sess = s /\ row.item = i /\ row.gen = sess[s].cur
        /\ ~ row.tf /\ row.seen = {}
    BY DEF NoTurn
  <1>4. /\ item'[i].state = "claimed"
        /\ \A j \in ItemId \ {i} : item'[j] = item[j]
    BY DEF claimTurnQueueItem, TypeOK, ItemRow
  <1>5. IsHead(i) /\ NextTurn(t) /\ evaluateClaimEligibility(s)
    BY DEF claimTurnQueueItem
  <1> HIDE DEF row
  <1>6. TurnOpened(t) /\ turn'[t].item = i
    BY <1>2, <1>3, <1>4, <1>5 DEF TurnOpened
  <1>7. ASSUME NEW x \in TurnId \ {t}
        PROVE  turn'[x] = turn[x] \/ (TurnColumns(x) /\ TurnCancelled(x))
    <2>1. turn'[x] = SupersededTurns(u)[x]
      BY DEF claimTurnQueueItem, SupersededTurns
    <2>2. turn'[x] = turn[x] \/ (turn[x].state = "required_actions"
                                 /\ turn'[x] = [turn[x] EXCEPT !.state = "cancelled"])
      BY <2>1 DEF SupersededTurns
    <2>3. turn[x] \in TurnRow
      BY DEF TypeOK
    <2> QED BY <2>2, <2>3 DEF TurnRow, RemoteActiveState, TurnColumns, TurnCancelled
  <1> QED BY <1>6, <1>7

\* The lock, the binding and the failure of a create attempt.
LEMMA AttemptMoves ==
    ASSUME RuntimeInv, NEW w \in Worker, AttemptStep(w) \/ CommandStep(w)
    PROVE  \A x \in TurnId : turn'[x] = turn[x] \/ (TurnColumns(x) /\ TurnChanges(x))
  <1> TypeOK /\ ReferencesResolve
    BY DEF RuntimeInv, TypeInvariant
  <1>0. turn \in [TurnId -> TurnRow]
    BY DEF TypeOK
  <1>1. ASSUME NEW t, turn' = LockedTurns(t)
        PROVE  \A x \in TurnId : turn'[x] = turn[x] \/ (TurnColumns(x) /\ TurnLocked(x))
    BY <1>0, <1>1 DEF TurnRow, LockedTurns, TurnColumns, TurnLocked
  <1>2. ASSUME NEW t, StreamTurn(t), turn[t].state \in {"creating", "uncertain"},
               call[w].turn = t, call[w].pc = "created" \/ call[w].found = 1
        PROVE  \A x \in TurnId : turn'[x] = turn[x] \/ (TurnColumns(x) /\ TurnStreams(x))
    BY <1>0, <1>2 DEF TurnRow, StreamTurn, TurnColumns, TurnStreams
  <1>3. CASE markAgentTurnUncertain(w)
    <2>1. \A x \in TurnId : turn'[x] = turn[x] \/ (TurnColumns(x) /\ TurnUncertain(x))
      BY <1>0, <1>3
      DEF TurnRow, markAgentTurnUncertain, MayBecomeUncertain, RemoteActiveState, TurnColumns, TurnUncertain
    <2> QED BY <2>1 DEF TurnChanges
  <1>4. CASE lockClaimedTurn(w) \/ CommandStep(w)
    BY <1>1, <1>4 DEF lockClaimedTurn, CommandStep, executeCreateOrReconcileTurn, TurnChanges
  <1>5. CASE bindCreated(w)
    BY <1>2, <1>5 DEF bindCreated, tables, TurnChanges
  <1>6. CASE bindReconciled(w)
    <2>1. call[w].found = 1
      BY <1>6 DEF bindReconciled, decideCreateOrReconcile
    <2> QED BY <1>2, <1>6, <2>1 DEF bindReconciled, tables, TurnChanges
  <1>7. CASE \/ listTurns(w) \/ failClosed(w) \/ createTurn(w) \/ markRunStepFailed(w)
             \/ refreshRunLifecycleForStep(w)
    BY <1>7 DEF listTurns, failClosed, createTurn, markRunStepFailed, refreshRunLifecycleForStep,
                tables
  <1> QED BY <1>3, <1>4, <1>5, <1>6, <1>7 DEF AttemptStep

\* Ingestion and capture.
LEMMA EventMoves ==
    ASSUME RuntimeInv, EventStep \/ CaptureStep
    PROVE  \A x \in TurnId : turn'[x] = turn[x] \/ (TurnColumns(x) /\ TurnChanges(x))
  <1>0. turn \in [TurnId -> TurnRow]
    BY DEF RuntimeInv, TypeInvariant, TypeOK
  <1>1. ASSUME NEW t \in TurnId, NEW e \in Emits, ingestNormalizedTrueForgeEvent(t, e)
        PROVE  \A x \in TurnId : turn'[x] = turn[x] \/ (TurnColumns(x) /\ TurnIngests(x))
    <2> DEFINE y == TurnOutcome(e, turn[t].state)
    <2>1. \/ turn' = turn
          \/ /\ e \notin turn[t].seen
             /\ turn' = [turn EXCEPT ![t].state = y, ![t].seen = @ \cup {e}]
      BY <1>1 DEF ingestNormalizedTrueForgeEvent
    <2>2. turn[t].state \in IngestStates /\ Emitted(t, e)
      BY <1>1 DEF ingestNormalizedTrueForgeEvent
    <2>3. CASE turn' = [turn EXCEPT ![t].state = y, ![t].seen = @ \cup {e}] /\ e \notin turn[t].seen
      <3> HIDE DEF y
      <3>1. /\ turn'[t].state = y /\ turn'[t].seen = turn[t].seen \cup {e}
            /\ turn'[t].tf = turn[t].tf /\ TurnColumns(t)
            /\ \A x \in TurnId \ {t} : turn'[x] = turn[x]
        BY <1>0, <2>3 DEF TurnRow, TurnColumns
      <3> QED BY <2>2, <2>3, <3>1 DEF TurnIngests, y
    <2> QED BY <2>1, <2>3
  <1>2. ASSUME NEW t \in TurnId, AwaitHumans(t), t \in checked,
               \/ group[t].state # "absent"
               \/ turn[t].state \in {"streaming", "creating", "required_actions", "acquiring"}
        PROVE  \A x \in TurnId : turn'[x] = turn[x] \/ (TurnColumns(x) /\ TurnAwaits(x))
    BY <1>0, <1>2 DEF TurnRow, AwaitHumans, TurnColumns, TurnAwaits
  <1>3. CASE EventStep
    BY <1>1, <1>3 DEF EventStep, TurnChanges
  <1>4. CASE CaptureStep
    <2> PICK t \in TurnId : \/ captureTrueForgeRequiredActions(t)
                            \/ \E need \in SUBSET Act : persistPauseGroupCapture(t, need)
                            \/ recapturePauseGroup(t)
                            \/ captureFails(t)
      BY <1>4 DEF CaptureStep, buildPauseGroupCapturePlan
    <2>1. CASE captureTrueForgeRequiredActions(t) \/ captureFails(t)
      BY <2>1 DEF captureTrueForgeRequiredActions, captureFails, tables
    <2>2. CASE recapturePauseGroup(t) \/ \E need \in SUBSET Act : persistPauseGroupCapture(t, need)
      BY <1>2, <2>2 DEF recapturePauseGroup, persistPauseGroupCapture, TurnChanges
    <2> QED BY <2>1, <2>2
  <1> QED BY <1>3, <1>4

\* Leases, stops and restarts.
LEMMA ControlMoves ==
    ASSUME RuntimeInv, LeaseStep \/ StopStep \/ RestartStep
    PROVE  \A x \in TurnId : turn'[x] = turn[x] \/ (TurnColumns(x) /\ TurnChanges(x))
  <1>0. turn \in [TurnId -> TurnRow]
    BY DEF RuntimeInv, TypeInvariant, TypeOK
  <1>1. CASE LeaseStep
    <2>1. ASSUME NEW i \in ItemId, NEW t \in TurnId, reclaimExpiredTurnQueueLease(i, t)
          PROVE  \A x \in TurnId : turn'[x] = turn[x] \/ (TurnColumns(x) /\ TurnCancelled(x))
      BY <1>0, <2>1 DEF TurnRow, reclaimExpiredTurnQueueLease, Reclaimable, RemoteActiveState,
                        TurnColumns, TurnCancelled
    <2> QED BY <1>1, <2>1 DEF LeaseStep, LeaseExpires, heartbeatTurnQueueLease, TurnChanges
  <1>2. CASE StopStep
    <2> PICK k \in StepId : requestRunStepStop(k) \/ settleCancelledStep(k)
      BY <1>2 DEF StopStep
    <2>1. \A x \in TurnId :
             \/ turn'[x] = turn[x]
             \/ /\ turn[x].state \in RemoteActiveState \cup {"uncertain"}
                /\ turn'[x] = [turn[x] EXCEPT !.state = "cancelled"]
      BY DEF requestRunStepStop, settleCancelledStep
    <2>2. ASSUME NEW x \in TurnId PROVE turn'[x] = turn[x] \/ (TurnColumns(x) /\ TurnCancelled(x))
      <3>1. turn[x] \in TurnRow
        BY <1>0
      <3>2. CASE /\ turn[x].state \in RemoteActiveState \cup {"uncertain"}
                 /\ turn'[x] = [turn[x] EXCEPT !.state = "cancelled"]
        BY <3>1, <3>2 DEF TurnRow, TurnColumns, TurnCancelled
      <3> QED BY <2>1, <3>2
    <2> QED BY <2>2 DEF TurnChanges
  <1>3. CASE RestartStep
    BY <1>0, <1>3 DEF TurnRow, RestartStep, markActiveTurnsNeedsAttentionOnRestart, RemoteActive,
                      TurnColumns, TurnUncertain, TurnChanges
  <1> QED BY <1>1, <1>2, <1>3

\* The other steps change no turn.
LEMMA TurnsFrame ==
    ASSUME [Next]_vars, ~ QueueStep, ~ ApiStep, ~ LifecycleStep, ~ CaptureStep, ~ LeaseStep,
           ~ StopStep, ~ RestartStep
    PROVE  UNCHANGED turn
  <1>1. CASE CrashStep
    BY <1>1 DEF CrashStep, Crash, ResumerCrash, tables
  <1>2. CASE DecisionStep
    BY ZenonT(60), <1>2 DEF DecisionStep, evaluateGate, recordApprovalDecision, recordRequestChanges,
                recordQuestionAnswer
  <1>3. CASE ResumeStep
    BY <1>3 DEF ResumeStep, ResumeAttemptStep, claimPauseGroupResume, loadPauseResumeForCreate,
                markPauseResumeCreating, listResponseTurns, createResponseTurn,
                completePauseResume, markPauseResumeUncertain, tables
  <1>4. CASE CorrectionStep
    BY <1>4 DEF CorrectionStep, insertCorrectionStep, enqueueCorrectionForStep
  <1>5. CASE RotationStep \/ RotationFailureStep
    BY <1>5 DEF RotationStep, RotationFailureStep, beginSessionRotation, stopActiveTurn,
                atomicSwapSessionGeneration, completeSessionRotation, rotationThrows,
                abortSessionRotation, RotationCrash, tables
  <1>6. CASE UNCHANGED vars
    BY <1>6 DEF vars, tables
  <1> QED BY <1>1, <1>2, <1>3, <1>4, <1>5, <1>6 DEF Next

\* Every step moves every turn in one of these ways.
LEMMA TurnMoves == RuntimeInv /\ [Next]_vars => \A x \in TurnId : TurnMove(x)
  <1> SUFFICES ASSUME RuntimeInv, [Next]_vars PROVE \A x \in TurnId : TurnMove(x)
    OBVIOUS
  <1>0. TypeOK
    BY DEF RuntimeInv, TypeInvariant
  <1>1. CASE QueueStep \/ ApiStep
    <2>1. ASSUME NEW w \in Worker, NEW i \in ItemId, NEW t \in TurnId, NEW u \in 0..MaxTurn,
                 claimTurnQueueItem(w, i, t, u)
          PROVE  \A x \in TurnId : TurnMove(x)
      BY <1>0, <2>1, ClaimMoves DEF TurnMove, TurnChanges
    <2>2. ASSUME UNCHANGED turn PROVE \A x \in TurnId : TurnMove(x)
      BY <2>2 DEF TurnMove
    <2> QED BY ZenonT(60), <1>1, <2>1, <2>2 DEF QueueStep, ApiStep, claimForBind, createDirectMultiAgentRun
  <1>2. CASE LifecycleStep
    <2>1. ASSUME NEW t \in TurnId, lateCreate(t) \/ lateResponse(t) PROVE UNCHANGED turn
      BY <2>1 DEF lateCreate, lateResponse, tables
    <2> QED BY <1>2, <2>1, AttemptMoves, EventMoves DEF LifecycleStep, TurnMove
  <1>3. CASE CaptureStep
    BY <1>3, EventMoves DEF TurnMove
  <1>4. CASE LeaseStep \/ StopStep \/ RestartStep
    BY <1>4, ControlMoves DEF TurnMove
  <1> QED BY <1>1, <1>2, <1>3, <1>4, TurnsFrame DEF TurnMove

-----------------------------------------------------------------------------
\* The columns of a queue item that its insert writes for good.
ItemColumns(i) == /\ item'[i].type = item[i].type /\ item'[i].sess = item[i].sess
                  /\ item'[i].step = item[i].step
                  /\ item'[i].linkT = item[i].linkT /\ item'[i].linkA = item[i].linkA

ItemStays(i) == /\ ItemColumns(i)
                /\ item'[i].state = item[i].state /\ item'[i].bound = item[i].bound

\* A message, a steering correction, a request for changes, or a response is queued,
\* behind everything queued before it.
ItemInserted(i) ==
    /\ item[i].state = "absent" /\ item'[i].state = "queued" /\ UNCHANGED <<turn, sess>>
    /\ \A j \in ItemId : j < i => item'[j].state # "absent"
    /\ \/ /\ item'[i].type = "normal" /\ item'[i].bound = 0 /\ item'[i].linkA = NoAct
          /\ item'[i].step \in StepId /\ run'[step'[item'[i].step].run] = "queued"
       \/ item'[i].type = "correction" /\ item'[i].linkA = NoAct
       \/ /\ item'[i].type = "correction"
          /\ \E t \in TurnId : /\ item'[i].sess = turn[t].sess /\ item'[i].bound = turn[t].gen
                               /\ sess[turn[t].sess].cur = turn[t].gen
       \/ /\ item'[i].type = "pause_group_response" /\ item'[i].linkA = NoAct
          /\ item'[i].linkT \in TurnId /\ item'[i].bound = turn[item'[i].linkT].gen
          /\ group[item'[i].linkT].resume = "none" /\ group'[item'[i].linkT].resume = "claimed"
          /\ \A j \in ItemId \ {i} : item'[j] = item[j]

ItemClaimed(i) ==
    /\ ItemColumns(i) /\ IsHead(i) /\ evaluateClaimEligibility(item[i].sess)
    /\ item'[i].state = "claimed"
    /\ item'[i].bound = sess[item[i].sess].cur
    /\ item[i].type # "normal" => item[i].bound = item'[i].bound

\* A reclaim gives it back, and cancels the turn that was opened for it.
ItemReturned(i) ==
    /\ ItemColumns(i) /\ item[i].state = "claimed" /\ item'[i].state = "queued"
    /\ item'[i].bound = item[i].bound
    /\ \E t \in TurnId : /\ LatestTurn(i, t) /\ turn[t].state = "acquiring"
                         /\ TurnColumns(t) /\ turn'[t].state = "cancelled"

ItemSettled(i) ==
    /\ ItemColumns(i) /\ item'[i].state \in {"completed", "failed"}
    /\ item'[i].bound = item[i].bound
    /\ \E t \in TurnId : /\ turn[t].state # "absent" /\ turn[t].item = i
                         /\ TurnIngests(t) \/ TurnAwaits(t)

\* The swap of its session's generation takes it along.
ItemRebound(i) ==
    /\ ItemColumns(i) /\ item[i].state = "queued" /\ item'[i].state = "queued"
    /\ item[i].type \in {"normal", "correction"} /\ item'[i].bound = sess'[item[i].sess].cur

ItemMove(i) == \/ ItemStays(i) \/ ItemInserted(i) \/ ItemClaimed(i) \/ ItemReturned(i)
               \/ ItemSettled(i) \/ ItemRebound(i)

\* An item that does not change stays.
LEMMA UnchangedItems == ASSUME NEW i, item'[i] = item[i] PROVE ItemMove(i)
  BY DEF ItemMove, ItemStays, ItemColumns

\* What the inserts write.
LEMMA QueuedColumns ==
    ASSUME NEW type \in InputType, NEW s \in Session, NEW k \in 0..MaxStep, NEW b \in 0..MaxGen,
           NEW t, NEW a
    PROVE  /\ LET row == QueuedItem(type, s, k, b) IN
                 /\ row.state = "queued" /\ row.type = type /\ row.sess = s /\ row.bound = b
                 /\ row.linkT = 0 /\ row.linkA = NoAct
           /\ LET row == [QueuedItem(type, s, k, b) EXCEPT !.linkT = t] IN
                 /\ row.state = "queued" /\ row.type = type /\ row.sess = s /\ row.bound = b
                 /\ row.linkT = t /\ row.linkA = NoAct
           /\ LET row == [QueuedItem(type, s, k, b) EXCEPT !.linkT = t, !.linkA = a] IN
                 /\ row.state = "queued" /\ row.type = type /\ row.sess = s /\ row.bound = b
                 /\ row.linkT = t /\ row.linkA = a
  BY DEF QueuedItem, NoItem

\* The rows of a message: for each coworker a step and an item, in a run of their own.
LEMMA MessageRows ==
    ASSUME TypeOK, NEW r \in RunId, NEW T \in SUBSET Session,
           NEW f \in [T -> StepId], NEW q \in [T -> ItemId], createDirectMultiAgentRun(r, T, f, q)
    PROVE  \A s \in T :
              /\ step[f[s]].state = "absent" /\ run'[step'[f[s]].run] = "queued"
              /\ item'[q[s]].state = "queued" /\ item'[q[s]].type = "normal"
              /\ item'[q[s]].step = f[s]
  <1> TAKE s \in T
  <1> DEFINE s1 == CHOOSE x \in T : f[x] = f[s]
             s2 == CHOOSE x \in T : q[x] = q[s]
  <1>1. s1 \in T /\ f[s1] = f[s] /\ s2 \in T /\ q[s2] = q[s]
    OBVIOUS
  <1>2. s1 = s /\ s2 = s
    BY <1>1 DEF createDirectMultiAgentRun
  <1>3. step'[f[s]] = QueuedStep(r, s1)
    BY DEF createDirectMultiAgentRun
  <1>4. run' = [run EXCEPT ![r] = "queued"] /\ step[f[s]].state = "absent"
    BY DEF createDirectMultiAgentRun
  <1>5. run'[step'[f[s]].run] = "queued"
    BY <1>3, <1>4 DEF QueuedStep, TypeOK
  <1>6. item'[q[s]] = QueuedItem("normal", s2, f[s2], 0)
    BY DEF createDirectMultiAgentRun
  <1> HIDE DEF s1, s2
  <1>7. /\ item'[q[s]].state = "queued" /\ item'[q[s]].type = "normal"
        /\ item'[q[s]].step = f[s]
    BY <1>2, <1>6 DEF QueuedItem, NoItem
  <1> QED BY <1>4, <1>5, <1>7

\* Messages, corrections, requests for changes and resumes insert items.
LEMMA InsertMoves ==
    ASSUME RuntimeInv
    PROVE  /\ \A r \in RunId, T \in SUBSET Session : \A f \in [T -> StepId], q \in [T -> ItemId] :
                 createDirectMultiAgentRun(r, T, f, q) => \A x \in ItemId : ItemMove(x)
           /\ \A k \in StepId, i \in ItemId :
                 enqueueCorrectionForStep(k, i) => \A x \in ItemId : ItemMove(x)
           /\ \A t \in TurnId, a \in Act, k \in StepId, i \in ItemId :
                 recordRequestChanges(t, a, k, i) => \A x \in ItemId : ItemMove(x)
           /\ \A w \in Worker, t \in TurnId, i \in ItemId :
                 claimPauseGroupResume(w, t, i) => \A x \in ItemId : ItemMove(x)
  <1> TypeOK /\ ReferencesResolve /\ ControlTypeOK
    BY DEF RuntimeInv, TypeInvariant
  <1>0. ASSUME NEW t \in TurnId
        PROVE  turn[t].sess \in Session /\ turn[t].step \in 0..MaxStep /\ turn[t].gen \in 0..MaxGen
    BY DEF TypeOK, TurnRow
  <1>1. ASSUME NEW i \in ItemId, NextItem(i), NEW row, item' = [item EXCEPT ![i] = row]
        PROVE  /\ item[i].state = "absent" /\ item'[i] = row
               /\ \A x \in ItemId \ {i} : item'[x] = item[x] /\ ItemMove(x)
               /\ \A j \in ItemId : j < i => item'[j].state # "absent"
    <2>1. item'[i] = row /\ \A x \in ItemId \ {i} : item'[x] = item[x]
      BY <1>1 DEF TypeOK
    <2>2. \A j \in ItemId : j < i => j \in ItemId \ {i}
      BY DEF ItemId
    <2> QED BY <1>1, <2>1, <2>2, UnchangedItems DEF NextItem
  <1>2. ASSUME NEW r \in RunId, NEW T \in SUBSET Session, NEW f \in [T -> StepId],
               NEW q \in [T -> ItemId], createDirectMultiAgentRun(r, T, f, q), NEW x \in ItemId
        PROVE  ItemMove(x)
    <2>1. CASE \E s \in T : q[s] = x
      <3> DEFINE s == CHOOSE y \in T : q[y] = x
      <3>1. s \in T /\ q[s] = x
        BY <2>1
      <3>2. item'[x] = QueuedItem("normal", s, f[s], 0) /\ UNCHANGED <<turn, sess>>
        BY <1>2, <2>1 DEF createDirectMultiAgentRun
      <3> HIDE DEF s
      <3>3. item[x].state = "absent"
        BY <1>2, <3>1 DEF createDirectMultiAgentRun
      <3>4. s \in Session /\ f[s] \in 0..MaxStep /\ 0 \in 0..MaxGen /\ "normal" \in InputType
        BY <3>1, RowNumbers DEF InputType
      <3>5. /\ item'[x].state = "queued" /\ item'[x].type = "normal" /\ item'[x].bound = 0
            /\ item'[x].linkA = NoAct
        BY <3>2, <3>4, QueuedColumns
      <3>7. item'[x].step \in StepId /\ run'[step'[item'[x].step].run] = "queued"
        BY <1>2, <3>1, MessageRows
      <3>6. ASSUME NEW j \in ItemId, j < x PROVE item'[j].state # "absent"
        <4>1. CASE item[j].state = "absent"
          <5>1. \E z \in T : q[z] = j
            BY <1>2, <3>1, <3>6, <4>1 DEF createDirectMultiAgentRun
          <5> DEFINE z == CHOOSE y \in T : q[y] = j
          <5>2. item'[j] = QueuedItem("normal", z, f[z], 0)
            BY <1>2, <5>1 DEF createDirectMultiAgentRun
          <5>3. z \in Session /\ f[z] \in 0..MaxStep
            BY <5>1, RowNumbers
          <5> HIDE DEF z
          <5> QED BY <3>4, <5>2, <5>3, QueuedColumns
        <4>2. CASE item[j].state # "absent"
          BY <1>2, <4>2 DEF createDirectMultiAgentRun
        <4> QED BY <4>1, <4>2
      <3> QED BY <3>2, <3>3, <3>5, <3>6, <3>7 DEF ItemMove, ItemInserted
    <2>2. CASE ~ \E s \in T : q[s] = x
      BY <1>2, <2>2, UnchangedItems DEF createDirectMultiAgentRun
    <2> QED BY <2>1, <2>2
  <1>3. ASSUME NEW k \in StepId, NEW i \in ItemId, enqueueCorrectionForStep(k, i)
        PROVE  \A x \in ItemId : ItemMove(x)
    <2> DEFINE row == QueuedItem("correction", step[k].sess, k, correcting[k])
    <2>1. NextItem(i) /\ item' = [item EXCEPT ![i] = row] /\ UNCHANGED <<turn, sess>>
      BY <1>3 DEF enqueueCorrectionForStep
    <2>2. /\ step[k].sess \in Session /\ k \in 0..MaxStep /\ correcting[k] \in 0..MaxGen
          /\ "correction" \in InputType
      BY RowNumbers DEF InputType, TypeOK, StepRow, ControlTypeOK
    <2>3. row.state = "queued" /\ row.type = "correction" /\ row.linkA = NoAct
      BY <2>2, QueuedColumns
    <2> HIDE DEF row
    <2>4. ItemMove(i)
      BY <1>1, <2>1, <2>3 DEF ItemMove, ItemInserted
    <2> QED BY <1>1, <2>1, <2>4
  <1>4. ASSUME NEW t \in TurnId, NEW a \in Act, NEW k \in StepId, NEW i \in ItemId,
               recordRequestChanges(t, a, k, i)
        PROVE  \A x \in ItemId : ItemMove(x)
    <2> DEFINE row == [QueuedItem("correction", turn[t].sess, k, turn[t].gen)
                       EXCEPT !.linkT = t, !.linkA = a]
    <2>1. /\ NextItem(i) /\ item' = [item EXCEPT ![i] = row] /\ UNCHANGED <<turn, sess>>
          /\ sess[turn[t].sess].cur = turn[t].gen
      BY <1>4 DEF recordRequestChanges
    <2>2. k \in 0..MaxStep /\ "correction" \in InputType
      BY RowNumbers DEF InputType
    <2>3. /\ row.state = "queued" /\ row.type = "correction" /\ row.sess = turn[t].sess
          /\ row.bound = turn[t].gen
      BY <1>0, <2>2, QueuedColumns
    <2> HIDE DEF row
    <2>4. ItemMove(i)
      BY <1>1, <2>1, <2>3 DEF ItemMove, ItemInserted
    <2> QED BY <1>1, <2>1, <2>4
  <1>5. ASSUME NEW w \in Worker, NEW t \in TurnId, NEW i \in ItemId, claimPauseGroupResume(w, t, i)
        PROVE  \A x \in ItemId : ItemMove(x)
    <2> DEFINE row == ResponseItem(t)
    <2>1. /\ NextItem(i) /\ item' = [item EXCEPT ![i] = row] /\ UNCHANGED <<turn, sess>>
          /\ group[t].resume = "none"
      BY <1>5 DEF claimPauseGroupResume
    <2>2. group'[t].resume = "claimed"
      BY <1>5 DEF claimPauseGroupResume, TypeOK, GroupRow
    <2>3. "pause_group_response" \in InputType
      BY DEF InputType
    <2>4. /\ row.state = "queued" /\ row.type = "pause_group_response" /\ row.linkT = t
          /\ row.bound = turn[t].gen /\ row.linkA = NoAct
      BY <1>0, <2>3, QueuedColumns DEF ResponseItem
    <2> HIDE DEF row
    <2>5. ItemMove(i)
      BY <1>1, <2>1, <2>2, <2>4 DEF ItemMove, ItemInserted
    <2> QED BY <1>1, <2>1, <2>5
  <1> QED BY <1>2, <1>3, <1>4, <1>5

\* Claims and leases.
LEMMA QueueItemMoves ==
    ASSUME RuntimeInv
    PROVE  /\ \A w \in Worker, i \in ItemId, t \in TurnId, u \in 0..MaxTurn :
                 claimTurnQueueItem(w, i, t, u) => \A x \in ItemId : ItemMove(x)
           /\ LeaseStep => \A x \in ItemId : ItemMove(x)
  <1> TypeOK
    BY DEF RuntimeInv, TypeInvariant
  <1>0. item \in [ItemId -> ItemRow] /\ turn \in [TurnId -> TurnRow]
    BY DEF TypeOK
  <1>1. ASSUME NEW w \in Worker, NEW i \in ItemId, NEW t \in TurnId, NEW u \in 0..MaxTurn,
               claimTurnQueueItem(w, i, t, u)
        PROVE  \A x \in ItemId : ItemMove(x)
    <2>1. /\ ItemColumns(i) /\ item'[i].state = "claimed"
          /\ item'[i].bound = sess[item[i].sess].cur
          /\ \A x \in ItemId \ {i} : item'[x] = item[x]
      BY <1>0, <1>1 DEF claimTurnQueueItem, ItemRow, ItemColumns
    <2>2. /\ IsHead(i) /\ evaluateClaimEligibility(item[i].sess)
          /\ item[i].type # "normal" => item[i].bound = sess[item[i].sess].cur
      BY <1>1 DEF claimTurnQueueItem, resolveClaimGenerationBinding
    <2>3. ItemMove(i)
      BY <2>1, <2>2 DEF ItemMove, ItemClaimed
    <2> QED BY <2>1, <2>3, UnchangedItems
  <1>2. ASSUME NEW i \in ItemId, NEW b, item' = [item EXCEPT ![i].expired = b]
        PROVE  \A x \in ItemId : ItemMove(x)
    <2>1. ItemStays(i) /\ \A x \in ItemId \ {i} : item'[x] = item[x]
      BY <1>0, <1>2 DEF ItemRow, ItemStays, ItemColumns
    <2> QED BY <2>1, UnchangedItems DEF ItemMove
  <1>3. ASSUME NEW i \in ItemId, NEW t \in TurnId, reclaimExpiredTurnQueueLease(i, t)
        PROVE  \A x \in ItemId : ItemMove(x)
    <2>1. /\ ItemColumns(i) /\ item[i].state = "claimed" /\ item'[i].state = "queued"
          /\ item'[i].bound = item[i].bound
          /\ \A x \in ItemId \ {i} : item'[x] = item[x]
      BY <1>0, <1>3 DEF reclaimExpiredTurnQueueLease, ItemRow, ItemColumns
    <2>2. /\ LatestTurn(i, t) /\ turn[t].state = "acquiring"
          /\ TurnColumns(t) /\ turn'[t].state = "cancelled"
      BY <1>0, <1>3 DEF reclaimExpiredTurnQueueLease, Reclaimable, TurnRow, TurnColumns
    <2>3. ItemMove(i)
      BY <2>1, <2>2 DEF ItemMove, ItemReturned
    <2> QED BY <2>1, <2>3, UnchangedItems
  <1>4. LeaseStep => \A x \in ItemId : ItemMove(x)
    BY <1>2, <1>3 DEF LeaseStep, LeaseExpires, heartbeatTurnQueueLease
  <1> QED BY <1>1, <1>4

\* Ingestion and capture settle the item of their turn.
LEMMA SettleMoves ==
    ASSUME RuntimeInv, EventStep \/ CaptureStep
    PROVE  \A x \in ItemId : ItemMove(x)
  <1> TypeOK /\ ReferencesResolve
    BY DEF RuntimeInv, TypeInvariant
  <1>0. item \in [ItemId -> ItemRow] /\ turn \in [TurnId -> TurnRow]
    BY DEF TypeOK
  <1>1. ASSUME NEW t \in TurnId, NEW y \in {"completed", "failed"},
               item' = [item EXCEPT ![turn[t].item] = SettledItem(@, y)],
               turn[t].state # "absent", TurnIngests(t) \/ TurnAwaits(t)
        PROVE  \A x \in ItemId : ItemMove(x)
    <2> DEFINE i == turn[t].item
    <2>1. i \in ItemId
      BY <1>1 DEF ReferencesResolve, TurnsHaveItems
    <2>2. item' = [item EXCEPT ![i] = SettledItem(@, y)]
      BY <1>1
    <2>3. /\ ItemColumns(i) /\ item'[i].state = y /\ item'[i].bound = item[i].bound
          /\ \A x \in ItemId \ {i} : item'[x] = item[x]
      <3> HIDE DEF i
      <3> QED BY <1>0, <2>1, <2>2 DEF SettledItem, ItemRow, ItemColumns
    <2>4. ItemMove(i)
      BY <1>1, <2>3 DEF ItemMove, ItemSettled
    <2> QED BY <2>3, <2>4, UnchangedItems
  <1>2. ASSUME UNCHANGED item PROVE \A x \in ItemId : ItemMove(x)
    BY <1>2, UnchangedItems
  <1>3. ASSUME NEW t \in TurnId, NEW e \in Emits, ingestNormalizedTrueForgeEvent(t, e)
        PROVE  \A x \in ItemId : ItemMove(x)
    <2> DEFINE y == TurnOutcome(e, turn[t].state)
    <2>1. CASE e \notin turn[t].seen
      <3>1. turn' = [turn EXCEPT ![t].state = y, ![t].seen = @ \cup {e}]
        BY <1>3, <2>1 DEF ingestNormalizedTrueForgeEvent
      <3>2. turn[t].state \in IngestStates /\ Emitted(t, e)
        BY <1>3 DEF ingestNormalizedTrueForgeEvent
      <3>3. TurnIngests(t)
        <4>1. /\ turn'[t].state = y /\ turn'[t].seen = turn[t].seen \cup {e}
              /\ turn'[t].tf = turn[t].tf
          <5> HIDE DEF y
          <5> QED BY <1>0, <3>1 DEF TurnRow
        <4> QED BY <2>1, <3>2, <4>1 DEF TurnIngests
      <3>4. turn[t].state # "absent"
        BY <3>2 DEF IngestStates
      <3>5. item' = [item EXCEPT ![turn[t].item] = ItemOutcome(e, @)]
        BY <1>3, <2>1 DEF ingestNormalizedTrueForgeEvent
      <3>6. CASE e \in PauseEvents \cup DoneEvents
        BY <1>1, <3>3, <3>4, <3>5, <3>6 DEF ItemOutcome
      <3>7. CASE e \notin PauseEvents \cup DoneEvents /\ e \in ErrorEvents
        BY <1>1, <3>3, <3>4, <3>5, <3>7 DEF ItemOutcome
      <3>8. CASE e \notin PauseEvents \cup DoneEvents \cup ErrorEvents
        <4>1. item' = item
          BY <1>0, <3>5, <3>8 DEF ItemOutcome
        <4> QED BY <1>2, <4>1
      <3> QED BY <3>6, <3>7, <3>8
    <2>2. CASE e \in turn[t].seen
      BY <1>2, <1>3, <2>2 DEF ingestNormalizedTrueForgeEvent
    <2> QED BY <2>1, <2>2
  <1>4. ASSUME NEW t \in TurnId, AwaitHumans(t), t \in checked, turn[t].state # "absent",
               \/ group[t].state # "absent"
               \/ turn[t].state \in {"streaming", "creating", "required_actions", "acquiring"}
        PROVE  \A x \in ItemId : ItemMove(x)
    <2>1. TurnAwaits(t)
      BY <1>0, <1>4 DEF TurnRow, AwaitHumans, TurnAwaits
    <2> QED BY <1>1, <1>4, <2>1 DEF AwaitHumans
  <1>5. CASE EventStep
    BY <1>3, <1>5 DEF EventStep
  <1>6. CASE CaptureStep
    <2> PICK t \in TurnId : \/ captureTrueForgeRequiredActions(t)
                            \/ \E need \in SUBSET Act : persistPauseGroupCapture(t, need)
                            \/ recapturePauseGroup(t)
                            \/ captureFails(t)
      BY <1>6 DEF CaptureStep, buildPauseGroupCapturePlan
    <2>1. CASE captureTrueForgeRequiredActions(t) \/ captureFails(t)
      BY <1>2, <2>1 DEF captureTrueForgeRequiredActions, captureFails, tables
    <2>2. CASE recapturePauseGroup(t)
      <3>1. turn[t].state # "absent"
        BY <2>2 DEF recapturePauseGroup, ReferencesResolve, PausesHaveTurns
      <3> QED BY <1>4, <2>2, <3>1 DEF recapturePauseGroup
    <2>3. CASE \E need \in SUBSET Act : persistPauseGroupCapture(t, need)
      BY <1>4, <2>3 DEF persistPauseGroupCapture
    <2> QED BY <2>1, <2>2, <2>3
  <1> QED BY <1>5, <1>6

\* The swap takes waiting messages and corrections to the new generation.
LEMMA SwapMoves ==
    ASSUME RuntimeInv, NEW s \in Session, NEW g \in GenId, atomicSwapSessionGeneration(s, g)
    PROVE  /\ \A x \in ItemId : ItemMove(x)
           /\ \A x \in ItemId : mayRebindQueueItem(x, s) => item'[x].bound = g
           /\ \A x \in ItemId : ItemColumns(x) /\ item'[x].state = item[x].state
           /\ sess'[s].cur = g /\ \A z \in Session \ {s} : sess'[z] = sess[z]
  <1>0. item \in [ItemId -> ItemRow] /\ sess \in [Session -> SessionRow]
    BY DEF RuntimeInv, TypeInvariant, TypeOK
  <1>1. sess'[s].cur = g /\ \A z \in Session \ {s} : sess'[z] = sess[z]
    BY <1>0 DEF atomicSwapSessionGeneration, SessionRow
  <1>2. ASSUME NEW x \in ItemId
        PROVE  /\ ItemColumns(x) /\ item'[x].state = item[x].state
               /\ mayRebindQueueItem(x, s) => item'[x].bound = g
               /\ ItemMove(x)
    <2>1. item[x] \in ItemRow
      BY <1>0
    <2>2. CASE mayRebindQueueItem(x, s)
      <3>1. item'[x] = [item[x] EXCEPT !.bound = g]
        BY <2>2 DEF atomicSwapSessionGeneration
      <3>2. ItemColumns(x) /\ item'[x].state = item[x].state /\ item'[x].bound = g
        BY <2>1, <3>1 DEF ItemRow, ItemColumns
      <3>3. ItemRebound(x)
        BY <1>1, <2>2, <3>2 DEF mayRebindQueueItem, ItemRebound
      <3> QED BY <3>2, <3>3 DEF ItemMove
    <2>3. CASE ~ mayRebindQueueItem(x, s)
      <3>1. item'[x] = item[x]
        BY <2>3 DEF atomicSwapSessionGeneration
      <3> QED BY <2>3, <3>1, UnchangedItems DEF ItemColumns
    <2> QED BY <2>2, <2>3
  <1> QED BY <1>1, <1>2

\* Every step moves every item in one of these ways.
LEMMA ItemMoves == RuntimeInv /\ [Next]_vars => \A x \in ItemId : ItemMove(x)
  <1> SUFFICES ASSUME RuntimeInv, [Next]_vars PROVE \A x \in ItemId : ItemMove(x)
    OBVIOUS
  <1>0. ASSUME UNCHANGED item PROVE \A x \in ItemId : ItemMove(x)
    BY <1>0, UnchangedItems
  <1>1. CASE QueueStep \/ LeaseStep \/ ApiStep
    BY <1>1, InsertMoves, QueueItemMoves DEF QueueStep, ApiStep, claimForBind
  <1>2. CASE LifecycleStep
    <2>1. ASSUME NEW w \in Worker, AttemptStep(w) \/ CommandStep(w) PROVE UNCHANGED item
      BY <2>1 DEF AttemptStep, CommandStep, lockClaimedTurn, listTurns, failClosed, createTurn,
                  bindCreated, bindReconciled, StreamTurn, markAgentTurnUncertain,
                  markRunStepFailed, refreshRunLifecycleForStep, executeCreateOrReconcileTurn,
                  tables
    <2>2. ASSUME NEW t \in TurnId, lateCreate(t) \/ lateResponse(t) PROVE UNCHANGED item
      BY <2>2 DEF lateCreate, lateResponse, tables
    <2> QED BY <1>0, <1>2, <2>1, <2>2, SettleMoves DEF LifecycleStep
  <1>3. CASE CaptureStep
    BY <1>3, SettleMoves
  <1>4. CASE DecisionStep
    BY <1>0, <1>4, InsertMoves DEF DecisionStep, evaluateGate, recordApprovalDecision,
                                   recordQuestionAnswer
  <1>5. CASE ResumeStep
    BY <1>0, <1>5, InsertMoves
    DEF ResumeStep, ResumeAttemptStep, loadPauseResumeForCreate, markPauseResumeCreating,
        listResponseTurns, createResponseTurn, completePauseResume, markPauseResumeUncertain,
        tables
  <1>6. CASE CorrectionStep
    BY <1>0, <1>6, InsertMoves DEF CorrectionStep, insertCorrectionStep
  <1>7. CASE CrashStep \/ StopStep \/ RestartStep
    BY <1>0, <1>7 DEF CrashStep, Crash, ResumerCrash, StopStep, RestartStep, requestRunStepStop,
                      settleCancelledStep, markActiveTurnsNeedsAttentionOnRestart, tables
  <1>8. CASE RotationStep \/ RotationFailureStep
    BY <1>0, <1>8, SwapMoves
    DEF RotationStep, RotationFailureStep, beginSessionRotation, stopActiveTurn,
        completeSessionRotation, rotationThrows, abortSessionRotation, RotationCrash, tables
  <1>9. CASE UNCHANGED vars
    BY <1>0, <1>9 DEF vars, tables
  <1> QED BY <1>1, <1>2, <1>3, <1>4, <1>5, <1>6, <1>7, <1>8, <1>9 DEF Next

-----------------------------------------------------------------------------
(* Generations. *)

\* A rotation under way owns its session: nobody else changes the session's state.
\* Before the swap it remembers the generation that is current; after it the new
\* generation is current and ready.
ProcedureKnows ==
    \A s \in Session : rot[s].pc # "idle" =>
       /\ sess[s].state = "rotating"
       /\ rot[s].pc \in {"begun", "stopped"} => rot[s].new = 0
       /\ rot[s].pc = "swapped" => rot[s].new # 0
       /\ IF rot[s].new = 0 THEN rot[s].prev = sess[s].cur
          ELSE gen[s][sess[s].cur] = "ready"

\* The inductive invariant of the sessions' generations.
GenerationInv == LiveGeneration /\ ProcedureKnows

\* No step but a rotation's changes a session, a generation or a rotation.
LEMMA SessionsFrame ==
    ASSUME [Next]_vars, ~ RotationStep, ~ RotationFailureStep
    PROVE  UNCHANGED <<sess, gen, rot>>
  <1>1. CASE QueueStep \/ LeaseStep
    BY ZenonT(60), <1>1 DEF QueueStep, LeaseStep, createDirectMultiAgentRun, claimTurnQueueItem, LeaseExpires,
                heartbeatTurnQueueLease, reclaimExpiredTurnQueueLease, beyondTables
  <1>2. ASSUME NEW w \in Worker, AttemptStep(w) \/ CommandStep(w) PROVE UNCHANGED <<sess, gen>>
    BY <1>2 DEF AttemptStep, CommandStep, lockClaimedTurn, listTurns, failClosed, createTurn,
                bindCreated, bindReconciled, StreamTurn, markAgentTurnUncertain, markRunStepFailed,
                refreshRunLifecycleForStep, executeCreateOrReconcileTurn, tables
  <1>3. CASE LifecycleStep
    BY <1>2, <1>3 DEF LifecycleStep, EventStep, ingestNormalizedTrueForgeEvent, lateCreate,
                      lateResponse, tables
  <1>4. CASE ApiStep
    BY <1>4 DEF ApiStep, claimForBind, claimTurnQueueItem
  <1>5. CASE CrashStep
    BY <1>5 DEF CrashStep, Crash, ResumerCrash, tables
  <1>6. CASE CaptureStep
    BY <1>6 DEF CaptureStep, captureTrueForgeRequiredActions, persistPauseGroupCapture,
                recapturePauseGroup, captureFails, tables
  <1>7. CASE DecisionStep
    BY ZenonT(60), <1>7 DEF DecisionStep, evaluateGate, recordApprovalDecision, recordRequestChanges,
                recordQuestionAnswer
  <1>8. CASE ResumeStep
    BY <1>8 DEF ResumeStep, ResumeAttemptStep, claimPauseGroupResume, loadPauseResumeForCreate,
                markPauseResumeCreating, listResponseTurns, createResponseTurn,
                completePauseResume, markPauseResumeUncertain, tables
  <1>9. CASE StopStep \/ CorrectionStep \/ RestartStep
    BY <1>9 DEF StopStep, CorrectionStep, RestartStep, requestRunStepStop, settleCancelledStep,
                insertCorrectionStep, enqueueCorrectionForStep,
                markActiveTurnsNeedsAttentionOnRestart
  <1>10. CASE UNCHANGED vars
    BY <1>10 DEF vars, tables
  <1> QED BY <1>1, <1>3, <1>4, <1>5, <1>6, <1>7, <1>8, <1>9, <1>10 DEF Next

\* Every step of a rotation keeps the session it is about in order.
LEMMA RotationKeepsGeneration ==
    ASSUME RuntimeInv, GenerationInv, RotationStep \/ RotationFailureStep
    PROVE  GenerationInv'
  <1> TypeOK /\ RotationTypeOK
    BY DEF RuntimeInv, TypeInvariant
  <1> PICK s \in Session :
           \/ \E restrict \in BOOLEAN, a \in 0..MaxTurn : beginSessionRotation(s, restrict, a)
           \/ stopActiveTurn(s)
           \/ \E g \in GenId : atomicSwapSessionGeneration(s, g)
           \/ completeSessionRotation(s)
           \/ rotationThrows(s) \/ abortSessionRotation(s) \/ RotationCrash(s)
    BY DEF RotationStep, RotationFailureStep
  <1>0. \A x \in Session \ {s} : sess'[x] = sess[x] /\ gen'[x] = gen[x] /\ rot'[x] = rot[x]
    BY DEF beginSessionRotation, stopActiveTurn, atomicSwapSessionGeneration,
           completeSessionRotation, rotationThrows, abortSessionRotation, RotationCrash, tables,
           TypeOK, RotationTypeOK
  <1> DEFINE cur == sess[s].cur
             r == rot[s]
  <1>1. /\ sess[s] \in SessionRow /\ gen[s] \in [GenId -> GenState] /\ r \in Rotation
        /\ cur \in GenId /\ sess[s].state \in {"active", "rotating"}
        /\ DOMAIN sess = Session /\ DOMAIN gen = Session /\ DOMAIN rot = Session
    BY DEF TypeOK, SessionRow, RotationTypeOK
  <1>2. /\ gen[s][cur] \in {"ready", "rotating"}
        /\ sess[s].state = "active" => gen[s][cur] = "ready"
        /\ \A g \in GenId : gen[s][g] \in {"ready", "rotating"} => g = cur
        /\ r.pc # "idle" => /\ sess[s].state = "rotating"
                            /\ r.pc \in {"begun", "stopped"} => r.new = 0
                            /\ r.pc = "swapped" => r.new # 0
                            /\ IF r.new = 0 THEN r.prev = cur ELSE gen[s][cur] = "ready"
    BY DEF GenerationInv, LiveGeneration, ProcedureKnows
  <1> DEFINE Kept1(se, ge, ro) ==
               /\ ge[se.cur] \in {"ready", "rotating"}
               /\ se.state = "active" => ge[se.cur] = "ready"
               /\ \A g \in GenId : ge[g] \in {"ready", "rotating"} => g = se.cur
               /\ ro.pc # "idle" => /\ se.state = "rotating"
                                    /\ ro.pc \in {"begun", "stopped"} => ro.new = 0
                                    /\ ro.pc = "swapped" => ro.new # 0
                                    /\ IF ro.new = 0 THEN ro.prev = se.cur ELSE ge[se.cur] = "ready"
  <1>3. SUFFICES Kept1(sess'[s], gen'[s], rot'[s])
    BY <1>0 DEF GenerationInv, LiveGeneration, ProcedureKnows
  <1>4. ASSUME NEW restrict \in BOOLEAN, NEW a \in 0..MaxTurn, beginSessionRotation(s, restrict, a)
        PROVE  Kept1(sess'[s], gen'[s], rot'[s])
    <2>1. /\ sess'[s].state = "rotating" /\ sess'[s].cur = cur
          /\ rot'[s].pc = "begun" /\ rot'[s].prev = cur /\ rot'[s].new = 0
      BY <1>1, <1>4 DEF beginSessionRotation, SessionRow, NoRotation
    <2>2. gen'[s] = [gen[s] EXCEPT ![cur] = "rotating"]
      BY <1>1, <1>2, <1>4 DEF beginSessionRotation
    <2> QED BY <1>1, <1>2, <2>1, <2>2
  <1>5. CASE stopActiveTurn(s)
    <2>1. /\ sess'[s] = sess[s] /\ gen'[s] = gen[s] /\ r.pc = "begun"
          /\ rot'[s].pc = "stopped" /\ rot'[s].prev = r.prev /\ rot'[s].new = r.new
      BY <1>1, <1>5 DEF stopActiveTurn, Rotation
    <2> QED BY <1>2, <2>1
  <1>6. ASSUME NEW g \in GenId, atomicSwapSessionGeneration(s, g)
        PROVE  Kept1(sess'[s], gen'[s], rot'[s])
    <2>1. /\ r.pc = "stopped" /\ r.prev = cur /\ sess[s].state = "rotating"
          /\ gen[s][g] = "absent" /\ g # cur /\ g # 0
      <3>1. g # 0
        BY BoundAssumption DEF GenId
      <3>2. /\ r.pc = "stopped" /\ r.prev = cur /\ sess[s].state = "rotating"
            /\ gen[s][g] = "absent"
        BY <1>6 DEF atomicSwapSessionGeneration
      <3> QED BY <1>2, <3>1, <3>2
    <2>2. /\ sess'[s].state = "rotating" /\ sess'[s].cur = g
          /\ rot'[s].pc = "swapped" /\ rot'[s].new = g
      BY <1>1, <1>6, <2>1 DEF atomicSwapSessionGeneration, SessionRow, Rotation
    <2>3. gen'[s] = [gen[s] EXCEPT ![g] = "ready", ![cur] = "retired"]
      <3>1. gen'[s] = ReplaceGeneration(s, g, r.prev)
        BY <1>1, <1>6 DEF atomicSwapSessionGeneration
      <3> QED BY <2>1, <3>1 DEF ReplaceGeneration
    <2> QED BY <1>1, <1>2, <2>1, <2>2, <2>3
  <1>7. CASE completeSessionRotation(s)
    <2>1. /\ sess'[s].state = "active" /\ sess'[s].cur = cur /\ gen'[s] = gen[s]
          /\ r.pc = "swapped" /\ rot'[s].pc = "idle"
      BY <1>1, <1>2, <1>7 DEF completeSessionRotation, SessionRow, NoRotation
    <2> QED BY <1>2, <2>1
  <1>8. CASE rotationThrows(s)
    <2>1. /\ sess'[s] = sess[s] /\ gen'[s] = gen[s] /\ r.pc # "idle"
          /\ rot'[s].pc = "failed" /\ rot'[s].prev = r.prev /\ rot'[s].new = r.new
      BY <1>1, <1>8 DEF rotationThrows, Rotation, tables
    <2> QED BY <1>2, <2>1
  <1>9. CASE abortSessionRotation(s)
    <2>1. r.pc = "failed" /\ rot'[s].pc = "idle"
      BY <1>1, <1>9 DEF abortSessionRotation, NoRotation
    <2>2. CASE r.new = 0
      <3>1. r.prev = cur
        BY <1>2, <2>1, <2>2
      <3>2. sess'[s].state = "active" /\ sess'[s].cur = cur
        BY <1>1, <1>9, <2>2 DEF abortSessionRotation, SessionRow
      <3>3. gen'[s] = [gen[s] EXCEPT ![cur] = "ready"]
        BY <1>1, <1>2, <1>9, <2>2, <3>1 DEF abortSessionRotation
      <3> QED BY <1>1, <1>2, <2>1, <3>2, <3>3
    <2>3. CASE r.new # 0
      BY <1>2, <1>9, <2>1, <2>3 DEF abortSessionRotation
    <2> QED BY <2>2, <2>3
  <1>10. CASE RotationCrash(s)
    <2>1. sess'[s] = sess[s] /\ gen'[s] = gen[s] /\ rot'[s].pc = "idle"
      BY <1>1, <1>10 DEF RotationCrash, NoRotation, tables
    <2> QED BY <1>2, <2>1
  <1> QED BY <1>4, <1>5, <1>6, <1>7, <1>8, <1>9, <1>10

\* The invariant holds at first, and every step keeps it.
LEMMA GenerationInductive ==
    /\ Init => GenerationInv
    /\ RuntimeInv /\ GenerationInv /\ [Next]_vars => GenerationInv'
  <1>1. Init => GenerationInv
    BY RowNumbers DEF Init, TablesInit, RotationInit, NoRotation, GenerationInv, LiveGeneration, ProcedureKnows
  <1>2. ASSUME RuntimeInv, GenerationInv, [Next]_vars PROVE GenerationInv'
    <2>1. CASE RotationStep \/ RotationFailureStep
      BY <1>2, <2>1, RotationKeepsGeneration
    <2>2. CASE ~ RotationStep /\ ~ RotationFailureStep
      BY <1>2, <2>2, SessionsFrame DEF GenerationInv, LiveGeneration, ProcedureKnows
    <2> QED BY <2>1, <2>2
  <1> QED BY <1>1, <1>2

\* So it holds always.
LEMMA SpecGenerations == Spec => [](RuntimeInv /\ GenerationInv)
  BY GenerationInductive, InitInv, NextInv, PTL DEF Spec

\* A session that accepts work runs on a ready generation, and no other generation of
\* it is live, however rotations of it begin, swap, throw, abort and crash.
THEOREM OneLiveGeneration == Spec => []LiveGeneration
  <1>1. RuntimeInv /\ GenerationInv => LiveGeneration
    BY DEF GenerationInv
  <1> QED BY <1>1, SpecGenerations, PTL

-----------------------------------------------------------------------------
(* Waiting work. *)

\* Waiting work is bound live.  Only a correction is linked to an action, and the row
\* of a turn that was not opened yet names no item.
WaitingInv ==
    /\ QueuedWorkIsBoundLive
    /\ \A i \in ItemId : item[i].linkA # NoAct => item[i].type = "correction"
    /\ \A t \in TurnId : turn[t].state = "absent" => turn[t].item = 0

\* Only the swap changes which generation is current.
LEMMA CurrentKept ==
    ASSUME RuntimeInv, [Next]_vars,
           \A s \in Session, g \in GenId : ~ atomicSwapSessionGeneration(s, g)
    PROVE  \A s \in Session : sess'[s].cur = sess[s].cur
  <1>0. sess \in [Session -> SessionRow]
    BY DEF RuntimeInv, TypeInvariant, TypeOK
  <1>1. ASSUME NEW s \in Session, NEW x, sess' = [sess EXCEPT ![s].state = x]
        PROVE  \A z \in Session : sess'[z].cur = sess[z].cur
    BY <1>0, <1>1 DEF SessionRow
  <1>2. CASE RotationStep
    BY <1>1, <1>2 DEF RotationStep, beginSessionRotation, stopActiveTurn, completeSessionRotation
  <1>3. CASE RotationFailureStep
    BY <1>1, <1>3
    DEF RotationFailureStep, rotationThrows, abortSessionRotation, RotationCrash, tables
  <1> QED BY <1>2, <1>3, SessionsFrame

\* A turn that is there names its item for good, and no row becomes absent.
LEMMA TurnsStay ==
    ASSUME RuntimeInv, [Next]_vars
    PROVE  \A t \in TurnId : /\ turn[t].state # "absent" => TurnColumns(t) /\ turn'[t].state # "absent"
                             /\ turn'[t].state = "absent" => turn'[t] = turn[t]
  <1> SUFFICES ASSUME NEW t \in TurnId
               PROVE  /\ turn[t].state # "absent" => TurnColumns(t) /\ turn'[t].state # "absent"
                      /\ turn'[t].state = "absent" => turn'[t] = turn[t]
    OBVIOUS
  <1>1. TurnMove(t)
    BY TurnMoves
  <1>2. TurnChanges(t) => turn'[t].state # "absent"
    BY DEF TurnChanges, TurnLocked, TurnStreams, TurnUncertain, TurnCancelled, TurnIngests,
           TurnAwaits, IngestStates, TurnOutcome
  <1>3. TurnOpened(t) => turn[t].state = "absent" /\ turn'[t].state # "absent"
    BY DEF TurnOpened, NextTurn
  <1> QED BY <1>1, <1>2, <1>3 DEF TurnMove, TurnColumns

\* Every step keeps waiting work bound live.
LEMMA WaitingInductive ==
    /\ Init => WaitingInv
    /\ RuntimeInv /\ WaitingInv /\ [Next]_vars => WaitingInv'
  <1>1. Init => WaitingInv
    BY DEF Init, TablesInit, NoItem, NoTurn, WaitingInv, QueuedWorkIsBoundLive
  <1>2. ASSUME RuntimeInv, WaitingInv, [Next]_vars PROVE WaitingInv'
    <2>0. \A i \in ItemId : item[i].sess \in Session
      BY <1>2 DEF RuntimeInv, TypeInvariant, TypeOK, ItemRow
    <2>1. \A t \in TurnId : turn'[t].state = "absent" => turn'[t].item = 0
      BY <1>2, TurnsStay DEF WaitingInv
    <2>2. ASSUME NEW i \in ItemId, item'[i].linkA # NoAct PROVE item'[i].type = "correction"
      BY <1>2, <2>2, ItemMoves
      DEF WaitingInv, ItemMove, ItemStays, ItemColumns, ItemInserted, ItemClaimed, ItemReturned,
          ItemSettled, ItemRebound
    <2>3. ASSUME NEW i \in ItemId, item'[i].state = "queued",
                 item'[i].type = "normal" \/ item'[i].linkA # NoAct,
                 \A t \in TurnId : turn'[t].item # i
          PROVE  item'[i].bound \in {0, sess'[item'[i].sess].cur}
      <3>1. \A t \in TurnId : turn[t].item # i
        <4> SUFFICES ASSUME NEW t \in TurnId, turn[t].item = i PROVE FALSE
          OBVIOUS
        <4>1. i # 0
          BY DEF ItemId
        <4>2. turn[t].state # "absent"
          BY <1>2, <4>1 DEF WaitingInv
        <4> QED BY <1>2, <2>3, <4>2, TurnsStay DEF TurnColumns
      <3>2. ASSUME NEW s \in Session, NEW g \in GenId, atomicSwapSessionGeneration(s, g)
            PROVE  item'[i].bound \in {0, sess'[item'[i].sess].cur}
        <4>1. ItemColumns(i) /\ item'[i].state = item[i].state
          BY <1>2, <3>2, SwapMoves
        <4>2. item[i].type \in {"normal", "correction"}
          BY <1>2, <2>3, <4>1 DEF ItemColumns, WaitingInv
        <4>3. CASE item[i].sess = s
          BY <1>2, <2>3, <3>2, <4>1, <4>2, <4>3, SwapMoves DEF mayRebindQueueItem, ItemColumns
        <4>4. CASE item[i].sess # s
          <5>1. item'[i] = item[i]
            BY <3>2, <4>4 DEF atomicSwapSessionGeneration, mayRebindQueueItem
          <5>2. sess'[item[i].sess] = sess[item[i].sess]
            BY <1>2, <2>0, <3>2, <4>4, SwapMoves
          <5> QED BY <1>2, <2>3, <3>1, <5>1, <5>2 DEF WaitingInv, QueuedWorkIsBoundLive
        <4> QED BY <4>3, <4>4
      <3>3. CASE \A s \in Session, g \in GenId : ~ atomicSwapSessionGeneration(s, g)
        <4>1. \A s \in Session : sess'[s].cur = sess[s].cur
          BY <1>2, <3>3, CurrentKept
        <4>2. CASE ItemStays(i)
          BY <1>2, <2>0, <2>3, <3>1, <4>1, <4>2
          DEF ItemStays, ItemColumns, WaitingInv, QueuedWorkIsBoundLive
        <4>3. CASE ItemInserted(i)
          BY <2>3, <4>3 DEF ItemInserted
        <4>4. CASE ItemRebound(i)
          BY <4>4 DEF ItemRebound, ItemColumns
        <4>5. ~ ItemClaimed(i) /\ ~ ItemSettled(i)
          BY <2>3 DEF ItemClaimed, ItemSettled
        <4>6. ~ ItemReturned(i)
          BY <3>1 DEF ItemReturned, LatestTurn
        <4>7. ItemMove(i)
          BY <1>2, ItemMoves
        <4> QED BY <4>2, <4>3, <4>4, <4>5, <4>6, <4>7 DEF ItemMove
      <3> QED BY <3>2, <3>3
    <2> QED BY <2>1, <2>2, <2>3 DEF WaitingInv, QueuedWorkIsBoundLive
  <1> QED BY <1>1, <1>2

\* So it holds always.
LEMMA SpecWaiting == Spec => [](RuntimeInv /\ GenerationInv /\ WaitingInv)
  BY WaitingInductive, SpecGenerations, PTL DEF Spec

\* A message that was never claimed, and a request for changes, waits unbound or bound
\* to the session's live generation, so that a rotation never strands it.
THEOREM WaitingWorkFollows == Spec => []QueuedWorkIsBoundLive
  <1>1. RuntimeInv /\ GenerationInv /\ WaitingInv => QueuedWorkIsBoundLive
    BY DEF WaitingInv
  <1> QED BY <1>1, SpecWaiting, PTL
=============================================================================
