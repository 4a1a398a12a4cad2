----------------------------- MODULE CreateProofs -----------------------------
(***************************************************************************)
(* Provider turns: a queue item opens at most one, through lost answers,   *)
(* crashes, restarts, reclaimed leases and late effects; a turn is bound   *)
(* only to one that exists; items of one type start in the order they were *)
(* queued; finished turns stay so, and a run that is settled has only      *)
(* corrections left to do, for every value of the constants.               *)
(*                                                                         *)
(* The first of these is not inductive by itself. What carries it: while a *)
(* turn is acquiring no attempt on it has got past its claim, so nothing   *)
(* was asked of the provider; a reclaim therefore gives back only items    *)
(* all of whose turns are dead, cancelled with no provider turn open or    *)
(* under way and no attempt that could still open one. The last of them    *)
(* needs only how the steps of runs move (StepMove): a change that takes a *)
(* step back from being done projects its run in the same transaction, and *)
(* a projection calls a run settled only when its steps are done.          *)
(***************************************************************************)
EXTENDS PauseProofs

-----------------------------------------------------------------------------
(* How create attempts and the provider's counters move. *)

CountsKept(t) == prov'[t].made = prov[t].made /\ prov'[t].late = prov[t].late

\* The columns of an attempt that its start sets for good.
AttemptColumns(w) == /\ call'[w].turn = call[w].turn
                     /\ call'[w].force = call[w].force /\ call'[w].local = call[w].local

\* claimForBind starts an attempt on the turn it opens; a command starts one on a turn
\* it locks.
AttemptClaims(w) ==
    /\ call'[w].turn \in TurnId /\ TurnOpened(call'[w].turn)
    /\ call'[w].pc = "claimed" /\ call'[w].found = 0

AttemptCommanded(w) ==
    LET t == call'[w].turn IN
    /\ t \in TurnId /\ turn[t].state \in Lockable /\ turn'[t].state \in {"creating", "uncertain"}
    /\ call'[w].pc = "locked" /\ call'[w].found = 0
    /\ CommandDelivered(t, call'[w].force)

\* An attempt locks its turn, reads the history, stops, or fails.
AttemptLocks(w) ==
    /\ AttemptColumns(w) /\ call[w].pc = "claimed" /\ call'[w].pc = "locked"
    /\ call'[w].found = call[w].found
    /\ turn[call[w].turn].state \in Lockable
    /\ turn'[call[w].turn].state \in {"creating", "uncertain"}

AttemptReads(w) ==
    /\ AttemptColumns(w) /\ call[w].pc = "locked" /\ call'[w].pc = "read" /\ ReadsHistory(w)
    /\ call'[w].found \in {0, prov[call[w].turn].made}

AttemptStops(w) == call'[w] = NoAttempt

AttemptFails(w) ==
    /\ AttemptColumns(w) /\ call'[w].found = call[w].found
    /\ \/ call[w].pc \in {"locked", "read", "created"} /\ call'[w].pc = "failed"
       \/ call[w].pc = "claimed" /\ call'[w].pc = "stepfail" /\ turn[call[w].turn].state \notin Lockable
       \/ call[w].pc \in {"failed", "stepfail"} /\ call'[w].pc \in {"stepfail", "refresh"}

AttemptMove(w) == \/ AttemptClaims(w) \/ AttemptCommanded(w) \/ AttemptLocks(w)
                  \/ AttemptReads(w) \/ AttemptStops(w) \/ AttemptFails(w)

\* An attempt asks for a provider turn, which is opened at once or later.
AttemptCreates(w) ==
    LET t == call[w].turn IN
    /\ AttemptColumns(w) /\ call'[w].found = call[w].found
    /\ Decided(w) /\ decideCreateOrReconcile(w) = "create_new"
    /\ call'[w].pc \in {"created", "failed"} /\ (call'[w].pc = "created" => prov'[t].made > 0)
    /\ prov'[t].made >= prov[t].made /\ prov'[t].late >= prov[t].late
    /\ prov'[t].made + prov'[t].late = prov[t].made + prov[t].late + 1
    /\ \A u \in TurnId \ {t} : CountsKept(u)

\* The provider carries out a request nobody waits for.
LateCreated(t) ==
    /\ prov[t].late > 0 /\ prov'[t].made = prov[t].made + 1 /\ prov'[t].late = prov[t].late - 1
    /\ \A u \in TurnId \ {t} : CountsKept(u)

OthersKept(w) == \A v \in Worker \ {w} : call'[v] = call[v]

CallMove ==
    \/ UNCHANGED call /\ \A t \in TurnId : CountsKept(t)
    \/ \E w \in Worker : OthersKept(w) /\ AttemptMove(w) /\ \A t \in TurnId : CountsKept(t)
    \/ \E w \in Worker : OthersKept(w) /\ AttemptCreates(w)
    \/ \E t \in TurnId : UNCHANGED call /\ LateCreated(t)

\* Attempts, provider counters and turns have their types.
LEMMA CallTypes ==
    ASSUME RuntimeInv
    PROVE  /\ call \in [Worker -> Attempt] /\ prov \in [TurnId -> Provider]
           /\ turn \in [TurnId -> TurnRow]
  BY DEF RuntimeInv, TypeInvariant, TypeOK, LifecycleTypeOK

\* An attempt under way is about a turn.
LEMMA CallHasTurn ==
    ASSUME RuntimeInv, NEW w \in Worker, call[w].pc # "idle"
    PROVE  call[w].turn \in TurnId /\ turn[call[w].turn].state # "absent"
  BY DEF RuntimeInv, ReferencesResolve, ProceduresHaveRows

\* The attempts start.
LEMMA StartMoves ==
    ASSUME RuntimeInv, NEW w \in Worker
    PROVE  /\ \A i \in ItemId, t \in TurnId, u \in 0..MaxTurn :
                 claimForBind(w, i, t, u) => OthersKept(w) /\ AttemptMove(w) /\ UNCHANGED prov
           /\ CommandStep(w) => OthersKept(w) /\ AttemptMove(w) /\ UNCHANGED prov
  <1>1. ASSUME NEW i \in ItemId, NEW t \in TurnId, NEW u \in 0..MaxTurn, claimForBind(w, i, t, u)
        PROVE  OthersKept(w) /\ AttemptMove(w) /\ UNCHANGED prov
    <2> DEFINE row == [NoAttempt EXCEPT !.pc = "claimed", !.turn = t, !.api = TRUE]
    <2>1. OthersKept(w) /\ call'[w] = row /\ UNCHANGED prov
      BY <1>1, CallTypes DEF claimForBind, OthersKept
    <2>2. row.pc = "claimed" /\ row.turn = t /\ row.found = 0
      BY DEF NoAttempt
    <2>3. TurnOpened(t)
      BY <1>1, ClaimMoves DEF claimForBind, RuntimeInv, TypeInvariant
    <2> HIDE DEF row
    <2> QED BY <2>1, <2>2, <2>3 DEF AttemptMove, AttemptClaims
  <1>2. ASSUME NEW t \in TurnId, NEW force \in BOOLEAN, NEW local \in BOOLEAN,
               executeCreateOrReconcileTurn(w, t, force, local)
        PROVE  OthersKept(w) /\ AttemptMove(w) /\ UNCHANGED prov
    <2> DEFINE row == [NoAttempt EXCEPT !.pc = "locked", !.turn = t, !.force = force,
                                        !.local = local, !.unc = (turn[t].state = "uncertain")]
    <2>1. OthersKept(w) /\ call'[w] = row /\ UNCHANGED prov
      BY <1>2, CallTypes DEF executeCreateOrReconcileTurn, OthersKept
    <2>2. row.pc = "locked" /\ row.turn = t /\ row.force = force /\ row.found = 0
      BY DEF NoAttempt
    <2>3. turn[t].state \in Lockable /\ CommandDelivered(t, force) /\ turn' = LockedTurns(t)
      BY <1>2 DEF executeCreateOrReconcileTurn
    <2>4. turn'[t].state \in {"creating", "uncertain"}
      BY <2>3, CallTypes DEF LockedTurns, Lockable, TurnRow
    <2> HIDE DEF row
    <2>5. AttemptCommanded(w)
      BY <2>1, <2>2, <2>3, <2>4 DEF AttemptCommanded
    <2> QED BY <2>1, <2>5 DEF AttemptMove
  <1> QED BY <1>1, <1>2 DEF CommandStep

\* What an attempt does between its start and its end.
LEMMA AttemptGoesOn ==
    ASSUME RuntimeInv, NEW w \in Worker, AttemptStep(w), ~ createTurn(w)
    PROVE  OthersKept(w) /\ AttemptMove(w) /\ UNCHANGED prov
  <1>0. call[w] \in Attempt
    BY CallTypes
  <1>1. ASSUME NEW x, call' = [call EXCEPT ![w].pc = x]
        PROVE  /\ OthersKept(w) /\ AttemptColumns(w)
               /\ call'[w].pc = x /\ call'[w].found = call[w].found
    BY <1>0, <1>1, CallTypes DEF OthersKept, AttemptColumns, Attempt
  <1>2. ASSUME call' = [call EXCEPT ![w] = NoAttempt] PROVE OthersKept(w) /\ AttemptMove(w)
    BY <1>2, CallTypes DEF OthersKept, AttemptMove, AttemptStops
  <1>3. CASE lockClaimedTurn(w)
    <2> DEFINE t == call[w].turn
    <2>1. t \in TurnId /\ call[w].pc = "claimed" /\ UNCHANGED prov
      BY <1>3, CallHasTurn DEF lockClaimedTurn
    <2>2. CASE turn[t].state \in Lockable
      <3>1. call' = [call EXCEPT ![w] = [@ EXCEPT !.pc = "locked", !.unc = (turn[t].state = "uncertain")]]
            /\ turn' = LockedTurns(t)
        BY <1>3, <2>2 DEF lockClaimedTurn
      <3>2. /\ OthersKept(w) /\ AttemptColumns(w)
            /\ call'[w].pc = "locked" /\ call'[w].found = call[w].found
        BY <1>0, <3>1, CallTypes DEF OthersKept, AttemptColumns, Attempt
      <3>3. turn'[t].state \in {"creating", "uncertain"}
        BY <2>1, <2>2, <3>1, CallTypes DEF LockedTurns, Lockable, TurnRow
      <3> QED BY <2>1, <2>2, <3>2, <3>3 DEF AttemptMove, AttemptLocks
    <2>3. CASE turn[t].state \notin Lockable
      BY <1>1, <1>3, <2>1, <2>3 DEF lockClaimedTurn, AttemptMove, AttemptFails
    <2> QED BY <2>2, <2>3
  <1>4. CASE listTurns(w)
    <2>1. CASE \E n \in {0, prov[call[w].turn].made} :
                  call' = [call EXCEPT ![w] = [@ EXCEPT !.pc = "read", !.found = n]]
      <3>1. PICK n \in {0, prov[call[w].turn].made} :
                  call' = [call EXCEPT ![w] = [@ EXCEPT !.pc = "read", !.found = n]]
        BY <2>1
      <3>2. OthersKept(w) /\ AttemptColumns(w) /\ call'[w].pc = "read" /\ call'[w].found = n
        BY <1>0, <3>1, CallTypes DEF OthersKept, AttemptColumns, Attempt
      <3> QED BY <1>4, <3>2 DEF listTurns, AttemptMove, AttemptReads
    <2> QED BY <1>1, <1>4, <2>1 DEF listTurns, historyReadFails, AttemptMove, AttemptFails
  <1>5. CASE failClosed(w)
    BY <1>1, <1>5 DEF failClosed, Decided, AttemptMove, AttemptFails
  <1>6. CASE bindCreated(w)
    BY <1>1, <1>2, <1>6 DEF bindCreated, AttemptMove, AttemptFails
  <1>7. CASE bindReconciled(w)
    BY <1>1, <1>2, <1>7 DEF bindReconciled, Decided, AttemptMove, AttemptFails
  <1>8. CASE markAgentTurnUncertain(w)
    BY <1>1, <1>2, <1>8 DEF markAgentTurnUncertain, AfterFailure, AttemptMove, AttemptFails
  <1>9. CASE markRunStepFailed(w) \/ refreshRunLifecycleForStep(w)
    BY <1>1, <1>2, <1>9 DEF markRunStepFailed, refreshRunLifecycleForStep, AttemptMove, AttemptFails
  <1> QED BY <1>3, <1>4, <1>5, <1>6, <1>7, <1>8, <1>9 DEF AttemptStep

\* The request for a provider turn.
LEMMA CreateMoves ==
    ASSUME RuntimeInv, NEW w \in Worker, createTurn(w)
    PROVE  /\ OthersKept(w)
           /\ AttemptCreates(w) \/ (AttemptMove(w) /\ UNCHANGED prov)
  <1> DEFINE t == call[w].turn
  <1>0. call[w] \in Attempt /\ t \in TurnId
    BY CallTypes, CallHasTurn DEF createTurn, Decided
  <1>1. ASSUME NEW x, call' = [call EXCEPT ![w].pc = x]
        PROVE  /\ OthersKept(w) /\ AttemptColumns(w)
               /\ call'[w].pc = x /\ call'[w].found = call[w].found
    BY <1>0, <1>1, CallTypes DEF OthersKept, AttemptColumns, Attempt
  <1>2. Decided(w) /\ decideCreateOrReconcile(w) = "create_new"
    BY DEF createTurn
  <1>3. prov[t] \in Provider /\ prov[t].made \in Nat /\ prov[t].late \in Nat
    BY <1>0, CallTypes, CreateAssumption DEF Provider
  <1>4. CASE /\ prov' = [prov EXCEPT ![t].made = @ + 1]
             /\ \E pc \in {"created", "failed"} : call' = [call EXCEPT ![w].pc = pc]
    <2>1. /\ prov'[t].made = prov[t].made + 1 /\ prov'[t].late = prov[t].late
          /\ \A u \in TurnId \ {t} : CountsKept(u)
      BY <1>0, <1>3, <1>4, CallTypes DEF Provider, CountsKept
    <2>2. /\ prov'[t].made >= prov[t].made /\ prov'[t].late >= prov[t].late /\ prov'[t].made > 0
          /\ prov'[t].made + prov'[t].late = prov[t].made + prov[t].late + 1
      BY <1>3, <2>1
    <2>3. /\ OthersKept(w) /\ AttemptColumns(w)
          /\ call'[w].pc \in {"created", "failed"} /\ call'[w].found = call[w].found
      BY <1>1, <1>4
    <2> QED BY <1>2, <2>1, <2>2, <2>3 DEF AttemptCreates
  <1>5. CASE /\ prov' = [prov EXCEPT ![t].late = @ + 1]
             /\ call' = [call EXCEPT ![w].pc = "failed"]
    <2>1. /\ prov'[t].late = prov[t].late + 1 /\ prov'[t].made = prov[t].made
          /\ \A u \in TurnId \ {t} : CountsKept(u)
      BY <1>0, <1>3, <1>5, CallTypes DEF Provider, CountsKept
    <2>2. /\ prov'[t].made >= prov[t].made /\ prov'[t].late >= prov[t].late
          /\ prov'[t].made + prov'[t].late = prov[t].made + prov[t].late + 1
      BY <1>3, <2>1
    <2>3. /\ OthersKept(w) /\ AttemptColumns(w)
          /\ call'[w].pc = "failed" /\ call'[w].found = call[w].found
      BY <1>1, <1>5
    <2> QED BY <1>2, <2>1, <2>2, <2>3 DEF AttemptCreates
  <1>6. CASE UNCHANGED prov /\ call' = [call EXCEPT ![w].pc = "failed"]
    BY <1>1, <1>2, <1>6 DEF Decided, AttemptMove, AttemptFails
  <1> QED BY <1>4, <1>5, <1>6 DEF createTurn

\* Every step moves attempts and counters in one of these ways.
LEMMA CallMoves == ASSUME RuntimeInv, [Next]_vars PROVE CallMove
  <1>0. UNCHANGED prov => \A t \in TurnId : CountsKept(t)
    BY DEF CountsKept
  <1>1. ASSUME NEW t \in TurnId, NEW n, NEW m,
               \/ prov' = [prov EXCEPT ![t].again = n]
               \/ prov' = [prov EXCEPT ![t].lateAgain = n]
               \/ prov' = [prov EXCEPT ![t].lateAgain = n, ![t].again = m]
        PROVE  \A u \in TurnId : CountsKept(u)
    BY <1>1, CallTypes DEF Provider, CountsKept
  <1>2. CASE LifecycleStep
    <2>1. ASSUME NEW w \in Worker, AttemptStep(w) PROVE CallMove
      BY <1>0, <2>1, AttemptGoesOn, CreateMoves DEF CallMove
    <2>2. ASSUME NEW w \in Worker, CommandStep(w) PROVE CallMove
      BY <1>0, <2>2, StartMoves DEF CallMove
    <2>3. CASE EventStep
      BY <1>0, <2>3 DEF CallMove, EventStep, ingestNormalizedTrueForgeEvent
    <2>4. ASSUME NEW t \in TurnId, lateCreate(t) PROVE CallMove
      <3>1. prov[t] \in Provider /\ prov' = [prov EXCEPT ![t].late = @ - 1, ![t].made = @ + 1]
        BY <2>4, CallTypes DEF lateCreate
      <3>2. LateCreated(t) /\ UNCHANGED call
        BY <2>4, <3>1, CallTypes DEF lateCreate, LateCreated, Provider, CountsKept
      <3> QED BY <3>2 DEF CallMove
    <2>5. ASSUME NEW t \in TurnId, lateResponse(t) PROVE CallMove
      BY <1>1, <2>5 DEF lateResponse, CallMove
    <2> QED BY <1>2, <2>1, <2>2, <2>3, <2>4, <2>5 DEF LifecycleStep
  <1>3. CASE ApiStep
    BY <1>0, <1>3, StartMoves DEF ApiStep, CallMove
  <1>4. CASE CrashStep
    <2>1. ASSUME NEW w \in Worker, Crash(w) PROVE CallMove
      BY <1>0, <2>1, CallTypes DEF Crash, CallMove, OthersKept, AttemptMove, AttemptStops
    <2>2. ASSUME NEW w \in Worker, ResumerCrash(w) PROVE CallMove
      BY <1>0, <2>2 DEF ResumerCrash, CallMove, lifecycleVars
    <2> QED BY <1>4, <2>1, <2>2 DEF CrashStep
  <1>5. CASE ResumeStep /\ UNCHANGED call
    <2>1. ASSUME NEW w \in Worker, createResponseTurn(w) PROVE \A t \in TurnId : CountsKept(t)
      <3>1. resumer[w].turn \in TurnId
        BY <2>1 DEF createResponseTurn, RuntimeInv, ReferencesResolve, ProceduresHaveRows
      <3> QED BY <1>0, <1>1, <2>1, <3>1 DEF createResponseTurn
    <2>2. ASSUME ~ \E w \in Worker : createResponseTurn(w) PROVE UNCHANGED prov
      BY <1>5, <2>2 DEF ResumeStep, ResumeAttemptStep, claimPauseGroupResume,
             loadPauseResumeForCreate, markPauseResumeCreating, listResponseTurns,
             completePauseResume, markPauseResumeUncertain, lifecycleVars
    <2> QED BY <1>0, <1>5, <2>1, <2>2 DEF CallMove
  <1> QED BY <1>0, <1>2, <1>3, <1>4, <1>5, AttemptsFrame DEF CallMove

-----------------------------------------------------------------------------
(* Turns and what the provider was asked for them. *)

\* Nothing was asked of the provider for t.
NoTrace(t) == prov[t].made = 0 /\ prov[t].late = 0

OnTurn(w, t) == call[w].pc # "idle" /\ call[w].turn = t

\* Turn t was given back, and no attempt on it gets anywhere.
Dead(t) ==
    /\ turn[t].state = "cancelled" /\ NoTrace(t)
    /\ \A w \in Worker : OnTurn(w, t) => call[w].pc \in {"claimed", "stepfail", "refresh"}

\* Nothing is asked of the provider before the turn is locked ...
UnlockedTurnsClean ==
    /\ \A t \in TurnId : turn[t].state = "absent" => NoTrace(t)
    /\ \A t \in TurnId : turn[t].state = "acquiring" =>
          NoTrace(t) /\ \A w \in Worker : OnTurn(w, t) => call[w].pc = "claimed"

\* ... and what is known of a provider turn is known of one that exists.
KnownTurnsExist ==
    /\ \A t \in TurnId : turn[t].tf \/ t \in checked \/ group[t].state # "absent"
                         => prov[t].made > 0
    /\ \A w \in Worker, t \in TurnId :
          call[w].turn = t /\ (call[w].pc = "created" \/ call[w].found > 0) => prov[t].made > 0
    /\ \A w \in Worker :
          /\ call[w].pc = "read" => ReadsHistory(w)
          /\ call[w].pc \in {"claimed", "locked"} => call[w].found = 0

\* An item has no turn but dead ones while it waits, and at most one other.
ReturnedTurnsDead ==
    /\ \A t \in TurnId : turn[t].state # "absent" /\ item[turn[t].item].state = "queued" => Dead(t)
    /\ \A t, u \in TurnId : /\ t # u /\ turn[t].state # "absent" /\ turn[u].state # "absent"
                            /\ turn[t].item = turn[u].item
                            => Dead(t) \/ Dead(u)

ProvidedInv == UnlockedTurnsClean /\ KnownTurnsExist /\ ReturnedTurnsDead

\* The provider does not forget a turn.
LEMMA MadeGrows ==
    ASSUME RuntimeInv, [Next]_vars, NEW t \in TurnId
    PROVE  prov[t].made > 0 => prov'[t].made > 0
  <1>1. prov[t].made \in Nat
    BY CallTypes, CreateAssumption DEF Provider
  <1>2. CallMove
    BY CallMoves
  <1>3. ASSUME NEW w \in Worker, AttemptCreates(w) PROVE prov[t].made > 0 => prov'[t].made > 0
    <2>1. CASE t = call[w].turn
      <3>1. prov'[t].made + prov'[t].late = prov[t].made + prov[t].late + 1
            /\ prov'[t].made >= prov[t].made
        BY <1>3, <2>1 DEF AttemptCreates
      <3>2. prov' \in [TurnId -> Provider]
        BY NextInv, CallTypes DEF RuntimeInv, TypeInvariant, LifecycleTypeOK
      <3>3. prov'[t].made \in Nat
        BY <3>2, CreateAssumption DEF Provider
      <3> QED BY <1>1, <3>1, <3>3
    <2>2. CASE t # call[w].turn
      BY <1>3, <2>2 DEF AttemptCreates, CountsKept
    <2> QED BY <2>1, <2>2
  <1>4. ASSUME NEW u \in TurnId, LateCreated(u) PROVE prov[t].made > 0 => prov'[t].made > 0
    BY <1>1, <1>4 DEF LateCreated, CountsKept
  <1> QED BY <1>2, <1>3, <1>4 DEF CallMove, CountsKept

\* What an attempt on turn t may do, seen from the turn: it was on it before, or starts on
\* it now; and it asks for a provider turn only after the lock.
LEMMA CreatorIsOn ==
    ASSUME RuntimeInv, NEW w \in Worker, AttemptCreates(w)
    PROVE  OnTurn(w, call[w].turn) /\ call[w].pc \in {"locked", "read"} /\ call[w].turn \in TurnId
  BY CallHasTurn DEF AttemptCreates, Decided, OnTurn

\* Nothing is asked for a turn that is not locked, or dead.
LEMMA NothingAsked ==
    ASSUME RuntimeInv, ProvidedInv, [Next]_vars, NEW t \in TurnId,
           turn[t].state \in {"absent", "acquiring"} \/ Dead(t)
    PROVE  NoTrace(t) /\ NoTrace(t)'
  <1>1. NoTrace(t)
    BY DEF ProvidedInv, UnlockedTurnsClean, Dead
  <1>2. CallMove
    BY CallMoves
  <1>3. ASSUME NEW w \in Worker, AttemptCreates(w) PROVE call[w].turn # t
    BY <1>3, CreatorIsOn, CallHasTurn DEF ProvidedInv, UnlockedTurnsClean, Dead, OnTurn
  <1>4. ASSUME NEW w \in Worker, AttemptCreates(w) PROVE NoTrace(t)'
    BY <1>1, <1>3, <1>4 DEF AttemptCreates, CountsKept, NoTrace
  <1>5. ASSUME NEW u \in TurnId, LateCreated(u) PROVE NoTrace(t)'
    BY <1>1, <1>5 DEF LateCreated, CountsKept, NoTrace
  <1>6. (\A u \in TurnId : CountsKept(u)) => NoTrace(t)'
    BY <1>1 DEF CountsKept, NoTrace
  <1> QED BY <1>1, <1>2, <1>4, <1>5, <1>6 DEF CallMove

\* The attempts on a turn that is given back stop at the lock.
LEMMA ClaimedStop ==
    ASSUME RuntimeInv, ProvidedInv, [Next]_vars, NEW t \in TurnId,
           turn'[t].state \notin {"creating", "uncertain"},
           \A w \in Worker : OnTurn(w, t) => call[w].pc \in {"claimed", "stepfail", "refresh"}
    PROVE  \A w \in Worker : OnTurn(w, t)' => /\ call'[w].pc \in {"claimed", "stepfail", "refresh"}
                                              /\ call[w].pc = "claimed" /\ OnTurn(w, t)
                                                 /\ turn[t].state \in Lockable
                                                 => call'[w].pc = "claimed"
  <1> SUFFICES ASSUME NEW w \in Worker, OnTurn(w, t)'
               PROVE  /\ call'[w].pc \in {"claimed", "stepfail", "refresh"}
                      /\ call[w].pc = "claimed" /\ OnTurn(w, t) /\ turn[t].state \in Lockable
                         => call'[w].pc = "claimed"
    OBVIOUS
  <1>1. CallMove
    BY CallMoves
  <1>2. CASE call'[w] = call[w]
    BY <1>2 DEF OnTurn
  <1>3. CASE AttemptMove(w)
    <2>1. CASE AttemptClaims(w)
      BY <2>1 DEF AttemptClaims, OnTurn, TurnOpened, NextTurn, Lockable
    <2>2. ~ AttemptCommanded(w)
      BY DEF AttemptCommanded, OnTurn
    <2>3. CASE AttemptColumns(w)
      <3>1. call[w].pc # "idle" => OnTurn(w, t)
        BY <2>3 DEF AttemptColumns, OnTurn
      <3> QED BY <1>3, <2>1, <2>2, <3>1 DEF AttemptMove, AttemptLocks, AttemptReads, AttemptStops,
                 AttemptFails, OnTurn, NoAttempt
    <2>4. ~ AttemptStops(w)
      BY DEF AttemptStops, OnTurn, NoAttempt
    <2> QED BY <1>3, <2>1, <2>2, <2>3, <2>4 DEF AttemptMove, AttemptLocks, AttemptReads, AttemptFails
  <1>4. ~ AttemptCreates(w)
    BY CreatorIsOn DEF AttemptCreates, AttemptColumns, OnTurn
  <1> QED BY <1>1, <1>2, <1>3, <1>4 DEF CallMove, OthersKept

\* The dead stay dead.
LEMMA DeadStays ==
    ASSUME RuntimeInv, ProvidedInv, [Next]_vars, NEW t \in TurnId, Dead(t)
    PROVE  Dead(t)'
  <1>1. NoTrace(t) /\ NoTrace(t)'
    BY NothingAsked
  <1>2. t \notin checked
    BY <1>1 DEF ProvidedInv, KnownTurnsExist, NoTrace
  <1>3. turn'[t].state = "cancelled"
    BY <1>2, TurnMoves DEF Dead, TurnMove, TurnOpened, NextTurn, TurnChanges, TurnLocked, TurnStreams,
           TurnUncertain, TurnCancelled, TurnIngests, TurnAwaits, IngestStates, RemoteActiveState
  <1>4. \A w \in Worker : OnTurn(w, t)' => call'[w].pc \in {"claimed", "stepfail", "refresh"}
    BY <1>3, ClaimedStop DEF Dead
  <1> QED BY <1>1, <1>3, <1>4 DEF Dead

\* A turn is opened once, with every turn before it.
LEMMA OpenedOnce ==
    ASSUME RuntimeInv, [Next]_vars, NEW t \in TurnId
    PROVE  /\ turn[t].state = "absent" /\ turn'[t].state # "absent" => TurnOpened(t)
           /\ turn[t].state # "absent" => ~ TurnOpened(t)
  <1>1. TurnMove(t)
    BY TurnMoves
  <1>2. TurnChanges(t) => turn[t].state # "absent"
    BY DEF TurnChanges, TurnLocked, TurnStreams, TurnUncertain, TurnCancelled, TurnIngests, TurnAwaits,
           IngestStates, RemoteActiveState, RuntimeInv, ReferencesResolve, PausesHaveTurns
  <1> QED BY <1>1, <1>2 DEF TurnMove, TurnOpened, NextTurn

\* Nothing is asked before the lock, after any step.
LEMMA UnlockedInductive ==
    ASSUME RuntimeInv, ProvidedInv, [Next]_vars
    PROVE  UnlockedTurnsClean'
  <1>1. ASSUME NEW t \in TurnId, turn'[t].state = "absent" PROVE NoTrace(t)'
    BY <1>1, TurnsStay, NothingAsked
  <1>2. ASSUME NEW t \in TurnId, turn'[t].state = "acquiring"
        PROVE  NoTrace(t)' /\ \A w \in Worker : OnTurn(w, t)' => call'[w].pc = "claimed"
    <2>1. turn[t].state = "acquiring" \/ (turn[t].state = "absent" /\ TurnOpened(t))
      BY <1>2, TurnMoves DEF TurnMove, TurnOpened, NextTurn, TurnChanges, TurnLocked, TurnStreams,
             TurnUncertain, TurnCancelled, TurnIngests, TurnAwaits, IngestStates, TurnOutcome
    <2>2. NoTrace(t)'
      BY <2>1, NothingAsked
    <2>3. ASSUME NEW w \in Worker, OnTurn(w, t)
          PROVE  call[w].pc = "claimed" /\ turn[t].state = "acquiring"
      BY <2>1, <2>3, CallHasTurn DEF OnTurn, ProvidedInv, UnlockedTurnsClean
    <2>4. ASSUME NEW w \in Worker, OnTurn(w, t)' PROVE call'[w].pc = "claimed"
      <3>1. CASE OnTurn(w, t)
        BY <1>2, <2>3, <2>4, <3>1, ClaimedStop DEF Lockable
      <3>2. CASE ~ OnTurn(w, t)
        <4>1. CallMove
          BY CallMoves
        <4>2. call'[w] # call[w] /\ ~ (call[w].pc # "idle" /\ AttemptColumns(w))
          BY <2>4, <3>2 DEF OnTurn, AttemptColumns
        <4>3. ~ AttemptCreates(w) /\ ~ AttemptCommanded(w) /\ ~ AttemptStops(w)
          BY <1>2, <2>4, <4>2, CreatorIsOn DEF AttemptCreates, AttemptCommanded, AttemptStops, OnTurn, NoAttempt
        <4>4. ~ AttemptLocks(w) /\ ~ AttemptReads(w) /\ ~ AttemptFails(w)
          BY <4>2 DEF AttemptLocks, AttemptReads, AttemptFails
        <4>5. AttemptClaims(w)
          BY <4>1, <4>2, <4>3, <4>4 DEF CallMove, OthersKept, AttemptMove
        <4> QED BY <4>5 DEF AttemptClaims
      <3> QED BY <3>1, <3>2
    <2> QED BY <2>2, <2>4
  <1> QED BY <1>1, <1>2 DEF UnlockedTurnsClean

\* A group is inserted by a capture, and a capture is one of a provider turn.
LEMMA CapturedTurns ==
    ASSUME RuntimeInv, GroupInv, ProvidedInv, [Next]_vars, NEW t \in TurnId
    PROVE  /\ group'[t].state # "absent" => group[t].state # "absent" \/ t \in checked
           /\ t \in checked' => t \in checked \/ PauseEmitted(t)
  <1>1. GroupMove(t) /\ GroupOK(group[t], act[t])
    BY GroupMoves DEF GroupInv
  <1>2. group[t].state = "absent" => ~ GroupWithdrawn(t) /\ ~ GroupClaimed(t) /\ ~ GroupResumes(t)
    BY <1>1 DEF GroupWithdrawn, GroupClaimed, GroupResumes, GroupOK, Resuming
  <1>3. group[t].state = "absent" => ~ GroupDecided(t)
    BY <1>1 DEF GroupDecided, ActDecided, Undecided, GroupOK
  <1>4. group'[t].state # "absent" => group[t].state # "absent" \/ t \in checked
    BY <1>1, <1>2, <1>3 DEF GroupMove, GroupQuiet, GroupStays, GroupCaptured
  <1>5. ASSUME CaptureStep, t \in checked', t \notin checked PROVE PauseEmitted(t)
    BY <1>5 DEF CaptureStep, captureTrueForgeRequiredActions, persistPauseGroupCapture,
                recapturePauseGroup, captureFails
  <1> QED BY <1>4, <1>5, AttemptsFrame

\* What is known of a provider turn is known of one that exists, after any step.
LEMMA KnownInductive ==
    ASSUME RuntimeInv, GroupInv, ProvidedInv, [Next]_vars
    PROVE  KnownTurnsExist'
  <1>0. CallMove
    BY CallMoves
  <1>1. ASSUME NEW t \in TurnId, turn'[t].tf PROVE prov[t].made > 0
    <2>1. CASE turn'[t] = turn[t]
      BY <1>1, <2>1 DEF ProvidedInv, KnownTurnsExist
    <2>2. CASE TurnStreams(t)
      BY <2>2 DEF TurnStreams, ProvidedInv, KnownTurnsExist
    <2>3. CASE TurnAwaits(t)
      BY <2>3 DEF TurnAwaits, ProvidedInv, KnownTurnsExist
    <2>4. CASE TurnLocked(t) \/ TurnUncertain(t) \/ TurnCancelled(t) \/ TurnIngests(t)
      BY <1>1, <2>4 DEF TurnLocked, TurnUncertain, TurnCancelled, TurnIngests, ProvidedInv, KnownTurnsExist
    <2> QED BY <1>1, <2>1, <2>2, <2>3, <2>4, TurnMoves DEF TurnMove, TurnOpened, TurnChanges
  <1>2. ASSUME NEW t \in TurnId, t \in checked' \/ group'[t].state # "absent" PROVE prov[t].made > 0
    BY <1>2, CapturedTurns DEF PauseEmitted, ProvidedInv, KnownTurnsExist
  <1>3. ASSUME NEW w \in Worker
        PROVE  /\ call'[w].pc = "read" => ReadsHistory(w)'
               /\ call'[w].pc \in {"claimed", "locked"} => call'[w].found = 0
               /\ \A t \in TurnId : call'[w].turn = t /\ (call'[w].pc = "created" \/ call'[w].found > 0)
                                    => prov'[t].made > 0
    <2> DEFINE Good == /\ call'[w].pc = "read" => ReadsHistory(w)'
                       /\ call'[w].pc \in {"claimed", "locked"} => call'[w].found = 0
                       /\ \A t \in TurnId : call'[w].turn = t
                             /\ (call'[w].pc = "created" \/ call'[w].found > 0) => prov'[t].made > 0
    <2>0. \A t \in TurnId : prov[t].made > 0 => prov'[t].made > 0
      BY MadeGrows
    <2>1. CASE call'[w] = call[w]
      BY <2>0, <2>1 DEF ProvidedInv, KnownTurnsExist, ReadsHistory
    <2>2. CASE AttemptClaims(w) \/ AttemptCommanded(w) \/ AttemptStops(w)
      BY <2>2 DEF AttemptClaims, AttemptCommanded, AttemptStops, NoAttempt
    <2>3. CASE AttemptLocks(w) \/ AttemptFails(w)
      BY <2>0, <2>3 DEF AttemptLocks, AttemptFails, AttemptColumns, ProvidedInv, KnownTurnsExist
    <2>4. CASE AttemptReads(w)
      <3>1. call'[w].turn = call[w].turn /\ call'[w].pc = "read" /\ ReadsHistory(w)'
        BY <2>4 DEF AttemptReads, AttemptColumns, ReadsHistory
      <3>2. ASSUME NEW t \in TurnId, call'[w].turn = t, call'[w].found > 0 PROVE prov'[t].made > 0
        BY <2>0, <2>4, <3>1, <3>2 DEF AttemptReads
      <3> QED BY <3>1, <3>2
    <2>5. CASE AttemptCreates(w)
      BY <2>0, <2>5 DEF AttemptCreates, AttemptColumns, ProvidedInv, KnownTurnsExist
    <2> QED BY <1>0, <2>1, <2>2, <2>3, <2>4, <2>5 DEF CallMove, OthersKept, AttemptMove
  <1> QED BY <1>1, <1>2, <1>3, MadeGrows DEF KnownTurnsExist

\* A turn that was open before keeps its item; one that was not is opened for a waiting one.
LEMMA OpenedFor ==
    ASSUME RuntimeInv, [Next]_vars, NEW t \in TurnId, turn'[t].state # "absent"
    PROVE  \/ turn[t].state # "absent" /\ turn'[t].item = turn[t].item /\ turn[t].item \in ItemId
           \/ /\ TurnOpened(t) /\ turn'[t].item \in ItemId
              /\ item[turn'[t].item].state = "queued" /\ item'[turn'[t].item].state = "claimed"
  <1>1. turn[t].state # "absent" => turn'[t].item = turn[t].item /\ turn[t].item \in ItemId
    BY TurnsStay DEF TurnColumns, RuntimeInv, ReferencesResolve, TurnsHaveItems
  <1> QED BY <1>1, OpenedOnce DEF TurnOpened, IsHead

\* A waiting item has no turn but dead ones, after any step.
LEMMA WaitingTurnsDead ==
    ASSUME RuntimeInv, ProvidedInv, [Next]_vars, NEW t \in TurnId,
           turn'[t].state # "absent", item'[turn'[t].item].state = "queued"
    PROVE  Dead(t)'
  <1> DEFINE i == turn[t].item
  <1>1. turn[t].state # "absent" /\ turn'[t].item = i /\ i \in ItemId
    BY OpenedFor
  <1>2. item[i].state # "absent"
    BY <1>1 DEF RuntimeInv, ReferencesResolve, TurnsHaveItems
  <1> HIDE DEF i
  <1>3. CASE item[i].state = "queued"
    BY <1>1, <1>3, DeadStays DEF i, ProvidedInv, ReturnedTurnsDead
  <1>4. CASE ItemReturned(i)
    <2>1. PICK u \in TurnId : LatestTurn(i, u) /\ turn[u].state = "acquiring"
                              /\ turn'[u].state = "cancelled"
      BY <1>4 DEF ItemReturned
    <2>2. CASE u = t
      <3>1. NoTrace(t)'
        BY <2>1, <2>2, NothingAsked
      <3>2. \A w \in Worker : OnTurn(w, t) => call[w].pc \in {"claimed", "stepfail", "refresh"}
        BY <2>1, <2>2 DEF ProvidedInv, UnlockedTurnsClean
      <3>3. \A w \in Worker : OnTurn(w, t)' => call'[w].pc \in {"claimed", "stepfail", "refresh"}
        BY <2>1, <2>2, <3>2, ClaimedStop
      <3> QED BY <2>1, <2>2, <3>1, <3>3 DEF Dead
    <2>3. CASE u # t
      <3>1. turn[u].state # "absent" /\ turn[u].item = turn[t].item /\ ~ Dead(u)
        BY <1>1, <2>1 DEF LatestTurn, Dead, i
      <3>2. Dead(t)
        BY <1>1, <2>3, <3>1 DEF ProvidedInv, ReturnedTurnsDead
      <3> QED BY <3>2, DeadStays
    <2> QED BY <2>2, <2>3
  <1>5. item'[i].state = "queued"
    BY <1>1
  <1> QED BY <1>1, <1>2, <1>3, <1>4, <1>5, ItemMoves
          DEF ItemMove, ItemStays, ItemInserted, ItemClaimed, ItemSettled, ItemRebound

\* Of two turns of an item one is dead, after any step.
LEMMA OtherTurnsDead ==
    ASSUME RuntimeInv, ProvidedInv, [Next]_vars, NEW t \in TurnId, NEW u \in TurnId, t # u,
           turn'[t].state # "absent", turn'[u].state # "absent", turn'[t].item = turn'[u].item
    PROVE  Dead(t)' \/ Dead(u)'
  <1>1. CASE turn[t].state # "absent" /\ turn[u].state # "absent"
    <2>1. turn[t].item = turn[u].item
      BY <1>1, OpenedFor, OpenedOnce
    <2>2. Dead(t) \/ Dead(u)
      BY <1>1, <2>1 DEF ProvidedInv, ReturnedTurnsDead
    <2> QED BY <2>2, DeadStays
  <1>2. ASSUME NEW x \in TurnId, NEW y \in TurnId, turn[x].state = "absent", turn[y].state # "absent",
               turn'[x].state # "absent", turn'[y].state # "absent", turn'[x].item = turn'[y].item
        PROVE  Dead(y)'
    <2>1. item[turn'[x].item].state = "queued"
      BY <1>2, OpenedFor
    <2>2. turn'[y].item = turn[y].item
      BY <1>2, OpenedFor, OpenedOnce
    <2>3. Dead(y)
      BY <1>2, <2>1, <2>2 DEF ProvidedInv, ReturnedTurnsDead
    <2> QED BY <2>3, DeadStays
  <1>3. CASE turn[t].state = "absent" /\ turn[u].state = "absent"
    <2>1. NextTurn(t) /\ NextTurn(u)
      BY <1>3, OpenedOnce DEF TurnOpened
    <2>2. t < u \/ u < t
      BY DEF TurnId
    <2> QED BY <1>3, <2>1, <2>2 DEF NextTurn
  <1> QED BY <1>1, <1>2, <1>3

\* The invariant holds at first, and every step keeps it.
LEMMA ProvidedInductive ==
    /\ Init => ProvidedInv
    /\ RuntimeInv /\ GroupInv /\ ProvidedInv /\ [Next]_vars => ProvidedInv'
  <1>1. ASSUME Init PROVE ProvidedInv
    BY <1>1 DEF Init, TablesInit, LifecycleInit, PauseInit, ProvidedInv, UnlockedTurnsClean,
                KnownTurnsExist, ReturnedTurnsDead, NoTrace, NoTurn, NoGroup, NoAttempt
  <1>2. ASSUME RuntimeInv, GroupInv, ProvidedInv, [Next]_vars PROVE ReturnedTurnsDead'
    BY <1>2, WaitingTurnsDead, OtherTurnsDead DEF ReturnedTurnsDead
  <1> QED BY <1>1, <1>2, UnlockedInductive, KnownInductive DEF ProvidedInv

\* So it holds always.
LEMMA SpecProvided == Spec => [](RuntimeInv /\ GroupInv /\ ProvidedInv)
  BY ProvidedInductive, GroupInductive, InitInv, NextInv, PTL DEF Spec

\* A turn bound to a provider turn is bound to one that exists, and a turn given back by a
\* reclaimed lease never had one, whatever is lost, repeated, late or crashes.
THEOREM BoundToOneThatExists == Spec => []BoundTurnsExist
  <1>1. RuntimeInv /\ ProvidedInv => BoundTurnsExist
    BY DEF ProvidedInv, KnownTurnsExist, ReturnedTurnsDead, BoundTurnsExist, Dead, NoTrace
  <1> QED BY <1>1, SpecProvided, PTL

-----------------------------------------------------------------------------
(* One creator. *)

\* The attempt of w may still ask the provider for a turn.
MayCreate(w, t) ==
    /\ call[w].turn = t /\ ~ call[w].force /\ ~ call[w].local
    /\ call[w].pc = "claimed" \/ (call[w].pc = "locked" /\ ~ call[w].unc)

\* When no create command is delivered twice: a turn has one attempt that may create at
\* most, only while nothing was asked for the turn, and at most one request is ever made.
CreatorInv ==
    /\ \A t \in TurnId : prov[t].made + prov[t].late <= 1
    /\ \A w \in Worker, t \in TurnId : MayCreate(w, t) => NoTrace(t)
    /\ \A v, w \in Worker, t \in TurnId : MayCreate(v, t) /\ MayCreate(w, t) => v = w

\* Only an attempt that may create creates.
LEMMA CreatorMayCreate ==
    ASSUME RuntimeInv, ProvidedInv, NEW w \in Worker, AttemptCreates(w)
    PROVE  MayCreate(w, call[w].turn) /\ call'[w].pc \in {"created", "failed"}
  BY CallTypes DEF AttemptCreates, Decided, decideCreateOrReconcile, ReadsHistory, MayCreate,
     ProvidedInv, KnownTurnsExist, Attempt

\* An attempt that may create either could before, or has just started on a turn that
\* nothing was asked for and that no other attempt may create.
LEMMA CreatorsMove ==
    ASSUME RuntimeInv, ProvidedInv, [Next]_vars, ~ DuplicateCommands,
           NEW w \in Worker, NEW t \in TurnId, MayCreate(w, t)'
    PROVE  /\ ~ AttemptCreates(w)
           /\ \/ MayCreate(w, t)
              \/ /\ turn[t].state \in {"absent", "acquiring"} /\ OthersKept(w)
                 /\ \A v \in Worker : ~ MayCreate(v, t)
  <1>0. CallMove
    BY CallMoves
  <1>1. ~ AttemptCreates(w)
    BY CreatorMayCreate DEF MayCreate
  <1>2. CASE call'[w] = call[w]
    BY <1>1, <1>2 DEF MayCreate
  <1>3. CASE AttemptClaims(w) /\ OthersKept(w)
    <2>1. turn[t].state = "absent"
      BY <1>3 DEF AttemptClaims, TurnOpened, NextTurn, MayCreate
    <2>2. \A v \in Worker : ~ MayCreate(v, t)
      BY <2>1, CallHasTurn DEF MayCreate
    <2> QED BY <1>1, <1>3, <2>1, <2>2
  <1>4. CASE AttemptCommanded(w) /\ OthersKept(w)
    <2>1. ~ call'[w].force /\ call'[w].turn = t
      BY DEF MayCreate
    <2>2. turn[t].state = "acquiring" /\ \A v \in Worker : call[v].turn # t
      BY <1>4, <2>1 DEF AttemptCommanded, CommandDelivered
    <2> QED BY <1>1, <1>4, <2>2 DEF MayCreate
  <1>5. CASE AttemptLocks(w)
    BY <1>1, <1>5 DEF AttemptLocks, AttemptColumns, MayCreate
  <1>6. ~ AttemptReads(w) /\ ~ AttemptStops(w) /\ ~ AttemptFails(w)
    BY DEF AttemptReads, AttemptStops, AttemptFails, MayCreate, NoAttempt
  <1> QED BY <1>0, <1>1, <1>2, <1>3, <1>4, <1>5, <1>6 DEF CallMove, OthersKept, AttemptMove

\* The invariant of the creators holds at first, and every step keeps it.
LEMMA CreatorInductive ==
    /\ Init => CreatorInv
    /\ /\ ~ DuplicateCommands
       /\ RuntimeInv /\ ProvidedInv /\ CreatorInv /\ [Next]_vars
       => CreatorInv'
  <1>1. ASSUME Init PROVE CreatorInv
    BY <1>1 DEF Init, LifecycleInit, CreatorInv, MayCreate, NoTrace, NoAttempt
  <1>2. ASSUME ~ DuplicateCommands, RuntimeInv, ProvidedInv, CreatorInv, [Next]_vars PROVE CreatorInv'
    <2>0. CallMove
      BY <1>2, CallMoves
    <2>1. ASSUME NEW t \in TurnId PROVE prov'[t].made + prov'[t].late <= 1
      <3>1. prov[t].made + prov[t].late <= 1 /\ prov[t].made \in Nat /\ prov[t].late \in Nat
        BY <1>2, CallTypes, CreateAssumption DEF CreatorInv, Provider
      <3>2. ASSUME NEW w \in Worker, AttemptCreates(w) PROVE prov'[t].made + prov'[t].late <= 1
        <4>1. CASE t = call[w].turn
          <5>1. prov[t].made = 0 /\ prov[t].late = 0
            BY <1>2, <3>2, <4>1, CreatorMayCreate DEF CreatorInv, NoTrace
          <5>2. prov'[t].made + prov'[t].late = prov[t].made + prov[t].late + 1
            BY <3>2, <4>1 DEF AttemptCreates
          <5> QED BY <5>1, <5>2
        <4>2. CASE t # call[w].turn
          BY <3>1, <3>2, <4>2 DEF AttemptCreates, CountsKept
        <4> QED BY <4>1, <4>2
      <3>3. ASSUME NEW u \in TurnId, LateCreated(u) PROVE prov'[t].made + prov'[t].late <= 1
        BY <3>1, <3>3 DEF LateCreated, CountsKept
      <3> QED BY <2>0, <3>1, <3>2, <3>3 DEF CallMove, CountsKept
    <2>2. ASSUME NEW w \in Worker, NEW t \in TurnId, MayCreate(w, t)' PROVE NoTrace(t)'
      <3>1. CASE turn[t].state \in {"absent", "acquiring"}
        BY <1>2, <3>1, NothingAsked
      <3>2. CASE MayCreate(w, t)
        <4>1. NoTrace(t)
          BY <1>2, <3>2 DEF CreatorInv
        <4>2. ASSUME NEW v \in Worker, AttemptCreates(v) PROVE NoTrace(t)'
          <5>1. call[v].turn # t
            BY <1>2, <2>2, <3>2, <4>2, CreatorMayCreate, CreatorsMove DEF CreatorInv
          <5> QED BY <4>1, <4>2, <5>1 DEF AttemptCreates, CountsKept, NoTrace
        <4>3. ASSUME NEW u \in TurnId, LateCreated(u) PROVE NoTrace(t)'
          BY <4>1, <4>3 DEF LateCreated, CountsKept, NoTrace
        <4> QED BY <2>0, <4>1, <4>2, <4>3 DEF CallMove, CountsKept, NoTrace
      <3> QED BY <1>2, <2>2, <3>1, <3>2, CreatorsMove
    <2>3. ASSUME NEW v \in Worker, NEW w \in Worker, NEW t \in TurnId, v # w,
                 MayCreate(v, t)', MayCreate(w, t)'
          PROVE  FALSE
      <3>1. CASE MayCreate(v, t) /\ MayCreate(w, t)
        BY <1>2, <2>3, <3>1 DEF CreatorInv
      <3>2. CASE ~ MayCreate(v, t)
        <4>1. OthersKept(v) /\ ~ MayCreate(w, t)
          BY <1>2, <2>3, <3>2, CreatorsMove
        <4> QED BY <2>3, <4>1 DEF OthersKept, MayCreate
      <3>3. CASE ~ MayCreate(w, t)
        <4>1. OthersKept(w) /\ ~ MayCreate(v, t)
          BY <1>2, <2>3, <3>3, CreatorsMove
        <4> QED BY <2>3, <4>1 DEF OthersKept, MayCreate
      <3> QED BY <3>1, <3>2, <3>3
    <2> QED BY <2>1, <2>2, <2>3 DEF CreatorInv
  <1> QED BY <1>1, <1>2

\* A queue item opens at most one provider turn, over all the agent turns opened for it:
\* through lost answers, requests that take effect after their caller gave up, crashes,
\* restarts, reclaimed leases and any number of reconciliations.  The assumption is
\* needed: a create command that is delivered twice is carried out twice, which the
\* repository's own words deny (the run of duplicate commands shows it).
THEOREM OneProviderTurnPerItem ==
    ASSUME ~ DuplicateCommands
    PROVE  Spec => []NoSecondRemoteTurn
  <1>1. RuntimeInv /\ GroupInv /\ ProvidedInv /\ CreatorInv /\ [Next]_vars
        => (RuntimeInv /\ GroupInv /\ ProvidedInv /\ CreatorInv)'
    BY CreatorInductive, ProvidedInductive, GroupInductive, NextInv
  <1>2. Init => RuntimeInv /\ GroupInv /\ ProvidedInv /\ CreatorInv
    BY CreatorInductive, ProvidedInductive, GroupInductive, InitInv
  <1>3. RuntimeInv /\ ProvidedInv /\ CreatorInv => NoSecondRemoteTurn
    <2> SUFFICES ASSUME RuntimeInv, ProvidedInv, CreatorInv PROVE NoSecondRemoteTurn
      OBVIOUS
    <2>1. ASSUME NEW t \in TurnId PROVE prov[t].made <= 1
      <3>1. prov[t].made \in Nat /\ prov[t].late \in Nat
        BY CallTypes, CreateAssumption DEF Provider
      <3> QED BY <3>1 DEF CreatorInv
    <2>2. ASSUME NEW t \in TurnId, NEW u \in TurnId, t # u, turn[t].item = turn[u].item
          PROVE  prov[t].made = 0 \/ prov[u].made = 0
      BY <2>2 DEF ProvidedInv, UnlockedTurnsClean, ReturnedTurnsDead, Dead, NoTrace
    <2> QED BY <2>1, <2>2 DEF NoSecondRemoteTurn
  <1> QED BY <1>1, <1>2, <1>3, PTL DEF Spec

-----------------------------------------------------------------------------
(* The order of the queue. *)

\* j is behind i: in the same session, of the same type, queued later.
Behind(j, i) == i < j /\ item[i].sess = item[j].sess /\ item[i].type = item[j].type

Unstarted(j) == item[j].state \in {"absent", "queued"}

\* Nothing behind a waiting item has started, nor behind one that may go back to waiting;
\* and items are inserted one after the other.
OrderInv ==
    /\ StartedInOrder
    /\ \A t \in TurnId, j \in ItemId :
          turn[t].state = "acquiring" /\ Behind(j, turn[t].item) => Unstarted(j)
    /\ \A i, j \in ItemId : i < j /\ item[j].state # "absent" => item[i].state # "absent"

\* An item starts by a claim only: while it waits, no turn of it can settle it.
LEMMA StartsByClaim ==
    ASSUME RuntimeInv, ProvidedInv, [Next]_vars, NEW j \in ItemId, Unstarted(j), ~ Unstarted(j)'
    PROVE  ItemClaimed(j) /\ item[j].state = "queued"
  <1>1. ASSUME ItemSettled(j) PROVE FALSE
    <2>1. PICK t \in TurnId : turn[t].state # "absent" /\ turn[t].item = j
                              /\ (TurnIngests(t) \/ TurnAwaits(t))
      BY <1>1 DEF ItemSettled
    <2>2. item[j].state = "queued"
      BY <2>1 DEF Unstarted, RuntimeInv, ReferencesResolve, TurnsHaveItems
    <2>3. Dead(t)
      BY <2>1, <2>2 DEF ProvidedInv, ReturnedTurnsDead
    <2> QED BY <2>1, <2>3 DEF TurnIngests, TurnAwaits, IngestStates, Dead, NoTrace, ProvidedInv,
                              KnownTurnsExist
  <1>2. ItemMove(j)
    BY ItemMoves
  <1> QED BY <1>1, <1>2 DEF ItemMove, ItemStays, ItemInserted, ItemClaimed, ItemReturned, ItemRebound,
                            IsHead, Unstarted

\* No item of a session is claimed while a turn of it is acquiring.
LEMMA NoClaimWhileAcquiring ==
    ASSUME RuntimeInv, ProvidedInv, [Next]_vars, NEW t \in TurnId, NEW j \in ItemId,
           turn[t].state = "acquiring", turn[t].item \in ItemId,
           item[turn[t].item].sess = item[j].sess, Unstarted(j)
    PROVE  Unstarted(j)'
  <1>1. turn[t].sess = item[j].sess
    BY DEF RuntimeInv, ReferencesResolve, TurnsHaveItems
  <1> QED BY <1>1, StartsByClaim DEF ItemClaimed, evaluateClaimEligibility, RemoteActive, RemoteActiveState

\* The order of the queue holds at first, and every step keeps it.
LEMMA OrderInductive ==
    /\ Init => OrderInv
    /\ RuntimeInv /\ ProvidedInv /\ OrderInv /\ [Next]_vars => OrderInv'
  <1>1. ASSUME Init PROVE OrderInv
    BY <1>1 DEF Init, TablesInit, OrderInv, StartedInOrder, Unstarted, NoItem, NoTurn
  <1>2. ASSUME RuntimeInv, ProvidedInv, OrderInv, [Next]_vars PROVE OrderInv'
    <2>1. ASSUME NEW i \in ItemId, NEW j \in ItemId, i < j, item'[j].state # "absent"
          PROVE  item'[i].state # "absent"
      <3>1. CASE item[j].state # "absent"
        BY <1>2, <2>1, <3>1, ItemsStay DEF OrderInv
      <3>2. CASE item[j].state = "absent"
        BY <1>2, <2>1, <3>2, ItemsStay DEF ItemInserted
      <3> QED BY <3>1, <3>2
    <2>2. ASSUME NEW i \in ItemId, NEW j \in ItemId, Behind(j, i)', item[i].state # "absent"
          PROVE  Unstarted(j) => Behind(j, i) \/ Unstarted(j)'
      <3>1. CASE item[j].state = "absent"
        BY <1>2, <3>1, ItemsStay DEF ItemInserted, Unstarted
      <3>2. CASE item[j].state # "absent"
        BY <1>2, <2>2, <3>2, ItemsStay DEF ItemColumns, Behind
      <3> QED BY <3>1, <3>2
    <2>3. ASSUME NEW i \in ItemId, NEW j \in ItemId, Behind(j, i)', item'[i].state = "queued"
          PROVE  Unstarted(j)'
      <3>1. CASE item[i].state = "queued"
        <4>1. Behind(j, i) => Unstarted(j)
          BY <1>2, <3>1 DEF OrderInv, StartedInOrder, Behind, Unstarted
        <4>2. item[j].state # "absent" => Behind(j, i)
          BY <1>2, <2>3, <3>1, ItemsStay DEF ItemColumns, Behind
        <4>3. Unstarted(j)
          BY <4>1, <4>2 DEF Unstarted
        <4>4. Behind(j, i) => ~ IsHead(j)
          <5>1. ASSUME Behind(j, i), IsHead(j) PROVE FALSE
            <6>1. Precedes(j, i) /\ i < j /\ item[i].type = item[j].type
              BY <3>1, <5>1 DEF IsHead, Behind, ItemId
            <6>2. item[j].type \in InputType
              BY <1>2 DEF RuntimeInv, TypeInvariant, TypeOK, ItemRow
            <6> QED BY <6>1, <6>2 DEF Precedes, TURN_QUEUE_PRIORITY, InputType, ItemId
          <5> QED BY <5>1
        <4> QED BY <1>2, <4>2, <4>3, <4>4, StartsByClaim DEF ItemClaimed
      <3>2. CASE item[i].state = "absent"
        <4>1. item[j].state = "absent"
          BY <1>2, <2>3, <3>2 DEF OrderInv, Behind
        <4> QED BY <1>2, <4>1, ItemsStay DEF ItemInserted, Unstarted
      <3>3. CASE ItemReturned(i)
        <4>1. PICK t \in TurnId : LatestTurn(i, t) /\ turn[t].state = "acquiring"
          BY <3>3 DEF ItemReturned
        <4>2. turn[t].item = i
          BY <4>1 DEF LatestTurn
        <4>3. Behind(j, i) => Unstarted(j)
          BY <1>2, <4>1, <4>2 DEF OrderInv
        <4>4. item[j].state # "absent" => Behind(j, i)
          BY <1>2, <2>3, <3>3, ItemsStay DEF ItemColumns, Behind, ItemReturned
        <4>5. Unstarted(j)
          BY <4>3, <4>4 DEF Unstarted
        <4>6. CASE item[j].state = "absent"
          BY <1>2, <4>6, ItemsStay DEF ItemInserted, Unstarted
        <4>7. CASE item[j].state # "absent"
          <5>1. item[turn[t].item].sess = item[j].sess
            BY <4>2, <4>4, <4>7 DEF Behind
          <5> QED BY <1>2, <4>1, <4>2, <4>5, <5>1, NoClaimWhileAcquiring
        <4> QED BY <4>6, <4>7
      <3> QED BY <1>2, <2>3, <3>1, <3>2, <3>3, ItemMoves
              DEF ItemMove, ItemStays, ItemInserted, ItemClaimed, ItemSettled, ItemRebound
    <2>4. ASSUME NEW t \in TurnId, NEW j \in ItemId, turn'[t].state = "acquiring",
                 Behind(j, turn[t].item)'
          PROVE  Unstarted(j)'
      <3> DEFINE i == turn'[t].item
      <3>0. CASE item[j].state = "absent"
        BY <1>2, <3>0, ItemsStay DEF ItemInserted, Unstarted
      <3>1. CASE turn[t].state = "acquiring" /\ item[j].state # "absent"
        <4>1. turn[t].item = i /\ i \in ItemId /\ item[i].state # "absent"
          BY <1>2, <3>1, TurnsStay DEF TurnColumns, RuntimeInv, ReferencesResolve, TurnsHaveItems
        <4> HIDE DEF i
        <4>2. Behind(j, i)
          BY <1>2, <2>4, <3>1, <4>1, ItemsStay DEF ItemColumns, Behind, i
        <4>3. Unstarted(j)
          BY <1>2, <3>1, <4>1, <4>2 DEF OrderInv
        <4> QED BY <1>2, <3>1, <4>1, <4>2, <4>3, NoClaimWhileAcquiring DEF Behind
      <3>2. CASE TurnOpened(t) /\ item[j].state # "absent"
        <4>1. i \in ItemId /\ item[i].state = "queued" /\ \A x \in ItemId \ {i} : item'[x] = item[x]
          BY <3>2 DEF TurnOpened, IsHead
        <4>2. j # i /\ i < j
          BY <2>4, <4>1 DEF Behind, ItemId
        <4> HIDE DEF i
        <4>3. Behind(j, i)
          BY <1>2, <2>4, <3>2, <4>1, ItemsStay DEF ItemColumns, Behind, i
        <4>4. Unstarted(j)
          BY <1>2, <4>1, <4>3 DEF OrderInv, StartedInOrder, Behind, Unstarted
        <4> QED BY <4>1, <4>2, <4>4 DEF Unstarted
      <3>3. turn[t].state = "acquiring" \/ TurnOpened(t)
        BY <1>2, <2>4, TurnMoves DEF TurnMove, TurnChanges, TurnLocked, TurnStreams, TurnUncertain,
               TurnCancelled, TurnIngests, TurnAwaits, IngestStates, TurnOutcome
      <3> QED BY <3>0, <3>1, <3>2, <3>3
    <2>5. StartedInOrder'
      BY <2>3 DEF StartedInOrder, Behind, Unstarted
    <2> QED BY <2>1, <2>4, <2>5 DEF OrderInv
  <1> QED BY <1>1, <1>2

\* Items of one type leave a session's queue in the order they entered it, the ones a
\* reclaimed lease gave back included.
THEOREM QueueIsServedInOrder == Spec => []StartedInOrder
  <1>1. RuntimeInv /\ GroupInv /\ ProvidedInv /\ OrderInv /\ [Next]_vars
        => (RuntimeInv /\ GroupInv /\ ProvidedInv /\ OrderInv)'
    BY OrderInductive, ProvidedInductive, GroupInductive, NextInv
  <1>2. Init => RuntimeInv /\ GroupInv /\ ProvidedInv /\ OrderInv
    BY OrderInductive, ProvidedInductive, GroupInductive, InitInv
  <1>3. OrderInv => StartedInOrder
    BY DEF OrderInv
  <1> QED BY <1>1, <1>2, <1>3, PTL DEF Spec

-----------------------------------------------------------------------------
(* Finished turns. *)

\* A response turn is one of a claimed resume, its events are its own, and a finished turn
\* has seen how it finished.
FinishInv ==
    /\ \A t \in TurnId : group[t].resume = "none" => prov[t].again = 0 /\ prov[t].lateAgain = 0
    /\ \A t \in TurnId : ~ (turn[t].seen \subseteq FirstEvents) => prov[t].again > 0
    /\ \A t \in TurnId : /\ turn[t].state = "completed" => turn[t].seen \cap DoneEvents # {}
                         /\ turn[t].state = "failed" => turn[t].seen \cap ErrorEvents # {}

\* A response turn is opened, or asked for, only once the resume is claimed.
LEMMA AgainMoves ==
    ASSUME RuntimeInv, GroupInv, [Next]_vars, NEW t \in TurnId
    PROVE  /\ /\ group[t].resume = "none" /\ prov[t].again = 0 /\ prov[t].lateAgain = 0
              => prov'[t].again = 0 /\ prov'[t].lateAgain = 0
           /\ prov[t].again > 0 => prov'[t].again > 0
  <1>0. prov[t] \in Provider /\ prov[t].again \in Nat /\ prov[t].lateAgain \in Nat
    BY CallTypes, CreateAssumption DEF Provider
  <1>1. CASE AgainKept(t)
    BY <1>0, <1>1 DEF AgainKept
  <1>2. ASSUME NEW w \in Worker, createResponseTurn(w)
        PROVE  \/ UNCHANGED prov[t]
               \/ /\ group[t].resume # "none"
                  /\ prov'[t].again \in {prov[t].again, prov[t].again + 1}
    <2> DEFINE u == resumer[w].turn
    <2>1. u \in TurnId /\ group[u].resume # "none"
      BY <1>2 DEF createResponseTurn, GroupInv, RuntimeInv, ReferencesResolve, ProceduresHaveRows
    <2>2. \/ prov' = [prov EXCEPT ![u].again = @ + 1] \/ prov' = [prov EXCEPT ![u].lateAgain = @ + 1]
          \/ UNCHANGED prov
      BY <1>2 DEF createResponseTurn
    <2> HIDE DEF u
    <2> QED BY <1>0, <2>1, <2>2, CallTypes DEF Provider
  <1>3. CASE ResumeStep /\ ~ \E w \in Worker : createResponseTurn(w)
    <2>1. UNCHANGED prov
      BY <1>3 DEF ResumeStep, ResumeAttemptStep, claimPauseGroupResume, loadPauseResumeForCreate,
             markPauseResumeCreating, listResponseTurns, completePauseResume,
             markPauseResumeUncertain, lifecycleVars
    <2> QED BY <2>1
  <1>4. CASE \E w \in Worker : createResponseTurn(w)
    <2>1. UNCHANGED prov[t] \/ (group[t].resume # "none"
                               /\ prov'[t].again \in {prov[t].again, prov[t].again + 1})
      BY <1>2, <1>4
    <2> QED BY <1>0, <2>1
  <1>5. CASE LifecycleStep
    BY <1>1, <1>5, LifecycleKeepsAgain
  <1> QED BY <1>3, <1>4, <1>5, AttemptsFrame

\* The invariant of finished turns holds at first, and every step keeps it.
LEMMA FinishInductive ==
    /\ Init => FinishInv
    /\ RuntimeInv /\ GroupInv /\ FinishInv /\ [Next]_vars => FinishInv'
  <1>1. ASSUME Init PROVE FinishInv
    BY <1>1 DEF Init, TablesInit, LifecycleInit, FinishInv, NoTurn
  <1>2. ASSUME RuntimeInv, GroupInv, FinishInv, [Next]_vars, NEW t \in TurnId
        PROVE  /\ group'[t].resume = "none" => prov'[t].again = 0 /\ prov'[t].lateAgain = 0
               /\ ~ (turn'[t].seen \subseteq FirstEvents) => prov'[t].again > 0
               /\ turn'[t].state = "completed" => turn'[t].seen \cap DoneEvents # {}
               /\ turn'[t].state = "failed" => turn'[t].seen \cap ErrorEvents # {}
    <2>1. group'[t].resume = "none" => group[t].resume = "none"
      BY <1>2, GroupMoves, ResumesStay DEF GroupInv
    <2>2. group'[t].resume = "none" => prov'[t].again = 0 /\ prov'[t].lateAgain = 0
      BY <1>2, <2>1, AgainMoves DEF FinishInv
    <2>3. CASE turn'[t] = turn[t]
      BY <1>2, <2>2, <2>3, AgainMoves DEF FinishInv
    <2>4. CASE TurnOpened(t)
      BY <2>2, <2>4 DEF TurnOpened
    <2>5. CASE TurnIngests(t)
      <3>1. PICK e \in Emits : /\ Emitted(t, e) /\ turn'[t].seen = turn[t].seen \cup {e}
                               /\ turn'[t].state = TurnOutcome(e, turn[t].state)
        BY <2>5 DEF TurnIngests
      <3>2. e \notin FirstEvents => prov[t].again > 0
        BY <3>1 DEF Emitted
      <3>3. ~ (turn'[t].seen \subseteq FirstEvents) => prov'[t].again > 0
        BY <1>2, <3>1, <3>2, AgainMoves DEF FinishInv
      <3>4. /\ turn'[t].state = "completed" => e \in DoneEvents \/ turn[t].state = "completed"
            /\ turn'[t].state = "failed" => e \in ErrorEvents \/ turn[t].state = "failed"
        BY <3>1 DEF TurnOutcome
      <3> QED BY <1>2, <2>2, <3>1, <3>3, <3>4 DEF FinishInv
    <2>6. CASE TurnLocked(t) \/ TurnStreams(t) \/ TurnUncertain(t) \/ TurnCancelled(t) \/ TurnAwaits(t)
      <3>1. turn'[t].seen = turn[t].seen /\ turn'[t].state \notin {"completed", "failed"}
        BY <2>6 DEF TurnLocked, TurnStreams, TurnUncertain, TurnCancelled, TurnAwaits
      <3> QED BY <1>2, <2>2, <3>1, AgainMoves DEF FinishInv
    <2> QED BY <1>2, <2>3, <2>4, <2>5, <2>6, TurnMoves DEF TurnMove, TurnChanges
  <1>3. ASSUME RuntimeInv, GroupInv, FinishInv, [Next]_vars PROVE FinishInv'
    BY <1>3, <1>2 DEF FinishInv
  <1> QED BY <1>1, <1>3

\* A turn that has no pause, captured or about to be captured, stays as it finished.
FinishedUnpausedTurnsStay ==
    \A t \in TurnId : /\ turn[t].state \in {"completed", "failed", "cancelled"}
                      /\ group[t].state = "absent" /\ t \notin checked
                      => turn'[t].state = turn[t].state

\* Whatever is delivered again, retried, reconciled or restarted.
LEMMA FinishedStep ==
    RuntimeInv /\ GroupInv /\ FinishInv /\ [Next]_vars => FinishedUnpausedTurnsStay
  <1> SUFFICES ASSUME RuntimeInv, GroupInv, FinishInv, [Next]_vars, NEW t \in TurnId,
                      turn[t].state \in {"completed", "failed", "cancelled"},
                      group[t].state = "absent", t \notin checked
               PROVE  turn'[t].state = turn[t].state
    BY DEF FinishedUnpausedTurnsStay
  <1>1. prov[t].again = 0
    BY DEF GroupInv, GroupOK, Resuming, FinishInv
  <1>2. ASSUME TurnIngests(t) PROVE turn'[t].state = turn[t].state
    <2>1. PICK e \in Emits : /\ e \notin turn[t].seen /\ Emitted(t, e)
                             /\ turn'[t].state = TurnOutcome(e, turn[t].state)
      BY <1>2 DEF TurnIngests
    <2>2. turn[t].seen \subseteq FirstEvents /\ e \in FirstEvents
      BY <1>1, <2>1 DEF FinishInv, Emitted
    <2>3. PICK d \in turn[t].seen : d \in DoneEvents \cup ErrorEvents
      BY <1>2 DEF FinishInv, TurnIngests, IngestStates
    <2>4. d \in SameTurn(e) /\ Terminal(d)
      BY <2>2, <2>3 DEF SameTurn, Terminal
    <2>5. ~ Terminal(e)
      BY <2>1, <2>4 DEF Emitted
    <2> QED BY <2>1, <2>5 DEF Terminal, TurnOutcome
  <1> QED BY <1>2, TurnMoves DEF TurnMove, TurnOpened, NextTurn, TurnChanges, TurnLocked, TurnStreams,
             TurnUncertain, TurnCancelled, TurnAwaits, RemoteActiveState

\* So it holds of every step.
LEMMA SpecFinish == Spec => [](RuntimeInv /\ GroupInv /\ FinishInv)
  BY FinishInductive, GroupInductive, InitInv, NextInv, PTL DEF Spec

\* A turn that completed, failed or was cancelled without a pause keeps that outcome,
\* whatever events are delivered again or late and whatever attempts, stops, restarts and
\* reconciliations still have it in hand.
THEOREM FinishedIsFinal == Spec => [][FinishedUnpausedTurnsStay]_vars
  BY FinishedStep, SpecFinish, PTL DEF Spec

\* Where the provider never pauses no turn is captured.
LEMMA NoPauseNoGroup ==
    ASSUME Emits \cap PauseEvents = {}
    PROVE  Spec => [](checked = {} /\ \A t \in TurnId : group[t].state = "absent")
  <1> DEFINE Free == checked = {} /\ \A t \in TurnId : group[t].state = "absent"
  <1>1. Init => Free
    BY DEF Init, TablesInit, PauseInit, NoGroup
  <1>2. RuntimeInv /\ GroupInv /\ ProvidedInv /\ Free /\ [Next]_vars => Free'
    <2> SUFFICES ASSUME RuntimeInv, GroupInv, ProvidedInv, Free, [Next]_vars PROVE Free'
      OBVIOUS
    <2>1. \A t \in TurnId : ~ PauseEmitted(t)
      BY DEF PauseEmitted, PauseEvents
    <2>2. checked' \subseteq TurnId
      BY NextInv DEF RuntimeInv, TypeInvariant, PauseTypeOK
    <2> QED BY <2>1, <2>2, CapturedTurns
  <1> QED BY <1>1, <1>2, SpecProvided, PTL DEF Spec

\* In particular, where the provider never pauses, every finished turn stays as it
\* finished.  (A pause whose capture comes late sets a finished turn back to waiting.)
THEOREM FinishedStays ==
    ASSUME Emits \cap PauseEvents = {}
    PROVE  Spec => FinishedTurnsStayFinished
  <1> DEFINE Free == checked = {} /\ \A t \in TurnId : group[t].state = "absent"
             Stays == \A t \in TurnId : turn[t].state \in {"completed", "failed", "cancelled"}
                                        => turn'[t].state = turn[t].state
  <1>1. Free /\ [FinishedUnpausedTurnsStay]_vars => [Stays]_vars
    BY DEF FinishedUnpausedTurnsStay
  <1>2. Spec => []Free
    BY NoPauseNoGroup
  <1> HIDE DEF Free
  <1>3. Spec => [][Stays]_vars
    BY <1>1, <1>2, FinishedIsFinal, PTL
  <1> QED BY <1>3 DEF FinishedTurnsStayFinished

-----------------------------------------------------------------------------
(* Runs that are settled: the invariant is inductive once it is said of the *)
(* steps that exist how each moves with its run.                            *)

\* A correction is the only work that joins a run that exists.
Corrects ==
    \/ CorrectionStep
    \/ \E t \in TurnId, a \in Act, k \in StepId, i \in ItemId : recordRequestChanges(t, a, k, i)

\* A step that exists stays done unless its run is no longer settled, and a run that
\* becomes settled has it done.
StepGoesOn(k) ==
    /\ step'[k].run = step[k].run
    /\ step[k].state \in StepTerminal /\ run'[step[k].run] \in RunSettled
       => step'[k].state \in StepTerminal
    /\ run'[step[k].run] \in RunSettled
       => run[step[k].run] \in RunSettled \/ step'[k].state \in StepTerminal

\* A message adds it, with a run of its own.
StepBegins(k) ==
    /\ step[k].state = "absent" /\ run'[step'[k].run] = "queued"
    /\ \E i \in ItemId : item'[i].state = "queued" /\ item'[i].type = "normal" /\ item'[i].step = k

StepMove(k) ==
    \/ step[k].state # "absent" /\ StepGoesOn(k)
    \/ step[k].state = "absent" /\ step'[k] = step[k]
    \/ StepBegins(k)
    \/ step[k].state = "absent" /\ Corrects

\* A projection that calls a run settled has found its steps done.
LEMMA ProjectedIsDone ==
    ASSUME NEW st, NEW r, aggregateRunFromSteps(StepStates(st, r)) \in RunSettled,
           NEW k \in StepId, st[k].state # "absent", st[k].run = r
    PROVE  st[k].state \in StepTerminal
  <1>1. st[k].state \in StepStates(st, r)
    BY DEF StepStates
  <1>2. StepStates(st, r) \subseteq StepTerminal
    BY DEF aggregateRunFromSteps, RunSettled
  <1> QED BY <1>1, <1>2

\* The state of one step changes, and its run is projected.
LEMMA ProjectedMoves ==
    ASSUME RuntimeInv, NEW p \in StepId, step[p].state # "absent",
           NEW x \in StepState \ {"absent"}, step' = [step EXCEPT ![p].state = x],
           run' = applyRunLifecycleProjection(step', step[p].run)
    PROVE  \A k \in StepId : StepMove(k)
  <1> TypeOK /\ ReferencesResolve
    BY DEF RuntimeInv, TypeInvariant
  <1> TAKE k \in StepId
  <1>1. /\ step'[k].run = step[k].run
        /\ k # p => step'[k] = step[k]
        /\ step'[k].state = "absent" <=> step[k].state = "absent"
    BY DEF TypeOK, StepRow
  <1>2. CASE step[k].state # "absent" /\ step[k].run = step[p].run
    <2>1. run'[step[k].run] = aggregateRunFromSteps(StepStates(step', step[p].run))
      BY <1>2 DEF applyRunLifecycleProjection, TypeOK, ReferencesResolve, StepsHaveRuns
    <2>2. run'[step[k].run] \in RunSettled => step'[k].state \in StepTerminal
      BY <1>1, <1>2, <2>1, ProjectedIsDone
    <2> QED BY <1>1, <1>2, <2>2 DEF StepMove, StepGoesOn
  <1>3. CASE step[k].state # "absent" /\ step[k].run # step[p].run
    <2>1. step'[k] = step[k] /\ run'[step[k].run] = run[step[k].run]
      BY <1>1, <1>3 DEF applyRunLifecycleProjection, TypeOK, ReferencesResolve, StepsHaveRuns
    <2> QED BY <1>3, <2>1 DEF StepMove, StepGoesOn
  <1>4. CASE step[k].state = "absent"
    BY <1>1, <1>4 DEF StepMove
  <1> QED BY <1>2, <1>3, <1>4

\* The state of one step changes, and its run stays.
LEMMA UpdatedMoves ==
    ASSUME TypeOK, UNCHANGED run, NEW p \in StepId, step[p].state # "absent",
           NEW x, step' = [step EXCEPT ![p].state = x],
           step[p].state \in StepTerminal => x \in StepTerminal
    PROVE  \A k \in StepId : StepMove(k)
  <1> TAKE k \in StepId
  <1>1. /\ step'[k].run = step[k].run
        /\ k # p => step'[k] = step[k]
        /\ step[k].state \in StepTerminal => step'[k].state \in StepTerminal
    BY DEF TypeOK, StepRow
  <1> QED BY <1>1 DEF StepMove, StepGoesOn

\* Nothing changes.
LEMMA StillMoves == UNCHANGED <<run, step>> => \A k \in StepId : StepMove(k)
  BY DEF StepMove, StepGoesOn

\* A message begins steps with a run of their own and touches no other.
LEMMA MessageBegins ==
    ASSUME RuntimeInv, NEW r \in RunId, NEW T \in SUBSET Session,
           NEW f \in [T -> StepId], NEW q \in [T -> ItemId], createDirectMultiAgentRun(r, T, f, q)
    PROVE  \A k \in StepId : StepMove(k)
  <1> TypeOK /\ ReferencesResolve
    BY DEF RuntimeInv, TypeInvariant
  <1>1. ASSUME NEW k \in StepId PROVE StepMove(k)
    <2>1. CASE \E s \in T : f[s] = k
      <3> PICK s \in T : f[s] = k
        BY <2>1
      <3> QED BY MessageRows DEF StepMove, StepBegins
    <2>2. CASE ~ \E s \in T : f[s] = k
      <3>1. step'[k] = step[k]
        BY <2>2 DEF createDirectMultiAgentRun
      <3>2. step[k].state # "absent" => run'[step[k].run] = run[step[k].run]
        BY DEF createDirectMultiAgentRun, NextRun, TypeOK, ReferencesResolve, StepsHaveRuns
      <3> QED BY <3>1, <3>2 DEF StepMove, StepGoesOn
    <2> QED BY <2>1, <2>2
  <1> QED BY <1>1

\* A claim leaves what is done, and makes no run settled.
LEMMA ClaimGoesOn ==
    ASSUME RuntimeInv, NEW w \in Worker, NEW i \in ItemId, NEW t \in TurnId, NEW u \in 0..MaxTurn,
           claimTurnQueueItem(w, i, t, u)
    PROVE  \A k \in StepId : StepMove(k)
  <1> TypeOK /\ ReferencesResolve
    BY DEF RuntimeInv, TypeInvariant
  <1> DEFINE st == SupersededSteps(u)
  <1>1. StepsKept
    BY ClaimInv
  <1>2. st \in [StepId -> StepRow]
    <2>1. "cancelled" \in StepState
      BY DEF StepState
    <2>2. \A k \in StepId : step[k] \in StepRow
      BY DEF TypeOK
    <2>3. \A k \in StepId : [step[k] EXCEPT !.state = "cancelled"] \in StepRow
      BY <2>1, <2>2 DEF StepRow
    <2> QED BY <2>2, <2>3 DEF SupersededSteps
  <1>3. \A k \in StepId : step[k].state \in StepTerminal => st[k] = step[k]
    BY DEF SupersededSteps, StepTerminal
  <1>4. step' = AcquireStep(st, item[i].step) /\ run' = ActivateRun(step', step[item[i].step].run)
    BY DEF claimTurnQueueItem
  <1> HIDE DEF st
  <1>5. \A k \in StepId : step[k].state \in StepTerminal => step'[k].state = step[k].state
    BY <1>2, <1>3, <1>4 DEF AcquireStep, StepRow, StepTerminal
  <1>6. \A r \in RunId : run'[r] \in RunSettled => run[r] \in RunSettled
    BY <1>4 DEF ActivateRun, RunSettled, TypeOK
  <1>7. ASSUME NEW k \in StepId, step[k].state = "absent" PROVE step'[k] = step[k]
    <2>1. st[k] = step[k]
      BY <1>7 DEF st, SupersededSteps
    <2>2. step'[k] = IF k = item[i].step
                     THEN [st[k] EXCEPT !.state = IF st[k].state \in {"queued", "acquiring_session"}
                                                  THEN "acquiring_session" ELSE st[k].state]
                     ELSE st[k]
      BY <1>2, <1>4 DEF AcquireStep
    <2>3. [st[k] EXCEPT !.state = st[k].state] = st[k]
      BY <1>2 DEF StepRow
    <2> QED BY <1>7, <2>1, <2>2, <2>3
  <1>8. \A k \in StepId : step[k].state # "absent" => step[k].run \in RunId /\ step'[k].run = step[k].run
    BY <1>1 DEF StepsKept, ReferencesResolve, StepsHaveRuns
  <1> QED BY <1>5, <1>6, <1>7, <1>8 DEF StepMove, StepGoesOn

\* The pause of a turn is captured, perhaps again.
LEMMA AwaitGoesOn ==
    ASSUME RuntimeInv, NEW t \in TurnId, turn[t].state # "absent", AwaitHumans(t)
    PROVE  \A k \in StepId : StepMove(k)
  <1> DEFINE p == turn[t].step
  <1>1. p \in StepId /\ step[p].state # "absent"
    BY DEF RuntimeInv, ReferencesResolve, TurnsHaveItems, ItemsHaveSteps
  <1>2. step' = [step EXCEPT ![p].state = "awaiting"] /\ run' = applyRunLifecycleProjection(step', step[p].run)
    BY DEF AwaitHumans
  <1>3. "awaiting" \in StepState \ {"absent"}
    BY DEF StepState
  <1> HIDE DEF p
  <1> QED BY <1>1, <1>2, <1>3, ProjectedMoves

\* An event that is no outcome leaves what is done.
LEMMA EventGoesOn ==
    ASSUME RuntimeInv, EventStep
    PROVE  \A k \in StepId : StepMove(k)
  <1> TypeOK /\ ReferencesResolve
    BY DEF RuntimeInv, TypeInvariant
  <1> PICK t \in TurnId, e \in Emits : ingestNormalizedTrueForgeEvent(t, e)
    BY DEF EventStep
  <1> DEFINE p == turn[t].step
             new == e \notin turn[t].seen
             x == IF new THEN StepOutcome(e, t, step[p].state) ELSE step[p].state
  <1>1. p \in StepId /\ step[p].state # "absent"
    BY DEF ingestNormalizedTrueForgeEvent, IngestStates, ReferencesResolve, TurnsHaveItems,
           ItemsHaveSteps
  <1>2. x \in StepState \ {"absent"}
    BY <1>1 DEF StepOutcome, TypeOK, StepRow, StepState
  <1>3. step' = [step EXCEPT ![p].state = x]
    <2>1. CASE new
      BY <2>1 DEF ingestNormalizedTrueForgeEvent
    <2>2. CASE ~ new
      <3>1. step' = step
        BY <2>2 DEF ingestNormalizedTrueForgeEvent
      <3>2. step = [step EXCEPT ![p].state = step[p].state]
        BY <1>1 DEF TypeOK, StepRow
      <3> QED BY <2>2, <3>1, <3>2
    <2> QED BY <2>1, <2>2
  <1>4. CASE run' = applyRunLifecycleProjection(step', step[p].run)
    <2> HIDE DEF p, x
    <2> QED BY <1>1, <1>2, <1>3, <1>4, ProjectedMoves
  <1>5. CASE run' = run /\ ~ Terminal(e)
    <2>1. step[p].state \in StepTerminal => x \in StepTerminal
      BY <1>5 DEF StepOutcome, Terminal, StepTerminal
    <2> HIDE DEF p, x
    <2> QED BY <1>1, <1>3, <1>5, <2>1, UpdatedMoves
  <1>6. /\ step' = IF new THEN [step EXCEPT ![p].state = StepOutcome(e, t, @)] ELSE step
        /\ run' = IF Terminal(e) \/ (new /\ turn[t].state = "creating")
                  THEN applyRunLifecycleProjection(step', step[p].run) ELSE run
    BY DEF ingestNormalizedTrueForgeEvent
  <1> QED BY <1>4, <1>5, <1>6

\* The steps a create attempt fails, and the run it refreshes then.
LEMMA AttemptGoesOnSteps ==
    ASSUME RuntimeInv, NEW w \in Worker, AttemptStep(w)
    PROVE  \A k \in StepId : StepMove(k)
  <1> TypeOK /\ ReferencesResolve
    BY DEF RuntimeInv, TypeInvariant
  <1> DEFINE p == turn[call[w].turn].step
  <1>0. call[w].pc # "idle" => p \in StepId /\ step[p].state # "absent"
    BY DEF ReferencesResolve, ProceduresHaveRows, TurnsHaveItems, ItemsHaveSteps
  <1>1. CASE markRunStepFailed(w)
    <2> DEFINE x == IF step[p].state \in StepTerminal THEN step[p].state ELSE "failed"
    <2>1. step' = [step EXCEPT ![p].state = x] /\ UNCHANGED run /\ p \in StepId /\ step[p].state # "absent"
      BY <1>0, <1>1 DEF markRunStepFailed
    <2>2. step[p].state \in StepTerminal => x \in StepTerminal
      OBVIOUS
    <2> HIDE DEF p, x
    <2> QED BY <2>1, <2>2, UpdatedMoves
  <1>2. CASE refreshRunLifecycleForStep(w)
    <2>1. /\ step' = step /\ run' = applyRunLifecycleProjection(step, step[p].run)
          /\ p \in StepId /\ step[p].state # "absent"
      BY <1>0, <1>2 DEF refreshRunLifecycleForStep
    <2>2. step[p].state \in StepState \ {"absent"} /\ step = [step EXCEPT ![p].state = step[p].state]
      BY <2>1 DEF TypeOK, StepRow
    <2> HIDE DEF p
    <2> QED BY <2>1, <2>2, ProjectedMoves
  <1>3. CASE ~ markRunStepFailed(w) /\ ~ refreshRunLifecycleForStep(w)
    <2>1. UNCHANGED <<run, step>>
      BY <1>3 DEF AttemptStep, lockClaimedTurn, listTurns, failClosed, createTurn, bindCreated,
                  bindReconciled, StreamTurn, markAgentTurnUncertain, tables
    <2> QED BY <2>1, StillMoves
  <1> QED BY <1>1, <1>2, <1>3

\* A stop, requested by a person or a rotation, and its settlement.
LEMMA StopGoesOn ==
    ASSUME RuntimeInv, StopStep \/ \E s \in Session : stopActiveTurn(s)
    PROVE  \A k \in StepId : StepMove(k)
  <1> TypeOK /\ ReferencesResolve
    BY DEF RuntimeInv, TypeInvariant
  <1>1. ASSUME NEW p \in StepId, requestRunStepStop(p) \/ settleCancelledStep(p)
        PROVE  \A k \in StepId : StepMove(k)
    <2>1. PICK x \in {"cancelling", "cancelled"} : step' = [step EXCEPT ![p].state = x]
      BY <1>1 DEF requestRunStepStop, settleCancelledStep
    <2>2. step[p].state \in Stoppable \cup {"cancelling"} /\ UNCHANGED run
      BY <1>1 DEF requestRunStepStop, settleCancelledStep
    <2>3. step[p].state # "absent" /\ step[p].state \notin StepTerminal
      BY <2>2 DEF Stoppable, StepTerminal
    <2> QED BY <2>1, <2>2, <2>3, UpdatedMoves
  <1>2. ASSUME NEW s \in Session, stopActiveTurn(s) PROVE \A k \in StepId : StepMove(k)
    <2> DEFINE p == turn[rot[s].active].step
               x == IF step[p].state \in Stoppable THEN "cancelling" ELSE step[p].state
    <2>1. UNCHANGED run
      BY Zenon, <1>2 DEF stopActiveTurn
    <2>2. CASE step' = step
      BY <2>1, <2>2, StillMoves
    <2>3. CASE step' = [step EXCEPT ![p].state = x]
      <3>1. ASSUME NEW k \in StepId PROVE StepMove(k)
        <4>1. k # p => step'[k] = step[k]
          BY <2>3 DEF TypeOK
        <4>2. k = p => /\ step'[k].run = step[k].run /\ step'[k].state = x
                       /\ step[k].state \notin Stoppable => step'[k] = step[k]
          BY <2>3 DEF TypeOK, StepRow
        <4>3. "absent" \notin Stoppable /\ StepTerminal \cap Stoppable = {}
          BY DEF Stoppable, StepTerminal
        <4> HIDE DEF p, x
        <4> QED BY <2>1, <4>1, <4>2, <4>3 DEF StepMove, StepGoesOn
      <3> QED BY <3>1
    <2>4. step' = step \/ step' = [step EXCEPT ![p].state = x]
      BY Zenon, <1>2 DEF stopActiveTurn
    <2> QED BY <2>2, <2>3, <2>4
  <1> QED BY <1>1, <1>2 DEF StopStep

\* A correction joins a run that exists; its steps are the only ones it touches.
LEMMA CorrectionMoves ==
    ASSUME RuntimeInv, Corrects
    PROVE  \A k \in StepId : StepMove(k)
  <1> TypeOK
    BY DEF RuntimeInv, TypeInvariant
  <1>1. ASSUME NEW p \in StepId, NEW row, NextStep(p), step' = [step EXCEPT ![p] = row], UNCHANGED run
        PROVE  \A k \in StepId : StepMove(k)
    <2> TAKE k \in StepId
    <2>1. k # p => step'[k] = step[k]
      BY <1>1 DEF TypeOK
    <2> QED BY <1>1, <2>1 DEF StepMove, StepGoesOn, NextStep
  <1>2. ASSUME NEW t \in TurnId, NEW a \in Act, NEW k \in StepId, NEW i \in ItemId,
               recordRequestChanges(t, a, k, i)
        PROVE  \A j \in StepId : StepMove(j)
    BY <1>1, <1>2 DEF recordRequestChanges
  <1>3. ASSUME NEW p \in StepId, NEW k \in StepId, NEW g \in GenId, insertCorrectionStep(p, k, g)
        PROVE  \A j \in StepId : StepMove(j)
    BY <1>1, <1>3 DEF insertCorrectionStep
  <1>4. ASSUME NEW k \in StepId, NEW i \in ItemId, enqueueCorrectionForStep(k, i)
        PROVE  \A j \in StepId : StepMove(j)
    BY <1>4, StillMoves DEF enqueueCorrectionForStep
  <1> QED BY <1>2, <1>3, <1>4 DEF Corrects, CorrectionStep

\* Every other action leaves the steps and the runs.
LEMMA StepsFrame ==
    ASSUME [Next]_vars, ~ QueueStep, ~ ApiStep, ~ LifecycleStep, ~ CaptureStep, ~ StopStep,
           ~ Corrects, ~ \E s \in Session : stopActiveTurn(s)
    PROVE  UNCHANGED <<run, step>>
  <1>1. CASE LeaseStep
    BY ZenonT(60), <1>1 DEF LeaseStep, LeaseExpires, heartbeatTurnQueueLease, reclaimExpiredTurnQueueLease
  <1>2. CASE CrashStep
    BY <1>2 DEF CrashStep, Crash, ResumerCrash, tables
  <1>3. CASE DecisionStep
    BY ZenonT(60), <1>3 DEF DecisionStep, Corrects, evaluateGate, recordApprovalDecision,
                            recordQuestionAnswer
  <1>4. CASE ResumeStep
    BY ZenonT(60), <1>4 DEF ResumeStep, ResumeAttemptStep, claimPauseGroupResume, loadPauseResumeForCreate,
                markPauseResumeCreating, listResponseTurns, createResponseTurn,
                completePauseResume, markPauseResumeUncertain, tables
  <1>5. CASE RestartStep
    BY <1>5 DEF RestartStep, markActiveTurnsNeedsAttentionOnRestart
  <1>6. CASE RotationStep \/ RotationFailureStep
    BY ZenonT(60), <1>6 DEF RotationStep, RotationFailureStep, beginSessionRotation,
                atomicSwapSessionGeneration, completeSessionRotation, rotationThrows,
                abortSessionRotation, RotationCrash, tables
  <1>7. CASE UNCHANGED vars
    BY <1>7 DEF vars, tables
  <1> QED BY <1>1, <1>2, <1>3, <1>4, <1>5, <1>6, <1>7 DEF Next, Corrects

\* Every step of the runtime moves every step of a run in one of these ways.
LEMMA StepMoves == ASSUME RuntimeInv, [Next]_vars PROVE \A k \in StepId : StepMove(k)
  <1>1. CASE QueueStep
    BY <1>1, MessageBegins, ClaimGoesOn DEF QueueStep
  <1>2. CASE ApiStep
    BY <1>2, ClaimGoesOn DEF ApiStep, claimForBind
  <1>3. CASE LifecycleStep
    <2>1. ASSUME NEW w \in Worker, CommandStep(w) PROVE UNCHANGED <<run, step>>
      BY <2>1 DEF CommandStep, executeCreateOrReconcileTurn
    <2>2. ASSUME NEW t \in TurnId, lateCreate(t) \/ lateResponse(t) PROVE UNCHANGED <<run, step>>
      BY <2>2 DEF lateCreate, lateResponse, tables
    <2> QED BY <1>3, <2>1, <2>2, AttemptGoesOnSteps, EventGoesOn, StillMoves DEF LifecycleStep
  <1>4. CASE CaptureStep
    <2>1. PICK t \in TurnId : \/ captureTrueForgeRequiredActions(t)
                              \/ \E need \in buildPauseGroupCapturePlan : persistPauseGroupCapture(t, need)
                              \/ recapturePauseGroup(t)
                              \/ captureFails(t)
      BY <1>4 DEF CaptureStep
    <2>2. CASE AwaitHumans(t) /\ turn[t].state # "absent"
      BY <2>2, AwaitGoesOn
    <2>3. CASE UNCHANGED <<run, step>>
      BY <2>3, StillMoves
    <2>4. group[t].state # "absent" => turn[t].state # "absent"
      BY DEF RuntimeInv, ReferencesResolve, PausesHaveTurns
    <2>5. CASE captureTrueForgeRequiredActions(t) \/ captureFails(t)
      BY <2>3, <2>5 DEF captureTrueForgeRequiredActions, captureFails, tables
    <2>6. CASE recapturePauseGroup(t)
      BY <2>2, <2>4, <2>6 DEF recapturePauseGroup
    <2>7. ASSUME NEW need \in buildPauseGroupCapturePlan, persistPauseGroupCapture(t, need)
          PROVE  AwaitHumans(t) /\ turn[t].state # "absent"
      BY <2>7 DEF persistPauseGroupCapture
    <2> QED BY <2>1, <2>2, <2>5, <2>6, <2>7
  <1>5. CASE StopStep \/ \E s \in Session : stopActiveTurn(s)
    BY <1>5, StopGoesOn
  <1>6. CASE Corrects
    BY <1>6, CorrectionMoves
  <1> QED BY <1>1, <1>2, <1>3, <1>4, <1>5, <1>6, StepsFrame, StillMoves

\* A normal item is inserted with its step, in a run that is not settled.
LEMMA NormalItemMoves ==
    ASSUME RuntimeInv, [Next]_vars, NEW i \in ItemId, item'[i].state # "absent", item'[i].type = "normal"
    PROVE  \/ /\ item[i].state # "absent" /\ item[i].type = "normal" /\ item'[i].step = item[i].step
           \/ item'[i].step \in StepId /\ run'[step'[item'[i].step].run] = "queued"
  <1>1. CASE ItemSettled(i)
    <2>1. item[i].state # "absent"
      BY <1>1 DEF ItemSettled, RuntimeInv, ReferencesResolve, TurnsHaveItems
    <2> QED BY <1>1, <2>1 DEF ItemSettled, ItemColumns
  <1>2. CASE ItemInserted(i)
    BY <1>2 DEF ItemInserted
  <1> QED BY <1>1, <1>2, ItemMoves DEF ItemMove, ItemStays, ItemColumns, ItemClaimed, ItemReturned,
             ItemRebound, IsHead

\* It is inductive as it stands.
LEMMA OutlastInductive ==
    RuntimeInv /\ OnlyCorrectionsOutlastRuns /\ [Next]_vars => OnlyCorrectionsOutlastRuns'
  <1> SUFFICES ASSUME RuntimeInv, OnlyCorrectionsOutlastRuns, [Next]_vars, NEW i \in ItemId,
                      item'[i].state # "absent", item'[i].type = "normal",
                      run'[step'[item'[i].step].run] \in RunSettled
               PROVE  step'[item'[i].step].state \in StepTerminal
    BY DEF OnlyCorrectionsOutlastRuns
  <1> DEFINE k == item[i].step
  <1>1. item[i].state # "absent" /\ item[i].type = "normal" /\ item'[i].step = k
    BY NormalItemMoves DEF RunSettled
  <1>2. k \in StepId /\ step[k].state # "absent"
    BY <1>1 DEF RuntimeInv, ReferencesResolve, ItemsHaveSteps
  <1>3. run[step[k].run] \in RunSettled => step[k].state \in StepTerminal
    BY <1>1 DEF OnlyCorrectionsOutlastRuns
  <1> HIDE DEF k
  <1>4. StepGoesOn(k)
    BY <1>2, StepMoves DEF StepMove, StepBegins
  <1> QED BY <1>1, <1>3, <1>4 DEF StepGoesOn

\* A run is reported as completed, partial, failed or cancelled only when every step of its
\* message is, and it is reported as active again in the transaction that reopens one of them.
THEOREM OnlyCorrectionsStay == Spec => []OnlyCorrectionsOutlastRuns
  <1>1. Init => OnlyCorrectionsOutlastRuns
    BY DEF Init, TablesInit, NoItem, OnlyCorrectionsOutlastRuns
  <1> QED BY <1>1, OutlastInductive, SpecInv, PTL DEF Spec

\* Steps that came with a message.
EveryStepHasItsMessage ==
    \A k \in StepId : step[k].state # "absent" =>
       \E i \in ItemId : item[i].state # "absent" /\ item[i].type = "normal" /\ item[i].step = k

\* Items stay where they are.
LEMMA NormalItemStays ==
    ASSUME RuntimeInv, [Next]_vars, NEW i \in ItemId, item[i].state # "absent"
    PROVE  item'[i].state # "absent" /\ item'[i].type = item[i].type /\ item'[i].step = item[i].step
BY ItemMoves DEF ItemMove, ItemStays, ItemColumns, ItemInserted, ItemClaimed, ItemReturned,
                 ItemSettled, ItemRebound

\* Where nobody corrects, a run reported as settled has no step left to do at all: no pause,
\* resume, late event, lost answer, stop, restart or rotation leaves one behind.
THEOREM SettledWithoutCorrections ==
    Spec /\ [][~ Corrects]_vars => []SettledRunHasSettledSteps
  <1>1. Init => EveryStepHasItsMessage
    BY DEF Init, TablesInit, NoStep, EveryStepHasItsMessage
  <1>2. RuntimeInv /\ EveryStepHasItsMessage /\ [Next]_vars /\ [~ Corrects]_vars
        => EveryStepHasItsMessage'
    <2> SUFFICES ASSUME RuntimeInv, EveryStepHasItsMessage, [Next]_vars, [~ Corrects]_vars,
                        NEW k \in StepId, step'[k].state # "absent"
                 PROVE  \E i \in ItemId : /\ item'[i].state # "absent" /\ item'[i].type = "normal"
                                          /\ item'[i].step = k
      BY DEF EveryStepHasItsMessage
    <2>1. CASE step[k].state # "absent"
      BY <2>1, NormalItemStays DEF EveryStepHasItsMessage
    <2>2. CASE step[k].state = "absent" /\ ~ Corrects
      BY <2>2, StepMoves DEF StepMove, StepBegins
    <2>3. CASE UNCHANGED vars
      BY <2>3 DEF vars, tables, EveryStepHasItsMessage
    <2> QED BY <2>1, <2>2, <2>3
  <1>3. EveryStepHasItsMessage /\ OnlyCorrectionsOutlastRuns => SettledRunHasSettledSteps
    BY DEF EveryStepHasItsMessage, OnlyCorrectionsOutlastRuns, SettledRunHasSettledSteps
  <1> QED BY <1>1, <1>2, <1>3, OnlyCorrectionsStay, SpecInv, PTL DEF Spec
=============================================================================
