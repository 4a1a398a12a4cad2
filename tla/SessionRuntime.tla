--------------------------- MODULE SessionRuntime ---------------------------
(***************************************************************************)
(* The coworker runtime: the queue, the turn lifecycle, required actions,  *)
(* run control and session rotation over the same tables, interleaved one  *)
(* transaction (or provider call) at a time.                               *)
(***************************************************************************)
EXTENDS SessionRotation

vars == <<tables, lifecycleVars, pauseVars, correcting, rot>>

Init == /\ TablesInit
        /\ LifecycleInit
        /\ PauseInit
        /\ ControlInit
        /\ RotationInit

\* What the queue actions leave alone.
beyondTables == <<lifecycleVars, pauseVars, correcting, rot>>

QueueStep ==
    \/ \E r \in RunId, T \in SUBSET Session :
          \E f \in [T -> StepId], q \in [T -> ItemId] :
             createDirectMultiAgentRun(r, T, f, q) /\ UNCHANGED beyondTables
    \/ \E w \in Worker, i \in ItemId, t \in TurnId, u \in 0..MaxTurn :
          claimTurnQueueItem(w, i, t, u) /\ UNCHANGED beyondTables

LeaseStep ==
    \/ \E i \in ItemId : LeaseExpires(i) /\ UNCHANGED beyondTables
    \/ \E w \in Worker, i \in ItemId : heartbeatTurnQueueLease(w, i) /\ UNCHANGED beyondTables
    \/ \E i \in ItemId, t \in TurnId :
          reclaimExpiredTurnQueueLease(i, t) /\ UNCHANGED beyondTables

\* What a create-or-reconcile attempt does next once it has its turn.
AttemptStep(w) ==
    \/ lockClaimedTurn(w)
    \/ listTurns(w)
    \/ failClosed(w)
    \/ createTurn(w)
    \/ bindCreated(w)
    \/ bindReconciled(w)
    \/ markAgentTurnUncertain(w)
    \/ markRunStepFailed(w)
    \/ refreshRunLifecycleForStep(w)

CommandStep(w) ==
    \E t \in TurnId, force, local \in BOOLEAN : executeCreateOrReconcileTurn(w, t, force, local)

EventStep == \E t \in TurnId, e \in Emits : ingestNormalizedTrueForgeEvent(t, e)

LifecycleStep ==
    /\ \/ \E w \in Worker : AttemptStep(w) \/ CommandStep(w)
       \/ EventStep
       \/ \E t \in TurnId : lateCreate(t) \/ lateResponse(t)
    /\ UNCHANGED <<pauseVars, correcting, rot>>

ApiStep ==
    /\ \E w \in Worker, i \in ItemId, t \in TurnId, u \in 0..MaxTurn : claimForBind(w, i, t, u)
    /\ UNCHANGED <<pauseVars, correcting, rot>>

CaptureStep ==
    /\ \E t \in TurnId :
          \/ captureTrueForgeRequiredActions(t)
          \/ \E need \in buildPauseGroupCapturePlan : persistPauseGroupCapture(t, need)
          \/ recapturePauseGroup(t)
          \/ captureFails(t)
    /\ UNCHANGED <<correcting, rot>>

DecisionStep ==
    /\ \E t \in TurnId, a \in Act :
          \/ \E mark \in {"expired", "stale"} : evaluateGate(t, a, mark)
          \/ \E dec \in {"allowed", "denied"} : recordApprovalDecision(t, a, dec)
          \/ \E k \in StepId, i \in ItemId : recordRequestChanges(t, a, k, i)
          \/ \E dec \in {"answered", "stale"} : recordQuestionAnswer(t, a, dec)
    /\ UNCHANGED <<correcting, rot>>

\* What a resume attempt does next.
ResumeAttemptStep(w) ==
    \/ markPauseResumeCreating(w)
    \/ listResponseTurns(w)
    \/ createResponseTurn(w)
    \/ completePauseResume(w)
    \/ markPauseResumeUncertain(w)

ResumeStep ==
    /\ \E w \in Worker :
          \/ \E t \in TurnId, i \in ItemId : claimPauseGroupResume(w, t, i)
          \/ \E t \in TurnId : loadPauseResumeForCreate(w, t)
          \/ ResumeAttemptStep(w)
    /\ UNCHANGED <<correcting, rot>>

\* A process dies in the middle of an attempt.
CrashStep ==
    /\ \E w \in Worker :
          \/ Crash(w) /\ UNCHANGED pauseVars
          \/ ResumerCrash(w)
    /\ UNCHANGED <<correcting, rot>>

StopStep ==
    /\ \E k \in StepId : requestRunStepStop(k) \/ settleCancelledStep(k)
    /\ UNCHANGED rot

CorrectionStep ==
    /\ \/ \E p, k \in StepId, g \in GenId : insertCorrectionStep(p, k, g)
       \/ \E k \in StepId, i \in ItemId : enqueueCorrectionForStep(k, i)
    /\ UNCHANGED rot

RestartStep == markActiveTurnsNeedsAttentionOnRestart /\ UNCHANGED rot

RotationStep ==
    \E s \in Session :
       \/ \E restrict \in BOOLEAN, a \in 0..MaxTurn : beginSessionRotation(s, restrict, a)
       \/ stopActiveTurn(s)
       \/ \E g \in GenId : atomicSwapSessionGeneration(s, g)
       \/ completeSessionRotation(s)

RotationFailureStep ==
    \E s \in Session : rotationThrows(s) \/ abortSessionRotation(s) \/ RotationCrash(s)

Next ==
    \/ QueueStep \/ LeaseStep
    \/ LifecycleStep \/ ApiStep \/ CrashStep
    \/ CaptureStep \/ DecisionStep \/ ResumeStep
    \/ StopStep \/ CorrectionStep \/ RestartStep
    \/ RotationStep \/ RotationFailureStep

Spec == Init /\ [][Next]_vars

(***************************************************************************)
(* An attempt is one request or command that runs to its end unless its    *)
(* process dies: every provider call in it returns or throws.              *)
(***************************************************************************)
AttemptFairness ==
    \A w \in Worker :
       /\ WF_vars(AttemptStep(w) /\ UNCHANGED <<pauseVars, correcting, rot>>)
       /\ WF_vars(ResumeAttemptStep(w) /\ UNCHANGED <<correcting, rot>>)

-----------------------------------------------------------------------------
\* Every table, attempt and procedure has its type.
TypeInvariant ==
    /\ TypeOK
    /\ LifecycleTypeOK
    /\ PauseTypeOK
    /\ ControlTypeOK
    /\ RotationTypeOK

\* Rows refer to rows.  Only some of this is a foreign key of the schema: that a
\* correction, a response or a turn belongs to the session of its step is up to the
\* code that copies the identifiers from row to row.
StepsHaveRuns ==
    \A k \in StepId : step[k].state # "absent" =>
       step[k].run \in RunId /\ run[step[k].run] # "absent"

ItemsHaveSteps ==
    \A i \in ItemId : item[i].state # "absent" =>
       /\ item[i].step \in StepId
       /\ step[item[i].step].state # "absent"
       /\ step[item[i].step].sess = item[i].sess

TurnsHaveItems ==
    \A t \in TurnId : turn[t].state # "absent" =>
       /\ turn[t].item \in ItemId
       /\ item[turn[t].item].state # "absent"
       /\ turn[t].sess = item[turn[t].item].sess
       /\ turn[t].step = item[turn[t].item].step

PausesHaveTurns ==
    \A t \in TurnId :
       /\ group[t].state # "absent" => turn[t].state # "absent"
       /\ \A a \in Act : act[t][a].ra # "absent" => group[t].state # "absent"

ProceduresHaveRows ==
    /\ \A w \in Worker : call[w].pc # "idle" =>
          call[w].turn \in TurnId /\ turn[call[w].turn].state # "absent"
    /\ \A w \in Worker : resumer[w].pc # "idle" => resumer[w].turn \in TurnId
    /\ \A k \in StepId : correcting[k] # 0 => step[k].state # "absent"

\* Every queue item belongs to a step of its own session, every turn to an item with
\* the same session and step, every required action to a pause of a turn, and every attempt under way in a
\* process to rows that exist, however claims, corrections, pauses and resumes
\* interleave.
ReferencesResolve ==
    /\ StepsHaveRuns
    /\ ItemsHaveSteps
    /\ TurnsHaveItems
    /\ PausesHaveTurns
    /\ ProceduresHaveRows

(***************************************************************************)
(* Properties of turns and the queue.                                      *)
(***************************************************************************)

\* A session has at most one turn in acquiring, creating or streaming, although
\* claims, restarts and reconciliations of uncertain turns interleave.  The claim
\* checks it; only the reconciliation relies on the database index.
OneRemoteActive ==
    \A t, u \in TurnId : RemoteActive(t) /\ RemoteActive(u) /\ turn[t].sess = turn[u].sess => t = u

\* A queue item opens at most one provider turn, through lost answers, crashes,
\* restarts, reclaimed leases and reconciliation.
NoSecondRemoteTurn ==
    /\ \A t \in TurnId : prov[t].made <= 1
    /\ \A t, u \in TurnId : /\ t # u /\ turn[t].item = turn[u].item
                            /\ turn[t].item # 0
                            => prov[t].made = 0 \/ prov[u].made = 0

\* Items of one type leave a session's queue in the order they entered it: no later
\* item has been started while an earlier one waits, reclaimed ones included.
StartedInOrder ==
    \A i, j \in ItemId :
       /\ i < j /\ item[i].sess = item[j].sess /\ item[i].type = item[j].type
       /\ item[i].state = "queued"
       => item[j].state \in {"absent", "queued"}

\* A turn that claims to be bound to a provider turn has one, and a turn that was
\* given back by a reclaimed lease never had one.
BoundTurnsExist ==
    \A t \in TurnId : /\ turn[t].tf => prov[t].made > 0
                      /\ turn[t].state # "absent" /\ item[turn[t].item].state = "queued"
                         => prov[t].made = 0

RunSettled == {"completed", "partial", "failed", "cancelled"}

\* A run reported as settled has no step left to do.
SettledRunHasSettledSteps ==
    \A k \in StepId : /\ step[k].state # "absent" /\ run[step[k].run] \in RunSettled
                      => step[k].state \in StepTerminal

\* What a run reported as settled still has to do are corrections: every step its message
\* asked for is done, although pauses are captured again after the resumed turn finished,
\* events come late and steps are stopped, failed and given back meanwhile.
OnlyCorrectionsOutlastRuns ==
    \A i \in ItemId : /\ item[i].state # "absent" /\ item[i].type = "normal"
                      /\ run[step[item[i].step].run] \in RunSettled
                      => step[item[i].step].state \in StepTerminal

\* While a step is cancelling, new turns for its session wait.  (The claim looks for such
\* steps through their turns, so a step that is stopped before its first turn is not seen
\* and its item is claimed.)
NewTurnsWaitForStops ==
    [][\A t \in TurnId : turn[t].state = "absent" /\ turn'[t].state # "absent"
          => \A k \in StepId : step[k].sess = turn'[t].sess => step[k].state # "cancelling"]_vars

\* A finished turn stays as it finished, whatever is delivered, retried or
\* reconciled later.  (Turns that never pause keep it; a pause whose ingestion comes
\* after the resumed turn has finished sets it back to required_actions.)
FinishedTurnsStayFinished ==
    [][\A t \in TurnId : turn[t].state \in {"completed", "failed", "cancelled"}
                          => turn'[t].state = turn[t].state]_vars

\* An attempt never leaves its turn holding the session's slot before a provider
\* turn is bound: the turn is bound, or becomes uncertain, or was given back.
AttemptsSettle ==
    \A w \in Worker, t \in TurnId :
       call[w].turn = t ~> turn[t].state \notin {"acquiring", "creating"}
-----------------------------------------------------------------------------
(***************************************************************************)
(* Properties of required actions.                                         *)
(***************************************************************************)
Granted == {"allowed", "denied", "answered"}   \* outcomes that count towards a resume

\* resolved_action_count, which decides when a group is ready, counts exactly the
\* actions decided in a way the provider can be told: never one that expired, went
\* stale, or asked for changes.
CountIsGranted ==
    \A t \in TurnId :
       group[t].count = Cardinality({a \in group[t].need : act[t][a].dec \in Granted})

\* Once a resume has been claimed, every required action of the group is resolved
\* with an outcome the provider can be told, and the count says no more than that.
ResumeOnlyWhenGranted ==
    /\ CountIsGranted
    /\ \A t \in TurnId : group[t].resume # "none" =>
          \A a \in group[t].need : act[t][a].ra = "resolved" /\ act[t][a].dec \in Granted

\* A pause is answered by at most one provider turn, though any number of requests
\* may carry on with a claimed resume, after crashes and lost answers too.
OneResponseTurn == \A t \in TurnId : prov[t].again <= 1

\* The resume of a pause has exactly one response item, bound for good to the
\* generation of the turn that paused.
OneResponseItem ==
    \A t \in TurnId :
       LET I == {i \in ItemId : item[i].state # "absent" /\ item[i].type = "pause_group_response"
                               /\ item[i].linkT = t}
       IN  /\ Cardinality(I) = (IF group[t].resume = "none" THEN 0 ELSE 1)
           /\ \A i \in I : item[i].bound = turn[t].gen

\* A group that was superseded by a correction or made stale by a rotation leaves no
\* action to decide and is never resumed.
WithdrawnGroupsAreDead ==
    \A t \in TurnId : group[t].state \in {"cancelled", "stale"} =>
       /\ group[t].resume = "none"
       /\ \A a \in Act : act[t][a].ra # "absent" =>
             act[t][a].ra # "pending" /\ act[t][a].dec # "open"

\* A group that is resumed, superseded or stale never opens again, although the
\* update that counts a decision does not look at the group's state.
ClosedGroupsStayClosed ==
    [][\A t \in TurnId : group[t].state \in {"resumed", "cancelled", "stale"}
                          => group'[t].state = group[t].state]_vars

\* A claimed resume is carried out or recorded as uncertain, never left creating.
ResumesSettle ==
    \A t \in TurnId : group[t].resume \in {"claimed", "creating"}
                     ~> group[t].resume \in {"uncertain", "completed"}
-----------------------------------------------------------------------------
(***************************************************************************)
(* Properties of rotation.                                                 *)
(***************************************************************************)

\* A session that accepts work runs on a ready generation, and no other generation
\* of it is live, whether rotations complete, fail or crash.
LiveGeneration ==
    \A s \in Session :
       /\ gen[s][sess[s].cur] \in {"ready", "rotating"}
       /\ sess[s].state = "active" => gen[s][sess[s].cur] = "ready"
       /\ \A g \in GenId : gen[s][g] \in {"ready", "rotating"} => g = sess[s].cur

\* Waiting work follows the session to its new generation: a queued message that was
\* never claimed, and a queued request for changes, is unbound or bound to the live
\* generation, so that it can be claimed.  (A steering correction carries whatever
\* generation its caller named.)
QueuedWorkIsBoundLive ==
    \A i \in ItemId :
       /\ item[i].state = "queued"
       /\ item[i].type = "normal" \/ item[i].linkA # NoAct
       /\ \A t \in TurnId : turn[t].item # i
       => item[i].bound \in {0, sess[item[i].sess].cur}
=============================================================================
