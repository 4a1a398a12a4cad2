----------------------------- MODULE RunControl -----------------------------
(***************************************************************************)
(* What people and restarts do to running work (packages/db run-control.ts *)
(* and the API handlers that call it): stop a step, settle a stopped step, *)
(* steer with a correction, and mark live turns uncertain when a process   *)
(* starts again.                                                           *)
(***************************************************************************)
EXTENDS PauseGroups

\* By step: the generation (0: no correction under way) that the caller of
\* enqueueCorrectionForStep named, between the insert of the correction's step
\* and the insert of its queue item.
VARIABLE correcting

\* Corrections under way have their type.
ControlTypeOK == correcting \in [StepId -> 0..MaxGen]

ControlInit == correcting = [k \in StepId |-> 0]

Stoppable == {"queued", "acquiring_session", "running", "awaiting"}

\* decideStopLocal's enter_cancelling; the other outcomes change nothing here.
requestRunStepStop(k) ==
    /\ step[k].state \in Stoppable
    /\ step' = [step EXCEPT ![k].state = "cancelling"]
    /\ UNCHANGED <<sess, gen, run, item, turn, group, act, lifecycleVars, pauseVars, correcting>>

\* Called for a step that was asked to stop.  Queue items and runs stay as they are.
settleCancelledStep(k) ==
    /\ step[k].state = "cancelling"
    /\ step' = [step EXCEPT ![k].state = "cancelled"]
    /\ turn' = [t \in TurnId |->
                   IF turn[t].step = k /\ turn[t].state \in RemoteActiveState \cup {"uncertain"}
                   THEN [turn[t] EXCEPT !.state = "cancelled"] ELSE turn[t]]
    /\ UNCHANGED <<sess, gen, run, item, group, act, lifecycleVars, pauseVars, correcting>>

\* steerCorrection: a new step in the run of step p, in one transaction ...
insertCorrectionStep(p, k, g) ==
    /\ step[p].state # "absent"
    /\ gen[step[p].sess][g] # "absent"
    /\ NextStep(k)
    /\ step' = [step EXCEPT ![k] = QueuedStep(step[p].run, step[p].sess)]
    /\ correcting' = [correcting EXCEPT ![k] = g]
    /\ UNCHANGED <<sess, gen, run, item, turn, group, act, lifecycleVars, pauseVars>>

\* ... and its queue item in another.
enqueueCorrectionForStep(k, i) ==
    /\ correcting[k] # 0
    /\ NextItem(i)
    /\ item' = [item EXCEPT ![i] = QueuedItem("correction", step[k].sess, k, correcting[k])]
    /\ correcting' = [correcting EXCEPT ![k] = 0]
    /\ UNCHANGED <<sess, gen, run, step, turn, group, act, lifecycleVars, pauseVars>>

\* A process starts: every live turn, of whatever process, becomes uncertain.
markActiveTurnsNeedsAttentionOnRestart ==
    /\ \E t \in TurnId : RemoteActive(t)
    /\ turn' = [t \in TurnId |-> IF RemoteActive(t) THEN [turn[t] EXCEPT !.state = "uncertain"]
                                 ELSE turn[t]]
    /\ UNCHANGED <<sess, gen, run, step, item, group, act, lifecycleVars, pauseVars, correcting>>
=============================================================================
