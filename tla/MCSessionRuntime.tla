-------------------------- MODULE MCSessionRuntime --------------------------
(* Instances of SessionRuntime for TLC: parts of its next-state relation. *)
EXTENDS SessionRuntime, TLC

WorkerSymmetry == Permutations(Worker)

\* Create-or-reconcile attempts of workers and API requests, crashing and restarting.
CreateSpec == Init /\ [][QueueStep \/ LeaseStep \/ LifecycleStep \/ ApiStep \/ CrashStep
                         \/ RestartStep]_vars

\* One message to several coworkers, whose steps pause, fail, finish, are stopped and corrected:
\* everything but leases and rotations.
FanoutSpec == Init /\ [][QueueStep \/ LifecycleStep \/ ApiStep \/ CaptureStep \/ DecisionStep
                         \/ ResumeStep \/ StopStep \/ CorrectionStep \/ CrashStep
                         \/ RestartStep]_vars

\* Pauses, decisions and resumes while leases expire, processes die and the session is rotated.
RotationSpec == Init /\ [][QueueStep \/ LeaseStep \/ LifecycleStep \/ CaptureStep \/ DecisionStep
                           \/ ResumeStep \/ RotationStep \/ RotationFailureStep \/ CrashStep]_vars

\* Attempts that run to their end, with no crash.
ProgressSpec ==
    /\ Init
    /\ [][QueueStep \/ LeaseStep \/ LifecycleStep \/ ApiStep \/ CaptureStep
          \/ DecisionStep \/ ResumeStep]_vars
    /\ AttemptFairness
=============================================================================
