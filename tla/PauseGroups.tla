---------------------------- MODULE PauseGroups ----------------------------
(***************************************************************************)
(* Required actions.  A provider turn that ends in a pause is captured as  *)
(* a PauseGroup of required actions (pause-group.ts); people decide them   *)
(* one by one (approval-decision.ts, recordQuestionAnswer); a group whose  *)
(* actions are all resolved is resumed by one response-only provider turn  *)
(* (pause-resume.ts, create-or-reconcile-response-turn.ts).                *)
(*                                                                         *)
(* The resume is claimed in one transaction and carried out by an attempt  *)
(* of several (resumer), which any process that finds the durable resume   *)
(* may start again after a crash.                                          *)
(***************************************************************************)
EXTENDS TurnLifecycle

VARIABLES
    checked,   \* turns whose pause passed the API's check and is about to be captured
    resumer    \* by process: the resume attempt it is in

pauseVars == <<checked, resumer>>

ResumeAttempt == [pc : {"idle", "loaded", "creating", "read", "made", "failed"},
                  turn : 0..MaxTurn, found : 0..MaxMade]

NoResume == [pc |-> "idle", turn |-> 0, found |-> 0]

\* Pending captures and resume attempts have their types.
PauseTypeOK == /\ checked \in SUBSET TurnId
               /\ resumer \in [Worker -> ResumeAttempt]

PauseInit == /\ checked = {}
             /\ resumer = [w \in Worker |-> NoResume]

-----------------------------------------------------------------------------
(***************************************************************************)
(* Capture.  Before it ingests a pause, the API checks that the turn is    *)
(* bound and its generation ready and current, and then, in a transaction  *)
(* of its own, captures the pause.  A capture repeated for the same turn   *)
(* writes the waiting states again, whatever they are by then.             *)
(***************************************************************************)
PauseEmitted(t) == "pause" \in Emits /\ prov[t].made > 0 /\ turn[t].seen \cap {"done", "error"} = {}

GenerationLive(t) ==
    /\ sess[turn[t].sess].cur = turn[t].gen
    /\ gen[turn[t].sess][turn[t].gen] = "ready"

captureTrueForgeRequiredActions(t) ==
    /\ PauseEmitted(t) /\ turn[t].tf /\ GenerationLive(t)
    /\ t \notin checked
    /\ checked' = checked \cup {t}
    /\ UNCHANGED <<tables, lifecycleVars, resumer>>

\* The actions a plan may hold: approvals, questions and connections, at least one.
buildPauseGroupCapturePlan == {need \in SUBSET Act : need # {}}

\* Mutant: the run is not projected again.
AwaitHumansOnly(t) ==
    /\ turn' = [turn EXCEPT ![t] = [@ EXCEPT !.state = "required_actions", !.tf = TRUE]]
    /\ step' = [step EXCEPT ![turn[t].step].state = "awaiting"]
    /\ item' = [item EXCEPT ![turn[t].item] = SettledItem(@, "completed")]
    /\ UNCHANGED run

AwaitHumans(t) ==
    LET k  == turn[t].step
        st == [step EXCEPT ![k].state = "awaiting"]
    IN  /\ turn' = [turn EXCEPT ![t] = [@ EXCEPT !.state = "required_actions", !.tf = TRUE]]
        /\ step' = st
        /\ item' = [item EXCEPT ![turn[t].item] = SettledItem(@, "completed")]
        /\ run' = applyRunLifecycleProjection(st, step[k].run)

persistPauseGroupCapture(t, need) ==
    /\ t \in checked /\ checked' = checked \ {t}
    /\ group[t].state = "absent"
    /\ turn[t].state \in {"streaming", "creating", "required_actions", "acquiring"}
    /\ group' = [group EXCEPT ![t] = [NoGroup EXCEPT !.state = "collecting", !.need = need]]
    /\ act' = [act EXCEPT ![t] = [a \in Act |-> IF a \in need THEN [ra |-> "pending", dec |-> "open"]
                                                ELSE NoActRow]]
    /\ AwaitHumans(t)
    /\ UNCHANGED <<sess, gen, lifecycleVars, resumer>>

\* No plan (an unsupported action, a missing or repeated id, only a child's actions), a
\* state_mismatch, or the request is gone before the capture.
captureFails(t) ==
    /\ t \in checked /\ checked' = checked \ {t}
    /\ UNCHANGED <<tables, lifecycleVars, resumer>>

recapturePauseGroup(t) ==
    /\ t \in checked /\ checked' = checked \ {t}
    /\ group[t].state # "absent"
    /\ AwaitHumans(t)
    /\ UNCHANGED <<sess, gen, group, act, lifecycleVars, resumer>>

-----------------------------------------------------------------------------
(***************************************************************************)
(* Decisions.                                                              *)
(***************************************************************************)
\* Mutant: a decision is recorded, and counted, whatever was decided before.
UndecidedOrNot(t, a) == act[t][a].ra # "absent"

Undecided(t, a) == act[t][a].ra # "absent" /\ act[t][a].dec = "open"

\* The rows after a decision, and after a proposal is closed without one.
Resolve(row, dec) ==
    [row EXCEPT !.dec = dec, !.ra = IF row.ra = "pending" THEN "resolved" ELSE row.ra]

Close(row, mark) == [row EXCEPT !.dec = mark, !.ra = IF row.ra = "pending" THEN mark ELSE row.ra]

\* UPDATE pause_groups: one more resolved action, ready at the last; the update
\* does not look at the state it replaces.
CountResolved(t) ==
    group' = [group EXCEPT ![t].count = @ + 1,
                           ![t].state = IF group[t].count + 1 >= Cardinality(group[t].need)
                                        THEN "ready" ELSE @]

\* The gate closes the proposal without a decision: its time is over, or what the
\* decision was about is no longer what is live.
evaluateGate(t, a, mark) ==
    /\ a \in Approval /\ Undecided(t, a)
    /\ act' = [act EXCEPT ![t][a] = Close(@, mark)]
    /\ UNCHANGED <<sess, gen, run, step, item, turn, group, lifecycleVars, pauseVars>>

recordApprovalDecision(t, a, dec) ==
    /\ a \in Approval /\ Undecided(t, a)
    /\ sess[turn[t].sess].cur = turn[t].gen
    /\ act' = [act EXCEPT ![t][a] = Resolve(@, dec)]
    /\ CountResolved(t)
    /\ UNCHANGED <<sess, gen, run, step, item, turn, lifecycleVars, pauseVars>>

\* request_changes: the action is resolved but does not count, and a correction
\* linked to it is queued on the proposal's generation, on a new step k.
recordRequestChanges(t, a, k, i) ==
    /\ a \in Approval /\ Undecided(t, a)
    /\ sess[turn[t].sess].cur = turn[t].gen
    /\ NextStep(k) /\ NextItem(i)
    /\ act' = [act EXCEPT ![t][a] = Resolve(@, "changes")]
    /\ step' = [step EXCEPT ![k] = QueuedStep(step[turn[t].step].run, turn[t].sess)]
    /\ item' = [item EXCEPT ![i] = [QueuedItem("correction", turn[t].sess, k, turn[t].gen)
                                    EXCEPT !.linkT = t, !.linkA = a]]
    /\ UNCHANGED <<sess, gen, run, turn, group, lifecycleVars, pauseVars>>

\* A question is answered once, while its action is pending; an answer to another
\* prompt makes it stale.
recordQuestionAnswer(t, a, dec) ==
    /\ a \notin Approval /\ Undecided(t, a) /\ act[t][a].ra = "pending"
    /\ \/ dec = "answered" /\ act' = [act EXCEPT ![t][a] = Resolve(@, dec)] /\ CountResolved(t)
       \/ dec = "stale" /\ act' = [act EXCEPT ![t][a] = Close(@, dec)]
                        /\ UNCHANGED group
    /\ UNCHANGED <<sess, gen, run, step, item, turn, lifecycleVars, pauseVars>>

-----------------------------------------------------------------------------
(***************************************************************************)
(* Resuming.                                                               *)
(***************************************************************************)
AllResolved(t) == \A a \in group[t].need : act[t][a].ra = "resolved"

\* The item of the response turn: on the paused turn's step and generation.
ResponseItem(t) ==
    [QueuedItem("pause_group_response", turn[t].sess, turn[t].step, turn[t].gen) EXCEPT !.linkT = t]

claimPauseGroupResume(w, t, i) ==
    /\ resumer[w].pc = "idle"
    /\ group[t].resume = "none"
    /\ group[t].state = "ready"
    /\ group[t].count = Cardinality(group[t].need)
    /\ AllResolved(t)
    /\ NextItem(i)
    /\ group' = [group EXCEPT ![t] = [@ EXCEPT !.state = "resuming", !.resume = "claimed"]]
    /\ item' = [item EXCEPT ![i] = ResponseItem(t)]
    /\ resumer' = [resumer EXCEPT ![w] = [NoResume EXCEPT !.pc = "loaded", !.turn = t]]
    /\ UNCHANGED <<sess, gen, run, step, turn, act, lifecycleVars, checked>>

\* already_resuming: the API goes on with the resume it finds.
loadPauseResumeForCreate(w, t) ==
    /\ resumer[w].pc = "idle"
    /\ group[t].resume # "none"
    /\ resumer' = [resumer EXCEPT ![w] = [NoResume EXCEPT !.pc = "loaded", !.turn = t]]
    /\ UNCHANGED <<tables, lifecycleVars, checked>>

\* Mutant: an attempt joins one that is already creating.
StartableTwice == {"claimed", "creating", "uncertain"}

Startable == {"claimed", "uncertain"}

\* The exclusion between attempts: a resume that is being created, or is done, is
\* left alone.
markPauseResumeCreating(w) ==
    LET t == resumer[w].turn IN
    /\ resumer[w].pc = "loaded"
    /\ \/ /\ group[t].resume \in Startable
          /\ group' = [group EXCEPT ![t].resume = "creating"]
          /\ resumer' = [resumer EXCEPT ![w].pc = "creating"]
       \/ /\ group[t].resume \notin Startable
          /\ resumer' = [resumer EXCEPT ![w] = NoResume]
          /\ UNCHANGED group
    /\ UNCHANGED <<sess, gen, run, step, item, turn, act, lifecycleVars, checked>>

\* The history is always read: an attempt that gets here knows no resume turn.
listResponseTurns(w) ==
    LET t == resumer[w].turn IN
    /\ resumer[w].pc = "creating"
    /\ \/ resumer' = [resumer EXCEPT ![w] = [@ EXCEPT !.pc = "read", !.found = prov[t].again]]
       \/ resumer' = [resumer EXCEPT ![w].pc = "failed"]
    /\ UNCHANGED <<tables, lifecycleVars, checked>>

\* What the history says: no turn of this resume, exactly one, or several to choose from.
decideCreateOrReconcileResponseTurn(found) ==
    CASE found = 0 -> "create" [] found = 1 -> "bind" [] OTHER -> "ambiguous"

createResponseTurn(w) ==
    LET t == resumer[w].turn
        d == decideCreateOrReconcileResponseTurn(resumer[w].found)
    IN
    /\ resumer[w].pc = "read"
    /\ \/ /\ d = "create" /\ prov[t].again < MaxMade
          /\ prov' = [prov EXCEPT ![t].again = @ + 1]
          /\ \E pc \in {"made", "failed"} : resumer' = [resumer EXCEPT ![w].pc = pc]
       \/ /\ d = "create" /\ LateEffects /\ prov[t].lateAgain < MaxMade
          /\ prov' = [prov EXCEPT ![t].lateAgain = @ + 1]
          /\ resumer' = [resumer EXCEPT ![w].pc = "failed"]
       \/ /\ d = "create"
          /\ resumer' = [resumer EXCEPT ![w].pc = "failed"] /\ UNCHANGED prov
       \/ /\ d = "bind"
          /\ resumer' = [resumer EXCEPT ![w].pc = "made"] /\ UNCHANGED prov
       \/ /\ d = "ambiguous"
          /\ resumer' = [resumer EXCEPT ![w].pc = "failed"] /\ UNCHANGED prov
    /\ UNCHANGED <<tables, call, checked>>

\* Mutant: a resume that is being created cannot be marked uncertain.
OpenButCreating == {"claimed", "uncertain"}

PauseResumeOpen == {"claimed", "creating", "uncertain"}

completePauseResume(w) ==
    LET t == resumer[w].turn IN
    /\ resumer[w].pc = "made"
    /\ \/ /\ group[t].resume \in PauseResumeOpen
          /\ group' = [group EXCEPT ![t].resume = "completed",
                          ![t].state = IF @ \in {"resuming", "uncertain"} THEN "resumed" ELSE @]
          /\ resumer' = [resumer EXCEPT ![w] = NoResume]
       \/ /\ group[t].resume \notin PauseResumeOpen
          /\ resumer' = [resumer EXCEPT ![w].pc = "failed"]
          /\ UNCHANGED group
    /\ UNCHANGED <<sess, gen, run, step, item, turn, act, lifecycleVars, checked>>

markPauseResumeUncertain(w) ==
    LET t == resumer[w].turn IN
    /\ resumer[w].pc = "failed"
    /\ group' = [group EXCEPT
                    ![t].resume = IF @ \in PauseResumeOpen THEN "uncertain" ELSE @,
                    ![t].state = IF @ \in {"resuming", "uncertain"} THEN "uncertain" ELSE @]
    /\ resumer' = [resumer EXCEPT ![w] = NoResume]
    /\ UNCHANGED <<sess, gen, run, step, item, turn, act, lifecycleVars, checked>>

ResumerCrash(w) ==
    /\ resumer[w].pc # "idle"
    /\ resumer' = [resumer EXCEPT ![w] = NoResume]
    /\ UNCHANGED <<tables, lifecycleVars, checked>>
=============================================================================
