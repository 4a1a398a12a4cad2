----------------------------- MODULE PauseProofs -----------------------------
(***************************************************************************)
(* Required actions: a group is resumed only when every action was granted *)
(* or answered, a withdrawn group is dead, a closed one stays closed, and  *)
(* a resume has one response item and, when no create request outlives its *)
(* caller, one response turn, for every value of the constants.            *)
(*                                                                         *)
(* The updates of the code look at less than they rely on: the one that    *)
(* counts a decision replaces the group's state whatever it is, and the    *)
(* resume compares a counter with a number.  GroupOK says what makes them  *)
(* right: an action is open exactly while it is pending, the counter       *)
(* counts the granted ones, and a group that is closed has none open.      *)
(***************************************************************************)
EXTENDS SessionRuntimeProofs, FiniteSetTheorems

Resuming == {"resuming", "resumed", "uncertain"}

\* The row g of a group and the rows A of its actions.
GroupOK(g, A) ==
    /\ g.state = "absent" => g.need = {} /\ g.count = 0
    /\ \A a \in Act : A[a].ra # "absent" <=> a \in g.need
    /\ \A a \in g.need : A[a].dec = "open" <=> A[a].ra = "pending"
    /\ \A a \in g.need : A[a].dec \in Granted => A[a].ra = "resolved"
    /\ g.count = Cardinality({a \in g.need : A[a].dec \in Granted})
    /\ g.resume # "none" <=> g.state \in Resuming
    /\ g.resume # "none" => \A a \in g.need : A[a].dec \in Granted
    /\ g.state \in {"cancelled", "stale"} => \A a \in g.need : A[a].dec # "open"

\* The inductive invariant of the groups; a resume attempt is about a claimed resume.
GroupInv ==
    /\ \A t \in TurnId : GroupOK(group[t], act[t])
    /\ \A w \in Worker : resumer[w].pc # "idle" => group[resumer[w].turn].resume # "none"

-----------------------------------------------------------------------------
(* How a group moves. *)

GroupCaptured(t) ==
    /\ t \in checked /\ group[t].state = "absent" /\ group'[t].state = "collecting"
    /\ group'[t].count = 0 /\ group'[t].resume = "none"
    /\ \A a \in Act : act'[t][a] = IF a \in group'[t].need THEN [ra |-> "pending", dec |-> "open"]
                                   ELSE NoActRow

\* Action a is decided, in a way that counts or not.
ActDecided(t, a) ==
    /\ Undecided(t, a)
    /\ act'[t][a].dec # "open" /\ act'[t][a].ra \notin {"absent", "pending"}
    /\ act[t][a].ra = "pending" /\ act'[t][a].dec \in Granted => act'[t][a].ra = "resolved"
    /\ \A b \in Act \ {a} : act'[t][b] = act[t][b]

GroupCounts(t) ==
    /\ group'[t].need = group[t].need /\ group'[t].resume = group[t].resume
    /\ group'[t].count = group[t].count + 1
    /\ group'[t].state \in {group[t].state, "ready"}

GroupDecided(t) ==
    \E a \in Act : /\ ActDecided(t, a)
                   /\ IF act'[t][a].dec \in Granted THEN GroupCounts(t) ELSE group'[t] = group[t]

\* A correction supersedes the pause, or a rotation makes it stale.
GroupWithdrawn(t) ==
    /\ group[t].state \in {"collecting", "ready"} /\ group'[t].state \in {"cancelled", "stale"}
    /\ group'[t].need = group[t].need /\ group'[t].count = group[t].count
    /\ group'[t].resume = group[t].resume
    /\ \A a \in Act :
          /\ IF act[t][a].ra = "pending" THEN act'[t][a].ra \in {"cancelled", "stale"}
             ELSE act'[t][a].ra = act[t][a].ra
          /\ act'[t][a].dec = IF act[t][a].ra # "absent" /\ act[t][a].dec = "open"
                              THEN "stale" ELSE act[t][a].dec

\* The resume is claimed, together with the insert of its response item.
GroupClaimed(t) ==
    /\ group[t].state = "ready" /\ group[t].resume = "none"
    /\ group[t].count = Cardinality(group[t].need)
    /\ group'[t].state = "resuming" /\ group'[t].resume = "claimed"
    /\ group'[t].need = group[t].need /\ group'[t].count = group[t].count
    /\ act'[t] = act[t]
    /\ \E i \in ItemId : /\ item'[i].state = "queued" /\ item'[i].type = "pause_group_response"
                         /\ item'[i].linkT = t

\* An attempt moves the resume on.
GroupResumes(t) ==
    /\ group[t].resume # "none" /\ group'[t].resume # "none"
    /\ group'[t].need = group[t].need /\ group'[t].count = group[t].count
    /\ act'[t] = act[t]
    /\ \/ group'[t].state = group[t].state
       \/ group[t].state \in {"resuming", "uncertain"} /\ group'[t].state \in {"resumed", "uncertain"}

GroupStays(t) == group'[t] = group[t] /\ act'[t] = act[t]

\* What a step other than a resume's does to a group, and what any step does.
GroupQuiet(t) == GroupStays(t) \/ GroupCaptured(t) \/ GroupDecided(t) \/ GroupWithdrawn(t)

GroupMove(t) == GroupQuiet(t) \/ GroupClaimed(t) \/ GroupResumes(t)

\* The tables hold groups and actions of their types.
LEMMA GroupTypes ==
    ASSUME RuntimeInv
    PROVE  group \in [TurnId -> GroupRow] /\ act \in [TurnId -> [Act -> ActRow]]
  BY DEF RuntimeInv, TypeInvariant, TypeOK

\* The claim of the correction a human asked for withdraws the pause it is about.
LEMMA SupersedeMoves ==
    ASSUME RuntimeInv, NEW w \in Worker, NEW i \in ItemId, NEW t \in TurnId, NEW u \in 0..MaxTurn,
           claimTurnQueueItem(w, i, t, u)
    PROVE  \A x \in TurnId : GroupQuiet(x)
  <1> SUFFICES ASSUME NEW x \in TurnId PROVE GroupQuiet(x)
    OBVIOUS
  <1>0. group[x] \in GroupRow /\ \A a \in Act : act[x][a] \in ActRow
    BY GroupTypes
  <1>1. CASE x # u
    BY <1>1 DEF claimTurnQueueItem, GroupQuiet, GroupStays
  <1>2. CASE x = u
    <2>1. group[x].state = "collecting"
      BY <1>2, BoundAssumption DEF claimTurnQueueItem, Supersedes, LinkedCorrection, TurnId
    <2>2. /\ group'[x] = [group[x] EXCEPT !.state = "cancelled"]
          /\ \A a \in Act : act'[x][a] = WithdrawActions(act[x][a])
      BY <1>2 DEF claimTurnQueueItem
    <2>3. /\ group'[x].state = "cancelled" /\ group'[x].need = group[x].need
          /\ group'[x].count = group[x].count /\ group'[x].resume = group[x].resume
      BY <1>0, <2>2 DEF GroupRow
    <2>4. ASSUME NEW a \in Act
          PROVE  /\ IF act[x][a].ra = "pending" THEN act'[x][a].ra \in {"cancelled", "stale"}
                    ELSE act'[x][a].ra = act[x][a].ra
                 /\ act'[x][a].dec = IF act[x][a].ra # "absent" /\ act[x][a].dec = "open"
                                     THEN "stale" ELSE act[x][a].dec
      <3>1. ASSUME NEW row \in ActRow
            PROVE  /\ WithdrawActions(row).ra = IF row.ra = "pending" THEN "cancelled" ELSE row.ra
                   /\ WithdrawActions(row).dec = IF row.dec = "open" /\ row.ra # "absent"
                                                 THEN "stale" ELSE row.dec
        BY DEF WithdrawActions, ActRow
      <3> QED BY <1>0, <2>2, <3>1
    <2> QED BY <2>1, <2>3, <2>4 DEF GroupQuiet, GroupWithdrawn
  <1> QED BY <1>1, <1>2

\* The capture of a pause.
LEMMA CaptureMoves ==
    ASSUME RuntimeInv, CaptureStep
    PROVE  \A x \in TurnId : GroupQuiet(x)
  <1>1. ASSUME UNCHANGED <<group, act>> PROVE \A x \in TurnId : GroupQuiet(x)
    BY <1>1 DEF GroupQuiet, GroupStays
  <1>2. ASSUME NEW t \in TurnId, NEW need \in SUBSET Act, persistPauseGroupCapture(t, need)
        PROVE  \A x \in TurnId : GroupQuiet(x)
    <2> DEFINE row == [NoGroup EXCEPT !.state = "collecting", !.need = need]
    <2>1. /\ t \in checked /\ group[t].state = "absent" /\ group'[t] = row
          /\ \A x \in TurnId \ {t} : group'[x] = group[x] /\ act'[x] = act[x]
      BY <1>2, GroupTypes DEF persistPauseGroupCapture
    <2>2. row.state = "collecting" /\ row.need = need /\ row.count = 0 /\ row.resume = "none"
      BY DEF NoGroup
    <2>3. \A a \in Act : act'[t][a] = IF a \in need THEN [ra |-> "pending", dec |-> "open"]
                                      ELSE NoActRow
      BY <1>2, GroupTypes DEF persistPauseGroupCapture
    <2> HIDE DEF row
    <2> QED BY <2>1, <2>2, <2>3 DEF GroupQuiet, GroupStays, GroupCaptured
  <1> QED BY <1>1, <1>2
          DEF CaptureStep, buildPauseGroupCapturePlan, captureTrueForgeRequiredActions,
              recapturePauseGroup, captureFails, tables

\* The decisions.
LEMMA DecisionMoves ==
    ASSUME RuntimeInv, GroupInv, DecisionStep
    PROVE  \A x \in TurnId : GroupQuiet(x)
  <1>0. ASSUME NEW t \in TurnId, NEW a \in Act, Undecided(t, a) PROVE act[t][a].ra = "pending"
    BY <1>0 DEF GroupInv, GroupOK, Undecided
  <1>1. ASSUME NEW t \in TurnId, NEW a \in Act, Undecided(t, a), NEW row,
               act' = [act EXCEPT ![t][a] = row], row.dec # "open",
               row.ra \notin {"absent", "pending"}, row.dec \in Granted => row.ra = "resolved"
        PROVE  ActDecided(t, a) /\ act'[t][a] = row /\ \A x \in TurnId \ {t} : act'[x] = act[x]
    BY <1>1, GroupTypes DEF ActDecided
  <1>2. ASSUME NEW row \in ActRow, NEW dec, row.ra = "pending"
        PROVE  /\ Resolve(row, dec).dec = dec /\ Resolve(row, dec).ra = "resolved"
               /\ Close(row, dec).dec = dec /\ Close(row, dec).ra = dec
    BY <1>2 DEF Resolve, Close, ActRow
  <1>3. ASSUME NEW t \in TurnId, CountResolved(t)
        PROVE  GroupCounts(t) /\ \A x \in TurnId \ {t} : group'[x] = group[x]
    <2>1. \A x \in TurnId \ {t} : group'[x] = group[x]
      BY <1>3, GroupTypes DEF CountResolved
    <2>2. /\ group'[t].need = group[t].need /\ group'[t].resume = group[t].resume
          /\ group'[t].count = group[t].count + 1
          /\ group'[t].state \in {group[t].state, "ready"}
      BY <1>3, GroupTypes DEF CountResolved, GroupRow
    <2> QED BY <2>1, <2>2 DEF GroupCounts
  <1>4. ASSUME NEW t \in TurnId, NEW a \in Act, Undecided(t, a), NEW dec \in Granted,
               act' = [act EXCEPT ![t][a] = Resolve(@, dec)], CountResolved(t)
        PROVE  \A x \in TurnId : GroupQuiet(x)
    <2>1. act[t][a] \in ActRow /\ act[t][a].ra = "pending"
      BY <1>0, <1>4, GroupTypes
    <2>2. dec # "open"
      BY DEF Granted
    <2> DEFINE row == Resolve(act[t][a], dec)
    <2>a. row.dec = dec /\ row.ra = "resolved"
      BY <1>2, <2>1
    <2>b. act' = [act EXCEPT ![t][a] = row]
      BY <1>4
    <2> HIDE DEF row
    <2>3. ActDecided(t, a) /\ act'[t][a] = row /\ \A x \in TurnId \ {t} : act'[x] = act[x]
      BY <1>1, <1>4, <2>2, <2>a, <2>b
    <2>4. act'[t][a].dec \in Granted
      BY <2>a, <2>3
    <2> QED BY <1>3, <1>4, <2>3, <2>4 DEF GroupQuiet, GroupStays, GroupDecided
  <1>5. ASSUME NEW t \in TurnId, NEW a \in Act, Undecided(t, a),
               NEW dec \in {"changes", "expired", "stale"},
               \/ act' = [act EXCEPT ![t][a] = Close(@, dec)] /\ dec # "changes"
               \/ act' = [act EXCEPT ![t][a] = Resolve(@, dec)],
               UNCHANGED group
        PROVE  \A x \in TurnId : GroupQuiet(x)
    <2>1. act[t][a] \in ActRow /\ act[t][a].ra = "pending"
      BY <1>0, <1>5, GroupTypes
    <2>2. dec # "open" /\ dec \notin Granted /\ dec \notin {"absent", "pending"}
      BY DEF Granted
    <2> DEFINE row == IF act' = [act EXCEPT ![t][a] = Resolve(@, dec)] THEN Resolve(act[t][a], dec)
                      ELSE Close(act[t][a], dec)
    <2>a. row.dec = dec /\ row.ra \notin {"absent", "pending"}
      BY <1>2, <2>1, <2>2
    <2>b. act' = [act EXCEPT ![t][a] = row]
      BY <1>5
    <2> HIDE DEF row
    <2>3. ActDecided(t, a) /\ act'[t][a].dec = dec /\ \A x \in TurnId \ {t} : act'[x] = act[x]
      BY ZenonT(60), <1>1, <1>5, <2>2, <2>a, <2>b
    <2> QED BY <1>5, <2>2, <2>3 DEF GroupQuiet, GroupStays, GroupDecided
  <1>6. ASSUME NEW t \in TurnId, NEW a \in Act, NEW dec \in {"allowed", "denied"},
               recordApprovalDecision(t, a, dec)
        PROVE  \A x \in TurnId : GroupQuiet(x)
    BY <1>4, <1>6 DEF recordApprovalDecision, Granted
  <1>7. ASSUME NEW t \in TurnId, NEW a \in Act, NEW dec \in {"answered", "stale"},
               recordQuestionAnswer(t, a, dec)
        PROVE  \A x \in TurnId : GroupQuiet(x)
    BY <1>4, <1>5, <1>7 DEF recordQuestionAnswer, Granted
  <1>8. ASSUME NEW t \in TurnId, NEW a \in Act, NEW mark \in {"expired", "stale"},
               evaluateGate(t, a, mark)
        PROVE  \A x \in TurnId : GroupQuiet(x)
    BY <1>5, <1>8 DEF evaluateGate
  <1>9. ASSUME NEW t \in TurnId, NEW a \in Act, NEW k \in StepId, NEW i \in ItemId,
               recordRequestChanges(t, a, k, i)
        PROVE  \A x \in TurnId : GroupQuiet(x)
    BY <1>5, <1>9 DEF recordRequestChanges
  <1> QED BY <1>6, <1>7, <1>8, <1>9 DEF DecisionStep

\* The resume.
LEMMA ResumeMoves ==
    ASSUME RuntimeInv, GroupInv, ResumeStep
    PROVE  \A x \in TurnId : GroupMove(x)
  <1> TypeOK /\ ReferencesResolve
    BY DEF RuntimeInv, TypeInvariant
  <1>0. UNCHANGED act
    BY DEF ResumeStep, claimPauseGroupResume, loadPauseResumeForCreate, ResumeAttemptStep,
           markPauseResumeCreating, listResponseTurns, createResponseTurn, completePauseResume,
           markPauseResumeUncertain, tables
  <1>1. ASSUME UNCHANGED group PROVE \A x \in TurnId : GroupMove(x)
    BY <1>0, <1>1 DEF GroupMove, GroupQuiet, GroupStays
  <1>2. ASSUME NEW w \in Worker, NEW t \in TurnId, NEW i \in ItemId, claimPauseGroupResume(w, t, i)
        PROVE  \A x \in TurnId : GroupMove(x)
    <2>1. /\ group[t].state = "ready" /\ group[t].resume = "none"
          /\ group[t].count = Cardinality(group[t].need)
      BY <1>2 DEF claimPauseGroupResume
    <2>2. /\ group'[t].state = "resuming" /\ group'[t].resume = "claimed"
          /\ group'[t].need = group[t].need /\ group'[t].count = group[t].count
          /\ \A x \in TurnId \ {t} : group'[x] = group[x]
      BY <1>2, GroupTypes DEF claimPauseGroupResume, GroupRow
    <2>3. item'[i] = ResponseItem(t)
      BY <1>2 DEF claimPauseGroupResume, TypeOK
    <2>4. /\ ResponseItem(t).state = "queued" /\ ResponseItem(t).type = "pause_group_response"
          /\ ResponseItem(t).linkT = t
      <3>1. /\ turn[t].sess \in Session /\ turn[t].step \in 0..MaxStep /\ turn[t].gen \in 0..MaxGen
            /\ "pause_group_response" \in InputType
        BY DEF TypeOK, TurnRow, InputType
      <3> QED BY <3>1, QueuedColumns DEF ResponseItem
    <2>5. GroupClaimed(t)
      BY <1>0, <2>1, <2>2, <2>3, <2>4 DEF GroupClaimed
    <2> QED BY <1>0, <2>2, <2>5 DEF GroupMove, GroupQuiet, GroupStays
  <1>3. ASSUME NEW t \in TurnId, group[t].resume # "none", NEW x, x # "none",
               group' = [group EXCEPT ![t].resume = x]
        PROVE  \A y \in TurnId : GroupMove(y)
    <2>1. /\ group'[t].state = group[t].state /\ group'[t].resume = x
          /\ group'[t].need = group[t].need /\ group'[t].count = group[t].count
          /\ \A y \in TurnId \ {t} : group'[y] = group[y]
      BY <1>3, GroupTypes DEF GroupRow
    <2> QED BY <1>0, <1>3, <2>1 DEF GroupMove, GroupQuiet, GroupStays, GroupResumes
  <1>4. ASSUME NEW t \in TurnId, group[t].resume # "none", NEW x, x # "none",
               NEW st \in {"resumed", "uncertain"},
               group' = [group EXCEPT ![t].resume = x,
                           ![t].state = IF @ \in {"resuming", "uncertain"} THEN st ELSE @]
        PROVE  \A y \in TurnId : GroupMove(y)
    <2>1. /\ group'[t].resume = x
          /\ group'[t].state = IF group[t].state \in {"resuming", "uncertain"} THEN st
                               ELSE group[t].state
          /\ group'[t].need = group[t].need /\ group'[t].count = group[t].count
          /\ \A y \in TurnId \ {t} : group'[y] = group[y]
      BY <1>4, GroupTypes DEF GroupRow
    <2> QED BY <1>0, <1>4, <2>1 DEF GroupMove, GroupQuiet, GroupStays, GroupResumes
  <1>5. ASSUME NEW w \in Worker, ResumeAttemptStep(w)
        PROVE  \A x \in TurnId : GroupMove(x)
    <2> DEFINE t == resumer[w].turn
    <2>1. t \in TurnId /\ group[t].resume # "none"
      <3>1. resumer[w].pc # "idle"
        BY <1>5 DEF ResumeAttemptStep, markPauseResumeCreating, listResponseTurns,
                    createResponseTurn, completePauseResume, markPauseResumeUncertain
      <3> QED BY <3>1 DEF ReferencesResolve, ProceduresHaveRows, GroupInv
    <2>2. CASE listResponseTurns(w) \/ createResponseTurn(w)
      BY <1>1, <2>2 DEF listResponseTurns, createResponseTurn, tables
    <2>3. CASE markPauseResumeCreating(w)
      BY <1>1, <1>3, <2>1, <2>3 DEF markPauseResumeCreating, Startable
    <2>4. CASE completePauseResume(w)
      BY <1>1, <1>4, <2>1, <2>4 DEF completePauseResume, PauseResumeOpen
    <2>5. CASE markPauseResumeUncertain(w)
      <3> DEFINE x == IF group[t].resume \in PauseResumeOpen THEN "uncertain" ELSE group[t].resume
      <3>1. x # "none"
        BY <2>1
      <3>2. group' = [group EXCEPT ![t].resume = x,
                        ![t].state = IF @ \in {"resuming", "uncertain"} THEN "uncertain" ELSE @]
        BY <2>5 DEF markPauseResumeUncertain
      <3> HIDE DEF x
      <3> QED BY <1>4, <2>1, <2>5, <3>1, <3>2
    <2> QED BY <1>5, <2>2, <2>3, <2>4, <2>5 DEF ResumeAttemptStep
  <1> QED BY <1>1, <1>2, <1>5 DEF ResumeStep, loadPauseResumeForCreate, tables

\* The swap of a restricting rotation makes the old generation's open pauses stale.  An
\* open proposal of a pause that is not open any more would become stale too, but
\* there is none.
LEMMA StaleMoves ==
    ASSUME RuntimeInv, GroupInv, NEW s \in Session, NEW g \in GenId,
           atomicSwapSessionGeneration(s, g)
    PROVE  \A x \in TurnId : GroupQuiet(x)
  <1> SUFFICES ASSUME NEW x \in TurnId PROVE GroupQuiet(x)
    OBVIOUS
  <1> DEFINE prev == rot[s].prev
             Hit == StaleGroup(x, s, prev)
  <1>0. /\ group[x] \in GroupRow /\ act[x] \in [Act -> ActRow] /\ \A a \in Act : act[x][a] \in ActRow
        /\ GroupOK(group[x], act[x])
    BY GroupTypes DEF GroupInv
  <1>1. CASE ~ rot[s].restrict
    BY <1>1 DEF atomicSwapSessionGeneration, GroupQuiet, GroupStays
  <1>2. CASE rot[s].restrict
    <2>1. /\ group'[x] = IF Hit THEN [group[x] EXCEPT !.state = "stale"] ELSE group[x]
          /\ act'[x] = [a \in Act |->
                LET row == act[x][a] IN
                [ra  |-> IF Hit /\ row.ra = "pending" THEN "stale" ELSE row.ra,
                 dec |-> IF /\ row.ra # "absent" /\ row.dec = "open"
                            /\ turn[x].sess = s /\ turn[x].gen = prev
                            /\ (a \in Approval \/ Hit)
                         THEN "stale" ELSE row.dec]]
      BY <1>2 DEF atomicSwapSessionGeneration, StaleGroups, StaleActs
    <2>2. CASE Hit
      <3>1. /\ group[x].state \in {"collecting", "ready"}
            /\ turn[x].sess = s /\ turn[x].gen = prev
        BY <2>2 DEF StaleGroup
      <3>2. /\ group'[x].state = "stale" /\ group'[x].need = group[x].need
            /\ group'[x].count = group[x].count /\ group'[x].resume = group[x].resume
        BY <1>0, <2>1, <2>2 DEF GroupRow
      <3>3. \A a \in Act : /\ act'[x][a].ra = IF act[x][a].ra = "pending" THEN "stale"
                                              ELSE act[x][a].ra
                           /\ act'[x][a].dec = IF act[x][a].ra # "absent" /\ act[x][a].dec = "open"
                                               THEN "stale" ELSE act[x][a].dec
        BY <2>1, <2>2, <3>1
      <3> QED BY <3>1, <3>2, <3>3 DEF GroupQuiet, GroupWithdrawn
    <2>3. CASE ~ Hit
      <3>1. ASSUME NEW a \in Act, act[x][a].ra # "absent", act[x][a].dec = "open",
                   turn[x].sess = s, turn[x].gen = prev
            PROVE  FALSE
        <4>1. a \in group[x].need /\ group[x].state # "absent"
          BY <1>0, <3>1 DEF GroupOK
        <4>2. group[x].state \notin {"collecting", "ready"}
          BY <2>3, <3>1 DEF StaleGroup
        <4>3. group[x].state \in {"cancelled", "stale"} \cup Resuming
          BY <1>0, <4>1, <4>2 DEF GroupRow, Resuming
        <4> QED BY <1>0, <3>1, <4>1, <4>3 DEF GroupOK, Granted
      <3>2. ASSUME NEW a \in Act PROVE act'[x][a] = act[x][a]
        <4>1. act'[x][a] = [ra |-> act[x][a].ra, dec |-> act[x][a].dec]
          BY <2>1, <2>3, <3>1
        <4> QED BY <1>0, <4>1 DEF ActRow
      <3>3. act'[x] = act[x]
        BY <1>0, <2>1, <3>2
      <3> QED BY <2>1, <2>3, <3>3 DEF GroupQuiet, GroupStays
    <2> QED BY <2>2, <2>3
  <1> QED BY <1>1, <1>2

\* Every step moves every group in one of these ways.
LEMMA GroupMoves ==
    ASSUME RuntimeInv, GroupInv, [Next]_vars
    PROVE  /\ \A x \in TurnId : GroupMove(x)
           /\ ~ ResumeStep => \A x \in TurnId : GroupQuiet(x)
  <1> SUFFICES ASSUME ~ ResumeStep PROVE \A x \in TurnId : GroupQuiet(x)
    BY ResumeMoves DEF GroupMove
  <1>0. ASSUME UNCHANGED <<group, act>> PROVE \A x \in TurnId : GroupQuiet(x)
    BY <1>0 DEF GroupQuiet, GroupStays
  <1>1. CASE QueueStep \/ ApiStep
    <2>1. ASSUME NEW r \in RunId, NEW T \in SUBSET Session, NEW f \in [T -> StepId],
                 NEW q \in [T -> ItemId], createDirectMultiAgentRun(r, T, f, q)
          PROVE  UNCHANGED <<group, act>>
      BY <2>1 DEF createDirectMultiAgentRun
    <2> QED BY <1>0, <1>1, <2>1, SupersedeMoves DEF QueueStep, ApiStep, claimForBind
  <1>2. CASE LeaseStep
    BY <1>0, <1>2 DEF LeaseStep, LeaseExpires, heartbeatTurnQueueLease, reclaimExpiredTurnQueueLease
  <1>3. CASE LifecycleStep
    <2>1. ASSUME NEW w \in Worker, AttemptStep(w) \/ CommandStep(w) PROVE UNCHANGED <<group, act>>
      BY <2>1 DEF AttemptStep, CommandStep, lockClaimedTurn, listTurns, failClosed, createTurn,
                  bindCreated, bindReconciled, StreamTurn, markAgentTurnUncertain,
                  markRunStepFailed, refreshRunLifecycleForStep, executeCreateOrReconcileTurn,
                  tables
    <2>2. EventStep => UNCHANGED <<group, act>>
      BY DEF EventStep, ingestNormalizedTrueForgeEvent
    <2>3. ASSUME NEW t \in TurnId, lateCreate(t) \/ lateResponse(t) PROVE UNCHANGED <<group, act>>
      BY <2>3 DEF lateCreate, lateResponse, tables
    <2> QED BY <1>0, <1>3, <2>1, <2>2, <2>3 DEF LifecycleStep
  <1>4. CASE CaptureStep
    BY <1>4, CaptureMoves
  <1>5. CASE DecisionStep
    BY <1>5, DecisionMoves
  <1>7. CASE CrashStep \/ StopStep \/ CorrectionStep \/ RestartStep
    BY <1>0, <1>7 DEF CrashStep, Crash, ResumerCrash, StopStep, CorrectionStep, RestartStep,
                      requestRunStepStop, settleCancelledStep, insertCorrectionStep,
                      enqueueCorrectionForStep, markActiveTurnsNeedsAttentionOnRestart, tables
  <1>8. CASE RotationStep \/ RotationFailureStep
    BY <1>0, <1>8, StaleMoves
    DEF RotationStep, RotationFailureStep, beginSessionRotation, stopActiveTurn,
        completeSessionRotation, rotationThrows, abortSessionRotation, RotationCrash, tables
  <1>9. CASE UNCHANGED vars
    BY <1>0, <1>9 DEF vars, tables
  <1> QED BY <1>1, <1>2, <1>3, <1>4, <1>5, <1>7, <1>8, <1>9 DEF Next

-----------------------------------------------------------------------------
(* The groups' invariant. *)

\* Finitely many actions are granted.
LEMMA GrantedFinite ==
    ASSUME NEW need \in SUBSET Act, NEW A
    PROVE  /\ IsFiniteSet(need)
           /\ IsFiniteSet({a \in need : A[a].dec \in Granted})
           /\ Cardinality({a \in need : A[a].dec \in Granted}) = Cardinality(need)
              => \A a \in need : A[a].dec \in Granted
  <1>1. IsFiniteSet(need)
    BY ActAssumption, FS_Subset
  <1> DEFINE G == {a \in need : A[a].dec \in Granted}
  <1>2. G \in SUBSET need
    OBVIOUS
  <1>3. IsFiniteSet(G) /\ (Cardinality(need) = Cardinality(G) => need = G)
    BY <1>1, <1>2, FS_Subset
  <1> QED BY <1>1, <1>3

\* Every move keeps the rows of a group in order.
LEMMA MoveKeepsGroup ==
    ASSUME RuntimeInv, RuntimeInv', NEW t \in TurnId, GroupOK(group[t], act[t]), GroupMove(t)
    PROVE  GroupOK(group'[t], act'[t])
  <1> DEFINE g == group[t]
             A == act[t]
             h == group'[t]
             B == act'[t]
  <1>0. /\ g \in GroupRow /\ h \in GroupRow
        /\ A \in [Act -> ActRow] /\ B \in [Act -> ActRow]
        /\ g.need \in SUBSET Act /\ h.need \in SUBSET Act /\ g.count \in Nat
    BY DEF RuntimeInv, TypeInvariant, TypeOK, GroupRow
  <1>1. CASE GroupStays(t)
    BY <1>1 DEF GroupStays
  <1>2. CASE GroupCaptured(t)
    <2>1. /\ h.state = "collecting" /\ h.count = 0 /\ h.resume = "none"
          /\ \A a \in Act : B[a] = IF a \in h.need THEN [ra |-> "pending", dec |-> "open"]
                                   ELSE NoActRow
      BY <1>2 DEF GroupCaptured
    <2>2. \A a \in h.need : B[a].ra = "pending" /\ B[a].dec = "open"
      BY <1>0, <2>1
    <2>3. \A a \in Act \ h.need : B[a].ra = "absent"
      BY <2>1 DEF NoActRow
    <2>4. {a \in h.need : B[a].dec \in Granted} = {}
      BY <2>2 DEF Granted
    <2>5. h.count = Cardinality({a \in h.need : B[a].dec \in Granted})
      BY <2>1, <2>4, FS_EmptySet
    <2> HIDE DEF g, A, h, B
    <2>6. GroupOK(h, B)
      BY <1>0, <2>1, <2>2, <2>3, <2>5 DEF GroupOK, Resuming, Granted
    <2> QED BY <2>6 DEF h, B
  <1>3. CASE GroupDecided(t)
    <2> PICK a \in Act : /\ ActDecided(t, a)
                         /\ IF B[a].dec \in Granted THEN GroupCounts(t) ELSE h = g
      BY <1>3 DEF GroupDecided
    <2>1. /\ a \in g.need /\ A[a].dec = "open" /\ A[a].ra = "pending"
          /\ g.resume = "none" /\ g.state \in {"collecting", "ready"}
      BY <1>0 DEF ActDecided, Undecided, GroupOK, GroupRow, Resuming, Granted
    <2>2. /\ B[a].dec # "open" /\ B[a].ra \notin {"absent", "pending"}
          /\ B[a].dec \in Granted => B[a].ra = "resolved"
          /\ \A b \in Act \ {a} : B[b] = A[b]
      BY <2>1 DEF ActDecided
    <2>3. h.need = g.need /\ h.resume = "none" /\ h.state \in {"collecting", "ready"}
      BY <2>1 DEF GroupCounts
    <2>4. h.count = Cardinality({b \in h.need : B[b].dec \in Granted})
      <3> DEFINE G == {b \in g.need : A[b].dec \in Granted}
      <3>1. g.count = Cardinality(G) /\ IsFiniteSet(G) /\ a \notin G
        BY <1>0, <2>1, GrantedFinite DEF GroupOK, Granted
      <3>2. CASE B[a].dec \in Granted
        <4>1. {b \in h.need : B[b].dec \in Granted} = G \cup {a}
          BY <1>0, <2>1, <2>2, <2>3, <3>2
        <4>2. h.count = g.count + 1
          BY <3>2 DEF GroupCounts
        <4> QED BY <3>1, <4>1, <4>2, FS_AddElement
      <3>3. CASE B[a].dec \notin Granted
        <4>1. {b \in h.need : B[b].dec \in Granted} = G
          BY <1>0, <2>1, <2>2, <2>3, <3>1, <3>3
        <4> QED BY <3>1, <3>3, <4>1
      <3> QED BY <3>2, <3>3
    <2>5. /\ \A b \in Act : B[b].ra # "absent" <=> b \in g.need
          /\ \A b \in g.need : B[b].dec = "open" <=> B[b].ra = "pending"
          /\ \A b \in g.need : B[b].dec \in Granted => B[b].ra = "resolved"
      BY <1>0, <2>1, <2>2 DEF GroupOK
    <2> HIDE DEF g, A, h, B
    <2>6. GroupOK(h, B)
      BY <2>3, <2>4, <2>5 DEF GroupOK, Resuming
    <2> QED BY <2>6 DEF h, B
  <1>4. CASE GroupWithdrawn(t)
    <2>1. /\ g.state \in {"collecting", "ready"} /\ h.state \in {"cancelled", "stale"}
          /\ h.need = g.need /\ h.count = g.count /\ h.resume = g.resume
          /\ \A a \in Act :
                /\ IF A[a].ra = "pending" THEN B[a].ra \in {"cancelled", "stale"}
                   ELSE B[a].ra = A[a].ra
                /\ B[a].dec = IF A[a].ra # "absent" /\ A[a].dec = "open" THEN "stale" ELSE A[a].dec
      BY <1>4 DEF GroupWithdrawn
    <2>2. {a \in h.need : B[a].dec \in Granted} = {a \in g.need : A[a].dec \in Granted}
      BY <1>0, <2>1 DEF Granted
    <2>3. /\ \A b \in Act : B[b].ra # "absent" <=> b \in h.need
          /\ \A b \in h.need : B[b].dec # "open" /\ B[b].ra # "pending"
          /\ \A b \in h.need : B[b].dec \in Granted => B[b].ra = "resolved"
      BY <1>0, <2>1 DEF GroupOK, Granted
    <2>4. h.resume = "none" /\ h.count = Cardinality({a \in h.need : B[a].dec \in Granted})
      BY <2>1, <2>2 DEF GroupOK, Resuming
    <2> HIDE DEF g, A, h, B
    <2>5. GroupOK(h, B)
      BY <2>1, <2>3, <2>4 DEF GroupOK, Resuming
    <2> QED BY <2>5 DEF h, B
  <1>5. CASE GroupClaimed(t)
    <2>1. /\ g.count = Cardinality(g.need) /\ h.state = "resuming" /\ h.resume = "claimed"
          /\ h.need = g.need /\ h.count = g.count /\ B = A
      BY <1>5 DEF GroupClaimed
    <2>2. \A a \in g.need : A[a].dec \in Granted
      BY <1>0, <2>1, GrantedFinite DEF GroupOK
    <2> HIDE DEF g, A, h, B
    <2>3. GroupOK(h, B)
      BY <2>1, <2>2 DEF GroupOK, Resuming, g, A
    <2> QED BY <2>3 DEF h, B
  <1>6. CASE GroupResumes(t)
    <2>1. /\ g.resume # "none" /\ h.resume # "none" /\ h.need = g.need /\ h.count = g.count /\ B = A
          /\ g.state \in Resuming => h.state \in Resuming
      BY <1>6 DEF GroupResumes, Resuming
    <2> HIDE DEF g, A, h, B
    <2>2. GroupOK(h, B)
      BY <2>1 DEF GroupOK, Resuming, g, A
    <2> QED BY <2>2 DEF h, B
  <1> QED BY <1>1, <1>2, <1>3, <1>4, <1>5, <1>6 DEF GroupMove, GroupQuiet

\* A resume is never forgotten.
LEMMA ResumesStay ==
    ASSUME NEW t \in TurnId, GroupOK(group[t], act[t]), GroupMove(t)
    PROVE  /\ group[t].resume # "none" => group'[t].resume # "none"
           /\ GroupQuiet(t) => group'[t].resume = group[t].resume
  <1>1. group[t].state = "absent" => group[t].resume = "none"
    BY DEF GroupOK, Resuming
  <1> QED BY <1>1 DEF GroupMove, GroupQuiet, GroupStays, GroupCaptured, GroupDecided, GroupCounts,
                      GroupWithdrawn, GroupClaimed, GroupResumes

\* How a resume attempt moves, by w in a step of its own: it stops, or starts on a claimed
\* resume, or goes on.
ResumerMove(w) ==
    \/ resumer'[w] = resumer[w]
    \/ resumer'[w].pc = "idle"
    \/ /\ resumer'[w].pc = "loaded" /\ resumer'[w].turn \in TurnId
       /\ group'[resumer'[w].turn].resume # "none"
    \/ resumer[w].pc # "idle" /\ resumer'[w].turn = resumer[w].turn

\* Which steps a turn's provider, the create and resume attempts and the pending captures
\* can change in.
LEMMA AttemptsFrame ==
    ASSUME [Next]_vars
    PROVE  /\ ~ ResumeStep /\ ~ CrashStep => UNCHANGED resumer
           /\ ~ ResumeStep /\ ~ LifecycleStep => UNCHANGED prov
           /\ ~ LifecycleStep /\ ~ ApiStep /\ ~ CrashStep => UNCHANGED call
           /\ ~ CaptureStep => UNCHANGED checked
  <1>1. CASE QueueStep \/ LeaseStep \/ UNCHANGED vars
    BY <1>1 DEF QueueStep, LeaseStep, beyondTables, lifecycleVars, pauseVars, vars
  <1>2. CASE LifecycleStep
    BY <1>2 DEF LifecycleStep, pauseVars
  <1>3. CASE ApiStep
    BY <1>3 DEF ApiStep, claimForBind, pauseVars
  <1>4. CASE CrashStep
    BY <1>4 DEF CrashStep, Crash, ResumerCrash, lifecycleVars, pauseVars
  <1>5. CASE CaptureStep
    BY <1>5 DEF CaptureStep, captureTrueForgeRequiredActions, persistPauseGroupCapture,
                recapturePauseGroup, captureFails, lifecycleVars
  <1>6. CASE DecisionStep
    <2>1. ASSUME NEW t \in TurnId, NEW a \in Act, NEW mark, evaluateGate(t, a, mark)
          PROVE  UNCHANGED <<lifecycleVars, pauseVars>>
      BY <2>1 DEF evaluateGate
    <2>2. ASSUME NEW t \in TurnId, NEW a \in Act, NEW dec,
                 recordApprovalDecision(t, a, dec) \/ recordQuestionAnswer(t, a, dec)
          PROVE  UNCHANGED <<lifecycleVars, pauseVars>>
      BY <2>2 DEF recordApprovalDecision, recordQuestionAnswer
    <2>3. ASSUME NEW t \in TurnId, NEW a \in Act, NEW k, NEW i, recordRequestChanges(t, a, k, i)
          PROVE  UNCHANGED <<lifecycleVars, pauseVars>>
      BY <2>3 DEF recordRequestChanges
    <2>4. UNCHANGED <<lifecycleVars, pauseVars>>
      BY <1>6, <2>1, <2>2, <2>3 DEF DecisionStep
    <2> QED BY <2>4 DEF lifecycleVars, pauseVars
  <1>7. CASE ResumeStep
    BY <1>7 DEF ResumeStep, ResumeAttemptStep, claimPauseGroupResume, loadPauseResumeForCreate,
                markPauseResumeCreating, listResponseTurns, createResponseTurn,
                completePauseResume, markPauseResumeUncertain, lifecycleVars
  <1>8. CASE StopStep \/ CorrectionStep \/ RestartStep
    BY <1>8 DEF StopStep, CorrectionStep, RestartStep, requestRunStepStop, settleCancelledStep,
                insertCorrectionStep, enqueueCorrectionForStep,
                markActiveTurnsNeedsAttentionOnRestart, lifecycleVars, pauseVars
  <1>9. CASE RotationStep
    BY <1>9 DEF RotationStep, beginSessionRotation, stopActiveTurn, atomicSwapSessionGeneration,
                completeSessionRotation, otherVars, lifecycleVars, pauseVars
  <1>10. CASE RotationFailureStep
    BY <1>10 DEF RotationFailureStep, rotationThrows, abortSessionRotation, RotationCrash,
                 otherVars, lifecycleVars, pauseVars
  <1> QED BY <1>1, <1>2, <1>3, <1>4, <1>5, <1>6, <1>7, <1>8, <1>9, <1>10 DEF Next

\* Every step moves every resume attempt in one of these ways.
LEMMA ResumerMoves ==
    ASSUME RuntimeInv, GroupInv, [Next]_vars
    PROVE  \A v \in Worker : ResumerMove(v)
  <1> PauseTypeOK
    BY DEF RuntimeInv, TypeInvariant
  <1>0. resumer \in [Worker -> ResumeAttempt]
    BY DEF PauseTypeOK
  <1>1. ASSUME NEW w \in Worker, NEW row, resumer' = [resumer EXCEPT ![w] = row], ResumerMove(w)
        PROVE  \A v \in Worker : ResumerMove(v)
    BY <1>0, <1>1 DEF ResumerMove
  <1>2. ASSUME UNCHANGED resumer PROVE \A v \in Worker : ResumerMove(v)
    BY <1>2 DEF ResumerMove
  <1>3. ASSUME NEW w \in Worker, resumer' = [resumer EXCEPT ![w] = NoResume]
        PROVE  \A v \in Worker : ResumerMove(v)
    BY <1>0, <1>3 DEF ResumerMove, NoResume
  <1>4. ASSUME NEW w \in Worker, NEW x, resumer[w].pc # "idle", resumer' = [resumer EXCEPT ![w].pc = x]
        PROVE  \A v \in Worker : ResumerMove(v)
    BY <1>0, <1>4 DEF ResumerMove, ResumeAttempt
  <1>5. ASSUME NEW w \in Worker, NEW n, resumer[w].pc # "idle",
               resumer' = [resumer EXCEPT ![w] = [@ EXCEPT !.pc = "read", !.found = n]]
        PROVE  \A v \in Worker : ResumerMove(v)
    BY <1>0, <1>5 DEF ResumerMove, ResumeAttempt
  <1>6. ASSUME NEW w \in Worker, NEW t \in TurnId, group'[t].resume # "none",
               resumer' = [resumer EXCEPT ![w] = [NoResume EXCEPT !.pc = "loaded", !.turn = t]]
        PROVE  \A v \in Worker : ResumerMove(v)
    BY <1>0, <1>6 DEF ResumerMove, NoResume
  <1>7. CASE ResumeStep
    <2> PICK w \in Worker :
            \/ \E t \in TurnId, i \in ItemId : claimPauseGroupResume(w, t, i)
            \/ \E t \in TurnId : loadPauseResumeForCreate(w, t)
            \/ ResumeAttemptStep(w)
      BY <1>7 DEF ResumeStep
    <2>1. ASSUME NEW t \in TurnId, NEW i \in ItemId, claimPauseGroupResume(w, t, i)
          PROVE  \A v \in Worker : ResumerMove(v)
      <3>1. group'[t].resume = "claimed"
        BY <2>1, GroupTypes DEF claimPauseGroupResume, GroupRow
      <3> QED BY <1>6, <2>1, <3>1 DEF claimPauseGroupResume
    <2>2. ASSUME NEW t \in TurnId, loadPauseResumeForCreate(w, t)
          PROVE  \A v \in Worker : ResumerMove(v)
      BY <1>6, <2>2 DEF loadPauseResumeForCreate, tables
    <2>3. CASE markPauseResumeCreating(w)
      BY <1>3, <1>4, <2>3 DEF markPauseResumeCreating
    <2>4. CASE listResponseTurns(w)
      BY <1>4, <1>5, <2>4 DEF listResponseTurns
    <2>5. CASE createResponseTurn(w)
      BY <1>4, <2>5 DEF createResponseTurn
    <2>6. CASE completePauseResume(w) \/ markPauseResumeUncertain(w)
      BY <1>3, <1>4, <2>6 DEF completePauseResume, markPauseResumeUncertain
    <2> QED BY <2>1, <2>2, <2>3, <2>4, <2>5, <2>6 DEF ResumeAttemptStep
  <1>8. CASE CrashStep
    BY <1>2, <1>3, <1>8 DEF CrashStep, Crash, ResumerCrash, pauseVars
  <1>9. CASE ~ ResumeStep /\ ~ CrashStep
    <2>1. UNCHANGED resumer
      BY <1>9, AttemptsFrame
    <2> QED BY <1>2, <2>1
  <1> QED BY <1>7, <1>8, <1>9

\* The groups' invariant holds at first, and every step keeps it.
LEMMA GroupInductive ==
    /\ Init => GroupInv
    /\ RuntimeInv /\ GroupInv /\ [Next]_vars => GroupInv'
  <1>1. ASSUME Init PROVE GroupInv
    <2>1. /\ group = [t \in TurnId |-> NoGroup]
          /\ act = [t \in TurnId |-> [a \in Act |-> NoActRow]]
          /\ resumer = [w \in Worker |-> NoResume]
      BY <1>1 DEF Init, TablesInit, PauseInit
    <2>2. {a \in {} : [b \in Act |-> NoActRow][a].dec \in Granted} = {}
      OBVIOUS
    <2>3. GroupOK(NoGroup, [a \in Act |-> NoActRow])
      BY <2>2, FS_EmptySet DEF GroupOK, NoGroup, NoActRow, Resuming
    <2> QED BY <2>1, <2>3 DEF GroupInv, NoResume
  <1>2. ASSUME RuntimeInv, GroupInv, [Next]_vars PROVE GroupInv'
    <2>1. RuntimeInv' /\ \A t \in TurnId : GroupOK(group[t], act[t]) /\ GroupMove(t)
      BY <1>2, NextInv, GroupMoves DEF GroupInv
    <2>2. \A t \in TurnId : GroupOK(group'[t], act'[t])
      BY <1>2, <2>1, MoveKeepsGroup
    <2>3. ASSUME NEW w \in Worker, resumer'[w].pc # "idle"
          PROVE  group'[resumer'[w].turn].resume # "none"
      <3>1. ResumerMove(w)
        BY <1>2, ResumerMoves
      <3>2. resumer[w].pc # "idle" => /\ resumer[w].turn \in TurnId
                                      /\ group[resumer[w].turn].resume # "none"
        BY <1>2 DEF GroupInv, RuntimeInv, ReferencesResolve, ProceduresHaveRows
      <3>3. resumer[w].pc # "idle" => group'[resumer[w].turn].resume # "none"
        BY <2>1, <3>2, ResumesStay
      <3> QED BY <2>3, <3>1, <3>3 DEF ResumerMove
    <2> QED BY <2>2, <2>3 DEF GroupInv
  <1> QED BY <1>1, <1>2

\* So it holds always.
LEMMA SpecGroups == Spec => [](RuntimeInv /\ GroupInv)
  BY GroupInductive, InitInv, NextInv, PTL DEF Spec

\* A resume is claimed only when every required action was allowed, denied or
\* answered; the counter that decides it counts exactly those, never one that expired,
\* went stale or asked for changes.
THEOREM ResumedWhenGranted == Spec => []ResumeOnlyWhenGranted
  <1>1. RuntimeInv /\ GroupInv => ResumeOnlyWhenGranted
    BY DEF GroupInv, GroupOK, ResumeOnlyWhenGranted, CountIsGranted
  <1> QED BY <1>1, SpecGroups, PTL

\* A group that a correction superseded or a rotation made stale has nothing left to
\* decide and is never resumed.
THEOREM WithdrawnIsDead == Spec => []WithdrawnGroupsAreDead
  <1>1. RuntimeInv /\ GroupInv => WithdrawnGroupsAreDead
    BY DEF GroupInv, GroupOK, Resuming, WithdrawnGroupsAreDead
  <1> QED BY <1>1, SpecGroups, PTL

\* A group that is resumed, superseded or stale never opens again, although the update
\* that counts a decision does not look at the state it replaces: no decision is left
\* to count.
THEOREM ClosedStaysClosed == Spec => ClosedGroupsStayClosed
  <1> DEFINE Stays == \A t \in TurnId : group[t].state \in {"resumed", "cancelled", "stale"}
                                        => group'[t].state = group[t].state
  <1>1. RuntimeInv /\ GroupInv /\ [Next]_vars => [Stays]_vars
    <2> SUFFICES ASSUME RuntimeInv, GroupInv, [Next]_vars, NEW t \in TurnId,
                        group[t].state \in {"resumed", "cancelled", "stale"}
                 PROVE  group'[t].state = group[t].state
      OBVIOUS
    <2>1. GroupOK(group[t], act[t]) /\ GroupMove(t)
      BY GroupMoves DEF GroupInv
    <2>2. ~ GroupDecided(t)
      BY <2>1 DEF GroupDecided, ActDecided, Undecided, GroupOK, Resuming, Granted
    <2> QED BY <2>1, <2>2 DEF GroupMove, GroupQuiet, GroupStays, GroupCaptured, GroupWithdrawn,
                              GroupClaimed, GroupResumes
  <1>2. Spec => [][Stays]_vars
    BY <1>1, SpecGroups, PTL DEF Spec
  <1> QED BY <1>2 DEF ClosedGroupsStayClosed

-----------------------------------------------------------------------------
(* The response item of a resume. *)

\* Item i is the response item of the pause of turn t.
Responds(i, t) ==
    item[i].state # "absent" /\ item[i].type = "pause_group_response" /\ item[i].linkT = t

\* A response item is one of a claimed resume, on the generation of its turn; a resume
\* has one, and no two.
ResponseInv ==
    /\ \A i \in ItemId, t \in 0..MaxTurn : Responds(i, t) =>
          t \in TurnId /\ group[t].resume # "none" /\ item[i].bound = turn[t].gen
    /\ \A i, j \in ItemId, t \in TurnId : Responds(i, t) /\ Responds(j, t) => i = j
    /\ \A t \in TurnId : group[t].resume # "none" => \E i \in ItemId : Responds(i, t)

\* An item is inserted once, keeps the columns of its insert, and is never deleted; only
\* messages and corrections change the generation they are bound to.
LEMMA ItemsStay ==
    ASSUME RuntimeInv, [Next]_vars, NEW i \in ItemId
    PROVE  /\ item[i].state # "absent" => ItemColumns(i) /\ item'[i].state # "absent"
           /\ item[i].state # "absent" /\ item[i].type = "pause_group_response"
              => item'[i].bound = item[i].bound
           /\ item[i].state = "absent" /\ item'[i].state # "absent" => ItemInserted(i)
  <1>1. ItemMove(i)
    BY ItemMoves
  <1>2. ItemSettled(i) => item[i].state # "absent"
    BY DEF ItemSettled, RuntimeInv, ReferencesResolve, TurnsHaveItems
  <1> QED BY <1>1, <1>2 DEF ItemMove, ItemStays, ItemInserted, ItemClaimed, ItemReturned, ItemSettled,
                            ItemRebound, IsHead

\* The response items' invariant holds at first, and every step keeps it.
LEMMA ResponseInductive ==
    /\ Init => ResponseInv
    /\ RuntimeInv /\ GroupInv /\ ResponseInv /\ [Next]_vars => ResponseInv'
  <1>1. ASSUME Init PROVE ResponseInv
    BY <1>1 DEF Init, TablesInit, ResponseInv, Responds, NoItem, NoGroup
  <1>2. ASSUME RuntimeInv, GroupInv, ResponseInv, [Next]_vars PROVE ResponseInv'
    <2>1. ASSUME NEW t \in TurnId
          PROVE  /\ group[t].resume # "none" => group'[t].resume # "none"
                 /\ group[t].resume # "none" => turn'[t].gen = turn[t].gen
                 /\ group[t].resume = "none" /\ group'[t].resume # "none" => GroupClaimed(t)
      <3>1. GroupOK(group[t], act[t]) /\ GroupMove(t)
        BY <1>2, GroupMoves DEF GroupInv
      <3>2. group[t].resume # "none" => turn[t].state # "absent"
        BY <1>2, <3>1 DEF GroupOK, Resuming, RuntimeInv, ReferencesResolve, PausesHaveTurns
      <3>3. group[t].resume # "none" => turn'[t].gen = turn[t].gen
        BY <1>2, <3>2, TurnsStay DEF TurnColumns
      <3>4. group[t].resume = "none" /\ GroupQuiet(t) => group'[t].resume = "none"
        BY <3>1, ResumesStay
      <3>5. group[t].resume = "none" /\ group'[t].resume # "none" => GroupClaimed(t)
        BY <3>1, <3>4 DEF GroupMove, GroupResumes
      <3> QED BY <3>1, <3>3, <3>5, ResumesStay
    <2>2. ASSUME NEW i \in ItemId, NEW t \in 0..MaxTurn, Responds(i, t)'
          PROVE  \/ Responds(i, t) /\ item'[i].bound = item[i].bound
                 \/ /\ t \in TurnId /\ group[t].resume = "none" /\ group'[t].resume # "none"
                    /\ item'[i].bound = turn'[t].gen
                    /\ \A j \in ItemId \ {i} : item'[j] = item[j]
      <3>1. CASE item[i].state # "absent"
        BY <1>2, <2>2, <3>1, ItemsStay DEF Responds, ItemColumns
      <3>2. CASE item[i].state = "absent"
        <4>1. ItemInserted(i)
          BY <1>2, <2>2, <3>2, ItemsStay DEF Responds
        <4> QED BY <2>2, <4>1 DEF ItemInserted, Responds
      <3> QED BY <3>1, <3>2
    <2>3. ASSUME NEW i \in ItemId, NEW t \in 0..MaxTurn, Responds(i, t)'
          PROVE  t \in TurnId /\ group'[t].resume # "none" /\ item'[i].bound = turn'[t].gen
      <3>1. CASE Responds(i, t) /\ item'[i].bound = item[i].bound
        BY <1>2, <2>1, <3>1 DEF ResponseInv
      <3> QED BY <2>2, <2>3, <3>1
    <2>4. ASSUME NEW i \in ItemId, NEW j \in ItemId, NEW t \in TurnId,
                 Responds(i, t)', Responds(j, t)', i # j
          PROVE  FALSE
      <3>0. t \in 0..MaxTurn
        BY DEF TurnId
      <3>1. CASE Responds(i, t) /\ Responds(j, t)
        BY <1>2, <2>4, <3>1 DEF ResponseInv
      <3>2. CASE group[t].resume = "none"
        <4>1. ~ Responds(i, t) /\ ~ Responds(j, t)
          BY <1>2, <3>0, <3>2 DEF ResponseInv
        <4>2. item'[j] = item[j]
          BY <2>2, <2>4, <3>0, <4>1
        <4> QED BY <2>4, <4>1, <4>2 DEF Responds
      <3> QED BY <2>2, <2>4, <3>0, <3>1, <3>2
    <2>5. ASSUME NEW t \in TurnId, group'[t].resume # "none"
          PROVE  \E i \in ItemId : Responds(i, t)'
      <3>1. CASE group[t].resume # "none"
        <4>1. PICK i \in ItemId : Responds(i, t)
          BY <1>2, <3>1 DEF ResponseInv
        <4> QED BY <1>2, <4>1, ItemsStay DEF Responds, ItemColumns
      <3>2. CASE group[t].resume = "none"
        BY <2>1, <2>5, <3>2 DEF GroupClaimed, Responds
      <3> QED BY <3>1, <3>2
    <2> QED BY <2>3, <2>4, <2>5 DEF ResponseInv
  <1> QED BY <1>1, <1>2

\* So it holds always.
LEMMA SpecResponses == Spec => [](RuntimeInv /\ GroupInv /\ ResponseInv)
  BY ResponseInductive, GroupInductive, InitInv, NextInv, PTL DEF Spec

\* A pause whose resume was claimed has exactly one response item, another has none, and
\* the item stays bound to the generation of the turn that paused, rotations included.
THEOREM ResponseItemIsOne == Spec => []OneResponseItem
  <1>1. RuntimeInv /\ ResponseInv => OneResponseItem
    <2> SUFFICES ASSUME RuntimeInv, ResponseInv, NEW t \in TurnId
                 PROVE  LET I == {i \in ItemId : item[i].state # "absent"
                                       /\ item[i].type = "pause_group_response"
                                       /\ item[i].linkT = t}
                        IN  /\ Cardinality(I) = (IF group[t].resume = "none" THEN 0 ELSE 1)
                            /\ \A i \in I : item[i].bound = turn[t].gen
      BY DEF OneResponseItem
    <2> DEFINE I == {i \in ItemId : item[i].state # "absent"
                                       /\ item[i].type = "pause_group_response"
                                       /\ item[i].linkT = t}
    <2>0. I = {i \in ItemId : Responds(i, t)} /\ t \in 0..MaxTurn
      BY DEF Responds, TurnId
    <2> HIDE DEF I
    <2>1. \A i \in I : item[i].bound = turn[t].gen /\ group[t].resume # "none"
      BY <2>0 DEF ResponseInv
    <2>2. CASE group[t].resume = "none"
      <3>1. I = {}
        BY <2>1, <2>2
      <3> QED BY <2>1, <2>2, <3>1, FS_EmptySet DEF I
    <2>3. CASE group[t].resume # "none"
      <3>1. PICK i \in I : TRUE
        BY <2>0, <2>3 DEF ResponseInv
      <3>2. \A j \in I : j = i
        BY <2>0, <3>1 DEF ResponseInv
      <3>3. I = {i}
        BY <3>1, <3>2
      <3>4. Cardinality(I) = 1
        BY <3>3, FS_Singleton
      <3> QED BY <2>1, <2>3, <3>4 DEF I
    <2> QED BY <2>2, <2>3
  <1> QED BY <1>1, SpecResponses, PTL

-----------------------------------------------------------------------------
(* The response turn of a resume. *)

\* w is between the update that starts to create the response turn and its end.
Creating(w) == resumer[w].pc \in {"creating", "read", "made", "failed"}

\* When no request outlives its caller: the attempt that creates is alone, its resume
\* says so, and what it read of the history is still true when it decides.
ResumeTurnInv ==
    /\ \A t \in TurnId : prov[t].again <= 1 /\ prov[t].lateAgain = 0
    /\ \A w \in Worker : Creating(w) => group[resumer[w].turn].resume = "creating"
    /\ \A w, v \in Worker : Creating(w) /\ Creating(v) /\ resumer[w].turn = resumer[v].turn => w = v
    /\ \A w \in Worker : resumer[w].pc = "read" => resumer[w].found = prov[resumer[w].turn].again

\* A response turn is opened late, or is left alone.
AgainKept(t) ==
    \/ prov'[t].again = prov[t].again /\ prov'[t].lateAgain = prov[t].lateAgain
    \/ prov[t].lateAgain > 0 /\ prov'[t].again = prov[t].again + 1

\* A step of a create attempt opens no response turn; only a late request does.
LEMMA LifecycleKeepsAgain ==
    ASSUME RuntimeInv, LifecycleStep
    PROVE  \A t \in TurnId : AgainKept(t)
  <1>0. prov \in [TurnId -> Provider]
    BY DEF RuntimeInv, TypeInvariant, LifecycleTypeOK
  <1>1. ASSUME NEW u \in TurnId, NEW n, NEW m,
               \/ prov' = [prov EXCEPT ![u].made = n]
               \/ prov' = [prov EXCEPT ![u].late = n]
               \/ prov' = [prov EXCEPT ![u].late = n, ![u].made = m]
        PROVE  \A t \in TurnId : AgainKept(t)
    BY <1>0, <1>1 DEF Provider, AgainKept
  <1>2. ASSUME UNCHANGED prov PROVE \A t \in TurnId : AgainKept(t)
    BY <1>2 DEF AgainKept
  <1>3. ASSUME NEW w \in Worker, createTurn(w) PROVE \A t \in TurnId : AgainKept(t)
    <2>1. call[w].turn \in TurnId
      BY <1>3 DEF createTurn, Decided, RuntimeInv, ReferencesResolve, ProceduresHaveRows
    <2> QED BY <1>1, <1>2, <1>3, <2>1 DEF createTurn
  <1>4. ASSUME NEW u \in TurnId, lateCreate(u) PROVE \A t \in TurnId : AgainKept(t)
    BY <1>1, <1>4 DEF lateCreate
  <1>5. ASSUME NEW u \in TurnId, lateResponse(u) PROVE \A t \in TurnId : AgainKept(t)
    <2>1. prov[u] \in Provider /\ prov' = [prov EXCEPT ![u].lateAgain = @ - 1, ![u].again = @ + 1]
      BY <1>0, <1>5 DEF lateResponse
    <2>2. prov'[u].again = prov[u].again + 1 /\ \A t \in TurnId \ {u} : prov'[t] = prov[t]
      BY <1>0, <2>1 DEF Provider
    <2> QED BY <1>5, <2>2 DEF lateResponse, AgainKept
  <1>6. ASSUME NEW w \in Worker, AttemptStep(w) \/ CommandStep(w), ~ createTurn(w)
        PROVE  UNCHANGED prov
    BY <1>6 DEF AttemptStep, CommandStep, lockClaimedTurn, listTurns, failClosed, bindCreated,
                bindReconciled, markAgentTurnUncertain, markRunStepFailed,
                refreshRunLifecycleForStep, executeCreateOrReconcileTurn
  <1>7. EventStep => UNCHANGED prov
    BY DEF EventStep, ingestNormalizedTrueForgeEvent
  <1> QED BY <1>2, <1>3, <1>4, <1>5, <1>6, <1>7 DEF LifecycleStep

\* A step that is no resume's leaves what the attempts rely on alone.
LEMMA QuietKeepsResumes ==
    ASSUME RuntimeInv, GroupInv, ResumeTurnInv, [Next]_vars, ~ ResumeStep
    PROVE  ResumeTurnInv'
  <1>1. \A t \in TurnId : group'[t].resume = group[t].resume
    BY GroupMoves, ResumesStay DEF GroupInv, GroupMove
  <1>2. \A t \in TurnId : prov'[t].again = prov[t].again /\ prov'[t].lateAgain = prov[t].lateAgain
    BY LifecycleKeepsAgain, AttemptsFrame DEF ResumeTurnInv, AgainKept
  <1>3. \A w \in Worker : resumer'[w] = resumer[w] \/ resumer'[w].pc = "idle"
    <2>1. CASE CrashStep
      BY <2>1 DEF CrashStep, Crash, ResumerCrash, NoResume, pauseVars, RuntimeInv, TypeInvariant,
                  PauseTypeOK
    <2> QED BY <2>1, AttemptsFrame
  <1>4. \A w \in Worker : resumer[w].pc # "idle" => resumer[w].turn \in TurnId
    BY DEF RuntimeInv, ReferencesResolve, ProceduresHaveRows
  <1> QED BY <1>1, <1>2, <1>3, <1>4 DEF ResumeTurnInv, Creating

\* Every step of a resume keeps the attempt that creates alone.
LEMMA ResumeKeepsTurns ==
    ASSUME RuntimeInv, GroupInv, ResumeTurnInv, ResumeStep, ~ LateEffects
    PROVE  ResumeTurnInv'
  <1>0. /\ resumer \in [Worker -> ResumeAttempt] /\ prov \in [TurnId -> Provider]
        /\ group \in [TurnId -> GroupRow]
    BY GroupTypes DEF RuntimeInv, TypeInvariant, PauseTypeOK, LifecycleTypeOK
  <1>1. \A w \in Worker : resumer[w].pc # "idle" => resumer[w].turn \in TurnId
    BY DEF RuntimeInv, ReferencesResolve, ProceduresHaveRows
  <1> PICK w \in Worker :
           \/ \E t \in TurnId, i \in ItemId : claimPauseGroupResume(w, t, i)
           \/ \E t \in TurnId : loadPauseResumeForCreate(w, t)
           \/ ResumeAttemptStep(w)
    BY DEF ResumeStep
  <1>2. ASSUME NEW t \in TurnId, group[t].resume # "creating",
               \A u \in TurnId \ {t} : group'[u].resume = group[u].resume,
               UNCHANGED prov,
               resumer' = [resumer EXCEPT ![w] = [NoResume EXCEPT !.pc = "loaded", !.turn = t]]
        PROVE  ResumeTurnInv'
    <2>1. ~ Creating(w)' /\ resumer'[w].pc # "read" /\ \A v \in Worker \ {w} : resumer'[v] = resumer[v]
      BY <1>0, <1>2 DEF Creating, NoResume
    <2>2. \A v \in Worker : Creating(v) => resumer[v].turn \in TurnId /\ resumer[v].turn # t
      BY <1>1, <1>2 DEF ResumeTurnInv, Creating
    <2> QED BY <1>2, <2>1, <2>2 DEF ResumeTurnInv, Creating
  <1>3. ASSUME NEW t \in TurnId, NEW i \in ItemId, claimPauseGroupResume(w, t, i)
        PROVE  ResumeTurnInv'
    <2>1. /\ group[t].resume # "creating" /\ UNCHANGED prov
          /\ \A u \in TurnId \ {t} : group'[u].resume = group[u].resume
      BY <1>0, <1>3 DEF claimPauseGroupResume, lifecycleVars
    <2> QED BY <1>2, <1>3, <2>1 DEF claimPauseGroupResume
  <1>4. ASSUME UNCHANGED <<group, prov>>,
               NEW pc \in {"idle", "loaded"}, NEW t \in TurnId \cup {0},
               resumer' = [resumer EXCEPT ![w] = [NoResume EXCEPT !.pc = pc, !.turn = t]]
        PROVE  ResumeTurnInv'
    <2>1. ~ Creating(w)' /\ resumer'[w].pc # "read" /\ \A v \in Worker \ {w} : resumer'[v] = resumer[v]
      BY <1>0, <1>4 DEF Creating, NoResume
    <2> QED BY <1>4, <2>1 DEF ResumeTurnInv, Creating
  <1> DEFINE t == resumer[w].turn
  <1>5. ASSUME resumer[w].pc # "idle", UNCHANGED prov,
               \A u \in TurnId \ {t} : group'[u].resume = group[u].resume,
               resumer' = [resumer EXCEPT ![w] = NoResume],
               Creating(w) \/ UNCHANGED group
        PROVE  ResumeTurnInv'
    <2>1. ~ Creating(w)' /\ resumer'[w].pc # "read" /\ \A v \in Worker \ {w} : resumer'[v] = resumer[v]
      BY <1>0, <1>5 DEF Creating, NoResume
    <2>2. \A v \in Worker \ {w} : Creating(v) => group'[resumer[v].turn].resume = "creating"
      BY <1>1, <1>5 DEF ResumeTurnInv, Creating
    <2> QED BY <1>5, <2>1, <2>2 DEF ResumeTurnInv, Creating
  <1>6. CASE markPauseResumeCreating(w)
    <2>1. CASE group[t].resume \in Startable
      <3>1. /\ \A v \in Worker \ {w} : resumer'[v] = resumer[v]
            /\ resumer'[w].pc = "creating" /\ resumer'[w].turn = t /\ t \in TurnId
            /\ group'[t].resume = "creating" /\ \A u \in TurnId \ {t} : group'[u] = group[u]
            /\ UNCHANGED prov
        BY <1>0, <1>1, <1>6, <2>1 DEF markPauseResumeCreating, ResumeAttempt, GroupRow, lifecycleVars
      <3>2. \A v \in Worker : Creating(v) => resumer[v].turn # t
        BY <2>1 DEF ResumeTurnInv, Startable
      <3>3. \A v \in Worker : Creating(v) => resumer[v].turn \in TurnId
        BY <1>1 DEF Creating
      <3> QED BY <3>1, <3>2, <3>3 DEF ResumeTurnInv, Creating
    <2> QED BY <1>5, <1>6, <2>1 DEF markPauseResumeCreating, lifecycleVars
  <1>7. CASE listResponseTurns(w)
    <2>1. /\ \A v \in Worker \ {w} : resumer'[v] = resumer[v]
          /\ resumer'[w].turn = t /\ Creating(w) /\ Creating(w)'
          /\ resumer'[w].pc = "read" => resumer'[w].found = prov[t].again
          /\ UNCHANGED <<prov, group>>
      BY <1>0, <1>7 DEF listResponseTurns, ResumeAttempt, Creating, lifecycleVars, tables
    <2> QED BY <2>1 DEF ResumeTurnInv, Creating
  <1>8. CASE createResponseTurn(w)
    <2>1. /\ \A v \in Worker \ {w} : resumer'[v] = resumer[v]
          /\ resumer'[w].turn = t /\ resumer'[w].pc \in {"made", "failed"} /\ resumer[w].pc = "read"
          /\ UNCHANGED group /\ t \in TurnId
      BY <1>0, <1>1, <1>8 DEF createResponseTurn, ResumeAttempt, tables
    <2>2. /\ \A u \in TurnId \ {t} : prov'[u] = prov[u]
          /\ prov'[t].lateAgain = prov[t].lateAgain /\ prov'[t].again <= 1
      <3>1. resumer[w].found = prov[t].again /\ prov[t].again <= 1 /\ prov[t] \in Provider
        BY <1>0, <2>1 DEF ResumeTurnInv
      <3>2. CASE UNCHANGED prov
        BY <3>1, <3>2
      <3>3. CASE prov' = [prov EXCEPT ![t].again = @ + 1] /\ resumer[w].found = 0
        BY <1>0, <2>1, <3>1, <3>3 DEF Provider
      <3>4. resumer[w].found \in 0..MaxMade
        BY <1>0 DEF ResumeAttempt
      <3> QED BY <1>8, <3>2, <3>3, <3>4, CreateAssumption
              DEF createResponseTurn, decideCreateOrReconcileResponseTurn
    <2>3. Creating(w) /\ \A v \in Worker \ {w} : Creating(v) => resumer[v].turn # t
      BY <2>1 DEF ResumeTurnInv, Creating
    <2>4. \A v \in Worker \ {w} : Creating(v) => resumer[v].turn \in TurnId \ {t}
      BY <1>1, <2>3 DEF Creating
    <2>5. \A u \in TurnId : prov'[u].again <= 1 /\ prov'[u].lateAgain = 0
      BY <2>2 DEF ResumeTurnInv
    <2>6. \A v \in Worker : resumer'[v].pc = "read" => resumer'[v].found = prov'[resumer'[v].turn].again
      BY <2>1, <2>2, <2>4 DEF ResumeTurnInv, Creating
    <2> QED BY <2>1, <2>3, <2>5, <2>6 DEF ResumeTurnInv, Creating
  <1>9. CASE completePauseResume(w)
    <2>1. Creating(w) /\ group[t].resume = "creating" /\ t \in TurnId
      BY <1>1, <1>9 DEF completePauseResume, Creating, ResumeTurnInv
    <2>2. /\ resumer' = [resumer EXCEPT ![w] = NoResume] /\ resumer[w].pc # "idle" /\ UNCHANGED prov
          /\ \A u \in TurnId \ {t} : group'[u].resume = group[u].resume
      BY <1>0, <1>9, <2>1 DEF completePauseResume, PauseResumeOpen, lifecycleVars
    <2> QED BY <1>5, <2>1, <2>2
  <1>10. CASE markPauseResumeUncertain(w)
    <2>1. /\ resumer' = [resumer EXCEPT ![w] = NoResume] /\ resumer[w].pc # "idle" /\ UNCHANGED prov
          /\ Creating(w) /\ \A u \in TurnId \ {t} : group'[u].resume = group[u].resume
      BY <1>0, <1>1, <1>10 DEF markPauseResumeUncertain, Creating, lifecycleVars
    <2> QED BY <1>5, <2>1
  <1>11. ASSUME NEW u \in TurnId, loadPauseResumeForCreate(w, u) PROVE ResumeTurnInv'
    BY <1>4, <1>11 DEF loadPauseResumeForCreate, tables, lifecycleVars
  <1> QED BY <1>3, <1>6, <1>7, <1>8, <1>9, <1>10, <1>11 DEF ResumeAttemptStep

\* The resume turns' invariant holds at first, and every step keeps it.
LEMMA ResumeTurnInductive ==
    /\ Init => ResumeTurnInv
    /\ ~ LateEffects /\ RuntimeInv /\ GroupInv /\ ResumeTurnInv /\ [Next]_vars => ResumeTurnInv'
  <1>1. ASSUME Init PROVE ResumeTurnInv
    BY <1>1 DEF Init, LifecycleInit, PauseInit, ResumeTurnInv, Creating, NoResume
  <1> QED BY <1>1, QuietKeepsResumes, ResumeKeepsTurns

\* A pause is answered by at most one provider turn, though any number of requests may
\* carry on with a claimed resume, crash in the middle of it or lose the provider's
\* answer.  The assumption is needed: a request that takes effect after its caller has
\* read the history and given up is not in the history the next attempt reads.
THEOREM ResponseTurnIsOne ==
    ASSUME ~ LateEffects
    PROVE  Spec => []OneResponseTurn
  <1>1. RuntimeInv /\ GroupInv /\ ResumeTurnInv /\ [Next]_vars
        => (RuntimeInv /\ GroupInv /\ ResumeTurnInv)'
    BY ResumeTurnInductive, GroupInductive, NextInv
  <1>2. Init => RuntimeInv /\ GroupInv /\ ResumeTurnInv
    BY ResumeTurnInductive, GroupInductive, InitInv
  <1>3. ResumeTurnInv => OneResponseTurn
    BY DEF ResumeTurnInv, OneResponseTurn
  <1> QED BY <1>1, <1>2, <1>3, PTL DEF Spec
=============================================================================
