----------------------------- MODULE TurnQueue -----------------------------
(***************************************************************************)
(* The serial turn queue of packages/db/src/turn-queue.ts: work enters it  *)
(* through createDirectMultiAgentRun, is claimed under a lease together    *)
(* with the agent turn that will carry it out, and goes back to the queue  *)
(* when the lease runs out before the turn left 'acquiring'.               *)
(*                                                                         *)
(* A claim with expected_state 'retryable' first does what                 *)
(* reclaimExpiredTurnQueueLease does and then claims the queued item.  The *)
(* release commits whether or not the claim that follows it succeeds, so   *)
(* it is the sequence of the two actions below and needs none of its own.  *)
(***************************************************************************)
EXTENDS RuntimeTables

\* Mutant: the item is inserted without its run_step_id.
ItemWithoutStep(type, s, k, bound) ==
    [NoItem EXCEPT !.state = "queued", !.type = type, !.sess = s, !.bound = bound]

\* The row INSERT INTO turn_queue_items writes.
QueuedItem(type, s, k, bound) ==
    [NoItem EXCEPT !.state = "queued", !.type = type, !.sess = s, !.step = k, !.bound = bound]

QueuedStep(r, s) == [state |-> "queued", run |-> r, sess |-> s]

(***************************************************************************)
(* One message addressed to the coworkers T: a run, and for each coworker  *)
(* a queued step and an unbound normal item.  The steps are f[s], the      *)
(* items q[s]; both take the next free rows.                               *)
(***************************************************************************)
createDirectMultiAgentRun(r, T, f, q) ==
    /\ T # {}
    /\ NextRun(r)
    /\ \A s1, s2 \in T : s1 # s2 => f[s1] # f[s2] /\ q[s1] # q[s2]
    /\ \A s \in T : step[f[s]].state = "absent" /\ item[q[s]].state = "absent"
    /\ \A s \in T : \A k \in StepId :
          k < f[s] /\ step[k].state = "absent" => \E s2 \in T : f[s2] = k
    /\ \A s \in T : \A i \in ItemId :
          i < q[s] /\ item[i].state = "absent" => \E s2 \in T : q[s2] = i
    /\ run' = [run EXCEPT ![r] = "queued"]
    /\ step' = [k \in StepId |-> IF \E s \in T : f[s] = k
                                 THEN QueuedStep(r, CHOOSE s \in T : f[s] = k)
                                 ELSE step[k]]
    /\ item' = [i \in ItemId |->
                   IF \E s \in T : q[s] = i
                   THEN LET s == CHOOSE x \in T : q[x] = i
                        IN  QueuedItem("normal", s, f[s], 0)
                   ELSE item[i]]
    /\ UNCHANGED <<sess, gen, turn, group, act>>

-----------------------------------------------------------------------------
(***************************************************************************)
(* Claiming.                                                               *)
(***************************************************************************)

\* Item i is the correction a human asked for on an action of the collecting
\* group of turn u, the one correction an unresolved pause lets through.
LinkedCorrection(i, u) ==
    /\ item[i].type = "correction"
    /\ item[i].linkT = u
    /\ item[i].linkA \in group[u].need
    /\ group[u].state = "collecting"
    /\ act[u][item[i].linkA].ra = "resolved"
    /\ act[u][item[i].linkA].dec = "changes"

\* What the claim of i supersedes: nothing (0), or the pause of turn u.
\* The query that looks for an unresolved group says LIMIT 1 with no order.
Supersedes(i, u) ==
    LET open == UnresolvedGroups(item[i].sess)
    IN  \/ u = 0 /\ (open = {} \/ item[i].type = "pause_group_response")
        \/ u \in open /\ LinkedCorrection(i, u)

SessionCancelling(s) ==
    \E t \in TurnId : /\ turn[t].state # "absent" /\ turn[t].sess = s
                      /\ step[turn[t].step].state = "cancelling"

\* Mutant: the claim does not look for a remote-active turn.
eligibleWhenActive(s) == sess[s].state = "active"

evaluateClaimEligibility(s) ==
    /\ sess[s].state = "active"
    /\ \A t \in TurnId : turn[t].sess = s => ~ RemoteActive(t)

\* Normal items take the live generation; the others must already be bound to it.
\* For an item claimed before, the update must also pass the binding foreign key.
resolveClaimGenerationBinding(i) ==
    LET cur == sess[item[i].sess].cur
    IN  IF item[i].type = "normal" THEN RebindAllowed(i, cur) ELSE item[i].bound = cur

\* Mutant: the actions are cancelled but their proposals stay open.
CancelActionsOnly(row) == [row EXCEPT !.ra = IF @ = "pending" THEN "cancelled" ELSE @]

\* The rows of a superseded pause: undecided actions are withdrawn, its turn and
\* its step are cancelled.
WithdrawActions(row) ==
    [row EXCEPT !.ra  = IF @ = "pending" THEN "cancelled" ELSE @,
                !.dec = IF @ = "open" /\ row.ra # "absent" THEN "stale" ELSE @]

SupersededTurns(u) ==
    [t \in TurnId |-> IF t = u /\ turn[t].state = "required_actions"
                      THEN [turn[t] EXCEPT !.state = "cancelled"] ELSE turn[t]]

SupersededSteps(u) ==
    [k \in StepId |-> IF u # 0 /\ k = turn[u].step /\ step[k].state = "awaiting"
                      THEN [step[k] EXCEPT !.state = "cancelled"] ELSE step[k]]

AcquireStep(st, k) ==
    [st EXCEPT ![k].state = IF @ \in {"queued", "acquiring_session"}
                            THEN "acquiring_session" ELSE @]

\* The claim only ever moves a run from queued to active.
ActivateRun(st, r) ==
    [run EXCEPT ![r] = IF @ \in {"queued", "active"} /\ ~ (StepStates(st, r) \subseteq {"queued"})
                       THEN "active" ELSE @]

(***************************************************************************)
(* Worker w claims item i and opens turn t for it, superseding the pause   *)
(* of turn u (0: none).                                                    *)
(***************************************************************************)
claimTurnQueueItem(w, i, t, u) ==
    LET s   == item[i].sess
        cur == sess[s].cur
        st  == AcquireStep(SupersededSteps(u), item[i].step)
    IN  /\ IsHead(i)
        /\ NextTurn(t)
        /\ evaluateClaimEligibility(s)
        /\ Supersedes(i, u)
        /\ ~ SessionCancelling(s)
        /\ resolveClaimGenerationBinding(i)
        /\ item' = [item EXCEPT ![i] = [@ EXCEPT !.state = "claimed", !.bound = cur,
                                                 !.owner = w, !.expired = FALSE]]
        /\ turn' = [SupersededTurns(u) EXCEPT ![t] =
                       [NoTurn EXCEPT !.state = "acquiring", !.sess = s, !.item = i,
                                      !.step = item[i].step, !.gen = cur]]
        /\ step' = st
        /\ run' = ActivateRun(st, step[item[i].step].run)
        /\ group' = [x \in TurnId |-> IF x = u THEN [group[x] EXCEPT !.state = "cancelled"]
                                      ELSE group[x]]
        /\ act' = [x \in TurnId |-> IF x = u THEN [a \in Act |-> WithdrawActions(act[x][a])]
                                    ELSE act[x]]
        /\ UNCHANGED <<sess, gen>>

-----------------------------------------------------------------------------
(***************************************************************************)
(* Leases.  LeaseExpires is the clock passing lease_expires_at.            *)
(***************************************************************************)
LeaseExpires(i) ==
    /\ item[i].state = "claimed" /\ ~ item[i].expired
    /\ item' = [item EXCEPT ![i].expired = TRUE]
    /\ UNCHANGED <<sess, gen, run, step, turn, group, act>>

heartbeatTurnQueueLease(w, i) ==
    /\ item[i].state = "claimed" /\ item[i].owner = w
    /\ item' = [item EXCEPT ![i].expired = FALSE]
    /\ UNCHANGED <<sess, gen, run, step, turn, group, act>>

\* Mutant: a turn whose create request may be under way is given back too.
ReclaimableCreating == {"acquiring", "creating"}

\* The states of the item's latest turn in which its lease may be reclaimed.
Reclaimable == {"acquiring"}

\* Fails closed once the latest turn of the item has left 'acquiring'.  The bound
\* generation is kept.
reclaimExpiredTurnQueueLease(i, t) ==
    /\ item[i].state = "claimed" /\ item[i].expired
    /\ LatestTurn(i, t) /\ turn[t].state \in Reclaimable
    /\ turn' = [turn EXCEPT ![t].state = "cancelled"]
    /\ item' = [item EXCEPT ![i] = [@ EXCEPT !.state = "queued", !.owner = NoWorker,
                                             !.expired = FALSE]]
    /\ UNCHANGED <<sess, gen, run, step, group, act>>
=============================================================================
