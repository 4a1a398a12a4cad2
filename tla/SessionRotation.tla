-------------------------- MODULE SessionRotation --------------------------
(***************************************************************************)
(* Replacing a session's provider generation (packages/db                  *)
(* session-rotation.ts) and the API procedure that drives it               *)
(* (apps/api/src/workspace/session-rotation.ts): begin, stop the active    *)
(* turn when the change restricts the coworker, provision, swap, complete; *)
(* on any error after begin, abort.  The procedure is state of its own,    *)
(* rot, which a crash forgets.                                             *)
(***************************************************************************)
EXTENDS RunControl

VARIABLE rot   \* by session: the rotation its API process is in

Rotation == [pc : {"idle", "begun", "stopped", "swapped", "failed"},
             prev : 0..MaxGen,       \* generation to restore on abort
             new : 0..MaxGen,        \* generation swapped in (0: not yet)
             restrict : BOOLEAN,     \* isRestrictionChange
             active : 0..MaxTurn]    \* turn found active before the rotation (0: none)

NoRotation == [pc |-> "idle", prev |-> 0, new |-> 0, restrict |-> FALSE, active |-> 0]

\* Rotations have their type.
RotationTypeOK == rot \in [Session -> Rotation]

RotationInit == rot = [s \in Session |-> NoRotation]

otherVars == <<lifecycleVars, pauseVars, correcting>>

\* a: the turn the caller had found remote-active; by now it may have moved on, and
\* another may have been claimed.  The bound MaxGen leaves room for the new generation.
beginSessionRotation(s, restrict, a) ==
    /\ rot[s].pc = "idle"
    /\ sess[s].state # "rotating"
    /\ gen[s][MaxGen] = "absent"
    /\ a # 0 => turn[a].state # "absent" /\ turn[a].sess = s
    /\ sess' = [sess EXCEPT ![s].state = "rotating"]
    /\ gen' = [gen EXCEPT ![s][sess[s].cur] = IF @ = "ready" THEN "rotating" ELSE @]
    /\ rot' = [rot EXCEPT ![s] = [NoRotation EXCEPT !.pc = "begun", !.prev = sess[s].cur,
                                     !.restrict = restrict, !.active = a]]
    /\ UNCHANGED <<run, step, item, turn, group, act, otherVars>>

\* A restriction stops the active turn's step before it provisions.
stopActiveTurn(s) ==
    LET r == rot[s] IN
    /\ r.pc = "begun"
    /\ step' = IF r.restrict /\ r.active # 0
               THEN [step EXCEPT ![turn[r.active].step].state =
                        IF @ \in Stoppable THEN "cancelling" ELSE @]
               ELSE step
    /\ rot' = [rot EXCEPT ![s].pc = "stopped"]
    /\ UNCHANGED <<sess, gen, run, item, turn, group, act, otherVars>>

\* staleUnresolvedForGeneration: what waits for people on generation g of s.
StaleGroup(t, s, g) ==
    turn[t].sess = s /\ turn[t].gen = g /\ group[t].state \in {"collecting", "ready"}

StaleGroups(s, g) ==
    [t \in TurnId |-> IF StaleGroup(t, s, g) THEN [group[t] EXCEPT !.state = "stale"] ELSE group[t]]

\* Mutant: only proposals are made stale, questions stay open.
StaleProposals(s, g) ==
    [t \in TurnId |-> [a \in Act |->
        IF /\ a \in Approval /\ act[t][a].ra # "absent" /\ act[t][a].dec = "open"
           /\ turn[t].sess = s /\ turn[t].gen = g
        THEN [ra |-> "stale", dec |-> "stale"] ELSE act[t][a]]]

StaleActs(s, g) ==
    [t \in TurnId |-> [a \in Act |->
        LET row == act[t][a] IN
        [ra  |-> IF StaleGroup(t, s, g) /\ row.ra = "pending" THEN "stale" ELSE row.ra,
         dec |-> IF /\ row.ra # "absent" /\ row.dec = "open"
                    /\ turn[t].sess = s /\ turn[t].gen = g
                    /\ (a \in Approval \/ StaleGroup(t, s, g))
                 THEN "stale" ELSE row.dec]]]

\* Mutant: a correction stays on the generation it was made for.
mayRebindNormals(i, s) ==
    item[i].state = "queued" /\ item[i].sess = s /\ item[i].type = "normal"

\* Mutant: a waiting response moves with the session.
mayRebindAll(i, s) == item[i].state = "queued" /\ item[i].sess = s

mayRebindQueueItem(i, s) ==
    item[i].state = "queued" /\ item[i].sess = s /\ item[i].type \in {"normal", "correction"}

\* The swap is one transaction, which the binding foreign key aborts when a queued
\* item it would rebind already has a turn on an older generation.
SwapAdmitted(s, g) == \A i \in ItemId : mayRebindQueueItem(i, s) => RebindAllowed(i, g)

\* Mutant: the old generation is not retired.
InsertGeneration(s, g, prev) == [gen[s] EXCEPT ![g] = "ready"]

ReplaceGeneration(s, g, prev) == [gen[s] EXCEPT ![g] = "ready", ![prev] = "retired"]

atomicSwapSessionGeneration(s, g) ==
    LET prev == rot[s].prev IN
    /\ rot[s].pc = "stopped"
    /\ sess[s].state = "rotating" /\ sess[s].cur = prev
    /\ gen[s][g] = "absent" /\ \A h \in GenId : h < g => gen[s][h] # "absent"
    /\ SwapAdmitted(s, g)
    /\ sess' = [sess EXCEPT ![s].cur = g]
    /\ gen' = [gen EXCEPT ![s] = ReplaceGeneration(s, g, prev)]
    /\ item' = [i \in ItemId |-> IF mayRebindQueueItem(i, s) THEN [item[i] EXCEPT !.bound = g]
                                 ELSE item[i]]
    /\ group' = IF rot[s].restrict THEN StaleGroups(s, prev) ELSE group
    /\ act' = IF rot[s].restrict THEN StaleActs(s, prev) ELSE act
    /\ rot' = [rot EXCEPT ![s] = [@ EXCEPT !.pc = "swapped", !.new = g]]
    /\ UNCHANGED <<run, step, turn, otherVars>>

completeSessionRotation(s) ==
    /\ rot[s].pc = "swapped"
    /\ sess' = [sess EXCEPT ![s].state = IF @ = "rotating" THEN "active" ELSE @]
    /\ rot' = [rot EXCEPT ![s] = NoRotation]
    /\ UNCHANGED <<gen, run, step, item, turn, group, act, otherVars>>

\* A provider or database call of the procedure throws.
rotationThrows(s) ==
    /\ rot[s].pc \in {"begun", "stopped", "swapped"}
    /\ rot' = [rot EXCEPT ![s].pc = "failed"]
    /\ UNCHANGED <<tables, otherVars>>

\* Before the swap the current generation is the old one, which is reopened.  After it
\* the first update fails the generation that is current, which the trigger
\* forgeroom_generation_cannot_invalidate_current refuses, so nothing changes.
abortSessionRotation(s) ==
    LET r == rot[s] IN
    /\ r.pc = "failed"
    /\ rot' = [rot EXCEPT ![s] = NoRotation]
    /\ \/ /\ r.new = 0 /\ sess[s].state = "rotating"
          /\ sess' = [sess EXCEPT ![s].state = "active"]
          /\ gen' = [gen EXCEPT ![s][r.prev] = IF @ = "rotating" THEN "ready" ELSE @]
       \/ /\ r.new # 0
          /\ UNCHANGED <<sess, gen>>
    /\ UNCHANGED <<run, step, item, turn, group, act, otherVars>>

RotationCrash(s) ==
    /\ rot[s].pc # "idle"
    /\ rot' = [rot EXCEPT ![s] = NoRotation]
    /\ UNCHANGED <<tables, otherVars>>
=============================================================================
