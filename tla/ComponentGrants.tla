--------------------------- MODULE ComponentGrants -------------------------
(***************************************************************************)
(* Granting and revoking a component: the registry is published from the   *)
(* code, the grant changes together with its audit event, and every        *)
(* session of the coworker is then rotated so that it offers the tool, or  *)
(* no longer does.  A request that comes back with the same key finishes   *)
(* the rotations its first attempt left.                                   *)
(*                                                                         *)
(* The advisory lock on the key is a session lock of the API's only        *)
(* connection, which every request of the process shares: between requests *)
(* of one API process it excludes nothing, so it has no step here.         *)
(***************************************************************************)
EXTENDS ComponentTables, FiniteSetsExt

GrantPC == {"new", "lookup", "set", "insert", "rotate", "candidates", "begin", "cancel", "swap",
            "record", "done"}

\* aud: the audit event worked on; left: sessions still to rotate; s: the one in hand;
\* offer: whether the tool should be offered, as computed before the rotation began.
GrantCallRow == [pc : GrantPC, key : Key \cup {None}, v : Version, granted : BOOLEAN,
                 aud : 0..Cardinality(GrantCall) + 1, left : SUBSET Session,
                 s : Session \cup {None}, offer : BOOLEAN, ans : {"none", "ok", "error"}]

NewGrantCall == [pc |-> "new", key |-> None, v |-> 1, granted |-> TRUE, aud |-> 0, left |-> {},
                 s |-> None, offer |-> FALSE, ans |-> "none"]

Step(r, pc) == gcall' = [gcall EXCEPT ![r].pc = pc]

Reply(r, ans) == gcall' = [gcall EXCEPT ![r].pc = "done", ![r].ans = ans]

\* publishWorkspaceRegistry commits first; then the caller's version must be the code's.
setCoworkerComponentGrant(r) ==
    /\ gcall[r].pc = "new" /\ r \in mix.calls
    /\ ~RegistryLocked
    /\ pub' = code
    /\ \E k \in mix.keys, v \in Version, granted \in BOOLEAN :
          gcall' = [gcall EXCEPT ![r] = [NewGrantCall EXCEPT
                       !.key = k, !.v = v, !.granted = granted,
                       !.pc = IF v = code THEN "lookup" ELSE "done",
                       !.ans = IF v = code THEN "none" ELSE "error"]]
    /\ UNCHANGED <<code, grant, audit, sess, turn, chan, surfaces, brk, mix>>

priorAudit(k) == {i \in DOMAIN audit : audit[i].key = k}

\* Mutant: a replay answers with the saved result and leaves the rotations.
replayWithoutRotations(i) == {}

\* The sessions a replay has still to rotate.
pendingRotations(i) == audit[i].rotations \ audit[i].applied

\* The latest audit event of the key decides; another version or direction is a conflict.
LookupPriorAudit(r) ==
    LET q == gcall[r]
        i == Max(priorAudit(q.key))
    IN
    /\ q.pc = "lookup"
    /\ IF priorAudit(q.key) = {} THEN Step(r, "set")
       ELSE IF audit[i].v # q.v \/ audit[i].granted # q.granted THEN Reply(r, "error")
       ELSE gcall' = [gcall EXCEPT ![r].pc = "rotate", ![r].aud = i, ![r].left = pendingRotations(i)]
    /\ UNCHANGED <<registry, sess, turn, chan, surfaces, brk, mix>>

\* applyComponentGrantChange: grant row, list of sessions and audit event commit together.
applyComponentGrantChange(r, action) ==
    LET q         == gcall[r]
        rotations == IF action = "noop" THEN {} ELSE mix.sessions
    IN
    /\ audit' = Append(audit, [key |-> q.key, v |-> q.v, granted |-> q.granted, action |-> action,
                               rotations |-> rotations, started |-> {}, applied |-> {}])
    /\ gcall' = [gcall EXCEPT ![r].pc = "rotate", ![r].aud = Len(audit) + 1, ![r].left = rotations]

\* Mutant: a revocation forgets the version.
RevokedAnyVersion(v) == grant

\* The active rows a revocation updates.
Revoked(v) == grant \cap {v}

\* setComponentGrant: a revocation is one UPDATE; a grant looks for an active row first.
setComponentGrant(r) ==
    LET q == gcall[r] IN
    /\ q.pc = "set"
    /\ \/ /\ q.granted
          /\ IF q.v \in grant THEN applyComponentGrantChange(r, "noop")
             ELSE Step(r, "insert") /\ UNCHANGED audit
          /\ UNCHANGED grant
       \/ /\ ~q.granted
          /\ q.v \in grant => ~RegistryLocked
          /\ grant' = grant \ Revoked(q.v)
          /\ applyComponentGrantChange(r, IF Revoked(q.v) # {} THEN "revoked" ELSE "noop")
    /\ UNCHANGED <<code, pub, sess, turn, chan, surfaces, brk, mix>>

\* A grant that lost the race violates the unique index; its transaction is aborted, so the
\* query meant to find the winner's row fails too.
InsertGrant(r) ==
    LET q == gcall[r] IN
    /\ q.pc = "insert"
    /\ IF q.v \in grant THEN Reply(r, "error") /\ UNCHANGED <<grant, audit>>
       ELSE grant' = grant \cup {q.v} /\ applyComponentGrantChange(r, "granted")
    /\ UNCHANGED <<code, pub, sess, turn, chan, surfaces, brk, mix>>

-----------------------------------------------------------------------------
(* applyPendingSessionRotations. *)

\* recordSessionRotationStarted, unless an earlier attempt has.
StartRotation(r) ==
    LET q == gcall[r] IN
    /\ q.pc = "rotate" /\ q.left # {}
    /\ \E s \in q.left :
          /\ gcall' = [gcall EXCEPT ![r].pc = "candidates", ![r].s = s]
          /\ audit' = [audit EXCEPT ![q.aud].started = @ \cup {s}]
    /\ UNCHANGED <<code, pub, grant, sess, turn, chan, surfaces, brk, mix>>

AllRotated(r) ==
    /\ gcall[r].pc = "rotate" /\ gcall[r].left = {}
    /\ Reply(r, "ok")
    /\ UNCHANGED <<registry, sess, turn, chan, surfaces, brk, mix>>

\* rotateComponentGrantSessions: nothing to do when the session already offers the right tools.
loadControlledComponentCandidates(r) ==
    LET q == gcall[r] IN
    /\ q.pc = "candidates"
    /\ gcall' = [gcall EXCEPT ![r].offer = hasActiveComponentGrant,
                   ![r].pc = IF sess[q.s].offers = hasActiveComponentGrant THEN "record" ELSE "begin"]
    /\ UNCHANGED <<registry, sess, turn, chan, surfaces, brk, mix>>

\* beginSessionRotation throws if a rotation is already in progress.
BeginRotation(r) ==
    LET q == gcall[r] IN
    /\ q.pc = "begin"
    /\ ~SessionLocked(q.s)
    /\ IF sess[q.s].state = "rotating" \/ sess[q.s].gen = MaxGen
       THEN Reply(r, "error") /\ UNCHANGED sess
       ELSE Step(r, "cancel") /\ sess' = [sess EXCEPT ![q.s].state = "rotating"]
    /\ UNCHANGED <<registry, turn, chan, surfaces, brk, mix>>

\* component_revoke is a restriction: it stops the active step and withdraws open questions.
Restricts(r) == audit[gcall[r].aud].action = "revoked"

\* What staleWaitingUiComponentInterruptsForRunStep closes on a session's step.
OpenOn(s) == {c \in Call : intr[c].state = "waiting" /\ ui[c].s = s}

\* Tokens that have been issued and not used.
Withdrawn(x, C) == inter[x].call \in C /\ inter[x].state = "token_issued"

\* Interrupts become stale, their grants are revoked and their tokens withdrawn.
staleWaitingUiComponentInterruptsForRunStep(C) ==
    /\ intr' = [c \in Call |-> IF c \in C THEN [intr[c] EXCEPT !.state = "stale"] ELSE intr[c]]
    /\ act' = [c \in Call |-> IF c \in C THEN [act[c] EXCEPT !.revoked = TRUE] ELSE act[c]]
    /\ inter' = [x \in Click |->
                    IF Withdrawn(x, C) THEN [inter[x] EXCEPT !.state = "stale"] ELSE inter[x]]

CancelActiveTurn(r) ==
    LET s == gcall[r].s IN
    /\ gcall[r].pc = "cancel"
    /\ Step(r, "swap")
    /\ \/ /\ Restricts(r) /\ turn[s].state = "streaming" /\ turn[s].step = "running"
          /\ turn' = [turn EXCEPT ![s].step = "cancelling"]
          /\ staleWaitingUiComponentInterruptsForRunStep(OpenOn(s))
       \/ /\ ~(Restricts(r) /\ turn[s].state = "streaming" /\ turn[s].step = "running")
          /\ UNCHANGED <<turn, intr, act, inter>>
    /\ UNCHANGED <<registry, sess, chan, ui, cont, remote, brk, mix>>

\* The new generation offers what was computed before the rotation; a restriction makes the
\* old generation's waiting interrupts stale, and leaves their grants and tokens alone.
SwapGeneration(r) ==
    LET q == gcall[r] IN
    /\ q.pc = "swap"
    /\ sess' = [sess EXCEPT ![q.s] = [state |-> "active", gen |-> @.gen + 1, offers |-> q.offer]]
    /\ intr' = [c \in Call |->
                   IF Restricts(r) /\ intr[c].state = "waiting" /\ ui[c].s = q.s
                      /\ ui[c].gen = sess[q.s].gen
                   THEN [intr[c] EXCEPT !.state = "stale"] ELSE intr[c]]
    /\ Step(r, "record")
    /\ UNCHANGED <<registry, turn, chan, ui, act, inter, cont, remote, brk, mix>>

\* The provider refuses: the session goes back to active on its old generation.
RotationFails(r) ==
    /\ gcall[r].pc = "swap"
    /\ sess' = [sess EXCEPT ![gcall[r].s].state = "active"]
    /\ Reply(r, "error")
    /\ UNCHANGED <<registry, turn, chan, surfaces, brk, mix>>

recordSessionRotationApplied(r) ==
    LET q == gcall[r] IN
    /\ q.pc = "record"
    /\ audit' = [audit EXCEPT ![q.aud].applied = @ \cup {q.s}]
    /\ gcall' = [gcall EXCEPT ![r].pc = "rotate", ![r].left = @ \ {q.s}]
    /\ UNCHANGED <<code, pub, grant, sess, turn, chan, surfaces, brk, mix>>

-----------------------------------------------------------------------------
\* A rotation for a reason that withdraws nothing (a skill bound, a tool added).
OtherRotation(s) ==
    /\ mix.others /\ s \in mix.sessions
    /\ sess[s].state = "active" /\ sess[s].gen < MaxGen
    /\ ~SessionLocked(s)
    /\ sess' = [sess EXCEPT ![s].gen = @ + 1, ![s].offers = hasActiveComponentGrant]
    /\ UNCHANGED <<registry, turn, chan, surfaces, gcall, brk, mix>>

GrantStep(r) ==
    \/ setCoworkerComponentGrant(r) \/ LookupPriorAudit(r) \/ setComponentGrant(r) \/ InsertGrant(r)
    \/ StartRotation(r) \/ AllRotated(r) \/ loadControlledComponentCandidates(r)
    \/ BeginRotation(r) \/ CancelActiveTurn(r) \/ SwapGeneration(r) \/ RotationFails(r)
    \/ recordSessionRotationApplied(r)
=============================================================================
