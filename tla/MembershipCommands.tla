------------------------- MODULE MembershipCommands ------------------------
(***************************************************************************)
(* Membership of coworkers in channels, the provisioning of their provider *)
(* sessions, and the update and disabling of a coworker.                   *)
(***************************************************************************)
EXTENDS ChannelCommands

addParticipant(r) == \E k \in Key, c \in Channel, w \in Coworker :
    loadOwnedChannel(r, [NewReq EXCEPT !.kind = "channel.participant.add", !.key = k, !.ch = c,
                                       !.w = w],
                     IF cow[w].status = "active" THEN "claim" ELSE "done")

removeParticipant(r) == \E k \in Key, c \in Channel, w \in Coworker :
    loadOwnedChannel(r, [NewReq EXCEPT !.kind = "channel.participant.remove", !.key = k, !.ch = c,
                                       !.w = w], "replay")

updateCoworker(r) == \E w \in Coworker, S \in SUBSET Channel :
    Arrive(r, [NewReq EXCEPT !.kind = "coworker.update", !.w = w, !.set = S],
           IF cow[w].status = "active" THEN "plan" ELSE "done")

\* The caller sends the config_revision it last saw.
disableCoworker(r) == \E k \in Key, w \in Coworker :
    Arrive(r, [NewReq EXCEPT !.kind = "coworker.disable", !.key = k, !.w = w],
           IF cow[w].status = "absent" THEN "done" ELSE "replay")

-----------------------------------------------------------------------------
(* Replay.  The reload of a membership answers as soon as the channel       *)
(* exists, whether or not the first attempt has finished.                   *)

ReloadedMembership(r) == {res \in {Receipt(r).res} : res = ResultId(r)}

ReplayRemoval(r) ==
    /\ req[r].pc = "replay" /\ req[r].kind = "channel.participant.remove"
    /\ IF Receipt(r) # NoReceipt
       THEN IF Receipt(r).res # ResultId(r) THEN Refuse(r) ELSE Answer(r, "ok", ResultId(r))
       ELSE IF part[req[r].ch][req[r].w] = "member" THEN Goto(r, "claim") ELSE Refuse(r)
    /\ UNCHANGED <<tables, lock, mix>>

\* The revision the caller expects is compared with the row loaded first.
ReplayDisable(r) ==
    /\ req[r].pc = "replay" /\ req[r].kind = "coworker.disable"
    /\ \/ Receipt(r) # NoReceipt /\ Answer(r, "ok", Receipt(r).res)
       \/ Receipt(r) = NoReceipt /\ \E same \in BOOLEAN :
              IF same THEN Goto(r, "claim") ELSE Refuse(r)
    /\ UNCHANGED <<tables, lock, mix>>

ReloadMembership(r) ==
    /\ req[r].pc = "reload"
    /\ req[r].kind \in {"channel.participant.add", "channel.participant.remove"}
    /\ IF Receipt(r) = NoReceipt THEN Refuse(r)
       ELSE Replayed(r, Receipt(r).res # ResultId(r), ReloadedMembership(r))
    /\ UNCHANGED <<tables, lock, mix>>

ReloadDisable(r) ==
    /\ req[r].pc = "reload" /\ req[r].kind = "coworker.disable"
    /\ IF Receipt(r) = NoReceipt THEN Refuse(r) ELSE Replayed(r, FALSE, {Receipt(r).res})
    /\ UNCHANGED <<tables, lock, mix>>

-----------------------------------------------------------------------------
(* ensureCoworkerChannelSession. *)

\* The channel being provisioned, and where the command goes on.
ProvisionTarget(r) ==
    IF req[r].kind = "channel.participant.add" THEN {req[r].ch} ELSE req[r].left

AfterProvision(r, c) ==
    req' = [req EXCEPT ![r].left = @ \ {c},
                       ![r].pc = IF req[r].kind = "channel.participant.add" THEN "write"
                                 ELSE IF req[r].left = {c} THEN "finish" ELSE "run"]

NeedsSession(r) ==
    /\ req[r].pc = "run"
    /\ \/ req[r].kind = "channel.participant.add"
       \/ req[r].kind = "coworker.draft.confirm" /\ req[r].left # {}

\* The advisory lock, then the marker row, committed before the transaction opens.
withLocalProvisioningLock(r) ==
    LET w == req[r].w IN
    /\ NeedsSession(r)
    /\ lock[w] = NoRequest
    /\ lock' = [lock EXCEPT ![w] = r]
    /\ \E c \in ProvisionTarget(r) :
          /\ csess' = [csess EXCEPT ![c][w].state = IF @ = "none" THEN "marker" ELSE @]
          /\ req' = [req EXCEPT ![r].pc = "provision", ![r].ch = c]
    /\ UNCHANGED <<chan, part, cow, msg, task, pin, draft, receipt, mix>>

\* Mutant: every attempt creates a session.
reconcileNothing(c, w, spec) == {}

\* reconcileProviderSession: sessions of this spec created in the marker's window.
reconcileProviderSession(c, w, spec) == {s \in csess[c][w].made : s.spec = spec /\ ~s.late}

Unlock(w) == lock' = [lock EXCEPT ![w] = NoRequest]

\* Reuse the provider session of an earlier attempt, or create one.  The answer of a
\* create may be lost: the attempt fails and the session exists.
provisionChannelCoworkerSession(r) ==
    LET q     == req[r]
        found == reconcileProviderSession(q.ch, q.w, q.seen.cow.spec)
        new   == [by |-> r, spec |-> q.seen.cow.spec, late |-> csess[q.ch][q.w].closed]
    IN
    /\ q.pc = "provision"
    /\ csess[q.ch][q.w].state = "marker"
    /\ \/ Cardinality(found) = 1 /\ Goto(r, "persist") /\ UNCHANGED <<csess, lock>>
       \/ /\ found = {}
          /\ csess' = [csess EXCEPT ![q.ch][q.w].made = @ \cup {new}]
          /\ \/ Goto(r, "persist") /\ UNCHANGED lock
             \/ Goto(r, "fail") /\ Unlock(q.w)
       \/ Goto(r, "fail") /\ Unlock(q.w) /\ UNCHANGED csess
    /\ UNCHANGED <<chan, part, cow, msg, task, pin, draft, receipt, mix>>

\* The session already has a generation: nothing is created.
AlreadyProvisioned(r) ==
    LET q == req[r] IN
    /\ q.pc = "provision"
    /\ csess[q.ch][q.w].state = "ready"
    /\ AfterProvision(r, q.ch)
    /\ Unlock(q.w)
    /\ UNCHANGED <<tables, mix>>

\* The revision, the generation and the pointer commit together; then the lock is freed.
persistProvisionedSession(r) ==
    LET q == req[r] IN
    /\ q.pc = "persist"
    /\ csess' = [csess EXCEPT ![q.ch][q.w].state = "ready"]
    /\ AfterProvision(r, q.ch)
    /\ Unlock(q.w)
    /\ UNCHANGED <<chan, part, cow, msg, task, pin, draft, receipt, mix>>

\* Five minutes after the marker was written.
ReconcileWindowCloses(c, w) ==
    /\ csess[c][w].state = "marker"
    /\ ~csess[c][w].closed
    /\ csess' = [csess EXCEPT ![c][w].closed = TRUE]
    /\ UNCHANGED <<chan, part, cow, msg, task, pin, draft, receipt, req, lock, mix>>

-----------------------------------------------------------------------------
(* The membership transactions. *)

WriteMembership(r) ==
    LET q    == req[r]
        adds == q.kind = "channel.participant.add"
    IN
    /\ \/ q.pc = "write" /\ adds
       \/ q.pc = "run" /\ q.kind = "channel.participant.remove"
    /\ cow[q.w].rev < MaxRev
    /\ IF MembershipAdmitted(q.ch, q.w, adds)
       THEN upsertParticipantMembership(q.ch, q.w, adds) /\ Succeeded(r, ResultId(r))
       ELSE Goto(r, "fail") /\ UNCHANGED <<part, cow, chan>>
    /\ UNCHANGED <<csess, msg, task, pin, draft, receipt, lock, mix>>

\* validateMembershipTargets and buildTaskGrants: archived channels are neither joined nor left.
validateMembershipTargets(r) ==
    LET q       == req[r]
        members == {c \in Channel : part[c][q.w] = "member"}
    IN
    /\ q.pc = "plan" /\ q.kind = "coworker.update"
    /\ IF \A c \in q.set \cup members : chan[c].status = "active"
       THEN req' = [req EXCEPT ![r].pc = "write", ![r].seen.members = members]
       ELSE Refuse(r)
    /\ UNCHANGED <<tables, lock, mix>>

\* The memberships that change are events of their channels.
WriteCoworker(r) ==
    LET q    == req[r]
        left == q.seen.members \ q.set
        plan == [c \in q.set \cup left |-> IF c \in q.set THEN "member" ELSE "removed"]
    IN
    /\ q.pc = "write" /\ q.kind = "coworker.update"
    /\ cow[q.w].rev < MaxRev
    /\ IF UpdateAdmitted(q.w, q.seen.cow, DOMAIN plan)
       THEN /\ commitCoworkerUpdate(q.w, q.set, q.set, plan, left \cup (q.set \ q.seen.members))
            /\ Answer(r, "ok", [NoResult EXCEPT !.w = q.w])
       ELSE Refuse(r) /\ UNCHANGED <<part, cow, chan>>
    /\ UNCHANGED <<csess, msg, task, pin, draft, receipt, lock, mix>>

PlanDisable(r) ==
    LET q == req[r] IN
    /\ q.pc = "run" /\ q.kind = "coworker.disable"
    /\ IF q.seen.cow.status = "disabled" THEN Succeeded(r, ResultId(r))
       ELSE req' = [req EXCEPT ![r].pc = "write",
                               ![r].seen.members = {c \in Channel : part[c][q.w] = "member"}]
    /\ UNCHANGED <<tables, lock, mix>>

WriteDisable(r) ==
    LET q == req[r] IN
    /\ q.pc = "write" /\ q.kind = "coworker.disable"
    /\ cow[q.w].rev < MaxRev
    /\ IF cow[q.w].rev = q.seen.cow.rev /\ cow[q.w].status = "active"
       THEN disableCoworkerCleanup(q.w, q.seen.members) /\ Succeeded(r, ResultId(r))
       ELSE /\ IF cow[q.w].status = "disabled" /\ cow[q.w].rev = q.seen.cow.rev + 1
               THEN Succeeded(r, ResultId(r)) ELSE Goto(r, "fail")
            /\ UNCHANGED <<part, cow, chan>>
    /\ UNCHANGED <<csess, msg, task, pin, draft, receipt, lock, mix>>

MembershipStep(r) ==
    \/ addParticipant(r) \/ removeParticipant(r) \/ updateCoworker(r) \/ disableCoworker(r)
    \/ ReplayRemoval(r) \/ ReplayDisable(r) \/ ReloadMembership(r) \/ ReloadDisable(r)
    \/ withLocalProvisioningLock(r) \/ provisionChannelCoworkerSession(r)
    \/ AlreadyProvisioned(r) \/ persistProvisionedSession(r)
    \/ WriteMembership(r) \/ validateMembershipTargets(r) \/ WriteCoworker(r)
    \/ PlanDisable(r) \/ WriteDisable(r)
=============================================================================
