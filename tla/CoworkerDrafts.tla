--------------------------- MODULE CoworkerDrafts --------------------------
(***************************************************************************)
(* Coworker drafts: a proposal is created, revised, rejected or confirmed; *)
(* a confirmation makes the coworker and its memberships in one            *)
(* transaction and then a provider session for each of its channels.       *)
(***************************************************************************)
EXTENDS TaskCommands

COWORKER_DRAFT_TRANSITIONS ==
    [awaiting_review     |-> {"confirmed", "superseded", "expired", "rejected"},
     failed_provisioning |-> {"provisioning"},
     ready |-> {}, superseded |-> {}, expired |-> {}, rejected |-> {}, absent |-> {}]

Reviewable(d) == draft[d].state = "awaiting_review"

\* resolveCoworkerDraft: a free handle and the channels that are open.
resolveCoworkerDraft ==
    [who : {w \in Coworker : cow[w].status = "absent"},
     chans : {{c \in Channel : chan[c].status = "active"}}]

createCoworkerDraft(r) == \E k \in Key :
    Arrive(r, [NewReq EXCEPT !.kind = "coworker.draft.create", !.key = k], "claim")

\* The other commands name a draft, with the revision the caller reviewed.
OnDraft(r, kind) == \E k \in Key, d \in ObjId :
    /\ draft[d].state # "absent"
    /\ Arrive(r, [NewReq EXCEPT !.kind = kind, !.key = k, !.obj = d, !.w = draft[d].who,
                                !.rev = draft[d].rev], "claim")

reviseCoworkerDraft(r)  == OnDraft(r, "coworker.draft.revise")
rejectCoworkerDraft(r)  == OnDraft(r, "coworker.draft.reject")
confirmCoworkerDraft(r) == OnDraft(r, "coworker.draft.confirm")

\* The reload of a revision compares its receipt with a result_id no receipt has.
ReloadedDraft(r) ==
    LET res == Receipt(r).res
        q   == req[r]
    IN  CASE q.kind = "coworker.draft.create" -> {v \in {res} : draft[v.obj].state # "absent"}
          [] q.kind = "coworker.draft.revise" -> {}
          [] OTHER -> {v \in {res} : /\ v.obj = q.obj
                                     /\ draft[q.obj].state = IF q.kind = "coworker.draft.reject"
                                                             THEN "rejected" ELSE "ready"}

ReloadDraft(r) ==
    /\ req[r].pc = "reload"
    /\ req[r].kind \in {"coworker.draft.create", "coworker.draft.revise",
                        "coworker.draft.reject", "coworker.draft.confirm"}
    /\ IF Receipt(r) = NoReceipt THEN Refuse(r) ELSE Replayed(r, FALSE, ReloadedDraft(r))
    /\ UNCHANGED <<tables, lock, mix>>

OnlyDraft == UNCHANGED <<chan, part, cow, csess, msg, task, pin, receipt, lock, mix>>

\* updateCoworkerDraftState is guarded by the revision, not by the state.
updateCoworkerDraftState(d, state) == [draft EXCEPT ![d].state = state]

\* The same body awaiting review is returned; otherwise every other draft is superseded
\* and the new one takes a revision above those of equal drafts.
insertCoworkerDraftWithSupersede(r) ==
    /\ req[r].pc = "run" /\ req[r].kind = "coworker.draft.create"
    /\ \E b \in resolveCoworkerDraft :
          LET same  == {d \in ObjId : /\ draft[d].state # "absent"
                                      /\ draft[d].who = b.who /\ draft[d].chans = b.chans}
              first == {d \in same : draft[d].rev = 1 /\ Reviewable(d)}
              rev   == 1 + Cardinality({draft[d].rev : d \in same})
          IN  IF first # {}
              THEN \E d \in first : Succeeded(r, [NoResult EXCEPT !.obj = d]) /\ UNCHANGED draft
              ELSE /\ draft' = [d \in ObjId |->
                         IF d = r THEN [state |-> "awaiting_review", rev |-> rev, who |-> b.who,
                                        chans |-> b.chans, expired |-> FALSE]
                         ELSE IF Reviewable(d) THEN [draft[d] EXCEPT !.state = "superseded"]
                         ELSE draft[d]]
                   /\ Succeeded(r, ResultId(r))
    /\ OnlyDraft

\* Revise and reject read the draft, then write it.
ReadDraft(r) ==
    LET q == req[r] IN
    /\ q.pc = "run" /\ q.kind \in {"coworker.draft.revise", "coworker.draft.reject"}
    /\ IF /\ draft[q.obj].rev = q.rev
          /\ IF q.kind = "coworker.draft.revise" THEN Reviewable(q.obj)
             ELSE "rejected" \in COWORKER_DRAFT_TRANSITIONS[draft[q.obj].state]
       THEN req' = [req EXCEPT ![r].pc = "write", ![r].seen.draft = draft[q.obj]]
       ELSE Goto(r, "fail")
    /\ UNCHANGED <<tables, lock, mix>>

RejectDraft(r) ==
    /\ req[r].pc = "write" /\ req[r].kind = "coworker.draft.reject"
    /\ draft' = updateCoworkerDraftState(req[r].obj, "rejected")
    /\ Succeeded(r, ResultId(r))
    /\ OnlyDraft

SupersedeRevised(r) ==
    /\ req[r].pc = "write" /\ req[r].kind = "coworker.draft.revise"
    /\ draft' = updateCoworkerDraftState(req[r].obj, "superseded")
    /\ Goto(r, "fanout")
    /\ OnlyDraft

\* coworker_drafts_workspace_hash_revision_uidx refuses an equal draft of that revision.
insertResolvedDraft(r) ==
    LET rev == req[r].seen.draft.rev + 1 IN
    /\ req[r].pc = "fanout" /\ req[r].kind = "coworker.draft.revise"
    /\ \E b \in resolveCoworkerDraft :
          IF \E d \in ObjId : /\ draft[d].state # "absent" /\ draft[d].rev = rev
                              /\ draft[d].who = b.who /\ draft[d].chans = b.chans
          THEN Goto(r, "fail") /\ UNCHANGED draft
          ELSE /\ draft' = [draft EXCEPT ![r] = [state |-> "awaiting_review", rev |-> rev,
                                                 who |-> b.who, chans |-> b.chans,
                                                 expired |-> FALSE]]
               /\ Succeeded(r, [NoResult EXCEPT !.obj = r])
    /\ OnlyDraft

\* provisionCoworkerFromDraft: the draft still awaits the review it was given, and its
\* handle is free; or it is ready and its coworker exists.
provisionCoworkerFromDraft(r) ==
    LET q == req[r]
        d == draft[q.obj]
        Confirmed(row) == [req EXCEPT ![r].seen.cow = row, ![r].left = row.chans,
                                      ![r].res = ResultId(r),
                                      ![r].pc = IF row.chans = {} THEN "finish" ELSE "run"]
        made == [status |-> "active", rev |-> 1, spec |-> 1, chans |-> d.chans, grants |-> {}]
    IN
    /\ q.pc = "run" /\ q.kind = "coworker.draft.confirm" /\ q.left = {}
    /\ IF d.expired
       THEN /\ draft' = [draft EXCEPT ![q.obj].state =
                            IF @ = "awaiting_review" THEN "expired" ELSE @]
            /\ Goto(r, "fail") /\ UNCHANGED <<cow, part>>
       ELSE IF cow[q.w].status # "absent"
       THEN /\ IF d.state = "ready" THEN req' = Confirmed(cow[q.w]) ELSE Goto(r, "fail")
            /\ UNCHANGED <<draft, cow, part>>
       ELSE IF d.state = "awaiting_review" /\ d.rev = q.rev
       THEN /\ cow' = [cow EXCEPT ![q.w] = made]
            /\ part' = [c \in Channel |-> [part[c] EXCEPT ![q.w] =
                                              IF c \in d.chans THEN "member" ELSE @]]
            /\ draft' = updateCoworkerDraftState(q.obj, "ready")
            /\ req' = Confirmed(made)
       ELSE Goto(r, "fail") /\ UNCHANGED <<draft, cow, part>>
    /\ UNCHANGED <<chan, csess, msg, task, pin, receipt, lock, mix>>

\* A session that could not be provisioned marks the draft before the command fails.
FailedProvisioning(r) ==
    /\ req[r].pc = "fail" /\ req[r].left # {}
    /\ draft' = updateCoworkerDraftState(req[r].obj, "failed_provisioning")
    /\ req' = [req EXCEPT ![r].left = {}]
    /\ OnlyDraft

DraftExpires(d) ==
    /\ "coworker.draft.confirm" \in mix.kinds
    /\ Reviewable(d) /\ ~draft[d].expired
    /\ draft' = [draft EXCEPT ![d].expired = TRUE]
    /\ UNCHANGED <<chan, part, cow, csess, msg, task, pin, receipt, req, lock, mix>>

DraftStep(r) ==
    \/ createCoworkerDraft(r) \/ reviseCoworkerDraft(r) \/ rejectCoworkerDraft(r)
    \/ confirmCoworkerDraft(r) \/ ReloadDraft(r) \/ insertCoworkerDraftWithSupersede(r)
    \/ ReadDraft(r) \/ RejectDraft(r) \/ SupersedeRevised(r) \/ insertResolvedDraft(r)
    \/ provisionCoworkerFromDraft(r) \/ FailedProvisioning(r)
=============================================================================
