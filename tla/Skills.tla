------------------------------- MODULE Skills -------------------------------
(***************************************************************************)
(* Private skills: drafted from a finished run, published, attached to a   *)
(* coworker and detached again.  An attachment changes the coworker's      *)
(* configuration, which a person may be editing at the same time, and then *)
(* rotates every session so that it pins the skill.                        *)
(*                                                                         *)
(* A call is one request under one idempotency key.  One that threw, or    *)
(* whose process died, may be sent again under the same key (the receipts  *)
(* themselves are CommandReceipts); a refusal deletes its receipt.         *)
(***************************************************************************)
EXTENDS Naturals, FiniteSets

CONSTANTS None,         \* the absent value of a nullable column, here and in the modules that extend this
          Skill,        \* one skill per source run; its stable name is unique
          Tool,
          Required,     \* the tools each skill's manifest requires
          SkillCall,
          Seat,         \* the coworker's channel sessions
          Scripts,      \* which kinds of call arrive in one behaviour
          MaxTries      \* how often a call is sent

ASSUME TriesAreCounted == MaxTries \in Nat \ {0}

VARIABLES skill,        \* the state of each skill's only version
          markdown,     \* versions whose markdown file exists
          prof,         \* the coworker's row
          binding,      \* agent_skill_bindings, by the call that made them
          seat,         \* what each session's generation pins and offers
          scall

skillVars == <<skill, markdown, prof, binding, seat, scall>>

ProfileRow == [rev : Nat, active : BOOLEAN, skills : SUBSET Skill, tools : SUBSET Tool]

SkillBindingRow == [state : {"none", "active", "detached"}, k : Skill \cup {None}]

SeatRow == [rotating : BOOLEAN, skills : SUBSET Skill, tools : SUBSET Tool]

SkillKind == {"none", "draft", "publish", "attach", "detach", "edit"}

ASSUME ScriptsAreKinds == \A script \in Scripts, r \in SkillCall : script[r] \in SkillKind

\* snap: the coworker as read when the call began; goal: the configuration it wants;
\* manifests: the skills whose manifests it passes to the rotation.
SkillCallRow == [pc : {"new", "form", "turn", "insert", "commit", "decide", "file", "rotate", "swap",
                       "threw", "done"},
                 kind : SkillKind, k : Skill \cup {None}, b : SkillCall \cup {None},
                 snap : ProfileRow, skills : SUBSET Skill, tools : SUBSET Tool,
                 manifests : SUBSET Skill, left : SUBSET Seat, s : Seat \cup {None},
                 tries : 1..MaxTries, ans : {"none", "ok", "refused", "threw"}]

NewProfile == [rev |-> 0, active |-> TRUE, skills |-> {}, tools |-> Tool]

NewSkillCall == [pc |-> "new", kind |-> "none", k |-> None, b |-> None, snap |-> NewProfile,
                 skills |-> {}, tools |-> {}, manifests |-> {}, left |-> {}, s |-> None,
                 tries |-> 1, ans |-> "none"]

SkillAnswer(r, ans) ==
    scall' = [scall EXCEPT ![r].pc = IF ans = "threw" THEN "threw" ELSE "done", ![r].ans = ans]

SkillGo(r, pc) == scall' = [scall EXCEPT ![r].pc = pc]

At(r, kind, pc) == scall[r].kind = kind /\ scall[r].pc = pc

\* A call sent again names what it named before.
Named(x, S) == IF x = None THEN S ELSE {x}

-----------------------------------------------------------------------------
(* Drafting and publishing. *)

\* loadSkillRunEvidence: the run, its events, approvals and components, if it is the workspace's.
createSkillDraftForRun(r) ==
    /\ At(r, "draft", "new")
    /\ \/ \E k \in Named(scall[r].k, Skill) : scall' = [scall EXCEPT ![r].pc = "turn", ![r].k = k]
       \/ SkillAnswer(r, "refused")
    /\ UNCHANGED <<skill, markdown, prof, binding, seat>>

\* How the wait for the drafting turn ends: its deadline, or what the provider reports.
waitForTurnDone == {"done", "failed", "timeout", "unreachable"}

\* assertRunEligibleForSkillDraft: a completed run, completed steps of it, and safe payloads.
RunEligible == BOOLEAN

\* A drafting turn writes the narrative; only then is the evidence judged.
buildSkillDraftBodyFromTurn(r) ==
    /\ At(r, "draft", "turn")
    /\ \E end \in waitForTurnDone, eligible \in RunEligible :
          IF end = "unreachable" THEN SkillAnswer(r, "threw")
          ELSE IF end = "done" /\ eligible THEN SkillGo(r, "insert")
          ELSE SkillAnswer(r, "refused")
    /\ UNCHANGED <<skill, markdown, prof, binding, seat>>

\* Skill, version and event in one transaction; the stable name of a run's skill is unique.
createSkillDraftRecord(r) ==
    /\ At(r, "draft", "insert")
    /\ IF skill[scall[r].k] = "none"
       THEN skill' = [skill EXCEPT ![scall[r].k] = "draft"] /\ SkillAnswer(r, "ok")
       ELSE UNCHANGED skill /\ SkillAnswer(r, "threw")
    /\ UNCHANGED <<markdown, prof, binding, seat>>

\* validateSkillDraftPublish: the revision and the hashes the person saw.
DraftAsSeen == BOOLEAN

\* A published version is answered at once, whatever was seen.
publishSkillDraftForSession(r) ==
    /\ At(r, "publish", "new")
    /\ \E k \in Named(scall[r].k, Skill), asSeen \in DraftAsSeen :
          IF skill[k] = "published" THEN SkillAnswer(r, "ok")
          ELSE IF skill[k] = "draft" /\ asSeen
          THEN scall' = [scall EXCEPT ![r].pc = "commit", ![r].k = k]
          ELSE SkillAnswer(r, "refused")
    /\ UNCHANGED <<skill, markdown, prof, binding, seat>>

\* The loser of two publications finds the event's id taken.
publishSkillDraftRecord(r) ==
    /\ At(r, "publish", "commit")
    /\ IF skill[scall[r].k] = "draft"
       THEN skill' = [skill EXCEPT ![scall[r].k] = "published"] /\ SkillGo(r, "file")
       ELSE UNCHANGED skill /\ SkillAnswer(r, "threw")
    /\ UNCHANGED <<markdown, prof, binding, seat>>

\* Only the request that published writes the file, after its commit.
materializeSkillMarkdown(r) ==
    /\ At(r, "publish", "file")
    /\ \/ markdown' = markdown \cup {scall[r].k} /\ SkillAnswer(r, "ok")
       \/ UNCHANGED markdown /\ SkillAnswer(r, "threw")
    /\ UNCHANGED <<skill, prof, binding, seat>>

-----------------------------------------------------------------------------
(* Attaching and detaching. *)

\* A skill may be attached only if what it requires is already granted.
decideSkillAttach(k, tools) == Required[k] \subseteq tools

\* Pinned skills keep their place only with a manifest at hand and its requirements met.
intersectPinnedSkills(pinned, manifests, tools) ==
    {k \in pinned \cap manifests : decideSkillAttach(k, tools)}

\* The coworker is read before the receipt is claimed; the command names the skill or binding.
createSkillBinding(r) ==
    /\ At(r, "attach", "new")
    /\ \E k \in Named(scall[r].k, Skill) :
          scall' = [scall EXCEPT ![r].pc = "decide", ![r].k = k, ![r].snap = prof]
    /\ UNCHANGED <<skill, markdown, prof, binding, seat>>

ActiveBinding(k) == {b \in SkillCall : binding[b].state = "active" /\ binding[b].k = k}

\* The revision the person saw, the published version and its requirements are compared with the
\* coworker as it was read; a skill that is already attached is answered without a rotation.
attachSkillBindingForSession(r) ==
    LET q == scall[r] IN
    /\ At(r, "attach", "decide")
    /\ \/ q.snap.rev > 0 /\ SkillAnswer(r, "refused")
       \/ IF skill[q.k] # "published" \/ ~decideSkillAttach(q.k, q.snap.tools)
          THEN SkillAnswer(r, "refused")
          ELSE IF ActiveBinding(q.k) # {} THEN SkillAnswer(r, "ok")
          ELSE scall' = [scall EXCEPT ![r].pc = "commit", ![r].skills = q.snap.skills \cup {q.k},
                                      ![r].tools = q.snap.tools, ![r].manifests = {q.k}]
    /\ UNCHANGED <<skill, markdown, prof, binding, seat>>

\* Mutant: the locked row's revision is not compared.
ActiveAtAnyRevision(r) == prof.active

\* The locked row must still be the one the call read.
ConfigCurrent(r) == prof.active /\ prof.rev = scall[r].snap.rev

\* The new configuration replaces the whole of the old one.
WriteConfig(r) ==
    prof' = [prof EXCEPT !.rev = scall[r].snap.rev + 1, !.skills = scall[r].skills, !.tools = scall[r].tools]

attachSkillBindingRecord(r) ==
    LET q == scall[r] IN
    /\ At(r, "attach", "commit")
    /\ IF ConfigCurrent(r)
       THEN /\ WriteConfig(r)
            /\ binding' = [binding EXCEPT ![r] = [state |-> "active", k |-> q.k]]
            /\ scall' = [scall EXCEPT ![r].pc = "rotate", ![r].left = Seat]
       ELSE UNCHANGED <<prof, binding>> /\ SkillAnswer(r, "refused")
    /\ UNCHANGED <<skill, markdown, seat>>

deleteSkillBinding(r) ==
    /\ At(r, "detach", "new")
    /\ \E b \in Named(scall[r].b, SkillCall) :
          scall' = [scall EXCEPT ![r].pc = "decide", ![r].b = b, ![r].snap = prof]
    /\ UNCHANGED <<skill, markdown, prof, binding, seat>>

\* The binding must be in the state the person saw; no manifest is passed on.
detachSkillBindingForSession(r) ==
    LET q == scall[r] IN
    /\ At(r, "detach", "decide")
    /\ IF binding[q.b].state # "active" THEN SkillAnswer(r, "refused")
       ELSE scall' = [scall EXCEPT ![r].pc = "commit", ![r].k = binding[q.b].k,
                        ![r].skills = q.snap.skills \ {binding[q.b].k},
                        ![r].tools = q.snap.tools, ![r].manifests = {}]
    /\ UNCHANGED <<skill, markdown, prof, binding, seat>>

\* A binding found detached is answered at once, unless the read came before the other detach.
detachSkillBindingRecord(r) ==
    LET q == scall[r] IN
    /\ At(r, "detach", "commit")
    /\ \/ /\ binding[q.b].state = "detached"
          /\ UNCHANGED <<prof, binding>> /\ SkillAnswer(r, "ok")
       \/ IF ConfigCurrent(r)
          THEN /\ WriteConfig(r)
               /\ binding' = [binding EXCEPT ![q.b].state = "detached"]
               /\ scall' = [scall EXCEPT ![r].pc = "rotate", ![r].left = Seat]
          ELSE UNCHANGED <<prof, binding>> /\ SkillAnswer(r, "refused")
    /\ UNCHANGED <<skill, markdown, seat>>

-----------------------------------------------------------------------------
(* The coworker's other writers. *)

\* A client reads the coworker: its command will carry the skills shown then, and a set of tools.
OpenEditForm(r) ==
    /\ At(r, "edit", "new")
    /\ \E tools \in SUBSET Tool :
          scall' = [scall EXCEPT ![r].pc = "form", ![r].skills = prof.skills, ![r].tools = tools]
    /\ UNCHANGED <<skill, markdown, prof, binding, seat>>

\* The command carries no revision: the row compared at the commit is the one read here.
SubmitEditForm(r) ==
    /\ At(r, "edit", "form")
    /\ IF prof.active THEN scall' = [scall EXCEPT ![r].pc = "commit", ![r].snap = prof]
       ELSE SkillAnswer(r, "refused")
    /\ UNCHANGED <<skill, markdown, prof, binding, seat>>

commitCoworkerUpdate(r) ==
    /\ At(r, "edit", "commit")
    /\ IF ConfigCurrent(r)
       THEN WriteConfig(r) /\ scall' = [scall EXCEPT ![r].pc = "rotate", ![r].left = Seat]
       ELSE UNCHANGED prof /\ SkillAnswer(r, "refused")
    /\ UNCHANGED <<skill, markdown, binding, seat>>

disableCoworkerCleanup ==
    /\ prof.active
    /\ prof' = [prof EXCEPT !.active = FALSE, !.rev = @ + 1]
    /\ UNCHANGED <<skill, markdown, binding, seat, scall>>

-----------------------------------------------------------------------------
(* rotateSkillBindingSessions, and updateCoworker's loop over its sessions. *)

\* beginSessionRotation throws when the session is already rotating.
BeginSeatRotation(r) ==
    LET q == scall[r] IN
    /\ q.pc = "rotate" /\ q.left # {}
    /\ \E s \in q.left :
          IF seat[s].rotating THEN UNCHANGED seat /\ SkillAnswer(r, "threw")
          ELSE /\ seat' = [seat EXCEPT ![s].rotating = TRUE]
               /\ scall' = [scall EXCEPT ![r].pc = "swap", ![r].s = s, ![r].left = @ \ {s}]
    /\ UNCHANGED <<skill, markdown, prof, binding>>

\* The generation swapped in is compiled from the call's own copy of the coworker.
SwapSeat(r) ==
    LET q == scall[r] IN
    /\ q.pc = "swap"
    /\ seat' = [seat EXCEPT ![q.s] =
                  [rotating |-> FALSE, tools |-> q.tools,
                   skills |-> intersectPinnedSkills(q.skills, q.manifests, q.tools)]]
    /\ SkillGo(r, "rotate")
    /\ UNCHANGED <<skill, markdown, prof, binding>>

\* The provider refuses: the old generation is restored and the error rethrown.
AbortSeatRotation(r) ==
    LET q == scall[r] IN
    /\ q.pc = "swap"
    /\ seat' = [seat EXCEPT ![q.s].rotating = FALSE]
    /\ SkillAnswer(r, "threw")
    /\ UNCHANGED <<skill, markdown, prof, binding>>

SeatsRotated(r) ==
    /\ scall[r].pc = "rotate" /\ scall[r].left = {}
    /\ SkillAnswer(r, "ok")
    /\ UNCHANGED <<skill, markdown, prof, binding, seat>>

-----------------------------------------------------------------------------
(* Failures and retries. *)

\* What the receipt's result id finds: the draft, the published version or the binding.
ReloadedSkillResult(r) ==
    LET q == scall[r] IN
    \/ q.kind = "draft" /\ q.k # None /\ skill[q.k] = "draft"
    \/ q.kind = "publish" /\ q.k # None /\ skill[q.k] = "published"
    \/ q.kind = "attach" /\ binding[r].state # "none"
    \/ q.kind = "detach" /\ q.b # None /\ binding[q.b].state # "none"

\* The same key again: a result that can be reloaded is the answer, otherwise the command runs.
RetrySkillCall(r) ==
    LET q == scall[r] IN
    /\ q.pc = "threw" /\ q.kind # "edit" /\ q.tries < MaxTries
    /\ IF ReloadedSkillResult(r)
       THEN scall' = [scall EXCEPT ![r].pc = "done", ![r].ans = "ok", ![r].tries = @ + 1]
       ELSE scall' = [scall EXCEPT ![r] = [NewSkillCall EXCEPT
                                     !.kind = q.kind, !.k = q.k, !.b = q.b, !.tries = q.tries + 1]]
    /\ UNCHANGED <<skill, markdown, prof, binding, seat>>

\* The API process dies: a session it was rotating stays rotating.
SkillProcessDies ==
    /\ \E r \in SkillCall : scall[r].pc \notin {"new", "form", "threw", "done"}
    /\ scall' = [r \in SkillCall |->
                    IF scall[r].pc \in {"new", "form", "threw", "done"} THEN scall[r]
                    ELSE [scall[r] EXCEPT !.pc = "threw", !.ans = "threw"]]
    /\ UNCHANGED <<skill, markdown, prof, binding, seat>>

SkillStart(script) ==
    /\ scall = [r \in SkillCall |-> [NewSkillCall EXCEPT !.kind = script[r]]]
    /\ skill = [k \in Skill |->
                  IF \E r \in SkillCall : script[r] = "draft" THEN "none" ELSE "published"]
    /\ markdown = {k \in Skill : skill[k] = "published"}
    /\ prof = NewProfile
    /\ binding = [r \in SkillCall |-> [state |-> "none", k |-> None]]
    /\ seat = [s \in Seat |-> [rotating |-> FALSE, skills |-> {}, tools |-> Tool]]

SkillInit == \E script \in Scripts : SkillStart(script)

SkillCallStep(r) ==
    \/ createSkillDraftForRun(r) \/ buildSkillDraftBodyFromTurn(r) \/ createSkillDraftRecord(r)
    \/ publishSkillDraftForSession(r) \/ publishSkillDraftRecord(r) \/ materializeSkillMarkdown(r)
    \/ createSkillBinding(r) \/ attachSkillBindingForSession(r) \/ attachSkillBindingRecord(r)
    \/ deleteSkillBinding(r) \/ detachSkillBindingForSession(r) \/ detachSkillBindingRecord(r)
    \/ OpenEditForm(r) \/ SubmitEditForm(r) \/ commitCoworkerUpdate(r)
    \/ BeginSeatRotation(r) \/ SwapSeat(r) \/ AbortSeatRotation(r) \/ SeatsRotated(r)
    \/ RetrySkillCall(r)

SkillStep ==
    \/ \E r \in SkillCall : SkillCallStep(r)
    \/ disableCoworkerCleanup
    \/ SkillProcessDies
=============================================================================
