-------------------------- MODULE WorkspaceTables --------------------------
(***************************************************************************)
(* The rows the workspace service keeps (channels, memberships, coworkers, *)
(* sessions, messages, tasks, pins, coworker drafts, command receipts) and *)
(* the store transactions over them, each as the set of columns it checks  *)
(* and the next value of the rows it writes.                               *)
(*                                                                         *)
(* A request generates the id of the row it wants to insert, so the rows   *)
(* requests insert are named by the request.  There is one workspace; the  *)
(* checks that a row belongs to the caller's workspace always succeed.     *)
(***************************************************************************)
EXTENDS Naturals, FiniteSets, TLC

CONSTANTS
    Channel,    \* channels that exist at the start
    Coworker,   \* coworker handles
    Request,    \* requests to the API, each sent once; a retry is another request
    NoRequest,  \* no lease owner, no row
    Old,        \* a message, a task and a draft that exist at the start
    Staff,      \* coworkers that are active at the start
    Member,     \* those that are members, with a session, of every channel
    Key,        \* idempotency keys
    MaxRev      \* bound on the config_revision of a coworker and on task revisions

ASSUME IdAssumption == /\ NoRequest \notin Request \cup Channel \cup Coworker \cup Key \cup {Old}
                       /\ Old \notin Request /\ IsFiniteSet(Request)
                       /\ Channel # {} /\ Channel \cap Request = {} /\ Coworker # {}
ASSUME StaffAssumption == Member \subseteq Staff /\ Staff \subseteq Coworker
ASSUME RevAssumption == MaxRev \in Nat

VARIABLES
    chan,     \* channels
    part,     \* channel_participants, by channel and coworker
    cow,      \* agent_profiles with the channel_ids of their editable config
    csess,    \* channel_agent_sessions, by channel and coworker
    msg,      \* messages and whether their run exists
    task,     \* tasks with the numbers of their task_revisions
    pin,      \* channel_pins
    draft,    \* coworker_drafts
    receipt   \* workspace_command_receipts, by command kind and key

tables == <<chan, part, cow, csess, msg, task, pin, draft, receipt>>

ChanId == Channel \cup Request
ObjId  == Request \cup {Old}

TaskStatus == {"todo", "in_progress", "blocked", "in_review", "done", "cancelled"}

TASK_TRANSITIONS ==
    [todo        |-> {"in_progress", "blocked", "cancelled"},
     in_progress |-> {"blocked", "in_review", "done", "cancelled"},
     blocked     |-> {"in_progress", "cancelled"},
     in_review   |-> {"in_progress", "done", "cancelled"},
     done        |-> {},
     cancelled   |-> {}]

DraftState == {"absent", "awaiting_review", "ready", "superseded", "expired", "rejected",
               "failed_provisioning"}

CommandKind == {"channel.create", "channel.update", "channel.archive",
                "channel.participant.add", "channel.participant.remove", "channel.message",
                "channel.pin.create", "channel.pin.remove", "task.create", "task.update",
                "coworker.update", "coworker.disable", "coworker.draft.create",
                "coworker.draft.revise", "coworker.draft.confirm", "coworker.draft.reject"}

ChanRow == [status : {"absent", "active", "archived"}, next : Nat]
\* grants: the channels for which the coworker holds an active TaskRecord grant.
\* spec: the part of the config an agent spec is compiled from, by version.
CowRow  == [status : {"absent", "active", "disabled"}, rev : Nat, spec : Nat,
            chans : SUBSET Channel, grants : SUBSET Channel]
PartState == {"none", "member", "removed"}
\* marker: a rotating row with no generation.  made: the provider sessions created for the
\* pair, by request, with the spec they run; late when created after the window that
\* reconciliation searches; closed: the window has passed.
SessRow == [state : {"none", "marker", "ready"}, closed : BOOLEAN,
            made : SUBSET [by : Request, spec : Nat, late : BOOLEAN]]
MsgRow  == [chan : Channel \cup {NoRequest}, run : BOOLEAN]
TaskRow == [status : TaskStatus \cup {"absent"}, rev : Nat, who : Coworker \cup {NoRequest},
            chan : Channel, revs : SUBSET Nat]
PinRow  == [state : {"absent", "active", "removed"}, chan : Channel, src : ObjId]
\* The body of a draft (its hash) is its handle and its channels.
DraftRow == [state : DraftState, rev : Nat, who : Coworker, chans : SUBSET Channel,
             expired : BOOLEAN]

\* What a result_id names: a channel, a coworker and a row, those that apply.
Result == [ch : Channel \cup {NoRequest}, w : Coworker \cup {NoRequest},
           obj : ObjId \cup {NoRequest}]
NoResult == [ch |-> NoRequest, w |-> NoRequest, obj |-> NoRequest]

\* done: result_json is stored, for the row json; final: a pin command has rewritten result_id.
ReceiptRow == [owner : Request \cup {NoRequest}, res : Result, json : ObjId \cup {NoRequest},
               done : BOOLEAN, final : BOOLEAN, stale : BOOLEAN]
NoReceipt == [owner |-> NoRequest, res |-> NoResult, json |-> NoRequest,
              done |-> FALSE, final |-> FALSE, stale |-> FALSE]

TablesOK ==
    /\ chan \in [ChanId -> ChanRow]
    /\ part \in [Channel -> [Coworker -> PartState]]
    /\ cow \in [Coworker -> CowRow]
    /\ csess \in [Channel -> [Coworker -> SessRow]]
    /\ msg \in [ObjId -> MsgRow]
    /\ task \in [ObjId -> TaskRow]
    /\ pin \in [Request -> PinRow]
    /\ draft \in [ObjId -> DraftRow]
    /\ DOMAIN receipt \subseteq CommandKind \X Key
    /\ \A k \in DOMAIN receipt : receipt[k] \in ReceiptRow

-----------------------------------------------------------------------------
(* Store transactions. *)

\* appendChannelEvent takes the next sequence of the locked channel row.
appendChannelEvent(c, status) == [chan EXCEPT ![c].next = @ + 1, ![c].status = status]

Appended(S) == [c \in ChanId |-> IF c \in S THEN [chan[c] EXCEPT !.next = @ + 1] ELSE chan[c]]

insertChannelWithOwner(r) == [chan EXCEPT ![r] = [status |-> "active", next |-> 1]]

\* The membership transaction keeps the participant row and the coworker's
\* channel_ids together and takes a new config_revision.
MembershipAdmitted(c, w, adds) ==
    /\ chan[c].status = "active"
    /\ cow[w].status # "absent"
    /\ adds => cow[w].status = "active"

upsertParticipantMembership(c, w, adds) ==
    /\ part' = [part EXCEPT ![c][w] = IF adds THEN "member" ELSE "removed"]
    /\ cow' = [cow EXCEPT ![w].chans = IF adds THEN @ \cup {c} ELSE @ \ {c}, ![w].rev = @ + 1]
    /\ chan' = appendChannelEvent(c, chan[c].status)

\* Mutant: the revision is not compared.
UpdateAdmittedAnyRevision(w, seen, touched) ==
    (\A c \in touched : chan[c].status = "active") /\ cow[w].status = "active"

\* commitCoworkerUpdate compares the coworker with the row the plan was made from.
UpdateAdmitted(w, seen, touched) ==
    /\ \A c \in touched : chan[c].status = "active"
    /\ cow[w].rev = seen.rev
    /\ cow[w].status = "active"

commitCoworkerUpdate(w, wanted, grants, plan, events) ==
    /\ part' = [c \in Channel |-> [part[c] EXCEPT ![w] = IF c \in DOMAIN plan THEN plan[c] ELSE @]]
    /\ cow' = [cow EXCEPT ![w].chans = wanted, ![w].grants = grants, ![w].rev = @ + 1,
                         ![w].spec = @ + 1]
    /\ chan' = Appended(events)

disableCoworkerCleanup(w, events) ==
    /\ part' = [c \in Channel |-> [part[c] EXCEPT ![w] = IF @ = "member" THEN "removed" ELSE @]]
    /\ cow' = [cow EXCEPT ![w].status = "disabled", ![w].rev = @ + 1,
                         ![w].chans = {}, ![w].grants = {}]
    /\ chan' = Appended(events)

\* Mutant: only the assignee is checked again.
AssigneeValid(c, who) == who # NoRequest => cow[who].status = "active" /\ part[c][who] = "member"

\* validateTaskWriteSql: the channel is open and a coworker assignee an active member.
TaskWriteValid(c, who) ==
    /\ chan[c].status = "active"
    /\ who # NoRequest => cow[who].status = "active" /\ part[c][who] = "member"

\* Mutant: a schema without the unique index on task revisions.
RevisionUnchecked(t, rev) == TRUE

\* task_revisions_unique: a revision number of a task is inserted once.
RevisionFree(t, rev) == rev \notin task[t].revs

insertTaskWithRevision(t, c, who) ==
    /\ task' = [task EXCEPT ![t] = [status |-> "todo", rev |-> 1, who |-> who, chan |-> c,
                                    revs |-> {1}]]
    /\ chan' = appendChannelEvent(c, chan[c].status)

updateTaskWithRevision(t, next) ==
    /\ task' = [task EXCEPT ![t] = [next EXCEPT !.revs = task[t].revs \cup {next.rev}]]
    /\ chan' = appendChannelEvent(next.chan, chan[next.chan].status)

findActivePinBySource(c, src) ==
    {p \in Request : pin[p].state = "active" /\ pin[p].chan = c /\ pin[p].src = src}

createPinWithEvent(p, c, src) ==
    /\ pin' = [pin EXCEPT ![p] = [state |-> "active", chan |-> c, src |-> src]]
    /\ chan' = appendChannelEvent(c, chan[c].status)

removePinWithEvent(p) ==
    /\ pin' = [pin EXCEPT ![p].state = "removed"]
    /\ chan' = appendChannelEvent(pin[p].chan, chan[pin[p].chan].status)

\* createDirectMultiAgentRun, under the unique index on runs.source_message_id.
CreateRun(m) == [msg EXCEPT ![m].run = TRUE]

-----------------------------------------------------------------------------
(* Command receipts: each statement names the lease owner it needs. *)

getCommandReceipt(kind, key) ==
    IF <<kind, key>> \in DOMAIN receipt THEN receipt[<<kind, key>>] ELSE NoReceipt

tryClaimCommandReceipt(kind, key, r, res) ==
    [k \in DOMAIN receipt \cup {<<kind, key>>} |->
        IF k = <<kind, key>> THEN [NoReceipt EXCEPT !.owner = r, !.res = res] ELSE receipt[k]]

HoldsReceipt(kind, key, r) == getCommandReceipt(kind, key).owner = r

deleteCommandReceipt(kind, key) ==
    [k \in DOMAIN receipt \ {<<kind, key>>} |-> receipt[k]]

completeCommandReceipt(kind, key, obj) ==
    [receipt EXCEPT ![<<kind, key>>].done = TRUE, ![<<kind, key>>].json = obj]

rebindCommandReceiptResultId(kind, key, obj) ==
    [receipt EXCEPT ![<<kind, key>>].res = [NoResult EXCEPT !.obj = obj],
                    ![<<kind, key>>].final = TRUE]

-----------------------------------------------------------------------------
NullChannel  == CHOOSE c \in Channel : TRUE
NullCoworker == CHOOSE w \in Coworker : TRUE
NoTask  == [status |-> "absent", rev |-> 0, who |-> NoRequest, chan |-> NullChannel, revs |-> {}]
NoDraft == [state |-> "absent", rev |-> 0, who |-> NullCoworker, chans |-> {}, expired |-> FALSE]
NoCow   == [status |-> "absent", rev |-> 0, spec |-> 0, chans |-> {}, grants |-> {}]

InitTables ==
    /\ chan = [c \in ChanId |-> IF c \in Channel THEN [status |-> "active", next |-> 1]
                                 ELSE [status |-> "absent", next |-> 0]]
    /\ part = [c \in Channel |-> [w \in Coworker |-> IF w \in Member THEN "member" ELSE "none"]]
    /\ cow = [w \in Coworker |->
                 IF w \in Staff
                 THEN [status |-> "active", rev |-> 1, spec |-> 1, grants |-> Channel,
                       chans |-> IF w \in Member THEN Channel ELSE {}]
                 ELSE NoCow]
    /\ csess = [c \in Channel |-> [w \in Coworker |->
                   [state |-> IF w \in Member THEN "ready" ELSE "none",
                    made |-> {}, closed |-> FALSE]]]
    /\ msg = [m \in ObjId |-> IF m = Old THEN [chan |-> NullChannel, run |-> TRUE]
                               ELSE [chan |-> NoRequest, run |-> FALSE]]
    /\ task = [t \in ObjId |-> IF t = Old
                                THEN [status |-> "todo", rev |-> 1, who |-> NoRequest,
                                      chan |-> NullChannel, revs |-> {1}]
                                ELSE NoTask]
    /\ pin = [p \in Request |-> [state |-> "absent", chan |-> NullChannel, src |-> Old]]
    /\ draft = [d \in ObjId |->
                   IF d = Old /\ Coworker # Staff
                   THEN [state |-> "awaiting_review", rev |-> 1, expired |-> FALSE,
                         who |-> CHOOSE w \in Coworker \ Staff : TRUE, chans |-> Channel]
                   ELSE NoDraft]
    /\ receipt = [k \in {} |-> NoReceipt]
=============================================================================
