--------------------------- MODULE WorkspaceProofs -------------------------
(***************************************************************************)
(* What holds of the workspace service for every number of requests,       *)
(* channels, coworkers and keys: rows keep their types, an archived        *)
(* channel is frozen, no task update is lost, memberships agree with the   *)
(* coworkers' configurations, a coworker has one provider session in a     *)
(* channel, what a request is answered with is there, and a command        *)
(* retried under its key has one effect and one answer.                    *)
(***************************************************************************)
EXTENDS Workspace, FiniteSetTheorems, TLAPS

(***************************************************************************)
(* Requests.  Each step of a request rewrites its row in one of a few      *)
(* ways; what is left alone is said once for each way.                     *)
(***************************************************************************)

\* Commands on a coworker, on a row, and where a command of a kind can be.
OnCoworker == {"channel.message", "channel.participant.add", "channel.participant.remove",
               "coworker.update", "coworker.disable", "coworker.draft.revise",
               "coworker.draft.confirm", "coworker.draft.reject"}
OnObject == {"channel.pin.create", "task.update", "coworker.draft.revise",
             "coworker.draft.confirm", "coworker.draft.reject"}
Pins == {"channel.pin.create", "channel.pin.remove"}

\* What a row of a request says of its command, by its kind and its place in the code.
Fits(q) ==
    /\ q.pc # "new" /\ q.kind # "coworker.update" => q.key \in Key
    /\ q.kind = "coworker.update" => q.pc \in {"plan", "write", "done", "dead"}
    /\ q.kind \in OnCoworker => q.w \in Coworker
    /\ q.kind \in OnObject => q.obj \in ObjId
    /\ q.kind = "channel.pin.remove" => q.obj \in Request
    /\ q.left # {} => q.kind = "coworker.draft.confirm"
    /\ q.pc \in {"provision", "persist"} =>
           q.kind \in {"channel.participant.add", "coworker.draft.confirm"}
    /\ q.pc = "write" => q.kind \in {"channel.participant.add", "coworker.update",
                                     "coworker.disable", "task.update",
                                     "coworker.draft.revise", "coworker.draft.reject"}
    /\ q.pc = "fanout" => q.kind \in {"channel.message", "coworker.draft.revise"}
    /\ q.pc = "rebind" => q.kind \in Pins
    /\ q.pc = "plan" => q.kind \in {"channel.message", "coworker.update"}
    /\ q.pc = "fail" => q.kind \notin {"channel.create", "coworker.draft.create"}
    /\ q.ans = "ok" => q.pc = "done"

RequestsOK == req \in [Request -> ReqRow] /\ \A r \in Request : Fits(req[r])

WInv ==
    /\ TablesOK /\ RequestsOK
    /\ lock \in [Coworker -> Request \cup {NoRequest}]
    /\ mix \in Mixes

\* The command a row is for; the channel is the one being provisioned in two kinds.
SameCommand(q, p) ==
    /\ p.kind = q.kind /\ p.key = q.key /\ p.w = q.w /\ p.obj = q.obj
    /\ p.st = q.st /\ p.rev = q.rev /\ p.set = q.set /\ p.by = q.by

\* Only the row of r changes.
Turns(r) == req' \in [Request -> ReqRow] /\ \A o \in Request \ {r} : req'[o] = req[o]

Goes(q, p, pc) ==
    /\ SameCommand(q, p) /\ p.ch = q.ch /\ p.pc = pc
    /\ p.ans = q.ans /\ p.res = q.res /\ p.left = q.left /\ p.seen = q.seen

Ends(q, p, ans, res) ==
    /\ SameCommand(q, p) /\ p.ch = q.ch /\ p.pc = "done"
    /\ p.ans = ans /\ p.res = res /\ p.left = q.left

Succeeds(q, p, res) ==
    /\ SameCommand(q, p) /\ p.ch = q.ch /\ p.pc = "finish"
    /\ p.ans = q.ans /\ p.res = res /\ p.left = q.left /\ p.seen = q.seen

\* The constants that stand for no row are of their types.
LEMMA Nulls ==
    /\ NullChannel \in Channel /\ NullCoworker \in Coworker
    /\ NoTask \in TaskRow /\ NoDraft \in DraftRow /\ NoCow \in CowRow
    /\ NoResult \in Result /\ NoReceipt \in ReceiptRow
<1>1. NullChannel \in Channel /\ NullCoworker \in Coworker
    BY IdAssumption DEF NullChannel, NullCoworker
<1>2. NoTask \in TaskRow
    BY <1>1 DEF NoTask, TaskRow
<1>3. NoDraft \in DraftRow
    BY <1>1 DEF NoDraft, DraftRow, DraftState
<1>4. NoCow \in CowRow
    BY DEF NoCow, CowRow
<1>5. NoResult \in Result
    BY DEF NoResult, Result
<1>6. NoReceipt \in ReceiptRow
    BY <1>5 DEF NoReceipt, ReceiptRow
<1> QED BY <1>1, <1>2, <1>3, <1>4, <1>5, <1>6

\* What a row of a request is made of.
LEMMA RowFields ==
    ASSUME NEW q \in ReqRow
    PROVE  /\ q.pc \in PC /\ q.kind \in CommandKind /\ q.key \in Key \cup {NoRequest}
           /\ q.ch \in Channel /\ q.w \in Coworker \cup {NoRequest}
           /\ q.obj \in ObjId \cup {NoRequest} /\ q.st \in TaskStatus /\ q.rev \in Nat
           /\ q.set \subseteq Channel /\ q.by \in Coworker \cup {NoRequest}
           /\ q.tries \in 1..2 /\ q.left \subseteq Channel /\ q.ans \in {"none", "ok", "error"}
           /\ q.res \in Result
           /\ q.seen.chan \in {"absent", "active", "archived"} /\ q.seen.cow \in CowRow
           /\ q.seen.task \in TaskRow /\ q.seen.draft \in DraftRow
           /\ q.seen.members \subseteq Channel /\ q.seen.owner \in Request \cup {NoRequest}
BY DEF ReqRow

\* What a request has read when it has read nothing.
LEMMA NothingIsRead ==
    NothingRead \in [chan : {"absent", "active", "archived"}, cow : CowRow, task : TaskRow,
                     draft : DraftRow, members : SUBSET Channel, owner : Request \cup {NoRequest}]
BY Nulls DEF NothingRead

\* A row that replaces the row of a request.
LEMMA Replaces ==
    ASSUME RequestsOK, NEW r \in Request, NEW p \in ReqRow, req' = [req EXCEPT ![r] = p]
    PROVE  Turns(r) /\ req'[r] = p
BY DEF RequestsOK, Turns

\* Goto changes the place in the code.
LEMMA GotoRow ==
    ASSUME RequestsOK, NEW r \in Request, NEW pc \in PC, Goto(r, pc)
    PROVE  Turns(r) /\ Goes(req[r], req'[r], pc)
<1>1. PICK q \in ReqRow : q = req[r]
    BY DEF RequestsOK
<1> DEFINE p == [q EXCEPT !.pc = pc]
<1>2. p \in ReqRow /\ Goes(q, p, pc)
    BY DEF ReqRow, Goes, SameCommand
<1>3. req' = [req EXCEPT ![r] = p]
    BY <1>1 DEF Goto
<1> HIDE DEF p
<1>4. Turns(r) /\ req'[r] = p
    BY <1>2, <1>3, Replaces
<1> QED BY <1>1, <1>2, <1>4

\* Answer ends the request.
LEMMA AnswerRow ==
    ASSUME RequestsOK, NEW r \in Request, NEW ans \in {"ok", "error"}, NEW res \in Result,
           Answer(r, ans, res)
    PROVE  Turns(r) /\ Ends(req[r], req'[r], ans, res)
<1>1. PICK q \in ReqRow : q = req[r]
    BY DEF RequestsOK
<1> DEFINE p == [q EXCEPT !.pc = "done", !.ans = ans, !.res = res, !.seen = NothingRead]
<1>2. p \in ReqRow /\ Ends(q, p, ans, res)
    BY ZenonT(60), NothingIsRead DEF ReqRow, Ends, SameCommand, PC
<1>3. req' = [req EXCEPT ![r] = p]
    BY <1>1 DEF Answer
<1> HIDE DEF p
<1>4. Turns(r) /\ req'[r] = p
    BY <1>2, <1>3, Replaces
<1> QED BY <1>1, <1>2, <1>4

\* A refused request ends with an error and no result.
LEMMA RefuseRow ==
    ASSUME RequestsOK, NEW r \in Request, Refuse(r)
    PROVE  Turns(r) /\ Ends(req[r], req'[r], "error", NoResult)
BY AnswerRow, Nulls DEF Refuse

\* A command that succeeded goes on to complete its receipt with its result.
LEMMA SucceededRow ==
    ASSUME RequestsOK, NEW r \in Request, NEW res \in Result, Succeeded(r, res)
    PROVE  Turns(r) /\ Succeeds(req[r], req'[r], res)
<1>1. PICK q \in ReqRow : q = req[r]
    BY DEF RequestsOK
<1> DEFINE p == [q EXCEPT !.pc = "finish", !.res = res]
<1>2. p \in ReqRow /\ Succeeds(q, p, res)
    BY DEF ReqRow, Succeeds, SameCommand, PC
<1>3. req' = [req EXCEPT ![r] = p]
    BY <1>1 DEF Succeeded
<1> HIDE DEF p
<1>4. Turns(r) /\ req'[r] = p
    BY <1>2, <1>3, Replaces
<1> QED BY <1>1, <1>2, <1>4

-----------------------------------------------------------------------------
(***************************************************************************)
(* Receipts.                                                               *)
(***************************************************************************)

ReceiptsOK ==
    /\ DOMAIN receipt \subseteq CommandKind \X Key
    /\ \A k \in DOMAIN receipt : receipt[k] \in ReceiptRow

\* What a step leaves under a command and a key.
ReceiptAfter(kind, key) ==
    IF <<kind, key>> \in DOMAIN receipt' THEN receipt'[<<kind, key>>] ELSE NoReceipt

\* Receipts of other commands and keys stay.
OthersKept(kind, key) ==
    \A kind2 \in CommandKind, key2 \in Key \cup {NoRequest} :
        kind2 # kind \/ key2 # key =>
            ReceiptAfter(kind2, key2) = getCommandReceipt(kind2, key2)

\* What is found under a command and a key.
LEMMA ReceiptFound ==
    ASSUME ReceiptsOK, NEW kind, NEW key
    PROVE  /\ getCommandReceipt(kind, key) \in ReceiptRow
           /\ getCommandReceipt(kind, key) # NoReceipt =>
                /\ <<kind, key>> \in DOMAIN receipt
                /\ receipt[<<kind, key>>] = getCommandReceipt(kind, key)
                /\ kind \in CommandKind /\ key \in Key
           /\ getCommandReceipt(kind, key).owner # NoRequest => getCommandReceipt(kind, key) # NoReceipt
<1>0. NoReceipt.owner = NoRequest
    BY DEF NoReceipt
<1>1. CASE <<kind, key>> \in DOMAIN receipt
  <2>1. <<kind, key>> \in CommandKind \X Key /\ receipt[<<kind, key>>] \in ReceiptRow
      BY <1>1, Zenon DEF ReceiptsOK
  <2>2. getCommandReceipt(kind, key) = receipt[<<kind, key>>]
      BY <1>1 DEF getCommandReceipt
  <2>3. kind \in CommandKind /\ key \in Key
      BY <2>1
  <2> QED BY <1>0, <1>1, <2>1, <2>2, <2>3
<1>2. CASE <<kind, key>> \notin DOMAIN receipt
    BY <1>0, <1>2, Nulls DEF getCommandReceipt
<1> QED BY <1>1, <1>2

\* What a receipt is made of.
LEMMA ReceiptFields ==
    ASSUME NEW rc \in ReceiptRow
    PROVE  /\ rc.owner \in Request \cup {NoRequest} /\ rc.res \in Result
           /\ rc.json \in ObjId \cup {NoRequest} /\ rc.done \in BOOLEAN
           /\ rc.final \in BOOLEAN /\ rc.stale \in BOOLEAN
           /\ rc.res.ch \in Channel \cup {NoRequest} /\ rc.res.w \in Coworker \cup {NoRequest}
           /\ rc.res.obj \in ObjId \cup {NoRequest}
BY DEF ReceiptRow, Result

\* A row of the table of receipts is written.
LEMMA ReceiptWritten ==
    ASSUME ReceiptsOK, NEW kind \in CommandKind, NEW key \in Key, NEW rc \in ReceiptRow,
           \/ receipt' = [k \in DOMAIN receipt \cup {<<kind, key>>} |-> IF k = <<kind, key>> THEN rc ELSE receipt[k]]
           \/ <<kind, key>> \in DOMAIN receipt /\ receipt' = [receipt EXCEPT ![<<kind, key>>] = rc]
    PROVE  /\ ReceiptsOK' /\ ReceiptAfter(kind, key) = rc /\ OthersKept(kind, key)
<1>1. /\ DOMAIN receipt' = DOMAIN receipt \cup {<<kind, key>>} /\ receipt'[<<kind, key>>] = rc
      /\ \A k \in DOMAIN receipt : k # <<kind, key>> => receipt'[k] = receipt[k]
  <2>1. CASE receipt' = [k \in DOMAIN receipt \cup {<<kind, key>>} |-> IF k = <<kind, key>> THEN rc ELSE receipt[k]]
      BY <2>1
  <2>2. CASE <<kind, key>> \in DOMAIN receipt /\ receipt' = [receipt EXCEPT ![<<kind, key>>] = rc]
      BY <2>2
  <2> QED BY <2>1, <2>2
<1>2. ReceiptsOK'
    BY <1>1 DEF ReceiptsOK
<1>3. ReceiptAfter(kind, key) = rc
    BY <1>1 DEF ReceiptAfter
<1>4. OthersKept(kind, key)
    BY <1>1 DEF OthersKept, ReceiptAfter, getCommandReceipt
<1> QED BY <1>2, <1>3, <1>4

\* Deleting a receipt leaves every other one alone.
LEMMA ReceiptDeleted ==
    ASSUME ReceiptsOK, NEW kind, NEW key, receipt' = deleteCommandReceipt(kind, key)
    PROVE  /\ ReceiptsOK' /\ ReceiptAfter(kind, key) = NoReceipt /\ OthersKept(kind, key)
<1>1. /\ DOMAIN receipt' = DOMAIN receipt \ {<<kind, key>>}
      /\ \A k \in DOMAIN receipt' : receipt'[k] = receipt[k]
    BY DEF deleteCommandReceipt
<1>2. ReceiptsOK'
    BY <1>1 DEF ReceiptsOK
<1>3. ReceiptAfter(kind, key) = NoReceipt
    BY <1>1 DEF ReceiptAfter
<1>4. OthersKept(kind, key)
    BY <1>1 DEF OthersKept, ReceiptAfter, getCommandReceipt
<1> QED BY <1>2, <1>3, <1>4

\* Without a statement on receipts every receipt reads as before.
LEMMA ReceiptsKept ==
    ASSUME receipt' = receipt
    PROVE  /\ ReceiptsOK => ReceiptsOK'
           /\ \A kind, key : ReceiptAfter(kind, key) = getCommandReceipt(kind, key)
BY DEF ReceiptsOK, ReceiptAfter, getCommandReceipt

\* What a receipt is rewritten to.
CompletedRow(rc, obj) == [rc EXCEPT !.done = TRUE, !.json = obj]
ReboundRow(rc, obj) == [rc EXCEPT !.res = [NoResult EXCEPT !.obj = obj], !.final = TRUE]
ClaimedRow(r, res) == [NoReceipt EXCEPT !.owner = r, !.res = res]
StaleRow(rc, stale) == [rc EXCEPT !.stale = stale]
MarkedStale(kind, key, stale) == [receipt EXCEPT ![<<kind, key>>].stale = stale]

\* Completing or rebinding a receipt keeps its owner, and each keeps the other's columns.
LEMMA RewrittenRows ==
    ASSUME NEW rc \in ReceiptRow, NEW obj \in ObjId \cup {NoRequest}
    PROVE  /\ CompletedRow(rc, obj) \in ReceiptRow
           /\ CompletedRow(rc, obj).owner = rc.owner /\ CompletedRow(rc, obj).res = rc.res
           /\ CompletedRow(rc, obj).json = obj /\ CompletedRow(rc, obj).done
           /\ CompletedRow(rc, obj).final = rc.final /\ CompletedRow(rc, obj).stale = rc.stale
           /\ ReboundRow(rc, obj) \in ReceiptRow
           /\ ReboundRow(rc, obj).owner = rc.owner /\ ReboundRow(rc, obj).res.obj = obj
           /\ ReboundRow(rc, obj).json = rc.json /\ ReboundRow(rc, obj).done = rc.done
           /\ ReboundRow(rc, obj).final /\ ReboundRow(rc, obj).stale = rc.stale
<1>1. [NoResult EXCEPT !.obj = obj] \in Result /\ [NoResult EXCEPT !.obj = obj].obj = obj
    BY DEF NoResult, Result
<1>2. PICK res \in Result : res = [NoResult EXCEPT !.obj = obj] /\ res.obj = obj
    BY <1>1
<1>3. ReboundRow(rc, obj) = [rc EXCEPT !.res = res, !.final = TRUE]
    BY <1>2 DEF ReboundRow
<1> QED BY <1>2, <1>3 DEF CompletedRow, ReceiptRow

\* The lease of a receipt is no other column's business.
LEMMA StaleRows ==
    ASSUME NEW rc \in ReceiptRow, NEW stale \in BOOLEAN
    PROVE  /\ StaleRow(rc, stale) \in ReceiptRow
           /\ StaleRow(rc, stale).owner = rc.owner /\ StaleRow(rc, stale).res = rc.res
           /\ StaleRow(rc, stale).json = rc.json /\ StaleRow(rc, stale).done = rc.done
           /\ StaleRow(rc, stale).final = rc.final /\ StaleRow(rc, stale).stale = stale
BY DEF StaleRow, ReceiptRow

\* A claim is a fresh receipt: not done, not rebound, its lease not lapsed.
LEMMA ClaimedRows ==
    ASSUME NEW r \in Request, NEW res \in Result
    PROVE  /\ ClaimedRow(r, res) \in ReceiptRow
           /\ ClaimedRow(r, res).owner = r /\ ClaimedRow(r, res).res = res
           /\ ~ClaimedRow(r, res).done /\ ~ClaimedRow(r, res).final /\ ~ClaimedRow(r, res).stale
BY DEF ClaimedRow, NoReceipt, ReceiptRow

\* The statements on receipts write these rows.
LEMMA ClaimStatement ==
    ASSUME NEW kind, NEW key, NEW r, NEW res
    PROVE  tryClaimCommandReceipt(kind, key, r, res) =
               [k \in DOMAIN receipt \cup {<<kind, key>>} |->
                   IF k = <<kind, key>> THEN ClaimedRow(r, res) ELSE receipt[k]]
BY DEF tryClaimCommandReceipt, ClaimedRow

\* Completing a receipt writes the completed row.
LEMMA CompleteStatement ==
    ASSUME ReceiptsOK, NEW kind, NEW key, NEW obj, <<kind, key>> \in DOMAIN receipt
    PROVE  completeCommandReceipt(kind, key, obj) =
               [receipt EXCEPT ![<<kind, key>>] = CompletedRow(getCommandReceipt(kind, key), obj)]
<1>1. PICK rc \in ReceiptRow : rc = receipt[<<kind, key>>] /\ rc = getCommandReceipt(kind, key)
    BY DEF ReceiptsOK, getCommandReceipt
<1> QED BY <1>1 DEF completeCommandReceipt, CompletedRow

\* Rebinding a receipt to the row that was found writes the rebound row.
LEMMA RebindStatement ==
    ASSUME ReceiptsOK, NEW kind, NEW key, NEW obj, <<kind, key>> \in DOMAIN receipt
    PROVE  rebindCommandReceiptResultId(kind, key, obj) =
               [receipt EXCEPT ![<<kind, key>>] = ReboundRow(getCommandReceipt(kind, key), obj)]
<1>1. PICK rc \in ReceiptRow : rc = receipt[<<kind, key>>] /\ rc = getCommandReceipt(kind, key)
    BY DEF ReceiptsOK, getCommandReceipt
<1> QED BY <1>1 DEF rebindCommandReceiptResultId, ReboundRow

\* A lease that lapses, or is touched, writes the row with that lease.
LEMMA StaleStatement ==
    ASSUME ReceiptsOK, NEW kind, NEW key, NEW stale, <<kind, key>> \in DOMAIN receipt
    PROVE  MarkedStale(kind, key, stale) =
               [receipt EXCEPT ![<<kind, key>>] = StaleRow(getCommandReceipt(kind, key), stale)]
<1>1. PICK rc \in ReceiptRow : rc = receipt[<<kind, key>>] /\ rc = getCommandReceipt(kind, key)
    BY DEF ReceiptsOK, getCommandReceipt
<1> QED BY <1>1 DEF StaleRow, MarkedStale

\* The result_id of a claim: of the row the command inserts, or of the row it names.
LEMMA ResultIdIs ==
    ASSUME RequestsOK, NEW r \in Request
    PROVE  /\ ResultId(r) \in Result
           /\ req[r].kind \in Inserts => ResultId(r) = [NoResult EXCEPT !.obj = r]
           /\ req[r].kind \in Inserts => ResultId(r).obj = r
           /\ req[r].kind \in {"channel.pin.create", "channel.pin.remove", "task.update", "coworker.draft.revise",
                               "coworker.draft.reject", "coworker.draft.confirm"} =>
                  ResultId(r).obj = req[r].obj
<1>1. PICK q \in ReqRow : q = req[r]
    BY DEF RequestsOK
<1>2. q.ch \in Channel /\ q.w \in Coworker \cup {NoRequest} /\ q.obj \in ObjId \cup {NoRequest} /\ q.kind \in CommandKind
    BY RowFields
<1>3. r \in ObjId
    BY DEF ObjId
<1>4. \A c \in Channel \cup {NoRequest}, w \in Coworker \cup {NoRequest}, o \in ObjId \cup {NoRequest} :
         /\ [NoResult EXCEPT !.obj = o] \in Result /\ [NoResult EXCEPT !.obj = o].obj = o
         /\ [NoResult EXCEPT !.ch = c] \in Result /\ [NoResult EXCEPT !.w = w] \in Result
         /\ [NoResult EXCEPT !.ch = c, !.w = w] \in Result
         /\ [NoResult EXCEPT !.ch = c, !.obj = o] \in Result
         /\ [NoResult EXCEPT !.ch = c, !.obj = o].obj = o
    BY DEF Result, NoResult
<1>5. CASE q.kind \in Inserts
    BY <1>1, <1>3, <1>4, <1>5 DEF ResultId, Inserts
<1>6. CASE q.kind \in {"channel.update", "channel.archive", "channel.participant.add",
                       "channel.participant.remove", "coworker.disable"}
    BY <1>1, <1>2, <1>4, <1>6 DEF ResultId, Inserts
<1>7. CASE q.kind = "channel.pin.create"
    BY ZenonT(60), <1>1, <1>2, <1>4, <1>7 DEF ResultId, Inserts
<1>8. CASE q.kind \in {"channel.pin.remove", "task.update", "coworker.update", "coworker.draft.revise",
                       "coworker.draft.confirm", "coworker.draft.reject"}
  <2>1. ResultId(r) = [NoResult EXCEPT !.obj = q.obj]
      BY <1>1, <1>8 DEF ResultId
  <2>2. q.kind \notin Inserts
      BY <1>8 DEF Inserts
  <2> QED BY ZenonT(60), <1>1, <1>2, <1>4, <2>1, <2>2
<1> QED BY <1>1, <1>2, <1>5, <1>6, <1>7, <1>8 DEF CommandKind, Inserts

-----------------------------------------------------------------------------
(***************************************************************************)
(* Each kind of step keeps the types.                                      *)
(***************************************************************************)

\* Where a command is that has made what it makes.
Late == {"fanout", "finish", "rebind", "fail", "done", "dead"}

\* How a step of a request that has its command moves it.
Runs(q, p) ==
    /\ q.pc \notin {"new", "done", "dead"} /\ p.pc # "new" /\ SameCommand(q, p)
    /\ q.pc \in Late => p.pc \in Late
    /\ p.ch # q.ch => q.kind \in {"channel.participant.add", "coworker.draft.confirm"}

Reclaims(q, p, owner) ==
    /\ SameCommand(q, p) /\ p.ch = q.ch /\ p.pc = "reclaim"
    /\ p.ans = q.ans /\ p.res = q.res /\ p.left = q.left /\ p.seen.owner = owner

\* A request that finds its key taken is answered, or reclaims the lease, or is refused.
LEMMA ReplayedRow ==
    ASSUME ReceiptsOK, RequestsOK, NEW r \in Request, NEW mismatch, NEW reloaded \in SUBSET Result,
           Replayed(r, mismatch, reloaded)
    PROVE  /\ Turns(r)
           /\ \/ Ends(req[r], req'[r], "error", NoResult)
              \/ /\ ~mismatch /\ Receipt(r) # NoReceipt
                 /\ \/ /\ Receipt(r).done /\ req[r].kind \in CachesResult
                       /\ Ends(req[r], req'[r], "ok", [Receipt(r).res EXCEPT !.obj = Receipt(r).json])
                    \/ /\ ~(Receipt(r).done /\ req[r].kind \in CachesResult)
                       /\ \E v \in reloaded : Ends(req[r], req'[r], "ok", v)
              \/ /\ ~mismatch /\ Receipt(r).stale
                 /\ Receipt(r) = NoReceipt \/ reloaded = {}
                 /\ Receipt(r) # NoReceipt => ~(Receipt(r).done /\ req[r].kind \in CachesResult)
                 /\ Reclaims(req[r], req'[r], Receipt(r).owner)
<1>1. PICK rc \in ReceiptRow : rc = Receipt(r)
    BY ReceiptFound DEF Receipt
<1>2. PICK q \in ReqRow : q = req[r]
    BY DEF RequestsOK
<1>3. PICK cached \in Result : cached = [rc.res EXCEPT !.obj = rc.json]
  <2>1. rc.res \in Result /\ rc.json \in ObjId \cup {NoRequest}
      BY ReceiptFields
  <2> QED BY <2>1 DEF Result
<1>4. PICK value \in SUBSET Result : value = reloadIdempotentResult(r, reloaded)
    BY <1>1, <1>3 DEF reloadIdempotentResult
<1>5. \/ value = {} /\ rc = NoReceipt
      \/ value = {cached} /\ rc # NoReceipt /\ rc.done /\ q.kind \in CachesResult
      \/ value = reloaded /\ rc # NoReceipt /\ ~(rc.done /\ q.kind \in CachesResult)
    BY <1>1, <1>2, <1>3, <1>4 DEF reloadIdempotentResult
<1>6. CASE mismatch
    BY <1>6, RefuseRow DEF Replayed
<1>7. CASE ~mismatch /\ value # {}
  <2>1. PICK v \in value : Answer(r, "ok", v)
      BY <1>4, <1>7 DEF Replayed
  <2>2. Turns(r) /\ Ends(req[r], req'[r], "ok", v)
      BY <2>1, AnswerRow
  <2>3. rc # NoReceipt /\ \/ rc.done /\ q.kind \in CachesResult /\ v = cached
                          \/ ~(rc.done /\ q.kind \in CachesResult) /\ v \in reloaded
      BY <1>5, <1>7
  <2> QED BY <1>1, <1>2, <1>3, <1>7, <2>2, <2>3
<1>8. CASE ~mismatch /\ value = {} /\ rc.stale
  <2> DEFINE p == [q EXCEPT !.pc = "reclaim", !.seen.owner = rc.owner]
  <2>1. req' = [req EXCEPT ![r] = p]
      BY <1>1, <1>2, <1>4, <1>8 DEF Replayed, isStaleClaim
  <2>2. rc.owner \in Request \cup {NoRequest}
      BY ReceiptFields
  <2>3. p \in ReqRow /\ Reclaims(q, p, rc.owner)
      BY <2>2 DEF ReqRow, PC, Reclaims, SameCommand
  <2> HIDE DEF p
  <2>4. Turns(r) /\ req'[r] = p
      BY <2>1, <2>3, Replaces
  <2>5. rc = NoReceipt \/ (reloaded = {} /\ ~(rc.done /\ q.kind \in CachesResult))
      BY <1>5, <1>8
  <2> QED BY <1>1, <1>2, <1>8, <2>3, <2>4, <2>5
<1>9. CASE ~mismatch /\ value = {} /\ ~rc.stale
  <2>1. Refuse(r)
      BY <1>1, <1>4, <1>9 DEF Replayed, isStaleClaim
  <2> QED BY <2>1, RefuseRow
<1>10. rc.stale \in BOOLEAN
    BY ReceiptFields
<1> QED BY <1>6, <1>7, <1>8, <1>9, <1>10

\* A request that has its answer, or is sent on.
LEMMA RowsFit ==
    ASSUME NEW q, NEW p, NEW ans \in {"ok", "error"}, NEW res, NEW owner, Fits(q),
           q.pc \notin {"new", "done", "dead"}
    PROVE  /\ Ends(q, p, ans, res) => Fits(p) /\ Runs(q, p)
           /\ /\ Succeeds(q, p, res) /\ q.kind # "coworker.update"
              => Fits(p) /\ Runs(q, p)
           /\ /\ Reclaims(q, p, owner) /\ q.kind # "coworker.update" /\ q.pc \notin Late
              => Fits(p) /\ Runs(q, p)
           /\ /\ Goes(q, p, "fail") /\ q.kind \notin {"coworker.update", "channel.create", "coworker.draft.create"}
              => Fits(p) /\ Runs(q, p)
           /\ /\ \E pc \in {"claim", "reload", "run"} : Goes(q, p, pc)
              /\ q.kind # "coworker.update" /\ q.pc \notin Late
              => Fits(p) /\ Runs(q, p)
BY DEF Fits, Runs, Ends, Succeeds, Reclaims, Goes, SameCommand, Late, Pins

\* Nothing of the tables but what is said changes.
LEMMA TablesParts ==
    TablesOK <=> /\ chan \in [ChanId -> ChanRow]
                 /\ part \in [Channel -> [Coworker -> PartState]]
                 /\ cow \in [Coworker -> CowRow]
                 /\ csess \in [Channel -> [Coworker -> SessRow]]
                 /\ msg \in [ObjId -> MsgRow]
                 /\ task \in [ObjId -> TaskRow]
                 /\ pin \in [Request -> PinRow]
                 /\ draft \in [ObjId -> DraftRow]
                 /\ ReceiptsOK
BY DEF TablesOK, ReceiptsOK

\* Tables that do not change keep their types.
LEMMA TablesKept ==
    ASSUME UNCHANGED tables, TablesOK
    PROVE  TablesOK'
BY DEF tables, TablesOK

\* A step of one request keeps the types when its row and the tables fit.
LEMMA StepFits ==
    ASSUME WInv, NEW r \in Request, Turns(r), Fits(req'[r]), TablesOK',
           lock' \in [Coworker -> Request \cup {NoRequest}], mix' = mix
    PROVE  WInv'
<1>1. \A o \in Request : Fits(req'[o])
    BY DEF WInv, RequestsOK, Turns
<1>2. RequestsOK'
    BY <1>1 DEF RequestsOK, Turns
<1> QED BY <1>2 DEF WInv

\* What every step of a request that has its command does to the rows of requests.
StepOf(r) == Turns(r) /\ Fits(req'[r]) /\ Runs(req[r], req'[r]) /\ mix' = mix /\ WInv'

\* The tables other than the receipts are left alone.
OnlyReceipts == UNCHANGED <<chan, part, cow, csess, msg, task, pin, draft, lock, mix>>

\* A step that rewrites the receipts and the row of the request only.
LEMMA ReceiptStepFits ==
    ASSUME WInv, NEW r \in Request, Turns(r), Fits(req'[r]), Runs(req[r], req'[r]),
           ReceiptsOK', OnlyReceipts
    PROVE  StepOf(r)
<1>1. TablesOK'
    BY TablesParts DEF WInv, OnlyReceipts, TablesOK, ReceiptsOK
<1>2. lock' \in [Coworker -> Request \cup {NoRequest}] /\ mix' = mix
    BY DEF WInv, OnlyReceipts
<1> QED BY <1>1, <1>2, StepFits DEF StepOf

\* Claiming a key: the receipt is inserted, or found taken.
LEMMA ClaimStep ==
    ASSUME WInv, NEW r \in Request, Claim(r)
    PROVE  /\ StepOf(r) /\ OnlyReceipts /\ OthersKept(req[r].kind, req[r].key)
           /\ req[r].pc = "claim"
           /\ \/ /\ Receipt(r) = NoReceipt /\ Goes(req[r], req'[r], "run")
                 /\ ReceiptAfter(req[r].kind, req[r].key) = ClaimedRow(r, ResultId(r))
              \/ /\ Receipt(r) # NoReceipt /\ Goes(req[r], req'[r], "reload") /\ receipt' = receipt
<1>1. PICK q \in ReqRow : q = req[r]
    BY DEF WInv, RequestsOK
<1>2. ReceiptsOK /\ RequestsOK
    BY TablesParts DEF WInv
<1>3. q.pc = "claim" /\ Fits(q) /\ q.kind # "coworker.update" /\ q.key \in Key /\ q.kind \in CommandKind
  <2>1. q.pc = "claim" /\ Fits(q)
      BY <1>1, <1>2 DEF Claim, RequestsOK
  <2> QED BY <2>1, RowFields DEF Fits
<1>4. OnlyReceipts
    BY DEF Claim, OnlyReceipts
<1>5. CASE Receipt(r) = NoReceipt
  <2>1. receipt' = tryClaimCommandReceipt(q.kind, q.key, r, ResultId(r)) /\ Goto(r, "run")
      BY <1>1, <1>5 DEF Claim
  <2>2. ClaimedRow(r, ResultId(r)) \in ReceiptRow
      BY <1>2, ResultIdIs, ClaimedRows
  <2>3. /\ ReceiptsOK' /\ OthersKept(q.kind, q.key)
        /\ ReceiptAfter(q.kind, q.key) = ClaimedRow(r, ResultId(r))
    <3>1. receipt' = [k \in DOMAIN receipt \cup {<<q.kind, q.key>>} |->
                         IF k = <<q.kind, q.key>> THEN ClaimedRow(r, ResultId(r)) ELSE receipt[k]]
        BY <2>1, ClaimStatement
    <3>2. PICK rc \in ReceiptRow : rc = ClaimedRow(r, ResultId(r))
        BY <2>2
    <3>3. receipt' = [k \in DOMAIN receipt \cup {<<q.kind, q.key>>} |->
                         IF k = <<q.kind, q.key>> THEN rc ELSE receipt[k]]
        BY <3>1, <3>2
    <3>4. ReceiptsOK' /\ ReceiptAfter(q.kind, q.key) = rc /\ OthersKept(q.kind, q.key)
        BY <1>2, <1>3, <3>3, ReceiptWritten
    <3> QED BY <3>2, <3>4
  <2>4. Turns(r) /\ Goes(q, req'[r], "run")
      BY <1>1, <1>2, <2>1, GotoRow DEF PC
  <2>5. Fits(req'[r]) /\ Runs(q, req'[r])
      BY <1>3, <2>4, RowsFit DEF Late
  <2>6. StepOf(r)
      BY <1>1, <1>4, <2>3, <2>4, <2>5, ReceiptStepFits
  <2> QED BY <1>1, <1>3, <1>4, <1>5, <2>3, <2>4, <2>6
<1>6. CASE Receipt(r) # NoReceipt
  <2>1. receipt' = receipt /\ Goto(r, "reload")
      BY <1>6 DEF Claim
  <2>2. Turns(r) /\ Goes(q, req'[r], "reload")
      BY <1>1, <1>2, <2>1, GotoRow DEF PC
  <2>3. Fits(req'[r]) /\ Runs(q, req'[r])
      BY <1>3, <2>2, RowsFit DEF Late
  <2>4. StepOf(r)
      BY <1>1, <1>2, <1>4, <2>1, <2>2, <2>3, ReceiptStepFits, ReceiptsKept
  <2> QED BY <1>1, <1>3, <1>4, <1>6, <2>1, <2>2, <2>4, ReceiptsKept DEF OthersKept
<1> QED BY <1>5, <1>6

\* A second attempt.
LEMMA RetryRow ==
    ASSUME RequestsOK, NEW r \in Request, Retry(r)
    PROVE  Turns(r) /\ \/ Goes(req[r], req'[r], "claim")
                       \/ Ends(req[r], req'[r], "error", NoResult)
<1>1. PICK q \in ReqRow : q = req[r]
    BY DEF RequestsOK
<1>2. CASE q.tries = 1
  <2> DEFINE p == [q EXCEPT !.pc = "claim", !.tries = 2]
  <2>1. req' = [req EXCEPT ![r] = p]
      BY <1>1, <1>2 DEF Retry
  <2>2. 2 \in 1..2
      OBVIOUS
  <2>3. p \in ReqRow /\ Goes(q, p, "claim")
      BY <2>2 DEF ReqRow, PC, Goes, SameCommand
  <2> HIDE DEF p
  <2>4. Turns(r) /\ req'[r] = p
      BY <2>1, <2>3, Replaces
  <2> QED BY <1>1, <2>3, <2>4
<1>3. CASE q.tries # 1
  <2>1. Refuse(r)
      BY <1>1, <1>3 DEF Retry
  <2> QED BY <2>1, RefuseRow
<1> QED BY <1>2, <1>3

\* Reclaiming a lease that has lapsed.
LEMMA ReclaimStep ==
    ASSUME WInv, NEW r \in Request, reclaimStaleCommandReceipt(r)
    PROVE  /\ StepOf(r) /\ OnlyReceipts /\ OthersKept(req[r].kind, req[r].key)
           /\ req[r].pc = "reclaim"
           /\ \/ Goes(req[r], req'[r], "claim")
              \/ Ends(req[r], req'[r], "error", NoResult)
           /\ \/ /\ ReceiptAfter(req[r].kind, req[r].key) = NoReceipt
                 /\ Receipt(r).stale /\ (Receipt(r).owner = req[r].seen.owner \/ mix.slow)
              \/ receipt' = receipt
<1>1. PICK q \in ReqRow : q = req[r]
    BY DEF WInv, RequestsOK
<1>2. ReceiptsOK /\ RequestsOK
    BY TablesParts DEF WInv
<1>3. q.pc = "reclaim" /\ Fits(q) /\ q.kind # "coworker.update"
  <2>1. q.pc = "reclaim" /\ Fits(q)
      BY <1>1, <1>2 DEF reclaimStaleCommandReceipt, RequestsOK
  <2> QED BY <2>1 DEF Fits
<1>4. OnlyReceipts
    BY DEF reclaimStaleCommandReceipt, OnlyReceipts
<1>5. CASE Receipt(r).stale /\ (Receipt(r).owner = q.seen.owner \/ mix.slow)
  <2>1. receipt' = deleteCommandReceipt(q.kind, q.key) /\ Retry(r)
      BY <1>1, <1>5 DEF reclaimStaleCommandReceipt, isStaleClaim
  <2>2. /\ ReceiptsOK' /\ OthersKept(q.kind, q.key) /\ ReceiptAfter(q.kind, q.key) = NoReceipt
      BY <1>2, <2>1, ReceiptDeleted
  <2>3. Turns(r) /\ \/ Goes(q, req'[r], "claim")
                    \/ Ends(q, req'[r], "error", NoResult)
      BY <1>1, <1>2, <2>1, RetryRow
  <2>4. Fits(req'[r]) /\ Runs(q, req'[r])
      BY <1>3, <2>3, RowsFit DEF Late
  <2>5. StepOf(r)
      BY <1>1, <1>4, <2>2, <2>3, <2>4, ReceiptStepFits
  <2> QED BY <1>1, <1>3, <1>4, <1>5, <2>2, <2>3, <2>5
<1>6. CASE ~(Receipt(r).stale /\ (Receipt(r).owner = q.seen.owner \/ mix.slow))
  <2>1. receipt' = receipt /\ Refuse(r)
      BY <1>1, <1>6 DEF reclaimStaleCommandReceipt, isStaleClaim
  <2>2. Turns(r) /\ Ends(q, req'[r], "error", NoResult)
      BY <1>1, <1>2, <2>1, RefuseRow
  <2>3. Fits(req'[r]) /\ Runs(q, req'[r])
      BY <1>3, <2>2, RowsFit DEF Late
  <2>4. StepOf(r)
      BY <1>1, <1>2, <1>4, <2>1, <2>2, <2>3, ReceiptStepFits, ReceiptsKept
  <2> QED BY <1>1, <1>3, <1>4, <2>1, <2>2, <2>4, ReceiptsKept DEF OthersKept
<1> QED BY <1>5, <1>6

\* Storing the result.
LEMMA FinishStep ==
    ASSUME WInv, NEW r \in Request, Finish(r)
    PROVE  /\ StepOf(r) /\ OnlyReceipts /\ OthersKept(req[r].kind, req[r].key)
           /\ req[r].pc = "finish"
           /\ \/ /\ Receipt(r).owner = r /\ Receipt(r) # NoReceipt
                 /\ ReceiptAfter(req[r].kind, req[r].key) = CompletedRow(Receipt(r), req[r].res.obj)
                 /\ \/ req[r].kind \in Pins /\ Goes(req[r], req'[r], "rebind")
                    \/ req[r].kind \notin Pins /\ Ends(req[r], req'[r], "ok", req[r].res)
              \/ /\ Receipt(r).owner # r /\ receipt' = receipt
                 /\ Ends(req[r], req'[r], "error", NoResult)
<1>1. PICK q \in ReqRow : q = req[r]
    BY DEF WInv, RequestsOK
<1>2. ReceiptsOK /\ RequestsOK
    BY TablesParts DEF WInv
<1>3. q.pc = "finish" /\ Fits(q) /\ q.kind # "coworker.update" /\ q.res \in Result
  <2>1. q.pc = "finish" /\ Fits(q)
      BY <1>1, <1>2 DEF Finish, RequestsOK
  <2> QED BY <2>1, RowFields DEF Fits
<1>4. OnlyReceipts
    BY DEF Finish, OnlyReceipts
<1>5. CASE Receipt(r).owner = r
  <2>1. receipt' = completeCommandReceipt(q.kind, q.key, q.res.obj)
      BY <1>1, <1>5 DEF Finish, HoldsReceipt, Receipt
  <2>2. /\ Receipt(r) # NoReceipt /\ <<q.kind, q.key>> \in DOMAIN receipt /\ Receipt(r) \in ReceiptRow
        /\ q.kind \in CommandKind /\ q.key \in Key
    <3>1. r # NoRequest
        BY IdAssumption
    <3> QED BY <1>1, <1>2, <1>5, <3>1, ReceiptFound DEF Receipt
  <2>3. q.res.obj \in ObjId \cup {NoRequest}
      BY <1>3 DEF Result
  <2>4. CompletedRow(Receipt(r), q.res.obj) \in ReceiptRow
      BY <2>2, <2>3, RewrittenRows
  <2>5. receipt' = [receipt EXCEPT ![<<q.kind, q.key>>] = CompletedRow(Receipt(r), q.res.obj)]
    <3>1. Receipt(r) = getCommandReceipt(q.kind, q.key)
        BY <1>1 DEF Receipt
    <3> QED BY <1>2, <2>1, <2>2, <3>1, CompleteStatement
  <2>6. /\ ReceiptsOK' /\ OthersKept(q.kind, q.key)
        /\ ReceiptAfter(q.kind, q.key) = CompletedRow(Receipt(r), q.res.obj)
      BY <1>2, <2>2, <2>4, <2>5, ReceiptWritten
  <2>7. CASE q.kind \in Pins
    <3>1. Goto(r, "rebind")
        BY <1>1, <1>5, <2>7 DEF Finish, Pins, HoldsReceipt, Receipt
    <3>2. Turns(r) /\ Goes(q, req'[r], "rebind")
        BY <1>1, <1>2, <3>1, GotoRow DEF PC
    <3>3. Fits(req'[r]) /\ Runs(q, req'[r])
        BY <1>3, <2>7, <3>2 DEF Fits, Runs, Goes, SameCommand, Late, Pins
    <3>4. StepOf(r)
        BY <1>1, <1>4, <2>6, <3>2, <3>3, ReceiptStepFits
    <3> QED BY <1>1, <1>3, <1>4, <1>5, <2>2, <2>6, <2>7, <3>2, <3>4
  <2>8. CASE q.kind \notin Pins
    <3>1. Answer(r, "ok", q.res)
        BY <1>1, <1>5, <2>8 DEF Finish, Pins, HoldsReceipt, Receipt
    <3>2. Turns(r) /\ Ends(q, req'[r], "ok", q.res)
        BY <1>1, <1>2, <1>3, <3>1, AnswerRow
    <3>3. Fits(req'[r]) /\ Runs(q, req'[r])
        BY <1>3, <3>2, RowsFit
    <3>4. StepOf(r)
        BY <1>1, <1>4, <2>6, <3>2, <3>3, ReceiptStepFits
    <3> QED BY <1>1, <1>3, <1>4, <1>5, <2>2, <2>6, <2>8, <3>2, <3>4
  <2> QED BY <2>7, <2>8
<1>6. CASE Receipt(r).owner # r
  <2>1. receipt' = receipt /\ Refuse(r)
      BY <1>6 DEF Finish, HoldsReceipt, Receipt
  <2>2. Turns(r) /\ Ends(q, req'[r], "error", NoResult)
      BY <1>1, <1>2, <2>1, RefuseRow
  <2>3. Fits(req'[r]) /\ Runs(q, req'[r])
      BY <1>3, <2>2, RowsFit
  <2>4. StepOf(r)
      BY <1>1, <1>2, <1>4, <2>1, <2>2, <2>3, ReceiptStepFits, ReceiptsKept
  <2> QED BY <1>1, <1>3, <1>4, <1>6, <2>1, <2>2, <2>4, ReceiptsKept DEF OthersKept
<1> QED BY <1>5, <1>6

\* A request that holds its receipt finds it in the table.
LEMMA HeldReceipt ==
    ASSUME ReceiptsOK, NEW r \in Request, HoldsReceipt(req[r].kind, req[r].key, r)
    PROVE  /\ Receipt(r) = getCommandReceipt(req[r].kind, req[r].key)
           /\ Receipt(r) # NoReceipt /\ <<req[r].kind, req[r].key>> \in DOMAIN receipt
           /\ Receipt(r) \in ReceiptRow /\ Receipt(r).owner = r
           /\ req[r].kind \in CommandKind /\ req[r].key \in Key
<1>1. r # NoRequest
    BY IdAssumption
<1>2. /\ Receipt(r) = getCommandReceipt(req[r].kind, req[r].key)
      /\ getCommandReceipt(req[r].kind, req[r].key).owner = r
    BY DEF Receipt, HoldsReceipt
<1> QED BY <1>1, <1>2, ReceiptFound

\* Rewriting result_id.
LEMMA RebindStep ==
    ASSUME WInv, NEW r \in Request, Rebind(r)
    PROVE  /\ StepOf(r) /\ OnlyReceipts /\ OthersKept(req[r].kind, req[r].key)
           /\ req[r].pc = "rebind"
           /\ \/ /\ Receipt(r).owner = r /\ Receipt(r) # NoReceipt
                 /\ ReceiptAfter(req[r].kind, req[r].key) = ReboundRow(Receipt(r), req[r].res.obj)
                 /\ Ends(req[r], req'[r], "ok", req[r].res)
              \/ /\ Receipt(r).owner # r /\ receipt' = receipt
                 /\ Ends(req[r], req'[r], "error", NoResult)
<1>1. PICK q \in ReqRow : q = req[r]
    BY DEF WInv, RequestsOK
<1>2. ReceiptsOK /\ RequestsOK
    BY TablesParts DEF WInv
<1>3. q.pc = "rebind" /\ Fits(q) /\ q.res \in Result
  <2>1. q.pc = "rebind" /\ Fits(q)
      BY <1>1, <1>2 DEF Rebind, RequestsOK
  <2> QED BY <2>1, RowFields
<1>4. OnlyReceipts
    BY DEF Rebind, OnlyReceipts
<1>5. CASE HoldsReceipt(q.kind, q.key, r)
  <2>1. receipt' = rebindCommandReceiptResultId(q.kind, q.key, q.res.obj) /\ Answer(r, "ok", q.res)
      BY <1>1, <1>5 DEF Rebind
  <2>2. /\ Receipt(r) = getCommandReceipt(q.kind, q.key)
        /\ Receipt(r) # NoReceipt /\ <<q.kind, q.key>> \in DOMAIN receipt
        /\ Receipt(r) \in ReceiptRow /\ Receipt(r).owner = r
        /\ q.kind \in CommandKind /\ q.key \in Key
      BY <1>1, <1>2, <1>5, HeldReceipt
  <2>3. q.res.obj \in ObjId \cup {NoRequest}
      BY <1>3 DEF Result
  <2>4. ReboundRow(Receipt(r), q.res.obj) \in ReceiptRow
      BY <2>2, <2>3, RewrittenRows
  <2>5. receipt' = [receipt EXCEPT ![<<q.kind, q.key>>] = ReboundRow(Receipt(r), q.res.obj)]
      BY <1>2, <2>1, <2>2, RebindStatement
  <2>6. /\ ReceiptsOK' /\ OthersKept(q.kind, q.key)
        /\ ReceiptAfter(q.kind, q.key) = ReboundRow(Receipt(r), q.res.obj)
      BY <1>2, <2>2, <2>4, <2>5, ReceiptWritten
  <2>7. Turns(r) /\ Ends(q, req'[r], "ok", q.res)
      BY <1>1, <1>2, <1>3, <2>1, AnswerRow
  <2>8. Fits(req'[r]) /\ Runs(q, req'[r])
      BY <1>3, <2>7, RowsFit
  <2>9. StepOf(r)
      BY <1>1, <1>4, <2>6, <2>7, <2>8, ReceiptStepFits
  <2> QED BY <1>1, <1>3, <1>4, <2>2, <2>6, <2>7, <2>9
<1>6. CASE ~HoldsReceipt(q.kind, q.key, r)
  <2>1. receipt' = receipt /\ Refuse(r)
      BY <1>1, <1>6 DEF Rebind
  <2>2. Receipt(r).owner # r
      BY <1>1, <1>6 DEF HoldsReceipt, Receipt
  <2>3. Turns(r) /\ Ends(q, req'[r], "error", NoResult)
      BY <1>1, <1>2, <2>1, RefuseRow
  <2>4. Fits(req'[r]) /\ Runs(q, req'[r])
      BY <1>3, <2>3, RowsFit
  <2>5. StepOf(r)
      BY <1>1, <1>2, <1>4, <2>1, <2>3, <2>4, ReceiptStepFits, ReceiptsKept
  <2> QED BY <1>1, <1>3, <1>4, <2>1, <2>2, <2>3, <2>5, ReceiptsKept DEF OthersKept
<1> QED BY <1>5, <1>6

\* A command that failed.
LEMMA FailStep ==
    ASSUME WInv, NEW r \in Request, Fail(r)
    PROVE  /\ StepOf(r) /\ OnlyReceipts /\ OthersKept(req[r].kind, req[r].key)
           /\ req[r].pc = "fail" /\ Ends(req[r], req'[r], "error", NoResult)
           /\ \/ /\ Receipt(r).owner = r /\ ~retainReceiptOnError(r)
                 /\ ReceiptAfter(req[r].kind, req[r].key) = NoReceipt
              \/ receipt' = receipt
<1>1. PICK q \in ReqRow : q = req[r]
    BY DEF WInv, RequestsOK
<1>2. ReceiptsOK /\ RequestsOK
    BY TablesParts DEF WInv
<1>3. q.pc = "fail" /\ Fits(q)
    BY <1>1, <1>2 DEF Fail, RequestsOK
<1>4. OnlyReceipts
    BY DEF Fail, OnlyReceipts
<1>5. Turns(r) /\ Ends(q, req'[r], "error", NoResult)
    BY <1>1, <1>2, RefuseRow DEF Fail
<1>6. Fits(req'[r]) /\ Runs(q, req'[r])
    BY <1>3, <1>5, RowsFit
<1>7. CASE HoldsReceipt(q.kind, q.key, r) /\ ~retainReceiptOnError(r)
  <2>1. receipt' = deleteCommandReceipt(q.kind, q.key)
      BY <1>1, <1>7 DEF Fail
  <2>2. ReceiptsOK' /\ OthersKept(q.kind, q.key) /\ ReceiptAfter(q.kind, q.key) = NoReceipt
      BY <1>2, <2>1, ReceiptDeleted
  <2>3. StepOf(r)
      BY <1>1, <1>4, <1>5, <1>6, <2>2, ReceiptStepFits
  <2>4. Receipt(r).owner = r
      BY <1>1, <1>7 DEF HoldsReceipt, Receipt
  <2> QED BY <1>1, <1>3, <1>4, <1>5, <1>7, <2>2, <2>3, <2>4
<1>8. CASE ~(HoldsReceipt(q.kind, q.key, r) /\ ~retainReceiptOnError(r))
  <2>1. receipt' = receipt
      BY <1>1, <1>8 DEF Fail
  <2>2. StepOf(r)
      BY <1>1, <1>2, <1>4, <1>5, <1>6, <2>1, ReceiptStepFits, ReceiptsKept
  <2> QED BY <1>1, <1>3, <1>4, <1>5, <2>1, <2>2, ReceiptsKept DEF OthersKept
<1> QED BY <1>7, <1>8

\* The process of a request dies.
LEMMA CrashStep ==
    ASSUME WInv, NEW r \in Request, Crash(r)
    PROVE  /\ StepOf(r) /\ UNCHANGED tables /\ req'[r].pc = "dead"
           /\ req'[r].ch = req[r].ch /\ req'[r].ans = req[r].ans /\ req'[r].res = req[r].res
           /\ req'[r].left = req[r].left
<1>1. PICK q \in ReqRow : q = req[r]
    BY DEF WInv, RequestsOK
<1>2. Fits(q) /\ q.pc \notin {"new", "done", "dead"}
    BY <1>1 DEF Crash, Live, WInv, RequestsOK
<1> DEFINE p == [q EXCEPT !.pc = "dead", !.seen = NothingRead]
<1>3. req' = [req EXCEPT ![r] = p]
    BY <1>1 DEF Crash
<1>4. /\ p \in ReqRow /\ SameCommand(q, p) /\ p.pc = "dead" /\ p.ch = q.ch /\ p.ans = q.ans
      /\ p.res = q.res /\ p.left = q.left
    BY ZenonT(60), NothingIsRead DEF ReqRow, PC, SameCommand
<1> HIDE DEF p
<1>5. Turns(r) /\ req'[r] = p
    BY <1>3, <1>4, Replaces DEF WInv
<1>6. Fits(p) /\ Runs(q, p)
    BY <1>2, <1>4 DEF Fits, Runs, SameCommand, Late
<1>7. UNCHANGED tables /\ mix' = mix
    BY DEF Crash
<1>8. lock' \in [Coworker -> Request \cup {NoRequest}]
    BY DEF Crash, WInv
<1>9. TablesOK'
    BY <1>7, TablesKept DEF WInv
<1> QED BY <1>1, <1>4, <1>5, <1>6, <1>7, <1>8, <1>9, StepFits DEF StepOf

\* A lease lapses, or is renewed.
LEMMA StaleStep ==
    ASSUME WInv, NEW kind, NEW key, NEW stale \in BOOLEAN, getCommandReceipt(kind, key) # NoReceipt,
           receipt' = MarkedStale(kind, key, stale),
           UNCHANGED <<chan, part, cow, csess, msg, task, pin, draft, req, lock, mix>>
    PROVE  /\ WInv' /\ OthersKept(kind, key) /\ kind \in CommandKind /\ key \in Key
           /\ ReceiptAfter(kind, key) = StaleRow(getCommandReceipt(kind, key), stale)
<1>1. ReceiptsOK /\ RequestsOK
    BY TablesParts DEF WInv
<1>2. PICK rc \in ReceiptRow : rc = getCommandReceipt(kind, key)
    BY <1>1, ReceiptFound
<1>3. <<kind, key>> \in DOMAIN receipt /\ kind \in CommandKind /\ key \in Key
    BY <1>1, ReceiptFound
<1>4. receipt' = [receipt EXCEPT ![<<kind, key>>] = StaleRow(rc, stale)]
  <2>1. MarkedStale(kind, key, stale) =
            [receipt EXCEPT ![<<kind, key>>] = StaleRow(getCommandReceipt(kind, key), stale)]
      BY <1>1, <1>3, StaleStatement
  <2> QED BY <1>2, <2>1
<1>5. StaleRow(rc, stale) \in ReceiptRow
    BY StaleRows
<1>6. ReceiptsOK' /\ OthersKept(kind, key) /\ ReceiptAfter(kind, key) = StaleRow(rc, stale)
    BY <1>1, <1>3, <1>4, <1>5, ReceiptWritten
<1>7. TablesOK'
    BY <1>6, TablesParts DEF WInv, TablesOK, ReceiptsOK
<1>8. WInv'
    BY <1>1, <1>7 DEF WInv, RequestsOK
<1> QED BY <1>2, <1>3, <1>6, <1>8

\* A step that changes none of the rows but those of requests.
LEMMA ReadingStepFits ==
    ASSUME WInv, NEW r \in Request, Turns(r), Fits(req'[r]), Runs(req[r], req'[r]),
           UNCHANGED <<tables, lock, mix>>
    PROVE  StepOf(r)
<1>1. TablesOK'
    BY TablesKept DEF WInv
<1> QED BY <1>1, StepFits DEF StepOf, WInv

\* Going on to another place without writing anything.
LEMMA GoesFits ==
    ASSUME WInv, NEW r \in Request, NEW pc \in PC, Goto(r, pc), Fits(req[r]),
           UNCHANGED <<tables, lock, mix>>,
           req[r].pc \notin {"new", "done", "dead"}, req[r].pc \notin Late,
           req[r].kind # "coworker.update", pc \in {"claim", "reload", "run", "fail"},
           pc = "fail" => req[r].kind \notin {"channel.create", "coworker.draft.create"}
    PROVE  StepOf(r) /\ Goes(req[r], req'[r], pc)
<1>1. Turns(r) /\ Goes(req[r], req'[r], pc)
    BY GotoRow DEF WInv
<1>2. Fits(req'[r]) /\ Runs(req[r], req'[r])
    BY <1>1, RowsFit
<1> QED BY <1>1, <1>2, ReadingStepFits

-----------------------------------------------------------------------------
(***************************************************************************)
(* Arrivals.                                                               *)
(***************************************************************************)

\* What a command may name when it arrives, and where it begins.
CommandFits(q, pc) ==
    /\ q.kind # "coworker.update" => q.key \in Key
    /\ q.kind = "coworker.update" => pc \in {"plan", "done"}
    /\ q.kind \in OnCoworker => q.w \in Coworker
    /\ q.kind \in OnObject => q.obj \in ObjId
    /\ q.kind = "channel.pin.remove" => q.obj \in Request
    /\ pc = "plan" => q.kind = "coworker.update"

\* The rows a command names are there.
NamesRows(q, pc) ==
    /\ q.kind = "channel.pin.remove" => pin[q.obj].state # "absent" /\ pin[q.obj].chan = q.ch
    /\ q.kind = "task.update" => task[q.obj].status # "absent"
    /\ q.kind \in {"coworker.draft.revise", "coworker.draft.confirm", "coworker.draft.reject"} =>
           draft[q.obj].state # "absent" /\ draft[q.obj].who = q.w
    /\ pc = "plan" => cow[q.w].status = "active"

\* What an arrival is to the rest of the state.
ArrivalOf(r) ==
    /\ Turns(r) /\ UNCHANGED <<tables, lock, mix>> /\ WInv'
    /\ req[r].pc = "new" /\ req'[r].pc \in {"claim", "replay", "plan", "done"}
    /\ Fits(req'[r]) /\ NamesRows(req'[r], req'[r].pc)
    /\ req'[r].ans # "ok" /\ req'[r].left = {} /\ req'[r].res = NoResult
    /\ req'[r].w \in Coworker => req'[r].seen.cow = cow[req'[r].w]

\* A command arrives.
LEMMA ArrivalFits ==
    ASSUME WInv, NEW r \in Request, NEW q \in ReqRow, NEW pc \in {"claim", "replay", "plan", "done"},
           q.left = {}, q.res = NoResult, CommandFits(q, pc), NamesRows(q, pc), Arrive(r, q, pc)
    PROVE  ArrivalOf(r)
<1>1. RequestsOK /\ TablesOK
    BY DEF WInv
<1>2. PICK sc \in {"absent", "active", "archived"}, cw \in CowRow :
          sc = chan[q.ch].status /\ cw = IF q.w = NoRequest THEN NoCow ELSE cow[q.w]
    BY <1>1, RowFields, Nulls DEF TablesOK, ChanRow, ChanId
<1>3. PICK tk \in TaskRow, df \in DraftRow :
          /\ tk = IF q.obj = NoRequest THEN NoTask ELSE task[q.obj]
          /\ df = IF q.obj = NoRequest THEN NoDraft ELSE draft[q.obj]
    BY <1>1, RowFields, Nulls DEF TablesOK
<1>4. PICK ms \in SUBSET Channel :
          ms = IF q.w = NoRequest THEN {} ELSE {c \in Channel : part[c][q.w] = "member"}
    OBVIOUS
<1>5. PICK an \in {"none", "error"} : an = IF pc = "done" THEN "error" ELSE "none"
    OBVIOUS
<1> DEFINE sn == [chan |-> sc, cow |-> cw, task |-> tk, draft |-> df, members |-> ms, owner |-> NoRequest]
           p  == [q EXCEPT !.pc = pc, !.ans = an, !.seen = sn]
<1>6. req' = [req EXCEPT ![r] = p]
    BY <1>2, <1>3, <1>4, <1>5 DEF Arrive
<1>7. sn \in [chan : {"absent", "active", "archived"}, cow : CowRow, task : TaskRow,
              draft : DraftRow, members : SUBSET Channel, owner : Request \cup {NoRequest}]
    OBVIOUS
<1>8. sn.cow = cw
    OBVIOUS
<1> HIDE DEF sn
<1>9. /\ p \in ReqRow /\ SameCommand(q, p) /\ p.ch = q.ch /\ p.pc = pc /\ p.ans = an
      /\ p.left = {} /\ p.res = NoResult /\ p.seen = sn
  <2>1. pc \in PC /\ an \in {"none", "ok", "error"}
      BY DEF PC
  <2>2. p \in ReqRow
      BY <1>7, <2>1 DEF ReqRow
  <2>3. SameCommand(q, p) /\ p.ch = q.ch /\ p.pc = pc /\ p.ans = an /\ p.left = q.left /\ p.res = q.res /\ p.seen = sn
      BY DEF ReqRow, SameCommand
  <2> QED BY <2>2, <2>3
<1> HIDE DEF p
<1>10. Turns(r) /\ req'[r] = p
    BY <1>1, <1>6, <1>9, Replaces
<1>11. Fits(p)
    BY <1>9 DEF Fits, CommandFits, SameCommand
<1>12. NamesRows(p, p.pc)
    BY <1>9 DEF NamesRows, SameCommand
<1>13. p.w \in Coworker => p.seen.cow = cow[p.w]
    BY <1>2, <1>8, <1>9, IdAssumption DEF SameCommand
<1>14. UNCHANGED <<tables, lock, mix>> /\ req[r].pc = "new"
    BY DEF Arrive
<1>15. TablesOK'
    BY <1>1, <1>14, TablesKept
<1>16. WInv'
    BY <1>10, <1>11, <1>14, <1>15, StepFits DEF WInv
<1> QED BY <1>9, <1>10, <1>11, <1>12, <1>13, <1>14, <1>16 DEF ArrivalOf

\* The row of a request before it arrives.
LEMMA NewRow ==
    /\ NewReq \in ReqRow /\ NewReq.left = {} /\ NewReq.res = NoResult
    /\ NewReq.ch \in Channel /\ NewReq.w = NoRequest /\ NewReq.obj = NoRequest /\ NewReq.pc = "new"
BY Nulls, NothingIsRead, 1 \in 1..2 DEF NewReq, ReqRow, PC, CommandKind, TaskStatus

\* A command on a channel arrives at its first statement, or is refused at once.
LEMMA LoadedChannel ==
    ASSUME NEW r, NEW q, NEW pc, loadOwnedChannel(r, q, pc)
    PROVE  Arrive(r, q, pc) \/ Arrive(r, q, "done")
<1>1. CASE chan[q.ch].status = "archived"
    BY <1>1 DEF loadOwnedChannel
<1>2. CASE chan[q.ch].status # "archived"
    BY <1>2 DEF loadOwnedChannel
<1> QED BY <1>1, <1>2

\* Each command arrives with the rows it names.
LEMMA CreateChannelArrives ==
    ASSUME WInv, NEW r \in Request, createChannel(r)
    PROVE  ArrivalOf(r)
<1>1. PICK k \in Key : Arrive(r, [NewReq EXCEPT !.kind = "channel.create", !.key = k], "claim")
    BY DEF createChannel
<1> DEFINE q == [NewReq EXCEPT !.kind = "channel.create", !.key = k]
<1>2. q \in ReqRow /\ q.left = {} /\ q.res = NoResult
      /\ q.kind = "channel.create" /\ q.key = k
    BY <1>1, NewRow, GoalAssumption DEF ReqRow, CommandKind, ObjId
<1>3. Arrive(r, q, "claim")
    BY <1>1
<1> HIDE DEF q
<1>4. \A pc \in {"claim"} : CommandFits(q, pc)
    BY <1>1, <1>2 DEF CommandFits, NamesRows, OnCoworker, OnObject
<1>5. \A pc \in {"claim"} : (pc = "plan" => cow[q.w].status = "active") => NamesRows(q, pc)
    BY <1>1, <1>2 DEF NamesRows
<1> QED BY <1>2, <1>3, <1>4, <1>5, ArrivalFits

\* channel.update names a channel, and is refused on an archived one.
LEMMA UpdateChannelArrives ==
    ASSUME WInv, NEW r \in Request, updateChannel(r)
    PROVE  ArrivalOf(r)
<1>1. PICK k \in Key, c \in Channel : loadOwnedChannel(r, [NewReq EXCEPT !.kind = "channel.update", !.key = k, !.ch = c], "claim")
    BY DEF updateChannel
<1> DEFINE q == [NewReq EXCEPT !.kind = "channel.update", !.key = k, !.ch = c]
<1>2. q \in ReqRow /\ q.left = {} /\ q.res = NoResult
      /\ q.kind = "channel.update" /\ q.key = k /\ q.ch = c
    BY <1>1, NewRow, GoalAssumption DEF ReqRow, CommandKind, ObjId
<1>3. Arrive(r, q, "claim") \/ Arrive(r, q, "done")
    BY <1>1, LoadedChannel
<1> HIDE DEF q
<1>4. \A pc \in {"claim", "done"} : CommandFits(q, pc)
    BY <1>1, <1>2 DEF CommandFits, NamesRows, OnCoworker, OnObject
<1>5. \A pc \in {"claim", "done"} : (pc = "plan" => cow[q.w].status = "active") => NamesRows(q, pc)
    BY <1>1, <1>2 DEF NamesRows
<1> QED BY <1>2, <1>3, <1>4, <1>5, ArrivalFits

\* channel.archive names a channel.
LEMMA ArchiveChannelArrives ==
    ASSUME WInv, NEW r \in Request, archiveChannel(r)
    PROVE  ArrivalOf(r)
<1>1. PICK k \in Key, c \in Channel : Arrive(r, [NewReq EXCEPT !.kind = "channel.archive", !.key = k, !.ch = c], "claim")
    BY DEF archiveChannel
<1> DEFINE q == [NewReq EXCEPT !.kind = "channel.archive", !.key = k, !.ch = c]
<1>2. q \in ReqRow /\ q.left = {} /\ q.res = NoResult
      /\ q.kind = "channel.archive" /\ q.key = k /\ q.ch = c
    BY <1>1, NewRow, GoalAssumption DEF ReqRow, CommandKind, ObjId
<1>3. Arrive(r, q, "claim")
    BY <1>1
<1> HIDE DEF q
<1>4. \A pc \in {"claim"} : CommandFits(q, pc)
    BY <1>1, <1>2 DEF CommandFits, NamesRows, OnCoworker, OnObject
<1>5. \A pc \in {"claim"} : (pc = "plan" => cow[q.w].status = "active") => NamesRows(q, pc)
    BY <1>1, <1>2 DEF NamesRows
<1> QED BY <1>2, <1>3, <1>4, <1>5, ArrivalFits

\* channel.message names a channel and the coworker it mentions.
LEMMA PostMessageArrives ==
    ASSUME WInv, NEW r \in Request, postMessage(r)
    PROVE  ArrivalOf(r)
<1>1. PICK k \in Key, c \in Channel, w \in Coworker : Arrive(r, [NewReq EXCEPT !.kind = "channel.message", !.key = k, !.ch = c, !.w = w], "replay")
    BY DEF postMessage
<1> DEFINE q == [NewReq EXCEPT !.kind = "channel.message", !.key = k, !.ch = c, !.w = w]
<1>2. q \in ReqRow /\ q.left = {} /\ q.res = NoResult
      /\ q.kind = "channel.message" /\ q.key = k /\ q.ch = c /\ q.w = w
    BY <1>1, NewRow, GoalAssumption DEF ReqRow, CommandKind, ObjId
<1>3. Arrive(r, q, "replay")
    BY <1>1
<1> HIDE DEF q
<1>4. \A pc \in {"replay"} : CommandFits(q, pc)
    BY <1>1, <1>2 DEF CommandFits, NamesRows, OnCoworker, OnObject
<1>5. \A pc \in {"replay"} : (pc = "plan" => cow[q.w].status = "active") => NamesRows(q, pc)
    BY <1>1, <1>2 DEF NamesRows
<1> QED BY <1>2, <1>3, <1>4, <1>5, ArrivalFits

\* channel.pin.create names a stored message, whose channel is the command's.
LEMMA CreatePinArrives ==
    ASSUME WInv, NEW r \in Request, createPin(r)
    PROVE  ArrivalOf(r)
<1>1. PICK k \in Key, m \in ObjId : msg[m].chan # NoRequest /\ Arrive(r, [NewReq EXCEPT !.kind = "channel.pin.create", !.key = k, !.ch = msg[m].chan, !.obj = m], "claim")
    BY DEF createPin
<1>2. PICK c \in Channel : c = msg[m].chan
    BY <1>1 DEF WInv, TablesOK, MsgRow, PinRow, TaskRow
<1> DEFINE q == [NewReq EXCEPT !.kind = "channel.pin.create", !.key = k, !.ch = c, !.obj = m]
<1>3. q \in ReqRow /\ q.left = {} /\ q.res = NoResult
      /\ q.kind = "channel.pin.create" /\ q.key = k /\ q.ch = c /\ q.obj = m
    BY ZenonT(60), <1>1, NewRow, GoalAssumption DEF ReqRow, CommandKind, ObjId
<1>4. Arrive(r, q, "claim")
    BY <1>1, <1>2
<1> HIDE DEF q
<1>5. \A pc \in {"claim"} : CommandFits(q, pc)
    BY <1>1, <1>2, <1>3 DEF CommandFits, NamesRows, OnCoworker, OnObject
<1>6. \A pc \in {"claim"} : (pc = "plan" => cow[q.w].status = "active") => NamesRows(q, pc)
    BY <1>1, <1>2, <1>3 DEF NamesRows
<1> QED BY <1>3, <1>4, <1>5, <1>6, ArrivalFits

\* channel.pin.remove names a stored pin, whose channel is the command's.
LEMMA RemovePinArrives ==
    ASSUME WInv, NEW r \in Request, removePin(r)
    PROVE  ArrivalOf(r)
<1>1. PICK k \in Key, p \in Request : pin[p].state # "absent" /\ Arrive(r, [NewReq EXCEPT !.kind = "channel.pin.remove", !.key = k, !.ch = pin[p].chan, !.obj = p], "claim")
    BY DEF removePin
<1>2. PICK c \in Channel : c = pin[p].chan
    BY <1>1 DEF WInv, TablesOK, MsgRow, PinRow, TaskRow
<1> DEFINE q == [NewReq EXCEPT !.kind = "channel.pin.remove", !.key = k, !.ch = c, !.obj = p]
<1>3. q \in ReqRow /\ q.left = {} /\ q.res = NoResult
      /\ q.kind = "channel.pin.remove" /\ q.key = k /\ q.ch = c /\ q.obj = p
    BY <1>1, NewRow, GoalAssumption DEF ReqRow, CommandKind, ObjId
<1>4. Arrive(r, q, "claim")
    BY <1>1, <1>2
<1> HIDE DEF q
<1>5. \A pc \in {"claim"} : CommandFits(q, pc)
    BY <1>1, <1>2, <1>3 DEF CommandFits, NamesRows, OnCoworker, OnObject, ObjId
<1>6. \A pc \in {"claim"} : (pc = "plan" => cow[q.w].status = "active") => NamesRows(q, pc)
    BY <1>1, <1>2, <1>3 DEF NamesRows
<1> QED BY <1>3, <1>4, <1>5, <1>6, ArrivalFits

\* channel.participant.add names a channel and a coworker.
LEMMA AddParticipantArrives ==
    ASSUME WInv, NEW r \in Request, addParticipant(r)
    PROVE  ArrivalOf(r)
<1>1. PICK k \in Key, c \in Channel, w \in Coworker : loadOwnedChannel(r, [NewReq EXCEPT !.kind = "channel.participant.add", !.key = k, !.ch = c, !.w = w], IF cow[w].status = "active" THEN "claim" ELSE "done")
    BY DEF addParticipant
<1> DEFINE q == [NewReq EXCEPT !.kind = "channel.participant.add", !.key = k, !.ch = c, !.w = w]
<1>2. q \in ReqRow /\ q.left = {} /\ q.res = NoResult
      /\ q.kind = "channel.participant.add" /\ q.key = k /\ q.ch = c /\ q.w = w
    BY <1>1, NewRow, GoalAssumption DEF ReqRow, CommandKind, ObjId
<1>3. Arrive(r, q, "claim") \/ Arrive(r, q, "done")
    BY <1>1, LoadedChannel
<1> HIDE DEF q
<1>4. \A pc \in {"claim", "done"} : CommandFits(q, pc)
    BY <1>1, <1>2 DEF CommandFits, NamesRows, OnCoworker, OnObject
<1>5. \A pc \in {"claim", "done"} : (pc = "plan" => cow[q.w].status = "active") => NamesRows(q, pc)
    BY <1>1, <1>2 DEF NamesRows
<1> QED BY <1>2, <1>3, <1>4, <1>5, ArrivalFits

\* channel.participant.remove names a channel and a coworker.
LEMMA RemoveParticipantArrives ==
    ASSUME WInv, NEW r \in Request, removeParticipant(r)
    PROVE  ArrivalOf(r)
<1>1. PICK k \in Key, c \in Channel, w \in Coworker : loadOwnedChannel(r, [NewReq EXCEPT !.kind = "channel.participant.remove", !.key = k, !.ch = c, !.w = w], "replay")
    BY DEF removeParticipant
<1> DEFINE q == [NewReq EXCEPT !.kind = "channel.participant.remove", !.key = k, !.ch = c, !.w = w]
<1>2. q \in ReqRow /\ q.left = {} /\ q.res = NoResult
      /\ q.kind = "channel.participant.remove" /\ q.key = k /\ q.ch = c /\ q.w = w
    BY <1>1, NewRow, GoalAssumption DEF ReqRow, CommandKind, ObjId
<1>3. Arrive(r, q, "replay") \/ Arrive(r, q, "done")
    BY <1>1, LoadedChannel
<1> HIDE DEF q
<1>4. \A pc \in {"replay", "done"} : CommandFits(q, pc)
    BY <1>1, <1>2 DEF CommandFits, NamesRows, OnCoworker, OnObject
<1>5. \A pc \in {"replay", "done"} : (pc = "plan" => cow[q.w].status = "active") => NamesRows(q, pc)
    BY <1>1, <1>2 DEF NamesRows
<1> QED BY <1>2, <1>3, <1>4, <1>5, ArrivalFits

\* coworker.update carries no key: it names a coworker and the channels of its configuration.
LEMMA UpdateCoworkerArrives ==
    ASSUME WInv, NEW r \in Request, updateCoworker(r)
    PROVE  ArrivalOf(r)
<1>1. PICK w \in Coworker, S \in SUBSET Channel : Arrive(r, [NewReq EXCEPT !.kind = "coworker.update", !.w = w, !.set = S], IF cow[w].status = "active" THEN "plan" ELSE "done")
    BY DEF updateCoworker
<1> DEFINE q == [NewReq EXCEPT !.kind = "coworker.update", !.w = w, !.set = S]
<1>2. q \in ReqRow /\ q.left = {} /\ q.res = NoResult
      /\ q.kind = "coworker.update" /\ q.w = w /\ q.set = S
    BY <1>1, NewRow, GoalAssumption DEF ReqRow, CommandKind, ObjId
<1>3. (Arrive(r, q, "plan") /\ cow[w].status = "active") \/ Arrive(r, q, "done")
    BY <1>1
<1> HIDE DEF q
<1>4. \A pc \in {"plan", "done"} : CommandFits(q, pc)
    BY <1>1, <1>2 DEF CommandFits, NamesRows, OnCoworker, OnObject
<1>5. \A pc \in {"plan", "done"} : (pc = "plan" => cow[q.w].status = "active") => NamesRows(q, pc)
    BY <1>1, <1>2 DEF NamesRows
<1> QED BY <1>2, <1>3, <1>4, <1>5, ArrivalFits

\* coworker.disable names a coworker.
LEMMA DisableCoworkerArrives ==
    ASSUME WInv, NEW r \in Request, disableCoworker(r)
    PROVE  ArrivalOf(r)
<1>1. PICK k \in Key, w \in Coworker : Arrive(r, [NewReq EXCEPT !.kind = "coworker.disable", !.key = k, !.w = w], IF cow[w].status = "absent" THEN "done" ELSE "replay")
    BY DEF disableCoworker
<1> DEFINE q == [NewReq EXCEPT !.kind = "coworker.disable", !.key = k, !.w = w]
<1>2. q \in ReqRow /\ q.left = {} /\ q.res = NoResult
      /\ q.kind = "coworker.disable" /\ q.key = k /\ q.w = w
    BY <1>1, NewRow, GoalAssumption DEF ReqRow, CommandKind, ObjId
<1>3. Arrive(r, q, "replay") \/ Arrive(r, q, "done")
    BY <1>1
<1> HIDE DEF q
<1>4. \A pc \in {"replay", "done"} : CommandFits(q, pc)
    BY <1>1, <1>2 DEF CommandFits, NamesRows, OnCoworker, OnObject
<1>5. \A pc \in {"replay", "done"} : (pc = "plan" => cow[q.w].status = "active") => NamesRows(q, pc)
    BY <1>1, <1>2 DEF NamesRows
<1> QED BY <1>2, <1>3, <1>4, <1>5, ArrivalFits

\* task.create names a channel and an assignee, or none.
LEMMA CreateTaskArrives ==
    ASSUME WInv, NEW r \in Request, createTask(r)
    PROVE  ArrivalOf(r)
<1>1. PICK k \in Key, c \in Channel, w \in Coworker \cup {NoRequest} : Arrive(r, [NewReq EXCEPT !.kind = "task.create", !.key = k, !.ch = c, !.w = w], "claim")
    BY DEF createTask
<1> DEFINE q == [NewReq EXCEPT !.kind = "task.create", !.key = k, !.ch = c, !.w = w]
<1>2. q \in ReqRow /\ q.left = {} /\ q.res = NoResult
      /\ q.kind = "task.create" /\ q.key = k /\ q.ch = c /\ q.w = w
    BY <1>1, NewRow, GoalAssumption DEF ReqRow, CommandKind, ObjId
<1>3. Arrive(r, q, "claim")
    BY <1>1
<1> HIDE DEF q
<1>4. \A pc \in {"claim"} : CommandFits(q, pc)
    BY <1>1, <1>2 DEF CommandFits, NamesRows, OnCoworker, OnObject
<1>5. \A pc \in {"claim"} : (pc = "plan" => cow[q.w].status = "active") => NamesRows(q, pc)
    BY <1>1, <1>2 DEF NamesRows
<1> QED BY <1>2, <1>3, <1>4, <1>5, ArrivalFits

\* task.create by a coworker's tool names that coworker, too.
LEMMA CreateTaskForCoworkerArrives ==
    ASSUME WInv, NEW r \in Request, createTaskForCoworker(r)
    PROVE  ArrivalOf(r)
<1>1. PICK k \in Key, c \in Channel, by \in Coworker : Arrive(r, [NewReq EXCEPT !.kind = "task.create", !.key = k, !.ch = c, !.by = by], IF cow[by].status = "active" /\ Authorized(by, c) THEN "claim" ELSE "done")
    BY DEF createTaskForCoworker
<1> DEFINE q == [NewReq EXCEPT !.kind = "task.create", !.key = k, !.ch = c, !.by = by]
<1>2. q \in ReqRow /\ q.left = {} /\ q.res = NoResult
      /\ q.kind = "task.create" /\ q.key = k /\ q.ch = c /\ q.by = by
    BY <1>1, NewRow, GoalAssumption, ZenonT(60) DEF ReqRow, CommandKind, ObjId
<1>3. Arrive(r, q, "claim") \/ Arrive(r, q, "done")
    BY <1>1
<1> HIDE DEF q
<1>4. \A pc \in {"claim", "done"} : CommandFits(q, pc)
    BY <1>1, <1>2 DEF CommandFits, NamesRows, OnCoworker, OnObject
<1>5. \A pc \in {"claim", "done"} : (pc = "plan" => cow[q.w].status = "active") => NamesRows(q, pc)
    BY <1>1, <1>2 DEF NamesRows
<1> QED BY <1>2, <1>3, <1>4, <1>5, ArrivalFits

\* task.update names a stored task, the status it wants and the revision it expects.
LEMMA UpdateTaskArrives ==
    ASSUME WInv, NEW r \in Request, updateTask(r)
    PROVE  ArrivalOf(r)
<1>1. PICK k \in Key, t \in ObjId, st \in Goal, rev \in Expected : task[t].status # "absent" /\ Arrive(r, [NewReq EXCEPT !.kind = "task.update", !.key = k, !.obj = t, !.st = st, !.rev = rev, !.ch = task[t].chan], "claim")
    BY DEF updateTask
<1>2. PICK c \in Channel : c = task[t].chan
    BY <1>1 DEF WInv, TablesOK, MsgRow, PinRow, TaskRow
<1> DEFINE q == [NewReq EXCEPT !.kind = "task.update", !.key = k, !.obj = t, !.st = st, !.rev = rev, !.ch = c]
<1>3. q \in ReqRow /\ q.left = {} /\ q.res = NoResult
      /\ q.kind = "task.update" /\ q.key = k /\ q.obj = t /\ q.st = st /\ q.rev = rev /\ q.ch = c
    BY ZenonT(60), <1>1, NewRow, GoalAssumption DEF ReqRow, CommandKind, ObjId
<1>4. Arrive(r, q, "claim")
    BY <1>1, <1>2
<1> HIDE DEF q
<1>5. \A pc \in {"claim"} : CommandFits(q, pc)
    BY <1>1, <1>2, <1>3 DEF CommandFits, NamesRows, OnCoworker, OnObject
<1>6. \A pc \in {"claim"} : (pc = "plan" => cow[q.w].status = "active") => NamesRows(q, pc)
    BY <1>1, <1>2, <1>3 DEF NamesRows
<1> QED BY <1>3, <1>4, <1>5, <1>6, ArrivalFits

\* task.update by a coworker's tool names that coworker, too.
LEMMA UpdateTaskForCoworkerArrives ==
    ASSUME WInv, NEW r \in Request, updateTaskForCoworker(r)
    PROVE  ArrivalOf(r)
<1>1. PICK k \in Key, t \in ObjId, st \in Goal, rev \in Expected, by \in Coworker : task[t].status # "absent" /\ Arrive(r, [NewReq EXCEPT !.kind = "task.update", !.key = k, !.obj = t, !.st = st, !.rev = rev, !.ch = task[t].chan, !.by = by], IF cow[by].status = "active" THEN "claim" ELSE "done")
    BY DEF updateTaskForCoworker
<1>2. PICK c \in Channel : c = task[t].chan
    BY <1>1 DEF WInv, TablesOK, MsgRow, PinRow, TaskRow
<1> DEFINE q == [NewReq EXCEPT !.kind = "task.update", !.key = k, !.obj = t, !.st = st, !.rev = rev, !.ch = c, !.by = by]
<1>3. q \in ReqRow /\ q.left = {} /\ q.res = NoResult
      /\ q.kind = "task.update" /\ q.key = k /\ q.obj = t /\ q.st = st /\ q.rev = rev /\ q.ch = c /\ q.by = by
    BY ZenonT(60), <1>1, NewRow, GoalAssumption DEF ReqRow, CommandKind, ObjId
<1>4. Arrive(r, q, "claim") \/ Arrive(r, q, "done")
    BY <1>1, <1>2
<1> HIDE DEF q
<1>5. \A pc \in {"claim", "done"} : CommandFits(q, pc)
    BY <1>1, <1>2, <1>3 DEF CommandFits, NamesRows, OnCoworker, OnObject
<1>6. \A pc \in {"claim", "done"} : (pc = "plan" => cow[q.w].status = "active") => NamesRows(q, pc)
    BY <1>1, <1>2, <1>3 DEF NamesRows
<1> QED BY <1>3, <1>4, <1>5, <1>6, ArrivalFits

\* coworker.draft.create names no row.
LEMMA CreateCoworkerDraftArrives ==
    ASSUME WInv, NEW r \in Request, createCoworkerDraft(r)
    PROVE  ArrivalOf(r)
<1>1. PICK k \in Key : Arrive(r, [NewReq EXCEPT !.kind = "coworker.draft.create", !.key = k], "claim")
    BY DEF createCoworkerDraft
<1> DEFINE q == [NewReq EXCEPT !.kind = "coworker.draft.create", !.key = k]
<1>2. q \in ReqRow /\ q.left = {} /\ q.res = NoResult
      /\ q.kind = "coworker.draft.create" /\ q.key = k
    BY <1>1, NewRow, GoalAssumption DEF ReqRow, CommandKind, ObjId
<1>3. Arrive(r, q, "claim")
    BY <1>1
<1> HIDE DEF q
<1>4. \A pc \in {"claim"} : CommandFits(q, pc)
    BY <1>1, <1>2 DEF CommandFits, NamesRows, OnCoworker, OnObject
<1>5. \A pc \in {"claim"} : (pc = "plan" => cow[q.w].status = "active") => NamesRows(q, pc)
    BY <1>1, <1>2 DEF NamesRows
<1> QED BY <1>2, <1>3, <1>4, <1>5, ArrivalFits

\* A command on a draft names a stored draft and the revision that was read.
LEMMA OnDraftArrives ==
    ASSUME WInv, NEW r \in Request, NEW kind \in {"coworker.draft.revise", "coworker.draft.confirm", "coworker.draft.reject"}, OnDraft(r, kind)
    PROVE  ArrivalOf(r)
<1>1. PICK k \in Key, d \in ObjId : draft[d].state # "absent" /\ Arrive(r, [NewReq EXCEPT !.kind = kind, !.key = k, !.obj = d, !.w = draft[d].who, !.rev = draft[d].rev], "claim")
    BY DEF OnDraft
<1>2. PICK w \in Coworker, rev \in Nat : w = draft[d].who /\ rev = draft[d].rev
    BY <1>1 DEF WInv, TablesOK, DraftRow
<1> DEFINE q == [NewReq EXCEPT !.kind = kind, !.key = k, !.obj = d, !.w = w, !.rev = rev]
<1>3. q \in ReqRow /\ q.left = {} /\ q.res = NoResult
      /\ q.kind = kind /\ q.key = k /\ q.obj = d /\ q.w = w /\ q.rev = rev
    BY ZenonT(60), <1>1, NewRow, GoalAssumption DEF ReqRow, CommandKind, ObjId
<1>4. Arrive(r, q, "claim")
    BY <1>1, <1>2
<1> HIDE DEF q
<1>5. \A pc \in {"claim"} : CommandFits(q, pc)
    BY <1>1, <1>2, <1>3 DEF CommandFits, NamesRows, OnCoworker, OnObject
<1>6. \A pc \in {"claim"} : (pc = "plan" => cow[q.w].status = "active") => NamesRows(q, pc)
    BY <1>1, <1>2, <1>3 DEF NamesRows
<1> QED BY <1>3, <1>4, <1>5, <1>6, ArrivalFits

-----------------------------------------------------------------------------
(***************************************************************************)
(* Channel commands.                                                       *)
(***************************************************************************)

\* A step of a request that writes rows keeps the types when each table does.
LEMMA WritingStepFits ==
    ASSUME WInv, NEW r \in Request, Turns(r), Fits(req'[r]), Runs(req[r], req'[r]), mix' = mix,
           receipt' = receipt, lock' \in [Coworker -> Request \cup {NoRequest}],
           chan' \in [ChanId -> ChanRow], part' \in [Channel -> [Coworker -> PartState]],
           cow' \in [Coworker -> CowRow], csess' \in [Channel -> [Coworker -> SessRow]],
           msg' \in [ObjId -> MsgRow], task' \in [ObjId -> TaskRow],
           pin' \in [Request -> PinRow], draft' \in [ObjId -> DraftRow]
    PROVE  StepOf(r)
<1>1. TablesOK'
    BY DEF WInv, TablesOK
<1> QED BY <1>1, StepFits DEF StepOf

\* The tables are of their types.
LEMMA Typed ==
    ASSUME WInv
    PROVE  /\ chan \in [ChanId -> ChanRow] /\ part \in [Channel -> [Coworker -> PartState]]
           /\ cow \in [Coworker -> CowRow] /\ csess \in [Channel -> [Coworker -> SessRow]]
           /\ msg \in [ObjId -> MsgRow] /\ task \in [ObjId -> TaskRow]
           /\ pin \in [Request -> PinRow] /\ draft \in [ObjId -> DraftRow]
           /\ lock \in [Coworker -> Request \cup {NoRequest}]
           /\ RequestsOK /\ TablesOK /\ ReceiptsOK /\ mix \in Mixes
BY TablesParts DEF WInv, TablesOK

\* Only the status of a channel counts here.
StatusSet(c, status) ==
    \A d \in ChanId : chan'[d].status = IF d = c THEN status ELSE chan[d].status

StatusesKept == \A d \in ChanId : chan'[d].status = chan[d].status

\* An event is appended to a channel's log, and the channel's status is set.
LEMMA EventAppended ==
    ASSUME chan \in [ChanId -> ChanRow], NEW c \in ChanId, NEW status \in {"absent", "active", "archived"},
           chan' = appendChannelEvent(c, status)
    PROVE  chan' \in [ChanId -> ChanRow] /\ StatusSet(c, status)
<1>1. PICK row \in ChanRow : row = chan[c]
    OBVIOUS
<1>0. PICK n \in Nat : n = row.next + 1
    BY DEF ChanRow
<1> DEFINE new == [row EXCEPT !.next = n, !.status = status]
<1>2. new \in ChanRow /\ new.status = status
    BY DEF ChanRow
<1>3. chan' = [chan EXCEPT ![c] = new]
  <2>1. chan' = [chan EXCEPT ![c].next = n, ![c].status = status]
      BY <1>0, <1>1 DEF appendChannelEvent
  <2> QED BY <1>1, <2>1
<1> HIDE DEF new
<1> QED BY <1>2, <1>3 DEF StatusSet

\* Events appended to several channels leave their statuses alone.
LEMMA EventsAppended ==
    ASSUME chan \in [ChanId -> ChanRow], NEW S, chan' = Appended(S)
    PROVE  chan' \in [ChanId -> ChanRow] /\ StatusesKept
<1>1. ASSUME NEW d \in ChanId PROVE chan'[d] \in ChanRow /\ chan'[d].status = chan[d].status
  <2>1. PICK row \in ChanRow : row = chan[d]
      OBVIOUS
  <2>2. chan'[d] = IF d \in S THEN [row EXCEPT !.next = @ + 1] ELSE row
      BY <2>1 DEF Appended
  <2> QED BY <2>1, <2>2 DEF ChanRow
<1>2. chan' = [d \in ChanId |-> chan'[d]]
    BY DEF Appended
<1> QED BY <1>1, <1>2 DEF StatusesKept

\* An event of a channel leaves the statuses alone.
LEMMA EventKeepsStatuses ==
    ASSUME chan \in [ChanId -> ChanRow], NEW c \in ChanId, chan' = appendChannelEvent(c, chan[c].status)
    PROVE  chan' \in [ChanId -> ChanRow] /\ StatusesKept
<1>1. PICK status \in {"absent", "active", "archived"} : status = chan[c].status
    BY DEF ChanRow
<1> QED BY <1>1, EventAppended DEF StatusSet, StatusesKept

\* A run is made for a message; no message moves to another channel.
LEMMA RunMade ==
    ASSUME msg \in [ObjId -> MsgRow], NEW m, msg' = CreateRun(m)
    PROVE  /\ msg' \in [ObjId -> MsgRow]
           /\ \A o \in ObjId : /\ msg'[o].chan = msg[o].chan
                               /\ o # m => msg'[o] = msg[o]
                               /\ o = m => msg'[o].run
<1>1. CASE m \in ObjId
  <2>1. PICK row \in MsgRow : row = msg[m]
      BY <1>1
  <2> DEFINE new == [row EXCEPT !.run = TRUE]
  <2>2. new \in MsgRow /\ new.chan = row.chan /\ new.run
      BY DEF MsgRow
  <2>3. msg' = [msg EXCEPT ![m] = new]
      BY <2>1 DEF CreateRun
  <2> HIDE DEF new
  <2> QED BY <1>1, <2>1, <2>2, <2>3
<1>2. CASE m \notin ObjId
  <2>1. msg' = msg
      BY <1>2 DEF CreateRun
  <2> QED BY <1>2, <2>1
<1> QED BY <1>1, <1>2

\* Where a step of a request stands.
LEMMA StandsAt ==
    ASSUME WInv, NEW r \in Request
    PROVE  /\ req[r] \in ReqRow /\ Fits(req[r]) /\ req[r].ch \in Channel /\ req[r].ch \in ChanId
           /\ req[r].kind \in CommandKind /\ req[r].res \in Result /\ r \in ObjId /\ r \in ChanId
           /\ ResultId(r) \in Result /\ Receipt(r) \in ReceiptRow
<1>1. req[r] \in ReqRow /\ Fits(req[r])
    BY DEF WInv, RequestsOK
<1> QED BY <1>1, RowFields, Typed, ResultIdIs, ReceiptFound DEF ChanId, ObjId, Receipt

\* A message is replayed, repaired, or not found.
LEMMA ReplayMessageStep ==
    ASSUME WInv, NEW r \in Request, ReplayMessage(r)
    PROVE  /\ StepOf(r) /\ UNCHANGED <<chan, part, cow, csess, task, pin, draft, receipt, lock, mix>>
           /\ req[r].pc \in {"replay", "reload"} /\ req[r].kind = "channel.message"
           /\ \/ /\ Receipt(r) # NoReceipt /\ msg[Receipt(r).res.obj].chan = req[r].ch
                 /\ msg' = CreateRun(Receipt(r).res.obj)
                 /\ Ends(req[r], req'[r], "ok", Receipt(r).res)
              \/ /\ msg' = msg
                 /\ \/ Goes(req[r], req'[r], "plan")
                    \/ Ends(req[r], req'[r], "error", NoResult)
                    \/ /\ Receipt(r).stale /\ Reclaims(req[r], req'[r], Receipt(r).owner)
                       /\ \/ mix.slow
                          \/ Receipt(r) = NoReceipt
                          \/ msg[Receipt(r).res.obj].chan # req[r].ch /\ ~ChannelMismatch(r)
<1>0. /\ req[r] \in ReqRow /\ Fits(req[r]) /\ Receipt(r) \in ReceiptRow
      /\ req[r].pc \in {"replay", "reload"} /\ req[r].kind = "channel.message"
    BY StandsAt DEF ReplayMessage
<1>1. PICK q \in ReqRow, rc \in ReceiptRow : q = req[r] /\ rc = Receipt(r)
    BY <1>0
<1>2. Fits(q) /\ q.pc \in {"replay", "reload"} /\ q.kind = "channel.message" /\ rc.res \in Result
    BY <1>0, <1>1, ReceiptFields
<1>3. RequestsOK /\ ReceiptsOK
    BY Typed
<1>4. UNCHANGED <<chan, part, cow, csess, task, pin, draft, receipt, lock, mix>>
    BY DEF ReplayMessage
<1>5. \/ /\ rc # NoReceipt /\ msg[rc.res.obj].chan = q.ch
         /\ msg' = CreateRun(rc.res.obj) /\ Answer(r, "ok", rc.res)
      \/ /\ msg' = msg
         /\ \/ Goto(r, "plan") /\ q.pc = "replay"
            \/ Refuse(r)
            \/ /\ Replayed(r, FALSE, {})
               /\ \/ mix.slow
                  \/ rc = NoReceipt
                  \/ msg[rc.res.obj].chan # q.ch /\ ~ChannelMismatch(r)
  <2>1. reloadPostedMessage(r)
      BY DEF ReplayMessage
  <2>2. CASE rc # NoReceipt /\ msg[rc.res.obj].chan = q.ch
    <3>1. PICK created \in {TRUE, msg[rc.res.obj].run \/ ~mix.slow} :
            /\ msg' = IF created THEN CreateRun(rc.res.obj) ELSE msg
            /\ IF created THEN Answer(r, "ok", rc.res)
               ELSE IF q.pc = "replay" THEN Goto(r, "plan") ELSE Replayed(r, FALSE, {})
        BY <1>1, <2>1, <2>2 DEF reloadPostedMessage
    <3>2. CASE created
        BY <2>2, <3>1, <3>2
    <3>3. CASE ~created
      <4>1. mix.slow
          BY <3>1, <3>3
      <4> QED BY <3>1, <3>3, <4>1
    <3> QED BY <3>2, <3>3
  <2>3. CASE ~(rc # NoReceipt /\ msg[rc.res.obj].chan = q.ch)
    <3>1. /\ msg' = msg
          /\ IF rc # NoReceipt /\ ChannelMismatch(r) THEN Refuse(r)
             ELSE IF q.pc = "replay" THEN Goto(r, "plan") ELSE Replayed(r, FALSE, {})
        BY <1>1, <2>1, <2>3 DEF reloadPostedMessage
    <3> QED BY <2>3, <3>1
  <2> QED BY <2>2, <2>3
<1>6. CASE /\ rc # NoReceipt /\ msg[rc.res.obj].chan = q.ch
           /\ msg' = CreateRun(rc.res.obj) /\ Answer(r, "ok", rc.res)
  <2>1. Turns(r) /\ Ends(q, req'[r], "ok", rc.res)
      BY <1>1, <1>2, <1>3, <1>6, AnswerRow
  <2>2. Fits(req'[r]) /\ Runs(q, req'[r])
      BY <1>2, <2>1, RowsFit
  <2>3. msg' \in [ObjId -> MsgRow]
      BY <1>6, RunMade, Typed
  <2>4. StepOf(r)
      BY <1>1, <1>4, <2>1, <2>2, <2>3, Typed, WritingStepFits
  <2> QED BY <1>1, <1>2, <1>4, <1>6, <2>1, <2>4
<1>7. CASE msg' = msg /\ Goto(r, "plan") /\ q.pc = "replay"
  <2>1. Turns(r) /\ Goes(q, req'[r], "plan")
      BY <1>1, <1>3, <1>7, GotoRow DEF PC
  <2>2. Fits(req'[r]) /\ Runs(q, req'[r])
      BY <1>2, <1>7, <2>1 DEF Fits, Runs, Goes, SameCommand, Late, OnCoworker, OnObject, Pins
  <2>3. StepOf(r)
      BY <1>1, <1>4, <1>7, <2>1, <2>2, Typed, WritingStepFits
  <2> QED BY <1>1, <1>2, <1>4, <1>7, <2>1, <2>3
<1>8. CASE msg' = msg /\ Refuse(r)
  <2>1. Turns(r) /\ Ends(q, req'[r], "error", NoResult)
      BY <1>1, <1>3, <1>8, RefuseRow
  <2>2. Fits(req'[r]) /\ Runs(q, req'[r])
      BY <1>2, <2>1, RowsFit
  <2>3. StepOf(r)
      BY <1>1, <1>4, <1>8, <2>1, <2>2, Typed, WritingStepFits
  <2> QED BY <1>1, <1>2, <1>4, <1>8, <2>1, <2>3
<1>9. CASE /\ msg' = msg /\ Replayed(r, FALSE, {})
           /\ \/ mix.slow
              \/ rc = NoReceipt
              \/ msg[rc.res.obj].chan # q.ch /\ ~ChannelMismatch(r)
  <2>1. q.kind \notin CachesResult
      BY <1>2 DEF CachesResult
  <2>2. /\ Turns(r)
        /\ \/ Ends(q, req'[r], "error", NoResult)
           \/ rc.stale /\ Reclaims(q, req'[r], rc.owner)
    <3>1. {} \in SUBSET Result /\ FALSE \in BOOLEAN
        OBVIOUS
    <3> QED BY <1>1, <1>3, <1>9, <2>1, <3>1, ReplayedRow
  <2>3. Fits(req'[r]) /\ Runs(q, req'[r])
      BY <1>2, <2>2, RowsFit DEF Late
  <2>4. StepOf(r)
      BY <1>1, <1>4, <1>9, <2>2, <2>3, Typed, WritingStepFits
  <2> QED BY <1>1, <1>2, <1>4, <1>9, <2>2, <2>4
<1> QED BY <1>5, <1>6, <1>7, <1>8, <1>9

\* How a reload ends.
Reloads(r, mismatch, reloaded) ==
    \/ Ends(req[r], req'[r], "error", NoResult)
    \/ /\ ~mismatch /\ Receipt(r) # NoReceipt
       /\ \/ /\ Receipt(r).done /\ req[r].kind \in CachesResult
             /\ Ends(req[r], req'[r], "ok", [Receipt(r).res EXCEPT !.obj = Receipt(r).json])
          \/ /\ ~(Receipt(r).done /\ req[r].kind \in CachesResult)
             /\ \E v \in reloaded : Ends(req[r], req'[r], "ok", v)
          \/ /\ Receipt(r).stale /\ reloaded = {}
             /\ ~(Receipt(r).done /\ req[r].kind \in CachesResult)
             /\ Reclaims(req[r], req'[r], Receipt(r).owner)

\* A replayed receipt ends the request with what was reloaded, or sends it to reclaim.
LEMMA ReloadFits ==
    ASSUME WInv, NEW r \in Request, UNCHANGED <<tables, lock, mix>>,
           req[r].pc = "reload", Receipt(r) # NoReceipt,
           NEW mismatch, NEW reloaded \in SUBSET Result, Replayed(r, mismatch, reloaded)
    PROVE  StepOf(r) /\ Reloads(r, mismatch, reloaded)
<1>1. Turns(r) /\ Reloads(r, mismatch, reloaded)
    BY Typed, ReplayedRow DEF Reloads
<1>2. Fits(req[r]) /\ req[r].kind # "coworker.update" /\ req[r].pc \notin Late
      /\ req[r].pc \notin {"new", "done", "dead"}
    BY StandsAt DEF Fits, Late
<1>3. \/ \E ans \in {"ok", "error"} : \E res : Ends(req[r], req'[r], ans, res)
      \/ \E owner : Reclaims(req[r], req'[r], owner)
    BY <1>1 DEF Reloads
<1>4. Fits(req'[r]) /\ Runs(req[r], req'[r])
    BY <1>2, <1>3, RowsFit
<1> QED BY <1>1, <1>4, ReadingStepFits

\* A refusal that writes nothing.
LEMMA RefusalFits ==
    ASSUME WInv, NEW r \in Request, UNCHANGED <<tables, lock, mix>>,
           req[r].pc \notin {"new", "done", "dead"}, Refuse(r)
    PROVE  StepOf(r) /\ Ends(req[r], req'[r], "error", NoResult)
<1>1. Turns(r) /\ Ends(req[r], req'[r], "error", NoResult)
    BY Typed, RefuseRow
<1>2. Fits(req'[r]) /\ Runs(req[r], req'[r])
    BY <1>1, StandsAt, RowsFit
<1> QED BY <1>1, <1>2, ReadingStepFits

\* What the row of a channel command reloads to.
LEMMA ReloadChannelStep ==
    ASSUME WInv, NEW r \in Request, ReloadChannel(r)
    PROVE  /\ StepOf(r) /\ UNCHANGED <<tables, lock, mix>> /\ req[r].pc = "reload"
           /\ req[r].kind \in {"channel.create", "channel.update", "channel.archive"}
           /\ \/ Ends(req[r], req'[r], "error", NoResult)
              \/ Receipt(r) # NoReceipt /\ Reloads(r, FALSE, ReloadedChannel(r))
<1>1. /\ req[r].pc = "reload" /\ UNCHANGED <<tables, lock, mix>>
      /\ req[r].kind \in {"channel.create", "channel.update", "channel.archive"}
    BY DEF ReloadChannel
<1>2. PICK rc \in ReceiptRow : rc = Receipt(r) /\ rc.res \in Result /\ rc.stale \in BOOLEAN
    BY StandsAt, ReceiptFields
<1>3. CASE rc = NoReceipt
  <2>1. ~NoReceipt.stale
      BY DEF NoReceipt
  <2>2. Refuse(r)
      BY <1>2, <1>3, <2>1 DEF ReloadChannel, Replayed, reloadIdempotentResult, isStaleClaim
  <2> QED BY <1>1, <2>2, RefusalFits
<1>4. CASE rc # NoReceipt
  <2>1. ReloadedChannel(r) \in SUBSET Result
      BY <1>2 DEF ReloadedChannel
  <2>2. Replayed(r, FALSE, ReloadedChannel(r))
      BY <1>2, <1>4 DEF ReloadChannel
  <2> QED BY <1>1, <1>2, <1>4, <2>1, <2>2, ReloadFits
<1> QED BY <1>3, <1>4

\* A replayed pin command reloads the pin its receipt names.
LEMMA ReloadPinStep ==
    ASSUME WInv, NEW r \in Request, ReloadPin(r)
    PROVE  /\ StepOf(r) /\ UNCHANGED <<tables, lock, mix>> /\ req[r].pc = "reload"
           /\ req[r].kind \in Pins
           /\ \/ Ends(req[r], req'[r], "error", NoResult)
              \/ Receipt(r) # NoReceipt /\ Reloads(r, ChannelMismatch(r), ReloadedPin(r))
<1>1. req[r].pc = "reload" /\ UNCHANGED <<tables, lock, mix>> /\ req[r].kind \in Pins
    BY DEF ReloadPin, Pins
<1>2. PICK rc \in ReceiptRow : rc = Receipt(r) /\ rc.res \in Result /\ rc.res.obj \in ObjId \cup {NoRequest}
    BY StandsAt, ReceiptFields
<1>3. CASE rc = NoReceipt
    BY <1>1, <1>2, <1>3, RefusalFits DEF ReloadPin
<1>4. CASE rc # NoReceipt
  <2>1. \A o \in ObjId \cup {NoRequest} : [NoResult EXCEPT !.obj = o] \in Result
      BY DEF NoResult, Result
  <2>2. ReloadedPin(r) \in SUBSET Result
    <3>1. \A p \in findActivePinBySource(req[r].ch, req[r].obj) : p \in ObjId
        BY DEF findActivePinBySource, ObjId
    <3> QED BY <1>2, <2>1, <3>1 DEF ReloadedPin
  <2>3. Replayed(r, ChannelMismatch(r), ReloadedPin(r))
      BY <1>2, <1>4 DEF ReloadPin
  <2> QED BY <1>1, <1>2, <1>4, <2>2, <2>3, ReloadFits
<1> QED BY <1>3, <1>4

\* A replayed membership command reads the membership, or goes to reclaim.
LEMMA ReloadMembershipStep ==
    ASSUME WInv, NEW r \in Request, ReloadMembership(r) \/ ReloadDisable(r)
    PROVE  /\ StepOf(r) /\ UNCHANGED <<tables, lock, mix>> /\ req[r].pc = "reload"
           /\ req'[r].pc \in {"reclaim", "done"}
           /\ req[r].kind \in {"channel.participant.add", "channel.participant.remove", "coworker.disable"}
<1>1. /\ req[r].pc = "reload" /\ UNCHANGED <<tables, lock, mix>>
      /\ req[r].kind \in {"channel.participant.add", "channel.participant.remove", "coworker.disable"}
    BY DEF ReloadMembership, ReloadDisable
<1>2. PICK rc \in ReceiptRow : rc = Receipt(r) /\ rc.res \in Result
    BY StandsAt, ReceiptFields
<1>3. CASE rc = NoReceipt
    BY <1>1, <1>2, <1>3, RefusalFits DEF ReloadMembership, ReloadDisable, Ends
<1>4. CASE rc # NoReceipt
  <2>1. ReloadedMembership(r) \in SUBSET Result /\ {rc.res} \in SUBSET Result
      BY <1>2 DEF ReloadedMembership
  <2>2. \/ Replayed(r, Receipt(r).res # ResultId(r), ReloadedMembership(r))
        \/ Replayed(r, FALSE, {rc.res})
      BY <1>2, <1>4 DEF ReloadMembership, ReloadDisable
  <2>3. StepOf(r) /\ \E mismatch \in BOOLEAN, vs \in SUBSET Result : Reloads(r, mismatch, vs)
      BY <1>1, <1>2, <1>4, <2>1, <2>2, ReloadFits
  <2>4. req'[r].pc \in {"reclaim", "done"}
      BY <2>3 DEF Reloads, Ends, Reclaims
  <2> QED BY <1>1, <2>3, <2>4
<1> QED BY <1>1, <1>3, <1>4

\* A replayed task command reloads the task its receipt names.
LEMMA ReloadTaskStep ==
    ASSUME WInv, NEW r \in Request, ReloadTask(r)
    PROVE  /\ StepOf(r) /\ UNCHANGED <<tables, lock, mix>> /\ req[r].pc = "reload"
           /\ req[r].kind \in {"task.create", "task.update"}
           /\ \/ Ends(req[r], req'[r], "error", NoResult)
              \/ Receipt(r) # NoReceipt
                 /\ Reloads(r, req[r].kind = "task.update" /\ Receipt(r).res.obj # req[r].obj, ReloadedTask(r))
<1>1. /\ req[r].pc = "reload" /\ UNCHANGED <<tables, lock, mix>>
      /\ req[r].kind \in {"task.create", "task.update"}
    BY DEF ReloadTask
<1>2. PICK rc \in ReceiptRow : rc = Receipt(r) /\ rc.res \in Result
    BY StandsAt, ReceiptFields
<1>3. CASE rc = NoReceipt
    BY <1>1, <1>2, <1>3, RefusalFits DEF ReloadTask
<1>4. CASE rc # NoReceipt
  <2>1. ReloadedTask(r) \in SUBSET Result
      BY <1>2 DEF ReloadedTask
  <2>2. Replayed(r, req[r].kind = "task.update" /\ Receipt(r).res.obj # req[r].obj, ReloadedTask(r))
      BY <1>2, <1>4 DEF ReloadTask
  <2> QED BY <1>1, <1>2, <1>4, <2>1, <2>2, ReloadFits
<1> QED BY <1>3, <1>4

\* A replayed draft command reloads the draft its receipt names.
LEMMA ReloadDraftStep ==
    ASSUME WInv, NEW r \in Request, ReloadDraft(r)
    PROVE  /\ StepOf(r) /\ UNCHANGED <<tables, lock, mix>> /\ req[r].pc = "reload"
           /\ req[r].kind \in {"coworker.draft.create", "coworker.draft.revise",
                               "coworker.draft.reject", "coworker.draft.confirm"}
           /\ \/ Ends(req[r], req'[r], "error", NoResult)
              \/ Receipt(r) # NoReceipt /\ Reloads(r, FALSE, ReloadedDraft(r))
<1>1. /\ req[r].pc = "reload" /\ UNCHANGED <<tables, lock, mix>>
      /\ req[r].kind \in {"coworker.draft.create", "coworker.draft.revise",
                          "coworker.draft.reject", "coworker.draft.confirm"}
    BY DEF ReloadDraft
<1>2. PICK rc \in ReceiptRow : rc = Receipt(r) /\ rc.res \in Result
    BY StandsAt, ReceiptFields
<1>3. CASE rc = NoReceipt
    BY <1>1, <1>2, <1>3, RefusalFits DEF ReloadDraft
<1>4. CASE rc # NoReceipt
  <2>1. ReloadedDraft(r) \in SUBSET Result
    <3>1. CASE req[r].kind = "coworker.draft.create"
        BY <1>2, <3>1 DEF ReloadedDraft
    <3>2. CASE req[r].kind = "coworker.draft.revise"
        BY <3>2 DEF ReloadedDraft
    <3>3. CASE req[r].kind \in {"coworker.draft.reject", "coworker.draft.confirm"}
        BY <1>2, <3>3 DEF ReloadedDraft
    <3> QED BY <1>1, <3>1, <3>2, <3>3
  <2>2. Replayed(r, FALSE, ReloadedDraft(r))
      BY <1>2, <1>4 DEF ReloadDraft
  <2> QED BY <1>1, <1>2, <1>4, <2>1, <2>2, ReloadFits
<1> QED BY <1>3, <1>4

\* The row of a request that has succeeded, or failed.
LEMMA SucceedingRow ==
    ASSUME WInv, NEW r \in Request, NEW res \in Result, Succeeded(r, res),
           req[r].pc \notin {"new", "done", "dead"}, req[r].kind # "coworker.update"
    PROVE  Turns(r) /\ Succeeds(req[r], req'[r], res) /\ Fits(req'[r]) /\ Runs(req[r], req'[r])
<1>1. Turns(r) /\ Succeeds(req[r], req'[r], res)
    BY Typed, SucceededRow
<1> QED BY <1>1, StandsAt, RowsFit

\* A command that fails goes to the handler of its error.
LEMMA FailingRow ==
    ASSUME WInv, NEW r \in Request, Goto(r, "fail"), req[r].pc \notin {"new", "done", "dead"},
           req[r].kind \notin {"coworker.update", "channel.create", "coworker.draft.create"}
    PROVE  Turns(r) /\ Goes(req[r], req'[r], "fail") /\ Fits(req'[r]) /\ Runs(req[r], req'[r])
<1>1. Turns(r) /\ Goes(req[r], req'[r], "fail")
    BY Typed, GotoRow DEF PC
<1> QED BY <1>1, StandsAt, RowsFit

\* A request that is refused on its way fits.
LEMMA RefusedRow ==
    ASSUME WInv, NEW r \in Request, Refuse(r), req[r].pc \notin {"new", "done", "dead"}
    PROVE  Turns(r) /\ Ends(req[r], req'[r], "error", NoResult) /\ Fits(req'[r]) /\ Runs(req[r], req'[r])
<1>1. Turns(r) /\ Ends(req[r], req'[r], "error", NoResult)
    BY Typed, RefuseRow
<1> QED BY <1>1, StandsAt, RowsFit

\* A command that takes its place in the code writes its rows.
LEMMA RunCreateChannelStep ==
    ASSUME WInv, NEW r \in Request, RunCreateChannel(r)
    PROVE  /\ StepOf(r) /\ UNCHANGED <<part, cow, csess, msg, task, pin, draft, receipt, lock, mix>>
           /\ req[r].pc = "run" /\ req[r].kind = "channel.create"
           /\ Succeeds(req[r], req'[r], ResultId(r)) /\ StatusSet(r, "active")
<1>1. /\ req[r].pc = "run" /\ req[r].kind = "channel.create" /\ Succeeded(r, ResultId(r))
      /\ UNCHANGED <<part, cow, csess, msg, task, pin, draft, receipt, lock, mix>>
    BY DEF RunCreateChannel
<1>2. Turns(r) /\ Succeeds(req[r], req'[r], ResultId(r)) /\ Fits(req'[r]) /\ Runs(req[r], req'[r])
    BY <1>1, StandsAt, SucceedingRow
<1>3. chan' \in [ChanId -> ChanRow] /\ StatusSet(r, "active")
    BY Typed DEF RunCreateChannel, insertChannelWithOwner, ChanRow, ChanId, StatusSet
<1>4. StepOf(r)
    BY <1>1, <1>2, <1>3, Typed, WritingStepFits
<1> QED BY <1>1, <1>2, <1>3, <1>4

\* A channel is updated only while it is active.
LEMMA RunUpdateChannelStep ==
    ASSUME WInv, NEW r \in Request, RunUpdateChannel(r)
    PROVE  /\ StepOf(r) /\ UNCHANGED <<part, cow, csess, msg, task, pin, draft, receipt, lock, mix>>
           /\ req[r].pc = "run" /\ req[r].kind = "channel.update" /\ StatusesKept
           /\ Succeeds(req[r], req'[r], ResultId(r)) \/ Goes(req[r], req'[r], "fail")
<1>1. /\ req[r].pc = "run" /\ req[r].kind = "channel.update"
      /\ UNCHANGED <<part, cow, csess, msg, task, pin, draft, receipt, lock, mix>>
    BY DEF RunUpdateChannel
<1>2. CASE chan[req[r].ch].status = "active"
  <2>1. chan' = appendChannelEvent(req[r].ch, chan[req[r].ch].status) /\ Succeeded(r, ResultId(r))
      BY <1>2 DEF RunUpdateChannel
  <2>2. Turns(r) /\ Succeeds(req[r], req'[r], ResultId(r)) /\ Fits(req'[r]) /\ Runs(req[r], req'[r])
      BY <1>1, <2>1, StandsAt, SucceedingRow
  <2>3. chan' \in [ChanId -> ChanRow] /\ StatusesKept
      BY <2>1, Typed, StandsAt, EventKeepsStatuses
  <2>4. StepOf(r)
      BY <1>1, <2>2, <2>3, Typed, WritingStepFits
  <2> QED BY <1>1, <2>2, <2>3, <2>4
<1>3. CASE chan[req[r].ch].status # "active"
  <2>1. chan' = chan /\ Goto(r, "fail")
      BY <1>3 DEF RunUpdateChannel
  <2>2. Turns(r) /\ Goes(req[r], req'[r], "fail") /\ Fits(req'[r]) /\ Runs(req[r], req'[r])
      BY <1>1, <2>1, FailingRow
  <2>3. StepOf(r)
      BY <1>1, <2>1, <2>2, Typed, WritingStepFits
  <2> QED BY <1>1, <2>1, <2>2, <2>3 DEF StatusesKept
<1> QED BY <1>2, <1>3

\* An active channel is archived; an archived one answers the same.
LEMMA RunArchiveChannelStep ==
    ASSUME WInv, NEW r \in Request, RunArchiveChannel(r)
    PROVE  /\ StepOf(r) /\ UNCHANGED <<part, cow, csess, msg, task, pin, draft, receipt, lock, mix>>
           /\ req[r].pc = "run" /\ req[r].kind = "channel.archive"
           /\ Succeeds(req[r], req'[r], ResultId(r))
           /\ \/ chan[req[r].ch].status = "active" /\ StatusSet(req[r].ch, "archived")
              \/ StatusesKept
<1>1. /\ req[r].pc = "run" /\ req[r].kind = "channel.archive" /\ Succeeded(r, ResultId(r))
      /\ UNCHANGED <<part, cow, csess, msg, task, pin, draft, receipt, lock, mix>>
    BY DEF RunArchiveChannel
<1>2. Turns(r) /\ Succeeds(req[r], req'[r], ResultId(r)) /\ Fits(req'[r]) /\ Runs(req[r], req'[r])
    BY <1>1, StandsAt, SucceedingRow
<1>3. /\ chan' \in [ChanId -> ChanRow]
      /\ \/ chan[req[r].ch].status = "active" /\ StatusSet(req[r].ch, "archived")
         \/ StatusesKept
  <2>1. CASE chan' = chan
      BY <2>1, Typed DEF StatusesKept
  <2>2. CASE chan' = appendChannelEvent(req[r].ch, "archived") /\ chan[req[r].ch].status = "active"
      BY <2>2, Typed, StandsAt, EventAppended
  <2> QED BY <2>1, <2>2 DEF RunArchiveChannel
<1>4. StepOf(r)
    BY <1>1, <1>2, <1>3, Typed, WritingStepFits
<1> QED BY <1>1, <1>2, <1>3, <1>4

\* Planning a message reads the coworker and writes nothing.
LEMMA PlanMessageStep ==
    ASSUME WInv, NEW r \in Request, PlanMessage(r)
    PROVE  /\ StepOf(r) /\ UNCHANGED <<tables, lock, mix>> /\ req[r].pc = "plan"
           /\ req[r].kind = "channel.message"
           /\ Goes(req[r], req'[r], "claim") \/ Ends(req[r], req'[r], "error", NoResult)
<1>1. /\ req[r].pc = "plan" /\ req[r].kind = "channel.message" /\ UNCHANGED <<tables, lock, mix>>
      /\ Goto(r, "claim") \/ Refuse(r)
    BY DEF PlanMessage
<1>2. CASE Goto(r, "claim")
    BY <1>1, <1>2, StandsAt, GoesFits DEF Late, PC
<1>3. CASE Refuse(r)
    BY <1>1, <1>3, RefusalFits
<1> QED BY <1>1, <1>2, <1>3

\* A message is stored in its open channel.
StoresMessage(r) ==
    /\ msg' = [msg EXCEPT ![r].chan = req[r].ch] /\ chan[req[r].ch].status = "active"
    /\ Goes(req[r], req'[r], "fanout")

\* A message is stored in an active channel, or its command fails.
LEMMA AppendMessageStep ==
    ASSUME WInv, NEW r \in Request, appendMessage(r)
    PROVE  /\ StepOf(r) /\ UNCHANGED <<part, cow, csess, task, pin, draft, receipt, lock, mix>>
           /\ req[r].pc = "run" /\ req[r].kind = "channel.message" /\ StatusesKept
           /\ \/ StoresMessage(r)
              \/ msg' = msg /\ Goes(req[r], req'[r], "fail")
<1>1. /\ req[r].pc = "run" /\ req[r].kind = "channel.message"
      /\ UNCHANGED <<part, cow, csess, task, pin, draft, receipt, lock, mix>>
    BY DEF appendMessage
<1>2. CASE chan[req[r].ch].status = "active"
  <2>1. /\ chan' = appendChannelEvent(req[r].ch, chan[req[r].ch].status) /\ Goto(r, "fanout")
        /\ msg' = [msg EXCEPT ![r].chan = req[r].ch]
      BY <1>2 DEF appendMessage
  <2>2. Turns(r) /\ Goes(req[r], req'[r], "fanout")
      BY <2>1, Typed, GotoRow DEF PC
  <2>3. Fits(req'[r]) /\ Runs(req[r], req'[r])
      BY <1>1, <2>2, StandsAt DEF Fits, Runs, Goes, SameCommand, Late, OnCoworker, OnObject, Pins
  <2>4. chan' \in [ChanId -> ChanRow] /\ StatusesKept
      BY <2>1, Typed, StandsAt, EventKeepsStatuses
  <2>5. msg' \in [ObjId -> MsgRow]
    <3>1. PICK row \in MsgRow, c \in Channel : row = msg[r] /\ c = req[r].ch
        BY Typed, StandsAt
    <3>2. [row EXCEPT !.chan = c] \in MsgRow
        BY DEF MsgRow
    <3>3. msg' = [msg EXCEPT ![r] = [row EXCEPT !.chan = c]]
        BY <2>1, <3>1
    <3> QED BY <3>2, <3>3, Typed
  <2>6. StepOf(r)
      BY <1>1, <2>2, <2>3, <2>4, <2>5, Typed, WritingStepFits
  <2>7. StoresMessage(r)
      BY <1>2, <2>1, <2>2 DEF StoresMessage
  <2> QED BY <1>1, <2>4, <2>6, <2>7
<1>3. CASE chan[req[r].ch].status # "active"
  <2>1. chan' = chan /\ msg' = msg /\ Goto(r, "fail")
      BY <1>3 DEF appendMessage
  <2>2. Turns(r) /\ Goes(req[r], req'[r], "fail") /\ Fits(req'[r]) /\ Runs(req[r], req'[r])
      BY <1>1, <2>1, FailingRow
  <2>3. StepOf(r)
      BY <1>1, <2>1, <2>2, Typed, WritingStepFits
  <2> QED BY <1>1, <2>1, <2>2, <2>3 DEF StatusesKept
<1> QED BY <1>2, <1>3

\* The run of a stored message is made before the receipt is completed.
LEMMA EnsureRunStep ==
    ASSUME WInv, NEW r \in Request, ensureRunForMessage(r)
    PROVE  /\ StepOf(r) /\ UNCHANGED <<chan, part, cow, csess, task, pin, draft, receipt, lock, mix>>
           /\ req[r].pc = "fanout" /\ req[r].kind = "channel.message"
           /\ \/ msg' = CreateRun(r) /\ Succeeds(req[r], req'[r], ResultId(r))
              \/ msg' = msg /\ Goes(req[r], req'[r], "fail")
<1>1. /\ req[r].pc = "fanout" /\ req[r].kind = "channel.message"
      /\ UNCHANGED <<chan, part, cow, csess, task, pin, draft, receipt, lock, mix>>
      /\ \/ msg' = CreateRun(r) /\ Succeeded(r, ResultId(r))
         \/ msg' = msg /\ Goto(r, "fail")
    BY DEF ensureRunForMessage
<1>2. \/ /\ msg' = CreateRun(r) /\ Turns(r) /\ Succeeds(req[r], req'[r], ResultId(r))
         /\ Fits(req'[r]) /\ Runs(req[r], req'[r])
      \/ /\ msg' = msg /\ Turns(r) /\ Goes(req[r], req'[r], "fail")
         /\ Fits(req'[r]) /\ Runs(req[r], req'[r])
    BY <1>1, StandsAt, SucceedingRow, FailingRow
<1>3. msg' \in [ObjId -> MsgRow]
    BY <1>2, RunMade, Typed
<1>4. StepOf(r)
    BY <1>1, <1>2, <1>3, Typed, WritingStepFits
<1> QED BY <1>1, <1>2, <1>4

\* A pin is made for a message that has none, or removed.
PinsMessage(r) ==
    /\ chan[req[r].ch].status = "active" /\ findActivePinBySource(req[r].ch, req[r].obj) = {}
    /\ pin' = [pin EXCEPT ![r] = [state |-> "active", chan |-> req[r].ch, src |-> req[r].obj]]
    /\ Succeeds(req[r], req'[r], [NoResult EXCEPT !.obj = r])

\* A pin is made in an active channel that has none of that message, or the command fails.
LEMMA RunCreatePinStep ==
    ASSUME WInv, NEW r \in Request, RunCreatePin(r)
    PROVE  /\ StepOf(r) /\ UNCHANGED <<part, cow, csess, msg, task, draft, receipt, lock, mix>>
           /\ req[r].pc = "run" /\ req[r].kind = "channel.pin.create" /\ StatusesKept
           /\ \/ PinsMessage(r)
              \/ pin' = pin /\ Goes(req[r], req'[r], "fail")
<1>1. /\ req[r].pc = "run" /\ req[r].kind = "channel.pin.create"
      /\ UNCHANGED <<part, cow, csess, msg, task, draft, receipt, lock, mix>>
      /\ \/ /\ chan[req[r].ch].status = "active" /\ findActivePinBySource(req[r].ch, req[r].obj) = {}
            /\ createPinWithEvent(r, req[r].ch, req[r].obj) /\ Succeeded(r, [NoResult EXCEPT !.obj = r])
         \/ Goto(r, "fail") /\ pin' = pin /\ chan' = chan
    BY DEF RunCreatePin
<1>2. CASE /\ chan[req[r].ch].status = "active" /\ findActivePinBySource(req[r].ch, req[r].obj) = {}
           /\ createPinWithEvent(r, req[r].ch, req[r].obj) /\ Succeeded(r, [NoResult EXCEPT !.obj = r])
  <2>1. [NoResult EXCEPT !.obj = r] \in Result
      BY StandsAt DEF NoResult, Result
  <2>2. /\ Turns(r) /\ Succeeds(req[r], req'[r], [NoResult EXCEPT !.obj = r])
        /\ Fits(req'[r]) /\ Runs(req[r], req'[r])
      BY <1>1, <1>2, <2>1, SucceedingRow
  <2>3. chan' \in [ChanId -> ChanRow] /\ StatusesKept
      BY <1>2, Typed, StandsAt, EventKeepsStatuses DEF createPinWithEvent
  <2>4. pin' \in [Request -> PinRow]
    <3>1. req[r].ch \in Channel /\ req[r].obj \in ObjId
        BY <1>1, StandsAt DEF Fits, OnObject
    <3>2. [state |-> "active", chan |-> req[r].ch, src |-> req[r].obj] \in PinRow
        BY <3>1 DEF PinRow
    <3> QED BY <1>2, <3>2, Typed DEF createPinWithEvent
  <2>5. StepOf(r)
      BY <1>1, <2>2, <2>3, <2>4, Typed, WritingStepFits
  <2>6. PinsMessage(r)
      BY <1>2, <2>2 DEF PinsMessage, createPinWithEvent
  <2> QED BY <1>1, <2>3, <2>5, <2>6
<1>3. CASE Goto(r, "fail") /\ pin' = pin /\ chan' = chan
  <2>1. Turns(r) /\ Goes(req[r], req'[r], "fail") /\ Fits(req'[r]) /\ Runs(req[r], req'[r])
      BY <1>1, <1>3, FailingRow
  <2>2. StepOf(r)
      BY <1>1, <1>3, <2>1, Typed, WritingStepFits
  <2> QED BY <1>1, <1>3, <2>1, <2>2 DEF StatusesKept
<1> QED BY <1>1, <1>2, <1>3

RemovesPin(r) ==
    /\ chan[req[r].ch].status = "active" /\ pin[req[r].obj].state = "active"
    /\ pin' = [pin EXCEPT ![req[r].obj].state = "removed"]
    /\ Succeeds(req[r], req'[r], ResultId(r))

\* An active pin is removed from an active channel, or the command fails.
LEMMA RunRemovePinStep ==
    ASSUME WInv, NEW r \in Request, RunRemovePin(r)
    PROVE  /\ StepOf(r) /\ UNCHANGED <<part, cow, csess, msg, task, draft, receipt, lock, mix>>
           /\ req[r].pc = "run" /\ req[r].kind = "channel.pin.remove" /\ StatusesKept
           /\ \/ RemovesPin(r)
              \/ pin' = pin /\ Goes(req[r], req'[r], "fail")
<1>1. /\ req[r].pc = "run" /\ req[r].kind = "channel.pin.remove"
      /\ UNCHANGED <<part, cow, csess, msg, task, draft, receipt, lock, mix>>
      /\ \/ /\ chan[req[r].ch].status = "active" /\ pin[req[r].obj].state = "active"
            /\ removePinWithEvent(req[r].obj) /\ Succeeded(r, ResultId(r))
         \/ Goto(r, "fail") /\ pin' = pin /\ chan' = chan
    BY DEF RunRemovePin
<1>2. CASE /\ chan[req[r].ch].status = "active" /\ pin[req[r].obj].state = "active"
           /\ removePinWithEvent(req[r].obj) /\ Succeeded(r, ResultId(r))
  <2>1. /\ Turns(r) /\ Succeeds(req[r], req'[r], ResultId(r))
        /\ Fits(req'[r]) /\ Runs(req[r], req'[r])
      BY <1>1, <1>2, StandsAt, SucceedingRow
  <2>2. PICK p \in Request, row \in PinRow : p = req[r].obj /\ row = pin[p]
      BY <1>1, StandsAt, Typed DEF Fits
  <2>3. chan' \in [ChanId -> ChanRow] /\ StatusesKept
    <3>1. PICK c \in ChanId : c = row.chan
        BY DEF PinRow, ChanId
    <3>2. chan' = appendChannelEvent(c, chan[c].status)
        BY <1>2, <2>2, <3>1 DEF removePinWithEvent
    <3> QED BY <3>2, Typed, EventKeepsStatuses
  <2>4. pin' \in [Request -> PinRow]
    <3>1. [row EXCEPT !.state = "removed"] \in PinRow
        BY DEF PinRow
    <3>2. pin' = [pin EXCEPT ![p] = [row EXCEPT !.state = "removed"]]
        BY <1>2, <2>2 DEF removePinWithEvent
    <3> QED BY <3>1, <3>2, Typed
  <2>5. StepOf(r)
      BY <1>1, <2>1, <2>3, <2>4, Typed, WritingStepFits
  <2>6. RemovesPin(r)
      BY <1>2, <2>1 DEF RemovesPin, removePinWithEvent
  <2> QED BY <1>1, <2>3, <2>5, <2>6
<1>3. CASE Goto(r, "fail") /\ pin' = pin /\ chan' = chan
  <2>1. Turns(r) /\ Goes(req[r], req'[r], "fail") /\ Fits(req'[r]) /\ Runs(req[r], req'[r])
      BY <1>1, <1>3, FailingRow
  <2>2. StepOf(r)
      BY <1>1, <1>3, <2>1, Typed, WritingStepFits
  <2> QED BY <1>1, <1>3, <2>1, <2>2 DEF StatusesKept
<1> QED BY <1>1, <1>2, <1>3

-----------------------------------------------------------------------------
(***************************************************************************)
(* Memberships and provisioning.                                           *)
(***************************************************************************)

\* A replay of a removal or of a disabling.
LEMMA ReplayMembershipStep ==
    ASSUME WInv, NEW r \in Request, ReplayRemoval(r) \/ ReplayDisable(r)
    PROVE  /\ StepOf(r) /\ UNCHANGED <<tables, lock, mix>> /\ req[r].pc = "replay"
           /\ req'[r].pc \in {"claim", "done"}
           /\ req[r].kind \in {"channel.participant.remove", "coworker.disable"}
<1>1. /\ req[r].pc = "replay" /\ UNCHANGED <<tables, lock, mix>>
      /\ req[r].kind \in {"channel.participant.remove", "coworker.disable"}
    BY DEF ReplayRemoval, ReplayDisable
<1>2. PICK res \in Result, own \in Result : res = Receipt(r).res /\ own = ResultId(r)
    BY StandsAt, ReceiptFields
<1>3. Refuse(r) \/ Answer(r, "ok", own) \/ Answer(r, "ok", res) \/ Goto(r, "claim")
  <2>1. CASE ReplayRemoval(r)
      BY <1>2, <2>1 DEF ReplayRemoval
  <2>2. CASE ReplayDisable(r)
      BY <1>2, <2>2 DEF ReplayDisable
  <2> QED BY <2>1, <2>2
<1>4. CASE Goto(r, "claim")
    BY <1>1, <1>4, StandsAt, GoesFits DEF Late, PC, Goes
<1>5. CASE Refuse(r)
    BY <1>1, <1>5, RefusalFits DEF Ends
<1>6. ASSUME NEW v \in Result, Answer(r, "ok", v) PROVE StepOf(r) /\ req'[r].pc = "done"
  <2>1. Turns(r) /\ Ends(req[r], req'[r], "ok", v)
      BY <1>6, Typed, AnswerRow
  <2>2. Fits(req'[r]) /\ Runs(req[r], req'[r])
      BY <1>1, <2>1, StandsAt, RowsFit
  <2> QED BY <1>1, <2>1, <2>2, ReadingStepFits DEF Ends
<1> QED BY <1>1, <1>3, <1>4, <1>5, <1>6

\* Provider sessions are neither made nor forgotten, and the window stays as it is.
SessionsKept ==
    \A c \in Channel, w \in Coworker :
        csess'[c][w].made = csess[c][w].made /\ csess'[c][w].closed = csess[c][w].closed

\* A row of a session is written.
LEMMA SessionWritten ==
    ASSUME csess \in [Channel -> [Coworker -> SessRow]], NEW c \in Channel, NEW w \in Coworker,
           NEW row \in SessRow, csess' = [csess EXCEPT ![c][w] = row]
    PROVE  /\ csess' \in [Channel -> [Coworker -> SessRow]] /\ csess'[c][w] = row
           /\ \A d \in Channel, v \in Coworker : d # c \/ v # w => csess'[d][v] = csess[d][v]
OBVIOUS

StateSet(c, w, state) == [csess EXCEPT ![c][w].state = state]

\* The state of a session's row is written.
LEMMA StateWritten ==
    ASSUME csess \in [Channel -> [Coworker -> SessRow]], NEW c \in Channel, NEW w \in Coworker,
           NEW state \in {"none", "marker", "ready"}, csess' = StateSet(c, w, state)
    PROVE  csess' \in [Channel -> [Coworker -> SessRow]] /\ SessionsKept
<1>1. PICK row \in SessRow : row = csess[c][w]
    OBVIOUS
<1> DEFINE new == [row EXCEPT !.state = state]
<1>2. new \in SessRow /\ new.made = row.made /\ new.closed = row.closed
    BY DEF SessRow
<1>3. csess' = [csess EXCEPT ![c][w] = new]
    BY <1>1 DEF StateSet
<1> HIDE DEF new
<1>4. /\ csess' \in [Channel -> [Coworker -> SessRow]] /\ csess'[c][w] = new
      /\ \A d \in Channel, v \in Coworker : d # c \/ v # w => csess'[d][v] = csess[d][v]
    BY <1>2, <1>3, SessionWritten
<1> QED BY <1>1, <1>2, <1>4 DEF SessionsKept

\* A request that moves on in a command that provisions.
Provisions(q, p) == SameCommand(q, p) /\ p.ans = q.ans /\ p.res = q.res

\* A request that waits for the lock of a coworker takes it, and goes on to provision.
LEMMA LockStep ==
    ASSUME WInv, NEW r \in Request, withLocalProvisioningLock(r)
    PROVE  /\ StepOf(r) /\ UNCHANGED <<chan, part, cow, msg, task, pin, draft, receipt, mix>>
           /\ SessionsKept /\ req[r].pc = "run" /\ req'[r].pc = "provision"
           /\ Provisions(req[r], req'[r]) /\ req'[r].left = req[r].left
           /\ req[r].kind = "coworker.draft.confirm" => req[r].left # {}
<1>1. /\ NeedsSession(r) /\ lock' = [lock EXCEPT ![req[r].w] = r]
      /\ UNCHANGED <<chan, part, cow, msg, task, pin, draft, receipt, mix>>
    BY DEF withLocalProvisioningLock
<1>2. PICK q \in ReqRow : q = req[r] /\ Fits(q)
    BY StandsAt
<1>3. /\ q.pc = "run" /\ q.kind \in {"channel.participant.add", "coworker.draft.confirm"}
      /\ q.w \in Coworker /\ q.ch \in Channel /\ q.left \subseteq Channel
      /\ q.kind = "coworker.draft.confirm" => q.left # {}
    BY <1>1, <1>2, RowFields DEF NeedsSession, Fits, OnCoworker
<1>4. PICK c \in Channel :
         /\ csess' = [csess EXCEPT ![c][q.w].state = IF @ = "none" THEN "marker" ELSE @]
         /\ req' = [req EXCEPT ![r].pc = "provision", ![r].ch = c]
  <2>1. ProvisionTarget(r) \subseteq Channel
      BY <1>2, <1>3 DEF ProvisionTarget
  <2> QED BY <1>2, <2>1 DEF withLocalProvisioningLock
<1> DEFINE p == [q EXCEPT !.pc = "provision", !.ch = c]
<1>5. /\ p \in ReqRow /\ p.pc = "provision" /\ Provisions(q, p) /\ p.left = q.left
    BY ZenonT(60) DEF ReqRow, PC, Provisions, SameCommand
<1>6. req' = [req EXCEPT ![r] = p]
    BY <1>2, <1>4
<1> HIDE DEF p
<1>7. Turns(r) /\ req'[r] = p
    BY <1>5, <1>6, Typed, Replaces
<1>8. Fits(p) /\ Runs(q, p)
    BY <1>2, <1>3, <1>5 DEF Fits, Runs, Provisions, SameCommand, Late
<1>9. csess' \in [Channel -> [Coworker -> SessRow]] /\ SessionsKept
  <2>1. PICK state \in {"none", "marker", "ready"} :
            state = IF csess[c][q.w].state = "none" THEN "marker" ELSE csess[c][q.w].state
    <3>1. csess[c][q.w] \in SessRow
        BY <1>3, Typed
    <3> QED BY <3>1 DEF SessRow
  <2>2. csess' = StateSet(c, q.w, state)
      BY <1>4, <2>1 DEF StateSet
  <2> QED BY <1>3, <2>2, Typed, StateWritten
<1>10. lock' \in [Coworker -> Request \cup {NoRequest}]
    BY <1>1, Typed
<1>11. StepOf(r)
    BY <1>1, <1>2, <1>7, <1>8, <1>9, <1>10, Typed, WritingStepFits
<1> QED BY <1>1, <1>2, <1>3, <1>5, <1>7, <1>9, <1>11

\* A provider session is created for a pair for which none of its spec was found.
CreatesSession(r) ==
    LET q   == req[r]
        new == [by |-> r, spec |-> q.seen.cow.spec, late |-> csess[q.ch][q.w].closed]
    IN  /\ reconcileProviderSession(q.ch, q.w, q.seen.cow.spec) = {}
        /\ q.ch \in Channel /\ q.w \in Coworker
        /\ csess'[q.ch][q.w].made = csess[q.ch][q.w].made \cup {new}
        /\ csess'[q.ch][q.w].closed = csess[q.ch][q.w].closed
        /\ \A d \in Channel, v \in Coworker : d # q.ch \/ v # q.w => csess'[d][v] = csess[d][v]

\* A lock is given back by the request that ends.
LEMMA Unlocked ==
    ASSUME lock \in [Coworker -> Request \cup {NoRequest}], NEW w, Unlock(w)
    PROVE  lock' \in [Coworker -> Request \cup {NoRequest}]
BY DEF Unlock

\* A provider session is made for a coworker in a channel, or its creation fails.
LEMMA ProvisionStep ==
    ASSUME WInv, NEW r \in Request, provisionChannelCoworkerSession(r)
    PROVE  /\ StepOf(r) /\ UNCHANGED <<chan, part, cow, msg, task, pin, draft, receipt, mix>>
           /\ req[r].pc = "provision" /\ \E pc \in {"persist", "fail"} : Goes(req[r], req'[r], pc)
           /\ csess' = csess \/ CreatesSession(r)
<1>1. /\ req[r].pc = "provision" /\ UNCHANGED <<chan, part, cow, msg, task, pin, draft, receipt, mix>>
    BY DEF provisionChannelCoworkerSession
<1>2. PICK q \in ReqRow : q = req[r] /\ Fits(q)
    BY StandsAt
<1>3. /\ q.pc = "provision" /\ q.kind \in {"channel.participant.add", "coworker.draft.confirm"}
      /\ q.w \in Coworker /\ q.ch \in Channel /\ q.seen.cow \in CowRow
    BY <1>1, <1>2, RowFields DEF Fits, OnCoworker
<1>4. PICK spec \in Nat : spec = q.seen.cow.spec
    BY <1>3 DEF CowRow
<1>5. PICK row \in SessRow : row = csess[q.ch][q.w]
    BY <1>3, Typed
<1> DEFINE new == [by |-> r, spec |-> spec, late |-> row.closed]
<1>6. PICK pc \in {"persist", "fail"} :
         /\ Goto(r, pc) /\ (lock' = lock \/ Unlock(q.w))
         /\ \/ csess' = csess
            \/ /\ reconcileProviderSession(q.ch, q.w, spec) = {}
               /\ csess' = [csess EXCEPT ![q.ch][q.w].made = @ \cup {new}]
  <2>1. \/ Goto(r, "persist") /\ lock' = lock /\ csess' = csess
        \/ Goto(r, "fail") /\ Unlock(q.w) /\ csess' = csess
        \/ /\ reconcileProviderSession(q.ch, q.w, spec) = {}
           /\ csess' = [csess EXCEPT ![q.ch][q.w].made = @ \cup {new}]
           /\ \/ Goto(r, "persist") /\ lock' = lock
              \/ Goto(r, "fail") /\ Unlock(q.w)
      BY <1>2, <1>4, <1>5 DEF provisionChannelCoworkerSession
  <2> QED BY <2>1
<1>7. Turns(r) /\ Goes(q, req'[r], pc)
    BY <1>2, <1>6, Typed, GotoRow DEF PC
<1>8. Fits(req'[r]) /\ Runs(q, req'[r])
    BY <1>2, <1>3, <1>7 DEF Fits, Runs, Goes, SameCommand, Late
<1>9. lock' \in [Coworker -> Request \cup {NoRequest}]
    BY <1>6, Typed, Unlocked
<1>10. csess' \in [Channel -> [Coworker -> SessRow]] /\ (csess' = csess \/ CreatesSession(r))
  <2>1. CASE csess' = csess
      BY <2>1, Typed
  <2>2. CASE /\ reconcileProviderSession(q.ch, q.w, spec) = {}
             /\ csess' = [csess EXCEPT ![q.ch][q.w].made = @ \cup {new}]
    <3> DEFINE made == row.made \cup {new}
               next == [row EXCEPT !.made = made]
    <3>1. next \in SessRow /\ next.made = made /\ next.closed = row.closed
        BY DEF SessRow
    <3>2. csess' = [csess EXCEPT ![q.ch][q.w] = next]
        BY <1>5, <2>2
    <3> HIDE DEF next
    <3>3. /\ csess' \in [Channel -> [Coworker -> SessRow]] /\ csess'[q.ch][q.w] = next
          /\ \A d \in Channel, v \in Coworker : d # q.ch \/ v # q.w => csess'[d][v] = csess[d][v]
        BY <1>3, <3>1, <3>2, Typed, SessionWritten
    <3>4. CreatesSession(r)
        BY ZenonT(60), <1>2, <1>3, <1>4, <1>5, <2>2, <3>1, <3>3 DEF CreatesSession
    <3> QED BY <3>3, <3>4
  <2> QED BY <1>6, <2>1, <2>2
<1>11. StepOf(r)
    BY <1>1, <1>2, <1>7, <1>8, <1>9, <1>10, Typed, WritingStepFits
<1> QED BY <1>1, <1>2, <1>7, <1>10, <1>11

\* The session is there: the command goes on to its next channel, or to its end.
LEMMA ProvisionedStep ==
    ASSUME WInv, NEW r \in Request, AlreadyProvisioned(r) \/ persistProvisionedSession(r)
    PROVE  /\ StepOf(r) /\ UNCHANGED <<chan, part, cow, msg, task, pin, draft, receipt, mix>>
           /\ SessionsKept /\ req[r].pc \in {"provision", "persist"}
           /\ req'[r].pc \in {"write", "finish", "run"} /\ Provisions(req[r], req'[r])
           /\ req'[r].pc = "write" => req[r].kind = "channel.participant.add"
<1>1. /\ req[r].pc \in {"provision", "persist"} /\ AfterProvision(r, req[r].ch) /\ Unlock(req[r].w)
      /\ UNCHANGED <<chan, part, cow, msg, task, pin, draft, receipt, mix>>
      /\ csess' = csess \/ csess' = [csess EXCEPT ![req[r].ch][req[r].w].state = "ready"]
    BY DEF AlreadyProvisioned, persistProvisionedSession, tables
<1>2. PICK q \in ReqRow : q = req[r] /\ Fits(q)
    BY StandsAt
<1>3. /\ q.pc \in {"provision", "persist"} /\ q.kind \in {"channel.participant.add", "coworker.draft.confirm"}
      /\ q.w \in Coworker /\ q.ch \in Channel /\ q.left \subseteq Channel
    BY <1>1, <1>2, RowFields DEF Fits, OnCoworker
<1>4. PICK pc \in {"write", "finish", "run"}, left \in SUBSET Channel :
         /\ pc = IF q.kind = "channel.participant.add" THEN "write"
                 ELSE IF q.left = {q.ch} THEN "finish" ELSE "run"
         /\ left = q.left \ {q.ch}
    BY <1>3
<1> DEFINE p == [q EXCEPT !.left = left, !.pc = pc]
<1>5. p \in ReqRow /\ p.pc = pc /\ Provisions(q, p) /\ p.left = left /\ p.ch = q.ch
  <2>1. pc \in PC
      BY DEF PC
  <2>2. p \in ReqRow
      BY <2>1 DEF ReqRow
  <2> QED BY <2>2 DEF ReqRow, Provisions, SameCommand
<1>6. req' = [req EXCEPT ![r] = p]
    BY <1>1, <1>2, <1>4 DEF AfterProvision
<1> HIDE DEF p
<1>7. Turns(r) /\ req'[r] = p
    BY <1>5, <1>6, Typed, Replaces
<1>8. left # {} => q.kind = "coworker.draft.confirm"
    BY <1>2, <1>4 DEF Fits
<1>9. Fits(p) /\ Runs(q, p)
    BY <1>2, <1>3, <1>4, <1>5, <1>8 DEF Fits, Runs, Provisions, SameCommand, Late
<1>10. csess' \in [Channel -> [Coworker -> SessRow]] /\ SessionsKept
  <2>1. CASE csess' = csess
      BY <2>1, Typed DEF SessionsKept
  <2>2. CASE csess' = StateSet(q.ch, q.w, "ready")
      BY <1>3, <2>2, Typed, StateWritten
  <2> QED BY <1>1, <1>2, <2>1, <2>2 DEF StateSet
<1>11. StepOf(r)
    BY <1>1, <1>2, <1>7, <1>9, <1>10, Typed, Unlocked, WritingStepFits
<1> QED BY <1>1, <1>2, <1>4, <1>5, <1>7, <1>10, <1>11

\* The reconciliation window of a session closes; no other session is touched.
LEMMA WindowStep ==
    ASSUME WInv, NEW c \in Channel, NEW w \in Coworker, ReconcileWindowCloses(c, w)
    PROVE  /\ WInv' /\ UNCHANGED <<chan, part, cow, msg, task, pin, draft, receipt, req, lock, mix>>
           /\ csess'[c][w].made = csess[c][w].made /\ csess'[c][w].closed
           /\ \A d \in Channel, v \in Coworker : d # c \/ v # w => csess'[d][v] = csess[d][v]
<1>1. PICK row \in SessRow : row = csess[c][w]
    BY Typed
<1> DEFINE new == [row EXCEPT !.closed = TRUE]
<1>2. new \in SessRow /\ new.made = row.made /\ new.closed
    BY DEF SessRow
<1>3. csess' = [csess EXCEPT ![c][w] = new]
    BY <1>1 DEF ReconcileWindowCloses
<1> HIDE DEF new
<1>4. /\ csess' \in [Channel -> [Coworker -> SessRow]] /\ csess'[c][w] = new
      /\ \A d \in Channel, v \in Coworker : d # c \/ v # w => csess'[d][v] = csess[d][v]
    BY <1>2, <1>3, Typed, SessionWritten
<1>5. UNCHANGED <<chan, part, cow, msg, task, pin, draft, receipt, req, lock, mix>>
    BY DEF ReconcileWindowCloses
<1>6. WInv'
    BY <1>4, <1>5 DEF WInv, TablesOK, RequestsOK
<1> QED BY <1>1, <1>2, <1>4, <1>5, <1>6

-----------------------------------------------------------------------------
(***************************************************************************)
(* The membership transactions.                                            *)
(***************************************************************************)

\* The memberships of a coworker.
Members(w) == {c \in Channel : part[c][w] = "member"}
MembersAfter(w) == {c \in Channel : part'[c][w] = "member"}

\* Only the row of coworker w, and its memberships, change.
OnlyCoworker(w) ==
    \A v \in Coworker \ {w} : cow'[v] = cow[v] /\ MembersAfter(v) = Members(v)

\* The membership of a coworker in a channel is written.
LEMMA ParticipantWritten ==
    ASSUME part \in [Channel -> [Coworker -> PartState]], NEW c \in Channel, NEW w \in Coworker,
           NEW state \in PartState, part' = [part EXCEPT ![c][w] = state]
    PROVE  /\ part' \in [Channel -> [Coworker -> PartState]]
           /\ part'[c][w] = state
           /\ \A d \in Channel, v \in Coworker : d # c \/ v # w => part'[d][v] = part[d][v]
OBVIOUS

\* A member joins a channel, or leaves it.
JoinsOrLeaves(r) ==
    LET q == req[r] IN
    /\ cow[q.w].status # "absent" /\ OnlyCoworker(q.w)
    /\ cow'[q.w].status = cow[q.w].status /\ cow'[q.w].rev = cow[q.w].rev + 1
    /\ cow'[q.w].grants = cow[q.w].grants
    /\ \/ /\ cow[q.w].status = "active" /\ MembersAfter(q.w) = Members(q.w) \cup {q.ch}
          /\ cow'[q.w].chans = cow[q.w].chans \cup {q.ch}
       \/ /\ MembersAfter(q.w) = Members(q.w) \ {q.ch}
          /\ cow'[q.w].chans = cow[q.w].chans \ {q.ch}

\* A membership is written with the coworker's channels.
LEMMA MembershipWritten ==
    ASSUME cow \in [Coworker -> CowRow], chan \in [ChanId -> ChanRow],
           part \in [Channel -> [Coworker -> PartState]],
           NEW c \in Channel, NEW w \in Coworker, NEW adds \in BOOLEAN,
           upsertParticipantMembership(c, w, adds)
    PROVE  /\ cow' \in [Coworker -> CowRow] /\ part' \in [Channel -> [Coworker -> PartState]]
           /\ chan' \in [ChanId -> ChanRow] /\ StatusesKept /\ OnlyCoworker(w)
           /\ cow'[w].status = cow[w].status /\ cow'[w].rev = cow[w].rev + 1
           /\ cow'[w].grants = cow[w].grants
           /\ adds => /\ MembersAfter(w) = Members(w) \cup {c}
                      /\ cow'[w].chans = cow[w].chans \cup {c}
           /\ ~adds => /\ MembersAfter(w) = Members(w) \ {c}
                       /\ cow'[w].chans = cow[w].chans \ {c}
<1>1. PICK row \in CowRow : row = cow[w]
    OBVIOUS
<1>2. PICK n \in Nat, chans \in SUBSET Channel :
         n = row.rev + 1 /\ chans = IF adds THEN row.chans \cup {c} ELSE row.chans \ {c}
  <2>1. row.rev \in Nat /\ row.chans \in SUBSET Channel
      BY DEF CowRow
  <2>2. PICK n \in Nat : n = row.rev + 1
      BY <2>1
  <2>3. PICK chans \in SUBSET Channel :
            chans = IF adds THEN row.chans \cup {c} ELSE row.chans \ {c}
      BY <2>1
  <2> QED BY <2>2, <2>3
<1> DEFINE new == [row EXCEPT !.chans = chans, !.rev = n]
<1>3. /\ new \in CowRow /\ new.chans = chans /\ new.rev = n
      /\ new.status = row.status /\ new.grants = row.grants
    BY DEF CowRow
<1>4. cow' = [cow EXCEPT ![w] = new]
  <2>1. cow' = [cow EXCEPT ![w].chans = IF adds THEN @ \cup {c} ELSE @ \ {c}, ![w].rev = @ + 1]
      BY DEF upsertParticipantMembership
  <2> QED BY <1>1, <1>2, <2>1
<1> HIDE DEF new
<1>5. cow' \in [Coworker -> CowRow] /\ cow'[w] = new /\ \A v \in Coworker \ {w} : cow'[v] = cow[v]
    BY <1>3, <1>4
<1>6. PICK state \in PartState : state = IF adds THEN "member" ELSE "removed"
    BY DEF PartState
<1>7. /\ part' \in [Channel -> [Coworker -> PartState]] /\ part'[c][w] = state
      /\ \A d \in Channel, v \in Coworker : d # c \/ v # w => part'[d][v] = part[d][v]
  <2>1. part' = [part EXCEPT ![c][w] = state]
      BY <1>6 DEF upsertParticipantMembership
  <2> QED BY <2>1, ParticipantWritten
<1>8. chan' \in [ChanId -> ChanRow] /\ StatusesKept
  <2>1. c \in ChanId
      BY DEF ChanId
  <2> QED BY <2>1, EventKeepsStatuses DEF upsertParticipantMembership
<1>9. OnlyCoworker(w)
    BY <1>5, <1>7 DEF OnlyCoworker, Members, MembersAfter
<1>10. /\ adds => MembersAfter(w) = Members(w) \cup {c}
       /\ ~adds => MembersAfter(w) = Members(w) \ {c}
    BY <1>6, <1>7 DEF Members, MembersAfter
<1> QED BY <1>1, <1>2, <1>3, <1>5, <1>7, <1>8, <1>9, <1>10

\* A coworker joins or leaves a channel that is open.
LEMMA WriteMembershipStep ==
    ASSUME WInv, NEW r \in Request, WriteMembership(r)
    PROVE  /\ StepOf(r) /\ UNCHANGED <<csess, msg, task, pin, draft, receipt, lock, mix>>
           /\ req[r].pc \in {"write", "run"} /\ StatusesKept
           /\ req[r].kind \in {"channel.participant.add", "channel.participant.remove"}
           /\ \/ JoinsOrLeaves(r) /\ Succeeds(req[r], req'[r], ResultId(r))
              \/ UNCHANGED <<part, cow>> /\ Goes(req[r], req'[r], "fail")
<1>1. /\ req[r].pc \in {"write", "run"}
      /\ req[r].kind \in {"channel.participant.add", "channel.participant.remove"}
      /\ UNCHANGED <<csess, msg, task, pin, draft, receipt, lock, mix>>
    BY DEF WriteMembership
<1>2. PICK q \in ReqRow : q = req[r] /\ Fits(q)
    BY StandsAt
<1>3. q.w \in Coworker /\ q.ch \in Channel
    BY <1>1, <1>2, RowFields DEF Fits, OnCoworker
<1>4. PICK adds \in BOOLEAN : adds <=> q.kind = "channel.participant.add"
    OBVIOUS
<1>5. CASE MembershipAdmitted(q.ch, q.w, adds)
  <2>1. upsertParticipantMembership(q.ch, q.w, adds) /\ Succeeded(r, ResultId(r))
    <3>1. adds = (q.kind = "channel.participant.add")
        BY <1>4
    <3> QED BY <1>2, <1>5, <3>1, Zenon DEF WriteMembership
  <2>2. Turns(r) /\ Succeeds(q, req'[r], ResultId(r)) /\ Fits(req'[r]) /\ Runs(q, req'[r])
      BY <1>1, <1>2, <2>1, StandsAt, SucceedingRow
  <2>3. /\ cow' \in [Coworker -> CowRow] /\ part' \in [Channel -> [Coworker -> PartState]]
        /\ chan' \in [ChanId -> ChanRow] /\ StatusesKept /\ OnlyCoworker(q.w)
        /\ cow'[q.w].status = cow[q.w].status /\ cow'[q.w].rev = cow[q.w].rev + 1
        /\ cow'[q.w].grants = cow[q.w].grants
        /\ adds => /\ MembersAfter(q.w) = Members(q.w) \cup {q.ch}
                   /\ cow'[q.w].chans = cow[q.w].chans \cup {q.ch}
        /\ ~adds => /\ MembersAfter(q.w) = Members(q.w) \ {q.ch}
                    /\ cow'[q.w].chans = cow[q.w].chans \ {q.ch}
      BY <1>3, <2>1, Typed, MembershipWritten
  <2>4. JoinsOrLeaves(r)
      BY <1>2, <1>5, <2>3 DEF JoinsOrLeaves, MembershipAdmitted
  <2>5. StepOf(r)
      BY <1>1, <1>2, <2>2, <2>3, Typed, WritingStepFits
  <2> QED BY <1>1, <1>2, <2>2, <2>3, <2>4, <2>5
<1>6. CASE ~MembershipAdmitted(q.ch, q.w, adds)
  <2>1. Goto(r, "fail") /\ UNCHANGED <<part, cow, chan>>
    <3>1. adds = (q.kind = "channel.participant.add")
        BY <1>4
    <3> QED BY <1>2, <1>6, <3>1, Zenon DEF WriteMembership
  <2>2. Turns(r) /\ Goes(q, req'[r], "fail") /\ Fits(req'[r]) /\ Runs(q, req'[r])
      BY <1>1, <1>2, <2>1, FailingRow
  <2>3. StepOf(r)
      BY <1>1, <1>2, <2>1, <2>2, Typed, WritingStepFits
  <2> QED BY <1>1, <1>2, <2>1, <2>2, <2>3 DEF StatusesKept
<1> QED BY <1>5, <1>6

\* An update reads the memberships it plans from.
PlansUpdate(r) ==
    LET q == req[r] p == req'[r] IN
    /\ SameCommand(q, p) /\ p.ch = q.ch /\ p.pc = "write" /\ p.ans = q.ans /\ p.res = q.res
    /\ p.left = q.left /\ p.seen.cow = q.seen.cow /\ p.seen.members = Members(q.w)

\* The row of a request that has read the memberships.
LEMMA MembersRead ==
    ASSUME RequestsOK, NEW r \in Request, NEW ms \in SUBSET Channel,
           req' = [req EXCEPT ![r].pc = "write", ![r].seen.members = ms]
    PROVE  /\ Turns(r) /\ SameCommand(req[r], req'[r]) /\ req'[r].ch = req[r].ch
           /\ req'[r].pc = "write" /\ req'[r].ans = req[r].ans /\ req'[r].res = req[r].res
           /\ req'[r].left = req[r].left /\ req'[r].seen.cow = req[r].seen.cow
           /\ req'[r].seen.members = ms
<1>1. PICK q \in ReqRow : q = req[r]
    BY DEF RequestsOK
<1> DEFINE p == [q EXCEPT !.pc = "write", !.seen.members = ms]
<1>2. p \in ReqRow
    BY ZenonT(60) DEF ReqRow, PC
<1>3. /\ SameCommand(q, p) /\ p.ch = q.ch /\ p.pc = "write" /\ p.ans = q.ans /\ p.res = q.res
      /\ p.left = q.left /\ p.seen.cow = q.seen.cow /\ p.seen.members = ms
    BY DEF ReqRow, SameCommand
<1>4. req' = [req EXCEPT ![r] = p]
    BY <1>1
<1> HIDE DEF p
<1>5. Turns(r) /\ req'[r] = p
    BY <1>2, <1>4, Replaces, Zenon
<1> QED BY <1>1, <1>3, <1>5

\* The plan of an update.
LEMMA PlanUpdateStep ==
    ASSUME WInv, NEW r \in Request, validateMembershipTargets(r)
    PROVE  /\ StepOf(r) /\ UNCHANGED <<tables, lock, mix>> /\ req[r].pc = "plan"
           /\ req[r].kind = "coworker.update"
           /\ PlansUpdate(r) \/ Ends(req[r], req'[r], "error", NoResult)
<1>1. /\ req[r].pc = "plan" /\ req[r].kind = "coworker.update" /\ UNCHANGED <<tables, lock, mix>>
      /\ \/ Refuse(r)
         \/ req' = [req EXCEPT ![r].pc = "write", ![r].seen.members = Members(req[r].w)]
    BY DEF validateMembershipTargets, Members
<1>2. CASE Refuse(r)
    BY <1>1, <1>2, RefusalFits
<1>3. CASE req' = [req EXCEPT ![r].pc = "write", ![r].seen.members = Members(req[r].w)]
  <2>1. PICK ms \in SUBSET Channel : ms = Members(req[r].w)
      BY DEF Members
  <2>2. Turns(r) /\ PlansUpdate(r)
      BY <1>3, <2>1, Typed, MembersRead DEF PlansUpdate
  <2>3. Fits(req'[r]) /\ Runs(req[r], req'[r])
      BY <1>1, <2>2, StandsAt DEF PlansUpdate, Fits, Runs, SameCommand, Late, OnCoworker, OnObject, Pins
  <2> QED BY <1>1, <2>2, <2>3, ReadingStepFits
<1> QED BY <1>1, <1>2, <1>3

\* An update gives a coworker the channels it asks for.
UpdatesCoworker(r) ==
    LET q == req[r] IN
    /\ cow[q.w].status = "active" /\ cow[q.w].rev = q.seen.cow.rev /\ OnlyCoworker(q.w)
    /\ cow'[q.w].status = "active" /\ cow'[q.w].rev = cow[q.w].rev + 1
    /\ cow'[q.w].chans = q.set
    /\ MembersAfter(q.w) = q.set \cup (Members(q.w) \ q.seen.members)

\* The transaction of an update.
LEMMA UpdateCommitted ==
    ASSUME cow \in [Coworker -> CowRow], chan \in [ChanId -> ChanRow],
           part \in [Channel -> [Coworker -> PartState]],
           NEW w \in Coworker, NEW S \in SUBSET Channel, NEW T \in SUBSET Channel,
           NEW plan, DOMAIN plan = T, \A c \in T : plan[c] \in {"member", "removed"},
           NEW events, cow[w].status = "active",
           commitCoworkerUpdate(w, S, S, plan, events)
    PROVE  /\ cow' \in [Coworker -> CowRow] /\ part' \in [Channel -> [Coworker -> PartState]]
           /\ chan' \in [ChanId -> ChanRow] /\ StatusesKept /\ OnlyCoworker(w)
           /\ cow'[w].status = "active" /\ cow'[w].rev = cow[w].rev + 1
           /\ cow'[w].chans = S /\ cow'[w].grants = S
           /\ MembersAfter(w) = {c \in T : plan[c] = "member"} \cup (Members(w) \ T)
<1>1. PICK row \in CowRow : row = cow[w]
    OBVIOUS
<1>2. PICK n \in Nat : n = row.rev + 1
    BY DEF CowRow
<1>3. PICK s \in Nat : s = row.spec + 1
    BY DEF CowRow
<1> DEFINE new == [row EXCEPT !.chans = S, !.grants = S, !.rev = n, !.spec = s]
<1>4. new \in CowRow /\ new.chans = S /\ new.grants = S /\ new.rev = n /\ new.status = row.status
    BY DEF CowRow
<1>5. cow' = [cow EXCEPT ![w] = new]
  <2>1. cow' = [cow EXCEPT ![w].chans = S, ![w].grants = S, ![w].rev = @ + 1, ![w].spec = @ + 1]
      BY DEF commitCoworkerUpdate
  <2> QED BY <1>1, <1>2, <1>3, <2>1
<1> HIDE DEF new
<1>6. cow' \in [Coworker -> CowRow] /\ cow'[w] = new /\ \A v \in Coworker \ {w} : cow'[v] = cow[v]
    BY <1>4, <1>5
<1>7. ASSUME NEW c \in Channel, NEW v \in Coworker
      PROVE  part'[c][v] = IF v = w /\ c \in T THEN plan[c] ELSE part[c][v]
    BY DEF commitCoworkerUpdate
<1>8. part' \in [Channel -> [Coworker -> PartState]]
  <2>1. ASSUME NEW c \in Channel PROVE part'[c] \in [Coworker -> PartState]
    <3>1. part'[c] = [part[c] EXCEPT ![w] = IF c \in T THEN plan[c] ELSE @]
        BY DEF commitCoworkerUpdate
    <3>2. c \in T => plan[c] \in PartState
        BY DEF PartState
    <3> QED BY <3>1, <3>2
  <2>2. part' = [c \in Channel |-> part'[c]]
      BY DEF commitCoworkerUpdate
  <2> QED BY <2>1, <2>2
<1>9. chan' \in [ChanId -> ChanRow] /\ StatusesKept
    BY EventsAppended DEF commitCoworkerUpdate
<1>10. OnlyCoworker(w)
    BY <1>6, <1>7 DEF OnlyCoworker, Members, MembersAfter
<1>11. MembersAfter(w) = {c \in T : plan[c] = "member"} \cup (Members(w) \ T)
    BY <1>7 DEF Members, MembersAfter
<1> QED BY <1>1, <1>2, <1>4, <1>6, <1>8, <1>9, <1>10, <1>11

\* The write of an update.
LEMMA WriteCoworkerStep ==
    ASSUME WInv, NEW r \in Request, WriteCoworker(r)
    PROVE  /\ StepOf(r) /\ UNCHANGED <<csess, msg, task, pin, draft, receipt, lock, mix>>
           /\ req[r].pc = "write" /\ req[r].kind = "coworker.update" /\ StatusesKept
           /\ UpdatesCoworker(r) \/ UNCHANGED <<part, cow>>
           /\ \E ans \in {"ok", "error"}, res \in Result : Ends(req[r], req'[r], ans, res)
<1>1. /\ req[r].pc = "write" /\ req[r].kind = "coworker.update"
      /\ UNCHANGED <<csess, msg, task, pin, draft, receipt, lock, mix>>
    BY DEF WriteCoworker
<1>2. PICK q \in ReqRow : q = req[r] /\ Fits(q)
    BY StandsAt
<1>3. q.w \in Coworker /\ q.set \subseteq Channel /\ q.seen.members \subseteq Channel
    BY <1>1, <1>2, RowFields DEF Fits, OnCoworker
<1> DEFINE left == q.seen.members \ q.set
           plan == [c \in q.set \cup left |-> IF c \in q.set THEN "member" ELSE "removed"]
           events == left \cup (q.set \ q.seen.members)
           res == [NoResult EXCEPT !.w = q.w]
<1>4. \/ /\ cow[q.w].rev = q.seen.cow.rev /\ cow[q.w].status = "active"
         /\ commitCoworkerUpdate(q.w, q.set, q.set, plan, events) /\ Answer(r, "ok", res)
      \/ Refuse(r) /\ UNCHANGED <<part, cow, chan>>
    BY <1>2 DEF WriteCoworker, UpdateAdmitted
<1>5. CASE /\ cow[q.w].rev = q.seen.cow.rev /\ cow[q.w].status = "active"
           /\ commitCoworkerUpdate(q.w, q.set, q.set, plan, events) /\ Answer(r, "ok", res)
  <2>1. res \in Result
      BY <1>3 DEF NoResult, Result
  <2>2. Turns(r) /\ Ends(q, req'[r], "ok", res)
      BY <1>2, <1>5, <2>1, Typed, AnswerRow
  <2>3. Fits(req'[r]) /\ Runs(q, req'[r])
      BY <1>1, <1>2, <2>2, RowsFit
  <2>4. PICK T \in SUBSET Channel : T = q.set \cup left
      BY <1>3
  <2>5. DOMAIN plan = T /\ \A c \in T : plan[c] = IF c \in q.set THEN "member" ELSE "removed"
      BY <2>4
  <2> HIDE DEF plan, events
  <2>6. /\ cow' \in [Coworker -> CowRow] /\ part' \in [Channel -> [Coworker -> PartState]]
        /\ chan' \in [ChanId -> ChanRow] /\ StatusesKept /\ OnlyCoworker(q.w)
        /\ cow'[q.w].status = "active" /\ cow'[q.w].rev = cow[q.w].rev + 1
        /\ cow'[q.w].chans = q.set /\ cow'[q.w].grants = q.set
        /\ MembersAfter(q.w) = {c \in T : plan[c] = "member"} \cup (Members(q.w) \ T)
    <3>1. q.set \in SUBSET Channel /\ commitCoworkerUpdate(q.w, q.set, q.set, plan, events)
        BY <1>3, <1>5
    <3>2. \A c \in T : plan[c] \in {"member", "removed"}
        BY <2>5
    <3>3. /\ cow \in [Coworker -> CowRow] /\ chan \in [ChanId -> ChanRow]
          /\ part \in [Channel -> [Coworker -> PartState]]
        BY Typed
    <3> QED BY <1>3, <1>5, <2>5, <3>1, <3>2, <3>3, UpdateCommitted, ZenonT(60)
  <2>7. MembersAfter(q.w) = q.set \cup (Members(q.w) \ q.seen.members)
    <3>1. {c \in T : plan[c] = "member"} = q.set
        BY <2>4, <2>5
    <3> QED BY <2>4, <2>6, <3>1
  <2>8. UpdatesCoworker(r)
      BY <1>2, <1>5, <2>6, <2>7 DEF UpdatesCoworker
  <2>9. StepOf(r)
      BY <1>1, <1>2, <2>2, <2>3, <2>6, Typed, WritingStepFits
  <2> QED BY <1>1, <1>2, <2>1, <2>2, <2>6, <2>8, <2>9
<1>6. CASE Refuse(r) /\ UNCHANGED <<part, cow, chan>>
  <2>1. /\ Turns(r) /\ Ends(q, req'[r], "error", NoResult) /\ Fits(req'[r]) /\ Runs(q, req'[r])
      BY <1>1, <1>2, <1>6, RefusedRow
  <2>2. StepOf(r)
      BY <1>1, <1>2, <1>6, <2>1, Typed, WritingStepFits
  <2> QED BY <1>1, <1>2, <1>6, <2>1, <2>2, Nulls DEF StatusesKept
<1> QED BY <1>4, <1>5, <1>6

\* The plan of a disabling.
LEMMA PlanDisableStep ==
    ASSUME WInv, NEW r \in Request, PlanDisable(r)
    PROVE  /\ StepOf(r) /\ UNCHANGED <<tables, lock, mix>> /\ req[r].pc = "run"
           /\ req[r].kind = "coworker.disable" /\ req'[r].pc \in {"finish", "write"}
           /\ req'[r].ch = req[r].ch /\ req'[r].ans = req[r].ans /\ req'[r].left = req[r].left
<1>1. /\ req[r].pc = "run" /\ req[r].kind = "coworker.disable" /\ UNCHANGED <<tables, lock, mix>>
      /\ \/ Succeeded(r, ResultId(r))
         \/ req' = [req EXCEPT ![r].pc = "write", ![r].seen.members = Members(req[r].w)]
    BY DEF PlanDisable, Members
<1>2. CASE Succeeded(r, ResultId(r))
  <2>1. Turns(r) /\ Succeeds(req[r], req'[r], ResultId(r)) /\ Fits(req'[r]) /\ Runs(req[r], req'[r])
      BY <1>1, <1>2, StandsAt, SucceedingRow
  <2> QED BY <1>1, <2>1, ReadingStepFits DEF Succeeds
<1>3. CASE req' = [req EXCEPT ![r].pc = "write", ![r].seen.members = Members(req[r].w)]
  <2>1. PICK ms \in SUBSET Channel : ms = Members(req[r].w)
      BY DEF Members
  <2>2. /\ Turns(r) /\ SameCommand(req[r], req'[r]) /\ req'[r].ch = req[r].ch
        /\ req'[r].pc = "write" /\ req'[r].ans = req[r].ans /\ req'[r].left = req[r].left
      BY <1>3, <2>1, Typed, MembersRead
  <2>3. Fits(req'[r]) /\ Runs(req[r], req'[r])
      BY <1>1, <2>2, StandsAt DEF Fits, Runs, SameCommand, Late, OnCoworker, OnObject, Pins
  <2> QED BY <1>1, <2>2, <2>3, ReadingStepFits
<1> QED BY <1>1, <1>2, <1>3

\* A coworker is disabled and leaves its channels.
DisablesCoworker(r) ==
    LET q == req[r] IN
    /\ cow[q.w].status = "active" /\ OnlyCoworker(q.w)
    /\ cow'[q.w].status = "disabled" /\ cow'[q.w].rev = cow[q.w].rev + 1
    /\ cow'[q.w].chans = {} /\ cow'[q.w].grants = {} /\ MembersAfter(q.w) = {}

\* The transaction of a disabling.
LEMMA CleanedUp ==
    ASSUME cow \in [Coworker -> CowRow], chan \in [ChanId -> ChanRow],
           part \in [Channel -> [Coworker -> PartState]],
           NEW w \in Coworker, NEW events, disableCoworkerCleanup(w, events)
    PROVE  /\ cow' \in [Coworker -> CowRow] /\ part' \in [Channel -> [Coworker -> PartState]]
           /\ chan' \in [ChanId -> ChanRow] /\ StatusesKept /\ OnlyCoworker(w)
           /\ cow'[w].status = "disabled" /\ cow'[w].rev = cow[w].rev + 1
           /\ cow'[w].chans = {} /\ cow'[w].grants = {} /\ MembersAfter(w) = {}
<1>1. PICK row \in CowRow : row = cow[w]
    OBVIOUS
<1>2. PICK n \in Nat : n = row.rev + 1
    BY DEF CowRow
<1> DEFINE new == [row EXCEPT !.status = "disabled", !.rev = n, !.chans = {}, !.grants = {}]
<1>3. new \in CowRow /\ new.chans = {} /\ new.grants = {} /\ new.rev = n /\ new.status = "disabled"
    BY DEF CowRow
<1>4. cow' = [cow EXCEPT ![w] = new]
  <2>1. cow' = [cow EXCEPT ![w].status = "disabled", ![w].rev = @ + 1,
                           ![w].chans = {}, ![w].grants = {}]
      BY DEF disableCoworkerCleanup
  <2> QED BY <1>1, <1>2, <2>1
<1> HIDE DEF new
<1>5. cow' \in [Coworker -> CowRow] /\ cow'[w] = new /\ \A v \in Coworker \ {w} : cow'[v] = cow[v]
    BY <1>3, <1>4
<1>6. ASSUME NEW c \in Channel, NEW v \in Coworker
      PROVE  part'[c][v] = IF v = w /\ part[c][w] = "member" THEN "removed" ELSE part[c][v]
    BY DEF disableCoworkerCleanup
<1>7. part' \in [Channel -> [Coworker -> PartState]]
  <2>1. ASSUME NEW c \in Channel PROVE part'[c] \in [Coworker -> PartState]
    <3>1. part'[c] = [part[c] EXCEPT ![w] = IF @ = "member" THEN "removed" ELSE @]
        BY DEF disableCoworkerCleanup
    <3>2. "removed" \in PartState
        BY DEF PartState
    <3> QED BY <3>1, <3>2
  <2>2. part' = [c \in Channel |-> part'[c]]
      BY DEF disableCoworkerCleanup
  <2> QED BY <2>1, <2>2
<1>8. chan' \in [ChanId -> ChanRow] /\ StatusesKept
    BY EventsAppended DEF disableCoworkerCleanup
<1>9. OnlyCoworker(w) /\ MembersAfter(w) = {}
    BY <1>5, <1>6 DEF OnlyCoworker, Members, MembersAfter
<1> QED BY <1>1, <1>2, <1>3, <1>5, <1>7, <1>8, <1>9

\* The write of a disabling.
LEMMA WriteDisableStep ==
    ASSUME WInv, NEW r \in Request, WriteDisable(r)
    PROVE  /\ StepOf(r) /\ UNCHANGED <<csess, msg, task, pin, draft, receipt, lock, mix>>
           /\ req[r].pc = "write" /\ req[r].kind = "coworker.disable" /\ StatusesKept
           /\ DisablesCoworker(r) \/ UNCHANGED <<part, cow>>
           /\ Succeeds(req[r], req'[r], ResultId(r)) \/ Goes(req[r], req'[r], "fail")
<1>1. /\ req[r].pc = "write" /\ req[r].kind = "coworker.disable"
      /\ UNCHANGED <<csess, msg, task, pin, draft, receipt, lock, mix>>
      /\ Succeeded(r, ResultId(r)) \/ Goto(r, "fail")
      /\ \/ disableCoworkerCleanup(req[r].w, req[r].seen.members) /\ cow[req[r].w].status = "active"
         \/ UNCHANGED <<part, cow, chan>>
    BY DEF WriteDisable
<1>2. req[r].w \in Coworker
    BY <1>1, StandsAt DEF Fits, OnCoworker
<1>3. /\ Turns(r) /\ Fits(req'[r]) /\ Runs(req[r], req'[r])
      /\ Succeeds(req[r], req'[r], ResultId(r)) \/ Goes(req[r], req'[r], "fail")
    BY <1>1, StandsAt, SucceedingRow, FailingRow
<1>4. CASE disableCoworkerCleanup(req[r].w, req[r].seen.members) /\ cow[req[r].w].status = "active"
  <2>1. /\ cow' \in [Coworker -> CowRow] /\ part' \in [Channel -> [Coworker -> PartState]]
        /\ chan' \in [ChanId -> ChanRow] /\ StatusesKept /\ DisablesCoworker(r)
      BY <1>2, <1>4, Typed, CleanedUp DEF DisablesCoworker
  <2>2. StepOf(r)
      BY <1>1, <1>3, <2>1, Typed, WritingStepFits
  <2> QED BY <1>1, <1>3, <2>1, <2>2
<1>5. CASE UNCHANGED <<part, cow, chan>>
  <2>1. StepOf(r)
      BY <1>1, <1>3, <1>5, Typed, WritingStepFits
  <2> QED BY <1>1, <1>3, <1>5, <2>1 DEF StatusesKept
<1> QED BY <1>1, <1>4, <1>5

-----------------------------------------------------------------------------
(***************************************************************************)
(* Tasks.                                                                  *)
(***************************************************************************)

\* A task is inserted in an open channel, with its first revision.
InsertsTask(r) ==
    /\ chan[req[r].ch].status = "active"
    /\ task'[r].status = "todo" /\ task'[r].rev = 1 /\ task'[r].revs = {1}
    /\ task'[r].chan = req[r].ch
    /\ \A t \in ObjId \ {r} : task'[t] = task[t]
    /\ Succeeds(req[r], req'[r], ResultId(r))

\* The insertion of a task.
LEMMA WriteNewTaskStep ==
    ASSUME WInv, NEW r \in Request, WriteNewTask(r)
    PROVE  /\ StepOf(r) /\ UNCHANGED <<part, cow, csess, msg, pin, draft, receipt, lock, mix>>
           /\ req[r].pc = "run" /\ req[r].kind = "task.create" /\ StatusesKept
           /\ InsertsTask(r) \/ (task' = task /\ Goes(req[r], req'[r], "fail"))
<1>1. /\ req[r].pc = "run" /\ req[r].kind = "task.create"
      /\ UNCHANGED <<part, cow, csess, msg, pin, draft, receipt, lock, mix>>
      /\ \/ /\ chan[req[r].ch].status = "active"
            /\ insertTaskWithRevision(r, req[r].ch, req[r].w) /\ Succeeded(r, ResultId(r))
         \/ Goto(r, "fail") /\ UNCHANGED <<task, chan>>
    BY DEF WriteNewTask, TaskWriteValid
<1>2. CASE /\ chan[req[r].ch].status = "active"
           /\ insertTaskWithRevision(r, req[r].ch, req[r].w) /\ Succeeded(r, ResultId(r))
  <2>1. Turns(r) /\ Succeeds(req[r], req'[r], ResultId(r)) /\ Fits(req'[r]) /\ Runs(req[r], req'[r])
      BY <1>1, <1>2, StandsAt, SucceedingRow
  <2>2. PICK q \in ReqRow : q = req[r]
      BY StandsAt
  <2> DEFINE new == [status |-> "todo", rev |-> 1, who |-> q.w, chan |-> q.ch, revs |-> {1}]
  <2>3. /\ new \in TaskRow /\ new.status = "todo" /\ new.rev = 1 /\ new.revs = {1}
        /\ new.chan = q.ch
    <3>1. q.w \in Coworker \cup {NoRequest} /\ q.ch \in Channel
        BY RowFields
    <3> QED BY <3>1 DEF TaskRow, TaskStatus
  <2>4. task' = [task EXCEPT ![r] = new]
      BY <1>2, <2>2 DEF insertTaskWithRevision
  <2> HIDE DEF new
  <2>5. task' \in [ObjId -> TaskRow] /\ task'[r] = new /\ \A t \in ObjId \ {r} : task'[t] = task[t]
      BY <2>3, <2>4, StandsAt, Typed
  <2>6. chan' \in [ChanId -> ChanRow] /\ StatusesKept
      BY <1>2, Typed, StandsAt, EventKeepsStatuses DEF insertTaskWithRevision
  <2>7. StepOf(r)
      BY <1>1, <2>1, <2>5, <2>6, Typed, WritingStepFits
  <2>8. InsertsTask(r)
      BY <1>2, <2>1, <2>2, <2>3, <2>5 DEF InsertsTask
  <2> QED BY <1>1, <2>6, <2>7, <2>8
<1>3. CASE Goto(r, "fail") /\ UNCHANGED <<task, chan>>
  <2>1. Turns(r) /\ Goes(req[r], req'[r], "fail") /\ Fits(req'[r]) /\ Runs(req[r], req'[r])
      BY <1>1, <1>3, FailingRow
  <2>2. StepOf(r)
      BY <1>1, <1>3, <2>1, Typed, WritingStepFits
  <2> QED BY <1>1, <1>3, <2>1, <2>2 DEF StatusesKept
<1> QED BY <1>1, <1>2, <1>3

\* A request reads the task it is to update.
ReadsTask(r) ==
    LET q == req[r] p == req'[r] IN
    /\ canTransitionTask(task[q.obj].status, q.st)
    /\ SameCommand(q, p) /\ p.ch = q.ch /\ p.pc = "write" /\ p.ans = q.ans /\ p.res = q.res
    /\ p.left = q.left /\ p.seen.task = task[q.obj] /\ p.seen.cow = q.seen.cow

\* The reading of a task.
LEMMA ReadTaskStep ==
    ASSUME WInv, NEW r \in Request, ReadTask(r)
    PROVE  /\ StepOf(r) /\ UNCHANGED <<tables, lock, mix>> /\ req[r].pc = "run"
           /\ req[r].kind = "task.update"
           /\ ReadsTask(r) \/ Goes(req[r], req'[r], "fail")
<1>1. /\ req[r].pc = "run" /\ req[r].kind = "task.update" /\ UNCHANGED <<tables, lock, mix>>
      /\ \/ /\ canTransitionTask(task[req[r].obj].status, req[r].st)
            /\ req' = [req EXCEPT ![r].pc = "write", ![r].seen.task = task[req[r].obj]]
         \/ Goto(r, "fail")
    BY DEF ReadTask
<1>2. CASE Goto(r, "fail")
  <2>1. Turns(r) /\ Goes(req[r], req'[r], "fail") /\ Fits(req'[r]) /\ Runs(req[r], req'[r])
      BY <1>1, <1>2, FailingRow
  <2> QED BY <1>1, <2>1, ReadingStepFits
<1>3. CASE /\ canTransitionTask(task[req[r].obj].status, req[r].st)
           /\ req' = [req EXCEPT ![r].pc = "write", ![r].seen.task = task[req[r].obj]]
  <2>1. PICK q \in ReqRow : q = req[r] /\ Fits(q)
      BY StandsAt
  <2>2. PICK cur \in TaskRow : cur = task[q.obj]
      BY <1>1, <2>1, Typed DEF Fits, OnObject
  <2> DEFINE p == [q EXCEPT !.pc = "write", !.seen.task = cur]
  <2>3. p \in ReqRow
      BY ZenonT(60) DEF ReqRow, PC
  <2>4. /\ SameCommand(q, p) /\ p.ch = q.ch /\ p.pc = "write" /\ p.ans = q.ans /\ p.res = q.res
        /\ p.left = q.left /\ p.seen.task = cur /\ p.seen.cow = q.seen.cow
      BY DEF ReqRow, SameCommand
  <2>5. req' = [req EXCEPT ![r] = p]
      BY <1>3, <2>1, <2>2
  <2> HIDE DEF p
  <2>6. Turns(r) /\ req'[r] = p
      BY <2>3, <2>5, Typed, Replaces, Zenon
  <2>7. ReadsTask(r)
      BY <1>3, <2>1, <2>2, <2>4, <2>6 DEF ReadsTask
  <2>8. Fits(p) /\ Runs(q, p)
      BY <1>1, <2>1, <2>4 DEF Fits, Runs, SameCommand, Late, OnCoworker, OnObject, Pins
  <2> QED BY <1>1, <2>1, <2>6, <2>7, <2>8, ReadingStepFits
<1> QED BY <1>1, <1>2, <1>3

\* A task is updated to the revision after the one that was read.
UpdatesTask(r) ==
    LET q   == req[r]
        old == q.seen.task
        new == task'[q.obj]
    IN
    /\ task[q.obj].rev = q.rev /\ chan[old.chan].status = "active"
    /\ new.status = q.st /\ new.rev = old.rev + 1 /\ new.chan = old.chan
    /\ old.rev + 1 \notin task[q.obj].revs
    /\ new.revs = task[q.obj].revs \cup {old.rev + 1}
    /\ \A t \in ObjId \ {q.obj} : task'[t] = task[t]
    /\ Succeeds(q, req'[r], ResultId(r))

\* The transaction of an update.
LEMMA TaskUpdated ==
    ASSUME task \in [ObjId -> TaskRow], chan \in [ChanId -> ChanRow],
           NEW t \in ObjId, NEW next \in TaskRow, updateTaskWithRevision(t, next)
    PROVE  /\ task' \in [ObjId -> TaskRow] /\ chan' \in [ChanId -> ChanRow] /\ StatusesKept
           /\ task'[t].status = next.status /\ task'[t].rev = next.rev
           /\ task'[t].chan = next.chan /\ task'[t].revs = task[t].revs \cup {next.rev}
           /\ \A o \in ObjId \ {t} : task'[o] = task[o]
<1>1. PICK revs \in SUBSET Nat : revs = task[t].revs \cup {next.rev}
  <2>1. task[t] \in TaskRow
      OBVIOUS
  <2> QED BY <2>1 DEF TaskRow
<1> DEFINE new == [next EXCEPT !.revs = revs]
<1>2. /\ new \in TaskRow /\ new.status = next.status /\ new.rev = next.rev
      /\ new.chan = next.chan /\ new.revs = revs
    BY DEF TaskRow
<1>3. task' = [task EXCEPT ![t] = new]
    BY <1>1 DEF updateTaskWithRevision
<1> HIDE DEF new
<1>4. next.chan \in ChanId
    BY DEF TaskRow, ChanId
<1>5. chan' \in [ChanId -> ChanRow] /\ StatusesKept
    BY <1>4, EventKeepsStatuses DEF updateTaskWithRevision
<1> QED BY <1>1, <1>2, <1>3, <1>5

\* The write of an update of a task.
LEMMA WriteTaskStep ==
    ASSUME WInv, NEW r \in Request, WriteTask(r)
    PROVE  /\ StepOf(r) /\ UNCHANGED <<part, cow, csess, msg, pin, draft, receipt, lock, mix>>
           /\ req[r].pc = "write" /\ req[r].kind = "task.update" /\ StatusesKept
           /\ UpdatesTask(r) \/ (task' = task /\ Goes(req[r], req'[r], "fail"))
<1>1. PICK q \in ReqRow : q = req[r] /\ Fits(q)
    BY StandsAt
<1>2. PICK old \in TaskRow : old = q.seen.task
    BY RowFields
<1>3. PICK n \in Nat : n = old.rev + 1
    BY DEF TaskRow
<1> DEFINE next == [old EXCEPT !.status = q.st, !.rev = n]
<1>4. next \in TaskRow /\ next.status = q.st /\ next.rev = n /\ next.chan = old.chan
  <2>1. q.st \in TaskStatus
      BY RowFields
  <2> QED BY <2>1 DEF TaskRow
<1>5. /\ q.pc = "write" /\ q.kind = "task.update"
      /\ UNCHANGED <<part, cow, csess, msg, pin, draft, receipt, lock, mix>>
      /\ \/ /\ task[q.obj].rev = q.rev /\ TaskWriteValid(next.chan, next.who)
            /\ RevisionFree(q.obj, next.rev)
            /\ updateTaskWithRevision(q.obj, next) /\ Succeeded(r, ResultId(r))
         \/ Goto(r, "fail") /\ UNCHANGED <<task, chan>>
  <2>1. [old EXCEPT !.status = q.st, !.rev = @ + 1] = next
      BY <1>3
  <2> HIDE DEF next
  <2> QED BY <1>1, <1>2, <2>1 DEF WriteTask
<1> HIDE DEF next
<1>6. CASE /\ task[q.obj].rev = q.rev /\ TaskWriteValid(next.chan, next.who)
           /\ RevisionFree(q.obj, next.rev)
           /\ updateTaskWithRevision(q.obj, next) /\ Succeeded(r, ResultId(r))
  <2>1. Turns(r) /\ Succeeds(q, req'[r], ResultId(r)) /\ Fits(req'[r]) /\ Runs(q, req'[r])
      BY <1>1, <1>5, <1>6, StandsAt, SucceedingRow
  <2>2. q.obj \in ObjId
      BY <1>1, <1>5 DEF Fits, OnObject
  <2>3. /\ task' \in [ObjId -> TaskRow] /\ chan' \in [ChanId -> ChanRow] /\ StatusesKept
        /\ task'[q.obj].status = next.status /\ task'[q.obj].rev = next.rev
        /\ task'[q.obj].chan = next.chan /\ task'[q.obj].revs = task[q.obj].revs \cup {next.rev}
        /\ \A o \in ObjId \ {q.obj} : task'[o] = task[o]
      BY <1>4, <1>6, <2>2, Typed, TaskUpdated
  <2>4. StepOf(r)
      BY <1>1, <1>5, <2>1, <2>3, Typed, WritingStepFits
  <2>5. UpdatesTask(r)
      BY <1>1, <1>2, <1>3, <1>4, <1>6, <2>1, <2>3 DEF UpdatesTask, TaskWriteValid, RevisionFree
  <2> QED BY <1>1, <1>5, <2>3, <2>4, <2>5
<1>7. CASE Goto(r, "fail") /\ UNCHANGED <<task, chan>>
  <2>1. Turns(r) /\ Goes(q, req'[r], "fail") /\ Fits(req'[r]) /\ Runs(q, req'[r])
      BY <1>1, <1>5, <1>7, FailingRow
  <2>2. StepOf(r)
      BY <1>1, <1>5, <1>7, <2>1, Typed, WritingStepFits
  <2> QED BY <1>1, <1>5, <1>7, <2>1, <2>2 DEF StatusesKept
<1> QED BY <1>5, <1>6, <1>7

-----------------------------------------------------------------------------
(***************************************************************************)
(* Coworker drafts.                                                        *)
(***************************************************************************)

\* One draft changes its state.
DraftMoved(d, state) ==
    /\ draft'[d].state = state /\ draft'[d].who = draft[d].who /\ draft'[d].chans = draft[d].chans
    /\ \A o \in ObjId \ {d} : draft'[o] = draft[o]

\* The statement that moves a draft.
LEMMA DraftStateWritten ==
    ASSUME draft \in [ObjId -> DraftRow], NEW d \in ObjId, NEW state \in DraftState,
           draft' = updateCoworkerDraftState(d, state)
    PROVE  draft' \in [ObjId -> DraftRow] /\ DraftMoved(d, state)
<1>1. PICK row \in DraftRow : row = draft[d]
    OBVIOUS
<1> DEFINE new == [row EXCEPT !.state = state]
<1>2. new \in DraftRow /\ new.state = state /\ new.who = row.who /\ new.chans = row.chans
    BY DEF DraftRow
<1>3. draft' = [draft EXCEPT ![d] = new]
    BY <1>1 DEF updateCoworkerDraftState
<1> HIDE DEF new
<1> QED BY <1>1, <1>2, <1>3 DEF DraftMoved

\* A draft is inserted for a request, and others may be superseded.
InsertsDraft(r) ==
    /\ draft'[r].state = "awaiting_review"
    /\ \A d \in ObjId \ {r} : /\ draft'[d].who = draft[d].who
                              /\ \/ draft'[d].state = draft[d].state
                                 \/ Reviewable(d) /\ draft'[d].state = "superseded"

\* A draft with the body asked for awaits review already.
FindsDraft(r) ==
    \E d \in ObjId : draft[d].state # "absent" /\ Succeeds(req[r], req'[r], [NoResult EXCEPT !.obj = d])

\* A set of revisions of drafts has a size.
LEMMA RevisionsCounted ==
    ASSUME NEW same \in SUBSET ObjId
    PROVE  Cardinality({draft[d].rev : d \in same}) \in Nat
<1>1. IsFiniteSet(same)
  <2>1. IsFiniteSet(ObjId)
      BY IdAssumption, FS_AddElement DEF ObjId
  <2> QED BY <2>1, FS_Subset
<1> DEFINE T == {draft[d].rev : d \in same}
           f == [d \in same |-> draft[d].rev]
<1>2. f \in Surjection(same, T)
    BY DEF Surjection
<1>3. IsFiniteSet(T)
    BY <1>1, <1>2, FS_Surjection
<1> QED BY <1>3, FS_CardinalityType

\* The insertion of a draft, where a draft of the body is found or the others are superseded.
LEMMA InsertDraftStep ==
    ASSUME WInv, NEW r \in Request, insertCoworkerDraftWithSupersede(r)
    PROVE  /\ StepOf(r) /\ UNCHANGED <<chan, part, cow, csess, msg, task, pin, receipt, lock, mix>>
           /\ req[r].pc = "run" /\ req[r].kind = "coworker.draft.create"
           /\ \/ draft' = draft /\ FindsDraft(r)
              \/ InsertsDraft(r) /\ Succeeds(req[r], req'[r], ResultId(r))
<1>1. /\ req[r].pc = "run" /\ req[r].kind = "coworker.draft.create"
      /\ UNCHANGED <<chan, part, cow, csess, msg, task, pin, receipt, lock, mix>>
    BY DEF insertCoworkerDraftWithSupersede, OnlyDraft
<1>2. PICK w \in Coworker, chans \in SUBSET Channel, same \in SUBSET ObjId :
         /\ \A d \in same : draft[d].state # "absent"
         /\ \/ \E d \in same : Succeeded(r, [NoResult EXCEPT !.obj = d]) /\ draft' = draft
            \/ /\ draft' = [d \in ObjId |->
                    IF d = r THEN [state |-> "awaiting_review",
                                   rev |-> 1 + Cardinality({draft[e].rev : e \in same}), who |-> w,
                                   chans |-> chans, expired |-> FALSE]
                    ELSE IF Reviewable(d) THEN [draft[d] EXCEPT !.state = "superseded"]
                    ELSE draft[d]]
               /\ Succeeded(r, ResultId(r))
  <2>1. PICK b \in resolveCoworkerDraft :
          LET same  == {d \in ObjId : /\ draft[d].state # "absent"
                                      /\ draft[d].who = b.who /\ draft[d].chans = b.chans}
              first == {d \in same : draft[d].rev = 1 /\ Reviewable(d)}
              rev   == 1 + Cardinality({draft[d].rev : d \in same})
          IN  IF first # {}
              THEN \E d \in first : Succeeded(r, [NoResult EXCEPT !.obj = d]) /\ UNCHANGED draft
              ELSE /\ draft' = [d \in ObjId |->
                         IF d = r THEN [state |-> "awaiting_review", rev |-> rev, who |-> b.who,
                                        chans |-> b.chans, expired |-> FALSE]
                         ELSE IF Reviewable(d) THEN [draft[d] EXCEPT !.state = "superseded"]
                         ELSE draft[d]]
                   /\ Succeeded(r, ResultId(r))
      BY Zenon DEF insertCoworkerDraftWithSupersede
  <2>2. PICK w \in Coworker, chans \in SUBSET Channel : w = b.who /\ chans = b.chans
    <3>1. b.who \in Coworker /\ b.chans \in SUBSET Channel
        BY DEF resolveCoworkerDraft
    <3> QED BY <3>1
  <2>3. PICK same \in SUBSET ObjId :
            same = {d \in ObjId : draft[d].state # "absent" /\ draft[d].who = w /\ draft[d].chans = chans}
      OBVIOUS
  <2>4. PICK first \in SUBSET same : first = {d \in same : draft[d].rev = 1 /\ Reviewable(d)}
      OBVIOUS
  <2>5. IF first # {}
        THEN \E d \in first : Succeeded(r, [NoResult EXCEPT !.obj = d]) /\ draft' = draft
        ELSE /\ draft' = [d \in ObjId |->
                    IF d = r THEN [state |-> "awaiting_review",
                                   rev |-> 1 + Cardinality({draft[e].rev : e \in same}), who |-> w,
                                   chans |-> chans, expired |-> FALSE]
                    ELSE IF Reviewable(d) THEN [draft[d] EXCEPT !.state = "superseded"]
                    ELSE draft[d]]
             /\ Succeeded(r, ResultId(r))
      BY <2>1, <2>2, <2>3, <2>4, ZenonT(60)
  <2>6. \A d \in same : draft[d].state # "absent"
      BY <2>3
  <2>7. CASE first # {}
      BY <2>5, <2>6, <2>7
  <2>8. CASE first = {}
      BY <2>5, <2>6, <2>8, Zenon
  <2> QED BY <2>7, <2>8
<1>3. CASE \E d \in same : Succeeded(r, [NoResult EXCEPT !.obj = d]) /\ draft' = draft
  <2>1. PICK d \in ObjId : /\ draft[d].state # "absent" /\ draft' = draft
                           /\ Succeeded(r, [NoResult EXCEPT !.obj = d])
      BY <1>2, <1>3
  <2>2. PICK res \in Result : res = [NoResult EXCEPT !.obj = d]
      BY DEF Result, NoResult
  <2>3. Turns(r) /\ Succeeds(req[r], req'[r], res) /\ Fits(req'[r]) /\ Runs(req[r], req'[r])
      BY <1>1, <2>1, <2>2, SucceedingRow
  <2>4. StepOf(r)
      BY <1>1, <2>1, <2>3, Typed, WritingStepFits
  <2> QED BY <1>1, <2>1, <2>2, <2>3, <2>4 DEF FindsDraft
<1>4. CASE /\ draft' = [d \in ObjId |->
                    IF d = r THEN [state |-> "awaiting_review",
                                   rev |-> 1 + Cardinality({draft[e].rev : e \in same}), who |-> w,
                                   chans |-> chans, expired |-> FALSE]
                    ELSE IF Reviewable(d) THEN [draft[d] EXCEPT !.state = "superseded"]
                    ELSE draft[d]]
           /\ Succeeded(r, ResultId(r))
  <2>0. PICK k \in Nat : k = Cardinality({draft[e].rev : e \in same})
      BY RevisionsCounted, Zenon
  <2>1. PICK n \in Nat : n = 1 + k
      OBVIOUS
  <2>2. Turns(r) /\ Succeeds(req[r], req'[r], ResultId(r)) /\ Fits(req'[r]) /\ Runs(req[r], req'[r])
      BY <1>1, <1>4, StandsAt, SucceedingRow
  <2>3. r \in ObjId /\ draft \in [ObjId -> DraftRow]
      BY StandsAt, Typed
  <2>4. ASSUME NEW d \in ObjId
        PROVE  /\ draft'[d] \in DraftRow
               /\ d = r => draft'[d].state = "awaiting_review"
               /\ d # r => /\ draft'[d].who = draft[d].who
                           /\ \/ draft'[d].state = draft[d].state
                              \/ Reviewable(d) /\ draft'[d].state = "superseded"
    <3>1. PICK row \in DraftRow : row = draft[d]
        BY <2>3
    <3>2. draft'[d] = IF d = r THEN [state |-> "awaiting_review", rev |-> n, who |-> w,
                                     chans |-> chans, expired |-> FALSE]
                      ELSE IF Reviewable(d) THEN [row EXCEPT !.state = "superseded"] ELSE row
      <4>1. draft'[d] = IF d = r THEN [state |-> "awaiting_review", rev |-> 1 + k, who |-> w,
                                       chans |-> chans, expired |-> FALSE]
                        ELSE IF Reviewable(d) THEN [row EXCEPT !.state = "superseded"] ELSE row
          BY <1>4, <2>0, <3>1, Zenon
      <4> QED BY <2>1, <4>1
    <3>3. CASE d = r
      <4>1. draft'[d] = [state |-> "awaiting_review", rev |-> n, who |-> w,
                         chans |-> chans, expired |-> FALSE]
          BY <3>2, <3>3
      <4> QED BY <3>3, <4>1 DEF DraftRow, DraftState
    <3>4. CASE d # r /\ Reviewable(d)
      <4>1. draft'[d] = [row EXCEPT !.state = "superseded"]
          BY <3>2, <3>4
      <4> QED BY <3>1, <3>4, <4>1 DEF DraftRow, DraftState
    <3>5. CASE d # r /\ ~Reviewable(d)
        BY <3>1, <3>2, <3>5
    <3> QED BY <3>3, <3>4, <3>5
  <2>5. draft' \in [ObjId -> DraftRow]
    <3>1. draft' = [d \in ObjId |-> draft'[d]]
        BY <1>4
    <3> QED BY <2>4, <3>1
  <2>6. InsertsDraft(r)
      BY <2>3, <2>4 DEF InsertsDraft
  <2>7. StepOf(r)
      BY <1>1, <2>2, <2>5, Typed, WritingStepFits
  <2> QED BY <1>1, <2>2, <2>6, <2>7
<1> QED BY <1>2, <1>3, <1>4

\* The reading of a draft that is to be revised or rejected.
LEMMA ReadDraftStep ==
    ASSUME WInv, NEW r \in Request, ReadDraft(r)
    PROVE  /\ StepOf(r) /\ UNCHANGED <<tables, lock, mix>> /\ req[r].pc = "run"
           /\ req[r].kind \in {"coworker.draft.revise", "coworker.draft.reject"}
           /\ req'[r].pc \in {"write", "fail"} /\ req'[r].ch = req[r].ch
           /\ req'[r].ans = req[r].ans /\ req'[r].res = req[r].res /\ req'[r].left = req[r].left
<1>1. /\ req[r].pc = "run" /\ UNCHANGED <<tables, lock, mix>>
      /\ req[r].kind \in {"coworker.draft.revise", "coworker.draft.reject"}
      /\ \/ req' = [req EXCEPT ![r].pc = "write", ![r].seen.draft = draft[req[r].obj]]
         \/ Goto(r, "fail")
    BY DEF ReadDraft
<1>2. CASE Goto(r, "fail")
  <2>1. Turns(r) /\ Goes(req[r], req'[r], "fail") /\ Fits(req'[r]) /\ Runs(req[r], req'[r])
      BY <1>1, <1>2, FailingRow
  <2> QED BY <1>1, <2>1, ReadingStepFits DEF Goes
<1>3. CASE req' = [req EXCEPT ![r].pc = "write", ![r].seen.draft = draft[req[r].obj]]
  <2>1. PICK q \in ReqRow : q = req[r] /\ Fits(q)
      BY StandsAt
  <2>2. PICK cur \in DraftRow : cur = draft[q.obj]
      BY <1>1, <2>1, Typed DEF Fits, OnObject
  <2> DEFINE p == [q EXCEPT !.pc = "write", !.seen.draft = cur]
  <2>3. p \in ReqRow
      BY ZenonT(60) DEF ReqRow, PC
  <2>4. /\ SameCommand(q, p) /\ p.ch = q.ch /\ p.pc = "write" /\ p.ans = q.ans /\ p.res = q.res
        /\ p.left = q.left
      BY DEF ReqRow, SameCommand
  <2>5. req' = [req EXCEPT ![r] = p]
      BY <1>3, <2>1, <2>2
  <2> HIDE DEF p
  <2>6. Turns(r) /\ req'[r] = p
      BY <2>3, <2>5, Typed, Replaces, Zenon
  <2>7. Fits(p) /\ Runs(q, p)
      BY <1>1, <2>1, <2>4 DEF Fits, Runs, SameCommand, Late, OnCoworker, OnObject, Pins
  <2> QED BY <1>1, <2>1, <2>4, <2>6, <2>7, ReadingStepFits
<1> QED BY <1>1, <1>2, <1>3

\* A draft is rejected, or superseded by its revision.
LEMMA MoveDraftStep ==
    ASSUME WInv, NEW r \in Request, RejectDraft(r) \/ SupersedeRevised(r)
    PROVE  /\ StepOf(r) /\ UNCHANGED <<chan, part, cow, csess, msg, task, pin, receipt, lock, mix>>
           /\ req[r].pc = "write"
           /\ \/ /\ req[r].kind = "coworker.draft.reject" /\ DraftMoved(req[r].obj, "rejected")
                 /\ Succeeds(req[r], req'[r], ResultId(r))
              \/ /\ req[r].kind = "coworker.draft.revise" /\ DraftMoved(req[r].obj, "superseded")
                 /\ Goes(req[r], req'[r], "fanout")
<1>1. /\ req[r].pc = "write"
      /\ UNCHANGED <<chan, part, cow, csess, msg, task, pin, receipt, lock, mix>>
      /\ \/ /\ req[r].kind = "coworker.draft.reject" /\ Succeeded(r, ResultId(r))
            /\ draft' = updateCoworkerDraftState(req[r].obj, "rejected")
         \/ /\ req[r].kind = "coworker.draft.revise" /\ Goto(r, "fanout")
            /\ draft' = updateCoworkerDraftState(req[r].obj, "superseded")
    BY DEF RejectDraft, SupersedeRevised, OnlyDraft
<1>2. req[r].obj \in ObjId
    BY <1>1, StandsAt DEF Fits, OnObject
<1>3. CASE /\ req[r].kind = "coworker.draft.reject" /\ Succeeded(r, ResultId(r))
           /\ draft' = updateCoworkerDraftState(req[r].obj, "rejected")
  <2>1. Turns(r) /\ Succeeds(req[r], req'[r], ResultId(r)) /\ Fits(req'[r]) /\ Runs(req[r], req'[r])
      BY <1>1, <1>3, StandsAt, SucceedingRow
  <2>2. draft' \in [ObjId -> DraftRow] /\ DraftMoved(req[r].obj, "rejected")
    <3>1. "rejected" \in DraftState
        BY DEF DraftState
    <3> QED BY <1>2, <1>3, <3>1, Typed, DraftStateWritten
  <2>3. StepOf(r)
      BY <1>1, <2>1, <2>2, Typed, WritingStepFits
  <2> QED BY <1>1, <1>3, <2>1, <2>2, <2>3
<1>4. CASE /\ req[r].kind = "coworker.draft.revise" /\ Goto(r, "fanout")
           /\ draft' = updateCoworkerDraftState(req[r].obj, "superseded")
  <2>1. Turns(r) /\ Goes(req[r], req'[r], "fanout")
      BY <1>4, Typed, GotoRow DEF PC
  <2>2. Fits(req'[r]) /\ Runs(req[r], req'[r])
      BY <1>1, <1>4, <2>1, StandsAt DEF Fits, Runs, Goes, SameCommand, Late, OnCoworker, OnObject, Pins
  <2>3. draft' \in [ObjId -> DraftRow] /\ DraftMoved(req[r].obj, "superseded")
    <3>1. "superseded" \in DraftState
        BY DEF DraftState
    <3> QED BY <1>2, <1>4, <3>1, Typed, DraftStateWritten
  <2>4. StepOf(r)
      BY <1>1, <2>1, <2>2, <2>3, Typed, WritingStepFits
  <2> QED BY <1>1, <1>4, <2>1, <2>3, <2>4
<1> QED BY <1>1, <1>3, <1>4

\* A revision is inserted, unless an equal draft has its number.
LEMMA InsertRevisionStep ==
    ASSUME WInv, NEW r \in Request, insertResolvedDraft(r)
    PROVE  /\ StepOf(r) /\ UNCHANGED <<chan, part, cow, csess, msg, task, pin, receipt, lock, mix>>
           /\ req[r].pc = "fanout" /\ req[r].kind = "coworker.draft.revise"
           /\ \/ InsertsDraft(r) /\ Succeeds(req[r], req'[r], [NoResult EXCEPT !.obj = r])
              \/ draft' = draft /\ Goes(req[r], req'[r], "fail")
<1>1. /\ req[r].pc = "fanout" /\ req[r].kind = "coworker.draft.revise"
      /\ UNCHANGED <<chan, part, cow, csess, msg, task, pin, receipt, lock, mix>>
    BY DEF insertResolvedDraft, OnlyDraft
<1>2. PICK rev \in Nat : rev = req[r].seen.draft.rev + 1
  <2>1. req[r].seen.draft \in DraftRow
      BY StandsAt, RowFields
  <2> QED BY <2>1 DEF DraftRow
<1>3. \/ Goto(r, "fail") /\ draft' = draft
      \/ \E w \in Coworker, chans \in SUBSET Channel :
            /\ draft' = [draft EXCEPT ![r] = [state |-> "awaiting_review", rev |-> rev, who |-> w,
                                              chans |-> chans, expired |-> FALSE]]
            /\ Succeeded(r, [NoResult EXCEPT !.obj = r])
  <2>1. PICK b \in resolveCoworkerDraft :
          \/ Goto(r, "fail") /\ draft' = draft
          \/ /\ draft' = [draft EXCEPT ![r] = [state |-> "awaiting_review", rev |-> rev,
                                               who |-> b.who, chans |-> b.chans, expired |-> FALSE]]
             /\ Succeeded(r, [NoResult EXCEPT !.obj = r])
      BY <1>2 DEF insertResolvedDraft
  <2>2. b.who \in Coworker /\ b.chans \in SUBSET Channel
      BY DEF resolveCoworkerDraft
  <2> QED BY <2>1, <2>2
<1>4. CASE Goto(r, "fail") /\ draft' = draft
  <2>1. Turns(r) /\ Goes(req[r], req'[r], "fail") /\ Fits(req'[r]) /\ Runs(req[r], req'[r])
      BY <1>1, <1>4, FailingRow
  <2>2. StepOf(r)
      BY <1>1, <1>4, <2>1, Typed, WritingStepFits
  <2> QED BY <1>1, <1>4, <2>1, <2>2
<1>5. ASSUME NEW w \in Coworker, NEW chans \in SUBSET Channel,
             draft' = [draft EXCEPT ![r] = [state |-> "awaiting_review", rev |-> rev, who |-> w,
                                            chans |-> chans, expired |-> FALSE]],
             Succeeded(r, [NoResult EXCEPT !.obj = r])
      PROVE  StepOf(r) /\ InsertsDraft(r) /\ Succeeds(req[r], req'[r], [NoResult EXCEPT !.obj = r])
  <2>1. PICK res \in Result : res = [NoResult EXCEPT !.obj = r]
    <3>1. r \in ObjId
        BY StandsAt
    <3> QED BY <3>1 DEF Result, NoResult
  <2>2. Turns(r) /\ Succeeds(req[r], req'[r], res) /\ Fits(req'[r]) /\ Runs(req[r], req'[r])
      BY <1>1, <1>5, <2>1, SucceedingRow
  <2> DEFINE new == [state |-> "awaiting_review", rev |-> rev, who |-> w, chans |-> chans, expired |-> FALSE]
  <2>3. new \in DraftRow /\ new.state = "awaiting_review"
      BY DEF DraftRow, DraftState
  <2>4. draft' = [draft EXCEPT ![r] = new]
      BY <1>5
  <2> HIDE DEF new
  <2>5. draft' \in [ObjId -> DraftRow] /\ InsertsDraft(r)
      BY <2>3, <2>4, StandsAt, Typed DEF InsertsDraft
  <2>6. StepOf(r)
      BY <1>1, <2>2, <2>5, Typed, WritingStepFits
  <2> QED BY <2>1, <2>2, <2>5, <2>6
<1> QED BY <1>1, <1>3, <1>4, <1>5

\* A request goes on to provision the channels of the coworker it confirmed.
ConfirmedAs(r, row) ==
    LET q == req[r] p == req'[r] IN
    /\ SameCommand(q, p) /\ p.ch = q.ch /\ p.ans = q.ans /\ p.res = ResultId(r)
    /\ p.left = row.chans /\ p.seen.cow = row
    /\ p.pc = IF row.chans = {} THEN "finish" ELSE "run"

Confirmation(r, row) ==
    [req EXCEPT ![r].seen.cow = row, ![r].left = row.chans, ![r].res = ResultId(r),
                ![r].pc = IF row.chans = {} THEN "finish" ELSE "run"]

\* The row of a request that has confirmed its draft.
LEMMA ConfirmedRow ==
    ASSUME WInv, NEW r \in Request, NEW row \in CowRow,
           req[r].pc = "run", req[r].kind = "coworker.draft.confirm",
           req' = Confirmation(r, row)
    PROVE  Turns(r) /\ ConfirmedAs(r, row) /\ Fits(req'[r]) /\ Runs(req[r], req'[r])
<1>1. PICK q \in ReqRow : q = req[r] /\ Fits(q)
    BY StandsAt
<1>2. PICK res \in Result : res = ResultId(r)
    BY StandsAt
<1>3. PICK pc \in {"finish", "run"} : pc = IF row.chans = {} THEN "finish" ELSE "run"
    OBVIOUS
<1>4. PICK left \in SUBSET Channel : left = row.chans
    BY DEF CowRow
<1> DEFINE p == [q EXCEPT !.seen.cow = row, !.left = left, !.res = res, !.pc = pc]
<1>5. p \in ReqRow
    BY ZenonT(60) DEF ReqRow, PC
<1>6. /\ SameCommand(q, p) /\ p.ch = q.ch /\ p.ans = q.ans /\ p.res = res
      /\ p.left = left /\ p.seen.cow = row /\ p.pc = pc
    BY DEF ReqRow, SameCommand
<1>7. req' = [req EXCEPT ![r] = p]
    BY <1>1, <1>2, <1>3, <1>4 DEF Confirmation
<1> HIDE DEF p
<1>8. Turns(r) /\ req'[r] = p
    BY <1>5, <1>7, Typed, Replaces, Zenon
<1>9. ConfirmedAs(r, row)
    BY <1>1, <1>2, <1>3, <1>4, <1>6, <1>8 DEF ConfirmedAs
<1>10. Fits(p) /\ Runs(q, p)
    BY <1>1, <1>3, <1>6 DEF Fits, Runs, SameCommand, Late, OnCoworker, OnObject, Pins
<1> QED BY <1>1, <1>8, <1>9, <1>10

\* A confirmation makes the coworker of its draft, with its memberships.
MakesCoworker(r) ==
    LET q == req[r] IN
    /\ cow[q.w].status = "absent" /\ OnlyCoworker(q.w)
    /\ cow'[q.w].status = "active" /\ cow'[q.w].chans = draft[q.obj].chans
    /\ MembersAfter(q.w) = Members(q.w) \cup draft[q.obj].chans
    /\ draft[q.obj].state = "awaiting_review"
    /\ DraftMoved(q.obj, "ready") /\ ConfirmedAs(r, cow'[q.w])

\* A confirmation of a draft.
LEMMA ConfirmStep ==
    ASSUME WInv, NEW r \in Request, provisionCoworkerFromDraft(r)
    PROVE  /\ StepOf(r) /\ UNCHANGED <<chan, csess, msg, task, pin, receipt, lock, mix>>
           /\ req[r].pc = "run" /\ req[r].kind = "coworker.draft.confirm" /\ req[r].left = {}
           /\ \/ MakesCoworker(r)
              \/ /\ UNCHANGED <<draft, cow, part>> /\ cow[req[r].w].status # "absent"
                 /\ draft[req[r].obj].state = "ready" /\ ConfirmedAs(r, cow[req[r].w])
              \/ /\ UNCHANGED <<cow, part>> /\ Goes(req[r], req'[r], "fail")
                 /\ draft' = draft \/ (Reviewable(req[r].obj) /\ DraftMoved(req[r].obj, "expired"))
<1>1. PICK q \in ReqRow : q = req[r] /\ Fits(q)
    BY StandsAt
<1>2. /\ q.pc = "run" /\ q.kind = "coworker.draft.confirm" /\ q.left = {}
      /\ UNCHANGED <<chan, csess, msg, task, pin, receipt, lock, mix>>
    BY <1>1 DEF provisionCoworkerFromDraft
<1>3. q.w \in Coworker /\ q.obj \in ObjId
    BY <1>1, <1>2 DEF Fits, OnCoworker, OnObject
<1>4. PICK d \in DraftRow, row \in CowRow : d = draft[q.obj] /\ row = cow[q.w]
    BY <1>3, Typed
<1>5. PICK chans \in SUBSET Channel : chans = d.chans
    BY DEF DraftRow
<1> DEFINE made == [status |-> "active", rev |-> 1, spec |-> 1, chans |-> chans, grants |-> {}]
<1>6. made \in CowRow /\ made.status = "active" /\ made.chans = chans
    BY DEF CowRow
<1>7. \/ /\ draft' = [draft EXCEPT ![q.obj].state = IF @ = "awaiting_review" THEN "expired" ELSE @]
         /\ Goto(r, "fail") /\ UNCHANGED <<cow, part>>
      \/ row.status # "absent" /\ d.state = "ready" /\ req' = Confirmation(r, row) /\ UNCHANGED <<draft, cow, part>>
      \/ /\ row.status = "absent" /\ d.state = "awaiting_review"
         /\ cow' = [cow EXCEPT ![q.w] = made]
         /\ part' = [c \in Channel |-> [part[c] EXCEPT ![q.w] = IF c \in chans THEN "member" ELSE @]]
         /\ draft' = updateCoworkerDraftState(q.obj, "ready")
         /\ req' = Confirmation(r, made)
      \/ Goto(r, "fail") /\ UNCHANGED <<draft, cow, part>>
    BY <1>1, <1>4, <1>5 DEF provisionCoworkerFromDraft, Confirmation
<1> HIDE DEF made
<1>8. CASE Goto(r, "fail") /\ UNCHANGED <<draft, cow, part>>
  <2>1. Turns(r) /\ Goes(q, req'[r], "fail") /\ Fits(req'[r]) /\ Runs(q, req'[r])
      BY <1>1, <1>2, <1>8, FailingRow
  <2>2. StepOf(r)
      BY <1>1, <1>2, <1>8, <2>1, Typed, WritingStepFits
  <2> QED BY <1>1, <1>2, <1>8, <2>1, <2>2
<1>9. CASE /\ draft' = [draft EXCEPT ![q.obj].state = IF @ = "awaiting_review" THEN "expired" ELSE @]
           /\ Goto(r, "fail") /\ UNCHANGED <<cow, part>>
  <2>1. Turns(r) /\ Goes(q, req'[r], "fail") /\ Fits(req'[r]) /\ Runs(q, req'[r])
      BY <1>1, <1>2, <1>9, FailingRow
  <2>2. CASE d.state = "awaiting_review"
    <3>1. draft' = updateCoworkerDraftState(q.obj, "expired")
        BY <1>4, <1>9, <2>2 DEF updateCoworkerDraftState
    <3>2. "expired" \in DraftState
        BY DEF DraftState
    <3>3. draft' \in [ObjId -> DraftRow] /\ DraftMoved(q.obj, "expired")
        BY <1>3, <3>1, <3>2, Typed, DraftStateWritten
    <3>4. StepOf(r)
        BY <1>1, <1>2, <1>9, <2>1, <3>3, Typed, WritingStepFits
    <3> QED BY <1>1, <1>2, <1>4, <1>9, <2>1, <2>2, <3>3, <3>4 DEF Reviewable
  <2>3. CASE d.state # "awaiting_review"
    <3>1. draft' = [draft EXCEPT ![q.obj].state = d.state]
        BY <1>4, <1>9, <2>3
    <3>2. [d EXCEPT !.state = d.state] = d
        BY DEF DraftRow
    <3>3. draft' = [draft EXCEPT ![q.obj] = d]
        BY <1>4, <3>1, <3>2
    <3>4. draft' = draft
        BY <1>3, <1>4, <3>3, Typed
    <3>5. StepOf(r)
        BY <1>1, <1>2, <1>9, <2>1, <3>4, Typed, WritingStepFits
    <3> QED BY <1>1, <1>2, <1>9, <2>1, <3>4, <3>5
  <2> QED BY <2>2, <2>3
<1>10. CASE row.status # "absent" /\ d.state = "ready" /\ req' = Confirmation(r, row) /\ UNCHANGED <<draft, cow, part>>
  <2>1. Turns(r) /\ ConfirmedAs(r, row) /\ Fits(req'[r]) /\ Runs(q, req'[r])
      BY <1>1, <1>2, <1>10, ConfirmedRow
  <2>2. StepOf(r)
      BY <1>1, <1>2, <1>10, <2>1, Typed, WritingStepFits
  <2> QED BY <1>1, <1>2, <1>4, <1>10, <2>1, <2>2
<1>11. CASE /\ row.status = "absent" /\ d.state = "awaiting_review"
            /\ cow' = [cow EXCEPT ![q.w] = made]
            /\ part' = [c \in Channel |-> [part[c] EXCEPT ![q.w] = IF c \in chans THEN "member" ELSE @]]
            /\ draft' = updateCoworkerDraftState(q.obj, "ready")
            /\ req' = Confirmation(r, made)
  <2>1. Turns(r) /\ ConfirmedAs(r, made) /\ Fits(req'[r]) /\ Runs(q, req'[r])
      BY <1>1, <1>2, <1>6, <1>11, ConfirmedRow
  <2>2. /\ cow' \in [Coworker -> CowRow] /\ cow'[q.w] = made
        /\ \A v \in Coworker \ {q.w} : cow'[v] = cow[v]
      BY <1>3, <1>6, <1>11, Typed
  <2>3. ASSUME NEW c \in Channel, NEW v \in Coworker
        PROVE  part'[c][v] = IF v = q.w /\ c \in chans THEN "member" ELSE part[c][v]
      BY <1>3, <1>11, Typed
  <2>4. part' \in [Channel -> [Coworker -> PartState]]
    <3>1. ASSUME NEW c \in Channel PROVE part'[c] \in [Coworker -> PartState]
      <4>1. part'[c] = [part[c] EXCEPT ![q.w] = IF c \in chans THEN "member" ELSE @]
          BY <1>11
      <4>2. "member" \in PartState /\ part[c] \in [Coworker -> PartState]
          BY Typed DEF PartState
      <4> QED BY <4>1, <4>2
    <3>2. part' = [c \in Channel |-> part'[c]]
        BY <1>11
    <3> QED BY <3>1, <3>2
  <2>5. draft' \in [ObjId -> DraftRow] /\ DraftMoved(q.obj, "ready")
    <3>1. "ready" \in DraftState
        BY DEF DraftState
    <3> QED BY <1>3, <1>11, <3>1, Typed, DraftStateWritten
  <2>6. OnlyCoworker(q.w) /\ MembersAfter(q.w) = Members(q.w) \cup chans
      BY <1>3, <2>2, <2>3 DEF OnlyCoworker, Members, MembersAfter
  <2>7. MakesCoworker(r)
      BY <1>1, <1>4, <1>5, <1>6, <1>11, <2>1, <2>2, <2>5, <2>6 DEF MakesCoworker
  <2>8. StepOf(r)
      BY <1>1, <1>2, <2>1, <2>2, <2>4, <2>5, Typed, WritingStepFits
  <2> QED BY <1>1, <1>2, <2>7, <2>8
<1> QED BY <1>7, <1>8, <1>9, <1>10, <1>11

\* A confirmation that could not provision a session marks its draft.
LEMMA FailedProvisioningStep ==
    ASSUME WInv, NEW r \in Request, FailedProvisioning(r)
    PROVE  /\ StepOf(r) /\ UNCHANGED <<chan, part, cow, csess, msg, task, pin, receipt, lock, mix>>
           /\ req[r].pc = "fail" /\ req[r].kind = "coworker.draft.confirm"
           /\ req'[r].pc = "fail" /\ req'[r].left = {} /\ req'[r].ch = req[r].ch
           /\ req'[r].ans = req[r].ans /\ req'[r].res = req[r].res
           /\ DraftMoved(req[r].obj, "failed_provisioning")
<1>1. PICK q \in ReqRow : q = req[r] /\ Fits(q)
    BY StandsAt
<1>2. /\ q.pc = "fail" /\ q.kind = "coworker.draft.confirm" /\ q.obj \in ObjId
      /\ UNCHANGED <<chan, part, cow, csess, msg, task, pin, receipt, lock, mix>>
      /\ draft' = updateCoworkerDraftState(q.obj, "failed_provisioning")
      /\ req' = [req EXCEPT ![r].left = {}]
    BY <1>1 DEF FailedProvisioning, OnlyDraft, Fits, OnObject
<1> DEFINE p == [q EXCEPT !.left = {}]
<1>3. p \in ReqRow
    BY DEF ReqRow
<1>4. /\ SameCommand(q, p) /\ p.ch = q.ch /\ p.ans = q.ans /\ p.res = q.res /\ p.left = {}
      /\ p.pc = q.pc
    BY DEF ReqRow, SameCommand
<1>5. req' = [req EXCEPT ![r] = p]
    BY <1>1, <1>2
<1> HIDE DEF p
<1>6. Turns(r) /\ req'[r] = p
    BY <1>3, <1>5, Typed, Replaces, Zenon
<1>7. Fits(p) /\ Runs(q, p)
    BY <1>1, <1>2, <1>4 DEF Fits, Runs, SameCommand, Late, OnCoworker, OnObject, Pins
<1>8. draft' \in [ObjId -> DraftRow] /\ DraftMoved(q.obj, "failed_provisioning")
  <2>1. "failed_provisioning" \in DraftState
      BY DEF DraftState
  <2> QED BY <1>2, <2>1, Typed, DraftStateWritten
<1>9. StepOf(r)
    BY <1>1, <1>2, <1>6, <1>7, <1>8, Typed, WritingStepFits
<1> QED BY <1>1, <1>2, <1>4, <1>6, <1>8, <1>9

\* A draft's review date passes.
LEMMA DraftExpiresStep ==
    ASSUME WInv, NEW d \in ObjId, DraftExpires(d)
    PROVE  /\ WInv' /\ UNCHANGED <<chan, part, cow, csess, msg, task, pin, receipt, req, lock, mix>>
           /\ \A o \in ObjId : draft'[o].state = draft[o].state /\ draft'[o].who = draft[o].who
<1>1. PICK row \in DraftRow : row = draft[d]
    BY Typed
<1> DEFINE new == [row EXCEPT !.expired = TRUE]
<1>2. new \in DraftRow /\ new.state = row.state /\ new.who = row.who
    BY DEF DraftRow
<1>3. draft' = [draft EXCEPT ![d] = new]
    BY <1>1 DEF DraftExpires
<1> HIDE DEF new
<1>4. UNCHANGED <<chan, part, cow, csess, msg, task, pin, receipt, req, lock, mix>>
    BY DEF DraftExpires
<1>5. draft' \in [ObjId -> DraftRow]
    BY <1>2, <1>3, Typed
<1>6. \A o \in ObjId : draft'[o].state = draft[o].state /\ draft'[o].who = draft[o].who
    BY <1>1, <1>2, <1>3, Typed
<1>7. WInv'
    BY <1>4, <1>5 DEF WInv, TablesOK, RequestsOK
<1> QED BY <1>4, <1>6, <1>7

\* The lease of a receipt is not renewed in time, or is renewed after all.
Lapses(kind, key) ==
    /\ WInv' /\ OthersKept(kind, key) /\ kind \in CommandKind /\ key \in Key
    /\ getCommandReceipt(kind, key) # NoReceipt
    /\ UNCHANGED <<chan, part, cow, csess, msg, task, pin, draft, req, lock, mix>>
    /\ \E stale \in BOOLEAN :
          /\ ReceiptAfter(kind, key) = StaleRow(getCommandReceipt(kind, key), stale)
          /\ stale => ~Live(getCommandReceipt(kind, key).owner) \/ mix.slow

\* A lease that lapses changes that column of that receipt.
LEMMA LeaseLapsesStep ==
    ASSUME WInv, NEW kind, NEW key, LeaseLapses(kind, key)
    PROVE  Lapses(kind, key)
<1>1. /\ getCommandReceipt(kind, key) # NoReceipt
      /\ ~Live(getCommandReceipt(kind, key).owner) \/ mix.slow
      /\ receipt' = MarkedStale(kind, key, TRUE)
      /\ UNCHANGED <<chan, part, cow, csess, msg, task, pin, draft, req, lock, mix>>
    BY DEF LeaseLapses, MarkedStale
<1>2. /\ WInv' /\ OthersKept(kind, key) /\ kind \in CommandKind /\ key \in Key
      /\ ReceiptAfter(kind, key) = StaleRow(getCommandReceipt(kind, key), TRUE)
    BY <1>1, StaleStep
<1> QED BY <1>1, <1>2 DEF Lapses

\* An owner that touches its lease changes that column of its receipt.
LEMMA TouchStep ==
    ASSUME WInv, NEW r \in Request, touchCommandReceipt(r)
    PROVE  Lapses(req[r].kind, req[r].key)
<1>1. /\ HoldsReceipt(req[r].kind, req[r].key, r)
      /\ receipt' = MarkedStale(req[r].kind, req[r].key, FALSE)
      /\ UNCHANGED <<chan, part, cow, csess, msg, task, pin, draft, req, lock, mix>>
    BY DEF touchCommandReceipt, MarkedStale
<1>2. getCommandReceipt(req[r].kind, req[r].key) # NoReceipt
    BY <1>1, Typed, HeldReceipt
<1>3. PICK kind \in CommandKind, key \in Key : kind = req[r].kind /\ key = req[r].key
    BY <1>1, Typed, HeldReceipt
<1>4. /\ WInv' /\ OthersKept(kind, key)
      /\ ReceiptAfter(kind, key) = StaleRow(getCommandReceipt(kind, key), FALSE)
    BY <1>1, <1>2, <1>3, StaleStep
<1> QED BY <1>1, <1>2, <1>3, <1>4 DEF Lapses


-----------------------------------------------------------------------------
(***************************************************************************)
(* What a step of a request does to each table, and to its own row.        *)
(***************************************************************************)

\* Statuses of channels.
ChanMoves(r) ==
    \/ StatusesKept
    \/ /\ req[r].kind = "channel.create" /\ req[r].pc = "run" /\ req'[r].pc = "finish"
       /\ StatusSet(r, "active")
    \/ /\ req[r].kind = "channel.archive" /\ chan[req[r].ch].status = "active"
       /\ StatusSet(req[r].ch, "archived")

\* A receipt of a message that is stored in the channel of the request.
NamesStored(r) == Receipt(r) # NoReceipt /\ msg[Receipt(r).res.obj].chan = req[r].ch

MsgMoves(r) ==
    \/ msg' = msg
    \/ req[r].kind = "channel.message" /\ req[r].pc = "run" /\ StoresMessage(r)
    \/ req[r].kind = "channel.message" /\ req[r].pc = "fanout" /\ msg' = CreateRun(r)
    \/ /\ req[r].kind = "channel.message" /\ NamesStored(r) /\ msg' = CreateRun(Receipt(r).res.obj)

PinMoves(r) ==
    \/ pin' = pin
    \/ req[r].kind = "channel.pin.create" /\ req[r].pc = "run" /\ PinsMessage(r)
    \/ req[r].kind = "channel.pin.remove" /\ req[r].pc = "run" /\ RemovesPin(r)

TaskMoves(r) ==
    \/ task' = task
    \/ req[r].kind = "task.create" /\ req[r].pc = "run" /\ InsertsTask(r)
    \/ req[r].kind = "task.update" /\ req[r].pc = "write" /\ UpdatesTask(r)

CowMoves(r) ==
    \/ UNCHANGED <<part, cow>>
    \/ /\ req[r].kind \in {"channel.participant.add", "channel.participant.remove"}
       /\ JoinsOrLeaves(r)
    \/ req[r].kind = "coworker.update" /\ req[r].pc = "write" /\ UpdatesCoworker(r)
    \/ req[r].kind = "coworker.disable" /\ DisablesCoworker(r)
    \/ req[r].kind = "coworker.draft.confirm" /\ MakesCoworker(r)

DraftMoves(r) ==
    \/ draft' = draft
    \/ /\ InsertsDraft(r) /\ req'[r].pc = "finish"
       /\ \/ req[r].kind = "coworker.draft.create" /\ req[r].pc = "run"
          \/ req[r].kind = "coworker.draft.revise" /\ req[r].pc = "fanout"
    \/ /\ req[r].kind \in {"coworker.draft.revise", "coworker.draft.reject", "coworker.draft.confirm"}
       /\ \/ \E state \in {"superseded", "rejected", "expired", "failed_provisioning"} :
                DraftMoved(req[r].obj, state)
          \/ DraftMoved(req[r].obj, "ready") /\ MakesCoworker(r)

SessMoves(r) == SessionsKept \/ CreatesSession(r)

\* The receipt of the command of the request.
Reclaimed(r) ==
    /\ req[r].pc = "reclaim" /\ Receipt(r).stale
    /\ Receipt(r).owner = req[r].seen.owner \/ mix.slow

ReceiptMoves(r) ==
    \/ receipt' = receipt
    \/ /\ OthersKept(req[r].kind, req[r].key)
       /\ \/ /\ req[r].pc = "claim" /\ Receipt(r) = NoReceipt /\ req'[r].pc = "run"
             /\ ReceiptAfter(req[r].kind, req[r].key) = ClaimedRow(r, ResultId(r))
          \/ /\ req[r].pc = "finish" /\ Receipt(r).owner = r /\ Receipt(r) # NoReceipt
             /\ ReceiptAfter(req[r].kind, req[r].key) = CompletedRow(Receipt(r), req[r].res.obj)
          \/ /\ req[r].pc = "rebind" /\ Receipt(r).owner = r /\ Receipt(r) # NoReceipt
             /\ ReceiptAfter(req[r].kind, req[r].key) = ReboundRow(Receipt(r), req[r].res.obj)
          \/ /\ ReceiptAfter(req[r].kind, req[r].key) = NoReceipt
             /\ \/ req[r].pc = "fail" /\ Receipt(r).owner = r /\ ~retainReceiptOnError(r)
                \/ Reclaimed(r)

\* A request that finds its key taken is answered with a row: of the receipt, or reloaded.
ReplaysOk(r) ==
    LET q == req[r] p == req'[r] IN
    /\ q.pc \in {"replay", "reload"} /\ Receipt(r) # NoReceipt /\ receipt' = receipt
    /\ \/ /\ q.kind = "channel.message" /\ NamesStored(r)
          /\ msg' = CreateRun(Receipt(r).res.obj) /\ p.res = Receipt(r).res
       \/ /\ q.kind \in CachesResult /\ Receipt(r).done /\ UNCHANGED tables
          /\ p.res = [Receipt(r).res EXCEPT !.obj = Receipt(r).json]
       \/ /\ UNCHANGED tables /\ ~(Receipt(r).done /\ q.kind \in CachesResult)
          /\ \/ q.kind = "channel.create" /\ p.res \in ReloadedChannel(r)
             \/ q.kind \in Pins /\ ~ChannelMismatch(r) /\ p.res \in ReloadedPin(r)
             \/ q.kind = "task.create" /\ p.res \in ReloadedTask(r)
             \/ /\ q.kind \in {"coworker.draft.create", "coworker.draft.confirm"}
                /\ p.res \in ReloadedDraft(r)

\* Commands whose answers name nothing that could be missing.
Plain == {"channel.update", "channel.archive", "channel.participant.add",
          "channel.participant.remove", "task.update", "coworker.update", "coworker.disable",
          "coworker.draft.revise", "coworker.draft.reject"}

AnswersOk(r) ==
    LET q == req[r] p == req'[r] IN
    \/ q.kind \in Plain
    \/ /\ q.pc = "finish" /\ q.kind \notin Pins /\ p.res = q.res
       /\ Receipt(r).owner = r /\ Receipt(r) # NoReceipt /\ OnlyReceipts
       /\ ReceiptAfter(q.kind, q.key) = CompletedRow(Receipt(r), q.res.obj)
    \/ q.pc = "rebind" /\ p.res = q.res /\ OnlyReceipts
    \/ ReplaysOk(r)

\* A command has made what it makes.
Finishes(r) ==
    LET q == req[r] p == req'[r] IN
    \/ q.kind \in Plain
    \/ /\ q.kind = "channel.create" /\ q.pc = "run" /\ StatusSet(r, "active")
       /\ p.res = ResultId(r)
    \/ /\ q.kind = "channel.message" /\ q.pc = "fanout" /\ msg' = CreateRun(r)
       /\ p.res = ResultId(r)
    \/ q.kind = "task.create" /\ q.pc = "run" /\ InsertsTask(r)
    \/ q.kind = "channel.pin.create" /\ PinsMessage(r)
    \/ q.kind = "channel.pin.remove" /\ RemovesPin(r)
    \/ /\ q.kind = "coworker.draft.create" /\ q.pc = "run"
       /\ \/ draft' = draft /\ FindsDraft(r)
          \/ InsertsDraft(r) /\ p.res = ResultId(r)
    \/ q.kind = "coworker.draft.confirm"

\* A request whose receipt has lapsed finds nothing to reload.
FindsNothing(r) ==
    /\ Receipt(r).stale /\ UNCHANGED tables
    /\ Reclaims(req[r], req'[r], Receipt(r).owner)
    /\ req[r].kind = "channel.message" =>
          mix.slow \/ (msg[Receipt(r).res.obj].chan # req[r].ch /\ ~ChannelMismatch(r))
    /\ req[r].kind \in Inserts \ {"channel.message"} => ~Receipt(r).done
    /\ req[r].kind = "channel.create" => ReloadedChannel(r) = {}
    /\ req[r].kind = "task.create" => ReloadedTask(r) = {}
    /\ req[r].kind = "coworker.draft.create" => ReloadedDraft(r) = {}

\* A confirmation that has its coworker.
Provisioning(q) ==
    \/ q.pc \in {"provision", "persist", "finish"}
    \/ q.pc = "run" /\ q.left # {}

\* Where a command has not run yet.
Early == {"claim", "reload", "reclaim"}

Confirms(r) ==
    LET q == req[r] p == req'[r] IN
    /\ p.pc \in Early => q.pc \in Early /\ p.left = q.left
    /\ \/ ~Provisioning(p)
       \/ p.res = q.res /\ Provisioning(q)
       \/ q.pc \in Early /\ p.pc = "run" /\ p.left = q.left
       \/ p.res = ResultId(r) /\ cow'[q.w].status # "absent"

RowMoves(r) ==
    LET q == req[r] p == req'[r] IN
    /\ p.ans = "ok" => AnswersOk(r)
    /\ p.pc = "finish" => Finishes(r)
    /\ p.pc = "rebind" => q.pc = "finish" /\ p.res = q.res
    /\ p.pc = "fanout" => /\ q.pc \notin Late
                          /\ q.kind = "channel.message" => StoresMessage(r)
    /\ p.pc = "write" => /\ q.kind = "task.update" => ReadsTask(r)
                         /\ q.kind = "coworker.update" => PlansUpdate(r)
    /\ p.pc = "plan" => q.kind = "channel.message"
    /\ p.pc = "reclaim" /\ q.kind \in Inserts => FindsNothing(r)
    /\ p.pc = "run" => \/ /\ q.pc = "claim"
                          /\ ReceiptAfter(q.kind, q.key) = ClaimedRow(r, ResultId(r))
                       \/ q.kind \in {"channel.participant.add", "coworker.draft.confirm"}
    /\ p.pc = "fail" /\ q.kind \in Inserts => q.pc \in {"run", "fanout"} /\ receipt' = receipt
    /\ p.pc = "fail" /\ q.kind = "task.create" => task' = task
    /\ q.kind = "coworker.draft.confirm" => Confirms(r)

TableMoves(r) ==
    /\ ChanMoves(r) /\ MsgMoves(r) /\ PinMoves(r) /\ TaskMoves(r) /\ CowMoves(r)
    /\ DraftMoves(r) /\ SessMoves(r) /\ ReceiptMoves(r)

Moves(r) == StepOf(r) /\ TableMoves(r) /\ RowMoves(r)

\* A step that leaves the tables alone.
LEMMA StillTables ==
    ASSUME UNCHANGED tables, NEW r
    PROVE  TableMoves(r)
BY DEF tables, TableMoves, ChanMoves, MsgMoves, PinMoves, TaskMoves, CowMoves, DraftMoves,
       SessMoves, ReceiptMoves, StatusesKept, SessionsKept

\* A request that takes a step has not been answered yet.
LEMMA NotAnswered ==
    ASSUME WInv, NEW r \in Request, StepOf(r)
    PROVE  req[r].ans # "ok"
<1>1. Fits(req[r]) /\ req[r].pc \notin {"new", "done", "dead"}
    BY StandsAt DEF StepOf, Runs
<1> QED BY <1>1 DEF Fits

-----------------------------------------------------------------------------
\* What every step of a request does.

\* A step of a channel command is an arrival or one of the moves above.
LEMMA ChannelMoves ==
    ASSUME WInv, NEW r \in Request, ChannelStep(r)
    PROVE  ArrivalOf(r) \/ Moves(r)
<1>1. CASE createChannel(r)
  BY <1>1, CreateChannelArrives
<1>2. CASE updateChannel(r)
  BY <1>2, UpdateChannelArrives
<1>3. CASE archiveChannel(r)
  BY <1>3, ArchiveChannelArrives
<1>4. CASE postMessage(r)
  BY <1>4, PostMessageArrives
<1>5. CASE createPin(r)
  BY <1>5, CreatePinArrives
<1>6. CASE removePin(r)
  BY <1>6, RemovePinArrives
<1>7. CASE ReplayMessage(r)
  <2>1. StepOf(r) BY <1>7, ReplayMessageStep
  <2>2. req[r].ans # "ok" BY <2>1, NotAnswered
  <2>3. TableMoves(r) BY <1>7, ReplayMessageStep DEF TableMoves, ChanMoves, MsgMoves,
         PinMoves, TaskMoves, CowMoves, DraftMoves, SessMoves, ReceiptMoves, StatusesKept,
         SessionsKept, OnlyReceipts, Pins, NamesStored
  <2>4. RowMoves(r) BY <1>7, <2>2, ReplayMessageStep DEF RowMoves, Ends, Goes, Succeeds,
         Finishes, Plain, AnswersOk, Confirms, Provisioning, Early, Late, ReplaysOk,
         FindsNothing, NamesStored, Reclaims, Inserts, SameCommand, tables, NoReceipt
  <2> QED BY <2>1, <2>3, <2>4 DEF Moves
<1>8. CASE ReloadChannel(r)
  <2>1. StepOf(r) BY <1>8, ReloadChannelStep
  <2>2. req[r].ans # "ok" BY <2>1, NotAnswered
  <2>5. UNCHANGED tables BY <1>8, ReloadChannelStep
  <2>3. TableMoves(r) BY <2>5, StillTables
  <2>4. RowMoves(r) BY <1>8, <2>2, ReloadChannelStep DEF RowMoves, Ends, Goes, Succeeds,
         Finishes, Plain, AnswersOk, Confirms, Provisioning, Early, Late, Reloads, ReplaysOk,
         FindsNothing, CachesResult, Inserts, Reclaims, SameCommand, Pins, tables, CommandKind
  <2> QED BY <2>1, <2>3, <2>4 DEF Moves
<1>9. CASE ReloadPin(r)
  <2>1. StepOf(r) BY <1>9, ReloadPinStep
  <2>2. req[r].ans # "ok" BY <2>1, NotAnswered
  <2>5. UNCHANGED tables BY <1>9, ReloadPinStep
  <2>3. TableMoves(r) BY <2>5, StillTables
  <2>4. RowMoves(r) BY <1>9, <2>2, ReloadPinStep DEF RowMoves, Ends, Goes, Succeeds, Finishes,
         Plain, AnswersOk, Confirms, Provisioning, Early, Late, Reloads, ReplaysOk,
         FindsNothing, CachesResult, Inserts, Reclaims, SameCommand, Pins, tables
  <2> QED BY <2>1, <2>3, <2>4 DEF Moves
<1>10. CASE RunCreateChannel(r)
  <2>1. StepOf(r) BY <1>10, RunCreateChannelStep
  <2>2. req[r].ans # "ok" BY <2>1, NotAnswered
  <2>3. TableMoves(r) BY <1>10, RunCreateChannelStep DEF TableMoves, ChanMoves, MsgMoves,
         PinMoves, TaskMoves, CowMoves, DraftMoves, SessMoves, ReceiptMoves, StatusesKept,
         SessionsKept, OnlyReceipts, Pins, Succeeds
  <2>4. RowMoves(r) BY <1>10, <2>2, RunCreateChannelStep DEF RowMoves, Ends, Goes, Succeeds,
         Finishes, Plain, AnswersOk, Confirms, Provisioning, Early, Late
  <2> QED BY <2>1, <2>3, <2>4 DEF Moves
<1>11. CASE RunUpdateChannel(r)
  <2>1. StepOf(r) BY <1>11, RunUpdateChannelStep
  <2>2. req[r].ans # "ok" BY <2>1, NotAnswered
  <2>3. TableMoves(r) BY <1>11, RunUpdateChannelStep DEF TableMoves, ChanMoves, MsgMoves,
         PinMoves, TaskMoves, CowMoves, DraftMoves, SessMoves, ReceiptMoves, StatusesKept,
         SessionsKept, OnlyReceipts, Pins
  <2>4. RowMoves(r) BY <1>11, <2>2, RunUpdateChannelStep DEF RowMoves, Ends, Goes, Succeeds,
         Finishes, Plain, AnswersOk, Confirms, Provisioning, Early, Late, Inserts
  <2> QED BY <2>1, <2>3, <2>4 DEF Moves
<1>12. CASE RunArchiveChannel(r)
  <2>1. StepOf(r) BY <1>12, RunArchiveChannelStep
  <2>2. req[r].ans # "ok" BY <2>1, NotAnswered
  <2>3. TableMoves(r) BY <1>12, RunArchiveChannelStep DEF TableMoves, ChanMoves, MsgMoves,
         PinMoves, TaskMoves, CowMoves, DraftMoves, SessMoves, ReceiptMoves, StatusesKept,
         SessionsKept, OnlyReceipts, Pins
  <2>4. RowMoves(r) BY <1>12, <2>2, RunArchiveChannelStep DEF RowMoves, Ends, Goes, Succeeds,
         Finishes, Plain, AnswersOk, Confirms, Provisioning, Early, Late
  <2> QED BY <2>1, <2>3, <2>4 DEF Moves
<1>13. CASE PlanMessage(r)
  <2>1. StepOf(r) BY <1>13, PlanMessageStep
  <2>2. req[r].ans # "ok" BY <2>1, NotAnswered
  <2>5. UNCHANGED tables BY <1>13, PlanMessageStep
  <2>3. TableMoves(r) BY <2>5, StillTables
  <2>4. RowMoves(r) BY <1>13, <2>2, PlanMessageStep DEF RowMoves, Ends, Goes, Succeeds,
         Finishes, Plain, AnswersOk, Confirms, Provisioning, Early, Late, Inserts
  <2> QED BY <2>1, <2>3, <2>4 DEF Moves
<1>14. CASE appendMessage(r)
  <2>1. StepOf(r) BY <1>14, AppendMessageStep
  <2>2. req[r].ans # "ok" BY <2>1, NotAnswered
  <2>3. TableMoves(r) BY <1>14, AppendMessageStep DEF TableMoves, ChanMoves, MsgMoves,
         PinMoves, TaskMoves, CowMoves, DraftMoves, SessMoves, ReceiptMoves, StatusesKept,
         SessionsKept, OnlyReceipts, Pins
  <2>4. RowMoves(r) BY <1>14, <2>2, AppendMessageStep DEF RowMoves, Ends, Goes, Succeeds,
         Finishes, Plain, AnswersOk, Confirms, Provisioning, Early, Late, Inserts,
         StoresMessage
  <2> QED BY <2>1, <2>3, <2>4 DEF Moves
<1>15. CASE ensureRunForMessage(r)
  <2>1. StepOf(r) BY <1>15, EnsureRunStep
  <2>2. req[r].ans # "ok" BY <2>1, NotAnswered
  <2>3. TableMoves(r) BY <1>15, EnsureRunStep DEF TableMoves, ChanMoves, MsgMoves, PinMoves,
         TaskMoves, CowMoves, DraftMoves, SessMoves, ReceiptMoves, StatusesKept, SessionsKept,
         OnlyReceipts, Pins
  <2>4. RowMoves(r) BY <1>15, <2>2, EnsureRunStep DEF RowMoves, Ends, Goes, Succeeds,
         Finishes, Plain, AnswersOk, Confirms, Provisioning, Early, Late, Inserts
  <2> QED BY <2>1, <2>3, <2>4 DEF Moves
<1>16. CASE RunCreatePin(r)
  <2>1. StepOf(r) BY <1>16, RunCreatePinStep
  <2>2. req[r].ans # "ok" BY <2>1, NotAnswered
  <2>3. TableMoves(r) BY <1>16, RunCreatePinStep DEF TableMoves, ChanMoves, MsgMoves,
         PinMoves, TaskMoves, CowMoves, DraftMoves, SessMoves, ReceiptMoves, StatusesKept,
         SessionsKept, OnlyReceipts, Pins
  <2>4. RowMoves(r) BY <1>16, <2>2, RunCreatePinStep DEF RowMoves, Ends, Goes, Succeeds,
         Finishes, Plain, AnswersOk, Confirms, Provisioning, Early, Late, Inserts, PinsMessage
  <2> QED BY <2>1, <2>3, <2>4 DEF Moves
<1>17. CASE RunRemovePin(r)
  <2>1. StepOf(r) BY <1>17, RunRemovePinStep
  <2>2. req[r].ans # "ok" BY <2>1, NotAnswered
  <2>3. TableMoves(r) BY <1>17, RunRemovePinStep DEF TableMoves, ChanMoves, MsgMoves,
         PinMoves, TaskMoves, CowMoves, DraftMoves, SessMoves, ReceiptMoves, StatusesKept,
         SessionsKept, OnlyReceipts, Pins
  <2>4. RowMoves(r) BY <1>17, <2>2, RunRemovePinStep DEF RowMoves, Ends, Goes, Succeeds,
         Finishes, Plain, AnswersOk, Confirms, Provisioning, Early, Late, Inserts, RemovesPin
  <2> QED BY <2>1, <2>3, <2>4 DEF Moves
<1> QED BY <1>1, <1>2, <1>3, <1>4, <1>5, <1>6, <1>7, <1>8, <1>9, <1>10, <1>11, <1>12, <1>13, <1>14, <1>15, <1>16, <1>17 DEF ChannelStep

\* So is a step of a membership command or of a coworker's update.
LEMMA MembershipMoves ==
    ASSUME WInv, NEW r \in Request, MembershipStep(r)
    PROVE  ArrivalOf(r) \/ Moves(r)
<1>1. CASE addParticipant(r)
  BY <1>1, AddParticipantArrives
<1>2. CASE removeParticipant(r)
  BY <1>2, RemoveParticipantArrives
<1>3. CASE updateCoworker(r)
  BY <1>3, UpdateCoworkerArrives
<1>4. CASE disableCoworker(r)
  BY <1>4, DisableCoworkerArrives
<1>5. CASE ReplayRemoval(r)
  <2>1. StepOf(r) BY <1>5, ReplayMembershipStep
  <2>2. req[r].ans # "ok" BY <2>1, NotAnswered
  <2>5. UNCHANGED tables BY <1>5, ReplayMembershipStep
  <2>3. TableMoves(r) BY <2>5, StillTables
  <2>4. RowMoves(r) BY <1>5, <2>2, ReplayMembershipStep DEF RowMoves, Ends, Goes, Succeeds,
         Finishes, Plain, AnswersOk, Confirms, Provisioning, Early, Late, Inserts
  <2> QED BY <2>1, <2>3, <2>4 DEF Moves
<1>6. CASE ReplayDisable(r)
  <2>1. StepOf(r) BY <1>6, ReplayMembershipStep
  <2>2. req[r].ans # "ok" BY <2>1, NotAnswered
  <2>5. UNCHANGED tables BY <1>6, ReplayMembershipStep
  <2>3. TableMoves(r) BY <2>5, StillTables
  <2>4. RowMoves(r) BY <1>6, <2>2, ReplayMembershipStep DEF RowMoves, Ends, Goes, Succeeds,
         Finishes, Plain, AnswersOk, Confirms, Provisioning, Early, Late, Inserts
  <2> QED BY <2>1, <2>3, <2>4 DEF Moves
<1>7. CASE ReloadMembership(r)
  <2>1. StepOf(r) BY <1>7, ReloadMembershipStep
  <2>2. req[r].ans # "ok" BY <2>1, NotAnswered
  <2>5. UNCHANGED tables BY <1>7, ReloadMembershipStep
  <2>3. TableMoves(r) BY <2>5, StillTables
  <2>4. RowMoves(r) BY <1>7, <2>2, ReloadMembershipStep DEF RowMoves, Ends, Goes, Succeeds,
         Finishes, Plain, AnswersOk, Confirms, Provisioning, Early, Late, Inserts
  <2> QED BY <2>1, <2>3, <2>4 DEF Moves
<1>8. CASE ReloadDisable(r)
  <2>1. StepOf(r) BY <1>8, ReloadMembershipStep
  <2>2. req[r].ans # "ok" BY <2>1, NotAnswered
  <2>5. UNCHANGED tables BY <1>8, ReloadMembershipStep
  <2>3. TableMoves(r) BY <2>5, StillTables
  <2>4. RowMoves(r) BY <1>8, <2>2, ReloadMembershipStep DEF RowMoves, Ends, Goes, Succeeds,
         Finishes, Plain, AnswersOk, Confirms, Provisioning, Early, Late, Inserts
  <2> QED BY <2>1, <2>3, <2>4 DEF Moves
<1>9. CASE withLocalProvisioningLock(r)
  <2>1. StepOf(r) BY <1>9, LockStep
  <2>2. req[r].ans # "ok" BY <2>1, NotAnswered
  <2>3. TableMoves(r) BY <1>9, LockStep DEF TableMoves, ChanMoves, MsgMoves, PinMoves,
         TaskMoves, CowMoves, DraftMoves, SessMoves, ReceiptMoves, StatusesKept, SessionsKept,
         OnlyReceipts, Pins
  <2>4. RowMoves(r) BY <1>9, <2>2, LockStep DEF RowMoves, Ends, Goes, Succeeds, Finishes,
         Plain, AnswersOk, Confirms, Provisioning, Early, Late, Provisions, Inserts,
         SameCommand
  <2> QED BY <2>1, <2>3, <2>4 DEF Moves
<1>10. CASE provisionChannelCoworkerSession(r)
  <2>1. StepOf(r) BY <1>10, ProvisionStep
  <2>2. req[r].ans # "ok" BY <2>1, NotAnswered
  <2>3. TableMoves(r) BY <1>10, ProvisionStep DEF TableMoves, ChanMoves, MsgMoves, PinMoves,
         TaskMoves, CowMoves, DraftMoves, SessMoves, ReceiptMoves, StatusesKept, SessionsKept,
         OnlyReceipts, Pins
  <2>6. req[r].kind \in {"channel.participant.add", "coworker.draft.confirm"}
      BY <1>10, ProvisionStep, StandsAt DEF Fits
  <2>4. RowMoves(r) BY <1>10, <2>2, <2>6, ProvisionStep DEF RowMoves, Ends, Goes, Succeeds,
         Finishes, Plain, AnswersOk, Confirms, Provisioning, Early, Late, Provisions, Inserts,
         SameCommand
  <2> QED BY <2>1, <2>3, <2>4 DEF Moves
<1>11. CASE AlreadyProvisioned(r)
  <2>1. StepOf(r) BY <1>11, ProvisionedStep
  <2>2. req[r].ans # "ok" BY <2>1, NotAnswered
  <2>3. TableMoves(r) BY <1>11, ProvisionedStep DEF TableMoves, ChanMoves, MsgMoves, PinMoves,
         TaskMoves, CowMoves, DraftMoves, SessMoves, ReceiptMoves, StatusesKept, SessionsKept,
         OnlyReceipts, Pins
  <2>6. req[r].kind \in {"channel.participant.add", "coworker.draft.confirm"}
      BY <1>11, ProvisionedStep, StandsAt DEF Fits
  <2>4. RowMoves(r) BY <1>11, <2>2, <2>6, ProvisionedStep DEF RowMoves, Ends, Goes, Succeeds,
         Finishes, Plain, AnswersOk, Confirms, Provisioning, Early, Late, Provisions, Inserts,
         SameCommand
  <2> QED BY <2>1, <2>3, <2>4 DEF Moves
<1>12. CASE persistProvisionedSession(r)
  <2>1. StepOf(r) BY <1>12, ProvisionedStep
  <2>2. req[r].ans # "ok" BY <2>1, NotAnswered
  <2>3. TableMoves(r) BY <1>12, ProvisionedStep DEF TableMoves, ChanMoves, MsgMoves, PinMoves,
         TaskMoves, CowMoves, DraftMoves, SessMoves, ReceiptMoves, StatusesKept, SessionsKept,
         OnlyReceipts, Pins
  <2>6. req[r].kind \in {"channel.participant.add", "coworker.draft.confirm"}
      BY <1>12, ProvisionedStep, StandsAt DEF Fits
  <2>4. RowMoves(r) BY <1>12, <2>2, <2>6, ProvisionedStep DEF RowMoves, Ends, Goes, Succeeds,
         Finishes, Plain, AnswersOk, Confirms, Provisioning, Early, Late, Provisions, Inserts,
         SameCommand
  <2> QED BY <2>1, <2>3, <2>4 DEF Moves
<1>13. CASE WriteMembership(r)
  <2>1. StepOf(r) BY <1>13, WriteMembershipStep
  <2>2. req[r].ans # "ok" BY <2>1, NotAnswered
  <2>3. TableMoves(r) BY <1>13, WriteMembershipStep DEF TableMoves, ChanMoves, MsgMoves,
         PinMoves, TaskMoves, CowMoves, DraftMoves, SessMoves, ReceiptMoves, StatusesKept,
         SessionsKept, OnlyReceipts, Pins
  <2>4. RowMoves(r) BY <1>13, <2>2, WriteMembershipStep DEF RowMoves, Ends, Goes, Succeeds,
         Finishes, Plain, AnswersOk, Confirms, Provisioning, Early, Late, Inserts
  <2> QED BY <2>1, <2>3, <2>4 DEF Moves
<1>14. CASE validateMembershipTargets(r)
  <2>1. StepOf(r) BY <1>14, PlanUpdateStep
  <2>2. req[r].ans # "ok" BY <2>1, NotAnswered
  <2>5. UNCHANGED tables BY <1>14, PlanUpdateStep
  <2>3. TableMoves(r) BY <2>5, StillTables
  <2>4. RowMoves(r) BY <1>14, <2>2, PlanUpdateStep DEF RowMoves, Ends, Goes, Succeeds,
         Finishes, Plain, AnswersOk, Confirms, Provisioning, Early, Late, PlansUpdate
  <2> QED BY <2>1, <2>3, <2>4 DEF Moves
<1>15. CASE WriteCoworker(r)
  <2>1. StepOf(r) BY <1>15, WriteCoworkerStep
  <2>2. req[r].ans # "ok" BY <2>1, NotAnswered
  <2>3. TableMoves(r) BY <1>15, WriteCoworkerStep DEF TableMoves, ChanMoves, MsgMoves,
         PinMoves, TaskMoves, CowMoves, DraftMoves, SessMoves, ReceiptMoves, StatusesKept,
         SessionsKept, OnlyReceipts, Pins
  <2>4. RowMoves(r) BY <1>15, <2>2, WriteCoworkerStep DEF RowMoves, Ends, Goes, Succeeds,
         Finishes, Plain, AnswersOk, Confirms, Provisioning, Early, Late
  <2> QED BY <2>1, <2>3, <2>4 DEF Moves
<1>16. CASE PlanDisable(r)
  <2>1. StepOf(r) BY <1>16, PlanDisableStep
  <2>2. req[r].ans # "ok" BY <2>1, NotAnswered
  <2>5. UNCHANGED tables BY <1>16, PlanDisableStep
  <2>3. TableMoves(r) BY <2>5, StillTables
  <2>4. RowMoves(r) BY <1>16, <2>2, PlanDisableStep DEF RowMoves, Ends, Goes, Succeeds,
         Finishes, Plain, AnswersOk, Confirms, Provisioning, Early, Late, Inserts
  <2> QED BY <2>1, <2>3, <2>4 DEF Moves
<1>17. CASE WriteDisable(r)
  <2>1. StepOf(r) BY <1>17, WriteDisableStep
  <2>2. req[r].ans # "ok" BY <2>1, NotAnswered
  <2>3. TableMoves(r) BY <1>17, WriteDisableStep DEF TableMoves, ChanMoves, MsgMoves,
         PinMoves, TaskMoves, CowMoves, DraftMoves, SessMoves, ReceiptMoves, StatusesKept,
         SessionsKept, OnlyReceipts, Pins
  <2>4. RowMoves(r) BY <1>17, <2>2, WriteDisableStep DEF RowMoves, Ends, Goes, Succeeds,
         Finishes, Plain, AnswersOk, Confirms, Provisioning, Early, Late, Inserts
  <2> QED BY <2>1, <2>3, <2>4 DEF Moves
<1> QED BY <1>1, <1>2, <1>3, <1>4, <1>5, <1>6, <1>7, <1>8, <1>9, <1>10, <1>11, <1>12, <1>13, <1>14, <1>15, <1>16, <1>17 DEF MembershipStep

\* So is a step of a task command.
LEMMA TaskStepMoves ==
    ASSUME WInv, NEW r \in Request, TaskStep(r)
    PROVE  ArrivalOf(r) \/ Moves(r)
<1>1. CASE createTask(r)
  BY <1>1, CreateTaskArrives
<1>2. CASE createTaskForCoworker(r)
  BY <1>2, CreateTaskForCoworkerArrives
<1>3. CASE updateTask(r)
  BY <1>3, UpdateTaskArrives
<1>4. CASE updateTaskForCoworker(r)
  BY <1>4, UpdateTaskForCoworkerArrives
<1>5. CASE ReloadTask(r)
  <2>1. StepOf(r) BY <1>5, ReloadTaskStep
  <2>2. req[r].ans # "ok" BY <2>1, NotAnswered
  <2>5. UNCHANGED tables BY <1>5, ReloadTaskStep
  <2>3. TableMoves(r) BY <2>5, StillTables
  <2>4. RowMoves(r) BY <1>5, <2>2, ReloadTaskStep DEF RowMoves, Ends, Goes, Succeeds,
         Finishes, Plain, AnswersOk, Confirms, Provisioning, Early, Late, Reloads, ReplaysOk,
         FindsNothing, CachesResult, Inserts, Reclaims, SameCommand, Pins, tables, CommandKind
  <2> QED BY <2>1, <2>3, <2>4 DEF Moves
<1>6. CASE WriteNewTask(r)
  <2>1. StepOf(r) BY <1>6, WriteNewTaskStep
  <2>2. req[r].ans # "ok" BY <2>1, NotAnswered
  <2>3. TableMoves(r) BY <1>6, WriteNewTaskStep DEF TableMoves, ChanMoves, MsgMoves, PinMoves,
         TaskMoves, CowMoves, DraftMoves, SessMoves, ReceiptMoves, StatusesKept, SessionsKept,
         OnlyReceipts, Pins
  <2>4. RowMoves(r) BY <1>6, <2>2, WriteNewTaskStep DEF RowMoves, Ends, Goes, Succeeds,
         Finishes, Plain, AnswersOk, Confirms, Provisioning, Early, Late, Inserts, InsertsTask
  <2> QED BY <2>1, <2>3, <2>4 DEF Moves
<1>7. CASE ReadTask(r)
  <2>1. StepOf(r) BY <1>7, ReadTaskStep
  <2>2. req[r].ans # "ok" BY <2>1, NotAnswered
  <2>5. UNCHANGED tables BY <1>7, ReadTaskStep
  <2>3. TableMoves(r) BY <2>5, StillTables
  <2>4. RowMoves(r) BY <1>7, <2>2, ReadTaskStep DEF RowMoves, Ends, Goes, Succeeds, Finishes,
         Plain, AnswersOk, Confirms, Provisioning, Early, Late, Inserts, ReadsTask
  <2> QED BY <2>1, <2>3, <2>4 DEF Moves
<1>8. CASE WriteTask(r)
  <2>1. StepOf(r) BY <1>8, WriteTaskStep
  <2>2. req[r].ans # "ok" BY <2>1, NotAnswered
  <2>3. TableMoves(r) BY <1>8, WriteTaskStep DEF TableMoves, ChanMoves, MsgMoves, PinMoves,
         TaskMoves, CowMoves, DraftMoves, SessMoves, ReceiptMoves, StatusesKept, SessionsKept,
         OnlyReceipts, Pins
  <2>4. RowMoves(r) BY <1>8, <2>2, WriteTaskStep DEF RowMoves, Ends, Goes, Succeeds, Finishes,
         Plain, AnswersOk, Confirms, Provisioning, Early, Late, Inserts, UpdatesTask
  <2> QED BY <2>1, <2>3, <2>4 DEF Moves
<1> QED BY <1>1, <1>2, <1>3, <1>4, <1>5, <1>6, <1>7, <1>8 DEF TaskStep

\* So is a step of a draft command.
LEMMA DraftStepMoves ==
    ASSUME WInv, NEW r \in Request, DraftStep(r)
    PROVE  ArrivalOf(r) \/ Moves(r)
<1>1. CASE createCoworkerDraft(r)
  BY <1>1, CreateCoworkerDraftArrives
<1>2. CASE reviseCoworkerDraft(r)
  <2>1. OnDraft(r, "coworker.draft.revise") BY <1>2 DEF reviseCoworkerDraft
  <2> QED BY <2>1, OnDraftArrives
<1>3. CASE rejectCoworkerDraft(r)
  <2>1. OnDraft(r, "coworker.draft.reject") BY <1>3 DEF rejectCoworkerDraft
  <2> QED BY <2>1, OnDraftArrives
<1>4. CASE confirmCoworkerDraft(r)
  <2>1. OnDraft(r, "coworker.draft.confirm") BY <1>4 DEF confirmCoworkerDraft
  <2> QED BY <2>1, OnDraftArrives
<1>5. CASE ReloadDraft(r)
  <2>1. StepOf(r) BY <1>5, ReloadDraftStep
  <2>2. req[r].ans # "ok" BY <2>1, NotAnswered
  <2>5. UNCHANGED tables BY <1>5, ReloadDraftStep
  <2>3. TableMoves(r) BY <2>5, StillTables
  <2>4. RowMoves(r) BY <1>5, <2>2, ReloadDraftStep DEF RowMoves, Ends, Goes, Succeeds,
         Finishes, Plain, AnswersOk, Confirms, Provisioning, Early, Late, Reloads, ReplaysOk,
         FindsNothing, CachesResult, Inserts, Reclaims, SameCommand, Pins, tables, CommandKind
  <2> QED BY <2>1, <2>3, <2>4 DEF Moves
<1>6. CASE insertCoworkerDraftWithSupersede(r)
  <2>1. StepOf(r) BY <1>6, InsertDraftStep
  <2>2. req[r].ans # "ok" BY <2>1, NotAnswered
  <2>3. TableMoves(r) BY <1>6, InsertDraftStep DEF Succeeds, TableMoves, ChanMoves, MsgMoves, PinMoves,
         TaskMoves, CowMoves, DraftMoves, SessMoves, ReceiptMoves, StatusesKept, SessionsKept,
         OnlyReceipts, Pins
  <2>4. RowMoves(r) BY <1>6, <2>2, InsertDraftStep DEF RowMoves, Ends, Goes, Succeeds,
         Finishes, Plain, AnswersOk, Confirms, Provisioning, Early, Late, FindsDraft
  <2> QED BY <2>1, <2>3, <2>4 DEF Moves
<1>7. CASE ReadDraft(r)
  <2>1. StepOf(r) BY <1>7, ReadDraftStep
  <2>2. req[r].ans # "ok" BY <2>1, NotAnswered
  <2>5. UNCHANGED tables BY <1>7, ReadDraftStep
  <2>3. TableMoves(r) BY <2>5, StillTables
  <2>4. RowMoves(r) BY <1>7, <2>2, ReadDraftStep DEF RowMoves, Ends, Goes, Succeeds, Finishes,
         Plain, AnswersOk, Confirms, Provisioning, Early, Late, Inserts
  <2> QED BY <2>1, <2>3, <2>4 DEF Moves
<1>8. CASE RejectDraft(r)
  <2>1. StepOf(r) BY <1>8, MoveDraftStep
  <2>2. req[r].ans # "ok" BY <2>1, NotAnswered
  <2>3. TableMoves(r) BY <1>8, MoveDraftStep DEF TableMoves, ChanMoves, MsgMoves, PinMoves,
         TaskMoves, CowMoves, DraftMoves, SessMoves, ReceiptMoves, StatusesKept, SessionsKept,
         OnlyReceipts, Pins
  <2>4. RowMoves(r) BY <1>8, <2>2, MoveDraftStep DEF RowMoves, Ends, Goes, Succeeds, Finishes,
         Plain, AnswersOk, Confirms, Provisioning, Early, Late, Inserts
  <2> QED BY <2>1, <2>3, <2>4 DEF Moves
<1>9. CASE SupersedeRevised(r)
  <2>1. StepOf(r) BY <1>9, MoveDraftStep
  <2>2. req[r].ans # "ok" BY <2>1, NotAnswered
  <2>3. TableMoves(r) BY <1>9, MoveDraftStep DEF TableMoves, ChanMoves, MsgMoves, PinMoves,
         TaskMoves, CowMoves, DraftMoves, SessMoves, ReceiptMoves, StatusesKept, SessionsKept,
         OnlyReceipts, Pins
  <2>4. RowMoves(r) BY <1>9, <2>2, MoveDraftStep DEF RowMoves, Ends, Goes, Succeeds, Finishes,
         Plain, AnswersOk, Confirms, Provisioning, Early, Late, Inserts
  <2> QED BY <2>1, <2>3, <2>4 DEF Moves
<1>10. CASE insertResolvedDraft(r)
  <2>1. StepOf(r) BY <1>10, InsertRevisionStep
  <2>2. req[r].ans # "ok" BY <2>1, NotAnswered
  <2>3. TableMoves(r) BY <1>10, InsertRevisionStep DEF Succeeds, TableMoves, ChanMoves, MsgMoves,
         PinMoves, TaskMoves, CowMoves, DraftMoves, SessMoves, ReceiptMoves, StatusesKept,
         SessionsKept, OnlyReceipts, Pins
  <2>4. RowMoves(r) BY <1>10, <2>2, InsertRevisionStep DEF RowMoves, Ends, Goes, Succeeds,
         Finishes, Plain, AnswersOk, Confirms, Provisioning, Early, Late, Inserts
  <2> QED BY <2>1, <2>3, <2>4 DEF Moves
<1>11. CASE provisionCoworkerFromDraft(r)
  <2>1. StepOf(r) BY <1>11, ConfirmStep
  <2>2. req[r].ans # "ok" BY <2>1, NotAnswered
  <2>3. TableMoves(r) BY <1>11, ConfirmStep DEF TableMoves, ChanMoves, MsgMoves, PinMoves,
         TaskMoves, CowMoves, DraftMoves, SessMoves, ReceiptMoves, StatusesKept, SessionsKept,
         OnlyReceipts, Pins, MakesCoworker
  <2>4. RowMoves(r) BY <1>11, <2>2, ConfirmStep DEF RowMoves, Ends, Goes, Succeeds, Finishes,
         Plain, AnswersOk, Confirms, Provisioning, Early, Late, Inserts, MakesCoworker,
         ConfirmedAs
  <2> QED BY <2>1, <2>3, <2>4 DEF Moves
<1>12. CASE FailedProvisioning(r)
  <2>1. StepOf(r) BY <1>12, FailedProvisioningStep
  <2>2. req[r].ans # "ok" BY <2>1, NotAnswered
  <2>3. TableMoves(r) BY <1>12, FailedProvisioningStep DEF TableMoves, ChanMoves, MsgMoves,
         PinMoves, TaskMoves, CowMoves, DraftMoves, SessMoves, ReceiptMoves, StatusesKept,
         SessionsKept, OnlyReceipts, Pins
  <2>4. RowMoves(r) BY <1>12, <2>2, FailedProvisioningStep DEF RowMoves, Ends, Goes, Succeeds,
         Finishes, Plain, AnswersOk, Confirms, Provisioning, Early, Late, Inserts
  <2> QED BY <2>1, <2>3, <2>4 DEF Moves
<1> QED BY <1>1, <1>2, <1>3, <1>4, <1>5, <1>6, <1>7, <1>8, <1>9, <1>10, <1>11, <1>12 DEF DraftStep

\* So is a step of the receipt protocol, and a crash.
LEMMA ReceiptStepMoves ==
    ASSUME WInv, NEW r \in Request, Claim(r) \/ reclaimStaleCommandReceipt(r) \/ Finish(r) \/ Rebind(r) \/ Fail(r) \/ Crash(r)
    PROVE  Moves(r)
<1>1. CASE Claim(r)
  <2>1. StepOf(r) BY <1>1, ClaimStep
  <2>2. req[r].ans # "ok" BY <2>1, NotAnswered
  <2>3. TableMoves(r) BY <1>1, ClaimStep DEF TableMoves, ChanMoves, MsgMoves, PinMoves,
         TaskMoves, CowMoves, DraftMoves, SessMoves, ReceiptMoves, StatusesKept, SessionsKept,
         OnlyReceipts, Pins, Goes
  <2>4. RowMoves(r) BY <1>1, <2>2, ClaimStep DEF RowMoves, Ends, Goes, Succeeds, Finishes,
         Plain, AnswersOk, Confirms, Provisioning, Early, Late, Inserts
  <2> QED BY <2>1, <2>3, <2>4 DEF Moves
<1>2. CASE reclaimStaleCommandReceipt(r)
  <2>1. StepOf(r) BY <1>2, ReclaimStep
  <2>2. req[r].ans # "ok" BY <2>1, NotAnswered
  <2>3. TableMoves(r) BY <1>2, ReclaimStep DEF TableMoves, ChanMoves, MsgMoves, PinMoves,
         TaskMoves, CowMoves, DraftMoves, SessMoves, ReceiptMoves, StatusesKept, SessionsKept,
         OnlyReceipts, Pins, Reclaimed
  <2>4. RowMoves(r) BY <1>2, <2>2, ReclaimStep DEF RowMoves, Ends, Goes, Succeeds, Finishes,
         Plain, AnswersOk, Confirms, Provisioning, Early, Late, Inserts
  <2> QED BY <2>1, <2>3, <2>4 DEF Moves
<1>3. CASE Finish(r)
  <2>1. StepOf(r) BY <1>3, FinishStep
  <2>2. req[r].ans # "ok" BY <2>1, NotAnswered
  <2>3. TableMoves(r) BY <1>3, FinishStep DEF TableMoves, ChanMoves, MsgMoves, PinMoves,
         TaskMoves, CowMoves, DraftMoves, SessMoves, ReceiptMoves, StatusesKept, SessionsKept,
         OnlyReceipts, Pins
  <2>4. RowMoves(r) BY <1>3, <2>2, FinishStep DEF RowMoves, Ends, Goes, Succeeds, Finishes,
         Plain, AnswersOk, Confirms, Provisioning, Early, Late, Inserts, Pins
  <2> QED BY <2>1, <2>3, <2>4 DEF Moves
<1>4. CASE Rebind(r)
  <2>1. StepOf(r) BY <1>4, RebindStep
  <2>2. req[r].ans # "ok" BY <2>1, NotAnswered
  <2>3. TableMoves(r) BY <1>4, RebindStep DEF TableMoves, ChanMoves, MsgMoves, PinMoves,
         TaskMoves, CowMoves, DraftMoves, SessMoves, ReceiptMoves, StatusesKept, SessionsKept,
         OnlyReceipts, Pins
  <2>4. RowMoves(r) BY <1>4, <2>2, RebindStep DEF RowMoves, Ends, Goes, Succeeds, Finishes,
         Plain, AnswersOk, Confirms, Provisioning, Early, Late, Inserts
  <2> QED BY <2>1, <2>3, <2>4 DEF Moves
<1>5. CASE Fail(r)
  <2>1. StepOf(r) BY <1>5, FailStep
  <2>2. req[r].ans # "ok" BY <2>1, NotAnswered
  <2>3. TableMoves(r) BY <1>5, FailStep DEF TableMoves, ChanMoves, MsgMoves, PinMoves,
         TaskMoves, CowMoves, DraftMoves, SessMoves, ReceiptMoves, StatusesKept, SessionsKept,
         OnlyReceipts, Pins
  <2>4. RowMoves(r) BY <1>5, <2>2, FailStep DEF RowMoves, Ends, Goes, Succeeds, Finishes,
         Plain, AnswersOk, Confirms, Provisioning, Early, Late, Inserts
  <2> QED BY <2>1, <2>3, <2>4 DEF Moves
<1>6. CASE Crash(r)
  <2>1. StepOf(r) BY <1>6, CrashStep
  <2>2. req[r].ans # "ok" BY <2>1, NotAnswered
  <2>5. UNCHANGED tables BY <1>6, CrashStep
  <2>3. TableMoves(r) BY <2>5, StillTables
  <2>4. RowMoves(r) BY <1>6, <2>2, CrashStep DEF RowMoves, Ends, Goes, Succeeds, Finishes,
         Plain, AnswersOk, Confirms, Provisioning, Early, Late, Inserts
  <2> QED BY <2>1, <2>3, <2>4 DEF Moves
<1> QED BY <1>1, <1>2, <1>3, <1>4, <1>5, <1>6

-----------------------------------------------------------------------------
(***************************************************************************)
(* Every row keeps its type, and every request its place in its command.   *)
(***************************************************************************)

\* What a step of the service as a whole does.
EnvironmentMoves ==
    \/ \E kind, key : Lapses(kind, key)
    \/ /\ \E c \in Channel, w \in Coworker :
             /\ csess'[c][w].made = csess[c][w].made /\ csess'[c][w].closed
             /\ \A d \in Channel, v \in Coworker : d # c \/ v # w => csess'[d][v] = csess[d][v]
       /\ WInv' /\ UNCHANGED <<chan, part, cow, msg, task, pin, draft, receipt, req, lock, mix>>
    \/ /\ \A d \in ObjId : draft'[d].state = draft[d].state /\ draft'[d].who = draft[d].who
       /\ WInv' /\ UNCHANGED <<chan, part, cow, csess, msg, task, pin, receipt, req, lock, mix>>

\* Each step is a step of one request or of its environment.
LEMMA NextMoves ==
    ASSUME WInv, Next
    PROVE  (\E r \in Request : ArrivalOf(r) \/ Moves(r)) \/ EnvironmentMoves
<1>1. ASSUME NEW r \in Request, Step(r) PROVE ArrivalOf(r) \/ Moves(r)
  <2>1. CASE ChannelStep(r)
      BY <2>1, ChannelMoves
  <2>2. CASE MembershipStep(r)
      BY <2>2, MembershipMoves
  <2>3. CASE TaskStep(r)
      BY <2>3, TaskStepMoves
  <2>4. CASE DraftStep(r)
      BY <2>4, DraftStepMoves
  <2>5. CASE Claim(r) \/ reclaimStaleCommandReceipt(r) \/ Finish(r) \/ Rebind(r) \/ Fail(r)
      BY <2>5, ReceiptStepMoves
  <2> QED BY <1>1, <2>1, <2>2, <2>3, <2>4, <2>5 DEF Step
<1>2. ASSUME NEW r \in Request, Crash(r) PROVE Moves(r)
    BY <1>2, ReceiptStepMoves
<1>3. ASSUME NEW r \in Request, touchCommandReceipt(r) PROVE EnvironmentMoves
    BY <1>3, TouchStep DEF EnvironmentMoves
<1>4. ASSUME NEW kind \in mix.kinds, NEW key \in mix.keys, LeaseLapses(kind, key)
      PROVE  EnvironmentMoves
    BY <1>4, LeaseLapsesStep DEF EnvironmentMoves
<1>5. ASSUME NEW c \in Channel, NEW w \in Coworker, ReconcileWindowCloses(c, w)
      PROVE  EnvironmentMoves
    BY <1>5, WindowStep DEF EnvironmentMoves
<1>6. ASSUME NEW d \in ObjId, DraftExpires(d) PROVE EnvironmentMoves
    BY <1>6, DraftExpiresStep DEF EnvironmentMoves
<1> QED BY <1>1, <1>2, <1>3, <1>4, <1>5, <1>6 DEF Next, Environment

\* The rows that exist at the start, and requests that have not arrived.
LEMMA Starts == Init => WInv
<1> SUFFICES ASSUME Init PROVE WInv
    OBVIOUS
<1>1. chan \in [ChanId -> ChanRow] /\ part \in [Channel -> [Coworker -> PartState]]
    BY DEF Init, InitTables, ChanId, ChanRow, PartState
<1>2. cow \in [Coworker -> CowRow]
  <2>1. Channel \in SUBSET Channel /\ {} \in SUBSET Channel
      OBVIOUS
  <2>2. ASSUME NEW S \in SUBSET Channel
        PROVE  [status |-> "active", rev |-> 1, spec |-> 1, grants |-> Channel, chans |-> S] \in CowRow
      BY DEF CowRow
  <2> QED BY <2>1, <2>2, Nulls DEF Init, InitTables
<1>3. csess \in [Channel -> [Coworker -> SessRow]]
  <2>1. ASSUME NEW state \in {"none", "ready"}
        PROVE  [state |-> state, made |-> {}, closed |-> FALSE] \in SessRow
      BY DEF SessRow
  <2> QED BY <2>1 DEF Init, InitTables
<1>4. msg \in [ObjId -> MsgRow]
    BY Nulls DEF Init, InitTables, MsgRow
<1>5. task \in [ObjId -> TaskRow]
  <2>1. NullChannel \in Channel
      BY Nulls
  <2>2. [status |-> "todo", rev |-> 1, who |-> NoRequest, chan |-> NullChannel, revs |-> {1}]
            \in TaskRow
      BY <2>1 DEF TaskRow, TaskStatus
  <2>3. NoTask \in TaskRow
      BY <2>1 DEF NoTask, TaskRow
  <2> QED BY <2>2, <2>3 DEF Init, InitTables
<1>6. pin \in [Request -> PinRow]
    BY Nulls DEF Init, InitTables, PinRow, ObjId
<1>7. draft \in [ObjId -> DraftRow]
  <2>1. Coworker # Staff => (CHOOSE w \in Coworker \ Staff : TRUE) \in Coworker
      BY StaffAssumption
  <2>2. ASSUME NEW w \in Coworker
        PROVE  [state |-> "awaiting_review", rev |-> 1, expired |-> FALSE, who |-> w,
                chans |-> Channel] \in DraftRow
      BY DEF DraftRow, DraftState
  <2> QED BY <2>1, <2>2, Nulls DEF Init, InitTables
<1>8. ReceiptsOK
    BY DEF Init, InitTables, ReceiptsOK
<1>9. RequestsOK
  <2>1. Fits(NewReq)
      BY DEF NewReq, Fits, OnCoworker, OnObject, Pins
  <2> QED BY <2>1, NewRow DEF RequestsOK, Init, InitReceipts
<1>10. lock \in [Coworker -> Request \cup {NoRequest}] /\ mix \in Mixes
    BY DEF Init, InitReceipts
<1> QED BY <1>1, <1>2, <1>3, <1>4, <1>5, <1>6, <1>7, <1>8, <1>9, <1>10, TablesParts DEF WInv

\* A step that changes nothing.
LEMMA Stutters == WInv /\ UNCHANGED vars => WInv'
<1> SUFFICES ASSUME WInv, UNCHANGED vars PROVE WInv'
    OBVIOUS
<1>1. TablesOK'
    BY TablesKept DEF WInv, vars
<1> QED BY <1>1 DEF WInv, RequestsOK, vars

\* Every step keeps the types and the rows' fit.
LEMMA InvStep == WInv /\ [Next]_vars => WInv'
    BY NextMoves, Stutters DEF ArrivalOf, Moves, StepOf, EnvironmentMoves, Lapses

\* In every behaviour of the service every row has its type and every request fits its command.
THEOREM RowsFitAlways == Spec => []WInv
    BY Starts, InvStep, PTL DEF Spec

\* In particular the tables and the requests keep their types, whatever crashes, lapses or is
\* reclaimed (every command of the workspace service).
THEOREM TypesKept == Spec => []TypeOK
<1>1. WInv => TypeOK
    BY DEF WInv, TypeOK, RequestsOK
<1> QED BY <1>1, RowsFitAlways, PTL

-----------------------------------------------------------------------------
(***************************************************************************)
(* Archived channels stay as they are.                                     *)
(***************************************************************************)

\* What a request was sent with stays with it.
LEMMA CommandsStay ==
    ASSUME NEW r \in Request, StepOf(r), NEW o \in Request
    PROVE  /\ SameCommand(req[o], req'[o])
           /\ req'[o].pc = "new" <=> req[o].pc = "new"
           /\ req[o].pc \in Late => req'[o].pc \in Late
           /\ req[o].kind \notin {"channel.participant.add", "coworker.draft.confirm"} =>
                  req'[o].ch = req[o].ch
<1>1. CASE o = r
    BY <1>1 DEF StepOf, Runs
<1>2. CASE o # r
    BY <1>2 DEF StepOf, Turns, SameCommand
<1> QED BY <1>1, <1>2

\* The pins of a channel stay in it; a channel a request makes is not archived.
FrozenInv ==
    /\ \A r \in Request : chan[r].status # "archived"
    /\ \A r \in Request : pin[r].state # "absent" =>
           req[r].kind = "channel.pin.create" /\ req[r].pc \in Late
    /\ \A r \in Request : req[r].kind = "channel.pin.remove" /\ req[r].pc # "new" =>
           pin[req[r].obj].state # "absent" /\ pin[req[r].obj].chan = req[r].ch

\* A pin that is made is new, and one that is removed stays where it was.
LEMMA PinsStay ==
    ASSUME WInv, FrozenInv, NEW r \in Request, Moves(r), NEW p \in Request,
           pin[p].state # "absent"
    PROVE  /\ pin'[p].chan = pin[p].chan /\ pin'[p].src = pin[p].src /\ pin'[p].state # "absent"
           /\ pin[p].state = "removed" => pin'[p].state = "removed"
<1>1. CASE pin' = pin
    BY <1>1
<1>2. CASE req[r].kind = "channel.pin.create" /\ req[r].pc = "run" /\ PinsMessage(r)
  <2>1. p # r
      BY <1>2 DEF FrozenInv, Late
  <2> QED BY <1>2, <2>1, Typed DEF PinsMessage
<1>3. CASE req[r].kind = "channel.pin.remove" /\ req[r].pc = "run" /\ RemovesPin(r)
  <2>1. pin \in [Request -> PinRow] /\ pin[p] \in PinRow
      BY Typed
  <2>2. PICK o \in Request : o = req[r].obj
      BY <1>3, StandsAt DEF Fits
  <2>3. pin' = [pin EXCEPT ![o].state = "removed"]
      BY <1>3, <2>2 DEF RemovesPin
  <2> QED BY <2>1, <2>3 DEF PinRow
<1> QED BY <1>1, <1>2, <1>3 DEF Moves, TableMoves, PinMoves

\* A step of a request keeps the frozen-archive invariant.
LEMMA FrozenMoves ==
    ASSUME WInv, FrozenInv, NEW r \in Request, Moves(r)
    PROVE  FrozenInv'
<1>0. StepOf(r) /\ ChanMoves(r) /\ PinMoves(r)
    BY DEF Moves, TableMoves
<1>1. ASSUME NEW o \in Request PROVE chan'[o].status # "archived"
  <2>1. o \in ChanId /\ r \in ChanId /\ req[r].ch \in Channel /\ o \notin Channel
      BY StandsAt, IdAssumption DEF ChanId
  <2> QED BY <1>0, <2>1 DEF FrozenInv, ChanMoves, StatusesKept, StatusSet
<1>2. ASSUME NEW o \in Request, pin'[o].state # "absent"
      PROVE  req'[o].kind = "channel.pin.create" /\ req'[o].pc \in Late
  <2>1. CASE pin[o].state # "absent"
      BY <1>0, <2>1, CommandsStay DEF FrozenInv, SameCommand
  <2>2. CASE pin[o].state = "absent"
    <3>1. CASE req[r].kind = "channel.pin.create" /\ PinsMessage(r)
      <4>1. o = r
          BY <1>2, <2>2, <3>1, Typed DEF PinsMessage
      <4> QED BY <3>1, <4>1 DEF PinsMessage, Succeeds, SameCommand, Late
    <3>2. CASE req[r].kind = "channel.pin.remove" /\ req[r].pc = "run" /\ RemovesPin(r)
      <4>1. PICK p \in Request : p = req[r].obj /\ pin[p].state = "active"
          BY <3>2, StandsAt DEF Fits, RemovesPin
      <4>2. pin' = [pin EXCEPT ![p].state = "removed"]
          BY <3>2, <4>1 DEF RemovesPin
      <4> QED BY <1>2, <2>2, <4>1, <4>2, Typed
    <3> QED BY <1>0, <1>2, <2>2, <3>1, <3>2 DEF PinMoves
  <2> QED BY <2>1, <2>2
<1>3. ASSUME NEW o \in Request, req'[o].kind = "channel.pin.remove", req'[o].pc # "new"
      PROVE  pin'[req'[o].obj].state # "absent" /\ pin'[req'[o].obj].chan = req'[o].ch
  <2>1. /\ req[o].kind = "channel.pin.remove" /\ req[o].pc # "new"
        /\ req'[o].obj = req[o].obj /\ req'[o].ch = req[o].ch
      BY <1>0, <1>3, CommandsStay DEF SameCommand
  <2>2. PICK p \in Request : p = req[o].obj
      BY <2>1, StandsAt DEF Fits
  <2>3. pin[p].state # "absent" /\ pin[p].chan = req[o].ch
      BY <2>1, <2>2 DEF FrozenInv
  <2> QED BY <2>1, <2>2, <2>3, PinsStay
<1> QED BY <1>1, <1>2, <1>3 DEF FrozenInv

\* A request that arrives keeps it: what it names was read from stored rows.
LEMMA FrozenArrival ==
    ASSUME WInv, FrozenInv, NEW r \in Request, ArrivalOf(r)
    PROVE  FrozenInv'
<1>1. chan' = chan /\ pin' = pin /\ req[r].pc = "new"
    BY DEF ArrivalOf, tables
<1>2. ASSUME NEW o \in Request, o # r PROVE req'[o] = req[o]
    BY <1>2 DEF ArrivalOf, Turns
<1>3. pin[r].state = "absent"
    BY <1>1 DEF FrozenInv, Late
<1>4. req'[r].kind = "channel.pin.remove" =>
          pin'[req'[r].obj].state # "absent" /\ pin'[req'[r].obj].chan = req'[r].ch
  <2>1. NamesRows(req'[r], req'[r].pc)
      BY DEF ArrivalOf
  <2> QED BY <1>1, <2>1 DEF NamesRows
<1>5. \A o \in Request : pin'[o].state # "absent" =>
           req'[o].kind = "channel.pin.create" /\ req'[o].pc \in Late
    BY <1>1, <1>2, <1>3 DEF FrozenInv
<1>6. \A o \in Request : req'[o].kind = "channel.pin.remove" /\ req'[o].pc # "new" =>
           pin'[req'[o].obj].state # "absent" /\ pin'[req'[o].obj].chan = req'[o].ch
    BY <1>1, <1>2, <1>4 DEF FrozenInv
<1> QED BY <1>1, <1>5, <1>6 DEF FrozenInv

\* Every step keeps it.
LEMMA FrozenStep == WInv /\ FrozenInv /\ [Next]_vars => FrozenInv'
<1>1. ASSUME FrozenInv, UNCHANGED <<chan, pin, req>> PROVE FrozenInv'
    BY <1>1 DEF FrozenInv
<1>2. ASSUME FrozenInv, EnvironmentMoves PROVE FrozenInv'
    BY <1>1, <1>2 DEF EnvironmentMoves, Lapses
<1>3. ASSUME FrozenInv, UNCHANGED vars PROVE FrozenInv'
    BY <1>1, <1>3 DEF vars, tables
<1> QED BY <1>2, <1>3, NextMoves, FrozenMoves, FrozenArrival

\* It holds at the start.
LEMMA FrozenStarts == Init => FrozenInv
    BY IdAssumption DEF Init, InitTables, InitReceipts, NewReq, FrozenInv, ChanId

\* No command that read a channel while it was open writes to it once it is archived, and no
\* command opens it again (the status checks inside the transactions of the store).
LEMMA FrozenAction ==
    ASSUME WInv, FrozenInv, [Next]_vars, NEW c \in ChanId, chan[c].status = "archived"
    PROVE  /\ chan'[c].status = "archived"
           /\ \A m \in ObjId : msg'[m].chan = c => msg[m].chan = c
           /\ \A t \in ObjId : task'[t].status # "absent" /\ task'[t].chan = c => task'[t] = task[t]
           /\ \A p \in Request : pin'[p].chan = c => pin'[p].state = pin[p].state
<1>1. CASE UNCHANGED <<chan, msg, task, pin>>
    BY <1>1
<1>2. ASSUME NEW r \in Request, Moves(r)
      PROVE  /\ chan'[c].status = "archived"
             /\ \A m \in ObjId : msg'[m].chan = c => msg[m].chan = c
             /\ \A t \in ObjId : task'[t].status # "absent" /\ task'[t].chan = c => task'[t] = task[t]
             /\ \A p \in Request : pin'[p].chan = c => pin'[p].state = pin[p].state
  <2>0. ChanMoves(r) /\ MsgMoves(r) /\ TaskMoves(r) /\ PinMoves(r) /\ r \in ObjId
      BY <1>2, StandsAt DEF Moves, TableMoves
  <2>1. chan'[c].status = "archived"
    <3>1. r \in ChanId /\ chan[r].status # "archived"
        BY StandsAt DEF FrozenInv
    <3> QED BY <2>0, <3>1 DEF ChanMoves, StatusesKept, StatusSet
  <2>2. ASSUME NEW m \in ObjId, msg'[m].chan = c PROVE msg[m].chan = c
    <3>1. CASE StoresMessage(r)
      <4>1. m # r
          BY <2>2, <3>1, Typed DEF StoresMessage, MsgRow
      <4> QED BY <2>2, <3>1, <4>1, Typed DEF StoresMessage
    <3>2. ASSUME NEW o, msg' = CreateRun(o) PROVE msg[m].chan = c
        BY <2>2, <3>2, Typed, RunMade
    <3> QED BY <2>0, <2>2, <3>1, <3>2 DEF MsgMoves
  <2>3. ASSUME NEW t \in ObjId, task'[t].status # "absent", task'[t].chan = c
        PROVE  task'[t] = task[t]
    <3>1. CASE InsertsTask(r)
        BY <2>3, <3>1 DEF InsertsTask
    <3>2. CASE UpdatesTask(r)
        BY <2>3, <3>2 DEF UpdatesTask
    <3> QED BY <2>0, <3>1, <3>2 DEF TaskMoves
  <2>4. ASSUME NEW p \in Request, pin'[p].chan = c PROVE pin'[p].state = pin[p].state
    <3>1. CASE PinsMessage(r)
      <4>1. p # r
          BY <2>4, <3>1, Typed DEF PinsMessage
      <4> QED BY <3>1, <4>1, Typed DEF PinsMessage
    <3>2. CASE req[r].kind = "channel.pin.remove" /\ req[r].pc = "run" /\ RemovesPin(r)
      <4>1. PICK o \in Request : o = req[r].obj
          BY <3>2, StandsAt DEF Fits
      <4>2. pin[o].chan = req[r].ch /\ pin[o].state # "absent"
          BY <3>2, <4>1 DEF FrozenInv
      <4>3. pin' = [pin EXCEPT ![o].state = "removed"] /\ chan[req[r].ch].status = "active"
          BY <3>2, <4>1 DEF RemovesPin
      <4>4. pin'[o].chan = pin[o].chan
          BY <1>2, <4>2, PinsStay
      <4>5. p # o
          BY <2>4, <4>2, <4>3, <4>4
      <4> QED BY <4>3, <4>5, Typed
    <3> QED BY <2>0, <3>1, <3>2 DEF PinMoves
  <2> QED BY <2>1, <2>2, <2>3, <2>4
<1>3. CASE UNCHANGED vars
    BY <1>1, <1>3 DEF vars, tables
<1>4. CASE EnvironmentMoves
    BY <1>1, <1>4 DEF EnvironmentMoves, Lapses
<1>5. ASSUME NEW r \in Request, ArrivalOf(r) PROVE UNCHANGED <<chan, msg, task, pin>>
    BY <1>5 DEF ArrivalOf, tables
<1> QED BY <1>1, <1>2, <1>3, <1>4, <1>5, NextMoves

\* Nothing is written to a channel that is archived, and it stays archived.
THEOREM ArchivedStaysFrozen == Spec => ArchivedIsFrozen
<1>1. WInv /\ FrozenInv /\ [Next]_vars =>
          [\A c \in ChanId : chan[c].status = "archived" =>
              /\ chan'[c].status = "archived"
              /\ \A m \in ObjId : msg'[m].chan = c => msg[m].chan = c
              /\ \A t \in ObjId : task'[t].status # "absent" /\ task'[t].chan = c => task'[t] = task[t]
              /\ \A p \in Request : pin'[p].chan = c => pin'[p].state = pin[p].state]_vars
    BY FrozenAction
<1> QED BY <1>1, RowsFitAlways, FrozenStarts, FrozenStep, PTL DEF Spec, ArchivedIsFrozen

-----------------------------------------------------------------------------
(***************************************************************************)
(* No update of a task is lost.                                            *)
(***************************************************************************)

\* The row an update is made from is an earlier one of its task, or the one that is there.
Earlier(seen, row) == seen.rev <= row.rev /\ (seen.rev = row.rev => seen = row)

TaskInv ==
    /\ \A t \in ObjId : task[t].status # "absent" => task[t].revs = 1..task[t].rev
    /\ \A r \in Request : task[r].status # "absent" =>
           req[r].kind = "task.create" /\ req[r].pc \in Late
    /\ \A r \in Request : req[r].kind = "task.update" /\ req[r].pc # "new" =>
           task[req[r].obj].status # "absent"
    /\ \A r \in Request : req[r].kind = "task.update" /\ req[r].pc = "write" =>
           /\ Earlier(req[r].seen.task, task[req[r].obj])
           /\ canTransitionTask(req[r].seen.task.status, req[r].st)

\* A task changes by its next revision, along a legal transition, and its revisions are
\* numbered without a gap: the unique index refuses an update made from an older row.
TaskGrows(t) ==
    /\ task'[t].rev = task[t].rev + 1 /\ task'[t].revs = 1..task'[t].rev
    /\ task'[t].status \in TaskStatus
    /\ canTransitionTask(task[t].status, task'[t].status)

\* A stored task is left alone, or gains one revision by an allowed transition.
LEMMA TasksGrow ==
    ASSUME WInv, TaskInv, NEW r \in Request, Moves(r), NEW t \in ObjId,
           task[t].status # "absent"
    PROVE  task'[t] = task[t] \/ TaskGrows(t)
<1>1. CASE task' = task
    BY <1>1
<1>2. CASE req[r].kind = "task.create" /\ req[r].pc = "run" /\ InsertsTask(r)
  <2>1. t # r
      BY <1>2 DEF TaskInv, Late
  <2> QED BY <1>2, <2>1 DEF InsertsTask
<1>3. CASE req[r].kind = "task.update" /\ req[r].pc = "write" /\ UpdatesTask(r)
  <2>1. PICK o \in ObjId, old \in TaskRow, row \in TaskRow, st \in TaskStatus :
            o = req[r].obj /\ old = req[r].seen.task /\ row = task[o] /\ st = req[r].st
      BY <1>3, StandsAt, Typed, RowFields DEF Fits, OnObject
  <2>2. CASE t # o
      BY <1>3, <2>1, <2>2 DEF UpdatesTask
  <2>3. CASE t = o
    <3>1. /\ task'[o].status = st /\ task'[o].rev = old.rev + 1
          /\ old.rev + 1 \notin row.revs /\ task'[o].revs = row.revs \cup {old.rev + 1}
        BY <1>3, <2>1 DEF UpdatesTask
    <3>2. row.revs = 1..row.rev
        BY <2>1, <2>3 DEF TaskInv
    <3>3. old.rev <= row.rev /\ (old.rev = row.rev => old = row) /\ canTransitionTask(old.status, st)
        BY <1>3, <2>1 DEF TaskInv, Earlier
    <3>4. old.rev \in Nat /\ row.rev \in Nat
        BY DEF TaskRow
    <3>5. old.rev = row.rev
        BY <3>1, <3>2, <3>3, <3>4
    <3>6. 1..row.rev \cup {row.rev + 1} = 1..(row.rev + 1)
        BY <3>4
    <3>7. old = row
        BY <3>3, <3>5
    <3>8. task'[t].rev = task[t].rev + 1 /\ canTransitionTask(task[t].status, task'[t].status)
        BY <2>1, <2>3, <3>1, <3>3, <3>7
    <3>9. task'[t].revs = 1..task'[t].rev
        BY <2>3, <3>1, <3>2, <3>5, <3>6
    <3> QED BY <2>1, <2>3, <3>1, <3>8, <3>9 DEF TaskGrows
  <2> QED BY <2>2, <2>3
<1> QED BY <1>1, <1>2, <1>3 DEF Moves, TableMoves, TaskMoves

\* A row seen stays an earlier one.
LEMMA EarlierStays ==
    ASSUME WInv, TaskInv, NEW r \in Request, Moves(r), NEW t \in ObjId, NEW seen \in TaskRow,
           task[t].status # "absent", Earlier(seen, task[t])
    PROVE  Earlier(seen, task'[t])
<1>1. CASE task'[t] = task[t]
    BY <1>1
<1>2. CASE TaskGrows(t)
  <2>1. seen.rev \in Nat /\ task[t].rev \in Nat
      BY Typed DEF TaskRow
  <2> QED BY <1>2, <2>1 DEF Earlier, TaskGrows
<1> QED BY <1>1, <1>2, TasksGrow

\* A step of a request keeps the task invariant.
LEMMA TaskMovesKeep ==
    ASSUME WInv, TaskInv, NEW r \in Request, Moves(r)
    PROVE  TaskInv'
<1>0. StepOf(r) /\ RowMoves(r) /\ TaskMoves(r) /\ r \in ObjId
    BY StandsAt DEF Moves, TableMoves
<1>1. ASSUME NEW t \in ObjId, task'[t].status # "absent"
      PROVE  /\ task'[t].revs = 1..task'[t].rev
             /\ t \in Request => req'[t].kind = "task.create" /\ req'[t].pc \in Late
  <2>1. CASE task[t].status # "absent"
    <3>1. task'[t].revs = 1..task'[t].rev
        BY <2>1, TasksGrow DEF TaskGrows, TaskInv
    <3>2. t \in Request => req'[t].kind = "task.create" /\ req'[t].pc \in Late
        BY <1>0, <2>1, CommandsStay DEF TaskInv, SameCommand
    <3> QED BY <3>1, <3>2
  <2>2. CASE task[t].status = "absent" /\ req[r].kind = "task.create" /\ InsertsTask(r)
    <3>1. t = r
        BY <1>1, <2>2 DEF InsertsTask
    <3>2. task'[r].rev = 1 /\ task'[r].revs = {1}
        BY <2>2 DEF InsertsTask
    <3>3. {1} = 1..1
        OBVIOUS
    <3>4. req'[r].kind = "task.create" /\ req'[r].pc \in Late
        BY <2>2 DEF InsertsTask, Succeeds, SameCommand, Late
    <3> QED BY <3>1, <3>2, <3>3, <3>4
  <2>3. CASE /\ task[t].status = "absent"
             /\ req[r].kind = "task.update" /\ req[r].pc = "write" /\ UpdatesTask(r)
    <3>1. task[req[r].obj].status # "absent"
        BY <2>3 DEF TaskInv
    <3> QED BY <1>1, <2>3, <3>1 DEF UpdatesTask
  <2> QED BY <1>0, <1>1, <2>1, <2>2, <2>3 DEF TaskMoves
<1>2. ASSUME NEW o \in Request, req'[o].kind = "task.update", req'[o].pc # "new"
      PROVE  /\ task'[req'[o].obj].status # "absent"
             /\ req'[o].pc = "write" =>
                  /\ Earlier(req'[o].seen.task, task'[req'[o].obj])
                  /\ canTransitionTask(req'[o].seen.task.status, req'[o].st)
  <2>1. req[o].kind = "task.update" /\ req[o].pc # "new" /\ req'[o].obj = req[o].obj
      BY <1>0, <1>2, CommandsStay DEF SameCommand
  <2>2. PICK t \in ObjId, seen \in TaskRow : t = req[o].obj /\ seen = req[o].seen.task
      BY <2>1, StandsAt, RowFields DEF Fits, OnObject
  <2>3. task[t].status # "absent"
      BY <2>1, <2>2 DEF TaskInv
  <2>4. task'[t].status # "absent"
      BY <2>3, TasksGrow DEF TaskGrows, TaskStatus
  <2>5. CASE o # r /\ req'[o].pc = "write"
    <3>1. req'[o] = req[o]
        BY <1>0, <2>5 DEF StepOf, Turns
    <3>2. Earlier(seen, task[t]) /\ canTransitionTask(seen.status, req[o].st)
        BY <2>1, <2>2, <2>5, <3>1 DEF TaskInv
    <3> QED BY <2>2, <2>3, <2>4, <3>1, <3>2, EarlierStays
  <2>6. CASE o = r /\ req'[o].pc = "write"
    <3>1. ReadsTask(r)
        BY <1>0, <2>1, <2>6 DEF RowMoves
    <3>2. Earlier(req'[r].seen.task, task[t]) /\ canTransitionTask(req'[r].seen.task.status, req'[r].st)
      <4>1. task[t].rev \in Nat
          BY Typed DEF TaskRow
      <4> QED BY <2>2, <2>6, <3>1, <4>1 DEF ReadsTask, SameCommand, Earlier
    <3>3. req'[r].seen.task \in TaskRow
        BY <1>0, RowFields DEF StepOf, Turns
    <3> QED BY <2>1, <2>2, <2>3, <2>4, <2>6, <3>2, <3>3, EarlierStays
  <2> QED BY <2>1, <2>2, <2>4, <2>5, <2>6
<1> QED BY <1>1, <1>2 DEF TaskInv, ObjId

\* A request that arrives keeps it.
LEMMA TaskArrival ==
    ASSUME WInv, TaskInv, NEW r \in Request, ArrivalOf(r)
    PROVE  TaskInv'
<1>1. task' = task /\ req[r].pc = "new" /\ req'[r].pc # "write"
    BY DEF ArrivalOf, tables
<1>2. ASSUME NEW o \in Request, o # r PROVE req'[o] = req[o]
    BY <1>2 DEF ArrivalOf, Turns
<1>3. task[r].status = "absent"
    BY <1>1 DEF TaskInv, Late
<1>4. req'[r].kind = "task.update" => task'[req'[r].obj].status # "absent"
    BY <1>1 DEF ArrivalOf, NamesRows
<1>5. \A o \in Request : task'[o].status # "absent" =>
           req'[o].kind = "task.create" /\ req'[o].pc \in Late
    BY <1>1, <1>2, <1>3 DEF TaskInv
<1>6. ASSUME NEW o \in Request, req'[o].kind = "task.update", req'[o].pc # "new"
      PROVE  /\ task'[req'[o].obj].status # "absent"
             /\ req'[o].pc = "write" =>
                  /\ Earlier(req'[o].seen.task, task'[req'[o].obj])
                  /\ canTransitionTask(req'[o].seen.task.status, req'[o].st)
  <2>1. CASE o = r
      BY <1>1, <1>4, <1>6, <2>1
  <2>2. CASE o # r
      BY <1>1, <1>2, <1>6, <2>2 DEF TaskInv
  <2> QED BY <2>1, <2>2
<1> QED BY <1>1, <1>5, <1>6 DEF TaskInv

\* Every step keeps it.
LEMMA TaskInvStep == WInv /\ TaskInv /\ [Next]_vars => TaskInv'
<1>1. ASSUME TaskInv, UNCHANGED <<task, req>> PROVE TaskInv'
    BY <1>1 DEF TaskInv
<1>2. ASSUME TaskInv, EnvironmentMoves PROVE TaskInv'
    BY <1>1, <1>2 DEF EnvironmentMoves, Lapses
<1>3. ASSUME TaskInv, UNCHANGED vars PROVE TaskInv'
    BY <1>1, <1>3 DEF vars, tables
<1> QED BY <1>2, <1>3, NextMoves, TaskMovesKeep, TaskArrival

\* It holds at the start.
LEMMA TaskStarts == Init => TaskInv
<1> SUFFICES ASSUME Init PROVE TaskInv
    OBVIOUS
<1>1. ASSUME NEW t \in ObjId, task[t].status # "absent" PROVE t = Old /\ task[t].revs = 1..task[t].rev
  <2>1. t = Old
      BY <1>1 DEF Init, InitTables, NoTask
  <2>2. task[t].rev = 1 /\ task[t].revs = {1}
      BY <2>1 DEF Init, InitTables, NoTask
  <2>3. {1} = 1..1
      OBVIOUS
  <2> QED BY <2>1, <2>2, <2>3
<1>2. \A r \in Request : req[r].pc = "new" /\ r # Old
    BY IdAssumption DEF Init, InitReceipts, NewReq
<1> QED BY <1>1, <1>2 DEF TaskInv, ObjId

\* Every write of a task builds on the row it replaces: its revision is the next one and its
\* status a legal successor, whatever two updates read before either wrote (ReadTask,
\* WriteTask and the unique index on task revisions).
THEOREM TaskUpdatesAreKept == Spec => NoLostTaskUpdate
<1>1. ASSUME WInv, TaskInv, [Next]_vars, NEW t \in ObjId,
             task[t].status # "absent", task'[t] # task[t]
      PROVE  /\ task'[t].rev = task[t].rev + 1
             /\ canTransitionTask(task[t].status, task'[t].status)
  <2>1. task' # task
      BY <1>1
  <2>2. Next
      BY <1>1, <2>1 DEF vars, tables
  <2>3. ~EnvironmentMoves /\ \A r \in Request : ~ArrivalOf(r)
      BY <2>1 DEF EnvironmentMoves, Lapses, ArrivalOf, tables
  <2>4. PICK r \in Request : Moves(r)
      BY <1>1, <2>2, <2>3, NextMoves
  <2> QED BY <1>1, <2>4, TasksGrow DEF TaskGrows
<1>2. WInv /\ TaskInv /\ [Next]_vars =>
          [\A t \in ObjId : task[t].status # "absent" /\ task'[t] # task[t] =>
              /\ task'[t].rev = task[t].rev + 1
              /\ canTransitionTask(task[t].status, task'[t].status)]_vars
    BY <1>1
<1> QED BY <1>2, RowsFitAlways, TaskStarts, TaskInvStep, PTL DEF Spec, NoLostTaskUpdate

-----------------------------------------------------------------------------
(***************************************************************************)
(* Memberships are what the configuration says.                            *)
(***************************************************************************)

\* A coworker's row and its memberships agree.
Agrees(row, ms) ==
    /\ row.status = "absent" => ms = {}
    /\ row.status # "absent" => ms = row.chans
    /\ row.status = "disabled" => row.chans = {} /\ row.grants = {}

\* An update that planned from the revision that is there has seen the memberships that are
\* there.
MemberInv ==
    /\ \A w \in Coworker : Agrees(cow[w], Members(w))
    /\ \A r \in Request : req[r].kind = "coworker.update" /\ req[r].pc \in {"plan", "write"} =>
           /\ cow[req[r].w].status # "absent" /\ req[r].seen.cow.rev <= cow[req[r].w].rev
           /\ req[r].pc = "write" /\ req[r].seen.cow.rev = cow[req[r].w].rev =>
                  req[r].seen.members = Members(req[r].w)

\* The coworker a request writes.
LEMMA OneCoworkerWritten ==
    ASSUME WInv, MemberInv, NEW r \in Request, Moves(r), NEW w \in Coworker
    PROVE  /\ Agrees(cow'[w], MembersAfter(w))
           /\ cow[w].status # "absent" =>
                  /\ cow'[w].status # "absent"
                  /\ \/ cow'[w] = cow[w] /\ MembersAfter(w) = Members(w)
                     \/ cow'[w].rev = cow[w].rev + 1
<1>0. Agrees(cow[w], Members(w)) /\ CowMoves(r)
    BY DEF MemberInv, Moves, TableMoves
<1>1. CASE cow'[w] = cow[w] /\ MembersAfter(w) = Members(w)
    BY <1>0, <1>1
<1>2. CASE UNCHANGED <<part, cow>>
    BY <1>1, <1>2 DEF Members, MembersAfter
<1>3. CASE w # req[r].w /\ OnlyCoworker(req[r].w)
    BY <1>1, <1>3 DEF OnlyCoworker
<1>4. CASE w = req[r].w /\ JoinsOrLeaves(r)
    BY <1>0, <1>4 DEF JoinsOrLeaves, Agrees
<1>5. CASE /\ w = req[r].w /\ UpdatesCoworker(r)
           /\ req[r].kind = "coworker.update" /\ req[r].pc = "write"
  <2>1. req[r].seen.members = Members(w)
      BY <1>5 DEF MemberInv, UpdatesCoworker
  <2> QED BY <1>5, <2>1 DEF UpdatesCoworker, Agrees
<1>6. CASE w = req[r].w /\ DisablesCoworker(r)
    BY <1>6 DEF DisablesCoworker, Agrees
<1>7. CASE w = req[r].w /\ MakesCoworker(r)
    BY <1>0, <1>7 DEF MakesCoworker, Agrees
<1> QED BY <1>0, <1>2, <1>3, <1>4, <1>5, <1>6, <1>7
        DEF CowMoves, JoinsOrLeaves, UpdatesCoworker, DisablesCoworker, MakesCoworker

\* A step of a request keeps the memberships and the configurations in agreement.
LEMMA MemberMoves ==
    ASSUME WInv, MemberInv, NEW r \in Request, Moves(r)
    PROVE  MemberInv'
<1>0. StepOf(r) /\ RowMoves(r)
    BY DEF Moves
<1>1. \A w \in Coworker : Members(w)' = MembersAfter(w)
    BY DEF Members, MembersAfter
<1>2. \A w \in Coworker : Agrees(cow'[w], MembersAfter(w))
    BY OneCoworkerWritten
<1>3. ASSUME NEW o \in Request, req'[o].kind = "coworker.update", req'[o].pc \in {"plan", "write"}
      PROVE  /\ cow'[req'[o].w].status # "absent" /\ req'[o].seen.cow.rev <= cow'[req'[o].w].rev
             /\ req'[o].pc = "write" /\ req'[o].seen.cow.rev = cow'[req'[o].w].rev =>
                    req'[o].seen.members = MembersAfter(req'[o].w)
  <2>1. /\ req[o].kind = "coworker.update" /\ req[o].pc \notin {"new", "done", "dead"}
        /\ req'[o].w = req[o].w
    <3>1. CASE o = r
        BY <1>0, <1>3, <3>1 DEF StepOf, Runs, SameCommand
    <3>2. CASE o # r
        BY <1>0, <1>3, <3>2 DEF StepOf, Turns
    <3> QED BY <3>1, <3>2
  <2>2. PICK w \in Coworker, seen \in CowRow : w = req[o].w /\ seen = req[o].seen.cow
      BY <2>1, StandsAt, RowFields DEF Fits, OnCoworker
  <2>3. req[o].pc \in {"plan", "write"}
      BY <2>1, StandsAt DEF Fits
  <2>4. cow[w].status # "absent" /\ seen.rev <= cow[w].rev
      BY <2>1, <2>2, <2>3 DEF MemberInv
  <2>5. seen.rev \in Nat /\ cow[w].rev \in Nat
      BY Typed DEF CowRow
  <2>6. req'[o].seen.cow = seen
    <3>1. CASE o = r
      <4>1. PlansUpdate(r)
          BY <1>0, <1>3, <2>1, <3>1 DEF RowMoves
      <4> QED BY <2>2, <3>1, <4>1 DEF PlansUpdate
    <3>2. CASE o # r
        BY <1>0, <2>2, <3>2 DEF StepOf, Turns
    <3> QED BY <3>1, <3>2
  <2>7. cow'[w].status # "absent"
      BY <2>4, OneCoworkerWritten
  <2>8. CASE cow'[w].rev = cow[w].rev + 1
    <3>1. seen.rev <= cow'[w].rev /\ seen.rev # cow'[w].rev
        BY <2>4, <2>5, <2>8
    <3> QED BY <2>1, <2>2, <2>6, <2>7, <3>1
  <2>9. CASE cow'[w] = cow[w] /\ MembersAfter(w) = Members(w)
    <3>1. ASSUME req'[o].pc = "write", seen.rev = cow[w].rev
          PROVE  req'[o].seen.members = Members(w)
      <4>1. CASE o = r
        <5>1. PlansUpdate(r)
            BY <1>0, <1>3, <2>1, <3>1, <4>1 DEF RowMoves
        <5> QED BY <2>2, <4>1, <5>1 DEF PlansUpdate
      <4>2. CASE o # r
        <5>1. req'[o] = req[o]
            BY <1>0, <4>2 DEF StepOf, Turns
        <5> QED BY <2>1, <2>2, <3>1, <5>1 DEF MemberInv
      <4> QED BY <4>1, <4>2
    <3> QED BY <2>1, <2>2, <2>4, <2>6, <2>7, <2>9, <3>1
  <2> QED BY <2>4, <2>8, <2>9, OneCoworkerWritten
<1>4. ASSUME NEW o \in Request, req'[o].kind = "coworker.update", req'[o].pc \in {"plan", "write"}
      PROVE  req'[o].w \in Coworker
    BY <1>0, <1>4 DEF StepOf, WInv, RequestsOK, Fits, OnCoworker
<1> QED BY <1>1, <1>2, <1>3, <1>4 DEF MemberInv

\* A request that arrives keeps them.
LEMMA MemberArrival ==
    ASSUME WInv, MemberInv, NEW r \in Request, ArrivalOf(r)
    PROVE  MemberInv'
<1>1. cow' = cow /\ part' = part
    BY DEF ArrivalOf, tables
<1>2. \A w : Members(w)' = Members(w)
    BY <1>1 DEF Members
<1>3. ASSUME NEW o \in Request, o # r PROVE req'[o] = req[o]
    BY <1>3 DEF ArrivalOf, Turns
<1>4. ASSUME req'[r].kind = "coworker.update", req'[r].pc \in {"plan", "write"}
      PROVE  /\ req'[r].pc = "plan" /\ cow[req'[r].w].status # "absent"
             /\ req'[r].seen.cow.rev <= cow[req'[r].w].rev
  <2>1. PICK w \in Coworker : w = req'[r].w
      BY <1>4 DEF ArrivalOf, Fits, OnCoworker
  <2>2. req'[r].pc = "plan" /\ cow[w].status = "active" /\ req'[r].seen.cow = cow[w]
      BY <1>4, <2>1 DEF ArrivalOf, NamesRows
  <2>3. cow[w].rev \in Nat
      BY Typed DEF CowRow
  <2> QED BY <2>1, <2>2, <2>3
<1>5. ASSUME NEW o \in Request, req'[o].kind = "coworker.update", req'[o].pc \in {"plan", "write"}
      PROVE  /\ cow[req'[o].w].status # "absent" /\ req'[o].seen.cow.rev <= cow[req'[o].w].rev
             /\ req'[o].pc = "write" /\ req'[o].seen.cow.rev = cow[req'[o].w].rev =>
                    req'[o].seen.members = Members(req'[o].w)
  <2>1. CASE o = r
      BY <1>4, <1>5, <2>1
  <2>2. CASE o # r
      BY <1>3, <1>5, <2>2 DEF MemberInv
  <2> QED BY <2>1, <2>2
<1> QED BY <1>1, <1>2, <1>5 DEF MemberInv

\* Every step keeps them.
LEMMA MemberInvStep == WInv /\ MemberInv /\ [Next]_vars => MemberInv'
<1>1. ASSUME MemberInv, UNCHANGED <<part, cow, req>> PROVE MemberInv'
  <2>1. \A w : Members(w)' = Members(w)
      BY <1>1 DEF Members
  <2> QED BY <1>1, <2>1 DEF MemberInv
<1>2. ASSUME MemberInv, EnvironmentMoves PROVE MemberInv'
    BY <1>1, <1>2 DEF EnvironmentMoves, Lapses
<1>3. ASSUME MemberInv, UNCHANGED vars PROVE MemberInv'
    BY <1>1, <1>3 DEF vars, tables
<1> QED BY <1>2, <1>3, NextMoves, MemberMoves, MemberArrival

\* They agree at the start.
LEMMA MemberStarts == Init => MemberInv
<1> SUFFICES ASSUME Init PROVE MemberInv
    OBVIOUS
<1>1. \A r \in Request : req[r].pc = "new"
    BY DEF Init, InitReceipts, NewReq
<1>2. ASSUME NEW w \in Coworker PROVE Agrees(cow[w], Members(w))
  <2>1. Members(w) = IF w \in Member THEN Channel ELSE {}
      BY DEF Init, InitTables, Members
  <2>2. CASE w \in Staff
      BY <2>1, <2>2 DEF Init, InitTables, Agrees
  <2>3. CASE w \notin Staff
      BY <2>1, <2>3, StaffAssumption DEF Init, InitTables, NoCow, Agrees
  <2> QED BY <2>2, <2>3
<1> QED BY <1>1, <1>2 DEF MemberInv

\* The channels of a coworker's configuration are the channels it is a member of, in every
\* state: an update that planned from memberships that have changed since finds another
\* config_revision (commitCoworkerUpdate).
THEOREM MembershipsMatch == Spec => []MembershipMatchesConfig
<1>1. MemberInv => MembershipMatchesConfig
    BY DEF MemberInv, Agrees, Members, MembershipMatchesConfig
<1> QED BY <1>1, RowsFitAlways, MemberStarts, MemberInvStep, PTL DEF Spec

-----------------------------------------------------------------------------
(***************************************************************************)
(* One provider session.                                                   *)
(***************************************************************************)

\* A session made late is one of a closed window; two of a spec are both late.
OneSession(row) ==
    /\ \A s \in row.made : s.late => row.closed
    /\ \A s1, s2 \in row.made : s1 # s2 /\ s1.spec = s2.spec => s1.late /\ s2.late

SessionInv == \A c \in Channel, w \in Coworker : OneSession(csess[c][w])

\* Of the rows of a session that a step writes, only these two columns matter.
LEMMA SameSessions ==
    ASSUME NEW p, NEW q, p.made = q.made, q.closed => p.closed, OneSession(q)
    PROVE  OneSession(p)
BY DEF OneSession

\* A step of a request makes no second session that is still open.
LEMMA SessionMoves ==
    ASSUME WInv, SessionInv, NEW r \in Request, Moves(r)
    PROVE  SessionInv'
<1> SUFFICES ASSUME NEW c \in Channel, NEW w \in Coworker PROVE OneSession(csess'[c][w])
    BY DEF SessionInv
<1>1. OneSession(csess[c][w])
    BY DEF SessionInv
<1>2. CASE SessionsKept
    BY <1>1, <1>2, SameSessions DEF SessionsKept
<1>3. CASE CreatesSession(r)
  <2>1. CASE c # req[r].ch \/ w # req[r].w
      BY <1>1, <1>3, <2>1 DEF CreatesSession
  <2>2. CASE c = req[r].ch /\ w = req[r].w
    <3>1. PICK q \in SessRow, spec \in Nat : q = csess[c][w] /\ spec = req[r].seen.cow.spec
      <4>1. csess[c][w] \in SessRow /\ req[r].seen.cow \in CowRow
          BY Typed, StandsAt, RowFields
      <4> QED BY <4>1 DEF CowRow
    <3> DEFINE new == [by |-> r, spec |-> spec, late |-> q.closed]
    <3>2. /\ csess'[c][w].made = q.made \cup {new} /\ csess'[c][w].closed = q.closed
          /\ {s \in q.made : s.spec = spec /\ ~s.late} = {}
        BY <1>3, <2>2, <3>1 DEF CreatesSession, reconcileProviderSession
    <3>3. q.closed \in BOOLEAN /\ \A s \in q.made : s.late \in BOOLEAN
        BY DEF SessRow
    <3>4. OneSession(q)
        BY <1>1, <3>1
    <3>5. \A s \in q.made : s.spec = spec => s.late /\ q.closed
        BY <3>2, <3>3, <3>4 DEF OneSession
    <3>6. new.spec = spec /\ new.late = q.closed
        OBVIOUS
    <3> HIDE DEF new
    <3> QED BY <3>2, <3>4, <3>5, <3>6 DEF OneSession
  <2> QED BY <2>1, <2>2
<1> QED BY <1>2, <1>3 DEF Moves, TableMoves, SessMoves

\* Every step keeps one provider session in a channel for a coworker.
LEMMA SessionInvStep == WInv /\ SessionInv /\ [Next]_vars => SessionInv'
<1>1. ASSUME SessionInv, csess' = csess PROVE SessionInv'
    BY <1>1 DEF SessionInv
<1>2. ASSUME SessionInv, EnvironmentMoves PROVE SessionInv'
  <2>1. CASE csess' = csess
      BY <1>1, <1>2, <2>1
  <2>2. ASSUME NEW c \in Channel, NEW w \in Coworker,
               csess'[c][w].made = csess[c][w].made, csess'[c][w].closed,
               \A d \in Channel, v \in Coworker : d # c \/ v # w => csess'[d][v] = csess[d][v]
        PROVE  SessionInv'
      BY <1>2, <2>2, SameSessions DEF SessionInv
  <2> QED BY <1>2, <2>1, <2>2 DEF EnvironmentMoves, Lapses
<1>3. ASSUME SessionInv, NEW r \in Request, ArrivalOf(r) PROVE SessionInv'
    BY <1>1, <1>3 DEF ArrivalOf, tables
<1>4. ASSUME SessionInv, UNCHANGED vars PROVE SessionInv'
    BY <1>1, <1>4 DEF vars, tables
<1> QED BY <1>2, <1>3, <1>4, NextMoves, SessionMoves

\* However many attempts to provision a coworker in a channel crash or lose the provider's
\* answer, they leave one session of a spec while the window is open: an attempt looks for
\* the sessions of the marker's window before it creates one (reconcileProviderSession).
THEOREM OneSessionIsMade == Spec => []OneProviderSession
<1>1. Init => SessionInv
    BY DEF Init, InitTables, SessionInv, OneSession
<1>2. SessionInv => OneProviderSession
    BY DEF SessionInv, OneSession, OneProviderSession
<1> QED BY <1>1, <1>2, RowsFitAlways, SessionInvStep, PTL DEF Spec

-----------------------------------------------------------------------------
(***************************************************************************)
(* Answers are true.                                                       *)
(***************************************************************************)

\* The message of a request is in the channel it was sent to.
MessageInv ==
    /\ \A r \in Request : msg[r].chan # NoRequest =>
           /\ req[r].kind = "channel.message" /\ req[r].pc \in Late
           /\ msg[r].chan = req[r].ch
    /\ \A r \in Request : req[r].kind = "channel.message" /\ req[r].pc = "fanout" =>
           msg[r].chan = req[r].ch

\* A message that is stored stays where it is, with its run.
LEMMA MessagesStay ==
    ASSUME WInv, MessageInv, NEW r \in Request, Moves(r), NEW m \in ObjId, msg[m].chan # NoRequest
    PROVE  msg'[m].chan = msg[m].chan /\ (msg[m].run => msg'[m].run)
<1>1. msg \in [ObjId -> MsgRow] /\ msg[m] \in MsgRow
    BY Typed
<1>2. CASE req[r].kind = "channel.message" /\ req[r].pc = "run" /\ StoresMessage(r)
  <2>1. m # r
      BY <1>2 DEF MessageInv, Late
  <2> QED BY <1>1, <1>2, <2>1 DEF StoresMessage
<1>3. ASSUME NEW o, msg' = CreateRun(o)
      PROVE  msg'[m].chan = msg[m].chan /\ (msg[m].run => msg'[m].run)
    BY <1>1, <1>3, RunMade
<1> QED BY <1>2, <1>3 DEF Moves, TableMoves, MsgMoves

\* A step of a request keeps a stored message with its own command's channel.
LEMMA MessageMoves ==
    ASSUME WInv, MessageInv, NEW r \in Request, Moves(r)
    PROVE  MessageInv'
<1>0. StepOf(r) /\ RowMoves(r) /\ MsgMoves(r) /\ r \in ObjId
    BY StandsAt DEF Moves, TableMoves
<1>1. ASSUME NEW o \in Request, msg'[o].chan # NoRequest
      PROVE  /\ req'[o].kind = "channel.message" /\ req'[o].pc \in Late
             /\ msg'[o].chan = req'[o].ch
  <2>0. o \in ObjId /\ msg \in [ObjId -> MsgRow]
      BY StandsAt, Typed
  <2>1. CASE msg[o].chan # NoRequest
    <3>1. req[o].kind = "channel.message" /\ req[o].pc \in Late /\ msg[o].chan = req[o].ch
        BY <2>1 DEF MessageInv
    <3> QED BY <1>0, <2>0, <2>1, <3>1, CommandsStay, MessagesStay DEF SameCommand
  <2>2. CASE msg[o].chan = NoRequest
    <3>1. ASSUME NEW m, msg' = CreateRun(m) PROVE FALSE
        BY <1>1, <2>0, <2>2, <3>1, RunMade
    <3>2. StoresMessage(r) /\ req[r].kind = "channel.message"
        BY <1>0, <1>1, <2>2, <3>1 DEF MsgMoves
    <3>3. o = r
        BY <1>1, <2>0, <2>2, <3>2 DEF StoresMessage
    <3>4. msg'[r].chan = req[r].ch
        BY <1>0, <2>0, <3>2 DEF StoresMessage, MsgRow
    <3> QED BY <3>2, <3>3, <3>4 DEF StoresMessage, Goes, SameCommand, Late
  <2> QED BY <2>1, <2>2
<1>2. ASSUME NEW o \in Request, req'[o].kind = "channel.message", req'[o].pc = "fanout"
      PROVE  msg'[o].chan = req'[o].ch
  <2>0. o \in ObjId /\ req[o].ch \in Channel /\ NoRequest \notin Channel
      BY StandsAt, IdAssumption
  <2>1. CASE o = r
    <3>1. StoresMessage(r)
        BY <1>0, <1>2, <2>1, CommandsStay DEF RowMoves, SameCommand
    <3> QED BY <1>0, <2>1, <3>1, Typed DEF StoresMessage, Goes, MsgRow
  <2>2. CASE o # r
    <3>1. req'[o] = req[o]
        BY <1>0, <2>2 DEF StepOf, Turns
    <3>2. msg[o].chan = req[o].ch
        BY <1>2, <3>1 DEF MessageInv
    <3> QED BY <2>0, <3>1, <3>2, MessagesStay
  <2> QED BY <2>1, <2>2
<1> QED BY <1>1, <1>2 DEF MessageInv

\* A draft of a request is made when the request has run, a request names a draft that is
\* there, and a draft that is ready has its coworker.
DraftInv ==
    /\ \A r \in Request : draft[r].state # "absent" =>
           \/ req[r].kind = "coworker.draft.create" /\ req[r].pc \in Late
           \/ req[r].kind = "coworker.draft.revise" /\ req[r].pc \in Late \ {"fanout"}
    /\ \A r \in Request :
           /\ req[r].kind \in {"coworker.draft.revise", "coworker.draft.confirm",
                               "coworker.draft.reject"}
           /\ req[r].pc # "new"
           => draft[req[r].obj].state # "absent" /\ draft[req[r].obj].who = req[r].w
    /\ \A d \in ObjId : draft[d].state = "ready" => cow[draft[d].who].status # "absent"

\* A draft that is there stays, for the same coworker.
LEMMA DraftsStay ==
    ASSUME WInv, DraftInv, NEW r \in Request, Moves(r), NEW d \in ObjId, draft[d].state # "absent"
    PROVE  /\ draft'[d].state # "absent" /\ draft'[d].who = draft[d].who
           /\ draft'[d].state = "ready" =>
                \/ draft[d].state = "ready"
                \/ /\ d = req[r].obj /\ MakesCoworker(r)
                   /\ req[r].kind \in {"coworker.draft.revise", "coworker.draft.confirm",
                                      "coworker.draft.reject"}
<1>1. CASE draft' = draft
    BY <1>1
<1>2. CASE InsertsDraft(r) /\ \/ req[r].kind = "coworker.draft.create" /\ req[r].pc = "run"
                              \/ req[r].kind = "coworker.draft.revise" /\ req[r].pc = "fanout"
  <2>1. d # r
      BY <1>2 DEF DraftInv, Late
  <2> QED BY <1>2, <2>1 DEF InsertsDraft
<1>3. ASSUME NEW state \in {"superseded", "rejected", "expired", "failed_provisioning"},
             DraftMoved(req[r].obj, state)
      PROVE  /\ draft'[d].state # "absent" /\ draft'[d].who = draft[d].who
             /\ draft'[d].state = "ready" => draft[d].state = "ready"
    BY <1>3 DEF DraftMoved
<1>4. CASE /\ DraftMoved(req[r].obj, "ready") /\ MakesCoworker(r)
           /\ req[r].kind \in {"coworker.draft.revise", "coworker.draft.confirm",
                              "coworker.draft.reject"}
    BY <1>4 DEF DraftMoved
<1> QED BY <1>1, <1>2, <1>3, <1>4 DEF Moves, TableMoves, DraftMoves

\* A step of a request keeps confirmed drafts and their coworkers in agreement.
LEMMA DraftInvMoves ==
    ASSUME WInv, MemberInv, DraftInv, NEW r \in Request, Moves(r)
    PROVE  DraftInv'
<1>0. StepOf(r) /\ RowMoves(r) /\ DraftMoves(r) /\ r \in ObjId
    BY StandsAt DEF Moves, TableMoves
<1>1. ASSUME NEW d \in ObjId, draft[d].state = "absent", draft'[d].state # "absent"
      PROVE  d = r /\ InsertsDraft(r) /\ draft'[d].state = "awaiting_review"
  <2>1. CASE InsertsDraft(r)
      BY <1>1, <2>1 DEF InsertsDraft, Reviewable
  <2>2. ASSUME NEW state, DraftMoved(req[r].obj, state),
               req[r].kind \in {"coworker.draft.revise", "coworker.draft.reject", "coworker.draft.confirm"}
        PROVE  FALSE
    <3>1. req[r].pc # "new"
        BY <1>0 DEF StepOf, Runs
    <3>2. draft[req[r].obj].state # "absent"
        BY <2>2, <3>1 DEF DraftInv
    <3> QED BY <1>1, <2>2, <3>2 DEF DraftMoved
  <2> QED BY <1>0, <1>1, <2>1, <2>2 DEF DraftMoves
<1>2. ASSUME NEW o \in Request, draft'[o].state # "absent"
      PROVE  \/ req'[o].kind = "coworker.draft.create" /\ req'[o].pc \in Late
             \/ req'[o].kind = "coworker.draft.revise" /\ req'[o].pc \in Late \ {"fanout"}
  <2>0. o \in ObjId
      BY StandsAt
  <2>1. CASE draft[o].state # "absent"
    <3>1. \/ req[o].kind = "coworker.draft.create" /\ req[o].pc \in Late
          \/ req[o].kind = "coworker.draft.revise" /\ req[o].pc \in Late \ {"fanout"}
        BY <2>1 DEF DraftInv
    <3>2. req'[o].kind = req[o].kind /\ req'[o].pc \in Late
        BY <1>0, <3>1, CommandsStay DEF SameCommand
    <3>3. req'[o].pc = "fanout" => req[o].pc \notin Late \/ req'[o] = req[o]
      <4>1. CASE o = r
          BY <1>0, <4>1 DEF RowMoves
      <4>2. CASE o # r
          BY <1>0, <4>2 DEF StepOf, Turns
      <4> QED BY <4>1, <4>2
    <3> QED BY <3>1, <3>2, <3>3
  <2>2. CASE draft[o].state = "absent"
    <3>1. o = r /\ InsertsDraft(r) /\ draft' # draft
        BY <1>1, <1>2, <2>0, <2>2
    <3>2. req'[r].kind = req[r].kind
        BY <1>0, CommandsStay DEF SameCommand
    <3>3. ASSUME NEW state, DraftMoved(req[r].obj, state),
                 req[r].kind \in {"coworker.draft.revise", "coworker.draft.reject", "coworker.draft.confirm"}
          PROVE  FALSE
      <4>1. req[r].pc # "new"
          BY <1>0 DEF StepOf, Runs
      <4>2. draft[req[r].obj].state # "absent"
          BY <3>3, <4>1 DEF DraftInv
      <4> QED BY <1>2, <2>0, <2>2, <3>3, <4>2 DEF DraftMoved
    <3> QED BY <1>0, <3>1, <3>2, <3>3 DEF DraftMoves, Late
  <2> QED BY <2>1, <2>2
<1>3. ASSUME NEW o \in Request, req'[o].pc # "new",
             req'[o].kind \in {"coworker.draft.revise", "coworker.draft.confirm", "coworker.draft.reject"}
      PROVE  draft'[req'[o].obj].state # "absent" /\ draft'[req'[o].obj].who = req'[o].w
  <2>1. /\ req[o].pc # "new" /\ req[o].kind = req'[o].kind
        /\ req[o].obj = req'[o].obj /\ req[o].w = req'[o].w
      BY <1>0, <1>3, CommandsStay DEF SameCommand
  <2>2. PICK d \in ObjId : d = req[o].obj
      BY <1>3, <2>1, StandsAt DEF Fits, OnObject
  <2>3. draft[d].state # "absent" /\ draft[d].who = req[o].w
      BY <1>3, <2>1, <2>2 DEF DraftInv
  <2> QED BY <2>1, <2>2, <2>3, DraftsStay
<1>4. ASSUME NEW d \in ObjId, draft'[d].state = "ready"
      PROVE  cow'[draft'[d].who].status # "absent"
  <2>1. draft[d].state # "absent"
      BY <1>1, <1>4
  <2>2. PICK w \in Coworker : w = draft[d].who
      BY Typed DEF DraftRow
  <2>3. draft'[d].who = w
      BY <2>1, <2>2, DraftsStay
  <2>4. CASE draft[d].state = "ready"
    <3>1. cow[w].status # "absent"
        BY <2>2, <2>4 DEF DraftInv
    <3> QED BY <2>3, <3>1, OneCoworkerWritten
  <2>5. CASE /\ d = req[r].obj /\ MakesCoworker(r)
             /\ req[r].kind \in {"coworker.draft.revise", "coworker.draft.confirm",
                                "coworker.draft.reject"}
    <3>1. req[r].pc # "new"
        BY <1>0 DEF StepOf, Runs
    <3>2. w = req[r].w
        BY <2>2, <2>5, <3>1 DEF DraftInv
    <3> QED BY <2>3, <2>5, <3>2 DEF MakesCoworker
  <2> QED BY <1>4, <2>1, <2>4, <2>5, DraftsStay
<1> QED BY <1>2, <1>3, <1>4 DEF DraftInv

\* A request that arrives keeps both.
LEMMA MessageArrival ==
    ASSUME WInv, MessageInv, DraftInv, NEW r \in Request, ArrivalOf(r)
    PROVE  MessageInv' /\ DraftInv'
<1>1. /\ msg' = msg /\ draft' = draft /\ cow' = cow
      /\ req[r].pc = "new" /\ req'[r].pc \in {"claim", "replay", "plan", "done"}
    BY DEF ArrivalOf, tables
<1>2. ASSUME NEW o \in Request, o # r PROVE req'[o] = req[o]
    BY <1>2 DEF ArrivalOf, Turns
<1>3. msg[r].chan = NoRequest /\ draft[r].state = "absent"
    BY <1>1 DEF MessageInv, DraftInv, Late
<1>4. MessageInv'
  <2>1. ASSUME NEW o \in Request, msg[o].chan # NoRequest
        PROVE  /\ req'[o].kind = "channel.message" /\ req'[o].pc \in Late
               /\ msg[o].chan = req'[o].ch
      BY <1>2, <1>3, <2>1 DEF MessageInv
  <2>2. ASSUME NEW o \in Request, req'[o].kind = "channel.message", req'[o].pc = "fanout"
        PROVE  msg[o].chan = req'[o].ch
      BY <1>1, <1>2, <2>2 DEF MessageInv
  <2> QED BY <1>1, <2>1, <2>2 DEF MessageInv
<1>5. DraftInv'
  <2>1. ASSUME NEW o \in Request, draft[o].state # "absent"
        PROVE  \/ req'[o].kind = "coworker.draft.create" /\ req'[o].pc \in Late
               \/ req'[o].kind = "coworker.draft.revise" /\ req'[o].pc \in Late \ {"fanout"}
      BY <1>2, <1>3, <2>1 DEF DraftInv
  <2>2. ASSUME NEW o \in Request, req'[o].pc # "new",
               req'[o].kind \in {"coworker.draft.revise", "coworker.draft.confirm",
                                 "coworker.draft.reject"}
        PROVE  draft[req'[o].obj].state # "absent" /\ draft[req'[o].obj].who = req'[o].w
    <3>1. CASE o = r
        BY <1>1, <2>2, <3>1 DEF ArrivalOf, NamesRows
    <3>2. CASE o # r
        BY <1>2, <2>2, <3>2 DEF DraftInv
    <3> QED BY <3>1, <3>2
  <2>3. \A d \in ObjId : draft[d].state = "ready" => cow[draft[d].who].status # "absent"
      BY DEF DraftInv
  <2> QED BY <1>1, <2>1, <2>2, <2>3 DEF DraftInv
<1> QED BY <1>4, <1>5

\* Every step keeps both.
LEMMA MessageInvStep == WInv /\ MemberInv /\ MessageInv /\ DraftInv /\ [Next]_vars => MessageInv' /\ DraftInv'
<1>1. ASSUME MessageInv, DraftInv, UNCHANGED <<msg, draft, cow, req>> PROVE MessageInv' /\ DraftInv'
    BY <1>1 DEF MessageInv, DraftInv
<1>2. ASSUME WInv, MessageInv, DraftInv, EnvironmentMoves PROVE MessageInv' /\ DraftInv'
  <2>1. CASE UNCHANGED <<msg, draft, cow, req>>
      BY <1>1, <1>2, <2>1
  <2>2. CASE /\ \A d \in ObjId : draft'[d].state = draft[d].state /\ draft'[d].who = draft[d].who
             /\ UNCHANGED <<msg, cow, req>>
    <3>1. MessageInv'
        BY <1>2, <2>2 DEF MessageInv
    <3>2. DraftInv'
      <4>1. \A r \in Request : r \in ObjId
          BY DEF ObjId
      <4>2. \A r \in Request : req[r].kind \in OnObject /\ req[r].pc # "new" => req[r].obj \in ObjId
          BY <1>2, StandsAt DEF Fits
      <4> QED BY <1>2, <2>2, <4>1, <4>2 DEF DraftInv, OnObject
    <3> QED BY <3>1, <3>2
  <2> QED BY <1>2, <2>1, <2>2 DEF EnvironmentMoves, Lapses
<1>3. ASSUME MessageInv, DraftInv, UNCHANGED vars PROVE MessageInv' /\ DraftInv'
    BY <1>1, <1>3 DEF vars, tables
<1> QED BY <1>2, <1>3, NextMoves, MessageMoves, DraftInvMoves, MessageArrival

\* Both hold at the start.
LEMMA MessageStarts == Init => MessageInv /\ DraftInv
<1> SUFFICES ASSUME Init PROVE MessageInv /\ DraftInv
    OBVIOUS
<1>1. \A r \in Request : r # Old /\ r \in ObjId /\ req[r].pc = "new"
    BY IdAssumption DEF Init, InitReceipts, NewReq, ObjId
<1>2. \A r \in Request : msg[r].chan = NoRequest /\ draft[r].state = "absent"
    BY <1>1 DEF Init, InitTables, NoDraft
<1>3. ASSUME NEW d \in ObjId PROVE draft[d].state # "ready"
  <2>1. CASE d = Old
      BY <2>1 DEF Init, InitTables, NoDraft
  <2>2. CASE d # Old
      BY <2>2 DEF Init, InitTables, NoDraft
  <2> QED BY <2>1, <2>2
<1> QED BY <1>1, <1>2, <1>3 DEF MessageInv, DraftInv

\* The row x is there that an answer of a command of this kind says is there.
Stored(kind, ch, obj, x) ==
    /\ kind = "channel.create" => x \in Request /\ chan[x].status # "absent"
    /\ kind = "channel.message" => x \in ObjId /\ msg[x].run /\ msg[x].chan = ch
    /\ kind = "task.create" => x \in ObjId /\ task[x].status # "absent"
    /\ kind = "channel.pin.create" => x \in Request /\ pin[x].state # "absent" /\ pin[x].src = obj
    /\ kind = "channel.pin.remove" => obj \in Request /\ pin[obj].state = "removed"
    /\ kind = "coworker.draft.create" => x \in ObjId /\ draft[x].state # "absent"
    /\ kind = "coworker.draft.confirm" =>
           x \in ObjId /\ draft[x].state # "absent" /\ cow[draft[x].who].status # "absent"

StoredAfter(kind, ch, obj, x) ==
    /\ kind = "channel.create" => x \in Request /\ chan'[x].status # "absent"
    /\ kind = "channel.message" => x \in ObjId /\ msg'[x].run /\ msg'[x].chan = ch
    /\ kind = "task.create" => x \in ObjId /\ task'[x].status # "absent"
    /\ kind = "channel.pin.create" => x \in Request /\ pin'[x].state # "absent" /\ pin'[x].src = obj
    /\ kind = "channel.pin.remove" => obj \in Request /\ pin'[obj].state = "removed"
    /\ kind = "coworker.draft.create" => x \in ObjId /\ draft'[x].state # "absent"
    /\ kind = "coworker.draft.confirm" =>
           x \in ObjId /\ draft'[x].state # "absent" /\ cow'[draft'[x].who].status # "absent"

\* The invariants of the rows.
RowsInv == FrozenInv /\ TaskInv /\ MemberInv /\ MessageInv /\ DraftInv

\* What is there stays.
LEMMA StoredStays ==
    ASSUME WInv, RowsInv, NEW r \in Request, Moves(r),
           NEW kind, NEW ch \in Channel, NEW obj, NEW x, Stored(kind, ch, obj, x)
    PROVE  StoredAfter(kind, ch, obj, x)
<1>0. FrozenInv /\ TaskInv /\ MemberInv /\ MessageInv /\ DraftInv
    BY DEF RowsInv
<1>1. ASSUME kind = "channel.create" PROVE x \in Request /\ chan'[x].status # "absent"
  <2>1. x \in Request /\ chan[x].status # "absent" /\ x \in ChanId
      BY <1>1 DEF Stored, ChanId
  <2> QED BY <2>1 DEF Moves, TableMoves, ChanMoves, StatusesKept, StatusSet
<1>2. ASSUME kind = "channel.message" PROVE x \in ObjId /\ msg'[x].run /\ msg'[x].chan = ch
  <2>1. x \in ObjId /\ msg[x].run /\ msg[x].chan = ch /\ msg[x].chan # NoRequest
      BY <1>2, IdAssumption DEF Stored
  <2> QED BY <1>0, <2>1, MessagesStay
<1>3. ASSUME kind = "task.create" PROVE x \in ObjId /\ task'[x].status # "absent"
  <2>1. x \in ObjId /\ task[x].status # "absent"
      BY <1>3 DEF Stored
  <2> QED BY <1>0, <2>1, TasksGrow DEF TaskGrows, TaskStatus
<1>4. ASSUME kind = "channel.pin.create"
      PROVE  x \in Request /\ pin'[x].state # "absent" /\ pin'[x].src = obj
  <2>1. x \in Request /\ pin[x].state # "absent" /\ pin[x].src = obj
      BY <1>4 DEF Stored
  <2> QED BY <1>0, <2>1, PinsStay
<1>5. ASSUME kind = "channel.pin.remove" PROVE obj \in Request /\ pin'[obj].state = "removed"
  <2>1. obj \in Request /\ pin[obj].state = "removed"
      BY <1>5 DEF Stored
  <2> QED BY <1>0, <2>1, PinsStay
<1>6. ASSUME kind = "coworker.draft.create" PROVE x \in ObjId /\ draft'[x].state # "absent"
  <2>1. x \in ObjId /\ draft[x].state # "absent"
      BY <1>6 DEF Stored
  <2> QED BY <1>0, <2>1, DraftsStay
<1>7. ASSUME kind = "coworker.draft.confirm"
      PROVE  x \in ObjId /\ draft'[x].state # "absent" /\ cow'[draft'[x].who].status # "absent"
  <2>1. x \in ObjId /\ draft[x].state # "absent" /\ cow[draft[x].who].status # "absent"
      BY <1>7 DEF Stored
  <2>2. PICK w \in Coworker : w = draft[x].who
      BY <2>1, Typed DEF DraftRow
  <2>3. draft'[x].state # "absent" /\ draft'[x].who = w
      BY <1>0, <2>1, <2>2, DraftsStay
  <2>4. cow'[w].status # "absent"
      BY <1>0, <2>1, <2>2, OneCoworkerWritten
  <2> QED BY <2>1, <2>3, <2>4
<1> QED BY <1>1, <1>2, <1>3, <1>4, <1>5, <1>6, <1>7 DEF StoredAfter

\* A request that has been answered, or has made what it makes, answers with a row that is
\* there; a receipt with a result names one; a receipt of an insert names its owner's row.
AnswerInv ==
    /\ \A r \in Request : req[r].ans = "ok" \/ Provisioning(req[r]) \/ req[r].pc = "rebind" =>
           Stored(req[r].kind, req[r].ch, req[r].obj, req[r].res.obj)
    /\ \A r \in Request : req[r].kind = "coworker.draft.confirm" /\ req[r].pc \in Early =>
           req[r].left = {}
    /\ \A kind \in CommandKind, key \in Key :
           LET rc == getCommandReceipt(kind, key) IN
           /\ kind \in CachesResult /\ rc.done => Stored(kind, NullChannel, Old, rc.json)
           /\ kind = "channel.pin.create" /\ rc.final =>
                  rc.res.obj \in Request /\ pin[rc.res.obj].state # "absent"
           /\ kind \in Inserts /\ rc # NoReceipt => rc.res.obj \in Request

\* A stored result does not say in which channel it is.
LEMMA StoredAnywhere ==
    ASSUME NEW kind \in CachesResult, NEW ch, NEW obj, NEW ch2, NEW obj2, NEW x
    PROVE  /\ Stored(kind, ch, obj, x) => Stored(kind, ch2, obj2, x)
           /\ StoredAfter(kind, ch, obj, x) => StoredAfter(kind, ch2, obj2, x)
BY DEF CachesResult, Stored, StoredAfter

\* A request that is answered now is answered with a row that is there.
LEMMA ReplayedIsStored ==
    ASSUME WInv, RowsInv, AnswerInv, NEW r \in Request, Moves(r), ReplaysOk(r)
    PROVE  StoredAfter(req[r].kind, req[r].ch, req[r].obj, req'[r].res.obj)
<1> PICK kind \in CommandKind, key \in Key, ch \in Channel, obj \in ObjId \cup {NoRequest},
         rc \in ReceiptRow :
            /\ kind = req[r].kind /\ key = req[r].key /\ ch = req[r].ch /\ obj = req[r].obj
            /\ rc = Receipt(r)
    BY StandsAt, RowFields, Typed, ReceiptFound DEF ReplaysOk, Receipt
<1>1. /\ kind \in CachesResult /\ rc.done => Stored(kind, NullChannel, Old, rc.json)
      /\ kind = "channel.pin.create" /\ rc.final =>
             rc.res.obj \in Request /\ pin[rc.res.obj].state # "absent"
      /\ kind \in Inserts => rc.res.obj \in Request
    BY DEF AnswerInv, Receipt, ReplaysOk
<1>2. rc.res \in Result /\ rc.final \in BOOLEAN
    BY ReceiptFields
<1>3. CASE /\ kind = "channel.message" /\ NamesStored(r)
           /\ msg' = CreateRun(rc.res.obj) /\ req'[r].res = rc.res
  <2>1. PICK m \in ObjId : m = rc.res.obj /\ msg[m].chan = ch
      BY <1>1, <1>3 DEF NamesStored, Inserts, ObjId
  <2>2. msg'[m].run /\ msg'[m].chan = ch
      BY <1>3, <2>1, Typed, RunMade
  <2> QED BY <1>3, <2>1, <2>2 DEF StoredAfter
<1>4. CASE kind \in CachesResult /\ rc.done /\ req'[r].res = [rc.res EXCEPT !.obj = rc.json]
  <2>1. req'[r].res.obj = rc.json
      BY <1>2, <1>4 DEF Result
  <2>2. Stored(kind, ch, obj, rc.json)
      BY <1>1, <1>4, StoredAnywhere
  <2> QED BY <2>1, <2>2, StoredStays
<1>5. ASSUME UNCHANGED tables, Stored(kind, ch, obj, req'[r].res.obj)
      PROVE  StoredAfter(kind, ch, obj, req'[r].res.obj)
    BY <1>5 DEF tables, Stored, StoredAfter
<1>6. CASE kind = "channel.create" /\ UNCHANGED tables /\ req'[r].res \in ReloadedChannel(r)
  <2>1. req'[r].res = rc.res /\ chan[rc.res.obj].status # "absent"
      BY <1>6 DEF ReloadedChannel
  <2> QED BY <1>1, <1>5, <1>6, <2>1 DEF Stored, Inserts
<1>7. CASE kind \in Pins /\ UNCHANGED tables /\ ~ChannelMismatch(r) /\ req'[r].res \in ReloadedPin(r)
  <2>1. CASE kind = "channel.pin.create" /\ rc.final
    <3>1. req'[r].res = [NoResult EXCEPT !.obj = rc.res.obj] /\ pin[rc.res.obj].src = obj
        BY <1>7, <2>1 DEF ReloadedPin, ChannelMismatch
    <3>2. req'[r].res.obj = rc.res.obj
        BY <3>1 DEF NoResult
    <3> QED BY <1>1, <1>5, <1>7, <2>1, <3>1, <3>2 DEF Stored
  <2>2. CASE kind = "channel.pin.create" /\ ~rc.final
    <3>1. PICK p \in findActivePinBySource(ch, obj) : req'[r].res = [NoResult EXCEPT !.obj = p]
        BY <1>7, <2>2 DEF ReloadedPin
    <3>2. req'[r].res.obj = p /\ p \in Request /\ pin[p].state = "active" /\ pin[p].src = obj
        BY <3>1 DEF NoResult, findActivePinBySource
    <3> QED BY <1>5, <1>7, <2>2, <3>2 DEF Stored
  <2>3. CASE kind = "channel.pin.remove"
    <3>1. pin[obj].state = "removed"
        BY <1>7, <2>3 DEF ReloadedPin
    <3>2. obj \in Request
        BY <2>3, StandsAt DEF Fits, Moves, StepOf, Runs
    <3> QED BY <1>5, <1>7, <2>3, <3>1, <3>2 DEF Stored
  <2> QED BY <1>2, <1>7, <2>1, <2>2, <2>3 DEF Pins
<1>8. CASE kind = "task.create" /\ UNCHANGED tables /\ req'[r].res \in ReloadedTask(r)
  <2>1. req'[r].res = rc.res /\ task[rc.res.obj].status # "absent"
      BY <1>8 DEF ReloadedTask
  <2> QED BY <1>1, <1>5, <1>8, <2>1 DEF Stored, Inserts, ObjId
<1>9. CASE kind = "coworker.draft.create" /\ UNCHANGED tables /\ req'[r].res \in ReloadedDraft(r)
  <2>1. req'[r].res = rc.res /\ draft[rc.res.obj].state # "absent"
      BY <1>9 DEF ReloadedDraft
  <2> QED BY <1>1, <1>5, <1>9, <2>1 DEF Stored, Inserts, ObjId
<1>10. CASE kind = "coworker.draft.confirm" /\ UNCHANGED tables /\ req'[r].res \in ReloadedDraft(r)
  <2>1. req'[r].res.obj = obj /\ draft[obj].state = "ready"
      BY <1>10 DEF ReloadedDraft
  <2>2. obj \in ObjId
      BY <1>10, StandsAt DEF Fits, OnObject
  <2>3. cow[draft[obj].who].status # "absent"
      BY <2>1, <2>2 DEF RowsInv, DraftInv
  <2> QED BY <1>5, <1>10, <2>1, <2>2, <2>3 DEF Stored
<1> QED BY <1>3, <1>4, <1>6, <1>7, <1>8, <1>9, <1>10 DEF ReplaysOk

\* So is a request that has stored its result.
LEMMA AnsweredIsStored ==
    ASSUME WInv, RowsInv, AnswerInv, NEW r \in Request, Moves(r), req'[r].ans = "ok"
    PROVE  StoredAfter(req[r].kind, req[r].ch, req[r].obj, req'[r].res.obj)
<1>1. AnswersOk(r)
    BY DEF Moves, RowMoves
<1>2. CASE req[r].kind \in Plain
    BY <1>2 DEF Plain, StoredAfter
<1>3. CASE req[r].pc \in {"finish", "rebind"} /\ req'[r].res = req[r].res
  <2>1. PICK kind \in CommandKind, ch \in Channel, obj \in ObjId \cup {NoRequest},
             x \in ObjId \cup {NoRequest} :
            kind = req[r].kind /\ ch = req[r].ch /\ obj = req[r].obj /\ x = req[r].res.obj
      BY StandsAt, RowFields DEF Result
  <2>2. Stored(kind, ch, obj, x)
      BY <1>3, <2>1 DEF AnswerInv, Provisioning
  <2> QED BY <1>3, <2>1, <2>2, StoredStays
<1>4. CASE ReplaysOk(r)
    BY <1>4, ReplayedIsStored
<1> QED BY <1>1, <1>2, <1>3, <1>4 DEF AnswersOk

\* A command that has run has made what it answers with.
LEMMA FinishedIsStored ==
    ASSUME WInv, RowsInv, AnswerInv, NEW r \in Request, Moves(r), Finishes(r),
           req[r].kind # "coworker.draft.confirm"
    PROVE  StoredAfter(req[r].kind, req[r].ch, req[r].obj, req'[r].res.obj)
<1>0. r \in ObjId /\ r \in ChanId /\ FrozenInv /\ MessageInv /\ DraftInv
    BY StandsAt DEF RowsInv
<1>1. req[r].kind \in Inserts => ResultId(r).obj = r
    BY Typed, ResultIdIs
<1>2. CASE req[r].kind \in Plain
    BY <1>2 DEF Plain, StoredAfter
<1>3. CASE /\ req[r].kind = "channel.create" /\ StatusSet(r, "active")
           /\ req'[r].res = ResultId(r)
    BY <1>0, <1>1, <1>3 DEF StatusSet, StoredAfter, Inserts
<1>4. CASE /\ req[r].kind = "channel.message" /\ req[r].pc = "fanout" /\ msg' = CreateRun(r)
           /\ req'[r].res = ResultId(r)
  <2>1. req'[r].res.obj = r
      BY <1>1, <1>4 DEF Inserts
  <2>2. msg'[r].run /\ msg'[r].chan = req[r].ch
      BY <1>0, <1>4, Typed, RunMade DEF MessageInv
  <2> QED BY <1>0, <1>4, <2>1, <2>2 DEF StoredAfter
<1>5. CASE req[r].kind = "task.create" /\ InsertsTask(r)
    BY <1>0, <1>1, <1>5 DEF InsertsTask, Succeeds, StoredAfter, Inserts
<1>6. CASE req[r].kind = "channel.pin.create" /\ PinsMessage(r)
  <2>1. req'[r].res.obj = r
      BY <1>6 DEF PinsMessage, Succeeds, NoResult
  <2>2. pin'[r].state = "active" /\ pin'[r].src = req[r].obj
      BY <1>6, Typed DEF PinsMessage
  <2> QED BY <1>6, <2>1, <2>2 DEF StoredAfter
<1>7. CASE req[r].kind = "channel.pin.remove" /\ RemovesPin(r)
  <2>1. PICK p \in Request : p = req[r].obj
      BY <1>7, StandsAt DEF Fits, Moves, StepOf, Runs
  <2>2. pin \in [Request -> PinRow] /\ pin[p] \in PinRow /\ pin' = [pin EXCEPT ![p].state = "removed"]
      BY <1>7, <2>1, Typed DEF RemovesPin
  <2>3. pin'[p].state = "removed"
      BY <2>2 DEF PinRow
  <2> QED BY <1>7, <2>1, <2>3 DEF StoredAfter
<1>8. CASE req[r].kind = "coworker.draft.create" /\ draft' = draft /\ FindsDraft(r)
  <2>1. PICK d \in ObjId : draft[d].state # "absent" /\ req'[r].res = [NoResult EXCEPT !.obj = d]
      BY <1>8 DEF FindsDraft, Succeeds
  <2>2. req'[r].res.obj = d
      BY <2>1 DEF NoResult
  <2> QED BY <1>8, <2>1, <2>2 DEF StoredAfter
<1>9. CASE req[r].kind = "coworker.draft.create" /\ InsertsDraft(r) /\ req'[r].res = ResultId(r)
    BY <1>0, <1>1, <1>9 DEF InsertsDraft, StoredAfter, Inserts
<1> QED BY <1>2, <1>3, <1>4, <1>5, <1>6, <1>7, <1>8, <1>9 DEF Finishes

\* So has one that has still to provision its coworker, or to rewrite its receipt.
LEMMA MadeIsStored ==
    ASSUME WInv, RowsInv, AnswerInv, NEW r \in Request, Moves(r),
           Provisioning(req'[r]) \/ req'[r].pc = "rebind"
    PROVE  StoredAfter(req[r].kind, req[r].ch, req[r].obj, req'[r].res.obj)
<1>0. StepOf(r) /\ RowMoves(r) /\ DraftInv /\ req'[r].kind = req[r].kind
    BY CommandsStay DEF Moves, RowsInv, SameCommand
<1>1. PICK kind \in CommandKind, ch \in Channel, obj \in ObjId \cup {NoRequest},
           x \in ObjId \cup {NoRequest} :
          kind = req[r].kind /\ ch = req[r].ch /\ obj = req[r].obj /\ x = req[r].res.obj
    BY StandsAt, RowFields DEF Result
<1>2. ASSUME Provisioning(req[r]) \/ req[r].pc = "rebind", req'[r].res = req[r].res
      PROVE  StoredAfter(req[r].kind, req[r].ch, req[r].obj, req'[r].res.obj)
  <2>1. Stored(kind, ch, obj, x)
      BY <1>1, <1>2 DEF AnswerInv
  <2> QED BY <1>1, <1>2, <2>1, StoredStays
<1>3. CASE req'[r].pc = "rebind"
    BY <1>0, <1>2, <1>3 DEF RowMoves, Provisioning
<1>4. CASE Provisioning(req'[r]) /\ kind # "coworker.draft.confirm"
  <2>1. CASE req'[r].pc = "finish"
      BY <1>0, <1>1, <1>4, <2>1, FinishedIsStored DEF RowMoves
  <2>2. CASE req'[r].pc # "finish"
    <3>1. Fits(req'[r])
        BY <1>0 DEF StepOf
    <3>2. kind = "channel.participant.add"
        BY <1>0, <1>1, <1>4, <2>2, <3>1 DEF Provisioning, Fits
    <3> QED BY <1>1, <3>2 DEF StoredAfter
  <2> QED BY <2>1, <2>2
<1>5. CASE Provisioning(req'[r]) /\ kind = "coworker.draft.confirm"
  <2>1. Confirms(r)
      BY <1>0, <1>1, <1>5 DEF RowMoves
  <2>2. CASE req'[r].res = req[r].res /\ Provisioning(req[r])
      BY <1>2, <2>2
  <2>3. CASE req[r].pc \in Early /\ req'[r].pc = "run" /\ req'[r].left = req[r].left
      BY <1>1, <1>5, <2>3 DEF AnswerInv, Provisioning
  <2>4. CASE req'[r].res = ResultId(r) /\ cow'[req[r].w].status # "absent"
    <3>1. PICK d \in ObjId : d = obj
        BY <1>1, <1>5, StandsAt DEF Fits, OnObject
    <3>2. req'[r].res.obj = d
        BY <1>1, <1>5, <2>4, <3>1, Typed, ResultIdIs
    <3>3. draft[d].state # "absent" /\ draft[d].who = req[r].w
        BY <1>0, <1>1, <1>5, <3>1 DEF DraftInv, StepOf, Runs
    <3>4. draft'[d].state # "absent" /\ draft'[d].who = req[r].w
        BY <1>0, <3>3, DraftsStay
    <3> QED BY <1>1, <1>5, <2>4, <3>1, <3>2, <3>4 DEF StoredAfter
  <2> QED BY <1>5, <2>1, <2>2, <2>3, <2>4 DEF Confirms
<1> QED BY <1>1, <1>3, <1>4, <1>5

\* What a receipt says is true after the step.
ReceiptTrueAfter(kind, rc) ==
    /\ kind \in CachesResult /\ rc.done => StoredAfter(kind, NullChannel, Old, rc.json)
    /\ kind = "channel.pin.create" /\ rc.final =>
           rc.res.obj \in Request /\ pin'[rc.res.obj].state # "absent"
    /\ kind \in Inserts /\ rc # NoReceipt => rc.res.obj \in Request

\* A receipt that is kept stays true.
LEMMA ReceiptStaysTrue ==
    ASSUME WInv, RowsInv, AnswerInv, NEW r \in Request, Moves(r),
           NEW kind \in CommandKind, NEW key \in Key
    PROVE  ReceiptTrueAfter(kind, getCommandReceipt(kind, key))
<1>1. PICK rc \in ReceiptRow : rc = getCommandReceipt(kind, key)
    BY Typed, ReceiptFound
<1>2. /\ kind \in CachesResult /\ rc.done => Stored(kind, NullChannel, Old, rc.json)
      /\ kind = "channel.pin.create" /\ rc.final =>
             rc.res.obj \in Request /\ pin[rc.res.obj].state # "absent"
      /\ kind \in Inserts /\ rc # NoReceipt => rc.res.obj \in Request
    BY <1>1 DEF AnswerInv
<1>3. kind \in CachesResult /\ rc.done => StoredAfter(kind, NullChannel, Old, rc.json)
    BY <1>2, Nulls, StoredStays
<1>4. ASSUME kind = "channel.pin.create", rc.final
      PROVE  rc.res.obj \in Request /\ pin'[rc.res.obj].state # "absent"
  <2>1. PICK p \in Request : p = rc.res.obj /\ pin[p].state # "absent"
      BY <1>2, <1>4
  <2> QED BY <2>1, PinsStay DEF RowsInv
<1> QED BY <1>1, <1>2, <1>3, <1>4 DEF ReceiptTrueAfter

\* After a step of a request, a completed receipt still names what is stored.
LEMMA ReceiptsAreTrue ==
    ASSUME WInv, RowsInv, AnswerInv, NEW r \in Request, Moves(r),
           NEW kind \in CommandKind, NEW key \in Key
    PROVE  ReceiptTrueAfter(kind, ReceiptAfter(kind, key))
<1>0. ReceiptMoves(r)
    BY DEF Moves, TableMoves
<1>1. CASE ReceiptAfter(kind, key) = getCommandReceipt(kind, key)
    BY <1>1, ReceiptStaysTrue
<1>2. CASE receipt' = receipt
    BY <1>1, <1>2, ReceiptsKept
<1>3. CASE OthersKept(req[r].kind, req[r].key) /\ (kind # req[r].kind \/ key # req[r].key)
    BY <1>1, <1>3 DEF OthersKept
<1>4. CASE kind = req[r].kind /\ key = req[r].key
  <2>1. PICK rc \in ReceiptRow, res \in Result, obj \in ObjId \cup {NoRequest},
             ch \in Channel, x \in ObjId \cup {NoRequest} :
           /\ rc = getCommandReceipt(kind, key) /\ res = ResultId(r) /\ obj = req[r].res.obj
           /\ ch = req[r].ch /\ x = req[r].obj
    <3>1. req[r].res \in Result
        BY StandsAt
    <3>2. req[r].res.obj \in ObjId \cup {NoRequest}
        BY <3>1 DEF Result
    <3> QED BY <3>2, StandsAt, RowFields, Typed, ReceiptFound
  <2>2. rc = Receipt(r) /\ ReceiptTrueAfter(kind, rc)
      BY <1>4, <2>1, ReceiptStaysTrue DEF Receipt
  <2>3. CASE ReceiptAfter(kind, key) = ClaimedRow(r, res)
    <3>1. ~ClaimedRow(r, res).done /\ ~ClaimedRow(r, res).final /\ ClaimedRow(r, res).res = res
        BY ClaimedRows
    <3>2. kind \in Inserts => res.obj = r
        BY <1>4, <2>1, Typed, ResultIdIs
    <3> QED BY <2>3, <3>1, <3>2 DEF ReceiptTrueAfter
  <2>4. CASE /\ req[r].pc = "finish" /\ rc # NoReceipt
             /\ ReceiptAfter(kind, key) = CompletedRow(rc, obj)
    <3>1. Stored(kind, ch, x, obj)
        BY <1>4, <2>1, <2>4 DEF AnswerInv, Provisioning
    <3>2. StoredAfter(kind, ch, x, obj)
        BY <3>1, StoredStays
    <3>3. kind \in CachesResult => StoredAfter(kind, NullChannel, Old, obj)
        BY <3>2, StoredAnywhere
    <3>4. /\ CompletedRow(rc, obj).json = obj /\ CompletedRow(rc, obj).res = rc.res
          /\ CompletedRow(rc, obj).final = rc.final
        BY RewrittenRows
    <3> QED BY <2>2, <2>4, <3>3, <3>4 DEF ReceiptTrueAfter
  <2>5. CASE req[r].pc = "rebind" /\ ReceiptAfter(kind, key) = ReboundRow(rc, obj)
    <3>1. kind \in Pins
        BY <1>4, <2>5, StandsAt DEF Fits
    <3>2. Stored(kind, ch, x, obj)
        BY <1>4, <2>1, <2>5 DEF AnswerInv
    <3>3. StoredAfter(kind, ch, x, obj)
        BY <3>2, StoredStays
    <3>4. ReboundRow(rc, obj).res.obj = obj
        BY RewrittenRows
    <3> QED BY <2>5, <3>1, <3>3, <3>4 DEF ReceiptTrueAfter, StoredAfter, Pins, CachesResult, Inserts
  <2>6. CASE ReceiptAfter(kind, key) = NoReceipt
      BY <2>6 DEF ReceiptTrueAfter, NoReceipt
  <2> QED BY <1>0, <1>2, <1>4, <2>1, <2>2, <2>3, <2>4, <2>5, <2>6 DEF ReceiptMoves
<1> QED BY <1>0, <1>2, <1>3, <1>4 DEF ReceiptMoves

\* The receipt of a key after a step.
LEMMA ReceiptNext ==
    ASSUME NEW kind, NEW key
    PROVE  getCommandReceipt(kind, key)' = ReceiptAfter(kind, key)
BY DEF getCommandReceipt, ReceiptAfter

\* A step of a request keeps what was answered, and what receipts say, true.
LEMMA AnswerMoves ==
    ASSUME WInv, RowsInv, AnswerInv, NEW r \in Request, Moves(r)
    PROVE  AnswerInv'
<1>0. StepOf(r) /\ RowMoves(r)
    BY DEF Moves
<1>1. ASSUME NEW o \in Request,
             req'[o].ans = "ok" \/ Provisioning(req'[o]) \/ req'[o].pc = "rebind"
      PROVE  StoredAfter(req'[o].kind, req'[o].ch, req'[o].obj, req'[o].res.obj)
  <2>1. CASE o = r
    <3>1. StoredAfter(req[r].kind, req[r].ch, req[r].obj, req'[r].res.obj)
        BY <1>1, <2>1, AnsweredIsStored, MadeIsStored
    <3>2. req'[r].kind = req[r].kind /\ req'[r].obj = req[r].obj
        BY <1>0, CommandsStay DEF SameCommand
    <3>3. CASE req'[r].ch = req[r].ch
        BY <2>1, <3>1, <3>2, <3>3
    <3>4. CASE req[r].kind \in {"channel.participant.add", "coworker.draft.confirm"}
        BY <2>1, <3>1, <3>2, <3>4 DEF StoredAfter
    <3> QED BY <1>0, <3>3, <3>4, CommandsStay
  <2>2. CASE o # r
    <3>1. req'[o] = req[o]
        BY <1>0, <2>2 DEF StepOf, Turns
    <3>2. PICK kind \in CommandKind, ch \in Channel, obj \in ObjId \cup {NoRequest},
             x \in ObjId \cup {NoRequest} :
            kind = req[o].kind /\ ch = req[o].ch /\ obj = req[o].obj /\ x = req[o].res.obj
        BY StandsAt, RowFields DEF Result
    <3>3. Stored(kind, ch, obj, x)
        BY <1>1, <3>1, <3>2 DEF AnswerInv
    <3> QED BY <3>1, <3>2, <3>3, StoredStays
  <2> QED BY <2>1, <2>2
<1>2. ASSUME NEW o \in Request, req'[o].kind = "coworker.draft.confirm", req'[o].pc \in Early
      PROVE  req'[o].left = {}
  <2>1. CASE o = r
    <3>1. req[r].kind = "coworker.draft.confirm"
        BY <1>0, <1>2, <2>1, CommandsStay DEF SameCommand
    <3> QED BY <1>0, <1>2, <2>1, <3>1 DEF RowMoves, Confirms, AnswerInv
  <2>2. CASE o # r
      BY <1>0, <1>2, <2>2 DEF StepOf, Turns, AnswerInv
  <2> QED BY <2>1, <2>2
<1>3. ASSUME NEW kind \in CommandKind, NEW key \in Key
      PROVE  ReceiptTrueAfter(kind, getCommandReceipt(kind, key)')
    BY ReceiptsAreTrue, ReceiptNext
<1> QED BY <1>1, <1>2, <1>3 DEF AnswerInv, Provisioning, Stored, StoredAfter, ReceiptTrueAfter

\* A request that arrives has answered nothing.
LEMMA AnswerArrival ==
    ASSUME WInv, AnswerInv, NEW r \in Request, ArrivalOf(r)
    PROVE  AnswerInv'
<1>1. /\ UNCHANGED tables /\ req'[r].ans # "ok" /\ req'[r].left = {}
      /\ req'[r].pc \in {"claim", "replay", "plan", "done"}
    BY DEF ArrivalOf
<1>2. ASSUME NEW o \in Request, o # r PROVE req'[o] = req[o]
    BY <1>2 DEF ArrivalOf, Turns
<1>3. ASSUME NEW o \in Request,
             req'[o].ans = "ok" \/ Provisioning(req'[o]) \/ req'[o].pc = "rebind"
      PROVE  Stored(req'[o].kind, req'[o].ch, req'[o].obj, req'[o].res.obj)
  <2>1. o # r
      BY <1>1, <1>3 DEF Provisioning
  <2> QED BY <1>2, <1>3, <2>1 DEF AnswerInv
<1>4. ASSUME NEW o \in Request, req'[o].kind = "coworker.draft.confirm", req'[o].pc \in Early
      PROVE  req'[o].left = {}
    BY <1>1, <1>2, <1>4 DEF AnswerInv
<1>5. ASSUME NEW kind, NEW ch, NEW obj, NEW x, Stored(kind, ch, obj, x)
      PROVE  StoredAfter(kind, ch, obj, x)
    BY <1>1, <1>5 DEF tables, Stored, StoredAfter
<1>6. ASSUME NEW kind \in CommandKind, NEW key \in Key
      PROVE  ReceiptTrueAfter(kind, getCommandReceipt(kind, key)')
  <2>1. getCommandReceipt(kind, key)' = getCommandReceipt(kind, key) /\ pin' = pin
      BY <1>1, ReceiptNext, ReceiptsKept DEF tables
  <2> QED BY <1>5, <2>1 DEF AnswerInv, ReceiptTrueAfter
<1>7. ASSUME NEW o \in Request,
             req'[o].ans = "ok" \/ Provisioning(req'[o]) \/ req'[o].pc = "rebind"
      PROVE  StoredAfter(req'[o].kind, req'[o].ch, req'[o].obj, req'[o].res.obj)
    BY <1>3, <1>5, <1>7
<1> QED BY <1>4, <1>6, <1>7
        DEF AnswerInv, Provisioning, Stored, StoredAfter, ReceiptTrueAfter

\* Leases, windows and expiries take back nothing that was answered.
LEMMA AnswerEnvironment ==
    ASSUME WInv, RowsInv, AnswerInv, EnvironmentMoves
    PROVE  AnswerInv'
<1>0. /\ req' = req
      /\ UNCHANGED <<chan, cow, msg, task, pin>>
      /\ \A d \in ObjId : draft'[d].state = draft[d].state /\ draft'[d].who = draft[d].who
    BY DEF EnvironmentMoves, Lapses
<1>1. ASSUME NEW kind, NEW ch, NEW obj, NEW x, Stored(kind, ch, obj, x)
      PROVE  StoredAfter(kind, ch, obj, x)
    BY <1>0, <1>1 DEF Stored, StoredAfter
<1>2. ASSUME NEW o \in Request,
             req'[o].ans = "ok" \/ Provisioning(req'[o]) \/ req'[o].pc = "rebind"
      PROVE  StoredAfter(req'[o].kind, req'[o].ch, req'[o].obj, req'[o].res.obj)
    BY <1>0, <1>1, <1>2 DEF AnswerInv
<1>3. ASSUME NEW o \in Request, req'[o].kind = "coworker.draft.confirm", req'[o].pc \in Early
      PROVE  req'[o].left = {}
    BY <1>0, <1>3 DEF AnswerInv
<1>4. ASSUME NEW kind \in CommandKind, NEW key \in Key
      PROVE  ReceiptTrueAfter(kind, getCommandReceipt(kind, key)')
  <2>1. PICK rc \in ReceiptRow : rc = getCommandReceipt(kind, key)
      BY Typed, ReceiptFound
  <2>2. ReceiptTrueAfter(kind, rc)
      BY <1>0, <1>1, <2>1 DEF AnswerInv, ReceiptTrueAfter
  <2>3. \/ ReceiptAfter(kind, key) = rc
        \/ rc # NoReceipt /\ \E stale \in BOOLEAN : ReceiptAfter(kind, key) = StaleRow(rc, stale)
    <3>1. CASE receipt' = receipt
        BY <2>1, <3>1, ReceiptsKept
    <3>2. ASSUME NEW kind2, NEW key2, Lapses(kind2, key2)
          PROVE  \/ ReceiptAfter(kind, key) = rc
                 \/ rc # NoReceipt /\ \E stale \in BOOLEAN : ReceiptAfter(kind, key) = StaleRow(rc, stale)
        BY <2>1, <3>2 DEF Lapses, OthersKept
    <3> QED BY <3>1, <3>2 DEF EnvironmentMoves
  <2>4. ASSUME NEW stale \in BOOLEAN, rc # NoReceipt
        PROVE  ReceiptTrueAfter(kind, StaleRow(rc, stale))
    <3>1. /\ StaleRow(rc, stale).res = rc.res /\ StaleRow(rc, stale).json = rc.json
          /\ StaleRow(rc, stale).done = rc.done /\ StaleRow(rc, stale).final = rc.final
        BY StaleRows
    <3> QED BY <2>2, <2>4, <3>1 DEF ReceiptTrueAfter
  <2> QED BY <2>2, <2>3, <2>4, ReceiptNext
<1> QED BY <1>2, <1>3, <1>4 DEF AnswerInv, Provisioning, Stored, StoredAfter, ReceiptTrueAfter

\* Every step keeps it.
LEMMA AnswerStep == WInv /\ RowsInv /\ AnswerInv /\ [Next]_vars => AnswerInv'
<1>1. ASSUME AnswerInv, UNCHANGED vars PROVE AnswerInv'
  <2>1. /\ req' = req /\ receipt' = receipt /\ chan' = chan /\ msg' = msg /\ task' = task
        /\ pin' = pin /\ draft' = draft /\ cow' = cow
      BY <1>1 DEF vars, tables
  <2>2. \A kind, key : getCommandReceipt(kind, key)' = getCommandReceipt(kind, key)
      BY <2>1 DEF getCommandReceipt
  <2>3. \A kind, ch, obj, x : Stored(kind, ch, obj, x)' = Stored(kind, ch, obj, x)
      BY <2>1 DEF Stored
  <2> QED BY <1>1, <2>1, <2>2, <2>3 DEF AnswerInv, Provisioning
<1> QED BY <1>1, NextMoves, AnswerMoves, AnswerArrival, AnswerEnvironment

\* Stored rows stay stored, step by step.
LEMMA RowsStep == WInv /\ RowsInv /\ [Next]_vars => RowsInv'
    BY FrozenStep, TaskInvStep, MemberInvStep, MessageInvStep DEF RowsInv

\* Both hold at the start.
LEMMA AnswerStarts == Init => RowsInv /\ AnswerInv
<1> SUFFICES ASSUME Init PROVE RowsInv /\ AnswerInv
    OBVIOUS
<1>1. RowsInv
    BY FrozenStarts, TaskStarts, MemberStarts, MessageStarts DEF RowsInv
<1>2. \A r \in Request : req[r] = NewReq
    BY DEF Init, InitReceipts
<1>3. \A kind \in CommandKind, key \in Key : getCommandReceipt(kind, key) = NoReceipt
    BY DEF Init, InitTables, getCommandReceipt
<1>4. NewReq.ans # "ok" /\ ~Provisioning(NewReq) /\ NewReq.pc # "rebind" /\ NewReq.left = {}
    BY DEF NewReq, Provisioning
<1>5. ~NoReceipt.done /\ ~NoReceipt.final
    BY DEF NoReceipt
<1> QED BY <1>1, <1>2, <1>3, <1>4, <1>5 DEF AnswerInv

\* What a request that succeeded answered with is there, and complete, whether it made it
\* itself, found it stored, or was given the result of an earlier attempt: a message has its
\* run, a removed pin is removed, a confirmed draft has its coworker.
THEOREM AnswersStayTrue == Spec => []AnswersAreTrue
<1>1. ASSUME AnswerInv PROVE AnswersAreTrue
  <2> SUFFICES ASSUME NEW r \in Request, req[r].ans = "ok"
               PROVE  LET q == req[r] IN
                      CASE q.kind = "channel.create"     -> chan[q.res.obj].status # "absent"
                        [] q.kind = "channel.message"    -> msg[q.res.obj].run /\ msg[q.res.obj].chan = q.ch
                        [] q.kind = "task.create"        -> task[q.res.obj].status # "absent"
                        [] q.kind = "channel.pin.create" -> pin[q.res.obj].src = q.obj
                                                            /\ pin[q.res.obj].state # "absent"
                        [] q.kind = "channel.pin.remove" -> pin[q.obj].state = "removed"
                        [] q.kind = "coworker.draft.create"  -> draft[q.res.obj].state # "absent"
                        [] q.kind = "coworker.draft.confirm" -> cow[draft[q.res.obj].who].status # "absent"
                        [] OTHER -> TRUE
      BY DEF AnswersAreTrue
  <2>1. Stored(req[r].kind, req[r].ch, req[r].obj, req[r].res.obj)
      BY <1>1 DEF AnswerInv
  <2> QED BY <2>1 DEF Stored
<1> QED BY <1>1, RowsFitAlways, AnswerStarts, RowsStep, AnswerStep, PTL DEF Spec
-----------------------------------------------------------------------------
(***************************************************************************)
(* One effect per key.                                                     *)
(***************************************************************************)

\* The row a request of one of these kinds inserts is there.
HasRow(r) ==
    \/ req[r].kind = "channel.create" /\ chan[r].status # "absent"
    \/ req[r].kind = "channel.message" /\ msg[r].chan # NoRequest
    \/ req[r].kind = "task.create" /\ task[r].status # "absent"
    \/ req[r].kind = "coworker.draft.create" /\ draft[r].state # "absent"

\* A row of a request is made when the request has run, in the channel it named; a run is
\* the run of a message that is stored.
OwnRowInv == \A r \in Request :
    /\ chan[r].status # "absent" => req[r].kind = "channel.create" /\ req[r].pc \in Late
    /\ task[r].status # "absent" => task[r].chan = req[r].ch
    /\ msg[r].run => msg[r].chan # NoRequest

\* A request that has a row has run.
LEMMA RowsAreLate ==
    ASSUME RowsInv, OwnRowInv, NEW r \in Request, HasRow(r)
    PROVE  req[r].pc \in Late /\ req[r].kind \in Inserts
BY DEF RowsInv, OwnRowInv, HasRow, MessageInv, TaskInv, DraftInv, Inserts

\* A step makes the row of its own request only, as the command runs, and takes none back.
LEMMA RowsAppear ==
    ASSUME WInv, RowsInv, OwnRowInv, NEW r \in Request, Moves(r), NEW o \in Request
    PROVE  /\ HasRow(o) => HasRow(o)'
           /\ HasRow(o)' => HasRow(o) \/ (o = r /\ req[r].pc = "run")
<1>0. /\ StepOf(r) /\ ChanMoves(r) /\ MsgMoves(r) /\ TaskMoves(r) /\ DraftMoves(r)
      /\ MessageInv /\ TaskInv /\ DraftInv
    BY DEF Moves, TableMoves, RowsInv
<1>1. /\ o \in ObjId /\ o \in ChanId /\ r \in ObjId /\ r \in ChanId /\ o \notin Channel
      /\ req[r].ch \in Channel /\ req'[o].kind = req[o].kind
    BY <1>0, StandsAt, CommandsStay, IdAssumption DEF SameCommand
<1>2. /\ chan[o].status # "absent" => chan'[o].status # "absent"
      /\ chan'[o].status # "absent" => chan[o].status # "absent" \/ (o = r /\ req[r].pc = "run")
    BY <1>0, <1>1 DEF ChanMoves, StatusesKept, StatusSet
<1>3. /\ msg[o].chan # NoRequest => msg'[o].chan # NoRequest
      /\ msg'[o].chan # NoRequest => msg[o].chan # NoRequest \/ (o = r /\ req[r].pc = "run")
  <2>1. ASSUME NEW m, msg' = CreateRun(m) PROVE msg'[o].chan = msg[o].chan
      BY <1>1, <2>1, Typed, RunMade
  <2>2. CASE req[r].pc = "run" /\ StoresMessage(r)
    <3>1. o # r => msg'[o] = msg[o]
        BY <1>1, <2>2, Typed DEF StoresMessage
    <3>2. msg[r].chan = NoRequest
        BY <1>0, <2>2 DEF MessageInv, Late
    <3> QED BY <2>2, <3>1, <3>2
  <2> QED BY <1>0, <2>1, <2>2 DEF MsgMoves
<1>4. /\ task[o].status # "absent" => task'[o].status # "absent"
      /\ task'[o].status # "absent" => task[o].status # "absent" \/ (o = r /\ req[r].pc = "run")
  <2>1. CASE req[r].pc = "run" /\ InsertsTask(r)
      BY <1>1, <2>1 DEF InsertsTask
  <2>2. CASE req[r].kind = "task.update" /\ req[r].pc = "write" /\ UpdatesTask(r)
    <3>1. task[req[r].obj].status # "absent"
        BY <1>0, <2>2 DEF TaskInv
    <3>2. o # req[r].obj => task'[o] = task[o]
        BY <1>1, <2>2 DEF UpdatesTask
    <3>3. task[o].status # "absent" => task'[o].status # "absent"
        BY <1>0, <1>1, TasksGrow DEF TaskGrows, TaskStatus
    <3> QED BY <3>1, <3>2, <3>3
  <2> QED BY <1>0, <2>1, <2>2 DEF TaskMoves
<1>5. req[o].kind = "coworker.draft.create" =>
        /\ draft[o].state # "absent" => draft'[o].state # "absent"
        /\ draft'[o].state # "absent" => draft[o].state # "absent" \/ (o = r /\ req[r].pc = "run")
  <2>1. CASE InsertsDraft(r) /\ (req[r].pc = "run" \/ req[r].kind = "coworker.draft.revise")
      BY <1>1, <2>1 DEF InsertsDraft, Reviewable
  <2>2. ASSUME NEW state, state # "absent", DraftMoved(req[r].obj, state),
               req[r].kind \in {"coworker.draft.revise", "coworker.draft.reject", "coworker.draft.confirm"}
        PROVE  (draft[o].state # "absent") <=> (draft'[o].state # "absent")
    <3>1. draft[req[r].obj].state # "absent"
        BY <1>0, <2>2 DEF DraftInv, StepOf, Runs
    <3> QED BY <1>1, <2>2, <3>1 DEF DraftMoved
  <2> QED BY <1>0, <2>1, <2>2 DEF DraftMoves
<1> QED BY <1>1, <1>2, <1>3, <1>4, <1>5 DEF HasRow

\* A step of a request keeps every row with its command.
LEMMA OwnRowMoves ==
    ASSUME WInv, RowsInv, OwnRowInv, NEW r \in Request, Moves(r)
    PROVE  OwnRowInv'
<1>0. /\ StepOf(r) /\ ChanMoves(r) /\ MsgMoves(r) /\ TaskMoves(r) /\ RowMoves(r)
      /\ MessageInv /\ TaskInv
    BY DEF Moves, TableMoves, RowsInv
<1> SUFFICES ASSUME NEW o \in Request
             PROVE  /\ chan'[o].status # "absent" =>
                           req'[o].kind = "channel.create" /\ req'[o].pc \in Late
                    /\ task'[o].status # "absent" => task'[o].chan = req'[o].ch
                    /\ msg'[o].run => msg'[o].chan # NoRequest
    BY DEF OwnRowInv
<1>1. /\ o \in ObjId /\ o \in ChanId /\ r \in ObjId /\ r \in ChanId /\ o \notin Channel
      /\ req[r].ch \in Channel /\ req'[o].kind = req[o].kind
      /\ req[o].pc \in Late => req'[o].pc \in Late
    BY <1>0, StandsAt, CommandsStay, IdAssumption DEF SameCommand
<1>2. chan'[o].status # "absent" => req'[o].kind = "channel.create" /\ req'[o].pc \in Late
  <2>1. CASE chan[o].status # "absent"
      BY <1>1, <2>1 DEF OwnRowInv
  <2>2. CASE chan[o].status = "absent" /\ chan'[o].status # "absent"
    <3>1. o = r /\ req[r].kind = "channel.create" /\ req'[r].pc = "finish"
        BY <1>0, <1>1, <2>2 DEF ChanMoves, StatusesKept, StatusSet
    <3> QED BY <1>1, <3>1 DEF Late
  <2> QED BY <2>1, <2>2
<1>3. task'[o].status # "absent" => task'[o].chan = req'[o].ch
  <2>1. CASE InsertsTask(r) /\ req[r].kind = "task.create" /\ o = r
      BY <1>0, <2>1, CommandsStay DEF InsertsTask
  <2>2. CASE task'[o] = task[o]
    <3>1. task[o].status # "absent" => req'[o].ch = req[o].ch
        BY <1>0, CommandsStay DEF TaskInv
    <3> QED BY <2>2, <3>1 DEF OwnRowInv
  <2>3. CASE /\ req[r].kind = "task.update" /\ req[r].pc = "write" /\ UpdatesTask(r)
             /\ o = req[r].obj
    <3>1. task[o].status # "absent" /\ task[o].chan = req[o].ch /\ req[o].kind = "task.create"
        BY <1>0, <2>3 DEF TaskInv, OwnRowInv
    <3>2. PICK old \in TaskRow, row \in TaskRow : old = req[r].seen.task /\ row = task[o]
        BY <1>1, StandsAt, Typed, RowFields
    <3>3. task'[o].chan = old.chan /\ task'[o].rev = old.rev + 1
          /\ old.rev + 1 \notin row.revs /\ task'[o].revs = row.revs \cup {old.rev + 1}
        BY <2>3, <3>2 DEF UpdatesTask
    <3>4. /\ row.revs = 1..row.rev /\ old.rev <= row.rev /\ (old.rev = row.rev => old = row)
          /\ old.rev \in Nat /\ row.rev \in Nat
        BY <1>0, <1>1, <2>3, <3>1, <3>2 DEF TaskInv, Earlier, TaskRow
    <3>5. old = row
        BY <3>3, <3>4
    <3> QED BY <1>0, <3>1, <3>2, <3>3, <3>5, CommandsStay
  <2> QED BY <1>0, <1>1, <2>1, <2>2, <2>3 DEF TaskMoves, InsertsTask, UpdatesTask
<1>4. msg'[o].run => msg'[o].chan # NoRequest
  <2>0. msg[o].run => msg[o].chan # NoRequest
      BY DEF OwnRowInv
  <2>1. CASE msg'[o] = msg[o]
      BY <2>0, <2>1
  <2>2. CASE StoresMessage(r) /\ o = r
      BY <1>1, <2>2, Typed, IdAssumption DEF StoresMessage, MsgRow
  <2>3. ASSUME NEW m, msg' = CreateRun(m), o = m => msg[o].chan # NoRequest
        PROVE  msg'[o].run => msg'[o].chan # NoRequest
      BY <1>1, <2>0, <2>3, Typed, RunMade
  <2>4. CASE req[r].kind = "channel.message" /\ req[r].pc = "fanout" /\ msg' = CreateRun(r)
    <3>1. msg[r].chan # NoRequest
        BY <1>0, <1>1, <2>4, IdAssumption DEF MessageInv
    <3> QED BY <2>3, <2>4, <3>1
  <2>5. CASE NamesStored(r) /\ msg' = CreateRun(Receipt(r).res.obj)
    <3>1. PICK m : m = Receipt(r).res.obj
        OBVIOUS
    <3>2. o = m => msg[o].chan # NoRequest
        BY <1>1, <2>5, <3>1, IdAssumption DEF NamesStored
    <3> QED BY <2>3, <2>5, <3>1, <3>2
  <2>6. StoresMessage(r) => msg'[o] = msg[o] \/ o = r
      BY <1>1, Typed DEF StoresMessage
  <2> QED BY <1>0, <2>1, <2>2, <2>4, <2>5, <2>6 DEF MsgMoves
<1> QED BY <1>2, <1>3, <1>4

\* A request that arrives has no row yet, and changes no other request's.
LEMMA OwnRowArrival ==
    ASSUME WInv, RowsInv, OwnRowInv, NEW r \in Request, ArrivalOf(r)
    PROVE  /\ OwnRowInv' /\ ~HasRow(r)'
           /\ \A o \in Request \ {r} : req'[o] = req[o] /\ (HasRow(o)' <=> HasRow(o))
<1>1. /\ chan' = chan /\ msg' = msg /\ task' = task /\ draft' = draft
      /\ req[r].pc = "new" /\ req'[r].pc \in {"claim", "replay", "plan", "done"}
    BY DEF ArrivalOf, tables
<1>2. ASSUME NEW o \in Request, o # r PROVE req'[o] = req[o]
    BY <1>2 DEF ArrivalOf, Turns
<1>3. /\ chan[r].status = "absent" /\ task[r].status = "absent" /\ msg[r].chan = NoRequest
      /\ draft[r].state = "absent"
    BY <1>1 DEF OwnRowInv, RowsInv, TaskInv, MessageInv, DraftInv, Late
<1>4. OwnRowInv'
    BY <1>1, <1>2, <1>3 DEF OwnRowInv
<1>5. ~HasRow(r)'
    BY <1>1, <1>3 DEF HasRow
<1>6. \A o \in Request \ {r} : HasRow(o)' <=> HasRow(o)
    BY <1>1, <1>2 DEF HasRow
<1> QED BY <1>2, <1>4, <1>5, <1>6

\* The environment makes no row.
LEMMA OwnRowEnvironment ==
    ASSUME OwnRowInv, EnvironmentMoves
    PROVE  /\ OwnRowInv' /\ req' = req /\ mix' = mix
           /\ \A o \in Request : HasRow(o)' <=> HasRow(o)
<1>1. /\ UNCHANGED <<chan, msg, task, req, mix>>
      /\ \A d \in ObjId : draft'[d].state = draft[d].state
    BY DEF EnvironmentMoves, Lapses
<1>2. \A o \in Request : o \in ObjId
    BY DEF ObjId
<1> QED BY <1>1, <1>2 DEF OwnRowInv, HasRow

\* Rows are kept with their commands by every step.
LEMMA OwnRowStep == WInv /\ RowsInv /\ OwnRowInv /\ [Next]_vars => OwnRowInv'
<1>1. ASSUME OwnRowInv, UNCHANGED vars PROVE OwnRowInv'
    BY <1>1 DEF vars, tables, OwnRowInv
<1> QED BY <1>1, NextMoves, OwnRowMoves, OwnRowArrival, OwnRowEnvironment

\* At the start no request has a row.
LEMMA OwnRowStarts == Init => OwnRowInv
<1> SUFFICES ASSUME Init, NEW r \in Request
             PROVE  chan[r].status = "absent" /\ task[r].status = "absent" /\ ~msg[r].run
    BY DEF OwnRowInv
<1>1. r # Old /\ r \in ObjId /\ r \in ChanId /\ r \notin Channel
    BY IdAssumption DEF ObjId, ChanId
<1> QED BY <1>1 DEF Init, InitTables, NoTask

\* The requests that have come under a key.
Uses(r, kind, key) == req[r].kind = kind /\ req[r].key = key /\ req[r].pc # "new"

\* The result that names one row.
RowOf(x) == [NoResult EXCEPT !.obj = x]

\* A key that was used for two channels was so for all who came under it.
LEMMA TwoChannelsOfKey ==
    ASSUME NEW kind, NEW key, NEW r1 \in Request, NEW r2 \in Request,
           Uses(r1, kind, key), Uses(r2, kind, key), TwoChannels(r1)
    PROVE  TwoChannels(r2)
<1>1. PICK r \in Request : req[r].pc # "new" /\ SameKey(r, r1) /\ req[r].ch # req[r1].ch
    BY DEF TwoChannels
<1>2. CASE req[r].ch # req[r2].ch
    BY <1>1, <1>2 DEF TwoChannels, SameKey, Uses
<1>3. CASE req[r].ch = req[r2].ch
    BY <1>1, <1>3 DEF TwoChannels, SameKey, Uses
<1> QED BY <1>2, <1>3

\* It remains so.
LEMMA TwoChannelsStay ==
    ASSUME NEW r \in Request, StepOf(r) \/ ArrivalOf(r), NEW o \in Request,
           req[o].pc # "new", TwoChannels(o)
    PROVE  TwoChannels(o)'
<1>1. PICK p \in Request : req[p].pc # "new" /\ SameKey(p, o) /\ req[p].ch # req[o].ch
    BY DEF TwoChannels
<1>2. ASSUME NEW q \in Request, req[q].pc # "new", req[q].kind = "task.create"
      PROVE  /\ req'[q].kind = req[q].kind /\ req'[q].key = req[q].key
             /\ req'[q].ch = req[q].ch /\ req'[q].pc # "new"
  <2>1. CASE StepOf(r)
      BY <1>2, <2>1, CommandsStay DEF SameCommand
  <2>2. CASE ArrivalOf(r)
      BY <1>2, <2>2 DEF ArrivalOf, Turns
  <2> QED BY <2>1, <2>2
<1> QED BY <1>1, <1>2 DEF TwoChannels, SameKey

\* The receipt of a key names a request that came under it and that request's row; the lease
\* lapses, and the result is stored, only when that request is over.
ReceiptKeyed(kind, key, rc) ==
    rc # NoReceipt => \E o \in Request :
        /\ rc.owner = o /\ Uses(o, kind, key) /\ rc.res = RowOf(o)
        /\ rc.stale => ~Live(o)
        /\ rc.done => /\ ~Live(o)
                      /\ HasRow(o) => rc.json = o
                      /\ kind = "channel.message" => HasRow(o)

\* What is known of a request under a key: it runs while it holds the receipt; it reclaims
\* a lease whose owner is over and has no row; its row, if it has made one, is the one the
\* receipt names; and it answers with the row of the receipt.
Running(rc, r) == req[r].pc \in {"run", "fanout", "finish", "fail"} => rc.owner = r
Failing(kind, r) == req[r].pc = "fail" /\ HasRow(r) => kind = "channel.message"
Finishing(kind, r) ==
    req[r].pc = "finish" =>
        \E x : /\ req[r].res = RowOf(x) /\ req[r].res.obj = x
               /\ x = r \/ (kind = "coworker.draft.create" /\ ~HasRow(r))
               /\ kind = "channel.message" => HasRow(r)
Making(rc, r) == HasRow(r) /\ ~TwoChannels(r) => rc.owner = r
Reclaiming(kind, key, rc, r) ==
    req[r].pc = "reclaim" => \E o \in Request :
        /\ req[r].seen.owner = o /\ ~Live(o) /\ Uses(o, kind, key)
        /\ rc.owner = o => ~rc.done /\ (HasRow(o) => TwoChannels(o))
Answering(rc, r) ==
    req[r].ans = "ok" /\ ~TwoChannels(r) =>
        /\ rc # NoReceipt /\ req[r].res = RowOf(IF rc.done THEN rc.json ELSE rc.owner)
        /\ rc.done \/ \E o \in Request : rc.owner = o /\ HasRow(o)

RequestKeyed(kind, key, rc, r) ==
    /\ Running(rc, r) /\ Failing(kind, r) /\ Finishing(kind, r) /\ Making(rc, r)
    /\ Reclaiming(kind, key, rc, r) /\ Answering(rc, r)

Keyed(kind, key, rc) ==
    /\ ReceiptKeyed(kind, key, rc)
    /\ \A r \in Request : Uses(r, kind, key) => RequestKeyed(kind, key, rc, r)

KeyInv == ~mix.slow => \A kind \in Inserts, key \in Key :
    \E rc \in ReceiptRow : rc = getCommandReceipt(kind, key) /\ Keyed(kind, key, rc)

\* What a step of a request does to the receipt of a key.
KeyMoves(kind, key, rc, rc2, r) ==
    \/ rc2 = rc
    \/ /\ Uses(r, kind, key)
       /\ \/ /\ req[r].pc = "claim" /\ req'[r].pc = "run" /\ rc = NoReceipt
             /\ rc2.owner = r /\ rc2.res = RowOf(r) /\ ~rc2.done /\ ~rc2.stale
          \/ /\ req[r].pc = "finish" /\ ~Live(r)' /\ rc # NoReceipt /\ rc.owner = r
             /\ rc2.owner = r /\ rc2.res = rc.res /\ rc2.done /\ rc2.stale = rc.stale
             /\ rc2.json = req[r].res.obj
          \/ /\ req[r].pc = "fail" /\ rc.owner = r /\ ~retainReceiptOnError(r) /\ rc2 = NoReceipt
          \/ /\ req[r].pc = "reclaim" /\ rc.stale /\ rc.owner = req[r].seen.owner
             /\ rc2 = NoReceipt

\* Each statement on receipts is one of these.
LEMMA ReceiptOfKeyMoves ==
    ASSUME WInv, ~mix.slow, NEW r \in Request, Moves(r), NEW kind \in Inserts, NEW key \in Key,
           NEW rc \in ReceiptRow, rc = getCommandReceipt(kind, key)
    PROVE  ReceiptAfter(kind, key) \in ReceiptRow
           /\ KeyMoves(kind, key, rc, ReceiptAfter(kind, key), r)
<1>0. /\ StepOf(r) /\ RowMoves(r) /\ ReceiptMoves(r) /\ kind \in CommandKind
      /\ req[r].pc # "new" /\ req[r].kind \in CommandKind
    BY StandsAt DEF Moves, TableMoves, StepOf, Runs, Inserts, CommandKind
<1>1. ReceiptAfter(kind, key) \in ReceiptRow
  <2>1. ReceiptsOK'
      BY <1>0, TablesParts DEF StepOf, WInv, TablesOK, ReceiptsOK
  <2>2. NoReceipt \in ReceiptRow
      BY Nulls
  <2> QED BY <2>1, <2>2 DEF ReceiptsOK, ReceiptAfter
<1> PICK rc2 \in ReceiptRow : rc2 = ReceiptAfter(kind, key)
    BY <1>1
<1> SUFFICES KeyMoves(kind, key, rc, rc2, r)
    OBVIOUS
<1>2. CASE receipt' = receipt
    BY <1>2, ReceiptsKept DEF KeyMoves
<1>3. CASE OthersKept(req[r].kind, req[r].key) /\ (kind # req[r].kind \/ key # req[r].key)
    BY <1>0, <1>3 DEF OthersKept, KeyMoves
<1>4. CASE kind = req[r].kind /\ key = req[r].key /\ receipt' # receipt
  <2>0. Uses(r, kind, key) /\ rc = Receipt(r)
      BY <1>0, <1>4 DEF Uses, Receipt
  <2>1. CASE /\ req[r].pc = "claim" /\ rc = NoReceipt /\ req'[r].pc = "run"
             /\ rc2 = ClaimedRow(r, ResultId(r))
    <3>1. PICK res \in Result : res = ResultId(r) /\ res = RowOf(r)
        BY <1>4, Typed, ResultIdIs DEF RowOf
    <3> QED BY <2>0, <2>1, <3>1, ClaimedRows DEF KeyMoves
  <2>2. CASE /\ req[r].pc = "finish" /\ rc.owner = r /\ rc # NoReceipt
             /\ rc2 = CompletedRow(rc, req[r].res.obj)
    <3>1. PICK obj \in ObjId \cup {NoRequest} : obj = req[r].res.obj
        BY StandsAt DEF Result
    <3>2. /\ CompletedRow(rc, obj).owner = r /\ CompletedRow(rc, obj).res = rc.res
          /\ CompletedRow(rc, obj).json = obj /\ CompletedRow(rc, obj).done
          /\ CompletedRow(rc, obj).stale = rc.stale
        BY <2>2, RewrittenRows
    <3>3. /\ req'[r].pc \in Late \ {"fanout"} /\ Fits(req'[r]) /\ req'[r].kind = kind
          /\ req'[r].pc = "fail" => FALSE
        BY <1>0, <1>4, <2>2 DEF StepOf, Runs, RowMoves, Late, SameCommand
    <3>4. req'[r].pc # "rebind"
        BY <3>3 DEF Fits, Pins, Inserts
    <3>5. req'[r].pc # "finish"
        BY <1>0, <1>4, <2>2
           DEF RowMoves, Finishes, Plain, Inserts, TaskMoves, InsertsTask, Moves, TableMoves
    <3>6. ~Live(r)'
        BY <3>3, <3>4, <3>5 DEF Live, Late
    <3>7. /\ rc2.owner = r /\ rc2.res = rc.res /\ rc2.done /\ rc2.stale = rc.stale
          /\ rc2.json = req[r].res.obj
        BY <2>2, <3>1, <3>2
    <3> QED BY <2>0, <2>2, <3>6, <3>7 DEF KeyMoves
  <2>3. req[r].pc # "rebind"
      BY <1>4, StandsAt DEF Fits, Pins, Inserts
  <2>4. CASE /\ rc2 = NoReceipt
             /\ req[r].pc = "fail" /\ rc.owner = r /\ ~retainReceiptOnError(r)
      BY <2>0, <2>4 DEF KeyMoves
  <2>5. CASE rc2 = NoReceipt /\ Reclaimed(r)
      BY <2>0, <2>5 DEF KeyMoves, Reclaimed
  <2> QED BY <1>0, <1>4, <2>0, <2>1, <2>2, <2>3, <2>4, <2>5 DEF ReceiptMoves
<1> QED BY <1>0, <1>1, <1>2, <1>3, <1>4 DEF ReceiptMoves

\* While r takes a step, what is known of the other requests of its key stays known: the row
\* of a request that is not r stays as it is.
LEMMA OthersRows ==
    ASSUME WInv, RowsInv, OwnRowInv, NEW r \in Request, Moves(r), NEW o \in Request, o # r
    PROVE  req'[o] = req[o] /\ (HasRow(o)' <=> HasRow(o)) /\ (Live(o)' <=> Live(o))
<1>1. req'[o] = req[o]
    BY DEF Moves, StepOf, Turns
<1> QED BY <1>1, RowsAppear DEF Live

\* The receipt of a key keeps naming its owner and that owner's row.
LEMMA ReceiptStaysKeyed ==
    ASSUME WInv, RowsInv, OwnRowInv, NEW r \in Request, Moves(r), NEW kind \in Inserts, NEW key,
           NEW rc \in ReceiptRow, NEW rc2 \in ReceiptRow, KeyMoves(kind, key, rc, rc2, r),
           Keyed(kind, key, rc)
    PROVE  ReceiptKeyed(kind, key, rc2)'
<1>0. /\ StepOf(r) /\ Live(r) /\ req[r].pc # "new"
    BY DEF Moves, StepOf, Runs, Live
<1>1. \A o \in Request : Uses(o, kind, key) => Uses(o, kind, key)'
    BY <1>0, CommandsStay DEF Uses, SameCommand
<1>2. ASSUME NEW o \in Request, ~Live(o)
      PROVE  o # r /\ ~Live(o)' /\ (HasRow(o)' <=> HasRow(o))
    BY <1>0, <1>2, OthersRows
<1> SUFFICES ASSUME rc2 # NoReceipt
             PROVE  \E o \in Request :
                      /\ rc2.owner = o /\ Uses(o, kind, key)' /\ rc2.res = RowOf(o)
                      /\ rc2.stale => ~Live(o)'
                      /\ rc2.done => /\ ~Live(o)'
                                     /\ HasRow(o)' => rc2.json = o
                                     /\ kind = "channel.message" => HasRow(o)'
    BY DEF ReceiptKeyed
<1>3. CASE rc2 = rc
  <2>1. PICK o \in Request :
            /\ rc.owner = o /\ Uses(o, kind, key) /\ rc.res = RowOf(o)
            /\ rc.stale => ~Live(o)
            /\ rc.done => /\ ~Live(o)
                          /\ HasRow(o) => rc.json = o
                          /\ kind = "channel.message" => HasRow(o)
      BY <1>3 DEF Keyed, ReceiptKeyed
  <2> QED BY <1>1, <1>2, <1>3, <2>1
<1>4. CASE /\ Uses(r, kind, key) /\ rc2.owner = r /\ rc2.res = RowOf(r)
           /\ ~rc2.done /\ ~rc2.stale
    BY <1>1, <1>4
<1>5. CASE /\ Uses(r, kind, key) /\ req[r].pc = "finish" /\ ~Live(r)' /\ rc # NoReceipt
           /\ rc.owner = r /\ rc2.owner = r /\ rc2.res = rc.res /\ rc2.json = req[r].res.obj
  <2>1. rc.res = RowOf(r)
      BY <1>5 DEF Keyed, ReceiptKeyed
  <2>2. Finishing(kind, r)
      BY <1>5 DEF Keyed, RequestKeyed
  <2>3. /\ HasRow(r) => req[r].res.obj = r
        /\ kind = "channel.message" => HasRow(r)
      BY <1>5, <2>2 DEF Finishing
  <2>4. HasRow(r)' <=> HasRow(r)
      BY <1>5, RowsAppear
  <2> QED BY <1>1, <1>5, <2>1, <2>3, <2>4
<1> QED BY <1>3, <1>4, <1>5 DEF KeyMoves

\* The owner of a receipt loses it to a request that found it over, and to nobody else.
LEMMA OwnerStays ==
    ASSUME NEW r \in Request, NEW kind, NEW key, NEW rc \in ReceiptRow,
           NEW rc2 \in ReceiptRow, KeyMoves(kind, key, rc, rc2, r), NEW o \in Request,
           rc.owner = o, o # r, rc2 # rc
    PROVE  /\ Uses(r, kind, key) /\ req[r].pc = "reclaim" /\ rc.stale
           /\ req[r].seen.owner = o /\ rc2 = NoReceipt
<1>1. rc # NoReceipt
    BY IdAssumption DEF NoReceipt
<1> QED BY <1>1 DEF KeyMoves

\* No request becomes the owner of a receipt but the one that takes a step.
LEMMA OwnerWas ==
    ASSUME NEW r \in Request, NEW kind, NEW key, NEW rc \in ReceiptRow,
           NEW rc2 \in ReceiptRow, KeyMoves(kind, key, rc, rc2, r), NEW o \in Request,
           rc2.owner = o, o # r
    PROVE  rc2 = rc
<1>1. NoReceipt.owner # o
    BY IdAssumption DEF NoReceipt
<1> QED BY <1>1 DEF KeyMoves

\* A stale receipt, and one that is done, is of a request that is over.
LEMMA OwnerIsOver ==
    ASSUME NEW kind, NEW key, NEW rc \in ReceiptRow, Keyed(kind, key, rc), NEW o \in Request,
           rc.owner = o, rc.stale \/ rc.done
    PROVE  ~Live(o) /\ Uses(o, kind, key)
<1>1. rc # NoReceipt
    BY IdAssumption DEF NoReceipt
<1> QED BY <1>1 DEF Keyed, ReceiptKeyed

\* A step of another request of the key takes nothing from what a request answered: the
\* result is stored for the row it answered with, and no receipt with a row is taken away.
LEMMA AnswerKept ==
    ASSUME WInv, RowsInv, OwnRowInv, NEW r \in Request, Moves(r), NEW kind \in Inserts, NEW key,
           NEW rc \in ReceiptRow, NEW rc2 \in ReceiptRow, KeyMoves(kind, key, rc, rc2, r),
           Keyed(kind, key, rc), NEW o \in Request, o # r, Uses(o, kind, key), Answering(rc, o)
    PROVE  Answering(rc2, o)'
<1>0. /\ StepOf(r) /\ Live(r) /\ req[r].pc # "new" /\ req'[o] = req[o] /\ req[o].pc # "new"
    BY OthersRows DEF Moves, StepOf, Runs, Live, Uses
<1> SUFFICES ASSUME req[o].ans = "ok", ~TwoChannels(o)'
             PROVE  /\ rc2 # NoReceipt
                    /\ req[o].res = RowOf(IF rc2.done THEN rc2.json ELSE rc2.owner)
                    /\ rc2.done \/ \E x \in Request : rc2.owner = x /\ HasRow(x)'
    BY <1>0 DEF Answering
<1>1. ~TwoChannels(o)
    BY <1>0, TwoChannelsStay
<1>2. /\ rc # NoReceipt /\ req[o].res = RowOf(IF rc.done THEN rc.json ELSE rc.owner)
      /\ rc.done \/ \E x \in Request : rc.owner = x /\ HasRow(x)
    BY <1>1 DEF Answering
<1>3. CASE rc2 = rc
    BY <1>2, <1>3, RowsAppear
<1>4. CASE /\ Uses(r, kind, key) /\ req[r].pc = "finish" /\ rc.owner = r
           /\ rc2.owner = r /\ rc2.done /\ rc2.json = req[r].res.obj
  <2>1. ~rc.done /\ HasRow(r)
      BY <1>0, <1>2, <1>4, OwnerIsOver
  <2>2. req[r].res.obj = r
      BY <1>4, <2>1 DEF Keyed, RequestKeyed, Finishing
  <2>3. rc2 # NoReceipt
      BY <1>4, IdAssumption DEF NoReceipt
  <2> QED BY <1>2, <1>4, <2>1, <2>2, <2>3
<1>5. CASE /\ Uses(r, kind, key) /\ req[r].pc = "fail" /\ rc.owner = r /\ ~retainReceiptOnError(r)
  <2>1. ~rc.done /\ HasRow(r)
      BY <1>0, <1>2, <1>5, OwnerIsOver
  <2>2. kind = "channel.message"
      BY <1>5, <2>1 DEF Keyed, RequestKeyed, Failing
  <2> QED BY <1>5, <2>1, <2>2 DEF retainReceiptOnError, HasRow, Uses
<1>6. CASE /\ Uses(r, kind, key) /\ req[r].pc = "reclaim" /\ rc.owner = req[r].seen.owner
  <2>1. PICK w \in Request : /\ req[r].seen.owner = w /\ Uses(w, kind, key)
                             /\ rc.owner = w => ~rc.done /\ (HasRow(w) => TwoChannels(w))
      BY <1>6 DEF Keyed, RequestKeyed, Reclaiming
  <2>2. TwoChannels(w)
      BY <1>2, <1>6, <2>1
  <2> QED BY <1>1, <2>1, <2>2, TwoChannelsOfKey
<1> QED BY <1>2, <1>3, <1>4, <1>5, <1>6 DEF KeyMoves

\* Another request of the key holds what it held.
LEMMA OtherStaysKeyed ==
    ASSUME WInv, RowsInv, OwnRowInv, NEW r \in Request, Moves(r), NEW kind \in Inserts, NEW key,
           NEW rc \in ReceiptRow, NEW rc2 \in ReceiptRow, KeyMoves(kind, key, rc, rc2, r),
           Keyed(kind, key, rc), NEW o \in Request, o # r, Uses(o, kind, key)
    PROVE  RequestKeyed(kind, key, rc2, o)'
<1>0. /\ StepOf(r) /\ Live(r) /\ req'[o] = req[o] /\ (HasRow(o)' <=> HasRow(o))
      /\ req[o].pc # "new" /\ RequestKeyed(kind, key, rc, o)
    BY OthersRows DEF Moves, StepOf, Runs, Live, Uses, Keyed
<1>1. Running(rc2, o)'
  <2> SUFFICES ASSUME req[o].pc \in {"run", "fanout", "finish", "fail"} PROVE rc2.owner = o
      BY <1>0 DEF Running
  <2>1. rc.owner = o /\ Live(o)
      BY <1>0 DEF RequestKeyed, Running, Live
  <2>2. ASSUME rc2 # rc PROVE FALSE
    <3>1. rc.stale
        BY <2>1, <2>2, OwnerStays, SMTT(20)
    <3> QED BY <2>1, <3>1, OwnerIsOver
  <2> QED BY <2>1, <2>2
<1>2. Failing(kind, o)'
    BY <1>0 DEF RequestKeyed, Failing
<1>3. Finishing(kind, o)'
    BY <1>0 DEF RequestKeyed, Finishing
<1>4. Making(rc2, o)'
  <2> SUFFICES ASSUME HasRow(o), ~TwoChannels(o)' PROVE rc2.owner = o
      BY <1>0 DEF Making
  <2>1. ~TwoChannels(o)
      BY <1>0, TwoChannelsStay
  <2>2. rc.owner = o
      BY <1>0, <2>1 DEF RequestKeyed, Making
  <2>3. ASSUME Uses(r, kind, key), req[r].pc = "reclaim", req[r].seen.owner = o PROVE FALSE
      BY <2>1, <2>2, <2>3 DEF Keyed, RequestKeyed, Reclaiming
  <2>4. rc2 # rc => Uses(r, kind, key) /\ req[r].pc = "reclaim" /\ req[r].seen.owner = o
      BY <2>2, OwnerStays, SMTT(20)
  <2> QED BY <2>2, <2>3, <2>4
<1>5. Reclaiming(kind, key, rc2, o)'
  <2> SUFFICES ASSUME req[o].pc = "reclaim"
               PROVE  \E w \in Request :
                        /\ req[o].seen.owner = w /\ ~Live(w)' /\ Uses(w, kind, key)'
                        /\ rc2.owner = w => ~rc2.done /\ (HasRow(w)' => TwoChannels(w)')
      BY <1>0 DEF Reclaiming
  <2>1. PICK w \in Request : /\ req[o].seen.owner = w /\ ~Live(w) /\ Uses(w, kind, key)
                             /\ rc.owner = w => ~rc.done /\ (HasRow(w) => TwoChannels(w))
      BY <1>0 DEF RequestKeyed, Reclaiming
  <2>2. w # r /\ req'[w] = req[w] /\ ~Live(w)' /\ Uses(w, kind, key)' /\ (HasRow(w)' <=> HasRow(w))
      BY <1>0, <2>1, OthersRows DEF Uses
  <2>3. rc2.owner = w => rc2 = rc
      BY <2>2, OwnerWas
  <2>4. TwoChannels(w) => TwoChannels(w)'
      BY <1>0, <2>1, TwoChannelsStay DEF Uses
  <2> QED BY <2>1, <2>2, <2>3, <2>4
<1>6. Answering(rc2, o)'
    BY <1>0, AnswerKept DEF RequestKeyed
<1> QED BY <1>1, <1>2, <1>3, <1>4, <1>5, <1>6 DEF RequestKeyed

\* A request that goes on holding a receipt holds it as its command runs.
LEMMA RunnerHolds ==
    ASSUME WInv, RowsInv, OwnRowInv, NEW r \in Request, Moves(r), NEW kind \in Inserts, NEW key,
           NEW rc \in ReceiptRow, NEW rc2 \in ReceiptRow, KeyMoves(kind, key, rc, rc2, r),
           Keyed(kind, key, rc), Uses(r, kind, key),
           req[r].pc \in {"run", "fanout"}
    PROVE  rc2 = rc /\ rc.owner = r
BY DEF KeyMoves, Keyed, RequestKeyed, Running

\* Where a request of an insert comes from.
LEMMA InsertRuns ==
    ASSUME WInv, RowsInv, OwnRowInv, NEW r \in Request, Moves(r), req[r].kind \in Inserts
    PROVE  /\ req'[r].pc = "fanout" => req[r].pc = "run"
           /\ req'[r].pc = "finish" => req[r].pc \in {"run", "fanout"}
           /\ req'[r].pc = "fail" => req[r].pc \in {"run", "fanout"}
           /\ req'[r].pc = "run" => req[r].pc = "claim"
<1>0. StepOf(r) /\ RowMoves(r) /\ Fits(req'[r]) /\ req'[r].kind = req[r].kind
    BY CommandsStay DEF Moves, StepOf, SameCommand
<1>1. ASSUME req'[r].pc = "fanout" PROVE req[r].pc = "run"
  <2>1. req[r].kind = "channel.message" /\ req[r].pc \notin Late /\ StoresMessage(r)
      BY <1>0, <1>1 DEF Fits, RowMoves, Inserts
  <2>2. ~HasRow(r)
      BY <2>1, RowsAreLate
  <2>3. msg'[r].chan = req[r].ch /\ req[r].ch # NoRequest
      BY <2>1, StandsAt, Typed, IdAssumption DEF StoresMessage, MsgRow
  <2>4. HasRow(r)'
      BY <1>0, <2>1, <2>3 DEF HasRow
  <2> QED BY <2>2, <2>4, RowsAppear
<1>2. req'[r].pc = "finish" => req[r].pc \in {"run", "fanout"}
    BY <1>0 DEF RowMoves, Finishes, Plain, Inserts
<1> QED BY <1>0, <1>1, <1>2 DEF RowMoves, Inserts

\* A command that succeeds names its own row, or a draft that awaits review already.
LEMMA FinishNames ==
    ASSUME WInv, RowsInv, OwnRowInv, NEW r \in Request, Moves(r), NEW kind \in Inserts,
           req[r].kind = kind
    PROVE  Finishing(kind, r)'
<1>0. /\ StepOf(r) /\ RowMoves(r) /\ r \in ObjId /\ RowOf(r).obj = r
      /\ ResultId(r) = RowOf(r)
    BY StandsAt, Typed, ResultIdIs DEF Moves, RowOf
<1> SUFFICES ASSUME req'[r].pc = "finish"
             PROVE  \E x : /\ req'[r].res = RowOf(x) /\ req'[r].res.obj = x
                           /\ x = r \/ (kind = "coworker.draft.create" /\ ~HasRow(r)')
                           /\ kind = "channel.message" => HasRow(r)'
    BY DEF Finishing
<1>1. Finishes(r)
    BY <1>0 DEF RowMoves
<1>2. CASE kind = "channel.create"
    BY <1>0, <1>1, <1>2 DEF Finishes, Plain
<1>3. CASE kind = "channel.message"
  <2>1. req'[r].res = RowOf(r) /\ req[r].pc = "fanout"
      BY <1>0, <1>1, <1>3 DEF Finishes, Plain
  <2>2. HasRow(r)
      BY <1>3, <2>1, StandsAt, IdAssumption DEF RowsInv, MessageInv, HasRow
  <2> QED BY <1>0, <2>1, <2>2, RowsAppear
<1>4. CASE kind = "task.create"
    BY <1>0, <1>1, <1>4 DEF Finishes, Plain, InsertsTask, Succeeds
<1>5. CASE kind = "coworker.draft.create"
  <2>1. CASE req'[r].res = RowOf(r)
      BY <1>0, <1>5, <2>1
  <2>2. CASE draft' = draft /\ FindsDraft(r) /\ req[r].pc = "run"
    <3>1. PICK d \in ObjId : draft[d].state # "absent" /\ req'[r].res = RowOf(d)
        BY <2>2 DEF FindsDraft, Succeeds, RowOf
    <3>2. RowOf(d).obj = d
        BY DEF RowOf, NoResult
    <3>3. ~HasRow(r)
        BY <2>2, RowsAreLate DEF Late
    <3>4. ~HasRow(r)'
        BY <1>0, <1>5, <2>2, <3>3, CommandsStay DEF HasRow, SameCommand
    <3> QED BY <1>5, <3>1, <3>2, <3>4
  <2> QED BY <1>0, <1>1, <1>5, <2>1, <2>2 DEF Finishes, Plain
<1> QED BY <1>2, <1>3, <1>4, <1>5 DEF Inserts

\* A request that reclaims has found an owner that is over and nothing of it to reload.
LEMMA ReclaimFinds ==
    ASSUME WInv, ~mix.slow, RowsInv, OwnRowInv, NEW r \in Request, Moves(r), NEW kind \in Inserts,
           NEW key \in Key, NEW rc \in ReceiptRow, rc = getCommandReceipt(kind, key),
           NEW rc2 \in ReceiptRow, rc2 = ReceiptAfter(kind, key),
           Keyed(kind, key, rc), Uses(r, kind, key)
    PROVE  Reclaiming(kind, key, rc2, r)'
<1>0. StepOf(r) /\ RowMoves(r) /\ Live(r) /\ rc = Receipt(r) /\ req[r].kind = kind
    BY DEF Moves, StepOf, Runs, Live, Receipt, Uses
<1> SUFFICES ASSUME req'[r].pc = "reclaim"
             PROVE  \E o \in Request :
                      /\ req'[r].seen.owner = o /\ ~Live(o)' /\ Uses(o, kind, key)'
                      /\ rc2.owner = o => ~rc2.done /\ (HasRow(o)' => TwoChannels(o)')
    BY DEF Reclaiming
<1>1. FindsNothing(r)
    BY <1>0 DEF RowMoves
<1>2. rc2 = rc /\ rc.stale /\ req'[r].seen.owner = rc.owner
    BY <1>0, <1>1, ReceiptsKept DEF FindsNothing, Reclaims, tables
<1>3. PICK o \in Request : /\ rc.owner = o /\ Uses(o, kind, key) /\ rc.res = RowOf(o) /\ ~Live(o)
                           /\ rc.done /\ kind = "channel.message" => HasRow(o)
    BY <1>2 DEF Keyed, ReceiptKeyed, NoReceipt
<1>4. rc.res.obj = o /\ rc # NoReceipt
    BY <1>3, IdAssumption DEF RowOf, NoResult, NoReceipt
<1>5. o # r /\ req'[o] = req[o] /\ (HasRow(o)' <=> HasRow(o)) /\ ~Live(o)' /\ Uses(o, kind, key)'
    BY <1>0, <1>3, OthersRows DEF Uses
<1>6. HasRow(o) => TwoChannels(o)
  <2>1. CASE kind = "channel.create"
    <3>1. chan[o].status = "absent"
        BY <1>0, <1>1, <1>4, <2>1 DEF FindsNothing, ReloadedChannel
    <3> QED BY <1>3, <2>1, <3>1 DEF HasRow, Uses
  <2>2. CASE kind = "channel.message"
    <3>1. msg[o].chan # req[r].ch /\ ~ChannelMismatch(r)
        BY <1>0, <1>1, <1>4, <2>2 DEF FindsNothing
    <3>2. o # NoRequest
        BY IdAssumption
    <3>3. msg[o].chan = NoRequest
        BY <1>0, <1>4, <2>2, <3>1, <3>2 DEF ChannelMismatch
    <3> QED BY <1>3, <2>2, <3>3 DEF HasRow, Uses
  <2>3. CASE kind = "task.create"
    <3>1. task[o].status = "absent" \/ task[o].chan # req[r].ch
        BY <1>0, <1>1, <1>4, <2>3 DEF FindsNothing, ReloadedTask
    <3>2. ASSUME HasRow(o) PROVE task[o].status # "absent" /\ req[o].ch # req[r].ch
        BY <1>3, <2>3, <3>1, <3>2 DEF HasRow, Uses, OwnRowInv
    <3> QED BY <1>3, <2>3, <3>2 DEF TwoChannels, SameKey, Uses
  <2>4. CASE kind = "coworker.draft.create"
    <3>1. draft[o].state = "absent"
        BY <1>0, <1>1, <1>4, <2>4 DEF FindsNothing, ReloadedDraft
    <3> QED BY <1>3, <2>4, <3>1 DEF HasRow, Uses
  <2> QED BY <2>1, <2>2, <2>3, <2>4 DEF Inserts
<1>7. ~rc.done
  <2>1. CASE kind = "channel.message"
    <3>1. ~HasRow(o)
        BY <1>6, <2>1, <1>3 DEF TwoChannels, Uses
    <3> QED BY <1>3, <2>1, <3>1
  <2>2. CASE kind # "channel.message"
      BY <1>0, <1>1, <2>2 DEF FindsNothing
  <2> QED BY <2>1, <2>2
<1>8. TwoChannels(o) => TwoChannels(o)'
    BY <1>0, <1>3, TwoChannelsStay DEF Uses
<1> QED BY <1>2, <1>3, <1>5, <1>6, <1>7, <1>8

\* A request is answered with the row of the receipt: of its own, when it stores its result,
\* or of the one it finds.
LEMMA AnswerNames ==
    ASSUME WInv, RowsInv, OwnRowInv, NEW r \in Request, Moves(r), NEW kind \in Inserts,
           NEW key \in Key, NEW rc \in ReceiptRow, rc = getCommandReceipt(kind, key),
           NEW rc2 \in ReceiptRow, rc2 = ReceiptAfter(kind, key),
           Keyed(kind, key, rc), Uses(r, kind, key)
    PROVE  Answering(rc2, r)'
<1>0. /\ StepOf(r) /\ RowMoves(r) /\ rc = Receipt(r) /\ req[r].kind = kind /\ req[r].key = key
      /\ kind \in CommandKind
    BY StandsAt DEF Moves, Receipt, Uses
<1> SUFFICES ASSUME req'[r].ans = "ok"
             PROVE  /\ rc2 # NoReceipt
                    /\ req'[r].res = RowOf(IF rc2.done THEN rc2.json ELSE rc2.owner)
                    /\ rc2.done \/ \E o \in Request : rc2.owner = o /\ HasRow(o)'
    BY DEF Answering
<1>1. CASE /\ req[r].pc = "finish" /\ req'[r].res = req[r].res
           /\ rc2 = CompletedRow(rc, req[r].res.obj)
  <2>1. PICK obj \in ObjId \cup {NoRequest} : obj = req[r].res.obj
      BY StandsAt DEF Result
  <2>2. rc2.done /\ rc2.json = obj
      BY <1>1, <2>1, RewrittenRows
  <2>3. req[r].res = RowOf(obj)
      BY <1>0, <1>1, <2>1 DEF Keyed, RequestKeyed, Finishing
  <2>4. rc2 # NoReceipt
      BY <2>2 DEF NoReceipt
  <2> QED BY <1>1, <2>2, <2>3, <2>4
<1>2. CASE ReplaysOk(r)
  <2>1. rc2 = rc /\ rc # NoReceipt
      BY <1>0, <1>2, ReceiptsKept DEF ReplaysOk
  <2>2. PICK o \in Request : /\ rc.owner = o /\ Uses(o, kind, key) /\ rc.res = RowOf(o)
                             /\ rc.done /\ HasRow(o) => rc.json = o
      BY <2>1 DEF Keyed, ReceiptKeyed
  <2>3. rc.res.obj = o
      BY <2>2 DEF RowOf, NoResult
  <2>4. ASSUME HasRow(o), req'[r].res = rc.res
        PROVE  /\ req'[r].res = RowOf(IF rc.done THEN rc.json ELSE rc.owner) /\ HasRow(o)'
      BY <2>2, <2>4, RowsAppear
  <2>5. CASE kind = "channel.message" /\ NamesStored(r) /\ req'[r].res = rc.res
    <3>1. msg[o].chan # NoRequest
        BY <1>0, <2>3, <2>5, StandsAt, IdAssumption DEF NamesStored
    <3>2. HasRow(o)
        BY <2>2, <2>5, <3>1 DEF HasRow, Uses
    <3> QED BY <2>1, <2>2, <2>4, <2>5, <3>2
  <2>6. CASE rc.done /\ req'[r].res = [rc.res EXCEPT !.obj = rc.json]
    <3>1. \A x : [RowOf(o) EXCEPT !.obj = x] = RowOf(x)
        BY DEF RowOf, NoResult
    <3> QED BY <2>1, <2>2, <2>6, <3>1
  <2>7. CASE kind = "channel.create" /\ req'[r].res \in ReloadedChannel(r)
    <3>1. req'[r].res = rc.res /\ chan[o].status # "absent"
        BY <1>0, <2>3, <2>7 DEF ReloadedChannel
    <3>2. HasRow(o)
        BY <2>2, <2>7, <3>1 DEF HasRow, Uses
    <3> QED BY <2>1, <2>2, <2>4, <3>1, <3>2
  <2>8. CASE kind = "task.create" /\ req'[r].res \in ReloadedTask(r)
    <3>1. req'[r].res = rc.res /\ task[o].status # "absent"
        BY <1>0, <2>3, <2>8 DEF ReloadedTask
    <3>2. HasRow(o)
        BY <2>2, <2>8, <3>1 DEF HasRow, Uses
    <3> QED BY <2>1, <2>2, <2>4, <3>1, <3>2
  <2>9. CASE kind = "coworker.draft.create" /\ req'[r].res \in ReloadedDraft(r)
    <3>1. req'[r].res = rc.res /\ draft[o].state # "absent"
        BY <1>0, <2>3, <2>9 DEF ReloadedDraft
    <3>2. HasRow(o)
        BY <2>2, <2>9, <3>1 DEF HasRow, Uses
    <3> QED BY <2>1, <2>2, <2>4, <3>1, <3>2
  <2> QED BY <1>0, <1>2, <2>5, <2>6, <2>7, <2>8, <2>9 DEF ReplaysOk, Inserts, Pins
<1>3. AnswersOk(r) /\ kind \notin Plain /\ req[r].pc # "rebind"
    BY <1>0, StandsAt DEF RowMoves, Plain, Inserts, Fits, Pins
<1> QED BY <1>0, <1>1, <1>2, <1>3 DEF AnswersOk

\* What is known of the request that takes the step.
LEMMA OwnStaysKeyed ==
    ASSUME WInv, ~mix.slow, RowsInv, OwnRowInv, NEW r \in Request, Moves(r),
           NEW kind \in Inserts, NEW key \in Key, NEW rc \in ReceiptRow,
           rc = getCommandReceipt(kind, key), NEW rc2 \in ReceiptRow,
           rc2 = ReceiptAfter(kind, key), KeyMoves(kind, key, rc, rc2, r),
           Keyed(kind, key, rc), Uses(r, kind, key)
    PROVE  RequestKeyed(kind, key, rc2, r)'
<1>0. /\ StepOf(r) /\ RowMoves(r) /\ Live(r) /\ req[r].kind = kind /\ req'[r].kind = kind
      /\ RequestKeyed(kind, key, rc, r) /\ req[r].pc # "new"
    BY CommandsStay DEF Moves, StepOf, Runs, Live, Uses, SameCommand, Keyed
<1>1. Running(rc2, r)'
  <2> SUFFICES ASSUME req'[r].pc \in {"run", "fanout", "finish", "fail"} PROVE rc2.owner = r
      BY DEF Running
  <2>1. CASE req'[r].pc = "run"
    <3>1. rc2 = ClaimedRow(r, ResultId(r))
        BY <1>0, <2>1, InsertRuns DEF RowMoves, Uses, Inserts
    <3> QED BY <3>1, StandsAt, ClaimedRows
  <2>2. CASE req'[r].pc \in {"fanout", "finish", "fail"}
    <3>1. req[r].pc \in {"run", "fanout"}
        BY <1>0, <2>2, InsertRuns
    <3> QED BY <3>1, RunnerHolds
  <2> QED BY <2>1, <2>2
<1>2. Failing(kind, r)'
  <2> SUFFICES ASSUME req'[r].pc = "fail", HasRow(r)', kind # "channel.message" PROVE FALSE
      BY DEF Failing
  <2>1. kind = "task.create" /\ req[r].pc \in {"run", "fanout"}
      BY <1>0, InsertRuns DEF StepOf, Fits, Inserts
  <2>2. req[r].pc = "run"
      BY <1>0, <2>1, StandsAt DEF Fits
  <2>3. task' = task
      BY <1>0, <2>1 DEF RowMoves
  <2>4. HasRow(r)
      BY <1>0, <2>1, <2>3 DEF HasRow
  <2> QED BY <2>2, <2>4, RowsAreLate DEF Late
<1>3. Finishing(kind, r)'
    BY <1>0, FinishNames
<1>4. Making(rc2, r)'
  <2> SUFFICES ASSUME HasRow(r)', ~TwoChannels(r)' PROVE rc2.owner = r
      BY DEF Making
  <2>1. ~TwoChannels(r)
      BY <1>0, TwoChannelsStay
  <2>2. CASE req[r].pc = "run"
      BY <2>2, RunnerHolds
  <2>3. CASE HasRow(r)
    <3>1. rc.owner = r /\ rc # NoReceipt
        BY <1>0, <2>1, <2>3, IdAssumption DEF RequestKeyed, Making, NoReceipt
    <3>2. ~rc.stale
        BY <1>0, <3>1, OwnerIsOver
    <3>3. req[r].pc = "fail" => retainReceiptOnError(r)
        BY <1>0, <2>3 DEF RequestKeyed, Failing, retainReceiptOnError, HasRow
    <3> QED BY <3>1, <3>2, <3>3 DEF KeyMoves
  <2> QED BY <2>2, <2>3, RowsAppear
<1>5. Reclaiming(kind, key, rc2, r)'
    BY ReclaimFinds
<1>6. Answering(rc2, r)'
    BY AnswerNames
<1> QED BY <1>1, <1>2, <1>3, <1>4, <1>5, <1>6 DEF RequestKeyed

\* A step of a request keeps every key.
LEMMA KeyInvMoves ==
    ASSUME WInv, RowsInv, OwnRowInv, KeyInv, NEW r \in Request, Moves(r)
    PROVE  KeyInv'
<1>0. StepOf(r) /\ mix' = mix
    BY DEF Moves, StepOf
<1> SUFFICES ASSUME ~mix.slow, NEW kind \in Inserts, NEW key \in Key
             PROVE  \E rc2 \in ReceiptRow : rc2 = getCommandReceipt(kind, key)' /\ Keyed(kind, key, rc2)'
    BY <1>0 DEF KeyInv
<1>1. PICK rc \in ReceiptRow : rc = getCommandReceipt(kind, key) /\ Keyed(kind, key, rc)
    BY DEF KeyInv
<1>2. PICK rc2 \in ReceiptRow : rc2 = ReceiptAfter(kind, key) /\ KeyMoves(kind, key, rc, rc2, r)
    BY <1>1, ReceiptOfKeyMoves
<1>3. ReceiptKeyed(kind, key, rc2)'
    BY <1>1, <1>2, ReceiptStaysKeyed
<1>4. ASSUME NEW o \in Request, Uses(o, kind, key)' PROVE RequestKeyed(kind, key, rc2, o)'
  <2>1. Uses(o, kind, key)
      BY <1>0, <1>4, CommandsStay DEF Uses, SameCommand
  <2>2. CASE o = r
      BY <1>1, <1>2, <2>1, <2>2, OwnStaysKeyed
  <2>3. CASE o # r
      BY <1>1, <1>2, <2>1, <2>3, OtherStaysKeyed
  <2> QED BY <2>2, <2>3
<1>5. Keyed(kind, key, rc2)'
    BY <1>3, <1>4 DEF Keyed
<1> QED BY <1>2, <1>5, ReceiptNext

\* A request that arrives holds nothing and has answered nothing.
LEMMA KeyInvArrival ==
    ASSUME WInv, RowsInv, OwnRowInv, KeyInv, NEW r \in Request, ArrivalOf(r)
    PROVE  KeyInv'
<1>0. /\ mix' = mix /\ receipt' = receipt /\ ~HasRow(r)' /\ req[r].pc = "new"
      /\ req'[r].pc \in {"claim", "replay", "plan", "done"} /\ req'[r].ans # "ok"
      /\ \A o \in Request \ {r} : req'[o] = req[o] /\ (HasRow(o)' <=> HasRow(o))
    BY OwnRowArrival DEF ArrivalOf, tables
<1> SUFFICES ASSUME ~mix.slow, NEW kind \in Inserts, NEW key \in Key
             PROVE  \E rc \in ReceiptRow : rc = getCommandReceipt(kind, key)' /\ Keyed(kind, key, rc)'
    BY <1>0 DEF KeyInv
<1>1. PICK rc \in ReceiptRow : rc = getCommandReceipt(kind, key) /\ Keyed(kind, key, rc)
    BY DEF KeyInv
<1>2. rc = getCommandReceipt(kind, key)'
    BY <1>0, <1>1, ReceiptNext, ReceiptsKept
<1>3. ASSUME NEW o \in Request, Uses(o, kind, key)
      PROVE  /\ o # r /\ req'[o] = req[o] /\ (HasRow(o)' <=> HasRow(o)) /\ Uses(o, kind, key)'
             /\ (Live(o)' <=> Live(o)) /\ (TwoChannels(o) => TwoChannels(o)')
  <2>1. o # r /\ req'[o] = req[o]
      BY <1>0, <1>3 DEF Uses
  <2> QED BY <1>0, <1>3, <2>1, TwoChannelsStay DEF Uses, Live
<1>4. ReceiptKeyed(kind, key, rc)'
    BY <1>1, <1>3 DEF Keyed, ReceiptKeyed
<1>5. RequestKeyed(kind, key, rc, r)'
    BY <1>0 DEF RequestKeyed, Running, Failing, Finishing, Making, Reclaiming, Answering
<1>6. ASSUME NEW o \in Request, Uses(o, kind, key) PROVE RequestKeyed(kind, key, rc, o)'
  <2>1. RequestKeyed(kind, key, rc, o)
      BY <1>1, <1>6 DEF Keyed
  <2>2. /\ Running(rc, o)' /\ Failing(kind, o)' /\ Finishing(kind, o)' /\ Making(rc, o)'
      BY <1>3, <1>6, <2>1 DEF RequestKeyed, Running, Failing, Finishing, Making
  <2>3. Reclaiming(kind, key, rc, o)'
      BY <1>3, <1>6, <2>1 DEF RequestKeyed, Reclaiming
  <2>4. Answering(rc, o)'
    <3>1. \A x \in Request : rc.owner = x /\ rc # NoReceipt => Uses(x, kind, key)
        BY <1>1 DEF Keyed, ReceiptKeyed
    <3> QED BY <1>3, <1>6, <2>1, <3>1 DEF RequestKeyed, Answering
  <2> QED BY <2>2, <2>3, <2>4 DEF RequestKeyed
<1>7. \A o \in Request : Uses(o, kind, key)' => o = r \/ Uses(o, kind, key)
    BY <1>0 DEF Uses
<1>8. Keyed(kind, key, rc)'
    BY <1>4, <1>5, <1>6, <1>7 DEF Keyed
<1> QED BY <1>2, <1>8

\* A lease lapses only when its owner is over; nothing else the environment does counts here.
LEMMA KeyInvEnvironment ==
    ASSUME WInv, OwnRowInv, KeyInv, EnvironmentMoves
    PROVE  KeyInv'
<1>0. mix' = mix /\ req' = req /\ \A o \in Request : HasRow(o)' <=> HasRow(o)
    BY OwnRowEnvironment
<1> SUFFICES ASSUME ~mix.slow, NEW kind \in Inserts, NEW key \in Key
             PROVE  \E rc \in ReceiptRow : rc = getCommandReceipt(kind, key)' /\ Keyed(kind, key, rc)'
    BY <1>0 DEF KeyInv
<1>1. PICK rc \in ReceiptRow : rc = getCommandReceipt(kind, key) /\ Keyed(kind, key, rc)
    BY DEF KeyInv
<1>2. \A o \in Request : /\ (Live(o)' <=> Live(o)) /\ (TwoChannels(o)' <=> TwoChannels(o))
                         /\ (Uses(o, kind, key)' <=> Uses(o, kind, key))
    BY <1>0 DEF Live, TwoChannels, SameKey, Uses
<1>3. PICK rc2 \in ReceiptRow :
          /\ rc2 = getCommandReceipt(kind, key)'
          /\ rc2.owner = rc.owner /\ rc2.res = rc.res /\ rc2.json = rc.json
          /\ (rc2.done <=> rc.done) /\ (rc2 = NoReceipt <=> rc = NoReceipt)
          /\ rc2.stale => rc.stale \/ ~Live(rc.owner)
  <2>1. CASE ReceiptAfter(kind, key) = rc
      BY <2>1, ReceiptNext
  <2>2. ASSUME NEW stale \in BOOLEAN, rc # NoReceipt, ReceiptAfter(kind, key) = StaleRow(rc, stale),
               stale => ~Live(rc.owner)
        PROVE  \E x \in ReceiptRow :
                  /\ x = getCommandReceipt(kind, key)'
                  /\ x.owner = rc.owner /\ x.res = rc.res /\ x.json = rc.json
                  /\ (x.done <=> rc.done) /\ (x = NoReceipt <=> rc = NoReceipt)
                  /\ x.stale => rc.stale \/ ~Live(rc.owner)
    <3>1. rc.owner \in Request
        BY <1>1, <2>2 DEF Keyed, ReceiptKeyed
    <3>2. PICK x \in ReceiptRow :
              /\ x = StaleRow(rc, stale) /\ x.owner = rc.owner /\ x.res = rc.res
              /\ x.json = rc.json /\ x.done = rc.done /\ x.stale = stale
        BY StaleRows
    <3>3. x # NoReceipt
        BY <3>1, <3>2, IdAssumption DEF NoReceipt
    <3> QED BY <2>2, <3>2, <3>3, ReceiptNext
  <2>3. CASE receipt' = receipt
      BY <1>1, <2>1, <2>3, ReceiptsKept
  <2>4. ASSUME NEW kind2, NEW key2, Lapses(kind2, key2), kind2 # kind \/ key2 # key
        PROVE  ReceiptAfter(kind, key) = rc
      BY <1>1, <2>4 DEF Lapses, OthersKept, Inserts, CommandKind
  <2>5. ASSUME Lapses(kind, key)
        PROVE  \E stale \in BOOLEAN : /\ rc # NoReceipt /\ (stale => ~Live(rc.owner))
                                      /\ ReceiptAfter(kind, key) = StaleRow(rc, stale)
      BY <1>1, <2>5 DEF Lapses
  <2>6. \/ receipt' = receipt
        \/ \E kind2, key2 : Lapses(kind2, key2) /\ (kind2 # kind \/ key2 # key)
        \/ Lapses(kind, key)
    <3>1. CASE \E kind2, key2 : Lapses(kind2, key2)
        BY <3>1
    <3>2. CASE receipt' = receipt
        BY <3>2
    <3> QED BY <3>1, <3>2 DEF EnvironmentMoves
  <2>7. CASE Lapses(kind, key)
    <3>1. PICK stale \in BOOLEAN : /\ rc # NoReceipt /\ (stale => ~Live(rc.owner))
                                  /\ ReceiptAfter(kind, key) = StaleRow(rc, stale)
        BY <2>5, <2>7
    <3> QED BY <2>2, <3>1
  <2>8. CASE \E kind2, key2 : Lapses(kind2, key2) /\ (kind2 # kind \/ key2 # key)
    <3>1. PICK kind2, key2 : Lapses(kind2, key2) /\ (kind2 # kind \/ key2 # key)
        BY <2>8
    <3> QED BY <2>1, <2>4, <3>1
  <2> QED BY <2>3, <2>6, <2>7, <2>8
<1>4. ReceiptKeyed(kind, key, rc2)'
    BY <1>0, <1>1, <1>2, <1>3 DEF Keyed, ReceiptKeyed
<1>5. ASSUME NEW o \in Request, Uses(o, kind, key) PROVE RequestKeyed(kind, key, rc2, o)'
    BY <1>0, <1>1, <1>2, <1>3, <1>5
       DEF Keyed, RequestKeyed, Running, Failing, Finishing, Making, Reclaiming, Answering
<1>6. Keyed(kind, key, rc2)'
    BY <1>2, <1>4, <1>5 DEF Keyed
<1> QED BY <1>3, <1>6

\* Every step keeps it.
LEMMA KeyInvStep == WInv /\ RowsInv /\ OwnRowInv /\ KeyInv /\ [Next]_vars => KeyInv'
<1>1. ASSUME KeyInv, UNCHANGED vars PROVE KeyInv'
  <2>1. req' = req /\ receipt' = receipt /\ chan' = chan /\ msg' = msg /\ task' = task
        /\ draft' = draft /\ mix' = mix
      BY <1>1 DEF vars, tables
  <2>2. \A o \in Request : HasRow(o)' <=> HasRow(o)
      BY <2>1 DEF HasRow
  <2>3. ASSUME NEW kind, NEW key, NEW rc, Keyed(kind, key, rc) PROVE Keyed(kind, key, rc)'
      BY <2>1, <2>2, <2>3 DEF Keyed, ReceiptKeyed, RequestKeyed, Running, Failing, Finishing,
         Making, Reclaiming, Answering, Uses, Live, TwoChannels, SameKey
  <2>4. \A kind, key : getCommandReceipt(kind, key)' = getCommandReceipt(kind, key)
      BY <2>1 DEF getCommandReceipt
  <2> QED BY <1>1, <2>1, <2>3, <2>4 DEF KeyInv
<1> QED BY <1>1, NextMoves, KeyInvMoves, KeyInvArrival, KeyInvEnvironment

\* At the start no key has been used.
LEMMA KeyInvStarts == Init => KeyInv
<1> SUFFICES ASSUME Init, NEW kind \in Inserts, NEW key \in Key
             PROVE  \E rc \in ReceiptRow : rc = getCommandReceipt(kind, key) /\ Keyed(kind, key, rc)
    BY DEF KeyInv
<1>1. getCommandReceipt(kind, key) = NoReceipt
    BY DEF Init, InitTables, getCommandReceipt
<1>2. \A r \in Request : ~Uses(r, kind, key)
    BY DEF Init, InitReceipts, NewReq, Uses
<1>3. Keyed(kind, key, NoReceipt)
    BY <1>2 DEF Keyed, ReceiptKeyed
<1> QED BY <1>1, <1>3, Nulls

\* Whatever crashes or is reclaimed between the attempts, as long as no attempt outlives its
\* lease, requests under one key make one channel, one task, one draft or one run of a
\* message, and those that succeed are answered with the same row: what a request of the
\* key has made is the row its receipt names, and a receipt with a row is never taken away.
THEOREM OneKeyOneEffect == Spec => []OneEffectPerKey
<1>1. ASSUME WInv, RowsInv, OwnRowInv, KeyInv PROVE OneEffectPerKey
  <2> SUFFICES ASSUME ~mix.slow, NEW r1 \in Request, NEW r2 \in Request,
                      SameKey(r1, r2), ~TwoChannels(r1)
               PROVE  /\ /\ req[r1].ans = "ok" /\ req[r2].ans = "ok"
                         /\ req[r1].kind \in Inserts
                         => req[r1].res = req[r2].res
                      /\ Effect(r1) /\ Effect(r2) => r1 = r2
      BY DEF OneEffectPerKey
  <2>1. ASSUME req[r1].pc # "new", req[r2].pc # "new", req[r1].kind \in Inserts
        PROVE  \E kind \in Inserts, key \in Key :
                  \E rc \in ReceiptRow :
                      /\ Making(rc, r1) /\ Making(rc, r2) /\ Answering(rc, r1) /\ Answering(rc, r2)
                      /\ ~TwoChannels(r2)
    <3>1. PICK kind \in Inserts, key \in Key : Uses(r1, kind, key) /\ Uses(r2, kind, key)
        BY <1>1, <2>1, StandsAt DEF Fits, Inserts, Uses, SameKey
    <3>2. ~TwoChannels(r2)
        BY <3>1, TwoChannelsOfKey
    <3>3. PICK rc \in ReceiptRow : Keyed(kind, key, rc)
        BY <1>1 DEF KeyInv
    <3> QED BY <3>1, <3>2, <3>3 DEF Keyed, RequestKeyed
  <2>2. ASSUME req[r1].ans = "ok", req[r2].ans = "ok", req[r1].kind \in Inserts
        PROVE  req[r1].res = req[r2].res
    <3>1. req[r1].pc = "done" /\ req[r2].pc = "done"
        BY <1>1, <2>2, StandsAt DEF Fits
    <3> QED BY <2>1, <2>2, <3>1 DEF Answering
  <2>3. ASSUME Effect(r1), Effect(r2) PROVE r1 = r2
    <3>1. ASSUME NEW r \in Request, Effect(r) PROVE HasRow(r) /\ req[r].kind \in Inserts
        BY <1>1, <3>1 DEF Effect, HasRow, OwnRowInv, Inserts
    <3>2. /\ HasRow(r1) /\ HasRow(r2) /\ req[r1].kind \in Inserts
          /\ req[r1].pc # "new" /\ req[r2].pc # "new"
        BY <1>1, <2>3, <3>1, RowsAreLate DEF Late
    <3> QED BY <2>1, <3>2 DEF Making
  <2> QED BY <2>2, <2>3
<1> QED BY <1>1, RowsFitAlways, AnswerStarts, RowsStep, OwnRowStarts, OwnRowStep,
           KeyInvStarts, KeyInvStep, PTL DEF Spec
=============================================================================
