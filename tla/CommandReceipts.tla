-------------------------- MODULE CommandReceipts --------------------------
(***************************************************************************)
(* The idempotency protocol every mutating workspace command runs under: a *)
(* receipt claimed under a lease before the command runs, kept alive by a  *)
(* heartbeat, completed with the result, and replayed to a request that    *)
(* comes back with the same key.                                           *)
(*                                                                         *)
(* A request is a process of the API.  Each step below is one transaction  *)
(* or one group of reads; requests interleave between steps.               *)
(***************************************************************************)
EXTENDS WorkspaceTables

CONSTANTS
    Mixes   \* the commands and keys a behaviour draws its requests from; slow when a request
            \* may outlive its lease, its heartbeat held up, and a message's repair may fail

ASSUME MixAssumption ==
    /\ Mixes # {}
    /\ \A m \in Mixes : m.kinds \subseteq CommandKind /\ m.keys \subseteq Key /\ m.slow \in BOOLEAN

VARIABLES
    req,   \* the requests: program counter, command, what was read, answer
    lock,  \* the advisory lock of a coworker's provisioning
    mix    \* the commands of this behaviour; never changes

vars == <<tables, req, lock, mix>>

PC == {"new", "replay", "plan", "claim", "reload", "reclaim", "run", "lock", "provision",
       "persist", "write", "fanout", "finish", "rebind", "fail", "done", "dead"}

\* ch, w, obj, st, rev, set: what the command names; by: the coworker that calls it, if it
\* is not a person.  seen: the rows it has read.
\* left: the channels draft confirmation has still to provision.
ReqRow == [pc : PC, kind : CommandKind, key : Key \cup {NoRequest}, ch : Channel, w : Coworker \cup {NoRequest},
           obj : ObjId \cup {NoRequest}, st : TaskStatus, rev : Nat, set : SUBSET Channel,
           by : Coworker \cup {NoRequest},
           tries : 1..2, left : SUBSET Channel, ans : {"none", "ok", "error"}, res : Result,
           seen : [chan : {"absent", "active", "archived"}, cow : CowRow, task : TaskRow,
                   draft : DraftRow, members : SUBSET Channel,
                   owner : Request \cup {NoRequest}]]

NothingRead == [chan |-> "absent", cow |-> NoCow, task |-> NoTask, draft |-> NoDraft,
                members |-> {}, owner |-> NoRequest]

NewReq == [pc |-> "new", kind |-> "channel.create", key |-> NoRequest,
           ch |-> NullChannel, w |-> NoRequest, obj |-> NoRequest, st |-> "todo", rev |-> 0, set |-> {},
           by |-> NoRequest, tries |-> 1, left |-> {}, ans |-> "none", res |-> NoResult,
           seen |-> NothingRead]

Live(r) == req[r].pc \notin {"new", "done", "dead"}

Goto(r, pc) == req' = [req EXCEPT ![r].pc = pc]

\* What a request has read goes with it.
Answer(r, ans, res) == req' = [req EXCEPT ![r].pc = "done", ![r].ans = ans, ![r].res = res,
                                          ![r].seen = NothingRead]

Refuse(r) == Answer(r, "error", NoResult)

Receipt(r) == getCommandReceipt(req[r].kind, req[r].key)

\* The result_id under which a request claims its key.
ResultId(r) ==
    LET q == req[r] IN
    CASE q.kind \in {"channel.create", "channel.message", "task.create", "coworker.draft.create"} ->
             [NoResult EXCEPT !.obj = r]
      [] q.kind \in {"channel.update", "channel.archive"} -> [NoResult EXCEPT !.ch = q.ch]
      [] q.kind \in {"channel.participant.add", "channel.participant.remove"} ->
             [NoResult EXCEPT !.ch = q.ch, !.w = q.w]
      [] q.kind = "coworker.disable" -> [NoResult EXCEPT !.w = q.w]
      [] q.kind = "channel.pin.create" -> [NoResult EXCEPT !.ch = q.ch, !.obj = q.obj]
      [] OTHER -> [NoResult EXCEPT !.obj = q.obj]

\* Commands whose stored result_json has the shape reloadIdempotentResult accepts.
CachesResult == CommandKind \ {"channel.message", "channel.pin.create", "channel.pin.remove"}

\* Mutant: any claim is old enough.
isStaleClaimUnchecked(rc) == rc # NoReceipt

isStaleClaim(rc) == rc.stale

-----------------------------------------------------------------------------
\* reloadIdempotentResult: the stored result, else what the row named by the
\* receipt reloads to (no element: nothing yet).
reloadIdempotentResult(r, reloaded) ==
    IF Receipt(r) = NoReceipt THEN {}
    ELSE IF Receipt(r).done /\ req[r].kind \in CachesResult
         THEN {[Receipt(r).res EXCEPT !.obj = Receipt(r).json]}
         ELSE reloaded

\* tryOnce: insert the receipt, or find it taken.
Claim(r) ==
    /\ req[r].pc = "claim"
    /\ IF Receipt(r) = NoReceipt
       THEN /\ receipt' = tryClaimCommandReceipt(req[r].kind, req[r].key, r, ResultId(r))
            /\ Goto(r, "run")
       ELSE Goto(r, "reload") /\ UNCHANGED receipt
    /\ UNCHANGED <<chan, part, cow, csess, msg, task, pin, draft, lock, mix>>

\* The key is taken: refuse another target, replay a result, or reclaim a stale lease.
Replayed(r, mismatch, reloaded) ==
    LET value == reloadIdempotentResult(r, reloaded) IN
    IF mismatch THEN Refuse(r)
    ELSE IF value # {} THEN \E v \in value : Answer(r, "ok", v)
    ELSE IF isStaleClaim(Receipt(r))
    THEN req' = [req EXCEPT ![r].pc = "reclaim", ![r].seen.owner = Receipt(r).owner]
    ELSE Refuse(r)

\* withIdempotency tries twice.
Retry(r) ==
    IF req[r].tries = 1 THEN req' = [req EXCEPT ![r].pc = "claim", ![r].tries = 2] ELSE Refuse(r)

\* reclaimStaleCommandReceipt deletes what is older than a cutoff taken when the receipt was
\* read: a newer claim is safe, unless this request has stalled as well.
reclaimStaleCommandReceipt(r) ==
    /\ req[r].pc = "reclaim"
    /\ IF /\ isStaleClaim(Receipt(r))
          /\ Receipt(r).owner = req[r].seen.owner \/ mix.slow
       THEN /\ receipt' = deleteCommandReceipt(req[r].kind, req[r].key)
            /\ Retry(r)
       ELSE Refuse(r) /\ UNCHANGED receipt
    /\ UNCHANGED <<chan, part, cow, csess, msg, task, pin, draft, lock, mix>>

Succeeded(r, res) == req' = [req EXCEPT ![r].pc = "finish", ![r].res = res]

\* A command that succeeded stores its result if it still holds the receipt.
Finish(r) ==
    /\ req[r].pc = "finish"
    /\ IF HoldsReceipt(req[r].kind, req[r].key, r)
       THEN /\ receipt' = completeCommandReceipt(req[r].kind, req[r].key, req[r].res.obj)
            /\ IF req[r].kind \in {"channel.pin.create", "channel.pin.remove"}
               THEN Goto(r, "rebind")
               ELSE Answer(r, "ok", req[r].res)
       ELSE Refuse(r) /\ UNCHANGED receipt
    /\ UNCHANGED <<chan, part, cow, csess, msg, task, pin, draft, lock, mix>>

\* finalizeResultId: pin commands rewrite result_id with the pin they made or removed.
Rebind(r) ==
    /\ req[r].pc = "rebind"
    /\ IF HoldsReceipt(req[r].kind, req[r].key, r)
       THEN /\ receipt' = rebindCommandReceiptResultId(req[r].kind, req[r].key, req[r].res.obj)
            /\ Answer(r, "ok", req[r].res)
       ELSE Refuse(r) /\ UNCHANGED receipt
    /\ UNCHANGED <<chan, part, cow, csess, msg, task, pin, draft, lock, mix>>

\* A command that failed gives its receipt back, unless its message is already stored.
retainReceiptOnError(r) == req[r].kind = "channel.message" /\ msg[r].chan # NoRequest

Fail(r) ==
    /\ req[r].pc = "fail"
    /\ req[r].left = {}
    /\ receipt' = IF HoldsReceipt(req[r].kind, req[r].key, r) /\ ~retainReceiptOnError(r)
                  THEN deleteCommandReceipt(req[r].kind, req[r].key)
                  ELSE receipt
    /\ Refuse(r)
    /\ UNCHANGED <<chan, part, cow, csess, msg, task, pin, draft, lock, mix>>

-----------------------------------------------------------------------------
\* The process dies: its heartbeat stops and its locks and transactions go with it.
Crash(r) ==
    /\ Live(r)
    /\ req' = [req EXCEPT ![r].pc = "dead", ![r].seen = NothingRead]
    /\ lock' = [w \in Coworker |-> IF lock[w] = r THEN NoRequest ELSE lock[w]]
    /\ UNCHANGED <<tables, mix>>

\* The lease passes without a touch: the owner is gone, or has stalled.
LeaseLapses(kind, key) ==
    LET rc == getCommandReceipt(kind, key) IN
    /\ rc # NoReceipt
    /\ ~rc.stale
    /\ ~Live(rc.owner) \/ mix.slow
    /\ receipt' = [receipt EXCEPT ![<<kind, key>>].stale = TRUE]
    /\ UNCHANGED <<chan, part, cow, csess, msg, task, pin, draft, req, lock, mix>>

touchCommandReceipt(r) ==
    /\ Live(r)
    /\ req[r].key # NoRequest
    /\ HoldsReceipt(req[r].kind, req[r].key, r)
    /\ isStaleClaim(Receipt(r))
    /\ receipt' = [receipt EXCEPT ![<<req[r].kind, req[r].key>>].stale = FALSE]
    /\ UNCHANGED <<chan, part, cow, csess, msg, task, pin, draft, req, lock, mix>>

InitReceipts ==
    /\ req = [r \in Request |-> NewReq]
    /\ lock = [w \in Coworker |-> NoRequest]
    /\ mix \in Mixes
=============================================================================
