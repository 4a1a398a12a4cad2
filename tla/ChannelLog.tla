----------------------------- MODULE ChannelLog -----------------------------
(* The durable, append-only event log of one channel and the in-process hub *)
(* that announces its rows.  Every writer locks the channel row, takes its  *)
(* next_sequence and inserts the event in the same transaction, so rows are *)
(* committed in the order of their sequences.  An announcement is made by   *)
(* the handler after its commit: two handlers may announce in the other     *)
(* order, a handler that dies announces nothing, and the rows the worker    *)
(* and the SQL projections write are never announced at all.                *)
EXTENDS Integers, Sequences, SequencesExt, FiniteSets, FiniteSetsExt

CONSTANTS
    Step,        \* run steps; each is run by one coworker in its own thread
    MaxEvents    \* bound on the length of the log

VARIABLES
    log,         \* rows in commit order; sequence s is log[s + 1]
    unpublished  \* sequences whose writer has still to call publish

logVars == <<log, unpublished>>

(* What the readers tell apart in a row.  "legacy" stands for a row whose    *)
(* payload no longer parses as an envelope, "inert" for a snapshot of an     *)
(* unsupported capability.  step is the lane that emitted the event, owner   *)
(* the lane the document in it belongs to; a document event carries a        *)
(* revision and the value at that revision, a text event its piece of text.  *)
RunEventKind == {"RUN_STARTED", "RUN_FINISHED", "RUN_INTERRUPT", "RUN_ERROR"}
TextEventKind == {"TEXT_MESSAGE_START", "TEXT_MESSAGE_CONTENT", "TEXT_MESSAGE_END"}
DocEventKind == {"STATE_SNAPSHOT", "STATE_DELTA", "ACTIVITY_SNAPSHOT", "ACTIVITY_DELTA"}
EventKind == RunEventKind \cup TextEventKind \cup DocEventKind
                 \cup {"message.created", "inert", "legacy"}
Event == [kind : EventKind, step : Step, owner : Step, rev : Nat, val : Nat]

Plain(kind, step) ==
    [kind |-> kind, step |-> step, owner |-> step, rev |-> 0, val |-> 0]

Seqs == 0 .. Len(log) - 1
Row(s) == log[s + 1]

(* envelopeFromStoredEvent answers null for a row it cannot rebuild, and     *)
(* every reader skips such a row.                                            *)
envelopeFromStoredEvent(s) == Row(s).kind # "legacy"
Readable == {s \in Seqs : envelopeFromStoredEvent(s)}

(* insertDurableEventSql under the channel row's lock.                       *)
InsertDurableEvent(e) ==
    /\ Len(log) < MaxEvents
    /\ log' = Append(log, e)

(* A row written by an API handler, which publishes once it has committed.   *)
appendChannelEvent(e) ==
    /\ InsertDurableEvent(e)
    /\ unpublished' = unpublished \cup {Len(log)}

(* A row written by the worker or by a SQL projection.                       *)
appendComponentBrokerChannelProjectionInTx(e) ==
    /\ InsertDurableEvent(e)
    /\ UNCHANGED unpublished

(* One page: the rows after a sequence, oldest first, and whether more exist.*)
listEventsAfter(after, limit) ==
    LET rows == {s \in Seqs : s > after}
        page == {s \in rows : Cardinality({r \in rows : r <= s}) <= limit}
    IN  [rows |-> page, more |-> page # rows]

(* The page as the service hands it on: readable envelopes and the sequence  *)
(* the reader has now observed through, unreadable rows included.            *)
listEvents(after, limit) ==
    LET page == listEventsAfter(after, limit)
    IN  [events |-> page.rows \cap Readable,
         next   |-> IF page.rows = {} THEN after ELSE Max(page.rows),
         more   |-> page.more]

InitLog == log = <<>> /\ unpublished = {}
=============================================================================
