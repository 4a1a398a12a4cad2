--------------------------- MODULE ChannelStream ----------------------------
(* One browser following a channel: the server-sent event handler of the    *)
(* API, the connection between them, and the hook that feeds the timeline.  *)
(* The handler replays the log page by page, catches up once more after it  *)
(* subscribed to the hub, then goes live: announcements and database polls  *)
(* queue up on one chain of writes.  Every await is a step boundary, so     *)
(* rows are committed and announced between any two steps of the handler.   *)
EXTENDS ChannelLog

CONSTANTS
    ReplayPage,  \* rows per page of the replay (DEFAULT_EVENT_PAGE_SIZE)
    PollPage,    \* rows per page of a poll
    MaxFaults    \* bound on disconnects, restarts and reopenings

ASSUME PageSizes == ReplayPage \in Nat \ {0} /\ PollPage \in Nat \ {0}

VARIABLES
    srv,         \* the handler's local state
    wire,        \* sequences written to the response and not yet received
    browser,     \* the hook's refs and the messages merged from the list
    view,        \* sequences the reducer has applied, in order
    faults       \* faults so far

streamVars == <<srv, wire, browser, view, faults>>

Phase == {"closed", "replay", "catchup", "flush", "attach", "live"}
Poll == -1
NoPage == [events |-> {}, next |-> -1, more |-> FALSE, read |-> FALSE]

(* lastSent: the watermark; pending: buffered envelopes above it; chain: the *)
(* queued writes, a poll or a sequence; page: the page last read.  The local *)
(* cursor of each paging loop equals the watermark whenever a page is read:  *)
(* every page is drained through its last row before the next one.           *)
NewStream(after) ==
    [phase |-> "replay", after |-> after, lastSent |-> after,
     pending |-> {}, chain |-> <<>>, page |-> NoPage]
Closed == [NewStream(-1) EXCEPT !.phase = "closed"]

Polling == srv.phase = "live" /\ srv.chain # <<>> /\ Head(srv.chain) = Poll
Reading == srv.phase \in {"replay", "catchup"} \/ Polling

(* Envelopes are written in the order of their sequences.                    *)
Ascending(S) == {q \in [1 .. Cardinality(S) -> S] :
                     /\ ToSet(q) = S
                     /\ \A i, j \in DOMAIN q : i < j => q[i] < q[j]}
Emit(S) == \E q \in Ascending(S) : wire' = wire \o q

(* Mutant: whatever is buffered goes out at once.                            *)
WholeBuffer(last, pending) == {s \in pending : s > last}

(* The run of buffered envelopes that directly follows a watermark.          *)
Contiguous(last, pending) ==
    {s \in pending : \A r \in last + 1 .. s : r \in pending}

(* drainThroughSequence: everything buffered up to the observed sequence     *)
(* goes out, and sequences without an envelope are passed over.              *)
drainThroughSequence(last, through, pending) ==
    [lastSent |-> IF through > last THEN through ELSE last,
     toEmit   |-> {s \in pending : s > last /\ s <= through}]

-----------------------------------------------------------------------------
(* pollFromDb and the replay loop await one page of listEvents.              *)
ReadPage ==
    /\ Reading /\ ~srv.page.read
    /\ LET limit == IF srv.phase = "replay" THEN ReplayPage ELSE PollPage
           page  == listEvents(srv.lastSent, limit)
       IN  srv' = [srv EXCEPT !.page = [events |-> page.events, next |-> page.next,
                                        more |-> page.more, read |-> TRUE]]
    /\ UNCHANGED <<wire, browser, view, faults, logVars>>

(* Where the handler goes once the last page of a loop has been applied.     *)
AfterLastPage ==
    CASE srv.phase = "replay"  -> [phase |-> "catchup", chain |-> srv.chain]
      [] srv.phase = "catchup" -> [phase |-> "flush", chain |-> srv.chain]
      [] srv.phase = "live"    -> [phase |-> "live", chain |-> Tail(srv.chain)]

applyEventPage ==
    /\ srv.page.read
    /\ LET page    == srv.page
           pending == srv.pending \cup {s \in page.events : s > srv.lastSent}
           drained == drainThroughSequence(srv.lastSent, page.next, pending)
       IN  /\ Emit(drained.toEmit)
           /\ srv' = [srv EXCEPT !.lastSent = drained.lastSent,
                                 !.pending  = pending \ drained.toEmit,
                                 !.page     = NoPage,
                                 !.phase    = IF page.more THEN @ ELSE AfterLastPage.phase,
                                 !.chain    = IF page.more THEN @ ELSE AfterLastPage.chain]
    /\ UNCHANGED <<browser, view, faults, logVars>>

(* bufferEnvelope: keep the envelope and emit the run it completes.          *)
Buffered(s) ==
    LET pending == srv.pending \cup s
        run     == Contiguous(srv.lastSent, pending)
    IN  [emit |-> run, pending |-> pending \ run,
         lastSent |-> srv.lastSent + Cardinality(run)]

bufferEnvelope ==
    /\ srv.phase = "live" /\ srv.chain # <<>> /\ Head(srv.chain) # Poll
    /\ LET s == Head(srv.chain)
           b == Buffered(IF s > srv.lastSent THEN {s} ELSE {})
       IN  IF s <= srv.lastSent
           THEN /\ srv' = [srv EXCEPT !.chain = Tail(@)]
                /\ UNCHANGED wire
           ELSE /\ Emit(b.emit)
                /\ srv' = [srv EXCEPT !.chain = Tail(@), !.lastSent = b.lastSent,
                                      !.pending = b.pending]
    /\ UNCHANGED <<browser, view, faults, logVars>>

(* What the hub delivered during the replay goes out if it continues it.     *)
FlushBuffered ==
    /\ srv.phase = "flush"
    /\ LET b == Buffered({})
       IN  /\ Emit(b.emit)
           /\ srv' = [srv EXCEPT !.phase = "attach", !.lastSent = b.lastSent,
                                 !.pending = b.pending]
    /\ UNCHANGED <<browser, view, faults, logVars>>

(* liveEnabled is set only after the write chain has been awaited again.     *)
GoLive ==
    /\ srv.phase = "attach"
    /\ srv' = [srv EXCEPT !.phase = "live"]
    /\ UNCHANGED <<wire, browser, view, faults, logVars>>

(* The loop polls the database every DB_POLL_MS, one poll at a time.         *)
PollTick ==
    /\ srv.phase = "live" /\ ~\E i \in DOMAIN srv.chain : srv.chain[i] = Poll
    /\ srv' = [srv EXCEPT !.chain = Append(@, Poll)]
    /\ UNCHANGED <<wire, browser, view, faults, logVars>>

(* ChannelEventHub.publish, and the listener the handler subscribed.         *)
publish(s) ==
    /\ s \in unpublished
    /\ unpublished' = unpublished \ {s}
    /\ srv' = IF srv.phase = "closed" \/ s <= srv.after THEN srv
              ELSE IF srv.phase = "live" THEN [srv EXCEPT !.chain = Append(@, s)]
              ELSE [srv EXCEPT !.pending = @ \cup ({s} \ 0 .. srv.lastSent)]
    /\ UNCHANGED <<log, wire, browser, view, faults>>

-----------------------------------------------------------------------------
(* refreshMessages: invalidateQueries starts a fetch of the message list, in *)
(* place of one under way; only the first fetch of all, with nothing loaded  *)
(* yet, is shared instead, even if it has been answered already (unheard:    *)
(* the messages that such an answer does not have).                          *)
refreshMessages(b) ==
    IF b.loaded \/ b.fetch = "idle" THEN [b EXCEPT !.fetch = "asked", !.answer = {}] ELSE b

(* connect(afterSequence): the first time from the start, then from the last *)
(* sequence seen; a connection that resumes also refetches the messages.     *)
connect ==
    /\ browser.connection = "waiting"
    /\ LET opened == [browser EXCEPT !.connection = "open"]
       IN  browser' = IF browser.lastSeen >= 0 THEN refreshMessages(opened) ELSE opened
    /\ srv' = NewStream(browser.lastSeen)
    /\ wire' = <<>>
    /\ UNCHANGED <<view, faults, logVars>>

(* Mutant: a new message does not make the list stale.                       *)
onChannelEventNoRefetch ==
    /\ browser.connection = "open" /\ wire # <<>>
    /\ LET s == Head(wire)
       IN  /\ browser' = [browser EXCEPT !.lastSeen = IF s > @ THEN s ELSE @]
           /\ view' = IF s \in ToSet(view) THEN view ELSE Append(view, s)
    /\ wire' = Tail(wire)
    /\ UNCHANGED <<srv, faults, logVars>>

(* The channel_event listener: note the sequence, dispatch to the reducer,   *)
(* which ignores a sequence it has seen, and refetch after a new message.    *)
onChannelEvent ==
    /\ browser.connection = "open" /\ wire # <<>>
    /\ LET s == Head(wire)
           seen == [browser EXCEPT !.lastSeen = IF s > @ THEN s ELSE @]
           shared == ~browser.loaded /\ browser.fetch = "answered"
       IN  /\ browser' =
                  IF Row(s).kind = "message.created"
                  THEN [refreshMessages(seen) EXCEPT
                           !.unheard = IF shared THEN @ \cup ({s} \ browser.answer) ELSE @]
                  ELSE seen
           /\ view' = IF s \in ToSet(view) THEN view ELSE Append(view, s)
    /\ wire' = Tail(wire)
    /\ UNCHANGED <<srv, faults, logVars>>

(* The API reads the messages for a fetch, and some time later the answer is *)
(* merged into the timeline; a fetch replaced in between is dropped.         *)
listChannelMessages ==
    /\ browser.fetch = "asked"
    /\ browser' = [browser EXCEPT !.fetch = "answered",
                                  !.answer = {s \in Seqs : Row(s).kind = "message.created"}]
    /\ UNCHANGED <<srv, wire, view, faults, logVars>>

mergeMessages ==
    /\ browser.fetch = "answered"
    /\ browser' = [browser EXCEPT !.fetch = "idle", !.loaded = TRUE, !.answer = {},
                                  !.messages = @ \cup browser.answer,
                                  !.unheard = @ \ browser.answer]
    /\ UNCHANGED <<srv, wire, view, faults, logVars>>

(* The connection breaks, or the handler ends it after an error: what was    *)
(* written and not received is lost.                                         *)
Disconnect ==
    /\ browser.connection = "open" /\ faults < MaxFaults
    /\ faults' = faults + 1
    /\ browser' = [browser EXCEPT !.connection = "waiting"]
    /\ srv' = Closed /\ wire' = <<>>
    /\ UNCHANGED <<view, logVars>>

(* The API process restarts: announcements that were due are never made, and *)
(* a fetch whose answer is lost is retried.                                  *)
ApiRestart ==
    /\ faults < MaxFaults
    /\ faults' = faults + 1
    /\ browser' = [browser EXCEPT !.connection = "waiting", !.answer = {},
                                  !.fetch = IF @ = "answered" THEN "asked" ELSE @]
    /\ srv' = Closed /\ wire' = <<>> /\ unpublished' = {}
    /\ UNCHANGED <<log, view>>

(* The reader opens another channel and comes back: the hook resets.  The    *)
(* message list may still be in the query cache; it is fetched again then.   *)
InitBrowser ==
    [connection |-> "waiting", lastSeen |-> -1, loaded |-> FALSE, fetch |-> "asked",
     answer |-> {}, messages |-> {}, unheard |-> {}]
Reopen ==
    /\ faults < MaxFaults
    /\ faults' = faults + 1
    /\ \/ browser' = InitBrowser
       \/ browser.loaded /\ browser' = [InitBrowser EXCEPT !.loaded = TRUE,
                                                       !.messages = browser.messages]
    /\ view' = <<>>
    /\ srv' = Closed /\ wire' = <<>>
    /\ UNCHANGED logVars

(* Whether a reader follows the channel at all.                              *)
InitStream(followed) ==
    /\ srv = Closed /\ wire = <<>> /\ view = <<>> /\ faults = 0
    /\ browser = IF followed THEN InitBrowser
                 ELSE [InitBrowser EXCEPT !.connection = "none", !.fetch = "idle"]

StreamStep ==
    \/ ReadPage \/ applyEventPage \/ bufferEnvelope \/ FlushBuffered \/ GoLive
    \/ PollTick \/ connect \/ onChannelEvent
    \/ listChannelMessages \/ mergeMessages
    \/ Disconnect \/ ApiRestart \/ Reopen \/ \E s \in unpublished : publish(s)

(* Fairness: the event loop runs the handler's next step, the poll timer     *)
(* fires, the reconnect timer fires, the browser reads what it receives and  *)
(* a fetch is answered and merged.  Announcements and faults are not fair.   *)
StreamFairness ==
    /\ WF_streamVars(ReadPage) /\ WF_streamVars(applyEventPage)
    /\ WF_streamVars(bufferEnvelope) /\ WF_streamVars(FlushBuffered)
    /\ WF_streamVars(GoLive) /\ WF_streamVars(PollTick)
    /\ WF_streamVars(connect) /\ WF_streamVars(onChannelEvent)
    /\ WF_streamVars(listChannelMessages) /\ WF_streamVars(mergeMessages)
=============================================================================
