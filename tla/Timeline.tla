------------------------------ MODULE Timeline ------------------------------
(* A channel's event log with those who write it and those who read it: the *)
(* AG-UI mirror of running turns, the producers of documents, the readers'  *)
(* timelines and the contexts built for coworkers.  They meet only in the   *)
(* log, so a behaviour exercises one of them, chosen by mix.                *)
EXTENDS ChannelStream, TimelineReducer, AgUiMirror, ContextCursor

CONSTANTS
    Room,        \* per mix: bound on the length of the log
    MaxRevision  \* bound on the revisions of a document

VARIABLES
    mix,         \* what this behaviour is about
    followed,    \* whether a browser follows the channel
    patches      \* per step: the patches made to its document, oldest first

docVars == <<mix, followed, patches>>
vars == <<log, unpublished, srv, wire, browser, view, faults, raw, durable, stream,
          failures, cursor, session, turn, delivered, mix, followed, patches>>

-----------------------------------------------------------------------------
TheStep == CHOOSE s \in Step : TRUE

(* The document of a step after its first r patches.                         *)
Patched(ps, r) ==
    LET value[n \in 0 .. r] == IF n = 0 THEN 0 ELSE value[n - 1] + ps[n]
    IN  value[r]
ValueAt(s, r) == Patched(patches[s], r)
Revision(s) == Len(patches[s])

(* A producer changes its document (external), and events about it reach the *)
(* log: whole or as the patch between two revisions, from its own lane or    *)
(* relayed by another, possibly late, and possibly as a row that no longer   *)
(* parses.                                                                   *)
PatchDocument(s) ==
    /\ Revision(s) < MaxRevision
    /\ \E p \in {1, 2} : patches' = [patches EXCEPT ![s] = Append(@, p)]
    /\ UNCHANGED logVars

DocEvents(kinds, lane, s) ==
    {[kind |-> k, step |-> lane, owner |-> s, rev |-> r, val |-> ValueAt(s, r)] :
         k \in kinds, r \in 0 .. Revision(s)}
PatchEvents(kinds, lane, s) ==
    {[kind |-> k, step |-> lane, owner |-> s, rev |-> r, val |-> patches[s][r + 1]] :
         k \in kinds, r \in 0 .. Revision(s) - 1}

RecordDocument(lane, s) ==
    /\ \E e \in (IF mix = "threads" THEN DocEvents({"STATE_SNAPSHOT"}, lane, s)
                                            \cup PatchEvents({"STATE_DELTA"}, lane, s)
                ELSE DocEvents({"ACTIVITY_SNAPSHOT"}, lane, s)
                       \cup PatchEvents({"ACTIVITY_DELTA"}, lane, s))
               \cup {Plain("legacy", s), Plain("inert", s)} :
           appendComponentBrokerChannelProjectionInTx(e)
    /\ UNCHANGED patches

(* A row for a browser to follow: a message, or any other row; written by a  *)
(* handler that announces it, or by the worker.  A row that no longer parses *)
(* was never announced by this process.                                      *)
RecordRow ==
    LET row == Plain(IF mix = "messages" THEN "message.created" ELSE "RUN_STARTED", TheStep)
    IN  \/ appendChannelEvent(row)
        \/ appendComponentBrokerChannelProjectionInTx(row)
        \/ mix = "stream" /\ appendComponentBrokerChannelProjectionInTx(Plain("legacy", TheStep))

-----------------------------------------------------------------------------
Init ==
    /\ InitLog /\ InitMirror /\ InitCursor
    /\ mix \in DOMAIN Room
    /\ followed = (mix \in {"stream", "messages"})
    /\ InitStream(followed)
    /\ patches = [s \in Step |-> <<>>]

Following ==
    /\ mix \in {"stream", "messages"}
    /\ StreamStep \/ (RecordRow /\ UNCHANGED streamVars)
    /\ UNCHANGED <<mirrorVars, cursorVars, docVars>>

Producing ==
    /\ mix \in {"threads", "activities"}
    /\ \/ PatchDocument(TheStep)
       \/ \E lane \in Step : RecordDocument(lane, TheStep)
    /\ UNCHANGED <<streamVars, mirrorVars, cursorVars, mix, followed>>

Mirroring ==
    /\ mix = "mirror"
    /\ MirrorStep
    /\ UNCHANGED <<streamVars, cursorVars, docVars>>

Informing ==
    /\ mix = "context"
    /\ \/ CursorStep
       \/ appendChannelEvent(Plain("message.created", TheStep)) /\ UNCHANGED cursorVars
    /\ UNCHANGED <<streamVars, mirrorVars, docVars>>

Next ==
    /\ Following \/ Producing \/ Mirroring \/ Informing
    /\ Len(log') <= Room[mix]

Spec == Init /\ [][Next]_vars /\ StreamFairness

-----------------------------------------------------------------------------
TypeOK ==
    /\ log \in Seq(Event) /\ Len(log) <= MaxEvents
    /\ unpublished \subseteq Seqs
    /\ srv.phase \in Phase /\ srv.lastSent \in -1 .. Len(log) - 1
    /\ srv.pending \subseteq Readable
    /\ ToSet(wire) \subseteq Readable /\ ToSet(view) \subseteq Readable
    /\ browser.lastSeen \in -1 .. Len(log) - 1 /\ browser.messages \subseteq Seqs
    /\ faults \in 0 .. MaxFaults /\ failures \in 0 .. MaxFailures
    /\ \A s \in Step : durable[s].ingested \subseteq DOMAIN raw[s]
    /\ cursor \in 0 .. MaxEvents /\ delivered \subseteq Seqs
    /\ patches \in [Step -> Seq({1, 2})]

(* The stream implements the abstract timeline: whatever the interleaving of *)
(* replay pages, polls, announcements made out of order or never, and broken *)
(* connections, the browser shows the log's readable rows in order, none     *)
(* twice and none left out, and every row that stays is eventually shown.    *)
Shows(e) == e.kind # "legacy"
ShownLog == INSTANCE TimelineView WITH Shows <- Shows, log <- log, view <- view,
                                      followed <- followed
ImplementsTimelineView == ShownLog!Spec

(* A message in the log is eventually on the screen for good, although its   *)
(* event only triggers a fetch and fetches overtake one another: its event   *)
(* replaces a fetch that may have started too early.  Excepted are messages  *)
(* whose event comes while the answer to the very first fetch is on its way. *)
MessagesShown ==
    [](followed => <>(\A s \in Seqs : Row(s).kind = "message.created" =>
                         s \in browser.messages \cup browser.unheard))

(* An outcome on the screen is never ahead of the database: a run shown as   *)
(* complete is stored as completed, and one that asks for input has its      *)
(* required actions captured, whichever caller's stream mirrored it.         *)
ShownOutcomeIsDurable ==
    LET shown == channelTimelineReducer(log)
    IN  \A s \in Step : shown.runs[s].seq >= 0 =>
            /\ shown.runs[s].status = "complete" => durable[s].state = "completed"
            /\ shown.runs[s].status = "needs_input" => durable[s].captured

(* The text on the screen is what the provider wrote, from its beginning and *)
(* without a hole, as long as one caller streams the turn: whatever fails in *)
(* between only cuts it short.                                               *)
Streaming(s) == {c \in Tab : stream[c].step = s /\ stream[c].at # "idle"}
TextUpTo(events, k) ==
    LET text[n \in 0 .. k] == IF n = 0 THEN <<>>
                              ELSE IF events[n] = "text.delta" THEN Append(text[n - 1], n)
                              ELSE text[n - 1]
    IN  text[k]
ProviderText(s) == TextUpTo(raw[s], Len(raw[s]))
ShownTextIsTheProviders ==
    mix = "mirror" =>
        LET shown == channelTimelineReducer(log)
        IN  \A s \in Step : Cardinality(Streaming(s)) <= 1 =>
                IsPrefix(shown.text[s], ProviderText(s))

(* A document on the screen is one its producer had: whatever rows are lost, *)
(* late, repeated or relayed by another lane, the value shown at a revision  *)
(* is the producer's value at that revision.                                 *)
NeverGuesses ==
    mix \in {"threads", "activities"} =>
        LET shown == channelTimelineReducer(log)
        IN  \A s \in Step : \A doc \in {shown.ui[s], shown.activity[s]} :
                doc.rev >= 0 => doc.rev <= Revision(s) /\ doc.val = ValueAt(s, doc.rev)

(* No row is skipped for a coworker: everything up to the session's delivery *)
(* cursor was in the context of a turn that exists, however the turns of the *)
(* session overlap and whichever of them were never created.                 *)
NothingSkipped == \A s \in 1 .. cursor : s \in delivered
=============================================================================
