-------------------------- MODULE TimelineReducer ---------------------------
(* The pure reducers of the browser: what a timeline shows after a run of   *)
(* envelopes.  Run entries follow the wire events of each step, text grows  *)
(* piece by piece, and documents (a thread's UI state, an activity) move by *)
(* snapshots and by deltas that name the revision they start from; when a   *)
(* delta does not fit, the reducer asks for a snapshot instead of guessing. *)
(* A document is a number, a patch adds to it.                              *)
EXTENDS ChannelLog

NoRun == [status |-> "none", seq |-> -1]
NoDoc == [rev |-> -1, val |-> 0]
Doc == [rev : Nat \cup {-1}, val : Nat]

initialChannelTimelineState ==
    [runs     |-> [s \in Step |-> NoRun],
     text     |-> [s \in Step |-> <<>>],
     ui       |-> [s \in Step |-> NoDoc],   \* threads' UI state
     activity |-> [s \in Step |-> NoDoc],
     needUi   |-> {}, needActivity |-> {},
     inert    |-> {}, unknown |-> {}]       \* entries with nothing to show

isTerminalRunStatus(status) == status \in {"complete", "partial", "failed"}

(* A thread document's value 1 is a busy phase, any other a settled one.     *)
threadPhaseKeepsLogicalTurnBusy(tl, step) == tl.ui[step].val = 1 /\ tl.ui[step].rev >= 0

resolveWireRunOutcome(tl, e) ==
    CASE e.kind = "RUN_ERROR"     -> "failed"
      [] e.kind = "RUN_INTERRUPT" -> "needs_input"
      [] e.kind = "RUN_FINISHED"  ->
             IF threadPhaseKeepsLogicalTurnBusy(tl, e.step) THEN "running" ELSE "complete"

(* A start does not reopen a settled run; an outcome replaces what was shown.*)
reduceRun(tl, e, seq) ==
    LET prior == tl.runs[e.step]
        stale == prior # NoRun /\ seq <= prior.seq
        kept  == e.kind = "RUN_STARTED" /\ isTerminalRunStatus(prior.status)
    IN  IF stale \/ kept THEN tl
        ELSE [tl EXCEPT !.runs[e.step] =
                 [status |-> IF e.kind = "RUN_STARTED" THEN "running"
                             ELSE resolveWireRunOutcome(tl, e),
                  seq    |-> seq]]

reduceText(tl, e) ==
    IF e.kind = "TEXT_MESSAGE_CONTENT" THEN [tl EXCEPT !.text[e.step] = Append(@, e.val)]
    ELSE tl

(* applyThreadSnapshot: only the lane that owns the thread may replace it.   *)
applyThreadSnapshot(tl, e) ==
    IF e.step # e.owner THEN [tl EXCEPT !.needUi = @ \cup {e.owner}]
    ELSE [tl EXCEPT !.ui[e.owner] = [rev |-> e.rev, val |-> e.val],
                    !.needUi = @ \ {e.owner}]

(* Mutant: a patch is applied to whatever revision is shown.                 *)
applyThreadDeltaUnchecked(tl, e) ==
    IF e.step \in tl.needUi \/ e.step # e.owner THEN tl
    ELSE [tl EXCEPT !.ui[e.step] = [rev |-> e.rev + 1, val |-> @.val + e.val]]

(* applyThreadDelta: held back while a snapshot is needed, and applied only  *)
(* to exactly the revision it was made from.                                 *)
applyThreadDelta(tl, e) ==
    IF e.step \in tl.needUi THEN tl
    ELSE IF e.step # e.owner \/ tl.ui[e.step] = NoDoc \/ tl.ui[e.step].rev # e.rev
         THEN [tl EXCEPT !.needUi = @ \cup {e.step}]
         ELSE [tl EXCEPT !.ui[e.step] = [rev |-> e.rev + 1, val |-> @.val + e.val]]

(* The activity reducer also refuses a snapshot older than what it shows.    *)
(* Activities are kept per emitting lane: a snapshot from a lane that does   *)
(* not own the content shows as an unknown entry, and leaves the owner's.    *)
applyActivitySnapshot(tl, e) ==
    IF e.step # e.owner
    THEN [tl EXCEPT !.unknown = @ \cup {e.owner}]
    ELSE IF e.rev < tl.activity[e.owner].rev
    THEN [tl EXCEPT !.needActivity = @ \cup {e.owner}, !.unknown = @ \ {e.owner}]
    ELSE [tl EXCEPT !.activity[e.owner] = [rev |-> e.rev, val |-> e.val],
                    !.needActivity = @ \ {e.owner}, !.unknown = @ \ {e.owner}]

applyActivityDelta(tl, e) ==
    LET known == [tl EXCEPT !.unknown = @ \ {e.owner}]
    IN  IF e.step # e.owner \/ e.owner \in tl.needActivity THEN known
        ELSE IF tl.activity[e.owner].rev # e.rev
             THEN [known EXCEPT !.needActivity = @ \cup {e.owner}]
             ELSE [known EXCEPT !.activity[e.owner] = [rev |-> e.rev + 1, val |-> @.val + e.val]]

reduceEnvelope(tl, e, seq) ==
    CASE e.kind \in RunEventKind          -> reduceRun(tl, e, seq)
      [] e.kind \in TextEventKind         -> reduceText(tl, e)
      [] e.kind = "STATE_SNAPSHOT"        -> applyThreadSnapshot(tl, e)
      [] e.kind = "STATE_DELTA"           -> applyThreadDelta(tl, e)
      [] e.kind = "ACTIVITY_SNAPSHOT"     -> applyActivitySnapshot(tl, e)
      [] e.kind = "ACTIVITY_DELTA"        -> applyActivityDelta(tl, e)
      [] e.kind = "inert"                 -> [tl EXCEPT !.inert = @ \cup {seq}]
      [] OTHER                            -> tl

(* The timeline after the readable rows of a log, in order.                  *)
channelTimelineReducer(rows) ==
    LET shown[n \in 0 .. Len(rows)] ==
            IF n = 0 THEN initialChannelTimelineState
            ELSE IF rows[n].kind = "legacy" THEN shown[n - 1]
            ELSE reduceEnvelope(shown[n - 1], rows[n], n - 1)
    IN  shown[Len(rows)]
=============================================================================
