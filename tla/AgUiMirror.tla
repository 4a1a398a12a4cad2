----------------------------- MODULE AgUiMirror -----------------------------
(* The AG-UI stream of a prepared run: the API polls the provider's events  *)
(* of the turn, settles each one durably (pause capture, artifacts, event   *)
(* ingestion), maps it to AG-UI events, mirrors those to the channel log    *)
(* and writes them to the caller.  Several callers may stream one turn at   *)
(* once, each with an adapter of its own; a read of the provider, a capture,*)
(* an ingestion or a mirror write may fail in any of them.                  *)
EXTENDS ChannelLog

CONSTANTS
    Tab,         \* callers of the streaming endpoint
    MaxRaw,      \* bound on the provider events of a turn
    MaxFailures  \* bound on failed calls

VARIABLES
    raw,         \* per step: the provider's events of its turn, so far
    durable,     \* per step: what the database holds of the turn
    stream,      \* per caller: the locals of streamPreparedRun and its adapter
    failures     \* failed calls so far

mirrorVars == <<raw, durable, stream, failures>>

RawKind == {"text.start", "text.delta", "text.end", "reasoning", "tool",
            "turn.done", "turn.done.required", "turn.error"}
RawTerminal == {"turn.done", "turn.done.required", "turn.error"}
NewTurn == [ingested |-> {}, state |-> "streaming", captured |-> FALSE, artifacts |-> "none"]
Idle(s) == [at |-> "idle", step |-> s, seen |-> {}, event |-> 0, open |-> FALSE, finished |-> FALSE,
            terminal |-> FALSE, healthy |-> TRUE, out |-> <<>>, failing |-> FALSE]

(* The step a caller's prepared run belongs to.                              *)
StepOf(c) == stream[c].step

(* evaluateTurnDoneOutcome: required actions make it a pause.                *)
evaluateTurnDoneOutcome(kind) ==
    CASE kind = "turn.done"          -> "completed"
      [] kind = "turn.done.required" -> "required_actions"
      [] kind = "turn.error"         -> "failed"
      [] OTHER                       -> "streaming"

(* The provider goes on with a turn until it ends it (external).             *)
ProviderEmits(s) ==
    /\ Len(raw[s]) < MaxRaw
    /\ \A i \in DOMAIN raw[s] : raw[s][i] \notin RawTerminal
    /\ \E k \in RawKind : raw' = [raw EXCEPT ![s] = Append(@, k)]
    /\ UNCHANGED <<durable, stream, failures, logVars>>

(* prepareRun has bound the turn; the first event is RUN_STARTED.            *)
prepareRun(c) ==
    /\ stream[c].at = "idle"
    /\ stream' = [stream EXCEPT ![c].at = "writing",
                                ![c].out = <<Plain("RUN_STARTED", StepOf(c))>>]
    /\ UNCHANGED <<raw, durable, failures, logVars>>

-----------------------------------------------------------------------------
(* Mutant: the event last handled is taken again.                            *)
UnseenFromLast(c) == {i \in DOMAIN raw[StepOf(c)] : i >= stream[c].event}

(* pollTrueForgeTurnEvents takes the first event it has not seen; reasoning  *)
(* is passed over, and everything after the adapter finished is ignored.     *)
Unseen(c) == {i \in DOMAIN raw[StepOf(c)] : i \notin stream[c].seen}
shouldDiscardTrueForgeEventType(kind) == kind = "reasoning"

pollTrueForgeTurnEvents(c) ==
    /\ stream[c].at = "polling" /\ Unseen(c) # {}
    /\ LET i == Min(Unseen(c))
           k == raw[StepOf(c)][i]
       IN  stream' = [stream EXCEPT
              ![c].seen  = @ \cup {i},
              ![c].event = i,
              ![c].at    = IF shouldDiscardTrueForgeEventType(k) THEN "polling"
                           ELSE IF k \in {"turn.done", "turn.done.required"} THEN "capture"
                           ELSE "ingest"]
    /\ UNCHANGED <<raw, durable, failures, logVars>>

Kind(c) == raw[StepOf(c)][stream[c].event]

(* Mutant: the pause is announced without its required actions.              *)
captureNothing(c) ==
    /\ stream[c].at = "capture"
    /\ stream' = [stream EXCEPT ![c].at = "artifacts"]
    /\ UNCHANGED <<raw, durable, failures, logVars>>

(* Required actions are captured before the event that announces them is     *)
(* ingested; then the artifacts, whose failure is only noted.                *)
captureTrueForgeRequiredActions(c) ==
    /\ stream[c].at = "capture"
    /\ durable' = [durable EXCEPT ![StepOf(c)].captured =
                       @ \/ Kind(c) = "turn.done.required"]
    /\ stream' = [stream EXCEPT ![c].at = "artifacts"]
    /\ UNCHANGED <<raw, failures, logVars>>

persistAgUiSandboxArtifacts(c) ==
    /\ stream[c].at = "artifacts"
    /\ durable' = [durable EXCEPT ![StepOf(c)].artifacts = "published"]
    /\ stream' = [stream EXCEPT ![c].at = "ingest"]
    /\ UNCHANGED <<raw, failures, logVars>>

recordAgUiArtifactProjectionFailure(c) ==
    /\ stream[c].at = "artifacts" /\ failures < MaxFailures
    /\ failures' = failures + 1
    /\ durable' = [durable EXCEPT ![StepOf(c)].artifacts =
                       IF @ = "published" THEN @ ELSE "failed"]
    /\ stream' = [stream EXCEPT ![c].at = "ingest"]
    /\ UNCHANGED <<raw, logVars>>

(* The event adapter: text opens and closes a message, a provider error or   *)
(* the end of the turn closes it and finishes the run.                       *)
EndText(c, s) == IF stream[c].open THEN <<Plain("TEXT_MESSAGE_END", s)>> ELSE <<>>
Content(s, i) == [Plain("TEXT_MESSAGE_CONTENT", s) EXCEPT !.val = i]
StartText(c, s) == IF stream[c].open THEN <<>> ELSE <<Plain("TEXT_MESSAGE_START", s)>>
mapTrueForgeEvent(c, s, i) ==
    LET k == raw[s][i]
    IN  IF stream[c].finished THEN <<>>
        ELSE CASE k = "text.start"         -> StartText(c, s)
               [] k = "text.delta"         -> Append(StartText(c, s), Content(s, i))
               [] k = "text.end"           -> EndText(c, s)
               [] k = "tool"               -> <<Plain("inert", s)>>
               [] k = "turn.done"          -> Append(EndText(c, s), Plain("RUN_FINISHED", s))
               [] k = "turn.done.required" -> Append(EndText(c, s), Plain("RUN_INTERRUPT", s))
               [] k = "turn.error"         -> Append(EndText(c, s), Plain("RUN_ERROR", s))

(* Ingestion is idempotent by provider event; the last outcome of a turn     *)
(* that has already ended stays.                                             *)
IngestDurably(s, i) ==
    durable' = [durable EXCEPT
        ![s].ingested = @ \cup {i},
        ![s].state = IF @ = "streaming" THEN evaluateTurnDoneOutcome(raw[s][i]) ELSE @]

ingestAndMap(c) ==
    /\ stream[c].at = "ingest"
    /\ LET s == StepOf(c)
           i == stream[c].event
           k == raw[s][i]
       IN  /\ IngestDurably(s, i)
           /\ stream' = [stream EXCEPT
                  ![c].out = mapTrueForgeEvent(c, s, i),
                  ![c].open = CASE k \in {"text.start", "text.delta"} -> TRUE
                                [] k = "text.end" \/ k \in RawTerminal -> FALSE
                                [] OTHER -> @,
                  ![c].finished = @ \/ k \in RawTerminal,
                  ![c].at = "writing"]
    /\ UNCHANGED <<raw, failures, logVars>>

-----------------------------------------------------------------------------
Terminal(e) == e.kind \in {"RUN_FINISHED", "RUN_INTERRUPT", "RUN_ERROR"}

(* After the event is written: the caller's loop ends with the first         *)
(* terminal event, and goes back to polling when nothing is left to write.   *)
AfterWrite(c) ==
    LET e == Head(stream[c].out)
    IN  [stream[c] EXCEPT
            !.out = Tail(@),
            !.terminal = @ \/ Terminal(e),
            !.at = IF Terminal(e) THEN "ended"
                   ELSE IF Tail(stream[c].out) = <<>> THEN "polling" ELSE "writing"]

(* writeEvent: mirror to the channel log while the mirror is healthy.        *)
writeEvent(c) ==
    /\ stream[c].at = "writing" /\ stream[c].out # <<>>
    /\ IF stream[c].healthy THEN appendChannelEvent(Head(stream[c].out))
       ELSE UNCHANGED logVars
    /\ stream' = [stream EXCEPT ![c] = AfterWrite(c)]
    /\ UNCHANGED <<raw, durable, failures>>

NothingToWrite(c) ==
    /\ stream[c].at = "writing" /\ stream[c].out = <<>>
    /\ stream' = [stream EXCEPT ![c].at = "polling"]
    /\ UNCHANGED <<raw, durable, failures, logVars>>

(* The append answers not ok: no more mirroring, the stream goes on.         *)
MirrorRefuses(c) ==
    /\ stream[c].at = "writing" /\ stream[c].out # <<>> /\ stream[c].healthy
    /\ failures < MaxFailures /\ failures' = failures + 1
    /\ stream' = [stream EXCEPT ![c] = [AfterWrite(c) EXCEPT !.healthy = FALSE]]
    /\ UNCHANGED <<raw, durable, logVars>>

(* A call throws: the provider read, the capture, the ingestion or the       *)
(* append.  The first time the handler closes the run with a RUN_ERROR       *)
(* unless it has already seen a terminal event; an exception thrown while it *)
(* does so leaves the handler.                                               *)
writeTerminalError(c) ==
    LET s == StepOf(c)
    IN  IF stream[c].failing THEN [stream[c] EXCEPT !.at = "aborted", !.out = <<>>]
        ELSE IF stream[c].terminal \/ stream[c].finished
             THEN [stream[c] EXCEPT !.at = "ended", !.out = <<>>, !.terminal = TRUE]
             ELSE [stream[c] EXCEPT !.at = "writing", !.failing = TRUE,
                                    !.terminal = TRUE, !.finished = TRUE, !.open = FALSE,
                                    !.out = Append(EndText(c, s), Plain("RUN_ERROR", s))]

(* The handler notes a terminal event before it writes it.                   *)
CallThrows(c) ==
    /\ stream[c].at \in {"polling", "capture", "ingest", "writing"}
    /\ stream[c].at = "writing" => stream[c].healthy /\ stream[c].out # <<>>
    /\ failures < MaxFailures /\ failures' = failures + 1
    /\ stream' = [stream EXCEPT ![c] = writeTerminalError(c)]
    /\ UNCHANGED <<raw, durable, logVars>>

InitMirror ==
    /\ raw = [s \in Step |-> <<>>]
    /\ durable = [s \in Step |-> NewTurn]
    /\ stream = [c \in Tab |-> Idle(CHOOSE s \in Step : TRUE)]
    /\ failures = 0

MirrorStep ==
    \/ \E c \in Tab : ProviderEmits(StepOf(c))
    \/ \E c \in Tab :
          \/ prepareRun(c)
          \/ pollTrueForgeTurnEvents(c) \/ captureTrueForgeRequiredActions(c)
          \/ persistAgUiSandboxArtifacts(c) \/ recordAgUiArtifactProjectionFailure(c)
          \/ ingestAndMap(c) \/ writeEvent(c) \/ NothingToWrite(c)
          \/ MirrorRefuses(c) \/ CallThrows(c)
=============================================================================
