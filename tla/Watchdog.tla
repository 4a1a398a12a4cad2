------------------------------ MODULE Watchdog ------------------------------
(***************************************************************************)
(* The application's watchdog over one turn at a time: limits on time,     *)
(* tokens, tool calls and sandbox commands.  The first limit exceeded      *)
(* drops the watch and asks for a cancellation.  A stream that is opened   *)
(* again starts a new watch on the same turn, and timers find their watch  *)
(* by the turn's id alone.                                                 *)
(***************************************************************************)
EXTENDS Artifacts

CONSTANTS Turn,
          ToolId,         \* tool calls of a turn, some of them sandbox commands
          Sandboxed,
          MaxToolCalls, MaxTokens,
          MaxWatches      \* how often a stream is opened, over all turns

ASSUME WatchLimits == MaxTokens \in Nat /\ MaxToolCalls \in Nat /\ MaxWatches \in Nat

VARIABLES watch,          \* per turn: none, or the watch's number and what it has seen
          timers,         \* armed timers of the process
          cancels,        \* cancellations asked for, one entry per callback
          watches

watchVars == <<watch, timers, cancels, watches>>

WatchRow == [n : 0..MaxWatches, tokens : 0..MaxTokens + 1, calls : SUBSET ToolId]

Unwatched == [n |-> 0, tokens |-> 0, calls |-> {}]

Watched(t) == watch[t].n > 0

\* A run timer names no tool; by: the watch that armed it, which the timer does not know.
TimerRow == [t : Turn, tool : ToolId \cup {None}, by : 1..MaxWatches]

startRun(t) ==
    /\ ~Watched(t) /\ watches < MaxWatches
    /\ watches' = watches + 1
    /\ watch' = [watch EXCEPT ![t] = [Unwatched EXCEPT !.n = watches + 1]]
    /\ timers' = timers \cup {[t |-> t, tool |-> None, by |-> watches + 1]}
    /\ UNCHANGED cancels

\* Mutant: ending a run clears its own timer and leaves those of its sandbox commands.
OnlyRunTimer(t) == {x \in timers : x.t = t /\ x.tool = None}

\* Every timer of the run.
TimersOf(t) == {x \in timers : x.t = t}

finishRun(t) ==
    /\ watch' = [watch EXCEPT ![t] = Unwatched]
    /\ timers' = timers \ TimersOf(t)

\* The first limit ends the watch, and calls back once.
exceed(t, reason, fired) ==
    /\ cancels' = cancels \cup {[t |-> t, n |-> watch[t].n, reason |-> reason]}
    /\ watch' = [watch EXCEPT ![t] = Unwatched]
    /\ timers' = (timers \ fired) \ TimersOf(t)

\* A usage report: the largest count seen is compared with the limit.
ObserveTokens(t, tokens) ==
    /\ Watched(t)
    /\ IF tokens > MaxTokens THEN exceed(t, "observed_token_limit", {})
       ELSE /\ watch' = [watch EXCEPT ![t].tokens = IF tokens > @ THEN tokens ELSE @]
            /\ UNCHANGED <<timers, cancels>>
    /\ UNCHANGED watches

\* A message's tool calls count once each, however often the event is seen.
ObserveToolCall(t, c) ==
    /\ Watched(t) /\ c \notin watch[t].calls
    /\ IF Cardinality(watch[t].calls) + 1 > MaxToolCalls
       THEN exceed(t, "observed_tool_call_limit", {})
       ELSE /\ watch' = [watch EXCEPT ![t].calls = @ \cup {c}]
            /\ timers' = IF c \in Sandboxed
                         THEN timers \cup {[t |-> t, tool |-> c, by |-> watch[t].n]} ELSE timers
            /\ UNCHANGED cancels
    /\ UNCHANGED watches

ObserveToolResponse(t, c) ==
    /\ Watched(t)
    /\ \E x \in timers : x.t = t /\ x.tool = c
    /\ timers' = {x \in timers : ~(x.t = t /\ x.tool = c)}
    /\ UNCHANGED <<watch, cancels, watches>>

\* turn.done, an error, or the end of the stream.
ObserveTurnEnd(t) ==
    /\ Watched(t)
    /\ finishRun(t)
    /\ UNCHANGED <<cancels, watches>>

\* A timer fires; it acts on whatever watch the turn has now.
TimerFires(x) ==
    /\ x \in timers
    /\ IF Watched(x.t)
       THEN exceed(x.t, IF x.tool = None THEN "run_timeout" ELSE "sandbox_command_timeout", {x})
       ELSE timers' = timers \ {x} /\ UNCHANGED <<watch, cancels>>
    /\ UNCHANGED watches

\* The process stops: stop() finishes every run.
StopWatchdog ==
    /\ \E t \in Turn : Watched(t)
    /\ watch' = [t \in Turn |-> Unwatched]
    /\ timers' = timers \ UNION {TimersOf(t) : t \in Turn}
    /\ UNCHANGED <<cancels, watches>>

WatchInit ==
    /\ watch = [t \in Turn |-> Unwatched]
    /\ timers = {} /\ cancels = {} /\ watches = 0

WatchStep ==
    \/ \E t \in Turn :
          \/ startRun(t) \/ ObserveTurnEnd(t)
          \/ \E tokens \in 0..MaxTokens + 1 : ObserveTokens(t, tokens)
          \/ \E c \in ToolId : ObserveToolCall(t, c) \/ ObserveToolResponse(t, c)
    \/ \E x \in timers : TimerFires(x)
    \/ StopWatchdog
=============================================================================
