--------------------------- MODULE ContextCursor ----------------------------
(* What a coworker is told of its channel.  Each turn's context carries the *)
(* oldest rows after the session's delivery cursor, at most MaxDeltas of    *)
(* them and fewer when the byte budget is short; once the turn is known to  *)
(* exist the cursor advances through what that context really delivered.    *)
(* Building, creating and advancing are separate calls, so the turns of one *)
(* session may overlap.                                                     *)
EXTENDS ChannelLog

CONSTANTS
    Turn,        \* turns whose context is built
    MaxDeltas    \* MAX_RECENT_DELTAS

VARIABLES
    cursor,      \* last_delivered_channel_sequence; 0 when the session is made
    session,     \* whether the session, coworker and membership are active
    turn,        \* per turn: where it is, its context's deltas, its decision
    delivered    \* sequences some created turn's context carried

cursorVars == <<cursor, session, turn, delivered>>

TurnCreation == {"confirmed", "reconciled", "pending", "uncertain", "failed"}
NoTurn == [at |-> "none", deltas |-> {}, creation |-> "pending", next |-> 0]

(* The oldest rows after the cursor; the byte budget drops from the end.     *)
recentDeltas(n) ==
    LET page == listEventsAfter(cursor, MaxDeltas).rows
    IN  {s \in page : Cardinality({r \in page : r <= s}) <= n}

(* The highest sequence that continues the cursor without a gap.             *)
envelopeDeliveredThroughSequence(deltas, last) ==
    LET run == {s \in deltas : s > last /\ \A r \in last + 1 .. s : r \in deltas}
    IN  IF run = {} THEN last ELSE Max(run)

(* Mutant: the cursor moves although the turn was never created.             *)
nextDeliveryCursorAnyTurn(current, through, creation) ==
    IF through > current THEN through ELSE current

(* Only a turn that exists moves the cursor, and only forward.               *)
nextDeliveryCursor(current, through, creation) ==
    IF creation \in {"confirmed", "reconciled"} /\ through > current THEN through ELSE current

buildChannelContextForTurn(t) ==
    /\ turn[t].at = "none" /\ session
    /\ \E n \in 0 .. MaxDeltas :
           turn' = [turn EXCEPT ![t].at = "built", ![t].deltas = recentDeltas(n)]
    /\ UNCHANGED <<cursor, session, delivered, logVars>>

(* Turn creation answers; the context has reached the provider only when the *)
(* turn exists.                                                              *)
TurnCreated(t) ==
    /\ turn[t].at = "built"
    /\ \E c \in TurnCreation :
          /\ turn' = [turn EXCEPT ![t].at = "created", ![t].creation = c]
          /\ delivered' = IF c \in {"confirmed", "reconciled"}
                          THEN delivered \cup turn[t].deltas ELSE delivered
    /\ UNCHANGED <<cursor, session, logVars>>

(* advanceSessionDeliveryCursor reads the session and the channel, refuses   *)
(* more than the envelope or the log holds, decides, and then writes.        *)
advanceSessionDeliveryCursor(t) ==
    /\ turn[t].at = "created"
    /\ \E through \in 0 .. Len(log) :
          LET cap  == envelopeDeliveredThroughSequence(turn[t].deltas, cursor)
              high == IF log = <<>> THEN 0 ELSE Len(log) - 1
              next == nextDeliveryCursor(cursor, through, turn[t].creation)
          IN  turn' = [turn EXCEPT
                 ![t].at = IF cap > high \/ through > cap \/ through > high \/ next = cursor
                           THEN "done" ELSE "advancing",
                 ![t].next = next]
    /\ UNCHANGED <<cursor, session, delivered, logVars>>

(* The update keeps the greatest of the stored and the new sequence.         *)
setSessionDeliveryCursor(t) ==
    /\ turn[t].at = "advancing"
    /\ cursor' = IF turn[t].next > cursor THEN turn[t].next ELSE cursor
    /\ turn' = [turn EXCEPT ![t].at = "done"]
    /\ UNCHANGED <<session, delivered, logVars>>

(* A rotation, a removal or a disable between two calls, and its end.        *)
SessionChanges ==
    /\ session' = ~session
    /\ UNCHANGED <<cursor, turn, delivered, logVars>>

InitCursor ==
    /\ cursor = 0 /\ session = TRUE /\ delivered = {}
    /\ turn = [t \in Turn |-> NoTurn]

CursorStep ==
    \/ SessionChanges
    \/ \E t \in Turn : \/ buildChannelContextForTurn(t) \/ TurnCreated(t)
                       \/ advanceSessionDeliveryCursor(t) \/ setSessionDeliveryCursor(t)
=============================================================================
