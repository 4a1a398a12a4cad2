---------------------------- MODULE TimelineView ----------------------------
(* What the channel stream promises a reader, with no pages, hub, polls or  *)
(* connections in sight: the timeline is the log.  Rows are shown one at a  *)
(* time, in the order of the log, none twice and no readable one left out;  *)
(* opening the channel afresh starts over; and whatever is in the log is    *)
(* eventually on the screen of a reader who follows the channel.            *)
EXTENDS Integers, Sequences

CONSTANT Shows(_)   \* whether a row can be shown
VARIABLES log, view, followed   \* followed: somebody has the channel open

vars == <<log, view, followed>>

Shown == IF view = <<>> THEN -1 ELSE view[Len(view)]

(* The next row to show: the first showable one after the last shown.        *)
Due == {s \in 0 .. Len(log) - 1 :
            /\ s > Shown /\ Shows(log[s + 1])
            /\ \A r \in Shown + 1 .. s - 1 : ~Shows(log[r + 1])}

Init == log = <<>> /\ view = <<>> /\ followed \in BOOLEAN

Record ==
    /\ Len(log') = Len(log) + 1
    /\ \A i \in 1 .. Len(log) : log'[i] = log[i]
    /\ UNCHANGED <<view, followed>>

Show ==
    /\ followed
    /\ \E s \in Due : view' = Append(view, s)
    /\ UNCHANGED <<log, followed>>

Restart == view' = <<>> /\ UNCHANGED <<log, followed>>

Next == Record \/ Show \/ Restart

Spec == Init /\ [][Next]_vars /\ WF_vars(Show)
=============================================================================
