----------------------------- MODULE MCTimeline ----------------------------
(* The instance of Timeline that TLC checks. *)
EXTENDS Timeline

CONSTANTS s1, s2, t1, t2, b1, b2

MCRoom == [m \in {"stream", "messages", "threads", "activities", "mirror", "context"} |->
               CASE m = "mirror" -> 5 [] m = "stream" -> 3 [] m = "messages" -> 2 [] OTHER -> 4]
=============================================================================
