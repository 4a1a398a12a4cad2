---------------------------- MODULE MCComponents ---------------------------
(* The instances of Components that TLC checks. *)
EXTENDS Components

CONSTANTS s1, s2, r1, r2, r3, k1, k2, b1, b2, c1, c2, x1, x2, x3

NoOne == [calls |-> {}, keys |-> {}, sessions |-> {s1}, brokers |-> {}, clicks |-> {}, modes |-> {},
          ready |-> TRUE, deploys |-> FALSE, others |-> FALSE]

MCMixes ==
    {[NoOne EXCEPT !.calls = {r1, r2, r3}, !.keys = {k1, k2}, !.ready = FALSE],
     [NoOne EXCEPT !.calls = {r1, r2}, !.keys = {k1, k2}, !.sessions = {s1, s2}],
     [NoOne EXCEPT !.calls = {r1, r2}, !.keys = {k1}, !.brokers = {b1}, !.deploys = TRUE],
     [NoOne EXCEPT !.calls = {r1}, !.keys = {k1}, !.brokers = {b1, b2}, !.others = TRUE],
     [NoOne EXCEPT !.brokers = {b1}, !.keys = {k1, k2}, !.clicks = {x1, x2}, !.others = TRUE],
     [NoOne EXCEPT !.calls = {r1}, !.brokers = {b1}, !.keys = {k1}, !.clicks = {x1}],
     [NoOne EXCEPT !.keys = {k1, k2}, !.clicks = {x1, x2, x3}, !.modes = {"local_state", "server_read"}]}

StaleMixes == {[NoOne EXCEPT !.brokers = {b1}, !.keys = {k1}, !.clicks = {x1}, !.others = TRUE]}
=============================================================================
