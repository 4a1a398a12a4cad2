----------------------------- MODULE MCLibrary ------------------------------
(* The instances of Library that TLC checks. *)
EXTENDS Library, TLC

CONSTANTS k1, k2, t1, t2, r1, r2, r3, s1, s2, p1, p2, c1, c2, c3, n1, n2, x1, x2, h1, h2

\* The idempotency keys of the connections are told apart by the rows that carry them alone.
KeySymmetry == Permutations({n1, n2})

MCRequired == (k1 :> {}) @@ (k2 :> {t1})

Script(a, b, c) == (r1 :> a) @@ (r2 :> b) @@ (r3 :> c)

MCScripts == {Script("attach", "attach", "edit"), Script("attach", "detach", "edit"),
              Script("draft", "publish", "publish"), Script("draft", "draft", "none")}

DroppedScripts == {Script("attach", "attach", "none")}
=============================================================================
