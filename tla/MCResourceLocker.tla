-------------------------- MODULE MCResourceLocker --------------------------
(* Small instances of ResourceLocker for TLC. *)
EXTENDS ResourceLocker, TLC

CONSTANTS c1, c2, c3, w1, w2

\* Two calls of one process and one of another.
TwoAndOne == (c1 :> w1) @@ (c2 :> w1) @@ (c3 :> w2)
OneEach   == (c1 :> w1) @@ (c2 :> w2)

\* Resources are alike, and so are the two calls of one process.
Symmetry == Permutations(Resources) \cup Permutations({c1, c2})
=============================================================================
