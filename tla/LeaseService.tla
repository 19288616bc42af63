---------------------------- MODULE LeaseService ----------------------------
(***************************************************************************)
(* What the resource locker promises, without Redis, messages or clocks.   *)
(* A holder takes all it wants at once, nothing of it is held by another,  *)
(* and as long as it may trust its lease it keeps all of it.               *)
(***************************************************************************)
CONSTANTS Holders, Goods

VARIABLES
    holding,    \* the goods each holder has
    trusted     \* the holders that may still rely on what they hold

leaseVars == <<holding, trusted>>

Disjoint == \A h1, h2 \in Holders :
    h1 # h2 => holding[h1] \cap holding[h2] = {}

Init ==
    /\ holding = [h \in Holders |-> {}]
    /\ trusted = {}

\* A lease of everything wanted, granted when nobody else has any of it.  The
\* holder may be gone by then, or hear of it too late to rely on it.
Take(h, wanted) ==
    /\ \A other \in Holders \ {h} : holding[other] \cap wanted = {}
    /\ holding' = [holding EXCEPT ![h] = wanted]
    /\ trusted' \in {trusted, trusted \cup {h}}

\* Some holders stop relying on their lease; some that do not rely on theirs,
\* or stop right now, lose or give back everything they have.
Lapse(distrusted, losers) ==
    /\ losers \cap (trusted \ distrusted) = {}
    /\ holding' = [h \in Holders |-> IF h \in losers THEN {} ELSE holding[h]]
    /\ trusted' = trusted \ distrusted

Next ==
    \/ \E h \in Holders, wanted \in (SUBSET Goods) \ {{}} : Take(h, wanted)
    \/ \E distrusted, losers \in SUBSET Holders : Lapse(distrusted, losers)

Spec == Init /\ [][Next]_leaseVars
=============================================================================
