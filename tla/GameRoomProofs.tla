--------------------------- MODULE GameRoomProofs ---------------------------
(***************************************************************************)
(* Proofs about GameRoom, for any players, keys, battles and processes.    *)
(*                                                                         *)
(* The scripts are operators on the room, so that most is said of two      *)
(* rooms s and t, before and after a script: RoomSound(s) is what every     *)
(* script keeps, and Erased(s, t) what the scripts that end, clean or       *)
(* recount may do, which is to take away and to count.                      *)
(***************************************************************************)
EXTENDS GameRoom, FiniteSetTheorems, TLAPS

\* What a pair of two players remembers: who is ready has given a payload, and a
\* pair that is past stage 2 has both of both.
PairSound(pr, pair) ==
    pair # None /\ ~Bot(pr) =>
        /\ (pair.rdya => pair.plda /\ "a" \in pair.said)
        /\ (pair.rdyb => pair.pldb /\ "b" \in pair.said)
        /\ (pair.stat >= 3 => pair.plda /\ pair.pldb /\ pair.said = {"a", "b"})

\* A key that leads to a pair that is not its own waits in it for its opponent.
KeySound(k, pr) ==
    pr \notin {None, k} => ~Bot(k) /\ ~Bot(pr) /\ Of[pr] = Foe[k] /\ Foe[pr] = Of[k]

\* The way into a pair is kept for the player whom the pair waits for.
GotoSound(p, pr) == pr # None => ~Bot(pr) /\ Foe[pr] = p

\* The free places and the live pairs are not more than there are places.
PlacesSound(s) ==
    IsFiniteSet(Live(s)) /\ s.occupation + Cardinality(Live(s)) <= Capacity

RoomSound(s) ==
    /\ s \in Room
    /\ \A pr \in Keys : PairSound(pr, s.pair[pr])
    /\ \A k \in Keys : KeySound(k, s.pinx[k])
    /\ \A p \in Players : GotoSound(p, s.pgoto[p])
    /\ PlacesSound(s)

Playing(s, pr) == s.pair[pr] # None /\ s.pair[pr].stat = 4

\* A script that takes away indexes, ways in and pairs, and counts nothing.
Shrunk(s, t) ==
    /\ t \in Room
    /\ \A pr \in Keys : t.pair[pr] \in {s.pair[pr], None}
    /\ \A k \in Keys : t.pinx[k] \in {s.pinx[k], None}
    /\ \A p \in Players : t.pgoto[p] \in {s.pgoto[p], None}
    /\ t.quota = s.quota /\ t.occupation = s.occupation

\* The end of a battle is offered to the processes when its pair is taken away.
Redeems(s, t) ==
    \A pr \in t.quota : pr \in s.quota \/ (Playing(s, pr) /\ t.pair[pr] = None)

\* A place is counted when a pair is gone, or all of them are counted anew.
Counts(s, t) ==
    \/ t.occupation = s.occupation
    \/ t.occupation = s.occupation + 1 /\ \E pr \in Live(s) : t.pair[pr] = None
    \/ t.occupation = Capacity - Cardinality(Live(t))

Erased(s, t) ==
    /\ t \in Room
    /\ \A pr \in Keys : t.pair[pr] \in {s.pair[pr], None}
    /\ \A k \in Keys : t.pinx[k] \in {s.pinx[k], None}
    /\ \A p \in Players : t.pgoto[p] \in {s.pgoto[p], None}
    /\ Redeems(s, t) /\ Counts(s, t)

-----------------------------------------------------------------------------
(* The steps that the scripts share.                                       *)

\* A room has its parts.
LEMMA RoomParts ==
    ASSUME NEW s \in Room
    PROVE  /\ s.pair \in [Keys -> Pair \cup {None}]
           /\ s.pinx \in [Keys -> Keys \cup {None}]
           /\ s.pidnx \in [Players -> Keys \cup {None}]
           /\ s.pgoto \in [Players -> Keys \cup {None}]
           /\ s.quota \subseteq Keys /\ s.occupation \in Int
  BY DEF Room

\* What nothing was taken from has shrunk, too.
LEMMA SameIsShrunk ==
    ASSUME NEW s \in Room
    PROVE  Shrunk(s, s)
  BY DEF Shrunk

\* Two scripts that take away, one after the other, take away.
LEMMA ShrunkIsRoom ==
    ASSUME NEW s, NEW t, Shrunk(s, t)
    PROVE  t \in Room /\ t.quota = s.quota
  BY DEF Shrunk

\* What shrinks twice has shrunk.
LEMMA ShrunkTwice ==
    ASSUME NEW s \in Room, NEW t, NEW u, Shrunk(s, t), Shrunk(t, u)
    PROVE  Shrunk(s, u)
  BY DEF Shrunk

\* A script that takes away may leave the counting to others.
LEMMA ShrunkIsErased ==
    ASSUME NEW s \in Room, NEW t, Shrunk(s, t)
    PROVE  Erased(s, t)
  BY DEF Shrunk, Erased, Redeems, Counts

\* Indexes of keys are taken away.
LEMMA ClearPinxShrinks ==
    ASSUME NEW s \in Room, NEW ks
    PROVE  Shrunk(s, ClearPinx(s, ks))
<1> DEFINE x == [k \in Keys |-> IF k \in ks THEN None ELSE s.pinx[k]]
<1>1. x \in [Keys -> Keys \cup {None}] /\ \A k \in Keys : x[k] \in {s.pinx[k], None}
  BY RoomParts
<1>2. ClearPinx(s, ks) = [s EXCEPT !.pinx = x]
  BY DEF ClearPinx
<1> HIDE DEF x
<1> QED  BY <1>1, <1>2 DEF Shrunk, Room

\* Indexes of players are taken away.
LEMMA ClearPidnxShrinks ==
    ASSUME NEW s \in Room, NEW ps
    PROVE  Shrunk(s, ClearPidnx(s, ps))
<1> DEFINE x == [p \in Players |-> IF p \in ps THEN None ELSE s.pidnx[p]]
<1>1. x \in [Players -> Keys \cup {None}]
  BY RoomParts
<1>2. ClearPidnx(s, ps) = [s EXCEPT !.pidnx = x]
  BY DEF ClearPidnx
<1> HIDE DEF x
<1> QED  BY <1>1, <1>2 DEF Shrunk, Room

\* The ways into a pair are taken away.
LEMMA ClearGotoShrinks ==
    ASSUME NEW s \in Room, NEW pr
    PROVE  Shrunk(s, ClearGoto(s, pr))
<1> DEFINE x == [p \in Players |->
                    IF p \in {Of[pr], Foe[pr]} /\ s.pgoto[p] = pr THEN None ELSE s.pgoto[p]]
<1>1. x \in [Players -> Keys \cup {None}] /\ \A p \in Players : x[p] \in {s.pgoto[p], None}
  BY RoomParts
<1>2. ClearGoto(s, pr) = [s EXCEPT !.pgoto = x]
  BY DEF ClearGoto
<1> HIDE DEF x
<1> QED  BY <1>1, <1>2 DEF Shrunk, Room

\* What players are indexed by is taken away.
LEMMA UnindexShrinks ==
    ASSUME NEW s \in Room, NEW ps
    PROVE  Shrunk(s, Unindex(s, ps))
<1> DEFINE t == ClearPinx(s, KeysNow(s, ps))
<1>1. Shrunk(s, t)
  BY ClearPinxShrinks
<1>2. t \in Room
  BY <1>1 DEF Shrunk
<1>3. Unindex(s, ps) = ClearPidnx(t, ps)
  BY DEF Unindex
<1> HIDE DEF t
<1>4. Shrunk(t, ClearPidnx(t, ps))
  BY <1>2, ClearPidnxShrinks
<1> QED  BY <1>1, <1>3, <1>4, ShrunkTwice

\* A pair is taken away, with what its players are indexed by.
LEMMA RemovalShrinks ==
    ASSUME NEW s \in Room, NEW pr \in Keys, NEW ps
    PROVE  LET t == Unindex([s EXCEPT !.pair[pr] = None], ps)
           IN  Shrunk(s, t) /\ t.pair[pr] = None
<1> DEFINE u == [s EXCEPT !.pair[pr] = None]
           t == Unindex(u, ps)
<1>1. Shrunk(s, u) /\ u.pair[pr] = None
  <2>1. s.pair \in [Keys -> Pair \cup {None}]
    BY RoomParts
  <2> DEFINE x == [s.pair EXCEPT ![pr] = None]
  <2>2. /\ x \in [Keys -> Pair \cup {None}] /\ x[pr] = None
        /\ \A q \in Keys : x[q] \in {s.pair[q], None}
    BY <2>1
  <2>3. u = [s EXCEPT !.pair = x]
    BY DEF Room
  <2> HIDE DEF x, u
  <2> QED  BY ONLY <2>2, <2>3 DEF Shrunk, Room
<1> HIDE DEF u
<1>2. u \in Room
  BY <1>1 DEF Shrunk
<1>3. Shrunk(u, t)
  BY <1>2, UnindexShrinks
<1>4. Shrunk(s, t)
  BY <1>1, <1>3, ShrunkTwice
<1>5. t.pair[pr] = None
  BY <1>1, <1>3 DEF Shrunk
<1> QED  BY <1>4, <1>5 DEF u

\* The same for the members of the pair.
LEMMA UnplaceShrinks ==
    ASSUME NEW s \in Room, NEW pr \in Keys
    PROVE  Shrunk(s, Unplace(s, pr)) /\ Unplace(s, pr).pair[pr] = None
  BY RemovalShrinks DEF Unplace

\* A playing pair that is taken away may be offered, and its place counted.
LEMMA RedeemedIsErased ==
    ASSUME NEW s \in Room, NEW t, Shrunk(s, t), NEW pr \in Live(s), t.pair[pr] = None,
           NEW quota \in SUBSET Keys, quota \subseteq s.quota \cup {pr},
           pr \in quota => pr \in s.quota \/ Playing(s, pr),
           NEW n \in {0, 1}
    PROVE  Erased(s, [t EXCEPT !.occupation = @ + n, !.quota = quota])
<1> DEFINE m == t.occupation + n
           u == [t EXCEPT !.occupation = m, !.quota = quota]
<1>1. t \in Room /\ t.occupation = s.occupation /\ s.occupation \in Int
  BY RoomParts DEF Shrunk
<1>2. m \in Int /\ m = s.occupation + n
  BY <1>1
<1> HIDE DEF m
<1>3. /\ u \in Room /\ u.pair = t.pair /\ u.pinx = t.pinx /\ u.pgoto = t.pgoto
      /\ u.quota = quota /\ u.occupation = s.occupation + n
  BY ONLY <1>1, <1>2 DEF Room
<1> HIDE DEF u
<1>4. Counts(s, u)
  BY <1>1, <1>3 DEF Counts
<1>5. Redeems(s, u)
  BY <1>3 DEF Redeems
<1>6. Erased(s, u)
  BY <1>3, <1>4, <1>5 DEF Erased, Shrunk
<1> QED  BY <1>6 DEF u, m

-----------------------------------------------------------------------------
(* Every script that ends, cleans or recounts is an Erased.                *)

\* A pair and the indexes of some of its players go without a count.
LEMMA RemovalErases ==
    ASSUME NEW s \in Room, NEW pr \in Keys, NEW ps
    PROVE  Erased(s, Unindex([s EXCEPT !.pair[pr] = None], ps))
<1> DEFINE t == Unindex([s EXCEPT !.pair[pr] = None], ps)
<1>1. Shrunk(s, t)
  BY RemovalShrinks
<1> HIDE DEF t
<1>2. Erased(s, t)
  BY <1>1, ShrunkIsErased
<1> QED  BY <1>2 DEF t

\* A live pair is taken away, and what is said of it goes to its players.  When
\* something is said, the pair is gone.
LEMMA EndErases ==
    ASSUME NEW s \in Room, NEW pr \in Live(s), NEW said, NEW alsoB
    PROVE  /\ Erased(s, EndPair(s, pr, said, alsoB).s)
           /\ EndPair(s, pr, said, alsoB).s.quota = s.quota
           /\ EndPair(s, pr, said, alsoB).out # {} =>
                  EndPair(s, pr, said, alsoB).s.pair[pr] = None
<1> DEFINE t == ClearGoto(s, pr)
<1>1. pr \in Keys
  BY DEF Live
<1>2. Shrunk(s, t) /\ t \in Room
  BY ClearGotoShrinks, ShrunkIsRoom
<1> HIDE DEF t
<1>3. CASE Of[pr] \in Lost(s, pr)
  <2>1. EndPair(s, pr, said, alsoB) = [s |-> t, out |-> {}]
    BY <1>3 DEF EndPair, t
  <2> QED  BY <1>2, <2>1, ShrunkIsErased, ShrunkIsRoom
<1>4. CASE Of[pr] \notin Lost(s, pr) /\ Lost(s, pr) # {}
  <2> DEFINE u == Unindex([t EXCEPT !.pair[pr] = None], {Of[pr]})
  <2>1. EndPair(s, pr, said, alsoB) = [s |-> u, out |-> said]
    BY <1>4 DEF EndPair, t
  <2>2. Shrunk(t, u) /\ u.pair[pr] = None
    BY <1>1, <1>2, RemovalShrinks
  <2> HIDE DEF u
  <2>3. Shrunk(s, u)
    BY <1>2, <2>2, ShrunkTwice
  <2> QED  BY <2>1, <2>2, <2>3, ShrunkIsErased, ShrunkIsRoom
<1>5. CASE Lost(s, pr) = {}
  <2> DEFINE u == Unplace(t, pr)
  <2>1. EndPair(s, pr, said, alsoB) = [s |-> [u EXCEPT !.occupation = @ + 1], out |-> said \cup alsoB]
    BY <1>5 DEF EndPair, t
  <2>2. Shrunk(t, u) /\ u.pair[pr] = None
    BY ONLY <1>1, <1>2, UnplaceShrinks
  <2> HIDE DEF u
  <2>3. Shrunk(s, u) /\ u \in Room
    BY ONLY <1>2, <2>2, ShrunkTwice, ShrunkIsRoom
  <2> DEFINE v == [u EXCEPT !.occupation = @ + 1]
  <2>4. Erased(s, [u EXCEPT !.occupation = @ + 1, !.quota = u.quota])
    <3> DEFINE q == u.quota
    <3>1. q \in SUBSET Keys /\ q \subseteq s.quota \cup {pr} /\ (pr \in q => pr \in s.quota)
      <4>1. q = s.quota /\ s.quota \in SUBSET Keys
        BY ONLY <2>3, RoomParts, ShrunkIsRoom
      <4> QED  BY ONLY <4>1
    <3> HIDE DEF q
    <3>2. 1 \in {0, 1} /\ s \in Room /\ pr \in Live(s) /\ u.pair[pr] = None
      BY <2>2
    <3>3. Erased(s, [u EXCEPT !.occupation = @ + 1, !.quota = q])
      BY ONLY ZenonT(60), <2>3, <3>1, <3>2, RedeemedIsErased
    <3> QED  BY ONLY ZenonT(60), <3>3 DEF q
  <2>5. v = [u EXCEPT !.occupation = @ + 1, !.quota = u.quota]
    BY <2>3 DEF Room
  <2>6. v.pair = u.pair /\ v.quota = u.quota
    BY <2>3 DEF Room
  <2>7. Erased(s, v)
    BY <2>4, <2>5
  <2> HIDE DEF v
  <2>8. EndPair(s, pr, said, alsoB) = [s |-> v, out |-> said \cup alsoB]
    BY <2>1 DEF v
  <2>9. v.quota = s.quota /\ v.pair[pr] = None
    BY ONLY <2>2, <2>3, <2>6, ShrunkIsRoom
  <2> QED  BY ONLY <2>7, <2>8, <2>9
<1> QED  BY <1>3, <1>4, <1>5

\* An abandoned pair is one that its key leads to.
LEMMA AbandonErases ==
    ASSUME NEW s \in Room, NEW k \in Keys
    PROVE  Erased(s, AbandonPairGameplay(s, k).s)
<1> DEFINE pr == s.pinx[k]
<1>1. CASE pr = None \/ s.pair[pr] = None
  BY <1>1, SameIsShrunk, ShrunkIsErased DEF AbandonPairGameplay
<1>2. CASE ~(pr = None \/ s.pair[pr] = None)
  <2>1. pr \in Live(s)
    BY <1>2, RoomParts DEF Live
  <2>2. PICK out : AbandonPairGameplay(s, k) = EndPair(s, pr, {Dead(Of[pr])}, out)
    BY <1>2 DEF AbandonPairGameplay
  <2> HIDE DEF pr
  <2> QED  BY <2>1, <2>2, EndErases
<1> QED  BY <1>1, <1>2

\* A surrender takes a playing pair away and offers its end.
LEMMA SurrenderErases ==
    ASSUME NEW s \in Room, NEW k \in Keys
    PROVE  Erased(s, DoSurrender(s, k).s)
<1> DEFINE pr == s.pinx[k]
<1>1. CASE pr = None \/ s.pair[pr] = None \/ s.pair[pr].stat # 4
  BY <1>1, SameIsShrunk, ShrunkIsErased DEF DoSurrender
<1>2. CASE ~(pr = None \/ s.pair[pr] = None \/ s.pair[pr].stat # 4)
  <2>1. pr \in Live(s) /\ pr \in Keys /\ Playing(s, pr)
    BY <1>2, RoomParts DEF Live, Playing
  <2>2. CASE ~Bot(pr) /\ Foe[pr] \in Lost(s, pr)
    <3>1. DoSurrender(s, k).s = Unindex(s, {Of[pr]})
      BY <1>2, <2>2 DEF DoSurrender
    <3> QED  BY <3>1, UnindexShrinks, ShrunkIsErased
  <2>3. CASE ~(~Bot(pr) /\ Foe[pr] \in Lost(s, pr))
    <3> DEFINE t == Unplace(s, pr)
               q == t.quota \cup {pr}
    <3>1. DoSurrender(s, k).s = [t EXCEPT !.occupation = @ + 1, !.quota = q]
      BY <1>2, <2>3 DEF DoSurrender
    <3>2. Shrunk(s, t) /\ t.pair[pr] = None
      BY <2>1, UnplaceShrinks
    <3>3. q \in SUBSET Keys /\ q \subseteq s.quota \cup {pr}
      <4>1. pr \in Keys /\ t.quota = s.quota /\ s.quota \in SUBSET Keys
        BY <2>1, <3>2, RoomParts, ShrunkIsRoom
      <4> HIDE DEF t, pr
      <4> QED  BY ONLY <4>1
    <3> HIDE DEF t, q, pr
    <3>4. Erased(s, [t EXCEPT !.occupation = @ + 1, !.quota = q])
      BY ZenonT(60), <2>1, <3>2, <3>3, RedeemedIsErased
    <3> QED  BY <3>1, <3>4
  <2> QED  BY <2>2, <2>3
<1> QED  BY <1>1, <1>2

\* A pair that a key leads to is taken away when it is past its times.
LEMMA PairIndexErases ==
    ASSUME NEW s \in Room, NEW k \in Keys
    PROVE  Erased(s, ProcessPairIndex(s, k).s)
<1> DEFINE pr == s.pinx[k]
           t == ClearPinx(s, {k})
<1>1. Shrunk(s, t) /\ t \in Room
  BY ClearPinxShrinks, ShrunkIsRoom
<1>2. CASE pr = None \/ (s.pair[pr] # None /\ s.pair[pr].old = "fresh")
  <2>1. ProcessPairIndex(s, k).s = s
    BY <1>2 DEF ProcessPairIndex
  <2> QED  BY <2>1, SameIsShrunk, ShrunkIsErased
<1>3. CASE pr # None /\ s.pair[pr] = None
  <2>1. ProcessPairIndex(s, k).s = t
    BY <1>3 DEF ProcessPairIndex
  <2> QED  BY <1>1, <2>1, ShrunkIsErased
<1>4. CASE pr # None /\ s.pair[pr] # None /\ s.pair[pr].old # "fresh"
  <2>1. pr \in Live(s) /\ pr \in Keys
    BY <1>4, RoomParts DEF Live
  <2>2. CASE s.pair[pr].stat < 4
    <3> DEFINE u == ClearGoto(t, pr)
    <3>1. ProcessPairIndex(s, k).s = Unplace(u, pr)
      BY <1>4, <2>2 DEF ProcessPairIndex
    <3> HIDE DEF t
    <3>2. Shrunk(s, u) /\ u \in Room
      BY <1>1, ClearGotoShrinks, ShrunkTwice, ShrunkIsRoom
    <3> HIDE DEF u
    <3>3. Shrunk(s, Unplace(u, pr))
      BY <2>1, <3>2, UnplaceShrinks, ShrunkTwice
    <3> QED  BY <3>1, <3>3, ShrunkIsErased
  <2>3. CASE ~(s.pair[pr].stat < 4)
    <3> DEFINE u == Unplace(t, pr)
               q == u.quota \cup {pr}
    <3>1. ProcessPairIndex(s, k).s = [u EXCEPT !.quota = q]
      BY <1>4, <2>3 DEF ProcessPairIndex
    <3>2. Playing(s, pr)
      BY <1>4, <2>1, <2>3, RoomParts DEF Playing, Pair
    <3> HIDE DEF t
    <3>3. Shrunk(t, u) /\ u.pair[pr] = None
      BY <1>1, <2>1, UnplaceShrinks
    <3>4. Shrunk(s, u) /\ u \in Room
      <4> HIDE DEF u
      <4>1. s \in Room
        OBVIOUS
      <4> QED  BY ONLY <1>1, <3>3, <4>1, ShrunkTwice, ShrunkIsRoom
    <3>5. q \in SUBSET Keys /\ q \subseteq s.quota \cup {pr}
      <4>1. pr \in Keys /\ u.quota = s.quota /\ s.quota \in SUBSET Keys
        BY <2>1, <3>4, RoomParts, ShrunkIsRoom
      <4> HIDE DEF u, pr
      <4> QED  BY ONLY <4>1
    <3> HIDE DEF u, q
    <3>6. Erased(s, [u EXCEPT !.occupation = @ + 0, !.quota = q])
      BY ZenonT(60), <2>1, <3>2, <3>3, <3>4, <3>5, RedeemedIsErased
    <3>7. [u EXCEPT !.occupation = @ + 0, !.quota = q] = [u EXCEPT !.quota = q]
      <4>1. u.occupation + 0 = u.occupation
        BY <3>4, RoomParts
      <4> DEFINE n == u.occupation + 0
      <4>2. n = u.occupation
        BY <4>1
      <4> HIDE DEF n
      <4>3. [u EXCEPT !.occupation = n, !.quota = q] = [u EXCEPT !.quota = q]
        BY <3>4, <4>2 DEF Room
      <4> QED  BY <4>3 DEF n
    <3> QED  BY <3>1, <3>6, <3>7
  <2> QED  BY <2>2, <2>3
<1> QED  BY <1>2, <1>3, <1>4

\* A pair without a way back for its players is taken away.
LEMMA MlkPairErases ==
    ASSUME NEW s \in Room, NEW pr \in Keys
    PROVE  Erased(s, ProcessMlkPair(s, pr))
<1>1. CASE ProcessMlkPair(s, pr) = s
  BY <1>1, SameIsShrunk, ShrunkIsErased
<1>2. CASE ProcessMlkPair(s, pr) # s
  <2>1. ProcessMlkPair(s, pr) = Unindex([s EXCEPT !.pair[pr] = None], {Of[pr], Foe[pr]})
    BY <1>2 DEF ProcessMlkPair
  <2> QED  BY <2>1, RemovalErases
<1> QED  BY <1>1, <1>2

\* Indexes that lead nowhere are taken away.
LEMMA MlkIndexErases ==
    ASSUME NEW s \in Room
    PROVE  /\ \A k \in Keys : Erased(s, ProcessMlkPinx(s, k))
           /\ \A p \in Players : Erased(s, ProcessMlkPidnx(s, p))
<1>1. ASSUME NEW k \in Keys  PROVE Erased(s, ProcessMlkPinx(s, k))
  BY SameIsShrunk, ClearPinxShrinks, ShrunkIsErased DEF ProcessMlkPinx
<1>2. ASSUME NEW p \in Players  PROVE Erased(s, ProcessMlkPidnx(s, p))
  <2> DEFINE t == ClearPinx(s, {s.pidnx[p]})
  <2>1. Shrunk(s, t) /\ t \in Room
    BY ClearPinxShrinks DEF Shrunk
  <2>2. ProcessMlkPidnx(s, p) \in {s, ClearPidnx(t, {p})}
    BY DEF ProcessMlkPidnx
  <2> HIDE DEF t
  <2>3. Shrunk(s, ClearPidnx(t, {p}))
    BY <2>1, ClearPidnxShrinks, ShrunkTwice
  <2> QED  BY <2>2, <2>3, SameIsShrunk, ShrunkIsErased
<1> QED  BY <1>1, <1>2

\* The places are counted anew.
LEMMA RecountErases ==
    ASSUME NEW s \in Room, IsFiniteSet(Live(s))
    PROVE  Erased(s, Recount(s))
<1> DEFINE n == Capacity - Cardinality(Live(s))
           t == [s EXCEPT !.occupation = n]
<1>1. n \in Int
  BY FS_CardinalityType, GameRoomAssumption
<1>2. Recount(s) = t
  BY DEF Recount
<1> HIDE DEF n
<1>3. t \in Room /\ t.pair = s.pair /\ t.pinx = s.pinx /\ t.pgoto = s.pgoto
      /\ t.quota = s.quota /\ t.occupation = n
  BY <1>1 DEF Room
<1> HIDE DEF t
<1>4. Live(t) = Live(s)
  BY <1>3 DEF Live
<1>5. Counts(s, t)
  BY <1>3, <1>4 DEF Counts, n
<1> QED  BY <1>2, <1>3, <1>5 DEF Erased, Redeems

-----------------------------------------------------------------------------
(* What the scripts keep.                                                  *)

\* A script that takes away keeps the room sound.
LEMMA ErasedKeepsSound ==
    ASSUME NEW s, RoomSound(s), NEW t, Erased(s, t)
    PROVE  RoomSound(t)
<1>1. /\ s \in Room /\ t \in Room /\ IsFiniteSet(Live(s))
      /\ s.occupation + Cardinality(Live(s)) <= Capacity
  BY DEF RoomSound, PlacesSound, Erased
<1>2. \A pr \in Keys : PairSound(pr, t.pair[pr])
  BY DEF RoomSound, PairSound, Erased
<1>3. \A k \in Keys : KeySound(k, t.pinx[k])
  BY DEF RoomSound, KeySound, Erased
<1>4. \A p \in Players : GotoSound(p, t.pgoto[p])
  BY DEF RoomSound, GotoSound, Erased
<1>5. Live(t) \subseteq Live(s)
  BY DEF Live, Erased
<1>6. /\ IsFiniteSet(Live(t)) /\ Cardinality(Live(t)) \in Nat /\ Cardinality(Live(s)) \in Nat
      /\ Cardinality(Live(t)) <= Cardinality(Live(s))
  BY <1>1, <1>5, FS_Subset, FS_CardinalityType
<1>7. s.occupation \in Int /\ t.occupation \in Int /\ Capacity \in Nat
  BY <1>1, RoomParts, GameRoomAssumption
<1>8. t.occupation + Cardinality(Live(t)) <= Capacity
  <2>1. CASE t.occupation = s.occupation
    BY <1>1, <1>6, <1>7, <2>1
  <2>2. CASE t.occupation = s.occupation + 1 /\ \E pr \in Live(s) : t.pair[pr] = None
    <3>1. Live(t) # Live(s)
      BY <2>2 DEF Live
    <3>2. Cardinality(Live(t)) < Cardinality(Live(s))
      BY <1>1, <1>5, <1>6, <3>1, FS_Subset
    <3> QED  BY <1>1, <1>6, <1>7, <2>2, <3>2
  <2>3. CASE t.occupation = Capacity - Cardinality(Live(t))
    BY <1>6, <1>7, <2>3
  <2> QED  BY <2>1, <2>2, <2>3 DEF Erased, Counts
<1> QED  BY <1>1, <1>2, <1>3, <1>4, <1>6, <1>8 DEF RoomSound, PlacesSound

\* No pair begins to play, and no end is offered but of a playing pair that goes:
\* what may still end is not more than before.
NoneBegins(s, t) ==
    /\ \A pr \in Keys : Playing(t, pr) => Playing(s, pr)
    /\ Redeems(s, t)

\* A script that takes away begins nothing.
LEMMA ErasedBeginsNone ==
    ASSUME NEW s, NEW t, Erased(s, t)
    PROVE  NoneBegins(s, t)
  BY DEF Erased, NoneBegins, Playing

\* Nor do two of them.
LEMMA NoneBeginsTwice ==
    ASSUME NEW s \in Room, NEW t, NEW u, Erased(s, t), Erased(t, u)
    PROVE  NoneBegins(s, u)
<1>1. \A pr \in u.quota : pr \in Keys
  BY RoomParts DEF Erased
<1>2. ASSUME NEW pr \in u.quota, pr \notin s.quota
      PROVE  Playing(s, pr) /\ u.pair[pr] = None
  <2>1. CASE pr \in t.quota
    BY <1>1, <1>2, <2>1 DEF Erased, Redeems
  <2>2. CASE pr \notin t.quota
    BY <1>1, <1>2, <2>2 DEF Erased, Redeems, Playing
  <2> QED  BY <2>1, <2>2
<1>3. Redeems(s, u)
  BY <1>2 DEF Redeems
<1>4. \A pr \in Keys : Playing(u, pr) => Playing(s, pr)
  BY ErasedBeginsNone DEF NoneBegins
<1> QED  BY <1>3, <1>4 DEF NoneBegins

\* A refresh takes away in two steps at most: the caller's own index, and one scan
\* or the recount.
LEMMA RefreshKeeps ==
    ASSUME NEW s, RoomSound(s), NEW k \in Keys \cup {None}, NEW r \in Refreshed(s, k)
    PROVE  RoomSound(r.s) /\ NoneBegins(s, r.s)
<1> DEFINE t == IF k = None THEN s ELSE ProcessPairIndex(s, k).s
<1>1. s \in Room
  BY DEF RoomSound
<1>2. Erased(s, t)
  BY <1>1, PairIndexErases, SameIsShrunk, ShrunkIsErased
<1>3. RoomSound(t) /\ t \in Room
  BY <1>2, ErasedKeepsSound DEF RoomSound
<1>4. \/ r.s = t
      \/ r.s = Recount(t)
      \/ \E j \in Keys : r.s \in {ProcessPairIndex(t, j).s, ProcessMlkPair(t, j), ProcessMlkPinx(t, j)}
      \/ \E p \in Players : r.s = ProcessMlkPidnx(t, p)
  <2> DEFINE r1 == IF k = None THEN [s |-> s, out |-> {}] ELSE ProcessPairIndex(s, k)
  <2>1. r1.s = t
    OBVIOUS
  <2> HIDE DEF t
  <2>2. \/ r = r1
        \/ r = [s |-> Recount(r1.s), out |-> r1.out]
        \/ \E j \in Keys : \/ r = [ProcessPairIndex(r1.s, j) EXCEPT !.out = @ \cup r1.out]
                           \/ r = [s |-> ProcessMlkPair(r1.s, j), out |-> r1.out]
                           \/ r = [s |-> ProcessMlkPinx(r1.s, j), out |-> r1.out]
        \/ \E p \in Players : r = [s |-> ProcessMlkPidnx(r1.s, p), out |-> r1.out]
    BY DEF Refreshed
  <2> HIDE DEF r1
  <2>3. ASSUME NEW j \in Keys
        PROVE  [ProcessPairIndex(r1.s, j) EXCEPT !.out = @ \cup r1.out].s
                   = ProcessPairIndex(t, j).s
    BY <2>1 DEF ProcessPairIndex
  <2>4. CASE \E j \in Keys : r = [ProcessPairIndex(r1.s, j) EXCEPT !.out = @ \cup r1.out]
    BY <2>3, <2>4
  <2>5. CASE \E j \in Keys : \/ r = [s |-> ProcessMlkPair(r1.s, j), out |-> r1.out]
                            \/ r = [s |-> ProcessMlkPinx(r1.s, j), out |-> r1.out]
    BY <2>1, <2>5
  <2>6. CASE \E p \in Players : r = [s |-> ProcessMlkPidnx(r1.s, p), out |-> r1.out]
    BY <2>1, <2>6
  <2> QED  BY <2>1, <2>2, <2>4, <2>5, <2>6
<1> HIDE DEF t
<1>5. Erased(t, r.s)
  BY <1>3, <1>4, SameIsShrunk, ShrunkIsErased, RecountErases, PairIndexErases, MlkPairErases,
     MlkIndexErases DEF RoomSound, PlacesSound
<1>6. RoomSound(r.s)
  BY <1>3, <1>5, ErasedKeepsSound
<1> QED  BY <1>1, <1>2, <1>5, <1>6, NoneBeginsTwice

-----------------------------------------------------------------------------
(* The scripts that place players, and those that bring a pair on.         *)

\* A live pair goes on: its room stays sound when the pair does.
LEMMA PairGoesOn ==
    ASSUME NEW s, RoomSound(s), NEW pr \in Live(s), NEW pair \in Pair, PairSound(pr, pair)
    PROVE  LET t == [s EXCEPT !.pair[pr] = pair]
           IN  /\ RoomSound(t)
               /\ (pair.stat = 4 => s.pair[pr].stat = 4) => NoneBegins(s, t)
               /\ \A q \in Keys : q # pr => t.pair[q] = s.pair[q]
               /\ t.pair[pr] = pair /\ t.quota = s.quota
<1> DEFINE x == [s.pair EXCEPT ![pr] = pair]
           t == [s EXCEPT !.pair = x]
<1>1. /\ s \in Room /\ pr \in Keys /\ s.pair[pr] # None /\ s.pair \in [Keys -> Pair \cup {None}]
  BY RoomParts DEF RoomSound, Live
<1>2. /\ x \in [Keys -> Pair \cup {None}] /\ x[pr] = pair
      /\ \A q \in Keys : q # pr => x[q] = s.pair[q]
  BY <1>1
<1> HIDE DEF x
<1>3. /\ t \in Room /\ t.pair = x /\ t.pinx = s.pinx /\ t.pgoto = s.pgoto
      /\ t.quota = s.quota /\ t.occupation = s.occupation
  BY <1>1, <1>2 DEF Room
<1>4. [s EXCEPT !.pair[pr] = pair] = t
  BY DEF x
<1> HIDE DEF t
<1>5. \A q \in Keys : PairSound(q, t.pair[q])
  BY <1>2, <1>3 DEF RoomSound
<1>6. PlacesSound(t)
  <2>1. Live(t) \subseteq Live(s)
    BY <1>2, <1>3 DEF Live
  <2>2. /\ IsFiniteSet(Live(t)) /\ Cardinality(Live(t)) \in Nat /\ Cardinality(Live(s)) \in Nat
        /\ Cardinality(Live(t)) <= Cardinality(Live(s))
    BY <2>1, FS_Subset, FS_CardinalityType DEF RoomSound, PlacesSound
  <2>3. s.occupation \in Int /\ Capacity \in Nat
    BY <1>1, RoomParts, GameRoomAssumption
  <2> QED  BY <1>3, <2>2, <2>3 DEF RoomSound, PlacesSound
<1>7. RoomSound(t)
  BY <1>3, <1>5, <1>6 DEF RoomSound
<1>8. ASSUME pair.stat = 4 => s.pair[pr].stat = 4
      PROVE  NoneBegins(s, t)
  BY <1>1, <1>2, <1>3, <1>8 DEF NoneBegins, Redeems, Playing
<1> QED  BY <1>2, <1>3, <1>4, <1>7, <1>8

\* A room that did not change.
LEMMA SameKeeps ==
    ASSUME NEW s, RoomSound(s)
    PROVE  RoomSound(s) /\ NoneBegins(s, s)
  BY SameIsShrunk, ShrunkIsErased, ErasedBeginsNone DEF RoomSound

\* Where a key leads to a live pair.
LEMMA KeyLeadsToLive ==
    ASSUME NEW s \in Room, NEW k \in Keys, s.pinx[k] # None, s.pair[s.pinx[k]] # None
    PROVE  s.pinx[k] \in Live(s) /\ s.pair[s.pinx[k]] \in Pair
  BY RoomParts DEF Live

\* What changing one mark of a pair leaves of it: the room's scripts change a pair
\* by these steps only.
LEMMA PairPlda ==
    ASSUME NEW p \in Pair, NEW v \in BOOLEAN
    PROVE  LET q == [p EXCEPT !.plda = v]
           IN  /\ q \in Pair /\ q.stat = p.stat /\ q.plda = v /\ q.pldb = p.pldb
               /\ q.rdya = p.rdya /\ q.rdyb = p.rdyb /\ q.said = p.said
  BY SMTT(60) DEF Pair

LEMMA PairPldb ==
    ASSUME NEW p \in Pair, NEW v \in BOOLEAN
    PROVE  LET q == [p EXCEPT !.pldb = v]
           IN  /\ q \in Pair /\ q.stat = p.stat /\ q.plda = p.plda /\ q.pldb = v
               /\ q.rdya = p.rdya /\ q.rdyb = p.rdyb /\ q.said = p.said
  BY SMTT(60) DEF Pair

LEMMA PairRdya ==
    ASSUME NEW p \in Pair, NEW v \in BOOLEAN
    PROVE  LET q == [p EXCEPT !.rdya = v]
           IN  /\ q \in Pair /\ q.stat = p.stat /\ q.plda = p.plda /\ q.pldb = p.pldb
               /\ q.rdya = v /\ q.rdyb = p.rdyb /\ q.said = p.said
  BY SMTT(60) DEF Pair

LEMMA PairRdyb ==
    ASSUME NEW p \in Pair, NEW v \in BOOLEAN
    PROVE  LET q == [p EXCEPT !.rdyb = v]
           IN  /\ q \in Pair /\ q.stat = p.stat /\ q.plda = p.plda /\ q.pldb = p.pldb
               /\ q.rdya = p.rdya /\ q.rdyb = v /\ q.said = p.said
  BY SMTT(60) DEF Pair

LEMMA PairStat ==
    ASSUME NEW p \in Pair, NEW v \in 0 .. 4
    PROVE  LET q == [p EXCEPT !.stat = v]
           IN  /\ q \in Pair /\ q.stat = v /\ q.plda = p.plda /\ q.pldb = p.pldb
               /\ q.rdya = p.rdya /\ q.rdyb = p.rdyb /\ q.said = p.said
  BY SMTT(60) DEF Pair

LEMMA PairOld ==
    ASSUME NEW p \in Pair, NEW v \in {"fresh", "idle", "long"}
    PROVE  LET q == [p EXCEPT !.old = v]
           IN  /\ q \in Pair /\ q.stat = p.stat /\ q.plda = p.plda /\ q.pldb = p.pldb
               /\ q.rdya = p.rdya /\ q.rdyb = p.rdyb /\ q.said = p.said
  BY SMTT(60) DEF Pair

LEMMA PairSaid ==
    ASSUME NEW p \in Pair, NEW me \in {"a", "b"}
    PROVE  LET q == [p EXCEPT !.said = @ \cup {me}]
           IN  /\ q \in Pair /\ q.stat = p.stat /\ q.plda = p.plda /\ q.pldb = p.pldb
               /\ q.rdya = p.rdya /\ q.rdyb = p.rdyb /\ q.said = p.said \cup {me}
<1> DEFINE w == p.said \cup {me}
<1>1. w \in SUBSET {"a", "b"}
  BY DEF Pair
<1> HIDE DEF w
<1>2. LET q == [p EXCEPT !.said = w]
      IN  /\ q \in Pair /\ q.stat = p.stat /\ q.plda = p.plda /\ q.pldb = p.pldb
          /\ q.rdya = p.rdya /\ q.rdyb = p.rdyb /\ q.said = w
  BY SMTT(60), <1>1 DEF Pair
<1> QED  BY <1>2 DEF w

\* The second player of a pair takes his place.
LEMMA GotoKeeps ==
    ASSUME NEW s, RoomSound(s), NEW k \in Keys, ~Bot(k),
           s.pgoto[Of[k]] # None, s.pair[s.pgoto[Of[k]]] # None
    PROVE  RoomSound(PlaceByGoto(s, k)) /\ NoneBegins(s, PlaceByGoto(s, k))
<1> DEFINE pr == s.pgoto[Of[k]]
           pair == [s.pair[pr] EXCEPT !.stat = 1]
           u == [s EXCEPT !.pair[pr] = pair]
           pinx == [s.pinx EXCEPT ![k] = pr]
           pidnx == [s.pidnx EXCEPT ![Of[k]] = k]
           pgoto == [s.pgoto EXCEPT ![Of[k]] = None]
           t == [u EXCEPT !.pinx = pinx, !.pidnx = pidnx, !.pgoto = pgoto]
<1>1. /\ s \in Room /\ Of[k] \in Players /\ pr \in Live(s) /\ pr \in Keys
      /\ s.pair[pr] \in Pair /\ ~Bot(pr) /\ s.pair \in [Keys -> Pair \cup {None}]
      /\ s.pinx \in [Keys -> Keys \cup {None}] /\ s.pidnx \in [Players -> Keys \cup {None}]
      /\ s.pgoto \in [Players -> Keys \cup {None}]
  BY RoomParts, GameRoomAssumption DEF RoomSound, Live, GotoSound
<1>2. CASE PlaceByGoto(s, k) = s
  BY <1>2, SameKeeps
<1>3. CASE PlaceByGoto(s, k) # s
  <2>1. s.pair[pr].stat = 0 /\ Of[pr] = Foe[k] /\ Foe[pr] = Of[k]
    BY <1>3 DEF PlaceByGoto
  <2>2. PlaceByGoto(s, k) = t
    BY ONLY ZenonT(60), <1>1, <1>3 DEF PlaceByGoto, Room
  <2>3. /\ pair \in Pair /\ pair.stat = 1 /\ PairSound(pr, pair)
    <3>1. s.pair[pr] \in Pair /\ PairSound(pr, s.pair[pr]) /\ s.pair[pr] # None /\ 1 \in 0 .. 4
      BY <1>1 DEF RoomSound, Live
    <3> DEFINE old == s.pair[pr]
    <3>2. /\ pair \in Pair /\ pair.stat = 1 /\ pair.plda = old.plda /\ pair.pldb = old.pldb
          /\ pair.rdya = old.rdya /\ pair.rdyb = old.rdyb /\ pair.said = old.said
      BY ONLY ZenonT(60), <3>1, PairStat
    <3> HIDE DEF pair, old
    <3>3. PairSound(pr, old) /\ old # None
      BY ONLY ZenonT(60), <3>1 DEF old
    <3> QED  BY ONLY <3>2, <3>3 DEF PairSound
  <2>4. /\ pinx \in [Keys -> Keys \cup {None}] /\ \A j \in Keys : KeySound(j, pinx[j])
    BY <1>1, <2>1 DEF KeySound, RoomSound
  <2>5. /\ pidnx \in [Players -> Keys \cup {None}] /\ pgoto \in [Players -> Keys \cup {None}]
        /\ \A p \in Players : GotoSound(p, pgoto[p])
    BY <1>1 DEF GotoSound, RoomSound
  <2> HIDE DEF pair, pinx, pidnx, pgoto
  <2>6. RoomSound(u) /\ NoneBegins(s, u)
    <3>1. RoomSound(s) /\ pr \in Live(s)
      BY <1>1
    <3> HIDE DEF pr
    <3> QED  BY ONLY <2>3, <3>1, PairGoesOn
  <2>7. u \in Room
    BY <2>6 DEF RoomSound
  <2> HIDE DEF u
  <2>8. /\ t \in Room /\ t.pair = u.pair /\ t.pinx = pinx /\ t.pgoto = pgoto
        /\ t.quota = u.quota /\ t.occupation = u.occupation
    BY <2>4, <2>5, <2>7 DEF Room
  <2> HIDE DEF t
  <2>9. Live(t) = Live(u)
    BY <2>8 DEF Live
  <2>10. RoomSound(t)
    BY <2>4, <2>5, <2>6, <2>8, <2>9 DEF RoomSound, PlacesSound
  <2>11. NoneBegins(s, t)
    BY <2>6, <2>8 DEF NoneBegins, Redeems, Playing
  <2> QED  BY <2>2, <2>10, <2>11
<1> QED  BY <1>2, <1>3

\* The first player of a pair takes his place, and the pairs that the two were in go.
LEMMA AnewKeeps ==
    ASSUME NEW s, RoomSound(s), NEW k \in Keys
    PROVE  RoomSound(PlaceAnew(s, k)) /\ NoneBegins(s, PlaceAnew(s, k))
<1> DEFINE former == {s.pinx[j] : j \in KeysNow(s, {Of[k], Foe[k]})}
           x == [pr \in Keys |-> IF pr \in former THEN None ELSE s.pair[pr]]
           u == [s EXCEPT !.pair = x]
<1>1. s \in Room /\ Of[k] \in Players /\ Foe[k] \in Players
  BY GameRoomAssumption DEF RoomSound
<1>2. x \in [Keys -> Pair \cup {None}] /\ \A pr \in Keys : x[pr] \in {s.pair[pr], None}
  BY <1>1, RoomParts
<1>3. PlaceAnew(s, k) =
          IF u.pair[k] # None
          THEN u
          ELSE [u EXCEPT !.pair[k] = NewPair(IF Bot(k) THEN 1 ELSE 0, Bot(k)),
                         !.pinx[k] = k, !.pidnx[Of[k]] = k,
                         !.pgoto = [p \in Players |-> IF p = Foe[k] /\ ~Bot(k) THEN k ELSE @[p]],
                         !.occupation = @ - 1]
  BY DEF PlaceAnew
<1> HIDE DEF x
<1>4. Shrunk(s, u)
  BY <1>1, <1>2 DEF Shrunk, Room
<1>5. RoomSound(u) /\ NoneBegins(s, u) /\ u \in Room /\ u.quota = s.quota
  BY <1>1, <1>4, ShrunkIsErased, ErasedKeepsSound, ErasedBeginsNone DEF Shrunk
<1> HIDE DEF u
<1>6. CASE u.pair[k] # None
  BY <1>3, <1>5, <1>6
<1>7. CASE u.pair[k] = None
  <2> DEFINE new == NewPair(IF Bot(k) THEN 1 ELSE 0, Bot(k))
             pair == [u.pair EXCEPT ![k] = new]
             pinx == [u.pinx EXCEPT ![k] = k]
             pidnx == [u.pidnx EXCEPT ![Of[k]] = k]
             pgoto == [p \in Players |-> IF p = Foe[k] /\ ~Bot(k) THEN k ELSE u.pgoto[p]]
             n == u.occupation - 1
             t == [u EXCEPT !.pair = pair, !.pinx = pinx, !.pidnx = pidnx, !.pgoto = pgoto,
                            !.occupation = n]
  <2>1. PlaceAnew(s, k) = t
    BY <1>3, <1>5, <1>7 DEF Room
  <2>2. /\ u.pair \in [Keys -> Pair \cup {None}] /\ u.pinx \in [Keys -> Keys \cup {None}]
        /\ u.pidnx \in [Players -> Keys \cup {None}] /\ u.pgoto \in [Players -> Keys \cup {None}]
        /\ u.occupation \in Int
    BY <1>5, RoomParts
  <2>3. /\ new \in Pair /\ ~new.rdya /\ ~new.rdyb /\ new.stat \in {0, 1}
    BY DEF NewPair, Pair, Bot
  <2>4. PairSound(k, new)
    BY <2>3 DEF PairSound
  <2> HIDE DEF new
  <2>5. /\ pair \in [Keys -> Pair \cup {None}] /\ pair[k] = new
        /\ \A q \in Keys : q # k => pair[q] = u.pair[q]
    BY <2>2, <2>3
  <2>6. pinx \in [Keys -> Keys \cup {None}] /\ \A j \in Keys : KeySound(j, pinx[j])
    BY <1>5, <2>2 DEF KeySound, RoomSound
  <2>7. /\ pidnx \in [Players -> Keys \cup {None}] /\ pgoto \in [Players -> Keys \cup {None}]
        /\ \A p \in Players : GotoSound(p, pgoto[p])
    BY <1>1, <1>5, <2>2 DEF GotoSound, RoomSound
  <2>8. n \in Int
    BY <2>2
  <2> HIDE DEF pair, pinx, pidnx, pgoto
  <2>9. /\ t \in Room /\ t.pair = pair /\ t.pinx = pinx /\ t.pgoto = pgoto
        /\ t.quota = u.quota /\ t.occupation = n
    BY <1>5, <2>5, <2>6, <2>7, <2>8 DEF Room
  <2> HIDE DEF t
  <2>10. PlacesSound(t)
    <3>1. Live(t) \subseteq Live(u) \cup {k} /\ k \notin Live(u)
      BY <1>7, <2>5, <2>9 DEF Live
    <3>2. /\ IsFiniteSet(Live(u) \cup {k}) /\ Cardinality(Live(u)) \in Nat
          /\ Cardinality(Live(u) \cup {k}) = Cardinality(Live(u)) + 1
      BY <1>5, <3>1, FS_AddElement, FS_CardinalityType DEF RoomSound, PlacesSound
    <3>3. /\ IsFiniteSet(Live(t)) /\ Cardinality(Live(t)) \in Nat
          /\ Cardinality(Live(t)) <= Cardinality(Live(u)) + 1
      BY <3>1, <3>2, FS_Subset, FS_CardinalityType
    <3>4. u.occupation + Cardinality(Live(u)) <= Capacity /\ Capacity \in Nat
      BY <1>5, GameRoomAssumption DEF RoomSound, PlacesSound
    <3> QED  BY <2>2, <2>9, <3>2, <3>3, <3>4 DEF PlacesSound
  <2>11. \A q \in Keys : PairSound(q, t.pair[q])
    BY <1>5, <2>4, <2>5, <2>9 DEF RoomSound
  <2>12. RoomSound(t)
    BY <2>6, <2>7, <2>9, <2>10, <2>11 DEF RoomSound
  <2>13. NoneBegins(s, t)
    BY <1>5, <1>7, <2>3, <2>5, <2>9 DEF NoneBegins, Redeems, Playing
  <2> QED  BY <2>1, <2>12, <2>13
<1> QED  BY <1>6, <1>7

\* A player is placed, by the way kept for him or anew.
LEMMA PlacingKeeps ==
    ASSUME NEW s, RoomSound(s), NEW k \in Keys
    PROVE  RoomSound(PlacePlayerInRoom(s, k)) /\ NoneBegins(s, PlacePlayerInRoom(s, k))
  BY GotoKeeps, AnewKeeps DEF PlacePlayerInRoom

LEMMA PairSetUp ==
    ASSUME NEW p \in Pair
    PROVE  LET q == [p EXCEPT !.stat = 3, !.rdya = FALSE, !.rdyb = FALSE]
           IN  /\ q \in Pair /\ q.stat = 3 /\ q.plda = p.plda /\ q.pldb = p.pldb
               /\ q.rdya = FALSE /\ q.rdyb = FALSE /\ q.said = p.said
<1> DEFINE b == [p EXCEPT !.stat = 3]
           c == [b EXCEPT !.rdya = FALSE]
           d == [c EXCEPT !.rdyb = FALSE]
<1>0. 3 \in 0 .. 4
  OBVIOUS
<1>1. /\ b \in Pair /\ b.stat = 3 /\ b.plda = p.plda /\ b.pldb = p.pldb
      /\ b.rdya = p.rdya /\ b.rdyb = p.rdyb /\ b.said = p.said
  BY ZenonT(60), <1>0, PairStat
<1>2. d = [p EXCEPT !.stat = 3, !.rdya = FALSE, !.rdyb = FALSE]
  OBVIOUS
<1> HIDE DEF b
<1>3. /\ c \in Pair /\ c.stat = b.stat /\ c.plda = b.plda /\ c.pldb = b.pldb
      /\ c.rdya = FALSE /\ c.rdyb = b.rdyb /\ c.said = b.said
  BY <1>1, PairRdya
<1> HIDE DEF c
<1>4. /\ d \in Pair /\ d.stat = c.stat /\ d.plda = c.plda /\ d.pldb = c.pldb
      /\ d.rdya = c.rdya /\ d.rdyb = FALSE /\ d.said = c.said
  BY <1>3, PairRdyb
<1> HIDE DEF d
<1> QED  BY <1>1, <1>2, <1>3, <1>4

\* What a pair becomes when its player me sets his payload, and when he says that
\* he is ready.
PaidPair(c, me) ==
    LET d == IF me = "a" THEN [c EXCEPT !.plda = TRUE] ELSE [c EXCEPT !.pldb = TRUE]
    IN  IF d.plda /\ d.pldb THEN [d EXCEPT !.stat = 2] ELSE d

ReadyPair(c, me, bot) ==
    LET theirs == IF me = "a" THEN c.rdyb ELSE c.rdya
        said == [c EXCEPT !.said = @ \cup {me}]
    IN  IF theirs \/ bot
        THEN [said EXCEPT !.stat = 3, !.rdya = FALSE, !.rdyb = FALSE]
        ELSE IF me = "a" THEN [said EXCEPT !.rdya = TRUE] ELSE [said EXCEPT !.rdyb = TRUE]

\* A payload that is set takes no mark away, and the pair stays below 3.
LEMMA PaidIsSound ==
    ASSUME NEW c \in Pair, NEW me, NEW pr, c.stat \in {0, 1}, PairSound(pr, c), c # None
    PROVE  /\ PaidPair(c, me) \in Pair /\ PaidPair(c, me).stat \in {0, 1, 2}
           /\ PairSound(pr, PaidPair(c, me))
<1> DEFINE d == IF me = "a" THEN [c EXCEPT !.plda = TRUE] ELSE [c EXCEPT !.pldb = TRUE]
           e == [d EXCEPT !.stat = 2]
<1>1. /\ d \in Pair /\ d.stat = c.stat /\ d.rdya = c.rdya /\ d.rdyb = c.rdyb
      /\ d.said = c.said /\ (c.plda => d.plda) /\ (c.pldb => d.pldb)
  <2>1. CASE me = "a"
    BY ZenonT(60), <2>1, PairPlda
  <2>2. CASE me # "a"
    BY ZenonT(60), <2>2, PairPldb
  <2> QED  BY ONLY <2>1, <2>2
<1>2. PaidPair(c, me) = IF d.plda /\ d.pldb THEN e ELSE d
  BY ZenonT(60) DEF PaidPair
<1> HIDE DEF d
<1>3. /\ e \in Pair /\ e.stat = 2 /\ e.rdya = d.rdya /\ e.rdyb = d.rdyb
      /\ e.said = d.said /\ e.plda = d.plda /\ e.pldb = d.pldb
  <2>1. 2 \in 0 .. 4
    OBVIOUS
  <2> QED  BY ZenonT(60), <1>1, <2>1, PairStat
<1> HIDE DEF e
<1>4. /\ (~Bot(pr) /\ c.rdya => c.plda /\ "a" \in c.said)
      /\ (~Bot(pr) /\ c.rdyb => c.pldb /\ "b" \in c.said)
  BY DEF PairSound
<1>5. PairSound(pr, d) /\ PairSound(pr, e)
  BY <1>1, <1>3, <1>4 DEF PairSound
<1>6. CASE d.plda /\ d.pldb
  BY <1>2, <1>3, <1>5, <1>6
<1>7. CASE ~(d.plda /\ d.pldb)
  BY <1>1, <1>2, <1>5, <1>7
<1> QED  BY ONLY <1>6, <1>7

\* A player who has set his payload says that he is ready: with the other one
\* ready, both have set theirs and both have said it.
LEMMA ReadyIsSound ==
    ASSUME NEW c \in Pair, NEW me \in {"a", "b"}, NEW pr, c.stat \notin {3, 4},
           PairSound(pr, c), c # None, Bot(pr) \/ (IF me = "a" THEN c.plda ELSE c.pldb)
    PROVE  /\ ReadyPair(c, me, Bot(pr)) \in Pair /\ ReadyPair(c, me, Bot(pr)).stat # 4
           /\ PairSound(pr, ReadyPair(c, me, Bot(pr)))
<1> DEFINE theirs == IF me = "a" THEN c.rdyb ELSE c.rdya
           said == [c EXCEPT !.said = @ \cup {me}]
           go == [said EXCEPT !.stat = 3, !.rdya = FALSE, !.rdyb = FALSE]
           wait == IF me = "a" THEN [said EXCEPT !.rdya = TRUE] ELSE [said EXCEPT !.rdyb = TRUE]
           next == IF theirs \/ Bot(pr) THEN go ELSE wait
<1>1. ReadyPair(c, me, Bot(pr)) = next
  BY ZenonT(60) DEF ReadyPair
<1>2. /\ said \in Pair /\ said.said = c.said \cup {me} /\ said.stat = c.stat
      /\ said.plda = c.plda /\ said.pldb = c.pldb
      /\ said.rdya = c.rdya /\ said.rdyb = c.rdyb
  BY ZenonT(60), PairSaid
<1> HIDE DEF said
<1>3. /\ go \in Pair /\ go.stat = 3 /\ go.rdya = FALSE /\ go.rdyb = FALSE
      /\ go.said = said.said /\ go.plda = said.plda /\ go.pldb = said.pldb
  BY ZenonT(60), <1>2, PairSetUp
<1>4. /\ wait \in Pair /\ wait.stat = said.stat /\ wait.said = said.said
      /\ wait.plda = said.plda /\ wait.pldb = said.pldb
      /\ (me = "a" => wait.rdyb = said.rdyb) /\ (me # "a" => wait.rdya = said.rdya)
  <2>1. CASE me = "a"
    BY ZenonT(60), <1>2, <2>1, PairRdya
  <2>2. CASE me # "a"
    BY ZenonT(60), <1>2, <2>2, PairRdyb
  <2> QED  BY ONLY <2>1, <2>2
<1> HIDE DEF go, wait
<1>5. c.said \subseteq {"a", "b"} /\ c.stat \in {0, 1, 2}
  BY DEF Pair
<1>6. ASSUME ~Bot(pr)
      PROVE  /\ (c.rdya => c.plda /\ "a" \in c.said) /\ (c.rdyb => c.pldb /\ "b" \in c.said)
             /\ (me = "a" => c.plda) /\ (me = "b" => c.pldb)
  BY <1>6 DEF PairSound
<1>7. CASE theirs \/ Bot(pr)
  <2>1. next = go
    BY ONLY <1>7
  <2>2. ASSUME ~Bot(pr)
        PROVE  go.plda /\ go.pldb /\ go.said = {"a", "b"}
    <3>1. c.plda /\ c.pldb /\ c.said \cup {me} = {"a", "b"}
      <4>1. CASE me = "a"
        BY <1>5, <1>6, <1>7, <2>2, <4>1
      <4>2. CASE me = "b"
        BY <1>5, <1>6, <1>7, <2>2, <4>2
      <4> QED  BY <4>1, <4>2
    <3> QED  BY ONLY <1>2, <1>3, <3>1
  <2>3. PairSound(pr, go)
    BY ONLY <1>3, <2>2 DEF PairSound
  <2>4. go.stat # 4
    BY ONLY <1>3
  <2> QED  BY ONLY <1>1, <1>3, <2>1, <2>3, <2>4
<1>8. CASE ~(theirs \/ Bot(pr))
  <2>1. next = wait
    BY ONLY <1>8
  <2>2. (wait.rdya => wait.plda /\ "a" \in wait.said) /\ (wait.rdyb => wait.pldb /\ "b" \in wait.said)
    <3>1. CASE me = "a"
      BY <1>2, <1>4, <1>6, <1>8, <3>1
    <3>2. CASE me = "b"
      BY <1>2, <1>4, <1>6, <1>8, <3>2
    <3> QED  BY <3>1, <3>2
  <2>3. wait.stat # 4 /\ ~(wait.stat >= 3)
    BY ONLY <1>2, <1>4, <1>5
  <2>4. PairSound(pr, wait)
    BY ONLY <2>2, <2>3 DEF PairSound
  <2> QED  BY ONLY <1>1, <1>4, <2>1, <2>3, <2>4
<1> QED  BY ONLY <1>7, <1>8

\* A payload is set, and with the second one the pair goes on.
LEMMA PayloadKeeps ==
    ASSUME NEW s, RoomSound(s), NEW k \in Keys
    PROVE  RoomSound(SetPayloadIn(s, k)) /\ NoneBegins(s, SetPayloadIn(s, k))
<1> DEFINE pr == s.pinx[k]
           next == PaidPair(s.pair[pr], Side(k, pr))
           t == [s EXCEPT !.pair[pr] = next]
<1>1. CASE SetPayloadIn(s, k) = s
  BY <1>1, SameKeeps
<1>2. CASE SetPayloadIn(s, k) # s
  <2>1. pr # None /\ s.pair[pr] # None /\ s.pair[pr].stat \in {0, 1}
    BY ONLY ZenonT(60), <1>2 DEF SetPayloadIn
  <2>2. SetPayloadIn(s, k) = t
    BY ONLY ZenonT(60), <1>2 DEF SetPayloadIn, PaidPair
  <2>3. s \in Room /\ \A q \in Keys : PairSound(q, s.pair[q])
    BY DEF RoomSound
  <2>4. pr \in Live(s) /\ pr \in Keys /\ s.pair[pr] \in Pair
    BY <2>1, <2>3, KeyLeadsToLive DEF Live
  <2>5. next \in Pair /\ next.stat \in {0, 1, 2} /\ PairSound(pr, next)
    <3> DEFINE me == Side(k, pr)
    <3>1. PairSound(pr, s.pair[pr])
      BY <2>3, <2>4
    <3> HIDE DEF me
    <3>2. /\ PaidPair(s.pair[pr], me) \in Pair /\ PaidPair(s.pair[pr], me).stat \in {0, 1, 2}
          /\ PairSound(pr, PaidPair(s.pair[pr], me))
      BY ONLY <2>1, <2>4, <3>1, PaidIsSound
    <3> QED  BY ONLY ZenonT(60), <3>2 DEF me
  <2> HIDE DEF next
  <2>6. next.stat # 4
    BY <2>5
  <2>7. RoomSound(t) /\ NoneBegins(s, t)
    BY ZenonT(60), <2>4, <2>5, <2>6, PairGoesOn
  <2> QED  BY ONLY ZenonT(60), <2>2, <2>7
<1> QED  BY ONLY <1>1, <1>2

\* A player says that he is ready, and after the second one the pair is set up.
LEMMA ReadyKeeps ==
    ASSUME NEW s, RoomSound(s), NEW k \in Keys
    PROVE  RoomSound(SetReadyIn(s, k).s) /\ NoneBegins(s, SetReadyIn(s, k).s)
<1> DEFINE pr == s.pinx[k]
           me == Side(k, pr)
           next == ReadyPair(s.pair[pr], me, Bot(pr))
           t == [s EXCEPT !.pair[pr] = next]
<1>1. CASE SetReadyIn(s, k).s = s
  BY <1>1, SameKeeps
<1>2. CASE SetReadyIn(s, k).s # s
  <2>1. /\ pr # None /\ s.pair[pr] # None /\ s.pair[pr].stat # 3 /\ s.pair[pr].stat # 4
        /\ (Bot(pr) \/ (IF me = "a" THEN s.pair[pr].plda ELSE s.pair[pr].pldb))
    BY ONLY ZenonT(60), <1>2 DEF SetReadyIn
  <2>2. SetReadyIn(s, k).s = t
    BY ONLY ZenonT(60), <1>2 DEF SetReadyIn, ReadyPair
  <2>3. s \in Room /\ \A q \in Keys : PairSound(q, s.pair[q])
    BY DEF RoomSound
  <2>4. pr \in Live(s) /\ pr \in Keys /\ s.pair[pr] \in Pair /\ s.pair[pr].stat \notin {3, 4}
    BY <2>1, <2>3, KeyLeadsToLive DEF Live
  <2>5. me \in {"a", "b"}
    BY DEF Side
  <2> HIDE DEF me
  <2>6. next \in Pair /\ next.stat # 4 /\ PairSound(pr, next)
    BY ZenonT(60), <2>1, <2>3, <2>4, <2>5, ReadyIsSound
  <2> HIDE DEF next
  <2>7. RoomSound(t) /\ NoneBegins(s, t)
    BY ZenonT(60), <2>4, <2>6, PairGoesOn
  <2> QED  BY ONLY ZenonT(60), <2>2, <2>7
<1> QED  BY ONLY <1>1, <1>2

-----------------------------------------------------------------------------
(* The messages of the scripts.                                            *)

\* Every message is one of three kinds and has its players.
LEMMA MessagesAreTyped ==
    /\ \A p \in Players : Dead(p) \in Message
    /\ \A pr \in Keys : AutoDefeat(pr) \in Message /\ Over(pr) \in Message
<1>1. ASSUME NEW pr \in Keys
      PROVE  Of[pr] \in Players /\ Foe[pr] \in Players
  BY GameRoomAssumption
<1>2. ASSUME NEW pr \in Keys
      PROVE  AutoDefeat(pr) \in Message
  BY <1>1 DEF AutoDefeat, Message
<1>3. ASSUME NEW pr \in Keys
      PROVE  Over(pr) \in Message
  BY <1>1 DEF Over, Message
<1>4. \A p \in Players : Dead(p) \in Message
  BY DEF Dead, Message
<1> QED  BY <1>2, <1>3, <1>4

\* What the scripts say are messages.
LEMMA SaidIsTyped ==
    ASSUME NEW s \in Room
    PROVE  /\ \A k \in Keys : /\ AbandonPairGameplay(s, k).out \subseteq Message
                              /\ DoSurrender(s, k).out \subseteq Message
                              /\ ProcessPairIndex(s, k).out \subseteq Message
           /\ \A pr \in Keys : GameOverIn(s, pr).out \subseteq Message
<1>1. ASSUME NEW pr \in Keys
      PROVE  /\ Dead(Of[pr]) \in Message /\ Dead(Foe[pr]) \in Message
             /\ AutoDefeat(pr) \in Message /\ Over(pr) \in Message
  BY MessagesAreTyped, GameRoomAssumption
<1>2. ASSUME NEW pr \in Keys, NEW a \in SUBSET Message, NEW b \in SUBSET Message
      PROVE  EndPair(s, pr, a, b).out \subseteq Message
  BY <1>2 DEF EndPair
<1>3. \A k \in Keys : s.pinx[k] \in Keys \cup {None}
  BY RoomParts
<1>4. ASSUME NEW k \in Keys
      PROVE  AbandonPairGameplay(s, k).out \subseteq Message
  BY <1>1, <1>2, <1>3 DEF AbandonPairGameplay
<1>5. ASSUME NEW k \in Keys
      PROVE  DoSurrender(s, k).out \subseteq Message
  BY ONLY <1>1, <1>3 DEF DoSurrender
<1>6. ASSUME NEW k \in Keys
      PROVE  ProcessPairIndex(s, k).out \subseteq Message
  BY <1>1, <1>3 DEF ProcessPairIndex
<1>7. ASSUME NEW pr \in Keys
      PROVE  GameOverIn(s, pr).out \subseteq Message
  BY <1>1, <1>2 DEF GameOverIn
<1> QED  BY <1>4, <1>5, <1>6, <1>7

\* So is what a refresh says.
LEMMA RefreshSaysMessages ==
    ASSUME NEW s, RoomSound(s), NEW k \in Keys \cup {None}, NEW r \in Refreshed(s, k)
    PROVE  r.out \subseteq Message
<1> DEFINE r1 == IF k = None THEN [s |-> s, out |-> {}] ELSE ProcessPairIndex(s, k)
<1>1. s \in Room /\ r1.out \subseteq Message
  BY SaidIsTyped DEF RoomSound
<1>2. r1.s \in Room
  <2>1. CASE k = None
    BY <1>1, <2>1
  <2>2. CASE k # None
    BY <1>1, <2>2, PairIndexErases DEF Erased
  <2> QED  BY <2>1, <2>2
<1>3. \/ r.out = r1.out
      \/ \E j \in Keys : r = [ProcessPairIndex(r1.s, j) EXCEPT !.out = @ \cup r1.out]
  BY DEF Refreshed
<1> HIDE DEF r1
<1>4. ASSUME NEW j \in Keys
      PROVE  [ProcessPairIndex(r1.s, j) EXCEPT !.out = @ \cup r1.out].out
                 = ProcessPairIndex(r1.s, j).out \cup r1.out
  BY DEF ProcessPairIndex
<1>5. ASSUME NEW j \in Keys
      PROVE  ProcessPairIndex(r1.s, j).out \cup r1.out \subseteq Message
  BY <1>1, <1>2, SaidIsTyped
<1> QED  BY <1>1, <1>3, <1>4, <1>5

-----------------------------------------------------------------------------
(* The inductive invariant.                                                *)

\* The end handlers under way, and the ends that a pair still owes: the handled
\* ones, the one of a battle that is played, the one that is offered to the
\* processes, and those whose handler is about to run.
Closers(pr) == {c \in closing : c[2] = pr}
Owed(pr) ==
    ends[pr] + (IF Playing(room, pr) THEN 1 ELSE 0)
             + (IF pr \in room.quota THEN 1 ELSE 0) + Cardinality(Closers(pr))

EndsSound == IsFiniteSet(closing) /\ \A pr \in Keys : Owed(pr) <= starts[pr]

RestTypes ==
    /\ entry \in [Players -> Keys \cup {None}]
    /\ booked \subseteq Battles
    /\ req \in [Keys -> Stages]
    /\ asks \in 0 .. MaxAsks
    /\ mail \in [Procs -> SUBSET Message]
    /\ closing \subseteq Procs \X Keys
    /\ starts \in [Keys -> Nat] /\ ends \in [Keys -> Nat]

RoomInv == RoomSound(room) /\ RestTypes /\ EndsSound

\* The handlers under way can be counted.
LEMMA ClosersAreFinite ==
    ASSUME EndsSound, NEW pr
    PROVE  IsFiniteSet(Closers(pr)) /\ Cardinality(Closers(pr)) \in Nat
<1>1. Closers(pr) \subseteq closing /\ IsFiniteSet(closing)
  BY DEF Closers, EndsSound
<1> QED  BY <1>1, FS_Subset, FS_CardinalityType

\* Where no battle begins and no handler runs, no more ends are owed.
LEMMA QuietKeeps ==
    ASSUME RoomInv, RoomSound(room'), NoneBegins(room, room'), RestTypes',
           UNCHANGED <<closing, starts, ends>>
    PROVE  RoomInv'
<1>1. ASSUME NEW pr \in Keys
      PROVE  Owed(pr)' <= starts'[pr]
  <2>1. Closers(pr)' = Closers(pr)
    BY DEF Closers
  <2>2. /\ Owed(pr) <= starts[pr] /\ ends[pr] \in Nat /\ starts[pr] \in Nat
        /\ Cardinality(Closers(pr)) \in Nat
    BY ClosersAreFinite DEF RoomInv, EndsSound, RestTypes
  <2>3. Playing(room, pr)' => Playing(room, pr)
    BY DEF NoneBegins, Playing
  <2>4. pr \in room'.quota => pr \in room.quota \/ (Playing(room, pr) /\ ~Playing(room, pr)')
    BY DEF NoneBegins, Redeems, Playing
  <2> DEFINE n == Cardinality(Closers(pr))
  <2>5. /\ Owed(pr) = ends[pr] + (IF Playing(room, pr) THEN 1 ELSE 0)
                              + (IF pr \in room.quota THEN 1 ELSE 0) + n
        /\ Owed(pr)' = ends[pr] + (IF Playing(room, pr)' THEN 1 ELSE 0)
                              + (IF pr \in room'.quota THEN 1 ELSE 0) + n
        /\ starts'[pr] = starts[pr]
    BY <2>1 DEF Owed
  <2> HIDE DEF n
  <2>6. n \in Nat
    BY <2>2 DEF n
  <2> QED  BY <2>2, <2>3, <2>4, <2>5, <2>6
<1> QED  BY <1>1 DEF RoomInv, EndsSound

\* A request goes on, and says messages or nothing.
LEMMA RestKept ==
    ASSUME RestTypes, entry' = entry, booked' = booked,
           NEW k \in Keys, NEW stage \in Stages, req' = req \/ Become(k, stage),
           asks' \in 0 .. MaxAsks, NEW out \in SUBSET Message, mail' = mail \/ Publish(out),
           UNCHANGED <<closing, starts, ends>>
    PROVE  RestTypes'
<1>1. req' \in [Keys -> Stages]
  BY DEF RestTypes, Become
<1>2. mail' \in [Procs -> SUBSET Message]
  BY DEF RestTypes, Publish
<1> QED  BY <1>1, <1>2 DEF RestTypes

-----------------------------------------------------------------------------
(* The steps.                                                              *)

\* The room is empty at first.
LEMMA InitIsSound == Init => RoomInv
<1> SUFFICES ASSUME Init PROVE RoomInv
  OBVIOUS
<1>1. /\ room \in Room /\ Live(room) = {} /\ room.occupation = Capacity /\ room.quota = {}
      /\ \A k \in Keys : room.pair[k] = None /\ room.pinx[k] = None
      /\ \A p \in Players : room.pgoto[p] = None
  BY GameRoomAssumption DEF Init, Room, Live
<1>2. PlacesSound(room)
  BY <1>1, FS_EmptySet, GameRoomAssumption DEF PlacesSound
<1>3. RoomSound(room)
  BY <1>1, <1>2 DEF RoomSound, PairSound, KeySound, GotoSound
<1>4. RestTypes
  BY GameRoomAssumption DEF Init, RestTypes, Stages
<1>5. ASSUME NEW pr \in Keys
      PROVE  Owed(pr) <= starts[pr]
  <2>1. Closers(pr) = {}
    BY DEF Init, Closers
  <2>2. Cardinality(Closers(pr)) = 0
    BY <2>1, FS_EmptySet
  <2>3. ~Playing(room, pr) /\ ends[pr] = 0 /\ starts[pr] = 0
    BY <1>1 DEF Playing, Init
  <2> QED  BY <1>1, <2>2, <2>3 DEF Owed
<1>6. EndsSound
  BY <1>5, FS_EmptySet DEF EndsSound, Init
<1> QED  BY <1>3, <1>4, <1>6 DEF RoomInv

\* A request is made, forgotten or goes on without the room; or the entries change.
LEMMA OutsideKeeps ==
    ASSUME RoomInv, UNCHANGED <<room, closing, starts, ends>>, RestTypes'
    PROVE  RoomInv'
  BY QuietKeeps, SameKeeps DEF RoomInv

\* Requests that only ask.
LEMMA AskingKeeps ==
    ASSUME RoomInv, NEW k \in Keys,
           \/ ReleaseBooking(k) \/ AskPayload(k) \/ AskReady(k)
           \/ UpdatePlayerInGameroom(k) \/ OpError(k)
    PROVE  RoomInv'
<1>1. /\ UNCHANGED <<room, entry, booked, mail, closing, starts, ends>>
      /\ asks' = asks \/ (asks' = asks + 1 /\ asks < MaxAsks)
  BY DEF ReleaseBooking, AskPayload, AskReady, UpdatePlayerInGameroom, OpError, Asked
<1>2. asks' \in 0 .. MaxAsks
  BY <1>1, GameRoomAssumption DEF RoomInv, RestTypes
<1>3. PICK stage \in Stages : Become(k, stage)
  BY DEF ReleaseBooking, AskPayload, AskReady, UpdatePlayerInGameroom, OpError, Stages
<1>4. RestTypes'
  BY <1>1, <1>2, <1>3, RestKept DEF RoomInv
<1> QED  BY <1>1, <1>4, OutsideKeeps

\* Requests that run one script of the room.
LEMMA RequestKeeps ==
    ASSUME RoomInv, NEW k \in Keys,
           \/ RefreshForRelease(k) \/ RefreshForPayload(k) \/ RefreshForReady(k)
           \/ PlaceInRoom(k) \/ DoSetPayload(k) \/ DoSetReady(k) \/ AbandonPair(k)
    PROVE  RoomInv'
<1>1. RoomSound(room) /\ RestTypes /\ asks \in 0 .. MaxAsks /\ room \in Room
  BY DEF RoomInv, RestTypes, RoomSound
<1>2. UNCHANGED <<entry, booked, asks, closing, starts, ends>>
  BY DEF RefreshForRelease, RefreshForPayload, RefreshForReady, DoRefreshStats, PlaceInRoom,
         DoSetPayload, DoSetReady, AbandonPair
<1>3. ASSUME NEW stage, NEW next \in Stages, DoRefreshStats(k, stage, next)
      PROVE  RoomInv'
  <2>1. PICK r \in Refreshed(room, k) : room' = r.s /\ Publish(r.out)
    BY <1>3 DEF DoRefreshStats
  <2>2. RoomSound(room') /\ NoneBegins(room, room') /\ r.out \subseteq Message
    BY <1>1, <2>1, RefreshKeeps, RefreshSaysMessages
  <2>3. RestTypes'
    BY <1>1, <1>2, <1>3, <2>1, <2>2, RestKept DEF DoRefreshStats
  <2> QED  BY <1>2, <2>2, <2>3, QuietKeeps
<1>4. CASE RefreshForRelease(k) \/ RefreshForPayload(k) \/ RefreshForReady(k)
  BY <1>3, <1>4 DEF RefreshForRelease, RefreshForPayload, RefreshForReady, Stages
<1>5. CASE PlaceInRoom(k)
  <2>1. RoomSound(room') /\ NoneBegins(room, room')
    BY <1>1, <1>5, PlacingKeeps DEF PlaceInRoom
  <2>2. RestTypes'
    BY <1>1, <1>2, <1>5, RestKept DEF PlaceInRoom, Stages
  <2> QED  BY <1>2, <2>1, <2>2, QuietKeeps
<1>6. CASE DoSetPayload(k)
  <2>1. RoomSound(room') /\ NoneBegins(room, room')
    BY <1>1, <1>6, PayloadKeeps DEF DoSetPayload
  <2>2. RestTypes'
    BY <1>1, <1>2, <1>6, RestKept DEF DoSetPayload, Stages
  <2> QED  BY <1>2, <2>1, <2>2, QuietKeeps
<1>7. CASE DoSetReady(k)
  <2>1. RoomSound(room') /\ NoneBegins(room, room')
    BY <1>1, <1>7, ReadyKeeps DEF DoSetReady
  <2>2. SetReadyIn(room, k).then \in Stages
    BY DEF SetReadyIn, Stages
  <2>3. RestTypes'
    BY <1>1, <1>2, <1>7, <2>2, RestKept DEF DoSetReady
  <2> QED  BY <1>2, <2>1, <2>3, QuietKeeps
<1>8. CASE AbandonPair(k)
  <2>1. RoomSound(room') /\ NoneBegins(room, room')
    BY <1>1, <1>8, AbandonErases, ErasedKeepsSound, ErasedBeginsNone DEF AbandonPair
  <2>2. AbandonPairGameplay(room, k).out \subseteq Message
    BY <1>1, SaidIsTyped
  <2>3. RestTypes'
    BY <1>1, <1>2, <1>8, <2>2, RestKept DEF AbandonPair, Stages
  <2> QED  BY <1>2, <2>1, <2>3, QuietKeeps
<1> QED  BY <1>4, <1>5, <1>6, <1>7, <1>8

\* A model is made and the battle begins: the pair may owe one more end.
LEMMA ModelKeeps ==
    ASSUME RoomInv, NEW k \in Keys, DoInitGameplayModel(k)
    PROVE  RoomInv'
<1> DEFINE pr == room.pinx[k]
           next == [room.pair[pr] EXCEPT !.stat = 4]
<1>1. RoomSound(room) /\ RestTypes /\ asks \in 0 .. MaxAsks /\ room \in Room
  BY DEF RoomInv, RestTypes, RoomSound
<1>2. UNCHANGED <<entry, booked, asks, mail, closing, ends>>
      /\ (Become(k, "idle") \/ Become(k, "abandon"))
  BY DEF DoInitGameplayModel
<1>3. CASE UNCHANGED <<room, starts>>
  <2>1. RestTypes'
    BY <1>1, <1>2, <1>3, RestKept DEF Stages
  <2> QED  BY <1>2, <1>3, <2>1, OutsideKeeps
<1>4. CASE /\ CanStart(room, k)
           /\ room' = [room EXCEPT !.pair[room.pinx[k]].stat = 4]
           /\ starts' = [starts EXCEPT ![room.pinx[k]] = @ + 1]
  <2>1. pr \in Live(room) /\ pr \in Keys /\ room.pair[pr] \in Pair /\ room.pair[pr].stat = 3
    BY ONLY SMTT(60), <1>1, <1>4, KeyLeadsToLive DEF CanStart, Live
  <2>2. next \in Pair /\ PairSound(pr, next)
    <3> DEFINE old == room.pair[pr]
    <3>1. PairSound(pr, old) /\ old # None /\ old.stat = 3 /\ 4 \in 0 .. 4
      BY <1>1, <2>1 DEF RoomSound, Live
    <3>2. /\ next \in Pair /\ next.stat = 4 /\ next.plda = old.plda /\ next.pldb = old.pldb
          /\ next.rdya = old.rdya /\ next.rdyb = old.rdyb /\ next.said = old.said
      BY ONLY ZenonT(60), <2>1, <3>1, PairStat
    <3> HIDE DEF next, old
    <3> QED  BY ONLY <3>1, <3>2 DEF PairSound
  <2>3. room' = [room EXCEPT !.pair[pr] = next]
    BY <1>4
  <2> HIDE DEF next
  <2>4. /\ RoomSound(room') /\ room'.quota = room.quota
        /\ \A q \in Keys : q # pr => room'.pair[q] = room.pair[q]
    <3>1. RoomSound(room)
      BY <1>1
    <3> HIDE DEF pr
    <3> QED  BY ONLY <3>1, <2>1, <2>2, <2>3, PairGoesOn
  <2>5. starts' \in [Keys -> Nat] /\ ends \in [Keys -> Nat]
    BY <1>1, <1>4, <2>1 DEF RestTypes
  <2>6. req' \in [Keys -> Stages]
    BY <1>1, <1>2 DEF RestTypes, Become, Stages
  <2>7. RestTypes'
    BY <1>1, <1>2, <2>5, <2>6 DEF RestTypes
  <2>8. ASSUME NEW q \in Keys
        PROVE  Owed(q)' <= starts'[q]
    <3>1. Closers(q)' = Closers(q)
      BY <1>2 DEF Closers
    <3> DEFINE n == Cardinality(Closers(q))
    <3>2. n \in Nat /\ Owed(q) <= starts[q] /\ ends[q] \in Nat /\ starts[q] \in Nat
      BY <1>1, ClosersAreFinite DEF RoomInv, EndsSound, RestTypes
    <3>3. /\ Owed(q) = ends[q] + (IF Playing(room, q) THEN 1 ELSE 0)
                             + (IF q \in room.quota THEN 1 ELSE 0) + n
          /\ Owed(q)' = ends[q] + (IF Playing(room, q)' THEN 1 ELSE 0)
                             + (IF q \in room.quota THEN 1 ELSE 0) + n
      BY <1>2, <2>4, <3>1 DEF Owed
    <3> HIDE DEF n
    <3>4. CASE q = pr
      <4>1. ~Playing(room, q)
        BY <2>1, <3>4 DEF Playing
      <4>2. starts'[q] = starts[q] + 1
        BY <1>1, <1>4, <3>4 DEF RestTypes
      <4> QED  BY <3>2, <3>3, <4>1, <4>2
    <3>5. CASE q # pr
      <4>1. Playing(room, q)' <=> Playing(room, q)
        BY <2>4, <3>5 DEF Playing
      <4>2. starts'[q] = starts[q]
        BY <1>1, <1>4, <3>5 DEF RestTypes
      <4> QED  BY <3>2, <3>3, <4>1, <4>2
    <3> QED  BY <3>4, <3>5
  <2> QED  BY <1>2, <2>4, <2>7, <2>8 DEF RoomInv, EndsSound
<1> QED  BY <1>3, <1>4 DEF DoInitGameplayModel

\* A surrender, the heartbeat, silence and an offer that expires.
LEMMA RoomAloneKeeps ==
    ASSUME RoomInv,
           \/ \E k \in Keys : Surrender(k) \/ QuotaExpires(k) \/ Silence(k)
           \/ TheHeartbeat
    PROVE  RoomInv'
<1>1. /\ RoomSound(room) /\ RestTypes /\ room \in Room
      /\ room.pair \in [Keys -> Pair \cup {None}]
  BY RoomParts DEF RoomInv, RoomSound
<1>2. UNCHANGED <<entry, booked, req, asks, closing, starts, ends>>
  BY DEF Surrender, QuotaExpires, Silence, TheHeartbeat
<1>3. ASSUME NEW out \in SUBSET Message, mail' = mail \/ Publish(out)
      PROVE  RestTypes'
  BY <1>1, <1>2, <1>3 DEF RestTypes, Publish
<1>4. CASE TheHeartbeat
  <2>1. PICK r \in Refreshed(room, None) : room' = r.s /\ Publish(r.out)
    BY <1>4 DEF TheHeartbeat
  <2>2. RoomSound(room') /\ NoneBegins(room, room') /\ r.out \subseteq Message
    BY <1>1, <2>1, RefreshKeeps, RefreshSaysMessages
  <2> QED  BY <1>2, <1>3, <2>1, <2>2, QuietKeeps
<1>5. ASSUME NEW k \in Keys, Surrender(k)
      PROVE  RoomInv'
  <2>1. RoomSound(room') /\ NoneBegins(room, room')
    BY <1>1, <1>5, SurrenderErases, ErasedKeepsSound, ErasedBeginsNone DEF Surrender
  <2>2. DoSurrender(room, k).out \subseteq Message /\ Publish(DoSurrender(room, k).out)
    BY <1>1, <1>5, SaidIsTyped DEF Surrender
  <2> QED  BY <1>2, <1>3, <2>1, <2>2, QuietKeeps
<1>6. ASSUME NEW pr \in Keys, QuotaExpires(pr)
      PROVE  RoomInv'
  <2> DEFINE quota == room.quota \ {pr}
  <2>1. room' = [room EXCEPT !.quota = quota] /\ mail' = mail /\ quota \subseteq Keys
    BY <1>1, <1>6, RoomParts DEF QuotaExpires
  <2>2. quota \subseteq room.quota
    OBVIOUS
  <2> HIDE DEF quota
  <2>3. /\ room' \in Room /\ room'.pair = room.pair /\ room'.pinx = room.pinx
        /\ room'.pgoto = room.pgoto /\ room'.occupation = room.occupation /\ room'.quota = quota
    BY <1>1, <2>1 DEF Room
  <2>4. Erased(room, room')
    BY <2>2, <2>3 DEF Erased, Redeems, Counts
  <2> QED  BY <1>1, <1>2, <1>3, <2>1, <2>4, ErasedKeepsSound, ErasedBeginsNone, QuietKeeps
<1>7. ASSUME NEW pr \in Keys, Silence(pr)
      PROVE  RoomInv'
  <2>1. PICK o \in {"idle", "long"} : room' = [room EXCEPT !.pair[pr].old = o]
    BY <1>7 DEF Silence
  <2> DEFINE next == [room.pair[pr] EXCEPT !.old = o]
  <2>2. pr \in Live(room) /\ room.pair[pr] \in Pair /\ mail' = mail
    BY <1>1, <1>7 DEF Silence, Live
  <2>3. next \in Pair /\ PairSound(pr, next) /\ next.stat = room.pair[pr].stat
    <3>1. o \in {"fresh", "idle", "long"} /\ next = [room.pair[pr] EXCEPT !.old = o]
      OBVIOUS
    <3>2. room.pair[pr] # None /\ PairSound(pr, room.pair[pr])
      BY <1>1, <2>2 DEF RoomSound, Live
    <3> HIDE DEF next
    <3>3. /\ next \in Pair /\ next.stat = room.pair[pr].stat
          /\ next.plda = room.pair[pr].plda /\ next.pldb = room.pair[pr].pldb
          /\ next.rdya = room.pair[pr].rdya /\ next.rdyb = room.pair[pr].rdyb
          /\ next.said = room.pair[pr].said
      BY ONLY ZenonT(60), <2>2, <3>1, PairOld
    <3>4. PairSound(pr, next)
      BY ONLY <3>2, <3>3 DEF PairSound
    <3> QED  BY ONLY <3>3, <3>4
  <2>4. room' = [room EXCEPT !.pair[pr] = next]
    BY <2>1
  <2> HIDE DEF next
  <2>5. RoomSound(room') /\ NoneBegins(room, room')
    BY <1>1, <2>2, <2>3, <2>4, PairGoesOn
  <2> QED  BY <1>2, <1>3, <2>2, <2>5, QuietKeeps
<1> QED  BY <1>4, <1>5, <1>6, <1>7

\* The end of a game is handled by its caller: what the pair owed is paid.
LEMMA GameOverKeeps ==
    ASSUME RoomInv, NEW pr \in Keys, GameOver(pr)
    PROVE  RoomInv'
<1> DEFINE out == GameOverIn(room, pr).out
<1>1. /\ RoomSound(room) /\ RestTypes /\ room \in Room
      /\ pr \in Live(room) /\ Playing(room, pr)
  BY DEF RoomInv, RoomSound, GameOver, Live, Playing
<1>2. /\ UNCHANGED <<entry, booked, req, asks, closing, starts>>
      /\ room' = GameOverIn(room, pr).s /\ Publish(out)
      /\ ends' = IF out = {} THEN ends ELSE [ends EXCEPT ![pr] = @ + 1]
  BY DEF GameOver
<1>3. out \subseteq Message
  BY <1>1, SaidIsTyped
<1>4. /\ Erased(room, room') /\ room'.quota = room.quota
      /\ out # {} => room'.pair[pr] = None
  <2>1. GameOverIn(room, pr) = EndPair(room, pr, {}, {Over(pr)})
    BY DEF GameOverIn
  <2> DEFINE also == {Over(pr)}
             e == EndPair(room, pr, {}, also)
  <2>2. /\ Erased(room, e.s) /\ e.s.quota = room.quota
        /\ (e.out # {} => e.s.pair[pr] = None)
    <3>1. room \in Room /\ pr \in Live(room)
      BY <1>1
    <3> HIDE DEF also
    <3> QED  BY ONLY <3>1, EndErases
  <2> HIDE DEF e
  <2>3. room' = e.s /\ out = e.out
    BY <1>2, <2>1 DEF e
  <2> HIDE DEF out
  <2> QED  BY <2>2, <2>3
<1>5. RoomSound(room') /\ NoneBegins(room, room')
  BY <1>1, <1>4, ErasedKeepsSound, ErasedBeginsNone
<1> HIDE DEF out
<1>6. RestTypes'
  BY <1>1, <1>2, <1>3 DEF RestTypes, Publish
<1>7. CASE out = {}
  BY <1>2, <1>5, <1>6, <1>7, QuietKeeps
<1>8. CASE out # {}
  <2>1. ASSUME NEW q \in Keys
        PROVE  Owed(q)' <= starts'[q]
    <3>1. Closers(q)' = Closers(q)
      BY <1>2 DEF Closers
    <3> DEFINE n == Cardinality(Closers(q))
    <3>2. n \in Nat /\ Owed(q) <= starts[q] /\ ends[q] \in Nat /\ starts[q] \in Nat
      BY <1>1, ClosersAreFinite DEF RoomInv, EndsSound, RestTypes
    <3>3. /\ Owed(q) = ends[q] + (IF Playing(room, q) THEN 1 ELSE 0)
                             + (IF q \in room.quota THEN 1 ELSE 0) + n
          /\ Owed(q)' = ends'[q] + (IF Playing(room, q)' THEN 1 ELSE 0)
                             + (IF q \in room.quota THEN 1 ELSE 0) + n
          /\ starts'[q] = starts[q]
      BY <1>2, <1>4, <3>1 DEF Owed
    <3> HIDE DEF n
    <3>4. /\ Playing(room, q)' => Playing(room, q)
          /\ q = pr => ~Playing(room, q)'
      BY <1>4, <1>5, <1>8 DEF NoneBegins, Playing
    <3>5. ends'[q] = IF q = pr THEN ends[q] + 1 ELSE ends[q]
      BY <1>1, <1>2, <1>8 DEF RestTypes
    <3> QED  BY <1>1, <3>2, <3>3, <3>4, <3>5
  <2> QED  BY <1>2, <1>5, <1>6, <2>1 DEF RoomInv, EndsSound
<1> QED  BY <1>7, <1>8

\* A process handles the message of a pair that ended, or an entry changes.
LEMMA EntriesKeep ==
    ASSUME RoomInv,
           \/ \E w \in Procs : HandleEnd(w)
           \/ \E b \in Battles : Book(b)
           \/ \E p \in Players : Forget(p)
    PROVE  RoomInv'
<1>1. RestTypes /\ Of \in [Keys -> Players]
  BY GameRoomAssumption DEF RoomInv
<1>2. UNCHANGED <<room, req, closing, starts, ends>>
  BY DEF HandleEnd, Book, Forget
<1>3. ASSUME NEW w \in Procs, HandleEnd(w)
      PROVE  RestTypes'
  BY <1>1, <1>3 DEF HandleEnd, Handled, RemoveQplrAndGmrb, RestTypes
<1>4. ASSUME NEW b \in Battles, Book(b)
      PROVE  RestTypes'
  <2>1. asks' \in 0 .. MaxAsks
    BY <1>1, <1>4, GameRoomAssumption DEF RestTypes, Book
  <2>2. booked' \subseteq Battles /\ mail' = mail
    BY <1>1, <1>4 DEF RestTypes, Book
  <2>3. ASSUME NEW p \in Players, \E k \in b : Of[k] = p
        PROVE  (CHOOSE k \in b : Of[k] = p) \in Keys
    BY <2>3, GameRoomAssumption
  <2>4. entry' \in [Players -> Keys \cup {None}]
    BY <1>1, <1>4, <2>3 DEF RestTypes, Book
  <2> QED  BY <1>1, <1>2, <2>1, <2>2, <2>4 DEF RestTypes
<1>5. ASSUME NEW p \in Players, Forget(p)
      PROVE  RestTypes'
  BY <1>1, <1>5 DEF Forget, RestTypes
<1> QED  BY <1>2, <1>3, <1>4, <1>5, OutsideKeeps

\* A process that takes the offer of an end is about to handle it: the offer is gone.
LEMMA TakingKeeps ==
    ASSUME RoomInv, NEW w \in Procs, WriteAutoDefeat(w)
    PROVE  RoomInv'
<1>1. RoomSound(room) /\ RestTypes /\ room \in Room /\ room.quota \subseteq Keys
  BY RoomParts DEF RoomInv, RoomSound
<1>2. PICK m \in mail[w] :
          /\ Handled(w, m)
          /\ closing' = IF m.pr \in room.quota THEN closing \cup {<<w, m.pr>>} ELSE closing
          /\ room' = [room EXCEPT !.quota = @ \ {m.pr}]
          /\ UNCHANGED <<entry, booked, req, asks, starts, ends>>
  BY DEF WriteAutoDefeat
<1> DEFINE pr == m.pr
           quota == room.quota \ {pr}
<1>3. /\ room' \in Room /\ room'.pair = room.pair /\ room'.pinx = room.pinx
      /\ room'.pgoto = room.pgoto /\ room'.occupation = room.occupation /\ room'.quota = quota
  <2>1. room' = [room EXCEPT !.quota = quota] /\ quota \subseteq Keys
    BY <1>1, <1>2
  <2> HIDE DEF quota
  <2> QED  BY <1>1, <2>1 DEF Room
<1>4. RoomSound(room')
  <2>1. Erased(room, room')
    BY <1>3 DEF Erased, Redeems, Counts
  <2> QED  BY <1>1, <2>1, ErasedKeepsSound
<1> HIDE DEF pr
<1>5. closing' = IF pr \in room.quota THEN closing \cup {<<w, pr>>} ELSE closing
  BY <1>2 DEF pr
<1>6. RestTypes'
  <2>1. closing' \subseteq Procs \X Keys
    BY <1>1, <1>5 DEF RestTypes
  <2>2. mail' \in [Procs -> SUBSET Message]
    BY <1>1, <1>2 DEF RestTypes, Handled
  <2> QED  BY <1>1, <1>2, <2>1, <2>2 DEF RestTypes
<1>7. IsFiniteSet(closing')
  BY <1>5, FS_AddElement DEF RoomInv, EndsSound
<1>8. ASSUME NEW q \in Keys
      PROVE  Owed(q)' <= starts'[q]
  <2> DEFINE n == Cardinality(Closers(q))
             n1 == Cardinality(Closers(q)')
  <2>1. n \in Nat /\ Owed(q) <= starts[q] /\ ends[q] \in Nat /\ starts[q] \in Nat
        /\ IsFiniteSet(Closers(q))
    BY <1>1, ClosersAreFinite DEF RoomInv, EndsSound, RestTypes
  <2>2. /\ Owed(q) = ends[q] + (IF Playing(room, q) THEN 1 ELSE 0)
                           + (IF q \in room.quota THEN 1 ELSE 0) + n
        /\ Owed(q)' = ends[q] + (IF Playing(room, q)' THEN 1 ELSE 0)
                           + (IF q \in room'.quota THEN 1 ELSE 0) + n1
        /\ (Playing(room, q)' <=> Playing(room, q))
        /\ starts'[q] = starts[q]
    BY <1>2, <1>3 DEF Owed, Playing
  <2>3. CASE q = pr /\ q \in room.quota
    <3>1. Closers(q)' = Closers(q) \cup {<<w, q>>}
      BY <1>5, <2>3 DEF Closers
    <3> DEFINE cs == Closers(q)
    <3>2. Cardinality(cs \cup {<<w, q>>}) \in {n, n + 1}
      <4> HIDE DEF cs
      <4> QED  BY <2>1, FS_AddElement DEF cs
    <3>3. q \notin room'.quota
      BY <1>3, <2>3
    <3>4. n1 \in {n, n + 1}
      BY <3>1, <3>2
    <3> HIDE DEF n, n1
    <3> QED  BY <2>1, <2>2, <2>3, <3>3, <3>4
  <2>4. CASE ~(q = pr /\ q \in room.quota)
    <3>1. Closers(q)' = Closers(q)
      BY <1>5, <2>4 DEF Closers
    <3>2. n1 = n
      BY <3>1
    <3>3. q \in room'.quota => q \in room.quota
      BY <1>3
    <3> HIDE DEF n, n1
    <3> QED  BY <2>1, <2>2, <3>2, <3>3
  <2> QED  BY <2>3, <2>4
<1> QED  BY <1>4, <1>6, <1>7, <1>8 DEF RoomInv, EndsSound

\* The handler of an end has run, or failed: it is under way no more.
LEMMA ClosingKeeps ==
    ASSUME RoomInv, NEW w \in Procs, GenerateFinalMessages(w)
    PROVE  RoomInv'
<1>1. /\ RoomSound(room) /\ RestTypes /\ closing \subseteq Procs \X Keys
      /\ ends \in [Keys -> Nat]
  BY DEF RoomInv, RestTypes
<1>2. PICK pr \in {c[2] : c \in {d \in closing : d[1] = w}} :
          /\ closing' = closing \ {<<w, pr>>}
          /\ \/ /\ ends' = [ends EXCEPT ![pr] = @ + 1]
                /\ RemoveQplrAndGmrb({Of[pr], Foe[pr]})
             \/ UNCHANGED <<ends, entry>>
          /\ UNCHANGED <<room, booked, req, asks, mail, starts>>
  BY DEF GenerateFinalMessages
<1>3. pr \in Keys /\ <<w, pr>> \in closing
  BY <1>1
<1>4. RestTypes'
  <2>1. entry' \in [Players -> Keys \cup {None}]
    BY <1>1, <1>2 DEF RestTypes, RemoveQplrAndGmrb
  <2>2. ends' \in [Keys -> Nat] /\ closing' \subseteq Procs \X Keys
    BY <1>1, <1>2, <1>3
  <2> QED  BY <1>1, <1>2, <2>1, <2>2 DEF RestTypes
<1>5. IsFiniteSet(closing')
  BY <1>2, FS_Subset DEF RoomInv, EndsSound
<1>6. ASSUME NEW q \in Keys
      PROVE  Owed(q)' <= starts'[q]
  <2> DEFINE n == Cardinality(Closers(q))
             n1 == Cardinality(Closers(q)')
  <2>1. n \in Nat /\ Owed(q) <= starts[q] /\ ends[q] \in Nat /\ starts[q] \in Nat
        /\ IsFiniteSet(Closers(q))
    BY <1>1, ClosersAreFinite DEF RoomInv, EndsSound, RestTypes
  <2>2. /\ Owed(q) = ends[q] + (IF Playing(room, q) THEN 1 ELSE 0)
                           + (IF q \in room.quota THEN 1 ELSE 0) + n
        /\ Owed(q)' = ends'[q] + (IF Playing(room, q) THEN 1 ELSE 0)
                           + (IF q \in room.quota THEN 1 ELSE 0) + n1
        /\ starts'[q] = starts[q]
    BY <1>2 DEF Owed, Playing
  <2>3. CASE q = pr
    <3>1. Closers(q)' = Closers(q) \ {<<w, q>>} /\ <<w, q>> \in Closers(q)
      BY <1>2, <1>3, <2>3 DEF Closers
    <3>2. n1 = n - 1
      <4> DEFINE mine == Closers(q)
                 c == <<w, q>>
      <4>1. IsFiniteSet(mine) /\ c \in mine /\ Closers(q)' = mine \ {c}
        BY <2>1, <3>1
      <4> HIDE DEF mine, c
      <4>2. Cardinality(mine \ {c}) = Cardinality(mine) - 1
        BY <4>1, FS_RemoveElement
      <4> QED  BY <4>1, <4>2 DEF mine
    <3>3. ends'[q] \in {ends[q], ends[q] + 1}
      BY <1>1, <1>2, <2>3
    <3> HIDE DEF n, n1
    <3> QED  BY <2>1, <2>2, <3>2, <3>3
  <2>4. CASE q # pr
    <3>1. Closers(q)' = Closers(q)
      BY <1>2, <2>4 DEF Closers
    <3>2. n1 = n /\ ends'[q] = ends[q]
      BY <1>1, <1>2, <2>4, <3>1
    <3> HIDE DEF n, n1
    <3> QED  BY <2>1, <2>2, <3>2
  <2> QED  BY <2>3, <2>4
<1> QED  BY <1>1, <1>2, <1>4, <1>5, <1>6 DEF RoomInv, EndsSound

\* Every step keeps the invariant.
LEMMA StepKeeps == RoomInv /\ [Next]_roomVars => RoomInv'
<1> SUFFICES ASSUME RoomInv, [Next]_roomVars PROVE RoomInv'
  OBVIOUS
<1>1. ASSUME NEW k \in Keys, ReleaseBooking(k) \/ AskPayload(k) \/ AskReady(k) \/ OpError(k)
      PROVE  RoomInv'
  BY <1>1, AskingKeeps
<1>2. ASSUME NEW k \in Keys, Step(k)
      PROVE  RoomInv'
  BY <1>2, AskingKeeps, RequestKeeps, ModelKeeps DEF Step
<1>3. ASSUME NEW k \in Keys, Surrender(k) \/ GameOver(k) \/ QuotaExpires(k) \/ Silence(k)
      PROVE  RoomInv'
  BY <1>3, RoomAloneKeeps, GameOverKeeps
<1>4. ASSUME NEW w \in Procs, HandleEnd(w) \/ WriteAutoDefeat(w) \/ GenerateFinalMessages(w)
      PROVE  RoomInv'
  BY <1>4, EntriesKeep, TakingKeeps, ClosingKeeps
<1>5. CASE UNCHANGED roomVars
  <2>1. UNCHANGED <<room, closing, starts, ends>> /\ RestTypes'
    BY <1>5 DEF roomVars, RoomInv, RestTypes
  <2> QED  BY <2>1, OutsideKeeps
<1> QED  BY <1>1, <1>2, <1>3, <1>4, <1>5, RoomAloneKeeps, EntriesKeep DEF Next

\* The invariant holds of every state.
THEOREM RoomIsSound == Spec => []RoomInv
<1>1. Init => RoomInv
  BY InitIsSound
<1> QED  BY <1>1, StepKeeps, PTL DEF Spec

-----------------------------------------------------------------------------
(* What it says.                                                           *)

\* The room's Redis, the entries, the requests, the messages and the ghosts are of
\* their types in every state, whatever scripts stop half-way.
THEOREM RoomTyping == Spec => []RoomTypeOK
<1>1. RoomInv => RoomTypeOK
  BY DEF RoomInv, RoomSound, RestTypes, RoomTypeOK
<1> QED  BY <1>1, RoomIsSound, PTL

\* A pair of two players gets past its second stage only with the payloads of both
\* and after both have said that they are ready.
THEOREM BattleIsStartedByBoth == Spec => []StartedByBoth
<1>1. RoomInv => StartedByBoth
  BY DEF RoomInv, RoomSound, StartedByBoth, PairSound, Live
<1> QED  BY <1>1, RoomIsSound, PTL

\* No battle is handed to two end handlers, by whatever mix of moves, surrenders,
\* timeouts and processes that hear of its end.
THEOREM BattleHasOneEnd == Spec => []OneEndPerBattle
<1>1. ASSUME RoomInv, NEW pr \in Keys
      PROVE  ends[pr] <= starts[pr]
  <2>1. /\ Owed(pr) <= starts[pr] /\ ends[pr] \in Nat /\ starts[pr] \in Nat
        /\ Cardinality(Closers(pr)) \in Nat
    BY <1>1, ClosersAreFinite DEF RoomInv, EndsSound, RestTypes
  <2> DEFINE n == Cardinality(Closers(pr))
  <2>2. Owed(pr) = ends[pr] + (IF Playing(room, pr) THEN 1 ELSE 0)
                          + (IF pr \in room.quota THEN 1 ELSE 0) + n
    BY DEF Owed
  <2>3. n \in Nat
    BY <2>1
  <2> HIDE DEF n
  <2> QED  BY <2>1, <2>2, <2>3
<1>2. RoomInv => OneEndPerBattle
  BY <1>1 DEF OneEndPerBattle
<1> QED  BY <1>2, RoomIsSound, PTL

\* The free places that matchmaking is told of are never more than there are.
THEOREM RoomIsNeverOverbooked == Spec => []NeverOverbooked
<1>1. RoomInv => NeverOverbooked
  BY DEF RoomInv, RoomSound, PlacesSound, NeverOverbooked
<1> QED  BY <1>1, RoomIsSound, PTL

\* A key leads its player to nobody's battle but his own, whatever the scripts
\* leave of the indexes of pairs that are gone.
THEOREM KeyLeadsHome == Spec => []KeyLeadsToItsBattle
<1>1. RoomInv => KeyLeadsToItsBattle
  BY DEF RoomInv, RoomSound, KeySound, KeyLeadsToItsBattle
<1> QED  BY <1>1, RoomIsSound, PTL
=============================================================================
