-------------------------- MODULE MatchmakingProofs --------------------------
(***************************************************************************)
(* Proofs about Matchmaking, for any players, segments and requests, and   *)
(* whatever the clock, errors and sockets do.                              *)
(*                                                                         *)
(* The invariant says of every entry what its stat promises (a key that is *)
(* its own, a place in the queue), and, while no match was ended for one   *)
(* of its players only, that the entries of a match and the bookings name  *)
(* each other.  Most scripts only take entries and bookings away; what     *)
(* they keep is said once, for the players who leave and what goes with    *)
(* them.                                                                   *)
(***************************************************************************)
EXTENDS Matchmaking, FiniteSetTheorems, SequenceTheorems, TLAPS

Entry == [stat : Absent..Playing, opp : Players \cup {NoOne}, opbot : BOOLEAN,
          ky : 0..MaxRequests, grip : BOOLEAN, upd : 0..MaxTime, segm : Segments]
BookingRecord == [pid : Players \cup {NoOne}, opp : Players \cup {NoOne},
                  opbot : BOOLEAN, upd : 0..MaxTime]
Request == [pid : Players \cup {NoOne}, kind : Kinds \cup {"none"},
            now : 0..MaxTime, at : {"refresh", "check", "op", "wait", "answer", "over"},
            open : BOOLEAN, timer : BOOLEAN, ear : BOOLEAN]
Entries == [Players -> Entry]
Bookings == [0..MaxRequests -> BookingRecord]
Queues == [Segments -> SUBSET Players]

-----------------------------------------------------------------------------
(* What is said of entries q, queues and bookings g.                       *)

\* What a stat promises of the entry itself.
EntrySound(e) ==
    /\ (e.stat = Found => e.opp \in Players)
    /\ (e.stat \in {Searching, Found, Accepted} => e.ky # 0)
    /\ (e.stat = Searching => ~e.opbot)
    /\ (e.stat \notin {Booked, Playing} => ~e.grip)
EntriesSound(q) == \A p \in Players : EntrySound(q[p])

\* The key of an entry is the number of the request that made it: no two share one.
KeysDiffer(q) == \A p, o \in Players : p # o /\ q[p].ky = q[o].ky => q[p].ky = 0

QueueSound(q, queue) == \A p \in Players : q[p].stat = Searching => p \in queue[q[p].segm]

\* A match is one for both of its players, at stages that fit.
PairSound(q, p) ==
    Human(q[p]) =>
        LET o == q[q[p].opp]
        IN /\ q[p].opp \in Players \ {p} /\ Human(o) /\ o.opp = p
           /\ (q[p].stat = Found => o.stat \in {Found, Accepted})
           /\ (q[p].stat = Accepted => o.stat = Found)
           /\ (q[p].stat \in {Booked, Playing} => o.stat \in {Booked, Playing})

\* An entry with a booking names one that is for it, and a booking is named by one.
HasBooking(q, g, p) ==
    q[p].stat \in {Booked, Playing} =>
        q[p].grip /\ q[p].ky # 0 /\ g[q[p].ky].pid = p /\ g[q[p].ky].opp = q[p].opp
IsNamed(q, g, k) ==
    g[k].pid # NoOne => q[g[k].pid].stat \in {Booked, Playing} /\ q[g[k].pid].ky = k

Matched(q, g) ==
    /\ \A p \in Players : PairSound(q, p) /\ HasBooking(q, g, p)
    /\ \A k \in Requests : IsNamed(q, g, k)

\* The players X lose their entries.
Less(q, X) == [p \in Players |-> IF p \in X THEN NoEntry ELSE q[p]]

\* They leave together with their opponents and with their bookings, and with
\* nobody else's.
Together(q, g, X, g1) ==
    /\ \A p \in Players : p \in X /\ Human(q[p]) => q[p].opp \in X
    /\ \A k \in Requests : IF g[k].pid \in X \cap Players THEN g1[k].pid = NoOne ELSE g1[k] = g[k]

-----------------------------------------------------------------------------
(* The values that stand for nothing.                                      *)

\* There is no entry, no booking, no request.
LEMMA NothingIsTyped ==
    /\ NoEntry \in Entry /\ NoEntry.stat = Absent /\ NoEntry.ky = 0 /\ NoEntry.grip = FALSE
    /\ NoEntry.opbot = FALSE
    /\ NoBooking \in BookingRecord /\ NoBooking.pid = NoOne
    /\ NoRequest \in Request /\ NoRequest.at = "over" /\ NoRequest.pid = NoOne
<1>1. 0 \in 0..MaxRequests /\ 0 \in 0..MaxTime
  BY BoundsAssumption
<1>2. (CHOOSE s \in Segments : TRUE) \in Segments
  BY SegmentsAssumption
<1> DEFINE segm == CHOOSE s \in Segments : TRUE
<1> HIDE DEF segm
<1>3. /\ NoEntry = [stat |-> Absent, opp |-> NoOne, opbot |-> FALSE, ky |-> 0, grip |-> FALSE,
                    upd |-> 0, segm |-> segm]
      /\ segm \in Segments
  BY <1>2 DEF NoEntry, segm
<1>4. Absent \in Absent..Playing
  BY DEF Absent, Playing
<1>5. NoEntry \in Entry /\ NoEntry.stat = Absent /\ NoEntry.ky = 0 /\ NoEntry.grip = FALSE
      /\ NoEntry.opbot = FALSE
  BY <1>1, <1>3, <1>4 DEF Entry
<1>6. NoBooking \in BookingRecord /\ NoBooking.pid = NoOne
  BY <1>1 DEF NoBooking, BookingRecord
<1>7. NoRequest \in Request /\ NoRequest.at = "over" /\ NoRequest.pid = NoOne
  BY <1>1 DEF NoRequest, Request
<1> QED  BY <1>5, <1>6, <1>7

\* An entry that is not there promises nothing.
LEMMA NothingIsSound == EntrySound(NoEntry) /\ ~Human(NoEntry)
  BY NothingIsTyped DEF EntrySound, Human, Absent, Found, Searching, Accepted, Booked, Playing

\* The fields of an entry.
LEMMA EntryParts ==
    ASSUME NEW q \in Entries, NEW p \in Players
    PROVE  /\ q[p] \in Entry /\ q[p].stat \in -1..4 /\ q[p].opp \in Players \cup {NoOne}
           /\ q[p].opbot \in BOOLEAN /\ q[p].ky \in 0..MaxRequests /\ q[p].grip \in BOOLEAN
           /\ q[p].upd \in 0..MaxTime /\ q[p].segm \in Segments
  BY DEF Entries, Entry, Absent, Playing

-----------------------------------------------------------------------------
(* Players leave.                                                          *)

\* Entries that are taken away leave the other ones as they are.
LEMMA LessKeeps ==
    ASSUME NEW q \in Entries, NEW X
    PROVE  /\ Less(q, X) \in Entries
           /\ \A p \in Players : Less(q, X)[p] = IF p \in X THEN NoEntry ELSE q[p]
           /\ (EntriesSound(q) => EntriesSound(Less(q, X)))
           /\ (KeysDiffer(q) => KeysDiffer(Less(q, X)))
<1> DEFINE l == Less(q, X)
<1>1. l \in Entries /\ \A p \in Players : l[p] = IF p \in X THEN NoEntry ELSE q[p]
  BY NothingIsTyped DEF Less, Entries
<1> HIDE DEF l
<1>2. EntriesSound(q) => EntriesSound(l)
  BY <1>1, NothingIsSound DEF EntriesSound
<1>3. KeysDiffer(q) => KeysDiffer(l)
  BY <1>1, NothingIsTyped DEF KeysDiffer
<1> QED  BY <1>1, <1>2, <1>3 DEF l

\* Matches and bookings that are left name each other still.
LEMMA LeavingKeepsMatches ==
    ASSUME NEW q \in Entries, NEW g \in Bookings, NEW X, NEW g1, KeysDiffer(q), Matched(q, g),
           Together(q, g, X, g1)
    PROVE  Matched(Less(q, X), g1)
<1> DEFINE l == Less(q, X)
<1>1. \A p \in Players : l[p] = IF p \in X THEN NoEntry ELSE q[p]
  BY LessKeeps
<1> HIDE DEF l
<1>2. ASSUME NEW p \in Players
      PROVE  PairSound(l, p)
  <2>1. CASE p \in X
    BY <1>1, <2>1, NothingIsSound DEF PairSound
  <2>2. CASE p \notin X /\ Human(q[p])
    <3>1. /\ q[p].opp \in Players /\ Human(q[q[p].opp]) /\ q[q[p].opp].opp = p
          /\ PairSound(q, p)
      BY <2>2 DEF Matched, PairSound
    <3>2. q[p].opp \notin X
      BY <2>2, <3>1 DEF Together
    <3>3. l[p] = q[p] /\ l[q[p].opp] = q[q[p].opp]
      BY <1>1, <2>2, <3>1, <3>2
    <3> QED  BY <3>1, <3>3 DEF PairSound
  <2>3. CASE p \notin X /\ ~Human(q[p])
    BY <1>1, <2>3 DEF PairSound
  <2> QED  BY <2>1, <2>2, <2>3
<1>3. ASSUME NEW p \in Players
      PROVE  HasBooking(l, g1, p)
  <2>1. CASE p \in X
    BY <1>1, <2>1, NothingIsTyped DEF HasBooking, Absent, Booked, Playing
  <2>2. CASE p \notin X /\ q[p].stat \in {Booked, Playing}
    <3>1. q[p].grip /\ q[p].ky # 0 /\ g[q[p].ky].pid = p /\ g[q[p].ky].opp = q[p].opp
      BY <2>2 DEF Matched, HasBooking
    <3>2. q[p].ky \in Requests
      BY <3>1, EntryParts, BoundsAssumption DEF Requests
    <3>3. g1[q[p].ky] = g[q[p].ky]
      BY <2>2, <3>1, <3>2 DEF Together
    <3> QED  BY <1>1, <2>2, <3>1, <3>3 DEF HasBooking
  <2>3. CASE p \notin X /\ q[p].stat \notin {Booked, Playing}
    BY <1>1, <2>3 DEF HasBooking
  <2> QED  BY <2>1, <2>2, <2>3
<1>4. ASSUME NEW k \in Requests
      PROVE  IsNamed(l, g1, k)
  <2>1. g[k].pid \in Players \cup {NoOne}
    BY BoundsAssumption DEF Bookings, BookingRecord, Requests
  <2>2. IsNamed(q, g, k)
    BY DEF Matched
  <2> QED  BY <1>1, <2>1, <2>2, PlayersAssumption DEF IsNamed, Together
<1> QED  BY <1>2, <1>3, <1>4 DEF Matched, l

-----------------------------------------------------------------------------
(* The stores of refreshStats.                                             *)

Told == Seq(Players \cup {NoOne})
Store == [qplr : Entries, sq : Queues, grmb : Bookings, gone : Told]

\* A message is sent once for each place of a player in the list of the told.
LEMMA PublishIsTyped ==
    ASSUME NEW told \in Told, NEW what \in 1..5, NEW boxes \in [Players -> Seq(1..5)]
    PROVE  Publish(told, what, boxes) \in [Players -> Seq(1..5)]
<1>1. DOMAIN told = 1..Len(told) /\ Len(told) \in Nat
  BY LenProperties DEF Told
<1>2. ASSUME NEW p \in Players
      PROVE  boxes[p] \o [i \in 1..Cardinality({j \in DOMAIN told : told[j] = p}) |-> what]
                 \in Seq(1..5)
  <2> DEFINE n == Cardinality({j \in DOMAIN told : told[j] = p})
             add == [i \in 1..n |-> what]
  <2>1. n \in Nat
    <3>1. IsFiniteSet(1..Len(told))
      BY <1>1, FS_Interval
    <3>2. IsFiniteSet({j \in DOMAIN told : told[j] = p})
      BY <1>1, <3>1, FS_Subset
    <3> QED  BY <3>2, FS_CardinalityType
  <2> HIDE DEF n
  <2>2. add \in [1..n -> 1..5]
    OBVIOUS
  <2> HIDE DEF add
  <2>3. add \in Seq(1..5)
    BY <2>1, <2>2
  <2>4. boxes[p] \o add \in Seq(1..5)
    BY <2>3, ConcatProperties
  <2> QED  BY <2>4 DEF add, n
<1> QED  BY <1>2 DEF Publish

\* One who is told.
LEMMA TellIsTyped ==
    ASSUME NEW p \in Players, NEW what \in 1..5, mail \in [Players -> Seq(1..5)], Tell(p, what)
    PROVE  mail' \in [Players -> Seq(1..5)]
<1>1. <<p>> \in Told
  BY DEF Told
<1> QED  BY <1>1, PublishIsTyped DEF Tell

\* Entries and bookings are removed from a store.
LEMMA WithoutIsLess ==
    ASSUME NEW s \in Store, NEW X, NEW keys, NEW told \in Told, grmb \in Bookings
    PROVE  LET t == Without(s, X, keys, told)
           IN  /\ t \in Store /\ t.qplr = Less(s.qplr, X) /\ t.sq = s.sq
               /\ \A k \in 0..MaxRequests :
                      t.grmb[k] = IF k \in keys THEN NoBooking ELSE s.grmb[k]
<1> DEFINE q == [p \in Players |-> IF p \in X THEN NoEntry ELSE s.qplr[p]]
           g == [k \in DOMAIN grmb |-> IF k \in keys THEN NoBooking ELSE s.grmb[k]]
           n == s.gone \o told
           t == [s EXCEPT !.qplr = q, !.grmb = g, !.gone = n]
<1>1. s.qplr \in Entries /\ s.grmb \in Bookings /\ s.gone \in Told
  BY DEF Store
<1>2. q = Less(s.qplr, X) /\ q \in Entries
  BY <1>1, LessKeeps DEF Less
<1>3. /\ g \in Bookings
      /\ \A k \in 0..MaxRequests : g[k] = IF k \in keys THEN NoBooking ELSE s.grmb[k]
  BY <1>1, NothingIsTyped DEF Bookings
<1>4. n \in Told
  BY <1>1, ConcatProperties DEF Told
<1>5. Without(s, X, keys, told) = t
  BY DEF Without
<1> HIDE DEF q, g, n
<1>6. t \in Store /\ t.qplr = q /\ t.sq = s.sq /\ t.grmb = g
  BY <1>2, <1>3, <1>4 DEF Store
<1> QED  BY <1>2, <1>3, <1>5, <1>6

\* What one look at an entry may do: players leave, together with what is theirs.
Looked(s, t) ==
    /\ t \in Store
    /\ \E X : /\ t.qplr = Less(s.qplr, X)
              /\ \A p \in Players \ X, m \in Segments : p \in s.sq[m] => p \in t.sq[m]
              /\ (KeysDiffer(s.qplr) /\ Matched(s.qplr, s.grmb)
                     => Together(s.qplr, s.grmb, X, t.grmb))

\* A look that finds nothing.
LEMMA NothingSeen ==
    ASSUME NEW s \in Store
    PROVE  Looked(s, s)
<1>1. s.qplr = Less(s.qplr, {})
  BY DEF Less, Store, Entries
<1>2. Together(s.qplr, s.grmb, {}, s.grmb)
  BY DEF Together
<1> QED  BY <1>1, <1>2 DEF Looked

\* They leave with just the bookings that are theirs.
LEMMA TogetherByKeys ==
    ASSUME NEW q, NEW g, NEW X, NEW keys, NEW g1,
           \A k \in 0..MaxRequests : g1[k] = IF k \in keys THEN NoBooking ELSE g[k],
           \A p \in Players : p \in X /\ Human(q[p]) => q[p].opp \in X,
           \A k \in Requests : k \in keys <=> g[k].pid \in X \cap Players
    PROVE  Together(q, g, X, g1)
<1>1. \A k \in Requests : k \in 0..MaxRequests
  BY BoundsAssumption DEF Requests
<1>2. ASSUME NEW k \in Requests
      PROVE  IF g[k].pid \in X \cap Players THEN g1[k].pid = NoOne ELSE g1[k] = g[k]
  <2>1. g1[k] = IF k \in keys THEN NoBooking ELSE g[k]
    BY <1>1
  <2>2. k \in keys <=> g[k].pid \in X \cap Players
    OBVIOUS
  <2> QED  BY <2>1, <2>2, NothingIsTyped
<1>3. \A p \in Players : p \in X /\ Human(q[p]) => q[p].opp \in X
  OBVIOUS
<1> QED  BY <1>2, <1>3 DEF Together

\* process_key is such a look.
LEMMA ProcessKeyLooks ==
    ASSUME NEW s \in Store, NEW p \in Players, NEW now, grmb \in Bookings
    PROVE  Looked(s, ProcessKey(s, p, now))
<1> DEFINE q == s.qplr
           e == q[p]
           both == Both(p, e)
           told == IF e.opbot THEN <<p>> ELSE <<e.opp, p>>
           theirs == IF e.opbot THEN 0 ELSE q[e.opp].ky
           t == ProcessKey(s, p, now)
           none == {}
<1> SUFFICES Looked(s, t)
  OBVIOUS
<1>1. q \in Entries /\ s.grmb \in Bookings /\ s.sq \in Queues
  BY DEF Store
<1>2. /\ e \in Entry /\ e.opp \in Players \cup {NoOne} /\ e.segm \in Segments
      /\ e.ky \in 0..MaxRequests /\ e.opbot \in BOOLEAN
  BY <1>1, EntryParts
<1>3. told \in Told /\ <<p>> \in Told
  <2>1. <<p>> \in Told /\ <<e.opp, p>> \in Told
    <3> HIDE DEF e
    <3> QED  BY <1>2 DEF Told
  <2> HIDE DEF e
  <2> QED  BY <1>2, <2>1
<1>4. \A k \in Requests : k \in 0..MaxRequests /\ k # 0
  BY BoundsAssumption DEF Requests
<1>5. \A k \in 0..MaxRequests : s.grmb[k].pid \in Players \cup {NoOne}
  BY <1>1 DEF Bookings, BookingRecord
<1> HIDE DEF told
<1>6. CASE e.stat = Searching /\ e.upd + SearchTime <= now
  <2> DEFINE w == Without(s, {p}, {}, <<p>>)
             m == [w.sq EXCEPT ![e.segm] = @ \ {p}]
  <2>1. t = [w EXCEPT !.sq = m]
    BY <1>6 DEF ProcessKey, Searching, Found, Accepted, Booked, Playing, Examined
  <2>2. /\ w \in Store /\ w.qplr = Less(q, {p}) /\ w.sq = s.sq
        /\ \A k \in 0..MaxRequests : w.grmb[k] = s.grmb[k]
    BY <1>3, WithoutIsLess
  <2> HIDE DEF w
  <2>3. m \in Queues /\ \A o \in Players \ {p}, n \in Segments : o \in s.sq[n] => o \in m[n]
    BY <1>1, <1>2, <2>2 DEF Queues
  <2> HIDE DEF m, t
  <2>4. t \in Store /\ t.qplr = Less(q, {p}) /\ t.sq = m /\ t.grmb = w.grmb
    BY <2>1, <2>2, <2>3 DEF Store
  <2>5. ASSUME Matched(q, s.grmb)
        PROVE  Together(q, s.grmb, {p}, t.grmb)
    <3>1. ~Human(e) /\ e.stat \notin {Booked, Playing}
      BY <1>6 DEF Human, Searching, Found, Booked, Playing
    <3>2. \A k \in Requests : s.grmb[k].pid # p
      BY <2>5, <3>1, PlayersAssumption DEF Matched, IsNamed
    <3>3. \A o \in Players : o \in {p} /\ Human(q[o]) => q[o].opp \in {p}
      BY <3>1
    <3>4. \A k \in Requests : k \in none <=> s.grmb[k].pid \in {p} \cap Players
      BY <3>2
    <3>5. \A k \in 0..MaxRequests : t.grmb[k] = IF k \in none THEN NoBooking ELSE s.grmb[k]
      BY <2>2, <2>4
    <3> HIDE DEF q, none
    <3> QED  BY <3>3, <3>4, <3>5, TogetherByKeys
  <2> HIDE DEF q, e
  <2>6. t \in Store /\ t.qplr = Less(s.qplr, {p})
    BY <2>4 DEF q
  <2>7. \A o \in Players \ {p}, n \in Segments : o \in s.sq[n] => o \in t.sq[n]
    BY <2>3, <2>4
  <2> HIDE DEF t
  <2>8. Matched(s.qplr, s.grmb) => Together(s.qplr, s.grmb, {p}, t.grmb)
    BY <2>5 DEF q
  <2> QED  BY <2>6, <2>7, <2>8 DEF Looked
<1>7. CASE e.stat \in {Found, Accepted} /\ e.upd + AcceptTime <= now
  <2>1. t = Without(s, both, {}, told)
    <3>1. e.stat # Searching /\ ~Examined(e, now)
      BY ONLY <1>7 DEF Examined, Searching, Found, Accepted, Booked, Playing
    <3> QED  BY ONLY ZenonT(60), <1>7, <3>1 DEF ProcessKey, told
  <2> HIDE DEF t
  <2>2. /\ t \in Store /\ t.qplr = Less(q, both) /\ t.sq = s.sq
        /\ \A k \in 0..MaxRequests : t.grmb[k] = s.grmb[k]
    BY <1>3, <2>1, WithoutIsLess
  <2>3. ASSUME Matched(q, s.grmb)
        PROVE  Together(q, s.grmb, both, t.grmb)
    <3>1. e.stat \notin {Booked, Playing} /\ (Human(e) <=> ~e.opbot) /\ PairSound(q, p)
      BY <1>7, <2>3 DEF Human, Searching, Found, Accepted, Booked, Playing, Matched
    <3>2. ~e.opbot => /\ e.opp \in Players /\ q[e.opp].opp = p
                      /\ q[e.opp].stat \notin {Booked, Playing}
      BY <1>7, <3>1 DEF PairSound, Found, Accepted, Booked, Playing
    <3>3. \A o \in Players : o \in both /\ Human(q[o]) => q[o].opp \in both
      BY SMTT(60), <3>1, <3>2 DEF Both
    <3>4. \A k \in Requests : s.grmb[k].pid \notin both \cap Players
      BY <2>3, <3>1, <3>2, PlayersAssumption DEF Matched, IsNamed, Both
    <3>5. \A k \in Requests : k \in none <=> s.grmb[k].pid \in both \cap Players
      BY <3>4
    <3>6. \A k \in 0..MaxRequests : t.grmb[k] = IF k \in none THEN NoBooking ELSE s.grmb[k]
      BY <2>2
    <3> HIDE DEF q, both, none
    <3> QED  BY <3>3, <3>5, <3>6, TogetherByKeys
  <2> HIDE DEF both
  <2>9. t \in Store /\ t.qplr = Less(s.qplr, both) /\ t.sq = s.sq
    BY <2>2 DEF q
  <2>10. Matched(s.qplr, s.grmb) => Together(s.qplr, s.grmb, both, t.grmb)
    BY SMTT(60), <2>3 DEF q
  <2> HIDE DEF q, e
  <2> QED  BY SMTT(60), <2>9, <2>10 DEF Looked
<1>8. CASE Examined(e, now) /\ Stale(s.grmb[e.ky], now)
  <2> DEFINE keys == {e.ky, theirs}
  <2>0. e.stat # Searching /\ e.stat \notin {Found, Accepted}
    BY ONLY <1>8 DEF Examined, Searching, Found, Accepted, Booked, Playing
  <2>1. t = Without(s, both, keys, told)
    BY ONLY ZenonT(60), <1>8, <2>0 DEF ProcessKey, told, Stale
  <2> HIDE DEF t
  <2>2. /\ t \in Store /\ t.qplr = Less(q, both) /\ t.sq = s.sq
        /\ \A k \in 0..MaxRequests : t.grmb[k] = IF k \in keys THEN NoBooking ELSE s.grmb[k]
    <3> HIDE DEF both, keys, q
    <3>1. t = Without(s, both, keys, told)
      BY <2>1
    <3>2. /\ t \in Store /\ t.qplr = Less(s.qplr, both) /\ t.sq = s.sq
          /\ \A k \in 0..MaxRequests : t.grmb[k] = IF k \in keys THEN NoBooking ELSE s.grmb[k]
      BY <1>3, <3>1, WithoutIsLess
    <3> QED  BY ONLY ZenonT(60), <3>2 DEF q
  <2>3. ASSUME Matched(q, s.grmb)
        PROVE  Together(q, s.grmb, both, t.grmb)
    <3>1. /\ e.stat \in {Booked, Playing} /\ (Human(e) <=> ~e.opbot)
          /\ PairSound(q, p) /\ HasBooking(q, s.grmb, p)
      BY <1>8, <2>3 DEF Examined, Human, Found, Booked, Playing, Matched
    <3>2. s.grmb[e.ky].pid = p /\ e.ky # 0
      BY <3>1 DEF HasBooking
    <3>3. ~e.opbot => /\ e.opp \in Players /\ q[e.opp].opp = p
                      /\ s.grmb[theirs].pid = e.opp /\ theirs # 0
      BY SMTT(60), <2>3, <3>1 DEF PairSound, HasBooking, Matched
    <3>4. \A o \in Players : o \in both /\ Human(q[o]) => q[o].opp \in both
      BY <3>1, <3>3 DEF Both
    <3>5. ASSUME NEW k \in Requests, s.grmb[k].pid \in both \cap Players
          PROVE  k \in keys
      BY SMTT(60), <2>3, <3>1, <3>5, PlayersAssumption DEF Matched, IsNamed, Both
    <3>6. ASSUME NEW k \in Requests, s.grmb[k].pid \notin both \cap Players
          PROVE  k \notin keys
      BY <1>4, <3>2, <3>3, <3>6 DEF Both
    <3>7. \A k \in Requests : k \in keys <=> s.grmb[k].pid \in both \cap Players
      <4> HIDE DEF keys, both
      <4> QED  BY <3>5, <3>6
    <3> HIDE DEF q, both, keys
    <3> QED  BY <2>2, <3>4, <3>7, TogetherByKeys
  <2> HIDE DEF both
  <2>9. t \in Store /\ t.qplr = Less(s.qplr, both) /\ t.sq = s.sq
    BY SMTT(60), <2>2 DEF q
  <2>10. Matched(s.qplr, s.grmb) => Together(s.qplr, s.grmb, both, t.grmb)
    BY <2>3 DEF q
  <2> HIDE DEF q, e
  <2> QED  BY SMTT(60), <2>9, <2>10 DEF Looked
<1>9. CASE Examined(e, now) /\ ~Stale(s.grmb[e.ky], now) /\ s.grmb[e.ky].pid = NoOne
  <2> DEFINE keys == IF Stale(s.grmb[theirs], now) THEN {theirs} ELSE {}
  <2>0. e.stat # Searching /\ e.stat \notin {Found, Accepted}
    BY ONLY <1>9 DEF Examined, Searching, Found, Accepted, Booked, Playing
  <2>1. t = Without(s, both, keys, told)
    BY ONLY ZenonT(60), <1>9, <2>0 DEF ProcessKey, told
  <2> HIDE DEF t, keys
  <2>2. /\ t \in Store /\ t.qplr = Less(q, both) /\ t.sq = s.sq
    <3> HIDE DEF both
    <3> QED  BY <1>3, <2>1, WithoutIsLess
  <2>3. ~Matched(q, s.grmb)
    <3>1. e.stat \in {Booked, Playing}
      BY <1>9 DEF Examined
    <3>2. HasBooking(q, s.grmb, p) => s.grmb[e.ky].pid = p
      BY <3>1 DEF HasBooking
    <3> QED  BY <1>9, <3>2, PlayersAssumption DEF Matched
  <2> HIDE DEF both
  <2>9. t \in Store /\ t.qplr = Less(s.qplr, both) /\ t.sq = s.sq
    BY <2>2 DEF q
  <2>10. Matched(s.qplr, s.grmb) => Together(s.qplr, s.grmb, both, t.grmb)
    BY <2>3 DEF q
  <2> HIDE DEF q, e
  <2> QED  BY SMTT(60), <2>9, <2>10 DEF Looked
<1>10. CASE t = s
  BY <1>10, NothingSeen
<1> QED
  <2>1. \/ e.stat = Searching /\ e.upd + SearchTime <= now
        \/ e.stat \in {Found, Accepted} /\ e.upd + AcceptTime <= now
        \/ Examined(e, now) /\ Stale(s.grmb[e.ky], now)
        \/ Examined(e, now) /\ s.grmb[e.ky].pid = NoOne
        \/ t = s
    BY ZenonT(60) DEF ProcessKey
  <2> QED  BY SMTT(60), <1>6, <1>7, <1>8, <1>9, <1>10, <2>1

\* A store as sound as the entries, queues and bookings it is made of.
StoreSound(q, queue, g) ==
    /\ q \in Entries /\ queue \in Queues /\ g \in Bookings
    /\ EntriesSound(q) /\ KeysDiffer(q) /\ QueueSound(q, queue)

\* A look keeps a store sound, its matches matched, and brings no new keys.
LEMMA LookKeeps ==
    ASSUME NEW s \in Store, NEW t, Looked(s, t), StoreSound(s.qplr, s.sq, s.grmb)
    PROVE  /\ t \in Store /\ StoreSound(t.qplr, t.sq, t.grmb)
           /\ (Matched(s.qplr, s.grmb) => Matched(t.qplr, t.grmb))
           /\ \A p \in Players : t.qplr[p] \in {NoEntry, s.qplr[p]}
<1> DEFINE q == s.qplr
           g == s.grmb
<1>1. PICK X : /\ t.qplr = Less(s.qplr, X)
               /\ \A p \in Players \ X, m \in Segments : p \in s.sq[m] => p \in t.sq[m]
               /\ (KeysDiffer(s.qplr) /\ Matched(s.qplr, s.grmb)
                      => Together(s.qplr, s.grmb, X, t.grmb))
  BY DEF Looked
<1>2. t \in Store /\ t.qplr \in Entries /\ t.sq \in Queues /\ t.grmb \in Bookings
  BY DEF Looked, Store
<1>3. /\ s.qplr \in Entries /\ s.grmb \in Bookings /\ EntriesSound(s.qplr)
      /\ KeysDiffer(s.qplr) /\ QueueSound(s.qplr, s.sq)
  BY DEF StoreSound
<1>4. /\ \A p \in Players : t.qplr[p] = IF p \in X THEN NoEntry ELSE s.qplr[p]
      /\ EntriesSound(t.qplr) /\ KeysDiffer(t.qplr)
  BY <1>1, <1>3, LessKeeps
<1>5. QueueSound(t.qplr, t.sq)
  <2> SUFFICES ASSUME NEW p \in Players, t.qplr[p].stat = Searching
               PROVE  p \in t.sq[t.qplr[p].segm]
    BY DEF QueueSound
  <2>1. p \notin X /\ t.qplr[p] = s.qplr[p]
    BY <1>4, NothingIsTyped DEF Searching, Absent
  <2>2. s.qplr[p].segm \in Segments /\ p \in s.sq[s.qplr[p].segm]
    BY <1>3, <2>1, EntryParts DEF QueueSound
  <2> QED  BY <1>1, <2>1, <2>2
<1>6. Matched(s.qplr, s.grmb) => Matched(t.qplr, t.grmb)
  BY <1>1, <1>3, LeavingKeepsMatches
<1> QED  BY <1>2, <1>4, <1>5, <1>6 DEF StoreSound

-----------------------------------------------------------------------------
(* The invariant.                                                          *)

\* Before its last script a request has made no entry.
Early == {"refresh", "check", "op"}

RequestSound(q) == q \in Request /\ (q.pid = NoOne => q = NoRequest)
RequestsSound ==
    /\ asked \in 0..MaxRequests
    /\ req \in [Requests -> Request]
    /\ \A r \in Requests : RequestSound(req[r]) /\ (req[r].at \in Early => r <= asked)

RestTyped ==
    /\ clock \in 0..MaxTime
    /\ lp \in [Players -> 0..MaxRequests]
    /\ mail \in [Players -> Seq(1..5)]
    /\ free \in 0..MaxFree
    /\ torn \in BOOLEAN

\* A key comes from a request that asked, and is past its last script.
KeysMinted ==
    \A p \in Players : qplr[p].ky # 0 => qplr[p].ky <= asked /\ req[qplr[p].ky].at \notin Early

MatchInv ==
    /\ RequestsSound /\ RestTyped
    /\ StoreSound(qplr, sq, grmb) /\ KeysMinted
    /\ (~torn => Matched(qplr, grmb))

\* What a step does to the requests: none comes, none goes back.
RequestsGoOn ==
    /\ asked' = asked
    /\ req' \in [Requests -> Request]
    /\ \A r \in Requests : RequestSound(req'[r]) /\ (req'[r].at \in Early => req[r].at \in Early)

\* Nothing holds in the beginning.
LEMMA InitMatch == Init => MatchInv
<1> SUFFICES ASSUME Init
             PROVE  MatchInv
  OBVIOUS
<1>1. RequestsSound
  BY NothingIsTyped, BoundsAssumption DEF Init, RequestsSound, RequestSound, Early
<1>2. RestTyped
  <2>1. 0 \in 0..MaxTime /\ 0 \in 0..MaxRequests
    BY BoundsAssumption
  <2>2. lp \in [Players -> 0..MaxRequests]
    BY <2>1 DEF Init
  <2>3. mail \in [Players -> Seq(1..5)]
    BY DEF Init
  <2> QED  BY <2>1, <2>2, <2>3 DEF Init, RestTyped
<1>3. qplr \in Entries /\ sq \in Queues /\ grmb \in Bookings
  BY NothingIsTyped DEF Init, Entries, Queues, Bookings
<1>4. /\ \A p \in Players : qplr[p] = NoEntry
      /\ \A k \in Requests : grmb[k].pid = NoOne
  BY NothingIsTyped, BoundsAssumption DEF Init, Requests
<1>5. EntriesSound(qplr) /\ KeysDiffer(qplr) /\ KeysMinted
  BY <1>4, NothingIsTyped, NothingIsSound DEF EntriesSound, KeysDiffer, KeysMinted
<1>6. QueueSound(qplr, sq)
  BY <1>4, NothingIsTyped DEF QueueSound, Absent, Searching
<1>7. Matched(qplr, grmb)
  <2>1. \A p \in Players : PairSound(qplr, p)
    BY <1>4, NothingIsSound DEF PairSound
  <2>2. \A p \in Players : HasBooking(qplr, grmb, p)
    BY <1>4, NothingIsTyped DEF HasBooking, Absent, Booked, Playing
  <2> QED  BY <1>4, <2>1, <2>2 DEF Matched, IsNamed
<1> QED  BY <1>1, <1>2, <1>3, <1>5, <1>6, <1>7 DEF MatchInv, StoreSound

\* What a step that brings no request has to keep: a key stays, goes, or is
\* the number of a request whose last script it is.
LEMMA StepKeeps ==
    ASSUME MatchInv, RequestsGoOn, RestTyped', StoreSound(qplr', sq', grmb'),
           \A p \in Players :
               \/ qplr'[p].ky \in {0, qplr[p].ky}
               \/ \E r \in Requests :
                     qplr'[p].ky = r /\ req[r].at \in Early /\ req'[r].at \notin Early,
           ~torn' => Matched(qplr', grmb')
    PROVE  MatchInv'
<1>1. RequestsSound'
  BY DEF MatchInv, RequestsSound, RequestsGoOn
<1>2. KeysMinted'
  <2> SUFFICES ASSUME NEW p \in Players, qplr'[p].ky # 0
               PROVE  qplr'[p].ky <= asked /\ req'[qplr'[p].ky].at \notin Early
    BY DEF KeysMinted, RequestsGoOn
  <2>1. CASE qplr'[p].ky = qplr[p].ky
    <3>1. qplr[p].ky \in Requests
      <4>1. qplr[p].ky \in 0..MaxRequests
        BY EntryParts DEF MatchInv, StoreSound
      <4> QED  BY <2>1, <4>1, BoundsAssumption DEF Requests
    <3> QED  BY <2>1, <3>1 DEF MatchInv, KeysMinted, RequestsGoOn
  <2>2. CASE \E r \in Requests :
                qplr'[p].ky = r /\ req[r].at \in Early /\ req'[r].at \notin Early
    BY <2>2 DEF MatchInv, RequestsSound
  <2> QED  BY <2>1, <2>2
<1>3. StoreSound(qplr, sq, grmb)'
  OBVIOUS
<1>4. (~torn => Matched(qplr, grmb))'
  OBVIOUS
<1> QED  BY <1>1, <1>2, <1>3, <1>4 DEF MatchInv

\* A step that leaves entries, queues and bookings alone.
LEMMA StoreStays ==
    ASSUME MatchInv, RequestsGoOn, RestTyped', UNCHANGED <<qplr, sq, grmb>>, torn' = torn
    PROVE  MatchInv'
<1>1. StoreSound(qplr', sq', grmb') /\ (~torn' => Matched(qplr', grmb'))
  BY DEF MatchInv
<1>2. \A p \in Players : qplr'[p].ky \in {0, qplr[p].ky}
  OBVIOUS
<1> QED  BY <1>1, <1>2, StepKeeps

\* A step in which players leave.
LEMMA LeavingKeeps ==
    ASSUME NEW X, NEW queue, NEW g, NEW l,
           MatchInv, RequestsGoOn, RestTyped',
           l = Less(qplr, X), qplr' = l, sq' = queue, queue \in Queues, grmb' = g, g \in Bookings,
           \A p \in Players \ X, m \in Segments : p \in sq[m] => p \in queue[m],
           ~torn' => ~torn,
           ~torn' /\ KeysDiffer(qplr) /\ Matched(qplr, grmb) => Together(qplr, grmb, X, g)
    PROVE  MatchInv'
<1>1. /\ qplr \in Entries /\ grmb \in Bookings /\ EntriesSound(qplr)
      /\ KeysDiffer(qplr) /\ QueueSound(qplr, sq) /\ (~torn => Matched(qplr, grmb))
  BY DEF MatchInv, StoreSound
<1>2. /\ \A p \in Players : l[p] = IF p \in X THEN NoEntry ELSE qplr[p]
      /\ l \in Entries /\ EntriesSound(l) /\ KeysDiffer(l)
  BY <1>1, LessKeeps
<1>3. QueueSound(l, queue)
  <2> SUFFICES ASSUME NEW p \in Players, l[p].stat = Searching
               PROVE  p \in queue[l[p].segm]
    BY DEF QueueSound
  <2>1. p \notin X /\ l[p] = qplr[p]
    BY <1>2, NothingIsTyped DEF Searching, Absent
  <2>2. qplr[p].segm \in Segments /\ p \in sq[qplr[p].segm]
    BY <1>1, <2>1, EntryParts DEF QueueSound
  <2> QED  BY <2>1, <2>2
<1>4. ~torn' => Matched(l, g)
  BY <1>1, LeavingKeepsMatches
<1>5. StoreSound(l, queue, g)
  BY <1>2, <1>3 DEF StoreSound
<1>6. \A p \in Players : l[p].ky \in {0, qplr[p].ky}
  BY <1>2, NothingIsTyped
<1>7. StoreSound(qplr', sq', grmb') /\ (~torn' => Matched(qplr', grmb'))
  BY <1>4, <1>5
<1>8. \A p \in Players : qplr'[p].ky \in {0, qplr[p].ky}
  BY <1>6
<1> QED  BY <1>7, <1>8, StepKeeps

-----------------------------------------------------------------------------
(* Requests.                                                               *)

\* A request that becomes q.
LEMMA GoesOn ==
    ASSUME NEW r \in Requests, NEW q, MatchInv, Goes(r, q), RequestSound(q),
           q.at \in Early => req[r].at \in Early, asked' = asked
    PROVE  /\ RequestsGoOn
           /\ (q.at \notin Early => req'[r].at \notin Early)
<1> DEFINE t == Tidy(q)
<1>1. RequestSound(t) /\ t \in Request /\ (t.at \in Early => q.at \in Early)
  BY NothingIsTyped DEF Tidy, RequestSound, Early
<1>2. req' = [req EXCEPT ![r] = t]
  BY DEF Goes
<1> HIDE DEF t
<1>3. req \in [Requests -> Request] /\ \A x \in Requests : RequestSound(req[x])
  BY DEF MatchInv, RequestsSound
<1>4. req' \in [Requests -> Request] /\ req'[r] = t /\ \A x \in Requests \ {r} : req'[x] = req[x]
  BY <1>1, <1>2, <1>3
<1> QED  BY <1>1, <1>3, <1>4 DEF RequestsGoOn

\* A request that is somebody's goes to another place.
LEMMA GoToGoesOn ==
    ASSUME NEW r \in Requests, NEW where, MatchInv, GoTo(r, where), asked' = asked,
           where \in {"refresh", "check", "op", "wait", "answer", "over"},
           req[r].at # "over", where \in Early => req[r].at \in Early
    PROVE  /\ RequestsGoOn
           /\ (where \notin Early => req'[r].at \notin Early)
<1> DEFINE q == [req[r] EXCEPT !.at = where]
<1>1. req[r] \in Request /\ req[r].pid # NoOne
  BY NothingIsTyped DEF MatchInv, RequestsSound, RequestSound
<1>2. q \in Request /\ q.pid = req[r].pid /\ q.at = where
  BY <1>1 DEF Request
<1>3. RequestSound(q)
  BY <1>1, <1>2 DEF RequestSound
<1>4. Goes(r, q)
  BY DEF GoTo
<1> HIDE DEF q
<1> QED  BY <1>2, <1>3, <1>4, GoesOn

\* The script that ends a chain.
LEMMA EndsGoesOn ==
    ASSUME NEW r \in Requests, MatchInv, req[r].at = "op", Ends(r)
    PROVE  /\ RequestsGoOn /\ req'[r].at \notin Early /\ req[r].at \in Early
           /\ clock' = clock /\ lp' = lp
  BY GoToGoesOn DEF Ends, Early

\* Whose request it is that is not over.
LEMMA Asker ==
    ASSUME NEW r \in Requests, MatchInv, req[r].at # "over"
    PROVE  req[r].pid \in Players /\ req[r].now \in 0..MaxTime
  BY NothingIsTyped DEF MatchInv, RequestsSound, RequestSound, Request

-----------------------------------------------------------------------------
(* The process.                                                            *)

\* A request comes: it has made no entry yet.
LEMMA AskKeeps ==
    ASSUME NEW p \in Players, NEW kind \in Kinds, MatchInv, Ask(p, kind)
    PROVE  MatchInv'
<1> DEFINE r == asked + 1
           q == [pid |-> p, kind |-> kind, now |-> clock, at |-> "refresh",
                 open |-> TRUE, timer |-> FALSE, ear |-> FALSE]
           h == [q EXCEPT !.timer = TRUE, !.ear = TRUE]
<1>1. /\ r \in Requests /\ asked' = r /\ clock' = clock
      /\ UNCHANGED <<mail, qplr, sq, grmb, free, torn>>
      /\ \/ lp' = [lp EXCEPT ![p] = 0] /\ req' = req
         \/ lp' = [lp EXCEPT ![p] = r] /\ Goes(r, h)
         \/ lp' = lp /\ Goes(r, q)
  BY DEF Ask, Refused, Registered, Unregister
<1>2. /\ asked \in 0..MaxRequests /\ req \in [Requests -> Request] /\ clock \in 0..MaxTime
      /\ \A x \in Requests : RequestSound(req[x]) /\ (req[x].at \in Early => x <= asked)
      /\ lp \in [Players -> 0..MaxRequests]
  BY DEF MatchInv, RequestsSound, RestTyped
<1>3. q \in Request /\ h \in Request /\ q.pid = p /\ h.pid = p
  BY <1>2 DEF Request
<1>4. q.at = "refresh" /\ h.at = "refresh"
  OBVIOUS
<1> HIDE DEF q, h
<1>5. \/ req' = req
      \/ req' = [req EXCEPT ![r] = h]
      \/ req' = [req EXCEPT ![r] = q]
  BY <1>1, <1>4 DEF Goes, Tidy
<1>6. asked \in Nat /\ r = asked + 1 /\ r \in 0..MaxRequests /\ MaxRequests \in Nat
  BY <1>1, <1>2, BoundsAssumption DEF Requests
<1> HIDE DEF r
<1>7. req' \in [Requests -> Request] /\ \A x \in Requests \ {r} : req'[x] = req[x]
  BY <1>1, <1>2, <1>3, <1>5
<1>8. RequestSound(req'[r])
  BY <1>1, <1>2, <1>3, <1>5, PlayersAssumption DEF RequestSound
<1>9. RequestsSound'
  <2> SUFFICES ASSUME NEW x \in Requests
               PROVE  RequestSound(req'[x]) /\ (req'[x].at \in Early => x <= asked')
    BY <1>1, <1>6, <1>7 DEF RequestsSound
  <2>1. x \in Nat
    BY <1>6 DEF Requests
  <2> QED  BY <1>1, <1>2, <1>6, <1>7, <1>8, <2>1
<1>10. RestTyped'
  <2>1. lp' \in [Players -> 0..MaxRequests]
    BY <1>1, <1>2, <1>6
  <2> QED  BY <1>1, <2>1 DEF MatchInv, RestTyped
<1>11. KeysMinted'
  <2> SUFFICES ASSUME NEW o \in Players, qplr[o].ky # 0
               PROVE  qplr[o].ky <= asked' /\ req'[qplr[o].ky].at \notin Early
    BY <1>1 DEF KeysMinted
  <2>1. qplr[o].ky \in 0..MaxRequests
    BY EntryParts DEF MatchInv, StoreSound
  <2>2. qplr[o].ky <= asked /\ req[qplr[o].ky].at \notin Early
    BY DEF MatchInv, KeysMinted
  <2>3. qplr[o].ky \in Requests \ {r} /\ qplr[o].ky <= r
    BY <1>6, <2>1, <2>2 DEF Requests
  <2> QED  BY <1>1, <1>7, <2>2, <2>3
<1>12. StoreSound(qplr, sq, grmb)' /\ (~torn => Matched(qplr, grmb))'
  BY <1>1 DEF MatchInv
<1> QED  BY <1>9, <1>10, <1>11, <1>12 DEF MatchInv

\* What a request can become while it stays whose it is.
LEMMA RequestParts ==
    ASSUME NEW q \in Request, q.pid # NoOne
    PROVE  /\ RequestSound(Sent(q)) /\ RequestSound(Called(q))
           /\ Sent(q).at = q.at /\ Called(q).at = q.at
           /\ Sent(q).pid = q.pid /\ Called(q).pid = q.pid
<1>1. KeepAlive \in BOOLEAN /\ q.ear \in BOOLEAN
  BY SwitchesAssumption DEF Request
<1> DEFINE ear == q.ear /\ KeepAlive
           s == [q EXCEPT !.open = FALSE, !.ear = ear]
<1>2. ear \in BOOLEAN
  BY <1>1
<1>3. Sent(q) = s
  BY DEF Sent
<1> HIDE DEF ear
<1>4. s \in Request /\ s.at = q.at /\ s.pid = q.pid
  BY <1>2 DEF Request
<1> HIDE DEF s
<1>5. Called(q) = [s EXCEPT !.timer = FALSE]
  BY <1>3 DEF Called
<1>6. Called(q) \in Request /\ Called(q).at = q.at /\ Called(q).pid = q.pid
  BY ZenonT(60), <1>4, <1>5 DEF Request
<1> QED  BY <1>3, <1>4, <1>6 DEF RequestSound

\* The answer arrives.
LEMMA AnswerKeeps ==
    ASSUME NEW r \in Requests, MatchInv, Answer(r)
    PROVE  MatchInv'
<1> DEFINE c == Called(req[r])
           q == [c EXCEPT !.at = "over"]
<1>1. req[r] \in Request /\ req[r].pid \in Players
  BY Asker DEF Answer, MatchInv, RequestsSound
<1>2. c \in Request /\ c.pid = req[r].pid
  BY <1>1, RequestParts, PlayersAssumption DEF RequestSound
<1> HIDE DEF c
<1>3. q \in Request /\ q.pid = req[r].pid /\ q.at = "over"
  BY <1>2 DEF Request
<1>4. Goes(r, q)
  BY DEF Answer, c
<1> HIDE DEF q
<1>5. RequestsGoOn
  BY <1>1, <1>3, <1>4, PlayersAssumption, GoesOn DEF Answer, RequestSound, Early
<1>6. RestTyped'
  <2>1. lp' \in [Players -> 0..MaxRequests]
    <3>1. lp' = lp \/ lp' = [lp EXCEPT ![req[r].pid] = 0]
      BY DEF Answer, Unregister
    <3>2. lp \in [Players -> 0..MaxRequests]
      BY DEF MatchInv, RestTyped
    <3>3. 0 \in 0..MaxRequests
      BY BoundsAssumption
    <3> QED  BY ONLY <3>1, <3>2, <3>3
  <2> QED  BY <2>1 DEF Answer, MatchInv, RestTyped
<1> QED  BY <1>5, <1>6, StoreStays DEF Answer

\* A poll ends without its chain: by its timer or the closing of its socket.
LEMMA PollEnds ==
    ASSUME NEW r \in Requests, MatchInv, req[r] # NoRequest, Unregister(req[r].pid),
           Goes(r, [Called(req[r]) EXCEPT !.ear = FALSE, !.at = IF @ = "wait" THEN "over" ELSE @]),
           UNCHANGED <<clock, asked, mail, qplr, sq, grmb, free, torn>>
    PROVE  MatchInv'
<1> DEFINE c == Called(req[r])
           at == IF c.at = "wait" THEN "over" ELSE c.at
           q == [c EXCEPT !.ear = FALSE, !.at = at]
<1>1. req[r] \in Request /\ req[r].pid # NoOne
  BY DEF MatchInv, RequestsSound, RequestSound
<1>2. c \in Request /\ c.pid = req[r].pid /\ c.at = req[r].at
  BY <1>1, RequestParts DEF RequestSound
<1>3. Goes(r, q)
  OBVIOUS
<1> HIDE DEF c
<1>4. /\ at \in {"refresh", "check", "op", "wait", "answer", "over"}
      /\ (at \in Early => req[r].at \in Early)
  BY <1>2 DEF Request, Early
<1> HIDE DEF at
<1>5. q \in Request /\ q.pid = req[r].pid /\ q.at = at
  BY <1>2, <1>4 DEF Request
<1> HIDE DEF q
<1>6. RequestsGoOn
  BY <1>1, <1>3, <1>4, <1>5, GoesOn DEF RequestSound
<1>7. RestTyped'
  <2>1. lp' = [lp EXCEPT ![req[r].pid] = 0] /\ 0 \in 0..MaxRequests
    BY BoundsAssumption DEF Unregister
  <2>2. lp' \in [Players -> 0..MaxRequests]
    BY <2>1 DEF MatchInv, RestTyped
  <2> QED  BY <2>2 DEF MatchInv, RestTyped
<1> QED  BY <1>6, <1>7, StoreStays

\* The cold response.
LEMMA ColdResponseKeeps ==
    ASSUME NEW r \in Requests, MatchInv, ColdResponse(r)
    PROVE  MatchInv'
<1>1. req[r] # NoRequest
  BY DEF ColdResponse, NoRequest
<1> QED  BY <1>1, PollEnds DEF ColdResponse

\* The socket closes.
LEMMA CloseKeeps ==
    ASSUME NEW r \in Requests, MatchInv, Close(r)
    PROVE  MatchInv'
<1>1. req[r] # NoRequest
  BY DEF Close, NoRequest
<1> QED  BY <1>1, PollEnds DEF Close

\* A message comes to the registered poll.
LEMMA DeliverKeeps ==
    ASSUME NEW p \in Players, MatchInv, Deliver(p)
    PROVE  MatchInv'
<1> DEFINE r == lp[p]
           m == IF Head(mail[p]) = 5 THEN Sent(req[r]) ELSE [Called(req[r]) EXCEPT !.ear = FALSE]
           q == IF req[r].open THEN [m EXCEPT !.at = IF @ = "wait" THEN "over" ELSE @] ELSE req[r]
<1>1. /\ lp \in [Players -> 0..MaxRequests] /\ mail \in [Players -> Seq(1..5)]
      /\ req \in [Requests -> Request] /\ MaxRequests \in Nat
  BY BoundsAssumption DEF MatchInv, RestTyped, RequestsSound
<1>2. RestTyped'
  <2> DEFINE rest == Tail(mail[p])
  <2>1. mail[p] \in Seq(1..5) /\ mail[p] # <<>>
    BY <1>1 DEF Deliver
  <2>2. rest \in Seq(1..5)
    BY <2>1, HeadTailProperties
  <2>3. mail' = [mail EXCEPT ![p] = rest]
    BY DEF Deliver
  <2> HIDE DEF rest
  <2>4. mail' \in [Players -> Seq(1..5)]
    BY <1>1, <2>2, <2>3
  <2>5. lp' = lp \/ lp' = [lp EXCEPT ![p] = 0]
    BY DEF Deliver, Unregister
  <2>6. lp' \in [Players -> 0..MaxRequests]
    <3>1. 0 \in 0..MaxRequests
      BY <1>1
    <3> QED  BY <1>1, <2>5, <3>1
  <2> QED  BY <2>4, <2>6 DEF Deliver, MatchInv, RestTyped
<1>3. RequestsGoOn
  <2>1. CASE r = 0
    <3>1. req' = req /\ asked' = asked
      <4>1. r \notin Requests
        BY <2>1 DEF Requests
      <4> QED  BY <2>1 DEF Deliver
    <3> QED  BY <3>1 DEF RequestsGoOn, MatchInv, RequestsSound
  <2>2. CASE r # 0
    <3>1. r \in Requests /\ Goes(r, q) /\ asked' = asked
      BY <1>1, <2>2 DEF Deliver, Requests
    <3> HIDE DEF r
    <3>2. CASE req[r].open
      <4>1. req[r] \in Request /\ req[r].pid # NoOne
        BY <3>1, <3>2 DEF MatchInv, RequestsSound, RequestSound, NoRequest
      <4>2. Sent(req[r]) \in Request /\ Called(req[r]) \in Request
        BY <4>1, RequestParts DEF RequestSound
      <4>3. Sent(req[r]).pid = req[r].pid /\ Sent(req[r]).at = req[r].at
        BY <4>1, RequestParts
      <4>4. Called(req[r]).pid = req[r].pid /\ Called(req[r]).at = req[r].at
        BY <4>1, RequestParts
      <4> DEFINE c == Called(req[r])
                 d == [c EXCEPT !.ear = FALSE]
      <4>5. d \in Request /\ d.pid = req[r].pid /\ d.at = req[r].at
        <5> HIDE DEF c
        <5>1. c \in Request /\ c.pid = req[r].pid /\ c.at = req[r].at
          BY <4>2, <4>4 DEF c
        <5> QED  BY <5>1 DEF Request
      <4>6. m = Sent(req[r]) \/ m = d
        OBVIOUS
      <4>7. q = [m EXCEPT !.at = IF m.at = "wait" THEN "over" ELSE m.at]
        BY <3>2
      <4> HIDE DEF m, d
      <4>8. m \in Request /\ m.pid = req[r].pid /\ m.at = req[r].at
        BY <4>2, <4>3, <4>5, <4>6
      <4> DEFINE at == IF m.at = "wait" THEN "over" ELSE m.at
      <4>9. /\ at \in {"refresh", "check", "op", "wait", "answer", "over"}
            /\ (at \in Early => req[r].at \in Early)
        BY <4>8 DEF Request, Early
      <4>10. q = [m EXCEPT !.at = at]
        BY <4>7
      <4> HIDE DEF at, q
      <4>11. q \in Request /\ q.pid = req[r].pid /\ q.at = at
        BY <4>8, <4>9, <4>10 DEF Request
      <4> QED  BY <3>1, <4>1, <4>9, <4>11, GoesOn DEF RequestSound
    <3>3. CASE ~req[r].open
      <4>1. q = req[r] /\ RequestSound(req[r])
        BY <3>1, <3>3 DEF MatchInv, RequestsSound
      <4> HIDE DEF q
      <4> QED  BY <3>1, <4>1, GoesOn
    <3> QED  BY <3>2, <3>3
  <2> QED  BY <2>1, <2>2
<1> QED  BY <1>2, <1>3, StoreStays DEF Deliver

\* A command fails, the refresh fails, a search is refused.
LEMMA NothingDoneKeeps ==
    ASSUME NEW r \in Requests, MatchInv, CommandFails(r) \/ RefreshFails(r) \/ SearchRefused(r)
    PROVE  MatchInv'
<1>1. /\ UNCHANGED <<clock, asked, lp, mail, qplr, sq, grmb, free, torn>>
      /\ req[r].at \in Early
      /\ \/ GoTo(r, "answer")
         \/ GoTo(r, AfterRefresh(r))
  BY DEF CommandFails, RefreshFails, SearchRefused, Op, Ends, Early
<1>2. AfterRefresh(r) \in {"answer", "op", "check"}
  BY DEF AfterRefresh
<1>3. RequestsGoOn
  BY <1>1, <1>2, GoToGoesOn DEF Early
<1>4. RestTyped'
  BY <1>1 DEF MatchInv, RestTyped
<1> QED  BY <1>1, <1>3, <1>4, StoreStays

\* The room tells its places, time passes.
LEMMA AroundKeeps ==
    ASSUME MatchInv, SetOccupation \/ Tick \/ UNCHANGED vars
    PROVE  MatchInv'
<1>1. UNCHANGED <<asked, req, lp, mail, qplr, sq, grmb, torn>>
  BY DEF SetOccupation, Tick, vars
<1>2. clock' \in 0..MaxTime /\ free' \in 0..MaxFree
  BY BoundsAssumption DEF SetOccupation, Tick, vars, MatchInv, RestTyped
<1>3. RestTyped'
  BY <1>1, <1>2 DEF MatchInv, RestTyped
<1>4. RequestsGoOn
  BY <1>1 DEF MatchInv, RequestsSound, RequestsGoOn
<1> QED  BY <1>1, <1>3, <1>4, StoreStays

-----------------------------------------------------------------------------
(* Players leave.                                                          *)

\* Players who leave with the bookings their entries name, each one's opponent
\* with him, take away what is theirs.
LEMMA WithTheirBookings ==
    ASSUME NEW q \in Entries, NEW g \in Bookings, NEW X, X \subseteq Players,
           NEW keys, NEW g1, EntriesSound(q), Matched(q, g),
           \A k \in 0..MaxRequests : g1[k] = IF k \in keys THEN NoBooking ELSE g[k],
           \A k \in Requests :
               k \in keys <=> \E p \in X : q[p].ky = k /\ q[p].grip,
           \A p \in X : Human(q[p]) => q[p].opp \in X
    PROVE  Together(q, g, X, g1)
<1>1. ASSUME NEW k \in Requests
      PROVE  k \in keys <=> g[k].pid \in X \cap Players
  <2>1. ASSUME NEW p \in X, q[p].ky = k, q[p].grip
        PROVE  g[k].pid = p
    <3>1. p \in Players /\ EntrySound(q[p]) /\ HasBooking(q, g, p)
      BY DEF EntriesSound, Matched
    <3>2. q[p].stat \in {Booked, Playing}
      BY <2>1, <3>1 DEF EntrySound
    <3> QED  BY <2>1, <3>1, <3>2 DEF HasBooking
  <2>2. ASSUME g[k].pid \in X
        PROVE  q[g[k].pid].ky = k /\ q[g[k].pid].grip
    <3>1. g[k].pid \in Players /\ g[k].pid # NoOne
      BY <2>2, PlayersAssumption
    <3>2. q[g[k].pid].stat \in {Booked, Playing} /\ q[g[k].pid].ky = k
      BY <3>1 DEF Matched, IsNamed
    <3>3. q[g[k].pid].grip
      BY <3>1, <3>2 DEF Matched, HasBooking
    <3> QED  BY <3>2, <3>3
  <2> QED  BY <2>1, <2>2
<1>2. \A p \in Players : p \in X /\ Human(q[p]) => q[p].opp \in X
  OBVIOUS
<1> QED  BY <1>1, <1>2, TogetherByKeys

\* Players who have no bookings leave, each one's opponent with him.
LEMMA WithoutBookings ==
    ASSUME NEW q \in Entries, NEW g \in Bookings, NEW X, X \subseteq Players, Matched(q, g),
           \A p \in X : q[p].stat \notin {Booked, Playing},
           \A p \in X : Human(q[p]) => q[p].opp \in X
    PROVE  Together(q, g, X, g)
<1>1. ASSUME NEW k \in Requests
      PROVE  g[k].pid \notin X
  <2>1. IsNamed(q, g, k)
    BY DEF Matched
  <2> QED  BY <2>1, PlayersAssumption DEF IsNamed
<1> QED  BY <1>1 DEF Together

\* An entry is deleted.
LEMMA OneLeaves ==
    ASSUME NEW q \in Entries, NEW p \in Players
    PROVE  [q EXCEPT ![p] = NoEntry] = Less(q, {p})
  BY DEF Less, Entries

\* clear_stuff and dropAllMatchmakingData: a player leaves with the booking he
\* names; `torn` tells when it was not his alone.
LEMMA OneLeavesWithHisBooking ==
    ASSUME NEW p \in Players, MatchInv, RequestsGoOn,
           UNCHANGED <<clock, lp, mail, sq, free>>,
           qplr' = [qplr EXCEPT ![p] = NoEntry],
           grmb' = IF qplr[p].ky # 0 /\ qplr[p].grip
                   THEN [grmb EXCEPT ![qplr[p].ky] = NoBooking] ELSE grmb,
           torn' = (torn \/ Human(qplr[p]))
    PROVE  MatchInv'
<1>1. /\ qplr \in Entries /\ sq \in Queues /\ grmb \in Bookings /\ EntriesSound(qplr)
      /\ qplr[p] \in Entry /\ qplr[p].ky \in 0..MaxRequests
  BY EntryParts DEF MatchInv, StoreSound
<1> DEFINE l == Less(qplr, {p})
           keys == IF qplr[p].ky # 0 /\ qplr[p].grip THEN {qplr[p].ky} ELSE {}
           g == [k \in 0..MaxRequests |-> IF k \in keys THEN NoBooking ELSE grmb[k]]
           X == {p}
<1>2. grmb' = g /\ g \in Bookings
  BY <1>1, NothingIsTyped DEF Bookings
<1>3. qplr' = l
  BY <1>1, OneLeaves
<1>4. RestTyped'
  BY DEF MatchInv, RestTyped, Human, Found, Playing
<1>5. torn \in BOOLEAN /\ (~torn' => ~torn /\ ~Human(qplr[p]))
  BY DEF MatchInv, RestTyped
<1>6. ASSUME ~torn', Matched(qplr, grmb)
      PROVE  Together(qplr, grmb, X, g)
  <2>1. \A k \in 0..MaxRequests : g[k] = IF k \in keys THEN NoBooking ELSE grmb[k]
    OBVIOUS
  <2>2. \A k \in Requests : k \in keys <=> \E o \in X : qplr[o].ky = k /\ qplr[o].grip
    BY BoundsAssumption DEF Requests
  <2>3. \A o \in X : Human(qplr[o]) => qplr[o].opp \in X
    BY <1>5, <1>6
  <2>4. X \subseteq Players
    OBVIOUS
  <2> HIDE DEF keys, g, X
  <2> QED  BY <1>1, <1>6, <2>1, <2>2, <2>3, <2>4, WithTheirBookings
<1>7. \A o \in Players \ X, m \in Segments : o \in sq[m] => o \in sq[m]
  OBVIOUS
<1>8. ~torn' => ~torn
  BY <1>5
<1>9. ~torn' /\ KeysDiffer(qplr) /\ Matched(qplr, grmb) => Together(qplr, grmb, X, g)
  BY <1>6
<1>10. l = Less(qplr, X) /\ sq' = sq
  OBVIOUS
<1> HIDE DEF l, g, X
<1> QED  BY <1>1, <1>2, <1>3, <1>4, <1>7, <1>8, <1>9, <1>10, LeavingKeeps

\* dropAllMatchmakingData.
LEMMA DropKeeps ==
    ASSUME NEW r \in Requests, MatchInv, Drop(r)
    PROVE  MatchInv'
<1> DEFINE p == req[r].pid
<1>1. p \in Players
  BY Asker DEF Drop, Op
<1>2. RequestsGoOn /\ UNCHANGED <<clock, lp, mail, sq, free>>
  BY EndsGoesOn DEF Drop, Op
<1>3. /\ qplr' = [qplr EXCEPT ![p] = NoEntry]
      /\ grmb' = IF qplr[p].ky # 0 /\ qplr[p].grip
                 THEN [grmb EXCEPT ![qplr[p].ky] = NoBooking] ELSE grmb
      /\ torn' = (torn \/ Human(qplr[p]))
  BY DEF Drop
<1> HIDE DEF p
<1> QED  BY <1>1, <1>2, <1>3, OneLeavesWithHisBooking

\* checkInQueue.
LEMMA CheckInQueueKeeps ==
    ASSUME NEW r \in Requests, MatchInv, CheckInQueue(r)
    PROVE  MatchInv'
<1> DEFINE p == req[r].pid
<1>1. p \in Players
  BY Asker DEF CheckInQueue
<1>2. RequestsGoOn
  <2>1. PICK where \in {"answer", "op", "wait", "over"} : GoTo(r, where)
    BY DEF CheckInQueue, Parked
  <2> QED  BY <2>1, GoToGoesOn DEF CheckInQueue, Early
<1>3. UNCHANGED <<clock, asked, lp, mail, sq, free>>
  BY DEF CheckInQueue
<1>4. UNCHANGED <<qplr, grmb, torn>> \/ Clear(p)
  BY DEF CheckInQueue
<1> HIDE DEF p
<1>5. CASE UNCHANGED <<qplr, grmb, torn>>
  <2>1. RestTyped'
    BY <1>3, <1>5 DEF MatchInv, RestTyped
  <2> QED  BY <1>2, <1>3, <1>5, <2>1, StoreStays
<1>6. CASE /\ qplr[p].ky # 0 /\ qplr[p].grip
           /\ qplr' = [qplr EXCEPT ![p] = NoEntry]
           /\ grmb' = [grmb EXCEPT ![qplr[p].ky] = NoBooking]
           /\ torn' = (torn \/ Human(qplr[p]))
  BY <1>1, <1>2, <1>3, <1>6, OneLeavesWithHisBooking
<1> QED  BY <1>4, <1>5, <1>6 DEF Clear

\* stopSearching.
LEMMA StopSearchingKeeps ==
    ASSUME NEW r \in Requests, MatchInv, StopSearching(r)
    PROVE  MatchInv'
<1> DEFINE p == req[r].pid
           m == qplr[p].segm
           queue == [sq EXCEPT ![m] = @ \ {p}]
           X == {p}
           l == Less(qplr, X)
<1>1. p \in Players
  BY Asker DEF StopSearching, Op
<1>2. RequestsGoOn /\ UNCHANGED <<clock, lp, mail, grmb, free, torn>>
  BY EndsGoesOn DEF StopSearching, Op
<1>3. /\ qplr \in Entries /\ sq \in Queues /\ grmb \in Bookings /\ m \in Segments
  BY <1>1, EntryParts DEF MatchInv, StoreSound
<1>4. RestTyped'
  BY SMTT(60), <1>2 DEF MatchInv, RestTyped
<1>5. \/ UNCHANGED <<qplr, sq>>
      \/ /\ qplr[p].stat = Searching /\ sq' = queue
         /\ qplr' = [qplr EXCEPT ![p] = NoEntry]
  BY ZenonT(60) DEF StopSearching
<1> HIDE DEF p, m
<1>6. CASE UNCHANGED <<qplr, sq>>
  BY <1>2, <1>4, <1>6, StoreStays
<1>7. CASE /\ qplr[p].stat = Searching /\ sq' = queue
           /\ qplr' = [qplr EXCEPT ![p] = NoEntry]
  <2>1. qplr' = l
    BY <1>1, <1>3, <1>7, OneLeaves
  <2>2. /\ queue \in Queues
        /\ \A o \in Players \ X, n \in Segments : o \in sq[n] => o \in queue[n]
    BY <1>3 DEF Queues
  <2>3. ASSUME Matched(qplr, grmb)
        PROVE  Together(qplr, grmb, X, grmb)
    <3>1. /\ \A o \in X : qplr[o].stat \notin {Booked, Playing}
          /\ \A o \in X : ~Human(qplr[o])
      BY <1>7 DEF Human, Searching, Found, Booked, Playing
    <3>2. X \subseteq Players
      BY <1>1
    <3> HIDE DEF X
    <3> QED  BY <1>3, <2>3, <3>1, <3>2, WithoutBookings
  <2>4. sq' = queue /\ l = Less(qplr, X)
    BY <1>7
  <2> HIDE DEF X, l, queue
  <2> QED  BY <1>2, <1>3, <1>4, <2>1, <2>2, <2>3, <2>4, LeavingKeeps
<1> QED  BY <1>5, <1>6, <1>7

\* removeQplrAndGmrb.
LEMMA BattleEndsKeeps ==
    ASSUME NEW who, who \subseteq Players, MatchInv, BattleEnds(who)
    PROVE  MatchInv'
<1> DEFINE X == {p \in who : Named(p)}
           l == Less(qplr, X)
           keys == {qplr[p].ky : p \in X}
           g == [k \in DOMAIN grmb |-> IF \E p \in X : qplr[p].ky = k THEN NoBooking ELSE grmb[k]]
<1>1. /\ qplr \in Entries /\ sq \in Queues /\ grmb \in Bookings /\ EntriesSound(qplr)
  BY DEF MatchInv, StoreSound
<1>2. UNCHANGED <<clock, asked, req, lp, mail, sq, free>> /\ qplr' = l /\ grmb' = g
  BY DEF BattleEnds, Less
<1>3. /\ torn \in BOOLEAN /\ torn' \in BOOLEAN
      /\ (~torn' => ~torn /\ \A p \in X : Human(qplr[p]) => qplr[p].opp \in X)
  <2>1. torn' = (torn \/ \E p \in X : Human(qplr[p]) /\ qplr[p].opp \notin X)
    BY DEF BattleEnds
  <2>2. torn \in BOOLEAN
    BY DEF MatchInv, RestTyped
  <2> HIDE DEF X
  <2> QED  BY <2>1, <2>2
<1>4. X \subseteq Players /\ \A p \in X : qplr[p].ky # 0 /\ qplr[p].grip
  BY DEF Named
<1>5. \A p \in who : Named(p) => p \in X
  OBVIOUS
<1> HIDE DEF X
<1>6. g \in Bookings /\ \A k \in 0..MaxRequests : g[k] = IF k \in keys THEN NoBooking ELSE grmb[k]
  BY <1>1, NothingIsTyped DEF Bookings
<1>7. RestTyped'
  BY <1>2, <1>3 DEF MatchInv, RestTyped
<1>8. RequestsGoOn
  BY <1>2 DEF MatchInv, RequestsSound, RequestsGoOn
<1>9. ASSUME ~torn', Matched(qplr, grmb)
      PROVE  Together(qplr, grmb, X, g)
  <2>1. \A k \in Requests : k \in keys <=> \E p \in X : qplr[p].ky = k /\ qplr[p].grip
    BY <1>4
  <2>2. \A p \in X : Human(qplr[p]) => qplr[p].opp \in X
    BY <1>3, <1>9
  <2> HIDE DEF keys, g
  <2> QED  BY <1>1, <1>4, <1>6, <1>9, <2>1, <2>2, WithTheirBookings
<1>10. \A p \in Players \ X, m \in Segments : p \in sq[m] => p \in sq[m]
  OBVIOUS
<1>11. ~torn' /\ KeysDiffer(qplr) /\ Matched(qplr, grmb) => Together(qplr, grmb, X, g)
  BY <1>9
<1>12. (~torn' => ~torn) /\ l = Less(qplr, X) /\ sq' = sq
  BY <1>2, <1>3
<1> HIDE DEF l, g
<1> QED  BY <1>1, <1>2, <1>6, <1>7, <1>8, <1>10, <1>11, <1>12, LeavingKeeps

\* A battle is over.
LEMMA LeaveRoomKeeps ==
    ASSUME NEW p \in Players, MatchInv, LeaveRoom(p)
    PROVE  MatchInv'
<1>1. qplr[p].opp \in Players \cup {NoOne}
  BY EntryParts DEF MatchInv, StoreSound
<1>2. \/ BattleEnds({p})
      \/ qplr[p].opp # NoOne /\ BattleEnds({p, qplr[p].opp})
  BY DEF LeaveRoom
<1>3. CASE BattleEnds({p})
  BY <1>3, BattleEndsKeeps
<1>4. CASE qplr[p].opp # NoOne /\ BattleEnds({p, qplr[p].opp})
  <2> DEFINE who == {p, qplr[p].opp}
  <2>1. who \subseteq Players /\ BattleEnds(who)
    BY <1>1, <1>4
  <2> HIDE DEF who
  <2> QED  BY <2>1, BattleEndsKeeps
<1> QED  BY <1>2, <1>3, <1>4

-----------------------------------------------------------------------------
(* refreshStats.                                                           *)

\* A script that leaves the store s and the messages box.
LEMMA BecomesKeeps ==
    ASSUME NEW s \in Store, NEW r \in Requests, NEW where \in {"answer", "op", "check"},
           MatchInv, req[r].at = "refresh", GoTo(r, where), Becomes(s),
           UNCHANGED <<clock, asked, lp, free, torn>>, mail' \in [Players -> Seq(1..5)],
           StoreSound(s.qplr, s.sq, s.grmb),
           Matched(qplr, grmb) => Matched(s.qplr, s.grmb),
           \A p \in Players : s.qplr[p] \in {NoEntry, qplr[p]}
    PROVE  MatchInv'
<1>1. RequestsGoOn
  BY GoToGoesOn DEF Early
<1>2. RestTyped'
  BY DEF MatchInv, RestTyped
<1>3. qplr' = s.qplr /\ sq' = s.sq /\ grmb' = s.grmb
  BY DEF Becomes
<1>4. StoreSound(qplr', sq', grmb') /\ (~torn' => Matched(qplr', grmb'))
  BY <1>3 DEF MatchInv
<1>5. \A p \in Players : qplr'[p].ky \in {0, qplr[p].ky}
  <2> SUFFICES ASSUME NEW p \in Players
               PROVE  qplr'[p].ky \in {0, qplr[p].ky}
    OBVIOUS
  <2>1. qplr'[p] \in {NoEntry, qplr[p]}
    BY <1>3
  <2> QED  BY <2>1, NothingIsTyped
<1> QED  BY <1>1, <1>2, <1>4, <1>5, StepKeeps

\* A call that was not answered goes on to its operation or its check.
LEMMA RefreshGoesOn ==
    ASSUME NEW r
    PROVE  AfterRefresh(r) \in {"answer", "op", "check"}
BY DEF AfterRefresh

\* The whole script: two looks and the messages.  It only takes entries away.
LEMMA RefreshKeeps ==
    ASSUME NEW r \in Requests, MatchInv, Refresh(r)
    PROVE  MatchInv' /\ \A x \in Players : qplr'[x] \in {NoEntry, qplr[x]}
<1> DEFINE p == req[r].pid
           now == req[r].now
           own == ProcessKey(Shared, p, now)
           Sound(s) == /\ s \in Store /\ StoreSound(s.qplr, s.sq, s.grmb)
                       /\ (Matched(qplr, grmb) => Matched(s.qplr, s.grmb))
                       /\ \A x \in Players : s.qplr[x] \in {NoEntry, qplr[x]}
<1>1. p \in Players /\ req[r].at = "refresh"
  BY ZenonT(60), Asker DEF Refresh
<1>2. StoreSound(qplr, sq, grmb) /\ qplr \in Entries /\ sq \in Queues /\ grmb \in Bookings
  BY DEF MatchInv, StoreSound
<1>3. Sound(Shared)
  <2>1. <<>> \in Told
    BY DEF Told
  <2>2. Shared \in Store
    BY <1>2, <2>1 DEF Shared, Store
  <2>3. Shared.qplr = qplr /\ Shared.sq = sq /\ Shared.grmb = grmb
    BY DEF Shared
  <2> QED  BY <1>2, <2>2, <2>3
<1>4. ASSUME NEW s, Sound(s), NEW o \in Players
      PROVE  Sound(ProcessKey(s, o, now))
  <2> DEFINE t == ProcessKey(s, o, now)
             time == now
  <2> HIDE DEF time
  <2>1. Looked(s, ProcessKey(s, o, time))
    BY <1>2, <1>4, ProcessKeyLooks
  <2>2. Looked(s, t)
    BY <2>1 DEF time
  <2> HIDE DEF t
  <2>3. /\ t \in Store /\ StoreSound(t.qplr, t.sq, t.grmb)
        /\ (Matched(s.qplr, s.grmb) => Matched(t.qplr, t.grmb))
        /\ \A x \in Players : t.qplr[x] \in {NoEntry, s.qplr[x]}
    BY <1>4, <2>2, LookKeeps
  <2>4. \A x \in Players : t.qplr[x] \in {NoEntry, qplr[x]}
    BY <1>4, <2>3
  <2>5. Sound(t)
    BY <1>4, <2>3, <2>4
  <2> QED  BY <2>5 DEF t
<1>5. Sound(own)
  BY <1>1, <1>3, <1>4
<1>6. \A o \in Players : Sound(ProcessKey(own, o, now))
  <2> HIDE DEF own, now, Sound
  <2> QED  BY <1>4, <1>5
<1>a. AfterRefresh(r) \in {"answer", "op", "check"}
  BY RefreshGoesOn
<1>7. \E s, where : /\ Sound(s) /\ where \in {"answer", "op", "check"}
                    /\ Becomes(s) /\ GoTo(r, where)
                    /\ \/ mail' = mail
                       \/ mail' = [Publish(s.gone, 5, mail) EXCEPT ![p] = mail[p]]
  <2> DEFINE hit == own.gone # <<>>
             done == IF hit /\ req[r].kind \in ToldByRefresh THEN "answer" ELSE AfterRefresh(r)
             Box(s) == [Publish(s.gone, 5, mail) EXCEPT ![p] = mail[p]]
  <2>1. AfterRefresh(r) \in {"answer", "op", "check"} /\ done \in {"answer", "op", "check"}
    <3> HIDE DEF hit
    <3> QED  BY ONLY SMTT(60), <1>a
  <2>2. \/ Becomes(Shared) /\ GoTo(r, AfterRefresh(r)) /\ mail' = mail
        \/ Becomes(own) /\ mail' = Box(own) /\ GoTo(r, done)
        \/ \E o \in Players :
              \/ Becomes(own) /\ GoTo(r, AfterRefresh(r)) /\ mail' = mail
              \/ /\ Becomes(ProcessKey(own, o, now)) /\ mail' = Box(ProcessKey(own, o, now))
                 /\ GoTo(r, done)
    BY ZenonT(60) DEF Refresh
  <2> HIDE DEF own, now, p, Sound, done
  <2> QED  BY <1>3, <1>5, <1>6, <2>1, <2>2
<1>8. PICK s, where : /\ Sound(s) /\ where \in {"answer", "op", "check"}
                      /\ Becomes(s) /\ GoTo(r, where)
                      /\ \/ mail' = mail
                         \/ mail' = [Publish(s.gone, 5, mail) EXCEPT ![p] = mail[p]]
  BY <1>7
<1>9. mail' \in [Players -> Seq(1..5)]
  <2>1. mail \in [Players -> Seq(1..5)]
    BY DEF MatchInv, RestTyped
  <2>2. s.gone \in Told
    BY <1>8 DEF Store
  <2> DEFINE told == s.gone
             box == Publish(told, 5, mail)
  <2> HIDE DEF told
  <2>3. box \in [Players -> Seq(1..5)]
    BY <2>1, <2>2, PublishIsTyped DEF told
  <2>4. mail' = mail \/ mail' = [box EXCEPT ![p] = mail[p]]
    BY SMTT(60), <1>8 DEF told
  <2> HIDE DEF box, p
  <2> QED  BY <1>1, <2>1, <2>3, <2>4
<1>10. UNCHANGED <<clock, asked, lp, free, torn>>
  BY ZenonT(60) DEF Refresh
<1> HIDE DEF p, own, now
<1>11. MatchInv'
  BY <1>1, <1>8, <1>9, <1>10, BecomesKeeps
<1>12. qplr' = s.qplr
  BY <1>8 DEF Becomes
<1> QED  BY ONLY SMTT(60), <1>8, <1>11, <1>12

-----------------------------------------------------------------------------
(* Players search and are paired.                                          *)

\* Who has neither a match nor a booking may get one: the matches of the
\* others stay as they are.
LEMMA BystandersKeep ==
    ASSUME NEW q \in Entries, NEW q1, NEW g \in Bookings, Matched(q, g),
           \A x \in Players : q[x].stat \in Found..Playing => q1[x] = q[x],
           \A x \in Players : q[x].stat \notin Found..Playing =>
               PairSound(q1, x) /\ q1[x].stat \notin {Booked, Playing}
    PROVE  Matched(q1, g)
<1>1. ASSUME NEW x \in Players
      PROVE  PairSound(q1, x)
  <2>1. CASE Human(q[x])
    <3>1. /\ q[x].opp \in Players /\ Human(q[q[x].opp]) /\ PairSound(q, x)
      BY <2>1 DEF Matched, PairSound
    <3>2. q1[x] = q[x] /\ q1[q[x].opp] = q[q[x].opp]
      BY <2>1, <3>1 DEF Human
    <3> QED  BY <3>1, <3>2 DEF PairSound
  <2>2. CASE ~Human(q[x]) /\ q[x].stat \in Found..Playing
    BY <2>2 DEF PairSound
  <2> QED  BY <2>1, <2>2
<1>2. ASSUME NEW x \in Players
      PROVE  HasBooking(q1, g, x)
  <2>1. {Booked, Playing} \subseteq Found..Playing
    BY DEF Found, Booked, Playing
  <2>2. CASE q[x].stat \in Found..Playing
    <3>1. q1[x] = q[x] /\ HasBooking(q, g, x)
      BY <2>2 DEF Matched
    <3> QED  BY <3>1 DEF HasBooking
  <2>3. CASE q[x].stat \notin Found..Playing
    BY <2>3 DEF HasBooking
  <2> QED  BY <2>2, <2>3
<1>3. ASSUME NEW k \in Requests
      PROVE  IsNamed(q1, g, k)
  <2>1. {Booked, Playing} \subseteq Found..Playing
    BY DEF Found, Booked, Playing
  <2>2. ASSUME g[k].pid # NoOne, g[k].pid \in Players
        PROVE  q1[g[k].pid].stat \in {Booked, Playing} /\ q1[g[k].pid].ky = k
    <3>1. q[g[k].pid].stat \in {Booked, Playing} /\ q[g[k].pid].ky = k
      BY <2>2 DEF Matched, IsNamed
    <3>2. q1[g[k].pid] = q[g[k].pid]
      BY <2>1, <2>2, <3>1
    <3> QED  BY <3>1, <3>2
  <2>3. g[k].pid \in Players \cup {NoOne}
    BY BoundsAssumption DEF Bookings, BookingRecord, Requests
  <2> QED  BY <2>2, <2>3 DEF IsNamed
<1> QED  BY <1>1, <1>2, <1>3 DEF Matched

\* A new entry of the r-th request, and others that leave or keep their keys.
LEMMA NewKeyDiffers ==
    ASSUME NEW r \in Requests, NEW p \in Players, NEW q1, MatchInv, req[r].at = "op",
           q1[p].ky = r, \A x \in Players \ {p} : q1[x].ky \in {0, qplr[x].ky}
    PROVE  KeysDiffer(q1)
<1>1. \A x \in Players : qplr[x].ky # r
  BY BoundsAssumption DEF MatchInv, KeysMinted, Early, Requests
<1>2. KeysDiffer(qplr)
  BY DEF MatchInv, StoreSound
<1>3. \A x, o \in Players : x # o /\ q1[x].ky = q1[o].ky => q1[x].ky = 0
  BY <1>1, <1>2 DEF KeysDiffer
<1> QED  BY <1>3 DEF KeysDiffer

\* Of the request r: an entry in a queue, one of a match, one of a match with a bot.
Queued(r, now, s) == [NoEntry EXCEPT !.stat = Searching, !.ky = r, !.upd = now, !.segm = s]
FoundBy(o, r, now, s) ==
    [NoEntry EXCEPT !.stat = Found, !.opp = o, !.ky = r, !.upd = now, !.segm = s]
FoundBot(o, r, now) ==
    [NoEntry EXCEPT !.stat = Found, !.opp = o, !.opbot = TRUE, !.ky = r, !.upd = now]

\* A sound entry under the key r: it waits in the queue of its segment.
LEMMA QueuedIsSound ==
    ASSUME NEW r \in Requests, NEW now \in 0..MaxTime, NEW s \in Segments
    PROVE  /\ Queued(r, now, s) \in Entry /\ EntrySound(Queued(r, now, s))
           /\ Queued(r, now, s).ky = r /\ Queued(r, now, s).stat = Searching
           /\ Queued(r, now, s).segm = s
<1> DEFINE e == Queued(r, now, s)
<1>1. r \in 0..MaxRequests /\ r # 0
  BY BoundsAssumption DEF Requests
<1>2. Searching \in Absent..Playing
  BY DEF Absent, Searching, Found, Playing
<1>3. /\ e \in Entry /\ e.stat = Searching /\ e.ky = r /\ e.grip = FALSE
      /\ e.segm = s /\ e.opbot = FALSE
  BY <1>1, <1>2, NothingIsTyped DEF Queued, Entry
<1> HIDE DEF e
<1>4. EntrySound(e)
  BY <1>1, <1>3 DEF EntrySound, Searching, Found, Accepted, Booked, Playing
<1> QED  BY <1>3, <1>4 DEF e

\* A sound entry under the key r: the opponent is a player.
SoundlyFound(e, r, o) ==
    /\ e \in Entry /\ EntrySound(e)
    /\ e.ky = r /\ e.stat = Found /\ e.opp = o /\ e.opbot = FALSE

LEMMA FoundByIsSound ==
    ASSUME NEW r \in Requests, NEW now \in 0..MaxTime, NEW s \in Segments, NEW o \in Players
    PROVE  SoundlyFound(FoundBy(o, r, now, s), r, o)
<1> DEFINE e == FoundBy(o, r, now, s)
<1>1. r \in 0..MaxRequests /\ r # 0
  BY BoundsAssumption DEF Requests
<1>2. Found \in Absent..Playing
  BY DEF Absent, Searching, Found, Playing
<1>3. /\ e \in Entry /\ e.stat = Found /\ e.ky = r /\ e.grip = FALSE
      /\ e.opp = o /\ e.opbot = FALSE
  BY <1>1, <1>2, NothingIsTyped DEF FoundBy, Entry
<1> HIDE DEF e
<1>4. EntrySound(e)
  BY <1>1, <1>3 DEF EntrySound, Searching, Found, Accepted, Booked, Playing
<1>5. SoundlyFound(e, r, o)
  BY <1>3, <1>4 DEF SoundlyFound
<1> QED  BY <1>5 DEF e

\* A sound entry under the key r: a bot plays the profile of a player.
LEMMA FoundBotIsSound ==
    ASSUME NEW r \in Requests, NEW now \in 0..MaxTime, NEW o \in Players
    PROVE  /\ FoundBot(o, r, now) \in Entry /\ EntrySound(FoundBot(o, r, now))
           /\ FoundBot(o, r, now).ky = r /\ FoundBot(o, r, now).stat = Found
           /\ FoundBot(o, r, now).opbot = TRUE
<1> DEFINE e == FoundBot(o, r, now)
<1>1. r \in 0..MaxRequests /\ r # 0
  BY BoundsAssumption DEF Requests
<1>2. Found \in Absent..Playing
  BY DEF Absent, Searching, Found, Playing
<1>3. /\ e \in Entry /\ e.stat = Found /\ e.ky = r /\ e.grip = FALSE
      /\ e.opp = o /\ e.opbot = TRUE
  BY <1>1, <1>2, NothingIsTyped DEF FoundBot, Entry
<1> HIDE DEF e
<1>4. EntrySound(e)
  BY <1>1, <1>3 DEF EntrySound, Searching, Found, Accepted, Booked, Playing
<1> QED  BY <1>3, <1>4 DEF e

\* A player finds no one and queues up; or finds c; the names of those who
\* search no more and of those who search for too long go from the queue.
LEMMA SearchKeeps ==
    ASSUME NEW r \in Requests, MatchInv, SearchForOpponent(r)
    PROVE  MatchInv'
<1> DEFINE p == req[r].pid
           now == req[r].now
<1>1. p \in Players /\ now \in 0..MaxTime
  BY Asker DEF SearchForOpponent, Op
<1>2. PICK s \in Segments : \E seen \in SUBSET sq[s] :
         \/ \E c \in seen \ (Gone(seen) \cup Late(seen, now) \cup {p}) : PairWith(r, s, seen, c)
         \/ QueueUp(r, s, seen)
  BY DEF SearchForOpponent
<1>0. PICK seen \in SUBSET sq[s] :
         \/ \E c \in seen \ (Gone(seen) \cup Late(seen, now) \cup {p}) : PairWith(r, s, seen, c)
         \/ QueueUp(r, s, seen)
  BY <1>2
<1> DEFINE gone == Gone(seen)
           late == Late(seen, now)
           out == gone \cup late
<1>3. /\ qplr \in Entries /\ sq \in Queues /\ grmb \in Bookings /\ EntriesSound(qplr)
      /\ KeysDiffer(qplr) /\ QueueSound(qplr, sq) /\ (~torn => Matched(qplr, grmb))
  BY DEF MatchInv, StoreSound
<1>4. /\ seen \subseteq Players
      /\ \A x \in seen : x \in gone <=> qplr[x].stat # Searching
      /\ \A x \in late : x \in Players /\ qplr[x].stat = Searching
      /\ gone \subseteq seen
  BY <1>3 DEF Queues, Gone, Late
<1>5. qplr[p].stat = Absent /\ req[r].at = "op" /\ UNCHANGED <<grmb, free, torn>>
  BY DEF SearchForOpponent, In, Op
<1> HIDE DEF gone, late
<1>6. ASSUME NEW x \in Players, x \in out
      PROVE  qplr[x].stat # Searching \/ x \in late
  BY <1>4, <1>6
<1>7. CASE QueueUp(r, s, seen)
  <2> DEFINE mine == Queued(r, now, s)
             q1 == [x \in Players |-> IF x = p THEN mine ELSE IF x \in late THEN NoEntry ELSE qplr[x]]
             queue == [sq EXCEPT ![s] = (@ \ out) \cup {p}]
  <2>1. qplr' = q1 /\ sq' = queue /\ GoTo(r, Parked(req[r])) /\ UNCHANGED <<clock, asked, lp, mail>>
    <3>2. /\ qplr' = [x \in Players |->
                     IF x = p THEN [NoEntry EXCEPT !.stat = Searching, !.ky = r, !.upd = now, !.segm = s]
                     ELSE IF x \in Late(seen, now) THEN NoEntry ELSE qplr[x]]
          /\ sq' = [sq EXCEPT ![s] = (@ \ (Gone(seen) \cup Late(seen, now))) \cup {p}]
          /\ GoTo(r, Parked(req[r]))
          /\ UNCHANGED <<clock, asked, lp, mail>>
      BY <1>7 DEF QueueUp
    <3> HIDE DEF p, now
    <3> QED  BY <3>2 DEF late, gone, Queued
  <2>2. /\ mine \in Entry /\ EntrySound(mine)
        /\ mine.stat = Searching /\ mine.ky = r /\ mine.segm = s
    <3> HIDE DEF now
    <3> QED  BY <1>1, QueuedIsSound
  <2>3. mine.stat = Searching /\ mine.ky = r /\ mine.segm = s
    BY <2>2
  <2> HIDE DEF mine, p, now
  <2>4. /\ q1 \in Entries
        /\ \A x \in Players :
              q1[x] = IF x = p THEN mine ELSE IF x \in late THEN NoEntry ELSE qplr[x]
    BY <1>3, <2>2, NothingIsTyped DEF Entries
  <2>5. /\ queue \in Queues /\ p \in queue[s]
        /\ \A x \in Players, m \in Segments : x \in sq[m] /\ x \notin out => x \in queue[m]
    BY <1>1, <1>3 DEF Queues
  <2>6. RequestsGoOn /\ req'[r].at \notin Early
    BY <1>5, <2>1, GoToGoesOn DEF Parked, Early
  <2>7. RestTyped'
    BY <1>5, <2>1 DEF MatchInv, RestTyped
  <2> HIDE DEF q1, queue, out
  <2>8. EntriesSound(q1)
    BY <1>3, <2>2, <2>4, NothingIsSound DEF EntriesSound
  <2>9. \A x \in Players \ {p} : q1[x].ky \in {0, qplr[x].ky}
    BY <2>4, NothingIsTyped
  <2>10. KeysDiffer(q1)
    BY <1>1, <1>5, <2>3, <2>4, <2>9, NewKeyDiffers
  <2>11. QueueSound(q1, queue)
    <3> SUFFICES ASSUME NEW x \in Players, q1[x].stat = Searching
                 PROVE  x \in queue[q1[x].segm]
      BY DEF QueueSound
    <3>1. CASE x = p
      BY <2>3, <2>4, <2>5, <3>1
    <3>2. CASE x # p
      <4>1. x \notin late /\ q1[x] = qplr[x]
        BY <2>4, <3>2, NothingIsTyped DEF Searching, Absent
      <4>2. x \in sq[qplr[x].segm] /\ qplr[x].segm \in Segments /\ qplr[x].stat = Searching
        BY <1>3, <4>1, EntryParts DEF QueueSound
      <4> QED  BY <1>6, <2>5, <4>1, <4>2
    <3> QED  BY <3>1, <3>2
  <2>12. ASSUME Matched(qplr, grmb)
         PROVE  Matched(q1, grmb)
    <3>1. \A x \in Players : qplr[x].stat \in Found..Playing => q1[x] = qplr[x]
      BY <1>4, <1>5, <2>4 DEF Absent, Searching, Found, Playing
    <3>2. ASSUME NEW x \in Players, qplr[x].stat \notin Found..Playing
          PROVE  PairSound(q1, x) /\ q1[x].stat \notin {Booked, Playing}
      <4>1. q1[x].stat \notin Found..Playing
        BY <2>3, <2>4, <3>2, NothingIsTyped DEF Absent, Searching, Found, Playing
      <4> QED  BY <4>1 DEF PairSound, Human, Found, Booked, Playing
    <3> QED  BY <1>3, <2>12, <3>1, <3>2, BystandersKeep
  <2>13. StoreSound(qplr', sq', grmb')
    BY <1>3, <1>5, <2>1, <2>4, <2>5, <2>8, <2>10, <2>11 DEF StoreSound
  <2>14. ~torn' => Matched(qplr', grmb')
    BY <1>3, <1>5, <2>1, <2>12
  <2>15. ASSUME NEW x \in Players
         PROVE  \/ qplr'[x].ky \in {0, qplr[x].ky}
                \/ \E y \in Requests :
                      qplr'[x].ky = y /\ req[y].at \in Early /\ req'[y].at \notin Early
    BY <1>5, <2>1, <2>3, <2>4, <2>6, <2>9 DEF Early
  <2> QED  BY <2>6, <2>7, <2>13, <2>14, <2>15, StepKeeps
<1>8. ASSUME NEW c \in seen \ (Gone(seen) \cup Late(seen, now) \cup {p}), PairWith(r, s, seen, c)
      PROVE  MatchInv'
  <2> DEFINE mine == FoundBy(c, r, now, s)
             his == [qplr[c] EXCEPT !.stat = Found, !.opp = p, !.upd = now, !.segm = s]
             q1 == [x \in Players |-> IF x = p THEN mine ELSE IF x = c THEN his
                                      ELSE IF x \in late THEN NoEntry ELSE qplr[x]]
             queue == [sq EXCEPT ![s] = @ \ (out \cup {p, c})]
  <2>1. c \in Players /\ c # p /\ qplr[c].stat = Searching /\ c \notin late
    BY <1>4, <1>8 DEF gone, late
  <2>2. /\ qplr' = q1 /\ sq' = queue /\ Tell(c, 1) /\ Ends(r)
    <3>2. /\ qplr' = [x \in Players |->
                     IF x = p THEN [NoEntry EXCEPT !.stat = Found, !.opp = c, !.ky = r,
                                                   !.upd = now, !.segm = s]
                     ELSE IF x = c THEN his
                     ELSE IF x \in Late(seen, now) THEN NoEntry ELSE qplr[x]]
          /\ sq' = [sq EXCEPT ![s] = @ \ (Gone(seen) \cup Late(seen, now) \cup {p, c})]
          /\ Tell(c, 1) /\ Ends(r)
      BY <1>8 DEF PairWith
    <3> HIDE DEF his, p, now
    <3> QED  BY <3>2 DEF late, gone, FoundBy
  <2>3. /\ mine \in Entry /\ EntrySound(mine)
        /\ mine.stat = Found /\ mine.ky = r /\ mine.opp = c /\ mine.opbot = FALSE
    <3>1. now \in 0..MaxTime /\ c \in Players /\ s \in Segments /\ r \in Requests
      BY <1>1, <2>1
    <3> HIDE DEF now, p, his, q1, queue, out
    <3>2. SoundlyFound(FoundBy(c, r, now, s), r, c)
      BY ONLY ZenonT(60), <3>1, FoundByIsSound
    <3> HIDE DEF mine
    <3>3. SoundlyFound(mine, r, c)
      BY <3>2 DEF mine
    <3> QED  BY <3>3 DEF SoundlyFound
  <2>4. mine.stat = Found /\ mine.ky = r /\ mine.opp = c /\ mine.opbot = FALSE
    BY <2>3
  <2>5. qplr[c] \in Entry /\ EntrySound(qplr[c]) /\ Found \in Absent..Playing
    BY <1>3, <2>1, EntryParts DEF EntriesSound, Absent, Found, Playing
  <2> HIDE DEF mine, p, now
  <2>6. /\ his \in Entry /\ his.stat = Found /\ his.ky = qplr[c].ky /\ his.opp = p
        /\ his.opbot = qplr[c].opbot /\ his.grip = qplr[c].grip
    BY <1>1, <2>5 DEF Entry
  <2> HIDE DEF his
  <2>7. EntrySound(his) /\ his.opbot = FALSE
    <3>1. qplr[c].opbot \in BOOLEAN /\ qplr[c].grip \in BOOLEAN
      BY <2>5 DEF Entry
    <3> QED  BY <1>1, <2>1, <2>5, <2>6, <3>1
             DEF EntrySound, Searching, Found, Accepted, Booked, Playing
  <2>8. /\ q1 \in Entries
        /\ \A x \in Players : q1[x] = IF x = p THEN mine ELSE IF x = c THEN his
                                      ELSE IF x \in late THEN NoEntry ELSE qplr[x]
    BY <1>3, <2>3, <2>6, NothingIsTyped DEF Entries
  <2>9. /\ queue \in Queues
        /\ \A x \in Players, m \in Segments :
              x \in sq[m] /\ x \notin out /\ x \notin {p, c} => x \in queue[m]
    BY <1>3 DEF Queues
  <2>10. RequestsGoOn /\ req'[r].at \notin Early /\ clock' = clock /\ lp' = lp
    BY <1>5, <2>2, EndsGoesOn
  <2>11. RestTyped'
    <3>1. mail' \in [Players -> Seq(1..5)]
      BY <2>1, <2>2, TellIsTyped DEF MatchInv, RestTyped
    <3> QED  BY <1>5, <2>10, <3>1 DEF MatchInv, RestTyped
  <2> HIDE DEF q1, queue, out
  <2>12. EntriesSound(q1)
    BY <1>3, <2>3, <2>7, <2>8, NothingIsSound DEF EntriesSound
  <2>13. \A x \in Players \ {p} : q1[x].ky \in {0, qplr[x].ky}
    BY <2>6, <2>8, NothingIsTyped
  <2>14. KeysDiffer(q1)
    BY <1>1, <1>5, <2>4, <2>8, <2>13, NewKeyDiffers
  <2>15. QueueSound(q1, queue)
    <3> SUFFICES ASSUME NEW x \in Players, q1[x].stat = Searching
                 PROVE  x \in queue[q1[x].segm]
      BY DEF QueueSound
    <3>1. x \notin {p, c} /\ x \notin late /\ q1[x] = qplr[x]
      BY <2>4, <2>6, <2>8, NothingIsTyped DEF Searching, Absent, Found
    <3>2. x \in sq[qplr[x].segm] /\ qplr[x].segm \in Segments /\ qplr[x].stat = Searching
      BY <1>3, <3>1, EntryParts DEF QueueSound
    <3> QED  BY <1>6, <2>9, <3>1, <3>2
  <2>16. ASSUME Matched(qplr, grmb)
         PROVE  Matched(q1, grmb)
    <3>1. \A x \in Players : qplr[x].stat \in Found..Playing => q1[x] = qplr[x]
      BY <1>4, <1>5, <2>1, <2>8 DEF Absent, Searching, Found, Playing
    <3>2. q1[p] = mine /\ q1[c] = his
      BY <1>1, <2>1, <2>8
    <3>3. ASSUME NEW x \in Players, qplr[x].stat \notin Found..Playing
          PROVE  PairSound(q1, x) /\ q1[x].stat \notin {Booked, Playing}
      <4>1. CASE x \in {p, c}
        BY ONLY <1>1, <2>1, <2>4, <2>6, <2>7, <3>2, <4>1
           DEF PairSound, Human, Found, Accepted, Booked, Playing
      <4>2. CASE x \notin {p, c}
        <5>1. q1[x].stat \notin Found..Playing
          BY <2>8, <3>3, <4>2, NothingIsTyped DEF Absent, Found, Playing
        <5> QED  BY <5>1 DEF PairSound, Human, Found, Booked, Playing
      <4> QED  BY <4>1, <4>2
    <3> QED  BY <1>3, <2>16, <3>1, <3>3, BystandersKeep
  <2>17. StoreSound(qplr', sq', grmb')
    BY <1>3, <1>5, <2>2, <2>8, <2>9, <2>12, <2>14, <2>15 DEF StoreSound
  <2>18. ~torn' => Matched(qplr', grmb')
    BY <1>3, <1>5, <2>2, <2>16
  <2>19. ASSUME NEW x \in Players
         PROVE  \/ qplr'[x].ky \in {0, qplr[x].ky}
                \/ \E y \in Requests :
                      qplr'[x].ky = y /\ req[y].at \in Early /\ req'[y].at \notin Early
    BY <1>5, <2>2, <2>4, <2>8, <2>10, <2>13 DEF Early
  <2> QED  BY <2>10, <2>11, <2>17, <2>18, <2>19, StepKeeps
<1> QED  BY <1>0, <1>7, <1>8

\* A player gets a bot that plays the profile of another one.
LEMMA PickOpponentKeeps ==
    ASSUME NEW r \in Requests, MatchInv, PickOpponent(r)
    PROVE  MatchInv'
<1> DEFINE p == req[r].pid
           now == req[r].now
<1>1. p \in Players /\ now \in 0..MaxTime /\ req[r].at = "op"
  BY ZenonT(60), Asker DEF PickOpponent, Op
<1>2. /\ qplr \in Entries /\ sq \in Queues /\ grmb \in Bookings /\ EntriesSound(qplr)
      /\ KeysDiffer(qplr) /\ QueueSound(qplr, sq) /\ (~torn => Matched(qplr, grmb))
  BY SMTT(60) DEF MatchInv, StoreSound
<1>3. /\ RequestsGoOn /\ req'[r].at \notin Early
      /\ UNCHANGED <<clock, lp, mail, sq, grmb, free, torn>>
  BY ZenonT(60), EndsGoesOn DEF PickOpponent, Op
<1>4. RestTyped'
  BY SMTT(60), <1>3 DEF MatchInv, RestTyped
<1>5. \/ UNCHANGED qplr
      \/ /\ qplr[p].stat = Absent
         /\ \E o \in Players : qplr' = [qplr EXCEPT ![p] = FoundBot(o, r, now)]
  BY ZenonT(60) DEF PickOpponent, In, FoundBot
<1> HIDE DEF p, now
<1>6. CASE UNCHANGED qplr
  BY <1>3, <1>4, <1>6, StoreStays
<1>7. ASSUME NEW o \in Players, qplr[p].stat = Absent,
             qplr' = [qplr EXCEPT ![p] = FoundBot(o, r, now)]
      PROVE  MatchInv'
  <2> DEFINE mine == FoundBot(o, r, now)
             q1 == [qplr EXCEPT ![p] = mine]
  <2>1. /\ mine \in Entry /\ EntrySound(mine) /\ mine.ky = r /\ mine.stat = Found
        /\ mine.opbot = TRUE
    BY ZenonT(60), <1>1, FoundBotIsSound
  <2> HIDE DEF mine
  <2>2. q1 \in Entries /\ q1[p] = mine /\ \A x \in Players \ {p} : q1[x] = qplr[x]
    BY <1>1, <1>2, <2>1 DEF Entries
  <2>3. qplr' = q1
    BY <1>7 DEF mine
  <2> HIDE DEF q1
  <2>4. EntriesSound(q1)
    BY <1>2, <2>1, <2>2 DEF EntriesSound
  <2>5. \A x \in Players \ {p} : q1[x].ky \in {0, qplr[x].ky}
    BY <2>2
  <2>6. KeysDiffer(q1)
    BY <1>1, <2>1, <2>2, <2>5, NewKeyDiffers
  <2>7. QueueSound(q1, sq)
    BY <1>2, <2>1, <2>2 DEF QueueSound, Searching, Found
  <2>8. ASSUME Matched(qplr, grmb)
        PROVE  Matched(q1, grmb)
    <3>1. \A x \in Players : qplr[x].stat \in Found..Playing => q1[x] = qplr[x]
      BY <1>7, <2>2 DEF Absent, Found, Playing
    <3>2. ASSUME NEW x \in Players, qplr[x].stat \notin Found..Playing
          PROVE  PairSound(q1, x) /\ q1[x].stat \notin {Booked, Playing}
      <4>1. CASE x = p
        BY <2>1, <2>2, <4>1 DEF PairSound, Human, Found, Booked, Playing
      <4>2. CASE x # p
        BY <2>2, <3>2, <4>2 DEF PairSound, Human, Found, Booked, Playing
      <4> QED  BY <4>1, <4>2
    <3> QED  BY <1>2, <2>8, <3>1, <3>2, BystandersKeep
  <2>9. StoreSound(qplr', sq', grmb') /\ (~torn' => Matched(qplr', grmb'))
    BY <1>2, <1>3, <2>2, <2>3, <2>4, <2>6, <2>7, <2>8 DEF StoreSound
  <2>10. ASSUME NEW x \in Players
         PROVE  \/ qplr'[x].ky \in {0, qplr[x].ky}
                \/ \E y \in Requests :
                      qplr'[x].ky = y /\ req[y].at \in Early /\ req'[y].at \notin Early
    BY <1>1, <1>3, <2>1, <2>2, <2>3, <2>5 DEF Early
  <2> QED  BY <1>3, <1>4, <2>9, <2>10, StepKeeps
<1> QED  BY SMTT(60), <1>5, <1>6, <1>7

-----------------------------------------------------------------------------
(* acceptMatch and declineMatch.                                           *)

\* What the next lemmas say of the last script of a request: the requests go
\* on, and the clock and the polls are not its own.
LastScript(r) ==
    /\ r \in Requests /\ req[r].pid \in Players /\ req[r].now \in 0..MaxTime
    /\ RequestsGoOn /\ UNCHANGED <<clock, lp, sq>>

\* Two players lose their entries, who have no bookings, nor matches with others.
LEMMA TwoLeave ==
    ASSUME NEW p \in Players, NEW o \in Players, MatchInv, RequestsGoOn,
           UNCHANGED <<clock, lp, sq, grmb, free>>, mail' \in [Players -> Seq(1..5)],
           qplr' = [x \in Players |-> IF x \in {p, o} THEN NoEntry ELSE qplr[x]],
           torn' \in BOOLEAN, ~torn' => ~torn,
           ~torn' /\ Matched(qplr, grmb) =>
               \A x \in {p, o} : /\ qplr[x].stat \notin {Booked, Playing}
                                 /\ (Human(qplr[x]) => qplr[x].opp \in {p, o})
    PROVE  MatchInv'
<1> DEFINE X == {p, o}
           l == Less(qplr, X)
<1>1. qplr \in Entries /\ sq \in Queues /\ grmb \in Bookings
  BY DEF MatchInv, StoreSound
<1>2. qplr' = l /\ X \subseteq Players
  BY DEF Less
<1>3. RestTyped'
  BY DEF MatchInv, RestTyped
<1>4. ~torn' /\ Matched(qplr, grmb) =>
          \A x \in X : /\ qplr[x].stat \notin {Booked, Playing}
                       /\ (Human(qplr[x]) => qplr[x].opp \in X)
  OBVIOUS
<1>5. \A x \in Players \ X, m \in Segments : x \in sq[m] => x \in sq[m]
  OBVIOUS
<1> HIDE DEF X
<1>6. ~torn' /\ KeysDiffer(qplr) /\ Matched(qplr, grmb) => Together(qplr, grmb, X, grmb)
  BY <1>1, <1>2, <1>4, WithoutBookings
<1>7. l = Less(qplr, X) /\ sq' = sq /\ grmb' = grmb
  OBVIOUS
<1> HIDE DEF l
<1> QED  BY <1>1, <1>2, <1>3, <1>5, <1>6, <1>7, LeavingKeeps

\* Two found or accepting players are each other's, with no bookings.
LEMMA MatchedPair ==
    ASSUME NEW p \in Players, MatchInv, Matched(qplr, grmb), qplr[p].stat \in {Found, Accepted},
           ~qplr[p].opbot
    PROVE  /\ Human(qplr[p]) /\ qplr[p].opp \in Players \ {p} /\ Human(qplr[qplr[p].opp])
           /\ qplr[qplr[p].opp].opp = p /\ qplr[qplr[p].opp].stat \in {Found, Accepted}
<1>1. Human(qplr[p]) /\ PairSound(qplr, p)
  BY DEF Matched, Human, Found, Accepted, Playing
<1> QED  BY <1>1 DEF PairSound

\* declineMatch.
LEMMA DeclineKeeps ==
    ASSUME NEW r \in Requests, MatchInv, Decline(r)
    PROVE  MatchInv'
<1> DEFINE p == req[r].pid
           o == qplr[p].opp
<1>1. p \in Players
  BY Asker DEF Decline, Op
<1>2. RequestsGoOn /\ UNCHANGED <<clock, lp, sq, grmb, free, torn>>
  BY EndsGoesOn DEF Decline, Op
<1>3. /\ \A x \in Players : EntrySound(qplr[x])
      /\ torn \in BOOLEAN /\ mail \in [Players -> Seq(1..5)] /\ (~torn => Matched(qplr, grmb))
  BY SMTT(60) DEF MatchInv, StoreSound, EntriesSound, RestTyped
<1>4. \/ UNCHANGED <<qplr, mail>>
      \/ /\ qplr[p].stat = Found /\ qplr[p].opbot
         /\ qplr' = [qplr EXCEPT ![p] = NoEntry] /\ mail' = mail
      \/ /\ qplr[p].stat = Found /\ ~qplr[p].opbot
         /\ qplr' = [x \in Players |-> IF x \in {p, o} THEN NoEntry ELSE qplr[x]]
         /\ Tell(o, 2)
  BY DEF Decline, MayDecide
<1> HIDE DEF p
<1>5. CASE UNCHANGED <<qplr, mail>>
  <2>1. RestTyped'
    BY <1>2, <1>5 DEF MatchInv, RestTyped
  <2> QED  BY <1>2, <1>5, <2>1, StoreStays
<1>6. CASE /\ qplr[p].stat = Found /\ qplr[p].opbot
           /\ qplr' = [qplr EXCEPT ![p] = NoEntry] /\ mail' = mail
  <2> DEFINE q == p
  <2>1. qplr' = [x \in Players |-> IF x \in {p, q} THEN NoEntry ELSE qplr[x]]
    BY <1>1, <1>6 DEF MatchInv, StoreSound, Entries
  <2>2. ~Human(qplr[p]) /\ qplr[p].stat \notin {Booked, Playing}
    <3>1. ~Human(qplr[p])
      BY <1>6 DEF Human
    <3>2. qplr[p].stat \notin {Booked, Playing}
      BY <1>6 DEF Found, Booked, Playing
    <3> QED  BY <3>1, <3>2
  <2>3. q \in Players /\ q = p
    BY <1>1
  <2> HIDE DEF q
  <2>4. \A x \in {p, q} : /\ qplr[x].stat \notin {Booked, Playing}
                          /\ (Human(qplr[x]) => qplr[x].opp \in {p, q})
    BY <2>2, <2>3
  <2>5. mail' \in [Players -> Seq(1..5)] /\ torn' \in BOOLEAN /\ (~torn' => ~torn)
    BY <1>2, <1>3, <1>6
  <2> QED  BY <1>1, <1>2, <2>1, <2>3, <2>4, <2>5, TwoLeave
<1>7. CASE /\ qplr[p].stat = Found /\ ~qplr[p].opbot
           /\ qplr' = [x \in Players |-> IF x \in {p, o} THEN NoEntry ELSE qplr[x]]
           /\ Tell(o, 2)
  <2>1. o \in Players
    BY <1>1, <1>3, <1>7 DEF EntrySound
  <2>2. mail' \in [Players -> Seq(1..5)]
    <3> HIDE DEF o
    <3> QED  BY <1>3, <1>7, <2>1, TellIsTyped
  <2>3. Matched(qplr, grmb) =>
            \A x \in {p, o} : /\ qplr[x].stat \notin {Booked, Playing}
                              /\ (Human(qplr[x]) => qplr[x].opp \in {p, o})
    BY <1>1, <1>7, MatchedPair DEF Found, Accepted, Booked, Playing
  <2> HIDE DEF o
  <2> QED  BY <1>1, <1>2, <1>3, <1>7, <2>1, <2>2, <2>3, TwoLeave
<1> QED  BY <1>4, <1>5, <1>6, <1>7

\* The first of two players accepts.
LEMMA AcceptFirstKeeps ==
    ASSUME NEW p \in Players, MatchInv, RequestsGoOn, UNCHANGED <<clock, lp, sq>>,
           qplr[p].stat = Found, AcceptFirst(p)
    PROVE  MatchInv'
<1> DEFINE mine == [qplr[p] EXCEPT !.stat = Accepted]
           q1 == [qplr EXCEPT ![p] = mine]
           o == qplr[p].opp
<1>1. /\ qplr \in Entries /\ sq \in Queues /\ grmb \in Bookings /\ EntriesSound(qplr)
      /\ KeysDiffer(qplr) /\ QueueSound(qplr, sq) /\ (~torn => Matched(qplr, grmb))
  BY DEF MatchInv, StoreSound
<1>2. qplr[p] \in Entry /\ EntrySound(qplr[p]) /\ Accepted \in Absent..Playing
  BY <1>1, EntryParts DEF EntriesSound, Absent, Accepted, Playing
<1>3. /\ mine \in Entry /\ mine.stat = Accepted /\ mine.opp = qplr[p].opp
      /\ mine.opbot = qplr[p].opbot /\ mine.ky = qplr[p].ky /\ mine.grip = qplr[p].grip
  BY <1>2 DEF Entry
<1>4. qplr' = q1 /\ UNCHANGED <<grmb, free, mail, torn>> /\ ~qplr[p].opbot /\ qplr[o].stat = Found
  BY DEF AcceptFirst
<1> HIDE DEF mine
<1>5. q1 \in Entries /\ q1[p] = mine /\ \A x \in Players \ {p} : q1[x] = qplr[x]
  BY <1>1, <1>3 DEF Entries
<1> HIDE DEF q1
<1>6. EntrySound(mine)
  BY <1>2, <1>3 DEF EntrySound, Searching, Found, Accepted, Booked, Playing
<1>7. EntriesSound(q1)
  BY <1>1, <1>5, <1>6 DEF EntriesSound
<1>8. \A x \in Players : q1[x].ky = qplr[x].ky
  BY <1>3, <1>5
<1>9. KeysDiffer(q1)
  BY <1>1, <1>8 DEF KeysDiffer
<1>10. QueueSound(q1, sq)
  BY <1>1, <1>3, <1>5 DEF QueueSound, Searching, Accepted
<1>11. ASSUME Matched(qplr, grmb)
       PROVE  Matched(q1, grmb)
  <2>1. Human(qplr[p]) /\ o \in Players \ {p} /\ qplr[o].opp = p /\ Human(qplr[o])
    BY <1>4, <1>11, MatchedPair
  <2>2. q1[o] = qplr[o] /\ Human(mine)
    BY <1>3, <1>4, <1>5, <2>1 DEF Human, Accepted, Found, Playing
  <2>3. ASSUME NEW x \in Players
        PROVE  PairSound(q1, x)
    <3>1. PairSound(qplr, x)
      BY <1>11 DEF Matched
    <3>2. CASE x = p
      BY SMTT(60), <1>3, <1>4, <1>5, <2>1, <2>2, <3>2 DEF PairSound, Found, Accepted, Booked, Playing
    <3>3. CASE x = o
      BY <1>3, <1>4, <1>5, <2>1, <2>2, <3>3 DEF PairSound, Found, Accepted, Booked, Playing
    <3>4. CASE x \notin {p, o} /\ Human(qplr[x])
      <4>1. /\ qplr[x].opp \in Players \ {x} /\ qplr[qplr[x].opp].opp = x
        BY <3>1, <3>4 DEF PairSound
      <4>2. qplr[x].opp # p
        BY <3>4, <4>1
      <4>3. q1[x] = qplr[x] /\ q1[qplr[x].opp] = qplr[qplr[x].opp]
        BY <1>5, <3>4, <4>1, <4>2
      <4> QED  BY <3>1, <4>3 DEF PairSound
    <3>5. CASE x \notin {p, o} /\ ~Human(qplr[x])
      BY <1>5, <3>5 DEF PairSound
    <3> QED  BY <3>2, <3>3, <3>4, <3>5
  <2>4. ASSUME NEW x \in Players
        PROVE  HasBooking(q1, grmb, x)
    <3>1. HasBooking(qplr, grmb, x)
      BY <1>11 DEF Matched
    <3> QED  BY <1>3, <1>5, <3>1 DEF HasBooking, Accepted, Booked, Playing
  <2>5. ASSUME NEW k \in Requests
        PROVE  IsNamed(q1, grmb, k)
    <3>1. IsNamed(qplr, grmb, k)
      BY <1>11 DEF Matched
    <3>2. grmb[k].pid \in Players \cup {NoOne}
      BY <1>1, BoundsAssumption DEF Bookings, BookingRecord, Requests
    <3>3. grmb[k].pid # p
      BY <3>1, PlayersAssumption DEF IsNamed, Found, Booked, Playing
    <3> QED  BY <1>5, <3>1, <3>2, <3>3 DEF IsNamed
  <2> QED  BY <2>3, <2>4, <2>5 DEF Matched
<1>12. RestTyped'
  BY <1>4 DEF MatchInv, RestTyped
<1>13. StoreSound(qplr', sq', grmb') /\ (~torn' => Matched(qplr', grmb'))
  BY <1>1, <1>4, <1>5, <1>7, <1>9, <1>10, <1>11 DEF StoreSound
<1>14. \A x \in Players : qplr'[x].ky \in {0, qplr[x].ky}
  BY <1>4, <1>8
<1> QED  BY <1>12, <1>13, <1>14, StepKeeps

\* An entry that gets a booking.
LEMMA PlacedIsSound ==
    ASSUME NEW p \in Players, NEW now \in 0..MaxTime, qplr \in Entries
    PROVE  /\ Placed(p, now) \in Entry /\ EntrySound(Placed(p, now))
           /\ Placed(p, now).stat = Booked /\ Placed(p, now).grip = TRUE
           /\ Placed(p, now).opp = qplr[p].opp /\ Placed(p, now).opbot = qplr[p].opbot
           /\ Placed(p, now).ky = qplr[p].ky
<1> DEFINE e == Placed(p, now)
<1>1. qplr[p] \in Entry /\ Booked \in Absent..Playing
  BY EntryParts DEF Absent, Booked, Playing
<1>2. /\ e \in Entry /\ e.stat = Booked /\ e.grip = TRUE /\ e.opp = qplr[p].opp
      /\ e.opbot = qplr[p].opbot /\ e.ky = qplr[p].ky
  BY <1>1 DEF Placed, Entry
<1> HIDE DEF e
<1>3. EntrySound(e)
  BY <1>2 DEF EntrySound, Searching, Found, Accepted, Booked, Playing
<1> QED  BY <1>2, <1>3 DEF e

\* A player who fights a bot gets his booking.
LEMMA BookAloneKeeps ==
    ASSUME NEW p \in Players, NEW now \in 0..MaxTime, MatchInv, RequestsGoOn,
           UNCHANGED <<clock, lp, sq, mail, torn>>,
           qplr[p].stat = Found, qplr[p].opbot, ~NoPlace,
           grmb' = [grmb EXCEPT ![qplr[p].ky] = Booking(p, now)],
           qplr' = [qplr EXCEPT ![p] = Placed(p, now)], free' = free - 1
    PROVE  MatchInv'
<1> DEFINE mine == Placed(p, now)
           key == qplr[p].ky
           b == Booking(p, now)
           q1 == [qplr EXCEPT ![p] = mine]
           g1 == [grmb EXCEPT ![key] = b]
<1>1. /\ qplr \in Entries /\ sq \in Queues /\ grmb \in Bookings /\ EntriesSound(qplr)
      /\ KeysDiffer(qplr) /\ QueueSound(qplr, sq) /\ (~torn => Matched(qplr, grmb))
  BY DEF MatchInv, StoreSound
<1>2. /\ qplr[p].opp \in Players \cup {NoOne} /\ qplr[p].opbot \in BOOLEAN /\ EntrySound(qplr[p])
      /\ key \in 0..MaxRequests /\ key # 0
  BY <1>1, EntryParts DEF EntriesSound, EntrySound
<1>3. /\ mine \in Entry /\ EntrySound(mine) /\ mine.stat = Booked /\ mine.grip = TRUE
      /\ mine.opp = qplr[p].opp /\ mine.opbot = qplr[p].opbot /\ mine.ky = key
  BY <1>1, PlacedIsSound
<1>4. b \in BookingRecord /\ b.pid = p /\ b.opp = qplr[p].opp
  BY <1>2 DEF Booking, BookingRecord
<1>5. qplr' = q1 /\ grmb' = g1
  OBVIOUS
<1> HIDE DEF mine, key, b
<1>6. q1 \in Entries /\ q1[p] = mine /\ \A x \in Players \ {p} : q1[x] = qplr[x]
  BY <1>1, <1>3 DEF Entries
<1>7. g1 \in Bookings /\ g1[key] = b /\ \A k \in 0..MaxRequests \ {key} : g1[k] = grmb[k]
  BY <1>1, <1>2, <1>4 DEF Bookings
<1> HIDE DEF q1, g1
<1>8. EntriesSound(q1)
  BY <1>1, <1>3, <1>6 DEF EntriesSound
<1>9. \A x \in Players : q1[x].ky = qplr[x].ky
  BY <1>3, <1>6 DEF key
<1>10. KeysDiffer(q1)
  BY <1>1, <1>9 DEF KeysDiffer
<1>11. QueueSound(q1, sq)
  BY <1>1, <1>3, <1>6 DEF QueueSound, Searching, Booked
<1>12. ASSUME Matched(qplr, grmb)
       PROVE  Matched(q1, g1)
  <2>1. ~Human(qplr[p]) /\ ~Human(mine)
    BY <1>3 DEF Human
  <2>2. ASSUME NEW x \in Players
        PROVE  PairSound(q1, x)
    <3>1. PairSound(qplr, x)
      BY <1>12 DEF Matched
    <3>2. CASE x = p
      BY <1>6, <2>1, <3>2 DEF PairSound
    <3>3. CASE x # p
      BY <1>6, <2>1, <3>1, <3>3 DEF PairSound
    <3> QED  BY <3>2, <3>3
  <2>3. ASSUME NEW x \in Players
        PROVE  HasBooking(q1, g1, x)
    <3>1. HasBooking(qplr, grmb, x) /\ qplr[x].ky \in 0..MaxRequests
      BY <1>1, <1>12, EntryParts DEF Matched
    <3>2. CASE x = p
      BY <1>2, <1>3, <1>4, <1>6, <1>7, <3>2 DEF HasBooking
    <3>3. CASE x # p
      <4>1. qplr[x].ky # key \/ qplr[x].ky = 0
        BY <1>1, <1>2, <3>3 DEF KeysDiffer, key
      <4> QED  BY <1>6, <1>7, <3>1, <3>3, <4>1 DEF HasBooking
    <3> QED  BY <3>2, <3>3
  <2>4. ASSUME NEW k \in Requests
        PROVE  IsNamed(q1, g1, k)
    <3>1. IsNamed(qplr, grmb, k) /\ k \in 0..MaxRequests
      BY <1>12, BoundsAssumption DEF Matched, Requests
    <3>2. CASE k = key
      BY <1>3, <1>4, <1>6, <1>7, <3>2 DEF IsNamed
    <3>3. CASE k # key
      <4>1. grmb[k].pid \in Players \cup {NoOne} /\ g1[k] = grmb[k]
        BY <1>1, <1>7, <3>1, <3>3 DEF Bookings, BookingRecord
      <4>2. grmb[k].pid # p
        BY <3>1, PlayersAssumption DEF IsNamed, Found, Booked, Playing
      <4> QED  BY <1>6, <3>1, <4>1, <4>2 DEF IsNamed
    <3> QED  BY <3>2, <3>3
  <2> QED  BY <2>2, <2>3, <2>4 DEF Matched
<1>13. RestTyped'
  BY SMTT(60), BoundsAssumption DEF MatchInv, RestTyped, NoPlace
<1>14. StoreSound(qplr', sq', grmb') /\ (~torn' => Matched(qplr', grmb'))
  BY <1>1, <1>5, <1>6, <1>7, <1>8, <1>10, <1>11, <1>12 DEF StoreSound
<1>15. \A x \in Players : qplr'[x].ky \in {0, qplr[x].ky}
  BY <1>5, <1>9
<1> QED  BY <1>13, <1>14, <1>15, StepKeeps

\* The second of two players accepts, and both get their bookings.
LEMMA BookBothKeeps ==
    ASSUME NEW p \in Players, NEW now \in 0..MaxTime, NEW o \in Players, o = qplr[p].opp,
           MatchInv, RequestsGoOn, UNCHANGED <<clock, lp, sq, torn>>,
           qplr[p].stat = Found, ~qplr[p].opbot, qplr[o].stat = Accepted, ~NoPlace,
           BookBoth(p, o, now)
    PROVE  MatchInv'
<1> DEFINE mine == Placed(p, now)
           his == Placed(o, now)
           kp == qplr[p].ky
           ko == qplr[o].ky
           bp == [Booking(p, now) EXCEPT !.opp = o]
           bo == [Booking(o, now) EXCEPT !.opp = p]
           q1 == [qplr EXCEPT ![p] = mine, ![o] = his]
           g1 == [grmb EXCEPT ![kp] = bp, ![ko] = bo]
<1>1. /\ qplr \in Entries /\ sq \in Queues /\ grmb \in Bookings /\ EntriesSound(qplr)
      /\ KeysDiffer(qplr) /\ QueueSound(qplr, sq) /\ (~torn => Matched(qplr, grmb))
  BY DEF MatchInv, StoreSound
<1>2. /\ kp \in 0..MaxRequests /\ kp # 0 /\ ko \in 0..MaxRequests /\ ko # 0
      /\ qplr[p].opbot \in BOOLEAN /\ qplr[o].opbot \in BOOLEAN
      /\ qplr[o].opp \in Players \cup {NoOne}
  BY <1>1, EntryParts DEF EntriesSound, EntrySound
<1>3. /\ mine \in Entry /\ EntrySound(mine) /\ mine.stat = Booked /\ mine.grip = TRUE
      /\ mine.opp = o /\ mine.opbot = qplr[p].opbot /\ mine.ky = kp
  BY ZenonT(60), <1>1, PlacedIsSound
<1>4. /\ his \in Entry /\ EntrySound(his) /\ his.stat = Booked /\ his.grip = TRUE
      /\ his.opp = qplr[o].opp /\ his.opbot = qplr[o].opbot /\ his.ky = ko
  BY <1>1, PlacedIsSound
<1>5. /\ bp \in BookingRecord /\ bp.pid = p /\ bp.opp = o
      /\ bo \in BookingRecord /\ bo.pid = o /\ bo.opp = p
  BY <1>2 DEF Booking, BookingRecord
<1>6. qplr' = q1 /\ grmb' = g1 /\ free' = free - 1 /\ Tell(o, 4)
  BY DEF BookBoth
<1> HIDE DEF mine, his, kp, ko, bp, bo
<1>7. /\ q1 \in Entries /\ q1[o] = his /\ (o # p => q1[p] = mine)
      /\ \A x \in Players \ {p, o} : q1[x] = qplr[x]
  BY <1>1, <1>3, <1>4 DEF Entries
<1>8. /\ g1 \in Bookings /\ g1[ko] = bo /\ (ko # kp => g1[kp] = bp)
      /\ \A k \in 0..MaxRequests \ {kp, ko} : g1[k] = grmb[k]
  BY <1>1, <1>2, <1>5 DEF Bookings
<1> HIDE DEF q1, g1
<1>9. o # p
  BY DEF Found, Accepted
<1>10. EntriesSound(q1)
  BY <1>1, <1>3, <1>4, <1>7, <1>9 DEF EntriesSound
<1>11. \A x \in Players : q1[x].ky = qplr[x].ky
  BY <1>3, <1>4, <1>7, <1>9 DEF kp, ko
<1>12. KeysDiffer(q1)
  BY <1>1, <1>11 DEF KeysDiffer
<1>13. QueueSound(q1, sq)
  <2>1. \A x \in {p, o} : q1[x].stat # Searching
    BY <1>3, <1>4, <1>7, <1>9 DEF Searching, Booked
  <2> QED  BY <1>1, <1>7, <2>1 DEF QueueSound
<1>14. ASSUME Matched(qplr, grmb)
       PROVE  Matched(q1, g1)
  <2>1. Human(qplr[p]) /\ Human(qplr[o]) /\ qplr[o].opp = p
    BY <1>14, MatchedPair
  <2>2. /\ q1[p] = mine /\ q1[o] = his /\ his.opp = p /\ Human(mine) /\ Human(his)
    <3>1. Booked \in Found..Playing
      BY DEF Found, Booked, Playing
    <3> QED  BY <1>3, <1>4, <1>7, <1>9, <2>1, <3>1 DEF Human
  <2>3. kp # ko
    BY <1>1, <1>2, <1>9 DEF KeysDiffer, kp, ko
  <2>4. ASSUME NEW x \in Players
        PROVE  PairSound(q1, x)
    <3>1. PairSound(qplr, x)
      BY <1>14 DEF Matched
    <3>2. CASE x \in {p, o}
      BY ONLY <1>3, <1>4, <1>9, <2>2, <3>2 DEF PairSound, Found, Accepted, Booked, Playing
    <3>3. CASE x \notin {p, o} /\ Human(qplr[x])
      <4>1. /\ qplr[x].opp \in Players \ {x} /\ qplr[qplr[x].opp].opp = x
        BY <3>1, <3>3 DEF PairSound
      <4>2. qplr[x].opp \notin {p, o}
        BY <2>1, <3>3, <4>1
      <4>3. q1[x] = qplr[x] /\ q1[qplr[x].opp] = qplr[qplr[x].opp]
        BY <1>7, <3>3, <4>1, <4>2
      <4> QED  BY <3>1, <4>3 DEF PairSound
    <3>4. CASE x \notin {p, o} /\ ~Human(qplr[x])
      BY <1>7, <3>4 DEF PairSound
    <3> QED  BY <3>2, <3>3, <3>4
  <2>5. ASSUME NEW x \in Players
        PROVE  HasBooking(q1, g1, x)
    <3>1. HasBooking(qplr, grmb, x) /\ qplr[x].ky \in 0..MaxRequests
      BY <1>1, <1>14, EntryParts DEF Matched
    <3>2. CASE x = p
      BY ONLY SMTT(60), <1>2, <1>3, <1>5, <1>8, <2>2, <2>3, <3>2 DEF HasBooking
    <3>3. CASE x = o
      BY <1>2, <1>4, <1>5, <1>8, <2>2, <2>3, <3>3 DEF HasBooking
    <3>4. CASE x \notin {p, o}
      <4>1. qplr[x].ky \notin {kp, ko} \/ qplr[x].ky = 0
        BY <1>1, <1>2, <3>4 DEF KeysDiffer, kp, ko
      <4> QED  BY ONLY <1>7, <1>8, <3>1, <3>4, <4>1 DEF HasBooking
    <3> QED  BY <3>2, <3>3, <3>4
  <2>6. ASSUME NEW k \in Requests
        PROVE  IsNamed(q1, g1, k)
    <3>1. IsNamed(qplr, grmb, k) /\ k \in 0..MaxRequests
      BY <1>14, BoundsAssumption DEF Matched, Requests
    <3>2. CASE k = kp
      BY <1>3, <1>5, <1>8, <2>2, <2>3, <3>2 DEF IsNamed
    <3>3. CASE k = ko
      BY <1>4, <1>5, <1>8, <2>2, <3>3 DEF IsNamed
    <3>4. CASE k \notin {kp, ko}
      <4>1. grmb[k].pid \in Players \cup {NoOne} /\ g1[k] = grmb[k]
        BY <1>1, <1>8, <3>1, <3>4 DEF Bookings, BookingRecord
      <4>2. grmb[k].pid \notin {p, o}
        BY <3>1, PlayersAssumption DEF IsNamed, Found, Accepted, Booked, Playing
      <4> QED  BY <1>7, <3>1, <4>1, <4>2 DEF IsNamed
    <3> QED  BY <3>2, <3>3, <3>4
  <2> QED  BY <2>4, <2>5, <2>6 DEF Matched
<1>15. RestTyped'
  <2>1. mail' \in [Players -> Seq(1..5)]
    BY SMTT(60), <1>6, TellIsTyped DEF MatchInv, RestTyped
  <2> QED  BY SMTT(60), <1>6, <2>1, BoundsAssumption DEF MatchInv, RestTyped, NoPlace
<1>16. StoreSound(qplr', sq', grmb') /\ (~torn' => Matched(qplr', grmb'))
  BY <1>1, <1>6, <1>7, <1>8, <1>10, <1>12, <1>13, <1>14 DEF StoreSound
<1>17. \A x \in Players : qplr'[x].ky \in {0, qplr[x].ky}
  BY <1>6, <1>11
<1> QED  BY <1>15, <1>16, <1>17, StepKeeps

\* acceptMatch.
LEMMA AcceptKeeps ==
    ASSUME NEW r \in Requests, MatchInv, Accept(r)
    PROVE  MatchInv'
<1> DEFINE p == req[r].pid
           now == req[r].now
           o == qplr[p].opp
<1>1. p \in Players /\ now \in 0..MaxTime
  BY Asker DEF Accept, Op
<1>2. RequestsGoOn /\ UNCHANGED <<clock, lp, sq>>
  BY EndsGoesOn DEF Accept, Op
<1>3. /\ \A x \in Players : EntrySound(qplr[x])
      /\ torn \in BOOLEAN /\ mail \in [Players -> Seq(1..5)] /\ (~torn => Matched(qplr, grmb))
      /\ qplr \in Entries
  BY DEF MatchInv, StoreSound, EntriesSound, RestTyped
<1>4. \/ qplr[p].stat = Found /\ AcceptBot(r, p)
      \/ qplr[p].stat = Found /\ AcceptFirst(p)
      \/ qplr[p].stat = Found /\ AcceptSecond(r, p)
      \/ UNCHANGED <<qplr, grmb, free, mail, torn>>
  BY DEF Accept, MayDecide, AcceptNothing
<1>5. CASE UNCHANGED <<qplr, grmb, free, mail, torn>>
  <2>1. RestTyped'
    BY <1>2, <1>5 DEF MatchInv, RestTyped
  <2> QED  BY <1>2, <1>5, <2>1, StoreStays
<1>6. ASSUME qplr[p].stat = Found
      PROVE  o \in Players
  BY <1>1, <1>3, <1>6 DEF EntrySound
<1>7. CASE qplr[p].stat = Found /\ AcceptFirst(p)
  <2> HIDE DEF p
  <2> QED  BY <1>1, <1>2, <1>7, AcceptFirstKeeps
<1>8. CASE qplr[p].stat = Found /\ AcceptBot(r, p)
  <2>1. /\ qplr[p].opbot
        /\ \/ /\ qplr' = [x \in Players |-> IF x \in {p, o} THEN NoEntry ELSE qplr[x]]
              /\ torn' = (torn \/ (o # p /\ qplr[o].stat \in Found..Playing))
              /\ UNCHANGED <<grmb, free>>
           \/ /\ ~NoPlace
              /\ grmb' = [grmb EXCEPT ![qplr[p].ky] = Booking(p, now)]
              /\ qplr' = [qplr EXCEPT ![p] = Placed(p, now)]
              /\ free' = free - 1 /\ torn' = torn
        /\ mail' = mail
    BY ZenonT(60), <1>8 DEF AcceptBot
  <2> HIDE DEF p, now
  <2>2. CASE /\ ~NoPlace
             /\ grmb' = [grmb EXCEPT ![qplr[p].ky] = Booking(p, now)]
             /\ qplr' = [qplr EXCEPT ![p] = Placed(p, now)]
             /\ free' = free - 1 /\ torn' = torn
    BY <1>1, <1>2, <1>8, <2>1, <2>2, BookAloneKeeps
  <2>3. CASE /\ qplr' = [x \in Players |-> IF x \in {p, o} THEN NoEntry ELSE qplr[x]]
             /\ torn' = (torn \/ (o # p /\ qplr[o].stat \in Found..Playing))
             /\ UNCHANGED <<grmb, free>>
    <3>1. torn' \in BOOLEAN /\ (~torn' => ~torn /\ (o = p \/ qplr[o].stat \notin Found..Playing))
      BY <1>3, <2>3
    <3>2. ~Human(qplr[p]) /\ qplr[p].stat \notin {Booked, Playing}
      <4>1. ~Human(qplr[p])
        BY <2>1 DEF Human
      <4>2. qplr[p].stat \notin {Booked, Playing}
        BY <1>8 DEF Found, Booked, Playing
      <4> QED  BY <4>1, <4>2
    <3>3. ~torn' => \A x \in {p, o} : /\ qplr[x].stat \notin {Booked, Playing}
                                      /\ (Human(qplr[x]) => qplr[x].opp \in {p, o})
      <4>1. Booked \in Found..Playing /\ Playing \in Found..Playing
        BY DEF Found, Booked, Playing
      <4> QED  BY <3>1, <3>2, <4>1 DEF Human
    <3>4. o \in Players
      BY <1>6, <1>8
    <3> HIDE DEF o
    <3> QED  BY <1>1, <1>2, <1>3, <2>1, <2>3, <3>1, <3>3, <3>4, TwoLeave
  <2> QED  BY ONLY SMTT(60), <2>1, <2>2, <2>3
<1>9. CASE qplr[p].stat = Found /\ AcceptSecond(r, p)
  <2>1. /\ ~qplr[p].opbot /\ qplr[o].stat = Accepted /\ torn' = torn
        /\ \/ ~NoPlace /\ BookBoth(p, o, now)
           \/ /\ qplr' = [x \in Players |-> IF x \in {p, o} THEN NoEntry ELSE qplr[x]]
              /\ Tell(o, 3) /\ UNCHANGED <<grmb, free>>
    BY <1>9 DEF AcceptSecond
  <2>2. o \in Players /\ qplr[p].stat = Found /\ o = qplr[p].opp
    BY <1>6, <1>9
  <2> HIDE DEF p, now
  <2>3. CASE ~NoPlace /\ BookBoth(p, o, now)
    <3> HIDE DEF o
    <3> QED  BY <1>1, <1>2, <2>1, <2>2, <2>3, BookBothKeeps
  <2>4. CASE /\ qplr' = [x \in Players |-> IF x \in {p, o} THEN NoEntry ELSE qplr[x]]
             /\ Tell(o, 3) /\ UNCHANGED <<grmb, free>>
    <3>1. mail' \in [Players -> Seq(1..5)]
      <4> HIDE DEF o
      <4> QED  BY <1>3, <2>2, <2>4, TellIsTyped
    <3>2. Matched(qplr, grmb) =>
              \A x \in {p, o} : /\ qplr[x].stat \notin {Booked, Playing}
                                /\ (Human(qplr[x]) => qplr[x].opp \in {p, o})
      BY <1>1, <2>1, <2>2, MatchedPair DEF Found, Accepted, Booked, Playing
    <3> HIDE DEF o
    <3> QED  BY <1>1, <1>2, <1>3, <2>1, <2>2, <2>4, <3>1, <3>2, TwoLeave
  <2> QED  BY <2>1, <2>3, <2>4
<1> QED  BY <1>4, <1>5, <1>7, <1>8, <1>9

-----------------------------------------------------------------------------
(* The gameplay room.                                                      *)

\* An entry of the same match, with the same booking.
Alike(e, f) ==
    /\ f.opp = e.opp /\ f.opbot = e.opbot /\ f.ky = e.ky /\ f.grip = e.grip
    /\ f.stat = e.stat \/ {e.stat, f.stat} \subseteq {Booked, Playing}

\* A player in a battle, or one who comes to it: one entry changes its stat
\* and its time.
LEMMA PlayingKeeps ==
    ASSUME NEW p \in Players, NEW now \in 0..MaxTime, MatchInv,
           UNCHANGED <<clock, asked, req, lp, mail, sq, grmb, free, torn>>,
           qplr' = [qplr EXCEPT ![p].stat = Playing, ![p].upd = now],
           ~torn => qplr[p].stat \in {Booked, Playing}
    PROVE  MatchInv'
<1> DEFINE mine == [qplr[p] EXCEPT !.stat = Playing, !.upd = now]
           q1 == [qplr EXCEPT ![p] = mine]
<1>1. /\ qplr \in Entries /\ sq \in Queues /\ grmb \in Bookings /\ EntriesSound(qplr)
      /\ KeysDiffer(qplr) /\ QueueSound(qplr, sq) /\ (~torn => Matched(qplr, grmb))
  BY DEF MatchInv, StoreSound
<1>2. qplr[p] \in Entry /\ Playing \in Absent..Playing
  BY <1>1, EntryParts DEF Absent, Playing
<1>3. /\ mine \in Entry /\ mine.stat = Playing /\ mine.opp = qplr[p].opp
      /\ mine.opbot = qplr[p].opbot /\ mine.ky = qplr[p].ky /\ mine.grip = qplr[p].grip
  BY <1>2 DEF Entry
<1>4. qplr' = q1
  BY <1>1 DEF Entries
<1> HIDE DEF mine
<1>5. q1 \in Entries /\ q1[p] = mine /\ \A x \in Players \ {p} : q1[x] = qplr[x]
  BY <1>1, <1>3 DEF Entries
<1> HIDE DEF q1
<1>6. EntriesSound(q1)
  <2>1. EntrySound(mine)
    BY <1>3 DEF EntrySound, Searching, Found, Accepted, Booked, Playing
  <2> QED  BY <1>1, <1>5, <2>1 DEF EntriesSound
<1>7. \A x \in Players : q1[x].ky = qplr[x].ky
  BY <1>3, <1>5
<1>8. KeysDiffer(q1)
  BY <1>1, <1>7 DEF KeysDiffer
<1>9. QueueSound(q1, sq)
  BY <1>1, <1>3, <1>5 DEF QueueSound, Searching, Playing
<1>10. ASSUME ~torn
       PROVE  Matched(q1, grmb)
  <2>1. Matched(qplr, grmb)
    BY <1>1, <1>10
  <2>2. \A x \in Players : Alike(qplr[x], q1[x])
    <3>1. Alike(qplr[p], mine)
      BY <1>3, <1>10 DEF Alike
    <3> QED  BY <1>5, <3>1 DEF Alike
  <2>3. ASSUME NEW x \in Players
        PROVE  Human(qplr[x]) <=> Human(q1[x])
    BY <2>2 DEF Alike, Human, Found, Booked, Playing
  <2>4. ASSUME NEW x \in Players
        PROVE  PairSound(q1, x)
    <3>1. CASE Human(q1[x])
      <4>1. /\ PairSound(qplr, x) /\ Human(qplr[x])
        BY <2>1, <2>3, <3>1 DEF Matched
      <4>2. qplr[x].opp \in Players \ {x} /\ q1[x].opp = qplr[x].opp
        BY <2>2, <4>1 DEF PairSound, Alike
      <4> DEFINE o == qplr[x].opp
      <4>3. Human(q1[o]) /\ q1[o].opp = x
        BY <2>2, <2>3, <4>1, <4>2 DEF PairSound, Alike
      <4>4. /\ (q1[x].stat = Found => q1[o].stat \in {Found, Accepted})
            /\ (q1[x].stat = Accepted => q1[o].stat = Found)
            /\ (q1[x].stat \in {Booked, Playing} => q1[o].stat \in {Booked, Playing})
        BY <2>2, <4>1, <4>2 DEF PairSound, Alike, Found, Accepted, Booked, Playing
      <4> QED  BY <4>2, <4>3, <4>4 DEF PairSound
    <3>2. CASE ~Human(q1[x])
      BY <3>2 DEF PairSound
    <3> QED  BY <3>1, <3>2
  <2>5. ASSUME NEW x \in Players
        PROVE  HasBooking(q1, grmb, x)
    BY <2>1, <2>2 DEF Matched, HasBooking, Alike
  <2>6. ASSUME NEW k \in Requests
        PROVE  IsNamed(q1, grmb, k)
    <3>1. grmb[k].pid \in Players \cup {NoOne}
      BY <1>1, BoundsAssumption DEF Bookings, BookingRecord, Requests
    <3> QED  BY <2>1, <2>2, <3>1 DEF Matched, IsNamed, Alike
  <2> QED  BY <2>4, <2>5, <2>6 DEF Matched
<1>11. RestTyped' /\ RequestsGoOn
  BY DEF MatchInv, RestTyped, RequestsSound, RequestsGoOn
<1>12. StoreSound(qplr', sq', grmb') /\ (~torn' => Matched(qplr', grmb'))
  BY <1>1, <1>4, <1>5, <1>6, <1>8, <1>9, <1>10 DEF StoreSound
<1>13. \A x \in Players : qplr'[x].ky \in {0, qplr[x].ky}
  BY <1>4, <1>7
<1> QED  BY <1>11, <1>12, <1>13, StepKeeps

\* checkGameplayRoomBooking.
LEMMA EnterRoomKeeps ==
    ASSUME NEW k \in Requests, MatchInv, EnterRoom(k)
    PROVE  MatchInv'
<1> DEFINE p == grmb[k].pid
<1>1. p \in Players
  BY BoundsAssumption DEF EnterRoom, Live, MatchInv, StoreSound, Bookings, BookingRecord, Requests
<1>2. ~torn => qplr[p].stat \in {Booked, Playing}
  BY DEF EnterRoom, Live, MatchInv, Matched, IsNamed
<1>3. /\ qplr' = [qplr EXCEPT ![p].stat = Playing, ![p].upd = clock]
      /\ UNCHANGED <<clock, asked, req, lp, mail, sq, grmb, free, torn>>
  BY DEF EnterRoom
<1>4. clock \in 0..MaxTime
  BY DEF MatchInv, RestTyped
<1> HIDE DEF p
<1> QED  BY <1>1, <1>2, <1>3, <1>4, PlayingKeeps

\* updatePlayerIsInGameroom.
LEMMA StayInRoomKeeps ==
    ASSUME NEW p \in Players, MatchInv, StayInRoom(p)
    PROVE  MatchInv'
<1>1. clock \in 0..MaxTime /\ qplr \in Entries
  BY DEF MatchInv, RestTyped, StoreSound
<1>2. /\ qplr[p].stat = Playing /\ qplr' = [qplr EXCEPT ![p].upd = clock]
      /\ UNCHANGED <<clock, asked, req, lp, mail, sq, grmb, free, torn>>
  BY DEF StayInRoom
<1>3. [qplr EXCEPT ![p].upd = clock] = [qplr EXCEPT ![p].stat = Playing, ![p].upd = clock]
  <2> DEFINE a == [qplr[p] EXCEPT !.upd = clock]
             b == [qplr[p] EXCEPT !.stat = Playing, !.upd = clock]
  <2>1. qplr[p] \in Entry
    BY <1>1, EntryParts
  <2>2. a = b
    BY <1>2, <2>1 DEF Entry
  <2> QED  BY <2>2
<1>4. qplr' = [qplr EXCEPT ![p].stat = Playing, ![p].upd = clock]
  BY <1>2, <1>3
<1> QED  BY <1>1, <1>2, <1>4, PlayingKeeps

-----------------------------------------------------------------------------
(* The theorems.                                                           *)

\* The invariant is kept by every step.
LEMMA MatchStep ==
    ASSUME MatchInv, [Next]_vars
    PROVE  MatchInv'
<1>1. CASE UNCHANGED vars
  BY <1>1, AroundKeeps
<1>2. ASSUME NEW p \in Players, NEW kind \in Kinds, Ask(p, kind)
      PROVE  MatchInv'
  BY <1>2, AskKeeps
<1>3. ASSUME NEW p \in Players, Deliver(p) \/ StayInRoom(p) \/ LeaveRoom(p)
      PROVE  MatchInv'
  BY <1>3, DeliverKeeps, StayInRoomKeeps, LeaveRoomKeeps
<1>4. ASSUME NEW r \in Requests, Answer(r) \/ ColdResponse(r) \/ Close(r)
      PROVE  MatchInv'
  BY <1>4, AnswerKeeps, ColdResponseKeeps, CloseKeeps
<1>5. ASSUME NEW r \in Requests, CommandFails(r) \/ RefreshFails(r) \/ SearchRefused(r)
      PROVE  MatchInv'
  BY <1>5, NothingDoneKeeps
<1>6. ASSUME NEW r \in Requests, Refresh(r) \/ CheckInQueue(r) \/ SearchForOpponent(r)
      PROVE  MatchInv'
  BY <1>6, RefreshKeeps, CheckInQueueKeeps, SearchKeeps
<1>7. ASSUME NEW r \in Requests, StopSearching(r) \/ PickOpponent(r) \/ Drop(r)
      PROVE  MatchInv'
  BY <1>7, StopSearchingKeeps, PickOpponentKeeps, DropKeeps
<1>8. ASSUME NEW r \in Requests, Accept(r) \/ Decline(r) \/ EnterRoom(r)
      PROVE  MatchInv'
  BY <1>8, AcceptKeeps, DeclineKeeps, EnterRoomKeeps
<1>9. CASE SetOccupation \/ Tick
  BY <1>9, AroundKeeps
<1> QED  BY <1>1, <1>2, <1>3, <1>4, <1>5, <1>6, <1>7, <1>8, <1>9 DEF Next

\* The invariant holds: what an entry's stat promises, whose keys they are,
\* and, while no match was ended for one of its players only, that matches
\* and bookings name each other.
THEOREM MatchIsSound == Spec => []MatchInv
<1>1. MatchInv /\ [Next]_vars => MatchInv'
  BY MatchStep
<1> QED  BY <1>1, InitMatch, PTL DEF Spec

\* The variables hold values of their kinds; in particular no booking is made
\* without a place (acceptMatch looks at the places and takes one in one script).
THEOREM MatchTyping == Spec => []TypeOK
<1>1. MatchInv => TypeOK
  BY DEF MatchInv, RequestsSound, RestTyped, StoreSound, TypeOK, Entries, Entry, Queues,
         Bookings, BookingRecord, Request
<1> QED  BY <1>1, MatchIsSound, PTL

\* A player whose entry says that he searches is in the queue of his segment
\* (searchForOpponent, stopSearching and refreshStats change both in one script).
THEOREM SearchingPlayerIsQueued == Spec => []SearchingIsQueued
<1>1. MatchInv => SearchingIsQueued
  BY DEF MatchInv, StoreSound, QueueSound, SearchingIsQueued
<1> QED  BY <1>1, MatchIsSound, PTL

\* Two matched players have each other, at stages of accepting that fit
\* (acceptMatch, declineMatch, refreshStats), while no match was torn.
THEOREM MatchIsMutual == Spec => []MutualPair
<1>1. MatchInv => MutualPair
  BY DEF MatchInv, Matched, PairSound, MutualPair
<1> QED  BY <1>1, MatchIsSound, PTL

\* A booking is the one its player's entry names, while no match was torn: it
\* does not outlive the match, and nobody has two.
THEOREM BookingHasItsEntry == Spec => []BookingIsNamed
<1>1. MatchInv => BookingIsNamed
  <2> SUFFICES ASSUME MatchInv, ~torn, NEW k \in Requests, Live(k)
               PROVE  LET e == qplr[grmb[k].pid]
                      IN e.stat \in {Booked, Playing} /\ e.ky = k /\ e.grip /\ e.opp = grmb[k].opp
    BY DEF BookingIsNamed
  <2> DEFINE p == grmb[k].pid
  <2>1. p \in Players
    BY BoundsAssumption DEF Live, MatchInv, StoreSound, Bookings, BookingRecord, Requests
  <2>2. Matched(qplr, grmb)
    BY DEF MatchInv
  <2>3. qplr[p].stat \in {Booked, Playing} /\ qplr[p].ky = k
    BY <2>2 DEF Matched, IsNamed, Live
  <2>4. qplr[p].grip /\ grmb[qplr[p].ky].opp = qplr[p].opp
    BY <2>1, <2>2, <2>3 DEF Matched, HasBooking
  <2> QED  BY <2>3, <2>4
<1> QED  BY <1>1, MatchIsSound, PTL

\* What a step may do to the entry of p: make a match of it only when p
\* searches, in the queue or by the request at hand.
Free(p) ==
    Human(qplr'[p]) /\ qplr'[p].stat = Found /\ qplr'[p] # qplr[p]
        => qplr[p].stat \in {Absent, Searching}
           /\ (qplr[p].stat = Absent => \E r \in Requests : Op(r, "search") /\ req[r].pid = p)

\* An entry that goes, or gets another stat, is not a new match.
LEMMA NoNewMatch ==
    ASSUME NEW p \in Players,
           \/ qplr'[p] = qplr[p] \/ qplr'[p] = NoEntry
           \/ qplr'[p].stat # Found \/ qplr'[p].opbot
    PROVE  Free(p)
  BY NothingIsTyped DEF Free, Human, Absent, Found

\* The search of p finds c, who searches.
LEMMA SearchTakesNobody ==
    ASSUME MatchInv, NEW r \in Requests, SearchForOpponent(r), NEW x \in Players
    PROVE  Free(x)
<1> DEFINE p == req[r].pid
           now == req[r].now
<1>1. p \in Players /\ now \in 0..MaxTime
  BY Asker DEF SearchForOpponent, Op
<1>2. qplr[p].stat = Absent /\ Op(r, "search") /\ qplr \in Entries /\ sq \in Queues
  BY DEF SearchForOpponent, In, MatchInv, StoreSound
<1>3. PICK s \in Segments : \E seen \in SUBSET sq[s] :
         \/ \E c \in seen \ (Gone(seen) \cup Late(seen, now) \cup {p}) : PairWith(r, s, seen, c)
         \/ QueueUp(r, s, seen)
  BY DEF SearchForOpponent
<1>4. PICK seen \in SUBSET sq[s] :
         \/ \E c \in seen \ (Gone(seen) \cup Late(seen, now) \cup {p}) : PairWith(r, s, seen, c)
         \/ QueueUp(r, s, seen)
  BY <1>3
<1>5. CASE x = p
  BY <1>2, <1>5 DEF Free
<1>6. CASE x # p /\ qplr[x].stat = Searching
  BY <1>6 DEF Free, Searching, Absent
<1>7. CASE x # p /\ qplr[x].stat # Searching
  <2>1. CASE QueueUp(r, s, seen)
    <3>1. qplr'[x] = IF x \in Late(seen, now) THEN NoEntry ELSE qplr[x]
      BY <1>7, <2>1 DEF QueueUp
    <3> QED  BY <3>1, NoNewMatch
  <2>2. ASSUME NEW c \in seen \ (Gone(seen) \cup Late(seen, now) \cup {p}), PairWith(r, s, seen, c)
        PROVE  Free(x)
    <3>1. x # c
      BY <1>7 DEF Gone
    <3>2. qplr'[x] = IF x \in Late(seen, now) THEN NoEntry ELSE qplr[x]
      BY <1>7, <2>2, <3>1 DEF PairWith
    <3> QED  BY <3>2, NoNewMatch
  <2> QED  BY <1>4, <2>1, <2>2
<1> QED  BY <1>5, <1>6, <1>7

\* acceptMatch goes on with a match, or ends it.
LEMMA AcceptTakesNobody ==
    ASSUME MatchInv, NEW r \in Requests, Accept(r), NEW x \in Players
    PROVE  Free(x)
<1> DEFINE p == req[r].pid
           now == req[r].now
           o == qplr[p].opp
<1>1. p \in Players /\ now \in 0..MaxTime /\ qplr \in Entries
  BY Asker DEF Accept, Op, MatchInv, StoreSound
<1>2. /\ Placed(p, now).stat = Booked
      /\ \A y \in Players : Placed(y, now).stat = Booked
  BY ONLY <1>1, PlacedIsSound
<1>3. \/ qplr' = qplr
      \/ qplr' = [y \in Players |-> IF y \in {p, o} THEN NoEntry ELSE qplr[y]]
      \/ qplr' = [qplr EXCEPT ![p] = Placed(p, now)]
      \/ qplr' = [qplr EXCEPT ![p] = Placed(p, now), ![o] = Placed(o, now)]
      \/ qplr' = [qplr EXCEPT ![p].stat = Accepted]
  BY ZenonT(60) DEF Accept, AcceptBot, AcceptFirst, AcceptSecond, AcceptNothing, BookBoth
<1> HIDE DEF p, now, o
<1>4. CASE \/ qplr' = qplr
           \/ qplr' = [y \in Players |-> IF y \in {p, o} THEN NoEntry ELSE qplr[y]]
  <2>1. qplr'[x] = qplr[x] \/ qplr'[x] = NoEntry
    BY <1>4
  <2> QED  BY <2>1, NoNewMatch
<1>5. CASE \/ qplr' = [qplr EXCEPT ![p] = Placed(p, now)]
           \/ qplr' = [qplr EXCEPT ![p] = Placed(p, now), ![o] = Placed(o, now)]
  <2>1. qplr'[x] \in {qplr[x], Placed(x, now)}
    BY <1>1, <1>5 DEF Entries
  <2> QED  BY <1>2, <2>1, NoNewMatch DEF Booked, Found
<1>6. CASE qplr' = [qplr EXCEPT ![p].stat = Accepted]
  <2> DEFINE mine == [qplr[p] EXCEPT !.stat = Accepted]
  <2>1. mine.stat = Accepted
    BY <1>1, EntryParts DEF Entry
  <2>2. qplr'[x] \in {qplr[x], mine}
    BY <1>1, <1>6 DEF Entries
  <2> HIDE DEF mine
  <2> QED  BY <2>1, <2>2, NoNewMatch DEF Accepted, Found
<1> QED  BY <1>3, <1>4, <1>5, <1>6

\* A bot is not a match with a player, nor is a battle a new one.
LEMMA OthersTakeNobody ==
    ASSUME MatchInv, NEW x \in Players,
           \/ \E r \in Requests : PickOpponent(r) \/ EnterRoom(r)
           \/ \E p \in Players : StayInRoom(p)
    PROVE  Free(x)
<1>1. qplr \in Entries
  BY DEF MatchInv, StoreSound
<1>2. ASSUME NEW r \in Requests, PickOpponent(r)
      PROVE  Free(x)
  <2>1. \/ qplr' = qplr
        \/ \E o \in Players : qplr' = [qplr EXCEPT ![req[r].pid] = FoundBot(o, r, req[r].now)]
    BY ZenonT(60), <1>2 DEF PickOpponent, FoundBot
  <2>2. req[r].now \in 0..MaxTime
    BY ZenonT(60), <1>2, Asker DEF PickOpponent, Op
  <2>3. \/ qplr'[x] = qplr[x]
        \/ \E o \in Players : qplr'[x] = FoundBot(o, r, req[r].now)
    BY <1>1, <2>1 DEF Entries
  <2>4. \A o \in Players : FoundBot(o, r, req[r].now).opbot = TRUE
    BY <2>2, FoundBotIsSound
  <2> QED  BY SMTT(60), <2>3, <2>4, NoNewMatch
<1>3. ASSUME NEW p \in Players, NEW now, NEW e, e = [qplr[p] EXCEPT !.stat = Playing, !.upd = now],
             qplr' = [qplr EXCEPT ![p] = e]
      PROVE  Free(x)
  <2>1. e.stat = Playing
    BY <1>1, <1>3, EntryParts DEF Entry
  <2>2. qplr'[x] \in {qplr[x], e}
    BY <1>1, <1>3 DEF Entries
  <2> QED  BY <2>1, <2>2, NoNewMatch DEF Playing, Found
<1>4. ASSUME NEW k \in Requests, EnterRoom(k)
      PROVE  Free(x)
  <2> DEFINE p == grmb[k].pid
             e == [qplr[p] EXCEPT !.stat = Playing, !.upd = clock]
  <2>1. p \in Players
    BY SMTT(60), <1>4, BoundsAssumption
       DEF EnterRoom, Live, MatchInv, StoreSound, Bookings, BookingRecord, Requests
  <2>2. qplr' = [qplr EXCEPT ![p] = e]
    BY <1>1, <1>4, <2>1 DEF EnterRoom, Entries
  <2> HIDE DEF p
  <2> QED  BY ONLY ZenonT(60), <1>3, <2>1, <2>2
<1>5. ASSUME NEW p \in Players, StayInRoom(p)
      PROVE  Free(x)
  <2> DEFINE e == [qplr[p] EXCEPT !.upd = clock]
  <2>1. qplr[p].stat = Playing /\ qplr' = [qplr EXCEPT ![p] = e] /\ e.stat = qplr[p].stat
    BY <1>1, <1>5, EntryParts DEF StayInRoom, Entry
  <2>2. qplr'[x] \in {qplr[x], e}
    BY <1>1, <2>1 DEF Entries
  <2> HIDE DEF e
  <2> QED  BY <2>1, <2>2, NoNewMatch DEF Playing, Found
<1> QED  BY <1>2, <1>4, <1>5

\* Scripts that change entries by taking some away only.
OnlyEnds(r) == CheckInQueue(r) \/ StopSearching(r) \/ Drop(r) \/ Decline(r)

LEMMA EndsTakeAway ==
    ASSUME qplr \in Entries, NEW r \in Requests, OnlyEnds(r), NEW x \in Players
    PROVE  qplr'[x] \in {NoEntry, qplr[x]}
<1> DEFINE p == req[r].pid
           o == qplr[p].opp
<1>1. \/ qplr' = qplr
      \/ qplr' = [qplr EXCEPT ![p] = NoEntry]
      \/ qplr' = [y \in Players |-> IF y \in {p, o} THEN NoEntry ELSE qplr[y]]
  <2>1. CASE CheckInQueue(r)
    BY ONLY SMTT(60), <2>1 DEF CheckInQueue, Clear
  <2>2. CASE StopSearching(r)
    BY <2>2 DEF StopSearching
  <2>3. CASE Drop(r)
    BY <2>3 DEF Drop
  <2>4. CASE Decline(r)
    BY <2>4 DEF Decline
  <2> QED  BY ONLY SMTT(60), OnlyEnds(r), <2>1, <2>2, <2>3, <2>4 DEF OnlyEnds
<1> HIDE DEF p, o
<1> QED  BY <1>1 DEF Entries

\* So is the end of a battle.
LEMMA LeavingTakesAway ==
    ASSUME NEW p \in Players, LeaveRoom(p), NEW x \in Players
    PROVE  qplr'[x] \in {NoEntry, qplr[x]}
  BY DEF LeaveRoom, BattleEnds

\* The steps that change entries.
LEMMA EntriesChangeIn ==
    ASSUME [Next]_vars
    PROVE  \/ qplr' = qplr
           \/ \E r \in Requests : \/ Refresh(r) \/ OnlyEnds(r) \/ SearchForOpponent(r) \/ Accept(r)
                                  \/ PickOpponent(r) \/ EnterRoom(r)
           \/ \E p \in Players : LeaveRoom(p) \/ StayInRoom(p)
  BY ZenonT(60) DEF Next, vars, Ask, Deliver, Answer, CommandFails, ColdResponse, Close, RefreshFails,
         SearchRefused, SetOccupation, Tick, OnlyEnds

\* No step takes anybody.
LEMMA StepTakesNobody ==
    ASSUME MatchInv, [Next]_vars, NEW x \in Players
    PROVE  Free(x)
<1>1. CASE qplr' = qplr
  BY <1>1, NoNewMatch
<1>2. ASSUME NEW r \in Requests, Refresh(r)
      PROVE  Free(x)
  BY <1>2, RefreshKeeps, NoNewMatch
<1>3. ASSUME NEW r \in Requests, OnlyEnds(r)
      PROVE  Free(x)
  <2>1. qplr \in Entries
    BY DEF MatchInv, StoreSound
  <2>2. qplr'[x] \in {NoEntry, qplr[x]}
    BY <1>3, <2>1, EndsTakeAway
  <2> QED  BY <2>2, NoNewMatch
<1>4. ASSUME NEW p \in Players, LeaveRoom(p)
      PROVE  Free(x)
  <2>1. qplr'[x] \in {NoEntry, qplr[x]}
    BY <1>4, LeavingTakesAway
  <2> QED  BY <2>1, NoNewMatch
<1>5. ASSUME NEW r \in Requests, SearchForOpponent(r) \/ Accept(r)
      PROVE  Free(x)
  BY SMTT(60), <1>5, SearchTakesNobody, AcceptTakesNobody
<1> QED  BY <1>1, <1>2, <1>3, <1>4, <1>5, OthersTakeNobody, EntriesChangeIn

\* The search of one player makes a match only with one who searches at that
\* moment (searchForOpponent removes from what it has read of the queue those
\* who search no more): nobody is taken from a match, a battle, or from outside.
THEOREM NobodyIsTakenAway == Spec => NobodyIsTaken
<1>1. MatchInv /\ [Next]_vars =>
          [\A p \in Players :
              Human(qplr'[p]) /\ qplr'[p].stat = Found /\ qplr'[p] # qplr[p]
                  => qplr[p].stat \in {Absent, Searching}
                     /\ (qplr[p].stat = Absent => \E r \in Requests : Op(r, "search") /\ req[r].pid = p)]_vars
  BY StepTakesNobody DEF Free
<1> QED  BY <1>1, MatchIsSound, PTL DEF Spec, NobodyIsTaken

-----------------------------------------------------------------------------
(* A place of two players is booked for both of them.                      *)

\* The key k gets a booking for a battle with a player.
Books(k) == grmb[k].pid = NoOne /\ grmb'[k].pid # NoOne /\ ~grmb'[k].opbot

\* It is for one who had the other as his opponent, and was his, and the other
\* gets his own booking in the same step.
Shares(p, o) ==
    /\ p # o /\ qplr[p].opp = o /\ qplr[o].opp = p
    /\ \E j \in Requests : grmb'[j].pid = o /\ grmb'[j].opp = p /\ ~grmb'[j].opbot
BothBook(k) == Books(k) => Shares(grmb'[k].pid, grmb'[k].opp)

BookedForBoth == [][~torn => \A k \in Requests : BothBook(k)]_vars

\* The number of a request is the key of a booking.
LEMMA RequestsAreKeys == \A k \in Requests : k \in 0..MaxRequests
  BY BoundsAssumption DEF Requests

\* A booking that stays or goes is not a new one.
LEMMA OldIsNotBooked ==
    ASSUME NEW k, grmb'[k] = grmb[k] \/ grmb'[k].pid = NoOne
    PROVE  ~Books(k)
  BY DEF Books

\* refreshStats books nothing: an entry that it leaves has the booking it had.
LEMMA RefreshBooksNothing ==
    ASSUME MatchInv, MatchInv', ~torn, NEW r \in Requests, Refresh(r), NEW k \in Requests
    PROVE  ~Books(k)
<1>1. /\ Matched(qplr, grmb) /\ Matched(qplr, grmb)'
      /\ grmb' \in Bookings /\ k \in 0..MaxRequests
  <2>1. torn' = torn
    BY ZenonT(60) DEF Refresh
  <2>2. Matched(qplr, grmb) /\ Matched(qplr, grmb)'
    BY <2>1 DEF MatchInv
  <2>3. grmb' \in Bookings
    BY DEF MatchInv, StoreSound
  <2>4. k \in 0..MaxRequests
    BY RequestsAreKeys
  <2> QED  BY ONLY <2>2, <2>3, <2>4
<1> SUFFICES ASSUME Books(k)
             PROVE  FALSE
  OBVIOUS
<1> DEFINE p == grmb'[k].pid
<1>2. p \in Players
  BY <1>1 DEF Books, Bookings, BookingRecord
<1>3. qplr'[p].stat \in {Booked, Playing} /\ qplr'[p].ky = k
  BY <1>1 DEF Books, Matched, IsNamed
<1>4. qplr'[p] \in {NoEntry, qplr[p]}
  BY <1>2, RefreshKeeps
<1> HIDE DEF p
<1>5. qplr'[p] = qplr[p]
  BY <1>3, <1>4, NothingIsTyped DEF Absent, Booked, Playing
<1>6. HasBooking(qplr, grmb, p)
  BY <1>1, <1>2 DEF Matched
<1>7. grmb[k].pid = p
  BY ONLY <1>3, <1>5, <1>6 DEF HasBooking
<1> QED  BY <1>2, <1>7, PlayersAssumption DEF Books

\* The scripts that end a match, or a part of one, book nothing.
LEMMA EndsBookNothing ==
    ASSUME MatchInv, NEW k \in Requests,
           \/ \E r \in Requests : CheckInQueue(r) \/ Drop(r)
           \/ \E p \in Players : LeaveRoom(p)
    PROVE  ~Books(k)
<1>1. grmb \in Bookings /\ k \in 0..MaxRequests
  BY BoundsAssumption DEF MatchInv, StoreSound, Requests
<1>2. ASSUME NEW r \in Requests, CheckInQueue(r) \/ Drop(r)
      PROVE  ~Books(k)
  <2>1. grmb' = grmb \/ \E key : grmb' = [grmb EXCEPT ![key] = NoBooking]
    BY ZenonT(60), <1>2 DEF CheckInQueue, Clear, Drop
  <2>2. grmb'[k] \in {grmb[k], NoBooking}
    BY ONLY <1>1, <2>1 DEF Bookings
  <2> QED  BY <2>2, OldIsNotBooked, NothingIsTyped
<1>3. ASSUME NEW p \in Players, LeaveRoom(p)
      PROVE  ~Books(k)
  <2>1. grmb'[k] \in {grmb[k], NoBooking}
    BY <1>1, <1>3 DEF LeaveRoom, BattleEnds, Bookings
  <2> QED  BY <2>1, OldIsNotBooked, NothingIsTyped
<1> QED  BY <1>2, <1>3

\* acceptMatch books a battle with a bot, or one for both players.
LEMMA AcceptBooksBoth ==
    ASSUME MatchInv, ~torn, NEW r \in Requests, Accept(r), NEW k \in Requests
    PROVE  BothBook(k)
<1> DEFINE p == req[r].pid
           now == req[r].now
           o == qplr[p].opp
<1>1. p \in Players /\ now \in 0..MaxTime
  BY Asker DEF Accept, Op
<1>2. grmb \in Bookings /\ k \in 0..MaxRequests /\ Matched(qplr, grmb) /\ KeysDiffer(qplr)
  <2>1. Matched(qplr, grmb)
    BY DEF MatchInv
  <2>2. grmb \in Bookings /\ KeysDiffer(qplr)
    BY DEF MatchInv, StoreSound
  <2>3. k \in 0..MaxRequests
    BY SMTT(60), RequestsAreKeys
  <2> QED  BY ONLY <2>1, <2>2, <2>3
<1>3. \/ grmb' = grmb
      \/ qplr[p].stat = Found /\ qplr[p].opbot /\ grmb' = [grmb EXCEPT ![qplr[p].ky] = Booking(p, now)]
      \/ /\ qplr[p].stat = Found /\ ~qplr[p].opbot /\ qplr[o].stat = Accepted
         /\ BookBoth(p, o, now)
  BY ZenonT(60) DEF Accept, MayDecide, AcceptNothing, AcceptBot, AcceptFirst, AcceptSecond
<1>4. CASE grmb' = grmb
  BY <1>4, OldIsNotBooked DEF BothBook
<1>5. CASE qplr[p].opbot /\ grmb' = [grmb EXCEPT ![qplr[p].ky] = Booking(p, now)]
  <2>1. Booking(p, now).opbot = qplr[p].opbot
    BY DEF Booking
  <2> HIDE DEF p, now
  <2>2. grmb'[k] \in {grmb[k], Booking(p, now)}
    BY <1>2, <1>5 DEF Bookings
  <2> QED  BY <1>5, <2>1, <2>2 DEF BothBook, Books
<1>6. CASE /\ qplr[p].stat = Found /\ ~qplr[p].opbot /\ qplr[o].stat = Accepted
           /\ BookBoth(p, o, now)
  <2> DEFINE bp == [Booking(p, now) EXCEPT !.opp = o]
             bo == [Booking(o, now) EXCEPT !.opp = p]
             kp == qplr[p].ky
             ko == qplr[o].ky
  <2>1. /\ o \in Players \ {p} /\ qplr[o].opp = p /\ Human(qplr[o])
    BY <1>1, <1>2, <1>6, MatchedPair
  <2>2. /\ bp.pid = p /\ bp.opp = o /\ bp.opbot = qplr[p].opbot
        /\ bo.pid = o /\ bo.opp = p /\ bo.opbot = qplr[o].opbot
    BY DEF Booking
  <2>3. qplr[p].opp = o /\ ~qplr[p].opbot /\ ~qplr[o].opbot
    BY ONLY SMTT(60), <1>6, <2>1 DEF Human
  <2>4. kp \in 0..MaxRequests /\ ko \in 0..MaxRequests /\ kp # 0 /\ ko # 0
    <3>1. qplr \in Entries /\ EntriesSound(qplr)
      BY SMTT(60) DEF MatchInv, StoreSound
    <3> QED  BY ZenonT(60), <1>1, <1>6, <2>1, <3>1, EntryParts DEF EntriesSound, EntrySound
  <2>5. kp # ko
    BY ZenonT(60), <1>1, <1>2, <2>1, <2>4 DEF KeysDiffer
  <2>6. grmb' = [grmb EXCEPT ![kp] = bp, ![ko] = bo]
    BY ZenonT(60), <1>6 DEF BookBoth
  <2> HIDE DEF bp, bo, kp, ko, p, now, o
  <2>7. /\ grmb'[kp] = bp /\ grmb'[ko] = bo
        /\ \A j \in 0..MaxRequests \ {kp, ko} : grmb'[j] = grmb[j]
    BY <1>2, <2>4, <2>5, <2>6 DEF Bookings
  <2>8. kp \in Requests /\ ko \in Requests
    BY <2>4, BoundsAssumption DEF Requests
  <2>9. CASE k = kp
    BY ONLY <2>1, <2>2, <2>3, <2>7, <2>8, <2>9 DEF BothBook, Shares
  <2>10. CASE k = ko
    BY ONLY <2>1, <2>2, <2>3, <2>7, <2>8, <2>10 DEF BothBook, Shares
  <2>11. CASE k \notin {kp, ko}
    BY <1>2, <2>7, <2>11, OldIsNotBooked DEF BothBook
  <2> QED  BY <2>9, <2>10, <2>11
<1> QED  BY <1>3, <1>4, <1>5, <1>6

\* A place is booked for two players only if each is the other's opponent, and
\* then for both at once (acceptMatch): unless a match was ended for one of its
\* players only before, which the entries do not show (checkInQueue,
\* dropAllMatchmakingData), nobody comes to a room for which his opponent has no
\* booking.
THEOREM MatchIsBookedForBoth == Spec => BookedForBoth
<1>1. MatchInv /\ MatchInv' /\ [Next]_vars => [~torn => \A k \in Requests : BothBook(k)]_vars
  <2> SUFFICES ASSUME MatchInv, MatchInv', [Next]_vars, ~torn, NEW k \in Requests
               PROVE  BothBook(k)
    OBVIOUS
  <2>1. CASE grmb' = grmb
    BY <2>1, OldIsNotBooked DEF BothBook
  <2>2. ASSUME NEW r \in Requests, Refresh(r)
        PROVE  BothBook(k)
    BY <2>2, RefreshBooksNothing DEF BothBook
  <2>3. ASSUME \/ \E r \in Requests : CheckInQueue(r) \/ Drop(r)
               \/ \E p \in Players : LeaveRoom(p)
        PROVE  BothBook(k)
    BY <2>3, EndsBookNothing DEF BothBook
  <2>4. ASSUME NEW r \in Requests, Accept(r)
        PROVE  BothBook(k)
    BY <2>4, AcceptBooksBoth
  <2>5. \/ grmb' = grmb
        \/ \E r \in Requests : Refresh(r) \/ CheckInQueue(r) \/ Drop(r) \/ Accept(r)
        \/ \E p \in Players : LeaveRoom(p)
    BY ZenonT(60) DEF Next, vars, Ask, Deliver, Answer, CommandFails, ColdResponse, Close, RefreshFails,
           SearchRefused, SearchForOpponent, StopSearching, PickOpponent, Decline, EnterRoom,
           StayInRoom, SetOccupation, Tick
  <2> QED  BY <2>1, <2>2, <2>3, <2>4, <2>5
<1> QED  BY <1>1, MatchIsSound, PTL DEF Spec, BookedForBoth
-----------------------------------------------------------------------------
(* Matchmaking implements MatchService.  Before and after a step that ends *)
(* no match for one of its players only the entries are matched: then who  *)
(* has a place can be read from his entry, and the opponents are each      *)
(* other's, so that what a step does to each entry alone tells which step  *)
(* of the service it is.                                                   *)

HasPlace(e) == Human(e) /\ e.stat \in {Booked, Playing}

\* In a matched store just the booked and the playing have bookings.
LEMMA PlaceIsInEntry ==
    ASSUME NEW q \in Entries, NEW g \in Bookings, Matched(q, g), NEW p \in Players
    PROVE  (\E k \in Requests : g[k].pid = p) <=> q[p].stat \in {Booked, Playing}
<1>1. ASSUME NEW k \in Requests, g[k].pid = p
      PROVE  q[p].stat \in {Booked, Playing}
  <2>1. IsNamed(q, g, k) /\ p # NoOne
    BY PlayersAssumption DEF Matched
  <2> QED  BY <1>1, <2>1 DEF IsNamed
<1>2. ASSUME q[p].stat \in {Booked, Playing}
      PROVE  \E k \in Requests : g[k].pid = p
  <2>1. q[p].ky # 0 /\ g[q[p].ky].pid = p
    BY <1>2 DEF Matched, HasBooking
  <2>2. q[p].ky \in 0..MaxRequests
    BY EntryParts
  <2>3. q[p].ky \in Requests
    BY <2>1, <2>2, BoundsAssumption DEF Requests
  <2> QED  BY <2>1, <2>3
<1> QED  BY <1>1, <1>2

\* What the proofs below know of a step: entries matched on both sides.
MatchedStep ==
    /\ qplr \in Entries /\ grmb \in Bookings /\ Matched(qplr, grmb)
    /\ qplr' \in Entries /\ grmb' \in Bookings /\ Matched(qplr', grmb')
    /\ torn' = torn

\* The opponents and the places, read from the entries.
LEMMA ServiceState ==
    ASSUME MatchedStep
    PROVE  /\ Opponent = [p \in Players |-> IF Human(qplr[p]) THEN qplr[p].opp ELSE NoOne]
           /\ Opponent' = [p \in Players |-> IF Human(qplr'[p]) THEN qplr'[p].opp ELSE NoOne]
           /\ WithPlace = {p \in Players : HasPlace(qplr[p])}
           /\ WithPlace' = {p \in Players : HasPlace(qplr'[p])}
<1>1. \A p \in Players :
          /\ (\E k \in Requests : grmb[k].pid = p) <=> qplr[p].stat \in {Booked, Playing}
          /\ (\E k \in Requests : grmb'[k].pid = p) <=> qplr'[p].stat \in {Booked, Playing}
  BY PlaceIsInEntry DEF MatchedStep
<1>2. WithPlace = {p \in Players : HasPlace(qplr[p])}
  BY ZenonT(60), <1>1 DEF WithPlace, HasPlace
<1>3. WithPlace' = {p \in Players : HasPlace(qplr'[p])}
  BY ZenonT(60), <1>1 DEF WithPlace, HasPlace
<1>4. /\ Opponent = [p \in Players |-> IF Human(qplr[p]) THEN qplr[p].opp ELSE NoOne]
      /\ Opponent' = [p \in Players |-> IF Human(qplr'[p]) THEN qplr'[p].opp ELSE NoOne]
  BY ZenonT(60) DEF Opponent
<1> QED  BY <1>2, <1>3, <1>4

\* The entry f, after a step, is in no match, or in the one that e was in.
Remains(e, f) ==
    Human(f) => Human(e) /\ f.opp = e.opp
                /\ (f.stat \in {Booked, Playing} <=> e.stat \in {Booked, Playing})

\* If all entries are so, the matches of those who are in none are over: each
\* one's opponent is among them, as what is left is mutual.
LEMMA RemainingIsPart ==
    ASSUME MatchedStep, \A p \in Players : Remains(qplr[p], qplr'[p])
    PROVE  Service!Next
<1> DEFINE gone == {p \in Players : ~Human(qplr'[p])}
<1>1. gone \in SUBSET Players
  OBVIOUS
<1>2. ASSUME NEW c \in gone, Opponent[c] # NoOne
      PROVE  Opponent[c] \in gone
  <2> DEFINE d == qplr[c].opp
  <2>1. c \in Players /\ ~Human(qplr'[c])
    OBVIOUS
  <2>2. Human(qplr[c]) /\ Opponent[c] = d
    BY <1>2, <2>1, ServiceState
  <2>3. d \in Players /\ Human(qplr[d]) /\ qplr[d].opp = c
    BY <2>1, <2>2 DEF MatchedStep, Matched, PairSound
  <2> HIDE DEF d
  <2>4. ASSUME Human(qplr'[d])
        PROVE  FALSE
    <3>1. qplr'[d].opp = c
      BY <2>3, <2>4 DEF Remains
    <3>2. PairSound(qplr', d)
      BY <2>3 DEF MatchedStep, Matched
    <3> QED  BY <2>1, <2>4, <3>1, <3>2 DEF PairSound
  <2> QED  BY <2>2, <2>3, <2>4
<1>3. \A p \in Players : Opponent'[p] = IF p \in gone THEN NoOne ELSE Opponent[p]
  <2> SUFFICES ASSUME NEW p \in Players
               PROVE  Opponent'[p] = IF p \in gone THEN NoOne ELSE Opponent[p]
    OBVIOUS
  <2>1. /\ Opponent[p] = IF Human(qplr[p]) THEN qplr[p].opp ELSE NoOne
        /\ Opponent'[p] = IF Human(qplr'[p]) THEN qplr'[p].opp ELSE NoOne
    BY ServiceState
  <2>2. p \in gone <=> ~Human(qplr'[p])
    OBVIOUS
  <2>3. Human(qplr'[p]) => Human(qplr[p]) /\ qplr'[p].opp = qplr[p].opp
    BY DEF Remains
  <2> HIDE DEF gone
  <2> QED  BY <2>1, <2>2, <2>3
<1>4. WithPlace' = WithPlace \ gone
  <2>1. \A p \in Players : HasPlace(qplr'[p]) <=> HasPlace(qplr[p]) /\ Human(qplr'[p])
    BY ZenonT(60) DEF HasPlace, Remains
  <2>2. /\ WithPlace = {p \in Players : HasPlace(qplr[p])}
        /\ WithPlace' = {p \in Players : HasPlace(qplr'[p])}
    BY ServiceState
  <2> QED  BY <2>1, <2>2
<1>5. Opponent' = [p \in Players |-> IF p \in gone THEN NoOne ELSE Opponent[p]]
  <2> HIDE DEF gone
  <2> QED  BY <1>3, ServiceState
<1> HIDE DEF gone
<1>6. Service!Part(gone)
  BY <1>2, <1>4, <1>5 DEF Service!Part
<1> QED  BY <1>1, <1>6 DEF Service!Next, MatchedStep

\* Two players get a match, who had none.
LEMMA PairingIsMatch ==
    ASSUME MatchedStep, NEW p \in Players, NEW c \in Players, p # c,
           ~Human(qplr[p]), ~Human(qplr[c]),
           qplr'[p].stat = Found, ~qplr'[p].opbot, qplr'[p].opp = c,
           qplr'[c].stat = Found, ~qplr'[c].opbot, qplr'[c].opp = p,
           \A x \in Players \ {p, c} : qplr'[x] = qplr[x] \/ (~Human(qplr[x]) /\ ~Human(qplr'[x]))
    PROVE  Service!Next
<1>1. Human(qplr'[p]) /\ Human(qplr'[c]) /\ ~HasPlace(qplr'[p]) /\ ~HasPlace(qplr'[c])
  BY DEF Human, HasPlace, Found, Booked, Playing
<1>2. Opponent[p] = NoOne /\ Opponent[c] = NoOne
  BY ServiceState
<1>3. \A x \in Players : Opponent'[x] = IF x = p THEN c ELSE IF x = c THEN p ELSE Opponent[x]
  BY <1>1, ServiceState
<1>4. Opponent' = [Opponent EXCEPT ![p] = c, ![c] = p]
  BY <1>3, ServiceState
<1>5. WithPlace' = WithPlace
  <2>1. \A x \in Players : HasPlace(qplr'[x]) <=> HasPlace(qplr[x])
    BY <1>1 DEF HasPlace
  <2> QED  BY <2>1, ServiceState
<1>6. Service!Match(p, c)
  BY <1>2, <1>4, <1>5 DEF Service!Match
<1> QED  BY <1>6 DEF Service!Next, MatchedStep

\* Two matched players get their places.
LEMMA BookingIsPlace ==
    ASSUME MatchedStep, NEW p \in Players, NEW o \in Players, p # o,
           Human(qplr[p]), qplr[p].opp = o, Human(qplr[o]), ~HasPlace(qplr[p]), ~HasPlace(qplr[o]),
           HasPlace(qplr'[p]), qplr'[p].opp = qplr[p].opp,
           HasPlace(qplr'[o]), qplr'[o].opp = qplr[o].opp,
           \A x \in Players \ {p, o} : qplr'[x] = qplr[x]
    PROVE  Service!Next
<1>1. Human(qplr'[p]) /\ Human(qplr'[o])
  BY DEF HasPlace
<1>2. Opponent[p] = o /\ o # NoOne
  BY ServiceState, PlayersAssumption
<1>3. \A x \in Players : Opponent'[x] = Opponent[x]
  BY <1>1, ServiceState
<1>4. Opponent' = Opponent
  BY <1>3, ServiceState
<1>5. {p, o} \cap WithPlace = {} /\ WithPlace' = WithPlace \cup {p, o}
  BY ServiceState
<1>6. Service!Place(p)
  BY <1>2, <1>4, <1>5 DEF Service!Place
<1> QED  BY <1>6 DEF Service!Next, MatchedStep

\* An entry that stays, goes, or is of no match after the step.
LEMMA RemainsSimply ==
    ASSUME NEW e, NEW f, f = e \/ f = NoEntry \/ ~Human(f)
    PROVE  Remains(e, f)
  BY NothingIsSound DEF Remains

\* A player finds one who searches, or queues up.
LEMMA SearchServes ==
    ASSUME MatchInv, MatchedStep, NEW r \in Requests, SearchForOpponent(r)
    PROVE  Service!Next
<1> DEFINE p == req[r].pid
           now == req[r].now
<1>1. p \in Players /\ now \in 0..MaxTime
  BY Asker DEF SearchForOpponent, Op
<1>2. qplr \in Entries /\ sq \in Queues /\ EntriesSound(qplr) /\ qplr[p].stat = Absent
  BY DEF SearchForOpponent, In, MatchInv, StoreSound
<1>3. PICK s \in Segments : \E seen \in SUBSET sq[s] :
         \/ \E c \in seen \ (Gone(seen) \cup Late(seen, now) \cup {p}) : PairWith(r, s, seen, c)
         \/ QueueUp(r, s, seen)
  BY DEF SearchForOpponent
<1>4. PICK seen \in SUBSET sq[s] :
         \/ \E c \in seen \ (Gone(seen) \cup Late(seen, now) \cup {p}) : PairWith(r, s, seen, c)
         \/ QueueUp(r, s, seen)
  BY <1>3
<1>5. seen \subseteq Players
  BY <1>2 DEF Queues
<1>6. CASE QueueUp(r, s, seen)
  <2>1. \A x \in Players :
            qplr'[x] = IF x = p THEN Queued(r, now, s)
                       ELSE IF x \in Late(seen, now) THEN NoEntry ELSE qplr[x]
    BY ZenonT(60), <1>6 DEF QueueUp, Queued
  <2>2. ~Human(Queued(r, now, s))
    BY <1>1, QueuedIsSound DEF Human, Searching, Found, Playing
  <2> HIDE DEF p, now
  <2>3. \A x \in Players : Remains(qplr[x], qplr'[x])
    BY ZenonT(60), <2>1, <2>2, RemainsSimply
  <2> QED  BY <2>3, RemainingIsPart
<1>7. ASSUME NEW c \in seen \ (Gone(seen) \cup Late(seen, now) \cup {p}), PairWith(r, s, seen, c)
      PROVE  Service!Next
  <2> DEFINE his == [qplr[c] EXCEPT !.stat = Found, !.opp = p, !.upd = now, !.segm = s]
  <2>1. c \in Players /\ c # p /\ qplr[c].stat = Searching
    BY <1>5, <1>7 DEF Gone
  <2>2. \A x \in Players :
            qplr'[x] = IF x = p THEN FoundBy(c, r, now, s) ELSE IF x = c THEN his
                       ELSE IF x \in Late(seen, now) THEN NoEntry ELSE qplr[x]
    BY ZenonT(60), <1>7 DEF PairWith, FoundBy
  <2>3. SoundlyFound(FoundBy(c, r, now, s), r, c)
    BY ONLY ZenonT(60), <1>1, <2>1, FoundByIsSound
  <2>4. \A x \in Late(seen, now) : qplr[x].stat = Searching
    BY DEF Late, Gone
  <2> HIDE DEF p, now
  <2>5. qplr[c].opbot = FALSE
    BY <1>2, <2>1, EntryParts DEF EntriesSound, EntrySound
  <2>6. his.stat = Found /\ his.opp = p /\ his.opbot = FALSE
    <3>1. qplr[c] \in Entry
      BY <1>2, <2>1, EntryParts
    <3> QED  BY <2>5, <3>1 DEF Entry
  <2> HIDE DEF his
  <2>7. qplr'[p].stat = Found /\ ~qplr'[p].opbot /\ qplr'[p].opp = c
    BY <1>1, <2>2, <2>3 DEF SoundlyFound
  <2>8. qplr'[c].stat = Found /\ ~qplr'[c].opbot /\ qplr'[c].opp = p
    BY <2>1, <2>2, <2>6
  <2>9. ~Human(qplr[p]) /\ ~Human(qplr[c])
    BY <1>2, <2>1 DEF Human, Absent, Searching, Found, Playing
  <2>10. ASSUME NEW x \in Players \ {p, c}
         PROVE  qplr'[x] = qplr[x] \/ (~Human(qplr[x]) /\ ~Human(qplr'[x]))
    <3>1. CASE x \in Late(seen, now)
      BY <2>2, <2>4, <3>1, NothingIsSound DEF Human, Searching, Found, Playing
    <3>2. CASE x \notin Late(seen, now)
      BY <2>2, <3>2
    <3> QED  BY <3>1, <3>2
  <2> QED  BY <1>1, <2>1, <2>7, <2>8, <2>9, <2>10, PairingIsMatch
<1> QED  BY <1>4, <1>6, <1>7

\* acceptMatch: both get their places, one waits for the other, the match is
\* over, or it is one with a bot.
LEMMA AcceptServes ==
    ASSUME MatchInv, MatchedStep, NEW r \in Requests, Accept(r)
    PROVE  Service!Next
<1> DEFINE p == req[r].pid
           now == req[r].now
           o == qplr[p].opp
<1>1. p \in Players /\ now \in 0..MaxTime
  BY Asker DEF Accept, Op
<1>2. qplr \in Entries /\ Matched(qplr, grmb)
  BY DEF MatchedStep
<1>3. \/ qplr' = qplr
      \/ qplr' = [y \in Players |-> IF y \in {p, o} THEN NoEntry ELSE qplr[y]]
      \/ qplr[p].opbot /\ qplr' = [qplr EXCEPT ![p] = Placed(p, now)]
      \/ /\ qplr[p].stat = Found /\ ~qplr[p].opbot /\ qplr[o].stat = Accepted
         /\ qplr' = [qplr EXCEPT ![p] = Placed(p, now), ![o] = Placed(o, now)]
      \/ qplr[p].stat = Found /\ ~qplr[p].opbot /\ qplr' = [qplr EXCEPT ![p].stat = Accepted]
  BY ZenonT(60) DEF Accept, MayDecide, AcceptBot, AcceptFirst, AcceptSecond, AcceptNothing, BookBoth
<1> HIDE DEF p, now, o
<1>4. CASE \/ qplr' = qplr
           \/ qplr' = [y \in Players |-> IF y \in {p, o} THEN NoEntry ELSE qplr[y]]
  <2>1. \A x \in Players : qplr'[x] = qplr[x] \/ qplr'[x] = NoEntry
    BY <1>4
  <2> QED  BY <2>1, RemainsSimply, RemainingIsPart
<1>5. CASE qplr[p].opbot /\ qplr' = [qplr EXCEPT ![p] = Placed(p, now)]
  <2>1. ~Human(Placed(p, now))
    BY <1>1, <1>2, <1>5, PlacedIsSound DEF Human
  <2>2. \A x \in Players : qplr'[x] = qplr[x] \/ qplr'[x] = Placed(p, now)
    BY <1>2, <1>5 DEF Entries
  <2>3. \A x \in Players : Remains(qplr[x], qplr'[x])
    BY ZenonT(60), <2>1, <2>2, RemainsSimply
  <2> QED  BY <2>3, RemainingIsPart
<1>6. CASE /\ qplr[p].stat = Found /\ ~qplr[p].opbot /\ qplr[o].stat = Accepted
           /\ qplr' = [qplr EXCEPT ![p] = Placed(p, now), ![o] = Placed(o, now)]
  <2>1. /\ Human(qplr[p]) /\ o \in Players \ {p} /\ Human(qplr[o]) /\ qplr[p].opp = o
    BY <1>1, <1>2, <1>6, MatchedPair DEF o
  <2>2. /\ qplr'[p] = Placed(p, now) /\ qplr'[o] = Placed(o, now)
        /\ \A x \in Players \ {p, o} : qplr'[x] = qplr[x]
    BY <1>1, <1>2, <1>6, <2>1 DEF Entries
  <2>3. /\ Placed(p, now).stat = Booked /\ Placed(p, now).opbot = qplr[p].opbot
        /\ Placed(p, now).opp = qplr[p].opp
    BY <1>1, <1>2, PlacedIsSound
  <2>4. /\ Placed(o, now).stat = Booked /\ Placed(o, now).opbot = qplr[o].opbot
        /\ Placed(o, now).opp = qplr[o].opp
    BY <1>1, <1>2, <2>1, PlacedIsSound
  <2>5. HasPlace(qplr'[p]) /\ qplr'[p].opp = qplr[p].opp /\ ~HasPlace(qplr[p])
    BY <1>6, <2>1, <2>2, <2>3 DEF HasPlace, Human, Found, Booked, Playing
  <2>6. HasPlace(qplr'[o]) /\ qplr'[o].opp = qplr[o].opp /\ ~HasPlace(qplr[o])
    BY <1>6, <2>1, <2>2, <2>4 DEF HasPlace, Human, Found, Accepted, Booked, Playing
  <2> QED  BY <1>1, <2>1, <2>2, <2>5, <2>6, BookingIsPlace
<1>7. CASE qplr[p].stat = Found /\ ~qplr[p].opbot /\ qplr' = [qplr EXCEPT ![p].stat = Accepted]
  <2> DEFINE mine == [qplr[p] EXCEPT !.stat = Accepted]
  <2>1. mine.stat = Accepted /\ mine.opp = qplr[p].opp
    BY <1>1, <1>2, EntryParts DEF Entry
  <2>2. qplr'[p] = mine /\ \A x \in Players \ {p} : qplr'[x] = qplr[x]
    BY <1>1, <1>2, <1>7 DEF Entries
  <2> HIDE DEF mine
  <2>3. Remains(qplr[p], mine)
    BY <1>7, <2>1 DEF Remains, Human, Found, Accepted, Booked, Playing
  <2>4. \A x \in Players : Remains(qplr[x], qplr'[x])
    BY <2>2, <2>3, RemainsSimply
  <2> QED  BY <2>4, RemainingIsPart
<1> QED  BY <1>3, <1>4, <1>5, <1>6, <1>7

\* The room: a player with a booking has it still.
LEMMA RoomServes ==
    ASSUME MatchedStep, NEW p \in Players, qplr[p].stat \in {Booked, Playing},
           NEW e, e.stat = Playing, e.opp = qplr[p].opp, e.opbot = qplr[p].opbot,
           qplr' = [qplr EXCEPT ![p] = e]
    PROVE  Service!Next
<1>1. qplr'[p] = e /\ \A x \in Players \ {p} : qplr'[x] = qplr[x]
  BY DEF MatchedStep, Entries
<1>2. Remains(qplr[p], e)
  BY DEF Remains, Human, Found, Booked, Playing
<1>3. \A x \in Players : Remains(qplr[x], qplr'[x])
  BY <1>1, <1>2, RemainsSimply
<1> QED  BY <1>3, RemainingIsPart

\* A bot is not a match with a player, and a battle is the match it was.
LEMMA OthersServe ==
    ASSUME MatchInv, MatchedStep,
           \/ \E r \in Requests : PickOpponent(r) \/ EnterRoom(r)
           \/ \E p \in Players : StayInRoom(p)
    PROVE  Service!Next
<1>1. qplr \in Entries /\ grmb \in Bookings /\ Matched(qplr, grmb)
  BY DEF MatchedStep
<1>2. ASSUME NEW r \in Requests, PickOpponent(r)
      PROVE  Service!Next
  <2>1. \/ qplr' = qplr
        \/ \E o \in Players : qplr' = [qplr EXCEPT ![req[r].pid] = FoundBot(o, r, req[r].now)]
    BY ZenonT(60), <1>2 DEF PickOpponent, FoundBot
  <2>2. req[r].now \in 0..MaxTime
    BY ZenonT(60), <1>2, Asker DEF PickOpponent, Op
  <2>3. \A x \in Players :
            \/ qplr'[x] = qplr[x]
            \/ \E o \in Players : qplr'[x] = FoundBot(o, r, req[r].now)
    BY <1>1, <2>1 DEF Entries
  <2>4. \A o \in Players : ~Human(FoundBot(o, r, req[r].now))
    BY <2>2, FoundBotIsSound DEF Human
  <2>5. \A x \in Players : Remains(qplr[x], qplr'[x])
    BY ZenonT(60), <2>3, <2>4, RemainsSimply
  <2> QED  BY <2>5, RemainingIsPart
<1>3. ASSUME NEW k \in Requests, EnterRoom(k)
      PROVE  Service!Next
  <2> DEFINE p == grmb[k].pid
             e == [qplr[p] EXCEPT !.stat = Playing, !.upd = clock]
  <2>1. p \in Players
    BY <1>1, <1>3, RequestsAreKeys DEF EnterRoom, Live, Bookings, BookingRecord
  <2>2. qplr[p].stat \in {Booked, Playing}
    BY <1>1, <1>3 DEF EnterRoom, Live, Matched, IsNamed
  <2>3. qplr' = [qplr EXCEPT ![p] = e]
    BY <1>1, <1>3, <2>1 DEF EnterRoom, Entries
  <2>4. e.stat = Playing /\ e.opp = qplr[p].opp /\ e.opbot = qplr[p].opbot
    BY <1>1, <2>1, EntryParts DEF Entry
  <2> HIDE DEF p, e
  <2> QED  BY <2>1, <2>2, <2>3, <2>4, RoomServes
<1>4. ASSUME NEW p \in Players, StayInRoom(p)
      PROVE  Service!Next
  <2> DEFINE e == [qplr[p] EXCEPT !.upd = clock]
  <2>1. qplr[p].stat = Playing /\ qplr' = [qplr EXCEPT ![p] = e]
    BY <1>1, <1>4 DEF StayInRoom, Entries
  <2>2. e.stat = Playing /\ e.opp = qplr[p].opp /\ e.opbot = qplr[p].opbot
    BY <1>1, <2>1, EntryParts DEF Entry
  <2> HIDE DEF e
  <2> QED  BY <2>1, <2>2, RoomServes
<1> QED  BY <1>2, <1>3, <1>4

\* What was torn stays torn.
LEMMA TornStays ==
    ASSUME torn, torn \in BOOLEAN, [Next]_vars
    PROVE  torn'
<1>1. CASE torn' = torn
  BY <1>1
<1>2. ASSUME NEW r \in Requests, CheckInQueue(r) \/ Drop(r)
      PROVE  torn'
  BY ZenonT(60), <1>2 DEF CheckInQueue, Clear, Drop
<1>3. ASSUME NEW r \in Requests, Accept(r)
      PROVE  torn'
  BY ZenonT(60), <1>3 DEF Accept, AcceptBot, AcceptFirst, AcceptSecond, AcceptNothing
<1>4. ASSUME NEW p \in Players, LeaveRoom(p)
      PROVE  torn'
  BY ZenonT(60), <1>4 DEF LeaveRoom, BattleEnds
<1>5. \/ torn' = torn
      \/ \E r \in Requests : CheckInQueue(r) \/ Drop(r) \/ Accept(r)
      \/ \E p \in Players : LeaveRoom(p)
  BY ZenonT(60) DEF Next, vars, Ask, Deliver, Answer, CommandFails, ColdResponse, Close, RefreshFails,
         Refresh, SearchRefused, SearchForOpponent, StopSearching, PickOpponent, Decline, EnterRoom,
         StayInRoom, SetOccupation, Tick
<1> QED  BY <1>1, <1>2, <1>3, <1>4, <1>5

\* In the beginning nobody has an opponent or a place.
LEMMA ServiceBegins == Init => Service!Init
<1> SUFFICES ASSUME Init
             PROVE  Service!Init
  OBVIOUS
<1>1. \A p \in Players : ~Human(qplr[p])
  BY NothingIsSound DEF Init
<1>2. Opponent = [p \in Players |-> NoOne] /\ WithPlace = {}
  BY <1>1 DEF Opponent, WithPlace
<1>3. torn = FALSE
  BY DEF Init
<1> QED  BY <1>2, <1>3 DEF Service!Init

\* Every step is one of the service.
LEMMA StepServes ==
    ASSUME MatchInv, MatchInv', [Next]_vars
    PROVE  Service!Next
<1>1. CASE torn'
  BY <1>1 DEF Service!Next
<1>2. CASE ~torn'
  <2>1. MatchedStep
    <3>1. torn \in BOOLEAN /\ torn' \in BOOLEAN
      BY DEF MatchInv, RestTyped
    <3>2. ~torn /\ torn' = torn
      BY <1>2, <3>1, TornStays
    <3>3. Matched(qplr, grmb) /\ Matched(qplr', grmb')
      BY <1>2, <3>2 DEF MatchInv
    <3>4. qplr \in Entries /\ grmb \in Bookings /\ qplr' \in Entries /\ grmb' \in Bookings
      BY DEF MatchInv, StoreSound
    <3> QED  BY ONLY <3>2, <3>3, <3>4 DEF MatchedStep
  <2>2. CASE \A x \in Players : qplr'[x] \in {NoEntry, qplr[x]}
    BY <2>1, <2>2, RemainsSimply, RemainingIsPart
  <2>3. ASSUME NEW r \in Requests, Refresh(r) \/ OnlyEnds(r)
        PROVE  Service!Next
    <3>1. qplr \in Entries
      BY <2>1 DEF MatchedStep
    <3>2. CASE Refresh(r)
      BY <2>2, <3>2, RefreshKeeps
    <3>3. CASE OnlyEnds(r)
      BY <2>2, <3>1, <3>3, EndsTakeAway
    <3> QED  BY <2>3, <3>2, <3>3
  <2>4. ASSUME NEW p \in Players, LeaveRoom(p)
        PROVE  Service!Next
    BY <2>2, <2>4, LeavingTakesAway
  <2>5. ASSUME NEW r \in Requests, SearchForOpponent(r) \/ Accept(r)
        PROVE  Service!Next
    BY <2>1, <2>5, SearchServes, AcceptServes
  <2>6. \/ qplr' = qplr
        \/ \E r \in Requests : \/ Refresh(r) \/ OnlyEnds(r) \/ SearchForOpponent(r) \/ Accept(r)
                               \/ PickOpponent(r) \/ EnterRoom(r)
        \/ \E p \in Players : LeaveRoom(p) \/ StayInRoom(p)
    BY EntriesChangeIn
  <2> QED  BY <2>1, <2>2, <2>3, <2>4, <2>5, <2>6, OthersServe
<1> QED  BY <1>1, <1>2

\* To the players matchmaking is what MatchService says (searchForOpponent,
\* acceptMatch, declineMatch, refreshStats, the room): opponents are mutual,
\* both get their places in one step, and lose opponent and place together,
\* whatever requests, late polls and failed commands are under way, up to the
\* first match that is ended for one of its players only.
THEOREM MatchmakingServes == Spec => ServiceSpec
<1>1. Init => Service!Init
  BY ServiceBegins
<1>2. MatchInv /\ MatchInv' /\ [Next]_vars => [Service!Next]_(Service!serviceVars)
  BY StepServes
<1> QED  BY <1>1, <1>2, MatchIsSound, PTL DEF Spec, ServiceSpec, Service!Spec
==============================================================================
