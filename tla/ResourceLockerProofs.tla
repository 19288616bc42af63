------------------------ MODULE ResourceLockerProofs ------------------------
(***************************************************************************)
(* Theorems about the resource locker, for every set of calls, resources   *)
(* and workers and every LockTime and WaitTime.                            *)
(***************************************************************************)
EXTENDS ResourceLocker, FiniteSetTheorems, TLAPS

USE CallsAssumption, WorkersAssumption, TimeAssumption, SwitchesAssumption

\* The two actions that only turn what is on the wire into a failure.
Fails(k) == RedisGetFails(k) \/ RedisReturnFails(k)

(***************************************************************************)
(* A key is pushed a natural number of times.                              *)
(***************************************************************************)
LEMMA PushCount ==
    ASSUME TypeOK, NEW k \in Calls, NEW h \in Calls
    PROVE  Cardinality({r \in Taken(k) : lk[r].key = h}) \in Nat
<1>1. {r \in Taken(k) : lk[r].key = h} \subseteq Resources
  BY DEF Taken, TypeOK
<1>2. IsFiniteSet({r \in Taken(k) : lk[r].key = h})
  BY <1>1, FS_Subset
<1> QED  BY <1>2, FS_CardinalityType

(***************************************************************************)
(* TypeOK is inductive.                                                    *)
(***************************************************************************)
LEMMA TypeInit == Init => TypeOK
BY DEF Init, TypeOK, NoLock, NoOne, NoTtl, NoBustler, NoWaiting

\* Every step keeps the types.
LEMMA TypeStep == TypeOK /\ [Next]_vars => TypeOK'
<1> SUFFICES ASSUME TypeOK, [Next]_vars PROVE TypeOK'
  OBVIOUS
<1> USE DEF redisVars, processVars
<1>1. ASSUME NEW k \in Calls, NEW resources \in SUBSET Resources, GetLock(k, resources)
      PROVE  TypeOK'
  BY SMTT(60), <1>1 DEF TypeOK, GetLock, FreshBustler
<1>2. ASSUME NEW k \in Calls, RedisGet(k) PROVE TypeOK'
  <2>1. CASE Refuse(k)
    <3>1. PICK first \in Taken(k) :
             /\ lkq' = [h \in Calls |-> [lkq[h] EXCEPT ![k] =
                          @ + Cardinality({r \in Taken(k) : lk[r].key = h})]]
             /\ lkqTtl' = [lkqTtl EXCEPT ![lk[first].key] = LockTime]
             /\ wire' = [wire EXCEPT ![k] = "0"]
             /\ UNCHANGED lk
      BY <2>1 DEF Refuse
    <3>2. \A h \in Calls : Cardinality({r \in Taken(k) : lk[r].key = h}) \in Nat
      BY PushCount
    <3>3. ASSUME NEW h \in Calls PROVE lkq'[h] \in [Calls -> Nat]
      <4> DEFINE pushed == Cardinality({r \in Taken(k) : lk[r].key = h})
      <4>1. lkq'[h] = [lkq[h] EXCEPT ![k] = @ + pushed]
        BY <3>1
      <4>2. pushed \in Nat
        BY <3>2
      <4> HIDE DEF pushed
      <4> QED  BY SMTT(60), <4>1, <4>2 DEF TypeOK
    <3>5. lkq' \in [Calls -> [Calls -> Nat]]
      <4>1. lkq' = [h \in Calls |-> lkq'[h]]
        BY <3>1
      <4> QED  BY <3>3, <4>1
    <3>4. lkqTtl' \in [Calls -> {NoTtl} \cup 0..LockTime]
      <4> DEFINE holder == lk[first].key
      <4>1. lkqTtl' = [lkqTtl EXCEPT ![holder] = LockTime] /\ LockTime \in 0..LockTime
        BY <3>1
      <4> HIDE DEF holder
      <4> QED  BY <4>1 DEF TypeOK
    <3> QED  BY <1>2, <3>1, <3>5, <3>4 DEF TypeOK, RedisGet, GetReplies
  <2>2. CASE Grant(k)
    <3>1. lk' \in [Resources -> [key : Calls \cup {NoCall}, ttl : 0..LockTime]]
      BY <2>2 DEF TypeOK, Grant
    <3> QED  BY <1>2, <2>2, <3>1 DEF TypeOK, RedisGet, Grant, GetReplies
  <2> QED  BY <1>2, <2>1, <2>2 DEF RedisGet
<1>3. ASSUME NEW k \in Calls, Fails(k) PROVE TypeOK'
  BY ZenonT(60), <1>3 DEF TypeOK, Fails, RedisGetFails, RedisReturnFails, GetReplies
<1>4. ASSUME NEW k \in Calls, OnGranted(k) PROVE TypeOK'
  BY <1>4 DEF TypeOK, OnGranted, Answered
<1>5. ASSUME NEW k \in Calls, OnError(k) PROVE TypeOK'
  BY SMTT(60), <1>5 DEF TypeOK, OnError, Answered
<1>6. ASSUME NEW k \in Calls, OnReturned(k) PROVE TypeOK'
  BY <1>6 DEF TypeOK, OnReturned, Answered
<1>7. ASSUME NEW k \in Calls, OnRefusedRung(k) PROVE TypeOK'
  BY SMTT(60), <1>7 DEF TypeOK, OnRefusedRung, FreshBustler
<1>14. ASSUME NEW k \in Calls, OnRefused(k) PROVE TypeOK'
  BY SMTT(60), <1>14 DEF TypeOK, OnRefused, NoBustler
<1>15. ASSUME NEW k \in Calls, BustlerDies(k) PROVE TypeOK'
  BY SMTT(60), <1>15 DEF TypeOK, BustlerDies, NoBustler
<1>16. ASSUME NEW k \in Calls, WaitingDies(k) PROVE TypeOK'
  BY SMTT(60), <1>16 DEF TypeOK, WaitingDies, NoWaiting, Answered
<1>17. ASSUME NEW k \in Calls, ReturnRotted(k) PROVE TypeOK'
  BY SMTT(60), <1>17 DEF TypeOK, ReturnRotted, Answered
<1>18. ASSUME NEW k \in Calls, ReturnLock(k) PROVE TypeOK'
  BY SMTT(60), <1>18 DEF TypeOK, ReturnLock, Answered
<1>8. ASSUME NEW k \in Calls, RedisReturn(k) PROVE TypeOK'
  <2>1. lk' \in [Resources -> [key : Calls \cup {NoCall}, ttl : 0..LockTime]]
    BY <1>8 DEF TypeOK, RedisReturn, Freed, NoLock
  <2>2. inbox' \in [Workers -> Seq([Calls -> Nat])]
    BY <1>8 DEF TypeOK, RedisReturn
  <2> QED  BY <1>8, <2>1, <2>2 DEF TypeOK, RedisReturn, NoOne, NoTtl
<1>9. ASSUME NEW w \in Workers, Deliver(w) PROVE TypeOK'
  <2>1. /\ lockWaitings' \in [Calls -> -1..WaitTime]
        /\ age' \in [Calls -> 0..(LockTime + 1)]
        /\ wire' \in [Calls -> {"none", "get", "return", "done", "failed"} \cup GetReplies]
    BY SMTT(60), <1>9 DEF TypeOK, Deliver, NoWaiting
  <2>2. bustlerBuffer' \in [Calls -> [v : BOOLEAN, dt : -1..WaitTime]]
    <3>1. ASSUME NEW k \in Calls PROVE bustlerBuffer'[k] \in [v : BOOLEAN, dt : -1..WaitTime]
      <4>1. bustlerBuffer[k] \in [v : BOOLEAN, dt : -1..WaitTime]
        BY DEF TypeOK
      <4>2. PICK Woken, Rung : bustlerBuffer' = [j \in Calls |->
                 IF j \in Woken THEN FreshBustler(j \in Rung)
                 ELSE IF j \in Rung THEN [bustlerBuffer[j] EXCEPT !.v = TRUE]
                 ELSE bustlerBuffer[j]]
        BY ONLY ZenonT(60), <1>9, Zenon DEF Deliver
      <4>3. CASE k \in Woken
        <5>1. bustlerBuffer'[k] = [v |-> k \in Rung, dt |-> WaitTime]
          BY <4>2, <4>3, Zenon DEF FreshBustler
        <5> QED  BY <5>1
      <4>4. CASE k \notin Woken
        <5>1. bustlerBuffer'[k] = [bustlerBuffer[k] EXCEPT !.v = TRUE] \/ bustlerBuffer'[k] = bustlerBuffer[k]
          BY <4>2, <4>4
        <5> QED  BY <4>1, <5>1
      <4> QED  BY <4>3, <4>4
    <3>2. bustlerBuffer' = [k \in Calls |-> bustlerBuffer'[k]]
      BY <1>9 DEF Deliver
    <3> QED  BY <3>1, <3>2
  <2>3. inbox' \in [Workers -> Seq([Calls -> Nat])]
    BY <1>9 DEF TypeOK, Deliver
  <2> QED  BY <1>9, <2>1, <2>2, <2>3 DEF TypeOK, Deliver
<1>10. ASSUME NEW w \in Workers, MissMessage(w) PROVE TypeOK'
  BY SMTT(60), <1>10 DEF TypeOK, MissMessage
<1>11. ASSUME NEW w \in Workers, Crash(w) PROVE TypeOK'
  BY SMTT(60), <1>11 DEF TypeOK, Crash, NoBustler, NoWaiting
<1>12. ASSUME Tick PROVE TypeOK'
  <2>1. lk' \in [Resources -> [key : Calls \cup {NoCall}, ttl : 0..LockTime]]
    <3>1. ASSUME NEW r \in Resources PROVE lk'[r] \in [key : Calls \cup {NoCall}, ttl : 0..LockTime]
      <4>1. lk[r] \in [key : Calls \cup {NoCall}, ttl : 0..LockTime]
        BY DEF TypeOK
      <4>2. lk'[r] = IF lk[r].ttl = 0 THEN NoLock ELSE [lk[r] EXCEPT !.ttl = @ - 1]
        BY <1>12 DEF Tick, Expired
      <4> QED  BY <4>1, <4>2 DEF NoLock
    <3>2. lk' = [r \in Resources |-> lk'[r]]
      BY <1>12 DEF Tick
    <3> QED  BY <3>1, <3>2
  <2>2. /\ lkq' \in [Calls -> [Calls -> Nat]]
        /\ lkqTtl' \in [Calls -> {NoTtl} \cup 0..LockTime]
    BY SMTT(60), <1>12 DEF TypeOK, Tick, Expired, Less, NoOne, NoTtl
  <2>3. /\ age' \in [Calls -> 0..(LockTime + 1)]
        /\ lockWaitings' \in [Calls -> -1..WaitTime]
    BY SMTT(60), <1>12 DEF TypeOK, Tick, Less
  <2>4. bustlerBuffer' \in [Calls -> [v : BOOLEAN, dt : -1..WaitTime]]
    <3>1. ASSUME NEW k \in Calls PROVE bustlerBuffer'[k] \in [v : BOOLEAN, dt : -1..WaitTime]
      <4>1. bustlerBuffer[k] \in [v : BOOLEAN, dt : -1..WaitTime]
        BY DEF TypeOK
      <4>2. bustlerBuffer'[k] = [bustlerBuffer[k] EXCEPT !.dt = Less(@)]
        BY <1>12 DEF Tick
      <4> QED  BY <4>1, <4>2 DEF Less
    <3>2. bustlerBuffer' = [k \in Calls |-> bustlerBuffer'[k]]
      BY <1>12 DEF Tick
    <3> QED  BY <3>1, <3>2
  <2> QED  BY <1>12, <2>1, <2>2, <2>3, <2>4 DEF TypeOK, Tick
<1>13. CASE UNCHANGED vars
  BY SMTT(60), <1>13 DEF TypeOK, vars
<1> QED
  BY <1>1, <1>2, <1>3, <1>4, <1>5, <1>6, <1>7, <1>8, <1>9, <1>10, <1>11, <1>12, <1>13,
     <1>14, <1>15, <1>16, <1>17, <1>18
     DEF Next, CallStep, WorkerStep, Fails

\* Every state of the locker has the declared types.
THEOREM TypeCorrect == Spec => []TypeOK
BY TypeInit, TypeStep, PTL DEF Spec

(***************************************************************************)
(* The inductive invariant.  TypeOK alone says nothing of who may be where; *)
(* each conjunct below is needed to carry another one over some step.      *)
(***************************************************************************)

\* A call is at one place of its life: what is on the wire belongs to the
\* phase its caller is in, and a parked call has nothing on the wire.
StageInv == \A k \in Calls :
    /\ Waits(k) => caller[k] = "asking" /\ wire[k] = "none"
    /\ wire[k] \in {"get"} \cup GetReplies => caller[k] \in {"asking", "dead"}
    /\ wire[k] \in {"return", "done", "failed"} => caller[k] \in {"returning", "dead"}
    /\ caller[k] # "idle" => want[k] # {}

\* What a caller trusts is in Redis under its key, and the time to live there
\* covers what is left of MAX_LOCK_TIME_MS since `now`.
OwnInv == \A k \in Calls : Trusts(k) =>
    \A r \in want[k] : lk[r].key = k /\ lk[r].ttl + age[k] >= LockTime

\* The lock of a call is whole: all the resources it wants, with one
\* time-to-live, so it is taken, freed and expires as one.
KeyInv == \A k \in Calls, r1 \in Resources : lk[r1].key = k =>
    /\ r1 \in want[k]
    /\ \A r2 \in want[k] : lk[r2] = lk[r1]

\* A call that has not been granted its lock has nothing in Redis.
Ungranted(k) == caller[k] = "idle" \/ Waits(k) \/ wire[k] \in {"get", "0"}
FreeInv == \A k \in Calls : Ungranted(k) => \A r \in Resources : lk[r].key # k

IInv == TypeOK /\ StageInv /\ OwnInv /\ KeyInv /\ FreeInv

\* The inductive invariant holds at the start.
LEMMA InvInit == Init => IInv
BY TypeInit DEF Init, IInv, StageInv, OwnInv, KeyInv, FreeInv, Ungranted, Trusts, Waits, NoLock,
                NoWaiting, GetReplies

(***************************************************************************)
(* StageInv carries itself: every handler moves its own call from one phase *)
(* to the next, Deliver and Crash move several calls at once.              *)
(***************************************************************************)
LEMMA StageStep == TypeOK /\ StageInv /\ [Next]_vars => StageInv'
<1> SUFFICES ASSUME TypeOK, StageInv, [Next]_vars, NEW k \in Calls
             PROVE  StageInv!(k)'
  BY DEF StageInv
<1> USE DEF StageInv, TypeOK, Waits, GetReplies
<1>1. ASSUME NEW j \in Calls, NEW resources \in (SUBSET Resources) \ {{}}, GetLock(j, resources)
      PROVE  StageInv!(k)'
  BY ZenonT(60), <1>1 DEF GetLock
<1>2. ASSUME NEW j \in Calls, RedisGet(j) PROVE StageInv!(k)'
  BY ZenonT(60), <1>2 DEF RedisGet, Refuse, Grant
<1>3. ASSUME NEW j \in Calls, Fails(j) PROVE StageInv!(k)'
  BY ZenonT(60), <1>3 DEF Fails, RedisGetFails, RedisReturnFails
<1>4. ASSUME NEW j \in Calls, OnGranted(j) \/ OnError(j) \/ OnReturned(j) PROVE StageInv!(k)'
  BY ZenonT(60), <1>4 DEF OnGranted, OnError, OnReturned
<1>5. ASSUME NEW j \in Calls, OnRefusedRung(j) \/ OnRefused(j) PROVE StageInv!(k)'
  BY ZenonT(60), <1>5 DEF OnRefusedRung, OnRefused
<1>6. ASSUME NEW j \in Calls, BustlerDies(j) \/ WaitingDies(j) PROVE StageInv!(k)'
  <2>1. CASE BustlerDies(j)
    BY <2>1 DEF BustlerDies
  <2>2. CASE WaitingDies(j)
    <3>1. /\ lockWaitings[j] = 0 /\ lockWaitings' = [lockWaitings EXCEPT ![j] = NoWaiting]
          /\ caller' = [caller EXCEPT ![j] = "refused"] /\ UNCHANGED <<wire, want>>
      BY <2>2 DEF WaitingDies
    <3>2. caller[j] = "asking" /\ wire[j] = "none"
      BY SMTT(60), <3>1
    <3>3. CASE k = j
      <4>1. lockWaitings'[k] = -1 /\ caller'[k] = "refused" /\ wire'[k] = "none"
        BY <3>1, <3>2, <3>3 DEF NoWaiting
      <4>2. want'[k] # {}
        BY <3>1, <3>2, <3>3
      <4>3. ~Waits(k)'
        BY ONLY <4>1 DEF Waits
      <4> QED  BY ZenonT(60), <4>1, <4>2, <4>3
    <3>4. CASE k # j
      <4>1. lockWaitings'[k] = lockWaitings[k] /\ caller'[k] = caller[k]
        BY <3>1, <3>4
      <4> QED  BY <3>1, <4>1
    <3> QED  BY <3>3, <3>4
  <2> QED  BY <1>6, <2>1, <2>2
<1>7. ASSUME NEW j \in Calls, ReturnRotted(j) \/ ReturnLock(j) \/ RedisReturn(j) PROVE StageInv!(k)'
  BY ZenonT(60), <1>7 DEF ReturnRotted, ReturnLock, RedisReturn
<1>8. ASSUME NEW w \in Workers, Deliver(w) PROVE StageInv!(k)'
  BY SMTT(60), <1>8 DEF Deliver, NoWaiting
<1>9. ASSUME NEW w \in Workers, MissMessage(w) PROVE StageInv!(k)'
  BY <1>9 DEF MissMessage, processVars
<1>12. ASSUME NEW w \in Workers, Crash(w) PROVE StageInv!(k)'
  BY <1>12 DEF Crash, NoWaiting
<1>10. CASE Tick
  BY SMTT(60), <1>10 DEF Tick, Less
<1>11. CASE UNCHANGED vars
  BY <1>11 DEF vars
<1> QED
  BY <1>1, <1>2, <1>3, <1>4, <1>5, <1>6, <1>7, <1>8, <1>9, <1>10, <1>11,
     <1>12 DEF Next, CallStep, WorkerStep, Fails

(***************************************************************************)
(* What a grant, a return and a tick do to one lock key.                   *)
(***************************************************************************)
LEMMA GrantEffect ==
    ASSUME TypeOK, NEW k \in Calls, Grant(k), NEW r \in Resources
    PROVE  /\ r \in want[k] => /\ lk[r].key \in {NoCall, k}
                               /\ lk'[r].key = k /\ lk'[r].ttl = LockTime
           /\ r \notin want[k] => lk'[r] = lk[r]
BY DEF TypeOK, Grant, Taken

\* A return frees the locks of its own key and leaves the others alone.
LEMMA ReturnEffect ==
    ASSUME TypeOK, NEW k \in Calls, RedisReturn(k), NEW r \in Resources
    PROVE  /\ r \in want[k] /\ lk[r].key = k => lk'[r] = NoLock
           /\ r \notin want[k] \/ lk[r].key # k => lk'[r] = lk[r]
BY SMTT(60) DEF TypeOK, RedisReturn, Freed

\* Time frees a lock that is due and brings the others nearer to it.
LEMMA TickEffect ==
    ASSUME TypeOK, Tick, NEW r \in Resources
    PROVE  /\ lk[r].ttl = 0 => lk'[r] = NoLock /\ lk'[r].key = NoCall
           /\ lk[r].ttl # 0 => /\ lk'[r] = [lk[r] EXCEPT !.ttl = @ - 1]
                              /\ lk'[r].key = lk[r].key
                              /\ lk'[r].ttl = lk[r].ttl - 1
<1>1. lk[r] \in [key : Calls \cup {NoCall}, ttl : 0..LockTime]
  BY DEF TypeOK
<1>2. lk'[r] = IF lk[r].ttl = 0 THEN NoLock ELSE [lk[r] EXCEPT !.ttl = @ - 1]
  BY DEF Tick, Expired
<1> QED  BY <1>1, <1>2 DEF NoLock

(***************************************************************************)
(* Every other step is quiet: it leaves the lock keys alone, brings no     *)
(* call back before its grant and makes no call trust its lock, nor trust  *)
(* it for longer.                                                          *)
(***************************************************************************)
Quiet ==
    /\ lk' = lk
    /\ \A k \in Calls : /\ Ungranted(k)' => Ungranted(k)
                        /\ Trusts(k)' => Trusts(k) /\ age'[k] = age[k]
                        /\ want'[k] = want[k] \/ (caller[k] = "idle" /\ wire'[k] = "get")

\* Every step takes locks, returns locks, lets time pass or touches no lock.
LEMMA StepKinds ==
    TypeOK /\ StageInv /\ [Next]_vars =>
        \/ \E k \in Calls : RedisGet(k) /\ Grant(k)
        \/ \E k \in Calls : RedisReturn(k)
        \/ Tick
        \/ Quiet
<1> SUFFICES ASSUME TypeOK, StageInv, [Next]_vars,
                    \A j \in Calls : ~(RedisGet(j) /\ Grant(j)) /\ ~RedisReturn(j), ~Tick
             PROVE  Quiet
  OBVIOUS
<1> USE DEF StageInv, TypeOK, Waits, GetReplies, Ungranted, Trusts, Quiet, redisVars
<1>1. ASSUME NEW j \in Calls, NEW resources \in (SUBSET Resources) \ {{}}, GetLock(j, resources)
      PROVE  Quiet
  BY <1>1 DEF GetLock
<1>2. ASSUME NEW j \in Calls, RedisGet(j), Refuse(j) PROVE Quiet
  BY ZenonT(60), <1>2 DEF RedisGet, Refuse
<1>3. ASSUME NEW j \in Calls, RedisGetFails(j) PROVE Quiet
  BY ONLY <1>3 DEF RedisGetFails
<1>4. ASSUME NEW j \in Calls, RedisReturnFails(j) PROVE Quiet
  BY <1>4 DEF RedisReturnFails
<1>5. ASSUME NEW j \in Calls, OnGranted(j) PROVE Quiet
  BY ZenonT(60), <1>5 DEF OnGranted
<1>6. ASSUME NEW j \in Calls, OnError(j) PROVE Quiet
  BY <1>6 DEF OnError
<1>7. ASSUME NEW j \in Calls, OnReturned(j) PROVE Quiet
  BY ZenonT(60), <1>7 DEF OnReturned
<1>8. ASSUME NEW j \in Calls, OnRefusedRung(j) PROVE Quiet
  BY ONLY <1>8 DEF OnRefusedRung
<1>9. ASSUME NEW j \in Calls, OnRefused(j) PROVE Quiet
  BY ZenonT(60), <1>9 DEF OnRefused
<1>10. ASSUME NEW j \in Calls, BustlerDies(j) PROVE Quiet
  BY <1>10 DEF BustlerDies
<1>11. ASSUME NEW j \in Calls, WaitingDies(j) PROVE Quiet
  BY SMTT(60), <1>11 DEF WaitingDies, NoWaiting
<1>12. ASSUME NEW j \in Calls, ReturnRotted(j) \/ ReturnLock(j) PROVE Quiet
  BY ZenonT(60), <1>12 DEF ReturnRotted, ReturnLock
<1>13. ASSUME NEW w \in Workers, Deliver(w) PROVE Quiet
  BY <1>13 DEF Deliver, NoWaiting
<1>14. ASSUME NEW w \in Workers, MissMessage(w) PROVE Quiet
  BY <1>14 DEF MissMessage, processVars
<1>15. ASSUME NEW w \in Workers, Crash(w) PROVE Quiet
  BY ONLY SMTT(60), <1>15 DEF Crash, NoWaiting
<1>16. CASE UNCHANGED vars
  BY <1>16 DEF vars
<1> QED
  BY <1>1, <1>2, <1>3, <1>4, <1>5, <1>6, <1>7, <1>8, <1>9, <1>10, <1>11, <1>12, <1>13,
     <1>14, <1>15, <1>16 DEF Next, CallStep, WorkerStep, RedisGet

(***************************************************************************)
(* FreeInv: only a grant writes a key into Redis, and it changes the reply *)
(* of its call to '1'.                                                     *)
(***************************************************************************)
LEMMA FreeStep == TypeOK /\ StageInv /\ FreeInv /\ [Next]_vars => FreeInv'
<1> SUFFICES ASSUME TypeOK, StageInv, FreeInv, [Next]_vars, NEW k \in Calls, Ungranted(k)',
                    NEW r \in Resources
             PROVE  lk'[r].key # k
  BY DEF FreeInv
<1>1. ASSUME NEW j \in Calls, RedisGet(j), Grant(j) PROVE lk'[r].key # k
  <2>1. j # k
    BY <1>1 DEF StageInv, RedisGet, Grant, Ungranted, Waits, TypeOK
  <2>2. Ungranted(k)
    BY <1>1, <2>1 DEF RedisGet, Grant, Ungranted, Waits, TypeOK
  <2> QED  BY <1>1, <2>1, <2>2, GrantEffect DEF FreeInv
<1>2. ASSUME NEW j \in Calls, RedisReturn(j) PROVE lk'[r].key # k
  <2>1. Ungranted(k)
    BY <1>2 DEF RedisReturn, Ungranted, Waits, TypeOK
  <2> QED  BY <1>2, <2>1, ReturnEffect DEF FreeInv, NoLock
<1>3. CASE Tick
  <2>1. Ungranted(k)
    BY SMTT(60), <1>3 DEF Tick, Ungranted, Waits, Less, TypeOK
  <2>2. lk'[r] = NoLock \/ lk'[r].key = lk[r].key
    BY <1>3, TickEffect
  <2> QED  BY <2>1, <2>2 DEF FreeInv, NoLock
<1>4. CASE Quiet
  BY <1>4 DEF Quiet, FreeInv
<1> QED  BY <1>1, <1>2, <1>3, <1>4, StepKinds

(***************************************************************************)
(* KeyInv: a grant writes all of a lock with one time-to-live, a tick      *)
(* takes one off all of it, a return frees all of it.                      *)
(***************************************************************************)
LEMMA KeyStep == TypeOK /\ StageInv /\ FreeInv /\ KeyInv /\ [Next]_vars => KeyInv'
<1> SUFFICES ASSUME TypeOK, StageInv, FreeInv, KeyInv, [Next]_vars, NEW k \in Calls,
                    NEW r1 \in Resources, lk'[r1].key = k
             PROVE  r1 \in want'[k] /\ \A r2 \in want'[k] : lk'[r2] = lk'[r1]
  BY DEF KeyInv
<1>w. want[k] \subseteq Resources
  BY DEF TypeOK
<1>1. ASSUME NEW j \in Calls, RedisGet(j), Grant(j)
      PROVE  r1 \in want'[k] /\ \A r2 \in want'[k] : lk'[r2] = lk'[r1]
  <2>1. want' = want
    BY <1>1 DEF RedisGet
  <2>2. CASE j = k
    <3>1. r1 \in want[k]
      BY <1>1, <2>2, GrantEffect DEF RedisGet, FreeInv, Ungranted
    <3>2. \A r2 \in want[k] : lk'[r2] = [key |-> k, ttl |-> LockTime]
      BY <1>1, <1>w, <2>2 DEF Grant
    <3> QED  BY <2>1, <3>1, <3>2
  <2>3. CASE j # k
    <3>1. lk[r1].key = k /\ lk'[r1] = lk[r1]
      BY <1>1, <2>3, GrantEffect
    <3>2. \A r2 \in want[k] : lk[r2].key = k /\ lk'[r2] = lk[r2]
      BY <1>1, <1>w, <2>3, <3>1, GrantEffect DEF KeyInv
    <3> QED  BY <2>1, <3>1, <3>2 DEF KeyInv
  <2> QED  BY <2>2, <2>3
<1>2. ASSUME NEW j \in Calls, RedisReturn(j)
      PROVE  r1 \in want'[k] /\ \A r2 \in want'[k] : lk'[r2] = lk'[r1]
  <2>1. want' = want
    BY <1>2 DEF RedisReturn
  <2>2. lk[r1].key = k /\ lk'[r1] = lk[r1]
    BY <1>2, ReturnEffect DEF NoLock
  <2>3. j # k
    BY <1>2, <2>2, ReturnEffect DEF KeyInv, NoLock
  <2>4. \A r2 \in want[k] : lk[r2] = lk[r1] /\ lk'[r2] = lk[r2]
    BY <1>2, <1>w, <2>2, <2>3, ReturnEffect DEF KeyInv
  <2> QED  BY <2>1, <2>2, <2>4 DEF KeyInv
<1>3. CASE Tick
  <2>1. want' = want
    BY <1>3 DEF Tick
  <2>2. lk[r1].ttl # 0 /\ lk[r1].key = k
    BY <1>3, TickEffect DEF NoLock
  <2>3. \A r2 \in want[k] : lk[r2] = lk[r1]
    BY <2>2 DEF KeyInv
  <2>4. \A r2 \in want[k] : lk'[r2] = lk'[r1]
    <3>1. lk'[r1] = [lk[r1] EXCEPT !.ttl = @ - 1]
      BY <1>3, <2>2, TickEffect
    <3>2. ASSUME NEW r2 \in want[k] PROVE lk'[r2] = [lk[r2] EXCEPT !.ttl = @ - 1]
      BY <1>3, <1>w, <2>2, <2>3, TickEffect
    <3> QED  BY <2>3, <3>1, <3>2
  <2> QED  BY <2>1, <2>2, <2>4 DEF KeyInv
<1>4. CASE Quiet
  <2>1. lk[r1].key = k
    BY <1>4 DEF Quiet
  <2>2. want'[k] = want[k]
    BY <1>4, <2>1 DEF Quiet, FreeInv, Ungranted
  <2> QED  BY <1>4, <2>1, <2>2 DEF Quiet, KeyInv
<1> QED  BY <1>1, <1>2, <1>3, <1>4, StepKinds

(***************************************************************************)
(* OwnInv: a unit of time takes one off the time-to-live in Redis and adds *)
(* one to the age in the process; the reading of `now` precedes the grant. *)
(***************************************************************************)
LEMMA OwnStep == TypeOK /\ StageInv /\ OwnInv /\ FreeInv /\ [Next]_vars => OwnInv'
<1> SUFFICES ASSUME TypeOK, StageInv, OwnInv, FreeInv, [Next]_vars, NEW k \in Calls, Trusts(k)',
                    NEW r \in want'[k]
             PROVE  lk'[r].key = k /\ lk'[r].ttl + age'[k] >= LockTime
  BY DEF OwnInv
<1>1. ASSUME NEW j \in Calls, RedisGet(j), Grant(j)
      PROVE  lk'[r].key = k /\ lk'[r].ttl + age'[k] >= LockTime
  <2>1. want' = want /\ age' = age /\ caller' = caller /\ r \in Resources /\ age[k] \in Nat
    BY <1>1 DEF RedisGet, TypeOK
  <2>2. CASE j = k
    BY <1>1, <2>1, <2>2, GrantEffect
  <2>3. CASE j # k
    <3>1. Trusts(k)
      BY <1>1, <2>1, <2>3 DEF Grant, Trusts, TypeOK
    <3>2. lk[r].key = k /\ lk[r].ttl + age[k] >= LockTime
      BY <2>1, <3>1 DEF OwnInv
    <3> QED  BY <1>1, <2>1, <2>3, <3>2, GrantEffect
  <2> QED  BY <2>2, <2>3
<1>2. ASSUME NEW j \in Calls, RedisReturn(j)
      PROVE  lk'[r].key = k /\ lk'[r].ttl + age'[k] >= LockTime
  <2>1. want' = want /\ age' = age /\ caller' = caller /\ r \in Resources
    BY <1>2 DEF RedisReturn, TypeOK
  <2>2. j # k /\ Trusts(k)
    BY <1>2, <2>1 DEF RedisReturn, Trusts, StageInv, TypeOK
  <2>3. lk[r].key = k /\ lk[r].ttl + age[k] >= LockTime
    BY <2>1, <2>2 DEF OwnInv
  <2> QED  BY <1>2, <2>1, <2>2, <2>3, ReturnEffect
<1>3. CASE Tick
  <2>1. want' = want /\ r \in Resources /\ lk[r].ttl \in Nat
    BY <1>3 DEF Tick, TypeOK
  <2>2. Trusts(k) /\ age[k] \in Nat /\ age[k] < LockTime /\ age'[k] = age[k] + 1
    BY SMTT(60), <1>3 DEF Tick, Trusts, TypeOK
  <2>3. lk[r].key = k /\ lk[r].ttl + age[k] >= LockTime
    BY <2>1, <2>2 DEF OwnInv
  <2>4. lk[r].ttl # 0
    BY <2>1, <2>2, <2>3
  <2>5. lk'[r].key = lk[r].key /\ lk'[r].ttl = lk[r].ttl - 1
    BY <1>3, <2>1, <2>4, TickEffect
  <2> QED  BY <2>1, <2>2, <2>3, <2>5
<1>4. CASE Quiet
  <2>1. want'[k] = want[k]
    BY <1>4 DEF Quiet, Trusts, StageInv
  <2> QED  BY <1>4, <2>1 DEF Quiet, OwnInv
<1> QED  BY <1>1, <1>2, <1>3, <1>4, StepKinds

(***************************************************************************)
(* Init => IInv, IInv /\ [Next]_vars => IInv'.                             *)
(***************************************************************************)
LEMMA InvStep == IInv /\ [Next]_vars => IInv'
BY TypeStep, StageStep, FreeStep, KeyStep, OwnStep DEF IInv

\* In every reachable state of the locker the inductive invariant holds: the
\* reservations of Redis, the clocks of the processes and the commands under
\* way fit together as getLock and the scripts leave them.
THEOREM InvCorrect == Spec => []IInv
BY InvInit, InvStep, PTL DEF Spec

(***************************************************************************)
(* Callers that trust their locks never share a resource.  Both own it in  *)
(* Redis (OwnInv), where it has one key.                                   *)
(***************************************************************************)
THEOREM LockIsExclusive == Spec => []MutualExclusion
<1>1. IInv => MutualExclusion
  BY DEF IInv, OwnInv, MutualExclusion
<1> QED  BY <1>1, InvCorrect, PTL

\* A call that asks or is parked holds nothing others could wait for.
THEOREM NobodyHoldsAndWaits == Spec => []NoHoldAndWait
<1>1. IInv => NoHoldAndWait
  BY DEF IInv, FreeInv, Ungranted, NoHoldAndWait
<1> QED  BY <1>1, InvCorrect, PTL

(***************************************************************************)
(* A key leaves Redis when its own call returns it or when its time is     *)
(* over.  A grant replaces no key: what it finds is free, because its call *)
(* has nothing yet (FreeInv).                                              *)
(***************************************************************************)
FreesRightly == \A r \in Resources : lk[r].key # NoCall /\ lk'[r].key # lk[r].key =>
    \/ lk[r].ttl = 0 /\ lk'[r] = NoLock
    \/ wire[lk[r].key] = "return" /\ wire'[lk[r].key] = "done"

\* A key leaves Redis when its own call returns it or its time is over, and
\* not otherwise: a late return never frees the lock of another call.
THEOREM OnlyOwnersFree == Spec => OnlyOwnerFrees
<1>1. IInv /\ [Next]_vars => FreesRightly
  <2> SUFFICES ASSUME IInv, [Next]_vars, NEW r \in Resources,
                      lk[r].key # NoCall, lk'[r].key # lk[r].key
               PROVE  \/ lk[r].ttl = 0 /\ lk'[r] = NoLock
                      \/ wire[lk[r].key] = "return" /\ wire'[lk[r].key] = "done"
    BY DEF FreesRightly
  <2> USE DEF IInv
  <2>1. ASSUME NEW j \in Calls, RedisGet(j), Grant(j) PROVE FALSE
    BY <2>1, GrantEffect DEF FreeInv, Ungranted, RedisGet
  <2>2. ASSUME NEW j \in Calls, RedisReturn(j)
        PROVE  wire[lk[r].key] = "return" /\ wire'[lk[r].key] = "done"
    <3>1. lk[r].key = j
      BY <2>2, ReturnEffect
    <3> QED  BY <2>2, <3>1 DEF RedisReturn, TypeOK
  <2>3. CASE Tick
    BY <2>3, TickEffect
  <2>4. CASE Quiet
    BY <2>4 DEF Quiet
  <2> QED  BY <2>1, <2>2, <2>3, <2>4, StepKinds
<1>2. FreesRightly => [\A r \in Resources : lk[r].key # NoCall /\ lk'[r].key # lk[r].key =>
          \/ lk[r].ttl = 0 /\ lk'[r] = NoLock
          \/ wire[lk[r].key] = "return" /\ wire'[lk[r].key] = "done"]_vars
  BY DEF FreesRightly
<1> QED  BY <1>1, <1>2, InvCorrect, PTL DEF Spec, OnlyOwnerFrees

(***************************************************************************)
(* getLock calls back once: after an answer no reply, timer or wake-up of  *)
(* the call is left that could answer again (StageInv).                    *)
(***************************************************************************)
AnswersOnce == \A k \in Calls : caller[k] \in Answered =>
    caller'[k] \notin {"idle", "asking", "holds", "refused"} \/ caller'[k] = caller[k]

\* A caller that was told the outcome is never told another one.
THEOREM OneCallback == Spec => CalledBackOnce
<1>1. IInv /\ [Next]_vars => AnswersOnce
  <2> SUFFICES ASSUME IInv, [Next]_vars, NEW k \in Calls, caller[k] \in Answered
               PROVE  caller'[k] \notin {"idle", "asking", "holds", "refused"}
                        \/ caller'[k] = caller[k]
    BY DEF AnswersOnce
  <2> USE DEF IInv, StageInv, TypeOK, Answered, GetReplies, Waits
  <2>1. ASSUME NEW j \in Calls, NEW resources \in (SUBSET Resources) \ {{}}, GetLock(j, resources)
        PROVE  caller'[k] = caller[k]
    BY SMTT(60), <2>1 DEF GetLock
  <2>2. ASSUME NEW j \in Calls, OnGranted(j) \/ OnError(j) PROVE caller'[k] = caller[k]
    BY ZenonT(60), <2>2 DEF OnGranted, OnError
  <2>3. ASSUME NEW j \in Calls, WaitingDies(j) PROVE caller'[k] = caller[k]
    <3>1. lockWaitings[j] = 0 /\ caller' = [caller EXCEPT ![j] = "refused"]
      BY ONLY <2>3 DEF WaitingDies
    <3>2. caller[j] = "asking"
      BY <3>1
    <3>3. j # k
      BY ONLY <3>2, caller[k] \in Answered DEF Answered
    <3> QED  BY ONLY <3>1, <3>3
  <2>4. ASSUME NEW j \in Calls, ReturnRotted(j) \/ ReturnLock(j) \/ OnReturned(j)
        PROVE  caller'[k] \notin {"idle", "asking", "holds", "refused"} \/ caller'[k] = caller[k]
    BY ZenonT(60), <2>4 DEF ReturnRotted, ReturnLock, OnReturned
  <2>5. ASSUME NEW w \in Workers, Crash(w)
        PROVE  caller'[k] = "dead" \/ caller'[k] = caller[k]
    BY <2>5 DEF Crash
  <2>6. ASSUME NEW j \in Calls,
               \/ RedisGet(j) \/ RedisGetFails(j) \/ OnRefusedRung(j) \/ OnRefused(j)
               \/ BustlerDies(j) \/ RedisReturn(j) \/ RedisReturnFails(j)
        PROVE  caller' = caller
    BY <2>6 DEF RedisGet, RedisGetFails, OnRefusedRung, OnRefused, BustlerDies, RedisReturn,
                RedisReturnFails
  <2>7. ASSUME (\E w \in Workers : Deliver(w) \/ MissMessage(w)) \/ Tick \/ UNCHANGED vars
        PROVE  caller' = caller
    BY <2>7 DEF Deliver, MissMessage, processVars, Tick, vars
  <2> QED
    BY <2>1, <2>2, <2>3, <2>4, <2>5, <2>6, <2>7 DEF Next, CallStep, WorkerStep
<1>2. AnswersOnce => [\A k \in Calls : caller[k] \in Answered =>
          caller'[k] \notin {"idle", "asking", "holds", "refused"} \/ caller'[k] = caller[k]]_vars
  BY DEF AnswersOnce
<1> QED  BY <1>1, <1>2, InvCorrect, PTL DEF Spec, CalledBackOnce

(***************************************************************************)
(* The locker implements LeaseService: a grant is Take, every other step   *)
(* is Lapse.                                                               *)
(***************************************************************************)
Trusted == {k \in Calls : Trusts(k)}

\* At the start no lock is held, as in the abstract lease.
LEMMA LeaseInit == Init => Lease!Init
BY DEF Init, Lease!Init, Held, Trusts, NoLock

\* A granted request takes its locks as the abstract lease does.
LEMMA GrantIsTake ==
    ASSUME IInv, IInv', NEW k \in Calls, RedisGet(k), Grant(k)
    PROVE  Lease!Take(k, want[k])
<1> USE DEF IInv
<1>1. want' = want /\ age' = age /\ caller' = caller /\ wire' = [wire EXCEPT ![k] = "1"]
  BY DEF RedisGet, Grant
<1>2. \A other \in Calls \ {k} : Held[other] \cap want[k] = {}
  BY GrantEffect DEF Held
<1>3. Held' = [Held EXCEPT ![k] = want[k]]
  <2>1. ASSUME NEW h \in Calls, h # k PROVE Held'[h] = Held[h]
    BY <2>1, GrantEffect DEF Held
  <2>2. Held'[k] = want[k]
    <3>1. \A r \in Resources : lk[r].key # k
      BY DEF FreeInv, Ungranted, RedisGet
    <3>2. \A r \in Resources : lk'[r].key = k <=> r \in want[k]
      BY <3>1, GrantEffect
    <3> QED  BY SMTT(60), <3>2 DEF Held, TypeOK
  <2> QED  BY <2>1, <2>2 DEF Held
<1>4. Trusted' \in {Trusted, Trusted \cup {k}}
  <2>1. \A h \in Calls \ {k} : Trusts(h)' <=> Trusts(h)
    BY <1>1 DEF Trusts, TypeOK
  <2>2. CASE Trusts(k)'
    <3>1. Trusted' = Trusted \cup {k}
      BY <2>1, <2>2 DEF Trusted
    <3> QED  BY <3>1
  <2>3. CASE ~Trusts(k)'
    <3>1. ~Trusts(k)
      BY DEF Trusts, RedisGet, StageInv
    <3>2. Trusted' = Trusted
      BY <2>1, <2>3, <3>1 DEF Trusted
    <3> QED  BY <3>2
  <2> QED  BY <2>2, <2>3
<1> QED  BY <1>2, <1>3, <1>4 DEF Lease!Take, Trusted

\* A return gives up what the call holds, after its trust has ended.
LEMMA ReturnIsLapse ==
    ASSUME IInv, IInv', NEW k \in Calls, RedisReturn(k)
    PROVE  Lease!Lapse({}, {k})
<1> USE DEF IInv
<1>1. age' = age /\ caller' = caller /\ wire[k] = "return" /\ wire' = [wire EXCEPT ![k] = "done"]
  BY DEF RedisReturn
<1>2. Trusted' = Trusted /\ k \notin Trusted
  BY ZenonT(60), <1>1 DEF Trusts, Trusted, StageInv, TypeOK
<1>3. Held' = [h \in Calls |-> IF h \in {k} THEN {} ELSE Held[h]]
  <2>1. ASSUME NEW h \in Calls, h # k PROVE Held'[h] = Held[h]
    BY <2>1, ReturnEffect DEF Held, NoLock
  <2>2. \A r \in Resources : lk'[r].key # k
    BY ReturnEffect DEF KeyInv, NoLock
  <2>3. Held'[k] = {}
    BY <2>2 DEF Held
  <2> QED  BY <2>1, <2>3 DEF Held
<1> QED  BY <1>2, <1>3 DEF Lease!Lapse, Trusted

\* A lock goes at once (KeyInv), and not while its caller trusts it (OwnInv').
LEMMA TickIsLapse ==
    ASSUME IInv, IInv', Tick
    PROVE  Lease!Lapse(Trusted \ Trusted', {k \in Calls : \E r \in Held[k] : lk[r].ttl = 0})
<1> DEFINE Losers == {k \in Calls : \E r \in Held[k] : lk[r].ttl = 0}
<1> USE DEF IInv
<1>1. Trusted' \subseteq Trusted
  BY DEF Tick, Trusts, Trusted, TypeOK
<1>2. ASSUME NEW k \in Calls, k \in Losers PROVE Held'[k] = {} /\ k \notin Trusted'
  <2>1. PICK r \in Resources : lk[r].key = k /\ lk[r].ttl = 0
    BY <1>2 DEF Held
  <2>2. \A r2 \in Resources : lk[r2].key = k => lk[r2].ttl = 0
    BY <2>1 DEF KeyInv
  <2>3. \A r2 \in Resources : lk'[r2].key # k
    BY <2>2, TickEffect
  <2>4. Held'[k] = {}
    BY <2>3 DEF Held
  <2>5. r \in want[k] /\ want' = want
    BY <2>1 DEF KeyInv, Tick
  <2>6. ~Trusts(k)'
    BY <2>3, <2>5 DEF OwnInv
  <2> QED  BY <2>4, <2>6 DEF Trusted
<1>3. ASSUME NEW k \in Calls, k \notin Losers PROVE Held'[k] = Held[k]
  <2>1. \A r \in Resources : lk[r].key = k => lk[r].ttl # 0
    BY <1>3 DEF Held
  <2>2. \A r \in Resources : lk'[r].key = k <=> lk[r].key = k
    BY <2>1, TickEffect
  <2> QED  BY <2>2 DEF Held
<1>4. Held' = [k \in Calls |-> IF k \in Losers THEN {} ELSE Held[k]]
  BY <1>2, <1>3 DEF Held
<1>5. Losers \cap Trusted' = {} /\ Trusted \ (Trusted \ Trusted') = Trusted'
  BY <1>1, <1>2
<1> HIDE DEF Losers
<1>6. Lease!Lapse(Trusted \ Trusted', Losers)
  BY <1>4, <1>5 DEF Lease!Lapse, Trusted
<1> QED  BY <1>6 DEF Losers

\* A step that touches no lock can only end the trust in some.
LEMMA QuietIsLapse ==
    ASSUME Quiet
    PROVE  Lease!Lapse(Trusted \ Trusted', {})
<1>1. Held' = Held
  BY DEF Quiet, Held
<1>2. Trusted' \subseteq Trusted
  BY DEF Quiet, Trusted
<1>3. Trusted \ (Trusted \ Trusted') = Trusted'
  BY <1>2
<1> QED  BY <1>1, <1>3 DEF Lease!Lapse, Trusted, Held

\* Every step is a step of the abstract lease or none.
LEMMA LeaseStep == IInv /\ IInv' /\ [Next]_vars => [Lease!Next]_<<Held, Trusted>>
<1> SUFFICES ASSUME IInv, IInv', [Next]_vars PROVE Lease!Next
  OBVIOUS
<1>1. ASSUME NEW k \in Calls, RedisGet(k), Grant(k) PROVE Lease!Next
  <2>1. want[k] \in (SUBSET Resources) \ {{}}
    BY <1>1 DEF IInv, TypeOK, StageInv, RedisGet
  <2> QED  BY <1>1, <2>1, GrantIsTake DEF Lease!Next
<1>2. ASSUME NEW k \in Calls, RedisReturn(k) PROVE Lease!Next
  BY <1>2, ReturnIsLapse DEF Lease!Next
<1>3. CASE Tick
  <2>1. Trusted \ Trusted' \in SUBSET Calls
    BY DEF Trusted
  <2>2. {k \in Calls : \E r \in Held[k] : lk[r].ttl = 0} \in SUBSET Calls
    OBVIOUS
  <2> QED  BY <1>3, <2>1, <2>2, TickIsLapse DEF Lease!Next
<1>4. CASE Quiet
  <2>1. Trusted \ Trusted' \in SUBSET Calls
    BY DEF Trusted
  <2> QED  BY <1>4, <2>1, QuietIsLapse DEF Lease!Next
<1> QED  BY <1>1, <1>2, <1>3, <1>4, StepKinds DEF IInv

(***************************************************************************)
(* The locker implements the lease service: every step of a worker, of     *)
(* Redis or of the clock is a Take, a Lapse or leaves the leases alone, so *)
(* that AtomicActs may rely on LeaseService instead of on the scripts.     *)
(***************************************************************************)
THEOREM LeaseKept == Spec => LeaseSpec
<1>1. IInv /\ IInv' /\ [Next]_vars => [Lease!Next]_(Lease!leaseVars)
  BY LeaseStep DEF Lease!leaseVars, Trusted
<1> QED  BY <1>1, LeaseInit, InvCorrect, PTL DEF Spec, LeaseSpec, Lease!Spec

(***************************************************************************)
(* No wake-up is lost while replies and timers are in time and no worker   *)
(* misses a message.  That a parked call is queued is not inductive: the   *)
(* list may expire, and the message may come before the reply that parks   *)
(* the call.  So the invariant begins with the refusal in Redis (a reply   *)
(* '0' that nobody has rung), and it says how long the list must live: as  *)
(* long as the call may still wait.  The list starts with LockTime, which  *)
(* must cover a reply that takes nearly WaitTime and a wait of WaitTime:   *)
(* 7.5 s for twice 2 s in opResourceLocker.js:12.  Errors and deaths of    *)
(* processes, and callers that never return their locks, are allowed.      *)
(***************************************************************************)
Parked(k) == Waits(k) \/ (wire[k] = "0" /\ caller[k] # "dead" /\ ~bustlerBuffer[k].v)
Left(k) == IF Waits(k) THEN lockWaitings[k] ELSE bustlerBuffer[k].dt - 1 + WaitTime

Queued(k) == \E h \in Calls : lkq[h][k] > 0 /\ (lkqTtl[h] = NoTtl \/ lkqTtl[h] >= Left(k))
Coming(k) == \E i \in 1 .. Len(inbox[WorkerOf[k]]) : inbox[WorkerOf[k]][i][k] > 0

TimelyInv == \A k \in Calls :
    wire[k] \in {"get", "0"} /\ caller[k] # "dead" => bustlerBuffer[k].dt >= 1
WakeInv == \A k \in Calls : Parked(k) => Queued(k) \/ Coming(k)

\* A request or a refusal of a living process has its bustler, because no time
\* passes over a reply that is due.
LEMMA TimelyStep ==
    ASSUME Prompt, WaitTime > 0, TypeOK, StageInv, TimelyInv, [Next]_vars
    PROVE  TimelyInv'
<1> SUFFICES ASSUME NEW k \in Calls, (wire[k] \in {"get", "0"} /\ caller[k] # "dead")'
             PROVE  bustlerBuffer'[k].dt >= 1
  BY DEF TimelyInv
<1> USE DEF TimelyInv, StageInv, TypeOK, FreshBustler
<1>1. ASSUME NEW j \in Calls, NEW resources \in (SUBSET Resources) \ {{}}, GetLock(j, resources)
      PROVE  bustlerBuffer'[k].dt >= 1
  BY <1>1 DEF GetLock
<1>2. ASSUME NEW j \in Calls, RedisGet(j) PROVE bustlerBuffer'[k].dt >= 1
  BY ZenonT(60), <1>2 DEF RedisGet, Refuse, Grant
<1>3. ASSUME NEW j \in Calls, Fails(j) PROVE bustlerBuffer'[k].dt >= 1
  BY ZenonT(60), <1>3 DEF Fails, RedisGetFails, RedisReturnFails
<1>4. ASSUME NEW j \in Calls, OnGranted(j) \/ OnError(j) \/ OnReturned(j)
      PROVE  bustlerBuffer'[k].dt >= 1
  BY ZenonT(60), <1>4 DEF OnGranted, OnError, OnReturned
<1>5. ASSUME NEW j \in Calls, OnRefusedRung(j) \/ OnRefused(j) PROVE bustlerBuffer'[k].dt >= 1
  <2>1. CASE k = j
    BY <1>5, <2>1 DEF OnRefusedRung, OnRefused
  <2>2. CASE k # j
    <3>1. bustlerBuffer'[k] = bustlerBuffer[k] /\ wire'[k] = wire[k] /\ caller' = caller
      BY ZenonT(60), <1>5, <2>2 DEF OnRefusedRung, OnRefused
    <3> QED  BY <3>1
  <2> QED  BY <2>1, <2>2
<1>6. ASSUME NEW j \in Calls, BustlerDies(j) \/ WaitingDies(j) PROVE bustlerBuffer'[k].dt >= 1
  <2>1. wire' = wire /\ (caller'[k] = caller[k] \/ (k = j /\ Waits(k)))
    BY SMTT(60), <1>6 DEF BustlerDies, WaitingDies, Waits
  <2>2. wire[k] \in {"get", "0"} => ~Waits(k)
    OBVIOUS
  <2>3. bustlerBuffer[k].dt >= 1
    BY <2>1, <2>2
  <2>4. bustlerBuffer'[k] = bustlerBuffer[k]
    BY SMTT(60), <1>6, <2>3 DEF BustlerDies, WaitingDies
  <2> QED  BY <2>3, <2>4
<1>7. ASSUME NEW j \in Calls, ReturnRotted(j) \/ ReturnLock(j) \/ RedisReturn(j)
      PROVE  bustlerBuffer'[k].dt >= 1
  BY ZenonT(60), <1>7 DEF ReturnRotted, ReturnLock, RedisReturn
<1>8. ASSUME NEW w \in Workers, Deliver(w) PROVE bustlerBuffer'[k].dt >= 1
  BY SMTT(60), <1>8 DEF Deliver
<1>9. ASSUME NEW w \in Workers, MissMessage(w) PROVE bustlerBuffer'[k].dt >= 1
  BY <1>9 DEF MissMessage, processVars
<1>10. ASSUME NEW w \in Workers, Crash(w) PROVE bustlerBuffer'[k].dt >= 1
  BY <1>10 DEF Crash
<1>11. CASE Tick
  BY <1>11 DEF Tick, Overdue, Less
<1>12. CASE UNCHANGED vars
  BY <1>12 DEF vars
<1> QED
  BY <1>1, <1>2, <1>3, <1>4, <1>5, <1>6, <1>7, <1>8, <1>9, <1>10, <1>11,
     <1>12 DEF Next, CallStep, WorkerStep, Fails

\* How long a parked call may still wait.
LEMMA LeftType ==
    ASSUME TypeOK, NEW k \in Calls
    PROVE  /\ bustlerBuffer[k].dt \in -1 .. WaitTime /\ bustlerBuffer[k].v \in BOOLEAN
           /\ lockWaitings[k] \in -1 .. WaitTime
           /\ Left(k) \in Int /\ (WaitTime > 0 => Left(k) <= 2 * WaitTime - 1)
<1>1. bustlerBuffer[k] \in [v : BOOLEAN, dt : -1 .. WaitTime] /\ lockWaitings[k] \in -1 .. WaitTime
  BY DEF TypeOK
<1>2. bustlerBuffer[k].dt \in -1 .. WaitTime /\ bustlerBuffer[k].v \in BOOLEAN
  BY <1>1
<1>3. CASE Waits(k)
  <2>1. Left(k) = lockWaitings[k]
    BY <1>3 DEF Left
  <2> QED  BY <1>1, <1>2, <2>1
<1>4. CASE ~Waits(k)
  <2>1. Left(k) = bustlerBuffer[k].dt - 1 + WaitTime
    BY <1>4 DEF Left
  <2> QED  BY <1>1, <1>2, <2>1
<1> QED  BY <1>3, <1>4

\* A call that stays parked, with nothing taken off the lists and the channel,
\* and no longer to wait than before, is still known.
LEMMA StaysKnown ==
    ASSUME TypeOK, TypeOK', WakeInv, NEW k \in Calls, Parked(k), Left(k)' <= Left(k),
           UNCHANGED <<lkq, lkqTtl, inbox>>
    PROVE  Queued(k)' \/ Coming(k)'
<1>1. Queued(k) \/ Coming(k)
  BY DEF WakeInv
<1>2. CASE Coming(k)
  BY <1>2 DEF Coming
<1>3. CASE Queued(k)
  <2>1. PICK h \in Calls : lkq[h][k] > 0 /\ (lkqTtl[h] = NoTtl \/ lkqTtl[h] >= Left(k))
    BY <1>3 DEF Queued
  <2>2. Left(k) \in Int /\ Left(k)' \in Int
    <3>1. Left(k) \in Int
      BY LeftType
    <3>2. bustlerBuffer'[k] \in [v : BOOLEAN, dt : -1 .. WaitTime]
          /\ lockWaitings'[k] \in -1 .. WaitTime
      BY DEF TypeOK
    <3>3. bustlerBuffer'[k].dt \in -1 .. WaitTime
      BY <3>2
    <3>4. CASE Waits(k)'
      BY <3>1, <3>2, <3>4 DEF Left
    <3>5. CASE ~Waits(k)'
      BY <3>1, <3>3, <3>5 DEF Left
    <3> QED  BY <3>1, <3>4, <3>5
  <2>3. lkqTtl[h] \in Int
    BY DEF TypeOK, NoTtl
  <2>4. lkqTtl'[h] = NoTtl \/ lkqTtl'[h] >= Left(k)'
    BY <2>1, <2>2, <2>3
  <2> QED  BY <2>1, <2>4 DEF Queued
<1> QED  BY <1>1, <1>2, <1>3

\* The same of a call none of whose timers has moved.
LEMMA StaysParked ==
    ASSUME TypeOK, TypeOK', WakeInv, NEW k \in Calls, Parked(k),
           bustlerBuffer'[k] = bustlerBuffer[k], lockWaitings'[k] = lockWaitings[k],
           UNCHANGED <<lkq, lkqTtl, inbox>>
    PROVE  Queued(k)' \/ Coming(k)'
<1>1. Left(k) \in Int
  BY LeftType
<1>2. Left(k)' = Left(k)
  BY DEF Left, Waits
<1> QED  BY <1>1, <1>2, StaysKnown

\* Whatever happens to a parked call, it stays known to who will wake it.
LEMMA WakeStep ==
    ASSUME Prompt, ~MayLose, WaitTime > 0, 2 * WaitTime - 1 <= LockTime,
           TypeOK, TypeOK', StageInv, TimelyInv, WakeInv, [Next]_vars
    PROVE  WakeInv'
<1> SUFFICES ASSUME NEW k \in Calls, Parked(k)' PROVE Queued(k)' \/ Coming(k)'
  BY DEF WakeInv
<1> USE DEF Waits
<1>1. ASSUME NEW j \in Calls, NEW resources \in (SUBSET Resources) \ {{}}, GetLock(j, resources)
      PROVE  Queued(k)' \/ Coming(k)'
  <2>1. /\ Parked(k) /\ bustlerBuffer'[k] = bustlerBuffer[k]
        /\ lockWaitings'[k] = lockWaitings[k]
    BY ZenonT(60), <1>1 DEF GetLock, Parked, TypeOK, StageInv, FreshBustler
  <2> QED  BY <1>1, <2>1, StaysParked DEF GetLock, redisVars
<1>2. ASSUME NEW j \in Calls, RedisGet(j), Grant(j) PROVE Queued(k)' \/ Coming(k)'
  <2>1. /\ Parked(k) /\ bustlerBuffer'[k] = bustlerBuffer[k]
        /\ lockWaitings'[k] = lockWaitings[k]
    BY <1>2 DEF RedisGet, Grant, Parked, TypeOK
  <2> QED  BY <1>2, <2>1, StaysParked DEF RedisGet, Grant
<1>3. ASSUME NEW j \in Calls, RedisGet(j), Refuse(j) PROVE Queued(k)' \/ Coming(k)'
  <2> DEFINE pushed(h) == Cardinality({r \in Taken(j) : lk[r].key = h})
  <2>1. PICK first \in Taken(j) :
           /\ lkq' = [h \in Calls |-> [lkq[h] EXCEPT ![j] = @ + pushed(h)]]
           /\ lkqTtl' = [lkqTtl EXCEPT ![lk[first].key] = LockTime]
           /\ wire' = [wire EXCEPT ![j] = "0"]
    BY <1>3 DEF Refuse
  <2>2. /\ UNCHANGED <<inbox, bustlerBuffer, lockWaitings, caller>>
        /\ wire[j] = "get"
    BY <1>3 DEF RedisGet
  <2>3. lk[first].key \in Calls /\ first \in Resources
    BY <2>1 DEF Taken, TypeOK
  <2>4. \A h \in Calls : pushed(h) \in Nat
    BY PushCount
  <2>5. pushed(lk[first].key) > 0
    <3>1. {r \in Taken(j) : lk[r].key = lk[first].key} \subseteq Resources
      BY DEF Taken, TypeOK
    <3>2. IsFiniteSet({r \in Taken(j) : lk[r].key = lk[first].key})
      BY <3>1, FS_Subset
    <3>3. {r \in Taken(j) : lk[r].key = lk[first].key} # {}
      BY <2>1
    <3>4. pushed(lk[first].key) # 0
      BY <3>2, <3>3, FS_EmptySet
    <3> QED  BY <2>3, <2>4, <3>4
  <2> HIDE DEF pushed
  <2>6. /\ \A h \in Calls : lkq'[h][j] = lkq[h][j] + pushed(h)
        /\ \A h, i \in Calls : i # j => lkq'[h][i] = lkq[h][i]
    BY <2>1 DEF TypeOK
  <2>7. /\ lkqTtl'[lk[first].key] = LockTime
        /\ \A h \in Calls : h # lk[first].key => lkqTtl'[h] = lkqTtl[h]
    BY <2>1, <2>3 DEF TypeOK
  <2>8. \A h, i \in Calls : lkq[h][i] \in Nat
    BY DEF TypeOK
  <2>9. CASE k = j
    <3>1. ~Waits(k)' /\ bustlerBuffer[k].dt \in -1 .. WaitTime
      BY <2>1, <2>2, <2>9 DEF StageInv, TypeOK
    <3>2. Left(k)' <= LockTime
      BY <3>1, <2>2 DEF Left
    <3>3. lkq'[lk[first].key][k] > 0
      BY <2>3, <2>4, <2>5, <2>6, <2>8, <2>9
    <3> QED  BY <2>3, <2>7, <3>2, <3>3 DEF Queued
  <2>10. CASE k # j
    <3>1. Parked(k) /\ Left(k)' = Left(k)
      BY <2>1, <2>2, <2>10 DEF Parked, Left, TypeOK
    <3>2. CASE Coming(k)
      BY <2>2, <3>2 DEF Coming
    <3>3. CASE Queued(k)
      <4>1. PICK h \in Calls : lkq[h][k] > 0 /\ (lkqTtl[h] = NoTtl \/ lkqTtl[h] >= Left(k))
        BY <3>3 DEF Queued
      <4>2. lkq'[h][k] > 0
        BY <2>6, <2>10, <4>1
      <4>3. Left(k) \in Int /\ Left(k) <= LockTime
        BY LeftType
      <4>4. lkqTtl'[h] = NoTtl \/ lkqTtl'[h] >= Left(k)
        BY <2>3, <2>7, <4>1, <4>3
      <4> QED  BY <3>1, <4>2, <4>4 DEF Queued
    <3> QED  BY <3>1, <3>2, <3>3 DEF WakeInv
  <2> QED  BY <2>9, <2>10
<1>4. ASSUME NEW j \in Calls, Fails(j) PROVE Queued(k)' \/ Coming(k)'
  <2>1. /\ Parked(k) /\ bustlerBuffer'[k] = bustlerBuffer[k]
        /\ lockWaitings'[k] = lockWaitings[k]
    BY ZenonT(60), <1>4 DEF Fails, RedisGetFails, RedisReturnFails, Parked, TypeOK
  <2> QED  BY <1>4, <2>1, StaysParked DEF Fails, RedisGetFails, RedisReturnFails, redisVars
<1>5. ASSUME NEW j \in Calls, OnGranted(j) \/ OnError(j) \/ OnReturned(j)
      PROVE  Queued(k)' \/ Coming(k)'
  <2>1. /\ Parked(k) /\ bustlerBuffer'[k] = bustlerBuffer[k]
        /\ lockWaitings'[k] = lockWaitings[k]
    BY ZenonT(60), <1>5 DEF OnGranted, OnError, OnReturned, Parked, TypeOK
  <2> QED  BY <1>5, <2>1, StaysParked DEF OnGranted, OnError, OnReturned, redisVars
<1>6. ASSUME NEW j \in Calls, OnRefusedRung(j) PROVE Queued(k)' \/ Coming(k)'
  <2>1. /\ Parked(k) /\ bustlerBuffer'[k] = bustlerBuffer[k]
        /\ lockWaitings'[k] = lockWaitings[k]
    BY ZenonT(60), <1>6 DEF OnRefusedRung, Parked, TypeOK, StageInv
  <2> QED  BY <1>6, <2>1, StaysParked DEF OnRefusedRung, redisVars
<1>7. ASSUME NEW j \in Calls, OnRefused(j) PROVE Queued(k)' \/ Coming(k)'
  <2>1. Parked(k) /\ Left(k)' <= Left(k)
    <3>1. CASE k = j
      <4>1. bustlerBuffer[k].dt \in 1 .. WaitTime /\ ~Waits(k) /\ HasBustler(k)
        BY SMTT(60), <1>7, <3>1 DEF OnRefused, TimelyInv, StageInv, TypeOK, HasBustler
      <4>2. lockWaitings'[k] = WaitTime /\ Waits(k)'
        BY <1>7, <3>1 DEF OnRefused, TypeOK
      <4>3. Parked(k)
        BY <1>7, <3>1, <4>1 DEF OnRefused, Parked
      <4> QED  BY <4>1, <4>2, <4>3 DEF Left
    <3>2. CASE k # j
      <4>1. /\ Parked(k) /\ bustlerBuffer'[k] = bustlerBuffer[k]
            /\ lockWaitings'[k] = lockWaitings[k]
        BY <1>7, <3>2 DEF OnRefused, Parked, TypeOK
      <4>2. Left(k) \in Int /\ Left(k)' = Left(k)
        BY <4>1, LeftType DEF Left
      <4> QED  BY <4>1, <4>2
    <3> QED  BY <3>1, <3>2
  <2> QED  BY <1>7, <2>1, StaysKnown DEF OnRefused, redisVars
<1>8. ASSUME NEW j \in Calls, BustlerDies(j) PROVE Queued(k)' \/ Coming(k)'
  <2>1. Parked(k) /\ lockWaitings'[k] = lockWaitings[k]
    BY <1>8 DEF BustlerDies, Parked, TimelyInv, NoBustler
  <2>2. CASE Waits(k)
    <3>1. Left(k) \in Int /\ Left(k)' = Left(k)
      BY <2>1, <2>2, LeftType DEF Left
    <3> QED  BY <1>8, <2>1, <3>1, StaysKnown DEF BustlerDies, redisVars
  <2>3. CASE ~Waits(k)
    <3>1. bustlerBuffer[k].dt >= 1
      BY <2>1, <2>3 DEF Parked, TimelyInv
    <3>2. bustlerBuffer'[k] = bustlerBuffer[k]
      BY <1>8, <3>1 DEF BustlerDies
    <3> QED  BY <1>8, <2>1, <3>2, StaysParked DEF BustlerDies, redisVars
  <2> QED  BY <2>2, <2>3
<1>9. ASSUME NEW j \in Calls, WaitingDies(j) PROVE Queued(k)' \/ Coming(k)'
  <2>1. /\ Parked(k) /\ bustlerBuffer'[k] = bustlerBuffer[k]
        /\ lockWaitings'[k] = lockWaitings[k]
    <3>1. /\ lockWaitings[j] = 0 /\ lockWaitings' = [lockWaitings EXCEPT ![j] = NoWaiting]
          /\ caller' = [caller EXCEPT ![j] = "refused"]
          /\ bustlerBuffer' = bustlerBuffer /\ wire' = wire
      BY <1>9 DEF WaitingDies
    <3>2. Waits(j) /\ wire[j] = "none"
      BY <3>1 DEF StageInv, Waits
    <3>3. lockWaitings'[j] = -1
      BY <3>1 DEF NoWaiting, TypeOK
    <3>4. k # j
      BY <3>1, <3>2, <3>3 DEF Parked, Waits
    <3>5. lockWaitings'[k] = lockWaitings[k] /\ caller'[k] = caller[k]
      BY <3>1, <3>4 DEF TypeOK
    <3> QED  BY <3>1, <3>5 DEF Parked, Waits
  <2>2. UNCHANGED <<lkq, lkqTtl, inbox>>
    BY <1>9 DEF WaitingDies, redisVars
  <2> QED  BY <2>1, <2>2, StaysParked
<1>10. ASSUME NEW j \in Calls, ReturnRotted(j) \/ ReturnLock(j) PROVE Queued(k)' \/ Coming(k)'
  <2>1. /\ Parked(k) /\ bustlerBuffer'[k] = bustlerBuffer[k]
        /\ lockWaitings'[k] = lockWaitings[k]
    BY ZenonT(60), <1>10 DEF ReturnRotted, ReturnLock, Parked, TypeOK
  <2>2. UNCHANGED <<lkq, lkqTtl, inbox>>
    BY <1>10 DEF ReturnRotted, ReturnLock, redisVars
  <2> QED  BY <2>1, <2>2, StaysParked
<1>11. ASSUME NEW j \in Calls, RedisReturn(j) PROVE Queued(k)' \/ Coming(k)'
  <2> DEFINE w == WorkerOf[k]
  <2>1. Parked(k) /\ Left(k)' = Left(k)
    BY <1>11 DEF RedisReturn, Parked, Left, TypeOK
  <2>2. w \in Workers /\ inbox[w] \in Seq([Calls -> Nat])
    BY DEF TypeOK
  <2>3. CASE Coming(k)
    <3>1. PICK i \in 1 .. Len(inbox[w]) : inbox[w][i][k] > 0
      BY <2>3 DEF Coming
    <3>2. inbox'[w] = inbox[w] \/ inbox'[w] = Append(inbox[w], lkq[j])
      BY <1>11, <2>2 DEF RedisReturn
    <3> DEFINE box == inbox[w]
    <3>3. lkq[j] \in [Calls -> Nat]
      BY DEF TypeOK
    <3>4. i \in 1 .. Len(inbox'[w]) /\ inbox'[w][i] = box[i]
      <4>1. CASE inbox'[w] = box
        BY ONLY <3>1, <4>1
      <4>2. CASE inbox'[w] = Append(box, lkq[j])
        <5>1. box \in Seq([Calls -> Nat]) /\ i \in 1 .. Len(box)
          BY ONLY <2>2, <3>1
        <5> HIDE DEF box
        <5> QED  BY ONLY <3>3, <4>2, <5>1
      <4> QED  BY ONLY <3>2, <4>1, <4>2
    <3> HIDE DEF w
    <3> QED  BY <3>1, <3>4 DEF Coming, w
  <2>4. CASE Queued(k)
    <3>1. PICK h \in Calls : lkq[h][k] > 0 /\ (lkqTtl[h] = NoTtl \/ lkqTtl[h] >= Left(k))
      BY <2>4 DEF Queued
    <3>2. CASE h # j
      <4>1. lkq'[h] = lkq[h] /\ lkqTtl'[h] = lkqTtl[h]
        BY <1>11, <3>2 DEF RedisReturn, TypeOK
      <4> QED  BY <2>1, <3>1, <4>1 DEF Queued
    <3>3. CASE h = j
      <4>1. lkq[j] # NoOne /\ lkq[j] \in [Calls -> Nat]
        <5>1. lkq[j] \in [Calls -> Nat] /\ lkq[j][k] > 0
          BY <3>1, <3>3 DEF TypeOK
        <5> QED  BY <5>1 DEF NoOne
      <4>2. inbox'[w] = Append(inbox[w], lkq[j])
        BY <1>11, <2>2, <4>1 DEF RedisReturn
      <4> HIDE DEF w
      <4>3. /\ Len(inbox'[w]) = Len(inbox[w]) + 1
            /\ inbox'[w][Len(inbox[w]) + 1] = lkq[j]
            /\ Len(inbox[w]) + 1 \in 1 .. Len(inbox'[w])
        BY ONLY SMTT(60), <2>2, <4>1, <4>2
      <4> QED  BY <3>1, <3>3, <4>3 DEF Coming, w
    <3> QED  BY <3>2, <3>3
  <2> QED  BY <2>1, <2>3, <2>4 DEF WakeInv
<1>12. ASSUME NEW w \in Workers, Deliver(w) PROVE Queued(k)' \/ Coming(k)'
  <2> DEFINE msg == Head(inbox[w])
             Woken == {c \in Mine(w) : msg[c] > 0 /\ Waits(c)}
             Rung == {c \in Mine(w) : /\ msg[c] > IF Waits(c) THEN 1 ELSE 0
                                      /\ Waits(c) \/ HasBustler(c)}
  <2>1. /\ inbox[w] # <<>> /\ inbox[w] \in Seq([Calls -> Nat])
        /\ inbox' = [inbox EXCEPT ![w] = Tail(@)]
        /\ UNCHANGED <<lkq, lkqTtl, caller>>
    BY <1>12 DEF Deliver, TypeOK
  <2>2. /\ lockWaitings'[k] = IF k \in Woken THEN NoWaiting ELSE lockWaitings[k]
        /\ wire'[k] = IF k \in Woken THEN "get" ELSE wire[k]
        /\ bustlerBuffer'[k] = IF k \in Woken THEN FreshBustler(k \in Rung)
                               ELSE IF k \in Rung THEN [bustlerBuffer[k] EXCEPT !.v = TRUE]
                               ELSE bustlerBuffer[k]
    BY <1>12 DEF Deliver
  <2>3. msg \in [Calls -> Nat]
    BY <2>1
  <2> HIDE DEF msg
  <2>4. k \notin Woken /\ k \notin Rung
    <3>1. k \notin Woken
      BY <2>1, <2>2 DEF Parked, NoWaiting
    <3>2. ASSUME k \in Rung PROVE FALSE
      <4>1. bustlerBuffer[k] \in [v : BOOLEAN, dt : -1 .. WaitTime] /\ msg[k] \in Nat
        BY <2>3 DEF TypeOK
      <4>2. ~Waits(k)
        BY <3>1, <3>2, <4>1
      <4>3. bustlerBuffer'[k].v
        BY <2>2, <3>1, <3>2, <4>1
      <4> QED  BY <2>2, <3>1, <4>2, <4>3 DEF Parked
    <3> QED  BY <3>1, <3>2
  <2>5. Parked(k) /\ Left(k)' = Left(k)
    BY <2>1, <2>2, <2>4 DEF Parked, Left
  <2>6. CASE Queued(k)
    BY <2>1, <2>5, <2>6 DEF Queued
  <2>7. CASE Coming(k) /\ WorkerOf[k] # w
    <3>1. inbox'[WorkerOf[k]] = inbox[WorkerOf[k]]
      BY <2>1, <2>7
    <3> QED  BY ONLY <2>7, <3>1 DEF Coming
  <2>8. CASE Coming(k) /\ WorkerOf[k] = w
    <3>1. msg[k] = 0
      <4>1. HasBustler(k) \/ Waits(k)
        BY SMTT(60), <2>5 DEF Parked, HasBustler, TimelyInv, TypeOK
      <4>2. k \in Mine(w) /\ msg[k] \in Nat
        BY <2>3, <2>8 DEF Mine
      <4> QED  BY <2>4, <4>1, <4>2
    <3>2. PICK i \in 1 .. Len(inbox[w]) : inbox[w][i][k] > 0
      BY <2>8 DEF Coming
    <3>3. i # 1
      BY <2>1, <3>1, <3>2 DEF msg
    <3>4. inbox'[w] = Tail(inbox[w])
      BY <2>1 DEF TypeOK
    <3>5. i - 1 \in 1 .. Len(inbox'[w]) /\ inbox'[w][i - 1] = inbox[w][i]
      <4> DEFINE q == inbox[w]
      <4>1. q \in Seq([Calls -> Nat]) /\ q # <<>> /\ i \in 1 .. Len(q) /\ inbox'[w] = Tail(q)
        BY <2>1, <3>2, <3>4
      <4> HIDE DEF q
      <4>2. Len(Tail(q)) = Len(q) - 1 /\ i - 1 \in 1 .. Len(Tail(q))
        BY <3>3, <4>1
      <4>3. Tail(q)[i - 1] = q[i]
        BY <4>1, <4>2
      <4> QED  BY <4>1, <4>2, <4>3 DEF q
    <3> QED  BY <2>8, <3>2, <3>5 DEF Coming
  <2> QED  BY <2>5, <2>6, <2>7, <2>8 DEF WakeInv
<1>13. ASSUME NEW w \in Workers, MissMessage(w) PROVE FALSE
  BY <1>13 DEF MissMessage
<1>14. ASSUME NEW w \in Workers, Crash(w) PROVE Queued(k)' \/ Coming(k)'
  <2>1. WorkerOf[k] # w
    <3> SUFFICES ASSUME WorkerOf[k] = w PROVE FALSE
      OBVIOUS
    <3>1. /\ caller[k] # "idle" => caller'[k] = "dead" /\ lockWaitings'[k] = NoWaiting
          /\ caller[k] = "idle" => caller'[k] = "idle" /\ lockWaitings'[k] = lockWaitings[k]
          /\ wire' = wire
      BY <1>14 DEF Crash, Mine
    <3> QED  BY <3>1 DEF Parked, NoWaiting, StageInv, GetReplies
  <2>2. Parked(k) /\ Left(k)' = Left(k)
    BY <1>14, <2>1 DEF Crash, Mine, Parked, Left
  <2>3. /\ inbox'[WorkerOf[k]] = inbox[WorkerOf[k]]
        /\ UNCHANGED <<lkq, lkqTtl>>
    BY <1>14, <2>1 DEF Crash, TypeOK
  <2> QED  BY <2>2, <2>3 DEF WakeInv, Queued, Coming
<1>15. CASE Tick
  <2>1. /\ bustlerBuffer[k] \in [v : BOOLEAN, dt : -1 .. WaitTime]
        /\ bustlerBuffer'[k] = [bustlerBuffer[k] EXCEPT !.dt = Less(@)]
        /\ lockWaitings[k] \in -1 .. WaitTime /\ lockWaitings'[k] = Less(lockWaitings[k])
        /\ UNCHANGED <<inbox, wire, caller>>
    BY <1>15 DEF Tick, TypeOK
  <2>2. bustlerBuffer'[k].v = bustlerBuffer[k].v /\ bustlerBuffer'[k].dt = Less(bustlerBuffer[k].dt)
    BY <2>1
  <2>3. ~Overdue(k)
    BY <1>15 DEF Tick
  <2>4. Parked(k)
    BY <2>1, <2>2 DEF Parked, Less
  <2>5. Left(k) \in Int /\ Left(k) >= 1 /\ Left(k)' = Left(k) - 1
    BY <2>1, <2>2, <2>3, <2>4 DEF Overdue, Left, Parked, Less
  <2>6. CASE Coming(k)
    BY ONLY <2>1, <2>6 DEF Coming
  <2>7. CASE Queued(k)
    <3>1. PICK h \in Calls : lkq[h][k] > 0 /\ (lkqTtl[h] = NoTtl \/ lkqTtl[h] >= Left(k))
      BY <2>7 DEF Queued
    <3>2. lkqTtl[h] \in {NoTtl} \cup 0 .. LockTime
      BY DEF TypeOK
    <3>3. lkqTtl[h] # 0
      BY <2>5, <3>1 DEF NoTtl
    <3>4. lkq'[h] = lkq[h] /\ lkqTtl'[h] = Less(lkqTtl[h])
      BY <1>15, <3>3 DEF Tick, Expired
    <3> QED  BY <2>5, <3>1, <3>2, <3>3, <3>4 DEF Queued, NoTtl, Less
  <2> QED  BY <2>4, <2>6, <2>7 DEF WakeInv
<1>16. CASE UNCHANGED vars
  <2>1. /\ Parked(k) /\ bustlerBuffer'[k] = bustlerBuffer[k]
        /\ lockWaitings'[k] = lockWaitings[k]
    BY <1>16 DEF vars, Parked, TypeOK
  <2> QED  BY <1>16, <2>1, StaysParked DEF vars
<1> QED
  BY <1>1, <1>2, <1>3, <1>4, <1>5, <1>6, <1>7, <1>8, <1>9, <1>10, <1>11, <1>12, <1>13, <1>14,
     <1>15, <1>16 DEF Next, CallStep, WorkerStep, Fails, RedisGet

\* A call parked in lockWaitings is queued behind a key that was not returned,
\* or its wake-up is on the way, provided that replies and timers are in time,
\* no worker misses a message and a list of keys outlives the longest wait.
\* Errors, deaths and rotten locks are allowed.
THEOREM WakeupIsNotLost ==
    ASSUME Prompt, ~MayLose, WaitTime > 0, 2 * WaitTime - 1 <= LockTime
    PROVE  Spec => []NoLostWakeup
<1>1. Init => TimelyInv /\ WakeInv
  BY DEF Init, TimelyInv, WakeInv, Parked, Waits, NoWaiting
<1>2. IInv /\ IInv' /\ TimelyInv /\ [Next]_vars => TimelyInv'
  BY TimelyStep DEF IInv
<1>3. IInv /\ IInv' /\ TimelyInv /\ WakeInv /\ [Next]_vars => WakeInv'
  BY WakeStep DEF IInv
<1>4. WakeInv => NoLostWakeup
  BY DEF WakeInv, NoLostWakeup, Parked, Queued, Coming
<1> QED  BY <1>1, <1>2, <1>3, <1>4, InvCorrect, PTL DEF Spec
=============================================================================
