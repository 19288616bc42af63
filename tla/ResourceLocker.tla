--------------------------- MODULE ResourceLocker ---------------------------
(***************************************************************************)
(* The resource locker (generalUtils/opResourceLocker.js) and its two      *)
(* Redis scripts (generalUtils/lua/resourcesLock).                         *)
(*                                                                         *)
(* A call of getLock owns a fresh lock key, so a call and its lock key are *)
(* one value here.  A script runs in Redis in one step; everything between *)
(* two scripts interleaves: the request travels, the reply travels, timers *)
(* of the process run late, and the wake-up message of another worker may  *)
(* overtake the reply.                                                     *)
(*                                                                         *)
(* Time is relative: every time-to-live and timer holds the time it has    *)
(* left and Tick takes one unit off all of them.                           *)
(***************************************************************************)
EXTENDS Integers, Sequences, FiniteSets

CONSTANTS
    Calls,      \* calls of getLock, each with the lock key it generates
    Resources,  \* names that can be locked (human ids of players)
    Workers,    \* Node.js processes of the cluster
    WorkerOf,   \* the process in which a call runs
    NoCall,     \* no lock key
    LockTime,   \* MAX_LOCK_TIME_MS
    WaitTime,   \* LOCK_WAIT_TIMEOUT_MS
    MayFail,    \* a Redis command may end in an error
    MayLose,    \* a worker may miss a published message
    MayCrash,   \* a worker may die and be restarted
    Prompt      \* replies and timers arrive before a further unit of time

ASSUME CallsAssumption == IsFiniteSet(Resources) /\ NoCall \notin Calls
ASSUME WorkersAssumption == WorkerOf \in [Calls -> Workers]
ASSUME TimeAssumption ==
    /\ LockTime \in Nat
    /\ WaitTime \in Nat
ASSUME SwitchesAssumption == {MayFail, MayLose, MayCrash, Prompt} \subseteq BOOLEAN

VARIABLES
    lk,             \* Redis 'lk:<resource>': the key stored and its time-to-live
    lkq,            \* Redis 'lkq:<lock key>': how often each key was pushed
    lkqTtl,         \* time-to-live of 'lkq:<lock key>', NoTtl when it has none
    inbox,          \* messages of channel 'rs-lk' on their way to each worker
    want,           \* the resources a call asks for
    age,            \* time since the call read its `now`
    wire,           \* the Redis command of a call: sent, or its reply
    bustlerBuffer,  \* the map of that name: {dt, v}
    lockWaitings,   \* the map of that name: time left on the death timer
    caller          \* what the code that called getLock has been told

redisVars   == <<lk, lkq, lkqTtl, inbox>>
processVars == <<want, age, wire, bustlerBuffer, lockWaitings, caller>>
vars        == <<lk, lkq, lkqTtl, inbox, want, age, wire, bustlerBuffer, lockWaitings, caller>>

-----------------------------------------------------------------------------
NoTtl  == -1
NoLock == [key |-> NoCall, ttl |-> 0]
NoBustler == [v |-> FALSE, dt |-> -1]
NoWaiting == -1
NoOne  == [k \in Calls |-> 0]          \* an empty list of lock keys

FreshBustler(v) == [v |-> v, dt |-> WaitTime]

\* Mutant: opHandleMessage knows only the calls that wait.
NoBustlerEver(k) == FALSE

\* An entry of bustlerBuffer exists as long as its death timer runs.
HasBustler(k) == bustlerBuffer[k].dt >= 0
Waits(k) == lockWaitings[k] >= 0

GetReplies == {"1", "0", "error"}      \* replies of getResourcesLock
Answered   == {"holds", "refused", "returning", "returned", "rotted", "unsure"}

\* A message may name keys of other workers: a worker looks up its own.
Mine(w) == {k \in Calls : WorkerOf[k] = w}

TypeOK ==
    /\ lk \in [Resources -> [key : Calls \cup {NoCall}, ttl : 0..LockTime]]
    /\ lkq \in [Calls -> [Calls -> Nat]]
    /\ lkqTtl \in [Calls -> {NoTtl} \cup 0..LockTime]
    /\ inbox \in [Workers -> Seq([Calls -> Nat])]
    /\ want \in [Calls -> SUBSET Resources]
    /\ age \in [Calls -> 0..(LockTime + 1)]
    /\ wire \in [Calls -> {"none", "get", "return", "done", "failed"} \cup GetReplies]
    /\ bustlerBuffer \in [Calls -> [v : BOOLEAN, dt : -1..WaitTime]]
    /\ lockWaitings \in [Calls -> -1..WaitTime]
    /\ caller \in [Calls -> {"idle", "asking", "dead"} \cup Answered]

Init ==
    /\ lk = [r \in Resources |-> NoLock]
    /\ lkq = [k \in Calls |-> NoOne]
    /\ lkqTtl = [k \in Calls |-> NoTtl]
    /\ inbox = [w \in Workers |-> <<>>]
    /\ want = [k \in Calls |-> {}]
    /\ age = [k \in Calls |-> 0]
    /\ wire = [k \in Calls |-> "none"]
    /\ bustlerBuffer = [k \in Calls |-> NoBustler]
    /\ lockWaitings = [k \in Calls |-> NoWaiting]
    /\ caller = [k \in Calls |-> "idle"]

-----------------------------------------------------------------------------
(* The worker asks for a lock.                                             *)

\* getLock: read the clock, generate the key, send the first request.
GetLock(k, resources) ==
    /\ caller[k] = "idle"
    /\ caller' = [caller EXCEPT ![k] = "asking"]
    /\ want' = [want EXCEPT ![k] = resources]
    /\ age' = [age EXCEPT ![k] = 0]
    /\ bustlerBuffer' = [bustlerBuffer EXCEPT ![k] = FreshBustler(FALSE)]
    /\ wire' = [wire EXCEPT ![k] = "get"]
    /\ UNCHANGED <<redisVars, lockWaitings>>

\* Mutant: the script looks at one resource only.
TakenOfOne(k) == {r \in {CHOOSE r \in want[k] : TRUE} : lk[r].key \notin {NoCall, k}}

\* getResourcesLock.lua.  All resources are taken or none is; a refused key is
\* pushed once per taken resource onto the queue of the key that holds it, and
\* only the queue of the first taken resource gets a time-to-live.  The list
\* of the caller decides which resource is first.
Taken(k) == {r \in want[k] : lk[r].key \notin {NoCall, k}}

\* Mutant: a refused call keeps the resources that were free.
RefuseKeepingPart(k) ==
    \E first \in Taken(k) :
        /\ lkq' = [lkq EXCEPT ![lk[first].key][k] = @ + 1]
        /\ lkqTtl' = [lkqTtl EXCEPT ![lk[first].key] = LockTime]
        /\ wire' = [wire EXCEPT ![k] = "0"]
        /\ lk' = [r \in Resources |-> IF r \in want[k] \ Taken(k)
                    THEN [key |-> k, ttl |-> LockTime] ELSE lk[r]]

Refuse(k) ==
    \E first \in Taken(k) :
        /\ lkq' = [h \in Calls |-> [lkq[h] EXCEPT ![k] =
                     @ + Cardinality({r \in Taken(k) : lk[r].key = h})]]
        /\ lkqTtl' = [lkqTtl EXCEPT ![lk[first].key] = LockTime]
        /\ wire' = [wire EXCEPT ![k] = "0"]
        /\ UNCHANGED lk

\* Mutant: the time-to-live is given in the wrong unit.
GrantInSeconds(k) ==
    /\ Taken(k) = {}
    /\ lk' = [r \in Resources |->
                IF r \in want[k] THEN [key |-> k, ttl |-> 1000 * LockTime] ELSE lk[r]]
    /\ wire' = [wire EXCEPT ![k] = "1"]
    /\ UNCHANGED <<lkq, lkqTtl>>

Grant(k) ==
    /\ Taken(k) = {}
    /\ lk' = [r \in Resources |->
                IF r \in want[k] THEN [key |-> k, ttl |-> LockTime] ELSE lk[r]]
    /\ wire' = [wire EXCEPT ![k] = "1"]
    /\ UNCHANGED <<lkq, lkqTtl>>

RedisGet(k) ==
    /\ wire[k] = "get"
    /\ Refuse(k) \/ Grant(k)
    /\ UNCHANGED <<inbox, want, age, bustlerBuffer, lockWaitings, caller>>

\* The connection breaks before or after the script ran.
RedisGetFails(k) ==
    /\ MayFail
    /\ wire[k] \in {"get", "1", "0"}
    /\ wire' = [wire EXCEPT ![k] = "error"]
    /\ UNCHANGED <<redisVars, want, age, bustlerBuffer, lockWaitings, caller>>

\* Mutant: the lock is dated when the reply arrives.
OnGrantedDatedNow(k) ==
    /\ wire[k] = "1" /\ caller[k] # "dead"
    /\ wire' = [wire EXCEPT ![k] = "none"]
    /\ caller' = [caller EXCEPT ![k] = "holds"]
    /\ age' = [age EXCEPT ![k] = 0]
    /\ UNCHANGED <<redisVars, want, bustlerBuffer, lockWaitings>>

\* callbackFn, response '1': the caller gets a LockedResources dated `now`.
OnGranted(k) ==
    /\ wire[k] = "1" /\ caller[k] # "dead"
    /\ wire' = [wire EXCEPT ![k] = "none"]
    /\ caller' = [caller EXCEPT ![k] = "holds"]
    /\ UNCHANGED <<redisVars, want, age, bustlerBuffer, lockWaitings>>

\* callbackFn, err: the caller gets error 830.  Its bustler stays.
OnError(k) ==
    /\ wire[k] = "error" /\ caller[k] # "dead"
    /\ wire' = [wire EXCEPT ![k] = "none"]
    /\ caller' = [caller EXCEPT ![k] = "refused"]
    /\ age' = [age EXCEPT ![k] = 0]
    /\ UNCHANGED <<redisVars, want, bustlerBuffer, lockWaitings>>

\* callbackFn, response '0', the key was rung while the reply travelled: ask
\* again at once (tryToGetResourceLock keeps the `now` it closes over).
OnRefusedRung(k) ==
    /\ wire[k] = "0" /\ caller[k] # "dead"
    /\ HasBustler(k) /\ bustlerBuffer[k].v
    /\ bustlerBuffer' = [bustlerBuffer EXCEPT ![k] = FreshBustler(FALSE)]
    /\ wire' = [wire EXCEPT ![k] = "get"]
    /\ UNCHANGED <<redisVars, want, age, lockWaitings, caller>>

\* callbackFn, response '0', not rung or the bustler is gone: doWaitForResource.
OnRefused(k) ==
    /\ wire[k] = "0" /\ caller[k] # "dead"
    /\ ~(HasBustler(k) /\ bustlerBuffer[k].v)
    /\ bustlerBuffer' = [bustlerBuffer EXCEPT ![k] = NoBustler]
    /\ lockWaitings' = [lockWaitings EXCEPT ![k] = WaitTime]
    /\ wire' = [wire EXCEPT ![k] = "none"]
    /\ UNCHANGED <<redisVars, want, age, caller>>

\* bustlerDeathTimer: runs after any outcome but '0', which clears it.
BustlerDies(k) ==
    /\ bustlerBuffer[k].dt = 0
    /\ bustlerBuffer' = [bustlerBuffer EXCEPT ![k] = NoBustler]
    /\ UNCHANGED <<redisVars, want, age, wire, lockWaitings, caller>>

\* Mutant: the death timer leaves the call in lockWaitings.
WaitingStays(k) ==
    /\ lockWaitings[k] = 0 /\ caller[k] = "asking"
    /\ caller' = [caller EXCEPT ![k] = "refused"]
    /\ age' = [age EXCEPT ![k] = 0]
    /\ UNCHANGED <<redisVars, want, wire, bustlerBuffer, lockWaitings>>

\* Mutant: the death timer forgets the call without calling back.
WaitingForgotten(k) ==
    /\ lockWaitings[k] = 0
    /\ lockWaitings' = [lockWaitings EXCEPT ![k] = NoWaiting]
    /\ UNCHANGED <<redisVars, want, age, wire, bustlerBuffer, caller>>

\* deathTimer of a waiting call: the caller gets error 344.
WaitingDies(k) ==
    /\ lockWaitings[k] = 0
    /\ lockWaitings' = [lockWaitings EXCEPT ![k] = NoWaiting]
    /\ caller' = [caller EXCEPT ![k] = "refused"]
    /\ age' = [age EXCEPT ![k] = 0]
    /\ UNCHANGED <<redisVars, want, wire, bustlerBuffer>>

-----------------------------------------------------------------------------
(* The worker hears that a lock was returned.                              *)

\* opHandleMessage: a waiting call asks again with a new `now`; a call whose
\* reply is still out is rung.  A key that occurs twice does both in turn.
Deliver(w) ==
    /\ inbox[w] # <<>>
    /\ LET msg  == Head(inbox[w])
           Woken == {k \in Mine(w) : msg[k] > 0 /\ Waits(k)}
           Rung  == {k \in Mine(w) : /\ msg[k] > IF Waits(k) THEN 1 ELSE 0
                                     /\ Waits(k) \/ HasBustler(k)}
       IN  /\ lockWaitings' = [k \in Calls |->
                 IF k \in Woken THEN NoWaiting ELSE lockWaitings[k]]
           /\ age' = [k \in Calls |-> IF k \in Woken THEN 0 ELSE age[k]]
           /\ wire' = [k \in Calls |-> IF k \in Woken THEN "get" ELSE wire[k]]
           /\ bustlerBuffer' = [k \in Calls |->
                 IF k \in Woken THEN FreshBustler(k \in Rung)
                 ELSE IF k \in Rung THEN [bustlerBuffer[k] EXCEPT !.v = TRUE]
                 ELSE bustlerBuffer[k]]
    /\ inbox' = [inbox EXCEPT ![w] = Tail(@)]
    /\ UNCHANGED <<lk, lkq, lkqTtl, want, caller>>

\* Redis publishes at most once: a subscriber that is reconnecting misses it.
MissMessage(w) ==
    /\ MayLose
    /\ inbox[w] # <<>>
    /\ inbox' = [inbox EXCEPT ![w] = Tail(@)]
    /\ UNCHANGED <<lk, lkq, lkqTtl, processVars>>

-----------------------------------------------------------------------------
(* The caller returns its lock.                                            *)

\* returnLock, error 345: too old, Redis is not asked and nobody is woken.
ReturnRotted(k) ==
    /\ caller[k] = "holds" /\ age[k] > LockTime
    /\ caller' = [caller EXCEPT ![k] = "rotted"]
    /\ age' = [age EXCEPT ![k] = 0]
    /\ UNCHANGED <<redisVars, want, wire, bustlerBuffer, lockWaitings>>

ReturnLock(k) ==
    /\ caller[k] = "holds" /\ age[k] <= LockTime
    /\ caller' = [caller EXCEPT ![k] = "returning"]
    /\ age' = [age EXCEPT ![k] = 0]
    /\ wire' = [wire EXCEPT ![k] = "return"]
    /\ UNCHANGED <<redisVars, want, bustlerBuffer, lockWaitings>>

\* Mutant: returnResourcesLock deletes the keys without comparing them.
FreedBlindly(k) == [r \in Resources |-> IF r \in want[k] THEN NoLock ELSE lk[r]]

\* returnResourcesLock.lua: delete what the key still holds, drain its queue,
\* publish the drained keys to every worker.
Freed(k) == [r \in Resources |-> IF r \in want[k] /\ lk[r].key = k THEN NoLock ELSE lk[r]]

RedisReturn(k) ==
    /\ wire[k] = "return"
    /\ lk' = Freed(k)
    /\ lkq' = [lkq EXCEPT ![k] = NoOne]
    /\ lkqTtl' = [lkqTtl EXCEPT ![k] = NoTtl]
    /\ inbox' = IF lkq[k] = NoOne THEN inbox
                ELSE [w \in Workers |-> Append(inbox[w], lkq[k])]
    /\ wire' = [wire EXCEPT ![k] = "done"]
    /\ UNCHANGED <<want, age, bustlerBuffer, lockWaitings, caller>>

RedisReturnFails(k) ==
    /\ MayFail
    /\ wire[k] \in {"return", "done"}
    /\ wire' = [wire EXCEPT ![k] = "failed"]
    /\ UNCHANGED <<redisVars, want, age, bustlerBuffer, lockWaitings, caller>>

\* callbackFn of doReturnLock: null, or error 651.
OnReturned(k) ==
    /\ wire[k] \in {"done", "failed"} /\ caller[k] # "dead"
    /\ caller' = [caller EXCEPT ![k] = IF wire[k] = "done" THEN "returned" ELSE "unsure"]
    /\ wire' = [wire EXCEPT ![k] = "none"]
    /\ UNCHANGED <<redisVars, want, age, bustlerBuffer, lockWaitings>>

-----------------------------------------------------------------------------
(* The environment.                                                        *)

\* A process dies with its maps, its timers and its subscription.  What it
\* sent to Redis may still be executed; what it held expires.
Crash(w) ==
    /\ MayCrash
    /\ LET Lost == {k \in Mine(w) : caller[k] # "idle"}
       IN  /\ caller' = [k \in Calls |-> IF k \in Lost THEN "dead" ELSE caller[k]]
           /\ age' = [k \in Calls |-> IF k \in Lost THEN 0 ELSE age[k]]
           /\ bustlerBuffer' = [k \in Calls |-> IF k \in Lost THEN NoBustler ELSE bustlerBuffer[k]]
           /\ lockWaitings' = [k \in Calls |-> IF k \in Lost THEN NoWaiting ELSE lockWaitings[k]]
    /\ inbox' = [inbox EXCEPT ![w] = <<>>]
    /\ UNCHANGED <<lk, lkq, lkqTtl, want, wire>>

\* A key with no time left is gone after the next unit (Redis keeps it through
\* the last millisecond, as returnLock's `<` does); a timer with no time left
\* is due and runs some time later.
Less(n) == IF n > 0 THEN n - 1 ELSE n
Expired(ttl) == ttl = 0

Overdue(k) ==
    \/ wire[k] \in {"get", "0"} /\ caller[k] # "dead" /\ bustlerBuffer[k].dt <= 1
    \/ lockWaitings[k] = 0

Tick ==
    /\ Prompt => \A k \in Calls : ~Overdue(k)
    /\ lk' = [r \in Resources |-> IF Expired(lk[r].ttl) THEN NoLock
                                  ELSE [lk[r] EXCEPT !.ttl = @ - 1]]
    /\ lkq' = [k \in Calls |-> IF Expired(lkqTtl[k]) THEN NoOne ELSE lkq[k]]
    /\ lkqTtl' = [k \in Calls |-> IF Expired(lkqTtl[k]) THEN NoTtl ELSE Less(lkqTtl[k])]
    /\ age' = [k \in Calls |-> IF caller[k] \in {"asking", "holds"} /\ age[k] <= LockTime
                               THEN age[k] + 1 ELSE age[k]]
    /\ bustlerBuffer' = [k \in Calls |-> [bustlerBuffer[k] EXCEPT !.dt = Less(@)]]
    /\ lockWaitings' = [k \in Calls |-> Less(lockWaitings[k])]
    /\ UNCHANGED <<inbox, want, wire, caller>>

-----------------------------------------------------------------------------
CallStep(k) ==
    \/ \E resources \in (SUBSET Resources) \ {{}} : GetLock(k, resources)
    \/ RedisGet(k) \/ RedisGetFails(k)
    \/ OnGranted(k) \/ OnError(k) \/ OnRefusedRung(k) \/ OnRefused(k)
    \/ BustlerDies(k) \/ WaitingDies(k)
    \/ ReturnRotted(k) \/ ReturnLock(k)
    \/ RedisReturn(k) \/ RedisReturnFails(k) \/ OnReturned(k)

WorkerStep(w) == Deliver(w) \/ MissMessage(w) \/ Crash(w)

Next ==
    \/ \E k \in Calls : CallStep(k)
    \/ \E w \in Workers : WorkerStep(w)
    \/ Tick

Spec == Init /\ [][Next]_vars

\* Redis executes what it gets, replies and messages arrive, due timers run and
\* time passes.  Nothing makes a caller return its lock.
Fairness ==
    /\ \A k \in Calls :
          /\ WF_vars(RedisGet(k))
          /\ WF_vars(OnGranted(k) \/ OnError(k) \/ OnRefusedRung(k) \/ OnRefused(k))
          /\ WF_vars(WaitingDies(k))
          /\ WF_vars(RedisReturn(k))
          /\ WF_vars(OnReturned(k))
    /\ \A w \in Workers : WF_vars(Deliver(w))
    /\ WF_vars(Tick)

FairSpec == Spec /\ Fairness

-----------------------------------------------------------------------------
(* Safety.                                                                 *)

\* The caller has, or is about to be handed, a lock that returnLock would
\* still accept.
Trusts(k) ==
    /\ age[k] <= LockTime
    /\ caller[k] = "holds" \/ (caller[k] = "asking" /\ wire[k] = "1")

\* Two callers whose locks have not rotted never share a resource, however
\* late replies, timers and wake-ups come: `theLock.cat + MAX_LOCK_TIME_MS <
\* now` in a process runs out before the key in Redis does.
MutualExclusion ==
    \A k1, k2 \in Calls :
        k1 # k2 /\ Trusts(k1) /\ Trusts(k2) => want[k1] \cap want[k2] = {}

\* A call that is still asking, or queued behind another lock, holds nothing
\* in Redis: with all-or-nothing grants calls that want overlapping sets can
\* not wait for each other in a circle.
NoHoldAndWait ==
    \A k \in Calls :
        Waits(k) \/ wire[k] \in {"get", "0"} => \A r \in Resources : lk[r].key # k

\* A call parked in lockWaitings is known to somebody who will wake it: it is
\* queued behind a key that was not returned, or its wake-up message is on
\* the way.  The bustler exists for the message that overtakes the reply.
NoLostWakeup ==
    \A k \in Calls : Waits(k) =>
        \/ \E h \in Calls : lkq[h][k] > 0
        \/ \E i \in 1..Len(inbox[WorkerOf[k]]) : inbox[WorkerOf[k]][i][k] > 0

\* A key of a lock leaves Redis in two ways only: its own call returns it, or
\* its time is over.  A late return of a lock that expired and was taken by
\* another call must not free the other's lock.
OnlyOwnerFrees ==
    [][\A r \in Resources : lk[r].key # NoCall /\ lk'[r].key # lk[r].key =>
          \/ lk[r].ttl = 0 /\ lk'[r] = NoLock
          \/ wire[lk[r].key] = "return" /\ wire'[lk[r].key] = "done"]_vars

\* getLock calls back once: a caller that was told the outcome is not told
\* another one by a timer, a wake-up or a reply that was still on its way.
CalledBackOnce ==
    [][\A k \in Calls : caller[k] \in Answered =>
          caller'[k] \notin {"idle", "asking", "holds", "refused"} \/ caller'[k] = caller[k]]_vars

\* The locker keeps the lease promise (LeaseService).
Held == [k \in Calls |-> {r \in Resources : lk[r].key = k}]
Lease == INSTANCE LeaseService WITH
    Holders <- Calls, Goods <- Resources,
    holding <- Held, trusted <- {k \in Calls : Trusts(k)}
LeaseSpec == Lease!Spec

-----------------------------------------------------------------------------
(* Liveness.                                                               *)

\* Every getLock calls back (or its process dies), even when wake-ups are
\* missed, Redis fails and holders never return their locks.
EveryCallAnswered == \A k \in Calls : caller[k] = "asking" ~> caller[k] # "asking"
=============================================================================
