----------------------------- MODULE AtomicActs -----------------------------
(***************************************************************************)
(* Atomic acts (features/atomic/atomicActs.js): what a cloud function      *)
(* wants to change in several documents is first stored as one document,   *)
(* the act, and then carried out player by player and stage by stage.      *)
(* `st` remembers how far the act has come for each player, and whoever    *)
(* meets an unfinished act later - a player who opens his profile, a cloud *)
(* function that reads him, the background loop - carries it on.           *)
(*                                                                         *)
(* The jobs that do so run in different processes.  Functions and visits   *)
(* hold the lock of the players they work on, taken from the lease service *)
(* (LeaseService, implemented by ResourceLocker); the loop wants to, but   *)
(* locks another name.  Nothing else keeps the jobs apart.                 *)
(***************************************************************************)
EXTENDS Integers, FiniteSets

CONSTANTS
    Players,
    Codes,      \* runs of cloud functions, each run once
    Visits,     \* calls of getProfile, each made once
    Loopers,    \* processes in which the background loop runs again and again
    Self,       \* the player who called a cloud function or getProfile
    NoOne,      \* no player, no looper
    Cursor,     \* the name the background loop locks
    Bodies,     \* what an act may ask for: the players with a part per stage
    MaxId,      \* bound: acts and direct writes
    Batch,      \* cloudFunctionsConfig.atomic.batchSize
    MayFail,    \* a command to MongoDB or Redis may end in an error
    MayCrash,   \* a process may die
    MayRot,     \* a lock may expire under a job that is still at work
    MaxFaults   \* bound: errors, deaths and rotted locks

Jobs == Codes \cup Visits \cup Loopers
Names == Players \cup {Cursor}     \* what can be locked
Ids  == 1..MaxId

ProfileState == 0
RecordsState == 1
ReceiptsState == 2
BjeState == 3
DoneState == 4
Stages == ProfileState..BjeState
States == ProfileState..DoneState

ASSUME JobsAssumption ==
    /\ Codes \cap Visits = {} /\ Codes \cap Loopers = {} /\ Visits \cap Loopers = {}
    /\ Self \in [Codes \cup Visits -> Players]
    /\ NoOne \notin Players \cup Jobs
    /\ Cursor \notin Players
ASSUME BoundsAssumption == MaxId \in Nat /\ Batch \in Nat \ {0} /\ MaxFaults \in Nat
ASSUME BodiesAssumption == Bodies \subseteq [Stages -> SUBSET Players]
ASSUME SwitchesAssumption == {MayFail, MayCrash, MayRot} \subseteq BOOLEAN

VARIABLES
    counter,    \* the last id given to an act or a direct write
    acts,       \* MongoDB 'atomicacts': the acts that are there
    body,       \* their `dat`
    st,         \* their `st`: how far each player is (not touched: done)
    profile,    \* MongoDB profiles: the id that wrote each player's profile
    board,      \* MongoDB records: the id that wrote each player's record
    mirror,     \* Redis leaderboards: the same
    refresh,    \* Redis 'refreshac': the looper that locked it
    holding,    \* the lease service: the names each job has locked
    trusted,    \* the lease service: the jobs whose lock is still good
    \* The local variables of each job:
    pc,         \* where it is
    who,        \* the names it asks a lock for
    todo,       \* acts still to be carried out, by _id
    copy,       \* `st` of its copies of the acts
    cs,         \* changedStates of its copies
    targets,    \* targetPids of doTheActImplementation
    stage,      \* which of the four rollUps it is in
    saved,      \* updateStatus was called in this stage
    push,       \* the player whose record is to go to Redis
    \* History:
    done,       \* the parts <<act, player, stage>> that were applied
    checked,    \* the players whose acts a function carried on
    before,     \* counter when a visit began
    faults,     \* how many faults happened
    rotted      \* a lock expired under a living job

mongo    == <<counter, acts, body, st, profile, board, done>>
lock     == <<holding, trusted>>
work     == <<todo, copy, cs, targets>>
step     == <<stage, saved, push>>
seen     == <<checked, before>>
history  == <<faults, rotted>>
vars     == <<counter, acts, body, st, profile, board, mirror, refresh, holding, trusted,
              pc, who, todo, copy, cs, targets, stage, saved, push,
              done, checked, before, faults, rotted>>

Lease == INSTANCE LeaseService WITH Holders <- Jobs, Goods <- Names

-----------------------------------------------------------------------------
Touched(b) == UNION {b[s] : s \in Stages}
FirstStates(b) == [p \in Players |-> IF p \in Touched(b) THEN ProfileState ELSE DoneState]
Nothing  == [s \in Stages |-> {}]
NoStates == [a \in Ids |-> [p \in Players |-> ProfileState]]

PCs == {"idle", "asks", "code", "checks", "acts", "page", "unlocks", "leaves",
        "aborts", "ended", "failed", "dead"}

TypeOK ==
    /\ counter \in 0..MaxId
    /\ acts \subseteq 1..counter
    /\ body \in [Ids -> Bodies \cup {Nothing}]
    /\ st \in [Ids -> [Players -> States]]
    /\ profile \in [Players -> 0..MaxId]
    /\ board \in [Players -> 0..MaxId]
    /\ mirror \in [Players -> 0..MaxId]
    /\ refresh \in Loopers \cup {NoOne}
    /\ holding \in [Jobs -> SUBSET Names]
    /\ trusted \subseteq Jobs
    /\ pc \in [Jobs -> PCs]
    /\ who \in [Jobs -> SUBSET Names]
    /\ todo \in [Jobs -> SUBSET Ids]
    /\ copy \in [Jobs -> [Ids -> [Players -> States]]]
    /\ cs \in [Jobs -> [Ids -> [Players -> States]]]
    /\ targets \in [Jobs -> SUBSET Players]
    /\ stage \in [Jobs -> States]
    /\ saved \in [Jobs -> BOOLEAN]
    /\ push \in [Jobs -> Players \cup {NoOne}]
    /\ done \subseteq Ids \X Players \X Stages
    /\ checked \in [Jobs -> SUBSET Players]
    /\ before \in [Jobs -> 0..MaxId]
    /\ faults \in 0..MaxFaults
    /\ rotted \in BOOLEAN

Init ==
    /\ counter = 0
    /\ acts = {}
    /\ body = [a \in Ids |-> Nothing]
    /\ st = NoStates
    /\ profile = [p \in Players |-> 0]
    /\ board = [p \in Players |-> 0]
    /\ mirror = [p \in Players |-> 0]
    /\ refresh = NoOne
    /\ Lease!Init
    /\ pc = [j \in Jobs |-> "idle"]
    /\ who = [j \in Jobs |-> {}]
    /\ todo = [j \in Jobs |-> {}]
    /\ copy = [j \in Jobs |-> NoStates]
    /\ cs = [j \in Jobs |-> NoStates]
    /\ targets = [j \in Jobs |-> {}]
    /\ stage = [j \in Jobs |-> ProfileState]
    /\ saved = [j \in Jobs |-> FALSE]
    /\ push = [j \in Jobs |-> NoOne]
    /\ done = {}
    /\ checked = [j \in Jobs |-> {}]
    /\ before = [j \in Jobs |-> 0]
    /\ faults = 0
    /\ rotted = FALSE

GoTo(j, place) == pc' = [pc EXCEPT ![j] = place]

\* A job takes copies of acts; their states are what they are now.
Fetch(j, some, whom) ==
    /\ todo' = [todo EXCEPT ![j] = some]
    /\ copy' = [copy EXCEPT ![j] = st]
    /\ cs' = [cs EXCEPT ![j] = st]
    /\ targets' = [targets EXCEPT ![j] = whom]

DropCopies(j) ==
    /\ copy' = [copy EXCEPT ![j] = NoStates]
    /\ cs' = [cs EXCEPT ![j] = NoStates]
    /\ targets' = [targets EXCEPT ![j] = {}]

\* A job forgets what it was doing.
Forget(j) ==
    /\ who' = [who EXCEPT ![j] = {}]
    /\ todo' = [todo EXCEPT ![j] = {}]
    /\ DropCopies(j)
    /\ stage' = [stage EXCEPT ![j] = ProfileState]
    /\ saved' = [saved EXCEPT ![j] = FALSE]
    /\ push' = [push EXCEPT ![j] = NoOne]
    /\ checked' = [checked EXCEPT ![j] = {}]
    /\ UNCHANGED before

-----------------------------------------------------------------------------
(* Locks.                                                                  *)

\* opResourceLocker.getLock succeeds.
TakeLock(j) ==
    /\ pc[j] = "asks"
    /\ Lease!Take(j, who[j])
    /\ trusted' = trusted \cup {j}
    /\ GoTo(j, IF j \in Codes THEN "code" ELSE "acts")
    /\ UNCHANGED <<mongo, mirror, refresh, who, work, step, seen, history>>

\* The lock was not to be had in time.  The loop leaves 'refreshac' locked.
LockRefused(j) ==
    /\ pc[j] = "asks"
    /\ \E other \in Jobs \ {j} : holding[other] \cap who[j] # {}
    /\ GoTo(j, IF j \in Loopers THEN "idle" ELSE "failed")
    /\ Forget(j)
    /\ UNCHANGED <<mongo, mirror, refresh, lock, history>>

\* opResourceLocker.returnLock, whose outcome nobody looks at.
ReturnLock(j) ==
    /\ pc[j] \in {"leaves", "aborts"}
    /\ Lease!Lapse({j}, {j})
    /\ GoTo(j, IF j \in Loopers THEN "idle" ELSE IF pc[j] = "leaves" THEN "ended" ELSE "failed")
    /\ Forget(j)
    /\ UNCHANGED <<mongo, mirror, refresh, history>>

-----------------------------------------------------------------------------
(* Cloud functions (CF_Code.js).                                           *)

\* lock.self, lock.some, lock.selfAndSome: the first thing a function does.
BeginCode(j, players) ==
    /\ j \in Codes /\ pc[j] = "idle"
    /\ GoTo(j, "asks")
    /\ who' = [who EXCEPT ![j] = players]
    /\ UNCHANGED <<mongo, mirror, refresh, lock, work, step, seen, history>>

\* Mutant: looks for acts that change the profile and no others.
ActsOfProfile(p) == {a \in acts : p \in body[a][ProfileState]}

ActsOf(p) == {a \in acts : p \in Touched(body[a])}

\* Mutant: the player is read without a look at his acts.
CheckNothing(j, p) ==
    /\ j \in Codes /\ pc[j] = "code"
    /\ p \in who[j] \ {Self[j]} /\ p \notin checked[j]
    /\ checked' = [checked EXCEPT ![j] = @ \cup {p}]
    /\ UNCHANGED <<mongo, mirror, refresh, lock, pc, who, work, step, before, history>>

\* getSomeProfileNode and its like for another player: checkAtomicActs under
\* the function's lock.  For the caller himself nothing is checked.
CheckOther(j, p) ==
    /\ j \in Codes /\ pc[j] = "code"
    /\ p \in who[j] \ {Self[j]} /\ p \notin checked[j]
    /\ \/ /\ ActsOf(p) = {}
          /\ checked' = [checked EXCEPT ![j] = @ \cup {p}]
          /\ UNCHANGED <<pc, work>>
       \/ /\ ActsOf(p) # {}
          /\ Fetch(j, ActsOf(p), {p})
          /\ GoTo(j, "checks")
          /\ UNCHANGED checked
    /\ UNCHANGED <<mongo, mirror, refresh, lock, who, step, before, history>>

\* Mutant: the setters take any player.
PermittedUnlocked(j, b) == b[ReceiptsState] \subseteq {Self[j]}

\* The setters want the player locked, a receipt belongs to the caller, a
\* battle journal entry may name anybody.
Permitted(j, b) ==
    /\ b[ProfileState] \cup b[RecordsState] \cup b[ReceiptsState] \subseteq who[j]
    /\ b[ReceiptsState] \subseteq {Self[j]}

\* Mutant: the sequence counter answers without counting.
CommitUncounted(j, b) ==
    /\ j \in Codes /\ pc[j] = "code" /\ counter < MaxId
    /\ Permitted(j, b)
    /\ acts' = acts \cup {counter + 1}
    /\ body' = [body EXCEPT ![counter + 1] = b]
    /\ st' = [st EXCEPT ![counter + 1] = FirstStates(b)]
    /\ todo' = [todo EXCEPT ![j] = {counter + 1}]
    /\ copy' = [copy EXCEPT ![j] = st']
    /\ cs' = [cs EXCEPT ![j] = st']
    /\ targets' = [targets EXCEPT ![j] = Touched(b)]
    /\ GoTo(j, "acts")
    /\ UNCHANGED <<counter, profile, board, done, mirror, refresh, lock, who, step, seen, history>>

\* globalResolver, several documents: changeProfileAndStuff stores the act
\* and goes on to carry it out.
Commit(j, b) ==
    /\ j \in Codes /\ pc[j] = "code" /\ counter < MaxId
    /\ Permitted(j, b)
    /\ counter' = counter + 1
    /\ acts' = acts \cup {counter'}
    /\ body' = [body EXCEPT ![counter'] = b]
    /\ st' = [st EXCEPT ![counter'] = FirstStates(b)]
    /\ todo' = [todo EXCEPT ![j] = {counter'}]
    /\ copy' = [copy EXCEPT ![j] = [NoStates EXCEPT ![counter'] = FirstStates(b)]]
    /\ cs' = [cs EXCEPT ![j] = [NoStates EXCEPT ![counter'] = FirstStates(b)]]
    /\ targets' = [targets EXCEPT ![j] = Touched(b)]
    /\ GoTo(j, "acts")
    /\ UNCHANGED <<profile, board, done, mirror, refresh, lock, who, step, seen, history>>

\* globalResolver, nodes of one profile only: tryToPersistOnlyProfileNodes.
WriteOnly(j, p) ==
    /\ j \in Codes /\ pc[j] = "code" /\ counter < MaxId
    /\ p \in who[j]
    /\ counter' = counter + 1
    /\ profile' = [profile EXCEPT ![p] = counter']
    /\ GoTo(j, "leaves")
    /\ UNCHANGED <<acts, body, st, board, done, mirror, refresh, lock, who, work, step, seen, history>>

\* globalResolver, nothing to persist or the function threw.
EndCode(j) ==
    /\ j \in Codes /\ pc[j] = "code"
    /\ GoTo(j, "leaves")
    /\ UNCHANGED <<mongo, mirror, refresh, lock, who, work, step, seen, history>>

-----------------------------------------------------------------------------
(* getProfile (profiles.js) looks for acts first and asks for the lock of  *)
(* the player only when it found some: checkAtomicActs without a lock.     *)

BeginVisit(j) ==
    /\ j \in Visits /\ pc[j] = "idle"
    /\ before' = [before EXCEPT ![j] = counter]
    /\ \/ /\ ActsOf(Self[j]) = {}
          /\ GoTo(j, "ended")
          /\ UNCHANGED <<who, work>>
       \/ /\ ActsOf(Self[j]) # {}
          /\ Fetch(j, ActsOf(Self[j]), {Self[j]})
          /\ who' = [who EXCEPT ![j] = {Self[j]}]
          /\ GoTo(j, "asks")
    /\ UNCHANGED <<mongo, mirror, refresh, lock, step, checked, history>>

-----------------------------------------------------------------------------
(* atomicActsLoop.                                                         *)

\* Mutant: a lock that its looper left behind stays for ever.
LoopStartOnlyFree(j) ==
    /\ j \in Loopers /\ pc[j] = "idle"
    /\ refresh = NoOne
    /\ refresh' = j
    /\ GoTo(j, "page")
    /\ UNCHANGED <<mongo, mirror, lock, who, work, step, seen, history>>

\* tryToLockAtomicActsRefresh.lua: the lock is free, or it is older than
\* PACKAGE_TIMEOUT, which the looper that has it may still be alive to see.
LoopStart(j) ==
    /\ j \in Loopers /\ pc[j] = "idle"
    /\ refresh # NoOne /\ ~MayRot => pc[refresh] \in {"idle", "dead"}
    /\ refresh' = j
    /\ GoTo(j, "page")
    /\ UNCHANGED <<mongo, mirror, lock, who, work, step, seen, history>>

\* Mutant: the loop takes up acts of any age.
AnyAge(a) == a \in acts

\* Acts are taken up a minute after their creation.  The lock under which an
\* act is created lasts 7.5 s, whether its function is at work on it or gives up.
Aged(a) == \A j \in Codes \cap trusted :
    pc[j] # "aborts" /\ ~(pc[j] = "acts" /\ a \in todo[j])

\* getActsRange and nextPage: from the oldest act on, Batch human ids, up to
\* the youngest that is aged.
Page(youngest) ==
    {a \in acts : a <= youngest /\ \A oldest \in acts : a < oldest + Batch}

\* getHumanIds wants the human ids of everybody the page touches, but hands
\* its callback to `find`, and the driver calls that with a cursor, not with
\* the documents.  What a cursor maps to is no array either, so getLock takes
\* it for one name, '[object Object]': the loop locks no player, and only
\* loops exclude each other.
LoopPage(j) ==
    /\ j \in Loopers /\ pc[j] = "page"
    /\ \/ \E youngest \in acts :
            /\ \A a \in acts : a <= youngest => Aged(a)
            /\ Fetch(j, Page(youngest), Players)
            /\ who' = [who EXCEPT ![j] = {Cursor}]
            /\ GoTo(j, "asks")
       \/ /\ \A oldest \in acts : (\A a \in acts : oldest <= a) => ~Aged(oldest)
          /\ GoTo(j, "unlocks")
          /\ UNCHANGED <<who, work>>
    /\ UNCHANGED <<mongo, mirror, refresh, lock, step, seen, history>>

\* unlockAtomicActsRefresh.lua, by whoever still has it.
LoopUnlock(j) ==
    /\ j \in Loopers /\ pc[j] = "unlocks"
    /\ refresh' = IF refresh = j THEN NoOne ELSE refresh
    /\ GoTo(j, "leaves")
    /\ UNCHANGED <<mongo, mirror, lock, who, work, step, seen, history>>

-----------------------------------------------------------------------------
(* doTheActImplementation.                                                 *)

IsOldest(a, some) == a \in some /\ \A other \in some : a <= other

\* Job j is at work on its copy of act a, the oldest it has left.
Executing(j, a) ==
    /\ pc[j] \in {"checks", "acts"}
    /\ push[j] = NoOne
    /\ IsOldest(a, todo[j])

Pending(j, a) == {p \in targets[j] : cs[j][a][p] = stage[j]}
Entries(j, a) == Pending(j, a) \cap body[a][stage[j]]

\* changedStates[...]++
Advance(j, a, some) ==
    cs' = [cs EXCEPT ![j][a] = [p \in Players |-> IF p \in some THEN @[p] + 1 ELSE @[p]]]

\* findOneAndUpdate of the states that changed, of those only; nothing when
\* somebody deleted the act meanwhile.
SaveTo(j, a) ==
    st' = IF a \notin acts THEN st
          ELSE [st EXCEPT ![a] = [p \in Players |->
                  IF cs[j][a][p] # copy[j][a][p] THEN cs[j][a][p] ELSE @[p]]]

\* updateStatus, before the first write of the stages after the profiles.
SaveStates(j, a) ==
    /\ Executing(j, a)
    /\ stage[j] \in {RecordsState, ReceiptsState, BjeState}
    /\ ~saved[j] /\ Entries(j, a) # {}
    /\ SaveTo(j, a)
    /\ saved' = [saved EXCEPT ![j] = TRUE]
    /\ copy' = [copy EXCEPT ![j][a] = cs[j][a]]
    /\ UNCHANGED <<counter, acts, body, profile, board, done, mirror, refresh, lock,
                   pc, who, todo, cs, targets, stage, push, seen, history>>

\* doPersist of rollUpProfileSets.
ProfileSet(j, a, p) ==
    /\ Executing(j, a)
    /\ stage[j] = ProfileState /\ p \in Entries(j, a)
    /\ profile' = [profile EXCEPT ![p] = a]
    /\ done' = done \cup {<<a, p, ProfileState>>}
    /\ Advance(j, a, {p})
    /\ UNCHANGED <<counter, acts, body, st, board, mirror, refresh, lock,
                   pc, who, todo, copy, targets, step, seen, history>>

\* Mutant: only new records are pushed to Redis.
RecordSetPushNew(j, a, p) ==
    /\ Executing(j, a)
    /\ stage[j] = RecordsState /\ saved[j] /\ p \in Entries(j, a)
    /\ done' = done \cup {<<a, p, RecordsState>>}
    /\ board' = [board EXCEPT ![p] = a]
    /\ \/ board[p] # 0 /\ Advance(j, a, {p}) /\ UNCHANGED push
       \/ board[p] = 0 /\ push' = [push EXCEPT ![j] = p] /\ UNCHANGED cs
    /\ UNCHANGED <<counter, acts, body, st, profile, mirror, refresh, lock,
                   pc, who, todo, copy, targets, stage, saved, seen, history>>

\* checkRecordsInDb and doPersist of rollUpRecordsSets: a record that already
\* has the value is neither written nor pushed to Redis.
RecordSet(j, a, p) ==
    /\ Executing(j, a)
    /\ stage[j] = RecordsState /\ saved[j] /\ p \in Entries(j, a)
    /\ done' = done \cup {<<a, p, RecordsState>>}
    /\ \/ board[p] = a /\ Advance(j, a, {p}) /\ UNCHANGED <<board, push>>
       \/ /\ board[p] # a
          /\ board' = [board EXCEPT ![p] = a]
          /\ push' = [push EXCEPT ![j] = p]
          /\ UNCHANGED cs
    /\ UNCHANGED <<counter, acts, body, st, profile, mirror, refresh, lock,
                   pc, who, todo, copy, targets, stage, saved, seen, history>>

\* getSomeAuxDataForThatPlayer and pushRecordsToOP, whose errors are ignored.
RecordPush(j, a) ==
    /\ push[j] # NoOne /\ IsOldest(a, todo[j])
    /\ \/ mirror' = [mirror EXCEPT ![push[j]] = a] /\ UNCHANGED faults
       \/ MayFail /\ faults < MaxFaults /\ faults' = faults + 1 /\ UNCHANGED mirror
    /\ push' = [push EXCEPT ![j] = NoOne]
    /\ Advance(j, a, {push[j]})
    /\ UNCHANGED <<mongo, refresh, lock, pc, who, todo, copy, targets, stage, saved, seen, rotted>>

\* doPersist of rollUpReceipts, tryToPersistPveBattles and
\* tryToPersistPvpBattles: what is there already is a success.
DocumentAdd(j, a, p) ==
    /\ Executing(j, a)
    /\ stage[j] \in {ReceiptsState, BjeState} /\ saved[j] /\ p \in Entries(j, a)
    /\ done' = done \cup {<<a, p, stage[j]>>}
    /\ Advance(j, a, {p})
    /\ UNCHANGED <<counter, acts, body, st, profile, board, mirror, refresh, lock,
                   pc, who, todo, copy, targets, step, seen, history>>

\* Mutant: players who have a part in this stage are passed over as well.
NextStageEarly(j, a) ==
    /\ Executing(j, a)
    /\ stage[j] \in Stages
    /\ Advance(j, a, Pending(j, a))
    /\ stage' = [stage EXCEPT ![j] = @ + 1]
    /\ saved' = [saved EXCEPT ![j] = FALSE]
    /\ UNCHANGED <<mongo, mirror, refresh, lock, pc, who, todo, copy, targets, push, seen, history>>

\* Players without a part in this stage are done with it.
NextStage(j, a) ==
    /\ Executing(j, a)
    /\ stage[j] \in Stages /\ Entries(j, a) = {}
    /\ Advance(j, a, Pending(j, a))
    /\ stage' = [stage EXCEPT ![j] = @ + 1]
    /\ saved' = [saved EXCEPT ![j] = FALSE]
    /\ UNCHANGED <<mongo, mirror, refresh, lock, pc, who, todo, copy, targets, push, seen, history>>

\* async.series: the next act, or what follows the last one.
AfterAct(j, a) ==
    /\ todo' = [todo EXCEPT ![j] = @ \ {a}]
    /\ stage' = [stage EXCEPT ![j] = ProfileState]
    /\ \/ todo'[j] # {} /\ UNCHANGED <<pc, copy, cs, targets, checked>>
       \/ /\ todo'[j] = {}
          /\ DropCopies(j)
          /\ GoTo(j, IF pc[j] = "checks" THEN "code"
                     ELSE IF j \in Loopers THEN "unlocks" ELSE "leaves")
          /\ checked' = IF pc[j] = "checks"
                        THEN [checked EXCEPT ![j] = @ \cup targets[j]] ELSE checked
    /\ UNCHANGED <<who, saved, push, before>>

\* Mutant: the act is deleted when the players worked on are done.
FinishForTargets(j, a) ==
    /\ Executing(j, a)
    /\ stage[j] = DoneState
    /\ acts' = acts \ {a}
    /\ AfterAct(j, a)
    /\ UNCHANGED <<counter, body, st, profile, board, done, mirror, refresh, lock, history>>

\* tryToDoneAct: delete the act when every player is done, else save.
FinishAct(j, a) ==
    /\ Executing(j, a)
    /\ stage[j] = DoneState
    /\ IF \A p \in Players : cs[j][a][p] = DoneState
       THEN acts' = acts \ {a} /\ UNCHANGED st
       ELSE SaveTo(j, a) /\ UNCHANGED acts
    /\ AfterAct(j, a)
    /\ UNCHANGED <<counter, body, profile, board, done, mirror, refresh, lock, history>>

-----------------------------------------------------------------------------
(* Faults.                                                                 *)

Fault == faults < MaxFaults /\ faults' = faults + 1

\* A command fails, or its reply is lost: the job forgets what it was doing,
\* returns its lock if it has one and answers with an error.
Fail(j) ==
    /\ MayFail /\ Fault
    /\ pc[j] \in {"asks", "checks", "acts", "page", "unlocks"}
    /\ GoTo(j, "aborts")
    /\ Forget(j)
    /\ UNCHANGED <<mongo, mirror, refresh, lock, rotted>>

\* A process dies; its lock stays until it expires.
Crash(j) ==
    /\ MayCrash /\ Fault
    /\ pc[j] \notin {"idle", "ended", "failed", "dead"}
    /\ Lease!Lapse({j}, {})
    /\ GoTo(j, "dead")
    /\ Forget(j)
    /\ UNCHANGED <<mongo, mirror, refresh, rotted>>

Expire(j) ==
    /\ pc[j] = "dead" /\ holding[j] # {}
    /\ Lease!Lapse({}, {j})
    /\ UNCHANGED <<mongo, mirror, refresh, pc, who, work, step, seen, history>>

Restart(j) ==
    /\ j \in Loopers /\ pc[j] = "dead" /\ holding[j] = {}
    /\ GoTo(j, "idle")
    /\ UNCHANGED <<mongo, mirror, refresh, lock, who, work, step, seen, history>>

\* The lock expires while its holder is at work.  No write is fenced by it.
RotLock(j) ==
    /\ MayRot /\ Fault
    /\ j \in trusted
    /\ Lease!Lapse({j}, {j})
    /\ rotted' = TRUE
    /\ UNCHANGED <<mongo, mirror, refresh, pc, who, work, step, seen>>

-----------------------------------------------------------------------------
\* What a job does once it has begun, as far as nothing goes wrong.
Progress(j) ==
    \/ TakeLock(j) \/ LockRefused(j) \/ ReturnLock(j)
    \/ \E p \in Players : CheckOther(j, p) \/ WriteOnly(j, p)
    \/ \E b \in Bodies : Commit(j, b)
    \/ EndCode(j)
    \/ LoopStart(j) \/ LoopPage(j) \/ LoopUnlock(j)
    \/ \E a \in Ids :
          \/ SaveStates(j, a) \/ RecordPush(j, a) \/ NextStage(j, a) \/ FinishAct(j, a)
          \/ \E p \in Players : ProfileSet(j, a, p) \/ RecordSet(j, a, p) \/ DocumentAdd(j, a, p)
    \/ Expire(j) \/ Restart(j)

Begin(j) == BeginVisit(j) \/ \E players \in (SUBSET Players) \ {{}} : BeginCode(j, players)

Next == \E j \in Jobs : Begin(j) \/ Progress(j) \/ Fail(j) \/ Crash(j) \/ RotLock(j)

Spec == Init /\ [][Next]_vars

\* A job that has begun goes on; requests keep coming, so the loop is run;
\* locks of dead processes expire and processes are restarted.
FairSpec == Spec /\ \A j \in Jobs : WF_vars(Progress(j))

-----------------------------------------------------------------------------
(* Safety.                                                                 *)

\* `st` never runs ahead of the stores: a part that `st` counts as over was
\* applied, whoever carries the act on, from however old a copy, and wherever
\* the others failed.  Otherwise nobody would ever apply that part.
StateIsDone ==
    \A a \in acts, p \in Players, s \in Stages :
        p \in body[a][s] /\ st[a][p] > s => <<a, p, s>> \in done

\* An act is deleted only when all of it was applied: the transaction is
\* carried out as a whole although several jobs with different targetPids
\* work on different copies of it.
DeletedIsDone ==
    \A a \in (1..counter) \ acts, s \in Stages : \A p \in body[a][s] :
        <<a, p, s>> \in done

\* A getProfile that succeeds returns a profile to which every act stored
\* before the call was applied, the acts of failed and dead functions too.
VisitSeesAll ==
    \A j \in Visits : pc[j] = "ended" =>
        \A a \in 1..before[j], s \in Stages :
            Self[j] \in body[a][s] => <<a, Self[j], s>> \in done

\* What a cloud function has read of another player stays current until the
\* function ends: no act that waits to change it can appear, as long as no
\* lock expires under a living job.  (Journal entries need no lock.)
CheckedIsCurrent ==
    \A j \in Codes : pc[j] = "code" /\ ~rotted =>
        \A p \in checked[j], a \in acts, s \in Stages \ {BjeState} :
            p \in body[a][s] => <<a, p, s>> \in done

\* As long as a function or a visit has a good lock on a player, nobody else
\* writes the profile of that player.  The loop does not keep to this.
OnlyHolderWrites ==
    [][\A j \in trusted \ Loopers, p \in Players :
          p \in holding[j] /\ profile'[p] # profile[p] /\ ~rotted =>
              pc'[j] # pc[j] \/ cs'[j] # cs[j]]_vars

\* Without faults the leaderboards in Redis show what MongoDB has, whenever no
\* record of the player is between the two.
LeaderboardAgrees ==
    faults = 0 => \A p \in Players :
        (\A j \in Jobs : push[j] # p) => mirror[p] = board[p]

\* Cloud functions and the loop, without faults, change a profile in the order
\* in which they persisted: none of them writes from a stale copy.  The loop
\* owes that to the age of the acts it takes up.
FunctionsSerialise ==
    [][faults' = 0 => \A p \in Players : profile'[p] >= profile[p]]_vars

\* What was written to a profile is not replaced by something older: the
\* isolation a transaction under the locks of its players would give.
NoUpdateLost == [][\A p \in Players : profile'[p] >= profile[p]]_vars

-----------------------------------------------------------------------------
(* Liveness.                                                               *)

\* Every act that was stored is carried out to the end, whoever fails or dies.
EveryActEnds == \A a \in Ids : a \in acts ~> a \notin acts
=============================================================================
