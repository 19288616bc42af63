--------------------------- MODULE ActLocksProofs ---------------------------
(***************************************************************************)
(* Theorems about what the locks do for atomic acts: what a function has   *)
(* read stays current, only the holder of a player writes his profile, and *)
(* as long as nothing fails profiles are written in the order of the acts  *)
(* and the leaderboards follow the records.                                *)
(*                                                                         *)
(* The argument: a job at work holds the names it asked for and writes to  *)
(* players among them only (LockInv).  Without faults an act that is there *)
(* has its creator at work on it (Faultless), so that the loop finds no    *)
(* act that is old enough, and nobody else has an act that writes.         *)
(***************************************************************************)
EXTENDS AtomicActsProofs

USE JobsAssumption, BoundsAssumption, BodiesAssumption, SwitchesAssumption
    DEF Stages, States, ProfileState, RecordsState, ReceiptsState, BjeState, DoneState

Working == {"code", "checks", "acts"}
LockedStages == {ProfileState, RecordsState, ReceiptsState}

LeasesDisjoint == \A j, k \in Jobs : j # k => holding[j] \cap holding[k] = {}

\* A job at work holds what it asked for, unless a lock expired under some job.
LocksKept ==
    ~rotted => \A j \in Jobs : pc[j] \in Working => j \in trusted /\ holding[j] = who[j]

\* Only functions look at other players; what a job may write is locked by it.
KeepsToItsNames ==
    /\ \A j \in Jobs : pc[j] \in {"code", "checks"} => j \in Codes
    /\ \A j \in Codes : /\ checked[j] \subseteq who[j]
                        /\ pc[j] \in {"idle", "asks"} => checked[j] = {}
                        /\ pc[j] = "checks" => targets[j] \subseteq who[j]
                        /\ pc[j] = "acts" => \A a \in todo[j], s \in LockedStages :
                                                body[a][s] \subseteq who[j]
    /\ \A j \in Visits : pc[j] \in {"asks", "acts"} =>
                            who[j] = {Self[j]} /\ targets[j] = {Self[j]}

LockInv == LeasesDisjoint /\ LocksKept /\ KeepsToItsNames

(***************************************************************************)
(* Jobs hold what they asked for.                                          *)
(***************************************************************************)

\* Nothing that LockInv is about changes, but the place of a job that stays
\* where it was or stops working.
LockQuiet(j) ==
    /\ UNCHANGED <<holding, trusted, who, todo, targets, checked, body, rotted>>
    /\ \A k \in Jobs \ {j} : pc'[k] = pc[k]
    /\ \/ pc'[j] = pc[j]
       \/ /\ pc[j] \notin {"checks", "acts"}
          /\ pc'[j] \in {"leaves", "page", "unlocks"} \/ (pc'[j] = "idle" /\ j \notin Codes)

\* The steps that LockQuiet does not cover.
LockKind(j) ==
    \/ TakeLock(j) \/ LockRefused(j) \/ ReturnLock(j) \/ Fail(j) \/ Crash(j)
    \/ Expire(j) \/ RotLock(j) \/ LoopPage(j) \/ BeginVisit(j)
    \/ \E players \in SUBSET Players : BeginCode(j, players)
    \/ \E p \in Players : CheckOther(j, p)
    \/ \E b \in Bodies : Commit(j, b)
    \/ \E a \in Ids : FinishAct(j, a)

\* Every step is one that leaves the locks alone or one of these.
LEMMA LockKinds ==
    ASSUME TypeOK, [Next]_vars
    PROVE  \/ UNCHANGED vars
           \/ \E j \in Jobs : LockQuiet(j) \/ LockKind(j)
<1>t. pc \in [Jobs -> PCs]
  BY DEF TypeOK
<1> USE DEF mongo, lock, work, step, seen, history, GoTo
<1>1. ASSUME NEW j \in Jobs, EndCode(j) \/ LoopStart(j) \/ LoopUnlock(j) \/ Restart(j)
      PROVE  LockQuiet(j)
  BY <1>t, <1>1 DEF EndCode, LoopStart, LoopUnlock, Restart, LockQuiet
<1>2. ASSUME NEW j \in Jobs, NEW p \in Players, WriteOnly(j, p) PROVE LockQuiet(j)
  BY <1>t, <1>2 DEF WriteOnly, LockQuiet
<1>3. ASSUME NEW j \in Jobs, NEW a \in Ids,
             SaveStates(j, a) \/ RecordPush(j, a) \/ NextStage(j, a) PROVE LockQuiet(j)
  <2>1. UNCHANGED <<holding, trusted, who, todo, targets, checked, body, rotted, pc>>
    <3>1. CASE SaveStates(j, a)
      BY <3>1 DEF SaveStates
    <3>2. CASE RecordPush(j, a)
      BY <3>2 DEF RecordPush
    <3>3. CASE NextStage(j, a)
      BY <3>3 DEF NextStage
    <3> QED  BY <1>3, <3>1, <3>2, <3>3
  <2> QED  BY <2>1 DEF LockQuiet
<1>4. ASSUME NEW j \in Jobs, NEW a \in Ids, NEW p \in Players, Applies(j, a, p) PROVE LockQuiet(j)
  <2>1. UNCHANGED <<holding, trusted, who, todo, targets, checked, body, rotted, pc>>
    <3>1. CASE ProfileSet(j, a, p)
      BY <3>1 DEF ProfileSet
    <3>2. CASE RecordSet(j, a, p)
      BY <3>2 DEF RecordSet
    <3>3. CASE DocumentAdd(j, a, p)
      BY <3>3 DEF DocumentAdd
    <3> QED  BY <1>4, <3>1, <3>2, <3>3 DEF Applies
  <2> QED  BY <2>1 DEF LockQuiet
<1> HIDE DEF mongo, lock, work, step, seen, history, GoTo
<1>5. ASSUME NEW j \in Jobs, Begin(j) \/ Progress(j) \/ Fail(j) \/ Crash(j) \/ RotLock(j)
      PROVE  LockQuiet(j) \/ LockKind(j)
  <2>1. CASE Begin(j)
    BY <2>1 DEF Begin, LockKind
  <2>2. CASE Progress(j)
    BY <1>1, <1>2, <1>3, <1>4, <2>2 DEF Progress, LockKind, Applies
  <2>3. CASE Fail(j) \/ Crash(j) \/ RotLock(j)
    BY <2>3 DEF LockKind
  <2> QED  BY <1>5, <2>1, <2>2, <2>3
<1> QED  BY <1>5 DEF Next

\* Steps that change neither locks nor what is asked for keep LockInv.
LEMMA LockQuietStep ==
    ASSUME TypeOK, LockInv, NEW j \in Jobs, LockQuiet(j)
    PROVE  LockInv'
<1>1. LeasesDisjoint'
  BY DEF LockInv, LeasesDisjoint, LockQuiet
<1>2. \A k \in Jobs : pc'[k] \in {"code", "checks", "acts", "asks"} => pc'[k] = pc[k]
  BY DEF LockQuiet
<1>3. LocksKept'
  BY <1>2 DEF LockInv, LocksKept, LockQuiet, Working
<1>4. \A k \in Codes : pc'[k] = "idle" => pc[k] = "idle"
  BY DEF LockQuiet, Jobs
<1>5. KeepsToItsNames'
  BY <1>2, <1>4 DEF LockInv, KeepsToItsNames, LockQuiet, Jobs
<1> QED  BY <1>1, <1>3, <1>5 DEF LockInv

\* What the steps of the lease do to each job.
LEMMA LeaseValue ==
    ASSUME TypeOK, NEW j \in Jobs
    PROVE  /\ Lease!Take(j, who[j]) =>
                /\ \A k \in Jobs \ {j} : holding[k] \cap who[j] = {} /\ holding'[k] = holding[k]
                /\ holding'[j] = who[j]
           /\ Lease!Lapse({j}, {j}) \/ Lease!Lapse({j}, {}) \/ Lease!Lapse({}, {j}) =>
                /\ \A k \in Jobs : holding'[k] \subseteq holding[k]
                /\ \A k \in Jobs \ {j} : holding'[k] = holding[k] /\ (k \in trusted => k \in trusted')
BY ZenonT(60) DEF TypeOK, Lease!Take, Lease!Lapse

\* What a job that forgets leaves of the rest.
LEMMA ForgetRest ==
    ASSUME TypeOK, NEW j \in Jobs, Forget(j)
    PROVE  /\ \A k \in Jobs \ {j} : who'[k] = who[k] /\ checked'[k] = checked[k]
           /\ who'[j] = {} /\ checked'[j] = {}
BY DEF TypeOK, Forget

\* A job that gives up keeps LockInv.
LEMMA LockDropStep ==
    ASSUME TypeOK, LockInv, NEW j \in Jobs, Forget(j), UNCHANGED <<body, rotted>>,
           \A k \in Jobs \ {j} : pc'[k] = pc[k],
           pc'[j] \in {"idle", "failed", "ended", "aborts", "dead"},
           \/ UNCHANGED <<holding, trusted>>
           \/ Lease!Lapse({j}, {j}) \/ Lease!Lapse({j}, {})
    PROVE  LockInv'
<1>1. /\ \A k \in Jobs : holding'[k] \subseteq holding[k]
      /\ \A k \in Jobs \ {j} : holding'[k] = holding[k] /\ (k \in trusted => k \in trusted')
  BY LeaseValue
<1>2. LeasesDisjoint'
  BY <1>1 DEF LockInv, LeasesDisjoint
<1>3. LocksKept'
  BY <1>1, ForgetRest DEF LockInv, LocksKept, Working
<1>4. KeepsToItsNames'
  BY ForgetRest, ForgetValue DEF LockInv, KeepsToItsNames, Jobs
<1> QED  BY <1>2, <1>3, <1>4 DEF LockInv

\* Init has LockInv.
LEMMA LockInit == Init => LockInv
<1> SUFFICES ASSUME Init PROVE LockInv
  OBVIOUS
<1>1. LeasesDisjoint
  BY DEF Init, Lease!Init, LeasesDisjoint
<1>2. \A j \in Jobs : pc[j] = "idle" /\ checked[j] = {}
  BY DEF Init
<1>3. LocksKept /\ KeepsToItsNames
  BY <1>2 DEF LocksKept, KeepsToItsNames, Working, Jobs
<1> QED  BY <1>1, <1>3 DEF LockInv

\* Every step keeps LockInv.
LEMMA LockStep ==
    ASSUME IInv, LockInv, [Next]_vars PROVE LockInv'
<1>t. TypeOK /\ pc \in [Jobs -> PCs]
  BY DEF IInv, TypeOK
<1> USE DEF mongo, lock, work, step, seen, history, GoTo
<1>1. ASSUME NEW j \in Jobs, TakeLock(j) PROVE LockInv'
  <2>1. /\ \A k \in Jobs \ {j} : /\ holding[k] \cap who[j] = {}
                                 /\ holding'[k] = holding[k] /\ pc'[k] = pc[k]
        /\ holding'[j] = who[j] /\ trusted' = trusted \cup {j}
        /\ pc'[j] = IF j \in Codes THEN "code" ELSE "acts"
        /\ pc[j] = "asks"
        /\ UNCHANGED <<who, todo, targets, checked, body, rotted>>
    BY ZenonT(60), <1>t, <1>1, LeaseValue DEF TakeLock
  <2>2. LeasesDisjoint'
    BY <2>1 DEF LockInv, LeasesDisjoint
  <2>3. LocksKept'
    BY <2>1 DEF LockInv, LocksKept
  <2>4. KeepsToItsNames'
    BY <2>1 DEF LockInv, KeepsToItsNames, Jobs
  <2> QED  BY <2>2, <2>3, <2>4 DEF LockInv
<1>2. ASSUME NEW j \in Jobs, LockRefused(j) \/ ReturnLock(j) \/ Fail(j) \/ Crash(j) PROVE LockInv'
  <2>1. /\ Forget(j) /\ UNCHANGED <<body, rotted>>
        /\ \A k \in Jobs \ {j} : pc'[k] = pc[k]
        /\ pc'[j] \in {"idle", "failed", "ended", "aborts", "dead"}
        /\ \/ UNCHANGED <<holding, trusted>>
           \/ Lease!Lapse({j}, {j}) \/ Lease!Lapse({j}, {})
    <3>1. CASE LockRefused(j)
      BY <1>t, <3>1 DEF LockRefused
    <3>2. CASE ReturnLock(j)
      BY <1>t, <3>2 DEF ReturnLock
    <3>3. CASE Fail(j)
      BY <1>t, <3>3 DEF Fail
    <3>4. CASE Crash(j)
      BY <1>t, <3>4 DEF Crash
    <3> QED  BY <1>2, <3>1, <3>2, <3>3, <3>4
  <2> QED  BY SMTT(60), <1>t, <2>1, LockDropStep
<1>3. ASSUME NEW j \in Jobs, NEW players \in SUBSET Players, BeginCode(j, players) PROVE LockInv'
  <2>1. /\ j \in Codes /\ pc[j] = "idle" /\ pc'[j] = "asks"
        /\ \A k \in Jobs \ {j} : pc'[k] = pc[k] /\ who'[k] = who[k]
        /\ UNCHANGED <<holding, trusted, todo, targets, checked, body, rotted>>
    BY <1>t, <1>3 DEF BeginCode, TypeOK
  <2>2. LeasesDisjoint' /\ LocksKept'
    BY <2>1 DEF LockInv, LeasesDisjoint, LocksKept, Working
  <2>3. KeepsToItsNames'
    BY <2>1 DEF LockInv, KeepsToItsNames, Jobs
  <2> QED  BY <2>2, <2>3 DEF LockInv
<1>4. ASSUME NEW j \in Jobs, NEW p \in Players, CheckOther(j, p) PROVE LockInv'
  <2>1. /\ j \in Codes /\ pc[j] = "code" /\ p \in who[j]
        /\ UNCHANGED <<holding, trusted, who, body, rotted>>
    BY <1>4 DEF CheckOther
  <2>2. LeasesDisjoint'
    BY <2>1 DEF LockInv, LeasesDisjoint
  <2>3. CASE checked' = [checked EXCEPT ![j] = @ \cup {p}] /\ UNCHANGED <<pc, work>>
    <3>1. checked'[j] = checked[j] \cup {p} /\ \A k \in Jobs \ {j} : checked'[k] = checked[k]
      BY <1>t, <2>3 DEF TypeOK
    <3>2. LocksKept' /\ KeepsToItsNames'
      BY <2>1, <2>3, <3>1 DEF LockInv, LocksKept, KeepsToItsNames, Jobs
    <3> QED  BY <2>2, <3>2 DEF LockInv
  <2>4. CASE Fetch(j, ActsOf(p), {p}) /\ GoTo(j, "checks") /\ UNCHANGED checked
    <3>1. /\ pc'[j] = "checks" /\ targets'[j] = {p}
          /\ \A k \in Jobs \ {j} : pc'[k] = pc[k] /\ targets'[k] = targets[k] /\ todo'[k] = todo[k]
      BY <1>t, <2>4, FetchValue
    <3>2. LocksKept'
      BY <2>1, <3>1 DEF LockInv, LocksKept, Working
    <3>3. KeepsToItsNames'
      BY <2>1, <2>4, <3>1 DEF LockInv, KeepsToItsNames, Jobs
    <3> QED  BY <2>2, <3>2, <3>3 DEF LockInv
  <2> QED  BY <1>4, <2>3, <2>4 DEF CheckOther
<1>5. ASSUME NEW j \in Jobs, LockQuiet(j) PROVE LockInv'
  BY <1>t, <1>5, LockQuietStep
<1>6. ASSUME NEW j \in Jobs, Expire(j) PROVE LockInv'
  <2>1. /\ pc[j] = "dead" /\ UNCHANGED <<pc, who, todo, targets, checked, body, rotted>>
        /\ Lease!Lapse({}, {j})
    BY <1>6 DEF Expire
  <2>2. /\ \A k \in Jobs : holding'[k] \subseteq holding[k]
        /\ \A k \in Jobs \ {j} : holding'[k] = holding[k] /\ (k \in trusted => k \in trusted')
    BY <1>t, <2>1, LeaseValue
  <2>3. LeasesDisjoint' /\ LocksKept'
    BY <2>1, <2>2 DEF LockInv, LeasesDisjoint, LocksKept, Working
  <2>4. KeepsToItsNames'
    BY <2>1 DEF LockInv, KeepsToItsNames
  <2> QED  BY <2>3, <2>4 DEF LockInv
<1>7. ASSUME NEW j \in Jobs, RotLock(j) PROVE LockInv'
  <2>1. /\ rotted' = TRUE /\ UNCHANGED <<pc, who, todo, targets, checked, body>>
        /\ \A k \in Jobs : holding'[k] \subseteq holding[k]
    BY <1>t, <1>7, LeaseValue DEF RotLock
  <2>2. LeasesDisjoint'
    BY <2>1 DEF LockInv, LeasesDisjoint
  <2>3. LocksKept'
    BY <2>1 DEF LocksKept
  <2>4. KeepsToItsNames'
    BY <2>1 DEF LockInv, KeepsToItsNames
  <2> QED  BY <2>2, <2>3, <2>4 DEF LockInv
<1>8. ASSUME NEW j \in Jobs, LoopPage(j) PROVE LockInv'
  <2>1. /\ j \in Loopers /\ j \notin Codes /\ j \notin Visits /\ pc[j] = "page"
        /\ UNCHANGED <<holding, trusted, checked, body, rotted>>
    BY <1>8 DEF LoopPage
  <2>2. ASSUME NEW some \in SUBSET acts, Fetch(j, some, Players),
               who' = [who EXCEPT ![j] = {Cursor}], GoTo(j, "asks")
        PROVE  LockInv'
    <3>1. /\ pc'[j] = "asks"
          /\ \A k \in Jobs \ {j} : /\ pc'[k] = pc[k] /\ targets'[k] = targets[k]
                                   /\ todo'[k] = todo[k] /\ who'[k] = who[k]
      BY <1>t, <2>2, FetchValue DEF TypeOK
    <3>2. LeasesDisjoint' /\ LocksKept'
      BY <2>1, <3>1 DEF LockInv, LeasesDisjoint, LocksKept, Working
    <3>3. KeepsToItsNames'
      BY <2>1, <3>1 DEF LockInv, KeepsToItsNames, Jobs
    <3> QED  BY <3>2, <3>3 DEF LockInv
  <2>3. ASSUME GoTo(j, "unlocks"), UNCHANGED <<who, work>> PROVE LockInv'
    <3>1. LockQuiet(j)
      BY <1>t, <2>1, <2>3 DEF LockQuiet
    <3> QED  BY <1>t, <3>1, LockQuietStep
  <2>4. \A youngest \in acts : Page(youngest) \in SUBSET acts
    BY DEF Page
  <2> QED  BY <1>8, <2>2, <2>3, <2>4 DEF LoopPage
<1>9. ASSUME NEW j \in Jobs, BeginVisit(j) PROVE LockInv'
  <2>1. /\ j \in Visits /\ j \notin Codes /\ pc[j] = "idle"
        /\ \A k \in Jobs \ {j} : pc'[k] = pc[k]
        /\ UNCHANGED <<holding, trusted, checked, body, rotted>>
    BY <1>t, <1>9 DEF BeginVisit
  <2>2. CASE pc'[j] = "ended" /\ UNCHANGED <<who, work>>
    <3>1. LeasesDisjoint' /\ LocksKept'
      BY <2>1, <2>2 DEF LockInv, LeasesDisjoint, LocksKept, Working
    <3>2. KeepsToItsNames'
      BY <2>1, <2>2 DEF LockInv, KeepsToItsNames, Jobs
    <3> QED  BY <3>1, <3>2 DEF LockInv
  <2>3. CASE /\ Fetch(j, ActsOf(Self[j]), {Self[j]})
             /\ who' = [who EXCEPT ![j] = {Self[j]}]
             /\ pc'[j] = "asks"
    <3>1. /\ targets'[j] = {Self[j]} /\ who'[j] = {Self[j]}
          /\ \A k \in Jobs \ {j} : /\ targets'[k] = targets[k]
                                   /\ todo'[k] = todo[k] /\ who'[k] = who[k]
      BY <1>t, <2>3, FetchValue DEF TypeOK
    <3>2. LeasesDisjoint' /\ LocksKept'
      BY <2>1, <2>3, <3>1 DEF LockInv, LeasesDisjoint, LocksKept, Working
    <3>3. KeepsToItsNames'
      BY <2>1, <2>3, <3>1 DEF LockInv, KeepsToItsNames, Jobs
    <3> QED  BY <3>2, <3>3 DEF LockInv
  <2> QED  BY <1>t, <1>9, <2>2, <2>3 DEF BeginVisit
<1>11. ASSUME NEW j \in Jobs, NEW b \in Bodies, Commit(j, b) PROVE LockInv'
  <2>1. /\ j \in Codes /\ pc[j] = "code" /\ pc'[j] = "acts"
        /\ \A k \in Jobs \ {j} : pc'[k] = pc[k] /\ todo'[k] = todo[k] /\ targets'[k] = targets[k]
        /\ UNCHANGED <<holding, trusted, who, checked, rotted>>
        /\ todo'[j] = {counter + 1} /\ counter + 1 \in Ids
        /\ body'[counter + 1] = b /\ \A a \in 1 .. counter : body'[a] = body[a]
    BY SMTT(60), <1>t, <1>11 DEF Commit, TypeOK, Ids
  <2>2. LeasesDisjoint' /\ LocksKept'
    BY <2>1 DEF LockInv, LeasesDisjoint, LocksKept, Working
  <2>3. \A s \in LockedStages : b[s] \subseteq who[j]
    <3>1. Permitted(j, b) /\ checked[j] \subseteq who[j]
      BY <1>11, <2>1 DEF Commit, LockInv, KeepsToItsNames
    <3> QED  BY <3>1 DEF Permitted, LockedStages
  <2>4. \A k \in Jobs : todo[k] \subseteq 1 .. counter
    BY <1>t, CountsType DEF IInv, CopiesSound, Ids
  <2>5. KeepsToItsNames'
    BY <2>1, <2>3, <2>4 DEF LockInv, KeepsToItsNames, Jobs
  <2> QED  BY <2>2, <2>5 DEF LockInv
<1>13. ASSUME NEW j \in Jobs, NEW a \in Ids, FinishAct(j, a) PROVE LockInv'
  <2>1. /\ AfterAct(j, a) /\ pc[j] \in {"checks", "acts"}
        /\ UNCHANGED <<holding, trusted, who, body, rotted>>
    BY <1>13 DEF FinishAct, AfterAct, Executing
  <2>2. /\ \A k \in Jobs \ {j} : /\ pc'[k] = pc[k] /\ todo'[k] = todo[k]
                                 /\ targets'[k] = targets[k] /\ checked'[k] = checked[k]
        /\ todo'[j] = todo[j] \ {a}
        /\ todo'[j] # {} => /\ pc'[j] = pc[j] /\ targets'[j] = targets[j]
                            /\ checked'[j] = checked[j]
        /\ todo'[j] = {} => /\ pc'[j] = IF pc[j] = "checks" THEN "code"
                                        ELSE IF j \in Loopers THEN "unlocks" ELSE "leaves"
                            /\ checked'[j] = IF pc[j] = "checks" THEN checked[j] \cup targets[j]
                                             ELSE checked[j]
    <3>1. checked' = checked \/ checked' = [checked EXCEPT ![j] = @ \cup targets[j]]
      BY <2>1 DEF AfterAct
    <3>2. /\ \A k \in Jobs \ {j} : checked'[k] = checked[k]
          /\ todo'[j] # {} => checked'[j] = checked[j]
          /\ todo'[j] = {} => checked'[j] = IF pc[j] = "checks" THEN checked[j] \cup targets[j]
                                            ELSE checked[j]
      BY ONLY ZenonT(60), <1>t, <2>1, <3>1 DEF AfterAct, TypeOK
    <3> QED  BY <1>t, <2>1, <3>2, AfterValue
  <2>3. LeasesDisjoint' /\ LocksKept'
    BY <2>1, <2>2 DEF LockInv, LeasesDisjoint, LocksKept, Working
  <2>4. KeepsToItsNames'
    BY <2>1, <2>2 DEF LockInv, KeepsToItsNames, Jobs
  <2> QED  BY <2>3, <2>4 DEF LockInv
<1>14. CASE UNCHANGED vars
  BY <1>14 DEF vars, LockInv, LeasesDisjoint, LocksKept, KeepsToItsNames
<1> HIDE DEF mongo, lock, work, step, seen, history, GoTo
<1>15. ASSUME NEW j \in Jobs, LockKind(j) PROVE LockInv'
  BY <1>1, <1>2, <1>3, <1>4, <1>6, <1>7, <1>8, <1>9, <1>11, <1>13, <1>15 DEF LockKind
<1> QED  BY <1>t, <1>5, <1>14, <1>15, LockKinds

(***************************************************************************)
(* What a function has read of others stays current.                       *)
(***************************************************************************)

\* The players whose acts a function carried on, or is about to.
Seen(j) == checked[j] \cup (IF pc[j] = "checks" THEN targets[j] ELSE {})

\* No act waits to change a player the function has looked at, but those that
\* it has in hand.
SeenIsCurrent ==
    ~rotted => \A j \in Codes : pc[j] \in {"code", "checks"} =>
        \A p \in Seen(j), a \in acts, s \in LockedStages : p \in body[a][s] =>
            \/ <<a, p, s>> \in done
            \/ pc[j] = "checks" /\ p \in targets[j] /\ a \in todo[j]

\* Acts appear by a Commit only.
LEMMA ActsShrink ==
    ASSUME TypeOK, [Next]_vars
    PROVE  acts' \subseteq acts \/ \E j \in Jobs, b \in Bodies : Commit(j, b)
<1> USE DEF mongo
<1>1. CASE Quiet
  BY <1>1 DEF Quiet
<1>2. ASSUME NEW j \in Jobs, Takes(j) \/ Drops(j) \/ BeginVisit(j) PROVE acts' = acts
  BY <1>2 DEF Takes, Drops, BeginVisit
<1>3. ASSUME NEW j \in Jobs, NEW p \in Players, WriteOnly(j, p) PROVE acts' = acts
  BY <1>3 DEF WriteOnly
<1>4. ASSUME NEW j \in Jobs, NEW a \in Ids,
             SaveStates(j, a) \/ RecordPush(j, a) \/ NextStage(j, a) \/ FinishAct(j, a)
      PROVE  acts' \subseteq acts
  BY <1>4 DEF SaveStates, RecordPush, NextStage, FinishAct
<1>5. ASSUME NEW j \in Jobs, NEW a \in Ids, NEW p \in Players, Applies(j, a, p) PROVE acts' = acts
  BY <1>5 DEF Applies, ProfileSet, RecordSet, DocumentAdd
<1> QED  BY <1>1, <1>2, <1>3, <1>4, <1>5, Kinds DEF Kind

\* What FinishAct does to a function that looks at another player.
LEMMA CheckedValue ==
    ASSUME TypeOK, NEW j \in Jobs, NEW a \in Ids, AfterAct(j, a)
    PROVE  /\ \A k \in Jobs \ {j} : checked'[k] = checked[k]
           /\ todo'[j] # {} => checked'[j] = checked[j]
           /\ todo'[j] = {} => checked'[j] = IF pc[j] = "checks" THEN checked[j] \cup targets[j]
                                             ELSE checked[j]
<1>1. \/ checked' = checked /\ (todo'[j] # {} \/ pc[j] # "checks")
      \/ checked' = [checked EXCEPT ![j] = @ \cup targets[j]] /\ todo'[j] = {} /\ pc[j] = "checks"
  BY DEF AfterAct
<1> QED  BY ZenonT(60), <1>1 DEF TypeOK

\* Every step keeps SeenIsCurrent.
LEMMA SeenStep ==
    ASSUME IInv, LockInv, SeenIsCurrent, [Next]_vars PROVE SeenIsCurrent'
<1>t. TypeOK /\ pc \in [Jobs -> PCs] /\ Grows /\ LockInv' /\ acts \subseteq 1 .. counter
  <2>1. TypeOK
    BY DEF IInv
  <2> QED  BY <2>1, GrowsStep, LockStep DEF TypeOK
<1> SUFFICES ASSUME ~rotted', NEW v \in Codes, pc'[v] \in {"code", "checks"},
                    NEW q \in Seen(v)', NEW b \in acts', NEW s \in LockedStages, q \in body'[b][s]
             PROVE  \/ <<b, q, s>> \in done'
                    \/ pc'[v] = "checks" /\ q \in targets'[v] /\ b \in todo'[v]
  BY DEF SeenIsCurrent
<1> DEFINE Goal == \/ <<b, q, s>> \in done'
                   \/ pc'[v] = "checks" /\ q \in targets'[v] /\ b \in todo'[v]
<1> SUFFICES Goal
  OBVIOUS
<1>v. v \in Jobs /\ v \notin Visits /\ v \notin Loopers
  BY DEF Jobs
\* An act that was there, of a player that was seen.
<1>1. ASSUME b \in acts, q \in Seen(v), ~rotted, pc[v] \in {"code", "checks"}
      PROVE  \/ <<b, q, s>> \in done'
             \/ pc[v] = "checks" /\ q \in targets[v] /\ b \in todo[v]
  <2>1. q \in body[b][s] /\ done \subseteq done'
    BY <1>t, <1>1 DEF Grows
  <2> QED  BY <1>1, <2>1 DEF SeenIsCurrent
\* Nothing changed for the function.
<1>2. ASSUME pc'[v] = pc[v], todo'[v] = todo[v], targets'[v] = targets[v],
             checked'[v] = checked[v], ~rotted, b \in acts
      PROVE  Goal
  <2>1. q \in Seen(v)
    BY <1>2 DEF Seen
  <2> QED  BY <1>1, <1>2, <2>1
<1> HIDE DEF Goal
<1> USE DEF mongo, lock, work, step, seen, history, GoTo
<1>3. CASE \E j \in Jobs, d \in Bodies : Commit(j, d)
  <2>1. PICK j \in Jobs, d \in Bodies : Commit(j, d)
    BY <1>3
  <2>2. /\ pc'[j] = "acts" /\ pc[j] = "code" /\ j \in Codes /\ Permitted(j, d)
        /\ acts' = acts \cup {counter + 1} /\ body'[counter + 1] = d
        /\ UNCHANGED <<holding, who, checked, rotted>>
        /\ \A k \in Jobs \ {j} : pc'[k] = pc[k] /\ todo'[k] = todo[k] /\ targets'[k] = targets[k]
    BY <1>t, <2>1 DEF Commit, TypeOK, Ids
  <2>3. v # j
    BY <2>2
  <2>4. ~rotted /\ pc[v] = pc'[v]
    BY <1>v, <2>2, <2>3
  <2>5. q \in Seen(v) /\ q \in who[v]
    <3>1. q \in Seen(v)
      BY <1>v, <2>2, <2>3 DEF Seen
    <3> QED  BY <1>v, <2>4, <3>1 DEF Seen, LockInv, KeepsToItsNames
  <2>6. holding[v] = who[v] /\ holding[j] = who[j] /\ holding[v] \cap holding[j] = {}
    BY <1>v, <2>2, <2>3, <2>4 DEF LockInv, LocksKept, LeasesDisjoint, Working
  <2>7. b # counter + 1
    <3>1. SUFFICES ASSUME b = counter + 1 PROVE FALSE
      OBVIOUS
    <3>2. q \in d[s]
      BY <2>2, <3>1
    <3>3. d[s] \subseteq who[j]
      BY <2>2, SelfType DEF Permitted, LockedStages
    <3>4. checked[j] \subseteq who[j]
      BY <2>2 DEF LockInv, KeepsToItsNames
    <3> QED  BY <2>5, <2>6, <3>2, <3>3
  <2> QED  BY <1>v, <1>2, <2>2, <2>3, <2>4, <2>7
<1>4. CASE acts' \subseteq acts
  <2>0. b \in acts
    BY <1>4
  <2>1. ASSUME NEW j \in Jobs, TakeLock(j) PROVE Goal
    <3>1. /\ pc[j] = "asks" /\ \A k \in Jobs \ {j} : pc'[k] = pc[k]
          /\ UNCHANGED <<todo, targets, checked, rotted>>
      BY <1>t, <2>1 DEF TakeLock
    <3>2. v # j
      <4>1. SUFFICES ASSUME v = j PROVE FALSE
        OBVIOUS
      <4>2. checked[v] = {} /\ pc'[v] = "code"
        BY <1>t, <2>1, <3>1, <4>1 DEF LockInv, KeepsToItsNames, TakeLock
      <4> QED  BY <3>1, <4>2 DEF Seen
    <3> QED  BY <1>v, <1>2, <2>0, <3>1, <3>2
  <2>2. ASSUME NEW j \in Jobs, LockRefused(j) \/ ReturnLock(j) \/ Fail(j) \/ Crash(j) PROVE Goal
    <3>1. /\ Forget(j) /\ UNCHANGED rotted
          /\ \A k \in Jobs \ {j} : pc'[k] = pc[k]
          /\ pc'[j] \notin {"code", "checks"}
      BY <1>t, <2>2 DEF LockRefused, ReturnLock, Fail, Crash
    <3> QED  BY <1>t, <1>v, <1>2, <2>0, <3>1, ForgetValue, ForgetRest
  <2>3. ASSUME NEW j \in Jobs, Expire(j) PROVE Goal
    <3>1. UNCHANGED <<pc, todo, targets, checked, rotted>>
      BY <2>3 DEF Expire
    <3> QED  BY <1>2, <2>0, <3>1
  <2>4. ASSUME NEW j \in Jobs, RotLock(j) PROVE Goal
    BY <2>4 DEF RotLock
  <2>5. ASSUME NEW j \in Jobs, LoopPage(j) \/ BeginVisit(j) PROVE Goal
    <3>1. /\ v # j /\ \A k \in Jobs \ {j} : pc'[k] = pc[k]
          /\ UNCHANGED <<checked, rotted>>
      BY <1>t, <1>v, <2>5 DEF LoopPage, BeginVisit
    <3>2. UNCHANGED work \/ \E some, whom : Fetch(j, some, whom)
      BY <2>5 DEF LoopPage, BeginVisit
    <3> QED  BY <1>t, <1>v, <1>2, <2>0, <3>1, <3>2, FetchValue
  <2>6. ASSUME NEW j \in Jobs, NEW players \in SUBSET Players, BeginCode(j, players) PROVE Goal
    <3>1. /\ pc'[j] = "asks" /\ \A k \in Jobs \ {j} : pc'[k] = pc[k]
          /\ UNCHANGED <<todo, targets, checked, rotted>>
      BY <1>t, <2>6 DEF BeginCode
    <3> QED  BY <1>v, <1>2, <2>0, <3>1
  <2>7. ASSUME NEW j \in Jobs, NEW p \in Players, CheckOther(j, p) PROVE Goal
    <3>1. pc[j] = "code" /\ UNCHANGED <<acts, body, done, rotted>>
      BY <2>7 DEF CheckOther
    <3>2. CASE ActsOf(p) = {}
      <4>1. /\ UNCHANGED <<pc, todo, targets>> /\ \A k \in Jobs \ {j} : checked'[k] = checked[k]
            /\ checked'[j] = checked[j] \cup {p}
        BY <1>t, <2>7, <3>2 DEF CheckOther, TypeOK
      <4>2. q # p
        BY <2>0, <3>1, <3>2 DEF ActsOf, Touched, LockedStages
      <4>3. q \in Seen(v)
        BY <1>v, <4>1, <4>2 DEF Seen
      <4> QED  BY <1>1, <2>0, <3>1, <4>1, <4>3 DEF Goal
    <3>3. CASE ActsOf(p) # {}
      <4>1. Fetch(j, ActsOf(p), {p}) /\ GoTo(j, "checks") /\ UNCHANGED checked
        BY <2>7, <3>3 DEF CheckOther
      <4>2. /\ \A k \in Jobs \ {j} : pc'[k] = pc[k] /\ todo'[k] = todo[k] /\ targets'[k] = targets[k]
            /\ todo'[j] = ActsOf(p) /\ targets'[j] = {p} /\ pc'[j] = "checks"
        BY <1>t, <4>1, FetchValue
      <4>3. CASE v # j
        BY <1>v, <1>2, <2>0, <3>1, <4>1, <4>2, <4>3
      <4>4. CASE v = j /\ q = p
        <5>1. b \in ActsOf(p)
          BY <2>0, <3>1, <4>4 DEF ActsOf, Touched, LockedStages
        <5> QED  BY <4>2, <4>4, <5>1 DEF Goal
      <4>5. CASE v = j /\ q # p
        <5>1. q \in checked[v]
          BY <4>1, <4>2, <4>5 DEF Seen
        <5> QED  BY <1>1, <2>0, <3>1, <4>5, <5>1 DEF Seen, Goal
      <4> QED  BY <4>3, <4>4, <4>5
    <3> QED  BY <3>2, <3>3
  <2>8. ASSUME NEW j \in Jobs, NEW a \in Ids, FinishAct(j, a) PROVE Goal
    <3>1. AfterAct(j, a) /\ UNCHANGED <<body, done, rotted>>
      BY <2>8 DEF FinishAct
    <3>2. CASE j # v
      <4>1. /\ pc'[v] = pc[v] /\ todo'[v] = todo[v] /\ targets'[v] = targets[v]
            /\ checked'[v] = checked[v]
        <5>1. v \in Jobs \ {j} /\ AfterAct(j, a)
          BY <1>v, <3>1, <3>2
        <5> HIDE DEF mongo, lock, work, step, seen, history, GoTo
        <5>2. pc'[v] = pc[v] /\ todo'[v] = todo[v] /\ targets'[v] = targets[v]
          BY <1>t, <5>1, AfterValue
        <5>3. checked'[v] = checked[v]
          BY <1>t, <5>1, CheckedValue
        <5> QED  BY <5>2, <5>3
      <4> QED  BY <1>2, <2>0, <3>1, <4>1
    <3>3. CASE j = v
      <4>1. /\ pc[v] \in {"checks", "acts"} /\ IsOldest(a, todo[v]) /\ stage[v] = DoneState
            /\ a \in todo[v]
        BY <2>8, <3>3 DEF FinishAct, Executing, IsOldest
      <4>2. /\ todo'[v] = todo[v] \ {a}
            /\ todo'[v] # {} => /\ pc'[v] = pc[v] /\ targets'[v] = targets[v]
                                /\ checked'[v] = checked[v]
            /\ todo'[v] = {} => /\ pc'[v] = IF pc[v] = "checks" THEN "code" ELSE "leaves"
                                /\ checked'[v] = IF pc[v] = "checks" THEN checked[v] \cup targets[v]
                                                 ELSE checked[v]
        BY ONLY ZenonT(60), <1>t, <1>v, <3>1, <3>3, AfterValue, CheckedValue
      <4>3. pc[v] = "checks" /\ q \in Seen(v)
        BY <4>1, <4>2 DEF Seen
      <4>4. ASSUME q \in targets[v], q \in body[a][s] PROVE <<a, q, s>> \in done
        <5>1. q \in Players /\ a <= counter /\ Sound(a, cs[v][a]) /\ cs[v][a][q] >= 4
          BY <1>t, <1>v, <4>1, <4>4, CountsType DEF IInv, CopiesSound, StageReached
        <5>2. cs[v][a][q] > s
          BY ONLY <1>t, <1>v, <5>1, CountsType DEF LockedStages
        <5>3. s \in Stages
          BY DEF LockedStages
        <5> QED  BY <4>4, <5>1, <5>2, <5>3 DEF Sound
      <4>5. <<b, q, s>> \in done' \/ (q \in targets[v] /\ b \in todo[v] /\ b # a)
        BY <1>1, <2>0, <3>1, <4>3, <4>4
      <4> QED  BY <4>2, <4>3, <4>5 DEF Goal
    <3> QED  BY <3>2, <3>3
  <2>9. ASSUME NEW j \in Jobs, LockQuiet(j) PROVE Goal
    <3>1. pc'[v] = pc[v]
      BY <1>v, <2>9 DEF LockQuiet
    <3> QED  BY <1>2, <2>0, <2>9, <3>1 DEF LockQuiet
  <2>10. CASE UNCHANGED vars
    BY <1>2, <2>0, <2>10 DEF vars
  <2>11. ASSUME NEW j \in Jobs, NEW d \in Bodies, Commit(j, d) PROVE Goal
    BY <1>3, <2>11
  <2> HIDE DEF mongo, lock, work, step, seen, history, GoTo
  <2>12. ASSUME NEW j \in Jobs, LockKind(j) PROVE Goal
    BY <2>1, <2>2, <2>3, <2>4, <2>5, <2>6, <2>7, <2>8, <2>11, <2>12 DEF LockKind
  <2> QED  BY <1>t, <2>9, <2>10, <2>12, LockKinds
<1> QED  BY <1>t, <1>3, <1>4, ActsShrink

\* Init has SeenIsCurrent.
LEMMA SeenInit == Init => SeenIsCurrent
BY DEF Init, SeenIsCurrent, Jobs

\* What a function has read of another player under his lock is what it finds
\* when it commits: no act that waits to change him can appear, and those that
\* were there are carried out first, unless a lock expires under a living job.
THEOREM ReadStaysCurrent == Spec => []CheckedIsCurrent
<1> DEFINE I == IInv /\ LockInv /\ SeenIsCurrent
<1>1. Init => I
  BY IInvInit, LockInit, SeenInit
<1>2. I /\ [Next]_vars => I'
  BY IInvStep, LockStep, SeenStep
<1>3. I => CheckedIsCurrent
  <2> SUFFICES ASSUME I, NEW j \in Codes, pc[j] = "code", ~rotted,
                      NEW p \in checked[j], NEW a \in acts, NEW s \in Stages \ {BjeState},
                      p \in body[a][s]
               PROVE  <<a, p, s>> \in done
    BY DEF CheckedIsCurrent
  <2>1. s \in LockedStages /\ p \in Seen(j)
    BY DEF LockedStages, Seen
  <2> QED  BY <2>1 DEF SeenIsCurrent
<1> QED  BY <1>1, <1>2, <1>3, PTL DEF Spec

(***************************************************************************)
(* Who writes.                                                             *)
(***************************************************************************)

\* A function or a visit that writes for a player holds him.
LEMMA WriterHolds ==
    ASSUME LockInv, ~rotted, NEW k \in Codes \cup Visits, NEW a \in Ids, Executing(k, a),
           NEW s \in LockedStages, NEW p \in targets[k], p \in body[a][s]
    PROVE  p \in holding[k] /\ holding[k] = who[k]
<1>1. k \in Jobs /\ pc[k] \in {"checks", "acts"} /\ a \in todo[k]
  BY DEF Jobs, Executing, IsOldest
<1>2. holding[k] = who[k]
  BY <1>1 DEF LockInv, LocksKept, Working
<1>3. p \in who[k]
  BY <1>1 DEF LockInv, KeepsToItsNames
<1> QED  BY <1>2, <1>3

\* A profile is written by ProfileSet and WriteOnly.
LEMMA ProfileWriters ==
    ASSUME TypeOK, [Next]_vars, NEW p \in Players, profile'[p] # profile[p]
    PROVE  \E k \in Jobs : WriteOnly(k, p) \/ \E a \in Ids : ProfileSet(k, a, p)
<1> USE DEF mongo
<1>1. ASSUME UNCHANGED profile PROVE FALSE
  BY <1>1
<1>2. ASSUME NEW j \in Jobs,
             \/ TakeLock(j) \/ LockRefused(j) \/ ReturnLock(j) \/ Fail(j) \/ Crash(j)
             \/ Expire(j) \/ RotLock(j) \/ LoopPage(j) \/ BeginVisit(j) \/ EndCode(j)
             \/ LoopStart(j) \/ LoopUnlock(j) \/ Restart(j)
      PROVE  FALSE
  BY <1>1, <1>2 DEF TakeLock, LockRefused, ReturnLock, Fail, Crash, Expire, RotLock, LoopPage,
     BeginVisit, EndCode, LoopStart, LoopUnlock, Restart
<1>3. ASSUME NEW j \in Jobs,
             \/ \E players \in SUBSET Players : BeginCode(j, players)
             \/ \E q \in Players : CheckOther(j, q)
             \/ \E b \in Bodies : Commit(j, b)
      PROVE  FALSE
  BY <1>1, <1>3 DEF BeginCode, CheckOther, Commit
<1>4. ASSUME NEW j \in Jobs, NEW a \in Ids,
             SaveStates(j, a) \/ RecordPush(j, a) \/ NextStage(j, a) \/ FinishAct(j, a)
      PROVE  FALSE
  BY <1>1, <1>4 DEF SaveStates, RecordPush, NextStage, FinishAct
<1>5. ASSUME NEW j \in Jobs, NEW a \in Ids, NEW q \in Players, RecordSet(j, a, q) \/ DocumentAdd(j, a, q)
      PROVE  FALSE
  BY <1>1, <1>5 DEF RecordSet, DocumentAdd
<1>6. ASSUME NEW j \in Jobs, NEW q \in Players, WriteOnly(j, q) \/ \E a \in Ids : ProfileSet(j, a, q)
      PROVE  q = p
  BY <1>6 DEF WriteOnly, ProfileSet, TypeOK
<1>7. CASE UNCHANGED vars
  BY <1>1, <1>7 DEF vars
<1> HIDE DEF mongo
<1> QED  BY <1>2, <1>3, <1>4, <1>5, <1>6, <1>7 DEF Next, Begin, Progress

\* As long as a job has a good lock on a player nobody else writes his profile,
\* in a server whose background loop does not run: the loop, which locks no
\* player, is the only one to break it (the finding acts_unlocked).
THEOREM HolderWritesAlone ==
    ASSUME Loopers = {}
    PROVE  Spec => OnlyHolderWrites
<1> DEFINE I == IInv /\ LockInv
           Alone == \A j \in trusted \ Loopers, p \in Players :
                       p \in holding[j] /\ profile'[p] # profile[p] /\ ~rotted =>
                           pc'[j] # pc[j] \/ cs'[j] # cs[j]
<1>1. Init => I
  BY IInvInit, LockInit
<1>2. I /\ [Next]_vars => I'
  BY IInvStep, LockStep
<1>3. I /\ [Next]_vars => [Alone]_vars
  <2> SUFFICES ASSUME I, [Next]_vars, NEW j \in trusted \ Loopers, NEW p \in Players,
                      p \in holding[j], profile'[p] # profile[p], ~rotted
               PROVE  pc'[j] # pc[j] \/ cs'[j] # cs[j]
    OBVIOUS
  <2>t. TypeOK /\ j \in Jobs /\ pc \in [Jobs -> PCs]
    BY DEF IInv, TypeOK
  <2>1. PICK k \in Jobs : WriteOnly(k, p) \/ \E a \in Ids : ProfileSet(k, a, p)
    BY <2>t, ProfileWriters
  <2>2. CASE WriteOnly(k, p)
    <3>1. p \in who[k] /\ pc[k] = "code" /\ pc'[k] = "leaves"
      BY <2>t, <2>2 DEF WriteOnly, GoTo
    <3>2. holding[k] = who[k]
      BY <3>1 DEF LockInv, LocksKept, Working
    <3>3. k = j
      BY <2>t, <3>1, <3>2 DEF LockInv, LeasesDisjoint
    <3> QED  BY <3>1, <3>3
  <2>3. ASSUME NEW a \in Ids, ProfileSet(k, a, p) PROVE cs'[j] # cs[j]
    <3>1. /\ Executing(k, a) /\ stage[k] = ProfileState /\ Advance(k, a, {p})
          /\ p \in targets[k] /\ p \in body[a][ProfileState] /\ cs[k][a][p] = ProfileState
      BY <2>3 DEF ProfileSet, Entries, Pending
    <3>2. k \in Codes \cup Visits /\ ProfileState \in LockedStages
      BY DEF Jobs, LockedStages
    <3>3. p \in holding[k]
      BY <3>1, <3>2, WriterHolds
    <3>4. k = j
      BY <2>t, <3>3 DEF LockInv, LeasesDisjoint
    <3>5. cs'[k][a][p] = cs[k][a][p] + 1
      BY <2>t, <3>1, AdvanceValue
    <3> QED  BY <3>1, <3>4, <3>5
  <2> QED  BY <2>1, <2>2, <2>3
<1>4. OnlyHolderWrites <=> [][Alone]_vars
  BY DEF OnlyHolderWrites
<1> HIDE DEF Alone
<1> QED  BY <1>1, <1>2, <1>3, <1>4, PTL DEF Spec

(***************************************************************************)
(* Without faults an act that is there has its creator at work on it.      *)
(***************************************************************************)

\* Whoever stored an act carries it on for all who have a part in it.
CreatorDoesAll ==
    \A j \in Codes : pc[j] = "acts" =>
        \A a \in todo[j], p \in Players \ targets[j] : cs[j][a][p] = DoneState

ActsHaveCreators == \A a \in acts : \E j \in Codes : pc[j] = "acts" /\ a \in todo[j]

LoopFindsNothing == \A j \in Loopers : todo[j] = {}

Faultless == faults = 0 => ~rotted /\ ActsHaveCreators /\ LoopFindsNothing

\* Faults are counted; a lock that expires under a job is one.
LEMMA FaultsGrow ==
    ASSUME TypeOK, [Next]_vars, faults' = 0
    PROVE  /\ faults = 0 /\ rotted' = rotted
           /\ \A j \in Jobs : ~Fail(j) /\ ~Crash(j) /\ ~RotLock(j)
<1>t. faults \in Nat
  BY DEF TypeOK
<1> USE DEF history
<1>1. ASSUME NEW j \in Jobs PROVE ~Fail(j) /\ ~Crash(j) /\ ~RotLock(j)
  BY <1>t DEF Fail, Crash, RotLock, Fault
<1>2. ASSUME NEW j \in Jobs,
             \/ TakeLock(j) \/ LockRefused(j) \/ ReturnLock(j)
             \/ Expire(j) \/ LoopPage(j) \/ BeginVisit(j) \/ EndCode(j)
             \/ LoopStart(j) \/ LoopUnlock(j) \/ Restart(j)
      PROVE  UNCHANGED <<faults, rotted>>
  BY <1>2 DEF TakeLock, LockRefused, ReturnLock, Expire, LoopPage,
     BeginVisit, EndCode, LoopStart, LoopUnlock, Restart
<1>3. ASSUME NEW j \in Jobs,
             \/ \E players \in SUBSET Players : BeginCode(j, players)
             \/ \E q \in Players : CheckOther(j, q) \/ WriteOnly(j, q)
             \/ \E b \in Bodies : Commit(j, b)
      PROVE  UNCHANGED <<faults, rotted>>
  BY <1>3 DEF BeginCode, CheckOther, Commit, WriteOnly
<1>4. ASSUME NEW j \in Jobs, NEW a \in Ids, SaveStates(j, a) \/ NextStage(j, a) \/ FinishAct(j, a)
      PROVE  UNCHANGED <<faults, rotted>>
  BY <1>4 DEF SaveStates, NextStage, FinishAct
<1>5. ASSUME NEW j \in Jobs, NEW a \in Ids, RecordPush(j, a) PROVE UNCHANGED <<faults, rotted>>
  BY <1>t, <1>5 DEF RecordPush
<1>6. ASSUME NEW j \in Jobs, NEW a \in Ids, NEW q \in Players, Applies(j, a, q)
      PROVE  UNCHANGED <<faults, rotted>>
  BY <1>6 DEF Applies, RecordSet, DocumentAdd, ProfileSet
<1>7. ASSUME UNCHANGED vars PROVE UNCHANGED <<faults, rotted>>
  BY <1>7 DEF vars
<1>8. UNCHANGED <<faults, rotted>>
  BY <1>1, <1>2, <1>3, <1>4, <1>5, <1>6, <1>7 DEF Next, Begin, Progress, Applies
<1> QED  BY <1>1, <1>8

\* A job at work stays at work with what it has, until it is through with an act.
LEMMA WorkGoesOn ==
    ASSUME TypeOK, [Next]_vars, faults' = 0, NEW k \in Jobs, pc[k] \in {"checks", "acts"}
    PROVE  /\ who'[k] = who[k] /\ holding'[k] = holding[k]
           /\ \/ /\ pc'[k] = pc[k] /\ todo'[k] = todo[k] /\ targets'[k] = targets[k]
                 /\ \A a \in Ids : ~FinishAct(k, a)
              \/ \E a \in Ids : FinishAct(k, a)
<1>t. pc \in [Jobs -> PCs]
  BY DEF TypeOK
<1>f. \A j \in Jobs : ~Fail(j) /\ ~Crash(j) /\ ~RotLock(j)
  BY FaultsGrow
<1> DEFINE Same == /\ who'[k] = who[k] /\ holding'[k] = holding[k] /\ pc'[k] = pc[k]
                   /\ todo'[k] = todo[k] /\ targets'[k] = targets[k]
<1> SUFFICES Same \/ \E a \in Ids : FinishAct(k, a) /\ who'[k] = who[k] /\ holding'[k] = holding[k]
  OBVIOUS
<1> USE DEF mongo, lock, work, step, seen, history, GoTo
<1>1. ASSUME NEW j \in Jobs, LockQuiet(j) PROVE Same
  BY <1>1 DEF LockQuiet
<1>2. ASSUME NEW j \in Jobs, TakeLock(j) PROVE Same
  <2>1. pc[j] = "asks" /\ Lease!Take(j, who[j]) /\ UNCHANGED <<who, todo, targets>> /\ j # k
    BY <1>2 DEF TakeLock
  <2> QED  BY ZenonT(60), <1>t, <1>2, <2>1, LeaseValue DEF TakeLock
<1>3. ASSUME NEW j \in Jobs, LockRefused(j) \/ ReturnLock(j) PROVE Same
  <2>1. /\ Forget(j) /\ j # k /\ \A i \in Jobs \ {j} : pc'[i] = pc[i]
        /\ UNCHANGED holding \/ Lease!Lapse({j}, {j})
    BY <1>t, <1>3 DEF LockRefused, ReturnLock
  <2> QED  BY <2>1, LeaseValue, ForgetRest, ForgetValue
<1>4. ASSUME NEW j \in Jobs, Expire(j) PROVE Same
  <2>1. j # k /\ UNCHANGED <<pc, who, todo, targets>> /\ Lease!Lapse({}, {j})
    BY <1>4 DEF Expire
  <2> QED  BY SMTT(60), <2>1, LeaseValue
<1>5. ASSUME NEW j \in Jobs, LoopPage(j) \/ BeginVisit(j) PROVE Same
  <2>1. /\ j # k /\ \A i \in Jobs \ {j} : pc'[i] = pc[i] /\ who'[i] = who[i]
        /\ UNCHANGED holding
        /\ UNCHANGED work \/ \E some, whom : Fetch(j, some, whom)
    <3>1. CASE LoopPage(j)
      BY <1>t, <3>1 DEF LoopPage, TypeOK
    <3>2. CASE BeginVisit(j)
      BY <1>t, <3>2 DEF BeginVisit, TypeOK
    <3> QED  BY <1>5, <3>1, <3>2
  <2> QED  BY <2>1, FetchValue
<1>6. ASSUME NEW j \in Jobs, NEW players \in SUBSET Players, BeginCode(j, players) PROVE Same
  BY <1>t, <1>6 DEF BeginCode, TypeOK
<1>7. ASSUME NEW j \in Jobs, NEW p \in Players, CheckOther(j, p) PROVE Same
  <2>1. /\ j # k /\ \A i \in Jobs \ {j} : pc'[i] = pc[i]
        /\ UNCHANGED <<who, holding>>
        /\ UNCHANGED work \/ \E some, whom : Fetch(j, some, whom)
    BY <1>t, <1>7 DEF CheckOther
  <2> QED  BY <2>1, FetchValue
<1>8. ASSUME NEW j \in Jobs, NEW b \in Bodies, Commit(j, b) PROVE Same
  BY <1>t, <1>8 DEF Commit, TypeOK
<1>9. ASSUME NEW j \in Jobs, NEW a \in Ids, FinishAct(j, a)
      PROVE  Same \/ (FinishAct(k, a) /\ who'[k] = who[k] /\ holding'[k] = holding[k])
  <2>1. AfterAct(j, a) /\ UNCHANGED <<who, holding>>
    BY <1>9 DEF FinishAct, AfterAct
  <2> HIDE DEF mongo, lock, work, step, seen, history, GoTo
  <2>2. CASE j # k
    BY <2>1, <2>2, AfterValue
  <2> QED  BY <1>9, <2>1, <2>2
<1>10. CASE UNCHANGED vars
  BY <1>10 DEF vars
<1> HIDE DEF mongo, lock, work, step, seen, history, GoTo, Same
<1>11. ASSUME NEW j \in Jobs, LockKind(j)
       PROVE  Same \/ \E a \in Ids : FinishAct(k, a) /\ who'[k] = who[k] /\ holding'[k] = holding[k]
  BY <1>f, <1>2, <1>3, <1>4, <1>5, <1>6, <1>7, <1>8, <1>9, <1>11 DEF LockKind
<1> QED  BY <1>1, <1>10, <1>11, LockKinds

\* Every step keeps CreatorDoesAll.
LEMMA CreatorStep ==
    ASSUME TypeOK, PushSound, StageIdle, CreatorDoesAll, [Next]_vars PROVE CreatorDoesAll'
<1> SUFFICES ASSUME NEW k \in Codes, pc'[k] = "acts", NEW b \in todo'[k], NEW q \in Players \ targets'[k]
             PROVE  cs'[k][b][q] = DoneState
  BY DEF CreatorDoesAll
<1>t. pc \in [Jobs -> PCs] /\ k \in Jobs /\ k \notin Visits /\ k \notin Loopers
  BY DEF TypeOK, Jobs
<1> DEFINE Goal == cs'[k][b][q] = DoneState
<1> SUFFICES Goal
  OBVIOUS
<1>1. ASSUME pc[k] = "acts", todo'[k] = todo[k], targets'[k] = targets[k], cs'[k] = cs[k] PROVE Goal
  BY <1>1 DEF CreatorDoesAll
<1> HIDE DEF Goal
<1> USE DEF mongo, lock, work, step, seen, history, GoTo
<1>3. ASSUME NEW j \in Jobs, EndCode(j) \/ LoopStart(j) \/ LoopUnlock(j) \/ Restart(j) PROVE Goal
  <2>1. pc'[k] = pc[k] /\ UNCHANGED <<todo, targets, cs>>
    BY <1>t, <1>3 DEF EndCode, LoopStart, LoopUnlock, Restart
  <2> QED  BY <1>1, <2>1
<1>4. ASSUME NEW j \in Jobs, TakeLock(j) \/ Expire(j) \/ RotLock(j) PROVE Goal
  <2>1. pc'[k] = pc[k] /\ UNCHANGED <<todo, targets, cs>>
    BY <1>t, <1>4 DEF TakeLock, Expire, RotLock
  <2> QED  BY <1>1, <2>1
<1>5. ASSUME NEW j \in Jobs, LockRefused(j) \/ ReturnLock(j) \/ Fail(j) \/ Crash(j) PROVE Goal
  <2>1. Forget(j) /\ pc'[j] # "acts" /\ \A i \in Jobs \ {j} : pc'[i] = pc[i]
    BY <1>t, <1>5 DEF LockRefused, ReturnLock, Fail, Crash
  <2>2. j # k
    BY <2>1
  <2> QED  BY <1>t, <1>1, <2>1, <2>2, ForgetValue
<1>6. ASSUME NEW j \in Jobs, \/ LoopPage(j) \/ BeginVisit(j)
                             \/ \E p \in Players : CheckOther(j, p)
      PROVE  Goal
  <2>1. /\ \A i \in Jobs \ {j} : pc'[i] = pc[i]
        /\ UNCHANGED <<pc, work>> \/ (pc'[j] # "acts" /\ UNCHANGED work)
              \/ (pc'[j] # "acts" /\ \E some, whom : Fetch(j, some, whom))
    <3>1. CASE LoopPage(j)
      BY <1>t, <3>1 DEF LoopPage
    <3>2. CASE BeginVisit(j)
      BY <1>t, <3>2 DEF BeginVisit
    <3>3. ASSUME NEW p \in Players, CheckOther(j, p)
          PROVE  /\ \A i \in Jobs \ {j} : pc'[i] = pc[i]
                 /\ UNCHANGED <<pc, work>> \/ (pc'[j] # "acts" /\ \E some, whom : Fetch(j, some, whom))
      BY <1>t, <3>3 DEF CheckOther
    <3> QED  BY <1>6, <3>1, <3>2, <3>3
  <2>2. CASE UNCHANGED <<pc, work>>
    BY <1>1, <2>2
  <2>3. CASE j # k
    <3>1. pc'[k] = pc[k]
      BY <1>t, <2>1, <2>3
    <3>2. todo'[k] = todo[k] /\ targets'[k] = targets[k] /\ cs'[k] = cs[k]
      BY <1>t, <2>1, <2>3, FetchValue
    <3> QED  BY <1>1, <3>1, <3>2
  <2> QED  BY <2>1, <2>2, <2>3
<1>7. ASSUME NEW j \in Jobs, NEW p \in Players, WriteOnly(j, p) PROVE Goal
  <2>1. pc'[k] = pc[k] /\ UNCHANGED <<todo, targets, cs>>
    BY <1>t, <1>7 DEF WriteOnly
  <2> QED  BY <1>1, <2>1
<1>8. ASSUME NEW j \in Jobs, NEW d \in Bodies, Commit(j, d) PROVE Goal
  <2>1. CASE j # k
    BY <1>t, <1>1, <1>8, <2>1 DEF Commit, TypeOK
  <2>2. CASE j = k
    <3>1. /\ todo'[k] = {counter + 1} /\ targets'[k] = Touched(d) /\ counter + 1 \in Ids
          /\ cs'[k] = [NoStates EXCEPT ![counter + 1] = FirstStates(d)]
      BY SMTT(60), <1>t, <1>8, <2>2 DEF Commit, TypeOK, Ids
    <3>2. b = counter + 1 /\ q \notin Touched(d)
      BY <3>1
    <3>3. cs'[k][b] = FirstStates(d)
      BY <3>1, <3>2 DEF NoStates
    <3>4. FirstStates(d)[q] = DoneState
      BY <3>2 DEF FirstStates
    <3> QED  BY <3>3, <3>4 DEF Goal
  <2> QED  BY <2>1, <2>2
<1>9. ASSUME NEW j \in Jobs, NEW a \in Ids, SaveStates(j, a) PROVE Goal
  BY <1>1, <1>9 DEF SaveStates
<1>10. ASSUME NEW j \in Jobs, NEW a \in Ids, NEW some \in SUBSET targets[j], Advance(j, a, some),
              UNCHANGED <<pc, todo, targets>>
       PROVE  Goal
  <2>1. j = k => q \notin some
    BY <1>10
  <2>2. b \in Ids /\ cs'[k][b][q] = cs[k][b][q]
    BY <1>t, <1>10, <2>1, AdvanceValue, CountsType
  <2> QED  BY <1>10, <2>2 DEF CreatorDoesAll, Goal
<1>11. ASSUME NEW j \in Jobs, NEW a \in Ids, RecordPush(j, a) PROVE Goal
  <2>1. /\ UNCHANGED <<pc, todo, targets>> /\ Advance(j, a, {push[j]})
        /\ IsOldest(a, todo[j]) /\ push[j] # NoOne /\ a \in todo[j]
    BY <1>11 DEF RecordPush, IsOldest
  <2>2. CASE push[j] \in targets[j]
    BY <1>10, <2>1, <2>2
  <2>3. CASE push[j] \notin targets[j]
    <3>1. cs[j][a][push[j]] = RecordsState /\ push[j] \in Players /\ pc[j] \in {"checks", "acts"}
      BY ZenonT(60), <2>1 DEF PushSound, TypeOK, StageIdle
    <3>2. j # k
      BY <1>t, <2>1, <2>3, <3>1 DEF CreatorDoesAll
    <3>3. b \in Ids /\ cs'[k][b][q] = cs[k][b][q]
      BY <1>t, <2>1, <3>2, AdvanceValue, CountsType
    <3> QED  BY <2>1, <3>3 DEF CreatorDoesAll, Goal
  <2> QED  BY <2>2, <2>3
<1>12. ASSUME NEW j \in Jobs, NEW a \in Ids, NextStage(j, a) PROVE Goal
  <2>1. UNCHANGED <<pc, todo, targets>> /\ Advance(j, a, Pending(j, a))
    BY <1>12 DEF NextStage
  <2>2. Pending(j, a) \in SUBSET targets[j]
    BY DEF Pending
  <2> QED  BY <1>10, <2>1, <2>2
<1>13. ASSUME NEW j \in Jobs, NEW a \in Ids, FinishAct(j, a) PROVE Goal
  <2>1. AfterAct(j, a)
    BY <1>13 DEF FinishAct
  <2> HIDE DEF mongo, lock, work, step, seen, history, GoTo
  <2>2. CASE j # k
    BY <1>t, <1>1, <2>1, <2>2, AfterValue
  <2>3. CASE j = k
    <3>1. /\ todo'[k] # {} /\ pc'[k] = pc[k] /\ targets'[k] = targets[k] /\ cs'[k] = cs[k]
          /\ todo'[k] \subseteq todo[k]
      BY <1>t, <2>1, <2>3, AfterValue
    <3> QED  BY <3>1 DEF CreatorDoesAll, Goal
  <2> QED  BY <2>2, <2>3
<1>14. ASSUME NEW j \in Jobs, NEW a \in Ids, NEW p \in Players, Applies(j, a, p) PROVE Goal
  <2>1. /\ UNCHANGED <<pc, todo, targets>>
        /\ UNCHANGED cs \/ Advance(j, a, {p})
        /\ p \in Entries(j, a)
    <3>1. CASE ProfileSet(j, a, p)
      BY <3>1 DEF ProfileSet
    <3>2. CASE RecordSet(j, a, p)
      BY <3>2 DEF RecordSet
    <3>3. CASE DocumentAdd(j, a, p)
      BY <3>3 DEF DocumentAdd
    <3> QED  BY <1>14, <3>1, <3>2, <3>3 DEF Applies
  <2>2. {p} \in SUBSET targets[j]
    BY <2>1 DEF Entries, Pending
  <2>3. CASE UNCHANGED cs
    BY <1>1, <2>1, <2>3
  <2>4. CASE Advance(j, a, {p})
    BY <1>10, <2>1, <2>2, <2>4
  <2> QED  BY <2>1, <2>3, <2>4
<1>15. ASSUME NEW j \in Jobs, NEW players \in SUBSET Players, BeginCode(j, players) PROVE Goal
  <2>1. pc'[k] = "acts" => pc[k] = "acts"
    BY <1>t, <1>15 DEF BeginCode
  <2> QED  BY <1>1, <1>15, <2>1 DEF BeginCode
<1>16. CASE UNCHANGED vars
  BY <1>1, <1>16 DEF vars
<1> HIDE DEF mongo, lock, work, step, seen, history, GoTo
<1> QED
  BY <1>3, <1>4, <1>5, <1>6, <1>7, <1>8, <1>9, <1>11, <1>12, <1>13, <1>14, <1>15, <1>16
     DEF Next, Begin, Progress, Applies

\* Without faults an act that is there keeps its creator.
LEMMA CreatorStays ==
    ASSUME TypeOK, StageReached, CreatorDoesAll, [Next]_vars, faults' = 0,
           NEW a \in acts \cap acts', NEW k \in Codes, pc[k] = "acts", a \in todo[k]
    PROVE  pc'[k] = "acts" /\ a \in todo'[k]
<1>t. k \in Jobs /\ a \in Ids
  BY CountsType DEF Jobs
<1>1. CASE pc'[k] = pc[k] /\ todo'[k] = todo[k]
  BY <1>1
<1>2. ASSUME NEW c \in Ids, FinishAct(k, c) PROVE pc'[k] = "acts" /\ a \in todo'[k]
  <2>1. /\ AfterAct(k, c) /\ IsOldest(c, todo[k]) /\ stage[k] = DoneState
        /\ (\A p \in Players : cs[k][c][p] = DoneState) => acts' = acts \ {c}
    BY <1>2 DEF FinishAct, Executing
  <2>2. \A p \in Players : cs[k][c][p] = DoneState
    <3> SUFFICES ASSUME NEW p \in Players PROVE cs[k][c][p] = DoneState
      OBVIOUS
    <3>1. c \in todo[k] /\ cs[k][c][p] \in 0 .. 4
      BY <1>t, <2>1, CountsType DEF IsOldest
    <3>2. CASE p \in targets[k]
      <4>1. cs[k][c][p] >= 4
        BY <1>t, <2>1, <3>1, <3>2 DEF StageReached
      <4> QED  BY <3>1, <4>1
    <3>3. CASE p \notin targets[k]
      BY <3>1, <3>3 DEF CreatorDoesAll
    <3> QED  BY <3>2, <3>3
  <2>3. a # c
    BY <2>1, <2>2
  <2>4. a \in todo'[k]
    BY <1>t, <2>1, <2>3, AfterValue
  <2> QED  BY <1>t, <2>1, <2>4, AfterValue
<1> QED  BY <1>t, <1>1, <1>2, WorkGoesOn

\* Every step keeps Faultless.
LEMMA FaultlessStep ==
    ASSUME IInv, LockInv, CreatorDoesAll, Faultless, [Next]_vars PROVE Faultless'
<1> SUFFICES ASSUME faults' = 0 PROVE ~rotted' /\ ActsHaveCreators' /\ LoopFindsNothing'
  BY DEF Faultless
<1>t. TypeOK /\ StageReached /\ pc \in [Jobs -> PCs]
  BY DEF IInv, TypeOK
<1>1. faults = 0 /\ rotted' = rotted /\ \A j \in Jobs : ~Fail(j) /\ ~Crash(j) /\ ~RotLock(j)
  BY <1>t, FaultsGrow
<1>2. ~rotted /\ ActsHaveCreators /\ LoopFindsNothing
  BY <1>1 DEF Faultless
<1>3. ~rotted'
  BY <1>1, <1>2
<1>4. ActsHaveCreators'
  <2> SUFFICES ASSUME NEW a \in acts' PROVE \E k \in Codes : pc'[k] = "acts" /\ a \in todo'[k]
    BY DEF ActsHaveCreators
  <2>1. CASE a \in acts
    <3>1. PICK k \in Codes : pc[k] = "acts" /\ a \in todo[k]
      BY <1>2, <2>1 DEF ActsHaveCreators
    <3> QED  BY <1>t, <2>1, <3>1, CreatorStays
  <2>2. CASE a \notin acts
    <3>1. PICK j \in Jobs, b \in Bodies : Commit(j, b)
      BY <1>t, <2>2, ActsShrink
    <3>2. /\ j \in Codes /\ pc'[j] = "acts" /\ todo'[j] = {counter + 1}
          /\ acts' = acts \cup {counter + 1}
      BY <1>t, <3>1 DEF Commit, GoTo, TypeOK
    <3> QED  BY <2>2, <3>2
  <2> QED  BY <2>1, <2>2
<1>5. LoopFindsNothing'
  <2> SUFFICES ASSUME NEW l \in Loopers, todo[l] = {} PROVE todo'[l] = {}
    BY <1>2 DEF LoopFindsNothing
  <2>l. l \in Jobs /\ l \notin Codes /\ l \notin Visits
    BY DEF Jobs
  <2> USE DEF mongo, lock, work, step, seen, history, GoTo
  <2>1. ASSUME NEW j \in Jobs, LockQuiet(j) \/ TakeLock(j) \/ Expire(j)
        PROVE  todo'[l] = {}
    BY <2>1 DEF LockQuiet, TakeLock, Expire
  <2>2. ASSUME NEW j \in Jobs, LockRefused(j) \/ ReturnLock(j) PROVE todo'[l] = {}
    <3>1. Forget(j)
      BY <2>2 DEF LockRefused, ReturnLock
    <3> QED  BY <1>t, <2>l, <3>1, ForgetValue
  <2>3. ASSUME NEW j \in Jobs, LoopPage(j) PROVE todo'[l] = {}
    <3>1. ~\E youngest \in acts : \A a \in acts : a <= youngest => Aged(a)
      <4> SUFFICES ASSUME NEW a \in acts, Aged(a) PROVE FALSE
        BY <1>t DEF TypeOK
      <4>1. PICK k \in Codes : pc[k] = "acts" /\ a \in todo[k]
        BY <1>2 DEF ActsHaveCreators
      <4>2. k \in trusted
        BY <1>2, <4>1 DEF LockInv, LocksKept, Working, Jobs
      <4> QED  BY <4>1, <4>2 DEF Aged
    <3>2. UNCHANGED work
      BY <2>3, <3>1 DEF LoopPage
    <3> QED  BY <3>2
  <2>4. ASSUME NEW j \in Jobs, \/ BeginVisit(j) \/ \E p \in Players : CheckOther(j, p)
        PROVE  todo'[l] = {}
    <3>1. j # l /\ (UNCHANGED work \/ \E some, whom : Fetch(j, some, whom))
      BY ONLY <2>l, <2>4 DEF BeginVisit, CheckOther
    <3> QED  BY <1>t, <2>l, <3>1, FetchValue
  <2>5. ASSUME NEW j \in Jobs, NEW players \in SUBSET Players, BeginCode(j, players)
        PROVE  todo'[l] = {}
    BY <2>5 DEF BeginCode
  <2>6. ASSUME NEW j \in Jobs, NEW b \in Bodies, Commit(j, b) PROVE todo'[l] = {}
    BY <2>l, <2>6 DEF Commit
  <2>7. ASSUME NEW j \in Jobs, NEW a \in Ids, FinishAct(j, a) PROVE todo'[l] = {}
    <3>1. AfterAct(j, a)
      BY <2>7 DEF FinishAct
    <3> QED  BY <1>t, <2>l, <3>1, AfterValue
  <2>8. CASE UNCHANGED vars
    BY <2>8 DEF vars
  <2> HIDE DEF mongo, lock, work, step, seen, history, GoTo
  <2>9. ASSUME NEW j \in Jobs, LockKind(j) PROVE todo'[l] = {}
    BY <1>1, <2>1, <2>2, <2>3, <2>4, <2>5, <2>6, <2>7, <2>9 DEF LockKind
  <2> QED  BY <1>t, <2>1, <2>8, <2>9, LockKinds
<1> QED  BY <1>3, <1>4, <1>5

\* Init has both.
LEMMA FaultlessInit == Init => CreatorDoesAll /\ Faultless
BY DEF Init, CreatorDoesAll, Faultless, ActsHaveCreators, LoopFindsNothing, Jobs

(***************************************************************************)
(* Without faults Redis follows MongoDB.                                   *)
(***************************************************************************)

\* A record on its way to Redis is the one in MongoDB, and its player is held.
PushIsWritten ==
    faults = 0 => \A j \in Jobs : push[j] # NoOne =>
        /\ push[j] \in holding[j]
        /\ \A a \in todo[j] : IsOldest(a, todo[j]) => board[push[j]] = a

FollowInv == PushIsWritten /\ LeaderboardAgrees

\* Records, their mirror and what is on the way are touched by two actions.
LEMMA RecordWriters ==
    ASSUME TypeOK, StageIdle, [Next]_vars, faults' = 0
    PROVE  \/ /\ UNCHANGED <<board, mirror>>
              /\ \A k \in Jobs : push'[k] = push[k]
           \/ \E j \in Jobs, a \in Ids :
                 RecordPush(j, a) \/ \E p \in Players : RecordSet(j, a, p)
<1>i. \A k \in Jobs : pc[k] \notin {"checks", "acts"} => push[k] = NoOne
  BY DEF StageIdle
<1>t. pc \in [Jobs -> PCs]
  BY DEF TypeOK
<1> DEFINE Same == UNCHANGED <<board, mirror>> /\ \A k \in Jobs : push'[k] = push[k]
<1> USE DEF mongo, lock, work, step, seen, history
<1>1. ASSUME NEW j \in Jobs,
             \/ TakeLock(j) \/ Expire(j) \/ RotLock(j) \/ LoopPage(j) \/ BeginVisit(j)
             \/ EndCode(j) \/ LoopStart(j) \/ LoopUnlock(j) \/ Restart(j)
      PROVE  Same
  BY <1>1 DEF TakeLock, Expire, RotLock, LoopPage, BeginVisit, EndCode, LoopStart, LoopUnlock, Restart
<1>2. ASSUME NEW j \in Jobs, LockRefused(j) \/ ReturnLock(j) PROVE Same
  <2>1. Forget(j) /\ pc[j] \notin {"checks", "acts"} /\ UNCHANGED <<board, mirror>>
    BY <1>2 DEF LockRefused, ReturnLock
  <2> QED  BY <1>i, <2>1, ForgetValue
<1>3. ASSUME NEW j \in Jobs,
             \/ \E players \in SUBSET Players : BeginCode(j, players)
             \/ \E q \in Players : CheckOther(j, q) \/ WriteOnly(j, q)
             \/ \E b \in Bodies : Commit(j, b)
      PROVE  Same
  BY <1>3 DEF BeginCode, CheckOther, WriteOnly, Commit
<1>4. ASSUME NEW j \in Jobs, NEW a \in Ids, SaveStates(j, a) \/ NextStage(j, a) \/ FinishAct(j, a)
      PROVE  Same
  BY <1>4 DEF SaveStates, NextStage, FinishAct, AfterAct
<1>5. ASSUME NEW j \in Jobs, NEW a \in Ids, NEW p \in Players, ProfileSet(j, a, p) \/ DocumentAdd(j, a, p)
      PROVE  Same
  BY <1>5 DEF ProfileSet, DocumentAdd
<1>6. ASSUME UNCHANGED vars PROVE Same
  BY <1>6 DEF vars
<1>7. \A j \in Jobs : ~Fail(j) /\ ~Crash(j)
  BY FaultsGrow
<1> HIDE DEF mongo, lock, work, step, seen, history, Same
<1>8. Same \/ \E j \in Jobs, a \in Ids : RecordPush(j, a) \/ \E p \in Players : RecordSet(j, a, p)
  BY <1>1, <1>2, <1>3, <1>4, <1>5, <1>6, <1>7 DEF Next, Begin, Progress
<1> QED  BY <1>8 DEF Same

\* Every step keeps FollowInv.
LEMMA FollowStep ==
    ASSUME IInv, LockInv, Faultless, FollowInv, [Next]_vars PROVE FollowInv'
<1> SUFFICES ASSUME faults' = 0
             PROVE  /\ \A k \in Jobs : push'[k] # NoOne =>
                          /\ push'[k] \in holding'[k]
                          /\ \A b \in todo'[k] : IsOldest(b, todo'[k]) => board'[push'[k]] = b
                    /\ \A q \in Players : (\A k \in Jobs : push'[k] # q) => mirror'[q] = board'[q]
  BY DEF FollowInv, PushIsWritten, LeaderboardAgrees, IsOldest
<1>t. TypeOK /\ StageIdle /\ pc \in [Jobs -> PCs] /\ push \in [Jobs -> Players \cup {NoOne}]
  BY DEF IInv, TypeOK
<1>1. faults = 0 /\ ~rotted /\ LoopFindsNothing
  BY <1>t, FaultsGrow DEF Faultless
<1>2. \A k \in Jobs : push[k] # NoOne =>
        /\ push[k] \in holding[k]
        /\ \A b \in todo[k] : IsOldest(b, todo[k]) => board[push[k]] = b
  BY <1>1 DEF FollowInv, PushIsWritten
<1>3. \A q \in Players : (\A k \in Jobs : push[k] # q) => mirror[q] = board[q]
  BY <1>1 DEF FollowInv, LeaderboardAgrees
\* A job with a record on its way keeps its lock and its act.
<1>4. ASSUME NEW k \in Jobs, push[k] # NoOne
      PROVE  holding'[k] = holding[k] /\ todo'[k] = todo[k]
  <2>1. pc[k] \in {"checks", "acts"}
    BY <1>t, <1>4 DEF StageIdle
  <2>2. \A a \in Ids : ~FinishAct(k, a)
    BY <1>4 DEF FinishAct, Executing
  <2> QED  BY <1>t, <2>1, <2>2, WorkGoesOn
<1>5. CASE UNCHANGED <<board, mirror>> /\ \A k \in Jobs : push'[k] = push[k]
  BY <1>2, <1>3, <1>4, <1>5
<1>6. ASSUME NEW j \in Jobs, NEW a \in Ids, RecordPush(j, a)
      PROVE  /\ \A k \in Jobs : push'[k] # NoOne =>
                   /\ push'[k] \in holding'[k]
                   /\ \A b \in todo'[k] : IsOldest(b, todo'[k]) => board'[push'[k]] = b
             /\ \A q \in Players : (\A k \in Jobs : push'[k] # q) => mirror'[q] = board'[q]
  <2>1. /\ push[j] # NoOne /\ IsOldest(a, todo[j]) /\ a \in todo[j]
        /\ mirror' = [mirror EXCEPT ![push[j]] = a]
        /\ UNCHANGED board
        /\ push'[j] = NoOne /\ \A k \in Jobs \ {j} : push'[k] = push[k]
    BY <1>t, <1>1, <1>6 DEF RecordPush, mongo, IsOldest
  <2>2. board[push[j]] = a /\ push[j] \in Players
    BY <1>t, <1>2, <2>1
  <2>3. \A q \in Players : mirror'[q] = IF q = push[j] THEN a ELSE mirror[q]
    BY <1>t, <2>1 DEF TypeOK
  <2>4. ASSUME NEW k \in Jobs, push'[k] # NoOne
        PROVE  /\ push'[k] \in holding'[k]
               /\ \A b \in todo'[k] : IsOldest(b, todo'[k]) => board'[push'[k]] = b
    BY <1>2, <1>4, <2>1, <2>4
  <2>5. ASSUME NEW q \in Players, \A k \in Jobs : push'[k] # q PROVE mirror'[q] = board'[q]
    <3>1. CASE q = push[j]
      BY <2>1, <2>2, <2>3, <3>1
    <3>2. CASE q # push[j]
      BY <1>3, <2>1, <2>3, <2>5, <3>2
    <3> QED  BY <3>1, <3>2
  <2> QED  BY <2>4, <2>5
<1>7. ASSUME NEW j \in Jobs, NEW a \in Ids, NEW p \in Players, RecordSet(j, a, p)
      PROVE  /\ \A k \in Jobs : push'[k] # NoOne =>
                   /\ push'[k] \in holding'[k]
                   /\ \A b \in todo'[k] : IsOldest(b, todo'[k]) => board'[push'[k]] = b
             /\ \A q \in Players : (\A k \in Jobs : push'[k] # q) => mirror'[q] = board'[q]
  <2>1. /\ Executing(j, a) /\ p \in targets[j] /\ p \in body[a][RecordsState]
        /\ push[j] = NoOne /\ a \in todo[j] /\ IsOldest(a, todo[j])
        /\ UNCHANGED <<mirror, todo, holding>>
    BY <1>7 DEF RecordSet, Entries, Pending, Executing, IsOldest, lock
  <2>2. p \in holding[j]
    <3>1. j \in Codes \cup Visits /\ RecordsState \in LockedStages
      BY <1>1, <2>1 DEF LoopFindsNothing, Jobs, LockedStages
    <3> QED  BY <1>1, <2>1, <3>1, WriterHolds
  <2>3. \A k \in Jobs : push[k] # p
    BY <1>2, <1>t, <2>1, <2>2 DEF LockInv, LeasesDisjoint
  <2>4. CASE UNCHANGED <<board, push>>
    BY <1>2, <1>3, <2>1, <2>4
  <2>5. CASE board' = [board EXCEPT ![p] = a] /\ push' = [push EXCEPT ![j] = p]
    <3>1. /\ \A q \in Players : board'[q] = IF q = p THEN a ELSE board[q]
          /\ push'[j] = p /\ \A k \in Jobs \ {j} : push'[k] = push[k]
      BY <1>t, <2>5 DEF TypeOK
    <3>2. \A b \in todo[j] : IsOldest(b, todo[j]) => b = a
      <4> SUFFICES ASSUME NEW b \in todo[j], IsOldest(b, todo[j]) PROVE b = a
        OBVIOUS
      <4>1. a \in Int /\ b \in Int
        BY <1>t, CountsType DEF Ids
      <4>2. a <= b /\ b <= a
        BY <2>1 DEF IsOldest
      <4> QED  BY <4>1, <4>2
    <3>3. ASSUME NEW k \in Jobs, push'[k] # NoOne
          PROVE  /\ push'[k] \in holding'[k]
                 /\ \A b \in todo'[k] : IsOldest(b, todo'[k]) => board'[push'[k]] = b
      <4>1. CASE k = j
        BY <2>1, <2>2, <3>1, <3>2, <4>1
      <4>2. CASE k # j
        <5>1. push[k] \in Players /\ push[k] # p /\ push'[k] = push[k] /\ push[k] # NoOne
          BY <1>t, <2>3, <3>1, <3>3, <4>2
        <5> QED  BY <1>2, <2>1, <3>1, <5>1
      <4> QED  BY <4>1, <4>2
    <3>4. ASSUME NEW q \in Players, \A k \in Jobs : push'[k] # q PROVE mirror'[q] = board'[q]
      <4>1. q # p /\ \A k \in Jobs : push[k] # q
        BY <2>1, <3>1, <3>4
      <4> QED  BY <1>3, <2>1, <3>1, <4>1
    <3> QED  BY <3>3, <3>4
  <2> QED  BY <1>7, <2>4, <2>5 DEF RecordSet
<1> QED  BY <1>t, <1>5, <1>6, <1>7, RecordWriters

\* Init has FollowInv.
LEMMA FollowInit == Init => FollowInv
BY DEF Init, FollowInv, PushIsWritten, LeaderboardAgrees

\* Without faults the leaderboards in Redis show the records of MongoDB, for
\* every player of whom no record is between the two: two jobs never have a
\* record of the same player on its way, the second of which would be lost.
THEOREM MirrorFollows == Spec => []LeaderboardAgrees
<1> DEFINE I == IInv /\ LockInv /\ CreatorDoesAll /\ Faultless /\ FollowInv
<1>1. Init => I
  BY IInvInit, LockInit, FaultlessInit, FollowInit
<1>2. I /\ [Next]_vars => I'
  <2> SUFFICES ASSUME I, [Next]_vars PROVE I'
    OBVIOUS
  <2>1. IInv' /\ LockInv' /\ Faultless' /\ FollowInv'
    BY IInvStep, LockStep, FaultlessStep, FollowStep
  <2>2. CreatorDoesAll'
    BY CreatorStep DEF IInv
  <2> QED  BY <2>1, <2>2
<1>3. I => LeaderboardAgrees
  BY DEF FollowInv
<1> QED  BY <1>1, <1>2, <1>3, PTL DEF Spec

(***************************************************************************)
(* Without faults and visits profiles are written in the order of the acts.*)
(***************************************************************************)

\* No profile is newer than the last id.
ProfilesAreIssued == \A p \in Players : profile[p] <= counter

\* A function that looks at another player finds acts that name him in the
\* journal of battles at most; the act of a function is newer than the
\* profiles that it is to change.
Ordered ==
    faults = 0 => \A j \in Codes :
        /\ pc[j] = "checks" => \A a \in todo[j], p \in targets[j], s \in LockedStages :
                                   p \notin body[a][s]
        /\ pc[j] = "acts" => \A a \in todo[j] : \A p \in body[a][ProfileState] : profile[p] <= a

\* Every step keeps ProfilesAreIssued.
LEMMA IssuedStep ==
    ASSUME IInv, ProfilesAreIssued, [Next]_vars PROVE ProfilesAreIssued'
<1> SUFFICES ASSUME NEW p \in Players PROVE profile'[p] <= counter'
  BY DEF ProfilesAreIssued
<1>t. /\ TypeOK /\ Grows /\ counter \in Nat /\ counter' \in Nat /\ counter <= counter'
      /\ profile[p] \in Int /\ profile[p] <= counter
  <2>1. TypeOK /\ TypeOK'
    BY IInvStep DEF IInv
  <2> QED  BY SMTT(60), <2>1, GrowsStep DEF TypeOK, Grows, ProfilesAreIssued
<1>1. CASE profile'[p] = profile[p]
  BY <1>t, <1>1
<1>2. ASSUME NEW k \in Jobs, WriteOnly(k, p) PROVE profile'[p] <= counter'
  BY <1>t, <1>2 DEF WriteOnly, TypeOK
<1>3. ASSUME NEW k \in Jobs, NEW a \in Ids, ProfileSet(k, a, p) PROVE profile'[p] <= counter'
  <2>1. profile'[p] = a /\ a \in todo[k] /\ counter' = counter
    BY <1>t, <1>3 DEF ProfileSet, Executing, IsOldest, TypeOK
  <2> QED  BY <2>1, <1>t DEF IInv, CopiesSound
<1> QED  BY <1>t, <1>1, <1>2, <1>3, ProfileWriters

\* A function begins to carry out acts when it commits, or looks at another.
LEMMA NewWork ==
    ASSUME TypeOK, [Next]_vars, NEW k \in Codes
    PROVE  /\ pc'[k] = "acts" /\ pc[k] # "acts" => \E b \in Bodies : Commit(k, b)
           /\ pc'[k] = "checks" /\ pc[k] # "checks" => \E p \in Players : CheckOther(k, p)
<1>t. pc \in [Jobs -> PCs] /\ k \in Jobs
  BY DEF TypeOK, Jobs
<1> DEFINE Goal == /\ pc'[k] = "acts" /\ pc[k] # "acts" => \E b \in Bodies : Commit(k, b)
                   /\ pc'[k] = "checks" /\ pc[k] # "checks" => \E p \in Players : CheckOther(k, p)
<1> USE DEF GoTo
<1>1. ASSUME NEW j \in Jobs, LockQuiet(j) PROVE Goal
  BY <1>t, <1>1 DEF LockQuiet
<1>2. ASSUME NEW j \in Jobs, \/ TakeLock(j) \/ LockRefused(j) \/ ReturnLock(j) \/ Fail(j) \/ Crash(j)
                             \/ Expire(j) \/ RotLock(j) \/ LoopPage(j) \/ BeginVisit(j)
      PROVE  Goal
  BY <1>t, <1>2 DEF TakeLock, LockRefused, ReturnLock, Fail, Crash, Expire, RotLock, LoopPage, BeginVisit
<1>3. ASSUME NEW j \in Jobs, NEW players \in SUBSET Players, BeginCode(j, players) PROVE Goal
  BY <1>t, <1>3 DEF BeginCode
<1>4. ASSUME NEW j \in Jobs, NEW p \in Players, CheckOther(j, p) PROVE Goal
  <2>1. (\A i \in Jobs \ {j} : pc'[i] = pc[i]) /\ pc'[j] \in {pc[j], "checks"}
    BY <1>t, <1>4 DEF CheckOther
  <2> QED  BY <1>t, <1>4, <2>1
<1>5. ASSUME NEW j \in Jobs, NEW b \in Bodies, Commit(j, b) PROVE Goal
  <2>1. (\A i \in Jobs \ {j} : pc'[i] = pc[i]) /\ pc'[j] = "acts"
    BY <1>t, <1>5 DEF Commit
  <2> QED  BY <1>t, <1>5, <2>1
<1>6. ASSUME NEW j \in Jobs, NEW a \in Ids, FinishAct(j, a) PROVE Goal
  <2>1. AfterAct(j, a)
    BY <1>6 DEF FinishAct
  <2>2. pc'[k] = pc[k] \/ pc'[k] \notin {"acts", "checks"}
    <3> HIDE DEF GoTo
    <3> QED  BY <1>t, <2>1, AfterValue
  <2> QED  BY <2>2
<1>7. CASE UNCHANGED vars
  BY <1>7 DEF vars
<1> HIDE DEF Goal, GoTo
<1>8. ASSUME NEW j \in Jobs, LockKind(j) PROVE Goal
  BY <1>2, <1>3, <1>4, <1>5, <1>6, <1>8 DEF LockKind
<1>9. Goal
  <2>1. CASE UNCHANGED vars
    BY <2>1 DEF vars, Goal
  <2> QED  BY <1>1, <1>8, <2>1, LockKinds
<1> QED  BY <1>9 DEF Goal

\* Every step keeps Ordered.
LEMMA OrderStep ==
    ASSUME Visits = {}, IInv, LockInv, Faultless, ProfilesAreIssued, Ordered, [Next]_vars
    PROVE  Ordered'
<1> SUFFICES ASSUME faults' = 0, NEW k \in Codes
             PROVE  /\ pc'[k] = "checks" => \A a \in todo'[k], p \in targets'[k], s \in LockedStages :
                                               p \notin body'[a][s]
                    /\ pc'[k] = "acts" => \A a \in todo'[k] :
                                             \A p \in body'[a][ProfileState] : profile'[p] <= a
  BY DEF Ordered
<1>t. TypeOK /\ k \in Jobs /\ Grows /\ pc \in [Jobs -> PCs]
  <2>1. TypeOK
    BY DEF IInv
  <2> QED  BY SMTT(60), <2>1, GrowsStep DEF Jobs, TypeOK
<1>1. faults = 0 /\ ~rotted /\ LoopFindsNothing /\ ActsHaveCreators
  BY <1>t, FaultsGrow DEF Faultless
<1>2. /\ pc[k] = "checks" => \A a \in todo[k], p \in targets[k], s \in LockedStages : p \notin body[a][s]
      /\ pc[k] = "acts" => \A a \in todo[k] : \A p \in body[a][ProfileState] : profile[p] <= a
  BY <1>1 DEF Ordered
<1>3. \A a \in todo[k] : a \in Ids /\ body'[a] = body[a]
  BY <1>t, CountsType DEF IInv, CopiesSound, Grows, Ids
\* A function that was at it has no other acts than before.
<1>4. ASSUME pc[k] \in {"checks", "acts"}, pc'[k] \in {"checks", "acts"}
      PROVE  pc'[k] = pc[k] /\ todo'[k] \subseteq todo[k] /\ targets'[k] = targets[k]
  <2>1. ASSUME NEW a \in Ids, FinishAct(k, a)
        PROVE  pc'[k] = pc[k] /\ todo'[k] \subseteq todo[k] /\ targets'[k] = targets[k]
    <3>1. AfterAct(k, a)
      BY <2>1 DEF FinishAct
    <3>2. /\ todo'[k] = todo[k] \ {a}
          /\ todo'[k] # {} => targets'[k] = targets[k] /\ pc'[k] = pc[k]
          /\ todo'[k] = {} => pc'[k] \notin {"checks", "acts"}
      BY <1>t, <3>1, AfterValue
    <3> QED  BY <1>4, <3>2
  <2> QED  BY <1>t, <1>4, <2>1, WorkGoesOn
\* A function that has a part to write holds its player.
<1>5. ASSUME NEW a \in todo[k], pc[k] = "acts", NEW s \in LockedStages, NEW p \in body[a][s]
      PROVE  p \in holding[k]
  BY <1>t, <1>1, <1>5 DEF LockInv, LocksKept, KeepsToItsNames, Working
<1>6. ASSUME pc'[k] = "checks" PROVE \A a \in todo'[k], p \in targets'[k], s \in LockedStages : p \notin body'[a][s]
  <2>1. CASE pc[k] \in {"checks", "acts"}
    <3>1. pc[k] = "checks" /\ todo'[k] \subseteq todo[k] /\ targets'[k] = targets[k]
      BY <1>4, <1>6, <2>1
    <3> QED  BY <1>2, <1>3, <3>1
  <2>2. CASE pc[k] \notin {"checks", "acts"}
    <3>1. PICK p \in Players : CheckOther(k, p)
      BY <1>t, <1>6, <2>2, NewWork
    <3>2. /\ pc[k] = "code" /\ p \in who[k] /\ Fetch(k, ActsOf(p), {p}) /\ UNCHANGED body
      BY <1>6, <2>2, <3>1 DEF CheckOther, mongo
    <3>3. todo'[k] = ActsOf(p) /\ targets'[k] = {p}
      BY <1>t, <3>2, FetchValue
    <3>4. ASSUME NEW a \in acts, NEW s \in LockedStages, p \in body[a][s] PROVE FALSE
      <4>1. PICK i \in Codes : pc[i] = "acts" /\ a \in todo[i]
        BY <1>1 DEF ActsHaveCreators
      <4>2. i \in Jobs /\ i # k
        BY <3>2, <4>1 DEF Jobs
      <4>3. p \in who[i] /\ holding[i] = who[i]
        BY <1>1, <3>4, <4>1, <4>2 DEF LockInv, LocksKept, KeepsToItsNames, Working
      <4>4. p \in holding[k]
        BY <1>t, <1>1, <3>2 DEF LockInv, LocksKept, Working
      <4> QED  BY <1>t, <4>2, <4>3, <4>4 DEF LockInv, LeasesDisjoint
    <3> QED  BY <3>2, <3>3, <3>4 DEF ActsOf
  <2> QED  BY <2>1, <2>2
<1>7. ASSUME pc'[k] = "acts", NEW a \in todo'[k], NEW p \in body'[a][ProfileState] PROVE profile'[p] <= a
  <2>0. ProfileState \in LockedStages
    BY DEF LockedStages
  <2>1. CASE pc[k] \in {"checks", "acts"}
    <3>1. pc[k] = "acts" /\ a \in todo[k] /\ p \in body[a][ProfileState] /\ profile[p] <= a
      BY <1>2, <1>3, <1>4, <1>7, <2>1
    <3>2. p \in holding[k] /\ p \in Players
      <4>1. p \in who[k] /\ who[k] = holding[k]
        BY <1>t, <1>1, <2>0, <3>1 DEF LockInv, LocksKept, KeepsToItsNames, Working
      <4>2. body[a] \in Bodies \cup {Nothing}
        BY <1>t, <1>3, <3>1 DEF TypeOK
      <4> QED  BY <3>1, <4>1, <4>2 DEF Nothing
    <3>3. CASE profile'[p] = profile[p]
      BY <3>1, <3>3
    <3>4. ASSUME NEW i \in Jobs, WriteOnly(i, p) PROVE FALSE
      <4>1. i # k /\ p \in who[i] /\ pc[i] = "code"
        BY <3>1, <3>4 DEF WriteOnly
      <4>2. p \in holding[i]
        BY <1>1, <4>1 DEF LockInv, LocksKept, Working
      <4> QED  BY <1>t, <3>2, <4>1, <4>2 DEF LockInv, LeasesDisjoint
    <3>5. ASSUME NEW i \in Jobs, NEW c \in Ids, ProfileSet(i, c, p) PROVE profile'[p] <= a
      <4>1. /\ Executing(i, c) /\ p \in targets[i] /\ p \in body[c][ProfileState]
            /\ IsOldest(c, todo[i]) /\ c \in todo[i] /\ profile'[p] = c
        BY <1>t, <3>2, <3>5 DEF ProfileSet, Entries, Pending, Executing, IsOldest, TypeOK
      <4>2. i \in Codes
        BY <1>1, <4>1 DEF LoopFindsNothing, Jobs
      <4>3. p \in holding[i]
        BY <1>1, <2>0, <4>1, <4>2, WriterHolds
      <4>4. i = k
        BY <1>t, <3>2, <4>3 DEF LockInv, LeasesDisjoint
      <4> QED  BY <3>1, <4>1, <4>4 DEF IsOldest
    <3> QED  BY <1>t, <3>2, <3>3, <3>4, <3>5, ProfileWriters
  <2>2. CASE pc[k] \notin {"checks", "acts"}
    <3>1. PICK d \in Bodies : Commit(k, d)
      BY <1>t, <1>7, <2>2, NewWork
    <3>2. /\ todo'[k] = {counter + 1} /\ UNCHANGED profile /\ counter + 1 \in Ids
          /\ body'[counter + 1] = d
      BY <1>t, <3>1 DEF Commit, TypeOK, Ids
    <3>3. p \in Players /\ a = counter + 1
      BY <1>7, <3>2
    <3>4. profile[p] <= counter /\ profile[p] \in Int /\ counter \in Int
      BY <1>t, <3>3 DEF ProfilesAreIssued, TypeOK
    <3> QED  BY <3>2, <3>3, <3>4
  <2> QED  BY <2>1, <2>2
<1> QED  BY <1>6, <1>7

\* Init has both.
LEMMA OrderInit == Init => ProfilesAreIssued /\ Ordered
BY DEF Init, ProfilesAreIssued, Ordered, Jobs

\* Without faults functions and the loop change a profile in the order in
\* which they persisted.  getProfile is left out: it may apply an act that is
\* finished and overwritten (the finding acts_stale).
THEOREM ActsAreOrdered ==
    ASSUME Visits = {}
    PROVE  Spec => FunctionsSerialise
<1> DEFINE I == IInv /\ LockInv /\ CreatorDoesAll /\ Faultless /\ ProfilesAreIssued /\ Ordered
           Newer == faults' = 0 => \A p \in Players : profile'[p] >= profile[p]
<1>1. Init => I
  BY IInvInit, LockInit, FaultlessInit, OrderInit
<1>2. I /\ [Next]_vars => I'
  <2> SUFFICES ASSUME I, [Next]_vars PROVE I'
    OBVIOUS
  <2>1. IInv' /\ LockInv' /\ Faultless' /\ ProfilesAreIssued' /\ Ordered'
    BY IInvStep, LockStep, FaultlessStep, IssuedStep, OrderStep
  <2>2. CreatorDoesAll'
    BY CreatorStep DEF IInv
  <2> QED  BY <2>1, <2>2
<1>3. I /\ [Next]_vars => [Newer]_vars
  <2> SUFFICES ASSUME I, [Next]_vars, faults' = 0, NEW p \in Players PROVE profile'[p] >= profile[p]
    OBVIOUS
  <2>t. TypeOK /\ profile[p] \in Int /\ profile[p] <= counter /\ counter \in Nat
    BY DEF IInv, TypeOK, ProfilesAreIssued
  <2>1. faults = 0 /\ ~rotted /\ LoopFindsNothing
    BY <2>t, FaultsGrow DEF Faultless
  <2>2. CASE profile'[p] = profile[p]
    BY <2>t, <2>2
  <2>3. ASSUME NEW k \in Jobs, WriteOnly(k, p) PROVE profile'[p] >= profile[p]
    <3>1. profile'[p] = counter + 1
      BY <2>t, <2>3 DEF WriteOnly, TypeOK
    <3> QED  BY <2>t, <3>1
  <2>4. ASSUME NEW k \in Jobs, NEW a \in Ids, ProfileSet(k, a, p) PROVE profile'[p] >= profile[p]
    <3>1. /\ Executing(k, a) /\ p \in targets[k] /\ p \in body[a][ProfileState]
          /\ a \in todo[k] /\ profile'[p] = a /\ pc[k] \in {"checks", "acts"}
      BY <2>t, <2>4 DEF ProfileSet, Entries, Pending, Executing, IsOldest, TypeOK
    <3>2. k \in Codes /\ ProfileState \in LockedStages
      BY <2>1, <3>1 DEF LoopFindsNothing, Jobs, LockedStages
    <3>3. profile[p] <= a
      BY <2>1, <3>1, <3>2 DEF Ordered
    <3> QED  BY <2>t, <3>1, <3>3 DEF Ids
  <2> QED  BY <2>t, <2>2, <2>3, <2>4, ProfileWriters
<1>4. FunctionsSerialise <=> [][Newer]_vars
  BY DEF FunctionsSerialise
<1> HIDE DEF Newer
<1> QED  BY <1>1, <1>2, <1>3, <1>4, PTL DEF Spec
=============================================================================
