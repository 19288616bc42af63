-------------------------- MODULE AtomicActsProofs --------------------------
(***************************************************************************)
(* Theorems about atomic acts, for every set of players and jobs, every    *)
(* set of acts they may ask for and every bound.                           *)
(*                                                                         *)
(* The argument: what a job has in hand is a copy of an act, and no count  *)
(* in any copy - the stored one, the copy as fetched, the copy as advanced *)
(* - is ahead of what was applied (Sound).  Nothing else about the copies  *)
(* is known, they may be as old as they like.                              *)
(***************************************************************************)
EXTENDS AtomicActs, TLAPS

USE JobsAssumption, BoundsAssumption, BodiesAssumption, SwitchesAssumption
    DEF Stages, States, ProfileState, RecordsState, ReceiptsState, BjeState, DoneState

\* A count per player that is not ahead of what was applied of act a.
Sound(a, counts) ==
    \A p \in Players, s \in Stages :
        p \in body[a][s] /\ counts[p] > s => <<a, p, s>> \in done

StoredSound == \A a \in 1..counter : Sound(a, st[a])

CopiesSound ==
    \A j \in Jobs : \A a \in todo[j] : a <= counter /\ Sound(a, cs[j][a])

\* Between MongoDB and Redis a record counts as applied, not yet as over.
PushSound ==
    \A j \in Jobs : push[j] # NoOne =>
        /\ stage[j] = RecordsState
        /\ \A a \in todo[j] : IsOldest(a, todo[j]) =>
              /\ <<a, push[j], RecordsState>> \in done
              /\ cs[j][a][push[j]] = RecordsState

\* In the current act no target is behind the stage.
StageReached ==
    \A j \in Jobs : \A a \in todo[j] : IsOldest(a, todo[j]) =>
        \A p \in targets[j] : cs[j][a][p] >= stage[j]

\* What a visit owes is applied, or it has the act in hand.
VisitOwes ==
    \A j \in Visits : pc[j] \in {"asks", "acts", "leaves", "ended"} =>
        /\ before[j] <= counter
        /\ pc[j] \in {"asks", "acts"} => Self[j] \in targets[j]
        /\ \A a \in 1..before[j], s \in Stages : Self[j] \in body[a][s] =>
              \/ <<a, Self[j], s>> \in done
              \/ pc[j] \in {"asks", "acts"} /\ a \in todo[j]

\* Ids that were not given away name nothing; a job that is not at work on an
\* act begins with the first stage.
Unissued == \A a \in Ids : a > counter => body[a] = Nothing

StageIdle ==
    \A j \in Jobs : pc[j] \notin {"checks", "acts"} =>
        stage[j] = ProfileState /\ push[j] = NoOne

IInv ==
    /\ TypeOK
    /\ Unissued
    /\ StoredSound
    /\ CopiesSound
    /\ StageIdle
    /\ PushSound
    /\ StageReached
    /\ DeletedIsDone
    /\ VisitOwes

(***************************************************************************)
(* TypeOK is inductive.                                                    *)
(***************************************************************************)
LEMMA TypeInit == Init => TypeOK
<1> SUFFICES ASSUME Init PROVE TypeOK
  OBVIOUS
<1>1. NoStates \in [Ids -> [Players -> States]]
  BY DEF NoStates
<1>2. holding \in [Jobs -> SUBSET Names] /\ trusted \subseteq Jobs
  BY DEF Init, Lease!Init
<1>3. acts \subseteq 1..counter /\ done \subseteq Ids \X Players \X Stages
  BY DEF Init
<1>4. /\ counter \in 0..MaxId
      /\ body \in [Ids -> Bodies \cup {Nothing}]
      /\ profile \in [Players -> 0..MaxId]
      /\ board \in [Players -> 0..MaxId]
      /\ mirror \in [Players -> 0..MaxId]
  BY DEF Init
<1>5. /\ st \in [Ids -> [Players -> States]]
      /\ copy \in [Jobs -> [Ids -> [Players -> States]]]
      /\ cs \in [Jobs -> [Ids -> [Players -> States]]]
  BY <1>1 DEF Init
<1>6. /\ pc \in [Jobs -> PCs]
      /\ who \in [Jobs -> SUBSET Names]
      /\ todo \in [Jobs -> SUBSET Ids]
      /\ targets \in [Jobs -> SUBSET Players]
      /\ stage \in [Jobs -> States]
  BY DEF Init, PCs
<1>7. /\ saved \in [Jobs -> BOOLEAN]
      /\ push \in [Jobs -> Players \cup {NoOne}]
      /\ checked \in [Jobs -> SUBSET Players]
      /\ before \in [Jobs -> 0..MaxId]
      /\ refresh \in Loopers \cup {NoOne}
  BY DEF Init
<1>8. faults \in 0..MaxFaults
  BY DEF Init
<1>9. rotted \in BOOLEAN
  BY Zenon DEF Init
<1> QED  BY ONLY <1>2, <1>3, <1>4, <1>5, <1>6, <1>7, <1>8, <1>9 DEF TypeOK

\* The states of a new act are states of the players.
LEMMA FirstStatesType ==
    ASSUME NEW b PROVE FirstStates(b) \in [Players -> States]
BY DEF FirstStates

\* The updates of the local variables keep their types.
LEMMA FetchType ==
    ASSUME TypeOK, NEW j \in Jobs, NEW some \in SUBSET Ids, NEW whom \in SUBSET Players,
           Fetch(j, some, whom)
    PROVE  /\ todo' \in [Jobs -> SUBSET Ids]
           /\ copy' \in [Jobs -> [Ids -> [Players -> States]]]
           /\ cs' \in [Jobs -> [Ids -> [Players -> States]]]
           /\ targets' \in [Jobs -> SUBSET Players]
BY DEF TypeOK, Fetch

\* Dropping the copies leaves values of the types.
LEMMA DropType ==
    ASSUME TypeOK, NEW j \in Jobs, DropCopies(j)
    PROVE  /\ copy' \in [Jobs -> [Ids -> [Players -> States]]]
           /\ cs' \in [Jobs -> [Ids -> [Players -> States]]]
           /\ targets' \in [Jobs -> SUBSET Players]
<1>1. NoStates \in [Ids -> [Players -> States]]
  BY DEF NoStates
<1> QED  BY <1>1 DEF TypeOK, DropCopies

\* So does forgetting all that a job had read.
LEMMA ForgetType ==
    ASSUME TypeOK, NEW j \in Jobs, Forget(j)
    PROVE  /\ who' \in [Jobs -> SUBSET Names]
           /\ todo' \in [Jobs -> SUBSET Ids]
           /\ copy' \in [Jobs -> [Ids -> [Players -> States]]]
           /\ cs' \in [Jobs -> [Ids -> [Players -> States]]]
           /\ targets' \in [Jobs -> SUBSET Players]
           /\ stage' \in [Jobs -> States]
           /\ saved' \in [Jobs -> BOOLEAN]
           /\ push' \in [Jobs -> Players \cup {NoOne}]
           /\ checked' \in [Jobs -> SUBSET Players]
           /\ before' \in [Jobs -> 0..MaxId]
<1>1. DropCopies(j)
  BY DEF Forget
<1> QED  BY SMTT(60), <1>1, DropType DEF TypeOK, Forget

\* States that are raised by one, below the last, are states.
LEMMA AdvanceType ==
    ASSUME TypeOK, NEW j \in Jobs, NEW a \in Ids, NEW some \in SUBSET Players,
           \A p \in some : cs[j][a][p] < DoneState,
           Advance(j, a, some)
    PROVE  cs' \in [Jobs -> [Ids -> [Players -> States]]]
<1> DEFINE next == [p \in Players |-> IF p \in some THEN cs[j][a][p] + 1 ELSE cs[j][a][p]]
<1>1. cs[j][a] \in [Players -> States]
  BY DEF TypeOK
<1>2. \A p \in Players : cs[j][a][p] \in 0..4
  BY <1>1
<1>3. next \in [Players -> States]
  BY <1>2
<1>4. cs' = [cs EXCEPT ![j][a] = next]
  BY DEF Advance, TypeOK
<1> HIDE DEF next
<1> QED  BY <1>3, <1>4 DEF TypeOK

\* What is written to the collection is of its type.
LEMMA SaveType ==
    ASSUME TypeOK, NEW j \in Jobs, NEW a \in Ids, SaveTo(j, a)
    PROVE  st' \in [Ids -> [Players -> States]]
<1> DEFINE next == [p \in Players |-> IF cs[j][a][p] # copy[j][a][p] THEN cs[j][a][p] ELSE st[a][p]]
<1>1. cs[j][a] \in [Players -> States] /\ st[a] \in [Players -> States]
  BY DEF TypeOK
<1>2. next \in [Players -> States]
  BY <1>1
<1>3. st' = IF a \notin acts THEN st ELSE [st EXCEPT ![a] = next]
  BY DEF SaveTo, TypeOK
<1> HIDE DEF next
<1> QED  BY <1>2, <1>3 DEF TypeOK

\* The steps of the lease keep the types of the locks.
LEMMA LeaseType ==
    ASSUME TypeOK, NEW j \in Jobs,
           \/ Lease!Take(j, who[j]) /\ trusted' = trusted \cup {j}
           \/ Lease!Lapse({j}, {j}) \/ Lease!Lapse({j}, {}) \/ Lease!Lapse({}, {j})
    PROVE  holding' \in [Jobs -> SUBSET Names] /\ trusted' \subseteq Jobs
BY ZenonT(60) DEF TypeOK, Lease!Take, Lease!Lapse

\* The acts of the collection have numbers that were issued.
LEMMA ActsAreIds == TypeOK => acts \subseteq Ids
BY DEF TypeOK, Ids

\* A cloud function and a visit run for a player.
LEMMA SelfType == \A j \in Codes \cup Visits : Self[j] \in Players
OBVIOUS

\* Every step keeps the types.
LEMMA TypeStep == TypeOK /\ PushSound /\ [Next]_vars => TypeOK'
<1> SUFFICES ASSUME TypeOK, PushSound, [Next]_vars PROVE TypeOK'
  OBVIOUS
<1> USE DEF mongo, lock, work, step, seen, history, GoTo
<1>1. ASSUME NEW j \in Jobs, TakeLock(j) PROVE TypeOK'
  BY <1>1, LeaseType DEF TypeOK, TakeLock, PCs
<1>2. ASSUME NEW j \in Jobs, LockRefused(j) PROVE TypeOK'
  BY <1>2, ForgetType DEF TypeOK, LockRefused, PCs
<1>3. ASSUME NEW j \in Jobs, ReturnLock(j) PROVE TypeOK'
  BY ZenonT(60), <1>3, ForgetType, LeaseType DEF TypeOK, ReturnLock, PCs
<1>4. ASSUME NEW j \in Jobs, NEW players \in SUBSET Players, BeginCode(j, players) PROVE TypeOK'
  BY <1>4 DEF TypeOK, BeginCode, PCs, Names
<1>5. ASSUME NEW j \in Jobs, NEW p \in Players, CheckOther(j, p) PROVE TypeOK'
  <2>1. CASE ActsOf(p) = {}
    <3>1. checked' = [checked EXCEPT ![j] = @ \cup {p}] /\ UNCHANGED <<pc, work>>
      BY <1>5, <2>1 DEF CheckOther
    <3>2. checked' \in [Jobs -> SUBSET Players]
      BY <3>1 DEF TypeOK
    <3> QED  BY <1>5, <3>1, <3>2 DEF TypeOK, CheckOther
  <2>2. CASE ActsOf(p) # {}
    <3>1. ActsOf(p) \in SUBSET Ids /\ {p} \in SUBSET Players
      BY ActsAreIds DEF ActsOf
    <3>2. Fetch(j, ActsOf(p), {p}) /\ GoTo(j, "checks") /\ UNCHANGED checked
      BY <1>5, <2>2 DEF CheckOther
    <3>3. /\ todo' \in [Jobs -> SUBSET Ids]
          /\ copy' \in [Jobs -> [Ids -> [Players -> States]]]
          /\ cs' \in [Jobs -> [Ids -> [Players -> States]]]
          /\ targets' \in [Jobs -> SUBSET Players]
      BY <3>1, <3>2, FetchType
    <3>4. pc' \in [Jobs -> PCs]
      BY <3>2 DEF TypeOK, PCs
    <3> QED  BY <1>5, <3>2, <3>3, <3>4 DEF TypeOK, CheckOther
  <2> QED  BY <2>1, <2>2
<1>6. ASSUME NEW j \in Jobs, NEW p \in Players, WriteOnly(j, p) PROVE TypeOK'
  <2>1. /\ counter + 1 \in Ids /\ counter' = counter + 1
        /\ profile' = [profile EXCEPT ![p] = counter + 1] /\ GoTo(j, "leaves")
        /\ UNCHANGED <<acts, body, st, board, done, mirror, refresh, lock, who, work, step, seen, history>>
    BY <1>6 DEF TypeOK, WriteOnly, Ids
  <2>2. counter' \in 0 .. MaxId /\ profile' \in [Players -> 0 .. MaxId]
    BY <2>1 DEF TypeOK, Ids
  <2>3. acts \subseteq 1 .. counter'
    BY <2>1, <2>2 DEF TypeOK
  <2>4. pc' \in [Jobs -> PCs]
    BY <2>1 DEF TypeOK, PCs
  <2> QED  BY <2>1, <2>2, <2>3, <2>4 DEF TypeOK
<1>7. ASSUME NEW j \in Jobs, NEW b \in Bodies, Commit(j, b) PROVE TypeOK'
  <2>1. counter + 1 \in Ids
    BY SMTT(60), <1>7 DEF TypeOK, Commit, Ids
  <2>2. FirstStates(b) \in [Players -> States] /\ NoStates \in [Ids -> [Players -> States]]
    BY FirstStatesType DEF NoStates
  <2>3. /\ st' \in [Ids -> [Players -> States]]
        /\ copy' \in [Jobs -> [Ids -> [Players -> States]]]
        /\ cs' \in [Jobs -> [Ids -> [Players -> States]]]
    BY <1>7, <2>1, <2>2 DEF TypeOK, Commit
  <2>4. /\ counter' \in 0..MaxId
        /\ acts' \subseteq 1..counter'
        /\ body' \in [Ids -> Bodies \cup {Nothing}]
        /\ todo' \in [Jobs -> SUBSET Ids]
    BY <1>7, <2>1 DEF TypeOK, Commit, Ids
  <2>5. Touched(b) \subseteq Players
    BY DEF Touched
  <2>6. targets' \in [Jobs -> SUBSET Players] /\ pc' \in [Jobs -> PCs]
    BY <1>7, <2>5 DEF TypeOK, Commit, PCs
  <2> QED  BY <1>7, <2>3, <2>4, <2>6 DEF TypeOK, Commit
<1>8. ASSUME NEW j \in Jobs, EndCode(j) PROVE TypeOK'
  BY <1>8 DEF TypeOK, EndCode, PCs
<1>9. ASSUME NEW j \in Jobs, BeginVisit(j) PROVE TypeOK'
  <2>1. CASE ActsOf(Self[j]) = {}
    BY ZenonT(60), <1>9, <2>1 DEF TypeOK, BeginVisit, PCs
  <2>2. CASE ActsOf(Self[j]) # {}
    <3>1. ActsOf(Self[j]) \in SUBSET Ids
      BY ActsAreIds DEF ActsOf
    <3>2. {Self[j]} \in SUBSET Players
      BY <1>9 DEF BeginVisit
    <3>3. /\ Fetch(j, ActsOf(Self[j]), {Self[j]})
          /\ who' = [who EXCEPT ![j] = {Self[j]}]
          /\ GoTo(j, "asks")
      BY <1>9, <2>2 DEF BeginVisit
    <3>4. /\ todo' \in [Jobs -> SUBSET Ids]
          /\ copy' \in [Jobs -> [Ids -> [Players -> States]]]
          /\ cs' \in [Jobs -> [Ids -> [Players -> States]]]
          /\ targets' \in [Jobs -> SUBSET Players]
      BY <3>1, <3>2, <3>3, FetchType
    <3>5. pc' \in [Jobs -> PCs] /\ who' \in [Jobs -> SUBSET Names]
      BY <3>2, <3>3 DEF TypeOK, PCs, Names
    <3>6. before' \in [Jobs -> 0..MaxId]
      BY <1>9 DEF TypeOK, BeginVisit
    <3> QED  BY <1>9, <3>4, <3>5, <3>6 DEF TypeOK, BeginVisit
  <2> QED  BY <2>1, <2>2
<1>10. ASSUME NEW j \in Jobs, LoopStart(j) PROVE TypeOK'
  BY <1>10 DEF TypeOK, LoopStart, PCs
<1>11. ASSUME NEW j \in Jobs, LoopPage(j) PROVE TypeOK'
  <2>1. ASSUME NEW youngest \in acts,
               Fetch(j, Page(youngest), Players),
               who' = [who EXCEPT ![j] = {Cursor}],
               GoTo(j, "asks")
        PROVE  TypeOK'
    <3>1. Page(youngest) \subseteq Ids
      BY ActsAreIds DEF Page
    <3>2. who' \in [Jobs -> SUBSET Names]
      BY <2>1 DEF TypeOK, Names
    <3>3. /\ todo' \in [Jobs -> SUBSET Ids]
          /\ copy' \in [Jobs -> [Ids -> [Players -> States]]]
          /\ cs' \in [Jobs -> [Ids -> [Players -> States]]]
          /\ targets' \in [Jobs -> SUBSET Players]
      BY <2>1, <3>1, FetchType
    <3> QED  BY <1>11, <2>1, <3>2, <3>3 DEF TypeOK, LoopPage, PCs
  <2>2. ASSUME GoTo(j, "unlocks"), UNCHANGED <<who, work>> PROVE TypeOK'
    BY <1>11, <2>2 DEF TypeOK, LoopPage, PCs
  <2> QED  BY <1>11, <2>1, <2>2 DEF LoopPage
<1>12. ASSUME NEW j \in Jobs, LoopUnlock(j) PROVE TypeOK'
  BY <1>12 DEF TypeOK, LoopUnlock, PCs
<1>13. ASSUME NEW j \in Jobs, NEW a \in Ids, SaveStates(j, a) PROVE TypeOK'
  <2>1. st' \in [Ids -> [Players -> States]]
    BY <1>13, SaveType DEF SaveStates
  <2>2. copy' \in [Jobs -> [Ids -> [Players -> States]]]
    BY <1>13 DEF TypeOK, SaveStates
  <2> QED  BY <1>13, <2>1, <2>2 DEF TypeOK, SaveStates
<1>14. ASSUME NEW j \in Jobs, NEW a \in Ids, NEW p \in Players,
              ProfileSet(j, a, p) \/ RecordSet(j, a, p) \/ DocumentAdd(j, a, p)
       PROVE  TypeOK'
  <2>1. cs[j][a][p] = stage[j] /\ stage[j] \in Stages /\ stage[j] < 4
    BY <1>14 DEF ProfileSet, RecordSet, DocumentAdd, Entries, Pending
  <2>2. cs' \in [Jobs -> [Ids -> [Players -> States]]]
    <3>1. CASE UNCHANGED cs
      BY <3>1 DEF TypeOK
    <3>2. CASE Advance(j, a, {p})
      BY <2>1, <3>2, AdvanceType
    <3> QED  BY <1>14, <3>1, <3>2 DEF ProfileSet, RecordSet, DocumentAdd
  <2>3. done' \subseteq Ids \X Players \X Stages
    BY <1>14, <2>1 DEF TypeOK, ProfileSet, RecordSet, DocumentAdd
  <2>4. a \in 0..MaxId
    BY DEF Ids
  <2>5. /\ profile' \in [Players -> 0..MaxId]
        /\ board' \in [Players -> 0..MaxId]
        /\ push' \in [Jobs -> Players \cup {NoOne}]
    <3>1. CASE ProfileSet(j, a, p)
      BY <3>1, <2>4 DEF TypeOK, ProfileSet
    <3>2. CASE RecordSet(j, a, p)
      <4>1. /\ UNCHANGED profile
            /\ \/ UNCHANGED <<board, push>>
               \/ board' = [board EXCEPT ![p] = a] /\ push' = [push EXCEPT ![j] = p]
        BY <3>2 DEF RecordSet
      <4>2. profile' \in [Players -> 0..MaxId]
        BY <4>1 DEF TypeOK
      <4>3. board' \in [Players -> 0..MaxId]
        <5>1. board \in [Players -> 0..MaxId]
          BY DEF TypeOK
        <5> QED  BY ONLY <4>1, <2>4, <5>1
      <4>4. push \in [Jobs -> Players \cup {NoOne}]
        BY DEF TypeOK
      <4>5. push' \in [Jobs -> Players \cup {NoOne}]
        BY <4>1, <4>4
      <4> QED  BY <4>2, <4>3, <4>5
    <3>3. CASE DocumentAdd(j, a, p)
      BY <3>3 DEF TypeOK, DocumentAdd
    <3> QED  BY <1>14, <3>1, <3>2, <3>3
  <2> QED  BY ZenonT(60), <1>14, <2>2, <2>3, <2>5 DEF TypeOK, ProfileSet, RecordSet, DocumentAdd
<1>15. ASSUME NEW j \in Jobs, NEW a \in Ids, RecordPush(j, a) PROVE TypeOK'
  <2>1. push[j] \in Players /\ a \in todo[j] /\ IsOldest(a, todo[j])
    BY <1>15 DEF TypeOK, RecordPush, IsOldest
  <2>2. cs[j][a][push[j]] = RecordsState
    BY <1>15, <2>1 DEF RecordPush, PushSound
  <2>3. cs' \in [Jobs -> [Ids -> [Players -> States]]]
    BY <1>15, <2>1, <2>2, AdvanceType DEF RecordPush
  <2>4. a \in 0..MaxId
    BY DEF Ids
  <2>5. mirror' \in [Players -> 0..MaxId] /\ faults' \in 0..MaxFaults
    <3>1. mirror' = [mirror EXCEPT ![push[j]] = a] \/ UNCHANGED mirror
      BY <1>15 DEF RecordPush
    <3>2. mirror' \in [Players -> 0..MaxId]
      <4>1. mirror \in [Players -> 0..MaxId]
        BY DEF TypeOK
      <4> QED  BY <2>1, <2>4, <3>1, <4>1
    <3>3. faults' = faults \/ (faults < MaxFaults /\ faults' = faults + 1)
      BY <1>15 DEF RecordPush
    <3>4. faults' \in 0..MaxFaults
      BY <3>3 DEF TypeOK
    <3> QED  BY <3>2, <3>4
  <2>6. push' \in [Jobs -> Players \cup {NoOne}]
    BY <1>15 DEF TypeOK, RecordPush
  <2> QED  BY <1>15, <2>3, <2>5, <2>6 DEF TypeOK, RecordPush
<1>16. ASSUME NEW j \in Jobs, NEW a \in Ids, NextStage(j, a) PROVE TypeOK'
  <2>1. /\ Pending(j, a) \subseteq Players
        /\ \A p \in Pending(j, a) : cs[j][a][p] < DoneState
    BY <1>16 DEF TypeOK, NextStage, Pending
  <2>2. cs' \in [Jobs -> [Ids -> [Players -> States]]]
    BY <1>16, <2>1, AdvanceType DEF NextStage
  <2>3. stage' \in [Jobs -> States] /\ saved' \in [Jobs -> BOOLEAN]
    BY <1>16 DEF TypeOK, NextStage
  <2> QED  BY <1>16, <2>2, <2>3 DEF TypeOK, NextStage
<1>17. ASSUME NEW j \in Jobs, NEW a \in Ids, FinishAct(j, a) PROVE TypeOK'
  <2>1. st' \in [Ids -> [Players -> States]] /\ acts' \subseteq 1..counter'
    <3>1. CASE \A p \in Players : cs[j][a][p] = DoneState
      BY ZenonT(60), <1>17, <3>1 DEF TypeOK, FinishAct
    <3>2. CASE ~ \A p \in Players : cs[j][a][p] = DoneState
      BY <1>17, <3>2, SaveType DEF TypeOK, FinishAct
    <3> QED  BY <3>1, <3>2
  <2>2. AfterAct(j, a)
    BY <1>17 DEF FinishAct
  <2>3. /\ todo' \in [Jobs -> SUBSET Ids]
        /\ stage' \in [Jobs -> States]
        /\ pc' \in [Jobs -> PCs]
        /\ checked' \in [Jobs -> SUBSET Players]
    <3>1. todo' \in [Jobs -> SUBSET Ids] /\ stage' \in [Jobs -> States]
      BY <2>2 DEF TypeOK, AfterAct
    <3>2. pc' \in [Jobs -> PCs]
      BY ZenonT(60), <2>2 DEF TypeOK, AfterAct, PCs
    <3>3. checked' = checked \/ checked' = [checked EXCEPT ![j] = @ \cup targets[j]]
      BY <2>2 DEF AfterAct
    <3>4. checked' \in [Jobs -> SUBSET Players]
      <4>1. checked \in [Jobs -> SUBSET Players] /\ targets[j] \in SUBSET Players
        BY DEF TypeOK
      <4> QED  BY <3>3, <4>1
    <3> QED  BY <3>1, <3>2, <3>4
  <2>4. /\ copy' \in [Jobs -> [Ids -> [Players -> States]]]
        /\ cs' \in [Jobs -> [Ids -> [Players -> States]]]
        /\ targets' \in [Jobs -> SUBSET Players]
    <3>1. CASE UNCHANGED <<copy, cs, targets>>
      BY <3>1 DEF TypeOK
    <3>2. CASE DropCopies(j)
      BY <3>2, DropType
    <3> QED  BY <2>2, <3>1, <3>2 DEF AfterAct
  <2> QED  BY SMTT(60), <1>17, <2>1, <2>2, <2>3, <2>4 DEF TypeOK, FinishAct, AfterAct
<1>18. ASSUME NEW j \in Jobs, Fail(j) PROVE TypeOK'
  BY SMTT(60), <1>18, ForgetType DEF TypeOK, Fail, Fault, PCs
<1>19. ASSUME NEW j \in Jobs, Crash(j) PROVE TypeOK'
  <2>1. holding' \in [Jobs -> SUBSET Names] /\ trusted' \subseteq Jobs
    BY <1>19, LeaseType DEF Crash
  <2>2. faults' \in 0..MaxFaults /\ pc' \in [Jobs -> PCs]
    BY <1>19 DEF TypeOK, Crash, Fault, PCs
  <2>3. Forget(j)
    BY <1>19 DEF Crash
  <2> QED  BY <1>19, <2>1, <2>2, <2>3, ForgetType DEF TypeOK, Crash
<1>20. ASSUME NEW j \in Jobs, Expire(j) PROVE TypeOK'
  BY <1>20, LeaseType DEF TypeOK, Expire
<1>21. ASSUME NEW j \in Jobs, Restart(j) PROVE TypeOK'
  BY <1>21 DEF TypeOK, Restart, PCs
<1>22. ASSUME NEW j \in Jobs, RotLock(j) PROVE TypeOK'
  <2>1. rotted' \in BOOLEAN
    BY <1>22, Zenon DEF RotLock
  <2>2. /\ counter' \in 0..MaxId
        /\ acts' \subseteq 1..counter'
        /\ faults' \in 0..MaxFaults
    BY <1>22 DEF TypeOK, RotLock, Fault
  <2>3. holding' \in [Jobs -> SUBSET Names] /\ trusted' \subseteq Jobs
    BY <1>22, LeaseType DEF RotLock
  <2> QED  BY <1>22, <2>1, <2>2, <2>3 DEF TypeOK, RotLock
<1>23. CASE UNCHANGED vars
  BY <1>23 DEF TypeOK, vars
<1> QED
  BY <1>1, <1>2, <1>3, <1>4, <1>5, <1>6, <1>7, <1>8, <1>9, <1>10, <1>11, <1>12,
     <1>13, <1>14, <1>15, <1>16, <1>17, <1>18, <1>19, <1>20, <1>21, <1>22, <1>23
     DEF Next, Begin, Progress

(***************************************************************************)
(* What the steps do to the acts and the copies of them: ten kinds.        *)
(***************************************************************************)

\* Neither acts nor copies change.
Quiet ==
    /\ UNCHANGED <<counter, acts, body, st, done, todo, cs, targets, stage, push, before>>
    /\ \A k \in Jobs : pc[k] \in {"checks", "acts"} => pc'[k] = pc[k]
    /\ \A v \in Visits : pc'[v] = pc[v] \/ (pc[v] = "asks" /\ pc'[v] = "acts")

\* A function or the loop takes copies of acts.
Takes(j) ==
    /\ \E some \in SUBSET acts, whom \in SUBSET Players : Fetch(j, some, whom)
    /\ UNCHANGED <<counter, acts, body, st, done, stage, push, before>>
    /\ j \notin Visits /\ pc[j] \notin {"checks", "acts"}
    /\ \A k \in Jobs \ {j} : pc'[k] = pc[k]

\* A job forgets its copies.
Drops(j) ==
    /\ Forget(j)
    /\ UNCHANGED mongo
    /\ \A k \in Jobs \ {j} : pc'[k] = pc[k]
    /\ pc'[j] \in {"asks", "acts", "leaves", "ended"} => pc[j] = "leaves" /\ pc'[j] = "ended"

\* A part of an act is applied.
Applies(j, a, p) == ProfileSet(j, a, p) \/ RecordSet(j, a, p) \/ DocumentAdd(j, a, p)

Kind(j) ==
    \/ Quiet \/ Takes(j) \/ Drops(j) \/ BeginVisit(j)
    \/ \E p \in Players : WriteOnly(j, p)
    \/ \E b \in Bodies : Commit(j, b)
    \/ \E a \in Ids :
          \/ SaveStates(j, a) \/ RecordPush(j, a) \/ NextStage(j, a) \/ FinishAct(j, a)
          \/ \E p \in Players : Applies(j, a, p)

\* Every step is quiet or one of the kinds that the invariant is about.
LEMMA Kinds ==
    ASSUME TypeOK, [Next]_vars
    PROVE  Quiet \/ \E j \in Jobs : Kind(j)
<1> USE DEF mongo, lock, work, step, seen, history, GoTo, Jobs
<1>0. pc \in [Jobs -> PCs]
  BY DEF TypeOK
<1>1. ASSUME NEW j \in Jobs, TakeLock(j) PROVE Quiet
  BY <1>0, <1>1 DEF TakeLock, Quiet
<1>2. ASSUME NEW j \in Jobs, LockRefused(j) \/ ReturnLock(j) \/ Fail(j) \/ Crash(j) PROVE Drops(j)
  <2>1. CASE LockRefused(j)
    BY <1>0, <2>1 DEF LockRefused, Drops
  <2>2. CASE ReturnLock(j)
    BY <1>0, <2>2 DEF ReturnLock, Drops
  <2>3. CASE Fail(j)
    BY <1>0, <2>3 DEF Fail, Drops
  <2>4. CASE Crash(j)
    BY <1>0, <2>4 DEF Crash, Drops
  <2> QED  BY <1>2, <2>1, <2>2, <2>3, <2>4
<1>3. ASSUME NEW j \in Jobs, NEW players \in SUBSET Players, BeginCode(j, players) PROVE Quiet
  BY <1>0, <1>3 DEF BeginCode, Quiet
<1>4. ASSUME NEW j \in Jobs, NEW p \in Players, CheckOther(j, p) PROVE Quiet \/ Takes(j)
  <2>1. ActsOf(p) \in SUBSET acts /\ {p} \in SUBSET Players
    BY DEF ActsOf
  <2>2. CASE ActsOf(p) = {}
    BY <1>4, <2>2 DEF CheckOther, Quiet
  <2>3. CASE ActsOf(p) # {}
    <3>1. Fetch(j, ActsOf(p), {p}) /\ GoTo(j, "checks")
      BY <1>4, <2>3 DEF CheckOther
    <3>2. /\ UNCHANGED <<counter, acts, body, st, done, stage, push, before>>
          /\ j \in Codes /\ pc[j] = "code"
      BY <1>4 DEF CheckOther
    <3>3. \A k \in Jobs \ {j} : pc'[k] = pc[k]
      BY <1>0, <3>1, <3>2
    <3> HIDE DEF GoTo
    <3> QED  BY <2>1, <3>1, <3>2, <3>3 DEF Takes
  <2> QED  BY <2>2, <2>3
<1>5. ASSUME NEW j \in Jobs, EndCode(j) \/ LoopStart(j) \/ LoopUnlock(j) \/ Restart(j) PROVE Quiet
  BY <1>0, <1>5 DEF EndCode, LoopStart, LoopUnlock, Restart, Quiet
<1>6. ASSUME NEW j \in Jobs, Expire(j) \/ RotLock(j) PROVE Quiet
  BY <1>6 DEF Expire, RotLock, Quiet
<1>7. ASSUME NEW j \in Jobs, LoopPage(j) PROVE Quiet \/ Takes(j)
  <2>1. ASSUME NEW youngest \in acts,
               Fetch(j, Page(youngest), Players), GoTo(j, "asks")
        PROVE  Takes(j)
    <3>1. Page(youngest) \in SUBSET acts /\ Players \in SUBSET Players
      BY DEF Page
    <3>2. /\ UNCHANGED <<counter, acts, body, st, done, stage, push, before>>
          /\ j \in Loopers /\ pc[j] = "page"
      BY <1>7 DEF LoopPage
    <3>3. \A k \in Jobs \ {j} : pc'[k] = pc[k]
      BY <1>0, <2>1, <3>2
    <3> QED  BY <2>1, <3>1, <3>2, <3>3 DEF Takes
  <2>2. ASSUME GoTo(j, "unlocks"), UNCHANGED <<who, work>> PROVE Quiet
    BY <1>0, <1>7, <2>2 DEF LoopPage, Quiet
  <2> QED  BY <1>7, <2>1, <2>2 DEF LoopPage
<1>8. CASE UNCHANGED vars
  BY <1>8 DEF vars, Quiet
<1> HIDE DEF mongo, lock, work, step, seen, history, GoTo, Jobs
<1>9. ASSUME NEW j \in Jobs, Begin(j) PROVE Quiet \/ Kind(j)
  BY <1>3, <1>9 DEF Begin, Kind
<1>10. ASSUME NEW j \in Jobs, Progress(j) PROVE Quiet \/ Kind(j)
  BY <1>1, <1>2, <1>4, <1>5, <1>6, <1>7, <1>10 DEF Progress, Kind, Applies
<1>11. ASSUME NEW j \in Jobs, Fail(j) \/ Crash(j) \/ RotLock(j) PROVE Quiet \/ Kind(j)
  BY <1>2, <1>6, <1>11 DEF Kind
<1> QED  BY <1>8, <1>9, <1>10, <1>11 DEF Next

(***************************************************************************)
(* Values of the counts after a step.                                      *)
(***************************************************************************)
LEMMA AdvanceValue ==
    ASSUME TypeOK, NEW j \in Jobs, NEW a \in Ids, NEW some, Advance(j, a, some)
    PROVE  \A k \in Jobs, b \in Ids, p \in Players :
              cs'[k][b][p] = IF k = j /\ b = a /\ p \in some THEN cs[j][a][p] + 1 ELSE cs[k][b][p]
<1> DEFINE next == [p \in Players |-> IF p \in some THEN cs[j][a][p] + 1 ELSE cs[j][a][p]]
<1>1. cs' = [cs EXCEPT ![j][a] = next]
  BY DEF Advance, TypeOK
<1>2. \A p \in Players : next[p] = IF p \in some THEN cs[j][a][p] + 1 ELSE cs[j][a][p]
  OBVIOUS
<1> HIDE DEF next
<1>3. \A k \in Jobs, b \in Ids : cs'[k][b] = IF k = j /\ b = a THEN next ELSE cs[k][b]
  BY <1>1 DEF TypeOK
<1> QED  BY <1>2, <1>3

\* A write to the collection changes states of its own act only, to the job's copy.
LEMMA SaveValue ==
    ASSUME TypeOK, NEW j \in Jobs, NEW a \in Ids, SaveTo(j, a)
    PROVE  \A b \in Ids, p \in Players :
              st'[b][p] = st[b][p] \/ (b = a /\ st'[b][p] = cs[j][a][p])
<1> DEFINE next == [p \in Players |-> IF cs[j][a][p] # copy[j][a][p] THEN cs[j][a][p] ELSE st[a][p]]
<1>1. st' = st \/ st' = [st EXCEPT ![a] = next]
  BY DEF SaveTo, TypeOK
<1>2. \A p \in Players : next[p] = cs[j][a][p] \/ next[p] = st[a][p]
  OBVIOUS
<1> HIDE DEF next
<1>3. \A b \in Ids : st'[b] = st[b] \/ (b = a /\ st'[b] = next)
  BY <1>1 DEF TypeOK
<1> QED  BY <1>2, <1>3

\* Counts and targets are what TypeOK says, job by job.
LEMMA CountsType ==
    ASSUME TypeOK
    PROVE  /\ \A j \in Jobs, a \in Ids, p \in Players : cs[j][a][p] \in 0..4
           /\ \A a \in Ids, p \in Players : st[a][p] \in 0..4
           /\ \A j \in Jobs : todo[j] \subseteq Ids /\ targets[j] \subseteq Players
           /\ \A a \in acts : a \in Ids /\ a <= counter
           /\ counter \in Nat /\ counter <= MaxId
<1>1. \A j \in Jobs, a \in Ids : cs[j][a] \in [Players -> States]
  BY DEF TypeOK
<1>2. \A a \in Ids : st[a] \in [Players -> States]
  BY DEF TypeOK
<1> QED  BY <1>1, <1>2 DEF TypeOK, Ids

\* Fetch, AfterAct and Forget, job by job.
LEMMA FetchValue ==
    ASSUME TypeOK, NEW j \in Jobs, NEW some, NEW whom, Fetch(j, some, whom)
    PROVE  /\ \A k \in Jobs \ {j} : todo'[k] = todo[k] /\ cs'[k] = cs[k] /\ targets'[k] = targets[k]
           /\ todo'[j] = some /\ cs'[j] = st /\ targets'[j] = whom
BY DEF TypeOK, Fetch

\* A job that ends forgets its own work and nobody else's.
LEMMA ForgetValue ==
    ASSUME TypeOK, NEW j \in Jobs, Forget(j)
    PROVE  /\ \A k \in Jobs \ {j} : /\ todo'[k] = todo[k] /\ cs'[k] = cs[k] /\ targets'[k] = targets[k]
                                    /\ stage'[k] = stage[k] /\ push'[k] = push[k]
           /\ todo'[j] = {} /\ stage'[j] = ProfileState /\ push'[j] = NoOne
           /\ UNCHANGED before
BY DEF TypeOK, Forget, DropCopies

\* A job that finished an act has one less to do and keeps the rest.
LEMMA AfterValue ==
    ASSUME TypeOK, NEW j \in Jobs, NEW a \in Ids, AfterAct(j, a)
    PROVE  /\ \A k \in Jobs \ {j} : /\ todo'[k] = todo[k] /\ cs'[k] = cs[k] /\ targets'[k] = targets[k]
                                    /\ stage'[k] = stage[k] /\ pc'[k] = pc[k]
           /\ todo'[j] = todo[j] \ {a} /\ stage'[j] = ProfileState
           /\ UNCHANGED <<push, before>>
           /\ todo'[j] # {} => /\ cs'[j] = cs[j] /\ targets'[j] = targets[j]
                               /\ pc'[j] = pc[j]
           /\ todo'[j] = {} => pc'[j] = IF pc[j] = "checks" THEN "code"
                                        ELSE IF j \in Loopers THEN "unlocks" ELSE "leaves"
BY DEF TypeOK, AfterAct, DropCopies, GoTo

(***************************************************************************)
(* Jobs that are not at work, and records on their way to Redis.           *)
(***************************************************************************)
LEMMA IdleStep ==
    ASSUME TypeOK, StageIdle, PushSound, [Next]_vars PROVE StageIdle'
<1> USE DEF StageIdle, GoTo
<1>0. pc \in [Jobs -> PCs]
  BY DEF TypeOK
<1>1. CASE Quiet
  BY <1>1 DEF Quiet
<1>2. ASSUME NEW j \in Jobs, Takes(j) PROVE StageIdle'
  BY <1>2 DEF Takes
<1>3. ASSUME NEW j \in Jobs, Drops(j) PROVE StageIdle'
  BY <1>3, ForgetValue DEF Drops
<1>4. ASSUME NEW j \in Jobs, BeginVisit(j) PROVE StageIdle'
  BY <1>0, <1>4 DEF BeginVisit, step
<1>5. ASSUME NEW j \in Jobs, NEW p \in Players, WriteOnly(j, p) PROVE StageIdle'
  BY <1>0, <1>5 DEF WriteOnly, step
<1>6. ASSUME NEW j \in Jobs, NEW b \in Bodies, Commit(j, b) PROVE StageIdle'
  BY <1>0, <1>6 DEF Commit, step
<1>7. ASSUME NEW j \in Jobs, NEW a \in Ids, SaveStates(j, a) PROVE StageIdle'
  BY <1>7 DEF SaveStates
<1>8. ASSUME NEW j \in Jobs, NEW a \in Ids, RecordPush(j, a) PROVE StageIdle'
  BY <1>8 DEF RecordPush, TypeOK
<1>9. ASSUME NEW j \in Jobs, NEW a \in Ids, NextStage(j, a) PROVE StageIdle'
  BY <1>9 DEF NextStage, Executing, TypeOK
<1>10. ASSUME NEW j \in Jobs, NEW a \in Ids, FinishAct(j, a) PROVE StageIdle'
  <2>1. push[j] = NoOne
    BY <1>10 DEF FinishAct, Executing
  <2>2. AfterAct(j, a)
    BY <1>10 DEF FinishAct
  <2> QED  BY <2>1, <2>2, AfterValue
<1>11. ASSUME NEW j \in Jobs, NEW a \in Ids, NEW p \in Players, Applies(j, a, p) PROVE StageIdle'
  <2>1. /\ pc[j] \in {"checks", "acts"}
        /\ UNCHANGED <<pc, stage>>
        /\ \A k \in Jobs \ {j} : push'[k] = push[k]
    BY <1>11 DEF Applies, ProfileSet, RecordSet, DocumentAdd, Executing, step, TypeOK
  <2> QED  BY <2>1
<1> QED
  BY <1>1, <1>2, <1>3, <1>4, <1>5, <1>6, <1>7, <1>8, <1>9, <1>10, <1>11, Kinds DEF Kind

\* Every step keeps PushSound.
LEMMA PushStep ==
    ASSUME TypeOK, StageIdle, PushSound, [Next]_vars PROVE PushSound'
<1> USE DEF PushSound, IsOldest
<1>0. \A j \in Jobs : pc[j] \notin {"checks", "acts"} => push[j] = NoOne
  BY DEF StageIdle
<1>1. CASE Quiet
  BY <1>1 DEF Quiet
<1>2. ASSUME NEW j \in Jobs, Takes(j) PROVE PushSound'
  BY <1>0, <1>2, FetchValue DEF Takes
<1>3. ASSUME NEW j \in Jobs, Drops(j) PROVE PushSound'
  BY <1>3, ForgetValue DEF Drops, mongo
<1>4. ASSUME NEW j \in Jobs, BeginVisit(j) PROVE PushSound'
  <2>1. /\ push[j] = NoOne
        /\ UNCHANGED <<done, stage, push>>
    BY <1>0, <1>4 DEF BeginVisit, step, mongo
  <2>2. UNCHANGED work \/ Fetch(j, ActsOf(Self[j]), {Self[j]})
    BY <1>4 DEF BeginVisit
  <2> QED  BY <2>1, <2>2, FetchValue DEF work
<1>5. ASSUME NEW j \in Jobs, NEW p \in Players, WriteOnly(j, p) PROVE PushSound'
  BY <1>5 DEF WriteOnly, step, work
<1>6. ASSUME NEW j \in Jobs, NEW b \in Bodies, Commit(j, b) PROVE PushSound'
  <2>1. /\ push[j] = NoOne
        /\ UNCHANGED <<done, stage, push>>
    BY <1>0, <1>6 DEF Commit, step
  <2>2. \A k \in Jobs \ {j} : todo'[k] = todo[k] /\ cs'[k] = cs[k]
    BY <1>6 DEF Commit, TypeOK
  <2> QED  BY <2>1, <2>2
<1>7. ASSUME NEW j \in Jobs, NEW a \in Ids, SaveStates(j, a) PROVE PushSound'
  BY <1>7 DEF SaveStates
<1>8. ASSUME NEW j \in Jobs, NEW a \in Ids, RecordPush(j, a) PROVE PushSound'
  <2>1. /\ push'[j] = NoOne
        /\ \A k \in Jobs \ {j} : push'[k] = push[k]
        /\ UNCHANGED <<done, stage, todo>>
    BY <1>8 DEF RecordPush, mongo, TypeOK
  <2>2. \A k \in Jobs \ {j}, b \in Ids, q \in Players : cs'[k][b][q] = cs[k][b][q]
    BY <1>8, AdvanceValue DEF RecordPush
  <2> QED  BY <2>1, <2>2, CountsType DEF TypeOK
<1>9. ASSUME NEW j \in Jobs, NEW a \in Ids, NextStage(j, a) PROVE PushSound'
  <2>1. /\ push[j] = NoOne
        /\ \A k \in Jobs \ {j} : stage'[k] = stage[k]
        /\ UNCHANGED <<done, push, todo>>
    BY <1>9 DEF NextStage, Executing, mongo, TypeOK
  <2>2. \A k \in Jobs \ {j}, b \in Ids, q \in Players : cs'[k][b][q] = cs[k][b][q]
    BY <1>9, AdvanceValue DEF NextStage
  <2> QED  BY SMTT(60), <2>1, <2>2, CountsType DEF TypeOK
<1>10. ASSUME NEW j \in Jobs, NEW a \in Ids, FinishAct(j, a) PROVE PushSound'
  <2>1. push[j] = NoOne /\ UNCHANGED done /\ AfterAct(j, a)
    BY <1>10 DEF FinishAct, Executing
  <2> QED  BY <2>1, AfterValue
<1>11. ASSUME NEW j \in Jobs, NEW a \in Ids, NEW p \in Players, Applies(j, a, p) PROVE PushSound'
  <2>1. /\ push[j] = NoOne /\ a \in todo[j]
        /\ \A b \in todo[j] : IsOldest(b, todo[j]) => b = a
        /\ UNCHANGED <<todo, stage>>
        /\ done \subseteq done'
        /\ cs[j][a][p] = stage[j]
    <3>1. Executing(j, a) /\ UNCHANGED <<todo, stage>> /\ done \subseteq done' /\ p \in Entries(j, a)
      BY <1>11 DEF Applies, ProfileSet, RecordSet, DocumentAdd, step
    <3>2. push[j] = NoOne /\ a \in todo[j] /\ \A c \in todo[j] : a <= c
      BY <3>1 DEF Executing
    <3>3. cs[j][a][p] = stage[j]
      BY <3>1 DEF Entries, Pending
    <3>4. \A b \in todo[j] : IsOldest(b, todo[j]) => b = a
      <4> SUFFICES ASSUME NEW b \in todo[j], IsOldest(b, todo[j]) PROVE b = a
        OBVIOUS
      <4>1. a \in Int /\ b \in Int
        BY CountsType DEF Ids
      <4>2. a <= b /\ b <= a
        BY <3>2
      <4> QED  BY <4>1, <4>2
    <3> QED  BY <3>1, <3>2, <3>3, <3>4
  <2>2. CASE Advance(j, a, {p}) /\ UNCHANGED push
    <3>1. \A k \in Jobs \ {j}, b \in Ids, q \in Players : cs'[k][b][q] = cs[k][b][q]
      BY <2>2, AdvanceValue
    <3>2. \A k \in Jobs : push[k] \in Players \cup {NoOne}
      BY DEF TypeOK
    <3> QED  BY <2>1, <2>2, <3>1, <3>2, CountsType
  <2>3. CASE RecordSet(j, a, p) /\ UNCHANGED cs /\ push' = [push EXCEPT ![j] = p]
    <3>1. <<a, p, RecordsState>> \in done' /\ stage[j] = RecordsState
      BY <2>3 DEF RecordSet
    <3>2. \A k \in Jobs : push'[k] = IF k = j THEN p ELSE push[k]
      BY <2>3 DEF TypeOK
    <3> QED  BY <2>1, <2>3, <3>1, <3>2
  <2> QED  BY <1>11, <2>2, <2>3 DEF Applies, ProfileSet, RecordSet, DocumentAdd, step
<1> QED
  BY <1>1, <1>2, <1>3, <1>4, <1>5, <1>6, <1>7, <1>8, <1>9, <1>10, <1>11, Kinds DEF Kind

\* The types are right, whatever acts the functions ask for and whatever
\* fails: in particular no id is given twice and no count leaves its range.
THEOREM TypeCorrect == Spec => []TypeOK
<1> DEFINE I == TypeOK /\ StageIdle /\ PushSound
<1>1. Init => I
  <2> SUFFICES ASSUME Init PROVE I
    OBVIOUS
  <2>1. StageIdle /\ PushSound
    BY DEF Init, StageIdle, PushSound
  <2> QED  BY <2>1, TypeInit
<1>2. I /\ [Next]_vars => I'
  BY TypeStep, IdleStep, PushStep
<1> QED  BY <1>1, <1>2, PTL DEF Spec

(***************************************************************************)
(* Counts are not ahead of what was applied.                               *)
(***************************************************************************)

\* What every step but Commit does to ids, bodies and parts applied.
Grows ==
    /\ counter <= counter'
    /\ done \subseteq done'
    /\ \A a \in 1..counter : body'[a] = body[a]

\* Numbers, needs and what was done only grow.
LEMMA GrowsStep ==
    ASSUME TypeOK, [Next]_vars PROVE Grows
<1> USE DEF Grows, mongo
<1>0. counter \in Nat /\ counter <= counter
  BY DEF TypeOK
<1>1. CASE Quiet
  BY <1>0, <1>1 DEF Quiet
<1>2. ASSUME NEW j \in Jobs, Takes(j) \/ Drops(j) \/ BeginVisit(j) PROVE Grows
  BY <1>0, <1>2 DEF Takes, Drops, BeginVisit
<1>3. ASSUME NEW j \in Jobs, NEW p \in Players, WriteOnly(j, p) PROVE Grows
  BY <1>0, <1>3 DEF WriteOnly
<1>4. ASSUME NEW j \in Jobs, NEW b \in Bodies, Commit(j, b) PROVE Grows
  BY <1>0, <1>4 DEF Commit, TypeOK
<1>5. ASSUME NEW j \in Jobs, NEW a \in Ids,
             SaveStates(j, a) \/ RecordPush(j, a) \/ NextStage(j, a) \/ FinishAct(j, a) PROVE Grows
  BY <1>0, <1>5 DEF SaveStates, RecordPush, NextStage, FinishAct
<1>6. ASSUME NEW j \in Jobs, NEW a \in Ids, NEW p \in Players, Applies(j, a, p) PROVE Grows
  BY <1>0, <1>6 DEF Applies, ProfileSet, RecordSet, DocumentAdd
<1> QED  BY <1>1, <1>2, <1>3, <1>4, <1>5, <1>6, Kinds DEF Kind

\* Every step keeps Unissued.
LEMMA UnissuedStep ==
    ASSUME TypeOK, Unissued, [Next]_vars PROVE Unissued'
<1> USE DEF Unissued, mongo
<1>1. CASE Quiet
  BY <1>1 DEF Quiet
<1>2. ASSUME NEW j \in Jobs, Takes(j) \/ Drops(j) \/ BeginVisit(j) PROVE Unissued'
  BY <1>2 DEF Takes, Drops, BeginVisit
<1>3. ASSUME NEW j \in Jobs, NEW p \in Players, WriteOnly(j, p) PROVE Unissued'
  BY <1>3 DEF WriteOnly, TypeOK, Ids
<1>4. ASSUME NEW j \in Jobs, NEW b \in Bodies, Commit(j, b) PROVE Unissued'
  BY <1>4 DEF Commit, TypeOK, Ids
<1>5. ASSUME NEW j \in Jobs, NEW a \in Ids,
             SaveStates(j, a) \/ RecordPush(j, a) \/ NextStage(j, a) \/ FinishAct(j, a)
      PROVE  Unissued'
  BY <1>5 DEF SaveStates, RecordPush, NextStage, FinishAct
<1>6. ASSUME NEW j \in Jobs, NEW a \in Ids, NEW p \in Players, Applies(j, a, p) PROVE Unissued'
  BY <1>6 DEF Applies, ProfileSet, RecordSet, DocumentAdd
<1> QED  BY <1>1, <1>2, <1>3, <1>4, <1>5, <1>6, Kinds DEF Kind

\* What was sound stays so for an act that was there.
LEMMA SoundStays ==
    ASSUME Grows, NEW a \in 1..counter, NEW counts, Sound(a, counts),
           NEW p \in Players, NEW s \in Stages, p \in body'[a][s], counts[p] > s
    PROVE  <<a, p, s>> \in done'
BY DEF Grows, Sound

\* The counts of an act of which nothing was carried out are sound.
LEMMA FirstSound ==
    ASSUME NEW b, NEW p \in Players, NEW s \in Stages, p \in b[s]
    PROVE  ~(FirstStates(b)[p] > s)
BY DEF FirstStates, Touched

\* Every step keeps CopiesSound.
LEMMA CopiesStep ==
    ASSUME TypeOK, StoredSound, CopiesSound, PushSound, [Next]_vars PROVE CopiesSound'
<1> SUFFICES ASSUME NEW k \in Jobs, NEW b \in todo'[k]
             PROVE  /\ b <= counter'
                    /\ \A q \in Players, s \in Stages :
                          q \in body'[b][s] /\ cs'[k][b][q] > s => <<b, q, s>> \in done'
  BY DEF CopiesSound, Sound
<1>0. /\ counter \in Nat /\ counter' \in Int /\ Grows /\ counter <= counter'
      /\ todo[k] \subseteq Ids /\ acts \subseteq 1..counter
  <2>1. counter \in Nat /\ todo[k] \subseteq Ids
    BY CountsType
  <2>2. acts \subseteq 1..counter
    BY DEF TypeOK
  <2>3. Grows
    BY GrowsStep
  <2>4. counter' \in 0..MaxId
    BY TypeStep DEF TypeOK
  <2>5. counter <= counter'
    BY ONLY <2>3 DEF Grows
  <2> QED  BY ONLY <2>1, <2>2, <2>3, <2>4, <2>5
\* The copies it had and kept.
<1>1. ASSUME b \in todo[k], \A q \in Players : cs'[k][b][q] = cs[k][b][q]
      PROVE  /\ b <= counter'
             /\ \A q \in Players, s \in Stages :
                   q \in body'[b][s] /\ cs'[k][b][q] > s => <<b, q, s>> \in done'
  <2>1. b \in 1..counter /\ Sound(b, cs[k][b])
    BY <1>0, <1>1 DEF CopiesSound, Ids
  <2>2. b <= counter'
    BY <1>0, <2>1
  <2>3. ASSUME NEW q \in Players, NEW s \in Stages, q \in body'[b][s], cs'[k][b][q] > s
        PROVE  <<b, q, s>> \in done'
    <3>1. cs[k][b][q] > s
      BY <1>1, <2>3
    <3> QED  BY <1>0, <2>1, <2>3, <3>1, SoundStays
  <2> QED  BY <2>2, <2>3
\* The copies it took.
<1>2. ASSUME b \in acts, cs'[k] = st
      PROVE  /\ b <= counter'
             /\ \A q \in Players, s \in Stages :
                   q \in body'[b][s] /\ cs'[k][b][q] > s => <<b, q, s>> \in done'
  <2>1. b \in 1..counter /\ Sound(b, st[b])
    BY <1>0, <1>2 DEF StoredSound
  <2>2. b <= counter'
    BY <1>0, <2>1
  <2>3. ASSUME NEW q \in Players, NEW s \in Stages, q \in body'[b][s], cs'[k][b][q] > s
        PROVE  <<b, q, s>> \in done'
    <3>1. st[b][q] > s
      BY <1>2, <2>3
    <3> QED  BY <1>0, <2>1, <2>3, <3>1, SoundStays
  <2> QED  BY <2>2, <2>3
\* The copies it advanced, with what it applied.
<1>3. ASSUME NEW a \in Ids, NEW some, Advance(k, a, some), b \in todo[k],
             \A q \in some : q \in Players =>
                 /\ cs[k][a][q] = stage[k]
                 /\ q \in body[a][stage[k]] => <<a, q, stage[k]>> \in done'
      PROVE  /\ b <= counter'
             /\ \A q \in Players, s \in Stages :
                   q \in body'[b][s] /\ cs'[k][b][q] > s => <<b, q, s>> \in done'
  <2>1. b \in 1..counter /\ b \in Ids /\ Sound(b, cs[k][b])
    BY <1>0, <1>3 DEF CopiesSound, Ids
  <2>2. b <= counter'
    BY <1>0, <2>1
  <2>3. ASSUME NEW q \in Players, NEW s \in Stages, q \in body'[b][s], cs'[k][b][q] > s
        PROVE  <<b, q, s>> \in done'
    <3>1. cs'[k][b][q] = IF b = a /\ q \in some THEN cs[k][a][q] + 1 ELSE cs[k][b][q]
      BY <1>3, <2>1, AdvanceValue
    <3>2. CASE cs[k][b][q] > s
      BY <1>0, <2>1, <2>3, <3>2, SoundStays
    <3>3. CASE ~(cs[k][b][q] > s)
      <4>1. b = a /\ q \in some /\ cs[k][a][q] + 1 > s /\ ~(cs[k][a][q] > s)
        BY <2>3, <3>1, <3>3
      <4>2. cs[k][a][q] = stage[k] /\ cs[k][a][q] \in 0..4
        BY <1>3, <4>1, CountsType
      <4>3. s = stage[k]
        BY <4>1, <4>2
      <4>4. q \in body[a][stage[k]]
        BY <1>0, <2>1, <2>3, <4>1, <4>3 DEF Grows
      <4> QED  BY <1>3, <4>1, <4>3, <4>4
    <3> QED  BY <3>2, <3>3
  <2> QED  BY <2>2, <2>3
<1> DEFINE Goal == /\ b <= counter'
                   /\ \A q \in Players, s \in Stages :
                         q \in body'[b][s] /\ cs'[k][b][q] > s => <<b, q, s>> \in done'
<1> SUFFICES Goal
  OBVIOUS
<1>a. b \in todo[k] /\ (\A q \in Players : cs'[k][b][q] = cs[k][b][q]) => Goal
  BY <1>1
<1>b. b \in acts /\ cs'[k] = st => Goal
  BY <1>2
<1> HIDE DEF Goal
<1>5. CASE Quiet
  BY <1>5, <1>a DEF Quiet
<1>6. ASSUME NEW j \in Jobs, Takes(j) PROVE Goal
  <2>1. PICK some \in SUBSET acts, whom \in SUBSET Players : Fetch(j, some, whom)
    BY <1>6 DEF Takes
  <2> QED  BY <2>1, <1>a, <1>b, FetchValue
<1>7. ASSUME NEW j \in Jobs, Drops(j) PROVE Goal
  BY <1>7, <1>a, ForgetValue DEF Drops
<1>8. ASSUME NEW j \in Jobs, BeginVisit(j) PROVE Goal
  <2>1. CASE UNCHANGED work
    BY <2>1, <1>a DEF work
  <2>2. CASE Fetch(j, ActsOf(Self[j]), {Self[j]})
    BY <2>2, <1>a, <1>b, FetchValue DEF ActsOf
  <2> QED  BY <1>8, <2>1, <2>2 DEF BeginVisit
<1>9. ASSUME NEW j \in Jobs, NEW p \in Players, WriteOnly(j, p) PROVE Goal
  BY <1>9, <1>a DEF WriteOnly, work
<1>10. ASSUME NEW j \in Jobs, NEW d \in Bodies, Commit(j, d) PROVE Goal
  <2>1. CASE k # j
    <3>1. todo'[k] = todo[k] /\ cs'[k] = cs[k]
      BY <1>10, <2>1 DEF Commit, TypeOK
    <3> QED  BY <3>1, <1>a
  <2>2. CASE k = j
    <3>1. counter' = counter + 1 /\ counter' \in Ids
      BY <1>10 DEF Commit, TypeOK, Ids
    <3>2. b = counter' /\ cs'[k] = [NoStates EXCEPT ![counter'] = FirstStates(d)]
      BY <1>10, <2>2 DEF Commit, TypeOK
    <3>3. cs'[k][b] = FirstStates(d)
      BY <3>1, <3>2 DEF NoStates
    <3>4. body'[b] = d
      BY <1>10, <3>1, <3>2 DEF Commit, TypeOK
    <3>5. b <= counter'
      BY <1>0, <3>2
    <3> QED  BY <3>3, <3>4, <3>5, FirstSound DEF Goal
  <2> QED  BY <2>1, <2>2
<1>11. ASSUME NEW j \in Jobs, NEW a \in Ids, SaveStates(j, a) PROVE Goal
  BY <1>11, <1>a DEF SaveStates
<1>12. ASSUME NEW j \in Jobs, NEW a \in Ids, NEW some, Advance(j, a, some), UNCHANGED todo,
              \A q \in some : q \in Players =>
                 /\ cs[j][a][q] = stage[j]
                 /\ q \in body[a][stage[j]] => <<a, q, stage[j]>> \in done'
       PROVE  Goal
  <2>1. CASE k # j
    <3>1. b \in Ids /\ b \in todo[k]
      BY <1>0, <1>12
    <3> QED  BY <2>1, <1>12, <3>1, <1>a, AdvanceValue
  <2>2. CASE k = j
    BY <2>2, <1>12, <1>3 DEF Goal
  <2> QED  BY <2>1, <2>2
<1>13. ASSUME NEW j \in Jobs, NEW a \in Ids, RecordPush(j, a) PROVE Goal
  <2>1. /\ push[j] # NoOne /\ IsOldest(a, todo[j])
        /\ Advance(j, a, {push[j]})
        /\ UNCHANGED <<todo, done>>
    BY <1>13 DEF RecordPush, mongo
  <2>2. /\ cs[j][a][push[j]] = stage[j]
        /\ <<a, push[j], stage[j]>> \in done'
    BY <2>1 DEF PushSound, IsOldest
  <2> QED  BY <2>1, <2>2, <1>12
<1>14. ASSUME NEW j \in Jobs, NEW a \in Ids, NextStage(j, a) PROVE Goal
  <2>1. /\ Advance(j, a, Pending(j, a))
        /\ UNCHANGED todo
        /\ \A q \in Pending(j, a) : cs[j][a][q] = stage[j] /\ q \notin body[a][stage[j]]
    BY <1>14 DEF NextStage, Pending, Entries
  <2> QED  BY <2>1, <1>12
<1>15. ASSUME NEW j \in Jobs, NEW a \in Ids, FinishAct(j, a) PROVE Goal
  <2>1. AfterAct(j, a)
    BY <1>15 DEF FinishAct
  <2> QED  BY <2>1, <1>a, AfterValue
<1>16. ASSUME NEW j \in Jobs, NEW a \in Ids, NEW p \in Players, Applies(j, a, p) PROVE Goal
  <2>1. /\ UNCHANGED todo
        /\ cs[j][a][p] = stage[j]
        /\ <<a, p, stage[j]>> \in done'
        /\ UNCHANGED cs \/ Advance(j, a, {p})
    BY <1>16 DEF Applies, ProfileSet, RecordSet, DocumentAdd, Entries, Pending, step
  <2>2. CASE UNCHANGED cs
    BY <2>1, <2>2, <1>a
  <2>3. CASE Advance(j, a, {p})
    BY <2>1, <2>3, <1>12
  <2> QED  BY <2>1, <2>2, <2>3
<1> QED
  BY <1>5, <1>6, <1>7, <1>8, <1>9, <1>10, <1>11, <1>13, <1>14, <1>15, <1>16, Kinds DEF Kind

\* Every step keeps StoredSound.
LEMMA StoredStep ==
    ASSUME TypeOK, Unissued, StoredSound, CopiesSound, [Next]_vars PROVE StoredSound'
<1> SUFFICES ASSUME NEW b \in 1..counter', NEW q \in Players, NEW s \in Stages,
                    q \in body'[b][s], st'[b][q] > s
             PROVE  <<b, q, s>> \in done'
  BY DEF StoredSound, Sound
<1>0. counter \in Nat /\ counter <= MaxId /\ Grows /\ \A j \in Jobs : todo[j] \subseteq Ids
  BY GrowsStep, CountsType
<1>1. ASSUME b \in 1..counter, st'[b][q] = st[b][q] PROVE <<b, q, s>> \in done'
  <2>1. Sound(b, st[b]) /\ st[b][q] > s
    BY <1>1 DEF StoredSound
  <2> QED  BY <1>0, <1>1, <2>1, SoundStays
<1>2. CASE Quiet
  BY <1>1, <1>2 DEF Quiet
<1>3. ASSUME NEW j \in Jobs, Takes(j) \/ Drops(j) \/ BeginVisit(j) PROVE <<b, q, s>> \in done'
  BY <1>1, <1>3 DEF Takes, Drops, BeginVisit, mongo
<1>4. ASSUME NEW j \in Jobs, NEW p \in Players, WriteOnly(j, p) PROVE <<b, q, s>> \in done'
  <2>1. /\ counter' = counter + 1 /\ counter' \in Ids
        /\ UNCHANGED <<st, body>>
    BY <1>0, <1>4 DEF WriteOnly, Ids
  <2>2. CASE b = counter'
    <3>1. body[b] = Nothing
      BY <1>0, <2>1, <2>2 DEF Unissued
    <3> QED  BY <2>1, <3>1 DEF Nothing
  <2>3. CASE b # counter'
    BY <1>0, <1>1, <2>1, <2>3
  <2> QED  BY <2>2, <2>3
<1>5. ASSUME NEW j \in Jobs, NEW d \in Bodies, Commit(j, d) PROVE <<b, q, s>> \in done'
  <2>1. /\ counter' = counter + 1 /\ counter' \in Ids
        /\ st' = [st EXCEPT ![counter'] = FirstStates(d)]
        /\ body' = [body EXCEPT ![counter'] = d]
    BY <1>0, <1>5 DEF Commit, Ids
  <2>2. b \in Ids /\ (b = counter' \/ b \in 1..counter)
    BY <1>0, <2>1 DEF Ids
  <2>3. CASE b = counter'
    <3>1. st'[b] = FirstStates(d) /\ body'[b] = d
      BY <2>1, <2>2, <2>3 DEF TypeOK
    <3> QED  BY <3>1, FirstSound
  <2>4. CASE b # counter'
    <3>1. st'[b] = st[b]
      BY <2>1, <2>2, <2>4 DEF TypeOK
    <3> QED  BY <1>1, <2>2, <2>4, <3>1
  <2> QED  BY <2>3, <2>4
\* A count that a job saves is one of a copy it has in hand.
<1>6. ASSUME NEW j \in Jobs, NEW a \in Ids, SaveTo(j, a), a \in todo[j], counter' = counter
      PROVE  <<b, q, s>> \in done'
  <2>1. b \in Ids /\ b \in 1..counter
    BY <1>0, <1>6 DEF Ids
  <2>2. st'[b][q] = st[b][q] \/ (b = a /\ st'[b][q] = cs[j][a][q])
    BY <1>6, <2>1, SaveValue
  <2>3. CASE b = a /\ st'[b][q] = cs[j][a][q]
    <3>1. Sound(a, cs[j][a]) /\ cs[j][a][q] > s
      BY <1>6, <2>3 DEF CopiesSound
    <3> QED  BY <1>0, <2>1, <2>3, <3>1, SoundStays
  <2> QED  BY <1>1, <2>1, <2>2, <2>3
<1>7. ASSUME NEW j \in Jobs, NEW a \in Ids, SaveStates(j, a) PROVE <<b, q, s>> \in done'
  <2>1. SaveTo(j, a) /\ a \in todo[j] /\ counter' = counter
    BY <1>7 DEF SaveStates, Executing, IsOldest
  <2> QED  BY <2>1, <1>6
<1>8. ASSUME NEW j \in Jobs, NEW a \in Ids, RecordPush(j, a) \/ NextStage(j, a)
      PROVE  <<b, q, s>> \in done'
  BY <1>1, <1>8 DEF RecordPush, NextStage, mongo
<1>9. ASSUME NEW j \in Jobs, NEW a \in Ids, FinishAct(j, a) PROVE <<b, q, s>> \in done'
  <2>1. a \in todo[j] /\ counter' = counter /\ (UNCHANGED st \/ SaveTo(j, a))
    BY <1>9 DEF FinishAct, Executing, IsOldest
  <2> QED  BY <1>1, <1>6, <2>1
<1>10. ASSUME NEW j \in Jobs, NEW a \in Ids, NEW p \in Players, Applies(j, a, p)
       PROVE  <<b, q, s>> \in done'
  BY <1>1, <1>10 DEF Applies, ProfileSet, RecordSet, DocumentAdd
<1> QED
  BY <1>2, <1>3, <1>4, <1>5, <1>7, <1>8, <1>9, <1>10, Kinds DEF Kind

(***************************************************************************)
(* Acts are deleted when they are done.                                    *)
(***************************************************************************)
LEMMA DeletedStep ==
    ASSUME TypeOK, Unissued, CopiesSound, DeletedIsDone, [Next]_vars PROVE DeletedIsDone'
<1> SUFFICES ASSUME NEW b \in (1..counter') \ acts', NEW s \in Stages, NEW q \in body'[b][s]
             PROVE  <<b, q, s>> \in done'
  BY DEF DeletedIsDone
<1>0. counter \in Nat /\ counter <= MaxId /\ Grows /\ \A j \in Jobs : todo[j] \subseteq Ids
  BY GrowsStep, CountsType
<1>1. ASSUME b \in (1..counter) \ acts PROVE <<b, q, s>> \in done'
  BY <1>0, <1>1 DEF DeletedIsDone, Grows
<1>2. CASE Quiet
  BY <1>1, <1>2 DEF Quiet
<1>3. ASSUME NEW j \in Jobs, Takes(j) \/ Drops(j) \/ BeginVisit(j) PROVE <<b, q, s>> \in done'
  BY <1>1, <1>3 DEF Takes, Drops, BeginVisit, mongo
<1>4. ASSUME NEW j \in Jobs, NEW p \in Players, WriteOnly(j, p) PROVE <<b, q, s>> \in done'
  <2>1. /\ counter' = counter + 1 /\ counter' \in Ids
        /\ UNCHANGED <<acts, body>>
    BY <1>0, <1>4 DEF WriteOnly, Ids
  <2>2. CASE b = counter'
    <3>1. body[b] = Nothing
      BY <1>0, <2>1, <2>2 DEF Unissued
    <3> QED  BY <2>1, <3>1 DEF Nothing
  <2>3. CASE b # counter'
    BY <1>0, <1>1, <2>1, <2>3
  <2> QED  BY <2>2, <2>3
<1>5. ASSUME NEW j \in Jobs, NEW d \in Bodies, Commit(j, d) PROVE <<b, q, s>> \in done'
  BY <1>0, <1>1, <1>5 DEF Commit
<1>6. ASSUME NEW j \in Jobs, NEW a \in Ids,
             SaveStates(j, a) \/ RecordPush(j, a) \/ NextStage(j, a) PROVE <<b, q, s>> \in done'
  BY <1>1, <1>6 DEF SaveStates, RecordPush, NextStage, mongo
<1>7. ASSUME NEW j \in Jobs, NEW a \in Ids, FinishAct(j, a) PROVE <<b, q, s>> \in done'
  <2>1. a \in todo[j] /\ UNCHANGED <<counter, body, done>>
    BY <1>7 DEF FinishAct, Executing, IsOldest
  <2>2. CASE b \notin acts
    BY <1>1, <2>1, <2>2
  <2>3. CASE b \in acts
    <3>1. b = a /\ \A p \in Players : cs[j][a][p] = DoneState
      BY <1>7, <2>3 DEF FinishAct
    <3>2. b \in Ids /\ q \in body[b][s]
      BY <1>0, <2>1, <3>1
    <3>3. body[b] \in [Stages -> SUBSET Players]
      BY <3>2 DEF TypeOK, Nothing
    <3>4. q \in Players
      BY <3>2, <3>3
    <3>5. Sound(a, cs[j][a])
      BY <2>1 DEF CopiesSound
    <3>6. cs[j][a][q] > s
      BY <3>1, <3>4
    <3> QED  BY <2>1, <3>1, <3>2, <3>4, <3>5, <3>6 DEF Sound
  <2> QED  BY <2>2, <2>3
<1>8. ASSUME NEW j \in Jobs, NEW a \in Ids, NEW p \in Players, Applies(j, a, p)
       PROVE  <<b, q, s>> \in done'
  BY <1>1, <1>8 DEF Applies, ProfileSet, RecordSet, DocumentAdd
<1> QED
  BY <1>2, <1>3, <1>4, <1>5, <1>6, <1>7, <1>8, Kinds DEF Kind

(***************************************************************************)
(* A getProfile that ends has seen every act to its end.                   *)
(***************************************************************************)
LEMMA ReachedStep ==
    ASSUME TypeOK, StageIdle, PushSound, StageReached, [Next]_vars PROVE StageReached'
<1> SUFFICES ASSUME NEW k \in Jobs, NEW b \in todo'[k], IsOldest(b, todo'[k]), NEW q \in targets'[k]
             PROVE  cs'[k][b][q] >= stage'[k]
  BY DEF StageReached
<1>0. /\ \A j \in Jobs : pc[j] \notin {"checks", "acts"} => stage[j] = 0
      /\ \A j \in Jobs, c \in Ids, p \in Players : cs'[j][c][p] \in 0..4
      /\ \A j \in Jobs : todo'[j] \subseteq Ids /\ targets'[j] \subseteq Players
  <2>1. TypeOK'
    BY TypeStep
  <2>2. \A j \in Jobs, c \in Ids : cs'[j][c] \in [Players -> States]
    BY ONLY <2>1 DEF TypeOK
  <2>3. \A j \in Jobs : todo'[j] \subseteq Ids /\ targets'[j] \subseteq Players
    BY <2>1 DEF TypeOK
  <2> QED  BY <2>2, <2>3 DEF StageIdle
<1>1. ASSUME b \in todo[k], IsOldest(b, todo[k]), q \in targets[k], cs'[k][b][q] >= cs[k][b][q],
             stage'[k] = stage[k]
      PROVE  cs'[k][b][q] >= stage'[k]
  <2>1. cs[k][b][q] >= stage[k]
    BY <1>1 DEF StageReached
  <2>2. cs[k][b][q] \in Int /\ stage[k] \in Int /\ cs'[k][b][q] \in Int
    <3>1. b \in Ids /\ q \in Players
      BY <1>0
    <3>2. cs[k][b][q] \in 0..4
      BY <3>1, CountsType
    <3>3. cs'[k][b][q] \in 0..4
      BY ONLY <1>0, <3>1
    <3>4. stage[k] \in Int
      <4>1. stage \in [Jobs -> States]
        BY DEF TypeOK
      <4> QED  BY ONLY <4>1 DEF States, ProfileState, DoneState
    <3> QED  BY ONLY <3>2, <3>3, <3>4
  <2> QED  BY <1>1, <2>1, <2>2
<1>2. ASSUME stage'[k] = 0 PROVE cs'[k][b][q] >= stage'[k]
  <2>1. cs'[k][b][q] \in 0..4
    BY <1>0
  <2> QED  BY <1>2, <2>1
<1>3. cs[k][b][q] >= cs[k][b][q]
  <2>1. cs[k][b][q] \in Int
    BY <1>0, CountsType
  <2> QED  BY <2>1
<1>4. CASE Quiet
  BY <1>1, <1>3, <1>4 DEF Quiet
<1>5. ASSUME NEW j \in Jobs, Takes(j) PROVE cs'[k][b][q] >= stage'[k]
  <2>1. PICK some \in SUBSET acts, whom \in SUBSET Players : Fetch(j, some, whom)
    BY <1>5 DEF Takes
  <2>2. UNCHANGED stage /\ stage[j] = 0
    BY <1>0, <1>5 DEF Takes
  <2>3. CASE k = j
    BY <1>2, <2>2, <2>3
  <2>4. CASE k # j
    BY <1>1, <1>3, <2>1, <2>2, <2>4, FetchValue
  <2> QED  BY <2>3, <2>4
<1>6. ASSUME NEW j \in Jobs, Drops(j) PROVE cs'[k][b][q] >= stage'[k]
  BY <1>1, <1>2, <1>3, <1>6, ForgetValue DEF Drops
<1>7. ASSUME NEW j \in Jobs, BeginVisit(j) PROVE cs'[k][b][q] >= stage'[k]
  <2>1. UNCHANGED stage /\ stage[j] = 0
    BY <1>0, <1>7 DEF BeginVisit, step
  <2>2. CASE UNCHANGED work
    BY <1>1, <1>3, <2>1, <2>2 DEF work
  <2>3. CASE Fetch(j, ActsOf(Self[j]), {Self[j]})
    BY <1>1, <1>2, <1>3, <2>1, <2>3, FetchValue
  <2> QED  BY <1>7, <2>2, <2>3 DEF BeginVisit
<1>8. ASSUME NEW j \in Jobs, NEW p \in Players, WriteOnly(j, p) PROVE cs'[k][b][q] >= stage'[k]
  BY <1>1, <1>3, <1>8 DEF WriteOnly, work, step
<1>9. ASSUME NEW j \in Jobs, NEW d \in Bodies, Commit(j, d) PROVE cs'[k][b][q] >= stage'[k]
  <2>1. UNCHANGED stage /\ stage[j] = 0
    BY <1>0, <1>9 DEF Commit, step
  <2>2. CASE k = j
    BY <1>2, <2>1, <2>2
  <2>3. CASE k # j
    <3>1. todo'[k] = todo[k] /\ cs'[k] = cs[k] /\ targets'[k] = targets[k]
      BY <1>9, <2>3 DEF Commit, TypeOK
    <3> QED  BY <1>1, <1>3, <2>1, <3>1
  <2> QED  BY <2>2, <2>3
<1>10. ASSUME NEW j \in Jobs, NEW a \in Ids, SaveStates(j, a) PROVE cs'[k][b][q] >= stage'[k]
  BY <1>1, <1>3, <1>10 DEF SaveStates
\* Counts only grow.
<1>11. ASSUME NEW j \in Jobs, NEW a \in Ids, NEW some, Advance(j, a, some),
              UNCHANGED <<todo, targets>>, stage'[k] = stage[k]
       PROVE  cs'[k][b][q] >= stage'[k]
  <2>1. b \in Ids /\ q \in Players
    BY <1>0
  <2>2. /\ cs[k][b][q] \in 0..4 /\ cs[j][a][q] \in 0..4
        /\ cs'[k][b][q] = IF k = j /\ b = a /\ q \in some THEN cs[j][a][q] + 1 ELSE cs[k][b][q]
    BY <1>11, <2>1, AdvanceValue, CountsType
  <2>3. cs'[k][b][q] >= cs[k][b][q]
    BY <2>2
  <2> QED  BY <1>1, <1>11, <2>3
<1>12. ASSUME NEW j \in Jobs, NEW a \in Ids, RecordPush(j, a) PROVE cs'[k][b][q] >= stage'[k]
  BY <1>11, <1>12 DEF RecordPush
<1>13. ASSUME NEW j \in Jobs, NEW a \in Ids, NextStage(j, a) PROVE cs'[k][b][q] >= stage'[k]
  <2>1. /\ Advance(j, a, Pending(j, a))
        /\ UNCHANGED <<todo, targets>>
        /\ stage' = [stage EXCEPT ![j] = @ + 1]
        /\ IsOldest(a, todo[j])
    BY <1>13 DEF NextStage, Executing
  <2>2. CASE k # j
    <3>1. stage'[k] = stage[k]
      BY <2>1, <2>2 DEF TypeOK
    <3> QED  BY <1>11, <2>1, <3>1
  <2>3. CASE k = j
    <3>1. b = a
      <4>1. a \in todo[j] /\ b \in todo[j] /\ a \in Int /\ b \in Int /\ a <= b /\ b <= a
        BY <1>0, <2>1, <2>3 DEF IsOldest, Ids
      <4> QED  BY <4>1
    <3>2. q \in targets[j] /\ q \in Players /\ b \in Ids
      BY <1>0, <2>1, <2>3
    <3>3. cs[j][a][q] >= stage[j]
      BY <2>1, <3>2 DEF StageReached, IsOldest
    <3>4. cs[j][a][q] \in Int /\ stage[j] \in Int /\ stage'[j] = stage[j] + 1
      <4>1. cs[j][a][q] \in Int
        BY <3>1, <3>2, CountsType
      <4>2. stage \in [Jobs -> States]
        BY DEF TypeOK
      <4> QED  BY <2>1, <4>1, <4>2
    <3>5. cs'[j][a][q] = IF q \in Pending(j, a) THEN cs[j][a][q] + 1 ELSE cs[j][a][q]
      BY <2>1, <3>2, AdvanceValue
    <3>6. cs[j][a][q] = stage[j] => q \in Pending(j, a)
      BY <3>2 DEF Pending
    <3> QED  BY <2>3, <3>1, <3>3, <3>4, <3>5, <3>6
  <2> QED  BY <2>2, <2>3
<1>14. ASSUME NEW j \in Jobs, NEW a \in Ids, FinishAct(j, a) PROVE cs'[k][b][q] >= stage'[k]
  <2>1. AfterAct(j, a)
    BY <1>14 DEF FinishAct
  <2> QED  BY <1>1, <1>2, <1>3, <2>1, AfterValue
<1>15. ASSUME NEW j \in Jobs, NEW a \in Ids, NEW p \in Players, Applies(j, a, p)
       PROVE  cs'[k][b][q] >= stage'[k]
  <2>1. UNCHANGED <<todo, targets, stage>> /\ (UNCHANGED cs \/ Advance(j, a, {p}))
    BY <1>15 DEF Applies, ProfileSet, RecordSet, DocumentAdd, step
  <2> QED  BY <1>1, <1>3, <1>11, <2>1
<1> QED
  BY <1>4, <1>5, <1>6, <1>7, <1>8, <1>9, <1>10, <1>12, <1>13, <1>14, <1>15, Kinds DEF Kind

\* Every step keeps VisitOwes.
LEMMA OwesStep ==
    ASSUME TypeOK, PushSound, CopiesSound, StageReached, DeletedIsDone, VisitOwes, [Next]_vars
    PROVE  VisitOwes'
<1> DEFINE Open == {"asks", "acts", "leaves", "ended"}
           Busy == {"asks", "acts"}
<1> SUFFICES ASSUME NEW v \in Visits, pc'[v] \in Open
             PROVE  /\ before'[v] <= counter'
                    /\ pc'[v] \in Busy => Self[v] \in targets'[v]
                    /\ \A b \in 1..before'[v], s \in Stages : Self[v] \in body'[b][s] =>
                          \/ <<b, Self[v], s>> \in done'
                          \/ pc'[v] \in Busy /\ b \in todo'[v]
  BY DEF VisitOwes
<1> DEFINE Goal == /\ before'[v] <= counter'
                   /\ pc'[v] \in Busy => Self[v] \in targets'[v]
                   /\ \A b \in 1..before'[v], s \in Stages : Self[v] \in body'[b][s] =>
                          \/ <<b, Self[v], s>> \in done'
                          \/ pc'[v] \in Busy /\ b \in todo'[v]
<1> SUFFICES Goal
  OBVIOUS
<1>0. /\ v \in Jobs /\ v \notin Codes /\ v \notin Loopers /\ Self[v] \in Players
      /\ counter \in Nat /\ counter' \in Int /\ counter <= counter' /\ Grows
      /\ before \in [Jobs -> 0..MaxId] /\ pc \in [Jobs -> PCs]
      /\ \A j \in Jobs : todo[j] \subseteq Ids
  <2>1. v \in Jobs /\ v \notin Codes /\ v \notin Loopers /\ Self[v] \in Players
    BY DEF Jobs
  <2>2. counter \in Nat /\ before \in [Jobs -> 0..MaxId] /\ pc \in [Jobs -> PCs]
    BY DEF TypeOK
  <2>3. TypeOK' /\ Grows
    BY TypeStep, GrowsStep
  <2>4. counter' \in Int /\ counter <= counter'
    BY <2>3 DEF TypeOK, Grows
  <2> QED  BY <2>1, <2>2, <2>3, <2>4, CountsType
\* Nothing changed for it but its place.
<1>1. ASSUME before'[v] = before[v],
             pc'[v] \in Busy => todo'[v] = todo[v] /\ targets'[v] = targets[v],
             pc'[v] = pc[v] \/ (pc[v] = "asks" /\ pc'[v] = "acts") \/ (pc[v] = "leaves" /\ pc'[v] = "ended")
      PROVE  Goal
  <2>1. pc[v] \in Open /\ (pc'[v] \in Busy <=> pc[v] \in Busy)
    BY <1>1
  <2>2. before[v] <= counter /\ before[v] \in Nat /\ (pc[v] \in Busy => Self[v] \in targets[v])
    BY <1>0, <2>1 DEF VisitOwes
  <2>3. ASSUME NEW b \in 1..before'[v], NEW s \in Stages, Self[v] \in body'[b][s]
        PROVE  <<b, Self[v], s>> \in done' \/ (pc'[v] \in Busy /\ b \in todo'[v])
    <3>1. b \in 1..before[v] /\ b \in 1..counter
      BY <1>0, <1>1, <2>2, <2>3
    <3>2. Self[v] \in body[b][s] /\ done \subseteq done'
      BY <1>0, <2>3, <3>1 DEF Grows
    <3> QED  BY <1>1, <2>1, <3>1, <3>2 DEF VisitOwes
  <2>4. before'[v] <= counter'
    BY <1>0, <1>1, <2>2
  <2> QED  BY ONLY <1>1, <2>1, <2>2, <2>3, <2>4
<1> HIDE DEF Goal
<1>2. CASE Quiet
  BY <1>1, <1>2 DEF Quiet
<1>3. ASSUME NEW j \in Jobs, Takes(j) PROVE Goal
  <2>1. PICK some \in SUBSET acts, whom \in SUBSET Players : Fetch(j, some, whom)
    BY <1>3 DEF Takes
  <2>2. j # v /\ before'[v] = before[v] /\ pc'[v] = pc[v]
    BY <1>0, <1>3 DEF Takes
  <2> QED  BY <1>0, <1>1, <2>1, <2>2, FetchValue
<1>4. ASSUME NEW j \in Jobs, Drops(j) PROVE Goal
  <2>1. Forget(j) /\ UNCHANGED before
    BY <1>4, ForgetValue DEF Drops
  <2>2. CASE j = v
    BY <1>1, <1>4, <2>1, <2>2 DEF Drops
  <2>3. CASE j # v
    <3>1. pc'[v] = pc[v]
      BY <1>0, <1>4, <2>3 DEF Drops
    <3> QED  BY <1>0, <1>1, <2>1, <2>3, <3>1, ForgetValue
  <2> QED  BY <2>2, <2>3
<1>5. ASSUME NEW j \in Jobs, BeginVisit(j) PROVE Goal
  <2>1. CASE j # v
    <3>1. before'[v] = before[v] /\ pc'[v] = pc[v]
      BY <1>0, <1>5, <2>1 DEF BeginVisit, GoTo
    <3>2. todo'[v] = todo[v] /\ targets'[v] = targets[v]
      BY <1>0, <1>5, <2>1, FetchValue DEF BeginVisit, work
    <3> QED  BY <1>1, <3>1, <3>2
  <2>2. CASE j = v
    <3>1. before'[v] = counter /\ UNCHANGED <<counter, acts, body, done>>
      BY <1>0, <1>5, <2>2 DEF BeginVisit, mongo
    <3>2. ASSUME NEW b \in 1..counter, NEW s \in Stages, Self[v] \in body[b][s]
          PROVE  <<b, Self[v], s>> \in done \/ b \in ActsOf(Self[v])
      BY <3>2 DEF DeletedIsDone, ActsOf, Touched
    <3>3. CASE ActsOf(Self[v]) = {}
      <4>1. pc'[v] = "ended"
        BY <1>0, <1>5, <2>2, <3>3 DEF BeginVisit, GoTo
      <4> QED  BY SMTT(60), <1>0, <3>1, <3>2, <3>3, <4>1 DEF Goal
    <3>4. CASE ActsOf(Self[v]) # {}
      <4>1. pc'[v] = "asks" /\ Fetch(v, ActsOf(Self[v]), {Self[v]})
        BY <1>0, <1>5, <2>2, <3>4 DEF BeginVisit, GoTo
      <4>2. todo'[v] = ActsOf(Self[v]) /\ targets'[v] = {Self[v]}
        BY <1>0, <4>1, FetchValue
      <4> QED  BY SMTT(60), <1>0, <3>1, <3>2, <4>1, <4>2 DEF Goal
    <3> QED  BY <3>3, <3>4
  <2> QED  BY <2>1, <2>2
<1>6. ASSUME NEW j \in Jobs, NEW p \in Players, WriteOnly(j, p) PROVE Goal
  <2>1. pc'[v] = pc[v] /\ UNCHANGED <<before, todo, targets>>
    BY <1>0, <1>6 DEF WriteOnly, GoTo, seen, work
  <2> QED  BY <1>1, <2>1
<1>7. ASSUME NEW j \in Jobs, NEW d \in Bodies, Commit(j, d) PROVE Goal
  <2>1. j # v /\ UNCHANGED before
    BY <1>0, <1>7 DEF Commit, seen
  <2>2. pc'[v] = pc[v] /\ todo'[v] = todo[v] /\ targets'[v] = targets[v]
    BY <1>0, <1>7, <2>1 DEF Commit, GoTo, TypeOK
  <2> QED  BY <1>1, <2>1, <2>2
<1>8. ASSUME NEW j \in Jobs, NEW a \in Ids,
             SaveStates(j, a) \/ RecordPush(j, a) \/ NextStage(j, a) PROVE Goal
  BY <1>1, <1>8 DEF SaveStates, RecordPush, NextStage, seen
<1>9. ASSUME NEW j \in Jobs, NEW a \in Ids, FinishAct(j, a) PROVE Goal
  <2>1. AfterAct(j, a) /\ UNCHANGED <<counter, body, done, before>>
    BY <1>9, AfterValue DEF FinishAct
  <2>2. CASE j # v
    BY <1>0, <1>1, <2>1, <2>2, AfterValue
  <2>3. CASE j = v
    <3>1. /\ pc[v] \in {"checks", "acts"} /\ IsOldest(a, todo[v]) /\ stage[v] = DoneState
          /\ a \in todo[v]
      BY <1>9, <2>3 DEF FinishAct, Executing, IsOldest
    <3>2. /\ todo'[v] = todo[v] \ {a}
          /\ todo'[v] # {} => pc'[v] = pc[v] /\ targets'[v] = targets[v]
          /\ todo'[v] = {} => pc'[v] = IF pc[v] = "checks" THEN "code" ELSE "leaves"
      BY <1>0, <2>1, <2>3, AfterValue
    <3>3. pc[v] = "acts" /\ (pc'[v] \in Busy => pc'[v] = "acts" /\ todo'[v] # {})
      BY <3>1, <3>2
    <3>4. before[v] <= counter /\ Self[v] \in targets[v]
      BY <3>3 DEF VisitOwes
    <3>5. ASSUME NEW s \in Stages, Self[v] \in body[a][s] PROVE <<a, Self[v], s>> \in done
      <4>1. cs[v][a][Self[v]] >= 4 /\ cs[v][a][Self[v]] \in 0..4
        BY <1>0, <3>1, <3>4, CountsType DEF StageReached
      <4>2. cs[v][a][Self[v]] > s
        BY <4>1
      <4> QED  BY <1>0, <3>1, <3>5, <4>2 DEF CopiesSound, Sound
    <3>6. ASSUME NEW b \in 1..before[v], NEW s \in Stages, Self[v] \in body[b][s]
          PROVE  <<b, Self[v], s>> \in done \/ b \in todo'[v]
      <4>1. <<b, Self[v], s>> \in done \/ b \in todo[v]
        BY <3>3, <3>6 DEF VisitOwes
      <4> QED  BY <3>2, <3>5, <3>6, <4>1
    <3>7. pc'[v] \in Busy \/ todo'[v] = {}
      BY <3>2, <3>3
    <3> QED  BY ONLY <2>1, <3>2, <3>4, <3>6, <3>7, <3>3 DEF Goal
  <2> QED  BY <2>2, <2>3
<1>10. ASSUME NEW j \in Jobs, NEW a \in Ids, NEW p \in Players, Applies(j, a, p) PROVE Goal
  BY <1>1, <1>10 DEF Applies, ProfileSet, RecordSet, DocumentAdd, seen
<1> QED
  BY <1>2, <1>3, <1>4, <1>5, <1>6, <1>7, <1>8, <1>9, <1>10, Kinds DEF Kind

(***************************************************************************)
(* The invariant and what follows from it.                                 *)
(***************************************************************************)
LEMMA IInvInit == Init => IInv
<1> SUFFICES ASSUME Init PROVE IInv
  OBVIOUS
<1>1. TypeOK
  BY TypeInit
<1>2. Unissued /\ StageIdle /\ PushSound
  BY DEF Init, Unissued, StageIdle, PushSound
<1>3. StoredSound /\ CopiesSound /\ StageReached
  BY DEF Init, StoredSound, CopiesSound, StageReached
<1>4. DeletedIsDone /\ VisitOwes
  BY DEF Init, DeletedIsDone, VisitOwes, Jobs
<1> QED  BY <1>1, <1>2, <1>3, <1>4 DEF IInv

\* Every step keeps the inductive invariant.
LEMMA IInvStep == IInv /\ [Next]_vars => IInv'
BY TypeStep, UnissuedStep, StoredStep, CopiesStep, IdleStep, PushStep, ReachedStep,
   DeletedStep, OwesStep DEF IInv

\* The inductive invariant of the module.
THEOREM InvCorrect == Spec => []IInv
<1>1. Init => IInv
  BY IInvInit
<1>2. IInv /\ [Next]_vars => IInv'
  BY IInvStep
<1> QED  BY <1>1, <1>2, PTL DEF Spec

\* The states stored with an act never run ahead of the documents: whatever
\* a job saves after errors of others and from an old copy, a part that `st`
\* counts as over was applied.
THEOREM StatesFollowStores == Spec => []StateIsDone
<1>1. IInv => StateIsDone
  BY DEF IInv, StoredSound, Sound, StateIsDone, TypeOK
<1> QED  BY <1>1, InvCorrect, PTL

\* tryToDoneAct deletes no act of which a part was not applied, although the
\* jobs that carry an act on each look after some players only.
THEOREM NoActIsCutShort == Spec => []DeletedIsDone
<1>1. IInv => DeletedIsDone
  BY DEF IInv
<1> QED  BY <1>1, InvCorrect, PTL

\* A getProfile that ended well left nothing undone of what earlier acts ask
\* for the player.
THEOREM VisitsSeeAll == Spec => []VisitSeesAll
<1>1. IInv => VisitSeesAll
  BY DEF IInv, VisitOwes, VisitSeesAll
<1> QED  BY <1>1, InvCorrect, PTL

=============================================================================
