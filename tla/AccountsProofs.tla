--------------------------- MODULE AccountsProofs ---------------------------
(***************************************************************************)
(* Theorems about who a player is and what he owns: the profiles, who writes  *)
(* to one and which one an account has, and the sessions.  They hold for any   *)
(* number of requests, accounts, profiles, identifiers and logins.             *)
(***************************************************************************)
EXTENDS Accounts, ProfileWrites, Sessions, FiniteSetTheorems, TLAPS

-----------------------------------------------------------------------------
(***************************************************************************)
(* Writes of a profile.  The inductive invariant: a request that may trust    *)
(* its lease has the hid, which nobody else has then, so that a function of    *)
(* such a request has read what the profile still is.                          *)
(***************************************************************************)
WriterFields == [at : {"rest", "lock", "write", "read", "resolve", "return", "flush"},
                 kind : Direct \cup {"function", "other", "get"}, base : 0 .. MaxWrites]
WritesAreBounded == node <= written /\ \A w \in Writers : writer[w].base <= written
TrustedHold == \A w \in trusted : holding[w] = {"hid"}
ReadIsCurrent == \A w \in trusted : Is(w, "resolve") => writer[w].base = node
WriteInv ==
    /\ WriteTypeOK /\ WritesAreBounded
    /\ TrustedHold /\ Lease!Disjoint
    /\ unfenced \/ (node = written /\ ReadIsCurrent)

\* Only one request at a time may trust its lease.
LEMMA OneIsTrusted ==
    ASSUME WriteInv, NEW v \in trusted, NEW w \in trusted
    PROVE  v = w
BY DEF WriteInv, WriteTypeOK, TrustedHold, Lease!Disjoint

\* A lease that is taken is the only one, and one that lapses leaves the others.
LEMMA TakeKeepsLeases ==
    ASSUME WriteInv, NEW w \in Writers, Lease!Take(w, {"hid"})
    PROVE  /\ holding' \in [Writers -> SUBSET {"hid"}] /\ trusted' \subseteq Writers
           /\ TrustedHold' /\ Lease!Disjoint' /\ trusted' \subseteq trusted \cup {w}
BY DEF WriteInv, WriteTypeOK, TrustedHold, Lease!Disjoint, Lease!Take

\* A lease that lapses leaves those that are trusted as they are.
LEMMA LapseKeepsLeases ==
    ASSUME WriteInv, NEW distrusted \in SUBSET Writers, NEW losers \in SUBSET Writers,
           Lease!Lapse(distrusted, losers)
    PROVE  /\ holding' \in [Writers -> SUBSET {"hid"}] /\ trusted' \subseteq Writers
           /\ TrustedHold' /\ Lease!Disjoint' /\ trusted' \subseteq trusted
BY DEF WriteInv, WriteTypeOK, TrustedHold, Lease!Disjoint, Lease!Lapse

\* What the writers do besides writing keeps the invariant, when it leaves the leases
\* in order and what a request reads is the profile.
LEMMA QuietKeepsWriteInv ==
    ASSUME WriteInv, DataKept, caller' \in {"none", "bare", "full"},
           holding' \in [Writers -> SUBSET {"hid"}], trusted' \subseteq Writers,
           TrustedHold', Lease!Disjoint',
           writer' \in [Writers -> WriterFields],
           \A w \in Writers : writer'[w].base \in {writer[w].base, node, 0},
           \A w \in trusted' :
               \/ w \in trusted /\ writer'[w] = writer[w]
               \/ writer'[w].at # "resolve" \/ writer'[w].base = node
    PROVE  WriteInv'
<1>1. WriteTypeOK'
  BY DEF WriteInv, WriteTypeOK, DataKept, WriterFields
<1>2. WritesAreBounded'
  <2>1. node \in Int /\ written \in Int /\ node <= written /\ 0 <= written
    BY ProfileWritesAssumption DEF WriteInv, WriteTypeOK, WritesAreBounded
  <2> QED  BY <2>1 DEF WriteInv, WritesAreBounded, DataKept
<1>3. unfenced' \/ (node' = written' /\ ReadIsCurrent')
  <2>1. CASE unfenced
    BY <2>1 DEF DataKept
  <2>2. CASE node = written /\ ReadIsCurrent
    BY <2>2 DEF DataKept, ReadIsCurrent, Is
  <2> QED  BY <2>1, <2>2 DEF WriteInv
<1> QED  BY <1>1, <1>2, <1>3 DEF WriteInv

\* A write of what the writer may be sure of keeps it as well.
LEMMA WriteKeepsWriteInv ==
    ASSUME WriteInv, NEW w \in Writers, NEW value \in {written, node, writer[w].base},
           Write(w, value + 1), LeaseKept, UNCHANGED caller,
           w \in trusted /\ ~unfenced => value = written
    PROVE  WriteInv'
<1>1. /\ written < MaxWrites /\ node' = value + 1 /\ written' = written + 1
      /\ unfenced' = (unfenced \/ w \notin trusted) /\ Goes(w, "return")
  BY DEF Write
<1>2. /\ node \in 0 .. MaxWrites /\ written \in 0 .. MaxWrites /\ node <= written
      /\ writer \in [Writers -> WriterFields]
      /\ \A v \in Writers : writer[v].base \in 0 .. MaxWrites /\ writer[v].base <= written
  BY DEF WriteInv, WriteTypeOK, WritesAreBounded, WriterFields
<1>3. /\ writer' \in [Writers -> WriterFields] /\ ~Is(w, "resolve")'
      /\ \A v \in Writers : v # w => writer'[v] = writer[v]
      /\ \A v \in Writers : writer'[v].base = writer[v].base
  BY <1>1, <1>2 DEF Goes, WriterFields, Is
<1>4. value \in 0 .. MaxWrites /\ value <= written
  BY <1>2
<1>5. WriteTypeOK'
  <2>1. node' \in 0 .. MaxWrites /\ written' \in 0 .. MaxWrites
    BY <1>1, <1>2, <1>4, ProfileWritesAssumption
  <2>2. unfenced' \in BOOLEAN
    BY <1>1, Zenon
  <2> QED  BY <1>3, <2>1, <2>2 DEF WriteInv, WriteTypeOK, LeaseKept, WriterFields
<1>6. WritesAreBounded'
  BY <1>1, <1>2, <1>3, <1>4 DEF WritesAreBounded
<1>7. TrustedHold' /\ Lease!Disjoint'
  BY DEF WriteInv, TrustedHold, Lease!Disjoint, LeaseKept
<1>8. unfenced' \/ (node' = written' /\ ReadIsCurrent')
  <2>1. CASE unfenced \/ w \notin trusted
    BY <1>1, <2>1, Zenon
  <2>2. CASE ~unfenced /\ w \in trusted
    <3>1. node' = written'
      BY <1>1, <2>2
    <3>2. \A v \in trusted' : v = w
      BY <2>2, OneIsTrusted DEF LeaseKept
    <3> QED  BY <1>3, <3>1, <3>2 DEF ReadIsCurrent
  <2> QED  BY <2>1, <2>2
<1> QED  BY <1>5, <1>6, <1>7, <1>8 DEF WriteInv

\* The invariant holds at the start.
LEMMA WriteInvInit == WriteInit => WriteInv
<1> SUFFICES ASSUME WriteInit PROVE WriteInv
  OBVIOUS
<1>1. Away \in WriterFields /\ Away.base = 0
  BY ProfileWritesAssumption DEF Away, WriterFields, Direct
<1>2. /\ node = 0 /\ written = 0 /\ caller = "bare" /\ unfenced = FALSE /\ 0 \in 0 .. MaxWrites
      /\ writer = [w \in Writers |-> Away]
      /\ holding = [w \in Writers |-> {}] /\ trusted = {}
  BY ProfileWritesAssumption DEF WriteInit, Lease!Init
<1>3. WriteTypeOK
  BY <1>1, <1>2 DEF WriteTypeOK, WriterFields
<1>4. WritesAreBounded /\ TrustedHold /\ Lease!Disjoint /\ ReadIsCurrent
  BY <1>1, <1>2 DEF WritesAreBounded, TrustedHold, Lease!Disjoint, ReadIsCurrent
<1> QED  BY <1>2, <1>3, <1>4 DEF WriteInv

\* Every step keeps it.
LEMMA WriteInvStep == WriteInv /\ [WriteNext]_writeVars => WriteInv'
<1> SUFFICES ASSUME WriteInv, [WriteNext]_writeVars PROVE WriteInv'
  OBVIOUS
<1>a. /\ holding \in [Writers -> SUBSET {"hid"}] /\ trusted \subseteq Writers
      /\ TrustedHold /\ Lease!Disjoint
      /\ writer \in [Writers -> WriterFields] /\ caller \in {"none", "bare", "full"}
  BY DEF WriteInv, WriteTypeOK, WriterFields
<1>b. LeaseKept => /\ holding' \in [Writers -> SUBSET {"hid"}] /\ trusted' \subseteq Writers
                   /\ TrustedHold' /\ Lease!Disjoint' /\ trusted' \subseteq trusted
  BY <1>a DEF LeaseKept, TrustedHold, Lease!Disjoint
<1>c. ASSUME NEW w \in Writers,
             NEW stage \in {"lock", "write", "read", "return", "flush"}, Goes(w, stage)
      PROVE  /\ writer' \in [Writers -> WriterFields] /\ writer'[w].at = stage
             /\ \A v \in Writers : v # w => writer'[v] = writer[v]
             /\ \A v \in Writers : writer'[v].base = writer[v].base
  BY ONLY <1>a, <1>c DEF Goes, WriterFields
<1>d. Away \in WriterFields /\ Away.at = "rest" /\ Away.base = 0
  BY ProfileWritesAssumption DEF Away, WriterFields, Direct
<1>e. ASSUME NEW w \in Writers, writer' = [writer EXCEPT ![w] = Away]
      PROVE  /\ writer' \in [Writers -> WriterFields] /\ writer'[w].at = "rest"
             /\ writer'[w].base = 0
             /\ \A v \in Writers : v # w => writer'[v] = writer[v]
  BY <1>a, <1>d, <1>e
<1>f. ASSUME NEW w \in Writers, NEW kind \in Direct \cup {"function", "other", "get"},
             Begin(w, "lock", kind)
      PROVE  /\ writer' \in [Writers -> WriterFields] /\ writer'[w].at = "lock"
             /\ writer'[w].base = 0
             /\ \A v \in Writers : v # w => writer'[v] = writer[v]
  <2> DEFINE begun == [at |-> "lock", kind |-> kind, base |-> 0]
  <2>1. begun \in WriterFields /\ begun.at = "lock" /\ begun.base = 0
    BY ProfileWritesAssumption DEF WriterFields, Direct
  <2>2. writer' = [writer EXCEPT ![w] = begun]
    BY <1>f DEF Begin
  <2> HIDE DEF begun
  <2> QED  BY <1>a, <2>1, <2>2
<1>1. CASE Login
  BY <1>a, <1>b, <1>1, QuietKeepsWriteInv DEF Login
<1>2. ASSUME NEW w \in Writers, AcquireResourceLock(w) PROVE WriteInv'
  <2>1. /\ Lease!Take(w, {"hid"}) /\ DataKept /\ UNCHANGED caller
        /\ Goes(w, "write") \/ Goes(w, "read")
    BY <1>2 DEF AcquireResourceLock
  <2>2. /\ writer' \in [Writers -> WriterFields] /\ writer'[w].at # "resolve"
        /\ \A v \in Writers : v # w => writer'[v] = writer[v]
        /\ \A v \in Writers : writer'[v].base = writer[v].base
    BY <1>c, <2>1
  <2> QED  BY <1>a, <2>1, <2>2, TakeKeepsLeases, QuietKeepsWriteInv
<1>3. ASSUME NEW w \in Writers, ReturnResourcesLock(w) PROVE WriteInv'
  <2>1. /\ Lease!Lapse({w}, {w}) /\ DataKept /\ UNCHANGED caller
        /\ writer' = [writer EXCEPT ![w] = IF @.kind = "get" THEN [@ EXCEPT !.at = "flush"] ELSE Away]
    BY <1>3 DEF ReturnResourcesLock
  <2>2. /\ writer' \in [Writers -> WriterFields] /\ writer'[w].at # "resolve"
        /\ \A v \in Writers : v # w => writer'[v] = writer[v]
        /\ \A v \in Writers : writer'[v].base \in {writer[v].base, 0}
    <3>1. CASE writer[w].kind = "get"
      <4>1. Goes(w, "flush")
        BY <1>a, <2>1, <3>1 DEF Goes
      <4> QED  BY <1>c, <4>1
    <3>2. CASE writer[w].kind # "get"
      <4>1. writer' = [writer EXCEPT ![w] = Away]
        BY <2>1, <3>2
      <4> QED  BY <1>e, <4>1
    <3> QED  BY <3>1, <3>2
  <2> QED  BY ZenonT(60), <1>a, <2>1, <2>2, LapseKeepsLeases, QuietKeepsWriteInv
<1>4. ASSUME NEW w \in Writers, LockRots(w) PROVE WriteInv'
  <2>1. /\ Lease!Lapse({w}, {}) \/ Lease!Lapse({}, {w})
        /\ DataKept /\ UNCHANGED <<writer, caller>>
    BY <1>4 DEF LockRots
  <2>2. {w} \in SUBSET Writers /\ {} \in SUBSET Writers
    OBVIOUS
  <2>3. /\ holding' \in [Writers -> SUBSET {"hid"}] /\ trusted' \subseteq Writers
        /\ TrustedHold' /\ Lease!Disjoint' /\ trusted' \subseteq trusted
    BY <2>1, <2>2, LapseKeepsLeases
  <2> QED  BY <1>a, <2>1, <2>3, QuietKeepsWriteInv
<1>5. ASSUME NEW w \in Writers,
             \/ SetProfile(w) \/ UpdateProfile(w) \/ UpdateProfileJP(w)
             \/ RunCloudFunction(w) \/ RunCloudFunctionOfAnother(w) \/ GetProfile(w)
      PROVE  WriteInv'
  <2>1. /\ DataKept /\ LeaseKept /\ caller' \in {"none", "bare", "full"}
        /\ \/ UNCHANGED writer
           \/ \E kind \in Direct \cup {"function", "other", "get"} : Begin(w, "lock", kind)
    BY <1>a, <1>5 DEF SetProfile, UpdateProfile, UpdateProfileJP, RunCloudFunction,
       RunCloudFunctionOfAnother, GetProfile, AskToWrite, Direct
  <2>2. CASE UNCHANGED writer
    BY <1>a, <1>b, <2>1, <2>2, QuietKeepsWriteInv
  <2>3. CASE \E kind \in Direct \cup {"function", "other", "get"} : Begin(w, "lock", kind)
    <3>1. /\ writer' \in [Writers -> WriterFields] /\ writer'[w].at = "lock"
          /\ writer'[w].base = 0
          /\ \A v \in Writers : v # w => writer'[v] = writer[v]
      BY <1>f, <2>3
    <3> QED  BY <1>b, <2>1, <3>1, QuietKeepsWriteInv
  <2> QED  BY <2>1, <2>2, <2>3
<1>6. ASSUME NEW w \in Writers,
             DoSetProfile(w) \/ DoUpdateProfile(w) \/ DoUpdateProfileJP(w)
      PROVE  WriteInv'
  <2>1. ~unfenced => node = written
    BY DEF WriteInv
  <2>2. /\ Write(w, written + 1) \/ Write(w, node + 1)
        /\ LeaseKept /\ UNCHANGED caller
    BY <1>6 DEF DoSetProfile, DoUpdateProfile, DoUpdateProfileJP
  <2> QED  BY <2>1, <2>2, WriteKeepsWriteInv
<1>7. ASSUME NEW w \in Writers, ReadNode(w) PROVE WriteInv'
  <2> DEFINE read == [writer[w] EXCEPT !.at = "resolve", !.base = node]
  <2>1. DataKept /\ LeaseKept /\ UNCHANGED caller /\ writer' = [writer EXCEPT ![w] = read]
    BY <1>a, <1>7 DEF ReadNode
  <2>2. read \in WriterFields /\ read.base = node
    BY ZenonT(60), <1>a DEF WriterFields, WriteInv, WriteTypeOK
  <2> HIDE DEF read
  <2>3. /\ writer' \in [Writers -> WriterFields] /\ writer'[w].base = node
        /\ \A v \in Writers : v # w => writer'[v] = writer[v]
    BY <1>a, <2>1, <2>2
  <2> QED  BY <1>a, <1>b, <2>1, <2>3, QuietKeepsWriteInv
<1>8. ASSUME NEW w \in Writers, TryToMutateProfile(w) PROVE WriteInv'
  <2>1. /\ Is(w, "resolve") /\ LeaseKept /\ UNCHANGED caller
        /\ Write(w, writer[w].base + 1) \/ (Goes(w, "return") /\ DataKept)
    BY <1>8 DEF TryToMutateProfile
  <2>2. CASE Write(w, writer[w].base + 1)
    <3>1. w \in trusted /\ ~unfenced => writer[w].base = written
      BY <2>1 DEF WriteInv, ReadIsCurrent
    <3> QED  BY <2>1, <2>2, <3>1, WriteKeepsWriteInv
  <2>3. CASE Goes(w, "return") /\ DataKept
    <3>1. /\ writer' \in [Writers -> WriterFields] /\ writer'[w].at = "return"
          /\ \A v \in Writers : v # w => writer'[v] = writer[v]
          /\ \A v \in Writers : writer'[v].base = writer[v].base
      BY <1>c, <2>3
    <3> QED  BY <1>a, <1>b, <2>1, <2>3, <3>1, QuietKeepsWriteInv
  <2> QED  BY <2>1, <2>2, <2>3
<1>9. ASSUME NEW w \in Writers, FlushGottenProfile(w) PROVE WriteInv'
  <2>1. /\ DataKept /\ LeaseKept /\ writer' = [writer EXCEPT ![w] = Away]
        /\ caller' \in {"none", "bare", "full"}
    BY <1>a, <1>9 DEF FlushGottenProfile
  <2>2. /\ writer' \in [Writers -> WriterFields] /\ writer'[w].at = "rest"
        /\ writer'[w].base = 0
        /\ \A v \in Writers : v # w => writer'[v] = writer[v]
    BY <1>e, <2>1
  <2> QED  BY <1>b, <2>1, <2>2, QuietKeepsWriteInv
<1>10. ASSUME NEW w \in Writers, WriterFails(w) PROVE WriteInv'
  <2>1. /\ DataKept /\ Lease!Lapse({w}, {}) /\ writer' = [writer EXCEPT ![w] = Away]
        /\ caller' \in {"none", "bare", "full"}
    BY <1>a, <1>10 DEF WriterFails
  <2>2. /\ writer' \in [Writers -> WriterFields] /\ writer'[w].at = "rest"
        /\ writer'[w].base = 0
        /\ \A v \in Writers : v # w => writer'[v] = writer[v]
    BY <1>e, <2>1
  <2>3. {w} \in SUBSET Writers /\ {} \in SUBSET Writers
    OBVIOUS
  <2>4. /\ holding' \in [Writers -> SUBSET {"hid"}] /\ trusted' \subseteq Writers
        /\ TrustedHold' /\ Lease!Disjoint' /\ trusted' \subseteq trusted
    BY <2>1, <2>3, LapseKeepsLeases
  <2> QED  BY <2>1, <2>2, <2>4, QuietKeepsWriteInv
<1>11. CASE UNCHANGED writeVars
  <2>1. DataKept /\ LeaseKept /\ UNCHANGED <<writer, caller>>
    BY <1>11 DEF writeVars, DataKept, LeaseKept
  <2> QED  BY <1>a, <1>b, <2>1, QuietKeepsWriteInv
<1> QED
  BY <1>1, <1>2, <1>3, <1>4, <1>5, <1>6, <1>7, <1>8, <1>9, <1>10, <1>11 DEF WriteNext

\* The invariant holds in every state.
LEMMA WriteInvariant == WriteSpec => []WriteInv
BY WriteInvInit, WriteInvStep, PTL DEF WriteSpec

\* The variables of the writers keep their types.
THEOREM WriteTyping == WriteSpec => []WriteTypeOK
<1>1. WriteInv => WriteTypeOK
  BY DEF WriteInv
<1> QED  BY <1>1, WriteInvariant, PTL

\* As long as nobody wrote on a lease that had lapsed, the profile reflects every
\* write that was made.
THEOREM EveryWriteIsKept == WriteSpec => []NoWriteLost
<1>1. WriteInv => NoWriteLost
  BY DEF WriteInv, NoWriteLost
<1> QED  BY <1>1, WriteInvariant, PTL

-----------------------------------------------------------------------------
(***************************************************************************)
(* The profile of an account.  The inductive invariant: the documents are     *)
(* numbered without a gap, by numbers that were generated; a native account   *)
(* that has a npid keeps its own profile there; every request to link or to    *)
(* unlink one carries that profile along, whatever others do meanwhile; and    *)
(* what the refresh takes for owned has all that had an account.              *)
(***************************************************************************)
TaskStages == {"rest", "name", "insert", "account", "unset", "flush", "look", "destroy", "link",
               "bilogin", "justlink", "leave", "unlink"}
TaskRecord == [at : TaskStages, a : Accts \cup {NoSocial}, id : SocialIds \cup {NoSocial},
               bi : BOOLEAN, old : 0 .. MaxProfiles, p : 0 .. MaxProfiles,
               hid : 0 .. MaxProfiles, new : BOOLEAN]
AccountRecord == [exists : BOOLEAN, pid : 0 .. MaxProfiles, npid : 0 .. MaxProfiles,
                  social : SocialIds \cup {NoSocial}]
ProfileRecord == [hid : 0 .. MaxProfiles, social : SocialIds \cup {NoSocial},
                  due : BOOLEAN, there : BOOLEAN]
LoginRecord == [live : BOOLEAN, pid : 0 .. MaxProfiles]
RefreshRecord == [at : {"rest", "linkage", "update"}, page : SUBSET Pids, owned : SUBSET Pids,
                  named : SUBSET Pids]
Networks == {"vk", "ok", "fb"}

AccountTypes ==
    /\ networkOf \in [SocialIds -> Networks]
    /\ account \in [Accts -> AccountRecord] /\ profile \in [Pids -> ProfileRecord]
    /\ login \in [Accts -> LoginRecord] /\ task \in [AccountRequests -> TaskRecord]
    /\ humanId \in Nat /\ ends \in Nat /\ humanId + ends <= MaxProfiles
    /\ refresh \in RefreshRecord
    /\ own \in [Natives -> 0 .. MaxProfiles \cup {Overwritten}] /\ raced \subseteq Pids

Inserting == {r \in AccountRequests : On(r, "insert")}
DocumentsAreNumbered ==
    /\ IsFiniteSet(Inserting)
    /\ \E n \in Nat : Stored = 1 .. n /\ n + Cardinality(Inserting) <= humanId
    /\ There \subseteq Stored

\* The pids that somebody may come to, and what was done with them.
TakenUp == {task[r].p : r \in AccountRequests}
Accounted == There \cup raced

OwnIsNamed == \A a \in Natives :
    /\ account[a].npid # NoPid => account[a].pid # NoPid
    /\ own[a] \in Pids =>
          /\ account[a].pid # NoPid
          /\ own[a] = IF account[a].npid = NoPid THEN account[a].pid ELSE account[a].npid
          /\ own[a] \in Accounted

\* A request to link a native account, or to unlink one.
Relinks(r) ==
    task[r].a \in Natives /\ (task[r].id # NoSocial \/ task[r].at \in {"leave", "unlink"})
TaskIsSound(r) ==
    /\ ~On(r, "rest") => task[r].a \in Accts
    /\ task[r].at \in {"link", "account", "unset", "flush"} => task[r].p # NoPid
    /\ On(r, "insert") => task[r].hid # 0
    /\ task[r].at \in {"look", "destroy", "link"} => task[r].id # NoSocial
    /\ On(r, "account") => task[r].p \in Accounted
    /\ Relinks(r) => /\ account[task[r].a].pid # NoPid /\ task[r].old # NoPid
                     /\ own[task[r].a] \in Pids => own[task[r].a] = task[r].old
TasksAreSound == \A r \in AccountRequests : TaskIsSound(r)
LookIsSound == refresh.at = "update" => refresh.named \subseteq refresh.owned

AccountInv ==
    AccountTypes /\ DocumentsAreNumbered /\ OwnIsNamed /\ TasksAreSound /\ LookIsSound

\* The records without a document, a login, a task and a page are of their kinds.
LEMMA ProfileConstantsAreTyped ==
    /\ MaxProfiles \in Nat /\ 0 \in 0 .. MaxProfiles /\ NoPid = 0 /\ Pids \subseteq 0 .. MaxProfiles
    /\ NoPid \notin Pids /\ Overwritten \notin Pids
    /\ NoProfile \in ProfileRecord /\ NoProfile.hid = 0 /\ NoProfile.there = FALSE
    /\ LoggedOut \in LoginRecord
    /\ Free \in TaskRecord /\ Free.at = "rest" /\ Free.id = NoSocial /\ Free.p = NoPid
    /\ NoRefresh \in RefreshRecord /\ NoRefresh.at = "rest"
BY AccountsAssumption
   DEF NoProfile, LoggedOut, Free, NoRefresh, ProfileRecord, LoginRecord, TaskRecord,
       RefreshRecord, TaskStages, Pids, NoPid, Overwritten

\* A request is one of those of its network.
LEMMA RequestsAreRequests ==
    ASSUME AccountTypes, NEW r \in UNION {RequestsOf[networkOf[id]] : id \in SocialIds}
    PROVE  r \in AccountRequests
BY AccountsAssumption DEF AccountTypes, AccountRequests, Networks

\* What is set of one request changes nothing of the others.
LEMMA TaskIsSet ==
    ASSUME AccountTypes, NEW r \in AccountRequests, NEW t \in TaskRecord,
           task' = [task EXCEPT ![r] = t]
    PROVE  /\ task' \in [AccountRequests -> TaskRecord] /\ task'[r] = t
           /\ \A q \in AccountRequests : q # r => task'[q] = task[q]
BY DEF AccountTypes

\* A request that goes on keeps what it has.
LEMMA TaskGoesOn ==
    ASSUME AccountTypes, NEW r \in AccountRequests, NEW stage \in TaskStages, Step(r, stage)
    PROVE  /\ task' \in [AccountRequests -> TaskRecord]
           /\ task'[r].at = stage /\ task'[r].a = task[r].a /\ task'[r].id = task[r].id
           /\ task'[r].old = task[r].old /\ task'[r].p = task[r].p
           /\ \A q \in AccountRequests : q # r => task'[q] = task[q]
BY SMTT(60) DEF AccountTypes, Step, TaskRecord

\* A request that is over has nothing any more.
LEMMA TaskIsOver ==
    ASSUME AccountTypes, NEW r \in AccountRequests, Finish(r)
    PROVE  /\ task' \in [AccountRequests -> TaskRecord] /\ task'[r].at = "rest"
           /\ \A q \in AccountRequests : q # r => task'[q] = task[q]
           /\ TaskIsSound(r)'
<1>1. /\ task' \in [AccountRequests -> TaskRecord] /\ task'[r] = Free
      /\ \A q \in AccountRequests : q # r => task'[q] = task[q]
  BY ProfileConstantsAreTyped DEF AccountTypes, Finish
<1> QED  BY <1>1, ProfileConstantsAreTyped DEF TaskIsSound, Relinks, On

(***************************************************************************)
(* What the steps have in common: no account loses what it has, no document   *)
(* that somebody has or is about to have goes unaccounted for, and the         *)
(* requests that go on are sound.                                             *)
(***************************************************************************)
NamesKept == \A a \in Natives :
    account'[a].pid = account[a].pid /\ account'[a].npid = account[a].npid /\ own'[a] = own[a]
OwnIsSteady == \A a \in Natives : account[a].pid # NoPid =>
    account'[a].pid # NoPid /\ (own'[a] \in Pids => own'[a] = own[a])
DocumentsKept ==
    /\ Stored' = Stored /\ There' \subseteq There /\ humanId' = humanId
    /\ \A p \in Named \cup TakenUp : p \in Accounted => p \in Accounted'
TasksGoOn == \A r \in AccountRequests :
    task'[r] = task[r] \/ (TaskIsSound(r)' /\ task'[r].at # "insert")

\* The requests stay sound.
LEMMA TasksStaySound ==
    ASSUME AccountInv, OwnIsSteady, \A p \in TakenUp : p \in Accounted => p \in Accounted',
           \A r \in AccountRequests : task'[r] = task[r] \/ TaskIsSound(r)'
    PROVE  TasksAreSound'
<1> SUFFICES ASSUME NEW r \in AccountRequests, task'[r] = task[r] PROVE TaskIsSound(r)'
  BY DEF TasksAreSound
<1>1. TaskIsSound(r) /\ task[r].p \in TakenUp
  BY DEF AccountInv, TasksAreSound, TakenUp
<1>2. Relinks(r)' => Relinks(r)
  BY DEF Relinks
<1> QED  BY <1>1, <1>2 DEF TaskIsSound, On, OwnIsSteady, Relinks

\* So do the names, when nobody gives or takes one.
LEMMA NamesStaySound ==
    ASSUME AccountInv, NamesKept, \A p \in Named : p \in Accounted => p \in Accounted'
    PROVE  OwnIsNamed' /\ OwnIsSteady
<1>1. ASSUME NEW a \in Natives, own[a] \in Pids PROVE own[a] \in Accounted'
  <2>1. own[a] \in NamedBy(a) /\ own[a] \in Accounted
    BY <1>1, ProfileConstantsAreTyped DEF AccountInv, OwnIsNamed, NamedBy
  <2>2. own[a] \in Named
    BY <2>1 DEF Named, Accts
  <2> QED  BY <2>1, <2>2
<1> QED  BY <1>1 DEF AccountInv, OwnIsNamed, NamesKept, OwnIsSteady

\* And the documents, when none is made.
LEMMA DocumentsStayNumbered ==
    ASSUME AccountInv, Stored' = Stored, There' \subseteq There, humanId' = humanId,
           \A r \in AccountRequests : task'[r] = task[r] \/ task'[r].at # "insert"
    PROVE  DocumentsAreNumbered'
<1>1. Inserting' \subseteq Inserting
  BY DEF Inserting, On
<1>2. /\ IsFiniteSet(Inserting') /\ Cardinality(Inserting') <= Cardinality(Inserting)
      /\ Cardinality(Inserting') \in Nat /\ Cardinality(Inserting) \in Nat
  BY <1>1, FS_Subset, FS_CardinalityType DEF AccountInv, DocumentsAreNumbered
<1>3. PICK n \in Nat : Stored = 1 .. n /\ n + Cardinality(Inserting) <= humanId
  BY DEF AccountInv, DocumentsAreNumbered
<1>4. n + Cardinality(Inserting') <= humanId /\ humanId \in Int
  BY <1>2, <1>3 DEF AccountInv, AccountTypes
<1>5. There' \subseteq Stored'
  BY DEF AccountInv, DocumentsAreNumbered
<1> QED  BY <1>2, <1>3, <1>4, <1>5 DEF DocumentsAreNumbered

\* A step that gives and takes no names and no documents keeps the invariant.
LEMMA QuietKeepsAccountInv ==
    ASSUME AccountInv, AccountTypes', NamesKept, DocumentsKept, TasksGoOn, LookIsSound'
    PROVE  AccountInv'
<1>1. OwnIsNamed' /\ OwnIsSteady
  BY NamesStaySound DEF DocumentsKept
<1>2. TasksAreSound'
  BY <1>1, TasksStaySound DEF DocumentsKept, TasksGoOn
<1>3. DocumentsAreNumbered'
  BY DocumentsStayNumbered DEF DocumentsKept, TasksGoOn
<1> QED  BY <1>1, <1>2, <1>3 DEF AccountInv

\* What is not touched is kept.
LEMMA UntouchedIsKept ==
    /\ UNCHANGED <<account, own>> => NamesKept
    /\ UNCHANGED <<profile, raced, humanId>> => DocumentsKept
    /\ UNCHANGED refresh /\ LookIsSound => LookIsSound'
    /\ UNCHANGED task => TasksGoOn
<1>1. UNCHANGED <<profile, raced, humanId>> => DocumentsKept
  BY DEF DocumentsKept, Stored, There, Accounted
<1> QED  BY <1>1 DEF NamesKept, LookIsSound, TasksGoOn

\* Documents whose number and presence stay are kept.
LEMMA MarksKeepDocuments ==
    ASSUME UNCHANGED <<raced, humanId>>,
           \A p \in Pids : profile'[p].hid = profile[p].hid /\ profile'[p].there = profile[p].there
    PROVE  DocumentsKept
<1>1. Stored' = Stored
  BY DEF Stored
<1>2. There' = There
  BY DEF There
<1> QED  BY <1>1, <1>2 DEF DocumentsKept, Accounted

\* An account that a social id leads to is an account.
LEMMA SocialIdHasAccount ==
    ASSUME NEW id \in SocialIds
    PROVE  AccountOfSocial(id) \in Accts
<1>1. CASE \E n \in Natives : account[n].social = id
  <2>1. (CHOOSE n \in Natives : account[n].social = id) \in Natives
    BY <1>1
  <2> QED  BY <1>1, <2>1 DEF AccountOfSocial, Accts
<1>2. CASE ~ \E n \in Natives : account[n].social = id
  BY <1>2 DEF AccountOfSocial, Accts
<1> QED  BY <1>1, <1>2

\* A native account of one name has it as its pid.
LEMMA OneNameIsPid ==
    ASSUME AccountInv, NEW a \in Natives, Cardinality(NamedBy(a)) = 1
    PROVE  account[a].pid # NoPid /\ (own[a] \in Pids => own[a] = account[a].pid)
<1>1. NamedBy(a) \subseteq {account[a].pid, account[a].npid}
  BY DEF NamedBy
<1>2. IsFiniteSet(NamedBy(a))
  <2>1. IsFiniteSet({account[a].pid} \cup {account[a].npid})
    BY FS_Singleton, FS_AddElement
  <2> QED  BY <1>1, <2>1, FS_Subset
<1>3. PICK x : NamedBy(a) = {x}
  BY <1>2, FS_Singleton
<1> QED  BY <1>3 DEF NamedBy, AccountInv, OwnIsNamed

\* The invariant holds at the start.
LEMMA AccountInvInit == AccountInit => AccountInv
<1> SUFFICES ASSUME AccountInit PROVE AccountInv
  OBVIOUS
<1>1. AccountTypes
  <2>1. account \in [Accts -> AccountRecord]
    BY ProfileConstantsAreTyped DEF AccountInit, AccountRecord
  <2> QED
    BY <2>1, ProfileConstantsAreTyped DEF AccountInit, AccountTypes, Networks
<1>2. Stored = {} /\ There = {} /\ Inserting = {}
  BY ProfileConstantsAreTyped DEF AccountInit, Stored, There, Inserting, On
<1>3. DocumentsAreNumbered
  <2>1. IsFiniteSet({}) /\ Cardinality({}) = 0
    BY FS_EmptySet
  <2>2. {} = 1 .. 0 /\ humanId = 0
    BY DEF AccountInit
  <2> QED  BY <1>2, <2>1, <2>2 DEF DocumentsAreNumbered
<1>4. OwnIsNamed
  BY ProfileConstantsAreTyped DEF AccountInit, OwnIsNamed, Accts
<1>5. TasksAreSound
  <2>1. \A r \in AccountRequests : task[r] = Free
    BY DEF AccountInit
  <2> QED  BY <2>1, ProfileConstantsAreTyped DEF TasksAreSound, TaskIsSound, Relinks, On
<1>6. LookIsSound
  BY ProfileConstantsAreTyped DEF AccountInit, LookIsSound
<1> QED  BY <1>1, <1>3, <1>4, <1>5, <1>6 DEF AccountInv

\* GetAccount and the steps of the refresh keep it.
LEMMA GetAccountKeeps ==
    ASSUME AccountInv, NEW who \in Accts, GetAccount(who)
    PROVE  AccountInv'
<1> DEFINE a == IF who \in SocialIds THEN AccountOfSocial(who) ELSE who
<1>1. AccountTypes /\ LookIsSound
  BY DEF AccountInv
<1>2. a \in Accts
  BY SocialIdHasAccount
<1>3. /\ account' = [account EXCEPT ![a].exists = TRUE]
      /\ login' = [login EXCEPT ![a] = FlushedSession(a)]
      /\ UNCHANGED <<networkOf, ends, own, raced, profile, humanId, task, refresh>>
  BY DEF GetAccount, GhostsKept
<1> HIDE DEF a
<1>4. /\ account' \in [Accts -> AccountRecord]
      /\ \A b \in Accts : account'[b].pid = account[b].pid /\ account'[b].npid = account[b].npid
  BY ZenonT(60), <1>1, <1>2, <1>3 DEF AccountTypes, AccountRecord
<1>5. FlushedSession(a) \in LoginRecord
  BY <1>1, <1>2 DEF FlushedSession, AccountTypes, AccountRecord, LoginRecord
<1>6. login' \in [Accts -> LoginRecord]
  BY <1>1, <1>2, <1>3, <1>5 DEF AccountTypes
<1>7. AccountTypes'
  BY <1>1, <1>3, <1>4, <1>6 DEF AccountTypes
<1>8. NamesKept
  BY <1>3, <1>4 DEF NamesKept, Accts
<1> QED  BY <1>1, <1>3, <1>7, <1>8, UntouchedIsKept, QuietKeepsAccountInv

\* The refresh reads.
LEMMA RefreshReads ==
    ASSUME AccountInv, NextPage \/ GetLinkage \/ RefresherDies
    PROVE  AccountInv'
<1>1. AccountTypes
  BY DEF AccountInv
<1>2. UNCHANGED <<networkOf, ends, own, raced, account, profile, humanId, login, task>>
  BY DEF NextPage, GetLinkage, RefresherDies, GhostsKept
<1>3. refresh' \in RefreshRecord /\ LookIsSound'
  <2>1. CASE NextPage
    <3>1. PICK page \in SUBSET Pids : refresh' = [NoRefresh EXCEPT !.at = "linkage", !.page = page]
      BY ZenonT(60), <2>1 DEF NextPage, There
    <3>2. refresh' \in RefreshRecord /\ refresh'.at = "linkage"
      BY <3>1, ProfileConstantsAreTyped DEF RefreshRecord
    <3> QED  BY SMTT(60), <3>2 DEF LookIsSound
  <2>2. CASE GetLinkage
    <3> DEFINE found == {a \in Accts : NamedBy(a) \cap refresh.page # {}}
               owned == IF found = {} THEN refresh.page ELSE Named \cap refresh.page
               named == Named \cap refresh.page
    <3>1. /\ refresh \in RefreshRecord
          /\ refresh' = [refresh EXCEPT !.at = "update", !.named = named, !.owned = owned]
      BY <1>1, <2>2 DEF GetLinkage, AccountTypes
    <3>2. owned \in SUBSET Pids /\ named \in SUBSET Pids /\ named \subseteq owned
      BY <3>1 DEF RefreshRecord
    <3> HIDE DEF owned, named
    <3>3. refresh' \in RefreshRecord /\ refresh'.named = named /\ refresh'.owned = owned
      BY <3>1, <3>2 DEF RefreshRecord
    <3> QED  BY <3>2, <3>3 DEF LookIsSound
  <2>3. CASE RefresherDies
    BY <2>3, ProfileConstantsAreTyped DEF RefresherDies, LookIsSound
  <2> QED  BY <2>1, <2>2, <2>3
<1>4. AccountTypes'
  BY <1>1, <1>2, <1>3 DEF AccountTypes
<1> QED  BY <1>2, <1>3, <1>4, UntouchedIsKept, QuietKeepsAccountInv

\* The refresh removes: what somebody has by now, or is about to have, is marked.
LEMMA RefreshRemoves ==
    ASSUME AccountInv, RemoveWayBackUnlinked
    PROVE  AccountInv'
<1> DEFINE unlinked == refresh.page \ refresh.owned
<1>1. AccountTypes /\ LookIsSound
  BY DEF AccountInv
<1>2. PICK updated \in UpdateLinked :
        profile' = [p \in Pids |-> [updated[p] EXCEPT !.there = @ /\ p \notin unlinked]]
  BY DEF RemoveWayBackUnlinked
<1>3. /\ refresh.at = "update" /\ refresh' = NoRefresh
      /\ raced' = raced \cup ((unlinked \ refresh.named) \cap (Named \cup TakenUp))
      /\ UNCHANGED <<networkOf, ends, account, humanId, login, task, own>>
  BY DEF RemoveWayBackUnlinked, TakenUp
<1>4. unlinked \subseteq Pids /\ unlinked \cap refresh.named = {}
  BY <1>1, <1>3 DEF AccountTypes, RefreshRecord, LookIsSound
<1> HIDE DEF unlinked
<1>5. /\ updated \in [Pids -> ProfileRecord]
      /\ \A p \in Pids : updated[p].hid = profile[p].hid /\ updated[p].there = profile[p].there
  <2> DEFINE marked == {p \in refresh.owned \cap Named : profile[p].there}
  <2>1. CASE updated = profile
    BY <1>1, <2>1 DEF AccountTypes
  <2>2. CASE \E p \in marked : updated = [profile EXCEPT ![p].due = FALSE]
    <3>1. PICK q \in marked : updated = [profile EXCEPT ![q].due = FALSE]
      BY <2>2
    <3>2. q \in Pids
      BY <1>1, <3>1 DEF AccountTypes, RefreshRecord
    <3> HIDE DEF marked
    <3> QED  BY ZenonT(60), <1>1, <3>1, <3>2 DEF AccountTypes, ProfileRecord
  <2> QED  BY <1>2, <2>1, <2>2 DEF UpdateLinked
<1>6. /\ profile' \in [Pids -> ProfileRecord]
      /\ \A p \in Pids : profile'[p].hid = profile[p].hid
      /\ \A p \in Pids : profile'[p].there <=> profile[p].there /\ p \notin unlinked
  BY ZenonT(60), <1>2, <1>5 DEF ProfileRecord
<1>7. AccountTypes'
  BY <1>1, <1>3, <1>4, <1>6, ProfileConstantsAreTyped DEF AccountTypes
<1>8. Stored' = Stored
  BY <1>6 DEF Stored
<1>9. There' = There \ unlinked
  BY <1>6 DEF There
<1>10. \A p \in Named \cup TakenUp : p \in Accounted => p \in Accounted'
  BY <1>3, <1>4, <1>9 DEF Accounted
<1>11. DocumentsKept
  BY <1>3, <1>8, <1>9, <1>10 DEF DocumentsKept
<1>12. LookIsSound'
  BY <1>3, ProfileConstantsAreTyped DEF LookIsSound
<1> QED  BY <1>3, <1>7, <1>11, <1>12, UntouchedIsKept, QuietKeepsAccountInv

\* The requests that begin.
LEMMA RequestBegins ==
    ASSUME AccountInv, NEW r \in AccountRequests, NEW a \in Accts,
           \/ CreateProfile(r, a) \/ UnlinkSocialProfile(r, a)
           \/ \E id \in SocialIds : GetAndCheckAccount(r, a, id)
    PROVE  AccountInv'
<1>1. AccountTypes /\ LookIsSound /\ OwnIsNamed
  BY SMTT(60) DEF AccountInv
<1>2. UNCHANGED <<networkOf, ends, own, raced, account, profile, humanId, login, refresh>>
  BY DEF CreateProfile, UnlinkSocialProfile, GetAndCheckAccount, GhostsKept
<1>3. PICK t \in TaskRecord :
        /\ task' = [task EXCEPT ![r] = t]
        /\ t.at \in {"name", "leave", "look"} /\ t.a = a
        /\ t.at = "look" => t.id # NoSocial
        /\ t.id # NoSocial \/ t.at = "leave" =>
              (a \in Natives => /\ account[a].pid # NoPid /\ t.old # NoPid
                                /\ (own[a] \in Pids => own[a] = t.old))
  <2>0. account[a].pid \in 0 .. MaxProfiles /\ account[a].npid \in 0 .. MaxProfiles
    BY <1>1 DEF AccountTypes, AccountRecord
  <2>1. CASE CreateProfile(r, a)
    <3> DEFINE t == [Free EXCEPT !.at = "name", !.a = a]
    <3>1. task' = [task EXCEPT ![r] = t]
      BY <2>1 DEF CreateProfile
    <3>2. t \in TaskRecord /\ t.at = "name" /\ t.a = a /\ t.id = NoSocial
      BY ZenonT(60), ProfileConstantsAreTyped DEF TaskRecord, TaskStages
    <3> HIDE DEF t
    <3> QED  BY <3>1, <3>2
  <2>2. CASE UnlinkSocialProfile(r, a)
    <3> DEFINE t == [Free EXCEPT !.at = "leave", !.a = a, !.old = account[a].npid]
    <3>1. /\ task' = [task EXCEPT ![r] = t]
          /\ account[a].pid # NoPid /\ account[a].npid # NoPid
      BY <2>2 DEF UnlinkSocialProfile
    <3>2. t \in TaskRecord /\ t.at = "leave" /\ t.a = a /\ t.old = account[a].npid
      BY ZenonT(60), <2>0, ProfileConstantsAreTyped DEF TaskRecord, TaskStages
    <3>3. a \in Natives /\ own[a] \in Pids => own[a] = account[a].npid
      BY <1>1, <3>1 DEF OwnIsNamed
    <3> HIDE DEF t
    <3> QED  BY <3>1, <3>2, <3>3
  <2>3. ASSUME NEW id \in SocialIds, GetAndCheckAccount(r, a, id)
        PROVE  \E t \in TaskRecord :
                 /\ task' = [task EXCEPT ![r] = t]
                 /\ t.at \in {"name", "leave", "look"} /\ t.a = a
                 /\ t.at = "look" => t.id # NoSocial
                 /\ t.id # NoSocial \/ t.at = "leave" =>
                      (a \in Natives => /\ account[a].pid # NoPid /\ t.old # NoPid
                                        /\ (own[a] \in Pids => own[a] = t.old))
    <3>1. PICK bi \in BOOLEAN :
            task' = [task EXCEPT ![r] = [Free EXCEPT !.at = "look", !.a = a, !.id = id,
                                                     !.bi = bi, !.old = account[a].pid]]
      BY <2>3 DEF GetAndCheckAccount
    <3> DEFINE t == [Free EXCEPT !.at = "look", !.a = a, !.id = id, !.bi = bi,
                                 !.old = account[a].pid]
    <3>2. t \in TaskRecord /\ t.at = "look" /\ t.a = a /\ t.id = id /\ t.old = account[a].pid
      BY ZenonT(60), <2>0, ProfileConstantsAreTyped DEF TaskRecord, TaskStages
    <3>3. a \in Natives => /\ account[a].pid # NoPid
                           /\ own[a] \in Pids => own[a] = account[a].pid
      BY <2>3, OneNameIsPid DEF GetAndCheckAccount
    <3>4. id # NoSocial
      BY AccountsAssumption
    <3> HIDE DEF t
    <3> QED  BY <3>1, <3>2, <3>3, <3>4 DEF t
  <2> QED  BY <2>1, <2>2, <2>3
<1>4. /\ task' \in [AccountRequests -> TaskRecord] /\ task'[r] = t
      /\ \A q \in AccountRequests : q # r => task'[q] = task[q]
  BY <1>1, <1>3, TaskIsSet
<1>5. AccountTypes'
  BY <1>1, <1>2, <1>4 DEF AccountTypes
<1>6. TaskIsSound(r)' /\ task'[r].at # "insert"
  BY <1>2, <1>3, <1>4 DEF TaskIsSound, Relinks, On
<1>7. TasksGoOn
  BY <1>4, <1>6 DEF TasksGoOn
<1> QED  BY <1>1, <1>2, <1>5, <1>7, UntouchedIsKept, QuietKeepsAccountInv

\* The steps of a request that only ask, log out, or end.
LEMMA RequestPasses ==
    ASSUME AccountInv, NEW r \in AccountRequests,
           \/ FlushNewProfile(r) \/ DestroySessionBeforeLink(r)
           \/ DestroySessionBeforeUnlink(r) \/ RequestEnds(r)
    PROVE  AccountInv'
<1>1. /\ AccountTypes /\ LookIsSound /\ TaskIsSound(r) /\ task[r] \in TaskRecord
      /\ OwnIsNamed
  BY DEF AccountInv, TasksAreSound, AccountTypes
<1>2. UNCHANGED <<networkOf, own, raced, account, profile, humanId, refresh>>
  BY DEF FlushNewProfile, DestroySessionBeforeLink, DestroySessionBeforeUnlink, RequestEnds, GhostsKept
<1>3. ends' \in Nat /\ humanId + ends' <= MaxProfiles
  <2>1. humanId \in Nat /\ ends \in Nat /\ humanId + ends <= MaxProfiles /\ MaxProfiles \in Nat
    BY <1>1, AccountsAssumption DEF AccountTypes
  <2>2. UNCHANGED ends \/ (ends' = ends + 1 /\ humanId + ends < MaxProfiles)
    BY DEF FlushNewProfile, DestroySessionBeforeLink, DestroySessionBeforeUnlink, RequestEnds, GhostsKept
  <2> QED  BY <2>1, <2>2
<1>4. login' \in [Accts -> LoginRecord]
  <2>1. task[r].p \in 0 .. MaxProfiles /\ login \in [Accts -> LoginRecord]
    BY <1>1 DEF TaskRecord, AccountTypes
  <2>2. CASE FlushNewProfile(r)
    BY ZenonT(60), <2>1, <2>2 DEF FlushNewProfile, LoginRecord
  <2>3. CASE DestroySessionBeforeLink(r)
    <3>1. PICK gone : login' = [b \in Accts |-> IF b \in gone THEN LoggedOut ELSE login[b]]
      BY <2>3 DEF DestroySessionBeforeLink
    <3> QED  BY <2>1, <3>1, ProfileConstantsAreTyped
  <2>4. CASE DestroySessionBeforeUnlink(r)
    BY <2>1, <2>4, ProfileConstantsAreTyped DEF DestroySessionBeforeUnlink
  <2>5. CASE RequestEnds(r)
    BY <2>1, <2>5 DEF RequestEnds
  <2> QED  BY <2>2, <2>3, <2>4, <2>5
<1>5. /\ task' \in [AccountRequests -> TaskRecord]
      /\ \A q \in AccountRequests : q # r => task'[q] = task[q]
      /\ TaskIsSound(r)' /\ task'[r].at # "insert"
  <2>1. CASE FlushNewProfile(r) \/ RequestEnds(r)
    <3>1. Finish(r)
      BY <2>1 DEF FlushNewProfile, RequestEnds
    <3>2. task'[r].at = "rest"
      BY <1>1, <3>1, TaskIsOver
    <3> QED  BY <1>1, <3>1, <3>2, TaskIsOver
  <2>2. CASE DestroySessionBeforeLink(r)
    <3> DEFINE stage == IF task[r].bi THEN "bilogin" ELSE IF task[r].p = NoPid THEN "name" ELSE "link"
               t == [task[r] EXCEPT !.bi = FALSE, !.at = stage]
    <3>1. /\ On(r, "destroy")
          /\ task' = [task EXCEPT ![r] = t]
      BY <1>1, <2>2 DEF DestroySessionBeforeLink, AccountTypes
    <3>2. /\ stage \in {"bilogin", "name", "link"}
          /\ stage = "link" => task[r].p # NoPid
      OBVIOUS
    <3> HIDE DEF stage
    <3>3. /\ t \in TaskRecord /\ t.at = stage /\ t.a = task[r].a /\ t.id = task[r].id
          /\ t.old = task[r].old /\ t.p = task[r].p
      BY ZenonT(60), <1>1, <3>2 DEF TaskRecord, TaskStages
    <3> HIDE DEF t
    <3>4. /\ task' \in [AccountRequests -> TaskRecord] /\ task'[r] = t
          /\ \A q \in AccountRequests : q # r => task'[q] = task[q]
      BY <1>1, <3>1, <3>3, TaskIsSet
    <3>5. TaskIsSound(r)'
      BY <1>1, <1>2, <3>1, <3>2, <3>3, <3>4 DEF TaskIsSound, Relinks, On
    <3> QED  BY <3>2, <3>3, <3>4, <3>5
  <2>3. CASE DestroySessionBeforeUnlink(r)
    <3>1. On(r, "leave") /\ Step(r, "unlink")
      BY <2>3 DEF DestroySessionBeforeUnlink
    <3>2. /\ task' \in [AccountRequests -> TaskRecord]
          /\ task'[r].at = "unlink" /\ task'[r].a = task[r].a /\ task'[r].id = task[r].id
          /\ task'[r].old = task[r].old /\ task'[r].p = task[r].p
          /\ \A q \in AccountRequests : q # r => task'[q] = task[q]
      BY <1>1, <3>1, TaskGoesOn DEF TaskStages
    <3>3. TaskIsSound(r)'
      BY <1>1, <1>2, <3>1, <3>2 DEF TaskIsSound, Relinks, On
    <3> QED  BY <3>2, <3>3
  <2> QED  BY <2>1, <2>2, <2>3
<1>6. AccountTypes'
  BY <1>1, <1>2, <1>3, <1>4, <1>5 DEF AccountTypes
<1>7. TasksGoOn
  BY <1>5 DEF TasksGoOn
<1> QED  BY <1>1, <1>2, <1>6, <1>7, UntouchedIsKept, QuietKeepsAccountInv

\* The steps that set marks and social ids.
LEMMA RequestMarks ==
    ASSUME AccountInv, NEW r \in AccountRequests,
           \/ RemoveTtlIndex(r) \/ GetAndCheckProfile(r)
           \/ MakeAccountToBiLogin(r) \/ JustLinkCurrentProfile(r)
    PROVE  AccountInv'
<1>1. /\ AccountTypes /\ LookIsSound /\ TaskIsSound(r) /\ task[r] \in TaskRecord
      /\ account \in [Accts -> AccountRecord] /\ profile \in [Pids -> ProfileRecord]
      /\ ~On(r, "rest") => task[r].a \in Accts
  BY SMTT(60) DEF AccountInv, TasksAreSound, TaskIsSound, AccountTypes
<1>2. UNCHANGED <<networkOf, ends, own, raced, humanId, login, refresh>>
  BY DEF RemoveTtlIndex, GetAndCheckProfile, MakeAccountToBiLogin, JustLinkCurrentProfile, GhostsKept
<1>3. /\ account' \in [Accts -> AccountRecord]
      /\ \A a \in Accts : account'[a].pid = account[a].pid /\ account'[a].npid = account[a].npid
  <2>1. CASE MakeAccountToBiLogin(r)
    <3>1. task[r].id \in SocialIds \cup {NoSocial} /\ task[r].a \in Accts
      BY <1>1, <2>1 DEF TaskRecord, MakeAccountToBiLogin, On
    <3>2. account' = [account EXCEPT ![task[r].a].social = task[r].id]
      BY <2>1 DEF MakeAccountToBiLogin
    <3> QED  BY <1>1, <3>1, <3>2 DEF AccountRecord
  <2>2. CASE UNCHANGED account
    BY <1>1, <2>2
  <2> QED  BY <2>1, <2>2 DEF RemoveTtlIndex, GetAndCheckProfile, JustLinkCurrentProfile
<1>4. /\ profile' \in [Pids -> ProfileRecord]
      /\ \A p \in Pids : profile'[p].hid = profile[p].hid /\ profile'[p].there = profile[p].there
  <2>1. CASE RemoveTtlIndex(r)
    <3>1. profile' = [profile EXCEPT ![task[r].p].due = FALSE]
      BY <2>1 DEF RemoveTtlIndex
    <3>2. ASSUME NEW p \in Pids
          PROVE  LET q == [profile[p] EXCEPT !.due = FALSE]
                 IN  q \in ProfileRecord /\ q.hid = profile[p].hid /\ q.there = profile[p].there
      BY ZenonT(60), <1>1 DEF ProfileRecord
    <3>3. ASSUME NEW p \in Pids
          PROVE  profile'[p] = profile[p] \/ profile'[p] = [profile[p] EXCEPT !.due = FALSE]
      BY <1>1, <3>1
    <3>4. profile' \in [Pids -> ProfileRecord]
      <4>1. profile' = [p \in Pids |-> profile'[p]]
        BY <1>1, <3>1
      <4> QED  BY <1>1, <3>2, <3>3, <4>1
    <3> QED  BY <1>1, <3>2, <3>3, <3>4
  <2>2. CASE GetAndCheckProfile(r)
    <3> DEFINE found == {p \in There : profile[p].social = task[r].id}
    <3>1. \/ UNCHANGED profile
          \/ profile' = [p \in Pids |-> IF p \in found THEN [profile[p] EXCEPT !.due = TRUE]
                                                       ELSE profile[p]]
      BY <2>2 DEF GetAndCheckProfile
    <3> HIDE DEF found
    <3>2. ASSUME NEW p \in Pids
          PROVE  LET q == [profile[p] EXCEPT !.due = TRUE]
                 IN  q \in ProfileRecord /\ q.hid = profile[p].hid /\ q.there = profile[p].there
      BY <1>1 DEF ProfileRecord
    <3>3. profile' = [p \in Pids |-> profile'[p]]
      BY <1>1, <3>1
    <3>4. ASSUME NEW p \in Pids
          PROVE  profile'[p] = profile[p] \/ profile'[p] = [profile[p] EXCEPT !.due = TRUE]
      BY <1>1, <3>1
    <3>5. ASSUME NEW p \in Pids
          PROVE  /\ profile'[p] \in ProfileRecord
                 /\ profile'[p].hid = profile[p].hid /\ profile'[p].there = profile[p].there
      BY <1>1, <3>2, <3>4
    <3> QED  BY <3>3, <3>5
  <2>3. CASE JustLinkCurrentProfile(r)
    <3>1. \/ UNCHANGED profile
          \/ profile' = [profile EXCEPT ![task[r].old].social = task[r].id]
      BY <2>3 DEF JustLinkCurrentProfile
    <3>2. task[r].id \in SocialIds \cup {NoSocial}
      BY <1>1 DEF TaskRecord
    <3> QED  BY <1>1, <3>1, <3>2 DEF ProfileRecord
  <2>4. CASE UNCHANGED profile
    BY <1>1, <2>4
  <2> QED  BY <2>1, <2>2, <2>3, <2>4 DEF MakeAccountToBiLogin
<1>5. /\ task' \in [AccountRequests -> TaskRecord]
      /\ \A q \in AccountRequests : q # r => task'[q] = task[q]
      /\ TaskIsSound(r)' /\ task'[r].at # "insert"
  <2>1. ASSUME NEW stage \in {"flush", "destroy", "justlink"}, Step(r, stage),
               stage = "flush" => On(r, "unset"),
               stage = "destroy" => On(r, "look"),
               stage = "justlink" => On(r, "bilogin")
        PROVE  /\ task' \in [AccountRequests -> TaskRecord]
               /\ \A q \in AccountRequests : q # r => task'[q] = task[q]
               /\ TaskIsSound(r)' /\ task'[r].at # "insert"
    <3>1. /\ task' \in [AccountRequests -> TaskRecord]
          /\ task'[r].at = stage /\ task'[r].a = task[r].a /\ task'[r].id = task[r].id
          /\ task'[r].old = task[r].old /\ task'[r].p = task[r].p
          /\ \A q \in AccountRequests : q # r => task'[q] = task[q]
      BY <1>1, <2>1, TaskGoesOn DEF TaskStages
    <3>2. Relinks(r)' => Relinks(r)
      BY <2>1, <3>1 DEF Relinks
    <3>3. Relinks(r)' => account'[task[r].a].pid = account[task[r].a].pid
      BY <1>3, <3>1 DEF Relinks, Accts
    <3> QED  BY <1>1, <1>2, <2>1, <3>1, <3>2, <3>3 DEF TaskIsSound, On
  <2>2. CASE RemoveTtlIndex(r)
    <3>1. On(r, "unset") /\ (Step(r, "flush") \/ Finish(r))
      BY <2>2 DEF RemoveTtlIndex
    <3>2. Finish(r) => task'[r].at = "rest"
      BY ONLY <1>1, TaskIsOver
    <3> QED  BY <1>1, <2>1, <3>1, <3>2, TaskIsOver
  <2>3. CASE GetAndCheckProfile(r)
    <3> DEFINE found == {p \in There : profile[p].social = task[r].id}
               chosen == CHOOSE p \in found \cup {NoPid} : found # {} => p \in found
               t == [task[r] EXCEPT !.at = "destroy", !.p = chosen]
    <3>1. /\ On(r, "look")
          /\ Step(r, "destroy") \/ task' = [task EXCEPT ![r].at = "destroy", ![r].p = chosen]
      BY <2>3 DEF GetAndCheckProfile
    <3>2. CASE Step(r, "destroy")
      BY <2>1, <3>1, <3>2
    <3>3. CASE task' = [task EXCEPT ![r].at = "destroy", ![r].p = chosen]
      <4>1. \E p \in found \cup {NoPid} : found # {} => p \in found
        OBVIOUS
      <4>2. chosen \in found \cup {NoPid}
        BY <4>1
      <4>3. found \subseteq Pids
        BY DEF There
      <4>4. chosen \in 0 .. MaxProfiles
        BY <4>2, <4>3, ProfileConstantsAreTyped
      <4>5. task' = [task EXCEPT ![r] = t]
        BY <1>1, <3>3 DEF AccountTypes
      <4> HIDE DEF chosen
      <4>6. /\ t \in TaskRecord /\ t.at = "destroy" /\ t.a = task[r].a /\ t.id = task[r].id
            /\ t.old = task[r].old
        BY <1>1, <4>4 DEF TaskRecord, TaskStages
      <4> HIDE DEF t
      <4>7. /\ task' \in [AccountRequests -> TaskRecord] /\ task'[r] = t
            /\ \A q \in AccountRequests : q # r => task'[q] = task[q]
        BY <1>1, <4>5, <4>6, TaskIsSet
      <4>8. Relinks(r)' => Relinks(r) /\ account'[task[r].a].pid = account[task[r].a].pid
        BY <1>3, <4>6, <4>7 DEF Relinks, Accts
      <4>9. TaskIsSound(r)'
        BY <1>1, <1>2, <3>1, <4>6, <4>7, <4>8 DEF TaskIsSound, On
      <4> QED  BY <4>6, <4>7, <4>9
    <3> QED  BY <3>1, <3>2, <3>3
  <2>4. CASE MakeAccountToBiLogin(r)
    BY <2>1, <2>4 DEF MakeAccountToBiLogin
  <2>5. CASE JustLinkCurrentProfile(r)
    <3>1. Finish(r)
      BY <2>5 DEF JustLinkCurrentProfile
    <3>2. task'[r].at = "rest"
      BY <1>1, <3>1, TaskIsOver
    <3> QED  BY <1>1, <3>1, <3>2, TaskIsOver
  <2> QED  BY <2>2, <2>3, <2>4, <2>5
<1>6. AccountTypes'
  BY <1>1, <1>2, <1>3, <1>4, <1>5 DEF AccountTypes
<1>7. NamesKept
  BY <1>2, <1>3 DEF NamesKept, Accts
<1>8. DocumentsKept
  BY <1>2, <1>4, MarksKeepDocuments
<1>9. TasksGoOn
  BY <1>5 DEF TasksGoOn
<1>10. LookIsSound'
  BY <1>1, <1>2 DEF LookIsSound
<1> QED  BY <1>6, <1>7, <1>8, <1>9, <1>10, QuietKeepsAccountInv

\* A number that is generated is taken by one insertion.
LEMMA GenerateKeeps ==
    ASSUME AccountInv, NEW r \in AccountRequests, GenerateHumanId(r)
    PROVE  AccountInv'
<1> DEFINE t == [task[r] EXCEPT !.at = "insert", !.hid = humanId + 1]
<1>1. /\ AccountTypes /\ LookIsSound /\ TaskIsSound(r) /\ task[r] \in TaskRecord
      /\ DocumentsAreNumbered
  BY DEF AccountInv, TasksAreSound, AccountTypes
<1>2. /\ On(r, "name") /\ humanId + ends < MaxProfiles /\ humanId' = humanId + 1
      /\ task' = [task EXCEPT ![r] = t]
      /\ UNCHANGED <<networkOf, ends, own, raced, account, profile, login, refresh>>
  BY <1>1 DEF GenerateHumanId, GhostsKept, AccountTypes
<1>3. /\ humanId \in Nat /\ ends \in Nat /\ MaxProfiles \in Nat
      /\ humanId' \in Nat /\ humanId + 1 \in 1 .. MaxProfiles /\ humanId' + ends <= MaxProfiles
  BY <1>1, <1>2, AccountsAssumption DEF AccountTypes
<1>4. /\ t \in TaskRecord /\ t.at = "insert" /\ t.a = task[r].a /\ t.id = task[r].id
      /\ t.old = task[r].old /\ t.hid # 0
  <2>1. humanId + 1 \in 0 .. MaxProfiles /\ humanId + 1 # 0
    BY <1>3
  <2> QED  BY ONLY <1>1, <2>1 DEF TaskRecord, TaskStages
<1> HIDE DEF t
<1>5. /\ task' \in [AccountRequests -> TaskRecord] /\ task'[r] = t
      /\ \A q \in AccountRequests : q # r => task'[q] = task[q]
  BY <1>1, <1>2, <1>4, TaskIsSet
<1>6. AccountTypes'
  BY <1>1, <1>2, <1>3, <1>5 DEF AccountTypes
<1>7. NamesKept
  BY <1>2 DEF NamesKept
<1>8. Accounted' = Accounted /\ Stored' = Stored /\ There' = There
  BY <1>2 DEF Accounted, There, Stored
<1>9. OwnIsNamed' /\ OwnIsSteady
  BY <1>7, <1>8, NamesStaySound
<1>10. TaskIsSound(r)'
  BY <1>1, <1>2, <1>4, <1>5 DEF TaskIsSound, Relinks, On
<1>11. TasksAreSound'
  BY <1>5, <1>8, <1>9, <1>10, TasksStaySound
<1>12. DocumentsAreNumbered'
  <2>1. Inserting' = Inserting \cup {r} /\ r \notin Inserting
    BY <1>2, <1>4, <1>5 DEF Inserting, On
  <2>2. /\ IsFiniteSet(Inserting') /\ Cardinality(Inserting) \in Nat
        /\ Cardinality(Inserting') = Cardinality(Inserting) + 1
    BY <1>1, <2>1, FS_AddElement, FS_CardinalityType DEF DocumentsAreNumbered
  <2>3. PICK n \in Nat : Stored = 1 .. n /\ n + Cardinality(Inserting) <= humanId
    BY <1>1 DEF DocumentsAreNumbered
  <2>4. n + Cardinality(Inserting') <= humanId'
    BY <1>2, <1>3, <2>2, <2>3
  <2> QED  BY <1>1, <1>8, <2>2, <2>3, <2>4 DEF DocumentsAreNumbered
<1>13. LookIsSound'
  BY <1>1, <1>2 DEF LookIsSound
<1> QED  BY <1>6, <1>9, <1>11, <1>12, <1>13 DEF AccountInv

\* A document that is inserted is the next one.
LEMMA CreateKeeps ==
    ASSUME AccountInv, NEW r \in AccountRequests, CreateNewProfileProcedure(r)
    PROVE  AccountInv'
<1> DEFINE p == Cardinality(Stored) + 1
           social == IF task[r].id # NoSocial THEN task[r].id
                     ELSE IF task[r].a \in SocialIds THEN task[r].a ELSE NoSocial
           document == [hid |-> task[r].hid, social |-> social, due |-> TRUE, there |-> TRUE]
           stage == IF task[r].id = NoSocial THEN "account" ELSE "link"
           t == [task[r] EXCEPT !.at = stage, !.p = p, !.new = TRUE, !.hid = 0]
<1>1. /\ AccountTypes /\ LookIsSound /\ TaskIsSound(r) /\ task[r] \in TaskRecord
      /\ DocumentsAreNumbered /\ profile \in [Pids -> ProfileRecord]
  BY DEF AccountInv, TasksAreSound, AccountTypes
<1>2. /\ On(r, "insert") /\ profile' = [profile EXCEPT ![p] = document]
      /\ task' = [task EXCEPT ![r] = t]
      /\ UNCHANGED <<networkOf, ends, own, raced, account, humanId, login, refresh>>
  BY <1>1 DEF CreateNewProfileProcedure, GhostsKept, AccountTypes
<1>3. PICK n \in Nat : Stored = 1 .. n /\ n + Cardinality(Inserting) <= humanId
  BY <1>1 DEF DocumentsAreNumbered
<1>4. /\ IsFiniteSet(Inserting \ {r}) /\ Cardinality(Inserting \ {r}) \in Nat
      /\ Cardinality(Inserting) = Cardinality(Inserting \ {r}) + 1
  <2>1. r \in Inserting /\ IsFiniteSet(Inserting)
    BY <1>1, <1>2 DEF Inserting, DocumentsAreNumbered
  <2>2. /\ IsFiniteSet(Inserting \ {r}) /\ Cardinality(Inserting) \in Nat
        /\ Cardinality(Inserting \ {r}) = Cardinality(Inserting) - 1
    BY <2>1, FS_RemoveElement, FS_CardinalityType
  <2>3. Cardinality(Inserting \ {r}) \in Nat
    BY <2>2, FS_CardinalityType
  <2> QED  BY <2>2, <2>3
<1>5. /\ p = n + 1 /\ p \in Pids /\ p \notin Stored /\ p # NoPid
      /\ Stored \cup {p} = 1 .. n + 1 /\ n + 1 + Cardinality(Inserting \ {r}) <= humanId
  <2>1. humanId \in Nat /\ humanId <= MaxProfiles /\ MaxProfiles \in Nat
    BY <1>1, AccountsAssumption DEF AccountTypes
  <2>2. Cardinality(1 .. n) = n
    BY FS_Interval
  <2>3. p = n + 1
    BY <1>3, <2>2
  <2> HIDE DEF p
  <2>4. n + 1 + Cardinality(Inserting \ {r}) <= humanId
    BY <1>3, <1>4, <2>1
  <2>5. p \in Pids /\ p # NoPid
    BY <1>4, <2>1, <2>3, <2>4 DEF Pids, NoPid
  <2>6. p \notin Stored /\ Stored \cup {p} = 1 .. n + 1
    BY <1>3, <2>3
  <2> QED  BY <2>3, <2>4, <2>5, <2>6
<1>6. document \in ProfileRecord /\ document.hid # 0 /\ document.there = TRUE
  <2>1. task[r].hid \in 0 .. MaxProfiles /\ social \in SocialIds \cup {NoSocial} /\ task[r].hid # 0
    BY <1>1, <1>2 DEF TaskRecord, TaskIsSound
  <2> HIDE DEF social
  <2> QED  BY <2>1 DEF ProfileRecord
<1>7. /\ stage \in {"account", "link"}
      /\ (stage = "link" => task[r].id # NoSocial)
  OBVIOUS
<1> HIDE DEF p, social, stage
<1>8. /\ t \in TaskRecord /\ t.at = stage /\ t.a = task[r].a /\ t.id = task[r].id
      /\ t.old = task[r].old /\ t.p = p
  BY ZenonT(60), <1>1, <1>5, <1>7, ProfileConstantsAreTyped DEF TaskRecord, TaskStages
<1> HIDE DEF document, t
<1>9. /\ task' \in [AccountRequests -> TaskRecord] /\ task'[r] = t
      /\ \A q \in AccountRequests : q # r => task'[q] = task[q]
  BY <1>1, <1>2, <1>8, TaskIsSet
<1>10. /\ profile' \in [Pids -> ProfileRecord] /\ profile'[p] = document
       /\ \A q \in Pids : q # p => profile'[q] = profile[q]
  BY <1>1, <1>2, <1>5, <1>6
<1>11. AccountTypes'
  BY <1>1, <1>2, <1>9, <1>10 DEF AccountTypes
<1>12. Stored' = Stored \cup {p} /\ There' = There \cup {p}
  BY <1>5, <1>6, <1>10 DEF Stored, There
<1>13. Accounted' = Accounted \cup {p}
  BY <1>2, <1>12 DEF Accounted
<1>14. NamesKept
  BY <1>2 DEF NamesKept
<1>15. OwnIsNamed' /\ OwnIsSteady
  BY <1>13, <1>14, NamesStaySound
<1>16. TaskIsSound(r)'
  BY <1>1, <1>2, <1>5, <1>7, <1>8, <1>9, <1>13 DEF TaskIsSound, Relinks, On
<1>17. TasksAreSound'
  BY <1>9, <1>13, <1>15, <1>16, TasksStaySound
<1>18. DocumentsAreNumbered'
  <2>1. Inserting' = Inserting \ {r}
    BY <1>7, <1>8, <1>9 DEF Inserting, On
  <2>2. n + 1 \in Nat /\ humanId' = humanId
    BY <1>2
  <2> QED  BY <1>1, <1>4, <1>5, <1>12, <2>1, <2>2 DEF DocumentsAreNumbered
<1>19. LookIsSound'
  BY <1>1, <1>2 DEF LookIsSound
<1> QED  BY <1>11, <1>15, <1>17, <1>18, <1>19 DEF AccountInv

\* An account gets a pid, a second one, or its own back.
LEMMA NamingKeeps ==
    ASSUME AccountInv, NEW r \in AccountRequests,
           UpdateAccountPid(r) \/ DoLink(r) \/ DoUnlink(r)
    PROVE  AccountInv'
<1> DEFINE c == task[r].a
<1>1. /\ AccountTypes /\ LookIsSound /\ TaskIsSound(r) /\ task[r] \in TaskRecord
      /\ OwnIsNamed /\ account \in [Accts -> AccountRecord]
      /\ task[r].p \in 0 .. MaxProfiles /\ task[r].old \in 0 .. MaxProfiles
  BY DEF AccountInv, TasksAreSound, AccountTypes, TaskRecord
<1>2. UNCHANGED <<networkOf, ends, raced, profile, humanId, login, refresh>> /\ ~On(r, "rest")
  BY DEF UpdateAccountPid, DoLink, DoUnlink, GhostsKept, On
<1>3. c \in Accts
  BY <1>1, <1>2 DEF TaskIsSound
<1>4. PICK pid \in 0 .. MaxProfiles, npid \in 0 .. MaxProfiles :
        /\ account' \in [Accts -> AccountRecord]
        /\ account'[c].pid = pid /\ account'[c].npid = npid
        /\ \A b \in Accts : b # c => account'[b] = account[b]
        /\ \/ UpdateAccountPid(r) /\ pid = task[r].p /\ npid = account[c].npid
           \/ DoLink(r) /\ pid = task[r].p /\ npid = task[r].old
           \/ DoUnlink(r) /\ pid = task[r].old /\ npid = NoPid
  <2>1. CASE UpdateAccountPid(r)
    <3>1. account' = [account EXCEPT ![c].pid = task[r].p]
      BY <2>1 DEF UpdateAccountPid
    <3>2. account[c].npid \in 0 .. MaxProfiles
      BY <1>1, <1>3 DEF AccountRecord
    <3>3. /\ account' \in [Accts -> AccountRecord]
          /\ account'[c].pid = task[r].p /\ account'[c].npid = account[c].npid
          /\ \A b \in Accts : b # c => account'[b] = account[b]
      BY <1>1, <1>3, <3>1 DEF AccountRecord
    <3> QED  BY <1>1, <2>1, <3>2, <3>3
  <2>2. CASE DoLink(r)
    <3> DEFINE new == [account[c] EXCEPT !.npid = task[r].old, !.pid = task[r].p]
    <3>1. account' = [account EXCEPT ![c] = new]
      BY <1>1, <1>3, <2>2 DEF DoLink
    <3>2. new \in AccountRecord /\ new.pid = task[r].p /\ new.npid = task[r].old
      BY ZenonT(60), <1>1, <1>3 DEF AccountRecord
    <3> HIDE DEF new
    <3> QED  BY <1>1, <1>3, <2>2, <3>1, <3>2
  <2>3. CASE DoUnlink(r)
    <3> DEFINE new == [account[c] EXCEPT !.pid = task[r].old, !.npid = NoPid]
    <3>1. account' = [account EXCEPT ![c] = new]
      BY <1>1, <1>3, <2>3 DEF DoUnlink
    <3>2. new \in AccountRecord /\ new.pid = task[r].old /\ new.npid = NoPid
      BY ZenonT(60), <1>1, <1>3, ProfileConstantsAreTyped DEF AccountRecord
    <3> HIDE DEF new
    <3> QED  BY <1>1, <1>3, <2>3, <3>1, <3>2, ProfileConstantsAreTyped
  <2> QED  BY <2>1, <2>2, <2>3
<1>5. /\ own' \in [Natives -> 0 .. MaxProfiles \cup {Overwritten}]
      /\ \A a \in Natives : a # c => own'[a] = own[a]
      /\ UpdateAccountPid(r) /\ c \in Natives =>
            own'[c] = IF account[c].pid = NoPid THEN task[r].p ELSE Overwritten
      /\ ~UpdateAccountPid(r) => own' = own
  <2>1. CASE UpdateAccountPid(r)
    <3>1. own' = [a \in Natives |-> IF a # c THEN own[a]
                                    ELSE IF account[a].pid = NoPid THEN task[r].p ELSE Overwritten]
      BY <2>1 DEF UpdateAccountPid
    <3> HIDE DEF c
    <3> QED  BY <1>1, <2>1, <3>1 DEF AccountTypes
  <2>2. CASE ~UpdateAccountPid(r)
    BY <1>1, <2>2 DEF DoLink, DoUnlink, GhostsKept, AccountTypes
  <2> QED  BY <2>1, <2>2
<1>6. Accounted' = Accounted /\ Stored' = Stored /\ There' = There
  BY <1>2 DEF Accounted, There, Stored
<1>7. c \in Natives =>
        /\ pid # NoPid
        /\ own'[c] \in Pids =>
              /\ own'[c] = IF npid = NoPid THEN pid ELSE npid
              /\ own'[c] \in Accounted'
        /\ account[c].pid # NoPid /\ own'[c] \in Pids => own'[c] = own[c]
  <2>1. CASE UpdateAccountPid(r)
    <3>1. On(r, "account") /\ task[r].p # NoPid /\ task[r].p \in Accounted
      BY <1>1, <2>1 DEF UpdateAccountPid, TaskIsSound, On
    <3>2. pid = task[r].p /\ npid = account[c].npid
      BY <1>4, <2>1 DEF UpdateAccountPid, DoLink, DoUnlink, On
    <3> QED
      BY <1>1, <1>5, <1>6, <2>1, <3>1, <3>2, ProfileConstantsAreTyped DEF OwnIsNamed
  <2>2. CASE DoLink(r)
    <3>1. On(r, "link") /\ task[r].p # NoPid /\ task[r].id # NoSocial
      BY <1>1, <2>2 DEF DoLink, TaskIsSound, On
    <3>2. pid = task[r].p /\ npid = task[r].old /\ own' = own
      BY <1>4, <1>5, <2>2 DEF UpdateAccountPid, DoLink, DoUnlink, On
    <3>3. c \in Natives => task[r].old # NoPid /\ (own[c] \in Pids => own[c] = task[r].old)
      BY <1>1, <3>1 DEF TaskIsSound, Relinks
    <3> QED  BY <1>1, <1>6, <3>1, <3>2, <3>3 DEF OwnIsNamed
  <2>3. CASE DoUnlink(r)
    <3>1. On(r, "unlink")
      BY <2>3 DEF DoUnlink
    <3>2. pid = task[r].old /\ npid = NoPid /\ own' = own
      BY <1>4, <1>5, <2>3 DEF UpdateAccountPid, DoLink, DoUnlink, On
    <3>3. c \in Natives => task[r].old # NoPid /\ (own[c] \in Pids => own[c] = task[r].old)
      BY SMTT(60), <1>1, <3>1 DEF TaskIsSound, Relinks, On
    <3> QED  BY <1>1, <1>6, <3>2, <3>3 DEF OwnIsNamed
  <2> QED  BY <2>1, <2>2, <2>3
<1>8. /\ task' \in [AccountRequests -> TaskRecord]
      /\ \A q \in AccountRequests : q # r => task'[q] = task[q]
      /\ \/ task'[r].at = "rest" /\ TaskIsSound(r)'
         \/ /\ task'[r].at = "unset" /\ task'[r].a = c /\ task'[r].id = task[r].id
            /\ task'[r].old = task[r].old /\ task'[r].p = task[r].p /\ task[r].p # NoPid
  <2>1. CASE Finish(r)
    <3>1. task'[r].at = "rest"
      BY <1>1, <2>1, TaskIsOver
    <3> QED  BY <1>1, <2>1, <3>1, TaskIsOver
  <2>2. CASE Step(r, "unset") /\ (On(r, "link") \/ On(r, "account"))
    <3>1. task[r].p # NoPid
      BY <1>1, <2>2 DEF TaskIsSound, On
    <3> QED  BY <1>1, <2>2, <3>1, TaskGoesOn DEF TaskStages
  <2> QED  BY <2>1, <2>2 DEF UpdateAccountPid, DoLink, DoUnlink
<1>9. AccountTypes'
  BY <1>1, <1>2, <1>4, <1>5, <1>8 DEF AccountTypes
<1> HIDE DEF c
<1>10. OwnIsSteady
  BY <1>4, <1>5, <1>7 DEF OwnIsSteady, Accts
<1>11. OwnIsNamed'
  <2>1. ASSUME NEW a \in Natives, a # c
        PROVE  account'[a] = account[a] /\ own'[a] = own[a]
    BY <1>4, <1>5, <2>1 DEF Accts
  <2> QED  BY <1>1, <1>4, <1>6, <1>7, <2>1 DEF OwnIsNamed
<1>12. TaskIsSound(r)'
  <2>1. CASE task'[r].at = "rest" /\ TaskIsSound(r)'
    BY <2>1
  <2>2. CASE /\ task'[r].at = "unset" /\ task'[r].a = c /\ task'[r].id = task[r].id
             /\ task'[r].old = task[r].old /\ task'[r].p = task[r].p /\ task[r].p # NoPid
    <3>1. Relinks(r)' => Relinks(r)
      BY <2>2 DEF Relinks, c
    <3> QED  BY <1>1, <1>3, <1>10, <2>2, <3>1 DEF TaskIsSound, On, Relinks, OwnIsSteady, c
  <2> QED  BY <1>8, <2>1, <2>2
<1>13. TasksAreSound'
  BY <1>6, <1>8, <1>10, <1>12, TasksStaySound
<1>14. DocumentsAreNumbered'
  BY <1>2, <1>6, <1>8, DocumentsStayNumbered
<1>15. LookIsSound'
  BY <1>1, <1>2 DEF LookIsSound
<1> QED  BY <1>9, <1>11, <1>13, <1>14, <1>15 DEF AccountInv

\* Every step keeps the invariant.
LEMMA AccountInvStep == AccountInv /\ [AccountNext]_accountVars => AccountInv'
<1> SUFFICES ASSUME AccountInv, [AccountNext]_accountVars PROVE AccountInv'
  OBVIOUS
<1>1. AccountTypes /\ LookIsSound
  BY DEF AccountInv
<1>2. ASSUME NEW r \in UNION {RequestsOf[networkOf[id]] : id \in SocialIds},
             \/ \E a \in Accts :
                   \/ CreateProfile(r, a) \/ UnlinkSocialProfile(r, a)
                   \/ \E id \in SocialIds :
                         LinkVkProfile(r, a, id) \/ LinkOkProfile(r, a, id) \/ LinkFbProfile(r, a, id)
             \/ GenerateHumanId(r) \/ CreateNewProfileProcedure(r) \/ UpdateAccountPid(r)
             \/ RemoveTtlIndex(r) \/ FlushNewProfile(r)
             \/ LinkVkSteps(r) \/ LinkOkSteps(r) \/ LinkFbSteps(r)
             \/ DestroySessionBeforeUnlink(r) \/ DoUnlink(r) \/ RequestEnds(r)
      PROVE  AccountInv'
  <2>1. r \in AccountRequests
    BY <1>1, RequestsAreRequests
  <2>2. ASSUME NEW a \in Accts,
               \/ CreateProfile(r, a) \/ UnlinkSocialProfile(r, a)
               \/ \E id \in SocialIds :
                     LinkVkProfile(r, a, id) \/ LinkOkProfile(r, a, id) \/ LinkFbProfile(r, a, id)
        PROVE  AccountInv'
    <3>1. \/ CreateProfile(r, a) \/ UnlinkSocialProfile(r, a)
          \/ \E id \in SocialIds : GetAndCheckAccount(r, a, id)
      BY <2>2 DEF LinkVkProfile, LinkOkProfile, LinkFbProfile
    <3> QED  BY <2>1, <3>1, RequestBegins
  <2>3. CASE LinkVkSteps(r) \/ LinkOkSteps(r) \/ LinkFbSteps(r)
    <3>1. \/ GetAndCheckProfile(r) \/ DestroySessionBeforeLink(r)
          \/ DoLink(r) \/ MakeAccountToBiLogin(r) \/ JustLinkCurrentProfile(r)
      BY <2>3 DEF LinkVkSteps, LinkOkSteps, LinkFbSteps, LinkSteps
    <3> QED  BY <2>1, <3>1, RequestPasses, RequestMarks, NamingKeeps
  <2> QED
    BY <1>2, <2>1, <2>2, <2>3, GenerateKeeps, CreateKeeps, NamingKeeps, RequestMarks, RequestPasses
<1>3. ASSUME NEW who \in Accts, GetAccount(who) PROVE AccountInv'
  BY <1>3, GetAccountKeeps
<1>4. CASE NextPage \/ GetLinkage \/ RefresherDies
  BY <1>4, RefreshReads
<1>5. CASE RemoveWayBackUnlinked
  BY <1>5, RefreshRemoves
<1>6. CASE UNCHANGED accountVars
  <2>1. UNCHANGED <<networkOf, account, profile, humanId, login, task, ends, refresh, own, raced>>
    BY <1>6 DEF accountVars
  <2>2. AccountTypes'
    BY <1>1, <2>1 DEF AccountTypes
  <2> QED  BY <1>1, <2>1, <2>2, UntouchedIsKept, QuietKeepsAccountInv
<1> QED  BY <1>2, <1>3, <1>4, <1>5, <1>6 DEF AccountNext

\* The invariant holds in every state.
LEMMA AccountInvariant == AccountSpec => []AccountInv
BY AccountInvInit, AccountInvStep, PTL DEF AccountSpec

\* The variables of accounts and profiles keep their types.
THEOREM AccountTyping == AccountSpec => []AccountTypeOK
<1>1. AccountInv => AccountTypeOK
  <2> SUFFICES ASSUME AccountTypes PROVE AccountTypeOK
    BY DEF AccountInv
  <2>1. humanId \in 0 .. MaxProfiles
    BY AccountsAssumption DEF AccountTypes
  <2>2. refresh.page \subseteq Pids /\ refresh.owned \subseteq Pids /\ refresh.named \subseteq Pids
    BY DEF AccountTypes, RefreshRecord
  <2> QED  BY <2>1, <2>2 DEF AccountTypes, AccountTypeOK, AccountRecord, ProfileRecord, LoginRecord,
                             Networks
<1> QED  BY <1>1, AccountInvariant, PTL

\* The profile that a native account was given stays with it and is not removed,
\* however links, unlinks and the refresh cross and wherever they end.
THEOREM OwnProfileIsKept == AccountSpec => []ProfileIsKept
<1>1. AccountInv => ProfileIsKept
  <2> SUFFICES ASSUME AccountInv, NEW a \in Natives, own[a] \in Pids
               PROVE  own[a] \in NamedBy(a) /\ own[a] \in There \cup raced
    BY DEF ProfileIsKept
  <2> QED  BY ProfileConstantsAreTyped DEF AccountInv, OwnIsNamed, NamedBy, Accounted
<1> QED  BY <1>1, AccountInvariant, PTL

-----------------------------------------------------------------------------
(***************************************************************************)
(* Sessions.  The inductive invariant: a unicorn that was not given yet has    *)
(* no session and nothing was accepted of it; a session that an account       *)
(* knows, or is about to know, is the one that the account's index points to;  *)
(* and of every request that waits for its number to be compared nothing was   *)
(* accepted yet, while the session has counted up to it.                       *)
(***************************************************************************)
RequestStages == {"rest", "account", "order", "flushAid", "flush", "mark", "destroy"}
SessRecord == [plat : Platforms \cup {"none", "absent"}, rsq : 0 .. MaxOrder,
               aid : BOOLEAN, kill : BOOLEAN]
Request == [at : RequestStages, unicorn : Unicorns \cup {NoUnicorn}, order : 0 .. MaxOrder]

\* The unicorns that were given.
Given == 1 .. Len(logins)

SessionTypes ==
    /\ SessionTypeOK
    /\ logins \in Seq(Idents)
    /\ handler \in [Handlers -> Request]
    /\ accepted \in [Unicorns -> [0 .. MaxOrder -> Nat]]
RequestsAreOfLogins ==
    \A h \in Handlers : handler[h].at # "rest" => handler[h].unicorn \in Given
NotGivenIsUnknown ==
    /\ \A u \in Unicorns \ Given : ~Known(u) /\ \A o \in 0 .. MaxOrder : accepted[u][o] = 0
    /\ ended \subseteq Given
IndexIsCurrent ==
    /\ \A u \in Unicorns : Usable(u) /\ sess[u].aid => aidIndex[Aid(u)] = u
    /\ \A h \in Handlers : handler[h].at = "flushAid" /\ Usable(handler[h].unicorn) =>
          aidIndex[Aid(handler[h].unicorn)] = handler[h].unicorn
Waiting(h) == handler[h].at = "order"
OrdersAreCounted ==
    /\ \A h \in Handlers : Waiting(h) =>
          /\ handler[h].order >= 1
          /\ accepted[handler[h].unicorn][handler[h].order] = 0
          /\ Usable(handler[h].unicorn) => handler[h].order <= sess[handler[h].unicorn].rsq
    /\ \A g, h \in Handlers :
          Waiting(g) /\ Waiting(h) /\ handler[g].unicorn = handler[h].unicorn
             /\ handler[g].order = handler[h].order => g = h
    /\ \A u \in Unicorns : Usable(u) =>
          \A o \in 0 .. MaxOrder : o > sess[u].rsq => accepted[u][o] = 0
SessionInv ==
    /\ SessionTypes /\ RequestsAreOfLogins /\ NotGivenIsUnknown /\ EndedStaysEnded
    /\ IndexIsCurrent /\ OrdersAreCounted /\ NoOrderTwice

\* The records without a session and without a request are of their kinds.
LEMMA SessionConstantsAreTyped ==
    /\ NoSess \in SessRecord /\ NoSess.plat = "absent"
    /\ Rest \in Request /\ Rest.at = "rest"
    /\ "absent" \notin Platforms /\ "none" \notin Platforms
BY SessionsAssumption DEF NoSess, Rest, SessRecord, Request, Platforms, RequestStages, Unicorns, NoUnicorn

\* Sessions that are removed are gone and the others are as they were.
LEMMA RemovedAreGone ==
    ASSUME sess \in [Unicorns -> SessRecord], NEW us
    PROVE  /\ Without(us) \in [Unicorns -> SessRecord]
           /\ \A u \in Unicorns : u \in us => Without(us)[u] = NoSess
           /\ \A u \in Unicorns : u \notin us => Without(us)[u] = sess[u]
BY SessionConstantsAreTyped DEF Without

\* What a request does changes nothing of the other requests.
LEMMA RequestGoesOn ==
    ASSUME handler \in [Handlers -> Request], NEW h \in Handlers, NEW stage \in RequestStages,
           Work(h, stage)
    PROVE  /\ handler' \in [Handlers -> Request] /\ handler'[h].at = stage
           /\ handler'[h].unicorn = handler[h].unicorn /\ handler'[h].order = handler[h].order
           /\ \A g \in Handlers : g # h => handler'[g] = handler[g]
BY DEF Work, Request

\* A handler whose request is answered rests, and the others go on.
LEMMA RequestIsOver ==
    ASSUME handler \in [Handlers -> Request], NEW h \in Handlers, Answer(h)
    PROVE  /\ handler' \in [Handlers -> Request] /\ handler'[h].at = "rest"
           /\ \A g \in Handlers : g # h => handler'[g] = handler[g]
BY SessionConstantsAreTyped DEF Answer

\* What an accepted request does to the count of its number.
Counted(u, o) == accepted' = [accepted EXCEPT ![u][o] = @ + 1]

\* A number that is accepted is counted once, and no other is.
LEMMA NumberIsCounted ==
    ASSUME accepted \in [Unicorns -> [0 .. MaxOrder -> Nat]],
           NEW u \in Unicorns, NEW o \in 0 .. MaxOrder,
           Counted(u, o)
    PROVE  /\ accepted' \in [Unicorns -> [0 .. MaxOrder -> Nat]]
           /\ accepted'[u][o] = accepted[u][o] + 1
           /\ \A v \in Unicorns, x \in 0 .. MaxOrder :
                 v # u \/ x # o => accepted'[v][x] = accepted[v][x]
<1> DEFINE row == [accepted[u] EXCEPT ![o] = accepted[u][o] + 1]
           Orders == 0 .. MaxOrder
<1>1. accepted[u] \in [Orders -> Nat] /\ o \in Orders
  OBVIOUS
<1>4. accepted \in [Unicorns -> [Orders -> Nat]]
  OBVIOUS
<1>3. accepted' = [accepted EXCEPT ![u] = row]
  BY DEF Counted
<1> HIDE DEF Orders
<1>2. /\ row \in [Orders -> Nat] /\ row[o] = accepted[u][o] + 1
      /\ \A x \in Orders : x # o => row[x] = accepted[u][x]
  BY <1>1
<1> HIDE DEF row
<1>5. /\ accepted' \in [Unicorns -> [Orders -> Nat]] /\ accepted'[u] = row
      /\ \A v \in Unicorns : v # u => accepted'[v] = accepted[v]
  BY <1>2, <1>3, <1>4
<1> QED  BY <1>2, <1>5 DEF Orders

\* A session that is let in has a key.
LEMMA UsableIsKnown ==
    ASSUME NEW u \in Unicorns, Usable(u)
    PROVE  Known(u)
BY SessionConstantsAreTyped DEF Usable, Known

\* An identifier leads to an account.
LEMMA LoginHasAccount ==
    ASSUME SessionTypes, NEW u \in Given
    PROVE  u \in Unicorns /\ logins[u] \in Idents /\ Aid(u) \in Aids
<1>1. logins \in Seq(Idents) /\ Len(logins) <= MaxUnicorns /\ Len(logins) \in Nat
  BY DEF SessionTypes, SessionTypeOK
<1>2. u \in Unicorns
  BY <1>1, SessionsAssumption DEF Unicorns, Given
<1>3. logins[u] \in Idents
  BY <1>1 DEF Given
<1> QED  BY <1>2, <1>3 DEF Aid, Aids

\* The invariant holds at the start.
LEMMA SessionInvInit == SessionInit => SessionInv
<1> SUFFICES ASSUME SessionInit PROVE SessionInv
  OBVIOUS
<1> USE SessionConstantsAreTyped, SessionsAssumption DEF SessionInit
<1>1. SessionTypes
  BY DEF SessionTypes, SessionTypeOK, SessRecord, NoUnicorn
<1>2. RequestsAreOfLogins /\ NotGivenIsUnknown
  BY DEF RequestsAreOfLogins, NotGivenIsUnknown, Known
<1>3. EndedStaysEnded /\ IndexIsCurrent /\ OrdersAreCounted /\ NoOrderTwice
  BY DEF EndedStaysEnded, IndexIsCurrent, OrdersAreCounted, NoOrderTwice, Waiting, Usable
<1> QED  BY <1>1, <1>2, <1>3 DEF SessionInv

\* What the steps need of the invariant's types.
LEMMA SessionFacts ==
    ASSUME SessionInv
    PROVE  /\ SessionTypes
           /\ sess \in [Unicorns -> SessRecord] /\ handler \in [Handlers -> Request]
           /\ isess \in [Idents -> Unicorns \cup {NoUnicorn}]
           /\ aidIndex \in [Aids -> Unicorns \cup {NoUnicorn}]
           /\ accepted \in [Unicorns -> [0 .. MaxOrder -> Nat]]
           /\ \A u \in Given : u \in Unicorns /\ Aid(u) \in Aids
           /\ \A u \in Unicorns : Usable(u) => u \in Given
           /\ \A u \in Unicorns : Known(u) => u \in Given
           /\ MaxOrder \in Nat
           /\ \A u \in Unicorns : sess[u].rsq \in Int
           /\ \A h \in Handlers : handler[h].order \in 0 .. MaxOrder /\ handler[h].order \in Int
<1>1. /\ SessionTypes
      /\ sess \in [Unicorns -> SessRecord] /\ handler \in [Handlers -> Request]
      /\ isess \in [Idents -> Unicorns \cup {NoUnicorn}]
      /\ aidIndex \in [Aids -> Unicorns \cup {NoUnicorn}]
      /\ accepted \in [Unicorns -> [0 .. MaxOrder -> Nat]]
  BY DEF SessionInv, SessionTypes, SessionTypeOK, SessRecord
<1>2. /\ \A u \in Given : u \in Unicorns /\ Aid(u) \in Aids
      /\ \A u \in Unicorns : Usable(u) => u \in Given
      /\ \A u \in Unicorns : Known(u) => u \in Given
  BY <1>1, LoginHasAccount, UsableIsKnown DEF SessionInv, NotGivenIsUnknown
<1>3. /\ MaxOrder \in Nat
      /\ \A u \in Unicorns : sess[u].rsq \in Int
      /\ \A h \in Handlers : handler[h].order \in 0 .. MaxOrder /\ handler[h].order \in Int
  BY <1>1, SessionsAssumption DEF SessRecord, Request
<1> QED  BY <1>1, <1>2, <1>3

\* A step that removes sessions that were given keeps the invariant.
LEMMA RemovalKeepsInv ==
    ASSUME SessionInv, NEW v \in Given, UNCHANGED <<logins, isess, accepted>>,
           sess' = Without({v}), End({v}),
           aidIndex' \in [Aids -> Unicorns \cup {NoUnicorn}],
           \A a \in Aids : aidIndex[a] # v => aidIndex'[a] = aidIndex[a],
           handler' \in [Handlers -> Request],
           \A g \in Handlers : handler'[g] = handler[g] \/ handler'[g].at = "rest"
    PROVE  SessionInv'
<1>t. /\ SessionTypes
      /\ sess \in [Unicorns -> SessRecord] /\ handler \in [Handlers -> Request]
      /\ isess \in [Idents -> Unicorns \cup {NoUnicorn}]
      /\ aidIndex \in [Aids -> Unicorns \cup {NoUnicorn}]
      /\ accepted \in [Unicorns -> [0 .. MaxOrder -> Nat]]
  BY SessionFacts
<1>r. RequestsAreOfLogins
  BY DEF SessionInv
<1>g. NotGivenIsUnknown
  BY DEF SessionInv
<1>e. EndedStaysEnded
  BY DEF SessionInv
<1>i. IndexIsCurrent
  BY DEF SessionInv
<1>o. OrdersAreCounted
  BY DEF SessionInv
<1>a. NoOrderTwice
  BY DEF SessionInv
<1>u. /\ \A u \in Given : u \in Unicorns /\ Aid(u) \in Aids
      /\ \A u \in Unicorns : Usable(u) => u \in Given
  BY SessionFacts
<1>n. /\ MaxOrder \in Nat
      /\ \A u \in Unicorns : sess[u].rsq \in Int
      /\ \A h \in Handlers : handler[h].order \in 0 .. MaxOrder /\ handler[h].order \in Int
  BY SessionFacts
<1>1. /\ UNCHANGED <<logins, isess>> /\ Given' = Given /\ \A u \in Given : Aid(u)' = Aid(u)
      /\ handler' \in [Handlers -> Request]
      /\ \A g \in Handlers : handler'[g] = handler[g] \/ handler'[g].at = "rest"
  BY DEF Given, Aid
<1>2. /\ sess' \in [Unicorns -> SessRecord]
      /\ \A u \in Unicorns : u # v => /\ sess'[u] = sess[u]
                                      /\ Known(u)' = Known(u) /\ Usable(u)' = Usable(u)
      /\ ~Known(v)' /\ ~Usable(v)' /\ v \in Given
      /\ ended' \subseteq ended \cup {v}
  <2>1. /\ sess' \in [Unicorns -> SessRecord] /\ sess'[v] = NoSess
        /\ \A u \in Unicorns : u # v => sess'[u] = sess[u]
    BY <1>t, <1>u, RemovedAreGone
  <2>2. ended' \subseteq ended \cup {v}
    BY DEF End
  <2> QED  BY <1>u, <2>1, <2>2, SessionConstantsAreTyped DEF Known, Usable
<1>3. UNCHANGED accepted
  OBVIOUS
<1>4. /\ aidIndex' \in [Aids -> Unicorns \cup {NoUnicorn}]
      /\ \A a \in Aids : aidIndex[a] # v => aidIndex'[a] = aidIndex[a]
  OBVIOUS
<1>5. SessionTypes'
  BY ONLY <1>t, <1>u, <1>1, <1>2, <1>3, <1>4 DEF SessionTypes, SessionTypeOK, SessRecord
<1>6. RequestsAreOfLogins'
  BY <1>r, <1>1 DEF RequestsAreOfLogins
<1>7. NotGivenIsUnknown'
  <2>1. ASSUME NEW u \in Unicorns \ Given' PROVE ~Known(u)' /\ u \in Unicorns \ Given
    BY <1>g, <1>r, <1>1, <1>2 DEF NotGivenIsUnknown, RequestsAreOfLogins
  <2>2. ASSUME NEW u \in Unicorns \ Given', NEW o \in 0 .. MaxOrder PROVE accepted'[u][o] = 0
    BY <1>g, <1>r, <1>1, <1>3, <2>1 DEF NotGivenIsUnknown, RequestsAreOfLogins
  <2>3. ended' \subseteq Given'
    BY <1>g, <1>1, <1>2 DEF NotGivenIsUnknown
  <2> QED  BY <2>1, <2>2, <2>3 DEF NotGivenIsUnknown
<1>8. EndedStaysEnded'
  BY <1>g, <1>e, <1>u, <1>1, <1>2 DEF EndedStaysEnded, NotGivenIsUnknown
<1>9. IndexIsCurrent'
  <2>1. ASSUME NEW u \in Unicorns, Usable(u)' PROVE u # v /\ Usable(u) /\ sess'[u] = sess[u]
    BY <1>2, <2>1
  <2>2. ASSUME NEW u \in Given, u # v, aidIndex[Aid(u)] = u PROVE aidIndex'[Aid(u)'] = u
    BY <1>u, <1>1, <1>4, <2>2
  <2>3. \A u \in Unicorns : Usable(u)' /\ sess'[u].aid => aidIndex'[Aid(u)'] = u
    BY <1>i, <1>u, <2>1, <2>2 DEF IndexIsCurrent
  <2>4. ASSUME NEW g \in Handlers, handler'[g].at = "flushAid", Usable(handler[g].unicorn)'
        PROVE  aidIndex'[Aid(handler[g].unicorn)'] = handler'[g].unicorn
    BY <1>i, <1>r, <1>u, <1>1, <2>1, <2>2, <2>4 DEF IndexIsCurrent, RequestsAreOfLogins
  <2> QED  BY <2>3, <2>4 DEF IndexIsCurrent
<1>10. OrdersAreCounted'
  <2>1. ASSUME NEW g \in Handlers, Waiting(g)'
        PROVE  /\ handler'[g].order >= 1
               /\ Usable(handler[g].unicorn)' => handler'[g].order <= sess'[handler'[g].unicorn].rsq
    <3>1. handler'[g] = handler[g] /\ Waiting(g)
      BY <1>1, <2>1 DEF Waiting
    <3>2. PICK w \in Unicorns : w = handler[g].unicorn
      BY <1>r, <1>u, <3>1 DEF RequestsAreOfLogins, Waiting
    <3>3. handler[g].order >= 1 /\ (Usable(w) => handler[g].order <= sess[w].rsq)
      BY <1>o, <3>1, <3>2 DEF OrdersAreCounted
    <3>4. Usable(w)' => Usable(w) /\ sess'[w] = sess[w]
      BY <1>2
    <3>5. handler'[g].order >= 1 /\ (Usable(w)' => handler'[g].order <= sess'[w].rsq)
      BY ONLY <3>1, <3>3, <3>4
    <3>6. handler'[g].unicorn = w
      BY <3>1, <3>2
    <3> QED  BY ZenonT(60), <3>5, <3>6
  <2>a. ASSUME NEW g \in Handlers, Waiting(g)'
        PROVE  accepted'[handler'[g].unicorn][handler'[g].order] = 0
    BY <1>r, <1>g, <1>o, <1>u, <1>n, <1>1, <1>2, <1>3, <2>a
       DEF OrdersAreCounted, Waiting, RequestsAreOfLogins, NotGivenIsUnknown
  <2>2. ASSUME NEW f \in Handlers, NEW g \in Handlers, Waiting(f)', Waiting(g)',
               handler'[f].unicorn = handler'[g].unicorn, handler'[f].order = handler'[g].order
        PROVE  f = g
    BY <1>r, <1>o, <1>u, <1>n, <1>1, <1>2, <2>2 DEF OrdersAreCounted, Waiting, RequestsAreOfLogins
  <2>3. ASSUME NEW u \in Unicorns, Usable(u)', NEW o \in 0 .. MaxOrder, o > sess'[u].rsq
        PROVE  accepted'[u][o] = 0
    <3>1. Usable(u) /\ sess'[u] = sess[u]
      BY <1>2, <2>3
    <3> QED  BY <1>o, <1>3, <2>3, <3>1 DEF OrdersAreCounted
  <2> QED  BY <2>1, <2>a, <2>2, <2>3 DEF OrdersAreCounted
<1>11. NoOrderTwice'
  BY <1>a, <1>3 DEF NoOrderTwice
<1> QED  BY <1>5, <1>6, <1>7, <1>8, <1>9, <1>10, <1>11 DEF SessionInv

\* A step that only sets marks of sessions and ends or continues requests keeps it.
LEMMA MarkingKeepsInv ==
    ASSUME SessionInv, UNCHANGED <<logins, isess, aidIndex, ended, accepted>>,
           sess' \in [Unicorns -> SessRecord],
           \A u \in Unicorns : /\ Usable(u)' = Usable(u)
                               /\ sess'[u].rsq = sess[u].rsq /\ sess'[u].aid = sess[u].aid,
           \A u \in Unicorns \ Given : Known(u)' = Known(u),
           handler' \in [Handlers -> Request],
           \A g \in Handlers :
               \/ handler'[g] = handler[g] \/ handler'[g].at = "rest"
               \/ /\ handler'[g].at \in {"flush", "destroy"} /\ handler[g].at # "rest"
                  /\ handler'[g].unicorn = handler[g].unicorn
    PROVE  SessionInv'
<1>t. /\ SessionTypes
      /\ sess \in [Unicorns -> SessRecord] /\ handler \in [Handlers -> Request]
      /\ isess \in [Idents -> Unicorns \cup {NoUnicorn}]
      /\ aidIndex \in [Aids -> Unicorns \cup {NoUnicorn}]
      /\ accepted \in [Unicorns -> [0 .. MaxOrder -> Nat]]
  BY SessionFacts
<1>r. RequestsAreOfLogins
  BY DEF SessionInv
<1>g. NotGivenIsUnknown
  BY DEF SessionInv
<1>e. EndedStaysEnded
  BY DEF SessionInv
<1>i. IndexIsCurrent
  BY DEF SessionInv
<1>o. OrdersAreCounted
  BY DEF SessionInv
<1>a. NoOrderTwice
  BY DEF SessionInv
<1>u. /\ \A u \in Given : u \in Unicorns /\ Aid(u) \in Aids
      /\ \A u \in Unicorns : Usable(u) => u \in Given
  BY SessionFacts
<1>n. /\ MaxOrder \in Nat
      /\ \A u \in Unicorns : sess[u].rsq \in Int
      /\ \A h \in Handlers : handler[h].order \in 0 .. MaxOrder /\ handler[h].order \in Int
  BY SessionFacts
<1>1. /\ UNCHANGED <<logins, isess>> /\ Given' = Given /\ \A u \in Given : Aid(u)' = Aid(u)
      /\ handler' \in [Handlers -> Request]
      /\ \A g \in Handlers :
            \/ handler'[g] = handler[g] \/ handler'[g].at = "rest"
            \/ /\ handler'[g].at \in {"flush", "destroy"} /\ handler[g].at # "rest"
               /\ handler'[g].unicorn = handler[g].unicorn
  BY DEF Given, Aid
<1>2. /\ sess' \in [Unicorns -> SessRecord] /\ UNCHANGED ended
      /\ \A u \in Unicorns : /\ Usable(u)' = Usable(u)
                             /\ sess'[u].rsq = sess[u].rsq /\ sess'[u].aid = sess[u].aid
      /\ \A u \in Unicorns \ Given : Known(u)' = Known(u)
  OBVIOUS
<1>3. UNCHANGED accepted
  OBVIOUS
<1>4. UNCHANGED aidIndex
  OBVIOUS
<1>5. SessionTypes'
  BY <1>t, <1>u, <1>1, <1>2, <1>3, <1>4 DEF SessionTypes, SessionTypeOK, SessRecord
<1>6. RequestsAreOfLogins'
  BY <1>r, <1>1 DEF RequestsAreOfLogins
<1>7. NotGivenIsUnknown'
  <2>1. ASSUME NEW u \in Unicorns \ Given' PROVE ~Known(u)' /\ u \in Unicorns \ Given
    BY <1>g, <1>r, <1>1, <1>2 DEF NotGivenIsUnknown, RequestsAreOfLogins
  <2>2. ASSUME NEW u \in Unicorns \ Given', NEW o \in 0 .. MaxOrder PROVE accepted'[u][o] = 0
    BY <1>g, <1>r, <1>1, <1>3, <2>1 DEF NotGivenIsUnknown, RequestsAreOfLogins
  <2>3. ended' \subseteq Given'
    BY <1>g, <1>1, <1>2 DEF NotGivenIsUnknown
  <2> QED  BY <2>1, <2>2, <2>3 DEF NotGivenIsUnknown
<1>8. EndedStaysEnded'
  BY <1>g, <1>e, <1>u, <1>1, <1>2 DEF EndedStaysEnded, NotGivenIsUnknown
<1>9. IndexIsCurrent'
  BY <1>i, <1>r, <1>g, <1>u, <1>1, <1>2, <1>4 DEF IndexIsCurrent, RequestsAreOfLogins, NotGivenIsUnknown
<1>10. OrdersAreCounted'
  <2>1. ASSUME NEW g \in Handlers, Waiting(g)'
        PROVE  /\ handler'[g].order >= 1
               /\ Usable(handler[g].unicorn)' => handler'[g].order <= sess'[handler'[g].unicorn].rsq
    BY <1>r, <1>o, <1>u, <1>n, <1>1, <1>2, <2>1 DEF OrdersAreCounted, Waiting, RequestsAreOfLogins
  <2>a. ASSUME NEW g \in Handlers, Waiting(g)'
        PROVE  accepted'[handler'[g].unicorn][handler'[g].order] = 0
    BY <1>r, <1>g, <1>o, <1>u, <1>n, <1>1, <1>2, <1>3, <2>a
       DEF OrdersAreCounted, Waiting, RequestsAreOfLogins, NotGivenIsUnknown
  <2>2. ASSUME NEW f \in Handlers, NEW g \in Handlers, Waiting(f)', Waiting(g)',
               handler'[f].unicorn = handler'[g].unicorn, handler'[f].order = handler'[g].order
        PROVE  f = g
    BY <1>r, <1>o, <1>u, <1>n, <1>1, <1>2, <2>2 DEF OrdersAreCounted, Waiting, RequestsAreOfLogins
  <2>3. ASSUME NEW u \in Unicorns, Usable(u)', NEW o \in 0 .. MaxOrder, o > sess'[u].rsq
        PROVE  accepted'[u][o] = 0
    BY <1>r, <1>g, <1>o, <1>u, <1>n, <1>1, <1>2, <1>3, <2>3
       DEF OrdersAreCounted, Waiting, RequestsAreOfLogins, NotGivenIsUnknown
  <2> QED  BY <2>1, <2>a, <2>2, <2>3 DEF OrdersAreCounted
<1>11. NoOrderTwice'
  BY <1>a, <1>3 DEF NoOrderTwice
<1> QED  BY <1>5, <1>6, <1>7, <1>8, <1>9, <1>10, <1>11 DEF SessionInv

\* Every step keeps it.
LEMMA SessionInvStep == SessionInv /\ [SessionNext]_sessionVars => SessionInv'
<1> SUFFICES ASSUME SessionInv, [SessionNext]_sessionVars PROVE SessionInv'
  OBVIOUS
<1>t. /\ SessionTypes
      /\ sess \in [Unicorns -> SessRecord] /\ handler \in [Handlers -> Request]
      /\ isess \in [Idents -> Unicorns \cup {NoUnicorn}]
      /\ aidIndex \in [Aids -> Unicorns \cup {NoUnicorn}]
      /\ accepted \in [Unicorns -> [0 .. MaxOrder -> Nat]]
  BY SessionFacts
<1>r. RequestsAreOfLogins
  BY DEF SessionInv
<1>g. NotGivenIsUnknown
  BY DEF SessionInv
<1>e. EndedStaysEnded
  BY DEF SessionInv
<1>i. IndexIsCurrent
  BY DEF SessionInv
<1>o. OrdersAreCounted
  BY DEF SessionInv
<1>a. NoOrderTwice
  BY DEF SessionInv
<1>u. /\ \A u \in Given : u \in Unicorns /\ Aid(u) \in Aids
      /\ \A u \in Unicorns : Usable(u) => u \in Given
  BY SessionFacts
<1>n. /\ MaxOrder \in Nat
      /\ \A u \in Unicorns : sess[u].rsq \in Int
      /\ \A h \in Handlers : handler[h].order \in 0 .. MaxOrder /\ handler[h].order \in Int
  BY SessionFacts
<1>1. ASSUME NEW h \in Handlers, NEW i \in Idents, NEW plat \in Platforms,
             AddUnicornSession(h, i, plat)
      PROVE  SessionInv'
  <2> DEFINE n == Len(logins) + 1
             us == {isess[i]} \cap Unicorns
             new == [plat |-> plat, rsq |-> 0, aid |-> FALSE, kill |-> FALSE]
             request == [at |-> "account", unicorn |-> n, order |-> 0]
  <2>a. /\ logins' = Append(logins, i) /\ isess' = [isess EXCEPT ![i] = n]
        /\ handler' = [handler EXCEPT ![h] = request] /\ aidIndex' = aidIndex
        /\ sess' = [Without(us) EXCEPT ![n] = new] /\ ended' = ended \cup {u \in us : Known(u)}
        /\ accepted' = [accepted EXCEPT ![n][0] = @ + 1] /\ Len(logins) < MaxUnicorns
    BY <1>1 DEF AddUnicornSession, End
  <2>b. /\ logins \in Seq(Idents) /\ Len(logins) \in Nat
    BY <1>t DEF SessionTypes
  <2>c. /\ n \in Unicorns /\ n \notin Given /\ Given' = Given \cup {n}
        /\ logins' \in Seq(Idents) /\ Len(logins') <= MaxUnicorns
        /\ \A u \in Given : logins'[u] = logins[u]
    <3>1. Len(logins') = n /\ logins' \in Seq(Idents) /\ \A u \in 1 .. Len(logins) : logins'[u] = logins[u]
      BY <2>a, <2>b
    <3>2. n \in Nat /\ n <= MaxUnicorns
      BY <2>a, <2>b, SessionsAssumption
    <3> QED  BY <2>b, <3>1, <3>2, SessionsAssumption DEF Unicorns, Given
  <2>d. /\ new \in SessRecord /\ new.plat = plat /\ new.rsq = 0 /\ new.aid = FALSE
    BY SessionsAssumption DEF SessRecord
  <2>e. /\ request \in Request /\ request.at = "account" /\ request.unicorn = n
    <3> HIDE DEF n
    <3> QED  BY <2>c, SessionsAssumption DEF Request, RequestStages
  <2> HIDE DEF n, us, new, request
  <2>1. /\ logins' \in Seq(Idents) /\ Len(logins') <= MaxUnicorns
        /\ n \in Unicorns \ Given /\ Given' = Given \cup {n}
        /\ \A u \in Given : Aid(u)' = Aid(u)
        /\ isess' \in [Idents -> Unicorns \cup {NoUnicorn}]
        /\ handler' \in [Handlers -> Request] /\ handler'[h].at = "account"
        /\ handler'[h].unicorn = n
        /\ \A g \in Handlers : g # h => handler'[g] = handler[g]
    BY <1>t, <2>a, <2>c, <2>e DEF Aid
  <2>2. /\ sess' \in [Unicorns -> SessRecord] /\ sess'[n].aid = FALSE /\ sess'[n].rsq = 0
        /\ \A u \in Unicorns : u # n /\ Usable(u)' => Usable(u) /\ sess'[u] = sess[u]
        /\ \A u \in Unicorns : u # n /\ Known(u)' => Known(u)
        /\ ended' \subseteq ended \cup Given
        /\ \A u \in ended' : u \in ended \/ ~Usable(u)'
    <3>1. /\ sess' \in [Unicorns -> SessRecord] /\ sess'[n] = new
          /\ \A u \in Unicorns : u # n => sess'[u] = IF u \in us THEN NoSess ELSE sess[u]
      BY <1>t, <2>a, <2>c, <2>d, RemovedAreGone
    <3>2. \A u \in us : Known(u) => u \in Given /\ u # n
      BY <1>g, <2>c DEF us, NotGivenIsUnknown
    <3> QED
      BY ZenonT(60), <2>a, <2>d, <3>1, <3>2, SessionConstantsAreTyped DEF Known, Usable, us
  <2>3. /\ accepted' \in [Unicorns -> [0 .. MaxOrder -> Nat]]
        /\ accepted'[n][0] = 1
        /\ \A u \in Unicorns, o \in 0 .. MaxOrder :
              u # n \/ o # 0 => accepted'[u][o] = accepted[u][o]
    <3>1. accepted[n][0] = 0 /\ 0 \in 0 .. MaxOrder
      BY <1>g, <2>c, SessionsAssumption DEF NotGivenIsUnknown
    <3>2. Counted(n, 0) /\ n \in Unicorns
      BY <2>a, <2>c DEF Counted
    <3>3. accepted \in [Unicorns -> [0 .. MaxOrder -> Nat]]
      BY <1>t
    <3> QED  BY <3>1, <3>2, <3>3, NumberIsCounted
  <2>4. aidIndex' = aidIndex
    BY <2>a
  <2>5. SessionTypes'
    BY <1>t, <1>u, <2>1, <2>2, <2>3, <2>4 DEF SessionTypes, SessionTypeOK, SessRecord
  <2>6. RequestsAreOfLogins'
    BY <1>r, <2>1 DEF RequestsAreOfLogins
  <2>7. NotGivenIsUnknown'
    <3>1. ASSUME NEW u \in Unicorns \ Given' PROVE ~Known(u)' /\ u \in Unicorns \ Given
      BY <1>g, <1>r, <2>1, <2>2 DEF NotGivenIsUnknown, RequestsAreOfLogins
    <3>2. ASSUME NEW u \in Unicorns \ Given', NEW o \in 0 .. MaxOrder PROVE accepted'[u][o] = 0
      BY SMTT(60), <1>g, <1>r, <2>1, <2>3, <3>1 DEF NotGivenIsUnknown, RequestsAreOfLogins
    <3>3. ended' \subseteq Given'
      BY <1>g, <2>1, <2>2 DEF NotGivenIsUnknown
    <3> QED  BY <3>1, <3>2, <3>3 DEF NotGivenIsUnknown
  <2>8. EndedStaysEnded'
    BY <1>g, <1>e, <1>u, <2>1, <2>2 DEF EndedStaysEnded, NotGivenIsUnknown
  <2>9. IndexIsCurrent'
    <3>1. ASSUME NEW u \in Unicorns, u # n, Usable(u)'
          PROVE  /\ sess'[u] = sess[u] /\ Usable(u) /\ aidIndex'[Aid(u)'] = aidIndex[Aid(u)]
      <4>1. Usable(u) /\ sess'[u] = sess[u]
        BY ONLY <2>2, <3>1
      <4>2. u \in Given
        BY <1>g, <1>u, <4>1 DEF NotGivenIsUnknown
      <4> QED  BY ONLY <2>1, <2>4, <4>1, <4>2
    <3>2. ASSUME NEW u \in Unicorns, Usable(u)', sess'[u].aid PROVE aidIndex'[Aid(u)'] = u
      <4>1. u # n
        BY ONLY <2>2, <3>2
      <4> QED  BY <1>i, <3>1, <3>2, <4>1 DEF IndexIsCurrent
    <3>3. ASSUME NEW g \in Handlers, handler'[g].at = "flushAid", Usable(handler[g].unicorn)'
          PROVE  (aidIndex[Aid(handler[g].unicorn)] = handler[g].unicorn)'
      <4>1. g # h /\ handler'[g] = handler[g]
        BY ONLY <2>1, <3>3
      <4>2. handler[g].unicorn \in Given
        BY <1>r, <3>3, <4>1 DEF RequestsAreOfLogins
      <4>3. handler[g].unicorn \in Unicorns /\ handler[g].unicorn # n
        BY <1>u, <2>1, <4>2
      <4> DEFINE u == handler[g].unicorn
      <4>4. Usable(u) /\ aidIndex'[Aid(u)'] = aidIndex[Aid(u)]
        BY <3>1, <3>3, <4>1, <4>3
      <4> QED  BY <1>i, <3>3, <4>1, <4>4 DEF IndexIsCurrent
    <3> QED  BY <3>2, <3>3 DEF IndexIsCurrent
  <2>10. OrdersAreCounted'
    <3>1. ASSUME NEW g \in Handlers, Waiting(g)'
          PROVE  /\ handler'[g].order >= 1
                 /\ Usable(handler[g].unicorn)' => handler'[g].order <= sess'[handler'[g].unicorn].rsq
      BY <1>r, <1>o, <1>u, <1>n, <2>1, <2>2, <3>1 DEF OrdersAreCounted, Waiting, RequestsAreOfLogins
    <3>a. ASSUME NEW g \in Handlers, Waiting(g)'
          PROVE  accepted'[handler'[g].unicorn][handler'[g].order] = 0
      <4>1. g # h /\ handler'[g] = handler[g] /\ Waiting(g)
        BY <2>1, <3>a DEF Waiting
      <4>2. handler[g].unicorn \in Given /\ handler[g].order \in 0 .. MaxOrder
        BY <1>r, <1>n, <4>1 DEF RequestsAreOfLogins, Waiting
      <4>3. accepted[handler[g].unicorn][handler[g].order] = 0
        BY <1>o, <4>1 DEF OrdersAreCounted
      <4> QED  BY ONLY SMTT(60), <1>u, <2>1, <2>3, <4>1, <4>2, <4>3
    <3>2. ASSUME NEW f \in Handlers, NEW g \in Handlers, Waiting(f)', Waiting(g)',
                 handler'[f].unicorn = handler'[g].unicorn, handler'[f].order = handler'[g].order
          PROVE  f = g
      BY <1>r, <1>o, <1>u, <1>n, <2>1, <2>2, <3>2 DEF OrdersAreCounted, Waiting, RequestsAreOfLogins
    <3>3. ASSUME NEW u \in Unicorns, Usable(u)', NEW o \in 0 .. MaxOrder, o > sess'[u].rsq
          PROVE  accepted'[u][o] = 0
      <4>1. CASE u = n
        <5>1. o # 0 /\ accepted[u][o] = 0
          BY <1>g, <1>n, <2>1, <2>2, <3>3, <4>1 DEF NotGivenIsUnknown
        <5> QED  BY <2>3, <5>1
      <4>2. CASE u # n
        <5>1. accepted[u][o] = 0
          BY <1>o, <2>2, <3>3, <4>2 DEF OrdersAreCounted
        <5> QED  BY <2>3, <4>2, <5>1
      <4> QED  BY <4>1, <4>2
    <3> QED  BY <3>1, <3>a, <3>2, <3>3 DEF OrdersAreCounted
  <2>11. NoOrderTwice'
    BY <1>a, <2>3 DEF NoOrderTwice
  <2> QED  BY <2>5, <2>6, <2>7, <2>8, <2>9, <2>10, <2>11 DEF SessionInv
<1>2. ASSUME NEW h \in Handlers, NEW v \in Unicorns, GetSession(h, v), sess[v].kill
      PROVE  SessionInv'
  <2>1. /\ UNCHANGED <<logins, isess, aidIndex, handler, accepted>>
        /\ Usable(v) /\ sess' = Without({v}) /\ End({v})
    BY <1>2 DEF GetSession
  <2> QED  BY <1>t, <1>u, <2>1, RemovalKeepsInv
<1>3. ASSUME NEW h \in Handlers, NEW v \in Unicorns, GetSession(h, v), ~sess[v].kill
      PROVE  SessionInv'
  <2> DEFINE o == sess[v].rsq + 1
             request == [at |-> "order", unicorn |-> v, order |-> o]
  <2>0. /\ UNCHANGED <<logins, isess, aidIndex, ended, accepted>>
        /\ Usable(v) /\ sess[v].rsq < MaxOrder /\ sess' = [sess EXCEPT ![v].rsq = o]
        /\ handler' = [handler EXCEPT ![h] = request]
    BY <1>3 DEF GetSession
  <2>a. o \in 1 .. MaxOrder /\ sess[v].rsq \in 0 .. MaxOrder /\ o = sess[v].rsq + 1
    BY <1>t, <2>0, SessionsAssumption DEF SessRecord
  <2> HIDE DEF o
  <2>b. /\ request \in Request /\ request.at = "order" /\ request.unicorn = v /\ request.order = o
    BY <2>a DEF Request, RequestStages
  <2> HIDE DEF request
  <2>1. /\ UNCHANGED <<logins, isess>>
        /\ Given' = Given /\ \A u \in Given : Aid(u)' = Aid(u)
        /\ handler' \in [Handlers -> Request] /\ handler'[h].at = "order"
        /\ handler'[h].unicorn = v /\ handler'[h].order = o
        /\ \A g \in Handlers : g # h => handler'[g] = handler[g]
        /\ v \in Given
    BY <1>t, <1>u, <2>0, <2>b DEF Given, Aid
  <2>2. /\ UNCHANGED ended /\ sess' \in [Unicorns -> SessRecord]
        /\ sess'[v].aid = sess[v].aid /\ sess'[v].rsq = o /\ Usable(v)
        /\ o = sess[v].rsq + 1 /\ o \in Int /\ o >= 1 /\ o \in 0 .. MaxOrder
        /\ \A u \in Unicorns : u # v => sess'[u] = sess[u]
        /\ \A u \in Unicorns : Usable(u)' = Usable(u) /\ Known(u)' = Known(u)
    <3>1. sess' \in [Unicorns -> SessRecord]
      <4> DEFINE new == [sess[v] EXCEPT !.rsq = o]
      <4>1. sess[v] \in SessRecord
        BY <1>t
      <4>2. new \in SessRecord
        BY <4>1, <2>a DEF SessRecord
      <4>3. sess' = [sess EXCEPT ![v] = new]
        BY <1>t, <2>0
      <4> HIDE DEF new
      <4> QED  BY <1>t, <4>2, <4>3
    <3>2. /\ sess'[v].plat = sess[v].plat /\ sess'[v].aid = sess[v].aid /\ sess'[v].rsq = o
          /\ \A u \in Unicorns : u # v => sess'[u] = sess[u]
      BY <1>t, <2>0 DEF SessRecord
    <3> QED  BY <2>0, <2>a, <3>1, <3>2 DEF Usable, Known
  <2>3. UNCHANGED accepted
    BY <2>0
  <2>4. UNCHANGED aidIndex
    BY <2>0
  <2>5. SessionTypes'
    BY ONLY <1>t, <1>u, <2>1, <2>2, <2>3, <2>4 DEF SessionTypes, SessionTypeOK, SessRecord
  <2>6. RequestsAreOfLogins'
    BY <1>r, <2>1 DEF RequestsAreOfLogins
  <2>7. NotGivenIsUnknown'
    <3>1. ASSUME NEW u \in Unicorns \ Given' PROVE ~Known(u)' /\ u \in Unicorns \ Given
      BY <1>g, <1>r, <2>1, <2>2 DEF NotGivenIsUnknown, RequestsAreOfLogins
    <3>2. ASSUME NEW u \in Unicorns \ Given', NEW x \in 0 .. MaxOrder PROVE accepted'[u][x] = 0
      BY <1>g, <1>r, <2>1, <2>3, <3>1 DEF NotGivenIsUnknown, RequestsAreOfLogins
    <3>3. ended' \subseteq Given'
      BY <1>g, <2>1, <2>2 DEF NotGivenIsUnknown
    <3> QED  BY <3>1, <3>2, <3>3 DEF NotGivenIsUnknown
  <2>8. EndedStaysEnded'
    BY <1>g, <1>e, <1>u, <2>1, <2>2 DEF EndedStaysEnded, NotGivenIsUnknown
  <2>9. IndexIsCurrent'
    BY <1>i, <1>r, <1>g, <1>u, <2>1, <2>2, <2>4 DEF IndexIsCurrent, RequestsAreOfLogins, NotGivenIsUnknown
  <2>10. OrdersAreCounted'
    <3>1. ASSUME NEW g \in Handlers, Waiting(g)'
          PROVE  /\ handler'[g].order >= 1
                 /\ Usable(handler[g].unicorn)' => handler'[g].order <= sess'[handler'[g].unicorn].rsq
      BY <1>r, <1>o, <1>u, <1>n, <2>1, <2>2, <3>1 DEF OrdersAreCounted, Waiting, RequestsAreOfLogins
    <3>a. ASSUME NEW g \in Handlers, Waiting(g)'
          PROVE  accepted'[handler'[g].unicorn][handler'[g].order] = 0
      BY <1>r, <1>g, <1>o, <1>u, <1>n, <2>1, <2>2, <2>3, <3>a
         DEF OrdersAreCounted, Waiting, RequestsAreOfLogins, NotGivenIsUnknown
    <3>2. ASSUME NEW f \in Handlers, NEW g \in Handlers, Waiting(f)', Waiting(g)',
                 handler'[f].unicorn = handler'[g].unicorn, handler'[f].order = handler'[g].order
          PROVE  f = g
      BY SMTT(60), <1>r, <1>o, <1>u, <1>n, <2>1, <2>2, <3>2
     DEF OrdersAreCounted, Waiting, RequestsAreOfLogins
    <3>3. ASSUME NEW u \in Unicorns, Usable(u)', NEW x \in 0 .. MaxOrder, x > sess'[u].rsq
          PROVE  accepted'[u][x] = 0
      BY <1>r, <1>g, <1>o, <1>u, <1>n, <2>1, <2>2, <2>3, <3>3
         DEF OrdersAreCounted, Waiting, RequestsAreOfLogins, NotGivenIsUnknown
    <3> QED  BY <3>1, <3>a, <3>2, <3>3 DEF OrdersAreCounted
  <2>11. NoOrderTwice'
    BY <1>a, <2>3 DEF NoOrderTwice
  <2> QED  BY <2>5, <2>6, <2>7, <2>8, <2>9, <2>10, <2>11 DEF SessionInv
<1>4. ASSUME NEW h \in Handlers, CheckCurrentRequest(h)
      PROVE  SessionInv'
  <2> DEFINE v == handler[h].unicorn
             x == handler[h].order
  <2>0. /\ UNCHANGED <<logins, isess, aidIndex, sess, ended>> /\ handler[h].at = "order"
        /\ accepted' = [accepted EXCEPT ![v][x] = @ + 1] \/ accepted' = accepted
    BY <1>4 DEF CheckCurrentRequest
  <2>a. v \in Unicorns /\ x \in 0 .. MaxOrder /\ accepted[v][x] = 0
    BY <1>t, <1>r, <1>u, <1>o, <2>0 DEF RequestsAreOfLogins, OrdersAreCounted, Waiting, Request
  <2>1. /\ UNCHANGED <<logins, isess>>
        /\ Given' = Given /\ \A u \in Given : Aid(u)' = Aid(u)
        /\ handler' \in [Handlers -> Request] /\ handler'[h].at \in {"account", "mark", "flush", "rest"}
        /\ handler'[h].at # "rest" => handler'[h].unicorn = v
        /\ \A g \in Handlers : g # h => handler'[g] = handler[g]
        /\ handler[h].at = "order" /\ v = handler[h].unicorn /\ x = handler[h].order
    <3>1. Answer(h) \/ \E route \in {"account", "mark", "flush"} : Work(h, route)
      BY <1>4 DEF CheckCurrentRequest
    <3>2. /\ handler' \in [Handlers -> Request] /\ handler'[h].at \in {"account", "mark", "flush", "rest"}
          /\ handler'[h].at # "rest" => handler'[h].unicorn = v
          /\ \A g \in Handlers : g # h => handler'[g] = handler[g]
      BY <1>t, <3>1, RequestGoesOn, RequestIsOver DEF RequestStages
    <3> QED  BY <2>0, <3>2 DEF Given, Aid
  <2> HIDE DEF v, x
  <2>2. /\ UNCHANGED <<sess, ended>> /\ sess' \in [Unicorns -> SessRecord]
        /\ \A u \in Unicorns : Usable(u)' = Usable(u) /\ Known(u)' = Known(u)
    BY <1>t, <2>0 DEF Usable, Known
  <2>3. /\ accepted' \in [Unicorns -> [0 .. MaxOrder -> Nat]]
        /\ accepted'[v][x] <= 1 /\ v \in Unicorns
        /\ \A u \in Unicorns, o \in 0 .. MaxOrder :
              u # v \/ o # x => accepted'[u][o] = accepted[u][o]
    <3>1. CASE Counted(v, x)
      BY <1>t, <2>a, <3>1, NumberIsCounted
    <3>2. CASE accepted' = accepted
      BY <1>t, <2>a, <3>2
    <3> QED  BY <2>0, <3>1, <3>2 DEF Counted
  <2>4. UNCHANGED aidIndex
    BY <2>0
  <2>5. SessionTypes'
    BY <1>t, <1>u, <2>1, <2>2, <2>3, <2>4 DEF SessionTypes, SessionTypeOK, SessRecord
  <2>6. RequestsAreOfLogins'
    BY <1>r, <2>1 DEF RequestsAreOfLogins
  <2>7. NotGivenIsUnknown'
    <3>1. ASSUME NEW u \in Unicorns \ Given' PROVE ~Known(u)' /\ u \in Unicorns \ Given
      BY <1>g, <1>r, <2>1, <2>2 DEF NotGivenIsUnknown, RequestsAreOfLogins
    <3>2. ASSUME NEW u \in Unicorns \ Given', NEW o \in 0 .. MaxOrder PROVE accepted'[u][o] = 0
      BY <1>g, <1>r, <2>1, <2>3, <3>1 DEF NotGivenIsUnknown, RequestsAreOfLogins
    <3>3. ended' \subseteq Given'
      BY <1>g, <2>1, <2>2 DEF NotGivenIsUnknown
    <3> QED  BY <3>1, <3>2, <3>3 DEF NotGivenIsUnknown
  <2>8. EndedStaysEnded'
    BY <1>g, <1>e, <1>u, <2>1, <2>2 DEF EndedStaysEnded, NotGivenIsUnknown
  <2>9. IndexIsCurrent'
    BY <1>i, <1>r, <1>g, <1>u, <2>1, <2>2, <2>4 DEF IndexIsCurrent, RequestsAreOfLogins, NotGivenIsUnknown
  <2>10. OrdersAreCounted'
    <3>1. ASSUME NEW g \in Handlers, Waiting(g)'
          PROVE  /\ handler'[g].order >= 1
                 /\ Usable(handler[g].unicorn)' => handler'[g].order <= sess'[handler'[g].unicorn].rsq
      BY <1>r, <1>o, <1>u, <1>n, <2>1, <2>2, <3>1 DEF OrdersAreCounted, Waiting, RequestsAreOfLogins
    <3>a. ASSUME NEW g \in Handlers, Waiting(g)'
          PROVE  accepted'[handler'[g].unicorn][handler'[g].order] = 0
      <4>1. g # h /\ handler'[g] = handler[g] /\ Waiting(g) /\ Waiting(h)
        BY <2>1, <3>a DEF Waiting
      <4>2. handler[g].unicorn \in Unicorns /\ handler[g].order \in 0 .. MaxOrder
        BY <1>r, <1>u, <1>n, <4>1 DEF RequestsAreOfLogins, Waiting
      <4>3. /\ accepted[handler[g].unicorn][handler[g].order] = 0
            /\ handler[g].unicorn # v \/ handler[g].order # x
        BY <1>o, <2>1, <4>1 DEF OrdersAreCounted
      <4> QED  BY ONLY <2>3, <4>1, <4>2, <4>3
    <3>2. ASSUME NEW f \in Handlers, NEW g \in Handlers, Waiting(f)', Waiting(g)',
                 handler'[f].unicorn = handler'[g].unicorn, handler'[f].order = handler'[g].order
          PROVE  f = g
      BY <1>r, <1>o, <1>u, <1>n, <2>1, <2>2, <3>2 DEF OrdersAreCounted, Waiting, RequestsAreOfLogins
    <3>3. ASSUME NEW u \in Unicorns, Usable(u)', NEW o \in 0 .. MaxOrder, o > sess'[u].rsq
          PROVE  accepted'[u][o] = 0
      <4>1. accepted[u][o] = 0
        BY <1>o, <2>2, <3>3 DEF OrdersAreCounted
      <4>2. u # v \/ o # x
        BY <1>o, <1>n, <2>1, <2>2, <3>3 DEF OrdersAreCounted, Waiting
      <4> QED  BY <2>3, <4>1, <4>2
    <3> QED  BY <3>1, <3>a, <3>2, <3>3 DEF OrdersAreCounted
  <2>11. NoOrderTwice'
    BY <1>a, <2>3 DEF NoOrderTwice
  <2> QED  BY <2>5, <2>6, <2>7, <2>8, <2>9, <2>10, <2>11 DEF SessionInv
<1>5. ASSUME NEW h \in Handlers, IndexSessionWithAid(h)
      PROVE  SessionInv'
  <2> DEFINE v == handler[h].unicorn
             old == aidIndex[Aid(v)]
             others == {old} \ {v, NoUnicorn}
  <2>0. /\ UNCHANGED <<logins, isess, accepted>> /\ handler[h].at = "account"
        /\ sess' = Without(others) /\ ended' = ended \cup {u \in others : Known(u)}
        /\ aidIndex' = [aidIndex EXCEPT ![Aid(v)] = v] /\ Work(h, "flushAid")
    BY <1>5 DEF IndexSessionWithAid, End
  <2>a. v \in Given /\ v \in Unicorns /\ Aid(v) \in Aids /\ old \in Unicorns \cup {NoUnicorn}
    BY SMTT(60), <1>t, <1>r, <1>u, <2>0 DEF RequestsAreOfLogins
  <2>1. /\ UNCHANGED <<logins, isess>>
        /\ Given' = Given /\ \A u \in Given : Aid(u)' = Aid(u)
        /\ handler' \in [Handlers -> Request] /\ handler'[h].at = "flushAid"
        /\ handler'[h].unicorn = handler[h].unicorn /\ handler'[h].order = handler[h].order
        /\ \A g \in Handlers : g # h => handler'[g] = handler[g]
        /\ v \in Given /\ v = handler[h].unicorn /\ Aid(v) \in Aids
    <3>1. /\ handler' \in [Handlers -> Request] /\ handler'[h].at = "flushAid"
          /\ handler'[h].unicorn = handler[h].unicorn /\ handler'[h].order = handler[h].order
          /\ \A g \in Handlers : g # h => handler'[g] = handler[g]
      BY <1>t, <2>0, RequestGoesOn DEF RequestStages
    <3> QED  BY <2>0, <2>a, <3>1 DEF Given, Aid
  <2> HIDE DEF v
  <2>2. /\ sess' \in [Unicorns -> SessRecord] /\ old = aidIndex[Aid(v)]
        /\ \A u \in Unicorns : u = old /\ u # v => ~Usable(u)' /\ ~Known(u)'
        /\ \A u \in Unicorns : u # old \/ u = v =>
              sess'[u] = sess[u] /\ Usable(u)' = Usable(u) /\ Known(u)' = Known(u)
        /\ ended' \subseteq ended \cup Given
        /\ \A u \in ended' : u \in ended \/ ~Usable(u)'
    <3>1. NoUnicorn \notin Unicorns
      BY DEF NoUnicorn, Unicorns
    <3> HIDE DEF old
    <3>2. /\ sess' \in [Unicorns -> SessRecord]
          /\ \A u \in Unicorns : u = old /\ u # v => sess'[u] = NoSess
          /\ \A u \in Unicorns : u # old \/ u = v => sess'[u] = sess[u]
      BY <1>t, <2>0, <2>a, <3>1, RemovedAreGone
    <3>3. \A u \in Unicorns : Known(u) => u \in Given
      BY <1>g DEF NotGivenIsUnknown
    <3>4. /\ \A u \in Unicorns : u = old /\ u # v => ~Usable(u)' /\ ~Known(u)'
          /\ \A u \in Unicorns : u # old \/ u = v => Usable(u)' = Usable(u) /\ Known(u)' = Known(u)
      BY <3>2, SessionConstantsAreTyped DEF Known, Usable
    <3>5. \A u \in others : u = old /\ u # v /\ u \in Unicorns
      BY <2>a
    <3> QED  BY <2>0, <3>2, <3>3, <3>4, <3>5 DEF old
  <2>3. UNCHANGED accepted
    BY <2>0
  <2>4. /\ aidIndex' \in [Aids -> Unicorns \cup {NoUnicorn}] /\ aidIndex'[Aid(v)] = v
        /\ \A a \in Aids : a # Aid(v) => aidIndex'[a] = aidIndex[a]
    BY <1>t, <2>0, <2>a
  <2> HIDE DEF old
  <2>5. SessionTypes'
    BY ONLY <1>t, <1>u, <2>1, <2>2, <2>3, <2>4 DEF SessionTypes, SessionTypeOK, SessRecord
  <2>6. RequestsAreOfLogins'
    BY <1>r, <2>1 DEF RequestsAreOfLogins
  <2>7. NotGivenIsUnknown'
    <3>1. ASSUME NEW u \in Unicorns \ Given' PROVE ~Known(u)' /\ u \in Unicorns \ Given
      BY <1>g, <1>r, <2>1, <2>2 DEF NotGivenIsUnknown, RequestsAreOfLogins
    <3>2. ASSUME NEW u \in Unicorns \ Given', NEW o \in 0 .. MaxOrder PROVE accepted'[u][o] = 0
      BY <1>g, <1>r, <2>1, <2>3, <3>1 DEF NotGivenIsUnknown, RequestsAreOfLogins
    <3>3. ended' \subseteq Given'
      BY <1>g, <2>1, <2>2 DEF NotGivenIsUnknown
    <3> QED  BY <3>1, <3>2, <3>3 DEF NotGivenIsUnknown
  <2>8. EndedStaysEnded'
    BY <1>g, <1>e, <1>u, <2>1, <2>2 DEF EndedStaysEnded, NotGivenIsUnknown
  <2>9. IndexIsCurrent'
    BY <1>i, <1>r, <1>g, <1>u, <2>1, <2>2, <2>4 DEF IndexIsCurrent, RequestsAreOfLogins, NotGivenIsUnknown
  <2>10. OrdersAreCounted'
    <3>1. ASSUME NEW g \in Handlers, Waiting(g)'
          PROVE  /\ handler'[g].order >= 1
                 /\ Usable(handler[g].unicorn)' => handler'[g].order <= sess'[handler'[g].unicorn].rsq
      BY <1>r, <1>o, <1>u, <1>n, <2>1, <2>2, <3>1 DEF OrdersAreCounted, Waiting, RequestsAreOfLogins
    <3>a. ASSUME NEW g \in Handlers, Waiting(g)'
          PROVE  accepted'[handler'[g].unicorn][handler'[g].order] = 0
      BY <1>r, <1>g, <1>o, <1>u, <1>n, <2>1, <2>2, <2>3, <3>a
         DEF OrdersAreCounted, Waiting, RequestsAreOfLogins, NotGivenIsUnknown
    <3>2. ASSUME NEW f \in Handlers, NEW g \in Handlers, Waiting(f)', Waiting(g)',
                 handler'[f].unicorn = handler'[g].unicorn, handler'[f].order = handler'[g].order
          PROVE  f = g
      BY <1>r, <1>o, <1>u, <1>n, <2>1, <2>2, <3>2 DEF OrdersAreCounted, Waiting, RequestsAreOfLogins
    <3>3. ASSUME NEW u \in Unicorns, Usable(u)', NEW x \in 0 .. MaxOrder, x > sess'[u].rsq
          PROVE  accepted'[u][x] = 0
      BY SMTT(60), <1>r, <1>g, <1>o, <1>u, <1>n, <2>1, <2>2, <2>3, <3>3
         DEF OrdersAreCounted, Waiting, RequestsAreOfLogins, NotGivenIsUnknown
    <3> QED  BY <3>1, <3>a, <3>2, <3>3 DEF OrdersAreCounted
  <2>11. NoOrderTwice'
    BY <1>a, <2>3 DEF NoOrderTwice
  <2> QED  BY <2>5, <2>6, <2>7, <2>8, <2>9, <2>10, <2>11 DEF SessionInv
<1>6. ASSUME NEW h \in Handlers, FlushSessionDelta(h)
      PROVE  SessionInv'
  <2> DEFINE v == handler[h].unicorn
             plat == IF Known(v) THEN sess[v].plat ELSE "none"
             new == [sess[v] EXCEPT !.plat = plat, !.aid = TRUE, !.kill = FALSE]
  <2>0. /\ UNCHANGED <<logins, isess, aidIndex, ended, accepted>> /\ handler[h].at = "flushAid"
        /\ Answer(h) /\ sess' = [sess EXCEPT ![v].plat = plat, ![v].aid = TRUE, ![v].kill = FALSE]
    BY SMTT(60), <1>6 DEF FlushSessionDelta
  <2>a. v \in Given /\ v \in Unicorns
    BY SMTT(60), <1>r, <1>u, <2>0 DEF RequestsAreOfLogins
  <2>1. /\ UNCHANGED <<logins, isess>>
        /\ Given' = Given /\ \A u \in Given : Aid(u)' = Aid(u)
        /\ handler' \in [Handlers -> Request] /\ handler'[h].at = "rest"
        /\ \A g \in Handlers : g # h => handler'[g] = handler[g]
        /\ handler[h].at = "flushAid" /\ v \in Given /\ v = handler[h].unicorn
    <3>1. /\ handler' \in [Handlers -> Request] /\ handler'[h].at = "rest"
          /\ \A g \in Handlers : g # h => handler'[g] = handler[g]
      BY SMTT(60), <1>t, <2>0, RequestIsOver
    <3> QED  BY <2>0, <2>a, <3>1 DEF Given, Aid
  <2> HIDE DEF v
  <2>2. /\ sess' \in [Unicorns -> SessRecord] /\ UNCHANGED ended
        /\ \A u \in Unicorns : u # v => /\ sess'[u] = sess[u] /\ Known(u)' = Known(u)
        /\ \A u \in Unicorns : Usable(u)' = Usable(u) /\ sess'[u].rsq = sess[u].rsq
    <3>1. new \in SessRecord /\ new.plat = plat /\ new.rsq = sess[v].rsq
      <4>1. sess[v] \in SessRecord
        BY <1>t, <2>a
      <4>2. plat \in Platforms \cup {"none", "absent"}
        BY <4>1 DEF SessRecord
      <4> HIDE DEF plat
      <4> QED  BY <4>1, <4>2 DEF SessRecord
    <3>e. sess' = [sess EXCEPT ![v] = new]
      BY <1>t, <2>0, <2>a
    <3> HIDE DEF new
    <3>2. /\ sess' \in [Unicorns -> SessRecord] /\ sess'[v] = new
          /\ \A u \in Unicorns : u # v => sess'[u] = sess[u]
      BY <1>t, <3>e, <2>a, <3>1
    <3>3. \A u \in Unicorns : u = v => Usable(u)' = Usable(u)
      BY <3>1, <3>2, SessionConstantsAreTyped DEF Known, Usable
    <3> QED  BY <2>0, <3>1, <3>2, <3>3 DEF Known, Usable
  <2>3. UNCHANGED accepted
    BY <2>0
  <2>4. UNCHANGED aidIndex
    BY <2>0
  <2>5. SessionTypes'
    BY <1>t, <1>u, <2>1, <2>2, <2>3, <2>4 DEF SessionTypes, SessionTypeOK, SessRecord
  <2>6. RequestsAreOfLogins'
    BY <1>r, <2>1 DEF RequestsAreOfLogins
  <2>7. NotGivenIsUnknown'
    <3>1. ASSUME NEW u \in Unicorns \ Given' PROVE ~Known(u)' /\ u \in Unicorns \ Given
      BY <1>g, <1>r, <2>1, <2>2 DEF NotGivenIsUnknown, RequestsAreOfLogins
    <3>2. ASSUME NEW u \in Unicorns \ Given', NEW o \in 0 .. MaxOrder PROVE accepted'[u][o] = 0
      BY <1>g, <1>r, <2>1, <2>3, <3>1 DEF NotGivenIsUnknown, RequestsAreOfLogins
    <3>3. ended' \subseteq Given'
      BY <1>g, <2>1, <2>2 DEF NotGivenIsUnknown
    <3> QED  BY <3>1, <3>2, <3>3 DEF NotGivenIsUnknown
  <2>8. EndedStaysEnded'
    BY <1>g, <1>e, <1>u, <2>1, <2>2 DEF EndedStaysEnded, NotGivenIsUnknown
  <2>9. IndexIsCurrent'
    BY <1>i, <1>r, <1>g, <1>u, <2>1, <2>2, <2>4 DEF IndexIsCurrent, RequestsAreOfLogins, NotGivenIsUnknown
  <2>10. OrdersAreCounted'
    <3>1. ASSUME NEW g \in Handlers, Waiting(g)'
          PROVE  /\ handler'[g].order >= 1
                 /\ Usable(handler[g].unicorn)' => handler'[g].order <= sess'[handler'[g].unicorn].rsq
      BY <1>r, <1>o, <1>u, <1>n, <2>1, <2>2, <3>1 DEF OrdersAreCounted, Waiting, RequestsAreOfLogins
    <3>a. ASSUME NEW g \in Handlers, Waiting(g)'
          PROVE  accepted'[handler'[g].unicorn][handler'[g].order] = 0
      BY <1>r, <1>g, <1>o, <1>u, <1>n, <2>1, <2>2, <2>3, <3>a
         DEF OrdersAreCounted, Waiting, RequestsAreOfLogins, NotGivenIsUnknown
    <3>2. ASSUME NEW f \in Handlers, NEW g \in Handlers, Waiting(f)', Waiting(g)',
                 handler'[f].unicorn = handler'[g].unicorn, handler'[f].order = handler'[g].order
          PROVE  f = g
      BY <1>r, <1>o, <1>u, <1>n, <2>1, <2>2, <3>2 DEF OrdersAreCounted, Waiting, RequestsAreOfLogins
    <3>3. ASSUME NEW u \in Unicorns, Usable(u)', NEW x \in 0 .. MaxOrder, x > sess'[u].rsq
          PROVE  accepted'[u][x] = 0
      BY <1>r, <1>g, <1>o, <1>u, <1>n, <2>1, <2>2, <2>3, <3>3
         DEF OrdersAreCounted, Waiting, RequestsAreOfLogins, NotGivenIsUnknown
    <3> QED  BY <3>1, <3>a, <3>2, <3>3 DEF OrdersAreCounted
  <2>11. NoOrderTwice'
    BY <1>a, <2>3 DEF NoOrderTwice
  <2> QED  BY SMTT(60), <2>5, <2>6, <2>7, <2>8, <2>9, <2>10, <2>11 DEF SessionInv
<1>7. ASSUME NEW h \in Handlers, JustUnlockSession(h)
      PROVE  SessionInv'
  <2> DEFINE v == handler[h].unicorn
  <2>0. /\ UNCHANGED <<logins, isess, aidIndex, ended, accepted>> /\ handler[h].at = "flush"
        /\ Answer(h) /\ sess' = [sess EXCEPT ![v].kill = FALSE]
    BY <1>7 DEF JustUnlockSession
  <2>a. v \in Given /\ v \in Unicorns
    BY <1>r, <1>u, <2>0 DEF RequestsAreOfLogins
  <2>1. /\ UNCHANGED <<logins, isess>>
        /\ Given' = Given /\ \A u \in Given : Aid(u)' = Aid(u)
        /\ handler' \in [Handlers -> Request] /\ handler'[h].at = "rest"
        /\ \A g \in Handlers : g # h => handler'[g] = handler[g]
        /\ v \in Given
    <3>1. /\ handler' \in [Handlers -> Request] /\ handler'[h].at = "rest"
          /\ \A g \in Handlers : g # h => handler'[g] = handler[g]
      BY <1>t, <2>0, RequestIsOver
    <3> QED  BY <2>0, <2>a, <3>1 DEF Given, Aid
  <2> HIDE DEF v
  <2>2. /\ sess' \in [Unicorns -> SessRecord] /\ UNCHANGED ended
        /\ \A u \in Unicorns : sess'[u].rsq = sess[u].rsq /\ sess'[u].aid = sess[u].aid
        /\ \A u \in Unicorns : Usable(u)' = Usable(u) /\ Known(u)' = Known(u)
    <3>1. /\ sess' \in [Unicorns -> SessRecord]
          /\ \A u \in Unicorns : /\ sess'[u].rsq = sess[u].rsq /\ sess'[u].aid = sess[u].aid
                                 /\ sess'[u].plat = sess[u].plat
      BY ZenonT(60), <1>t, <2>0, <2>a DEF SessRecord
    <3> QED  BY <2>0, <3>1 DEF Known, Usable
  <2> QED  BY <2>0, <2>1, <2>2, MarkingKeepsInv
<1>8. ASSUME NEW h \in Handlers, MarkSessionToKill(h)
      PROVE  SessionInv'
  <2> DEFINE v == handler[h].unicorn
             plat == IF Known(v) THEN sess[v].plat ELSE "none"
             new == [sess[v] EXCEPT !.plat = plat, !.kill = TRUE]
  <2>0. /\ UNCHANGED <<logins, isess, aidIndex, ended, accepted>> /\ handler[h].at = "mark"
        /\ sess' = [sess EXCEPT ![v].plat = plat, ![v].kill = TRUE]
        /\ \E outcome \in {"flush", "destroy"} : Work(h, outcome)
    BY <1>8 DEF MarkSessionToKill
  <2>a. v \in Given /\ v \in Unicorns
    BY <1>r, <1>u, <2>0 DEF RequestsAreOfLogins
  <2>1. /\ UNCHANGED <<logins, isess>>
        /\ Given' = Given /\ \A u \in Given : Aid(u)' = Aid(u)
        /\ handler' \in [Handlers -> Request] /\ handler'[h].at \in {"flush", "destroy"}
        /\ handler'[h].unicorn = handler[h].unicorn /\ handler'[h].order = handler[h].order
        /\ \A g \in Handlers : g # h => handler'[g] = handler[g]
        /\ v \in Given /\ v = handler[h].unicorn
    <3>1. /\ handler' \in [Handlers -> Request] /\ handler'[h].at \in {"flush", "destroy"}
          /\ handler'[h].unicorn = handler[h].unicorn /\ handler'[h].order = handler[h].order
          /\ \A g \in Handlers : g # h => handler'[g] = handler[g]
      BY <1>t, <2>0, RequestGoesOn DEF RequestStages
    <3> QED  BY <2>0, <2>a, <3>1 DEF Given, Aid
  <2> HIDE DEF v
  <2>2. /\ sess' \in [Unicorns -> SessRecord] /\ UNCHANGED ended
        /\ \A u \in Unicorns : u # v => Known(u)' = Known(u)
        /\ \A u \in Unicorns : /\ Usable(u)' = Usable(u)
                               /\ sess'[u].rsq = sess[u].rsq /\ sess'[u].aid = sess[u].aid
    <3>1. new \in SessRecord /\ new.plat = plat /\ new.rsq = sess[v].rsq /\ new.aid = sess[v].aid
      <4>1. sess[v] \in SessRecord
        BY <1>t, <2>a
      <4>2. plat \in Platforms \cup {"none", "absent"}
        BY <4>1 DEF SessRecord
      <4> HIDE DEF plat
      <4> QED  BY <4>1, <4>2 DEF SessRecord
    <3>e. sess' = [sess EXCEPT ![v] = new]
      BY <1>t, <2>0, <2>a
    <3> HIDE DEF new
    <3>2. /\ sess' \in [Unicorns -> SessRecord] /\ sess'[v] = new
          /\ \A u \in Unicorns : u # v => sess'[u] = sess[u]
      BY <1>t, <3>e, <2>a, <3>1
    <3>3. \A u \in Unicorns : u = v => Usable(u)' = Usable(u)
      BY <3>1, <3>2, SessionConstantsAreTyped DEF Known, Usable
    <3> QED  BY <2>0, <3>1, <3>2, <3>3 DEF Known, Usable
  <2> QED  BY ZenonT(60), <2>0, <2>1, <2>2, MarkingKeepsInv
<1>9. ASSUME NEW h \in Handlers, DestroySession(h)
      PROVE  SessionInv'
  <2> DEFINE v == handler[h].unicorn
  <2>1. /\ UNCHANGED <<logins, isess, accepted>> /\ handler[h].at = "destroy" /\ Answer(h)
        /\ sess' = Without({v}) /\ End({v})
        /\ aidIndex' = [a \in Aids |-> IF aidIndex[a] = v THEN NoUnicorn ELSE aidIndex[a]]
    BY <1>9 DEF DestroySession
  <2>2. v \in Given
    BY <1>r, <2>1 DEF RequestsAreOfLogins
  <2>3. /\ aidIndex' \in [Aids -> Unicorns \cup {NoUnicorn}]
        /\ \A a \in Aids : aidIndex[a] # v => aidIndex'[a] = aidIndex[a]
    BY <1>t, <2>1
  <2>4. /\ handler' \in [Handlers -> Request]
        /\ \A g \in Handlers : handler'[g] = handler[g] \/ handler'[g].at = "rest"
    BY <1>t, <2>1, RequestIsOver
  <2> QED  BY <2>1, <2>2, <2>3, <2>4, RemovalKeepsInv
<1>10. ASSUME NEW h \in Handlers, HandlerDies(h)
      PROVE  SessionInv'
  <2>1. UNCHANGED <<logins, isess, aidIndex, ended, accepted, sess>> /\ Answer(h)
    BY <1>10 DEF HandlerDies
  <2>2. /\ handler' \in [Handlers -> Request]
        /\ \A g \in Handlers : handler'[g] = handler[g] \/ handler'[g].at = "rest"
    BY <1>t, <2>1, RequestIsOver
  <2>3. \A u \in Unicorns : Usable(u)' = Usable(u) /\ Known(u)' = Known(u)
    BY <2>1 DEF Usable, Known
  <2> QED  BY <1>t, <2>1, <2>2, <2>3, MarkingKeepsInv
<1>11. ASSUME NEW v \in Unicorns, SessionExpires(v)
      PROVE  SessionInv'
  <2>1. /\ UNCHANGED <<logins, isess, handler, accepted>>
        /\ Usable(v) /\ sess' = Without({v}) /\ End({v})
        /\ aidIndex' = [a \in Aids |-> IF aidIndex[a] = v THEN NoUnicorn ELSE aidIndex[a]]
    BY <1>11 DEF SessionExpires
  <2>2. /\ aidIndex' \in [Aids -> Unicorns \cup {NoUnicorn}]
        /\ \A a \in Aids : aidIndex[a] # v => aidIndex'[a] = aidIndex[a]
    BY <1>t, <2>1
  <2> QED  BY <1>t, <1>u, <2>1, <2>2, RemovalKeepsInv
<1>12. CASE UNCHANGED sessionVars
  <2>1. UNCHANGED <<logins, isess, aidIndex, ended, accepted, sess, handler>>
    BY <1>12 DEF sessionVars
  <2>2. \A u \in Unicorns : Usable(u)' = Usable(u) /\ Known(u)' = Known(u)
    BY <2>1 DEF Usable, Known
  <2> QED  BY <1>t, <2>1, <2>2, MarkingKeepsInv
<1> QED
  BY <1>1, <1>2, <1>3, <1>4, <1>5, <1>6, <1>7, <1>8, <1>9, <1>10, <1>11, <1>12
     DEF SessionNext, AddNewVkSession, AddNewFbSession, AddNewOkSession,
         AddNewMobileOrStandaloneSession, Platforms

\* The invariant holds in every state.
LEMMA SessionInvariant == SessionSpec => []SessionInv
BY SessionInvInit, SessionInvStep, PTL DEF SessionSpec

\* The variables of the sessions keep their types.
THEOREM SessionTyping == SessionSpec => []SessionTypeOK
<1>1. SessionInv => SessionTypeOK
  BY DEF SessionInv, SessionTypes
<1> QED  BY <1>1, SessionInvariant, PTL

\* A session that was removed is never let in again, whatever writes to it late.
THEOREM EndedIsFinal == SessionSpec => []EndedStaysEnded
<1>1. SessionInv => EndedStaysEnded
  BY DEF SessionInv
<1> QED  BY <1>1, SessionInvariant, PTL

\* An account has one session at most that knows it and is let in.
THEOREM AccountHasOneSession == SessionSpec => []OneSessionPerAccount
<1>1. SessionInv => OneSessionPerAccount
  <2> SUFFICES ASSUME SessionInv, NEW u \in Unicorns, NEW v \in Unicorns, Usable(u), Usable(v),
                      sess[u].aid, sess[v].aid, Aid(u) = Aid(v)
               PROVE  u = v
    BY DEF OneSessionPerAccount
  <2> QED  BY DEF SessionInv, IndexIsCurrent
<1> QED  BY <1>1, SessionInvariant, PTL

\* Two requests of a session are never accepted under one number.
THEOREM NumberIsUsedOnce == SessionSpec => []NoOrderTwice
<1>1. SessionInv => NoOrderTwice
  BY DEF SessionInv
<1> QED  BY <1>1, SessionInvariant, PTL
=============================================================================
