------------------------------- MODULE Accounts -------------------------------
(***************************************************************************)
(* Accounts, profiles and the links between them: accounts.js, with          *)
(* createProfile, createNewProfileProcedure and the removal of unlinked       *)
(* profiles of profiles.js.                                                   *)
(*                                                                         *)
(* A native account has a profile of its own (pid).  Linked to a social       *)
(* network it plays the profile of the social id (pid) and keeps its own      *)
(* (npid), or it becomes an account with two logins.  Every request is a      *)
(* chain of separate reads and writes, decided on what was read first, that   *)
(* another request may cross and that may end anywhere.                       *)
(***************************************************************************)
EXTENDS Integers, FiniteSets

CONSTANTS
    Natives,          \* native accounts; a social account is named by its social id
    SocialIds,
    RequestsOf,       \* bound: the requests at work, by the network of the social ids
    MaxProfiles,      \* bound: numbers for profiles, and requests that end half-way
    NoSocial          \* no social id

ASSUME AccountsAssumption ==
    /\ DOMAIN RequestsOf = {"vk", "ok", "fb"}
    /\ MaxProfiles \in Nat
    /\ NoSocial \notin SocialIds
    /\ Natives \cap SocialIds = {}

AccountRequests == UNION {RequestsOf[n] : n \in DOMAIN RequestsOf}
Accts == Natives \cup SocialIds
Pids == 1 .. MaxProfiles
NoPid == 0
Overwritten == -1

VARIABLES
    networkOf,   \* the network of each social id; never changes
    account,     \* the collection of accounts
    profile,     \* the collection of profiles, in the order of insertion (_id)
    humanId,     \* the sequence "humanId"
    login,       \* the session of each account
    task,        \* what each request is doing
    ends,        \* how many requests ended half-way
    refresh,     \* the page of profiles that is being refreshed; ghost: which of them
                 \* had an account when it looked
    own,         \* ghost: the profile that createProfile gave to each native account
    raced        \* ghost: profiles removed that came to be linked meanwhile

accountVars ==
    <<networkOf, account, profile, humanId, login, task, ends, refresh, own, raced>>

NoProfile == [hid |-> 0, social |-> NoSocial, due |-> FALSE, there |-> FALSE]
LoggedOut == [live |-> FALSE, pid |-> NoPid]
Free == [at |-> "rest", a |-> NoSocial, id |-> NoSocial, bi |-> FALSE,
         old |-> NoPid, p |-> NoPid, hid |-> 0, new |-> FALSE]
NoRefresh == [at |-> "rest", page |-> {}, owned |-> {}, named |-> {}]

AccountInit ==
    /\ networkOf \in [SocialIds -> {"vk", "ok", "fb"}]
    /\ account = [a \in Accts |-> [exists |-> FALSE, pid |-> NoPid, npid |-> NoPid,
                                   social |-> IF a \in SocialIds THEN a ELSE NoSocial]]
    /\ profile = [p \in Pids |-> NoProfile]
    /\ humanId = 0
    /\ login = [a \in Accts |-> LoggedOut]
    /\ task = [r \in AccountRequests |-> Free]
    /\ ends = 0
    /\ refresh = NoRefresh
    /\ own = [a \in Natives |-> NoPid]
    /\ raced = {}

Stored == {p \in Pids : profile[p].hid # 0}     \* what was ever inserted
There == {p \in Pids : profile[p].there}
NamedBy(a) == {account[a].pid, account[a].npid} \ {NoPid}
Named == UNION {NamedBy(a) : a \in Accts}

On(r, stage) == task[r].at = stage
Step(r, stage) == task' = [task EXCEPT ![r].at = stage]
Finish(r) == task' = [task EXCEPT ![r] = Free]
GhostsKept == UNCHANGED <<networkOf, ends, own, raced>>

-----------------------------------------------------------------------------
(* getAccount.                                                             *)

\* The account that a social id leads to: there is one at most (unique index).
AccountOfSocial(id) ==
    IF \E n \in Natives : account[n].social = id
    THEN CHOOSE n \in Natives : account[n].social = id
    ELSE id

\* What the session is told of the account.
FlushedSession(a) == [live |-> TRUE, pid |-> account[a].pid]

\* A social account is made when it is asked for; a native one by its first login,
\* with its secret.  The new session is told the pid; how it replaces the account's
\* older one, and what late requests of that do, is in Sessions.
GetAccount(who) ==
    LET a == IF who \in SocialIds THEN AccountOfSocial(who) ELSE who IN
    /\ account' = [account EXCEPT ![a].exists = TRUE]
    /\ login' = [login EXCEPT ![a] = FlushedSession(a)]
    /\ GhostsKept /\ UNCHANGED <<profile, humanId, task, refresh>>

-----------------------------------------------------------------------------
(* createProfile, and the new profile of a link.                           *)

CreateProfile(r, a) ==
    /\ On(r, "rest") /\ login[a].live /\ login[a].pid = NoPid
    /\ task' = [task EXCEPT ![r] = [Free EXCEPT !.at = "name", !.a = a]]
    /\ GhostsKept /\ UNCHANGED <<account, profile, humanId, login, refresh>>

\* A number, then the document: the numbers need not be inserted in their order.
GenerateHumanId(r) ==
    /\ On(r, "name") /\ humanId + ends < MaxProfiles
    /\ humanId' = humanId + 1
    /\ task' = [task EXCEPT ![r].at = "insert", ![r].hid = humanId + 1]
    /\ GhostsKept /\ UNCHANGED <<account, profile, login, refresh>>

\* The social id of a profile is unique: a second insertion fails.
CreateNewProfileProcedure(r) ==
    LET t == task[r]
        p == Cardinality(Stored) + 1
        social == IF t.id # NoSocial THEN t.id ELSE IF t.a \in SocialIds THEN t.a ELSE NoSocial
    IN  /\ On(r, "insert")
        /\ social # NoSocial => \A q \in There : profile[q].social # social
        /\ profile' = [profile EXCEPT ![p] =
                          [hid |-> t.hid, social |-> social, due |-> TRUE, there |-> TRUE]]
        /\ task' = [task EXCEPT ![r].at = IF t.id = NoSocial THEN "account" ELSE "link",
                                ![r].p = p, ![r].new = TRUE, ![r].hid = 0]
        /\ GhostsKept /\ UNCHANGED <<account, humanId, login, refresh>>

\* Nothing is asked of the account: a pid that it has by now is overwritten.
UpdateAccountPid(r) ==
    LET t == task[r] IN
    /\ On(r, "account")
    /\ account' = [account EXCEPT ![t.a].pid = t.p]
    /\ own' = [a \in Natives |-> IF a # t.a THEN own[a]
                                 ELSE IF account[a].pid = NoPid THEN t.p ELSE Overwritten]
    /\ Step(r, "unset")
    /\ UNCHANGED <<networkOf, ends, profile, humanId, login, refresh, raced>>

\* By the number that was generated: a profile that was there before the link keeps
\* its mark.  An update of a profile that is gone finds nothing.
RemoveTtlIndex(r) ==
    LET t == task[r] IN
    /\ On(r, "unset")
    /\ profile' = [profile EXCEPT ![t.p].due = FALSE]
    /\ IF t.id = NoSocial THEN Step(r, "flush") ELSE Finish(r)
    /\ GhostsKept /\ UNCHANGED <<account, humanId, login, refresh>>

FlushNewProfile(r) ==
    LET t == task[r] IN
    /\ On(r, "flush")
    /\ login' = IF login[t.a].live
                THEN [login EXCEPT ![t.a].pid = t.p]
                ELSE login
    /\ Finish(r)
    /\ GhostsKept /\ UNCHANGED <<account, profile, humanId, refresh>>

-----------------------------------------------------------------------------
(* Links.  The three networks have a copy each of the same steps.          *)

\* What has...Profile answers, and what checkProfilePresence asks for.
HasVkProfile(id) == networkOf[id] = "vk" /\ \E p \in There : profile[p].social = id
HasOkProfile(id) == networkOf[id] = "ok" /\ \E p \in There : profile[p].social = id
HasFbProfile(id) == networkOf[id] = "fb" /\ \E p \in There : profile[p].social = id
HasProfile(id) == HasVkProfile(id) \/ HasOkProfile(id) \/ HasFbProfile(id)

\* The account must be a native one with a profile that is not linked yet.
GetAndCheckAccount(r, a, id) ==
    /\ On(r, "rest") /\ login[a].live
    /\ account[a].exists /\ account[a].social = NoSocial
    /\ Cardinality(NamedBy(a)) = 1
    /\ \E bi \in BOOLEAN :
         task' = [task EXCEPT ![r] = [Free EXCEPT !.at = "look", !.a = a, !.id = id,
                                                  !.bi = bi, !.old = account[a].pid]]
    /\ GhostsKept /\ UNCHANGED <<account, profile, humanId, login, refresh>>

\* The profile of the social id: there must be none to make the account one with two
\* logins; else it is marked for removal, until it is linked, and taken.
GetAndCheckProfile(r) ==
    LET found == {p \in There : profile[p].social = task[r].id} IN
    /\ On(r, "look")
    /\ IF task[r].bi
       THEN ~HasProfile(task[r].id) /\ Step(r, "destroy") /\ UNCHANGED profile
       ELSE /\ task' = [task EXCEPT ![r].at = "destroy",
                                    ![r].p = CHOOSE p \in found \cup {NoPid} :
                                                found # {} => p \in found]
            /\ profile' = [p \in Pids |-> IF p \in found THEN [profile[p] EXCEPT !.due = TRUE]
                                                         ELSE profile[p]]
    /\ GhostsKept /\ UNCHANGED <<account, humanId, login, refresh>>

\* The session of the request, and the one that is indexed with the profile's hid:
\* a session of that profile is not until getProfile or createProfile did it.
DestroySessionBeforeLink(r) ==
    LET t == task[r]
        of == {b \in Accts : t.p # NoPid /\ login[b].pid = t.p}
    IN  /\ On(r, "destroy")
        /\ \E indexed \in SUBSET of :
             login' = [b \in Accts |-> IF b \in indexed \cup {t.a} THEN LoggedOut ELSE login[b]]
        /\ task' = [task EXCEPT ![r].bi = FALSE, ![r].at =
                       IF t.bi THEN "bilogin" ELSE IF t.p = NoPid THEN "name" ELSE "link"]
        /\ GhostsKept /\ UNCHANGED <<account, profile, humanId, refresh>>

DoLink(r) ==
    LET t == task[r] IN
    /\ On(r, "link")
    /\ account' = [account EXCEPT ![t.a].npid = t.old, ![t.a].pid = t.p]
    /\ IF t.new THEN Step(r, "unset") ELSE Finish(r)
    /\ GhostsKept /\ UNCHANGED <<profile, humanId, login, refresh>>

\* The social id of an account is unique as well.
MakeAccountToBiLogin(r) ==
    LET t == task[r] IN
    /\ On(r, "bilogin")
    /\ \A b \in Accts : account[b].exists /\ b # t.a => account[b].social # t.id
    /\ account' = [account EXCEPT ![t.a].social = t.id]
    /\ Step(r, "justlink")
    /\ GhostsKept /\ UNCHANGED <<profile, humanId, login, refresh>>

JustLinkCurrentProfile(r) ==
    LET t == task[r] IN
    /\ On(r, "justlink")
    /\ ~HasProfile(t.id)
    /\ profile' = IF t.old \in There THEN [profile EXCEPT ![t.old].social = t.id] ELSE profile
    /\ Finish(r)
    /\ GhostsKept /\ UNCHANGED <<account, humanId, login, refresh>>

LinkTo(r, network) == task[r].id \in SocialIds /\ networkOf[task[r].id] = network
LinkSteps(r) ==
    \/ GetAndCheckProfile(r) \/ DestroySessionBeforeLink(r)
    \/ DoLink(r) \/ MakeAccountToBiLogin(r) \/ JustLinkCurrentProfile(r)

LinkVkProfile(r, a, id) == networkOf[id] = "vk" /\ GetAndCheckAccount(r, a, id)
LinkOkProfile(r, a, id) == networkOf[id] = "ok" /\ GetAndCheckAccount(r, a, id)
LinkFbProfile(r, a, id) == networkOf[id] = "fb" /\ GetAndCheckAccount(r, a, id)
LinkVkSteps(r) == LinkTo(r, "vk") /\ LinkSteps(r)
LinkOkSteps(r) == LinkTo(r, "ok") /\ LinkSteps(r)
LinkFbSteps(r) == LinkTo(r, "fb") /\ LinkSteps(r)

-----------------------------------------------------------------------------
(* unlinkSocialProfile.                                                    *)

UnlinkSocialProfile(r, a) ==
    /\ On(r, "rest") /\ login[a].live
    /\ account[a].exists /\ account[a].social = NoSocial
    /\ account[a].pid # NoPid /\ account[a].npid # NoPid
    /\ task' = [task EXCEPT ![r] = [Free EXCEPT !.at = "leave", !.a = a, !.old = account[a].npid]]
    /\ GhostsKept /\ UNCHANGED <<account, profile, humanId, login, refresh>>

DestroySessionBeforeUnlink(r) ==
    /\ On(r, "leave")
    /\ login' = [login EXCEPT ![task[r].a] = LoggedOut]
    /\ Step(r, "unlink")
    /\ GhostsKept /\ UNCHANGED <<account, profile, humanId, refresh>>

DoUnlink(r) ==
    LET t == task[r] IN
    /\ On(r, "unlink")
    /\ account' = [account EXCEPT ![t.a].pid = t.old, ![t.a].npid = NoPid]
    /\ Finish(r)
    /\ GhostsKept /\ UNCHANGED <<profile, humanId, login, refresh>>

\* A request is refused, fails or dies with its process, wherever it is.
RequestEnds(r) ==
    /\ ~On(r, "rest") /\ humanId + ends < MaxProfiles
    /\ ends' = ends + 1
    /\ Finish(r)
    /\ UNCHANGED <<networkOf, own, raced, account, profile, humanId, login, refresh>>

-----------------------------------------------------------------------------
(* tryToRefreshUnlinkedProfiles, under a lock that keeps it to one process   *)
(* (a batch that outlives profilesRefreshPackageTimeout is left out).  A mark *)
(* is in seconds and compared with milliseconds, so that it is due at once.   *)
(* The batch holds every profile.                                             *)

\* The number of the oldest document: the last to be refreshed.
GetTheLatestHid == profile[CHOOSE p \in There : \A q \in There : p <= q].hid

NextPage ==
    /\ refresh.at = "rest" /\ There # {}
    /\ LET page == {p \in There : profile[p].due /\ profile[p].hid <= GetTheLatestHid} IN
       /\ page # {}
       /\ refresh' = [NoRefresh EXCEPT !.at = "linkage", !.page = page]
    /\ GhostsKept /\ UNCHANGED <<account, profile, humanId, login, task>>

\* With an account that has no npid and is not that of each profile of the page the
\* comparison throws, and the process ends: see RefresherDies.  A profile is only
\* taken for unlinked next to an account that was found.
GetLinkage ==
    LET found == {a \in Accts : NamedBy(a) \cap refresh.page # {}} IN
    /\ refresh.at = "linkage"
    /\ \A a \in found : account[a].npid = NoPid => refresh.page = {account[a].pid}
    /\ refresh' = [refresh EXCEPT !.at = "update", !.named = Named \cap refresh.page,
                      !.owned = IF found = {} THEN refresh.page ELSE Named \cap refresh.page]
    /\ GhostsKept /\ UNCHANGED <<account, profile, humanId, login, task>>

\* updateLinked: the mark of one of the linked profiles goes (findOneAndUpdate).
UpdateLinked ==
    LET marked == {p \in refresh.owned \cap Named : profile[p].there} IN
    IF marked = {} THEN {profile}
    ELSE {[profile EXCEPT ![p].due = FALSE] : p \in marked}

\* Mutant: the whole page is removed.
RemoveThePage ==
    /\ refresh.at = "update"
    /\ profile' = [p \in Pids |-> [profile[p] EXCEPT !.there = @ /\ p \notin refresh.page]]
    /\ refresh' = NoRefresh
    /\ GhostsKept /\ UNCHANGED <<account, humanId, login, task>>

RemoveWayBackUnlinked ==
    LET unlinked == refresh.page \ refresh.owned IN
    /\ refresh.at = "update"
    /\ \E updated \in UpdateLinked :
         profile' = [p \in Pids |-> [updated[p] EXCEPT !.there = @ /\ p \notin unlinked]]
    /\ raced' = raced \cup ((unlinked \ refresh.named)
                            \cap (Named \cup {task[r].p : r \in AccountRequests}))
    /\ refresh' = NoRefresh
    /\ UNCHANGED <<networkOf, ends, account, humanId, login, task, own>>

\* The process ends, or throws; the next one begins anew.
RefresherDies ==
    /\ refresh.at # "rest"
    /\ refresh' = NoRefresh
    /\ GhostsKept /\ UNCHANGED <<account, profile, humanId, login, task>>

AccountNext ==
    \/ \E r \in UNION {RequestsOf[networkOf[id]] : id \in SocialIds} :
        \/ \E a \in Accts :
              \/ CreateProfile(r, a) \/ UnlinkSocialProfile(r, a)
              \/ \E id \in SocialIds :
                    LinkVkProfile(r, a, id) \/ LinkOkProfile(r, a, id) \/ LinkFbProfile(r, a, id)
        \/ GenerateHumanId(r) \/ CreateNewProfileProcedure(r) \/ UpdateAccountPid(r)
        \/ RemoveTtlIndex(r) \/ FlushNewProfile(r)
        \/ LinkVkSteps(r) \/ LinkOkSteps(r) \/ LinkFbSteps(r)
        \/ DestroySessionBeforeUnlink(r) \/ DoUnlink(r) \/ RequestEnds(r)
    \/ \E who \in Accts : GetAccount(who)
    \/ NextPage \/ GetLinkage \/ RemoveWayBackUnlinked \/ RefresherDies

AccountSpec == AccountInit /\ [][AccountNext]_accountVars

-----------------------------------------------------------------------------
(* Properties.                                                             *)

\* Types of the variables.
AccountTypeOK ==
    /\ networkOf \in [SocialIds -> {"vk", "ok", "fb"}]
    /\ account \in [Accts -> [exists : BOOLEAN, pid : 0 .. MaxProfiles,
                              npid : 0 .. MaxProfiles, social : SocialIds \cup {NoSocial}]]
    /\ profile \in [Pids -> [hid : 0 .. MaxProfiles, social : SocialIds \cup {NoSocial},
                             due : BOOLEAN, there : BOOLEAN]]
    /\ humanId \in 0 .. MaxProfiles
    /\ login \in [Accts -> [live : BOOLEAN, pid : 0 .. MaxProfiles]]
    /\ refresh.page \subseteq Pids /\ refresh.owned \subseteq Pids /\ refresh.named \subseteq Pids
    /\ own \in [Natives -> 0 .. MaxProfiles \cup {Overwritten}]
    /\ raced \subseteq Pids

\* The profile that createProfile gave to a native account stays with it, as its pid
\* or its npid, through links and unlinks that cross and end half-way, and it is not
\* removed; except that a second createProfile of the account overwrites it, and that
\* a refresh removes a profile that comes to be linked after it looked.
ProfileIsKept ==
    \A a \in Natives : own[a] \in Pids =>
        own[a] \in NamedBy(a) /\ own[a] \in There \cup raced
=============================================================================
