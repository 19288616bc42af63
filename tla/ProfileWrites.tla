----------------------------- MODULE ProfileWrites -----------------------------
(***************************************************************************)
(* Writers of one profile (profiles.js): setProfile, updateProfile and        *)
(* updateProfileJP write at once, getProfile and runCloudFunction let cloud    *)
(* functions read it, think and write what they made of it.  All do it under   *)
(* the resource lock of the profile's hid, which is taken from LeaseService:   *)
(* a lease may lapse under a slow holder, and nothing fences his write.        *)
(***************************************************************************)
EXTENDS Integers

CONSTANTS
    Writers,   \* requests at work, of the player and of others who name his hid
    MaxWrites  \* bound: writes

ASSUME ProfileWritesAssumption == MaxWrites \in Nat

VARIABLES
    node,      \* how many of the writes the profile reflects
    written,   \* ghost: how many were made
    holding, trusted,   \* the leases of LeaseService
    writer,    \* what each request is doing, and what it read
    caller,    \* the player's session: none, without hid, or with it
    unfenced   \* ghost: somebody wrote on a lease that he no longer had

writeVars == <<node, written, holding, trusted, writer, caller, unfenced>>

Lease == INSTANCE LeaseService WITH Holders <- Writers, Goods <- {"hid"}

Direct == {"set", "update", "jp"}
Away == [at |-> "rest", kind |-> "set", base |-> 0]

WriteInit ==
    /\ node = 0 /\ written = 0
    /\ Lease!Init
    /\ writer = [w \in Writers |-> Away]
    /\ caller = "bare"
    /\ unfenced = FALSE

Is(w, stage) == writer[w].at = stage
Goes(w, stage) == writer' = [writer EXCEPT ![w].at = stage]
Begin(w, stage, kind) ==
    Is(w, "rest") /\ writer' = [writer EXCEPT ![w] = [at |-> stage, kind |-> kind, base |-> 0]]
DataKept == UNCHANGED <<node, written, unfenced>>
LeaseKept == UNCHANGED <<holding, trusted>>

\* getAccount.
Login ==
    /\ caller' = "bare" /\ caller # "bare"
    /\ DataKept /\ LeaseKept /\ UNCHANGED writer

-----------------------------------------------------------------------------
(* The lock and its return, and a function that ends it all the same.      *)

\* Mutant: the hid is missing from the list of what is locked.
AcquireLockOfNothing(w) ==
    /\ Is(w, "lock") /\ holding[w] = {}
    /\ Lease!Take(w, {})
    /\ Goes(w, IF writer[w].kind \in Direct THEN "write" ELSE "read")
    /\ DataKept /\ UNCHANGED caller

\* opResourceLocker.getLock.
AcquireResourceLock(w) ==
    /\ Is(w, "lock") /\ holding[w] = {}
    /\ Lease!Take(w, {"hid"})
    /\ Goes(w, IF writer[w].kind \in Direct THEN "write" ELSE "read")
    /\ DataKept /\ UNCHANGED caller

ReturnResourcesLock(w) ==
    /\ Is(w, "return")
    /\ Lease!Lapse({w}, {w})
    /\ writer' = [writer EXCEPT ![w] = IF @.kind = "get" THEN [@ EXCEPT !.at = "flush"] ELSE Away]
    /\ DataKept /\ UNCHANGED caller

\* MAX_LOCK_TIME_MS, for the holder and then for the others.
LockRots(w) ==
    /\ \/ w \in trusted /\ Lease!Lapse({w}, {})
       \/ w \notin trusted /\ holding[w] # {} /\ Lease!Lapse({}, {w})
    /\ DataKept /\ UNCHANGED <<writer, caller>>

-----------------------------------------------------------------------------
(* Direct writes.                                                          *)

\* Without hid in the session the request is refused and the session is destroyed.
AskToWrite(w, kind) ==
    \/ caller = "full" /\ Begin(w, "lock", kind) /\ UNCHANGED caller
    \/ caller = "bare" /\ caller' = "none" /\ UNCHANGED writer

SetProfile(w) == AskToWrite(w, "set") /\ DataKept /\ LeaseKept
UpdateProfile(w) == AskToWrite(w, "update") /\ DataKept /\ LeaseKept
\* Here the hid is not asked for, but nobody gets the lock of no hid.
UpdateProfileJP(w) ==
    /\ caller = "full" /\ Begin(w, "lock", "jp")
    /\ DataKept /\ LeaseKept /\ UNCHANGED caller

Write(w, value) ==
    /\ written < MaxWrites
    /\ node' = value
    /\ written' = written + 1
    /\ unfenced' = (unfenced \/ w \notin trusted)
    /\ Goes(w, "return")

\* The whole of profileData is replaced.
DoSetProfile(w) ==
    Is(w, "write") /\ writer[w].kind = "set" /\ Write(w, written + 1)
                   /\ LeaseKept /\ UNCHANGED caller
\* Paths are set, or incremented, pushed to and pulled from, in what is there.
DoUpdateProfile(w) ==
    Is(w, "write") /\ writer[w].kind = "update" /\ Write(w, node + 1)
                   /\ LeaseKept /\ UNCHANGED caller
DoUpdateProfileJP(w) ==
    Is(w, "write") /\ writer[w].kind = "jp" /\ Write(w, node + 1)
                   /\ LeaseKept /\ UNCHANGED caller

-----------------------------------------------------------------------------
(* Functions.                                                              *)

\* The function is known, and the session has a profile and its hid, or is destroyed.
RunCloudFunction(w) ==
    /\ \/ caller = "full" /\ Begin(w, "lock", "function") /\ UNCHANGED caller
       \/ caller = "bare" /\ caller' = "none" /\ UNCHANGED writer
    /\ DataKept /\ LeaseKept

\* A function of another player takes the lock of this one as well.
RunCloudFunctionOfAnother(w) ==
    /\ Begin(w, "lock", "other")
    /\ DataKept /\ LeaseKept /\ UNCHANGED caller

\* mutateProfile and onGetProfile run before the profile is answered.
GetProfile(w) ==
    /\ caller # "none"
    /\ Begin(w, "lock", "get")
    /\ DataKept /\ LeaseKept /\ UNCHANGED caller

ReadNode(w) ==
    /\ Is(w, "read")
    /\ writer' = [writer EXCEPT ![w].at = "resolve", ![w].base = node]
    /\ DataKept /\ LeaseKept /\ UNCHANGED caller

\* The function wrote its nodes, made of what it had read, or it wrote none.
TryToMutateProfile(w) ==
    /\ Is(w, "resolve")
    /\ \/ Write(w, writer[w].base + 1)
       \/ Goes(w, "return") /\ DataKept
    /\ LeaseKept /\ UNCHANGED caller

\* indexSessionWithHid and the flush of a session that is still there.
FlushGottenProfile(w) ==
    /\ Is(w, "flush")
    /\ writer' = [writer EXCEPT ![w] = Away]
    /\ caller' = IF caller = "none" THEN caller ELSE "full"
    /\ DataKept /\ LeaseKept

\* A request that fails, or ends with its process, returns nothing; a function of
\* the player that fails destroys the session.
WriterFails(w) ==
    /\ ~Is(w, "rest")
    /\ writer' = [writer EXCEPT ![w] = Away]
    /\ caller' = IF writer[w].kind = "function" THEN "none" ELSE caller
    /\ Lease!Lapse({w}, {})
    /\ DataKept

WriteNext ==
    \/ Login
    \/ \E w \in Writers :
        \/ AcquireResourceLock(w) \/ ReturnResourcesLock(w) \/ LockRots(w)
        \/ SetProfile(w) \/ UpdateProfile(w) \/ UpdateProfileJP(w)
        \/ DoSetProfile(w) \/ DoUpdateProfile(w) \/ DoUpdateProfileJP(w)
        \/ RunCloudFunction(w) \/ RunCloudFunctionOfAnother(w) \/ GetProfile(w)
        \/ ReadNode(w) \/ TryToMutateProfile(w) \/ FlushGottenProfile(w) \/ WriterFails(w)

WriteSpec == WriteInit /\ [][WriteNext]_writeVars

-----------------------------------------------------------------------------
(* Properties.                                                             *)

\* Types of the variables.
WriteTypeOK ==
    /\ node \in 0 .. MaxWrites /\ written \in 0 .. MaxWrites
    /\ holding \in [Writers -> SUBSET {"hid"}] /\ trusted \subseteq Writers
    /\ writer \in [Writers -> [at : {"rest", "lock", "write", "read", "resolve", "return", "flush"},
                               kind : Direct \cup {"function", "other", "get"},
                               base : 0 .. MaxWrites]]
    /\ caller \in {"none", "bare", "full"}
    /\ unfenced \in BOOLEAN

\* No write is lost: unless somebody wrote on a lease that had lapsed, the profile
\* reflects every write that was made, of requests and of functions of any player.
NoWriteLost == unfenced \/ node = written
=============================================================================
