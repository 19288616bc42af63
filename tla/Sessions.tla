------------------------------ MODULE Sessions ------------------------------
(***************************************************************************)
(* The sessions of webMiddleware/sessionKeeper.js and its scripts, with the *)
(* order of requests (requesOrderValidation.js, hmacValidation.js), the     *)
(* index that keeps an account to one session, and the mark under which a   *)
(* cloud function runs.                                                     *)
(*                                                                         *)
(* The lock of a session (sexp) is not here: getUnicornSession lets a        *)
(* request pass while now < sexp + 15000, and that is as long as sexp        *)
(* lives, so that it keeps nobody out and requests of one session run at     *)
(* the same time.  The index by hid works like the one by aid.              *)
(***************************************************************************)
EXTENDS Integers, FiniteSets, Sequences

CONSTANTS
    Idents,        \* what a login is identified by: an id in a network, or a g-client
    IdentKind,     \* "vk", "ok", "fb" or "g"
    AidOf,         \* the account an identifier leads to
    Handlers,      \* HTTP requests at work
    MaxUnicorns,   \* bound: logins
    MaxOrder       \* bound: requests of a session

ASSUME SessionsAssumption ==
    /\ IdentKind \in [Idents -> {"vk", "ok", "fb", "g"}]
    /\ MaxUnicorns \in Nat /\ MaxOrder \in Nat

Unicorns == 1 .. MaxUnicorns
NoUnicorn == 0
Aids == {AidOf[i] : i \in Idents}
Platforms == {"webvk", "webok", "webfb", "mobile"}

VARIABLES
    sess,      \* sess:*; a hash that a late write made anew has no platform
    isess,     \* isess:<identifier>
    aidIndex,  \* sess_aid:* and, where it points to the session, unic_aid:*
    logins,    \* what each unicorn was given for
    handler,   \* the request that each handler works on
    ended,     \* ghost: sessions that were removed
    accepted   \* ghost: <<unicorn, order>> with how often it was accepted

sessionVars == <<sess, isess, aidIndex, logins, handler, ended, accepted>>

NoSess == [plat |-> "absent", rsq |-> 0, aid |-> FALSE, kill |-> FALSE]
Rest == [at |-> "rest", unicorn |-> NoUnicorn, order |-> 0]

SessionInit ==
    /\ sess = [u \in Unicorns |-> NoSess]
    /\ isess = [i \in Idents |-> NoUnicorn]
    /\ aidIndex = [a \in Aids |-> NoUnicorn]
    /\ logins = <<>>
    /\ handler = [h \in Handlers |-> Rest]
    /\ ended = {}
    /\ accepted = [u \in Unicorns |-> [o \in 0 .. MaxOrder |-> 0]]

Known(u) == sess[u].plat # "absent"        \* there is a key sess:<u>
Usable(u) == sess[u].plat \in Platforms
Aid(u) == AidOf[logins[u]]

Work(h, stage) == handler' = [handler EXCEPT ![h].at = stage]
Answer(h) == handler' = [handler EXCEPT ![h] = Rest]
Without(us) == [u \in Unicorns |-> IF u \in us THEN NoSess ELSE sess[u]]
End(us) == ended' = ended \cup {u \in us : Known(u)}

-----------------------------------------------------------------------------
(* Logins.  The identity is proved to a social network or by a secret; a   *)
(* login that fails, or that artificiallyLimitCCU refuses, changes nothing. *)

AddUnicornSession(h, i, plat) ==
    LET u == Len(logins) + 1 IN
    /\ handler[h].at = "rest"
    /\ Len(logins) < MaxUnicorns
    /\ sess' = [Without({isess[i]} \cap Unicorns) EXCEPT ![u] =
                   [plat |-> plat, rsq |-> 0, aid |-> FALSE, kill |-> FALSE]]
    /\ End({isess[i]} \cap Unicorns)
    /\ isess' = [isess EXCEPT ![i] = u]
    /\ logins' = Append(logins, i)
    /\ handler' = [handler EXCEPT ![h] = [at |-> "account", unicorn |-> u, order |-> 0]]
    /\ accepted' = [accepted EXCEPT ![u][0] = @ + 1]
    /\ UNCHANGED aidIndex

AddNewVkSession(h, i) == IdentKind[i] = "vk" /\ AddUnicornSession(h, i, "webvk")
AddNewFbSession(h, i) == IdentKind[i] = "fb" /\ AddUnicornSession(h, i, "webfb")
AddNewOkSession(h, i) == IdentKind[i] = "ok" /\ AddUnicornSession(h, i, "webok")
AddNewMobileOrStandaloneSession(h, i) == AddUnicornSession(h, i, "mobile")

-----------------------------------------------------------------------------
(* Requests of a session.                                                  *)

\* Mutant: the number of the request is read and not counted.
GetSessionUncounted(h, u) ==
    /\ handler[h].at = "rest" /\ Usable(u) /\ sess[u].rsq < MaxOrder
    /\ IF sess[u].kill
       THEN sess' = Without({u}) /\ End({u}) /\ UNCHANGED handler
       ELSE /\ handler' = [handler EXCEPT ![h] =
                              [at |-> "order", unicorn |-> u, order |-> sess[u].rsq + 1]]
            /\ UNCHANGED <<sess, ended>>
    /\ UNCHANGED <<isess, aidIndex, logins, accepted>>

\* The client's platform is that of the login.  A session with the mark is removed.
GetSession(h, u) ==
    /\ handler[h].at = "rest" /\ Usable(u) /\ sess[u].rsq < MaxOrder
    /\ IF sess[u].kill
       THEN sess' = Without({u}) /\ End({u}) /\ UNCHANGED handler
       ELSE /\ sess' = [sess EXCEPT ![u].rsq = @ + 1]
            /\ handler' = [handler EXCEPT ![h] =
                              [at |-> "order", unicorn |-> u, order |-> sess[u].rsq + 1]]
            /\ UNCHANGED ended
    /\ UNCHANGED <<isess, aidIndex, logins, accepted>>

\* The client's number is the one that the session was counted to, or the request
\* is refused; it may be a request for the account, a cloud function or another.
CheckCurrentRequest(h) ==
    LET u == handler[h].unicorn
        o == handler[h].order
    IN  /\ handler[h].at = "order"
        /\ \/ /\ accepted' = [accepted EXCEPT ![u][o] = @ + 1]
              /\ \E route \in {"account", "mark", "flush"} : Work(h, route)
           \/ Answer(h) /\ UNCHANGED accepted
        /\ UNCHANGED <<sess, isess, aidIndex, logins, ended>>

\* Mutant: the account's other session is forgotten and not removed.
IndexSessionWithAidOnly(h) ==
    LET u == handler[h].unicorn IN
    /\ handler[h].at = "account"
    /\ UNCHANGED <<sess, ended>>
    /\ aidIndex' = [aidIndex EXCEPT ![Aid(u)] = u]
    /\ Work(h, "flushAid")
    /\ UNCHANGED <<isess, logins, accepted>>

IndexSessionWithAid(h) ==
    LET u == handler[h].unicorn
        others == {aidIndex[Aid(u)]} \ {u, NoUnicorn}
    IN  /\ handler[h].at = "account"
        /\ sess' = Without(others) /\ End(others)
        /\ aidIndex' = [aidIndex EXCEPT ![Aid(u)] = u]
        /\ Work(h, "flushAid")
        /\ UNCHANGED <<isess, logins, accepted>>

\* Mutant: the whole session object is written back, its platform included.
FlushWholeSession(h) ==
    LET u == handler[h].unicorn IN
    /\ handler[h].at = "flushAid"
    /\ sess' = [sess EXCEPT ![u] = [@ EXCEPT !.plat = "mobile", !.aid = TRUE, !.kill = FALSE]]
    /\ Answer(h)
    /\ UNCHANGED <<isess, aidIndex, logins, ended, accepted>>

\* What a request changed in its session is written, to a new hash if the session
\* has been removed meanwhile; the mark goes.
FlushSessionDelta(h) ==
    LET u == handler[h].unicorn IN
    /\ handler[h].at = "flushAid"
    /\ sess' = [sess EXCEPT ![u].plat = IF Known(u) THEN @ ELSE "none",
                            ![u].aid = TRUE, ![u].kill = FALSE]
    /\ Answer(h)
    /\ UNCHANGED <<isess, aidIndex, logins, ended, accepted>>

\* justUnlockSession and flushSubsession.
JustUnlockSession(h) ==
    /\ handler[h].at = "flush"
    /\ sess' = [sess EXCEPT ![handler[h].unicorn].kill = FALSE]
    /\ Answer(h)
    /\ UNCHANGED <<isess, aidIndex, logins, ended, accepted>>

\* A cloud function runs under the mark: hset writes it to whatever is there.
MarkSessionToKill(h) ==
    LET u == handler[h].unicorn IN
    /\ handler[h].at = "mark"
    /\ sess' = [sess EXCEPT ![u].plat = IF Known(u) THEN @ ELSE "none", ![u].kill = TRUE]
    /\ \E outcome \in {"flush", "destroy"} : Work(h, outcome)
    /\ UNCHANGED <<isess, aidIndex, logins, ended, accepted>>

DestroySession(h) ==
    LET u == handler[h].unicorn IN
    /\ handler[h].at = "destroy"
    /\ sess' = Without({u}) /\ End({u})
    /\ aidIndex' = [a \in Aids |-> IF aidIndex[a] = u THEN NoUnicorn ELSE aidIndex[a]]
    /\ Answer(h)
    /\ UNCHANGED <<isess, logins, accepted>>

\* A request that a process leaves unfinished.
HandlerDies(h) ==
    /\ handler[h].at # "rest"
    /\ Answer(h)
    /\ UNCHANGED <<sess, isess, aidIndex, logins, ended, accepted>>

\* sessionLifetime after the last request; a hash made anew has no such time.
SessionExpires(u) ==
    /\ Usable(u)
    /\ sess' = Without({u}) /\ End({u})
    /\ aidIndex' = [a \in Aids |-> IF aidIndex[a] = u THEN NoUnicorn ELSE aidIndex[a]]
    /\ UNCHANGED <<isess, logins, handler, accepted>>

SessionNext ==
    \/ \E h \in Handlers :
        \/ \E i \in Idents :
              \/ AddNewVkSession(h, i) \/ AddNewFbSession(h, i) \/ AddNewOkSession(h, i)
              \/ AddNewMobileOrStandaloneSession(h, i)
        \/ \E u \in Unicorns : GetSession(h, u)
        \/ CheckCurrentRequest(h) \/ IndexSessionWithAid(h) \/ FlushSessionDelta(h)
        \/ JustUnlockSession(h) \/ MarkSessionToKill(h) \/ DestroySession(h)
        \/ HandlerDies(h)
    \/ \E u \in Unicorns : SessionExpires(u)

SessionSpec == SessionInit /\ [][SessionNext]_sessionVars

-----------------------------------------------------------------------------
(* Properties.                                                             *)

\* Types of the variables.
SessionTypeOK ==
    /\ sess \in [Unicorns -> [plat : Platforms \cup {"none", "absent"}, rsq : 0 .. MaxOrder,
                              aid : BOOLEAN, kill : BOOLEAN]]
    /\ isess \in [Idents -> Unicorns \cup {NoUnicorn}]
    /\ aidIndex \in [Aids -> Unicorns \cup {NoUnicorn}]
    /\ Len(logins) <= MaxUnicorns
    /\ ended \subseteq Unicorns

\* A session that was removed (by a new login, a failed function, its end) is never
\* let in again, though requests that it had running write to it afterwards.
EndedStaysEnded == \A u \in ended : ~Usable(u)

\* An account has one session at most that knows it and is let in, whichever
\* identifiers its logins came by and however their requests cross.
OneSessionPerAccount ==
    \A u, v \in Unicorns :
        Usable(u) /\ Usable(v) /\ sess[u].aid /\ sess[v].aid /\ Aid(u) = Aid(v) => u = v

\* Two requests of a session are never accepted under one number.
NoOrderTwice == \A u \in Unicorns, o \in 0 .. MaxOrder : accepted[u][o] <= 1
=============================================================================
