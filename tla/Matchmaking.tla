----------------------------- MODULE Matchmaking -----------------------------
(***************************************************************************)
(* Matchmaking (features/matchmaking): players queue up, are paired, both  *)
(* accept, and get a booking for a place in a gameplay room.  All shared   *)
(* state is in Redis and every change to it is one script:                 *)
(*   qplr:<pid>       where a player is, with whom, and since when;        *)
(*   sq:<segment>     the players who search in a segment;                 *)
(*   grmb:<room>:<ky> a booking, under the key of the entry it is for;     *)
(*   grooms           how many places the rooms have.                      *)
(* Nothing expires by itself: the script refreshStats, with which each     *)
(* request begins, removes what is due, also of other players.             *)
(*                                                                         *)
(* A request is a chain of scripts, and the requests of all players        *)
(* interleave script by script, each with the time it read when it came.   *)
(* A poll (`search`, `wait`) that has nothing to say yet stays open: it is *)
(* in the registry longPollingConnections of its process until a message   *)
(* of the channel mm-pub, its timer or the closing of its socket ends it.  *)
(***************************************************************************)
EXTENDS Integers, Sequences, FiniteSets

CONSTANTS
    Players,
    NoOne,
    Segments,
    Asks,          \* what the r-th request may be: a player and a kind
    MaxRequests,   \* bound: requests
    MaxTime,       \* bound: the clock
    SearchTime,    \* timeForSearchMs
    AcceptTime,    \* timeForAcceptanceMs
    BookingTime,   \* gameroomBookingTtl
    RoomTime,      \* playerInGameroomTtl
    MaxFree,       \* bound: places in the room
    Parallel,      \* unanswered requests a player may have at a time
    KeepAlive,     \* sockets stay open after an answer
    MayFail        \* a command to Redis may end in an error

Polls == {"search", "wait"}
ToldByRefresh == {"search", "stop", "wait", "check"}
Unchecked == {"pick", "drop"}
Kinds == Polls \cup ToldByRefresh \cup Unchecked \cup {"accept", "decline", "refresh"}

ASSUME PlayersAssumption ==
    /\ NoOne \notin Players
    /\ Asks \in [1..MaxRequests -> SUBSET (Players \X Kinds)]
ASSUME SegmentsAssumption == Segments # {}
ASSUME TimesAssumption ==
    {SearchTime, AcceptTime, BookingTime, RoomTime, Parallel} \subseteq Nat \ {0}
ASSUME BoundsAssumption == {MaxRequests, MaxTime, MaxFree} \subseteq Nat
ASSUME SwitchesAssumption == {KeepAlive, MayFail} \subseteq BOOLEAN

VARIABLES
    clock,
    asked,     \* requests so far
    req,       \* the requests under way
    lp,        \* longPollingConnections: the registered poll of each player, or 0
    mail,      \* messages of mm-pub under way to the process, by player
    qplr,      \* qplr:<pid>
    sq,        \* sq:<segment>
    grmb,      \* grmb:<room>:<ky>, by key
    free,      \* the score of the best room in `grooms`
    torn       \* for the properties: a match was ended for one of its players only

vars == <<clock, asked, req, lp, mail, qplr, sq, grmb, free, torn>>

Requests == 1..MaxRequests

\* Values of `stat`.
Absent == -1
Searching == 0
Found == 1      \* an opponent: accept or decline
Accepted == 2   \* waits for the opponent to accept
Booked == 3     \* gameroom allocated
Playing == 4

NoEntry == [stat |-> Absent, opp |-> NoOne, opbot |-> FALSE, ky |-> 0, grip |-> FALSE,
            upd |-> 0, segm |-> CHOOSE s \in Segments : TRUE]
NoBooking == [pid |-> NoOne, opp |-> NoOne, opbot |-> FALSE, upd |-> 0]
NoRequest == [pid |-> NoOne, kind |-> "none", now |-> 0, at |-> "over",
              open |-> FALSE, timer |-> FALSE, ear |-> FALSE]

In(p) == qplr[p].stat # Absent
Live(k) == grmb[k].pid # NoOne

\* A pairing with another player, not with the profile of one played by a bot.
Human(e) == e.stat \in Found..Playing /\ ~e.opbot

Init ==
    /\ clock = 0 /\ asked = 0
    /\ req = [r \in Requests |-> NoRequest]
    /\ lp = [p \in Players |-> 0]
    /\ mail = [p \in Players |-> <<>>]
    /\ qplr = [p \in Players |-> NoEntry]
    /\ sq = [s \in Segments |-> {}]
    /\ grmb = [k \in 0..MaxRequests |-> NoBooking]
    /\ free \in 0..MaxFree
    /\ torn = FALSE

-----------------------------------------------------------------------------
(* The process: requests, answers, the registry.                           *)

\* A request is forgotten when its chain, its timer and its listener are gone.
Tidy(q) == IF q.at = "over" /\ ~q.timer /\ ~q.ear THEN NoRequest ELSE q
Goes(r, q) == req' = [req EXCEPT ![r] = Tidy(q)]
GoTo(r, where) == Goes(r, [req[r] EXCEPT !.at = where])

\* _callback of a poll: the answer, the timer off, and the registration of
\* the player deleted, whichever request it is of.
Sent(q) == [q EXCEPT !.open = FALSE, !.ear = @ /\ KeepAlive]
Called(q) == [Sent(q) EXCEPT !.timer = FALSE]
Unregister(p) == lp' = [lp EXCEPT ![p] = 0]

\* A request comes.  A poll is registered, sets its timer and listens for the
\* closing of its socket; when a poll is registered already it is refused by
\* its own _callback.
Refused(p) ==
    /\ Unregister(p)
    /\ UNCHANGED req
Registered(r, p, q) ==
    /\ lp' = [lp EXCEPT ![p] = r]
    /\ Goes(r, [q EXCEPT !.timer = TRUE, !.ear = TRUE])
Pending(p) == {r \in Requests : req[r].pid = p /\ req[r].open}

Ask(p, kind) ==
    LET r == asked + 1
        q == [pid |-> p, kind |-> kind, now |-> clock, at |-> "refresh",
              open |-> TRUE, timer |-> FALSE, ear |-> FALSE]
    IN /\ r \in Requests /\ <<p, kind>> \in Asks[r]
       /\ Cardinality(Pending(p)) < Parallel
       /\ asked' = r
       /\ \/ kind \in Polls /\ lp[p] # 0 /\ Refused(p)
          \/ kind \in Polls /\ lp[p] = 0 /\ Registered(r, p, q)
          \/ kind \notin Polls /\ Goes(r, q) /\ UNCHANGED lp
       /\ UNCHANGED <<clock, mail, qplr, sq, grmb, free, torn>>

\* The reply that ends a chain arrives.
Answer(r) ==
    /\ req[r].at = "answer"
    /\ Goes(r, [Called(req[r]) EXCEPT !.at = "over"])
    /\ IF req[r].kind \in Polls THEN Unregister(req[r].pid) ELSE UNCHANGED lp
    /\ UNCHANGED <<clock, asked, mail, qplr, sq, grmb, free, torn>>

\* A command fails with an error that is answered at once.
CommandFails(r) ==
    /\ MayFail
    /\ req[r].at \in {"check", "op"}
    /\ GoTo(r, "answer")
    /\ UNCHANGED <<clock, asked, lp, mail, qplr, sq, grmb, free, torn>>

\* The cold response: the timer of a poll.
ColdResponse(r) ==
    /\ req[r].timer
    /\ Unregister(req[r].pid)
    /\ Goes(r, [Called(req[r]) EXCEPT !.ear = FALSE, !.at = IF @ = "wait" THEN "over" ELSE @])
    /\ UNCHANGED <<clock, asked, mail, qplr, sq, grmb, free, torn>>

\* The socket of a poll closes, before its answer or, kept alive, long after.
Close(r) ==
    /\ req[r].ear
    /\ Unregister(req[r].pid)
    /\ Goes(r, [Called(req[r]) EXCEPT !.ear = FALSE, !.at = IF @ = "wait" THEN "over" ELSE @])
    /\ UNCHANGED <<clock, asked, mail, qplr, sq, grmb, free, torn>>

\* opHandleMessage: '1' to '4' answer the registered poll and take it away as
\* its onClose does; '5' answers it and leaves its timer and listener behind.
Deliver(p) ==
    LET r == lp[p]
        q == IF Head(mail[p]) = 5
             THEN Sent(req[r])
             ELSE [Called(req[r]) EXCEPT !.ear = FALSE]
    IN /\ mail[p] # <<>>
       /\ mail' = [mail EXCEPT ![p] = Tail(@)]
       /\ \/ r = 0 /\ UNCHANGED <<lp, req>>
          \/ /\ r # 0
             /\ Unregister(p)
             /\ Goes(r, IF req[r].open
                        THEN [q EXCEPT !.at = IF @ = "wait" THEN "over" ELSE @]
                        ELSE req[r])
       /\ UNCHANGED <<clock, asked, qplr, sq, grmb, free, torn>>

-----------------------------------------------------------------------------
(* refreshStats.                                                           *)

Shared == [qplr |-> qplr, sq |-> sq, grmb |-> grmb, gone |-> <<>>]

\* Mutant: the bookings stay behind.
WithoutEntries(s, entries, keys, told) ==
    [s EXCEPT !.qplr = [p \in Players |-> IF p \in entries THEN NoEntry ELSE @[p]],
              !.gone = @ \o told]

\* Removes the entries of some players and some bookings; `told` are the
\* players who are told.  Key 0 stands for a key that is missing.
Without(s, entries, keys, told) ==
    [s EXCEPT !.qplr = [p \in Players |-> IF p \in entries THEN NoEntry ELSE @[p]],
              !.grmb = [k \in DOMAIN grmb |-> IF k \in keys THEN NoBooking ELSE @[k]],
              !.gone = @ \o told]

Stale(b, now) == b.pid # NoOne /\ b.upd + BookingTime <= now

\* A booked player is looked at, a playing one when his room was silent.
Examined(e, now) == e.stat = Booked \/ (e.stat = Playing /\ e.upd + RoomTime <= now)

\* The script stops with an error: the name of the booking cannot be built.
Breaks(s, p, now) == Examined(s.qplr[p], now) /\ (~s.qplr[p].grip \/ s.qplr[p].ky = 0)

\* Mutant: the opponent's entry stays.
OnlySelf(p, e) == {p}

\* Who loses his entry together with p.
Both(p, e) == IF e.opbot THEN {p} ELSE {p, e.opp}

\* What process_key does with the entry of p.
ProcessKey(s, p, now) ==
    LET e == s.qplr[p]
        both == Both(p, e)
        told == IF e.opbot THEN <<p>> ELSE <<e.opp, p>>
        theirs == IF e.opbot THEN 0 ELSE s.qplr[e.opp].ky
    IN CASE e.stat = Searching /\ e.upd + SearchTime <= now ->
              [Without(s, {p}, {}, <<p>>) EXCEPT !.sq[e.segm] = @ \ {p}]
         [] e.stat \in {Found, Accepted} /\ e.upd + AcceptTime <= now ->
              Without(s, both, {}, told)
         [] Examined(e, now) /\ Stale(s.grmb[e.ky], now) ->
              Without(s, both, {e.ky, theirs}, told)
         [] Examined(e, now) /\ s.grmb[e.ky].pid = NoOne ->
              Without(s, both, IF Stale(s.grmb[theirs], now) THEN {theirs} ELSE {}, told)
         [] OTHER -> s

\* The whole script: the caller's entry, then at most one other one that the
\* scan comes across, then the messages to all who lost their entry.
Publish(told, what, boxes) ==
    [p \in Players |-> boxes[p] \o [i \in 1..Cardinality({j \in DOMAIN told : told[j] = p}) |-> what]]
Tell(p, what) == mail' = Publish(<<p>>, what, mail)

AfterRefresh(r) ==
    IF req[r].kind = "refresh" THEN "answer"
    ELSE IF req[r].kind \in Unchecked THEN "op" ELSE "check"

Becomes(s) == qplr' = s.qplr /\ sq' = s.sq /\ grmb' = s.grmb

Refresh(r) ==
    LET p == req[r].pid
        now == req[r].now
        own == ProcessKey(Shared, p, now)
        hit == own.gone # <<>>
        Done(s) ==
            /\ Becomes(s)
            /\ mail' = [Publish(s.gone, 5, mail) EXCEPT ![p] = mail[p]]
            /\ GoTo(r, IF hit /\ req[r].kind \in ToldByRefresh THEN "answer" ELSE AfterRefresh(r))
        Broken(s) == Becomes(s) /\ GoTo(r, AfterRefresh(r)) /\ UNCHANGED mail
    IN /\ req[r].at = "refresh"
       /\ \/ Breaks(Shared, p, now) /\ Broken(Shared)
          \/ /\ ~Breaks(Shared, p, now)
             /\ \/ Done(own)
                \/ \E o \in Players :
                      /\ own.qplr[o].stat # Absent
                      /\ IF Breaks(own, o, now)
                         THEN Broken(own)
                         ELSE Done(ProcessKey(own, o, now))
       /\ UNCHANGED <<clock, asked, lp, free, torn>>

\* An error of refreshStats is logged and the request goes on.
RefreshFails(r) ==
    /\ MayFail
    /\ req[r].at = "refresh"
    /\ GoTo(r, AfterRefresh(r))
    /\ UNCHANGED <<clock, asked, lp, mail, qplr, sq, grmb, free, torn>>

-----------------------------------------------------------------------------
(* checkInQueue.                                                           *)

\* The entry is good for the player at the time of his request.
Fresh(e, now) ==
    CASE e.stat = Searching -> e.upd + SearchTime > now
      [] e.stat \in {Found, Accepted} -> e.upd + AcceptTime > now
      [] e.stat = Booked -> e.upd + BookingTime > now /\ ~Stale(grmb[e.ky], now) /\ Live(e.ky)
      [] e.stat = Playing -> e.upd + RoomTime > now /\ Live(e.ky) /\ grmb[e.ky].upd + RoomTime > now
      [] OTHER -> FALSE

\* clear_stuff: of an entry with a booking, both are deleted.
Clear(p) ==
    IF qplr[p].ky # 0 /\ qplr[p].grip
    THEN /\ qplr' = [qplr EXCEPT ![p] = NoEntry]
         /\ grmb' = [grmb EXCEPT ![qplr[p].ky] = NoBooking]
         /\ torn' = (torn \/ Human(qplr[p]))
    ELSE UNCHANGED <<qplr, grmb, torn>>

\* What a request does next, given the stat it was told (Absent: nil).
GoesOnWith(kind) ==
    CASE kind = "search" -> {Absent}
      [] kind = "stop" -> {Searching}
      [] kind \in {"accept", "decline"} -> {Found}
      [] OTHER -> {}
StaysOpenWith(kind) ==
    CASE kind = "search" -> {Searching}
      [] kind = "wait" -> {Accepted}
      [] OTHER -> {}

\* The poll stays as it is; its chain is over if it was answered meanwhile.
Parked(q) == IF q.open THEN "wait" ELSE "over"

\* A playing entry without a booking's name makes the script stop with an error.
Nameless(e, now) ==
    e.stat = Playing /\ e.upd + RoomTime > now /\ (~e.grip \/ e.ky = 0)

CheckInQueue(r) ==
    LET e == qplr[req[r].pid]
        kind == req[r].kind
        fresh == Fresh(e, req[r].now)
        stat == IF fresh THEN e.stat ELSE Absent
    IN /\ req[r].at = "check"
       /\ IF fresh THEN UNCHANGED <<qplr, grmb, torn>> ELSE Clear(req[r].pid)
       /\ GoTo(r, IF Nameless(e, req[r].now) THEN "answer"
                  ELSE IF stat \in GoesOnWith(kind) THEN "op"
                  ELSE IF stat \in StaysOpenWith(kind) THEN Parked(req[r])
                  ELSE "answer")
       /\ UNCHANGED <<clock, asked, lp, mail, sq, free>>

-----------------------------------------------------------------------------
(* The last script of a chain.  Each ends with the reply under way, but a  *)
(* search that put the player into the queue stays open.                   *)

Op(r, kind) == req[r].at = "op" /\ req[r].kind = kind
Ends(r) == GoTo(r, "answer") /\ UNCHANGED <<clock, asked, lp>>

\* Mutant: the score of the room is not looked at.
PlaceAlways == FALSE

NoPlace == free < 1

\* searchForOpponent, searchForOpponentCustomRanges.  Of the queue it looks at
\* those in its limits (`seen`), removes the ones who search no more, and
\* takes the nearest of the others.  Which are within the limits is left open.
SearchRefused(r) ==
    /\ Op(r, "search")
    /\ NoPlace \/ In(req[r].pid)
    /\ Ends(r)
    /\ UNCHANGED <<mail, qplr, sq, grmb, free, torn>>

\* Mutant: names of players who are gone stay in the queue.
NoneGone(seen) == {}

\* Mutant: the comparison is the wrong way round.
GoneInverted(seen) == {c \in seen : qplr[c].stat = Searching}

Gone(seen) == {c \in seen : qplr[c].stat # Searching}
Late(seen, now) == {c \in seen \ Gone(seen) : qplr[c].upd + SearchTime < now}

PairWith(r, s, seen, c) ==
    LET p == req[r].pid
        now == req[r].now
        mine == [NoEntry EXCEPT !.stat = Found, !.opp = c, !.ky = r, !.upd = now, !.segm = s]
    IN /\ qplr' = [x \in Players |->
                     IF x = p THEN mine
                     ELSE IF x = c THEN [qplr[c] EXCEPT !.stat = Found, !.opp = p, !.upd = now, !.segm = s]
                     ELSE IF x \in Late(seen, now) THEN NoEntry ELSE qplr[x]]
       /\ sq' = [sq EXCEPT ![s] = @ \ (Gone(seen) \cup Late(seen, now) \cup {p, c})]
       /\ Tell(c, 1)
       /\ Ends(r)

QueueUp(r, s, seen) ==
    LET p == req[r].pid
        now == req[r].now
        mine == [NoEntry EXCEPT !.stat = Searching, !.ky = r, !.upd = now, !.segm = s]
    IN /\ qplr' = [x \in Players |->
                     IF x = p THEN mine
                     ELSE IF x \in Late(seen, now) THEN NoEntry ELSE qplr[x]]
       /\ sq' = [sq EXCEPT ![s] = (@ \ (Gone(seen) \cup Late(seen, now))) \cup {p}]
       /\ GoTo(r, Parked(req[r]))
       /\ UNCHANGED <<clock, asked, lp, mail>>

SearchForOpponent(r) ==
    /\ Op(r, "search")
    /\ ~NoPlace /\ ~In(req[r].pid)
    /\ \E s \in Segments : \E seen \in SUBSET sq[s] :
          LET good == seen \ (Gone(seen) \cup Late(seen, req[r].now) \cup {req[r].pid})
          IN \/ \E c \in good : PairWith(r, s, seen, c)
             \/ QueueUp(r, s, seen)
    /\ UNCHANGED <<grmb, free, torn>>

StopSearching(r) ==
    LET p == req[r].pid
    IN /\ Op(r, "stop")
       /\ \/ /\ qplr[p].stat = Searching /\ qplr[p].upd + SearchTime > req[r].now
             /\ qplr' = [qplr EXCEPT ![p] = NoEntry]
             /\ sq' = [sq EXCEPT ![qplr[p].segm] = @ \ {p}]
          \/ /\ ~(qplr[p].stat = Searching /\ qplr[p].upd + SearchTime > req[r].now)
             /\ UNCHANGED <<qplr, sq>>
       /\ Ends(r)
       /\ UNCHANGED <<mail, grmb, free, torn>>

\* playerFoundBotOpponent: a bot will play the profile of a player of choice.
PickOpponent(r) ==
    LET p == req[r].pid
    IN /\ Op(r, "pick")
       /\ \/ (NoPlace \/ In(p)) /\ UNCHANGED qplr
          \/ /\ ~NoPlace /\ ~In(p)
             /\ \E o \in Players :
                   qplr' = [qplr EXCEPT ![p] = [NoEntry EXCEPT !.stat = Found, !.opp = o,
                                                  !.opbot = TRUE, !.ky = r, !.upd = req[r].now]]
       /\ Ends(r)
       /\ UNCHANGED <<mail, sq, grmb, free, torn>>

\* dropAllMatchmakingData: the player's own entry and booking only.
Drop(r) ==
    LET p == req[r].pid
        e == qplr[p]
    IN /\ Op(r, "drop")
       /\ qplr' = [qplr EXCEPT ![p] = NoEntry]
       /\ grmb' = IF e.ky # 0 /\ e.grip THEN [grmb EXCEPT ![e.ky] = NoBooking] ELSE grmb
       /\ torn' = (torn \/ Human(e))
       /\ Ends(r)
       /\ UNCHANGED <<mail, sq, free>>

-----------------------------------------------------------------------------
(* acceptMatch and declineMatch.                                           *)

\* The stat is 1 and in time; with any other the script changes nothing.
MayDecide(r) == qplr[req[r].pid].stat = Found /\ qplr[req[r].pid].upd + AcceptTime > req[r].now

Booking(p, now) == [pid |-> p, opp |-> qplr[p].opp, opbot |-> qplr[p].opbot, upd |-> now]
Placed(p, now) == [qplr[p] EXCEPT !.stat = Booked, !.grip = TRUE, !.upd = now]

\* With a bot: a booking at once.  Without a place the entry of the player
\* whose profile the bot plays is deleted too.
AcceptBot(r, p) ==
    LET now == req[r].now
        o == qplr[p].opp
    IN /\ qplr[p].opbot
       /\ \/ /\ NoPlace
             /\ qplr' = [x \in Players |-> IF x \in {p, o} THEN NoEntry ELSE qplr[x]]
             /\ torn' = (torn \/ (o # p /\ qplr[o].stat \in Found..Playing))
             /\ UNCHANGED <<grmb, free>>
          \/ /\ ~NoPlace
             /\ grmb' = [grmb EXCEPT ![qplr[p].ky] = Booking(p, now)]
             /\ qplr' = [qplr EXCEPT ![p] = Placed(p, now)]
             /\ free' = free - 1
             /\ UNCHANGED torn
       /\ UNCHANGED mail

\* With a player who has not accepted: wait for him.
AcceptFirst(p) ==
    /\ ~qplr[p].opbot /\ qplr[qplr[p].opp].stat = Found
    /\ qplr' = [qplr EXCEPT ![p].stat = Accepted]
    /\ UNCHANGED <<grmb, free, mail, torn>>

\* With a player who has accepted: book both, or, without a place, end it.
BookBoth(p, o, now) ==
    /\ grmb' = [grmb EXCEPT ![qplr[p].ky] = [Booking(p, now) EXCEPT !.opp = o],
                            ![qplr[o].ky] = [Booking(o, now) EXCEPT !.opp = p]]
    /\ qplr' = [qplr EXCEPT ![p] = Placed(p, now), ![o] = Placed(o, now)]
    /\ free' = free - 1
    /\ Tell(o, 4)
AcceptSecond(r, p) ==
    LET o == qplr[p].opp
    IN /\ ~qplr[p].opbot /\ qplr[o].stat = Accepted
       /\ \/ ~NoPlace /\ BookBoth(p, o, req[r].now)
          \/ /\ NoPlace
             /\ qplr' = [x \in Players |-> IF x \in {p, o} THEN NoEntry ELSE qplr[x]]
             /\ Tell(o, 3)
             /\ UNCHANGED <<grmb, free>>
       /\ UNCHANGED torn

AcceptNothing(r, p) ==
    /\ MayDecide(r) => ~qplr[p].opbot /\ qplr[qplr[p].opp].stat \notin {Found, Accepted}
    /\ UNCHANGED <<qplr, grmb, free, mail, torn>>

Accept(r) ==
    LET p == req[r].pid
    IN /\ Op(r, "accept")
       /\ \/ MayDecide(r) /\ AcceptBot(r, p)
          \/ MayDecide(r) /\ AcceptFirst(p)
          \/ MayDecide(r) /\ AcceptSecond(r, p)
          \/ AcceptNothing(r, p)
       /\ Ends(r)
       /\ UNCHANGED sq

Decline(r) ==
    LET p == req[r].pid
        o == qplr[p].opp
    IN /\ Op(r, "decline")
       /\ \/ ~MayDecide(r) /\ UNCHANGED <<qplr, mail>>
          \/ /\ MayDecide(r) /\ qplr[p].opbot
             /\ qplr' = [qplr EXCEPT ![p] = NoEntry]
             /\ UNCHANGED mail
          \/ /\ MayDecide(r) /\ ~qplr[p].opbot
             /\ qplr' = [x \in Players |-> IF x \in {p, o} THEN NoEntry ELSE qplr[x]]
             /\ Tell(o, 2)
       /\ Ends(r)
       /\ UNCHANGED <<sq, grmb, free, torn>>

-----------------------------------------------------------------------------
(* The gameplay room, as far as it changes these keys, and the clock.      *)

\* checkGameplayRoomBooking: a player comes to the room with the key k.
EnterRoom(k) ==
    /\ Live(k) /\ ~Stale(grmb[k], clock)
    /\ qplr' = [qplr EXCEPT ![grmb[k].pid].stat = Playing, ![grmb[k].pid].upd = clock]
    /\ UNCHANGED <<clock, asked, req, lp, mail, sq, grmb, free, torn>>

\* updatePlayerIsInGameroom: the room hears of a player.
StayInRoom(p) ==
    /\ qplr[p].stat = Playing /\ qplr[p].upd + RoomTime >= clock /\ qplr[p].ky # 0
    /\ qplr' = [qplr EXCEPT ![p].upd = clock]
    /\ UNCHANGED <<clock, asked, req, lp, mail, sq, grmb, free, torn>>

\* removeQplrAndGmrb: the battle is over for the players `who`.
Named(p) == qplr[p].ky # 0 /\ qplr[p].grip
BattleEnds(who) ==
    LET over == {p \in who : Named(p)}
    IN /\ qplr' = [p \in Players |-> IF p \in over THEN NoEntry ELSE qplr[p]]
       /\ grmb' = [k \in DOMAIN grmb |-> IF \E p \in over : qplr[p].ky = k THEN NoBooking ELSE grmb[k]]
       /\ torn' = (torn \/ \E p \in over : Human(qplr[p]) /\ qplr[p].opp \notin over)
       /\ UNCHANGED <<clock, asked, req, lp, mail, sq, free>>

\* It ends for both, or for one: his opponent is a bot or never came.
LeaveRoom(p) ==
    /\ qplr[p].stat = Playing
    /\ \/ BattleEnds({p})
       \/ qplr[p].opp # NoOne /\ BattleEnds({p, qplr[p].opp})

\* updateRoomOccupation, update_grooms: the room tells its places, or is gone.
SetOccupation ==
    /\ free' \in 0..MaxFree \ {free}
    /\ UNCHANGED <<clock, asked, req, lp, mail, qplr, sq, grmb, torn>>

Tick ==
    /\ clock < MaxTime
    /\ clock' = clock + 1
    /\ UNCHANGED <<asked, req, lp, mail, qplr, sq, grmb, free, torn>>

-----------------------------------------------------------------------------
Next ==
    \/ \E p \in Players, kind \in Kinds : Ask(p, kind)
    \/ \E p \in Players : Deliver(p) \/ StayInRoom(p) \/ LeaveRoom(p)
    \/ \E r \in Requests :
          \/ Answer(r) \/ CommandFails(r) \/ ColdResponse(r) \/ Close(r)
          \/ Refresh(r) \/ RefreshFails(r) \/ CheckInQueue(r)
          \/ SearchRefused(r) \/ SearchForOpponent(r) \/ StopSearching(r)
          \/ PickOpponent(r) \/ Drop(r) \/ Accept(r) \/ Decline(r)
          \/ EnterRoom(r)
    \/ SetOccupation
    \/ Tick

Spec == Init /\ [][Next]_vars

-----------------------------------------------------------------------------
(* Properties.                                                             *)

\* The variables hold values of their kinds; the clock, the number of requests
\* and the places stay within their bounds, so a booking is never made
\* without a place (acceptMatch compares and decrements in one script).
TypeOK ==
    /\ clock \in 0..MaxTime /\ asked \in 0..MaxRequests
    /\ req \in [Requests -> [pid : Players \cup {NoOne}, kind : Kinds \cup {"none"},
                             now : 0..MaxTime, at : {"refresh", "check", "op", "wait", "answer", "over"},
                             open : BOOLEAN, timer : BOOLEAN, ear : BOOLEAN]]
    /\ lp \in [Players -> 0..MaxRequests]
    /\ mail \in [Players -> Seq(1..5)]
    /\ qplr \in [Players -> [stat : Absent..Playing, opp : Players \cup {NoOne}, opbot : BOOLEAN,
                             ky : 0..MaxRequests, grip : BOOLEAN, upd : 0..MaxTime, segm : Segments]]
    /\ sq \in [Segments -> SUBSET Players]
    /\ grmb \in [0..MaxRequests -> [pid : Players \cup {NoOne}, opp : Players \cup {NoOne},
                                    opbot : BOOLEAN, upd : 0..MaxTime]]
    /\ free \in 0..MaxFree
    /\ torn \in BOOLEAN

\* A player whose entry says that he searches can be found in the queue of the
\* segment he searches in, whatever the scripts of other players remove there.
SearchingIsQueued ==
    \A p \in Players : qplr[p].stat = Searching => p \in sq[qplr[p].segm]

\* As long as no match was ended for one of its players only, two matched
\* players have each other as opponents, and neither is ahead of the other by
\* more than his own acceptance: found/found, one accepted, or both booked.
MutualPair ==
    ~torn => \A p \in Players :
        Human(qplr[p]) =>
            LET o == qplr[qplr[p].opp]
            IN /\ Human(o) /\ o.opp = p
               /\ qplr[p].stat = Found => o.stat \in {Found, Accepted}
               /\ qplr[p].stat = Accepted => o.stat = Found
               /\ qplr[p].stat \in {Booked, Playing} => o.stat \in {Booked, Playing}

\* As long as no match was ended for one of its players only, a booking is the
\* one that its player's entry names: no booking outlives its match, and a
\* player has no two places.
BookingIsNamed ==
    ~torn => \A k \in Requests :
        Live(k) => LET e == qplr[grmb[k].pid]
                   IN e.stat \in {Booked, Playing} /\ e.ky = k /\ e.grip /\ e.opp = grmb[k].opp

\* The search of one player makes a match only with a player who searches at
\* that moment: nobody is taken out of a match, out of a battle or from
\* outside the queue, although the queue keeps names of players who are gone.
NobodyIsTaken ==
    [][\A p \in Players :
          Human(qplr'[p]) /\ qplr'[p].stat = Found /\ qplr'[p] # qplr[p]
              => qplr[p].stat \in {Absent, Searching}
                 /\ (qplr[p].stat = Absent => \E r \in Requests : Op(r, "search") /\ req[r].pid = p)]_vars

\* A place is booked for two players only if each is the other's opponent.
BookedTogether ==
    [][\A k \in Requests :
          grmb[k].pid = NoOne /\ grmb'[k].pid # NoOne /\ ~grmb'[k].opbot
              => qplr[grmb'[k].pid].opp = grmb'[k].opp]_vars

\* To the players all this is a matching in which both of a match get their places
\* at once and lose opponent and place together, up to the first match that is
\* ended for one of them only: the entries say who plays whom, the bookings who
\* has a place, and the scripts keep the two in step.
Opponent == [p \in Players |-> IF Human(qplr[p]) THEN qplr[p].opp ELSE NoOne]
WithPlace == {p \in Players : Human(qplr[p]) /\ \E k \in Requests : grmb[k].pid = p}
Service == INSTANCE MatchService WITH
    Clients <- Players, Nobody <- NoOne,
    opponent <- Opponent, placed <- WithPlace, broken <- torn
ServiceSpec == Service!Spec

\* A player has one poll that waits for messages, never two at a time.
OnePoll ==
    \A r, q \in Requests :
        /\ req[r].open /\ req[r].at = "wait"
        /\ req[q].open /\ req[q].at = "wait"
        /\ req[r].pid = req[q].pid
        => r = q
=============================================================================
