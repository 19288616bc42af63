------------------------------ MODULE GameRoom ------------------------------
(***************************************************************************)
(* The life of a pair in a realtime room (features/realtimePvp): players   *)
(* with a booking are placed, give their payloads, say that they are       *)
(* ready, play, and the pair ends: by a move that ends the game, by a       *)
(* surrender, by silence or because a player is placed elsewhere.  What     *)
(* happens to the messages of a playing pair is in RoomMessages.             *)
(*                                                                         *)
(* A booking key k belongs to player Of[k], who meets Foe[k].  The id of a  *)
(* pair is a hash of the key of the player who was placed first, so that a  *)
(* pair is named by that key here.                                          *)
(***************************************************************************)
EXTENDS Integers, FiniteSets

CONSTANTS
    Players,
    Keys,       \* booking keys
    Of,         \* whose key it is
    Foe,        \* whom its battle is against
    BotKeys,    \* keys of battles against a bot
    Battles,    \* sets of keys that were booked together
    Procs,      \* room processes, all subscribed to gr-pub
    Capacity,   \* pairsCapacity
    MaxAsks,    \* bound: requests in all, a booking counting as three
    None

ASSUME GameRoomAssumption ==
    /\ Of \in [Keys -> Players]
    /\ Foe \in [Keys -> Players]
    /\ BotKeys \subseteq Keys
    /\ Battles \subseteq SUBSET Keys
    /\ Capacity \in Nat
    /\ MaxAsks \in Nat
    /\ None \notin Keys

VARIABLES
    room,     \* the room's Redis: pair, pinx, pidnx, pgoto, quota, occupation
    entry,    \* the matchmaking's qplr and grmb: the key of each player
    booked,   \* battles that were booked
    req,      \* the HTTP request in flight for each key, under its hloc
    asks,     \* how much of MaxAsks is used up
    mail,     \* messages of gr-pub that each process has yet to handle
    closing,  \* pairs whose quota was redeemed, their handler still to run
    starts, ends   \* ghosts: per pair, battles begun and results handled

roomVars == <<room, entry, booked, req, asks, mail, closing, starts, ends>>

Pair == [stat : 0 .. 4, plda : BOOLEAN, pldb : BOOLEAN,
         rdya : BOOLEAN, rdyb : BOOLEAN,
         said : SUBSET {"a", "b"},            \* ghost: who said ready
         old : {"fresh", "idle", "long"}]     \* within its times or not

Room == [pair : [Keys -> Pair \cup {None}], pinx : [Keys -> Keys \cup {None}],
         pidnx : [Players -> Keys \cup {None}], pgoto : [Players -> Keys \cup {None}],
         quota : SUBSET Keys, occupation : Int]

Message == [what : {"dead", "auto", "over"}, who : SUBSET Players, pr : Keys \cup {None}]

Stages == {"idle", "releaseRefresh", "releaseEnter", "place", "payloadRefresh", "payload",
           "readyRefresh", "ready", "model", "abandon"}

Bot(pr) == pr \in BotKeys
Live(s) == {pr \in Keys : s.pair[pr] # None}
Side(k, pr) == IF Of[k] = Of[pr] THEN "a" ELSE "b"
NewPair(stat, bot) ==
    [stat |-> stat, plda |-> FALSE, pldb |-> bot, rdya |-> FALSE, rdyb |-> FALSE,
     said |-> {}, old |-> "fresh"]

Dead(p) == [what |-> "dead", who |-> {p}, pr |-> None]
AutoDefeat(pr) == [what |-> "auto", who |-> {Of[pr]} \cup {Foe[pr]}, pr |-> pr]
Over(pr) == [what |-> "over", pr |-> None,
             who |-> {Of[pr]} \cup (IF Bot(pr) THEN {} ELSE {Foe[pr]})]
Publish(ms) == mail' = [w \in Procs |-> mail[w] \cup ms]

Init ==
    /\ room = [pair |-> [k \in Keys |-> None], pinx |-> [k \in Keys |-> None],
               pidnx |-> [p \in Players |-> None], pgoto |-> [p \in Players |-> None],
               quota |-> {}, occupation |-> Capacity]
    /\ entry = [p \in Players |-> None]
    /\ booked = {}
    /\ req = [k \in Keys |-> "idle"]
    /\ asks = 0
    /\ mail = [w \in Procs |-> {}]
    /\ closing = {}
    /\ starts = [k \in Keys |-> 0]
    /\ ends = [k \in Keys |-> 0]

-----------------------------------------------------------------------------
(* The scripts, as operators on the room's Redis.                          *)

ClearPinx(s, ks) == [s EXCEPT !.pinx = [k \in Keys |-> IF k \in ks THEN None ELSE @[k]]]
ClearPidnx(s, ps) == [s EXCEPT !.pidnx = [p \in Players |-> IF p \in ps THEN None ELSE @[p]]]
ClearGoto(s, pr) ==
    [s EXCEPT !.pgoto = [p \in Players |->
        IF p \in {Of[pr], Foe[pr]} /\ @[p] = pr THEN None ELSE @[p]]]
KeysNow(s, ps) == {s.pidnx[p] : p \in ps} \ {None}
Members(pr) == IF Bot(pr) THEN {Of[pr]} ELSE {Of[pr], Foe[pr]}

\* Every way out of a pair takes away what its players are indexed by now,
\* whichever pair that is.
Unindex(s, ps) == ClearPidnx(ClearPinx(s, KeysNow(s, ps)), ps)
Unplace(s, pr) == Unindex([s EXCEPT !.pair[pr] = None], Members(pr))
\* The name of the key that a missing index should hold cannot be built and the
\* script fails there; what it did before stays done.
Lost(s, pr) == {p \in Members(pr) : s.pidnx[p] = None}

\* Mutant: whoever waits for the player will do.
PlaceByAnyGoto(s, k) ==
    LET pr == s.pgoto[Of[k]] IN
    IF s.pair[pr].stat = 0 /\ s.pair[pr].old = "fresh"
    THEN [s EXCEPT !.pgoto[Of[k]] = None, !.pair[pr].stat = 1,
                   !.pinx[k] = pr, !.pidnx[Of[k]] = k]
    ELSE s

PlaceByGoto(s, k) ==
    LET pr == s.pgoto[Of[k]] IN
    IF /\ s.pair[pr].stat = 0 /\ s.pair[pr].old = "fresh"
       /\ Of[pr] = Foe[k] /\ Foe[pr] = Of[k]
    THEN [s EXCEPT !.pgoto[Of[k]] = None, !.pair[pr].stat = 1,
                   !.pinx[k] = pr, !.pidnx[Of[k]] = k]
    ELSE s

PlaceAnew(s, k) ==
    LET former == {s.pinx[j] : j \in KeysNow(s, {Of[k], Foe[k]})}
        t == [s EXCEPT !.pair = [pr \in Keys |-> IF pr \in former THEN None ELSE @[pr]]]
    IN  IF t.pair[k] # None
        THEN t
        ELSE [t EXCEPT !.pair[k] = NewPair(IF Bot(k) THEN 1 ELSE 0, Bot(k)),
                       !.pinx[k] = k, !.pidnx[Of[k]] = k,
                       !.pgoto = [p \in Players |-> IF p = Foe[k] /\ ~Bot(k) THEN k ELSE @[p]],
                       !.occupation = @ - 1]

PlacePlayerInRoom(s, k) ==
    IF ~Bot(k) /\ s.pgoto[Of[k]] # None /\ s.pair[s.pgoto[Of[k]]] # None
    THEN PlaceByGoto(s, k)
    ELSE PlaceAnew(s, k)

SetPayloadIn(s, k) ==
    LET pr == s.pinx[k]
        mine == IF Side(k, pr) = "a" THEN s.pair[pr].plda ELSE s.pair[pr].pldb
        pair == IF Side(k, pr) = "a" THEN [s.pair[pr] EXCEPT !.plda = TRUE]
                                     ELSE [s.pair[pr] EXCEPT !.pldb = TRUE]
    IN  IF \/ pr = None \/ s.pair[pr] = None
           \/ s.pair[pr].stat \notin {0, 1} \/ s.pair[pr].old # "fresh"
           \/ mine /\ ~Bot(pr)
        THEN s
        ELSE [s EXCEPT !.pair[pr] =
                 IF pair.plda /\ pair.pldb THEN [pair EXCEPT !.stat = 2] ELSE pair]

\* Mutant: one's own payload is not asked for.
SetReadyInAnyway(s, k) ==
    LET pr == s.pinx[k]
        me == Side(k, pr)
        theirs == IF me = "a" THEN s.pair[pr].rdyb ELSE s.pair[pr].rdya
        said == [s EXCEPT !.pair[pr].said = @ \cup {me}]
    IN  IF pr = None \/ s.pair[pr] = None \/ s.pair[pr].stat \notin 0 .. 2
        THEN [s |-> s, then |-> "idle"]
        ELSE IF theirs \/ Bot(pr)
        THEN [s |-> [said EXCEPT !.pair[pr].stat = 3], then |-> "model"]
        ELSE [s |-> IF me = "a" THEN [said EXCEPT !.pair[pr].rdya = TRUE]
                                ELSE [said EXCEPT !.pair[pr].rdyb = TRUE],
              then |-> "idle"]

\* Whoever is ready last moves the pair to 3 and goes on to make the model; so
\* does anyone who says it again while the pair is at 3.
SetReadyIn(s, k) ==
    LET pr == s.pinx[k]
        pair == s.pair[pr]
        me == Side(k, pr)
        mine == IF me = "a" THEN pair.plda ELSE pair.pldb
        theirs == IF me = "a" THEN pair.rdyb ELSE pair.rdya
        said == [pair EXCEPT !.said = @ \cup {me}]
    IN  IF pr = None \/ pair = None
        THEN [s |-> s, then |-> "idle"]
        ELSE IF pair.stat = 3
        THEN [s |-> s, then |-> "model"]
        ELSE IF pair.stat = 4 \/ pair.old # "fresh" \/ (~Bot(pr) /\ ~mine)
        THEN [s |-> s, then |-> "idle"]
        ELSE IF theirs \/ Bot(pr)
        THEN [s |-> [s EXCEPT !.pair[pr] =
                        [said EXCEPT !.stat = 3, !.rdya = FALSE, !.rdyb = FALSE]],
              then |-> "model"]
        ELSE [s |-> [s EXCEPT !.pair[pr] = IF me = "a" THEN [said EXCEPT !.rdya = TRUE]
                                                       ELSE [said EXCEPT !.rdyb = TRUE]],
              then |-> "idle"]

CanStart(s, k) ==
    LET pr == s.pinx[k] IN
    pr # None /\ s.pair[pr] # None /\ s.pair[pr].stat = 3 /\ s.pair[pr].old = "fresh"

\* abandonPairGameplay and the end of completeQueueMessage: a, the pair, then b.
EndPair(s, pr, said, alsoB) ==
    LET t == ClearGoto(s, pr) IN
    IF Of[pr] \in Lost(s, pr)
    THEN [s |-> t, out |-> {}]
    ELSE IF Lost(s, pr) # {}
    THEN [s |-> Unindex([t EXCEPT !.pair[pr] = None], {Of[pr]}), out |-> said]
    ELSE [s |-> [Unplace(t, pr) EXCEPT !.occupation = @ + 1], out |-> said \cup alsoB]

AbandonPairGameplay(s, k) ==
    LET pr == s.pinx[k] IN
    IF pr = None \/ s.pair[pr] = None
    THEN [s |-> s, out |-> {}]
    ELSE EndPair(s, pr, {Dead(Of[pr])}, IF Bot(pr) THEN {} ELSE {Dead(Foe[pr])})

GameOverIn(s, pr) == EndPair(s, pr, {}, {Over(pr)})

\* Mutant: a surrender counts the place of a pair that is no more.
DoSurrenderAnyway(s, k) ==
    IF s.pinx[k] = None
    THEN [s |-> s, out |-> {}]
    ELSE [s |-> [Unplace(s, s.pinx[k]) EXCEPT !.occupation = @ + 1, !.quota = @ \cup {s.pinx[k]}],
          out |-> {AutoDefeat(s.pinx[k])}]

\* Mutant: the quota is named after the index that was just removed.
DoSurrenderUnindexed(s, k) ==
    LET pr == s.pinx[k]
        t == Unplace(s, pr)
    IN  IF pr = None \/ s.pair[pr] = None \/ s.pair[pr].stat # 4
        THEN [s |-> s, out |-> {}]
        ELSE [s |-> [t EXCEPT !.occupation = @ + 1, !.quota = @ \cup {t.pinx[k]}],
              out |-> {AutoDefeat(pr)}]

DoSurrender(s, k) ==
    LET pr == s.pinx[k] IN
    IF pr = None \/ s.pair[pr] = None \/ s.pair[pr].stat # 4
    THEN [s |-> s, out |-> {}]
    ELSE IF ~Bot(pr) /\ Foe[pr] \in Lost(s, pr)
    THEN [s |-> Unindex(s, {Of[pr]}), out |-> {}]
    ELSE [s |-> [Unplace(s, pr) EXCEPT !.occupation = @ + 1, !.quota = @ \cup {pr}],
          out |-> {AutoDefeat(pr)}]

-----------------------------------------------------------------------------
(* refreshStats.lua: the caller's own index, then at most one of what the  *)
(* four scans and the recount may do.                                      *)

ProcessPairIndex(s, k) ==
    LET pr == s.pinx[k]
        pair == s.pair[pr]
        t == ClearPinx(s, {k})
    IN  IF pr = None
        THEN [s |-> s, out |-> {}]
        ELSE IF pair = None
        THEN [s |-> t, out |-> {}]
        ELSE IF pair.old = "fresh"
        THEN [s |-> s, out |-> {}]
        ELSE IF pair.stat < 4
        THEN [s |-> Unplace(ClearGoto(t, pr), pr),
              out |-> {Dead(Of[pr]), Dead(Foe[pr])}]     \* the bot's namesake, too
        ELSE [s |-> [Unplace(t, pr) EXCEPT !.quota = @ \cup {pr}],
              out |-> {AutoDefeat(pr)} \cup
                      (IF Bot(pr) \/ pair.old = "long" THEN {} ELSE {Dead(Foe[pr])})]

\* A timed-out pair that some of its players has no way back to.
ProcessMlkPair(s, pr) ==
    LET ps == {Of[pr], Foe[pr]}
        astray == {p \in ps : s.pidnx[p] = None \/ s.pinx[s.pidnx[p]] # pr}
    IN  IF s.pair[pr] = None \/ s.pair[pr].old = "fresh" \/ astray = {}
        THEN s
        ELSE Unindex([s EXCEPT !.pair[pr] = None], ps)

PinxIsOkay(s, k) == s.pinx[k] # None /\ s.pair[s.pinx[k]] # None
ProcessMlkPinx(s, k) == IF PinxIsOkay(s, k) THEN s ELSE ClearPinx(s, {k})
ProcessMlkPidnx(s, p) ==
    IF s.pidnx[p] = None \/ PinxIsOkay(s, s.pidnx[p])
    THEN s
    ELSE ClearPidnx(ClearPinx(s, {s.pidnx[p]}), {p})

Recount(s) == [s EXCEPT !.occupation = Capacity - Cardinality(Live(s))]

\* Every outcome of one refreshStats for the key k (none: the heartbeat).
Refreshed(s, k) ==
    LET r == IF k = None THEN [s |-> s, out |-> {}] ELSE ProcessPairIndex(s, k)
        quiet(t) == [s |-> t, out |-> r.out]
    IN  {r, quiet(Recount(r.s))}
        \cup {[scan EXCEPT !.out = @ \cup r.out] : scan \in {ProcessPairIndex(r.s, j) : j \in Keys}}
        \cup {quiet(ProcessMlkPair(r.s, pr)) : pr \in Keys}
        \cup {quiet(ProcessMlkPidnx(r.s, p)) : p \in Players}
        \cup {quiet(ProcessMlkPinx(r.s, j)) : j \in Keys}

-----------------------------------------------------------------------------
(* Requests.                                                               *)

Become(k, stage) == req' = [req EXCEPT ![k] = stage]
Asked(k) == /\ req[k] = "idle" /\ asks < MaxAsks
            /\ asks' = asks + 1
InGame(k) == entry[Of[k]] = k

\* releaseBooking: the booking is found before the lock is taken.
ReleaseBooking(k) ==
    /\ Asked(k) /\ InGame(k)
    /\ Become(k, "releaseRefresh")
    /\ UNCHANGED <<room, entry, booked, mail, closing, starts, ends>>

\* setPayload and setReady: the lock knows the player by the key's index.
AskPayload(k) ==
    /\ Asked(k) /\ InGame(k) /\ room.pinx[k] # None
    /\ room.pidnx[Of[k]] # None
    /\ PinxIsOkay(room, room.pidnx[Of[k]])      \* getPlayerHumanId
    /\ Become(k, "payloadRefresh")
    /\ UNCHANGED <<room, entry, booked, mail, closing, starts, ends>>

AskReady(k) ==
    /\ Asked(k) /\ InGame(k) /\ room.pinx[k] # None
    /\ Become(k, "readyRefresh")
    /\ UNCHANGED <<room, entry, booked, mail, closing, starts, ends>>

DoRefreshStats(k, stage, next) ==
    /\ req[k] = stage
    /\ \E r \in Refreshed(room, k) : room' = r.s /\ Publish(r.out)
    /\ Become(k, next)
    /\ UNCHANGED <<entry, booked, asks, closing, starts, ends>>

RefreshForRelease(k) == DoRefreshStats(k, "releaseRefresh", "releaseEnter")
RefreshForPayload(k) == DoRefreshStats(k, "payloadRefresh", "payload")
RefreshForReady(k) == DoRefreshStats(k, "readyRefresh", "ready")

UpdatePlayerInGameroom(k) ==
    /\ req[k] = "releaseEnter"
    /\ Become(k, IF InGame(k) THEN "place" ELSE "idle")
    /\ UNCHANGED <<room, entry, booked, asks, mail, closing, starts, ends>>

PlaceInRoom(k) ==
    /\ req[k] = "place"
    /\ room' = PlacePlayerInRoom(room, k)
    /\ Become(k, "idle")
    /\ UNCHANGED <<entry, booked, asks, mail, closing, starts, ends>>

DoSetPayload(k) ==
    /\ req[k] = "payload"
    /\ room' = SetPayloadIn(room, k)
    /\ Become(k, "idle")
    /\ UNCHANGED <<entry, booked, asks, mail, closing, starts, ends>>

DoSetReady(k) ==
    /\ req[k] = "ready"
    /\ room' = SetReadyIn(room, k).s
    /\ Become(k, SetReadyIn(room, k).then)
    /\ UNCHANGED <<entry, booked, asks, mail, closing, starts, ends>>

\* pvpInitGameplayModel makes a model or none, or fails.
DoInitGameplayModel(k) ==
    /\ req[k] = "model"
    /\ \/ /\ CanStart(room, k)
          /\ room' = [room EXCEPT !.pair[room.pinx[k]].stat = 4]
          /\ starts' = [starts EXCEPT ![room.pinx[k]] = @ + 1]
          /\ Become(k, "idle")
       \/ /\ ~CanStart(room, k)
          /\ Become(k, "idle")
          /\ UNCHANGED <<room, starts>>
       \/ /\ Become(k, "abandon")
          /\ UNCHANGED <<room, starts>>
    /\ UNCHANGED <<entry, booked, asks, mail, closing, ends>>

AbandonPair(k) ==
    /\ req[k] = "abandon"
    /\ room' = AbandonPairGameplay(room, k).s
    /\ Publish(AbandonPairGameplay(room, k).out)
    /\ Become(k, "idle")
    /\ UNCHANGED <<entry, booked, asks, closing, starts, ends>>

\* Any call on the way may fail: the request is answered and forgotten.
OpError(k) ==
    /\ req[k] # "idle"
    /\ Become(k, "idle")
    /\ UNCHANGED <<room, entry, booked, asks, mail, closing, starts, ends>>

Surrender(k) ==
    /\ room.pinx[k] # None
    /\ DoSurrender(room, k).s # room
    /\ room' = DoSurrender(room, k).s
    /\ Publish(DoSurrender(room, k).out)
    /\ UNCHANGED <<entry, booked, req, asks, closing, starts, ends>>

\* The game-over branch of completeQueueMessage, and the handler of its caller.
GameOver(pr) ==
    /\ room.pair[pr] # None /\ room.pair[pr].stat = 4 /\ room.pair[pr].old = "fresh"
    /\ room' = GameOverIn(room, pr).s
    /\ Publish(GameOverIn(room, pr).out)
    /\ ends' = IF GameOverIn(room, pr).out = {} THEN ends ELSE [ends EXCEPT ![pr] = @ + 1]
    /\ UNCHANGED <<entry, booked, req, asks, closing, starts>>

-----------------------------------------------------------------------------
(* The heartbeat, the messages, and the world outside.                     *)

TheHeartbeat ==
    /\ \E r \in Refreshed(room, None) : r.s # room /\ room' = r.s /\ Publish(r.out)
    /\ UNCHANGED <<entry, booked, req, asks, closing, starts, ends>>

RemoveQplrAndGmrb(ps) == entry' = [p \in Players |-> IF p \in ps THEN None ELSE entry[p]]
Handled(w, m) == mail' = [mail EXCEPT ![w] = @ \ {m}]

HandleEnd(w) ==
    \E m \in mail[w] :
        /\ m.what \in {"dead", "over"}
        /\ Handled(w, m)
        /\ RemoveQplrAndGmrb(m.who)
        /\ UNCHANGED <<room, booked, req, asks, closing, starts, ends>>

\* Mutant: the quota is looked at and left where it is.
WriteAutoDefeatAgain(w) ==
    \E m \in mail[w] :
        /\ m.what = "auto"
        /\ Handled(w, m)
        /\ closing' = IF m.pr \in room.quota THEN closing \cup {<<w, m.pr>>} ELSE closing
        /\ UNCHANGED <<room, entry, booked, req, asks, starts, ends>>

WriteAutoDefeat(w) ==
    \E m \in mail[w] :
        /\ m.what = "auto"
        /\ Handled(w, m)
        /\ closing' = IF m.pr \in room.quota THEN closing \cup {<<w, m.pr>>} ELSE closing
        /\ room' = [room EXCEPT !.quota = @ \ {m.pr}]
        /\ UNCHANGED <<entry, booked, req, asks, starts, ends>>

\* pvpAutoCloseHandler, which may fail, and the players leave the matchmaking.
GenerateFinalMessages(w) ==
    \E pr \in {c[2] : c \in {d \in closing : d[1] = w}} :
        /\ closing' = closing \ {<<w, pr>>}
        /\ \/ /\ ends' = [ends EXCEPT ![pr] = @ + 1]
              /\ RemoveQplrAndGmrb({Of[pr], Foe[pr]})
           \/ UNCHANGED <<ends, entry>>
        /\ UNCHANGED <<room, booked, req, asks, mail, starts>>

QuotaExpires(pr) ==
    /\ pr \in room.quota
    /\ room' = [room EXCEPT !.quota = @ \ {pr}]
    /\ UNCHANGED <<entry, booked, req, asks, mail, closing, starts, ends>>

\* Nobody wrote to the pair for as long as its stage allows.
Silence(pr) ==
    /\ room.pair[pr] # None /\ room.pair[pr].old = "fresh"
    /\ \E o \in (IF room.pair[pr].stat = 4 THEN {"idle", "long"} ELSE {"idle"}) :
           room' = [room EXCEPT !.pair[pr].old = o]
    /\ UNCHANGED <<entry, booked, req, asks, mail, closing, starts, ends>>

\* acceptMatch books a battle for players that have no entry; an entry goes when
\* its player drops it or it is silent for too long.
Book(b) ==
    /\ b \notin booked /\ \A k \in b : entry[Of[k]] = None
    /\ asks + 3 <= MaxAsks /\ asks' = asks + 3
    /\ booked' = booked \cup {b}
    /\ entry' = [p \in Players |->
                    IF \E k \in b : Of[k] = p THEN CHOOSE k \in b : Of[k] = p ELSE entry[p]]
    /\ UNCHANGED <<room, req, mail, closing, starts, ends>>

Forget(p) ==
    /\ entry[p] # None
    /\ entry' = [entry EXCEPT ![p] = None]
    /\ UNCHANGED <<room, booked, req, asks, mail, closing, starts, ends>>

Step(k) ==
    \/ RefreshForRelease(k) \/ RefreshForPayload(k) \/ RefreshForReady(k)
    \/ UpdatePlayerInGameroom(k) \/ PlaceInRoom(k)
    \/ DoSetPayload(k) \/ DoSetReady(k) \/ DoInitGameplayModel(k) \/ AbandonPair(k)

Next ==
    \/ \E k \in Keys : ReleaseBooking(k) \/ AskPayload(k) \/ AskReady(k) \/ Step(k) \/ OpError(k)
    \/ \E k \in Keys : Surrender(k) \/ GameOver(k) \/ QuotaExpires(k) \/ Silence(k)
    \/ TheHeartbeat
    \/ \E w \in Procs : HandleEnd(w) \/ WriteAutoDefeat(w) \/ GenerateFinalMessages(w)
    \/ \E b \in Battles : Book(b)
    \/ \E p \in Players : Forget(p)

Spec == Init /\ [][Next]_roomVars

-----------------------------------------------------------------------------
(* Properties.                                                             *)

\* Types of the variables; the occupation counts free places.
RoomTypeOK ==
    /\ room \in Room
    /\ entry \in [Players -> Keys \cup {None}]
    /\ booked \subseteq Battles
    /\ req \in [Keys -> Stages]
    /\ asks \in 0 .. MaxAsks
    /\ mail \in [Procs -> SUBSET Message]
    /\ closing \subseteq Procs \X Keys
    /\ starts \in [Keys -> Nat] /\ ends \in [Keys -> Nat]

\* A battle of two players is set up only from what both gave: at stages 3 and 4
\* both payloads are there and each player has said ready, whatever the order in
\* which they were placed and repeated their requests.  (A battle against a bot
\* may start without a payload: setReady.lua looks for none.)
StartedByBoth ==
    \A pr \in Live(room) :
        room.pair[pr].stat >= 3 /\ ~Bot(pr) =>
            /\ room.pair[pr].plda /\ room.pair[pr].pldb
            /\ room.pair[pr].said = {"a", "b"}

\* A battle that began is handed to at most one end handler (game over or auto
\* close), though every room process hears of the end.
OneEndPerBattle == \A pr \in Keys : ends[pr] <= starts[pr]

\* The counter that matchmaking is told never promises a place that a live pair
\* takes, through abandoned, surrendered, timed-out and replaced pairs.
NeverOverbooked == room.occupation + Cardinality(Live(room)) <= Capacity

\* A key leads to its own pair or to the one of its player's opponent that waits
\* for him, and so to a battle of the two players of its booking.  Pairs take the
\* name of a key again and again, and what seven scripts leave of their indexes and
\* of the ways into them must not lead a player into a battle of others, where his
\* payload, his moves and his surrender would count.
KeyLeadsToItsBattle ==
    \A k \in Keys :
        LET pr == room.pinx[k] IN
        pr \notin {None, k} => ~Bot(k) /\ ~Bot(pr) /\ Of[pr] = Foe[k] /\ Foe[pr] = Of[k]
=============================================================================
