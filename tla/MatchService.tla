---------------------------- MODULE MatchService ----------------------------
(***************************************************************************)
(* What matchmaking promises to players, without queues, stats, keys and   *)
(* requests.  Two free players become each other's opponents, both get a   *)
(* place at once, and a match is over for both of its players.  From the   *)
(* moment a match is ended for one of them only, nothing is promised.      *)
(***************************************************************************)
CONSTANTS Clients, Nobody

VARIABLES
    opponent,   \* whom each client is to play with
    placed,     \* the clients with a place in a room
    broken      \* a match was ended for one of its players only

serviceVars == <<opponent, placed, broken>>

Init ==
    /\ opponent = [c \in Clients |-> Nobody]
    /\ placed = {}
    /\ broken = FALSE

\* Two clients without an opponent become each other's.
Match(c, d) ==
    /\ c # d /\ opponent[c] = Nobody /\ opponent[d] = Nobody
    /\ opponent' = [opponent EXCEPT ![c] = d, ![d] = c]
    /\ UNCHANGED placed

\* Both of a match get their places.
Place(c) ==
    /\ opponent[c] # Nobody
    /\ {c, opponent[c]} \cap placed = {}
    /\ placed' = placed \cup {c, opponent[c]}
    /\ UNCHANGED opponent

\* Some matches are over, for all their players.
Part(gone) ==
    /\ \A c \in gone : opponent[c] # Nobody => opponent[c] \in gone
    /\ opponent' = [c \in Clients |-> IF c \in gone THEN Nobody ELSE opponent[c]]
    /\ placed' = placed \ gone

Next ==
    \/ broken'
    \/ /\ UNCHANGED broken
       /\ \/ \E c, d \in Clients : Match(c, d)
          \/ \E c \in Clients : Place(c)
          \/ \E gone \in SUBSET Clients : Part(gone)

Spec == Init /\ [][Next]_serviceVars
=============================================================================
