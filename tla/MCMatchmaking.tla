---------------------------- MODULE MCMatchmaking ----------------------------
(* Small instances of Matchmaking for TLC. *)
EXTENDS Matchmaking, TLC

CONSTANTS ann, bob, cyd, segm

\* A match of two players, or of one with a bot, and what may disturb it.
TwoPlayers ==
    << {<<ann, "search">>, <<bob, "pick">>},
       {<<bob, "search">>},
       {<<ann, "accept">>, <<ann, "decline">>, <<bob, "stop">>, <<bob, "drop">>},
       {<<bob, "accept">>, <<ann, "wait">>},
       {<<bob, "check">>, <<ann, "search">>, <<ann, "refresh">>} >>

\* bob drops a match with ann, who does not learn of it, and finds cyd.
Triangle ==
    << {<<ann, "search">>}, {<<bob, "search">>}, {<<bob, "drop">>}, {<<bob, "search">>},
       {<<cyd, "search">>}, {<<bob, "accept">>}, {<<ann, "accept">>} >>

\* A player who polls again and again.
Poller == [r \in 1..3 |-> {<<ann, "search">>}]
=============================================================================
