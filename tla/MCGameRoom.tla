----------------------------- MODULE MCGameRoom -----------------------------
(* Small instances of GameRoom for TLC. *)
EXTENDS GameRoom, TLC

CONSTANTS ann, bob, carl, a1, b1, a2, a3, c3, w1, w2

\* ann meets bob, a bot with bob's profile, and carl; two of the three, as bounded.
BotOf == (a1 :> ann) @@ (b1 :> bob) @@ (a2 :> ann) @@ (a3 :> ann) @@ (c3 :> carl)
BotFoe == (a1 :> bob) @@ (b1 :> ann) @@ (a2 :> bob) @@ (a3 :> carl) @@ (c3 :> ann)
BotBattles == {{a1, b1}, {a2}, {a3, c3}}
=============================================================================
