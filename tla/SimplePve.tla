------------------------------ MODULE SimplePve ------------------------------
(***************************************************************************)
(* Battles against the game (pve/simplePve.js): a player begins a battle,   *)
(* acts in it until a cloud function says that it is over, and the battle    *)
(* is finalised and unloaded.  A battle that is never finished leaves a      *)
(* debt, which cloud functions ask for.  Nothing keeps two requests of the   *)
(* player from running at once, and each call may fail.                      *)
(***************************************************************************)
EXTENDS Integers

CONSTANTS
    PveHandlers,   \* requests of the player at work
    MaxBattles,    \* bound: battles begun
    MaxMoves       \* bound: moves stored in a battle

ASSUME SimplePveAssumption == MaxBattles \in Nat /\ MaxMoves \in Nat

PveBattles == 1 .. MaxBattles
NoBattle == [battle |-> 0, moves |-> 0]
Resting == [at |-> "rest", model |-> NoBattle]

VARIABLES
    me,        \* me:<pid>, the model of the battle
    meDebt,    \* meDebt:<pid>, as the battle that it is for; 0: none
    begun,     \* how many battles began
    actor,     \* what each handler is doing, with the model that it read
    moved,     \* ghost: moves that were answered 200, per battle, until crossed
    finals,    \* ghost: how often pveFinalize succeeded, per battle, until crossed
    unloaded,  \* ghost: battles whose finaliser unloaded them
    crossed    \* ghost: two requests ran at once, or a finaliser did not unload

pveVars == <<me, meDebt, begun, actor, moved, finals, unloaded, crossed>>

PveInit ==
    /\ me = NoBattle
    /\ meDebt = 0
    /\ begun = 0
    /\ actor = [h \in PveHandlers |-> Resting]
    /\ moved = [b \in PveBattles |-> 0]
    /\ finals = [b \in PveBattles |-> 0]
    /\ unloaded = {}
    /\ crossed = FALSE

Start(h, stage, model) ==
    /\ actor[h].at = "rest"
    /\ actor' = [actor EXCEPT ![h] = [at |-> stage, model |-> model]]
    /\ crossed' = (crossed \/ \E g \in PveHandlers : actor[g].at # "rest")
At(h, stage) == actor[h].at = stage
CountOf(ghost, b) == IF crossed THEN ghost ELSE [ghost EXCEPT ![b] = @ + 1]
Then(h, stage) == actor' = [actor EXCEPT ![h].at = stage]
Done(h) == actor' = [actor EXCEPT ![h] = Resting]

\* pveInit makes the model, or there is no battle.
CheckAlreadyPveBattling(h) ==
    /\ me = NoBattle /\ begun < MaxBattles
    /\ Start(h, "init", NoBattle)
    /\ UNCHANGED <<me, meDebt, begun, moved, finals, unloaded>>

\* addNewBattleModel: the battle and its debt at once, if there is still none.
PushBattleModelToOP(h) ==
    /\ At(h, "init")
    /\ IF me = NoBattle /\ begun < MaxBattles
       THEN /\ begun' = begun + 1
            /\ me' = [battle |-> begun + 1, moves |-> 0]
            /\ meDebt' = begun + 1
       ELSE UNCHANGED <<me, meDebt, begun>>
    /\ Done(h)
    /\ UNCHANGED <<moved, finals, unloaded, crossed>>

GetPveBattleModel(h) ==
    /\ me # NoBattle
    /\ Start(h, "act", me)
    /\ UNCHANGED <<me, meDebt, begun, moved, finals, unloaded>>

\* pveAct: the battle is over, or its model changed, or nothing did.
RunCustomActorCode(h) ==
    /\ At(h, "act")
    /\ \/ Then(h, "finalize")
       \/ actor[h].model.moves < MaxMoves /\ Then(h, "update")
       \/ Done(h)
    /\ UNCHANGED <<me, meDebt, begun, moved, finals, unloaded, crossed>>

\* Mutant: the model that was changed is thrown away.
ForgetModifiedBattleModel(h) ==
    /\ At(h, "update")
    /\ moved' = IF me # NoBattle THEN CountOf(moved, actor[h].model.battle) ELSE moved
    /\ Done(h)
    /\ UNCHANGED <<me, meDebt, begun, finals, unloaded, crossed>>

\* updateBattleModel overwrites whatever battle there is.
PushModifiedBattleModelToOP(h) ==
    /\ At(h, "update")
    /\ IF me # NoBattle
       THEN /\ me' = [actor[h].model EXCEPT !.moves = @ + 1]
            /\ moved' = CountOf(moved, actor[h].model.battle)
       ELSE UNCHANGED <<me, moved>>
    /\ Done(h)
    /\ UNCHANGED <<meDebt, begun, finals, unloaded, crossed>>

RunCustomFinalizerCode(h) ==
    /\ At(h, "finalize")
    /\ finals' = CountOf(finals, actor[h].model.battle)
    /\ Then(h, "unload")
    /\ UNCHANGED <<me, meDebt, begun, moved, unloaded, crossed>>

\* Mutant: the debt stays.
UnloadModelOnly(h) ==
    /\ At(h, "unload")
    /\ me' = NoBattle
    /\ unloaded' = unloaded \cup {actor[h].model.battle}
    /\ Done(h)
    /\ UNCHANGED <<meDebt, begun, moved, finals, crossed>>

UnloadBattleModelFromOP(h) ==
    /\ At(h, "unload")
    /\ me' = NoBattle
    /\ meDebt' = 0
    /\ unloaded' = unloaded \cup {actor[h].model.battle}
    /\ Done(h)
    /\ UNCHANGED <<begun, moved, finals, crossed>>

\* A call fails or the process dies: the request ends where it is.
PveHandlerFails(h) ==
    /\ ~At(h, "rest")
    /\ crossed' = (crossed \/ At(h, "unload"))
    /\ Done(h)
    /\ UNCHANGED <<me, meDebt, begun, moved, finals, unloaded>>

\* Whoever hears of the debt takes it away, of a battle that goes on, too.
CheckPveBattleDebt ==
    /\ meDebt # 0
    /\ meDebt' = 0
    /\ UNCHANGED <<me, begun, actor, moved, finals, unloaded, crossed>>

BattleTimesOut ==
    /\ me # NoBattle
    /\ me' = NoBattle
    /\ UNCHANGED <<meDebt, begun, actor, moved, finals, unloaded, crossed>>

PveNext ==
    \/ \E h \in PveHandlers :
          \/ CheckAlreadyPveBattling(h) \/ PushBattleModelToOP(h)
          \/ GetPveBattleModel(h) \/ RunCustomActorCode(h)
          \/ PushModifiedBattleModelToOP(h) \/ RunCustomFinalizerCode(h)
          \/ UnloadBattleModelFromOP(h) \/ PveHandlerFails(h)
    \/ CheckPveBattleDebt
    \/ BattleTimesOut

PveSpec == PveInit /\ [][PveNext]_pveVars

-----------------------------------------------------------------------------
(* Properties.                                                             *)

\* Types of the variables.
PveModel == [battle : 0 .. MaxBattles, moves : 0 .. MaxMoves]
PveTypeOK ==
    /\ me \in PveModel
    /\ meDebt \in 0 .. MaxBattles
    /\ begun \in 0 .. MaxBattles
    /\ actor \in [PveHandlers -> [at : {"rest", "init", "act", "update", "finalize", "unload"},
                                  model : PveModel]]
    /\ unloaded \subseteq PveBattles
    /\ crossed \in BOOLEAN

\* A battle is finalised once, and its model holds every move that was answered, as
\* long as the player's requests do not cross and a finaliser gets to unload it.
BattleIsPlayedOnce ==
    crossed \/ /\ \A b \in PveBattles : finals[b] <= 1
               /\ me # NoBattle => me.moves = moved[me.battle]

\* No debt is told of a battle whose finaliser unloaded it, however late other
\* requests of the battle, or of the next one, come to their end.
DebtIsOfUnfinished == meDebt \notin unloaded
=============================================================================
