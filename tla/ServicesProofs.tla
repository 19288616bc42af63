--------------------------- MODULE ServicesProofs ---------------------------
(***************************************************************************)
(* Theorems about the features that are checked in one run: the run says of   *)
(* each what the feature's own specification says, so that what is proved of   *)
(* the features is what TLC sees on the small instance.                        *)
(***************************************************************************)
EXTENDS MCServices, AccountsProofs, FeaturesProofs

\* The feature at work takes its own steps, and every other one rests.
LEMMA FeatureSteps ==
    [ServicesNext]_<<feature, msgVars, ticketVars, sessionVars, pveVars,
                     accountVars, writeVars, purchaseVars>>
    => /\ [MsgNext]_msgVars /\ [TicketNext]_ticketVars /\ [SessionNext]_sessionVars
       /\ [PveNext]_pveVars /\ [AccountNext]_accountVars /\ [WriteNext]_writeVars
       /\ [PurchaseNext]_purchaseVars
BY ZenonT(60) DEF ServicesNext, AtRest, Features

\* Whichever feature is at work, a behaviour of the run is one of the messages of a
\* battle, of the tickets, the sessions, the PvE battles, the accounts, the writes
\* of a profile and the purchases: none of them touches the state of another.
THEOREM ServicesAreSeparate ==
    ServicesSpec => /\ MsgSpec /\ TicketSpec /\ SessionSpec /\ PveSpec
                    /\ AccountSpec /\ WriteSpec /\ PurchaseSpec
<1>1. ServicesInit => /\ MsgInit /\ TicketInit /\ SessionInit /\ PveInit
                      /\ AccountInit /\ WriteInit /\ PurchaseInit
  BY DEF ServicesInit
<1> QED
  BY <1>1, FeatureSteps, PTL
     DEF ServicesSpec, MsgSpec, TicketSpec, SessionSpec, PveSpec, AccountSpec, WriteSpec, PurchaseSpec

\* The variables of all features keep their types.
THEOREM ServicesTyping == ServicesSpec => []ServicesTypeOK
<1>1. /\ MsgTypeOK /\ TicketTypeOK /\ SessionTypeOK /\ PveTypeOK
      /\ AccountTypeOK /\ WriteTypeOK /\ PurchaseTypeOK
      => ServicesTypeOK
  BY DEF ServicesTypeOK
<1> QED
  BY <1>1, ServicesAreSeparate, MessageTyping, TicketTyping, SessionTyping, PveTyping,
     AccountTyping, WriteTyping, PurchaseTyping, PTL

\* What the run checks of the features together is proved of them together: a ticket
\* has one outcome that its sender hears of, a session is ended once and numbers its
\* requests, a battle is played once, and nobody loses a profile, a write or a sum.
THEOREM ServicesAreSafe ==
    ServicesSpec => [](/\ MovesInOrder /\ OneOutcome /\ AnswerIsKept
                       /\ EndedStaysEnded /\ OneSessionPerAccount /\ NoOrderTwice
                       /\ BattleIsPlayedOnce /\ DebtIsOfUnfinished
                       /\ ProfileIsKept /\ NoWriteLost /\ PaidOnce)
  BY ServicesAreSeparate, ModelHasMovesInOrder, TicketHasOneOutcome, AnswerReachesItsOwner,
     EndedIsFinal, AccountHasOneSession, NumberIsUsedOnce, BattleIsFinalisedOnce,
     NoDebtOfFinished, OwnProfileIsKept, EveryWriteIsKept, NobodyIsPaidTwice, PTL
=============================================================================
