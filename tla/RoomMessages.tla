---------------------------- MODULE RoomMessages ----------------------------
(***************************************************************************)
(* The messages of a playing pair (realtimePvp/gameplayRoom.js): a sender   *)
(* counts his message in and queues it; the workers of the room take the    *)
(* head of the queue, let the cloud functions make the next model from it,  *)
(* and complete it, or fail it.  A worker may be slow, fail or die: the     *)
(* mark that it put on the queue lapses and the head is taken once more.    *)
(***************************************************************************)
EXTENDS Integers, Sequences, SequencesExt

CONSTANTS
    Workers,    \* handlers of gr-pub messages, in whatever processes
    MaxMessages \* bound: messages per player

ASSUME RoomMessagesAssumption == MaxMessages \in Nat

Sides == {"a", "b"}
Message == [from : Sides, mysq : 1 .. MaxMessages]
NoMessage == [from |-> "a", mysq |-> 0]

VARIABLES
    pair,     \* the pair's hash: tura and turb, turax and turbx, the model, qupd
    pq,       \* its queue
    counted,  \* messages counted in, their push still to come
    work,     \* what each worker is doing
    voided,   \* ghost: messages that failQueueMessage reported to their senders
    late      \* ghost: a mark lapsed under a worker that was still at it

msgVars == <<pair, pq, counted, work, voided, late>>

Idle == [at |-> "idle", msg |-> NoMessage, model |-> <<>>]

MsgInit ==
    /\ pair = [tur |-> [s \in Sides |-> 0], turx |-> [s \in Sides |-> 0],
               mdl |-> <<>>, qupd |-> "none"]
    /\ pq = <<>>
    /\ counted = [s \in Sides |-> <<>>]
    /\ work = [w \in Workers |-> Idle]
    /\ voided = {}
    /\ late = FALSE

Go(w, stage) == work' = [work EXCEPT ![w].at = stage]

\* A message with any other number is refused.
CheckMessageSequenceAndIncrement(s) ==
    /\ pair.tur[s] < MaxMessages
    /\ pair' = [pair EXCEPT !.tur[s] = @ + 1]
    /\ counted' = [counted EXCEPT ![s] = Append(@, [from |-> s, mysq |-> pair.tur[s] + 1])]
    /\ UNCHANGED <<pq, work, voided, late>>

PushMessageInQueue(s) ==
    /\ counted[s] # <<>>
    /\ \/ pq' = Append(pq, Head(counted[s]))
       \/ UNCHANGED pq                             \* OP error: the number is spent
    /\ counted' = [counted EXCEPT ![s] = Tail(@)]
    /\ UNCHANGED <<pair, work, voided, late>>

\* Every push, every end and every ping of the players asks the workers to look.
FetchPairPlayerMessage(w) ==
    /\ work[w].at = "idle"
    /\ pair.qupd # "fresh" /\ pq # <<>>
    /\ pair' = [pair EXCEPT !.qupd = "fresh"]
    /\ work' = [work EXCEPT ![w] = [Idle EXCEPT !.at = "model", !.msg = Head(pq)]]
    /\ UNCHANGED <<pq, counted, voided, late>>

GetSqsAndModel(w) ==
    /\ work[w].at = "model"
    /\ work' = [work EXCEPT ![w].model = pair.mdl, ![w].at = "turn"]
    /\ UNCHANGED <<pair, pq, counted, voided, late>>

\* pvpTurnHandler and pvpCheckGameOver give the next model, or an error.
DoProcessMessage(w) ==
    /\ work[w].at = "turn"
    /\ \/ work' = [work EXCEPT ![w].model = Append(@, work[w].msg), ![w].at = "complete"]
       \/ Go(w, "fail")
    /\ UNCHANGED <<pair, pq, counted, voided, late>>

\* Mutant: whatever is completed while the queue is marked is the head.
EndProcessingMessageAnyway(w) ==
    LET m == work[w].msg IN
    /\ work[w].at = "complete"
    /\ IF pair.qupd = "none"
       THEN Go(w, "fail") /\ UNCHANGED <<pair, pq>>
       ELSE /\ pair' = [pair EXCEPT !.turx[m.from] = m.mysq, !.qupd = "none",
                                    !.mdl = work[w].model]
            /\ pq' = IF pq = <<>> THEN pq ELSE Tail(pq)
            /\ Go(w, "idle")
    /\ UNCHANGED <<counted, voided, late>>

\* completeQueueMessage compares the mark with the time at which the worker began,
\* which no later mark fails; it breaks down where there is no mark, and the
\* worker then takes its own completion for an error.
EndProcessingMessage(w) ==
    LET m == work[w].msg IN
    /\ work[w].at = "complete"
    /\ \/ /\ pair.qupd = "none"
          /\ Go(w, "fail")
          /\ UNCHANGED <<pair, pq>>
       \/ /\ pair.qupd # "none" /\ m.mysq # pair.turx[m.from] + 1
          /\ Go(w, "idle")
          /\ UNCHANGED <<pair, pq>>
       \/ /\ pair.qupd # "none" /\ m.mysq = pair.turx[m.from] + 1
          /\ pair' = [pair EXCEPT !.turx[m.from] = m.mysq, !.qupd = "none",
                                  !.mdl = work[w].model]
          /\ pq' = IF pq = <<>> THEN pq ELSE Tail(pq)
          /\ Go(w, "idle")
    /\ UNCHANGED <<counted, voided, late>>

\* failQueueMessage takes whatever message is the head by now.
JustFailMessageWithError(w) ==
    /\ work[w].at = "fail"
    /\ pair' = [pair EXCEPT !.qupd = "none"]
    /\ pq' = IF pq = <<>> THEN pq ELSE Tail(pq)
    /\ voided' = voided \cup {work[w].msg}
    /\ Go(w, "idle")
    /\ UNCHANGED <<counted, late>>

\* timeToProcessMessageMs after the mark was put.
MarkLapses ==
    /\ pair.qupd = "fresh"
    /\ pair' = [pair EXCEPT !.qupd = "lapsed"]
    /\ late' = (late \/ \E w \in Workers : work[w].at # "idle")
    /\ UNCHANGED <<pq, counted, work, voided>>

\* A worker dies, or an answer is null where it stops without a word.
WorkerStops(w) ==
    /\ work[w].at # "idle"
    /\ Go(w, "idle")
    /\ UNCHANGED <<pair, pq, counted, voided, late>>

MsgNext ==
    \/ \E s \in Sides : CheckMessageSequenceAndIncrement(s) \/ PushMessageInQueue(s)
    \/ \E w \in Workers :
          \/ FetchPairPlayerMessage(w) \/ GetSqsAndModel(w) \/ DoProcessMessage(w)
          \/ EndProcessingMessage(w) \/ JustFailMessageWithError(w) \/ WorkerStops(w)
    \/ MarkLapses

MsgSpec == MsgInit /\ [][MsgNext]_msgVars

-----------------------------------------------------------------------------
(* Properties.                                                             *)

\* Types of the variables.
HandlerStages == {"idle", "model", "turn", "complete", "fail"}
MsgTypeOK ==
    /\ pair \in [tur : [Sides -> 0 .. MaxMessages], turx : [Sides -> 0 .. MaxMessages],
                 mdl : Seq(Message), qupd : {"none", "fresh", "lapsed"}]
    /\ pq \in Seq(Message)
    /\ counted \in [Sides -> Seq(Message)]
    /\ work \in [Workers -> [at : HandlerStages, msg : Message \cup {NoMessage},
                            model : Seq(Message)]]
    /\ voided \subseteq Message
    /\ late \in BOOLEAN

\* Of two moves of one sender the older comes first, and no move comes twice.
InOrder(moves) ==
    \A i, j \in DOMAIN moves :
        i < j /\ moves[i].from = moves[j].from => moves[i].mysq < moves[j].mysq
NoMoveLost == ToSet(pair.mdl) = {m \in Message : m.mysq <= pair.turx[m.from]}

\* The model of a battle is made from every move once and in its sender's order,
\* whatever workers fail, die or are late.  While no worker outlives its mark no
\* move that was completed is missing either, and none was reported as failed.
MovesInOrder ==
    /\ InOrder(pair.mdl)
    /\ late \/ (NoMoveLost /\ voided \cap ToSet(pair.mdl) = {})
=============================================================================
