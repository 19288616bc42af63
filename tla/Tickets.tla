------------------------------ MODULE Tickets ------------------------------
(***************************************************************************)
(* Tickets (metaFeatures/tickets.js over dao/ticket.js): a player sends a   *)
(* ticket to a profile or to an id of a social network; the receiver         *)
(* confirms or rejects it, the sender may discharge it before that, and      *)
(* whoever it belongs to afterwards (the sender when it was sent with cb,    *)
(* the receiver otherwise) dismisses or releases it.  Every operation but    *)
(* the sending is one write of the database, made on what a listing showed   *)
(* some time ago.                                                            *)
(***************************************************************************)
EXTENDS Integers, FiniteSets

CONSTANTS
    Players,
    Nets,        \* the ways in which the players may be logged in
    MaxTickets   \* bound: tickets sent

ASSUME TicketsAssumption ==
    /\ Nets \subseteq [Players -> {"none", "vk", "ok", "fb"}]
    /\ MaxTickets \in Nat

Tids == 1 .. MaxTickets
\* A ticket is found by its receiver's profile, or by his id in a network.
Doc == [sender : Players, receiver : Players, by : {"pid", "vk", "ok", "fb"}, cb : BOOLEAN,
        sat : {"none", "true", "false"}, lives : BOOLEAN]
NoDoc == [sat |-> "absent"]
Said == [who : Players, cb : BOOLEAN,
         what : {"confirmed", "rejected", "discharged", "dismissed", "released"}]

VARIABLES
    net,       \* how each player is logged in; never changes
    ticket,    \* the collection, by tid
    counter,   \* the sequence "ticketId"
    sending,   \* tickets that have a tid and are not stored yet
    known,     \* the tids that each player has been shown
    told       \* ghost: what was answered about each ticket, to whom and with its cb

ticketVars == <<net, ticket, counter, sending, known, told>>

TicketInit ==
    /\ net \in Nets
    /\ ticket = [t \in Tids |-> NoDoc]
    /\ counter = 0
    /\ sending = {}
    /\ known = [p \in Players |-> {}]
    /\ told = [t \in Tids |-> {}]

-----------------------------------------------------------------------------
(* Sending.                                                                *)

Send(p, q, by) ==
    /\ counter < MaxTickets /\ p # q
    /\ counter' = counter + 1
    /\ \E cb \in BOOLEAN :
         sending' = sending \cup
            {[tid |-> counter + 1,
              doc |-> [sender |-> p, receiver |-> q, by |-> by, cb |-> cb,
                       sat |-> "none", lives |-> TRUE]]}
    /\ UNCHANGED <<net, ticket, known, told>>

SendTicket(p, q) == Send(p, q, "pid")
SendTicketVk(p, q) == net[q] = "vk" /\ Send(p, q, "vk")
SendTicketOk(p, q) == net[q] = "ok" /\ Send(p, q, "ok")
SendTicketFb(p, q) == net[q] = "fb" /\ Send(p, q, "fb")

\* The new ticket is stored and shown to its sender, or the insertion fails.
AddTicket ==
    \E n \in sending :
        /\ sending' = sending \ {n}
        /\ \/ /\ ticket' = [ticket EXCEPT ![n.tid] = n.doc]
              /\ known' = [known EXCEPT ![n.doc.sender] = @ \cup {n.tid}]
           \/ UNCHANGED <<ticket, known>>
        /\ UNCHANGED <<net, counter, told>>

-----------------------------------------------------------------------------
(* Listing.                                                                *)

Current == {t \in Tids : ticket[t] # NoDoc /\ ticket[t].lives}
ReceivedBy(p, t) ==
    ticket[t].receiver = p /\ ticket[t].by \in {"pid", net[p]}

Show(p, ts) ==
    /\ ~(ts \subseteq known[p])
    /\ known' = [known EXCEPT ![p] = @ \cup ts]
    /\ UNCHANGED <<net, ticket, counter, sending, told>>

ListSendedTickets(p) == Show(p, {t \in Current : ticket[t].sender = p})
ListReceivedTickets(p) ==
    Show(p, {t \in Current : ReceivedBy(p, t) /\ ticket[t].sat = "none"})

-----------------------------------------------------------------------------
(* Answering.  found is the query of the write; a ticket that it does not  *)
(* match is left alone.                                                    *)

Tell(p, t, what) ==
    told' = [told EXCEPT ![t] = @ \cup {[who |-> p, cb |-> ticket[t].cb, what |-> what]}]
Unanswered(t) == t \in Current /\ ticket[t].sat = "none"

SetSat(t, sat) == ticket' = [ticket EXCEPT ![t].sat = sat]
Delete(t) == ticket' = [ticket EXCEPT ![t] = NoDoc]
Kept == UNCHANGED <<net, counter, sending, known>>

\* Mutant: the answer may be given anew.
RejectTicketAgain(p, t) ==
    /\ t \in known[p] /\ t \in Current
    /\ ticket[t].receiver = p /\ ticket[t].by = "pid"
    /\ SetSat(t, "false") /\ Tell(p, t, "rejected") /\ Kept

AnswerByPid(p, t, sat, what) ==
    /\ t \in known[p] /\ Unanswered(t)
    /\ ticket[t].receiver = p /\ ticket[t].by = "pid"
    /\ SetSat(t, sat) /\ Tell(p, t, what) /\ Kept

\* The test for a ticket that was not found reads raw.n, which the result does not
\* have: the player is told the same when no ticket was written.  That lie changes
\* nothing and is left out of told.
AnswerByNetwork(p, t, by, sat, what) ==
    /\ t \in known[p] /\ net[p] = by
    /\ Unanswered(t) /\ ticket[t].receiver = p /\ ticket[t].by = by
    /\ SetSat(t, sat) /\ Tell(p, t, what) /\ Kept

ConfirmTicket(p, t) == AnswerByPid(p, t, "true", "confirmed")
ConfirmTicketVk(p, t) == AnswerByNetwork(p, t, "vk", "true", "confirmed")
ConfirmTicketOk(p, t) == AnswerByNetwork(p, t, "ok", "true", "confirmed")
ConfirmTicketFb(p, t) == AnswerByNetwork(p, t, "fb", "true", "confirmed")
RejectTicket(p, t) == AnswerByPid(p, t, "false", "rejected")
RejectTicketVk(p, t) == AnswerByNetwork(p, t, "vk", "false", "rejected")
RejectTicketOk(p, t) == AnswerByNetwork(p, t, "ok", "false", "rejected")
RejectTicketFb(p, t) == AnswerByNetwork(p, t, "fb", "false", "rejected")

DischargeTicket(p, t) ==
    /\ t \in known[p] /\ Unanswered(t)
    /\ ticket[t].sender = p
    /\ Delete(t) /\ Tell(p, t, "discharged") /\ Kept

\* Mutant: it belongs to the wrong one of the two.
BelongsToTheOther(p, t) == IF ticket[t].cb THEN ReceivedBy(p, t) ELSE ticket[t].sender = p

BelongsTo(p, t) == IF ticket[t].cb THEN ticket[t].sender = p ELSE ReceivedBy(p, t)

DismissTicket(p, t) ==
    /\ t \in known[p] /\ t \in Current
    /\ BelongsTo(p, t) /\ ticket[t].sat = "false"
    /\ Delete(t) /\ Tell(p, t, "dismissed") /\ Kept

ReleaseTicket(p, t) ==
    /\ t \in known[p] /\ t \in Current
    /\ BelongsTo(p, t) /\ ticket[t].sat = "true"
    /\ Delete(t) /\ Tell(p, t, "released") /\ Kept

\* The lifetime ends, and some time later the database removes the ticket; an
\* answer begins the lifetime anew.
LifetimeEnds(t) ==
    /\ t \in Current
    /\ ticket' = [ticket EXCEPT ![t].lives = FALSE]
    /\ UNCHANGED told /\ Kept

TtlIndexRemoves(t) ==
    /\ ticket[t] # NoDoc /\ ~ticket[t].lives
    /\ Delete(t)
    /\ UNCHANGED told /\ Kept

TicketNext ==
    \/ \E p, q \in Players :
          SendTicket(p, q) \/ SendTicketVk(p, q) \/ SendTicketOk(p, q) \/ SendTicketFb(p, q)
    \/ AddTicket
    \/ \E p \in Players : ListSendedTickets(p) \/ ListReceivedTickets(p)
    \/ \E p \in Players, t \in Tids :
          \/ ConfirmTicket(p, t) \/ RejectTicket(p, t)
          \/ ConfirmTicketVk(p, t) \/ ConfirmTicketOk(p, t) \/ ConfirmTicketFb(p, t)
          \/ RejectTicketVk(p, t) \/ RejectTicketOk(p, t) \/ RejectTicketFb(p, t)
          \/ DischargeTicket(p, t) \/ DismissTicket(p, t) \/ ReleaseTicket(p, t)
    \/ \E t \in Tids : LifetimeEnds(t) \/ TtlIndexRemoves(t)

TicketSpec == TicketInit /\ [][TicketNext]_ticketVars

-----------------------------------------------------------------------------
(* Properties.                                                             *)

\* Types of the variables.
TicketTypeOK ==
    /\ net \in Nets
    /\ ticket \in [Tids -> Doc \cup {NoDoc}]
    /\ counter \in 0 .. MaxTickets
    /\ sending \subseteq [tid : Tids, doc : Doc]
    /\ known \in [Players -> SUBSET Tids]
    /\ told \in [Tids -> SUBSET Said]

\* No ticket ends in two ways: of confirmed, rejected and discharged one at most
\* ever happens to it, however the requests of the two players cross.
Ending == {"confirmed", "rejected", "discharged"}
OneOutcome == \A t \in Tids : Cardinality({a \in told[t] : a.what \in Ending}) <= 1

\* An answer reaches whom it is for: what was confirmed can only be released and
\* what was rejected only dismissed, by the sender of a ticket with cb and by the
\* receiver who answered otherwise.
AnswerIsKept ==
    \A t \in Tids : \A end \in {e \in told[t] : e.what \in {"dismissed", "released"}} :
        \E a \in told[t] :
            /\ a.what = (IF end.what = "released" THEN "confirmed" ELSE "rejected")
            /\ (a.who = end.who) = ~end.cb
=============================================================================
