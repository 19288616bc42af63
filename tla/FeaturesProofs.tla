--------------------------- MODULE FeaturesProofs ---------------------------
(***************************************************************************)
(* Theorems about tickets, purchases, battles against the game and the      *)
(* messages of battles between players, for any number of players,         *)
(* requests, orders, workers and messages.                                 *)
(***************************************************************************)
EXTENDS Tickets, Purchases, SimplePve, RoomMessages, FiniteSetTheorems, SequenceTheorems,
        TLAPS

(***************************************************************************)
(* Tickets.  A tid is given once: until the ticket is stored, nothing is      *)
(* there and nothing was said of it.  What was said of a ticket that is       *)
(* stored is the one answer that it has, which its receiver gave.  Of a       *)
(* ticket that is gone it is known that its story is a possible one.          *)
(***************************************************************************)
NotStoredYet(t) == ticket[t] = NoDoc /\ told[t] = {}
TidsAreFresh ==
    /\ \A n \in sending : n.tid <= counter /\ NotStoredYet(n.tid)
    /\ \A m, n \in sending : m.tid = n.tid => m = n
    /\ \A n \in sending : n.doc.sat = "none" /\ n.doc.sender # n.doc.receiver
    /\ \A t \in Tids : t > counter => NotStoredYet(t)
AnswerOf(d) ==
    [who |-> d.receiver, cb |-> d.cb, what |-> IF d.sat = "true" THEN "confirmed" ELSE "rejected"]
ToldIsAnswered ==
    \A t \in Tids : ticket[t] # NoDoc =>
        /\ ticket[t].sender # ticket[t].receiver
        /\ told[t] = (IF ticket[t].sat = "none" THEN {} ELSE {AnswerOf(ticket[t])})
OneEnding ==
    \A t \in Tids : \A a, b \in told[t] : a.what \in Ending /\ b.what \in Ending => a = b
TicketInv == TicketTypeOK /\ TidsAreFresh /\ ToldIsAnswered /\ OneEnding /\ AnswerIsKept

\* What is said of a ticket keeps its type, and a place where no ticket is has no sat.
LEMMA NoDocIsNoDoc == NoDoc \notin Doc
BY DEF NoDoc, Doc

\* The invariant holds at the start.
LEMMA TicketInvInit == TicketInit => TicketInv
BY TicketsAssumption DEF TicketInit, TicketInv, TicketTypeOK, TidsAreFresh, NotStoredYet,
   ToldIsAnswered, OneEnding, AnswerIsKept, Tids

\* One ticket is written or deleted, and something is said of it: what has to be
\* shown is about that ticket alone.
LEMMA OneTicketChanges ==
    ASSUME TicketInv, NEW t \in Tids, NEW d \in Doc \cup {NoDoc}, NEW said \in SUBSET Said,
           ticket[t] # NoDoc,
           ticket' = [ticket EXCEPT ![t] = d], told' = [told EXCEPT ![t] = said], Kept,
           d # NoDoc => /\ d.sender # d.receiver
                        /\ said = (IF d.sat = "none" THEN {} ELSE {AnswerOf(d)}),
           \A a, b \in said : a.what \in Ending /\ b.what \in Ending => a = b,
           \A end \in {e \in said : e.what \in {"dismissed", "released"}} : \E a \in said :
              /\ a.what = (IF end.what = "released" THEN "confirmed" ELSE "rejected")
              /\ (a.who = end.who) = ~end.cb
    PROVE  TicketInv'
<1> USE DEF TicketInv, TicketTypeOK, Kept
<1>1. TicketTypeOK'
  OBVIOUS
<1>2. \A n \in sending : n.tid # t
  BY DEF TidsAreFresh, NotStoredYet
<1>3. TidsAreFresh'
  <2>1. t <= counter
    BY DEF TidsAreFresh, NotStoredYet, Tids
  <2> QED  BY <1>2, <2>1 DEF TidsAreFresh, NotStoredYet, Tids
<1>4. ToldIsAnswered'
  BY DEF ToldIsAnswered
<1>5. OneEnding'
  BY DEF OneEnding
<1>6. AnswerIsKept'
  BY DEF AnswerIsKept
<1> QED  BY <1>1, <1>3, <1>4, <1>5, <1>6

\* The receiver answers a ticket that has no answer.
LEMMA AnAnswer ==
    ASSUME TicketInv, NEW p \in Players, NEW t \in Tids, Unanswered(t), ticket[t].receiver = p,
           NEW sat \in {"true", "false"},
           SetSat(t, sat), Tell(p, t, IF sat = "true" THEN "confirmed" ELSE "rejected"), Kept
    PROVE  TicketInv'
<1> DEFINE d == [ticket[t] EXCEPT !.sat = sat]
           a == AnswerOf(d)
<1>1. ticket[t] \in Doc /\ ticket[t] # NoDoc /\ told[t] = {} /\ ticket[t].sender # p
  BY DEF TicketInv, TicketTypeOK, Unanswered, Current, ToldIsAnswered
<1>2. /\ d \in Doc /\ d.sat = sat /\ d.receiver = p /\ d.cb = ticket[t].cb
      /\ d.sender = ticket[t].sender
  BY <1>1 DEF Doc
<1>3. a = [who |-> p, cb |-> ticket[t].cb, what |-> IF sat = "true" THEN "confirmed" ELSE "rejected"]
  BY <1>2 DEF AnswerOf
<1>4. a \in Said
  BY <1>1, <1>3 DEF Said, Doc
<1>5. a.what \in {"confirmed", "rejected"}
  BY <1>3
<1>6. ticket' = [ticket EXCEPT ![t] = d] /\ told' = [told EXCEPT ![t] = {a}]
  BY <1>1, <1>3 DEF SetSat, Tell, TicketInv, TicketTypeOK
<1>7. \A end \in {e \in {a} : e.what \in {"dismissed", "released"}} : FALSE
  BY <1>5
<1>8. d # NoDoc
  BY <1>2, NoDocIsNoDoc
<1>9. {a} = (IF d.sat = "none" THEN {} ELSE {AnswerOf(d)})
  BY <1>2
<1>10. /\ \A x, y \in {a} : x.what \in Ending /\ y.what \in Ending => x = y
       /\ \A end \in {e \in {a} : e.what \in {"dismissed", "released"}} : \E x \in {a} :
             /\ x.what = (IF end.what = "released" THEN "confirmed" ELSE "rejected")
             /\ (x.who = end.who) = ~end.cb
  BY <1>7
<1>11. d \in Doc \cup {NoDoc} /\ {a} \in SUBSET Said /\ d.sender # d.receiver
  BY <1>1, <1>2, <1>4
<1> HIDE DEF d, a
<1> QED  BY <1>1, <1>6, <1>9, <1>10, <1>11, OneTicketChanges

\* A ticket is deleted and its end is said, or nothing is.
LEMMA AnEnd ==
    ASSUME TicketInv, NEW t \in Tids, NEW d \in {NoDoc, [ticket[t] EXCEPT !.lives = FALSE]},
           ticket[t] # NoDoc, ticket' = [ticket EXCEPT ![t] = d], UNCHANGED told, Kept
    PROVE  TicketInv'
<1>1. told' = [told EXCEPT ![t] = told[t]] /\ told[t] \in SUBSET Said
  BY DEF TicketInv, TicketTypeOK
<1>2. \A a, b \in told[t] : a.what \in Ending /\ b.what \in Ending => a = b
  BY DEF TicketInv, OneEnding
<1>3. \A end \in {e \in told[t] : e.what \in {"dismissed", "released"}} : \E a \in told[t] :
         /\ a.what = (IF end.what = "released" THEN "confirmed" ELSE "rejected")
         /\ (a.who = end.who) = ~end.cb
  BY DEF TicketInv, AnswerIsKept
<1>4. ticket[t] \in Doc
  BY DEF TicketInv, TicketTypeOK
<1>5. d \in Doc \cup {NoDoc}
  BY ONLY ZenonT(60), <1>4 DEF Doc
<1>6. ASSUME d # NoDoc
      PROVE  /\ d.sender = ticket[t].sender /\ d.receiver = ticket[t].receiver
             /\ d.sat = ticket[t].sat /\ AnswerOf(d) = AnswerOf(ticket[t])
  BY <1>4, <1>6 DEF Doc, AnswerOf
<1>7. d # NoDoc => /\ d.sender # d.receiver
                   /\ told[t] = (IF d.sat = "none" THEN {} ELSE {AnswerOf(d)})
  BY <1>6 DEF TicketInv, ToldIsAnswered
<1> QED  BY ZenonT(60), <1>1, <1>2, <1>3, <1>5, <1>7, OneTicketChanges

\* The sender takes his ticket back before it is answered.
LEMMA ADischarge ==
    ASSUME TicketInv, NEW p \in Players, NEW t \in Tids, DischargeTicket(p, t)
    PROVE  TicketInv'
<1> DEFINE a == [who |-> p, cb |-> ticket[t].cb, what |-> "discharged"]
<1>1. ticket[t] \in Doc /\ ticket[t] # NoDoc /\ told[t] = {}
  BY DEF TicketInv, TicketTypeOK, DischargeTicket, Unanswered, Current, ToldIsAnswered
<1>2. ticket' = [ticket EXCEPT ![t] = NoDoc] /\ told' = [told EXCEPT ![t] = {a}] /\ Kept
  BY <1>1 DEF DischargeTicket, Delete, Tell, TicketInv, TicketTypeOK
<1>3. a \in Said /\ a.what = "discharged"
  BY <1>1 DEF Said, Doc
<1> HIDE DEF a
<1> QED  BY ZenonT(60), <1>1, <1>2, <1>3, OneTicketChanges

\* Whom an answered ticket belongs to takes it away.
LEMMA ATakingAway ==
    ASSUME TicketInv, NEW p \in Players, NEW t \in Tids,
           DismissTicket(p, t) \/ ReleaseTicket(p, t)
    PROVE  TicketInv'
<1> DEFINE said == IF ticket[t].sat = "true" THEN "released" ELSE "dismissed"
           end == [who |-> p, cb |-> ticket[t].cb, what |-> said]
           a == AnswerOf(ticket[t])
<1>1. /\ ticket[t] \in Doc /\ ticket[t] # NoDoc /\ ticket[t].sat \in {"true", "false"}
      /\ told[t] = {a} /\ BelongsTo(p, t) /\ ticket[t].sender # ticket[t].receiver
  BY DEF TicketInv, TicketTypeOK, DismissTicket, ReleaseTicket, Current, ToldIsAnswered
<1>2. Delete(t) /\ Tell(p, t, said) /\ Kept
  BY DEF DismissTicket, ReleaseTicket
<1>3. ticket' = [ticket EXCEPT ![t] = NoDoc] /\ told' = [told EXCEPT ![t] = {a, end}]
  BY <1>1, <1>2 DEF Delete, Tell, TicketInv, TicketTypeOK
<1>4. a \in Said /\ end \in Said
  BY <1>1 DEF TicketInv, TicketTypeOK, Said, Doc
<1>5. /\ end.who = p /\ end.cb = ticket[t].cb /\ end.what \in {"dismissed", "released"}
      /\ a.what = (IF end.what = "released" THEN "confirmed" ELSE "rejected")
      /\ a.who = ticket[t].receiver
  BY <1>1 DEF AnswerOf
<1>6. (a.who = end.who) = ~end.cb
  BY <1>1, <1>5 DEF BelongsTo, ReceivedBy, Doc
<1> HIDE DEF a, end
<1>7. \A x, y \in {a, end} : x.what \in Ending /\ y.what \in Ending => x = y
  BY <1>5 DEF Ending
<1>8. \A e \in {x \in {a, end} : x.what \in {"dismissed", "released"}} : \E b \in {a, end} :
         /\ b.what = (IF e.what = "released" THEN "confirmed" ELSE "rejected")
         /\ (b.who = e.who) = ~e.cb
  BY <1>5, <1>6
<1> DEFINE story == {a, end}
<1>9. /\ story \in SUBSET Said /\ told' = [told EXCEPT ![t] = story]
      /\ \A x, y \in story : x.what \in Ending /\ y.what \in Ending => x = y
      /\ \A e \in {x \in story : x.what \in {"dismissed", "released"}} : \E b \in story :
            /\ b.what = (IF e.what = "released" THEN "confirmed" ELSE "rejected")
            /\ (b.who = e.who) = ~e.cb
  BY <1>3, <1>4, <1>7, <1>8
<1>10. ticket' = [ticket EXCEPT ![t] = NoDoc] /\ Kept /\ ticket[t] # NoDoc
  BY <1>1, <1>2, <1>3
<1> HIDE DEF story
<1> QED  BY <1>9, <1>10, OneTicketChanges

\* Sending gives a tid that nobody has.
LEMMA ASending ==
    ASSUME TicketInv, NEW p \in Players, NEW q \in Players,
           NEW by \in {"pid", "vk", "ok", "fb"}, Send(p, q, by)
    PROVE  TicketInv'
<1> USE DEF TicketInv
<1>1. PICK cb \in BOOLEAN :
        sending' = sending \cup
            {[tid |-> counter + 1,
              doc |-> [sender |-> p, receiver |-> q, by |-> by, cb |-> cb,
                       sat |-> "none", lives |-> TRUE]]}
  BY DEF Send
<1> DEFINE d == [sender |-> p, receiver |-> q, by |-> by, cb |-> cb, sat |-> "none", lives |-> TRUE]
           n == [tid |-> counter + 1, doc |-> d]
<1>2. /\ counter \in Nat /\ counter + 1 \in Tids /\ counter + 1 \in 0 .. MaxTickets
      /\ counter' = counter + 1 /\ p # q /\ UNCHANGED <<net, ticket, known, told>>
  BY TicketsAssumption DEF TicketTypeOK, Tids, Send
<1>3. d \in Doc /\ d.sat = "none" /\ d.sender # d.receiver
  BY <1>2 DEF Doc
<1>4. sending' = sending \cup {n} /\ n.tid = counter + 1 /\ n.doc = d
  BY <1>1
<1> HIDE DEF d
<1>5. n \in [tid : Tids, doc : Doc]
  BY <1>2, <1>3
<1> HIDE DEF n
<1>6. TicketTypeOK'
  BY <1>2, <1>4, <1>5 DEF TicketTypeOK
<1>7. NotStoredYet(counter + 1)
  BY <1>2 DEF TidsAreFresh
<1>8. \A m \in sending : m.tid \in Nat /\ m.tid <= counter
  BY DEF TicketTypeOK, TidsAreFresh, Tids
<1>9. TidsAreFresh'
  BY <1>2, <1>3, <1>4, <1>7, <1>8 DEF TidsAreFresh, NotStoredYet, Tids
<1> QED  BY <1>2, <1>6, <1>9 DEF ToldIsAnswered, OneEnding, AnswerIsKept

\* A ticket is stored, or its insertion fails.
LEMMA AnAdding == TicketInv /\ AddTicket => TicketInv'
<1> SUFFICES ASSUME TicketInv, NEW n \in sending,
                    /\ sending' = sending \ {n}
                    /\ \/ /\ ticket' = [ticket EXCEPT ![n.tid] = n.doc]
                          /\ known' = [known EXCEPT ![n.doc.sender] = @ \cup {n.tid}]
                       \/ UNCHANGED <<ticket, known>>
                    /\ UNCHANGED <<net, counter, told>>
             PROVE  TicketInv'
  BY DEF AddTicket
<1> USE DEF TicketInv
<1>1. /\ n.tid \in Tids /\ n.doc \in Doc /\ n.tid <= counter /\ told[n.tid] = {}
      /\ n.doc.sender # n.doc.receiver /\ n.doc.sat = "none" /\ n.doc.sender \in Players
  BY DEF TicketTypeOK, TidsAreFresh, NotStoredYet, Doc
<1>2. TicketTypeOK'
  BY <1>1 DEF TicketTypeOK
<1>3. \A m \in sending' : m.tid # n.tid
  BY DEF TidsAreFresh
<1>4. TidsAreFresh'
  <2>1. \A t \in Tids : t # n.tid => ticket'[t] = ticket[t]
    BY DEF TicketTypeOK
  <2>2. \A m \in sending' : m \in sending /\ m.tid \in Tids
    BY DEF TicketTypeOK
  <2>3. \A m \in sending' : m.tid <= counter' /\ NotStoredYet(m.tid)'
    BY <1>3, <2>1, <2>2 DEF TidsAreFresh, NotStoredYet
  <2>4. \A t \in Tids : t > counter' => NotStoredYet(t)'
    BY <1>1, <2>1 DEF TicketTypeOK, TidsAreFresh, NotStoredYet, Tids
  <2> QED  BY <2>2, <2>3, <2>4 DEF TidsAreFresh
<1>5. ToldIsAnswered'
  BY <1>1 DEF TicketTypeOK, ToldIsAnswered
<1> QED  BY <1>2, <1>4, <1>5 DEF OneEnding, AnswerIsKept

\* Every step keeps the invariant.
LEMMA TicketInvStep == TicketInv /\ [TicketNext]_ticketVars => TicketInv'
<1> SUFFICES ASSUME TicketInv, [TicketNext]_ticketVars PROVE TicketInv'
  OBVIOUS
<1>1. ASSUME NEW p \in Players, NEW q \in Players,
             SendTicket(p, q) \/ SendTicketVk(p, q) \/ SendTicketOk(p, q) \/ SendTicketFb(p, q)
      PROVE  TicketInv'
  BY <1>1, ASending DEF SendTicket, SendTicketVk, SendTicketOk, SendTicketFb
<1>2. ASSUME NEW p \in Players, NEW ts \in SUBSET Tids, Show(p, ts) PROVE TicketInv'
  BY <1>2 DEF Show, TicketInv, TicketTypeOK, TidsAreFresh, NotStoredYet, ToldIsAnswered,
              OneEnding, AnswerIsKept
<1>3. ASSUME NEW p \in Players, NEW t \in Tids,
             \/ ConfirmTicket(p, t) \/ RejectTicket(p, t)
             \/ ConfirmTicketVk(p, t) \/ ConfirmTicketOk(p, t) \/ ConfirmTicketFb(p, t)
             \/ RejectTicketVk(p, t) \/ RejectTicketOk(p, t) \/ RejectTicketFb(p, t)
      PROVE  TicketInv'
  <2>1. PICK sat \in {"true", "false"} :
           /\ Unanswered(t) /\ ticket[t].receiver = p /\ SetSat(t, sat) /\ Kept
           /\ Tell(p, t, IF sat = "true" THEN "confirmed" ELSE "rejected")
    BY <1>3 DEF ConfirmTicket, RejectTicket, ConfirmTicketVk, ConfirmTicketOk, ConfirmTicketFb,
                RejectTicketVk, RejectTicketOk, RejectTicketFb, AnswerByPid, AnswerByNetwork
  <2> QED  BY <2>1, AnAnswer
<1>4. ASSUME NEW t \in Tids, LifetimeEnds(t) \/ TtlIndexRemoves(t) PROVE TicketInv'
  <2>1. CASE LifetimeEnds(t)
    BY <2>1, AnEnd DEF LifetimeEnds, Current
  <2>2. CASE TtlIndexRemoves(t)
    BY <2>2, AnEnd DEF TtlIndexRemoves, Delete
  <2> QED  BY <1>4, <2>1, <2>2
<1>5. CASE UNCHANGED ticketVars
  BY <1>5 DEF ticketVars, TicketInv, TicketTypeOK, TidsAreFresh, NotStoredYet, ToldIsAnswered,
              OneEnding, AnswerIsKept
<1> QED
  BY <1>1, <1>2, <1>3, <1>4, <1>5, AnAdding, ADischarge, ATakingAway
     DEF TicketNext, ListSendedTickets, ListReceivedTickets, Current

\* The invariant holds in every state.
LEMMA TicketInvariant == TicketSpec => []TicketInv
BY TicketInvInit, TicketInvStep, PTL DEF TicketSpec

\* The variables of the tickets keep their types.
THEOREM TicketTyping == TicketSpec => []TicketTypeOK
<1>1. TicketInv => TicketTypeOK
  BY DEF TicketInv
<1> QED  BY <1>1, TicketInvariant, PTL

\* Of confirmed, rejected and discharged one at most ever happens to a ticket.
THEOREM TicketHasOneOutcome == TicketSpec => []OneOutcome
<1>1. TicketInv => OneOutcome
  <2> SUFFICES ASSUME TicketInv, NEW t \in Tids
               PROVE  Cardinality({a \in told[t] : a.what \in Ending}) <= 1
    BY DEF OneOutcome
  <2> DEFINE endings == {a \in told[t] : a.what \in Ending}
  <2>1. CASE endings = {}
    BY <2>1, FS_EmptySet
  <2>2. ASSUME NEW a \in endings PROVE Cardinality(endings) <= 1
    <3>1. \A b \in endings : b = a
      BY DEF TicketInv, OneEnding
    <3> HIDE DEF endings
    <3>2. endings = {a}
      BY <3>1
    <3>3. Cardinality({a}) = 1
      BY FS_Singleton
    <3> QED  BY <3>2, <3>3
  <2>3. CASE \E a : a \in endings
    BY <2>2, <2>3
  <2> QED  BY <2>1, <2>3
<1> QED  BY <1>1, TicketInvariant, PTL

\* A confirmed ticket is only released and a rejected one only dismissed, by the
\* sender when it was sent with cb and by the receiver otherwise.
THEOREM AnswerReachesItsOwner == TicketSpec => []AnswerIsKept
<1>1. TicketInv => AnswerIsKept
  BY DEF TicketInv
<1> QED  BY <1>1, TicketInvariant, PTL

-----------------------------------------------------------------------------
(***************************************************************************)
(* Purchases.  The numbers that a network was told of an order are the one   *)
(* that the stored purchase has, and what was answered agrees with what is   *)
(* stored.  A number is above 0 before a request inserts a purchase with it,  *)
(* and only a purchase that was stored is listed and consumed, so that what   *)
(* is stored is never taken for no purchase.                                 *)
(***************************************************************************)
ClerkFields ==
    [at : {"rest", "number", "persist", "consume", "save"}, order : {0} \cup Orders \cup Receipts,
     pid : {0} \cup Buyers, num : 0 .. MaxPurchases]
PurchaseTypes ==
    /\ PurchaseTypeOK
    /\ clerk \in [Clerks -> ClerkFields]
    /\ consumed \in [Orders -> Nat]
    /\ validated \in [Buyers -> [Receipts -> Nat]]
WorkIsKnown(r, store) ==
    /\ r.at \in {"number", "persist", "consume"} => r.order \in Orders
    /\ r.at = "persist" => r.num # 0
    /\ r.at = "consume" => store[r.order].num # 0
    /\ r.at = "save" => r.order \in Receipts /\ r.pid \in Buyers
ClerksReady == \A c \in Clerks : WorkIsKnown(clerk[c], purchase)
StoredHasNumber ==
    /\ \A o \in Orders : purchase[o].isConsumed => purchase[o].num # 0
    /\ \A b \in Buyers : \A o \in listed[b] : purchase[o].num # 0
ToldIsStored == \A o \in Orders : \A n \in numbers[o] : n = purchase[o].num
CountedOnce ==
    /\ \A o \in Orders : consumed[o] = (IF purchase[o].isConsumed THEN 1 ELSE 0)
    /\ \A b \in Buyers, r \in Receipts :
          validated[b][r] = (IF [pid |-> b, receipt |-> r] \in receipts THEN 1 ELSE 0)
PurchaseInv == PurchaseTypes /\ ClerksReady /\ StoredHasNumber /\ ToldIsStored /\ CountedOnce

\* A purchase is stored when it has a number.
LEMMA StoredIsNumbered ==
    ASSUME PurchaseInv, NEW o \in Orders
    PROVE  Persisted(o) <=> purchase[o].num # 0
BY DEF PurchaseInv, PurchaseTypes, PurchaseTypeOK, StoredHasNumber, Persisted, NoPurchase

\* A request goes on with work that is known, or is over, and the others are not disturbed.
LEMMA ClerkGoesOn ==
    ASSUME PurchaseInv, NEW c \in Clerks, NEW r \in ClerkFields,
           clerk' = [clerk EXCEPT ![c] = r],
           WorkIsKnown(r, purchase'),
           \A o \in Orders : purchase[o].num # 0 => purchase'[o].num # 0
    PROVE  clerk' \in [Clerks -> ClerkFields] /\ ClerksReady'
BY DEF PurchaseInv, PurchaseTypes, ClerksReady, WorkIsKnown

\* An idle clerk is of its kind.
LEMMA ReadyIsTyped == Ready \in ClerkFields
BY PurchasesAssumption DEF Ready, ClerkFields

\* A clerk that closes its work keeps what is said of clerks.
LEMMA ClerkCloses ==
    ASSUME PurchaseInv, NEW c \in Clerks, Closed(c),
           \A o \in Orders : purchase[o].num # 0 => purchase'[o].num # 0
    PROVE  clerk' \in [Clerks -> ClerkFields] /\ ClerksReady'
<1>1. Ready \in ClerkFields /\ WorkIsKnown(Ready, purchase')
  BY PurchasesAssumption DEF Ready, ClerkFields, WorkIsKnown
<1> QED  BY <1>1, ClerkGoesOn DEF Closed

\* The invariant holds at the start.
LEMMA PurchaseInvInit == PurchaseInit => PurchaseInv
BY PurchasesAssumption DEF PurchaseInit, PurchaseInv, PurchaseTypes, PurchaseTypeOK, ClerksReady,
   StoredHasNumber, ToldIsStored, CountedOnce, ClerkFields, WorkIsKnown, Ready, NoPurchase

\* Every step keeps it.
LEMMA PurchaseInvStep == PurchaseInv /\ [PurchaseNext]_purchaseVars => PurchaseInv'
<1> SUFFICES ASSUME PurchaseInv, [PurchaseNext]_purchaseVars PROVE PurchaseInv'
  OBVIOUS
<1> USE PurchasesAssumption DEF PurchaseInv, PurchaseTypes, PurchaseTypeOK, Does
<1>1. ASSUME NEW c \in Clerks, NEW o \in Orders, TryToGetPurchase(c, o) PROVE PurchaseInv'
  <2> USE <1>1, StoredIsNumbered DEF TryToGetPurchase
  <2>1. CASE Persisted(o)
    <3>1. /\ numbers' = [numbers EXCEPT ![o] = @ \cup {purchase[o].num}]
          /\ UNCHANGED <<purchase, purchNum, receipts, clerk, listed, consumed, validated>>
      BY <2>1
    <3>2. purchase[o].num \in 1 .. MaxPurchases
      BY <2>1
    <3>3. numbers' \in [Orders -> SUBSET (1 .. MaxPurchases)] /\ ToldIsStored'
      BY <3>1, <3>2 DEF ToldIsStored
    <3> QED
      BY <3>1, <3>3 DEF ClerksReady, WorkIsKnown, StoredHasNumber, CountedOnce
  <2>2. CASE ~Persisted(o)
    <3> DEFINE r == [Ready EXCEPT !.at = "number", !.order = o]
    <3>1. r \in ClerkFields /\ WorkIsKnown(r, purchase') /\ clerk' = [clerk EXCEPT ![c] = r]
      <4>1. r.at = "number" /\ r.order = o /\ r.pid = 0 /\ r.num = 0
        BY DEF Ready
      <4>2. clerk' = [clerk EXCEPT ![c] = r]
        BY <2>2
      <4>3. r \in ClerkFields
        BY ReadyIsTyped DEF ClerkFields
      <4> HIDE DEF r
      <4> QED  BY <4>1, <4>2, <4>3 DEF WorkIsKnown
    <3>2. clerk' \in [Clerks -> ClerkFields] /\ ClerksReady'
      BY <3>1, ClerkGoesOn
    <3> QED  BY <2>2, <3>2 DEF ToldIsStored, StoredHasNumber, CountedOnce
  <2> QED  BY ONLY <2>1, <2>2
<1>2. ASSUME NEW c \in Clerks, NEW o \in Orders, PrecheckPurchase(c, o) PROVE PurchaseInv'
  <2> DEFINE r == [Ready EXCEPT !.at = "consume", !.order = o]
  <2>1. purchase[o].num # 0
    BY <1>2 DEF PrecheckPurchase, StoredHasNumber
  <2>2. r \in ClerkFields /\ WorkIsKnown(r, purchase') /\ clerk' = [clerk EXCEPT ![c] = r]
    <3>1. r \in ClerkFields
      BY ReadyIsTyped DEF ClerkFields
    <3>2. WorkIsKnown(r, purchase')
      BY <2>1, <1>2, ReadyIsTyped DEF PrecheckPurchase, WorkIsKnown, ClerkFields
    <3>3. clerk' = [clerk EXCEPT ![c] = r]
      BY <1>2 DEF PrecheckPurchase
    <3> QED  BY <3>1, <3>2, <3>3
  <2>3. clerk' \in [Clerks -> ClerkFields] /\ ClerksReady'
    BY <1>2, <2>2, ClerkGoesOn DEF PrecheckPurchase
  <2> QED  BY <1>2, <2>3 DEF PrecheckPurchase, StoredHasNumber, CountedOnce, ToldIsStored
<1>3. ASSUME NEW c \in Clerks, NEW b \in Buyers, NEW q \in Receipts, TryToGetReceipt(c, b, q)
      PROVE  PurchaseInv'
  <2> DEFINE r == [Ready EXCEPT !.at = "save", !.order = q, !.pid = b]
  <2>1. r \in ClerkFields /\ WorkIsKnown(r, purchase') /\ clerk' = [clerk EXCEPT ![c] = r]
    <3>1. r \in ClerkFields
      BY ReadyIsTyped DEF ClerkFields
    <3>2. WorkIsKnown(r, purchase')
      BY ReadyIsTyped DEF WorkIsKnown, ClerkFields
    <3>3. clerk' = [clerk EXCEPT ![c] = r]
      BY <1>3 DEF TryToGetReceipt
    <3> QED  BY <3>1, <3>2, <3>3
  <2>2. clerk' \in [Clerks -> ClerkFields] /\ ClerksReady'
    BY <1>3, <2>1, ClerkGoesOn DEF TryToGetReceipt
  <2> QED  BY <1>3, <2>2 DEF TryToGetReceipt, StoredHasNumber, CountedOnce, ToldIsStored
<1>4. ASSUME NEW c \in Clerks, GenerateNewPurchaseNum(c) PROVE PurchaseInv'
  <2> DEFINE n == OrderNet[clerk[c].order]
             r == [clerk[c] EXCEPT !.at = "persist", !.num = purchNum[n] + 1]
  <2>1. clerk[c] \in ClerkFields /\ clerk[c].order \in Orders /\ n \in {"vk", "ok"}
    BY <1>4 DEF GenerateNewPurchaseNum, ClerksReady, WorkIsKnown
  <2>2. /\ purchNum[n] \in 0 .. MaxPurchases /\ purchNum[n] < MaxPurchases
        /\ purchNum' = [purchNum EXCEPT ![n] = @ + 1]
        /\ clerk' = [clerk EXCEPT ![c] = r]
        /\ UNCHANGED <<purchase, receipts, listed, numbers, consumed, validated>>
    BY <1>4, <2>1 DEF GenerateNewPurchaseNum
  <2> HIDE DEF n
  <2>3. r \in ClerkFields /\ WorkIsKnown(r, purchase') /\ purchNum' \in [{"vk", "ok"} -> 0 .. MaxPurchases]
    <3>1. purchNum[n] + 1 \in 1 .. MaxPurchases
      BY <2>2
    <3>2. r \in ClerkFields
      <4>1. purchNum[n] + 1 \in 0 .. MaxPurchases
        BY <3>1
      <4> QED  BY <2>1, <4>1 DEF ClerkFields
    <3>3. r.at = "persist" /\ r.order = clerk[c].order /\ r.num = purchNum[n] + 1
      BY <2>1 DEF ClerkFields
    <3>4. WorkIsKnown(r, purchase')
      <4> HIDE DEF r
      <4> QED  BY <2>1, <3>1, <3>3 DEF WorkIsKnown
    <3>5. purchNum' \in [{"vk", "ok"} -> 0 .. MaxPurchases]
      BY <2>1, <2>2, <3>1
    <3> QED  BY <3>2, <3>4, <3>5
  <2>4. clerk' \in [Clerks -> ClerkFields] /\ ClerksReady'
    <3>1. \A o \in Orders : purchase[o].num # 0 => purchase'[o].num # 0
      BY <2>2
    <3>2. PurchaseInv /\ clerk' = [clerk EXCEPT ![c] = r] /\ r \in ClerkFields /\ WorkIsKnown(r, purchase')
      BY <2>2, <2>3
    <3> HIDE DEF r, PurchaseInv
    <3> QED  BY <3>1, <3>2, ClerkGoesOn
  <2> QED  BY <2>2, <2>3, <2>4 DEF StoredHasNumber, CountedOnce, ToldIsStored
<1>5. ASSUME NEW c \in Clerks, TryToPersistPurchase(c) PROVE PurchaseInv'
  <2> USE <1>5, StoredIsNumbered DEF TryToPersistPurchase
  <2> DEFINE o == clerk[c].order
             n == clerk[c].num
  <2>1. o \in Orders /\ n \in 1 .. MaxPurchases
    BY DEF ClerksReady, WorkIsKnown, ClerkFields
  <2>3. CASE Persisted(o)
    <3>1. clerk' \in [Clerks -> ClerkFields] /\ ClerksReady'
      BY <2>3, ClerkCloses
    <3> QED  BY <2>3, <3>1 DEF StoredHasNumber, CountedOnce, ToldIsStored
  <2>4. CASE ~Persisted(o)
    <3>1. /\ purchase' = [purchase EXCEPT ![o] = [num |-> n, isConsumed |-> FALSE]]
          /\ numbers' = [numbers EXCEPT ![o] = @ \cup {n}]
          /\ UNCHANGED <<purchNum, receipts, listed, consumed, validated>>
      BY <2>4
    <3>2. purchase[o].num = 0 /\ ~purchase[o].isConsumed
      BY <2>1, <2>4 DEF StoredHasNumber
    <3> HIDE DEF o, n
    <3>3. \A p \in Orders : purchase'[p] = IF p = o THEN [num |-> n, isConsumed |-> FALSE]
                                                    ELSE purchase[p]
      BY <2>1, <3>1
    <3>4. clerk' \in [Clerks -> ClerkFields] /\ ClerksReady'
      BY <2>1, <3>2, <3>3, ClerkCloses
    <3>5. PurchaseTypes'
      BY <2>1, <3>1, <3>4
    <3>6. StoredHasNumber' /\ CountedOnce'
      BY <2>1, <3>1, <3>2 DEF StoredHasNumber, CountedOnce
    <3>7. ToldIsStored'
      BY <2>1, <3>1, <3>2 DEF ToldIsStored
    <3> QED  BY <3>4, <3>5, <3>6, <3>7
  <2> QED  BY <2>3, <2>4
<1>6. ASSUME NEW c \in Clerks, MarkConsumed(c) PROVE PurchaseInv'
  <2> DEFINE o == clerk[c].order
  <2>1. o \in Orders /\ purchase[o].num # 0
    BY <1>6 DEF MarkConsumed, ClerksReady, WorkIsKnown
  <2>2. CASE purchase[o].isConsumed
    <3>1. clerk' \in [Clerks -> ClerkFields] /\ ClerksReady'
      BY <1>6, <2>2, ClerkCloses DEF MarkConsumed
    <3> QED  BY <1>6, <2>2, <3>1 DEF MarkConsumed, StoredHasNumber, CountedOnce, ToldIsStored
  <2>3. CASE ~purchase[o].isConsumed
    <3>1. /\ purchase' = [purchase EXCEPT ![o].isConsumed = TRUE]
          /\ consumed' = [consumed EXCEPT ![o] = @ + 1]
          /\ UNCHANGED <<purchNum, receipts, listed, numbers, validated>>
      BY <1>6, <2>3 DEF MarkConsumed
    <3> HIDE DEF o
    <3>2. purchase' \in [Orders -> [num : 0 .. MaxPurchases, isConsumed : BOOLEAN]]
      <4> DEFINE d == [purchase[o] EXCEPT !.isConsumed = TRUE]
      <4>1. d \in [num : 0 .. MaxPurchases, isConsumed : BOOLEAN]
        <5>1. purchase[o] \in [num : 0 .. MaxPurchases, isConsumed : BOOLEAN]
          BY <2>1
        <5> QED  BY <5>1
      <4>2. purchase' = [purchase EXCEPT ![o] = d]
        BY <2>1, <3>1
      <4> HIDE DEF d
      <4> QED  BY <4>1, <4>2
    <3>3. \A p \in Orders : purchase'[p].num = purchase[p].num
      BY <2>1, <3>1
    <3>4. consumed' \in [Orders -> Nat]
      BY <2>1, <3>1
    <3>5. clerk' \in [Clerks -> ClerkFields] /\ ClerksReady'
      BY <1>6, <3>3, ClerkCloses DEF MarkConsumed
    <3>6. StoredHasNumber'
      BY <2>1, <3>1, <3>3 DEF StoredHasNumber
    <3>7. CountedOnce'
      BY <2>1, <2>3, <3>1 DEF CountedOnce
    <3> QED  BY <3>1, <3>2, <3>3, <3>4, <3>5, <3>6, <3>7 DEF ToldIsStored
  <2> QED  BY <2>2, <2>3
<1>7. ASSUME NEW c \in Clerks, SaveReceipt(c) PROVE PurchaseInv'
  <2> USE <1>7 DEF SaveReceipt
  <2> DEFINE b == clerk[c].pid
             r == clerk[c].order
             doc == [pid |-> b, receipt |-> r]
  <2>1. b \in Buyers /\ r \in Receipts
    BY DEF ClerksReady, WorkIsKnown
  <2>2. clerk' \in [Clerks -> ClerkFields] /\ ClerksReady'
    BY ClerkCloses
  <2>4. PurchaseTypes' /\ CountedOnce'
    <3>1. CASE doc \in receipts
      BY <2>2, <3>1 DEF CountedOnce
    <3>2. CASE doc \notin receipts
      <4>1. /\ receipts' = receipts \cup {doc}
            /\ validated' = [validated EXCEPT ![b][r] = @ + 1]
            /\ UNCHANGED <<purchase, purchNum, listed, numbers, consumed>>
        BY <3>2
      <4>2. \A x \in Buyers, y \in Receipts :
               [pid |-> x, receipt |-> y] \in receipts' <=>
                  [pid |-> x, receipt |-> y] \in receipts \/ (x = b /\ y = r)
        BY <4>1
      <4>3. doc \in [pid : Buyers, receipt : Receipts]
        BY <2>1
      <4> HIDE DEF b, r
      <4>4. PurchaseTypes'
        BY <2>1, <2>2, <4>1, <4>3
      <4>5. CountedOnce'
        BY <2>1, <3>2, <4>1, <4>2 DEF CountedOnce
      <4> QED  BY <4>4, <4>5
    <3> QED  BY <3>1, <3>2
  <2> QED  BY <2>2, <2>4 DEF StoredHasNumber, ToldIsStored
<1>8. ASSUME NEW c \in Clerks, ClerkFails(c) PROVE PurchaseInv'
  <2> USE <1>8 DEF ClerkFails
  <2>1. clerk' \in [Clerks -> ClerkFields] /\ ClerksReady'
    BY ClerkCloses
  <2> QED  BY <2>1 DEF StoredHasNumber, CountedOnce, ToldIsStored
<1>9. ASSUME NEW b \in Buyers, NEW n \in {"vk", "ok"}, ListPurchases(b, n) PROVE PurchaseInv'
  <2>1. listed' \in [Buyers -> SUBSET Orders] /\ StoredHasNumber'
    BY <1>9, StoredIsNumbered DEF ListPurchases, Mine, StoredHasNumber
  <2> QED  BY <1>9, <2>1 DEF ListPurchases, ClerksReady, WorkIsKnown, CountedOnce, ToldIsStored
<1>10. CASE UNCHANGED purchaseVars
  BY <1>10 DEF purchaseVars, ClerksReady, WorkIsKnown, StoredHasNumber, CountedOnce, ToldIsStored
<1> QED
  BY <1>1, <1>2, <1>3, <1>4, <1>5, <1>6, <1>7, <1>8, <1>9, <1>10
     DEF PurchaseNext, OrderStatusChangeCallback, ServiceCallback, ConsumeVkPurchase,
         ConsumeOkPurchase, ListVkPurchases, ListOkPurchases

\* The invariant holds in every state.
LEMMA PurchaseInvariant == PurchaseSpec => []PurchaseInv
BY PurchaseInvInit, PurchaseInvStep, PTL DEF PurchaseSpec

\* The variables of the purchases keep their types.
THEOREM PurchaseTyping == PurchaseSpec => []PurchaseTypeOK
<1>1. PurchaseInv => PurchaseTypeOK
  BY DEF PurchaseInv, PurchaseTypes
<1> QED  BY <1>1, PurchaseInvariant, PTL

\* Whatever crosses, repeats or fails, a network is told one number of an order, a
\* purchase is consumed once, and a player has a receipt accepted once.
THEOREM NobodyIsPaidTwice == PurchaseSpec => []PaidOnce
<1>1. PurchaseInv => PaidOnce
  <2> SUFFICES ASSUME PurchaseInv PROVE PaidOnce
    OBVIOUS
  <2>1. ASSUME NEW o \in Orders PROVE Cardinality(numbers[o]) <= 1
    <3>1. numbers[o] \subseteq {purchase[o].num}
      BY DEF PurchaseInv, PurchaseTypes, PurchaseTypeOK, ToldIsStored
    <3>2. IsFiniteSet({purchase[o].num}) /\ Cardinality({purchase[o].num}) = 1
      BY FS_Singleton
    <3> QED  BY <3>1, <3>2, FS_Subset
  <2>2. \A o \in Orders : consumed[o] <= 1
    BY DEF PurchaseInv, CountedOnce
  <2>3. \A b \in Buyers, r \in Receipts : validated[b][r] <= 1
    <3> TAKE b \in Buyers, r \in Receipts
    <3>1. validated[b][r] \in {0, 1}
      BY DEF PurchaseInv, CountedOnce
    <3> QED  BY <3>1
  <2> QED  BY <2>1, <2>2, <2>3 DEF PaidOnce
<1> QED  BY <1>1, PurchaseInvariant, PTL
-----------------------------------------------------------------------------
(***************************************************************************)
(* Battles against the game.  What holds of the debt holds whatever the       *)
(* requests do.  What holds of moves and finals rests on the player's         *)
(* requests coming one by one: then the model that a request read is still    *)
(* the one that is stored, unless that one timed out, and a finalised battle  *)
(* is stored only as long as its finaliser is about to unload it.             *)
(***************************************************************************)
InBattle == {"act", "update", "finalize", "unload"}
PveTypes ==
    /\ PveTypeOK
    /\ moved \in [PveBattles -> Nat]
    /\ finals \in [PveBattles -> Nat]
ActorsKnow ==
    /\ \A h \in PveHandlers : actor[h].at \in InBattle => actor[h].model.battle \in 1 .. begun
    /\ \A h \in PveHandlers : actor[h].at = "update" => actor[h].model.moves < MaxMoves
BattlesBegan ==
    /\ me # NoBattle => me.battle \in 1 .. begun
    /\ unloaded \subseteq 1 .. begun
    /\ \A b \in PveBattles : b > begun => moved[b] = 0 /\ finals[b] = 0
OneByOne == \A g, h \in PveHandlers : ~At(g, "rest") /\ ~At(h, "rest") => g = h
ModelIsFresh ==
    \A h \in PveHandlers : actor[h].at \in InBattle => me = NoBattle \/ me = actor[h].model
FinalsOnce ==
    /\ \A b \in PveBattles : finals[b] <= 1
    /\ \A h \in PveHandlers :
          actor[h].at \in {"act", "update", "finalize"} => finals[actor[h].model.battle] = 0
    /\ me # NoBattle /\ finals[me.battle] # 0 => \E h \in PveHandlers : At(h, "unload")
MovesAreKept == me # NoBattle => me.moves = moved[me.battle]
Uncrossed == OneByOne /\ ModelIsFresh /\ FinalsOnce /\ MovesAreKept
PveInv ==
    PveTypes /\ ActorsKnow /\ BattlesBegan /\ DebtIsOfUnfinished /\ (crossed \/ Uncrossed)

Stages == {"rest", "init", "act", "update", "finalize", "unload"}

\* The missing battle and the idle handler are of their kinds.
LEMMA PveConstantsAreTyped ==
    /\ NoBattle \in PveModel
    /\ Resting.at = "rest" /\ Resting \in [at : Stages, model : PveModel]
BY SimplePveAssumption DEF NoBattle, Resting, PveModel, Stages

\* Where the other handlers rest, and go on resting, one at most is at work.
LEMMA OneAtATime ==
    ASSUME NEW h \in PveHandlers, \A g \in PveHandlers : g # h => actor'[g] = actor[g],
           \A g \in PveHandlers : g # h => actor[g].at = "rest"
    PROVE  OneByOne'
BY DEF OneByOne, At

\* What a handler does changes nothing of the other handlers.
LEMMA HandlerStarts ==
    ASSUME PveTypes, NEW h \in PveHandlers, NEW stage \in Stages, NEW model \in PveModel,
           Start(h, stage, model)
    PROVE  /\ actor' \in [PveHandlers -> [at : Stages, model : PveModel]]
           /\ actor'[h].at = stage /\ actor'[h].model = model /\ actor[h].at = "rest"
           /\ \A g \in PveHandlers : g # h => actor'[g] = actor[g]
           /\ crossed' \in BOOLEAN
           /\ ~crossed' => ~crossed /\ \A g \in PveHandlers : actor[g].at = "rest"
<1>1. crossed' \in BOOLEAN
  BY Zenon DEF Start
<1>2. ~crossed' => ~crossed /\ \A g \in PveHandlers : actor[g].at = "rest"
  BY Zenon DEF Start
<1> QED  BY <1>1, <1>2 DEF Start, PveTypes, PveTypeOK, Stages

\* The next stage of a handler keeps its battle and the other handlers.
LEMMA HandlerGoesOn ==
    ASSUME PveTypes, NEW h \in PveHandlers, NEW stage \in Stages, Then(h, stage)
    PROVE  /\ actor' \in [PveHandlers -> [at : Stages, model : PveModel]]
           /\ actor'[h].at = stage /\ actor'[h].model = actor[h].model
           /\ \A g \in PveHandlers : g # h => actor'[g] = actor[g]
BY DEF Then, PveTypes, PveTypeOK, Stages

\* A handler that is done rests, and the others go on.
LEMMA HandlerIsDone ==
    ASSUME PveTypes, NEW h \in PveHandlers, Done(h)
    PROVE  /\ actor' \in [PveHandlers -> [at : Stages, model : PveModel]]
           /\ actor'[h].at = "rest"
           /\ \A g \in PveHandlers : g # h => actor'[g] = actor[g]
BY PveConstantsAreTyped DEF Done, PveTypes, PveTypeOK, Stages

\* A count that goes up is the one of its own battle.
LEMMA GhostCounts ==
    ASSUME NEW ghost \in [PveBattles -> Nat], NEW b \in PveBattles
    PROVE  /\ CountOf(ghost, b) \in [PveBattles -> Nat]
           /\ ~crossed => CountOf(ghost, b)[b] = ghost[b] + 1
           /\ \A c \in PveBattles : c # b => CountOf(ghost, b)[c] = ghost[c]
BY DEF CountOf

\* The invariant holds at the start.
LEMMA PveInvInit == PveInit => PveInv
<1> SUFFICES ASSUME PveInit PROVE PveInv
  OBVIOUS
<1> USE PveConstantsAreTyped, SimplePveAssumption DEF PveInit
<1>1. PveTypes
  <2>1. crossed \in BOOLEAN
    OBVIOUS
  <2>2. actor \in [PveHandlers -> [at : Stages, model : PveModel]]
    OBVIOUS
  <2>3. moved \in [PveBattles -> Nat] /\ finals \in [PveBattles -> Nat] /\ unloaded \subseteq PveBattles
    OBVIOUS
  <2>4. meDebt \in 0 .. MaxBattles /\ begun \in 0 .. MaxBattles /\ me \in PveModel
    OBVIOUS
  <2> QED  BY <2>1, <2>2, <2>3, <2>4 DEF PveTypes, PveTypeOK, Stages
<1>2. ActorsKnow /\ BattlesBegan /\ DebtIsOfUnfinished
  BY DEF ActorsKnow, BattlesBegan, DebtIsOfUnfinished, PveBattles, InBattle
<1>3. Uncrossed
  BY DEF Uncrossed, OneByOne, ModelIsFresh, FinalsOnce, MovesAreKept, At, PveBattles, InBattle
<1> QED  BY <1>1, <1>2, <1>3 DEF PveInv

\* Every step keeps it.
LEMMA PveInvStep == PveInv /\ [PveNext]_pveVars => PveInv'
<1> SUFFICES ASSUME PveInv, [PveNext]_pveVars PROVE PveInv'
  OBVIOUS
<1> USE PveConstantsAreTyped, SimplePveAssumption
    DEF PveInv, PveTypes, PveTypeOK, PveBattles, At, Stages
<1>0. /\ \A h \in PveHandlers : actor[h].model \in PveModel /\ actor[h].model.battle \in 0 .. MaxBattles
                                 /\ actor[h].model.moves \in 0 .. MaxMoves
      /\ me \in PveModel /\ me.battle \in 0 .. MaxBattles /\ me.moves \in 0 .. MaxMoves
  BY DEF PveModel
<1>1. ASSUME NEW h \in PveHandlers, CheckAlreadyPveBattling(h) PROVE PveInv'
  <2>1. /\ Start(h, "init", NoBattle) /\ me = NoBattle
        /\ UNCHANGED <<me, meDebt, begun, moved, finals, unloaded>>
    BY <1>1 DEF CheckAlreadyPveBattling
  <2>2. /\ actor' \in [PveHandlers -> [at : Stages, model : PveModel]]
        /\ actor'[h].at = "init" /\ actor[h].at = "rest"
        /\ \A g \in PveHandlers : g # h => actor'[g] = actor[g]
        /\ crossed' \in BOOLEAN
        /\ ~crossed' => ~crossed /\ \A g \in PveHandlers : actor[g].at = "rest"
    BY <2>1, HandlerStarts
  <2>3. PveTypes'
    BY <2>1, <2>2
  <2>4. ActorsKnow'
    <3>1. ASSUME NEW g \in PveHandlers, actor'[g].at \in InBattle
          PROVE  actor'[g].model.battle \in 1 .. begun'
      BY <1>0, <2>1, <2>2, <3>1 DEF ActorsKnow, BattlesBegan, InBattle
    <3>2. ASSUME NEW g \in PveHandlers, actor'[g].at = "update"
          PROVE  actor'[g].model.moves < MaxMoves
      BY <2>1, <2>2, <3>2 DEF ActorsKnow
    <3> QED  BY <3>1, <3>2 DEF ActorsKnow
  <2>5. BattlesBegan'
    BY <1>0, <2>1, <2>2 DEF ActorsKnow, BattlesBegan, InBattle
  <2>6. DebtIsOfUnfinished'
    BY <1>0, <2>1, <2>2 DEF ActorsKnow, BattlesBegan, DebtIsOfUnfinished, InBattle
  <2>7. ASSUME ~crossed' PROVE Uncrossed'
    <3>1. ~crossed /\ Uncrossed
      BY <2>1, <2>2, <2>7
    <3>2. OneByOne'
      <4>1. \A g \in PveHandlers : g # h => actor[g].at = "rest"
        BY <2>1, <2>2, <2>7, <3>1 DEF Uncrossed, OneByOne, At
      <4> QED  BY <2>2, <4>1, OneAtATime
    <3>3. ModelIsFresh'
      BY <1>0, <2>1, <2>2, <2>7, <3>1 DEF Uncrossed, OneByOne, ModelIsFresh, InBattle
    <3>4. FinalsOnce'
      <4>1. \A b \in PveBattles : finals'[b] <= 1
        BY <1>0, <2>1, <2>2, <3>1 DEF Uncrossed, FinalsOnce
      <4>2. ASSUME NEW g \in PveHandlers, actor'[g].at \in {"act", "update", "finalize"}
            PROVE  finals'[actor'[g].model.battle] = 0
        <5>1. CASE g = h
          BY <1>0, <2>1, <2>2, <2>7, <3>1, <4>2, <5>1
             DEF BattlesBegan, ActorsKnow, Uncrossed, FinalsOnce, InBattle
        <5>2. CASE g # h
          BY <1>0, <2>1, <2>2, <2>7, <3>1, <4>2, <5>2
             DEF ActorsKnow, Uncrossed, OneByOne, FinalsOnce, InBattle
        <5> QED  BY ONLY <5>1, <5>2
      <4>3. ASSUME me' # NoBattle, finals'[me'.battle] # 0
            PROVE  \E g \in PveHandlers : actor'[g].at = "unload"
        <5>1. ASSUME me # NoBattle, finals[me.battle] # 0
              PROVE  \E g \in PveHandlers : actor[g].at = "unload"
          BY <3>1, <5>1 DEF Uncrossed, FinalsOnce
        <5> QED
          BY <1>0, <2>1, <2>2, <2>7, <3>1, <4>3, <5>1
             DEF BattlesBegan, ActorsKnow, Uncrossed, ModelIsFresh, OneByOne, InBattle
      <4> QED  BY <4>1, <4>2, <4>3 DEF FinalsOnce
    <3>5. MovesAreKept'
      BY <1>0, <2>1, <2>2, <2>7, <3>1
         DEF BattlesBegan, ActorsKnow, Uncrossed, ModelIsFresh, MovesAreKept, InBattle
    <3> QED  BY <3>2, <3>3, <3>4, <3>5 DEF Uncrossed
  <2> QED  BY <2>3, <2>4, <2>5, <2>6, <2>7
<1>2. ASSUME NEW h \in PveHandlers, PushBattleModelToOP(h) PROVE PveInv'
  <2>0. /\ Done(h) /\ actor[h].at = "init"
        /\ UNCHANGED <<moved, finals, unloaded, crossed>>
        /\ \/ /\ me = NoBattle /\ begun < MaxBattles /\ begun' = begun + 1
              /\ me' = [battle |-> begun + 1, moves |-> 0] /\ meDebt' = begun + 1
           \/ UNCHANGED <<me, meDebt, begun>>
    BY <1>2 DEF PushBattleModelToOP
  <2>1. /\ UNCHANGED <<moved, finals, unloaded, crossed>>
        /\ me' \in PveModel /\ meDebt' \in 0 .. MaxBattles
        /\ begun' \in 0 .. MaxBattles /\ begun <= begun'
        /\ \/ /\ me = NoBattle /\ begun' = begun + 1 /\ meDebt' = begun + 1
              /\ me'.battle = begun + 1 /\ me'.moves = 0
           \/ UNCHANGED <<me, meDebt, begun>>
    <3>1. CASE UNCHANGED <<me, meDebt, begun>>
      BY <2>0, <3>1
    <3>2. CASE begun < MaxBattles /\ begun' = begun + 1
      <4>1. begun + 1 \in 0 .. MaxBattles
        BY <3>2
      <4>2. [battle |-> begun + 1, moves |-> 0] \in PveModel
        BY <4>1 DEF PveModel
      <4> QED  BY <2>0, <3>2, <4>1, <4>2
    <3> QED  BY <2>0, <3>1, <3>2
  <2>2. /\ actor' \in [PveHandlers -> [at : Stages, model : PveModel]]
        /\ actor'[h].at = "rest" /\ actor[h].at = "init"
        /\ \A g \in PveHandlers : g # h => actor'[g] = actor[g]
    BY <2>0, HandlerIsDone
  <2>3. PveTypes'
    BY SMTT(60), <2>1, <2>2
  <2>a. begun \in 0 .. MaxBattles /\ begun' \in 0 .. MaxBattles /\ begun <= begun' /\ MaxBattles \in Nat
    BY <2>1
  <2>b. ActorsKnow /\ BattlesBegan
    OBVIOUS
  <2>c. ASSUME NEW g \in PveHandlers, actor'[g].at # "rest" PROVE actor'[g] = actor[g]
    BY ONLY <2>2, <2>c
  <2>4. ActorsKnow'
    <3>1. ASSUME NEW g \in PveHandlers, actor'[g].at \in InBattle
          PROVE  actor'[g].model.battle \in 1 .. begun'
      <4>1. actor'[g] = actor[g]
        BY ONLY <2>c, <3>1 DEF InBattle
      <4>2. actor[g].model.battle \in 1 .. begun
        BY ONLY <2>b, <3>1, <4>1 DEF ActorsKnow
      <4> QED  BY ONLY <2>a, <4>1, <4>2
    <3>2. ASSUME NEW g \in PveHandlers, actor'[g].at = "update"
          PROVE  actor'[g].model.moves < MaxMoves
      <4>1. actor'[g] = actor[g]
        BY ONLY <2>c, <3>2
      <4> QED  BY ONLY <2>b, <3>2, <4>1 DEF ActorsKnow
    <3> QED  BY <3>1, <3>2 DEF ActorsKnow
  <2>5. BattlesBegan'
    <3>1. me' # NoBattle => me'.battle \in 1 .. begun'
      <4>1. CASE me'.battle = begun + 1 /\ begun' = begun + 1
        BY ONLY <2>a, <4>1
      <4>2. CASE UNCHANGED <<me, meDebt, begun>>
        BY ONLY <2>b, <4>2 DEF BattlesBegan
      <4> QED  BY ONLY <2>1, <4>1, <4>2
    <3>2. unloaded' \subseteq 1 .. begun'
      BY ONLY <2>1, <2>a, <2>b DEF BattlesBegan
    <3>3. ASSUME NEW b \in PveBattles, b > begun' PROVE moved'[b] = 0 /\ finals'[b] = 0
      <4>1. b > begun
        BY ONLY <2>a, <3>3 DEF PveBattles
      <4> QED  BY ONLY <2>1, <2>b, <4>1 DEF BattlesBegan
    <3> QED  BY ONLY <3>1, <3>2, <3>3 DEF BattlesBegan
  <2>6. DebtIsOfUnfinished'
    BY <1>0, <2>1, <2>2 DEF ActorsKnow, BattlesBegan, DebtIsOfUnfinished, InBattle
  <2>7. ASSUME ~crossed' PROVE Uncrossed'
    <3>1. ~crossed /\ Uncrossed
      BY <2>1, <2>2, <2>7
    <3>2. OneByOne'
      <4>1. \A g \in PveHandlers : g # h => actor[g].at = "rest"
        BY <2>1, <2>2, <2>7, <3>1 DEF Uncrossed, OneByOne, At
      <4> QED  BY <2>2, <4>1, OneAtATime
    <3>3. ModelIsFresh'
      BY ONLY <1>0, <2>1, <2>2, <2>7, <3>1 DEF Uncrossed, OneByOne, ModelIsFresh, InBattle
    <3>4. FinalsOnce'
      <4>1. \A b \in PveBattles : finals'[b] <= 1
        BY <1>0, <2>1, <2>2, <3>1 DEF Uncrossed, FinalsOnce
      <4>2. ASSUME NEW g \in PveHandlers, actor'[g].at \in {"act", "update", "finalize"}
            PROVE  finals'[actor'[g].model.battle] = 0
        <5>1. CASE g = h
          BY ONLY <1>0, <2>1, <2>2, <2>7, <3>1, <4>2, <5>1
             DEF BattlesBegan, ActorsKnow, Uncrossed, FinalsOnce, InBattle
        <5>2. CASE g # h
          BY <1>0, <2>1, <2>2, <2>7, <3>1, <4>2, <5>2
             DEF ActorsKnow, Uncrossed, OneByOne, FinalsOnce, InBattle
        <5> QED  BY ONLY <5>1, <5>2
      <4>3. ASSUME me' # NoBattle, finals'[me'.battle] # 0
            PROVE  \E g \in PveHandlers : actor'[g].at = "unload"
        <5>1. ASSUME me # NoBattle, finals[me.battle] # 0
              PROVE  \E g \in PveHandlers : actor[g].at = "unload"
          BY <3>1, <5>1 DEF Uncrossed, FinalsOnce
        <5>2. CASE me = NoBattle /\ me'.battle = begun + 1 /\ begun' = begun + 1
          <6>1. begun' \in 0 .. MaxBattles /\ begun \in 0 .. MaxBattles
            BY <2>1
          <6>2. begun + 1 \in PveBattles /\ begun + 1 > begun
            BY ONLY <5>2, <6>1 DEF PveBattles
          <6>3. finals[begun + 1] = 0
            BY <6>2 DEF BattlesBegan
          <6> QED  BY ONLY <2>1, <4>3, <5>2, <6>3
        <5>3. CASE UNCHANGED <<me, meDebt, begun>>
          <6>1. PICK g \in PveHandlers : actor[g].at = "unload"
            BY ONLY <2>1, <4>3, <5>1, <5>3
          <6>2. g # h
            BY ONLY <2>2, <6>1
          <6> QED  BY ONLY <2>2, <6>1, <6>2
        <5> QED  BY ONLY <2>1, <5>2, <5>3
      <4> QED  BY <4>1, <4>2, <4>3 DEF FinalsOnce
    <3>5. MovesAreKept'
      <4>1. CASE me'.battle = begun + 1 /\ me'.moves = 0 /\ begun' = begun + 1
        <5>1. begun + 1 \in PveBattles /\ begun + 1 > begun
          BY ONLY <2>a, <4>1 DEF PveBattles
        <5>2. moved'[begun + 1] = 0
          BY ONLY <2>1, <2>b, <5>1 DEF BattlesBegan
        <5> QED  BY ONLY <4>1, <5>2 DEF MovesAreKept
      <4>2. CASE UNCHANGED <<me, meDebt, begun>>
        BY ONLY <2>1, <3>1, <4>2 DEF Uncrossed, MovesAreKept
      <4> QED  BY ONLY <2>1, <4>1, <4>2
    <3> QED  BY <3>2, <3>3, <3>4, <3>5 DEF Uncrossed
  <2> QED  BY <2>3, <2>4, <2>5, <2>6, <2>7
<1>3. ASSUME NEW h \in PveHandlers, GetPveBattleModel(h) PROVE PveInv'
  <2>1. /\ Start(h, "act", me) /\ me # NoBattle
        /\ UNCHANGED <<me, meDebt, begun, moved, finals, unloaded>>
    BY <1>3 DEF GetPveBattleModel
  <2>2. /\ actor' \in [PveHandlers -> [at : Stages, model : PveModel]]
        /\ actor'[h].at = "act" /\ actor'[h].model = me /\ actor[h].at = "rest"
        /\ \A g \in PveHandlers : g # h => actor'[g] = actor[g]
        /\ crossed' \in BOOLEAN
        /\ ~crossed' => ~crossed /\ \A g \in PveHandlers : actor[g].at = "rest"
    BY <2>1, HandlerStarts
  <2>3. PveTypes'
    BY <2>1, <2>2
  <2>4. ActorsKnow'
    <3>1. ASSUME NEW g \in PveHandlers, actor'[g].at \in InBattle
          PROVE  actor'[g].model.battle \in 1 .. begun'
      BY <1>0, <2>1, <2>2, <3>1 DEF ActorsKnow, BattlesBegan, InBattle
    <3>2. ASSUME NEW g \in PveHandlers, actor'[g].at = "update"
          PROVE  actor'[g].model.moves < MaxMoves
      BY <2>1, <2>2, <3>2 DEF ActorsKnow
    <3> QED  BY <3>1, <3>2 DEF ActorsKnow
  <2>5. BattlesBegan'
    BY <1>0, <2>1, <2>2 DEF ActorsKnow, BattlesBegan, InBattle
  <2>6. DebtIsOfUnfinished'
    BY <1>0, <2>1, <2>2 DEF ActorsKnow, BattlesBegan, DebtIsOfUnfinished, InBattle
  <2>7. ASSUME ~crossed' PROVE Uncrossed'
    <3>1. ~crossed /\ Uncrossed
      BY <2>1, <2>2, <2>7
    <3>2. OneByOne'
      <4>1. \A g \in PveHandlers : g # h => actor[g].at = "rest"
        BY <2>1, <2>2, <2>7, <3>1 DEF Uncrossed, OneByOne, At
      <4> QED  BY <2>2, <4>1, OneAtATime
    <3>3. ModelIsFresh'
      BY ONLY <1>0, <2>1, <2>2, <2>7, <3>1 DEF Uncrossed, OneByOne, ModelIsFresh, InBattle
    <3>4. FinalsOnce'
      <4>1. \A b \in PveBattles : finals'[b] <= 1
        BY <1>0, <2>1, <2>2, <3>1 DEF Uncrossed, FinalsOnce
      <4>2. ASSUME NEW g \in PveHandlers, actor'[g].at \in {"act", "update", "finalize"}
            PROVE  finals'[actor'[g].model.battle] = 0
        <5>1. CASE g = h
          BY ONLY <1>0, <2>1, <2>2, <2>7, <3>1, <4>2, <5>1
             DEF BattlesBegan, ActorsKnow, Uncrossed, FinalsOnce, InBattle
        <5>2. CASE g # h
          BY ONLY <1>0, <2>1, <2>2, <2>7, <3>1, <4>2, <5>2
             DEF ActorsKnow, Uncrossed, OneByOne, FinalsOnce, InBattle
        <5> QED  BY ONLY <5>1, <5>2
      <4>3. ASSUME me' # NoBattle, finals'[me'.battle] # 0
            PROVE  \E g \in PveHandlers : actor'[g].at = "unload"
        <5>1. ASSUME me # NoBattle, finals[me.battle] # 0
              PROVE  \E g \in PveHandlers : actor[g].at = "unload"
          BY <3>1, <5>1 DEF Uncrossed, FinalsOnce
        <5> QED
          BY ONLY <1>0, <2>1, <2>2, <2>7, <3>1, <4>3, <5>1
             DEF BattlesBegan, ActorsKnow, Uncrossed, ModelIsFresh, OneByOne, InBattle
      <4> QED  BY <4>1, <4>2, <4>3 DEF FinalsOnce
    <3>5. MovesAreKept'
      BY <1>0, <2>1, <2>2, <2>7, <3>1
         DEF BattlesBegan, ActorsKnow, Uncrossed, ModelIsFresh, MovesAreKept, InBattle
    <3> QED  BY <3>2, <3>3, <3>4, <3>5 DEF Uncrossed
  <2> QED  BY <2>3, <2>4, <2>5, <2>6, <2>7
<1>4. ASSUME NEW h \in PveHandlers, RunCustomActorCode(h) PROVE PveInv'
  <2>1. /\ UNCHANGED <<me, meDebt, begun, moved, finals, unloaded, crossed>>
        /\ actor[h].at = "act"
    BY <1>4 DEF RunCustomActorCode
  <2>2. /\ actor' \in [PveHandlers -> [at : Stages, model : PveModel]]
        /\ \/ actor'[h].at = "finalize" /\ actor'[h].model = actor[h].model
           \/ /\ actor'[h].at = "update" /\ actor'[h].model = actor[h].model
              /\ actor[h].model.moves < MaxMoves
           \/ actor'[h].at = "rest"
        /\ \A g \in PveHandlers : g # h => actor'[g] = actor[g]
    BY <1>4, HandlerGoesOn, HandlerIsDone DEF RunCustomActorCode
  <2>3. PveTypes'
    BY <2>1, <2>2
  <2>4. ActorsKnow'
    <3>1. ASSUME NEW g \in PveHandlers, actor'[g].at \in InBattle
          PROVE  actor'[g].model.battle \in 1 .. begun'
      BY <1>0, <2>1, <2>2, <3>1 DEF ActorsKnow, BattlesBegan, InBattle
    <3>2. ASSUME NEW g \in PveHandlers, actor'[g].at = "update"
          PROVE  actor'[g].model.moves < MaxMoves
      BY <2>1, <2>2, <3>2 DEF ActorsKnow
    <3> QED  BY <3>1, <3>2 DEF ActorsKnow
  <2>5. BattlesBegan'
    BY <1>0, <2>1, <2>2 DEF ActorsKnow, BattlesBegan, InBattle
  <2>6. DebtIsOfUnfinished'
    BY <1>0, <2>1, <2>2 DEF ActorsKnow, BattlesBegan, DebtIsOfUnfinished, InBattle
  <2>7. ASSUME ~crossed' PROVE Uncrossed'
    <3>1. ~crossed /\ Uncrossed
      BY <2>1, <2>2, <2>7
    <3>2. OneByOne'
      <4>1. \A g \in PveHandlers : g # h => actor[g].at = "rest"
        BY <2>1, <2>2, <2>7, <3>1 DEF Uncrossed, OneByOne, At
      <4> QED  BY <2>2, <4>1, OneAtATime
    <3>3. ModelIsFresh'
      BY ONLY <1>0, <2>1, <2>2, <2>7, <3>1 DEF Uncrossed, OneByOne, ModelIsFresh, InBattle
    <3>4. FinalsOnce'
      <4>1. \A b \in PveBattles : finals'[b] <= 1
        BY <1>0, <2>1, <2>2, <3>1 DEF Uncrossed, FinalsOnce
      <4>2. ASSUME NEW g \in PveHandlers, actor'[g].at \in {"act", "update", "finalize"}
            PROVE  finals'[actor'[g].model.battle] = 0
        <5>1. CASE g = h
          BY ONLY SMTT(60), <1>0, <2>1, <2>2, <2>7, <3>1, <4>2, <5>1
             DEF BattlesBegan, ActorsKnow, Uncrossed, FinalsOnce, InBattle
        <5>2. CASE g # h
          BY <1>0, <2>1, <2>2, <2>7, <3>1, <4>2, <5>2
             DEF ActorsKnow, Uncrossed, OneByOne, FinalsOnce, InBattle
        <5> QED  BY <5>1, <5>2
      <4>3. ASSUME me' # NoBattle, finals'[me'.battle] # 0
            PROVE  \E g \in PveHandlers : actor'[g].at = "unload"
        <5>1. ASSUME me # NoBattle, finals[me.battle] # 0
              PROVE  \E g \in PveHandlers : actor[g].at = "unload"
          BY <3>1, <5>1 DEF Uncrossed, FinalsOnce
        <5> QED
          BY <1>0, <2>1, <2>2, <2>7, <3>1, <4>3, <5>1
             DEF BattlesBegan, ActorsKnow, Uncrossed, ModelIsFresh, OneByOne, InBattle
      <4> QED  BY <4>1, <4>2, <4>3 DEF FinalsOnce
    <3>5. MovesAreKept'
      BY <1>0, <2>1, <2>2, <2>7, <3>1
         DEF BattlesBegan, ActorsKnow, Uncrossed, ModelIsFresh, MovesAreKept, InBattle
    <3> QED  BY <3>2, <3>3, <3>4, <3>5 DEF Uncrossed
  <2> QED  BY <2>3, <2>4, <2>5, <2>6, <2>7
<1>5. ASSUME NEW h \in PveHandlers, PushModifiedBattleModelToOP(h) PROVE PveInv'
  <2> DEFINE m == actor[h].model
  <2>0. m \in PveModel /\ m.battle \in PveBattles /\ m.moves < MaxMoves /\ actor[h].at = "update"
    BY <1>5 DEF PushModifiedBattleModelToOP, ActorsKnow, InBattle
  <2>1. /\ Done(h) /\ UNCHANGED <<meDebt, begun, finals, unloaded, crossed>>
        /\ \/ me = NoBattle /\ UNCHANGED <<me, moved>>
           \/ me # NoBattle /\ me' = [m EXCEPT !.moves = @ + 1] /\ moved' = CountOf(moved, m.battle)
    BY <1>5 DEF PushModifiedBattleModelToOP
  <2>2. /\ actor' \in [PveHandlers -> [at : Stages, model : PveModel]]
        /\ actor'[h].at = "rest" /\ actor[h].at = "update"
        /\ \A g \in PveHandlers : g # h => actor'[g] = actor[g]
        /\ moved' \in [PveBattles -> Nat] /\ me' \in PveModel
        /\ \/ me = NoBattle /\ UNCHANGED <<me, moved>>
           \/ /\ me # NoBattle /\ me'.battle = actor[h].model.battle
              /\ me'.moves = actor[h].model.moves + 1
              /\ ~crossed => moved'[me'.battle] = moved[me'.battle] + 1
              /\ \A b \in PveBattles : b # me'.battle => moved'[b] = moved[b]
    <3>1. /\ CountOf(moved, m.battle) \in [PveBattles -> Nat]
          /\ ~crossed => CountOf(moved, m.battle)[m.battle] = moved[m.battle] + 1
          /\ \A b \in PveBattles : b # m.battle => CountOf(moved, m.battle)[b] = moved[b]
      BY <2>0, GhostCounts
    <3> HIDE DEF m
    <3>2. LET n == [m EXCEPT !.moves = @ + 1] IN
             n \in PveModel /\ n.battle = m.battle /\ n.moves = m.moves + 1
      <4>0. m.moves \in 0 .. MaxMoves /\ m.moves < MaxMoves
        BY <2>0 DEF PveModel
      <4>1. m.moves + 1 \in 0 .. MaxMoves
        BY <4>0, SimplePveAssumption
      <4> QED  BY <2>0, <4>1 DEF PveModel
    <3>3. /\ actor' \in [PveHandlers -> [at : Stages, model : PveModel]]
          /\ actor'[h].at = "rest"
          /\ \A g \in PveHandlers : g # h => actor'[g] = actor[g]
      BY <2>1, HandlerIsDone
    <3>4. CASE me = NoBattle /\ UNCHANGED <<me, moved>>
      BY SMTT(60), <2>0, <3>3, <3>4
    <3>5. CASE me # NoBattle /\ me' = [m EXCEPT !.moves = @ + 1] /\ moved' = CountOf(moved, m.battle)
      BY <2>0, <3>1, <3>2, <3>3, <3>5 DEF m
    <3> QED  BY <2>1, <3>4, <3>5
  <2> HIDE DEF m
  <2>3. PveTypes'
    BY <2>1, <2>2
  <2>4. ActorsKnow'
    <3>1. ASSUME NEW g \in PveHandlers, actor'[g].at \in InBattle
          PROVE  actor'[g].model.battle \in 1 .. begun'
      BY ZenonT(60), <1>0, <2>1, <2>2, <3>1 DEF ActorsKnow, BattlesBegan, InBattle
    <3>2. ASSUME NEW g \in PveHandlers, actor'[g].at = "update"
          PROVE  actor'[g].model.moves < MaxMoves
      BY <2>1, <2>2, <3>2 DEF ActorsKnow
    <3> QED  BY <3>1, <3>2 DEF ActorsKnow
  <2>5. BattlesBegan'
    BY SMTT(60), <1>0, <2>1, <2>2 DEF ActorsKnow, BattlesBegan, InBattle
  <2>6. DebtIsOfUnfinished'
    BY <1>0, <2>1, <2>2 DEF ActorsKnow, BattlesBegan, DebtIsOfUnfinished, InBattle
  <2>7. ASSUME ~crossed' PROVE Uncrossed'
    <3>1. ~crossed /\ Uncrossed
      BY <2>1, <2>2, <2>7
    <3>2. OneByOne'
      <4>1. \A g \in PveHandlers : g # h => actor[g].at = "rest"
        BY <2>1, <2>2, <2>7, <3>1 DEF Uncrossed, OneByOne, At
      <4> QED  BY <2>2, <4>1, OneAtATime
    <3>3. ModelIsFresh'
      BY ONLY ZenonT(60), <1>0, <2>1, <2>2, <2>7, <3>1 DEF Uncrossed, OneByOne, ModelIsFresh, InBattle
    <3>4. FinalsOnce'
      <4>1. \A b \in PveBattles : finals'[b] <= 1
        BY <1>0, <2>1, <2>2, <3>1 DEF Uncrossed, FinalsOnce
      <4>2. ASSUME NEW g \in PveHandlers, actor'[g].at \in {"act", "update", "finalize"}
            PROVE  finals'[actor'[g].model.battle] = 0
        <5>1. CASE g = h
          BY ONLY SMTT(60), <1>0, <2>1, <2>2, <2>7, <3>1, <4>2, <5>1
             DEF BattlesBegan, ActorsKnow, Uncrossed, FinalsOnce, InBattle
        <5>2. CASE g # h
          BY ONLY SMTT(60), <1>0, <2>1, <2>2, <2>7, <3>1, <4>2, <5>2
             DEF ActorsKnow, Uncrossed, OneByOne, FinalsOnce, InBattle
        <5> QED  BY ONLY <5>1, <5>2
      <4>3. ASSUME me' # NoBattle, finals'[me'.battle] # 0
            PROVE  \E g \in PveHandlers : actor'[g].at = "unload"
        <5>1. ASSUME me # NoBattle, finals[me.battle] # 0
              PROVE  \E g \in PveHandlers : actor[g].at = "unload"
          BY <3>1, <5>1 DEF Uncrossed, FinalsOnce
        <5> QED
          BY ZenonT(60), <1>0, <2>1, <2>2, <2>7, <3>1, <4>3, <5>1
             DEF BattlesBegan, ActorsKnow, Uncrossed, ModelIsFresh, OneByOne, InBattle
      <4> QED  BY ONLY <4>1, <4>2, <4>3 DEF FinalsOnce
    <3>5. MovesAreKept'
      BY ONLY SMTT(60), <1>0, <2>1, <2>2, <2>7, <3>1
         DEF BattlesBegan, ActorsKnow, Uncrossed, ModelIsFresh, MovesAreKept, InBattle
    <3> QED  BY <3>2, <3>3, <3>4, <3>5 DEF Uncrossed
  <2> QED  BY <2>3, <2>4, <2>5, <2>6, <2>7
<1>6. ASSUME NEW h \in PveHandlers, RunCustomFinalizerCode(h) PROVE PveInv'
  <2> DEFINE over == actor[h].model.battle
  <2>0. over \in PveBattles /\ over <= begun /\ actor[h].at = "finalize"
    BY <1>6 DEF RunCustomFinalizerCode, ActorsKnow, InBattle
  <2>1. UNCHANGED <<me, meDebt, begun, moved, unloaded, crossed>>
    BY <1>6 DEF RunCustomFinalizerCode
  <2>2. /\ actor' \in [PveHandlers -> [at : Stages, model : PveModel]]
        /\ actor'[h].at = "unload" /\ actor'[h].model = actor[h].model
        /\ \A g \in PveHandlers : g # h => actor'[g] = actor[g]
        /\ over \in PveBattles /\ over <= begun /\ actor[h].at = "finalize"
        /\ finals' \in [PveBattles -> Nat]
        /\ ~crossed => finals[over] = 0 /\ finals'[over] = 1
        /\ \A c \in PveBattles : c # over => finals'[c] = finals[c]
    <3>1. Then(h, "unload") /\ finals' = CountOf(finals, over)
      BY <1>6 DEF RunCustomFinalizerCode
    <3>2. /\ CountOf(finals, over) \in [PveBattles -> Nat]
          /\ ~crossed => CountOf(finals, over)[over] = finals[over] + 1
          /\ \A c \in PveBattles : c # over => CountOf(finals, over)[c] = finals[c]
      BY <2>0, GhostCounts
    <3>3. /\ actor' \in [PveHandlers -> [at : Stages, model : PveModel]]
          /\ actor'[h].at = "unload" /\ actor'[h].model = actor[h].model
          /\ \A g \in PveHandlers : g # h => actor'[g] = actor[g]
      BY <3>1, HandlerGoesOn
    <3>4. ~crossed => finals[over] = 0
      BY <2>0 DEF Uncrossed, FinalsOnce
    <3> HIDE DEF over
    <3> QED  BY ONLY <2>0, <3>1, <3>2, <3>3, <3>4
  <2> HIDE DEF over
  <2>3. PveTypes'
    BY <2>1, <2>2
  <2>4. ActorsKnow'
    <3>1. ASSUME NEW g \in PveHandlers, actor'[g].at \in InBattle
          PROVE  actor'[g].model.battle \in 1 .. begun'
      BY ZenonT(60), <1>0, <2>1, <2>2, <3>1 DEF ActorsKnow, BattlesBegan, InBattle
    <3>2. ASSUME NEW g \in PveHandlers, actor'[g].at = "update"
          PROVE  actor'[g].model.moves < MaxMoves
      BY <2>1, <2>2, <3>2 DEF ActorsKnow
    <3> QED  BY <3>1, <3>2 DEF ActorsKnow
  <2>5. BattlesBegan'
    BY SMTT(60), <1>0, <2>1, <2>2 DEF ActorsKnow, BattlesBegan, InBattle
  <2>6. DebtIsOfUnfinished'
    BY <1>0, <2>1, <2>2 DEF ActorsKnow, BattlesBegan, DebtIsOfUnfinished, InBattle
  <2>7. ASSUME ~crossed' PROVE Uncrossed'
    <3>1. ~crossed /\ Uncrossed
      BY <2>1, <2>2, <2>7
    <3>2. OneByOne'
      <4>1. \A g \in PveHandlers : g # h => actor[g].at = "rest"
        BY <2>1, <2>2, <2>7, <3>1 DEF Uncrossed, OneByOne, At
      <4> QED  BY <2>2, <4>1, OneAtATime
    <3>3. ModelIsFresh'
      BY ONLY ZenonT(60), <1>0, <2>1, <2>2, <2>7, <3>1 DEF Uncrossed, OneByOne, ModelIsFresh, InBattle
    <3>4. FinalsOnce'
      <4>1. \A b \in PveBattles : finals'[b] <= 1
        BY ONLY SMTT(60), <1>0, <2>1, <2>2, <3>1 DEF Uncrossed, FinalsOnce
      <4>2. ASSUME NEW g \in PveHandlers, actor'[g].at \in {"act", "update", "finalize"}
            PROVE  finals'[actor'[g].model.battle] = 0
        <5>1. CASE g = h
          BY <1>0, <2>1, <2>2, <2>7, <3>1, <4>2, <5>1
             DEF BattlesBegan, ActorsKnow, Uncrossed, FinalsOnce, InBattle
        <5>2. CASE g # h
          BY ONLY ZenonT(60), <1>0, <2>1, <2>2, <2>7, <3>1, <4>2, <5>2
             DEF ActorsKnow, Uncrossed, OneByOne, FinalsOnce, InBattle
        <5> QED  BY ONLY <5>1, <5>2
      <4>3. ASSUME me' # NoBattle, finals'[me'.battle] # 0
            PROVE  \E g \in PveHandlers : actor'[g].at = "unload"
        <5>1. ASSUME me # NoBattle, finals[me.battle] # 0
              PROVE  \E g \in PveHandlers : actor[g].at = "unload"
          BY <3>1, <5>1 DEF Uncrossed, FinalsOnce
        <5> QED
          BY <1>0, <2>1, <2>2, <2>7, <3>1, <4>3, <5>1
             DEF BattlesBegan, ActorsKnow, Uncrossed, ModelIsFresh, OneByOne, InBattle
      <4> QED  BY <4>1, <4>2, <4>3 DEF FinalsOnce
    <3>5. MovesAreKept'
      BY <1>0, <2>1, <2>2, <2>7, <3>1
         DEF BattlesBegan, ActorsKnow, Uncrossed, ModelIsFresh, MovesAreKept, InBattle
    <3> QED  BY <3>2, <3>3, <3>4, <3>5 DEF Uncrossed
  <2> QED  BY <2>3, <2>4, <2>5, <2>6, <2>7
<1>7. ASSUME NEW h \in PveHandlers, UnloadBattleModelFromOP(h) PROVE PveInv'
  <2>1. /\ Done(h) /\ actor[h].at = "unload" /\ me' = NoBattle /\ meDebt' = 0
        /\ unloaded' = unloaded \cup {actor[h].model.battle}
        /\ UNCHANGED <<begun, moved, finals, crossed>>
    BY <1>7 DEF UnloadBattleModelFromOP
  <2>2. /\ actor' \in [PveHandlers -> [at : Stages, model : PveModel]]
        /\ actor'[h].at = "rest"
        /\ \A g \in PveHandlers : g # h => actor'[g] = actor[g]
        /\ actor[h].model.battle \in 1 .. begun
    BY <2>1, HandlerIsDone DEF ActorsKnow, InBattle
  <2>3. PveTypes'
    <3>0. actor[h].model.battle \in PveBattles
      BY <1>0, <2>2
    <3>1. unloaded' \subseteq PveBattles
      BY <2>1, <3>0
    <3>2. me' \in PveModel /\ meDebt' \in 0 .. MaxBattles
      BY <2>1
    <3> QED  BY <2>1, <2>2, <3>1, <3>2
  <2>4. ActorsKnow'
    <3>1. ASSUME NEW g \in PveHandlers, actor'[g].at \in InBattle
          PROVE  actor'[g].model.battle \in 1 .. begun'
      BY <1>0, <2>1, <2>2, <3>1 DEF ActorsKnow, BattlesBegan, InBattle
    <3>2. ASSUME NEW g \in PveHandlers, actor'[g].at = "update"
          PROVE  actor'[g].model.moves < MaxMoves
      BY <2>1, <2>2, <3>2 DEF ActorsKnow
    <3> QED  BY <3>1, <3>2 DEF ActorsKnow
  <2>5. BattlesBegan'
    BY <1>0, <2>1, <2>2 DEF ActorsKnow, BattlesBegan, InBattle
  <2>6. DebtIsOfUnfinished'
    BY <1>0, <2>1, <2>2 DEF ActorsKnow, BattlesBegan, DebtIsOfUnfinished, InBattle
  <2>7. ASSUME ~crossed' PROVE Uncrossed'
    <3>1. ~crossed /\ Uncrossed
      BY <2>1, <2>2, <2>7
    <3>2. OneByOne'
      <4>1. \A g \in PveHandlers : g # h => actor[g].at = "rest"
        BY <2>1, <2>2, <2>7, <3>1 DEF Uncrossed, OneByOne, At
      <4> QED  BY <2>2, <4>1, OneAtATime
    <3>3. ModelIsFresh'
      BY <1>0, <2>1, <2>2, <2>7, <3>1 DEF Uncrossed, OneByOne, ModelIsFresh, InBattle
    <3>4. FinalsOnce'
      <4>1. \A b \in PveBattles : finals'[b] <= 1
        BY <1>0, <2>1, <2>2, <3>1 DEF Uncrossed, FinalsOnce
      <4>2. ASSUME NEW g \in PveHandlers, actor'[g].at \in {"act", "update", "finalize"}
            PROVE  finals'[actor'[g].model.battle] = 0
        <5>1. CASE g = h
          BY ONLY SMTT(60), <1>0, <2>1, <2>2, <2>7, <3>1, <4>2, <5>1
             DEF BattlesBegan, ActorsKnow, Uncrossed, FinalsOnce, InBattle
        <5>2. CASE g # h
          BY <1>0, <2>1, <2>2, <2>7, <3>1, <4>2, <5>2
             DEF ActorsKnow, Uncrossed, OneByOne, FinalsOnce, InBattle
        <5> QED  BY ONLY <5>1, <5>2
      <4>3. ASSUME me' # NoBattle, finals'[me'.battle] # 0
            PROVE  \E g \in PveHandlers : actor'[g].at = "unload"
        <5>1. ASSUME me # NoBattle, finals[me.battle] # 0
              PROVE  \E g \in PveHandlers : actor[g].at = "unload"
          BY <3>1, <5>1 DEF Uncrossed, FinalsOnce
        <5> QED
          BY <1>0, <2>1, <2>2, <2>7, <3>1, <4>3, <5>1
             DEF BattlesBegan, ActorsKnow, Uncrossed, ModelIsFresh, OneByOne, InBattle
      <4> QED  BY <4>1, <4>2, <4>3 DEF FinalsOnce
    <3>5. MovesAreKept'
      BY <1>0, <2>1, <2>2, <2>7, <3>1
         DEF BattlesBegan, ActorsKnow, Uncrossed, ModelIsFresh, MovesAreKept, InBattle
    <3> QED  BY <3>2, <3>3, <3>4, <3>5 DEF Uncrossed
  <2> QED  BY <2>3, <2>4, <2>5, <2>6, <2>7
<1>8. ASSUME NEW h \in PveHandlers, PveHandlerFails(h) PROVE PveInv'
  <2>1. /\ Done(h) /\ UNCHANGED <<me, meDebt, begun, moved, finals, unloaded>>
        /\ crossed' = (crossed \/ At(h, "unload"))
    BY <1>8 DEF PveHandlerFails
  <2>2. /\ actor' \in [PveHandlers -> [at : Stages, model : PveModel]]
        /\ actor'[h].at = "rest"
        /\ \A g \in PveHandlers : g # h => actor'[g] = actor[g]
        /\ crossed' \in BOOLEAN
        /\ ~crossed' => ~crossed /\ actor[h].at # "unload"
    <3>1. crossed' \in BOOLEAN /\ (~crossed' => ~crossed /\ actor[h].at # "unload")
      BY <2>1, Zenon DEF At
    <3> QED  BY <2>1, <3>1, HandlerIsDone
  <2>3. PveTypes'
    BY <2>1, <2>2
  <2>4. ActorsKnow'
    <3>1. ASSUME NEW g \in PveHandlers, actor'[g].at \in InBattle
          PROVE  actor'[g].model.battle \in 1 .. begun'
      BY <1>0, <2>1, <2>2, <3>1 DEF ActorsKnow, BattlesBegan, InBattle
    <3>2. ASSUME NEW g \in PveHandlers, actor'[g].at = "update"
          PROVE  actor'[g].model.moves < MaxMoves
      BY <2>1, <2>2, <3>2 DEF ActorsKnow
    <3> QED  BY <3>1, <3>2 DEF ActorsKnow
  <2>5. BattlesBegan'
    BY <1>0, <2>1, <2>2 DEF ActorsKnow, BattlesBegan, InBattle
  <2>6. DebtIsOfUnfinished'
    BY <1>0, <2>1, <2>2 DEF ActorsKnow, BattlesBegan, DebtIsOfUnfinished, InBattle
  <2>7. ASSUME ~crossed' PROVE Uncrossed'
    <3>1. ~crossed /\ Uncrossed
      BY <2>1, <2>2, <2>7
    <3>2. OneByOne'
      <4>1. \A g \in PveHandlers : g # h => actor[g].at = "rest"
        BY <1>8, <2>2, <2>7, <3>1 DEF PveHandlerFails, Uncrossed, OneByOne, At
      <4> QED  BY <2>2, <4>1, OneAtATime
    <3>3. ModelIsFresh'
      BY ONLY <1>0, <2>1, <2>2, <2>7, <3>1 DEF Uncrossed, OneByOne, ModelIsFresh, InBattle
    <3>4. FinalsOnce'
      <4>1. \A b \in PveBattles : finals'[b] <= 1
        BY <1>0, <2>1, <2>2, <3>1 DEF Uncrossed, FinalsOnce
      <4>2. ASSUME NEW g \in PveHandlers, actor'[g].at \in {"act", "update", "finalize"}
            PROVE  finals'[actor'[g].model.battle] = 0
        <5>1. CASE g = h
          BY SMTT(60), <1>0, <2>1, <2>2, <2>7, <3>1, <4>2, <5>1
             DEF BattlesBegan, ActorsKnow, Uncrossed, FinalsOnce, InBattle
        <5>2. CASE g # h
          BY <1>0, <2>1, <2>2, <2>7, <3>1, <4>2, <5>2
             DEF ActorsKnow, Uncrossed, OneByOne, FinalsOnce, InBattle
        <5> QED  BY ONLY <5>1, <5>2
      <4>3. ASSUME me' # NoBattle, finals'[me'.battle] # 0
            PROVE  \E g \in PveHandlers : actor'[g].at = "unload"
        <5>1. ASSUME me # NoBattle, finals[me.battle] # 0
              PROVE  \E g \in PveHandlers : actor[g].at = "unload"
          BY <3>1, <5>1 DEF Uncrossed, FinalsOnce
        <5> QED
          BY <1>0, <2>1, <2>2, <2>7, <3>1, <4>3, <5>1
             DEF BattlesBegan, ActorsKnow, Uncrossed, ModelIsFresh, OneByOne, InBattle
      <4> QED  BY <4>1, <4>2, <4>3 DEF FinalsOnce
    <3>5. MovesAreKept'
      BY <1>0, <2>1, <2>2, <2>7, <3>1
         DEF BattlesBegan, ActorsKnow, Uncrossed, ModelIsFresh, MovesAreKept, InBattle
    <3> QED  BY <3>2, <3>3, <3>4, <3>5 DEF Uncrossed
  <2> QED  BY <2>3, <2>4, <2>5, <2>6, <2>7
<1>9. CASE CheckPveBattleDebt \/ BattleTimesOut \/ UNCHANGED pveVars
  <2>1. /\ UNCHANGED <<begun, actor, moved, finals, unloaded, crossed>>
        /\ me' \in {me, NoBattle} /\ meDebt' \in {meDebt, 0}
    BY <1>9 DEF CheckPveBattleDebt, BattleTimesOut, pveVars
  <2>2. actor' \in [PveHandlers -> [at : Stages, model : PveModel]]
    BY <2>1
  <2>3. PveTypes'
    <3>1. me' \in PveModel /\ meDebt' \in 0 .. MaxBattles
      BY <2>1
    <3> QED  BY SMTT(60), <2>1, <2>2, <3>1
  <2>4. ActorsKnow'
    <3>1. ASSUME NEW g \in PveHandlers, actor'[g].at \in InBattle
          PROVE  actor'[g].model.battle \in 1 .. begun'
      BY <1>0, <2>1, <2>2, <3>1 DEF ActorsKnow, BattlesBegan, InBattle
    <3>2. ASSUME NEW g \in PveHandlers, actor'[g].at = "update"
          PROVE  actor'[g].model.moves < MaxMoves
      BY <2>1, <2>2, <3>2 DEF ActorsKnow
    <3> QED  BY <3>1, <3>2 DEF ActorsKnow
  <2>5. BattlesBegan'
    BY <1>0, <2>1, <2>2 DEF ActorsKnow, BattlesBegan, InBattle
  <2>6. DebtIsOfUnfinished'
    BY SMTT(60), <1>0, <2>1, <2>2 DEF ActorsKnow, BattlesBegan, DebtIsOfUnfinished, InBattle
  <2>7. ASSUME ~crossed' PROVE Uncrossed'
    <3>1. ~crossed /\ Uncrossed
      BY <2>1, <2>2, <2>7
    <3>2. OneByOne'
      BY <1>0, <2>1, <2>2, <2>7, <3>1 DEF Uncrossed, OneByOne
    <3>3. ModelIsFresh'
      BY <1>0, <2>1, <2>2, <2>7, <3>1 DEF Uncrossed, OneByOne, ModelIsFresh, InBattle
    <3>4. FinalsOnce'
      <4>1. \A b \in PveBattles : finals'[b] <= 1
        BY <1>0, <2>1, <2>2, <3>1 DEF Uncrossed, FinalsOnce
      <4>2. ASSUME NEW g \in PveHandlers, actor'[g].at \in {"act", "update", "finalize"}
            PROVE  finals'[actor'[g].model.battle] = 0
        BY <2>1, <3>1, <4>2 DEF Uncrossed, FinalsOnce
      <4>3. ASSUME me' # NoBattle, finals'[me'.battle] # 0
            PROVE  \E g \in PveHandlers : actor'[g].at = "unload"
        <5>1. ASSUME me # NoBattle, finals[me.battle] # 0
              PROVE  \E g \in PveHandlers : actor[g].at = "unload"
          BY <3>1, <5>1 DEF Uncrossed, FinalsOnce
        <5> QED
          BY ONLY <1>0, <2>1, <2>2, <2>7, <3>1, <4>3, <5>1
             DEF BattlesBegan, ActorsKnow, Uncrossed, ModelIsFresh, OneByOne, InBattle
      <4> QED  BY <4>1, <4>2, <4>3 DEF FinalsOnce
    <3>5. MovesAreKept'
      BY <1>0, <2>1, <2>2, <2>7, <3>1
         DEF BattlesBegan, ActorsKnow, Uncrossed, ModelIsFresh, MovesAreKept, InBattle
    <3> QED  BY <3>2, <3>3, <3>4, <3>5 DEF Uncrossed
  <2> QED  BY <2>3, <2>4, <2>5, <2>6, <2>7
<1> QED
  BY <1>1, <1>2, <1>3, <1>4, <1>5, <1>6, <1>7, <1>8, <1>9 DEF PveNext

\* The invariant holds in every state.
LEMMA PveInvariant == PveSpec => []PveInv
BY PveInvInit, PveInvStep, PTL DEF PveSpec

\* The variables of the battles against the game keep their types.
THEOREM PveTyping == PveSpec => []PveTypeOK
<1>1. PveInv => PveTypeOK
  BY DEF PveInv, PveTypes
<1> QED  BY <1>1, PveInvariant, PTL

\* A battle is finalised once and its model holds every move that was answered, as
\* long as the requests of the player do not cross and a finaliser gets to unload.
THEOREM BattleIsFinalisedOnce == PveSpec => []BattleIsPlayedOnce
<1>1. PveInv => BattleIsPlayedOnce
  BY DEF PveInv, Uncrossed, FinalsOnce, MovesAreKept, BattleIsPlayedOnce
<1> QED  BY <1>1, PveInvariant, PTL

\* No debt is told of a battle that was unloaded by its finaliser.
THEOREM NoDebtOfFinished == PveSpec => []DebtIsOfUnfinished
<1>1. PveInv => DebtIsOfUnfinished
  BY DEF PveInv
<1> QED  BY <1>1, PveInvariant, PTL

(***************************************************************************)
(* The messages of a battle.  Two lemmas about sequences of messages come   *)
(* first.  A message that is put at the end comes after the others, if it is *)
(* later than those of its sender.                                          *)
(***************************************************************************)
LEMMA AppendedMoves ==
    ASSUME NEW q \in Seq(Message), NEW m \in Message
    PROVE  /\ Append(q, m) \in Seq(Message)
           /\ ToSet(Append(q, m)) = ToSet(q) \cup {m}
           /\ q # <<>> => Head(Append(q, m)) = Head(q)
           /\ Append(q, m) # <<>>
           /\ InOrder(q) /\ (\A n \in ToSet(q) : n.from = m.from => n.mysq < m.mysq)
                => InOrder(Append(q, m))
<1> DEFINE r == Append(q, m)
<1>1. /\ r \in Seq(Message) /\ Len(r) = Len(q) + 1 /\ DOMAIN r = 1 .. Len(q) + 1
      /\ DOMAIN q = 1 .. Len(q) /\ Len(q) \in Nat
      /\ r[Len(q) + 1] = m /\ \A i \in 1 .. Len(q) : r[i] = q[i]
  OBVIOUS
<1>2. r # <<>> /\ (q # <<>> => Head(r) = Head(q))
  <2> DEFINE M == Message
  <2>1. q \in Seq(M) /\ m \in M
    OBVIOUS
  <2>2. r # <<>>
    BY <1>1
  <2> HIDE DEF M
  <2>3. Head(r) = IF q = <<>> THEN m ELSE Head(q)
    BY ONLY <2>1, HeadTailAppend
  <2> QED  BY ONLY <2>2, <2>3
<1> HIDE DEF r
<1>3. ToSet(r) = ToSet(q) \cup {m}
  <2>1. \A x \in ToSet(r) : x \in ToSet(q) \cup {m}
    BY <1>1 DEF ToSet
  <2>2. \A x \in ToSet(q) \cup {m} : x \in ToSet(r)
    BY ONLY <1>1 DEF ToSet
  <2> QED  BY <2>1, <2>2
<1>4. ASSUME InOrder(q), \A n \in ToSet(q) : n.from = m.from => n.mysq < m.mysq
      PROVE  InOrder(r)
  <2> SUFFICES ASSUME NEW i \in DOMAIN r, NEW j \in DOMAIN r, i < j, r[i].from = r[j].from
               PROVE  r[i].mysq < r[j].mysq
    BY DEF InOrder
  <2>1. i \in DOMAIN q /\ r[i] = q[i] /\ q[i] \in ToSet(q)
    BY <1>1 DEF ToSet
  <2>2. CASE j \in DOMAIN q
    BY <1>1, <1>4, <2>1, <2>2 DEF InOrder
  <2>3. CASE j = Len(q) + 1
    BY <1>1, <1>4, <2>1, <2>3
  <2> QED  BY <1>1, <2>2, <2>3
<1> QED  BY <1>1, <1>2, <1>3, <1>4 DEF r

\* The head of a sequence in order comes before the rest, which is in order.
LEMMA RemainingMoves ==
    ASSUME NEW q \in Seq(Message), q # <<>>
    PROVE  /\ Tail(q) \in Seq(Message) /\ Head(q) \in Message
           /\ ToSet(q) = ToSet(Tail(q)) \cup {Head(q)}
           /\ InOrder(q) => /\ InOrder(Tail(q))
                            /\ \A n \in ToSet(Tail(q)) : n.from = Head(q).from
                                                            => Head(q).mysq < n.mysq
<1> DEFINE r == Tail(q)  h == Head(q)
<1>1. /\ r \in Seq(Message) /\ h \in Message /\ Len(r) = Len(q) - 1
      /\ \A i \in 1 .. Len(r) : r[i] = q[i + 1]
  BY HeadTailProperties
<1>2. DOMAIN r = 1 .. Len(r) /\ DOMAIN q = 1 .. Len(q) /\ Len(q) \in Nat /\ Len(q) >= 1 /\ h = q[1]
  BY <1>1
<1> HIDE DEF r, h
<1>3. ToSet(q) = ToSet(r) \cup {h}
  <2>1. ASSUME NEW i \in DOMAIN q PROVE q[i] \in ToSet(r) \cup {h}
    <3>1. CASE i = 1
      BY <1>2, <3>1
    <3>2. CASE i # 1
      <4>1. i - 1 \in DOMAIN r /\ r[i - 1] = q[i]
        BY <1>1, <1>2, <3>2
      <4> QED  BY <4>1 DEF ToSet
    <3> QED  BY <3>1, <3>2
  <2>2. ASSUME NEW i \in DOMAIN r PROVE r[i] \in ToSet(q)
    <3>1. i + 1 \in DOMAIN q /\ r[i] = q[i + 1]
      BY <1>1, <1>2
    <3> QED  BY <3>1 DEF ToSet
  <2>3. h \in ToSet(q)
    BY <1>2 DEF ToSet
  <2> QED  BY <2>1, <2>2, <2>3 DEF ToSet
<1>4. ASSUME InOrder(q) PROVE InOrder(r)
  <2> SUFFICES ASSUME NEW i \in DOMAIN r, NEW j \in DOMAIN r, i < j, r[i].from = r[j].from
               PROVE  r[i].mysq < r[j].mysq
    BY DEF InOrder
  <2>1. /\ i + 1 \in DOMAIN q /\ j + 1 \in DOMAIN q /\ i + 1 < j + 1
        /\ r[i] = q[i + 1] /\ r[j] = q[j + 1]
    BY <1>1, <1>2
  <2> QED  BY <1>4, <2>1 DEF InOrder
<1>5. ASSUME InOrder(q), NEW n \in ToSet(r), n.from = h.from PROVE h.mysq < n.mysq
  <2>1. PICK i \in DOMAIN r : n = r[i]
    BY <1>5 DEF ToSet
  <2>2. i + 1 \in DOMAIN q /\ 1 \in DOMAIN q /\ 1 < i + 1 /\ r[i] = q[i + 1]
    BY <1>1, <1>2
  <2> QED  BY ONLY SMTT(60), <1>2, <1>5, <2>1, <2>2 DEF InOrder
<1> QED  BY <1>1, <1>3, <1>4, <1>5 DEF r, h

(***************************************************************************)
(* What is counted comes after what is queued, and that after what was      *)
(* completed or reported, unless a worker was late.                         *)
(***************************************************************************)
Precedes(m, moves) == \A n \in ToSet(moves) : n.from = m.from => m.mysq < n.mysq

\* Each sender's messages are counted and queued in his order, and no number
\* is queued twice.
QueuesInOrder ==
    /\ InOrder(pq)
    /\ \A s \in Sides : InOrder(counted[s])
    /\ \A s \in Sides : \A m \in ToSet(counted[s]) : m.from = s /\ m.mysq <= pair.tur[s]
    /\ \A m \in ToSet(pq) : m.mysq <= pair.tur[m.from] /\ Precedes(m, counted[m.from])

\* A model that counts no more moves than the pair has completed.
Sound(moves) == InOrder(moves) /\ \A m \in ToSet(moves) : m.mysq <= pair.turx[m.from]

\* A worker's model is one that the pair once had, with his message at its end
\* when he is about to complete it.
WorkerIsSound(x) ==
    /\ x.at # "idle" => x.msg \in Message
    /\ x.at = "turn" => Sound(x.model)
    /\ x.at = "complete" =>
          \E moves \in Seq(Message) : x.model = Append(moves, x.msg) /\ Sound(moves)
WorkIsSound == \A w \in Workers : WorkerIsSound(work[w])

\* While no mark has lapsed under a worker one worker is at work, with the head
\* of the queue and the newest model.
OneAtWork ==
    \A w \in Workers : work[w].at # "idle" =>
        /\ pair.qupd = "fresh" /\ pq # <<>> /\ work[w].msg = Head(pq)
        /\ \A v \in Workers : work[v].at # "idle" => v = w
        /\ work[w].at = "turn" => work[w].model = pair.mdl
        /\ work[w].at = "complete" => work[w].model = Append(pair.mdl, work[w].msg)

\* What was completed or reported as failed is behind the queue.
QueueIsAhead ==
    /\ \A m \in ToSet(pq) : pair.turx[m.from] < m.mysq
    /\ \A s \in Sides : /\ pair.turx[s] <= pair.tur[s]
                        /\ \A m \in ToSet(counted[s]) : pair.turx[s] < m.mysq
    /\ \A m \in voided : /\ m.mysq <= pair.tur[m.from]
                         /\ Precedes(m, pq) /\ Precedes(m, counted[m.from])

InTime == OneAtWork /\ QueueIsAhead /\ NoMoveLost /\ voided \cap ToSet(pair.mdl) = {}

MsgInv == MsgTypeOK /\ QueuesInOrder /\ Sound(pair.mdl) /\ WorkIsSound /\ (late \/ InTime)

Worker == [at : HandlerStages, msg : Message \cup {NoMessage}, model : Seq(Message)]

\* The fields of the variables have their types.
LEMMA MsgTypes ==
    ASSUME MsgTypeOK
    PROVE  /\ pair.tur \in [Sides -> 0 .. MaxMessages] /\ pair.turx \in [Sides -> 0 .. MaxMessages]
           /\ pair.mdl \in Seq(Message) /\ pair.qupd \in {"none", "fresh", "lapsed"}
           /\ pq \in Seq(Message) /\ counted \in [Sides -> Seq(Message)]
           /\ \A w \in Workers : /\ work[w] \in Worker
                                 /\ work[w].at \in HandlerStages /\ work[w].model \in Seq(Message)
                                 /\ work[w].msg \in Message \cup {NoMessage}
           /\ voided \subseteq Message /\ late \in BOOLEAN
BY DEF MsgTypeOK, Worker

\* A message names a side and a number.
LEMMA MessageFields ==
    ASSUME NEW m \in Message
    PROVE  m.from \in Sides /\ m.mysq \in 1 .. MaxMessages /\ m.mysq \in Int
BY RoomMessagesAssumption DEF Message

\* A sequence of messages holds messages.
LEMMA MessagesOf ==
    ASSUME NEW q \in Seq(Message) PROVE ToSet(q) \subseteq Message
BY DEF ToSet

\* A worker that goes on to another stage keeps what he has.
LEMMA Going ==
    ASSUME MsgTypeOK, NEW w \in Workers, NEW stage \in HandlerStages, Go(w, stage)
    PROVE  /\ work' \in [Workers -> Worker]
           /\ work'[w].at = stage /\ work'[w].msg = work[w].msg /\ work'[w].model = work[w].model
           /\ \A v \in Workers : v # w => work'[v] = work[v]
<1>1. work \in [Workers -> Worker] /\ work[w] \in Worker
  BY DEF MsgTypeOK, Worker
<1>2. work' = [work EXCEPT ![w] = [work[w] EXCEPT !.at = stage]]
  BY DEF Go
<1>3. [work[w] EXCEPT !.at = stage] \in Worker
  BY <1>1 DEF Worker
<1>4. work'[w] = [work[w] EXCEPT !.at = stage] /\ \A v \in Workers : v # w => work'[v] = work[v]
  BY <1>1, <1>2
<1>5. work' \in [Workers -> Worker]
  BY <1>1, <1>2, <1>3
<1>6. work'[w].at = stage /\ work'[w].msg = work[w].msg /\ work'[w].model = work[w].model
  BY <1>1, <1>4 DEF Worker
<1> QED  BY <1>4, <1>5, <1>6

\* What the pair has completed never grows less, so a sound model stays sound.
LEMMA SoundStays ==
    ASSUME MsgTypeOK, MsgTypeOK', \A s \in Sides : pair.turx[s] <= pair'.turx[s],
           NEW moves \in Seq(Message), Sound(moves)
    PROVE  Sound(moves)'
<1>1. ASSUME NEW m \in ToSet(moves) PROVE m.mysq <= pair'.turx[m.from]
  <2>1. m.from \in Sides /\ m.mysq \in Int /\ m.mysq <= pair.turx[m.from]
    BY MessagesOf, MessageFields DEF Sound
  <2>2. pair.turx[m.from] \in Int
    BY <2>1, MsgTypes
  <2>3. pair'.turx[m.from] \in Int
    BY SMTT(60), <2>1 DEF MsgTypeOK
  <2> QED  BY <2>1, <2>2, <2>3
<1> QED  BY <1>1 DEF Sound, InOrder

\* So does a worker who does nothing meanwhile.
LEMMA WorkersStay ==
    ASSUME MsgTypeOK, MsgTypeOK', WorkIsSound, \A s \in Sides : pair.turx[s] <= pair'.turx[s],
           NEW v \in Workers, work'[v] = work[v]
    PROVE  WorkerIsSound(work[v])'
<1>1. PICK x : x = work[v]
  OBVIOUS
<1>2. x.model \in Seq(Message) /\ WorkerIsSound(x) /\ x = work'[v]
  BY <1>1, MsgTypes DEF WorkIsSound
<1>3. x.at = "turn" => Sound(x.model)'
  BY <1>2, SoundStays DEF WorkerIsSound
<1>4. ASSUME x.at = "complete"
      PROVE  \E moves \in Seq(Message) : x.model = Append(moves, x.msg) /\ Sound(moves)'
  BY <1>2, <1>4, SoundStays DEF WorkerIsSound
<1>5. WorkerIsSound(x)'
  BY <1>2, <1>3, <1>4 DEF WorkerIsSound
<1> QED  BY <1>2, <1>5

\* The invariant holds at the start.
LEMMA MsgInvInit == MsgInit => MsgInv
<1> SUFFICES ASSUME MsgInit PROVE MsgInv
  OBVIOUS
<1>1. MsgTypeOK
  <2>1. <<>> \in Seq(Message) /\ 0 \in 0 .. MaxMessages
    BY RoomMessagesAssumption
  <2>2. Idle \in [at : HandlerStages, msg : Message \cup {NoMessage}, model : Seq(Message)]
    BY <2>1 DEF Idle, HandlerStages
  <2>3. [s \in Sides |-> 0] \in [Sides -> 0 .. MaxMessages]
    BY <2>1
  <2> QED  BY <2>1, <2>2, <2>3 DEF MsgInit, MsgTypeOK
<1>2. ToSet(pq) = {} /\ ToSet(pair.mdl) = {} /\ \A s \in Sides : ToSet(counted[s]) = {}
  BY DEF MsgInit, ToSet
<1>3. InOrder(pq) /\ InOrder(pair.mdl) /\ \A s \in Sides : InOrder(counted[s])
  BY DEF MsgInit, InOrder
<1>4. WorkIsSound /\ OneAtWork
  BY DEF MsgInit, WorkIsSound, WorkerIsSound, OneAtWork, Idle
<1>5. \A s \in Sides : pair.tur[s] = 0 /\ pair.turx[s] = 0
  BY DEF MsgInit
<1>6. NoMoveLost
  <2>1. ASSUME NEW m \in Message PROVE ~(m.mysq <= pair.turx[m.from])
    BY <1>5, MessageFields
  <2> QED  BY <1>2, <2>1 DEF NoMoveLost
<1>7. QueueIsAhead
  BY <1>2, <1>5 DEF QueueIsAhead, MsgInit
<1> QED  BY <1>1, <1>2, <1>3, <1>4, <1>6, <1>7 DEF MsgInv, QueuesInOrder, Sound, InTime

\* A message that is counted in comes after all that its sender counted before.
LEMMA CountingKeepsOrder ==
    ASSUME MsgInv, NEW s \in Sides, CheckMessageSequenceAndIncrement(s)
    PROVE  MsgInv'
<1> DEFINE m == [from |-> s, mysq |-> pair.tur[s] + 1]
<1>t. MsgTypeOK
  BY DEF MsgInv
<1>1. /\ pair.tur[s] \in 0 .. MaxMessages /\ pair.tur[s] < MaxMessages
      /\ counted[s] \in Seq(Message)
      /\ pair' = [pair EXCEPT !.tur = [pair.tur EXCEPT ![s] = pair.tur[s] + 1]]
      /\ counted' = [counted EXCEPT ![s] = Append(counted[s], m)]
      /\ UNCHANGED <<pq, work, voided, late>>
  BY <1>t, MsgTypes DEF CheckMessageSequenceAndIncrement
<1>2. m \in Message /\ m.from = s /\ m.mysq = pair.tur[s] + 1
  BY <1>1, RoomMessagesAssumption DEF Message
<1> HIDE DEF m
<1>3. /\ pair'.tur = [pair.tur EXCEPT ![s] = pair.tur[s] + 1]
      /\ pair'.turx = pair.turx /\ pair'.mdl = pair.mdl /\ pair'.qupd = pair.qupd
  BY <1>t, <1>1 DEF MsgTypeOK
<1>4. /\ pair'.tur[s] = pair.tur[s] + 1
      /\ \A x \in Sides : x # s => pair'.tur[x] = pair.tur[x]
      /\ \A x \in Sides : /\ pair.tur[x] \in 0 .. MaxMessages /\ pair'.tur[x] \in 0 .. MaxMessages
                          /\ pair.tur[x] <= pair'.tur[x] /\ pair.turx[x] \in Int
  BY SMTT(60), <1>t, <1>1, <1>3, RoomMessagesAssumption, MsgTypes
<1>5. \A n \in ToSet(counted[s]) : n.mysq < m.mysq
  <2>1. ASSUME NEW n \in ToSet(counted[s]) PROVE n.mysq < m.mysq
    <3>1. n \in Message /\ n.mysq <= pair.tur[s]
      BY <1>1, MessagesOf DEF MsgInv, QueuesInOrder
    <3> QED  BY <1>2, <1>4, <3>1, MessageFields
  <2> QED  BY <2>1
<1>6. /\ counted'[s] = Append(counted[s], m)
      /\ \A x \in Sides : x # s => counted'[x] = counted[x]
      /\ \A x \in Sides : counted[x] \in Seq(Message)
  BY <1>t, <1>1, MsgTypes
<1>7. /\ Append(counted[s], m) \in Seq(Message) /\ InOrder(counted'[s])
      /\ ToSet(counted'[s]) = ToSet(counted[s]) \cup {m}
  BY <1>1, <1>2, <1>5, <1>6, AppendedMoves DEF MsgInv, QueuesInOrder
<1>8. MsgTypeOK'
  <2>1. counted' \in [Sides -> Seq(Message)]
    BY <1>t, <1>1, <1>7, MsgTypes
  <2>2. pair' \in [tur : [Sides -> 0 .. MaxMessages], turx : [Sides -> 0 .. MaxMessages],
                   mdl : Seq(Message), qupd : {"none", "fresh", "lapsed"}]
    <3>1. [pair.tur EXCEPT ![s] = pair.tur[s] + 1] \in [Sides -> 0 .. MaxMessages]
      BY SMTT(60), <1>t, <1>1, MsgTypes, RoomMessagesAssumption
    <3> HIDE DEF m
    <3> QED  BY <1>t, <1>1, <3>1 DEF MsgTypeOK
  <2> QED  BY <1>t, <1>1, <2>1, <2>2 DEF MsgTypeOK
<1>9. QueuesInOrder'
  <2>1. InOrder(pq') /\ \A x \in Sides : InOrder(counted'[x])
    BY <1>1, <1>6, <1>7 DEF MsgInv, QueuesInOrder
  <2>2. ASSUME NEW x \in Sides, NEW n \in ToSet(counted'[x])
        PROVE  n.from = x /\ n.mysq <= pair'.tur[x]
    <3>1. CASE n \in ToSet(counted[x])
      <4>1. n \in Message /\ n.from = x /\ n.mysq <= pair.tur[x]
        BY <1>6, <3>1, MessagesOf DEF MsgInv, QueuesInOrder
      <4> QED  BY <1>4, <4>1, MessageFields
    <3>2. CASE n \notin ToSet(counted[x])
      <4>1. x = s /\ n = m
        BY <1>6, <1>7, <2>2, <3>2
      <4> QED  BY <1>2, <1>4, <4>1
    <3> QED  BY <3>1, <3>2
  <2>3. ASSUME NEW n \in ToSet(pq) PROVE n.mysq <= pair'.tur[n.from] /\ Precedes(n, counted'[n.from])
    <3>1. n \in Message /\ n.mysq <= pair.tur[n.from] /\ Precedes(n, counted[n.from])
      BY <1>t, MsgTypes, MessagesOf DEF MsgInv, QueuesInOrder
    <3>2. n.from \in Sides /\ n.mysq \in Int
      BY <3>1, MessageFields
    <3>3. n.from = s => n.mysq < m.mysq
      BY <1>2, <1>4, <3>1, <3>2
    <3>4. \A o \in ToSet(counted'[n.from]) : o \in ToSet(counted[n.from]) \/ (n.from = s /\ o = m)
      BY <1>6, <1>7, <3>2
    <3> QED  BY <1>4, <3>1, <3>2, <3>3, <3>4 DEF Precedes
  <2> QED  BY <1>1, <2>1, <2>2, <2>3 DEF QueuesInOrder
<1>10. Sound(pair.mdl)' /\ WorkIsSound'
  BY <1>1, <1>3 DEF MsgInv, Sound, WorkIsSound, WorkerIsSound
<1>11. ASSUME InTime PROVE InTime'
  <2>1. OneAtWork' /\ NoMoveLost' /\ (voided \cap ToSet(pair.mdl) = {})'
    BY <1>1, <1>3, <1>11 DEF InTime, OneAtWork, NoMoveLost
  <2>2. \A n \in ToSet(pq') : pair'.turx[n.from] < n.mysq
    BY <1>1, <1>3, <1>11 DEF InTime, QueueIsAhead
  <2>3. ASSUME NEW x \in Sides
        PROVE  /\ pair'.turx[x] <= pair'.tur[x]
               /\ \A n \in ToSet(counted'[x]) : pair'.turx[x] < n.mysq
    <3>1. pair.turx[x] <= pair.tur[x] /\ \A n \in ToSet(counted[x]) : pair.turx[x] < n.mysq
      BY <1>11 DEF InTime, QueueIsAhead
    <3>2. x = s => pair.turx[x] < m.mysq
      BY <1>2, <1>4, <3>1
    <3>3. pair'.turx[x] = pair.turx[x] /\ pair'.turx[x] <= pair'.tur[x]
      BY <1>3, <1>4, <3>1
    <3>4. \A n \in ToSet(counted'[x]) : n \in ToSet(counted[x]) \/ (x = s /\ n = m)
      BY <1>6, <1>7
    <3> QED  BY <3>1, <3>2, <3>3, <3>4
  <2>4. ASSUME NEW n \in voided
        PROVE  /\ n.mysq <= pair'.tur[n.from]
               /\ Precedes(n, pq') /\ Precedes(n, counted'[n.from])
    <3>1. /\ n \in Message /\ n.mysq <= pair.tur[n.from]
          /\ Precedes(n, pq) /\ Precedes(n, counted[n.from])
      BY <1>t, <1>11, MsgTypes DEF InTime, QueueIsAhead
    <3>2. n.from \in Sides /\ n.mysq \in Int
      BY <3>1, MessageFields
    <3>3. n.from = s => n.mysq < m.mysq
      BY <1>2, <1>4, <3>1, <3>2
    <3>4. \A o \in ToSet(counted'[n.from]) : o \in ToSet(counted[n.from]) \/ (n.from = s /\ o = m)
      BY <1>6, <1>7, <3>2
    <3> QED  BY <1>1, <1>4, <3>1, <3>2, <3>3, <3>4 DEF Precedes
  <2> QED  BY <1>1, <2>1, <2>2, <2>3, <2>4 DEF InTime, QueueIsAhead
<1> QED  BY <1>1, <1>8, <1>9, <1>10, <1>11 DEF MsgInv

\* A push puts the oldest counted message behind all that its sender pushed, or
\* loses it.
LEMMA PushingKeepsOrder ==
    ASSUME MsgInv, NEW s \in Sides, PushMessageInQueue(s)
    PROVE  MsgInv'
<1> DEFINE m == Head(counted[s])
<1>t. MsgTypeOK
  BY DEF MsgInv
<1>1. /\ counted[s] \in Seq(Message) /\ counted[s] # <<>> /\ pq \in Seq(Message)
      /\ pq' = Append(pq, m) \/ pq' = pq
      /\ counted' = [counted EXCEPT ![s] = Tail(counted[s])]
      /\ UNCHANGED <<pair, work, voided, late>>
  BY <1>t, MsgTypes DEF PushMessageInQueue
<1>2. /\ Tail(counted[s]) \in Seq(Message) /\ m \in Message
      /\ ToSet(counted[s]) = ToSet(Tail(counted[s])) \cup {m}
      /\ InOrder(Tail(counted[s]))
      /\ \A n \in ToSet(Tail(counted[s])) : n.from = m.from => m.mysq < n.mysq
  <2>1. InOrder(counted[s])
    BY DEF MsgInv, QueuesInOrder
  <2> QED  BY <1>1, <2>1, RemainingMoves
<1> HIDE DEF m
<1>3. m.from = s /\ m.mysq <= pair.tur[s] /\ m.mysq \in Int
  BY <1>2, MessageFields DEF MsgInv, QueuesInOrder
<1>4. \A x \in Sides : /\ counted'[x] \in Seq(Message) /\ InOrder(counted'[x])
                       /\ \A n \in ToSet(counted'[x]) : n \in ToSet(counted[x])
  <2>1. ASSUME NEW x \in Sides
        PROVE  /\ counted'[x] \in Seq(Message) /\ InOrder(counted'[x])
               /\ \A n \in ToSet(counted'[x]) : n \in ToSet(counted[x])
    <3>1. CASE x = s
      <4>1. counted'[x] = Tail(counted[s])
        BY <1>t, <1>1, <3>1, MsgTypes
      <4> QED  BY <1>2, <3>1, <4>1
    <3>2. CASE x # s
      <4>1. counted'[x] = counted[x]
        BY <1>t, <1>1, <3>2, MsgTypes
      <4> QED  BY <1>t, <4>1, MsgTypes DEF MsgInv, QueuesInOrder
    <3> QED  BY <3>1, <3>2
  <2> QED  BY <2>1
<1>5. \A n \in ToSet(pq) : n.from = m.from => n.mysq < m.mysq
  BY <1>2, <1>3 DEF MsgInv, QueuesInOrder, Precedes
<1>6. /\ pq' \in Seq(Message) /\ InOrder(pq')
      /\ \A n \in ToSet(pq') : n \in ToSet(pq) \/ n = m
      /\ pq # <<>> => pq' # <<>> /\ Head(pq') = Head(pq)
  <2>1. InOrder(pq)
    BY DEF MsgInv, QueuesInOrder
  <2>2. CASE pq' = Append(pq, m)
    BY <1>1, <1>2, <1>5, <2>1, <2>2, AppendedMoves
  <2>3. CASE pq' = pq
    BY <1>1, <2>1, <2>3
  <2> QED  BY <1>1, <2>2, <2>3
<1>7. MsgTypeOK'
  <2>1. counted' \in [Sides -> Seq(Message)]
    BY <1>t, <1>1, <1>2, MsgTypes
  <2> QED  BY ONLY <1>t, <1>1, <1>6, <2>1 DEF MsgTypeOK
<1>8. ASSUME NEW n \in Message, Precedes(n, counted[n.from]) PROVE Precedes(n, counted'[n.from])
  BY <1>4, <1>8, MessageFields DEF Precedes
<1>9. Precedes(m, counted'[s])
  <2>1. counted'[s] = Tail(counted[s])
    BY <1>t, <1>1, MsgTypes
  <2> QED  BY <1>2, <2>1 DEF Precedes
<1>10. QueuesInOrder'
  <2>1. ASSUME NEW x \in Sides, NEW n \in ToSet(counted'[x])
        PROVE  n.from = x /\ n.mysq <= pair'.tur[x]
    BY <1>1, <1>4, <2>1 DEF MsgInv, QueuesInOrder
  <2>2. ASSUME NEW n \in ToSet(pq') PROVE n.mysq <= pair'.tur[n.from] /\ Precedes(n, counted'[n.from])
    <3>1. CASE n \in ToSet(pq)
      <4>1. n \in Message /\ n.mysq <= pair.tur[n.from] /\ Precedes(n, counted[n.from])
        BY <1>1, <3>1, MessagesOf DEF MsgInv, QueuesInOrder
      <4> QED  BY <1>1, <1>8, <4>1
    <3>2. CASE n = m
      BY ONLY <1>1, <1>3, <1>9, <3>2
    <3> QED  BY <1>6, <3>1, <3>2
  <2> QED  BY <1>4, <1>6, <2>1, <2>2 DEF QueuesInOrder
<1>11. Sound(pair.mdl)' /\ WorkIsSound'
  BY <1>1 DEF MsgInv, Sound, WorkIsSound, WorkerIsSound
<1>12. ASSUME InTime PROVE InTime'
  <2>1. OneAtWork'
    BY <1>1, <1>6, <1>12 DEF InTime, OneAtWork
  <2>2. NoMoveLost' /\ (voided \cap ToSet(pair.mdl) = {})'
    BY <1>1, <1>12 DEF InTime, NoMoveLost
  <2>3. ASSUME NEW n \in ToSet(pq') PROVE pair'.turx[n.from] < n.mysq
    <3>1. pair.turx[m.from] < m.mysq
      BY <1>2, <1>3, <1>12 DEF InTime, QueueIsAhead
    <3> QED  BY <1>1, <1>6, <1>12, <3>1 DEF InTime, QueueIsAhead
  <2>4. ASSUME NEW x \in Sides
        PROVE  /\ pair'.turx[x] <= pair'.tur[x]
               /\ \A n \in ToSet(counted'[x]) : pair'.turx[x] < n.mysq
    BY <1>1, <1>4, <1>12 DEF InTime, QueueIsAhead
  <2>5. ASSUME NEW n \in voided
        PROVE  /\ n.mysq <= pair'.tur[n.from]
               /\ Precedes(n, pq') /\ Precedes(n, counted'[n.from])
    <3>1. /\ n \in Message /\ n.mysq <= pair.tur[n.from]
          /\ Precedes(n, pq) /\ Precedes(n, counted[n.from])
      BY <1>t, <1>12, MsgTypes DEF InTime, QueueIsAhead
    <3>2. n.from = m.from => n.mysq < m.mysq
      BY <1>2, <1>3, <3>1 DEF Precedes
    <3>3. Precedes(n, pq')
      BY <1>6, <3>1, <3>2 DEF Precedes
    <3> QED  BY <1>1, <1>8, <3>1, <3>3
  <2>6. QueueIsAhead'
    BY <1>1, <2>3, <2>4, <2>5 DEF QueueIsAhead
  <2> QED  BY <2>1, <2>2, <2>6 DEF InTime
<1> QED  BY <1>1, <1>7, <1>10, <1>11, <1>12 DEF MsgInv

\* A step that only moves workers, or the mark, has to answer for these alone.
LEMMA WorkingKeepsOrder ==
    ASSUME MsgInv, MsgTypeOK', WorkIsSound', late => late',
           UNCHANGED <<pq, counted, voided>>,
           pair'.tur = pair.tur, pair'.turx = pair.turx, pair'.mdl = pair.mdl,
           InTime => late' \/ OneAtWork'
    PROVE  MsgInv'
<1>1. QueuesInOrder'
  BY DEF MsgInv, QueuesInOrder, Precedes, InOrder
<1>2. Sound(pair.mdl)'
  BY DEF MsgInv, Sound
<1>3. InTime => QueueIsAhead' /\ NoMoveLost' /\ (voided \cap ToSet(pair.mdl) = {})'
  BY DEF InTime, QueueIsAhead, Precedes, NoMoveLost
<1>4. late' \/ InTime'
  BY <1>3 DEF MsgInv, InTime
<1> QED  BY <1>1, <1>2, <1>4 DEF MsgInv

\* Other workers than the one that acts keep what they have, and what they have
\* stays sound.
LEMMA OneWorkerActs ==
    ASSUME MsgTypeOK, MsgTypeOK', WorkIsSound, NEW w \in Workers,
           \A s \in Sides : pair.turx[s] <= pair'.turx[s],
           \A v \in Workers : v # w => work'[v] = work[v],
           WorkerIsSound(work[w])'
    PROVE  WorkIsSound'
<1> SUFFICES ASSUME NEW v \in Workers PROVE WorkerIsSound(work[v])'
  BY DEF WorkIsSound
<1>1. CASE v = w
  BY <1>1
<1>2. CASE v # w
  BY <1>2, WorkersStay
<1> QED  BY <1>1, <1>2

\* A worker takes the head of the queue, which nobody else has while nobody is late.
LEMMA FetchingKeepsOrder ==
    ASSUME MsgInv, NEW w \in Workers, FetchPairPlayerMessage(w)
    PROVE  MsgInv'
<1> DEFINE x == [Idle EXCEPT !.at = "model", !.msg = Head(pq)]
<1>t. MsgTypeOK
  BY DEF MsgInv
<1>1. /\ work[w].at = "idle" /\ pair.qupd # "fresh" /\ pq # <<>> /\ pq \in Seq(Message)
      /\ pair' = [pair EXCEPT !.qupd = "fresh"]
      /\ work' = [work EXCEPT ![w] = x]
      /\ UNCHANGED <<pq, counted, voided, late>>
  BY <1>t, MsgTypes DEF FetchPairPlayerMessage
<1>2. Head(pq) \in Message
  BY <1>1, RemainingMoves
<1>3. x \in Worker /\ x.at = "model" /\ x.msg = Head(pq)
  <2>1. <<>> \in Seq(Message)
    OBVIOUS
  <2>2. Idle \in Worker
    BY <2>1 DEF Idle, Worker, HandlerStages
    <2> QED  BY <1>2, <2>2 DEF Worker, HandlerStages
<1> HIDE DEF x
<1>4. /\ work' \in [Workers -> Worker] /\ work'[w] = x
      /\ \A v \in Workers : v # w => work'[v] = work[v]
  BY <1>t, <1>1, <1>3 DEF MsgTypeOK, Worker
<1>5. /\ pair'.tur = pair.tur /\ pair'.turx = pair.turx /\ pair'.mdl = pair.mdl
      /\ pair'.qupd = "fresh"
      /\ pair' \in [tur : [Sides -> 0 .. MaxMessages], turx : [Sides -> 0 .. MaxMessages],
                    mdl : Seq(Message), qupd : {"none", "fresh", "lapsed"}]
  BY <1>t, <1>1 DEF MsgTypeOK
<1>6. MsgTypeOK'
  BY <1>t, <1>1, <1>4, <1>5 DEF MsgTypeOK, Worker
<1>7. WorkIsSound'
  <2>1. \A s \in Sides : pair.turx[s] <= pair'.turx[s]
    BY <1>t, <1>5, MsgTypes, RoomMessagesAssumption
  <2>2. WorkerIsSound(work[w])'
    BY <1>2, <1>3, <1>4 DEF WorkerIsSound
  <2> QED  BY <1>t, <1>4, <1>6, <2>1, <2>2, OneWorkerActs DEF MsgInv
<1>8. ASSUME InTime PROVE OneAtWork'
  <2>1. \A v \in Workers : work[v].at = "idle"
    BY <1>1, <1>8 DEF InTime, OneAtWork
  <2> QED  BY <1>1, <1>3, <1>4, <1>5, <2>1 DEF OneAtWork
<1> QED  BY <1>1, <1>5, <1>6, <1>7, <1>8, WorkingKeepsOrder

\* The model that a worker reads is sound.
LEMMA ReadingKeepsOrder ==
    ASSUME MsgInv, NEW w \in Workers, GetSqsAndModel(w)
    PROVE  MsgInv'
<1> DEFINE x == [work[w] EXCEPT !.model = pair.mdl, !.at = "turn"]
<1>t. MsgTypeOK
  BY DEF MsgInv
<1>1. /\ work[w].at = "model" /\ work[w] \in Worker
      /\ pair.mdl \in Seq(Message) /\ Sound(pair.mdl)
      /\ work' = [work EXCEPT ![w] = x]
      /\ UNCHANGED <<pair, pq, counted, voided, late>>
  BY <1>t, MsgTypes DEF GetSqsAndModel, MsgInv
<1>2. x \in Worker /\ x.at = "turn" /\ x.msg = work[w].msg /\ x.model = pair.mdl
  BY <1>1 DEF Worker, HandlerStages
<1> HIDE DEF x
<1>3. /\ work' \in [Workers -> Worker] /\ work'[w] = x
      /\ \A v \in Workers : v # w => work'[v] = work[v]
  BY <1>t, <1>1, <1>2 DEF MsgTypeOK, Worker
<1>4. MsgTypeOK'
  BY <1>t, <1>1, <1>3 DEF MsgTypeOK, Worker
<1>5. WorkIsSound'
  <2>1. \A s \in Sides : pair.turx[s] <= pair'.turx[s]
    BY <1>t, <1>1, MsgTypes, RoomMessagesAssumption
  <2>2. work[w].msg \in Message
    BY <1>1 DEF MsgInv, WorkIsSound, WorkerIsSound
  <2>3. WorkerIsSound(work[w])'
    BY <1>1, <1>2, <1>3, <2>2 DEF WorkerIsSound, Sound
  <2> QED  BY <1>t, <1>3, <1>4, <2>1, <2>3, OneWorkerActs DEF MsgInv
<1>6. ASSUME InTime PROVE OneAtWork'
  BY <1>1, <1>2, <1>3, <1>6 DEF InTime, OneAtWork
<1> QED  BY <1>1, <1>4, <1>5, <1>6, WorkingKeepsOrder

\* A worker that stops, or turns to the failure of its message, leaves its mark.
LEMMA TurningKeepsOrder ==
    ASSUME MsgInv, NEW w \in Workers, work[w].at # "idle", NEW stage \in {"idle", "fail"},
           Go(w, stage), UNCHANGED <<pair, pq, counted, voided, late>>
    PROVE  MsgInv'
<1>t. MsgTypeOK
  BY DEF MsgInv
<1>1. /\ work' \in [Workers -> Worker] /\ work'[w].at = stage /\ work'[w].msg = work[w].msg
      /\ \A v \in Workers : v # w => work'[v] = work[v]
  BY <1>t, Going DEF HandlerStages
<1>2. MsgTypeOK'
  BY <1>t, <1>1 DEF MsgTypeOK, Worker
<1>3. WorkIsSound'
  <2>1. \A s \in Sides : pair.turx[s] <= pair'.turx[s]
    BY <1>t, MsgTypes, RoomMessagesAssumption
  <2>2. work[w].msg \in Message
    BY DEF MsgInv, WorkIsSound, WorkerIsSound
  <2>3. WorkerIsSound(work[w])'
    BY <1>1, <2>2 DEF WorkerIsSound
  <2> QED  BY <1>t, <1>1, <1>2, <2>1, <2>3, OneWorkerActs DEF MsgInv
<1>4. ASSUME InTime PROVE OneAtWork'
  <2>1. ASSUME NEW v \in Workers, work'[v].at # "idle"
        PROVE  work[v].at # "idle" /\ work'[v].msg = work[v].msg
               /\ (work'[v].at \in {"turn", "complete"} => work'[v] = work[v])
    BY <1>1, <2>1
  <2> QED  BY <1>4, <2>1 DEF InTime, OneAtWork
<1> QED  BY <1>2, <1>3, <1>4, WorkingKeepsOrder

\* The handlers put the worker's message at the end of the model he read, or fail.
LEMMA HandlingKeepsOrder ==
    ASSUME MsgInv, NEW w \in Workers, DoProcessMessage(w)
    PROVE  MsgInv'
<1>t. MsgTypeOK
  BY DEF MsgInv
<1>1. /\ work[w].at = "turn" /\ work[w] \in Worker /\ work[w].model \in Seq(Message)
      /\ work[w].msg \in Message /\ Sound(work[w].model)
      /\ UNCHANGED <<pair, pq, counted, voided, late>>
  BY <1>t, MsgTypes DEF DoProcessMessage, MsgInv, WorkIsSound, WorkerIsSound
<1>2. \A s \in Sides : pair.turx[s] <= pair'.turx[s]
  BY <1>t, <1>1, MsgTypes, RoomMessagesAssumption
<1>3. CASE Go(w, "fail")
  BY <1>1, <1>3, TurningKeepsOrder
<1>4. CASE work' = [work EXCEPT ![w].model = Append(@, work[w].msg), ![w].at = "complete"]
  <2> DEFINE x == [work[w] EXCEPT !.model = Append(work[w].model, work[w].msg), !.at = "complete"]
  <2>1. work' = [work EXCEPT ![w] = x]
    BY <1>t, <1>4 DEF MsgTypeOK
  <2>2. Append(work[w].model, work[w].msg) \in Seq(Message)
    BY <1>1, AppendedMoves
  <2>3. /\ x \in Worker /\ x.at = "complete" /\ x.msg = work[w].msg
        /\ x.model = Append(work[w].model, work[w].msg)
    BY <1>1, <2>2 DEF Worker, HandlerStages
  <2> HIDE DEF x
  <2>4. /\ work' \in [Workers -> Worker] /\ work'[w] = x
        /\ \A v \in Workers : v # w => work'[v] = work[v]
    BY <1>t, <2>1, <2>3 DEF MsgTypeOK, Worker
  <2>5. MsgTypeOK'
    BY <1>t, <1>1, <2>4 DEF MsgTypeOK, Worker
  <2>6. WorkerIsSound(work[w])'
    <3>1. PICK moves : moves = work[w].model
      OBVIOUS
    <3>2. moves \in Seq(Message) /\ Sound(moves)' /\ x.model = Append(moves, x.msg)
      BY <1>1, <2>3, <3>1 DEF Sound
    <3> QED  BY <1>1, <2>3, <2>4, <3>2 DEF WorkerIsSound
  <2>7. WorkIsSound'
    BY <1>t, <1>2, <2>4, <2>5, <2>6, OneWorkerActs DEF MsgInv
  <2>8. ASSUME InTime PROVE OneAtWork'
    BY ZenonT(60), <1>1, <2>3, <2>4, <2>8 DEF InTime, OneAtWork
  <2> QED  BY <1>1, <2>5, <2>7, <2>8, WorkingKeepsOrder
<1> QED  BY <1>3, <1>4 DEF DoProcessMessage

\* A mark that lapses while nobody is at work lapses in time.
LEMMA LapsingKeepsOrder ==
    ASSUME MsgInv, MarkLapses
    PROVE  MsgInv'
<1>t. MsgTypeOK
  BY DEF MsgInv
<1>1. /\ pair' = [pair EXCEPT !.qupd = "lapsed"]
      /\ late' = (late \/ \E w \in Workers : work[w].at # "idle")
      /\ UNCHANGED <<pq, counted, work, voided>>
  BY DEF MarkLapses
<1>2. /\ pair'.tur = pair.tur /\ pair'.turx = pair.turx /\ pair'.mdl = pair.mdl
      /\ pair' \in [tur : [Sides -> 0 .. MaxMessages], turx : [Sides -> 0 .. MaxMessages],
                    mdl : Seq(Message), qupd : {"none", "fresh", "lapsed"}]
  BY <1>t, <1>1 DEF MsgTypeOK
<1>3. MsgTypeOK' /\ (late => late')
  BY <1>t, <1>1, <1>2 DEF MsgTypeOK
<1>4. WorkIsSound'
  BY <1>1, <1>2 DEF MsgInv, WorkIsSound, WorkerIsSound, Sound
<1>5. late' \/ OneAtWork'
  BY <1>t, <1>1 DEF OneAtWork, MsgTypeOK
<1> QED  BY <1>1, <1>2, <1>3, <1>4, <1>5, WorkingKeepsOrder

\* When messages leave the head of the queue and workers come to rest, what is
\* queued and counted stays in order.
LEMMA TakingKeepsOrder ==
    ASSUME MsgInv, pq' = (IF pq = <<>> THEN pq ELSE Tail(pq)),
           pair'.tur = pair.tur, UNCHANGED counted
    PROVE  /\ pq' \in Seq(Message) /\ ToSet(pq') \subseteq ToSet(pq)
           /\ QueuesInOrder'
<1>t. pq \in Seq(Message) /\ InOrder(pq)
  BY MsgTypes DEF MsgInv, QueuesInOrder
<1>1. pq' \in Seq(Message) /\ ToSet(pq') \subseteq ToSet(pq) /\ InOrder(pq')
  <2>1. CASE pq = <<>>
    BY <1>t, <2>1
  <2>2. CASE pq # <<>>
    BY <1>t, <2>2, RemainingMoves
  <2> QED  BY <2>1, <2>2
<1> QED  BY <1>1 DEF MsgInv, QueuesInOrder, Precedes, InOrder

\* A completed message is the next of its sender, so the model that comes with it
\* has none of his later ones, and loses none unless a worker was late.
LEMMA CompletingKeepsOrder ==
    ASSUME MsgInv, NEW w \in Workers, EndProcessingMessage(w)
    PROVE  MsgInv'
<1> DEFINE m == work[w].msg  f == m.from
<1>t. MsgTypeOK /\ work[w] \in Worker
  BY MsgTypes DEF MsgInv
<1>1. work[w].at = "complete" /\ m \in Message /\ UNCHANGED <<counted, voided, late>>
  BY DEF EndProcessingMessage, MsgInv, WorkIsSound, WorkerIsSound
<1>2. CASE Go(w, "fail") /\ UNCHANGED <<pair, pq>>
  BY <1>1, <1>2, TurningKeepsOrder
<1>3. CASE Go(w, "idle") /\ UNCHANGED <<pair, pq>>
  BY <1>1, <1>3, TurningKeepsOrder
<1>4. CASE /\ m.mysq = pair.turx[f] + 1
           /\ pair' = [pair EXCEPT !.turx[f] = m.mysq, !.qupd = "none", !.mdl = work[w].model]
           /\ pq' = IF pq = <<>> THEN pq ELSE Tail(pq)
           /\ Go(w, "idle")
  <2>1. f \in Sides /\ m.mysq \in 1 .. MaxMessages /\ m.mysq \in Int
    BY <1>1, MessageFields
  <2>2. PICK moves \in Seq(Message) : work[w].model = Append(moves, m) /\ Sound(moves)
    BY <1>1 DEF MsgInv, WorkIsSound, WorkerIsSound
  <2>3. work[w].model \in Seq(Message)
    BY <1>t, MsgTypes
  <2>4. m.mysq = pair.turx[f] + 1
    BY SMTT(60), <1>4
  <2>5. /\ pair' = [pair EXCEPT !.turx = [pair.turx EXCEPT ![f] = m.mysq], !.qupd = "none",
                                !.mdl = work[w].model]
        /\ [pair.turx EXCEPT ![f] = m.mysq] \in [Sides -> 0 .. MaxMessages]
    BY SMTT(60), <1>t, <1>4, <2>1, RoomMessagesAssumption DEF MsgTypeOK
  <2>6. pq' = (IF pq = <<>> THEN pq ELSE Tail(pq))
    BY <1>4
  <2>7. /\ work' \in [Workers -> Worker] /\ work'[w].at = "idle"
        /\ \A v \in Workers : v # w => work'[v] = work[v]
    BY <1>t, <1>4, Going DEF HandlerStages
  <2> HIDE DEF m, f
  <2>8. /\ pair'.tur = pair.tur /\ pair'.turx = [pair.turx EXCEPT ![f] = m.mysq]
        /\ pair'.qupd = "none" /\ pair'.mdl = work[w].model
        /\ pair' \in [tur : [Sides -> 0 .. MaxMessages], turx : [Sides -> 0 .. MaxMessages],
                      mdl : Seq(Message), qupd : {"none", "fresh", "lapsed"}]
    BY <1>t, <2>3, <2>5 DEF MsgTypeOK
  <2>9. /\ pair'.turx[f] = m.mysq
        /\ \A s \in Sides : s # f => pair'.turx[s] = pair.turx[s]
        /\ \A s \in Sides : pair.turx[s] \in Int /\ pair'.turx[s] \in Int
                            /\ pair.turx[s] <= pair'.turx[s]
    BY SMTT(60), <1>t, <2>1, <2>4, <2>8, MsgTypes, RoomMessagesAssumption
  <2>10. /\ pq' \in Seq(Message) /\ ToSet(pq') \subseteq ToSet(pq)
         /\ QueuesInOrder'
    BY <1>1, <2>6, <2>8, TakingKeepsOrder
  <2>11. MsgTypeOK'
    BY <1>t, <1>1, <2>7, <2>8, <2>10 DEF MsgTypeOK, Worker
  <2>12. /\ InOrder(work[w].model)
         /\ ToSet(work[w].model) = ToSet(moves) \cup {m}
    <3>1. ASSUME NEW n \in ToSet(moves), n.from = m.from PROVE n.mysq < m.mysq
      <4>1. n \in Message /\ n.mysq <= pair.turx[f]
        BY <2>2, <3>1, MessagesOf DEF Sound, f
      <4> QED  BY <2>1, <2>4, <2>9, <4>1, MessageFields
    <3> QED  BY <1>1, <2>2, <3>1, AppendedMoves DEF Sound
  <2>13. Sound(pair.mdl)'
    <3>1. ASSUME NEW n \in ToSet(work[w].model) PROVE n.mysq <= pair'.turx[n.from]
      <4>1. CASE n \in ToSet(moves)
        <5>1. n \in Message /\ n.mysq <= pair.turx[n.from]
          BY <2>2, <4>1, MessagesOf DEF Sound
        <5>2. n.from \in Sides /\ n.mysq \in Int
          BY <5>1, MessageFields
        <5> QED  BY <2>9, <5>1, <5>2
      <4>2. CASE n = m
        BY <2>1, <2>9, <4>2 DEF f
      <4> QED  BY <2>12, <4>1, <4>2
    <3> QED  BY <2>8, <2>12, <3>1 DEF Sound
  <2>14. WorkIsSound'
    <3>1. WorkerIsSound(work[w])'
      BY <2>7 DEF WorkerIsSound
    <3> QED  BY <1>t, <2>7, <2>9, <2>11, <3>1, OneWorkerActs DEF MsgInv
  <2>15. ASSUME InTime PROVE InTime'
    <3>1. /\ pq # <<>> /\ m = Head(pq) /\ work[w].model = Append(pair.mdl, m)
          /\ \A v \in Workers : work[v].at # "idle" => v = w
      BY <1>1, <2>15 DEF InTime, OneAtWork, m
    <3>2. OneAtWork'
      BY <2>7, <3>1 DEF OneAtWork
    <3>3. /\ pq' = Tail(pq) /\ m \in ToSet(pq)
          /\ \A n \in ToSet(Tail(pq)) : n.from = f => m.mysq < n.mysq
      BY <1>t, <2>6, <3>1, RemainingMoves, MsgTypes DEF MsgInv, QueuesInOrder, f
    <3>4. m.mysq <= pair.tur[f] /\ Precedes(m, counted[f])
      BY <3>3 DEF MsgInv, QueuesInOrder, f
    <3>5. ASSUME NEW n \in ToSet(pq') PROVE pair'.turx[n.from] < n.mysq
      <4>1. n \in Message /\ pair.turx[n.from] < n.mysq
        BY <1>t, <2>10, <2>15, MessagesOf, MsgTypes DEF InTime, QueueIsAhead
      <4> QED  BY <2>9, <3>3, <4>1, MessageFields
    <3>6. ASSUME NEW s \in Sides
          PROVE  /\ pair'.turx[s] <= pair'.tur[s]
                 /\ \A n \in ToSet(counted'[s]) : pair'.turx[s] < n.mysq
      <4>1. CASE s = f
        <5>1. \A n \in ToSet(counted[s]) : n.from = s
          BY DEF MsgInv, QueuesInOrder
        <5> QED  BY <1>1, <2>8, <2>9, <3>4, <4>1, <5>1 DEF Precedes, f
      <4>2. CASE s # f
        BY <1>1, <2>8, <2>9, <2>15, <4>2 DEF InTime, QueueIsAhead
      <4> QED  BY <4>1, <4>2
    <3>7. ASSUME NEW n \in voided
          PROVE  /\ n.mysq <= pair'.tur[n.from]
                 /\ Precedes(n, pq') /\ Precedes(n, counted'[n.from])
      BY <1>1, <2>8, <2>10, <2>15 DEF InTime, QueueIsAhead, Precedes
    <3>8. QueueIsAhead'
      BY <1>1, <3>5, <3>6, <3>7 DEF QueueIsAhead
    <3>9. ToSet(pair'.mdl) = ToSet(pair.mdl) \cup {m}
      BY <1>t, <1>1, <2>8, <3>1, AppendedMoves, MsgTypes
    <3>10. NoMoveLost'
      <4>1. ASSUME NEW n \in Message
            PROVE  n.mysq <= pair'.turx[n.from] <=> n.mysq <= pair.turx[n.from] \/ n = m
        <5>1. n.from \in Sides /\ n.mysq \in Int
          BY MessageFields
        <5>2. n.from = f /\ n.mysq = m.mysq <=> n = m
          BY <1>1 DEF Message, f
        <5>3. CASE n.from # f
          BY <2>9, <5>1, <5>2, <5>3
        <5>4. CASE n.from = f
          BY <2>1, <2>4, <2>9, <5>1, <5>2, <5>4
        <5> QED  BY <5>3, <5>4
      <4>2. ToSet(pair.mdl) = {n \in Message : n.mysq <= pair.turx[n.from]}
        BY <2>15 DEF InTime, NoMoveLost
      <4> QED  BY <1>1, <3>9, <4>1, <4>2 DEF NoMoveLost
    <3>11. m \notin voided
      <4>1. ASSUME m \in voided PROVE FALSE
        <5>1. Precedes(m, pq)
          BY <2>15, <4>1 DEF InTime, QueueIsAhead
        <5> QED  BY <2>1, <3>3, <5>1 DEF Precedes
      <4> QED  BY <4>1
    <3>12. (voided \cap ToSet(pair.mdl) = {})'
      BY <1>1, <2>15, <3>9, <3>11 DEF InTime
    <3> QED  BY <3>2, <3>8, <3>10, <3>12 DEF InTime
  <2> QED  BY <1>1, <2>10, <2>11, <2>13, <2>14, <2>15 DEF MsgInv
<1> QED  BY <1>2, <1>3, <1>4 DEF EndProcessingMessage

\* A failed message leaves the queue and was not completed, unless a worker was late.
LEMMA FailingKeepsOrder ==
    ASSUME MsgInv, NEW w \in Workers, JustFailMessageWithError(w)
    PROVE  MsgInv'
<1> DEFINE m == work[w].msg
<1>t. MsgTypeOK /\ work[w] \in Worker
  BY MsgTypes DEF MsgInv
<1>1. /\ work[w].at = "fail" /\ m \in Message
      /\ pair' = [pair EXCEPT !.qupd = "none"]
      /\ pq' = (IF pq = <<>> THEN pq ELSE Tail(pq))
      /\ voided' = voided \cup {m} /\ Go(w, "idle") /\ UNCHANGED <<counted, late>>
  BY DEF JustFailMessageWithError, MsgInv, WorkIsSound, WorkerIsSound
<1>2. /\ work' \in [Workers -> Worker] /\ work'[w].at = "idle"
      /\ \A v \in Workers : v # w => work'[v] = work[v]
  BY <1>t, <1>1, Going DEF HandlerStages
<1>3. /\ pair'.tur = pair.tur /\ pair'.turx = pair.turx /\ pair'.mdl = pair.mdl
      /\ pair' \in [tur : [Sides -> 0 .. MaxMessages], turx : [Sides -> 0 .. MaxMessages],
                    mdl : Seq(Message), qupd : {"none", "fresh", "lapsed"}]
  BY <1>t, <1>1 DEF MsgTypeOK
<1>4. /\ pq' \in Seq(Message) /\ ToSet(pq') \subseteq ToSet(pq)
      /\ QueuesInOrder'
  BY <1>1, <1>3, TakingKeepsOrder
<1>5. MsgTypeOK'
  BY <1>t, <1>1, <1>2, <1>3, <1>4 DEF MsgTypeOK, Worker
<1>6. Sound(pair.mdl)'
  BY <1>3 DEF MsgInv, Sound
<1>7. WorkIsSound'
  <2>1. \A s \in Sides : pair.turx[s] <= pair'.turx[s]
    BY <1>t, <1>3, MsgTypes, RoomMessagesAssumption
  <2>2. WorkerIsSound(work[w])'
    BY <1>2 DEF WorkerIsSound
  <2> QED  BY <1>t, <1>2, <1>5, <2>1, <2>2, OneWorkerActs DEF MsgInv
<1> HIDE DEF m
<1>8. ASSUME InTime PROVE InTime'
  <2>1. /\ pq # <<>> /\ m = Head(pq)
        /\ \A v \in Workers : work[v].at # "idle" => v = w
    BY <1>1, <1>8 DEF InTime, OneAtWork, m
  <2>2. OneAtWork'
    BY <1>2, <2>1 DEF OneAtWork
  <2>3. /\ pq' = Tail(pq) /\ m \in ToSet(pq)
        /\ \A n \in ToSet(Tail(pq)) : n.from = m.from => m.mysq < n.mysq
    BY <1>t, <1>1, <2>1, RemainingMoves, MsgTypes DEF MsgInv, QueuesInOrder
  <2>4. m.mysq <= pair.tur[m.from] /\ Precedes(m, counted[m.from]) /\ Precedes(m, pq')
    BY <2>3 DEF MsgInv, QueuesInOrder, Precedes
  <2>5. ASSUME NEW n \in voided'
        PROVE  /\ n.mysq <= pair'.tur[n.from]
               /\ Precedes(n, pq') /\ Precedes(n, counted'[n.from])
    <3>1. CASE n = m
      BY <1>1, <1>3, <2>4, <3>1
    <3>2. CASE n \in voided
      BY <1>1, <1>3, <1>4, <1>8, <3>2 DEF InTime, QueueIsAhead, Precedes
    <3> QED  BY <1>1, <3>1, <3>2
  <2>6. QueueIsAhead'
    BY <1>1, <1>3, <1>4, <1>8, <2>5 DEF InTime, QueueIsAhead
  <2>7. NoMoveLost'
    BY <1>3, <1>8 DEF InTime, NoMoveLost
  <2>8. m \notin ToSet(pair.mdl)
    <3>1. pair.turx[m.from] < m.mysq
      BY <1>8, <2>3 DEF InTime, QueueIsAhead
    <3>2. m.from \in Sides /\ m.mysq \in Int
      BY <1>1, MessageFields
    <3>3. pair.turx[m.from] \in Int
      BY <1>t, <3>2, MsgTypes
    <3> QED  BY <3>1, <3>2, <3>3 DEF MsgInv, Sound
  <2>9. (voided \cap ToSet(pair.mdl) = {})'
    BY <1>1, <1>3, <1>8, <2>8 DEF InTime
  <2> QED  BY <2>2, <2>6, <2>7, <2>9 DEF InTime
<1> QED  BY <1>1, <1>4, <1>5, <1>6, <1>7, <1>8 DEF MsgInv

\* Every step of senders, workers and marks keeps the invariant.
LEMMA MsgInvStep == MsgInv /\ [MsgNext]_msgVars => MsgInv'
<1> SUFFICES ASSUME MsgInv, [MsgNext]_msgVars PROVE MsgInv'
  OBVIOUS
<1>1. ASSUME NEW s \in Sides, CheckMessageSequenceAndIncrement(s) PROVE MsgInv'
  BY <1>1, CountingKeepsOrder
<1>2. ASSUME NEW s \in Sides, PushMessageInQueue(s) PROVE MsgInv'
  BY <1>2, PushingKeepsOrder
<1>3. ASSUME NEW w \in Workers, FetchPairPlayerMessage(w) PROVE MsgInv'
  BY <1>3, FetchingKeepsOrder
<1>4. ASSUME NEW w \in Workers, GetSqsAndModel(w) PROVE MsgInv'
  BY <1>4, ReadingKeepsOrder
<1>5. ASSUME NEW w \in Workers, DoProcessMessage(w) PROVE MsgInv'
  BY <1>5, HandlingKeepsOrder
<1>6. ASSUME NEW w \in Workers, EndProcessingMessage(w) PROVE MsgInv'
  BY <1>6, CompletingKeepsOrder
<1>7. ASSUME NEW w \in Workers, JustFailMessageWithError(w) PROVE MsgInv'
  BY <1>7, FailingKeepsOrder
<1>8. ASSUME NEW w \in Workers, WorkerStops(w) PROVE MsgInv'
  BY <1>8, TurningKeepsOrder DEF WorkerStops
<1>9. CASE MarkLapses
  BY <1>9, LapsingKeepsOrder
<1>10. CASE UNCHANGED msgVars
  <2>1. UNCHANGED <<pair, pq, counted, work, voided, late>>
    BY <1>10 DEF msgVars
  <2>2. MsgTypeOK' /\ WorkIsSound'
    BY <2>1 DEF MsgInv, MsgTypeOK, WorkIsSound, WorkerIsSound, Sound
  <2>3. InTime => OneAtWork'
    BY <2>1 DEF InTime, OneAtWork
  <2> QED  BY <2>1, <2>2, <2>3, WorkingKeepsOrder
<1> QED
  BY <1>1, <1>2, <1>3, <1>4, <1>5, <1>6, <1>7, <1>8, <1>9, <1>10 DEF MsgNext

\* The moves of a battle, its queue and its workers have their types.
THEOREM MessageTyping == MsgSpec => []MsgTypeOK
<1>1. MsgInv => MsgTypeOK
  BY DEF MsgInv
<1> QED  BY <1>1, MsgInvInit, MsgInvStep, PTL DEF MsgSpec

\* A battle's model is made of every move once and in its sender's order, however
\* many workers fail, die or are late; while none is late, of every move that was
\* completed, and of none that was reported as failed.
THEOREM ModelHasMovesInOrder == MsgSpec => []MovesInOrder
<1>1. MsgInv => MovesInOrder
  BY DEF MsgInv, InTime, Sound, MovesInOrder
<1> QED  BY <1>1, MsgInvInit, MsgInvStep, PTL DEF MsgSpec
=============================================================================
