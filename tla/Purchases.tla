------------------------------- MODULE Purchases -------------------------------
(***************************************************************************)
(* Purchases (socialNetworksAndInapps): VK and OK tell of an order until they  *)
(* get an answer, a player lists his purchases and consumes them, and he has    *)
(* receipts of the mobile stores validated, which are kept so that nobody is    *)
(* paid for one twice.  Several requests about one order, purchase or receipt   *)
(* may be at work at once, and any of them may end half-way.                   *)
(***************************************************************************)
EXTENDS Integers, FiniteSets

CONSTANTS
    Orders,      \* orders of the networks (order_id, transaction_id)
    OrderNet,    \* "vk" or "ok"
    Receipts,    \* receipts of a store, by their checksums
    Buyers,      \* players
    OwnerOf,     \* the player that each order is of
    Clerks,      \* requests at work
    MaxPurchases \* bound: numbers of purchases

ASSUME PurchasesAssumption ==
    /\ OrderNet \in [Orders -> {"vk", "ok"}]
    /\ OwnerOf \in [Orders -> Buyers]
    /\ MaxPurchases \in Nat

VARIABLES
    purchase,    \* the collections of purchases, by order
    purchNum,    \* the sequences "vkPurchaseId" and "okPurchaseId"
    receipts,    \* the collection of receipts
    clerk,       \* what each request is doing
    listed,      \* what each player was shown of his purchases
    numbers,     \* ghost: the numbers that a network was told of each order
    consumed,    \* ghost: how often each purchase was consumed, as was answered
    validated    \* ghost: how often a receipt was validated and kept, per player

purchaseVars ==
    <<purchase, purchNum, receipts, clerk, listed, numbers, consumed, validated>>

NoPurchase == [num |-> 0, isConsumed |-> FALSE]
Ready == [at |-> "rest", order |-> 0, pid |-> 0, num |-> 0]

PurchaseInit ==
    /\ purchase = [o \in Orders |-> NoPurchase]
    /\ purchNum = [n \in {"vk", "ok"} |-> 0]
    /\ receipts = {}
    /\ clerk = [c \in Clerks |-> Ready]
    /\ listed = [b \in Buyers |-> {}]
    /\ numbers = [o \in Orders |-> {}]
    /\ consumed = [o \in Orders |-> 0]
    /\ validated = [b \in Buyers |-> [r \in Receipts |-> 0]]

Does(c, stage) == clerk[c].at = stage
Turn(c, stage) == clerk' = [clerk EXCEPT ![c].at = stage]
Closed(c) == clerk' = [clerk EXCEPT ![c] = Ready]
Persisted(o) == purchase[o] # NoPurchase

-----------------------------------------------------------------------------
(* Orders.  VK wants the number in the answer, OK only that it is paid.     *)

TryToGetPurchase(c, o) ==
    /\ Does(c, "rest")
    /\ IF Persisted(o)
       THEN numbers' = [numbers EXCEPT ![o] = @ \cup {purchase[o].num}] /\ UNCHANGED clerk
       ELSE /\ clerk' = [clerk EXCEPT ![c] = [Ready EXCEPT !.at = "number", !.order = o]]
            /\ UNCHANGED numbers
    /\ UNCHANGED <<purchase, purchNum, receipts, listed, consumed, validated>>

\* Mutant: the number as it was before it was counted.
GenerateOldPurchaseNum(c) ==
    LET n == OrderNet[clerk[c].order] IN
    /\ Does(c, "number") /\ purchNum[n] < MaxPurchases
    /\ purchNum' = [purchNum EXCEPT ![n] = @ + 1]
    /\ clerk' = [clerk EXCEPT ![c].at = "persist", ![c].num = purchNum[n]]
    /\ UNCHANGED <<purchase, receipts, listed, numbers, consumed, validated>>

GenerateNewPurchaseNum(c) ==
    LET n == OrderNet[clerk[c].order] IN
    /\ Does(c, "number") /\ purchNum[n] < MaxPurchases
    /\ purchNum' = [purchNum EXCEPT ![n] = @ + 1]
    /\ clerk' = [clerk EXCEPT ![c].at = "persist", ![c].num = purchNum[n] + 1]
    /\ UNCHANGED <<purchase, receipts, listed, numbers, consumed, validated>>

\* Mutant: what another request inserted meanwhile is overwritten.
PersistAnyway(c) ==
    LET o == clerk[c].order IN
    /\ Does(c, "persist")
    /\ purchase' = [purchase EXCEPT ![o] = [num |-> clerk[c].num, isConsumed |-> FALSE]]
    /\ numbers' = [numbers EXCEPT ![o] = @ \cup {clerk[c].num}]
    /\ Closed(c)
    /\ UNCHANGED <<purchNum, receipts, listed, consumed, validated>>

\* An upsert that only inserts.  When there was a purchase by then the result has no
\* upserted, to ask for its length throws, and the request is never answered.
TryToPersistPurchase(c) ==
    LET o == clerk[c].order IN
    /\ Does(c, "persist")
    /\ IF Persisted(o) THEN UNCHANGED <<purchase, numbers>>
       ELSE /\ purchase' = [purchase EXCEPT ![o] = [num |-> clerk[c].num, isConsumed |-> FALSE]]
            /\ numbers' = [numbers EXCEPT ![o] = @ \cup {clerk[c].num}]
    /\ Closed(c)
    /\ UNCHANGED <<purchNum, receipts, listed, consumed, validated>>

OrderStatusChangeCallback(c, o) == OrderNet[o] = "vk" /\ TryToGetPurchase(c, o)
ServiceCallback(c, o) == OrderNet[o] = "ok" /\ TryToGetPurchase(c, o)

-----------------------------------------------------------------------------
(* Purchases of a player.                                                  *)

Mine(b, net) == {o \in Orders : Persisted(o) /\ OwnerOf[o] = b /\ OrderNet[o] = net}
ListPurchases(b, net) ==
    /\ ~(Mine(b, net) \subseteq listed[b])
    /\ listed' = [listed EXCEPT ![b] = @ \cup Mine(b, net)]
    /\ UNCHANGED <<purchase, purchNum, receipts, clerk, numbers, consumed, validated>>

ListVkPurchases(b) == ListPurchases(b, "vk")
ListOkPurchases(b) == ListPurchases(b, "ok")

PrecheckPurchase(c, o) ==
    /\ Does(c, "rest")
    /\ o \in listed[OwnerOf[o]]
    /\ ~purchase[o].isConsumed
    /\ clerk' = [clerk EXCEPT ![c] = [Ready EXCEPT !.at = "consume", !.order = o]]
    /\ UNCHANGED <<purchase, purchNum, receipts, listed, numbers, consumed, validated>>

ConsumeVkPurchase(c, o) == OrderNet[o] = "vk" /\ PrecheckPurchase(c, o)
ConsumeOkPurchase(c, o) == OrderNet[o] = "ok" /\ PrecheckPurchase(c, o)

\* The write asks for a purchase that is not consumed; else there is none (400).
MarkConsumed(c) ==
    LET o == clerk[c].order IN
    /\ Does(c, "consume")
    /\ IF purchase[o].isConsumed THEN UNCHANGED <<purchase, consumed>>
       ELSE /\ purchase' = [purchase EXCEPT ![o].isConsumed = TRUE]
            /\ consumed' = [consumed EXCEPT ![o] = @ + 1]
    /\ Closed(c)
    /\ UNCHANGED <<purchNum, receipts, listed, numbers, validated>>

-----------------------------------------------------------------------------
(* Receipts.                                                               *)

\* A receipt that anybody had validated is a duplicate, and the request is over.
TryToGetReceipt(c, b, r) ==
    /\ Does(c, "rest")
    /\ \A doc \in receipts : doc.receipt # r
    /\ clerk' = [clerk EXCEPT ![c] = [Ready EXCEPT !.at = "save", !.order = r, !.pid = b]]
    /\ UNCHANGED <<purchase, purchNum, receipts, listed, numbers, consumed, validated>>

\* The store found it valid, of this application, and it is kept, unless this player
\* has had it kept meanwhile; that another has is not seen any more.
SaveReceipt(c) ==
    LET doc == [pid |-> clerk[c].pid, receipt |-> clerk[c].order] IN
    /\ Does(c, "save")
    /\ IF doc \in receipts THEN UNCHANGED <<receipts, validated>>
       ELSE /\ receipts' = receipts \cup {doc}
            /\ validated' = [validated EXCEPT ![doc.pid][doc.receipt] = @ + 1]
    /\ Closed(c)
    /\ UNCHANGED <<purchase, purchNum, listed, numbers, consumed>>

\* It is not valid, or of another application, or a request fails or dies anywhere.
ClerkFails(c) ==
    /\ ~Does(c, "rest")
    /\ Closed(c)
    /\ UNCHANGED <<purchase, purchNum, receipts, listed, numbers, consumed, validated>>

PurchaseNext ==
    \/ \E c \in Clerks :
        \/ \E o \in Orders :
              \/ OrderStatusChangeCallback(c, o) \/ ServiceCallback(c, o)
              \/ ConsumeVkPurchase(c, o) \/ ConsumeOkPurchase(c, o)
        \/ \E b \in Buyers, r \in Receipts : TryToGetReceipt(c, b, r)
        \/ GenerateNewPurchaseNum(c) \/ TryToPersistPurchase(c)
        \/ MarkConsumed(c) \/ SaveReceipt(c) \/ ClerkFails(c)
    \/ \E b \in Buyers : ListVkPurchases(b) \/ ListOkPurchases(b)

PurchaseSpec == PurchaseInit /\ [][PurchaseNext]_purchaseVars

-----------------------------------------------------------------------------
(* Properties.                                                             *)

\* Types of the variables.
PurchaseTypeOK ==
    /\ purchase \in [Orders -> [num : 0 .. MaxPurchases, isConsumed : BOOLEAN]]
    /\ purchNum \in [{"vk", "ok"} -> 0 .. MaxPurchases]
    /\ receipts \subseteq [pid : Buyers, receipt : Receipts]
    /\ listed \in [Buyers -> SUBSET Orders]
    /\ numbers \in [Orders -> SUBSET (1 .. MaxPurchases)]

\* However often a network repeats an order, at whatever moment, it is told one number
\* of it; a purchase is consumed once, and a player has a receipt accepted once.
PaidOnce ==
    /\ \A o \in Orders : Cardinality(numbers[o]) <= 1 /\ consumed[o] <= 1
    /\ \A b \in Buyers, r \in Receipts : validated[b][r] <= 1
=============================================================================
