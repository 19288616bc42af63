----------------------------- MODULE MCServices -----------------------------
(***************************************************************************)
(* Small instances for TLC of the features that share nothing but the        *)
(* database they write to: what each does is explored from the same start,   *)
(* one feature in a behaviour, the others at rest.                           *)
(***************************************************************************)
EXTENDS RoomMessages, Tickets, Sessions, SimplePve, Accounts, ProfileWrites,
        Purchases, TLC

CONSTANTS ann, bob, vkA, okA, fbB, h1, h2, n1, v1, r1, r2, o1, o2

\* ann plays on a device, bob in one of the networks.
OneInNetwork == {(ann :> "none") @@ (bob :> n) : n \in {"vk", "ok", "fb"}}

\* Two identifiers lead to one account, the third to another.
KindOf == (vkA :> "vk") @@ (okA :> "ok") @@ (fbB :> "fb")
AccountOf == (vkA :> "A") @@ (okA :> "A") @@ (fbB :> "B")

\* The three networks have a copy of the same steps: requests cross in one of them.
CrossingInOne == [vk |-> {r1, r2}, ok |-> {r1}, fb |-> {r1}]

NetOf == (o1 :> "vk") @@ (o2 :> "ok")
PayerOf == (o1 :> ann) @@ (o2 :> bob)

VARIABLE feature   \* the one at work; never changes

Features == {"messages", "tickets", "sessions", "pve", "accounts", "writes", "purchases"}

ServicesInit ==
    /\ feature \in Features
    /\ MsgInit /\ TicketInit /\ SessionInit /\ PveInit /\ AccountInit /\ WriteInit /\ PurchaseInit
    /\ feature = "tickets" \/ net[bob] = "vk"
    /\ feature = "accounts" \/ networkOf[v1] = "vk"

AtRest(features) ==
    /\ "messages" \in features => UNCHANGED msgVars
    /\ "tickets" \in features => UNCHANGED ticketVars
    /\ "sessions" \in features => UNCHANGED sessionVars
    /\ "pve" \in features => UNCHANGED pveVars
    /\ "accounts" \in features => UNCHANGED accountVars
    /\ "writes" \in features => UNCHANGED writeVars
    /\ "purchases" \in features => UNCHANGED purchaseVars

ServicesNext ==
    /\ \/ feature = "messages" /\ MsgNext
       \/ feature = "tickets" /\ TicketNext
       \/ feature = "sessions" /\ SessionNext
       \/ feature = "pve" /\ PveNext
       \/ feature = "accounts" /\ AccountNext
       \/ feature = "writes" /\ WriteNext
       \/ feature = "purchases" /\ PurchaseNext
    /\ AtRest(Features \ {feature})
    /\ UNCHANGED feature

ServicesSpec ==
    ServicesInit /\ [][ServicesNext]_<<feature, msgVars, ticketVars, sessionVars, pveVars,
                                       accountVars, writeVars, purchaseVars>>

\* Types of the variables of every feature.
ServicesTypeOK ==
    /\ MsgTypeOK /\ TicketTypeOK /\ SessionTypeOK /\ PveTypeOK
    /\ AccountTypeOK /\ WriteTypeOK /\ PurchaseTypeOK

\* Requests and handlers are alike.
Alike == Permutations({r1, r2}) \cup Permutations({h1, h2})
=============================================================================
