--------------------------- MODULE EscrowAuction ---------------------------
(***************************************************************************)
(* What the bidding pipeline promises its bidders, with no lock, no Redis, *)
(* no message and no service in sight: the money of a bid is taken, held,  *)
(* and given back at most once; only a held bid may lead the auction; a    *)
(* bid takes the lead only by offering more than the leader; and the money *)
(* of the leader is not given back.                                        *)
(*                                                                         *)
(* Bidding.tla is shown to implement this specification.                   *)
(***************************************************************************)
EXTENDS Naturals

CONSTANTS
    Bids,       \* identities of the bids
    NoLeader    \* nobody leads yet

VARIABLES
    amount,     \* what each bid offers
    stage,      \* where the money of each bid is
    leader      \* the bid that currently wins the auction

vars == <<amount, stage, leader>>

Init ==
    /\ amount \in [Bids -> Nat]
    /\ stage = [b \in Bids |-> "new"]
    /\ leader = NoLeader

Hold(b) ==
    /\ stage[b] = "new"
    /\ stage' = [stage EXCEPT ![b] = "held"]
    /\ UNCHANGED <<amount, leader>>

Lead(b) ==
    /\ stage[b] = "held"
    /\ leader # NoLeader => amount[b] > amount[leader]
    /\ leader' = b
    /\ UNCHANGED <<amount, stage>>

Return(b) ==
    /\ stage[b] = "held"
    /\ leader # b
    /\ stage' = [stage EXCEPT ![b] = "returned"]
    /\ UNCHANGED <<amount, leader>>

Next == \E b \in Bids : Hold(b) \/ Lead(b) \/ Return(b)

Spec == Init /\ [][Next]_vars

============================================================================
