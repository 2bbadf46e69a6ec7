------------------------------ MODULE MCBidding -----------------------------
(***************************************************************************)
(* Instances of Bidding for TLC.  Requests are numbered so that symmetric  *)
(* initial states can be left out: requests are interchangeable, so every  *)
(* behaviour is a renaming of one whose offers are in the order of the     *)
(* request numbers.  (SYMMETRY would be unsound for liveness.)             *)
(***************************************************************************)
EXTENDS Bidding, TLC

SortedInit ==
    /\ Init
    /\ \A r, s \in Requests : r < s => offer[r] <= offer[s]

MCSpec == SortedInit /\ [][Next]_vars

\* The seller apart, accounts are interchangeable too: whichever of them bids
\* first, by the numbers of the requests, is called FirstBidder.
FirstBidder == CHOOSE u \in Users \ {Seller} : TRUE

NamedInit ==
    /\ SortedInit
    /\ \A r \in Requests :
          bidder[r] \in {Seller, FirstBidder} \/ \E q \in 1 .. (r - 1) : bidder[q] = FirstBidder

MCFairSpec == NamedInit /\ [][Next]_vars /\ Fairness

\* For runs in which the lock does not keep placements apart: two rivals,
\* one of them with two requests, and offers that rise or tie at the top.
ContentionInit ==
    /\ Init
    /\ \A r \in Requests : bidder[r] # Seller
    /\ bidder[1] # bidder[2] /\ bidder[3] = bidder[1]
    /\ offer \in {<<1, 2, 3>>, <<1, 2, 2>>}

MCContentionSpec == ContentionInit /\ [][Next]_vars

\* The seller apart, accounts are interchangeable (for safety runs only).
AccountSymmetry == Permutations(Users \ {Seller})

============================================================================
