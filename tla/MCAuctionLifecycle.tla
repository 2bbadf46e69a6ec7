------------------------- MODULE MCAuctionLifecycle -------------------------
(***************************************************************************)
(* Instances of AuctionLifecycle for TLC.                                  *)
(***************************************************************************)
EXTENDS AuctionLifecycle, TLC

\* Auctions are interchangeable (for safety runs only), and so are the calls.
LifecycleSymmetry ==
    Permutations(Auctions) \union Permutations(Calls) \union Permutations(Edits)

=============================================================================
