--------------------------- MODULE MCUserAccount ---------------------------
(***************************************************************************)
(* Instances of UserAccount for TLC.                                       *)
(***************************************************************************)
EXTENDS UserAccount, TLC

\* Requests are interchangeable, and so are the hashes of passwords.
AccountSymmetry == Permutations(Requests) \union Permutations(Passwords)

=============================================================================
