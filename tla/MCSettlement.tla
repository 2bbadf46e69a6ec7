----------------------------- MODULE MCSettlement ------------------------------
(***************************************************************************)
(* Instances of Settlement for TLC.  Deliveries are numbered in the order  *)
(* in which the auction ends: they are interchangeable, so every behaviour *)
(* is a renaming of one in that order.                                     *)
(***************************************************************************)
EXTENDS Settlement, FiniteSets, FiniteSetsExt

CONSTANT MaxFailures    \* failures in a behaviour in which the auction ends twice

InOrder == \A e, f \in Events : e < f /\ pc[f] # "unsent" => pc[e] # "unsent"

\* Bids are interchangeable too, and two equal ones show no more than two of
\* which the second to lead was refused.
Rising == \A b, c \in Bids : b < c => amount[b] < amount[c]

\* Lost events and calls that have failed before or in paying.
Failures ==
    LET Failed(e) == (IF pc[e] = "lost" \/ e \in trouble THEN 1 ELSE 0)
                     + tries[e] - Cardinality({x \in rows : x.event = e /\ x.answered})
    IN  MapThenSumSet(Failed, Events)

Bounded ==
    (\E e, f \in Events : e # f /\ pc[e] # "unsent" /\ pc[f] # "unsent")
        => Failures <= MaxFailures

MCNext == Next /\ (InOrder /\ Bounded)'

MCInit == Init /\ Rising

MCSpec == MCInit /\ [][MCNext]_vars /\ Fairness

=============================================================================
