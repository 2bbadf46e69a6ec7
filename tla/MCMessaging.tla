---------------------------- MODULE MCMessaging -----------------------------
(***************************************************************************)
(* Instances of Messaging for TLC.                                         *)
(***************************************************************************)
EXTENDS Messaging, FiniteSetsExt

CONSTANTS
    MaxInbox,       \* messages on their way at a time
    MaxText,        \* chunks of all questions
    MaxTrouble      \* faults and failing models when questions overlap

Overlap == \E q \in Questions : ~ask[q].alone

Trouble == faults + MapThenSumSet(LAMBDA q : ask[q].model - 1, Questions)

\* Chunks that have come and that are to come.
Text ==
    LET Due(q) == IF C!At(q, "stream") THEN ask[q].plan - C!Said(q) ELSE 0
    IN  MapThenSumSet(LAMBDA q : Len(ask[q].text) + Due(q), Questions)

Asked == {q \in Questions : ask[q].step # "idle"}

\* Events and questions meet in a restart only: one of them and one question
\* show it.
Bounded ==
    /\ Len(inbox) <= MaxInbox
    /\ Text <= MaxText
    /\ Overlap => Text < MaxText /\ Trouble <= MaxTrouble
    /\ Cardinality(Asked) <= 1 \/ \A e \in Events : job[e] = "unsent"

MCNext == Next /\ Bounded'

MCSpec == Init /\ [][MCNext]_vars /\ Fairness

=============================================================================
