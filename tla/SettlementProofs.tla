--------------------------- MODULE SettlementProofs ---------------------------
(***************************************************************************)
(* Theorems about Settlement, for any bids, amounts, deliveries, payload   *)
(* and faults:                                                             *)
(*                                                                         *)
(*   TypesHold             []TypeOK                                        *)
(*   PaymentsAreOnce       []PaidOnce                                      *)
(*   PaymentsAreHeld       []PaidFromEscrow                                *)
(*   WinnersAreSettled     []WonIsSettled                                  *)
(*                                                                         *)
(* The invariant has five parts beside the types.  Loop is the program     *)
(* order of a resolution: when it has a bid, and how often it has paid.    *)
(* Leads is about the bids that have taken the lead: they are not placed   *)
(* again, and only they are inserted, marked as outbid and settled.        *)
(* Receipts ties the rows of the seller to the resolution that has made    *)
(* them.  Backed says that a resolution settles the bid that leads, until  *)
(* a late bid takes over.  Winners says how a bid has become the winner.   *)
(***************************************************************************)
EXTENDS Settlement, TLAPS

\* b took the lead, or will not: it is not placed again.
Led(b) == stage[b] # "new" /\ placement # b

\* The steps before a resolution has a bid, before it pays, and with a bid.
Unread == {"unsent", "sent", "lock", "read"}
Unpaid == Unread \union {"read_id", "pending"}
Bound == {"read_id", "pending", "pay", "won", "publish"}

\* A resolution has a bid from its reading on, and stops trying in time.
Loop ==
    \A e \in Events :
        /\ pc[e] \in Unread => bid[e] = NoBid
        /\ pc[e] \in Bound => bid[e] # NoBid
        /\ pc[e] \in Unpaid => tries[e] = 0
        /\ pc[e] = "pay" => tries[e] < Attempts

\* The leader's money is held; whoever is to be inserted, is to be marked, is
\* stored or is settled took the lead, and the leader is not to be marked.
Leads ==
    /\ leader # NoLeader => stage[leader] = "held" /\ Led(leader)
    /\ inserting \union Stored # {} => leader # NoLeader
    /\ \A b \in inserting \union marking \union Stored : Led(b)
    /\ \A b \in inserting : b \notin Stored
    /\ leader \notin marking
    /\ \A e \in Events : bid[e] # NoBid => leader # NoLeader /\ Led(bid[e].id)

\* A row is of a resolution that has come to pay, for its bid and in one of
\* its tries; the loop goes on only after a try without an answer.
Receipts ==
    /\ \A x \in rows :
          /\ bid[x.event] # NoBid
          /\ pc[x.event] \notin Unpaid
          /\ x.bid = bid[x.event].amount
          /\ x.try <= tries[x.event]
          /\ pc[x.event] = "pay" => ~x.answered
    /\ \A x, y \in rows : x.event = y.event =>
          /\ x.try < y.try => ~x.answered
          /\ x.try = y.try => x = y

\* A resolution settles the bid that leads, unless Redis could not be asked or
\* a late bid took over.
Backed ==
    \A e \in Events :
        /\ pc[e] \in {"unsent", "sent", "lock", "read", "read_id"} => e \notin trouble
        /\ late = {} /\ bid[e] # NoBid => bid[e].id = bid[e].amount
        /\ late = {} /\ bid[e] # NoBid /\ e \notin trouble => bid[e].amount = leader

\* The auction is settled once more.
Twice == \E e, f \in Events : e # f /\ bid[e] # NoBid /\ bid[f] # NoBid

\* b is the winner in Mongo, or for one of these reasons is not.
Crowned(b) == status[b] = "WINNER" \/ b \in missed \/ leader # b \/ Twice

\* An answered row is behind a winner.
Winners ==
    /\ \A e \in Events :
          /\ pc[e] \in {"won", "publish"} => \E x \in rows : x.event = e /\ x.answered
          /\ pc[e] = "publish" => Crowned(bid[e].id)
    /\ \A b \in won :
          /\ \E e \in Events :
                bid[e] # NoBid /\ bid[e].id = b /\ pc[e] \in {"unlock", "done", "lost"}
          /\ \E x \in rows : x.answered /\ (x.bid = b \/ late # {})
          /\ Crowned(b)

-----------------------------------------------------------------------------
(* Steps                                                                   *)

\* A step of a bidder.
Bidder(b) ==
    \/ ValidateRead(b) \/ Charge(b) \/ Lead(b) \/ GiveUp(b)
    \/ Return(b) \/ InsertBid(b) \/ MarkOutbid(b)

\* A bidder leaves the resolutions alone.
LEMMA BidderStep ==
    ASSUME NEW b \in Bids, Bidder(b)
    PROVE  UNCHANGED <<pc, lock, bid, tries, rows, won, missed, trouble>>
BY DEF Bidder, ValidateRead, Charge, Lead, GiveUp, Return, InsertBid, MarkOutbid, history

\* The steps that go on with one resolution.
Event(e) == AuctionEnds(e) \/ Receive(e) \/ Resolve(e)

\* Who steps.
LEMMA Steppers ==
    ASSUME [Next]_vars
    PROVE  \/ \E b \in Bids : Bidder(b)
           \/ \E e \in Events : Event(e)
           \/ LockExpires
           \/ Crash
           \/ UNCHANGED vars
BY DEF Next, Bidder, Event

\* A resolution that moves leaves the others where they are.
LEMMA Moves ==
    ASSUME TypeOK, NEW e \in Events, NEW l, Goto(e, l)
    PROVE  /\ pc'[e] = l
           /\ \A f \in Events : f # e => pc'[f] = pc[f]
BY DEF TypeOK, Goto

\* The fields of the bid of a resolution.
LEMMA BidFields ==
    ASSUME TypeOK, NEW e \in Events, bid[e] # NoBid
    PROVE  bid[e] \in HighestBid /\ bid[e].amount \in Bids /\ bid[e].id \in Bids
BY DEF TypeOK, HighestBid

\* ReadId changes the id alone.
LEMMA IdIsRead ==
    ASSUME TypeOK, Loop, Leads, NEW e \in Events, ReadId(e)
    PROVE  /\ bid[e] # NoBid /\ leader \in Bids /\ bid' \in [Events -> HighestBid \union {NoBid}]
           /\ bid'[e] \in HighestBid /\ bid'[e] # NoBid
           /\ bid'[e].id = leader /\ bid'[e].amount = bid[e].amount
           /\ \A f \in Events : f # e => bid'[f] = bid[f]
<1>1. bid[e] # NoBid /\ leader \in Bids
  BY DEF TypeOK, Loop, Leads, Bound, ReadId, At
<1>2. bid[e] \in HighestBid
  BY <1>1, BidFields
<1>3. bid'[e] = [bid[e] EXCEPT !.id = leader] /\ \A f \in Events : f # e => bid'[f] = bid[f]
  BY DEF ReadId, TypeOK
<1>4. bid'[e] \in HighestBid /\ bid'[e].id = leader /\ bid'[e].amount = bid[e].amount
  BY <1>1, <1>2, <1>3 DEF HighestBid
<1>5. bid' = [bid EXCEPT ![e] = bid'[e]]
  BY <1>3 DEF ReadId, TypeOK
<1>6. bid' \in [Events -> HighestBid \union {NoBid}]
  BY <1>4, <1>5 DEF TypeOK
<1> QED
  BY <1>1, <1>3, <1>4, <1>6, NoBidAssumption

\* What Mongo answers: nothing, or the bid of a stored document.
LEMMA MongoAnswers ==
    ASSUME TypeOK, NEW e \in Events, FromMongo(e)
    PROVE  \/ bid' = bid /\ pc'[e] = "unlock"
           \/ \E b \in Stored :
                 /\ bid' = [bid EXCEPT ![e] = [amount |-> b, id |-> b, status |-> status[b]]]
                 /\ bid'[e] # NoBid /\ bid'[e].amount = b /\ bid'[e].id = b
                 /\ pc'[e] \in {"unlock", "pending"}
<1>1. CASE Stored = {}
  BY <1>1 DEF FromMongo, Goto, TypeOK
<1>2. CASE Stored # {}
  <2>1. PICK b \in Stored :
           /\ bid' = [bid EXCEPT ![e] = [amount |-> b, id |-> b, status |-> status[b]]]
           /\ Goto(e, IF status[b] = "WINNER" THEN "unlock" ELSE "pending")
    BY <1>2 DEF FromMongo
  <2>2. bid'[e] = [amount |-> b, id |-> b, status |-> status[b]]
    BY <2>1 DEF TypeOK
  <2>3. [amount |-> b, id |-> b, status |-> status[b]] \in HighestBid
    BY DEF HighestBid, Stored, TypeOK
  <2>4. pc'[e] \in {"unlock", "pending"}
    BY <2>1, Moves
  <2>5. bid'[e] # NoBid /\ bid'[e].amount = b /\ bid'[e].id = b
    BY <2>2, <2>3, NoBidAssumption
  <2> QED
    BY <2>1, <2>4, <2>5
<1> QED
  BY <1>1, <1>2

\* The row of a try.
LEMMA RowOfTry ==
    ASSUME TypeOK, Loop, NEW e \in Events, Pay(e)
    PROVE  /\ tries'[e] = tries[e] + 1 /\ tries[e] \in 0 .. Attempts - 1
           /\ \A f \in Events : f # e => tries'[f] = tries[f] /\ pc'[f] = pc[f]
           /\ bid[e] # NoBid
           /\ \/ rows' = rows /\ pc'[e] \in {"unlock", "pay"}
              \/ \E ok \in BOOLEAN, x \in Row :
                    /\ rows' = rows \union {x}
                    /\ x.event = e /\ x.try = tries[e] + 1 /\ x.bid = bid[e].amount
                    /\ x.answered = ok
                    /\ pc'[e] = AfterTry(e, ok)
<1>1. pc[e] = "pay" /\ tries[e] \in 0 .. Attempts - 1 /\ bid[e] # NoBid
  BY DEF Pay, At, Loop, TypeOK, Attempts, Bound
<1>2. tries'[e] = tries[e] + 1 /\ \A f \in Events : f # e => tries'[f] = tries[f] /\ pc'[f] = pc[f]
  BY Moves DEF Pay, TypeOK
<1>3. ASSUME NEW ok \in BOOLEAN, Pays(e, ok), Goto(e, AfterTry(e, ok))
      PROVE  \E x \in Row : /\ rows' = rows \union {x}
                            /\ x.event = e /\ x.try = tries[e] + 1 /\ x.bid = bid[e].amount
                            /\ x.answered = ok
                            /\ pc'[e] = AfterTry(e, ok)
  <2> DEFINE x == [event |-> e, try |-> tries[e] + 1, bid |-> bid[e].amount, answered |-> ok]
  <2>1. tries[e] + 1 \in 1 .. Attempts /\ bid[e].amount \in Bids
    BY <1>1, BidFields DEF Attempts
  <2>2. x \in Row
    BY <2>1 DEF Row
  <2>3. rows' = rows \union {x}
    BY <1>3 DEF Pays
  <2> QED
    BY <1>3, <2>2, <2>3, Moves
<1>4. rows' = rows /\ Goto(e, AfterTry(e, FALSE)) => pc'[e] \in {"unlock", "pay"}
  BY Moves DEF AfterTry
<1> QED
  BY <1>1, <1>2, <1>3, <1>4 DEF Pay

-----------------------------------------------------------------------------
(* Types                                                                   *)

LEMMA TypeStep ==
    ASSUME TypeOK, Loop, Leads, [Next]_vars
    PROVE  TypeOK'
<1>1. ASSUME NEW b \in Bids, Bidder(b) PROVE TypeOK'
  BY <1>1 DEF Bidder, TypeOK, Statuses, ValidateRead, Charge, Lead, GiveUp, Return, InsertBid,
     MarkOutbid, Set, Escrow!Hold, Escrow!Lead, Escrow!Return, escrow, placing, goroutines, history
<1>2. ASSUME NEW e \in Events, AuctionEnds(e) PROVE TypeOK'
  BY <1>2 DEF TypeOK, AuctionEnds, Goto, escrow, history
<1>3. ASSUME NEW e \in Events, Receive(e) PROVE TypeOK'
  BY <1>3 DEF TypeOK, Steps, Receive, Goto, escrow, placing, history
<1>4. ASSUME NEW e \in Events, Lock(e) PROVE TypeOK'
  BY <1>4 DEF TypeOK, Steps, Lock, Goto, escrow, placing, history
<1>5. ASSUME NEW e \in Events, ReadPrice(e) PROVE TypeOK'
  BY <1>5 DEF TypeOK, Steps, HighestBid, Statuses, ReadPrice, Goto, escrow, placing, history
<1>6. ASSUME NEW e \in Events, ReadId(e) PROVE TypeOK'
  BY <1>6, IdIsRead DEF TypeOK, Steps, ReadId, Goto, escrow, placing, history
<1>7. ASSUME NEW e \in Events, ReadMongo(e) PROVE TypeOK'
  BY <1>7 DEF TypeOK, Steps, HighestBid, Stored, ReadMongo, FromMongo, Goto, escrow, placing,
     history
<1>8. ASSUME NEW e \in Events, ReadFails(e) PROVE TypeOK'
  BY <1>8 DEF TypeOK, Steps, HighestBid, Stored, ReadFails, FromMongo, Goto, escrow, placing
<1>9. ASSUME NEW e \in Events, SetPending(e) PROVE TypeOK'
  <2>1. bid[e].id \in Bids
    BY <1>9, BidFields DEF Loop, Bound, SetPending, At
  <2> QED
    BY <1>9, <2>1 DEF TypeOK, Steps, Statuses, SetPending, Update, Set, Goto, escrow, placing
<1>10. ASSUME NEW e \in Events, Pay(e) PROVE TypeOK'
  <2>1. rows' \subseteq Row
    BY <1>10, RowOfTry DEF TypeOK
  <2>2. tries' \in [Events -> 0 .. Attempts]
    <3>1. tries[e] \in 0 .. Attempts - 1
      BY <1>10, RowOfTry
    <3>2. tries[e] + 1 \in 0 .. Attempts
      BY <3>1 DEF Attempts
    <3> QED
      BY <1>10, <3>2 DEF TypeOK, Pay
  <2>3. pc' \in [Events -> Steps \union {"unsent", "sent", "lost", "done"}]
    BY <1>10 DEF TypeOK, Pay, Goto, AfterTry, Steps
  <2> QED
    BY <1>10, <2>1, <2>2, <2>3 DEF TypeOK, Pay, escrow, placing, history
<1>11. ASSUME NEW e \in Events, SetWinner(e) PROVE TypeOK'
  <2>1. bid[e].id \in Bids
    BY <1>11, BidFields DEF Loop, Bound, SetWinner, At
  <2> QED
    BY <1>11, <2>1 DEF TypeOK, Steps, Statuses, SetWinner, Update, Set, Goto, escrow, placing
<1>12. ASSUME NEW e \in Events, PublishWon(e) PROVE TypeOK'
  <2>1. bid[e].id \in Bids
    BY <1>12, BidFields DEF Loop, Bound, PublishWon, At
  <2> QED
    BY <1>12, <2>1 DEF TypeOK, Steps, PublishWon, Goto, escrow, placing, history
<1>13. ASSUME NEW e \in Events, Unlock(e) PROVE TypeOK'
  BY <1>13 DEF TypeOK, Unlock, Goto, escrow, placing, history
<1>14. CASE LockExpires
  BY <1>14 DEF TypeOK, LockExpires, escrow, placing, history
<1>15. CASE Crash
  BY <1>15 DEF TypeOK, Crash, Steps, escrow, history
<1>16. CASE UNCHANGED vars
  BY <1>16 DEF TypeOK, vars
<1> QED
  BY Steppers, <1>1, <1>2, <1>3, <1>4, <1>5, <1>6, <1>7, <1>8, <1>9, <1>10, <1>11, <1>12, <1>13,
     <1>14, <1>15, <1>16 DEF Event, Resolve

LEMMA LoopStep ==
    ASSUME TypeOK, Loop, Leads, [Next]_vars
    PROVE  Loop'
<1>1. CASE UNCHANGED <<pc, bid, tries>>
  BY <1>1 DEF Loop
<1>2. ASSUME NEW e \in Events, AuctionEnds(e) \/ Receive(e) \/ Lock(e) PROVE Loop'
  BY <1>2 DEF TypeOK, Loop, Unread, Unpaid, Bound, AuctionEnds, Receive, Lock, Goto, At
<1>3. ASSUME NEW e \in Events, ReadPrice(e) PROVE Loop'
  <2>1. [amount |-> leader, id |-> leader, status |-> "none"] \in HighestBid
    BY <1>3 DEF ReadPrice, TypeOK, HighestBid, Statuses
  <2>2. bid'[e] # NoBid /\ \A f \in Events : f # e => bid'[f] = bid[f]
    BY <1>3, <2>1, NoBidAssumption DEF ReadPrice, TypeOK
  <2>3. pc'[e] = "read_id" /\ pc[e] = "read" /\ \A f \in Events : f # e => pc'[f] = pc[f]
    BY <1>3, Moves DEF ReadPrice, At
  <2> QED
    BY <1>3, <2>2, <2>3 DEF Loop, Unread, Unpaid, Bound, ReadPrice
<1>4. ASSUME NEW e \in Events, ReadId(e) PROVE Loop'
  <2>1. pc'[e] = "pending" /\ pc[e] = "read_id" /\ \A f \in Events : f # e => pc'[f] = pc[f]
    BY <1>4, Moves DEF ReadId, At
  <2> QED
    BY <1>4, <2>1, IdIsRead DEF Loop, Unread, Unpaid, Bound, ReadId
<1>5. ASSUME NEW e \in Events, At(e, "read"), FromMongo(e), tries' = tries PROVE Loop'
  <2>1. \A f \in Events : f # e => pc'[f] = pc[f] /\ bid'[f] = bid[f]
    BY <1>5 DEF FromMongo, Goto, TypeOK
  <2> QED
    BY <1>5, <2>1, MongoAnswers DEF Loop, Unread, Unpaid, Bound, At
<1>6. ASSUME NEW e \in Events, ReadFails(e) PROVE Loop'
  <2>1. CASE At(e, "read") /\ FromMongo(e)
    BY <1>5, <1>6, <2>1 DEF ReadFails
  <2>2. CASE bid' = bid /\ (Goto(e, "done") \/ Goto(e, "unlock"))
    BY <1>6, <2>2 DEF ReadFails, TypeOK, Loop, Unread, Unpaid, Bound, Goto
  <2> QED
    BY <1>6, <2>1, <2>2 DEF ReadFails
<1>7. ASSUME NEW e \in Events, Pay(e) PROVE Loop'
  <2>1. /\ tries'[e] = tries[e] + 1 /\ tries[e] \in 0 .. Attempts - 1
        /\ \A f \in Events : f # e => tries'[f] = tries[f] /\ pc'[f] = pc[f]
        /\ bid[e] # NoBid /\ bid' = bid
    BY <1>7, RowOfTry DEF Pay
  <2>2. PICK ok \in BOOLEAN : Goto(e, AfterTry(e, ok))
    BY <1>7 DEF Pay
  <2>3. pc'[e] \notin Unpaid /\ (pc'[e] = "pay" => tries'[e] < Attempts)
    BY <2>1, <2>2, Moves DEF AfterTry, Unpaid, Unread, Attempts
  <2> QED
    BY <2>1, <2>3 DEF Loop, Unread, Unpaid
<1>8. ASSUME NEW e \in Events, SetPending(e) \/ SetWinner(e) \/ PublishWon(e) \/ Unlock(e)
      PROVE  Loop'
  BY <1>8 DEF TypeOK, Loop, Unread, Unpaid, Bound, Attempts, SetPending, SetWinner, PublishWon,
     Unlock, Goto, At
<1>9. CASE Crash
  BY <1>9 DEF TypeOK, Loop, Unread, Unpaid, Bound, Crash
<1> QED
  BY Steppers, BidderStep, <1>1, <1>2, <1>3, <1>4, <1>5, <1>6, <1>7, <1>8, <1>9
  DEF Event, Resolve, ReadMongo, LockExpires, vars

-----------------------------------------------------------------------------
(* The bids that have taken the lead                                       *)

\* Updates change the status of a bid that is stored; a new one is "none" only
\* if the old one is.
LEMMA SetKeepsStored ==
    ASSUME TypeOK, NEW b \in Bids, NEW s \in Statuses \ {"none"}, status' = Set(b, s)
    PROVE  Stored' = Stored
BY DEF TypeOK, Stored, Set

LEMMA UpdateKeepsStored ==
    ASSUME TypeOK, NEW b \in Bids, NEW s \in Statuses \ {"none"}, Update(b, s)
    PROVE  Stored' = Stored
BY SetKeepsStored DEF Update, Stored

LEMMA LeadsStep ==
    ASSUME TypeOK, Loop, Leads, [Next]_vars
    PROVE  Leads'
<1>1. CASE UNCHANGED <<stage, leader, placement, inserting, marking, bid>> /\ Stored' = Stored
  BY <1>1 DEF Leads, Led
<1>2. ASSUME NEW b \in Bids, ValidateRead(b) PROVE Leads'
  BY <1>2, NoLeaderAssumption DEF TypeOK, Leads, Led, Stored, ValidateRead, escrow, goroutines
<1>3. ASSUME NEW b \in Bids, Charge(b) PROVE Leads'
  BY <1>3 DEF TypeOK, Leads, Led, Stored, Charge, Escrow!Hold, goroutines
<1>4. ASSUME NEW b \in Bids, Lead(b) PROVE Leads'
  <2>1. /\ placement = b /\ placement' = Nobody /\ stage[b] = "held" /\ leader' = b
        /\ stage' = stage /\ inserting' = inserting \union {b} /\ bid' = bid
        /\ Stored' = Stored
        /\ marking' \subseteq marking \union ({leader} \ {NoLeader})
    BY <1>4 DEF Lead, Escrow!Lead, Stored
  <2>2. ~Led(b) /\ Led(b)'
    BY <2>1, NobodyAssumption DEF Led
  <2>3. \A c \in Bids : Led(c) => Led(c)'
    BY <2>1, NobodyAssumption DEF Led
  <2>4. b \notin inserting \union marking \union Stored /\ b # leader
    BY <2>2, NoLeaderAssumption DEF Leads
  <2>5. leader' \notin marking' /\ \A c \in inserting' : c \notin Stored'
    BY <2>1, <2>4 DEF Leads
  <2>6. \A c \in inserting' \union marking' \union Stored' : Led(c)'
    BY <2>1, <2>2, <2>3 DEF Leads, TypeOK, Stored
  <2>7. \A e \in Events : bid'[e] # NoBid => leader' # NoLeader /\ Led(bid[e].id)'
    <3>1. \A e \in Events : bid[e] # NoBid => bid[e].id \in Bids /\ Led(bid[e].id)
      BY BidFields DEF Leads
    <3> QED
      BY <2>1, <2>3, <3>1, NoLeaderAssumption DEF Led
  <2> QED
    BY <2>1, <2>2, <2>5, <2>6, <2>7, NoLeaderAssumption DEF Leads, Led
<1>5. ASSUME NEW b \in Bids, GiveUp(b) PROVE Leads'
  <2>1. /\ placement' = Nobody /\ UNCHANGED <<stage, leader, inserting, marking, bid>>
        /\ Stored' = Stored
    BY <1>5 DEF GiveUp, escrow, goroutines, Stored
  <2>2. \A c \in Bids : Led(c) => Led(c)'
    BY <2>1, NobodyAssumption DEF Led
  <2> QED
    BY <2>1, <2>2, BidFields DEF Leads, TypeOK, Stored, Led
<1>6. ASSUME NEW b \in Bids, Return(b) PROVE Leads'
  BY <1>6 DEF TypeOK, Leads, Led, Stored, Return, Escrow!Return, placing
<1>7. ASSUME NEW b \in Bids, InsertBid(b) PROVE Leads'
  BY <1>7 DEF TypeOK, Leads, Led, Stored, InsertBid, escrow
<1>8. ASSUME NEW b \in Bids, MarkOutbid(b) PROVE Leads'
  <2>1. Stored' = Stored
    BY <1>8, SetKeepsStored DEF MarkOutbid, Statuses
  <2> QED
    BY <1>8, <2>1 DEF Leads, Led, MarkOutbid, escrow
<1>9. ASSUME NEW e \in Events, ReadPrice(e) PROVE Leads'
  <2>1. bid'[e].id = leader /\ leader # NoLeader /\ \A f \in Events : f # e => bid'[f] = bid[f]
    BY <1>9 DEF ReadPrice, TypeOK
  <2> QED
    BY <1>9, <2>1 DEF Leads, Led, Stored, ReadPrice, escrow, placing, goroutines
<1>10. ASSUME NEW e \in Events, ReadId(e) PROVE Leads'
  <2>1. leader # NoLeader
    BY <1>10, IdIsRead, NoLeaderAssumption
  <2> QED
    BY <1>10, <2>1, IdIsRead DEF Leads, Led, Stored, ReadId, escrow, placing, goroutines
<1>11. ASSUME NEW e \in Events, FromMongo(e),
              UNCHANGED <<stage, leader, placement, inserting, marking, status>>
       PROVE  Leads'
  <2>1. Stored' = Stored
    BY <1>11 DEF Stored
  <2>2. CASE bid' = bid
    BY <1>11, <2>1, <2>2 DEF Leads, Led
  <2>3. ASSUME NEW b \in Stored, bid'[e].id = b,
               bid' = [bid EXCEPT ![e] = [amount |-> b, id |-> b, status |-> status[b]]]
        PROVE  Leads'
    BY <1>11, <2>1, <2>3 DEF Leads, Led, TypeOK
  <2> QED
    BY <1>11, <2>2, <2>3, MongoAnswers
<1>12. ASSUME NEW e \in Events, ReadFails(e) PROVE Leads'
  <2>1. /\ UNCHANGED <<stage, leader, placement, inserting, marking, status>>
        /\ FromMongo(e) \/ bid' = bid
    BY <1>12 DEF ReadFails, escrow, placing
  <2>2. CASE bid' = bid
    BY <2>1, <2>2 DEF Leads, Led, Stored
  <2> QED
    BY <1>11, <2>1, <2>2
<1>13. ASSUME NEW e \in Events, SetPending(e) \/ SetWinner(e) PROVE Leads'
  <2>1. bid[e].id \in Bids
    BY <1>13, BidFields DEF Loop, Bound, SetPending, SetWinner, At
  <2>2. Stored' = Stored
    BY <1>13, <2>1, UpdateKeepsStored DEF SetPending, SetWinner, Statuses
  <2> QED
    BY <1>1, <1>13, <2>2 DEF SetPending, SetWinner, escrow, placing
<1>14. CASE Crash
  <2>1. /\ placement' = Nobody /\ inserting' = {} /\ marking' = {} /\ Stored' = Stored
        /\ UNCHANGED <<stage, leader, bid>>
    BY <1>14 DEF Crash, escrow, Stored
  <2>2. \A c \in Bids : Led(c) => Led(c)'
    BY <2>1, NobodyAssumption DEF Led
  <2> QED
    BY <2>1, <2>2, BidFields DEF Leads, TypeOK, Stored, Led
<1>15. ASSUME NEW e \in Events,
              AuctionEnds(e) \/ Receive(e) \/ Lock(e) \/ Pay(e) \/ PublishWon(e) \/ Unlock(e)
       PROVE  Leads'
  BY <1>1, <1>15 DEF AuctionEnds, Receive, Lock, Pay, PublishWon, Unlock, escrow, placing, Stored
<1>16. ASSUME NEW e \in Events, ReadMongo(e) PROVE Leads'
  BY <1>11, <1>16 DEF ReadMongo, escrow, placing
<1>17. CASE LockExpires \/ UNCHANGED vars
  BY <1>1, <1>17 DEF LockExpires, vars, escrow, placing, Stored
<1> QED
  BY Steppers, <1>2, <1>3, <1>4, <1>5, <1>6, <1>7, <1>8, <1>9, <1>10, <1>12, <1>13, <1>14,
     <1>15, <1>16, <1>17 DEF Bidder, Event, Resolve

-----------------------------------------------------------------------------
(* The payments                                                            *)

LEMMA ReceiptsStep ==
    ASSUME TypeOK, Loop, Leads, Receipts, [Next]_vars
    PROVE  Receipts'
<1>1. ASSUME UNCHANGED <<rows, tries>>,
             \A x \in rows :
                /\ bid'[x.event] = bid[x.event]
                /\ pc'[x.event] = pc[x.event] \/ pc'[x.event] \notin Unpaid \union {"pay"}
      PROVE  Receipts'
  BY <1>1 DEF Receipts
<1>2. \A x \in rows : x.event \in Events /\ pc[x.event] \notin Unpaid
  BY DEF Receipts, TypeOK, Row
<1>3. ASSUME NEW e \in Events,
             \/ AuctionEnds(e) \/ Receive(e) \/ Lock(e) \/ ReadPrice(e) \/ ReadId(e)
             \/ ReadMongo(e) \/ ReadFails(e) \/ SetPending(e)
      PROVE  Receipts'
  <2>1. pc[e] \in Unpaid
    BY <1>3 DEF AuctionEnds, Receive, Lock, ReadPrice, ReadId, ReadMongo, ReadFails, SetPending,
       At, Unpaid, Unread
  <2>2. \A f \in Events : f # e => pc'[f] = pc[f] /\ bid'[f] = bid[f]
    BY <1>3 DEF TypeOK, AuctionEnds, Receive, Lock, ReadPrice, ReadId, ReadMongo, ReadFails,
       SetPending, FromMongo, Goto
  <2>3. UNCHANGED <<rows, tries>>
    BY <1>3 DEF AuctionEnds, Receive, Lock, ReadPrice, ReadId, ReadMongo, ReadFails, SetPending
  <2> QED
    BY <1>1, <1>2, <2>1, <2>2, <2>3
<1>4. ASSUME NEW e \in Events, SetWinner(e) \/ PublishWon(e) \/ Unlock(e) PROVE Receipts'
  <2>1. pc'[e] \notin Unpaid \union {"pay"} /\ \A f \in Events : f # e => pc'[f] = pc[f]
    BY <1>4, Moves DEF SetWinner, PublishWon, Unlock, Unpaid, Unread
  <2>2. UNCHANGED <<bid, rows, tries>>
    BY <1>4 DEF SetWinner, PublishWon, Unlock
  <2> QED
    BY <1>1, <1>2, <2>1, <2>2
<1>5. ASSUME NEW e \in Events, Pay(e) PROVE Receipts'
  <2>1. /\ pc[e] = "pay" /\ bid' = bid /\ bid[e] # NoBid
        /\ tries'[e] = tries[e] + 1
        /\ \A f \in Events : f # e => tries'[f] = tries[f] /\ pc'[f] = pc[f]
    BY <1>5, RowOfTry DEF Pay, At
  <2>2. /\ \A f \in Events : tries[f] \in Nat
        /\ \A x \in rows : x.event \in Events /\ x.try \in Nat
    BY DEF TypeOK, Row, Attempts
  <2>3. \A x \in rows : x.event = e => ~x.answered /\ x.try < tries[e] + 1
    BY <2>1, <2>2 DEF Receipts
  <2>4. CASE rows' = rows /\ pc'[e] \in {"unlock", "pay"}
    BY <2>1, <2>2, <2>3, <2>4 DEF Receipts, Unpaid, Unread
  <2>5. ASSUME NEW ok \in BOOLEAN, NEW row \in Row, rows' = rows \union {row},
               row.event = e, row.try = tries[e] + 1, row.bid = bid[e].amount,
               row.answered = ok,
               pc'[e] = AfterTry(e, ok)
        PROVE  Receipts'
    <3>1. pc'[e] \notin Unpaid /\ (pc'[e] = "pay" => ~ok)
      BY <2>5 DEF AfterTry, Unpaid, Unread
    <3>2. \A x \in rows' : /\ bid'[x.event] # NoBid
                           /\ pc'[x.event] \notin Unpaid
                           /\ x.bid = bid'[x.event].amount
                           /\ x.try <= tries'[x.event]
                           /\ pc'[x.event] = "pay" => ~x.answered
      BY <2>1, <2>2, <2>3, <2>5, <3>1 DEF Receipts
    <3>3. \A x, y \in rows' : x.event = y.event =>
             /\ x.try < y.try => ~x.answered
             /\ x.try = y.try => x = y
      BY <2>1, <2>2, <2>3, <2>5 DEF Receipts
    <3> QED
      BY <3>2, <3>3 DEF Receipts
  <2> QED
    BY <1>5, <2>4, <2>5, RowOfTry
<1>6. CASE Crash
  <2>1. \A e \in Events : pc'[e] = pc[e] \/ pc'[e] = "lost"
    BY <1>6 DEF Crash
  <2> QED
    BY <1>1, <1>2, <1>6, <2>1 DEF Crash, Unpaid, Unread
<1>7. CASE UNCHANGED <<rows, tries, bid, pc>>
  BY <1>1, <1>7
<1> QED
  BY Steppers, BidderStep, <1>3, <1>4, <1>5, <1>6, <1>7 DEF Event, Resolve, LockExpires, vars

-----------------------------------------------------------------------------
(* The bid that is settled                                                 *)

LEMMA BackedStep ==
    ASSUME TypeOK, Loop, Leads, Backed, [Next]_vars
    PROVE  Backed'
<1>1. ASSUME NEW b \in Bids, Lead(b) PROVE Backed'
  <2>1. CASE Announced
    BY <1>1, <2>1 DEF Lead, Backed
  <2>2. CASE ~Announced
    <3>1. \A e \in Events : pc[e] = "unsent" /\ bid[e] = NoBid
      BY <2>2 DEF Announced, Loop, Unread
    <3> QED
      BY <1>1, <3>1 DEF Lead, Backed
  <2> QED
    BY <2>1, <2>2
<1>2. ASSUME NEW b \in Bids, Bidder(b), ~Lead(b) PROVE Backed'
  BY <1>2 DEF Backed, Bidder, ValidateRead, Charge, GiveUp, Return, InsertBid, MarkOutbid, history,
     escrow, Escrow!Hold, Escrow!Return
<1>3. ASSUME NEW e \in Events, AuctionEnds(e) \/ Receive(e) \/ Lock(e) PROVE Backed'
  BY <1>3 DEF TypeOK, Backed, AuctionEnds, Receive, Lock, Goto, At, escrow, history
<1>4. ASSUME NEW e \in Events, ReadPrice(e) PROVE Backed'
  <2>1. /\ pc[e] = "read" /\ pc'[e] = "read_id" /\ \A f \in Events : f # e => pc'[f] = pc[f]
    BY <1>4, Moves DEF ReadPrice, At
  <2>2. /\ bid'[e].amount = leader /\ bid'[e].id = leader
        /\ \A f \in Events : f # e => bid'[f] = bid[f]
    BY <1>4 DEF ReadPrice, TypeOK
  <2> QED
    BY <1>4, <2>1, <2>2 DEF Backed, ReadPrice, escrow, history
<1>5. ASSUME NEW e \in Events, ReadId(e) PROVE Backed'
  <2>1. /\ pc[e] = "read_id" /\ pc'[e] = "pending" /\ \A f \in Events : f # e => pc'[f] = pc[f]
    BY <1>5, Moves DEF ReadId, At
  <2>2. /\ bid[e] # NoBid /\ bid'[e].id = leader /\ bid'[e].amount = bid[e].amount
        /\ \A f \in Events : f # e => bid'[f] = bid[f]
    BY <1>5, IdIsRead
  <2>3. late' = late /\ trouble' = trouble /\ leader' = leader
    BY <1>5 DEF ReadId, escrow, history
  <2>4. e \notin trouble
    BY <2>1 DEF Backed
  <2>5. late = {} => bid'[e].id = bid'[e].amount /\ bid'[e].amount = leader
    BY <2>2, <2>4 DEF Backed
  <2> QED
    BY <2>1, <2>2, <2>3, <2>4, <2>5 DEF Backed
<1>6. ASSUME NEW e \in Events, ReadMongo(e) PROVE Backed'
  <2>1. Stored = {}
    BY <1>6, NoLeaderAssumption DEF Leads, ReadMongo, AsksMongo
  <2>2. bid' = bid /\ pc'[e] = "unlock" /\ \A f \in Events : f # e => pc'[f] = pc[f]
    BY <1>6, <2>1, Moves DEF ReadMongo, FromMongo
  <2> QED
    BY <1>6, <2>2 DEF Backed, ReadMongo, escrow, history
<1>7. ASSUME NEW e \in Events, ReadFails(e) PROVE Backed'
  <2>1. /\ trouble' = trouble \union {e} /\ UNCHANGED <<late, leader>>
        /\ \A f \in Events : f # e => pc'[f] = pc[f] /\ bid'[f] = bid[f]
    BY <1>7 DEF ReadFails, FromMongo, Goto, TypeOK, escrow
  <2>2. \/ bid' = bid /\ pc'[e] \in {"done", "unlock"}
        \/ FromMongo(e)
    BY <1>7, Moves DEF ReadFails
  <2>3. /\ pc'[e] \notin {"unsent", "sent", "lock", "read", "read_id"}
        /\ bid'[e] = bid[e] \/ bid'[e].id = bid'[e].amount
    BY <2>2, MongoAnswers
  <2> QED
    BY <2>1, <2>3 DEF Backed
<1>8. ASSUME NEW e \in Events, SetPending(e) \/ Pay(e) \/ SetWinner(e) \/ PublishWon(e) \/ Unlock(e)
      PROVE  Backed'
  <2>1. UNCHANGED <<bid, late, trouble, leader>>
    BY <1>8 DEF SetPending, Pay, SetWinner, PublishWon, Unlock, escrow, history
  <2>2. PICK l : Goto(e, l) /\ l \in {"pay", "won", "publish", "unlock", "done"}
    BY <1>8 DEF SetPending, Pay, AfterTry, SetWinner, PublishWon, Unlock
  <2>3. /\ pc'[e] \notin {"unsent", "sent", "lock", "read", "read_id"}
        /\ \A f \in Events : f # e => pc'[f] = pc[f]
    BY <2>2, Moves
  <2> QED
    BY <2>1, <2>3 DEF Backed
<1>9. CASE Crash
  BY <1>9 DEF TypeOK, Backed, Crash, escrow, history
<1>10. CASE LockExpires \/ UNCHANGED vars
  BY <1>10 DEF Backed, LockExpires, vars, escrow, history
<1> QED
  BY Steppers, <1>1, <1>2, <1>3, <1>4, <1>5, <1>6, <1>7, <1>8, <1>9, <1>10 DEF Event, Resolve

-----------------------------------------------------------------------------
(* The winner                                                              *)

\* What only grows; and a resolution that has announced its winner, or is
\* about to, keeps its bid.
LEMMA Grows ==
    ASSUME TypeOK, Loop, Leads, [Next]_vars
    PROVE  /\ rows \subseteq rows' /\ late \subseteq late' /\ missed \subseteq missed'
           /\ \A e \in Events : bid[e] # NoBid =>
                 /\ bid'[e] # NoBid
                 /\ pc[e] \notin Unread \union {"read_id"} => bid'[e] = bid[e]
<1>1. ASSUME NEW b \in Bids, Bidder(b) PROVE late \subseteq late' /\ missed \subseteq missed'
  BY <1>1 DEF Bidder, ValidateRead, Charge, Lead, GiveUp, Return, InsertBid, MarkOutbid, history
<1>2. ASSUME NEW e \in Events, Event(e)
      PROVE  rows \subseteq rows' /\ late \subseteq late' /\ missed \subseteq missed'
  BY <1>2 DEF Event, Resolve, AuctionEnds, Receive, Lock, ReadPrice, ReadId, ReadMongo, ReadFails,
     SetPending, Update, Pay, Pays, SetWinner, PublishWon, Unlock, history
<1>3. ASSUME NEW e \in Events, ReadPrice(e) \/ ReadMongo(e) \/ ReadFails(e), NEW f \in Events,
             bid[f] # NoBid
      PROVE  bid'[f] = bid[f]
  <2>1. bid' = bid \/ At(e, "read")
    BY <1>3 DEF ReadPrice, ReadMongo, ReadFails
  <2>2. At(e, "read") => e # f
    BY <1>3 DEF Loop, Unread, At
  <2> QED
    BY <1>3, <2>1, <2>2 DEF ReadPrice, ReadMongo, ReadFails, FromMongo, TypeOK
<1>4. ASSUME NEW e \in Events, ReadId(e), NEW f \in Events, bid[f] # NoBid
      PROVE  bid'[f] # NoBid /\ (pc[f] \notin Unread \union {"read_id"} => bid'[f] = bid[f])
  BY <1>4, IdIsRead DEF ReadId, At
<1>5. ASSUME NEW e \in Events, Event(e),
             ~(ReadPrice(e) \/ ReadMongo(e) \/ ReadFails(e) \/ ReadId(e))
      PROVE  bid' = bid
  BY <1>5 DEF Event, Resolve, AuctionEnds, Receive, Lock, SetPending, Pay, SetWinner, PublishWon,
     Unlock
<1>6. CASE LockExpires \/ Crash \/ UNCHANGED vars
  BY <1>6 DEF LockExpires, Crash, vars, history
<1> QED
  BY Steppers, BidderStep, <1>1, <1>2, <1>3, <1>4, <1>5, <1>6

\* Once crowned, always crowned: who takes the status from a winner leads in
\* its place or settles the auction once more.
LEMMA CrownStays ==
    ASSUME TypeOK, Loop, Leads, [Next]_vars,
           NEW e \in Events, NEW b, bid[e] # NoBid, b = bid[e].id,
           pc[e] \in {"publish", "unlock", "done", "lost"}, Crowned(b)
    PROVE  Crowned(b)'
<1>1. b \in Bids /\ Led(b)
  BY BidFields DEF Leads
<1>2. missed \subseteq missed' /\ \A f \in Events : bid[f] # NoBid => bid'[f] # NoBid
  BY Grows
<1>3. Twice => Twice'
  BY <1>2 DEF Twice
<1>4. leader # b => leader' # b
  <2>1. ASSUME NEW c \in Bids, Bidder(c), leader' # leader PROVE leader' # b
    BY <1>1, <2>1 DEF Bidder, ValidateRead, Charge, Lead, GiveUp, Return, InsertBid, MarkOutbid,
       Escrow!Hold, Escrow!Lead, Escrow!Return, escrow, Led
  <2>2. ASSUME NEW f \in Events, Event(f) PROVE leader' = leader
    BY <2>2 DEF Event, Resolve, AuctionEnds, Receive, Lock, ReadPrice, ReadId, ReadMongo,
       ReadFails, SetPending, Pay, SetWinner, PublishWon, Unlock, escrow
  <2>3. CASE LockExpires \/ Crash \/ UNCHANGED vars
    BY <2>3 DEF LockExpires, Crash, vars, escrow
  <2> QED
    BY Steppers, <2>1, <2>2, <2>3
<1>5. status[b] = "WINNER" => status'[b] = "WINNER" \/ leader # b \/ Twice
  <2>1. ASSUME NEW c \in Bids, Bidder(c), status[b] = "WINNER", leader = b
        PROVE  status'[b] = "WINNER"
    <3>1. b \in Stored /\ b \notin inserting /\ b \notin marking
      BY <1>1, <2>1 DEF Leads, Stored
    <3> QED
      BY <1>1, <2>1, <3>1 DEF TypeOK, Bidder, ValidateRead, Charge, Lead, GiveUp, Return, InsertBid,
         MarkOutbid, Set
  <2>2. ASSUME NEW f \in Events, SetPending(f) PROVE Twice
    <3>1. f # e /\ bid[f] # NoBid
      BY <2>2 DEF SetPending, At, Loop, Bound
    <3> QED
      BY <3>1 DEF Twice
  <2>3. ASSUME NEW f \in Events, SetWinner(f), status[b] = "WINNER" PROVE status'[b] = "WINNER"
    BY <1>1, <2>3 DEF SetWinner, Update, Set, TypeOK
  <2>4. ASSUME NEW f \in Events, Event(f), ~SetPending(f), ~SetWinner(f) PROVE status' = status
    BY <2>4 DEF Event, Resolve, AuctionEnds, Receive, Lock, ReadPrice, ReadId, ReadMongo,
       ReadFails, Pay, PublishWon, Unlock, placing
  <2>5. CASE LockExpires \/ Crash \/ UNCHANGED vars
    BY <2>5 DEF LockExpires, Crash, vars, placing
  <2> QED
    BY Steppers, <2>1, <2>2, <2>3, <2>4, <2>5
<1> QED
  BY <1>2, <1>3, <1>4, <1>5 DEF Crowned

LEMMA WinnersStep ==
    ASSUME TypeOK, Loop, Leads, Receipts, Backed, Winners, [Next]_vars
    PROVE  Winners'
<1> USE Grows
<1>1. ASSUME NEW e \in Events, pc'[e] = pc[e], pc[e] \in {"won", "publish"}
      PROVE  \E x \in rows' : x.event = e /\ x.answered
  BY <1>1 DEF Winners
<1>2. ASSUME NEW e \in Events, pc'[e] = pc[e], pc[e] = "publish"
      PROVE  Crowned(bid[e].id)'
  <2>1. bid[e] # NoBid /\ bid'[e] = bid[e]
    BY <1>2 DEF Loop, Bound, Unread
  <2>2. ASSUME NEW b, b = bid[e].id PROVE Crowned(b)'
    BY <1>2, <2>1, <2>2, CrownStays DEF Winners
  <2> QED
    BY <2>1, <2>2 DEF Crowned
<1>3. ASSUME NEW b \in won,
             \A e \in Events : pc'[e] = pc[e] \/ pc[e] \notin {"unlock", "done", "lost"}
                                              \/ pc'[e] \in {"unlock", "done", "lost"}
      PROVE  /\ \E e \in Events :
                   bid'[e] # NoBid /\ bid'[e].id = b /\ pc'[e] \in {"unlock", "done", "lost"}
             /\ \E x \in rows' : x.answered /\ (x.bid = b \/ late' # {})
             /\ Crowned(b)'
  <2>1. PICK e \in Events : bid[e] # NoBid /\ bid[e].id = b /\ pc[e] \in {"unlock", "done", "lost"}
    BY DEF Winners
  <2>2. bid'[e] = bid[e] /\ pc'[e] \in {"unlock", "done", "lost"}
    BY <1>3, <2>1 DEF Unread
  <2>3. Crowned(b)'
    BY <2>1, CrownStays DEF Winners
  <2>4. \E x \in rows' : x.answered /\ (x.bid = b \/ late' # {})
    BY DEF Winners
  <2> QED
    BY <2>1, <2>2, <2>3, <2>4
<1>4. ASSUME won' = won,
             \A e \in Events : \/ pc'[e] = pc[e]
                               \/ /\ pc[e] \notin {"unlock", "done", "lost"}
                                  /\ pc'[e] \notin {"won", "publish"}
                               \/ /\ pc'[e] \in {"unlock", "done", "lost"}
      PROVE  Winners'
  BY <1>1, <1>2, <1>3, <1>4 DEF Winners
<1>5. ASSUME NEW e \in Events, SetWinner(e) PROVE Winners'
  <2>1. /\ pc[e] = "won" /\ pc'[e] = "publish" /\ \A f \in Events : f # e => pc'[f] = pc[f]
        /\ UNCHANGED <<won, rows, bid>>
    BY <1>5, Moves DEF SetWinner, At
  <2>2. bid[e].id \in Bids
    BY <2>1, BidFields DEF Loop, Bound
  <2>3. Crowned(bid[e].id)'
    BY <1>5, <2>1, <2>2 DEF SetWinner, Update, Set, Crowned, TypeOK
  <2>4. \E x \in rows' : x.event = e /\ x.answered
    BY <2>1 DEF Winners
  <2> QED
    BY <1>1, <1>2, <1>3, <2>1, <2>3, <2>4 DEF Winners
<1>6. ASSUME NEW e \in Events, PublishWon(e) PROVE Winners'
  <2>1. /\ pc[e] = "publish" /\ pc'[e] = "unlock" /\ \A f \in Events : f # e => pc'[f] = pc[f]
        /\ won' = won \union {bid[e].id} /\ UNCHANGED <<rows, bid, late>>
    BY <1>6, Moves DEF PublishWon, At, history
  <2>2. bid[e] # NoBid /\ Crowned(bid[e].id)
    BY <2>1 DEF Loop, Bound, Winners
  <2>3. ASSUME NEW b, b = bid[e].id PROVE Crowned(b)'
    BY <2>1, <2>2, <2>3, CrownStays
  <2>4. PICK x \in rows : x.event = e /\ x.answered
    BY <2>1 DEF Winners
  <2>5. x.bid = bid[e].id \/ late # {}
    BY <2>2, <2>4 DEF Receipts, Backed
  <2> QED
    BY <1>1, <1>2, <1>3, <2>1, <2>2, <2>3, <2>4, <2>5 DEF Winners
<1>7. ASSUME NEW e \in Events, Pay(e) PROVE Winners'
  <2>1. won' = won /\ pc[e] = "pay" /\ \A f \in Events : f # e => pc'[f] = pc[f]
    BY <1>7, RowOfTry DEF Pay, At
  <2>2. CASE pc'[e] \in {"unlock", "pay"}
    BY <1>4, <2>1, <2>2
  <2>3. CASE pc'[e] \notin {"unlock", "pay"}
    <3>1. PICK ok \in BOOLEAN, x \in Row :
             /\ rows' = rows \union {x} /\ x.event = e /\ x.answered = ok
             /\ pc'[e] = AfterTry(e, ok)
      BY <1>7, <2>3, RowOfTry
    <3>2. ok
      BY <2>3, <3>1 DEF AfterTry
    <3>3. x \in rows' /\ x.event = e /\ x.answered /\ pc'[e] = "won"
      BY <3>1, <3>2 DEF AfterTry
    <3> QED
      BY <1>1, <1>2, <1>3, <2>1, <3>3 DEF Winners
  <2> QED
    BY <2>2, <2>3
<1>8. ASSUME NEW e \in Events,
             \/ AuctionEnds(e) \/ Receive(e) \/ Lock(e) \/ ReadPrice(e) \/ ReadId(e) \/ ReadMongo(e)
             \/ ReadFails(e) \/ SetPending(e) \/ Unlock(e)
      PROVE  Winners'
  <2>1. won' = won
    BY <1>8 DEF AuctionEnds, Receive, Lock, ReadPrice, ReadId, ReadMongo, ReadFails, SetPending,
       Unlock
  <2>2. PICK l : Goto(e, l) /\ l \notin {"won", "publish"}
                 /\ (pc[e] \notin {"unlock", "done", "lost"} \/ l \in {"unlock", "done", "lost"})
    BY <1>8 DEF AuctionEnds, Receive, Lock, ReadPrice, ReadId, ReadMongo, ReadFails, FromMongo,
       SetPending, Unlock, At
  <2> QED
    BY <1>4, <2>1, <2>2, Moves
<1>9. CASE Crash
  BY <1>4, <1>9 DEF Crash
<1>10. CASE UNCHANGED <<pc, won>>
  BY <1>4, <1>10
<1> QED
  BY Steppers, BidderStep, <1>5, <1>6, <1>7, <1>8, <1>9, <1>10
  DEF Event, Resolve, LockExpires, vars

-----------------------------------------------------------------------------
(* The theorems                                                            *)

Inv == TypeOK /\ Loop /\ Leads /\ Receipts /\ Backed /\ Winners

LEMMA InvInit == Init => Inv
<1> SUFFICES ASSUME Init PROVE Inv
  OBVIOUS
<1>1. TypeOK
  <2>1. amount \in [Bids -> Nat]
    BY AmountAssumption DEF Init
  <2>2. /\ pc \in [Events -> Steps \union {"unsent", "sent", "lost", "done"}]
        /\ bid \in [Events -> HighestBid \union {NoBid}]
        /\ tries \in [Events -> 0 .. Attempts]
    BY DEF Init, Attempts
  <2> QED
    BY <2>1, <2>2 DEF Init, TypeOK, Statuses
<1>2. Loop /\ Leads /\ Receipts /\ Backed /\ Winners
  BY NoLeaderAssumption DEF Init, Loop, Leads, Stored, Receipts, Backed, Winners, Bound, Unread,
     Unpaid, Attempts
<1> QED
  BY <1>1, <1>2 DEF Inv

LEMMA InvHolds == Spec => []Inv
<1>1. Inv /\ [Next]_vars => Inv'
  BY TypeStep, LoopStep, LeadsStep, ReceiptsStep, BackedStep, WinnersStep DEF Inv
<1> QED
  BY InvInit, <1>1, PTL DEF Spec

\* Every variable holds a value of its type: ResolveAuction asks for no field
\* of a bid it has not read, and calls UpdateBalance no more than maxRetries
\* times for one delivery.
THEOREM TypesHold == Spec => []TypeOK
BY InvHolds, PTL DEF Inv

\* One delivery of auction.ended pays the seller once, and again only after a
\* payment whose reply was lost, and always for one bid, whatever fails and
\* however many deliveries and bids there are.
THEOREM PaymentsAreOnce == Spec => []PaidOnce
<1>1. Inv => PaidOnce
  BY DEF Inv, Receipts, PaidOnce
<1> QED
  BY InvHolds, <1>1, PTL

\* What ResolveAuction pays out is the money of the leader, which is held,
\* unless a late bid took the lead or a read had failed before.
THEOREM PaymentsAreHeld == Spec => []PaidFromEscrow
<1>1. Inv => PaidFromEscrow
  <2> SUFFICES ASSUME Inv, NEW x \in rows, late = {}, x.event \notin trouble
               PROVE  stage[x.bid] = "held"
    BY DEF PaidFromEscrow
  <2>1. x.event \in Events /\ bid[x.event] # NoBid /\ x.bid = bid[x.event].amount
    BY DEF Inv, TypeOK, Row, Receipts
  <2>2. x.bid = leader /\ leader # NoLeader
    BY <2>1 DEF Inv, Backed, Leads
  <2> QED
    BY <2>2 DEF Inv, Leads
<1> QED
  BY InvHolds, <1>1, PTL

\* A bid.won that ResolveAuction publishes is of a bid whose seller has been
\* paid, and Mongo has it as the winner, but for the reasons WonIsSettled
\* names.
THEOREM WinnersAreSettled == Spec => []WonIsSettled
<1>1. Inv => WonIsSettled
  BY DEF Inv, Winners, Crowned, Twice, WonIsSettled
<1> QED
  BY InvHolds, <1>1, PTL
=============================================================================
