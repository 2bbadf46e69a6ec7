---------------------------- MODULE BiddingProofs ---------------------------
(***************************************************************************)
(* What holds of Bidding for every set of requests, users and amounts.     *)
(*                                                                         *)
(*   Typing                   whatever fails                               *)
(*   LeaderIsHeld             whatever fails                               *)
(*   HistoryIsBehind          whatever fails                               *)
(*   LeaderOnlyRises          whatever fails                               *)
(*   PlacementsExclude        unless a lock expires under its holder       *)
(*   PriceIsCovering          unless a lock expires under its holder       *)
(*   ScriptRefusesNobody      unless a lock expires under its holder       *)
(*   PreviousBidIsWhole       unless a lock expires under its holder       *)
(*                                                                         *)
(* The invariants are layered: Stages says which call of PlaceBid leaves   *)
(* which trace behind, LeaderInv rests on it, and so does LockInv, which   *)
(* PriceInv needs: between the validation of a bid and its commit no other *)
(* placement writes the price.                                             *)
(***************************************************************************)
EXTENDS Bidding, TLAPS

-----------------------------------------------------------------------------
(* Inductive invariants                                                    *)

\* A request that has gone past publishing, or has failed.
Ended == {"unlock", "done"}
Committed == {"publish"} \union Ended

\* A request that has read the price in Redis, and not yet the bid it is of.
Reading == {"read_bidder", "read_id"}

\* What a request has left behind tells how far it has come.
Stage(r) ==
    /\ pc[r] \in Reading => top # NoBid /\ prev[r] # NoBid
    /\ pc[r] \in {"commit", "publish"} => Paid(r)
    /\ Paid(r) => pc[r] \in {"commit", "left"} \union Committed
    /\ Compensated(r) => pc[r] \in Ended
    /\ r \in marking => pc[r] \in Committed /\ prev[r] # NoBid
    /\ Acknowledged(r) => pc[r] \in Committed
    /\ r \in outbid \/ OutbidRow(r) \in ledger =>
           pc[r] \in Ended /\ prev[r] # NoBid

Stages == \A r \in Requests : Stage(r)

TypeInv == TypeOK /\ Stages

\* b has been the leader, or a higher bid has.
Behind(b) == top # NoBid /\ offer[b] <= top.amount

\* b has lost the lead for good.
Beaten(b) == top # NoBid /\ offer[b] < top.amount

LeaderPaid == top # NoBid => top = BidOf(top.id) /\ Paid(top.id)

\* r has replaced the leader, and has not been forgotten since.
HasLed(r) ==
    At(r, "publish") \/ r \in marking \/ r \in outbid \/ OutbidRow(r) \in ledger

PrevBehind(r) ==
    prev[r] # NoBid => /\ Behind(prev[r].id)
                       /\ HasLed(r) => Beaten(prev[r].id)

StoredBehind(b) ==
    /\ Acknowledged(b) => Behind(b) /\ ~Compensated(b)
    /\ mongo[b] = "OUTBID" => Beaten(b)

LeaderInv ==
    /\ LeaderPaid
    /\ \A r \in Requests : PrevBehind(r) /\ StoredBehind(r)

\* Whoever works holds the lock.
LockInv == \A r \in Requests : pc[r] \in Critical => lock = r

-----------------------------------------------------------------------------
(* Lemmas                                                                  *)

LEMMA BidsAreBids ==
    ASSUME TypeOK, NEW r \in Requests
    PROVE  /\ BidOf(r) \in Bid /\ BidOf(r) # NoBid
           /\ BidOf(r).id = r /\ BidOf(r).amount = offer[r] /\ BidOf(r).user = bidder[r]
<1>1. offer[r] \in Nat /\ bidder[r] \in Users
  BY AmountAssumption DEF TypeOK
<1>2. BidOf(r) \in Bid
  BY <1>1 DEF BidOf, Bid
<1>3. BidOf(r) # NoBid
  BY <1>2, NoBidAssumption DEF Bid
<1> QED
  BY <1>2, <1>3 DEF BidOf

\* The fallback to Mongo answers with a stored bid or with nothing.
LEMMA MongoAnswers ==
    ASSUME TypeOK, NEW seen \in MongoHighest
    PROVE  \/ seen = NoBid
           \/ \E b \in Requests : mongo[b] # "none" /\ seen = BidOf(b)
BY DEF MongoHighest

LEMMA RowsDiffer ==
    ASSUME NEW r, NEW s
    PROVE  /\ DebitRow(r) # RefundRow(s) /\ DebitRow(r) # OutbidRow(s)
           /\ RefundRow(r) # OutbidRow(s)
           /\ DebitRow(r) = DebitRow(s) => r = s
           /\ RefundRow(r) = RefundRow(s) => r = s
           /\ OutbidRow(r) = OutbidRow(s) => r = s
BY DEF DebitRow, RefundRow, OutbidRow

LEMMA ChargeTypes ==
    ASSUME TypeOK, NEW r \in Requests, Affordable(r), Charge(r)
    PROVE  balance' \in [Users -> Nat] /\ ledger' \subseteq Row
<1>1. bidder[r] \in Users /\ offer[r] \in Nat /\ balance[bidder[r]] \in Nat
  BY AmountAssumption DEF TypeOK
<1>2. balance[bidder[r]] - offer[r] \in Nat
  BY <1>1 DEF Affordable
<1> QED
  BY <1>1, <1>2 DEF TypeOK, Charge, Row, DebitRow

LEMMA CreditTypes ==
    ASSUME TypeOK, NEW u \in Users, NEW a \in Nat, NEW row \in Row, Credit(u, a, row)
    PROVE  balance' \in [Users -> Nat] /\ ledger' \subseteq Row
<1>1. balance[u] + a \in Nat
  BY DEF TypeOK
<1> QED
  BY <1>1 DEF TypeOK, Credit

-----------------------------------------------------------------------------
(* Types and stages                                                        *)

\* Every step is an action of one request or one of the environment's.
LEMMA StepCases ==
    ASSUME Next
    PROVE  \/ \E r \in Requests :
                 \/ AcquireLock(r)
                 \/ LockBusy(r)
                 \/ ValidateFind(r)
                 \/ ValidateReject(r)
                 \/ ValidateUpdate(r)
                 \/ ValidateReplyLost(r)
                 \/ ReadPrice(r)
                 \/ ReadBidder(r)
                 \/ ReadId(r)
                 \/ ReadMongo(r)
                 \/ ReadNothing(r)
                 \/ Debit(r)
                 \/ DebitRefused(r)
                 \/ DebitReplyLost(r)
                 \/ Commit(r)
                 \/ CommitRefused(r)
                 \/ CommitReplyLost(r)
                 \/ PublishEvents(r)
                 \/ Unlock(r)
                 \/ Refund(r)
                 \/ RefundFails(r)
                 \/ MarkOutbid(r)
                 \/ InsertBid(r)
                 \/ HandleOutbid(r)
                 \/ LoseOutbid(r)
                 \/ Cancel(r)
                 \/ LateDebit(r)
           \/ LockExpires \/ EndAuction \/ Crash
BY DEF Next, Proceed

LEMMA InitTypeInv == Init => TypeInv
BY PriceAssumption, BalanceAssumption, NoBidAssumption
DEF Init, TypeInv, TypeOK, Stages, Stage, At, Paid, Compensated, Acknowledged, DebitRow,
    RefundRow, OutbidRow, Auction, Critical, Row, Over, Ended, Committed, Reading

LEMMA TypeStep == TypeInv /\ [Next]_vars => TypeInv'
<1> SUFFICES ASSUME TypeInv, [Next]_vars PROVE TypeInv'
  OBVIOUS
<1> USE DEF TypeInv, TypeOK, Stages, Stage, At, Goto, Critical, Over, Ended, Committed, Reading, inputs, redis,
     wallet, async
<1> USE DEF Paid, Compensated, Acknowledged, DebitRow, RefundRow, OutbidRow
<1>1. ASSUME NEW r \in Requests, AcquireLock(r) PROVE TypeInv'
  BY <1>1 DEF AcquireLock, LockFree
<1>2. ASSUME NEW r \in Requests, LockBusy(r) PROVE TypeInv'
  BY <1>2 DEF LockBusy, LockFree
<1>3. ASSUME NEW r \in Requests, ValidateFind(r) PROVE TypeInv'
  BY <1>3 DEF ValidateFind
<1>4. ASSUME NEW r \in Requests, ValidateReject(r) PROVE TypeInv'
  BY <1>4 DEF ValidateReject
<1>5. ASSUME NEW r \in Requests, ValidateUpdate(r) PROVE TypeInv'
  <2>1. Written(r) \in Auction
    BY AmountAssumption DEF Written, Auction
  <2> QED
    BY <1>5, <2>1 DEF ValidateUpdate
<1>6. ASSUME NEW r \in Requests, ValidateReplyLost(r) PROVE TypeInv'
  <2>1. Written(r) \in Auction
    BY AmountAssumption DEF Written, Auction
  <2> QED
    BY <1>6, <2>1 DEF ValidateReplyLost
<1>7. ASSUME NEW r \in Requests, ReadPrice(r) PROVE TypeInv'
  BY <1>7 DEF ReadPrice
<1>8. ASSUME NEW r \in Requests, ReadBidder(r) PROVE TypeInv'
  <2>1. prev[r] \in Bid /\ top \in Bid
    BY <1>8 DEF ReadBidder
  <2>2. [prev[r] EXCEPT !.user = top.user] \in Bid /\ NoBid \notin Bid
    BY <2>1, NoBidAssumption DEF Bid
  <2> QED
    BY <1>8, <2>2 DEF ReadBidder
<1>8a. ASSUME NEW r \in Requests, ReadId(r) PROVE TypeInv'
  <2>1. prev[r] \in Bid /\ top \in Bid
    BY <1>8a DEF ReadId
  <2>2. [prev[r] EXCEPT !.id = top.id] \in Bid /\ NoBid \notin Bid
    BY <2>1, NoBidAssumption DEF Bid
  <2> QED
    BY <1>8a, <2>2 DEF ReadId, Seen
<1>9. ASSUME NEW r \in Requests, ReadMongo(r) PROVE TypeInv'
  <2>1. PICK seen \in MongoHighest : Seen(r, seen)
    BY <1>9 DEF ReadMongo
  <2>2. seen \in Bid \union {NoBid}
    BY <2>1, MongoAnswers, BidsAreBids
  <2> QED
    BY <1>9, <2>1, <2>2 DEF ReadMongo, Seen
<1>10. ASSUME NEW r \in Requests, ReadNothing(r) PROVE TypeInv'
  BY <1>10 DEF ReadNothing, Seen
<1>11. ASSUME NEW r \in Requests, Debit(r) PROVE TypeInv'
  <2>1. TypeOK'
    BY <1>11, ChargeTypes DEF Debit
  <2>2. ASSUME NEW q \in Requests PROVE Stage(q)'
    BY <1>11, RowsDiffer DEF Debit, Charge
  <2> QED
    BY <2>1, <2>2
<1>12. ASSUME NEW r \in Requests, DebitRefused(r) PROVE TypeInv'
  BY <1>12 DEF DebitRefused
<1>13. ASSUME NEW r \in Requests, DebitReplyLost(r) PROVE TypeInv'
  <2>1. TypeOK'
    BY <1>13, ChargeTypes DEF DebitReplyLost
  <2>2. ASSUME NEW q \in Requests PROVE Stage(q)'
    BY <1>13, RowsDiffer DEF DebitReplyLost, Charge
  <2> QED
    BY <2>1, <2>2
<1>14. ASSUME NEW r \in Requests, Commit(r) PROVE TypeInv'
  <2> QED
    BY <1>14, BidsAreBids DEF Commit
<1>15. ASSUME NEW r \in Requests, CommitRefused(r) PROVE TypeInv'
  BY <1>15 DEF CommitRefused
<1>16. ASSUME NEW r \in Requests, CommitReplyLost(r) PROVE TypeInv'
  <2> QED
    BY <1>16, BidsAreBids DEF CommitReplyLost
<1>17. ASSUME NEW r \in Requests, PublishEvents(r) PROVE TypeInv'
  BY <1>17 DEF PublishEvents
<1>18. ASSUME NEW r \in Requests, Unlock(r) PROVE TypeInv'
  BY <1>18 DEF Unlock
<1>19. ASSUME NEW r \in Requests, Refund(r) PROVE TypeInv'
  <2>1. bidder[r] \in Users /\ offer[r] \in Nat
    BY <1>19, AmountAssumption DEF Refund
  <2>2. TypeOK'
    BY <1>19, <2>1, CreditTypes DEF Refund, Row
  <2>3. ASSUME NEW q \in Requests PROVE Stage(q)'
    BY <1>19, RowsDiffer DEF Refund, Credit
  <2> QED
    BY <2>2, <2>3
<1>20. ASSUME NEW r \in Requests, RefundFails(r) PROVE TypeInv'
  BY <1>20 DEF RefundFails
<1>21. ASSUME NEW r \in Requests, MarkOutbid(r) PROVE TypeInv'
  BY <1>21 DEF MarkOutbid
<1>22. ASSUME NEW r \in Requests, InsertBid(r) PROVE TypeInv'
  BY <1>22 DEF InsertBid
<1>23. ASSUME NEW r \in Requests, HandleOutbid(r) PROVE TypeInv'
  <2>1. prev[r].user \in Users /\ prev[r].amount \in Nat
    BY <1>23 DEF HandleOutbid, Bid
  <2>2. TypeOK'
    BY <1>23, <2>1, CreditTypes DEF HandleOutbid, Row
  <2>3. ASSUME NEW q \in Requests PROVE Stage(q)'
    BY <1>23, RowsDiffer DEF HandleOutbid, Credit
  <2> QED
    BY <2>2, <2>3
<1>24. ASSUME NEW r \in Requests, LoseOutbid(r) PROVE TypeInv'
  BY <1>24 DEF LoseOutbid
<1>25. ASSUME NEW r \in Requests, Cancel(r) PROVE TypeInv'
  BY <1>25 DEF Cancel, CutOff
<1>25a. ASSUME NEW r \in Requests, LateDebit(r) PROVE TypeInv'
  <2>1. TypeOK'
    BY <1>25a, ChargeTypes DEF LateDebit
  <2>2. ASSUME NEW q \in Requests PROVE Stage(q)'
    BY <1>25a, RowsDiffer DEF LateDebit, Charge
  <2> QED
    BY <2>1, <2>2
<1>26. CASE LockExpires
  BY <1>26 DEF LockExpires, LockFree
<1>27. CASE EndAuction
  <2>1. [auction EXCEPT !.status = "ENDED"] \in Auction
    BY DEF Auction
  <2> QED
    BY <1>27, <2>1 DEF EndAuction
<1>28. CASE Crash
  BY <1>28 DEF Crash, CutOff
<1>29. CASE UNCHANGED vars
  BY <1>29 DEF vars
<1> QED
  BY StepCases, <1>1, <1>2, <1>3, <1>4, <1>5, <1>6, <1>7, <1>8, <1>8a, <1>9, <1>10, <1>11, <1>12,
     <1>13, <1>14, <1>15, <1>16, <1>17, <1>18, <1>19, <1>20, <1>21, <1>22, <1>23, <1>24, <1>25,
     <1>25a, <1>26, <1>27, <1>28, <1>29

THEOREM Typing == Spec => []TypeInv
<1> QED
  BY InitTypeInv, TypeStep, PTL DEF Spec

-----------------------------------------------------------------------------
(* The leader                                                              *)

LEMMA InitLeaderInv == Init => LeaderInv
BY NoBidAssumption
DEF Init, LeaderInv, LeaderPaid, PrevBehind, StoredBehind, Acknowledged

\* A bid that is behind the leader is beaten by a bid that beats the leader.
LEMMA BeatenByBeats ==
    ASSUME TypeOK, TypeOK', NEW r \in Requests, NEW b \in Requests,
           Beats(r), top' = BidOf(r), offer' = offer, Behind(b)
    PROVE  Behind(b)' /\ Beaten(b)'
<1>1. offer[r] \in Nat /\ offer[b] \in Nat
  BY AmountAssumption DEF TypeOK
<1>2. top.amount \in Nat /\ offer[b] <= top.amount /\ top.amount < offer[r]
  BY DEF Behind, Beats, TypeOK, Bid
<1>3. top' # NoBid /\ top'.amount = offer[r] /\ offer'[b] = offer[b]
  BY BidsAreBids
<1> QED
  BY <1>1, <1>2, <1>3 DEF Behind, Beaten

\* What a placement can have read is a bid, behind the leader.
LEMMA PrevIsBid ==
    ASSUME TypeOK, NEW r \in Requests, prev[r] # NoBid
    PROVE  prev[r].id \in Requests /\ prev[r].user \in Users /\ prev[r].amount \in Nat
BY DEF TypeOK, Bid

LEMMA LeaderIsBehind ==
    ASSUME TypeOK, LeaderPaid, top # NoBid
    PROVE  top.id \in Requests /\ Behind(top.id)
<1>1. top.id \in Requests /\ top = BidOf(top.id)
  BY DEF TypeOK, Bid, LeaderPaid
<1>2. offer[top.id] = top.amount /\ top.amount \in Nat
  BY <1>1, BidsAreBids DEF TypeOK, Bid
<1> QED
  BY <1>1, <1>2 DEF Behind

LEMMA LeaderStep == TypeInv /\ TypeInv' /\ LeaderInv /\ [Next]_vars => LeaderInv'
<1> SUFFICES ASSUME TypeInv, TypeInv', LeaderInv, [Next]_vars PROVE LeaderInv'
  OBVIOUS
<1> USE DEF TypeInv, TypeOK, Stages, Stage, Critical, Over, Ended, Committed, Reading, At, Goto
<1> USE DEF LeaderInv, LeaderPaid, HasLed, PrevBehind, StoredBehind, Behind, Beaten
<1> USE DEF Paid, Compensated, Acknowledged, inputs, redis, wallet, async
<1>1. ASSUME NEW r \in Requests, AcquireLock(r) PROVE LeaderInv'
  BY <1>1, AmountAssumption, RowsDiffer DEF BidOf, AcquireLock
<1>2. ASSUME NEW r \in Requests, LockBusy(r) PROVE LeaderInv'
  BY <1>2, AmountAssumption, RowsDiffer DEF BidOf, LockBusy
<1>3. ASSUME NEW r \in Requests, ValidateFind(r) PROVE LeaderInv'
  BY <1>3, AmountAssumption, RowsDiffer DEF BidOf, ValidateFind
<1>4. ASSUME NEW r \in Requests, ValidateReject(r) PROVE LeaderInv'
  BY <1>4, AmountAssumption, RowsDiffer DEF BidOf, ValidateReject
<1>5. ASSUME NEW r \in Requests, ValidateUpdate(r) PROVE LeaderInv'
  BY <1>5, AmountAssumption, RowsDiffer DEF BidOf, ValidateUpdate
<1>6. ASSUME NEW r \in Requests, ValidateReplyLost(r) PROVE LeaderInv'
  BY <1>6, AmountAssumption, RowsDiffer DEF BidOf, ValidateReplyLost
<1>7. ASSUME NEW r \in Requests, ReadPrice(r) PROVE LeaderInv'
  <2>1. LeaderPaid' /\ \A b \in Requests : StoredBehind(b)'
    BY <1>7 DEF ReadPrice, BidOf
  <2>2. ASSUME NEW q \in Requests PROVE PrevBehind(q)'
    <3>1. top.id \in Requests /\ Behind(top.id)
      BY <1>7, LeaderIsBehind DEF ReadPrice
    <3>2. ~HasLed(r)
      BY <1>7 DEF ReadPrice
    <3> QED
      BY <1>7, <3>1, <3>2 DEF ReadPrice
  <2> QED
    BY <2>1, <2>2
<1>8. ASSUME NEW r \in Requests, ReadBidder(r) PROVE LeaderInv'
  <2>1. LeaderPaid' /\ \A b \in Requests : StoredBehind(b)'
    BY <1>8 DEF ReadBidder, BidOf
  <2>2. ASSUME NEW q \in Requests PROVE PrevBehind(q)'
    <3>1. ~HasLed(r)
      BY <1>8 DEF ReadBidder
    <3>2. prev[r] \in Bid /\ [prev[r] EXCEPT !.user = top.user].id = prev[r].id
      BY <1>8 DEF ReadBidder, Bid
    <3> QED
      BY <1>8, <3>1, <3>2 DEF ReadBidder
  <2> QED
    BY <2>1, <2>2
<1>8a. ASSUME NEW r \in Requests, ReadId(r) PROVE LeaderInv'
  <2>1. LeaderPaid' /\ \A b \in Requests : StoredBehind(b)'
    BY <1>8a DEF ReadId, Seen, BidOf
  <2>2. ASSUME NEW q \in Requests PROVE PrevBehind(q)'
    <3>1. top.id \in Requests /\ Behind(top.id)
      BY <1>8a, LeaderIsBehind DEF ReadId
    <3>2. ~HasLed(r)
      BY <1>8a DEF ReadId
    <3>3. [prev[r] EXCEPT !.id = top.id].id = top.id
      BY <1>8a DEF ReadId, Bid
    <3> QED
      BY <1>8a, <3>1, <3>2, <3>3 DEF ReadId, Seen
  <2> QED
    BY <2>1, <2>2
<1>9. ASSUME NEW r \in Requests, ReadMongo(r) PROVE LeaderInv'
  <2>1. PICK seen \in MongoHighest : Seen(r, seen)
    BY <1>9 DEF ReadMongo
  <2>2. LeaderPaid' /\ \A b \in Requests : StoredBehind(b)'
    BY <1>9, <2>1 DEF ReadMongo, Seen, BidOf
  <2>3. ASSUME NEW q \in Requests PROVE PrevBehind(q)'
    <3>1. seen # NoBid => seen.id \in Requests /\ Behind(seen.id)
      BY <2>1, MongoAnswers, BidsAreBids
    <3>2. ~HasLed(r)
      BY <1>9 DEF ReadMongo
    <3> QED
      BY <1>9, <2>1, <3>1, <3>2 DEF ReadMongo, Seen
  <2> QED
    BY <2>2, <2>3
<1>10. ASSUME NEW r \in Requests, ReadNothing(r) PROVE LeaderInv'
  BY <1>10, AmountAssumption, RowsDiffer DEF BidOf, ReadNothing, Seen
<1>11. ASSUME NEW r \in Requests, Debit(r) PROVE LeaderInv'
  BY <1>11, AmountAssumption, RowsDiffer DEF BidOf, Debit, Charge
<1>12. ASSUME NEW r \in Requests, DebitRefused(r) PROVE LeaderInv'
  BY <1>12, AmountAssumption, RowsDiffer DEF BidOf, DebitRefused
<1>13. ASSUME NEW r \in Requests, DebitReplyLost(r) PROVE LeaderInv'
  BY <1>13, AmountAssumption, RowsDiffer DEF BidOf, DebitReplyLost, Charge
<1>14. ASSUME NEW r \in Requests, Commit(r) PROVE LeaderInv'
  <2> USE DEF Commit
  <2>1. LeaderPaid'
    BY <1>14, BidsAreBids DEF BidOf
  <2>2. \A b \in Requests : Behind(b) => Behind(b)' /\ Beaten(b)'
    BY <1>14, BeatenByBeats
  <2>3. Behind(r)'
    BY <1>14, BidsAreBids, AmountAssumption
  <2>4. ASSUME NEW q \in Requests PROVE PrevBehind(q)'
    BY <1>14, <2>2, PrevIsBid
  <2>5. ASSUME NEW b \in Requests PROVE StoredBehind(b)'
    <3>1. CASE b = r
      <4>1. mongo[r] # "OUTBID" /\ ~Compensated(r)
        BY <1>14
      <4> QED
        BY <1>14, <2>3, <3>1, <4>1
    <3>2. CASE b # r
      BY <1>14, <2>2, <3>2
    <3> QED
      BY <3>1, <3>2
  <2> QED
    BY <2>1, <2>4, <2>5
<1>15. ASSUME NEW r \in Requests, CommitRefused(r) PROVE LeaderInv'
  BY <1>15, AmountAssumption, RowsDiffer DEF BidOf, CommitRefused
<1>16. ASSUME NEW r \in Requests, CommitReplyLost(r) PROVE LeaderInv'
  <2> USE DEF CommitReplyLost
  <2>1. CASE top' = top
    <3>1. LeaderPaid'
      BY <1>16, <2>1 DEF BidOf
    <3>2. \A q \in Requests : PrevBehind(q)'
      BY <1>16, <2>1
    <3>3. ASSUME NEW b \in Requests PROVE StoredBehind(b)'
      BY <1>16, <2>1
    <3> QED
      BY <3>1, <3>2, <3>3
  <2>2. CASE top' = BidOf(r)
    <3>1. LeaderPaid'
      BY <1>16, <2>2, BidsAreBids DEF BidOf
    <3>2. \A b \in Requests : Behind(b) => Behind(b)' /\ Beaten(b)'
      BY <1>16, <2>2, BeatenByBeats
    <3>3. ASSUME NEW q \in Requests PROVE PrevBehind(q)'
      BY <1>16, <3>2, PrevIsBid
    <3>4. ASSUME NEW b \in Requests PROVE StoredBehind(b)'
      BY <1>16, <3>2
    <3> QED
      BY <3>1, <3>3, <3>4
  <2> QED
    BY <1>16, <2>1, <2>2
<1>17. ASSUME NEW r \in Requests, PublishEvents(r) PROVE LeaderInv'
  <2> USE DEF PublishEvents
  <2>1. LeaderPaid'
    BY <1>17 DEF BidOf
  <2>2. ASSUME NEW q \in Requests PROVE PrevBehind(q)'
    BY <1>17
  <2>3. ASSUME NEW b \in Requests PROVE StoredBehind(b)'
    BY <1>17
  <2> QED
    BY <2>1, <2>2, <2>3
<1>18. ASSUME NEW r \in Requests, Unlock(r) PROVE LeaderInv'
  BY <1>18, AmountAssumption, RowsDiffer DEF BidOf, Unlock
<1>19. ASSUME NEW r \in Requests, Refund(r) PROVE LeaderInv'
  BY <1>19, AmountAssumption, RowsDiffer DEF BidOf, Refund, Credit
<1>20. ASSUME NEW r \in Requests, RefundFails(r) PROVE LeaderInv'
  BY <1>20, AmountAssumption, RowsDiffer DEF BidOf, RefundFails
<1>21. ASSUME NEW r \in Requests, MarkOutbid(r) PROVE LeaderInv'
  <2> USE DEF MarkOutbid
  <2>1. prev[r].id \in Requests /\ Beaten(prev[r].id)
    BY <1>21, PrevIsBid
  <2>2. LeaderPaid'
    BY <1>21 DEF BidOf
  <2>3. ASSUME NEW q \in Requests PROVE PrevBehind(q)'
    BY <1>21
  <2>4. ASSUME NEW b \in Requests PROVE StoredBehind(b)'
    <3>1. mongo'[b] # "none" => mongo[b] # "none"
      BY <1>21
    <3>2. mongo'[b] = "OUTBID" => Beaten(b)
      BY <1>21, <2>1
    <3> QED
      BY <1>21, <3>1, <3>2
  <2> QED
    BY <2>2, <2>3, <2>4
<1>22. ASSUME NEW r \in Requests, InsertBid(r) PROVE LeaderInv'
  BY <1>22, AmountAssumption, RowsDiffer DEF BidOf, InsertBid
<1>23. ASSUME NEW r \in Requests, HandleOutbid(r) PROVE LeaderInv'
  BY <1>23, AmountAssumption, RowsDiffer DEF BidOf, HandleOutbid, Credit
<1>24. ASSUME NEW r \in Requests, LoseOutbid(r) PROVE LeaderInv'
  BY <1>24, AmountAssumption, RowsDiffer DEF BidOf, LoseOutbid
<1>25. ASSUME NEW r \in Requests, Cancel(r) PROVE LeaderInv'
  BY <1>25, AmountAssumption, RowsDiffer DEF BidOf, Cancel, CutOff
<1>25a. ASSUME NEW r \in Requests, LateDebit(r) PROVE LeaderInv'
  BY <1>25a, AmountAssumption, RowsDiffer DEF BidOf, LateDebit, Charge
<1>26. CASE LockExpires
  BY <1>26, AmountAssumption DEF BidOf, LockExpires
<1>27. CASE EndAuction
  BY <1>27, AmountAssumption DEF BidOf, EndAuction
<1>28. CASE Crash
  <2> USE DEF Crash, CutOff
  <2>1. LeaderPaid'
    BY <1>28 DEF BidOf
  <2>2. ASSUME NEW q \in Requests PROVE PrevBehind(q)'
    BY <1>28
  <2>3. ASSUME NEW b \in Requests PROVE StoredBehind(b)'
    BY <1>28
  <2> QED
    BY <2>1, <2>2, <2>3
<1>29. CASE UNCHANGED vars
  BY <1>29, AmountAssumption DEF BidOf, vars
<1> QED
  BY StepCases, <1>1, <1>2, <1>3, <1>4, <1>5, <1>6, <1>7, <1>8, <1>8a, <1>9, <1>10, <1>11, <1>12,
     <1>13, <1>14, <1>15, <1>16, <1>17, <1>18, <1>19, <1>20, <1>21, <1>22, <1>23, <1>24, <1>25,
     <1>25a, <1>26, <1>27, <1>28, <1>29

THEOREM LeaderInvariant == Spec => []LeaderInv
<1>1. TypeInv /\ LeaderInv /\ [Next]_vars => (TypeInv /\ LeaderInv)'
  BY TypeStep, LeaderStep
<1>2. Init => TypeInv /\ LeaderInv
  BY InitTypeInv, InitLeaderInv
<1> QED
  BY <1>1, <1>2, PTL DEF Spec

\* Every variable of the pipeline keeps its type; in particular no wallet of
\* the user service goes below zero, whatever fails.
THEOREM TypesHold == Spec => []TypeOK
<1>1. TypeInv => TypeOK
  BY DEF TypeInv
<1> QED
  BY <1>1, Typing, PTL

LEMMA HeldFollows == TypeInv /\ LeaderInv => LeaderHeld
<1> SUFFICES ASSUME TypeInv, LeaderInv, NEW b \in Requests, Leads(b)
             PROVE  /\ Paid(b)
                    /\ \A r \in Requests : ~Displaces(r, b)
                    /\ Acknowledged(b) => ~Compensated(b)
  BY DEF LeaderHeld
<1>1. top = BidOf(b) /\ top # NoBid /\ Paid(b)
  BY DEF LeaderInv, LeaderPaid, Leads
<1>2. top.amount = offer[b] /\ offer[b] \in Nat
  BY <1>1, BidsAreBids, AmountAssumption DEF TypeInv, TypeOK
<1>3. ASSUME NEW r \in Requests, Displaces(r, b) PROVE FALSE
  <2>1. Beaten(b)
    BY <1>3 DEF LeaderInv, PrevBehind, Displaces, HasLed
  <2> QED
    BY <2>1, <1>2 DEF Beaten
<1> QED
  BY <1>1, <1>3 DEF LeaderInv, StoredBehind

\* The leader has paid, nobody refunds it but its own request when Redis
\* lost the reply of the script, and that one only if it was not
\* acknowledged; whatever fails, and with no help from the lock.
THEOREM LeaderIsHeld == Spec => []LeaderHeld
BY HeldFollows, Typing, LeaderInvariant, PTL

\* A bid stored in Mongo was committed in Redis: it is no higher than the
\* leader, and the leader itself is never marked OUTBID; whatever fails.
THEOREM HistoryIsBehind == Spec => []HistoryFollowsRedis
<1>1. TypeInv /\ LeaderInv => HistoryFollowsRedis
  <2> SUFFICES ASSUME TypeInv, LeaderInv, NEW b \in Requests, mongo[b] # "none"
               PROVE  /\ top # NoBid /\ offer[b] <= top.amount
                      /\ Leads(b) => mongo[b] = "ACCEPTED"
    BY DEF HistoryFollowsRedis
  <2>1. Behind(b)
    BY DEF LeaderInv, StoredBehind, Acknowledged
  <2>2. ASSUME Leads(b), mongo[b] = "OUTBID" PROVE FALSE
    <3>1. Beaten(b)
      BY <2>2 DEF LeaderInv, StoredBehind
    <3>2. top = BidOf(b) /\ offer[b] \in Nat
      BY <2>2, AmountAssumption DEF LeaderInv, LeaderPaid, Leads, TypeInv, TypeOK
    <3> QED
      BY <3>1, <3>2, BidsAreBids DEF Beaten, TypeInv
  <2> QED
    BY <2>1, <2>2 DEF Behind, TypeInv, TypeOK
<1> QED
  BY <1>1, Typing, LeaderInvariant, PTL

\* Only the Lua script writes the leader, and only to a higher offer: the
\* compare in the script, not the lock, keeps the auction rising.
THEOREM LeaderOnlyRises == Spec => LeaderRises
<1>1. TypeInv /\ TypeInv' /\ [Next]_vars
        => [top # NoBid => top' # NoBid /\ top'.amount > top.amount]_top
  <2> SUFFICES ASSUME TypeInv, TypeInv', [Next]_vars, top' # top, top # NoBid
               PROVE  top' # NoBid /\ top'.amount > top.amount
    OBVIOUS
  <2>1. PICK r \in Requests : Beats(r) /\ top' = BidOf(r)
    <3>1. ASSUME NEW q \in Requests,
                 \/ AcquireLock(q) \/ LockBusy(q) \/ ValidateFind(q) \/ ValidateReject(q)
                 \/ ValidateUpdate(q) \/ ValidateReplyLost(q) \/ ReadPrice(q)
                 \/ ReadBidder(q) \/ ReadId(q) \/ ReadMongo(q) \/ ReadNothing(q)
          PROVE  UNCHANGED top
      BY <3>1 DEF redis, AcquireLock, LockBusy, ValidateFind, ValidateReject,
         ValidateUpdate, ValidateReplyLost, ReadPrice, ReadBidder, ReadId, ReadMongo,
         ReadNothing
    <3>2. ASSUME NEW q \in Requests,
                 \/ Debit(q) \/ DebitRefused(q) \/ DebitReplyLost(q) \/ CommitRefused(q)
                 \/ PublishEvents(q) \/ Unlock(q) \/ Refund(q) \/ RefundFails(q)
                 \/ MarkOutbid(q) \/ InsertBid(q) \/ HandleOutbid(q) \/ LoseOutbid(q)
                 \/ Cancel(q) \/ LateDebit(q)
          PROVE  UNCHANGED top
      BY <3>2 DEF redis, Debit, DebitRefused, DebitReplyLost, CommitRefused,
         PublishEvents, Unlock, Refund, RefundFails, MarkOutbid, InsertBid, HandleOutbid,
         LoseOutbid, Cancel, LateDebit
    <3>3. ASSUME LockExpires \/ EndAuction \/ Crash \/ UNCHANGED vars
          PROVE  UNCHANGED top
      BY <3>3 DEF redis, LockExpires, EndAuction, Crash, vars
    <3>4. ASSUME NEW q \in Requests, Commit(q) \/ CommitReplyLost(q), top' # top
          PROVE  Beats(q) /\ top' = BidOf(q)
      BY <3>4 DEF Commit, CommitReplyLost
    <3> QED
      BY StepCases, <3>1, <3>2, <3>3, <3>4
  <2>2. top' # NoBid /\ top'.amount = offer[r] /\ offer[r] \in Nat
    BY <2>1, BidsAreBids, AmountAssumption DEF TypeInv, TypeOK
  <2> QED
    BY <2>1, <2>2 DEF Beats, TypeInv, TypeOK, Bid
<1> QED
  BY <1>1, Typing, PTL DEF Spec, LeaderRises

-----------------------------------------------------------------------------
(* The lock                                                                *)

\* Nobody but the holder of the lock works, unless the TTL has run out.
LEMMA LockStep ==
    ASSUME "expiry" \notin Faults
    PROVE  TypeInv /\ LockInv /\ [Next]_vars => LockInv'
<1> SUFFICES ASSUME TypeInv, LockInv, [Next]_vars, NEW q \in Requests, pc'[q] \in Critical
             PROVE  lock' = q
  BY DEF LockInv
<1> USE DEF TypeInv, TypeOK, LockInv, Goto, At, Critical, Over, redis
<1>1. ASSUME NEW r \in Requests, AcquireLock(r) PROVE lock' = q
  BY <1>1, NoLockAssumption DEF AcquireLock, LockFree
<1>2. ASSUME NEW r \in Requests, Unlock(r) PROVE lock' = q
  BY <1>2 DEF Unlock
<1>3. CASE LockExpires
  <2>1. lock \in Requests /\ pc[lock] \in Over /\ pc'[q] = pc[q]
    BY <1>3 DEF LockExpires, LockFree
  <2> QED
    BY <2>1
<1>4. ASSUME NEW r \in Requests,
             \/ ReadBidder(r) \/ ReadId(r) \/ ReadMongo(r) \/ ReadNothing(r)
             \/ ReadPrice(r) \/ ValidateFind(r) \/ ValidateReject(r)
             \/ ValidateUpdate(r) \/ ValidateReplyLost(r) \/ LockBusy(r)
             \/ Debit(r) \/ DebitRefused(r) \/ DebitReplyLost(r) \/ Commit(r)
             \/ CommitRefused(r) \/ CommitReplyLost(r) \/ PublishEvents(r) \/ Cancel(r),
             UNCHANGED lock
      PROVE  lock' = q
  BY <1>4 DEF Seen, CutOff, ReadBidder, ReadId, ReadMongo, ReadNothing, ReadPrice, ValidateFind,
     ValidateReject, ValidateUpdate, ValidateReplyLost, LockBusy, Debit, DebitRefused,
     DebitReplyLost, Commit, CommitRefused, CommitReplyLost, PublishEvents, Cancel
<1>5. ASSUME NEW r \in Requests,
             \/ Refund(r) \/ RefundFails(r) \/ MarkOutbid(r) \/ InsertBid(r)
             \/ HandleOutbid(r) \/ LoseOutbid(r) \/ LateDebit(r)
      PROVE  lock' = q
  BY <1>5 DEF Refund, RefundFails, MarkOutbid, InsertBid, HandleOutbid, LoseOutbid,
     LateDebit
<1>6. CASE EndAuction \/ Crash \/ UNCHANGED vars
  BY <1>6 DEF EndAuction, Crash, CutOff, vars
<1>7. ASSUME NEW r \in Requests,
             \/ ReadBidder(r) \/ ReadId(r) \/ ReadMongo(r) \/ ReadNothing(r)
             \/ ReadPrice(r) \/ ValidateFind(r) \/ ValidateReject(r)
             \/ ValidateUpdate(r) \/ ValidateReplyLost(r) \/ LockBusy(r)
             \/ Debit(r) \/ DebitRefused(r) \/ DebitReplyLost(r) \/ Commit(r)
             \/ CommitRefused(r) \/ CommitReplyLost(r) \/ PublishEvents(r) \/ Cancel(r)
      PROVE  UNCHANGED lock
  BY <1>7 DEF ReadBidder, ReadId, ReadMongo, ReadNothing, ReadPrice, ValidateFind,
     ValidateReject, ValidateUpdate, ValidateReplyLost, LockBusy, Debit, DebitRefused,
     DebitReplyLost, Commit, CommitRefused, CommitReplyLost, PublishEvents, Cancel
<1> QED
  BY StepCases, <1>1, <1>2, <1>3, <1>4, <1>5, <1>6, <1>7

\* Two placements never overlap as long as no lock expires under its
\* holder: a lost reply, a cancelled caller or a crash does not free it.
THEOREM PlacementsExclude ==
    ASSUME "expiry" \notin Faults
    PROVE  Spec => []MutualExclusion
<1>1. Init => LockInv
  BY DEF Init, LockInv, Critical
<1>2. TypeInv /\ LockInv /\ [Next]_vars => LockInv'
  BY LockStep
<1>3. LockInv => MutualExclusion
  BY DEF LockInv, MutualExclusion
<1> QED
  BY <1>1, <1>2, <1>3, Typing, PTL DEF Spec

\* Placements that have written the price and not yet committed.
Priced == {"read", "read_bidder", "read_id", "debit", "commit"}

\* Between the read and the write of the document nobody else writes a price,
\* and after it nobody does until the bid is committed; meanwhile nobody else
\* takes the lead.
PriceInv ==
    /\ PriceCoversLeader
    /\ \A r \in Requests :
          /\ At(r, "update") => doc[r].price = auction.price /\ offer[r] > doc[r].price
          /\ pc[r] \in Priced => auction.price >= offer[r]
          /\ pc[r] \in Priced \union {"update"} => Beats(r)

\* A step that leaves prices alone, and in which no placement gets to write or
\* to have written one.
KeepsPrices ==
    /\ UNCHANGED <<auction, doc, top, offer>>
    /\ \A q \in Requests :
          /\ pc'[q] = "update" => pc[q] = "update"
          /\ pc'[q] \in Priced => pc[q] \in Priced

LEMMA PricesKept ==
    ASSUME PriceInv, KeepsPrices
    PROVE  PriceInv'
BY DEF PriceInv, PriceCoversLeader, KeepsPrices, At, Beats

LEMMA PriceStep == TypeInv /\ TypeInv' /\ LockInv /\ PriceInv /\ [Next]_vars => PriceInv'
<1> SUFFICES ASSUME TypeInv, TypeInv', LockInv, PriceInv, [Next]_vars PROVE PriceInv'
  OBVIOUS
<1> USE DEF At, Goto, inputs, redis
<1>1. /\ pc \in [Requests -> Critical \union Over \union {"idle"}]
      /\ auction.price \in Nat /\ (top # NoBid => top.amount \in Nat)
      /\ \A q \in Requests : offer[q] \in Nat /\ doc[q] \in Auction /\ doc[q].price \in Nat
  BY AmountAssumption DEF TypeInv, TypeOK, Auction, Bid
<1>2. ASSUME NEW r \in Requests, pc[r] \in Critical, NEW q \in Requests, q # r
      PROVE  pc[q] \notin Critical
  BY <1>2 DEF LockInv
<1>3. ASSUME NEW r \in Requests, ValidateFind(r) PROVE PriceInv'
  <2>1. /\ doc'[r] = auction /\ offer[r] > auction.price /\ pc'[r] = "update"
        /\ UNCHANGED <<auction, top, offer>>
        /\ \A q \in Requests : q # r => pc'[q] = pc[q] /\ doc'[q] = doc[q]
    BY <1>3, <1>1 DEF ValidateFind, Admissible, TypeInv, TypeOK
  <2>2. Beats(r)'
    BY <1>1, <2>1 DEF PriceInv, PriceCoversLeader, Beats, TypeInv, TypeOK, Auction
  <2> QED
    BY <2>1, <2>2 DEF PriceInv, PriceCoversLeader, Priced, Beats
<1>4. ASSUME NEW r \in Requests, ValidateUpdate(r) \/ ValidateReplyLost(r) PROVE PriceInv'
  <2>1. /\ pc[r] = "update" /\ pc'[r] \in {"read", "unlock"}
        /\ \/ auction' = auction /\ pc'[r] = "unlock"
           \/ auction' = Written(r)
        /\ UNCHANGED <<doc, top, offer>> /\ \A q \in Requests : q # r => pc'[q] = pc[q]
    BY <1>4, <1>1 DEF ValidateUpdate, ValidateReplyLost
  <2>2. Written(r).price = offer[r]
    BY <1>1 DEF Written, Auction
  <2>3. \A q \in Requests : q # r => pc'[q] \notin Priced \union {"update"}
    BY <1>2, <2>1 DEF Critical, Priced
  <2>4. offer[r] > auction.price
    BY <2>1 DEF PriceInv
  <2>5. auction'.price >= auction.price /\ (pc'[r] \in Priced => auction'.price >= offer[r])
    BY <1>1, <2>1, <2>2, <2>4 DEF Priced
  <2>6. auction'.price \in Nat
    BY <1>1, <2>1, <2>2
  <2> QED
    BY <1>1, <2>1, <2>3, <2>5, <2>6 DEF PriceInv, PriceCoversLeader, Priced, Beats
<1>5. ASSUME NEW r \in Requests, Commit(r) \/ CommitReplyLost(r) PROVE PriceInv'
  <2>1. /\ pc[r] = "commit" /\ pc'[r] \in {"publish", "unlock"} /\ UNCHANGED <<doc, auction, offer>>
        /\ \A q \in Requests : q # r => pc'[q] = pc[q]
        /\ top' = top \/ top' = BidOf(r)
    BY <1>5, <1>1 DEF Commit, CommitReplyLost
  <2>2. auction.price >= offer[r] /\ BidOf(r).amount = offer[r]
    BY <2>1, BidsAreBids DEF PriceInv, Priced, TypeInv
  <2>3. \A q \in Requests : pc'[q] \notin Priced \union {"update"}
    BY <1>2, <2>1 DEF Critical, Priced
  <2> QED
    BY <1>1, <2>1, <2>2, <2>3 DEF PriceInv, PriceCoversLeader, Priced
<1>6. CASE EndAuction
  <2>1. auction'.price = auction.price /\ UNCHANGED <<pc, doc, top, offer>>
    BY <1>6 DEF EndAuction, TypeInv, TypeOK, Auction
  <2> QED
    BY <2>1 DEF PriceInv, PriceCoversLeader, Beats
<1>7. ASSUME NEW r \in Requests,
             \/ AcquireLock(r) \/ LockBusy(r) \/ ValidateReject(r) \/ Unlock(r)
             \/ DebitRefused(r) \/ Cancel(r) \/ Debit(r) \/ DebitReplyLost(r)
             \/ ReadPrice(r) \/ CommitRefused(r) \/ PublishEvents(r)
      PROVE  KeepsPrices
  BY <1>7, <1>1 DEF KeepsPrices, Priced, CutOff, AcquireLock, LockBusy, ValidateReject, Unlock,
     DebitRefused, Cancel, Debit, DebitReplyLost, ReadPrice, CommitRefused, PublishEvents
<1>8. ASSUME NEW r \in Requests, ReadBidder(r) \/ ReadId(r) \/ ReadMongo(r) \/ ReadNothing(r)
      PROVE  KeepsPrices
  BY <1>8, <1>1 DEF KeepsPrices, Priced, ReadBidder, ReadId, ReadMongo, ReadNothing, Seen
<1>9. ASSUME NEW r \in Requests,
             \/ Refund(r) \/ RefundFails(r) \/ MarkOutbid(r) \/ InsertBid(r)
             \/ HandleOutbid(r) \/ LoseOutbid(r) \/ LateDebit(r)
      PROVE  KeepsPrices
  BY <1>9 DEF KeepsPrices, Refund, RefundFails, MarkOutbid, InsertBid, HandleOutbid,
     LoseOutbid, LateDebit
<1>10. ASSUME LockExpires \/ Crash \/ UNCHANGED vars PROVE KeepsPrices
  BY <1>10, <1>1 DEF KeepsPrices, Priced, LockExpires, Crash, CutOff, vars
<1> QED
  BY StepCases, PricesKept, <1>3, <1>4, <1>5, <1>6, <1>7, <1>8, <1>9, <1>10

LEMMA PriceInvHolds ==
    ASSUME "expiry" \notin Faults
    PROVE  Spec => []PriceInv
<1> DEFINE Inv == TypeInv /\ LockInv /\ PriceInv
<1>1. Init => Inv
  BY InitTypeInv DEF Init, LockInv, PriceInv, PriceCoversLeader, Critical, Priced, At
<1>2. Inv /\ [Next]_vars => Inv'
  BY TypeStep, LockStep, PriceStep
<1> QED
  BY <1>1, <1>2, PTL DEF Spec

\* The price in the auction service never falls below the leader in Redis, as
\* long as no lock expires under its holder: whatever else fails, no bid that
\* the leader beats passes validation.
THEOREM PriceIsCovering ==
    ASSUME "expiry" \notin Faults
    PROVE  Spec => []PriceCoversLeader
BY PriceInvHolds, PTL DEF PriceInv

\* On the same condition the script of redisRepo.PlaceBid refuses nobody who
\* has paid: what validation has let through still beats the leader.
THEOREM ScriptRefusesNobody ==
    ASSUME "expiry" \notin Faults
    PROVE  Spec => []NeverRefused
<1>1. PriceInv => NeverRefused
  BY DEF PriceInv, NeverRefused, Priced, At
<1> QED
  BY <1>1, PriceInvHolds, PTL

-----------------------------------------------------------------------------
(* The previous bid                                                        *)

\* Under the lock the leader does not change while a placement reads it.
WholePrev ==
    \A r \in Requests :
        /\ pc[r] \in Reading => prev[r] = top
        /\ prev[r] # NoBid => prev[r] = BidOf(prev[r].id)

\* A step that reads nothing and under which no leader changes.
KeepsReads ==
    /\ UNCHANGED <<top, prev, offer, bidder>>
    /\ \A q \in Requests : pc'[q] \in Reading => pc[q] \in Reading

LEMMA ReadsKept ==
    ASSUME WholePrev, KeepsReads
    PROVE  WholePrev'
BY DEF WholePrev, KeepsReads, BidOf

LEMMA WholeStep ==
    ASSUME TypeInv, TypeInv', LeaderInv, LockInv, WholePrev, [Next]_vars
    PROVE  WholePrev'
<1> USE DEF At, Goto, Reading, inputs, redis
<1>1. /\ pc \in [Requests -> Critical \union Over \union {"idle"}]
      /\ prev \in [Requests -> Bid \union {NoBid}]
      /\ \A q \in Requests : pc[q] \in Reading => prev[q] = top /\ prev[q] \in Bid
  BY DEF TypeInv, TypeOK, Stages, Stage, WholePrev
<1>2. ASSUME NEW r \in Requests, ReadPrice(r) PROVE WholePrev'
  <2>1. top = BidOf(top.id)
    BY <1>2 DEF ReadPrice, LeaderInv, LeaderPaid
  <2> QED
    BY <1>1, <1>2, <2>1 DEF ReadPrice, WholePrev, BidOf
<1>3. ASSUME NEW r \in Requests, ReadBidder(r) PROVE WholePrev'
  <2>1. [prev[r] EXCEPT !.user = top.user] = prev[r]
    BY <1>1, <1>3 DEF ReadBidder, Bid
  <2> QED
    BY <1>1, <1>3, <2>1 DEF ReadBidder, WholePrev, BidOf
<1>4. ASSUME NEW r \in Requests, ReadId(r) PROVE WholePrev'
  <2>1. [prev[r] EXCEPT !.id = top.id] = prev[r]
    BY <1>1, <1>4 DEF ReadId, Bid
  <2> QED
    BY <1>1, <1>4, <2>1 DEF ReadId, Seen, WholePrev, BidOf
<1>5. ASSUME NEW r \in Requests, ReadMongo(r) PROVE WholePrev'
  <2>1. PICK seen \in MongoHighest : Seen(r, seen)
    BY <1>5 DEF ReadMongo
  <2>2. seen # NoBid => seen = BidOf(seen.id)
    BY <2>1, MongoAnswers, BidsAreBids DEF TypeInv
  <2> QED
    BY <1>1, <1>5, <2>1, <2>2 DEF ReadMongo, Seen, WholePrev, BidOf
<1>6. ASSUME NEW r \in Requests, ReadNothing(r) PROVE WholePrev'
  BY <1>1, <1>6 DEF ReadNothing, Seen, WholePrev, BidOf
<1>7. ASSUME NEW r \in Requests, Commit(r) \/ CommitReplyLost(r) PROVE WholePrev'
  <2>1. \A q \in Requests : pc'[q] \notin Reading
    BY <1>1, <1>7 DEF Commit, CommitReplyLost, LockInv, Critical
  <2> QED
    BY <1>7, <2>1 DEF Commit, CommitReplyLost, WholePrev, BidOf
<1>8. ASSUME NEW r \in Requests,
             \/ AcquireLock(r) \/ LockBusy(r) \/ ValidateFind(r) \/ ValidateReject(r)
             \/ ValidateUpdate(r) \/ ValidateReplyLost(r) \/ Debit(r) \/ DebitRefused(r)
             \/ DebitReplyLost(r) \/ CommitRefused(r) \/ PublishEvents(r) \/ Unlock(r)
             \/ Cancel(r)
      PROVE  KeepsReads
  BY <1>1, <1>8 DEF KeepsReads, CutOff, AcquireLock, LockBusy, ValidateFind, ValidateReject,
     ValidateUpdate, ValidateReplyLost, Debit, DebitRefused, DebitReplyLost, CommitRefused,
     PublishEvents, Unlock, Cancel
<1>9. ASSUME NEW r \in Requests,
             \/ Refund(r) \/ RefundFails(r) \/ MarkOutbid(r) \/ InsertBid(r)
             \/ HandleOutbid(r) \/ LoseOutbid(r) \/ LateDebit(r)
      PROVE  KeepsReads
  BY <1>9 DEF KeepsReads, Refund, RefundFails, MarkOutbid, InsertBid, HandleOutbid,
     LoseOutbid, LateDebit
<1>10. ASSUME LockExpires \/ EndAuction \/ Crash \/ UNCHANGED vars PROVE KeepsReads
  BY <1>1, <1>10 DEF KeepsReads, CutOff, LockExpires, EndAuction, Crash, vars
<1> QED
  BY StepCases, ReadsKept, <1>2, <1>3, <1>4, <1>5, <1>6, <1>7, <1>8, <1>9, <1>10

\* Unless a lock expires under its holder, what bid.outbid tells and what is
\* marked OUTBID is one bid, although its parts are read one by one.
THEOREM PreviousBidIsWhole ==
    ASSUME "expiry" \notin Faults
    PROVE  Spec => []OutbidNamesOneBid
<1> DEFINE Inv == TypeInv /\ LeaderInv /\ LockInv /\ WholePrev
<1>1. Init => Inv
  BY InitTypeInv, InitLeaderInv DEF Init, LockInv, WholePrev, Critical, Reading
<1>2. Inv /\ [Next]_vars => Inv'
  BY TypeStep, LeaderStep, LockStep, WholeStep
<1>3. Inv => OutbidNamesOneBid
  BY DEF WholePrev, OutbidNamesOneBid
<1> QED
  BY <1>1, <1>2, <1>3, PTL DEF Spec

============================================================================
