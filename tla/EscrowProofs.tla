----------------------------- MODULE EscrowProofs ----------------------------
(***************************************************************************)
(* The pipeline implements the escrow of EscrowAuction, for every set of   *)
(* requests, users and amounts, unless a lock expires under its holder,    *)
(* the reply of the Redis script is lost or Redis cannot be read: each of  *)
(* the three breaks it.                                                    *)
(*                                                                         *)
(* The argument: under the lock, a placement displaces the bid that leads  *)
(* or none (FreshPrev); so every claim to a refund is the only one on its  *)
(* bid, and lies on a bid that was paid and no longer leads (OneClaim).    *)
(***************************************************************************)
EXTENDS BiddingProofs

Orderly == Faults \intersect {"expiry", "cas_reply", "mongo_prev"} = {}

\* A placement that holds the lock knows the leader, or could not read it.
FreshPrev ==
    \A r \in Requests :
        /\ pc[r] \in Reading => prev[r] = top
        /\ pc[r] \in {"debit", "commit"} => prev[r] \in {top, NoBid}

\* Every claim to a refund of b is the only one, and b has been replaced.
OneClaim(b) ==
    /\ Leads(b) => pc[b] \in Committed
    /\ Compensated(b) => Paid(b) /\ ~Leads(b)
    /\ b \in refunding => RefundRow(b) \notin ledger
    /\ b \in outbid => OutbidRow(b) \notin ledger
    /\ \A r \in Requests :
          Displaces(r, b) => /\ Paid(b) /\ pc[b] \in Committed /\ Beaten(b)
                             /\ ~Compensated(b)
                             /\ \A s \in Requests : Displaces(s, b) => r = s

Claims == \A b \in Requests : OneClaim(b)

EscrowInv == TypeInv /\ LeaderInv /\ LockInv /\ FreshPrev /\ Claims

-----------------------------------------------------------------------------

LEMMA FreshStep ==
    ASSUME Orderly
    PROVE  TypeInv /\ LeaderInv /\ LockInv /\ FreshPrev /\ [Next]_vars => FreshPrev'
<1> SUFFICES ASSUME TypeInv, LeaderInv, LockInv, FreshPrev, [Next]_vars PROVE FreshPrev'
  OBVIOUS
<1> USE DEF TypeInv, TypeOK, LockInv, FreshPrev, Goto, At, Critical, Over, Reading, redis,
            inputs, Orderly
<1>1. ASSUME NEW r \in Requests, AcquireLock(r) PROVE FreshPrev'
  BY <1>1, RowsDiffer DEF AcquireLock
<1>2. ASSUME NEW r \in Requests, LockBusy(r) PROVE FreshPrev'
  BY <1>2, RowsDiffer DEF LockBusy
<1>3. ASSUME NEW r \in Requests, ValidateFind(r) PROVE FreshPrev'
  BY <1>3, RowsDiffer DEF ValidateFind
<1>4. ASSUME NEW r \in Requests, ValidateReject(r) PROVE FreshPrev'
  BY <1>4, RowsDiffer DEF ValidateReject
<1>5. ASSUME NEW r \in Requests, ValidateUpdate(r) PROVE FreshPrev'
  BY <1>5, RowsDiffer DEF ValidateUpdate
<1>6. ASSUME NEW r \in Requests, ValidateReplyLost(r) PROVE FreshPrev'
  BY <1>6, RowsDiffer DEF ValidateReplyLost
<1>7. ASSUME NEW r \in Requests, ReadPrice(r) PROVE FreshPrev'
  BY <1>7, RowsDiffer DEF ReadPrice
<1>8. ASSUME NEW r \in Requests, ReadBidder(r) PROVE FreshPrev'
  <2>1. prev[r] = top /\ top \in Bid
    BY <1>8 DEF ReadBidder, TypeInv, Stages, Stage
  <2>2. [prev[r] EXCEPT !.user = top.user] = top
    BY <2>1 DEF Bid
  <2> QED
    BY <1>8, <2>2 DEF ReadBidder
<1>8a. ASSUME NEW r \in Requests, ReadId(r) PROVE FreshPrev'
  <2>1. prev[r] = top /\ top \in Bid
    BY <1>8a DEF ReadId, TypeInv, Stages, Stage
  <2>2. [prev[r] EXCEPT !.id = top.id] = top
    BY <2>1 DEF Bid
  <2> QED
    BY <1>8a, <2>2 DEF ReadId, Seen
<1>9. ASSUME NEW r \in Requests, ReadMongo(r) PROVE FreshPrev'
  <2>1. PICK seen \in MongoHighest : Seen(r, seen)
    BY <1>9 DEF ReadMongo
  <2>2. top = NoBid
    BY <1>9 DEF ReadMongo
  <2>3. seen = NoBid
    BY <2>2, MongoAnswers DEF LeaderInv, StoredBehind, Acknowledged, Behind
  <2> QED
    BY <1>9, <2>1, <2>3 DEF ReadMongo, Seen
<1>10. ASSUME NEW r \in Requests, ReadNothing(r) PROVE FreshPrev'
  BY <1>10, RowsDiffer DEF ReadNothing, Seen
<1>11. ASSUME NEW r \in Requests, Debit(r) PROVE FreshPrev'
  BY <1>11, RowsDiffer DEF Debit, Charge
<1>12. ASSUME NEW r \in Requests, DebitRefused(r) PROVE FreshPrev'
  BY <1>12, RowsDiffer DEF DebitRefused
<1>13. ASSUME NEW r \in Requests, DebitReplyLost(r) PROVE FreshPrev'
  BY <1>13, RowsDiffer DEF DebitReplyLost, Charge
<1>14. ASSUME NEW r \in Requests, Commit(r) PROVE FreshPrev'
  BY <1>14, RowsDiffer DEF Commit
<1>15. ASSUME NEW r \in Requests, CommitRefused(r) PROVE FreshPrev'
  BY <1>15, RowsDiffer DEF CommitRefused
<1>16. ASSUME NEW r \in Requests, CommitReplyLost(r) PROVE FreshPrev'
  BY <1>16, RowsDiffer DEF CommitReplyLost
<1>17. ASSUME NEW r \in Requests, PublishEvents(r) PROVE FreshPrev'
  BY <1>17, RowsDiffer DEF PublishEvents
<1>18. ASSUME NEW r \in Requests, Unlock(r) PROVE FreshPrev'
  BY <1>18, RowsDiffer DEF Unlock
<1>19. ASSUME NEW r \in Requests, Refund(r) PROVE FreshPrev'
  BY <1>19, RowsDiffer DEF Refund, Credit
<1>20. ASSUME NEW r \in Requests, RefundFails(r) PROVE FreshPrev'
  BY <1>20, RowsDiffer DEF RefundFails
<1>21. ASSUME NEW r \in Requests, MarkOutbid(r) PROVE FreshPrev'
  BY <1>21, RowsDiffer DEF MarkOutbid
<1>22. ASSUME NEW r \in Requests, InsertBid(r) PROVE FreshPrev'
  BY <1>22, RowsDiffer DEF InsertBid
<1>23. ASSUME NEW r \in Requests, HandleOutbid(r) PROVE FreshPrev'
  BY <1>23, RowsDiffer DEF HandleOutbid, Credit
<1>24. ASSUME NEW r \in Requests, LoseOutbid(r) PROVE FreshPrev'
  BY <1>24, RowsDiffer DEF LoseOutbid
<1>25. ASSUME NEW r \in Requests, Cancel(r) PROVE FreshPrev'
  BY <1>25, RowsDiffer DEF Cancel, CutOff
<1>25a. ASSUME NEW r \in Requests, LateDebit(r) PROVE FreshPrev'
  BY <1>25a, RowsDiffer DEF LateDebit, Charge
<1>26. CASE LockExpires
  BY <1>26, RowsDiffer DEF LockExpires
<1>27. CASE EndAuction
  BY <1>27, RowsDiffer DEF EndAuction
<1>28. CASE Crash
  BY <1>28, RowsDiffer DEF Crash, CutOff
<1>29. CASE UNCHANGED vars
  BY <1>29, RowsDiffer DEF vars
<1> QED
  BY StepCases, <1>1, <1>2, <1>3, <1>4, <1>5, <1>6, <1>7, <1>8, <1>8a, <1>9, <1>10, <1>11, <1>12,
     <1>13, <1>14, <1>15, <1>16, <1>17, <1>18, <1>19, <1>20, <1>21, <1>22, <1>23, <1>24, <1>25,
     <1>25a, <1>26, <1>27, <1>28, <1>29

\* A step that makes no claim: no placement gets to publish, nothing new is
\* to be refunded or announced, and what a claim rests on is not rewritten.
NoNewClaim ==
    /\ UNCHANGED <<offer, top>>
    /\ refunding' \subseteq refunding /\ outbid' \subseteq outbid
    /\ \A q \in Requests :
          /\ pc'[q] = "publish" => pc[q] = "publish"
          /\ pc[q] \in Committed => pc'[q] \in Committed
          /\ Paid(q) => Paid(q)'
          /\ RefundRow(q) \in ledger' <=> RefundRow(q) \in ledger
          /\ OutbidRow(q) \in ledger' <=> OutbidRow(q) \in ledger
          /\ \/ prev'[q] = prev[q]
             \/ ~(pc[q] = "publish" \/ q \in outbid \/ OutbidRow(q) \in ledger)

LEMMA NoNewClaimStep ==
    ASSUME Claims, NoNewClaim
    PROVE  Claims'
<1> SUFFICES ASSUME NEW b \in Requests PROVE OneClaim(b)'
  BY DEF Claims
<1> USE DEF NoNewClaim
<1>1. \A r \in Requests : Displaces(r, b)' => Displaces(r, b)
  BY DEF Displaces, At
<1>2. (Compensated(b)' => Compensated(b)) /\ (Leads(b)' => Leads(b)) /\ (Beaten(b) => Beaten(b)')
  BY DEF Compensated, Leads, Beaten
<1> QED
  BY <1>1, <1>2 DEF Claims, OneClaim

LEMMA QuietStep ==
    ASSUME TypeInv, TypeInv', NEW r \in Requests,
           \/ AcquireLock(r) \/ LockBusy(r) \/ ValidateFind(r) \/ ValidateReject(r)
           \/ ValidateUpdate(r) \/ ValidateReplyLost(r) \/ ReadPrice(r) \/ ReadBidder(r)
           \/ ReadId(r) \/ ReadMongo(r) \/ ReadNothing(r) \/ DebitRefused(r) \/ Unlock(r)
           \/ RefundFails(r) \/ MarkOutbid(r) \/ InsertBid(r) \/ LoseOutbid(r)
    PROVE  NoNewClaim
BY DEF NoNewClaim, TypeInv, TypeOK, Stages, Stage, Goto, At, Critical, Over, Ended, Committed, Reading,
   Paid, redis, inputs, wallet, async, AcquireLock, LockBusy, ValidateFind,
   ValidateReject, ValidateUpdate, ValidateReplyLost, ReadPrice, ReadBidder, ReadId, ReadMongo,
   ReadNothing, Seen, DebitRefused, Unlock, RefundFails, MarkOutbid, InsertBid, LoseOutbid

LEMMA QuietCharge ==
    ASSUME TypeInv, NEW r \in Requests, Debit(r) \/ DebitReplyLost(r) \/ LateDebit(r)
    PROVE  NoNewClaim
BY RowsDiffer DEF NoNewClaim, TypeInv, TypeOK, Goto, At, Critical, Over, Ended, Committed, Reading,
   Paid, redis, inputs, wallet, async, Debit, DebitReplyLost, LateDebit, Charge

LEMMA ClaimStep ==
    ASSUME Orderly
    PROVE  EscrowInv /\ TypeInv' /\ [Next]_vars => Claims'
<1> SUFFICES ASSUME EscrowInv, TypeInv', [Next]_vars PROVE Claims'
  OBVIOUS
<1> USE DEF EscrowInv, TypeInv, TypeOK, Stages, Stage, Goto, At, Critical, Over, Ended, Committed, Reading
<1> USE DEF redis, inputs, wallet, async
<1>1. ASSUME NEW r \in Requests, Commit(r) PROVE Claims'
  <2> USE DEF Commit
  <2>1. \A c \in Requests : Behind(c) => Beaten(c)'
    BY <1>1, BeatenByBeats
  <2>2. top' = BidOf(r) /\ BidOf(r).id = r
    BY <1>1, BidsAreBids
  <2>3. ~Compensated(r) /\ Paid(r)
    BY <1>1
  <2>4. prev[r] \in {top, NoBid}
    BY <1>1 DEF FreshPrev
  <2>5. ASSUME NEW b \in Requests PROVE OneClaim(b)'
    <3> USE DEF Claims, OneClaim
    <3>1. Leads(b)' => b = r
      BY <2>2 DEF Leads
    <3>2. Compensated(b)' <=> Compensated(b)
      BY <1>1 DEF Compensated
    <3>3. ASSUME NEW s \in Requests, Displaces(s, b)', s # r PROVE Displaces(s, b)
      BY <1>1, <3>3 DEF Displaces
    <3>4. ASSUME Displaces(r, b)' PROVE Leads(b) /\ Behind(b)
      BY <1>1, <2>4, <3>4, LeaderIsBehind DEF Displaces, Leads, LeaderInv
    <3>5. Leads(b) => Paid(b) /\ ~\E s \in Requests : Displaces(s, b)
      BY HeldFollows DEF LeaderHeld
    <3>6. (Leads(b)' => pc'[b] \in Committed) /\ (Compensated(b)' => Paid(b)' /\ ~Leads(b)')
      BY <1>1, <2>3, <3>1, <3>2 DEF Paid
    <3>7. /\ b \in refunding' => RefundRow(b) \notin ledger'
          /\ b \in outbid' => OutbidRow(b) \notin ledger'
      BY <1>1
    <3>8. ASSUME NEW s \in Requests, Displaces(s, b)'
          PROVE  /\ Paid(b)' /\ pc'[b] \in Committed /\ Beaten(b)'
                 /\ ~Compensated(b)'
      <4>1. CASE s = r
        BY <1>1, <2>1, <3>2, <3>4, <3>5, <3>8, <4>1 DEF Paid
      <4>2. CASE s # r
        <5>1. Displaces(s, b)
          BY <3>3, <3>8, <4>2
        <5>2. Behind(b)
          BY <5>1 DEF LeaderInv, PrevBehind, Displaces
        <5> QED
          BY <1>1, <2>1, <3>2, <5>1, <5>2 DEF Paid
      <4> QED
        BY <4>1, <4>2
    <3>9. ASSUME NEW s \in Requests, Displaces(s, b)', NEW t \in Requests, Displaces(t, b)'
          PROVE  s = t
      BY <3>3, <3>4, <3>5, <3>9
    <3> QED
      BY <3>6, <3>7, <3>8, <3>9
  <2> QED
    BY <2>5 DEF Claims
<1>2. ASSUME NEW r \in Requests, At(r, "commit"),
             CommitRefused(r) \/ (Cancel(r) /\ refunding' = refunding \union {r})
      PROVE  Claims'
  <2> USE DEF CommitRefused, Cancel, CutOff
  <2>1. Paid(r) /\ ~Compensated(r)
    BY <1>2
  <2>2. ASSUME NEW b \in Requests PROVE OneClaim(b)'
    <3> USE DEF Claims, OneClaim
    <3>1. (Leads(b)' <=> Leads(b)) /\ (Paid(b)' <=> Paid(b)) /\ (Beaten(b)' <=> Beaten(b))
      BY <1>2 DEF Leads, Paid, Beaten
    <3>2. \A s \in Requests : Displaces(s, b)' => Displaces(s, b)
      BY <1>2 DEF Displaces
    <3>3. Compensated(b)' => Compensated(b) \/ b = r
      BY <1>2 DEF Compensated
    <3>4. \A q \in Requests : pc[q] \in Committed => pc'[q] \in Committed
      BY <1>2
    <3>5. b \in refunding' => RefundRow(b) \notin ledger'
      BY <1>2, <2>1 DEF Compensated
    <3>6. b \in outbid' => OutbidRow(b) \notin ledger'
      BY <1>2
    <3>7. pc[r] \notin Committed
      BY <1>2
    <3> HIDE DEF CommitRefused, Cancel, CutOff, Committed, Ended, TypeOK, Stage
    <3> QED
      BY <2>1, <3>1, <3>2, <3>3, <3>4, <3>5, <3>6, <3>7
  <2> QED
    BY <2>2 DEF Claims
<1>3. ASSUME NEW r \in Requests, Cancel(r) PROVE Claims'
  <2>1. CASE At(r, "commit")
    BY <1>2, <1>3, <2>1 DEF Cancel
  <2>2. CASE ~At(r, "commit")
    <3>1. NoNewClaim
      BY <1>3, <2>2 DEF Cancel, CutOff, NoNewClaim, Paid
    <3> QED
      BY <3>1, NoNewClaimStep
  <2> QED
    BY <2>1, <2>2
<1>4. ASSUME NEW r \in Requests, PublishEvents(r) PROVE Claims'
  <2> USE DEF PublishEvents
  <2>1. OutbidRow(r) \notin ledger
    BY <1>4
  <2>2. ASSUME NEW b \in Requests PROVE OneClaim(b)'
    <3> USE DEF Claims, OneClaim
    <3>1. (Leads(b)' <=> Leads(b)) /\ (Paid(b)' <=> Paid(b)) /\ (Beaten(b)' <=> Beaten(b))
      BY <1>4 DEF Leads, Paid, Beaten
    <3>2. \A s \in Requests : Displaces(s, b)' => Displaces(s, b)
      BY <1>4 DEF Displaces
    <3>3. Compensated(b)' <=> Compensated(b)
      BY <1>4 DEF Compensated
    <3>4. \A q \in Requests : pc[q] \in Committed => pc'[q] \in Committed
      BY <1>4
    <3>5. b \in refunding' => RefundRow(b) \notin ledger'
      BY <1>4
    <3>6. b \in outbid' => OutbidRow(b) \notin ledger'
      BY <1>4, <2>1
    <3> HIDE DEF PublishEvents, Committed, Ended, TypeOK, Stage
    <3> QED
      BY <3>1, <3>2, <3>3, <3>4, <3>5, <3>6
  <2> QED
    BY <2>2 DEF Claims
<1>5. ASSUME NEW r \in Requests, Refund(r) PROVE Claims'
  <2>1. /\ ledger' = ledger \union {RefundRow(r)} /\ r \in refunding /\ refunding' = refunding \ {r}
        /\ UNCHANGED <<pc, prev, top, offer, marking, inserting, outbid>>
    BY <1>5 DEF Refund, Credit
  <2>2. ASSUME NEW q \in Requests
        PROVE  /\ Paid(q)' <=> Paid(q)
               /\ OutbidRow(q) \in ledger' <=> OutbidRow(q) \in ledger
               /\ RefundRow(q) \in ledger' <=> RefundRow(q) \in ledger \/ q = r
    BY <2>1, RowsDiffer DEF Paid
  <2>3. ASSUME NEW b \in Requests PROVE OneClaim(b)'
    <3>1. (Leads(b)' <=> Leads(b)) /\ (Beaten(b)' <=> Beaten(b))
      BY <2>1 DEF Leads, Beaten
    <3>2. \A s \in Requests : Displaces(s, b)' <=> Displaces(s, b)
      BY <2>1, <2>2 DEF Displaces
    <3>3. Compensated(b)' <=> Compensated(b)
      BY <2>1, <2>2 DEF Compensated
    <3> HIDE DEF Committed, Ended, TypeOK, Stages
    <3> QED
      BY <2>1, <2>2, <3>1, <3>2, <3>3 DEF Claims, OneClaim
  <2> QED
    BY <2>3 DEF Claims
<1>9. ASSUME NEW r \in Requests, HandleOutbid(r) PROVE Claims'
  <2>1. /\ ledger' = ledger \union {OutbidRow(r)} /\ r \in outbid /\ outbid' = outbid \ {r}
        /\ UNCHANGED <<pc, prev, top, offer, marking, inserting, refunding>>
    BY <1>9 DEF HandleOutbid, Credit
  <2>2. ASSUME NEW q \in Requests
        PROVE  /\ Paid(q)' <=> Paid(q)
               /\ RefundRow(q) \in ledger' <=> RefundRow(q) \in ledger
               /\ OutbidRow(q) \in ledger' <=> OutbidRow(q) \in ledger \/ q = r
    BY <2>1, RowsDiffer DEF Paid
  <2>3. ASSUME NEW b \in Requests PROVE OneClaim(b)'
    <3>1. (Leads(b)' <=> Leads(b)) /\ (Beaten(b)' <=> Beaten(b))
      BY <2>1 DEF Leads, Beaten
    <3>2. \A s \in Requests : Displaces(s, b)' <=> Displaces(s, b)
      BY <2>1, <2>2 DEF Displaces
    <3>3. Compensated(b)' <=> Compensated(b)
      BY <2>1, <2>2 DEF Compensated
    <3> HIDE DEF Committed, Ended, TypeOK, Stages
    <3> QED
      BY <2>1, <2>2, <3>1, <3>2, <3>3 DEF Claims, OneClaim
  <2> QED
    BY <2>3 DEF Claims
<1>6. ASSUME LockExpires \/ EndAuction \/ Crash \/ UNCHANGED vars PROVE Claims'
  <2>1. NoNewClaim
    BY <1>6 DEF NoNewClaim, Paid, LockExpires, EndAuction, Crash, CutOff, vars
  <2> QED
    BY <2>1, NoNewClaimStep
<1>7. ASSUME NEW r \in Requests, CommitReplyLost(r) PROVE Claims'
  BY <1>7 DEF CommitReplyLost, Orderly
<1>8. ASSUME NEW r \in Requests, CommitRefused(r) PROVE Claims'
  BY <1>2, <1>8 DEF CommitRefused
<1> HIDE DEF TypeInv, Goto, At, Critical, Over, Ended, Committed, Reading, redis, inputs, wallet, async
<1> QED
  BY StepCases, QuietStep, QuietCharge, NoNewClaimStep,
     <1>1, <1>3, <1>4, <1>5, <1>6, <1>7, <1>8, <1>9

LEMMA InitEscrowInv == Init => EscrowInv
<1> SUFFICES ASSUME Init PROVE EscrowInv
  OBVIOUS
<1>1. TypeInv /\ LeaderInv
  BY InitTypeInv, InitLeaderInv
<1>2. LockInv /\ FreshPrev
  BY DEF Init, LockInv, FreshPrev, Critical, At
<1>3. Claims
  BY DEF Init, Claims, OneClaim, Leads, Compensated, Displaces
<1> QED
  BY <1>1, <1>2, <1>3 DEF EscrowInv

\* The invariant behind both results below: types, stages, the lock, what a
\* placement has read, and one claim at most to each refund.
THEOREM EscrowInvariant ==
    ASSUME Orderly
    PROVE  Spec => []EscrowInv
<1>1. EscrowInv /\ [Next]_vars => EscrowInv'
  BY TypeStep, LeaderStep, LockStep, FreshStep, ClaimStep DEF EscrowInv, Orderly
<1> QED
  BY <1>1, InitEscrowInv, PTL DEF Spec

\* No bid is refunded twice: a bid that leads is displaced by one placement
\* at most, and never also refunded by its own request.
THEOREM RefundedAtMostOnce ==
    ASSUME Orderly
    PROVE  Spec => []AtMostOneRefund
<1>1. EscrowInv => AtMostOneRefund
  BY DEF EscrowInv, Claims, OneClaim, AtMostOneRefund
<1> QED
  BY <1>1, EscrowInvariant, PTL

-----------------------------------------------------------------------------
(* The refinement                                                          *)

\* What the escrow does not see.
LEMMA Stutters ==
    ASSUME TypeInv, UNCHANGED <<offer, top, ledger>>,
           \A q \in Requests : prev'[q] = prev[q] \/ OutbidRow(q) \notin ledger
    PROVE  UNCHANGED Escrow!vars
<1>1. ASSUME NEW b \in Requests PROVE MoneyAt(b)' = MoneyAt(b)
  BY DEF MoneyAt, Returned, Paid
<1> QED
  BY <1>1 DEF Escrow!vars, LeaderId

\* A bid without a claim on it has its money where it was.
LEMMA Unreturned ==
    ASSUME TypeInv, NEW b \in Requests, ~Compensated(b),
           \A r \in Requests : ~Displaces(r, b)
    PROVE  ~Returned(b)
BY DEF Returned, Compensated, Displaces, TypeInv, Stages, Stage

LEMMA HoldStep ==
    ASSUME EscrowInv, NEW r \in Requests, pc[r] \in {"debit", "left"}, ~Paid(r), Charge(r),
           UNCHANGED <<offer, top, prev>>
    PROVE  Escrow!Hold(r)
<1>1. ~Paid(r) /\ ~Compensated(r)
  BY DEF EscrowInv, TypeInv, Stages, Stage, Ended
<1>2. ~Returned(r)
  BY <1>1, Unreturned DEF EscrowInv, Claims, OneClaim
<1>3. ASSUME NEW b \in Requests
      PROVE  MoneyAt(b)' = IF b = r THEN "held" ELSE MoneyAt(b)
  <2>1. (Paid(b)' <=> Paid(b) \/ b = r) /\ (Returned(b)' <=> Returned(b))
    BY RowsDiffer DEF Charge, Paid, Returned
  <2> QED
    BY <1>2, <2>1 DEF MoneyAt
<1> QED
  BY <1>1, <1>2, <1>3 DEF Escrow!Hold, MoneyAt, LeaderId

LEMMA LeadStep ==
    ASSUME EscrowInv, NEW r \in Requests, Commit(r)
    PROVE  Escrow!Lead(r)
<1>1. Paid(r) /\ ~Compensated(r)
  BY DEF Commit, EscrowInv, TypeInv, Stages, Stage, At, Ended
<1>2. \A s \in Requests : ~Displaces(s, r)
  BY DEF Commit, EscrowInv, Claims, OneClaim, At, Committed, Ended
<1>3. MoneyAt(r) = "held"
  BY <1>1, <1>2, Unreturned DEF EscrowInv, MoneyAt
<1>4. ASSUME NEW b \in Requests PROVE MoneyAt(b)' = MoneyAt(b)
  BY DEF Commit, MoneyAt, Returned, Paid, wallet
<1>5. LeaderId' = r
  BY BidsAreBids DEF Commit, LeaderId, EscrowInv, TypeInv
<1>6. LeaderId # NoBid => offer[r] > offer[LeaderId]
  BY BidsAreBids DEF Commit, Beats, LeaderId, EscrowInv, LeaderInv, LeaderPaid, TypeInv,
     TypeOK, Bid
<1> QED
  BY <1>3, <1>4, <1>5, <1>6 DEF Escrow!Lead, Commit, inputs

LEMMA RefundStep ==
    ASSUME EscrowInv, NEW r \in Requests, Refund(r)
    PROVE  Escrow!Return(r)
<1>1. Compensated(r) /\ RefundRow(r) \notin ledger
  BY DEF Refund, Compensated, EscrowInv, Claims, OneClaim
<1>2. Paid(r) /\ ~Leads(r) /\ \A s \in Requests : ~Displaces(s, r)
  BY <1>1 DEF EscrowInv, Claims, OneClaim
<1>3. MoneyAt(r) = "held"
  BY <1>1, <1>2 DEF MoneyAt, Returned, Displaces, EscrowInv, TypeInv, Stages, Stage
<1>4. ASSUME NEW b \in Requests
      PROVE  MoneyAt(b)' = IF b = r THEN "returned" ELSE MoneyAt(b)
  BY RowsDiffer DEF Refund, Credit, MoneyAt, Returned, Paid
<1>5. LeaderId # r
  BY <1>2, NoBidAssumption DEF Leads, LeaderId
<1> QED
  BY <1>3, <1>4, <1>5 DEF Escrow!Return, Refund, LeaderId, redis, inputs

LEMMA OutbidStep ==
    ASSUME EscrowInv, NEW r \in Requests, HandleOutbid(r)
    PROVE  \E b \in Requests : Escrow!Return(b)
<1> DEFINE b == prev[r].id
<1>1. Displaces(r, b) /\ b \in Requests
  BY PrevIsBid DEF HandleOutbid, Displaces, EscrowInv, TypeInv, Stages, Stage
<1>2. OutbidRow(r) \notin ledger
  BY DEF HandleOutbid, EscrowInv, Claims, OneClaim
<1>3. Paid(b) /\ ~Compensated(b) /\ \A s \in Requests : Displaces(s, b) => r = s
  BY <1>1 DEF EscrowInv, Claims, OneClaim
<1>4. ~Leads(b)
  BY <1>1, HeldFollows DEF EscrowInv, LeaderHeld
<1>5. ~Returned(b)
  BY <1>2, <1>3 DEF Returned, Compensated, Displaces, EscrowInv, TypeInv, Stages, Stage
<1>6. ASSUME NEW c \in Requests
      PROVE  MoneyAt(c)' = IF c = b THEN "returned" ELSE MoneyAt(c)
  BY RowsDiffer DEF HandleOutbid, Credit, MoneyAt, Returned, Paid
<1>7. LeaderId # b
  BY <1>1, <1>4, NoBidAssumption DEF Leads, LeaderId
<1>8. Escrow!Return(b)
  BY <1>1, <1>3, <1>5, <1>6, <1>7
  DEF Escrow!Return, MoneyAt, HandleOutbid, LeaderId, redis, inputs
<1> QED
  BY <1>1, <1>8

LEMMA EscrowStep ==
    ASSUME Orderly, EscrowInv, EscrowInv', [Next]_vars
    PROVE  [Escrow!Next]_Escrow!vars
<1>1. ASSUME NEW r \in Requests, Debit(r) \/ DebitReplyLost(r) \/ LateDebit(r), Charge(r)
      PROVE  Escrow!Next
  <2>1. pc[r] \in {"debit", "left"} /\ ~Paid(r)
    BY <1>1 DEF Debit, DebitReplyLost, LateDebit, At, EscrowInv, TypeInv, Stages, Stage,
       Committed, Ended
  <2> QED
    BY <1>1, <2>1, HoldStep DEF Debit, DebitReplyLost, LateDebit, inputs, redis, Escrow!Next
<1>2. ASSUME NEW r \in Requests, Commit(r) PROVE Escrow!Next
  BY <1>2, LeadStep DEF Escrow!Next
<1>3. ASSUME NEW r \in Requests, Refund(r) PROVE Escrow!Next
  BY <1>3, RefundStep DEF Escrow!Next
<1>4. ASSUME NEW r \in Requests, HandleOutbid(r) PROVE Escrow!Next
  BY <1>4, OutbidStep DEF Escrow!Next
<1>5. ASSUME NEW r \in Requests,
             \/ AcquireLock(r) \/ LockBusy(r) \/ ValidateFind(r) \/ ValidateReject(r)
             \/ ValidateUpdate(r) \/ ValidateReplyLost(r) \/ ReadPrice(r) \/ ReadBidder(r)
             \/ ReadId(r) \/ ReadMongo(r) \/ ReadNothing(r) \/ DebitRefused(r) \/ Unlock(r)
             \/ RefundFails(r) \/ MarkOutbid(r) \/ InsertBid(r) \/ LoseOutbid(r)
      PROVE  UNCHANGED Escrow!vars
  <2>1. UNCHANGED ledger
    BY <1>5 DEF wallet, AcquireLock, LockBusy, ValidateFind, ValidateReject,
       ValidateUpdate, ValidateReplyLost, ReadPrice, ReadBidder, ReadId, ReadMongo, ReadNothing,
       DebitRefused, Unlock, RefundFails, MarkOutbid, InsertBid, LoseOutbid
  <2>2. NoNewClaim
    BY <1>5, QuietStep DEF EscrowInv
  <2> QED
    BY <2>1, <2>2, Stutters DEF NoNewClaim, EscrowInv
<1>6. ASSUME NEW r \in Requests,
             \/ DebitReplyLost(r) /\ ~Charge(r)
             \/ CommitRefused(r) \/ PublishEvents(r) \/ Cancel(r)
      PROVE  UNCHANGED Escrow!vars
  BY <1>6, Stutters DEF EscrowInv, DebitReplyLost, CommitRefused, PublishEvents, Cancel,
     inputs, redis, wallet
<1>7. CASE UNCHANGED vars
  BY <1>7, Stutters DEF EscrowInv, vars
<1>8. ASSUME NEW r \in Requests, CommitReplyLost(r) PROVE FALSE
  BY <1>8 DEF CommitReplyLost, Orderly
<1>9. ASSUME NEW r \in Requests, Debit(r) \/ LateDebit(r) PROVE Charge(r)
  BY <1>9 DEF Debit, LateDebit
<1>10. CASE LockExpires \/ EndAuction \/ Crash
  BY <1>10, Stutters DEF EscrowInv, LockExpires, EndAuction, Crash, inputs, redis, wallet
<1> QED
  BY StepCases, <1>1, <1>2, <1>3, <1>4, <1>5, <1>6, <1>7, <1>8, <1>9, <1>10

\* The pipeline implements the escrow: money is taken before a bid leads, it
\* is given back at most once, and never to the leader.
THEOREM PipelineImplementsEscrow ==
    ASSUME Orderly
    PROVE  Spec => ImplementsEscrow
<1>1. Init => Escrow!Init
  BY AmountAssumption
  DEF Init, Escrow!Init, MoneyAt, Returned, Paid, LeaderId
<1>2. EscrowInv /\ EscrowInv' /\ [Next]_vars => [Escrow!Next]_Escrow!vars
  BY EscrowStep
<1> QED
  BY <1>1, <1>2, EscrowInvariant, PTL DEF Spec, ImplementsEscrow, Escrow!Spec

============================================================================
