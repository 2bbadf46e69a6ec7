----------------------------- MODULE MoneyProofs ----------------------------
(***************************************************************************)
(* The books of the pipeline, for every set of requests, users and         *)
(* amounts.                                                                *)
(*                                                                         *)
(*   NothingIsStranded    if only replies of the validation are lost and   *)
(*                        callers go away (Mild), but for what a caller    *)
(*                        was charged as she left (Forfeited)              *)
(*   MoneyIsConserved     likewise                                         *)
(*   MoneyIsNotCreated    whatever fails, but for the three faults that    *)
(*                        break the escrow (Orderly)                       *)
(*                                                                         *)
(* The argument for the first two: a placement that works knows exactly    *)
(* who leads (ExactPrev), so whoever it displaces has a claim on it.  The  *)
(* sums: the requests that have run are finitely many, and every step adds *)
(* or removes one of them at most on each side of the books.               *)
(***************************************************************************)
EXTENDS EscrowProofs, SumLemmas

\* Faults that leave no money behind but the charge of a caller who is gone.
Mild == Faults \subseteq {"rpc", "cancel"}

\* A placement that is about to pay or to commit knows the leader.
ExactPrev == \A r \in Requests : pc[r] \in {"debit", "commit"} => prev[r] = top

-----------------------------------------------------------------------------
(* No bid is left behind                                                   *)

\* A step that commits nothing does not let a placement past its reading of
\* the leader, except by reading it.
LEMMA ExactStep ==
    ASSUME Mild
    PROVE  EscrowInv /\ ExactPrev /\ [Next]_vars => ExactPrev'
<1> SUFFICES ASSUME EscrowInv, ExactPrev, [Next]_vars PROVE ExactPrev'
  OBVIOUS
<1> USE DEF EscrowInv, TypeInv, TypeOK, ExactPrev, Goto, At, Critical, Over, redis, inputs
<1>1. ASSUME NEW r \in Requests, ReadId(r) PROVE ExactPrev'
  <2>1. prev[r] = top /\ top \in Bid
    BY <1>1 DEF ReadId, FreshPrev, Stages, Stage, Reading
  <2>2. [prev[r] EXCEPT !.id = top.id] = top
    BY <2>1 DEF Bid
  <2> QED
    BY <1>1, <2>2 DEF ReadId, Seen
<1>2. ASSUME NEW r \in Requests, ReadMongo(r) PROVE ExactPrev'
  <2>1. PICK seen \in MongoHighest : Seen(r, seen)
    BY <1>2 DEF ReadMongo
  <2>2. top = NoBid
    BY <1>2 DEF ReadMongo, Mild
  <2>3. seen = NoBid
    BY <2>2, MongoAnswers DEF LeaderInv, StoredBehind, Acknowledged, Behind
  <2> QED
    BY <1>2, <2>1, <2>2, <2>3 DEF ReadMongo, Seen
<1>3. ASSUME NEW r \in Requests,
             ReadNothing(r) \/ DebitReplyLost(r) \/ CommitReplyLost(r)
      PROVE  ExactPrev'
  BY <1>3 DEF ReadNothing, DebitReplyLost, CommitReplyLost, Mild
<1>4. ASSUME NEW r \in Requests, Commit(r) PROVE ExactPrev'
  BY <1>4 DEF Commit, LockInv
<1>5. ASSUME NEW r \in Requests,
             \/ AcquireLock(r) \/ LockBusy(r) \/ ValidateFind(r) \/ ValidateReject(r)
             \/ ValidateUpdate(r) \/ ValidateReplyLost(r) \/ ReadPrice(r)
             \/ ReadBidder(r) \/ Debit(r) \/ DebitRefused(r) \/ CommitRefused(r)
             \/ PublishEvents(r) \/ Unlock(r) \/ Cancel(r)
      PROVE  ExactPrev'
  BY <1>5 DEF AcquireLock, LockBusy, ValidateFind, ValidateReject, ValidateUpdate,
     ValidateReplyLost, ReadPrice, ReadBidder, Debit, DebitRefused, CommitRefused,
     PublishEvents, Unlock, Cancel, CutOff
<1>6. ASSUME NEW r \in Requests,
             \/ Refund(r) \/ RefundFails(r) \/ MarkOutbid(r) \/ InsertBid(r)
             \/ HandleOutbid(r) \/ LoseOutbid(r) \/ LateDebit(r)
      PROVE  ExactPrev'
  BY <1>6 DEF Refund, RefundFails, MarkOutbid, InsertBid, HandleOutbid, LoseOutbid, LateDebit
<1>7. CASE LockExpires \/ EndAuction \/ Crash \/ UNCHANGED vars
  BY <1>7 DEF LockExpires, EndAuction, Crash, CutOff, vars
<1> QED
  BY StepCases, <1>1, <1>2, <1>3, <1>4, <1>5, <1>6, <1>7

\* A step that drops no claim: the leader stays, and a bid that was about to
\* be committed still is, or is to be given back.
NothingDropped ==
    /\ UNCHANGED top
    /\ \A q \in Requests :
          /\ Paid(q)' => Paid(q) \/ pc'[q] \in {"commit", "left"}
          /\ Forfeited(q) => Forfeited(q)'
          /\ pc[q] = "commit" => pc'[q] = "commit" \/ Compensated(q)'
          /\ Compensated(q) => Compensated(q)'
          /\ pc[q] = "publish" \/ q \in outbid \/ OutbidRow(q) \in ledger =>
                /\ prev'[q] = prev[q]
                /\ prev[q] # NoBid =>
                      pc'[q] = "publish" \/ q \in outbid' \/ OutbidRow(q) \in ledger'

LEMMA NothingDroppedStep ==
    ASSUME NoStrandedMoney, NothingDropped
    PROVE  NoStrandedMoney'
<1> SUFFICES ASSUME NEW b \in Requests, Paid(b)'
             PROVE  \/ At(b, "commit")'
                    \/ Leads(b)'
                    \/ Compensated(b)'
                    \/ \E r \in Requests : Displaces(r, b)'
                    \/ Forfeited(b)'
  BY DEF NoStrandedMoney
<1>1. Leads(b)' <=> Leads(b)
  BY DEF NothingDropped, Leads
<1>2. \A r \in Requests : Displaces(r, b) => Displaces(r, b)'
  BY DEF NothingDropped, Displaces, At
<1>3. /\ Paid(b) \/ At(b, "commit")' \/ Forfeited(b)'
      /\ Forfeited(b) => Forfeited(b)'
      /\ At(b, "commit") => At(b, "commit")' \/ Compensated(b)'
      /\ Compensated(b) => Compensated(b)'
  BY DEF NothingDropped, At, Forfeited
<1> QED
  BY <1>1, <1>2, <1>3 DEF NoStrandedMoney

LEMMA StrandedStep ==
    ASSUME Mild
    PROVE  EscrowInv /\ ExactPrev /\ NoStrandedMoney /\ [Next]_vars => NoStrandedMoney'
<1> SUFFICES ASSUME EscrowInv, ExactPrev, NoStrandedMoney, [Next]_vars
             PROVE  NoStrandedMoney'
  OBVIOUS
<1> USE DEF EscrowInv, TypeInv, TypeOK, Stages, Stage, Goto, At, Critical, Over, Ended, Committed, Reading
<1> USE DEF redis, inputs, wallet, async, Paid, Compensated, Forfeited
<1>1. ASSUME NEW r \in Requests, Commit(r) PROVE NoStrandedMoney'
  <2>1. /\ prev[r] = top /\ pc[r] = "commit" /\ pc'[r] = "publish"
        /\ \A q \in Requests : q # r => pc'[q] = pc[q]
        /\ UNCHANGED <<prev, ledger, refunding, outbid>>
    BY <1>1 DEF Commit, ExactPrev
  <2>2. Leads(r)'
    BY <1>1, BidsAreBids DEF Commit, Leads
  <2>3. ASSUME NEW b \in Requests, Paid(b)', b # r
        PROVE  \/ At(b, "commit")'
               \/ Compensated(b)'
               \/ \E q \in Requests : Displaces(q, b)'
               \/ Forfeited(b)'
    <3>1. CASE Leads(b)
      BY <2>1, <3>1 DEF Leads, Displaces
    <3>2. CASE At(b, "commit") \/ Compensated(b) \/ Forfeited(b)
      BY <2>1, <2>3, <3>2
    <3>3. ASSUME NEW q \in Requests, Displaces(q, b) PROVE Displaces(q, b)'
      BY <2>1, <3>3 DEF Displaces
    <3>4. Paid(b)
      BY <2>1, <2>3
    <3> QED
      BY <3>1, <3>2, <3>3, <3>4 DEF NoStrandedMoney
  <2> QED
    BY <2>2, <2>3 DEF NoStrandedMoney
<1>2. ASSUME NEW r \in Requests, Debit(r) \/ LateDebit(r) PROVE NothingDropped
  BY <1>2, RowsDiffer DEF NothingDropped, Debit, LateDebit, Charge
<1>3. ASSUME NEW r \in Requests, Refund(r) PROVE NothingDropped
  BY <1>3, RowsDiffer DEF NothingDropped, Refund, Credit
<1>4. ASSUME NEW r \in Requests, HandleOutbid(r) PROVE NothingDropped
  BY <1>4, RowsDiffer DEF NothingDropped, HandleOutbid, Credit
<1>5. ASSUME NEW r \in Requests,
             \/ AcquireLock(r) \/ LockBusy(r) \/ ValidateFind(r) \/ ValidateReject(r)
             \/ ValidateUpdate(r) \/ ValidateReplyLost(r) \/ DebitRefused(r)
             \/ CommitRefused(r) \/ PublishEvents(r) \/ Unlock(r) \/ Cancel(r)
             \/ MarkOutbid(r) \/ InsertBid(r)
      PROVE  NothingDropped
  BY <1>5 DEF NothingDropped, AcquireLock, LockBusy, ValidateFind, ValidateReject,
     ValidateUpdate, ValidateReplyLost, DebitRefused, CommitRefused, PublishEvents,
     Unlock, Cancel, CutOff, MarkOutbid, InsertBid
<1>6. ASSUME NEW r \in Requests,
             ReadPrice(r) \/ ReadBidder(r) \/ ReadId(r) \/ ReadMongo(r)
      PROVE  NothingDropped
  BY <1>6 DEF NothingDropped, ReadPrice, ReadBidder, ReadId, ReadMongo, Seen
<1>7. ASSUME NEW r \in Requests,
             \/ ReadNothing(r) \/ DebitReplyLost(r) \/ CommitReplyLost(r)
             \/ RefundFails(r) \/ LoseOutbid(r)
      PROVE  FALSE
  BY <1>7 DEF ReadNothing, DebitReplyLost, CommitReplyLost, RefundFails, LoseOutbid, Mild
<1>8. ASSUME Crash PROVE FALSE
  BY <1>8 DEF Crash, Mild
<1>9. ASSUME LockExpires \/ EndAuction \/ UNCHANGED vars PROVE NothingDropped
  BY <1>9 DEF NothingDropped, LockExpires, EndAuction, vars
<1> QED
  BY StepCases, NothingDroppedStep,
     <1>1, <1>2, <1>3, <1>4, <1>5, <1>6, <1>7, <1>8, <1>9

LEMMA MildIsOrderly == ASSUME Mild PROVE Orderly
BY DEF Mild, Orderly

LEMMA ExactPrevHolds ==
    ASSUME Mild
    PROVE  Spec => []ExactPrev
<1>1. Init => ExactPrev
  BY DEF Init, ExactPrev
<1>2. EscrowInv /\ ExactPrev /\ [Next]_vars => ExactPrev'
  BY ExactStep
<1>3. Spec => []EscrowInv
  BY MildIsOrderly, EscrowInvariant
<1> QED
  BY <1>1, <1>2, <1>3, PTL DEF Spec

\* A bid that was charged is about to be committed, leads, or has its refund
\* made or under way, as long as nothing worse happens than that the reply of
\* ValidateAuctionForBid is lost or a caller goes away; and if a caller goes
\* away while she is charged, that charge is the only one left behind.
THEOREM NothingIsStranded ==
    ASSUME Mild
    PROVE  Spec => []NoStrandedMoney
<1>1. Init => NoStrandedMoney
  BY DEF Init, NoStrandedMoney, Paid
<1>2. EscrowInv /\ ExactPrev /\ NoStrandedMoney /\ [Next]_vars => NoStrandedMoney'
  BY StrandedStep
<1>3. Spec => []EscrowInv
  BY MildIsOrderly, EscrowInvariant
<1> QED
  BY <1>1, <1>2, <1>3, ExactPrevHolds, PTL DEF Spec

-----------------------------------------------------------------------------
(* The books                                                               *)

\* The requests that have run: the only ones the books mention.
Started == {r \in Requests : pc[r] # "idle"}

BooksInv == EscrowInv /\ IsFiniteSet(Started)

\* What request r owes to the bidder it has displaced.
Debt == [r \in Requests |-> prev[r].amount]

LEMMA StartedStep == TypeInv /\ IsFiniteSet(Started) /\ [Next]_vars => IsFiniteSet(Started)'
<1> SUFFICES ASSUME TypeInv, IsFiniteSet(Started), [Next]_vars PROVE IsFiniteSet(Started)'
  OBVIOUS
<1> USE DEF TypeInv, TypeOK, Goto, At, Critical, Over
<1>1. ASSUME NEW r \in Requests,
             \/ AcquireLock(r) \/ LockBusy(r) \/ ValidateFind(r) \/ ValidateReject(r)
             \/ ValidateUpdate(r) \/ ValidateReplyLost(r) \/ ReadPrice(r) \/ ReadBidder(r)
             \/ ReadId(r) \/ ReadMongo(r) \/ ReadNothing(r) \/ Debit(r) \/ DebitRefused(r)
             \/ DebitReplyLost(r) \/ Commit(r) \/ CommitRefused(r) \/ CommitReplyLost(r)
             \/ PublishEvents(r) \/ Unlock(r) \/ Cancel(r)
      PROVE  Started' \subseteq Started \union {r}
  BY <1>1 DEF Started, AcquireLock, LockBusy, ValidateFind, ValidateReject, ValidateUpdate,
     ValidateReplyLost, ReadPrice, ReadBidder, ReadId, ReadMongo, ReadNothing, Seen, Debit,
     DebitRefused, DebitReplyLost, Commit, CommitRefused, CommitReplyLost, PublishEvents,
     Unlock, Cancel, CutOff
<1>2. ASSUME NEW r \in Requests,
             \/ Refund(r) \/ RefundFails(r) \/ MarkOutbid(r) \/ InsertBid(r)
             \/ HandleOutbid(r) \/ LoseOutbid(r) \/ LateDebit(r)
      PROVE  Started' \subseteq Started
  BY <1>2 DEF Started, Refund, RefundFails, MarkOutbid, InsertBid, HandleOutbid, LoseOutbid,
     LateDebit
<1>3. ASSUME LockExpires \/ EndAuction \/ Crash \/ UNCHANGED vars
      PROVE  Started' \subseteq Started
  BY <1>3 DEF Started, LockExpires, EndAuction, Crash, CutOff, vars
<1>4. Started' \subseteq Started \/ \E r \in Requests : Started' \subseteq Started \union {r}
  BY StepCases, <1>1, <1>2, <1>3
<1> HIDE DEF Started
<1>5. CASE Started' \subseteq Started
  BY <1>5, FS_Subset
<1>6. ASSUME NEW r \in Requests, Started' \subseteq Started \union {r}
      PROVE  IsFiniteSet(Started')
  <2>1. IsFiniteSet(Started \union {r})
    BY FS_AddElement
  <2> QED
    BY <1>6, <2>1, FS_Subset
<1> QED
  BY <1>4, <1>5, <1>6

\* Both sides of a user's books are finite and their entries are amounts.
LEMMA BooksTypes ==
    ASSUME BooksInv, NEW u \in Users
    PROVE  /\ IsFiniteSet(HeldFor(u)) /\ HeldFor(u) \subseteq Requests
           /\ IsFiniteSet(OwedTo(u)) /\ OwedTo(u) \subseteq Requests
           /\ \A r \in HeldFor(u) : offer[r] \in Nat
           /\ \A r \in OwedTo(u) : Debt[r] \in Nat
<1>1. HeldFor(u) \subseteq Started
  BY DEF HeldFor, Started, BooksInv, EscrowInv, TypeInv, Stages, Stage, Claims, OneClaim,
     Compensated, At, Committed, Ended
<1>2. OwedTo(u) \subseteq Started
  BY DEF OwedTo, Started, BooksInv, EscrowInv, TypeInv, Stages, Stage, At, Ended
<1>3. HeldFor(u) \subseteq Requests /\ OwedTo(u) \subseteq Requests
  BY DEF HeldFor, OwedTo
<1>4. \A r \in Requests : offer[r] \in Nat
  BY AmountAssumption DEF BooksInv, EscrowInv, TypeInv, TypeOK
<1>5. \A r \in OwedTo(u) : Debt[r] \in Nat
  BY DEF OwedTo, Debt, BooksInv, EscrowInv, TypeInv, TypeOK, Bid
<1> QED
  BY <1>1, <1>2, <1>3, <1>4, <1>5, FS_Subset DEF BooksInv

\* The books in terms of Debt, which does not depend on who is owed.
LEMMA BooksNow ==
    ASSUME BooksInv, NEW u \in Users
    PROVE  /\ InPipeline(u) = SumFunctionOnSet(offer, HeldFor(u))
                              + SumFunctionOnSet(Debt, OwedTo(u))
           /\ SumFunctionOnSet(offer, HeldFor(u)) \in Nat
           /\ SumFunctionOnSet(Debt, OwedTo(u)) \in Nat
<1> DEFINE S == HeldFor(u)
           T == OwedTo(u)
           owed == [r \in T |-> prev[r].amount]
<1>1. /\ IsFiniteSet(S) /\ IsFiniteSet(T) /\ T \subseteq Requests
      /\ (\A r \in S : offer[r] \in Nat) /\ (\A r \in T : Debt[r] \in Nat)
  BY BooksTypes
<1>2. \A r \in T : owed[r] = Debt[r]
  BY <1>1 DEF Debt
<1>3. InPipeline(u) = SumFunctionOnSet(offer, S) + SumFunctionOnSet(owed, T)
  BY DEF InPipeline
<1> HIDE DEF S, T, owed
<1>4. SumFunctionOnSet(owed, T) = SumFunctionOnSet(Debt, T)
  BY <1>1, <1>2, SumSame
<1>5. SumFunctionOnSet(offer, S) \in Nat /\ SumFunctionOnSet(Debt, T) \in Nat
  BY <1>1, SumType
<1> QED
  BY <1>3, <1>4, <1>5 DEF S, T

\* The books after a step that leaves S and T on the two sides.
LEMMA BooksAfter ==
    ASSUME NEW u \in Users, NEW S, NEW T, HeldFor(u)' = S, OwedTo(u)' = T,
           IsFiniteSet(T), T \subseteq Requests,
           offer' = offer, \A r \in T : prev'[r] = prev[r]
    PROVE  InPipeline(u)' = SumFunctionOnSet(offer, S) + SumFunctionOnSet(Debt, T)
<1> DEFINE owed == [r \in T |-> prev'[r].amount]
<1>1. \A r \in T : owed[r] = Debt[r]
  BY DEF Debt
<1>2. InPipeline(u)' = SumFunctionOnSet(offer, S) + SumFunctionOnSet(owed, T)
  BY DEF InPipeline
<1> HIDE DEF owed
<1>3. SumFunctionOnSet(owed, T) = SumFunctionOnSet(Debt, T)
  BY <1>1, SumSame
<1> QED
  BY <1>2, <1>3

\* The money of user u, in her wallet and in the pipeline.
Money(u) == balance[u] + InPipeline(u)

LEMMA MoneyIsAmount == BooksInv => \A u \in Users : Money(u) \in Nat
BY BooksNow DEF Money, BooksInv, EscrowInv, TypeInv, TypeOK

\* A step that does not touch the books or the wallets.
BooksKept(u) ==
    /\ UNCHANGED <<offer, balance>>
    /\ HeldFor(u)' = HeldFor(u) /\ OwedTo(u)' = OwedTo(u)
    /\ \A r \in OwedTo(u) : prev'[r] = prev[r]

LEMMA KeptBooks ==
    ASSUME BooksInv, NEW u \in Users, BooksKept(u)
    PROVE  Money(u)' = Money(u)
<1>1. InPipeline(u)' = InPipeline(u)
  BY BooksTypes, BooksNow, BooksAfter DEF BooksKept
<1> QED
  BY <1>1 DEF Money, BooksKept

LEMMA QuietBooks ==
    ASSUME TypeInv, NEW u \in Users, NEW r \in Requests,
           \/ AcquireLock(r) \/ LockBusy(r) \/ ValidateFind(r) \/ ValidateReject(r)
           \/ ValidateUpdate(r) \/ ValidateReplyLost(r) \/ ReadPrice(r) \/ ReadBidder(r)
           \/ ReadId(r) \/ ReadMongo(r) \/ ReadNothing(r) \/ DebitRefused(r) \/ CommitRefused(r)
           \/ PublishEvents(r) \/ Unlock(r) \/ Cancel(r) \/ MarkOutbid(r) \/ InsertBid(r)
    PROVE  BooksKept(u)
<1> USE DEF TypeInv, TypeOK, Stages, Stage, Goto, At, Critical, Over, Ended, Committed, Reading, redis,
            inputs, wallet, async, Compensated, BooksKept, HeldFor, OwedTo, Leads
<1>1. ASSUME \/ AcquireLock(r) \/ LockBusy(r) \/ ValidateFind(r) \/ ValidateReject(r)
             \/ ValidateUpdate(r) \/ ValidateReplyLost(r) \/ DebitRefused(r)
             \/ Unlock(r) \/ MarkOutbid(r) \/ InsertBid(r)
      PROVE  BooksKept(u)
  BY <1>1 DEF AcquireLock, LockBusy, ValidateFind, ValidateReject, ValidateUpdate,
     ValidateReplyLost, DebitRefused, Unlock, MarkOutbid, InsertBid
<1>2. ASSUME ReadPrice(r) \/ ReadBidder(r) \/ ReadId(r) \/ ReadMongo(r) \/ ReadNothing(r)
      PROVE  BooksKept(u)
  BY <1>2 DEF ReadPrice, ReadBidder, ReadId, ReadMongo, ReadNothing, Seen
<1>3. ASSUME CommitRefused(r) \/ Cancel(r) PROVE BooksKept(u)
  BY <1>3 DEF CommitRefused, Cancel, CutOff
<1>4. ASSUME PublishEvents(r) PROVE BooksKept(u)
  BY <1>4 DEF PublishEvents
<1> QED
  BY <1>1, <1>2, <1>3, <1>4

\* A step that forgets entries of the books.
BooksShrink(u) ==
    /\ UNCHANGED <<offer, balance>>
    /\ HeldFor(u)' \subseteq HeldFor(u) /\ OwedTo(u)' \subseteq OwedTo(u)
    /\ \A r \in OwedTo(u)' : prev'[r] = prev[r]

LEMMA ShrunkBooks ==
    ASSUME BooksInv, NEW u \in Users, BooksShrink(u), balance[u] \in Nat
    PROVE  Money(u)' <= Money(u)
<1> DEFINE S == HeldFor(u)
           T == OwedTo(u)
           S2 == HeldFor(u)'
           T2 == OwedTo(u)'
<1>1. /\ IsFiniteSet(S) /\ IsFiniteSet(T) /\ T \subseteq Requests
      /\ (\A r \in S : offer[r] \in Nat) /\ (\A r \in T : Debt[r] \in Nat)
  BY BooksTypes
<1>2. S2 \subseteq S /\ T2 \subseteq T /\ IsFiniteSet(S2) /\ IsFiniteSet(T2)
  BY <1>1, FS_Subset DEF BooksShrink
<1>3. InPipeline(u)' = SumFunctionOnSet(offer, S2) + SumFunctionOnSet(Debt, T2)
  BY <1>1, <1>2, BooksAfter DEF BooksShrink
<1>4. InPipeline(u) = SumFunctionOnSet(offer, S) + SumFunctionOnSet(Debt, T)
  BY BooksNow
<1> HIDE DEF S, T, S2, T2
<1>5. /\ SumFunctionOnSet(offer, S2) <= SumFunctionOnSet(offer, S)
      /\ SumFunctionOnSet(Debt, T2) <= SumFunctionOnSet(Debt, T)
  BY <1>1, <1>2, SumPart
<1>6. /\ SumFunctionOnSet(offer, S2) \in Nat /\ SumFunctionOnSet(offer, S) \in Nat
      /\ SumFunctionOnSet(Debt, T2) \in Nat /\ SumFunctionOnSet(Debt, T) \in Nat
  BY <1>1, <1>2, SumType
<1> QED
  BY <1>3, <1>4, <1>5, <1>6 DEF Money, BooksShrink

\* What is charged is held until the script answers.
LEMMA DebitBooks ==
    ASSUME BooksInv, NEW u \in Users, NEW r \in Requests, Debit(r)
    PROVE  Money(u)' = Money(u)
<1> DEFINE S == HeldFor(u)
           T == OwedTo(u)
<1> USE DEF BooksInv, EscrowInv, TypeInv, TypeOK, At, Goto
<1>1. /\ IsFiniteSet(S) /\ IsFiniteSet(T) /\ T \subseteq Requests
      /\ (\A q \in S : offer[q] \in Nat) /\ offer[r] \in Nat
  BY BooksTypes, AmountAssumption
<1>2. /\ offer' = offer /\ prev' = prev /\ OwedTo(u)' = T
      /\ balance' = [balance EXCEPT ![bidder[r]] = @ - offer[r]]
      /\ balance[bidder[r]] \in Nat /\ balance[u] \in Nat
  BY DEF Debit, Charge, OwedTo, inputs, async, redis
<1>3. InPipeline(u) = SumFunctionOnSet(offer, S) + SumFunctionOnSet(Debt, T)
      /\ SumFunctionOnSet(offer, S) \in Nat /\ SumFunctionOnSet(Debt, T) \in Nat
  BY BooksNow
<1>4. CASE bidder[r] = u
  <2>1. r \notin S
    BY DEF Debit, HeldFor, Claims, OneClaim, Stages, Stage, Committed, Ended, Compensated
  <2>2. HeldFor(u)' = S \union {r}
    BY <1>4 DEF Debit, HeldFor, Leads, inputs, async, redis
  <2>3. InPipeline(u)' = SumFunctionOnSet(offer, S \union {r}) + SumFunctionOnSet(Debt, T)
    BY <1>1, <1>2, <2>2, BooksAfter
  <2> HIDE DEF S, T
  <2>4. SumFunctionOnSet(offer, S \union {r}) = offer[r] + SumFunctionOnSet(offer, S)
    BY <1>1, <2>1, SumAdd
  <2>5. balance'[u] = balance[u] - offer[r]
    BY <1>2, <1>4
  <2> QED
    BY <1>1, <1>2, <1>3, <2>3, <2>4, <2>5 DEF Money
<1>5. CASE bidder[r] # u
  <2>1. HeldFor(u)' = S
    BY <1>5 DEF Debit, HeldFor, Leads, inputs, async, redis
  <2>2. InPipeline(u)' = InPipeline(u)
    BY <1>1, <1>2, <1>3, <2>1, BooksAfter
  <2>3. balance'[u] = balance[u]
    BY <1>2, <1>5
  <2> QED
    BY <2>2, <2>3 DEF Money
<1> QED
  BY <1>4, <1>5

\* A charge whose reply is lost is not in the books.
LEMMA DebitLostBooks ==
    ASSUME BooksInv, NEW u \in Users, NEW r \in Requests, DebitReplyLost(r)
    PROVE  Money(u)' <= Money(u)
<1> USE DEF BooksInv, EscrowInv, TypeInv, TypeOK, At, Goto
<1>1. /\ offer' = offer /\ prev' = prev
      /\ HeldFor(u)' = HeldFor(u) /\ OwedTo(u)' = OwedTo(u)
  BY DEF DebitReplyLost, HeldFor, OwedTo, Leads, inputs, async, redis
<1>2. balance[u] \in Nat /\ balance[bidder[r]] \in Nat /\ offer[r] \in Nat
  BY AmountAssumption
<1>3. balance'[u] \in {balance[u], balance[u] - offer[r]}
  BY <1>2 DEF DebitReplyLost, Charge, wallet
<1>4. InPipeline(u)' = InPipeline(u) /\ InPipeline(u) \in Nat
  BY <1>1, BooksTypes, BooksNow, BooksAfter
<1> QED
  BY <1>2, <1>3, <1>4 DEF Money

\* The new leader's money is held as it was; the old one's is owed instead,
\* or forgotten when the placement has not seen who leads.
LEMMA CommitBooks ==
    ASSUME BooksInv, NEW u \in Users, NEW r \in Requests, Commit(r)
    PROVE  /\ Money(u)' <= Money(u)
           /\ prev[r] = top => Money(u)' = Money(u)
<1> DEFINE S == HeldFor(u)
           T == OwedTo(u)
           S2 == HeldFor(u)'
           T2 == OwedTo(u)'
<1> USE DEF BooksInv, EscrowInv, TypeInv, TypeOK, At, Goto
<1>1. /\ IsFiniteSet(S) /\ IsFiniteSet(T) /\ T \subseteq Requests /\ S \subseteq Requests
      /\ (\A q \in S : offer[q] \in Nat) /\ (\A q \in T : Debt[q] \in Nat)
  BY BooksTypes
<1>2. /\ InPipeline(u) = SumFunctionOnSet(offer, S) + SumFunctionOnSet(Debt, T)
      /\ SumFunctionOnSet(offer, S) \in Nat /\ SumFunctionOnSet(Debt, T) \in Nat
  BY BooksNow
<1>3. /\ UNCHANGED <<offer, prev, balance, bidder, refunding, outbid>>
      /\ balance[u] \in Nat /\ pc[r] = "commit" /\ pc'[r] = "publish"
      /\ \A q \in Requests : q # r => pc'[q] = pc[q]
      /\ \A q \in Requests : Leads(q)' <=> q = r
  BY BidsAreBids DEF Commit, inputs, wallet, Leads
<1>4. prev[r] \in {top, NoBid}
  BY <1>3 DEF FreshPrev
<1>5. /\ r \notin refunding /\ r \notin outbid /\ ~Leads(r)
  BY <1>3 DEF Stages, Stage, Claims, OneClaim, Committed, Ended, Compensated
<1>6. ASSUME top # NoBid
      PROVE  /\ top.id \in Requests /\ top.id # r /\ Leads(top.id)
             /\ top.user = bidder[top.id] /\ top.amount = offer[top.id]
             /\ pc[top.id] # "commit" /\ top.id \notin refunding
             /\ offer[top.id] \in Nat
  <2>1. top \in Bid /\ top.id \in Requests /\ Leads(top.id)
    BY <1>6 DEF Bid, Leads
  <2>2. top = BidOf(top.id)
    BY <1>6 DEF LeaderInv, LeaderPaid
  <2>3. pc[top.id] \in Committed /\ ~Compensated(top.id)
    BY <2>1 DEF Claims, OneClaim
  <2>4. /\ bidder[top.id] \in Users /\ offer[top.id] \in Nat
        /\ BidOf(top.id).user = bidder[top.id] /\ BidOf(top.id).amount = offer[top.id]
    BY <2>1, BidsAreBids, AmountAssumption
  <2>5. pc[top.id] # "commit" /\ top.id # r /\ top.id \notin refunding
    BY <1>3, <2>3 DEF Committed, Ended, Compensated
  <2> QED
    BY <2>1, <2>2, <2>4, <2>5
<1>7. \A q \in Requests : Leads(q) => top # NoBid /\ q = top.id
  BY DEF Leads
<1>8. S2 = IF top # NoBid /\ top.user = u THEN S \ {top.id} ELSE S
  BY <1>3, <1>5, <1>6, <1>7 DEF HeldFor
<1>9. T2 = IF prev[r] # NoBid /\ prev[r].user = u THEN T \union {r} ELSE T
  BY <1>3, <1>5 DEF OwedTo
<1>10. r \notin T
  BY <1>3, <1>5 DEF OwedTo
<1>11. IsFiniteSet(S2) /\ IsFiniteSet(T2) /\ T2 \subseteq Requests
  <2>1. S2 \subseteq S /\ T2 \subseteq T \union {r}
    BY <1>8, <1>9
  <2>2. IsFiniteSet(T \union {r})
    BY <1>1, FS_AddElement
  <2> QED
    BY <1>1, <2>1, <2>2, FS_Subset
<1>12. InPipeline(u)' = SumFunctionOnSet(offer, S2) + SumFunctionOnSet(Debt, T2)
  BY <1>3, <1>11, BooksAfter
<1>13. top # NoBid /\ top.user = u => top.id \in S
  BY <1>6 DEF HeldFor
<1>14. prev[r] # NoBid => Debt[r] = top.amount /\ prev[r] = top
  BY <1>4 DEF Debt
<1> HIDE DEF S, T, S2, T2, BooksInv
<1>15. CASE top # NoBid /\ top.user = u
  <2> DEFINE o == top.id
  <2>1. o \in S /\ S2 = S \ {o}
    BY <1>8, <1>13, <1>15
  <2> HIDE DEF o
  <2>2. SumFunctionOnSet(offer, S) = offer[o] + SumFunctionOnSet(offer, S2)
    BY <1>1, <2>1, SumRemove
  <2>3. SumFunctionOnSet(offer, S2) \in Nat
    BY <1>1, <1>11, <2>1, SumType
  <2>4. offer[o] = top.amount /\ offer[o] \in Nat
    BY <1>6, <1>15 DEF o
  <2>5. CASE prev[r] = NoBid
    <3>1. T2 = T
      BY <1>9, <2>5
    <3>2. prev[r] # top
      BY <1>15, <2>5
    <3> QED
      BY <1>2, <1>3, <1>12, <2>2, <2>3, <2>4, <3>1, <3>2 DEF Money
  <2>6. CASE prev[r] # NoBid
    <3>1. T2 = T \union {r} /\ Debt[r] = top.amount
      BY <1>9, <1>14, <1>15, <2>6
    <3>2. SumFunctionOnSet(Debt, T2) = top.amount + SumFunctionOnSet(Debt, T)
      BY <1>1, <1>10, <2>4, <3>1, SumAdd
    <3> QED
      BY <1>2, <1>3, <1>12, <2>2, <2>3, <2>4, <3>2 DEF Money
  <2> QED
    BY <2>5, <2>6
<1>16. CASE ~(top # NoBid /\ top.user = u)
  <2>1. S2 = S /\ T2 = T
    BY <1>8, <1>9, <1>14, <1>16
  <2> QED
    BY <1>2, <1>3, <1>12, <2>1 DEF Money
<1> QED
  BY <1>15, <1>16

\* A refusal by Redis is paid back from the books.
LEMMA RefundBooks ==
    ASSUME BooksInv, NEW u \in Users, NEW r \in Requests, Refund(r)
    PROVE  Money(u)' = Money(u)
<1> DEFINE S == HeldFor(u)
           T == OwedTo(u)
<1> USE DEF BooksInv, EscrowInv, TypeInv, TypeOK, At, Goto
<1>1. /\ IsFiniteSet(S) /\ IsFiniteSet(T) /\ T \subseteq Requests
      /\ (\A q \in S : offer[q] \in Nat) /\ offer[r] \in Nat
  BY BooksTypes, AmountAssumption
<1>2. /\ UNCHANGED <<offer, prev, bidder, pc, top>> /\ OwedTo(u)' = T
      /\ r \in refunding /\ refunding' = refunding \ {r}
      /\ balance' = [balance EXCEPT ![bidder[r]] = @ + offer[r]]
      /\ balance[u] \in Nat
  BY DEF Refund, Credit, OwedTo, inputs, redis
<1>3. /\ InPipeline(u) = SumFunctionOnSet(offer, S) + SumFunctionOnSet(Debt, T)
      /\ SumFunctionOnSet(offer, S) \in Nat /\ SumFunctionOnSet(Debt, T) \in Nat
  BY BooksNow
<1>4. CASE bidder[r] = u
  <2>1. pc[r] # "commit" /\ ~Leads(r)
    BY <1>2 DEF Stages, Stage, Compensated, Ended, Claims, OneClaim
  <2>2. HeldFor(u)' = S \ {r} /\ r \in S
    BY <1>2, <1>4, <2>1 DEF HeldFor, Leads
  <2>3. InPipeline(u)' = SumFunctionOnSet(offer, S \ {r}) + SumFunctionOnSet(Debt, T)
    BY <1>1, <1>2, <2>2, BooksAfter
  <2>4. IsFiniteSet(S \ {r}) /\ \A q \in S \ {r} : offer[q] \in Nat
    BY <1>1, FS_RemoveElement
  <2> HIDE DEF S, T
  <2>5. SumFunctionOnSet(offer, S) = offer[r] + SumFunctionOnSet(offer, S \ {r})
    BY <1>1, <2>2, SumRemove
  <2>6. SumFunctionOnSet(offer, S \ {r}) \in Nat
    BY <2>4, SumType
  <2>7. balance'[u] = balance[u] + offer[r]
    BY <1>2, <1>4
  <2> QED
    BY <1>1, <1>2, <1>3, <2>3, <2>5, <2>6, <2>7 DEF Money
<1>5. CASE bidder[r] # u
  <2>1. HeldFor(u)' = S
    BY <1>2, <1>5 DEF HeldFor, Leads
  <2>2. InPipeline(u)' = InPipeline(u)
    BY <1>1, <1>2, <1>3, <2>1, BooksAfter
  <2>3. balance'[u] = balance[u]
    BY <1>2, <1>5
  <2> QED
    BY <2>2, <2>3 DEF Money
<1> QED
  BY <1>4, <1>5

\* What a displaced bidder is owed is paid out of the books.
LEMMA OutbidBooks ==
    ASSUME BooksInv, NEW u \in Users, NEW r \in Requests, HandleOutbid(r)
    PROVE  Money(u)' = Money(u)
<1> DEFINE S == HeldFor(u)
           T == OwedTo(u)
<1> USE DEF BooksInv, EscrowInv, TypeInv, TypeOK, At, Goto
<1>1. /\ IsFiniteSet(S) /\ IsFiniteSet(T) /\ T \subseteq Requests
      /\ \A q \in T : Debt[q] \in Nat
  BY BooksTypes
<1>2. /\ UNCHANGED <<offer, prev, bidder, pc, top, refunding>> /\ HeldFor(u)' = S
      /\ r \in outbid /\ outbid' = outbid \ {r}
      /\ balance' = [balance EXCEPT ![prev[r].user] = @ + prev[r].amount]
      /\ balance[u] \in Nat
  BY DEF HandleOutbid, Credit, HeldFor, Leads, inputs, redis
<1>3. /\ InPipeline(u) = SumFunctionOnSet(offer, S) + SumFunctionOnSet(Debt, T)
      /\ SumFunctionOnSet(offer, S) \in Nat /\ SumFunctionOnSet(Debt, T) \in Nat
  BY BooksNow
<1>4. prev[r] # NoBid /\ prev[r] \in Bid /\ pc[r] # "publish"
  BY <1>2 DEF Stages, Stage, Ended
<1>5. Debt[r] = prev[r].amount /\ prev[r].user \in Users /\ prev[r].amount \in Nat
  BY <1>4 DEF Debt, Bid
<1>6. CASE prev[r].user = u
  <2>1. OwedTo(u)' = T \ {r} /\ r \in T
    BY <1>2, <1>4, <1>6 DEF OwedTo
  <2>2. IsFiniteSet(T \ {r}) /\ T \ {r} \subseteq Requests /\ \A q \in T \ {r} : Debt[q] \in Nat
    BY <1>1, FS_RemoveElement
  <2>3. InPipeline(u)' = SumFunctionOnSet(offer, S) + SumFunctionOnSet(Debt, T \ {r})
    BY <1>2, <2>1, <2>2, BooksAfter
  <2> HIDE DEF S, T
  <2>4. SumFunctionOnSet(Debt, T) = Debt[r] + SumFunctionOnSet(Debt, T \ {r})
    BY <1>1, <2>1, SumRemove
  <2>5. SumFunctionOnSet(Debt, T \ {r}) \in Nat
    BY <2>2, SumType
  <2>6. balance'[u] = balance[u] + prev[r].amount
    BY <1>2, <1>6
  <2> QED
    BY <1>2, <1>3, <1>5, <2>3, <2>4, <2>5, <2>6 DEF Money
<1>7. CASE prev[r].user # u
  <2>1. OwedTo(u)' = T
    BY <1>2, <1>7 DEF OwedTo
  <2>2. InPipeline(u)' = InPipeline(u)
    BY <1>1, <1>2, <1>3, <2>1, BooksAfter
  <2>3. balance'[u] = balance[u]
    BY <1>2, <1>7
  <2> QED
    BY <2>2, <2>3 DEF Money
<1> QED
  BY <1>6, <1>7

LEMMA LossyBooks ==
    ASSUME TypeInv, NEW u \in Users,
           Crash \/ \E r \in Requests : RefundFails(r) \/ LoseOutbid(r)
    PROVE  BooksShrink(u)
<1> USE DEF TypeInv, TypeOK, At, BooksShrink, HeldFor, OwedTo, Leads, inputs, redis, wallet,
            async, Critical
<1>1. CASE Crash
  BY <1>1 DEF Crash, CutOff
<1>2. ASSUME NEW r \in Requests, RefundFails(r) PROVE BooksShrink(u)
  BY <1>2 DEF RefundFails
<1>3. ASSUME NEW r \in Requests, LoseOutbid(r) PROVE BooksShrink(u)
  BY <1>3 DEF LoseOutbid
<1> QED
  BY <1>1, <1>2, <1>3

LEMMA StillBooks ==
    ASSUME TypeInv, NEW u \in Users, LockExpires \/ EndAuction \/ UNCHANGED vars
    PROVE  BooksKept(u)
BY DEF BooksKept, HeldFor, OwedTo, Leads, At, LockExpires, EndAuction, inputs, redis,
   wallet, async, vars

\* What user u was charged as she left.
Lost(u) == SumFunctionOnSet(offer, ForfeitedBy(u))

LEMMA LostTypes ==
    ASSUME BooksInv, NEW u \in Users
    PROVE  /\ IsFiniteSet(ForfeitedBy(u)) /\ ForfeitedBy(u) \subseteq Requests
           /\ \A r \in ForfeitedBy(u) : offer[r] \in Nat
           /\ Lost(u) \in Nat
<1> DEFINE S == ForfeitedBy(u)
<1>1. S \subseteq Started /\ S \subseteq Requests
  BY DEF ForfeitedBy, Forfeited, Started, At
<1>2. IsFiniteSet(S)
  BY <1>1, FS_Subset DEF BooksInv
<1>3. \A r \in S : offer[r] \in Nat
  BY <1>1, AmountAssumption DEF BooksInv, EscrowInv, TypeInv, TypeOK
<1>4. Lost(u) = SumFunctionOnSet(offer, S)
  BY DEF Lost
<1> HIDE DEF S
<1>5. SumFunctionOnSet(offer, S) \in Nat
  BY <1>2, <1>3, SumType
<1> QED
  BY <1>1, <1>2, <1>3, <1>4, <1>5 DEF S

\* Whoever has left stays away, and no step but LateDebit charges her.
LEMMA LostKept ==
    ASSUME TypeInv, [Next]_vars, \A r \in Requests : ~LateDebit(r), NEW u \in Users
    PROVE  Lost(u)' = Lost(u)
<1> SUFFICES UNCHANGED offer /\ ForfeitedBy(u)' = ForfeitedBy(u)
  BY DEF Lost
<1> USE DEF TypeInv, TypeOK, Stages, Stage, Goto, At, Critical, Over, Ended, Committed,
            Paid, Forfeited, ForfeitedBy, redis, inputs, wallet, async
<1>1. ASSUME NEW r \in Requests,
             \/ AcquireLock(r) \/ LockBusy(r) \/ ValidateFind(r) \/ ValidateReject(r)
             \/ ValidateUpdate(r) \/ ValidateReplyLost(r)
      PROVE  UNCHANGED offer /\ ForfeitedBy(u)' = ForfeitedBy(u)
  BY <1>1 DEF AcquireLock, LockBusy, ValidateFind, ValidateReject, ValidateUpdate,
     ValidateReplyLost
<1>1a. ASSUME NEW r \in Requests,
              \/ ReadPrice(r) \/ ReadBidder(r) \/ ReadId(r) \/ ReadMongo(r) \/ ReadNothing(r)
       PROVE  UNCHANGED offer /\ ForfeitedBy(u)' = ForfeitedBy(u)
  BY <1>1a DEF ReadPrice, ReadBidder, ReadId, ReadMongo, ReadNothing, Seen
<1>1b. ASSUME NEW r \in Requests,
              \/ DebitRefused(r) \/ Commit(r) \/ CommitRefused(r) \/ CommitReplyLost(r)
              \/ PublishEvents(r) \/ Unlock(r)
       PROVE  UNCHANGED offer /\ ForfeitedBy(u)' = ForfeitedBy(u)
  BY <1>1b DEF DebitRefused, Commit, CommitRefused, CommitReplyLost, PublishEvents, Unlock
<1>1c. ASSUME NEW r \in Requests, Cancel(r)
       PROVE  UNCHANGED offer /\ ForfeitedBy(u)' = ForfeitedBy(u)
  BY <1>1c DEF Cancel, CutOff
<1>2. ASSUME NEW r \in Requests, Debit(r) \/ DebitReplyLost(r)
      PROVE  UNCHANGED offer /\ ForfeitedBy(u)' = ForfeitedBy(u)
  <2>1. /\ UNCHANGED <<bidder, offer>>
        /\ pc[r] # "left" /\ pc'[r] # "left"
        /\ \A q \in Requests \ {r} : pc'[q] = pc[q]
        /\ ledger' \in {ledger, ledger \union {DebitRow(r)}}
    BY <1>2 DEF Debit, DebitReplyLost, Charge
  <2>2. \A q \in Requests : Forfeited(q)' <=> Forfeited(q)
    BY <2>1, RowsDiffer DEF Forfeited, Paid
  <2> QED
    BY <2>1, <2>2 DEF ForfeitedBy
<1>3. ASSUME NEW r \in Requests,
             \/ Refund(r) \/ RefundFails(r) \/ MarkOutbid(r) \/ InsertBid(r)
             \/ HandleOutbid(r) \/ LoseOutbid(r)
      PROVE  UNCHANGED offer /\ ForfeitedBy(u)' = ForfeitedBy(u)
  BY <1>3, RowsDiffer
  DEF Refund, RefundFails, MarkOutbid, InsertBid, HandleOutbid, LoseOutbid, Credit
<1>4. ASSUME LockExpires \/ EndAuction \/ Crash \/ UNCHANGED vars
      PROVE  UNCHANGED offer /\ ForfeitedBy(u)' = ForfeitedBy(u)
  BY <1>4 DEF LockExpires, EndAuction, Crash, CutOff, vars
<1> QED
  BY StepCases, <1>1, <1>1a, <1>1b, <1>1c, <1>2, <1>3, <1>4

\* A charge that arrives when its request is gone leaves the books, and is on
\* the list of what was lost that way.
LEMMA LateDebitBooks ==
    ASSUME BooksInv, NEW u \in Users, NEW r \in Requests, LateDebit(r)
    PROVE  /\ Money(u)' <= Money(u)
           /\ Money(u)' + Lost(u)' = Money(u) + Lost(u)
<1> DEFINE S == ForfeitedBy(u)
<1> USE DEF BooksInv, EscrowInv, TypeInv, TypeOK, At
<1>1. /\ offer' = offer /\ prev' = prev /\ bidder' = bidder /\ pc' = pc
      /\ HeldFor(u)' = HeldFor(u) /\ OwedTo(u)' = OwedTo(u)
  BY DEF LateDebit, HeldFor, OwedTo, Leads, inputs, async, redis
<1>2. /\ balance[u] \in Nat /\ balance[bidder[r]] \in Nat /\ offer[r] \in Nat
      /\ balance' = [balance EXCEPT ![bidder[r]] = @ - offer[r]]
  BY AmountAssumption DEF LateDebit, Charge
<1>3. InPipeline(u)' = InPipeline(u) /\ InPipeline(u) \in Nat
  BY <1>1, BooksTypes, BooksNow, BooksAfter
<1>4. \A q \in Requests : Forfeited(q)' <=> Forfeited(q) \/ q = r
  BY <1>1, RowsDiffer DEF LateDebit, Charge, Forfeited, Paid
<1>5. ~Forfeited(r)
  BY DEF LateDebit, Forfeited
<1>6. IsFiniteSet(S) /\ S \subseteq Requests /\ (\A q \in S : offer[q] \in Nat) /\ Lost(u) \in Nat
  BY LostTypes
<1>7. CASE bidder[r] = u
  <2>1. ForfeitedBy(u)' = S \union {r} /\ r \notin S
    BY <1>1, <1>4, <1>5, <1>7 DEF ForfeitedBy
  <2>2. Lost(u)' = SumFunctionOnSet(offer, S \union {r}) /\ Lost(u) = SumFunctionOnSet(offer, S)
    BY <1>1, <2>1 DEF Lost
  <2> HIDE DEF S
  <2>3. SumFunctionOnSet(offer, S \union {r}) = offer[r] + SumFunctionOnSet(offer, S)
    BY <1>2, <1>6, <2>1, SumAdd
  <2>4. balance'[u] = balance[u] - offer[r]
    BY <1>2, <1>7
  <2> QED
    BY <1>2, <1>3, <1>6, <2>2, <2>3, <2>4 DEF Money
<1>8. CASE bidder[r] # u
  <2>1. ForfeitedBy(u)' = S
    BY <1>1, <1>4, <1>8 DEF ForfeitedBy
  <2>2. Lost(u)' = Lost(u)
    BY <1>1, <2>1 DEF Lost
  <2>3. balance'[u] = balance[u]
    BY <1>2, <1>8
  <2> QED
    BY <1>2, <1>3, <2>2, <2>3 DEF Money
<1> QED
  BY <1>7, <1>8

\* Steps that cannot lose money do not change what a user has, but for the
\* charge of a request that is gone.
LEMMA MoneyKept ==
    ASSUME Mild, BooksInv, ExactPrev, [Next]_vars, NEW u \in Users,
           \A r \in Requests : ~LateDebit(r)
    PROVE  Money(u)' = Money(u)
<1>1. TypeInv
  BY DEF BooksInv, EscrowInv
<1>2. ASSUME NEW r \in Requests, Commit(r) PROVE Money(u)' = Money(u)
  <2>1. prev[r] = top
    BY <1>2 DEF Commit, ExactPrev, At
  <2> QED
    BY <1>2, <2>1, CommitBooks
<1>3. ASSUME NEW r \in Requests,
             DebitReplyLost(r) \/ CommitReplyLost(r) \/ RefundFails(r) \/ LoseOutbid(r)
      PROVE  FALSE
  BY <1>3 DEF DebitReplyLost, CommitReplyLost, RefundFails, LoseOutbid, Mild
<1>4. ASSUME Crash PROVE FALSE
  BY <1>4 DEF Crash, Mild
<1>5. ASSUME LockExpires \/ EndAuction \/ UNCHANGED vars PROVE BooksKept(u)
  BY <1>1, <1>5, StillBooks
<1> QED
  BY StepCases, QuietBooks, KeptBooks, DebitBooks, RefundBooks, OutbidBooks,
     <1>1, <1>2, <1>3, <1>4, <1>5

\* No step gives a user more than she has.
LEMMA MoneyFalls ==
    ASSUME Orderly, BooksInv, [Next]_vars, NEW u \in Users
    PROVE  Money(u)' <= Money(u)
<1>1. TypeInv /\ balance[u] \in Nat /\ Money(u) \in Nat
  BY MoneyIsAmount DEF BooksInv, EscrowInv, TypeInv, TypeOK
<1>2. ASSUME NEW r \in Requests, Commit(r) \/ DebitReplyLost(r) \/ LateDebit(r)
      PROVE  Money(u)' <= Money(u)
  BY <1>2, CommitBooks, DebitLostBooks, LateDebitBooks
<1>3. ASSUME Crash \/ \E r \in Requests : RefundFails(r) \/ LoseOutbid(r)
      PROVE  Money(u)' <= Money(u)
  BY <1>1, <1>3, LossyBooks, ShrunkBooks
<1>4. ASSUME NEW r \in Requests, Debit(r) \/ Refund(r) \/ HandleOutbid(r)
      PROVE  Money(u)' = Money(u)
  BY <1>4, DebitBooks, RefundBooks, OutbidBooks
<1>5. ASSUME LockExpires \/ EndAuction \/ UNCHANGED vars PROVE Money(u)' = Money(u)
  BY <1>1, <1>5, StillBooks, KeptBooks
<1>6. ASSUME NEW r \in Requests, CommitReplyLost(r) PROVE FALSE
  BY <1>6 DEF CommitReplyLost, Orderly
<1>7. ASSUME NEW r \in Requests,
             \/ AcquireLock(r) \/ LockBusy(r) \/ ValidateFind(r) \/ ValidateReject(r)
             \/ ValidateUpdate(r) \/ ValidateReplyLost(r) \/ ReadPrice(r) \/ ReadBidder(r)
             \/ ReadId(r) \/ ReadMongo(r) \/ ReadNothing(r) \/ DebitRefused(r)
             \/ CommitRefused(r)
             \/ PublishEvents(r) \/ Unlock(r) \/ Cancel(r) \/ MarkOutbid(r) \/ InsertBid(r)
      PROVE  Money(u)' = Money(u)
  BY <1>1, <1>7, QuietBooks, KeptBooks
<1>8. Money(u)' = Money(u) => Money(u)' <= Money(u)
  BY <1>1
<1> QED
  BY StepCases, <1>2, <1>3, <1>4, <1>5, <1>6, <1>7, <1>8

LEMMA InitBooks ==
    Init => /\ IsFiniteSet(Started)
            /\ \A u \in Users : Money(u) = InitialBalance /\ Lost(u) = 0
<1> SUFFICES ASSUME Init
             PROVE  /\ IsFiniteSet(Started)
                    /\ \A u \in Users : Money(u) = InitialBalance /\ Lost(u) = 0
  OBVIOUS
<1>1. IsFiniteSet(Started)
  <2>1. Started = {}
    BY DEF Init, Started
  <2> QED
    BY <2>1, FS_EmptySet
<1>2. ASSUME NEW u \in Users PROVE Money(u) = InitialBalance /\ Lost(u) = 0
  <2>1. /\ HeldFor(u) = {} /\ OwedTo(u) = {} /\ ForfeitedBy(u) = {}
        /\ balance[u] = InitialBalance
    BY <1>2 DEF Init, HeldFor, OwedTo, ForfeitedBy, Forfeited, Leads, At
  <2>2. \A f : SumFunctionOnSet(f, {}) = 0
    BY SumEmpty
  <2>3. InPipeline(u) = 0
    BY <2>1, <2>2 DEF InPipeline
  <2> QED
    BY <2>1, <2>2, <2>3, BalanceAssumption DEF Money, Lost
<1> QED
  BY <1>1, <1>2

LEMMA BooksInvHolds ==
    ASSUME Orderly
    PROVE  Spec => []BooksInv
<1>1. Init => IsFiniteSet(Started)
  BY InitBooks
<1>2. EscrowInv /\ IsFiniteSet(Started) /\ [Next]_vars => IsFiniteSet(Started)'
  BY StartedStep DEF EscrowInv
<1> QED
  BY <1>1, <1>2, EscrowInvariant, PTL DEF Spec, BooksInv

\* What a user holds, plus what the pipeline holds for her or owes to her, is
\* what she started with, less what she was charged as she left: every refund
\* has the payee and the amount of the bid that it refunds, whoever bids what,
\* in whatever order.
THEOREM MoneyIsConserved ==
    ASSUME Mild
    PROVE  Spec => []MoneyConserved
<1>1. Init => MoneyConserved
  BY InitBooks, BalanceAssumption DEF MoneyConserved, Money, Lost
<1>2. BooksInv /\ ExactPrev /\ MoneyConserved /\ [Next]_vars => MoneyConserved'
  <2> SUFFICES ASSUME BooksInv, ExactPrev, MoneyConserved, [Next]_vars, NEW u \in Users
               PROVE  Money(u)' + Lost(u)' = Money(u) + Lost(u)
    BY DEF MoneyConserved, Money, Lost
  <2>1. CASE \A r \in Requests : ~LateDebit(r)
    BY <2>1, MoneyKept, LostKept DEF BooksInv, EscrowInv
  <2>2. ASSUME NEW r \in Requests, LateDebit(r)
        PROVE  Money(u)' + Lost(u)' = Money(u) + Lost(u)
    BY <2>2, LateDebitBooks
  <2> QED
    BY <2>1, <2>2
<1>3. Spec => []BooksInv
  BY MildIsOrderly, BooksInvHolds
<1> QED
  BY <1>1, <1>2, <1>3, ExactPrevHolds, PTL DEF Spec

\* Lost replies, failed refunds, lost events and crashes lose money but never
\* create it.
THEOREM MoneyIsNotCreated ==
    ASSUME Orderly
    PROVE  Spec => []NoMoneyCreated
<1>1. Init => NoMoneyCreated
  BY InitBooks, BalanceAssumption DEF NoMoneyCreated, Money
<1>2. (BooksInv => \A u \in Users : Money(u) \in Nat)'
  BY MoneyIsAmount, PTL
<1>3. BooksInv /\ BooksInv' /\ NoMoneyCreated /\ [Next]_vars => NoMoneyCreated'
  <2> SUFFICES ASSUME BooksInv, BooksInv', NoMoneyCreated, [Next]_vars, NEW u \in Users
               PROVE  Money(u)' <= InitialBalance
    BY DEF NoMoneyCreated, Money
  <2>1. Money(u) <= InitialBalance /\ Money(u)' <= Money(u)
    BY MoneyFalls DEF NoMoneyCreated, Money
  <2>2. Money(u) \in Nat /\ Money(u)' \in Nat
    BY <1>2, MoneyIsAmount
  <2> QED
    BY <2>1, <2>2, BalanceAssumption
<1> QED
  BY <1>1, <1>3, BooksInvHolds, PTL DEF Spec

============================================================================
