------------------------------- MODULE Bidding ------------------------------
(***************************************************************************)
(* The bid pipeline of the bidding service for one auction:                *)
(* BiddingService.PlaceBid, the Redis and Mongo repositories it writes,    *)
(* the auction document that ValidateAuctionForBid reads and rewrites, the *)
(* wallets that UpdateBalance moves and the bid.outbid event that refunds  *)
(* the displaced bidder.                                                   *)
(*                                                                         *)
(* A request is one execution of PlaceBid.  Each of its remote calls is a  *)
(* step of its own, so that requests, the goroutines they leave behind,    *)
(* events in flight and faults interleave between any two calls.  The      *)
(* identity of a request doubles as its lock token and as the identity of  *)
(* the bid it creates: the code draws a fresh ObjectID for each.           *)
(*                                                                         *)
(* Faults names the faults the environment may inject; see FaultKinds.     *)
(***************************************************************************)
EXTENDS Naturals, FiniteSets, Functions

CONSTANTS
    Requests,       \* executions of PlaceBid
    Users,          \* accounts of the user service
    Seller,         \* the account that owns the auction
    Amounts,        \* what a request may offer
    StartingPrice,  \* CurrentPrice of the auction before any bid
    InitialBalance, \* what every wallet holds before any bid
    Faults,         \* the faults that may happen
    NoLock,         \* the lock key is absent from Redis
    NoBid           \* nil

FaultKinds ==
    { "expiry",      \* the lock's TTL runs out while its holder still works
      "cancel",      \* the caller goes away: the request's context is
                     \* cancelled, between two calls or during one
      "rpc",         \* the reply of ValidateAuctionForBid is lost
      "nil_prev",    \* GetHighestBid fails; PlaceBid ignores the error
      "mongo_prev",  \* Redis cannot be read; GetHighestBid falls back to Mongo
      "debit_reply", \* the wallet is charged but the reply is lost
      "cas_reply",   \* the Redis script runs but its reply is lost
      "refund",      \* the compensating UpdateBalance fails
      "lost_event",  \* a bid.outbid event is lost, or its handler fails
      "crash" }      \* the bidding service restarts

ASSUME SellerAssumption == Seller \in Users
ASSUME AmountAssumption == Amounts \subseteq Nat
ASSUME PriceAssumption == StartingPrice \in Nat
ASSUME BalanceAssumption == InitialBalance \in Nat
ASSUME FaultAssumption == Faults \subseteq FaultKinds
ASSUME NoLockAssumption == NoLock \notin Requests
ASSUME NoBidAssumption ==
    NoBid \notin [id: Requests, user: Users, amount: Nat] \union Requests

VARIABLES
    bidder,     \* bidder[r]: the authenticated user of request r
    offer,      \* offer[r]: the amount request r bids
    pc,         \* pc[r]: the next call of request r
    doc,        \* doc[r]: the auction document r's validation has read
    prev,       \* prev[r]: prevBid, the highest bid r has read
    auction,    \* the auction document in the auction service's Mongo
    lock,       \* Redis lock:auction:{id}
    top,        \* Redis auction:{id}:current_bid, with :bidder and :id
    mongo,      \* mongo[b]: status of bid b in the bids collection
    balance,    \* wallets of the user service
    ledger,     \* transaction rows of the user service
    refunding,  \* requests whose compensating goroutine has not run
    marking,    \* requests whose UpdateBidStatus goroutine has not run
    inserting,  \* requests whose mongoRepo.PlaceBid goroutine has not run
    outbid      \* requests whose bid.outbid event is in flight

inputs == <<bidder, offer>>
redis  == <<lock, top>>
wallet == <<balance, ledger>>
async  == <<refunding, marking, inserting, outbid>>
vars   == <<bidder, offer, pc, doc, prev, auction, lock, top, mongo,
            balance, ledger, refunding, marking, inserting, outbid>>

Bid     == [id: Requests, user: Users, amount: Nat]
Auction == [status: {"ACTIVE", "ENDED"}, price: Nat]
Row     == [kind: {"debit", "compensation", "outbid"}, by: Requests]

BidOf(r) == [id |-> r, user |-> bidder[r], amount |-> offer[r]]

\* Calls of PlaceBid, in program order.
Critical == {"find", "update", "read", "read_bidder", "read_id", "debit",
             "commit", "publish", "unlock"}

\* The request is over; in "left" its call of UpdateBalance may still be
\* under way in the user service.
Over == {"done", "left"}

Goto(r, l) == pc' = [pc EXCEPT ![r] = l]
At(r, l) == pc[r] = l

Init ==
    /\ bidder \in [Requests -> Users]
    /\ offer \in [Requests -> Amounts]
    /\ pc = [r \in Requests |-> "idle"]
    /\ auction = [status |-> "ACTIVE", price |-> StartingPrice]
    /\ doc = [r \in Requests |-> auction]
    /\ prev = [r \in Requests |-> NoBid]
    /\ lock = NoLock
    /\ top = NoBid
    /\ mongo = [r \in Requests |-> "none"]
    /\ balance = [u \in Users |-> InitialBalance]
    /\ ledger = {}
    /\ refunding = {}
    /\ marking = {}
    /\ inserting = {}
    /\ outbid = {}

-----------------------------------------------------------------------------
(* redisRepo.Lock and Unlock                                               *)

\* Variant: SET without NX.
LockAlwaysFree == TRUE

\* SETNX succeeds only when the key is absent.
LockFree == lock = NoLock

AcquireLock(r) ==
    /\ At(r, "idle")
    /\ LockFree
    /\ lock' = r
    /\ Goto(r, "find")
    /\ UNCHANGED <<inputs, doc, prev, auction, top, mongo, wallet, async>>

\* A busy lock fails the request at once; PlaceBid does not wait or retry.
LockBusy(r) ==
    /\ At(r, "idle")
    /\ ~LockFree
    /\ Goto(r, "done")
    /\ UNCHANGED <<inputs, doc, prev, auction, redis, mongo, wallet, async>>

\* The unlock script deletes the key only if it holds the request's token.
Unlock(r) ==
    /\ At(r, "unlock")
    /\ lock' = IF lock = r THEN NoLock ELSE lock
    /\ Goto(r, "done")
    /\ UNCHANGED <<inputs, doc, prev, auction, top, mongo, wallet, async>>

\* The TTL frees the key.  While its holder still works that is a fault; a
\* key whose holder has gone without unlocking always expires.
LockExpires ==
    /\ ~LockFree
    /\ pc[lock] \in Over \/ "expiry" \in Faults
    /\ lock' = NoLock
    /\ UNCHANGED <<inputs, pc, doc, prev, auction, top, mongo, wallet, async>>

-----------------------------------------------------------------------------
(* auctionClient.ValidateAuctionForBid                                     *)

Admissible(r) ==
    /\ auction.status = "ACTIVE"
    /\ bidder[r] # Seller
    /\ offer[r] > auction.price

ValidateFind(r) ==
    /\ At(r, "find")
    /\ Admissible(r)
    /\ doc' = [doc EXCEPT ![r] = auction]
    /\ Goto(r, "update")
    /\ UNCHANGED <<inputs, prev, auction, redis, mongo, wallet, async>>

ValidateReject(r) ==
    /\ At(r, "find")
    /\ ~Admissible(r)
    /\ Goto(r, "unlock")
    /\ UNCHANGED <<inputs, doc, prev, auction, redis, mongo, wallet, async>>

\* Variant: validation forgets the new price.
WrittenWithoutPrice(r) == doc[r]

\* The document r writes back: all of what it read, with the offered price.
Written(r) == [doc[r] EXCEPT !.price = offer[r]]

\* Variant: the lock is given up once the bid is validated.
ValidateUpdateUnlocks(r) ==
    /\ At(r, "update")
    /\ auction' = Written(r)
    /\ lock' = IF lock = r THEN NoLock ELSE lock
    /\ Goto(r, "read")
    /\ UNCHANGED <<inputs, doc, prev, top, mongo, wallet, async>>

ValidateUpdate(r) ==
    /\ At(r, "update")
    /\ auction' = Written(r)
    /\ Goto(r, "read")
    /\ UNCHANGED <<inputs, doc, prev, redis, mongo, wallet, async>>

\* PlaceBid returns an error although the document may have been written.
ValidateReplyLost(r) ==
    /\ "rpc" \in Faults
    /\ At(r, "update")
    /\ auction' \in {auction, Written(r)}
    /\ Goto(r, "unlock")
    /\ UNCHANGED <<inputs, doc, prev, redis, mongo, wallet, async>>

-----------------------------------------------------------------------------
(* BiddingService.GetHighestBid and the check against bidding twice        *)

\* What FindOne sorted by amount may answer, whatever the bids' status.
MongoHighest ==
    LET stored == {b \in Requests : mongo[b] # "none"}
        Largest(b) == \A c \in stored : offer[c] <= offer[b]
    IN  IF stored = {} THEN {NoBid} ELSE {BidOf(b) : b \in {c \in stored : Largest(c)}}

AlreadyHighest(r, seen) == seen # NoBid /\ seen.user = bidder[r]

\* prevBid is known; a request of the same user is turned down.
Seen(r, seen) ==
    /\ prev' = [prev EXCEPT ![r] = seen]
    /\ Goto(r, IF AlreadyHighest(r, seen) THEN "unlock" ELSE "debit")

\* GET current_bid found a price.
ReadPrice(r) ==
    /\ At(r, "read")
    /\ top # NoBid
    /\ prev' = [prev EXCEPT ![r] = top]
    /\ Goto(r, "read_bidder")
    /\ UNCHANGED <<inputs, doc, auction, redis, mongo, wallet, async>>

\* GET :bidder and GET :id are commands of their own: each may see a later
\* bid than the one before.
ReadBidder(r) ==
    /\ At(r, "read_bidder")
    /\ prev' = [prev EXCEPT ![r] = [@ EXCEPT !.user = top.user]]
    /\ Goto(r, "read_id")
    /\ UNCHANGED <<inputs, doc, auction, redis, mongo, wallet, async>>

ReadId(r) ==
    /\ At(r, "read_id")
    /\ Seen(r, [prev[r] EXCEPT !.id = top.id])
    /\ UNCHANGED <<inputs, doc, auction, redis, mongo, wallet, async>>

\* No price in Redis, or Redis cannot be read: ask Mongo.
ReadMongo(r) ==
    /\ At(r, "read")
    /\ top = NoBid \/ "mongo_prev" \in Faults
    /\ \E seen \in MongoHighest : Seen(r, seen)
    /\ UNCHANGED <<inputs, doc, auction, redis, mongo, wallet, async>>

\* prevBid, _ := s.GetHighestBid(...): a failed read looks like no bid.
ReadNothing(r) ==
    /\ "nil_prev" \in Faults
    /\ At(r, "read")
    /\ Seen(r, NoBid)
    /\ UNCHANGED <<inputs, doc, auction, redis, mongo, wallet, async>>

-----------------------------------------------------------------------------
(* userClient.UpdateBalance: a balance change and its transaction row      *)

DebitRow(r)   == [kind |-> "debit", by |-> r]
RefundRow(r)  == [kind |-> "compensation", by |-> r]
OutbidRow(r)  == [kind |-> "outbid", by |-> r]

Paid(r) == DebitRow(r) \in ledger

\* Variant: the balance is not checked.
AlwaysAffordable(r) == TRUE

Affordable(r) == offer[r] <= balance[bidder[r]]

Charge(r) ==
    /\ balance' = [balance EXCEPT ![bidder[r]] = @ - offer[r]]
    /\ ledger' = ledger \union {DebitRow(r)}

Credit(u, a, row) ==
    /\ balance' = [balance EXCEPT ![u] = @ + a]
    /\ ledger' = ledger \union {row}

Debit(r) ==
    /\ At(r, "debit")
    /\ Affordable(r)
    /\ Charge(r)
    /\ Goto(r, "commit")
    /\ UNCHANGED <<inputs, doc, prev, auction, redis, mongo, async>>

DebitRefused(r) ==
    /\ At(r, "debit")
    /\ ~Affordable(r)
    /\ Goto(r, "unlock")
    /\ UNCHANGED <<inputs, doc, prev, auction, redis, mongo, wallet, async>>

\* The call fails, before or after the charge.  PlaceBid returns the error
\* and nothing gives the money back.
DebitReplyLost(r) ==
    /\ "debit_reply" \in Faults
    /\ At(r, "debit")
    /\ Affordable(r)
    /\ Charge(r) \/ UNCHANGED wallet
    /\ Goto(r, "unlock")
    /\ UNCHANGED <<inputs, doc, prev, auction, redis, mongo, async>>

-----------------------------------------------------------------------------
(* redisRepo.PlaceBid: the Lua script, and what PlaceBid does next         *)

\* Variants: no compare, and a compare that lets a tie win.
AlwaysBeats(r) == TRUE
BeatsOrTies(r) == top # NoBid => offer[r] >= top.amount

Beats(r) == top # NoBid => offer[r] > top.amount

\* The script compares and writes price, bidder and id in one go.
Commit(r) ==
    /\ At(r, "commit")
    /\ Beats(r)
    /\ top' = BidOf(r)
    /\ inserting' = inserting \union {r}
    /\ marking' = IF prev[r] = NoBid THEN marking ELSE marking \union {r}
    /\ Goto(r, "publish")
    /\ UNCHANGED <<inputs, doc, prev, auction, lock, mongo, wallet, refunding,
                   outbid>>

\* The script answers 0: the money goes back from a goroutine.
CommitRefused(r) ==
    /\ At(r, "commit")
    /\ ~Beats(r)
    /\ refunding' = refunding \union {r}
    /\ Goto(r, "unlock")
    /\ UNCHANGED <<inputs, doc, prev, auction, redis, mongo, wallet, marking,
                   inserting, outbid>>

\* Variant: a failed placement is stored in Mongo all the same.
CommitReplyLostButStored(r) ==
    /\ "cas_reply" \in Faults
    /\ At(r, "commit")
    /\ Beats(r)
    /\ top' \in {top, BidOf(r)}
    /\ refunding' = refunding \union {r}
    /\ inserting' = inserting \union {r}
    /\ Goto(r, "unlock")
    /\ UNCHANGED <<inputs, doc, prev, auction, lock, mongo, wallet, marking,
                   outbid>>

\* The call fails, before or after the script has run: PlaceBid takes both
\* for a refusal.
CommitReplyLost(r) ==
    /\ "cas_reply" \in Faults
    /\ At(r, "commit")
    /\ Beats(r)
    /\ top' \in {top, BidOf(r)}
    /\ refunding' = refunding \union {r}
    /\ Goto(r, "unlock")
    /\ UNCHANGED <<inputs, doc, prev, auction, lock, mongo, wallet, marking,
                   inserting, outbid>>

\* Variant: the outbid event is never published.
PublishNoOutbid(r) ==
    /\ At(r, "publish")
    /\ Goto(r, "unlock")
    /\ UNCHANGED <<inputs, doc, prev, auction, redis, mongo, wallet, async>>

\* bid.outbid carries prevBid's user and amount.  Nobody in the pipeline
\* reads bid.created, so only bid.outbid is kept.
PublishEvents(r) ==
    /\ At(r, "publish")
    /\ outbid' = IF prev[r] = NoBid THEN outbid ELSE outbid \union {r}
    /\ Goto(r, "unlock")
    /\ UNCHANGED <<inputs, doc, prev, auction, redis, mongo, wallet, refunding,
                   marking, inserting>>

-----------------------------------------------------------------------------
(* What a request leaves behind: goroutines and the event's handler        *)

Refund(r) ==
    /\ r \in refunding
    /\ refunding' = refunding \ {r}
    /\ Credit(bidder[r], offer[r], RefundRow(r))
    /\ UNCHANGED <<inputs, pc, doc, prev, auction, redis, mongo, marking,
                   inserting, outbid>>

RefundFails(r) ==
    /\ "refund" \in Faults
    /\ r \in refunding
    /\ refunding' = refunding \ {r}
    /\ UNCHANGED <<inputs, pc, doc, prev, auction, redis, mongo, wallet,
                   marking, inserting, outbid>>

\* UpdateOne without upsert: a bid that is not stored yet stays unmarked.
MarkOutbid(r) ==
    /\ r \in marking
    /\ marking' = marking \ {r}
    /\ mongo' = [mongo EXCEPT ![prev[r].id] =
                    IF @ = "none" THEN @ ELSE "OUTBID"]
    /\ UNCHANGED <<inputs, pc, doc, prev, auction, redis, wallet, refunding,
                   inserting, outbid>>

InsertBid(r) ==
    /\ r \in inserting
    /\ inserting' = inserting \ {r}
    /\ mongo' = [mongo EXCEPT ![r] = "ACCEPTED"]
    /\ UNCHANGED <<inputs, pc, doc, prev, auction, redis, wallet, refunding,
                   marking, outbid>>

\* Variant: the event carries the amount of the new bid.
HandleOutbidOfNewAmount(r) ==
    /\ r \in outbid
    /\ outbid' = outbid \ {r}
    /\ Credit(prev[r].user, offer[r], OutbidRow(r))
    /\ UNCHANGED <<inputs, pc, doc, prev, auction, redis, mongo, refunding,
                   marking, inserting>>

\* Variant: the handler takes the event and changes no wallet.
HandleOutbidWithoutCredit(r) ==
    /\ r \in outbid
    /\ outbid' = outbid \ {r}
    /\ UNCHANGED <<inputs, pc, doc, prev, auction, redis, mongo, wallet,
                   refunding, marking, inserting>>

\* The user service's handleOutbid.
HandleOutbid(r) ==
    /\ r \in outbid
    /\ outbid' = outbid \ {r}
    /\ Credit(prev[r].user, prev[r].amount, OutbidRow(r))
    /\ UNCHANGED <<inputs, pc, doc, prev, auction, redis, mongo, refunding,
                   marking, inserting>>

\* Core NATS delivers at most once, and the handler drops its errors.
LoseOutbid(r) ==
    /\ "lost_event" \in Faults
    /\ r \in outbid
    /\ outbid' = outbid \ {r}
    /\ UNCHANGED <<inputs, pc, doc, prev, auction, redis, mongo, wallet,
                   refunding, marking, inserting>>

-----------------------------------------------------------------------------
(* The environment                                                         *)

\* The auction service's cron ends the auction.
EndAuction ==
    /\ auction.status = "ACTIVE"
    /\ auction' = [auction EXCEPT !.status = "ENDED"]
    /\ UNCHANGED <<inputs, pc, doc, prev, redis, mongo, wallet, async>>

\* Where a request that is cut off stops: its UpdateBalance may be out.
CutOff(r) == IF At(r, "debit") THEN "left" ELSE "done"

\* Variant: a cancelled request refunds after a successful commit too.
CancelRefundsLate(r) ==
    /\ "cancel" \in Faults
    /\ pc[r] \in Critical \ {"publish"}
    /\ refunding' = IF Paid(r) THEN refunding \union {r} ELSE refunding
    /\ Goto(r, CutOff(r))
    /\ UNCHANGED <<inputs, doc, prev, auction, redis, mongo, wallet, marking,
                   inserting, outbid>>

\* Every later call with the request's context fails, the deferred Unlock
\* included; only the compensating goroutine has a context of its own.  Of
\* the calls that change something UpdateBalance alone can be abandoned with
\* its outcome open: go-redis does not look at the context of a command it
\* has sent, and a validation abandoned is ValidateUpdate, then Cancel.
Cancel(r) ==
    /\ "cancel" \in Faults
    /\ pc[r] \in Critical \ {"publish"}
    /\ refunding' = IF At(r, "commit") THEN refunding \union {r} ELSE refunding
    /\ Goto(r, CutOff(r))
    /\ UNCHANGED <<inputs, doc, prev, auction, redis, mongo, wallet, marking,
                   inserting, outbid>>

\* The user service carries out the call of a request that is gone.  (The
\* call may also never have been sent, or be refused.)
LateDebit(r) ==
    /\ At(r, "left")
    /\ ~Paid(r)
    /\ Affordable(r)
    /\ Charge(r)
    /\ UNCHANGED <<inputs, pc, doc, prev, auction, redis, mongo, async>>

\* Requests and goroutines are gone; Redis, Mongo and NATS stay.
Crash ==
    /\ "crash" \in Faults
    /\ \/ \E r \in Requests : pc[r] \in Critical
       \/ refunding \union marking \union inserting # {}
    /\ pc' = [r \in Requests |-> IF pc[r] \in Critical THEN CutOff(r) ELSE pc[r]]
    /\ refunding' = {}
    /\ marking' = {}
    /\ inserting' = {}
    /\ UNCHANGED <<inputs, doc, prev, auction, redis, mongo, wallet, outbid>>

-----------------------------------------------------------------------------

\* The steps PlaceBid takes once it runs.
Proceed(r) ==
    \/ ValidateFind(r) \/ ValidateReject(r)
    \/ ValidateUpdate(r) \/ ValidateReplyLost(r)
    \/ ReadPrice(r) \/ ReadBidder(r) \/ ReadId(r) \/ ReadMongo(r) \/ ReadNothing(r)
    \/ Debit(r) \/ DebitRefused(r) \/ DebitReplyLost(r)
    \/ Commit(r) \/ CommitRefused(r) \/ CommitReplyLost(r)
    \/ PublishEvents(r)
    \/ Unlock(r)

Next ==
    \/ \E r \in Requests :
          \/ AcquireLock(r) \/ LockBusy(r)
          \/ Proceed(r)
          \/ Refund(r) \/ RefundFails(r)
          \/ MarkOutbid(r) \/ InsertBid(r)
          \/ HandleOutbid(r) \/ LoseOutbid(r)
          \/ Cancel(r) \/ LateDebit(r)
    \/ LockExpires
    \/ EndAuction
    \/ Crash

Spec == Init /\ [][Next]_vars

\* A running goroutine is scheduled and its calls return; Redis expires a
\* key; NATS delivers what it does not lose.  Nothing makes users bid, the
\* auction end or an abandoned call arrive.
Fairness ==
    /\ \A r \in Requests :
          /\ WF_vars(Proceed(r))
          /\ WF_vars(Refund(r))
          /\ WF_vars(MarkOutbid(r))
          /\ WF_vars(InsertBid(r))
          /\ WF_vars(HandleOutbid(r))
    /\ WF_vars(LockExpires)

FairSpec == Spec /\ Fairness

-----------------------------------------------------------------------------
(* Where the money of a bid is                                             *)

Leads(b) == top # NoBid /\ top.id = b

\* r has replaced b as the leader and owes its bidder the refund, has put
\* it on the wire, or has seen it paid.
Displaces(r, b) ==
    /\ prev[r] # NoBid
    /\ prev[r].id = b
    /\ At(r, "publish") \/ r \in outbid \/ OutbidRow(r) \in ledger

\* PlaceBid has told its caller that bid b is placed, and stores it.
Acknowledged(b) == b \in inserting \/ mongo[b] # "none"

Compensated(b) == b \in refunding \/ RefundRow(b) \in ledger

Returned(b) ==
    \/ RefundRow(b) \in ledger
    \/ \E r \in Requests : OutbidRow(r) \in ledger /\ prev[r].id = b

\* The charge that a caller leaves behind who goes away while UpdateBalance
\* runs: PlaceBid compensates only what fails after it.
Forfeited(b) == At(b, "left") /\ Paid(b)

\* The bids of user u whose money the pipeline has, and the placements by
\* which it owes her the money of a bid.
HeldFor(u) ==
    {r \in Requests : bidder[r] = u /\ (At(r, "commit") \/ Leads(r) \/ r \in refunding)}

OwedTo(u) ==
    {r \in Requests : /\ prev[r] # NoBid
                      /\ prev[r].user = u
                      /\ At(r, "publish") \/ r \in outbid}

InPipeline(u) ==
    SumFunctionOnSet(offer, HeldFor(u))
    + SumFunctionOnSet([r \in OwedTo(u) |-> prev[r].amount], OwedTo(u))

ForfeitedBy(u) == {r \in Requests : bidder[r] = u /\ Forfeited(r)}

-----------------------------------------------------------------------------
(* Properties                                                              *)

\* Every variable holds a value of its type.
TypeOK ==
    /\ bidder \in [Requests -> Users]
    /\ offer \in [Requests -> Amounts]
    /\ pc \in [Requests -> Critical \union Over \union {"idle"}]
    /\ doc \in [Requests -> Auction]
    /\ prev \in [Requests -> Bid \union {NoBid}]
    /\ auction \in Auction
    /\ lock \in Requests \union {NoLock}
    /\ top \in Bid \union {NoBid}
    /\ mongo \in [Requests -> {"none", "ACCEPTED", "OUTBID"}]
    /\ balance \in [Users -> Nat]
    /\ ledger \subseteq Row
    /\ refunding \subseteq Requests
    /\ marking \subseteq Requests
    /\ inserting \subseteq Requests
    /\ outbid \subseteq Requests

\* The distributed lock keeps two placements on one auction apart, crashes,
\* cancelled contexts and failed calls included (bidding README: "Distributed
\* Mutual Exclusion"); only a TTL shorter than a placement can break it.
MutualExclusion ==
    \A r, s \in Requests : pc[r] \in Critical /\ pc[s] \in Critical => r = s

\* No bid is refunded twice: one bid at most displaces it, and a bid refused
\* by Redis, which its own request refunds, is never also refunded by a
\* bid.outbid event.
AtMostOneRefund ==
    \A b \in Requests :
        /\ \A r, s \in Requests : Displaces(r, b) /\ Displaces(s, b) => r = s
        /\ Compensated(b) => \A r \in Requests : ~Displaces(r, b)
        /\ b \in refunding => RefundRow(b) \notin ledger
        /\ b \in outbid => OutbidRow(b) \notin ledger

\* The leader has paid for its bid, no other bid refunds it, and if it was
\* acknowledged its own request does not either: whatever fails or expires,
\* however stale the previous bid that a placement has read.  (A leader that
\* was never acknowledged exists when the reply of the script is lost.)
LeaderHeld ==
    \A b \in Requests :
        Leads(b) => /\ Paid(b)
                    /\ \A r \in Requests : ~Displaces(r, b)
                    /\ Acknowledged(b) => ~Compensated(b)

\* A bid that was charged is about to be committed, leads, or has its refund
\* made or under way: no money is left behind but that of a caller who went
\* away while the wallet was being charged.
NoStrandedMoney ==
    \A b \in Requests :
        Paid(b) => \/ At(b, "commit")
                   \/ Leads(b)
                   \/ Compensated(b)
                   \/ \E r \in Requests : Displaces(r, b)
                   \/ Forfeited(b)

\* What a user holds, plus what the pipeline holds for or owes to her, is
\* what she started with, less what she was charged as she left: every refund
\* has the payee and the amount of the bid it refunds.
MoneyConserved ==
    \A u \in Users :
        balance[u] + InPipeline(u) + SumFunctionOnSet(offer, ForfeitedBy(u))
            = InitialBalance

\* Faults lose money but never create it.
NoMoneyCreated ==
    \A u \in Users : balance[u] + InPipeline(u) <= InitialBalance

\* The price the auction service shows is never below the bid that leads in
\* Redis, so no bid at or below the leader's passes validation.
PriceCoversLeader == top # NoBid => auction.price >= top.amount

\* A placement that has been validated and charged beats the leader in Redis
\* when it comes to commit: behind the lock the script refuses nobody, and a
\* refund of a refusal is due to a lock that has expired.
NeverRefused == \A r \in Requests : At(r, "commit") => Beats(r)

\* The leader in Redis changes only to a higher offer, even when the lock
\* has expired under a running placement.
LeaderRises ==
    [][top # NoBid => top' # NoBid /\ top'.amount > top.amount]_top

\* Price, bidder and id of the previous bid, which Redis answers one by one,
\* are of one bid once they matter: bid.outbid pays the user who made the bid
\* that is displaced what she has paid for it, and it is that bid which is
\* marked.
OutbidNamesOneBid ==
    \A r \in Requests :
        prev[r] # NoBid /\ (At(r, "publish") \/ r \in marking \/ r \in outbid)
            => prev[r] = BidOf(prev[r].id)

\* Mongo follows Redis: a stored bid was committed there, so it does not
\* exceed the leader, and the leader is never marked OUTBID.
HistoryFollowsRedis ==
    \A b \in Requests :
        mongo[b] # "none" => /\ top # NoBid /\ offer[b] <= top.amount
                             /\ Leads(b) => mongo[b] = "ACCEPTED"

\* Where the money of bid b is, and which bid leads, as the escrow sees them.
MoneyAt(b) ==
    IF Returned(b) THEN "returned" ELSE IF Paid(b) THEN "held" ELSE "new"

LeaderId == IF top = NoBid THEN NoBid ELSE top.id

\* The pipeline implements the escrow it promises.
Escrow == INSTANCE EscrowAuction WITH
    Bids     <- Requests,
    NoLeader <- NoBid,
    amount   <- offer,
    stage    <- [b \in Requests |-> MoneyAt(b)],
    leader   <- LeaderId

ImplementsEscrow == Escrow!Spec

\* The money of every charged bid comes to rest: the bid leads for good, or
\* its bidder has the money back, or has left while she was being charged.
MoneyComesToRest ==
    \A b \in Requests :
        Paid(b) ~> (Returned(b) \/ []Leads(b) \/ Forfeited(b))

\* Once nothing is running, CurrentPrice is the highest bid recorded, or the
\* starting price if there is none (README.md:972).
Quiet ==
    /\ \A r \in Requests : pc[r] \in Over \union {"idle"}
    /\ refunding \union marking \union inserting \union outbid = {}

PriceIsHighestBid ==
    Quiet => auction.price = (IF top = NoBid THEN StartingPrice ELSE top.amount)

============================================================================
