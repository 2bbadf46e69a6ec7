------------------------------- MODULE Settlement ------------------------------
(***************************************************************************)
(* What happens to one auction when it ends: auction.ended, the listener   *)
(* of the bidding service that takes it, and BiddingService.ResolveAuction,*)
(* which pays the seller and marks the winner.                             *)
(*                                                                         *)
(* Bids go on around it.  They take their money, take the lead and give    *)
(* the money back as EscrowAuction says, which Bidding implements; what    *)
(* Settlement adds is when: a placement whose validation has seen the      *)
(* auction open goes on after its end, for ResolveAuction and PlaceBid     *)
(* take different locks; it may even write the auction back as open, which *)
(* then ends once more.                                                    *)
(***************************************************************************)
EXTENDS Naturals

CONSTANTS
    Bids,       \* placements of bids on the auction
    Amounts,    \* what a bid may offer
    Events,     \* deliveries of auction.ended: bounds how often the auction ends
    Payload,    \* "published" or "expected": the form of auction.ended
    Faults,     \* the faults that may happen
    NoLeader,   \* Redis holds no bid
    Nobody,     \* no placement is under way
    NoBid,      \* nil
    NoLock      \* the resolution's lock key is absent

FaultKinds ==
    { "early",      \* auction.ended is published, yet the auction runs on
      "lost_event", \* core NATS loses auction.ended
      "redis",      \* Redis cannot be reached
      "auction",    \* GetAuction fails
      "mongo",      \* an UpdateBidStatus fails
      "transfer",   \* UpdateBalance fails and has not paid
      "reply",      \* UpdateBalance has paid, but its reply is lost
      "slow",       \* the resolution outlives the 10 s of its context and lock
      "crash" }     \* the bidding service restarts

ASSUME AmountAssumption == Amounts \subseteq Nat
ASSUME PayloadAssumption == Payload \in {"published", "expected"}
ASSUME FaultAssumption == Faults \subseteq FaultKinds
ASSUME NoLeaderAssumption == NoLeader \notin Bids
ASSUME NobodyAssumption == Nobody \notin Bids
ASSUME NoLockAssumption == NoLock \notin Events

\* const maxRetries
Attempts == 3

Statuses == {"none", "ACCEPTED", "OUTBID", "WINNER_PENDING", "WINNER"}

\* What GetHighestBid answers: the bid whose amount and the bid whose id were
\* read, and the status, of which Redis has none.
HighestBid == [amount: Bids, id: Bids, status: Statuses]

ASSUME NoBidAssumption == NoBid \notin HighestBid

VARIABLES
    amount, stage, leader,  \* the escrow: see EscrowAuction
    open,       \* the auction's status is ACTIVE
    placement,  \* the bid whose PlaceBid is under way, or Nobody
    inserting,  \* bids whose mongoRepo.PlaceBid goroutine has not run
    marking,    \* bids whose UpdateBidStatus to OUTBID has not run
    status,     \* status[b]: status of b in the bids collection, or "none"
    pc,         \* pc[e]: where the delivery e of auction.ended is
    lock,       \* Redis lock:auction:resolve:{id}: the delivery that holds it
    bid,        \* bid[e]: highestBid of the resolution for e
    tries,      \* tries[e]: calls of UpdateBalance made for e
    rows,       \* transaction rows of the seller: the payments
    won,        \* bids for which bid.won was published
    late,       \* history: bids that took the lead after auction.ended
    missed,     \* history: bids of which a status update changed nothing
    trouble     \* history: deliveries that met a failing call before paying

escrow   == <<amount, stage, leader>>
goroutines == <<inserting, marking>>
placing  == <<open, placement, inserting, marking>>
history  == <<late, missed, trouble>>
vars == <<amount, stage, leader, open, placement, inserting, marking, status, pc, lock,
          bid, tries, rows, won, late, missed, trouble>>

Escrow == INSTANCE EscrowAuction

Steps == {"lock", "read", "read_id", "pending", "pay", "won", "publish", "unlock"}

Row == [event: Events, try: 1 .. Attempts, bid: Bids, answered: BOOLEAN]

Goto(e, l) == pc' = [pc EXCEPT ![e] = l]
At(e, l) == pc[e] = l

Announced == \E e \in Events : pc[e] # "unsent"

Init ==
    /\ amount \in [Bids -> Amounts]
    /\ stage = [b \in Bids |-> "new"]
    /\ leader = NoLeader
    /\ open = TRUE
    /\ placement = Nobody
    /\ inserting = {}
    /\ marking = {}
    /\ status = [b \in Bids |-> "none"]
    /\ pc = [e \in Events |-> "unsent"]
    /\ lock = NoLock
    /\ bid = [e \in Events |-> NoBid]
    /\ tries = [e \in Events |-> 0]
    /\ rows = {}
    /\ won = {}
    /\ late = {}
    /\ missed = {}
    /\ trouble = {}

-----------------------------------------------------------------------------
(* Placements, as far as the settlement can tell them apart                *)

\* ValidateAuctionForBid reads an auction that is ACTIVE.  PlaceBid holds the
\* auction's lock from before that until it is done: an assumption here,
\* MutualExclusion in Bidding.
ValidateRead(b) ==
    /\ open
    /\ placement = Nobody
    /\ stage[b] = "new"
    /\ placement' = b
    /\ UNCHANGED <<escrow, open, goroutines, status, pc, lock, bid, tries, rows, won,
                   history>>

\* It writes the whole document back, its status as well, and the bidder pays.
Charge(b) ==
    /\ placement = b
    /\ Escrow!Hold(b)
    /\ open' = TRUE
    /\ UNCHANGED <<placement, goroutines, status, pc, lock, bid, tries, rows, won,
                   history>>

\* The Redis script, and the goroutines started after it.
Lead(b) ==
    /\ placement = b
    /\ Escrow!Lead(b)
    /\ placement' = Nobody
    /\ inserting' = inserting \union {b}
    /\ marking' = IF leader = NoLeader THEN marking ELSE marking \union {leader}
    /\ late' = IF Announced THEN late \union {b} ELSE late
    /\ UNCHANGED <<open, status, pc, lock, bid, tries, rows, won, missed, trouble>>

\* Refused or failed, at any call.
GiveUp(b) ==
    /\ placement = b
    /\ placement' = Nobody
    /\ UNCHANGED <<escrow, open, goroutines, status, pc, lock, bid, tries, rows, won,
                   history>>

Return(b) ==
    /\ Escrow!Return(b)
    /\ UNCHANGED <<placing, status, pc, lock, bid, tries, rows, won, history>>

InsertBid(b) ==
    /\ b \in inserting
    /\ inserting' = inserting \ {b}
    /\ status' = [status EXCEPT ![b] = "ACCEPTED"]
    /\ UNCHANGED <<escrow, open, placement, marking, pc, lock, bid, tries, rows, won,
                   history>>

\* UpdateOne without upsert: the status of b once it has been set to s.
Set(b, s) == [status EXCEPT ![b] = IF @ = "none" THEN @ ELSE s]

MarkOutbid(b) ==
    /\ b \in marking
    /\ marking' = marking \ {b}
    /\ status' = Set(b, "OUTBID")
    /\ UNCHANGED <<escrow, open, placement, inserting, pc, lock, bid, tries, rows, won,
                   history>>

-----------------------------------------------------------------------------
(* auction.ended                                                           *)

\* The worker ends the auction and announces it.  It announces what it had
\* found before: by then the end may have been put off.
AuctionEnds(e) ==
    /\ open
    /\ At(e, "unsent")
    /\ \/ open' = FALSE
       \/ "early" \in Faults /\ open' = open
    /\ \/ Goto(e, "sent")
       \/ "lost_event" \in Faults /\ Goto(e, "lost")
    /\ UNCHANGED <<escrow, placement, inserting, marking, status, lock, bid, tries, rows,
                   won, history>>

\* A subscription calls its handler for one message after the other.
Receive(e) ==
    /\ At(e, "sent")
    /\ \A f \in Events : pc[f] \notin Steps
    /\ Goto(e, "lock")
    /\ UNCHANGED <<escrow, placing, status, lock, bid, tries, rows, won, history>>

-----------------------------------------------------------------------------
(* ResolveAuction                                                          *)

\* A busy lock ends the resolution; nobody delivers the event again.
Lock(e) ==
    /\ At(e, "lock")
    /\ IF lock = NoLock
       THEN lock' = e /\ Goto(e, "read")
       ELSE lock' = lock /\ Goto(e, "done")
    /\ UNCHANGED <<escrow, placing, status, bid, tries, rows, won, history>>

\* AuctionEndedEvent, as decoded from what is published, has neither id nor
\* seller: the publisher sends the auction without the "data" around it that
\* the listener looks for.  There is no auction "".
KnowsAuction == Payload = "expected"

\* GetAuction, then GET current_bid; without a price there, Mongo is asked.
ReadPrice(e) ==
    /\ At(e, "read")
    /\ KnowsAuction
    /\ leader # NoLeader
    /\ bid' = [bid EXCEPT ![e] = [amount |-> leader, id |-> leader, status |-> "none"]]
    /\ Goto(e, "read_id")
    /\ UNCHANGED <<escrow, placing, status, lock, tries, rows, won, history>>

\* GET :id is a command of its own.
ReadId(e) ==
    /\ At(e, "read_id")
    /\ bid' = [bid EXCEPT ![e].id = leader]
    /\ Goto(e, "pending")
    /\ UNCHANGED <<escrow, placing, status, lock, tries, rows, won, history>>

Stored == {b \in Bids : status[b] # "none"}

\* Mongo's highest bid, whatever its status; "WINNER" ends the resolution.
FromMongo(e) ==
    IF Stored = {}
    THEN bid' = bid /\ Goto(e, "unlock")
    ELSE \E b \in Stored :
            /\ \A c \in Stored : amount[c] <= amount[b]
            /\ bid' = [bid EXCEPT ![e] = [amount |-> b, id |-> b, status |-> status[b]]]
            /\ Goto(e, IF status[b] = "WINNER" THEN "unlock" ELSE "pending")

\* Variant: Mongo is asked first.
MongoFirst == TRUE

\* Redis has no price.
AsksMongo == leader = NoLeader

ReadMongo(e) ==
    /\ At(e, "read")
    /\ KnowsAuction
    /\ AsksMongo
    /\ FromMongo(e)
    /\ UNCHANGED <<escrow, placing, status, lock, tries, rows, won, history>>

\* No auction, or a call that fails before anything is paid.
ReadFails(e) ==
    /\ \/ At(e, "lock") /\ "redis" \in Faults /\ Goto(e, "done") /\ bid' = bid
       \/ At(e, "read") /\ "auction" \in Faults /\ Goto(e, "unlock") /\ bid' = bid
       \/ At(e, "read") /\ ~KnowsAuction /\ Goto(e, "unlock") /\ bid' = bid
       \/ At(e, "read") /\ KnowsAuction /\ "redis" \in Faults /\ FromMongo(e)
    /\ trouble' = trouble \union {e}
    /\ UNCHANGED <<escrow, placing, status, lock, tries, rows, won, late, missed>>

\* UpdateBidStatus, whose error is dropped.
Update(b, s) ==
    \/ /\ status' = Set(b, s)
       /\ missed' = IF status[b] = "none" THEN missed \union {b} ELSE missed
    \/ /\ "mongo" \in Faults
       /\ status' = status
       /\ missed' = missed \union {b}

SetPending(e) ==
    /\ At(e, "pending")
    /\ Update(bid[e].id, "WINNER_PENDING")
    /\ Goto(e, "pay")
    /\ UNCHANGED <<escrow, placing, lock, bid, tries, rows, won, late, trouble>>

\* Variants: the loop has no limit; it goes on after a success; one failure
\* ends it; the last failure is taken for a success.
NoLimit(e, ok) == IF ok THEN "won" ELSE "pay"
GoesOn(e, ok) == IF tries[e] + 1 = Attempts THEN "won" ELSE "pay"
GivesUpAtOnce(e, ok) == IF ok THEN "won" ELSE "unlock"
WinsAnyway(e, ok) == IF ok \/ tries[e] + 1 = Attempts THEN "won" ELSE "pay"

\* Where the loop goes after one more try.
AfterTry(e, ok) ==
    IF ok THEN "won" ELSE IF tries[e] + 1 = Attempts THEN "unlock" ELSE "pay"

Pays(e, answered) ==
    rows' = rows \union {[event |-> e, try |-> tries[e] + 1, bid |-> bid[e].amount,
                          answered |-> answered]}

\* UpdateBalance(seller, amount, add): done, not done, or done without a reply.
Pay(e) ==
    /\ At(e, "pay")
    /\ \/ Pays(e, TRUE) /\ Goto(e, AfterTry(e, TRUE))
       \/ "transfer" \in Faults /\ rows' = rows /\ Goto(e, AfterTry(e, FALSE))
       \/ "reply" \in Faults /\ Pays(e, FALSE) /\ Goto(e, AfterTry(e, FALSE))
    /\ tries' = [tries EXCEPT ![e] = @ + 1]
    /\ UNCHANGED <<escrow, placing, status, lock, bid, won, history>>

SetWinner(e) ==
    /\ At(e, "won")
    /\ Update(bid[e].id, "WINNER")
    /\ Goto(e, "publish")
    /\ UNCHANGED <<escrow, placing, lock, bid, tries, rows, won, late, trouble>>

PublishWon(e) ==
    /\ At(e, "publish")
    /\ won' = won \union {bid[e].id}
    /\ Goto(e, "unlock")
    /\ UNCHANGED <<escrow, placing, status, lock, bid, tries, rows, history>>

\* The deferred unlock fails when the context has run out.
Unlock(e) ==
    /\ At(e, "unlock")
    /\ \/ lock' = IF lock = e THEN NoLock ELSE lock
       \/ "slow" \in Faults /\ lock' = lock
    /\ Goto(e, "done")
    /\ UNCHANGED <<escrow, placing, status, bid, tries, rows, won, history>>

-----------------------------------------------------------------------------
(* The environment                                                         *)

LockExpires ==
    /\ lock # NoLock
    /\ pc[lock] \notin Steps \/ "slow" \in Faults
    /\ lock' = NoLock
    /\ UNCHANGED <<escrow, placing, status, pc, bid, tries, rows, won, history>>

\* Events the client holds are gone, and so are the goroutines.
Crash ==
    /\ "crash" \in Faults
    /\ \E e \in Events : pc[e] \in Steps \union {"sent"}
    /\ pc' = [e \in Events |-> IF pc[e] \in Steps \union {"sent"} THEN "lost" ELSE pc[e]]
    /\ placement' = Nobody
    /\ inserting' = {}
    /\ marking' = {}
    /\ UNCHANGED <<escrow, open, status, lock, bid, tries, rows, won, history>>

Resolve(e) ==
    \/ Lock(e) \/ ReadPrice(e) \/ ReadId(e) \/ ReadMongo(e) \/ ReadFails(e)
    \/ SetPending(e) \/ Pay(e) \/ SetWinner(e) \/ PublishWon(e) \/ Unlock(e)

Next ==
    \/ \E b \in Bids : \/ ValidateRead(b) \/ Charge(b) \/ Lead(b) \/ GiveUp(b)
                       \/ Return(b) \/ InsertBid(b) \/ MarkOutbid(b)
    \/ \E e \in Events : AuctionEnds(e) \/ Receive(e) \/ Resolve(e)
    \/ LockExpires
    \/ Crash

Spec == Init /\ [][Next]_vars

\* A message that has arrived is handled, and a handler runs to its end.
\* Nothing is assumed of the bidders or of the auction service.
Fairness ==
    /\ \A e \in Events : WF_vars(Receive(e)) /\ WF_vars(Resolve(e))
    /\ WF_vars(LockExpires)

FairSpec == Spec /\ Fairness

-----------------------------------------------------------------------------
(* Properties                                                              *)

\* Every variable holds a value of its type.
TypeOK ==
    /\ amount \in [Bids -> Nat]
    /\ stage \in [Bids -> {"new", "held", "returned"}]
    /\ leader \in Bids \union {NoLeader}
    /\ open \in BOOLEAN
    /\ placement \in Bids \union {Nobody}
    /\ inserting \subseteq Bids
    /\ marking \subseteq Bids
    /\ status \in [Bids -> Statuses]
    /\ pc \in [Events -> Steps \union {"unsent", "sent", "lost", "done"}]
    /\ lock \in Events \union {NoLock}
    /\ bid \in [Events -> HighestBid \union {NoBid}]
    /\ tries \in [Events -> 0 .. Attempts]
    /\ rows \subseteq Row
    /\ won \subseteq Bids
    /\ late \subseteq Bids
    /\ missed \subseteq Bids
    /\ trouble \subseteq Events

\* One announcement pays the seller once, except that a payment whose reply
\* was lost is made again: the retry carries nothing to tell it by.  And all
\* payments of one announcement are for the same bid.
PaidOnce ==
    \A x, y \in rows :
        x.event = y.event =>
            /\ x.bid = y.bid
            /\ x.try < y.try => ~x.answered
            /\ x.try = y.try => x = y

\* The money the seller gets is money the auction still holds: a bid that has
\* been paid out goes back to its bidder only if another took the lead after
\* the announcement, under another lock, or Redis could not be asked.
PaidFromEscrow ==
    \A x \in rows :
        stage[x.bid] # "held" => late # {} \/ x.event \in trouble

\* A bid is announced as the winner only when its money, or that of the bid
\* it overtook in between, has reached the seller; and it stays the winner in
\* Mongo, unless an update came before the insert or failed, it was overtaken,
\* or the auction is settled once more.
WonIsSettled ==
    \A b \in won :
        /\ \E x \in rows : x.answered /\ (x.bid = b \/ late # {})
        /\ \/ status[b] = "WINNER"
           \/ b \in missed
           \/ leader # b
           \/ \E e, f \in Events : e # f /\ bid[e] # NoBid /\ bid[f] # NoBid

\* The seller of an auction that was announced as ended with a bid on it gets
\* what the leader offered, however single calls fail: unless an event or the
\* process was lost, Redis or the auction service failed first, all three
\* tries have failed, or a late bid took the lead.
SellerIsPaid ==
    \A e \in Events :
        (At(e, "sent") /\ leader # NoLeader) ~>
            \/ \E x \in rows : x.bid = leader
            \/ \E f \in Events : At(f, "lost") \/ f \in trouble \/ tries[f] = 3
            \/ late # {}

\* auction.ended "Initiates the `ResolveAuction` logic" with `{id, sellerId}`
\* (services/bidding-service/README.md:115): the seller of an auction that was
\* announced with a bid on it is paid, when nothing fails.
EndedIsSettled ==
    \A e \in Events : (At(e, "sent") /\ leader # NoLeader) ~> rows # {}

=============================================================================
