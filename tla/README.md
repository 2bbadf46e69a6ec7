# Formal verification of the realtime bidding services

TLA+ models of the bidding platform's core, the TLC runs that check them on
small instances, and TLAPS proofs of the results that hold for every instance.
Everything is translated from the code under `src/`; where the documentation
says something else, a run shows the difference (see *Findings*).

## 1. The system

Six processes talk over GraphQL, gRPC and core NATS. Each stores its own data.

| Part | State | Operations | Talks to |
| --- | --- | --- | --- |
| **bidding-service** (Go) `BiddingService` | Redis: `lock:auction:{id}` (TTL 5 s / 10 s), `auction:{id}:current_bid` with `:bidder`, `:id`; Mongo `bids` | `PlaceBid`, `GetHighestBid`, `ResolveAuction`, paginated reads | auction-service and user-service by gRPC; publishes `bid.created`, `bid.outbid`, `bid.won`; listens to `auction.ended` |
| **auction-service** (Go) | Mongo `auctions`: status, start and end time, starting and current price | create / update / delete, `ValidateAuctionForBid` (writes the price, extends the end), cron every minute: PENDING -> ACTIVE -> ENDED | user-service by gRPC; publishes `auction.*` |
| **user-service** (NestJS) | Postgres `users` (balance, credentials) and `transactions`; Redis cache of users | `updateBalance`, `chargeMoney`, `update`, roles, deletion, registration, login, password reset; handler of `bid.outbid`; Stripe webhook | Redis, Postgres |
| **notification-service** (NestJS) | Mongo notifications; Redis pub/sub | one notification per `bid.*` / `auction.ended` event; mark as read, delete; forwards AI chunks | NATS, user-service |
| **ai-service** (NestJS) | Mongo threads and messages; 60 s cache of auctions | `sendMessage` streams a model's answer, falling back from model to model | Gemini, NATS |
| **api-gateway** (NestJS) | none | federation; WebSocket proxy for subscriptions | all |
| **packages/shared** | none | role guard, NATS helper, filters | |

The behaviours that are hard to test:

* **Concurrency.** `PlaceBid` is eight remote calls under a Redis lock that
  can expire under it, followed by goroutines and events that outlive the
  request and its lock. `updateBalance` reads a balance and writes it back
  without a row lock. The cron and `ValidateAuctionForBid` rewrite the same
  auction documents; validation writes the whole document it has read.
* **Failure.** No client has a timeout or a retry (but `ResolveAuction`); a lost
  reply is taken for a refusal; compensation lives in goroutines; NATS delivers
  at most once and the errors of publishing and handling are dropped.
* **Ordering.** Goroutines insert a bid and mark it OUTBID in any order; events
  are handled in any order and against stale caches.

What makes each part correct:

* bid placement: one leader per auction, which only rises, has paid, and is not
  refunded; every other charged bid is refunded exactly once, to its bidder and
  with its amount; placements exclude each other; the price covers the leader;
* settlement: the seller is paid once, the leader's amount, after the end;
* auction lifecycle: statuses move forward, an ended auction is announced, the
  price never falls, the end is only ever extended;
* wallet: a balance equals the sum of its transaction rows and is not negative;
* caches and chat: a reader sees no value older than promised; one answer per
  question, and always a final chunk.

## 2. Modules

| Module | What it is |
| --- | --- |
| `EscrowAuction` | abstract: what bidders are promised about their money and the lead |
| `Bidding` | `PlaceBid` with everything it calls, for one auction; refines `EscrowAuction` |
| `MCBidding` | the instances of `Bidding` that TLC checks |
| `BiddingProofs`, `EscrowProofs`, `MoneyProofs` | theorems about `Bidding`, each resting on the one before; the second ends in the refinement, the third keeps the books |
| `SumLemmas` | what `SumFunctionOnSet` of the community modules computes: sums over finite sets |
| `AuctionLifecycle`, `MCAuctionLifecycle` | the auction documents and their three writers, and the cron worker |
| `LifecycleProofs` | theorems about `AuctionLifecycle` |
| `UserAccount`, `MCUserAccount` | one user's row, ledger and cached copies, statement by statement |
| `AccountProofs` | theorems about `UserAccount` |
| `Settlement`, `MCSettlement` | the end of one auction: `auction.ended`, its listener and `ResolveAuction`, around the bids of `EscrowAuction` |
| `SettlementProofs` | theorems about `Settlement` |
| `Chat` | one user's conversation about one auction in the AI service |
| `Notification` | the notification service: events, chunks, and what a user does to notifications |
| `Messaging`, `MCMessaging` | `Chat` and `Notification` composed over NATS |
| `MessagingProofs` | theorems about `Messaging` |

The detailed modules meet in these places, and each treats the other's part as
one step:

* `Bidding` has one auction document (status and price), ended by one action
  `EndAuction`; `AuctionLifecycle` is where the document's writers meet the
  worker. In return `AuctionLifecycle` takes from `Bidding` that validations
  of one auction do not overlap (`Alone`): `MutualExclusion`, proved there for
  a lock that does not expire under its holder.
* In `Bidding` a call of `UpdateBalance` changes wallet and ledger in one step;
  `UserAccount` shows what the statements of that call do when requests of one
  user overlap. The money properties of `Bidding` therefore hold while they do
  not, and `NoLostUpdate` shows what happens when they do.
* `Settlement` takes the bidders from `EscrowAuction`, its three actions by
  `INSTANCE`; `Bidding` implements `EscrowAuction` (checked, and proved under
  `Orderly`). It adds when they happen: a `placement` is under way from the
  validation that has read the auction open, one at a time (`MutualExclusion`
  again). In `Bidding` in turn a settlement does not exist: `PlaceBid` and
  `ResolveAuction` share the keys of the current bid, which the latter only
  reads, and the statuses in Mongo, which nothing in `PlaceBid` decides on.
* `Settlement` has one step `AuctionEnds` for the worker of `AuctionLifecycle`;
  with the fault `early` it announces an auction that runs on, which is what
  `lifecycle_announced` finds, and an auction that a late validation has brought
  back ends once more.
* `Messaging` composes `Chat` and `Notification` by `INSTANCE`: they share the
  chunks on their way (`inbox`), the history of those that will never arrive
  (`lost`) and the count of faults, and interleave otherwise.

### Bidding

One auction, a set of `Requests`, each one execution of `PlaceBid`. The code
draws a fresh ObjectID for a request's lock token and for its bid, so the
request's identity stands for both.

| Variable | Code |
| --- | --- |
| `bidder`, `offer` | authenticated user and amount of the request |
| `pc`, `doc`, `prev` | next remote call; the auction document `ValidateAuctionForBid` has read; `prevBid` |
| `auction` | the document in the auction service's Mongo |
| `lock` | Redis `lock:auction:{id}` (its token) |
| `top` | Redis `auction:{id}:current_bid`, `:bidder`, `:id`, which the Lua script writes together |
| `mongo` | status of each bid in the `bids` collection, or "none" |
| `balance`, `ledger` | wallets and transaction rows of the user service |
| `refunding`, `marking`, `inserting` | goroutines `PlaceBid` has started and which have not run yet |
| `outbid` | `bid.outbid` events in flight |

`PlaceBid` is the sequence `AcquireLock` - `ValidateFind` - `ValidateUpdate` -
`ReadPrice`, `ReadBidder`, `ReadId` (or `ReadMongo`) - `Debit` - `Commit` -
`PublishEvents` - `Unlock`, with the refusals (`LockBusy`, `ValidateReject`,
`DebitRefused`, `CommitRefused`, "already the highest bidder" in `Seen`) where
the code returns. `Refund`, `InsertBid`, `MarkOutbid` are its goroutines and
`HandleOutbid` is the user service's handler of `bid.outbid`. `LockExpires`
also frees the key of a holder that has gone: that is no fault.

A request that is cut off while it runs `UpdateBalance` (by its caller or by a
restart) is "left" and not "done": the user service does not hear of it and may
still carry out the charge (`LateDebit`), which nothing gives back
(`Forfeited`). Of the calls that change something this is the only one that can
be abandoned with its outcome open. The validation, when abandoned, is
`ValidateUpdate` followed by `Cancel`, or `Cancel` alone; and go-redis
v9.18.0 (go.mod:11) does not look at the context of a command it has sent,
since redis.go:14 does not set `ContextTimeoutEnabled`.

`Faults` says which of these may happen in a run:

| Fault | What the code does |
| --- | --- |
| `expiry` | the 5 s TTL runs out while the holder works; nothing renews it |
| `cancel` | the caller disconnects, between two calls or during one: every later call with the request's context fails, the deferred `Unlock` too; a charge under way may still be made |
| `rpc`, `debit_reply`, `cas_reply` | the call took effect or not, and `PlaceBid` sees an error |
| `nil_prev` | `GetHighestBid` fails; `PlaceBid` drops the error and goes on with no previous bid |
| `mongo_prev` | Redis cannot be read; the fallback may answer with an older bid, whatever its status |
| `refund` | the compensating `UpdateBalance` fails; its error is logged and no more |
| `lost_event` | core NATS loses `bid.outbid`, or its handler fails |
| `crash` | the bidding service restarts; Redis, Mongo and NATS stay |

### AuctionLifecycle

`docs` are the documents of the auctions collection (status, current price,
start, end). Three parties write them, each between two queries of its own:

* the seller: `CreateAuction`, `DeleteAuction`, and `UpdateFind` /
  `UpdateWrite` for `UpdateAuction`, which uploads images in between and writes
  the whole document back;
* a bid: `ValidateFind` / `ValidateExtend` / `ValidateWrite` for
  `ValidateAuctionForBid`, which writes the whole document back as well, with
  the new price and perhaps a later end. `ValidateExtend` is a step because
  the clock is read there;
* the cron worker: `WorkerStart`, then for each pass (PENDING to ACTIVE, ACTIVE
  to ENDED) `WorkerFind`, `WorkerBulk`, `WorkerPublish`, one event at a time.
  `SkipIfStillRunning` keeps runs apart: there is one worker.

`announced` collects the transitions published for an auction. `WorkerFails`
is a failing query, after which `UpdateMany` may have changed some documents;
`Crash` ends everything in flight. What these two leave ended and never
announced is in the history variable `lost`, so that `EndsAnnounced` can say of
every other interleaving that it loses no announcement. `Save` is `UpdateOne` by id, without upsert.

### UserAccount

One user: `row` (balance, password hash), `ledger` (sum of her committed
transactions), `lock` (the row lock of a Postgres transaction), `cache` (the
copies under `user:<id>` and `user:email:<email>`), and `req`, requests that run
one of eleven operations. A request takes the steps

    read the row, or the copy in Redis (fetch and fill on a miss)
    -> select -> update -> notify -> commit -> done

`select` and `update` are the two halves of TypeORM's `save`: it reads the row
again and updates the columns in which the copy differs from it, which is why a
stale balance goes back into the row although the operation never touched it.
(Postgres returns a decimal as a string, and a copy may hold a number, so that
`save` may also write a balance that has not changed: `Retyped`.)
Three operations leave that order, which is all `First`, `AfterUpdate`,
`AfterNotify` and `AfterCommit` say: `login` answers and stores in Redis without
waiting for its save, `roleBasedLogin` stores in Redis after the commit, and
`changePassword` and `forgotPassword` never do. `calm` is a history variable:
TRUE while no two requests of the user have overlapped and no fault has
happened; `deleted` is another: she has been deleted once. Because `login` returns before its save has ended, the user's next
request may overlap it even if she waits for every answer.

`deleteUser` is an operation like the others whose "column" is the row. Who has
posted a transaction that is not yet committed keeps the row from being deleted
and waits for a deletion, because `transactions` refers to `users`; her
transactions go with her (`ON DELETE CASCADE`). After the commit an `UPDATE` finds nothing
(`UpdateNothing`), and a `save` that reads the row only then inserts the copy
again (`Insert`). TypeORM's `remove` clears the id of the entity, so that
`notifyDelete(user.id, ...)` deletes the key of the email and not the one of
the id: an `update`, which finds the user by id, can still bring her back.

Columns other than balance and password stand as one, "profile": nothing read
from them decides anything about money. Amounts are integers; the code's are
decimals with two places.

### Settlement

| Variable | Code |
| --- | --- |
| `amount`, `stage`, `leader` | the escrow: what the bids have offered, whose money is held, `auction:{id}:current_bid` |
| `open` | the auction's status is ACTIVE |
| `placement` | the `PlaceBid` under way |
| `inserting`, `marking`, `status` | its goroutines, and the statuses in Mongo |
| `pc`, `lock`, `bid`, `tries` | each delivery of `auction.ended`: its next call, `lock:auction:resolve:{id}`, `highestBid`, the tries of the payment |
| `rows`, `won` | payments to the seller; `bid.won` events |
| `late`, `missed`, `trouble` | history: bids that took the lead after the announcement, status updates that changed nothing, deliveries that failed before paying |

A delivery takes `Receive` - `Lock` - `ReadPrice`, `ReadId` (or `ReadMongo`) -
`SetPending` - `Pay`, up to three times - `SetWinner` - `PublishWon` -
`Unlock`. Redis keeps no status, so the guard against a second settlement
("status is WINNER") can only fire for a bid that comes from Mongo. `Payload`
is how the event is written: "published" as the auction service writes it,
"expected" as the listener reads it. All else is checked with "expected":
with what is published, nothing else would ever happen.

### Chat, Notification, Messaging

A question is one execution of `sendMessage`: `Find` (or `Create`) the thread,
`Save` the question, `Context`, then `Chunk` by `Chunk` the answer of the first
model that gives one (`ModelFails`, `TriesNext`: what the next one says goes on
from what this one had said, in the same stream), `StoreAnswer`, `Close`; and
the catch block, `Apologise`, `StoreExcuse`. Texts are sequences of the numbers
of the models that said them, `Sorry` for the excuse. `alone` is a history of
whether another question was under way.

The notification service receives the chunks in the order they were sent
(`inbox`) and passes each on at once (`Receive`). Events come from other
services and in any order; their handlers overlap (`Take`, `Create`,
`Broadcast`, `Mail`), with one another and with `MarkFind` / `MarkUpdate`,
`MarkAll` and `Delete`. A chunk names its thread, not its question (`of` is
history), so what a question was answered is, to the subscriber, the chunks of
its thread before the final one: `ShownLast`.

## 3. Runs

| Run | Specification, faults | Checks |
| --- | --- | --- |
| `bidding_reliable` | fair, `rpc`, `cancel` | `TypeOK`, `MoneyConserved`, `NoStrandedMoney`, `PriceCoversLeader`, `MoneyComesToRest` |
| `bidding_lossy` | all but `expiry`, `mongo_prev`, `cas_reply` | `MutualExclusion`, `AtMostOneRefund`, `NoMoneyCreated`, `NeverRefused`, `OutbidNamesOneBid`, `ImplementsEscrow` |
| `bidding_expiry` | `expiry`, `mongo_prev`, `cas_reply` | `LeaderHeld`, `HistoryFollowsRedis`, `LeaderRises` |
| `bidding_price` | none | `PriceIsHighestBid` is violated |
| `lifecycle` | fair, `mongo`, `crash` | `TypeOK`, `OnSchedule`, `EndsAnnounced`, `PriceRises`, `AuctionsEnd` |
| `lifecycle_announced` | none | `AnnouncedHasEnded` is violated |
| `account_races` | `rollback`, `redis`, `restart` | `TypeOK`, `NonNegative`, `LedgerBalances`, `CacheHoldsBalance`, `DeletedCannotLogIn` |
| `account_lost_update` | none | `NoLostUpdate` is violated |
| `account_stale_cache` | none | `CacheFollowsRow` is violated |
| `settlement` | fair, all nine | `TypeOK`, `PaidOnce`, `PaidFromEscrow`, `WonIsSettled`, `SellerIsPaid` |
| `settlement_envelope` | fair, none, the event as published | `EndedIsSettled` is violated |
| `messaging` | fair, all five | `TypeOK`, `AnswerIsWhole`, `OneAnswer`, `RacingThreads`, `ToldIsStored`, `ShownIsStored`, `DeletedForGood`, `QuestionsClose` |

What they show:

* **Reliable.** While nothing worse happens than callers that go away and lost
  replies of the validation, three placements in every order, with their
  goroutines and events, lose and invent nothing, user by user, with one
  exception that the three money properties name: a caller who goes away while
  `UpdateBalance` runs may be charged for a bid that is neither placed nor
  refunded (`Forfeited`). Whoever else was charged leads or is refunded in the
  end; and the price turns away every offer that is not above the leader's.
  Every other fault loses more money or breaks the escrow (`refund` only with
  `cancel`): this is as much as the code keeps.
* **Lossy.** What faults that leave the lock alone can do is lose money: a
  debit whose reply is lost, a refund whose goroutine dies, an event that does
  not arrive. No run claims that such money comes back. They never make the
  pipeline refund twice or refund the leader: it implements `EscrowAuction`,
  a safety specification in which a held bid may stay held for ever. And the
  compare in the Lua script has nothing to refuse: what validation lets through
  under the lock still beats the leader when it commits. Price, bidder and id
  of the leader are three commands to Redis; under the lock they are those of
  one bid, so that the refund goes to the bidder it is due to, with the amount
  she paid.
* **Expiry.** With placements that overlap and stale previous bids, refunds may
  be paid twice (each of the three faults breaks `AtMostOneRefund`,
  once a rival can pay for two bids), but the
  compare in the Lua script still keeps the lead rising and paid for. Without
  the lock, then, the money of bidders is at risk and the order of bids is not.
* **Lifecycle.** Late writes of whole documents take statuses back (an ENDED
  auction may run again, an ACTIVE one be PENDING again at its old price), but
  no document shows a status before its time, bids only raise prices, and after
  the last of finitely many late writes every auction is over for good, through
  restarts and failing queries, if the worker's runs are not cut short for
  ever. While no update is written late, an end is left without its
  announcement only by a run that failed between the two; that is what
  settlement depends on.
* **Account.** The balance is never negative, whatever overlaps, whatever stale
  copy is saved and whoever is deleted meanwhile. It equals the ledger as long
  as requests do not overlap and nothing fails, although passwords in Redis may
  be old by then. On the same condition a deleted user cannot log in: she
  returns only by an `update` that finds her under her id.
* **Settlement.** One announcement pays the seller once, except for the retry
  of a payment whose reply was lost; what is paid is the money of a bid that is
  still held, unless a late bid has overtaken it or Redis could not be asked; a
  winner is announced only after the money has moved. The exceptions are the
  code's: two announcements of one auction pay twice, nothing ties a retry to
  the payment it repeats, and a bid that was validated before the end may take
  the lead after it.
* **Messaging.** An answer that is stored is the whole answer of one model or
  the excuse; it is stored once, but for a store that succeeds and fails to say
  so; when the final chunk reaches a subscriber the answer is in the database
  and is the end of what she has seen, if she asked one question at a time. Two
  threads come only of questions that overlapped. Nobody is told or mailed of
  a notification that is not stored, and a deleted one does not come back
  through `markAsRead`. Every stored question is closed, but for a restart, a
  database that fails again in the catch block, or a lost final chunk.

### Bounds

* `Bidding`: three requests (two in `bidding_price`), a seller and two bidders (three in
  `bidding_lossy`, so that two of them can displace the same leader), amounts 1 to 3, balances
  of 3. Three requests are what a double refund takes (a leader and two that
  displace it) and what a displaced bidder who bids again takes; amounts give
  ties, higher and lower offers; a balance of 3 pays for one bid of 3 or for 1
  and 2 but not for 2 and 3, so refusals for lack of money depend on refunds
  that have or have not arrived. `MCSpec` numbers the requests in the order of
  their offers, because a renaming of requests makes any behaviour one of
  these; `MCFairSpec` gives the first bidder a fixed name as well, where symmetry
  would be unsound. `bidding_expiry` restricts the initial states further, since without
  the lock all orders are interleaved: two rivals, one with two requests,
  offers 1, 2, 3 or 1, 2, 2. Bidders are symmetric in safety runs.
* `AuctionLifecycle`: two auctions (one in the violation), one update, one
  validation, the clock up to 3, start at 1, end at 2 (1 or 2 in the violation),
  an extension of 1 within a window of 2 of the end: an auction that is
  extended and one that is not, an offer below and one above the price, two
  documents found together of which one is updated. The code's 5 minutes of window, its 2
  minutes of extension (auction_server.go:66-67) and the minute between runs are
  orders of events here: the worker may run at any time.
* `UserAccount`: three requests of any eleven operations (two in the
  violations), amounts 1 and 2, opening balance 2, two passwords. Two requests
  race, a third sees what the race has left; one deletes, one brings back, one
  reads.
* `Settlement`: two bids, two deliveries of `auction.ended`. A leader and one
  that overtakes it, an auction that ends twice. `MCSettlement` numbers the
  deliveries in the order of their announcements (`InOrder`) and the bids in
  the order of their offers (`Rising`), which are different: of two equal
  offers the second never leads. `MaxFailures`: when the auction ends twice,
  one call fails or one event is lost at most; with one announcement there is
  no such bound, so that all three tries may fail. `settlement_envelope`: one
  announcement, no fault.
* `Messaging`: two questions, two models, answers of up to two chunks, one
  event. `MaxFaults` one fault in a behaviour; `MaxInbox` one chunk on its
  way (what is in order stays so with more); `MaxText` three chunks of all
  questions together, fewer than three when the questions overlap;
  `MaxTrouble` one fault or failing model when they overlap. The event and a
  second question do not occur together: events and questions meet in a
  restart only.

`CHECK_DEADLOCK FALSE`: the requests are finite and the system may come to rest
when all have run.

### Fairness

* `Bidding!Fairness`: weak fairness of a running request's next step, of each
  goroutine, of the handler for each event, and of the key's expiry. It stands
  for the Go and Node schedulers and for calls that return; no user is made
  to bid, no auction to end and no abandoned charge (`LateDebit`) to arrive.
  `bidding_reliable` uses it with the two faults `rpc` and `cancel`, and claims
  nothing of the money of a charge that its caller has abandoned.
* `AuctionLifecycle!Fairness`: time passes, updates and validations that run
  finish, the worker is started (cron, every minute) and goes on, and from some
  time on its runs are not cut short. Each run has 50 s and its queries take
  milliseconds; without the last part a database that fails in every run
  would keep auctions from ending, which no code could help.
* `Settlement!Fairness`: a message that has arrived is handled, and its handler
  goes on: the NATS client calls it, and every call returns or fails within
  its 10 s context; a key with a TTL expires. Nothing of bidders or of the
  auction service.
* `Messaging!Fairness`: a question that has begun goes on (Node's scheduler;
  Gemini's stream ends in one way or another), and NATS delivers what it has
  not lost. Which way a step goes is not fair: every model may fail always.

## 4. Findings

* **`bidding_price`**: README.md:972 calls `current_price` the "Highest bid
  currently recorded."; the validation writes it before `PlaceBid` reads the
  previous bid and charges the wallet, and it stays when the offer is refused
  there, because the user is the highest bidder already (TLC's trace) or cannot
  pay.
* **`lifecycle_announced`**: `auction.ended` is published for what the worker
  has found, and by then a validation may have written the auction back as
  ACTIVE.
* **`account_lost_update`**: README.md:2404 says the user service uses
  optimistic locking against lost updates; no version column and no lock exist.
* **`account_stale_cache`**: the user service's README says at :159 that every write operation
  updates or evicts the cache; `changePassword` does neither, and the next
  login writes the old password hash back from there.
* **`settlement_envelope`**: the bidding service's README says at :115 that
  `auction.ended` initiates `ResolveAuction`. The listener looks for the auction
  in a field "data" that the publisher does not write, both id and seller
  decode as "", and no auction is ever settled.

Further differences, with no run of their own: README.md:190 promises
at-least-once delivery by NATS Streaming, while all services publish and
subscribe on core NATS, so that a lost `bid.outbid` is a lost refund (the fault
`lost_event`); README.md:254 says that no bid is
accepted after `end_time`, while only the status is checked, which follows up
to a minute later; README.md:3363 says that deleting a user invalidates her
sessions in Redis, while her copy under `user:<id>` stays (see *UserAccount*);
the notification service's README says at :132 that the winner and the
participants hear of an ended auction, while `AuctionEndedStrategy` notifies
the seller only.

## 5. Proofs

TLAPS proves these for every value of the constants that meets the modules'
named assumptions (amounts and times are natural numbers, the seller is a user,
`nil`-like constants are not values).

**Bidding** (`BiddingProofs`, then `EscrowProofs`). The inductive invariant is
built in layers, each proved preserved under those below:

1. `TypeInv`: types, and `Stages`, which ties what a request has left behind
   (rows, goroutines, events) to how far it has come. Gives `TypesHold`, and
   with it that wallets stay at zero or more.
2. `LeaderInv`: the leader is a bid that was charged; every bid anybody has
   read, or that is stored, is behind the leader, and behind it strictly once
   displaced. It does not use the lock. Gives `LeaderIsHeld`, `HistoryIsBehind`
   and `LeaderOnlyRises` whatever fails.
3. `LockInv`: whoever works holds the lock. Gives `PlacementsExclude` unless
   `expiry` may happen.
4. `PriceInv`: from the read of the document to its write nobody else writes
   the price (`LockInv`), and from the write to the commit it is at least the
   offer; all that time the offer beats the leader. Gives `PriceIsCovering` and
   `ScriptRefusesNobody` on the same condition. `WholePrev`: while a request
   reads, nobody commits (`LockInv`), so what it has read so far is of the
   leader, and who has read all of it knows one bid with its own bidder and
   amount. Gives `PreviousBidIsWhole`, on the same condition too.
5. `FreshPrev` and `Claims`: under the lock `prevBid` is the leader or nothing,
   so a bid has one claim to a refund at most. Gives `RefundedAtMostOnce` and
   `PipelineImplementsEscrow` under `Orderly`, which excludes three faults: with
   `expiry` two placements displace the same leader, with `mongo_prev` a bid
   refunded long ago is displaced again, with `cas_reply` the leader is refunded
   by its own request.
6. `ExactPrev`: if nothing but `rpc` and `cancel` happens (`Mild`), who is about
   to pay or to commit knows the leader exactly, so whom it displaces has a
   claim on it; a charge that is in nobody's pipeline is that of a request that
   has left. Gives `NothingIsStranded`. `Mild` leaves out what breaks it: TLC
   finds `NoStrandedMoney` violated with each of the other faults alone, but for
   `refund`, which takes `cancel` as well (by `ScriptRefusesNobody` there is no
   refund to fail otherwise).
7. `BooksInv`: the requests that have run are finitely many, so that the sums in
   `MoneyConserved` are finite, although nothing is assumed of `Requests`. Each
   action adds or removes one request at most on each side of a user's books:
   `Debit` moves an offer from the wallet to what is held, `Commit` what is held
   for the old leader to what is owed to its bidder (or nowhere, if the read
   had failed), `Refund` and `HandleOutbid` back to a wallet. That the request is
   on the books when it is removed and not when it is added is what `Claims`
   says. `LateDebit` takes an offer out of a wallet and puts it on a list
   of its own (`Lost`), which no other step touches. Gives `MoneyIsConserved` under `Mild` and `MoneyIsNotCreated` under
   `Orderly`.

`SumLemmas` has what the last step takes: the sum of a function over a finite
set is the value at any element plus the sum over the others (`SumRemove`), and
no less than the sum over a part (`SumPart`). The library defines the sum by a
recursive function on the subsets. Its values are reached without an induction
theorem (which no prover here can instantiate) from a smallest counterexample:
strict inclusion is well-founded on the subsets of a finite set.

**AuctionLifecycle** (`LifecycleProofs`). `OnSchedule` is not inductive: it
takes `Reads`, what documents in flight can be (a validation holds one that was
ACTIVE at a time after its start, an update one that was PENDING). Gives
`TypesHold` and `AuctionsKeepSchedule`. `PricesRise` takes that the validations
of an auction are serial (`Serial`, kept by the guard `Alone`), that the
price of the document is at most what a validation has read (`Bids`) and at
least what a late update has read (`Rewinds`), and that both are of documents
that exist or did (`Born`). `EndsAreAnnounced` takes `ReadsRunning` (a
validation in flight is about an auction that is over, or that runs until no
later than it has read) and `NothingMissed`: what the bulk update would end
beyond what the worker had found has ended, and been told of, before; a stale
validation has brought it back. A late update breaks both.

**UserAccount** (`AccountProofs`). `TypesHold` with `RowLocked`: who has
written holds the row lock, so at its commit the row is there, or is not, as it
was when it wrote. `BalanceNonNegative` from `Solvent`: no copy anywhere, in
the row, a request or Redis, is negative, so none written back is, and none
that is inserted again. `LedgerHolds` and `CacheHolds` from `Calm`, while the
user is not deleted: the one request that runs holds a copy that differs from
the row by the transaction it will post, and saves the balance if it posts any;
Redis holds the row or what is about to be committed. `DeletedStaysOut` from
`Quiet`: while there is no row, the one request that runs is reading her, or is
an `update` that will insert her.

**Settlement** (`SettlementProofs`), for any bids, deliveries and faults. `Loop`
is the program order of a resolution: it has a bid from the read on, and
`tries` counts its payments. `Leads`: whoever is stored, marked or settled has
taken the lead before, and the leader's money is held. `Receipts`: a row is of
a resolution that has come to pay, for the bid it has read, in one of its tries,
and the loop goes on only after a try without an answer; gives
`PaymentsAreOnce`. `Backed`: a resolution that had no trouble has read the
leader, who still leads unless a late bid took over; gives `PaymentsAreHeld`.
`Winners`: who has announced a winner has an answered row, and has written
WINNER or is excused by name; gives `WinnersAreSettled`.

**Chat and Notification** (`MessagingProofs`, about the composition).
`HasThread` and `Answered`: what `sendMessage` has said and stored at each of
its steps. Gives `AnswersAreWhole` and `AnsweredOnce`. `Alone`: while somebody
who asks alone is making a thread, nobody else makes one. Gives `ThreadsRace`.
`Handled`: the handler of an event has created before it broadcasts, and
broadcast before it mails. Gives `ToldAreStored`; `DeletionIsFinal` takes only
that a handler creates what is not there yet. `Streamed`: `Sent` is what the
subscriber has and what is on its way, as one sequence, which no delivery
changes. A question that asked alone and lost no chunk has at each step sent
its whole text, or the excuse, last (`EndsIn`), and what it has stored when it
is about to close; so a final chunk, wherever it is in `Sent`, follows the text
of the last stored answer, and sending more does not change that. A restart of
the notification service cuts `Sent` to what has arrived, and then the last
chunk of the question was lost with the rest, or nothing was. Gives
`ShownAreStored`.

**Only model-checked.** Liveness (`MoneyComesToRest`, `AuctionsEnd`,
`SellerIsPaid`, `QuestionsClose`) is out of the prover's reach. Every other
property of a passing run is a theorem. The five properties that runs refute are, of course,
no theorems.

## 6. What is left out

In the modelled parts:

* Redis does not lose data or restart, and neither does a database; a GET of
  `:bidder` or `:id` that fails where the GET of the price has succeeded does
  not happen, neither in `Bidding` nor in `Settlement`. The code drops the error
  (bid_redis.go:65-66) and goes on with an empty user or id: `PlaceBid` then
  addresses the refund to nobody or marks no bid, and `ResolveAuction` pays and announces a bid with no id.
* A validation whose caller has gone stops where it is; in the code its
  `UpdateOne` may still arrive, later than the next placement begins if it
  outlasts the lock's TTL.
* A call of `UpdateBalance` that fails with `debit_reply` was carried out, if at
  all, before its caller sees the error. Carried out later, the charge is
  that of `LateDebit`: it is not connected with anything that the request still
  does, which is to unlock.
* A publish error that auction_service.go:284 drops is the `lost_event` of
  `Settlement`; in `AuctionLifecycle` a publish does not fail, and
  `EndsAnnounced` says of the worker that it has tried.
* `strategy.getContent` (notification.service.ts:52) and the translation in the
  catch block of `sendMessage` (gemini.service.ts:122) look up texts in memory
  and do not fail here. A failing `getContent` would be a lost event, a failing
  translation a question without excuse and final chunk, as when the database
  fails there.
* Manifests under `src/k8s` have one replica of each service, and that is what is modelled:
  one worker, one bidding service.
* `UpdateMany` changes all documents at once unless it fails.
* An exception in `handleOutbid` is a lost event. In the code it may take the
  process with it.
* `UserAccount` has one user. Commands to Redis take effect in the order they
  are issued: the client has one connection. `register` is the initial state;
  the reset token's life is not modelled. A webhook delivered twice is two
  requests of kind "charge": nothing in the code relates them, and nothing is
  claimed of them.
* What TypeORM and Postgres do (which columns `save` writes, a row that is
  gone, locks and foreign keys) is external, modelled from how the service uses it.
* `Settlement` has one auction, and the seller's account is the list of
  payments. What `UpdateBalance` does inside is `UserAccount`.
* `Messaging`: texts, the history that goes to the model and the 60 s cache of
  auctions in its context; a question about another auction is another thread
  and shares nothing but NATS. Who an event is for, and the wording of mails.
* Starting prices: the code never compares them with anything after creation.

Not to be modelled: paginated reads and the queries of the notification and AI
services, the API gateway, the shared package, the GraphQL layers and the
manifests: they keep no state that a step of another part depends on. More than
half of the repository's lines of code are generated (GraphQL, protobuf,
federation).

## 7. Plan

1. **Wallet**: an abstract wallet (balance and ledger move together), which
   `UserAccount` implements while it is calm; `LedgerBalances` is its core.
2. **Settlement**: that its bidders' steps are those of `EscrowAuction`, as a
   theorem and not by construction only.

## 8. Running it

    tlc -workers 2 -config Bidding_lossy.cfg MCBidding.tla
    tlapm BiddingProofs.tla

`PROJECT.json` lists the runs with their modules, a mutation of the model for
each property that the property catches, and the source lines of each
definition. The operators commented "Variant:" in the modules are those
mutations; no specification uses them.
