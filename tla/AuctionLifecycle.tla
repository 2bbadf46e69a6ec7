-------------------------- MODULE AuctionLifecycle --------------------------
(***************************************************************************)
(* The auction documents of the auction service and everybody who writes   *)
(* them: the seller (CreateAuction, UpdateAuction, DeleteAuction), the     *)
(* bidding service (ValidateAuctionForBid, which raises the price and may  *)
(* extend the end) and the cron worker (ProcessLifecycleTransitions),      *)
(* which starts and ends auctions and announces it.                        *)
(*                                                                         *)
(* UpdateAuction and ValidateAuctionForBid read a document and write the   *)
(* whole of it back later; the worker finds the documents that are due,    *)
(* updates those that are due by then and announces those it had found.    *)
(***************************************************************************)
EXTENDS Naturals, FiniteSets

CONSTANTS
    Auctions,       \* identities of documents
    Calls,          \* executions of ValidateAuctionForBid
    Edits,          \* executions of UpdateAuction
    Prices,         \* starting prices a seller may ask
    Offers,         \* what a bid may offer
    Starts, Ends,   \* start and end times a seller may set
    Window,         \* snipingWindow: a bid this close to the end extends it
    Extension,      \* extensionAmount
    MaxTime,        \* the clock stops here: a bound for model checking
    Faults,         \* the faults that may happen
    Unborn, Deleted \* there is no document yet, or no longer

FaultKinds ==
    { "mongo",      \* a query of the worker fails or runs out of its 50 s
      "crash" }     \* the auction service restarts

ASSUME DataAssumption ==
    /\ Prices \subseteq Nat /\ Offers \subseteq Nat
    /\ Starts \subseteq Nat /\ Ends \subseteq Nat
    /\ Window \in Nat /\ Extension \in Nat /\ MaxTime \in Nat
ASSUME FaultAssumption == Faults \subseteq FaultKinds

VARIABLES
    now,        \* the clock
    docs,       \* docs[a]: the document in the auctions collection
    call,       \* call[v]: a validation: its next step, auction, offer, document
    edit,       \* edit[e]: an update by the seller: next step, auction, document
    worker,     \* the cron worker: pass, next step, time of the run, found
    announced,  \* announced[a]: the transitions of a published so far
    lost        \* history: auctions that ended in a run that failed before it
                \* had announced them

vars == <<now, docs, call, edit, worker, announced, lost>>

Doc == [status: {"PENDING", "ACTIVE", "ENDED"}, price: Nat, start: Nat, end: Nat]

ASSUME NoDocAssumption ==
    Unborn \notin Doc /\ Deleted \notin Doc /\ Unborn # Deleted

Exists(a) == docs[a] \notin {Unborn, Deleted}
Status(a, s) == Exists(a) /\ docs[a].status = s

\* UpdateOne by id: without upsert, so a deleted document stays deleted.
Save(a, d) == docs' = IF Exists(a) THEN [docs EXCEPT ![a] = d] ELSE docs

\* The two passes of a run of the worker.
Passes == {"activate", "end"}
From(p) == IF p = "activate" THEN "PENDING" ELSE "ACTIVE"
To(p)   == IF p = "activate" THEN "ACTIVE" ELSE "ENDED"

Idle == [step |-> "idle", pass |-> "activate", cutoff |-> 0, found |-> {}]

Init ==
    /\ now = 0
    /\ docs = [a \in Auctions |-> Unborn]
    /\ call = [v \in Calls |-> [step |-> "idle"]]
    /\ edit = [e \in Edits |-> [step |-> "idle"]]
    /\ worker = Idle
    /\ announced = [a \in Auctions |-> {}]
    /\ lost = {}

Tick ==
    /\ now < MaxTime
    /\ now' = now + 1
    /\ UNCHANGED <<docs, call, edit, worker, announced, lost>>

-----------------------------------------------------------------------------
(* The seller                                                              *)

\* No time is compared with another or with the clock.
CreateAuction(a) ==
    /\ docs[a] = Unborn
    /\ \E p \in Prices, s \in Starts, e \in Ends :
          docs' = [docs EXCEPT ![a] = [status |-> "PENDING", price |-> p, start |-> s,
                                       end |-> e]]
    /\ UNCHANGED <<now, call, edit, worker, announced, lost>>

UpdateFind(e) ==
    /\ edit[e].step = "idle"
    /\ \E a \in Auctions :
          /\ Status(a, "PENDING")
          /\ edit' = [edit EXCEPT ![e] = [step |-> "write", of |-> a, doc |-> docs[a]]]
    /\ UNCHANGED <<now, docs, call, worker, announced, lost>>

\* The document as an update makes it.  StartingPrice is left out: it is never
\* read again, and CurrentPrice does not follow it.
Edited(d, start, end) == [d EXCEPT !.start = start, !.end = end]

\* The images are uploaded between the read and the write.
UpdateWrite(e) ==
    /\ edit[e].step = "write"
    /\ LET d == edit[e].doc
       IN  \E s \in Starts \union {d.start}, t \in Ends \union {d.end} :
              Save(edit[e].of, Edited(d, s, t))
    /\ edit' = [edit EXCEPT ![e] = [step |-> "done"]]
    /\ UNCHANGED <<now, call, worker, announced, lost>>

\* Whatever the auction's status, bids or not.
DeleteAuction(a) ==
    /\ Exists(a)
    /\ docs' = [docs EXCEPT ![a] = Deleted]
    /\ UNCHANGED <<now, call, edit, worker, announced, lost>>

-----------------------------------------------------------------------------
(* ValidateAuctionForBid                                                   *)

\* Variant: the offer is not compared with the price.
AcceptsAnyOffer(d, offer) == d.status = "ACTIVE"

Accepts(d, offer) == d.status = "ACTIVE" /\ offer > d.price

\* The bidding service validates under its lock of the auction: an assumption
\* here, MutualExclusion in Bidding.
Alone(v, a) ==
    \A w \in Calls \ {v} : call[w].step \in {"extend", "write"} => call[w].of # a

ValidateFind(v) ==
    /\ call[v].step = "idle"
    /\ \E a \in Auctions, offer \in Offers :
          /\ Exists(a)
          /\ Accepts(docs[a], offer)
          /\ Alone(v, a)
          /\ call' = [call EXCEPT ![v] = [step |-> "extend", of |-> a, offer |-> offer,
                                          doc |-> docs[a]]]
    /\ UNCHANGED <<now, docs, edit, worker, announced, lost>>

\* A bid shortly before the end, but not after it, puts the end off.
Extended(d) ==
    IF now < d.end /\ d.end < now + Window THEN [d EXCEPT !.end = @ + Extension] ELSE d

ValidateExtend(v) ==
    /\ call[v].step = "extend"
    /\ call' = [call EXCEPT ![v].doc = Extended(@), ![v].step = "write"]
    /\ UNCHANGED <<now, docs, edit, worker, announced, lost>>

ValidateWrite(v) ==
    /\ call[v].step = "write"
    /\ Save(call[v].of, [call[v].doc EXCEPT !.price = call[v].offer])
    /\ call' = [call EXCEPT ![v] = [step |-> "done"]]
    /\ UNCHANGED <<now, edit, worker, announced, lost>>

-----------------------------------------------------------------------------
(* ProcessLifecycleTransitions                                             *)

\* Variant: any auction with the status is due.
DueWhatever(p, time) == {a \in Auctions : Status(a, From(p))}

\* What FindByStatusAndCutoff and UpdateStatusBulk select.
Due(p, time) ==
    {a \in Auctions : /\ Status(a, From(p))
                      /\ (IF p = "activate" THEN docs[a].start ELSE docs[a].end) <= time}

\* Variant: a run with nothing to activate returns.
ReturnWhenNothing(w) == Idle

\* Variant: the next pass starts with what the last one has found.
AfterWithLeftovers(w) ==
    IF w.pass = "activate" THEN [w EXCEPT !.pass = "end", !.step = "find"] ELSE Idle

\* After a pass comes the next, and after that the next run.
After(w) ==
    IF w.pass = "activate"
    THEN [w EXCEPT !.pass = "end", !.step = "find", !.found = {}]
    ELSE Idle

WorkerStart ==
    /\ worker.step = "idle"
    /\ worker' = [Idle EXCEPT !.step = "find", !.cutoff = now]
    /\ UNCHANGED <<now, docs, call, edit, announced, lost>>

WorkerFind ==
    /\ worker.step = "find"
    /\ LET found == Due(worker.pass, worker.cutoff)
       IN  worker' = IF found = {} THEN After(worker)
                     ELSE [worker EXCEPT !.step = "bulk", !.found = found]
    /\ UNCHANGED <<now, docs, call, edit, announced, lost>>

Moved(S, p) ==
    [a \in Auctions |-> IF a \in S THEN [docs[a] EXCEPT !.status = To(p)] ELSE docs[a]]

\* Variant: nothing is announced unless all that was found has moved.
AnnouncesOnlyAll(due) == worker.found \subseteq due /\ due # {}

\* count > 0
Announces(due) == due # {}

WorkerBulk ==
    /\ worker.step = "bulk"
    /\ LET due == Due(worker.pass, worker.cutoff)
       IN  /\ docs' = Moved(due, worker.pass)
           /\ worker' = IF Announces(due) THEN [worker EXCEPT !.step = "publish"]
                        ELSE After(worker)
    /\ UNCHANGED <<now, call, edit, announced, lost>>

\* One event for each document that was found.
WorkerPublish ==
    /\ worker.step = "publish"
    /\ \E a \in worker.found :
          /\ announced' = [announced EXCEPT ![a] = @ \union {To(worker.pass)}]
          /\ worker' = IF worker.found = {a} THEN After(worker)
                       ELSE [worker EXCEPT !.found = @ \ {a}]
    /\ UNCHANGED <<now, docs, call, edit, lost>>

\* The auctions in S have ended, and this run announces them no more.
Lose(S) == lost' = IF worker.pass = "end" THEN lost \union S ELSE lost

\* A query fails; UpdateMany may have changed some of the documents.
WorkerFails ==
    /\ "mongo" \in Faults
    /\ \/ worker.step = "find" /\ UNCHANGED <<docs, lost>>
       \/ worker.step = "bulk" /\ \E S \in SUBSET Due(worker.pass, worker.cutoff) :
                                        docs' = Moved(S, worker.pass) /\ Lose(S)
    /\ worker' = After(worker)
    /\ UNCHANGED <<now, call, edit, announced>>

\* Nothing but the documents outlives a restart.
Crash ==
    /\ "crash" \in Faults
    /\ Lose(IF worker.step = "publish" THEN worker.found ELSE {})
    /\ worker' = Idle
    /\ call' = [v \in Calls |-> IF call[v].step = "idle" THEN call[v] ELSE [step |-> "done"]]
    /\ edit' = [e \in Edits |-> IF edit[e].step = "idle" THEN edit[e] ELSE [step |-> "done"]]
    /\ UNCHANGED <<now, docs, announced>>

-----------------------------------------------------------------------------

Validate(v) == ValidateExtend(v) \/ ValidateWrite(v)

Work == WorkerStart \/ WorkerFind \/ WorkerBulk \/ WorkerPublish

Next ==
    \/ Tick
    \/ \E a \in Auctions : CreateAuction(a) \/ DeleteAuction(a)
    \/ \E e \in Edits : UpdateFind(e) \/ UpdateWrite(e)
    \/ \E v \in Calls : ValidateFind(v) \/ Validate(v)
    \/ Work
    \/ WorkerFails
    \/ Crash

Spec == Init /\ [][Next]_vars

\* Time passes, requests that run finish, the worker is started every minute
\* and goes on; and from some time on its runs are not cut short.
Fairness ==
    /\ WF_vars(Tick)
    /\ \A e \in Edits : WF_vars(UpdateWrite(e))
    /\ \A v \in Calls : WF_vars(Validate(v))
    /\ WF_vars(Work)
    /\ <>[][Work \/ UNCHANGED worker]_vars

FairSpec == Spec /\ Fairness

-----------------------------------------------------------------------------
(* Properties                                                              *)

CallState ==
    [step: {"idle", "done"}]
        \union [step: {"extend", "write"}, of: Auctions, offer: Offers, doc: Doc]
EditState ==
    [step: {"idle", "done"}] \union [step: {"write"}, of: Auctions, doc: Doc]

\* Every variable holds a value of its type.
TypeOK ==
    /\ now \in Nat
    /\ docs \in [Auctions -> Doc \union {Unborn, Deleted}]
    /\ call \in [Calls -> CallState]
    /\ edit \in [Edits -> EditState]
    /\ worker \in [step: {"idle", "find", "bulk", "publish"}, pass: Passes,
                   cutoff: Nat, found: SUBSET Auctions]
    /\ worker.found = {} <=> worker.step \in {"idle", "find"}
    /\ announced \in [Auctions -> SUBSET {"ACTIVE", "ENDED"}]
    /\ lost \subseteq Auctions

\* No auction runs before its start or is over before its end, however stale
\* the documents that updates and validations write back: they write the
\* status and the times they have read together, and the worker compares
\* again in the update itself.
OnSchedule ==
    \A a \in Auctions :
        /\ Status(a, "ACTIVE") => docs[a].start <= now
        /\ Status(a, "ENDED") => docs[a].start <= now /\ docs[a].end <= now

\* Bids only raise the price: it falls only when a late update takes the
\* auction back to PENDING.
PriceRises ==
    [][\A a \in Auctions :
          Exists(a) /\ Exists(a)' /\ docs'[a].price < docs[a].price
              => docs'[a].status = "PENDING"]_docs

\* Every auction is over for good at some point, the ones that late writes
\* have brought back included.
AuctionsEnd ==
    \A a \in Auctions : Exists(a) ~> [](~Exists(a) \/ Status(a, "ENDED"))

\* Nothing but its announcement makes the bidding service settle an auction,
\* and no later run finds it: so an auction that is over has been announced,
\* or is about to be, or ended in a run that a restart or a half-done bulk
\* update has cut short.  That is so while the seller has not written an
\* update late.
EndsAnnounced ==
    (\A e \in Edits : edit[e].step # "done") =>
    \A a \in Auctions :
        Status(a, "ENDED") => \/ "ENDED" \in announced[a]
                              \/ /\ worker.pass = "end" /\ worker.step = "publish"
                                 /\ a \in worker.found
                              \/ a \in lost

\* auction.ended is published on the "Transition from ACTIVE to ENDED (via
\* Cron)" (auction-service README.md:122).
AnnouncedHasEnded ==
    [][\A a \in Auctions :
          "ENDED" \in announced'[a] \ announced[a] => ~Status(a, "ACTIVE")]_announced

=============================================================================
