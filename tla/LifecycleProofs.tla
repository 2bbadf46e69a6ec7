-------------------------- MODULE LifecycleProofs ---------------------------
(***************************************************************************)
(* What holds of AuctionLifecycle for every set of auctions, requests,     *)
(* prices and times, whatever fails: auctions keep to their schedule, and  *)
(* bids only raise prices.                                                 *)
(*                                                                         *)
(* Both rest on what the requests in flight have read (Reads): a           *)
(* validation an ACTIVE document, an update a PENDING one, each of them    *)
(* possibly outdated by the time it is written back.                       *)
(***************************************************************************)
EXTENDS AuctionLifecycle, TLAPS

Working(v) == call[v].step \in {"extend", "write"}
Editing(e) == edit[e].step = "write"

Reads ==
    /\ worker.cutoff <= now
    /\ \A v \in Calls : Working(v) => /\ call[v].doc.status = "ACTIVE"
                                      /\ call[v].doc.start <= now
    /\ \A e \in Edits : Editing(e) => edit[e].doc.status = "PENDING"

ScheduleInv == TypeOK /\ Reads /\ OnSchedule

-----------------------------------------------------------------------------
(* Lemmas                                                                  *)

LEMMA ExistingDoc ==
    ASSUME TypeOK, NEW a \in Auctions
    PROVE  Exists(a) <=> docs[a] \in Doc
BY NoDocAssumption DEF TypeOK, Exists

LEMMA CallFields ==
    ASSUME TypeOK, NEW v \in Calls, Working(v)
    PROVE  call[v].of \in Auctions /\ call[v].offer \in Nat /\ call[v].doc \in Doc
<1>1. call[v] \in CallState
  BY DEF TypeOK
<1> QED
  BY <1>1, DataAssumption DEF CallState, Working

LEMMA EditFields ==
    ASSUME TypeOK, NEW e \in Edits, Editing(e)
    PROVE  edit[e].of \in Auctions /\ edit[e].doc \in Doc
<1>1. edit[e] \in EditState
  BY DEF TypeOK
<1> QED
  BY <1>1 DEF EditState, Editing

\* An update keeps what it does not set.
LEMMA EditedDoc ==
    ASSUME NEW d \in Doc, NEW s \in Starts \union {d.start}, NEW t \in Ends \union {d.end}
    PROVE  /\ Edited(d, s, t) \in Doc
           /\ Edited(d, s, t).status = d.status /\ Edited(d, s, t).price = d.price
<1>1. s \in Nat /\ t \in Nat
  BY DataAssumption DEF Doc
<1> QED
  BY <1>1 DEF Doc, Edited

LEMMA ExtendedDoc ==
    ASSUME NEW d \in Doc, now \in Nat
    PROVE  /\ Extended(d) \in Doc /\ Extended(d).status = d.status
           /\ Extended(d).start = d.start /\ Extended(d).price = d.price
BY DataAssumption DEF Extended, Doc

LEMMA SavedDocs ==
    ASSUME TypeOK, NEW a \in Auctions, NEW d \in Doc, Save(a, d)
    PROVE  /\ docs' \in [Auctions -> Doc \union {Unborn, Deleted}]
           /\ \A b \in Auctions : docs'[b] = IF b = a /\ Exists(a) THEN d ELSE docs[b]
BY DEF TypeOK, Save

LEMMA MovedDocs ==
    ASSUME TypeOK, NEW p \in Passes, NEW t \in Nat, NEW S \in SUBSET Due(p, t),
           docs' = Moved(S, p)
    PROVE  /\ docs' \in [Auctions -> Doc \union {Unborn, Deleted}]
           /\ \A a \in Auctions :
                 \/ docs'[a] = docs[a]
                 \/ /\ docs[a] \in Doc /\ docs'[a] \in Doc
                    /\ docs[a].status = From(p) /\ docs'[a].status = To(p)
                    /\ (IF p = "activate" THEN docs[a].start ELSE docs[a].end) <= t
                    /\ docs'[a].start = docs[a].start /\ docs'[a].end = docs[a].end
                    /\ docs'[a].price = docs[a].price
<1>1. ASSUME NEW a \in Auctions, a \in S
      PROVE  /\ docs[a] \in Doc /\ docs[a].status = From(p)
             /\ (IF p = "activate" THEN docs[a].start ELSE docs[a].end) <= t
  BY <1>1, ExistingDoc DEF Due, Status
<1>2. ASSUME NEW a \in Auctions, a \in S
      PROVE  /\ docs'[a] = [docs[a] EXCEPT !.status = To(p)]
             /\ docs'[a] \in Doc
  <2>1. docs[a] \in Doc /\ docs'[a] = [docs[a] EXCEPT !.status = To(p)]
    BY <1>1, <1>2 DEF Moved
  <2> QED
    BY <2>1 DEF Doc, To
<1>3. ASSUME NEW a \in Auctions, a \notin S PROVE docs'[a] = docs[a]
  BY <1>3 DEF Moved
<1>4. docs' \in [Auctions -> Doc \union {Unborn, Deleted}]
  BY <1>2, <1>3 DEF TypeOK, Moved
<1>5. ASSUME NEW a \in Auctions, a \in S
      PROVE  /\ docs'[a].status = To(p) /\ docs'[a].start = docs[a].start
             /\ docs'[a].end = docs[a].end /\ docs'[a].price = docs[a].price
  BY <1>1, <1>2, <1>5 DEF Doc
<1> QED
  BY <1>1, <1>2, <1>3, <1>4, <1>5

\* Every step is one action.
LEMMA StepCases ==
    ASSUME Next
    PROVE  \/ Tick \/ WorkerStart \/ WorkerFind \/ WorkerBulk \/ WorkerPublish
           \/ WorkerFails \/ Crash
           \/ \E a \in Auctions : CreateAuction(a) \/ DeleteAuction(a)
           \/ \E e \in Edits : UpdateFind(e) \/ UpdateWrite(e)
           \/ \E v \in Calls : ValidateFind(v) \/ ValidateExtend(v) \/ ValidateWrite(v)
BY DEF Next, Validate, Work

-----------------------------------------------------------------------------
(* The schedule                                                            *)

LEMMA AfterTypes ==
    ASSUME TypeOK
    PROVE  /\ After(worker) \in [step: {"idle", "find", "bulk", "publish"}, pass: Passes,
                                 cutoff: Nat, found: SUBSET Auctions]
           /\ After(worker).found = {} /\ After(worker).step \in {"idle", "find"}
           /\ After(worker).cutoff \in {0, worker.cutoff}
BY DEF TypeOK, After, Idle, Passes

LEMMA TypeStep == TypeOK /\ [Next]_vars => TypeOK'
<1> SUFFICES ASSUME TypeOK, [Next]_vars PROVE TypeOK'
  OBVIOUS
<1> USE DEF TypeOK
<1>1. CASE Tick
  BY <1>1 DEF Tick
<1>2. ASSUME NEW a \in Auctions, CreateAuction(a) PROVE TypeOK'
  <2>1. PICK p \in Prices, s \in Starts, e \in Ends :
           docs' = [docs EXCEPT ![a] = [status |-> "PENDING", price |-> p, start |-> s,
                                        end |-> e]]
    BY <1>2 DEF CreateAuction
  <2>2. [status |-> "PENDING", price |-> p, start |-> s, end |-> e] \in Doc
    BY DataAssumption DEF Doc
  <2> QED
    BY <1>2, <2>1, <2>2 DEF CreateAuction
<1>3. ASSUME NEW a \in Auctions, DeleteAuction(a) PROVE TypeOK'
  BY <1>3 DEF DeleteAuction
<1>4. ASSUME NEW e \in Edits, UpdateFind(e) PROVE TypeOK'
  <2>1. PICK a \in Auctions :
           /\ Status(a, "PENDING")
           /\ edit' = [edit EXCEPT ![e] = [step |-> "write", of |-> a, doc |-> docs[a]]]
    BY <1>4 DEF UpdateFind
  <2>2. [step |-> "write", of |-> a, doc |-> docs[a]] \in EditState
    BY <2>1, ExistingDoc DEF Status, EditState
  <2> QED
    BY <1>4, <2>1, <2>2 DEF UpdateFind
<1>5. ASSUME NEW e \in Edits, UpdateWrite(e) PROVE TypeOK'
  <2>1. PICK s \in Starts \union {edit[e].doc.start}, t \in Ends \union {edit[e].doc.end} :
           Save(edit[e].of, Edited(edit[e].doc, s, t))
    BY <1>5 DEF UpdateWrite
  <2>2. edit[e].of \in Auctions /\ Edited(edit[e].doc, s, t) \in Doc
    BY <1>5, <2>1, EditFields, EditedDoc DEF UpdateWrite, Editing
  <2>3. [step |-> "done"] \in EditState
    BY DEF EditState
  <2> QED
    BY <1>5, <2>1, <2>2, <2>3, SavedDocs DEF UpdateWrite
<1>6. ASSUME NEW v \in Calls, ValidateFind(v) PROVE TypeOK'
  <2>1. PICK a \in Auctions, o \in Offers :
           /\ Exists(a)
           /\ call' = [call EXCEPT ![v] = [step |-> "extend", of |-> a, offer |-> o,
                                           doc |-> docs[a]]]
    BY <1>6 DEF ValidateFind
  <2>2. [step |-> "extend", of |-> a, offer |-> o, doc |-> docs[a]] \in CallState
    BY <2>1, ExistingDoc DEF CallState
  <2> QED
    BY <1>6, <2>1, <2>2 DEF ValidateFind
<1>7. ASSUME NEW v \in Calls, ValidateExtend(v) PROVE TypeOK'
  <2>1. Extended(call[v].doc) \in Doc /\ call[v] \in CallState
    BY <1>7, CallFields, ExtendedDoc DEF ValidateExtend, Working
  <2>2. [call[v] EXCEPT !.doc = Extended(call[v].doc), !.step = "write"] \in CallState
    BY <1>7, <2>1 DEF ValidateExtend, CallState
  <2> QED
    BY <1>7, <2>2 DEF ValidateExtend
<1>8. ASSUME NEW v \in Calls, ValidateWrite(v) PROVE TypeOK'
  <2>1. call[v].of \in Auctions /\ [call[v].doc EXCEPT !.price = call[v].offer] \in Doc
    BY <1>8, CallFields DEF ValidateWrite, Working, Doc
  <2>2. [step |-> "done"] \in CallState
    BY DEF CallState
  <2> QED
    BY <1>8, <2>1, <2>2, SavedDocs DEF ValidateWrite
<1>9. CASE WorkerStart
  BY <1>9 DEF WorkerStart, Idle, Passes
<1>10. CASE WorkerFind
  <2>1. Due(worker.pass, worker.cutoff) \subseteq Auctions
    BY DEF Due
  <2> QED
    BY <1>10, <2>1, AfterTypes DEF WorkerFind
<1>11. CASE WorkerBulk
  <2>1. docs' \in [Auctions -> Doc \union {Unborn, Deleted}]
    BY <1>11, MovedDocs DEF WorkerBulk
  <2> QED
    BY <1>11, <2>1, AfterTypes DEF WorkerBulk
<1>12. CASE WorkerPublish
  <2>1. PICK a \in worker.found :
           /\ announced' = [announced EXCEPT ![a] = @ \union {To(worker.pass)}]
           /\ worker' = IF worker.found = {a} THEN After(worker)
                        ELSE [worker EXCEPT !.found = @ \ {a}]
    BY <1>12 DEF WorkerPublish
  <2>2. To(worker.pass) \in {"ACTIVE", "ENDED"}
    BY DEF To
  <2> QED
    BY <1>12, <2>1, <2>2, AfterTypes DEF WorkerPublish
<1>13. CASE WorkerFails
  <2>1. docs' \in [Auctions -> Doc \union {Unborn, Deleted}]
    BY <1>13, MovedDocs DEF WorkerFails
  <2>2. lost' \subseteq Auctions
    BY <1>13 DEF WorkerFails, Lose, Due
  <2> QED
    BY <1>13, <2>1, <2>2, AfterTypes DEF WorkerFails
<1>14. CASE Crash
  <2>1. [step |-> "done"] \in CallState /\ [step |-> "done"] \in EditState
    BY DEF CallState, EditState
  <2>2. lost' \subseteq Auctions
    BY <1>14 DEF Crash, Lose
  <2> QED
    BY <1>14, <2>1, <2>2 DEF Crash, Idle, Passes
<1>15. CASE UNCHANGED vars
  BY <1>15 DEF vars
<1> QED
  BY StepCases, <1>1, <1>2, <1>3, <1>4, <1>5, <1>6, <1>7, <1>8, <1>9, <1>10, <1>11, <1>12,
     <1>13, <1>14, <1>15

\* Only the steps of the requests and of the worker matter.
LEMMA ScheduleStep == ScheduleInv /\ [Next]_vars => ScheduleInv'
<1> SUFFICES ASSUME ScheduleInv, [Next]_vars PROVE Reads' /\ OnSchedule'
  BY TypeStep DEF ScheduleInv
<1>1. TypeOK /\ TypeOK'
  BY TypeStep DEF ScheduleInv
<1> USE <1>1 DEF ScheduleInv, Reads, OnSchedule, Working, Editing
<1>2. CASE Tick
  <2>1. /\ now \in Nat /\ worker.cutoff \in Nat /\ now' = now + 1
        /\ UNCHANGED <<docs, call, edit, worker>>
    BY <1>2 DEF Tick, TypeOK
  <2>2. \A a \in Auctions : Exists(a) => docs[a].start \in Nat /\ docs[a].end \in Nat
    BY ExistingDoc DEF Doc
  <2>3. \A v \in Calls : Working(v) => call[v].doc.start \in Nat
    BY CallFields DEF Doc
  <2>4. Reads'
    BY <2>1, <2>3
  <2>5. OnSchedule'
    BY <2>1, <2>2 DEF Status, Exists
  <2> QED
    BY <2>4, <2>5
<1>3. ASSUME NEW a \in Auctions, CreateAuction(a) PROVE Reads' /\ OnSchedule'
  BY <1>3 DEF CreateAuction, TypeOK, Status, Exists
<1>4. ASSUME NEW a \in Auctions, DeleteAuction(a) PROVE Reads' /\ OnSchedule'
  BY <1>4 DEF DeleteAuction, TypeOK, Status, Exists
<1>5. ASSUME NEW e \in Edits, UpdateFind(e) PROVE Reads' /\ OnSchedule'
  BY <1>5 DEF UpdateFind, TypeOK, Status, Exists
<1>6. ASSUME NEW e \in Edits, UpdateWrite(e) PROVE Reads' /\ OnSchedule'
  <2>1. PICK s \in Starts \union {edit[e].doc.start}, t \in Ends \union {edit[e].doc.end} :
           Save(edit[e].of, Edited(edit[e].doc, s, t))
    BY <1>6 DEF UpdateWrite
  <2> DEFINE d == Edited(edit[e].doc, s, t)
  <2>2. edit[e].of \in Auctions /\ d \in Doc /\ d.status = "PENDING"
    BY <1>6, EditFields, EditedDoc DEF UpdateWrite
  <2>3. \A b \in Auctions : docs'[b] = docs[b] \/ docs'[b] = d
    BY <2>1, <2>2, SavedDocs
  <2>4. OnSchedule'
    BY <1>6, <2>2, <2>3 DEF UpdateWrite, Status, Exists
  <2> QED
    BY <1>6, <2>4 DEF UpdateWrite, TypeOK
<1>7. ASSUME NEW v \in Calls, ValidateFind(v) PROVE Reads' /\ OnSchedule'
  <2>1. PICK a \in Auctions, o \in Offers :
           /\ Exists(a) /\ docs[a].status = "ACTIVE"
           /\ call' = [call EXCEPT ![v] = [step |-> "extend", of |-> a, offer |-> o,
                                           doc |-> docs[a]]]
    BY <1>7 DEF ValidateFind, Accepts
  <2>2. docs[a].start <= now
    BY <2>1 DEF Status
  <2> QED
    BY <1>7, <2>1, <2>2 DEF ValidateFind, TypeOK, Status, Exists
<1>8. ASSUME NEW v \in Calls, ValidateExtend(v) PROVE Reads' /\ OnSchedule'
  <2>1. call[v].doc \in Doc /\ now \in Nat
    BY <1>8, CallFields DEF ValidateExtend, TypeOK
  <2>2. call'[v].doc = Extended(call[v].doc)
    BY <1>8, <2>1, CallFields DEF ValidateExtend, TypeOK, CallState
  <2>3. call'[v].doc.status = "ACTIVE" /\ call'[v].doc.start <= now
    BY <1>8, <2>1, <2>2, ExtendedDoc DEF ValidateExtend
  <2> QED
    BY <1>8, <2>3 DEF ValidateExtend, TypeOK, Status, Exists
<1>9. ASSUME NEW v \in Calls, ValidateWrite(v) PROVE Reads' /\ OnSchedule'
  <2> DEFINE d == [call[v].doc EXCEPT !.price = call[v].offer]
  <2>1. /\ call[v].of \in Auctions /\ d \in Doc
        /\ d.status = "ACTIVE" /\ d.start <= now
    BY <1>9, CallFields DEF ValidateWrite, Doc
  <2>2. \A b \in Auctions : docs'[b] = docs[b] \/ docs'[b] = d
    BY <1>9, <2>1, SavedDocs DEF ValidateWrite
  <2>3. OnSchedule'
    BY <1>9, <2>1, <2>2 DEF ValidateWrite, Status, Exists
  <2> QED
    BY <1>9, <2>3 DEF ValidateWrite, TypeOK
<1>10. CASE WorkerStart
  BY <1>10 DEF WorkerStart, Idle, TypeOK, Status, Exists
<1>11. CASE WorkerFind
  <2>1. worker'.cutoff \in {0, worker.cutoff}
    BY <1>11, AfterTypes DEF WorkerFind, TypeOK
  <2> QED
    BY <1>11, <2>1 DEF WorkerFind, TypeOK, Status, Exists
<1>12. ASSUME NEW S \in SUBSET Due(worker.pass, worker.cutoff),
              docs' = Moved(S, worker.pass), UNCHANGED <<now, call, edit>>,
              worker'.cutoff \in {0, worker.cutoff}
       PROVE  Reads' /\ OnSchedule'
  <2>1. worker.pass \in Passes /\ worker.cutoff \in Nat
    BY DEF TypeOK
  <2>2. ASSUME NEW a \in Auctions, docs'[a] # docs[a]
        PROVE  /\ Exists(a) /\ docs[a].status = From(worker.pass)
               /\ docs'[a].status = To(worker.pass)
               /\ (IF worker.pass = "activate" THEN docs[a].start ELSE docs[a].end) <= worker.cutoff
               /\ docs'[a].start = docs[a].start /\ docs'[a].end = docs[a].end
               /\ docs[a].start \in Nat /\ docs[a].end \in Nat
    BY <1>12, <2>1, <2>2, MovedDocs, ExistingDoc DEF Doc
  <2>3. OnSchedule'
    <3> SUFFICES ASSUME NEW a \in Auctions
                 PROVE  /\ Status(a, "ACTIVE")' => docs'[a].start <= now
                        /\ Status(a, "ENDED")' => docs'[a].start <= now /\ docs'[a].end <= now
      BY <1>12
    <3>1. CASE docs'[a] = docs[a]
      BY <3>1 DEF Status, Exists
    <3>2. CASE docs'[a] # docs[a] /\ worker.pass = "activate"
      BY <2>2, <3>2 DEF Status, To, TypeOK
    <3>3. CASE docs'[a] # docs[a] /\ worker.pass = "end"
      BY <2>2, <3>3 DEF Status, From, To, TypeOK
    <3> QED
      BY <2>1, <3>1, <3>2, <3>3 DEF Passes
  <2> QED
    BY <1>12, <2>3 DEF TypeOK
<1>13. CASE WorkerBulk
  <2>1. worker'.cutoff \in {0, worker.cutoff}
    BY <1>13, AfterTypes DEF WorkerBulk, TypeOK
  <2> QED
    BY <1>12, <1>13, <2>1 DEF WorkerBulk
<1>14. CASE WorkerPublish
  <2>1. worker'.cutoff \in {0, worker.cutoff}
    BY <1>14, AfterTypes DEF WorkerPublish, TypeOK
  <2> QED
    BY <1>14, <2>1 DEF WorkerPublish, TypeOK, Status, Exists
<1>15. CASE WorkerFails
  <2>1. worker'.cutoff \in {0, worker.cutoff}
    BY <1>15, AfterTypes DEF WorkerFails, TypeOK
  <2>2. CASE UNCHANGED docs
    BY <1>15, <2>1, <2>2 DEF WorkerFails, TypeOK, Status, Exists
  <2> QED
    BY <1>12, <1>15, <2>1, <2>2 DEF WorkerFails
<1>16. CASE Crash
  BY <1>16 DEF Crash, Idle, TypeOK, Status, Exists
<1>17. CASE UNCHANGED vars
  BY <1>17 DEF vars, Status, Exists
<1> QED
  BY StepCases, <1>2, <1>3, <1>4, <1>5, <1>6, <1>7, <1>8, <1>9, <1>10, <1>11, <1>13, <1>14,
     <1>15, <1>16, <1>17

LEMMA InitSchedule == Init => ScheduleInv
BY DEF Init, ScheduleInv, TypeOK, Reads, OnSchedule, Working, Editing, Status, Exists, Idle,
   CallState, EditState, Passes

THEOREM ScheduleInvariant == Spec => []ScheduleInv
BY InitSchedule, ScheduleStep, PTL DEF Spec

\* The state of the service has its types, whatever fails.
THEOREM TypesHold == Spec => []TypeOK
BY ScheduleInvariant, PTL DEF ScheduleInv

\* No auction is ACTIVE before its start or ENDED before its end, whatever
\* stale documents are written back, extended or edited.
THEOREM AuctionsKeepSchedule == Spec => []OnSchedule
BY ScheduleInvariant, PTL DEF ScheduleInv

-----------------------------------------------------------------------------
(* The price                                                               *)

\* A validation offers more than the price it has read, which is still at
\* least the price of the document.
Bids ==
    \A v \in Calls : Working(v) =>
        /\ call[v].doc.price < call[v].offer
        /\ Exists(call[v].of) => docs[call[v].of].price <= call[v].doc.price

\* The validations of an auction come one at a time.
Serial ==
    \A v, w \in Calls : Working(v) /\ Working(w) /\ call[v].of = call[w].of => v = w

\* All updates in flight have read the same price: that of the auction
\* before its first bid, at most what anybody else has read.
Rewinds ==
    \A e \in Edits : Editing(e) =>
        /\ Exists(edit[e].of) => edit[e].doc.price <= docs[edit[e].of].price
        /\ Status(edit[e].of, "PENDING") => edit[e].doc.price = docs[edit[e].of].price
        /\ \A f \in Edits : Editing(f) /\ edit[f].of = edit[e].of
                               => edit[f].doc.price = edit[e].doc.price
        /\ \A v \in Calls : Working(v) /\ call[v].of = edit[e].of
                               => edit[e].doc.price <= call[v].doc.price

\* A request is about a document that has been created.
Born ==
    /\ \A v \in Calls : Working(v) => docs[call[v].of] # Unborn
    /\ \A e \in Edits : Editing(e) => docs[edit[e].of] # Unborn

PriceRest == Bids /\ Serial /\ Rewinds /\ Born

PriceInv == ScheduleInv /\ PriceRest

\* A step that leaves requests alone, and of every document the price; the
\* status of none becomes PENDING.
LEMMA PriceUntouched ==
    ASSUME PriceInv, UNCHANGED <<call, edit>>,
           \A a \in Auctions :
              /\ Exists(a)' => /\ Exists(a) /\ docs'[a].price = docs[a].price
                               /\ Status(a, "PENDING")' => Status(a, "PENDING")
              /\ docs'[a] = Unborn => docs[a] = Unborn
    PROVE  PriceRest'
<1> USE DEF PriceInv, PriceRest, ScheduleInv, Working, Editing
<1>1. \A v \in Calls : Working(v) => call[v].of \in Auctions
  BY CallFields
<1>2. \A e \in Edits : Editing(e) => edit[e].of \in Auctions
  BY EditFields
<1>3. ASSUME NEW a \in Auctions, Status(a, "PENDING")' PROVE Exists(a)'
  BY <1>3 DEF Status
<1>4. Bids'
  BY <1>1 DEF Bids
<1>5. Serial'
  BY DEF Serial
<1>6. Rewinds'
  BY <1>2, <1>3 DEF Rewinds
<1>7. Born'
  BY <1>1, <1>2 DEF Born
<1> QED
  BY <1>4, <1>5, <1>6, <1>7

\* A step that ends requests, or changes no more than the times they have read.
LEMMA FewerInFlight ==
    ASSUME PriceInv, UNCHANGED docs,
           \A v \in Calls : Working(v)' =>
               /\ Working(v) /\ call'[v].of = call[v].of /\ call'[v].offer = call[v].offer
               /\ call'[v].doc.price = call[v].doc.price,
           \A e \in Edits : Editing(e)' => Editing(e) /\ edit'[e] = edit[e]
    PROVE  PriceRest'
<1> USE DEF PriceInv, PriceRest
<1>1. Bids'
  BY DEF Bids, Exists
<1>2. Serial'
  BY DEF Serial
<1>3. Rewinds'
  BY DEF Rewinds, Exists, Status
<1>4. Born'
  BY DEF Born
<1> QED
  BY <1>1, <1>2, <1>3, <1>4

LEMMA CreateKeepsPrices ==
    ASSUME PriceInv, NEW a \in Auctions, CreateAuction(a)
    PROVE  PriceRest'
<1> USE DEF PriceInv, PriceRest, ScheduleInv, Working, Editing
<1>1. docs[a] = Unborn /\ UNCHANGED <<call, edit>>
      /\ \A b \in Auctions : b # a => docs'[b] = docs[b]
  BY DEF CreateAuction, TypeOK
<1>2. \A v \in Calls : Working(v) => call[v].of \in Auctions \ {a}
  BY <1>1, CallFields DEF Born
<1>3. \A e \in Edits : Editing(e) => edit[e].of \in Auctions \ {a}
  BY <1>1, EditFields DEF Born
<1>4. Bids' /\ Serial'
  BY <1>1, <1>2 DEF Bids, Serial, Exists
<1>5. Rewinds'
  BY <1>1, <1>3 DEF Rewinds, Exists, Status
<1>6. Born'
  BY <1>1, <1>2, <1>3 DEF Born
<1> QED
  BY <1>4, <1>5, <1>6

LEMMA FindKeepsPrices ==
    ASSUME PriceInv, NEW e \in Edits, UpdateFind(e)
    PROVE  PriceRest'
<1> USE DEF PriceInv, PriceRest, ScheduleInv, Working, Editing
<1>1. PICK a \in Auctions :
         /\ Status(a, "PENDING")
         /\ edit' = [edit EXCEPT ![e] = [step |-> "write", of |-> a, doc |-> docs[a]]]
  BY DEF UpdateFind
<1>2. /\ edit'[e] = [step |-> "write", of |-> a, doc |-> docs[a]]
      /\ \A f \in Edits : f # e => edit'[f] = edit[f]
      /\ UNCHANGED <<docs, call>> /\ edit[e].step = "idle"
  BY <1>1 DEF UpdateFind, TypeOK
<1>3. docs[a] \in Doc /\ docs[a] # Unborn /\ docs[a].price \in Nat
  BY <1>1, ExistingDoc, NoDocAssumption DEF Status, Doc
<1>4. Bids' /\ Serial' /\ Born'
  BY <1>2, <1>3 DEF Bids, Serial, Born, Exists
<1>5. Rewinds'
  BY <1>1, <1>2, <1>3 DEF Rewinds, Bids, Exists, Status
<1> QED
  BY <1>4, <1>5

LEMMA WriteKeepsPrices ==
    ASSUME PriceInv, NEW e \in Edits, UpdateWrite(e)
    PROVE  PriceRest'
<1> USE DEF PriceInv, PriceRest, ScheduleInv, Working, Editing
<1>1. PICK s \in Starts \union {edit[e].doc.start}, t \in Ends \union {edit[e].doc.end} :
         Save(edit[e].of, Edited(edit[e].doc, s, t))
  BY DEF UpdateWrite
<1> DEFINE a == edit[e].of
           d == Edited(edit[e].doc, s, t)
<1>2. /\ a \in Auctions /\ d \in Doc /\ d.status = "PENDING"
      /\ d.price = edit[e].doc.price /\ d.price \in Nat
  BY EditFields, EditedDoc DEF UpdateWrite, Reads, Doc
<1>3. \A b \in Auctions : docs'[b] = IF b = a /\ Exists(a) THEN d ELSE docs[b]
  BY <1>1, <1>2, SavedDocs
<1>4. /\ ~Editing(e)' /\ \A f \in Edits : f # e => edit'[f] = edit[f]
      /\ UNCHANGED call
  BY DEF UpdateWrite, TypeOK
<1>5. \A v \in Calls : Working(v) => call[v].of \in Auctions
  BY CallFields
<1>6. \A f \in Edits : Editing(f) => edit[f].of \in Auctions
  BY EditFields
<1>7. d # Unborn
  BY <1>2, NoDocAssumption
<1>8. Editing(e)
  BY DEF UpdateWrite
<1> HIDE DEF a, d
<1>9. \A b \in Auctions : Exists(b)' => Exists(b)
  BY <1>3 DEF Exists
<1>10. Bids'
  <2> SUFFICES ASSUME NEW v \in Calls, Working(v), NEW b \in Auctions, b = call[v].of,
                      Exists(b)'
               PROVE  docs'[b].price <= call[v].doc.price
    BY <1>4, <1>5 DEF Bids, Exists
  <2>1. CASE b = a
    BY <1>2, <1>3, <1>8, <1>9, <2>1 DEF Rewinds, a
  <2>2. CASE b # a
    BY <1>3, <1>9, <2>2 DEF Bids
  <2> QED
    BY <2>1, <2>2
<1>11. Serial' /\ Born'
  BY <1>3, <1>4, <1>5, <1>6, <1>7 DEF Serial, Born
<1>12. Rewinds'
  <2> SUFFICES ASSUME NEW f \in Edits, Editing(f), f # e, NEW b \in Auctions, b = edit[f].of,
                      Exists(b)'
               PROVE  /\ edit[f].doc.price <= docs'[b].price
                      /\ docs'[b].status = "PENDING" => edit[f].doc.price = docs'[b].price
    BY <1>4, <1>6 DEF Rewinds, Status, Exists
  <2>1. CASE b = a
    <3>1. Exists(a) /\ docs'[b] = d
      BY <1>3, <1>9, <2>1
    <3>2. edit[f].doc.price = edit[e].doc.price
      BY <1>8, <2>1 DEF Rewinds, a
    <3> QED
      BY <1>2, <3>1, <3>2
  <2>2. CASE b # a
    BY <1>3, <1>9, <2>2 DEF Rewinds, Status
  <2> QED
    BY <2>1, <2>2
<1> QED
  BY <1>10, <1>11, <1>12

LEMMA AcceptKeepsPrices ==
    ASSUME PriceInv, NEW v \in Calls, ValidateFind(v)
    PROVE  PriceRest'
<1> USE DEF PriceInv, PriceRest, ScheduleInv, Working, Editing
<1>1. PICK a \in Auctions, o \in Offers :
         /\ Exists(a) /\ o > docs[a].price /\ Alone(v, a)
         /\ call' = [call EXCEPT ![v] = [step |-> "extend", of |-> a, offer |-> o,
                                         doc |-> docs[a]]]
  BY DEF ValidateFind, Accepts
<1>2. /\ call'[v] = [step |-> "extend", of |-> a, offer |-> o, doc |-> docs[a]]
      /\ \A w \in Calls : w # v => call'[w] = call[w]
      /\ UNCHANGED <<docs, edit>>
  BY <1>1 DEF ValidateFind, TypeOK
<1>3. docs[a] \in Doc /\ docs[a] # Unborn /\ docs[a].price \in Nat /\ o \in Nat
  BY <1>1, ExistingDoc, NoDocAssumption, DataAssumption DEF Doc
<1>4. \A w \in Calls : w # v /\ Working(w) => call[w].of # a
  BY <1>1 DEF Alone
<1>5. Bids' /\ Serial' /\ Born'
  BY <1>1, <1>2, <1>3, <1>4 DEF Bids, Serial, Born, Exists
<1>6. Rewinds'
  BY <1>1, <1>2, <1>3 DEF Rewinds, Exists, Status
<1> QED
  BY <1>5, <1>6

\* What a validation writes raises the price.
LEMMA BidRaisesPrice ==
    ASSUME PriceInv, NEW v \in Calls, ValidateWrite(v)
    PROVE  /\ \A a \in Auctions :
                 docs'[a] = docs[a] \/ (docs'[a] \in Doc /\ docs[a] \in Doc
                                        /\ a = call[v].of
                                        /\ docs'[a].status = "ACTIVE"
                                        /\ docs[a].price <= call[v].doc.price
                                        /\ call[v].doc.price < docs'[a].price
                                        /\ docs[a].price \in Nat /\ docs'[a].price \in Nat
                                        /\ call[v].doc.price \in Nat)
           /\ \A a \in Auctions : Exists(a)' => Exists(a)
<1> USE DEF PriceInv, PriceRest, ScheduleInv, Working
<1> DEFINE a == call[v].of
           d == [call[v].doc EXCEPT !.price = call[v].offer]
<1>1. Working(v) /\ Save(a, d)
  BY DEF ValidateWrite
<1>2. call[v].doc \in Doc /\ call[v].offer \in Nat /\ a \in Auctions
  BY <1>1, CallFields
<1>3. d \in Doc /\ d.price = call[v].offer /\ d.status = "ACTIVE" /\ call[v].doc.price \in Nat
  BY <1>1, <1>2 DEF Doc, Reads
<1>4. \A b \in Auctions : docs'[b] = IF b = a /\ Exists(a) THEN d ELSE docs[b]
  BY <1>1, <1>2, <1>3, SavedDocs
<1>5. Exists(a) => docs[a] \in Doc /\ docs[a].price \in Nat
  BY <1>2, ExistingDoc DEF Doc
<1>6. call[v].doc.price < call[v].offer /\ (Exists(a) => docs[a].price <= call[v].doc.price)
  BY <1>1 DEF Bids
<1> HIDE DEF a, d
<1>7. ASSUME NEW b \in Auctions, Exists(b)' PROVE Exists(b)
  BY <1>4, <1>7 DEF Exists
<1> QED
  BY <1>2, <1>3, <1>4, <1>5, <1>6, <1>7 DEF a

LEMMA BidKeepsPrices ==
    ASSUME PriceInv, NEW v \in Calls, ValidateWrite(v)
    PROVE  PriceRest'
<1> USE DEF PriceInv, PriceRest, ScheduleInv, Working, Editing
<1>1. /\ ~Working(v)' /\ \A w \in Calls : w # v => call'[w] = call[w]
      /\ UNCHANGED edit /\ Working(v)
  BY DEF ValidateWrite, TypeOK
<1>2. \A w \in Calls : Working(w) => call[w].of \in Auctions
  BY CallFields
<1>3. \A e \in Edits : Editing(e) => edit[e].of \in Auctions /\ edit[e].doc.price \in Nat
  BY EditFields DEF Doc
<1>4. \A a \in Auctions : docs'[a] = Unborn => docs[a] = Unborn
  BY BidRaisesPrice, NoDocAssumption
<1>5. \A w \in Calls : w # v /\ Working(w) => docs'[call[w].of] = docs[call[w].of]
  BY <1>1, <1>2, BidRaisesPrice DEF Serial
<1>6. Bids'
  BY <1>1, <1>2, <1>5 DEF Bids, Exists
<1>7. Serial' /\ Born'
  BY <1>1, <1>2, <1>3, <1>4 DEF Serial, Born
<1>8. Rewinds'
  <2> SUFFICES ASSUME NEW e \in Edits, Editing(e), NEW a \in Auctions, a = edit[e].of,
                      Exists(a)'
               PROVE  /\ edit[e].doc.price <= docs'[a].price
                      /\ docs'[a].status = "PENDING" => edit[e].doc.price = docs'[a].price
    BY <1>1, <1>3 DEF Rewinds, Status, Exists
  <2>1. CASE docs'[a] = docs[a]
    BY <2>1 DEF Rewinds, Status, Exists
  <2>2. CASE docs'[a] # docs[a]
    <3>1. /\ a = call[v].of /\ docs'[a].status = "ACTIVE"
          /\ call[v].doc.price < docs'[a].price
          /\ docs'[a].price \in Nat /\ call[v].doc.price \in Nat
      BY <2>2, BidRaisesPrice
    <3>2. edit[e].doc.price <= call[v].doc.price /\ edit[e].doc.price \in Nat
      BY <1>1, <1>3, <3>1 DEF Rewinds
    <3>3. edit[e].doc.price <= docs'[a].price
      BY <3>1, <3>2
    <3> QED
      BY <3>1, <3>3
  <2> QED
    BY <2>1, <2>2
<1> QED
  BY <1>6, <1>7, <1>8

\* The worker moves statuses only, and none to PENDING.
LEMMA WorkerKeepsPrices ==
    ASSUME PriceInv, UNCHANGED <<call, edit>>,
           NEW S \in SUBSET Due(worker.pass, worker.cutoff), docs' = Moved(S, worker.pass)
    PROVE  /\ PriceRest'
           /\ \A a \in Auctions : Exists(a)' => docs'[a].price = docs[a].price
<1>1. TypeOK /\ worker.pass \in Passes /\ worker.cutoff \in Nat
  BY DEF PriceInv, ScheduleInv, TypeOK
<1>2. To(worker.pass) # "PENDING"
  BY DEF To
<1>3. ASSUME NEW a \in Auctions, Exists(a)'
      PROVE  /\ Exists(a) /\ docs'[a].price = docs[a].price
             /\ Status(a, "PENDING")' => Status(a, "PENDING")
  BY <1>1, <1>2, <1>3, MovedDocs, ExistingDoc DEF Exists, Status
<1>4. \A a \in Auctions : docs'[a] = Unborn => docs[a] = Unborn
  BY <1>1, MovedDocs, NoDocAssumption
<1> QED
  BY <1>3, <1>4, PriceUntouched

LEMMA DeleteKeepsPrices ==
    ASSUME PriceInv, NEW a \in Auctions, DeleteAuction(a)
    PROVE  PriceRest' /\ \A b \in Auctions : Exists(b)' => docs'[b].price = docs[b].price
<1>1. /\ docs'[a] = Deleted /\ \A b \in Auctions : b # a => docs'[b] = docs[b]
      /\ UNCHANGED <<call, edit>>
  BY DEF DeleteAuction, PriceInv, ScheduleInv, TypeOK
<1>2. ASSUME NEW b \in Auctions, Exists(b)'
      PROVE  /\ Exists(b) /\ docs'[b].price = docs[b].price
             /\ Status(b, "PENDING")' => Status(b, "PENDING")
  BY <1>1, <1>2 DEF Exists, Status
<1> QED
  BY <1>1, <1>2, PriceUntouched, NoDocAssumption

LEMMA ExtendKeepsPrices ==
    ASSUME PriceInv, NEW v \in Calls, ValidateExtend(v)
    PROVE  PriceRest'
<1> USE DEF Working, PriceInv, ScheduleInv
<1>1. call[v].doc \in Doc /\ now \in Nat /\ call[v] \in CallState
  BY CallFields DEF ValidateExtend, TypeOK
<1>2. /\ call'[v].of = call[v].of /\ call'[v].offer = call[v].offer
      /\ call'[v].doc = Extended(call[v].doc)
  BY <1>1 DEF ValidateExtend, TypeOK, CallState
<1>3. call'[v].doc.price = call[v].doc.price
  BY <1>1, <1>2, ExtendedDoc
<1>4. \A w \in Calls : w # v => call'[w] = call[w]
  BY DEF ValidateExtend, TypeOK
<1> QED
  BY <1>2, <1>3, <1>4, FewerInFlight DEF ValidateExtend, Editing

LEMMA PriceStep == PriceInv /\ [Next]_vars => PriceInv'
<1> SUFFICES ASSUME PriceInv, [Next]_vars PROVE PriceRest'
  BY ScheduleStep DEF PriceInv
<1>1. CASE Tick \/ WorkerStart \/ WorkerFind \/ WorkerPublish \/ UNCHANGED vars
  BY <1>1, PriceUntouched
  DEF Tick, WorkerStart, WorkerFind, WorkerPublish, vars, Exists, Status
<1>2. CASE WorkerBulk \/ WorkerFails
  <2>1. CASE UNCHANGED docs
    BY <1>2, <2>1, PriceUntouched DEF WorkerBulk, WorkerFails, Exists, Status
  <2> QED
    BY <1>2, <2>1, WorkerKeepsPrices DEF WorkerBulk, WorkerFails
<1>3. CASE Crash
  BY <1>3, FewerInFlight DEF Crash, Working, Editing, PriceInv, ScheduleInv, TypeOK
<1> QED
  BY StepCases, <1>1, <1>2, <1>3, CreateKeepsPrices, DeleteKeepsPrices, FindKeepsPrices,
     WriteKeepsPrices, AcceptKeepsPrices, ExtendKeepsPrices, BidKeepsPrices

\* Bids only raise the price of an auction, whatever stale document they
\* write back: only an update of the seller lowers it, and takes the auction
\* back to PENDING.
THEOREM PricesRise == Spec => PriceRises
<1>1. Init => PriceInv
  BY InitSchedule
  DEF Init, PriceInv, PriceRest, Bids, Serial, Rewinds, Born, Working, Editing
<1>2. PriceInv /\ [Next]_vars =>
          [\A a \in Auctions : Exists(a) /\ Exists(a)' /\ docs'[a].price < docs[a].price
                                  => docs'[a].status = "PENDING"]_docs
  <2> SUFFICES ASSUME PriceInv, Next, docs' # docs, NEW a \in Auctions,
                      Exists(a), Exists(a)', docs'[a].price < docs[a].price
               PROVE  docs'[a].status = "PENDING"
    BY DEF vars
  <2>1. docs[a] \in Doc /\ docs[a].price \in Nat /\ ~(docs[a].price < docs[a].price)
    BY ExistingDoc DEF PriceInv, ScheduleInv, Doc
  <2>2. ASSUME NEW b \in Auctions, CreateAuction(b) PROVE FALSE
    <3>1. docs'[a] = docs[a]
      BY <2>2 DEF CreateAuction, Exists, PriceInv, ScheduleInv, TypeOK
    <3> QED
      BY <2>1, <3>1
  <2>3. ASSUME NEW b \in Auctions, DeleteAuction(b) PROVE FALSE
    BY <2>1, <2>3, DeleteKeepsPrices
  <2>4. CASE WorkerBulk \/ WorkerFails
    BY <2>1, <2>4, WorkerKeepsPrices DEF WorkerBulk, WorkerFails
  <2>5. ASSUME NEW v \in Calls, ValidateWrite(v) PROVE FALSE
    BY <2>1, <2>5, BidRaisesPrice
  <2>6. ASSUME NEW e \in Edits, UpdateWrite(e) PROVE docs'[a].status = "PENDING"
    <3>1. PICK s \in Starts \union {edit[e].doc.start}, t \in Ends \union {edit[e].doc.end} :
             Save(edit[e].of, Edited(edit[e].doc, s, t))
      BY <2>6 DEF UpdateWrite
    <3>2. /\ edit[e].of \in Auctions /\ Edited(edit[e].doc, s, t) \in Doc
          /\ Edited(edit[e].doc, s, t).status = "PENDING"
      BY <2>6, EditFields, EditedDoc
      DEF UpdateWrite, Editing, PriceInv, ScheduleInv, Reads
    <3>3. docs'[a] = docs[a] \/ docs'[a] = Edited(edit[e].doc, s, t)
      BY <3>1, <3>2, SavedDocs DEF PriceInv, ScheduleInv
    <3> QED
      BY <2>1, <3>2, <3>3
  <2>7. ASSUME NEW x,
               \/ x \in Edits /\ UpdateFind(x)
               \/ x \in Calls /\ (ValidateFind(x) \/ ValidateExtend(x))
               \/ Tick \/ WorkerStart \/ WorkerFind \/ WorkerPublish \/ Crash
        PROVE  FALSE
    BY <2>7 DEF UpdateFind, ValidateFind, ValidateExtend, Tick, WorkerStart, WorkerFind,
       WorkerPublish, Crash
  <2> QED
    BY StepCases, <2>2, <2>3, <2>4, <2>5, <2>6, <2>7
<1> QED
  BY <1>1, <1>2, PriceStep, PTL DEF Spec, PriceRises

-----------------------------------------------------------------------------
(* The announcement                                                        *)

NoLateUpdate == \A e \in Edits : edit[e].step # "done"

\* The announcement of a is out, or gone for good.
Told(a) == "ENDED" \in announced[a] \/ a \in lost

Telling(a) == worker.pass = "end" /\ worker.step = "publish" /\ a \in worker.found

\* Without late updates a validation in flight is about an auction that runs,
\* until no later than the validation has read, or that is over.
ReadsRunning ==
    \A v \in Calls : Working(v) /\ Exists(call[v].of) =>
        \/ Status(call[v].of, "ENDED")
        \/ Status(call[v].of, "ACTIVE") /\ docs[call[v].of].end <= call[v].doc.end

\* What the bulk update would end beyond what was found has ended before: a
\* stale validation has brought it back.
NothingMissed ==
    worker.step = "bulk" /\ worker.pass = "end" =>
        \A a \in Due("end", worker.cutoff) : a \in worker.found \/ Told(a)

ToldWhenOver == \A a \in Auctions : Status(a, "ENDED") => Told(a) \/ Telling(a)

ToldRest == NoLateUpdate => ReadsRunning /\ NothingMissed /\ ToldWhenOver

ToldInv == PriceInv /\ ToldRest

\* A step that leaves the documents and the worker's notes alone.
LEMMA ToldUntouched ==
    ASSUME ToldInv, NoLateUpdate, UNCHANGED <<docs, call, worker, announced, lost>>
    PROVE  ReadsRunning' /\ NothingMissed' /\ ToldWhenOver'
BY DEF ToldInv, ToldRest, ReadsRunning, NothingMissed, ToldWhenOver, Told, Telling, Working,
   Exists, Status, Due

\* Only a late update is remembered, and it is so for good.
LEMMA LateForGood ==
    ASSUME TypeOK, [Next]_vars, NoLateUpdate'
    PROVE  NoLateUpdate
<1>1. SUFFICES ASSUME NEW e \in Edits, edit[e].step = "done" PROVE edit'[e].step = "done"
  BY DEF NoLateUpdate
<1>2. CASE \E f \in Edits : UpdateFind(f) \/ UpdateWrite(f)
  <2>1. PICK f \in Edits : UpdateFind(f) \/ UpdateWrite(f)
    BY <1>2
  <2>2. CASE UpdateFind(f)
    BY <2>2, <1>1 DEF UpdateFind, TypeOK
  <2>3. CASE UpdateWrite(f)
    BY <2>3, <1>1 DEF UpdateWrite, TypeOK
  <2> QED
    BY <2>1, <2>2, <2>3
<1>3. CASE Crash
  BY <1>3, <1>1 DEF Crash
<1>4. CASE UNCHANGED edit
  BY <1>4, <1>1
<1>5. \/ UNCHANGED edit \/ Crash
      \/ \E f \in Edits : UpdateFind(f) \/ UpdateWrite(f)
  <2>1. CASE UNCHANGED vars
    BY <2>1 DEF vars
  <2>2. CASE Next
    BY <2>2, StepCases
    DEF Tick, WorkerStart, WorkerFind, WorkerBulk, WorkerPublish, WorkerFails, CreateAuction,
        DeleteAuction, ValidateFind, ValidateExtend, ValidateWrite
  <2> QED
    BY <2>1, <2>2
<1> QED
  BY <1>2, <1>3, <1>4, <1>5

LEMMA CreateKeepsTold ==
    ASSUME ToldInv, NoLateUpdate, NEW a \in Auctions, CreateAuction(a)
    PROVE  ReadsRunning' /\ NothingMissed' /\ ToldWhenOver'
<1> USE DEF ToldInv, ToldRest, PriceInv, PriceRest, ScheduleInv
<1>1. /\ docs[a] = Unborn /\ UNCHANGED <<call, worker, announced, lost>>
      /\ \A b \in Auctions : b # a => docs'[b] = docs[b]
      /\ docs'[a].status = "PENDING"
  BY DEF CreateAuction, TypeOK
<1>2. \A v \in Calls : Working(v) => call[v].of \in Auctions \ {a}
  BY <1>1, CallFields DEF Born
<1>3. ReadsRunning'
  BY <1>1, <1>2 DEF ReadsRunning, Working, Exists, Status
<1>4. NothingMissed'
  BY <1>1 DEF NothingMissed, Told, Due, From, Exists, Status
<1>5. ToldWhenOver'
  BY <1>1 DEF ToldWhenOver, Told, Telling, Exists, Status
<1> QED
  BY <1>3, <1>4, <1>5

LEMMA DeleteKeepsTold ==
    ASSUME ToldInv, NoLateUpdate, NEW a \in Auctions, DeleteAuction(a)
    PROVE  ReadsRunning' /\ NothingMissed' /\ ToldWhenOver'
<1> USE DEF ToldInv, ToldRest, PriceInv, PriceRest, ScheduleInv
<1>1. /\ UNCHANGED <<call, worker, announced, lost>> /\ docs'[a] = Deleted
      /\ \A b \in Auctions : b # a => docs'[b] = docs[b]
  BY DEF DeleteAuction, TypeOK
<1>2. \A v \in Calls : Working(v) => call[v].of \in Auctions
  BY CallFields
<1>3. ReadsRunning'
  BY <1>1, <1>2 DEF ReadsRunning, Working, Exists, Status
<1>4. NothingMissed'
  BY <1>1 DEF NothingMissed, Told, Due, Exists, Status
<1>5. ToldWhenOver'
  BY <1>1 DEF ToldWhenOver, Told, Telling, Exists, Status
<1> QED
  BY <1>3, <1>4, <1>5

LEMMA AcceptKeepsTold ==
    ASSUME ToldInv, NoLateUpdate, NEW v \in Calls, ValidateFind(v)
    PROVE  ReadsRunning' /\ NothingMissed' /\ ToldWhenOver'
<1> USE DEF ToldInv, ToldRest, PriceInv, PriceRest, ScheduleInv
<1>1. PICK a \in Auctions, o \in Offers :
         /\ Exists(a) /\ docs[a].status = "ACTIVE"
         /\ call' = [call EXCEPT ![v] = [step |-> "extend", of |-> a, offer |-> o,
                                         doc |-> docs[a]]]
  BY DEF ValidateFind, Accepts
<1>2. /\ call'[v].of = a /\ call'[v].doc = docs[a]
      /\ \A w \in Calls : w # v => call'[w] = call[w]
      /\ UNCHANGED <<docs, worker, announced, lost>>
  BY <1>1 DEF ValidateFind, TypeOK
<1>3. docs[a].end \in Nat
  BY <1>1, ExistingDoc DEF Doc
<1>4. ReadsRunning'
  BY <1>1, <1>2, <1>3 DEF ReadsRunning, Working, Exists, Status
<1>5. NothingMissed' /\ ToldWhenOver'
  BY <1>2 DEF NothingMissed, ToldWhenOver, Told, Telling, Due, Exists, Status
<1> QED
  BY <1>4, <1>5

LEMMA ExtendKeepsTold ==
    ASSUME ToldInv, NoLateUpdate, NEW v \in Calls, ValidateExtend(v)
    PROVE  ReadsRunning' /\ NothingMissed' /\ ToldWhenOver'
<1> USE DEF ToldInv, ToldRest, PriceInv, PriceRest, ScheduleInv
<1>1. call[v].doc \in Doc /\ now \in Nat /\ call[v] \in CallState /\ Working(v)
      /\ call[v].of \in Auctions
  BY CallFields DEF ValidateExtend, TypeOK, Working
<1>2. /\ call'[v].of = call[v].of /\ call'[v].doc = Extended(call[v].doc)
      /\ \A w \in Calls : w # v => call'[w] = call[w]
      /\ UNCHANGED <<docs, worker, announced, lost>>
  BY <1>1 DEF ValidateExtend, TypeOK, CallState
<1>3. call[v].doc.end \in Nat /\ Extended(call[v].doc).end \in Nat
      /\ call[v].doc.end <= Extended(call[v].doc).end
  BY <1>1, DataAssumption DEF Extended, Doc
<1>4. Exists(call[v].of) => docs[call[v].of].end \in Nat
  BY <1>1, ExistingDoc DEF Doc
<1>5. ReadsRunning'
  BY <1>1, <1>2, <1>3, <1>4 DEF ReadsRunning, Working, Exists, Status
<1>6. NothingMissed' /\ ToldWhenOver'
  BY <1>2 DEF NothingMissed, ToldWhenOver, Told, Telling, Due, Exists, Status
<1> QED
  BY <1>5, <1>6

\* A validation brings back only what has been told, and ends nothing.
LEMMA BidKeepsTold ==
    ASSUME ToldInv, NoLateUpdate, NEW v \in Calls, ValidateWrite(v)
    PROVE  ReadsRunning' /\ NothingMissed' /\ ToldWhenOver'
<1> USE DEF ToldInv, ToldRest, PriceInv, PriceRest, ScheduleInv, Working
<1> DEFINE a == call[v].of
           d == [call[v].doc EXCEPT !.price = call[v].offer]
<1>1. Working(v) /\ Save(a, d) /\ UNCHANGED <<worker, announced, lost>>
      /\ ~Working(v)' /\ \A w \in Calls : w # v => call'[w] = call[w]
  BY DEF ValidateWrite, TypeOK
<1>2. call[v].doc \in Doc /\ call[v].offer \in Nat /\ a \in Auctions
  BY <1>1, CallFields
<1>3. d \in Doc /\ d.end = call[v].doc.end /\ d.status = "ACTIVE" /\ d.end \in Nat
  BY <1>1, <1>2 DEF Doc, Reads
<1>4. \A b \in Auctions : docs'[b] = IF b = a /\ Exists(a) THEN d ELSE docs[b]
  BY <1>1, <1>2, <1>3, SavedDocs
<1>5. Exists(a) => \/ Status(a, "ENDED")
                   \/ Status(a, "ACTIVE") /\ docs[a].end <= d.end /\ docs[a].end \in Nat
  BY <1>1, <1>2, <1>3, ExistingDoc DEF ReadsRunning, Doc
<1>6. \A w \in Calls : w # v /\ Working(w) => call[w].of # a /\ call[w].of \in Auctions
  BY <1>1, CallFields DEF Serial
<1> HIDE DEF a, d
<1>7. ReadsRunning'
  BY <1>1, <1>4, <1>6 DEF ReadsRunning, Exists, Status
<1>8. ToldWhenOver'
  BY <1>1, <1>3, <1>4 DEF ToldWhenOver, Told, Telling, Exists, Status
<1>9. NothingMissed'
  <2> SUFFICES ASSUME worker.step = "bulk", worker.pass = "end", NEW b \in Auctions,
                      Status(b, "ACTIVE")', docs'[b].end <= worker.cutoff
               PROVE  b \in worker.found \/ Told(b)
    BY <1>1 DEF NothingMissed, Due, From, Told
  <2>1. worker.cutoff \in Nat
    BY DEF TypeOK
  <2>2. CASE docs'[b] = docs[b]
    BY <2>2 DEF NothingMissed, Due, From, Status, Exists
  <2>3. CASE b = a /\ Exists(a) /\ Status(a, "ENDED")
    BY <2>3 DEF ToldWhenOver, Telling
  <2>4. CASE b = a /\ Exists(a) /\ ~Status(a, "ENDED")
    BY <1>3, <1>4, <1>5, <2>1, <2>4 DEF NothingMissed, Due, From
  <2> QED
    BY <1>4, <2>2, <2>3, <2>4
<1> QED
  BY <1>7, <1>8, <1>9

\* The worker ends only auctions it has found, or that have been told before.
LEMMA MovingKeepsRunning ==
    ASSUME ToldInv, NoLateUpdate, UNCHANGED call, worker.step = "bulk",
           NEW S \in SUBSET Due(worker.pass, worker.cutoff), docs' = Moved(S, worker.pass)
    PROVE  /\ ReadsRunning'
           /\ \A a \in Auctions : Status(a, "ENDED")' /\ ~Status(a, "ENDED") =>
                 worker.pass = "end" /\ a \in S
<1> USE DEF ToldInv, ToldRest, PriceInv, PriceRest, ScheduleInv
<1>1. worker.pass \in Passes /\ worker.cutoff \in Nat
  BY DEF TypeOK
<1>2. \A v \in Calls : Working(v) => call[v].of \in Auctions
  BY CallFields
<1>3. ASSUME NEW a \in Auctions, Exists(a)', docs'[a] # docs[a]
      PROVE  /\ Exists(a) /\ docs[a].status = From(worker.pass)
             /\ docs'[a].status = To(worker.pass) /\ docs'[a].end = docs[a].end
             /\ a \in S
  <2>1. a \in S
    BY <1>3 DEF Moved
  <2> QED
    BY <1>1, <1>3, <2>1, MovedDocs, ExistingDoc
<1>4. ReadsRunning'
  <2> SUFFICES ASSUME NEW v \in Calls, Working(v), NEW a \in Auctions, a = call[v].of,
                      Exists(a)'
               PROVE  \/ Status(a, "ENDED")'
                      \/ Status(a, "ACTIVE")' /\ docs'[a].end <= call[v].doc.end
    BY <1>2 DEF ReadsRunning, Working
  <2>1. CASE docs'[a] = docs[a]
    BY <2>1 DEF ReadsRunning, Exists, Status
  <2>2. CASE docs'[a] # docs[a]
    <3>1. Exists(a) /\ docs[a].status \in {"ACTIVE", "ENDED"}
      BY <1>3, <2>2 DEF ReadsRunning, Status
    <3>2. docs'[a].status = "ENDED"
      BY <1>1, <1>3, <2>2, <3>1 DEF From, To, Passes
    <3> QED
      BY <3>2 DEF Status
  <2> QED
    BY <2>1, <2>2
<1>5. ASSUME NEW a \in Auctions, Status(a, "ENDED")', ~Status(a, "ENDED")
      PROVE  worker.pass = "end" /\ a \in S
  <2>1. Exists(a)' /\ docs'[a] # docs[a]
    BY <1>5 DEF Status, Exists
  <2> QED
    BY <1>1, <1>3, <1>5, <2>1 DEF Status, To, Passes
<1> QED
  BY <1>4, <1>5

LEMMA WorkerKeepsTold ==
    ASSUME ToldInv, NoLateUpdate, Work \/ WorkerFails
    PROVE  ReadsRunning' /\ NothingMissed' /\ ToldWhenOver'
<1> USE DEF ToldInv, ToldRest, PriceInv, PriceRest, ScheduleInv
<1>1. TypeOK /\ worker.pass \in Passes /\ worker.cutoff \in Nat
  BY DEF TypeOK
<1>2. UNCHANGED call
  BY DEF Work, WorkerStart, WorkerFind, WorkerBulk, WorkerPublish, WorkerFails
<1>3. ASSUME UNCHANGED docs PROVE ReadsRunning'
  BY <1>2, <1>3 DEF ReadsRunning, Working, Exists, Status
<1>4. CASE WorkerStart
  BY <1>3, <1>4 DEF WorkerStart, NothingMissed, ToldWhenOver, Told, Telling, Exists, Status
<1>5. CASE WorkerFind
  <2>1. After(worker).step # "bulk" /\ After(worker).step # "publish"
    BY AfterTypes
  <2>2. NothingMissed'
    BY <1>5, <2>1 DEF WorkerFind, NothingMissed, Due, Exists, Status, TypeOK
  <2>3. ToldWhenOver'
    BY <1>5, <2>1 DEF WorkerFind, ToldWhenOver, Told, Telling, Exists, Status
  <2> QED
    BY <1>3, <1>5, <2>2, <2>3 DEF WorkerFind
<1>6. CASE WorkerBulk
  <2> DEFINE S == Due(worker.pass, worker.cutoff)
  <2>1. /\ worker.step = "bulk" /\ docs' = Moved(S, worker.pass)
        /\ UNCHANGED <<announced, lost>>
        /\ worker' = IF S # {} THEN [worker EXCEPT !.step = "publish"] ELSE After(worker)
    BY <1>6 DEF WorkerBulk, Announces
  <2>2. ReadsRunning' /\ \A a \in Auctions : Status(a, "ENDED")' /\ ~Status(a, "ENDED") =>
                            worker.pass = "end" /\ a \in S
    BY <1>2, <2>1, MovingKeepsRunning
  <2>3. worker'.step # "bulk"
    BY <2>1, AfterTypes DEF TypeOK
  <2>4. ASSUME NEW a \in Auctions, Status(a, "ENDED")' PROVE (Told(a) \/ Telling(a))'
    <3>1. CASE Status(a, "ENDED")
      BY <2>1, <3>1 DEF ToldWhenOver, Told, Telling
    <3>2. CASE ~Status(a, "ENDED")
      <4>1. worker.pass = "end" /\ a \in S
        BY <2>2, <2>4, <3>2
      <4>2. a \in worker.found \/ Told(a)
        BY <2>1, <4>1 DEF NothingMissed
      <4>3. worker' = [worker EXCEPT !.step = "publish"]
        BY <2>1, <4>1
      <4>4. worker'.step = "publish" /\ worker'.pass = "end" /\ worker'.found = worker.found
        BY <4>1, <4>3 DEF TypeOK
      <4> QED
        BY <2>1, <4>2, <4>4 DEF Told, Telling
    <3> QED
      BY <3>1, <3>2
  <2> QED
    BY <2>2, <2>3, <2>4 DEF NothingMissed, ToldWhenOver
<1>7. CASE WorkerPublish
  <2>1. PICK a \in worker.found :
           /\ announced' = [announced EXCEPT ![a] = @ \union {To(worker.pass)}]
           /\ worker' = IF worker.found = {a} THEN After(worker)
                        ELSE [worker EXCEPT !.found = @ \ {a}]
    BY <1>7 DEF WorkerPublish
  <2>2. worker.step = "publish" /\ UNCHANGED <<docs, lost>> /\ a \in Auctions
    BY <1>7 DEF WorkerPublish, TypeOK
  <2>3. worker'.step # "bulk"
    BY <2>1, <2>2, AfterTypes DEF TypeOK
  <2>4. ASSUME NEW b \in Auctions, Status(b, "ENDED")' PROVE (Told(b) \/ Telling(b))'
    <3>1. Told(b) \/ Telling(b)
      BY <2>2, <2>4 DEF ToldWhenOver, Status, Exists
    <3>2. Told(b) => Told(b)'
      BY <2>1, <2>2 DEF Told, TypeOK
    <3>3. CASE Telling(b) /\ b = a
      BY <2>1, <2>2, <3>3 DEF Told, Telling, To, TypeOK
    <3>4. CASE Telling(b) /\ b # a
      <4>1. worker' = [worker EXCEPT !.found = @ \ {a}]
        BY <2>1, <3>4 DEF Telling
      <4>2. worker'.step = "publish" /\ worker'.pass = "end" /\ b \in worker'.found
        BY <2>2, <3>4, <4>1 DEF Telling, TypeOK
      <4> QED
        BY <4>2 DEF Telling
    <3> QED
      BY <3>1, <3>2, <3>3, <3>4
  <2> QED
    BY <1>3, <2>2, <2>3, <2>4 DEF NothingMissed, ToldWhenOver
<1>8. CASE WorkerFails
  <2>1. worker' = After(worker) /\ UNCHANGED announced
    BY <1>8 DEF WorkerFails
  <2>2. worker'.step # "bulk" /\ worker.step # "publish"
    BY <1>8, <2>1, AfterTypes DEF WorkerFails
  <2>3. CASE UNCHANGED <<docs, lost>>
    BY <1>3, <2>1, <2>2, <2>3
    DEF NothingMissed, ToldWhenOver, Told, Telling, Exists, Status
  <2>4. ASSUME worker.step = "bulk", NEW S \in SUBSET Due(worker.pass, worker.cutoff),
               docs' = Moved(S, worker.pass), Lose(S)
        PROVE  ReadsRunning' /\ NothingMissed' /\ ToldWhenOver'
    <3>1. ReadsRunning' /\ \A a \in Auctions : Status(a, "ENDED")' /\ ~Status(a, "ENDED") =>
                              worker.pass = "end" /\ a \in S
      BY <1>2, <2>4, MovingKeepsRunning
    <3>2. \A a \in Auctions : Told(a) => Told(a)'
      BY <2>1, <2>4 DEF Told, Lose
    <3>3. ASSUME NEW a \in Auctions, Status(a, "ENDED")' PROVE Told(a)'
      <4>1. CASE Status(a, "ENDED")
        BY <2>2, <3>2, <4>1 DEF ToldWhenOver, Telling
      <4>2. CASE ~Status(a, "ENDED")
        BY <2>4, <3>1, <3>3, <4>2 DEF Told, Lose
      <4> QED
        BY <4>1, <4>2
    <3> QED
      BY <2>2, <3>1, <3>3 DEF NothingMissed, ToldWhenOver
  <2> QED
    BY <1>8, <2>3, <2>4 DEF WorkerFails
<1> QED
  BY <1>4, <1>5, <1>6, <1>7, <1>8 DEF Work

LEMMA CrashKeepsTold ==
    ASSUME ToldInv, NoLateUpdate, Crash
    PROVE  ReadsRunning' /\ NothingMissed' /\ ToldWhenOver'
<1> USE DEF ToldInv, ToldRest, PriceInv, PriceRest, ScheduleInv
<1>1. /\ worker' = Idle /\ UNCHANGED <<docs, announced>>
      /\ Lose(IF worker.step = "publish" THEN worker.found ELSE {})
      /\ \A v \in Calls : ~Working(v)'
  BY DEF Crash, Working, TypeOK, CallState
<1>2. \A a \in Auctions : Told(a) \/ Telling(a) => Told(a)'
  BY <1>1 DEF Told, Telling, Lose
<1>3. ToldWhenOver'
  BY <1>1, <1>2 DEF ToldWhenOver, Status, Exists
<1> QED
  BY <1>1, <1>3 DEF ReadsRunning, NothingMissed, Idle

LEMMA ToldStep == ToldInv /\ [Next]_vars => ToldInv'
<1> SUFFICES ASSUME ToldInv, [Next]_vars, NoLateUpdate'
             PROVE  ReadsRunning' /\ NothingMissed' /\ ToldWhenOver'
  BY PriceStep DEF ToldInv, ToldRest
<1>1. NoLateUpdate
  BY LateForGood DEF ToldInv, PriceInv, ScheduleInv
<1>2. CASE Tick \/ UNCHANGED vars \/ \E e \in Edits : UpdateFind(e)
  BY <1>1, <1>2, ToldUntouched DEF Tick, vars, UpdateFind
<1>3. ASSUME NEW e \in Edits, UpdateWrite(e) PROVE FALSE
  <2>1. edit'[e].step = "done"
    BY <1>3 DEF UpdateWrite, ToldInv, PriceInv, ScheduleInv, TypeOK
  <2> QED
    BY <2>1 DEF NoLateUpdate
<1> QED
  BY StepCases, <1>1, <1>2, <1>3, CreateKeepsTold, DeleteKeepsTold, AcceptKeepsTold,
     ExtendKeepsTold, BidKeepsTold, WorkerKeepsTold, CrashKeepsTold DEF Work

\* As long as the seller has written no update late, an auction that is over
\* has been announced or is about to be, or a failure has cut the run short
\* that ended it: however stale what validations write back.
THEOREM EndsAreAnnounced == Spec => []EndsAnnounced
<1>1. Init => ToldInv
  BY InitSchedule
  DEF Init, ToldInv, ToldRest, PriceInv, PriceRest, Bids, Serial, Rewinds, Born, Working,
      Editing, ReadsRunning, NothingMissed, ToldWhenOver, Status, Exists, Idle
<1>2. ToldInv => EndsAnnounced
  BY DEF ToldInv, ToldRest, NoLateUpdate, ToldWhenOver, Told, Telling, EndsAnnounced
<1> QED
  BY <1>1, <1>2, ToldStep, PTL DEF Spec

=============================================================================
