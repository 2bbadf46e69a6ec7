--------------------------- MODULE AccountProofs ---------------------------
(***************************************************************************)
(* Theorems about UserAccount, for any requests, amounts, passwords,       *)
(* opening balance and faults:                                             *)
(*                                                                         *)
(*   TypesHold             []TypeOK                                        *)
(*   BalanceNonNegative    []NonNegative, whatever overlaps or fails       *)
(*   LedgerHolds           []LedgerBalances                                *)
(*   CacheHolds            []CacheHoldsBalance                             *)
(*   DeletedStaysOut       []DeletedCannotLogIn                            *)
(*                                                                         *)
(* TypeOK takes RowLocked: who is about to commit what it has written      *)
(* holds the lock, so the row is there, or is not, as it was written.      *)
(* NonNegative is inductive with Solvent: every copy of the user anywhere  *)
(* has a balance that is not negative, and a save writes no other.  The    *)
(* other three rest on Calm and Quiet: while requests do not overlap, the  *)
(* copy of the one that runs differs from the row by the transaction it    *)
(* will post, and only an update goes on while there is no row.            *)
(***************************************************************************)
EXTENDS UserAccount, TLAPS

Late == {"fill", "notify", "select", "update", "commit"}

-----------------------------------------------------------------------------
(* Types                                                                   *)

\* A request that runs has all fields.
LEMMA RequestFields ==
    ASSUME TypeOK, NEW r \in Requests, Running(r)
    PROVE  /\ req[r].step \in Late \union {"fetch"} /\ req[r].kind \in Kinds
           /\ req[r].amount \in Nat /\ req[r].amount \in Amounts \union {0}
           /\ req[r].cols \in SUBSET Columns
           /\ req[r].step # "fetch" => /\ req[r] \in Fields(Late, User)
                                       /\ req[r].copy \in User /\ req[r].copy # None
                                       /\ req[r].copy.balance \in Int
           /\ req[r].step = "fetch" => req[r] \in Fields({"fetch"}, {None})
<1>1. \/ req[r] \in Fields(Late, User)
      \/ req[r] \in Fields({"fetch"}, {None})
  BY DEF TypeOK, RequestState, Running, Late
<1>2. /\ req[r].kind \in Kinds /\ req[r].amount \in Amounts \union {0}
      /\ req[r].cols \in SUBSET Columns /\ req[r].step \in Late \union {"fetch"}
  BY <1>1 DEF Fields
<1>3. req[r].amount \in Nat
  <2>1. \A x \in Amounts \union {0} : x \in Nat
    BY DataAssumption
  <2> QED
    BY <1>2, <2>1
<1>4. req[r] \in Fields(Late, User) => req[r].step # "fetch" /\ req[r].copy \in User
  BY DEF Fields, Late
<1>5. req[r] \in Fields({"fetch"}, {None}) => req[r].step = "fetch"
  BY DEF Fields
<1>6. \A u \in User : u # None /\ u.balance \in Int
  BY NoneAssumption DEF User
<1> QED
  BY <1>1, <1>2, <1>3, <1>4, <1>5, <1>6

\* What a request saves is a user.
LEMMA EditedType ==
    ASSUME NEW kind \in Kinds, NEW u \in User, NEW x \in Amounts \union {0},
           NEW p \in Passwords
    PROVE  /\ Edited(kind, u, x, p) \in User
           /\ Edited(kind, u, x, p).balance = u.balance + Posted(kind, x)
           /\ Posted(kind, x) \in Int
<1>1. x \in Int /\ u.balance \in Int
  BY DataAssumption DEF User
<1> QED
  BY <1>1 DEF Edited, Posted, User, Kinds, StoredKinds, CachedKinds, MoneyKinds

\* The step after each.
LEMMA NextSteps ==
    ASSUME NEW kind
    PROVE  /\ First(kind) \in {"notify", "select", "update"}
           /\ First(kind) = "notify" => AfterNotify(kind) # "commit"
           /\ kind \in StoredKinds => First(kind) # "notify"
           /\ AfterUpdate(kind) \in {"notify", "commit"}
           /\ AfterUpdate(kind) = "notify" => AfterNotify(kind) = "commit"
           /\ AfterNotify(kind) \in {"select", "commit", "done"}
           /\ AfterCommit(kind) \in {"notify", "done"}
           /\ AfterCommit(kind) = "notify" => AfterNotify(kind) = "done"
           /\ Own(kind) \in SUBSET Columns /\ "insert" \notin Own(kind)
           /\ "row" \in Own(kind) => kind = "delete"
           /\ Retyped(kind) \in SUBSET Columns /\ "insert" \notin Retyped(kind)
           /\ "row" \notin Retyped(kind)
<1>1. /\ Own(kind) \in SUBSET Columns /\ "insert" \notin Own(kind)
      /\ "row" \in Own(kind) => kind = "delete"
  BY DEF Own, Columns
<1>2. /\ Retyped(kind) \in SUBSET Columns /\ "insert" \notin Retyped(kind)
      /\ "row" \notin Retyped(kind)
  BY DEF Retyped, Columns
<1> QED
  BY <1>1, <1>2 DEF First, AfterUpdate, AfterNotify, AfterCommit, StoredKinds, MoneyKinds

\* A request that goes on keeps its fields.
LEMMA GoesType ==
    ASSUME TypeOK, NEW r \in Requests, Running(r), req[r].step # "fetch",
           NEW s \in Late \union {"done"}, Goes(r, s)
    PROVE  /\ req' \in [Requests -> RequestState]
           /\ req'[r].step = s
           /\ s # "done" => /\ req'[r].kind = req[r].kind /\ req'[r].amount = req[r].amount
                            /\ req'[r].copy = req[r].copy /\ req'[r].cols = req[r].cols
           /\ \A o \in Requests : o # r => req'[o] = req[o]
<1>1. req'[r] = IF s = "done" THEN [step |-> "done"] ELSE [req[r] EXCEPT !.step = s]
  BY DEF Goes, TypeOK
<1>2. req[r] \in Fields(Late, User)
  BY RequestFields
<1>3. req'[r] \in RequestState
  BY <1>1, <1>2 DEF RequestState, Fields, Late
<1>4. \A o \in Requests : o # r => req'[o] = req[o]
  BY DEF Goes, TypeOK
<1>5. req' \in [Requests -> RequestState]
  BY <1>3, <1>4 DEF Goes, TypeOK
<1>6. s # "done" => /\ req'[r].step = s
                    /\ req'[r].kind = req[r].kind /\ req'[r].amount = req[r].amount
                    /\ req'[r].copy = req[r].copy /\ req'[r].cols = req[r].cols
  BY <1>1, <1>2 DEF Fields
<1> QED
  BY <1>1, <1>4, <1>5, <1>6

\* What a request starts with, and who else it leaves alone.
LEMMA StartType ==
    ASSUME TypeOK, NEW r \in Requests, StartStored(r) \/ StartCached(r)
    PROVE  /\ req' \in [Requests -> RequestState]
           /\ \A o \in Requests : o # r => req'[o] = req[o]
           /\ lock # r
           /\ calm' \in BOOLEAN
           /\ \/ req'[r] = [step |-> "done"]
              \/ \E kind \in StoredKinds, x \in Amounts, p \in Passwords :
                    /\ row # None /\ row \in User
                    /\ kind = "deduct" => Affordable(row.balance, x)
                    /\ req'[r] = [step |-> First(kind), kind |-> kind, amount |-> x,
                                  copy |-> Edited(kind, row, x, p), cols |-> Own(kind)]
              \/ \E kind \in CachedKinds, k \in Keys :
                    /\ k = "id" => kind = "update"
                    /\ req'[r] = [step |-> IF cache[k] # None THEN First(kind) ELSE "fetch",
                                  kind |-> kind, amount |-> 0, copy |-> cache[k],
                                  cols |-> Own(kind)]
<1>1. lock # r
  BY NoneAssumption DEF TypeOK, StartStored, StartCached
<1>2. calm' \in BOOLEAN
  BY DEF StartStored, StartCached, Joined, TypeOK
<1>3. CASE StartStored(r)
  <2>1. PICK kind \in StoredKinds, x \in Amounts, p \in Passwords :
           req' = [req EXCEPT ![r] =
                     IF row = None \/ (kind = "deduct" /\ ~Affordable(row.balance, x))
                     THEN [step |-> "done"]
                     ELSE [step |-> First(kind), kind |-> kind, amount |-> x,
                           copy |-> Edited(kind, row, x, p), cols |-> Own(kind)]]
    BY <1>3 DEF StartStored
  <2>2. CASE row = None \/ (kind = "deduct" /\ ~Affordable(row.balance, x))
    <3>1. [step |-> "done"] \in RequestState
      BY DEF RequestState
    <3>2. req'[r] = [step |-> "done"] /\ \A o \in Requests : o # r => req'[o] = req[o]
      BY <2>1, <2>2 DEF TypeOK
    <3> QED
      BY <1>1, <1>2, <2>1, <2>2, <3>1, <3>2 DEF TypeOK
  <2>3. CASE row # None /\ (kind = "deduct" => Affordable(row.balance, x))
    <3>1. row \in User /\ kind \in Kinds
      BY <2>3 DEF TypeOK, Kinds
    <3>2. [step |-> First(kind), kind |-> kind, amount |-> x,
           copy |-> Edited(kind, row, x, p), cols |-> Own(kind)] \in RequestState
      BY <3>1, NextSteps, EditedType DEF RequestState, Fields
    <3>3. /\ req'[r] = [step |-> First(kind), kind |-> kind, amount |-> x,
                        copy |-> Edited(kind, row, x, p), cols |-> Own(kind)]
          /\ \A o \in Requests : o # r => req'[o] = req[o]
      BY <2>1, <2>3 DEF TypeOK
    <3>4. req' \in [Requests -> RequestState]
      BY <2>1, <2>3, <3>2, <3>3 DEF TypeOK
    <3> QED
      BY <1>1, <1>2, <2>3, <3>1, <3>3, <3>4
  <2> QED
    BY <2>2, <2>3
<1>4. CASE StartCached(r)
  <2>1. PICK kind \in CachedKinds, k \in Keys :
           /\ k = "id" => kind = "update"
           /\ req' = [req EXCEPT ![r] =
                        [step |-> IF cache[k] # None THEN First(kind) ELSE "fetch",
                         kind |-> kind, amount |-> 0, copy |-> cache[k],
                         cols |-> Own(kind)]]
    BY <1>4 DEF StartCached, Keys
  <2>2. [step |-> IF cache[k] # None THEN First(kind) ELSE "fetch",
         kind |-> kind, amount |-> 0, copy |-> cache[k], cols |-> Own(kind)] \in RequestState
    <3>1. cache[k] \in User \union {None} /\ kind \in Kinds
      BY DEF TypeOK, Kinds
    <3> QED
      BY <3>1, NextSteps DEF RequestState, Fields
  <2>3. /\ req'[r] = [step |-> IF cache[k] # None THEN First(kind) ELSE "fetch",
                      kind |-> kind, amount |-> 0, copy |-> cache[k], cols |-> Own(kind)]
        /\ \A o \in Requests : o # r => req'[o] = req[o]
    BY <2>1 DEF TypeOK
  <2>4. req' \in [Requests -> RequestState]
    BY <2>1, <2>2, <2>3 DEF TypeOK
  <2> QED
    BY <1>1, <1>2, <2>1, <2>3, <2>4
<1> QED
  BY <1>3, <1>4

\* What a request reads again, or finds to be written.
LEMMA ReadType ==
    ASSUME TypeOK, NEW r \in Requests, Fetch(r) \/ Select(r) \/ UpdateNothing(r)
    PROVE  /\ req' \in [Requests -> RequestState]
           /\ \A o \in Requests : o # r => req'[o] = req[o]
           /\ Running(r) /\ lock # r
           /\ Fetch(r) => \/ row = None /\ req'[r] = [step |-> "done"]
                          \/ /\ row # None /\ row \in User
                             /\ req'[r].step = "fill" /\ req'[r].copy = row
                             /\ req'[r].kind = req[r].kind /\ req'[r].amount = req[r].amount
                             /\ req'[r].cols = req[r].cols
           /\ Select(r) => /\ req'[r].step = "update" /\ req'[r].copy = req[r].copy
                           /\ req'[r].kind = req[r].kind /\ req'[r].amount = req[r].amount
                           /\ row = None => req'[r].cols = {"insert"}
                           /\ row # None =>
                                \E more \in SUBSET Retyped(req[r].kind) :
                                  req'[r].cols = req[r].cols \union more
                                                    \union Differing(req[r].copy, row)
           /\ UpdateNothing(r) =>
                 \/ req'[r] = [step |-> "done"]
                 \/ /\ req'[r].step = AfterUpdate(req[r].kind) /\ req'[r].copy = req[r].copy
                    /\ req'[r].kind = req[r].kind /\ req'[r].amount = req[r].amount
                    /\ req'[r].cols = {}
<1>1. Running(r) /\ lock # r
  BY NoneAssumption DEF Fetch, Select, UpdateNothing, Running, TypeOK
<1>2. [step |-> "done"] \in RequestState
  BY DEF RequestState
<1>3. CASE Fetch(r)
  <2>1. req[r] \in Fields({"fetch"}, {None})
    BY <1>1, <1>3, RequestFields DEF Fetch
  <2>2. req' = [req EXCEPT ![r] = IF row = None THEN [step |-> "done"]
                                  ELSE [req[r] EXCEPT !.copy = row, !.step = "fill"]]
    BY <1>3 DEF Fetch
  <2>3. row # None => row \in User
    BY DEF TypeOK
  <2>4. row # None => [req[r] EXCEPT !.copy = row, !.step = "fill"] \in RequestState
    BY <2>1, <2>3 DEF RequestState, Fields
  <2>5. /\ req'[r] = IF row = None THEN [step |-> "done"]
                     ELSE [req[r] EXCEPT !.copy = row, !.step = "fill"]
        /\ \A o \in Requests : o # r => req'[o] = req[o]
    BY <2>2 DEF TypeOK
  <2>6. req' \in [Requests -> RequestState]
    BY <1>2, <2>2, <2>4, <2>5 DEF TypeOK
  <2>7. row # None => /\ req'[r].step = "fill" /\ req'[r].copy = row
                      /\ req'[r].kind = req[r].kind /\ req'[r].amount = req[r].amount
                      /\ req'[r].cols = req[r].cols
    BY <2>1, <2>5 DEF Fields
  <2> QED
    BY <1>1, <1>3, <2>3, <2>5, <2>6, <2>7 DEF Fetch, Select, UpdateNothing
<1>4. CASE Select(r)
  <2>1. req[r] \in Fields(Late, User)
    BY <1>1, <1>4, RequestFields DEF Select
  <2>2. PICK more \in SUBSET Retyped(req[r].kind) :
           req' = [req EXCEPT
                     ![r].cols = IF row = None THEN {"insert"}
                                 ELSE @ \union more \union Differing(req[r].copy, row),
                     ![r].step = "update"]
    BY <1>4 DEF Select
  <2> DEFINE c == IF row = None THEN {"insert"}
                  ELSE req[r].cols \union more \union Differing(req[r].copy, row)
  <2>3. c \in SUBSET Columns
    BY <2>1, NextSteps DEF Differing, Columns, Fields
  <2>4. req' = [req EXCEPT ![r] = [@ EXCEPT !.cols = c, !.step = "update"]]
    BY <2>2
  <2>5. row = None => c = {"insert"}
    OBVIOUS
  <2>6. row # None => \E m \in SUBSET Retyped(req[r].kind) :
                         c = req[r].cols \union m \union Differing(req[r].copy, row)
    OBVIOUS
  <2> HIDE DEF c
  <2>7. [req[r] EXCEPT !.cols = c, !.step = "update"] \in RequestState
    BY <2>1, <2>3 DEF RequestState, Fields, Late
  <2>8. /\ req'[r] = [req[r] EXCEPT !.cols = c, !.step = "update"]
        /\ \A o \in Requests : o # r => req'[o] = req[o]
    BY <2>4 DEF TypeOK
  <2>9. req' \in [Requests -> RequestState]
    BY <2>4, <2>7, <2>8 DEF TypeOK
  <2>10. /\ req'[r].step = "update" /\ req'[r].copy = req[r].copy /\ req'[r].cols = c
         /\ req'[r].kind = req[r].kind /\ req'[r].amount = req[r].amount
    BY <2>1, <2>8 DEF Fields
  <2> QED
    BY <1>1, <1>4, <2>5, <2>6, <2>8, <2>9, <2>10 DEF Fetch, Select, UpdateNothing
<1>5. CASE UpdateNothing(r)
  <2>1. req[r] \in Fields(Late, User)
    BY <1>1, <1>5, RequestFields DEF UpdateNothing
  <2>2. req' = [req EXCEPT ![r] =
                  IF req[r].kind \in MoneyKinds THEN [step |-> "done"]
                  ELSE [req[r] EXCEPT !.cols = {}, !.step = AfterUpdate(req[r].kind)]]
    BY <1>5 DEF UpdateNothing
  <2>3. [req[r] EXCEPT !.cols = {}, !.step = AfterUpdate(req[r].kind)] \in RequestState
    BY <2>1, NextSteps DEF RequestState, Fields, Late
  <2>4. /\ req'[r] = IF req[r].kind \in MoneyKinds THEN [step |-> "done"]
                     ELSE [req[r] EXCEPT !.cols = {}, !.step = AfterUpdate(req[r].kind)]
        /\ \A o \in Requests : o # r => req'[o] = req[o]
    BY <2>2 DEF TypeOK
  <2>5. req' \in [Requests -> RequestState]
    BY <1>2, <2>2, <2>3, <2>4 DEF TypeOK
  <2>6. req[r].kind \notin MoneyKinds =>
           /\ req'[r].step = AfterUpdate(req[r].kind) /\ req'[r].copy = req[r].copy
           /\ req'[r].kind = req[r].kind /\ req'[r].amount = req[r].amount
           /\ req'[r].cols = {}
    BY <2>1, <2>4 DEF Fields
  <2> QED
    BY <1>1, <1>5, <2>4, <2>5, <2>6 DEF Fetch, Select, UpdateNothing
<1> QED
  BY <1>3, <1>4, <1>5

\* The transaction of r has written to the row what it is to write.
Written(r) ==
    \/ req[r].step = "commit"
    \/ req[r].step = "notify" /\ AfterNotify(req[r].kind) = "commit"

\* Who has written holds the lock, and the row is there, or is not, as it has
\* found it; only a deletion writes "row".
RowLocked ==
    /\ lock # None => /\ Written(lock)
                      /\ row = None <=> "insert" \in req[lock].cols
    /\ \A r \in Requests : Written(r) /\ req[r].cols # {} => lock = r
    /\ \A r \in Requests : Running(r) /\ "row" \in req[r].cols => req[r].kind = "delete"

TypeInv == TypeOK /\ RowLocked

\* What a commit makes of the row.
LEMMA SavedRow ==
    ASSUME TypeInv, NEW r \in Requests, Commit(r)
    PROVE  /\ row' \in User \union {None}
           /\ row' = None => row = None \/ Deletes(r)
           /\ ~Deletes(r) /\ row = None => row' = None \/ row' = req[r].copy
           /\ ~Deletes(r) /\ row # None =>
                row'.balance = IF "balance" \in req[r].cols THEN req[r].copy.balance
                               ELSE row.balance
           /\ req[r].cols = {} => row' = row
           /\ req[r].cols # {} => lock = r
           /\ ~Deletes(r) /\ row = None /\ "insert" \in req[r].cols => row' = req[r].copy
           /\ Deletes(r) => row' = None
<1>1. Running(r) /\ req[r].step = "commit" /\ row' = Saved(r)
  BY DEF Commit, Running
<1>2. req[r].copy \in User /\ req[r].copy # None /\ req[r].cols \in SUBSET Columns
  BY <1>1, RequestFields DEF TypeInv
<1>3. req[r].cols # {} => lock = r /\ (row = None <=> "insert" \in req[r].cols)
  BY <1>1, NoneAssumption DEF TypeInv, RowLocked, Written
<1>4. CASE req[r].cols = {}
  BY <1>1, <1>4 DEF Saved, Deletes, TypeInv, TypeOK
<1>5. CASE req[r].cols # {} /\ Deletes(r)
  BY <1>1, <1>3, <1>5 DEF Saved
<1>6. CASE req[r].cols # {} /\ ~Deletes(r) /\ "insert" \in req[r].cols
  BY <1>1, <1>2, <1>3, <1>6 DEF Saved
<1>7. CASE req[r].cols # {} /\ ~Deletes(r) /\ "insert" \notin req[r].cols
  <2>1. row' = [balance |-> IF "balance" \in req[r].cols THEN req[r].copy["balance"]
                            ELSE row["balance"],
                password |-> IF "password" \in req[r].cols THEN req[r].copy["password"]
                             ELSE row["password"]]
    BY <1>1, <1>7 DEF Saved
  <2>2. row \in User
    BY <1>3, <1>7 DEF TypeInv, TypeOK
  <2>3. row' \in User
    BY <1>2, <2>1, <2>2 DEF User
  <2>4. row' # None
    BY <2>3, NoneAssumption
  <2>5. row'.balance = IF "balance" \in req[r].cols THEN req[r].copy.balance
                       ELSE row.balance
    BY <2>1
  <2> QED
    BY <1>3, <1>7, <2>2, <2>3, <2>4, <2>5
<1> QED
  BY <1>4, <1>5, <1>6, <1>7

\* A step that leaves all but one request as they are.
LEMMA OthersLocked ==
    ASSUME TypeInv, NEW r \in Requests,
           req' \in [Requests -> RequestState],
           \A o \in Requests : o # r => req'[o] = req[o],
           lock' # None => Written(lock)' /\ (row' = None <=> "insert" \in req'[lock'].cols),
           Written(r)' /\ req'[r].cols # {} => lock' = r,
           \A o \in Requests : o # r /\ lock = o => lock' = o,
           Running(r)' /\ "row" \in req'[r].cols => req'[r].kind = "delete"
    PROVE  RowLocked'
<1>1. \A o \in Requests : o # r /\ Written(o)' /\ req'[o].cols # {} => lock' = o
  BY DEF TypeInv, RowLocked, Written
<1>2. \A o \in Requests : o # r /\ Running(o)' /\ "row" \in req'[o].cols
                             => req'[o].kind = "delete"
  BY DEF TypeInv, RowLocked, Running
<1> QED
  BY <1>1, <1>2 DEF RowLocked

LEMMA TypeStep ==
    ASSUME TypeInv, [Next]_vars
    PROVE  TypeInv'
<1> USE DEF TypeInv
<1>1. ASSUME NEW r \in Requests, StartStored(r) \/ StartCached(r)
      PROVE  TypeInv'
  <2>1. UNCHANGED <<row, ledger, lock, cache, deleted>>
    BY <1>1 DEF StartStored, StartCached
  <2>2. /\ req' \in [Requests -> RequestState] /\ lock # r /\ calm' \in BOOLEAN
        /\ \A o \in Requests : o # r => req'[o] = req[o]
    BY <1>1, StartType
  <2>3. /\ ~Written(r)'
        /\ Running(r)' /\ "row" \in req'[r].cols => req'[r].kind = "delete"
    <3>1. CASE req'[r] = [step |-> "done"]
      BY <3>1 DEF Written, Running
    <3>2. CASE req'[r] # [step |-> "done"]
      <4>1. \/ \E kind \in StoredKinds, x \in Amounts, p \in Passwords :
                  req'[r] = [step |-> First(kind), kind |-> kind, amount |-> x,
                             copy |-> Edited(kind, row, x, p), cols |-> Own(kind)]
            \/ \E kind \in CachedKinds, k \in Keys :
                  req'[r] = [step |-> IF cache[k] # None THEN First(kind) ELSE "fetch",
                             kind |-> kind, amount |-> 0, copy |-> cache[k],
                             cols |-> Own(kind)]
        BY <1>1, <3>2, StartType
      <4>2. /\ req'[r].cols = Own(req'[r].kind)
            /\ req'[r].step \in {First(req'[r].kind), "fetch"}
        <5>1. CASE \E kind \in StoredKinds, x \in Amounts, p \in Passwords :
                     req'[r] = [step |-> First(kind), kind |-> kind, amount |-> x,
                                copy |-> Edited(kind, row, x, p), cols |-> Own(kind)]
          BY <5>1
        <5>2. CASE \E kind \in CachedKinds, k \in Keys :
                     req'[r] = [step |-> IF cache[k] # None THEN First(kind) ELSE "fetch",
                                kind |-> kind, amount |-> 0, copy |-> cache[k],
                                cols |-> Own(kind)]
          <6>1. PICK kind \in CachedKinds, k \in Keys :
                   req'[r] = [step |-> IF cache[k] # None THEN First(kind) ELSE "fetch",
                              kind |-> kind, amount |-> 0, copy |-> cache[k],
                              cols |-> Own(kind)]
            BY <5>2
          <6>2. req'[r].kind = kind /\ req'[r].cols = Own(kind)
            BY <6>1
          <6>3. req'[r].step = IF cache[k] # None THEN First(kind) ELSE "fetch"
            BY <6>1
          <6> QED
            BY <6>2, <6>3
        <5> QED
          BY <4>1, <5>1, <5>2
      <4> QED
        BY <4>2, NextSteps DEF Written
    <3> QED
      BY <3>1, <3>2
  <2>4. lock' # None => Written(lock)' /\ (row' = None <=> "insert" \in req'[lock'].cols)
    BY <2>1, <2>2 DEF RowLocked, Written, TypeOK
  <2>5. RowLocked'
    BY <2>1, <2>2, <2>3, <2>4, OthersLocked
  <2> QED
    BY <2>1, <2>2, <2>5 DEF TypeOK
<1>2. ASSUME NEW r \in Requests, Fetch(r) \/ Select(r) \/ UpdateNothing(r)
      PROVE  TypeInv'
  <2>1. UNCHANGED <<row, ledger, lock, cache, calm, deleted>>
    BY <1>2 DEF Fetch, Select, UpdateNothing
  <2>2. /\ req' \in [Requests -> RequestState] /\ Running(r) /\ lock # r
        /\ \A o \in Requests : o # r => req'[o] = req[o]
    BY <1>2, ReadType
  <2>3. /\ ~Written(r)' \/ req'[r].cols = {}
        /\ Running(r)' /\ "row" \in req'[r].cols => req'[r].kind = "delete"
    <3>1. CASE Fetch(r)
      BY <2>2, <3>1, ReadType DEF Written, RowLocked, Running
    <3>2. CASE Select(r)
      <4>1. "row" \in req'[r].cols => "row" \in req[r].cols
        BY <3>2, ReadType, NextSteps DEF Differing
      <4> QED
        BY <2>2, <3>2, <4>1, ReadType DEF Written, RowLocked, Running
    <3>3. CASE UpdateNothing(r)
      BY <3>3, ReadType DEF Written, Running
    <3> QED
      BY <1>2, <3>1, <3>2, <3>3
  <2>4. lock' # None => Written(lock)' /\ (row' = None <=> "insert" \in req'[lock'].cols)
    BY <2>1, <2>2 DEF RowLocked, Written, TypeOK
  <2>5. RowLocked'
    BY <2>1, <2>2, <2>3, <2>4, OthersLocked
  <2> QED
    BY <2>1, <2>2, <2>5 DEF TypeOK
<1>3. ASSUME NEW r \in Requests, NEW s \in Late \union {"done"}, Running(r),
             req[r].step # "fetch", Goes(r, s),
             row' \in User \union {None}, ledger' \in Int,
             cache' \in [Keys -> User \union {None}],
             calm' \in BOOLEAN, deleted' \in BOOLEAN,
             lock' \in Requests \union {None},
             lock' # None => Written(lock)' /\ (row' = None <=> "insert" \in req'[lock'].cols),
             Written(r)' /\ req'[r].cols # {} => lock' = r,
             \A o \in Requests : o # r /\ lock = o => lock' = o
      PROVE  TypeInv'
  <2>1. /\ req' \in [Requests -> RequestState] /\ req'[r].step = s
        /\ s # "done" => req'[r].kind = req[r].kind /\ req'[r].cols = req[r].cols
        /\ \A o \in Requests : o # r => req'[o] = req[o]
    BY <1>3, GoesType
  <2>2. Running(r)' /\ "row" \in req'[r].cols => req'[r].kind = "delete"
    BY <1>3, <2>1 DEF Running, RowLocked
  <2>3. RowLocked'
    BY <1>3, <2>1, <2>2, OthersLocked
  <2>4. lock' # None => req'[lock'].step \in {"notify", "commit"}
    BY <1>3 DEF Written
  <2> QED
    BY <1>3, <2>1, <2>3, <2>4 DEF TypeOK
<1>4. ASSUME NEW r \in Requests, Fill(r)
      PROVE  TypeInv'
  <2>1. Running(r) /\ lock # r /\ req[r].step # "fetch"
    BY <1>4, NoneAssumption DEF Fill, Running, TypeOK
  <2>2. cache' \in [Keys -> User \union {None}]
    BY <1>4, <2>1, RequestFields DEF Fill
  <2>3. Goes(r, First(req[r].kind)) /\ First(req[r].kind) \in Late
    BY <1>4, NextSteps DEF Fill, Late
  <2>4. /\ req'[r].step = First(req[r].kind) /\ req'[r].kind = req[r].kind
        /\ \A o \in Requests : o # r => req'[o] = req[o]
    BY <2>1, <2>3, GoesType DEF Late
  <2>5. ~Written(r)'
    BY <2>4, NextSteps DEF Written
  <2>6. UNCHANGED <<row, ledger, lock, calm, deleted>>
    BY <1>4 DEF Fill
  <2>7. lock' # None => Written(lock)' /\ (row' = None <=> "insert" \in req'[lock'].cols)
    BY <2>1, <2>4, <2>6 DEF RowLocked, Written, TypeOK
  <2> QED
    BY <1>3, <2>1, <2>2, <2>3, <2>5, <2>6, <2>7 DEF TypeOK
<1>5. ASSUME NEW r \in Requests, Update(r)
      PROVE  TypeInv'
  <2>1. Running(r) /\ lock # r /\ req[r].step # "fetch"
    BY <1>5, NoneAssumption DEF Update, Running, TypeOK
  <2>2. /\ req'[r].step = AfterUpdate(req[r].kind) /\ req'[r].kind = req[r].kind
        /\ req'[r].cols = req[r].cols
        /\ \A o \in Requests : o # r => req'[o] = req[o]
        /\ Goes(r, AfterUpdate(req[r].kind)) /\ AfterUpdate(req[r].kind) \in Late
    BY <1>5, <2>1, GoesType, NextSteps DEF Update, Late
  <2>3. UNCHANGED <<row, ledger, cache, calm, deleted>>
    BY <1>5 DEF Update
  <2>4. Written(r)'
    BY <2>2, NextSteps DEF Written
  <2>5. \/ lock' = r /\ req[r].cols # {} /\ lock = None
        \/ lock' = lock /\ req[r].cols = {}
    BY <1>5 DEF Update, Blocked
  <2>6. lock' # None => Written(lock)' /\ (row' = None <=> "insert" \in req'[lock'].cols)
    BY <1>5, <2>1, <2>2, <2>3, <2>4, <2>5 DEF RowLocked, Written, TypeOK, Update
  <2>7. \A o \in Requests : o # r /\ lock = o => lock' = o
    BY <2>5, NoneAssumption
  <2> QED
    BY <1>3, <2>1, <2>2, <2>3, <2>5, <2>6, <2>7 DEF TypeOK
<1>6. ASSUME NEW r \in Requests, Insert(r)
      PROVE  TypeInv'
  <2>1. Running(r) /\ req[r].step # "fetch" /\ lock = None
    BY <1>6 DEF Insert, Running
  <2>2. UNCHANGED <<row, ledger, cache, calm, deleted>>
    BY <1>6 DEF Insert
  <2>3. CASE row = None
    <3>1. /\ req'[r].step = AfterUpdate(req[r].kind) /\ req'[r].kind = req[r].kind
          /\ req'[r].cols = req[r].cols /\ lock' = r
          /\ Goes(r, AfterUpdate(req[r].kind)) /\ AfterUpdate(req[r].kind) \in Late
      BY <1>6, <2>1, <2>3, GoesType, NextSteps DEF Insert, Late
    <3>2. Written(r)' /\ "insert" \in req'[r].cols
      BY <1>6, <3>1, NextSteps DEF Written, Insert
    <3> QED
      BY <1>3, <2>1, <2>2, <2>3, <3>1, <3>2, NoneAssumption DEF TypeOK
  <2>4. CASE row # None
    <3>1. Goes(r, "done") /\ lock' = None
      BY <1>6, <2>4 DEF Insert
    <3>2. req'[r].step = "done"
      BY <2>1, <3>1, GoesType
    <3> QED
      BY <1>3, <2>1, <2>2, <3>1, <3>2, NoneAssumption DEF TypeOK, Written
  <2> QED
    BY <2>3, <2>4
<1>7. ASSUME NEW r \in Requests, Notify(r) \/ NotifyFails(r)
      PROVE  TypeInv'
  <2>1. Running(r) /\ req[r].step = "notify" /\ UNCHANGED <<row, ledger, lock, deleted>>
    BY <1>7 DEF Notify, NotifyFails, Running
  <2>2. cache' \in [Keys -> User \union {None}] /\ calm' \in BOOLEAN
    <3>1. req[r].copy \in User
      BY <2>1, RequestFields
    <3> QED
      BY <1>7, <3>1 DEF Notify, NotifyFails, Told, TypeOK, Keys
  <2>3. Goes(r, AfterNotify(req[r].kind)) /\ AfterNotify(req[r].kind) \in Late \union {"done"}
    BY <1>7, NextSteps DEF Notify, NotifyFails, Late
  <2>4. /\ req'[r].step = AfterNotify(req[r].kind)
        /\ req'[r].step # "done" => req'[r].kind = req[r].kind /\ req'[r].cols = req[r].cols
        /\ \A o \in Requests : o # r => req'[o] = req[o]
    BY <2>1, <2>3, GoesType
  <2>5. Written(r)' => Written(r) /\ req'[r].cols = req[r].cols
    BY <2>1, <2>4, NextSteps DEF Written
  <2>6. Written(r)' /\ req'[r].cols # {} => lock' = r
    BY <2>1, <2>5 DEF RowLocked
  <2>7. lock' # None => Written(lock)' /\ (row' = None <=> "insert" \in req'[lock'].cols)
    <3>1. lock = r => Written(r)' /\ req'[r].cols = req[r].cols
      BY <2>1, <2>4, NoneAssumption DEF RowLocked, Written
    <3>2. lock # r /\ lock # None => req'[lock] = req[lock]
      BY <2>4 DEF TypeOK
    <3> QED
      BY <2>1, <3>1, <3>2 DEF RowLocked, Written
  <2> QED
    BY <1>3, <2>1, <2>2, <2>3, <2>6, <2>7 DEF TypeOK
<1>8. ASSUME NEW r \in Requests, Commit(r)
      PROVE  TypeInv'
  <2>1. Running(r) /\ req[r].step = "commit" /\ UNCHANGED <<cache, calm>>
    BY <1>8 DEF Commit, Running
  <2>2. /\ Goes(r, AfterCommit(req[r].kind)) /\ AfterCommit(req[r].kind) \in Late \union {"done"}
        /\ lock' = IF lock = r THEN None ELSE lock
    BY <1>8, NextSteps DEF Commit, FreedBy, Late
  <2>3. /\ req'[r].step = AfterCommit(req[r].kind)
        /\ req'[r].step # "done" => req'[r].kind = req[r].kind
        /\ \A o \in Requests : o # r => req'[o] = req[o]
    BY <2>1, <2>2, GoesType
  <2>4. ledger' \in Int /\ deleted' \in BOOLEAN
    BY <1>8, <2>1, RequestFields, DataAssumption DEF Commit, Posted, Deletes, TypeOK
  <2>5. ~Written(r)'
    BY <2>3, NextSteps DEF Written
  <2>6. lock' # None => lock # r /\ row' = row /\ req'[lock'] = req[lock]
    BY <1>8, <2>2, <2>3, SavedRow DEF TypeOK
  <2>7. lock' # None => Written(lock)' /\ (row' = None <=> "insert" \in req'[lock'].cols)
    BY <2>2, <2>6 DEF RowLocked, Written
  <2>8. row' \in User \union {None} /\ lock' \in Requests \union {None}
    BY <1>8, <2>2, SavedRow DEF TypeOK
  <2>9. \A o \in Requests : o # r /\ lock = o => lock' = o
    BY <2>2
  <2> QED
    BY <1>3, <2>1, <2>2, <2>4, <2>5, <2>7, <2>8, <2>9 DEF TypeOK
<1>9. ASSUME NEW k \in Keys, Evict(k)
      PROVE  TypeInv'
  BY <1>9 DEF Evict, TypeOK, RowLocked, Written, Running
<1>10. ASSUME NEW r \in Requests, Rollback(r)
       PROVE  TypeInv'
  <2>1. [step |-> "done"] \in RequestState
    BY DEF RequestState
  <2>2. /\ req' \in [Requests -> RequestState] /\ req'[r] = [step |-> "done"]
        /\ \A o \in Requests : o # r => req'[o] = req[o]
    BY <1>10, <2>1 DEF Rollback, TypeOK
  <2>3. /\ lock' = (IF lock = r THEN None ELSE lock) /\ calm' = FALSE
        /\ UNCHANGED <<row, ledger, cache, deleted>>
    BY <1>10 DEF Rollback, FreedBy
  <2>4. ~Written(r)' /\ ~Running(r)'
    BY <2>2 DEF Written, Running
  <2>5. lock' # None => lock # r /\ req'[lock'] = req[lock]
    BY <2>2, <2>3 DEF TypeOK
  <2>6. lock' # None => Written(lock)' /\ (row' = None <=> "insert" \in req'[lock'].cols)
    BY <2>3, <2>5 DEF RowLocked, Written
  <2>7. RowLocked'
    BY <2>2, <2>3, <2>4, <2>6, OthersLocked
  <2> QED
    BY <2>2, <2>3, <2>5, <2>7 DEF TypeOK
<1>11. CASE Restart
  <2>1. [step |-> "done"] \in RequestState
    BY DEF RequestState
  <2>2. req' \in [Requests -> RequestState] /\ \A o \in Requests : ~Running(o)' /\ ~Written(o)'
    BY <1>11, <2>1 DEF Restart, TypeOK, Running, Written
  <2> QED
    BY <1>11, <2>2 DEF Restart, TypeOK, RowLocked
<1>12. CASE UNCHANGED vars
  BY <1>12 DEF vars, TypeOK, RowLocked, Written, Running
<1> QED
  BY <1>1, <1>2, <1>4, <1>5, <1>6, <1>7, <1>8, <1>9, <1>10, <1>11, <1>12 DEF Next

LEMMA TypeInit == Init => TypeInv
<1> SUFFICES ASSUME Init PROVE TypeInv
  OBVIOUS
<1>1. row \in User /\ row # None
  BY DataAssumption, NoneAssumption DEF Init, User
<1>2. req \in [Requests -> RequestState] /\ \A r \in Requests : req[r].step = "idle"
  BY DEF Init, RequestState
<1>3. \A r \in Requests : ~Running(r) /\ ~Written(r)
  BY <1>2 DEF Running, Written
<1>4. /\ lock = None /\ ledger = 0 /\ calm = TRUE /\ deleted = FALSE
      /\ cache \in [Keys -> User \union {None}]
  BY DEF Init
<1>5. TypeOK
  <2>1. ledger \in Int
    BY <1>4
  <2>2. calm \in BOOLEAN /\ deleted \in BOOLEAN
    BY <1>4
  <2> QED
    BY <1>1, <1>2, <1>4, <2>1, <2>2, Zenon DEF TypeOK
<1>6. RowLocked
  BY <1>3, <1>4 DEF RowLocked
<1> QED
  BY <1>5, <1>6 DEF TypeInv

\* Every variable always holds a value of its type, and the row is locked by a
\* request between its UPDATE and its commit: the types of save, of the two
\* stores and of all operations.
THEOREM TypesHold == Spec => []TypeOK
<1>1. TypeInv /\ [Next]_vars => TypeInv'
  BY TypeStep
<1>2. TypeInv => TypeOK
  BY DEF TypeInv
<1> QED
  BY <1>1, <1>2, TypeInit, PTL DEF Spec

-----------------------------------------------------------------------------
(* No balance below zero                                                   *)

\* Whatever copy of the user is saved or read, its balance is not negative.
Solvent ==
    /\ row # None => row.balance >= 0
    /\ \A k \in Keys : cache[k] # None => cache[k].balance >= 0
    /\ \A r \in Requests : Running(r) /\ req[r].step # "fetch" => req[r].copy.balance >= 0

SolventInv == TypeInv /\ Solvent

LEMMA SolventStep ==
    ASSUME SolventInv, [Next]_vars
    PROVE  SolventInv'
<1> USE DEF SolventInv
<1>1. TypeInv /\ TypeOK /\ TypeInv'
  BY TypeStep DEF TypeInv
<1> SUFFICES Solvent'
  BY <1>1
<1>2. ASSUME NEW r \in Requests, UNCHANGED <<row, cache>>,
             \A o \in Requests : o # r => req'[o] = req[o],
             Running(r)' /\ req'[r].step # "fetch" => req'[r].copy.balance >= 0
      PROVE  Solvent'
  BY <1>2 DEF Solvent, Running
<1>3. ASSUME NEW r \in Requests, StartStored(r) \/ StartCached(r)
      PROVE  Solvent'
  <2>1. UNCHANGED <<row, cache>> /\ \A o \in Requests : o # r => req'[o] = req[o]
    BY <1>1, <1>3, StartType DEF StartStored, StartCached
  <2>2. Running(r)' /\ req'[r].step # "fetch" => req'[r].copy.balance >= 0
    <3>1. CASE req'[r] = [step |-> "done"]
      BY <3>1 DEF Running
    <3>2. ASSUME NEW kind \in StoredKinds, NEW x \in Amounts, NEW p \in Passwords,
                 row # None, row \in User, kind = "deduct" => Affordable(row.balance, x),
                 req'[r].copy = Edited(kind, row, x, p)
          PROVE  req'[r].copy.balance >= 0
      <4>1. x \in Nat /\ row.balance \in Int /\ row.balance >= 0 /\ kind \in Kinds
        BY <3>2, DataAssumption DEF User, Solvent, Kinds
      <4>2. Edited(kind, row, x, p).balance = row.balance + Posted(kind, x)
        BY <3>2, <4>1, EditedType
      <4> QED
        BY <3>2, <4>1, <4>2 DEF Posted, Affordable
    <3>3. ASSUME NEW k \in Keys, NEW kind \in CachedKinds,
                 req'[r].step = IF cache[k] # None THEN First(kind) ELSE "fetch",
                 req'[r].copy = cache[k], req'[r].step # "fetch"
          PROVE  req'[r].copy.balance >= 0
      BY <3>3 DEF Solvent
    <3>4. CASE \E kind \in StoredKinds, x \in Amounts, p \in Passwords :
                  /\ row # None /\ row \in User
                  /\ kind = "deduct" => Affordable(row.balance, x)
                  /\ req'[r] = [step |-> First(kind), kind |-> kind, amount |-> x,
                                copy |-> Edited(kind, row, x, p), cols |-> Own(kind)]
      <4>1. PICK kind \in StoredKinds, x \in Amounts, p \in Passwords :
                  /\ row # None /\ row \in User
                  /\ kind = "deduct" => Affordable(row.balance, x)
                  /\ req'[r] = [step |-> First(kind), kind |-> kind, amount |-> x,
                                copy |-> Edited(kind, row, x, p), cols |-> Own(kind)]
        BY <3>4
      <4>2. req'[r].copy = Edited(kind, row, x, p)
        BY <4>1
      <4> QED
        BY <3>2, <4>1, <4>2
    <3>5. CASE \E kind \in CachedKinds, k \in Keys :
                  /\ k = "id" => kind = "update"
                  /\ req'[r] = [step |-> IF cache[k] # None THEN First(kind) ELSE "fetch",
                                kind |-> kind, amount |-> 0, copy |-> cache[k],
                                cols |-> Own(kind)]
      <4>1. PICK kind \in CachedKinds, k \in Keys :
                  req'[r] = [step |-> IF cache[k] # None THEN First(kind) ELSE "fetch",
                             kind |-> kind, amount |-> 0, copy |-> cache[k],
                             cols |-> Own(kind)]
        BY <3>5
      <4>2. /\ req'[r].step = IF cache[k] # None THEN First(kind) ELSE "fetch"
            /\ req'[r].copy = cache[k]
        BY <4>1
      <4> QED
        BY <3>3, <4>2
    <3>6. TypeOK
      BY <1>1
    <3> HIDE DEF SolventInv
    <3> QED
      BY <1>3, <3>1, <3>4, <3>5, <3>6, StartType
  <2> QED
    BY <1>2, <2>1, <2>2
<1>4. ASSUME NEW r \in Requests, Fetch(r) \/ Select(r) \/ UpdateNothing(r)
      PROVE  Solvent'
  <2>1. UNCHANGED <<row, cache>> /\ \A o \in Requests : o # r => req'[o] = req[o]
    BY <1>1, <1>4, ReadType DEF Fetch, Select, UpdateNothing
  <2>2. CASE Fetch(r)
    BY <1>1, <1>2, <2>1, <2>2, ReadType DEF Solvent, Running
  <2>3. CASE Select(r)
    <3>1. Running(r) /\ req[r].step # "fetch" /\ req'[r].copy = req[r].copy
      BY <1>1, <2>3, ReadType DEF Select
    <3> QED
      BY <1>2, <2>1, <3>1 DEF Solvent
  <2>4. CASE UpdateNothing(r)
    <3>1. /\ Running(r) /\ req[r].step # "fetch"
          /\ req'[r] = [step |-> "done"] \/ req'[r].copy = req[r].copy
      BY <1>1, <2>4, ReadType DEF UpdateNothing
    <3> QED
      BY <1>2, <2>1, <3>1 DEF Solvent, Running
  <2> QED
    BY <1>4, <2>2, <2>3, <2>4
<1>5. ASSUME NEW r \in Requests, NEW s \in Late \union {"done"}, Running(r),
             req[r].step # "fetch", Goes(r, s),
             row' # None => row'.balance >= 0,
             \A k \in Keys : cache'[k] # None => cache'[k].balance >= 0
      PROVE  Solvent'
  <2>1. \A o \in Requests : Running(o)' /\ req'[o].step # "fetch" =>
           Running(o) /\ req[o].step # "fetch" /\ req'[o].copy = req[o].copy
    BY <1>1, <1>5, GoesType DEF Running
  <2> QED
    BY <1>5, <2>1 DEF Solvent
<1>6. ASSUME NEW r \in Requests, Fill(r) \/ Notify(r)
      PROVE  Solvent'
  <2>1. Running(r) /\ req[r].step # "fetch" /\ UNCHANGED row
    BY <1>6 DEF Fill, Notify, Running
  <2>2. \A k \in Keys : cache'[k] \in {None, cache[k], req[r].copy}
    BY <1>1, <1>6 DEF Fill, Notify, Told, TypeOK
  <2>3. \E s \in Late \union {"done"} : Goes(r, s)
    BY <1>6, NextSteps DEF Fill, Notify, Late
  <2>4. \A k \in Keys : cache'[k] # None => cache'[k].balance >= 0
    BY <2>1, <2>2 DEF Solvent
  <2> QED
    BY <1>5, <2>1, <2>3, <2>4 DEF Solvent
<1>7. ASSUME NEW r \in Requests, Update(r) \/ Insert(r) \/ NotifyFails(r)
      PROVE  Solvent'
  <2>1. Running(r) /\ req[r].step # "fetch" /\ UNCHANGED <<row, cache>>
    BY <1>7 DEF Update, Insert, NotifyFails, Running
  <2>2. \E s \in Late \union {"done"} : Goes(r, s)
    BY <1>7, NextSteps DEF Update, Insert, NotifyFails, Late
  <2> QED
    BY <1>5, <2>1, <2>2 DEF Solvent
<1>8. ASSUME NEW r \in Requests, Commit(r)
      PROVE  Solvent'
  <2>1. Running(r) /\ req[r].step # "fetch" /\ UNCHANGED cache
    BY <1>8 DEF Commit, Running
  <2>2. row' # None => row'.balance >= 0
    BY <1>1, <1>8, <2>1, SavedRow DEF Solvent
  <2>3. \E s \in Late \union {"done"} : Goes(r, s)
    BY <1>8, NextSteps DEF Commit, Late
  <2> QED
    BY <1>5, <2>1, <2>2, <2>3 DEF Solvent
<1>9. ASSUME NEW k \in Keys, Evict(k)
      PROVE  Solvent'
  BY <1>1, <1>9 DEF Evict, Solvent, Running, TypeOK
<1>10. ASSUME NEW r \in Requests, Rollback(r)
       PROVE  Solvent'
  <2>1. \A o \in Requests : Running(o)' => Running(o) /\ req'[o] = req[o]
    BY <1>1, <1>10 DEF Rollback, Running, TypeOK
  <2> QED
    BY <1>10, <2>1 DEF Rollback, Solvent
<1>11. CASE Restart
  <2>1. \A o \in Requests : ~Running(o)'
    BY <1>11 DEF Restart, Running
  <2> QED
    BY <1>11, <2>1 DEF Restart, Solvent
<1>12. CASE UNCHANGED vars
  BY <1>12 DEF vars, Solvent, Running
<1> QED
  BY <1>3, <1>4, <1>6, <1>7, <1>8, <1>9, <1>10, <1>11, <1>12 DEF Next

\* The balance never drops below zero, with no lock and no version of the row,
\* whatever requests overlap, whatever Redis holds, whatever fails and however
\* often she is deleted and saved again: what updateBalance checks is the copy
\* it saves.
THEOREM BalanceNonNegative == Spec => []NonNegative
<1>1. Init => SolventInv
  <2>1. Init => TypeInv
    BY TypeInit
  <2>2. Init => Solvent
    BY DataAssumption DEF Init, Solvent, Running
  <2> QED
    BY <2>1, <2>2 DEF SolventInv
<1>2. SolventInv /\ [Next]_vars => SolventInv'
  BY SolventStep
<1>3. SolventInv => NonNegative
  BY DEF SolventInv, Solvent, NonNegative
<1> QED
  BY <1>1, <1>2, <1>3, PTL DEF Spec

-----------------------------------------------------------------------------
(* While nothing overlaps                                                  *)

\* The columns of its save are settled.
Saving(r) == req[r].step = "update" \/ Written(r)

Due(r) == Posted(req[r].kind, req[r].amount)

\* The copy of a request is the row and its transaction, and it saves both.
Copied(r) ==
    /\ req[r].step \in {"fetch", "fill"} => Due(r) = 0
    /\ req[r].step # "fetch" => req[r].copy.balance = row.balance + Due(r)
    /\ Saving(r) /\ "balance" \notin req[r].cols => Due(r) = 0
    /\ "insert" \notin req[r].cols

\* Redis has what the transaction is about to commit, otherwise the row.
Stored(k) ==
    cache[k] # None =>
        /\ \/ cache[k].balance = row.balance
           \/ \E r \in Requests : req[r].step = "commit"
        /\ \A r \in Requests : req[r].step = "commit"
                                  => cache[k].balance = req[r].copy.balance

Calm ==
    /\ row # None /\ row.balance = Opening + ledger
    /\ \A r, o \in Requests : Running(r) /\ Running(o) => r = o
    /\ \A r \in Requests : Running(r) => Copied(r)
    /\ \A k \in Keys : Stored(k)

CalmInv == TypeInv /\ (calm /\ ~deleted => Calm)

\* Which operations post nothing.
LEMMA NothingPosted ==
    ASSUME NEW kind \in Kinds, NEW x
    PROVE  /\ kind \in CachedKinds \union {"resetPassword", "delete"} => Posted(kind, x) = 0
           /\ AfterUpdate(kind) = "commit" => Posted(kind, x) = 0
           /\ AfterNotify(kind) # "commit" => Posted(kind, x) = 0
           /\ AfterCommit(kind) # "done" => Posted(kind, x) = 0 /\ AfterNotify(kind) = "done"
           /\ AfterUpdate(kind) # "commit" => AfterNotify(kind) = "commit"
           /\ First(kind) # "select" => Posted(kind, x) = 0
  BY DEF Posted, First, AfterUpdate, AfterNotify, AfterCommit, Kinds, StoredKinds,
         CachedKinds, MoneyKinds

\* The numbers there are.
LEMMA Numbers ==
    ASSUME TypeOK, row # None
    PROVE  /\ row \in User
           /\ row.balance \in Int /\ ledger \in Int /\ Opening \in Int
           /\ \A k \in Keys : cache[k] # None => cache[k].balance \in Int
           /\ \A r \in Requests : Running(r) => Due(r) \in Int
<1>1. row \in User /\ row.balance \in Int /\ ledger \in Int /\ Opening \in Int
  BY DataAssumption DEF TypeOK, User
<1>2. \A k \in Keys : cache[k] # None => cache[k].balance \in Int
  BY DEF TypeOK, User
<1>3. ASSUME NEW r \in Requests, Running(r) PROVE Due(r) \in Int
  BY <1>3, RequestFields DEF Due, Posted
<1> QED
  BY <1>1, <1>2, <1>3

\* A request that goes on or starts, while no other runs, without touching the
\* row.
LEMMA GoesCalm ==
    ASSUME CalmInv, calm, ~deleted, NEW r \in Requests,
           \A o \in Requests : Running(o) => o = r,
           UNCHANGED <<row, ledger>>,
           \A o \in Requests : o # r => req'[o] = req[o],
           Running(r)' => Copied(r)',
           \A k \in Keys : Stored(k)'
    PROVE  Calm'
<1>1. Calm
  BY DEF CalmInv
<1>2. \A o \in Requests : Running(o)' => o = r
  BY DEF Running
<1> QED
  BY <1>1, <1>2 DEF Calm

LEMMA StartCalm ==
    ASSUME CalmInv, calm, ~deleted, NEW r \in Requests,
           StartStored(r) \/ StartCached(r), Joined(r)
    PROVE  Calm'
<1>1. Calm /\ TypeOK /\ ~Running(r) /\ \A o \in Requests : ~Running(o)
  BY DEF CalmInv, TypeInv, Joined, StartStored, StartCached, Running
<1>2. \A o \in Requests : req[o].step # "commit"
  BY <1>1 DEF Running
<1>3. \A k \in Keys : cache[k] # None => cache[k].balance = row.balance
  BY <1>1, <1>2 DEF Calm, Stored
<1>4. UNCHANGED <<row, ledger, cache>> /\ \A o \in Requests : o # r => req'[o] = req[o]
  BY <1>1, StartType DEF StartStored, StartCached
<1>5. req'[r].step # "commit" /\ (Running(r)' => Copied(r)')
  <2>1. CASE req'[r] = [step |-> "done"]
    BY <2>1 DEF Running
  <2>2. CASE \E kind \in StoredKinds, x \in Amounts, p \in Passwords :
                /\ row # None /\ row \in User
                /\ kind = "deduct" => Affordable(row.balance, x)
                /\ req'[r] = [step |-> First(kind), kind |-> kind, amount |-> x,
                              copy |-> Edited(kind, row, x, p), cols |-> Own(kind)]
    <3>1. PICK kind \in StoredKinds, x \in Amounts, p \in Passwords :
                /\ row # None /\ row \in User
                /\ req'[r] = [step |-> First(kind), kind |-> kind, amount |-> x,
                              copy |-> Edited(kind, row, x, p), cols |-> Own(kind)]
      BY <2>2
    <3>2. kind \in Kinds /\ kind # "login" /\ x \in Amounts \union {0}
      BY DEF Kinds, StoredKinds, MoneyKinds
    <3>3. Edited(kind, row, x, p).balance = row.balance + Posted(kind, x)
      BY <3>1, <3>2, EditedType
    <3>4. /\ req'[r].step = First(kind) /\ req'[r].kind = kind /\ req'[r].amount = x
          /\ req'[r].copy = Edited(kind, row, x, p) /\ req'[r].cols = Own(kind)
      BY <3>1
    <3>5. First(kind) \in {"select", "update"} /\ "insert" \notin Own(kind)
      BY NextSteps
    <3>6. Due(r)' = Posted(kind, x) /\ (First(kind) # "select" => Due(r)' = 0)
      BY <3>2, <3>4, NothingPosted DEF Due
    <3> QED
      BY <1>4, <3>3, <3>4, <3>5, <3>6 DEF Copied, Saving, Written
  <2>3. CASE \E kind \in CachedKinds, k \in Keys :
                /\ k = "id" => kind = "update"
                /\ req'[r] = [step |-> IF cache[k] # None THEN First(kind) ELSE "fetch",
                              kind |-> kind, amount |-> 0, copy |-> cache[k],
                              cols |-> Own(kind)]
    <3>1. PICK kind \in CachedKinds, k \in Keys :
                req'[r] = [step |-> IF cache[k] # None THEN First(kind) ELSE "fetch",
                           kind |-> kind, amount |-> 0, copy |-> cache[k],
                           cols |-> Own(kind)]
      BY <2>3
    <3>2. /\ req'[r].kind = kind /\ req'[r].amount = 0 /\ req'[r].cols = Own(kind)
          /\ req'[r].copy = cache[k]
          /\ req'[r].step = IF cache[k] # None THEN First(kind) ELSE "fetch"
      BY <3>1
    <3>3. Due(r)' = 0
      BY <3>2, NothingPosted DEF Due, Kinds
    <3>4. /\ First(kind) \in {"notify", "select", "update"} /\ "insert" \notin Own(kind)
      BY NextSteps
    <3>5. req'[r].step # "fetch" => req'[r].copy.balance = row'.balance + Due(r)'
      BY <1>1, <1>3, <1>4, <3>2, <3>3, Numbers DEF Calm
    <3> QED
      BY <3>2, <3>3, <3>4, <3>5 DEF Copied, Saving, Written
  <2> QED
    BY <1>1, <2>1, <2>2, <2>3, StartType
<1>6. \A o \in Requests : req'[o].step # "commit"
  BY <1>2, <1>4, <1>5
<1>7. \A k \in Keys : Stored(k)'
  BY <1>3, <1>4, <1>6 DEF Stored
<1> QED
  BY <1>1, <1>4, <1>5, <1>7, GoesCalm

\* What is so while a request runs that is not at its commit.
LEMMA RunsCalm ==
    ASSUME CalmInv, calm, ~deleted, NEW r \in Requests, Running(r), req[r].step # "commit"
    PROVE  /\ TypeOK /\ Calm /\ Copied(r)
           /\ req[r].kind \in Kinds /\ row # None /\ row \in User /\ row.balance \in Int
           /\ Due(r) \in Int
           /\ \A o \in Requests : Running(o) => o = r
           /\ \A o \in Requests : req[o].step # "commit"
           /\ \A k \in Keys : cache[k] # None => cache[k].balance = row.balance
<1>1. TypeOK /\ Calm /\ Copied(r) /\ row # None /\ \A o \in Requests : Running(o) => o = r
  BY DEF CalmInv, TypeInv, Calm
<1>2. req[r].kind \in Kinds /\ row \in User /\ row.balance \in Int /\ Due(r) \in Int
  BY <1>1, RequestFields, Numbers
<1>3. \A o \in Requests : req[o].step # "commit"
  BY <1>1 DEF Running
<1>4. \A k \in Keys : cache[k] # None => cache[k].balance = row.balance
  BY <1>1, <1>3 DEF Calm, Stored
<1> QED
  BY <1>1, <1>2, <1>3, <1>4

LEMMA ReadCalm ==
    ASSUME CalmInv, calm, ~deleted, NEW r \in Requests,
           Fetch(r) \/ Select(r) \/ UpdateNothing(r)
    PROVE  Calm'
<1>1. Running(r) /\ req[r].step # "commit" /\ UNCHANGED <<row, ledger, cache>>
  BY DEF Fetch, Select, UpdateNothing, Running
<1>2. /\ TypeOK /\ Calm /\ Copied(r)
      /\ req[r].kind \in Kinds /\ row # None /\ row \in User /\ row.balance \in Int
      /\ Due(r) \in Int
      /\ \A o \in Requests : Running(o) => o = r
      /\ \A o \in Requests : req[o].step # "commit"
      /\ \A k \in Keys : cache[k] # None => cache[k].balance = row.balance
  BY <1>1, RunsCalm
<1>3. \A o \in Requests : o # r => req'[o] = req[o]
  BY <1>2, ReadType
<1>4. req'[r].step # "commit" /\ Copied(r)'
  <2>1. CASE Fetch(r)
    <3>1. /\ req'[r].step = "fill" /\ req'[r].copy = row /\ req'[r].kind = req[r].kind
          /\ req'[r].amount = req[r].amount /\ req'[r].cols = req[r].cols
      BY <1>2, <2>1, ReadType
    <3>2. Due(r) = 0 /\ Due(r)' = 0 /\ "insert" \notin req[r].cols
      BY <1>2, <2>1, <3>1 DEF Due, Copied, Fetch
    <3> QED
      BY <1>1, <1>2, <3>1, <3>2 DEF Copied, Saving, Written
  <2>2. CASE Select(r)
    <3>1. /\ req'[r].step = "update" /\ req'[r].copy = req[r].copy
          /\ req'[r].kind = req[r].kind /\ req'[r].amount = req[r].amount
      BY <1>2, <2>2, ReadType
    <3>2. PICK more \in SUBSET Retyped(req[r].kind) :
             req'[r].cols = req[r].cols \union more \union Differing(req[r].copy, row)
      BY <1>2, <2>2, ReadType
    <3>3. Due(r)' = Due(r) /\ req[r].copy.balance = row.balance + Due(r)
      BY <1>2, <2>2, <3>1 DEF Due, Copied, Select
    <3>4. "insert" \notin req'[r].cols
      BY <1>2, <3>2, NextSteps DEF Copied, Differing
    <3>5. "balance" \notin req'[r].cols => Due(r) = 0
      BY <1>2, <3>2, <3>3 DEF Differing
    <3> QED
      BY <1>1, <3>1, <3>3, <3>4, <3>5 DEF Copied
  <2>3. CASE UpdateNothing(r)
    BY <1>2, <2>3 DEF UpdateNothing
  <2> QED
    BY <2>1, <2>2, <2>3
<1>5. \A k \in Keys : Stored(k)'
  BY <1>1, <1>2, <1>3, <1>4 DEF Stored
<1> QED
  BY <1>1, <1>2, <1>3, <1>4, <1>5, GoesCalm

LEMMA TellCalm ==
    ASSUME CalmInv, calm, ~deleted, NEW r \in Requests,
           Fill(r) \/ Update(r) \/ Insert(r) \/ Notify(r)
    PROVE  Calm'
<1>1. /\ Running(r) /\ req[r].step \notin {"commit", "fetch"} /\ UNCHANGED <<row, ledger>>
  BY DEF Fill, Update, Insert, Notify, Running
<1>2. /\ TypeOK /\ Calm /\ Copied(r)
      /\ req[r].kind \in Kinds /\ row # None /\ row \in User /\ row.balance \in Int
      /\ Due(r) \in Int
      /\ \A o \in Requests : Running(o) => o = r
      /\ \A o \in Requests : req[o].step # "commit"
      /\ \A k \in Keys : cache[k] # None => cache[k].balance = row.balance
  BY <1>1, RunsCalm
<1>3. req[r].copy.balance = row.balance + Due(r) /\ "insert" \notin req[r].cols
  BY <1>1, <1>2 DEF Copied
<1>4. ~Insert(r)
  BY <1>3 DEF Insert
<1> DEFINE s == IF Fill(r) THEN First(req[r].kind)
                ELSE IF Update(r) THEN AfterUpdate(req[r].kind) ELSE AfterNotify(req[r].kind)
<1>5. Goes(r, s) /\ s \in Late \union {"done"}
  <2>1. Fill(r) => req[r].step = "fill" /\ Goes(r, First(req[r].kind))
    BY DEF Fill
  <2>2. Update(r) => req[r].step = "update" /\ Goes(r, AfterUpdate(req[r].kind))
    BY DEF Update
  <2>3. Notify(r) => req[r].step = "notify" /\ Goes(r, AfterNotify(req[r].kind))
    BY DEF Notify
  <2> QED
    BY <1>4, <2>1, <2>2, <2>3, NextSteps DEF Late
<1> HIDE DEF s
<1>6. /\ req'[r].step = s
      /\ s # "done" => /\ req'[r].kind = req[r].kind /\ req'[r].amount = req[r].amount
                       /\ req'[r].copy = req[r].copy /\ req'[r].cols = req[r].cols
      /\ \A o \in Requests : o # r => req'[o] = req[o]
  BY <1>1, <1>2, <1>5, GoesType
<1>7. s # "done" => Due(r)' = Due(r)
  BY <1>6 DEF Due
<1>8. CASE Fill(r)
  <2>1. Due(r) = 0 /\ UNCHANGED <<lock, calm>> /\ req[r].step = "fill"
    BY <1>2, <1>8 DEF Copied, Fill
  <2>2. s = First(req[r].kind) /\ s \in {"notify", "select", "update"}
    BY <1>8, NextSteps DEF s
  <2>3. Copied(r)'
    BY <1>1, <1>3, <1>6, <1>7, <2>1, <2>2 DEF Copied
  <2>4. \A k \in Keys : cache'[k] = req[r].copy
    BY <1>8 DEF Fill
  <2>5. \A k \in Keys : Stored(k)'
    BY <1>1, <1>2, <1>3, <1>6, <2>1, <2>2, <2>4 DEF Stored
  <2> QED
    BY <1>1, <1>2, <1>6, <2>3, <2>5, GoesCalm
<1>9. CASE Update(r)
  <2>1. s = AfterUpdate(req[r].kind) /\ req[r].step = "update" /\ UNCHANGED cache
    BY <1>9 DEF Update, Fill, s
  <2>2. s \in {"notify", "commit"} /\ (s = "commit" => Due(r) = 0)
    BY <1>2, <2>1, NothingPosted, NextSteps DEF Due
  <2>3. Copied(r)'
    BY <1>1, <1>2, <1>3, <1>6, <1>7, <2>1, <2>2 DEF Copied, Saving
  <2>4. \A k \in Keys : Stored(k)'
    BY <1>1, <1>2, <1>3, <1>6, <2>1, <2>2 DEF Stored
  <2> QED
    BY <1>1, <1>2, <1>6, <2>3, <2>4, GoesCalm
<1>10. CASE Notify(r)
  <2>1. s = AfterNotify(req[r].kind) /\ req[r].step = "notify"
    BY <1>10 DEF Notify, Update, Fill, s
  <2>2. /\ s \in {"select", "commit", "done"}
        /\ s # "commit" => Due(r) = 0
        /\ req[r].kind \in {"resetPassword", "delete"} => Due(r) = 0
    BY <1>2, <2>1, NothingPosted, NextSteps DEF Due
  <2>3. Running(r)' => Copied(r)'
    <3> SUFFICES ASSUME Running(r)' PROVE Copied(r)'
      OBVIOUS
    <3>1. s \in {"select", "commit"}
      BY <1>6, <2>2 DEF Running
    <3>2. Saving(r)' => Saving(r)
      BY <1>6, <2>1, <3>1 DEF Saving, Written
    <3> QED
      BY <1>1, <1>2, <1>3, <1>6, <1>7, <2>1, <3>1, <3>2 DEF Copied
  <2>4. \A k \in Keys : cache'[k] # None => cache'[k].balance = req[r].copy.balance
    <3>1. \A k \in Keys : \/ cache'[k] \in {None, req[r].copy}
                          \/ cache'[k] = cache[k] /\ req[r].kind \in {"resetPassword", "delete"}
      BY <1>2, <1>10 DEF Notify, Told, TypeOK
    <3> QED
      BY <1>2, <1>3, <2>2, <3>1
  <2>5. \A k \in Keys : Stored(k)'
    BY <1>1, <1>2, <1>3, <1>6, <2>1, <2>2, <2>4 DEF Stored
  <2> QED
    BY <1>1, <1>2, <1>6, <2>3, <2>5, GoesCalm
<1> QED
  BY <1>4, <1>8, <1>9, <1>10

LEMMA CommitCalm ==
    ASSUME CalmInv, calm, ~deleted, NEW r \in Requests, Commit(r), ~deleted'
    PROVE  Calm'
<1>1. /\ Running(r) /\ req[r].step = "commit" /\ UNCHANGED cache /\ ~Deletes(r)
      /\ ledger' = ledger + Due(r)
  BY DEF Commit, Running, Due
<1>2. TypeInv /\ TypeOK /\ Calm /\ Copied(r) /\ row # None
  BY <1>1 DEF CalmInv, TypeInv, Calm
<1>3. /\ req[r].kind \in Kinds /\ row.balance \in Int /\ Due(r) \in Int
      /\ req[r].copy.balance = row.balance + Due(r) /\ ledger \in Int /\ Opening \in Int
  BY <1>1, <1>2, RequestFields, Numbers DEF Copied
<1>4. row' # None /\ row'.balance = row.balance + Due(r)
  BY <1>1, <1>2, <1>3, SavedRow DEF Copied, Saving, Written
<1>5. row'.balance = Opening + ledger'
  BY <1>1, <1>2, <1>3, <1>4 DEF Calm
<1>6. /\ req'[r].step = AfterCommit(req[r].kind)
      /\ \A o \in Requests : o # r => req'[o] = req[o]
      /\ AfterCommit(req[r].kind) # "done" =>
           /\ req'[r].kind = req[r].kind /\ req'[r].amount = req[r].amount
           /\ req'[r].copy = req[r].copy /\ req'[r].cols = req[r].cols
  <2>1. Goes(r, AfterCommit(req[r].kind)) /\ AfterCommit(req[r].kind) \in Late \union {"done"}
    BY NextSteps DEF Commit, Late
  <2> QED
    BY <1>1, <1>2, <2>1, GoesType
<1>7. \A o \in Requests : Running(o)' => o = r
  BY <1>1, <1>2, <1>6 DEF Calm, Running
<1>8. Running(r)' => Copied(r)'
  <2> SUFFICES ASSUME Running(r)' PROVE Copied(r)'
    OBVIOUS
  <2>1. AfterCommit(req[r].kind) = "notify"
    BY <1>6, NextSteps DEF Running
  <2>2. /\ Due(r) = 0 /\ Due(r)' = 0 /\ req'[r].step = "notify"
        /\ AfterNotify(req'[r].kind) = "done"
    BY <1>3, <1>6, <2>1, NothingPosted DEF Due
  <2> QED
    BY <1>2, <1>3, <1>4, <1>6, <2>1, <2>2 DEF Copied, Saving, Written
<1>9. \A o \in Requests : req'[o].step # "commit"
  BY <1>1, <1>2, <1>6, NextSteps DEF Calm, Running
<1>10. \A k \in Keys : cache[k] # None => cache[k].balance = req[r].copy.balance
  BY <1>1, <1>2 DEF Calm, Stored
<1>11. \A k \in Keys : Stored(k)'
  BY <1>1, <1>3, <1>4, <1>9, <1>10 DEF Stored
<1> QED
  BY <1>4, <1>5, <1>7, <1>8, <1>11 DEF Calm

LEMMA CalmStep ==
    ASSUME CalmInv, [Next]_vars
    PROVE  CalmInv'
<1>1. TypeInv /\ TypeInv'
  BY TypeStep DEF CalmInv
<1> SUFFICES ASSUME calm', ~deleted' PROVE Calm'
  BY <1>1 DEF CalmInv
<1>2. ASSUME NEW r \in Requests, StartStored(r) \/ StartCached(r)
      PROVE  Calm'
  <2>1. deleted' = deleted /\ calm' = Joined(r)
    BY <1>2 DEF StartStored, StartCached
  <2>2. calm /\ ~deleted /\ Joined(r)
    BY <2>1 DEF Joined
  <2> QED
    BY <1>2, <2>2, StartCalm
<1>3. ASSUME NEW r \in Requests, Fetch(r) \/ Select(r) \/ UpdateNothing(r)
      PROVE  Calm'
  <2>1. deleted' = deleted /\ calm' = calm
    BY <1>3 DEF Fetch, Select, UpdateNothing
  <2>2. calm /\ ~deleted
    BY <2>1
  <2> QED
    BY <1>3, <2>2, ReadCalm
<1>4. ASSUME NEW r \in Requests, Fill(r) \/ Update(r) \/ Insert(r) \/ Notify(r)
      PROVE  Calm'
  <2>1. deleted' = deleted /\ calm' = calm
    BY <1>4 DEF Fill, Update, Insert, Notify
  <2>2. calm /\ ~deleted
    BY <2>1
  <2> QED
    BY <1>4, <2>2, TellCalm
<1>5. ASSUME NEW r \in Requests, Commit(r)
      PROVE  Calm'
  BY <1>5, CommitCalm DEF Commit
<1>6. ASSUME NEW k \in Keys, Evict(k)
      PROVE  Calm'
  BY <1>1, <1>6
  DEF Evict, CalmInv, Calm, Copied, Stored, Saving, Written, Due, Running, TypeInv, TypeOK
<1>7. ASSUME NEW r \in Requests, Rollback(r) \/ NotifyFails(r)
      PROVE  Calm'
  BY <1>7 DEF Rollback, NotifyFails
<1>8. CASE Restart
  BY <1>8 DEF Restart
<1>9. CASE UNCHANGED vars
  BY <1>9 DEF vars, CalmInv, Calm, Copied, Stored, Saving, Written, Due, Running
<1> QED
  BY <1>2, <1>3, <1>4, <1>5, <1>6, <1>7, <1>8, <1>9 DEF Next

LEMMA CalmInvariant == Spec => []CalmInv
<1>1. ASSUME Init PROVE CalmInv
  <2>1. TypeInv
    BY <1>1, TypeInit
  <2>2. Calm
    <3>1. row # None /\ row.balance = Opening + ledger
      BY <1>1, DataAssumption, NoneAssumption DEF Init, User
    <3>2. \A r \in Requests : ~Running(r)
      BY <1>1 DEF Init, Running
    <3>3. \A k \in Keys : Stored(k)
      BY <1>1 DEF Init, Stored
    <3> QED
      BY <3>1, <3>2, <3>3 DEF Calm
  <2> QED
    BY <2>1, <2>2 DEF CalmInv
<1>2. CalmInv /\ [Next]_vars => CalmInv'
  BY CalmStep
<1> QED
  BY <1>1, <1>2, PTL DEF Spec

\* As long as no two requests overlap, nothing fails and the user is not
\* deleted, the balance is what the ledger says: every operation saves a copy
\* whose balance is the row's and its own transaction, even the ones that take
\* it from Redis.
THEOREM LedgerHolds == Spec => []LedgerBalances
<1>1. CalmInv => LedgerBalances
  BY DEF CalmInv, Calm, LedgerBalances
<1> QED
  BY <1>1, CalmInvariant, PTL

\* On the same condition Redis has the balance of the row between requests:
\* what notifyUpdate and the logins store is what has been committed.
THEOREM CacheHolds == Spec => []CacheHoldsBalance
<1>1. ASSUME CalmInv, Resting, ~deleted, NEW k \in Keys, cache[k] # None
      PROVE  cache[k].balance = row.balance
  BY <1>1 DEF CalmInv, Calm, Stored, Running, Resting
<1>2. CalmInv => CacheHoldsBalance
  BY <1>1 DEF CacheHoldsBalance
<1> QED
  BY <1>2, CalmInvariant, PTL

-----------------------------------------------------------------------------
(* After the user is deleted                                               *)

\* An update found the copy under the id, and will insert it.
Reviving(r) ==
    /\ req[r].kind = "update"
    /\ req[r].step = "select" \/ (Saving(r) /\ "insert" \in req[r].cols)

\* No request goes on after one that deletes, except one that reads her again
\* or brings her back; who deletes has removed the copy under the email.
Quiet ==
    /\ \A r, o \in Requests : Running(r) /\ Running(o) => r = o
    /\ \A r \in Requests : Running(r) /\ row = None => req[r].step = "fetch" \/ Reviving(r)
    /\ \A r \in Requests : req[r].step = "commit" /\ req[r].kind = "delete"
                              => cache["email"] = None
    /\ row = None =>
          cache["email"] = None \/ \E r \in Requests : req[r].step = "commit" /\ Reviving(r)

QuietInv == TypeInv /\ (calm => Quiet)

\* A step of one request while no other runs.
LEMMA GoesQuiet ==
    ASSUME TypeInv, Quiet, NEW r \in Requests,
           \A o \in Requests : Running(o) => o = r,
           \A o \in Requests : o # r => req'[o] = req[o],
           (Running(r) /\ row = None => req[r].step = "fetch" \/ Reviving(r))',
           req'[r].step = "commit" /\ req'[r].kind = "delete" => cache'["email"] = None,
           row' = None => \/ cache'["email"] = None
                          \/ req'[r].step = "commit" /\ Reviving(r)'
    PROVE  Quiet'
<1>1. \A o \in Requests : o # r => ~Running(o) /\ ~Running(o)' /\ req'[o].step # "commit"
  BY DEF Running
<1> QED
  BY <1>1 DEF Quiet

LEMMA StartQuiet ==
    ASSUME QuietInv, calm, NEW r \in Requests, StartStored(r) \/ StartCached(r), Joined(r)
    PROVE  Quiet'
<1>1. TypeInv /\ TypeOK /\ Quiet /\ ~Running(r) /\ \A o \in Requests : ~Running(o)
  BY DEF QuietInv, TypeInv, Joined, StartStored, StartCached, Running
<1>2. row = None => cache["email"] = None
  BY <1>1 DEF Quiet, Running
<1>3. UNCHANGED <<row, cache>> /\ \A o \in Requests : o # r => req'[o] = req[o]
  BY <1>1, StartType DEF StartStored, StartCached
<1>4. req'[r].step # "commit" /\ (Running(r)' /\ row = None => req'[r].step = "fetch" \/ Reviving(r)')
  <2>1. CASE req'[r] = [step |-> "done"]
    BY <2>1 DEF Running
  <2>2. CASE \E kind \in StoredKinds, x \in Amounts, p \in Passwords :
                /\ row # None /\ row \in User
                /\ kind = "deduct" => Affordable(row.balance, x)
                /\ req'[r] = [step |-> First(kind), kind |-> kind, amount |-> x,
                              copy |-> Edited(kind, row, x, p), cols |-> Own(kind)]
    <3>1. row # None /\ \E kind : req'[r].step = First(kind)
      BY <2>2
    <3> QED
      BY <3>1, NextSteps
  <2>3. CASE \E kind \in CachedKinds, k \in Keys :
                /\ k = "id" => kind = "update"
                /\ req'[r] = [step |-> IF cache[k] # None THEN First(kind) ELSE "fetch",
                              kind |-> kind, amount |-> 0, copy |-> cache[k],
                              cols |-> Own(kind)]
    <3>1. PICK kind \in CachedKinds, k \in Keys :
                /\ k = "id" => kind = "update"
                /\ req'[r] = [step |-> IF cache[k] # None THEN First(kind) ELSE "fetch",
                              kind |-> kind, amount |-> 0, copy |-> cache[k],
                              cols |-> Own(kind)]
      BY <2>3
    <3>2. /\ req'[r].kind = kind /\ k \in {"id", "email"}
          /\ req'[r].step = IF cache[k] # None THEN First(kind) ELSE "fetch"
      BY <3>1 DEF Keys
    <3>3. First("update") = "select" /\ First(kind) # "commit"
      BY NextSteps DEF First
    <3>4. CASE k = "id"
      <4>1. kind = "update" /\ req'[r].kind = "update" /\ req'[r].step \in {"select", "fetch"}
        BY <3>1, <3>2, <3>3, <3>4
      <4>2. CASE req'[r].step = "select"
        <5>1. Reviving(r)'
          BY <4>1, <4>2 DEF Reviving
        <5>2. req'[r].step # "commit"
          BY <4>2
        <5> QED
          BY <5>1, <5>2
      <4>3. CASE req'[r].step = "fetch"
        BY <4>3
      <4> QED
        BY <4>1, <4>2, <4>3
    <3>5. CASE k = "email"
      <4>1. req'[r].step # "commit" /\ (row = None => req'[r].step = "fetch")
        BY <1>2, <3>2, <3>3, <3>5
      <4> QED
        BY <4>1
    <3> QED
      BY <3>2, <3>4, <3>5
  <2> QED
    BY <1>1, <2>1, <2>2, <2>3, StartType
<1>5. /\ (Running(r) /\ row = None => req[r].step = "fetch" \/ Reviving(r))'
      /\ row' = None => cache'["email"] = None
  BY <1>2, <1>3, <1>4
<1>6. \A o \in Requests : Running(o) => o = r
  BY <1>1
<1> QED
  BY <1>1, <1>3, <1>4, <1>5, <1>6, GoesQuiet

LEMMA ReadQuiet ==
    ASSUME QuietInv, calm, NEW r \in Requests,
           Fetch(r) \/ Select(r) \/ UpdateNothing(r)
    PROVE  Quiet'
<1>1. /\ Running(r) /\ req[r].step # "commit" /\ UNCHANGED <<row, cache>>
      /\ TypeInv /\ TypeOK /\ Quiet
  BY DEF Fetch, Select, UpdateNothing, Running, QuietInv, TypeInv
<1>2. \A o \in Requests : Running(o) => o = r
  BY <1>1 DEF Quiet
<1>3. \A o \in Requests : o # r => req'[o] = req[o]
  BY <1>1, ReadType
<1>4. row = None => cache["email"] = None
  BY <1>1, <1>2 DEF Quiet, Running
<1>5. /\ Running(r)' /\ row = None => req'[r].step = "fetch" \/ Reviving(r)'
      /\ req'[r].step = "commit" => req'[r].kind # "delete"
  <2>1. CASE Fetch(r)
    BY <1>1, <2>1, ReadType DEF Running
  <2>2. CASE Select(r)
    <3>1. /\ req'[r].step = "update" /\ req'[r].kind = req[r].kind
          /\ row = None => req'[r].cols = {"insert"}
      BY <1>1, <2>2, ReadType
    <3>2. row = None => req[r].kind = "update"
      BY <1>1, <2>2 DEF Quiet, Reviving, Select
    <3> QED
      BY <3>1, <3>2 DEF Reviving, Saving
  <2>3. CASE UpdateNothing(r)
    <3>1. row = None /\ req[r].step = "update" /\ "insert" \notin req[r].cols
      BY <2>3 DEF UpdateNothing
    <3> QED
      BY <1>1, <3>1 DEF Quiet, Reviving
  <2> QED
    BY <2>1, <2>2, <2>3
<1>6. /\ (Running(r) /\ row = None => req[r].step = "fetch" \/ Reviving(r))'
      /\ row' = None => cache'["email"] = None
  BY <1>1, <1>4, <1>5
<1> QED
  BY <1>1, <1>2, <1>3, <1>5, <1>6, GoesQuiet

LEMMA TellQuiet ==
    ASSUME QuietInv, calm, NEW r \in Requests,
           Fill(r) \/ Update(r) \/ Insert(r) \/ Notify(r)
    PROVE  Quiet'
<1>1. /\ Running(r) /\ req[r].step \notin {"commit", "fetch"} /\ UNCHANGED row
      /\ TypeInv /\ TypeOK /\ Quiet
  BY DEF Fill, Update, Insert, Notify, Running, QuietInv, TypeInv
<1>2. \A o \in Requests : Running(o) => o = r
  BY <1>1 DEF Quiet
<1>3. row = None => cache["email"] = None /\ Reviving(r)
  BY <1>1, <1>2 DEF Quiet, Running
<1>4. ASSUME NEW s \in Late \union {"done"}, Goes(r, s)
      PROVE  /\ req'[r].step = s
             /\ s # "done" => req'[r].kind = req[r].kind /\ req'[r].cols = req[r].cols
             /\ \A o \in Requests : o # r => req'[o] = req[o]
  BY <1>1, <1>4, GoesType
<1>5. CASE Fill(r)
  <2>1. Goes(r, First(req[r].kind)) /\ First(req[r].kind) \in {"notify", "select", "update"}
    BY <1>5, NextSteps DEF Fill
  <2>2. req'[r].step # "commit" /\ \A o \in Requests : o # r => req'[o] = req[o]
    BY <1>4, <2>1 DEF Late
  <2>3. row # None
    BY <1>3, <1>5 DEF Reviving, Saving, Written, Fill
  <2> QED
    BY <1>1, <1>2, <2>2, <2>3, GoesQuiet
<1>6. CASE Update(r)
  <2>1. Goes(r, AfterUpdate(req[r].kind)) /\ AfterUpdate(req[r].kind) \in {"notify", "commit"}
    BY <1>6, NextSteps DEF Update
  <2>2. /\ req'[r].step = AfterUpdate(req[r].kind) /\ req'[r].kind = req[r].kind
        /\ \A o \in Requests : o # r => req'[o] = req[o]
    BY <1>4, <2>1 DEF Late
  <2>3. row # None /\ AfterUpdate("delete") = "notify"
    BY <1>6 DEF Update, AfterUpdate
  <2> QED
    BY <1>1, <1>2, <2>2, <2>3, GoesQuiet
<1>7. CASE Insert(r) /\ row = None
  <2>1. /\ Goes(r, AfterUpdate(req[r].kind)) /\ req[r].kind = "update" /\ UNCHANGED cache
        /\ "insert" \in req[r].cols
    BY <1>3, <1>7 DEF Insert, Reviving
  <2>2. AfterUpdate("update") = "notify" /\ AfterNotify("update") = "commit"
    BY DEF AfterUpdate, AfterNotify
  <2>3. /\ req'[r].step = "notify" /\ req'[r].kind = req[r].kind /\ req'[r].cols = req[r].cols
        /\ \A o \in Requests : o # r => req'[o] = req[o]
    BY <1>4, <2>1, <2>2 DEF Late
  <2>4. Reviving(r)'
    BY <2>1, <2>2, <2>3 DEF Reviving, Saving, Written
  <2> QED
    BY <1>1, <1>2, <1>3, <2>1, <2>3, <2>4, GoesQuiet
<1>8. CASE Insert(r) /\ row # None
  <2>1. Goes(r, "done")
    BY <1>8 DEF Insert
  <2>2. req'[r].step = "done" /\ \A o \in Requests : o # r => req'[o] = req[o]
    BY <1>4, <2>1
  <2> QED
    BY <1>1, <1>2, <1>8, <2>2, GoesQuiet
<1>9. CASE Notify(r)
  <2>1. /\ Goes(r, AfterNotify(req[r].kind)) /\ req[r].step = "notify"
        /\ AfterNotify(req[r].kind) \in {"select", "commit", "done"}
        /\ cache' = Told(req[r].kind, req[r].copy)
    BY <1>9, NextSteps DEF Notify
  <2>2. /\ req'[r].step = AfterNotify(req[r].kind)
        /\ AfterNotify(req[r].kind) # "done" =>
              req'[r].kind = req[r].kind /\ req'[r].cols = req[r].cols
        /\ \A o \in Requests : o # r => req'[o] = req[o]
    BY <1>4, <2>1 DEF Late
  <2>3. req[r].kind = "delete" => cache'["email"] = None
    BY <1>1, <2>1 DEF Told, TypeOK, Keys
  <2>4. row = None => req'[r].step = "commit" /\ Reviving(r)'
    <3>1. row = None => req[r].kind = "update" /\ "insert" \in req[r].cols
      BY <1>3, <2>1 DEF Reviving
    <3>2. AfterNotify("update") = "commit"
      BY DEF AfterNotify
    <3> QED
      BY <2>2, <3>1, <3>2 DEF Reviving, Saving, Written
  <2>5. AfterNotify("delete") = "commit"
    BY DEF AfterNotify
  <2> QED
    BY <1>1, <1>2, <2>2, <2>3, <2>4, GoesQuiet
<1> QED
  BY <1>5, <1>6, <1>7, <1>8, <1>9

LEMMA CommitQuiet ==
    ASSUME QuietInv, calm, NEW r \in Requests, Commit(r)
    PROVE  Quiet'
<1>1. /\ Running(r) /\ req[r].step = "commit" /\ req[r].step # "fetch" /\ UNCHANGED cache
      /\ TypeInv /\ TypeOK /\ Quiet
  BY DEF Commit, Running, QuietInv, TypeInv
<1>2. \A o \in Requests : Running(o) => o = r
  BY <1>1 DEF Quiet
<1>3. Goes(r, AfterCommit(req[r].kind)) /\ AfterCommit(req[r].kind) \in {"notify", "done"}
  BY NextSteps DEF Commit
<1>4. /\ req'[r].step = AfterCommit(req[r].kind)
      /\ \A o \in Requests : o # r => req'[o] = req[o]
  BY <1>1, <1>3, GoesType DEF Late
<1>5. Deletes(r) => /\ req[r].kind = "delete" /\ cache["email"] = None
                    /\ AfterCommit(req[r].kind) = "done"
  BY <1>1 DEF TypeInv, RowLocked, Deletes, Quiet, AfterCommit
<1>6. ~Deletes(r) => row' # None
  <2>1. row = None => "insert" \in req[r].cols
    BY <1>1 DEF Quiet, Reviving
  <2>2. req[r].copy # None
    BY <1>1, RequestFields
  <2> QED
    BY <1>1, <2>1, <2>2, SavedRow
<1>7. /\ row' = None => Deletes(r)
      /\ (Running(r) /\ row = None => req[r].step = "fetch" \/ Reviving(r))'
      /\ row' = None => cache'["email"] = None
      /\ req'[r].step # "commit"
  BY <1>1, <1>3, <1>4, <1>5, <1>6 DEF Running
<1> QED
  BY <1>1, <1>2, <1>4, <1>7, GoesQuiet

LEMMA QuietStep ==
    ASSUME QuietInv, [Next]_vars
    PROVE  QuietInv'
<1>1. TypeInv /\ TypeInv'
  BY TypeStep DEF QuietInv
<1> SUFFICES ASSUME calm' PROVE Quiet'
  BY <1>1 DEF QuietInv
<1>2. ASSUME NEW r \in Requests, StartStored(r) \/ StartCached(r)
      PROVE  Quiet'
  <2>1. calm /\ Joined(r)
    BY <1>2 DEF StartStored, StartCached, Joined
  <2> QED
    BY <1>2, <2>1, StartQuiet
<1>3. ASSUME NEW r \in Requests, Fetch(r) \/ Select(r) \/ UpdateNothing(r)
      PROVE  Quiet'
  BY <1>3, ReadQuiet DEF Fetch, Select, UpdateNothing
<1>4. ASSUME NEW r \in Requests, Fill(r) \/ Update(r) \/ Insert(r) \/ Notify(r)
      PROVE  Quiet'
  BY <1>4, TellQuiet DEF Fill, Update, Insert, Notify
<1>5. ASSUME NEW r \in Requests, Commit(r)
      PROVE  Quiet'
  BY <1>5, CommitQuiet DEF Commit
<1>6. ASSUME NEW k \in Keys, Evict(k)
      PROVE  Quiet'
  <2>1. cache'["email"] \in {None, cache["email"]} /\ UNCHANGED <<row, req>> /\ Quiet
    BY <1>1, <1>6 DEF Evict, QuietInv, TypeInv, TypeOK, Keys
  <2> QED
    BY <2>1 DEF Quiet, Reviving, Saving, Written, Running
<1>7. ASSUME NEW r \in Requests, Rollback(r) \/ NotifyFails(r)
      PROVE  Quiet'
  BY <1>7 DEF Rollback, NotifyFails
<1>8. CASE Restart
  BY <1>8 DEF Restart
<1>9. CASE UNCHANGED vars
  BY <1>9 DEF vars, QuietInv, Quiet, Reviving, Saving, Written, Running
<1> QED
  BY <1>2, <1>3, <1>4, <1>5, <1>6, <1>7, <1>8, <1>9 DEF Next

\* Without overlap and fault, a deleted user is gone from under her email for
\* good: notifyDelete empties the key before the commit, and until an update
\* brings her back from the copy under her id no request can fill it again.
THEOREM DeletedStaysOut == Spec => []DeletedCannotLogIn
<1>1. ASSUME Init PROVE QuietInv
  <2>1. TypeInv
    BY <1>1, TypeInit
  <2>2. Quiet
    BY <1>1, DataAssumption, NoneAssumption DEF Init, Quiet, Running, User, Keys
  <2> QED
    BY <2>1, <2>2 DEF QuietInv
<1>2. QuietInv /\ [Next]_vars => QuietInv'
  BY QuietStep
<1>3. QuietInv => DeletedCannotLogIn
  <2>1. ASSUME QuietInv, Resting, row = None
        PROVE  cache["email"] = None
    BY <2>1 DEF QuietInv, Quiet, Resting, Running
  <2> QED
    BY <2>1 DEF DeletedCannotLogIn
<1> QED
  BY <1>1, <1>2, <1>3, PTL DEF Spec

=============================================================================
