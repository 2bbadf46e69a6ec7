---------------------------- MODULE UserAccount ----------------------------
(***************************************************************************)
(* One user of the user service: her row in Postgres, the ledger of her    *)
(* transactions, the two copies of the row in Redis, and the requests that *)
(* write them.                                                             *)
(*                                                                         *)
(* Every request reads the user, from Postgres or from Redis, changes its  *)
(* copy and gives the whole of it to TypeORM's save, which reads the row   *)
(* again and updates the columns that differ.  A transaction is READ       *)
(* COMMITTED: an UPDATE locks the row until the commit and is seen by      *)
(* others after it.  If the row is gone when save reads it again, save     *)
(* inserts the copy; if it goes after that, the UPDATE finds nothing.  All *)
(* commands to Redis use one connection, so that each takes effect in the  *)
(* order in which it was issued.                                           *)
(***************************************************************************)
EXTENDS Integers, FiniteSets

CONSTANTS
    Requests,   \* executions of the service's operations
    Amounts,    \* sums of money
    Passwords,  \* hashes of passwords
    Opening,    \* the balance at first
    Faults,     \* the faults that may happen
    None        \* no entry in Redis, no row, nobody holds the lock

FaultKinds ==
    { "rollback",   \* a statement or a commit fails
      "redis",      \* a SET, which nobody awaits, fails
      "restart" }   \* the user service restarts

\* What is done to a user, by where the request reads her.
MoneyKinds  == {"deduct", "add", "charge"}
StoredKinds == MoneyKinds \union {"editRole", "changePassword", "resetPassword", "delete"}
CachedKinds == {"update", "login", "roleLogin", "forgotPassword"}
Kinds == StoredKinds \union CachedKinds

Keys == {"id", "email"}
User == [balance: Int, password: Passwords]

ASSUME DataAssumption == Amounts \subseteq Nat /\ Opening \in Nat
ASSUME FaultAssumption == Faults \subseteq FaultKinds
ASSUME NoneAssumption == None \notin User /\ None \notin Requests

VARIABLES
    row,        \* the row of the user, as committed; None once she is deleted
    ledger,     \* the sum of her committed transactions
    lock,       \* the request whose transaction has updated the row
    cache,      \* cache[k]: the copy of the user under key k
    req,        \* req[r]: what request r does and where it is
    calm,       \* history: no requests have overlapped, no fault has happened
    deleted     \* history: the user has been deleted

vars == <<row, ledger, lock, cache, req, calm, deleted>>

Init ==
    /\ row \in [balance: {Opening}, password: Passwords]
    /\ ledger = 0
    /\ lock = None
    /\ cache = [k \in Keys |-> None]
    /\ req = [r \in Requests |-> [step |-> "idle"]]
    /\ calm = TRUE
    /\ deleted = FALSE

Running(r) == req[r].step \notin {"idle", "done"}
Joined(r) == calm /\ \A o \in Requests \ {r} : ~Running(o)

-----------------------------------------------------------------------------
(* What the operations do to their copy and in which order                 *)

\* Variant: nobody compares the balance with the amount.
AlwaysAffordable(balance, amount) == TRUE

Affordable(balance, amount) == amount <= balance

\* Variant: a recharge adds nothing to the ledger.
PostedByBidsOnly(kind, amount) ==
    IF kind = "deduct" THEN 0 - amount ELSE IF kind = "add" THEN amount ELSE 0

\* The transaction of a request in the ledger.
Posted(kind, amount) ==
    IF kind = "deduct" THEN 0 - amount ELSE IF kind \in {"add", "charge"} THEN amount ELSE 0

\* The copy a request saves.
Edited(kind, user, amount, hash) ==
    CASE kind = "deduct"            -> [user EXCEPT !.balance = @ - amount]
      [] kind \in {"add", "charge"} -> [user EXCEPT !.balance = @ + amount]
      [] kind \in {"changePassword", "resetPassword"} -> [user EXCEPT !.password = hash]
      [] OTHER                      -> user

\* Columns a request is sure to write: all but these two are one here.
Own(kind) ==
    CASE kind \in {"changePassword", "resetPassword"}      -> {"password"}
      [] kind \in {"update", "editRole", "forgotPassword"} -> {"profile"}
      [] kind = "delete"                                   -> {"row"}
      [] OTHER                                             -> {}

\* login does not await its save, roleLogin stores in Redis after its own, and
\* two operations never do; remove reads nothing that matters.
First(kind) ==
    CASE kind = "login"  -> "notify"
      [] kind = "delete" -> "update"
      [] OTHER           -> "select"

\* Variant: a change of the balance leaves Redis alone.
CommitsUnnoticed(kind) == IF kind = "delete" THEN "notify" ELSE "commit"

AfterUpdate(kind) ==
    IF kind \in {"login", "roleLogin", "changePassword", "forgotPassword"}
    THEN "commit" ELSE "notify"

AfterNotify(kind) ==
    IF kind = "login" THEN "select" ELSE IF kind = "roleLogin" THEN "done" ELSE "commit"

AfterCommit(kind) == IF kind = "roleLogin" THEN "notify" ELSE "done"

Goes(r, step) ==
    req' = [req EXCEPT ![r] = IF step = "done" THEN [step |-> "done"]
                              ELSE [@ EXCEPT !.step = step]]

\* Variant: a transaction that is over keeps the row locked.
KeptBy(r) == lock

\* The lock when the transaction of a request is over.
FreedBy(r) == IF lock = r THEN None ELSE lock

-----------------------------------------------------------------------------
(* Reading the user                                                        *)

\* Who is not found, or cannot pay, is refused.
StartStored(r) ==
    /\ req[r].step = "idle"
    /\ \E kind \in StoredKinds, amount \in Amounts, hash \in Passwords :
          LET refused == \/ row = None
                         \/ kind = "deduct" /\ ~Affordable(row.balance, amount)
          IN  req' = [req EXCEPT ![r] =
                         IF refused THEN [step |-> "done"]
                         ELSE [step |-> First(kind), kind |-> kind, amount |-> amount,
                               copy |-> Edited(kind, row, amount, hash), cols |-> Own(kind)]]
    /\ calm' = Joined(r)
    /\ UNCHANGED <<row, ledger, lock, cache, deleted>>

\* update finds the user by id, the others by email.
StartCached(r) ==
    /\ req[r].step = "idle"
    /\ \E kind \in CachedKinds :
          LET copy == cache[IF kind = "update" THEN "id" ELSE "email"]
              hit  == copy # None
          IN  req' = [req EXCEPT ![r] =
                         [step |-> IF hit THEN First(kind) ELSE "fetch", kind |-> kind,
                          amount |-> 0, copy |-> copy, cols |-> Own(kind)]]
    /\ calm' = Joined(r)
    /\ UNCHANGED <<row, ledger, lock, cache, deleted>>

Fetch(r) ==
    /\ req[r].step = "fetch"
    /\ req' = [req EXCEPT ![r] = IF row = None THEN [step |-> "done"]
                                 ELSE [@ EXCEPT !.copy = row, !.step = "fill"]]
    /\ UNCHANGED <<row, ledger, lock, cache, calm, deleted>>

Fill(r) ==
    /\ req[r].step = "fill"
    /\ cache' = [k \in Keys |-> req[r].copy]
    /\ Goes(r, First(req[r].kind))
    /\ UNCHANGED <<row, ledger, lock, calm, deleted>>

-----------------------------------------------------------------------------
(* Saving her                                                              *)

Differing(u, v) == {c \in {"balance", "password"} : u[c] # v[c]}

\* Postgres answers with a string, and a copy may hold the same balance as a
\* number: save may take the two for different.
Retyped(kind) ==
    IF kind \in CachedKinds \union {"deduct", "add", "charge"} THEN {"balance"} ELSE {}

\* A row that is gone is inserted again.
Select(r) ==
    /\ req[r].step = "select"
    /\ \E more \in SUBSET Retyped(req[r].kind) :
          req' = [req EXCEPT
                    ![r].cols = IF row = None THEN {"insert"}
                                ELSE @ \union more \union Differing(req[r].copy, row),
                    ![r].step = "update"]
    /\ UNCHANGED <<row, ledger, lock, cache, calm, deleted>>

\* The transactions table refers to the user: who has posted to it keeps her
\* row from being deleted.
Posting(r) ==
    /\ req[r].step \in {"notify", "commit"}
    /\ req[r].kind \in MoneyKinds

\* The row is there, and r waits for a transaction that has written it, or for
\* one of the two that delete the row and post to the ledger.
Blocked(r) ==
    \/ lock # None /\ req[r].cols # {}
    \/ lock # None /\ req[r].kind \in MoneyKinds /\ req[lock].kind = "delete"
    \/ req[r].kind = "delete" /\ \E o \in Requests : Posting(o)

Update(r) ==
    /\ req[r].step = "update"
    /\ "insert" \notin req[r].cols
    /\ row # None
    /\ ~Blocked(r)
    /\ lock' = IF req[r].cols = {} THEN lock ELSE r
    /\ Goes(r, AfterUpdate(req[r].kind))
    /\ UNCHANGED <<row, ledger, cache, calm, deleted>>

\* An UPDATE or DELETE of no row is no error; a transaction of no user is.
UpdateNothing(r) ==
    /\ req[r].step = "update"
    /\ "insert" \notin req[r].cols
    /\ row = None
    /\ req' = [req EXCEPT ![r] =
                  IF req[r].kind \in MoneyKinds THEN [step |-> "done"]
                  ELSE [@ EXCEPT !.cols = {}, !.step = AfterUpdate(req[r].kind)]]
    /\ UNCHANGED <<row, ledger, lock, cache, calm, deleted>>

\* The key is unique: waits for whoever has inserted it, and fails if it is
\* there by then.
Insert(r) ==
    /\ req[r].step = "update"
    /\ "insert" \in req[r].cols
    /\ lock = None
    /\ IF row = None THEN lock' = r /\ Goes(r, AfterUpdate(req[r].kind))
                     ELSE lock' = None /\ Goes(r, "done")
    /\ UNCHANGED <<row, ledger, cache, calm, deleted>>

\* Variant: the copy under the email outlives the user.
KeepsEmail(kind, copy) ==
    CASE kind = "delete"        -> [cache EXCEPT !["id"] = None]
      [] kind = "resetPassword" -> [cache EXCEPT !["id"] = copy]
      [] OTHER                  -> [k \in Keys |-> copy]

\* Redis after the commands of an operation.  remove has cleared the id of the
\* user, so notifyDelete deletes no key by it; resetPassword leaves out a key.
Told(kind, copy) ==
    CASE kind = "delete"        -> [cache EXCEPT !["email"] = None]
      [] kind = "resetPassword" -> [cache EXCEPT !["id"] = copy]
      [] OTHER                  -> [k \in Keys |-> copy]

\* Before the commit, except for roleLogin.
Notify(r) ==
    /\ req[r].step = "notify"
    /\ cache' = Told(req[r].kind, req[r].copy)
    /\ Goes(r, AfterNotify(req[r].kind))
    /\ UNCHANGED <<row, ledger, lock, calm, deleted>>

Deletes(r) == "row" \in req[r].cols

Saved(r) ==
    LET set(c) == IF c \in req[r].cols THEN req[r].copy[c] ELSE row[c]
    IN  IF req[r].cols = {} THEN row
        ELSE IF Deletes(r) THEN None
        ELSE IF "insert" \in req[r].cols THEN req[r].copy
        ELSE [balance |-> set("balance"), password |-> set("password")]

\* The transactions of a user go with her.
Commit(r) ==
    /\ req[r].step = "commit"
    /\ row' = Saved(r)
    /\ ledger' = IF Deletes(r) THEN 0 ELSE ledger + Posted(req[r].kind, req[r].amount)
    /\ deleted' = (deleted \/ Deletes(r))
    /\ lock' = FreedBy(r)
    /\ Goes(r, AfterCommit(req[r].kind))
    /\ UNCHANGED <<cache, calm>>

-----------------------------------------------------------------------------
(* What else happens                                                       *)

\* An entry expires.
Evict(k) ==
    /\ cache[k] # None
    /\ cache' = [cache EXCEPT ![k] = None]
    /\ UNCHANGED <<row, ledger, lock, req, calm, deleted>>

\* Redis keeps what the transaction has stored there.
Rollback(r) ==
    /\ "rollback" \in Faults
    /\ Running(r)
    /\ req' = [req EXCEPT ![r] = [step |-> "done"]]
    /\ lock' = FreedBy(r)
    /\ calm' = FALSE
    /\ UNCHANGED <<row, ledger, cache, deleted>>

NotifyFails(r) ==
    /\ "redis" \in Faults
    /\ req[r].step = "notify"
    /\ Goes(r, AfterNotify(req[r].kind))
    /\ calm' = FALSE
    /\ UNCHANGED <<row, ledger, lock, cache, deleted>>

Restart ==
    /\ "restart" \in Faults
    /\ req' = [r \in Requests |-> IF Running(r) THEN [step |-> "done"] ELSE req[r]]
    /\ lock' = None
    /\ calm' = FALSE
    /\ UNCHANGED <<row, ledger, cache, deleted>>

-----------------------------------------------------------------------------

Next ==
    \/ \E r \in Requests :
          \/ StartStored(r) \/ StartCached(r) \/ Fetch(r) \/ Fill(r)
          \/ Select(r) \/ Update(r) \/ UpdateNothing(r) \/ Insert(r)
          \/ Notify(r) \/ Commit(r)
          \/ Rollback(r) \/ NotifyFails(r)
    \/ \E k \in Keys : Evict(k)
    \/ Restart

Spec == Init /\ [][Next]_vars

-----------------------------------------------------------------------------
(* Properties                                                              *)

Columns == {"balance", "password", "profile", "row", "insert"}

Fields(steps, copies) ==
    [step: steps, kind: Kinds, amount: Amounts \union {0}, copy: copies,
     cols: SUBSET Columns]

RequestState ==
    [step: {"idle", "done"}] \union Fields({"fetch"}, {None})
        \union Fields({"fill", "notify", "select", "update", "commit"}, User)

\* Every variable holds a value of its type, and the row is locked by a request
\* that has updated and not yet committed it.
TypeOK ==
    /\ row \in User \union {None}
    /\ ledger \in Int
    /\ lock \in Requests \union {None}
    /\ cache \in [Keys -> User \union {None}]
    /\ req \in [Requests -> RequestState]
    /\ calm \in BOOLEAN
    /\ deleted \in BOOLEAN
    /\ lock # None => req[lock].step \in {"notify", "commit"}

Resting == calm /\ \A r \in Requests : ~Running(r)

\* The balance never drops below zero, in whatever order requests read and
\* write, with whatever stale copy they begin or bring a deleted user back.
NonNegative == row # None => row.balance >= 0

\* The balance is what the ledger says, as long as no two requests of the
\* user overlap, nothing fails and she is not deleted: stale passwords and
\* expiring entries in Redis do not touch it.
LedgerBalances == calm /\ ~deleted => row.balance = Opening + ledger

\* Between requests, on the same condition, Redis has the balance of the row.
CacheHoldsBalance ==
    Resting /\ ~deleted =>
        \A k \in Keys : cache[k] # None => cache[k].balance = row.balance

\* A deleted user cannot log in: between requests Redis has nothing under her
\* email, unless one of them has overlapped the deletion or a fault has left it.
\* She may still come back: an update finds the copy that is left under her id.
DeletedCannotLogIn == Resting /\ row = None => cache["email"] = None

\* "To prevent the "Lost Update" problem in financial transactions, the User
\* Service implements optimistic locking" (README.md:2404): no update of the
\* balance is lost when requests overlap.
NoLostUpdate == row # None => row.balance = Opening + ledger

\* "Every write operation (update profile, update balance) triggers an
\* automatic cache eviction or update to ensure data consistency"
\* (user-service README.md:159): between requests Redis has what the row has.
CacheFollowsRow ==
    Resting /\ ~deleted => \A k \in Keys : cache[k] \in {None, row}

=============================================================================
