------------------------------- MODULE Ledger -------------------------------
(***************************************************************************)
(* The customers' debts: TransactionsService and the operations of         *)
(* CustomersService on a customer's financial columns, executed by         *)
(* concurrent request handlers of one tenant against PostgreSQL at         *)
(* READ COMMITTED.                                                         *)
(*                                                                         *)
(* A handler is a process p.  Every await of the handler that the database *)
(* can observe is a step: the idempotency lookup, the unlocked read of the *)
(* original of a reversal, each SELECT ... FOR UPDATE, and the COMMIT.     *)
(* What a transaction writes is invisible to the others until it commits   *)
(* and the rows it updates are the rows it has locked, so its inserts and  *)
(* updates happen in its commit step; a unique index that another commit   *)
(* has filled in the meantime turns that step into a rollback.             *)
(***************************************************************************)
EXTENDS LedgerTypes

CONSTANTS
    Procs,          \* request handlers
    NoProc, NoRow, NoReq

ASSUME ProcsAssumption == NoProc \notin Procs

VARIABLES
    row,        \* the committed row of each customer
    txs,        \* the committed row of each transaction
    batches,    \* the committed row of each idempotent batch operation
    lock,       \* which handler holds the FOR UPDATE lock of a customer row
    pc,         \* the statement a handler is about to execute, or its outcome
    req,        \* the request a handler serves
    entity,     \* the customer entities a handler has in memory
    original,   \* the transaction a reversal has read
    diff        \* the columns an unlocked save() is about to UPDATE

db == <<row, txs, batches>>
local == <<req, entity, original, diff>>
vars == <<row, txs, batches, lock, pc, req, entity, original, diff>>
-----------------------------------------------------------------------------
Outcomes == {"ok", "replayed", "rejected", "failed"}
Finished == {"idle"} \cup Outcomes
InFlight == {"readOriginal", "lock", "write", "load", "diff", "update"}

NoEntities == [c \in Customers |-> NoRow]
-----------------------------------------------------------------------------
(* Row locks. *)

Held(p) == {c \in Customers : lock[c] = p}

\* The customer rows the transaction of p locks before it writes.
LockSet(p) ==
    CASE req[p].op = "inflation" -> Customers
      [] req[p].op = "merge" -> {req[p].primary, req[p].secondary}
      [] req[p].op = "reverse" -> {original[p].cust}
      [] OTHER -> {req[p].cust}

\* Mutant: a merge locks the primary first instead of the lower id.
NextLocksPrimaryFirst(p) ==
    {c \in LockSet(p) \ Held(p) :
        req[p].op = "merge" => c = req[p].primary \/ lock[req[p].primary] = p}

\* The rows p may lock next: a merge goes by ascending id, the batch in the
\* order of a scan without ORDER BY, that is in any order.
NextLocks(p) ==
    {c \in LockSet(p) \ Held(p) :
        req[p].op = "merge" => \A d \in LockSet(p) \ Held(p) : c <= d}

\* Mutant: a plain SELECT does not wait.
LockableAlways(c) == TRUE

\* SELECT ... FOR UPDATE and UPDATE wait while another transaction holds the row.
Lockable(c) == lock[c] = NoProc

\* The transaction of p ends, its locks and in-memory entities with it.
Finish(p, outcome) ==
    /\ pc' = [pc EXCEPT ![p] = outcome]
    /\ lock' = [c \in Customers |-> IF lock[c] = p THEN NoProc ELSE lock[c]]
    /\ entity' = [entity EXCEPT ![p] = NoEntities]
    /\ original' = [original EXCEPT ![p] = NoTx]
    /\ diff' = [diff EXCEPT ![p] = {}]
    /\ UNCHANGED req

\* COMMIT took effect; the answer may still be lost with the connection.
FinishCommitted(p) == \E outcome \in {"ok", "failed"} : Finish(p, outcome)
-----------------------------------------------------------------------------
(* The beginning of a request: findByIdempotencyKey and what follows it. *)

\* Mutants: the lookup, and the unique index, of one of the two tables is missing.
KeyUsedInBatches(r) == r.op = "inflation" /\ batches[r.key] # NoTx
KeyUsedInTransactions(r) == r.op \in KeyedOps /\ txs[<<r.key, 0>>] # NoTx

KeyUsed(r) ==
    \/ r.op \in KeyedOps /\ txs[<<r.key, 0>>] # NoTx
    \/ r.op = "inflation" /\ batches[r.key] # NoTx

FirstStatement(r) ==
    CASE r.op = "reverse" -> "readOriginal"
      [] r.op \in UnlockedOps -> "load"
      [] OTHER -> "lock"

\* A new request, or a client's retry of one, whose key is not in the table.
Begin(p, r) ==
    /\ pc[p] \in Finished
    /\ r.op = "merge" => r.primary # r.secondary
    /\ ~KeyUsed(r)
    /\ req' = [req EXCEPT ![p] = r]
    /\ pc' = [pc EXCEPT ![p] = FirstStatement(r)]
    /\ UNCHANGED <<row, txs, batches, lock, entity, original, diff>>

\* The key is in the table: the handler answers with the stored row.
Replay(p, r) ==
    /\ pc[p] \in Finished
    /\ KeyUsed(r)
    /\ req' = [req EXCEPT ![p] = r]
    /\ pc' = [pc EXCEPT ![p] = "replayed"]
    /\ UNCHANGED <<row, txs, batches, lock, entity, original, diff>>

\* reverseTransaction reads the original and tests is_reversed before it
\* locks the customer; it never reads the original again.
ReadOriginal(p) ==
    /\ pc[p] = "readOriginal"
    /\ LET o == txs[req[p].of] IN
        IF o # NoTx /\ ~o.reversed
        THEN /\ original' = [original EXCEPT ![p] = o]
             /\ pc' = [pc EXCEPT ![p] = "lock"]
             /\ UNCHANGED <<lock, req, entity, diff>>
        ELSE Finish(p, "rejected")
    /\ UNCHANGED db

\* SELECT ... FOR UPDATE returns the latest committed version of a row that
\* nobody else has locked.
Lock(p, c) ==
    /\ pc[p] = "lock"
    /\ c \in NextLocks(p)
    /\ Lockable(c)
    /\ lock' = [lock EXCEPT ![c] = p]
    /\ entity' = [entity EXCEPT ![p][c] = row[c]]
    /\ pc' = [pc EXCEPT ![p] = IF LockSet(p) \ Held(p) = {c} THEN "write" ELSE "lock"]
    /\ UNCHANGED <<row, txs, batches, req, original, diff>>

\* Mutant: no lock_timeout is set and no deadlock is detected.
LockTimeoutNever(p) == FALSE

\* lock_timeout, or the deadlock detector, ends a wait for a lock.
LockTimeout(p) ==
    /\ pc[p] = "lock"
    /\ \E c \in NextLocks(p) : lock[c] \notin {NoProc, p}
    /\ Finish(p, "failed")
    /\ UNCHANGED db

\* The handler, its connection or the database session dies: a rollback.
Crash(p) ==
    /\ pc[p] \in InFlight
    /\ Finish(p, "failed")
    /\ UNCHANGED db
-----------------------------------------------------------------------------
(* The write steps.  e(p) is the locked customer entity of the request. *)

e(p) == entity[p][req[p].cust]
AtWrite(p, op) == pc[p] = "write" /\ req[p].op = op

\* Mutants: the credit limit, or is_active, is not tested.
AdmissibleAnyLimit(p) ==
    CASE req[p].op = "debt" -> e(p).active
      [] req[p].op \in {"payment", "mixed", "forgive"} -> e(p).balance > 0
      [] OTHER -> TRUE

AdmissibleInactive(p) ==
    CASE req[p].op = "debt" -> e(p).balance + req[p].amount <= e(p).limit
      [] req[p].op \in {"payment", "mixed", "forgive"} -> e(p).balance > 0
      [] OTHER -> TRUE

\* The business rules a handler tests on the locked entity before it writes.
Admissible(p) ==
    CASE req[p].op = "debt" -> e(p).active /\ e(p).balance + req[p].amount <= e(p).limit
      [] req[p].op \in {"payment", "mixed", "forgive"} -> e(p).balance > 0
      [] OTHER -> TRUE

Reject(p) ==
    /\ pc[p] = "write"
    /\ ~Admissible(p)
    /\ Finish(p, "rejected")
    /\ UNCHANGED db

\* The unique index on the idempotency key refuses the insert.
DuplicateKey(p) ==
    /\ pc[p] = "write"
    /\ Admissible(p)
    /\ KeyUsed(req[p])
    /\ Finish(p, "failed")
    /\ UNCHANGED db

\* save(customer) of an entity the transaction has locked.
SaveCustomer(p, c, saved) == row' = [row EXCEPT ![c] = saved]

PostDebt(p) ==
    /\ AtWrite(p, "debt") /\ Admissible(p) /\ ~KeyUsed(req[p])
    /\ LET r == req[p] IN
        /\ txs' = [txs EXCEPT ![<<r.key, 0>>] = New("DEBT", r.cust, r.amount, NoTx)]
        /\ SaveCustomer(p, r.cust, [e(p) EXCEPT !.balance = @ + r.amount])
    /\ FinishCommitted(p)
    /\ UNCHANGED batches

PostPayment(p) ==
    /\ AtWrite(p, "payment") /\ Admissible(p) /\ ~KeyUsed(req[p])
    /\ LET r == req[p]
           effective == Lesser(r.amount, e(p).balance) IN
        /\ txs' = [txs EXCEPT ![<<r.key, 0>>] = New("PAYMENT", r.cust, effective, NoTx)]
        /\ SaveCustomer(p, r.cust, [e(p) EXCEPT !.balance = @ - effective])
    /\ FinishCommitted(p)
    /\ UNCHANGED batches

PostMixedPayment(p) ==
    /\ AtWrite(p, "mixed") /\ Admissible(p) /\ ~KeyUsed(req[p])
    /\ LET r == req[p]
           cash == CashPart(r.cash, r.transfer, e(p).balance)
           transfer == TransferPart(r.cash, r.transfer, e(p).balance) IN
        /\ txs' = [txs EXCEPT ![<<r.key, 0>>] = New("PAYMENT", r.cust, cash, NoTx),
                              ![<<r.key, 1>>] = New("PAYMENT", r.cust, transfer, NoTx)]
        /\ SaveCustomer(p, r.cust,
                        [e(p) EXCEPT !.balance = Clamp(@ - (cash + transfer))])
    /\ FinishCommitted(p)
    /\ UNCHANGED batches

PostForgiveness(p) ==
    /\ AtWrite(p, "forgive") /\ Admissible(p) /\ ~KeyUsed(req[p])
    /\ LET r == req[p] IN
        /\ txs' = [txs EXCEPT ![<<r.key, 0>>] =
                        New("FORGIVENESS", r.cust, e(p).balance, NoTx)]
        /\ SaveCustomer(p, r.cust, [e(p) EXCEPT !.balance = 0])
    /\ FinishCommitted(p)
    /\ UNCHANGED batches

\* Mutant: a reversal always subtracts.
RevertedBySubtraction(o, balance) == Clamp(balance - o.amount)

\* The balance a reversal of `o` leaves, from the balance it finds.
Reverted(o, balance) ==
    IF o.type \in {"DEBT", "INFLATION"}
    THEN Clamp(balance - o.amount)
    ELSE Clamp(balance + o.amount)

\* Mutant: the original is not marked.
MarkedNot(o) == o

Marked(o) == [o EXCEPT !.reversed = TRUE]

\* The reversal row, the balance, and save(original): the whole entity read
\* before the lock is written back, with is_reversed set.
PostReversal(p) ==
    /\ AtWrite(p, "reverse") /\ ~KeyUsed(req[p])
    /\ LET r == req[p]
           o == original[p]
           c == entity[p][o.cust]
           balance == Reverted(o, c.balance) IN
        /\ balance <= MaxCents
        /\ txs' = [txs EXCEPT
                    ![<<r.key, 0>>] = New("REVERSAL", o.cust, o.amount, r.of),
                    ![r.of] = Marked(o)]
        /\ SaveCustomer(p, o.cust, [c EXCEPT !.balance = balance])
    /\ FinishCommitted(p)
    /\ UNCHANGED batches

\* The customers an inflation batch posts a surcharge for.
Debtors(p) == {c \in Customers : entity[p][c].balance > 0}
Surcharged(p) == {c \in Debtors(p) : Surcharge(entity[p][c].balance, req[p].pct) > 0}

\* The surcharges a batch posts, by customer.
TotalSurcharge(p) ==
    SumFunction([c \in Surcharged(p) |-> Surcharge(entity[p][c].balance, req[p].pct)])

\* All rows of the batch and its seal, in one commit.
PostInflation(p) ==
    /\ AtWrite(p, "inflation") /\ ~KeyUsed(req[p])
    /\ LET r == req[p]
           up(c) == Surcharge(entity[p][c].balance, r.pct) IN
        /\ \A c \in Surcharged(p) : entity[p][c].balance + up(c) <= MaxCents
        /\ txs' = [i \in TxIds |->
                    IF i[1] = r.key /\ i[2] \in Surcharged(p)
                    THEN New("INFLATION", i[2], up(i[2]), NoTx)
                    ELSE txs[i]]
        /\ row' = [c \in Customers |->
                    IF c \in Surcharged(p)
                    THEN [entity[p][c] EXCEPT !.balance = @ + up(c)]
                    ELSE row[c]]
        /\ batches' = [batches EXCEPT ![r.key] =
                        [affected |-> Cardinality(Debtors(p)),
                         total |-> TotalSurcharge(p)]]
    /\ FinishCommitted(p)

SetCreditLimit(p) ==
    /\ AtWrite(p, "limit")
    /\ SaveCustomer(p, req[p].cust, [e(p) EXCEPT !.limit = req[p].limit])
    /\ FinishCommitted(p)
    /\ UNCHANGED <<txs, batches>>

\* UPDATE transactions SET customer_id, then both customers are saved.
MergeCustomers(p) ==
    /\ AtWrite(p, "merge")
    /\ LET a == req[p].primary
           b == req[p].secondary
           ea == entity[p][a]
           eb == entity[p][b] IN
        /\ ea.balance + eb.balance <= MaxCents
        /\ txs' = [i \in TxIds |->
                    IF txs[i] # NoTx /\ txs[i].cust = b
                    THEN [txs[i] EXCEPT !.cust = a]
                    ELSE txs[i]]
        /\ row' = [row EXCEPT
                    ![a] = [ea EXCEPT !.balance = @ + eb.balance,
                                      !.limit = Greater(@, eb.limit)],
                    ![b] = [eb EXCEPT !.active = FALSE, !.balance = 0]]
    /\ FinishCommitted(p)
    /\ UNCHANGED batches

\* A sum does not fit the int4 column: PostgreSQL refuses the UPDATE.
Overflow(p) ==
    /\ \/ /\ AtWrite(p, "reverse") /\ ~KeyUsed(req[p])
          /\ Reverted(original[p], entity[p][original[p].cust].balance) > MaxCents
       \/ /\ AtWrite(p, "inflation") /\ ~KeyUsed(req[p])
          /\ \E c \in Surcharged(p) :
                entity[p][c].balance + Surcharge(entity[p][c].balance, req[p].pct) > MaxCents
       \/ /\ AtWrite(p, "merge")
          /\ entity[p][req[p].primary].balance
                + entity[p][req[p].secondary].balance > MaxCents
    /\ Finish(p, "failed")
    /\ UNCHANGED db
-----------------------------------------------------------------------------
(* toggleBlock and updatePromise: findOne and save() without a lock.  The  *)
(* entity is read and edited in memory; save() reads the row again to find *)
(* the columns that differ; its UPDATE of those columns waits for the lock.*)

Edited(r, old) ==
    IF r.op = "toggle" THEN [old EXCEPT !.active = ~@] ELSE [old EXCEPT !.promise = r.promise]

Load(p) ==
    /\ pc[p] = "load"
    /\ entity' = [entity EXCEPT ![p][req[p].cust] = Edited(req[p], row[req[p].cust])]
    /\ pc' = [pc EXCEPT ![p] = "diff"]
    /\ UNCHANGED <<row, txs, batches, lock, req, original, diff>>

SaveSelect(p) ==
    /\ pc[p] = "diff"
    /\ diff' = [diff EXCEPT ![p] = {f \in Columns : e(p)[f] # row[req[p].cust][f]}]
    /\ pc' = [pc EXCEPT ![p] = "update"]
    /\ UNCHANGED <<row, txs, batches, lock, req, entity, original>>

SaveUpdate(p) ==
    /\ pc[p] = "update"
    /\ LET c == req[p].cust
           old == row[c] IN
        /\ diff[p] # {} => Lockable(c)
        /\ row' = [row EXCEPT ![c] =
            [balance |-> IF "balance" \in diff[p] THEN e(p).balance ELSE old.balance,
             limit |-> IF "limit" \in diff[p] THEN e(p).limit ELSE old.limit,
             active |-> IF "active" \in diff[p] THEN e(p).active ELSE old.active,
             promise |-> IF "promise" \in diff[p] THEN e(p).promise ELSE old.promise]]
    /\ FinishCommitted(p)
    /\ UNCHANGED <<txs, batches>>
-----------------------------------------------------------------------------
Init ==
    /\ row \in [Customers ->
                {[balance |-> 0, limit |-> l, active |-> TRUE, promise |-> FALSE] :
                    l \in Limits}]
    /\ txs = [i \in TxIds |-> NoTx]
    /\ batches = [k \in BatchKeys |-> NoTx]
    /\ lock = [c \in Customers |-> NoProc]
    /\ pc = [p \in Procs |-> "idle"]
    /\ req = [p \in Procs |-> NoReq]
    /\ entity = [p \in Procs |-> NoEntities]
    /\ original = [p \in Procs |-> NoTx]
    /\ diff = [p \in Procs |-> {}]

\* The statements of a request that has begun.
Write(p) ==
    \/ Reject(p) \/ DuplicateKey(p) \/ Overflow(p)
    \/ PostDebt(p) \/ PostPayment(p) \/ PostMixedPayment(p) \/ PostForgiveness(p)
    \/ PostReversal(p) \/ PostInflation(p) \/ SetCreditLimit(p) \/ MergeCustomers(p)

Proceed(p) ==
    \/ ReadOriginal(p)
    \/ \E c \in Customers : Lock(p, c)
    \/ LockTimeout(p)
    \/ Write(p)
    \/ Load(p) \/ SaveSelect(p) \/ SaveUpdate(p)

Next == \E p \in Procs :
    \/ \E r \in Requests : Begin(p, r) \/ Replay(p, r)
    \/ Proceed(p)
    \/ Crash(p)

Spec == Init /\ [][Next]_vars

\* A handler that is not killed executes its next statement, and a wait for a
\* lock ends with the lock or with lock_timeout.  The UPDATE of an unlocked
\* save() has no timeout: it gets the row because PostgreSQL queues waiters.
FairSpec == Spec /\ \A p \in Procs : WF_vars(Proceed(p)) /\ SF_vars(SaveUpdate(p))
-----------------------------------------------------------------------------
(* Properties. *)

TypeOK ==
    /\ row \in [Customers -> Row]
    /\ txs \in [TxIds -> Tx \cup {NoTx}]
    /\ batches \in [BatchKeys -> Seal \cup {NoTx}]
    /\ lock \in [Customers -> Procs \cup {NoProc}]
    /\ pc \in [Procs -> Finished \cup InFlight]
    /\ req \in [Procs -> Requests \cup {NoReq}]
    /\ entity \in [Procs -> [Customers -> Row \cup {NoRow}]]
    /\ original \in [Procs -> Tx \cup {NoTx}]
    /\ diff \in [Procs -> SUBSET Columns]

\* What a handler read with FOR UPDATE is what the table holds for as long as
\* the handler holds the lock: no write that passes the lock by, from a locked
\* transaction or from an unlocked save(), invalidates its snapshot.
LockedEntityIsCurrent ==
    \A p \in Procs, c \in Customers : lock[c] = p => entity[p][c] = row[c]

Posted(i) == txs[i] # NoTx
RowsOf(c) == {i \in TxIds : Posted(i) /\ txs[i].cust = c}
Charges == {"DEBT", "INFLATION"}

\* What the row i did to its customer's balance, as the code posts it.
Effect(i) ==
    LET t == txs[i] IN
    IF \/ t.type \in Charges
       \/ t.type = "REVERSAL" /\ txs[t.of].type \notin Charges
    THEN t.amount
    ELSE 0 - t.amount

LedgerSum(c) == SumFunction([i \in RowsOf(c) |-> Effect(i)])

\* The stored balance of a customer is the sum of his transactions, whatever
\* retries, duplicates, merges and batches ran concurrently (no lost update,
\* no double posting, no debt lost or doubled by a merge).  Reversals are
\* excepted: they clamp (BalanceCoversLedger).
BalanceIsLedgerSum == \A c \in Customers : row[c].balance = LedgerSum(c)

\* With reversals a balance is never below the sum of the transactions.
BalanceCoversLedger == \A c \in Customers : row[c].balance >= LedgerSum(c)

\* Every surcharge row belongs to a sealed batch and the seal is the sum of
\* its rows: a batch is posted completely and once, or not at all.
BatchIsAllOrNothing ==
    \A k \in BatchKeys :
        LET rows == {c \in Customers : Posted(<<k, c>>)} IN
        IF batches[k] = NoTx
        THEN rows = {}
        ELSE /\ Cardinality(rows) <= batches[k].affected
             /\ batches[k].total = SumFunction([c \in rows |-> txs[<<k, c>>].amount])

\* A transaction is marked reversed exactly when a reversal of it exists, and
\* that reversal carries its amount and its customer.
ReversalsPaired ==
    /\ \A i \in TxIds : Posted(i) =>
        (txs[i].reversed <=> \E j \in TxIds : Posted(j) /\ txs[j].of = i)
    /\ \A j \in TxIds : Posted(j) /\ txs[j].type = "REVERSAL" =>
        /\ Posted(txs[j].of)
        /\ txs[j].amount = txs[txs[j].of].amount
        /\ txs[j].cust = txs[txs[j].of].cust

\* No set of handlers other than inflation batches is stuck with each of them
\* waiting for rows that only the others hold, so that lock_timeout or the
\* deadlock detector must act.  (A batch locks in scan order: see
\* EveryRequestAnswered.)
NoDeadlock ==
    \A S \in SUBSET {p \in Procs : pc[p] = "lock" /\ req[p].op # "inflation"} :
        S = {} \/ ~ \A p \in S : \A c \in NextLocks(p) : lock[c] \in S

\* A debt is posted only to a customer who is active and within the credit
\* limit that are in force at that moment, not at an earlier read.
DebtWithinTerms ==
    [][\A i \in TxIds :
        ~Posted(i) /\ txs'[i] # NoTx /\ txs'[i].type = "DEBT" =>
            LET c == txs'[i].cust IN
            row[c].active /\ row'[c].balance <= row[c].limit]_vars

\* A posted row is never removed or rewritten: only its customer (a merge) and
\* its reversed flag, once, may change.
RowsAreImmutable ==
    [][\A i \in TxIds : Posted(i) =>
        /\ txs'[i] # NoTx
        /\ txs'[i] = [txs[i] EXCEPT !.cust = txs'[i].cust,
                                    !.reversed = @ \/ txs'[i].reversed]]_vars

\* Every request is answered: nobody waits for a lock for ever.
EveryRequestAnswered == \A p \in Procs : pc[p] \in InFlight ~> pc[p] \in Finished
-----------------------------------------------------------------------------
(* What a message of the code says and the code does not do. *)

\* A transaction is annulled at most once ("Esta transacción ya fue anulada").
ReversedOnce ==
    \A i, j \in TxIds :
        Posted(i) /\ Posted(j) /\ txs[i].type = "REVERSAL" /\ txs[i].of = txs[j].of => i = j

-----------------------------------------------------------------------------
\* Locking makes the handlers atomic: seen through the tables, every statement
\* of every handler is one operation of the serial ledger, or none.  (For the
\* operations that lock what they read.  The unlocked save()s do not, and a
\* reversal reads its original before the lock, which only a merge makes stale.)
Atomic == INSTANCE AtomicLedger WITH row <- row, txs <- txs, batches <- batches
ImplementsAtomic == Atomic!Spec
=============================================================================
