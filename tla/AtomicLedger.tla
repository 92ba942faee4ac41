---------------------------- MODULE AtomicLedger ----------------------------
(***************************************************************************)
(* What the ledger promises its clients: every request is one atomic       *)
(* operation on the tables, judged on the rows in force at that moment and *)
(* posted at most once per idempotency key.  No handlers, no locks, no     *)
(* copies: a request that is refused or lost is no step at all.            *)
(***************************************************************************)
EXTENDS LedgerTypes

VARIABLES row, txs, batches

tables == <<row, txs, batches>>

Init ==
    /\ row \in [Customers ->
                {[balance |-> 0, limit |-> l, active |-> TRUE, promise |-> FALSE] :
                    l \in Limits}]
    /\ txs = [i \in TxIds |-> NoTx]
    /\ batches = [k \in BatchKeys |-> NoTx]

Balance(c) == row[c].balance

\* One new transaction of customer c under a fresh key, and its balance.
Post(r, type, c, amount, balance) ==
    /\ txs[<<r.key, 0>>] = NoTx
    /\ txs' = [txs EXCEPT ![<<r.key, 0>>] = New(type, c, amount, NoTx)]
    /\ row' = [row EXCEPT ![c].balance = balance]
    /\ UNCHANGED batches

Debt(r) ==
    /\ r.op = "debt"
    /\ row[r.cust].active
    /\ Balance(r.cust) + r.amount <= row[r.cust].limit
    /\ Post(r, "DEBT", r.cust, r.amount, Balance(r.cust) + r.amount)

Payment(r) ==
    /\ r.op = "payment"
    /\ Balance(r.cust) > 0
    /\ LET paid == Lesser(r.amount, Balance(r.cust))
       IN Post(r, "PAYMENT", r.cust, paid, Balance(r.cust) - paid)

MixedPayment(r) ==
    /\ r.op = "mixed"
    /\ Balance(r.cust) > 0
    /\ txs[<<r.key, 0>>] = NoTx
    /\ LET cash == CashPart(r.cash, r.transfer, Balance(r.cust))
           transfer == TransferPart(r.cash, r.transfer, Balance(r.cust)) IN
        /\ txs' = [txs EXCEPT ![<<r.key, 0>>] = New("PAYMENT", r.cust, cash, NoTx),
                              ![<<r.key, 1>>] = New("PAYMENT", r.cust, transfer, NoTx)]
        /\ row' = [row EXCEPT ![r.cust].balance =
                        Balance(r.cust) - Lesser(r.cash + r.transfer, Balance(r.cust))]
    /\ UNCHANGED batches

Forgiveness(r) ==
    /\ r.op = "forgive"
    /\ Balance(r.cust) > 0
    /\ Post(r, "FORGIVENESS", r.cust, Balance(r.cust), 0)

\* A batch charges every debtor its percentage of the debt, all of them at once.
Inflation(r) ==
    LET charge(c) == Surcharge(Balance(c), r.pct)
        charged == {c \in Customers : Balance(c) > 0 /\ charge(c) > 0}
    IN
    /\ r.op = "inflation"
    /\ batches[r.key] = NoTx
    /\ txs' = [i \in TxIds |->
                IF i[1] = r.key /\ i[2] \in charged
                THEN New("INFLATION", i[2], charge(i[2]), NoTx)
                ELSE txs[i]]
    /\ row' = [c \in Customers |->
                IF c \in charged
                THEN [row[c] EXCEPT !.balance = Balance(c) + charge(c)]
                ELSE row[c]]
    /\ batches' = [batches EXCEPT ![r.key] =
                    [affected |-> Cardinality({c \in Customers : Balance(c) > 0}),
                     total |-> SumFunction([c \in charged |-> charge(c)])]]

\* A posted row is annulled by a new one for its customer: the debt it charged
\* is forgotten, but no more than is owed, and any other amount is owed again.
\* The promise that a row is annulled at most once is not kept (ReversedOnce).
Reversal(r) ==
    /\ r.op = "reverse"
    /\ txs[<<r.key, 0>>] = NoTx /\ txs[r.of] # NoTx
    /\ LET annulled == txs[r.of]
           c == annulled.cust IN
        /\ txs' = [txs EXCEPT
                    ![<<r.key, 0>>] = New("REVERSAL", c, annulled.amount, r.of),
                    ![r.of].reversed = TRUE]
        /\ row' = [row EXCEPT ![c].balance =
                        IF annulled.type \in {"DEBT", "INFLATION"}
                        THEN Balance(c) - Lesser(annulled.amount, Balance(c))
                        ELSE Balance(c) + annulled.amount]
    /\ UNCHANGED batches

CreditLimit(r) ==
    /\ r.op = "limit"
    /\ row' = [row EXCEPT ![r.cust].limit = r.limit]
    /\ UNCHANGED <<txs, batches>>

\* The history and the debt of the secondary go to the primary, together.
Merge(r) ==
    /\ r.op = "merge"
    /\ r.primary # r.secondary
    /\ txs' = [i \in TxIds |->
                IF txs[i] # NoTx /\ txs[i].cust = r.secondary
                THEN [txs[i] EXCEPT !.cust = r.primary]
                ELSE txs[i]]
    /\ row' = [row EXCEPT
                ![r.primary].balance = Balance(r.primary) + Balance(r.secondary),
                ![r.primary].limit = Greater(row[r.primary].limit, row[r.secondary].limit),
                ![r.secondary].balance = 0,
                ![r.secondary].active = FALSE]
    /\ UNCHANGED batches

Next == \E r \in Requests :
    \/ Debt(r) \/ Payment(r) \/ MixedPayment(r) \/ Forgiveness(r)
    \/ Reversal(r) \/ Inflation(r) \/ CreditLimit(r) \/ Merge(r)

Spec == Init /\ [][Next]_tables
=============================================================================
