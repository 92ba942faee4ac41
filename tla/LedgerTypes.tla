---------------------------- MODULE LedgerTypes -----------------------------
(***************************************************************************)
(* The constants, rows and requests of the ledger, shared by the abstract  *)
(* specification AtomicLedger and the detailed one Ledger.                 *)
(***************************************************************************)
EXTENDS Money, FiniteSets, Functions

CONSTANTS
    Customers,      \* ids; the lexicographic order of the UUIDs is < on Nat
    Keys,           \* idempotency keys of single operations (DTO field)
    BatchKeys,      \* idempotency keys of inflation batches (another table)
    Amounts,        \* amounts a DTO may carry
    Limits,         \* credit limits a customer may have
    Percentages,    \* percentages of an inflation batch
    MaxCents,       \* largest value of an int4 column
    Ops,            \* the operations clients request in this instance
    NoTx            \* the absence of a transaction or batch row

OpNames == {"debt", "payment", "mixed", "reverse", "forgive", "inflation",
            "limit", "merge", "toggle", "promise"}

ASSUME CustomersAssumption == Customers \subseteq Nat \ {0} /\ IsFiniteSet(Customers)
ASSUME AmountsAssumption ==
    /\ MaxCents \in Nat
    /\ Amounts \subseteq 1..MaxCents
    /\ Limits \subseteq 0..MaxCents
    /\ Percentages \subseteq Nat \ {0}
ASSUME KeysAssumption == Keys \cap BatchKeys = {}
ASSUME OpsAssumption == Ops \subseteq OpNames
-----------------------------------------------------------------------------
(* Rows.  A transaction row is named by the idempotency key of the request *)
(* that inserts it and a part: 0 for the row that carries the key, 1 for   *)
(* the second row of a mixed payment, and the customer for a row of an     *)
(* inflation batch.  Rows other than part 0 carry a fresh random key.      *)

TxIds == (Keys \X {0, 1}) \cup (BatchKeys \X Customers)
TxTypes == {"DEBT", "PAYMENT", "REVERSAL", "INFLATION", "FORGIVENESS"}
Cents == 0..MaxCents

Row == [balance: Cents, limit: Cents, active: BOOLEAN, promise: BOOLEAN]
Columns == {"balance", "limit", "active", "promise"}
Tx == [type: TxTypes, cust: Customers, amount: Cents, reversed: BOOLEAN,
       of: TxIds \cup {NoTx}]
Seal == [affected: Nat, total: Int]

ASSUME NoTxAssumption == NoTx \notin TxIds /\ NoTx \notin Tx /\ NoTx \notin Seal

Requests ==
    {r \in UNION {
        [op: {"debt"}, key: Keys, cust: Customers, amount: Amounts],
        [op: {"payment"}, key: Keys, cust: Customers, amount: Amounts],
        [op: {"mixed"}, key: Keys, cust: Customers, cash: Amounts, transfer: Amounts],
        [op: {"reverse"}, key: Keys, of: TxIds],
        [op: {"forgive"}, key: Keys, cust: Customers],
        [op: {"inflation"}, key: BatchKeys, pct: Percentages],
        [op: {"limit"}, cust: Customers, limit: Limits],
        [op: {"merge"}, primary: Customers, secondary: Customers],
        [op: {"toggle"}, cust: Customers],
        [op: {"promise"}, cust: Customers, promise: BOOLEAN]} :
     r.op \in Ops}

KeyedOps == {"debt", "payment", "mixed", "reverse", "forgive"}
UnlockedOps == {"toggle", "promise"}

New(type, cust, amount, of) ==
    [type |-> type, cust |-> cust, amount |-> amount, reversed |-> FALSE, of |-> of]
=============================================================================
