------------------------ MODULE LedgerPromisesProofs ------------------------
(***************************************************************************)
(* What the ledger promises: rows that stay as they were posted, balances  *)
(* that are the sums of their rows, annulments that pair, batches that are *)
(* whole, ordered locks that cannot deadlock, and the serial ledger that   *)
(* the handlers implement.                                                 *)
(*                                                                         *)
(* First come the facts about each write step, seen through the tables;    *)
(* then the invariants of the posted rows; then one section per promise.   *)
(***************************************************************************)
EXTENDS LedgerProofs

-----------------------------------------------------------------------------
(* The write steps, seen through the tables. *)

LEMMA DebtStep ==
    ASSUME Inv, NEW p \in Procs, PostDebt(p)
    PROVE  LET r == req[p]
               c == r.cust IN
           /\ r \in Requests /\ r.op = "debt"
           /\ r.key \in Keys /\ c \in Customers /\ r.amount \in Cents
           /\ ~Posted(<<r.key, 0>>)
           /\ row[c].active /\ row[c].balance + r.amount <= row[c].limit
           /\ txs' = [txs EXCEPT ![<<r.key, 0>>] = New("DEBT", c, r.amount, NoTx)]
           /\ row' = [row EXCEPT ![c].balance = row[c].balance + r.amount]
           /\ UNCHANGED batches
  <1> DEFINE r == req[p]
  <1>1. pc[p] = "write" /\ r.op = "debt" /\ Admissible(p) /\ ~KeyUsed(r)
    BY DEF PostDebt, AtWrite
  <1>2. r \in Requests /\ r.cust \in Customers /\ e(p) = row[r.cust] /\ row[r.cust] \in Row
    BY <1>1, AtWriteSingle
  <1>3. r.key \in Keys /\ r.amount \in Cents
    BY <1>1, <1>2, RequestFields, AmountType
  <1>4. ~Posted(<<r.key, 0>>)
    BY <1>1 DEF KeyUsed, KeyedOps, Posted
  <1>5. row[r.cust].active /\ row[r.cust].balance + r.amount <= row[r.cust].limit
    BY <1>1, <1>2 DEF Admissible
  <1>6. row' = [row EXCEPT ![r.cust].balance = row[r.cust].balance + r.amount]
    BY <1>2 DEF PostDebt, SaveCustomer
  <1>7. QED
    BY <1>1, <1>2, <1>3, <1>4, <1>5, <1>6 DEF PostDebt

LEMMA PaymentStep ==
    ASSUME Inv, NEW p \in Procs, PostPayment(p)
    PROVE  LET r == req[p]
               c == r.cust
               paid == Lesser(r.amount, row[c].balance) IN
           /\ r \in Requests /\ r.op = "payment"
           /\ r.key \in Keys /\ c \in Customers /\ paid \in Cents
           /\ ~Posted(<<r.key, 0>>)
           /\ row[c].balance > 0
           /\ txs' = [txs EXCEPT ![<<r.key, 0>>] = New("PAYMENT", c, paid, NoTx)]
           /\ row' = [row EXCEPT ![c].balance = row[c].balance - paid]
           /\ UNCHANGED batches
  <1> DEFINE r == req[p]
             paid == Lesser(r.amount, row[r.cust].balance)
  <1>1. pc[p] = "write" /\ r.op = "payment" /\ Admissible(p) /\ ~KeyUsed(r)
    BY DEF PostPayment, AtWrite
  <1>2. r \in Requests /\ r.cust \in Customers /\ e(p) = row[r.cust] /\ row[r.cust] \in Row
    BY <1>1, AtWriteSingle
  <1>3. r.key \in Keys /\ r.amount \in Cents
    BY <1>1, <1>2, RequestFields, AmountType
  <1>4. ~Posted(<<r.key, 0>>)
    BY <1>1 DEF KeyUsed, KeyedOps, Posted
  <1>5. row[r.cust].balance > 0
    BY <1>1, <1>2 DEF Admissible
  <1>6. paid \in Cents
    BY <1>2, <1>3 DEF Lesser, Row
  <1>7. /\ txs' = [txs EXCEPT ![<<r.key, 0>>] = New("PAYMENT", r.cust, paid, NoTx)]
        /\ row' = [row EXCEPT ![r.cust].balance = row[r.cust].balance - paid]
    BY <1>2 DEF PostPayment, SaveCustomer
  <1>8. QED
    BY <1>1, <1>2, <1>3, <1>4, <1>5, <1>6, <1>7 DEF PostPayment

LEMMA MixedPaymentStep ==
    ASSUME Inv, NEW p \in Procs, PostMixedPayment(p)
    PROVE  LET r == req[p]
               c == r.cust
               cash == CashPart(r.cash, r.transfer, row[c].balance)
               transfer == TransferPart(r.cash, r.transfer, row[c].balance) IN
           /\ r \in Requests /\ r.op = "mixed"
           /\ r.key \in Keys /\ c \in Customers
           /\ cash \in Cents /\ transfer \in Cents
           /\ cash + transfer = Lesser(r.cash + r.transfer, row[c].balance)
           /\ ~Posted(<<r.key, 0>>)
           /\ row[c].balance > 0
           /\ txs' = [txs EXCEPT ![<<r.key, 0>>] = New("PAYMENT", c, cash, NoTx),
                                 ![<<r.key, 1>>] = New("PAYMENT", c, transfer, NoTx)]
           /\ row' = [row EXCEPT ![c].balance = row[c].balance - (cash + transfer)]
           /\ UNCHANGED batches
  <1> DEFINE r == req[p]
             b == row[r.cust].balance
             cash == CashPart(r.cash, r.transfer, b)
             transfer == TransferPart(r.cash, r.transfer, b)
  <1>1. pc[p] = "write" /\ r.op = "mixed" /\ Admissible(p) /\ ~KeyUsed(r)
    BY DEF PostMixedPayment, AtWrite
  <1>2. r \in Requests /\ r.cust \in Customers /\ e(p) = row[r.cust] /\ row[r.cust] \in Row
    BY <1>1, AtWriteSingle
  <1>3. r.key \in Keys /\ r.cash \in Nat \ {0} /\ r.transfer \in Nat \ {0}
    BY <1>1, <1>2, RequestFields, AmountType
  <1>4. ~Posted(<<r.key, 0>>)
    BY <1>1 DEF KeyUsed, KeyedOps, Posted
  <1>5. b > 0
    BY <1>1, <1>2 DEF Admissible
  <1>6. b \in 0..MaxCents /\ MaxCents \in Nat
    BY <1>2, AmountsAssumption DEF Row, Cents
  <1>7. cash \in 0..b /\ transfer \in 0..b /\ cash + transfer = Lesser(r.cash + r.transfer, b)
    BY <1>3, <1>6, MixedPartsAddUp
  <1> HIDE DEF cash, transfer
  <1>8. cash \in Cents /\ transfer \in Cents /\ cash + transfer <= b
    BY <1>3, <1>6, <1>7 DEF Cents, Lesser
  <1>9. Clamp(b - (cash + transfer)) = b - (cash + transfer)
    BY <1>6, <1>7, <1>8 DEF Clamp
  <1>10. /\ txs' = [txs EXCEPT ![<<r.key, 0>>] = New("PAYMENT", r.cust, cash, NoTx),
                               ![<<r.key, 1>>] = New("PAYMENT", r.cust, transfer, NoTx)]
         /\ row' = [row EXCEPT ![r.cust].balance = Clamp(b - (cash + transfer))]
    BY <1>2 DEF PostMixedPayment, SaveCustomer, cash, transfer
  <1>11. QED
    BY <1>1, <1>2, <1>3, <1>4, <1>5, <1>7, <1>8, <1>9, <1>10 DEF PostMixedPayment, cash, transfer

LEMMA ForgivenessStep ==
    ASSUME Inv, NEW p \in Procs, PostForgiveness(p)
    PROVE  LET r == req[p]
               c == r.cust IN
           /\ r \in Requests /\ r.op = "forgive"
           /\ r.key \in Keys /\ c \in Customers /\ row[c].balance \in Cents
           /\ ~Posted(<<r.key, 0>>)
           /\ row[c].balance > 0
           /\ txs' = [txs EXCEPT ![<<r.key, 0>>] = New("FORGIVENESS", c, row[c].balance, NoTx)]
           /\ row' = [row EXCEPT ![c].balance = 0]
           /\ UNCHANGED batches
  <1> DEFINE r == req[p]
  <1>1. pc[p] = "write" /\ r.op = "forgive" /\ Admissible(p) /\ ~KeyUsed(r)
    BY DEF PostForgiveness, AtWrite
  <1>2. r \in Requests /\ r.cust \in Customers /\ e(p) = row[r.cust] /\ row[r.cust] \in Row
    BY <1>1, AtWriteSingle
  <1>3. r.key \in Keys
    BY <1>1, <1>2, RequestFields
  <1>4. ~Posted(<<r.key, 0>>)
    BY <1>1 DEF KeyUsed, KeyedOps, Posted
  <1>5. row[r.cust].balance > 0 /\ row[r.cust].balance \in Cents
    BY <1>1, <1>2 DEF Admissible, Row
  <1>6. /\ txs' = [txs EXCEPT ![<<r.key, 0>>] =
                        New("FORGIVENESS", r.cust, row[r.cust].balance, NoTx)]
        /\ row' = [row EXCEPT ![r.cust].balance = 0]
    BY <1>2 DEF PostForgiveness, SaveCustomer
  <1>7. QED
    BY <1>1, <1>2, <1>3, <1>4, <1>5, <1>6 DEF PostForgiveness

LEMMA ReversalStep ==
    ASSUME Inv, NEW p \in Procs, PostReversal(p)
    PROVE  LET r == req[p]
               o == original[p] IN
           /\ pc[p] = "write" /\ r \in Requests /\ r.op = "reverse"
           /\ r.key \in Keys /\ r.of \in TxIds /\ o \in Tx
           /\ ~Posted(<<r.key, 0>>)
           /\ txs' = [txs EXCEPT ![<<r.key, 0>>] = New("REVERSAL", o.cust, o.amount, r.of),
                                 ![r.of] = Marked(o)]
           /\ row' = [row EXCEPT ![o.cust].balance = Reverted(o, row[o.cust].balance)]
           /\ UNCHANGED batches
  <1> DEFINE r == req[p]
             o == original[p]
  <1>1. pc[p] = "write" /\ r.op = "reverse" /\ ~KeyUsed(r)
    BY DEF PostReversal, AtWrite
  <1>2. r \in Requests /\ o \in Tx
    BY <1>1, AtWriteHolds DEF Inv, HandlerInv
  <1>3. r.key \in Keys /\ r.of \in TxIds
    BY <1>1, <1>2, RequestFields
  <1>4. LockSet(p) = {o.cust}
    BY <1>1 DEF LockSet
  <1>5. o.cust \in Customers /\ entity[p][o.cust] = row[o.cust]
    BY <1>1, <1>4, AtWriteHolds
  <1>6. ~Posted(<<r.key, 0>>)
    BY <1>1 DEF KeyUsed, KeyedOps, Posted
  <1>7. row' = [row EXCEPT ![o.cust].balance = Reverted(o, row[o.cust].balance)]
    BY <1>5 DEF PostReversal, SaveCustomer
  <1>8. QED
    BY <1>1, <1>2, <1>3, <1>6, <1>7 DEF PostReversal

\* The customers a batch of pct percent charges.
Charged(pct) == {c \in Customers : row[c].balance > 0 /\ Surcharge(row[c].balance, pct) > 0}

LEMMA InflationStep ==
    ASSUME Inv, NEW p \in Procs, PostInflation(p)
    PROVE  LET r == req[p]
               up(c) == Surcharge(row[c].balance, r.pct) IN
           /\ r \in Requests /\ r.op = "inflation"
           /\ r.key \in BatchKeys
           /\ batches[r.key] = NoTx
           /\ \A c \in Charged(r.pct) : up(c) \in Cents
           /\ txs' = [i \in TxIds |->
                        IF i[1] = r.key /\ i[2] \in Charged(r.pct)
                        THEN New("INFLATION", i[2], up(i[2]), NoTx)
                        ELSE txs[i]]
           /\ row' = [c \in Customers |->
                        IF c \in Charged(r.pct)
                        THEN [row[c] EXCEPT !.balance = row[c].balance + up(c)]
                        ELSE row[c]]
           /\ batches' = [batches EXCEPT ![r.key] =
                [affected |-> Cardinality({c \in Customers : row[c].balance > 0}),
                 total |-> SumFunction([c \in Charged(r.pct) |-> up(c)])]]
  <1> DEFINE r == req[p]
             up(c) == Surcharge(row[c].balance, r.pct)
  <1>1. pc[p] = "write" /\ r.op = "inflation" /\ ~KeyUsed(r)
    BY DEF PostInflation, AtWrite
  <1>2. r \in Requests /\ LockSet(p) = Customers
    BY <1>1, AtWriteHolds DEF LockSet
  <1>3. r.key \in BatchKeys /\ r.pct \in Nat
    BY <1>1, <1>2, RequestFields, AmountsAssumption
  <1>4. \A c \in Customers : entity[p][c] = row[c] /\ row[c] \in Row
    BY <1>1, <1>2, AtWriteHolds
  <1>5. Debtors(p) = {c \in Customers : row[c].balance > 0}
    BY <1>4 DEF Debtors
  <1>6. Surcharged(p) = Charged(r.pct) /\ Charged(r.pct) \subseteq Customers
    BY <1>4, <1>5 DEF Surcharged, Charged
  <1>7. \A c \in Charged(r.pct) : Surcharge(entity[p][c].balance, r.pct) = up(c)
    BY <1>4, <1>6
  <1>8. batches[r.key] = NoTx
    BY <1>1 DEF KeyUsed
  <1>9. \A c \in Charged(r.pct) : up(c) \in Cents
    <2> TAKE c \in Charged(r.pct)
    <2>1. row[c].balance \in 0..MaxCents /\ MaxCents \in Nat
      BY <1>4, <1>6, AmountsAssumption DEF Row, Cents
    <2>2. up(c) \in Nat
      <3>1. row[c].balance \in Nat
        BY <2>1
      <3>2. QED
        BY <1>3, <3>1, SurchargeType
    <2>3. row[c].balance + up(c) <= MaxCents
      BY <1>4, <1>6, <1>7 DEF PostInflation
    <2> HIDE DEF up
    <2>4. QED
      BY <2>1, <2>2, <2>3 DEF Cents
  <1>10. txs' = [i \in TxIds |->
                    IF i[1] = r.key /\ i[2] \in Charged(r.pct)
                    THEN New("INFLATION", i[2], up(i[2]), NoTx)
                    ELSE txs[i]]
    BY <1>6, <1>7 DEF PostInflation
  <1>11. row' = [c \in Customers |->
                    IF c \in Charged(r.pct)
                    THEN [row[c] EXCEPT !.balance = row[c].balance + up(c)]
                    ELSE row[c]]
    BY <1>4, <1>6, <1>7 DEF PostInflation
  <1>12. TotalSurcharge(p) = SumFunction([c \in Charged(r.pct) |-> up(c)])
    <2>1. [c \in Surcharged(p) |-> Surcharge(entity[p][c].balance, r.pct)]
            = [c \in Charged(r.pct) |-> up(c)]
      BY <1>6, <1>7
    <2>2. QED
      BY <2>1 DEF TotalSurcharge
  <1>13. batches' = [batches EXCEPT ![r.key] =
                [affected |-> Cardinality({c \in Customers : row[c].balance > 0}),
                 total |-> SumFunction([c \in Charged(r.pct) |-> up(c)])]]
    BY <1>5, <1>12 DEF PostInflation
  <1>14. QED
    BY <1>1, <1>2, <1>3, <1>8, <1>9, <1>10, <1>11, <1>13

LEMMA LimitStep ==
    ASSUME Inv, NEW p \in Procs, SetCreditLimit(p)
    PROVE  LET r == req[p] IN
           /\ r \in Requests /\ r.op = "limit" /\ r.cust \in Customers
           /\ row' = [row EXCEPT ![r.cust].limit = r.limit]
           /\ UNCHANGED <<txs, batches>>
  <1>1. pc[p] = "write" /\ req[p].op = "limit"
    BY DEF SetCreditLimit, AtWrite
  <1>2. req[p] \in Requests /\ req[p].cust \in Customers /\ e(p) = row[req[p].cust]
    BY <1>1, AtWriteSingle
  <1>3. QED
    BY <1>1, <1>2 DEF SetCreditLimit, SaveCustomer

LEMMA MergeStep ==
    ASSUME Inv, NEW p \in Procs, MergeCustomers(p)
    PROVE  LET r == req[p]
               a == r.primary
               b == r.secondary IN
           /\ r \in Requests /\ r.op = "merge"
           /\ a \in Customers /\ b \in Customers /\ a # b
           /\ txs' = [i \in TxIds |->
                        IF txs[i] # NoTx /\ txs[i].cust = b
                        THEN [txs[i] EXCEPT !.cust = a]
                        ELSE txs[i]]
           /\ row' = [row EXCEPT
                        ![a].balance = row[a].balance + row[b].balance,
                        ![a].limit = Greater(row[a].limit, row[b].limit),
                        ![b].balance = 0,
                        ![b].active = FALSE]
           /\ UNCHANGED batches
  <1> DEFINE a == req[p].primary
             b == req[p].secondary
  <1>1. pc[p] = "write" /\ req[p].op = "merge"
    BY DEF MergeCustomers, AtWrite
  <1>2. req[p] \in Requests /\ LockSet(p) = {a, b} /\ a # b
    BY <1>1, AtWriteHolds DEF LockSet, Inv, HandlerInv
  <1>3. /\ a \in Customers /\ entity[p][a] = row[a] /\ row[a] \in Row
        /\ b \in Customers /\ entity[p][b] = row[b] /\ row[b] \in Row
    BY <1>1, <1>2, AtWriteHolds
  <1>4. row' = [row EXCEPT
                    ![a] = [row[a] EXCEPT !.balance = row[a].balance + row[b].balance,
                                          !.limit = Greater(row[a].limit, row[b].limit)],
                    ![b] = [row[b] EXCEPT !.active = FALSE, !.balance = 0]]
    BY <1>3 DEF MergeCustomers
  <1>5. row' = [row EXCEPT
                    ![a].balance = row[a].balance + row[b].balance,
                    ![a].limit = Greater(row[a].limit, row[b].limit),
                    ![b].balance = 0,
                    ![b].active = FALSE]
    <2>1. row \in [Customers -> Row]
      BY DEF Inv, TypeOK
    <2>2. QED
      BY <1>2, <1>3, <1>4, <2>1 DEF Row
  <1>6. QED
    BY <1>1, <1>2, <1>3, <1>5 DEF MergeCustomers
-----------------------------------------------------------------------------
(* The posted rows. *)

PostedIds == {i \in TxIds : Posted(i)}

\* The second row of a mixed payment follows the first, the rows of a batch its
\* seal, and a reversal, no other row, the row it annuls.
RowsInv ==
    /\ IsFiniteSet(PostedIds)
    /\ \A k \in Keys : Posted(<<k, 1>>) => Posted(<<k, 0>>)
    /\ \A k \in BatchKeys, c \in Customers : Posted(<<k, c>>) => batches[k] # NoTx
    /\ \A i \in TxIds : Posted(i) =>
        IF txs[i].type = "REVERSAL"
        THEN txs[i].of \in TxIds /\ Posted(txs[i].of)
        ELSE txs[i].of = NoTx

\* A reversal holds the row it annuls, but for what has happened to its
\* customer and its mark since.
OriginalInv(p) ==
    pc[p] \in {"lock", "write"} /\ req[p].op = "reverse" =>
        LET o == original[p]
            t == txs[req[p].of] IN
        /\ Posted(req[p].of)
        /\ o = [t EXCEPT !.cust = o.cust, !.reversed = o.reversed]
        /\ "merge" \notin Ops => o.cust = t.cust

RowInv == Inv /\ RowsInv /\ \A p \in Procs : OriginalInv(p)

\* What a step does to a posted row, at most.
Keeps(i) ==
    /\ txs'[i] # NoTx
    /\ txs'[i] = [txs[i] EXCEPT !.cust = txs'[i].cust, !.reversed = @ \/ txs'[i].reversed]
    /\ "merge" \notin Ops => txs'[i].cust = txs[i].cust

\* A step posts the rows of N and keeps all others.
Inserts(N) ==
    /\ N \subseteq TxIds /\ IsFiniteSet(N)
    /\ \A i \in N : ~Posted(i) /\ txs'[i] \in Tx
    /\ \A i \in TxIds \ N : IF Posted(i) THEN Keeps(i) ELSE txs'[i] = NoTx

LEMMA RequestOps ==
    ASSUME NEW r \in Requests
    PROVE  r.op \in Ops
  BY DEF Requests

LEMMA PostedType ==
    ASSUME Inv, NEW i \in TxIds
    PROVE  Posted(i) => txs[i] \in Tx
  BY DEF Inv, TypeOK, Posted

LEMMA UnchangedKeeps ==
    ASSUME Inv, NEW i \in TxIds, Posted(i), txs'[i] = txs[i]
    PROVE  Keeps(i)
  <1>1. txs[i] \in Tx
    BY PostedType
  <1>2. QED
    BY <1>1 DEF Keeps, Posted, Tx

LEMMA UnchangedInserts ==
    ASSUME Inv, UNCHANGED txs
    PROVE  Inserts({})
  <1>1. \A i \in TxIds : IF Posted(i) THEN Keeps(i) ELSE txs'[i] = NoTx
    BY UnchangedKeeps DEF Posted
  <1>2. QED
    BY <1>1, FS_EmptySet DEF Inserts

\* One row under a fresh key.
LEMMA OneInserts ==
    ASSUME Inv, NEW k \in Keys, ~Posted(<<k, 0>>), NEW t \in Tx,
           txs' = [txs EXCEPT ![<<k, 0>>] = t]
    PROVE  Inserts({<<k, 0>>}) /\ txs'[<<k, 0>>] = t
  <1>1. <<k, 0>> \in TxIds /\ txs \in [TxIds -> Tx \cup {NoTx}]
    BY KeyTxIds DEF Inv, TypeOK
  <1>2. txs'[<<k, 0>>] = t /\ \A i \in TxIds \ {<<k, 0>>} : txs'[i] = txs[i]
    BY <1>1
  <1>3. \A i \in TxIds \ {<<k, 0>>} : IF Posted(i) THEN Keeps(i) ELSE txs'[i] = NoTx
    BY <1>2, UnchangedKeeps DEF Posted
  <1>4. QED
    BY <1>1, <1>2, <1>3, FS_Singleton DEF Inserts

LEMMA MixedInserts ==
    ASSUME RowInv, NEW p \in Procs, PostMixedPayment(p)
    PROVE  LET k == req[p].key IN
           /\ k \in Keys
           /\ Inserts({<<k, 0>>, <<k, 1>>})
           /\ txs'[<<k, 0>>].type = "PAYMENT" /\ txs'[<<k, 0>>].of = NoTx
           /\ txs'[<<k, 1>>].type = "PAYMENT" /\ txs'[<<k, 1>>].of = NoTx
  <1> DEFINE k == req[p].key
             c == req[p].cust
             cash == CashPart(req[p].cash, req[p].transfer, row[c].balance)
             transfer == TransferPart(req[p].cash, req[p].transfer, row[c].balance)
  <1>1. /\ k \in Keys /\ c \in Customers /\ ~Posted(<<k, 0>>)
        /\ cash \in Cents /\ transfer \in Cents
        /\ txs' = [txs EXCEPT ![<<k, 0>>] = New("PAYMENT", c, cash, NoTx),
                              ![<<k, 1>>] = New("PAYMENT", c, transfer, NoTx)]
    BY MixedPaymentStep DEF RowInv
  <1> HIDE DEF cash, transfer
  <1>2. /\ <<k, 0>> \in TxIds /\ <<k, 1>> \in TxIds /\ <<k, 0>> # <<k, 1>>
        /\ txs \in [TxIds -> Tx \cup {NoTx}]
    BY <1>1, KeyTxIds DEF RowInv, Inv, TypeOK
  <1>3. ~Posted(<<k, 1>>)
    BY <1>1 DEF RowInv, RowsInv
  <1>4. /\ New("PAYMENT", c, cash, NoTx) \in Tx /\ New("PAYMENT", c, transfer, NoTx) \in Tx
    BY <1>1, NewType DEF TxTypes
  <1>5. /\ txs'[<<k, 0>>] = New("PAYMENT", c, cash, NoTx)
        /\ txs'[<<k, 1>>] = New("PAYMENT", c, transfer, NoTx)
        /\ \A i \in TxIds \ {<<k, 0>>, <<k, 1>>} : txs'[i] = txs[i]
    BY <1>1, <1>2
  <1>6. \A i \in TxIds \ {<<k, 0>>, <<k, 1>>} : IF Posted(i) THEN Keeps(i) ELSE txs'[i] = NoTx
    BY <1>5, UnchangedKeeps DEF Posted, RowInv
  <1>7. IsFiniteSet({<<k, 0>>, <<k, 1>>})
    <2>1. IsFiniteSet({<<k, 0>>})
      BY FS_Singleton
    <2>2. {<<k, 0>>, <<k, 1>>} = {<<k, 0>>} \cup {<<k, 1>>}
      OBVIOUS
    <2>3. QED
      BY <2>1, <2>2, FS_AddElement
  <1>8. Inserts({<<k, 0>>, <<k, 1>>})
    BY <1>1, <1>2, <1>3, <1>4, <1>5, <1>6, <1>7 DEF Inserts
  <1>9. QED
    BY <1>1, <1>5, <1>8 DEF New

LEMMA ReversalInserts ==
    ASSUME RowInv, NEW p \in Procs, PostReversal(p)
    PROVE  LET k == req[p].key
               o == original[p] IN
           /\ k \in Keys
           /\ req[p].of \in TxIds /\ Posted(req[p].of)
           /\ Inserts({<<k, 0>>})
           /\ txs'[<<k, 0>>] = New("REVERSAL", o.cust, o.amount, req[p].of)
           /\ txs'[req[p].of] = Marked(o)
           /\ \A i \in TxIds \ {<<k, 0>>, req[p].of} : txs'[i] = txs[i]
  <1> DEFINE k == req[p].key
             o == original[p]
             of == req[p].of
  <1>1. /\ pc[p] = "write" /\ req[p].op = "reverse"
        /\ k \in Keys /\ of \in TxIds /\ o \in Tx /\ ~Posted(<<k, 0>>)
        /\ txs' = [txs EXCEPT ![<<k, 0>>] = New("REVERSAL", o.cust, o.amount, of),
                              ![of] = Marked(o)]
    BY ReversalStep DEF RowInv
  <1>2. /\ Posted(of)
        /\ o = [txs[of] EXCEPT !.cust = o.cust, !.reversed = o.reversed]
        /\ "merge" \notin Ops => o.cust = txs[of].cust
    BY <1>1 DEF RowInv, OriginalInv
  <1>3. <<k, 0>> \in TxIds /\ of # <<k, 0>> /\ txs \in [TxIds -> Tx \cup {NoTx}]
    BY <1>1, <1>2, KeyTxIds DEF RowInv, Inv, TypeOK
  <1>4. /\ txs'[<<k, 0>>] = New("REVERSAL", o.cust, o.amount, of)
        /\ txs'[of] = Marked(o)
        /\ \A i \in TxIds \ {<<k, 0>>, of} : txs'[i] = txs[i]
    BY <1>1, <1>3
  <1>5. New("REVERSAL", o.cust, o.amount, of) \in Tx
    <2>1. o.cust \in Customers /\ o.amount \in Cents
      BY <1>1 DEF Tx
    <2>2. QED
      BY <1>1, <2>1, NewType DEF TxTypes
  <1>6. Keeps(of)
    <2>1. txs[of] \in Tx /\ Marked(o) \in Tx
      BY <1>1, <1>2, PostedType DEF RowInv, Marked, Tx
    <2>2. Marked(o) = [txs[of] EXCEPT !.cust = o.cust, !.reversed = TRUE]
      BY <1>1, <1>2, <2>1 DEF Marked, Tx
    <2>3. txs'[of].cust = o.cust /\ txs'[of].reversed = TRUE
      BY <1>4, <2>1, <2>2 DEF Tx
    <2>4. txs'[of] # NoTx
      BY <1>4, <2>1, NoTxAssumption
    <2>5. QED
      BY <1>2, <1>4, <2>1, <2>2, <2>3, <2>4 DEF Keeps
  <1>7. \A i \in TxIds \ {<<k, 0>>} : IF Posted(i) THEN Keeps(i) ELSE txs'[i] = NoTx
    <2> TAKE i \in TxIds \ {<<k, 0>>}
    <2>1. CASE i = of
      BY <1>2, <1>6, <2>1
    <2>2. CASE i # of
      <3>1. txs'[i] = txs[i]
        BY <1>4, <2>2
      <3>2. QED
        BY <3>1, UnchangedKeeps DEF Posted, RowInv
    <2>3. QED
      BY <2>1, <2>2
  <1>8. Inserts({<<k, 0>>})
    BY <1>1, <1>3, <1>4, <1>5, <1>7, FS_Singleton DEF Inserts
  <1>9. QED
    BY <1>1, <1>2, <1>4, <1>8

\* The rows of a batch.
BatchIds(k, charged) == {<<k, c>> : c \in charged}

LEMMA InflationInserts ==
    ASSUME RowInv, NEW p \in Procs, PostInflation(p)
    PROVE  LET k == req[p].key
               charged == Charged(req[p].pct) IN
           /\ k \in BatchKeys /\ batches[k] = NoTx /\ charged \subseteq Customers
           /\ Inserts(BatchIds(k, charged))
           /\ \A c \in charged :
                /\ <<k, c>> \in TxIds
                /\ txs'[<<k, c>>] = New("INFLATION", c, Surcharge(row[c].balance, req[p].pct), NoTx)
           /\ \A i \in TxIds \ BatchIds(k, charged) : txs'[i] = txs[i]
  <1> DEFINE k == req[p].key
             charged == Charged(req[p].pct)
             up(c) == Surcharge(row[c].balance, req[p].pct)
             N == BatchIds(k, charged)
  <1>1. /\ k \in BatchKeys /\ batches[k] = NoTx
        /\ \A c \in charged : up(c) \in Cents
        /\ txs' = [i \in TxIds |->
                        IF i[1] = k /\ i[2] \in charged
                        THEN New("INFLATION", i[2], up(i[2]), NoTx)
                        ELSE txs[i]]
    BY InflationStep DEF RowInv
  <1>2. charged \subseteq Customers /\ IsFiniteSet(charged)
    <2>1. charged \subseteq Customers
      BY DEF Charged
    <2>2. QED
      BY <2>1, CustomersAssumption, FS_Subset
  <1> HIDE DEF charged, up
  <1>3. \A c \in charged : <<k, c>> \in TxIds /\ ~Posted(<<k, c>>)
    <2> TAKE c \in charged
    <2>1. c \in Customers /\ <<k, c>> \in TxIds
      BY <1>1, <1>2 DEF TxIds
    <2>2. QED
      BY <1>1, <2>1 DEF RowInv, RowsInv
  <1>4. \A c \in charged : txs'[<<k, c>>] = New("INFLATION", c, up(c), NoTx)
    BY <1>1, <1>3
  <1>5. \A c \in charged : New("INFLATION", c, up(c), NoTx) \in Tx
    BY <1>1, <1>2, NewType DEF TxTypes
  <1>6. \A i \in TxIds \ N : txs'[i] = txs[i]
    <2> TAKE i \in TxIds \ N
    <2>1. i = <<i[1], i[2]>>
      BY DEF TxIds
    <2>2. ~(i[1] = k /\ i[2] \in charged)
      BY <2>1 DEF BatchIds
    <2>3. QED
      BY <1>1, <2>2
  <1>7. IsFiniteSet(N)
    <2> DEFINE f == [c \in charged |-> <<k, c>>]
    <2>1. f \in Surjection(charged, N)
      BY DEF Surjection, BatchIds
    <2> HIDE DEF f, N
    <2>2. QED
      BY <1>2, <2>1, FS_Surjection
  <1>8. N \subseteq TxIds /\ \A i \in N : ~Posted(i) /\ txs'[i] \in Tx
    BY <1>3, <1>4, <1>5 DEF BatchIds
  <1>9. \A i \in TxIds \ N : IF Posted(i) THEN Keeps(i) ELSE txs'[i] = NoTx
    <2> TAKE i \in TxIds \ N
    <2>1. txs'[i] = txs[i]
      BY <1>6
    <2>2. QED
      BY <2>1, UnchangedKeeps DEF Posted, RowInv
  <1>10. Inserts(N)
    <2> HIDE DEF N
    <2>1. QED
      BY <1>7, <1>8, <1>9 DEF Inserts
  <1>11. QED
    BY <1>1, <1>2, <1>3, <1>4, <1>6, <1>10 DEF charged, up

LEMMA MergeInserts ==
    ASSUME RowInv, NEW p \in Procs, MergeCustomers(p)
    PROVE  Inserts({})
  <1> DEFINE a == req[p].primary
             b == req[p].secondary
  <1>1. /\ req[p] \in Requests /\ req[p].op = "merge" /\ a \in Customers
        /\ txs' = [i \in TxIds |->
                    IF txs[i] # NoTx /\ txs[i].cust = b
                    THEN [txs[i] EXCEPT !.cust = a]
                    ELSE txs[i]]
    BY MergeStep DEF RowInv
  <1>2. "merge" \in Ops
    BY <1>1, RequestOps
  <1>3. \A i \in TxIds : IF Posted(i) THEN Keeps(i) ELSE txs'[i] = NoTx
    <2> TAKE i \in TxIds
    <2>1. CASE Posted(i)
      <3>1. txs[i] \in Tx
        BY <2>1, PostedType DEF RowInv
      <3>2. txs'[i] \in Tx
        BY <1>1, <3>1 DEF Tx
      <3>3. txs'[i] = [txs[i] EXCEPT !.cust = txs'[i].cust, !.reversed = @ \/ txs'[i].reversed]
        BY <1>1, <3>1 DEF Tx
      <3>4. QED
        BY <1>2, <2>1, <3>2, <3>3, NoTxAssumption DEF Keeps
    <2>2. CASE ~Posted(i)
      BY <1>1, <2>2 DEF Posted
    <2>3. QED
      BY <2>1, <2>2
  <1>4. QED
    BY <1>3, FS_EmptySet DEF Inserts

\* Debts, payments and annulled debts post one row.
LEMMA SingleInserts ==
    ASSUME RowInv, NEW p \in Procs, PostDebt(p) \/ PostPayment(p) \/ PostForgiveness(p)
    PROVE  LET k == req[p].key IN
           /\ k \in Keys
           /\ Inserts({<<k, 0>>})
           /\ txs'[<<k, 0>>].type \in {"DEBT", "PAYMENT", "FORGIVENESS"}
           /\ txs'[<<k, 0>>].of = NoTx
           /\ UNCHANGED batches
  <1> DEFINE k == req[p].key
             c == req[p].cust
  <1>1. \E type \in {"DEBT", "PAYMENT", "FORGIVENESS"}, amount \in Cents :
            /\ k \in Keys /\ c \in Customers /\ ~Posted(<<k, 0>>)
            /\ txs' = [txs EXCEPT ![<<k, 0>>] = New(type, c, amount, NoTx)]
            /\ UNCHANGED batches
    <2>1. CASE PostDebt(p)
      BY <2>1, DebtStep DEF RowInv
    <2>2. CASE PostPayment(p)
      <3> DEFINE paid == Lesser(req[p].amount, row[c].balance)
      <3>1. /\ k \in Keys /\ c \in Customers /\ ~Posted(<<k, 0>>) /\ paid \in Cents
            /\ txs' = [txs EXCEPT ![<<k, 0>>] = New("PAYMENT", c, paid, NoTx)]
            /\ UNCHANGED batches
        BY <2>2, PaymentStep DEF RowInv
      <3> HIDE DEF paid
      <3>2. QED
        BY <3>1
    <2>3. CASE PostForgiveness(p)
      BY <2>3, ForgivenessStep DEF RowInv
    <2>4. QED
      BY <2>1, <2>2, <2>3
  <1>2. PICK type \in {"DEBT", "PAYMENT", "FORGIVENESS"}, amount \in Cents :
            /\ k \in Keys /\ c \in Customers /\ ~Posted(<<k, 0>>)
            /\ txs' = [txs EXCEPT ![<<k, 0>>] = New(type, c, amount, NoTx)]
            /\ UNCHANGED batches
    BY <1>1
  <1>3. New(type, c, amount, NoTx) \in Tx
    BY <1>2, NewType DEF TxTypes
  <1>4. Inserts({<<k, 0>>}) /\ txs'[<<k, 0>>] = New(type, c, amount, NoTx)
    BY <1>2, <1>3, OneInserts DEF RowInv
  <1>5. QED
    BY <1>2, <1>4 DEF New

\* The tables change in write steps only.
LEMMA TableSteps ==
    ASSUME [Next]_vars
    PROVE  \/ UNCHANGED db
           \/ \E p \in Procs :
                \/ PostDebt(p) \/ PostPayment(p) \/ PostForgiveness(p)
                \/ PostMixedPayment(p) \/ PostReversal(p) \/ PostInflation(p)
                \/ SetCreditLimit(p) \/ MergeCustomers(p) \/ SaveUpdate(p)
  <1>1. CASE UNCHANGED vars
    BY <1>1 DEF vars, db
  <1>2. CASE Next
    <2>1. PICK p \in Procs :
            \/ \E r \in Requests : Begin(p, r) \/ Replay(p, r)
            \/ Proceed(p)
            \/ Crash(p)
      BY <1>2 DEF Next
    <2>2. CASE \E r \in Requests : Begin(p, r) \/ Replay(p, r)
      BY <2>2 DEF Begin, Replay, db
    <2>3. CASE Crash(p) \/ ReadOriginal(p) \/ LockTimeout(p) \/ Reject(p)
               \/ DuplicateKey(p) \/ Overflow(p)
      BY <2>3 DEF Crash, ReadOriginal, LockTimeout, Reject, DuplicateKey, Overflow
    <2>4. CASE (\E c \in Customers : Lock(p, c)) \/ Load(p) \/ SaveSelect(p)
      BY <2>4 DEF Lock, Load, SaveSelect, db
    <2>5. QED
      BY <2>1, <2>2, <2>3, <2>4 DEF Proceed, Write
  <1>3. QED
    BY <1>1, <1>2

LEMMA InsertsKeepRowsInv ==
    ASSUME RowInv, NEW N, Inserts(N),
           \A k \in Keys : <<k, 1>> \in N => <<k, 0>> \in N,
           \A k \in BatchKeys : batches[k] # NoTx => batches'[k] # NoTx,
           \A k \in BatchKeys, c \in Customers : <<k, c>> \in N => batches'[k] # NoTx,
           \A i \in N : IF txs'[i].type = "REVERSAL"
                        THEN txs'[i].of \in TxIds /\ Posted(txs'[i].of)
                        ELSE txs'[i].of = NoTx
    PROVE  RowsInv'
  <1>1. /\ N \subseteq TxIds /\ IsFiniteSet(N)
        /\ \A i \in N : ~Posted(i) /\ txs'[i] # NoTx
        /\ \A i \in TxIds \ N : IF Posted(i) THEN Keeps(i) ELSE txs'[i] = NoTx
    BY NoTxAssumption DEF Inserts
  <1>2. \A i \in TxIds : Posted(i)' <=> Posted(i) \/ i \in N
    BY <1>1 DEF Posted, Keeps
  <1>3. \A i \in TxIds : Posted(i) => txs'[i].type = txs[i].type /\ txs'[i].of = txs[i].of
    <2> TAKE i \in TxIds
    <2> HAVE Posted(i)
    <2>1. txs[i] \in Tx /\ Keeps(i)
      BY <1>1, PostedType DEF RowInv
    <2>2. QED
      BY <2>1 DEF Keeps, Tx
  <1>4. IsFiniteSet(PostedIds)'
    <2>1. PostedIds' = PostedIds \cup N
      BY <1>1, <1>2 DEF PostedIds
    <2>2. QED
      BY <1>1, <2>1, FS_Union DEF RowInv, RowsInv
  <1>5. \A k \in Keys : Posted(<<k, 1>>)' => Posted(<<k, 0>>)'
    <2> TAKE k \in Keys
    <2>1. <<k, 0>> \in TxIds /\ <<k, 1>> \in TxIds
      BY KeyTxIds
    <2>2. QED
      BY <1>2, <2>1 DEF RowInv, RowsInv
  <1>6. \A k \in BatchKeys, c \in Customers : Posted(<<k, c>>)' => batches'[k] # NoTx
    <2> TAKE k \in BatchKeys, c \in Customers
    <2>1. <<k, c>> \in TxIds
      BY DEF TxIds
    <2>2. QED
      BY <1>2, <2>1 DEF RowInv, RowsInv
  <1>7. \A i \in TxIds : Posted(i)' =>
            IF txs'[i].type = "REVERSAL"
            THEN txs'[i].of \in TxIds /\ txs'[txs'[i].of] # NoTx
            ELSE txs'[i].of = NoTx
    <2> TAKE i \in TxIds
    <2> HAVE Posted(i)'
    <2> DEFINE of == txs'[i].of
    <2>1. of \in TxIds /\ Posted(of) => txs'[of] # NoTx
      <3>1. \A j \in TxIds : Posted(j) => txs'[j] # NoTx
        BY <1>2 DEF Posted
      <3> HIDE DEF of
      <3>2. QED
        BY <3>1
    <2>2. CASE i \in N
      BY <2>1, <2>2
    <2>3. CASE i \notin N
      <3>1. Posted(i) /\ txs'[i].type = txs[i].type /\ of = txs[i].of
        BY <1>2, <1>3, <2>3
      <3> HIDE DEF of
      <3>2. IF txs[i].type = "REVERSAL" THEN of \in TxIds /\ Posted(of) ELSE of = NoTx
        BY <3>1 DEF RowInv, RowsInv
      <3>3. IF txs'[i].type = "REVERSAL" THEN of \in TxIds /\ txs'[of] # NoTx ELSE of = NoTx
        BY <2>1, <3>1, <3>2
      <3>4. QED
        BY <3>3 DEF of
    <2>4. QED
      BY <2>2, <2>3
  <1>8. QED
    BY <1>4, <1>5, <1>6, <1>7 DEF RowsInv, Posted

\* The seal of a batch.
LEMMA InflationSeals ==
    ASSUME Inv, NEW p \in Procs, PostInflation(p)
    PROVE  LET k == req[p].key
               pct == req[p].pct
               seal == [affected |-> Cardinality({c \in Customers : row[c].balance > 0}),
                        total |-> SumFunction([c \in Charged(pct) |->
                                                Surcharge(row[c].balance, pct)])] IN
           /\ k \in BatchKeys
           /\ seal \in Seal /\ batches'[k] = seal /\ batches'[k] # NoTx
           /\ \A b \in BatchKeys \ {k} : batches'[b] = batches[b]
  <1> DEFINE k == req[p].key
             pct == req[p].pct
             debtors == {c \in Customers : row[c].balance > 0}
             f == [c \in Charged(pct) |-> Surcharge(row[c].balance, pct)]
             total == SumFunction(f)
             seal == [affected |-> Cardinality(debtors), total |-> total]
  <1>1. /\ k \in BatchKeys
        /\ \A c \in Charged(pct) : Surcharge(row[c].balance, pct) \in Cents
        /\ batches' = [batches EXCEPT ![k] = seal]
    BY InflationStep
  <1>2. Cardinality(debtors) \in Nat
    BY CustomersAssumption, FS_Subset, FS_CardinalityType
  <1>3. total \in Int
    <2>1. IsFiniteSet(Charged(pct))
      BY CustomersAssumption, FS_Subset DEF Charged
    <2>2. \A c \in Charged(pct) : f[c] \in Int
      BY <1>1 DEF Cents
    <2>3. total = SumFunctionOnSet(f, Charged(pct))
      BY DEF SumFunction
    <2> HIDE DEF f, total
    <2>4. QED
      BY <2>1, <2>2, <2>3, SumType
  <1> HIDE DEF debtors, total
  <1>4. seal \in Seal
    BY <1>2, <1>3 DEF Seal
  <1>5. batches'[k] = seal /\ \A b \in BatchKeys \ {k} : batches'[b] = batches[b]
    BY <1>1 DEF Inv, TypeOK
  <1>6. QED
    BY <1>1, <1>4, <1>5, NoTxAssumption DEF debtors, total

\* Every step posts whole sets of rows and keeps what is posted.
LEMMA StepInserts ==
    ASSUME RowInv, [Next]_vars
    PROVE  RowsInv' /\ \E N : Inserts(N)
  <1>1. CASE UNCHANGED <<txs, batches>>
    <2>1. Inserts({})
      BY <1>1, UnchangedInserts DEF RowInv
    <2>2. QED
      BY <1>1, <2>1, InsertsKeepRowsInv
  <1>2. ASSUME NEW p \in Procs, PostDebt(p) \/ PostPayment(p) \/ PostForgiveness(p)
        PROVE  RowsInv' /\ \E N : Inserts(N)
    <2> DEFINE k == req[p].key
    <2>1. /\ k \in Keys /\ Inserts({<<k, 0>>}) /\ UNCHANGED batches
          /\ txs'[<<k, 0>>].type # "REVERSAL" /\ txs'[<<k, 0>>].of = NoTx
      BY <1>2, SingleInserts
    <2>2. \A b \in BatchKeys, c \in Customers : <<b, c>> \notin {<<k, 0>>}
      BY <2>1, KeysAssumption
    <2> HIDE DEF k
    <2>3. QED
      BY <2>1, <2>2, InsertsKeepRowsInv
  <1>3. ASSUME NEW p \in Procs, PostMixedPayment(p)
        PROVE  RowsInv' /\ \E N : Inserts(N)
    <2> DEFINE k == req[p].key
    <2>1. /\ k \in Keys /\ Inserts({<<k, 0>>, <<k, 1>>})
          /\ txs'[<<k, 0>>].type = "PAYMENT" /\ txs'[<<k, 0>>].of = NoTx
          /\ txs'[<<k, 1>>].type = "PAYMENT" /\ txs'[<<k, 1>>].of = NoTx
      BY <1>3, MixedInserts
    <2>2. UNCHANGED batches
      BY <1>3 DEF PostMixedPayment
    <2>3. \A b \in BatchKeys, c \in Customers : <<b, c>> \notin {<<k, 0>>, <<k, 1>>}
      BY <2>1, KeysAssumption
    <2> HIDE DEF k
    <2>4. QED
      BY <2>1, <2>2, <2>3, InsertsKeepRowsInv
  <1>4. ASSUME NEW p \in Procs, PostReversal(p)
        PROVE  RowsInv' /\ \E N : Inserts(N)
    <2> DEFINE k == req[p].key
               t == New("REVERSAL", original[p].cust, original[p].amount, req[p].of)
    <2>1. /\ k \in Keys /\ Inserts({<<k, 0>>})
          /\ txs'[<<k, 0>>] = t
          /\ req[p].of \in TxIds /\ Posted(req[p].of)
      BY <1>4, ReversalInserts
    <2>2. UNCHANGED batches
      BY <1>4 DEF PostReversal
    <2>3. \A b \in BatchKeys, c \in Customers : <<b, c>> \notin {<<k, 0>>}
      BY <2>1, KeysAssumption
    <2>4. t.type = "REVERSAL" /\ t.of = req[p].of
      BY DEF New
    <2> HIDE DEF k, t
    <2>5. QED
      BY <2>1, <2>2, <2>3, <2>4, InsertsKeepRowsInv
  <1>5. ASSUME NEW p \in Procs, PostInflation(p)
        PROVE  RowsInv' /\ \E N : Inserts(N)
    <2> DEFINE k == req[p].key
               charged == Charged(req[p].pct)
               N == BatchIds(k, charged)
    <2>1. /\ k \in BatchKeys /\ charged \subseteq Customers /\ Inserts(N)
          /\ \A c \in charged :
                txs'[<<k, c>>] = New("INFLATION", c, Surcharge(row[c].balance, req[p].pct), NoTx)
      BY <1>5, InflationInserts
    <2>2. \A i \in N : txs'[i].type = "INFLATION" /\ txs'[i].of = NoTx
      <3> TAKE i \in N
      <3>1. PICK c \in charged : i = <<k, c>>
        BY DEF BatchIds
      <3>2. txs'[i] = New("INFLATION", c, Surcharge(row[c].balance, req[p].pct), NoTx)
        BY <2>1, <3>1
      <3>3. QED
        BY <3>2 DEF New
    <2>3. \A j \in Keys, x \in {0, 1} : <<j, x>> \notin N
      BY <2>1, KeysAssumption DEF BatchIds
    <2>4. batches'[k] # NoTx /\ \A b \in BatchKeys \ {k} : batches'[b] = batches[b]
      BY <1>5, InflationSeals DEF RowInv
    <2>5. \A b \in BatchKeys, c \in Customers : <<b, c>> \in N => b = k
      BY DEF BatchIds
    <2> HIDE DEF k, charged, N
    <2>6. QED
      BY <2>1, <2>2, <2>3, <2>4, <2>5, InsertsKeepRowsInv
  <1>6. ASSUME NEW p \in Procs, MergeCustomers(p)
        PROVE  RowsInv' /\ \E N : Inserts(N)
    <2>1. Inserts({})
      BY <1>6, MergeInserts
    <2>2. UNCHANGED batches
      BY <1>6 DEF MergeCustomers
    <2>3. QED
      BY <2>1, <2>2, InsertsKeepRowsInv
  <1>7. QED
    BY <1>1, <1>2, <1>3, <1>4, <1>5, <1>6, TableSteps DEF db, SetCreditLimit, SaveUpdate
\* A handler that is about to lock or to write a reversal was, or has just read
\* the original.
LEMMA ReversalHandler ==
    ASSUME Inv, [Next]_vars, NEW p \in Procs,
           pc'[p] \in {"lock", "write"}, req'[p].op = "reverse"
    PROVE  /\ req'[p] = req[p]
           /\ \/ pc[p] \in {"lock", "write"} /\ original'[p] = original[p]
              \/ /\ pc[p] = "readOriginal" /\ UNCHANGED txs
                 /\ Posted(req[p].of) /\ original'[p] = txs[req[p].of]
  <1> DEFINE Goal == /\ req'[p] = req[p]
                     /\ \/ pc[p] \in {"lock", "write"} /\ original'[p] = original[p]
                        \/ /\ pc[p] = "readOriginal" /\ UNCHANGED txs
                           /\ Posted(req[p].of) /\ original'[p] = txs[req[p].of]
  <1>1. /\ pc \in [Procs -> Finished \cup InFlight] /\ req \in [Procs -> Requests \cup {NoReq}]
        /\ original \in [Procs -> Tx \cup {NoTx}]
    BY DEF Inv, TypeOK
  <1>2. ASSUME NEW q \in Procs, NEW outcome \in Outcomes, Finish(q, outcome)
        PROVE  Goal
    <2>1. q # p
      BY <1>1, <1>2 DEF Finish, Outcomes
    <2>2. QED
      BY <1>1, <1>2, <2>1 DEF Finish
  <1>3. ASSUME NEW q \in Procs, NEW r \in Requests, Begin(q, r) \/ Replay(q, r)
        PROVE  Goal
    <2>1. q # p
      BY <1>1, <1>3 DEF Begin, Replay, FirstStatement
    <2>2. QED
      BY <1>1, <1>3, <2>1 DEF Begin, Replay
  <1>4. ASSUME NEW q \in Procs, ReadOriginal(q), ~Finish(q, "rejected")
        PROVE  Goal
    BY <1>1, <1>4 DEF ReadOriginal, db, Posted
  <1>5. ASSUME NEW q \in Procs, NEW c \in Customers, Lock(q, c)
        PROVE  Goal
    BY <1>1, <1>5 DEF Lock
  <1>6. ASSUME NEW q \in Procs, Load(q) \/ SaveSelect(q)
        PROVE  Goal
    <2>1. q # p
      BY <1>1, <1>6 DEF Load, SaveSelect
    <2>2. QED
      BY <1>1, <1>6, <2>1 DEF Load, SaveSelect
  <1>7. ASSUME NEW q \in Procs, FinishCommitted(q)
        PROVE  Goal
    BY <1>2, <1>7 DEF FinishCommitted, Outcomes
  <1>8. ASSUME NEW q \in Procs, Crash(q) \/ LockTimeout(q) \/ Reject(q)
                                \/ DuplicateKey(q) \/ Overflow(q) \/ Finish(q, "rejected")
        PROVE  Goal
    BY <1>2, <1>8 DEF Crash, LockTimeout, Reject, DuplicateKey, Overflow, Outcomes
  <1>9. ASSUME NEW q \in Procs,
               \/ PostDebt(q) \/ PostPayment(q) \/ PostMixedPayment(q) \/ PostForgiveness(q)
               \/ PostReversal(q) \/ PostInflation(q) \/ SetCreditLimit(q)
               \/ MergeCustomers(q) \/ SaveUpdate(q)
        PROVE  Goal
    BY <1>7, <1>9 DEF PostDebt, PostPayment, PostMixedPayment, PostForgiveness,
       PostReversal, PostInflation, SetCreditLimit, MergeCustomers, SaveUpdate
  <1>10. ASSUME UNCHANGED vars PROVE Goal
    BY <1>10 DEF vars
  <1> HIDE DEF Goal
  <1>11. ASSUME Next PROVE Goal
    <2>1. PICK q \in Procs :
            \/ \E r \in Requests : Begin(q, r) \/ Replay(q, r)
            \/ Proceed(q)
            \/ Crash(q)
      BY <1>11 DEF Next
    <2>2. ASSUME Proceed(q) PROVE Goal
      <3>1. ASSUME Write(q) PROVE Goal
        BY <1>8, <1>9, <3>1 DEF Write
      <3>2. ASSUME ReadOriginal(q) PROVE Goal
        BY <1>4, <1>8, <3>2
      <3>3. QED
        BY <1>5, <1>6, <1>8, <1>9, <2>2, <3>1, <3>2 DEF Proceed
    <2>3. QED
      BY <1>3, <1>8, <2>1, <2>2
  <1>12. QED
    BY <1>10, <1>11 DEF Goal

LEMMA OriginalInvPreserved ==
    ASSUME RowInv, [Next]_vars, NEW p \in Procs
    PROVE  OriginalInv(p)'
  <1> SUFFICES ASSUME pc'[p] \in {"lock", "write"}, req'[p].op = "reverse"
               PROVE  LET o == original'[p]
                          of == req'[p].of
                          t == txs'[of] IN
                      /\ txs'[of] # NoTx
                      /\ o = [t EXCEPT !.cust = o.cust, !.reversed = o.reversed]
                      /\ "merge" \notin Ops => o.cust = t.cust
    BY DEF OriginalInv, Posted
  <1> DEFINE o == original'[p]
             of == req[p].of
             t == txs[of]
  <1>1. /\ req'[p] = req[p]
        /\ \/ pc[p] \in {"lock", "write"} /\ o = original[p]
           \/ /\ pc[p] = "readOriginal" /\ UNCHANGED txs
              /\ Posted(of) /\ o = t
    BY ReversalHandler DEF RowInv
  <1>2. of \in TxIds
    <2>1. req[p] \in Requests /\ req[p].op = "reverse"
      BY <1>1 DEF RowInv, Inv, HandlerInv, InFlight
    <2>2. QED
      BY <2>1, RequestFields
  <1>3. CASE pc[p] \in {"lock", "write"} /\ o = original[p]
    <2>1. /\ Posted(of)
          /\ o = [t EXCEPT !.cust = o.cust, !.reversed = o.reversed]
          /\ "merge" \notin Ops => o.cust = t.cust
      BY <1>1, <1>3 DEF RowInv, OriginalInv
    <2>2. t \in Tx /\ Keeps(of)
      BY <1>2, <2>1, StepInserts, PostedType DEF Inserts, RowInv
    <2> HIDE DEF o, of
    <2>3. QED
      <3>1. txs'[of] # NoTx /\ txs'[of] = [t EXCEPT !.cust = txs'[of].cust,
                                          !.reversed = t.reversed \/ txs'[of].reversed]
        BY <2>2 DEF Keeps
      <3>2. "merge" \notin Ops => txs'[of].cust = t.cust
        BY <2>2 DEF Keeps
      <3>3. o = [txs'[of] EXCEPT !.cust = o.cust, !.reversed = o.reversed]
        BY <2>1, <2>2, <3>1 DEF Tx
      <3>4. QED
        BY <1>1, <2>1, <3>1, <3>2, <3>3 DEF o, of
  <1>4. CASE UNCHANGED txs /\ Posted(of) /\ o = t
    <2>1. t \in Tx
      BY <1>2, <1>4, PostedType DEF RowInv
    <2>2. o = [t EXCEPT !.cust = o.cust, !.reversed = o.reversed]
      BY <1>4, <2>1 DEF Tx
    <2>3. QED
      BY <1>1, <1>4, <2>2 DEF Posted
  <1>5. QED
    BY <1>1, <1>3, <1>4

LEMMA InitEstablishesRowInv == Init => RowInv
  <1> SUFFICES ASSUME Init PROVE RowInv
    OBVIOUS
  <1>1. \A i \in TxIds : ~Posted(i)
    BY DEF Init, Posted
  <1>2. RowsInv
    <2>1. PostedIds = {}
      BY <1>1 DEF PostedIds
    <2>2. \A k \in Keys : <<k, 1>> \in TxIds
      BY KeyTxIds
    <2>3. \A k \in BatchKeys, c \in Customers : <<k, c>> \in TxIds
      BY DEF TxIds
    <2>4. QED
      BY <1>1, <2>1, <2>2, <2>3, FS_EmptySet DEF RowsInv
  <1>3. \A p \in Procs : OriginalInv(p)
    BY DEF Init, OriginalInv
  <1>4. QED
    BY <1>2, <1>3, InitEstablishesInv DEF RowInv

LEMMA NextPreservesRowInv == RowInv /\ [Next]_vars => RowInv'
  BY NextPreservesInv, StepInserts, OriginalInvPreserved DEF RowInv

LEMMA RowInvariance == Spec => []RowInv
  BY InitEstablishesRowInv, NextPreservesRowInv, PTL DEF Spec

\* A posted row is never removed or rewritten, whatever the handlers interleave:
\* a reversal saves the whole original it read before its lock, and that copy is
\* still the row but for its customer and its mark.
THEOREM RowsStayAsPosted == Spec => RowsAreImmutable
  <1>1. RowInv /\ [Next]_vars =>
            [\A i \in TxIds : Posted(i) =>
                /\ txs'[i] # NoTx
                /\ txs'[i] = [txs[i] EXCEPT !.cust = txs'[i].cust,
                                            !.reversed = @ \/ txs'[i].reversed]]_vars
    <2> SUFFICES ASSUME RowInv, [Next]_vars, NEW i \in TxIds, Posted(i)
                 PROVE  Keeps(i)
      BY DEF Keeps
    <2>1. QED
      BY StepInserts DEF Inserts
  <1>2. QED
    BY <1>1, RowInvariance, PTL DEF Spec, RowsAreImmutable
LEMMA NewDebtWithinTerms ==
    ASSUME RowInv, [Next]_vars, NEW i \in TxIds,
           ~Posted(i), txs'[i] # NoTx, txs'[i].type = "DEBT"
    PROVE  LET c == txs'[i].cust IN row[c].active /\ row'[c].balance <= row[c].limit
  <1> DEFINE Goal == row[txs'[i].cust].active
                        /\ row'[txs'[i].cust].balance <= row[txs'[i].cust].limit
  <1>1. txs \in [TxIds -> Tx \cup {NoTx}] /\ row \in [Customers -> Row]
    BY DEF RowInv, Inv, TypeOK
  <1>2. ~ UNCHANGED txs
    BY DEF Posted
  <1>3. ASSUME NEW p \in Procs, PostDebt(p) PROVE Goal
    <2> DEFINE r == req[p]
    <2>1. /\ r.key \in Keys /\ r.cust \in Customers /\ ~Posted(<<r.key, 0>>)
          /\ row[r.cust].active /\ row[r.cust].balance + r.amount <= row[r.cust].limit
          /\ txs' = [txs EXCEPT ![<<r.key, 0>>] = New("DEBT", r.cust, r.amount, NoTx)]
          /\ row' = [row EXCEPT ![r.cust].balance = row[r.cust].balance + r.amount]
      BY <1>3, DebtStep DEF RowInv
    <2>2. i = <<r.key, 0>>
      BY <1>1, <2>1 DEF Posted
    <2>3. txs'[i].cust = r.cust
      BY <1>1, <2>1, <2>2 DEF New
    <2>4. row'[r.cust].balance = row[r.cust].balance + r.amount
      BY <1>1, <2>1 DEF Row
    <2>5. QED
      BY <2>1, <2>3, <2>4
  <1>4. ASSUME NEW p \in Procs, NEW k \in Keys, NEW t, t.type # "DEBT",
               txs' = [txs EXCEPT ![<<k, 0>>] = t]
        PROVE  FALSE
    BY <1>1, <1>4 DEF Posted
  <1>5. ASSUME NEW p \in Procs, PostPayment(p) PROVE FALSE
    <2> DEFINE t == New("PAYMENT", req[p].cust, Lesser(req[p].amount, row[req[p].cust].balance), NoTx)
    <2>1. req[p].key \in Keys /\ txs' = [txs EXCEPT ![<<req[p].key, 0>>] = t]
      BY <1>5, PaymentStep DEF RowInv
    <2>2. t.type = "PAYMENT"
      BY DEF New
    <2> HIDE DEF t
    <2>3. QED
      BY <1>4, <2>1, <2>2
  <1>6. ASSUME NEW p \in Procs, PostForgiveness(p) PROVE FALSE
    <2> DEFINE t == New("FORGIVENESS", req[p].cust, row[req[p].cust].balance, NoTx)
    <2>1. req[p].key \in Keys /\ txs' = [txs EXCEPT ![<<req[p].key, 0>>] = t]
      BY <1>6, ForgivenessStep DEF RowInv
    <2>2. t.type = "FORGIVENESS"
      BY DEF New
    <2> HIDE DEF t
    <2>3. QED
      BY <1>4, <2>1, <2>2
  <1>7. ASSUME NEW p \in Procs, PostMixedPayment(p) PROVE FALSE
    <2> DEFINE k == req[p].key
    <2>1. Inserts({<<k, 0>>, <<k, 1>>})
          /\ txs'[<<k, 0>>].type = "PAYMENT" /\ txs'[<<k, 1>>].type = "PAYMENT"
      BY <1>7, MixedInserts
    <2> HIDE DEF k
    <2>2. QED
      BY <2>1 DEF Inserts
  <1>8. ASSUME NEW p \in Procs, PostReversal(p) PROVE FALSE
    <2> DEFINE k == req[p].key
               t == New("REVERSAL", original[p].cust, original[p].amount, req[p].of)
    <2>1. Inserts({<<k, 0>>}) /\ txs'[<<k, 0>>] = t
      BY <1>8, ReversalInserts
    <2>2. t.type = "REVERSAL"
      BY DEF New
    <2> HIDE DEF k, t
    <2>3. QED
      BY <2>1, <2>2 DEF Inserts
  <1>9. ASSUME NEW p \in Procs, PostInflation(p) PROVE FALSE
    <2> DEFINE k == req[p].key
               charged == Charged(req[p].pct)
               N == BatchIds(k, charged)
    <2>1. Inserts(N) /\ \A c \in charged :
            txs'[<<k, c>>] = New("INFLATION", c, Surcharge(row[c].balance, req[p].pct), NoTx)
      BY <1>9, InflationInserts
    <2>2. i \in N
      <3> HIDE DEF N
      <3>1. QED
        BY <2>1 DEF Inserts
    <2>3. PICK c \in charged : i = <<k, c>>
      BY <2>2 DEF BatchIds
    <2>4. txs'[i] = New("INFLATION", c, Surcharge(row[c].balance, req[p].pct), NoTx)
      BY <2>1, <2>3
    <2>5. QED
      BY <2>4 DEF New
  <1>10. ASSUME NEW p \in Procs, MergeCustomers(p) PROVE FALSE
    BY <1>10, MergeInserts DEF Inserts
  <1> HIDE DEF Goal
  <1>11. Goal
    BY <1>2, <1>3, <1>5, <1>6, <1>7, <1>8, <1>9, <1>10, TableSteps
       DEF db, SetCreditLimit, SaveUpdate
  <1>12. QED
    BY <1>11 DEF Goal

\* A debt is posted only to a customer who is active and within the limit in
\* force at the commit, never to the customer of an earlier, unlocked read.
THEOREM DebtsStayWithinTerms == Spec => DebtWithinTerms
  <1>1. RowInv /\ [Next]_vars =>
            [\A i \in TxIds :
                ~Posted(i) /\ txs'[i] # NoTx /\ txs'[i].type = "DEBT" =>
                    LET c == txs'[i].cust IN
                    row[c].active /\ row'[c].balance <= row[c].limit]_vars
    BY NewDebtWithinTerms
  <1>2. QED
    BY <1>1, RowInvariance, PTL DEF Spec, DebtWithinTerms
-----------------------------------------------------------------------------
(* A batch is posted completely and once, or not at all. *)

BatchRows(k) == {c \in Customers : Posted(<<k, c>>)}
Whole(k) ==
    IF batches[k] = NoTx
    THEN BatchRows(k) = {}
    ELSE /\ Cardinality(BatchRows(k)) <= batches[k].affected
         /\ batches[k].total = SumFunction([c \in BatchRows(k) |-> txs[<<k, c>>].amount])

LEMMA OtherStepsKeepBatches ==
    ASSUME RowInv, [Next]_vars, \A p \in Procs : ~PostInflation(p)
    PROVE  /\ UNCHANGED batches
           /\ \E N : Inserts(N) /\ \A k \in BatchKeys, c \in Customers : <<k, c>> \notin N
  <1>1. CASE UNCHANGED <<txs, batches>>
    <2>1. Inserts({})
      BY <1>1, UnchangedInserts DEF RowInv
    <2>2. QED
      BY <1>1, <2>1
  <1>2. ASSUME NEW p \in Procs, PostDebt(p) \/ PostPayment(p) \/ PostForgiveness(p)
        PROVE  /\ UNCHANGED batches
               /\ \E N : Inserts(N) /\ \A k \in BatchKeys, c \in Customers : <<k, c>> \notin N
    <2>1. req[p].key \in Keys /\ Inserts({<<req[p].key, 0>>}) /\ UNCHANGED batches
      BY <1>2, SingleInserts
    <2>2. \A k \in BatchKeys, c \in Customers : <<k, c>> \notin {<<req[p].key, 0>>}
      BY <2>1, KeysAssumption
    <2>3. QED
      BY <2>1, <2>2
  <1>3. ASSUME NEW p \in Procs, PostMixedPayment(p)
        PROVE  /\ UNCHANGED batches
               /\ \E N : Inserts(N) /\ \A k \in BatchKeys, c \in Customers : <<k, c>> \notin N
    <2>1. req[p].key \in Keys /\ Inserts({<<req[p].key, 0>>, <<req[p].key, 1>>})
      BY <1>3, MixedInserts
    <2>2. \A k \in BatchKeys, c \in Customers :
            <<k, c>> \notin {<<req[p].key, 0>>, <<req[p].key, 1>>}
      BY <2>1, KeysAssumption
    <2>3. QED
      BY <1>3, <2>1, <2>2 DEF PostMixedPayment
  <1>4. ASSUME NEW p \in Procs, PostReversal(p)
        PROVE  /\ UNCHANGED batches
               /\ \E N : Inserts(N) /\ \A k \in BatchKeys, c \in Customers : <<k, c>> \notin N
    <2>1. req[p].key \in Keys /\ Inserts({<<req[p].key, 0>>})
      BY <1>4, ReversalInserts
    <2>2. \A k \in BatchKeys, c \in Customers : <<k, c>> \notin {<<req[p].key, 0>>}
      BY <2>1, KeysAssumption
    <2>3. QED
      BY <1>4, <2>1, <2>2 DEF PostReversal
  <1>5. ASSUME NEW p \in Procs, MergeCustomers(p)
        PROVE  /\ UNCHANGED batches
               /\ \E N : Inserts(N) /\ \A k \in BatchKeys, c \in Customers : <<k, c>> \notin N
    <2>1. Inserts({})
      BY <1>5, MergeInserts
    <2>2. QED
      BY <1>5, <2>1 DEF MergeCustomers
  <1>6. QED
    BY <1>1, <1>2, <1>3, <1>4, <1>5, TableSteps DEF db, SetCreditLimit, SaveUpdate

LEMMA KeptBatchStaysWhole ==
    ASSUME NEW k \in BatchKeys, Whole(k), batches'[k] = batches[k],
           \A c \in Customers :
              IF Posted(<<k, c>>)
              THEN txs'[<<k, c>>] # NoTx /\ txs'[<<k, c>>].amount = txs[<<k, c>>].amount
              ELSE txs'[<<k, c>>] = NoTx
    PROVE  Whole(k)'
  <1>1. BatchRows(k)' = BatchRows(k)
    BY DEF BatchRows, Posted
  <1>2. [c \in BatchRows(k) |-> txs'[<<k, c>>].amount]
            = [c \in BatchRows(k) |-> txs[<<k, c>>].amount]
    BY DEF BatchRows
  <1>3. QED
    BY <1>1, <1>2 DEF Whole

LEMMA KeepsAmount ==
    ASSUME Inv, NEW i \in TxIds, Posted(i), Keeps(i)
    PROVE  /\ txs'[i] # NoTx
           /\ txs'[i].amount = txs[i].amount
           /\ txs'[i].type = txs[i].type
           /\ txs'[i].of = txs[i].of
  <1>1. txs[i] \in Tx
    BY PostedType
  <1>2. QED
    BY <1>1 DEF Keeps, Tx

LEMMA InflationIsWhole ==
    ASSUME RowInv, NEW p \in Procs, PostInflation(p), \A k \in BatchKeys : Whole(k)
    PROVE  \A k \in BatchKeys : Whole(k)'
  <1> PICK k \in BatchKeys : k = req[p].key
    BY InflationInserts
  <1> DEFINE pct == req[p].pct
             charged == Charged(pct)
             debtors == {c \in Customers : row[c].balance > 0}
             up(c) == Surcharge(row[c].balance, pct)
             f == [c \in charged |-> up(c)]
  <1>1. /\ k \in BatchKeys /\ batches[k] = NoTx /\ charged \subseteq Customers
        /\ \A c \in charged :
                <<k, c>> \in TxIds /\ txs'[<<k, c>>] = New("INFLATION", c, up(c), NoTx)
        /\ \A i \in TxIds \ BatchIds(k, charged) : txs'[i] = txs[i]
        /\ Inserts(BatchIds(k, charged))
    BY InflationInserts
  <1>2. /\ batches'[k] = [affected |-> Cardinality(debtors), total |-> SumFunction(f)]
        /\ batches'[k] # NoTx
        /\ \A b \in BatchKeys \ {k} : batches'[b] = batches[b]
    BY InflationSeals DEF RowInv
  <1>3. charged \subseteq debtors /\ IsFiniteSet(debtors)
    <2>1. debtors \subseteq Customers /\ charged \subseteq debtors
      BY DEF Charged
    <2>2. QED
      BY <2>1, CustomersAssumption, FS_Subset
  <1> HIDE DEF charged, debtors, up
  <1>4. Cardinality(charged) <= Cardinality(debtors)
    BY <1>3, FS_Subset
  <1>5. \A b \in BatchKeys, c \in Customers : <<b, c>> \in TxIds
    BY DEF TxIds
  <1>6. Whole(k)'
    <2>1. \A c \in Customers \ charged : txs'[<<k, c>>] = NoTx
      <3> TAKE c \in Customers \ charged
      <3>1. <<k, c>> \notin BatchIds(k, charged)
        BY DEF BatchIds
      <3>2. ~Posted(<<k, c>>)
        BY <1>1 DEF Whole, BatchRows
      <3>3. QED
        BY <1>1, <1>5, <3>1, <3>2 DEF Posted
    <2>2. \A c \in charged : txs'[<<k, c>>] # NoTx /\ txs'[<<k, c>>].amount = up(c)
      <3> TAKE c \in charged
      <3>1. txs'[<<k, c>>] \in Tx
        BY <1>1 DEF Inserts, BatchIds
      <3>2. txs'[<<k, c>>] = New("INFLATION", c, up(c), NoTx)
        BY <1>1
      <3>3. New("INFLATION", c, up(c), NoTx).amount = up(c)
        BY DEF New
      <3>4. QED
        BY <3>1, <3>2, <3>3, NoTxAssumption
    <2>3. BatchRows(k)' = charged
      <3>1. charged \subseteq Customers
        BY <1>1
      <3>2. QED
        BY <2>1, <2>2, <3>1 DEF BatchRows, Posted
    <2>4. [c \in BatchRows(k)' |-> txs'[<<k, c>>].amount] = f
      BY <2>2, <2>3
    <2> HIDE DEF f
    <2>5. /\ batches'[k].affected = Cardinality(debtors)
          /\ batches'[k].total = SumFunction(f)
      BY <1>2
    <2>6. QED
      BY <1>2, <1>4, <2>3, <2>4, <2>5 DEF Whole
  <1>7. ASSUME NEW b \in BatchKeys \ {k} PROVE Whole(b)'
    <2>1. \A c \in Customers : txs'[<<b, c>>] = txs[<<b, c>>]
      <3> TAKE c \in Customers
      <3>1. <<b, c>> \notin BatchIds(k, charged)
        BY DEF BatchIds
      <3>2. QED
        BY <1>1, <1>5, <3>1
    <2>2. QED
      BY <1>2, <2>1, KeptBatchStaysWhole DEF Posted
  <1>8. QED
    BY <1>1, <1>6, <1>7

LEMMA NextKeepsBatchesWhole ==
    ASSUME RowInv, [Next]_vars, \A k \in BatchKeys : Whole(k)
    PROVE  \A k \in BatchKeys : Whole(k)'
  <1>1. CASE \A p \in Procs : ~PostInflation(p)
    <2> TAKE k \in BatchKeys
    <2>1. PICK N : Inserts(N) /\ \A b \in BatchKeys, c \in Customers : <<b, c>> \notin N
      BY <1>1, OtherStepsKeepBatches
    <2>2. \A c \in Customers :
              IF Posted(<<k, c>>)
              THEN txs'[<<k, c>>] # NoTx /\ txs'[<<k, c>>].amount = txs[<<k, c>>].amount
              ELSE txs'[<<k, c>>] = NoTx
      <3> TAKE c \in Customers
      <3>1. <<k, c>> \in TxIds \ N
        BY <2>1 DEF TxIds
      <3>2. QED
        BY <2>1, <3>1, KeepsAmount DEF Inserts, RowInv
    <2>3. batches' = batches
      BY <1>1, OtherStepsKeepBatches
    <2>4. QED
      BY <2>2, <2>3, KeptBatchStaysWhole
  <1>2. QED
    BY <1>1, InflationIsWhole

\* Every surcharge row belongs to a sealed batch and the seal is the sum of its
\* rows, whatever merges, retries and annulments have done to them since.
THEOREM BatchesAreWhole == Spec => []BatchIsAllOrNothing
  <1> DEFINE AllWhole == \A k \in BatchKeys : Whole(k)
  <1>1. Init => AllWhole
    <2> SUFFICES ASSUME Init, NEW k \in BatchKeys PROVE Whole(k)
      OBVIOUS
    <2>1. \A c \in Customers : <<k, c>> \in TxIds
      BY DEF TxIds
    <2>2. QED
      BY <2>1 DEF Init, Whole, BatchRows, Posted
  <1>2. RowInv /\ AllWhole /\ [Next]_vars => AllWhole'
    BY NextKeepsBatchesWhole
  <1>3. AllWhole => BatchIsAllOrNothing
    BY DEF BatchIsAllOrNothing, Whole, BatchRows
  <1> HIDE DEF AllWhole
  <1>4. QED
    BY <1>1, <1>2, <1>3, RowInvariance, PTL DEF Spec
-----------------------------------------------------------------------------
(* Balances are sums of rows. *)

LEMMA SumOfTable ==
    ASSUME NEW S, IsFiniteSet(S), NEW f, NEW g, g = [x \in S |-> f[x]]
    PROVE  SumFunction(g) = SumFunctionOnSet(f, S)
  <1>1. SumFunction(g) = SumFunctionOnSet(g, S)
    BY DEF SumFunction
  <1>2. QED
    BY <1>1, SumOfEqual

LEMMA SumOfOne ==
    ASSUME NEW f, NEW x, f[x] \in Int
    PROVE  SumFunctionOnSet(f, {x}) = f[x]
  <1>1. SumFunctionOnSet(f, {x}) = f[x] + SumFunctionOnSet(f, {x} \ {x})
    BY FS_Singleton, SumTakes
  <1>2. {x} \ {x} = {}
    OBVIOUS
  <1>3. QED
    BY <1>1, <1>2, SumOfNothing

LEMMA EffectType ==
    ASSUME Inv, NEW i \in TxIds, Posted(i)
    PROVE  Effect(i) \in Int
  <1>1. txs[i].amount \in Int
    BY PostedType DEF Tx, Cents
  <1>2. QED
    BY <1>1 DEF Effect

\* What a row did to its customer's balance is settled when it is posted.
LEMMA EffectKept ==
    ASSUME RowInv, NEW N, Inserts(N), NEW i \in TxIds, Posted(i)
    PROVE  Effect(i)' = Effect(i)
  <1>1. \A j \in TxIds : Posted(j) =>
            /\ txs'[j].amount = txs[j].amount
            /\ txs'[j].type = txs[j].type
            /\ txs'[j].of = txs[j].of
    BY KeepsAmount DEF RowInv, Inserts
  <1>2. txs[i].type = "REVERSAL" => txs[i].of \in TxIds /\ Posted(txs[i].of)
    BY DEF RowInv, RowsInv
  <1>3. CASE txs[i].type = "REVERSAL"
    <2>1. txs'[txs[i].of].type = txs[txs[i].of].type
      BY <1>1, <1>2, <1>3
    <2>2. QED
      BY <1>1, <2>1 DEF Effect
  <1>4. CASE txs[i].type # "REVERSAL"
    BY <1>1, <1>4 DEF Effect
  <1>5. QED
    BY <1>3, <1>4

LEMMA RowsOfFinite ==
    ASSUME RowInv, NEW c
    PROVE  IsFiniteSet(RowsOf(c)) /\ LedgerSum(c) \in Int
           /\ LedgerSum(c) = SumFunctionOnSet([i \in TxIds |-> Effect(i)], RowsOf(c))
  <1> DEFINE f == [i \in TxIds |-> Effect(i)]
  <1>1. IsFiniteSet(RowsOf(c))
    <2>1. RowsOf(c) \subseteq PostedIds
      BY DEF RowsOf, PostedIds
    <2>2. QED
      BY <2>1, FS_Subset DEF RowInv, RowsInv
  <1>2. [i \in RowsOf(c) |-> Effect(i)] = [i \in RowsOf(c) |-> f[i]]
    BY DEF RowsOf
  <1>3. \A i \in RowsOf(c) : f[i] \in Int
    BY EffectType DEF RowsOf, RowInv
  <1> HIDE DEF f
  <1>4. LedgerSum(c) = SumFunctionOnSet(f, RowsOf(c))
    BY <1>1, <1>2, SumOfTable DEF LedgerSum
  <1>5. LedgerSum(c) \in Int
    BY <1>1, <1>3, <1>4, SumType
  <1>6. QED
    BY <1>1, <1>4, <1>5 DEF f

\* A step that posts the rows of N adds their effects to the sums.
LEMMA LedgerSumGrows ==
    ASSUME RowInv, NEW N, Inserts(N), NEW c \in Customers,
           \A i \in TxIds : Posted(i) => txs'[i].cust = txs[i].cust
    PROVE  LedgerSum(c)' = LedgerSum(c) +
                SumFunctionOnSet([i \in TxIds |-> Effect(i)'], {i \in N : txs'[i].cust = c})
  <1> DEFINE f == [i \in TxIds |-> Effect(i)]
             g == [i \in TxIds |-> Effect(i)']
             M == {i \in N : txs'[i].cust = c}
             R == RowsOf(c)
  <1>1. IsFiniteSet(R) /\ LedgerSum(c) = SumFunctionOnSet(f, R)
    BY RowsOfFinite
  <1>2. R \subseteq TxIds /\ N \subseteq TxIds /\ IsFiniteSet(M) /\ R \cap M = {}
    <2>1. IsFiniteSet(M)
      BY FS_Subset DEF Inserts
    <2>2. QED
      BY <2>1 DEF Inserts, RowsOf
  <1>3. RowsOf(c)' = R \cup M
    BY NoTxAssumption DEF RowsOf, Posted, Inserts, Keeps
  <1>4. \A i \in R : g[i] = f[i] /\ g[i] \in Int
    BY <1>2, EffectKept, EffectType DEF RowInv, RowsOf
  <1>5. \A i \in M : g[i] \in Int
    <2> TAKE i \in M
    <2>1. txs'[i].amount \in Int /\ i \in TxIds
      BY DEF Inserts, Tx, Cents
    <2>2. QED
      BY <2>1 DEF Effect
  <1>6. [i \in R \cup M |-> Effect(i)'] = [i \in R \cup M |-> g[i]]
    BY <1>2
  <1>7. LedgerSum(c)' = SumFunction([i \in R \cup M |-> Effect(i)'])
    BY <1>3 DEF LedgerSum
  <1> HIDE DEF f, g, M, R
  <1>8. LedgerSum(c)' = SumFunctionOnSet(g, R \cup M)
    BY <1>1, <1>2, <1>6, <1>7, FS_Union, SumOfTable
  <1>9. SumFunctionOnSet(g, R \cup M) = SumFunctionOnSet(g, R) + SumFunctionOnSet(g, M)
    BY <1>1, <1>2, <1>4, <1>5, SumOfUnion
  <1>10. SumFunctionOnSet(g, R) = SumFunctionOnSet(f, R)
    BY <1>1, <1>4, SumOfEqual
  <1>11. QED
    BY <1>1, <1>8, <1>9, <1>10 DEF g, M

LEMMA OneRowGrows ==
    ASSUME RowInv, NEW N, Inserts(N), NEW c \in Customers,
           \A i \in TxIds : Posted(i) => txs'[i].cust = txs[i].cust,
           NEW i0 \in N, \A i \in N : txs'[i].cust = c => i = i0
    PROVE  /\ txs'[i0].cust = c => LedgerSum(c)' = LedgerSum(c) + Effect(i0)'
           /\ txs'[i0].cust # c => LedgerSum(c)' = LedgerSum(c)
  <1> DEFINE g == [i \in TxIds |-> Effect(i)']
             M == {i \in N : txs'[i].cust = c}
  <1>1. LedgerSum(c)' = LedgerSum(c) + SumFunctionOnSet(g, M) /\ LedgerSum(c) \in Int
    BY LedgerSumGrows, RowsOfFinite
  <1>2. txs'[i0].cust = c => M = {i0}
    OBVIOUS
  <1>3. txs'[i0].cust # c => M = {}
    OBVIOUS
  <1>4. g[i0] = Effect(i0)' /\ Effect(i0)' \in Int
    <2>1. txs'[i0].amount \in Int /\ i0 \in TxIds
      BY DEF Inserts, Tx, Cents
    <2>2. QED
      BY <2>1 DEF Effect
  <1> HIDE DEF g, M
  <1>5. CASE txs'[i0].cust = c
    BY <1>1, <1>2, <1>4, <1>5, SumOfOne
  <1>6. CASE txs'[i0].cust # c
    BY <1>1, <1>3, <1>6, SumOfNothing
  <1>7. QED
    BY <1>5, <1>6
\* The sum of the rows of c and the balance of c move together.
Moves(c) ==
    \E d \in Int : LedgerSum(c)' = LedgerSum(c) + d /\ row'[c].balance = row[c].balance + d

LEMMA BalanceType ==
    ASSUME Inv, NEW c \in Customers
    PROVE  row[c] \in Row /\ row[c].balance \in Nat
  <1>1. row[c] \in Row /\ row[c].balance \in Cents
    BY DEF Inv, TypeOK, Row
  <1>2. QED
    BY <1>1, AmountsAssumption DEF Cents

LEMMA StillMoves ==
    ASSUME RowInv, NEW c \in Customers,
           LedgerSum(c)' = LedgerSum(c), row'[c].balance = row[c].balance
    PROVE  Moves(c)
  <1>1. LedgerSum(c) \in Int /\ row[c].balance \in Int
    <2>1. LedgerSum(c) \in Int
      BY RowsOfFinite
    <2>2. row[c].balance \in Nat
      BY BalanceType DEF RowInv
    <2>3. QED
      BY <2>1, <2>2
  <1>2. LedgerSum(c)' = LedgerSum(c) + 0 /\ row'[c].balance = row[c].balance + 0
    BY <1>1
  <1>3. QED
    BY <1>2 DEF Moves

LEMMA OneRowMoves ==
    ASSUME RowInv, NEW k \in Keys, ~Posted(<<k, 0>>), NEW c0 \in Customers,
           NEW type \in TxTypes \ {"REVERSAL"}, NEW amount \in Cents, NEW d,
           d = IF type \in Charges THEN amount ELSE 0 - amount,
           txs' = [txs EXCEPT ![<<k, 0>>] = New(type, c0, amount, NoTx)],
           row' = [row EXCEPT ![c0].balance = row[c0].balance + d]
    PROVE  \A c \in Customers : Moves(c)
  <1> DEFINE i0 == <<k, 0>>
             t == New(type, c0, amount, NoTx)
  <1>1. t \in Tx /\ t.type = type /\ t.cust = c0 /\ t.amount = amount
    BY NewType DEF New
  <1>2. i0 \in TxIds /\ txs \in [TxIds -> Tx \cup {NoTx}] /\ row \in [Customers -> Row]
    BY KeyTxIds DEF RowInv, Inv, TypeOK
  <1> HIDE DEF t
  <1>3. Inserts({i0}) /\ txs'[i0] = t
    BY <1>1, OneInserts DEF RowInv, t
  <1>4. \A i \in TxIds : Posted(i) => txs'[i].cust = txs[i].cust
    <2>1. txs' = [txs EXCEPT ![i0] = t]
      BY DEF t
    <2>2. QED
      BY <1>2, <2>1
  <1>5. Effect(i0)' = d
    BY <1>1, <1>3 DEF Effect
  <1>6. d \in Int
    BY DEF Cents
  <1> HIDE DEF i0
  <1> TAKE c \in Customers
  <1>7. CASE c = c0
    <2>1. LedgerSum(c)' = LedgerSum(c) + d
      BY <1>1, <1>3, <1>4, <1>5, <1>7, OneRowGrows
    <2>2. row'[c].balance = row[c].balance + d
      BY <1>2, <1>7 DEF Row
    <2>3. QED
      BY <1>6, <2>1, <2>2 DEF Moves
  <1>8. CASE c # c0
    <2>1. LedgerSum(c)' = LedgerSum(c)
      BY <1>1, <1>3, <1>4, <1>8, OneRowGrows
    <2>2. row'[c].balance = row[c].balance
      BY <1>2, <1>8
    <2>3. QED
      BY <2>1, <2>2, StillMoves
  <1>9. QED
    BY <1>7, <1>8

LEMMA SingleMoves ==
    ASSUME RowInv, NEW p \in Procs, PostDebt(p) \/ PostPayment(p) \/ PostForgiveness(p)
    PROVE  \A c \in Customers : Moves(c)
  <1> DEFINE k == req[p].key
             c0 == req[p].cust
             b == row[c0].balance
  <1>1. CASE PostDebt(p)
    <2> DEFINE d == req[p].amount
    <2>1. /\ k \in Keys /\ ~Posted(<<k, 0>>) /\ c0 \in Customers /\ d \in Cents
          /\ txs' = [txs EXCEPT ![<<k, 0>>] = New("DEBT", c0, d, NoTx)]
          /\ row' = [row EXCEPT ![c0].balance = b + d]
      BY <1>1, DebtStep DEF RowInv
    <2>2. d = IF "DEBT" \in Charges THEN d ELSE 0 - d
      BY DEF Charges
    <2>3. "DEBT" \in TxTypes \ {"REVERSAL"}
      BY DEF TxTypes
    <2> HIDE DEF k, c0, d
    <2>4. QED
      BY <2>1, <2>2, <2>3, OneRowMoves
  <1>2. CASE PostPayment(p)
    <2> DEFINE paid == Lesser(req[p].amount, b)
               d == 0 - paid
    <2>1. /\ k \in Keys /\ ~Posted(<<k, 0>>) /\ c0 \in Customers /\ paid \in Cents
          /\ txs' = [txs EXCEPT ![<<k, 0>>] = New("PAYMENT", c0, paid, NoTx)]
          /\ row' = [row EXCEPT ![c0].balance = b - paid]
      BY <1>2, PaymentStep DEF RowInv
    <2>2. b \in Nat
      BY <2>1, BalanceType DEF RowInv
    <2> HIDE DEF k, c0, b, paid
    <2>3. d = IF "PAYMENT" \in Charges THEN paid ELSE 0 - paid
      BY DEF Charges
    <2>4. row' = [row EXCEPT ![c0].balance = row[c0].balance + d]
      <3>1. b - paid = b + d
        BY <2>1, <2>2 DEF Cents
      <3>2. QED
        BY <2>1, <3>1 DEF b
    <2>5. "PAYMENT" \in TxTypes \ {"REVERSAL"}
      BY DEF TxTypes
    <2> HIDE DEF d
    <2>6. QED
      BY <2>1, <2>3, <2>4, <2>5, OneRowMoves
  <1>3. CASE PostForgiveness(p)
    <2> DEFINE d == 0 - b
    <2>1. /\ k \in Keys /\ ~Posted(<<k, 0>>) /\ c0 \in Customers /\ b \in Cents
          /\ txs' = [txs EXCEPT ![<<k, 0>>] = New("FORGIVENESS", c0, b, NoTx)]
          /\ row' = [row EXCEPT ![c0].balance = 0]
      BY <1>3, ForgivenessStep DEF RowInv
    <2> HIDE DEF k, c0, b
    <2>2. d = IF "FORGIVENESS" \in Charges THEN b ELSE 0 - b
      BY DEF Charges
    <2>3. row' = [row EXCEPT ![c0].balance = row[c0].balance + d]
      <3>1. 0 = b + d
        BY <2>1 DEF Cents
      <3>2. QED
        BY <2>1, <3>1 DEF b
    <2>4. "FORGIVENESS" \in TxTypes \ {"REVERSAL"}
      BY DEF TxTypes
    <2> HIDE DEF d
    <2>5. QED
      BY <2>1, <2>2, <2>3, <2>4, OneRowMoves
  <1>4. QED
    BY <1>1, <1>2, <1>3

LEMMA MixedMoves ==
    ASSUME RowInv, NEW p \in Procs, PostMixedPayment(p)
    PROVE  \A c \in Customers : Moves(c)
  <1> DEFINE k == req[p].key
             c0 == req[p].cust
             b == row[c0].balance
             cash == CashPart(req[p].cash, req[p].transfer, b)
             transfer == TransferPart(req[p].cash, req[p].transfer, b)
             i0 == <<k, 0>>
             i1 == <<k, 1>>
             N == {i0, i1}
             d == (0 - cash) + (0 - transfer)
             g == [i \in TxIds |-> Effect(i)']
  <1>1. /\ k \in Keys /\ c0 \in Customers /\ cash \in Cents /\ transfer \in Cents
        /\ txs' = [txs EXCEPT ![i0] = New("PAYMENT", c0, cash, NoTx),
                              ![i1] = New("PAYMENT", c0, transfer, NoTx)]
        /\ row' = [row EXCEPT ![c0].balance = b - (cash + transfer)]
    BY MixedPaymentStep DEF RowInv
  <1>2. Inserts(N)
    BY MixedInserts
  <1> HIDE DEF c0, b, cash, transfer
  <1>3. /\ i0 \in TxIds /\ i1 \in TxIds /\ i0 # i1
        /\ txs \in [TxIds -> Tx \cup {NoTx}] /\ row \in [Customers -> Row]
    BY <1>1, KeyTxIds DEF RowInv, Inv, TypeOK
  <1> HIDE DEF k
  <1>4. /\ txs'[i0] = New("PAYMENT", c0, cash, NoTx)
        /\ txs'[i1] = New("PAYMENT", c0, transfer, NoTx)
        /\ \A i \in TxIds \ N : txs'[i] = txs[i]
    BY <1>1, <1>3
  <1>5. txs'[i0].cust = c0 /\ txs'[i1].cust = c0
    BY <1>4 DEF New
  <1>6. g[i0] = 0 - cash /\ g[i1] = 0 - transfer
    <2>1. /\ txs'[i0].type = "PAYMENT" /\ txs'[i0].amount = cash
          /\ txs'[i1].type = "PAYMENT" /\ txs'[i1].amount = transfer
      BY <1>4 DEF New
    <2> HIDE DEF i0, i1
    <2>2. QED
      BY <1>3, <2>1 DEF Effect, Charges
  <1> HIDE DEF i0, i1
  <1>7. \A i \in TxIds : Posted(i) => txs'[i].cust = txs[i].cust
    BY <1>2, <1>4 DEF Inserts
  <1> HIDE DEF g
  <1>8. SumFunctionOnSet(g, N) = d
    <2>1. g[i0] \in Int /\ g[i1] \in Int
      BY <1>1, <1>6 DEF Cents
    <2>2. N \ {i0} = {i1} /\ IsFiniteSet(N) /\ i0 \in N /\ \A x \in N : g[x] \in Int
      BY <1>2, <1>3, <2>1 DEF Inserts
    <2> HIDE DEF N
    <2>3. SumFunctionOnSet(g, N) = g[i0] + SumFunctionOnSet(g, {i1})
      BY <2>2, SumTakes
    <2>4. QED
      BY <1>6, <2>1, <2>3, SumOfOne
  <1>9. d \in Int /\ b \in Nat /\ b - (cash + transfer) = b + d
    <2>1. b \in Nat
      BY <1>1, BalanceType DEF RowInv, b
    <2>2. QED
      BY <1>1, <2>1 DEF Cents
  <1> HIDE DEF d
  <1> TAKE c \in Customers
  <1> DEFINE M == {i \in N : txs'[i].cust = c}
  <1>10. LedgerSum(c)' = LedgerSum(c) + SumFunctionOnSet(g, M) /\ LedgerSum(c) \in Int
    <2> HIDE DEF N
    <2>1. QED
      BY <1>2, <1>7, LedgerSumGrows, RowsOfFinite DEF g
  <1>11. CASE c = c0
    <2>1. M = N
      BY <1>5, <1>11
    <2> HIDE DEF M, N
    <2>2. LedgerSum(c)' = LedgerSum(c) + d
      BY <1>8, <1>10, <2>1
    <2>3. row'[c].balance = row[c].balance + d
      BY <1>1, <1>3, <1>9, <1>11 DEF Row, b
    <2>4. QED
      BY <1>9, <2>2, <2>3 DEF Moves
  <1>12. CASE c # c0
    <2>1. M = {}
      BY <1>5, <1>12
    <2> HIDE DEF M, N
    <2>2. LedgerSum(c)' = LedgerSum(c)
      BY <1>10, <2>1, SumOfNothing
    <2>3. row'[c].balance = row[c].balance
      BY <1>1, <1>3, <1>12
    <2>4. QED
      BY <2>2, <2>3, StillMoves
  <1>13. QED
    BY <1>11, <1>12

LEMMA InflationMoves ==
    ASSUME RowInv, NEW p \in Procs, PostInflation(p)
    PROVE  \A c \in Customers : Moves(c)
  <1> DEFINE k == req[p].key
             pct == req[p].pct
             charged == Charged(pct)
             up(c) == Surcharge(row[c].balance, pct)
             N == BatchIds(k, charged)
  <1>1. /\ k \in BatchKeys /\ charged \subseteq Customers
        /\ Inserts(N)
        /\ \A c \in charged : <<k, c>> \in TxIds /\ txs'[<<k, c>>] = New("INFLATION", c, up(c), NoTx)
        /\ \A i \in TxIds \ N : txs'[i] = txs[i]
    BY InflationInserts
  <1>2. /\ \A c \in charged : up(c) \in Cents
        /\ row' = [c \in Customers |->
                        IF c \in charged
                        THEN [row[c] EXCEPT !.balance = row[c].balance + up(c)]
                        ELSE row[c]]
    BY InflationStep DEF RowInv
  <1>3. row \in [Customers -> Row]
    BY DEF RowInv, Inv, TypeOK
  <1> HIDE DEF k, charged, up
  <1>4. \A c \in charged : /\ txs'[<<k, c>>].cust = c /\ txs'[<<k, c>>].type = "INFLATION"
                           /\ txs'[<<k, c>>].amount = up(c)
    <2> TAKE c \in charged
    <2>1. txs'[<<k, c>>] = New("INFLATION", c, up(c), NoTx)
      BY <1>1
    <2>2. QED
      BY <2>1 DEF New
  <1>5. \A i \in TxIds : Posted(i) => txs'[i].cust = txs[i].cust
    <2> HIDE DEF N
    <2>1. QED
      BY <1>1 DEF Inserts
  <1>6. \A i \in N, c \in charged : txs'[i].cust = c => i = <<k, c>>
    BY <1>4 DEF BatchIds
  <1>7. \A c \in charged : <<k, c>> \in N
    BY DEF BatchIds
  <1>8. \A i \in N : txs'[i].cust \in charged
    BY <1>4 DEF BatchIds
  <1> TAKE c \in Customers
  <1>9. CASE c \in charged
    <2> PICK i0 \in N : i0 = <<k, c>>
      BY <1>7, <1>9
    <2>1. txs'[i0].cust = c /\ \A i \in N : txs'[i].cust = c => i = i0
      BY <1>4, <1>6, <1>9
    <2>2. txs'[i0].type = "INFLATION" /\ txs'[i0].amount = up(c)
      BY <1>4, <1>9
    <2> HIDE DEF N
    <2>3. LedgerSum(c)' = LedgerSum(c) + Effect(i0)'
      BY <1>1, <1>5, <2>1, OneRowGrows
    <2>4. Effect(i0)' = up(c)
      BY <2>2 DEF Effect, Charges
    <2>5. row'[c].balance = row[c].balance + up(c)
      BY <1>2, <1>3, <1>9 DEF Row
    <2>6. up(c) \in Int
      BY <1>2, <1>9 DEF Cents
    <2>7. QED
      BY <2>3, <2>4, <2>5, <2>6 DEF Moves
  <1>10. CASE c \notin charged
    <2> DEFINE g == [i \in TxIds |-> Effect(i)']
               M == {i \in N : txs'[i].cust = c}
    <2>1. M = {}
      BY <1>8, <1>10
    <2>2. LedgerSum(c)' = LedgerSum(c) + SumFunctionOnSet(g, M) /\ LedgerSum(c) \in Int
      <3> HIDE DEF N
      <3>1. QED
        BY <1>1, <1>5, LedgerSumGrows, RowsOfFinite
    <2> HIDE DEF g, M
    <2>3. LedgerSum(c)' = LedgerSum(c)
      BY <2>1, <2>2, SumOfNothing
    <2>4. row'[c].balance = row[c].balance
      BY <1>2, <1>10
    <2>5. QED
      BY <2>3, <2>4, StillMoves
  <1>11. QED
    BY <1>9, <1>10
\* Steps other than reversals, merges and unlocked saves.
LEMMA OtherStepsMove ==
    ASSUME RowInv, [Next]_vars, Ops \cap UnlockedOps = {},
           \A p \in Procs : ~PostReversal(p) /\ ~MergeCustomers(p),
           NEW c \in Customers
    PROVE  Moves(c)
  <1>1. CASE UNCHANGED db
    <2>1. LedgerSum(c)' = LedgerSum(c) /\ row'[c].balance = row[c].balance
      BY <1>1 DEF db, LedgerSum, RowsOf, Posted, Effect
    <2>2. QED
      BY <2>1, StillMoves
  <1>2. ASSUME NEW p \in Procs, SetCreditLimit(p) PROVE Moves(c)
    <2>1. /\ req[p].cust \in Customers
          /\ row' = [row EXCEPT ![req[p].cust].limit = req[p].limit]
          /\ UNCHANGED <<txs, batches>>
      BY <1>2, LimitStep DEF RowInv
    <2>2. LedgerSum(c)' = LedgerSum(c)
      BY <2>1 DEF LedgerSum, RowsOf, Posted, Effect
    <2>3. row \in [Customers -> Row]
      BY DEF RowInv, Inv, TypeOK
    <2>4. row'[c].balance = row[c].balance
      BY <2>1, <2>3 DEF Row
    <2>5. QED
      BY <2>2, <2>4, StillMoves
  <1>3. ASSUME NEW p \in Procs, SaveUpdate(p) PROVE FALSE
    <2>1. req[p] \in Requests /\ req[p].op \in UnlockedOps
      BY <1>3, UnlockedHandler DEF SaveUpdate, RowInv
    <2>2. QED
      BY <2>1, RequestOps
  <1>4. QED
    BY <1>1, <1>2, <1>3, TableSteps, SingleMoves, MixedMoves, InflationMoves

\* A reversal changes one balance, by what its row says or, where it clamps, by less.
LEMMA ReversalClamps ==
    ASSUME RowInv, NEW p \in Procs, PostReversal(p)
    PROVE  \E i0 \in TxIds, o \in Tx :
            LET b == row[o.cust].balance IN
            /\ Inserts({i0}) /\ txs'[i0].cust = o.cust /\ Effect(i0)' \in Int
            /\ row' = [row EXCEPT ![o.cust].balance = Reverted(o, b)]
            /\ Reverted(o, b) \in Int /\ Reverted(o, b) >= b + Effect(i0)'
  <1> DEFINE k == req[p].key
  <1> PICK i0 \in TxIds : i0 = <<k, 0>>
    <2>1. k \in Keys
      BY ReversalStep DEF RowInv
    <2>2. QED
      BY <2>1, KeyTxIds
  <1> PICK of \in TxIds : of = req[p].of
    BY ReversalStep DEF RowInv
  <1> PICK o \in Tx : o = original[p]
    BY ReversalStep DEF RowInv
  <1> DEFINE b == row[o.cust].balance
  <1>1. /\ Posted(of) /\ Inserts({i0})
        /\ txs'[i0] = New("REVERSAL", o.cust, o.amount, of)
        /\ txs'[of] = Marked(o)
        /\ row' = [row EXCEPT ![o.cust].balance = Reverted(o, b)]
    BY ReversalStep, ReversalInserts DEF RowInv
  <1>2. /\ txs'[i0].type = "REVERSAL" /\ txs'[i0].cust = o.cust
        /\ txs'[i0].amount = o.amount /\ txs'[i0].of = of
    BY <1>1 DEF New
  <1>3. txs'[of].type = o.type
    BY <1>1 DEF Marked, Tx
  <1>4. o.amount \in Nat /\ b \in Nat
    <2>1. o.amount \in Cents /\ o.cust \in Customers
      BY DEF Tx
    <2>2. QED
      BY <2>1, BalanceType DEF RowInv, Cents
  <1>5. Effect(i0)' = IF o.type \in Charges THEN 0 - o.amount ELSE o.amount
    BY <1>2, <1>3 DEF Effect, Charges
  <1>6. Effect(i0)' \in Int
    BY <1>4, <1>5
  <1>7. Reverted(o, b) \in Int /\ Reverted(o, b) >= b + Effect(i0)'
    <2> HIDE DEF b
    <2>1. CASE o.type \in Charges
      BY <1>4, <1>5, <2>1 DEF Reverted, Clamp, Charges
    <2>2. CASE o.type \notin Charges
      BY <1>4, <1>5, <2>2 DEF Reverted, Clamp, Charges
    <2>3. QED
      BY <2>1, <2>2
  <1>8. QED
    BY <1>1, <1>2, <1>6, <1>7

LEMMA ReversalCovers ==
    ASSUME RowInv, "merge" \notin Ops, NEW p \in Procs, PostReversal(p),
           NEW c \in Customers, row[c].balance >= LedgerSum(c)
    PROVE  row'[c].balance >= LedgerSum(c)'
  <1> PICK i0 \in TxIds, o \in Tx :
            LET b == row[o.cust].balance IN
            /\ Inserts({i0}) /\ txs'[i0].cust = o.cust /\ Effect(i0)' \in Int
            /\ row' = [row EXCEPT ![o.cust].balance = Reverted(o, b)]
            /\ Reverted(o, b) \in Int /\ Reverted(o, b) >= b + Effect(i0)'
    BY ReversalClamps
  <1>1. \A i \in TxIds : Posted(i) => txs'[i].cust = txs[i].cust
    BY DEF Inserts, Keeps
  <1>2. row \in [Customers -> Row]
    BY DEF RowInv, Inv, TypeOK
  <1>3. LedgerSum(c) \in Int /\ row[c].balance \in Int
    <2>1. LedgerSum(c) \in Int
      BY RowsOfFinite
    <2>2. row[c].balance \in Nat
      BY BalanceType DEF RowInv
    <2>3. QED
      BY <2>1, <2>2
  <1>4. CASE c = o.cust
    <2>1. LedgerSum(c)' = LedgerSum(c) + Effect(i0)'
      BY <1>1, <1>4, OneRowGrows
    <2>2. row'[c].balance = Reverted(o, row[c].balance)
      BY <1>2, <1>4 DEF Row
    <2>3. QED
      BY <1>3, <1>4, <2>1, <2>2
  <1>5. CASE c # o.cust
    <2>1. LedgerSum(c)' = LedgerSum(c)
      BY <1>1, <1>5, OneRowGrows
    <2>2. row'[c].balance = row[c].balance
      BY <1>2, <1>5
    <2>3. QED
      BY <2>1, <2>2
  <1>6. QED
    BY <1>4, <1>5

\* The rows a customer has after a step that moves rows between customers.
LEMMA LedgerSumMoves ==
    ASSUME RowInv, Inserts({}), NEW c \in Customers, NEW R, R \subseteq PostedIds,
           RowsOf(c)' = R
    PROVE  LedgerSum(c)' = SumFunctionOnSet([i \in TxIds |-> Effect(i)], R)
  <1> DEFINE f == [i \in TxIds |-> Effect(i)]
  <1>1. IsFiniteSet(R)
    BY FS_Subset DEF RowInv, RowsInv
  <1>2. [i \in R |-> Effect(i)'] = [i \in R |-> f[i]]
    BY EffectKept DEF PostedIds
  <1>3. LedgerSum(c)' = SumFunction([i \in R |-> Effect(i)'])
    BY DEF LedgerSum
  <1> HIDE DEF f
  <1>4. QED
    BY <1>1, <1>2, <1>3, SumOfTable DEF f

LEMMA MergeBalances ==
    ASSUME RowInv, NEW p \in Procs, MergeCustomers(p),
           \A c \in Customers : row[c].balance = LedgerSum(c),
           NEW c \in Customers
    PROVE  row'[c].balance = LedgerSum(c)'
  <1> PICK a \in Customers, b \in Customers : a = req[p].primary /\ b = req[p].secondary
    BY MergeStep DEF RowInv
  <1> DEFINE f == [i \in TxIds |-> Effect(i)]
  <1>1. /\ a # b
        /\ txs' = [i \in TxIds |->
                    IF txs[i] # NoTx /\ txs[i].cust = b
                    THEN [txs[i] EXCEPT !.cust = a]
                    ELSE txs[i]]
        /\ row' = [row EXCEPT
                    ![a].balance = row[a].balance + row[b].balance,
                    ![a].limit = Greater(row[a].limit, row[b].limit),
                    ![b].balance = 0,
                    ![b].active = FALSE]
    BY MergeStep DEF RowInv
  <1>2. Inserts({})
    BY MergeInserts
  <1>3. \A i \in TxIds :
            /\ Posted(i) <=> txs'[i] # NoTx
            /\ Posted(i) => txs'[i].cust = IF txs[i].cust = b THEN a ELSE txs[i].cust
    <2> TAKE i \in TxIds
    <2>1. Posted(i) <=> txs'[i] # NoTx
      BY <1>2 DEF Inserts, Keeps
    <2>2. Posted(i) => txs[i] \in Tx
      BY PostedType DEF RowInv
    <2>3. Posted(i) => txs'[i].cust = IF txs[i].cust = b THEN a ELSE txs[i].cust
      BY <1>1, <2>2 DEF Posted, Tx
    <2>4. QED
      BY <2>1, <2>3
  <1>4. row \in [Customers -> Row]
    BY DEF RowInv, Inv, TypeOK
  <1>5. \A d \in Customers : RowsOf(d) \subseteq PostedIds
    BY DEF RowsOf, PostedIds
  <1>6. \A d \in Customers : LedgerSum(d) = SumFunctionOnSet(f, RowsOf(d)) /\ IsFiniteSet(RowsOf(d))
    BY RowsOfFinite
  <1>7. \A i \in PostedIds : f[i] \in Int
    BY EffectType DEF PostedIds, RowInv
  <1> HIDE DEF f
  <1>8. CASE c = a
    <2>1. RowsOf(a)' = RowsOf(a) \cup RowsOf(b)
      BY <1>1, <1>3 DEF RowsOf, Posted
    <2>2. RowsOf(a) \cap RowsOf(b) = {}
      BY <1>1 DEF RowsOf
    <2>3. LedgerSum(a)' = SumFunctionOnSet(f, RowsOf(a) \cup RowsOf(b))
      BY <1>2, <1>5, <2>1, LedgerSumMoves DEF f
    <2>4. LedgerSum(a)' = LedgerSum(a) + LedgerSum(b)
      <3>1. \A i \in RowsOf(a) \cup RowsOf(b) : f[i] \in Int
        BY <1>5, <1>7
      <3>2. QED
        BY <1>6, <2>2, <2>3, <3>1, SumOfUnion
    <2>5. row'[a].balance = row[a].balance + row[b].balance
      BY <1>1, <1>4 DEF Row
    <2>6. QED
      BY <1>8, <2>4, <2>5
  <1>9. CASE c = b
    <2>1. RowsOf(b)' = {}
      BY <1>1, <1>3 DEF RowsOf, Posted
    <2>2. LedgerSum(b)' = SumFunctionOnSet(f, {})
      BY <1>2, <2>1, LedgerSumMoves DEF f
    <2>3. row'[b].balance = 0
      BY <1>1, <1>4 DEF Row
    <2>4. QED
      BY <1>9, <2>2, <2>3, SumOfNothing
  <1>10. CASE c # a /\ c # b
    <2>1. RowsOf(c)' = RowsOf(c)
      BY <1>3, <1>10 DEF RowsOf, Posted
    <2>2. LedgerSum(c)' = SumFunctionOnSet(f, RowsOf(c))
      BY <1>2, <1>5, <2>1, LedgerSumMoves DEF f
    <2>3. row'[c].balance = row[c].balance
      BY <1>1, <1>4, <1>10
    <2>4. QED
      BY <1>6, <2>2, <2>3
  <1>11. QED
    BY <1>8, <1>9, <1>10

LEMMA InitBalances ==
    ASSUME Init, NEW c \in Customers
    PROVE  row[c].balance = LedgerSum(c)
  <1>1. row[c].balance = 0
    BY DEF Init
  <1>2. RowsOf(c) = {}
    BY DEF Init, RowsOf, Posted
  <1>3. LedgerSum(c) = SumFunctionOnSet([i \in TxIds |-> Effect(i)], {})
    BY <1>2, InitEstablishesRowInv, RowsOfFinite
  <1>4. QED
    BY <1>1, <1>3, SumOfNothing

\* The stored balance is the sum of the customer's rows, whatever debts,
\* payments, annulments, batches, limit changes and merges run concurrently.
THEOREM BalancesAreLedgerSums ==
    ASSUME Ops \cap ({"reverse"} \cup UnlockedOps) = {}
    PROVE  Spec => []BalanceIsLedgerSum
  <1>1. Init => BalanceIsLedgerSum
    BY InitBalances DEF BalanceIsLedgerSum
  <1>2. RowInv /\ BalanceIsLedgerSum /\ [Next]_vars => BalanceIsLedgerSum'
    <2> SUFFICES ASSUME RowInv, BalanceIsLedgerSum, [Next]_vars, NEW c \in Customers
                 PROVE  row'[c].balance = LedgerSum(c)'
      BY DEF BalanceIsLedgerSum
    <2>1. ASSUME NEW p \in Procs, PostReversal(p) PROVE FALSE
      <3>1. req[p] \in Requests /\ req[p].op = "reverse"
        BY <2>1, ReversalStep DEF RowInv
      <3>2. QED
        BY <3>1, RequestOps
    <2>2. ASSUME NEW p \in Procs, MergeCustomers(p)
          PROVE  row'[c].balance = LedgerSum(c)'
      BY <2>2, MergeBalances DEF BalanceIsLedgerSum
    <2>3. CASE \A p \in Procs : ~MergeCustomers(p)
      <3>1. Moves(c)
        BY <2>1, <2>3, OtherStepsMove
      <3>2. row[c].balance = LedgerSum(c)
        BY DEF BalanceIsLedgerSum
      <3>3. QED
        BY <3>1, <3>2 DEF Moves
    <2>4. QED
      BY <2>2, <2>3
  <1>3. QED
    BY <1>1, <1>2, RowInvariance, PTL DEF Spec

LEMMA NextKeepsBalancesCovered ==
    ASSUME RowInv, BalanceCoversLedger, [Next]_vars, Ops \cap ({"merge"} \cup UnlockedOps) = {}
    PROVE  BalanceCoversLedger'
  <1> SUFFICES ASSUME NEW c \in Customers PROVE row'[c].balance >= LedgerSum(c)'
    BY DEF BalanceCoversLedger
  <1>1. row[c].balance >= LedgerSum(c)
    BY DEF BalanceCoversLedger
  <1>2. ASSUME NEW p \in Procs, MergeCustomers(p) PROVE FALSE
    <2>1. req[p] \in Requests /\ req[p].op = "merge"
      BY <1>2, MergeStep DEF RowInv
    <2>2. QED
      BY <2>1, RequestOps
  <1>3. ASSUME NEW p \in Procs, PostReversal(p)
        PROVE  row'[c].balance >= LedgerSum(c)'
    BY <1>1, <1>3, ReversalCovers
  <1>4. CASE \A p \in Procs : ~PostReversal(p)
    <2>1. PICK d \in Int : /\ LedgerSum(c)' = LedgerSum(c) + d
                           /\ row'[c].balance = row[c].balance + d
      BY <1>2, <1>4, OtherStepsMove DEF Moves
    <2>2. LedgerSum(c) \in Int
      BY RowsOfFinite
    <2>3. row[c].balance \in Nat
      BY BalanceType DEF RowInv
    <2>4. QED
      BY <1>1, <2>1, <2>2, <2>3
  <1>5. QED
    BY <1>3, <1>4

\* With reversals, which clamp at zero, a balance never falls below the sum of
\* the customer's rows, unless a merge makes the original of a reversal stale.
THEOREM BalancesCoverTheLedger ==
    ASSUME Ops \cap UnlockedOps = {}, "merge" \notin Ops \/ "reverse" \notin Ops
    PROVE  Spec => []BalanceCoversLedger
  <1>1. RowInv => \A c \in Customers : LedgerSum(c) \in Int
    BY RowsOfFinite
  <1>2. Init => BalanceCoversLedger
    <2> SUFFICES ASSUME Init, NEW c \in Customers PROVE row[c].balance >= LedgerSum(c)
      BY DEF BalanceCoversLedger
    <2>1. LedgerSum(c) \in Int
      BY <1>1, InitEstablishesRowInv
    <2>2. QED
      BY <2>1, InitBalances
  <1>3. CASE "merge" \notin Ops
    <2>1. RowInv /\ BalanceCoversLedger /\ [Next]_vars => BalanceCoversLedger'
      BY <1>3, NextKeepsBalancesCovered
    <2>2. QED
      BY <1>2, <2>1, RowInvariance, PTL DEF Spec
  <1>4. CASE "reverse" \notin Ops
    <2>1. Spec => []BalanceIsLedgerSum
      BY <1>4, BalancesAreLedgerSums
    <2>2. RowInv /\ BalanceIsLedgerSum => BalanceCoversLedger
      BY <1>1 DEF BalanceIsLedgerSum, BalanceCoversLedger
    <2>3. QED
      BY <2>1, <2>2, RowInvariance, PTL
  <1>5. QED
    BY <1>3, <1>4
-----------------------------------------------------------------------------
(* The debt of all customers together. *)

TotalDebt == SumFunction([c \in Customers |-> row[c].balance])
PostedSum == SumFunction([i \in PostedIds |-> Effect(i)])

\* What the customers owe is never less than what the posted rows add up to.
TotalDebtCoversLedger == TotalDebt >= PostedSum

LEMMA PostedSumType ==
    ASSUME RowInv
    PROVE  /\ PostedSum \in Int
           /\ PostedSum = SumFunctionOnSet([i \in TxIds |-> Effect(i)], PostedIds)
  <1> DEFINE f == [i \in TxIds |-> Effect(i)]
  <1>1. IsFiniteSet(PostedIds) /\ PostedIds \subseteq TxIds
    BY DEF RowInv, RowsInv, PostedIds
  <1>2. [i \in PostedIds |-> Effect(i)] = [i \in PostedIds |-> f[i]]
    BY <1>1
  <1>3. \A i \in PostedIds : f[i] \in Int
    BY EffectType DEF PostedIds, RowInv
  <1> HIDE DEF f
  <1>4. PostedSum = SumFunctionOnSet(f, PostedIds)
    BY <1>1, <1>2, SumOfTable DEF PostedSum
  <1>5. PostedSum \in Int
    BY <1>1, <1>3, <1>4, SumType
  <1>6. QED
    BY <1>4, <1>5 DEF f

LEMMA TotalDebtType ==
    ASSUME Inv
    PROVE  /\ TotalDebt \in Int
           /\ TotalDebt = SumFunctionOnSet([c \in Customers |-> row[c].balance], Customers)
           /\ \A c \in Customers : [d \in Customers |-> row[d].balance][c] \in Int
  <1> DEFINE f == [c \in Customers |-> row[c].balance]
  <1>1. \A c \in Customers : f[c] \in Int
    BY BalanceType
  <1>2. TotalDebt = SumFunctionOnSet(f, Customers)
    BY DEF TotalDebt, SumFunction
  <1> HIDE DEF f
  <1>3. TotalDebt \in Int
    BY <1>1, <1>2, CustomersAssumption, SumType
  <1>4. QED
    BY <1>1, <1>2, <1>3 DEF f

\* A step that posts the rows of N adds their effects.
LEMMA PostedSumGrows ==
    ASSUME RowInv, NEW N, Inserts(N)
    PROVE  PostedSum' = PostedSum + SumFunctionOnSet([i \in TxIds |-> Effect(i)'], N)
  <1> DEFINE f == [i \in TxIds |-> Effect(i)]
             g == [i \in TxIds |-> Effect(i)']
             R == PostedIds
  <1>1. IsFiniteSet(R) /\ PostedSum = SumFunctionOnSet(f, R)
    BY PostedSumType DEF RowInv, RowsInv
  <1>2. R \subseteq TxIds /\ N \subseteq TxIds /\ IsFiniteSet(N) /\ R \cap N = {}
    BY DEF Inserts, PostedIds
  <1>3. PostedIds' = R \cup N
    BY NoTxAssumption DEF PostedIds, Posted, Inserts, Keeps
  <1>4. \A i \in R : g[i] = f[i] /\ g[i] \in Int
    BY <1>2, EffectKept, EffectType DEF RowInv, PostedIds
  <1>5. \A i \in N : g[i] \in Int
    <2> TAKE i \in N
    <2>1. txs'[i].amount \in Int /\ i \in TxIds
      BY DEF Inserts, Tx, Cents
    <2>2. QED
      BY <2>1 DEF Effect
  <1>6. [i \in R \cup N |-> Effect(i)'] = [i \in R \cup N |-> g[i]]
    BY <1>2
  <1>7. PostedSum' = SumFunction([i \in R \cup N |-> Effect(i)'])
    BY <1>3 DEF PostedSum
  <1> HIDE DEF f, g, R
  <1>8. PostedSum' = SumFunctionOnSet(g, R \cup N)
    BY <1>1, <1>2, <1>6, <1>7, FS_Union, SumOfTable
  <1>9. SumFunctionOnSet(g, R \cup N) = SumFunctionOnSet(g, R) + SumFunctionOnSet(g, N)
    BY <1>1, <1>2, <1>4, <1>5, SumOfUnion
  <1>10. SumFunctionOnSet(g, R) = SumFunctionOnSet(f, R)
    BY <1>1, <1>4, SumOfEqual
  <1>11. QED
    BY <1>1, <1>8, <1>9, <1>10 DEF g

\* Every posted row is in the ledger of one customer.
LedgersTotal == SumFunctionOnSet([c \in Customers |-> LedgerSum(c)], Customers)

LEMMA LedgersPartition == RowInv => PostedSum = LedgersTotal
  <1> SUFFICES ASSUME RowInv PROVE PostedSum = LedgersTotal
    OBVIOUS
  <1> DEFINE f == [i \in TxIds |-> Effect(i)]
             g == [c \in Customers |-> LedgerSum(c)]
             RowsOfAll(T) == {i \in PostedIds : txs[i].cust \in T}
             F == {T \in SUBSET Customers :
                    SumFunctionOnSet(f, RowsOfAll(T)) # SumFunctionOnSet(g, T)}
  <1>1. \A i \in PostedIds : i \in TxIds /\ txs[i].cust \in Customers /\ f[i] \in Int
    <2> TAKE i \in PostedIds
    <2>1. i \in TxIds /\ Posted(i)
      BY DEF PostedIds
    <2>2. txs[i] \in Tx /\ Effect(i) \in Int
      BY <2>1, PostedType, EffectType DEF RowInv
    <2>3. QED
      BY <2>1, <2>2 DEF Tx
  <1>2. \A c \in Customers : /\ g[c] = SumFunctionOnSet(f, RowsOf(c)) /\ g[c] \in Int
                             /\ IsFiniteSet(RowsOf(c)) /\ RowsOf(c) = RowsOfAll({c})
    BY RowsOfFinite DEF RowsOf, PostedIds
  <1>3. \A T : RowsOfAll(T) \subseteq PostedIds /\ IsFiniteSet(RowsOfAll(T))
    BY FS_Subset DEF RowInv, RowsInv
  <1>4. RowsOfAll(Customers) = PostedIds /\ RowsOfAll({}) = {}
    BY <1>1
  <1>5. PostedSum = SumFunctionOnSet(f, PostedIds)
    BY PostedSumType
  <1> HIDE DEF f, g
  <1>6. ASSUME F # {} PROVE FALSE
    <2>1. PICK T \in F : \A U \in F : U \subseteq T => U = T
      <3>1. F \subseteq SUBSET Customers
        OBVIOUS
      <3>2. IsFiniteSet(Customers)
        BY CustomersAssumption
      <3>3. F # {}
        BY <1>6
      <3> HIDE DEF F, RowsOfAll
      <3>4. QED
        BY <3>1, <3>2, <3>3, MinimalSubset
    <2>2. T # {} /\ T \subseteq Customers /\ IsFiniteSet(T)
      BY <1>4, SumOfNothing, CustomersAssumption, FS_Subset
    <2>3. PICK c \in T : TRUE
      BY <2>2
    <2> DEFINE U == T \ {c}
    <2>4. SumFunctionOnSet(f, RowsOfAll(U)) = SumFunctionOnSet(g, U)
      BY <2>1, <2>2, <2>3
    <2>5. RowsOfAll(T) = RowsOfAll(U) \cup RowsOfAll({c}) /\ RowsOfAll(U) \cap RowsOfAll({c}) = {}
      BY <2>3
    <2>6. SumFunctionOnSet(f, RowsOfAll(T)) =
            SumFunctionOnSet(f, RowsOfAll(U)) + SumFunctionOnSet(f, RowsOfAll({c}))
      <3>1. \A i \in RowsOfAll(U) \cup RowsOfAll({c}) : f[i] \in Int
        BY <1>1, <1>3
      <3> HIDE DEF U, RowsOfAll
      <3>2. QED
        BY <1>3, <2>5, <3>1, SumOfUnion
    <2>7. SumFunctionOnSet(g, T) = g[c] + SumFunctionOnSet(g, U)
      BY <1>2, <2>2, SumTakes
    <2>8. g[c] = SumFunctionOnSet(f, RowsOfAll({c})) /\ g[c] \in Int /\ SumFunctionOnSet(g, U) \in Int
      BY <1>2, <2>2, FS_Subset, SumType
    <2> HIDE DEF U, RowsOfAll
    <2>9. SumFunctionOnSet(f, RowsOfAll(T)) = SumFunctionOnSet(g, T)
      BY <2>4, <2>6, <2>7, <2>8
    <2>10. QED
      BY <2>1, <2>9
  <1>7. SumFunctionOnSet(f, RowsOfAll(Customers)) = SumFunctionOnSet(g, Customers)
    BY <1>6
  <1>8. QED
    BY <1>4, <1>5, <1>7 DEF g, LedgersTotal

\* Tables that move together have sums that move together.
LEMMA SumsMove ==
    ASSUME NEW S, IsFiniteSet(S), NEW f, NEW g, NEW f1, NEW g1,
           \A x \in S : /\ f[x] \in Int /\ g[x] \in Int /\ f1[x] \in Int /\ g1[x] \in Int
                        /\ f1[x] + g[x] = f[x] + g1[x]
    PROVE  SumFunctionOnSet(f1, S) + SumFunctionOnSet(g, S)
             = SumFunctionOnSet(f, S) + SumFunctionOnSet(g1, S)
  <1> DEFINE Move(T) == SumFunctionOnSet(f1, T) + SumFunctionOnSet(g, T)
                          = SumFunctionOnSet(f, T) + SumFunctionOnSet(g1, T)
             F == {T \in SUBSET S : ~Move(T)}
  <1> SUFFICES ASSUME F # {} PROVE FALSE
    OBVIOUS
  <1>1. PICK T \in F : \A U \in F : U \subseteq T => U = T
    <2>1. F \subseteq SUBSET S
      OBVIOUS
    <2> HIDE DEF F
    <2>2. QED
      BY <2>1, MinimalSubset
  <1>2. Move({})
    BY SumOfNothing
  <1>3. T # {} /\ T \subseteq S /\ IsFiniteSet(T)
    BY <1>2, FS_Subset
  <1>4. PICK x \in T : TRUE
    BY <1>3
  <1> DEFINE U == T \ {x}
  <1>5. Move(U) /\ ~Move(T)
    BY <1>1, <1>3, <1>4
  <1>6. IsFiniteSet(U) /\ U \subseteq S /\ x \in S
    BY <1>3, FS_Subset
  <1>7. /\ SumFunctionOnSet(f, T) = f[x] + SumFunctionOnSet(f, U)
        /\ SumFunctionOnSet(g, T) = g[x] + SumFunctionOnSet(g, U)
        /\ SumFunctionOnSet(f1, T) = f1[x] + SumFunctionOnSet(f1, U)
        /\ SumFunctionOnSet(g1, T) = g1[x] + SumFunctionOnSet(g1, U)
    BY <1>3, SumTakes
  <1> HIDE DEF U
  <1>8. /\ SumFunctionOnSet(f, U) \in Int /\ SumFunctionOnSet(g, U) \in Int
        /\ SumFunctionOnSet(f1, U) \in Int /\ SumFunctionOnSet(g1, U) \in Int
    BY <1>6, SumType
  <1>9. /\ f[x] \in Int /\ g[x] \in Int /\ f1[x] \in Int /\ g1[x] \in Int
        /\ f1[x] + g[x] = f[x] + g1[x]
    BY <1>6
  <1>10. QED
    BY <1>5, <1>7, <1>8, <1>9

LEMMA LedgersPartitionNext == RowInv' => (PostedSum = LedgersTotal)'
  BY LedgersPartition, PTL

LEMMA TotalsType == RowInv => TotalDebt \in Int /\ PostedSum \in Int
  BY TotalDebtType, PostedSumType DEF RowInv

LEMMA NextTotalsType == RowInv' => (TotalDebt \in Int /\ PostedSum \in Int)'
  BY TotalsType, PTL

\* Where every balance moves with its ledger, the totals move together.
LEMMA OtherStepsMoveTotals ==
    ASSUME RowInv, [Next]_vars, Ops \cap UnlockedOps = {},
           \A p \in Procs : ~PostReversal(p) /\ ~MergeCustomers(p)
    PROVE  TotalDebt' + PostedSum = TotalDebt + PostedSum'
  <1> DEFINE f == [c \in Customers |-> row[c].balance]
             g == [c \in Customers |-> LedgerSum(c)]
             f1 == [c \in Customers |-> row'[c].balance]
             g1 == [c \in Customers |-> LedgerSum(c)']
  <1>1. \A c \in Customers : /\ f[c] \in Int /\ g[c] \in Int /\ f1[c] \in Int /\ g1[c] \in Int
                             /\ f1[c] + g[c] = f[c] + g1[c]
    <2> TAKE c \in Customers
    <2>1. PICK d \in Int : LedgerSum(c)' = LedgerSum(c) + d /\ row'[c].balance = row[c].balance + d
      BY OtherStepsMove DEF Moves
    <2>2. LedgerSum(c) \in Int
      BY RowsOfFinite
    <2>3. row[c].balance \in Nat
      BY BalanceType DEF RowInv
    <2>4. QED
      BY <2>1, <2>2, <2>3
  <1>2. PostedSum = SumFunctionOnSet(g, Customers) /\ PostedSum' = SumFunctionOnSet(g1, Customers)
    BY LedgersPartition, LedgersPartitionNext, NextPreservesRowInv DEF LedgersTotal
  <1>3. TotalDebt = SumFunctionOnSet(f, Customers) /\ TotalDebt' = SumFunctionOnSet(f1, Customers)
    BY DEF TotalDebt, SumFunction
  <1>4. IsFiniteSet(Customers)
    BY CustomersAssumption
  <1> HIDE DEF f, g, f1, g1
  <1>5. SumFunctionOnSet(f1, Customers) + SumFunctionOnSet(g, Customers)
          = SumFunctionOnSet(f, Customers) + SumFunctionOnSet(g1, Customers)
    BY <1>1, <1>4, SumsMove
  <1>6. QED
    BY <1>2, <1>3, <1>5

LEMMA OneBalanceMoves ==
    ASSUME RowInv, NEW c0 \in Customers, NEW v \in Int,
           row' = [row EXCEPT ![c0].balance = v]
    PROVE  TotalDebt' = TotalDebt + (v - row[c0].balance)
  <1> DEFINE f == [c \in Customers |-> row[c].balance]
             f1 == [c \in Customers |-> row'[c].balance]
             rest == Customers \ {c0}
  <1>1. row \in [Customers -> Row]
    BY DEF RowInv, Inv, TypeOK
  <1>2. f1[c0] = v /\ \A c \in rest : f1[c] = f[c]
    BY <1>1 DEF Row
  <1>3. f[c0] = row[c0].balance /\ \A c \in Customers : f[c] \in Int
    BY TotalDebtType DEF RowInv
  <1>4. TotalDebt = SumFunctionOnSet(f, Customers) /\ TotalDebt' = SumFunctionOnSet(f1, Customers)
    BY DEF TotalDebt, SumFunction
  <1>5. \A c \in Customers : f1[c] \in Int
    BY <1>2, <1>3
  <1> HIDE DEF f, f1
  <1>6. /\ SumFunctionOnSet(f, Customers) = f[c0] + SumFunctionOnSet(f, rest)
        /\ SumFunctionOnSet(f1, Customers) = f1[c0] + SumFunctionOnSet(f1, rest)
    BY <1>3, <1>5, CustomersAssumption, SumTakes
  <1>7. IsFiniteSet(rest)
    BY CustomersAssumption, FS_Subset
  <1>8. SumFunctionOnSet(f1, rest) = SumFunctionOnSet(f, rest)
    BY <1>2, <1>7, SumOfEqual
  <1>9. SumFunctionOnSet(f, rest) \in Int
    <2>1. \A c \in rest : f[c] \in Int
      BY <1>3
    <2> HIDE DEF rest
    <2>2. QED
      BY <1>7, <2>1, SumType
  <1>10. row[c0].balance \in Int
    BY <1>3
  <1> HIDE DEF rest
  <1>11. QED
    BY <1>2, <1>3, <1>4, <1>6, <1>8, <1>9, <1>10

LEMMA ReversalCoversTotal ==
    ASSUME RowInv, NEW p \in Procs, PostReversal(p), TotalDebtCoversLedger
    PROVE  TotalDebtCoversLedger'
  <1> PICK i0 \in TxIds, o \in Tx :
            LET b == row[o.cust].balance IN
            /\ Inserts({i0}) /\ txs'[i0].cust = o.cust /\ Effect(i0)' \in Int
            /\ row' = [row EXCEPT ![o.cust].balance = Reverted(o, b)]
            /\ Reverted(o, b) \in Int /\ Reverted(o, b) >= b + Effect(i0)'
    BY ReversalClamps
  <1> DEFINE b == row[o.cust].balance
             v == Reverted(o, b)
             g == [i \in TxIds |-> Effect(i)']
  <1>1. o.cust \in Customers /\ b \in Nat
    BY BalanceType DEF Tx, RowInv
  <1>2. TotalDebt' = TotalDebt + (v - b)
    <2>1. row' = [row EXCEPT ![o.cust].balance = v] /\ v \in Int
      OBVIOUS
    <2> HIDE DEF v
    <2>2. QED
      BY <1>1, <2>1, OneBalanceMoves
  <1>3. PostedSum' = PostedSum + Effect(i0)'
    <2>1. g[i0] = Effect(i0)' /\ g[i0] \in Int
      OBVIOUS
    <2>2. PostedSum' = PostedSum + SumFunctionOnSet(g, {i0})
      BY PostedSumGrows
    <2> HIDE DEF g
    <2>3. QED
      BY <2>1, <2>2, SumOfOne
  <1>4. TotalDebt \in Int /\ PostedSum \in Int
    BY TotalDebtType, PostedSumType DEF RowInv
  <1>5. v \in Int /\ v >= b + Effect(i0)' /\ Effect(i0)' \in Int
    OBVIOUS
  <1> HIDE DEF v, b
  <1>6. TotalDebt + (v - b) >= PostedSum + Effect(i0)'
    BY <1>1, <1>4, <1>5 DEF TotalDebtCoversLedger
  <1>7. QED
    BY <1>2, <1>3, <1>6 DEF TotalDebtCoversLedger

\* A merge moves a balance and no more.
LEMMA MergeKeepsTotals ==
    ASSUME RowInv, NEW p \in Procs, MergeCustomers(p)
    PROVE  TotalDebt' = TotalDebt /\ PostedSum' = PostedSum
  <1> PICK a \in Customers, b \in Customers : a = req[p].primary /\ b = req[p].secondary
    BY MergeStep DEF RowInv
  <1> DEFINE f == [c \in Customers |-> row[c].balance]
             f1 == [c \in Customers |-> row'[c].balance]
             A == Customers \ {a}
             rest == A \ {b}
  <1>1. /\ a # b
        /\ row' = [row EXCEPT
                    ![a].balance = row[a].balance + row[b].balance,
                    ![a].limit = Greater(row[a].limit, row[b].limit),
                    ![b].balance = 0,
                    ![b].active = FALSE]
    BY MergeStep DEF RowInv
  <1>2. row \in [Customers -> Row]
    BY DEF RowInv, Inv, TypeOK
  <1>3. f1[a] = f[a] + f[b] /\ f1[b] = 0 /\ \A c \in rest : f1[c] = f[c]
    BY <1>1, <1>2 DEF Row
  <1>4. \A c \in Customers : f[c] \in Int
    BY TotalDebtType DEF RowInv
  <1>5. TotalDebt = SumFunctionOnSet(f, Customers) /\ TotalDebt' = SumFunctionOnSet(f1, Customers)
    BY DEF TotalDebt, SumFunction
  <1>6. PostedSum' = PostedSum
    <2> DEFINE g == [i \in TxIds |-> Effect(i)']
    <2>1. PostedSum' = PostedSum + SumFunctionOnSet(g, {})
      BY MergeInserts, PostedSumGrows
    <2> HIDE DEF g
    <2>2. QED
      BY <2>1, SumOfNothing, PostedSumType
  <1> HIDE DEF f, f1
  <1>7. \A c \in Customers : f1[c] \in Int
    BY <1>3, <1>4
  <1>8. b \in A /\ IsFiniteSet(A) /\ IsFiniteSet(rest) /\ A \subseteq Customers /\ rest \subseteq Customers
    BY <1>1, CustomersAssumption, FS_Subset
  <1>9. /\ SumFunctionOnSet(f, Customers) = f[a] + SumFunctionOnSet(f, A)
        /\ SumFunctionOnSet(f1, Customers) = f1[a] + SumFunctionOnSet(f1, A)
    <2>1. IsFiniteSet(Customers)
      BY CustomersAssumption
    <2>2. SumFunctionOnSet(f, Customers) = f[a] + SumFunctionOnSet(f, A)
      BY <1>4, <2>1, SumTakes
    <2>3. SumFunctionOnSet(f1, Customers) = f1[a] + SumFunctionOnSet(f1, A)
      BY <1>7, <2>1, SumTakes
    <2>4. QED
      BY <2>2, <2>3
  <1> HIDE DEF A
  <1>10. /\ SumFunctionOnSet(f, A) = f[b] + SumFunctionOnSet(f, rest)
         /\ SumFunctionOnSet(f1, A) = f1[b] + SumFunctionOnSet(f1, rest)
    BY <1>4, <1>7, <1>8, SumTakes
  <1> HIDE DEF rest
  <1>11. SumFunctionOnSet(f1, rest) = SumFunctionOnSet(f, rest) /\ SumFunctionOnSet(f, rest) \in Int
    BY <1>3, <1>4, <1>8, SumOfEqual, SumType
  <1>12. f[a] \in Int /\ f[b] \in Int
    BY <1>4
  <1>13. TotalDebt' = TotalDebt
    BY <1>3, <1>5, <1>9, <1>10, <1>11, <1>12
  <1>14. QED
    BY <1>6, <1>13

\* A merge that makes the original of a reversal stale may leave a debt with the
\* wrong customer, but no debt is lost: what the customers owe together covers
\* what the posted rows add up to, whatever runs concurrently with it.
THEOREM NoDebtIsLost ==
    ASSUME Ops \cap UnlockedOps = {}
    PROVE  Spec => []TotalDebtCoversLedger
  <1>1. Init => TotalDebtCoversLedger
    <2> SUFFICES ASSUME Init PROVE TotalDebtCoversLedger
      OBVIOUS
    <2> DEFINE f == [c \in Customers |-> row[c].balance]
               g == [c \in Customers |-> LedgerSum(c)]
    <2>1. RowInv
      BY InitEstablishesRowInv
    <2>2. \A c \in Customers : f[c] = g[c]
      BY InitBalances
    <2>3. TotalDebt = SumFunctionOnSet(f, Customers) /\ TotalDebt \in Int
      BY <2>1, TotalDebtType DEF RowInv
    <2>4. PostedSum = SumFunctionOnSet(g, Customers)
      BY <2>1, LedgersPartition DEF LedgersTotal
    <2> HIDE DEF f, g
    <2>5. SumFunctionOnSet(f, Customers) = SumFunctionOnSet(g, Customers)
      BY <2>2, CustomersAssumption, SumOfEqual
    <2>6. QED
      BY <2>3, <2>4, <2>5 DEF TotalDebtCoversLedger
  <1>2. RowInv /\ TotalDebtCoversLedger /\ [Next]_vars => TotalDebtCoversLedger'
    <2> SUFFICES ASSUME RowInv, TotalDebtCoversLedger, [Next]_vars
                 PROVE  TotalDebtCoversLedger'
      OBVIOUS
    <2>1. ASSUME NEW p \in Procs, PostReversal(p) PROVE TotalDebtCoversLedger'
      BY <2>1, ReversalCoversTotal
    <2>2. ASSUME NEW p \in Procs, MergeCustomers(p) PROVE TotalDebtCoversLedger'
      BY <2>2, MergeKeepsTotals DEF TotalDebtCoversLedger
    <2>3. CASE \A p \in Procs : ~PostReversal(p) /\ ~MergeCustomers(p)
      <3>1. TotalDebt' + PostedSum = TotalDebt + PostedSum'
        BY <2>3, OtherStepsMoveTotals
      <3>2. TotalDebt \in Int /\ PostedSum \in Int
        BY TotalDebtType, PostedSumType DEF RowInv
      <3>3. TotalDebt' \in Int /\ PostedSum' \in Int
        BY NextTotalsType, NextPreservesRowInv
      <3>4. QED
        BY <3>1, <3>2, <3>3 DEF TotalDebtCoversLedger
    <2>4. QED
      BY <2>1, <2>2, <2>3
  <1>3. QED
    BY <1>1, <1>2, RowInvariance, PTL DEF Spec
-----------------------------------------------------------------------------
(* Annulments pair with the rows they annul. *)

\* A row of a step that is no reversal.
Fresh(i) == txs'[i].type # "REVERSAL" /\ txs'[i].of = NoTx /\ txs'[i].reversed = FALSE

LEMMA OtherStepsAreFresh ==
    ASSUME RowInv, [Next]_vars, \A p \in Procs : ~PostReversal(p) /\ ~MergeCustomers(p),
           NEW i \in TxIds
    PROVE  txs'[i] = txs[i] \/ (~Posted(i) /\ Fresh(i))
  <1> DEFINE Goal == txs'[i] = txs[i] \/ (~Posted(i) /\ Fresh(i))
  <1>1. txs \in [TxIds -> Tx \cup {NoTx}]
    BY DEF RowInv, Inv, TypeOK
  <1>2. ASSUME NEW k \in Keys, NEW t, ~Posted(<<k, 0>>), t.type # "REVERSAL", t.of = NoTx,
               t.reversed = FALSE, txs' = [txs EXCEPT ![<<k, 0>>] = t]
        PROVE  Goal
    BY <1>1, <1>2 DEF Fresh
  <1>3. ASSUME NEW p \in Procs, PostDebt(p) PROVE Goal
    <2> DEFINE r == req[p]
               t == New("DEBT", r.cust, r.amount, NoTx)
    <2>1. r.key \in Keys /\ ~Posted(<<r.key, 0>>) /\ txs' = [txs EXCEPT ![<<r.key, 0>>] = t]
      BY <1>3, DebtStep DEF RowInv
    <2>2. t.type # "REVERSAL" /\ t.of = NoTx /\ t.reversed = FALSE
      BY DEF New
    <2> HIDE DEF t, Goal
    <2>3. QED
      BY <1>2, <2>1, <2>2
  <1>4. ASSUME NEW p \in Procs, PostPayment(p) PROVE Goal
    <2> DEFINE r == req[p]
               t == New("PAYMENT", r.cust, Lesser(r.amount, row[r.cust].balance), NoTx)
    <2>1. r.key \in Keys /\ ~Posted(<<r.key, 0>>) /\ txs' = [txs EXCEPT ![<<r.key, 0>>] = t]
      BY <1>4, PaymentStep DEF RowInv
    <2>2. t.type # "REVERSAL" /\ t.of = NoTx /\ t.reversed = FALSE
      BY DEF New
    <2> HIDE DEF t, Goal
    <2>3. QED
      BY <1>2, <2>1, <2>2
  <1>5. ASSUME NEW p \in Procs, PostForgiveness(p) PROVE Goal
    <2> DEFINE r == req[p]
               t == New("FORGIVENESS", r.cust, row[r.cust].balance, NoTx)
    <2>1. r.key \in Keys /\ ~Posted(<<r.key, 0>>) /\ txs' = [txs EXCEPT ![<<r.key, 0>>] = t]
      BY <1>5, ForgivenessStep DEF RowInv
    <2>2. t.type # "REVERSAL" /\ t.of = NoTx /\ t.reversed = FALSE
      BY DEF New
    <2> HIDE DEF t, Goal
    <2>3. QED
      BY <1>2, <2>1, <2>2
  <1>6. ASSUME NEW p \in Procs, PostMixedPayment(p) PROVE Goal
    <2> DEFINE r == req[p]
               k == r.key
               s == New("PAYMENT", r.cust, CashPart(r.cash, r.transfer, row[r.cust].balance), NoTx)
               t == New("PAYMENT", r.cust, TransferPart(r.cash, r.transfer, row[r.cust].balance), NoTx)
    <2>1. txs' = [txs EXCEPT ![<<k, 0>>] = s, ![<<k, 1>>] = t]
      BY <1>6, MixedPaymentStep DEF RowInv
    <2>2. ~Posted(<<k, 0>>) /\ ~Posted(<<k, 1>>)
      BY <1>6, MixedInserts DEF Inserts
    <2>3. /\ s.type # "REVERSAL" /\ s.of = NoTx /\ s.reversed = FALSE
          /\ t.type # "REVERSAL" /\ t.of = NoTx /\ t.reversed = FALSE
      BY DEF New
    <2> HIDE DEF k, s, t
    <2>4. QED
      BY <1>1, <2>1, <2>2, <2>3 DEF Fresh
  <1>7. ASSUME NEW p \in Procs, PostInflation(p) PROVE Goal
    <2> DEFINE k == req[p].key
               charged == Charged(req[p].pct)
               N == BatchIds(k, charged)
    <2>1. /\ Inserts(N) /\ \A j \in TxIds \ N : txs'[j] = txs[j]
          /\ \A c \in charged :
                txs'[<<k, c>>] = New("INFLATION", c, Surcharge(row[c].balance, req[p].pct), NoTx)
      BY <1>7, InflationInserts
    <2>2. CASE i \in N
      <3>1. PICK c \in charged : i = <<k, c>>
        BY <2>2 DEF BatchIds
      <3>2. txs'[i] = New("INFLATION", c, Surcharge(row[c].balance, req[p].pct), NoTx)
        BY <2>1, <3>1
      <3>3. Fresh(i)
        BY <3>2 DEF New, Fresh
      <3> HIDE DEF N
      <3>4. QED
        BY <2>1, <2>2, <3>3 DEF Inserts
    <2>3. QED
      BY <2>1, <2>2
  <1> HIDE DEF Goal
  <1>8. ASSUME UNCHANGED txs PROVE Goal
    BY <1>8 DEF Goal
  <1>9. Goal
    BY <1>3, <1>4, <1>5, <1>6, <1>7, <1>8, TableSteps DEF db, SetCreditLimit, SaveUpdate
  <1>10. QED
    BY <1>9 DEF Goal

LEMMA MergeKeepsRows ==
    ASSUME RowInv, NEW p \in Procs, MergeCustomers(p), NEW i \in TxIds
    PROVE  IF Posted(i)
           THEN /\ txs'[i] # NoTx
                /\ txs'[i].type = txs[i].type /\ txs'[i].of = txs[i].of
                /\ txs'[i].amount = txs[i].amount /\ txs'[i].reversed = txs[i].reversed
           ELSE txs'[i] = NoTx
  <1> DEFINE a == req[p].primary
             b == req[p].secondary
  <1>1. txs' = [j \in TxIds |->
                    IF txs[j] # NoTx /\ txs[j].cust = b
                    THEN [txs[j] EXCEPT !.cust = a]
                    ELSE txs[j]]
    BY MergeStep DEF RowInv
  <1>2. CASE Posted(i)
    <2>1. txs[i] \in Tx
      BY <1>2, PostedType DEF RowInv
    <2>2. txs'[i] # NoTx
      BY <1>2, MergeInserts DEF Inserts, Keeps
    <2>3. QED
      BY <1>1, <1>2, <2>1, <2>2 DEF Tx
  <1>3. CASE ~Posted(i)
    BY <1>1, <1>3 DEF Posted
  <1>4. QED
    BY <1>2, <1>3

\* A row is marked exactly when a reversal of it was posted, and the reversal
\* carries its amount.
AnnulmentsMatch ==
    /\ \A i \in TxIds : Posted(i) =>
        (txs[i].reversed <=> \E j \in TxIds : Posted(j) /\ txs[j].of = i)
    /\ \A j \in TxIds : Posted(j) /\ txs[j].type = "REVERSAL" =>
        Posted(txs[j].of) /\ txs[j].amount = txs[txs[j].of].amount

LEMMA OtherStepsKeepMatches ==
    ASSUME RowInv, [Next]_vars, \A p \in Procs : ~PostReversal(p), AnnulmentsMatch
    PROVE  AnnulmentsMatch'
  <1> DEFINE Settled(i) ==
                /\ txs'[i] # NoTx
                /\ txs'[i].type = txs[i].type /\ txs'[i].of = txs[i].of
                /\ txs'[i].amount = txs[i].amount /\ txs'[i].reversed = txs[i].reversed
  <1>1. \A i \in TxIds : IF Posted(i) THEN Settled(i) ELSE txs'[i] = NoTx \/ Fresh(i)
    <2> TAKE i \in TxIds
    <2>1. CASE \E p \in Procs : MergeCustomers(p)
      BY <2>1, MergeKeepsRows
    <2>2. CASE \A p \in Procs : ~MergeCustomers(p)
      BY <2>2, OtherStepsAreFresh DEF Posted
    <2>3. QED
      BY <2>1, <2>2
  <1>2. \A j \in TxIds : Posted(j) => txs[j].of = NoTx \/ (txs[j].of \in TxIds /\ Posted(txs[j].of))
    BY DEF RowInv, RowsInv
  <1> HIDE DEF Settled
  <1>3. \A j \in TxIds : Posted(j) => Settled(j)
    BY <1>1
  <1>4. \A j \in TxIds : txs'[j] # NoTx /\ ~Posted(j) => Fresh(j)
    BY <1>1
  <1>5. ASSUME NEW i \in TxIds, txs'[i] # NoTx
        PROVE  txs'[i].reversed <=> \E j \in TxIds : txs'[j] # NoTx /\ txs'[j].of = i
    <2>1. (\E j \in TxIds : txs'[j] # NoTx /\ txs'[j].of = i)
            <=> \E j \in TxIds : Posted(j) /\ txs[j].of = i
      <3>1. ASSUME NEW j \in TxIds, txs'[j] # NoTx, txs'[j].of = i
            PROVE  Posted(j) /\ txs[j].of = i
        BY <1>3, <1>4, <3>1, NoTxAssumption DEF Fresh, Settled
      <3>2. ASSUME NEW j \in TxIds, Posted(j), txs[j].of = i
            PROVE  txs'[j] # NoTx /\ txs'[j].of = i
        BY <1>3, <3>2 DEF Settled
      <3>3. QED
        BY <3>1, <3>2
    <2>2. CASE Posted(i)
      <3>1. txs'[i].reversed = txs[i].reversed
        BY <1>3, <2>2 DEF Settled
      <3>2. QED
        BY <2>1, <2>2, <3>1 DEF AnnulmentsMatch
    <2>3. CASE ~Posted(i)
      <3>1. txs'[i].reversed = FALSE
        BY <1>4, <1>5, <2>3 DEF Fresh
      <3>2. ~ \E j \in TxIds : Posted(j) /\ txs[j].of = i
        BY <1>2, <2>3, NoTxAssumption
      <3>3. QED
        BY <2>1, <3>1, <3>2
    <2>4. QED
      BY <2>2, <2>3
  <1>6. ASSUME NEW j \in TxIds, txs'[j] # NoTx, txs'[j].type = "REVERSAL"
        PROVE  txs'[txs'[j].of] # NoTx /\ txs'[j].amount = txs'[txs'[j].of].amount
    <2>1. Posted(j) /\ Settled(j)
      BY <1>3, <1>4, <1>6 DEF Fresh
    <2>2. txs[j].type = "REVERSAL" /\ txs'[j].of = txs[j].of /\ txs'[j].amount = txs[j].amount
      BY <1>6, <2>1 DEF Settled
    <2>3. txs[j].of \in TxIds /\ Posted(txs[j].of)
      BY <2>1, <2>2 DEF RowInv, RowsInv
    <2>4. txs'[txs[j].of] # NoTx /\ txs'[txs[j].of].amount = txs[txs[j].of].amount
      BY <1>3, <2>3 DEF Settled
    <2>5. txs[j].amount = txs[txs[j].of].amount
      BY <2>1, <2>2 DEF AnnulmentsMatch
    <2>6. QED
      BY <2>2, <2>4, <2>5
  <1>7. QED
    BY <1>5, <1>6 DEF AnnulmentsMatch, Posted

LEMMA ReversalMatches ==
    ASSUME RowInv, NEW p \in Procs, PostReversal(p), AnnulmentsMatch
    PROVE  AnnulmentsMatch'
  <1> DEFINE k == req[p].key
             o == original[p]
  <1> PICK i0 \in TxIds : i0 = <<k, 0>>
    <2>1. k \in Keys
      BY ReversalStep DEF RowInv
    <2>2. QED
      BY <2>1, KeyTxIds
  <1> PICK of \in TxIds : of = req[p].of
    BY ReversalStep DEF RowInv
  <1>1. /\ o \in Tx /\ Posted(of) /\ Inserts({i0})
        /\ txs'[i0] = New("REVERSAL", o.cust, o.amount, of)
        /\ txs'[of] = Marked(o)
        /\ \A i \in TxIds \ {i0, of} : txs'[i] = txs[i]
    BY ReversalStep, ReversalInserts DEF RowInv
  <1> HIDE DEF k, o
  <1>2. ~Posted(i0) /\ i0 # of
    BY <1>1 DEF Inserts
  <1>3. /\ txs'[i0].type = "REVERSAL" /\ txs'[i0].amount = o.amount
        /\ txs'[i0].of = of /\ txs'[i0].reversed = FALSE
    BY <1>1 DEF New
  <1>4. txs'[of].reversed = TRUE /\ txs'[of].amount = o.amount
    BY <1>1 DEF Marked, Tx
  <1>5. \A i \in TxIds : Posted(i) =>
            /\ txs'[i] # NoTx
            /\ txs'[i].amount = txs[i].amount /\ txs'[i].type = txs[i].type
            /\ txs'[i].of = txs[i].of
    <2> TAKE i \in TxIds
    <2> HAVE Posted(i)
    <2>1. Keeps(i)
      BY <1>1, <1>2 DEF Inserts
    <2>2. QED
      BY <2>1, KeepsAmount DEF Keeps, RowInv
  <1>6. \A j \in TxIds : Posted(j) => txs[j].of = NoTx \/ (txs[j].of \in TxIds /\ Posted(txs[j].of))
    BY DEF RowInv, RowsInv
  <1>7. \A j \in TxIds : txs'[j] # NoTx <=> Posted(j) \/ j = i0
    BY <1>1, <1>5, NoTxAssumption DEF Inserts
  <1>8. ASSUME NEW i \in TxIds, txs'[i] # NoTx
        PROVE  txs'[i].reversed <=> \E j \in TxIds : txs'[j] # NoTx /\ txs'[j].of = i
    <2>1. CASE i = of
      BY <1>3, <1>4, <1>7, <2>1
    <2>2. CASE i = i0
      <3>1. ASSUME NEW j \in TxIds, txs'[j] # NoTx, txs'[j].of = i0 PROVE FALSE
        BY <1>2, <1>3, <1>5, <1>6, <1>7, <3>1, NoTxAssumption
      <3>2. QED
        BY <1>3, <2>2, <3>1
    <2>3. CASE i # of /\ i # i0
      <3>1. txs'[i] = txs[i] /\ Posted(i)
        BY <1>1, <1>7, <1>8, <2>3
      <3>2. \A j \in TxIds : (txs'[j] # NoTx /\ txs'[j].of = i) <=> (Posted(j) /\ txs[j].of = i)
        BY <1>3, <1>5, <1>7, <1>2, <2>3
      <3>3. QED
        BY <3>1, <3>2 DEF AnnulmentsMatch
    <2>4. QED
      BY <2>1, <2>2, <2>3
  <1>9. ASSUME NEW j \in TxIds, txs'[j] # NoTx, txs'[j].type = "REVERSAL"
        PROVE  txs'[txs'[j].of] # NoTx /\ txs'[j].amount = txs'[txs'[j].of].amount
    <2>1. CASE j = i0
      BY <1>1, <1>3, <1>4, <1>5, <2>1
    <2>2. CASE j # i0
      <3>1. Posted(j) /\ txs[j].type = "REVERSAL"
        BY <1>5, <1>7, <1>9, <2>2
      <3>2. /\ txs[j].of \in TxIds /\ Posted(txs[j].of)
            /\ txs[j].amount = txs[txs[j].of].amount
        BY <3>1 DEF RowInv, RowsInv, AnnulmentsMatch
      <3>3. QED
        BY <1>5, <3>1, <3>2
    <2>3. QED
      BY <2>1, <2>2
  <1>10. QED
    BY <1>8, <1>9 DEF AnnulmentsMatch, Posted

\* A row is marked as annulled exactly when a reversal of it was posted, with its
\* amount, although the mark is saved from a copy read before the lock, and
\* whatever merges move the row meanwhile.  (Annulled twice is still annulled:
\* see ReversedOnce.)
THEOREM MarksAndAmountsPair == Spec => []AnnulmentsMatch
  <1>1. Init => AnnulmentsMatch
    BY DEF Init, AnnulmentsMatch, Posted
  <1>2. RowInv /\ AnnulmentsMatch /\ [Next]_vars => AnnulmentsMatch'
    BY ReversalMatches, OtherStepsKeepMatches
  <1>3. QED
    BY <1>1, <1>2, RowInvariance, PTL DEF Spec

\* An annulment is in the books of the customer whose row it annuls.
SameCustomer ==
    \A j \in TxIds : Posted(j) /\ txs[j].type = "REVERSAL" =>
        txs[j].cust = txs[txs[j].of].cust

\* Rows that are posted stay with their customer when nothing merges.
LEMMA InsertsKeepSameCustomer ==
    ASSUME RowInv, SameCustomer, "merge" \notin Ops, NEW N, Inserts(N),
           NEW j \in TxIds \ N, txs'[j] # NoTx, txs'[j].type = "REVERSAL"
    PROVE  txs'[j].cust = txs'[txs'[j].of].cust
  <1>1. \A i \in TxIds : Posted(i) =>
            /\ txs'[i].cust = txs[i].cust
            /\ txs'[i].type = txs[i].type /\ txs'[i].of = txs[i].of
    BY KeepsAmount DEF Inserts, Keeps, RowInv
  <1>2. Posted(j)
    BY DEF Inserts
  <1>3. txs[j].type = "REVERSAL" /\ txs'[j].of = txs[j].of /\ txs'[j].cust = txs[j].cust
    BY <1>1, <1>2
  <1>4. txs[j].of \in TxIds /\ Posted(txs[j].of)
    BY <1>2, <1>3 DEF RowInv, RowsInv
  <1>5. txs'[txs[j].of].cust = txs[txs[j].of].cust
    BY <1>1, <1>4
  <1>6. QED
    BY <1>2, <1>3, <1>5 DEF SameCustomer

LEMMA NextKeepsSameCustomer ==
    ASSUME RowInv, SameCustomer, [Next]_vars, "merge" \notin Ops
    PROVE  SameCustomer'
  <1> SUFFICES ASSUME NEW j \in TxIds, txs'[j] # NoTx, txs'[j].type = "REVERSAL"
               PROVE  txs'[j].cust = txs'[txs'[j].of].cust
    BY DEF SameCustomer, Posted
  <1>1. CASE \E p \in Procs : PostReversal(p)
    <2> PICK p \in Procs : PostReversal(p)
      BY <1>1
    <2> DEFINE k == req[p].key
               o == original[p]
               of == req[p].of
    <2>1. /\ o \in Tx /\ Inserts({<<k, 0>>})
          /\ txs'[<<k, 0>>] = New("REVERSAL", o.cust, o.amount, of)
          /\ txs'[of] = Marked(o)
      BY ReversalStep, ReversalInserts DEF RowInv
    <2> HIDE DEF k, o, of
    <2>2. CASE j = <<k, 0>>
      BY <2>1, <2>2 DEF New, Marked, Tx
    <2>3. CASE j # <<k, 0>>
      BY <2>1, <2>3, InsertsKeepSameCustomer
    <2>4. QED
      BY <2>2, <2>3
  <1>2. CASE \A p \in Procs : ~PostReversal(p)
    <2>1. ASSUME NEW p \in Procs, MergeCustomers(p) PROVE FALSE
      <3>1. req[p] \in Requests /\ req[p].op = "merge"
        BY <2>1, MergeStep DEF RowInv
      <3>2. QED
        BY <3>1, RequestOps
    <2>2. txs'[j] = txs[j] /\ Posted(j)
      BY <1>2, <2>1, OtherStepsAreFresh DEF Fresh, Posted
    <2>3. txs[j].of \in TxIds /\ Posted(txs[j].of)
      BY <2>2 DEF RowInv, RowsInv
    <2>4. txs'[txs[j].of] = txs[txs[j].of]
      BY <1>2, <2>1, <2>3, OtherStepsAreFresh
    <2>5. QED
      BY <2>2, <2>4 DEF SameCustomer
  <1>3. QED
    BY <1>1, <1>2

\* Without reversals there is no such row.
LEMMA NextPostsNoReversal ==
    ASSUME RowInv, [Next]_vars, "reverse" \notin Ops,
           \A j \in TxIds : Posted(j) => txs[j].type # "REVERSAL"
    PROVE  \A j \in TxIds : Posted(j)' => txs'[j].type # "REVERSAL"
  <1>1. ASSUME NEW p \in Procs, PostReversal(p) PROVE FALSE
    <2>1. req[p] \in Requests /\ req[p].op = "reverse"
      BY <1>1, ReversalStep DEF RowInv
    <2>2. QED
      BY <2>1, RequestOps
  <1>2. CASE \E p \in Procs : MergeCustomers(p)
    BY <1>2, MergeKeepsRows DEF Posted
  <1>3. CASE \A p \in Procs : ~MergeCustomers(p)
    BY <1>1, <1>3, OtherStepsAreFresh DEF Fresh, Posted
  <1>4. QED
    BY <1>2, <1>3

\* An annulment also has the customer of the row it annuls, unless merges and
\* annulments run together: of a row annulled twice around a merge, the second
\* annulment takes the row back to the customer that was merged away.
THEOREM AnnulmentsPair ==
    ASSUME "merge" \notin Ops \/ "reverse" \notin Ops
    PROVE  Spec => []ReversalsPaired
  <1> DEFINE NoReversal == \A j \in TxIds : Posted(j) => txs[j].type # "REVERSAL"
             Paired == SameCustomer /\ ("reverse" \notin Ops => NoReversal)
  <1>1. Init => Paired
    BY DEF Init, SameCustomer, Posted
  <1>2. RowInv /\ Paired /\ [Next]_vars => Paired'
    <2> SUFFICES ASSUME RowInv, Paired, [Next]_vars PROVE Paired'
      OBVIOUS
    <2>1. CASE "reverse" \in Ops
      BY <2>1, NextKeepsSameCustomer
    <2>2. CASE "reverse" \notin Ops
      <3>1. \A j \in TxIds : Posted(j)' => txs'[j].type # "REVERSAL"
        BY <2>2, NextPostsNoReversal
      <3>2. QED
        BY <3>1 DEF SameCustomer
    <2>3. QED
      BY <2>1, <2>2
  <1>3. AnnulmentsMatch /\ Paired => ReversalsPaired
    BY DEF AnnulmentsMatch, SameCustomer, ReversalsPaired
  <1> HIDE DEF Paired
  <1>4. QED
    BY <1>1, <1>2, <1>3, RowInvariance, MarksAndAmountsPair, PTL DEF Spec
-----------------------------------------------------------------------------
(* Ordered locks. *)

\* A handler other than a batch waits for a row above those it holds.
LockInv(p) ==
    pc[p] = "lock" /\ req[p].op # "inflation" =>
        /\ LockSet(p) \ Held(p) # {}
        /\ \A c \in Held(p), d \in LockSet(p) \ Held(p) : c < d

OrderInv == Inv /\ \A p \in Procs : LockInv(p)

LEMMA LockInvFrame ==
    ASSUME NEW p \in Procs, LockInv(p), pc'[p] = pc[p], req'[p] = req[p],
           original'[p] = original[p], \A c \in Customers : lock'[c] = p <=> lock[c] = p
    PROVE  LockInv(p)'
  <1>1. LockSet(p)' = LockSet(p) /\ Held(p)' = Held(p)
    BY DEF LockSet, Held
  <1>2. QED
    BY <1>1 DEF LockInv

\* A handler that begins to lock holds nothing yet.
LEMMA LockInvStart ==
    ASSUME NEW p \in Procs, \A c \in Customers : lock'[c] # p
    PROVE  LockInv(p)'
  <1>1. Held(p)' = {}
    BY DEF Held
  <1>2. req'[p].op # "inflation" => LockSet(p)' # {}
    BY DEF LockSet
  <1>3. QED
    BY <1>1, <1>2 DEF LockInv

LEMMA FinishKeepsOrder ==
    ASSUME OrderInv, NEW q \in Procs, NEW outcome \in Outcomes, Finish(q, outcome), NEW p \in Procs
    PROVE  LockInv(p)'
  <1>1. pc \in [Procs -> Finished \cup InFlight] /\ original \in [Procs -> Tx \cup {NoTx}]
    BY DEF OrderInv, Inv, TypeOK
  <1>2. CASE p = q
    <2>1. pc'[p] # "lock"
      BY <1>1, <1>2 DEF Finish, Outcomes
    <2>2. QED
      BY <2>1 DEF LockInv
  <1>3. CASE p # q
    <2>1. /\ pc'[p] = pc[p] /\ req'[p] = req[p] /\ original'[p] = original[p]
          /\ \A c \in Customers : lock'[c] = p <=> lock[c] = p
      BY <1>1, <1>3, ProcsAssumption DEF Finish
    <2>2. QED
      BY <2>1, LockInvFrame DEF OrderInv
  <1>4. QED
    BY <1>2, <1>3

LEMMA LockKeepsOrder ==
    ASSUME OrderInv, NEW q \in Procs, NEW x \in Customers, Lock(q, x), NEW p \in Procs
    PROVE  LockInv(p)'
  <1>1. /\ pc[q] = "lock" /\ x \in NextLocks(q) /\ lock[x] = NoProc
        /\ lock' = [lock EXCEPT ![x] = q]
        /\ pc' = [pc EXCEPT ![q] = IF LockSet(q) \ Held(q) = {x} THEN "write" ELSE "lock"]
        /\ UNCHANGED <<req, original>>
    BY DEF Lock, Lockable
  <1>2. pc \in [Procs -> Finished \cup InFlight] /\ lock \in [Customers -> Procs \cup {NoProc}]
    BY DEF OrderInv, Inv, TypeOK
  <1>3. CASE p = q
    <2>1. Held(p)' = Held(p) \cup {x} /\ LockSet(p)' = LockSet(p)
      BY <1>1, <1>2, <1>3 DEF Held, LockSet
    <2> SUFFICES ASSUME pc'[p] = "lock", req[p].op # "inflation"
                 PROVE  /\ LockSet(p) \ (Held(p) \cup {x}) # {}
                        /\ \A c \in Held(p) \cup {x}, d \in LockSet(p) \ (Held(p) \cup {x}) : c < d
      BY <1>1, <2>1 DEF LockInv
    <2>2. x \in LockSet(p) \ Held(p) /\ LockSet(p) \ Held(p) # {x}
      BY <1>1, <1>2, <1>3 DEF NextLocks
    <2>3. \A c \in Held(p), d \in LockSet(p) \ Held(p) : c < d
      BY <1>1, <1>3 DEF OrderInv, LockInv
    <2>4. req[p].op = "merge"
      <3>1. CASE req[p].op \notin {"merge", "inflation", "reverse"}
        BY <2>2, <3>1 DEF LockSet
      <3>2. CASE req[p].op = "reverse"
        BY <2>2, <3>2 DEF LockSet
      <3>3. QED
        BY <3>1, <3>2
    <2>5. req[p] \in Requests /\ LockSet(p) \subseteq Nat
      <3>1. req[p] \in Requests
        BY <1>1, <1>3 DEF OrderInv, Inv, HandlerInv, InFlight
      <3>2. LockSet(p) \subseteq Customers
        BY <2>4, <3>1, LockSetType
      <3>3. QED
        BY <3>1, <3>2, CustomersAssumption
    <2>6. \A d \in LockSet(p) \ (Held(p) \cup {x}) : x < d
      <3> TAKE d \in LockSet(p) \ (Held(p) \cup {x})
      <3>1. x <= d /\ x # d
        BY <1>1, <1>3, <2>4 DEF NextLocks
      <3>2. x \in Nat /\ d \in Nat
        BY <2>2, <2>5
      <3>3. QED
        BY <3>1, <3>2
    <2>7. QED
      BY <2>2, <2>3, <2>6
  <1>4. CASE p # q
    <2>1. /\ pc'[p] = pc[p] /\ req'[p] = req[p] /\ original'[p] = original[p]
          /\ \A c \in Customers : lock'[c] = p <=> lock[c] = p
      BY <1>1, <1>2, <1>4, ProcsAssumption
    <2>2. QED
      BY <2>1, LockInvFrame DEF OrderInv
  <1>5. QED
    BY <1>3, <1>4

LEMMA NextKeepsOrder ==
    ASSUME OrderInv, [Next]_vars, NEW p \in Procs
    PROVE  LockInv(p)'
  <1> DEFINE Goal == LockInv(p)'
  <1>1. /\ pc \in [Procs -> Finished \cup InFlight] /\ req \in [Procs -> Requests \cup {NoReq}]
        /\ original \in [Procs -> Tx \cup {NoTx}]
    BY DEF OrderInv, Inv, TypeOK
  <1>2. \A q \in Procs, c \in Customers : lock[c] = q => pc[q] \in {"lock", "write"}
    BY DEF OrderInv, Inv, HandlerInv
  <1>3. ASSUME NEW q \in Procs, NEW r \in Requests, Begin(q, r) \/ Replay(q, r)
        PROVE  LockInv(p)'
    <2>1. /\ pc[q] \in Finished /\ UNCHANGED <<lock, original>>
          /\ req' = [req EXCEPT ![q] = r]
          /\ \E s : pc' = [pc EXCEPT ![q] = s]
      BY <1>3 DEF Begin, Replay
    <2>2. CASE p = q
      <3>1. \A c \in Customers : lock'[c] # p
        BY <1>2, <2>1, <2>2 DEF Finished, Outcomes
      <3>2. QED
        BY <3>1, LockInvStart
    <2>3. CASE p # q
      <3>1. /\ pc'[p] = pc[p] /\ req'[p] = req[p] /\ original'[p] = original[p]
            /\ \A c \in Customers : lock'[c] = p <=> lock[c] = p
        BY <1>1, <2>1, <2>3
      <3>2. QED
        BY <3>1, LockInvFrame DEF OrderInv
    <2>4. QED
      BY <2>2, <2>3
  <1>4. ASSUME NEW q \in Procs, ReadOriginal(q), ~Finish(q, "rejected")
        PROVE  LockInv(p)'
    <2>1. /\ pc[q] = "readOriginal" /\ UNCHANGED <<lock, req>>
          /\ pc' = [pc EXCEPT ![q] = "lock"]
          /\ \E o : original' = [original EXCEPT ![q] = o]
      BY <1>4 DEF ReadOriginal
    <2>2. CASE p = q
      <3>1. \A c \in Customers : lock'[c] # p
        BY <1>2, <2>1, <2>2
      <3>2. QED
        BY <3>1, LockInvStart
    <2>3. CASE p # q
      <3>1. /\ pc'[p] = pc[p] /\ req'[p] = req[p] /\ original'[p] = original[p]
            /\ \A c \in Customers : lock'[c] = p <=> lock[c] = p
        BY <1>1, <2>1, <2>3
      <3>2. QED
        BY <3>1, LockInvFrame DEF OrderInv
    <2>4. QED
      BY <2>2, <2>3
  <1>5. ASSUME NEW q \in Procs, Load(q) \/ SaveSelect(q)
        PROVE  LockInv(p)'
    <2>1. /\ UNCHANGED <<lock, req, original>>
          /\ \E s \in {"diff", "update"} : pc' = [pc EXCEPT ![q] = s]
      BY <1>5 DEF Load, SaveSelect
    <2>2. CASE p = q
      BY <1>1, <2>1, <2>2 DEF LockInv
    <2>3. CASE p # q
      <3>1. /\ pc'[p] = pc[p] /\ req'[p] = req[p] /\ original'[p] = original[p]
            /\ \A c \in Customers : lock'[c] = p <=> lock[c] = p
        BY <1>1, <2>1, <2>3
      <3>2. QED
        BY <3>1, LockInvFrame DEF OrderInv
    <2>4. QED
      BY <2>2, <2>3
  <1>6. ASSUME NEW q \in Procs, NEW outcome \in Outcomes, Finish(q, outcome)
        PROVE  LockInv(p)'
    BY <1>6, FinishKeepsOrder
  <1>7. ASSUME NEW q \in Procs, Crash(q) \/ LockTimeout(q) \/ Reject(q)
                                \/ DuplicateKey(q) \/ Overflow(q) \/ Finish(q, "rejected")
        PROVE  LockInv(p)'
    BY <1>6, <1>7 DEF Crash, LockTimeout, Reject, DuplicateKey, Overflow, Outcomes
  <1>8. ASSUME NEW q \in Procs,
               \/ PostDebt(q) \/ PostPayment(q) \/ PostMixedPayment(q) \/ PostForgiveness(q)
               \/ PostReversal(q) \/ PostInflation(q) \/ SetCreditLimit(q)
               \/ MergeCustomers(q) \/ SaveUpdate(q)
        PROVE  LockInv(p)'
    <2>1. FinishCommitted(q)
      BY <1>8 DEF PostDebt, PostPayment, PostMixedPayment, PostForgiveness,
         PostReversal, PostInflation, SetCreditLimit, MergeCustomers, SaveUpdate
    <2>2. QED
      BY <1>6, <2>1 DEF FinishCommitted, Outcomes
  <1>9. ASSUME UNCHANGED vars PROVE LockInv(p)'
    BY <1>9, LockInvFrame DEF vars, OrderInv
  <1>10. ASSUME Next PROVE LockInv(p)'
    <2>1. PICK q \in Procs :
            \/ \E r \in Requests : Begin(q, r) \/ Replay(q, r)
            \/ Proceed(q)
            \/ Crash(q)
      BY <1>10 DEF Next
    <2>2. ASSUME Proceed(q) PROVE LockInv(p)'
      <3>1. ASSUME Write(q) PROVE LockInv(p)'
        BY <1>7, <1>8, <3>1 DEF Write
      <3>2. ASSUME ReadOriginal(q) PROVE LockInv(p)'
        BY <1>4, <1>7, <3>2
      <3>3. ASSUME NEW c \in Customers, Lock(q, c) PROVE LockInv(p)'
        BY <3>3, LockKeepsOrder
      <3>4. QED
        BY <1>5, <1>7, <1>8, <2>2, <3>1, <3>2, <3>3 DEF Proceed
    <2>3. QED
      BY <1>3, <1>7, <2>1, <2>2
  <1>11. QED
    BY <1>9, <1>10

\* Every row somebody of S holds would be below another such row.
LEMMA OrderedLocksDoNotDeadlock == OrderInv => NoDeadlock
  <1> SUFFICES ASSUME OrderInv,
                      NEW S \in SUBSET {p \in Procs : pc[p] = "lock" /\ req[p].op # "inflation"},
                      S # {}, \A p \in S : \A c \in NextLocks(p) : lock[c] \in S
               PROVE  FALSE
    BY DEF NoDeadlock
  <1> DEFINE W == {c \in Customers : lock[c] \in S}
  <1>1. \A p \in S : LockSet(p) \subseteq Customers
    <2> TAKE p \in S
    <2>1. req[p] \in Requests /\ (req[p].op = "reverse" => original[p] \in Tx)
      BY DEF OrderInv, Inv, HandlerInv, InFlight
    <2>2. QED
      BY <2>1, LockSetType
  <1>2. \A p \in S : NextLocks(p) # {}
    <2> TAKE p \in S
    <2>1. LockSet(p) \ Held(p) # {}
      BY DEF OrderInv, LockInv
    <2>2. CASE req[p].op # "merge"
      BY <2>1, <2>2 DEF NextLocks
    <2>3. CASE req[p].op = "merge"
      <3> DEFINE a == req[p].primary
                 b == req[p].secondary
                 L == LockSet(p) \ Held(p)
      <3>1. LockSet(p) = {a, b}
        BY <2>3 DEF LockSet
      <3>2. a \in Nat /\ b \in Nat
        BY <1>1, <3>1, CustomersAssumption
      <3>3. L \subseteq {a, b} /\ L # {}
        BY <2>1, <3>1
      <3> HIDE DEF a, b, L
      <3>4. \E c \in L : \A d \in L : c <= d
        <4>1. CASE a \in L /\ (b \in L => a <= b)
          BY <3>2, <3>3, <4>1
        <4>2. CASE b \in L /\ (a \in L => b <= a)
          BY <3>2, <3>3, <4>2
        <4>3. a <= b \/ b <= a
          BY <3>2
        <4>4. a \in L \/ b \in L
          BY <3>3
        <4>5. QED
          BY <4>1, <4>2, <4>3, <4>4
      <3>5. QED
        BY <3>4 DEF NextLocks, L
    <2>4. QED
      BY <2>2, <2>3
  <1>3. \A p \in S : \A d \in NextLocks(p) : d \in W
    BY <1>1 DEF NextLocks
  <1>4. \A c \in W : \E d \in W : c < d
    <2> TAKE c \in W
    <2>1. PICK p \in S : lock[c] = p
      OBVIOUS
    <2>2. PICK d \in NextLocks(p) : TRUE
      BY <1>2
    <2>3. c < d
      BY <2>1, <2>2 DEF OrderInv, LockInv, Held, NextLocks
    <2>4. QED
      BY <1>3, <2>2, <2>3
  <1>5. W # {} /\ IsFiniteSet(W) /\ W \subseteq Nat
    <2>1. W # {}
      BY <1>2, <1>3
    <2>2. W \subseteq Customers
      OBVIOUS
    <2>3. QED
      BY <2>1, <2>2, CustomersAssumption, FS_Subset
  <1> HIDE DEF W
  <1> DEFINE Above(c) == {d \in W : d > c}
             F == {Above(c) : c \in W}
  <1>6. PICK T \in F : \A U \in F : U \subseteq T => U = T
    <2>1. F \subseteq SUBSET W /\ F # {}
      BY <1>5
    <2>2. IsFiniteSet(W)
      BY <1>5
    <2> HIDE DEF F
    <2>3. QED
      BY <2>1, <2>2, MinimalSubset
  <1>7. PICK c \in W : T = Above(c)
    OBVIOUS
  <1>8. PICK d \in W : c < d
    BY <1>4
  <1>9. Above(d) \subseteq T /\ d \in T /\ d \notin Above(d)
    <2>1. c \in Nat /\ d \in Nat /\ c < d
      BY <1>5, <1>8
    <2>2. \A x \in W : x > d => x > c
      BY <1>5, <2>1
    <2>3. ~(d > d)
      BY <2>1
    <2>4. QED
      BY <1>7, <1>8, <2>1, <2>2, <2>3
  <1>10. QED
    BY <1>6, <1>9

\* No set of handlers other than batches waits in a circle: a merge locks its
\* two customers in the order of their ids.
THEOREM LocksDoNotDeadlock == Spec => []NoDeadlock
  <1>1. Init => OrderInv
    <2> SUFFICES ASSUME Init PROVE OrderInv
      OBVIOUS
    <2>1. \A p \in Procs : LockInv(p)
      BY DEF Init, LockInv
    <2>2. QED
      BY <2>1, InitEstablishesInv DEF OrderInv
  <1>2. OrderInv /\ [Next]_vars => OrderInv'
    BY NextPreservesInv, NextKeepsOrder DEF OrderInv
  <1>3. QED
    BY <1>1, <1>2, OrderedLocksDoNotDeadlock, PTL DEF Spec
-----------------------------------------------------------------------------
(* The serial ledger. *)

\* The instance has its own copies of the shared definitions.
LEMMA AtomicRequests == Atomic!Requests = Requests
  BY DEF Requests, Atomic!Requests, TxIds, Atomic!TxIds

LEMMA AtomicNew ==
    \A type, cust, amount, of : Atomic!New(type, cust, amount, of) = New(type, cust, amount, of)
  BY DEF New, Atomic!New

LEMMA AtomicSurcharge ==
    \A balance, pct : Atomic!Surcharge(balance, pct) = Surcharge(balance, pct)
  BY DEF Surcharge, Atomic!Surcharge, RoundedQuotient, Atomic!RoundedQuotient

LEMMA AtomicSum == \A f : Atomic!SumFunction(f) = SumFunction(f)
  BY DEF SumFunction, SumFunctionOnSet, FoldFunctionOnSet, MapThenFoldSet,
         Atomic!SumFunction, Atomic!SumFunctionOnSet, Atomic!FoldFunctionOnSet,
         Atomic!MapThenFoldSet
LEMMA AtomicCardinality == \A S : Atomic!Cardinality(S) = Cardinality(S)
  BY DEF Cardinality, Atomic!Cardinality, IsFiniteSet, Atomic!IsFiniteSet

LEMMA AtomicParts ==
    /\ \A a, b : Atomic!Lesser(a, b) = Lesser(a, b)
    /\ \A a, b : Atomic!Greater(a, b) = Greater(a, b)
    /\ \A a, b, c : Atomic!CashPart(a, b, c) = CashPart(a, b, c)
    /\ \A a, b, c : Atomic!TransferPart(a, b, c) = TransferPart(a, b, c)
  BY DEF Lesser, Atomic!Lesser, Greater, Atomic!Greater, CashPart, Atomic!CashPart,
         TransferPart, Atomic!TransferPart, RoundedQuotient, Atomic!RoundedQuotient

LEMMA DebtIsAtomic ==
    ASSUME Inv, NEW p \in Procs, PostDebt(p)
    PROVE  Atomic!Next
  <1> DEFINE r == req[p]
  <1>1. /\ r \in Requests /\ r.op = "debt" /\ ~Posted(<<r.key, 0>>)
        /\ row[r.cust].active /\ row[r.cust].balance + r.amount <= row[r.cust].limit
        /\ txs' = [txs EXCEPT ![<<r.key, 0>>] = New("DEBT", r.cust, r.amount, NoTx)]
        /\ row' = [row EXCEPT ![r.cust].balance = row[r.cust].balance + r.amount]
        /\ UNCHANGED batches
    BY DebtStep
  <1> HIDE DEF r
  <1>2. Atomic!Debt(r)
    BY <1>1, AtomicNew DEF Atomic!Debt, Atomic!Post, Atomic!Balance, Posted
  <1>3. QED
    BY <1>1, <1>2, AtomicRequests DEF Atomic!Next

LEMMA PaymentIsAtomic ==
    ASSUME Inv, NEW p \in Procs, PostPayment(p)
    PROVE  Atomic!Next
  <1> DEFINE r == req[p]
             paid == Lesser(r.amount, row[r.cust].balance)
  <1>1. /\ r \in Requests /\ r.op = "payment" /\ ~Posted(<<r.key, 0>>)
        /\ row[r.cust].balance > 0
        /\ txs' = [txs EXCEPT ![<<r.key, 0>>] = New("PAYMENT", r.cust, paid, NoTx)]
        /\ row' = [row EXCEPT ![r.cust].balance = row[r.cust].balance - paid]
        /\ UNCHANGED batches
    BY PaymentStep
  <1>2. paid = Atomic!Lesser(r.amount, Atomic!Balance(r.cust))
    BY AtomicParts DEF Atomic!Balance
  <1> HIDE DEF r, paid
  <1>3. Atomic!Post(r, "PAYMENT", r.cust, paid, Atomic!Balance(r.cust) - paid)
    BY <1>1, AtomicNew DEF Atomic!Post, Atomic!Balance, Posted
  <1>4. Atomic!Payment(r)
    BY <1>1, <1>2, <1>3 DEF Atomic!Payment, Atomic!Balance
  <1>5. QED
    BY <1>1, <1>4, AtomicRequests DEF Atomic!Next

LEMMA MixedPaymentIsAtomic ==
    ASSUME Inv, NEW p \in Procs, PostMixedPayment(p)
    PROVE  Atomic!Next
  <1> DEFINE r == req[p]
             b == row[r.cust].balance
             cash == CashPart(r.cash, r.transfer, b)
             transfer == TransferPart(r.cash, r.transfer, b)
  <1>1. /\ r \in Requests /\ r.op = "mixed" /\ ~Posted(<<r.key, 0>>)
        /\ b > 0
        /\ cash + transfer = Lesser(r.cash + r.transfer, b)
        /\ txs' = [txs EXCEPT ![<<r.key, 0>>] = New("PAYMENT", r.cust, cash, NoTx),
                              ![<<r.key, 1>>] = New("PAYMENT", r.cust, transfer, NoTx)]
        /\ row' = [row EXCEPT ![r.cust].balance = b - (cash + transfer)]
        /\ UNCHANGED batches
    BY MixedPaymentStep
  <1>2. /\ b = Atomic!Balance(r.cust)
        /\ cash = Atomic!CashPart(r.cash, r.transfer, Atomic!Balance(r.cust))
        /\ transfer = Atomic!TransferPart(r.cash, r.transfer, Atomic!Balance(r.cust))
        /\ Lesser(r.cash + r.transfer, b)
             = Atomic!Lesser(r.cash + r.transfer, Atomic!Balance(r.cust))
    BY AtomicParts DEF Atomic!Balance
  <1> HIDE DEF r, b, cash, transfer
  <1>3. Atomic!MixedPayment(r)
    BY <1>1, <1>2, AtomicNew DEF Atomic!MixedPayment, Posted
  <1>4. QED
    BY <1>1, <1>3, AtomicRequests DEF Atomic!Next

LEMMA ForgivenessIsAtomic ==
    ASSUME Inv, NEW p \in Procs, PostForgiveness(p)
    PROVE  Atomic!Next
  <1> DEFINE r == req[p]
  <1>1. /\ r \in Requests /\ r.op = "forgive" /\ ~Posted(<<r.key, 0>>)
        /\ row[r.cust].balance > 0
        /\ txs' = [txs EXCEPT ![<<r.key, 0>>] =
                        New("FORGIVENESS", r.cust, row[r.cust].balance, NoTx)]
        /\ row' = [row EXCEPT ![r.cust].balance = 0]
        /\ UNCHANGED batches
    BY ForgivenessStep
  <1> HIDE DEF r
  <1>2. Atomic!Forgiveness(r)
    BY <1>1, AtomicNew DEF Atomic!Forgiveness, Atomic!Post, Atomic!Balance, Posted
  <1>3. QED
    BY <1>1, <1>2, AtomicRequests DEF Atomic!Next

LEMMA InflationIsAtomic ==
    ASSUME Inv, NEW p \in Procs, PostInflation(p)
    PROVE  Atomic!Next
  <1> DEFINE r == req[p]
             pct == r.pct
             charged == Charged(pct)
             up(c) == Surcharge(row[c].balance, pct)
             charge(c) == Atomic!Surcharge(Atomic!Balance(c), pct)
             f == [c \in charged |-> up(c)]
             debtors == {c \in Customers : Atomic!Balance(c) > 0 /\ charge(c) > 0}
  <1>1. /\ r \in Requests /\ r.op = "inflation" /\ batches[r.key] = NoTx
        /\ txs' = [i \in TxIds |->
                        IF i[1] = r.key /\ i[2] \in charged
                        THEN New("INFLATION", i[2], up(i[2]), NoTx)
                        ELSE txs[i]]
        /\ row' = [c \in Customers |->
                        IF c \in charged
                        THEN [row[c] EXCEPT !.balance = row[c].balance + up(c)]
                        ELSE row[c]]
        /\ batches' = [batches EXCEPT ![r.key] =
                [affected |-> Cardinality({c \in Customers : row[c].balance > 0}),
                 total |-> SumFunction(f)]]
    BY InflationStep
  <1>2. \A c : charge(c) = up(c)
    BY AtomicSurcharge DEF Atomic!Balance
  <1>3. charged = debtors
    BY <1>2 DEF Charged, Atomic!Balance
  <1>4. Atomic!TxIds = TxIds
    BY DEF TxIds, Atomic!TxIds
  <1>5. Atomic!SumFunction([c \in debtors |-> charge(c)]) = SumFunction(f)
    <2>1. [c \in debtors |-> charge(c)] = f
      BY <1>2, <1>3
    <2>2. QED
      BY <2>1, AtomicSum
  <1> HIDE DEF r, charged, f, debtors
  <1>6. txs' = [i \in Atomic!TxIds |->
                        IF i[1] = r.key /\ i[2] \in debtors
                        THEN Atomic!New("INFLATION", i[2], charge(i[2]), NoTx)
                        ELSE txs[i]]
    BY <1>1, <1>2, <1>3, <1>4, AtomicNew
  <1>7. row' = [c \in Customers |->
                        IF c \in debtors
                        THEN [row[c] EXCEPT !.balance = Atomic!Balance(c) + charge(c)]
                        ELSE row[c]]
    BY <1>1, <1>2, <1>3 DEF Atomic!Balance
  <1>8. batches' = [batches EXCEPT ![r.key] =
                [affected |-> Atomic!Cardinality({c \in Customers : Atomic!Balance(c) > 0}),
                 total |-> Atomic!SumFunction([c \in debtors |-> charge(c)])]]
    BY <1>1, <1>5, AtomicCardinality DEF Atomic!Balance
  <1>9. Atomic!Inflation(r)
    BY <1>1, <1>6, <1>7, <1>8 DEF Atomic!Inflation, debtors
  <1>10. QED
    BY <1>1, <1>9, AtomicRequests DEF Atomic!Next

LEMMA LimitIsAtomic ==
    ASSUME Inv, NEW p \in Procs, SetCreditLimit(p)
    PROVE  Atomic!Next
  <1>1. /\ req[p] \in Requests /\ req[p].op = "limit"
        /\ row' = [row EXCEPT ![req[p].cust].limit = req[p].limit]
        /\ UNCHANGED <<txs, batches>>
    BY LimitStep
  <1>2. Atomic!CreditLimit(req[p])
    BY <1>1 DEF Atomic!CreditLimit
  <1>3. QED
    BY <1>1, <1>2, AtomicRequests DEF Atomic!Next

LEMMA MergeIsAtomic ==
    ASSUME Inv, NEW p \in Procs, MergeCustomers(p)
    PROVE  Atomic!Next
  <1> DEFINE r == req[p]
             a == r.primary
             b == r.secondary
  <1>1. /\ r \in Requests /\ r.op = "merge" /\ a # b
        /\ txs' = [i \in TxIds |->
                    IF txs[i] # NoTx /\ txs[i].cust = b
                    THEN [txs[i] EXCEPT !.cust = a]
                    ELSE txs[i]]
        /\ row' = [row EXCEPT
                    ![a].balance = row[a].balance + row[b].balance,
                    ![a].limit = Greater(row[a].limit, row[b].limit),
                    ![b].balance = 0,
                    ![b].active = FALSE]
        /\ UNCHANGED batches
    BY MergeStep
  <1>2. Atomic!TxIds = TxIds
    BY DEF TxIds, Atomic!TxIds
  <1>3. Atomic!Greater(row[a].limit, row[b].limit) = Greater(row[a].limit, row[b].limit)
    BY AtomicParts
  <1> HIDE DEF r
  <1>4. Atomic!Merge(r)
    BY <1>1, <1>2, <1>3 DEF Atomic!Merge, Atomic!Balance
  <1>5. QED
    BY <1>1, <1>4, AtomicRequests DEF Atomic!Next

\* Without merges the original a reversal has read is still the row it annuls,
\* but for its mark.
LEMMA ReversalIsAtomic ==
    ASSUME RowInv, "merge" \notin Ops, NEW p \in Procs, PostReversal(p)
    PROVE  Atomic!Next
  <1> DEFINE r == req[p]
             o == original[p]
             t == txs[r.of]
             id == <<r.key, 0>>
             b == row[t.cust].balance
  <1>1. /\ pc[p] = "write" /\ r \in Requests /\ r.op = "reverse"
        /\ r.key \in Keys /\ r.of \in TxIds /\ o \in Tx
        /\ ~Posted(id)
        /\ txs' = [txs EXCEPT ![id] = New("REVERSAL", o.cust, o.amount, r.of), ![r.of] = Marked(o)]
        /\ row' = [row EXCEPT ![o.cust].balance = Reverted(o, row[o.cust].balance)]
        /\ UNCHANGED batches
    BY ReversalStep DEF RowInv
  <1>2. /\ Posted(r.of) /\ o.cust = t.cust
        /\ o = [t EXCEPT !.cust = o.cust, !.reversed = o.reversed]
    BY <1>1 DEF RowInv, OriginalInv
  <1>3. t \in Tx
    BY <1>1, <1>2, PostedType DEF RowInv
  <1>4. o.amount = t.amount /\ o.type = t.type /\ Marked(o) = [t EXCEPT !.reversed = TRUE]
    BY <1>1, <1>2, <1>3 DEF Tx, Marked
  <1>5. id \in TxIds /\ id # r.of /\ txs \in [TxIds -> Tx \cup {NoTx}]
    BY <1>1, <1>2, KeyTxIds DEF RowInv, Inv, TypeOK
  <1>6. b \in Nat /\ t.amount \in Nat
    <2>1. t.cust \in Customers /\ t.amount \in Cents
      BY <1>3 DEF Tx
    <2>2. QED
      BY <2>1, AmountsAssumption DEF RowInv, Inv, TypeOK, Row, Cents
  <1> HIDE DEF r, o, t, id, b
  <1>7. Reverted(o, b) = IF t.type \in {"DEBT", "INFLATION"}
                         THEN b - Lesser(t.amount, b) ELSE b + t.amount
    BY <1>4, <1>6 DEF Reverted, Clamp, Lesser
  <1>8. txs' = [txs EXCEPT ![id] = New("REVERSAL", t.cust, t.amount, r.of),
                           ![r.of].reversed = TRUE]
    <2>1. txs' = [txs EXCEPT ![id] = New("REVERSAL", t.cust, t.amount, r.of),
                             ![r.of] = [t EXCEPT !.reversed = TRUE]]
      BY <1>1, <1>2, <1>4
    <2>2. QED
      BY <1>1, <1>5, <2>1 DEF t
  <1>9. Atomic!Reversal(r)
    <2>1. Atomic!Lesser(t.amount, b) = Lesser(t.amount, b) /\ Atomic!Balance(t.cust) = b
      BY AtomicParts DEF Atomic!Balance, b
    <2>2. row' = [row EXCEPT ![t.cust].balance =
                        IF t.type \in {"DEBT", "INFLATION"}
                        THEN b - Lesser(t.amount, b) ELSE b + t.amount]
      BY <1>1, <1>2, <1>7 DEF b
    <2>3. r.op = "reverse" /\ txs[id] = NoTx /\ t # NoTx /\ UNCHANGED batches
      BY <1>1, <1>2 DEF Posted, t
    <2>4. QED
      BY <1>8, <2>1, <2>2, <2>3, AtomicNew DEF Atomic!Reversal, id, t
  <1>10. QED
    BY <1>1, <1>9, AtomicRequests DEF Atomic!Next

\* Every statement of every handler is one operation of the serial ledger, or none.
LEMMA EveryStepIsAtomic ==
    ASSUME RowInv, [Next]_vars, Ops \cap UnlockedOps = {},
           "merge" \notin Ops \/ "reverse" \notin Ops
    PROVE  [Atomic!Next]_(Atomic!tables)
  <1>1. ASSUME NEW p \in Procs, PostReversal(p) PROVE Atomic!Next
    <2>1. req[p] \in Requests /\ req[p].op = "reverse"
      BY <1>1, ReversalStep DEF RowInv
    <2>2. "merge" \notin Ops
      BY <2>1, RequestOps
    <2>3. QED
      BY <1>1, <2>2, ReversalIsAtomic
  <1>2. ASSUME NEW p \in Procs, SaveUpdate(p) PROVE FALSE
    <2>1. req[p] \in Requests /\ req[p].op \in UnlockedOps
      BY <1>2, UnlockedHandler DEF RowInv, SaveUpdate
    <2>2. QED
      BY <2>1, RequestOps
  <1>3. CASE UNCHANGED db
    BY <1>3 DEF db, Atomic!tables
  <1>4. CASE \E p \in Procs :
                \/ PostDebt(p) \/ PostPayment(p) \/ PostForgiveness(p)
                \/ PostMixedPayment(p) \/ PostInflation(p)
                \/ SetCreditLimit(p) \/ MergeCustomers(p)
    <2>1. Atomic!Next
      BY <1>4, DebtIsAtomic, PaymentIsAtomic, MixedPaymentIsAtomic, ForgivenessIsAtomic,
         InflationIsAtomic, LimitIsAtomic, MergeIsAtomic DEF RowInv
    <2>2. QED
      BY <2>1
  <1>5. QED
    BY <1>1, <1>2, <1>3, <1>4, TableSteps

\* Locking makes the handlers atomic: whatever they interleave, crash and retry,
\* the tables go through the operations of the serial ledger.  A merge between
\* the read of an original and its reversal would show, and so would an unlocked
\* save.
THEOREM HandlersImplementAtomic ==
    ASSUME Ops \cap UnlockedOps = {}, "merge" \notin Ops \/ "reverse" \notin Ops
    PROVE  Spec => ImplementsAtomic
  <1>1. Init => Atomic!Init
    BY DEF Init, Atomic!Init, TxIds, Atomic!TxIds
  <1>2. RowInv /\ [Next]_vars => [Atomic!Next]_(Atomic!tables)
    BY EveryStepIsAtomic
  <1>3. QED
    BY <1>1, <1>2, RowInvariance, PTL DEF Spec, ImplementsAtomic, Atomic!Spec
=============================================================================
