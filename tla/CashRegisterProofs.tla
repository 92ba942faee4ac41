------------------------- MODULE CashRegisterProofs --------------------------
(* Theorems about CashRegister, for every value of its constants. *)
EXTENDS CashRegister, TLAPS

-----------------------------------------------------------------------------
(* The inductive invariant. *)

\* What the state of a handler says of its request, of its lock on the tenant
\* and of what it has read.
HandlerInv(p) ==
    /\ pc[p] \in InFlight => req[p] \in Requests
    /\ pc[p] \in {"lock", "act"} => req[p].op \in {"open", "close"}
    /\ pc[p] = "read" => req[p].op = "reverse"
    /\ pc[p] = "insert" =>
        req[p].op = "pay" \/ (req[p].op = "reverse" /\ original[p] \in Payment)
    /\ lock = p <=> pc[p] \in {"act", "freeze"}
    /\ pc[p] \in {"act", "freeze"} => seen[p] = active
    /\ pc[p] = "freeze" => OpenShiftSeen(p) /\ tally[p] \subseteq Uncollected(seen[p])

\* A payment that a closed shift has counted is frozen in it, or annulled: the
\* WHERE clause of a later close does not match it again.
CountedIsFrozen ==
    \A s \in Shifts : IsClosed(s) =>
        \A i \in shift[s].counted :
            /\ pay[i] # NoPay
            /\ pay[i].shift = s \/ pay[i].reversed

Tables ==
    /\ shift \in [Shifts -> Shift]
    /\ pay \in [Payments -> Payment \cup {NoPay}]
    /\ active \in Shifts \cup {NoShift}

Inv ==
    /\ RegisterTypeOK
    /\ OneOpenShift
    /\ CountedIsFrozen
    /\ CountedOnce
    /\ \A p \in Procs : HandlerInv(p)
-----------------------------------------------------------------------------
(* Lemmas about the data and about the end of a transaction. *)

LEMMA RequestFields ==
    ASSUME NEW r \in Requests
    PROVE  /\ r.op \in OpNames
           /\ r.op = "open" => r.opening \in Funds
           /\ r.op = "pay" => /\ r.id \in Payments
                              /\ r.amount \in Amounts
                              /\ r.cash \in BOOLEAN
           /\ r.op = "reverse" => r.of \in Payments
  BY DEF Requests, OpNames

LEMMA UncollectedType ==
    \A s : Uncollected(s) \subseteq Payments
  BY DEF Uncollected

\* A handler other than the one that takes a step keeps its part of the
\* invariant, provided the tables change only while it holds no lock.
LEMMA OtherHandler ==
    ASSUME Inv, NEW q \in Procs,
           pc'[q] = pc[q], req'[q] = req[q], seen'[q] = seen[q],
           tally'[q] = tally[q], original'[q] = original[q],
           lock' = q <=> lock = q,
           lock = q => UNCHANGED tables
    PROVE  HandlerInv(q)'
  <1>1. CASE pc[q] \in {"act", "freeze"}
    <2>1. UNCHANGED <<active, shift, pay>>
      BY <1>1 DEF Inv, HandlerInv, tables
    <2>2. OpenShiftSeen(q)' = OpenShiftSeen(q)
      BY <2>1 DEF OpenShiftSeen
    <2>3. Uncollected(seen[q])' = Uncollected(seen[q])
      BY <2>1 DEF Uncollected
    <2>4. QED
      BY <1>1, <2>1, <2>2, <2>3 DEF Inv, HandlerInv
  <1>2. CASE pc[q] \notin {"act", "freeze"}
    BY <1>2 DEF Inv, HandlerInv
  <1>3. QED
    BY <1>1, <1>2

\* The end of a transaction preserves the invariant when the tables it leaves
\* satisfy their part and nobody else had the tenant locked while they changed.
LEMMA FinishPreservesInv ==
    ASSUME Inv, UNCHANGED nightly, NEW p \in Procs, Finish(p),
           Tables', OneOpenShift', CountedIsFrozen', CountedOnce',
           (UNCHANGED tables) \/ lock \in {p, NoProc}
    PROVE  Inv'
  <1>1. RegisterTypeOK'
    <2>1. pc' \in [Procs -> InFlight \cup {"idle"}] /\ lock' \in Procs \cup {NoProc}
      BY DEF Inv, RegisterTypeOK, Finish
    <2>2. start' \in [Procs -> 0..MaxClock] /\ clock' \in 0..MaxClock
      BY RegisterClockAssumption DEF Inv, RegisterTypeOK, Finish
    <2>3. /\ req' \in [Procs -> Requests \cup {NoReq}]
          /\ seen' \in [Procs -> Shifts \cup {NoShift}]
          /\ original' \in [Procs -> Payment \cup {NoPay}]
      BY DEF Inv, RegisterTypeOK, Finish
    <2>4. tally' \in [Procs -> SUBSET Payments]
      BY DEF Inv, RegisterTypeOK, Finish
    <2>5. QED
      BY <2>1, <2>2, <2>3, <2>4 DEF RegisterTypeOK, Tables, Inv, nightly
  <1>2. ASSUME NEW q \in Procs PROVE HandlerInv(q)'
    <2>1. CASE q = p
      <3>1. pc'[p] = "idle" /\ lock' # p
        BY RegisterProcsAssumption DEF Inv, RegisterTypeOK, Finish
      <3>2. QED
        BY <2>1, <3>1 DEF HandlerInv, InFlight
    <2>2. CASE q # p
      <3>1. /\ pc'[q] = pc[q] /\ req'[q] = req[q] /\ seen'[q] = seen[q]
            /\ tally'[q] = tally[q] /\ original'[q] = original[q]
        BY <2>2 DEF Inv, RegisterTypeOK, Finish
      <3>2. lock' = q <=> lock = q
        BY <2>2, RegisterProcsAssumption DEF Finish
      <3>3. lock = q => UNCHANGED tables
        BY <2>2, RegisterProcsAssumption
      <3>4. QED
        BY <3>1, <3>2, <3>3, OtherHandler
    <2>3. QED
      BY <2>1, <2>2
  <1>3. QED
    BY <1>1, <1>2 DEF Inv

\* A rollback changes no table.
LEMMA RollbackPreservesInv ==
    ASSUME Inv, UNCHANGED nightly, NEW p \in Procs, Finish(p), UNCHANGED tables
    PROVE  Inv'
  <1>1. Tables'
    BY DEF Inv, RegisterTypeOK, Tables, tables
  <1>2. OneOpenShift' /\ CountedIsFrozen' /\ CountedOnce'
    BY DEF Inv, OneOpenShift, CountedIsFrozen, CountedOnce, IsOpen, IsClosed, tables,
         nightly
  <1>3. QED
    BY <1>1, <1>2, FinishPreservesInv
-----------------------------------------------------------------------------
(* The steps of Next. *)

\* A step that changes no table and only its own handler's memory.
LEMMA QuietStepPreservesInv ==
    ASSUME Inv, UNCHANGED nightly, NEW p \in Procs, UNCHANGED tables,
           RegisterTypeOK', HandlerInv(p)',
           \A q \in Procs \ {p} :
               /\ pc'[q] = pc[q] /\ req'[q] = req[q] /\ seen'[q] = seen[q]
               /\ tally'[q] = tally[q] /\ original'[q] = original[q]
               /\ lock' = q <=> lock = q
    PROVE  Inv'
  <1>1. OneOpenShift' /\ CountedIsFrozen' /\ CountedOnce'
    BY DEF Inv, OneOpenShift, CountedIsFrozen, CountedOnce, IsOpen, IsClosed, tables,
         nightly
  <1>2. ASSUME NEW q \in Procs \ {p} PROVE HandlerInv(q)'
    BY OtherHandler
  <1>3. QED
    BY <1>1, <1>2 DEF Inv

LEMMA BeginPreservesInv ==
    ASSUME Inv, UNCHANGED nightly, NEW p \in Procs, NEW r \in Requests, Begin(p, r)
    PROVE  Inv'
  <1>1. r.op \in OpNames
    BY RequestFields
  <1>2. /\ pc'[p] \in {"lock", "read", "insert"}
        /\ req'[p] = r
        /\ pc'[p] = "lock" => r.op \in {"open", "close"}
        /\ pc'[p] = "read" => r.op = "reverse"
        /\ pc'[p] = "insert" => r.op = "pay"
        /\ pc[p] = "idle"
    BY <1>1 DEF Begin, OpNames, Inv, RegisterTypeOK
  <1>3. RegisterTypeOK'
    <2>1. clock' \in 0..MaxClock
      BY RegisterClockAssumption DEF Begin, Inv, RegisterTypeOK
    <2>2. pc' \in [Procs -> InFlight \cup {"idle"}]
      BY <1>2 DEF Begin, Inv, RegisterTypeOK, InFlight
    <2>3. start' \in [Procs -> 0..MaxClock] /\ req' \in [Procs -> Requests \cup {NoReq}]
      BY <2>1 DEF Begin, Inv, RegisterTypeOK
    <2>4. QED
      BY <2>1, <2>2, <2>3 DEF Begin, Inv, RegisterTypeOK, nightly
  <1>4. HandlerInv(p)'
    BY <1>2 DEF Begin, Inv, HandlerInv
  <1>5. UNCHANGED tables
    BY DEF Begin, tables
  <1>6. QED
    BY <1>3, <1>4, <1>5, QuietStepPreservesInv DEF Begin, Inv, RegisterTypeOK

LEMMA LockPreservesInv ==
    ASSUME Inv, UNCHANGED nightly, NEW p \in Procs, Lock(p)
    PROVE  Inv'
  <1>1. RegisterTypeOK'
    BY DEF Lock, Inv, RegisterTypeOK, InFlight, nightly
  <1>2. HandlerInv(p)'
    BY DEF Lock, Inv, HandlerInv, InFlight, RegisterTypeOK
  <1>3. UNCHANGED tables
    BY DEF Lock, tables
  <1>4. ASSUME NEW q \in Procs \ {p} PROVE lock' = q <=> lock = q
    BY RegisterProcsAssumption DEF Lock, Lockable
  <1>5. QED
    BY <1>1, <1>2, <1>3, <1>4, QuietStepPreservesInv DEF Lock, Inv, RegisterTypeOK

LEMMA ReadOriginalPreservesInv ==
    ASSUME Inv, UNCHANGED nightly, NEW p \in Procs, ReadOriginal(p)
    PROVE  Inv'
  <1>1. req[p] \in Requests /\ req[p].op = "reverse" /\ req[p].of \in Payments
    BY RequestFields DEF ReadOriginal, Inv, HandlerInv, InFlight
  <1>2. pay[req[p].of] \in Payment
    BY <1>1 DEF ReadOriginal, Inv, RegisterTypeOK
  <1>3. RegisterTypeOK'
    BY <1>2 DEF ReadOriginal, Inv, RegisterTypeOK, InFlight, nightly
  <1>4. HandlerInv(p)'
    BY <1>1, <1>2 DEF ReadOriginal, Inv, HandlerInv, RegisterTypeOK
  <1>5. UNCHANGED tables
    BY DEF ReadOriginal, tables
  <1>6. QED
    BY <1>3, <1>4, <1>5, QuietStepPreservesInv DEF ReadOriginal, Inv, RegisterTypeOK

LEMMA SumPreservesInv ==
    ASSUME Inv, UNCHANGED nightly, NEW p \in Procs, Sum(p)
    PROVE  Inv'
  <1>1. tally'[p] \subseteq Uncollected(seen[p])
    BY DEF Sum, Inv, RegisterTypeOK
  <1>2. RegisterTypeOK'
    <2>1. tally' \in [Procs -> SUBSET Payments]
      BY UncollectedType DEF Sum, Inv, RegisterTypeOK
    <2>2. QED
      BY <2>1 DEF Sum, Inv, RegisterTypeOK, InFlight, nightly
  <1>3. UNCHANGED tables
    BY DEF Sum, tables
  <1>4. HandlerInv(p)'
    <2>1. Uncollected(seen[p])' = Uncollected(seen[p]) /\ OpenShiftSeen(p)'
      BY DEF Sum, Uncollected, OpenShiftSeen
    <2>2. QED
      BY <1>1, <2>1 DEF Sum, Inv, HandlerInv, RegisterTypeOK, InFlight
  <1>5. QED
    BY <1>2, <1>3, <1>4, QuietStepPreservesInv DEF Sum, Inv, RegisterTypeOK

LEMMA OpenPreservesInv ==
    ASSUME Inv, UNCHANGED nightly, NEW p \in Procs, NEW s \in Shifts,
           NEW skew \in -MaxSkew..MaxSkew,
           Open(p, s, skew)
    PROVE  Inv'
  <1> DEFINE opened == [status |-> "OPEN", opened |-> clock + skew,
                        opening |-> req[p].opening, expected |-> 0, counted |-> {}]
  <1>1. lock = p /\ active = NoShift /\ shift[s].status = "NONE"
    BY DEF Open, MayOpen, Inv, HandlerInv
  <1>2. opened \in Shift
    <2>1. req[p].opening \in Cents
      BY RequestFields, RegisterAmountsAssumption DEF Open, Inv, HandlerInv, InFlight, Cents
    <2>2. clock + skew \in Int /\ 0 \in Cents
      BY RegisterClockAssumption, RegisterAmountsAssumption
         DEF Inv, RegisterTypeOK, Cents
    <2>3. QED
      BY <2>1, <2>2 DEF Shift
  <1>3. shift' = [shift EXCEPT ![s] = opened] /\ active' = s /\ pay' = pay /\ Finish(p)
    BY DEF Open
  <1> HIDE DEF opened
  <1>4. shift'[s] = opened /\ \A t \in Shifts \ {s} : shift'[t] = shift[t]
    BY <1>3 DEF Inv, RegisterTypeOK
  <1>5. opened.status = "OPEN"
    BY DEF opened
  <1>6. Tables'
    BY <1>2, <1>3 DEF Tables, Inv, RegisterTypeOK
  <1>7. OneOpenShift'
    BY <1>1, <1>3, <1>4, <1>5, RegisterShiftsAssumption DEF Inv, OneOpenShift, IsOpen, nightly
  <1>8. CountedIsFrozen'
    BY <1>3, <1>4, <1>5 DEF Inv, CountedIsFrozen, IsClosed
  <1>9. CountedOnce'
    BY <1>4, <1>5 DEF Inv, CountedOnce, IsClosed
  <1>10. QED
    BY <1>1, <1>3, <1>6, <1>7, <1>8, <1>9, FinishPreservesInv

LEMMA ClosePreservesInv ==
    ASSUME Inv, UNCHANGED nightly, NEW p \in Procs, Close(p)
    PROVE  Inv'
  <1> DEFINE s == seen[p]
             closed == [shift[s] EXCEPT !.status = "CLOSED", !.expected = Expected(p),
                                        !.counted = tally[p]]
  <1>1. /\ lock = p /\ s = active /\ s \in Shifts /\ shift[s].status = "OPEN"
        /\ tally[p] \subseteq Uncollected(s)
    BY DEF Close, Inv, HandlerInv, OpenShiftSeen, RegisterTypeOK
  <1>2. closed \in Shift /\ closed.status = "CLOSED" /\ closed.counted = tally[p]
    <2>1. shift[s] \in Shift /\ Expected(p) \in Cents /\ tally[p] \in SUBSET Payments
      BY <1>1 DEF Close, Accepted, Inv, RegisterTypeOK
    <2>2. QED
      BY <2>1 DEF Shift
  <1>3. /\ shift' = [shift EXCEPT ![s] = closed]
        /\ pay' = [i \in Payments |->
                IF i \in Uncollected(s) THEN [pay[i] EXCEPT !.shift = s] ELSE pay[i]]
        /\ active' = NoShift
        /\ Finish(p)
    BY DEF Close
  <1> HIDE DEF closed
  <1>4. shift'[s] = closed /\ \A t \in Shifts \ {s} : shift'[t] = shift[t]
    BY <1>1, <1>3 DEF Inv, RegisterTypeOK
  <1>5. ASSUME NEW i \in Payments
        PROVE  /\ pay'[i] \in Payment \cup {NoPay}
               /\ i \in Uncollected(s) =>
                    /\ pay[i] # NoPay /\ ~pay[i].reversed /\ pay[i].shift = NoShift
                    /\ pay'[i] # NoPay /\ pay'[i].shift = s
               /\ i \notin Uncollected(s) => pay'[i] = pay[i]
    <2>1. CASE i \in Uncollected(s)
      <3>1. pay[i] # NoPay /\ ~pay[i].reversed /\ pay[i].shift = NoShift
        BY <2>1 DEF Uncollected
      <3>2. pay[i] \in Payment
        BY <3>1 DEF Inv, RegisterTypeOK
      <3>3. pay'[i] = [pay[i] EXCEPT !.shift = s]
        BY <1>3, <2>1
      <3>4. pay'[i] \in Payment /\ pay'[i].shift = s
        BY <1>1, <3>2, <3>3 DEF Payment
      <3>5. QED
        BY <2>1, <3>1, <3>4, RegisterNoPayAssumption
    <2>2. CASE i \notin Uncollected(s)
      BY <1>3, <2>2 DEF Inv, RegisterTypeOK
    <2>3. QED
      BY <2>1, <2>2
  <1>6. Tables'
    <2>1. pay' \in [Payments -> Payment \cup {NoPay}]
      BY <1>3, <1>5
    <2>2. shift' \in [Shifts -> Shift]
      BY <1>2, <1>3 DEF Inv, RegisterTypeOK
    <2>3. QED
      BY <1>3, <2>1, <2>2 DEF Tables
  <1>7. OneOpenShift'
    BY <1>1, <1>2, <1>3, <1>4, RegisterShiftsAssumption DEF Inv, OneOpenShift, IsOpen, nightly
  \* What an earlier close has counted is frozen or annulled, so not in tally.
  <1>8. ASSUME NEW t \in Shifts, t # s, IsClosed(t)
        PROVE  \A i \in shift[t].counted :
                   i \in Payments /\ i \notin Uncollected(s)
    <2>1. shift[t].counted \subseteq Payments
      BY DEF Inv, RegisterTypeOK, Shift
    <2>2. \A i \in shift[t].counted : pay[i].shift # NoShift \/ pay[i].reversed
      BY <1>8, RegisterShiftsAssumption DEF Inv, CountedIsFrozen
    <2>3. QED
      BY <1>5, <2>1, <2>2
  <1>9. CountedIsFrozen'
    <2> SUFFICES ASSUME NEW t \in Shifts, IsClosed(t)', NEW i \in shift'[t].counted
                 PROVE  pay'[i] # NoPay /\ (pay'[i].shift = t \/ pay'[i].reversed)
      BY DEF CountedIsFrozen
    <2>1. CASE t = s
      <3>1. i \in Uncollected(s)
        BY <1>1, <1>2, <1>4, <2>1
      <3>2. QED
        BY <1>5, <2>1, <3>1, UncollectedType
    <2>2. CASE t # s
      <3>1. IsClosed(t) /\ i \in shift[t].counted
        BY <1>4, <2>2 DEF IsClosed
      <3>2. pay'[i] = pay[i]
        BY <1>5, <1>8, <2>2, <3>1
      <3>3. QED
        BY <3>1, <3>2 DEF Inv, CountedIsFrozen
    <2>3. QED
      BY <2>1, <2>2
  <1>10. CountedOnce'
    <2>1. ASSUME NEW t \in Shifts, t # s, IsClosed(t)'
          PROVE  IsClosed(t) /\ shift'[t].counted = shift[t].counted
                 /\ shift[t].counted \cap shift'[s].counted = {}
      <3>1. IsClosed(t) /\ shift'[t].counted = shift[t].counted
        BY <1>4, <2>1 DEF IsClosed
      <3>2. shift'[s].counted \subseteq Uncollected(s)
        BY <1>1, <1>2, <1>4
      <3>3. QED
        BY <1>8, <2>1, <3>1, <3>2
    <2>2. QED
      BY <2>1 DEF Inv, CountedOnce
  <1>11. QED
    BY <1>1, <1>3, <1>6, <1>7, <1>9, <1>10, FinishPreservesInv

\* A payment row that gains or replaces a value which is not NoPay, and that no
\* closed shift has counted unless it is annulled now, disturbs no shift.
LEMMA PaymentPreservesInv ==
    ASSUME Inv, UNCHANGED nightly, NEW p \in Procs, NEW i \in Payments, NEW row \in Payment,
           lock = NoProc, Finish(p), UNCHANGED <<active, shift>>,
           pay' = [pay EXCEPT ![i] = row],
           pay[i] = NoPay \/ row.reversed
    PROVE  Inv'
  <1>1. pay'[i] = row /\ \A j \in Payments \ {i} : pay'[j] = pay[j]
    BY DEF Inv, RegisterTypeOK
  <1>2. Tables'
    BY DEF Tables, Inv, RegisterTypeOK
  <1>3. OneOpenShift' /\ CountedOnce'
    BY DEF Inv, OneOpenShift, CountedOnce, IsOpen, IsClosed, nightly
  <1>4. CountedIsFrozen'
    <2> SUFFICES ASSUME NEW s \in Shifts, IsClosed(s), NEW j \in shift[s].counted
                 PROVE  pay'[j] # NoPay /\ (pay'[j].shift = s \/ pay'[j].reversed)
      BY DEF CountedIsFrozen, IsClosed
    <2>1. j \in Payments
      BY DEF Inv, RegisterTypeOK, Shift
    <2>2. pay[j] # NoPay /\ (pay[j].shift = s \/ pay[j].reversed)
      BY DEF Inv, CountedIsFrozen
    <2>3. CASE j = i
      BY <1>1, <2>2, <2>3, RegisterNoPayAssumption
    <2>4. CASE j # i
      BY <1>1, <2>1, <2>2, <2>4
    <2>5. QED
      BY <2>3, <2>4
  <1>5. QED
    BY <1>2, <1>3, <1>4, FinishPreservesInv

LEMMA PayPreservesInv ==
    ASSUME Inv, UNCHANGED nightly, NEW p \in Procs, Pay(p)
    PROVE  Inv'
  <1> DEFINE row == [created |-> start[p], amount |-> req[p].amount, cash |-> req[p].cash,
                     reversed |-> FALSE, shift |-> NoShift]
  <1>1. /\ req[p].id \in Payments /\ req[p].amount \in Cents /\ req[p].cash \in BOOLEAN
        /\ pay[req[p].id] = NoPay
    BY RequestFields, RegisterAmountsAssumption
       DEF Pay, Inv, HandlerInv, InFlight, Cents
  <1>2. row \in Payment
    BY <1>1 DEF Payment, Inv, RegisterTypeOK
  <1>3. /\ lock = NoProc /\ Finish(p) /\ UNCHANGED <<active, shift>>
        /\ pay' = [pay EXCEPT ![req[p].id] = row]
    BY DEF Pay, Insertable
  <1> HIDE DEF row
  <1>4. QED
    BY <1>1, <1>2, <1>3, PaymentPreservesInv

LEMMA ReversePreservesInv ==
    ASSUME Inv, UNCHANGED nightly, NEW p \in Procs, Reverse(p)
    PROVE  Inv'
  <1>1. req[p].of \in Payments /\ original[p] \in Payment
    BY RequestFields DEF Reverse, Inv, HandlerInv, InFlight
  <1>2. Saved(p) \in Payment /\ Saved(p).reversed
    BY <1>1 DEF Saved, Payment
  <1>3. /\ lock = NoProc /\ Finish(p) /\ UNCHANGED <<active, shift>>
        /\ pay' = [pay EXCEPT ![req[p].of] = Saved(p)]
    BY DEF Reverse, Insertable
  <1>4. QED
    BY <1>1, <1>2, <1>3, PaymentPreservesInv

\* The nightly job writes the semaphore only while nobody has the tenant locked;
\* when it changes it, `undone` remembers.
LEMMA NightlyPreservesInv ==
    ASSUME Inv, Nightly
    PROVE  Inv'
  <1>1. /\ UNCHANGED <<shift, pay, lock, clock, handlers>>
        /\ active' # active => lock = NoProc /\ undone'
        /\ undone => undone'
    BY DEF Nightly, CronFind, CronSelect, CronUpdate, CronFail, Lockable, tables, Inv,
           RegisterTypeOK
  <1>2. active' \in Shifts \cup {NoShift} /\ cron' \in Cron /\ undone' \in BOOLEAN
    <2>1. active \in Shifts \cup {NoShift} /\ cron \in Cron /\ undone \in BOOLEAN
      BY DEF Inv, RegisterTypeOK
    <2>2. CronIdle \in Cron
      BY DEF CronIdle, Cron
    <2>3. CASE CronFind
      BY <2>1, <2>3 DEF CronFind, Cron, tables
    <2>4. CASE CronSelect
      BY <2>1, <2>4 DEF CronSelect, Cron, tables
    <2>5. CASE CronUpdate
      BY <2>1, <2>2, <2>5 DEF CronUpdate, Cron
    <2>6. CASE CronFail
      BY <2>1, <2>2, <2>6 DEF CronFail, tables
    <2>7. QED
      BY <2>3, <2>4, <2>5, <2>6 DEF Nightly
  <1>3. RegisterTypeOK'
    BY <1>1, <1>2 DEF handlers, Inv, RegisterTypeOK
  <1>4. OneOpenShift'
    BY <1>1 DEF Inv, OneOpenShift, IsOpen
  <1>5. CountedIsFrozen' /\ CountedOnce'
    BY <1>1 DEF Inv, CountedIsFrozen, CountedOnce, IsClosed
  <1>6. ASSUME NEW p \in Procs PROVE HandlerInv(p)'
    <2>1. lock = p => active' = active
      BY <1>1, RegisterProcsAssumption
    <2>2. QED
      BY <1>1, <2>1, OtherHandler DEF handlers, tables
  <1>7. QED
    BY <1>3, <1>4, <1>5, <1>6 DEF Inv
-----------------------------------------------------------------------------
(* The theorems. *)

LEMMA InitEstablishesInv == Init => Inv
  <1> SUFFICES ASSUME Init PROVE Inv
    OBVIOUS
  <1>1. NotOpened \in Shift /\ NotOpened.status = "NONE"
    BY RegisterAmountsAssumption DEF NotOpened, Shift, Cents
  <1>2. \A s \in Shifts : shift[s] = NotOpened
    BY DEF Init
  <1>3. RegisterTypeOK
    <2>1. CronIdle \in Cron
      BY DEF CronIdle, Cron
    <2>2. undone \in BOOLEAN
      BY Zenon DEF Init
    <2>3. cron \in Cron
      BY <2>1 DEF Init
    <2>4. QED
      BY <1>1, <2>2, <2>3, RegisterClockAssumption DEF Init, RegisterTypeOK
  <1>4. OneOpenShift
    BY <1>1, <1>2, RegisterShiftsAssumption DEF Init, OneOpenShift, IsOpen
  <1>5. CountedIsFrozen /\ CountedOnce
    BY <1>1, <1>2 DEF CountedIsFrozen, CountedOnce, IsClosed
  <1>6. \A p \in Procs : HandlerInv(p)
    BY RegisterProcsAssumption DEF Init, HandlerInv, InFlight
  <1>7. QED
    BY <1>3, <1>4, <1>5, <1>6 DEF Inv

LEMMA NextPreservesInv == Inv /\ [Next]_vars => Inv'
  <1> SUFFICES ASSUME Inv, [Next]_vars PROVE Inv'
    OBVIOUS
  <1>1. CASE UNCHANGED vars
    <2>1. RegisterTypeOK' /\ OneOpenShift' /\ CountedIsFrozen' /\ CountedOnce'
      BY <1>1 DEF vars, Inv, RegisterTypeOK, OneOpenShift, CountedIsFrozen,
                  CountedOnce, IsOpen, IsClosed, tables, handlers, nightly
    <2>2. ASSUME NEW q \in Procs PROVE HandlerInv(q)'
      BY <1>1, OtherHandler DEF vars, tables, handlers
    <2>3. QED
      BY <2>1, <2>2 DEF Inv
  <1>2. CASE Handle /\ UNCHANGED nightly
    <2>2. ASSUME NEW p \in Procs, NEW r \in Requests, Begin(p, r) PROVE Inv'
      BY <1>2, <2>2, BeginPreservesInv
    <2>3. ASSUME NEW p \in Procs, Fail(p) \/ RefuseOpen(p) \/ RefuseClose(p) PROVE Inv'
      BY <1>2, <2>3, RollbackPreservesInv DEF Fail, RefuseOpen, RefuseClose
    <2>4. ASSUME NEW p \in Procs, Lock(p) \/ ReadOriginal(p) \/ Sum(p) PROVE Inv'
      BY <1>2, <2>4, LockPreservesInv, ReadOriginalPreservesInv, SumPreservesInv
    <2>5. ASSUME NEW p \in Procs, NEW s \in Shifts, NEW skew \in -MaxSkew..MaxSkew,
                 Open(p, s, skew)
          PROVE  Inv'
      BY <1>2, <2>5, OpenPreservesInv
    <2>6. ASSUME NEW p \in Procs, Close(p) \/ Pay(p) \/ Reverse(p) PROVE Inv'
      BY <1>2, <2>6, ClosePreservesInv, PayPreservesInv, ReversePreservesInv
    <2>7. QED
      BY <1>2, <2>2, <2>3, <2>4, <2>5, <2>6 DEF Handle, Proceed
  <1>3. CASE Nightly
    BY <1>3, NightlyPreservesInv
  <1>4. QED
    BY <1>1, <1>2, <1>3 DEF Next

THEOREM RegisterInvariance == Spec => []Inv
  BY InitEstablishesInv, NextPreservesInv, PTL DEF Spec

\* Every reachable state of the register is well typed: no close stores a sum
\* that the int4 column cannot hold.
THEOREM RegisterTypeCorrect == Spec => []RegisterTypeOK
  <1>1. Inv => RegisterTypeOK
    BY DEF Inv
  <1>2. QED
    BY <1>1, RegisterInvariance, PTL

\* However many cashiers open and close at once, the tenant's semaphore names the
\* one shift that is open, and is free exactly when none is, until the nightly job
\* saves an entity it read before an open or a close.
THEOREM SemaphoreNamesTheOpenShift == Spec => []OneOpenShift
  <1>1. Inv => OneOpenShift
    BY DEF Inv
  <1>2. QED
    BY <1>1, RegisterInvariance, PTL

\* No payment is collected by two shifts, however far Node's clock is from
\* PostgreSQL's, whatever is annulled meanwhile, and even if the nightly job has
\* freed the semaphore of an open shift, so that two are open at once.
THEOREM NoPaymentCountedTwice == Spec => []CountedOnce
  <1>1. Inv => CountedOnce
    BY DEF Inv
  <1>2. QED
    BY <1>1, RegisterInvariance, PTL

\* The steps that change shifts and payments.
LEMMA TableSteps ==
    ASSUME Next
    PROVE  \/ UNCHANGED <<shift, pay>>
           \/ \E p \in Procs : Close(p) \/ Pay(p) \/ Reverse(p)
           \/ \E p \in Procs, s \in Shifts, skew \in -MaxSkew..MaxSkew : Open(p, s, skew)
  BY DEF Next, Handle, Nightly, CronFind, CronSelect, CronUpdate, CronFail,
         Proceed, Begin, Lock, RefuseOpen, Sum, RefuseClose, ReadOriginal, Fail, tables

\* Nothing reopens, closes again or alters a closed shift: a close acts on the
\* shift that the semaphore names, and that one is open.
THEOREM ClosedShiftsStayClosed == Spec => ClosedShiftsAreFinal
  <1>1. Inv /\ [Next]_vars => [\A s \in Shifts : IsClosed(s) => shift'[s] = shift[s]]_vars
    <2> SUFFICES ASSUME Inv, Next, NEW s \in Shifts, IsClosed(s)
                 PROVE  shift'[s] = shift[s]
      OBVIOUS
    <2>1. ASSUME NEW p \in Procs, NEW t \in Shifts, NEW skew \in -MaxSkew..MaxSkew,
                 Open(p, t, skew)
          PROVE  shift'[s] = shift[s]
      BY <2>1 DEF Open, IsClosed, Inv, RegisterTypeOK
    <2>2. ASSUME NEW p \in Procs, Close(p) PROVE shift'[s] = shift[s]
      <3>1. seen[p] # s
        BY <2>2 DEF Close, Inv, HandlerInv, OpenShiftSeen, IsClosed
      <3>2. QED
        BY <2>2, <3>1 DEF Close, Inv, RegisterTypeOK
    <2>3. ASSUME NEW p \in Procs, Pay(p) \/ Reverse(p) PROVE shift'[s] = shift[s]
      BY <2>3 DEF Pay, Reverse
    <2>4. QED
      BY <2>1, <2>2, <2>3, TableSteps
  <1>2. QED
    BY <1>1, RegisterInvariance, PTL DEF Spec, ClosedShiftsAreFinal

\* A stale entity saved by a reversal takes a payment out of its shift only when
\* it annuls it; a close takes none from another shift.
THEOREM FrozenUntilAnnulled == Spec => OnlyReversalsThaw
  <1>1. Inv /\ [Next]_vars =>
            [\A i \in Payments :
                pay[i] # NoPay /\ pay[i].shift # NoShift /\ pay'[i].shift # pay[i].shift
                    => pay'[i].reversed]_vars
    <2> SUFFICES ASSUME Inv, Next, NEW i \in Payments, pay[i] # NoPay,
                        pay[i].shift # NoShift, pay'[i].shift # pay[i].shift
                 PROVE  pay'[i].reversed
      OBVIOUS
    <2>1. ASSUME NEW p \in Procs, NEW s \in Shifts, NEW skew \in -MaxSkew..MaxSkew,
                 Open(p, s, skew)
          PROVE  pay'[i].reversed
      BY <2>1 DEF Open
    <2>2. ASSUME NEW p \in Procs, Close(p) PROVE pay'[i].reversed
      <3>1. i \notin Uncollected(seen[p])
        BY DEF Uncollected
      <3>2. QED
        BY <2>2, <3>1 DEF Close
    <2>3. ASSUME NEW p \in Procs, Pay(p) PROVE pay'[i].reversed
      BY <2>3 DEF Pay, Inv, RegisterTypeOK
    <2>4. ASSUME NEW p \in Procs, Reverse(p) PROVE pay'[i].reversed
      <3>1. req[p].of \in Payments /\ original[p] \in Payment
        BY <2>4, RequestFields DEF Reverse, Inv, HandlerInv, InFlight
      <3>2. Saved(p).reversed
        BY <3>1 DEF Saved, Payment
      <3>3. req[p].of = i
        BY <2>4, <3>1 DEF Reverse, Inv, RegisterTypeOK
      <3>4. QED
        BY <2>4, <3>2, <3>3 DEF Reverse, Inv, RegisterTypeOK
    <2>5. QED
      BY <2>1, <2>2, <2>3, <2>4, TableSteps
  <1>2. QED
    BY <1>1, RegisterInvariance, PTL DEF Spec, OnlyReversalsThaw
-----------------------------------------------------------------------------
(* What a close counts. *)

\* Payments carry the id of a shift only from its close on; what a close has
\* summed is all that its WHERE clause matches until it commits, since payments
\* and reversals wait for its lock on the tenant.
FrozenByCloses ==
    /\ \A i \in Payments : pay[i] # NoPay /\ pay[i].shift # NoShift => IsClosed(pay[i].shift)
    /\ \A p \in Procs : pc[p] = "insert" /\ req[p].op = "reverse"
                            /\ original[p].shift # NoShift => IsClosed(original[p].shift)

TallyIsExact ==
    \A p \in Procs : pc[p] = "freeze" => tally[p] = {i \in Uncollected(seen[p]) : Cash(i)}

CountsInv == FrozenByCloses /\ TallyIsExact

\* A step that changes no payment and closes or reopens nothing.
LEMMA FrozenByClosesKept ==
    ASSUME Inv, FrozenByCloses, NEW p \in Procs, pay' = pay,
           \A s \in Shifts : IsClosed(s) => IsClosed(s)',
           \A q \in Procs \ {p} :
               pc'[q] = pc[q] /\ req'[q] = req[q] /\ original'[q] = original[q],
           pc'[p] = "insert" /\ req'[p].op = "reverse" =>
               /\ pc[p] = "read" /\ req'[p] = req[p]
               /\ pay[req[p].of] # NoPay /\ original'[p] = pay[req[p].of]
    PROVE  FrozenByCloses'
  <1>1. ASSUME NEW i \in Payments, pay[i] # NoPay, pay[i].shift # NoShift
        PROVE  pay[i].shift \in Shifts /\ IsClosed(pay[i].shift) /\ IsClosed(pay[i].shift)'
    BY <1>1 DEF Inv, RegisterTypeOK, Payment, FrozenByCloses
  <1>2. ASSUME NEW q \in Procs, pc'[q] = "insert", req'[q].op = "reverse",
               original'[q].shift # NoShift
        PROVE  IsClosed(original[q].shift)'
    <2>1. CASE q = p
      <3>1. req[p].of \in Payments
        BY <1>2, <2>1, RequestFields DEF Inv, HandlerInv, InFlight
      <3>2. IsClosed(pay[req[p].of].shift)'
        BY <1>1, <1>2, <2>1, <3>1
      <3>3. original'[q] = pay'[req[p].of]
        BY <1>2, <2>1
      <3>4. IsClosed(pay[req[p].of].shift)' <=> IsClosed(original[q].shift)'
        BY <1>2, <2>1, <3>3 DEF IsClosed
      <3>5. QED
        BY <3>2, <3>4
    <2>2. CASE q # p
      <3>1. /\ pc[q] = "insert" /\ req[q] \in Requests /\ req[q].op = "reverse"
            /\ original'[q] = original[q] /\ original[q] \in Payment
            /\ IsClosed(original[q].shift)
        BY <1>2, <2>2 DEF Inv, HandlerInv, InFlight, FrozenByCloses
      <3>2. original[q].shift \in Shifts
        BY <1>2, <3>1 DEF Payment
      <3>3. IsClosed(original[q].shift)' <=> shift'[original[q].shift].status = "CLOSED"
        BY <3>1 DEF IsClosed
      <3>4. QED
        BY <3>1, <3>2, <3>3 DEF IsClosed
    <2>3. QED
      BY <2>1, <2>2
  <1>3. ASSUME NEW i \in Payments, pay'[i] # NoPay, pay'[i].shift # NoShift
        PROVE  IsClosed(pay[i].shift)'
    BY <1>1, <1>3
  <1>4. QED
    BY <1>2, <1>3 DEF FrozenByCloses

LEMMA TallyIsExactKept ==
    ASSUME Inv, TallyIsExact, NEW p \in Procs,
           \A q \in Procs \ {p} : /\ pc'[q] = pc[q] /\ seen'[q] = seen[q]
                                  /\ tally'[q] = tally[q],
           (UNCHANGED tables) \/ lock \in {p, NoProc},
           pc'[p] = "freeze" => tally'[p] = {i \in Uncollected(seen[p])' : Cash(i)'}
    PROVE  TallyIsExact'
  <1> SUFFICES ASSUME NEW q \in Procs, q # p, pc'[q] = "freeze"
               PROVE  tally'[q] = {i \in Uncollected(seen[q])' : Cash(i)'}
    BY DEF TallyIsExact
  <1>1. pc[q] = "freeze" /\ seen'[q] = seen[q] /\ tally'[q] = tally[q]
    OBVIOUS
  <1>2. lock = q
    BY <1>1 DEF Inv, HandlerInv
  <1>3. shift' = shift /\ pay' = pay
    BY <1>2, RegisterProcsAssumption DEF tables
  <1>4. tally[q] = {i \in Uncollected(seen[q]) : Cash(i)}
    BY <1>1 DEF TallyIsExact
  <1>5. Uncollected(seen[q])' = Uncollected(seen[q]) /\ \A i : Cash(i)' = Cash(i)
    BY <1>1, <1>3 DEF Uncollected, Cash
  <1>6. QED
    BY <1>1, <1>4, <1>5

LEMMA StepKeepsCountsInv ==
    ASSUME Inv, CountsInv, [Next]_vars
    PROVE  CountsInv'
  <1> USE DEF CountsInv
  \* A rollback, or the end of Open.
  <1>1. ASSUME NEW p \in Procs, Finish(p), pay' = pay, (UNCHANGED tables) \/ lock = p,
               \A s \in Shifts : IsClosed(s) => IsClosed(s)'
        PROVE  CountsInv'
    <2>1. pc'[p] = "idle" /\ \A q \in Procs \ {p} :
              /\ pc'[q] = pc[q] /\ req'[q] = req[q] /\ original'[q] = original[q]
              /\ seen'[q] = seen[q] /\ tally'[q] = tally[q]
      BY <1>1 DEF Finish, Inv, RegisterTypeOK
    <2>2. FrozenByCloses'
      BY <1>1, <2>1, FrozenByClosesKept
    <2>3. TallyIsExact'
      BY <1>1, <2>1, TallyIsExactKept
    <2>4. QED
      BY <2>2, <2>3
  <1>2. ASSUME NEW p \in Procs, Fail(p) \/ RefuseOpen(p) \/ RefuseClose(p) PROVE CountsInv'
    BY <1>1, <1>2 DEF Fail, RefuseOpen, RefuseClose, tables, IsClosed
  <1>3. ASSUME NEW p \in Procs, NEW s \in Shifts, NEW skew \in -MaxSkew..MaxSkew, Open(p, s, skew)
        PROVE  CountsInv'
    <2>1. lock = p /\ Finish(p) /\ pay' = pay
      BY <1>3 DEF Open, Inv, HandlerInv
    <2>2. \A t \in Shifts : IsClosed(t) => IsClosed(t)'
      BY <1>3 DEF Open, IsClosed, Inv, RegisterTypeOK
    <2>3. QED
      BY <1>1, <2>1, <2>2
  \* A step within a transaction.
  <1>4. ASSUME NEW p \in Procs, UNCHANGED tables,
               \A q \in Procs \ {p} :
                   /\ pc'[q] = pc[q] /\ req'[q] = req[q] /\ original'[q] = original[q]
                   /\ seen'[q] = seen[q] /\ tally'[q] = tally[q],
               pc'[p] = "insert" /\ req'[p].op = "reverse" =>
                   /\ pc[p] = "read" /\ req'[p] = req[p]
                   /\ pay[req[p].of] # NoPay /\ original'[p] = pay[req[p].of],
               pc'[p] = "freeze" => tally'[p] = {i \in Uncollected(seen[p])' : Cash(i)'}
        PROVE  CountsInv'
    <2>1. FrozenByCloses'
      BY <1>4, FrozenByClosesKept DEF tables, IsClosed
    <2>2. TallyIsExact'
      BY <1>4, TallyIsExactKept
    <2>3. QED
      BY <2>1, <2>2
  <1>5. ASSUME NEW p \in Procs, NEW r \in Requests, Begin(p, r) PROVE CountsInv'
    <2>1. r.op \in OpNames
      BY RequestFields
    <2>2. pc'[p] \in {"lock", "read", "insert"} /\ req'[p] = r
          /\ (pc'[p] = "insert" => r.op = "pay")
      BY <1>5, <2>1 DEF Begin, OpNames, Inv, RegisterTypeOK
    <2>3. UNCHANGED tables /\ \A q \in Procs \ {p} :
              /\ pc'[q] = pc[q] /\ req'[q] = req[q] /\ original'[q] = original[q]
              /\ seen'[q] = seen[q] /\ tally'[q] = tally[q]
      BY <1>5 DEF Begin, Inv, RegisterTypeOK, tables
    <2>4. QED
      BY <1>4, <2>2, <2>3
  <1>6. ASSUME NEW p \in Procs, Lock(p) \/ ReadOriginal(p) PROVE CountsInv'
    <2>1. UNCHANGED tables /\ \A q \in Procs \ {p} :
              /\ pc'[q] = pc[q] /\ req'[q] = req[q] /\ original'[q] = original[q]
              /\ seen'[q] = seen[q] /\ tally'[q] = tally[q]
      BY <1>6 DEF Lock, ReadOriginal, Inv, RegisterTypeOK, tables
    <2>2. CASE Lock(p)
      <3>1. pc'[p] = "act"
        BY <2>2 DEF Lock, Inv, RegisterTypeOK
      <3>2. QED
        BY <1>4, <2>1, <3>1
    <2>3. CASE ReadOriginal(p)
      <3>1. /\ pc[p] = "read" /\ pc'[p] = "insert" /\ req' = req /\ pay[req[p].of] # NoPay
            /\ original'[p] = pay[req[p].of]
        BY <2>3 DEF ReadOriginal, Inv, RegisterTypeOK
      <3>2. QED
        BY <1>4, <2>1, <3>1
    <2>4. QED
      BY <1>6, <2>2, <2>3
  <1>7. ASSUME NEW p \in Procs, Sum(p) PROVE CountsInv'
    <2>1. UNCHANGED tables /\ \A q \in Procs \ {p} :
              /\ pc'[q] = pc[q] /\ req'[q] = req[q] /\ original'[q] = original[q]
              /\ seen'[q] = seen[q] /\ tally'[q] = tally[q]
      BY <1>7 DEF Sum, Inv, RegisterTypeOK, tables
    <2>2. pc'[p] = "freeze" /\ tally'[p] = {i \in Uncollected(seen[p]) : Cash(i)}
      BY <1>7 DEF Sum, Inv, RegisterTypeOK
    <2>3. Uncollected(seen[p])' = Uncollected(seen[p]) /\ \A i : Cash(i)' = Cash(i)
      BY <1>7 DEF Sum, Uncollected, Cash
    <2>4. QED
      BY <1>4, <2>1, <2>2, <2>3
  <1>8. ASSUME NEW p \in Procs, Close(p) \/ Pay(p) \/ Reverse(p) PROVE CountsInv'
    <2>1. pc'[p] = "idle" /\ \A q \in Procs \ {p} :
              /\ pc'[q] = pc[q] /\ req'[q] = req[q] /\ original'[q] = original[q]
              /\ seen'[q] = seen[q] /\ tally'[q] = tally[q]
      BY <1>8 DEF Close, Pay, Reverse, Finish, Inv, RegisterTypeOK
    <2>2. lock \in {p, NoProc}
      BY <1>8 DEF Close, Pay, Reverse, Insertable, Inv, HandlerInv
    <2>3. TallyIsExact'
      BY <2>1, <2>2, TallyIsExactKept
    <2>4. \A s \in Shifts : IsClosed(s) => IsClosed(s)'
      BY <1>8 DEF Close, Pay, Reverse, IsClosed, Inv, RegisterTypeOK, HandlerInv, OpenShiftSeen
    <2>5. ASSUME NEW q \in Procs, pc'[q] = "insert", req'[q].op = "reverse",
                 original'[q].shift # NoShift
          PROVE  IsClosed(original[q].shift)'
      <3>1. /\ q # p /\ pc[q] = "insert" /\ req[q] \in Requests /\ req[q].op = "reverse"
            /\ original'[q] = original[q]
        BY <2>1, <2>5 DEF Inv, HandlerInv, InFlight
      <3>2. original[q] \in Payment /\ IsClosed(original[q].shift) /\ original[q].shift \in Shifts
        BY <2>5, <3>1 DEF Inv, HandlerInv, FrozenByCloses, Payment
      <3>3. QED
        BY <2>4, <3>1, <3>2 DEF IsClosed
    <2>6. ASSUME NEW i \in Payments, pay'[i] # NoPay, pay'[i].shift # NoShift
          PROVE  IsClosed(pay[i].shift)'
      <3>1. CASE pay'[i] = pay[i]
        <4>1. pay[i].shift \in Shifts /\ IsClosed(pay[i].shift)
          BY <2>6, <3>1 DEF Inv, RegisterTypeOK, Payment, FrozenByCloses
        <4>2. QED
          BY <2>4, <3>1, <4>1 DEF IsClosed
      <3>2. CASE Close(p) /\ pay'[i] # pay[i]
        <4>1. i \in Uncollected(seen[p]) /\ pay'[i] = [pay[i] EXCEPT !.shift = seen[p]]
              /\ pay[i] \in Payment
          BY <3>2 DEF Close, Uncollected, Inv, RegisterTypeOK
        <4>2. pay'[i].shift = seen[p] /\ seen[p] \in Shifts
          BY <3>2, <4>1 DEF Close, Payment, Inv, HandlerInv, OpenShiftSeen, RegisterTypeOK
        <4>3. shift'[seen[p]].status = "CLOSED"
          BY <3>2, <4>2 DEF Close, Inv, RegisterTypeOK, Shift
        <4>4. QED
          BY <4>2, <4>3 DEF IsClosed
      <3>3. CASE Pay(p) /\ pay'[i] # pay[i]
        BY <2>6, <3>3 DEF Pay, Inv, RegisterTypeOK
      <3>4. CASE Reverse(p) /\ pay'[i] # pay[i]
        <4>1. /\ req[p].of \in Payments /\ original[p] \in Payment
              /\ pc[p] = "insert" /\ req[p].op = "reverse"
          BY <3>4, RequestFields DEF Reverse, Inv, HandlerInv, InFlight
        <4>2. pay'[i] = Saved(p) /\ Saved(p).shift = original[p].shift
          BY <3>4, <4>1 DEF Reverse, Saved, Payment, Inv, RegisterTypeOK
        <4>3. IsClosed(original[p].shift) /\ original[p].shift \in Shifts
          BY <2>6, <4>1, <4>2 DEF FrozenByCloses, Payment
        <4>4. QED
          BY <2>4, <4>2, <4>3 DEF IsClosed
      <3>5. QED
        BY <1>8, <3>1, <3>2, <3>3, <3>4
    <2>7. FrozenByCloses'
      BY <2>5, <2>6 DEF FrozenByCloses
    <2>8. QED
      BY <2>3, <2>7
  <1>9. CASE UNCHANGED vars
    BY <1>9 DEF vars, tables, handlers, FrozenByCloses, TallyIsExact, IsClosed, Uncollected, Cash
  <1>10. CASE Nightly
    <2>1. UNCHANGED <<shift, pay, handlers>>
      BY <1>10 DEF Nightly, CronFind, CronSelect, CronUpdate, CronFail, tables
    <2>2. QED
      BY <2>1 DEF handlers, FrozenByCloses, TallyIsExact, IsClosed, Uncollected, Cash
  <1>11. QED
    BY <1>2, <1>3, <1>5, <1>6, <1>7, <1>8, <1>9, <1>10 DEF Next, Handle, Proceed

LEMMA CountsInvariance == Spec => []CountsInv
  <1>1. Init => CountsInv
    BY DEF Init, CountsInv, FrozenByCloses, TallyIsExact
  <1>2. QED
    BY <1>1, StepKeepsCountsInv, RegisterInvariance, PTL DEF Spec

\* The sum a close asks of the cashier is that of the opening fund and the cash
\* payments that the close freezes, whatever handlers try to post meanwhile.
THEOREM ClosesCountWhatTheyFreeze == Spec => CloseCountsWhatItFreezes
  <1>1. Inv /\ CountsInv /\ [Next]_vars =>
            [\A s \in Shifts : IsOpen(s) /\ IsClosed(s)' =>
                shift'[s].expected = shift[s].opening +
                    LET frozen == {i \in Payments : pay'[i] # NoPay /\ pay'[i].shift = s /\ pay'[i].cash}
                    IN  SumFunction([i \in frozen |-> pay'[i].amount])]_vars
    <2> SUFFICES ASSUME Inv, CountsInv, Next, NEW s \in Shifts, IsOpen(s), IsClosed(s)'
                 PROVE  shift'[s].expected = shift[s].opening +
                            SumFunction([i \in {j \in Payments : pay'[j] # NoPay /\ pay'[j].shift = s
                                                                 /\ pay'[j].cash} |-> pay'[i].amount])
      OBVIOUS
    <2>1. PICK p \in Procs : Close(p)
      <3>1. ASSUME NEW p \in Procs, NEW t \in Shifts, NEW skew \in -MaxSkew..MaxSkew,
                   Open(p, t, skew)
            PROVE  FALSE
        BY <3>1 DEF Open, IsOpen, IsClosed, Inv, RegisterTypeOK
      <3>2. ASSUME NEW p \in Procs, Pay(p) \/ Reverse(p) PROVE FALSE
        BY <3>2 DEF Pay, Reverse, IsOpen, IsClosed
      <3>3. CASE UNCHANGED <<shift, pay>>
        BY <3>3 DEF IsOpen, IsClosed
      <3>4. QED
        BY <3>1, <3>2, <3>3, TableSteps
    <2>2. seen[p] = s /\ pc[p] = "freeze"
      BY <2>1 DEF Close, IsOpen, IsClosed, Inv, RegisterTypeOK
    <2>3. shift'[s].expected = Expected(p)
      BY <2>1, <2>2 DEF Close, Inv, RegisterTypeOK, Shift
    <2>4. tally[p] = {i \in Uncollected(s) : Cash(i)}
      BY <2>2 DEF CountsInv, TallyIsExact
    <2>5. pay' = [i \in Payments |->
                IF i \in Uncollected(s) THEN [pay[i] EXCEPT !.shift = s] ELSE pay[i]]
      BY <2>1, <2>2 DEF Close
    <2>6. \A i \in Payments : pay[i] # NoPay => pay[i].shift # s
      BY RegisterShiftsAssumption DEF CountsInv, FrozenByCloses, IsOpen, IsClosed
    <2>7. ASSUME NEW i \in Payments
          PROVE  /\ i \in tally[p] <=> pay'[i] # NoPay /\ pay'[i].shift = s /\ pay'[i].cash
                 /\ i \in tally[p] => pay'[i].amount = pay[i].amount
      <3>1. CASE i \in Uncollected(s)
        <4>1. pay[i] \in Payment
          BY <3>1 DEF Uncollected, Inv, RegisterTypeOK
        <4>2. /\ pay'[i] = [pay[i] EXCEPT !.shift = s] /\ pay'[i] \in Payment
              /\ pay'[i].shift = s /\ pay'[i].cash = pay[i].cash
              /\ pay'[i].amount = pay[i].amount
          BY <2>5, <3>1, <4>1 DEF Payment
        <4>3. QED
          BY <2>4, <3>1, <4>2, RegisterNoPayAssumption DEF Cash
      <3>2. CASE i \notin Uncollected(s)
        BY <2>4, <2>5, <2>6, <3>2
      <3>3. QED
        BY <3>1, <3>2
    <2>8. tally[p] \subseteq Payments
      BY DEF Inv, RegisterTypeOK
    <2>9. [i \in tally[p] |-> pay[i].amount] =
            [i \in {j \in Payments : pay'[j] # NoPay /\ pay'[j].shift = s /\ pay'[j].cash}
                |-> pay'[i].amount]
      <3>1. tally[p] = {j \in Payments : pay'[j] # NoPay /\ pay'[j].shift = s /\ pay'[j].cash}
        BY <2>7, <2>8
      <3>2. \A i \in tally[p] : pay[i].amount = pay'[i].amount
        BY <2>7, <2>8
      <3>3. QED
        BY <3>1, <3>2
    <2>10. QED
      BY <2>2, <2>3, <2>9 DEF Expected, Total
  <1>2. QED
    BY <1>1, RegisterInvariance, CountsInvariance, PTL DEF Spec, CloseCountsWhatItFreezes
=============================================================================
