---------------------------- MODULE CashRegister ----------------------------
(***************************************************************************)
(* The shifts of a shop's cash register: openTurn and closeTurn of         *)
(* CashRegisterService, against the payments and reversals that            *)
(* TransactionsService posts meanwhile, for one tenant.                    *)
(*                                                                         *)
(* openTurn and closeTurn lock the tenant's row FOR UPDATE.  A payment and *)
(* a reversal insert rows with a foreign key to that row, which needs a    *)
(* KEY SHARE lock on it: the insert waits while a shift is being opened or *)
(* closed.  That, and not a test in the code, keeps the set of payments    *)
(* still between the SUM of a close and the UPDATE that freezes them.      *)
(*                                                                         *)
(* Of a payment only what the register sees is kept.  Its customer lock    *)
(* and its business rules only order or refuse it, which Fail does too;    *)
(* each row of a mixed payment is a payment.                               *)
(*                                                                         *)
(* SaasCronService finds the tenants whose period ended, without a lock,   *)
(* and save()s the whole entity: the semaphore it read goes back over an   *)
(* open or a close that has committed since.  Which tenants it finds is    *)
(* the concern of Subscription; here it may find this one at any time.     *)
(* The other writers of the row, BillingService and TenantsService, lock   *)
(* it and leave the semaphore as it is.                                    *)
(***************************************************************************)
EXTENDS Integers, FiniteSets, Functions

CONSTANTS
    Procs,          \* request handlers
    Shifts,         \* ids of cash_register_logs rows
    Payments,       \* ids of transactions rows of type PAYMENT
    Amounts,        \* amounts of payments
    Funds,          \* opening funds
    Counts,         \* what a cashier may count
    MaxCents,       \* largest value of an int4 column
    MaxSkew,        \* how far Node's clock and PostgreSQL's are apart
    MaxClock,       \* bound: instants that are told apart
    Ops,            \* the operations clients request in this instance
    NoProc, NoShift, NoPay, NoReq

OpNames == {"open", "close", "pay", "reverse"}

ASSUME RegisterProcsAssumption == NoProc \notin Procs
ASSUME RegisterShiftsAssumption == NoShift \notin Shifts
ASSUME RegisterAmountsAssumption == MaxCents \in Nat /\ Amounts \cup Funds \subseteq 0..MaxCents
ASSUME RegisterClockAssumption == MaxClock \in Nat /\ MaxSkew \in Nat
ASSUME RegisterOpsAssumption == Ops \subseteq OpNames

VARIABLES
    active,     \* tenants.active_cash_shift_id, the semaphore
    shift,      \* the committed row of each shift
    pay,        \* the committed row of each payment
    lock,       \* who holds FOR UPDATE on the tenant's row
    clock,      \* PostgreSQL's clock
    pc, req,    \* the statement a handler is about to execute; its request
    start,      \* now() of a handler's transaction: its rows' created_at
    seen,       \* the semaphore in the tenant entity a handler has in memory
    tally,      \* the payments a close has summed
    original,   \* the payment a reversal has read
    cron,       \* the nightly job of SaasCronService
    undone      \* history: the job has written back an old semaphore

tables == <<active, shift, pay>>
handlers == <<pc, req, start, seen, tally, original>>
nightly == <<cron, undone>>
vars == <<tables, lock, clock, handlers, nightly>>
-----------------------------------------------------------------------------
Cents == 0..MaxCents

\* `counted` is a history field: the payments the close has summed.
Shift == [status: {"NONE", "OPEN", "CLOSED"}, opened: Int, opening: Cents,
          expected: Cents, counted: SUBSET Payments]
NotOpened == [status |-> "NONE", opened |-> 0, opening |-> 0, expected |-> 0,
              counted |-> {}]

Payment == [created: 0..MaxClock, amount: Cents, cash: BOOLEAN, reversed: BOOLEAN,
            shift: Shifts \cup {NoShift}]

ASSUME RegisterNoPayAssumption == NoPay \notin Payment

Requests ==
    {r \in UNION {
        [op: {"open"}, opening: Funds],
        [op: {"close"}, actual: Counts, note: BOOLEAN],
        [op: {"pay"}, id: Payments, amount: Amounts, cash: BOOLEAN],
        [op: {"reverse"}, of: Payments]} :
     r.op \in Ops}

\* The job's next statement, the semaphore in its entity, and whether save()
\* has found it to differ from the row.
Cron == [at: {"idle", "select", "update"}, entity: Shifts \cup {NoShift}, differs: BOOLEAN]
CronIdle == [at |-> "idle", entity |-> NoShift, differs |-> FALSE]

InFlight == {"lock", "act", "freeze", "read", "insert"}
-----------------------------------------------------------------------------
\* Mutant: the tenant is read without FOR UPDATE, which does not wait.
LockableAlways == TRUE

\* FOR UPDATE on the tenant's row waits for another FOR UPDATE.
Lockable == lock = NoProc

\* Mutant: transactions have no foreign key to the tenant.
InsertableAlways == TRUE

\* The foreign key's KEY SHARE lock waits for FOR UPDATE.
Insertable == lock = NoProc

\* The transaction of p ends and with it its lock and its entities.
Finish(p) ==
    /\ pc' = [pc EXCEPT ![p] = "idle"]
    /\ lock' = IF lock = p THEN NoProc ELSE lock
    /\ seen' = [seen EXCEPT ![p] = NoShift]
    /\ tally' = [tally EXCEPT ![p] = {}]
    /\ original' = [original EXCEPT ![p] = NoPay]
    /\ start' = [start EXCEPT ![p] = 0]
    /\ req' = [req EXCEPT ![p] = NoReq]
    /\ UNCHANGED clock

\* A request begins a transaction, at an instant of PostgreSQL's clock.  (From
\* MaxClock on all events fall into one instant.)
Begin(p, r) ==
    /\ pc[p] = "idle"
    /\ r.op = "pay" => pay[r.id] = NoPay
    /\ clock' = IF clock < MaxClock THEN clock + 1 ELSE MaxClock
    /\ start' = [start EXCEPT ![p] = clock']
    /\ req' = [req EXCEPT ![p] = r]
    /\ pc' = [pc EXCEPT ![p] = CASE r.op \in {"open", "close"} -> "lock"
                                 [] r.op = "reverse" -> "read"
                                 [] r.op = "pay" -> "insert"]
    /\ UNCHANGED <<active, shift, pay, lock, seen, tally, original>>

\* SELECT ... FROM tenants ... FOR UPDATE.
Lock(p) ==
    /\ pc[p] = "lock"
    /\ Lockable
    /\ lock' = p
    /\ seen' = [seen EXCEPT ![p] = active]
    /\ pc' = [pc EXCEPT ![p] = "act"]
    /\ UNCHANGED <<active, shift, pay, clock, req, start, tally, original>>

\* lock_timeout, a refusal of the business rules, a duplicate key, a crash.
Fail(p) ==
    /\ pc[p] \in InFlight
    /\ Finish(p)
    /\ UNCHANGED tables
-----------------------------------------------------------------------------
(* openTurn *)

\* Mutant: the semaphore is not tested.
MayOpenAlways(p) == TRUE

MayOpen(p) == seen[p] = NoShift

\* opened_at is Node's clock, not the database's.
Open(p, s, skew) ==
    /\ pc[p] = "act" /\ req[p].op = "open"
    /\ MayOpen(p)
    /\ shift[s].status = "NONE"
    /\ shift' = [shift EXCEPT ![s] =
            [status |-> "OPEN", opened |-> clock + skew, opening |-> req[p].opening,
             expected |-> 0, counted |-> {}]]
    /\ active' = s
    /\ Finish(p)
    /\ UNCHANGED pay

RefuseOpen(p) ==
    /\ pc[p] = "act" /\ req[p].op = "open"
    /\ ~MayOpen(p)
    /\ Finish(p)
    /\ UNCHANGED tables
-----------------------------------------------------------------------------
(* closeTurn *)

Cash(i) == pay[i].cash
Total(payments) == SumFunction([i \in payments |-> pay[i].amount])

\* Mutant: payments of earlier shifts are not excluded.
UncollectedSinceOpening(s) ==
    {i \in Payments : /\ pay[i] # NoPay
                      /\ pay[i].created > shift[s].opened
                      /\ ~pay[i].reversed}

\* The WHERE clause that the SUM and the UPDATE of a close share.
Uncollected(s) ==
    {i \in Payments : /\ pay[i] # NoPay
                      /\ pay[i].created > shift[s].opened
                      /\ ~pay[i].reversed
                      /\ pay[i].shift = NoShift}

OpenShiftSeen(p) ==
    seen[p] # NoShift /\ shift[seen[p]].status = "OPEN"

\* The SUM of the cash payments of the shift.
Sum(p) ==
    /\ pc[p] = "act" /\ req[p].op = "close"
    /\ OpenShiftSeen(p)
    /\ tally' = [tally EXCEPT ![p] = {i \in Uncollected(seen[p]) : Cash(i)}]
    /\ pc' = [pc EXCEPT ![p] = "freeze"]
    /\ UNCHANGED <<active, shift, pay, lock, clock, req, start, seen, original>>

Expected(p) == shift[seen[p]].opening + Total(tally[p])

\* Mutant: expected_cash_cents is a wider column.
AcceptedAnySum(p) == req[p].note \/ req[p].actual = Expected(p)

\* The sum fits an int4, and a discrepancy is explained by a note.
Accepted(p) ==
    /\ Expected(p) \in Cents
    /\ req[p].note \/ req[p].actual = Expected(p)

\* The shift is closed, its payments are frozen, the semaphore is released.
Close(p) ==
    /\ pc[p] = "freeze"
    /\ Accepted(p)
    /\ LET s == seen[p] IN
        /\ shift' = [shift EXCEPT ![s] =
                [@ EXCEPT !.status = "CLOSED", !.expected = Expected(p),
                          !.counted = tally[p]]]
        /\ pay' = [i \in Payments |->
                IF i \in Uncollected(s) THEN [pay[i] EXCEPT !.shift = s] ELSE pay[i]]
    /\ active' = NoShift
    /\ Finish(p)

RefuseClose(p) ==
    /\ \/ pc[p] = "act" /\ req[p].op = "close" /\ ~OpenShiftSeen(p)
       \/ pc[p] = "freeze" /\ ~Accepted(p)
    /\ Finish(p)
    /\ UNCHANGED tables
-----------------------------------------------------------------------------
(* Payments and reversals, as the register sees them. *)

\* The row's created_at is the instant its transaction began.
Pay(p) ==
    /\ pc[p] = "insert" /\ req[p].op = "pay"
    /\ Insertable
    /\ pay[req[p].id] = NoPay
    /\ pay' = [pay EXCEPT ![req[p].id] =
            [created |-> start[p], amount |-> req[p].amount, cash |-> req[p].cash,
             reversed |-> FALSE, shift |-> NoShift]]
    /\ Finish(p)
    /\ UNCHANGED <<active, shift>>

ReadOriginal(p) ==
    /\ pc[p] = "read"
    /\ pay[req[p].of] # NoPay /\ ~pay[req[p].of].reversed
    /\ original' = [original EXCEPT ![p] = pay[req[p].of]]
    /\ pc' = [pc EXCEPT ![p] = "insert"]
    /\ UNCHANGED <<active, shift, pay, lock, clock, req, start, seen, tally>>

\* save(original): the entity that was read, cash_register_log_id included.
Saved(p) == [original[p] EXCEPT !.reversed = TRUE]

Reverse(p) ==
    /\ pc[p] = "insert" /\ req[p].op = "reverse"
    /\ Insertable
    /\ pay' = [pay EXCEPT ![req[p].of] = Saved(p)]
    /\ Finish(p)
    /\ UNCHANGED <<active, shift>>
-----------------------------------------------------------------------------
(* processSaaSExpirations, as far as the semaphore is concerned. *)

\* find(): the tenant is among those whose grace has ended.
CronFind ==
    /\ cron.at = "idle"
    /\ cron' = [at |-> "select", entity |-> active, differs |-> FALSE]
    /\ UNCHANGED <<tables, lock, clock, handlers, undone>>

\* The SELECT of save(tenant) finds the columns that differ from the entity.
CronSelect ==
    /\ cron.at = "select"
    /\ cron' = [cron EXCEPT !.at = "update", !.differs = cron.entity # active]
    /\ UNCHANGED <<tables, lock, clock, handlers, undone>>

\* The UPDATE waits for FOR UPDATE and writes those columns; the status is
\* one of them in any case.
CronUpdate ==
    /\ cron.at = "update"
    /\ Lockable
    /\ active' = IF cron.differs THEN cron.entity ELSE active
    /\ undone' = (undone \/ active' # active)
    /\ cron' = CronIdle
    /\ UNCHANGED <<shift, pay, lock, clock, handlers>>

\* An exception: rollback.
CronFail ==
    /\ cron.at # "idle"
    /\ cron' = CronIdle
    /\ UNCHANGED <<tables, lock, clock, handlers, undone>>
-----------------------------------------------------------------------------
Init ==
    /\ active = NoShift
    /\ shift = [s \in Shifts |-> NotOpened]
    /\ pay = [i \in Payments |-> NoPay]
    /\ lock = NoProc
    /\ clock = 0
    /\ pc = [p \in Procs |-> "idle"]
    /\ req = [p \in Procs |-> NoReq]
    /\ start = [p \in Procs |-> 0]
    /\ seen = [p \in Procs |-> NoShift]
    /\ tally = [p \in Procs |-> {}]
    /\ original = [p \in Procs |-> NoPay]
    /\ cron = CronIdle
    /\ undone = FALSE

Proceed(p) ==
    \/ Lock(p)
    \/ \E s \in Shifts, skew \in -MaxSkew..MaxSkew : Open(p, s, skew)
    \/ RefuseOpen(p)
    \/ Sum(p) \/ Close(p) \/ RefuseClose(p)
    \/ Pay(p) \/ ReadOriginal(p) \/ Reverse(p)
    \/ Fail(p)

Handle == \E p \in Procs : (\E r \in Requests : Begin(p, r)) \/ Proceed(p)

Nightly == CronFind \/ CronSelect \/ CronUpdate \/ CronFail

Next == (Handle /\ UNCHANGED nightly) \/ Nightly

Spec == Init /\ [][Next]_vars
-----------------------------------------------------------------------------
(* Properties. *)

RegisterTypeOK ==
    /\ active \in Shifts \cup {NoShift}
    /\ shift \in [Shifts -> Shift]
    /\ pay \in [Payments -> Payment \cup {NoPay}]
    /\ lock \in Procs \cup {NoProc}
    /\ clock \in 0..MaxClock
    /\ pc \in [Procs -> InFlight \cup {"idle"}]
    /\ req \in [Procs -> Requests \cup {NoReq}]
    /\ start \in [Procs -> 0..MaxClock]
    /\ seen \in [Procs -> Shifts \cup {NoShift}]
    /\ tally \in [Procs -> SUBSET Payments]
    /\ original \in [Procs -> Payment \cup {NoPay}]
    /\ cron \in Cron
    /\ undone \in BOOLEAN

IsOpen(s) == shift[s].status = "OPEN"
IsClosed(s) == shift[s].status = "CLOSED"

\* The semaphore names the one shift that is open, and is free when none is:
\* two cashiers never have a shift each, and a shift can always be closed.  So
\* it is as long as SaasCronService has not saved an entity it read before an
\* open or a close; from that save on the two may differ, and nothing in the
\* code brings them together again.
OneOpenShift == ~undone => \A s \in Shifts : IsOpen(s) <=> active = s

\* No payment is collected by two shifts, whichever clock is ahead, and though
\* an old semaphore let two of them be open at once.
CountedOnce ==
    \A s, t \in Shifts :
        s # t /\ IsClosed(s) /\ IsClosed(t) => shift[s].counted \cap shift[t].counted = {}

\* What a close asks of the cashier is the opening fund and the cash payments
\* it freezes: none slips in or out between the SUM and the UPDATE.
CloseCountsWhatItFreezes ==
    [][\A s \in Shifts : IsOpen(s) /\ IsClosed(s)' =>
        shift'[s].expected = shift[s].opening +
            LET frozen == {i \in Payments : pay'[i] # NoPay /\ pay'[i].shift = s /\ pay'[i].cash}
            IN  SumFunction([i \in frozen |-> pay'[i].amount])]_vars

\* A closed shift is never reopened, closed again or changed.
ClosedShiftsAreFinal ==
    [][\A s \in Shifts : IsClosed(s) => shift'[s] = shift[s]]_vars

\* A frozen payment leaves its shift only by being annulled.
OnlyReversalsThaw ==
    [][\A i \in Payments :
        pay[i] # NoPay /\ pay[i].shift # NoShift /\ pay'[i].shift # pay[i].shift
            => pay'[i].reversed]_vars

=============================================================================
