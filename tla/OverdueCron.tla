----------------------------- MODULE OverdueCron -----------------------------
(***************************************************************************)
(* The daily job that marks customers overdue and blocks them:             *)
(* OverdueCronService, started by its timer and by the webhook of          *)
(* CronController, against the movements that lock a customer's row and    *)
(* the unlocked save()s of toggleBlock and updatePromise.                  *)
(*                                                                         *)
(* A movement is one step here (Ledger shows that its locks make it one).  *)
(* The job's SELECT, its UPDATE and the tasks it leaves in the background  *)
(* are separate statements, each in a transaction of its own.              *)
(*                                                                         *)
(* No code sets auto_block_overdue_days or auto_block_on_limit:            *)
(* they are what an operator has stored in the tables.                     *)
(***************************************************************************)
EXTENDS Integers, FiniteSets

CONSTANTS
    Customers,
    Jobs,           \* runs of processOverdueCustomers, the timer's and the webhook's
    Savers,         \* handlers of toggleBlock and updatePromise
    AutoBlockDays,  \* settings.auto_block_overdue_days; 0: not configured
    OnLimit,        \* the customers with auto_block_on_limit
    Limit,          \* credit_limit_cents
    Promises,       \* the days a customer may promise to pay
    MaxDay,         \* bound: days told apart
    MaxDebt,        \* bound: balances told apart
    MaxFaults,      \* bound: crashes and failed inserts
    NoDay, NoRow

ASSUME CronAssumption ==
    /\ AutoBlockDays \in Nat /\ Limit \in Nat
    /\ MaxDay \in Nat /\ MaxDebt \in Nat /\ MaxFaults \in Nat
    /\ OnLimit \subseteq Customers
    /\ Promises \subseteq 0..MaxDay
    /\ NoDay \notin Int
    /\ Jobs \cap Savers = {}

VARIABLES
    cust,       \* the committed row of each customer
    today,      \* the date
    pc,         \* the statement a job or a saver is about to execute
    found,      \* the customers a job's SELECT has returned
    entity,     \* the entity a saver has in memory
    diff,       \* the columns its save() is about to UPDATE, of which row
    unlogged,   \* the customers whose audit log a job's loop has still to insert
    blocking,   \* the automatic blocks a job has started and not finished
    logged,     \* the customers with a MARK_OVERDUE row of a job's present run
    lost,       \* history: those whose row this run has failed to insert
    wasLate,    \* history: the customers who have been late on a promise
    faults      \* history: the faults so far

audit == <<logged, lost>>
vars == <<cust, today, pc, found, entity, diff, unlogged, blocking, audit, wasLate, faults>>
-----------------------------------------------------------------------------
Days == 0..MaxDay
Row == [balance: 0..MaxDebt, active: BOOLEAN, promise: Promises \cup {NoDay},
        overdue: BOOLEAN]
Columns == {"balance", "active", "promise", "overdue"}
Diff == [of: Customers, columns: SUBSET Columns]
Saving == {"edit", "update"}
Tasks == {"days", "limit"}

ASSUME CronNullAssumption == NoRow \notin Row \cup Diff

Fault == faults < MaxFaults /\ faults' = faults + 1

\* Mutant: a promise for today counts as broken.
LateToday(r, day) == r.balance > 0 /\ r.promise # NoDay /\ r.promise <= day

\* Mutant: a day of grace that nobody decided.
LateAfterADay(r, day) == r.balance > 0 /\ r.promise # NoDay /\ r.promise < day - 1

\* next_payment_promise < today at midnight, and a debt.
Late(r, day) == r.balance > 0 /\ r.promise # NoDay /\ r.promise < day

\* A promise is broken, as the properties mean it.
Broken(r, day) == r.balance > 0 /\ r.promise \in 0..(day - 1)

\* History: who has broken a promise.
Remember == wasLate' = wasLate \cup {c \in Customers : Broken(cust'[c], today')}
-----------------------------------------------------------------------------
(* The rest of the program. *)

NextDay ==
    /\ today < MaxDay
    /\ today' = today + 1
    /\ UNCHANGED <<cust, pc, found, entity, diff, unlogged, blocking, audit, faults>>
    /\ Remember

\* A debt grows: a movement, which a blocked customer is refused and an overdue
\* one is not, or a batch, a reversed payment or a merge, which refuse neither.
Charge(c) ==
    /\ cust[c].balance < MaxDebt
    /\ cust' = [cust EXCEPT ![c].balance = @ + 1]
    /\ UNCHANGED <<today, pc, found, entity, diff, unlogged, blocking, audit, faults>>
    /\ Remember

\* Mutant: a payment of more than the debt is not capped.
AfterPaymentUncapped(b) == -1..(b - 1)

\* What a payment may leave of a debt.
AfterPayment(b) == 0..(b - 1)

\* A payment: is_overdue stays what it was.
Pay(c) ==
    /\ cust[c].balance > 0
    /\ \E left \in AfterPayment(cust[c].balance) : cust' = [cust EXCEPT ![c].balance = left]
    /\ UNCHANGED <<today, pc, found, entity, diff, unlogged, blocking, audit, faults>>
    /\ Remember

\* findCustomerOrFail; the row is the one the handler was asked for.
Load(s, c) ==
    /\ pc[s] = "idle"
    /\ entity' = [entity EXCEPT ![s] = cust[c]]
    /\ diff' = [diff EXCEPT ![s] = [of |-> c, columns |-> {}]]
    /\ pc' = [pc EXCEPT ![s] = "edit"]
    /\ UNCHANGED <<cust, today, found, unlogged, blocking, audit, wasLate, faults>>

\* toggleBlock or updatePromise, and the SELECT of save().
EditAndSelect(s) ==
    /\ pc[s] = "edit"
    /\ \E e \in {[entity[s] EXCEPT !.active = ~@]}
               \cup {[entity[s] EXCEPT !.promise = d] : d \in Promises \cup {NoDay}} :
        /\ entity' = [entity EXCEPT ![s] = e]
        /\ diff' = [diff EXCEPT ![s].columns =
                        {f \in Columns : e[f] # cust[diff[s].of][f]}]
    /\ pc' = [pc EXCEPT ![s] = "update"]
    /\ UNCHANGED <<cust, today, found, unlogged, blocking, audit, wasLate, faults>>

\* The UPDATE of the columns that differed.
Save(s) ==
    /\ pc[s] = "update"
    /\ LET row == cust[diff[s].of]
           new(f) == IF f \in diff[s].columns THEN entity[s][f] ELSE row[f]
       IN  cust' = [cust EXCEPT ![diff[s].of] =
                        [balance |-> new("balance"), active |-> new("active"),
                         promise |-> new("promise"), overdue |-> new("overdue")]]
    /\ pc' = [pc EXCEPT ![s] = "idle"]
    /\ entity' = [entity EXCEPT ![s] = NoRow]
    /\ diff' = [diff EXCEPT ![s] = NoRow]
    /\ UNCHANGED <<today, found, unlogged, blocking, audit, faults>>
    /\ Remember
-----------------------------------------------------------------------------
(* processOverdueCustomers. *)

Candidates == {c \in Customers : Late(cust[c], today) /\ ~cust[c].overdue}

\* Nobody is found: the job returns, and blocks nobody either.
FindNobody(j) ==
    /\ pc[j] = "idle"
    /\ Candidates = {}
    /\ UNCHANGED vars

Find(j) ==
    /\ pc[j] = "idle"
    /\ Candidates # {}
    /\ found' = [found EXCEPT ![j] = Candidates]
    /\ pc' = [pc EXCEPT ![j] = "mark"]
    /\ lost' = [lost EXCEPT ![j] = {}]
    /\ UNCHANGED <<cust, today, entity, diff, unlogged, blocking, logged, wasLate, faults>>

\* Mutant: who has paid since the SELECT is marked but not logged.
ToLogDebtors(j) == {c \in found[j] : cust[c].balance > 0}

\* insertAuditLogsFireAndForget gets what the SELECT returned.
ToLog(j) == found[j]

\* UPDATE ... WHERE id IN (...): what was tested is not tested again.  The
\* loops over logs and blocks go on in the background.
Mark(j) ==
    /\ pc[j] = "mark"
    /\ cust' = [c \in Customers |->
                    IF c \in found[j] THEN [cust[c] EXCEPT !.overdue = TRUE] ELSE cust[c]]
    /\ unlogged' = [unlogged EXCEPT ![j] = ToLog(j)]
    /\ blocking' = [blocking EXCEPT ![j] = Tasks]
    /\ found' = [found EXCEPT ![j] = {}]
    /\ pc' = [pc EXCEPT ![j] = "background"]
    /\ UNCHANGED <<today, entity, diff, audit, faults>>
    /\ Remember

\* auditService.log succeeds, or fails and is swallowed.
InsertLog(j, c) ==
    /\ c \in unlogged[j]
    /\ \/ logged' = [logged EXCEPT ![j] = @ \cup {c}] /\ UNCHANGED <<lost, faults>>
       \/ Fault /\ lost' = [lost EXCEPT ![j] = @ \cup {c}] /\ UNCHANGED logged
    /\ unlogged' = [unlogged EXCEPT ![j] = @ \ {c}]
    /\ UNCHANGED <<cust, today, pc, found, entity, diff, blocking, wasLate>>

\* The WHERE of processAutoBlocks.
BlockedByDays(r) ==
    /\ AutoBlockDays > 0 /\ r.overdue /\ r.balance > 0
    /\ r.promise # NoDay /\ r.promise < today - AutoBlockDays

\* The WHERE of processAutoBlockOnLimit.
BlockedByLimit(c) == c \in OnLimit /\ Limit > 0 /\ cust[c].balance >= Limit

\* An UPDATE of those customers; an error is swallowed and nothing else stops.
Block(j, task, targets) ==
    /\ task \in blocking[j]
    /\ \/ /\ cust' = [c \in Customers |->
                        IF c \in targets THEN [cust[c] EXCEPT !.active = FALSE] ELSE cust[c]]
          /\ UNCHANGED faults
       \/ Fault /\ UNCHANGED cust
    /\ blocking' = [blocking EXCEPT ![j] = @ \ {task}]
    /\ UNCHANGED <<today, pc, found, entity, diff, unlogged, audit>>
    /\ Remember

ProcessAutoBlocks(j) == Block(j, "days", {c \in Customers : BlockedByDays(cust[c])})
ProcessAutoBlockOnLimit(j) == Block(j, "limit", {c \in Customers : BlockedByLimit(c)})

\* The loops are done; the next run may begin.
Return(j) ==
    /\ pc[j] = "background"
    /\ unlogged[j] = {} /\ blocking[j] = {}
    /\ pc' = [pc EXCEPT ![j] = "idle"]
    /\ logged' = [logged EXCEPT ![j] = {}]
    /\ lost' = [lost EXCEPT ![j] = {}]
    /\ UNCHANGED <<cust, today, found, entity, diff, unlogged, blocking, wasLate, faults>>

\* The instance goes to sleep or dies: what the job had in memory is lost.
Crash(j) ==
    /\ pc[j] # "idle"
    /\ Fault
    /\ pc' = [pc EXCEPT ![j] = "idle"]
    /\ found' = [found EXCEPT ![j] = {}]
    /\ unlogged' = [unlogged EXCEPT ![j] = {}]
    /\ blocking' = [blocking EXCEPT ![j] = {}]
    /\ lost' = [lost EXCEPT ![j] = @ \cup found[j] \cup unlogged[j]]
    /\ logged' = [logged EXCEPT ![j] = {}]
    /\ UNCHANGED <<cust, today, entity, diff, wasLate>>
-----------------------------------------------------------------------------
Init ==
    /\ cust = [c \in Customers |->
                [balance |-> 0, active |-> TRUE, promise |-> NoDay, overdue |-> FALSE]]
    /\ today = 0
    /\ pc = [p \in Jobs \cup Savers |-> "idle"]
    /\ found = [j \in Jobs |-> {}]
    /\ entity = [s \in Savers |-> NoRow]
    /\ diff = [s \in Savers |-> NoRow]
    /\ unlogged = [j \in Jobs |-> {}]
    /\ blocking = [j \in Jobs |-> {}]
    /\ logged = [j \in Jobs |-> {}]
    /\ lost = [j \in Jobs |-> {}]
    /\ wasLate = {}
    /\ faults = 0

Job(j) ==
    \/ FindNobody(j) \/ Find(j) \/ Mark(j)
    \/ \E c \in Customers : InsertLog(j, c)
    \/ ProcessAutoBlocks(j) \/ ProcessAutoBlockOnLimit(j)
    \/ Return(j)

Next ==
    \/ NextDay
    \/ \E c \in Customers : Charge(c) \/ Pay(c)
    \/ \E s \in Savers : (\E c \in Customers : Load(s, c)) \/ EditAndSelect(s) \/ Save(s)
    \/ \E j \in Jobs : Job(j) \/ Crash(j)

Spec == Init /\ [][Next]_vars

\* The timer or the external service starts the job again and again, and a
\* job that is not killed executes its next statement.
FairSpec == Spec /\ \A j \in Jobs : SF_vars(Job(j))
-----------------------------------------------------------------------------
(* Properties. *)

CronTypeOK ==
    /\ cust \in [Customers -> Row]
    /\ today \in Days
    /\ pc \in [Jobs \cup Savers -> {"idle", "mark", "background"} \cup Saving]
    /\ found \in [Jobs -> SUBSET Customers]
    /\ entity \in [Savers -> Row \cup {NoRow}]
    /\ diff \in [Savers -> Diff \cup {NoRow}]
    /\ unlogged \in [Jobs -> SUBSET Customers]
    /\ blocking \in [Jobs -> SUBSET Tasks]
    /\ logged \in [Jobs -> SUBSET Customers]
    /\ lost \in [Jobs -> SUBSET Customers]
    /\ wasLate \subseteq Customers
    /\ faults \in 0..MaxFaults

\* Whoever is marked overdue has broken a promise while in debt, whatever
\* runs overlapped and whichever stale save() wrote the mark back; and so has
\* whoever has a MARK_OVERDUE row.
OverdueHadReason ==
    \A c \in Customers : cust[c].overdue \/ (\E j \in Jobs : c \in logged[j]) => c \in wasLate

\* Who stays in debt beyond the promised day is marked.
LateIsMarked ==
    \A c \in Customers :
        Broken(cust[c], today) ~> cust[c].overdue \/ ~Broken(cust[c], today)

\* Whomever a run finds late it marks and logs, paid by then or not, unless this
\* very run dies or this very insert fails.
MarkIsLogged ==
    \A j \in Jobs, c \in Customers :
        pc[j] = "mark" /\ c \in found[j] ~> c \in logged[j] \/ c \in lost[j]
=============================================================================
