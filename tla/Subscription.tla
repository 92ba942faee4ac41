----------------------------- MODULE Subscription -----------------------------
(***************************************************************************)
(* The row of one tenant: BillingService.processPayment behind             *)
(* MercadoPago's webhook, TenantsService.updateSettings, the nightly       *)
(* SaasCronService, and the sessions whose tokens carry a copy of the      *)
(* tenant's status (AuthService.login, SubscriptionGuard).                 *)
(*                                                                         *)
(* Payments and settings lock the row FOR UPDATE; the cron reads it        *)
(* without a lock and save()s the entity it read: save() SELECTs the row   *)
(* to find the columns that differ and UPDATEs those.  (Its entity holds    *)
(* active_cash_shift_id too; module CashRegister has that column.)         *)
(*                                                                         *)
(* The repository has no code that links a tenant to a subscription of     *)
(* MercadoPago, or that makes a tenant PAST_DUE or CANCELLED: it presumes  *)
(* an operator who edits the table.                                        *)
(***************************************************************************)
EXTENDS Integers, FiniteSets

CONSTANTS
    Handlers,       \* handlers of webhooks and of settings
    Cron,           \* the nightly job
    Payments,       \* ids of payments at MercadoPago
    Settings,       \* keys of the settings document
    Forms,          \* forms: the keys they set and the keys they clear
    Sessions,       \* browsers that may log in
    Period,         \* length of the period a payment adds (30 days)
    Grace,          \* grace after the end of a period (3 days)
    TokenLife,      \* validity of an access token (8 hours)
    MaxTime,        \* bound: instants that are told apart
    MaxFaults,      \* bound: crashes and lost answers
    NoProc, NoDate, NoTenant, NoReq, NoToken

ASSUME SubscriptionHandlersAssumption == Cron \notin Handlers /\ NoProc \notin Handlers
ASSUME SubscriptionTimeAssumption ==
    /\ Period \in Nat /\ Grace \in Nat /\ TokenLife \in Nat /\ MaxTime \in Nat
    /\ MaxFaults \in Nat
    /\ NoDate \notin Int
ASSUME SubscriptionFormsAssumption ==
    /\ Forms \subseteq [set: SUBSET Settings, clear: SUBSET Settings]
    /\ \A f \in Forms : f.set \cap f.clear = {}

VARIABLES
    tenant,     \* the committed row of the tenant
    events,     \* billing_events: the payments that were credited
    notice,     \* what MercadoPago knows of its notification of a payment
    lock,       \* who holds FOR UPDATE on the row
    now,        \* the clock
    pc, req,    \* the statement a process is about to execute; its request
    entity,     \* the tenant entity a process has in memory
    diff,       \* the columns the cron's save() is about to UPDATE
    login,      \* the login in progress in a session: what it has read
    token,      \* the access token of each session
    lapsed,     \* history: when the tenant's access ended
    faults      \* history: the faults so far

db == <<tenant, events>>
vars == <<tenant, events, notice, lock, now, pc, req, entity, diff, login, token, lapsed, faults>>
-----------------------------------------------------------------------------
Status == {"TRIAL", "ACTIVE", "PAST_DUE", "SUSPENDED", "CANCELLED"}
Barred == {"SUSPENDED", "CANCELLED"}

Tenant == [status: Status, expires: Int \cup {NoDate}, linked: BOOLEAN,
           settings: SUBSET Settings]
Columns == {"status", "expires", "linked", "settings"}

\* `read` is a history field: when the login read the tenant.
Login == [status: Status, expires: Int \cup {NoDate}, read: Int]
Token == [status: Status, expires: Int \cup {NoDate}, read: Int, issued: Int]

ASSUME SubscriptionNullsAssumption ==
    NoTenant \notin Tenant /\ NoToken \notin Token \cup Login

\* A webhook's payment, or the settings a form changes.
Requests == [op: {"pay"}, payment: Payments]
            \cup [op: {"settings"}, form: Forms]

Processes == Handlers \cup {Cron}
InFlight == {"lookup", "lock", "write", "select", "update"}
-----------------------------------------------------------------------------
\* Mutant: the row is read without FOR UPDATE.
LockableAlways == TRUE

\* FOR UPDATE and UPDATE wait for whoever holds the row.
Lockable == lock = NoProc

\* The transaction of p ends.
Finish(p) ==
    /\ pc' = [pc EXCEPT ![p] = "idle"]
    /\ req' = [req EXCEPT ![p] = NoReq]
    /\ lock' = IF lock = p THEN NoProc ELSE lock
    /\ entity' = [entity EXCEPT ![p] = NoTenant]
    /\ diff' = [diff EXCEPT ![p] = {}]
    /\ UNCHANGED <<now, login, token>>

Fault == faults < MaxFaults /\ faults' = faults + 1

\* The response 200 reaches MercadoPago, which stops notifying, or is lost.
Acknowledge(p) ==
    \/ notice' = [notice EXCEPT ![req[p].payment] = "acked"] /\ UNCHANGED faults
    \/ Fault /\ UNCHANGED notice

\* History: access ended when the status became a barring one.
Lapse == lapsed' = IF tenant'.status \notin Barred THEN 0
                   ELSE IF tenant.status \in Barred THEN lapsed ELSE now
-----------------------------------------------------------------------------
(* MercadoPago's webhook. *)

\* The shop pays; MercadoPago begins to notify.
PayAtMercadoPago(i) ==
    /\ notice[i] = "none"
    /\ notice' = [notice EXCEPT ![i] = "due"]
    /\ UNCHANGED <<tenant, events, lock, now, pc, req, entity, diff, login, token, lapsed, faults>>

\* A notification arrives: the first, a retry, or a late duplicate.
Deliver(p, i) ==
    /\ pc[p] = "idle"
    /\ notice[i] # "none"
    /\ req' = [req EXCEPT ![p] = [op |-> "pay", payment |-> i]]
    /\ pc' = [pc EXCEPT ![p] = "lookup"]
    /\ UNCHANGED <<tenant, events, notice, lock, now, entity, diff, login, token, lapsed, faults>>

\* Mutant: any payment is taken for a processed one.
CreditedBefore(i) == events # {}

\* Mutant: neither the lookup nor the unique index knows of earlier events.
CreditedNever(i) == FALSE

\* The payment has its row in billing_events, whose payment id is unique.
Credited(i) == i \in events

LookUp(p) ==
    /\ pc[p] = "lookup"
    /\ IF Credited(req[p].payment)
       THEN Finish(p) /\ Acknowledge(p)
       ELSE /\ pc' = [pc EXCEPT ![p] = "lock"]
            /\ UNCHANGED <<notice, lock, now, req, entity, diff, login, token, faults>>
    /\ UNCHANGED <<tenant, events, lapsed>>

\* SELECT ... FOR UPDATE by id or by mp_subscription_id.
Lock(p) ==
    /\ pc[p] = "lock"
    /\ req[p].op = "pay" => tenant.linked
    /\ Lockable
    /\ lock' = p
    /\ entity' = [entity EXCEPT ![p] = tenant]
    /\ pc' = [pc EXCEPT ![p] = "write"]
    /\ UNCHANGED <<tenant, events, notice, now, req, diff, login, token, lapsed, faults>>

\* No tenant has the subscription: nothing is stored and the answer is 200.
Unresolved(p) ==
    /\ pc[p] = "lock"
    /\ req[p].op = "pay" /\ ~tenant.linked
    /\ Finish(p) /\ Acknowledge(p)
    /\ UNCHANGED <<tenant, events, lapsed>>

\* The end of the subscription after one more payment.
Extended(e) == (IF e.expires = NoDate THEN now ELSE e.expires) + Period

Credit(p) ==
    /\ pc[p] = "write" /\ req[p].op = "pay"
    /\ ~Credited(req[p].payment)
    /\ events' = events \cup {req[p].payment}
    /\ tenant' = [entity[p] EXCEPT !.status = "ACTIVE", !.expires = Extended(entity[p])]
    /\ Finish(p) /\ Acknowledge(p) /\ Lapse

\* The unique index refuses a second row: rollback, answer 500.
DuplicateEvent(p) ==
    /\ pc[p] = "write" /\ req[p].op = "pay"
    /\ Credited(req[p].payment)
    /\ Finish(p)
    /\ UNCHANGED <<tenant, events, notice, lapsed, faults>>
-----------------------------------------------------------------------------
(* updateSettings: the fields of the form are merged into the document. *)

RequestSettings(p, f) ==
    /\ pc[p] = "idle"
    /\ req' = [req EXCEPT ![p] = [op |-> "settings", form |-> f]]
    /\ pc' = [pc EXCEPT ![p] = "lock"]
    /\ UNCHANGED <<tenant, events, notice, lock, now, entity, diff, login, token, lapsed, faults>>

\* Mutant: a field the form leaves out is stored too.
MergedWithUndefined(old, f) == old \cup f.set \cup {NoDate}

Merged(old, f) == (old \ f.clear) \cup f.set

SaveSettings(p) ==
    /\ pc[p] = "write" /\ req[p].op = "settings"
    /\ tenant' = [entity[p] EXCEPT !.settings = Merged(@, req[p].form)]
    /\ Finish(p) /\ Lapse
    /\ UNCHANGED <<events, notice, faults>>

\* An exception, lock_timeout, or a crash: rollback.
Fail(p) ==
    /\ pc[p] \in InFlight
    /\ Fault
    /\ Finish(p)
    /\ UNCHANGED <<tenant, events, notice, lapsed>>
-----------------------------------------------------------------------------
(* The nightly job. *)

\* PAST_DUE, and the period ended more than the grace ago.
Overdue == tenant.status = "PAST_DUE" /\ tenant.expires # NoDate /\ tenant.expires < now - Grace

CronFind ==
    /\ pc[Cron] = "idle"
    /\ Overdue
    /\ entity' = [entity EXCEPT ![Cron] = [tenant EXCEPT !.status = "SUSPENDED"]]
    /\ pc' = [pc EXCEPT ![Cron] = "select"]
    /\ UNCHANGED <<tenant, events, notice, lock, now, req, diff, login, token, lapsed, faults>>

CronSelect ==
    /\ pc[Cron] = "select"
    /\ diff' = [diff EXCEPT ![Cron] = {f \in Columns : entity[Cron][f] # tenant[f]}]
    /\ pc' = [pc EXCEPT ![Cron] = "update"]
    /\ UNCHANGED <<tenant, events, notice, lock, now, req, entity, login, token, lapsed, faults>>

CronUpdate ==
    /\ pc[Cron] = "update"
    /\ diff[Cron] # {} => Lockable
    /\ LET old(f) == IF f \in diff[Cron] THEN entity[Cron][f] ELSE tenant[f] IN
        tenant' = [status |-> old("status"), expires |-> old("expires"),
                   linked |-> old("linked"), settings |-> old("settings")]
    /\ Finish(Cron) /\ Lapse
    /\ UNCHANGED <<events, notice, faults>>
-----------------------------------------------------------------------------
(* Sessions, the operator, time. *)

\* Mutant: login does not look at the tenant.
MayLogInAlways == TRUE

MayLogIn == tenant.status \notin Barred

\* The user and the tenant are read; bcrypt compares the password, and the
\* status that is tested and signed after it is the one that was read.  (A login
\* whose password is refused never signs; the next one takes its place.)  Of the
\* date the claims keep what SubscriptionGuard looks at.
LoginRead(s) ==
    /\ MayLogIn
    /\ login' = [login EXCEPT ![s] =
            [status |-> tenant.status, read |-> now,
             expires |-> IF tenant.status = "PAST_DUE" THEN tenant.expires ELSE NoDate]]
    /\ UNCHANGED <<tenant, events, notice, lock, now, pc, req, entity, diff, token, lapsed, faults>>

LoginSign(s) ==
    /\ login[s] # NoToken
    /\ token' = [token EXCEPT ![s] =
            [status |-> login[s].status, expires |-> login[s].expires,
             read |-> login[s].read, issued |-> now]]
    /\ login' = [login EXCEPT ![s] = NoToken]
    /\ UNCHANGED <<tenant, events, notice, lock, now, pc, req, entity, diff, lapsed, faults>>

\* The token of s is valid at t (an expired one is as good as none).
Alive(s, t) == token[s] # NoToken /\ t - token[s].issued <= TokenLife

\* The requests the guards let through: the token is valid, and the status and
\* the date it carries do not bar.
Admits(s) ==
    LET k == token[s] IN
    /\ Alive(s, now)
    /\ k.status # "SUSPENDED"
    /\ k.status = "PAST_DUE" /\ k.expires # NoDate => now <= k.expires + Grace

\* The operator edits the row: links the subscription, or sets a status.
Operator ==
    /\ lock = NoProc
    /\ \/ ~tenant.linked /\ tenant' = [tenant EXCEPT !.linked = TRUE]
       \/ /\ tenant.status \in {"TRIAL", "ACTIVE"}
          /\ tenant.expires # NoDate /\ tenant.expires < now
          /\ tenant' = [tenant EXCEPT !.status = "PAST_DUE"]
       \/ /\ tenant.status # "CANCELLED"
          /\ tenant' = [tenant EXCEPT !.status = "CANCELLED"]
    /\ Lapse
    /\ UNCHANGED <<events, notice, lock, now, pc, req, entity, diff, login, token, faults>>

Tick ==
    /\ now < MaxTime
    /\ now' = now + 1
    /\ token' = [s \in Sessions |-> IF Alive(s, now') THEN token[s] ELSE NoToken]
    /\ UNCHANGED <<tenant, events, notice, lock, pc, req, entity, diff, login, lapsed, faults>>
-----------------------------------------------------------------------------
\* A tenant as register() leaves it.
Init ==
    /\ tenant = [status |-> "TRIAL", expires |-> NoDate, linked |-> FALSE, settings |-> {}]
    /\ events = {}
    /\ notice = [i \in Payments |-> "none"]
    /\ lock = NoProc
    /\ now = 0
    /\ pc = [p \in Processes |-> "idle"]
    /\ req = [p \in Processes |-> NoReq]
    /\ entity = [p \in Processes |-> NoTenant]
    /\ diff = [p \in Processes |-> {}]
    /\ login = [s \in Sessions |-> NoToken]
    /\ token = [s \in Sessions |-> NoToken]
    /\ lapsed = 0
    /\ faults = 0

Proceed(p) ==
    \/ LookUp(p) \/ Lock(p) \/ Unresolved(p) \/ Credit(p) \/ DuplicateEvent(p)
    \/ SaveSettings(p)

Redeliver(i) == notice[i] = "due" /\ \E p \in Handlers : Deliver(p, i)

Next ==
    \/ \E i \in Payments : PayAtMercadoPago(i) \/ \E p \in Handlers : Deliver(p, i)
    \/ \E p \in Handlers :
        \/ \E f \in Forms : RequestSettings(p, f)
        \/ Proceed(p)
    \/ \E p \in Processes : Fail(p)
    \/ CronFind \/ CronSelect \/ CronUpdate
    \/ \E s \in Sessions : LoginRead(s) \/ LoginSign(s)
    \/ Operator
    \/ Tick

Spec == Init /\ [][Next]_vars

\* PostgreSQL's lock queue and Node's event loop serve everybody in the end,
\* and MercadoPago notifies until it is answered.
FairSpec ==
    /\ Spec
    /\ \A p \in Handlers : SF_vars(Proceed(p))
    /\ \A i \in Payments : SF_vars(Redeliver(i))
-----------------------------------------------------------------------------
(* Properties. *)

SubscriptionTypeOK ==
    /\ tenant \in Tenant
    /\ events \in SUBSET Payments
    /\ notice \in [Payments -> {"none", "due", "acked"}]
    /\ lock \in Processes \cup {NoProc}
    /\ now \in 0..MaxTime
    /\ pc \in [Processes -> InFlight \cup {"idle"}]
    /\ req \in [Processes -> Requests \cup {NoReq}]
    /\ entity \in [Processes -> Tenant \cup {NoTenant}]
    /\ diff \in [Processes -> SUBSET Columns]
    /\ login \in [Sessions -> Login \cup {NoToken}]
    /\ token \in [Sessions -> Token \cup {NoToken}]
    /\ lapsed \in 0..MaxTime
    /\ faults \in 0..MaxFaults

\* The subscription is extended by a payment that is new, by one period from the
\* end that is stored at that moment, and by nothing else: no duplicate or late
\* notification adds a period, and no two notifications share one.
Extends == tenant'.expires # NoDate /\ (tenant.expires = NoDate \/ tenant'.expires > tenant.expires)
OnePeriodPerPayment ==
    [][Extends \/ events' # events =>
        \E i \in Payments \ events :
            /\ events' = events \cup {i}
            /\ tenant' = [tenant EXCEPT !.status = "ACTIVE", !.expires = Extended(tenant)]]_vars

\* A form changes the fields it carries and no other, though another form or a
\* webhook is saved at the same time.
SettingsAreMerged ==
    [][\A p \in Handlers : SaveSettings(p) =>
        tenant' = [tenant EXCEPT !.settings = (@ \ req[p].form.clear) \cup req[p].form.set]]_vars

\* Once a tenant is suspended or cancelled, there is access for the life time of
\* a token and no longer; the only tokens that last longer are signed by logins
\* that had read the tenant before the bar and were still comparing passwords.
AccessEndsWithToken ==
    \A s \in Sessions : Admits(s) /\ tenant.status \in Barred =>
        \/ now - lapsed <= TokenLife
        \/ token[s].read <= lapsed /\ lapsed <= token[s].issued

\* Every payment of a linked tenant is credited in the end.
PaidIsCredited ==
    \A i \in Payments : notice[i] = "due" ~> i \in events \/ ~tenant.linked
=============================================================================
