-------------------------- MODULE SubscriptionProofs --------------------------
(***************************************************************************)
(* For every number of handlers, payments, sessions and settings: one      *)
(* period per payment, no lost settings, and no access beyond the life of  *)
(* a token.  Whoever writes under FOR UPDATE writes what the row holds;    *)
(* the cron, which does not lock, can only take a period away.             *)
(***************************************************************************)
EXTENDS Subscription, TLAPS

\* The entity of a handler that is about to write is the row itself.
HandlersInv ==
    \A p \in Handlers :
        /\ pc[p] \in {"idle", "lookup", "lock", "write"}
        /\ pc[p] # "idle" => req[p] \in Requests
        /\ pc[p] = "lookup" => req[p].op = "pay"
        /\ pc[p] = "write" => lock = p /\ entity[p] = tenant

\* The cron's entity was read when the tenant had a date, which has not
\* moved back since.
CronInv ==
    /\ pc[Cron] \in {"idle", "select", "update"}
    /\ pc[Cron] # "idle" =>
        /\ entity[Cron] \in Tenant
        /\ entity[Cron].expires \in Int /\ tenant.expires \in Int
        /\ entity[Cron].expires <= tenant.expires

\* No login of a barred tenant, in progress or done, has read the tenant after
\* the bar.
ReadBefore(k) == k.read <= now /\ (tenant.status \in Barred => k.read <= lapsed)
TokensInv ==
    \A s \in Sessions :
        /\ login[s] # NoToken => ReadBefore(login[s])
        /\ token[s] # NoToken => ReadBefore(token[s]) /\ token[s].issued <= now

Inv == SubscriptionTypeOK /\ HandlersInv /\ CronInv /\ TokensInv
-----------------------------------------------------------------------------
LEMMA Extension ==
    ASSUME NEW e \in Tenant, now \in Int
    PROVE  /\ Extended(e) \in Int
           /\ e.expires \in Int => Extended(e) >= e.expires
  BY SubscriptionTimeAssumption DEF Tenant, Extended

\* The history of barring, whatever a step makes of the row.
LEMMA LapseKeepsTokens ==
    ASSUME Inv, Lapse, UNCHANGED <<now, login, token>>
    PROVE  lapsed' \in 0..MaxTime /\ TokensInv'
  <1>1. now \in 0..MaxTime /\ lapsed \in 0..MaxTime /\ MaxTime \in Nat
    BY SubscriptionTimeAssumption DEF Inv, SubscriptionTypeOK
  <1>2. lapsed' \in 0..MaxTime
    BY <1>1 DEF Lapse
  <1>3. TokensInv'
    BY <1>1 DEF Inv, TokensInv, ReadBefore, Lapse
  <1>4. QED
    BY <1>2, <1>3

LEMMA InitEstablishesInv == Init => Inv
  <1> SUFFICES ASSUME Init PROVE Inv
    OBVIOUS
  <1>1. tenant \in Tenant /\ 0 \in 0..MaxTime /\ 0 \in 0..MaxFaults
    BY SubscriptionTimeAssumption DEF Init, Tenant, Status
  <1>2. SubscriptionTypeOK
    BY <1>1 DEF Init, SubscriptionTypeOK
  <1>3. HandlersInv /\ CronInv /\ TokensInv
    BY DEF Init, HandlersInv, CronInv, TokensInv, ReadBefore, Processes
  <1>4. QED
    BY <1>2, <1>3 DEF Inv
-----------------------------------------------------------------------------
\* The date of the row is not taken away, and does not fall below the cron's.
DateStays ==
    tenant.expires \in Int => tenant'.expires \in Int /\ tenant'.expires >= tenant.expires

\* A process that ends, after a write of the row under the lock or without one.
LEMMA FinishPreservesInv ==
    ASSUME Inv, NEW p \in Processes, Finish(p),
           events' \in SUBSET Payments,
           notice' \in [Payments -> {"none", "due", "acked"}],
           faults' \in 0..MaxFaults,
           lapsed' \in 0..MaxTime, TokensInv',
           tenant' \in Tenant,
           DateStays \/ p = Cron,
           tenant' # tenant => lock = p \/ lock \notin Handlers
    PROVE  Inv'
  <1>1. SubscriptionTypeOK'
    BY DEF Inv, SubscriptionTypeOK, Finish
  <1>2. HandlersInv'
    <2> SUFFICES ASSUME NEW q \in Handlers PROVE
            (/\ pc[q] \in {"idle", "lookup", "lock", "write"}
             /\ pc[q] # "idle" => req[q] \in Requests
             /\ pc[q] = "lookup" => req[q].op = "pay"
             /\ pc[q] = "write" => lock = q /\ entity[q] = tenant)'
      BY DEF HandlersInv
    <2>1. CASE q = p
      BY <2>1 DEF Inv, SubscriptionTypeOK, Finish
    <2>2. CASE q # p
      <3>1. pc'[q] = pc[q] /\ req'[q] = req[q] /\ entity'[q] = entity[q]
        BY <2>2 DEF Inv, SubscriptionTypeOK, Finish
      <3>2. pc[q] = "write" => lock = q /\ lock' = q /\ tenant' = tenant
        BY <2>2 DEF Inv, HandlersInv, Finish
      <3>3. QED
        BY <3>1, <3>2 DEF Inv, HandlersInv
    <2>3. QED
      BY <2>1, <2>2
  <1>3. CronInv'
    <2>1. CASE p = Cron
      BY <2>1 DEF Inv, SubscriptionTypeOK, CronInv, Finish
    <2>2. CASE p # Cron
      <3>1. pc'[Cron] = pc[Cron] /\ entity'[Cron] = entity[Cron]
        BY <2>2 DEF Inv, SubscriptionTypeOK, Finish, Processes
      <3>2. QED
        BY <2>2, <3>1 DEF Inv, CronInv, DateStays
    <2>3. QED
      BY <2>1, <2>2
  <1>4. QED
    BY <1>1, <1>2, <1>3 DEF Inv

\* A process that ends and has not touched the row.
LEMMA QuietEndPreservesInv ==
    ASSUME Inv, NEW p \in Processes, Finish(p), UNCHANGED <<tenant, events, lapsed>>,
           notice' \in [Payments -> {"none", "due", "acked"}],
           faults' \in 0..MaxFaults
    PROVE  Inv'
  <1>1. /\ events' \in SUBSET Payments /\ lapsed' \in 0..MaxTime /\ tenant' \in Tenant
        /\ TokensInv'
    BY DEF Inv, SubscriptionTypeOK, TokensInv, ReadBefore, Finish
  <1>2. DateStays
    BY DEF DateStays
  <1>3. QED
    BY <1>1, <1>2, FinishPreservesInv

LEMMA FaultType ==
    ASSUME Inv, Fault
    PROVE  faults' \in 0..MaxFaults
  BY SubscriptionTimeAssumption DEF Inv, SubscriptionTypeOK, Fault

LEMMA AcknowledgeType ==
    ASSUME Inv, NEW p \in Processes, Acknowledge(p)
    PROVE  notice' \in [Payments -> {"none", "due", "acked"}] /\ faults' \in 0..MaxFaults
  <1>1. CASE notice' = [notice EXCEPT ![req[p].payment] = "acked"] /\ UNCHANGED faults
    BY <1>1 DEF Inv, SubscriptionTypeOK
  <1>2. CASE Fault /\ UNCHANGED notice
    BY <1>2, FaultType DEF Inv, SubscriptionTypeOK
  <1>3. QED
    BY <1>1, <1>2 DEF Acknowledge
-----------------------------------------------------------------------------
LEMMA PayAtMercadoPagoPreservesInv ==
    ASSUME Inv, NEW i \in Payments, PayAtMercadoPago(i)
    PROVE  Inv'
  <1>1. SubscriptionTypeOK'
    BY DEF Inv, SubscriptionTypeOK, PayAtMercadoPago
  <1>2. QED
    BY <1>1 DEF Inv, HandlersInv, CronInv, TokensInv, ReadBefore, PayAtMercadoPago

\* A handler begins.
LEMMA BeginPreservesInv ==
    ASSUME Inv, NEW p \in Handlers, NEW r \in Requests, pc[p] = "idle",
           NEW at \in {"lookup", "lock"}, at = "lookup" => r.op = "pay",
           req' = [req EXCEPT ![p] = r], pc' = [pc EXCEPT ![p] = at],
           UNCHANGED <<tenant, events, notice, lock, now, entity, diff, login, token, lapsed, faults>>
    PROVE  Inv'
  <1>1. SubscriptionTypeOK'
    BY DEF Inv, SubscriptionTypeOK, InFlight
  <1>2. HandlersInv'
    BY DEF Inv, HandlersInv, SubscriptionTypeOK, Processes
  <1>3. CronInv' /\ TokensInv'
    BY SubscriptionHandlersAssumption
    DEF Inv, CronInv, TokensInv, ReadBefore, SubscriptionTypeOK, Processes
  <1>4. QED
    BY <1>1, <1>2, <1>3 DEF Inv

LEMMA LookUpPreservesInv ==
    ASSUME Inv, NEW p \in Handlers, LookUp(p)
    PROVE  Inv'
  <1>1. p \in Processes /\ UNCHANGED <<tenant, events, lapsed>>
    BY DEF LookUp, Processes
  <1>2. CASE Credited(req[p].payment)
    BY <1>1, <1>2, AcknowledgeType, QuietEndPreservesInv DEF LookUp
  <1>3. CASE ~Credited(req[p].payment)
    <2>1. /\ pc' = [pc EXCEPT ![p] = "lock"] /\ pc[p] = "lookup"
          /\ UNCHANGED <<notice, lock, now, req, entity, diff, login, token, faults>>
      BY <1>3 DEF LookUp
    <2>2. SubscriptionTypeOK'
      BY <1>1, <2>1 DEF Inv, SubscriptionTypeOK, InFlight
    <2>3. HandlersInv'
      BY <1>1, <2>1 DEF Inv, HandlersInv, SubscriptionTypeOK
    <2>4. CronInv' /\ TokensInv'
      BY <1>1, <2>1, SubscriptionHandlersAssumption
      DEF Inv, CronInv, TokensInv, ReadBefore, SubscriptionTypeOK
    <2>5. QED
      BY <2>2, <2>3, <2>4 DEF Inv
  <1>4. QED
    BY <1>2, <1>3

LEMMA LockPreservesInv ==
    ASSUME Inv, NEW p \in Handlers, Lock(p)
    PROVE  Inv'
  <1>1. /\ p \in Processes /\ pc[p] = "lock" /\ lock = NoProc /\ lock' = p
        /\ entity' = [entity EXCEPT ![p] = tenant]
        /\ pc' = [pc EXCEPT ![p] = "write"]
        /\ UNCHANGED <<tenant, events, notice, now, req, diff, login, token, lapsed, faults>>
    BY DEF Lock, Lockable, Processes
  <1>2. SubscriptionTypeOK'
    BY <1>1 DEF Inv, SubscriptionTypeOK, InFlight
  <1>3. \A q \in Handlers : pc[q] # "write"
    BY <1>1, SubscriptionHandlersAssumption DEF Inv, HandlersInv
  <1>4. HandlersInv'
    BY <1>1, <1>3 DEF Inv, HandlersInv, SubscriptionTypeOK, Processes
  <1>5. CronInv' /\ TokensInv'
    BY <1>1, SubscriptionHandlersAssumption
    DEF Inv, CronInv, TokensInv, ReadBefore, SubscriptionTypeOK
  <1>6. QED
    BY <1>2, <1>4, <1>5 DEF Inv

\* The row that Credit leaves.
LEMMA CreditedRow ==
    ASSUME Inv, NEW p \in Handlers, Credit(p)
    PROVE  /\ entity[p] = tenant /\ lock = p
           /\ tenant' = [tenant EXCEPT !.status = "ACTIVE", !.expires = Extended(tenant)]
           /\ tenant' \in Tenant /\ DateStays
           /\ req[p].payment \in Payments
  <1>1. entity[p] = tenant /\ lock = p /\ req[p] \in Requests /\ req[p].op = "pay"
    BY DEF Inv, HandlersInv, Credit
  <1>2. tenant' = [tenant EXCEPT !.status = "ACTIVE", !.expires = Extended(tenant)]
    BY <1>1 DEF Credit
  <1>3. tenant \in Tenant /\ now \in Int
    BY SubscriptionTimeAssumption DEF Inv, SubscriptionTypeOK
  <1>4. tenant' = [status |-> "ACTIVE", expires |-> Extended(tenant),
                   linked |-> tenant.linked, settings |-> tenant.settings]
    BY <1>2, <1>3 DEF Tenant
  <1>5. tenant' \in Tenant /\ DateStays
    BY <1>3, <1>4, Extension DEF Tenant, Status, DateStays
  <1>6. QED
    BY <1>1, <1>2, <1>5 DEF Requests

LEMMA CreditPreservesInv ==
    ASSUME Inv, NEW p \in Handlers, Credit(p)
    PROVE  Inv'
  <1>1. p \in Processes /\ Finish(p) /\ Acknowledge(p) /\ Lapse /\ UNCHANGED <<now, login, token>>
    BY DEF Credit, Finish, Processes
  <1>2. events' \in SUBSET Payments
    BY CreditedRow DEF Credit, Inv, SubscriptionTypeOK
  <1>3. QED
    BY <1>1, <1>2, CreditedRow, AcknowledgeType, LapseKeepsTokens, FinishPreservesInv

LEMMA SaveSettingsPreservesInv ==
    ASSUME Inv, NEW p \in Handlers, SaveSettings(p)
    PROVE  Inv'
  <1>1. /\ p \in Processes /\ Finish(p) /\ Lapse /\ UNCHANGED <<now, login, token>>
        /\ pc[p] = "write" /\ req[p].op = "settings"
        /\ tenant' = [entity[p] EXCEPT !.settings = Merged(@, req[p].form)]
        /\ UNCHANGED <<events, notice, faults>>
    BY DEF SaveSettings, Finish, Processes
  <1>2. entity[p] = tenant /\ lock = p /\ req[p] \in Requests /\ tenant \in Tenant
    BY <1>1 DEF Inv, HandlersInv, SubscriptionTypeOK
  <1>3. Merged(tenant.settings, req[p].form) \in SUBSET Settings
    BY <1>1, <1>2, SubscriptionFormsAssumption DEF Merged, Requests, Tenant
  <1>4. tenant' = [status |-> tenant.status, expires |-> tenant.expires,
                   linked |-> tenant.linked, settings |-> Merged(tenant.settings, req[p].form)]
    BY <1>1, <1>2 DEF Tenant
  <1>5. tenant' \in Tenant /\ tenant'.expires = tenant.expires
    BY <1>2, <1>3, <1>4 DEF Tenant
  <1>6. DateStays
    BY <1>5 DEF DateStays
  <1>7. /\ events' \in SUBSET Payments
        /\ notice' \in [Payments -> {"none", "due", "acked"}]
        /\ faults' \in 0..MaxFaults
    BY <1>1 DEF Inv, SubscriptionTypeOK
  <1>8. lapsed' \in 0..MaxTime /\ TokensInv'
    BY <1>1, LapseKeepsTokens
  <1>9. QED
    BY <1>1, <1>2, <1>5, <1>6, <1>7, <1>8, FinishPreservesInv
-----------------------------------------------------------------------------
LEMMA CronReadsPreserveInv ==
    ASSUME Inv, CronFind \/ CronSelect
    PROVE  Inv'
  <1>1. Cron \in Processes /\ tenant \in Tenant
    BY DEF Processes, Inv, SubscriptionTypeOK
  <1>2. CASE CronFind
    <2>1. [tenant EXCEPT !.status = "SUSPENDED"]
            = [status |-> "SUSPENDED", expires |-> tenant.expires,
               linked |-> tenant.linked, settings |-> tenant.settings]
      BY <1>1 DEF Tenant
    <2>2. /\ [tenant EXCEPT !.status = "SUSPENDED"] \in Tenant
          /\ [tenant EXCEPT !.status = "SUSPENDED"].expires = tenant.expires
          /\ tenant.expires \in Int
      BY <1>1, <1>2, <2>1 DEF Tenant, Status, CronFind, Overdue
    <2>3. SubscriptionTypeOK'
      BY <1>2, <2>2 DEF Inv, SubscriptionTypeOK, CronFind, InFlight
    <2>4. HandlersInv'
      BY <1>2, SubscriptionHandlersAssumption
      DEF Inv, HandlersInv, SubscriptionTypeOK, CronFind
    <2>5. CronInv'
      BY <1>1, <1>2, <2>2 DEF Inv, CronInv, SubscriptionTypeOK, CronFind
    <2>6. QED
      BY <1>2, <2>3, <2>4, <2>5 DEF Inv, TokensInv, ReadBefore, CronFind
  <1>3. CASE CronSelect
    <2>1. SubscriptionTypeOK'
      BY <1>3 DEF Inv, SubscriptionTypeOK, CronSelect, InFlight
    <2>2. HandlersInv'
      BY <1>3, SubscriptionHandlersAssumption
      DEF Inv, HandlersInv, SubscriptionTypeOK, CronSelect
    <2>3. CronInv'
      BY <1>1, <1>3 DEF Inv, CronInv, SubscriptionTypeOK, CronSelect
    <2>4. QED
      BY <1>3, <2>1, <2>2, <2>3 DEF Inv, TokensInv, ReadBefore, CronSelect
  <1>4. QED
    BY <1>2, <1>3

\* The cron's UPDATE never moves the end of the subscription forward.
LEMMA CronUpdateRow ==
    ASSUME Inv, CronUpdate
    PROVE  /\ tenant' \in Tenant /\ ~Extends
           /\ tenant' # tenant => lock = NoProc
  <1>1. /\ tenant \in Tenant /\ entity[Cron] \in Tenant
        /\ entity[Cron].expires \in Int /\ tenant.expires \in Int
        /\ entity[Cron].expires <= tenant.expires
    BY DEF Inv, CronInv, SubscriptionTypeOK, CronUpdate
  <1> DEFINE old(f) == IF f \in diff[Cron] THEN entity[Cron][f] ELSE tenant[f]
  <1>2. tenant' = [status |-> old("status"), expires |-> old("expires"),
                   linked |-> old("linked"), settings |-> old("settings")]
    BY DEF CronUpdate
  <1>3. tenant' \in Tenant
    BY <1>1, <1>2 DEF Tenant
  <1>4. tenant'.expires \in {entity[Cron].expires, tenant.expires}
    BY <1>2
  <1>5. ~Extends
    BY <1>1, <1>4, SubscriptionTimeAssumption DEF Extends
  <1>6. ASSUME diff[Cron] = {} PROVE tenant' = tenant
    BY <1>1, <1>2, <1>6 DEF Tenant
  <1>7. QED
    BY <1>3, <1>5, <1>6 DEF CronUpdate, Lockable

LEMMA CronUpdatePreservesInv ==
    ASSUME Inv, CronUpdate
    PROVE  Inv'
  <1>1. /\ Cron \in Processes /\ Finish(Cron) /\ Lapse
        /\ UNCHANGED <<events, notice, faults>> /\ UNCHANGED <<now, login, token>>
    BY DEF CronUpdate, Finish, Processes
  <1>2. /\ events' \in SUBSET Payments
        /\ notice' \in [Payments -> {"none", "due", "acked"}]
        /\ faults' \in 0..MaxFaults
    BY <1>1 DEF Inv, SubscriptionTypeOK
  <1>3. lapsed' \in 0..MaxTime /\ TokensInv'
    BY <1>1, LapseKeepsTokens
  <1>4. QED
    BY <1>1, <1>2, <1>3, CronUpdateRow, SubscriptionHandlersAssumption, FinishPreservesInv
-----------------------------------------------------------------------------
LEMMA LoginReadPreservesInv ==
    ASSUME Inv, NEW s \in Sessions, LoginRead(s)
    PROVE  Inv'
  <1> DEFINE k == [status |-> tenant.status, read |-> now,
                   expires |-> IF tenant.status = "PAST_DUE" THEN tenant.expires ELSE NoDate]
  <1>1. now \in Int /\ k \in Login /\ ReadBefore(k)
    BY SubscriptionTimeAssumption
    DEF Inv, SubscriptionTypeOK, Tenant, Login, LoginRead, MayLogIn, ReadBefore
  <1>2. /\ login' = [login EXCEPT ![s] = k]
        /\ UNCHANGED <<tenant, events, notice, lock, now, pc, req, entity, diff, token, lapsed, faults>>
    BY DEF LoginRead
  <1> HIDE DEF k
  <1>3. SubscriptionTypeOK'
    BY <1>1, <1>2 DEF Inv, SubscriptionTypeOK
  <1>4. TokensInv'
    BY <1>1, <1>2 DEF Inv, SubscriptionTypeOK, TokensInv, ReadBefore
  <1>5. QED
    BY <1>2, <1>3, <1>4 DEF Inv, HandlersInv, CronInv

LEMMA LoginSignPreservesInv ==
    ASSUME Inv, NEW s \in Sessions, LoginSign(s)
    PROVE  Inv'
  <1> DEFINE k == [status |-> login[s].status, expires |-> login[s].expires,
                   read |-> login[s].read, issued |-> now]
  <1>1. login[s] \in Login /\ ReadBefore(login[s])
    BY DEF Inv, SubscriptionTypeOK, TokensInv, ReadBefore, LoginSign
  <1>2. now \in Int /\ k \in Token /\ ReadBefore(k) /\ k.issued <= now
    BY <1>1, SubscriptionTimeAssumption DEF Inv, SubscriptionTypeOK, Login, Token, ReadBefore
  <1>3. /\ token' = [token EXCEPT ![s] = k] /\ login' = [login EXCEPT ![s] = NoToken]
        /\ UNCHANGED <<tenant, events, notice, lock, now, pc, req, entity, diff, lapsed, faults>>
    BY DEF LoginSign
  <1> HIDE DEF k
  <1>4. SubscriptionTypeOK'
    BY <1>2, <1>3 DEF Inv, SubscriptionTypeOK
  <1>5. TokensInv'
    BY <1>2, <1>3 DEF Inv, SubscriptionTypeOK, TokensInv, ReadBefore
  <1>6. QED
    BY <1>3, <1>4, <1>5 DEF Inv, HandlersInv, CronInv

LEMMA OperatorPreservesInv ==
    ASSUME Inv, Operator
    PROVE  Inv'
  <1>1. tenant \in Tenant
    BY DEF Inv, SubscriptionTypeOK
  <1>2. tenant' \in Tenant /\ tenant'.expires = tenant.expires
    <2>1. CASE tenant' = [tenant EXCEPT !.linked = TRUE]
      <3>1. tenant' = [status |-> tenant.status, expires |-> tenant.expires,
                       linked |-> TRUE, settings |-> tenant.settings]
        BY <1>1, <2>1 DEF Tenant
      <3>2. QED
        BY <1>1, <3>1 DEF Tenant
    <2>2. ASSUME NEW status \in Status, tenant' = [tenant EXCEPT !.status = status]
          PROVE  tenant' \in Tenant /\ tenant'.expires = tenant.expires
      <3>1. tenant' = [status |-> status, expires |-> tenant.expires,
                       linked |-> tenant.linked, settings |-> tenant.settings]
        BY <1>1, <2>2 DEF Tenant
      <3>2. QED
        BY <1>1, <3>1 DEF Tenant
    <2>3. QED
      BY <2>1, <2>2 DEF Operator, Status
  <1>3. /\ lock = NoProc /\ Lapse
        /\ UNCHANGED <<events, notice, lock, now, pc, req, entity, diff, login, token, faults>>
    BY DEF Operator
  <1>4. lapsed' \in 0..MaxTime /\ TokensInv'
    BY <1>3, LapseKeepsTokens
  <1>5. SubscriptionTypeOK'
    BY <1>2, <1>3, <1>4 DEF Inv, SubscriptionTypeOK
  <1>6. HandlersInv'
    BY <1>3, SubscriptionHandlersAssumption DEF Inv, HandlersInv
  <1>7. CronInv'
    BY <1>2, <1>3 DEF Inv, CronInv
  <1>8. QED
    BY <1>4, <1>5, <1>6, <1>7 DEF Inv

LEMMA TickPreservesInv ==
    ASSUME Inv, Tick
    PROVE  Inv'
  <1>1. /\ now \in Int /\ now' = now + 1 /\ now' \in 0..MaxTime
        /\ \A s \in Sessions : token'[s] \in {token[s], NoToken}
        /\ token' \in [Sessions -> Token \cup {NoToken}]
        /\ UNCHANGED <<tenant, events, notice, lock, pc, req, entity, diff, login, lapsed, faults>>
    BY SubscriptionTimeAssumption DEF Inv, SubscriptionTypeOK, Tick
  <1>2. SubscriptionTypeOK'
    BY <1>1 DEF Inv, SubscriptionTypeOK
  <1>3. ASSUME NEW k \in Login \cup Token, ReadBefore(k) PROVE ReadBefore(k)'
    BY <1>1, <1>3 DEF ReadBefore, Login, Token
  <1>4. TokensInv'
    <2> SUFFICES ASSUME NEW s \in Sessions
                 PROVE  /\ (login[s] # NoToken => ReadBefore(login[s]))'
                        /\ (token[s] # NoToken => ReadBefore(token[s]))'
                        /\ (token[s] # NoToken => token[s].issued <= now)'
      BY <1>1 DEF TokensInv, ReadBefore
    <2>1. login[s] # NoToken => login[s] \in Login /\ ReadBefore(login[s])
      BY DEF Inv, SubscriptionTypeOK, TokensInv, ReadBefore
    <2>2. token'[s] # NoToken =>
            /\ token'[s] = token[s] /\ token[s] \in Token /\ ReadBefore(token[s])
            /\ token[s].issued \in Int /\ token[s].issued <= now
      BY <1>1 DEF Inv, SubscriptionTypeOK, TokensInv, ReadBefore, Token
    <2>3. QED
      BY <1>1, <1>3, <2>1, <2>2
  <1>5. QED
    BY <1>1, <1>2, <1>4 DEF Inv, HandlersInv, CronInv
-----------------------------------------------------------------------------
LEMMA NextPreservesInv == Inv /\ [Next]_vars => Inv'
  <1> SUFFICES ASSUME Inv, [Next]_vars PROVE Inv'
    OBVIOUS
  <1>1. ASSUME NEW p \in Handlers, NEW i \in Payments, Deliver(p, i) PROVE Inv'
    <2>1. [op |-> "pay", payment |-> i] \in Requests
      BY DEF Requests
    <2>2. QED
      BY <1>1, <2>1, BeginPreservesInv DEF Deliver
  <1>2. ASSUME NEW p \in Handlers, NEW f \in Forms, RequestSettings(p, f)
        PROVE  Inv'
    <2>1. [op |-> "settings", form |-> f] \in Requests
      BY DEF Requests
    <2>2. QED
      BY <1>2, <2>1, BeginPreservesInv DEF RequestSettings
  <1>3. ASSUME NEW p \in Handlers, Proceed(p) PROVE Inv'
    <2>1. p \in Processes
      BY DEF Processes
    <2>2. CASE Unresolved(p)
      BY <2>1, <2>2, AcknowledgeType, QuietEndPreservesInv DEF Unresolved
    <2>3. CASE DuplicateEvent(p)
      BY <2>1, <2>3, QuietEndPreservesInv DEF DuplicateEvent, Inv, SubscriptionTypeOK
    <2>4. QED
      BY <1>3, <2>2, <2>3, LookUpPreservesInv, LockPreservesInv, CreditPreservesInv,
         SaveSettingsPreservesInv DEF Proceed
  <1>4. ASSUME NEW p \in Processes, Fail(p) PROVE Inv'
    BY <1>4, FaultType, QuietEndPreservesInv DEF Fail, Inv, SubscriptionTypeOK
  <1>5. CASE UNCHANGED vars
    BY <1>5 DEF vars, Inv, SubscriptionTypeOK, HandlersInv, CronInv, TokensInv, ReadBefore
  <1>6. QED
    BY <1>1, <1>2, <1>3, <1>4, <1>5, PayAtMercadoPagoPreservesInv, CronReadsPreserveInv,
       CronUpdatePreservesInv, LoginReadPreservesInv, LoginSignPreservesInv,
       OperatorPreservesInv, TickPreservesInv
    DEF Next

LEMMA SubscriptionInvariance == Spec => []Inv
  <1>1. Init => Inv
    BY InitEstablishesInv
  <1>2. Inv /\ [Next]_vars => Inv'
    BY NextPreservesInv
  <1>3. QED
    BY <1>1, <1>2, PTL DEF Spec

\* The row of the tenant and the memory of its handlers stay in their types.
THEOREM SubscriptionTypeCorrect == Spec => []SubscriptionTypeOK
  <1>1. Inv => SubscriptionTypeOK
    BY DEF Inv
  <1>2. QED
    BY <1>1, SubscriptionInvariance, PTL

\* A bar of the tenant ends all access after the life of one token, except for
\* the logins that had read the tenant before it.
THEOREM AccessEndsWithTokenHolds == Spec => []AccessEndsWithToken
  <1>1. Inv => AccessEndsWithToken
    <2> SUFFICES ASSUME Inv, NEW s \in Sessions, Admits(s), tenant.status \in Barred
                 PROVE  \/ now - lapsed <= TokenLife
                        \/ token[s].read <= lapsed /\ lapsed <= token[s].issued
      BY DEF AccessEndsWithToken
    <2>1. token[s] # NoToken /\ now - token[s].issued <= TokenLife
      BY DEF Admits, Alive
    <2>2. token[s] \in Token /\ token[s].issued \in Int /\ token[s].read <= lapsed
      BY <2>1 DEF Inv, TokensInv, ReadBefore, SubscriptionTypeOK, Token
    <2>3. now \in Int /\ lapsed \in Int /\ TokenLife \in Int
      BY SubscriptionTimeAssumption DEF Inv, SubscriptionTypeOK
    <2>4. QED
      BY <2>1, <2>2, <2>3
  <1>2. QED
    BY <1>1, SubscriptionInvariance, PTL

\* Only a new payment extends the subscription, by one period from the end
\* that the row has at that moment.
THEOREM OnePeriodPerPaymentHolds == Spec => OnePeriodPerPayment
  <1> DEFINE Extension1 == Extends \/ events' # events =>
                \E i \in Payments \ events :
                    /\ events' = events \cup {i}
                    /\ tenant' = [tenant EXCEPT !.status = "ACTIVE",
                                                !.expires = Extended(tenant)]
  <1>1. Inv /\ [Next]_vars => [Extension1]_vars
    <2> SUFFICES ASSUME Inv, Next PROVE Extension1
      OBVIOUS
    <2>1. ASSUME NEW p \in Handlers, Credit(p) PROVE Extension1
      BY <2>1, CreditedRow DEF Credit, Credited
    <2>2. tenant \in Tenant
      BY DEF Inv, SubscriptionTypeOK
    <2>3. ASSUME tenant'.expires = tenant.expires, UNCHANGED events PROVE Extension1
      <3>1. ~Extends
        BY <2>2, <2>3, SubscriptionTimeAssumption DEF Extends, Tenant
      <3>2. QED
        BY <2>3, <3>1
    <2>4. CASE CronUpdate
      BY <2>4, CronUpdateRow DEF CronUpdate
    <2>5. CASE Operator
      <3>1. tenant'.expires = tenant.expires /\ UNCHANGED events
        BY <2>2, <2>5 DEF Operator, Tenant
      <3>2. QED
        BY <2>3, <3>1
    <2>6. ASSUME NEW p \in Handlers, SaveSettings(p) PROVE Extension1
      <3>1. entity[p] = tenant
        BY <2>6 DEF SaveSettings, Inv, HandlersInv
      <3>2. tenant'.expires = tenant.expires /\ UNCHANGED events
        BY <2>2, <2>6, <3>1 DEF SaveSettings, Tenant
      <3>3. QED
        BY <2>3, <3>2
    <2>7. ASSUME UNCHANGED <<tenant, events>> PROVE Extension1
      BY <2>3, <2>7
    <2>8. QED
      BY <2>1, <2>4, <2>5, <2>6, <2>7
      DEF Next, PayAtMercadoPago, Deliver, RequestSettings, Proceed, LookUp, Lock,
          Unresolved, DuplicateEvent, Fail, CronFind, CronSelect, LoginRead, LoginSign, Tick
  <1>2. QED
    BY <1>1, SubscriptionInvariance, PTL DEF Spec, OnePeriodPerPayment

\* No form undoes what another form or a webhook has stored.
THEOREM SettingsAreMergedHolds == Spec => SettingsAreMerged
  <1> DEFINE Merge == \A p \in Handlers : SaveSettings(p) =>
                tenant' = [tenant EXCEPT !.settings = (@ \ req[p].form.clear) \cup req[p].form.set]
  <1>1. Inv /\ [Next]_vars => [Merge]_vars
    <2>1. ASSUME Inv, NEW p \in Handlers, SaveSettings(p)
          PROVE  tenant' = [tenant EXCEPT !.settings = (@ \ req[p].form.clear) \cup req[p].form.set]
      <3>1. entity[p] = tenant
        BY <2>1 DEF SaveSettings, Inv, HandlersInv
      <3>2. QED
        BY <2>1, <3>1 DEF SaveSettings, Merged
    <2>2. QED
      BY <2>1
  <1>2. QED
    BY <1>1, SubscriptionInvariance, PTL DEF Spec, SettingsAreMerged
=============================================================================
