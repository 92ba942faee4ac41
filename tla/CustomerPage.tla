----------------------------- MODULE CustomerPage -----------------------------
(***************************************************************************)
(* The browser: the page of one customer (clientes/[id]), its asynchronous *)
(* event handlers, the axios client they share, and the session's cookie.  *)
(*                                                                         *)
(* A handler is a task.  It sends a request, awaits the answer or axios'   *)
(* timeout, and goes on with the answer: a posting reloads the page's data *)
(* and asks for the link of its ticket, a change of the customer shows the *)
(* row it gets back.  A request whose handler has given up may still be    *)
(* executed.  The server is what the page can see of it: which intents of  *)
(* the cashier it has posted, and the customer's columns.                  *)
(***************************************************************************)
EXTENDS Integers, FiniteSets

CONSTANTS
    Tasks,          \* handlers that may be running at once
    Intents,        \* movements the cashier wants to register
    MaxFaults,      \* bound: timeouts
    MaxPostings,    \* bound: postings of one intent the server tells apart
    None

\* A browser runs at least one handler at a time.
ASSUME PageAssumption ==
    Tasks # {} /\ None \notin Intents /\ MaxFaults \in Nat /\ MaxPostings \in Nat \ {0}

VARIABLES
    server,     \* the customer at the server
    late,       \* requests the browser gave up and the server may still execute
    token,      \* the cookie: absent, or a token the server accepts or rejects
    attempt,    \* authService.login: the attempt under way, 0 for none
    at,         \* where the browser is
    customer,   \* state customer: the data on the screen
    loading,    \* state loading: the spinner replaces the page
    error,      \* state error: a message replaces the page
    busy,       \* state actionLoading
    form,       \* the movement typed into the form of debts and payments
    modal,      \* the movement typed into the modal of mixed payments
    task,       \* the handlers
    crossed,    \* history: since the page was mounted a button was used while
                \* the handler of another one ran
    unseen,     \* history: since loadData's last answer a request was executed
                \* whose answer the page has not awaited
    faults      \* history: the timeouts so far

screen == <<customer, loading, error, busy, form, modal>>
vars == <<server, late, token, attempt, at, customer, loading, error, busy, form, modal,
          task, crossed, unseen, faults>>
-----------------------------------------------------------------------------
Data == [posted: [Intents -> 0..MaxPostings], active: BOOLEAN]
Posting == {"tx", "mixed"}          \* submitTx; the modals' handlers
Kinds == {"load", "block"} \cup Posting
Stages == {"sent", "answered", "refused", "get", "got", "link", "unauthorized"}
Task == [kind: Kinds, stage: Stages, intent: Intents \cup {None}, data: Data \cup {None}]

ASSUME PageNullAssumption == None \notin Data /\ None \notin Task

Idle(t) == task[t] = None
Running == {t \in Tasks : ~Idle(t)}
Free == CHOOSE t \in Tasks : Idle(t)     \* which one is of no matter
Stage(t, stages) == ~Idle(t) /\ task[t].stage \in stages
Continue(t, stage, data) ==
    task' = [task EXCEPT ![t].stage = stage, ![t].data = data]
Interactive == at = "page" /\ ~loading /\ ~error

\* Mutant: the handler names itself where it should name nobody.
ReleasedToItself(t) == task[t].kind

\* Mutant: the handler releases its button in the try block only.
ReleasedOnSuccess(t) == IF task[t].stage = "refused" THEN busy ELSE "none"

\* finally { setActionLoading('') }, whosever flag it is; loadData has none.
Released(t) == IF task[t].kind = "load" THEN busy ELSE "none"

End(t) == task' = [task EXCEPT ![t] = None] /\ busy' = Released(t)
-----------------------------------------------------------------------------
(* The cashier, who registers a movement one way and looks first whether the   *)
(* page shows it.                                                              *)

Wanted(i) == customer.posted[i] = 0

Type(i) ==
    /\ Interactive /\ modal = None /\ busy # "tx"
    /\ Wanted(i)
    /\ form' = i
    /\ UNCHANGED <<server, late, token, attempt, at, customer, loading, error, busy, modal,
                   task, crossed, unseen, faults>>

OpenModal(i) ==
    /\ Interactive /\ modal = None
    /\ Wanted(i) /\ form # i
    /\ modal' = i
    /\ UNCHANGED <<server, late, token, attempt, at, customer, loading, error, busy, form,
                   task, crossed, unseen, faults>>

CloseModal ==
    /\ Interactive /\ modal # None /\ busy # "mixed"
    /\ modal' = None
    /\ UNCHANGED <<server, late, token, attempt, at, customer, loading, error, busy, form,
                   task, crossed, unseen, faults>>

\* Mutant: the button stays enabled.
EnabledAlways(kind) == TRUE

\* A button is disabled while the flag names its own kind.
Enabled(kind) == busy # kind

\* The movement the button submits, and the overlay of the modal.
Submitted(kind) == CASE kind = "tx" -> form [] kind = "mixed" -> modal [] OTHER -> None

Click(kind) ==
    /\ Interactive /\ Running # Tasks
    /\ (kind = "mixed") = (modal # None)
    /\ kind = "tx" => form # None
    /\ kind \in Posting => Wanted(Submitted(kind))
    /\ Enabled(kind)
    /\ task' = [task EXCEPT ![Free] = [kind |-> kind, stage |-> "sent",
                                       intent |-> Submitted(kind), data |-> None]]
    /\ busy' = kind
    /\ crossed' = (crossed \/ \E t \in Running : task[t].kind # kind)
    /\ UNCHANGED <<server, late, token, attempt, at, customer, loading, error, form, modal,
                   unseen, faults>>
-----------------------------------------------------------------------------
(* The server, and the token it sees. *)

\* Every submission carries a key of its own: a second one of an intent is
\* posted as well.
Executed(kind, i) ==
    IF kind = "block" THEN [server EXCEPT !.active = ~@]
    ELSE [server EXCEPT !.posted[i] = IF @ = MaxPostings THEN @ ELSE @ + 1]

\* The request arrives: executed, refused by a rule, or 401.
Serve(t) ==
    /\ Stage(t, {"sent"})
    /\ \/ /\ token = "good"
          /\ server' = Executed(task[t].kind, task[t].intent)
          /\ Continue(t, "answered", server')
       \/ token = "good" /\ Continue(t, "refused", None) /\ UNCHANGED server
       \/ token # "good" /\ Continue(t, "unauthorized", None) /\ UNCHANGED server
    /\ UNCHANGED <<late, token, attempt, at, crossed, unseen, faults>> /\ UNCHANGED screen

\* The two GETs of loadData.
ServeGet(t) ==
    /\ Stage(t, {"get"})
    /\ \/ token = "good" /\ Continue(t, "got", server) /\ unseen' = FALSE
       \/ token # "good" /\ Continue(t, "unauthorized", None) /\ UNCHANGED unseen
    /\ UNCHANGED <<server, late, token, attempt, at, crossed, faults>> /\ UNCHANGED screen

\* A request the browser has given up is executed after all, or never.
ServeLate(r) ==
    /\ r \in late
    /\ late' = late \ {r}
    /\ \/ /\ token = "good"
          /\ server' = Executed(r.kind, r.intent)
          /\ unseen' = TRUE
       \/ UNCHANGED <<server, unseen>>
    /\ UNCHANGED <<token, attempt, at, task, crossed, faults>> /\ UNCHANGED screen

\* The token expires, or the user is deactivated.
Revoke ==
    /\ token = "good"
    /\ token' = "bad"
    /\ UNCHANGED <<server, late, attempt, at, task, crossed, unseen, faults>> /\ UNCHANGED screen
-----------------------------------------------------------------------------
(* The handlers go on. *)

\* Mutant: the page is not reloaded after a posting.
AfterPostingNothing(t) == "link"

\* After a posting comes loadData.
AfterPosting(t) == "get"

\* submitTx and handleMixedPayment: the inputs are cleared.
Posted(t) ==
    /\ Stage(t, {"answered"}) /\ task[t].kind \in Posting
    /\ IF task[t].kind = "tx" THEN form' = None /\ UNCHANGED modal
       ELSE modal' = None /\ UNCHANGED form
    /\ loading' = (loading \/ AfterPosting(t) = "get")
    /\ Continue(t, AfterPosting(t), None)
    /\ UNCHANGED <<server, late, token, attempt, at, customer, error, busy, crossed, unseen, faults>>

\* handleToggleBlock and its like: setCustomer(response.data).
Shown(t) ==
    /\ Stage(t, {"answered"}) /\ task[t].kind = "block"
    /\ customer' = task[t].data
    /\ End(t)
    /\ UNCHANGED <<server, late, token, attempt, at, loading, error, form, modal, crossed, unseen, faults>>

\* An alert shows what the server says.
Refused(t) ==
    /\ Stage(t, {"refused"})
    /\ End(t)
    /\ UNCHANGED <<server, late, token, attempt, at, customer, loading, error, form, modal,
                   crossed, unseen, faults>>

\* loadData has its answers; its caller goes on.
AfterLoad(t) ==
    IF task[t].kind = "tx" THEN Continue(t, "link", None) /\ UNCHANGED busy ELSE End(t)

Loaded(t) ==
    /\ Stage(t, {"got"})
    /\ customer' = task[t].data
    /\ loading' = FALSE
    /\ AfterLoad(t)
    /\ UNCHANGED <<server, late, token, attempt, at, error, form, modal, crossed, unseen, faults>>

\* The request for the summary link meets a token that is rejected.
TicketBarred(t) ==
    /\ Stage(t, {"link"})
    /\ token # "good"
    /\ Continue(t, "unauthorized", None)
    /\ UNCHANGED <<server, late, token, attempt, at, crossed, unseen, faults>> /\ UNCHANGED screen

\* The link arrives, or the request fails otherwise; the ticket is shown.
Ticket(t) ==
    /\ Stage(t, {"link"})
    /\ End(t)
    /\ UNCHANGED <<server, late, token, attempt, at, customer, loading, error, form, modal,
                   crossed, unseen, faults>>

Fault == faults < MaxFaults /\ faults' = faults + 1

\* 30 seconds without an answer: the handler's catch shows an alert.
Timeout(t) ==
    /\ Stage(t, {"sent", "answered"})
    /\ Fault
    /\ late' = IF task[t].stage = "answered" THEN late
               ELSE late \cup {[kind |-> task[t].kind, intent |-> task[t].intent]}
    /\ unseen' = (unseen \/ task[t].stage = "answered")
    /\ End(t)
    /\ UNCHANGED <<server, token, attempt, at, customer, loading, error, form, modal, crossed>>

\* loadData catches its own timeout: an error replaces the page for good.
LoadTimeout(t) ==
    /\ Stage(t, {"get", "got"})
    /\ Fault
    /\ error' = TRUE
    /\ loading' = FALSE
    /\ AfterLoad(t)
    /\ UNCHANGED <<server, late, token, attempt, at, customer, form, modal, crossed, unseen>>
-----------------------------------------------------------------------------
(* Where the browser is. *)

\* window.location replaces the document and its state; what it has sent is on
\* its way.
Unmount ==
    /\ late' = late \cup {[kind |-> task[t].kind, intent |-> task[t].intent] :
                            t \in {u \in Tasks : Stage(u, {"sent"})}}
    /\ task' = [t \in Tasks |-> None]
    /\ customer' = None /\ loading' = FALSE /\ error' = FALSE
    /\ busy' = "none" /\ form' = None /\ modal' = None
    /\ UNCHANGED <<server, attempt, crossed, unseen, faults>>

Logout ==
    /\ at = "page"
    /\ at' = "login"
    /\ token' = "none"
    /\ Unmount

\* Mutant: the interceptor keeps the cookie.
PurgedNot == token

\* The interceptor removes the cookie.
Purged == "none"

\* 401: location = '/login'.
Expelled(t) ==
    /\ Stage(t, {"unauthorized"})
    /\ at' = "login"
    /\ token' = Purged
    /\ Unmount

\* The layout admits whoever has a cookie; loadData is the page's effect.
Mount ==
    /\ at = "login" /\ attempt = 0
    /\ token # "none"
    /\ at' = "page"
    /\ task' = [task EXCEPT ![Free] = [kind |-> "load", stage |-> "get", intent |-> None,
                                       data |-> None]]
    /\ loading' = TRUE
    /\ crossed' = FALSE
    /\ UNCHANGED <<server, late, token, attempt, customer, error, busy, form, modal, unseen,
                   faults>>

LoginClick ==
    /\ at = "login" /\ token = "none" /\ attempt = 0
    /\ attempt' = 1
    /\ UNCHANGED <<server, late, token, at, task, crossed, unseen, faults>> /\ UNCHANGED screen

\* Credentials accepted, or 401; a timeout is tried once more.
LoginAnswer ==
    /\ attempt # 0
    /\ \/ token' = "good" /\ attempt' = 0 /\ UNCHANGED faults
       \/ attempt' = 0 /\ UNCHANGED <<token, faults>>
       \/ Fault /\ attempt' = (IF attempt = 1 THEN 2 ELSE 0) /\ UNCHANGED token
    /\ UNCHANGED <<server, late, at, task, crossed, unseen>> /\ UNCHANGED screen
-----------------------------------------------------------------------------
Init ==
    /\ server = [posted |-> [i \in Intents |-> 0], active |-> TRUE]
    /\ late = {}
    /\ token = "none" /\ attempt = 0 /\ at = "login"
    /\ customer = None /\ loading = FALSE /\ error = FALSE
    /\ busy = "none" /\ form = None /\ modal = None
    /\ task = [t \in Tasks |-> None]
    /\ crossed = FALSE /\ unseen = FALSE
    /\ faults = 0

Proceed(t) ==
    \/ Serve(t) \/ ServeGet(t)
    \/ Posted(t) \/ Shown(t) \/ Refused(t) \/ Loaded(t)
    \/ Ticket(t) \/ TicketBarred(t)
    \/ Expelled(t)

Next ==
    \/ \E i \in Intents : Type(i) \/ OpenModal(i)
    \/ CloseModal
    \/ \E kind \in {"tx", "mixed", "block"} : Click(kind)
    \/ \E t \in Tasks : Proceed(t) \/ Timeout(t) \/ LoadTimeout(t)
    \/ \E r \in late : ServeLate(r)
    \/ Mount \/ Revoke \/ Logout \/ LoginClick \/ LoginAnswer

Spec == Init /\ [][Next]_vars

\* A request is answered or times out, and its handler goes on.
FairSpec == Spec /\ \A t \in Tasks : WF_vars(Proceed(t))
-----------------------------------------------------------------------------
(* Properties. *)

PageTypeOK ==
    /\ server \in Data
    /\ late \subseteq [kind: Kinds, intent: Intents \cup {None}]
    /\ token \in {"none", "good", "bad"} /\ attempt \in 0..2
    /\ at \in {"login", "page"}
    /\ customer \in Data \cup {None}
    /\ {loading, error, crossed, unseen} \subseteq BOOLEAN
    /\ busy \in {"none"} \cup (Kinds \ {"load"})
    /\ {form, modal} \subseteq Intents \cup {None}
    /\ task \in [Tasks -> Task \cup {None}]
    /\ faults \in 0..MaxFaults

\* As long as no two different buttons are used at once, a disabled button is
\* enough: never are two handlers of the page at work.  (Two different buttons
\* are not kept apart: the flag they share names one of them.)
OneHandlerAtATime == ~crossed => Cardinality(Running) <= 1

\* Then the page at rest shows what the server holds, after answers, refusals
\* and timeouts: every handler shows or reloads what it has changed.  Excepted
\* is what the server executed and did not tell: a request it answered too late,
\* or executed after the browser had given it up, until the page reloads.
QuietPageIsCurrent ==
    ~crossed /\ ~unseen /\ at = "page" /\ ~error /\ Running = {} => customer = server

\* No handler leaves its button disabled for ever, whatever the others do to
\* the flag they share, and no spinner stays.
ActionsEnd ==
    /\ busy # "none" ~> busy = "none"
    /\ loading ~> ~loading

\* A token the server rejects sends the browser to the login page once and is
\* gone: whoever comes and goes between that page and the customer's for ever
\* logs in again and again.
NoRedirectLoop == []<>(at = "login") /\ []<>(at = "page") => []<>(attempt # 0)
-----------------------------------------------------------------------------
(* What the documentation says and the code does not do. *)

\* "Un doble-click o un reintento por timeout no duplica una deuda o un pago."
OnePostingPerIntent == \A i \in Intents : server.posted[i] <= 1
=============================================================================
