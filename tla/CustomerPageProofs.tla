------------------------- MODULE CustomerPageProofs -------------------------
(* Theorems about CustomerPage, for every value of its constants: any number *)
(* of handlers, intents, faults and postings.                                *)
EXTENDS CustomerPage, FiniteSetTheorems, TLAPS

-----------------------------------------------------------------------------
(* The inductive invariant. *)

\* Whoever leaves the page leaves its handlers behind.
NobodyWorksAtLogin == at = "login" => Running = {}

\* What the page shows, once nobody is at work.
Current == error \/ unseen \/ customer = server

\* What the page's only handler has still to show of what the server holds, by
\* the stage it is in; loadData covers the page with its spinner, any other
\* handler disables its button.
AtWork(t) ==
    LET me == task[t] IN
    /\ me.kind = "load" => loading /\ me.stage \in {"get", "got", "unauthorized"}
    /\ me.kind # "load" => busy = me.kind
    /\ me.stage \in {"sent", "refused", "link"} => Current
    /\ me.stage \in {"answered", "got"} => unseen \/ me.data = server

CleanPage ==
    /\ \A t, u \in Running : t = u
    /\ \A t \in Running : AtWork(t)
    /\ Running = {} => Current

Inv == PageTypeOK /\ NobodyWorksAtLogin /\ (~crossed /\ at = "page" => CleanPage)
-----------------------------------------------------------------------------
(* Lemmas about the handlers. *)

LEMMA RunningTask ==
    ASSUME PageTypeOK, NEW t \in Tasks, ~Idle(t)
    PROVE  /\ t \in Running /\ task[t] \in Task
           /\ task[t].kind \in Kinds /\ task[t].stage \in Stages
           /\ task[t].intent \in Intents \cup {None} /\ task[t].data \in Data \cup {None}
  <1>1. task[t] \in Task
    BY DEF PageTypeOK, Idle
  <1>2. t \in Running
    BY DEF Running
  <1>3. QED
    BY <1>1, <1>2 DEF Task

LEMMA FreeIsIdle ==
    ASSUME Running # Tasks
    PROVE  Free \in Tasks /\ Idle(Free)
  <1>1. \E t \in Tasks : Idle(t)
    BY DEF Running
  <1>2. QED
    BY <1>1 DEF Free

\* What a handler is after it has gone on to a stage.
LEMMA ContinueEffect ==
    ASSUME PageTypeOK, NEW t \in Tasks, ~Idle(t), NEW stage \in Stages,
           NEW data \in Data \cup {None}, Continue(t, stage, data)
    PROVE  /\ task' \in [Tasks -> Task \cup {None}]
           /\ task'[t].kind = task[t].kind /\ task'[t].intent = task[t].intent
           /\ task'[t].stage = stage /\ task'[t].data = data
           /\ \A u \in Tasks \ {t} : task'[u] = task[u]
           /\ Running' = Running
  <1> DEFINE next == [task[t] EXCEPT !.stage = stage, !.data = data]
  <1>1. task \in [Tasks -> Task \cup {None}] /\ task[t] \in Task
    BY RunningTask DEF PageTypeOK
  <1>2. /\ next \in Task
        /\ next.kind = task[t].kind /\ next.intent = task[t].intent
        /\ next.stage = stage /\ next.data = data
    BY <1>1 DEF Task
  <1>3. task' = [task EXCEPT ![t] = next]
    BY <1>1 DEF Continue
  <1> HIDE DEF next
  <1>4. /\ task' \in [Tasks -> Task \cup {None}]
        /\ task'[t] = next
        /\ \A u \in Tasks \ {t} : task'[u] = task[u]
    BY <1>1, <1>2, <1>3
  <1>5. next # None /\ task[t] # None
    BY <1>1, <1>2, PageNullAssumption
  <1>6. Running' = Running
    BY <1>4, <1>5 DEF Running, Idle
  <1>7. QED
    BY <1>2, <1>4, <1>6

\* A handler that ends leaves the others to theirs.
LEMMA EndEffect ==
    ASSUME PageTypeOK, NEW t \in Tasks, ~Idle(t), End(t)
    PROVE  /\ task' \in [Tasks -> Task \cup {None}]
           /\ \A u \in Tasks \ {t} : task'[u] = task[u]
           /\ Running' = Running \ {t}
           /\ busy' \in {"none", busy}
  <1>1. /\ task' \in [Tasks -> Task \cup {None}]
        /\ task'[t] = None
        /\ \A u \in Tasks \ {t} : task'[u] = task[u]
    BY DEF End, PageTypeOK
  <1>2. Running' = Running \ {t}
    BY <1>1 DEF Running, Idle
  <1>3. QED
    BY <1>1, <1>2 DEF End, Released

\* A handler that starts takes the place of an idle one.
LEMMA StartEffect ==
    ASSUME PageTypeOK, Running # Tasks, NEW new \in Task,
           task' = [task EXCEPT ![Free] = new]
    PROVE  /\ task' \in [Tasks -> Task \cup {None}]
           /\ Free \in Tasks /\ Free \notin Running /\ task'[Free] = new
           /\ \A u \in Tasks \ {Free} : task'[u] = task[u]
           /\ Running' = Running \cup {Free}
  <1>1. Free \in Tasks /\ Idle(Free)
    BY FreeIsIdle
  <1>2. /\ task' \in [Tasks -> Task \cup {None}]
        /\ task'[Free] = new
        /\ \A u \in Tasks \ {Free} : task'[u] = task[u]
    BY <1>1 DEF PageTypeOK
  <1>3. new # None
    BY PageNullAssumption
  <1> HIDE DEF Free
  <1>4. QED
    <2>1. PICK f : f = Free
      OBVIOUS
    <2>2. Running' = Running \cup {f}
      BY <1>1, <1>2, <1>3, <2>1 DEF Running, Idle
    <2>3. QED
      BY <1>1, <1>2, <2>1, <2>2 DEF Running

\* Executing a request leaves the server a customer.
LEMMA ExecutedType ==
    ASSUME PageTypeOK, NEW kind, NEW i
    PROVE  Executed(kind, i) \in Data
  <1>1. server \in Data /\ MaxPostings \in Nat
    BY PageAssumption DEF PageTypeOK
  <1>2. [server EXCEPT !.active = ~@] \in Data
    BY <1>1 DEF Data
  <1>3. [server EXCEPT !.posted[i] = IF @ = MaxPostings THEN @ ELSE @ + 1] \in Data
    BY <1>1 DEF Data
  <1>4. QED
    BY <1>2, <1>3 DEF Executed

\* A document that is left leaves no handler behind.
LEMMA UnmountEffect ==
    ASSUME PageTypeOK, Unmount
    PROVE  /\ task' \in [Tasks -> Task \cup {None}]
           /\ Running' = {}
           /\ late' \subseteq [kind: Kinds, intent: Intents \cup {None}]
  <1>1. \A t \in Tasks : Stage(t, {"sent"}) =>
            task[t].kind \in Kinds /\ task[t].intent \in Intents \cup {None}
    BY RunningTask DEF Stage
  <1>2. late' \subseteq [kind: Kinds, intent: Intents \cup {None}]
    BY <1>1 DEF Unmount, PageTypeOK
  <1>3. QED
    BY <1>2 DEF Unmount, Running, Idle
-----------------------------------------------------------------------------
(* The types. *)

\* The cashier's steps: one field changes, or a handler starts.
LEMMA CashierTypes ==
    ASSUME PageTypeOK,
           \/ \E i \in Intents : Type(i) \/ OpenModal(i)
           \/ CloseModal
           \/ \E kind \in {"tx", "mixed", "block"} : Click(kind)
    PROVE  PageTypeOK'
  <1>1. ASSUME NEW i \in Intents, Type(i) \/ OpenModal(i) PROVE PageTypeOK'
    BY <1>1 DEF Type, OpenModal, PageTypeOK
  <1>2. CASE CloseModal
    BY <1>2 DEF CloseModal, PageTypeOK
  <1>3. ASSUME NEW kind \in {"tx", "mixed", "block"}, Click(kind) PROVE PageTypeOK'
    <2> DEFINE new == [kind |-> kind, stage |-> "sent", intent |-> Submitted(kind),
                       data |-> None]
    <2>1. new \in Task
      BY DEF Task, Kinds, Posting, Stages, Submitted, PageTypeOK
    <2>2. Running # Tasks /\ task' = [task EXCEPT ![Free] = new]
      BY <1>3 DEF Click
    <2> HIDE DEF new
    <2>3. task' \in [Tasks -> Task \cup {None}]
      BY <2>1, <2>2, StartEffect
    <2>4. kind \in Kinds \ {"load"} /\ crossed' \in BOOLEAN
      BY <1>3 DEF Kinds, Posting, Click, PageTypeOK
    <2>5. QED
      BY <1>3, <2>3, <2>4 DEF Click, PageTypeOK
  <1>4. QED
    BY <1>1, <1>2, <1>3

\* The steps of one handler and of the server that answers it.
LEMMA HandlerTypes ==
    ASSUME PageTypeOK, NEW t \in Tasks,
           Proceed(t) \/ Timeout(t) \/ LoadTimeout(t)
    PROVE  PageTypeOK'
  <1> USE DEF Stage
  <1>1. CASE Serve(t)
    <2>1. ~Idle(t)
      BY <1>1 DEF Serve
    <2>2. Executed(task[t].kind, task[t].intent) \in Data
      BY ExecutedType
    <2>3. /\ server' \in Data
          /\ \E stage \in Stages, data \in Data \cup {None} : Continue(t, stage, data)
      BY <1>1, <2>2 DEF Serve, Stages, PageTypeOK
    <2>4. task' \in [Tasks -> Task \cup {None}]
      BY <2>1, <2>3, ContinueEffect
    <2>5. QED
      BY <1>1, <2>3, <2>4 DEF Serve, screen, PageTypeOK
  <1>2. CASE ServeGet(t)
    <2>1. \E stage \in Stages, data \in Data \cup {None} : Continue(t, stage, data)
      BY <1>2 DEF ServeGet, Stages, PageTypeOK
    <2>2. task' \in [Tasks -> Task \cup {None}]
      BY <1>2, <2>1, ContinueEffect DEF ServeGet
    <2>3. QED
      BY <1>2, <2>2 DEF ServeGet, screen, PageTypeOK
  <1>3. CASE Posted(t)
    <2>1. Continue(t, "get", None)
      BY <1>3 DEF Posted, AfterPosting
    <2>2. task' \in [Tasks -> Task \cup {None}]
      BY <1>3, <2>1, ContinueEffect DEF Posted, Stages
    <2>3. /\ loading' \in BOOLEAN
          /\ form' \in Intents \cup {None} /\ modal' \in Intents \cup {None}
      BY <1>3 DEF Posted, PageTypeOK
    <2>4. QED
      BY <1>3, <2>2, <2>3 DEF Posted, PageTypeOK
  <1>4. CASE Shown(t)
    <2>1. task' \in [Tasks -> Task \cup {None}] /\ busy' \in {"none", busy}
      BY <1>4, EndEffect DEF Shown
    <2>2. customer' \in Data \cup {None}
      BY <1>4, RunningTask DEF Shown
    <2>3. QED
      BY <1>4, <2>1, <2>2 DEF Shown, PageTypeOK
  <1>5. CASE Refused(t)
    <2>1. task' \in [Tasks -> Task \cup {None}] /\ busy' \in {"none", busy}
      BY <1>5, EndEffect DEF Refused
    <2>2. QED
      BY <1>5, <2>1 DEF Refused, PageTypeOK
  <1>6. ASSUME ~Idle(t), AfterLoad(t)
        PROVE  task' \in [Tasks -> Task \cup {None}] /\ busy' \in {"none", busy}
    BY <1>6, ContinueEffect, EndEffect DEF AfterLoad, Stages
  <1>7. CASE Loaded(t)
    <2>1. task' \in [Tasks -> Task \cup {None}] /\ busy' \in {"none", busy}
      BY <1>6, <1>7 DEF Loaded
    <2>2. customer' \in Data \cup {None}
      BY <1>7, RunningTask DEF Loaded
    <2>3. QED
      BY <1>7, <2>1, <2>2 DEF Loaded, PageTypeOK
  <1>8. CASE Ticket(t)
    <2>1. task' \in [Tasks -> Task \cup {None}] /\ busy' \in {"none", busy}
      BY <1>8, EndEffect DEF Ticket
    <2>2. QED
      BY <1>8, <2>1 DEF Ticket, PageTypeOK
  <1>8a. CASE TicketBarred(t)
    <2>1. task' \in [Tasks -> Task \cup {None}]
      BY <1>8a, ContinueEffect DEF TicketBarred, Stages
    <2>2. QED
      BY <1>8a, <2>1 DEF TicketBarred, screen, PageTypeOK
  <1>9. CASE Expelled(t)
    <2>1. /\ task' \in [Tasks -> Task \cup {None}]
          /\ late' \subseteq [kind: Kinds, intent: Intents \cup {None}]
      BY <1>9, UnmountEffect DEF Expelled
    <2>2. QED
      BY <1>9, <2>1 DEF Expelled, Purged, Unmount, PageTypeOK
  <1>10. Fault => faults' \in 0..MaxFaults
    BY PageAssumption DEF Fault, PageTypeOK
  <1>11. CASE Timeout(t)
    <2>1. task' \in [Tasks -> Task \cup {None}] /\ busy' \in {"none", busy}
      BY <1>11, EndEffect DEF Timeout
    <2>2. late' \subseteq [kind: Kinds, intent: Intents \cup {None}]
      BY <1>11, RunningTask DEF Timeout, PageTypeOK
    <2>3. QED
      BY <1>10, <1>11, <2>1, <2>2 DEF Timeout, PageTypeOK
  <1>12. CASE LoadTimeout(t)
    <2>1. task' \in [Tasks -> Task \cup {None}] /\ busy' \in {"none", busy}
      BY <1>6, <1>12 DEF LoadTimeout
    <2>2. QED
      BY <1>10, <1>12, <2>1 DEF LoadTimeout, PageTypeOK
  <1>13. QED
    BY <1>1, <1>2, <1>3, <1>4, <1>5, <1>7, <1>8, <1>8a, <1>9, <1>11, <1>12 DEF Proceed

\* The steps of the session and of requests nobody waits for.
LEMMA SessionTypes ==
    ASSUME Inv,
           \/ \E r \in late : ServeLate(r)
           \/ Mount \/ Revoke \/ Logout \/ LoginClick \/ LoginAnswer
    PROVE  PageTypeOK'
  <1> PageTypeOK
    BY DEF Inv
  <1>1. ASSUME NEW r \in late, ServeLate(r) PROVE PageTypeOK'
    <2>1. server' \in Data
      BY <1>1, ExecutedType DEF ServeLate, PageTypeOK
    <2>2. QED
      BY <1>1, <2>1 DEF ServeLate, screen, PageTypeOK
  <1>2. CASE Mount
    <2> DEFINE new == [kind |-> "load", stage |-> "get", intent |-> None, data |-> None]
    <2>1. new \in Task
      BY DEF Task, Kinds, Stages
    <2>2. Running # Tasks
      BY <1>2, PageAssumption DEF Mount, Inv, NobodyWorksAtLogin
    <2>3. task' = [task EXCEPT ![Free] = new]
      BY <1>2 DEF Mount
    <2> HIDE DEF new
    <2>4. task' \in [Tasks -> Task \cup {None}]
      BY <2>1, <2>2, <2>3, StartEffect
    <2>5. QED
      BY <1>2, <2>4 DEF Mount, PageTypeOK
  <1>3. CASE Revoke
    BY <1>3 DEF Revoke, screen, PageTypeOK
  <1>4. CASE Logout
    <2>1. /\ task' \in [Tasks -> Task \cup {None}]
          /\ late' \subseteq [kind: Kinds, intent: Intents \cup {None}]
      BY <1>4, UnmountEffect DEF Logout
    <2>2. QED
      BY <1>4, <2>1 DEF Logout, Unmount, PageTypeOK
  <1>5. CASE LoginClick
    BY <1>5 DEF LoginClick, screen, PageTypeOK
  <1>6. CASE LoginAnswer
    <2>1. Fault => faults' \in 0..MaxFaults
      BY PageAssumption DEF Fault, PageTypeOK
    <2>2. QED
      BY <1>6, <2>1 DEF LoginAnswer, screen, PageTypeOK
  <1>7. QED
    BY <1>1, <1>2, <1>3, <1>4, <1>5, <1>6
-----------------------------------------------------------------------------
(* The handler at work. *)

LEMMA WorkersAreOnThePage ==
    ASSUME Inv, NEW t \in Tasks, ~Idle(t)
    PROVE  at = "page"
  BY RunningTask DEF Inv, NobodyWorksAtLogin, PageTypeOK

\* The only handler has gone on: nobody else was at work, so nobody else is.
LEMMA OnlyOneWorks ==
    ASSUME PageTypeOK, CleanPage, NEW t \in Tasks, ~Idle(t),
           PageTypeOK', \A u \in Tasks \ {t} : task'[u] = task[u],
           Running' = {} => Current',
           t \in Running' => AtWork(t)'
    PROVE  CleanPage'
  <1>1. \A u \in Running : u = t
    BY RunningTask DEF CleanPage
  <1>2. Running' \subseteq {t}
    BY <1>1 DEF Running, Idle
  <1>3. \A u \in Running' : AtWork(u)'
    BY <1>2
  <1>4. QED
    BY <1>2, <1>3 DEF CleanPage

LEMMA CashierWork ==
    ASSUME Inv, PageTypeOK',
           \/ \E i \in Intents : Type(i) \/ OpenModal(i)
           \/ CloseModal
           \/ \E kind \in {"tx", "mixed", "block"} : Click(kind)
    PROVE  Inv'
  <1>1. ASSUME NEW i \in Intents, Type(i) \/ OpenModal(i) PROVE Inv'
    BY <1>1 DEF Type, OpenModal, Inv, NobodyWorksAtLogin, CleanPage, AtWork, Current, Running, Idle
  <1>2. CASE CloseModal
    BY <1>2 DEF CloseModal, Inv, NobodyWorksAtLogin, CleanPage, AtWork, Current, Running, Idle
  <1>3. ASSUME NEW kind \in {"tx", "mixed", "block"}, Click(kind) PROVE Inv'
    <2>1. at = "page" /\ at' = "page"
      BY <1>3 DEF Click, Interactive
    <2>2. ASSUME ~crossed' PROVE CleanPage'
      <3>1. ~crossed /\ CleanPage /\ \A t \in Running : task[t].kind = kind
        BY <1>3, <2>1, <2>2 DEF Click, Inv, PageTypeOK
      <3>2. Running = {}
        <4>1. ASSUME NEW t \in Running PROVE FALSE
          <5>1. ~loading /\ busy # kind
            BY <1>3 DEF Click, Interactive, Enabled
          <5>2. task[t].kind # "load" /\ busy = task[t].kind
            BY <3>1, <5>1 DEF CleanPage, AtWork
          <5>3. QED
            BY <3>1, <5>1, <5>2
        <4>2. QED
          BY <4>1
      <3> DEFINE new == [kind |-> kind, stage |-> "sent", intent |-> Submitted(kind),
                         data |-> None]
      <3>3. new \in Task
        BY DEF Inv, Task, Kinds, Posting, Stages, Submitted, PageTypeOK
      <3>4. Running # Tasks /\ task' = [task EXCEPT ![Free] = new]
        BY <1>3 DEF Click
      <3>5. new.kind = kind /\ new.stage = "sent"
        OBVIOUS
      <3> HIDE DEF new
      <3>6. Running' = {Free} /\ task'[Free] = new
        BY <3>2, <3>3, <3>4, StartEffect DEF Inv
      <3>7. Current' /\ busy' = kind /\ kind # "load"
        BY <1>3, <3>1, <3>2 DEF Click, CleanPage, Current
      <3>8. PICK f : f = Free
        OBVIOUS
      <3>9. Running' = {f} /\ task'[f] = new
        BY <3>6, <3>8
      <3>10. AtWork(f)'
        BY <3>5, <3>7, <3>9 DEF AtWork
      <3>11. QED
        BY <3>9, <3>10 DEF CleanPage
    <2>3. QED
      BY <2>1, <2>2 DEF Inv, NobodyWorksAtLogin
  <1>4. QED
    BY <1>1, <1>2, <1>3

LEMMA HandlerWork ==
    ASSUME Inv, PageTypeOK', NEW t \in Tasks,
           Proceed(t) \/ Timeout(t) \/ LoadTimeout(t)
    PROVE  Inv'
  <1> USE DEF Stage
  <1>0. ~Idle(t)
    BY DEF Proceed, Serve, ServeGet, Posted, Shown, Refused, Loaded, Ticket, TicketBarred, Expelled,
           Timeout, LoadTimeout
  <1>1. at = "page" /\ PageTypeOK
    BY <1>0, WorkersAreOnThePage DEF Inv
  <1>2. t \in Running
    BY <1>0, <1>1, RunningTask
  \* A step that stays on the page changes t alone, and must keep t's part.
  <1>3. ASSUME at' = "page", \A u \in Tasks \ {t} : task'[u] = task[u], UNCHANGED crossed,
               CleanPage /\ AtWork(t) =>
                    /\ Running' = {} => Current'
                    /\ t \in Running' => AtWork(t)'
        PROVE  Inv'
    <2>1. ASSUME ~crossed' PROVE CleanPage'
      <3>1. CleanPage /\ AtWork(t)
        BY <1>1, <1>2, <1>3, <2>1 DEF Inv, CleanPage
      <3>2. QED
        BY <1>0, <1>1, <1>3, <2>1, <3>1, OnlyOneWorks
    <2>2. QED
      BY <1>3, <2>1 DEF Inv, NobodyWorksAtLogin
  <1>4. CASE Serve(t)
    <2>1. Executed(task[t].kind, task[t].intent) \in Data
      BY <1>1, ExecutedType
    <2>2. PICK stage \in {"answered", "refused", "unauthorized"}, data \in Data \cup {None} :
            /\ Continue(t, stage, data)
            /\ stage = "answered" => data = server'
            /\ stage = "refused" => server' = server
      BY <1>4, <2>1 DEF Serve
    <2>3. /\ task'[t].kind = task[t].kind /\ task'[t].stage = stage /\ task'[t].data = data
          /\ \A u \in Tasks \ {t} : task'[u] = task[u]
          /\ Running' = Running
      BY <1>0, <1>1, <2>2, ContinueEffect DEF Stages
    <2>4. /\ task[t].stage = "sent"
          /\ UNCHANGED <<at, customer, loading, error, busy, crossed, unseen>>
      BY <1>4 DEF Serve, screen
    <2>5. QED
      BY <1>1, <1>2, <1>3, <2>2, <2>3, <2>4 DEF AtWork, Current
  <1>5. CASE ServeGet(t)
    <2>1. PICK stage \in {"got", "unauthorized"}, data \in Data \cup {None} :
            /\ Continue(t, stage, data)
            /\ stage = "got" => data = server'
      BY <1>1, <1>5 DEF ServeGet, PageTypeOK
    <2>2. /\ task'[t].kind = task[t].kind /\ task'[t].stage = stage /\ task'[t].data = data
          /\ \A u \in Tasks \ {t} : task'[u] = task[u]
          /\ Running' = Running
      BY <1>0, <1>1, <2>1, ContinueEffect DEF Stages
    <2>3. /\ task[t].stage = "get"
          /\ UNCHANGED <<at, customer, loading, error, busy, crossed>>
      BY <1>5 DEF ServeGet, screen
    <2>4. QED
      BY <1>1, <1>2, <1>3, <2>1, <2>2, <2>3 DEF AtWork
  <1>6. CASE Posted(t)
    <2>1. Continue(t, "get", None)
      BY <1>6 DEF Posted, AfterPosting
    <2>2. /\ task'[t].kind = task[t].kind /\ task'[t].stage = "get"
          /\ \A u \in Tasks \ {t} : task'[u] = task[u]
          /\ Running' = Running
      BY <1>0, <1>1, <2>1, ContinueEffect DEF Stages
    <2>3. task[t].kind # "load" /\ UNCHANGED <<at, busy, crossed, unseen>>
      BY <1>6 DEF Posted, Posting
    <2>4. QED
      BY <1>1, <1>2, <1>3, <2>2, <2>3 DEF AtWork
  \* The end of the handler: the screen shows what the server holds.
  <1>7. ASSUME End(t), at' = "page", UNCHANGED crossed, AtWork(t) => Current'
        PROVE  Inv'
    <2>1. (\A u \in Tasks \ {t} : task'[u] = task[u]) /\ t \notin Running'
      BY <1>0, <1>1, <1>7, EndEffect
    <2>2. QED
      BY <1>3, <1>7, <2>1
  <1>8. CASE Shown(t)
    BY <1>1, <1>7, <1>8 DEF Shown, AtWork, Current
  <1>9. CASE Refused(t)
    BY <1>1, <1>7, <1>9 DEF Refused, AtWork, Current
  <1>10. CASE Ticket(t)
    BY <1>1, <1>7, <1>10 DEF Ticket, AtWork, Current
  <1>10a. CASE TicketBarred(t)
    <2>1. /\ task'[t].kind = task[t].kind /\ task'[t].stage = "unauthorized"
          /\ \A u \in Tasks \ {t} : task'[u] = task[u]
          /\ Running' = Running
      BY <1>1, <1>10a, ContinueEffect DEF TicketBarred, Stages
    <2>2. task[t].stage = "link" /\ UNCHANGED <<at, loading, busy, crossed>>
      BY <1>10a DEF TicketBarred, screen
    <2>3. QED
      BY <1>1, <1>2, <1>3, <2>1, <2>2 DEF AtWork
  <1>11. CASE Timeout(t)
    BY <1>1, <1>7, <1>11 DEF Timeout, AtWork, Current
  \* loadData is over: submitTx goes on to its ticket.
  <1>12. ASSUME AfterLoad(t), at' = "page", UNCHANGED crossed, AtWork(t) => Current'
         PROVE  Inv'
    <2>1. CASE task[t].kind = "tx"
      <3>1. Continue(t, "link", None) /\ busy' = busy
        BY <1>12, <2>1 DEF AfterLoad
      <3>2. /\ task'[t].kind = "tx" /\ task'[t].stage = "link"
            /\ \A u \in Tasks \ {t} : task'[u] = task[u]
            /\ Running' = Running
        BY <1>0, <1>1, <2>1, <3>1, ContinueEffect DEF Stages
      <3>3. QED
        BY <1>2, <1>3, <1>12, <2>1, <3>1, <3>2 DEF AtWork
    <2>2. CASE task[t].kind # "tx"
      BY <1>7, <1>12, <2>2 DEF AfterLoad
    <2>3. QED
      BY <2>1, <2>2
  <1>13. CASE Loaded(t)
    BY <1>1, <1>12, <1>13 DEF Loaded, AtWork, Current
  <1>14. CASE LoadTimeout(t)
    BY <1>1, <1>12, <1>14 DEF LoadTimeout, Current
  <1>15. CASE Expelled(t)
    <2>1. Running' = {} /\ at' = "login"
      BY <1>1, <1>15, UnmountEffect DEF Expelled
    <2>2. QED
      BY <2>1 DEF Inv, NobodyWorksAtLogin
  <1>16. QED
    BY <1>4, <1>5, <1>6, <1>8, <1>9, <1>10, <1>10a, <1>11, <1>13, <1>14,
       <1>15 DEF Proceed

LEMMA SessionWork ==
    ASSUME Inv, PageTypeOK',
           \/ \E r \in late : ServeLate(r)
           \/ Mount \/ Revoke \/ Logout \/ LoginClick \/ LoginAnswer
    PROVE  Inv'
  <1> USE DEF Inv, NobodyWorksAtLogin, CleanPage, AtWork, Current, Running, Idle
  <1>1. ASSUME NEW r \in late, ServeLate(r) PROVE Inv'
    BY <1>1 DEF ServeLate, screen
  <1>2. CASE Mount
    <2> DEFINE new == [kind |-> "load", stage |-> "get", intent |-> None, data |-> None]
    <2>1. new \in Task
      BY DEF Task, Kinds, Stages
    <2>2. Running # Tasks
      BY <1>2, PageAssumption DEF Mount
    <2>3. task' = [task EXCEPT ![Free] = new]
      BY <1>2 DEF Mount
    <2>4. new.kind = "load" /\ new.stage = "get"
      OBVIOUS
    <2> HIDE DEF new, Running, CleanPage, AtWork, Idle
    <2>5. Running' = {Free} /\ task'[Free] = new
      BY <1>2, <2>1, <2>2, <2>3, StartEffect DEF Mount
    <2>6. at' = "page" /\ loading'
      BY <1>2 DEF Mount
    <2>7. PICK f : f = Free
      OBVIOUS
    <2>8. Running' = {f} /\ task'[f] = new
      BY <2>5, <2>7
    <2>9. AtWork(f)'
      BY <2>4, <2>6, <2>8 DEF AtWork
    <2>10. CleanPage'
      BY <2>8, <2>9 DEF CleanPage
    <2>11. QED
      BY <2>6, <2>10
  <1>3. CASE Revoke
    BY <1>3 DEF Revoke, screen
  <1>4. CASE Logout
    <2>1. Running' = {} /\ at' = "login"
      BY <1>4, UnmountEffect DEF Logout
    <2>2. QED
      BY <2>1
  <1>5. CASE LoginClick
    BY <1>5 DEF LoginClick, screen
  <1>6. CASE LoginAnswer
    BY <1>6 DEF LoginAnswer, screen
  <1>7. QED
    BY <1>1, <1>2, <1>3, <1>4, <1>5, <1>6
-----------------------------------------------------------------------------
(* The theorems. *)

LEMMA InvStart == Init => Inv
  <1> SUFFICES ASSUME Init PROVE Inv
    OBVIOUS
  <1>1. Running = {}
    BY DEF Init, Running, Idle
  <1>2. server \in Data
    BY PageAssumption DEF Init, Data
  <1>3. task \in [Tasks -> Task \cup {None}]
    BY DEF Init
  <1>4. 0 \in 0..MaxFaults
    BY PageAssumption
  <1>5. PageTypeOK
    <2>1. {loading, error, crossed, unseen} \subseteq BOOLEAN
      BY DEF Init
    <2>2. {form, modal} \subseteq Intents \cup {None} /\ late = {}
      BY DEF Init
    <2>3. /\ token \in {"none", "good", "bad"} /\ attempt \in 0..2
          /\ at \in {"login", "page"} /\ customer \in Data \cup {None}
          /\ busy \in {"none"} \cup (Kinds \ {"load"}) /\ faults \in 0..MaxFaults
      BY <1>4 DEF Init
    <2>4. QED
      BY <1>2, <1>3, <2>1, <2>2, <2>3 DEF PageTypeOK
  <1>6. QED
    BY <1>1, <1>5 DEF Init, Inv, NobodyWorksAtLogin

LEMMA InvStep == Inv /\ [Next]_vars => Inv'
  <1> SUFFICES ASSUME Inv, [Next]_vars PROVE Inv'
    OBVIOUS
  <1>1. CASE UNCHANGED vars
    BY <1>1 DEF vars, Inv, PageTypeOK, NobodyWorksAtLogin, CleanPage, AtWork, Current, Running, Idle
  <1>2. CASE \/ \E i \in Intents : Type(i) \/ OpenModal(i)
             \/ CloseModal
             \/ \E kind \in {"tx", "mixed", "block"} : Click(kind)
    BY <1>2, CashierTypes, CashierWork DEF Inv
  <1>3. ASSUME NEW t \in Tasks, Proceed(t) \/ Timeout(t) \/ LoadTimeout(t) PROVE Inv'
    BY <1>3, HandlerTypes, HandlerWork DEF Inv
  <1>4. CASE \/ \E r \in late : ServeLate(r)
             \/ Mount \/ Revoke \/ Logout \/ LoginClick \/ LoginAnswer
    BY <1>4, SessionTypes, SessionWork
  <1>5. QED
    BY <1>1, <1>2, <1>3, <1>4 DEF Next

LEMMA InvAlways == Spec => []Inv
  BY InvStart, InvStep, PTL DEF Spec

\* Every variable of the page keeps its type: no answer is shown that is not a
\* customer, and no button is disabled under a name no handler releases.
THEOREM PageTypesHold == Spec => []PageTypeOK
  <1>1. Inv => PageTypeOK
    BY DEF Inv
  <1>2. QED
    BY <1>1, InvAlways, PTL

\* As long as no two different buttons are used at once, the disabled button and
\* the spinner keep the page's handlers from running at the same time.
THEOREM HandlersExclude == Spec => []OneHandlerAtATime
  <1>1. Inv => OneHandlerAtATime
    <2> SUFFICES ASSUME Inv, ~crossed PROVE Cardinality(Running) <= 1
      BY DEF OneHandlerAtATime
    <2>1. \A t, u \in Running : t = u
      BY DEF Inv, NobodyWorksAtLogin, CleanPage, PageTypeOK
    <2>2. CASE Running = {}
      BY <2>2, FS_EmptySet
    <2>3. CASE Running # {}
      <3>1. PICK t \in Running : Running = {t}
        BY <2>1, <2>3
      <3>2. Cardinality({t}) = 1
        BY FS_Singleton
      <3>3. QED
        BY <3>1, <3>2
    <2>4. QED
      BY <2>2, <2>3
  <1>2. QED
    BY <1>1, InvAlways, PTL

\* Then the page at rest shows what the server holds, whatever was refused or
\* timed out, unless a request was executed behind the page's back since it was
\* last loaded.
THEOREM QuietPageShowsTheServer == Spec => []QuietPageIsCurrent
  <1>1. Inv => QuietPageIsCurrent
    BY DEF Inv, CleanPage, Current, QuietPageIsCurrent
  <1>2. QED
    BY <1>1, InvAlways, PTL
=============================================================================
