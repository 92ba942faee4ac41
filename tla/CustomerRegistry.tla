--------------------------- MODULE CustomerRegistry ---------------------------
(***************************************************************************)
(* The file of customers of one tenant: CustomersService.create,           *)
(* updateCustomer and updateCreditLimit, with the logs that                *)
(* CustomerAuditSubscriber writes whenever TypeORM has updated a customer. *)
(*                                                                         *)
(* The phone stands for each of phone, dni and e-mail, which are tested in *)
(* the same way and, like it, have no unique index; the credit limit for   *)
(* the audited columns.  A save() is a SELECT of the row, an UPDATE of the *)
(* columns of the entity that differ from it, the subscriber's             *)
(* afterUpdate, and a COMMIT; afterUpdate starts an insert on another      *)
(* connection and does not wait for it.                                    *)
(***************************************************************************)
EXTENDS Integers, FiniteSets

CONSTANTS
    Customers,      \* ids, of which some are not given yet
    Handlers,       \* request handlers
    Phones, Keys, Limits,
    Blank,          \* the phone that is the empty string
    NoCustomer, NoPhone, NoKey, NoHandler, NoReq, NoRow, Absent

VARIABLES
    cust,       \* the committed row of each customer
    lock,       \* who has locked, or updated and not committed, the row
    pc, req,    \* the statement a handler is about to execute; its request
    entity,     \* the customer entity in memory
    diff,       \* the columns that differ from the row save()'s SELECT read
    outbox,     \* the logs the subscriber is inserting for a transaction in progress
    logged,     \* the logs it has inserted for it
    alone,      \* history: nobody has committed since the handler's request began
    lost        \* history: the handlers whose insert has failed

vars == <<cust, lock, pc, req, entity, diff, outbox, logged, alone, lost>>
-----------------------------------------------------------------------------
Row == [phone: Phones \cup {NoPhone}, key: Keys \cup {NoKey}, limit: Limits]
Columns == {"phone", "key", "limit"}

ASSUME RegistryAssumption ==
    /\ NoPhone \notin Phones /\ NoKey \notin Keys /\ NoHandler \notin Handlers
    /\ NoCustomer \notin Row /\ NoRow \notin Row
    /\ Absent \notin Phones \cup {NoPhone}

\* Absent: an update that leaves the phone alone (of a name, an address).
Requests ==
    [op: {"create"}, phone: Phones \cup {NoPhone}, key: Keys \cup {NoKey}, limit: Limits]
    \cup [op: {"update"}, of: Customers, phone: Phones \cup {NoPhone, Absent}]
    \cup [op: {"limit"}, of: Customers, limit: Limits]

InFlight == {"key", "check", "insert", "load", "lock", "select", "update", "commit"}

Exists(c) == cust[c] # NoCustomer
Existing == {c \in Customers : Exists(c)}
Creating == {p \in Handlers : pc[p] # "idle" /\ req[p].op = "create"}
-----------------------------------------------------------------------------
\* The handler answers and its connection goes back to the pool.
Finish(p) ==
    /\ pc' = [pc EXCEPT ![p] = "idle"]
    /\ req' = [req EXCEPT ![p] = NoReq]
    /\ entity' = [entity EXCEPT ![p] = NoRow]
    /\ diff' = [diff EXCEPT ![p] = {}]
    /\ lock' = [c \in Customers |-> IF lock[c] = p THEN NoHandler ELSE lock[c]]
    /\ outbox' = [outbox EXCEPT ![p] = {}]
    /\ logged' = [logged EXCEPT ![p] = {}]
    /\ lost' = lost \ {p}

\* History: p commits while others are at work, or ends without a commit.
Disturb(p) == alone' = [q \in Handlers |-> q = p \/ pc[q] = "idle"]
Quiet(p) == alone' = [alone EXCEPT ![p] = TRUE]

\* Ids are given out as long as there are any (a bound).
Begin(p, r) ==
    /\ pc[p] = "idle"
    /\ IF r.op = "create"
       THEN Cardinality(Creating) + Cardinality(Existing) < Cardinality(Customers)
       ELSE Exists(r.of)
    /\ req' = [req EXCEPT ![p] = r]
    /\ pc' = [pc EXCEPT ![p] = CASE r.op = "create" -> "key"
                                 [] r.op = "limit" -> "lock"
                                 [] OTHER -> "load"]
    /\ UNCHANGED <<cust, lock, entity, diff, outbox, logged, alone, lost>>
-----------------------------------------------------------------------------
(* create. *)

\* Mutant: the unique index on the key is missing.
KeyTakenNever(k) == FALSE

KeyTaken(k) == k # NoKey /\ \E c \in Existing : cust[c].key = k

\* A customer with this key is the answer.
FindKey(p) ==
    /\ pc[p] = "key"
    /\ IF KeyTaken(req[p].key)
       THEN Finish(p) /\ Quiet(p)
       ELSE /\ pc' = [pc EXCEPT ![p] = "check"]
            /\ UNCHANGED <<lock, req, entity, diff, outbox, logged, alone, lost>>
    /\ UNCHANGED cust

\* Mutant: an update does not test the phone.
TakenOnCreateOnly(p) ==
    /\ req[p].op = "create" /\ req[p].phone \in Phones \ {Blank}
    /\ \E c \in Existing : cust[c].phone = req[p].phone

\* Another customer has the phone of the request.  create does not look when
\* the string is empty; an update does.
Taken(p) ==
    /\ req[p].phone \in Phones
    /\ req[p].op = "create" => req[p].phone # Blank
    /\ \E c \in Existing :
        /\ cust[c].phone = req[p].phone
        /\ req[p].op = "update" => c # req[p].of

Check(p) ==
    /\ pc[p] = "check"
    /\ IF Taken(p)
       THEN Finish(p) /\ Quiet(p)
       ELSE /\ pc' = [pc EXCEPT ![p] = IF req[p].op = "create" THEN "insert" ELSE "select"]
            /\ UNCHANGED <<lock, req, entity, diff, outbox, logged, alone, lost>>
    /\ UNCHANGED cust

Insert(p) ==
    /\ pc[p] = "insert"
    /\ ~KeyTaken(req[p].key)
    /\ \E c \in Customers \ Existing :
        cust' = [cust EXCEPT ![c] = [phone |-> req[p].phone, key |-> req[p].key,
                                     limit |-> req[p].limit]]
    /\ Finish(p) /\ Disturb(p)

\* The unique index on (tenant_id, idempotency_key): 500.
DuplicateKey(p) ==
    /\ pc[p] = "insert"
    /\ KeyTaken(req[p].key)
    /\ Finish(p) /\ Quiet(p)
    /\ UNCHANGED cust
-----------------------------------------------------------------------------
(* updateCustomer and updateCreditLimit. *)

\* Mutant: a field the form leaves out is assigned too.
EditedWithAbsent(r, old) ==
    IF r.op = "limit" THEN [old EXCEPT !.limit = r.limit]
    ELSE [old EXCEPT !.phone = r.phone]

\* Object.assign, or the assignment of one column.
Edited(r, old) ==
    IF r.op = "limit" THEN [old EXCEPT !.limit = r.limit]
    ELSE IF r.phone = Absent THEN old ELSE [old EXCEPT !.phone = r.phone]

\* findCustomerOrFail, without a lock.
Load(p) ==
    /\ pc[p] = "load"
    /\ entity' = [entity EXCEPT ![p] = Edited(req[p], cust[req[p].of])]
    /\ pc' = [pc EXCEPT ![p] = "check"]
    /\ UNCHANGED <<cust, lock, req, diff, outbox, logged, alone, lost>>

\* Only updateCreditLimit reads FOR UPDATE.
Lock(p) ==
    /\ pc[p] = "lock"
    /\ lock[req[p].of] = NoHandler
    /\ lock' = [lock EXCEPT ![req[p].of] = p]
    /\ entity' = [entity EXCEPT ![p] = Edited(req[p], cust[req[p].of])]
    /\ pc' = [pc EXCEPT ![p] = "select"]
    /\ UNCHANGED <<cust, req, diff, outbox, logged, alone, lost>>

SaveSelect(p) ==
    /\ pc[p] = "select"
    /\ diff' = [diff EXCEPT ![p] = {f \in Columns : entity[p][f] # cust[req[p].of][f]}]
    /\ pc' = [pc EXCEPT ![p] = "update"]
    /\ UNCHANGED <<cust, lock, req, entity, outbox, logged, alone, lost>>

\* Nothing differs: no UPDATE, and no event for the subscriber.
SaveNothing(p) ==
    /\ pc[p] = "update" /\ diff[p] = {}
    /\ Finish(p) /\ Quiet(p)
    /\ UNCHANGED cust

\* Mutant: updateCreditLimit writes the log, instead of a subscriber.
AuditsRequests(p) ==
    IF req[p].op = "limit" /\ "limit" \in diff[p] THEN {entity[p].limit} ELSE {}

\* The logs afterUpdate makes of databaseEntity and entity: the new limit.
Audits(p) == IF "limit" \in diff[p] THEN {entity[p].limit} ELSE {}

\* The UPDATE takes the row, and afterUpdate sends the logs before the COMMIT.
SaveUpdate(p) ==
    /\ pc[p] = "update" /\ diff[p] # {}
    /\ lock[req[p].of] \in {NoHandler, p}
    /\ lock' = [lock EXCEPT ![req[p].of] = p]
    /\ outbox' = [outbox EXCEPT ![p] = Audits(p)]
    /\ pc' = [pc EXCEPT ![p] = "commit"]
    /\ UNCHANGED <<cust, req, entity, diff, logged, alone, lost>>

Commit(p) ==
    /\ pc[p] = "commit"
    /\ LET c == req[p].of
           new(f) == IF f \in diff[p] THEN entity[p][f] ELSE cust[c][f] IN
        cust' = [cust EXCEPT ![c] =
            [phone |-> new("phone"), key |-> new("key"), limit |-> new("limit")]]
    /\ Finish(p) /\ Disturb(p)

\* lock_timeout, an exception, a lost connection: rollback.
Fail(p) ==
    /\ pc[p] \in InFlight
    /\ Finish(p) /\ Quiet(p)
    /\ UNCHANGED cust

\* insertLogsFireAndForget succeeds, or fails and the error is swallowed.  It
\* may as well end after the transaction, which does not wait for it.
InsertLogs(p) ==
    /\ outbox[p] # {}
    /\ \/ logged' = [logged EXCEPT ![p] = outbox[p]] /\ UNCHANGED lost
       \/ lost' = lost \cup {p} /\ UNCHANGED logged
    /\ outbox' = [outbox EXCEPT ![p] = {}]
    /\ UNCHANGED <<cust, lock, pc, req, entity, diff, alone>>
-----------------------------------------------------------------------------
Init ==
    /\ cust = [c \in Customers |-> NoCustomer]
    /\ lock = [c \in Customers |-> NoHandler]
    /\ pc = [p \in Handlers |-> "idle"]
    /\ req = [p \in Handlers |-> NoReq]
    /\ entity = [p \in Handlers |-> NoRow]
    /\ diff = [p \in Handlers |-> {}]
    /\ outbox = [p \in Handlers |-> {}]
    /\ logged = [p \in Handlers |-> {}]
    /\ alone = [p \in Handlers |-> TRUE]
    /\ lost = {}

Proceed(p) ==
    \/ FindKey(p) \/ Check(p) \/ Insert(p) \/ DuplicateKey(p)
    \/ Load(p) \/ Lock(p)
    \/ SaveSelect(p) \/ SaveNothing(p) \/ SaveUpdate(p) \/ Commit(p)

Next == \E p \in Handlers :
    \/ \E r \in Requests : Begin(p, r)
    \/ Proceed(p) \/ InsertLogs(p) \/ Fail(p)

Spec == Init /\ [][Next]_vars
-----------------------------------------------------------------------------
(* Properties. *)

RegistryTypeOK ==
    /\ cust \in [Customers -> Row \cup {NoCustomer}]
    /\ lock \in [Customers -> Handlers \cup {NoHandler}]
    /\ pc \in [Handlers -> InFlight \cup {"idle"}]
    /\ req \in [Handlers -> Requests \cup {NoReq}]
    /\ entity \in [Handlers -> Row \cup {NoRow}]
    /\ diff \in [Handlers -> SUBSET Columns]
    /\ outbox \in [Handlers -> SUBSET Limits]
    /\ logged \in [Handlers -> SUBSET Limits]
    /\ alone \in [Handlers -> BOOLEAN]
    /\ lost \subseteq Handlers

\* A key makes one customer, however many retries of its request overlap.
OneCustomerPerKey ==
    \A c, d \in Existing : cust[c].key = cust[d].key /\ cust[c].key # NoKey => c = d

SharesPhone(c, d, table) ==
    c # d /\ NoCustomer \notin {table[c], table[d]}
    /\ table[c].phone = table[d].phone /\ table[c].phone \notin {NoPhone, Blank}

\* Two customers come to share a phone only by a race: a request during which
\* nobody else commits gives no customer the phone of another.
SerialRequestsKeepPhonesApart ==
    [][\A p \in Handlers : (Insert(p) \/ Commit(p)) /\ alone[p] =>
        \A c, d \in Customers : SharesPhone(c, d, cust') => SharesPhone(c, d, cust)]_vars

\* A commit that changes a credit limit, by intent or because a stale entity
\* wrote it back, has its log under way or inserted unless the insert failed;
\* and that log, sent before the commit, tells the limit the commit leaves.
CommitIsLogged ==
    [][\A p \in Handlers : Commit(p) =>
        LET of == req[p].of
            log == outbox[p] \cup logged[p]
        IN  /\ log \subseteq {cust'[of].limit}
            /\ cust'[of].limit # cust[of].limit => p \in lost \/ log # {}]_vars
=============================================================================
