------------------------ MODULE CustomerRegistryProofs ------------------------
(***************************************************************************)
(* One customer per key, for every number of handlers and customers: the   *)
(* unique index guards the insert, and no save() of an older entity gives  *)
(* a customer the key of another, for keys never change.                   *)
(***************************************************************************)
EXTENDS CustomerRegistry, TLAPS

\* What a handler holds where it stands.
HandlersInv ==
    \A p \in Handlers :
        /\ pc[p] # "idle" => req[p] \in Requests
        /\ pc[p] \in {"key", "insert"} => req[p].op = "create"
        /\ pc[p] \in {"load", "lock", "select", "update", "commit"} => req[p].op # "create"
        /\ pc[p] # "idle" /\ req[p].op # "create" => Exists(req[p].of)

\* An entity has the key that its customer has in the table.
Holding(p) ==
    \/ pc[p] \in {"select", "update", "commit"}
    \/ pc[p] = "check" /\ req[p].op # "create"
KeysInv ==
    \A p \in Handlers : Holding(p) =>
        entity[p] \in Row /\ entity[p].key = cust[req[p].of].key

Inv == RegistryTypeOK /\ HandlersInv /\ KeysInv /\ OneCustomerPerKey
-----------------------------------------------------------------------------
LEMMA RequestShapes ==
    ASSUME NEW r \in Requests
    PROVE  /\ r.op \in {"create", "update", "limit"}
           /\ r.op = "create" => /\ r.phone \in Phones \cup {NoPhone}
                                 /\ r.key \in Keys \cup {NoKey} /\ r.limit \in Limits
           /\ r.op # "create" => r.of \in Customers
           /\ r.op = "update" => r.phone \in Phones \cup {NoPhone, Absent}
           /\ r.op = "limit" => r.limit \in Limits
  BY DEF Requests

LEMMA EditedType ==
    ASSUME NEW r \in Requests, r.op # "create", NEW old \in Row
    PROVE  Edited(r, old) \in Row /\ Edited(r, old).key = old.key
  <1>1. CASE r.op = "limit"
    <2>1. Edited(r, old) = [phone |-> old.phone, key |-> old.key, limit |-> r.limit]
      BY <1>1 DEF Edited, Row
    <2>2. QED
      BY <1>1, <2>1, RequestShapes DEF Row
  <1>2. CASE r.op = "update" /\ r.phone = Absent
    BY <1>2 DEF Edited
  <1>3. CASE r.op = "update" /\ r.phone # Absent
    <2>1. Edited(r, old) = [phone |-> r.phone, key |-> old.key, limit |-> old.limit]
      BY <1>3 DEF Edited, Row
    <2>2. QED
      BY <1>3, <2>1, RequestShapes DEF Row
  <1>4. QED
    BY <1>1, <1>2, <1>3, RequestShapes

LEMMA InitEstablishesInv == Init => Inv
  BY DEF Init, Inv, RegistryTypeOK, HandlersInv, KeysInv, Holding, OneCustomerPerKey,
         Existing, Exists, InFlight
-----------------------------------------------------------------------------
\* A request ends; the rows stay, or change so that keys and customers stay.
LEMMA FinishPreservesInv ==
    ASSUME Inv, NEW p \in Handlers, Finish(p),
           cust' \in [Customers -> Row \cup {NoCustomer}],
           alone' \in [Handlers -> BOOLEAN],
           \A c \in Existing : cust'[c] # NoCustomer /\ cust'[c].key = cust[c].key,
           OneCustomerPerKey'
    PROVE  Inv'
  <1>1. RegistryTypeOK'
    BY DEF Inv, RegistryTypeOK, Finish
  <1>2. HandlersInv'
    BY RequestShapes DEF Inv, HandlersInv, RegistryTypeOK, Finish, Exists, Existing
  <1>3. KeysInv'
    <2> SUFFICES ASSUME NEW q \in Handlers, Holding(q)'
                 PROVE  (entity[q] \in Row /\ entity[q].key = cust[req[q].of].key)'
      BY DEF KeysInv
    <2>1. q # p /\ pc'[q] = pc[q] /\ req'[q] = req[q] /\ entity'[q] = entity[q]
      BY DEF Inv, RegistryTypeOK, Finish, Holding
    <2>2. Holding(q) /\ pc[q] # "idle" /\ req[q].op # "create"
      BY <2>1 DEF Inv, HandlersInv, Holding
    <2>3. req[q].of \in Existing
      BY <2>2, RequestShapes DEF Inv, HandlersInv, Existing
    <2>4. QED
      BY <2>1, <2>2, <2>3 DEF Inv, KeysInv
  <1>4. QED
    BY <1>1, <1>2, <1>3 DEF Inv

\* A request that ends and leaves the rows alone.
LEMMA QuietEndPreservesInv ==
    ASSUME Inv, NEW p \in Handlers, Finish(p), Quiet(p), UNCHANGED cust
    PROVE  Inv'
  <1>1. /\ cust' \in [Customers -> Row \cup {NoCustomer}]
        /\ alone' \in [Handlers -> BOOLEAN]
        /\ \A c \in Existing : cust'[c] # NoCustomer /\ cust'[c].key = cust[c].key
        /\ OneCustomerPerKey'
    BY DEF Inv, RegistryTypeOK, Quiet, Existing, Exists, OneCustomerPerKey
  <1>2. QED
    BY <1>1, FinishPreservesInv

LEMMA InsertPreservesInv ==
    ASSUME Inv, NEW p \in Handlers, Insert(p)
    PROVE  Inv'
  <1>1. PICK c \in Customers \ Existing :
            cust' = [cust EXCEPT ![c] = [phone |-> req[p].phone, key |-> req[p].key,
                                         limit |-> req[p].limit]]
    BY DEF Insert
  <1>2. /\ pc[p] = "insert" /\ Finish(p) /\ Disturb(p) /\ ~KeyTaken(req[p].key)
        /\ req[p] \in Requests /\ req[p].op = "create"
    BY DEF Insert, Inv, HandlersInv
  <1>3. [phone |-> req[p].phone, key |-> req[p].key, limit |-> req[p].limit] \in Row
    BY <1>2, RequestShapes DEF Row
  <1>4. cust' \in [Customers -> Row \cup {NoCustomer}]
    BY <1>1, <1>3 DEF Inv, RegistryTypeOK
  <1>5. alone' \in [Handlers -> BOOLEAN]
    BY <1>2 DEF Disturb
  <1>6. \A d \in Existing : cust'[d] # NoCustomer /\ cust'[d].key = cust[d].key
    BY <1>1 DEF Inv, RegistryTypeOK, Existing, Exists
  <1>7. OneCustomerPerKey'
    <2> SUFFICES ASSUME NEW d \in Customers, NEW e \in Customers, d # e,
                        cust'[d] # NoCustomer, cust'[e] # NoCustomer,
                        cust'[d].key = cust'[e].key, cust'[d].key # NoKey
                 PROVE  FALSE
      BY DEF OneCustomerPerKey, Existing, Exists
    <2>1. cust'[c].key = req[p].key
      BY <1>1 DEF Inv, RegistryTypeOK
    <2>2. \A x \in Customers : x # c => cust'[x] = cust[x]
      BY <1>1 DEF Inv, RegistryTypeOK
    <2>3. CASE d = c
      BY <1>2, <2>1, <2>2, <2>3 DEF KeyTaken, Existing, Exists
    <2>4. CASE e = c
      BY <1>2, <2>1, <2>2, <2>4 DEF KeyTaken, Existing, Exists
    <2>5. CASE d # c /\ e # c
      BY <2>2, <2>5 DEF Inv, OneCustomerPerKey, Existing, Exists
    <2>6. QED
      BY <2>3, <2>4, <2>5
  <1>8. QED
    BY <1>2, <1>4, <1>5, <1>6, <1>7, FinishPreservesInv

LEMMA CommitPreservesInv ==
    ASSUME Inv, NEW p \in Handlers, Commit(p)
    PROVE  Inv'
  <1> DEFINE c == req[p].of
             new(f) == IF f \in diff[p] THEN entity[p][f] ELSE cust[c][f]
             row == [phone |-> new("phone"), key |-> new("key"), limit |-> new("limit")]
  <1>1. /\ pc[p] = "commit" /\ Finish(p) /\ Disturb(p)
        /\ cust' = [cust EXCEPT ![c] = row]
    BY DEF Commit
  <1>12. req[p] \in Requests /\ req[p].op # "create" /\ Exists(c)
    BY <1>1 DEF Inv, HandlersInv
  <1>13. c \in Customers
    BY <1>12, RequestShapes
  <1>14. entity[p] \in Row /\ entity[p].key = cust[c].key
    BY <1>1 DEF Inv, KeysInv, Holding
  <1>2. /\ c \in Customers /\ cust[c] \in Row /\ cust[c] # NoCustomer
        /\ entity[p] \in Row /\ entity[p].key = cust[c].key
    BY <1>12, <1>13, <1>14 DEF Inv, RegistryTypeOK, Exists
  <1>3. row \in Row /\ row.key = cust[c].key
    BY <1>2 DEF Row
  <1> HIDE DEF row
  <1>4. \A d \in Customers : cust'[d] = IF d = c THEN row ELSE cust[d]
    BY <1>1 DEF Inv, RegistryTypeOK
  <1>5. cust' \in [Customers -> Row \cup {NoCustomer}]
    BY <1>1, <1>3 DEF Inv, RegistryTypeOK
  <1>6. alone' \in [Handlers -> BOOLEAN]
    BY <1>1 DEF Disturb
  <1>7. row # NoCustomer
    BY <1>3, RegistryAssumption
  <1>8. \A d \in Customers : cust'[d] # NoCustomer <=> cust[d] # NoCustomer
    BY <1>2, <1>4, <1>7
  <1>9. \A d \in Customers : cust[d] # NoCustomer => cust'[d].key = cust[d].key
    BY <1>3, <1>4
  <1>10. OneCustomerPerKey'
    BY <1>8, <1>9 DEF Inv, OneCustomerPerKey, Existing, Exists
  <1>11. QED
    BY <1>1, <1>5, <1>6, <1>8, <1>9, <1>10, FinishPreservesInv DEF Existing, Exists
-----------------------------------------------------------------------------
LEMMA BeginPreservesInv ==
    ASSUME Inv, NEW p \in Handlers, NEW r \in Requests, Begin(p, r)
    PROVE  Inv'
  <1>1. /\ req' = [req EXCEPT ![p] = r] /\ pc[p] = "idle"
        /\ pc' = [pc EXCEPT ![p] = CASE r.op = "create" -> "key"
                                     [] r.op = "limit" -> "lock"
                                     [] OTHER -> "load"]
        /\ r.op # "create" => Exists(r.of)
        /\ UNCHANGED <<cust, lock, entity, diff, outbox, logged, alone, lost>>
    BY DEF Begin
  <1>2. /\ pc'[p] \in {"key", "lock", "load"}
        /\ pc'[p] = "key" <=> r.op = "create"
    BY <1>1 DEF Inv, RegistryTypeOK
  <1>3. RegistryTypeOK'
    BY <1>1, <1>2 DEF Inv, RegistryTypeOK, InFlight
  <1>4. HandlersInv'
    BY <1>1, <1>2 DEF Inv, HandlersInv, RegistryTypeOK, Exists
  <1>5. KeysInv'
    BY <1>1, <1>2 DEF Inv, KeysInv, Holding, RegistryTypeOK
  <1>6. QED
    BY <1>1, <1>3, <1>4, <1>5 DEF Inv, OneCustomerPerKey, Existing, Exists

LEMMA LoadPreservesInv ==
    ASSUME Inv, NEW p \in Handlers, Load(p) \/ Lock(p)
    PROVE  Inv'
  <1>1. /\ pc[p] \in {"load", "lock"} /\ req[p] \in Requests /\ req[p].op # "create"
        /\ req[p].of \in Customers /\ cust[req[p].of] \in Row
    BY RequestShapes DEF Load, Lock, Inv, HandlersInv, RegistryTypeOK, Exists
  <1>2. /\ entity' = [entity EXCEPT ![p] = Edited(req[p], cust[req[p].of])]
        /\ pc' = [pc EXCEPT ![p] = pc'[p]] /\ pc'[p] \in {"check", "select"}
        /\ lock' \in [Customers -> Handlers \cup {NoHandler}]
        /\ UNCHANGED <<cust, req, diff, outbox, logged, alone, lost>>
    BY DEF Load, Lock, Inv, RegistryTypeOK
  <1>3. Edited(req[p], cust[req[p].of]) \in Row
        /\ Edited(req[p], cust[req[p].of]).key = cust[req[p].of].key
    BY <1>1, EditedType
  <1>4. RegistryTypeOK'
    BY <1>2, <1>3 DEF Inv, RegistryTypeOK, InFlight
  <1>5. HandlersInv'
    BY <1>1, <1>2 DEF Inv, HandlersInv, RegistryTypeOK, Exists
  <1>6. KeysInv'
    BY <1>1, <1>2, <1>3 DEF Inv, KeysInv, Holding, RegistryTypeOK
  <1>7. QED
    BY <1>2, <1>4, <1>5, <1>6 DEF Inv, OneCustomerPerKey, Existing, Exists

\* A handler goes on to its next statement; rows, requests and entities stay.
LEMMA MovePreservesInv ==
    ASSUME Inv, NEW p \in Handlers, pc[p] # "idle",
           UNCHANGED <<cust, req, entity, logged, alone, lost>>,
           pc' = [pc EXCEPT ![p] = pc'[p]], pc'[p] \in InFlight,
           pc'[p] = "insert" => req[p].op = "create",
           pc'[p] \notin {"key", "load", "lock"},
           pc'[p] \in {"select", "update", "commit"} => req[p].op # "create",
           pc'[p] = "check" => req[p].op = "create",
           pc'[p] \in {"select", "update", "commit"} => Holding(p),
           lock' \in [Customers -> Handlers \cup {NoHandler}],
           diff' \in [Handlers -> SUBSET Columns],
           outbox' \in [Handlers -> SUBSET Limits]
    PROVE  Inv'
  <1>1. RegistryTypeOK'
    BY DEF Inv, RegistryTypeOK
  <1>2. HandlersInv'
    BY DEF Inv, HandlersInv, RegistryTypeOK, Exists
  <1>3. KeysInv'
    BY DEF Inv, KeysInv, Holding, RegistryTypeOK
  <1>4. QED
    BY <1>1, <1>2, <1>3 DEF Inv, OneCustomerPerKey, Existing, Exists

LEMMA AuditsType ==
    ASSUME Inv, NEW p \in Handlers, pc[p] = "update"
    PROVE  Audits(p) \in SUBSET Limits
  <1>1. entity[p] \in Row
    BY DEF Inv, KeysInv, Holding
  <1>2. entity[p].limit \in Limits
    BY <1>1 DEF Row
  <1>3. QED
    BY <1>2 DEF Audits

LEMMA FindKeyPreservesInv ==
    ASSUME Inv, NEW p \in Handlers, FindKey(p)
    PROVE  Inv'
  <1>1. pc[p] = "key" /\ req[p].op = "create" /\ UNCHANGED cust
    BY DEF FindKey, Inv, HandlersInv
  <1>2. CASE KeyTaken(req[p].key)
    BY <1>1, <1>2, QuietEndPreservesInv DEF FindKey
  <1>3. CASE ~KeyTaken(req[p].key)
    <2>1. pc' = [pc EXCEPT ![p] = "check"]
          /\ UNCHANGED <<lock, req, entity, diff, outbox, logged, alone, lost>>
      BY <1>3 DEF FindKey
    <2>2. pc'[p] = "check"
      BY <2>1 DEF Inv, RegistryTypeOK
    <2>3. /\ lock' \in [Customers -> Handlers \cup {NoHandler}]
          /\ diff' \in [Handlers -> SUBSET Columns]
          /\ outbox' \in [Handlers -> SUBSET Limits]
      BY <2>1 DEF Inv, RegistryTypeOK
    <2>4. QED
      BY <1>1, <2>1, <2>2, <2>3, MovePreservesInv DEF InFlight
  <1>4. QED
    BY <1>2, <1>3

LEMMA CheckPreservesInv ==
    ASSUME Inv, NEW p \in Handlers, Check(p)
    PROVE  Inv'
  <1>1. pc[p] = "check" /\ UNCHANGED cust
    BY DEF Check
  <1>2. CASE Taken(p)
    BY <1>1, <1>2, QuietEndPreservesInv DEF Check
  <1>3. CASE ~Taken(p)
    <2>1. pc' = [pc EXCEPT ![p] = IF req[p].op = "create" THEN "insert" ELSE "select"]
          /\ UNCHANGED <<lock, req, entity, diff, outbox, logged, alone, lost>>
      BY <1>3 DEF Check
    <2>2. pc'[p] = IF req[p].op = "create" THEN "insert" ELSE "select"
      BY <2>1 DEF Inv, RegistryTypeOK
    <2>3. /\ lock' \in [Customers -> Handlers \cup {NoHandler}]
          /\ diff' \in [Handlers -> SUBSET Columns]
          /\ outbox' \in [Handlers -> SUBSET Limits]
      BY <2>1 DEF Inv, RegistryTypeOK
    <2>4. req[p].op # "create" => Holding(p)
      BY <1>1 DEF Inv, HandlersInv, Holding
    <2>5. pc' = [pc EXCEPT ![p] = pc'[p]] /\ pc'[p] \in InFlight /\ pc[p] # "idle"
      BY <1>1, <2>1, <2>2 DEF InFlight
    <2>6. UNCHANGED <<cust, req, entity, logged, alone, lost>>
      BY <1>1, <2>1
    <2>7. /\ pc'[p] = "insert" => req[p].op = "create"
          /\ pc'[p] \in {"select", "update", "commit"} => req[p].op # "create" /\ Holding(p)
          /\ pc'[p] \notin {"check", "key", "load", "lock"}
      BY <2>2, <2>4
    <2>8. QED
      BY <2>3, <2>5, <2>6, <2>7, MovePreservesInv
  <1>4. QED
    BY <1>2, <1>3
-----------------------------------------------------------------------------
LEMMA NextPreservesInv == Inv /\ [Next]_vars => Inv'
  <1> SUFFICES ASSUME Inv, [Next]_vars PROVE Inv'
    OBVIOUS
  <1>1. ASSUME NEW p \in Handlers, NEW r \in Requests, Begin(p, r) PROVE Inv'
    BY <1>1, BeginPreservesInv
  <1>2. ASSUME NEW p \in Handlers, Proceed(p) PROVE Inv'
    <2>1. CASE DuplicateKey(p) \/ SaveNothing(p)
      BY <2>1, QuietEndPreservesInv DEF DuplicateKey, SaveNothing
    <2>2. CASE SaveSelect(p)
      <3>1. pc' = [pc EXCEPT ![p] = "update"] /\ pc[p] = "select"
            /\ UNCHANGED <<cust, lock, req, entity, outbox, logged, alone, lost>>
        BY <2>2 DEF SaveSelect
      <3>2. pc'[p] = "update" /\ Holding(p) /\ req[p].op # "create"
        BY <3>1 DEF Inv, RegistryTypeOK, HandlersInv, Holding, InFlight
      <3>3. diff' \in [Handlers -> SUBSET Columns]
        BY <2>2 DEF SaveSelect, Inv, RegistryTypeOK
      <3>4. lock' \in [Customers -> Handlers \cup {NoHandler}]
            /\ outbox' \in [Handlers -> SUBSET Limits]
        BY <3>1 DEF Inv, RegistryTypeOK
      <3>5. QED
        BY <3>1, <3>2, <3>3, <3>4, MovePreservesInv DEF InFlight
    <2>3. CASE SaveUpdate(p)
      <3>1. pc' = [pc EXCEPT ![p] = "commit"] /\ pc[p] = "update"
            /\ UNCHANGED <<cust, req, entity, diff, logged, alone, lost>>
        BY <2>3 DEF SaveUpdate
      <3>2. pc'[p] = "commit" /\ Holding(p) /\ req[p].op # "create"
        BY <3>1 DEF Inv, RegistryTypeOK, HandlersInv, Holding, InFlight
      <3>3. outbox' \in [Handlers -> SUBSET Limits]
        BY <2>3, <3>1, AuditsType DEF SaveUpdate, Inv, RegistryTypeOK
      <3>4. lock' \in [Customers -> Handlers \cup {NoHandler}]
            /\ diff' \in [Handlers -> SUBSET Columns]
        BY <2>3, <3>1 DEF SaveUpdate, Inv, RegistryTypeOK
      <3>5. QED
        BY <3>1, <3>2, <3>3, <3>4, MovePreservesInv DEF InFlight
    <2>4. QED
      BY <1>2, <2>1, <2>2, <2>3, FindKeyPreservesInv, CheckPreservesInv,
         InsertPreservesInv, LoadPreservesInv, CommitPreservesInv DEF Proceed
  <1>3. ASSUME NEW p \in Handlers, InsertLogs(p) PROVE Inv'
    <2>1. RegistryTypeOK'
      BY <1>3 DEF InsertLogs, Inv, RegistryTypeOK
    <2>2. UNCHANGED <<cust, lock, pc, req, entity, diff, alone>>
      BY <1>3 DEF InsertLogs
    <2>3. QED
      BY <2>1, <2>2 DEF Inv, HandlersInv, KeysInv, Holding, OneCustomerPerKey,
                        Existing, Exists
  <1>4. ASSUME NEW p \in Handlers, Fail(p) PROVE Inv'
    BY <1>4, QuietEndPreservesInv DEF Fail
  <1>5. CASE UNCHANGED vars
    BY <1>5 DEF vars, Inv, RegistryTypeOK, HandlersInv, KeysInv, Holding,
                OneCustomerPerKey, Existing, Exists
  <1>6. QED
    BY <1>1, <1>2, <1>3, <1>4, <1>5 DEF Next

LEMMA RegistryInvariance == Spec => []Inv
  <1>1. Init => Inv
    BY InitEstablishesInv
  <1>2. Inv /\ [Next]_vars => Inv'
    BY NextPreservesInv
  <1>3. QED
    BY <1>1, <1>2, PTL DEF Spec

\* The handlers of the registry hold what their statements need.
THEOREM RegistryTypeCorrect == Spec => []RegistryTypeOK
  <1>1. Inv => RegistryTypeOK
    BY DEF Inv
  <1>2. QED
    BY <1>1, RegistryInvariance, PTL

\* create's idempotency key makes one customer, for every number of retries,
\* of other handlers and of stale entities that are saved meanwhile.
THEOREM OneCustomerPerKeyHolds == Spec => []OneCustomerPerKey
  <1>1. Inv => OneCustomerPerKey
    BY DEF Inv
  <1>2. QED
    BY <1>1, RegistryInvariance, PTL
-----------------------------------------------------------------------------
(* Phones.  As long as nobody commits, a handler's test of the phone stays *)
(* true, and its entity has the phone of the row or that of the request.   *)

KeepsPhone(p) == entity[p].phone = cust[req[p].of].phone
SetsPhone(p) == req[p].op = "update" /\ entity[p].phone = req[p].phone

Tested(p) ==
    /\ pc[p] = "lock" => req[p].op = "limit"
    /\ pc[p] = "insert" => ~Taken(p)
    /\ pc[p] = "check" /\ req[p].op # "create" => KeepsPhone(p) \/ SetsPhone(p)
    /\ pc[p] \in {"select", "update", "commit"} =>
        KeepsPhone(p) \/ (SetsPhone(p) /\ ~Taken(p))

PhonesInv == \A p \in Handlers : alone[p] => Tested(p)

LEMMA EditedPhone ==
    ASSUME NEW r \in Requests, r.op # "create", NEW old \in Row
    PROVE  \/ Edited(r, old).phone = old.phone
           \/ r.op = "update" /\ Edited(r, old).phone = r.phone
  BY RequestShapes DEF Edited, Row

\* A handler that moves, or ends, without a change of the rows.
LEMMA OwnStepKeepsPhonesInv ==
    ASSUME Inv, PhonesInv, NEW p \in Handlers, UNCHANGED cust,
           \A q \in Handlers \ {p} : /\ pc'[q] = pc[q] /\ req'[q] = req[q]
                                     /\ entity'[q] = entity[q] /\ alone'[q] = alone[q],
           alone'[p] => Tested(p)'
    PROVE  PhonesInv'
  <1> SUFFICES ASSUME NEW q \in Handlers, alone'[q], q # p PROVE Tested(q)'
    BY DEF PhonesInv
  <1>1. Tested(q)
    BY DEF PhonesInv
  <1>2. QED
    BY <1>1 DEF Tested, Taken, KeepsPhone, SetsPhone, Existing, Exists

LEMMA EndKeepsPhonesInv ==
    ASSUME Inv, PhonesInv, NEW p \in Handlers, Finish(p), Quiet(p), UNCHANGED cust
    PROVE  PhonesInv'
  <1>1. pc'[p] = "idle"
    BY DEF Inv, RegistryTypeOK, Finish
  <1>2. Tested(p)'
    BY <1>1 DEF Tested
  <1>3. \A q \in Handlers \ {p} : /\ pc'[q] = pc[q] /\ req'[q] = req[q]
                                  /\ entity'[q] = entity[q] /\ alone'[q] = alone[q]
    BY DEF Inv, RegistryTypeOK, Finish, Quiet
  <1>4. QED
    BY <1>2, <1>3, OwnStepKeepsPhonesInv

\* A commit disturbs everybody who is at work.
LEMMA CommitsKeepPhonesInv ==
    ASSUME Inv, NEW p \in Handlers, Finish(p), Disturb(p)
    PROVE  PhonesInv'
  <1> SUFFICES ASSUME NEW q \in Handlers, alone'[q] PROVE Tested(q)'
    BY DEF PhonesInv
  <1>1. pc'[q] = "idle"
    BY DEF Inv, RegistryTypeOK, Finish, Disturb
  <1>2. QED
    BY <1>1 DEF Tested

LEMMA StepKeepsPhonesInv ==
    ASSUME Inv, PhonesInv, [Next]_vars
    PROVE  PhonesInv'
  <1>1. ASSUME NEW p \in Handlers, NEW r \in Requests, Begin(p, r) PROVE PhonesInv'
    <2>1. pc'[p] \in {"key", "lock", "load"} /\ (pc'[p] = "lock" => req'[p].op = "limit")
      BY <1>1 DEF Begin, Inv, RegistryTypeOK
    <2>2. Tested(p)'
      BY <2>1 DEF Tested
    <2>3. UNCHANGED cust /\ \A q \in Handlers \ {p} :
              /\ pc'[q] = pc[q] /\ req'[q] = req[q]
              /\ entity'[q] = entity[q] /\ alone'[q] = alone[q]
      BY <1>1 DEF Begin, Inv, RegistryTypeOK
    <2>4. QED
      BY <2>2, <2>3, OwnStepKeepsPhonesInv
  <1>2. ASSUME NEW p \in Handlers, Insert(p) \/ Commit(p) PROVE PhonesInv'
    BY <1>2, CommitsKeepPhonesInv DEF Insert, Commit
  <1>3. ASSUME NEW p \in Handlers, DuplicateKey(p) \/ SaveNothing(p) \/ Fail(p)
        PROVE PhonesInv'
    BY <1>3, EndKeepsPhonesInv DEF DuplicateKey, SaveNothing, Fail
  <1>4. ASSUME NEW p \in Handlers, FindKey(p) PROVE PhonesInv'
    <2>1. CASE KeyTaken(req[p].key)
      BY <1>4, <2>1, EndKeepsPhonesInv DEF FindKey
    <2>2. CASE ~KeyTaken(req[p].key)
      <3>1. /\ UNCHANGED <<cust, req, entity, alone>> /\ pc[p] = "key"
            /\ pc' = [pc EXCEPT ![p] = "check"]
        BY <1>4, <2>2 DEF FindKey
      <3>2. Tested(p)'
        BY <3>1 DEF Tested, Inv, RegistryTypeOK, HandlersInv
      <3>3. QED
        BY <3>1, <3>2, OwnStepKeepsPhonesInv DEF Inv, RegistryTypeOK
    <2>3. QED
      BY <2>1, <2>2
  <1>5. ASSUME NEW p \in Handlers, Check(p) PROVE PhonesInv'
    <2>1. CASE Taken(p)
      BY <1>5, <2>1, EndKeepsPhonesInv DEF Check
    <2>2. CASE ~Taken(p)
      <3>1. /\ UNCHANGED <<cust, req, entity, alone>> /\ pc[p] = "check"
            /\ pc' = [pc EXCEPT ![p] = IF req[p].op = "create" THEN "insert" ELSE "select"]
        BY <1>5, <2>2 DEF Check
      <3>2. pc'[p] = IF req[p].op = "create" THEN "insert" ELSE "select"
        BY <3>1 DEF Inv, RegistryTypeOK
      <3>3. ~Taken(p)'
        BY <2>2, <3>1 DEF Taken, Existing, Exists
      <3>4. alone[p] /\ req[p].op # "create" => KeepsPhone(p)' \/ SetsPhone(p)'
        BY <3>1 DEF PhonesInv, Tested, KeepsPhone, SetsPhone
      <3>5. alone'[p] => Tested(p)'
        BY <3>1, <3>2, <3>3, <3>4 DEF Tested
      <3>6. QED
        BY <3>1, <3>5, OwnStepKeepsPhonesInv DEF Inv, RegistryTypeOK
    <2>3. QED
      BY <2>1, <2>2
  <1>6. ASSUME NEW p \in Handlers, Load(p) \/ Lock(p) PROVE PhonesInv'
    <2>1. /\ pc[p] \in {"load", "lock"} /\ req[p] \in Requests /\ req[p].op # "create"
          /\ req[p].of \in Customers /\ cust[req[p].of] \in Row
      BY <1>6, RequestShapes DEF Load, Lock, Inv, HandlersInv, RegistryTypeOK, Exists
    <2>2. /\ entity' = [entity EXCEPT ![p] = Edited(req[p], cust[req[p].of])]
          /\ UNCHANGED <<cust, req, alone>>
          /\ Load(p) => pc' = [pc EXCEPT ![p] = "check"]
          /\ Lock(p) => pc' = [pc EXCEPT ![p] = "select"]
      BY <1>6 DEF Load, Lock
    <2>3. KeepsPhone(p)' \/ SetsPhone(p)'
      BY <2>1, <2>2, EditedPhone DEF KeepsPhone, SetsPhone, Inv, RegistryTypeOK
    <2>4. CASE Load(p)
      <3>1. Tested(p)'
        BY <2>2, <2>3, <2>4 DEF Tested, Inv, RegistryTypeOK
      <3>2. QED
        BY <2>2, <2>4, <3>1, OwnStepKeepsPhonesInv DEF Inv, RegistryTypeOK
    <2>5. CASE Lock(p)
      <3>1. alone[p] => req[p].op = "limit"
        BY <2>5 DEF Lock, PhonesInv, Tested
      <3>2. alone[p] => KeepsPhone(p)'
        BY <2>2, <2>3, <3>1 DEF SetsPhone
      <3>3. alone'[p] => Tested(p)'
        BY <2>2, <2>5, <3>2 DEF Tested, Inv, RegistryTypeOK
      <3>4. QED
        BY <2>2, <2>5, <3>3, OwnStepKeepsPhonesInv DEF Inv, RegistryTypeOK
    <2>6. QED
      BY <1>6, <2>4, <2>5
  <1>7. ASSUME NEW p \in Handlers, SaveSelect(p) \/ SaveUpdate(p) PROVE PhonesInv'
    <2>1. /\ UNCHANGED <<cust, req, entity, alone>> /\ pc[p] \in {"select", "update"}
          /\ pc' = [pc EXCEPT ![p] = pc'[p]] /\ pc'[p] \in {"update", "commit"}
      BY <1>7 DEF SaveSelect, SaveUpdate, Inv, RegistryTypeOK
    <2>2. alone'[p] => Tested(p)'
      BY <2>1 DEF PhonesInv, Tested, KeepsPhone, SetsPhone, Taken, Existing, Exists
    <2>3. QED
      BY <2>1, <2>2, OwnStepKeepsPhonesInv DEF Inv, RegistryTypeOK
  <1>8. ASSUME UNCHANGED <<cust, pc, req, entity, alone>> PROVE PhonesInv'
    BY <1>8 DEF PhonesInv, Tested, KeepsPhone, SetsPhone, Taken, Existing, Exists
  <1>9. QED
    BY <1>1, <1>2, <1>3, <1>4, <1>5, <1>6, <1>7, <1>8 DEF Next, Proceed, InsertLogs, vars

LEMMA PhonesInvariance == Spec => []PhonesInv
  <1>1. Init => PhonesInv
    BY DEF Init, PhonesInv, Tested
  <1>2. QED
    BY <1>1, StepKeepsPhonesInv, RegistryInvariance, PTL DEF Spec

\* create and updateCustomer test the phone without a lock: two customers get
\* one phone only when another request commits between the test and the write.
THEOREM SerialRequestsKeepPhones == Spec => SerialRequestsKeepPhonesApart
  <1>1. Inv /\ PhonesInv /\ [Next]_vars =>
            [\A p \in Handlers : (Insert(p) \/ Commit(p)) /\ alone[p] =>
                \A c, d \in Customers : SharesPhone(c, d, cust') => SharesPhone(c, d, cust)]_vars
    <2> SUFFICES ASSUME Inv, PhonesInv, NEW p \in Handlers, Insert(p) \/ Commit(p), alone[p],
                        NEW c \in Customers, NEW d \in Customers, SharesPhone(c, d, cust')
                 PROVE  SharesPhone(c, d, cust)
      OBVIOUS
    <2>1. Tested(p)
      BY DEF PhonesInv
    <2>2. CASE Insert(p)
      <3>1. PICK e \in Customers \ Existing :
                cust' = [cust EXCEPT ![e] = [phone |-> req[p].phone, key |-> req[p].key,
                                             limit |-> req[p].limit]]
        BY <2>2 DEF Insert
      <3>2. /\ pc[p] = "insert" /\ req[p].op = "create" /\ req[p] \in Requests /\ ~Taken(p)
        BY <2>1, <2>2 DEF Insert, Inv, HandlersInv, Tested
      <3>3. \A x \in Customers : x # e => cust'[x] = cust[x]
        BY <3>1 DEF Inv, RegistryTypeOK
      <3>4. cust'[e].phone = req[p].phone
        BY <3>1 DEF Inv, RegistryTypeOK
      <3>5. req[p].phone # NoPhone => req[p].phone \in Phones
        BY <3>2, RequestShapes
      <3>6. CASE c # e /\ d # e
        BY <3>3, <3>6 DEF SharesPhone
      <3>7. CASE c = e
        BY <3>2, <3>3, <3>4, <3>5, <3>7 DEF SharesPhone, Taken, Existing, Exists
      <3>8. CASE d = e
        BY <3>2, <3>3, <3>4, <3>5, <3>8 DEF SharesPhone, Taken, Existing, Exists
      <3>9. QED
        BY <3>6, <3>7, <3>8
    <2>3. CASE Commit(p)
      <3> DEFINE e == req[p].of
      <3>1. /\ pc[p] = "commit" /\ req[p] \in Requests /\ req[p].op # "create" /\ Exists(e)
        BY <2>3 DEF Commit, Inv, HandlersInv
      <3>2. e \in Customers /\ entity[p] \in Row
        BY <3>1, RequestShapes DEF Inv, KeysInv, Holding
      <3>3. /\ \A x \in Customers : x # e => cust'[x] = cust[x]
            /\ cust'[e].phone \in {cust[e].phone, entity[p].phone}
        BY <2>3, <3>2 DEF Commit, Inv, RegistryTypeOK
      <3>4. CASE cust'[e].phone = cust[e].phone
        BY <3>1, <3>2, <3>3, <3>4 DEF SharesPhone, Exists
      <3>5. CASE cust'[e].phone # cust[e].phone
        <4>1. /\ req[p].op = "update" /\ cust'[e].phone = req[p].phone /\ ~Taken(p)
              /\ cust'[e].phone \in Phones \cup {NoPhone}
          BY <2>1, <3>1, <3>2, <3>3, <3>5 DEF Tested, KeepsPhone, SetsPhone, Row
        <4>2. CASE c # e /\ d # e
          BY <3>3, <4>2 DEF SharesPhone
        <4>3. CASE c = e
          BY <3>3, <4>1, <4>3 DEF SharesPhone, Taken, Existing, Exists
        <4>4. CASE d = e
          BY <3>3, <4>1, <4>4 DEF SharesPhone, Taken, Existing, Exists
        <4>5. QED
          BY <4>2, <4>3, <4>4
      <3>6. QED
        BY <3>4, <3>5
    <2>4. QED
      BY <2>2, <2>3
  <1>2. QED
    BY <1>1, RegistryInvariance, PhonesInvariance, PTL DEF Spec, SerialRequestsKeepPhonesApart
-----------------------------------------------------------------------------
(* Logs. *)

\* What afterUpdate sent for a transaction is under way, inserted, or lost.
LogsInv ==
    \A p \in Handlers :
        /\ pc[p] # "commit" => outbox[p] = {} /\ logged[p] = {} /\ p \notin lost
        /\ pc[p] = "commit" =>
            /\ outbox[p] # {} => logged[p] = {}
            /\ outbox[p] \cup logged[p] \subseteq Audits(p)
            /\ p \in lost \/ outbox[p] \cup logged[p] = Audits(p)

LEMMA StepKeepsLogsInv ==
    ASSUME Inv, LogsInv, [Next]_vars
    PROVE  LogsInv'
  <1>1. ASSUME NEW p \in Handlers, Finish(p) PROVE LogsInv'
    <2>1. \A q \in Handlers \ {p} :
              /\ pc'[q] = pc[q] /\ outbox'[q] = outbox[q] /\ logged'[q] = logged[q]
              /\ entity'[q] = entity[q] /\ diff'[q] = diff[q]
              /\ q \in lost' <=> q \in lost
      BY <1>1 DEF Finish, Inv, RegistryTypeOK
    <2>2. pc'[p] = "idle" /\ outbox'[p] = {} /\ logged'[p] = {} /\ p \notin lost'
      BY <1>1 DEF Finish, Inv, RegistryTypeOK
    <2>3. QED
      BY <2>1, <2>2 DEF LogsInv, Audits
  <1>2. ASSUME NEW p \in Handlers, UNCHANGED <<outbox, logged, lost>>,
               pc[p] # "commit", pc'[p] # "commit",
               \A q \in Handlers \ {p} :
                   pc'[q] = pc[q] /\ entity'[q] = entity[q] /\ diff'[q] = diff[q]
        PROVE LogsInv'
    BY <1>2 DEF LogsInv, Audits
  <1>3. ASSUME NEW p \in Handlers, SaveUpdate(p) PROVE LogsInv'
    <2>1. /\ pc[p] = "update" /\ pc'[p] = "commit"
          /\ outbox'[p] = Audits(p) /\ Audits(p)' = Audits(p)
          /\ UNCHANGED <<entity, diff, logged, lost>>
          /\ \A q \in Handlers \ {p} : pc'[q] = pc[q] /\ outbox'[q] = outbox[q]
      BY <1>3 DEF SaveUpdate, Audits, Inv, RegistryTypeOK
    <2>2. QED
      BY <2>1 DEF LogsInv, Audits
  <1>4. ASSUME NEW p \in Handlers, InsertLogs(p) PROVE LogsInv'
    <2>1. /\ outbox[p] # {} /\ outbox'[p] = {} /\ UNCHANGED <<pc, entity, diff>>
          /\ \/ logged'[p] = outbox[p] /\ UNCHANGED lost
             \/ logged'[p] = logged[p] /\ lost' = lost \cup {p}
          /\ \A q \in Handlers \ {p} :
                /\ outbox'[q] = outbox[q] /\ logged'[q] = logged[q]
                /\ q \in lost' <=> q \in lost
      BY <1>4 DEF InsertLogs, Inv, RegistryTypeOK
    <2>2. QED
      BY <2>1 DEF LogsInv, Audits
  <1>5. ASSUME UNCHANGED vars PROVE LogsInv'
    BY <1>5 DEF vars, LogsInv, Audits
  <1>6. ASSUME NEW p \in Handlers, NEW r \in Requests, Begin(p, r) PROVE LogsInv'
    BY <1>2, <1>6 DEF Begin, Inv, RegistryTypeOK
  <1>7. ASSUME NEW p \in Handlers, Proceed(p) PROVE LogsInv'
    <2>1. CASE FindKey(p) \/ Check(p)
      BY <1>1, <1>2, <2>1 DEF FindKey, Check, Inv, RegistryTypeOK
    <2>2. CASE Insert(p) \/ DuplicateKey(p) \/ SaveNothing(p) \/ Commit(p)
      BY <1>1, <2>2 DEF Insert, DuplicateKey, SaveNothing, Commit
    <2>3. CASE Load(p) \/ Lock(p) \/ SaveSelect(p)
      BY <1>2, <2>3 DEF Load, Lock, SaveSelect, Inv, RegistryTypeOK
    <2>4. QED
      BY <1>3, <1>7, <2>1, <2>2, <2>3 DEF Proceed
  <1>8. QED
    BY <1>1, <1>4, <1>5, <1>6, <1>7 DEF Next, Fail

LEMMA LogsInvariance == Spec => []LogsInv
  <1>1. Init => LogsInv
    BY DEF Init, LogsInv
  <1>2. QED
    BY <1>1, StepKeepsLogsInv, RegistryInvariance, PTL DEF Spec

\* CustomerAuditSubscriber: whoever changes a credit limit, on purpose or by a
\* stale save(), leaves a log of the limit it leaves, unless the insert failed.
THEOREM CommitsAreLogged == Spec => CommitIsLogged
  <1>1. Inv /\ LogsInv /\ [Next]_vars =>
            [\A p \in Handlers : Commit(p) =>
                LET of == req[p].of
                    log == outbox[p] \cup logged[p]
                IN  /\ log \subseteq {cust'[of].limit}
                    /\ cust'[of].limit # cust[of].limit => p \in lost \/ log # {}]_vars
    <2> SUFFICES ASSUME Inv, LogsInv, NEW p \in Handlers, Commit(p)
                 PROVE  LET of == req[p].of
                            log == outbox[p] \cup logged[p]
                        IN  /\ log \subseteq {cust'[of].limit}
                            /\ cust'[of].limit # cust[of].limit => p \in lost \/ log # {}
      OBVIOUS
    <2>1. /\ pc[p] = "commit" /\ req[p] \in Requests /\ req[p].op # "create"
      BY DEF Commit, Inv, HandlersInv
    <2>2. req[p].of \in Customers
      BY <2>1, RequestShapes
    <2>3. cust'[req[p].of].limit =
              IF "limit" \in diff[p] THEN entity[p].limit ELSE cust[req[p].of].limit
      BY <2>2 DEF Commit, Inv, RegistryTypeOK
    <2>4. /\ outbox[p] \cup logged[p] \subseteq Audits(p)
          /\ p \in lost \/ outbox[p] \cup logged[p] = Audits(p)
      BY <2>1 DEF LogsInv
    <2>5. QED
      BY <2>3, <2>4 DEF Audits
  <1>2. QED
    BY <1>1, RegistryInvariance, LogsInvariance, PTL DEF Spec, CommitIsLogged
=============================================================================
