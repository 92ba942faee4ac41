--------------------------- MODULE OverdueCronProofs ---------------------------
(***************************************************************************)
(* Nobody is marked overdue, or logged as such, who has not broken a       *)
(* promise while in debt: the mark may be late and may outlive its reason, *)
(* but the SELECT, the UPDATE by ids, the background loops and the stale   *)
(* save()s of other handlers never give it to the wrong customer.          *)
(***************************************************************************)
EXTENDS OverdueCron, TLAPS

\* Whoever is late now has been remembered.
LateInv == \A c \in Customers : Broken(cust[c], today) => c \in wasLate

\* What the jobs have in memory concerns customers who have been late.
JobsInv == \A j \in Jobs :
    found[j] \subseteq wasLate /\ unlogged[j] \subseteq wasLate /\ logged[j] \subseteq wasLate

\* A saver's entity is a row of the customer that its UPDATE names.
SaversInv ==
    \A s \in Savers : pc[s] \in Saving =>
        /\ entity[s] \in Row /\ diff[s] \in Diff
        /\ entity[s].overdue => diff[s].of \in wasLate

Inv == CronTypeOK /\ LateInv /\ JobsInv /\ SaversInv /\ OverdueHadReason
-----------------------------------------------------------------------------
\* The code's test and the meaning of a broken promise agree on typed rows.
LEMMA LateIsBroken ==
    ASSUME NEW r \in Row, NEW day \in Days
    PROVE  Late(r, day) <=> Broken(r, day)
  <1>1. day \in Nat /\ r.promise \in Promises \cup {NoDay}
    BY CronAssumption DEF Row, Days
  <1>2. CASE r.promise = NoDay
    BY <1>1, <1>2, CronAssumption DEF Late, Broken
  <1>3. CASE r.promise \in Promises
    <2>1. Promises \subseteq 0..MaxDay /\ MaxDay \in Nat /\ NoDay \notin Int
      BY CronAssumption
    <2>2. r.promise \in 0..MaxDay
      BY <1>3, <2>1
    <2>3. r.promise \in Nat /\ r.promise \in Int
      BY <2>1, <2>2
    <2>4. r.promise # NoDay
      BY <2>1, <2>3
    <2>5. QED
      BY <1>1, <2>3, <2>4 DEF Late, Broken
  <1>4. QED
    BY <1>1, <1>2, <1>3

\* What Remember adds is all that LateInv asks for.
LEMMA RememberKeepsLateInv ==
    ASSUME Remember
    PROVE  LateInv' /\ wasLate \subseteq wasLate'
  BY DEF Remember, LateInv

LEMMA RememberType ==
    ASSUME wasLate \subseteq Customers, Remember
    PROVE  wasLate' \subseteq Customers
  BY DEF Remember

LEMMA InitEstablishesInv == Init => Inv
  <1> SUFFICES ASSUME Init PROVE Inv
    OBVIOUS
  <1>1. \A c \in Customers : cust[c] \in Row /\ ~cust[c].overdue /\ cust[c].balance = 0
    BY CronAssumption DEF Init, Row
  <1>2. CronTypeOK
    <2>1. cust \in [Customers -> Row]
      BY <1>1 DEF Init
    <2>2. today \in Days /\ faults \in 0..MaxFaults
      BY CronAssumption DEF Init, Days
    <2>3. QED
      BY <2>1, <2>2 DEF Init, CronTypeOK
  <1>3. LateInv /\ JobsInv /\ SaversInv /\ OverdueHadReason
    BY <1>1 DEF Init, LateInv, Broken, JobsInv, SaversInv, Saving, OverdueHadReason
  <1>4. QED
    BY <1>2, <1>3 DEF Inv
-----------------------------------------------------------------------------
\* A step that changes balances, and nothing the jobs or the savers hold.
LEMMA MovementPreservesInv ==
    ASSUME Inv,
           \/ NextDay
           \/ \E c \in Customers : Charge(c) \/ Pay(c)
    PROVE  Inv'
  <1>1. /\ UNCHANGED <<pc, found, entity, diff, unlogged, blocking, audit, faults>>
        /\ Remember
    BY DEF NextDay, Charge, Pay, audit
  <1>2. today' \in Days
    BY CronAssumption DEF NextDay, Charge, Pay, Inv, CronTypeOK, Days
  <1>3. /\ cust' \in [Customers -> Row]
        /\ \A c \in Customers : cust'[c].overdue = cust[c].overdue
    <2>1. CASE NextDay
      BY <2>1 DEF NextDay, Inv, CronTypeOK
    <2>2. ASSUME NEW c \in Customers, Charge(c)
          PROVE  <1>3!1 /\ <1>3!2
      BY <2>2, CronAssumption DEF Charge, Inv, CronTypeOK, Row
    <2>3. ASSUME NEW c \in Customers, Pay(c)
          PROVE  <1>3!1 /\ <1>3!2
      <3>1. PICK left \in AfterPayment(cust[c].balance) : cust' = [cust EXCEPT ![c].balance = left]
        BY <2>3 DEF Pay
      <3>2. left \in 0..MaxDebt
        BY <2>3, <3>1, CronAssumption DEF Pay, AfterPayment, Inv, CronTypeOK, Row
      <3>3. QED
        BY <3>1, <3>2 DEF audit, Inv, CronTypeOK, Row
    <2>4. QED
      BY <2>1, <2>2, <2>3
  <1>4. CronTypeOK'
    BY <1>1, <1>2, <1>3, RememberType DEF audit, Inv, CronTypeOK
  <1>5. LateInv' /\ wasLate \subseteq wasLate'
    BY <1>1, RememberKeepsLateInv
  <1>6. JobsInv' /\ SaversInv'
    BY <1>1, <1>5 DEF audit, Inv, JobsInv, SaversInv, CronTypeOK
  <1>7. OverdueHadReason'
    BY <1>1, <1>3, <1>5 DEF audit, Inv, OverdueHadReason
  <1>8. QED
    BY <1>4, <1>5, <1>6, <1>7 DEF Inv

\* The unlocked save: what it writes back of the mark belongs to its customer.
LEMMA SaverPreservesInv ==
    ASSUME Inv, NEW s \in Savers,
           (\E c \in Customers : Load(s, c)) \/ EditAndSelect(s) \/ Save(s)
    PROVE  Inv'
  <1>1. ASSUME NEW c \in Customers, Load(s, c) PROVE Inv'
    <2>1. /\ entity'[s] = cust[c] /\ cust[c] \in Row
          /\ diff'[s] = [of |-> c, columns |-> {}] /\ diff'[s] \in Diff
      BY <1>1 DEF audit, Inv, CronTypeOK, Load, Diff
    <2>2. CronTypeOK'
      BY <1>1, <2>1 DEF audit, Inv, CronTypeOK, Load, Saving
    <2>3. SaversInv'
      BY <1>1, <2>1 DEF audit, Inv, CronTypeOK, SaversInv, OverdueHadReason, Load
    <2>4. LateInv' /\ JobsInv' /\ OverdueHadReason'
      BY <1>1 DEF audit, Inv, LateInv, JobsInv, OverdueHadReason, Load, Broken
    <2>5. QED
      BY <2>2, <2>3, <2>4 DEF Inv
  <1>2. CASE EditAndSelect(s)
    <2>1. PICK e : /\ e \in {[entity[s] EXCEPT !.active = ~@]}
                          \cup {[entity[s] EXCEPT !.promise = d] : d \in Promises \cup {NoDay}}
                   /\ entity' = [entity EXCEPT ![s] = e]
                   /\ diff' = [diff EXCEPT ![s].columns =
                                   {f \in Columns : e[f] # cust[diff[s].of][f]}]
      BY <1>2 DEF EditAndSelect
    <2>2. /\ pc[s] = "edit" /\ entity[s] \in Row /\ diff[s] \in Diff
      BY <1>2 DEF EditAndSelect, Inv, SaversInv, Saving
    <2>3. e \in Row /\ e.overdue = entity[s].overdue
      BY <2>1, <2>2 DEF Row
    <2>4. diff'[s] \in Diff /\ diff'[s].of = diff[s].of
      BY <2>1, <2>2 DEF Diff, Inv, CronTypeOK
    <2>5. CronTypeOK'
      BY <1>2, <2>1, <2>3, <2>4 DEF audit, Inv, CronTypeOK, EditAndSelect, Saving
    <2>6. SaversInv'
      BY <1>2, <2>1, <2>2, <2>3, <2>4 DEF audit, Inv, CronTypeOK, SaversInv, EditAndSelect, Saving
    <2>7. LateInv' /\ JobsInv' /\ OverdueHadReason'
      BY <1>2 DEF audit, Inv, LateInv, JobsInv, OverdueHadReason, EditAndSelect, Broken
    <2>8. QED
      BY <2>5, <2>6, <2>7 DEF Inv
  <1>3. CASE Save(s)
    <2> DEFINE c == diff[s].of
    <2>1. /\ entity[s] \in Row /\ diff[s] \in Diff /\ c \in Customers /\ cust[c] \in Row
          /\ entity[s].overdue => c \in wasLate
      BY <1>3 DEF Save, Inv, SaversInv, Saving, CronTypeOK, Diff
    <2>2. /\ cust' \in [Customers -> Row]
          /\ cust'[c].overdue \in {cust[c].overdue, entity[s].overdue}
          /\ \A d \in Customers \ {c} : cust'[d] = cust[d]
      BY <1>3, <2>1 DEF Save, Inv, CronTypeOK, Row
    <2>3. LateInv' /\ wasLate \subseteq wasLate' /\ wasLate' \subseteq Customers
      BY <1>3, RememberKeepsLateInv, RememberType DEF Save, Inv, CronTypeOK
    <2>4. CronTypeOK'
      BY <1>3, <2>2, <2>3 DEF audit, Inv, CronTypeOK, Save
    <2>5. JobsInv' /\ SaversInv'
      BY <1>3, <2>3 DEF audit, Inv, CronTypeOK, JobsInv, SaversInv, Save, Saving
    <2>6. OverdueHadReason'
      BY <1>3, <2>1, <2>2, <2>3 DEF audit, Inv, OverdueHadReason, Save
    <2>7. QED
      BY <2>3, <2>4, <2>5, <2>6 DEF Inv
  <1>4. QED
    BY <1>1, <1>2, <1>3
-----------------------------------------------------------------------------
\* The SELECT of a job finds customers who are late at that moment.
LEMMA FindPreservesInv ==
    ASSUME Inv, NEW j \in Jobs, Find(j)
    PROVE  Inv'
  <1>1. Candidates \subseteq Customers /\ Candidates \subseteq wasLate
    BY LateIsBroken DEF Candidates, Inv, LateInv, CronTypeOK
  <1>2. CronTypeOK'
    BY <1>1 DEF audit, Inv, CronTypeOK, Find
  <1>3. JobsInv'
    BY <1>1 DEF audit, Inv, JobsInv, CronTypeOK, Find
  <1>4. SaversInv'
    BY DEF audit, Inv, SaversInv, CronTypeOK, Find, Saving
  <1>5. LateInv' /\ OverdueHadReason'
    BY DEF audit, Inv, LateInv, OverdueHadReason, Find, Broken
  <1>6. QED
    BY <1>2, <1>3, <1>4, <1>5 DEF Inv

\* The UPDATE marks whom the SELECT has found, late by now or not.
LEMMA MarkPreservesInv ==
    ASSUME Inv, NEW j \in Jobs, Mark(j)
    PROVE  Inv'
  <1>1. /\ found[j] \subseteq wasLate
        /\ cust' \in [Customers -> Row]
        /\ \A c \in Customers : cust'[c].overdue => cust[c].overdue \/ c \in found[j]
    BY DEF Mark, Inv, JobsInv, CronTypeOK, Row
  <1>2. LateInv' /\ wasLate \subseteq wasLate' /\ wasLate' \subseteq Customers
    BY RememberKeepsLateInv, RememberType DEF Mark, Inv, CronTypeOK
  <1>3. CronTypeOK'
    BY <1>1, <1>2 DEF audit, Inv, CronTypeOK, Mark, ToLog
  <1>4. JobsInv'
    BY <1>1, <1>2 DEF audit, Inv, JobsInv, CronTypeOK, Mark, ToLog
  <1>5. SaversInv'
    BY <1>2 DEF audit, Inv, SaversInv, CronTypeOK, Mark, Saving
  <1>6. OverdueHadReason'
    BY <1>1, <1>2 DEF audit, Inv, OverdueHadReason, Mark
  <1>7. QED
    BY <1>2, <1>3, <1>4, <1>5, <1>6 DEF Inv

LEMMA InsertLogPreservesInv ==
    ASSUME Inv, NEW j \in Jobs, NEW c \in Customers, InsertLog(j, c)
    PROVE  Inv'
  <1>1. c \in wasLate
    BY DEF InsertLog, Inv, JobsInv
  <1>2. CronTypeOK'
    BY CronAssumption DEF audit, Inv, CronTypeOK, InsertLog, Fault
  <1>3. JobsInv'
    BY DEF audit, Inv, JobsInv, CronTypeOK, InsertLog
  <1>4. LateInv' /\ SaversInv'
    BY <1>1 DEF audit, Inv, LateInv, SaversInv, InsertLog, Broken, Fault
  <1>5. OverdueHadReason'
    BY <1>3 DEF Inv, JobsInv, OverdueHadReason, InsertLog
  <1>6. QED
    BY <1>2, <1>3, <1>4, <1>5 DEF Inv

LEMMA BlockPreservesInv ==
    ASSUME Inv, NEW j \in Jobs, NEW t, NEW targets, Block(j, t, targets)
    PROVE  Inv'
  <1>1. /\ cust' \in [Customers -> Row]
        /\ \A c \in Customers : cust'[c].overdue = cust[c].overdue
    <2>1. CASE UNCHANGED cust
      BY <2>1 DEF audit, Inv, CronTypeOK
    <2>2. CASE cust' = [c \in Customers |->
                  IF c \in targets THEN [cust[c] EXCEPT !.active = FALSE] ELSE cust[c]]
      BY <2>2 DEF audit, Inv, CronTypeOK, Row
    <2>. QED BY <2>1, <2>2 DEF Block
  <1>2. LateInv' /\ wasLate \subseteq wasLate' /\ wasLate' \subseteq Customers
    BY RememberKeepsLateInv, RememberType DEF Block, Inv, CronTypeOK
  <1>3. CronTypeOK'
    <2>1. faults' \in 0..MaxFaults
      BY CronAssumption DEF Block, Fault, Inv, CronTypeOK
    <2>. QED BY <1>1, <1>2, <2>1 DEF audit, Inv, CronTypeOK, Block
  <1>4. JobsInv' /\ SaversInv'
    BY <1>2 DEF audit, Inv, JobsInv, SaversInv, Block
  <1>5. OverdueHadReason'
    BY <1>1, <1>2 DEF audit, Inv, OverdueHadReason, Block
  <1>6. QED
    BY <1>2, <1>3, <1>4, <1>5 DEF Inv

\* A job that ends, or dies, forgets what it had.
LEMMA JobEndPreservesInv ==
    ASSUME Inv, NEW j \in Jobs, Return(j) \/ Crash(j)
    PROVE  Inv'
  <1>1. CronTypeOK'
    BY CronAssumption DEF audit, Inv, CronTypeOK, Return, Crash, Fault
  <1>2. JobsInv'
    BY DEF audit, Inv, JobsInv, CronTypeOK, Return, Crash
  <1>3. SaversInv'
    BY DEF audit, Inv, SaversInv, CronTypeOK, Return, Crash, Saving
  <1>4. LateInv' /\ OverdueHadReason'
    BY <1>2 DEF Inv, LateInv, JobsInv, OverdueHadReason, Return, Crash, Broken
  <1>5. QED
    BY <1>1, <1>2, <1>3, <1>4 DEF Inv

LEMMA NextPreservesInv == Inv /\ [Next]_vars => Inv'
  <1> SUFFICES ASSUME Inv, [Next]_vars PROVE Inv'
    OBVIOUS
  <1>1. CASE UNCHANGED vars
    BY <1>1 DEF vars, audit, Inv, CronTypeOK, LateInv, JobsInv, SaversInv, OverdueHadReason, Broken
  <1>2. CASE NextDay \/ \E c \in Customers : Charge(c) \/ Pay(c)
    BY <1>2, MovementPreservesInv
  <1>3. ASSUME NEW s \in Savers,
               (\E c \in Customers : Load(s, c)) \/ EditAndSelect(s) \/ Save(s)
        PROVE  Inv'
    BY <1>3, SaverPreservesInv
  <1>4. ASSUME NEW j \in Jobs, Job(j) \/ Crash(j) PROVE Inv'
    <2>1. CASE FindNobody(j)
      BY <2>1, <1>1 DEF FindNobody
    <2>2. CASE ProcessAutoBlocks(j) \/ ProcessAutoBlockOnLimit(j)
      BY <2>2, BlockPreservesInv DEF ProcessAutoBlocks, ProcessAutoBlockOnLimit
    <2>3. QED
      BY <1>4, <2>1, <2>2, FindPreservesInv, MarkPreservesInv, InsertLogPreservesInv,
         JobEndPreservesInv DEF Job
  <1>5. QED
    BY <1>1, <1>2, <1>3, <1>4 DEF Next
-----------------------------------------------------------------------------
THEOREM CronInvariance == Spec => []Inv
  BY InitEstablishesInv, NextPreservesInv, PTL DEF Spec

\* Every reachable state of the job is well typed: no movement makes a balance
\* negative, and no save() a row that is none.
THEOREM CronTypeCorrect == Spec => []CronTypeOK
  <1>1. Inv => CronTypeOK
    BY DEF Inv
  <1>2. QED
    BY <1>1, CronInvariance, PTL

\* Whoever is marked overdue, or logged as marked, has broken a promise while in
\* debt, however many runs and stale saves overlap (processOverdueCustomers).
THEOREM NobodyIsMarkedWithoutReason == Spec => []OverdueHadReason
  <1>1. Inv => OverdueHadReason
    BY DEF Inv
  <1>2. QED
    BY <1>1, CronInvariance, PTL
=============================================================================
