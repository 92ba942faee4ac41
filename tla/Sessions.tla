------------------------------- MODULE Sessions -------------------------------
(***************************************************************************)
(* The sessions of one employee: login and the password reset by e-mail    *)
(* of AuthService, deactivate, activate and resetPassword of UsersService, *)
(* and JwtStrategy.validate, which decides on every request whether a      *)
(* token is still good.                                                    *)
(*                                                                         *)
(* UsersService reads the user without a lock and save()s the entity: its  *)
(* SELECT finds the columns that differ from the entity, its UPDATE writes *)
(* them.  executePasswordReset locks the row FOR UPDATE and, inside its    *)
(* transaction, awaits the insert of an audit row on another connection.   *)
(* That row has a foreign key to the user: the insert needs KEY SHARE on   *)
(* the row its own caller has locked.  It fails when its connection has    *)
(* been given a lock_timeout by an earlier transaction of the pool (SET    *)
(* outlives the transaction), and otherwise waits for ever.  Either way    *)
(* the transaction never commits, so its COMMIT is no action here.         *)
(***************************************************************************)
EXTENDS Integers

CONSTANTS
    Admins,         \* handlers of UsersService
    Resetters,      \* handlers of executePasswordReset
    Browsers,       \* browsers that log in as the employee
    Timed,          \* the audit row's connection has a lock_timeout
    Second,         \* instants in a second, the resolution of a token's iat
    LinkLife,       \* validity of a reset link (15 minutes)
    MaxAttempts,    \* attempts of the mail job (3)
    MaxClock,       \* bound: instants
    MaxRevocations, \* bound: revocations
    NoProc, NoUser, NoReq, NoToken, NoTime, NoJob

Processes == Admins \cup Resetters

ASSUME SessionsProcsAssumption ==
    NoProc \notin Processes /\ Admins \cap Resetters = {}
ASSUME SessionsTimeAssumption ==
    /\ Second \in Nat \ {0} /\ LinkLife \in Nat /\ MaxAttempts \in Nat
    /\ MaxClock \in Nat /\ MaxRevocations \in Nat /\ Timed \in BOOLEAN
    /\ NoTime \notin Int

VARIABLES
    user,       \* the committed row of the employee
    lock,       \* who holds FOR UPDATE on it
    clock,
    pc, req,    \* the statement a handler is about to execute; its request
    entity,     \* the user entity a handler has in memory
    diff,       \* the columns a save() is about to UPDATE
    login,      \* the login in progress in a browser: its user and password
    token,      \* the access token of a browser
    job,        \* the mail job in the queue
    link,       \* the reset link in the employee's mailbox: its iat
    revoked,    \* history: revocations so far
    overlapped  \* history: requests of two administrators have overlapped

vars == <<user, lock, clock, pc, req, entity, diff, login, token, job, link, revoked, overlapped>>
mail == <<job, link>>
history == <<revoked, overlapped>>
-----------------------------------------------------------------------------
Time == 0..MaxClock

\* password_hash goes wherever password_changed_at goes: both are written by
\* the same operations, and never with the values they had.
User == [active: BOOLEAN, version: Nat, changed: Time \cup {NoTime}]
Columns == {"active", "version", "changed"}

\* `epoch` is a history field: the revocations when the login read the user.
Token == [version: Nat, iat: Time, epoch: Nat]
Login == [user: User, epoch: Nat]

Requests == [op: {"deactivate", "activate", "reset"}]
Links == [op: {"link"}, iat: Time]
Jobs == [iat: Time, attempts: 0..MaxAttempts]

ASSUME SessionsNullsAssumption ==
    /\ NoUser \notin User /\ NoToken \notin Token \cup Login
    /\ NoJob \notin Jobs /\ NoReq \notin Requests \cup Links

InFlight == {"hash", "select", "update", "verify", "lock", "audit"}

\* The iat claim of a token signed at t: whole seconds.
IssuedAt(t) == t - (t % Second)

Lockable == lock = NoProc

Finish(p) ==
    /\ pc' = [pc EXCEPT ![p] = "idle"]
    /\ req' = [req EXCEPT ![p] = NoReq]
    /\ entity' = [entity EXCEPT ![p] = NoUser]
    /\ diff' = [diff EXCEPT ![p] = {}]
    /\ lock' = IF lock = p THEN NoProc ELSE lock
    /\ UNCHANGED <<clock, login, token, mail>>

\* An exception or a crash; nothing is committed.
Fail(p) ==
    /\ pc[p] \in InFlight
    /\ Finish(p)
    /\ UNCHANGED <<user, history>>
-----------------------------------------------------------------------------
(* UsersService *)

\* Mutant: deactivation leaves token_version.
EditedKeepingVersion(r, u) ==
    CASE r.op = "deactivate" -> [u EXCEPT !.active = FALSE]
      [] r.op = "activate" -> [u EXCEPT !.active = TRUE]
      [] r.op = "reset" -> [u EXCEPT !.changed = clock, !.version = @ + 1]

\* What a request makes of the entity it has read.
Edited(r, u) ==
    CASE r.op = "deactivate" -> [u EXCEPT !.active = FALSE, !.version = @ + 1]
      [] r.op = "activate" -> [u EXCEPT !.active = TRUE]
      [] r.op = "reset" -> [u EXCEPT !.changed = clock, !.version = @ + 1]

\* findUserOrFail; deactivate and activate edit the entity at once, a reset
\* awaits bcrypt first.
Load(p, r) ==
    /\ pc[p] = "idle"
    /\ revoked < MaxRevocations
    /\ req' = [req EXCEPT ![p] = r]
    /\ entity' = [entity EXCEPT ![p] = IF r.op = "reset" THEN user ELSE Edited(r, user)]
    /\ pc' = [pc EXCEPT ![p] = IF r.op = "reset" THEN "hash" ELSE "select"]
    /\ UNCHANGED <<user, lock, clock, diff, login, token, mail, history>>

Hash(p) ==
    /\ pc[p] = "hash"
    /\ entity' = [entity EXCEPT ![p] = Edited(req[p], @)]
    /\ pc' = [pc EXCEPT ![p] = "select"]
    /\ UNCHANGED <<user, lock, clock, req, diff, login, token, mail, history>>

SaveSelect(p) ==
    /\ pc[p] = "select"
    /\ diff' = [diff EXCEPT ![p] = {f \in Columns : entity[p][f] # user[f]}]
    /\ pc' = [pc EXCEPT ![p] = "update"]
    /\ UNCHANGED <<user, lock, clock, req, entity, login, token, mail, history>>

SaveUpdate(p) ==
    /\ pc[p] = "update"
    /\ diff[p] # {} => Lockable
    /\ LET new(f) == IF f \in diff[p] THEN entity[p][f] ELSE user[f] IN
        user' = [active |-> new("active"), version |-> new("version"),
                 changed |-> new("changed")]
    /\ revoked' = IF req[p].op = "activate" THEN revoked ELSE revoked + 1
    /\ overlapped' = (overlapped \/ \E q \in Admins \ {p} : entity[q] # NoUser)
    /\ Finish(p)
-----------------------------------------------------------------------------
(* login and validate *)

\* The user is read; bcrypt.compare follows.  (A login with a password that is
\* not the one read leaves nothing behind.)
LoginRead(b) ==
    /\ login[b] = NoToken
    /\ user.active
    /\ login' = [login EXCEPT ![b] = [user |-> user, epoch |-> revoked]]
    /\ UNCHANGED <<user, lock, clock, pc, req, entity, diff, token, mail, history>>

\* The token carries the version that was read before the comparison.
Signed(b) == [version |-> login[b].user.version, iat |-> IssuedAt(clock), epoch |-> login[b].epoch]

LoginSign(b) ==
    /\ login[b] # NoToken
    /\ token' = [token EXCEPT ![b] = Signed(b)]
    /\ login' = [login EXCEPT ![b] = NoToken]
    /\ UNCHANGED <<user, lock, clock, pc, req, entity, diff, mail, history>>

\* Mutant: the token must be a second younger than the last change of password.
OutlivesByASecond(iat, changed) == changed # NoTime => iat - Second >= changed

\* A token or a link is not older than the last change of password.
Outlives(iat, changed) == changed # NoTime => iat >= changed

\* JwtStrategy.validate lets a request of b through.
Accepted(b) ==
    /\ token[b] # NoToken
    /\ token[b].version = user.version
    /\ user.active
    /\ Outlives(token[b].iat, user.changed)
-----------------------------------------------------------------------------
(* The password reset by e-mail *)

\* requestPasswordReset signs a link and queues the mail; when the queue is
\* down the request is answered all the same.
RequestReset ==
    /\ job = NoJob /\ link = NoTime     \* bound: one mail
    /\ job' \in {NoJob, [iat |-> IssuedAt(clock), attempts |-> 0]}
    /\ UNCHANGED <<user, lock, clock, pc, req, entity, diff, login, token, link, history>>

\* Mutant: the job is tried again without limit.
MayRetryAlways(j) == TRUE

MayRetry(j) == j.attempts + 1 < MaxAttempts

\* The worker sends the mail and the job is done, or it fails, before or after
\* the mail has left, and is tried again.
SendMail ==
    /\ job # NoJob
    /\ \/ link' = job.iat /\ job' = NoJob
       \/ /\ link' \in {link, job.iat}
          /\ job' = IF MayRetry(job) THEN [job EXCEPT !.attempts = @ + 1] ELSE NoJob
    /\ UNCHANGED <<user, lock, clock, pc, req, entity, diff, login, token, history>>

\* The form behind the link is submitted, once or more often.
Follow(p) ==
    /\ pc[p] = "idle"
    /\ link # NoTime
    /\ req' = [req EXCEPT ![p] = [op |-> "link", iat |-> link]]
    /\ pc' = [pc EXCEPT ![p] = "verify"]
    /\ UNCHANGED <<user, lock, clock, entity, diff, login, token, mail, history>>

Verify(p) ==
    /\ pc[p] = "verify"
    /\ IF clock - req[p].iat <= LinkLife
       THEN /\ pc' = [pc EXCEPT ![p] = "lock"]
            /\ UNCHANGED <<lock, clock, req, entity, diff, login, token, mail>>
       ELSE Finish(p)
    /\ UNCHANGED <<user, history>>

\* SELECT ... FOR UPDATE; a link older than the last change was used already.
\* Then bcrypt, save(user) within the transaction, and the audit row is sent.
LockUser(p) ==
    /\ pc[p] = "lock"
    /\ Lockable
    /\ IF Outlives(req[p].iat, user.changed)
       THEN /\ lock' = p
            /\ pc' = [pc EXCEPT ![p] = "audit"]
            /\ UNCHANGED <<clock, req, entity, diff, login, token, mail>>
       ELSE Finish(p)
    /\ UNCHANGED <<user, history>>

\* Mutant: no connection of the pool has a lock_timeout.
AuditTimesOutNever == FALSE

AuditTimesOut == Timed

\* The insert of the audit row gives up: rollback, answer 500.
AuditTimeout(p) ==
    /\ pc[p] = "audit"
    /\ AuditTimesOut
    /\ Finish(p)
    /\ UNCHANGED <<user, history>>

Tick ==
    /\ clock < MaxClock
    /\ clock' = clock + 1
    /\ UNCHANGED <<user, lock, pc, req, entity, diff, login, token, mail, history>>
-----------------------------------------------------------------------------
Init ==
    /\ user = [active |-> TRUE, version |-> 0, changed |-> NoTime]
    /\ lock = NoProc
    /\ clock = 0
    /\ pc = [p \in Processes |-> "idle"]
    /\ req = [p \in Processes |-> NoReq]
    /\ entity = [p \in Processes |-> NoUser]
    /\ diff = [p \in Processes |-> {}]
    /\ login = [b \in Browsers |-> NoToken]
    /\ token = [b \in Browsers |-> NoToken]
    /\ job = NoJob
    /\ link = NoTime
    /\ revoked = 0
    /\ overlapped = FALSE

Proceed(p) ==
    \/ Hash(p) \/ SaveSelect(p) \/ SaveUpdate(p)
    \/ Verify(p) \/ LockUser(p) \/ AuditTimeout(p)

Next ==
    \/ \E p \in Admins : \E r \in Requests : Load(p, r)
    \/ \E p \in Resetters : Follow(p)
    \/ \E p \in Processes : Proceed(p) \/ Fail(p)
    \/ \E b \in Browsers : LoginRead(b) \/ LoginSign(b)
    \/ RequestReset \/ SendMail
    \/ Tick

Spec == Init /\ [][Next]_vars

\* Handlers go on, and PostgreSQL serves its queue of waiting statements.
FairSpec == Spec /\ \A p \in Processes : SF_vars(Proceed(p))
-----------------------------------------------------------------------------
(* Properties. *)

SessionsTypeOK ==
    /\ user \in User
    /\ lock \in Resetters \cup {NoProc}
    /\ clock \in Time
    /\ pc \in [Processes -> InFlight \cup {"idle"}]
    /\ req \in [Processes -> Requests \cup Links \cup {NoReq}]
    /\ entity \in [Processes -> User \cup {NoUser}]
    /\ diff \in [Processes -> SUBSET Columns]
    /\ login \in [Browsers -> Login \cup {NoToken}]
    /\ token \in [Browsers -> Token \cup {NoToken}]
    /\ job \in Jobs \cup {NoJob}
    /\ link \in Time \cup {NoTime}
    /\ revoked \in Nat
    /\ overlapped \in BOOLEAN

\* After a deactivation or a change of password no token of an earlier login
\* is ever accepted again, not of a login that was in progress either, and not
\* after the employee is activated again.
KillSwitch ==
    ~overlapped => \A b \in Browsers : Accepted(b) => token[b].epoch = revoked

\* A login that meets no change of the user opens a session that works, unless
\* the password was changed in that very second.
FreshSessionWorks ==
    [][\A b \in Browsers :
        LoginSign(b) /\ login[b].user = user
            /\ (user.changed # NoTime => IssuedAt(clock) > IssuedAt(user.changed))
            => Accepted(b)']_vars

\* Every request of an administrator or of a link is answered.
EveryResetAnswered == \A p \in Processes : pc[p] \in InFlight ~> pc[p] = "idle"
=============================================================================
