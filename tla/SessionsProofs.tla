---------------------------- MODULE SessionsProofs ----------------------------
(***************************************************************************)
(* The kill switch holds for every number of administrators, browsers and  *)
(* reset links: as long as no two requests of administrators overlap,      *)
(* token_version counts the revocations, and every token carries the count *)
(* of the moment its login read the user.                                  *)
(***************************************************************************)
EXTENDS Sessions, TLAPS

\* The handlers that hold an entity are those of the administrators; those of
\* a reset link hold its request.
HandlersInv ==
    \A p \in Processes :
        /\ pc[p] \in {"hash", "select", "update"} =>
            p \in Admins /\ entity[p] \in User /\ req[p] \in Requests
        /\ pc[p] \in {"verify", "lock", "audit"} => p \in Resetters /\ req[p] \in Links

\* The version that the entity of p will have in the table.
Target(p) == IF req[p].op = "activate" THEN revoked ELSE revoked + 1

EntitiesCount ==
    \A p \in Processes :
        /\ pc[p] = "hash" => entity[p].version = revoked /\ req[p].op = "reset"
        /\ pc[p] \in {"select", "update"} => entity[p].version = Target(p)
        /\ pc[p] = "update" => ("version" \in diff[p] <=> entity[p].version # user.version)

TokensCount ==
    \A b \in Browsers :
        /\ login[b] # NoToken => login[b].user.version = login[b].epoch
        /\ token[b] # NoToken => token[b].version = token[b].epoch

VersionsInv == ~overlapped => user.version = revoked /\ EntitiesCount /\ TokensCount

Inv == SessionsTypeOK /\ HandlersInv /\ VersionsInv
-----------------------------------------------------------------------------
LEMMA IssuedAtType ==
    ASSUME NEW t \in Time
    PROVE  IssuedAt(t) \in Time
  <1>1. /\ Second \in Nat /\ Second > 0 /\ MaxClock \in Nat
        /\ t \in Nat /\ t <= MaxClock
    BY SessionsTimeAssumption DEF Time
  <1>2. t % Second \in 0..(Second - 1) /\ t % Second <= t
    BY <1>1
  <1>3. QED
    BY <1>1, <1>2 DEF IssuedAt, Time

LEMMA EditedType ==
    ASSUME NEW u \in User, NEW r \in Requests, clock \in Time
    PROVE  /\ Edited(r, u) \in User
           /\ Edited(r, u).version = IF r.op = "activate" THEN u.version ELSE u.version + 1
  <1>1. r.op \in {"deactivate", "activate", "reset"}
    BY DEF Requests
  <1>2. CASE r.op = "deactivate"
    <2>1. Edited(r, u) = [active |-> FALSE, version |-> u.version + 1, changed |-> u.changed]
      BY <1>2 DEF Edited, User
    <2>2. QED
      BY <1>2, <2>1 DEF User
  <1>3. CASE r.op = "activate"
    BY <1>3 DEF Edited, User
  <1>4. CASE r.op = "reset"
    <2>1. Edited(r, u) = [active |-> u.active, version |-> u.version + 1, changed |-> clock]
      BY <1>4 DEF Edited, User
    <2>2. QED
      BY <1>4, <2>1 DEF User
  <1>5. QED
    BY <1>1, <1>2, <1>3, <1>4

LEMMA InitEstablishesInv == Init => Inv
  <1> SUFFICES ASSUME Init PROVE Inv
    OBVIOUS
  <1>1. 0 \in Time /\ user \in User
    BY SessionsTimeAssumption DEF Init, User, Time
  <1>3. SessionsTypeOK
    BY <1>1 DEF Init, SessionsTypeOK
  <1>2. HandlersInv /\ VersionsInv
    BY DEF Init, HandlersInv, VersionsInv, EntitiesCount, TokensCount
  <1>4. QED
    BY <1>2, <1>3 DEF Inv
-----------------------------------------------------------------------------
\* A handler that ends leaves the invariant as it was, when the row keeps its
\* version or the flag says what happened.
LEMMA FinishPreservesInv ==
    ASSUME Inv, NEW p \in Processes, Finish(p), UNCHANGED <<user, history>>
    PROVE  Inv'
  <1>1. SessionsTypeOK'
    BY DEF Inv, SessionsTypeOK, Finish, history, mail
  <1>2. HandlersInv'
    BY DEF Inv, HandlersInv, SessionsTypeOK, Finish
  <1>3. VersionsInv'
    <2> SUFFICES ASSUME ~overlapped PROVE (user.version = revoked /\ EntitiesCount /\ TokensCount)'
      BY DEF VersionsInv, history
    <2>1. EntitiesCount'
      BY DEF Inv, VersionsInv, EntitiesCount, SessionsTypeOK, Finish, history, Target
    <2>2. QED
      BY <2>1 DEF Inv, VersionsInv, TokensCount, Finish, history
  <1>4. QED
    BY <1>1, <1>2, <1>3 DEF Inv

LEMMA LoadPreservesInv ==
    ASSUME Inv, NEW p \in Admins, NEW r \in Requests, Load(p, r)
    PROVE  Inv'
  <1>1. /\ p \in Processes /\ clock \in Time /\ user \in User
        /\ entity'[p] \in User /\ req'[p] = r /\ pc'[p] \in {"hash", "select"}
    BY EditedType DEF Inv, SessionsTypeOK, Load, Processes
  <1>2. SessionsTypeOK'
    BY <1>1 DEF Inv, SessionsTypeOK, Load, InFlight, mail, history
  <1>3. HandlersInv'
    BY <1>1 DEF Inv, HandlersInv, SessionsTypeOK, Load
  <1>4. VersionsInv'
    <2> SUFFICES ASSUME ~overlapped PROVE (user.version = revoked /\ EntitiesCount /\ TokensCount)'
      BY DEF VersionsInv, Load, history
    <2>1. user.version = revoked
      BY DEF Inv, VersionsInv
    <2>2. /\ pc'[p] = "hash" => entity'[p].version = revoked /\ r.op = "reset"
          /\ pc'[p] = "select" =>
                entity'[p].version = IF r.op = "activate" THEN revoked ELSE revoked + 1
      BY <1>1, <2>1, EditedType DEF Inv, SessionsTypeOK, Load
    <2>3. EntitiesCount'
      BY <1>1, <2>2 DEF Inv, VersionsInv, EntitiesCount, SessionsTypeOK, Load, history, Target
    <2>4. QED
      BY <2>1, <2>3 DEF Inv, VersionsInv, TokensCount, Load, history
  <1>5. QED
    BY <1>2, <1>3, <1>4 DEF Inv

LEMMA HashPreservesInv ==
    ASSUME Inv, NEW p \in Processes, Hash(p)
    PROVE  Inv'
  <1>1. /\ pc[p] = "hash" /\ entity[p] \in User /\ req[p] \in Requests /\ clock \in Time
        /\ entity'[p] = Edited(req[p], entity[p]) /\ entity'[p] \in User
    BY EditedType DEF Inv, SessionsTypeOK, HandlersInv, Hash
  <1>2. SessionsTypeOK'
    BY <1>1 DEF Inv, SessionsTypeOK, Hash, InFlight, mail, history
  <1>3. HandlersInv'
    BY <1>1 DEF Inv, HandlersInv, SessionsTypeOK, Hash
  <1>4. VersionsInv'
    <2> SUFFICES ASSUME ~overlapped PROVE (user.version = revoked /\ EntitiesCount /\ TokensCount)'
      BY DEF VersionsInv, Hash, history
    <2>1. entity[p].version = revoked /\ req[p].op = "reset"
      BY <1>1 DEF Inv, VersionsInv, EntitiesCount
    <2>2. entity'[p].version = revoked + 1
      BY <1>1, <2>1, EditedType
    <2>3. EntitiesCount'
      BY <1>1, <2>1, <2>2 DEF Inv, VersionsInv, EntitiesCount, SessionsTypeOK, Hash, history, Target
    <2>4. QED
      BY <2>3 DEF Inv, VersionsInv, TokensCount, Hash, history
  <1>5. QED
    BY <1>2, <1>3, <1>4 DEF Inv

LEMMA SaveSelectPreservesInv ==
    ASSUME Inv, NEW p \in Processes, SaveSelect(p)
    PROVE  Inv'
  <1>1. SessionsTypeOK'
    BY DEF Inv, SessionsTypeOK, SaveSelect, InFlight, mail, history
  <1>2. HandlersInv'
    BY DEF Inv, HandlersInv, SessionsTypeOK, SaveSelect
  <1>3. VersionsInv'
    <2> SUFFICES ASSUME ~overlapped PROVE (user.version = revoked /\ EntitiesCount /\ TokensCount)'
      BY DEF VersionsInv, SaveSelect, history
    <2>1. "version" \in diff'[p] <=> entity[p].version # user.version
      BY DEF Inv, SessionsTypeOK, SaveSelect, Columns
    <2>2. EntitiesCount'
      BY <2>1 DEF Inv, VersionsInv, EntitiesCount, SessionsTypeOK, SaveSelect, history, Target
    <2>3. QED
      BY <2>2 DEF Inv, VersionsInv, TokensCount, SaveSelect, history
  <1>4. QED
    BY <1>1, <1>2, <1>3 DEF Inv

\* A save that overlaps no other handler's entity makes the version what the
\* handler meant it to be; one that does raises the flag.
LEMMA SaveUpdatePreservesInv ==
    ASSUME Inv, NEW p \in Processes, SaveUpdate(p)
    PROVE  Inv'
  <1>1. /\ pc[p] = "update" /\ entity[p] \in User /\ user \in User /\ req[p] \in Requests
        /\ p \in Admins /\ revoked \in Nat /\ revoked' \in Nat /\ user' \in User
        /\ user'.version = IF "version" \in diff[p] THEN entity[p].version ELSE user.version
    BY DEF Inv, SessionsTypeOK, HandlersInv, SaveUpdate, User
  <1>2. SessionsTypeOK'
    BY <1>1 DEF Inv, SessionsTypeOK, SaveUpdate, Finish, mail
  <1>3. HandlersInv'
    BY DEF Inv, HandlersInv, SessionsTypeOK, SaveUpdate, Finish
  <1>4. VersionsInv'
    <2> SUFFICES ASSUME ~overlapped'
                 PROVE  (user.version = revoked /\ EntitiesCount /\ TokensCount)'
      BY DEF VersionsInv
    <2>1. ~overlapped /\ \A q \in Admins \ {p} : entity[q] = NoUser
      BY DEF SaveUpdate
    <2>2. user'.version = revoked'
      BY <1>1, <2>1 DEF Inv, VersionsInv, EntitiesCount, Target, SaveUpdate
    <2>3. \A q \in Processes : pc'[q] \notin {"hash", "select", "update"}
      BY <2>1, SessionsNullsAssumption DEF Inv, HandlersInv, SessionsTypeOK, SaveUpdate, Finish
    <2>4. QED
      BY <2>1, <2>2, <2>3 DEF Inv, VersionsInv, EntitiesCount, TokensCount, SaveUpdate, Finish
  <1>5. QED
    BY <1>2, <1>3, <1>4 DEF Inv
-----------------------------------------------------------------------------
\* What the reset by e-mail does to the invariant: it locks, and gives up.
LEMMA ResetStepPreservesInv ==
    ASSUME Inv, NEW p \in Processes, Verify(p) \/ LockUser(p) \/ AuditTimeout(p) \/ Fail(p)
    PROVE  Inv'
  <1>1. CASE Finish(p) /\ UNCHANGED <<user, history>>
    BY <1>1, FinishPreservesInv
  <1>2. CASE /\ pc[p] \in {"verify", "lock"} /\ UNCHANGED <<user, history>>
             /\ pc' = [pc EXCEPT ![p] = IF pc[p] = "verify" THEN "lock" ELSE "audit"]
             /\ lock' \in {lock, p}
             /\ UNCHANGED <<clock, req, entity, diff, login, token, mail>>
    <2>1. p \in Resetters
      BY <1>2 DEF Inv, HandlersInv
    <2>2. SessionsTypeOK'
      BY <1>2, <2>1 DEF Inv, SessionsTypeOK, InFlight, mail, history
    <2>3. HandlersInv'
      BY <1>2 DEF Inv, HandlersInv, SessionsTypeOK
    <2>4. VersionsInv'
      BY <1>2 DEF Inv, VersionsInv, EntitiesCount, TokensCount, SessionsTypeOK, Target, history
    <2>5. QED
      BY <2>2, <2>3, <2>4 DEF Inv
  <1>3. QED
    BY <1>1, <1>2 DEF Verify, LockUser, AuditTimeout, Fail

LEMMA FollowPreservesInv ==
    ASSUME Inv, NEW p \in Resetters, Follow(p)
    PROVE  Inv'
  <1>1. p \in Processes /\ req'[p] \in Links /\ req' \in [Processes -> Requests \cup Links \cup {NoReq}]
    BY DEF Inv, SessionsTypeOK, Follow, Links, Processes
  <1>2. SessionsTypeOK'
    BY <1>1 DEF Inv, SessionsTypeOK, Follow, InFlight, mail, history
  <1>3. HandlersInv'
    BY <1>1 DEF Inv, HandlersInv, SessionsTypeOK, Follow
  <1>4. VersionsInv'
    BY <1>1 DEF Inv, VersionsInv, EntitiesCount, TokensCount, SessionsTypeOK, Follow, Target, history
  <1>5. QED
    BY <1>2, <1>3, <1>4 DEF Inv

LEMMA LoginPreservesInv ==
    ASSUME Inv, NEW b \in Browsers, LoginRead(b) \/ LoginSign(b)
    PROVE  Inv'
  <1>1. IssuedAt(clock) \in Time
    BY IssuedAtType DEF Inv, SessionsTypeOK
  <1>2. CASE LoginRead(b)
    <2>1. login'[b] \in Login /\ login' \in [Browsers -> Login \cup {NoToken}]
      BY <1>2 DEF Inv, SessionsTypeOK, LoginRead, Login
    <2>2. SessionsTypeOK' /\ HandlersInv'
      BY <1>2, <2>1 DEF Inv, SessionsTypeOK, HandlersInv, LoginRead, mail, history
    <2>3. VersionsInv'
      BY <1>2 DEF Inv, VersionsInv, EntitiesCount, TokensCount, SessionsTypeOK, LoginRead,
                  Target, history
    <2>4. QED
      BY <2>2, <2>3 DEF Inv
  <1>3. CASE LoginSign(b)
    <2>1. login[b] \in Login /\ Signed(b) \in Token
      BY <1>1, <1>3 DEF Inv, SessionsTypeOK, LoginSign, Signed, Login, Token, User
    <2>2. SessionsTypeOK' /\ HandlersInv'
      BY <1>3, <2>1 DEF Inv, SessionsTypeOK, HandlersInv, LoginSign, mail, history
    <2>3. VersionsInv'
      BY <1>3, <2>1 DEF Inv, VersionsInv, EntitiesCount, TokensCount, SessionsTypeOK,
                        LoginSign, Signed, Target, history
    <2>4. QED
      BY <2>2, <2>3 DEF Inv
  <1>4. QED
    BY <1>2, <1>3

\* The clock and the mail touch neither the handlers nor the tokens.
LEMMA OutsidePreservesInv ==
    ASSUME Inv, RequestReset \/ SendMail \/ Tick
    PROVE  Inv'
  <1>1. IssuedAt(clock) \in Time
    BY IssuedAtType DEF Inv, SessionsTypeOK
  <1>2. /\ UNCHANGED <<user, lock, pc, req, entity, diff, login, token, history>>
        /\ clock' \in Time
    BY SessionsTimeAssumption DEF RequestReset, SendMail, Tick, Inv, SessionsTypeOK, Time
  <1>3. job' \in Jobs \cup {NoJob} /\ link' \in Time \cup {NoTime}
    <2>1. CASE RequestReset
      BY <1>1, <2>1, SessionsTimeAssumption DEF RequestReset, Jobs, Inv, SessionsTypeOK
    <2>2. CASE SendMail
      BY <2>2, SessionsTimeAssumption DEF SendMail, MayRetry, Jobs, Inv, SessionsTypeOK
    <2>3. CASE Tick
      BY <2>3 DEF Tick, mail, Inv, SessionsTypeOK
    <2>4. QED
      BY <2>1, <2>2, <2>3
  <1>4. SessionsTypeOK'
    BY <1>2, <1>3 DEF Inv, SessionsTypeOK, history
  <1>5. HandlersInv' /\ VersionsInv'
    BY <1>2 DEF Inv, HandlersInv, VersionsInv, EntitiesCount, TokensCount, Target, history
  <1>6. QED
    BY <1>4, <1>5 DEF Inv

LEMMA NextPreservesInv == Inv /\ [Next]_vars => Inv'
  <1> SUFFICES ASSUME Inv, [Next]_vars PROVE Inv'
    OBVIOUS
  <1>1. ASSUME NEW p \in Admins, NEW r \in Requests, Load(p, r) PROVE Inv'
    BY <1>1, LoadPreservesInv
  <1>2. ASSUME NEW p \in Resetters, Follow(p) PROVE Inv'
    BY <1>2, FollowPreservesInv
  <1>3. ASSUME NEW p \in Processes, Proceed(p) \/ Fail(p) PROVE Inv'
    BY <1>3, HashPreservesInv, SaveSelectPreservesInv, SaveUpdatePreservesInv,
       ResetStepPreservesInv DEF Proceed
  <1>4. ASSUME NEW b \in Browsers, LoginRead(b) \/ LoginSign(b) PROVE Inv'
    BY <1>4, LoginPreservesInv
  <1>5. CASE RequestReset \/ SendMail \/ Tick
    BY <1>5, OutsidePreservesInv
  <1>6. CASE UNCHANGED vars
    BY <1>6 DEF vars, Inv, SessionsTypeOK, HandlersInv, VersionsInv, EntitiesCount,
                TokensCount, Target
  <1>7. QED
    BY <1>1, <1>2, <1>3, <1>4, <1>5, <1>6 DEF Next
-----------------------------------------------------------------------------
THEOREM SessionsInvariance == Spec => []Inv
  BY InitEstablishesInv, NextPreservesInv, PTL DEF Spec

\* Every reachable state of the sessions is well typed: a mail job is tried at
\* most MaxAttempts times (password-reset-email.processor).
THEOREM SessionsTypeCorrect == Spec => []SessionsTypeOK
  <1>1. Inv => SessionsTypeOK
    BY DEF Inv
  <1>2. QED
    BY <1>1, SessionsInvariance, PTL

\* JwtStrategy.validate accepts no token of a login that read the user before
\* the last revocation, unless requests of two administrators have overlapped.
THEOREM KillSwitchHolds == Spec => []KillSwitch
  <1>1. Inv => KillSwitch
    BY DEF Inv, VersionsInv, TokensCount, KillSwitch, Accepted
  <1>2. QED
    BY <1>1, SessionsInvariance, PTL
-----------------------------------------------------------------------------
\* Whole seconds: a token of a later second is younger than every change of
\* the second before.
LEMMA LaterSecond ==
    ASSUME NEW t \in Time, NEW c \in Time, IssuedAt(t) > IssuedAt(c)
    PROVE  IssuedAt(t) >= c
  <1> DEFINE q == t \div Second
             r == c \div Second
  <1>1. Second \in Nat /\ Second > 0 /\ t \in Int /\ c \in Int
    BY SessionsTimeAssumption DEF Time
  <1>2. /\ q \in Int /\ t = Second * q + (t % Second)
        /\ r \in Int /\ c = Second * r + (c % Second)
        /\ t % Second \in 0..(Second - 1) /\ c % Second \in 0..(Second - 1)
    BY <1>1
  <1>3. IssuedAt(t) = Second * q /\ IssuedAt(c) = Second * r
    BY <1>1, <1>2 DEF IssuedAt
  <1> HIDE DEF q, r
  <1>4. q > r
    <2>1. SUFFICES ASSUME q <= r PROVE Second * q <= Second * r
      BY <1>1, <1>2, <1>3, <2>1
    <2>2. QED
      BY <1>1, <1>2, <2>1
  <1>5. Second * q >= Second * (r + 1)
    BY <1>1, <1>2, <1>4
  <1>6. Second * (r + 1) = Second * r + Second
    BY <1>1, <1>2
  <1>7. QED
    BY <1>1, <1>2, <1>3, <1>5, <1>6

\* A login in progress has read an active user.
LoginsAreActive == \A b \in Browsers : login[b] # NoToken => login[b].user.active

LEMMA ActiveLoginsInvariance == Spec => []LoginsAreActive
  <1>1. Init => LoginsAreActive
    BY DEF Init, LoginsAreActive
  <1>2. SessionsTypeOK /\ LoginsAreActive /\ [Next]_vars => LoginsAreActive'
    <2> SUFFICES ASSUME SessionsTypeOK, LoginsAreActive, [Next]_vars PROVE LoginsAreActive'
      OBVIOUS
    <2>1. ASSUME NEW b \in Browsers, LoginRead(b) PROVE LoginsAreActive'
      BY <2>1 DEF LoginRead, LoginsAreActive, SessionsTypeOK
    <2>2. ASSUME NEW b \in Browsers, LoginSign(b) PROVE LoginsAreActive'
      BY <2>2 DEF LoginSign, LoginsAreActive, SessionsTypeOK
    <2>3. CASE UNCHANGED login
      BY <2>3 DEF LoginsAreActive
    <2>4. ASSUME NEW p \in Processes, Proceed(p) \/ Fail(p) PROVE UNCHANGED login
      BY <2>4 DEF Proceed, Fail, Hash, SaveSelect, SaveUpdate, Verify, LockUser,
                  AuditTimeout, Finish
    <2>5. QED
      BY <2>1, <2>2, <2>3, <2>4 DEF Next, vars, Load, Follow, RequestReset, SendMail, Tick
  <1>3. QED
    BY <1>1, <1>2, SessionsTypeCorrect, PTL DEF Spec

\* A login during which the user does not change ends in a session that
\* JwtStrategy.validate accepts, unless the password changed in that second.
THEOREM FreshSessionsWork == Spec => FreshSessionWorks
  <1>1. SessionsTypeOK /\ LoginsAreActive /\ [Next]_vars =>
            [\A b \in Browsers :
                LoginSign(b) /\ login[b].user = user
                    /\ (user.changed # NoTime => IssuedAt(clock) > IssuedAt(user.changed))
                    => Accepted(b)']_vars
    <2> SUFFICES ASSUME SessionsTypeOK, LoginsAreActive, NEW b \in Browsers,
                        LoginSign(b), login[b].user = user,
                        user.changed # NoTime => IssuedAt(clock) > IssuedAt(user.changed)
                 PROVE  Accepted(b)'
      OBVIOUS
    <2>1. /\ token'[b] = Signed(b) /\ user' = user
          /\ login[b] \in Login /\ user \in User /\ user.active
      BY DEF LoginSign, SessionsTypeOK, LoginsAreActive
    <2>2. IssuedAt(clock) \in Time
      BY IssuedAtType DEF SessionsTypeOK
    <2>3. Signed(b) \in Token /\ Signed(b).version = user.version
          /\ Signed(b).iat = IssuedAt(clock)
      BY <2>1, <2>2 DEF Signed, Token, Login, User
    <2>4. user.changed # NoTime => IssuedAt(clock) >= user.changed
      BY <2>1, LaterSecond DEF SessionsTypeOK, User
    <2>5. Outlives(token'[b].iat, user'.changed)
      BY <2>1, <2>3, <2>4 DEF Outlives
    <2>6. QED
      BY <2>1, <2>3, <2>5, SessionsNullsAssumption DEF Accepted
  <1>2. QED
    BY <1>1, SessionsTypeCorrect, ActiveLoginsInvariance, PTL DEF Spec, FreshSessionWorks
=============================================================================
