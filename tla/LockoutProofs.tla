---------------------------- MODULE LockoutProofs ----------------------------
(***************************************************************************)
(* Proofs about Lockout for any number of overlapping requests, any limit  *)
(* and any bound.                                                          *)
(***************************************************************************)
EXTENDS Lockout, TLAPS

\* What n wrong passwords can have made of a row.
Earned(row, n) ==
    /\ row.attempts <= n
    /\ row.until # "none" => n >= MaxAttempts

\* What a request that has loaded the user will write: a login that is failing
\* one count more than the streak can have made, a login or an unlock nothing,
\* and a status change neither counter nor lock.
Pending(q, n) ==
    /\ q.op = "wrong" => Earned(q.now, n + 1)
    /\ Resets(q.op) => Earned(q.now, 0) /\ q.now.until = "none"
    /\ q.op = "toggle" => q.now.attempts = q.was.attempts /\ q.now.until = q.was.until

IInv ==
    /\ TypeOK
    /\ Earned(user, streak)
    /\ \A r \in Requests : Pending(req[r], streak)

-----------------------------------------------------------------------------
(* The operators                                                            *)

\* What was earned by n wrong passwords is earned by more.
LEMMA EarnedStays ==
    ASSUME NEW row \in Row, NEW n \in Nat, NEW m \in Nat, n <= m, Earned(row, n)
    PROVE  Earned(row, m)
  BY ConstantsAssumption DEF Earned, Row

\* A row is its three columns.
LEMMA RowColumns ==
    ASSUME NEW row \in Row
    PROVE  /\ row = [attempts |-> row.attempts, until |-> row.until, status |-> row.status]
           /\ DOMAIN row = {"attempts", "until", "status"}
  BY DEF Row

\* register_failed_login needs one more wrong password, and keeps the type.
LEMMA FailedLoginEarned ==
    ASSUME NEW row \in Row, NEW n \in Nat, Earned(row, n)
    PROVE  FailedLogin(row) \in Row /\ Earned(FailedLogin(row), n + 1)
  <1> DEFINE next == row.attempts + 1
             lock == IF next >= MaxAttempts THEN "future" ELSE row.until
  <1>1. FailedLogin(row) = [row EXCEPT !.attempts = next, !.until = lock]
    BY DEF FailedLogin
  <1>2. FailedLogin(row) = [attempts |-> next, until |-> lock, status |-> row.status]
    <2> HIDE DEF next, lock
    <2> QED BY <1>1, RowColumns
  <1>3. QED BY <1>2, ConstantsAssumption DEF Earned, Row

\* A cleared row needs no wrong password at all.
LEMMA ClearedEarned ==
    ASSUME NEW row \in Row, NEW n \in Nat
    PROVE  Cleared(row) \in Row /\ Earned(Cleared(row), n)
  <1> DEFINE count == 0
             lock  == "none"
  <1>1. Cleared(row) = [row EXCEPT !.attempts = count, !.until = lock]
    BY DEF Cleared
  <1>2. Cleared(row) = [attempts |-> count, until |-> lock, status |-> row.status]
    <2> HIDE DEF count, lock
    <2> QED BY <1>1, RowColumns
  <1>3. QED BY <1>2 DEF Earned, Row

\* An UPDATE takes every column from the row or from the object.
LEMMA MergeColumns ==
    ASSUME NEW row \in Row, NEW was \in Row, NEW now \in Row
    PROVE  /\ Merge(row, was, now) \in Row
           /\ Merge(row, was, now).attempts =
                IF now.attempts = was.attempts THEN row.attempts ELSE now.attempts
           /\ Merge(row, was, now).until = IF now.until = was.until THEN row.until ELSE now.until
  <1>1. DOMAIN row = {"attempts", "until", "status"}
    BY DEF Row
  <1>2. Merge(row, was, now) =
          [attempts |-> IF now.attempts = was.attempts THEN row.attempts ELSE now.attempts,
           until    |-> IF now.until = was.until THEN row.until ELSE now.until,
           status   |-> IF now.status = was.status THEN row.status ELSE now.status]
    BY <1>1 DEF Merge
  <1>3. QED BY <1>2 DEF Row

\* More wrong passwords allow a pending request more.
LEMMA PendingStays ==
    ASSUME NEW q \in Request, NEW n \in Nat, NEW m \in Nat, n <= m, Pending(q, n)
    PROVE  Pending(q, m)
  <1>1. n + 1 \in Nat /\ m + 1 \in Nat /\ n + 1 <= m + 1 /\ q.now \in Row
    BY DEF Request
  <1>2. q.op = "wrong" => Earned(q.now, m + 1)
    BY <1>1, EarnedStays DEF Pending
  <1>3. QED BY <1>2 DEF Pending

-----------------------------------------------------------------------------
(* The invariant                                                            *)

LEMMA InitIInv == Init => IInv
  BY ConstantsAssumption
     DEF Init, IInv, TypeOK, Earned, Pending, Resets, Idle, NewUser, Row, Request, Operations

\* A request that loads the user into a row it may hold preserves the invariant.
LEMMA LoadIInv ==
    ASSUME IInv, NEW r \in Requests, NEW op \in Operations, NEW new \in Row,
           Pending([op |-> op, was |-> user, now |-> new], streak), Load(r, op, new)
    PROVE  IInv'
  <1> DEFINE q == [op |-> op, was |-> user, now |-> new]
  <1>1. /\ user' = user /\ failures' = failures /\ streak' = streak
        /\ req' = [req EXCEPT ![r] = q]
    BY DEF Load, Become
  <1>2. q \in Request
    BY DEF IInv, TypeOK, Request
  <1>5. Pending(q, streak)
    OBVIOUS
  <1> HIDE DEF q
  <1>3. TypeOK'
    BY <1>1, <1>2 DEF IInv, TypeOK, Load
  <1>4. ASSUME NEW p \in Requests PROVE Pending(req'[p], streak)
    BY <1>1, <1>5 DEF IInv, TypeOK
  <1>6. QED BY <1>1, <1>3, <1>4 DEF IInv, Earned, Pending

\* A request that becomes idle, while the user and the streak move on in a way
\* that the others allow, preserves the invariant.
LEMMA IdleIInv ==
    ASSUME IInv, NEW r \in Requests, Become(r, Idle),
           user' \in Row, failures' \in Nat, streak' \in Nat, Earned(user', streak'),
           \A p \in Requests \ {r} : Pending(req[p], streak'),
           alone' = alone
    PROVE  IInv'
  <1>1. Idle \in Request /\ NewUser \in Row
    BY DEF Idle, NewUser, Request, Row, Operations
  <1>2. req' = [req EXCEPT ![r] = Idle] /\ req \in [Requests -> Request]
    BY DEF Become, IInv, TypeOK
  <1>3. TypeOK'
    BY <1>1, <1>2 DEF TypeOK, IInv
  <1>4. Pending(Idle, streak')
    BY DEF Pending, Resets, Idle
  <1>5. \A p \in Requests : Pending(req'[p], streak')
    BY <1>2, <1>4
  <1>6. QED BY <1>3, <1>5 DEF IInv, Earned, Pending

\* A login with a wrong password makes the streak and the row one longer.
LEMMA FinishWrong ==
    ASSUME IInv, NEW r \in Requests, Finish(r), req[r].op = "wrong"
    PROVE  IInv'
  <1> DEFINE q == req[r]
  <1>1. /\ user \in Row /\ failures \in Nat /\ streak \in Nat /\ q \in Request
        /\ q.was \in Row /\ q.now \in Row
        /\ Earned(user, streak) /\ Earned(q.now, streak + 1)
    BY DEF IInv, TypeOK, Request, Pending
  <1>2. /\ user' = Merge(user, q.was, q.now)
        /\ failures' = failures + 1 /\ streak' = streak + 1
        /\ Become(r, Idle) /\ alone' = alone
    BY DEF Finish, Resets
  <1>3. streak' \in Nat /\ failures' \in Nat /\ streak <= streak'
    BY <1>1, <1>2
  <1>4. Earned(user, streak')
    BY <1>1, <1>3, EarnedStays
  <1>5. user' \in Row /\ Earned(user', streak')
    BY <1>1, <1>2, <1>4, MergeColumns DEF Earned
  <1>6. \A p \in Requests : Pending(req[p], streak')
    BY <1>1, <1>3, PendingStays DEF IInv, TypeOK
  <1>7. QED BY <1>2, <1>3, <1>5, <1>6, IdleIInv

\* A login or an unlock writes nothing a row has to earn; when it ends the
\* streak no login is failing, so nothing pending can bring a count back.
LEMMA FinishReset ==
    ASSUME IInv, NEW r \in Requests, Finish(r), Resets(req[r].op)
    PROVE  IInv'
  <1> DEFINE q == req[r]
  <1>1. /\ user \in Row /\ failures \in Nat /\ streak \in Nat /\ q \in Request
        /\ q.was \in Row /\ q.now \in Row
        /\ Earned(user, streak) /\ Earned(q.now, 0) /\ q.now.until = "none"
    BY DEF IInv, TypeOK, Request, Pending
  <1>2. /\ user' = Merge(user, q.was, q.now) /\ failures' = 0
        /\ Become(r, Idle) /\ alone' = alone
        /\ \/ /\ ~SomeFailing /\ user'.attempts = 0 /\ user'.until = "none"
              /\ streak' = 0
           \/ streak' = streak
    BY DEF Finish, Resets
  <1>3. q.now.attempts = 0
    BY <1>1 DEF Earned, Row
  <1>4. user' \in Row
    BY <1>1, <1>2, MergeColumns
  <1>5. CASE /\ ~SomeFailing /\ user'.attempts = 0 /\ user'.until = "none" /\ streak' = 0
    <2>1. Earned(user', streak')
      BY <1>5 DEF Earned
    <2>2. ASSUME NEW p \in Requests PROVE Pending(req[p], streak')
      <3>1. req[p].op # "wrong"
        BY <1>5 DEF SomeFailing
      <3>2. QED BY <3>1 DEF IInv, Pending
    <2>3. QED BY <1>2, <1>4, <1>5, <2>1, <2>2, IdleIInv
  <1>6. CASE streak' = streak
    <2>1. Earned(user', streak')
      BY <1>1, <1>2, <1>3, <1>6, MergeColumns DEF Earned
    <2>2. \A p \in Requests : Pending(req[p], streak')
      BY <1>6 DEF IInv
    <2>3. QED BY <1>1, <1>2, <1>4, <1>6, <2>1, <2>2, IdleIInv
  <1>7. QED BY <1>2, <1>5, <1>6

\* A status change leaves the counter and the lock of the row alone.
LEMMA FinishToggle ==
    ASSUME IInv, NEW r \in Requests, Finish(r), req[r].op = "toggle"
    PROVE  IInv'
  <1> DEFINE q == req[r]
  <1>1. /\ user \in Row /\ failures \in Nat /\ streak \in Nat
        /\ q.was \in Row /\ q.now \in Row
        /\ Earned(user, streak)
        /\ q.now.attempts = q.was.attempts /\ q.now.until = q.was.until
    BY DEF IInv, TypeOK, Request, Pending
  <1>2. /\ user' = Merge(user, q.was, q.now)
        /\ failures' = failures /\ streak' = streak
        /\ Become(r, Idle) /\ alone' = alone
    BY DEF Finish, Resets
  <1>3. user' \in Row /\ Earned(user', streak')
    BY <1>1, <1>2, MergeColumns DEF Earned
  <1>4. \A p \in Requests : Pending(req[p], streak')
    BY <1>2 DEF IInv
  <1>5. QED BY <1>1, <1>2, <1>3, <1>4, IdleIInv

LEMMA FinishIInv ==
    ASSUME IInv, NEW r \in Requests, Finish(r)
    PROVE  IInv'
  <1>1. req[r].op \in {"wrong", "right", "unlock", "toggle"}
    BY DEF Finish, IInv, TypeOK, Request, Operations
  <1>2. QED BY <1>1, FinishWrong, FinishReset, FinishToggle DEF Resets

LEMMA ExpireIInv ==
    ASSUME IInv, Expire
    PROVE  IInv'
  <1>1. /\ user' = [user EXCEPT !.until = "past"]
        /\ failures' = failures /\ streak' = streak /\ req' = req /\ alone' = alone
        /\ user.until = "future"
    BY DEF Expire, IsLocked
  <1>2. user' \in Row /\ Earned(user', streak')
    BY <1>1 DEF IInv, TypeOK, Row, Earned
  <1>3. TypeOK'
    BY <1>1, <1>2 DEF IInv, TypeOK
  <1>4. \A p \in Requests : Pending(req'[p], streak')
    BY <1>1 DEF IInv
  <1>5. QED BY <1>2, <1>3, <1>4 DEF IInv, Earned, Pending

LEMMA NextIInv == IInv /\ [Next]_vars => IInv'
  <1> SUFFICES ASSUME IInv, [Next]_vars PROVE IInv'
    OBVIOUS
  <1>1. user \in Row /\ failures \in Nat /\ streak \in Nat /\ 0 \in Nat /\ Earned(user, streak)
    BY DEF IInv, TypeOK
  <1>2. ASSUME NEW r \in Requests, EnterWrongPassword(r) PROVE IInv'
    <2>1. FailedLogin(user) \in Row /\ Earned(FailedLogin(user), streak + 1)
      BY <1>1, FailedLoginEarned
    <2>2. Pending([op |-> "wrong", was |-> user, now |-> FailedLogin(user)], streak)
      BY <2>1 DEF Pending, Resets
    <2>3. Load(r, "wrong", FailedLogin(user))
      BY <1>2 DEF EnterWrongPassword
    <2>4. QED BY <2>1, <2>2, <2>3, LoadIInv DEF Operations
  <1>3. ASSUME NEW r \in Requests, NEW op \in {"right", "unlock"}, Load(r, op, Cleared(user))
        PROVE  IInv'
    <2>1. Cleared(user) \in Row /\ Earned(Cleared(user), 0)
      BY <1>1, ClearedEarned
    <2>2. Cleared(user).until = "none"
      BY RowColumns, <1>1 DEF Cleared
    <2>3. Pending([op |-> op, was |-> user, now |-> Cleared(user)], streak)
      BY <2>1, <2>2 DEF Pending, Resets
    <2>4. op \in Operations
      BY DEF Operations
    <2>5. QED BY <1>3, <2>1, <2>3, <2>4, LoadIInv
  <1>4. ASSUME NEW r \in Requests, EnterRightPassword(r) \/ Unlock(r) PROVE IInv'
    BY <1>3, <1>4 DEF EnterRightPassword, Unlock
  <1>5. ASSUME NEW r \in Requests, Toggle(r) PROVE IInv'
    <2> DEFINE new == [user EXCEPT !.status = IF @ = "active" THEN "disabled" ELSE "active"]
    <2>1. new \in Row /\ new.attempts = user.attempts /\ new.until = user.until
      BY <1>1 DEF Row
    <2>2. Load(r, "toggle", new)
      BY <1>5 DEF Toggle
    <2> HIDE DEF new
    <2>3. Pending([op |-> "toggle", was |-> user, now |-> new], streak)
      BY <2>1 DEF Pending, Resets
    <2>4. QED BY <2>1, <2>2, <2>3, LoadIInv DEF Operations
  <1>6. ASSUME NEW r \in Requests, Finish(r) PROVE IInv'
    BY <1>6, FinishIInv
  <1>7. ASSUME NEW r \in Requests, GiveUp(r) PROVE IInv'
    <2>1. /\ user' = user /\ failures' = failures /\ streak' = streak /\ alone' = alone
          /\ Become(r, Idle)
      BY <1>7 DEF GiveUp
    <2>2. Earned(user', streak') /\ \A p \in Requests \ {r} : Pending(req[p], streak')
      BY <1>1, <2>1 DEF IInv
    <2>3. QED BY <1>1, <2>1, <2>2, IdleIInv
  <1>8. CASE Expire
    BY <1>8, ExpireIInv
  <1>9. CASE UNCHANGED vars
    BY <1>9 DEF vars, IInv, TypeOK, Earned, Pending
  <1>10. QED
    BY <1>2, <1>4, <1>5, <1>6, <1>7, <1>8, <1>9 DEF Next

-----------------------------------------------------------------------------
(* Theorems                                                                 *)

\* Every reachable state of the lockout is well typed.
THEOREM TypeCorrect == Spec => []TypeOK
  <1>1. IInv => TypeOK
    BY DEF IInv
  <1>2. QED BY <1>1, InitIInv, NextIInv, PTL DEF Spec

-----------------------------------------------------------------------------
(* The exact counter of requests that do not overlap                        *)

\* The counter that a request of this kind makes of n.
Counted(op, n) ==
    CASE op = "wrong"               -> n + 1
      [] op \in {"right", "unlock"} -> 0
      [] OTHER                      -> n

\* While no two requests have overlapped, at most one is in flight, and it has
\* loaded the counter that still stands.
Solo ==
    alone =>
        /\ user.attempts = failures
        /\ streak = failures
        /\ \A r \in Requests : req[r].op # "none" =>
              /\ \A s \in Requests : req[s].op # "none" => s = r
              /\ req[r].was.attempts = user.attempts
              /\ req[r].was.until = "none" => user.until = "none"
              /\ req[r].now.attempts = Counted(req[r].op, user.attempts)

LEMMA InitSolo == Init => Solo
  BY DEF Init, Solo, Idle, NewUser

\* A request that starts alone is the only one, with the counter just loaded.
LEMMA LoadSolo ==
    ASSUME TypeOK, Solo, NEW r \in Requests, NEW op \in Operations, NEW new,
           new.attempts = Counted(op, user.attempts), Load(r, op, new)
    PROVE  Solo'
  <1> DEFINE q == [op |-> op, was |-> user, now |-> new]
  <1>1. /\ user' = user /\ failures' = failures /\ streak' = streak
        /\ req' = [req EXCEPT ![r] = q]
        /\ alone' = (alone /\ \A s \in Requests : req[s].op = "none")
    BY DEF Load, Become
  <1>2. q.op = op /\ q.was = user /\ q.now = new
    OBVIOUS
  <1> HIDE DEF q
  <1>3. \A p \in Requests : req'[p] = IF p = r THEN q ELSE req[p]
    BY <1>1 DEF TypeOK
  <1>4. SUFFICES ASSUME alone'
                 PROVE  /\ user.attempts = failures
                        /\ streak = failures
                        /\ \A p \in Requests : req'[p].op # "none" =>
                              /\ \A s \in Requests : req'[s].op # "none" => s = p
                              /\ req'[p].was.attempts = user.attempts
                              /\ req'[p].was.until = "none" => user.until = "none"
                              /\ req'[p].now.attempts = Counted(req'[p].op, user.attempts)
    BY <1>1 DEF Solo, Counted
  <1>5. alone /\ \A s \in Requests : req[s].op = "none"
    BY <1>1, <1>4
  <1>6. user.attempts = failures /\ streak = failures
    BY <1>5 DEF Solo
  <1>7. \A p \in Requests : req'[p].op # "none" => p = r
    BY <1>3, <1>5
  <1>8. QED BY <1>2, <1>3, <1>6, <1>7

\* A request that ends leaves the others as they were.
LEMMA IdleSolo ==
    ASSUME TypeOK, Solo, NEW r \in Requests, req[r].op # "none", Become(r, Idle),
           alone' = alone, alone => user'.attempts = failures' /\ streak' = failures'
    PROVE  Solo'
  <1>1. \A p \in Requests : req'[p] = IF p = r THEN Idle ELSE req[p]
    BY DEF Become, TypeOK
  <1>2. Idle.op = "none"
    BY DEF Idle
  <1>3. alone => \A p \in Requests : req'[p].op = "none"
    BY <1>1, <1>2 DEF Solo
  <1>4. QED BY <1>3 DEF Solo

\* The UPDATE of a request that ran alone writes the counter it has computed.
LEMMA FinishSolo ==
    ASSUME IInv, Solo, NEW r \in Requests, Finish(r)
    PROVE  Solo'
  <1> DEFINE q == req[r]
  <1>1. /\ q.op # "none" /\ alone' = alone /\ Become(r, Idle)
        /\ user' = Merge(user, q.was, q.now)
        /\ failures' = CASE q.op = "wrong" -> failures + 1
                         [] Resets(q.op)   -> 0
                         [] OTHER          -> failures
    BY DEF Finish
  <1>2. ASSUME alone PROVE user'.attempts = failures' /\ streak' = failures'
    <2>1. /\ user.attempts = failures
          /\ q.was.attempts = user.attempts
          /\ q.now.attempts = Counted(q.op, user.attempts)
      BY <1>1, <1>2 DEF Solo
    <2>2. /\ user'.attempts = IF q.now.attempts = q.was.attempts THEN user.attempts ELSE q.now.attempts
          /\ user'.until = IF q.now.until = q.was.until THEN user.until ELSE q.now.until
      <3>1. user \in Row /\ q.was \in Row /\ q.now \in Row
        BY DEF IInv, TypeOK, Request
      <3>2. QED BY <1>1, <3>1, MergeColumns
    <2>3. user'.attempts = Counted(q.op, user.attempts)
      BY <2>1, <2>2
    <2>4. failures' = Counted(q.op, failures)
      BY <1>1 DEF Counted, Resets
    <2>5. user'.attempts = failures'
      BY <2>1, <2>3, <2>4
    <2>6. CASE Resets(q.op)
      <3>1. ~SomeFailing
        BY <1>1, <1>2, <2>6 DEF Solo, SomeFailing, Resets
      <3>2. q.now.until = "none" /\ (q.was.until = "none" => user.until = "none")
        BY <1>1, <1>2, <2>6 DEF IInv, Pending, Solo
      <3>3. user'.until = "none" /\ user'.attempts = 0
        BY <2>2, <2>3, <2>6, <3>2 DEF Counted, Resets
      <3>4. streak' = 0 /\ failures' = 0
        BY <1>1, <2>6, <3>1, <3>3 DEF Finish, Resets
      <3>5. QED BY <2>5, <3>4
    <2>7. CASE ~Resets(q.op)
      <3>1. streak = failures
        BY <1>2 DEF Solo
      <3>2. QED BY <1>1, <2>5, <2>7, <3>1 DEF Finish
    <2>8. QED BY <2>6, <2>7
  <1>3. QED BY <1>1, <1>2, IdleSolo DEF IInv

LEMMA NextSolo == IInv /\ Solo /\ [Next]_vars => Solo'
  <1> SUFFICES ASSUME IInv, Solo, [Next]_vars PROVE Solo'
    OBVIOUS
  <1>12. TypeOK
    BY DEF IInv
  <1>1. user \in Row /\ DOMAIN user = {"attempts", "until", "status"}
    BY <1>12, RowColumns DEF TypeOK
  <1>2. /\ FailedLogin(user).attempts = Counted("wrong", user.attempts)
        /\ Cleared(user).attempts = Counted("right", user.attempts)
        /\ Cleared(user).attempts = Counted("unlock", user.attempts)
    BY <1>1 DEF FailedLogin, Cleared, Counted
  <1>3. ASSUME NEW r \in Requests, EnterWrongPassword(r) PROVE Solo'
    BY <1>2, <1>3, <1>12, LoadSolo DEF EnterWrongPassword, Operations
  <1>4. ASSUME NEW r \in Requests, EnterRightPassword(r) PROVE Solo'
    BY <1>2, <1>4, <1>12, LoadSolo DEF EnterRightPassword, Operations
  <1>5. ASSUME NEW r \in Requests, Unlock(r) PROVE Solo'
    BY <1>2, <1>5, <1>12, LoadSolo DEF Unlock, Operations
  <1>6. ASSUME NEW r \in Requests, Toggle(r) PROVE Solo'
    <2> DEFINE new == [user EXCEPT !.status = IF @ = "active" THEN "disabled" ELSE "active"]
    <2>1. new.attempts = Counted("toggle", user.attempts)
      BY <1>1 DEF Counted
    <2>2. Load(r, "toggle", new)
      BY <1>6 DEF Toggle
    <2> HIDE DEF new
    <2>3. QED BY <1>12, <2>1, <2>2, LoadSolo DEF Operations
  <1>7. ASSUME NEW r \in Requests, Finish(r) PROVE Solo'
    BY <1>7, FinishSolo
  <1>8. ASSUME NEW r \in Requests, GiveUp(r) PROVE Solo'
    <2>1. /\ req[r].op # "none" /\ Become(r, Idle)
          /\ user' = user /\ failures' = failures /\ streak' = streak /\ alone' = alone
      BY <1>8 DEF GiveUp
    <2>2. alone => user'.attempts = failures' /\ streak' = failures'
      BY <2>1 DEF Solo
    <2>3. QED BY <1>12, <2>1, <2>2, IdleSolo
  <1>9. CASE Expire
    <2>1. /\ user'.attempts = user.attempts /\ user.until # "none" /\ failures' = failures
          /\ streak' = streak /\ req' = req /\ alone' = alone
      BY <1>1, <1>9 DEF Expire, IsLocked
    <2>2. QED BY <2>1 DEF Solo, Counted
  <1>10. CASE UNCHANGED vars
    BY <1>10 DEF vars, Solo, Counted
  <1>11. QED
    BY <1>3, <1>4, <1>5, <1>6, <1>7, <1>8, <1>9, <1>10 DEF Next

\* As long as no two requests overlap, the counter is the number of wrong
\* passwords since the last login or unlock, however statuses change and locks
\* expire in between (register_failed_login, register_successful_login).
THEOREM CounterExact == Spec => []FailuresCounted
  <1>1. Solo => FailuresCounted
    BY DEF Solo, FailuresCounted
  <1>2. QED BY <1>1, InitIInv, NextIInv, InitSolo, NextSolo, PTL DEF Spec

\* Whatever logins, unlocks and status changes overlap, and however many
\* failures came before the last reset, nobody is locked before the limit of
\* consecutive wrong passwords, and the counter never exceeds them
\* (register_failed_login, register_successful_login, unlock_user).
THEOREM NobodyLockedEarly == Spec => []LockIsEarned
  <1>1. IInv /\ Solo => LockIsEarned
    BY DEF IInv, Solo, Earned, LockIsEarned
  <1>2. QED BY <1>1, InitIInv, NextIInv, InitSolo, NextSolo, PTL DEF Spec

-----------------------------------------------------------------------------
(* The lock at the limit                                                    *)

\* A wrong password was entered against an unlocked row, and its object is
\* locked when the counter loaded was at the limit but for one.
Poised ==
    \A r \in Requests : req[r].op = "wrong" =>
        /\ req[r].was.until # "future"
        /\ req[r].was.attempts + 1 >= MaxAttempts => req[r].now.until = "future"

LEMMA InitPoised == Init => Poised
  BY DEF Init, Poised, Idle

LEMMA NextPoised == TypeOK /\ Poised /\ [Next]_vars => Poised'
  <1> SUFFICES ASSUME TypeOK, Poised, [Next]_vars PROVE Poised'
    OBVIOUS
  <1>1. Idle.op = "none"
    BY DEF Idle
  <1>2. ASSUME NEW r \in Requests, Become(r, Idle) PROVE Poised'
    <2>1. \A p \in Requests : req'[p] = IF p = r THEN Idle ELSE req[p]
      BY <1>2 DEF Become, TypeOK
    <2>2. QED BY <1>1, <2>1 DEF Poised
  <1>3. ASSUME NEW r \in Requests, NEW op, NEW new, Load(r, op, new), op # "wrong"
        PROVE  Poised'
    <2>1. \A p \in Requests :
            req'[p] = IF p = r THEN [op |-> op, was |-> user, now |-> new] ELSE req[p]
      BY <1>3 DEF Load, Become, TypeOK
    <2>2. QED BY <1>3, <2>1 DEF Poised
  <1>4. ASSUME NEW r \in Requests, EnterWrongPassword(r) PROVE Poised'
    <2> DEFINE new == FailedLogin(user)
    <2>1. user.until # "future" /\ Load(r, "wrong", new)
      BY <1>4 DEF EnterWrongPassword, MayLogin, IsLocked
    <2>2. user.attempts + 1 >= MaxAttempts => new.until = "future"
      BY RowColumns DEF FailedLogin, TypeOK
    <2> HIDE DEF new
    <2>3. \A p \in Requests :
            req'[p] = IF p = r THEN [op |-> "wrong", was |-> user, now |-> new] ELSE req[p]
      BY <2>1 DEF Load, Become, TypeOK
    <2>4. QED BY <2>1, <2>2, <2>3 DEF Poised
  <1>5. ASSUME NEW r \in Requests, EnterRightPassword(r) PROVE Poised'
    BY <1>3, <1>5 DEF EnterRightPassword
  <1>6. ASSUME NEW r \in Requests, Unlock(r) PROVE Poised'
    BY <1>3, <1>6 DEF Unlock
  <1>7. ASSUME NEW r \in Requests, Toggle(r) PROVE Poised'
    <2> DEFINE new == [user EXCEPT !.status = IF @ = "active" THEN "disabled" ELSE "active"]
    <2>1. Load(r, "toggle", new)
      BY <1>7 DEF Toggle
    <2> HIDE DEF new
    <2>2. QED BY <1>3, <2>1
  <1>8. ASSUME NEW r \in Requests, Finish(r) PROVE Poised'
    BY <1>2, <1>8 DEF Finish
  <1>9. ASSUME NEW r \in Requests, GiveUp(r) PROVE Poised'
    BY <1>2, <1>9 DEF GiveUp
  <1>10. CASE Expire
    BY <1>10 DEF Expire, Poised
  <1>11. CASE UNCHANGED vars
    BY <1>11 DEF vars, Poised
  <1>12. QED
    BY <1>4, <1>5, <1>6, <1>7, <1>8, <1>9, <1>10, <1>11 DEF Next

\* Only the end of a login with a wrong password counts one more.
LEMMA OnlyWrongCounts ==
    ASSUME TypeOK, [Next]_vars, failures' > failures
    PROVE  \E r \in Requests : Finish(r) /\ req[r].op = "wrong" /\ failures' = failures + 1
  <1>1. failures \in Nat /\ failures' # failures /\ ~(0 > failures)
    BY DEF TypeOK
  <1>2. PICK r \in Requests : Finish(r)
    BY <1>1 DEF Next, EnterWrongPassword, EnterRightPassword, Unlock, Toggle, Load, GiveUp,
                Expire, vars
  <1>3. req[r].op = "wrong" /\ failures' = failures + 1
    BY <1>1, <1>2 DEF Finish, Resets
  <1>4. QED BY <1>2, <1>3

LEMMA LockStep ==
    ASSUME TypeOK, Solo, Poised, [Next]_vars,
           alone, failures' > failures, failures' >= MaxAttempts
    PROVE  user'.until = "future"
  <1>1. PICK r \in Requests : Finish(r) /\ req[r].op = "wrong" /\ failures' = failures + 1
    BY OnlyWrongCounts
  <1>2. req[r].was.attempts = failures
    BY <1>1 DEF Solo
  <1>3. req[r].was.until # "future" /\ req[r].now.until = "future"
    BY <1>1, <1>2 DEF Poised
  <1>4. DOMAIN user = {"attempts", "until", "status"}
    BY RowColumns DEF TypeOK
  <1>5. QED BY <1>1, <1>3, <1>4 DEF Finish, Merge

\* As long as no two requests overlap, every wrong password from the limit on
\* locks the account, also after a lock has expired (register_failed_login).
THEOREM LockedAtTheLimit == Spec => LocksAtMax
  <1>1. IInv => TypeOK
    BY DEF IInv
  <1>2. TypeOK /\ Solo /\ Poised /\ [Next]_vars =>
          [alone /\ failures' > failures /\ failures' >= MaxAttempts
             => user'.until = "future"]_vars
    BY LockStep
  <1>3. QED
    BY <1>1, <1>2, InitIInv, NextIInv, InitSolo, NextSolo, InitPoised, NextPoised, PTL
       DEF Spec, LocksAtMax
==============================================================================
