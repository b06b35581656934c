------------------------------- MODULE Lockout -------------------------------
(***************************************************************************)
(* The lockout of one user after repeated failed logins: authenticate      *)
(* (app/services/auth_service.py), the counters of app/models/user.py and  *)
(* an administrator's unlock and status change (app/routes/admin.py).      *)
(*                                                                         *)
(* A request loads the user, checks the lock and the status, and then      *)
(* takes its time to hash the password.  What it writes at the end is      *)
(* computed from the counter as loaded.  Nothing is read between its flush *)
(* and its commit and no other request sees what is not committed, so one  *)
(* step stands for both.                                                   *)
(***************************************************************************)
EXTENDS Integers

CONSTANTS
    Requests,     \* Concurrent HTTP requests that name this user.
    MaxAttempts,  \* MAX_FAILED_LOGIN_ATTEMPTS.
    MaxFailures   \* Bound: no wrong password is entered after a streak so long.

ASSUME ConstantsAssumption == MaxAttempts \in Nat \ {0} /\ MaxFailures \in Nat

VARIABLES
    user,      \* The user's row, as far as authenticate uses it.
    req,       \* Every request: its progress and the row as loaded and changed.
    failures,  \* History: wrong passwords since the last login or unlock.
    streak,    \* History: wrong passwords since the last login or unlock that
               \* cleared the row while no login was failing.
    alone      \* History: no request has started during another one so far.

vars == <<user, req, failures, streak, alone>>

\* `until' is locked_until: NULL, in the future or in the past.
Row == [attempts : Nat, until : {"none", "future", "past"}, status : {"active", "disabled"}]

Operations == {"none", "right", "wrong", "unlock", "toggle"}

Request == [op : Operations, was : Row, now : Row]

NewUser == [attempts |-> 0, until |-> "none", status |-> "active"]

Idle == [op |-> "none", was |-> NewUser, now |-> NewUser]

Init ==
    /\ user = NewUser
    /\ req = [r \in Requests |-> Idle]
    /\ failures = 0
    /\ streak = 0
    /\ alone = TRUE

Become(r, state) == req' = [req EXCEPT ![r] = state]

\* Request r loads the user and turns the object into `new'.
Load(r, op, new) ==
    /\ req[r].op = "none"
    /\ Become(r, [op |-> op, was |-> user, now |-> new])
    /\ alone' = (alone /\ \A s \in Requests : req[s].op = "none")
    /\ UNCHANGED <<user, failures, streak>>

-----------------------------------------------------------------------------
(* Logins                                                                   *)

IsLocked(row) == row.until = "future"

\* Fault: the lock is set only when the counter meets the limit exactly.
FailedLoginExactly(row) ==
    LET n == row.attempts + 1
    IN  [row EXCEPT !.attempts = n, !.until = IF n = MaxAttempts THEN "future" ELSE @]

\* Fault: the comparison is off by one.
FailedLoginTooSoon(row) ==
    LET n == row.attempts + 1
    IN  [row EXCEPT !.attempts = n, !.until = IF n + 1 >= MaxAttempts THEN "future" ELSE @]

\* register_failed_login
FailedLogin(row) ==
    LET n == row.attempts + 1
    IN  [row EXCEPT !.attempts = n, !.until = IF n >= MaxAttempts THEN "future" ELSE @]

\* Fault: the lock is lifted, the counter stays.
CounterKept(row) == [row EXCEPT !.until = "none"]

\* register_successful_login, and what unlock_user assigns.
Cleared(row) == [row EXCEPT !.attempts = 0, !.until = "none"]

\* A locked or inactive user is refused at once and only logged.
MayLogin == ~IsLocked(user) /\ user.status = "active"

EnterWrongPassword(r) ==
    /\ MayLogin
    /\ streak < MaxFailures
    /\ Load(r, "wrong", FailedLogin(user))

EnterRightPassword(r) == MayLogin /\ Load(r, "right", Cleared(user))

-----------------------------------------------------------------------------
(* Administration                                                           *)

Unlock(r) == Load(r, "unlock", Cleared(user))

\* Fault: the status becomes a word that nothing else knows.
LockedByStatus(r) ==
    Load(r, "toggle", [user EXCEPT !.status = IF @ = "active" THEN "locked" ELSE "active"])

\* toggle_user_status
Toggle(r) ==
    Load(r, "toggle", [user EXCEPT !.status = IF @ = "active" THEN "disabled" ELSE "active"])

-----------------------------------------------------------------------------
\* The UPDATE names the columns this session changed.
Merge(row, was, now) == [c \in DOMAIN row |-> IF now[c] = was[c] THEN row[c] ELSE now[c]]

Resets(op) == op \in {"right", "unlock"}

\* A login with a wrong password has loaded the row and not finished.
SomeFailing == \E r \in Requests : req[r].op = "wrong"

\* Flush and commit, with the audit row of the request.
Finish(r) ==
    LET q == req[r]
    IN  /\ q.op # "none"
        /\ user' = Merge(user, q.was, q.now)
        /\ failures' = CASE q.op = "wrong" -> failures + 1
                         [] Resets(q.op)   -> 0
                         [] OTHER          -> failures
        /\ streak' = CASE q.op = "wrong" -> streak + 1
                       [] /\ Resets(q.op)
                          /\ ~SomeFailing
                          /\ user'.attempts = 0
                          /\ user'.until = "none" -> 0
                       [] OTHER          -> streak
        /\ Become(r, Idle)
        /\ UNCHANGED alone

\* "database is locked", an exception or a killed worker: nothing is written.
GiveUp(r) ==
    /\ req[r].op # "none"
    /\ Become(r, Idle)
    /\ UNCHANGED <<user, failures, streak, alone>>

\* LOCKOUT_DURATION_MINUTES pass.
Expire ==
    /\ IsLocked(user)
    /\ user' = [user EXCEPT !.until = "past"]
    /\ UNCHANGED <<req, failures, streak, alone>>

Next ==
    \/ \E r \in Requests :
          \/ EnterWrongPassword(r) \/ EnterRightPassword(r)
          \/ Unlock(r) \/ Toggle(r) \/ Finish(r) \/ GiveUp(r)
    \/ Expire

Spec == Init /\ [][Next]_vars

-----------------------------------------------------------------------------
(* Properties of every execution                                            *)

\* Every variable has its type.
TypeOK ==
    /\ user \in Row
    /\ req \in [Requests -> Request]
    /\ failures \in Nat
    /\ streak \in Nat
    /\ alone \in BOOLEAN

\* A lock takes MaxAttempts consecutive wrong passwords, and the counter never
\* exceeds the consecutive ones: overlapping logins lose counts but invent none,
\* and a login or an unlock starts the count again however many failures came
\* before.  The one way to carry a count over a reset is a login that was
\* failing while the reset was written; unless requests overlap the streak is
\* the number of failures since the reset (register_failed_login,
\* register_successful_login, unlock_user).
LockIsEarned ==
    /\ user.attempts <= streak
    /\ user.until # "none" => streak >= MaxAttempts
    /\ alone => streak = failures

-----------------------------------------------------------------------------
(* Properties of executions in which requests do not overlap                *)

\* The counter is the number of wrong passwords since the last login or unlock
\* (register_failed_login, register_successful_login, unlock_user).
FailuresCounted == alone => user.attempts = failures

\* From the MaxAttempts-th wrong password on, every wrong password locks the
\* account, also the first one after a lock has expired, because the counter
\* survives the expiry (docs/security_design.md: "after
\* MAX_FAILED_LOGIN_ATTEMPTS consecutive failed logins, the account is locked").
LocksAtMax ==
    [][alone /\ failures' > failures /\ failures' >= MaxAttempts
         => user'.until = "future"]_vars

\* The same of requests that do overlap; it fails, since two wrong passwords
\* that start from one loaded counter are counted once.
LocksAtMaxAlways ==
    [][failures' > failures /\ failures' >= MaxAttempts => user'.until = "future"]_vars

\* And that it takes as many failures since the reset to be locked; it fails too,
\* since a login that was failing during the reset writes back the old count.
LocksOnlyAtMax ==
    [][user'.until = "future" /\ user.until # "future" => failures' >= MaxAttempts]_vars
=============================================================================
