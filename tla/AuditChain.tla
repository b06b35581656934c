------------------------------ MODULE AuditChain ------------------------------
(***************************************************************************)
(* The hash-chained audit log (app/services/audit_service.py) under        *)
(* concurrent requests.  log_action reads the newest row, hashes the new   *)
(* row together with that row's hash and adds it to the session.           *)
(*                                                                         *)
(* Where the tail is read makes the difference.  A handler with nothing    *)
(* to flush (BareActions) reads it in autocommit, before its request owns  *)
(* the write lock.  A handler that has changed something first             *)
(* (WriteActions) flushes that change when log_action queries, so the      *)
(* tail is read under the lock.  Deleting a user reads the tail unlocked   *)
(* and then blanks the user's id in the rows already hashed.               *)
(***************************************************************************)
EXTENDS Integers, Sequences

CONSTANTS
    Workers,       \* Concurrent HTTP requests.
    Users,         \* Users that act.
    Deletable,     \* Users that an admin may delete.
    BareActions,   \* Actions logged with nothing else to flush.
    WriteActions,  \* Actions logged after a flushed change.
    MaxRows,       \* Bound: nothing starts once the log has so many rows.
    Nobody,        \* A NULL user_id, as of a login with an unknown name.
    NoWorker,      \* The write lock is free.
    Genesis,       \* GENESIS_HASH.
    DeleteAction   \* The SECURITY_EVENT of delete_user_account.

ASSUME ConstantsAssumption ==
    /\ Deletable \subseteq Users
    /\ Nobody \notin Users
    /\ NoWorker \notin Workers
    /\ DeleteAction \notin BareActions \cup WriteActions
    /\ MaxRows \in Nat

VARIABLES
    store,    \* Committed: the log and the users deleted so far.
    work,     \* What the holder of the write lock sees; store when it is free.
    writer,   \* The worker that holds the write lock, or NoWorker.
    worker    \* Every worker's progress and the row it has prepared.

vars == <<store, work, writer, worker>>

Actions == BareActions \cup WriteActions \cup {DeleteAction}

-----------------------------------------------------------------------------
(* Rows and hashes                                                          *)

\* SHA-256 over the row's content and the previous hash, taken as collision
\* free: the hash is the tuple of what it covers.
Hash(user, action, prev) == <<user, action, prev>>

\* Fault: the query sorts ascending, so the tail is the first row.
HeadHash(log) == IF log = <<>> THEN Genesis ELSE log[1].hash

TailHash(log) == IF log = <<>> THEN Genesis ELSE log[Len(log)].hash

\* Fault: the hash is computed with the first row's hash.
LogRowMismatched(log, user, action) ==
    [user |-> user, action |-> action, prev |-> TailHash(log),
     hash |-> Hash(user, action, HeadHash(log))]

\* The row that log_action builds on top of `log'.
LogRow(log, user, action) ==
    [user |-> user, action |-> action, prev |-> TailHash(log),
     hash |-> Hash(user, action, TailHash(log))]

\* verify_audit_integrity: the hash that row i must name as its previous one ...
ExpectedPrev(log, i) == IF i = 1 THEN Genesis ELSE log[i - 1].hash

LinkHolds(log, i) == log[i].prev = ExpectedPrev(log, i)

\* ... and the hash recomputed from the row as it is stored now.
ContentHolds(log, i) == log[i].hash = Hash(log[i].user, log[i].action, log[i].prev)

Valid(log) == \A i \in DOMAIN log : LinkHolds(log, i) /\ ContentHolds(log, i)

-----------------------------------------------------------------------------
(* Workers                                                                  *)

\* "hashed": a row is prepared, outside the lock; "writing": the lock is held,
\* `left' rows are to be appended; "deleting": the row is written, the user's
\* id is to be blanked; "done": only the commit is left.
Phases == {"idle", "hashed", "writing", "deleting", "done"}

Idle == [pc |-> "idle", user |-> Nobody, action |-> DeleteAction, prev |-> Genesis, left |-> 0]

Become(w, state) == worker' = [worker EXCEPT ![w] = state]

At(w, phase) == worker[w].pc = phase

Live == Users \ store.deleted

MayStart(w) == At(w, "idle") /\ Len(store.log) < MaxRows

Init ==
    /\ store = [log |-> <<>>, deleted |-> {}]
    /\ work = store
    /\ writer = NoWorker
    /\ worker = [w \in Workers |-> Idle]

\* Fault: the tail is read from another request's uncommitted rows.
PrepareDirty(w) ==
    /\ MayStart(w)
    /\ \E u \in Live \cup {Nobody}, a \in BareActions :
          Become(w, [pc |-> "hashed", user |-> u, action |-> a,
                     prev |-> TailHash(work.log), left |-> 0])
    /\ UNCHANGED <<store, work, writer>>

\* A failed login of an unknown, locked or inactive user, a logout, a denied
\* route, an integrity verification, a settings change.
PrepareBare(w) ==
    /\ MayStart(w)
    /\ \E u \in Live \cup {Nobody}, a \in BareActions :
          Become(w, [pc |-> "hashed", user |-> u, action |-> a,
                     prev |-> TailHash(store.log), left |-> 0])
    /\ UNCHANGED <<store, work, writer>>

\* delete_user_account begins with its audit row, logged for the victim.
PrepareDelete(w) ==
    /\ MayStart(w)
    /\ \E u \in Live \cap Deletable :
          Become(w, [pc |-> "hashed", user |-> u, action |-> DeleteAction,
                     prev |-> TailHash(store.log), left |-> 0])
    /\ UNCHANGED <<store, work, writer>>

\* The prepared row goes in under the lock, with the previous hash read before.
InsertPrepared(w) ==
    LET me == worker[w]
    IN  /\ At(w, "hashed")
        /\ writer = NoWorker
        /\ writer' = w
        /\ work' = [store EXCEPT !.log = Append(@,
                      [user |-> me.user, action |-> me.action, prev |-> me.prev,
                       hash |-> Hash(me.user, me.action, me.prev)])]
        /\ Become(w, [me EXCEPT !.pc = IF me.action = DeleteAction THEN "deleting" ELSE "done"])
        /\ UNCHANGED store

Blanked(row, u) == [row EXCEPT !.user = IF @ = u THEN Nobody ELSE @]

\* AuditLog.query.filter_by(user_id=user_id).update({"user_id": None}), and the
\* user's row goes.
BlankUser(w) ==
    LET u == worker[w].user
    IN  /\ At(w, "deleting")
        /\ work' = [log     |-> [i \in DOMAIN work.log |-> Blanked(work.log[i], u)],
                    deleted |-> work.deleted \cup {u}]
        /\ Become(w, [worker[w] EXCEPT !.pc = "done"])
        /\ UNCHANGED <<store, writer>>

\* A change of something else is flushed; one or two audit rows follow (two
\* for a transfer, a registration, a change of a user's status).
FlushChange(w) ==
    /\ MayStart(w)
    /\ writer = NoWorker
    /\ writer' = w
    /\ \E u \in Live, a \in WriteActions, n \in 1 .. 2 :
          Become(w, [pc |-> "writing", user |-> u, action |-> a, prev |-> Genesis, left |-> n])
    /\ UNCHANGED <<store, work>>

\* Fault: a request chains all its rows to the row before the request.
AppendStale(w) ==
    LET me == worker[w]
    IN  /\ At(w, "writing")
        /\ work' = [work EXCEPT !.log = Append(@, LogRow(store.log, me.user, me.action))]
        /\ Become(w, [me EXCEPT !.left = @ - 1, !.pc = IF me.left = 1 THEN "done" ELSE "writing"])
        /\ UNCHANGED <<store, writer>>

\* Fault: the request never stops appending.
AppendEndless(w) ==
    LET me == worker[w]
    IN  /\ At(w, "writing")
        /\ Len(work.log) < MaxRows
        /\ work' = [work EXCEPT !.log = Append(@, LogRow(work.log, me.user, me.action))]
        /\ Become(w, [me EXCEPT !.left = @ - 1])
        /\ UNCHANGED <<store, writer>>

\* log_action under the lock: the rows of one request chain on each other.
AppendRow(w) ==
    LET me == worker[w]
    IN  /\ At(w, "writing")
        /\ work' = [work EXCEPT !.log = Append(@, LogRow(work.log, me.user, me.action))]
        /\ Become(w, [me EXCEPT !.left = @ - 1, !.pc = IF me.left = 1 THEN "done" ELSE "writing"])
        /\ UNCHANGED <<store, writer>>

Commit(w) ==
    /\ At(w, "done")
    /\ store' = work
    /\ writer' = NoWorker
    /\ Become(w, Idle)
    /\ UNCHANGED work

\* "database is locked", any other exception, or a crash: the rows are rolled back.
Fail(w) ==
    /\ ~At(w, "idle")
    /\ Become(w, Idle)
    /\ IF writer = w
       THEN writer' = NoWorker /\ work' = store
       ELSE UNCHANGED <<writer, work>>
    /\ UNCHANGED store

\* The bound is reached and no request arrives.
Rest ==
    /\ \A w \in Workers : At(w, "idle")
    /\ Len(store.log) >= MaxRows
    /\ UNCHANGED vars

Next ==
    \/ Rest
    \/ \E w \in Workers :
          \/ PrepareBare(w) \/ PrepareDelete(w) \/ InsertPrepared(w) \/ BlankUser(w)
          \/ FlushChange(w) \/ AppendRow(w) \/ Commit(w) \/ Fail(w)

Spec == Init /\ [][Next]_vars

-----------------------------------------------------------------------------
(* Properties                                                               *)

\* Every variable has its type.
TypeOK ==
    /\ store.deleted \subseteq Deletable
    /\ work.deleted \subseteq Deletable
    /\ writer \in Workers \cup {NoWorker}
    /\ \A w \in Workers : worker[w].pc \in Phases /\ worker[w].left \in 0 .. 2
    /\ \A i \in DOMAIN store.log : /\ store.log[i].user \in Users \cup {Nobody}
                                   /\ store.log[i].action \in Actions

\* verify_audit_integrity reports the chain as valid.  Holds when every row is
\* chained under the write lock and no user is deleted.
ChainValid == Valid(store.log)

\* However requests overlap and fail, no row is chained to a row that was
\* rolled back: the previous hash is GENESIS or the hash of an earlier row of
\* the committed log (log_action's `last_entry' is committed or its own).
LinksPointBack ==
    \A i \in DOMAIN store.log :
        \/ store.log[i].prev = Genesis
        \/ \E k \in 1 .. i - 1 : store.log[i].prev = store.log[k].hash

\* The broken link that verify_audit_integrity reports, the first one, is a
\* fork: an earlier row is chained to the same previous row.
FirstBreakIsFork ==
    \A i \in DOMAIN store.log :
        /\ ~LinkHolds(store.log, i)
        /\ \A k \in 1 .. i - 1 : LinkHolds(store.log, k)
        => \E k \in 1 .. i - 1 : store.log[k].prev = store.log[i].prev

\* Content fails to match its hash only where the id of a deleted user was
\* blanked, and the hash still tells which user that was.
MismatchIsDeletion ==
    \A i \in DOMAIN store.log :
        \/ ContentHolds(store.log, i)
        \/ /\ store.log[i].user = Nobody
           /\ \E u \in store.deleted :
                 store.log[i].hash = Hash(u, store.log[i].action, store.log[i].prev)

\* The log only grows; a row keeps its action and both of its hashes, and its
\* user is only ever blanked.
RowsStay ==
    [][/\ Len(store'.log) >= Len(store.log)
       /\ \A i \in DOMAIN store.log :
             LET old == store.log[i]
                 new == store'.log[i]
             IN  /\ new.action = old.action
                 /\ new.prev = old.prev
                 /\ new.hash = old.hash
                 /\ new.user \in {old.user, Nobody}]_vars
===============================================================================
