--------------------------- MODULE VersionControl ---------------------------
(***************************************************************************)
(* The version history of beneficiaries, accounts and user profiles        *)
(* (app/services/version_service.py), the handlers that change those       *)
(* records, the direct restore of an admin (POST /api/versions/...) and    *)
(* the maker-checker rollback requests (app/routes/api_v1.py, admin.py).   *)
(*                                                                         *)
(* A handler loads the rows it needs outside any transaction and changes   *)
(* the loaded object.  The query for the next version number flushes what  *)
(* is dirty first: the UPDATE takes SQLite's write lock and names only the *)
(* columns whose value changed.  A handler that changed nothing reads the  *)
(* number without the lock and relies on the constraint uq_entity_version. *)
(*                                                                         *)
(* The deletion of a user removes records and leaves their versions.  The  *)
(* id of a removed record is not given to another one here; UserLifecycle  *)
(* is about that.                                                          *)
(***************************************************************************)
EXTENDS Integers, Sequences, FiniteSets

CONSTANTS
    Requests,      \* Concurrent HTTP requests.
    Failing,       \* The requests that may fail at any point.
    Entities,      \* The versioned records.
    Kind,          \* The entity type of every record.
    Created,       \* The records that exist at first; the others may be added.
    Details,       \* Values of the editable columns that a snapshot holds.
    Asides,        \* Values of an account's balance and of a profile's phone.
    FirstDetail,
    FirstAside,
    MaxVersions,   \* Bound: no request starts once so many versions exist.
    MaxRollbacks,  \* Bound on the rollback requests submitted.
    NoRequest,     \* The write lock is free.
    NoEntity

Kinds == {"ACCOUNT", "BENEFICIARY", "USER_PROFILE"}

ASSUME ConstantsAssumption ==
    /\ Failing \subseteq Requests
    /\ Kind \in [Entities -> Kinds]
    /\ Created \subseteq Entities
    /\ \A e \in Entities \ Created : Kind[e] = "BENEFICIARY"
    /\ FirstDetail \in Details
    /\ FirstAside \in Asides
    /\ MaxVersions \in Nat /\ MaxRollbacks \in Nat
    /\ NoRequest \notin Requests
    /\ NoEntity \notin Entities

VARIABLES
    db,      \* The committed database.
    work,    \* The image the holder of the write lock sees; db when it is free.
    writer,  \* The request that holds the write lock, or NoRequest.
    req      \* Every request: its progress, its input and what it has loaded.

vars == <<db, work, writer, req>>

-----------------------------------------------------------------------------
(* Rows                                                                     *)

\* `detail' stands for the columns every restore writes (a beneficiary's bank
\* data, an account's type, a profile's name), `aside' for the balance of an
\* account or the phone of a profile, `number' for the record's own
\* version_number, which a profile lacks, and `stamp' for updated_at, as the
\* number of UPDATEs of the row so far.
Row == [detail : Details, status : {"active", "inactive"}, aside : Asides,
        number : Nat, stamp : Nat]

FirstRow == [detail |-> FirstDetail, status |-> "active", aside |-> FirstAside,
             number |-> 1, stamp |-> 0]

\* to_dict: a profile's phone and updated_at are not in its snapshot.
Snapshot(e, row) ==
    IF Kind[e] = "USER_PROFILE" THEN [row EXCEPT !.aside = FirstAside, !.stamp = 0] ELSE row

\* `from' is restored_from_version and `reason' the rollback request whose
\* reason the version carries; 0 is NULL.
Version ==
    [number : Nat, type : {"CREATE", "UPDATE", "DELETE", "RESTORE"},
     old : Row, new : Row, from : Nat, reason : Nat]

Rollback == [entity : Entities, target : Nat, status : {"PENDING", "EXECUTED"}]

\* `gone' are the records whose owner was deleted.
Database ==
    [live : [Entities -> Row], hist : [Entities -> Seq(Version)], rollbacks : Seq(Rollback),
     gone : SUBSET Entities]

Exists(e) == db.hist[e] # <<>>

Present(e) == Exists(e) /\ e \notin db.gone

-----------------------------------------------------------------------------
(* Requests                                                                 *)

Operations ==
    {"none", "add", "edit", "deactivate", "post", "toggle", "unlock", "ask", "restore", "approve",
     "remove"}

\* "loading": the rollback or the target version is loaded, the record is not;
\* "loaded": the record is loaded and changed in memory; "numbered": the next
\* number was read without the lock; "flushed": the lock is held, the version
\* is not written; "recorded": all is written.
Phases == {"idle", "loading", "loaded", "numbered", "flushed", "recorded"}

Holding == {"flushed", "recorded"}

\* `was' is the record as loaded, `now' as changed.
Request ==
    [pc : Phases, op : Operations, entity : Entities \cup {NoEntity}, was : Row, now : Row,
     target : Nat, rollback : Nat, number : Nat]

Idle ==
    [pc |-> "idle", op |-> "none", entity |-> NoEntity, was |-> FirstRow, now |-> FirstRow,
     target |-> 0, rollback |-> 0, number |-> 0]

Become(r, state) == req' = [req EXCEPT ![r] = state]

At(r, phase, op) == req[r].pc = phase /\ req[r].op = op

Versions == Cardinality(UNION {{e} \X DOMAIN db.hist[e] : e \in Entities})

MayStart(r) == req[r].pc = "idle" /\ Versions < MaxVersions

-----------------------------------------------------------------------------
Init ==
    /\ db = [live      |-> [e \in Entities |-> FirstRow],
             hist      |-> [e \in Entities |->
                              IF e \in Created
                              THEN <<[number |-> 1, type |-> "CREATE", old |-> FirstRow,
                                      new |-> FirstRow, from |-> 0, reason |-> 0]>>
                              ELSE <<>>],
             rollbacks |-> <<>>,
             gone      |-> {}]
    /\ work = db
    /\ writer = NoRequest
    /\ req = [r \in Requests |-> Idle]

-----------------------------------------------------------------------------
(* Loading a record and changing it in memory                               *)

\* One more than the loaded version_number, which a profile does not have.
Bumped(e, row) == IF Kind[e] = "USER_PROFILE" THEN row ELSE [row EXCEPT !.number = @ + 1]

\* The handler op has loaded e's row and turned it into `new'.
Change(r, op, e, new) ==
    /\ MayStart(r)
    /\ Present(e)
    /\ Become(r, [Idle EXCEPT !.pc = "loaded", !.op = op, !.entity = e,
                              !.was = db.live[e], !.now = new])
    /\ UNCHANGED <<db, work, writer>>

\* update_beneficiary: any of the columns, or none, may get a new value.
EditBeneficiary(r) ==
    \E e \in Entities, x \in Details :
        /\ Kind[e] = "BENEFICIARY"
        /\ Change(r, "edit", e, Bumped(e, [db.live[e] EXCEPT !.detail = x]))

Deactivate(r) ==
    \E e \in Entities :
        /\ Kind[e] = "BENEFICIARY"
        /\ Change(r, "deactivate", e, Bumped(e, [db.live[e] EXCEPT !.status = "inactive"]))

\* update_profile: the name, the email and the phone, each optional.
EditProfile(r) ==
    \E e \in Entities, x \in Details, y \in Asides :
        /\ Kind[e] = "USER_PROFILE"
        /\ Change(r, "edit", e, [db.live[e] EXCEPT !.detail = x, !.aside = y])

\* toggle_user_status
Toggle(r) ==
    \E e \in Entities :
        /\ Kind[e] = "USER_PROFILE"
        /\ Change(r, "toggle", e,
                  [db.live[e] EXCEPT !.status = IF @ = "active" THEN "inactive" ELSE "active"])

\* unlock_user: the columns it clears are in no snapshot.
Unlock(r) ==
    \E e \in Entities :
        /\ Kind[e] = "USER_PROFILE"
        /\ Change(r, "unlock", e, db.live[e])

\* A deposit or a withdrawal, as far as it concerns the account's versions.
Post(r) ==
    \E e \in Entities, y \in Asides :
        /\ Kind[e] = "ACCOUNT"
        /\ y # db.live[e].aside
        /\ Change(r, "post", e, Bumped(e, [db.live[e] EXCEPT !.aside = y]))

-----------------------------------------------------------------------------
(* Restores: the target version first, then the record                      *)

TargetOf(q) == db.hist[q.entity][q.target].new

StartRestore(r) ==
    /\ MayStart(r)
    /\ \E e \in Entities : \E n \in DOMAIN db.hist[e] :
          Become(r, [Idle EXCEPT !.pc = "loading", !.op = "restore", !.entity = e, !.target = n])
    /\ UNCHANGED <<db, work, writer>>

\* approve_rollback goes on only with a PENDING request whose target exists.
StartApprove(r) ==
    /\ MayStart(r)
    /\ \E k \in DOMAIN db.rollbacks :
          LET b == db.rollbacks[k]
          IN  /\ b.status = "PENDING"
              /\ b.target \in DOMAIN db.hist[b.entity]
              /\ Become(r, [Idle EXCEPT !.pc = "loading", !.op = "approve", !.entity = b.entity,
                                        !.target = b.target, !.rollback = k])
    /\ UNCHANGED <<db, work, writer>>

\* Fault: the whole snapshot is applied, columns that no restore may touch included.
WithWholeSnapshot(row, snapshot) == [c \in DOMAIN row |-> snapshot[c]]

\* Fault: the status is not restored.
WithDetailOnly(row, snapshot) == [row EXCEPT !.detail = snapshot.detail]

WithSnapshot(row, snapshot) ==
    [row EXCEPT !.detail = snapshot.detail, !.status = snapshot.status]

\* apply_beneficiary, apply_account and apply_user_profile.
LoadRestored(r) ==
    LET q   == req[r]
        row == db.live[q.entity]
    IN  /\ At(r, "loading", "restore")
        /\ Present(q.entity)
        /\ Become(r, [q EXCEPT !.pc = "loaded", !.was = row,
                               !.now = Bumped(q.entity, WithSnapshot(row, TargetOf(q)))])
        /\ UNCHANGED <<db, work, writer>>

\* get_or_404: the record is gone.
RestoreMissing(r) ==
    /\ At(r, "loading", "restore")
    /\ ~Present(req[r].entity)
    /\ Become(r, Idle)
    /\ UNCHANGED <<db, work, writer>>

\* The approval restores an account but leaves its version_number alone.
LoadApproved(r) ==
    LET q   == req[r]
        row == db.live[q.entity]
    IN  /\ At(r, "loading", "approve")
        /\ Kind[q.entity] = "ACCOUNT"
        /\ Present(q.entity)
        /\ Become(r, [q EXCEPT !.pc = "loaded", !.was = row,
                               !.now = WithSnapshot(row, TargetOf(q))])
        /\ UNCHANGED <<db, work, writer>>

\* A beneficiary has no nickname: the approval dies with an AttributeError.
ApproveCrashes(r) ==
    /\ At(r, "loading", "approve")
    /\ Kind[req[r].entity] = "BENEFICIARY"
    /\ Present(req[r].entity)
    /\ Become(r, Idle)
    /\ UNCHANGED <<db, work, writer>>

-----------------------------------------------------------------------------
(* Flush and record                                                         *)

\* The UPDATE names the columns this session changed, and updated_at.
Merge(row, was, now) ==
    [c \in DOMAIN row |->
        IF c = "stamp" THEN row[c] + 1 ELSE IF now[c] = was[c] THEN row[c] ELSE now[c]]

Changed(q) == q.now # q.was

\* Something is flushed before the number is read: the changed record, or the
\* audit row that unlock_user adds first.
Dirty(q) == Changed(q) \/ q.op = "unlock"

NextNumber(rows) ==
    IF rows = <<>> THEN 1
    ELSE LET last == CHOOSE i \in DOMAIN rows :
                        \A j \in DOMAIN rows : rows[j].number <= rows[i].number
         IN  rows[last].number + 1

Take(r, image, state) ==
    /\ writer = NoRequest
    /\ writer' = r
    /\ work' = image
    /\ Become(r, state)
    /\ UNCHANGED db

\* A deposit, a withdrawal and a direct restore take their snapshot after the
\* flush, which sets updated_at in the loaded object too.
Flushed(q, row) ==
    IF q.op \in {"post", "restore"} THEN [q.now EXCEPT !.stamp = row.stamp] ELSE q.now

\* The UPDATE of a changed record, which finds its row ...
FlushChanged(r) ==
    LET q   == req[r]
        row == Merge(db.live[q.entity], q.was, q.now)
    IN  /\ q.pc = "loaded"
        /\ Changed(q)
        /\ q.entity \notin db.gone
        /\ Take(r, [db EXCEPT !.live[q.entity] = row],
                [q EXCEPT !.pc = "flushed", !.now = Flushed(q, row)])

\* ... or the audit row of unlock_user, with columns that no snapshot holds.
FlushAudit(r) ==
    /\ req[r].pc = "loaded"
    /\ Dirty(req[r]) /\ ~Changed(req[r])
    /\ Take(r, db, [req[r] EXCEPT !.pc = "flushed"])

\* The UPDATE of a row that is gone raises a StaleDataError.  The columns that
\* unlock_user clears may have held something.
Stale(r) ==
    /\ req[r].pc = "loaded"
    /\ Dirty(req[r])
    /\ req[r].entity \in db.gone
    /\ writer = NoRequest
    /\ Become(r, Idle)
    /\ UNCHANGED <<db, work, writer>>

\* add_beneficiary loads nothing; its INSERT gives the new record its id.
Add(r) ==
    \E e \in Entities, x \in Details :
        LET row == [FirstRow EXCEPT !.detail = x]
        IN  /\ MayStart(r)
            /\ ~Exists(e)
            /\ Take(r, [db EXCEPT !.live[e] = row],
                    [Idle EXCEPT !.pc = "flushed", !.op = "add", !.entity = e,
                                 !.was = row, !.now = row])

\* create_rollback_request checks neither the record nor the version: the
\* target may be one that does not exist yet.
Ask(r) ==
    \E e \in Entities : \E n \in 1 .. Len(db.hist[e]) + 1 :
        /\ MayStart(r)
        /\ Len(db.rollbacks) < MaxRollbacks
        /\ Take(r, [db EXCEPT !.rollbacks =
                       Append(@, [entity |-> e, target |-> n, status |-> "PENDING"])],
                [Idle EXCEPT !.pc = "recorded", !.op = "ask", !.entity = e])

\* delete_user_account: the records of one user go, their versions stay.
Remove(r) ==
    \E owned \in SUBSET {e \in Entities : Present(e)} :
        /\ MayStart(r)
        /\ owned # {}
        /\ Take(r, [db EXCEPT !.gone = @ \cup owned],
                [Idle EXCEPT !.pc = "recorded", !.op = "remove"])

\* Fault: a deactivation is recorded under the beneficiary's new status.
TypeFromStatus(q) ==
    CASE q.op = "add"                    -> "CREATE"
      [] q.op = "deactivate"             -> "INACTIVE"
      [] q.op \in {"restore", "approve"} -> "RESTORE"
      [] OTHER                           -> "UPDATE"

TypeOf(q) ==
    CASE q.op = "add"                    -> "CREATE"
      [] q.op = "deactivate"             -> "DELETE"
      [] q.op \in {"restore", "approve"} -> "RESTORE"
      [] OTHER                           -> "UPDATE"

\* Fault: new_data is captured before the change.
VersionTooEarly(q, n) ==
    [number |-> n, type |-> TypeOf(q), old |-> Snapshot(q.entity, q.was),
     new |-> Snapshot(q.entity, q.was), from |-> q.target, reason |-> q.rollback]

\* Fault: old_data is captured after the change.
VersionTooLate(q, n) ==
    [number |-> n, type |-> TypeOf(q), old |-> Snapshot(q.entity, q.now),
     new |-> Snapshot(q.entity, q.now), from |-> q.target, reason |-> q.rollback]

\* restore_version records the target as old_data; the others record the row
\* as they loaded it.  old_data is NULL for a CREATE, which `new' stands for.
VersionOf(q, n) ==
    [number |-> n, type |-> TypeOf(q),
     old    |-> IF q.op = "restore" THEN TargetOf(q) ELSE Snapshot(q.entity, q.was),
     new    |-> Snapshot(q.entity, q.now), from |-> q.target, reason |-> q.rollback]

\* An approval ends by marking its request.
Executed(d, k) == IF k = 0 THEN d ELSE [d EXCEPT !.rollbacks[k].status = "EXECUTED"]

\* create_version, and the mark of an approval.
WithVersion(d, q, n) ==
    Executed([d EXCEPT !.hist[q.entity] = Append(@, VersionOf(q, n))], q.rollback)

Record(r) ==
    LET q == req[r]
    IN  /\ q.pc = "flushed"
        /\ work' = WithVersion(work, q, NextNumber(work.hist[q.entity]))
        /\ Become(r, [q EXCEPT !.pc = "recorded"])
        /\ UNCHANGED <<db, writer>>

\* Nothing is dirty: the query for the number runs without the lock.
ReadNumber(r) ==
    LET q == req[r]
    IN  /\ q.pc = "loaded"
        /\ ~Dirty(q)
        /\ Become(r, [q EXCEPT !.pc = "numbered", !.number = NextNumber(db.hist[q.entity])])
        /\ UNCHANGED <<db, work, writer>>

Used(rows, n) == \E i \in DOMAIN rows : rows[i].number = n

\* Fault: there is no constraint on the numbers of a record's versions.
InsertUnchecked(r) ==
    LET q == req[r]
    IN  /\ q.pc = "numbered"
        /\ Take(r, WithVersion(db, q, q.number), [q EXCEPT !.pc = "recorded"])

\* uq_entity_version accepts the number ...
Insert(r) ==
    LET q == req[r]
    IN  /\ q.pc = "numbered"
        /\ ~Used(db.hist[q.entity], q.number)
        /\ Take(r, WithVersion(db, q, q.number), [q EXCEPT !.pc = "recorded"])

\* ... or raises an IntegrityError.
Conflict(r) ==
    LET q == req[r]
    IN  /\ q.pc = "numbered"
        /\ writer = NoRequest
        /\ Used(db.hist[q.entity], q.number)
        /\ Become(r, Idle)
        /\ UNCHANGED <<db, work, writer>>

\* Fault: accounts fall through to the end of the handler as well.
ApproveAnyOnly(r) ==
    LET q == req[r]
    IN  /\ At(r, "loading", "approve")
        /\ Kind[q.entity] # "BENEFICIARY" \/ ~Present(q.entity)
        /\ Take(r, Executed(db, q.rollback), [q EXCEPT !.pc = "recorded"])

\* The approval of a profile, or of a record that is gone, restores nothing:
\* the request is only marked.
ApproveOnly(r) ==
    LET q == req[r]
    IN  /\ At(r, "loading", "approve")
        /\ Kind[q.entity] = "USER_PROFILE" \/ ~Present(q.entity)
        /\ Take(r, Executed(db, q.rollback), [q EXCEPT !.pc = "recorded"])

Commit(r) ==
    /\ req[r].pc = "recorded"
    /\ db' = work
    /\ writer' = NoRequest
    /\ Become(r, Idle)
    /\ UNCHANGED work

\* "database is locked", after waiting for the busy timeout.
Busy(r) ==
    /\ req[r].pc \notin Holding \cup {"idle"}
    /\ writer \notin {NoRequest, r}
    /\ Become(r, Idle)
    /\ UNCHANGED <<db, work, writer>>

\* An exception, a killed worker or a dropped connection.
Fail(r) ==
    /\ r \in Failing
    /\ req[r].pc # "idle"
    /\ Become(r, Idle)
    /\ IF writer = r
       THEN writer' = NoRequest /\ work' = db
       ELSE UNCHANGED <<writer, work>>
    /\ UNCHANGED db

-----------------------------------------------------------------------------
Start(r) ==
    \/ EditBeneficiary(r) \/ Deactivate(r) \/ EditProfile(r) \/ Toggle(r) \/ Unlock(r)
    \/ Post(r) \/ StartRestore(r) \/ StartApprove(r) \/ Add(r) \/ Ask(r)
    \/ Remove(r)

Step(r) ==
    \/ LoadRestored(r) \/ RestoreMissing(r) \/ LoadApproved(r) \/ ApproveCrashes(r)
    \/ ApproveOnly(r) \/ FlushChanged(r) \/ FlushAudit(r) \/ Stale(r)
    \/ Record(r) \/ ReadNumber(r) \/ Insert(r) \/ Conflict(r)
    \/ Commit(r) \/ Busy(r)

\* The bound is reached and nothing more arrives.
Rest ==
    /\ \A r \in Requests : req[r].pc = "idle"
    /\ Versions >= MaxVersions
    /\ UNCHANGED vars

Next == Rest \/ \E r \in Requests : Start(r) \/ Step(r) \/ Fail(r)

Spec == Init /\ [][Next]_vars
-----------------------------------------------------------------------------
(* Properties of every execution, however the requests interleave           *)

\* Every variable has its type, in the committed database and in the image of
\* the write transaction.
TypeOK ==
    /\ db \in Database
    /\ work \in Database
    /\ writer \in Requests \cup {NoRequest}
    /\ req \in [Requests -> Request]

Dense(d) == \A e \in Entities : \A i \in DOMAIN d.hist[e] : d.hist[e][i].number = i

\* The versions of a record are numbered 1, 2, 3, ..., also when a handler with
\* nothing to flush reads the number without the lock: uq_entity_version then
\* refuses the loser (_next_version_number).
VersionsDense == Dense(db)

\* A restore is a new version: it names an earlier one and holds that one's
\* editable columns, whatever other requests change meanwhile ("Forward-Only
\* Rollbacks" of the README; restore_version, approve_rollback).
RestoresAreForward ==
    \A e \in Entities : \A i \in DOMAIN db.hist[e] :
        LET v == db.hist[e][i]
        IN  v.type = "RESTORE" =>
                /\ v.from \in 1 .. v.number - 1
                /\ v.new.detail = db.hist[e][v.from].new.detail
                /\ v.new.status = db.hist[e][v.from].new.status

\* Restoring a record never moves money: a restore that overlaps a deposit
\* leaves the balance that the deposit wrote, although the restored object
\* holds the older one (the UPDATE names only changed columns).
RestoreKeepsAside ==
    [][\A r \in Requests :
          Commit(r) /\ req[r].op \in {"restore", "approve"} =>
              \A e \in Entities : db'.live[e].aside = db.live[e].aside]_vars

\* A RESTORE version that an approval wrote and the mark EXECUTED of its
\* request succeed or fail together, wherever the approval fails: the version
\* never comes without the mark, and the mark comes without the version only
\* when the record is gone (approve_rollback; a profile's request is marked
\* without a version at any time, see ExecutedRestores).
RollbacksHonoured ==
    \A k \in DOMAIN db.rollbacks :
        LET b       == db.rollbacks[k]
            written == \E i \in DOMAIN db.hist[b.entity] :
                          /\ db.hist[b.entity][i].type = "RESTORE"
                          /\ db.hist[b.entity][i].from = b.target
                          /\ db.hist[b.entity][i].reason = k
        IN  Kind[b.entity] # "USER_PROFILE" =>
                /\ written => b.status = "EXECUTED"
                /\ b.status = "EXECUTED" => written \/ b.entity \in db.gone

-----------------------------------------------------------------------------
(* Properties of executions in which requests do not overlap                *)

Last(rows) == rows[Len(rows)]

IsDirectRestore(v) == v.type = "RESTORE" /\ v.reason = 0

\* new_data is captured before the UPDATE sets updated_at: by the edit and the
\* deactivation of a beneficiary and by an approval that changes the account.
CapturedEarly(e, v) ==
    \/ Kind[e] = "BENEFICIARY" /\ v.type \in {"UPDATE", "DELETE"}
    \/ v.reason # 0 /\ v.new # v.old

\* The snapshot of e as version v left it.
Left(e, v) == IF CapturedEarly(e, v) THEN [v.new EXCEPT !.stamp = @ + 1] ELSE v.new

\* The newest version of a record shows the record as it is, as far as a
\* snapshot does, but for updated_at where new_data is captured too early
\* (create_version's callers; step 4 of the README's workflow).
HeadIsLive ==
    \A e \in Entities :
        Present(e) => Left(e, Last(db.hist[e])) = Snapshot(e, db.live[e])

\* old_data of a version is the state in which the version before it left the
\* record, except for a direct restore (create_version's callers,
\* approve_rollback).
ContiguousUnlessRestored ==
    \A e \in Entities : \A i \in 2 .. Len(db.hist[e]) :
        \/ IsDirectRestore(db.hist[e][i])
        \/ db.hist[e][i].old = Left(e, db.hist[e][i - 1])

\* A beneficiary's version_number counts its versions (add, update, deactivate
\* and direct restore).
BeneficiaryNumberCounts ==
    \A e \in Entities :
        Kind[e] = "BENEFICIARY" /\ Present(e) => db.live[e].number = Len(db.hist[e])

\* A rollback request is executed at most once ("invalid or already
\* processed", approve_rollback).
ExecutedOnce ==
    \A e \in Entities : \A i, j \in DOMAIN db.hist[e] :
        db.hist[e][i].reason # 0 /\ db.hist[e][i].reason = db.hist[e][j].reason => i = j

-----------------------------------------------------------------------------
(* What the documentation says, and the code does not do                    *)

\* Step 1 of the README's workflow: "Fetch current live state (old_data)".
Contiguous ==
    \A e \in Entities : \A i \in 2 .. Len(db.hist[e]) :
        db.hist[e][i].old = Left(e, db.hist[e][i - 1])

\* Step 4 of the README's workflow: "Save snapshot in EntityVersion table", of
\* the state that the update left.
HeadIsExact ==
    \A e \in Entities :
        Present(e) => Last(db.hist[e]).new = Snapshot(e, db.live[e])

\* Step 3 of the README's workflow: "Increment version_number".
NumberCounts ==
    \A e \in Entities :
        Kind[e] # "USER_PROFILE" /\ Present(e) => db.live[e].number = Len(db.hist[e])

\* FR4: every profile change produces a new version with old and new state, so
\* an UPDATE that changed the record shows a difference.
ChangesShow ==
    [][\A e \in Entities :
          Exists(e) /\ db'.live[e] # db.live[e] /\ Last(db'.hist[e]).type = "UPDATE" =>
              Last(db'.hist[e]).old # Last(db'.hist[e]).new]_vars

\* Step 5 of the README's rollback workflow: an executed request created a
\* RESTORE version.
ExecutedRestores ==
    \A k \in DOMAIN db.rollbacks :
        db.rollbacks[k].status = "EXECUTED" =>
            \E i \in DOMAIN db.hist[db.rollbacks[k].entity] :
                db.hist[db.rollbacks[k].entity][i].reason = k

\* Demo 2 of the README: approving the rollback request of a beneficiary, with
\* no other request about and no failure, executes it.
ApprovalExecutes ==
    [][\A r \in Requests :
          req[r].op = "approve" /\ req'[r].pc = "idle" =>
              db'.rollbacks[req[r].rollback].status = "EXECUTED"]_vars
=============================================================================
