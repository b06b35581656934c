# A TLA+ model of BankVCS

BankVCS is a Flask application over SQLite: customers hold accounts, move money
and keep beneficiaries; every change is recorded as a numbered version with the
state before and after it, and as a row of a hash-chained audit log; staff can
restore old versions, directly or by a request that an administrator approves.

The interesting question is what happens to these promises when requests
overlap or fail half way. The development server runs one thread per request
and the deployment several processes, all on one database, and the code takes
no lock of its own. The modules here model the operations that change shared
state, at the granularity at which requests can interleave, and the figures that
pages compute from it; TLC checks them on small instances, and for every module
with a state of its own the central facts are proved for all instances.

## 1. How a request runs

All state-changing modules share this picture of SQLAlchemy over SQLite, which
is external to the repository and modelled from how the code uses it.

1. **Load.** A handler's SELECTs run outside any transaction (the sqlite3 driver
   begins one only before a DML statement) and read what is committed at that
   moment. The session keeps the loaded objects; a later query of the same row
   returns the same object with the same values. Everything the handler
   computes, it computes from this snapshot.
2. **Flush.** The first INSERT or UPDATE, sent by `flush()` or by the autoflush
   before a query, begins the write transaction and takes SQLite's only write
   lock. It fails with "database is locked" when another request holds the lock
   beyond the 5 s busy timeout. An UPDATE names the columns whose value differs
   from the loaded one, and nothing else.
3. **Record.** Queries made now see the request's own rows, and nobody else can
   write. `create_version` numbers its row by such a query; `log_action` reads
   the newest audit row by such a query. When a handler has nothing to flush,
   the same queries run *before* the lock is taken, which is a different case
   and modelled as such.
4. **Commit**, or an exception or a killed worker, which discards everything.

Nobody sees uncommitted rows, so steps that touch only the image of the lock's
holder are merged where no other request can tell. Values in the models are
what is committed (`db`, `store`), what the holder of the lock sees (`work`),
who holds it (`writer`), and each request's progress and snapshot (`req`).

## 2. Inventory

| Part | State | Operations | Correct when | Module |
|---|---|---|---|---|
| Banking service (`services/banking_service.py`, handlers in `routes/api.py`) | accounts, transactions, account versions, audit rows, notifications | `create_account`, `deposit`, `withdraw`, `transfer`, `reverse_transaction` | balances follow from the rows; rows are append-only; all records of an operation commit together; no overdraft; a transaction is reversed once, by its opposite | `Banking`, `Ledger` |
| Version service (`services/version_service.py`) | `entity_versions` | `create_version`, `restore_version`, reads, `diff_versions` | numbers are dense; the newest version is the live record; `old_data` chains; restores only go forward | `VersionControl`, `Banking`, `UserLifecycle` |
| Beneficiaries (`services/beneficiary_service.py`) | `beneficiaries` | add, update, deactivate | one version per change | `VersionControl` |
| Maker-checker (`routes/api_v1.py`, `routes/admin.py`) | `rollback_requests` | request, approve | an approved request is executed once and with its version | `VersionControl` |
| Audit log (`services/audit_service.py`) | `audit_logs` | `log_action`, `verify_audit_integrity` | verification fails only after tampering | `AuditChain` |
| Login and lockout (`services/auth_service.py`, `models/user.py`) | `failed_login_attempts`, `locked_until`, `status` | `authenticate`, unlock, toggle status | the n-th wrong password in a row locks, and nothing less does | `Lockout` |
| User lifecycle (`auth_service`, `routes/customer.py`, `routes/api.py`) | users, accounts and all rows that name them | register, delete, default account, open account | nobody else's rows change; names are unique; every customer has an account; a new holder of an id inherits nothing | `UserLifecycle` |
| Statements, analytics, exports (`services/statement_service.py`, `routes/customer.py`, `routes/api.py`) | none; functions of the rows | `_calculate_statement_data`, `generate_statement_data`, `epassbook`, `dashboard`, `get_analytics`, listings | opening + credits - debits = closing; the pages agree with each other | `Statement` |
| Settings and staff keys (`models/system_setting.py`, `routes/admin.py`, `routes/auth.py`) | key rows, configuration in each worker's memory | settings form, key rotation, staff registration | a change applies as a whole; staff register with a key in force | `Settings` |
| Risk engine, transfer limits, OTP, login sessions | rows that no handler creates | scoring, limit tests | - | not wired into the application |
| Notifications | `notifications` | send, mark read | sent with the operation that causes them | counted in `Banking`, deleted in `UserLifecycle` |
| Templates, seed data, second copy of the v1 API | - | read only, or set-up | - | not modelled |

The parts meet in the database alone. Handlers call the services; the services
call `create_version`, which calls `log_action`; none of them commits before
the end. The exceptions are `SystemSetting.set`, which commits by itself, and
the system settings, which live in the memory of the worker process that served
the form. So apart from these each state-changing request is one
write transaction, and parts interact through the write lock and through rows
that one request reads and another changes. The hard behaviours are: a snapshot
older than the write transaction, a check on a stale row, a number or a hash
taken from a query outside the lock, a failure between flush and commit, a
counter kept twice, an id that SQLite gives again after a deletion, and a
configuration per process. `PROJECT.json` lists each at its line with the properties
that guard against it, or why none does yet.

## 3. Modules

### Banking, Ledger, BankingProofs, BankingRecordProofs

`Banking` models the five financial operations with the handlers that call
them. One action per load (`StartSingle`, `StartTransfer`, `LoadDestination`,
`StartReverse`, `LoadReversed`), the refusals (`Reject`, `RejectReversed`), one
flush per operation (`Deposit`, `Withdraw`, `Transfer`, `Reverse`, `Open`), the
records after it (`RecordOpen`, `RecordSingle`, `RecordTransfer`,
`RecordReverse`), and `Commit`, `Busy`, `Fail`. `Start...` enumerates all
inputs, invalid amounts and transfers to the same account included.

An account is its balance, available balance and version number. The currency,
the account number, the reference number and descriptions are left out: no
property depends on them. Amounts are integers (cents). The signed `change` of
a transaction is not a column; it records the effect of the row so that
properties can speak of it. The audit log is a count here and a chain in
`AuditChain`.

`Ledger` is what the operations promise, with no requests: a balance per
account and a journal, changed by `Post`, `Move` and `Correct`, where a
correction is equal and opposite to its entry. `Banking` is related to it under
`balance <- committed balances`, `journal <- committed rows`. It does not
implement the promise, `Ledger!Spec` (`LedgerSpec`), even when requests do not
overlap, because a debit that is no withdrawal is "corrected" by another debit
(second finding). What it does implement then is `Ledger!SpecAsBuilt`
(`LedgerAsBuilt`), which has this one deviation written down as `Repeat` and is
the promise otherwise: a correction of anything else has the opposite sign, no
entry is corrected twice, and only a correction overdraws. When requests overlap
it implements neither, which is the first finding.

### Statement, StatementProofs

`Statement` extends `Banking` by the pages that compute figures from its rows.
It changes nothing: `OpenPage` loads an account, and the transactions are read
later, when a request may have committed in between (`page.rows` says how many
rows existed at the load). The figures are functions of the rows:

- the statement of `routes/customer.py` for a start date, an end date, a search
  and a kind of row (`Records`, `OpeningBalance`), and the passbook, which is the
  statement over everything;
- the statement of `statement_service.py`, for dates and a type of transaction
  (`ServiceRecords`, `ServiceOpening`); no handler calls it;
- the dashboard's totals of the last thirty days (`MonthlySent`,
  `MonthlyReceived`) and the analytics' totals (`Income`, `Expenses`);
- the listing of the API with its filters and its limit (`Listing`), and the
  export (`Export`).

Rows are in the order of their dates, so a date is a row number, and the thirty
days are the rows from some row `since` on. `Filters` holds what statements are
asked for; a search is the set of rows it finds, which may be any. `ListLimit`
is the 500 of the listing. The dashboard's list of its eight newest rows, the
category and month breakdowns of the analytics and the pages of the staff show
rows without computing a figure from them and are left out; the floating point
of `statement_service.py` is exact here.

Where a figure is not what its label says, the property states by how much.
`OpeningOff` says of the opening balance which terms separate it from the balance
before the first row: the own rows that an end date, the search or the kind
leaves out stay in it (`left`), money that came in by a transfer or by the
correction of a withdrawal is in it twice (`misread`), the other party's row of
a transfer counts as a credit (`mirrors`), and rows committed after the account
was loaded are taken off a balance they never changed (`late`). `PassbookEnds`
needs no such term, since it compares with what the account holds when the rows
are read; its last conjunct says when that differs from the balance the page
shows at its head. The analytics' net change (`AnalyticsOff`) is off by twice the
incoming transfers. Any other deviation would refute them.

### VersionControl, VersionControlProofs

Versions and live rows of the three kinds of entity that restoring knows: an
account, a beneficiary and a user profile. A row is its versioned columns and
`updated_at` (`Row`, with `stamp` for the latter); `Snapshot` is what `to_dict`
records of it, which for a profile is neither phone nor `updated_at`. Edits,
status changes, a posting on the account, direct restores and approvals load
first and then follow flush, record, commit. `FlushChanged` merges the changed
columns into what is committed by then (`Merge`) and sets `updated_at`. A handler
whose change leaves the row as it is has nothing to flush: it takes the path
`ReadNumber`, `Insert` or `Conflict`, where the version number is read outside the
lock and the unique constraint `uq_entity_version` is the only guard;
`unlock_user` flushes its audit row first (`FlushAudit`).

`Flushed` says who sees the new `updated_at`: deposits, withdrawals and direct
restores flush before they capture `new_data`. The edits of a beneficiary and an
approval capture it before, so the version they write is one UPDATE old in that
column, even when nothing overlaps. `Left(e, v)` is the state in which version
`v` left its record, with this one correction (`CapturedEarly`), and the two
serial properties are stated with it; `HeadIsExact` is what they would say
without.

Approval of a profile's rollback has no branch in the code and only marks the
request (`ApproveOnly`); that of a beneficiary's raises on a missing attribute
(`ApproveCrashes`). `Remove` deletes the records of a user and leaves their
versions, so a request may find its record gone: a direct restore answers 404
(`RestoreMissing`), an UPDATE raises (`Stale`), and an approval skips the restore
and marks the request all the same (`ApproveOnly` again). Here an id is not given
again after a deletion; `UserLifecycle` is about that.

### AuditChain, AuditChainProofs

The audit log as a sequence of rows with `prev` and `hash`; the hash is the
tuple of what SHA-256 covers, which makes it collision free. `PrepareBare` and
`InsertPrepared` are handlers that log with nothing to flush (logout, the 403
handler, refused logins, the verification endpoint); `FlushChange` and
`AppendRow` are handlers that flushed before; `PrepareDelete`, `InsertPrepared`
and `BlankUser` are `delete_user_account`, which sets `user_id` to NULL in rows
already hashed. `Valid` is `verify_audit_integrity`. Rows without hashes, which
the verification skips, do not occur: `log_action` always fills them.

### Lockout, LockoutProofs

One user's row and the requests that change it: `EnterWrongPassword`,
`EnterRightPassword`, an administrator's `Unlock` and `Toggle`, each a load
with its checks and then `Finish` or `GiveUp`. The time between is long: the
password hash is slow on purpose. `Expire` is the clock passing `locked_until`.
`failures` counts the wrong passwords since the last login or unlock, and `alone`
says that no request has started during another one. `streak` counts like
`failures`, except that a login or an unlock ends a streak only if it clears the
row and no wrong password is being checked at that moment: a login that is
failing while the counter is reset writes back the count it loaded. The three
serve the properties. A refusal of a locked or inactive user writes an
audit row only and is one of `AuditChain`'s bare actions. Flask-Login's own test
of `is_active` after `authenticate` is outside.

### UserLifecycle, UserLifecycleProofs

Users, their accounts and the rows that name them, from `register_user` to
`delete_user_account`. A request looks rows up (`StartRegister`, `StartPage`,
`LookUp`, `StartTransfer`, ...) and writes later in one step, since what it
writes between its first flush and its commit is seen by nobody else. An INSERT
passes the UNIQUE constraints or conflicts (`Register`, `RegisterConflict`); an
UPDATE finds its row or the session raises (`Transfer`, `TransferStale`).

A new row gets the highest id of its table plus one (`NextId`), so the id of a
deleted row returns; version rows outlive their entity and continue its numbers.
`life` tells one holder of an id from the next and is in no table. A version has
the life of the account whose snapshot it holds, so a transfer writes the lives
it loaded (`srcLife`, `dstLife`), whoever holds the id by then. SQLite
enforces no foreign key here, so an account can be created for a user who is
being deleted. A user with a rollback request cannot be deleted: the ORM clears
`requested_by_id`, which is NOT NULL, and everything is rolled back
(`DeleteRefused`).

### Settings, SettingsProofs

The settings form assigns five fields of one worker's configuration one by one,
and the parsing of three of them may raise (`StartSettings`, `Assign`,
`SaveSettings`). The rotation of the two staff keys looks each row up and stores
it with a commit of its own, or loses the failure (`AskRow`, `Store`,
`Swallow`, `SaveKeys`). A registration of staff compares what the applicant
offers with the key in force, or with the default when the database fails
(`Expect`, `ExpectBlindly`, `Admit`). `Restart` replaces a worker, which starts
with `config.py` and loses its requests. A value is the number of the form it
came from, and 0 is the default of `config.py`.

### MCBanking, MCStatement, MCVersionControl, MCAuditChain, MCLockout, MCUserLifecycle, MCSettings

Sets of model values, owners and symmetry for the configurations.

## 4. Runs

Deadlock checking is on everywhere. When a bound is reached, `Banking`,
`AuditChain`, `VersionControl` and `UserLifecycle` rest in a stuttering action
`Rest`, so a deadlock that TLC reports would be one of the program's. `Lockout`
and `Settings` need none, because a status can always be changed and a worker
always be restarted.

| Run | Instance | Shows |
|---|---|---|
| `banking_concurrent` | 2 requests, 2 accounts, transactions up to `MaxRows` 3, amounts 0 and 1 | typing, dense versions, records commit together, newest version and newest row agree with the balance, overdraft only by reversal, reversals linked to what they reverse, append-only rows; with fairness, every request is answered |
| `banking_serial` | 1 request and 1 page, 3 accounts of 2 users, `MaxRows` 4, amounts 1 and 2, 5 filters, `ListLimit` 3; 382 582 states | contiguous history, the `Ledger` as built implemented; how far the opening balance and the analytics are off, where a passbook ends, and that the two statements, the dashboard, the listing and the export agree on the rows |
| `banking_reversal_sign` | 1 request, 2 accounts, `MaxRows` 4, amounts 0 to 2 | **violated**: the `Ledger` as promised is not implemented, a reversal of a reversal debits again |
| `banking_lost_update` | 2 requests, `MaxRows` 2 | **violated**: a stale balance overwrites a commit |
| `version_concurrent` | 2 requests on three entities, deletions included, 4 versions in all | typing, dense numbers also on the unlocked path, forward-only restores, approvals that commit as a whole and mark without a version only when the record is gone, restores that never move a balance |
| `version_serial` | 1 request, 5 versions | newest version is the live record and `old_data` chains except at direct restores, both up to an `updated_at` captured too early |
| `audit_causes` | 2 workers, 1 deletable user of 2, 4 rows | what a broken link or a wrong hash can come from |
| `audit_fork` | 2 workers, 3 rows | **violated**: appends outside the lock fork the chain |
| `lockout_concurrent` | 3 requests, limit 3, streaks up to 4; about 1.5 million states | a lock takes the limit of wrong passwords in a row; while requests do not overlap the counter is exact and the limit locks, also after an expiry |
| `users_lifecycle` | 2 requests, 2 names, 5 versions, 1 rollback request; about 1.6 million states | unique names, no transaction without its accounts, no customer without an account, histories of successive holders of an id are one dense sequence in which each begins with its own CREATE, rows leave only with a party; while requests do not overlap, the holders' histories do not mix and nothing outlives its user but history |
| `users_never_deleted` | the same | **violated**: deleting a user deletes completed transactions |
| `settings` | 2 requests, 2 workers, 2 forms; about 2.4 million states | staff admitted by a key in force; while requests do not overlap, forms apply in layers, a saved form is in force as a whole, a rotation takes hold |

These are the runs of `PROJECT.json`. More configurations ask further questions
of the same modules and are run by hand, `tlc -config X.cfg MCModule.tla`. These
have no counterexample:

- `Audit_locked`, `Audit_serial`: the chain is valid when every row is chained
  under the lock, or when requests do not overlap;
- `Banking_history` (of `MCStatement`): running balances, at most one reversal
  per transaction, typing of the page;
- `Version_counters`: a beneficiary's number counts its versions, a rollback
  executes once;
- `Users_default`: one default account per customer while requests do not
  overlap.

And each of these has one, of at most fifteen states: `Banking_reversed_twice`,
`Audit_deletion`, `Version_stale_head`, `Version_early_stamp`,
`Version_approved_twice`, `Version_restore_old_data`, `Version_approve_number`,
`Version_hidden_phone`, `Version_profile_rollback`, `Version_payee_rollback`,
`Lockout_lost_count`, `Lockout_stale_lock`, `Users_mixed`, `Users_orphan`.

Runs in which requests do not overlap separate what the code does wrong by
itself from what it does wrong under concurrency: a property of a serial run
that a concurrent one refutes is a race, and nothing else.

`Lockout`, `UserLifecycle` and `Settings` ask both kinds of question in one run:
their serial properties are conditioned on `alone`. A serial property says
nothing about the races: where the code loses one, the configuration that shows
it is named in section 5 and with the hazard in `PROJECT.json`.

**Bounds.** `MaxRows`, `MaxVersions`, `MaxRollbacks`, `MaxFailures`, `MaxAsks`
and `MaxForms` stop new requests, never one that has started. In `UserLifecycle`
transfers, rollback requests and deletions may still start when `MaxVersions` is
reached, so that everything that was built can be torn down. Two requests are
enough for every race found, since each is between one reader and one writer;
the third request of `lockout_concurrent` lets an unlock fall between two
failing logins. Three transactions allow a deposit, a debit on it and its
reversal, or a transfer (two rows) and a reversal; four allow a transfer with a
deposit before it and a reversal after it. Amounts include one that a balance
may and may not cover, and zero, for all the values that validation refuses, in
the concurrent run. Five filters cover all rows and a past
range that may begin or end within a transfer, each with a kind and without, and
a search that finds one row of a transfer without the other; a `ListLimit` of 3
is less than the rows a customer can have. Four versions allow a change, a change back and a restore with another request between; five
add an approval. A limit of three failures leaves room for an attempt below it,
at it and above it, and streaks of four for the attempt after an expiry. Five
versions let two customers register (two versions each) and a third user take a
freed id. Two forms are one and its successor at either worker, or one
half-applied under a complete one.

**Fairness** is weak fairness of each request's `Step`, stated in `Banking` (and
so in `Statement`) and used by `RequestsFinish` of `banking_concurrent` alone.
The server's threads keep running once a request has arrived (`app.run`, one
thread per request), and a flush that finds the lock taken ends in an exception
after the busy timeout, which is `Busy`. Nothing is assumed of `Start` or
`Fail`: no request must arrive, and no failure must happen. A holder of the lock
can always proceed to its commit, which is what the run establishes.

## 5. Findings

Items 1 to 11 have a configuration with a counterexample; `PROJECT.json` quotes
the lines of those that are listed runs: items 1 and 2, the fork in 8, and 9.
Items 12 and 13 are what properties that hold say of the code. Items 1, 3, 4, 10
and 11, the stale head of 5 and the fork of 8 need two overlapping requests; the
others happen to one at a time.

1. **Lost update.** Balances and `old_data` come from a snapshot older than the
   write transaction. Of two overlapping operations on an account the later one
   overwrites the earlier, and its version claims a predecessor that was not.
   What survives is also checked: versions and balances still agree at the head,
   and no race overdraws, because the balance that is written is the one that
   was checked.
2. **Reversal sign.** Only a withdrawal is reversed by a credit; the sending leg
   of a transfer, and a reversal that debited, are reversed by another debit,
   where the docstring promises an equal and opposite transaction
   (`banking_reversal_sign`).
3. **Reversed twice, approved twice.** A status is tested on a row loaded before
   the lock, so two overlapping requests both act on it
   (`Banking_reversed_twice`, `Version_approved_twice`).
4. **Lost count, stale lock.** Overlapping failed logins count once, so the one
   that should lock the account does not (`Lockout_lost_count`). And a login that
   is failing while an administrator unlocks the account, or its owner logs in,
   writes the old count back, and may lock at once (`Lockout_stale_lock`).
5. **Stale head.** Two edits of different columns of a beneficiary both survive
   in the row; the newest version shows one of them undone
   (`Version_stale_head`). Even alone, `new_data` of an edit has the `updated_at`
   before it (`Version_early_stamp`).
6. **Restores.** A direct restore records the target snapshot as `old_data`
   (`Version_restore_old_data`); an approved one leaves the account's
   `version_number` behind (`Version_approve_number`); that of a profile is marked
   executed and restores nothing (`Version_profile_rollback`), and so is that of a
   record that is gone, as `RollbacksHonoured` states; that of a beneficiary
   always raises (`Version_payee_rollback`).
7. **Hidden phone.** A profile's snapshot omits the phone number
   (`Version_hidden_phone`).
8. **Audit chain.** Appends outside the lock fork the chain (`audit_fork`), and
   deleting a user invalidates hashes (`Audit_deletion`); the verification reports
   tampering in both cases.
9. **Deleted transactions.** Deleting a user deletes completed transactions, the
   other customer's row of every transfer included, whose balance and versions
   stay as they are (`users_never_deleted`).
10. **Mixed histories.** A transfer that was loaded before an account was deleted
    and is written after its id was given again records the old holder's
    snapshot in the new holder's history (`Users_mixed`).
11. **Orphan account.** A page that looks up a customer's accounts during the
    customer's deletion creates one for nobody, which the next holder of the id
    inherits (`Users_orphan`).
12. **Statements.** Opening balances and the analytics' net change are off by
    the terms that `OpeningOff` and `AnalyticsOff` name.
13. **Settings.** A form that fails half way keeps its first fields; other
    workers never hear of a change, and a restart forgets it; a key whose store
    failed is reported as changed.

## 6. Proofs

### Banking

`BankingProofs` proves, for every set of requests, accounts, users and amounts
and every bound, from `ConstantsAssumption` alone (finitely many accounts,
integer amounts, `NoRequest` and `NoAccount` distinct from the real ones):

| Theorem | Property |
|---|---|
| `TypeCorrect` | `TypeOK` |
| `VersionNumbersDense` | `VersionsDense` |
| `RowsAppendOnly` | `AppendOnly` |
| `OverdraftBounded` | `OverdraftOnlyByReversal` |

**The argument.** None of these is inductive by itself, because a commit
replaces the database by the write image. `IInv` says what that image is: while
nobody holds the lock it is the database (`LockInv`), a request is past its
flush exactly when it holds the lock (`LockInv`), the rows a request refers to
exist (`Placed`), the image extends the database row by row (`Grows`), and
versions are numbered densely in both (`Dense`). Flushes extend the image by
rows computed from a snapshot (`ImageGrows`); records append versions, numbered
by `NextVersionNumberDense`, a lemma about the query for the highest number;
commits and failures make the two images equal again.

`OverdraftBounded` needs a second invariant. `Covered(s, d, a)` says that a
snapshot `s` of account `a` has equal balances and is negative only if a
reversal of `a` is in `d`. `OverdraftInv` claims it of committed rows, of the
write image and of every request's snapshots. The stale snapshots are what makes
the property worth proving: it holds although updates are lost, since rows are
never removed (`Grows`), a snapshot once covered stays covered, and a debit is
tested against the very snapshot it is subtracted from.

It also proves `HeadShowsAccount`, which is `HeadIsLive`: `HeadInv` says of the
database and of the write image that the newest version of an account shows the
account and its newest transaction ends at its balance (`RowsShow`), with one
exception, the accounts whose rows the lock's holder has flushed and whose
versions it has not recorded yet. It survives stale snapshots because a flush
writes row, balance and version from the same one.

`BankingRecordProofs` is about what the rows of one operation have to do with
each other:

| Theorem | Property | Requests |
|---|---|---|
| `OperationsAtomic` | `RecordsCommitTogether` | any number |
| `ReversedRowsLinked` | `ReversalLinked` | any number |
| `HistoriesContiguous` | `HistoryContiguous` | `OneAtATime` |
| `ImplementsLedger` | `LedgerAsBuilt` | `OneAtATime` |

`RecordsCommitTogether` counts rows, and between the flush and the recording of
an operation the counts do not add up. `CountInv` says by how much:
`Behind(work, S, n)` means that the write image lacks one version for each
account of `S` and `n` audit rows. A flush makes `S` the accounts it touched, the
recording empties it, and only a recorded image can be committed. For a transfer
this needs that its two accounts differ, which the
service tests before it writes.
`LinkInv` says of both images that a transaction is marked exactly when a row
refers to it, and of a reversal in flight that it works on the account of the
row it reverses; a stale status makes two such rows, never none
(`BooksInvariant` puts the two together).

The other two theorems fail when requests overlap (section 5, item 1), so they
assume `OneAtATime`: there is at most one request in progress, for any number of
accounts, users, amounts and rows. Their invariant `SerialInv` says that what the
request has loaded is still committed (`Current`), that histories chain and are
counted by `version_number`, and what the write image has become since the flush
(`Effect`): a posting, a move between two accounts, a correction, or no change of
balances and rows. With that, `LedgerStep` takes the actions one by one: `Commit`
is the `Post`, `Move`, `Correct` or `Repeat` that `Effect` names, and every other
action stutters. The refinement of the `Ledger` as promised is not provable: it is
what `banking_reversal_sign` refutes.

### Statement

`StatementProofs` proves

| Theorem | Property | Requests |
|---|---|---|
| `StatementTypes` | `STypeOK` | any number |
| `PassbookCloses` | `PassbookEnds` | any number |
| `PagesConsistent` | `PagesAgree` | any number |
| `AnalyticsOffByIncoming` | `AnalyticsOff` | `OneAtATime` |
| `OpeningOffByMirrors` | `OpeningOff` | `OneAtATime` |

**Sums.** A figure is a fold over a set of rows, which takes the elements in the
order of CHOOSE. `Total(w, S)` is that fold for a function `w`, and the first
part of the module shows that it is a sum: it does not depend on the order
(`TotalWithout`), it adds over disjoint sets (`TotalUnion`), along a bijection
(`TotalMapped`) and over accounts (`TotalOfTotals`). Each of these is proved by
a smallest exception: if the claim fails for some subset of a finite set, it
fails for one whose proper subsets satisfy it (`SmallestSet`, from the
well-foundedness of strict inclusion), and one step of the recursion contradicts
that. `AmountTotal` and its companions connect the figures in `Statement` with
`Total`.

**Rows.** `ShapeInv` says of both images that a row stands for itself
(`SingleEntry`) or is one of the two rows of a transfer, which are next to each
other with the parties and the sign exchanged (`Mated`). So every transfer row
has a mate (`MateRow`), and what one party's row shows the other's shows too.
`PageInv` says of a page in progress that its account is open and that the newest
of the account's rows that the page counted carries the balance the page has.
`HeadInv` says the same of all rows and the live balance, whatever commits while
the page is computed. Between the two lies `PassbookEnds`: the ending is the
account's newest row (`PartnerRow` finds it when the last line is its mate), and if
its balance is not the page's, that row is not among those counted.

**Pages.** The parts of `PagesAgree` are lemmas about sets of rows. What one
statement calls a credit the other does (`StatementsAlike`), because only transfers
have a counterparty. What a user sent and received within the days is the sum
of the debits and credits over the user's accounts, where a transfer between two of
them is in both (`SentAreDebits`, `ReceivedAreCredits`). The rows the export adds
are the mates of the transfers to or from others (`MatesOpposite`,
`PartnersExported`). And `Newest(rows, n)`, which stands for a sorted query with a
limit, takes less from a larger set (`NewestNested`), leaves out only older rows
(`NewestAreNewer`) and only when it is full (`NewestFull`); the listings follow
(`OlderLeftOut`, `ListingsInside`).

**Balances.** With one request at a time an account's balance is the sum of the
changes of its rows, and a page's balance the sum over the rows it counted
(`SumsInv`). A lost update breaks that, hence `OneAtATime`. It is inductive
because a commit applies one operation of the `Ledger` (`Effect`, section
Banking), and each of these adds to the balance what it adds to the rows
(`EffectBalanced`). Then `AnalyticsOff` and `OpeningOff` are arithmetic over the
kinds of rows. For the second, the page's balance is the sum over the rows it
counted, which the filter splits into those before its start, those it shows and
those it leaves out; a shown row of the account counts as a credit or a debit by
its type (`ShownRows`), and the transfers and corrections among them that
brought money in are the misread ones.

### VersionControl

`VersionControlProofs` proves `TypeCorrect`, `NumbersDense` (`VersionsDense`),
`RestoresForward` (`RestoresAreForward`) and `RestoresKeepAside`
(`RestoreKeepsAside`) for every set of requests, records and values. The
invariant has the same frame as that of `Banking` (`LockInv`, `Grows`, `Placed`
and both images `Sound`), and two parts of its own. A handler with nothing to
flush holds a number that may be stale; `Placed` bounds it by the next one, so
over dense rows a number that `uq_entity_version` accepts is the next one
(`InsertStep`). And a restore under way remembers the snapshot it repeats, which
stays where it was (`Grows`), with the balance it loaded unchanged; so its
UPDATE does not name that column, and the image keeps what is committed by then
(`MergeRow`, `KeepsAside`).

`ExecutedWithRestore` is `RollbacksHonoured`, however approvals overlap and
whatever is deleted meanwhile. `HonourInv` says of both images that the version
which an approval wrote comes with the mark of its request, and the mark with the
version or with a record that is gone (`Honest`); that entity and target of a
rollback request never change (`Targets`); and that an approval in flight aims at
the target of the request it is going to mark (`Approves`).

`HeadShowsRecord` (`HeadIsLive`) and `HistoriesContinue`
(`ContiguousUnlessRestored`) fail when requests overlap and are proved under
`OneAtATime`. `SerialInv` says that the histories chain in both images, that the
newest version leaves the row that is in the database, and of the request at
each of its stages that what it loaded is still committed and what its new
version is going to leave (`Current`, `Leaves`). The properties speak of `Left`,
which must tell from a version alone whether its handler captured it early,
while the invariant knows the handler (`Early`); that they agree is
`VersionLeaves`. The path that reads its number without the lock needs an
argument of its own: there the handler changes nothing, so the version it
inserts repeats what the newest one shows.

### AuditChain

`AuditChainProofs` proves `TypeCorrect`, `EveryLinkPointsBack`
(`LinksPointBack`), `MismatchesAreDeletions` (`MismatchIsDeletion`),
`LogAppendOnly` and `BreaksAreForks`. The invariant says of both images that a
row's link is the genesis hash or the hash an earlier row was written with
(`PointsBack`), and that a hash that does not match belongs to a deleted user
(`Explained`); of every append in flight that the hash it read is known; and
that one image extends the other but for blanked users (`Kept`). That the first
broken link is a fork then follows from `PointsBack` without looking at a step
(`ForkFromPointsBack`).

`ChainStaysValid` says when verification succeeds: no user may be deleted, and
either nothing is logged outside the write lock (`LoggedUnderLock`) or requests
do not overlap (`OneAtATime`). `audit_fork` violates the second condition and
`Audit_deletion` the first. `ChainInv` says that both images of the log are valid
and that a row waiting for the lock, which under these conditions only a request
alone can have, still goes on the tail; `LogRowValid` is what one append keeps.

### Lockout

`LockoutProofs` proves, for any number of requests, any limit above zero and any
bound, `TypeCorrect`; `NobodyLockedEarly`, which is `LockIsEarned`;
`CounterExact`, which is `FailuresCounted`; and `LockedAtTheLimit`, which is
`LocksAtMax`. `LockIsEarned` is not inductive: a request writes back a row that
it loaded long ago. `Earned(row, n)` says what n wrong passwords in a row can
have made of a row. The invariant claims it of the user's row and the streak,
and `Pending` of what every request is going to write: a login that is failing
one more than the streak, a login or an unlock nothing, a status change what it
loaded. An UPDATE takes each column from one of two rows, so overlapping
requests lose counts but never invent one. When a reset ends the streak, no
login is failing (`SomeFailing`), and what the other requests will write is
earned by a streak of nothing (`FinishReset`); that is what a count of all
failures since the beginning would not need. The last two theorems are about
executions that have had no overlap so far: `Solo` says that at most one request
is under way and the counter it loaded still stands; `Poised`, which needs no
such condition, that a wrong password was entered against an unlocked row and
will lock it if the loaded counter was one below the limit or higher.

### UserLifecycle

`UserLifecycleProofs` proves `NamesUnique`, `RowsNameAccounts`,
`CustomersServedAlways` and `RowsLeaveOnlyWithParty`, the properties that hold
however requests overlap. Ids are taken from the largest of a set, so the
invariant bounds the ids of accounts, and `LargestId` derives from the
well-ordering of the naturals that a bounded set has a largest element and
`NextId` is free. One lemma per write (`AccountSound`, `RegisteredSound`,
`TransferredSound`, `WithoutUserSound`) says that it keeps the tables sound.
`TypeCorrect` (`TypeOK`) is another invariant, `TypeInv`: the ids of
every table are bounded numbers, so that a next one exists, and every request is
formed as its operation requires.

`LivesAlwaysInOrder` is `LivesInOrder`. `Historic` says that the numbers of one
history are 1 to some n without a gap or repetition (`Numbered`), that each life
begins with a CREATE later than all that was there (`Begun`), that no version is
of a life not yet born (`Born`), and that an account which exists has a history
(`Current`). So the life of a new holder is a new one; a transfer, which may
have loaded a life that ended since, continues one that has begun (`LoadedInv`),
as histories lose no life (`Survive`). The argument `serial` of these predicates
adds what holds until requests overlap (`alone`): lives do not decrease along a
history, an account that exists is the last holder of its id, and what a
transfer has loaded is that account. Each version enters through one lemma,
`HistoryGrows`. `HistoryBlanked` says that a deletion, which clears the author
of many versions, changes nothing of this, and `NumbersCount` turns the absence
of gaps into the cardinality in the property by a bijection.

`NothingOutlivesUsers` is `NothingOutlives`, whose hypothesis `alone` is a
variable of the model: no request has started during another one so far. The
invariant `AloneInv` says that until then at most one request is not idle
(`Single`), that the users it looked up exist (`Knows`), and that rows name users
who exist (`Belongs`).

### Settings

`SettingsProofs` proves `TypeCorrect` and `StaffAdmittedByKey` (`AdmittedByKey`).
The invariant says that what a registration expects is among the keys in force since
it began, or the default after a failed look-up, and that a form in progress has
a number above zero (`Fits`).

`ConfigLayered` (`ConfigInLayers`), `SavedInForce` (`SavedApplyWhole`) and
`RotationsHold` (`RotationTakesHold`) are about executions without overlap so far
(`alone`). `AloneInv` says that at most one request is under way (`Single`); that
the configuration of each worker is layered (`Layered`) and nothing in it or among
the keys is newer than the newest form (`Submitted`); what each answered form
still has in force (`Answered`, `Promised`); and of the form in progress that it
is the newest, that the fields it has passed carry its number and the keys it has
stored without a failure are its own (`Progress`). A step of one field after the
other thus keeps the layers, and the success message is sent when `Progress` has
reached what `Promised` asks for.

### What is left to TLC

`RequestsFinish` is a liveness property, and liveness and ENABLED are beyond the
prover's backends. Every safety property that a listed run passes has a theorem.
Induction over data is out of the prover's reach in general, since the induction
theorems take an operator; the sums of `Statement` are the one place where a
theorem had to go round it, through a smallest exception as described there. No
module declares a RECURSIVE operator. The properties of the violated runs do not
hold under their constants; `HistoryContiguous` and `ChainValid` have theorems
under the conditions named above. Those of the configurations run by hand are
model-checked only, except typing of the page (`StatementTypes`) and the chain of
`Audit_locked` and `Audit_serial` (`ChainStaysValid`).

The hypotheses of the theorems are the named assumptions of the modules, which
every run evaluates, and `OneAtATime` where a table or a paragraph above says so;
the serial runs satisfy it.

## 7. What could follow

- `Diff`: `deep_json_diff` and `diff_versions` against set-theoretic definitions
  of added, removed and changed keys.
- A composition of `AuditChain` with the write path of `VersionControl`: one
  request writes several audit rows in one transaction. Here each module sees
  the other as a count or not at all.
- `RiskEngine` and `TransferLimit`, once a handler calls them.

## 8. Not modelled

Sessions, cookies, CSRF and the formats of names, addresses, passwords and
identifiers are data or libraries. `change_password` writes one column that no
other operation reads and a session that is a library's. Templates and pages
beyond the figures of `Statement` only read and render. The second copy of the
v1 API is not registered. The risk engine scores a transaction by weights and
thresholds, each a test of one line, and no handler calls it; nothing calls the
methods of transfer limits either, and no code creates an OTP code or a login
session. The code has no operation that rejects a rollback request or closes an
account. Deposits, withdrawals and transfers do not look at an account's status,
so neither does the model. `DATABASE_URL` may name another database; isolation
is modelled for SQLite, the default.
