------------------------------- MODULE Banking -------------------------------
(***************************************************************************)
(* The financial operations of BankVCS: opening an account, deposit,       *)
(* withdrawal, transfer and reversal (app/services/banking_service.py with *)
(* the /api/accounts and /api/transactions handlers that call it), run by  *)
(* concurrent requests against one SQLite database.                        *)
(*                                                                         *)
(* A request first LOADS the rows it needs.  SQLite runs these SELECTs     *)
(* outside any transaction, and the SQLAlchemy session keeps the loaded    *)
(* objects, so everything computed later uses this snapshot.  The first    *)
(* FLUSH opens the write transaction and takes the only write lock, or     *)
(* fails with "database is locked" when another request holds it for too   *)
(* long.  From there to COMMIT the request works on an uncommitted image.  *)
(* An exception or a crash rolls that image back.                          *)
(***************************************************************************)
EXTENDS Integers, Sequences, FiniteSets

CONSTANTS
    Requests,         \* Concurrent HTTP requests (server threads or workers).
    Accounts,         \* Accounts that exist or may be opened.
    InitialAccounts,  \* Accounts already opened, with no transaction yet.
    Users,            \* Customers.
    Owner,            \* Account.user_id of every account.
    Amounts,          \* Amounts a caller submits, invalid ones included.
    MaxRows,          \* Bound: no request starts once so many transactions exist.
    NoRequest,        \* The write lock is free.
    NoAccount         \* A NULL account reference.

ASSUME ConstantsAssumption ==
    /\ IsFiniteSet(Accounts)
    /\ InitialAccounts \subseteq Accounts
    /\ Owner \in [Accounts -> Users]
    /\ Amounts \subseteq Int
    /\ MaxRows \in Nat
    /\ NoRequest \notin Requests
    /\ NoAccount \notin Accounts

VARIABLES
    db,      \* The committed database.
    work,    \* The image the holder of the write lock sees; db when it is free.
    writer,  \* The request that holds SQLite's write lock, or NoRequest.
    req      \* Every request: its progress, its input and its snapshot.

vars == <<db, work, writer, req>>

-----------------------------------------------------------------------------
(* Rows                                                                     *)

Account == [balance : Int, available : Int, version : Nat]

\* An account row as it is inserted.
Fresh == [balance |-> 0, available |-> 0, version |-> 1]

TransactionTypes == {"DEPOSIT", "WITHDRAWAL", "TRANSFER", "REVERSAL"}

\* `change' is no column: it records the signed effect of the row on its
\* account, which the table leaves to be inferred from the type.
Transaction ==
    [account : Accounts, type : TransactionTypes, amount : Int, change : Int,
     status : {"COMPLETED", "REVERSED"}, counterparty : Accounts \cup {NoAccount},
     related : Nat, after : Int]

\* An EntityVersion row of an account.  The old_data of a CREATE row is NULL
\* in the table, Fresh here.
Version == [number : Nat, type : {"CREATE", "UPDATE"}, old : Account, new : Account]

\* Every versioned change writes one audit row, which `audit' counts; `inbox'
\* counts the notifications of a user.
Database ==
    [opened : SUBSET Accounts, acct : [Accounts -> Account],
     txn : Seq(Transaction), hist : [Accounts -> Seq(Version)],
     audit : Nat, inbox : [Users -> Nat]]

-----------------------------------------------------------------------------
(* Requests                                                                 *)

Operations == {"none", "open", "deposit", "withdraw", "transfer", "reverse"}

\* "loading": one row is loaded and another is needed; "loaded": all rows are
\* loaded; "flushed": the rows are written and the lock is held; "recorded":
\* versions, audit rows and notifications are written too.
Phases == {"idle", "loading", "loaded", "flushed", "recorded"}

\* `from' and `to' are the snapshots of the accounts src and dst, `seen' the
\* snapshot of the status of the transaction tid.
Request ==
    [pc : Phases, op : Operations, src : Accounts \cup {NoAccount},
     dst : Accounts \cup {NoAccount}, amount : Int, tid : Nat,
     seen : {"COMPLETED", "REVERSED"}, from : Account, to : Account]

Idle ==
    [pc |-> "idle", op |-> "none", src |-> NoAccount, dst |-> NoAccount,
     amount |-> 0, tid |-> 0, seen |-> "COMPLETED", from |-> Fresh, to |-> Fresh]

Become(r, state) == req' = [req EXCEPT ![r] = state]

At(r, phase, op) == req[r].pc = phase /\ req[r].op = op

-----------------------------------------------------------------------------
(* create_version, with the audit row it writes, and notifications          *)

\* Fault: the query sorts ascending, so `last' is the first version.
FirstVersionPlusOne(rows) == IF rows = <<>> THEN 1 ELSE rows[1].number + 1

\* max(version_number) + 1 over the rows of one entity.
NextVersionNumber(rows) ==
    IF rows = <<>> THEN 1
    ELSE LET last == CHOOSE i \in DOMAIN rows :
                        \A j \in DOMAIN rows : rows[j].number <= rows[i].number
         IN  rows[last].number + 1

\* Fault: new_data is captured before the change.
CreateVersionTooEarly(d, a, type, old) ==
    [d EXCEPT !.hist[a] = Append(@, [number |-> NextVersionNumber(@), type |-> type,
                                     old |-> old, new |-> old]),
              !.audit = @ + 1]

CreateVersion(d, a, type, old) ==
    [d EXCEPT !.hist[a] = Append(@, [number |-> NextVersionNumber(@), type |-> type,
                                     old |-> old, new |-> d.acct[a]]),
              !.audit = @ + 1]

Notify(d, u) == [d EXCEPT !.inbox[u] = @ + 1]

-----------------------------------------------------------------------------
Init ==
    /\ db = [opened |-> InitialAccounts,
             acct   |-> [a \in Accounts |-> Fresh],
             txn    |-> <<>>,
             hist   |-> [a \in Accounts |->
                           IF a \in InitialAccounts
                           THEN <<[number |-> 1, type |-> "CREATE", old |-> Fresh, new |-> Fresh]>>
                           ELSE <<>>],
             audit  |-> Cardinality(InitialAccounts),
             inbox  |-> [u \in Users |-> Cardinality({a \in InitialAccounts : Owner[a] = u})]]
    /\ work = db
    /\ writer = NoRequest
    /\ req = [r \in Requests |-> Idle]

-----------------------------------------------------------------------------
(* Loading: the handlers' SELECTs, each reading what is committed now       *)

MayStart(r) == req[r].pc = "idle" /\ Len(db.txn) < MaxRows

\* Bound: the instance has an account left for every pending opening.
RoomToOpen ==
    Cardinality({q \in Requests : req[q].op = "open"}) < Cardinality(Accounts \ db.opened)

StartOpen(r) ==
    /\ MayStart(r)
    /\ RoomToOpen
    /\ Become(r, [Idle EXCEPT !.pc = "loaded", !.op = "open"])
    /\ UNCHANGED <<db, work, writer>>

\* Deposits and withdrawals load the one account they change.
StartSingle(r) ==
    /\ MayStart(r)
    /\ \E op \in {"deposit", "withdraw"}, a \in db.opened, x \in Amounts :
          Become(r, [Idle EXCEPT !.pc = "loaded", !.op = op, !.src = a,
                                 !.amount = x, !.from = db.acct[a]])
    /\ UNCHANGED <<db, work, writer>>

StartTransfer(r) ==
    /\ MayStart(r)
    /\ \E s \in db.opened, d \in db.opened, x \in Amounts :
          Become(r, [Idle EXCEPT !.pc = "loading", !.op = "transfer", !.src = s,
                                 !.dst = d, !.amount = x, !.from = db.acct[s]])
    /\ UNCHANGED <<db, work, writer>>

LoadDestination(r) ==
    /\ At(r, "loading", "transfer")
    /\ Become(r, [req[r] EXCEPT !.pc = "loaded", !.to = db.acct[req[r].dst]])
    /\ UNCHANGED <<db, work, writer>>

StartReverse(r) ==
    /\ MayStart(r)
    /\ \E t \in DOMAIN db.txn :
          Become(r, [Idle EXCEPT !.pc = "loading", !.op = "reverse", !.tid = t,
                                 !.src = db.txn[t].account, !.seen = db.txn[t].status])
    /\ UNCHANGED <<db, work, writer>>

\* The status check uses the loaded transaction; the account is loaded after it.
LoadReversed(r) ==
    /\ At(r, "loading", "reverse")
    /\ req[r].seen # "REVERSED"
    /\ Become(r, [req[r] EXCEPT !.pc = "loaded", !.from = db.acct[req[r].src]])
    /\ UNCHANGED <<db, work, writer>>

RejectReversed(r) ==
    /\ At(r, "loading", "reverse")
    /\ req[r].seen = "REVERSED"
    /\ Become(r, Idle)
    /\ UNCHANGED <<db, work, writer>>

-----------------------------------------------------------------------------
(* Validation: ValidationError and InsufficientBalanceError                 *)

ValidAmount(q) == q.amount > 0

\* Fault: an off-by-one in the comparison.
AlmostSufficient(q) == q.from.available + 1 >= q.amount

Sufficient(q) == q.from.available >= q.amount

Accepted(q) ==
    CASE q.op = "deposit"  -> ValidAmount(q)
      [] q.op = "withdraw" -> ValidAmount(q) /\ Sufficient(q)
      [] q.op = "transfer" -> ValidAmount(q) /\ q.src # q.dst /\ Sufficient(q)
      [] OTHER             -> TRUE

Reject(r) ==
    /\ req[r].pc = "loaded"
    /\ ~Accepted(req[r])
    /\ Become(r, Idle)
    /\ UNCHANGED <<db, work, writer>>

-----------------------------------------------------------------------------
(* Flush: take the write lock and write rows computed from the snapshots    *)

\* The row after its balances moved by x and _bump_account_version.
Moved(s, x) ==
    [balance |-> s.balance + x, available |-> s.available + x, version |-> s.version + 1]

\* Fault: the status is left at the column's default.
PendingEntry(a, type, x, change, cp, rel, after) ==
    [account |-> a, type |-> type, amount |-> x, change |-> change,
     status |-> "PENDING", counterparty |-> cp, related |-> rel, after |-> after]

Entry(a, type, x, change, cp, rel, after) ==
    [account |-> a, type |-> type, amount |-> x, change |-> change,
     status |-> "COMPLETED", counterparty |-> cp, related |-> rel, after |-> after]

\* The first DML statement: BEGIN and the write lock, on top of what is committed.
Flush(r, opened, acct, txn) ==
    /\ writer = NoRequest
    /\ writer' = r
    /\ work' = [db EXCEPT !.opened = opened, !.acct = acct, !.txn = txn]
    /\ UNCHANGED db

Open(r) ==
    /\ At(r, "loaded", "open")
    /\ \E a \in Accounts \ db.opened :
          /\ Flush(r, db.opened \cup {a}, [db.acct EXCEPT ![a] = Fresh], db.txn)
          /\ Become(r, [req[r] EXCEPT !.pc = "flushed", !.src = a])

PostSingle(r, type, change) ==
    LET q   == req[r]
        new == Moved(q.from, change)
        row == Entry(q.src, type, q.amount, change, NoAccount, 0, new.balance)
    IN  /\ Flush(r, db.opened, [db.acct EXCEPT ![q.src] = new], Append(db.txn, row))
        /\ Become(r, [q EXCEPT !.pc = "flushed"])

Deposit(r) ==
    /\ At(r, "loaded", "deposit")
    /\ Accepted(req[r])
    /\ PostSingle(r, "DEPOSIT", req[r].amount)

\* Fault: the balance check is left out.
WithdrawUnchecked(r) ==
    /\ At(r, "loaded", "withdraw")
    /\ ValidAmount(req[r])
    /\ PostSingle(r, "WITHDRAWAL", -req[r].amount)

Withdraw(r) ==
    /\ At(r, "loaded", "withdraw")
    /\ Accepted(req[r])
    /\ PostSingle(r, "WITHDRAWAL", -req[r].amount)

Transfer(r) ==
    LET q    == req[r]
        paid == Moved(q.from, -q.amount)
        got  == Moved(q.to, q.amount)
        out  == Entry(q.src, "TRANSFER", q.amount, -q.amount, q.dst, 0, paid.balance)
        in   == Entry(q.dst, "TRANSFER", q.amount, q.amount, q.src, 0, got.balance)
    IN  /\ At(r, "loaded", "transfer")
        /\ Accepted(q)
        /\ Flush(r, db.opened, [db.acct EXCEPT ![q.src] = paid, ![q.dst] = got],
                 db.txn \o <<out, in>>)
        /\ Become(r, [q EXCEPT !.pc = "flushed"])

\* Only a WITHDRAWAL is corrected by a credit; every other type by a debit.
ReversalChange(original) ==
    IF original.type = "WITHDRAWAL" THEN original.amount ELSE -original.amount

\* Fault: the original is not marked.
ReverseUnmarked(r) ==
    LET q        == req[r]
        original == db.txn[q.tid]
        change   == ReversalChange(original)
        new      == Moved(q.from, change)
        row      == Entry(q.src, "REVERSAL", original.amount, change, NoAccount, q.tid, new.balance)
    IN  /\ At(r, "loaded", "reverse")
        /\ Flush(r, db.opened, [db.acct EXCEPT ![q.src] = new], Append(db.txn, row))
        /\ Become(r, [q EXCEPT !.pc = "flushed"])

\* Fault: the original is turned into its own reversal.
ReverseInPlace(r) ==
    LET q   == req[r]
        new == Moved(q.from, ReversalChange(db.txn[q.tid]))
    IN  /\ At(r, "loaded", "reverse")
        /\ Flush(r, db.opened, [db.acct EXCEPT ![q.src] = new],
                 [db.txn EXCEPT ![q.tid].type = "REVERSAL", ![q.tid].after = new.balance])
        /\ Become(r, [q EXCEPT !.pc = "flushed"])

Reverse(r) ==
    LET q        == req[r]
        original == db.txn[q.tid]
        change   == ReversalChange(original)
        new      == Moved(q.from, change)
        marked   == [db.txn EXCEPT ![q.tid] = [original EXCEPT !.status = "REVERSED"]]
        row      == Entry(q.src, "REVERSAL", original.amount, change, NoAccount, q.tid, new.balance)
    IN  /\ At(r, "loaded", "reverse")
        /\ Flush(r, db.opened, [db.acct EXCEPT ![q.src] = new], Append(marked, row))
        /\ Become(r, [q EXCEPT !.pc = "flushed"])

\* Fault: no busy timeout, so a flush waits for ever.
NeverBusy(r) == req[r].pc = "loaded" /\ FALSE /\ UNCHANGED vars

\* The busy timeout expires: the flush raises "database is locked".
Busy(r) ==
    /\ req[r].pc = "loaded"
    /\ writer \notin {NoRequest, r}
    /\ Become(r, Idle)
    /\ UNCHANGED <<db, work, writer>>

-----------------------------------------------------------------------------
(* After the flush, inside the write transaction                            *)

Record(r, image) ==
    /\ work' = image
    /\ Become(r, [req[r] EXCEPT !.pc = "recorded"])
    /\ UNCHANGED <<db, writer>>

RecordOpen(r) ==
    /\ At(r, "flushed", "open")
    /\ LET a == req[r].src
       IN  Record(r, Notify(CreateVersion(work, a, "CREATE", Fresh), Owner[a]))

\* Fault: old_data is captured after the change.
RecordSingleTooLate(r) ==
    /\ At(r, "flushed", "deposit") \/ At(r, "flushed", "withdraw")
    /\ LET q == req[r]
       IN  Record(r, Notify(CreateVersion(work, q.src, "UPDATE", work.acct[q.src]), Owner[q.src]))

RecordSingle(r) ==
    /\ At(r, "flushed", "deposit") \/ At(r, "flushed", "withdraw")
    /\ LET q == req[r]
       IN  Record(r, Notify(CreateVersion(work, q.src, "UPDATE", q.from), Owner[q.src]))

\* Fault: only the sender's account gets a version.
RecordSender(r) ==
    /\ At(r, "flushed", "transfer")
    /\ LET q == req[r]
       IN  Record(r, Notify(CreateVersion(work, q.src, "UPDATE", q.from), Owner[q.src]))

RecordTransfer(r) ==
    /\ At(r, "flushed", "transfer")
    /\ LET q    == req[r]
           both == CreateVersion(CreateVersion(work, q.src, "UPDATE", q.from),
                                 q.dst, "UPDATE", q.to)
           sent == Notify(both, Owner[q.src])
       IN  Record(r, IF Owner[q.dst] = Owner[q.src] THEN sent ELSE Notify(sent, Owner[q.dst]))

\* A reversal notifies nobody.
RecordReverse(r) ==
    /\ At(r, "flushed", "reverse")
    /\ Record(r, CreateVersion(work, req[r].src, "UPDATE", req[r].from))

Commit(r) ==
    /\ req[r].pc = "recorded"
    /\ db' = work
    /\ writer' = NoRequest
    /\ Become(r, Idle)
    /\ UNCHANGED work

\* An exception, a killed worker or a dropped connection: the session is
\* discarded and SQLite rolls the write transaction back.
Fail(r) ==
    /\ req[r].pc # "idle"
    /\ Become(r, Idle)
    /\ IF writer = r
       THEN writer' = NoRequest /\ work' = db
       ELSE UNCHANGED <<writer, work>>
    /\ UNCHANGED db

-----------------------------------------------------------------------------
Start(r) == StartOpen(r) \/ StartSingle(r) \/ StartTransfer(r) \/ StartReverse(r)

\* What a request does by itself once it has started.
Step(r) ==
    \/ LoadDestination(r) \/ LoadReversed(r) \/ RejectReversed(r)
    \/ Reject(r) \/ Busy(r)
    \/ Open(r) \/ Deposit(r) \/ Withdraw(r) \/ Transfer(r) \/ Reverse(r)
    \/ RecordOpen(r) \/ RecordSingle(r) \/ RecordTransfer(r) \/ RecordReverse(r)
    \/ Commit(r)

\* The bound is reached and the server waits for requests that never come.
Rest ==
    /\ \A r \in Requests : req[r].pc = "idle"
    /\ Len(db.txn) >= MaxRows
    /\ UNCHANGED vars

Next == Rest \/ \E r \in Requests : Start(r) \/ Step(r) \/ Fail(r)

\* A thread keeps running once its request has arrived; nothing obliges a
\* request to arrive or to fail.
Fairness == \A r \in Requests : WF_vars(Step(r))

Spec == Init /\ [][Next]_vars /\ Fairness
-----------------------------------------------------------------------------
(* Properties of every execution, however the requests interleave           *)

\* Every variable has its type: the database and the write image hold rows
\* of the tables, and every request is at one of its phases.
TypeOK ==
    /\ db \in Database
    /\ work \in Database
    /\ writer \in Requests \cup {NoRequest}
    /\ req \in [Requests -> Request]

Dense(d) == \A a \in Accounts : \A i \in DOMAIN d.hist[a] : d.hist[a][i].number = i

\* The versions of an account are numbered 1, 2, 3, ... without a gap or a
\* repetition, although the number is computed from a query: the query runs
\* after the flush, so no other request can number a row in between
\* (_next_version_number; uq_entity_version would refuse a repetition).
VersionsDense == Dense(db)

RowsOf(d, a) == {t \in DOMAIN d.txn : d.txn[t].account = a}

\* Whatever fails and wherever, the committed database holds exactly one
\* version row per opening and per transaction row, and one audit row per
\* version row: the balance, the transaction, the version and the audit log
\* succeed or fail together (deposit, withdraw, transfer, reverse_transaction).
RecordsCommitTogether ==
    /\ \A a \in Accounts :
          Len(db.hist[a]) = Cardinality(RowsOf(db, a)) + (IF a \in db.opened THEN 1 ELSE 0)
    /\ db.audit = Cardinality(db.opened) + Len(db.txn)

\* The newest version of an account shows the account as it is, and the newest
\* transaction row of an account carries its balance, even when requests
\* overwrite each other's balances.
HeadIsLive ==
    \A a \in db.opened :
        /\ db.hist[a] # <<>>
        /\ db.hist[a][Len(db.hist[a])].new = db.acct[a]
        /\ \A t \in RowsOf(db, a) :
              (\A k \in RowsOf(db, a) : k <= t) => db.txn[t].after = db.acct[a].balance

ReversedOn(d, a) == \E t \in RowsOf(d, a) : d.txn[t].type = "REVERSAL"

\* An account is below zero only if a reversal was posted on it: withdrawals
\* and transfers that race on stale snapshots lose updates but never overdraw,
\* because each writes a balance computed from the snapshot it checked.
OverdraftOnlyByReversal == \A a \in Accounts : db.acct[a].balance < 0 => ReversedOn(db, a)

\* A transaction is marked REVERSED exactly when a later REVERSAL row of the
\* same account and amount refers to it.
ReversalLinked ==
    \A t \in DOMAIN db.txn :
        db.txn[t].status = "REVERSED" <=>
            \E k \in DOMAIN db.txn :
                /\ k > t
                /\ db.txn[k].type = "REVERSAL"
                /\ db.txn[k].related = t
                /\ db.txn[k].account = db.txn[t].account
                /\ db.txn[k].amount = db.txn[t].amount

Unchanged(old, new) == new = old \/ new = [old EXCEPT !.status = "REVERSED"]

\* Transactions are append-only: a step never removes a row, reorders rows or
\* edits one beyond marking it REVERSED; the version rows of an account are
\* never removed or edited at all (Transaction's docstring).
AppendOnly ==
    [][/\ Len(db'.txn) >= Len(db.txn)
       /\ \A t \in DOMAIN db.txn : Unchanged(db.txn[t], db'.txn[t])
       /\ \A a \in Accounts : /\ Len(db'.hist[a]) >= Len(db.hist[a])
                              /\ \A i \in DOMAIN db.hist[a] : db'.hist[a][i] = db.hist[a][i]]_vars

\* Every request that arrives is answered: it commits, is refused, fails, or
\* gives up waiting for the write lock.  No request waits for ever, whatever
\* the other requests do.
RequestsFinish == \A r \in Requests : (req[r].pc # "idle") ~> (req[r].pc = "idle")

-----------------------------------------------------------------------------
(* Properties of executions in which requests do not overlap                *)

\* The statement of an account adds up: the balance after a row is the balance
\* after the account's previous row plus the effect of the row.
RunningBalance ==
    \A t \in DOMAIN db.txn :
        LET earlier == {k \in RowsOf(db, db.txn[t].account) : k < t}
        IN  /\ earlier = {} => db.txn[t].after = db.txn[t].change
            /\ \A p \in earlier : (\A k \in earlier : k <= p) =>
                  db.txn[t].after = db.txn[p].after + db.txn[t].change

\* The history of an account is one chain: old_data of a version is new_data of
\* the version before it, and the account's own version_number counts them.
HistoryContiguous ==
    \A a \in db.opened :
        /\ \A i \in 2 .. Len(db.hist[a]) : db.hist[a][i].old = db.hist[a][i - 1].new
        /\ db.acct[a].version = Len(db.hist[a])

\* No transaction is reversed twice ("Transaction has already been reversed").
ReversedOnce ==
    \A k, l \in DOMAIN db.txn :
        /\ db.txn[k].type = "REVERSAL"
        /\ db.txn[l].type = "REVERSAL"
        /\ db.txn[k].related = db.txn[l].related
        => k = l

Kind(type) ==
    CASE type = "TRANSFER" -> "move"
      [] type = "REVERSAL" -> "correction"
      [] OTHER             -> "post"

L == INSTANCE Ledger WITH
        balance <- [a \in Accounts |-> db.acct[a].balance],
        journal <- [t \in DOMAIN db.txn |->
                      [account |-> db.txn[t].account, kind |-> Kind(db.txn[t].type),
                       change |-> db.txn[t].change, corrects |-> db.txn[t].related]]

\* The operations implement the ledger as promised: each takes effect at its
\* commit, on the balances of that moment, and a reversal posts an
\* "equal-and-opposite REVERSAL transaction" (reverse_transaction's docstring).
LedgerSpec == L!Spec

\* The operations implement the ledger as built, in which a debit that is no
\* withdrawal is corrected by another debit and everything else is as promised.
LedgerAsBuilt == L!SpecAsBuilt
=============================================================================
