----------------------------- MODULE UserLifecycle -----------------------------
(***************************************************************************)
(* Users and their accounts from registration to deletion: register_user   *)
(* and delete_user_account (app/services/auth_service.py), create_account  *)
(* (app/services/banking_service.py) as the API and the customer pages     *)
(* call it, and what a transfer or a rollback request of a user leaves in  *)
(* the tables.  Balances are the subject of Banking.                       *)
(*                                                                         *)
(* A request looks rows up outside any transaction and writes later.  What *)
(* it writes between its first flush and its commit is written under       *)
(* SQLite's write lock and seen by nobody else, so one step stands for it. *)
(* SQLite gives a new row the highest id of its table plus one, so the id  *)
(* of a deleted row can be given again, and it enforces no foreign key.    *)
(***************************************************************************)
EXTENDS Integers, FiniteSets

CONSTANTS
    Requests,     \* Concurrent HTTP requests.
    Names,        \* What people register under: the user name with the email.
    MaxVersions,  \* Bound: once so many versions exist, only a transfer, a
                  \* rollback request or a deletion may start.
    MaxAsks       \* Bound on the users who submit rollback requests.

ASSUME ConstantsAssumption == MaxVersions \in Nat /\ MaxAsks \in Nat

VARIABLES
    db,    \* The committed tables.
    req,   \* Every request: what it does and what it has looked up.
    alone  \* History: no request has started during another one so far.

vars == <<db, req, alone>>

-----------------------------------------------------------------------------
(* Rows                                                                     *)

Roles == {"customer", "staff"}

\* `life' tells one holder of an id from the next; no table has it.
User == [name : Names, role : Roles, life : Nat]

\* `default' marks the accounts nobody asked for.
Account == [owner : Nat, life : Nat, default : BOOLEAN]

Transaction == [id : Nat, account : Nat, counterparty : Nat]

Kinds == {"USER_PROFILE", "ACCOUNT"}

\* An EntityVersion row; `by' is changed_by, 0 for NULL.
Version ==
    [kind : Kinds, entity : Nat, number : Nat, type : {"CREATE", "UPDATE"},
     life : Nat, by : Nat]

Operations ==
    {"none", "register", "page", "default", "open", "transfer", "ask", "delete"}

\* `srcLife' and `dstLife' are the lives of the accounts of a transfer and
\* `told' their owners, as loaded.
Request ==
    [op : Operations, user : Nat, name : Names \cup {""}, role : Roles,
     src : Nat, dst : Nat, srcLife : Nat, dstLife : Nat, told : SUBSET Nat]

Idle ==
    [op |-> "none", user |-> 0, name |-> "", role |-> "staff",
     src |-> 0, dst |-> 0, srcLife |-> 0, dstLife |-> 0, told |-> {}]

\* `inbox' holds the users with notifications or beneficiaries, `asks' those
\* with rollback requests.
Init ==
    /\ db = [users |-> [u \in {} |-> Idle], accts |-> [a \in {} |-> Idle],
             txn |-> {}, hist |-> {}, inbox |-> {}, asks |-> {}, born |-> 0]
    /\ req = [r \in Requests |-> Idle]
    /\ alone = TRUE

-----------------------------------------------------------------------------
(* Writing rows                                                             *)

\* The id SQLite gives to a new row of a table with these ids.
NextId(ids) ==
    IF ids = {} THEN 1 ELSE (CHOOSE i \in ids : \A j \in ids : j <= i) + 1

Put(f, x, v) == [y \in DOMAIN f \cup {x} |-> IF y = x THEN v ELSE f[y]]

Keep(f, S) == [y \in S |-> f[y]]

VersionsOf(d, kind, e) == {v \in d.hist : v.kind = kind /\ v.entity = e}

\* Fault: the query for the last version forgets the entity.
VersionOfKind(d, kind, e, type, life, by) ==
    [d EXCEPT !.hist = @ \cup
        {[kind |-> kind, entity |-> e, type |-> type, life |-> life, by |-> by,
          number |-> NextId({v.number : v \in {w \in d.hist : w.kind = kind}})]}]

\* create_version; the number goes on where the last holder of the id left off.
WithVersion(d, kind, e, type, life, by) ==
    [d EXCEPT !.hist = @ \cup
        {[kind |-> kind, entity |-> e, type |-> type, life |-> life, by |-> by,
          number |-> NextId({v.number : v \in VersionsOf(d, kind, e)})]}]

\* create_account: nothing checks that the user is still there.
WithAccount(d, u, default) ==
    LET a    == NextId(DOMAIN d.accts)
        life == d.born + 1
        row  == [owner |-> u, life |-> life, default |-> default]
    IN  WithVersion([d EXCEPT !.accts = Put(@, a, row), !.born = life,
                              !.inbox = @ \cup {u}],
                    "ACCOUNT", a, "CREATE", life, u)

WithUser(d, name, role) ==
    LET u    == NextId(DOMAIN d.users)
        life == d.born + 1
        row  == [name |-> name, role |-> role, life |-> life]
    IN  WithVersion([d EXCEPT !.users = Put(@, u, row), !.born = life],
                    "USER_PROFILE", u, "CREATE", life, u)

\* Fault: the account is left to the first page load.
RegisteredBare(d, name, role) == WithUser(d, name, role)

\* register_user, up to the commit inside create_account.
Registered(d, name, role) ==
    IF role = "customer"
    THEN WithAccount(WithUser(d, name, role), NextId(DOMAIN d.users), TRUE)
    ELSE WithUser(d, name, role)

OwnedBy(d, u) == {a \in DOMAIN d.accts : d.accts[a].owner = u}

\* Fault: only the user's own rows are deleted, not the other party's.
KeepsOtherLeg(d, gone) == {t \in d.txn : t.account \notin gone}

\* Fault: rows are matched by their own id as well.
KeepsById(d, gone) ==
    {t \in d.txn : t.account \notin gone /\ t.counterparty \notin gone /\ t.id \notin gone}

\* What the deletion of accounts leaves of the transactions.
KeptTransactions(d, gone) ==
    {t \in d.txn : t.account \notin gone /\ t.counterparty \notin gone}

\* Fault: notifications are forgotten.
WithoutUserButInbox(d, u) ==
    LET gone == OwnedBy(d, u)
    IN  [d EXCEPT !.users = Keep(@, DOMAIN @ \ {u}),
                  !.accts = Keep(@, DOMAIN @ \ gone),
                  !.txn   = KeptTransactions(d, gone),
                  !.hist  = {[v EXCEPT !.by = IF @ = u THEN 0 ELSE @] : v \in @}]

\* delete_user_account; versions stay, with changed_by blanked.
WithoutUser(d, u) ==
    LET gone == OwnedBy(d, u)
    IN  [d EXCEPT !.users = Keep(@, DOMAIN @ \ {u}),
                  !.accts = Keep(@, DOMAIN @ \ gone),
                  !.txn   = KeptTransactions(d, gone),
                  !.inbox = @ \ {u},
                  !.hist  = {[v EXCEPT !.by = IF @ = u THEN 0 ELSE @] : v \in @}]

\* The rows and versions of a transfer between ids that exist: the versions show
\* the accounts that were loaded, whoever has their ids by now.
Transferred(d, q) ==
    LET k      == NextId({t.id : t \in d.txn})
        posted == [d EXCEPT !.inbox = @ \cup q.told, !.txn = @ \cup
                     {[id |-> k, account |-> q.src, counterparty |-> q.dst],
                      [id |-> k + 1, account |-> q.dst, counterparty |-> q.src]}]
        sent   == WithVersion(posted, "ACCOUNT", q.src, "UPDATE", q.srcLife, q.user)
    IN  WithVersion(sent, "ACCOUNT", q.dst, "UPDATE", q.dstLife, q.user)

-----------------------------------------------------------------------------
(* Requests: look up, then write                                            *)

Start(r, q) ==
    /\ req[r] = Idle
    /\ req' = [req EXCEPT ![r] = q]
    /\ alone' = (alone /\ \A s \in Requests : req[s] = Idle)
    /\ UNCHANGED db

Continue(r, q) ==
    /\ req' = [req EXCEPT ![r] = q]
    /\ UNCHANGED <<db, alone>>

Write(r, image) ==
    /\ db' = image
    /\ req' = [req EXCEPT ![r] = Idle]
    /\ UNCHANGED alone

Room == Cardinality(db.hist) < MaxVersions

NameTaken(n) == \E u \in DOMAIN db.users : db.users[u].name = n

\* Fault: the role is stored as the form spells it.
StartRegisterAsSpelled(r) ==
    \E n \in Names, role \in {"Customer", "staff"} :
        Room /\ ~NameTaken(n) /\ Start(r, [Idle EXCEPT !.op = "register", !.name = n, !.role = role])

\* The validation asks whether the name is taken.
StartRegister(r) ==
    \E n \in Names, role \in Roles :
        Room /\ ~NameTaken(n) /\ Start(r, [Idle EXCEPT !.op = "register", !.name = n, !.role = role])

\* Fault: the columns have no UNIQUE constraint.
RegisterUnchecked(r) ==
    /\ req[r].op = "register"
    /\ Write(r, Registered(db, req[r].name, req[r].role))

\* The INSERT passes the UNIQUE constraints ...
Register(r) ==
    /\ req[r].op = "register"
    /\ ~NameTaken(req[r].name)
    /\ Write(r, Registered(db, req[r].name, req[r].role))

\* ... or breaks them, and the request dies with an IntegrityError.
RegisterConflict(r) ==
    /\ req[r].op = "register"
    /\ NameTaken(req[r].name)
    /\ Continue(r, Idle)

\* A customer opens a page that shows accounts.
StartPage(r) ==
    \E u \in DOMAIN db.users :
        /\ Room
        /\ db.users[u].role = "customer"
        /\ Start(r, [Idle EXCEPT !.op = "page", !.user = u])

\* _get_user_accounts
LookUp(r) ==
    /\ req[r].op = "page"
    /\ Continue(r, IF OwnedBy(db, req[r].user) = {}
                   THEN [req[r] EXCEPT !.op = "default"] ELSE Idle)

\* POST /api/accounts
StartOpen(r) ==
    \E u \in DOMAIN db.users : Room /\ Start(r, [Idle EXCEPT !.op = "open", !.user = u])

Open(r) ==
    /\ req[r].op \in {"default", "open"}
    /\ Write(r, WithAccount(db, req[r].user, req[r].op = "default"))

\* Customers send from an account of theirs, staff from any.
StartTransfer(r) ==
    \E u \in DOMAIN db.users, s, d \in DOMAIN db.accts :
        /\ Cardinality(db.hist) <= MaxVersions
        /\ s # d
        /\ db.users[u].role = "staff" \/ db.accts[s].owner = u
        /\ Start(r, [Idle EXCEPT !.op = "transfer", !.user = u, !.src = s, !.dst = d,
                                 !.srcLife = db.accts[s].life, !.dstLife = db.accts[d].life,
                                 !.told = {db.accts[s].owner, db.accts[d].owner}])

\* Both UPDATEs must find their row ...
Transfer(r) ==
    /\ req[r].op = "transfer"
    /\ {req[r].src, req[r].dst} \subseteq DOMAIN db.accts
    /\ Write(r, Transferred(db, req[r]))

\* ... or the session raises a StaleDataError.
TransferStale(r) ==
    /\ req[r].op = "transfer"
    /\ ~({req[r].src, req[r].dst} \subseteq DOMAIN db.accts)
    /\ Continue(r, Idle)

\* create_rollback_request
StartAsk(r) ==
    \E u \in DOMAIN db.users :
        /\ Cardinality(db.asks) < MaxAsks
        /\ Start(r, [Idle EXCEPT !.op = "ask", !.user = u])

Ask(r) ==
    /\ req[r].op = "ask"
    /\ Write(r, [db EXCEPT !.asks = @ \cup {req[r].user}])

\* An administrator deletes another user, or a user deletes themselves.
StartDelete(r) ==
    \E u \in DOMAIN db.users : Start(r, [Idle EXCEPT !.op = "delete", !.user = u])

\* Fault: the requests of the user are not in the way.
DeleteAnyway(r) ==
    /\ req[r].op = "delete"
    /\ Write(r, WithoutUser(db, req[r].user))

Delete(r) ==
    /\ req[r].op = "delete"
    /\ req[r].user \notin db.asks
    /\ Write(r, WithoutUser(db, req[r].user))

\* The ORM clears requested_by_id, which is NOT NULL: everything is rolled back.
DeleteRefused(r) ==
    /\ req[r].op = "delete"
    /\ req[r].user \in db.asks
    /\ Continue(r, Idle)

\* "database is locked", an exception or a killed worker: nothing is written.
GiveUp(r) == req[r] # Idle /\ Continue(r, Idle)

\* The bound is reached and nothing more arrives.
Rest ==
    /\ ~Room
    /\ \A r \in Requests : req[r] = Idle
    /\ UNCHANGED vars

Next ==
    \/ \E r \in Requests :
          \/ StartRegister(r) \/ Register(r) \/ RegisterConflict(r)
          \/ StartPage(r) \/ LookUp(r) \/ StartOpen(r) \/ Open(r)
          \/ StartTransfer(r) \/ Transfer(r) \/ TransferStale(r)
          \/ StartAsk(r) \/ Ask(r)
          \/ StartDelete(r) \/ Delete(r) \/ DeleteRefused(r) \/ GiveUp(r)
    \/ Rest

Spec == Init /\ [][Next]_vars

-----------------------------------------------------------------------------
(* Properties of every execution, however the requests interleave           *)

\* Every variable has its type.
TypeOK ==
    /\ DOMAIN db.users \subseteq Nat
    /\ \A u \in DOMAIN db.users : db.users[u] \in User
    /\ DOMAIN db.accts \subseteq Nat
    /\ \A a \in DOMAIN db.accts : db.accts[a] \in Account
    /\ \A t \in db.txn : t \in Transaction
    /\ \A v \in db.hist : v \in Version
    /\ db.inbox \subseteq Nat
    /\ db.asks \subseteq Nat
    /\ db.born \in Nat
    /\ \A r \in Requests : req[r] \in Request
    /\ alone \in BOOLEAN

\* Two registrations that both find the name free leave one user of that name
\* (register_user's queries, and the UNIQUE columns behind them).
UniqueNames ==
    \A u, v \in DOMAIN db.users : db.users[u].name = db.users[v].name => u = v

\* No transaction row names an account that is gone, although SQLite enforces
\* no foreign key and a transfer may overlap the deletion of either party: the
\* deletion runs under the lock, and a transfer whose UPDATE finds no row fails
\* (delete_user_account, transfer).
TransactionsNameAccounts ==
    \A t \in db.txn : {t.account, t.counterparty} \subseteq DOMAIN db.accts

\* A customer has an account at every moment, also when registrations, page
\* loads and deletions overlap and ids are given again: the first account is
\* committed with the user (register_user).
CustomersHaveAccounts ==
    \A u \in DOMAIN db.users : db.users[u].role = "customer" => OwnedBy(db, u) # {}

\* An account belongs to a user who exists; it fails for the account that a page
\* creates for a user who was deleted after the look-up (_get_user_accounts).
OwnersExist == \A a \in DOMAIN db.accts : db.accts[a].owner \in DOMAIN db.users

\* Every history of `hist' goes from one holder of its id to the next and never
\* back.
LivesApart ==
    \A v \in db.hist : \A w \in VersionsOf(db, v.kind, v.entity) :
        w.number < v.number => w.life <= v.life

\* The history of an id is numbered 1, 2, 3, ... through all its holders, and
\* each of them begins with a CREATE of its own after everything that is there:
\* a new user or account whose id was used before continues the numbers of the
\* holder before it (_next_version_number).  The holders' histories mix only by
\* a transfer that was loaded before the deletion and is written after the id
\* was given again: while requests do not overlap, they follow each other.
LivesInOrder ==
    /\ alone => LivesApart
    /\ \A v \in db.hist :
          LET rows == VersionsOf(db, v.kind, v.entity)
          IN  /\ v.number = Cardinality({w \in rows : w.number <= v.number})
              /\ \E w \in rows : w.type = "CREATE" /\ w.life = v.life /\ w.number <= v.number
              /\ v.type = "CREATE" => \A w \in rows : w.number < v.number => w.life < v.life

\* A transaction row disappears only together with one of its two accounts: a
\* deletion takes the other customer's row of a transfer with it, but no row
\* between two customers who stay (delete_user_account).
RowsLeaveWithParty ==
    [][\A t \in db.txn \ db'.txn :
          ~({t.account, t.counterparty} \subseteq DOMAIN db'.accts)]_vars

\* Transactions are never deleted (the docstring of Transaction).
NeverDeleted == [][db.txn \subseteq db'.txn]_vars

-----------------------------------------------------------------------------
(* Properties of executions in which requests do not overlap                *)

\* Nothing outlives a user but history: accounts, notifications, beneficiaries
\* and rollback requests belong to users who exist, and a version names who
\* made the change only while that user exists.  So whoever gets the id next
\* inherits nothing (delete_user_account).
NothingOutlives ==
    alone =>
        /\ \A a \in DOMAIN db.accts : db.accts[a].owner \in DOMAIN db.users
        /\ db.inbox \subseteq DOMAIN db.users
        /\ db.asks \subseteq DOMAIN db.users
        /\ \A v \in db.hist : v.by # 0 => v.by \in DOMAIN db.users

\* A customer gets one account unasked, at registration or at the first page
\* load, never one of each (register_user, _get_user_accounts).
OneDefaultAccount ==
    alone => \A u \in DOMAIN db.users :
                 Cardinality({a \in OwnedBy(db, u) : db.accts[a].default}) <= 1
=============================================================================
