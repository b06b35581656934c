----------------------------- MODULE BankingProofs -----------------------------
(***************************************************************************)
(* Proofs about Banking for every set of requests, accounts, users and     *)
(* amounts, and any bound.                                                 *)
(***************************************************************************)
EXTENDS Banking, TLAPS, FiniteSetTheorems, SequenceTheorems

-----------------------------------------------------------------------------
(* The operators that build rows and images                                 *)

\* Changing an account by an integer gives an account (_bump_account_version
\* and the two balance assignments).
LEMMA MovedType ==
    ASSUME NEW s \in Account, NEW x \in Int
    PROVE  Moved(s, x) \in Account
  BY DEF Moved, Account

\* A posted row is a row of the transactions table.
LEMMA EntryType ==
    ASSUME NEW a \in Accounts, NEW type \in TransactionTypes, NEW x \in Int, NEW c \in Int,
           NEW cp \in Accounts \cup {NoAccount}, NEW rel \in Nat, NEW b \in Int
    PROVE  Entry(a, type, x, c, cp, rel, b) \in Transaction
  BY DEF Entry, Transaction

\* Over rows numbered 1, 2, ..., n the query for the highest number gives n + 1
\* (_next_version_number).
LEMMA NextVersionNumberDense ==
    ASSUME NEW rows \in Seq(Version), \A i \in DOMAIN rows : rows[i].number = i
    PROVE  NextVersionNumber(rows) = Len(rows) + 1
  <1>1. CASE rows = <<>>
    BY <1>1 DEF NextVersionNumber
  <1>2. CASE rows # <<>>
    <2> DEFINE Highest(i) == \A j \in DOMAIN rows : rows[j].number <= rows[i].number
    <2>1. Len(rows) \in DOMAIN rows /\ Len(rows) \in Nat
      BY <1>2
    <2>2. Highest(Len(rows))
      BY <2>1
    <2>3. \A i \in DOMAIN rows : Highest(i) => i = Len(rows)
      BY <2>1
    <2>4. (CHOOSE i \in DOMAIN rows : Highest(i)) = Len(rows)
      <3> HIDE DEF Highest
      <3> QED BY <2>1, <2>2, <2>3
    <2>5. NextVersionNumber(rows) = rows[CHOOSE i \in DOMAIN rows : Highest(i)].number + 1
      BY <1>2 DEF NextVersionNumber
    <2>6. QED BY <2>1, <2>4, <2>5
  <1>3. QED BY <1>1, <1>2

\* create_version adds one row, numbered next, to the history of one entity and
\* changes nothing else but the number of audit rows.
LEMMA CreateVersionType ==
    ASSUME NEW d \in Database, Dense(d), NEW a \in Accounts,
           NEW type \in {"CREATE", "UPDATE"}, NEW old \in Account
    PROVE  /\ CreateVersion(d, a, type, old) \in Database
           /\ Dense(CreateVersion(d, a, type, old))
  <1> DEFINE row == [number |-> Len(d.hist[a]) + 1, type |-> type, old |-> old, new |-> d.acct[a]]
             e   == CreateVersion(d, a, type, old)
  <1>1. d.hist[a] \in Seq(Version) /\ d.acct[a] \in Account
    BY DEF Database
  <1>2. NextVersionNumber(d.hist[a]) = Len(d.hist[a]) + 1
    BY <1>1, NextVersionNumberDense DEF Dense
  <1>3. row \in Version
    BY <1>1 DEF Version
  <1>4. e = [d EXCEPT !.hist[a] = Append(d.hist[a], row), !.audit = d.audit + 1]
    BY <1>2 DEF CreateVersion, Database
  <1>5. Append(d.hist[a], row) \in Seq(Version)
    BY <1>1, <1>3
  <1>6. e \in Database
    <2>1. e = [opened |-> d.opened, acct |-> d.acct, txn |-> d.txn,
               hist |-> [d.hist EXCEPT ![a] = Append(d.hist[a], row)],
               audit |-> d.audit + 1, inbox |-> d.inbox]
      BY <1>4 DEF Database
    <2>2. [d.hist EXCEPT ![a] = Append(d.hist[a], row)] \in [Accounts -> Seq(Version)]
      BY <1>5 DEF Database
    <2> HIDE DEF row, e
    <2>3. QED BY <2>1, <2>2 DEF Database
  <1>7. Dense(e)
    <2> SUFFICES ASSUME NEW b \in Accounts, NEW i \in DOMAIN e.hist[b]
                 PROVE  e.hist[b][i].number = i
      BY DEF Dense
    <2>1. CASE b = a
      <3>1. e.hist[b] = Append(d.hist[a], row)
        BY <2>1, <1>4 DEF Database
      <3>2. i \in 1 .. Len(d.hist[a]) + 1
        BY <3>1, <1>1
      <3>3. QED BY <3>1, <3>2, <1>1, <2>1 DEF Dense
    <2>2. CASE b # a
      BY <2>2, <1>4 DEF Database, Dense
    <2>3. QED BY <2>1, <2>2
  <1>8. QED BY <1>6, <1>7
-----------------------------------------------------------------------------
(* The inductive invariant of the lock and the write image                  *)

Holding == {"flushed", "recorded"}

\* The image of the write transaction is the committed database while nobody
\* writes, and the requests past their flush are exactly the lock's holder.
LockInv ==
    /\ writer = NoRequest => work = db
    /\ \A r \in Requests : req[r].pc \in Holding <=> writer = r

\* A request's rows exist: its accounts, and the transaction it reverses.
Placed(q, d) ==
    /\ q.op \in {"deposit", "withdraw", "transfer", "reverse"} => q.src \in Accounts
    /\ q.op = "open" /\ q.pc \in Holding => q.src \in Accounts
    /\ q.op = "transfer" => q.dst \in Accounts
    /\ q.op = "reverse" => q.tid \in DOMAIN d.txn

\* Image e holds all that d holds, in its place.
Grows(d, e) ==
    /\ d.opened \subseteq e.opened
    /\ Len(e.txn) >= Len(d.txn)
    /\ \A t \in DOMAIN d.txn : Unchanged(d.txn[t], e.txn[t])
    /\ \A a \in Accounts : /\ Len(e.hist[a]) >= Len(d.hist[a])
                           /\ \A i \in DOMAIN d.hist[a] : e.hist[a][i] = d.hist[a][i]

IInv ==
    /\ TypeOK
    /\ LockInv
    /\ \A r \in Requests : Placed(req[r], db)
    /\ Grows(db, work)
    /\ Dense(db)
    /\ Dense(work)

LEMMA GrowsReflexive ==
    ASSUME NEW d \in Database
    PROVE  Grows(d, d)
  BY DEF Grows, Unchanged, Database

\* A row that changed twice was marked REVERSED once.
LEMMA UnchangedTransitive ==
    ASSUME NEW x \in Transaction, NEW y \in Transaction, NEW z \in Transaction,
           Unchanged(x, y), Unchanged(y, z)
    PROVE  Unchanged(x, z)
  BY DEF Unchanged, Transaction

LEMMA GrowsTransitive ==
    ASSUME NEW d \in Database, NEW e \in Database, NEW f \in Database,
           Grows(d, e), Grows(e, f)
    PROVE  Grows(d, f)
  <1>1. /\ d.opened \subseteq f.opened
        /\ Len(f.txn) >= Len(d.txn)
    BY DEF Grows, Database
  <1>2. ASSUME NEW t \in DOMAIN d.txn
        PROVE  Unchanged(d.txn[t], f.txn[t])
    <2>1. t \in DOMAIN e.txn /\ t \in DOMAIN f.txn
      BY <1>2 DEF Grows, Database
    <2>2. d.txn[t] \in Transaction /\ e.txn[t] \in Transaction /\ f.txn[t] \in Transaction
      BY <1>2, <2>1 DEF Database
    <2>3. Unchanged(d.txn[t], e.txn[t]) /\ Unchanged(e.txn[t], f.txn[t])
      BY <1>2, <2>1 DEF Grows
    <2>4. QED BY <2>2, <2>3, UnchangedTransitive
  <1>3. ASSUME NEW a \in Accounts
        PROVE  /\ Len(f.hist[a]) >= Len(d.hist[a])
               /\ \A i \in DOMAIN d.hist[a] : f.hist[a][i] = d.hist[a][i]
    <2>1. d.hist[a] \in Seq(Version) /\ e.hist[a] \in Seq(Version) /\ f.hist[a] \in Seq(Version)
      BY <1>3 DEF Database
    <2>2. Len(e.hist[a]) >= Len(d.hist[a]) /\ Len(f.hist[a]) >= Len(e.hist[a])
      BY <1>3 DEF Grows
    <2>3. ASSUME NEW i \in DOMAIN d.hist[a]
          PROVE  f.hist[a][i] = d.hist[a][i]
      <3>1. i \in DOMAIN e.hist[a]
        BY <2>1, <2>2, <2>3
      <3>2. QED BY <1>3, <2>3, <3>1 DEF Grows
    <2>4. QED BY <2>1, <2>2, <2>3
  <1>4. QED BY <1>1, <1>2, <1>3 DEF Grows

\* What a request refers to stays, because the database only grows.
LEMMA PlacedStays ==
    ASSUME NEW q, NEW d \in Database, NEW e \in Database, Placed(q, d), Grows(d, e)
    PROVE  Placed(q, e)
  BY DEF Placed, Grows, Database

\* create_version only adds.
LEMMA CreateVersionGrows ==
    ASSUME NEW d \in Database, NEW a \in Accounts, NEW type, NEW old
    PROVE  Grows(d, CreateVersion(d, a, type, old))
  <1> DEFINE row == [number |-> NextVersionNumber(d.hist[a]), type |-> type,
                     old |-> old, new |-> d.acct[a]]
             e   == CreateVersion(d, a, type, old)
  <1>1. /\ e.opened = d.opened
        /\ e.txn = d.txn
        /\ e.hist = [d.hist EXCEPT ![a] = Append(d.hist[a], row)]
    BY DEF CreateVersion, Database
  <1>2. ASSUME NEW b \in Accounts
        PROVE  /\ Len(e.hist[b]) >= Len(d.hist[b])
               /\ \A i \in DOMAIN d.hist[b] : e.hist[b][i] = d.hist[b][i]
    <2> HIDE DEF row, e
    <2>1. d.hist[b] \in Seq(Version) /\ d.hist \in [Accounts -> Seq(Version)]
      BY <1>2 DEF Database
    <2>2. CASE b = a
      BY <2>1, <2>2, <1>1
    <2>3. CASE b # a
      BY <2>1, <2>3, <1>1
    <2>4. QED BY <2>2, <2>3
  <1>3. Grows(d, e)
    <2> HIDE DEF row, e
    <2> QED BY <1>1, <1>2 DEF Grows, Unchanged, Database
  <1>4. QED BY <1>3

LEMMA NotifyImage ==
    ASSUME NEW d \in Database, Dense(d), NEW u \in Users
    PROVE  /\ Notify(d, u) \in Database
           /\ Dense(Notify(d, u))
           /\ Grows(d, Notify(d, u))
  <1> DEFINE e == Notify(d, u)
  <1>0. e = [d EXCEPT !.inbox = [d.inbox EXCEPT ![u] = d.inbox[u] + 1]]
    BY DEF Notify, Database
  <1>1. e = [opened |-> d.opened, acct |-> d.acct, txn |-> d.txn, hist |-> d.hist,
             audit |-> d.audit, inbox |-> [d.inbox EXCEPT ![u] = d.inbox[u] + 1]]
    BY <1>0 DEF Database
  <1> HIDE DEF e
  <1>2. e \in Database
    BY <1>1 DEF Database
  <1>3. Dense(e)
    BY <1>1 DEF Dense
  <1>4. Grows(d, e)
    BY <1>1 DEF Grows, Unchanged, Database
  <1>5. QED BY <1>2, <1>3, <1>4 DEF e

\* The image d with other accounts and transactions: what a flush writes.
Image(d, opened, acct, txn) ==
    [opened |-> opened, acct |-> acct, txn |-> txn,
     hist |-> d.hist, audit |-> d.audit, inbox |-> d.inbox]

LEMMA ImageGrows ==
    ASSUME NEW d \in Database, Dense(d),
           NEW opened \in SUBSET Accounts, d.opened \subseteq opened,
           NEW acct \in [Accounts -> Account],
           NEW txn \in Seq(Transaction), Len(txn) >= Len(d.txn),
           \A t \in DOMAIN d.txn : Unchanged(d.txn[t], txn[t])
    PROVE  /\ Image(d, opened, acct, txn) \in Database
           /\ Dense(Image(d, opened, acct, txn))
           /\ Grows(d, Image(d, opened, acct, txn))
  <1>1. Image(d, opened, acct, txn) \in Database
    BY DEF Image, Database
  <1>2. Dense(Image(d, opened, acct, txn))
    BY DEF Image, Dense
  <1>3. Grows(d, Image(d, opened, acct, txn))
    BY DEF Image, Grows, Database
  <1>4. QED BY <1>1, <1>2, <1>3

-----------------------------------------------------------------------------
(* The three kinds of step a request takes                                  *)

\* A step outside the lock touches nothing but the request.
LEMMA LocalStep ==
    ASSUME IInv, NEW r \in Requests, NEW s \in Request,
           req[r].pc \notin Holding, s.pc \notin Holding, Placed(s, db),
           Become(r, s), UNCHANGED <<db, work, writer>>
    PROVE  IInv'
  <1>1. TypeOK'
    BY DEF IInv, TypeOK, Become
  <1>2. LockInv'
    BY DEF IInv, LockInv, TypeOK, Become
  <1>3. \A p \in Requests : Placed(req'[p], db')
    BY DEF IInv, TypeOK, Become
  <1>4. Grows(db', work') /\ Dense(db') /\ Dense(work')
    BY DEF IInv
  <1>5. QED BY <1>1, <1>2, <1>3, <1>4 DEF IInv, Placed

\* A flush takes the free lock with an image that only adds to the database.
LEMMA FlushStep ==
    ASSUME IInv, NEW r \in Requests, NEW s \in Request, s.pc = "flushed", Placed(s, db),
           NEW opened \in SUBSET Accounts, db.opened \subseteq opened,
           NEW acct \in [Accounts -> Account],
           NEW txn \in Seq(Transaction), Len(txn) >= Len(db.txn),
           \A t \in DOMAIN db.txn : Unchanged(db.txn[t], txn[t]),
           Flush(r, opened, acct, txn), Become(r, s)
    PROVE  IInv'
  <1> DEFINE e == Image(db, opened, acct, txn)
  <1>a. e \in Database /\ Dense(e) /\ Grows(db, e)
    BY ImageGrows DEF IInv, TypeOK
  <1>b. writer = NoRequest /\ writer' = r /\ work' = e /\ db' = db
    BY DEF Flush, Image, IInv, TypeOK, Database
  <1> HIDE DEF e
  <1>1. TypeOK'
    BY <1>a, <1>b DEF IInv, TypeOK, Become
  <1>2. LockInv'
    BY <1>b, ConstantsAssumption DEF IInv, LockInv, TypeOK, Become, Holding
  <1>3. \A p \in Requests : Placed(req'[p], db')
    BY <1>a, <1>b DEF IInv, TypeOK, Become
  <1>4. Grows(db', work') /\ Dense(db') /\ Dense(work')
    BY <1>a, <1>b DEF IInv
  <1>5. QED BY <1>1, <1>2, <1>3, <1>4 DEF IInv, Placed

\* Under the lock the image grows further.
LEMMA RecordStep ==
    ASSUME IInv, NEW r \in Requests, NEW e \in Database,
           req[r].pc = "flushed", Dense(e), Grows(work, e), Record(r, e)
    PROVE  IInv'
  <1>1. TypeOK'
    BY DEF IInv, TypeOK, Become, Record, Request, Phases
  <1>2. writer = r
    BY DEF IInv, LockInv, Holding
  <1>3. LockInv'
    BY <1>2, ConstantsAssumption DEF IInv, LockInv, TypeOK, Become, Record, Holding, Request
  <1>4. \A p \in Requests : Placed(req'[p], db')
    BY DEF IInv, TypeOK, Become, Record, Placed, Request, Holding
  <1>5. Grows(db', work') /\ Dense(db') /\ Dense(work')
    BY GrowsTransitive DEF IInv, TypeOK, Record
  <1>6. QED BY <1>1, <1>3, <1>4, <1>5 DEF IInv, Placed

LEMMA CommitStep ==
    ASSUME IInv, NEW r \in Requests, Commit(r)
    PROVE  IInv'
  <1>1. TypeOK'
    BY ConstantsAssumption
    DEF IInv, TypeOK, Commit, Become, Idle, Request, Phases, Operations, Account, Fresh
  <1>2. LockInv'
    BY ConstantsAssumption DEF IInv, LockInv, TypeOK, Commit, Become, Idle, Holding
  <1>3. ASSUME NEW p \in Requests
        PROVE  Placed(req'[p], db')
    <2>1. CASE p = r
      BY <2>1 DEF Commit, Become, Idle, Placed, IInv, TypeOK
    <2>2. CASE p # r
      <3>1. Placed(req[p], work)
        BY PlacedStays DEF IInv, TypeOK
      <3>2. req'[p] = req[p] /\ db' = work
        BY <2>2 DEF Commit, Become, IInv, TypeOK
      <3>3. QED BY <3>1, <3>2
    <2>3. QED BY <2>1, <2>2
  <1>4. Grows(db', work') /\ Dense(db') /\ Dense(work')
    BY GrowsReflexive DEF IInv, TypeOK, Commit
  <1>5. QED BY <1>1, <1>2, <1>3, <1>4 DEF IInv, Placed

LEMMA FailStep ==
    ASSUME IInv, NEW r \in Requests, Fail(r)
    PROVE  IInv'
  <1>1. TypeOK'
    BY ConstantsAssumption
    DEF IInv, TypeOK, Fail, Become, Idle, Request, Phases, Operations, Account, Fresh
  <1>2. LockInv'
    BY ConstantsAssumption DEF IInv, LockInv, TypeOK, Fail, Become, Idle, Holding
  <1>3. \A p \in Requests : Placed(req'[p], db')
    BY DEF IInv, TypeOK, Fail, Become, Idle, Placed
  <1>4. Grows(db', work') /\ Dense(db') /\ Dense(work')
    BY GrowsReflexive DEF IInv, TypeOK, Fail
  <1>5. QED BY <1>1, <1>2, <1>3, <1>4 DEF IInv, Placed

-----------------------------------------------------------------------------
(* Every action preserves the invariant                                     *)

LEMMA InitIInv == Init => IInv
  <1> SUFFICES ASSUME Init PROVE IInv
    OBVIOUS
  <1> DEFINE created == [number |-> 1, type |-> "CREATE", old |-> Fresh, new |-> Fresh]
  <1>1. Fresh \in Account
    BY DEF Fresh, Account
  <1>2. created \in Version /\ <<created>> \in Seq(Version)
    BY <1>1 DEF Version
  <1>3. \A S \in SUBSET Accounts : Cardinality(S) \in Nat
    BY ConstantsAssumption, FS_Subset, FS_CardinalityType
  <1>4. /\ Cardinality(InitialAccounts) \in Nat
        /\ \A u \in Users : Cardinality({a \in InitialAccounts : Owner[a] = u}) \in Nat
    <2>1. \A u \in Users : {a \in InitialAccounts : Owner[a] = u} \in SUBSET Accounts
      BY ConstantsAssumption
    <2>2. QED BY <1>3, <2>1, ConstantsAssumption
  <1>5. db \in Database
    <2>1. \A a \in Accounts : db.hist[a] \in Seq(Version)
      BY <1>2 DEF Init
    <2>2. db.hist \in [Accounts -> Seq(Version)]
      BY <2>1 DEF Init
    <2>3. db.inbox \in [Users -> Nat]
      BY <1>4 DEF Init
    <2>4. db.txn \in Seq(Transaction) /\ db.acct \in [Accounts -> Account]
      BY <1>1 DEF Init
    <2>5. QED BY <1>4, <2>2, <2>3, <2>4, ConstantsAssumption DEF Init, Database
  <1>6. Idle \in Request
    BY <1>1 DEF Idle, Request, Phases, Operations
  <1>7. TypeOK
    BY <1>5, <1>6 DEF Init, TypeOK
  <1>8. LockInv
    BY ConstantsAssumption DEF Init, LockInv, Idle, Holding
  <1>9. \A r \in Requests : Placed(req[r], db)
    BY DEF Init, Placed, Idle
  <1>10. Grows(db, work)
    BY <1>5, GrowsReflexive DEF Init
  <1>11. Dense(db) /\ Dense(work)
    BY DEF Init, Dense
  <1>12. QED BY <1>7, <1>8, <1>9, <1>10, <1>11 DEF IInv

\* Loading, refusing and giving up change only the request.
LEMMA LocalSteps ==
    ASSUME IInv, NEW r \in Requests,
           \/ Start(r) \/ LoadDestination(r) \/ LoadReversed(r) \/ RejectReversed(r)
           \/ Reject(r) \/ Busy(r)
    PROVE  IInv'
  <1>1. /\ db \in Database
        /\ req \in [Requests -> Request]
        /\ \A a \in Accounts : db.acct[a] \in Account
        /\ db.opened \subseteq Accounts
        /\ \A t \in DOMAIN db.txn : t \in Nat /\ db.txn[t] \in Transaction
        /\ Placed(req[r], db)
    BY DEF IInv, TypeOK, Database
  <1>2. Idle \in Request /\ Idle.pc \notin Holding /\ Placed(Idle, db)
    BY DEF Idle, Request, Phases, Operations, Account, Fresh, Holding, Placed
  <1>3. CASE StartOpen(r)
    <2> DEFINE s == [Idle EXCEPT !.pc = "loaded", !.op = "open"]
    <2>1. s \in Request /\ s.pc \notin Holding /\ Placed(s, db)
      BY <1>2 DEF Idle, Request, Phases, Operations, Holding, Placed
    <2>2. req[r].pc \notin Holding /\ Become(r, s) /\ UNCHANGED <<db, work, writer>>
      BY <1>3 DEF StartOpen, MayStart, Holding
    <2>3. QED BY <2>1, <2>2, LocalStep
  <1>4. CASE StartSingle(r)
    <2>1. PICK op \in {"deposit", "withdraw"}, a \in db.opened, x \in Amounts :
             Become(r, [Idle EXCEPT !.pc = "loaded", !.op = op, !.src = a,
                                    !.amount = x, !.from = db.acct[a]])
      BY <1>4 DEF StartSingle
    <2> DEFINE s == [Idle EXCEPT !.pc = "loaded", !.op = op, !.src = a,
                                 !.amount = x, !.from = db.acct[a]]
    <2>2. s \in Request /\ s.pc \notin Holding /\ Placed(s, db)
      BY <1>1, <1>2, ConstantsAssumption DEF Idle, Request, Phases, Operations, Holding, Placed
    <2>3. req[r].pc \notin Holding /\ UNCHANGED <<db, work, writer>>
      BY <1>4 DEF StartSingle, MayStart, Holding
    <2>4. QED BY <2>1, <2>2, <2>3, LocalStep
  <1>5. CASE StartTransfer(r)
    <2>1. PICK f \in db.opened, d \in db.opened, x \in Amounts :
             Become(r, [Idle EXCEPT !.pc = "loading", !.op = "transfer", !.src = f,
                                    !.dst = d, !.amount = x, !.from = db.acct[f]])
      BY <1>5 DEF StartTransfer
    <2> DEFINE s == [Idle EXCEPT !.pc = "loading", !.op = "transfer", !.src = f,
                                 !.dst = d, !.amount = x, !.from = db.acct[f]]
    <2>2. s \in Request /\ s.pc \notin Holding /\ Placed(s, db)
      BY <1>1, <1>2, ConstantsAssumption DEF Idle, Request, Phases, Operations, Holding, Placed
    <2>3. req[r].pc \notin Holding /\ UNCHANGED <<db, work, writer>>
      BY <1>5 DEF StartTransfer, MayStart, Holding
    <2>4. QED BY <2>1, <2>2, <2>3, LocalStep
  <1>6. CASE StartReverse(r)
    <2>1. PICK t \in DOMAIN db.txn :
             Become(r, [Idle EXCEPT !.pc = "loading", !.op = "reverse", !.tid = t,
                                    !.src = db.txn[t].account, !.seen = db.txn[t].status])
      BY <1>6 DEF StartReverse
    <2> DEFINE s == [Idle EXCEPT !.pc = "loading", !.op = "reverse", !.tid = t,
                                 !.src = db.txn[t].account, !.seen = db.txn[t].status]
    <2>2. s \in Request /\ s.pc \notin Holding /\ Placed(s, db)
      BY <1>1, <1>2 DEF Idle, Request, Transaction, Phases, Operations, Holding, Placed
    <2>3. req[r].pc \notin Holding /\ UNCHANGED <<db, work, writer>>
      BY <1>6 DEF StartReverse, MayStart, Holding
    <2>4. QED BY <2>1, <2>2, <2>3, LocalStep
  <1>7. CASE LoadDestination(r)
    <2> DEFINE s == [req[r] EXCEPT !.pc = "loaded", !.to = db.acct[req[r].dst]]
    <2>1. s \in Request /\ s.pc \notin Holding /\ Placed(s, db)
      BY <1>1, <1>7 DEF LoadDestination, At, Request, Phases, Holding, Placed
    <2>2. req[r].pc \notin Holding /\ Become(r, s) /\ UNCHANGED <<db, work, writer>>
      BY <1>7 DEF LoadDestination, At, Holding
    <2>3. QED BY <2>1, <2>2, LocalStep
  <1>8. CASE LoadReversed(r)
    <2> DEFINE s == [req[r] EXCEPT !.pc = "loaded", !.from = db.acct[req[r].src]]
    <2>1. s \in Request /\ s.pc \notin Holding /\ Placed(s, db)
      BY <1>1, <1>8 DEF LoadReversed, At, Request, Phases, Holding, Placed
    <2>2. req[r].pc \notin Holding /\ Become(r, s) /\ UNCHANGED <<db, work, writer>>
      BY <1>8 DEF LoadReversed, At, Holding
    <2>3. QED BY <2>1, <2>2, LocalStep
  <1>9. CASE RejectReversed(r) \/ Reject(r) \/ Busy(r)
    <2>1. req[r].pc \notin Holding /\ Become(r, Idle) /\ UNCHANGED <<db, work, writer>>
      BY <1>9 DEF RejectReversed, Reject, Busy, At, Holding
    <2>2. QED BY <1>2, <2>1, LocalStep
  <1>10. QED BY <1>3, <1>4, <1>5, <1>6, <1>7, <1>8, <1>9 DEF Start

\* A posted single row: a deposit or a withdrawal.
LEMMA PostSingleStep ==
    ASSUME IInv, NEW r \in Requests, NEW type \in TransactionTypes, NEW change \in Int,
           req[r].op \in {"deposit", "withdraw"}, PostSingle(r, type, change)
    PROVE  IInv'
  <1> DEFINE q    == req[r]
             new  == Moved(q.from, change)
             row  == Entry(q.src, type, q.amount, change, NoAccount, 0, new.balance)
             acct == [db.acct EXCEPT ![q.src] = new]
             txn  == Append(db.txn, row)
             s    == [q EXCEPT !.pc = "flushed"]
  <1>1. /\ db \in Database /\ q \in Request /\ Placed(q, db)
        /\ q.src \in Accounts /\ q.from \in Account /\ q.amount \in Int
    BY DEF IInv, TypeOK, Request, Placed
  <1>2. new \in Account /\ new.balance \in Int
    BY <1>1, MovedType DEF Account
  <1>3. row \in Transaction
    BY <1>1, <1>2, EntryType
  <1>4. Flush(r, db.opened, acct, txn) /\ Become(r, s)
    BY DEF PostSingle
  <1>5. s \in Request /\ s.pc = "flushed" /\ Placed(s, db)
    BY <1>1 DEF Request, Phases, Placed
  <1>6. acct \in [Accounts -> Account] /\ db.opened \in SUBSET Accounts
    BY <1>1, <1>2 DEF Database
  <1>7. /\ txn \in Seq(Transaction)
        /\ Len(txn) >= Len(db.txn)
        /\ \A t \in DOMAIN db.txn : Unchanged(db.txn[t], txn[t])
    <2> HIDE DEF row
    <2> QED BY <1>1, <1>3 DEF Database, Unchanged
  <1> HIDE DEF acct, txn, s
  <1>8. QED BY <1>4, <1>5, <1>6, <1>7, FlushStep

LEMMA TransferStep ==
    ASSUME IInv, NEW r \in Requests, Transfer(r)
    PROVE  IInv'
  <1> DEFINE q    == req[r]
             paid == Moved(q.from, -q.amount)
             got  == Moved(q.to, q.amount)
             out  == Entry(q.src, "TRANSFER", q.amount, -q.amount, q.dst, 0, paid.balance)
             in   == Entry(q.dst, "TRANSFER", q.amount, q.amount, q.src, 0, got.balance)
             acct == [db.acct EXCEPT ![q.src] = paid, ![q.dst] = got]
             txn  == db.txn \o <<out, in>>
             s    == [q EXCEPT !.pc = "flushed"]
  <1>1. /\ db \in Database /\ q \in Request /\ Placed(q, db) /\ q.op = "transfer"
        /\ q.src \in Accounts /\ q.dst \in Accounts
        /\ q.from \in Account /\ q.to \in Account /\ q.amount \in Int
    BY DEF IInv, TypeOK, Request, Placed, Transfer, At
  <1>2. paid \in Account /\ got \in Account /\ paid.balance \in Int /\ got.balance \in Int
    <2>1. -q.amount \in Int
      BY <1>1
    <2>2. paid \in Account /\ got \in Account
      BY <1>1, <2>1, MovedType
    <2>3. QED BY <2>2 DEF Account
  <1>3. out \in Transaction /\ in \in Transaction
    BY <1>1, <1>2, EntryType DEF TransactionTypes
  <1>4. Flush(r, db.opened, acct, txn) /\ Become(r, s)
    BY DEF Transfer
  <1>5. s \in Request /\ s.pc = "flushed" /\ Placed(s, db)
    BY <1>1 DEF Request, Phases, Placed
  <1>6. acct \in [Accounts -> Account] /\ db.opened \in SUBSET Accounts
    BY <1>1, <1>2 DEF Database
  <1>7. /\ txn \in Seq(Transaction)
        /\ Len(txn) >= Len(db.txn)
        /\ \A t \in DOMAIN db.txn : Unchanged(db.txn[t], txn[t])
    <2> HIDE DEF out, in
    <2> QED BY <1>1, <1>3 DEF Database, Unchanged
  <1> HIDE DEF acct, txn, s
  <1>8. QED BY <1>4, <1>5, <1>6, <1>7, FlushStep

LEMMA ReverseStep ==
    ASSUME IInv, NEW r \in Requests, Reverse(r)
    PROVE  IInv'
  <1> DEFINE q        == req[r]
             original == db.txn[q.tid]
             change   == ReversalChange(original)
             new      == Moved(q.from, change)
             marked   == [db.txn EXCEPT ![q.tid] = [original EXCEPT !.status = "REVERSED"]]
             row      == Entry(q.src, "REVERSAL", original.amount, change, NoAccount, q.tid, new.balance)
             acct     == [db.acct EXCEPT ![q.src] = new]
             txn      == Append(marked, row)
             s        == [q EXCEPT !.pc = "flushed"]
  <1>1. /\ db \in Database /\ q \in Request /\ Placed(q, db) /\ q.op = "reverse"
        /\ q.src \in Accounts /\ q.tid \in DOMAIN db.txn /\ q.from \in Account
    BY DEF IInv, TypeOK, Request, Placed, Reverse, At
  <1>2. original \in Transaction /\ original.amount \in Int /\ q.tid \in Nat
    <2>1. original \in Transaction
      BY <1>1 DEF Database
    <2>2. QED BY <1>1, <2>1 DEF Transaction, Request
  <1>3. change \in Int
    BY <1>2 DEF ReversalChange
  <1>4. new \in Account /\ new.balance \in Int
    BY <1>1, <1>3, MovedType DEF Account
  <1>5. row \in Transaction
    BY <1>1, <1>2, <1>3, <1>4, EntryType DEF TransactionTypes
  <1>6. Flush(r, db.opened, acct, txn) /\ Become(r, s)
    BY DEF Reverse
  <1>7. s \in Request /\ s.pc = "flushed" /\ Placed(s, db)
    BY <1>1 DEF Request, Phases, Placed
  <1>8. acct \in [Accounts -> Account] /\ db.opened \in SUBSET Accounts
    BY <1>1, <1>4 DEF Database
  <1>9. /\ marked \in Seq(Transaction)
        /\ Len(marked) = Len(db.txn)
        /\ \A t \in DOMAIN db.txn : Unchanged(db.txn[t], marked[t])
    <2>1. [original EXCEPT !.status = "REVERSED"] \in Transaction
      BY <1>2 DEF Transaction
    <2>2. db.txn \in Seq(Transaction)
      BY <1>1 DEF Database
    <2>3. marked \in Seq(Transaction) /\ Len(marked) = Len(db.txn)
      BY <1>1, <2>1, <2>2
    <2>4. ASSUME NEW t \in DOMAIN db.txn
          PROVE  Unchanged(db.txn[t], marked[t])
      BY <1>1, <2>2 DEF Unchanged
    <2>5. QED BY <2>3, <2>4
  <1>10. /\ txn \in Seq(Transaction)
         /\ Len(txn) >= Len(db.txn)
         /\ \A t \in DOMAIN db.txn : txn[t] = marked[t]
    <2> HIDE DEF row, marked
    <2> QED BY <1>1, <1>5, <1>9 DEF Database
  <1>11. \A t \in DOMAIN db.txn : Unchanged(db.txn[t], txn[t])
    BY <1>9, <1>10
  <1> HIDE DEF acct, txn, s
  <1>12. QED BY <1>6, <1>7, <1>8, <1>10, <1>11, FlushStep

LEMMA OpenStep ==
    ASSUME IInv, NEW r \in Requests, Open(r)
    PROVE  IInv'
  <1>1. PICK a \in Accounts \ db.opened :
           /\ Flush(r, db.opened \cup {a}, [db.acct EXCEPT ![a] = Fresh], db.txn)
           /\ Become(r, [req[r] EXCEPT !.pc = "flushed", !.src = a])
    BY DEF Open
  <1> DEFINE acct == [db.acct EXCEPT ![a] = Fresh]
             s    == [req[r] EXCEPT !.pc = "flushed", !.src = a]
  <1>2. /\ db \in Database /\ req[r] \in Request
        /\ Placed(req[r], db) /\ req[r].op = "open"
    BY DEF IInv, TypeOK, Open, At
  <1>3. s \in Request /\ s.pc = "flushed" /\ Placed(s, db)
    BY <1>2 DEF Request, Phases, Placed
  <1>4. acct \in [Accounts -> Account]
    BY <1>2 DEF Database, Fresh, Account
  <1>5. /\ db.opened \cup {a} \in SUBSET Accounts
        /\ db.txn \in Seq(Transaction)
        /\ Len(db.txn) >= Len(db.txn)
        /\ \A t \in DOMAIN db.txn : Unchanged(db.txn[t], db.txn[t])
    BY <1>2 DEF Database, Unchanged
  <1> HIDE DEF acct, s
  <1>6. QED BY <1>1, <1>3, <1>4, <1>5, FlushStep DEF acct, s

\* Recording versions, audit rows and notifications only adds to the image.
LEMMA RecordSteps ==
    ASSUME IInv, NEW r \in Requests,
           RecordOpen(r) \/ RecordSingle(r) \/ RecordTransfer(r) \/ RecordReverse(r)
    PROVE  IInv'
  <1> DEFINE q == req[r]
  <1>1. /\ work \in Database /\ Dense(work)
        /\ q \in Request /\ q.from \in Account /\ q.to \in Account /\ Fresh \in Account
        /\ Placed(q, db)
        /\ \A a \in Accounts : Owner[a] \in Users
    BY ConstantsAssumption DEF IInv, TypeOK, Request, Fresh, Account
  <1>2. CASE RecordOpen(r)
    <2> DEFINE c == CreateVersion(work, q.src, "CREATE", Fresh)
               e == Notify(c, Owner[q.src])
    <2>1. q.pc = "flushed" /\ q.src \in Accounts /\ Record(r, e)
      BY <1>1, <1>2 DEF RecordOpen, At, Placed, Holding
    <2>2. c \in Database /\ Dense(c) /\ Grows(work, c)
      BY <1>1, <2>1, CreateVersionType, CreateVersionGrows
    <2> HIDE DEF c
    <2>3. e \in Database /\ Dense(e) /\ Grows(c, e)
      BY <1>1, <2>1, <2>2, NotifyImage
    <2> HIDE DEF e
    <2>4. Grows(work, e)
      BY <1>1, <2>2, <2>3, GrowsTransitive
    <2>5. QED BY <2>1, <2>3, <2>4, RecordStep
  <1>3. CASE RecordSingle(r)
    <2> DEFINE c == CreateVersion(work, q.src, "UPDATE", q.from)
               e == Notify(c, Owner[q.src])
    <2>1. q.pc = "flushed" /\ q.src \in Accounts /\ Record(r, e)
      BY <1>1, <1>3 DEF RecordSingle, At, Placed
    <2>2. c \in Database /\ Dense(c) /\ Grows(work, c)
      BY <1>1, <2>1, CreateVersionType, CreateVersionGrows
    <2> HIDE DEF c
    <2>3. e \in Database /\ Dense(e) /\ Grows(c, e)
      BY <1>1, <2>1, <2>2, NotifyImage
    <2> HIDE DEF e
    <2>4. Grows(work, e)
      BY <1>1, <2>2, <2>3, GrowsTransitive
    <2>5. QED BY <2>1, <2>3, <2>4, RecordStep
  <1>4. CASE RecordTransfer(r)
    <2> DEFINE one  == CreateVersion(work, q.src, "UPDATE", q.from)
               both == CreateVersion(one, q.dst, "UPDATE", q.to)
               sent == Notify(both, Owner[q.src])
               e    == IF Owner[q.dst] = Owner[q.src] THEN sent ELSE Notify(sent, Owner[q.dst])
    <2>1. q.pc = "flushed" /\ q.src \in Accounts /\ q.dst \in Accounts /\ Record(r, e)
      BY <1>1, <1>4 DEF RecordTransfer, At, Placed
    <2>2. one \in Database /\ Dense(one) /\ Grows(work, one)
      BY <1>1, <2>1, CreateVersionType, CreateVersionGrows
    <2> HIDE DEF one
    <2>3. both \in Database /\ Dense(both) /\ Grows(one, both)
      BY <1>1, <2>1, <2>2, CreateVersionType, CreateVersionGrows
    <2> HIDE DEF both
    <2>4. sent \in Database /\ Dense(sent) /\ Grows(both, sent)
      BY <1>1, <2>1, <2>3, NotifyImage
    <2> HIDE DEF sent
    <2>5. e \in Database /\ Dense(e) /\ Grows(sent, e)
      BY <1>1, <2>1, <2>4, NotifyImage, GrowsReflexive
    <2> HIDE DEF e
    <2>6. Grows(work, both)
      BY <1>1, <2>2, <2>3, GrowsTransitive
    <2>7. Grows(work, sent)
      BY <1>1, <2>3, <2>4, <2>6, GrowsTransitive
    <2>8. Grows(work, e)
      BY <1>1, <2>4, <2>5, <2>7, GrowsTransitive
    <2>9. QED BY <2>1, <2>5, <2>8, RecordStep
  <1>5. CASE RecordReverse(r)
    <2> DEFINE e == CreateVersion(work, q.src, "UPDATE", q.from)
    <2>1. q.pc = "flushed" /\ q.src \in Accounts /\ Record(r, e)
      BY <1>1, <1>5 DEF RecordReverse, At, Placed
    <2>2. e \in Database /\ Dense(e) /\ Grows(work, e)
      BY <1>1, <2>1, CreateVersionType, CreateVersionGrows
    <2> HIDE DEF e
    <2>3. QED BY <2>1, <2>2, RecordStep
  <1>6. QED BY <1>2, <1>3, <1>4, <1>5

LEMMA NextIInv ==
    ASSUME IInv, [Next]_vars
    PROVE  IInv'
  <1>1. CASE UNCHANGED vars
    BY <1>1 DEF vars, IInv, TypeOK, LockInv, Placed, Dense, Grows
  <1>2. CASE Rest
    BY <1>1, <1>2 DEF Rest
  <1>3. ASSUME NEW r \in Requests, Start(r) \/ Step(r) \/ Fail(r)
        PROVE  IInv'
    <2>1. CASE Start(r)
      BY <2>1, LocalSteps
    <2>2. CASE LoadDestination(r) \/ LoadReversed(r) \/ RejectReversed(r) \/ Reject(r) \/ Busy(r)
      BY <2>2, LocalSteps
    <2>3. CASE Open(r)
      BY <2>3, OpenStep
    <2>4. CASE Deposit(r) \/ Withdraw(r)
      <3>1. req[r].amount \in Int /\ req[r].op \in {"deposit", "withdraw"}
        BY <2>4 DEF Deposit, Withdraw, At, IInv, TypeOK, Request
      <3>2. -req[r].amount \in Int
        BY <3>1
      <3>3. PICK type \in TransactionTypes, change \in Int : PostSingle(r, type, change)
        BY <2>4, <3>1, <3>2 DEF Deposit, Withdraw, TransactionTypes
      <3>4. QED BY <3>1, <3>3, PostSingleStep
    <2>5. CASE Transfer(r)
      BY <2>5, TransferStep
    <2>6. CASE Reverse(r)
      BY <2>6, ReverseStep
    <2>7. CASE RecordOpen(r) \/ RecordSingle(r) \/ RecordTransfer(r) \/ RecordReverse(r)
      BY <2>7, RecordSteps
    <2>8. CASE Commit(r)
      BY <2>8, CommitStep
    <2>9. CASE Fail(r)
      BY <2>9, FailStep
    <2>10. QED BY <1>3, <2>1, <2>2, <2>3, <2>4, <2>5, <2>6, <2>7, <2>8, <2>9 DEF Step
  <1>4. QED BY <1>1, <1>2, <1>3 DEF Next

THEOREM InductiveInvariant == Spec => []IInv
  BY InitIInv, NextIInv, PTL DEF Spec

\* Every reachable state is well typed, however many requests overlap.
THEOREM TypeCorrect == Spec => []TypeOK
  <1>1. IInv => TypeOK
    BY DEF IInv
  <1>2. QED BY <1>1, InductiveInvariant, PTL

\* Version numbers of an account are 1, 2, 3, ... for any number of
\* overlapping requests: reading the highest number after the flush is enough
\* (create_version, _next_version_number).
THEOREM VersionNumbersDense == Spec => []VersionsDense
  <1>1. IInv => VersionsDense
    BY DEF IInv, VersionsDense
  <1>2. QED BY <1>1, InductiveInvariant, PTL

\* No step of any request removes or edits a transaction row, beyond marking it
\* REVERSED, or a version row (Transaction's docstring; README's forward-only
\* history).
THEOREM RowsAppendOnly == Spec => AppendOnly
  <1> DEFINE Kept == /\ Len(db'.txn) >= Len(db.txn)
                     /\ \A t \in DOMAIN db.txn : Unchanged(db.txn[t], db'.txn[t])
                     /\ \A a \in Accounts :
                           /\ Len(db'.hist[a]) >= Len(db.hist[a])
                           /\ \A i \in DOMAIN db.hist[a] : db'.hist[a][i] = db.hist[a][i]
  <1>1. ASSUME IInv, [Next]_vars
        PROVE  [Kept]_vars
    <2>1. Grows(db, db) /\ Grows(db, work)
      BY <1>1, GrowsReflexive DEF IInv, TypeOK
    <2>2. db' = db \/ db' = work
      BY <1>1
      DEF vars, Next, Rest, Start, Step, StartOpen, StartSingle, StartTransfer, StartReverse,
          LoadDestination, LoadReversed, RejectReversed, Reject, Busy, Open, Deposit, Withdraw,
          PostSingle, Transfer, Reverse, Flush, Record, RecordOpen, RecordSingle, RecordTransfer,
          RecordReverse, Commit, Fail
    <2>3. QED BY <2>1, <2>2 DEF Grows
  <1>2. QED BY <1>1, InductiveInvariant, PTL DEF Spec, AppendOnly

-----------------------------------------------------------------------------
(* Overdrafts                                                               *)

\* A balance read or written for account a: both balances agree, and it is
\* negative only if d holds a reversal on a.
Covered(s, d, a) ==
    /\ s.available = s.balance
    /\ s.balance < 0 => ReversedOn(d, a)

\* Snapshots are covered as well: a stale balance was covered when it was read,
\* and rows never go away.
OverdraftInv ==
    /\ \A a \in Accounts : Covered(db.acct[a], db, a) /\ Covered(work.acct[a], work, a)
    /\ \A r \in Requests : /\ Covered(req[r].from, db, req[r].src)
                           /\ Covered(req[r].to, db, req[r].dst)
                           /\ req[r].op = "open" => req[r].from = Fresh

LEMMA CoveredStays ==
    ASSUME NEW d \in Database, NEW e \in Database, Grows(d, e),
           NEW s, NEW a, Covered(s, d, a)
    PROVE  Covered(s, e, a)
  <1> SUFFICES ASSUME NEW t \in RowsOf(d, a), d.txn[t].type = "REVERSAL"
               PROVE  t \in RowsOf(e, a) /\ e.txn[t].type = "REVERSAL"
    BY DEF Covered, ReversedOn
  <1>1. t \in DOMAIN d.txn /\ d.txn[t].account = a
    BY DEF RowsOf
  <1>2. t \in DOMAIN e.txn
    BY <1>1 DEF Grows, Database
  <1>3. d.txn[t] \in Transaction /\ Unchanged(d.txn[t], e.txn[t])
    BY <1>1 DEF Grows, Database
  <1>4. e.txn[t].account = a /\ e.txn[t].type = "REVERSAL"
    BY <1>1, <1>3 DEF Unchanged, Transaction
  <1>5. QED BY <1>2, <1>4 DEF RowsOf

LEMMA FreshCovered ==
    ASSUME NEW d, NEW a
    PROVE  Covered(Fresh, d, a)
  BY DEF Covered, Fresh

LEMMA InitOverdraft == Init => OverdraftInv
  <1> SUFFICES ASSUME Init PROVE OverdraftInv
    OBVIOUS
  <1>1. \A a \in Accounts : db.acct[a] = Fresh /\ work.acct[a] = Fresh
    BY DEF Init
  <1>2. \A r \in Requests : req[r].from = Fresh /\ req[r].to = Fresh
    BY DEF Init, Idle
  <1>3. QED BY <1>1, <1>2, FreshCovered DEF OverdraftInv

\* A flush that covers every account it writes.
LEMMA OverdraftFlush ==
    ASSUME IInv, IInv', OverdraftInv, NEW r \in Requests, NEW s,
           NEW opened, NEW acct, NEW txn, Flush(r, opened, acct, txn), Become(r, s),
           s.from = req[r].from, s.to = req[r].to,
           s.src = req[r].src \/ s.op = "open", s.dst = req[r].dst, s.op = req[r].op,
           \A a \in Accounts : acct[a] = db.acct[a] \/ Covered(acct[a], work', a)
    PROVE  OverdraftInv'
  <1>1. /\ db \in Database /\ work' \in Database /\ db' = db
        /\ work'.acct = acct
        /\ Grows(db, work')
    BY DEF IInv, TypeOK, Flush, Database
  <1>2. \A a \in Accounts : Covered(work'.acct[a], work', a)
    BY <1>1, CoveredStays DEF OverdraftInv
  <1>3. \A p \in Requests : /\ Covered(req'[p].from, db', req'[p].src)
                            /\ Covered(req'[p].to, db', req'[p].dst)
                            /\ req'[p].op = "open" => req'[p].from = Fresh
    BY <1>1, FreshCovered DEF OverdraftInv, Become, IInv, TypeOK
  <1>4. QED BY <1>1, <1>2, <1>3 DEF OverdraftInv, Covered, ReversedOn, RowsOf

\* Moving a covered balance: a credit keeps it covered, a debit that the
\* snapshot covers leaves it non-negative.
LEMMA MovedCovered ==
    ASSUME NEW d \in Database, NEW e \in Database, Grows(d, e),
           NEW q \in Account, NEW x \in Int, NEW a, Covered(q, d, a),
           x >= 0 \/ q.available + x >= 0 \/ ReversedOn(e, a)
    PROVE  Covered(Moved(q, x), e, a)
  <1>1. Covered(q, e, a)
    BY CoveredStays
  <1>2. Moved(q, x).available = Moved(q, x).balance /\ Moved(q, x).balance = q.balance + x
    BY DEF Moved, Covered, Account
  <1>3. q.balance \in Int /\ q.available = q.balance
    BY DEF Covered, Account
  <1>4. q.balance + x < 0 => ReversedOn(e, a)
    BY <1>1, <1>3 DEF Covered
  <1>5. QED BY <1>2, <1>4 DEF Covered

\* A step outside the lock, with snapshots that are covered.
LEMMA OverdraftLocal ==
    ASSUME IInv, OverdraftInv, NEW r \in Requests, NEW s,
           Become(r, s), UNCHANGED <<db, work>>,
           Covered(s.from, db, s.src), Covered(s.to, db, s.dst),
           s.op = "open" => s.from = Fresh
    PROVE  OverdraftInv'
  <1>1. \A p \in Requests : /\ Covered(req'[p].from, db, req'[p].src)
                            /\ Covered(req'[p].to, db, req'[p].dst)
                            /\ req'[p].op = "open" => req'[p].from = Fresh
    BY DEF OverdraftInv, Become, IInv, TypeOK
  <1>2. QED BY <1>1 DEF OverdraftInv, Covered, ReversedOn, RowsOf

LEMMA OverdraftLocalSteps ==
    ASSUME IInv, OverdraftInv, NEW r \in Requests,
           \/ Start(r) \/ LoadDestination(r) \/ LoadReversed(r) \/ RejectReversed(r)
           \/ Reject(r) \/ Busy(r)
    PROVE  OverdraftInv'
  <1>1. /\ req \in [Requests -> Request]
        /\ \A a \in Accounts : Covered(db.acct[a], db, a)
        /\ \A a : Covered(Fresh, db, a)
        /\ db.opened \subseteq Accounts
        /\ Placed(req[r], db)
        /\ Covered(req[r].from, db, req[r].src)
        /\ Covered(req[r].to, db, req[r].dst)
    BY FreshCovered DEF IInv, TypeOK, Database, OverdraftInv
  <1>2. /\ Covered(Idle.from, db, Idle.src)
        /\ Covered(Idle.to, db, Idle.dst)
        /\ Idle.op # "open" /\ Idle.from = Fresh /\ Idle.to = Fresh
    BY <1>1 DEF Idle
  <1>3. CASE StartOpen(r)
    <2> DEFINE s == [Idle EXCEPT !.pc = "loaded", !.op = "open"]
    <2>1. Covered(s.from, db, s.src) /\ Covered(s.to, db, s.dst) /\ s.from = Fresh
      BY <1>2 DEF Idle
    <2>2. Become(r, s) /\ UNCHANGED <<db, work>>
      BY <1>3 DEF StartOpen
    <2> HIDE DEF s
    <2>3. QED BY <2>1, <2>2, OverdraftLocal
  <1>4. CASE StartSingle(r)
    <2>1. PICK op \in {"deposit", "withdraw"}, a \in db.opened, x \in Amounts :
             Become(r, [Idle EXCEPT !.pc = "loaded", !.op = op, !.src = a,
                                    !.amount = x, !.from = db.acct[a]])
      BY <1>4 DEF StartSingle
    <2> DEFINE s == [Idle EXCEPT !.pc = "loaded", !.op = op, !.src = a,
                                 !.amount = x, !.from = db.acct[a]]
    <2>2. Covered(s.from, db, s.src) /\ Covered(s.to, db, s.dst) /\ s.op # "open"
      BY <1>1 DEF Idle
    <2>3. Become(r, s) /\ UNCHANGED <<db, work>>
      BY <1>4, <2>1 DEF StartSingle
    <2> HIDE DEF s
    <2>4. QED BY <2>2, <2>3, OverdraftLocal
  <1>5. CASE StartTransfer(r)
    <2>1. PICK f \in db.opened, d \in db.opened, x \in Amounts :
             Become(r, [Idle EXCEPT !.pc = "loading", !.op = "transfer", !.src = f,
                                    !.dst = d, !.amount = x, !.from = db.acct[f]])
      BY <1>5 DEF StartTransfer
    <2> DEFINE s == [Idle EXCEPT !.pc = "loading", !.op = "transfer", !.src = f,
                                 !.dst = d, !.amount = x, !.from = db.acct[f]]
    <2>2. Covered(s.from, db, s.src) /\ Covered(s.to, db, s.dst) /\ s.op # "open"
      BY <1>1 DEF Idle
    <2>3. Become(r, s) /\ UNCHANGED <<db, work>>
      BY <1>5, <2>1 DEF StartTransfer
    <2> HIDE DEF s
    <2>4. QED BY <2>2, <2>3, OverdraftLocal
  <1>6. CASE StartReverse(r)
    <2>1. PICK t \in DOMAIN db.txn :
             Become(r, [Idle EXCEPT !.pc = "loading", !.op = "reverse", !.tid = t,
                                    !.src = db.txn[t].account, !.seen = db.txn[t].status])
      BY <1>6 DEF StartReverse
    <2> DEFINE s == [Idle EXCEPT !.pc = "loading", !.op = "reverse", !.tid = t,
                                 !.src = db.txn[t].account, !.seen = db.txn[t].status]
    <2>2. Covered(s.from, db, s.src) /\ Covered(s.to, db, s.dst) /\ s.op # "open"
      BY <1>1 DEF Idle
    <2>3. Become(r, s) /\ UNCHANGED <<db, work>>
      BY <1>6, <2>1 DEF StartReverse
    <2> HIDE DEF s
    <2>4. QED BY <2>2, <2>3, OverdraftLocal
  <1>7. CASE LoadDestination(r)
    <2> DEFINE s == [req[r] EXCEPT !.pc = "loaded", !.to = db.acct[req[r].dst]]
    <2>1. req[r].op = "transfer" /\ req[r].dst \in Accounts
      BY <1>1, <1>7 DEF LoadDestination, At, Placed
    <2>2. Covered(s.from, db, s.src) /\ Covered(s.to, db, s.dst) /\ s.op # "open"
      BY <1>1, <2>1 DEF Request
    <2>3. Become(r, s) /\ UNCHANGED <<db, work>>
      BY <1>7 DEF LoadDestination
    <2> HIDE DEF s
    <2>4. QED BY <2>2, <2>3, OverdraftLocal
  <1>8. CASE LoadReversed(r)
    <2> DEFINE s == [req[r] EXCEPT !.pc = "loaded", !.from = db.acct[req[r].src]]
    <2>1. req[r].op = "reverse" /\ req[r].src \in Accounts
      BY <1>1, <1>8 DEF LoadReversed, At, Placed
    <2>2. Covered(s.from, db, s.src) /\ Covered(s.to, db, s.dst) /\ s.op # "open"
      BY <1>1, <2>1 DEF Request
    <2>3. Become(r, s) /\ UNCHANGED <<db, work>>
      BY <1>8 DEF LoadReversed
    <2> HIDE DEF s
    <2>4. QED BY <2>2, <2>3, OverdraftLocal
  <1>9. CASE RejectReversed(r) \/ Reject(r) \/ Busy(r)
    <2>1. Become(r, Idle) /\ UNCHANGED <<db, work>>
      BY <1>9 DEF RejectReversed, Reject, Busy
    <2>2. QED BY <1>2, <2>1, OverdraftLocal
  <1>10. QED BY <1>3, <1>4, <1>5, <1>6, <1>7, <1>8, <1>9 DEF Start

\* A deposit credits, a withdrawal takes no more than the snapshot has.
LEMMA OverdraftSingle ==
    ASSUME IInv, IInv', OverdraftInv, NEW r \in Requests, Deposit(r) \/ Withdraw(r)
    PROVE  OverdraftInv'
  <1> DEFINE q == req[r]
             s == [q EXCEPT !.pc = "flushed"]
  <1>1. /\ db \in Database /\ work' \in Database /\ q \in Request
        /\ q.src \in Accounts /\ q.from \in Account /\ q.amount \in Int
        /\ Covered(q.from, db, q.src)
    BY DEF IInv, TypeOK, Request, Placed, Deposit, Withdraw, At, OverdraftInv
  <1>2. PICK type \in TransactionTypes, change \in Int :
           /\ PostSingle(r, type, change)
           /\ change >= 0 \/ q.from.available + change >= 0
    <2>1. CASE Deposit(r)
      <3>1. PostSingle(r, "DEPOSIT", q.amount) /\ q.amount > 0
        BY <2>1 DEF Deposit, Accepted, ValidAmount, At
      <3>2. QED BY <1>1, <3>1 DEF TransactionTypes
    <2>2. CASE Withdraw(r)
      <3>1. PostSingle(r, "WITHDRAWAL", -q.amount) /\ q.from.available >= q.amount
        BY <2>2 DEF Withdraw, Accepted, Sufficient, At
      <3>2. -q.amount \in Int /\ q.from.available + (-q.amount) >= 0
        BY <1>1, <3>1 DEF Account
      <3>3. QED BY <3>1, <3>2 DEF TransactionTypes
    <2>3. QED BY <2>1, <2>2
  <1> DEFINE new  == Moved(q.from, change)
             row  == Entry(q.src, type, q.amount, change, NoAccount, 0, new.balance)
             acct == [db.acct EXCEPT ![q.src] = new]
             txn  == Append(db.txn, row)
  <1>3. Flush(r, db.opened, acct, txn) /\ Become(r, s)
    BY <1>2 DEF PostSingle
  <1>4. Grows(db, work')
    BY <1>3 DEF IInv, Flush
  <1>5. Covered(new, work', q.src)
    <2> HIDE DEF q
    <2>1. QED BY <1>1, <1>2, <1>4, MovedCovered
  <1>6. \A a \in Accounts : acct[a] = db.acct[a] \/ Covered(acct[a], work', a)
    <2> HIDE DEF new
    <2>1. QED BY <1>1, <1>5 DEF Database
  <1>7. s.from = q.from /\ s.to = q.to /\ s.src = q.src /\ s.dst = q.dst /\ s.op = q.op
    BY <1>1 DEF Request
  <1> HIDE DEF acct, txn, s
  <1>8. QED BY <1>3, <1>6, <1>7, OverdraftFlush

\* A transfer takes no more than the snapshot of its source has, and credits
\* the destination.
LEMMA OverdraftTransfer ==
    ASSUME IInv, IInv', OverdraftInv, NEW r \in Requests, Transfer(r)
    PROVE  OverdraftInv'
  <1> DEFINE q    == req[r]
             paid == Moved(q.from, -q.amount)
             got  == Moved(q.to, q.amount)
             out  == Entry(q.src, "TRANSFER", q.amount, -q.amount, q.dst, 0, paid.balance)
             in   == Entry(q.dst, "TRANSFER", q.amount, q.amount, q.src, 0, got.balance)
             acct == [db.acct EXCEPT ![q.src] = paid, ![q.dst] = got]
             txn  == db.txn \o <<out, in>>
             s    == [q EXCEPT !.pc = "flushed"]
  <1>1. /\ db \in Database /\ work' \in Database /\ q \in Request
        /\ q.src \in Accounts /\ q.dst \in Accounts
        /\ q.from \in Account /\ q.to \in Account /\ q.amount \in Int
        /\ Covered(q.from, db, q.src) /\ Covered(q.to, db, q.dst)
    BY DEF IInv, TypeOK, Request, Placed, Transfer, At, OverdraftInv
  <1>2. q.amount > 0 /\ q.from.available >= q.amount
    BY DEF Transfer, Accepted, ValidAmount, Sufficient, At
  <1>3. Flush(r, db.opened, acct, txn) /\ Become(r, s)
    BY DEF Transfer
  <1>4. Grows(db, work')
    BY <1>3 DEF IInv, Flush
  <1>5. Covered(paid, work', q.src) /\ Covered(got, work', q.dst)
    <2>1. -q.amount \in Int /\ q.from.available + (-q.amount) >= 0 /\ q.amount >= 0
      BY <1>1, <1>2 DEF Account
    <2> HIDE DEF q
    <2>2. Covered(paid, work', q.src)
      BY <1>1, <1>4, <2>1, MovedCovered
    <2>3. Covered(got, work', q.dst)
      BY <1>1, <1>4, <2>1, MovedCovered
    <2>4. QED BY <2>2, <2>3
  <1>6. \A a \in Accounts : acct[a] = db.acct[a] \/ Covered(acct[a], work', a)
    <2> HIDE DEF paid, got
    <2>1. QED BY <1>1, <1>5 DEF Database
  <1>7. s.from = q.from /\ s.to = q.to /\ s.src = q.src /\ s.dst = q.dst /\ s.op = q.op
    BY <1>1 DEF Request
  <1> HIDE DEF acct, txn, s
  <1>8. QED BY <1>3, <1>6, <1>7, OverdraftFlush

\* A reversal posts the row that excuses the balance it writes.
LEMMA OverdraftReverse ==
    ASSUME IInv, IInv', OverdraftInv, NEW r \in Requests, Reverse(r)
    PROVE  OverdraftInv'
  <1> DEFINE q        == req[r]
             original == db.txn[q.tid]
             change   == ReversalChange(original)
             new      == Moved(q.from, change)
             marked   == [db.txn EXCEPT ![q.tid] = [original EXCEPT !.status = "REVERSED"]]
             row      == Entry(q.src, "REVERSAL", original.amount, change, NoAccount, q.tid, new.balance)
             acct     == [db.acct EXCEPT ![q.src] = new]
             txn      == Append(marked, row)
             s        == [q EXCEPT !.pc = "flushed"]
  <1>1. /\ db \in Database /\ work' \in Database /\ q \in Request /\ q.tid \in DOMAIN db.txn
        /\ q.src \in Accounts /\ q.from \in Account /\ original \in Transaction
        /\ Covered(q.from, db, q.src)
    <2>1. /\ db \in Database /\ work' \in Database /\ q \in Request /\ q.tid \in DOMAIN db.txn
          /\ q.src \in Accounts /\ q.from \in Account /\ Covered(q.from, db, q.src)
      BY DEF IInv, TypeOK, Request, Placed, Reverse, At, OverdraftInv
    <2>2. QED BY <2>1 DEF Database
  <1>2. change \in Int
    BY <1>1 DEF ReversalChange, Transaction
  <1>3. Flush(r, db.opened, acct, txn) /\ Become(r, s)
    BY DEF Reverse
  <1>4. Grows(db, work')
    BY <1>3 DEF IInv, Flush
  <1>5. ReversedOn(work', q.src)
    <2>1. row.account = q.src /\ row.type = "REVERSAL"
      BY DEF Entry
    <2>2. work'.txn = txn
      BY <1>1, <1>3 DEF Flush, Database
    <2>3. Len(marked) = Len(db.txn) /\ Len(db.txn) \in Nat /\ marked \in Seq(Transaction)
      <3>1. [original EXCEPT !.status = "REVERSED"] \in Transaction
        BY <1>1 DEF Transaction
      <3>2. db.txn \in Seq(Transaction)
        BY <1>1 DEF Database
      <3>3. QED BY <1>1, <3>1, <3>2
    <2> HIDE DEF row, marked
    <2>4. Len(marked) + 1 \in DOMAIN txn /\ txn[Len(marked) + 1] = row
      BY <2>3
    <2>5. QED BY <2>1, <2>2, <2>4 DEF ReversedOn, RowsOf
  <1>6. Covered(new, work', q.src)
    <2> HIDE DEF q, change
    <2>1. QED BY <1>1, <1>2, <1>4, <1>5, MovedCovered
  <1>7. \A a \in Accounts : acct[a] = db.acct[a] \/ Covered(acct[a], work', a)
    <2> HIDE DEF new
    <2>1. QED BY <1>1, <1>6 DEF Database
  <1>8. s.from = q.from /\ s.to = q.to /\ s.src = q.src /\ s.dst = q.dst /\ s.op = q.op
    BY <1>1 DEF Request
  <1> HIDE DEF acct, txn, s
  <1>9. QED BY <1>3, <1>7, <1>8, OverdraftFlush

LEMMA OverdraftOpen ==
    ASSUME IInv, IInv', OverdraftInv, NEW r \in Requests, Open(r)
    PROVE  OverdraftInv'
  <1>1. PICK a \in Accounts \ db.opened :
           /\ Flush(r, db.opened \cup {a}, [db.acct EXCEPT ![a] = Fresh], db.txn)
           /\ Become(r, [req[r] EXCEPT !.pc = "flushed", !.src = a])
    BY DEF Open
  <1> DEFINE acct == [db.acct EXCEPT ![a] = Fresh]
             s    == [req[r] EXCEPT !.pc = "flushed", !.src = a]
  <1>2. db \in Database /\ req[r] \in Request /\ req[r].op = "open"
    BY DEF IInv, TypeOK, Open, At
  <1>3. \A b \in Accounts : acct[b] = db.acct[b] \/ Covered(acct[b], work', b)
    BY <1>2, FreshCovered DEF Database
  <1>4. s.from = req[r].from /\ s.to = req[r].to /\ s.dst = req[r].dst /\ s.op = "open"
    BY <1>2 DEF Request
  <1> HIDE DEF acct, s
  <1>5. QED BY <1>1, <1>2, <1>3, <1>4, OverdraftFlush DEF acct, s

\* create_version and create_notification touch no balance and no transaction.
LEMMA ImagesKeepRows ==
    ASSUME NEW d \in Database
    PROVE  /\ \A a, type, old : /\ CreateVersion(d, a, type, old).acct = d.acct
                               /\ CreateVersion(d, a, type, old).txn = d.txn
           /\ \A u : Notify(d, u).acct = d.acct /\ Notify(d, u).txn = d.txn
  BY DEF CreateVersion, Notify, Database

LEMMA OverdraftRecord ==
    ASSUME IInv, OverdraftInv, NEW r \in Requests,
           RecordOpen(r) \/ RecordSingle(r) \/ RecordTransfer(r) \/ RecordReverse(r)
    PROVE  OverdraftInv'
  <1> DEFINE q == req[r]
  <1>1. /\ work \in Database /\ Dense(work) /\ req \in [Requests -> Request] /\ q \in Request
        /\ q.from \in Account /\ q.to \in Account /\ Fresh \in Account
        /\ \A a \in Accounts : Owner[a] \in Users
    BY ConstantsAssumption DEF IInv, TypeOK, Request, Fresh, Account
  <1>2. PICK e : Record(r, e) /\ e.acct = work.acct /\ e.txn = work.txn
    <2>1. CASE RecordOpen(r)
      <3> DEFINE c == CreateVersion(work, q.src, "CREATE", Fresh)
                 e == Notify(c, Owner[q.src])
      <3>1. Record(r, e) /\ q.src \in Accounts
        BY <2>1 DEF RecordOpen, At, IInv, Placed, Holding
      <3>2. c \in Database /\ c.acct = work.acct /\ c.txn = work.txn
        BY <1>1, <3>1, ImagesKeepRows, CreateVersionType
      <3> HIDE DEF c
      <3>3. e.acct = work.acct /\ e.txn = work.txn
        BY <3>2, ImagesKeepRows
      <3> HIDE DEF e
      <3>4. QED BY <3>1, <3>3
    <2>2. CASE RecordSingle(r)
      <3> DEFINE c == CreateVersion(work, q.src, "UPDATE", q.from)
                 e == Notify(c, Owner[q.src])
      <3>1. Record(r, e) /\ q.src \in Accounts
        BY <2>2 DEF RecordSingle, At, IInv, Placed
      <3>2. c \in Database /\ c.acct = work.acct /\ c.txn = work.txn
        BY <1>1, <3>1, ImagesKeepRows, CreateVersionType
      <3> HIDE DEF c
      <3>3. e.acct = work.acct /\ e.txn = work.txn
        BY <3>2, ImagesKeepRows
      <3> HIDE DEF e
      <3>4. QED BY <3>1, <3>3
    <2>3. CASE RecordTransfer(r)
      <3> DEFINE one  == CreateVersion(work, q.src, "UPDATE", q.from)
                 both == CreateVersion(one, q.dst, "UPDATE", q.to)
                 sent == Notify(both, Owner[q.src])
                 e    == IF Owner[q.dst] = Owner[q.src] THEN sent ELSE Notify(sent, Owner[q.dst])
      <3>1. Record(r, e) /\ q.src \in Accounts /\ q.dst \in Accounts
        BY <2>3 DEF RecordTransfer, At, IInv, Placed
      <3>2. one \in Database /\ Dense(one) /\ one.acct = work.acct /\ one.txn = work.txn
        BY <1>1, <3>1, ImagesKeepRows, CreateVersionType
      <3> HIDE DEF one
      <3>3. both \in Database /\ Dense(both) /\ both.acct = work.acct /\ both.txn = work.txn
        BY <1>1, <3>1, <3>2, ImagesKeepRows, CreateVersionType
      <3> HIDE DEF both
      <3>4. sent \in Database /\ sent.acct = work.acct /\ sent.txn = work.txn
        BY <1>1, <3>1, <3>3, ImagesKeepRows, NotifyImage
      <3> HIDE DEF sent
      <3>5. e.acct = work.acct /\ e.txn = work.txn
        BY <3>4, ImagesKeepRows
      <3> HIDE DEF e
      <3>6. QED BY <3>1, <3>5
    <2>4. CASE RecordReverse(r)
      <3> DEFINE e == CreateVersion(work, q.src, "UPDATE", q.from)
      <3>1. Record(r, e) /\ e.acct = work.acct /\ e.txn = work.txn
        BY <1>1, <2>4, ImagesKeepRows DEF RecordReverse
      <3> HIDE DEF e
      <3>2. QED BY <3>1
    <2>5. QED BY <2>1, <2>2, <2>3, <2>4
  <1>3. work' = e /\ db' = db
    BY <1>2 DEF Record
  <1>4. \A a \in Accounts : Covered(work'.acct[a], work', a)
    BY <1>2, <1>3 DEF OverdraftInv, Covered, ReversedOn, RowsOf
  <1>5. \A p \in Requests : /\ req'[p].from = req[p].from /\ req'[p].src = req[p].src
                            /\ req'[p].to = req[p].to /\ req'[p].dst = req[p].dst
                            /\ req'[p].op = req[p].op
    BY <1>1, <1>2 DEF Record, Become, Request
  <1>6. QED BY <1>3, <1>4, <1>5 DEF OverdraftInv, Covered, ReversedOn, RowsOf

LEMMA OverdraftEnd ==
    ASSUME IInv, OverdraftInv, NEW r \in Requests, Commit(r) \/ Fail(r)
    PROVE  OverdraftInv'
  <1>1. /\ db \in Database /\ work \in Database /\ Grows(db, work)
        /\ req \in [Requests -> Request]
        /\ db' \in {db, work} /\ work' \in {db, work}
        /\ work' = db'
           \/ (db' = db /\ work' = work)
        /\ Become(r, Idle)
    BY DEF IInv, TypeOK, Commit, Fail
  <1>2. \A a \in Accounts : Covered(db'.acct[a], db', a) /\ Covered(work'.acct[a], work', a)
    BY <1>1 DEF OverdraftInv, Covered, ReversedOn, RowsOf
  <1>3. \A p \in Requests : req'[p] = req[p] \/ req'[p] = Idle
    BY <1>1 DEF Become
  <1>4. \A s, a : Covered(s, db, a) => Covered(s, db', a)
    BY <1>1, CoveredStays
  <1>5. ASSUME NEW p \in Requests
        PROVE  /\ Covered(req'[p].from, db', req'[p].src)
               /\ Covered(req'[p].to, db', req'[p].dst)
               /\ req'[p].op = "open" => req'[p].from = Fresh
    <2>1. CASE req'[p] = req[p]
      BY <1>4, <2>1 DEF OverdraftInv
    <2>2. CASE req'[p] = Idle
      <3>1. Idle.from = Fresh /\ Idle.to = Fresh
        BY DEF Idle
      <3>2. QED BY <2>2, <3>1, FreshCovered
    <2>3. QED BY <1>3, <2>1, <2>2
  <1>6. QED BY <1>2, <1>5 DEF OverdraftInv, Covered, ReversedOn, RowsOf

LEMMA NextOverdraft ==
    ASSUME IInv, IInv', OverdraftInv, [Next]_vars
    PROVE  OverdraftInv'
  <1>1. CASE UNCHANGED vars
    BY <1>1 DEF vars, OverdraftInv, Covered, ReversedOn, RowsOf
  <1>2. CASE Rest
    BY <1>1, <1>2 DEF Rest
  <1>3. ASSUME NEW r \in Requests, Start(r) \/ Step(r) \/ Fail(r)
        PROVE  OverdraftInv'
    <2>1. CASE Start(r)
      BY <2>1, OverdraftLocalSteps
    <2>2. CASE LoadDestination(r) \/ LoadReversed(r) \/ RejectReversed(r) \/ Reject(r) \/ Busy(r)
      BY <2>2, OverdraftLocalSteps
    <2>3. CASE Open(r)
      BY <2>3, OverdraftOpen
    <2>4. CASE Deposit(r) \/ Withdraw(r)
      BY <2>4, OverdraftSingle
    <2>5. CASE Transfer(r)
      BY <2>5, OverdraftTransfer
    <2>6. CASE Reverse(r)
      BY <2>6, OverdraftReverse
    <2>7. CASE RecordOpen(r) \/ RecordSingle(r) \/ RecordTransfer(r) \/ RecordReverse(r)
      BY <2>7, OverdraftRecord
    <2>8. CASE Commit(r) \/ Fail(r)
      BY <2>8, OverdraftEnd
    <2>9. QED BY <1>3, <2>1, <2>2, <2>3, <2>4, <2>5, <2>6, <2>7, <2>8 DEF Step
  <1>4. QED BY <1>1, <1>2, <1>3 DEF Next

\* No interleaving of withdrawals and transfers on stale snapshots overdraws an
\* account: a negative balance is always the doing of a reversal, the one
\* operation that checks no balance (withdraw, transfer, reverse_transaction).
THEOREM OverdraftBounded == Spec => []OverdraftOnlyByReversal
  <1>1. IInv /\ OverdraftInv => OverdraftOnlyByReversal
    BY DEF OverdraftInv, Covered, OverdraftOnlyByReversal
  <1>2. IInv /\ IInv' /\ OverdraftInv /\ [Next]_vars => OverdraftInv'
    BY NextOverdraft
  <1>3. QED BY <1>1, <1>2, InitOverdraft, InductiveInvariant, PTL DEF Spec

-----------------------------------------------------------------------------
(* The newest version and the newest row of every account                   *)

\* The two halves of HeadIsLive, of any image of the database.
NewestVersion(d, a) ==
    d.hist[a] # <<>> /\ d.hist[a][Len(d.hist[a])].new = d.acct[a]

NewestRow(d, a) ==
    \A t \in RowsOf(d, a) :
        (\A k \in RowsOf(d, a) : k <= t) => d.txn[t].after = d.acct[a].balance

\* Only open accounts have rows, and the newest one carries the balance.
RowsShow(d) ==
    /\ \A a \in d.opened : NewestRow(d, a)
    /\ \A a \in Accounts \ d.opened : RowsOf(d, a) = {}

\* The accounts whose versions a flushed request still has to write.
Touched(q) == IF q.op = "transfer" THEN {q.src, q.dst} ELSE {q.src}

\* A request works on accounts that are open.
OnOpen(q, d) ==
    /\ q.op \in {"deposit", "withdraw", "transfer", "reverse"} => q.src \in d.opened
    /\ q.op = "transfer" => q.dst \in d.opened

HeadInv ==
    /\ RowsShow(db)
    /\ RowsShow(work)
    /\ \A a \in db.opened : NewestVersion(db, a)
    /\ \A r \in Requests : req[r].pc = "flushed" =>
          \A a \in work.opened \ Touched(req[r]) : NewestVersion(work, a)
    /\ \A r \in Requests : req[r].pc = "recorded" =>
          \A a \in work.opened : NewestVersion(work, a)
    /\ \A r \in Requests : OnOpen(req[r], db)

-----------------------------------------------------------------------------
(* The operators that write rows                                            *)

\* create_version writes the newest version of its account and none of another.
LEMMA VersionIsNewest ==
    ASSUME NEW d \in Database, Dense(d), NEW a \in Accounts,
           NEW type \in {"CREATE", "UPDATE"}, NEW old \in Account
    PROVE  LET c == CreateVersion(d, a, type, old)
           IN  /\ c \in Database /\ Dense(c)
               /\ c.opened = d.opened /\ c.acct = d.acct /\ c.txn = d.txn
               /\ NewestVersion(c, a)
               /\ \A b \in Accounts : NewestVersion(d, b) => NewestVersion(c, b)
  <1> DEFINE row == [number |-> NextVersionNumber(d.hist[a]), type |-> type,
                     old |-> old, new |-> d.acct[a]]
             c   == CreateVersion(d, a, type, old)
  <1>1. c \in Database /\ Dense(c)
    BY CreateVersionType
  <1>2. /\ c.opened = d.opened /\ c.acct = d.acct /\ c.txn = d.txn
        /\ c.hist = [d.hist EXCEPT ![a] = Append(d.hist[a], row)]
    BY DEF CreateVersion, Database
  <1>3. row.new = d.acct[a]
    OBVIOUS
  <1> HIDE DEF row, c
  <1>4. d.hist \in [Accounts -> Seq(Version)]
    BY DEF Database
  <1>5. c.hist[a] = Append(d.hist[a], row) /\ \A b \in Accounts : b # a => c.hist[b] = d.hist[b]
    BY <1>2, <1>4
  <1>6. d.hist[a] \in Seq(Version) /\ Len(d.hist[a]) \in Nat
    BY <1>4
  <1>7. /\ c.hist[a] # <<>>
        /\ Len(c.hist[a]) = Len(d.hist[a]) + 1
        /\ c.hist[a][Len(d.hist[a]) + 1] = row
    BY <1>5, <1>6
  <1>8. NewestVersion(c, a)
    BY <1>2, <1>3, <1>7 DEF NewestVersion
  <1>9. \A b \in Accounts : b # a /\ NewestVersion(d, b) => NewestVersion(c, b)
    BY <1>2, <1>5 DEF NewestVersion
  <1>10. QED BY <1>1, <1>2, <1>8, <1>9 DEF c

\* A notification leaves accounts, rows and versions alone.
LEMMA NotifyShows ==
    ASSUME NEW d \in Database, Dense(d), NEW u \in Users
    PROVE  LET n == Notify(d, u)
           IN  /\ n \in Database /\ Dense(n)
               /\ n.opened = d.opened /\ n.acct = d.acct /\ n.txn = d.txn
               /\ \A b \in Accounts : NewestVersion(d, b) => NewestVersion(n, b)
  <1> DEFINE n == Notify(d, u)
  <1>1. n \in Database /\ Dense(n)
    BY NotifyImage
  <1>2. n.opened = d.opened /\ n.acct = d.acct /\ n.txn = d.txn /\ n.hist = d.hist
    BY DEF Notify, Database
  <1> HIDE DEF n
  <1>3. \A b \in Accounts : NewestVersion(d, b) => NewestVersion(n, b)
    BY <1>2 DEF NewestVersion
  <1>4. QED BY <1>1, <1>2, <1>3 DEF n

\* An account whose balance stays and that gets no row keeps its newest row.
LEMMA NoRowPosted ==
    ASSUME NEW d \in Database, NEW e \in Database, Grows(d, e), NEW a \in Accounts,
           \A t \in DOMAIN e.txn : t \notin DOMAIN d.txn => e.txn[t].account # a,
           e.acct[a] = d.acct[a]
    PROVE  RowsOf(e, a) = RowsOf(d, a) /\ (NewestRow(d, a) => NewestRow(e, a))
  <1>1. ASSUME NEW t \in DOMAIN d.txn
        PROVE  /\ t \in DOMAIN e.txn
               /\ e.txn[t].account = d.txn[t].account /\ e.txn[t].after = d.txn[t].after
    <2>1. t \in DOMAIN e.txn
      BY <1>1 DEF Grows, Database
    <2>2. d.txn[t] \in Transaction /\ Unchanged(d.txn[t], e.txn[t])
      BY <1>1 DEF Grows, Database
    <2>3. QED BY <2>1, <2>2 DEF Unchanged, Transaction
  <1>2. RowsOf(e, a) = RowsOf(d, a)
    BY <1>1 DEF RowsOf
  <1>3. NewestRow(d, a) => NewestRow(e, a)
    BY <1>1, <1>2 DEF NewestRow, RowsOf
  <1>4. QED BY <1>2, <1>3

\* A last row that carries the balance is the newest row.
LEMMA RowPosted ==
    ASSUME NEW e \in Database, NEW a \in Accounts, NEW n \in RowsOf(e, a),
           \A t \in RowsOf(e, a) : t <= n,
           e.txn[n].after = e.acct[a].balance
    PROVE  NewestRow(e, a)
  <1> SUFFICES ASSUME NEW t \in RowsOf(e, a), \A k \in RowsOf(e, a) : k <= t
               PROVE  e.txn[t].after = e.acct[a].balance
    BY DEF NewestRow
  <1>1. t \in Nat /\ n \in Nat
    BY DEF RowsOf, Database
  <1>2. t = n
    BY <1>1
  <1>3. QED BY <1>2

-----------------------------------------------------------------------------
(* The kinds of step a request takes                                        *)

LEMMA InitHead == Init => HeadInv
  <1> SUFFICES ASSUME Init PROVE HeadInv
    OBVIOUS
  <1>1. work = db /\ db.txn = <<>> /\ db.opened = InitialAccounts
    BY DEF Init
  <1>2. \A a : RowsOf(db, a) = {}
    BY <1>1 DEF RowsOf
  <1>3. RowsShow(db) /\ RowsShow(work)
    BY <1>1, <1>2 DEF RowsShow, NewestRow
  <1>4. ASSUME NEW a \in db.opened PROVE NewestVersion(db, a)
    <2> DEFINE row == [number |-> 1, type |-> "CREATE", old |-> Fresh, new |-> Fresh]
    <2>1. a \in Accounts /\ a \in InitialAccounts
      BY <1>1, <1>4, ConstantsAssumption
    <2>2. db.hist[a] = <<row>> /\ db.acct[a] = Fresh
      BY <2>1 DEF Init
    <2>3. row.new = Fresh
      OBVIOUS
    <2> HIDE DEF row
    <2>4. QED BY <2>2, <2>3 DEF NewestVersion
  <1>5. \A r \in Requests : req[r].pc = "idle" /\ req[r].op = "none"
    BY DEF Init, Idle
  <1>6. QED BY <1>3, <1>4, <1>5 DEF HeadInv, OnOpen

\* A step outside the lock, on open accounts.
LEMMA HeadLocal ==
    ASSUME IInv, HeadInv, NEW r \in Requests, NEW s,
           Become(r, s), UNCHANGED <<db, work, writer>>,
           s.pc \notin Holding, OnOpen(s, db)
    PROVE  HeadInv'
  <1>1. \A p \in Requests : req'[p] = IF p = r THEN s ELSE req[p]
    BY DEF Become, IInv, TypeOK
  <1>2. RowsShow(db') /\ RowsShow(work') /\ \A a \in db'.opened : NewestVersion(db', a)
    BY DEF HeadInv
  <1>3. \A p \in Requests : req'[p].pc = "flushed" =>
           \A a \in work'.opened \ Touched(req'[p]) : NewestVersion(work', a)
    BY <1>1 DEF HeadInv, Holding
  <1>4. \A p \in Requests : req'[p].pc = "recorded" =>
           \A a \in work'.opened : NewestVersion(work', a)
    BY <1>1 DEF HeadInv, Holding
  <1>5. \A p \in Requests : OnOpen(req'[p], db')
    BY <1>1 DEF HeadInv
  <1>6. QED BY <1>2, <1>3, <1>4, <1>5 DEF HeadInv, RowsShow, NewestRow, RowsOf, NewestVersion,
                                          Touched, OnOpen

\* A flush whose rows carry the balances it writes.
LEMMA HeadFlush ==
    ASSUME IInv, IInv', HeadInv, NEW r \in Requests, NEW s,
           NEW opened, NEW acct, NEW txn, Flush(r, opened, acct, txn), Become(r, s),
           s.pc = "flushed", OnOpen(s, db), RowsShow(work'),
           \A a \in opened \ Touched(s) : a \in db.opened /\ acct[a] = db.acct[a]
    PROVE  HeadInv'
  <1>1. /\ db' = db /\ writer' = r
        /\ work'.opened = opened /\ work'.acct = acct /\ work'.hist = db.hist
    BY DEF Flush, IInv, TypeOK, Database
  <1>2. \A p \in Requests : req'[p] = IF p = r THEN s ELSE req[p]
    BY DEF Become, IInv, TypeOK
  <1>3. \A a \in work'.opened \ Touched(s) : NewestVersion(work', a)
    BY <1>1 DEF HeadInv, NewestVersion
  <1>4. \A p \in Requests : req'[p].pc \in Holding => p = r
    BY <1>1 DEF IInv, LockInv
  <1>5. \A p \in Requests : req'[p].pc = "flushed" =>
           \A a \in work'.opened \ Touched(req'[p]) : NewestVersion(work', a)
    BY <1>2, <1>3, <1>4 DEF Holding
  <1>6. \A p \in Requests : req'[p].pc # "recorded"
    BY <1>2, <1>4 DEF Holding
  <1>7. \A p \in Requests : OnOpen(req'[p], db')
    BY <1>1, <1>2 DEF HeadInv
  <1>8. RowsShow(db') /\ \A a \in db'.opened : NewestVersion(db', a)
    BY <1>1 DEF HeadInv
  <1>9. QED BY <1>5, <1>6, <1>7, <1>8 DEF HeadInv, RowsShow, NewestRow, RowsOf, NewestVersion,
                                          Touched, OnOpen

\* Recording completes the versions.
LEMMA HeadRecord ==
    ASSUME IInv, IInv', HeadInv, NEW r \in Requests, NEW e, req[r].pc = "flushed", Record(r, e),
           e.opened = work.opened, e.acct = work.acct, e.txn = work.txn,
           \A a \in e.opened : NewestVersion(e, a)
    PROVE  HeadInv'
  <1>1. db' = db /\ work' = e /\ writer' = writer /\ writer = r
    BY DEF Record, IInv, LockInv, Holding
  <1>2. /\ \A p \in Requests \ {r} : req'[p] = req[p]
        /\ req'[r] = [req[r] EXCEPT !.pc = "recorded"] /\ req[r] \in Request
    BY DEF Record, Become, IInv, TypeOK
  <1>3. \A p \in Requests : req'[p].pc \in Holding => p = r
    BY <1>1 DEF IInv, LockInv
  <1>4. req'[r].pc = "recorded"
    BY <1>2 DEF Request
  <1>5. \A p \in Requests : /\ req'[p].pc # "flushed"
                            /\ req'[p].pc = "recorded" => \A a \in work'.opened : NewestVersion(work', a)
    BY <1>1, <1>3, <1>4 DEF Holding
  <1>6. RowsShow(work')
    BY <1>1 DEF HeadInv, RowsShow, NewestRow, RowsOf
  <1>7. \A p \in Requests : OnOpen(req'[p], db')
    <2>1. OnOpen(req'[r], db')
      BY <1>1, <1>2 DEF HeadInv, OnOpen, Request
    <2>2. \A p \in Requests \ {r} : OnOpen(req'[p], db')
      BY <1>1, <1>2 DEF HeadInv
    <2>3. QED BY <2>1, <2>2
  <1>8. RowsShow(db') /\ \A a \in db'.opened : NewestVersion(db', a)
    BY <1>1 DEF HeadInv
  <1>9. QED BY <1>5, <1>6, <1>7, <1>8 DEF HeadInv, RowsShow, NewestRow, RowsOf, NewestVersion,
                                          Touched, OnOpen

\* A commit publishes what was recorded; a failure publishes nothing.
LEMMA HeadEnd ==
    ASSUME IInv, IInv', HeadInv, NEW r \in Requests, Commit(r) \/ Fail(r)
    PROVE  HeadInv'
  <1>1. \A p \in Requests : req'[p] = IF p = r THEN Idle ELSE req[p]
    BY DEF Become, Commit, Fail, IInv, TypeOK
  <1>2. Idle.pc = "idle" /\ Idle.op = "none"
    BY DEF Idle
  <1>3. RowsShow(db') /\ RowsShow(work') /\ \A a \in db'.opened : NewestVersion(db', a)
    <2>1. CASE Commit(r)
      <3>1. db' = work /\ work' = work /\ req[r].pc = "recorded"
        BY <2>1 DEF Commit
      <3>2. QED BY <3>1 DEF HeadInv
    <2>2. CASE Fail(r)
      <3>1. db' = db /\ work' \in {work, db}
        BY <2>2 DEF Fail
      <3>2. QED BY <3>1 DEF HeadInv
    <2>3. QED BY <2>1, <2>2
  <1>4. \A p \in Requests : req'[p].pc \in Holding => p # r /\ writer = p /\ work' = work
    <2>1. \A p \in Requests : req'[p].pc \in Holding => p # r /\ req[p].pc \in Holding
      BY <1>1, <1>2 DEF Holding
    <2>2. writer # r => work' = work
      BY DEF Commit, Fail
    <2>3. QED BY <2>1, <2>2 DEF IInv, LockInv
  <1>5. \A p \in Requests : /\ req'[p].pc = "flushed" =>
                                  \A a \in work'.opened \ Touched(req'[p]) : NewestVersion(work', a)
                            /\ req'[p].pc = "recorded" =>
                                  \A a \in work'.opened : NewestVersion(work', a)
    BY <1>1, <1>4 DEF HeadInv, Holding
  <1>6. db.opened \subseteq db'.opened
    BY DEF Commit, Fail, IInv, Grows
  <1>7. \A p \in Requests : OnOpen(req'[p], db')
    BY <1>1, <1>2, <1>6 DEF HeadInv, OnOpen
  <1>8. QED BY <1>3, <1>5, <1>7 DEF HeadInv, RowsShow, NewestRow, RowsOf, NewestVersion,
                                    Touched, OnOpen

-----------------------------------------------------------------------------
(* The steps outside the lock                                               *)

\* Requests start on open accounts, and go on with those.
LEMMA HeadLocalSteps ==
    ASSUME IInv, HeadInv, NEW r \in Requests,
           \/ Start(r) \/ LoadDestination(r) \/ LoadReversed(r) \/ RejectReversed(r)
           \/ Reject(r) \/ Busy(r)
    PROVE  HeadInv'
  <1> SUFFICES \E s : /\ Become(r, s) /\ UNCHANGED <<db, work, writer>>
                      /\ s.pc \notin Holding /\ OnOpen(s, db)
    BY HeadLocal
  <1>1. req[r] \in Request /\ OnOpen(req[r], db)
    BY DEF IInv, TypeOK, HeadInv
  <1>2. CASE StartOpen(r)
    <2> DEFINE s == [Idle EXCEPT !.pc = "loaded", !.op = "open"]
    <2>1. s.pc = "loaded" /\ s.op = "open"
      BY DEF Idle
    <2>2. Become(r, s) /\ UNCHANGED <<db, work, writer>>
      BY <1>2 DEF StartOpen
    <2> HIDE DEF s
    <2>3. QED BY <2>1, <2>2 DEF OnOpen, Holding
  <1>3. CASE StartSingle(r)
    <2>1. PICK op \in {"deposit", "withdraw"}, a \in db.opened, x \in Amounts :
             Become(r, [Idle EXCEPT !.pc = "loaded", !.op = op, !.src = a,
                                    !.amount = x, !.from = db.acct[a]])
      BY <1>3 DEF StartSingle
    <2> DEFINE s == [Idle EXCEPT !.pc = "loaded", !.op = op, !.src = a,
                                 !.amount = x, !.from = db.acct[a]]
    <2>2. s.pc = "loaded" /\ s.op = op /\ s.src = a
      BY DEF Idle
    <2>3. Become(r, s) /\ UNCHANGED <<db, work, writer>>
      BY <1>3, <2>1 DEF StartSingle
    <2> HIDE DEF s
    <2>4. QED BY <2>2, <2>3 DEF OnOpen, Holding
  <1>4. CASE StartTransfer(r)
    <2>1. PICK f \in db.opened, d \in db.opened, x \in Amounts :
             Become(r, [Idle EXCEPT !.pc = "loading", !.op = "transfer", !.src = f,
                                    !.dst = d, !.amount = x, !.from = db.acct[f]])
      BY <1>4 DEF StartTransfer
    <2> DEFINE s == [Idle EXCEPT !.pc = "loading", !.op = "transfer", !.src = f,
                                 !.dst = d, !.amount = x, !.from = db.acct[f]]
    <2>2. s.pc = "loading" /\ s.op = "transfer" /\ s.src = f /\ s.dst = d
      BY DEF Idle
    <2>3. Become(r, s) /\ UNCHANGED <<db, work, writer>>
      BY <1>4, <2>1 DEF StartTransfer
    <2> HIDE DEF s
    <2>4. QED BY <2>2, <2>3 DEF OnOpen, Holding
  <1>5. CASE StartReverse(r)
    <2>1. PICK t \in DOMAIN db.txn :
             Become(r, [Idle EXCEPT !.pc = "loading", !.op = "reverse", !.tid = t,
                                    !.src = db.txn[t].account, !.seen = db.txn[t].status])
      BY <1>5 DEF StartReverse
    <2> DEFINE s == [Idle EXCEPT !.pc = "loading", !.op = "reverse", !.tid = t,
                                 !.src = db.txn[t].account, !.seen = db.txn[t].status]
    <2>2. s.pc = "loading" /\ s.op = "reverse" /\ s.src = db.txn[t].account
      BY DEF Idle
    <2>3. db.txn[t].account \in db.opened
      <3>1. db.txn \in Seq(Transaction)
        BY DEF IInv, TypeOK, Database
      <3>2. db.txn[t] \in Transaction
        BY <3>1
      <3>3. db.txn[t].account \in Accounts /\ t \in RowsOf(db, db.txn[t].account)
        BY <3>2 DEF Transaction, RowsOf
      <3>4. QED BY <3>3 DEF HeadInv, RowsShow
    <2>4. Become(r, s) /\ UNCHANGED <<db, work, writer>>
      BY <1>5, <2>1 DEF StartReverse
    <2> HIDE DEF s
    <2>5. QED BY <2>2, <2>3, <2>4 DEF OnOpen, Holding
  <1>6. CASE LoadDestination(r)
    <2> DEFINE s == [req[r] EXCEPT !.pc = "loaded", !.to = db.acct[req[r].dst]]
    <2>1. s.pc = "loaded" /\ s.op = req[r].op /\ s.src = req[r].src /\ s.dst = req[r].dst
      BY <1>1 DEF Request
    <2>2. Become(r, s) /\ UNCHANGED <<db, work, writer>>
      BY <1>6 DEF LoadDestination
    <2> HIDE DEF s
    <2>3. QED BY <1>1, <2>1, <2>2 DEF OnOpen, Holding
  <1>7. CASE LoadReversed(r)
    <2> DEFINE s == [req[r] EXCEPT !.pc = "loaded", !.from = db.acct[req[r].src]]
    <2>1. s.pc = "loaded" /\ s.op = req[r].op /\ s.src = req[r].src /\ s.dst = req[r].dst
      BY <1>1 DEF Request
    <2>2. Become(r, s) /\ UNCHANGED <<db, work, writer>>
      BY <1>7 DEF LoadReversed
    <2> HIDE DEF s
    <2>3. QED BY <1>1, <2>1, <2>2 DEF OnOpen, Holding
  <1>8. CASE RejectReversed(r) \/ Reject(r) \/ Busy(r)
    <2>1. Become(r, Idle) /\ UNCHANGED <<db, work, writer>>
      BY <1>8 DEF RejectReversed, Reject, Busy
    <2>2. Idle.pc = "idle" /\ Idle.op = "none"
      BY DEF Idle
    <2>3. QED BY <2>1, <2>2 DEF OnOpen, Holding
  <1>9. QED BY <1>2, <1>3, <1>4, <1>5, <1>6, <1>7, <1>8 DEF Start

-----------------------------------------------------------------------------
(* The flushes                                                              *)

\* Posting rows on open accounts: every account the image changes gets a row,
\* and the last of its rows carries its balance.
LEMMA PostedShows ==
    ASSUME IInv, HeadInv, NEW e \in Database, Grows(db, e), e.opened = db.opened,
           NEW S, S \subseteq db.opened,
           \A a \in Accounts \ S : e.acct[a] = db.acct[a],
           \A t \in DOMAIN e.txn : t \notin DOMAIN db.txn => e.txn[t].account \in S,
           \A a \in S : \E n \in RowsOf(e, a) :
              (\A t \in RowsOf(e, a) : t <= n) /\ e.txn[n].after = e.acct[a].balance
    PROVE  RowsShow(e)
  <1>1. db \in Database /\ db.opened \subseteq Accounts
    BY DEF IInv, TypeOK, Database
  <1>2. \A a \in S : NewestRow(e, a)
    BY <1>1, RowPosted
  <1>3. \A a \in Accounts \ S : RowsOf(e, a) = RowsOf(db, a) /\ (NewestRow(db, a) => NewestRow(e, a))
    BY <1>1, NoRowPosted
  <1>4. QED BY <1>1, <1>2, <1>3 DEF HeadInv, RowsShow

LEMMA HeadSingle ==
    ASSUME IInv, IInv', HeadInv, NEW r \in Requests, Deposit(r) \/ Withdraw(r)
    PROVE  HeadInv'
  <1> DEFINE q == req[r]
             s == [q EXCEPT !.pc = "flushed"]
  <1>1. /\ q \in Request /\ q.op \in {"deposit", "withdraw"}
        /\ q.src \in db.opened /\ q.src \in Accounts
        /\ db.txn \in Seq(Transaction) /\ Len(db.txn) \in Nat
        /\ db.acct \in [Accounts -> Account]
        /\ work' \in Database
    BY DEF IInv, TypeOK, Placed, HeadInv, OnOpen, Deposit, Withdraw, At, Database
  <1>2. PICK type, change : PostSingle(r, type, change)
    BY DEF Deposit, Withdraw
  <1> DEFINE new  == Moved(q.from, change)
             row  == Entry(q.src, type, q.amount, change, NoAccount, 0, new.balance)
             acct == [db.acct EXCEPT ![q.src] = new]
             txn  == Append(db.txn, row)
             n    == Len(db.txn) + 1
  <1>3. Flush(r, db.opened, acct, txn) /\ Become(r, s)
    BY <1>2 DEF PostSingle
  <1>4. row.account = q.src /\ row.after = new.balance
    BY DEF Entry
  <1>5. s.pc = "flushed" /\ s.op = q.op /\ s.src = q.src
    BY <1>1 DEF Request
  <1> HIDE DEF q, s, new, row
  <1>6. n \in DOMAIN txn /\ txn[n] = row /\ \A t \in DOMAIN txn : t <= n /\ (t \in DOMAIN db.txn \/ t = n)
    BY <1>1
  <1>7. /\ acct[q.src] = new
        /\ \A a \in Accounts \ {q.src} : acct[a] = db.acct[a]
    BY <1>1
  <1>8. /\ work'.txn = txn /\ work'.acct = acct /\ work'.opened = db.opened
        /\ Grows(db, work')
    BY <1>3 DEF Flush, IInv, TypeOK, Database
  <1> HIDE DEF n, acct, txn
  <1>9. RowsShow(work')
    <2> DEFINE S == {q.src}
    <2>1. n \in RowsOf(work', q.src)
      BY <1>4, <1>6, <1>8 DEF RowsOf
    <2>2. \A t \in RowsOf(work', q.src) : t <= n
      BY <1>6, <1>8 DEF RowsOf
    <2>3. work'.txn[n].after = work'.acct[q.src].balance
      BY <1>4, <1>6, <1>7, <1>8
    <2>4. \A t \in DOMAIN work'.txn : t \notin DOMAIN db.txn => work'.txn[t].account \in S
      BY <1>4, <1>6, <1>8
    <2>5. \A a \in Accounts \ S : work'.acct[a] = db.acct[a]
      BY <1>7, <1>8
    <2>6. \A a \in S : \E m \in RowsOf(work', a) :
             (\A t \in RowsOf(work', a) : t <= m) /\ work'.txn[m].after = work'.acct[a].balance
      BY <2>1, <2>2, <2>3
    <2>7. S \subseteq db.opened
      BY <1>1
    <2> HIDE DEF S
    <2>8. QED BY <1>1, <1>8, <2>4, <2>5, <2>6, <2>7, PostedShows
  <1>10. \A a \in db.opened \ Touched(s) : a \in db.opened /\ acct[a] = db.acct[a]
    BY <1>1, <1>5, <1>7 DEF Touched, IInv, TypeOK, Database
  <1>11. OnOpen(s, db)
    BY <1>1, <1>5 DEF OnOpen
  <1>12. QED BY <1>3, <1>5, <1>9, <1>10, <1>11, HeadFlush

LEMMA HeadReverse ==
    ASSUME IInv, IInv', HeadInv, NEW r \in Requests, Reverse(r)
    PROVE  HeadInv'
  <1> DEFINE q        == req[r]
             original == db.txn[q.tid]
             change   == ReversalChange(original)
             new      == Moved(q.from, change)
             closed   == [original EXCEPT !.status = "REVERSED"]
             marked   == [db.txn EXCEPT ![q.tid] = closed]
             row      == Entry(q.src, "REVERSAL", original.amount, change, NoAccount, q.tid, new.balance)
             acct     == [db.acct EXCEPT ![q.src] = new]
             txn      == Append(marked, row)
             s        == [q EXCEPT !.pc = "flushed"]
             n        == Len(db.txn) + 1
  <1>1. /\ q \in Request /\ q.op = "reverse" /\ q.tid \in DOMAIN db.txn
        /\ q.src \in db.opened /\ q.src \in Accounts
        /\ db.txn \in Seq(Transaction) /\ Len(db.txn) \in Nat
        /\ db.acct \in [Accounts -> Account]
        /\ work' \in Database
    BY DEF IInv, TypeOK, Placed, HeadInv, OnOpen, Reverse, At, Database
  <1>2. closed \in Transaction
    <2>1. original \in Transaction
      BY <1>1
    <2>2. QED BY <2>1 DEF Transaction
  <1>3. Flush(r, db.opened, acct, txn) /\ Become(r, s)
    BY DEF Reverse
  <1>4. row.account = q.src /\ row.after = new.balance
    BY DEF Entry
  <1>5. s.pc = "flushed" /\ s.op = q.op /\ s.src = q.src
    BY <1>1 DEF Request
  <1> HIDE DEF q, s, new, row, closed
  <1>6. marked \in Seq(Transaction) /\ Len(marked) = Len(db.txn)
    BY <1>1, <1>2
  <1> HIDE DEF marked
  <1>7. n \in DOMAIN txn /\ txn[n] = row /\ \A t \in DOMAIN txn : t <= n /\ (t \in DOMAIN db.txn \/ t = n)
    BY <1>1, <1>6
  <1>8. /\ acct[q.src] = new
        /\ \A a \in Accounts \ {q.src} : acct[a] = db.acct[a]
    BY <1>1
  <1>9. /\ work'.txn = txn /\ work'.acct = acct /\ work'.opened = db.opened
        /\ Grows(db, work')
    BY <1>3 DEF Flush, IInv, TypeOK, Database
  <1> HIDE DEF n, acct, txn
  <1>10. RowsShow(work')
    <2> DEFINE S == {q.src}
    <2>1. n \in RowsOf(work', q.src)
      BY <1>4, <1>7, <1>9 DEF RowsOf
    <2>2. \A t \in RowsOf(work', q.src) : t <= n
      BY <1>7, <1>9 DEF RowsOf
    <2>3. work'.txn[n].after = work'.acct[q.src].balance
      BY <1>4, <1>7, <1>8, <1>9
    <2>4. \A t \in DOMAIN work'.txn : t \notin DOMAIN db.txn => work'.txn[t].account \in S
      BY <1>4, <1>7, <1>9
    <2>5. \A a \in Accounts \ S : work'.acct[a] = db.acct[a]
      BY <1>8, <1>9
    <2>6. \A a \in S : \E m \in RowsOf(work', a) :
             (\A t \in RowsOf(work', a) : t <= m) /\ work'.txn[m].after = work'.acct[a].balance
      BY <2>1, <2>2, <2>3
    <2>7. S \subseteq db.opened
      BY <1>1
    <2> HIDE DEF S
    <2>8. QED BY <1>1, <1>9, <2>4, <2>5, <2>6, <2>7, PostedShows
  <1>11. \A a \in db.opened \ Touched(s) : a \in db.opened /\ acct[a] = db.acct[a]
    BY <1>1, <1>5, <1>8 DEF Touched, IInv, TypeOK, Database
  <1>12. OnOpen(s, db)
    BY <1>1, <1>5 DEF OnOpen
  <1>13. QED BY <1>3, <1>5, <1>10, <1>11, <1>12, HeadFlush

\* Of a transfer's two rows the first is the newest of the source, the second of
\* the destination, because the two differ.
LEMMA HeadTransfer ==
    ASSUME IInv, IInv', HeadInv, NEW r \in Requests, Transfer(r)
    PROVE  HeadInv'
  <1> DEFINE q    == req[r]
             paid == Moved(q.from, -q.amount)
             got  == Moved(q.to, q.amount)
             out  == Entry(q.src, "TRANSFER", q.amount, -q.amount, q.dst, 0, paid.balance)
             in   == Entry(q.dst, "TRANSFER", q.amount, q.amount, q.src, 0, got.balance)
             acct == [db.acct EXCEPT ![q.src] = paid, ![q.dst] = got]
             txn  == db.txn \o <<out, in>>
             s    == [q EXCEPT !.pc = "flushed"]
             n    == Len(db.txn) + 1
             m    == Len(db.txn) + 2
  <1>1. /\ q \in Request /\ q.op = "transfer" /\ q.src # q.dst
        /\ q.src \in db.opened /\ q.src \in Accounts
        /\ q.dst \in db.opened /\ q.dst \in Accounts
        /\ db.txn \in Seq(Transaction) /\ Len(db.txn) \in Nat
        /\ db.acct \in [Accounts -> Account]
        /\ work' \in Database
    <2>1. q.op = "transfer" /\ Accepted(q)
      BY DEF Transfer, At
    <2>2. q.src # q.dst
      BY <2>1 DEF Accepted
    <2>3. q \in Request /\ Placed(q, db) /\ OnOpen(q, db)
      BY DEF IInv, TypeOK, HeadInv
    <2>4. /\ db.txn \in Seq(Transaction) /\ Len(db.txn) \in Nat
          /\ db.acct \in [Accounts -> Account]
          /\ work' \in Database
      BY DEF IInv, TypeOK, Database
    <2> HIDE DEF q
    <2>5. QED BY <2>1, <2>2, <2>3, <2>4 DEF Placed, OnOpen
  <1>2. Flush(r, db.opened, acct, txn) /\ Become(r, s)
    BY DEF Transfer
  <1>3. /\ out.account = q.src /\ out.after = paid.balance
        /\ in.account = q.dst /\ in.after = got.balance
    BY DEF Entry
  <1>4. s.pc = "flushed" /\ s.op = q.op /\ s.src = q.src /\ s.dst = q.dst
    BY <1>1 DEF Request
  <1> HIDE DEF q, s, paid, got, out, in
  <1>5. /\ n \in DOMAIN txn /\ txn[n] = out
        /\ m \in DOMAIN txn /\ txn[m] = in
        /\ n <= n /\ n <= m /\ m <= m
        /\ \A t \in DOMAIN txn : (t \in DOMAIN db.txn /\ t <= n /\ t <= m) \/ t = n \/ t = m
    BY <1>1
  <1>6. /\ acct[q.src] = paid /\ acct[q.dst] = got
        /\ \A a \in Accounts \ {q.src, q.dst} : acct[a] = db.acct[a]
    BY <1>1
  <1>7. /\ work'.txn = txn /\ work'.acct = acct /\ work'.opened = db.opened
        /\ Grows(db, work')
    BY <1>2 DEF Flush, IInv, TypeOK, Database
  <1> HIDE DEF n, m, acct, txn
  <1>8. RowsShow(work')
    <2> DEFINE S == {q.src, q.dst}
    <2>1. n \in RowsOf(work', q.src) /\ m \in RowsOf(work', q.dst)
      BY <1>3, <1>5, <1>7 DEF RowsOf
    <2>2. \A t \in RowsOf(work', q.src) : t <= n
      BY <1>1, <1>3, <1>5, <1>7 DEF RowsOf
    <2>3. \A t \in RowsOf(work', q.dst) : t <= m
      BY <1>5, <1>7 DEF RowsOf
    <2>4. /\ work'.txn[n].after = work'.acct[q.src].balance
          /\ work'.txn[m].after = work'.acct[q.dst].balance
      BY <1>3, <1>5, <1>6, <1>7
    <2>5. \A t \in DOMAIN work'.txn : t \notin DOMAIN db.txn => work'.txn[t].account \in S
      BY <1>3, <1>5, <1>7
    <2>6. \A a \in Accounts \ S : work'.acct[a] = db.acct[a]
      BY <1>6, <1>7
    <2>7. \A a \in S : \E k \in RowsOf(work', a) :
             (\A t \in RowsOf(work', a) : t <= k) /\ work'.txn[k].after = work'.acct[a].balance
      BY <2>1, <2>2, <2>3, <2>4
    <2>8. S \subseteq db.opened
      BY <1>1
    <2> HIDE DEF S
    <2>9. QED BY <1>1, <1>7, <2>5, <2>6, <2>7, <2>8, PostedShows
  <1>9. \A a \in db.opened \ Touched(s) : a \in db.opened /\ acct[a] = db.acct[a]
    BY <1>1, <1>4, <1>6 DEF Touched, IInv, TypeOK, Database
  <1>10. OnOpen(s, db)
    BY <1>1, <1>4 DEF OnOpen
  <1>11. QED BY <1>2, <1>4, <1>8, <1>9, <1>10, HeadFlush

\* A new account has no rows yet.
LEMMA HeadOpen ==
    ASSUME IInv, IInv', HeadInv, NEW r \in Requests, Open(r)
    PROVE  HeadInv'
  <1>1. PICK a \in Accounts \ db.opened :
           /\ Flush(r, db.opened \cup {a}, [db.acct EXCEPT ![a] = Fresh], db.txn)
           /\ Become(r, [req[r] EXCEPT !.pc = "flushed", !.src = a])
    BY DEF Open
  <1> DEFINE acct   == [db.acct EXCEPT ![a] = Fresh]
             opened == db.opened \cup {a}
             s      == [req[r] EXCEPT !.pc = "flushed", !.src = a]
  <1>2. db \in Database /\ req[r] \in Request /\ req[r].op = "open"
    BY DEF IInv, TypeOK, Open, At
  <1>3. s.pc = "flushed" /\ s.op = "open" /\ s.src = a
    BY <1>2 DEF Request
  <1>4. \A b \in Accounts \ {a} : acct[b] = db.acct[b]
    BY <1>2 DEF Database
  <1>5. db.opened \subseteq Accounts
    BY <1>2 DEF Database
  <1>6. work'.txn = db.txn /\ work'.acct = acct /\ work'.opened = opened
    BY <1>1, <1>2 DEF Flush, Database
  <1> HIDE DEF acct, s
  <1>7. RowsShow(work')
    <2>1. \A b : RowsOf(work', b) = RowsOf(db, b)
      BY <1>6 DEF RowsOf
    <2>2. RowsOf(db, a) = {}
      BY DEF HeadInv, RowsShow
    <2>3. \A b \in db.opened : NewestRow(work', b)
      BY <1>4, <1>5, <1>6, <2>1 DEF HeadInv, RowsShow, NewestRow
    <2>4. NewestRow(work', a)
      BY <2>1, <2>2 DEF NewestRow
    <2>5. QED BY <1>6, <2>1, <2>3, <2>4 DEF HeadInv, RowsShow
  <1>8. \A b \in opened \ Touched(s) : b \in db.opened /\ acct[b] = db.acct[b]
    BY <1>3, <1>4, <1>5 DEF Touched
  <1>9. OnOpen(s, db)
    BY <1>3 DEF OnOpen
  <1> HIDE DEF opened
  <1>10. QED BY <1>1, <1>3, <1>7, <1>8, <1>9, HeadFlush DEF opened, acct, s

-----------------------------------------------------------------------------
(* Recording                                                                *)

\* After the version rows of the accounts a request touched, every account's
\* newest version shows the account.
LEMMA HeadRecordSteps ==
    ASSUME IInv, IInv', HeadInv, NEW r \in Requests,
           RecordOpen(r) \/ RecordSingle(r) \/ RecordTransfer(r) \/ RecordReverse(r)
    PROVE  HeadInv'
  <1> DEFINE q == req[r]
  <1>1. /\ work \in Database /\ Dense(work) /\ q \in Request /\ q.pc = "flushed"
        /\ q.from \in Account /\ q.to \in Account /\ Fresh \in Account
        /\ \A a \in Accounts : Owner[a] \in Users
        /\ work.opened \subseteq Accounts
    <2>1. q.pc = "flushed"
      BY DEF RecordOpen, RecordSingle, RecordTransfer, RecordReverse, At
    <2>2. work \in Database /\ Dense(work) /\ q \in Request
      BY DEF IInv, TypeOK
    <2>3. Fresh \in Account
      BY DEF Fresh, Account
    <2>4. q.from \in Account /\ q.to \in Account /\ work.opened \subseteq Accounts
      BY <2>2 DEF Request, Database
    <2>5. QED BY <2>1, <2>2, <2>3, <2>4, ConstantsAssumption
  <1>2. \A a \in work.opened \ Touched(q) : NewestVersion(work, a)
    BY <1>1 DEF HeadInv
  <1>3. CASE RecordOpen(r)
    <2> DEFINE c == CreateVersion(work, q.src, "CREATE", Fresh)
               e == Notify(c, Owner[q.src])
    <2>1. Record(r, e) /\ q.src \in Accounts /\ Touched(q) = {q.src}
      BY <1>3 DEF RecordOpen, At, IInv, Placed, Holding, Touched
    <2> HIDE DEF q
    <2>2. /\ c \in Database /\ Dense(c)
          /\ c.opened = work.opened /\ c.acct = work.acct /\ c.txn = work.txn
          /\ NewestVersion(c, q.src)
          /\ \A b \in Accounts : NewestVersion(work, b) => NewestVersion(c, b)
      BY <1>1, <2>1, VersionIsNewest
    <2> HIDE DEF c
    <2>3. /\ e.opened = c.opened /\ e.acct = c.acct /\ e.txn = c.txn
          /\ \A b \in Accounts : NewestVersion(c, b) => NewestVersion(e, b)
      BY <1>1, <2>1, <2>2, NotifyShows
    <2> HIDE DEF e
    <2>4. \A a \in e.opened : NewestVersion(e, a)
      BY <1>1, <1>2, <2>1, <2>2, <2>3
    <2>5. QED BY <1>1, <2>1, <2>2, <2>3, <2>4, HeadRecord DEF q
  <1>4. CASE RecordSingle(r)
    <2> DEFINE c == CreateVersion(work, q.src, "UPDATE", q.from)
               e == Notify(c, Owner[q.src])
    <2>1. Record(r, e) /\ q.src \in Accounts /\ Touched(q) = {q.src}
      BY <1>4 DEF RecordSingle, At, IInv, Placed, Touched
    <2> HIDE DEF q
    <2>2. /\ c \in Database /\ Dense(c)
          /\ c.opened = work.opened /\ c.acct = work.acct /\ c.txn = work.txn
          /\ NewestVersion(c, q.src)
          /\ \A b \in Accounts : NewestVersion(work, b) => NewestVersion(c, b)
      BY <1>1, <2>1, VersionIsNewest
    <2> HIDE DEF c
    <2>3. /\ e.opened = c.opened /\ e.acct = c.acct /\ e.txn = c.txn
          /\ \A b \in Accounts : NewestVersion(c, b) => NewestVersion(e, b)
      BY <1>1, <2>1, <2>2, NotifyShows
    <2> HIDE DEF e
    <2>4. \A a \in e.opened : NewestVersion(e, a)
      BY <1>1, <1>2, <2>1, <2>2, <2>3
    <2>5. QED BY <1>1, <2>1, <2>2, <2>3, <2>4, HeadRecord DEF q
  <1>5. CASE RecordTransfer(r)
    <2> DEFINE one  == CreateVersion(work, q.src, "UPDATE", q.from)
               both == CreateVersion(one, q.dst, "UPDATE", q.to)
               sent == Notify(both, Owner[q.src])
               e    == IF Owner[q.dst] = Owner[q.src] THEN sent ELSE Notify(sent, Owner[q.dst])
    <2>1. Record(r, e) /\ q.src \in Accounts /\ q.dst \in Accounts /\ Touched(q) = {q.src, q.dst}
      BY <1>5 DEF RecordTransfer, At, IInv, Placed, Touched
    <2> HIDE DEF q
    <2>2. /\ one \in Database /\ Dense(one)
          /\ one.opened = work.opened /\ one.acct = work.acct /\ one.txn = work.txn
          /\ NewestVersion(one, q.src)
          /\ \A b \in Accounts : NewestVersion(work, b) => NewestVersion(one, b)
      BY <1>1, <2>1, VersionIsNewest
    <2> HIDE DEF one
    <2>3. /\ both \in Database /\ Dense(both)
          /\ both.opened = one.opened /\ both.acct = one.acct /\ both.txn = one.txn
          /\ NewestVersion(both, q.dst)
          /\ \A b \in Accounts : NewestVersion(one, b) => NewestVersion(both, b)
      BY <1>1, <2>1, <2>2, VersionIsNewest
    <2> HIDE DEF both
    <2>4. /\ sent \in Database /\ Dense(sent)
          /\ sent.opened = both.opened /\ sent.acct = both.acct /\ sent.txn = both.txn
          /\ \A b \in Accounts : NewestVersion(both, b) => NewestVersion(sent, b)
      BY <1>1, <2>1, <2>3, NotifyShows
    <2> HIDE DEF sent
    <2>5. /\ e.opened = sent.opened /\ e.acct = sent.acct /\ e.txn = sent.txn
          /\ \A b \in Accounts : NewestVersion(sent, b) => NewestVersion(e, b)
      <3>1. CASE Owner[q.dst] = Owner[q.src]
        BY <3>1
      <3>2. CASE Owner[q.dst] # Owner[q.src]
        <4> DEFINE n == Notify(sent, Owner[q.dst])
        <4>1. /\ n.opened = sent.opened /\ n.acct = sent.acct /\ n.txn = sent.txn
              /\ \A b \in Accounts : NewestVersion(sent, b) => NewestVersion(n, b)
          BY <1>1, <2>1, <2>4, NotifyShows
        <4>2. e = n
          BY <3>2
        <4> HIDE DEF n, e
        <4>3. QED BY <4>1, <4>2
      <3>3. QED BY <3>1, <3>2
    <2> HIDE DEF e
    <2>6. \A a \in e.opened : NewestVersion(e, a)
      BY <1>1, <1>2, <2>1, <2>2, <2>3, <2>4, <2>5
    <2>7. QED BY <1>1, <2>1, <2>2, <2>3, <2>4, <2>5, <2>6, HeadRecord DEF q
  <1>6. CASE RecordReverse(r)
    <2> DEFINE e == CreateVersion(work, q.src, "UPDATE", q.from)
    <2>1. Record(r, e) /\ q.src \in Accounts /\ Touched(q) = {q.src}
      BY <1>6 DEF RecordReverse, At, IInv, Placed, Touched
    <2> HIDE DEF q
    <2>2. /\ e.opened = work.opened /\ e.acct = work.acct /\ e.txn = work.txn
          /\ NewestVersion(e, q.src)
          /\ \A b \in Accounts : NewestVersion(work, b) => NewestVersion(e, b)
      BY <1>1, <2>1, VersionIsNewest
    <2> HIDE DEF e
    <2>3. \A a \in e.opened : NewestVersion(e, a)
      BY <1>1, <1>2, <2>1, <2>2
    <2>4. QED BY <1>1, <2>1, <2>2, <2>3, HeadRecord DEF q
  <1>7. QED BY <1>3, <1>4, <1>5, <1>6

-----------------------------------------------------------------------------
(* The invariant                                                            *)

LEMMA NextHead ==
    ASSUME IInv, IInv', HeadInv, [Next]_vars
    PROVE  HeadInv'
  <1>1. CASE UNCHANGED vars
    BY <1>1 DEF vars, HeadInv, RowsShow, NewestRow, RowsOf, NewestVersion, Touched, OnOpen
  <1>2. CASE Rest
    BY <1>1, <1>2 DEF Rest
  <1>3. ASSUME NEW r \in Requests, Start(r) \/ Step(r) \/ Fail(r)
        PROVE  HeadInv'
    <2>1. CASE Start(r)
      BY <2>1, HeadLocalSteps
    <2>2. CASE LoadDestination(r) \/ LoadReversed(r) \/ RejectReversed(r) \/ Reject(r) \/ Busy(r)
      BY <2>2, HeadLocalSteps
    <2>3. CASE Open(r)
      BY <2>3, HeadOpen
    <2>4. CASE Deposit(r) \/ Withdraw(r)
      BY <2>4, HeadSingle
    <2>5. CASE Transfer(r)
      BY <2>5, HeadTransfer
    <2>6. CASE Reverse(r)
      BY <2>6, HeadReverse
    <2>7. CASE RecordOpen(r) \/ RecordSingle(r) \/ RecordTransfer(r) \/ RecordReverse(r)
      BY <2>7, HeadRecordSteps
    <2>8. CASE Commit(r) \/ Fail(r)
      BY <2>8, HeadEnd
    <2>9. QED BY <1>3, <2>1, <2>2, <2>3, <2>4, <2>5, <2>6, <2>7, <2>8 DEF Step
  <1>4. QED BY <1>1, <1>2, <1>3 DEF Next

\* The newest version and the newest transaction row of an open account show it
\* as it is, whatever requests lose of each other's updates: a request writes
\* balance, row and version from one snapshot under one lock (create_version,
\* deposit, withdraw, transfer, reverse_transaction).
THEOREM HeadShowsAccount == Spec => []HeadIsLive
  <1>1. HeadInv => HeadIsLive
    BY DEF HeadInv, RowsShow, NewestRow, NewestVersion, HeadIsLive
  <1>2. IInv /\ IInv' /\ HeadInv /\ [Next]_vars => HeadInv'
    BY NextHead
  <1>3. QED BY <1>1, <1>2, InitHead, InductiveInvariant, PTL DEF Spec
=============================================================================
