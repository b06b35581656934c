-------------------------- MODULE BankingRecordProofs --------------------------
(***************************************************************************)
(* Proofs about what the rows of one operation have to do with each other: *)
(* every opening and every posting is recorded once, a REVERSED row has    *)
(* its REVERSAL, and requests that do not overlap keep one chain of        *)
(* versions per account and implement the Ledger.                          *)
(***************************************************************************)
EXTENDS BankingProofs

-----------------------------------------------------------------------------
(* The inductive invariants                                                 *)

\* The version rows an account should have.
Due(d, a) == Cardinality(RowsOf(d, a)) + (IF a \in d.opened THEN 1 ELSE 0)

\* Image d lacks one version row for each account of S, and n audit rows.
Behind(d, S, n) ==
    /\ \A a \in Accounts : Len(d.hist[a]) + (IF a \in S THEN 1 ELSE 0) = Due(d, a)
    /\ d.audit + n = Cardinality(d.opened) + Len(d.txn)

\* The audit rows a flushed request still has to write.
Owed(q) == IF q.op = "transfer" THEN 2 ELSE 1

\* Between its flush and its recording a request owes the versions of the
\* accounts it touched; two of them only if they differ.
CountInv ==
    /\ Behind(db, {}, 0)
    /\ \A r \in Requests : req[r].pc = "flushed" =>
          /\ Behind(work, Touched(req[r]), Owed(req[r]))
          /\ req[r].op = "transfer" => req[r].src # req[r].dst
    /\ \A r \in Requests : req[r].pc = "recorded" => Behind(work, {}, 0)

\* Row k is a REVERSAL of an earlier row of the same account and amount.
Refers(d, k) ==
    /\ d.txn[k].type = "REVERSAL"
    /\ d.txn[k].related \in DOMAIN d.txn
    /\ d.txn[k].related < k
    /\ d.txn[k].account = d.txn[d.txn[k].related].account
    /\ d.txn[k].amount = d.txn[d.txn[k].related].amount

\* The effect of a row has the size of its amount, and the sign its type tells.
Signed(x) ==
    /\ x.amount > 0
    /\ x.change \in {x.amount, -x.amount}
    /\ x.type = "DEPOSIT" => x.change = x.amount
    /\ x.type = "WITHDRAWAL" => x.change = -x.amount

Linked(d) ==
    /\ \A k \in DOMAIN d.txn : d.txn[k].related = 0 \/ Refers(d, k)
    /\ \A k \in DOMAIN d.txn : Signed(d.txn[k])
    /\ \A t \in DOMAIN d.txn :
          d.txn[t].status = "REVERSED" <=> \E k \in DOMAIN d.txn : d.txn[k].related = t

\* A reversal works on the account of the row it reverses.
LinkInv ==
    /\ Linked(db)
    /\ Linked(work)
    /\ \A r \in Requests :
          req[r].op = "reverse" => req[r].src = db.txn[req[r].tid].account

\* What the request has loaded is still what the database holds.
Current(q) ==
    /\ q.op \in {"deposit", "withdraw", "transfer"} => q.from = db.acct[q.src]
    /\ q.op = "transfer" /\ q.pc # "loading" => q.to = db.acct[q.dst]
    /\ q.op = "reverse" => q.seen = db.txn[q.tid].status
    /\ q.op = "reverse" /\ q.pc # "loading" => q.from = db.acct[q.src] /\ q.seen # "REVERSED"

\* old_data of a version is new_data of the one before it.
Chain(d) ==
    \A a \in Accounts : \A i \in 2 .. Len(d.hist[a]) : d.hist[a][i].old = d.hist[a][i - 1].new

\* version_number counts the versions, the missing one of the accounts of S too.
Counted(d, S) ==
    \A a \in d.opened : d.acct[a].version = Len(d.hist[a]) + (IF a \in S THEN 1 ELSE 0)

Unopened(d) == \A a \in Accounts \ d.opened : d.acct[a] = Fresh

\* The ledger that an image stands for.
Balance(d) == [a \in Accounts |-> d.acct[a].balance]

Journal(d) ==
    [t \in DOMAIN d.txn |-> [account |-> d.txn[t].account, kind |-> Kind(d.txn[t].type),
                             change |-> d.txn[t].change, corrects |-> d.txn[t].related]]

\* Image e is image d with the effect of one operation of the ledger, or of none.
SameBooks(d, e) == Balance(e) = Balance(d) /\ Journal(e) = Journal(d)

Posted(d, e) ==
    \E a \in Accounts, x \in Int \ {0} :
        /\ x < 0 => Balance(d)[a] + x >= 0
        /\ Balance(e) = [Balance(d) EXCEPT ![a] = @ + x]
        /\ Journal(e) = Append(Journal(d), L!Line(a, "post", x, 0))

MovedBetween(d, e) ==
    \E s, t \in Accounts, x \in Int :
        /\ s # t
        /\ x > 0
        /\ Balance(d)[s] >= x
        /\ Balance(e) = [Balance(d) EXCEPT ![s] = @ - x, ![t] = @ + x]
        /\ Journal(e) = Journal(d) \o <<L!Line(s, "move", -x, 0), L!Line(t, "move", x, 0)>>

\* An entry that is undone, and one that is repeated.
CorrectedEntry(d, e) ==
    \E i \in DOMAIN Journal(d), x \in Int :
        /\ \A k \in DOMAIN Journal(d) : Journal(d)[k].corrects # i
        /\ \/ /\ Journal(d)[i].change > 0 \/ Journal(d)[i].kind = "post"
              /\ x = -Journal(d)[i].change
           \/ /\ Journal(d)[i].change < 0 /\ Journal(d)[i].kind # "post"
              /\ x = Journal(d)[i].change
        /\ Balance(e) = [Balance(d) EXCEPT ![Journal(d)[i].account] = @ + x]
        /\ Journal(e) = Append(Journal(d), L!Line(Journal(d)[i].account, "correction", x, i))

Effect(d, e) == SameBooks(d, e) \/ Posted(d, e) \/ MovedBetween(d, e) \/ CorrectedEntry(d, e)

\* With one request at a time.
SerialInv ==
    /\ Chain(db) /\ Counted(db, {})
    /\ Unopened(db) /\ Unopened(work)
    /\ \A r \in Requests : Current(req[r])
    /\ \A r \in Requests : req[r].pc = "flushed" =>
          /\ work.hist = db.hist
          /\ Counted(work, Touched(req[r]))
          /\ req[r].op = "open" => db.hist[req[r].src] = <<>>
    /\ \A r \in Requests : req[r].pc = "recorded" => Chain(work) /\ Counted(work, {})
    /\ \A r \in Requests : req[r].pc \in Holding => Effect(db, work)

-----------------------------------------------------------------------------
(* Counting the rows of an account                                          *)

\* The rows of an account are finitely many.
LEMMA RowsFinite ==
    ASSUME NEW d \in Database, NEW a
    PROVE  IsFiniteSet(RowsOf(d, a)) /\ Cardinality(RowsOf(d, a)) \in Nat
  <1>1. Len(d.txn) \in Nat /\ DOMAIN d.txn = 1 .. Len(d.txn)
    BY DEF Database
  <1>2. IsFiniteSet(1 .. Len(d.txn))
    BY <1>1, FS_Interval
  <1>3. RowsOf(d, a) \in SUBSET (1 .. Len(d.txn))
    BY <1>1 DEF RowsOf
  <1>4. QED BY <1>2, <1>3, FS_Subset, FS_CardinalityType

\* The open accounts are finitely many.
LEMMA OpenedFinite ==
    ASSUME NEW d \in Database
    PROVE  IsFiniteSet(d.opened) /\ Cardinality(d.opened) \in Nat
  <1>1. d.opened \in SUBSET Accounts
    BY DEF Database
  <1>2. QED BY <1>1, ConstantsAssumption, FS_Subset, FS_CardinalityType

\* The rows that are there keep their account, and all the columns but status.
LEMMA RowsStay ==
    ASSUME NEW d \in Database, NEW e \in Database, Grows(d, e), NEW t \in DOMAIN d.txn
    PROVE  /\ t \in DOMAIN e.txn
           /\ d.txn[t] \in Transaction /\ e.txn[t] \in Transaction
           /\ e.txn[t].account = d.txn[t].account /\ e.txn[t].type = d.txn[t].type
           /\ e.txn[t].amount = d.txn[t].amount /\ e.txn[t].change = d.txn[t].change
           /\ e.txn[t].related = d.txn[t].related
  <1>1. t \in DOMAIN e.txn
    BY DEF Grows, Database
  <1>2. d.txn[t] \in Transaction /\ e.txn[t] \in Transaction /\ Unchanged(d.txn[t], e.txn[t])
    BY <1>1 DEF Grows, Database
  <1>3. QED BY <1>1, <1>2 DEF Unchanged, Transaction

\* Adding rows adds them to the rows of their accounts.
LEMMA RowsAdded ==
    ASSUME NEW d \in Database, NEW e \in Database, Grows(d, e), NEW N, NEW a,
           DOMAIN e.txn = DOMAIN d.txn \cup N
    PROVE  RowsOf(e, a) = RowsOf(d, a) \cup {t \in N \ DOMAIN d.txn : e.txn[t].account = a}
  <1>1. \A t \in DOMAIN d.txn : e.txn[t].account = d.txn[t].account
    BY RowsStay
  <1>2. QED BY <1>1 DEF RowsOf

\* One more row of an account is one more version due.
LEMMA OneMoreDue ==
    ASSUME NEW d \in Database, NEW e \in Database, e.opened = d.opened, NEW a,
           NEW n, n \notin DOMAIN d.txn, RowsOf(e, a) = RowsOf(d, a) \cup {n}
    PROVE  Due(e, a) = Due(d, a) + 1
  <1>1. IsFiniteSet(RowsOf(d, a)) /\ Cardinality(RowsOf(d, a)) \in Nat
    BY RowsFinite
  <1>2. n \notin RowsOf(d, a)
    BY DEF RowsOf
  <1>3. Cardinality(RowsOf(e, a)) = Cardinality(RowsOf(d, a)) + 1
    BY <1>1, <1>2, FS_AddElement
  <1>4. QED BY <1>1, <1>3 DEF Due

\* A posting that adds one row to each account of S leaves a version to write
\* for each of them, and as many audit rows as it added rows.
LEMMA PostedBehind ==
    ASSUME NEW d \in Database, NEW e \in Database, Behind(d, {}, 0),
           e.opened = d.opened, e.hist = d.hist, e.audit = d.audit,
           NEW S, NEW n \in Nat, Len(e.txn) = Len(d.txn) + n,
           \A a \in S : \E t : t \notin DOMAIN d.txn /\ RowsOf(e, a) = RowsOf(d, a) \cup {t},
           \A a \in Accounts \ S : RowsOf(e, a) = RowsOf(d, a)
    PROVE  Behind(e, S, n)
  <1>1. ASSUME NEW a \in Accounts
        PROVE  Len(e.hist[a]) + (IF a \in S THEN 1 ELSE 0) = Due(e, a)
    <2>1. Len(d.hist[a]) \in Nat /\ Len(d.hist[a]) + 0 = Due(d, a)
      <3>1. Len(d.hist[a]) \in Nat
        BY DEF Database
      <3>2. Len(d.hist[a]) + 0 = Due(d, a)
        BY DEF Behind
      <3>3. QED BY <3>1, <3>2
    <2>2. CASE a \in S
      BY <2>1, <2>2, OneMoreDue
    <2>3. CASE a \notin S
      BY <2>1, <2>3 DEF Due
    <2>4. QED BY <2>2, <2>3
  <1>2. e.audit + n = Cardinality(e.opened) + Len(e.txn)
    <2>1. d.audit + 0 = Cardinality(d.opened) + Len(d.txn)
      BY DEF Behind
    <2>2. d.audit \in Nat /\ Len(d.txn) \in Nat
      BY DEF Database
    <2>3. QED BY <2>1, <2>2, OpenedFinite
  <1>3. QED BY <1>1, <1>2 DEF Behind

\* An opening leaves one version and one audit row to write.
LEMMA OpenedBehind ==
    ASSUME NEW d \in Database, NEW e \in Database, Behind(d, {}, 0),
           NEW a \in Accounts \ d.opened, e.opened = d.opened \cup {a},
           e.txn = d.txn, e.hist = d.hist, e.audit = d.audit
    PROVE  Behind(e, {a}, 1)
  <1>1. \A b : RowsOf(e, b) = RowsOf(d, b) /\ Cardinality(RowsOf(d, b)) \in Nat
    BY RowsFinite DEF RowsOf
  <1>2. ASSUME NEW b \in Accounts
        PROVE  Len(e.hist[b]) + (IF b \in {a} THEN 1 ELSE 0) = Due(e, b)
    <2>1. Len(d.hist[b]) \in Nat
      BY DEF Database
    <2>2. Len(d.hist[b]) + 0 = Due(d, b)
      BY DEF Behind
    <2>3. CASE b = a
      BY <1>1, <2>1, <2>2, <2>3 DEF Due
    <2>4. CASE b # a
      BY <1>1, <2>1, <2>2, <2>4 DEF Due
    <2>5. QED BY <2>3, <2>4
  <1>3. e.audit + 1 = Cardinality(e.opened) + Len(e.txn)
    <2>1. d.audit + 0 = Cardinality(d.opened) + Len(d.txn)
      BY DEF Behind
    <2>2. d.audit \in Nat /\ Len(d.txn) \in Nat
      BY DEF Database
    <2>3. IsFiniteSet(d.opened) /\ Cardinality(d.opened) \in Nat
      BY OpenedFinite
    <2>4. Cardinality(e.opened) = Cardinality(d.opened) + 1
      BY <2>3, FS_AddElement
    <2>5. QED BY <2>1, <2>2, <2>3, <2>4
  <1>4. QED BY <1>2, <1>3 DEF Behind

\* create_version writes one of the versions that are missing.
LEMMA VersionPaid ==
    ASSUME NEW d \in Database, Dense(d), NEW a \in Accounts,
           NEW type \in {"CREATE", "UPDATE"}, NEW old \in Account,
           NEW S, a \in S, NEW n \in Nat, Behind(d, S, n + 1),
           NEW c, c = CreateVersion(d, a, type, old)
    PROVE  Behind(c, S \ {a}, n)
  <1> DEFINE row == [number |-> NextVersionNumber(d.hist[a]), type |-> type,
                     old |-> old, new |-> d.acct[a]]
  <1>1. /\ c.opened = d.opened /\ c.txn = d.txn /\ c.audit = d.audit + 1
        /\ c.hist = [d.hist EXCEPT ![a] = Append(d.hist[a], row)]
    BY DEF CreateVersion, Database
  <1> HIDE DEF row
  <1>2. /\ d.hist \in [Accounts -> Seq(Version)] /\ d.audit \in Nat
        /\ Len(d.txn) \in Nat
    BY DEF Database
  <1>3. \A b : Due(c, b) = Due(d, b)
    BY <1>1 DEF Due, RowsOf
  <1>4. ASSUME NEW b \in Accounts
        PROVE  Len(c.hist[b]) + (IF b \in S \ {a} THEN 1 ELSE 0) = Due(c, b)
    <2>1. Len(d.hist[b]) + (IF b \in S THEN 1 ELSE 0) = Due(d, b)
      BY DEF Behind
    <2>2. Len(d.hist[b]) \in Nat
      BY <1>2
    <2>3. CASE b = a
      <3>1. Len(c.hist[b]) = Len(d.hist[b]) + 1
        BY <1>1, <1>2, <2>3
      <3>2. QED BY <1>3, <2>1, <2>2, <2>3, <3>1
    <2>4. CASE b # a
      <3>1. c.hist[b] = d.hist[b]
        BY <1>1, <1>2, <2>4
      <3>2. QED BY <1>3, <2>1, <2>2, <2>4, <3>1
    <2>5. QED BY <2>3, <2>4
  <1>5. c.audit + n = Cardinality(c.opened) + Len(c.txn)
    <2>1. d.audit + (n + 1) = Cardinality(d.opened) + Len(d.txn)
      BY DEF Behind
    <2>2. Cardinality(d.opened) \in Nat
      BY OpenedFinite
    <2>3. d.audit \in Nat /\ Len(d.txn) \in Nat
      BY <1>2
    <2>4. c.audit = d.audit + 1 /\ c.opened = d.opened /\ c.txn = d.txn
      BY <1>1
    <2>5. (d.audit + 1) + n = Cardinality(d.opened) + Len(d.txn)
      BY <2>1, <2>2, <2>3
    <2>6. QED BY <2>4, <2>5
  <1>6. QED BY <1>4, <1>5 DEF Behind

\* A notification pays nothing and owes nothing.
LEMMA NotifyBehind ==
    ASSUME NEW d \in Database, NEW u \in Users, NEW S, NEW n, Behind(d, S, n),
           NEW c, c = Notify(d, u)
    PROVE  Behind(c, S, n)
  <1>1. c.opened = d.opened /\ c.txn = d.txn /\ c.hist = d.hist /\ c.audit = d.audit
    BY DEF Notify, Database
  <1>2. QED BY <1>1 DEF Behind, Due, RowsOf

-----------------------------------------------------------------------------
(* What the flush of an operation writes                                    *)

\* The six columns of the image that a flush leaves.
LEMMA FlushImage ==
    ASSUME IInv, NEW r \in Requests, NEW opened, NEW acct, NEW txn, Flush(r, opened, acct, txn)
    PROVE  /\ db' = db /\ writer = NoRequest /\ writer' = r
           /\ work'.opened = opened /\ work'.acct = acct /\ work'.txn = txn
           /\ work'.hist = db.hist /\ work'.audit = db.audit
  BY DEF Flush, IInv, TypeOK, Database

\* What every flush does to the lock, the request and the recorded tables.
Flushed(r) ==
    /\ db' = db /\ writer = NoRequest /\ writer' = r
    /\ work'.hist = db.hist /\ work'.audit = db.audit

\* A row that is no part of a transfer.
SingleEntry(x) ==
    /\ x.type \in {"DEPOSIT", "WITHDRAWAL", "REVERSAL"}
    /\ x.amount > 0
    /\ x.counterparty = NoAccount
    /\ x.type = "DEPOSIT" => x.change = x.amount
    /\ x.type = "WITHDRAWAL" => x.change = -x.amount
    /\ x.change \in {x.amount, -x.amount}
    /\ x.type = "REVERSAL" => x.related # 0

\* The two rows of a transfer: the sender's and the receiver's.
Mated(x, y) ==
    /\ x.type = "TRANSFER" /\ y.type = "TRANSFER"
    /\ y.account = x.counterparty /\ y.counterparty = x.account
    /\ x.account # y.account
    /\ x.amount > 0 /\ y.amount = x.amount
    /\ x.change = -x.amount /\ y.change = x.amount

\* Request r posts `row', which moves its account by x.
PostsRow(r, row, x) ==
    LET q == req[r]
        n == Len(db.txn) + 1
    IN  /\ Flushed(r)
        /\ Become(r, [q EXCEPT !.pc = "flushed"])
        /\ q.pc = "loaded"
        /\ q.src \in db.opened
        /\ work'.opened = db.opened
        /\ work'.acct = [db.acct EXCEPT ![q.src] = Moved(q.from, x)]
        /\ x \in Int
        /\ row \in Transaction
        /\ row.account = q.src /\ row.change = x /\ row.status = "COMPLETED"
        /\ x \in {row.amount, -row.amount}
        /\ row.counterparty = NoAccount
        /\ q.op # "reverse" => SingleEntry(row)
        /\ Len(work'.txn) = n
        /\ DOMAIN work'.txn = DOMAIN db.txn \cup {n}
        /\ n \notin DOMAIN db.txn
        /\ work'.txn[n] = row
        /\ \/ /\ q.op \in {"deposit", "withdraw"}
              /\ row.related = 0
              /\ x # 0 /\ (x < 0 => q.from.available + x >= 0)
              /\ \A t \in DOMAIN db.txn : work'.txn[t] = db.txn[t]
           \/ /\ q.op = "reverse"
              /\ q.tid \in DOMAIN db.txn
              /\ row.type = "REVERSAL" /\ row.related = q.tid
              /\ row.amount = db.txn[q.tid].amount
              /\ x = ReversalChange(db.txn[q.tid])
              /\ work'.txn[q.tid].status = "REVERSED"
              /\ \A t \in DOMAIN db.txn \ {q.tid} : work'.txn[t] = db.txn[t]

\* Request r posts the two rows of a transfer.
PostsPair(r, out, in) ==
    LET q == req[r]
        n == Len(db.txn) + 1
    IN  /\ Flushed(r)
        /\ Become(r, [q EXCEPT !.pc = "flushed"])
        /\ q.pc = "loaded" /\ q.op = "transfer"
        /\ q.src # q.dst /\ q.src \in db.opened /\ q.dst \in db.opened
        /\ q.amount \in Int /\ q.amount > 0 /\ q.from.available >= q.amount
        /\ work'.opened = db.opened
        /\ work'.acct = [db.acct EXCEPT ![q.src] = Moved(q.from, -q.amount),
                                        ![q.dst] = Moved(q.to, q.amount)]
        /\ out \in Transaction /\ in \in Transaction
        /\ out.account = q.src /\ out.change = -q.amount /\ out.amount = q.amount
        /\ in.account = q.dst /\ in.change = q.amount /\ in.amount = q.amount
        /\ out.related = 0 /\ out.status = "COMPLETED"
        /\ in.related = 0 /\ in.status = "COMPLETED"
        /\ Mated(out, in)
        /\ Len(work'.txn) = n + 1
        /\ DOMAIN work'.txn = DOMAIN db.txn \cup {n, n + 1}
        /\ n \notin DOMAIN db.txn /\ n + 1 \notin DOMAIN db.txn
        /\ work'.txn[n] = out /\ work'.txn[n + 1] = in
        /\ \A t \in DOMAIN db.txn : work'.txn[t] = db.txn[t]

\* A deposit or a withdrawal posts one row.
LEMMA SinglePosts ==
    ASSUME IInv, HeadInv, NEW r \in Requests, Deposit(r) \/ Withdraw(r)
    PROVE  \E row, x : PostsRow(r, row, x)
  <1> DEFINE q == req[r]
  <1>1. /\ db \in Database /\ db.txn \in Seq(Transaction) /\ Len(db.txn) \in Nat
        /\ q \in Request /\ q.src \in Accounts /\ q.src \in db.opened
        /\ q.from \in Account /\ q.amount \in Int
        /\ q.pc = "loaded" /\ q.op \in {"deposit", "withdraw"}
    BY DEF IInv, TypeOK, Request, Placed, Deposit, Withdraw, At, HeadInv, OnOpen, Database
  <1>2. PICK type \in TransactionTypes, x \in Int :
           /\ PostSingle(r, type, x)
           /\ x \in {q.amount, -q.amount}
           /\ x # 0 /\ (x < 0 => q.from.available + x >= 0)
           /\ q.amount > 0
           /\ \/ type = "DEPOSIT" /\ x = q.amount
              \/ type = "WITHDRAWAL" /\ x = -q.amount
    <2>1. CASE Deposit(r)
      <3>1. PostSingle(r, "DEPOSIT", q.amount) /\ q.amount > 0
        BY <2>1 DEF Deposit, Accepted, ValidAmount, At
      <3>2. QED BY <1>1, <3>1 DEF TransactionTypes
    <2>2. CASE Withdraw(r)
      <3>1. PostSingle(r, "WITHDRAWAL", -q.amount) /\ q.amount > 0 /\ q.from.available >= q.amount
        BY <2>2 DEF Withdraw, Accepted, ValidAmount, Sufficient, At
      <3>2. -q.amount \in Int /\ -q.amount # 0 /\ q.from.available + (-q.amount) >= 0
        BY <1>1, <3>1 DEF Account
      <3>3. QED BY <3>1, <3>2 DEF TransactionTypes
    <2>3. QED BY <2>1, <2>2
  <1> DEFINE new  == Moved(q.from, x)
             row  == Entry(q.src, type, q.amount, x, NoAccount, 0, new.balance)
             acct == [db.acct EXCEPT ![q.src] = new]
             txn  == Append(db.txn, row)
             s    == [q EXCEPT !.pc = "flushed"]
             n    == Len(db.txn) + 1
  <1>3. Flush(r, db.opened, acct, txn) /\ Become(r, s)
    BY <1>2 DEF PostSingle
  <1>4. row \in Transaction
    <2>1. new \in Account /\ new.balance \in Int
      BY <1>1, <1>2, MovedType DEF Account
    <2>2. QED BY <1>1, <1>2, <2>1, EntryType
  <1>5. /\ row.account = q.src /\ row.change = x /\ row.amount = q.amount
        /\ row.status = "COMPLETED" /\ row.related = 0
        /\ row.type = type /\ row.counterparty = NoAccount
    BY DEF Entry
  <1> HIDE DEF row
  <1>9. SingleEntry(row)
    BY <1>2, <1>5 DEF SingleEntry
  <1>6. /\ Len(txn) = n /\ DOMAIN txn = DOMAIN db.txn \cup {n} /\ n \notin DOMAIN db.txn
        /\ txn[n] = row /\ \A t \in DOMAIN db.txn : txn[t] = db.txn[t]
    BY <1>1, <1>4
  <1> HIDE DEF txn, acct
  <1>7. /\ Flushed(r) /\ work'.opened = db.opened
        /\ work'.acct = acct /\ work'.txn = txn
    BY <1>3, FlushImage DEF Flushed
  <1> HIDE DEF n
  <1>8. PostsRow(r, row, x)
    BY <1>1, <1>2, <1>3, <1>4, <1>5, <1>6, <1>7, <1>9 DEF PostsRow, n, acct
  <1>10. QED BY <1>8

\* A reversal posts one row and marks the row it reverses.
LEMMA ReversePosts ==
    ASSUME IInv, HeadInv, NEW r \in Requests, Reverse(r)
    PROVE  \E row, x : PostsRow(r, row, x)
  <1> DEFINE q        == req[r]
             original == db.txn[q.tid]
             x        == ReversalChange(original)
             new      == Moved(q.from, x)
             closed   == [original EXCEPT !.status = "REVERSED"]
             marked   == [db.txn EXCEPT ![q.tid] = closed]
             row      == Entry(q.src, "REVERSAL", original.amount, x, NoAccount, q.tid, new.balance)
             acct     == [db.acct EXCEPT ![q.src] = new]
             txn      == Append(marked, row)
             s        == [q EXCEPT !.pc = "flushed"]
             n        == Len(db.txn) + 1
  <1>1. /\ db \in Database /\ db.txn \in Seq(Transaction) /\ Len(db.txn) \in Nat
        /\ q \in Request /\ q.src \in Accounts /\ q.src \in db.opened
        /\ q.tid \in DOMAIN db.txn /\ q.tid \in Nat /\ q.from \in Account
        /\ q.pc = "loaded" /\ q.op = "reverse"
    BY DEF IInv, TypeOK, Request, Placed, Reverse, At, HeadInv, OnOpen, Database
  <1>2. original \in Transaction /\ original.amount \in Int
    <2>1. original \in Transaction
      BY <1>1
    <2>2. QED BY <2>1 DEF Transaction
  <1>3. x \in Int /\ x \in {original.amount, -original.amount}
    BY <1>2 DEF ReversalChange
  <1>4. row \in Transaction
    <2>1. new \in Account /\ new.balance \in Int
      BY <1>1, <1>3, MovedType DEF Account
    <2>2. QED BY <1>1, <1>2, <1>3, <2>1, EntryType DEF TransactionTypes
  <1>5. /\ row.account = q.src /\ row.change = x /\ row.amount = original.amount
        /\ row.status = "COMPLETED" /\ row.related = q.tid /\ row.type = "REVERSAL"
        /\ row.counterparty = NoAccount
    BY DEF Entry
  <1>6. closed \in Transaction /\ closed.status = "REVERSED"
    BY <1>2 DEF Transaction
  <1>7. Flush(r, db.opened, acct, txn) /\ Become(r, s)
    BY DEF Reverse
  <1> HIDE DEF row, closed
  <1>8. /\ marked \in Seq(Transaction) /\ Len(marked) = Len(db.txn)
        /\ DOMAIN marked = DOMAIN db.txn
        /\ marked[q.tid] = closed
        /\ \A t \in DOMAIN db.txn \ {q.tid} : marked[t] = db.txn[t]
    BY <1>1, <1>6
  <1> HIDE DEF marked
  <1>9. /\ Len(txn) = n /\ DOMAIN txn = DOMAIN db.txn \cup {n} /\ n \notin DOMAIN db.txn
        /\ txn[n] = row /\ \A t \in DOMAIN db.txn : txn[t] = marked[t]
    BY <1>1, <1>4, <1>8
  <1>10. /\ txn[q.tid].status = "REVERSED"
         /\ \A t \in DOMAIN db.txn \ {q.tid} : txn[t] = db.txn[t]
    BY <1>1, <1>6, <1>8, <1>9
  <1> HIDE DEF txn, acct
  <1>11. /\ Flushed(r) /\ work'.opened = db.opened
         /\ work'.acct = acct /\ work'.txn = txn
    BY <1>7, FlushImage DEF Flushed
  <1>14. x = ReversalChange(db.txn[q.tid])
    OBVIOUS
  <1> HIDE DEF n, x
  <1>12. PostsRow(r, row, x)
    BY <1>1, <1>14, <1>3, <1>4, <1>5, <1>7, <1>9, <1>10, <1>11 DEF PostsRow, n, acct
  <1>13. QED BY <1>12

\* A transfer posts its two rows.
LEMMA TransferPosts ==
    ASSUME IInv, HeadInv, NEW r \in Requests, Transfer(r)
    PROVE  \E out, in : PostsPair(r, out, in)
  <1> DEFINE q    == req[r]
             paid == Moved(q.from, -q.amount)
             got  == Moved(q.to, q.amount)
             out  == Entry(q.src, "TRANSFER", q.amount, -q.amount, q.dst, 0, paid.balance)
             in   == Entry(q.dst, "TRANSFER", q.amount, q.amount, q.src, 0, got.balance)
             acct == [db.acct EXCEPT ![q.src] = paid, ![q.dst] = got]
             txn  == db.txn \o <<out, in>>
             s    == [q EXCEPT !.pc = "flushed"]
             n    == Len(db.txn) + 1
  <1>1. /\ db \in Database /\ db.txn \in Seq(Transaction) /\ Len(db.txn) \in Nat
        /\ q \in Request /\ q.src \in Accounts /\ q.src \in db.opened
        /\ q.dst \in Accounts /\ q.dst \in db.opened
        /\ q.from \in Account /\ q.to \in Account /\ q.amount \in Int
        /\ q.pc = "loaded" /\ q.op = "transfer"
    BY DEF IInv, TypeOK, Request, Placed, Transfer, At, HeadInv, OnOpen, Database
  <1>2. q.src # q.dst /\ q.amount > 0 /\ q.from.available >= q.amount
    <2>1. Accepted(q)
      BY DEF Transfer
    <2>2. QED BY <1>1, <2>1 DEF Accepted, ValidAmount, Sufficient
  <1>3. out \in Transaction /\ in \in Transaction
    <2>1. -q.amount \in Int
      BY <1>1
    <2>2. paid \in Account /\ got \in Account
      BY <1>1, <2>1, MovedType
    <2>3. paid.balance \in Int /\ got.balance \in Int
      BY <2>2 DEF Account
    <2>4. QED BY <1>1, <2>1, <2>3, EntryType DEF TransactionTypes
  <1>4. /\ out.account = q.src /\ out.change = -q.amount /\ out.amount = q.amount
        /\ in.account = q.dst /\ in.change = q.amount /\ in.amount = q.amount
        /\ out.related = 0 /\ out.status = "COMPLETED"
        /\ in.related = 0 /\ in.status = "COMPLETED"
        /\ out.type = "TRANSFER" /\ out.counterparty = q.dst
        /\ in.type = "TRANSFER" /\ in.counterparty = q.src
    BY DEF Entry
  <1>5. Flush(r, db.opened, acct, txn) /\ Become(r, s)
    BY DEF Transfer
  <1> HIDE DEF out, in
  <1>9. Mated(out, in)
    BY <1>1, <1>2, <1>4 DEF Mated
  <1>6. /\ Len(txn) = n + 1 /\ DOMAIN txn = DOMAIN db.txn \cup {n, n + 1}
        /\ n \notin DOMAIN db.txn /\ n + 1 \notin DOMAIN db.txn
        /\ txn[n] = out /\ txn[n + 1] = in
        /\ \A t \in DOMAIN db.txn : txn[t] = db.txn[t]
    BY <1>1, <1>3
  <1> HIDE DEF txn, acct
  <1>7. /\ Flushed(r) /\ work'.opened = db.opened
        /\ work'.acct = acct /\ work'.txn = txn
    BY <1>5, FlushImage DEF Flushed
  <1> HIDE DEF n
  <1>8. PostsPair(r, out, in)
    BY <1>1, <1>2, <1>3, <1>4, <1>5, <1>6, <1>7, <1>9 DEF PostsPair, n, acct
  <1>10. QED BY <1>8

-----------------------------------------------------------------------------
(* Counting: one version and one audit row for everything that happened     *)

\* The initial database owes nothing.
LEMMA InitCount == Init => CountInv
  <1> SUFFICES ASSUME Init PROVE CountInv
    OBVIOUS
  <1>1. \A a : RowsOf(db, a) = {}
    BY DEF Init, RowsOf
  <1>2. ASSUME NEW a \in Accounts
        PROVE  Len(db.hist[a]) + (IF a \in {} THEN 1 ELSE 0) = Due(db, a)
    <2>1. Due(db, a) = IF a \in InitialAccounts THEN 1 ELSE 0
      <3>1. Cardinality(RowsOf(db, a)) = 0
        BY <1>1, FS_EmptySet
      <3>2. db.opened = InitialAccounts
        BY DEF Init
      <3>3. QED BY <3>1, <3>2 DEF Due
    <2>2. Len(db.hist[a]) = IF a \in InitialAccounts THEN 1 ELSE 0
      BY DEF Init
    <2>3. QED BY <2>1, <2>2
  <1>3. db.audit + 0 = Cardinality(db.opened) + Len(db.txn)
    <2>1. db.audit = Cardinality(InitialAccounts) /\ db.opened = InitialAccounts /\ db.txn = <<>>
      BY DEF Init
    <2>2. Cardinality(InitialAccounts) \in Nat
      BY ConstantsAssumption, FS_Subset, FS_CardinalityType
    <2>3. QED BY <2>1, <2>2
  <1>4. Behind(db, {}, 0)
    BY <1>2, <1>3 DEF Behind
  <1>5. \A r \in Requests : req[r].pc = "idle"
    BY DEF Init, Idle
  <1>6. QED BY <1>4, <1>5 DEF CountInv

\* A step outside the write transaction owes nothing new.
LEMMA CountLocal ==
    ASSUME IInv, CountInv, NEW r \in Requests, NEW s,
           Become(r, s), UNCHANGED <<db, work, writer>>, s.pc \notin Holding
    PROVE  CountInv'
  <1>1. \A p \in Requests : req'[p] = IF p = r THEN s ELSE req[p]
    BY DEF Become, IInv, TypeOK
  <1>2. \A p \in Requests : req'[p].pc \in Holding => req'[p] = req[p]
    BY <1>1
  <1>3. Behind(db', {}, 0)
    BY DEF CountInv
  <1>4. \A p \in Requests : req'[p].pc = "flushed" =>
           /\ Behind(work', Touched(req'[p]), Owed(req'[p]))
           /\ req'[p].op = "transfer" => req'[p].src # req'[p].dst
    BY <1>2 DEF CountInv, Holding
  <1>5. \A p \in Requests : req'[p].pc = "recorded" => Behind(work', {}, 0)
    BY <1>2 DEF CountInv, Holding
  <1>6. QED BY <1>3, <1>4, <1>5 DEF CountInv, Behind, Due, RowsOf, Touched, Owed

\* A flush that owes what it touched.
LEMMA CountFlush ==
    ASSUME IInv, IInv', CountInv, NEW r \in Requests, NEW s, Flushed(r), Become(r, s),
           s.pc = "flushed", s.op = "transfer" => s.src # s.dst,
           Behind(work', Touched(s), Owed(s))
    PROVE  CountInv'
  <1>1. \A p \in Requests : req'[p] = IF p = r THEN s ELSE req[p]
    BY DEF Become, IInv, TypeOK
  <1>2. \A p \in Requests : req'[p].pc \in Holding => p = r /\ req'[p] = s
    BY <1>1 DEF IInv, LockInv, Flushed
  <1>3. Behind(db', {}, 0)
    BY DEF CountInv, Flushed
  <1>4. QED BY <1>2, <1>3 DEF CountInv, Holding, Behind, Due, RowsOf, Touched, Owed

\* What a flush keeps of the inductive invariant.
LEMMA FlushedImages ==
    ASSUME IInv, IInv', NEW r \in Requests, Flushed(r)
    PROVE  /\ db \in Database /\ work' \in Database /\ Grows(db, work')
           /\ req[r] \in Request
  <1>1. db \in Database /\ req[r] \in Request
    BY DEF IInv, TypeOK
  <1>2. work' \in Database /\ Grows(db', work')
    BY DEF IInv, TypeOK
  <1>3. db' = db
    BY DEF Flushed
  <1>4. QED BY <1>1, <1>2, <1>3

\* The rows of an image are numbered from one.
LEMMA RowNumbers ==
    ASSUME NEW d \in Database
    PROVE  Len(d.txn) \in Nat /\ 0 \notin DOMAIN d.txn
  BY DEF Database

\* A posting of one row owes one version and one audit row.
LEMMA CountRow ==
    ASSUME IInv, IInv', CountInv, NEW r \in Requests, NEW row, NEW x, PostsRow(r, row, x)
    PROVE  CountInv'
  <1> DEFINE q == req[r]
             s == [q EXCEPT !.pc = "flushed"]
             n == Len(db.txn) + 1
  <1>1. /\ db \in Database /\ work' \in Database /\ Grows(db, work') /\ q \in Request
        /\ Behind(db, {}, 0)
    <2>1. Flushed(r) BY DEF PostsRow
    <2>2. Behind(db, {}, 0) BY DEF CountInv
    <2>3. QED BY <2>1, <2>2, FlushedImages
  <1>2. s.pc = "flushed" /\ s.op = q.op /\ s.src = q.src /\ s.dst = q.dst
    BY <1>1 DEF Request
  <1>3. /\ Flushed(r) /\ Become(r, s) /\ q.op # "transfer"
        /\ DOMAIN work'.txn = DOMAIN db.txn \cup {n} /\ n \notin DOMAIN db.txn
        /\ Len(work'.txn) = Len(db.txn) + 1
        /\ work'.txn[n].account = q.src
        /\ work'.opened = db.opened /\ work'.hist = db.hist /\ work'.audit = db.audit
    BY DEF PostsRow, Flushed
  <1>4. Touched(s) = {q.src} /\ Owed(s) = 1
    BY <1>2, <1>3 DEF Touched, Owed
  <1> HIDE DEF n, s, q
  <1>5. \A a : RowsOf(work', a) = RowsOf(db, a) \cup {t \in {n} \ DOMAIN db.txn : work'.txn[t].account = a}
    <2> DEFINE N == {n}
    <2>1. DOMAIN work'.txn = DOMAIN db.txn \cup N BY <1>3
    <2> HIDE DEF N
    <2>2. \A a : RowsOf(work', a) = RowsOf(db, a) \cup {t \in N \ DOMAIN db.txn : work'.txn[t].account = a}
      BY <1>1, <2>1, RowsAdded
    <2>3. QED BY <2>2 DEF N
  <1>6. \A a \in {q.src} : \E t : t \notin DOMAIN db.txn /\ RowsOf(work', a) = RowsOf(db, a) \cup {t}
    BY <1>3, <1>5
  <1>7. \A a \in Accounts \ {q.src} : RowsOf(work', a) = RowsOf(db, a)
    <2>1. \A a \in Accounts \ {q.src} : {t \in {n} \ DOMAIN db.txn : work'.txn[t].account = a} = {}
      BY <1>3
    <2>2. QED BY <1>5, <2>1
  <1>8. Behind(work', {q.src}, 1)
    BY <1>1, <1>3, <1>6, <1>7, PostedBehind
  <1>9. QED BY <1>2, <1>3, <1>4, <1>8, CountFlush

\* A transfer owes two versions and two audit rows.
LEMMA CountPair ==
    ASSUME IInv, IInv', CountInv, NEW r \in Requests, NEW out, NEW in, PostsPair(r, out, in)
    PROVE  CountInv'
  <1> DEFINE q == req[r]
             s == [q EXCEPT !.pc = "flushed"]
             n == Len(db.txn) + 1
             m == Len(db.txn) + 1 + 1
  <1>1. /\ db \in Database /\ work' \in Database /\ Grows(db, work') /\ q \in Request
        /\ Behind(db, {}, 0) /\ Len(db.txn) \in Nat
    <2>1. Flushed(r) BY DEF PostsPair
    <2>2. Behind(db, {}, 0) BY DEF CountInv
    <2>3. QED BY <2>1, <2>2, FlushedImages, RowNumbers
  <1>2. s.pc = "flushed" /\ s.op = q.op /\ s.src = q.src /\ s.dst = q.dst
    BY <1>1 DEF Request
  <1>3. /\ Flushed(r) /\ Become(r, s) /\ q.op = "transfer" /\ q.src # q.dst
        /\ DOMAIN work'.txn = DOMAIN db.txn \cup {n, m}
        /\ n \notin DOMAIN db.txn /\ m \notin DOMAIN db.txn
        /\ Len(work'.txn) = m
        /\ work'.txn[n].account = q.src /\ work'.txn[m].account = q.dst
        /\ work'.opened = db.opened /\ work'.hist = db.hist /\ work'.audit = db.audit
    BY DEF PostsPair, Flushed
  <1>4. Touched(s) = {q.src, q.dst} /\ Owed(s) = 2
    BY <1>2, <1>3 DEF Touched, Owed
  <1>5. Len(work'.txn) = Len(db.txn) + 2
    BY <1>1, <1>3
  <1> HIDE DEF n, m, s, q
  <1>6. \A a : RowsOf(work', a) = RowsOf(db, a) \cup {t \in {n, m} \ DOMAIN db.txn : work'.txn[t].account = a}
    <2> DEFINE N == {n, m}
    <2>1. DOMAIN work'.txn = DOMAIN db.txn \cup N BY <1>3
    <2> HIDE DEF N
    <2>2. \A a : RowsOf(work', a) = RowsOf(db, a) \cup {t \in N \ DOMAIN db.txn : work'.txn[t].account = a}
      BY <1>1, <2>1, RowsAdded
    <2>3. QED BY <2>2 DEF N
  <1>7. RowsOf(work', q.src) = RowsOf(db, q.src) \cup {n}
    BY <1>3, <1>6
  <1>8. RowsOf(work', q.dst) = RowsOf(db, q.dst) \cup {m}
    BY <1>3, <1>6
  <1>9. \A a \in {q.src, q.dst} : \E t : t \notin DOMAIN db.txn /\ RowsOf(work', a) = RowsOf(db, a) \cup {t}
    BY <1>3, <1>7, <1>8
  <1>10. \A a \in Accounts \ {q.src, q.dst} : RowsOf(work', a) = RowsOf(db, a)
    <2>1. \A a \in Accounts \ {q.src, q.dst} :
             {t \in {n, m} \ DOMAIN db.txn : work'.txn[t].account = a} = {}
      BY <1>3
    <2>2. QED BY <1>6, <2>1
  <1>11. Behind(work', {q.src, q.dst}, 2)
    BY <1>1, <1>3, <1>5, <1>9, <1>10, PostedBehind
  <1>12. QED BY <1>2, <1>3, <1>4, <1>11, CountFlush

\* An opening owes one version and one audit row.
LEMMA CountOpen ==
    ASSUME IInv, IInv', CountInv, NEW r \in Requests, Open(r)
    PROVE  CountInv'
  <1>1. PICK a \in Accounts \ db.opened :
           /\ Flush(r, db.opened \cup {a}, [db.acct EXCEPT ![a] = Fresh], db.txn)
           /\ Become(r, [req[r] EXCEPT !.pc = "flushed", !.src = a])
    BY DEF Open
  <1> DEFINE s == [req[r] EXCEPT !.pc = "flushed", !.src = a]
  <1>2. s.pc = "flushed" /\ s.op = "open" /\ s.src = a
    BY DEF Open, At, IInv, TypeOK, Request
  <1>3. /\ Flushed(r) /\ work'.opened = db.opened \cup {a}
        /\ work'.txn = db.txn /\ work'.hist = db.hist /\ work'.audit = db.audit
    BY <1>1, FlushImage DEF Flushed
  <1>4. db \in Database /\ work' \in Database /\ Behind(db, {}, 0)
    BY DEF IInv, TypeOK, CountInv
  <1>5. Touched(s) = {a} /\ Owed(s) = 1
    BY <1>2 DEF Touched, Owed
  <1> HIDE DEF s
  <1>6. Behind(work', {a}, 1)
    BY <1>3, <1>4, OpenedBehind
  <1>7. QED BY <1>1, <1>2, <1>3, <1>5, <1>6, CountFlush DEF s

\* A recording that owes nothing more.
LEMMA CountRecord ==
    ASSUME IInv, IInv', CountInv, NEW r \in Requests, NEW e, req[r].pc = "flushed",
           Record(r, e), Behind(e, {}, 0)
    PROVE  CountInv'
  <1>1. db' = db /\ work' = e /\ writer' = writer /\ writer = r
    BY DEF Record, IInv, LockInv, Holding
  <1>2. \A p \in Requests : req'[p].pc \in Holding => p = r
    BY <1>1 DEF IInv, LockInv
  <1>3. req'[r].pc = "recorded"
    BY DEF Record, Become, IInv, TypeOK, Request
  <1>4. \A p \in Requests : req'[p].pc # "flushed"
    BY <1>2, <1>3 DEF Holding
  <1>5. Behind(db', {}, 0) /\ Behind(work', {}, 0)
    BY <1>1 DEF CountInv
  <1>6. QED BY <1>4, <1>5 DEF CountInv, Behind, Due, RowsOf, Touched, Owed

\* Every recording pays what its flush owes.
LEMMA CountRecordSteps ==
    ASSUME IInv, IInv', CountInv, NEW r \in Requests,
           RecordOpen(r) \/ RecordSingle(r) \/ RecordTransfer(r) \/ RecordReverse(r)
    PROVE  CountInv'
  <1> DEFINE q == req[r]
  <1>1. /\ work \in Database /\ Dense(work) /\ q \in Request /\ q.pc = "flushed"
        /\ q.from \in Account /\ q.to \in Account /\ Fresh \in Account
        /\ \A a \in Accounts : Owner[a] \in Users
    <2>1. q.pc = "flushed"
      BY DEF RecordOpen, RecordSingle, RecordTransfer, RecordReverse, At
    <2>2. work \in Database /\ Dense(work) /\ q \in Request
      BY DEF IInv, TypeOK
    <2>3. Fresh \in Account
      BY DEF Fresh, Account
    <2>4. q.from \in Account /\ q.to \in Account
      BY <2>2 DEF Request
    <2>5. QED BY <2>1, <2>2, <2>3, <2>4, ConstantsAssumption
  <1>2. Behind(work, Touched(q), Owed(q)) /\ (q.op = "transfer" => q.src # q.dst)
    BY <1>1 DEF CountInv
  <1>3. \A a : {a} \ {a} = {}
    OBVIOUS
  <1>4. CASE RecordOpen(r) \/ RecordSingle(r) \/ RecordReverse(r)
    <2>1. PICK type \in {"CREATE", "UPDATE"}, old \in Account :
             \/ Record(r, Notify(CreateVersion(work, q.src, type, old), Owner[q.src]))
             \/ Record(r, CreateVersion(work, q.src, type, old))
      BY <1>1, <1>4 DEF RecordOpen, RecordSingle, RecordReverse
    <2>2. q.src \in Accounts /\ Touched(q) = {q.src} /\ Owed(q) = 0 + 1
      BY <1>4 DEF RecordOpen, RecordSingle, RecordReverse, At, IInv, Placed, Holding, Touched, Owed
    <2> DEFINE c == CreateVersion(work, q.src, type, old)
               e == Notify(c, Owner[q.src])
    <2>3. c \in Database
      BY <1>1, <2>2, CreateVersionType
    <2>4. Behind(c, {q.src} \ {q.src}, 0)
      <3> HIDE DEF q
      <3>1. Behind(work, {q.src}, 0 + 1)
        BY <1>2, <2>2
      <3>2. QED BY <1>1, <2>2, <3>1, VersionPaid
    <2>5. Behind(c, {}, 0)
      BY <1>3, <2>4
    <2> HIDE DEF c
    <2>6. Behind(e, {}, 0)
      BY <1>1, <2>2, <2>3, <2>5, NotifyBehind
    <2> HIDE DEF e
    <2>7. QED BY <1>1, <2>1, <2>5, <2>6, CountRecord DEF c, e
  <1>5. CASE RecordTransfer(r)
    <2> DEFINE one  == CreateVersion(work, q.src, "UPDATE", q.from)
               both == CreateVersion(one, q.dst, "UPDATE", q.to)
               sent == Notify(both, Owner[q.src])
               n    == Notify(sent, Owner[q.dst])
               e    == IF Owner[q.dst] = Owner[q.src] THEN sent ELSE n
    <2>1. /\ Record(r, e) /\ q.src \in Accounts /\ q.dst \in Accounts
          /\ Touched(q) = {q.src, q.dst} /\ Owed(q) = 2 /\ q.src # q.dst
      BY <1>2, <1>5 DEF RecordTransfer, At, IInv, Placed, Touched, Owed
    <2> HIDE DEF q
    <2>2. Behind(work, {q.src, q.dst}, 1 + 1)
      BY <1>2, <2>1
    <2>3. one \in Database /\ Dense(one)
      BY <1>1, <2>1, CreateVersionType
    <2>4. Behind(one, {q.src, q.dst} \ {q.src}, 1)
      BY <1>1, <2>1, <2>2, VersionPaid
    <2>5. {q.src, q.dst} \ {q.src} = {q.dst}
      BY <2>1
    <2>6. Behind(one, {q.dst}, 0 + 1)
      BY <2>4, <2>5
    <2> HIDE DEF one
    <2>7. both \in Database /\ Dense(both)
      BY <1>1, <2>1, <2>3, CreateVersionType
    <2>8. Behind(both, {q.dst} \ {q.dst}, 0)
      BY <1>1, <2>1, <2>3, <2>6, VersionPaid
    <2>9. Behind(both, {}, 0)
      BY <1>3, <2>8
    <2> HIDE DEF both
    <2>10. sent \in Database /\ Dense(sent) /\ Behind(sent, {}, 0)
      BY <1>1, <2>1, <2>7, <2>9, NotifyImage, NotifyBehind
    <2> HIDE DEF sent
    <2>11. Behind(n, {}, 0)
      BY <1>1, <2>1, <2>10, NotifyBehind
    <2> HIDE DEF n
    <2>12. Behind(e, {}, 0)
      BY <2>10, <2>11
    <2> HIDE DEF e
    <2>13. QED BY <1>1, <2>1, <2>12, CountRecord DEF q
  <1>6. QED BY <1>4, <1>5

\* A commit publishes an image that owes nothing; a failure publishes nothing.
LEMMA CountEnd ==
    ASSUME IInv, IInv', CountInv, NEW r \in Requests, Commit(r) \/ Fail(r)
    PROVE  CountInv'
  <1>1. \A p \in Requests : req'[p] = IF p = r THEN Idle ELSE req[p]
    BY DEF Become, Commit, Fail, IInv, TypeOK
  <1>2. Idle.pc = "idle"
    BY DEF Idle
  <1>3. Behind(db', {}, 0)
    <2>1. CASE Commit(r)
      BY <2>1 DEF Commit, CountInv
    <2>2. CASE Fail(r)
      BY <2>2 DEF Fail, CountInv
    <2>3. QED BY <2>1, <2>2
  <1>4. \A p \in Requests : req'[p].pc \in Holding => req'[p] = req[p] /\ work' = work
    <2>1. \A p \in Requests : req'[p].pc \in Holding => p # r /\ req[p].pc \in Holding
      BY <1>1, <1>2 DEF Holding
    <2>2. writer # r => work' = work
      BY DEF Commit, Fail
    <2>3. QED BY <1>1, <2>1, <2>2 DEF IInv, LockInv
  <1>5. \A p \in Requests : req'[p].pc = "flushed" =>
           /\ Behind(work', Touched(req'[p]), Owed(req'[p]))
           /\ req'[p].op = "transfer" => req'[p].src # req'[p].dst
    BY <1>4 DEF CountInv, Holding
  <1>6. \A p \in Requests : req'[p].pc = "recorded" => Behind(work', {}, 0)
    BY <1>4 DEF CountInv, Holding
  <1>7. QED BY <1>3, <1>5, <1>6 DEF CountInv, Behind, Due, RowsOf, Touched, Owed

-----------------------------------------------------------------------------
(* Linking: a REVERSED row and its REVERSAL                                 *)

\* Rows that refer to nothing, or to rows of the same account and amount that
\* are marked in the same step, keep every row linked.
LEMMA LinksAdded ==
    ASSUME NEW d \in Database, NEW e \in Database, Grows(d, e), Linked(d),
           NEW N, DOMAIN e.txn = DOMAIN d.txn \cup N, N \cap DOMAIN d.txn = {},
           \A k \in N : /\ e.txn[k].related = 0 \/ (Refers(e, k) /\ e.txn[k].related \in DOMAIN d.txn)
                        /\ Signed(e.txn[k])
                        /\ e.txn[k].status = "COMPLETED",
           \A t \in DOMAIN d.txn : e.txn[t].status = "REVERSED" <=>
              d.txn[t].status = "REVERSED" \/ \E k \in N : e.txn[k].related = t
    PROVE  Linked(e)
  <1>1. ASSUME NEW k \in DOMAIN d.txn
        PROVE  /\ e.txn[k].related = d.txn[k].related
               /\ e.txn[k].related = 0 \/ (Refers(e, k) /\ e.txn[k].related \in DOMAIN d.txn)
               /\ Signed(e.txn[k])
    <2>1. /\ e.txn[k].account = d.txn[k].account /\ e.txn[k].type = d.txn[k].type
          /\ e.txn[k].amount = d.txn[k].amount /\ e.txn[k].change = d.txn[k].change
          /\ e.txn[k].related = d.txn[k].related
      BY RowsStay
    <2>2. d.txn[k].related = 0 \/ Refers(d, k)
      BY DEF Linked
    <2>6. Signed(e.txn[k])
      BY <2>1 DEF Linked, Signed
    <2>3. CASE Refers(d, k)
      <3> DEFINE t == d.txn[k].related
      <3>1. t \in DOMAIN d.txn
        BY <2>3 DEF Refers
      <3>2. t \in DOMAIN e.txn /\ e.txn[t].account = d.txn[t].account /\ e.txn[t].amount = d.txn[t].amount
        BY <3>1, RowsStay
      <3>3. Refers(e, k)
        BY <2>1, <2>3, <3>2 DEF Refers
      <3>4. QED BY <2>1, <2>6, <3>1, <3>3
    <2>4. CASE d.txn[k].related = 0
      BY <2>1, <2>4, <2>6
    <2>5. QED BY <2>2, <2>3, <2>4
  <1>2. 0 \notin DOMAIN e.txn
    BY DEF Database
  <1>3. \A k \in DOMAIN e.txn : e.txn[k].related = 0 \/ Refers(e, k)
    BY <1>1
  <1>4. \A k \in DOMAIN e.txn : Signed(e.txn[k])
    BY <1>1
  <1>5. ASSUME NEW t \in DOMAIN e.txn
        PROVE  e.txn[t].status = "REVERSED" <=> \E k \in DOMAIN e.txn : e.txn[k].related = t
    <2>1. CASE t \in DOMAIN d.txn
      <3>1. d.txn[t].status = "REVERSED" <=> \E k \in DOMAIN d.txn : d.txn[k].related = t
        BY <2>1 DEF Linked
      <3>2. \A k \in DOMAIN d.txn : e.txn[k].related = d.txn[k].related
        BY <1>1
      <3>3. QED BY <2>1, <3>1, <3>2
    <2>2. CASE t \in N
      <3>1. e.txn[t].status # "REVERSED"
        BY <2>2
      <3>2. t \notin DOMAIN d.txn /\ t # 0
        BY <1>2, <2>2
      <3>3. \A k \in DOMAIN e.txn : e.txn[k].related = 0 \/ e.txn[k].related \in DOMAIN d.txn
        BY <1>1
      <3>4. QED BY <3>1, <3>2, <3>3
    <2>3. QED BY <2>1, <2>2
  <1>6. QED BY <1>3, <1>4, <1>5 DEF Linked

\* What LinkInv says of a request holds of a larger database as well.
LEMMA RequestLinked ==
    ASSUME IInv, LinkInv, NEW e \in Database, Grows(db, e), NEW p \in Requests
    PROVE  req[p].op = "reverse" => req[p].src = e.txn[req[p].tid].account
  <1> SUFFICES ASSUME req[p].op = "reverse"
               PROVE  req[p].src = e.txn[req[p].tid].account
    OBVIOUS
  <1>1. db \in Database /\ req[p].tid \in DOMAIN db.txn /\ req[p].src = db.txn[req[p].tid].account
    BY DEF IInv, TypeOK, Placed, LinkInv
  <1>2. QED BY <1>1, RowsStay

\* A flush that keeps the rows linked.
LEMMA LinkFlush ==
    ASSUME IInv, IInv', LinkInv, NEW r \in Requests, NEW s, Flushed(r), Become(r, s),
           s.op = "reverse" => req[r].op = "reverse" /\ s.src = req[r].src /\ s.tid = req[r].tid,
           Linked(work')
    PROVE  LinkInv'
  <1>1. \A p \in Requests : req'[p] = IF p = r THEN s ELSE req[p]
    BY DEF Become, IInv, TypeOK
  <1>2. db' = db /\ Linked(db')
    BY DEF Flushed, LinkInv
  <1>3. \A p \in Requests : req'[p].op = "reverse" => req'[p].src = db'.txn[req'[p].tid].account
    BY <1>1, <1>2 DEF LinkInv
  <1>4. QED BY <1>2, <1>3 DEF LinkInv, Linked, Refers

\* A posting of one row keeps the rows linked.
LEMMA LinkRow ==
    ASSUME IInv, IInv', LinkInv, NEW r \in Requests, NEW row, NEW x, PostsRow(r, row, x)
    PROVE  LinkInv'
  <1> DEFINE q == req[r]
             s == [q EXCEPT !.pc = "flushed"]
             n == Len(db.txn) + 1
  <1>1. /\ db \in Database /\ work' \in Database /\ Grows(db, work') /\ q \in Request
        /\ Linked(db)
        /\ q.op = "reverse" => q.src = db.txn[q.tid].account
        /\ DOMAIN db.txn = 1 .. Len(db.txn) /\ Len(db.txn) \in Nat
    <2>1. Flushed(r) BY DEF PostsRow
    <2>2. Linked(db) /\ (q.op = "reverse" => q.src = db.txn[q.tid].account)
      BY DEF LinkInv
    <2>3. db \in Database /\ work' \in Database /\ Grows(db, work') /\ q \in Request
      BY <2>1, FlushedImages
    <2>4. DOMAIN db.txn = 1 .. Len(db.txn) /\ Len(db.txn) \in Nat
      BY <2>3 DEF Database
    <2>5. QED BY <2>2, <2>3, <2>4
  <1>2. s.op = q.op /\ s.src = q.src /\ s.tid = q.tid
    BY <1>1 DEF Request
  <1>3. /\ Flushed(r) /\ Become(r, s)
        /\ DOMAIN work'.txn = DOMAIN db.txn \cup {n} /\ n \notin DOMAIN db.txn
        /\ work'.txn[n] = row
        /\ row.account = q.src /\ row.change = x /\ row.status = "COMPLETED"
        /\ x \in {row.amount, -row.amount}
        /\ q.op # "reverse" => Signed(row)
    BY DEF PostsRow, SingleEntry, Signed
  <1>4. \/ /\ q.op # "reverse" /\ row.related = 0
           /\ \A t \in DOMAIN db.txn : work'.txn[t] = db.txn[t]
        \/ /\ q.op = "reverse"
           /\ q.tid \in DOMAIN db.txn
           /\ row.type = "REVERSAL" /\ row.related = q.tid
           /\ row.amount = db.txn[q.tid].amount
           /\ work'.txn[q.tid].status = "REVERSED"
           /\ \A t \in DOMAIN db.txn \ {q.tid} : work'.txn[t] = db.txn[t]
    BY DEF PostsRow
  <1>5. \A t \in DOMAIN db.txn : t < n /\ t # 0
    BY <1>1
  <1> HIDE DEF n, s, q
  <1>6. /\ work'.txn[n].related = 0 \/
              (Refers(work', n) /\ work'.txn[n].related \in DOMAIN db.txn)
        /\ Signed(work'.txn[n])
        /\ work'.txn[n].status = "COMPLETED"
    <2>1. CASE q.op # "reverse" /\ row.related = 0
      BY <1>3, <2>1
    <2>2. CASE /\ q.op = "reverse"
               /\ q.tid \in DOMAIN db.txn
               /\ row.type = "REVERSAL" /\ row.related = q.tid
               /\ row.amount = db.txn[q.tid].amount
      <3>1. /\ q.tid \in DOMAIN work'.txn
            /\ work'.txn[q.tid].account = db.txn[q.tid].account
            /\ work'.txn[q.tid].amount = db.txn[q.tid].amount
        BY <1>1, <2>2, RowsStay
      <3>2. Refers(work', n)
        BY <1>1, <1>3, <1>5, <2>2, <3>1 DEF Refers
      <3>3. db.txn[q.tid].amount > 0
        BY <1>1, <2>2 DEF Linked, Signed
      <3>4. Signed(row)
        BY <1>3, <2>2, <3>3 DEF Signed
      <3>5. QED BY <1>3, <2>2, <3>2, <3>4
    <2>3. QED BY <1>4, <2>1, <2>2
  <1>7. \A t \in DOMAIN db.txn : work'.txn[t].status = "REVERSED" <=>
           db.txn[t].status = "REVERSED" \/ \E k \in {n} : work'.txn[k].related = t
    BY <1>3, <1>4, <1>5
  <1> DEFINE N == {n}
  <1>8. /\ N \cap DOMAIN db.txn = {} /\ DOMAIN work'.txn = DOMAIN db.txn \cup N
        /\ \A t \in DOMAIN db.txn : work'.txn[t].status = "REVERSED" <=>
              db.txn[t].status = "REVERSED" \/ \E k \in N : work'.txn[k].related = t
    BY <1>3, <1>7
  <1>9. \A k \in N :
           /\ work'.txn[k].related = 0 \/
                 (Refers(work', k) /\ work'.txn[k].related \in DOMAIN db.txn)
           /\ Signed(work'.txn[k])
           /\ work'.txn[k].status = "COMPLETED"
    <2>1. \A k \in N : k = n OBVIOUS
    <2>2. QED BY <1>6, <2>1
  <1> HIDE DEF N
  <1>10. Linked(work')
    BY <1>1, <1>8, <1>9, LinksAdded
  <1>11. QED BY <1>2, <1>3, <1>10, LinkFlush DEF q

\* A transfer keeps the rows linked.
LEMMA LinkPair ==
    ASSUME IInv, IInv', LinkInv, NEW r \in Requests, NEW out, NEW in, PostsPair(r, out, in)
    PROVE  LinkInv'
  <1> DEFINE q == req[r]
             s == [q EXCEPT !.pc = "flushed"]
             n == Len(db.txn) + 1
  <1>1. /\ db \in Database /\ work' \in Database /\ Grows(db, work') /\ q \in Request
        /\ Linked(db) /\ 0 \notin DOMAIN db.txn
    <2>1. Flushed(r) BY DEF PostsPair
    <2>2. Linked(db) BY DEF LinkInv
    <2>3. QED BY <2>1, <2>2, FlushedImages, RowNumbers
  <1>2. s.op = "transfer"
    BY <1>1 DEF Request, PostsPair
  <1>3. /\ Flushed(r) /\ Become(r, s)
        /\ DOMAIN work'.txn = DOMAIN db.txn \cup {n, n + 1}
        /\ n \notin DOMAIN db.txn /\ n + 1 \notin DOMAIN db.txn
        /\ work'.txn[n] = out /\ work'.txn[n + 1] = in
        /\ \A t \in DOMAIN db.txn : work'.txn[t] = db.txn[t]
        /\ out.related = 0 /\ out.status = "COMPLETED" /\ out.change = -out.amount
        /\ in.related = 0 /\ in.status = "COMPLETED" /\ in.change = in.amount
        /\ Signed(out) /\ Signed(in)
    BY DEF PostsPair, Mated, Signed
  <1> DEFINE N == {n, n + 1}
  <1> HIDE DEF n, s
  <1>4. \A k \in N : /\ work'.txn[k].related = 0
                     /\ Signed(work'.txn[k])
                     /\ work'.txn[k].status = "COMPLETED"
    BY <1>3
  <1>5. N \cap DOMAIN db.txn = {} /\ DOMAIN work'.txn = DOMAIN db.txn \cup N
    BY <1>3
  <1> HIDE DEF N
  <1>6. \A t \in DOMAIN db.txn : work'.txn[t].status = "REVERSED" <=>
           db.txn[t].status = "REVERSED" \/ \E k \in N : work'.txn[k].related = t
    BY <1>1, <1>3, <1>4
  <1>7. Linked(work')
    BY <1>1, <1>4, <1>5, <1>6, LinksAdded
  <1>8. QED BY <1>2, <1>3, <1>7, LinkFlush

\* create_version and notifications leave the accounts and the rows alone.
LEMMA VersionKeeps ==
    ASSUME NEW d \in Database, Dense(d), NEW a \in Accounts,
           NEW type \in {"CREATE", "UPDATE"}, NEW old \in Account,
           NEW c, c = CreateVersion(d, a, type, old)
    PROVE  /\ c \in Database /\ Dense(c)
           /\ c.opened = d.opened /\ c.acct = d.acct /\ c.txn = d.txn
  <1>1. c \in Database /\ Dense(c)
    BY CreateVersionType
  <1>2. c.opened = d.opened /\ c.acct = d.acct /\ c.txn = d.txn
    BY DEF CreateVersion, Database
  <1>3. QED BY <1>1, <1>2

\* A notification leaves the accounts, the rows and the versions alone.
LEMMA NotifyKeeps ==
    ASSUME NEW d \in Database, Dense(d), NEW u \in Users, NEW c, c = Notify(d, u)
    PROVE  /\ c \in Database /\ Dense(c) /\ c.hist = d.hist
           /\ c.opened = d.opened /\ c.acct = d.acct /\ c.txn = d.txn
  <1>1. c \in Database /\ Dense(c)
    BY NotifyImage
  <1>2. /\ c.hist = d.hist
        /\ c.opened = d.opened /\ c.acct = d.acct /\ c.txn = d.txn
    BY DEF Notify, Database
  <1>3. QED BY <1>1, <1>2

\* Recording leaves the accounts and the transactions of the image alone.
LEMMA RecordedKeeps ==
    ASSUME IInv, NEW r \in Requests,
           RecordOpen(r) \/ RecordSingle(r) \/ RecordTransfer(r) \/ RecordReverse(r)
    PROVE  /\ work'.opened = work.opened /\ work'.acct = work.acct /\ work'.txn = work.txn
           /\ db' = db /\ writer' = writer /\ req[r].pc = "flushed"
           /\ Become(r, [req[r] EXCEPT !.pc = "recorded"])
  <1> DEFINE q == req[r]
  <1>1. /\ db' = db /\ writer' = writer /\ q.pc = "flushed"
        /\ Become(r, [q EXCEPT !.pc = "recorded"])
    BY DEF RecordOpen, RecordSingle, RecordTransfer, RecordReverse, At, Record
  <1>2. /\ work \in Database /\ Dense(work)
        /\ q.from \in Account /\ q.to \in Account /\ Fresh \in Account
        /\ \A a \in Accounts : Owner[a] \in Users
    <2>1. work \in Database /\ Dense(work) /\ q \in Request
      BY DEF IInv, TypeOK
    <2>2. Fresh \in Account
      BY DEF Fresh, Account
    <2>3. q.from \in Account /\ q.to \in Account
      BY <2>1 DEF Request
    <2>4. QED BY <2>1, <2>2, <2>3, ConstantsAssumption
  <1>3. CASE RecordOpen(r) \/ RecordSingle(r) \/ RecordReverse(r)
    <2>1. PICK type \in {"CREATE", "UPDATE"}, old \in Account :
             work' \in {Notify(CreateVersion(work, q.src, type, old), Owner[q.src]),
                        CreateVersion(work, q.src, type, old)}
      BY <1>2, <1>3 DEF RecordOpen, RecordSingle, RecordReverse, Record
    <2>2. q.src \in Accounts
      BY <1>3 DEF RecordOpen, RecordSingle, RecordReverse, At, IInv, Placed, Holding
    <2> DEFINE c == CreateVersion(work, q.src, type, old)
               n == Notify(c, Owner[q.src])
    <2> HIDE DEF q
    <2>3. /\ c \in Database /\ Dense(c)
          /\ c.opened = work.opened /\ c.acct = work.acct /\ c.txn = work.txn
      <3>1. c \in Database /\ Dense(c)
        BY <1>2, <2>2, CreateVersionType
      <3>2. c.opened = work.opened /\ c.acct = work.acct /\ c.txn = work.txn
        BY <1>2 DEF CreateVersion, Database
      <3>3. QED BY <3>1, <3>2
    <2>4. work' \in {n, c}
      BY <2>1
    <2> HIDE DEF c
    <2>5. n.opened = c.opened /\ n.acct = c.acct /\ n.txn = c.txn
      BY <1>2, <2>2, <2>3, NotifyKeeps
    <2> HIDE DEF n
    <2>6. QED BY <1>1, <2>3, <2>4, <2>5 DEF q
  <1>4. CASE RecordTransfer(r)
    <2> DEFINE one  == CreateVersion(work, q.src, "UPDATE", q.from)
               both == CreateVersion(one, q.dst, "UPDATE", q.to)
               sent == Notify(both, Owner[q.src])
               n    == Notify(sent, Owner[q.dst])
    <2>1. /\ q.src \in Accounts /\ q.dst \in Accounts
          /\ work' \in {sent, n}
      BY <1>4 DEF RecordTransfer, Record, At, IInv, Placed
    <2> HIDE DEF q
    <2>2. /\ one \in Database /\ Dense(one)
          /\ one.opened = work.opened /\ one.acct = work.acct /\ one.txn = work.txn
      <3>1. one \in Database /\ Dense(one)
        BY <1>2, <2>1, CreateVersionType
      <3>2. one.opened = work.opened /\ one.acct = work.acct /\ one.txn = work.txn
        BY <1>2 DEF CreateVersion, Database
      <3>3. QED BY <3>1, <3>2
    <2> HIDE DEF one
    <2>3. /\ both \in Database /\ Dense(both)
          /\ both.opened = one.opened /\ both.acct = one.acct /\ both.txn = one.txn
      BY <1>2, <2>1, <2>2, VersionKeeps
    <2> HIDE DEF both
    <2>4. /\ sent \in Database /\ Dense(sent)
          /\ sent.opened = both.opened /\ sent.acct = both.acct /\ sent.txn = both.txn
      BY <1>2, <2>1, <2>3, NotifyKeeps
    <2> HIDE DEF sent
    <2>5. n.opened = sent.opened /\ n.acct = sent.acct /\ n.txn = sent.txn
      BY <1>2, <2>1, <2>4, NotifyKeeps
    <2> HIDE DEF n
    <2>6. QED BY <1>1, <2>1, <2>2, <2>3, <2>4, <2>5 DEF q
  <1>5. QED BY <1>3, <1>4

\* An opening and the recordings leave the transactions alone.
LEMMA LinkOther ==
    ASSUME IInv, IInv', LinkInv, NEW r \in Requests,
           Open(r) \/ RecordOpen(r) \/ RecordSingle(r) \/ RecordTransfer(r) \/ RecordReverse(r)
    PROVE  LinkInv'
  <1>1. db' = db /\ Linked(db')
    BY DEF Open, RecordOpen, RecordSingle, RecordTransfer, RecordReverse, Flush, Record, LinkInv
  <1>2. Linked(work')
    <2>1. work'.txn = db.txn \/ work'.txn = work.txn
      <3>1. CASE Open(r)
        BY <3>1, FlushImage DEF Open
      <3>2. CASE RecordOpen(r) \/ RecordSingle(r) \/ RecordTransfer(r) \/ RecordReverse(r)
        BY <3>2, RecordedKeeps
      <3>3. QED BY <3>1, <3>2
    <2>2. QED BY <2>1 DEF LinkInv, Linked, Refers
  <1>3. \A p \in Requests : /\ req'[p].op = req[p].op
                            /\ req[p].op # "open" => req'[p].src = req[p].src
                            /\ req'[p].tid = req[p].tid
    <2>1. req[r] \in Request
      BY DEF IInv, TypeOK
    <2>2. PICK s : Become(r, s) /\ s.op = req[r].op /\ s.tid = req[r].tid
                   /\ (req[r].op # "open" => s.src = req[r].src)
      <3>1. CASE Open(r)
        <4>1. PICK a : Become(r, [req[r] EXCEPT !.pc = "flushed", !.src = a]) /\ req[r].op = "open"
          BY <3>1 DEF Open, At
        <4>2. QED BY <2>1, <4>1 DEF Request
      <3>2. CASE RecordOpen(r) \/ RecordSingle(r) \/ RecordTransfer(r) \/ RecordReverse(r)
        <4>1. Become(r, [req[r] EXCEPT !.pc = "recorded"])
          BY <3>2, RecordedKeeps
        <4>2. QED BY <2>1, <4>1 DEF Request
      <3>3. QED BY <3>1, <3>2
    <2>3. QED BY <2>2 DEF Become, IInv, TypeOK
  <1>4. \A p \in Requests : req'[p].op = "reverse" => req'[p].src = db'.txn[req'[p].tid].account
    BY <1>1, <1>3 DEF LinkInv
  <1>5. QED BY <1>1, <1>2, <1>4 DEF LinkInv, Linked, Refers

\* A commit and a failure keep the rows linked.
LEMMA LinkEnd ==
    ASSUME IInv, IInv', LinkInv, NEW r \in Requests, Commit(r) \/ Fail(r)
    PROVE  LinkInv'
  <1>1. \A p \in Requests : req'[p] = IF p = r THEN Idle ELSE req[p]
    BY DEF Become, Commit, Fail, IInv, TypeOK
  <1>2. Idle.op # "reverse"
    BY DEF Idle
  <1>3. db' \in {db, work} /\ work' \in {db, work}
    BY DEF Commit, Fail
  <1>4. Linked(db') /\ Linked(work')
    BY <1>3 DEF LinkInv
  <1>5. db' \in Database /\ Grows(db, db')
    BY <1>3, GrowsReflexive DEF IInv, TypeOK
  <1>6. \A p \in Requests : req'[p].op = "reverse" => req'[p].src = db'.txn[req'[p].tid].account
    BY <1>1, <1>2, <1>5, RequestLinked
  <1>7. QED BY <1>4, <1>6 DEF LinkInv, Linked, Refers

\* Outside the lock a request goes on with the account of the row it reverses,
\* and with snapshots that are current if nobody else has written.
LEMMA GoesOn ==
    ASSUME IInv, LinkInv, NEW r \in Requests,
           \/ Start(r) \/ LoadDestination(r) \/ LoadReversed(r) \/ RejectReversed(r)
           \/ Reject(r) \/ Busy(r)
    PROVE  \E s : /\ Become(r, s) /\ UNCHANGED <<db, work, writer>>
                  /\ s.pc \notin Holding
                  /\ s.op = "reverse" => s.src = db.txn[s.tid].account
                  /\ Current(req[r]) => Current(s)
  <1>1. /\ req[r] \in Request
        /\ req[r].op = "reverse" => req[r].src = db.txn[req[r].tid].account
    BY DEF IInv, TypeOK, LinkInv
  <1>2. CASE StartOpen(r)
    <2> DEFINE s == [Idle EXCEPT !.pc = "loaded", !.op = "open"]
    <2>1. s.pc = "loaded" /\ s.op = "open"
      BY DEF Idle
    <2>2. Become(r, s) /\ UNCHANGED <<db, work, writer>>
      BY <1>2 DEF StartOpen
    <2> HIDE DEF s
    <2>3. QED BY <2>1, <2>2 DEF Current, Holding
  <1>3. CASE StartSingle(r)
    <2>1. PICK op \in {"deposit", "withdraw"}, a \in db.opened, x \in Amounts :
             Become(r, [Idle EXCEPT !.pc = "loaded", !.op = op, !.src = a,
                                    !.amount = x, !.from = db.acct[a]])
      BY <1>3 DEF StartSingle
    <2> DEFINE s == [Idle EXCEPT !.pc = "loaded", !.op = op, !.src = a,
                                 !.amount = x, !.from = db.acct[a]]
    <2>2. s.pc = "loaded" /\ s.op = op /\ s.src = a /\ s.from = db.acct[a]
      BY DEF Idle
    <2>3. Become(r, s) /\ UNCHANGED <<db, work, writer>>
      BY <1>3, <2>1 DEF StartSingle
    <2> HIDE DEF s
    <2>4. QED BY <2>2, <2>3 DEF Current, Holding
  <1>4. CASE StartTransfer(r)
    <2>1. PICK f \in db.opened, d \in db.opened, x \in Amounts :
             Become(r, [Idle EXCEPT !.pc = "loading", !.op = "transfer", !.src = f,
                                    !.dst = d, !.amount = x, !.from = db.acct[f]])
      BY <1>4 DEF StartTransfer
    <2> DEFINE s == [Idle EXCEPT !.pc = "loading", !.op = "transfer", !.src = f,
                                 !.dst = d, !.amount = x, !.from = db.acct[f]]
    <2>2. s.pc = "loading" /\ s.op = "transfer" /\ s.src = f /\ s.from = db.acct[f]
      BY DEF Idle
    <2>3. Become(r, s) /\ UNCHANGED <<db, work, writer>>
      BY <1>4, <2>1 DEF StartTransfer
    <2> HIDE DEF s
    <2>4. QED BY <2>2, <2>3 DEF Current, Holding
  <1>5. CASE StartReverse(r)
    <2>1. PICK t \in DOMAIN db.txn :
             Become(r, [Idle EXCEPT !.pc = "loading", !.op = "reverse", !.tid = t,
                                    !.src = db.txn[t].account, !.seen = db.txn[t].status])
      BY <1>5 DEF StartReverse
    <2> DEFINE s == [Idle EXCEPT !.pc = "loading", !.op = "reverse", !.tid = t,
                                 !.src = db.txn[t].account, !.seen = db.txn[t].status]
    <2>2. /\ s.pc = "loading" /\ s.op = "reverse" /\ s.tid = t
          /\ s.src = db.txn[t].account /\ s.seen = db.txn[t].status
      BY DEF Idle
    <2>3. Become(r, s) /\ UNCHANGED <<db, work, writer>>
      BY <1>5, <2>1 DEF StartReverse
    <2> HIDE DEF s
    <2>4. QED BY <2>2, <2>3 DEF Current, Holding
  <1>6. CASE LoadDestination(r)
    <2> DEFINE s == [req[r] EXCEPT !.pc = "loaded", !.to = db.acct[req[r].dst]]
    <2>1. /\ s.pc = "loaded" /\ s.op = "transfer" /\ req[r].op = "transfer"
          /\ s.src = req[r].src /\ s.from = req[r].from
          /\ s.to = db.acct[s.dst]
      BY <1>1, <1>6 DEF LoadDestination, At, Request
    <2>2. Become(r, s) /\ UNCHANGED <<db, work, writer>>
      BY <1>6 DEF LoadDestination
    <2> HIDE DEF s
    <2>3. QED BY <2>1, <2>2 DEF Current, Holding
  <1>7. CASE LoadReversed(r)
    <2> DEFINE s == [req[r] EXCEPT !.pc = "loaded", !.from = db.acct[req[r].src]]
    <2>1. /\ s.pc = "loaded" /\ s.op = "reverse" /\ req[r].op = "reverse"
          /\ s.tid = req[r].tid /\ s.src = req[r].src
          /\ s.seen = req[r].seen /\ s.seen # "REVERSED" /\ s.from = db.acct[s.src]
      BY <1>1, <1>7 DEF LoadReversed, At, Request
    <2>2. Become(r, s) /\ UNCHANGED <<db, work, writer>>
      BY <1>7 DEF LoadReversed
    <2> HIDE DEF s
    <2>3. QED BY <1>1, <2>1, <2>2 DEF Current, Holding
  <1>8. CASE RejectReversed(r) \/ Reject(r) \/ Busy(r)
    <2>1. Become(r, Idle) /\ UNCHANGED <<db, work, writer>>
      BY <1>8 DEF RejectReversed, Reject, Busy
    <2>2. Idle.pc = "idle" /\ Idle.op = "none"
      BY DEF Idle
    <2>3. QED BY <2>1, <2>2 DEF Current, Holding
  <1>9. QED BY <1>2, <1>3, <1>4, <1>5, <1>6, <1>7, <1>8 DEF Start

-----------------------------------------------------------------------------
(* Theorems for any number of overlapping requests                          *)

\* The initial database has no rows to link.
LEMMA InitLink == Init => LinkInv
  BY DEF Init, LinkInv, Linked, Idle

\* Every step keeps the counts and the links.
LEMMA NextBooks ==
    ASSUME IInv, IInv', HeadInv, CountInv, LinkInv, [Next]_vars
    PROVE  CountInv' /\ LinkInv'
  <1>1. CASE UNCHANGED vars
    <2>1. db' = db /\ work' = work /\ req' = req
      BY <1>1 DEF vars
    <2>2. CountInv'
      <3>1. Behind(db', {}, 0)
        BY <2>1 DEF CountInv
      <3>2. \A p \in Requests : req'[p].pc = "flushed" =>
               /\ Behind(work', Touched(req'[p]), Owed(req'[p]))
               /\ req'[p].op = "transfer" => req'[p].src # req'[p].dst
        BY <2>1 DEF CountInv
      <3>3. \A p \in Requests : req'[p].pc = "recorded" => Behind(work', {}, 0)
        BY <2>1 DEF CountInv
      <3>4. QED BY <3>1, <3>2, <3>3 DEF CountInv, Behind, Due, RowsOf, Touched, Owed
    <2>3. LinkInv'
      BY <2>1 DEF LinkInv, Linked, Refers
    <2>4. QED BY <2>2, <2>3
  <1>2. CASE Rest
    BY <1>1, <1>2 DEF Rest
  <1>3. ASSUME NEW r \in Requests, Start(r) \/ Step(r) \/ Fail(r)
        PROVE  CountInv' /\ LinkInv'
    <2>1. CASE \/ Start(r) \/ LoadDestination(r) \/ LoadReversed(r) \/ RejectReversed(r)
               \/ Reject(r) \/ Busy(r)
      <3>1. PICK s : /\ Become(r, s) /\ UNCHANGED <<db, work, writer>>
                     /\ s.pc \notin Holding
                     /\ s.op = "reverse" => s.src = db.txn[s.tid].account
        BY <2>1, GoesOn
      <3>2. CountInv'
        BY <3>1, CountLocal
      <3>3. \A p \in Requests : req'[p] = IF p = r THEN s ELSE req[p]
        BY <3>1 DEF Become, IInv, TypeOK
      <3>4. LinkInv'
        BY <3>1, <3>3 DEF LinkInv, Linked, Refers
      <3>5. QED BY <3>2, <3>4
    <2>2. CASE Open(r)
      BY <2>2, CountOpen, LinkOther
    <2>3. CASE Deposit(r) \/ Withdraw(r) \/ Reverse(r)
      <3>1. PICK row, x : PostsRow(r, row, x)
        BY <2>3, SinglePosts, ReversePosts
      <3>2. QED BY <3>1, CountRow, LinkRow
    <2>4. CASE Transfer(r)
      <3>1. PICK out, in : PostsPair(r, out, in)
        BY <2>4, TransferPosts
      <3>2. QED BY <3>1, CountPair, LinkPair
    <2>5. CASE RecordOpen(r) \/ RecordSingle(r) \/ RecordTransfer(r) \/ RecordReverse(r)
      BY <2>5, CountRecordSteps, LinkOther
    <2>6. CASE Commit(r) \/ Fail(r)
      BY <2>6, CountEnd, LinkEnd
    <2>7. QED BY <1>3, <2>1, <2>2, <2>3, <2>4, <2>5, <2>6 DEF Step
  <1>4. QED BY <1>1, <1>2, <1>3 DEF Next

\* Every reachable state satisfies all the invariants.
THEOREM BooksInvariant == Spec => [](IInv /\ HeadInv /\ CountInv /\ LinkInv)
  <1>1. Init => CountInv /\ LinkInv
    BY InitCount, InitLink
  <1>2. IInv /\ IInv' /\ HeadInv /\ CountInv /\ LinkInv /\ [Next]_vars => CountInv' /\ LinkInv'
    BY NextBooks
  <1>3. IInv /\ IInv' /\ HeadInv /\ [Next]_vars => HeadInv'
    BY NextHead
  <1>4. QED BY <1>1, <1>2, <1>3, InitHead, InductiveInvariant, PTL DEF Spec

\* The balance, the transaction, the version and the audit row of an operation
\* are committed together or not at all, whatever fails and whoever overlaps
\* (deposit, withdraw, transfer, reverse_transaction, create_account).
THEOREM OperationsAtomic == Spec => []RecordsCommitTogether
  <1>1. IInv /\ CountInv => RecordsCommitTogether
    <2> SUFFICES ASSUME IInv, CountInv PROVE RecordsCommitTogether
      OBVIOUS
    <2>1. db \in Database /\ Behind(db, {}, 0)
      BY DEF IInv, TypeOK, CountInv
    <2>2. ASSUME NEW a \in Accounts
          PROVE  Len(db.hist[a]) = Cardinality(RowsOf(db, a)) + (IF a \in db.opened THEN 1 ELSE 0)
      <3>1. Len(db.hist[a]) \in Nat
        BY <2>1 DEF Database
      <3>2. Len(db.hist[a]) + 0 = Due(db, a)
        BY <2>1 DEF Behind
      <3>3. QED BY <3>1, <3>2 DEF Due
    <2>3. db.audit = Cardinality(db.opened) + Len(db.txn)
      <3>1. db.audit \in Nat
        BY <2>1 DEF Database
      <3>2. db.audit + 0 = Cardinality(db.opened) + Len(db.txn)
        BY <2>1 DEF Behind
      <3>3. QED BY <3>1, <3>2
    <2>4. QED BY <2>2, <2>3 DEF RecordsCommitTogether
  <1>2. QED BY <1>1, BooksInvariant, PTL

\* A transaction is marked REVERSED exactly when a later REVERSAL row of its
\* account and amount refers to it: the mark and the correcting row are one
\* flush, and no stale snapshot of a transaction is written back
\* (reverse_transaction).
THEOREM ReversedRowsLinked == Spec => []ReversalLinked
  <1>1. IInv /\ LinkInv => ReversalLinked
    <2> SUFFICES ASSUME IInv, LinkInv, NEW t \in DOMAIN db.txn
                 PROVE  db.txn[t].status = "REVERSED" <=>
                           \E k \in DOMAIN db.txn :
                              /\ k > t
                              /\ db.txn[k].type = "REVERSAL"
                              /\ db.txn[k].related = t
                              /\ db.txn[k].account = db.txn[t].account
                              /\ db.txn[k].amount = db.txn[t].amount
      BY DEF ReversalLinked
    <2>1. t # 0 /\ \A k \in DOMAIN db.txn : k \in Nat /\ t \in Nat
      BY DEF IInv, TypeOK, Database
    <2>2. \A k \in DOMAIN db.txn : db.txn[k].related = t => Refers(db, k)
      BY <2>1 DEF LinkInv, Linked
    <2>3. \A k \in DOMAIN db.txn : db.txn[k].related = t =>
             /\ k > t
             /\ db.txn[k].type = "REVERSAL"
             /\ db.txn[k].account = db.txn[t].account
             /\ db.txn[k].amount = db.txn[t].amount
      BY <2>1, <2>2 DEF Refers
    <2>4. db.txn[t].status = "REVERSED" <=> \E k \in DOMAIN db.txn : db.txn[k].related = t
      BY DEF LinkInv, Linked
    <2>5. QED BY <2>3, <2>4
  <1>2. QED BY <1>1, BooksInvariant, PTL

-----------------------------------------------------------------------------
(* Requests that do not overlap                                             *)

\* At most one request is in progress at a time.
OneAtATime == \A p, q \in Requests : p = q

\* The initial histories hold one version of every open account.
LEMMA InitSerial == Init => SerialInv
  <1> SUFFICES ASSUME Init PROVE SerialInv
    OBVIOUS
  <1>1. work = db /\ \A a \in Accounts : db.acct[a] = Fresh
    BY DEF Init
  <1>2. \A a \in Accounts : Len(db.hist[a]) = IF a \in InitialAccounts THEN 1 ELSE 0
    BY DEF Init
  <1>3. Chain(db)
    BY <1>2 DEF Chain
  <1>4. Counted(db, {})
    <2>1. db.opened = InitialAccounts
      BY DEF Init
    <2>2. Fresh.version = 1
      BY DEF Fresh
    <2>3. QED BY <1>1, <1>2, <2>1, <2>2, ConstantsAssumption DEF Counted
  <1>5. Unopened(db) /\ Unopened(work)
    BY <1>1 DEF Unopened
  <1>6. \A r \in Requests : req[r].pc = "idle" /\ req[r].op = "none"
    BY DEF Init, Idle
  <1>7. \A r \in Requests : Current(req[r])
    BY <1>6 DEF Current
  <1>8. QED BY <1>3, <1>4, <1>5, <1>6, <1>7 DEF SerialInv, Holding

\* A step outside the write transaction.
LEMMA SerialLocal ==
    ASSUME OneAtATime, IInv, SerialInv, NEW r \in Requests, NEW s, Become(r, s),
           UNCHANGED <<db, work, writer>>, s.pc \notin Holding, Current(s)
    PROVE  SerialInv'
  <1>1. \A p \in Requests : req'[p] = s
    BY DEF OneAtATime, Become, IInv, TypeOK
  <1>2. /\ Chain(db') /\ Counted(db', {}) /\ Unopened(db') /\ Unopened(work')
    BY DEF SerialInv
  <1>3. (\A p \in Requests : Current(req[p]))'
    BY <1>1 DEF Current
  <1>4. \A p \in Requests : req'[p].pc \notin Holding
    BY <1>1
  <1>5. (\A p \in Requests : req[p].pc = "flushed" =>
           /\ work.hist = db.hist
           /\ Counted(work, Touched(req[p]))
           /\ req[p].op = "open" => db.hist[req[p].src] = <<>>)'
    BY <1>4 DEF Holding
  <1>6. (\A p \in Requests : req[p].pc = "recorded" => Chain(work) /\ Counted(work, {}))'
    BY <1>4 DEF Holding
  <1>7. (\A p \in Requests : req[p].pc \in Holding => Effect(db, work))'
    BY <1>4 DEF Holding
  <1>8. QED BY <1>2, <1>3, <1>5, <1>6, <1>7 DEF SerialInv, Chain, Counted, Unopened

\* A flush by the only request.
LEMMA SerialFlush ==
    ASSUME OneAtATime, IInv, SerialInv, NEW r \in Requests, NEW s, Flushed(r), Become(r, s),
           s.pc = "flushed", Current(s), Counted(work', Touched(s)), Unopened(work'),
           s.op = "open" => db.hist[s.src] = <<>>, Effect(db, work')
    PROVE  SerialInv'
  <1>1. \A p \in Requests : req'[p] = s
    BY DEF OneAtATime, Become, IInv, TypeOK
  <1>2. db' = db /\ work'.hist = db.hist
    BY DEF Flushed
  <1>3. /\ Chain(db') /\ Counted(db', {}) /\ Unopened(db') /\ Unopened(work')
    BY <1>2 DEF SerialInv
  <1>4. (\A p \in Requests : Current(req[p]))'
    BY <1>1, <1>2 DEF Current
  <1>5. \A p \in Requests : req'[p].pc = "flushed" =>
           /\ work'.hist = db'.hist
           /\ Counted(work', Touched(req'[p]))
           /\ req'[p].op = "open" => db'.hist[req'[p].src] = <<>>
    BY <1>1, <1>2
  <1>6. \A p \in Requests : req'[p].pc = "recorded" => Chain(work') /\ Counted(work', {})
    BY <1>1
  <1>7. \A p \in Requests : req'[p].pc \in Holding => Effect(db', work')
    BY <1>2
  <1> HIDE DEF Effect
  <1>8. QED
    <2>2. (\A p \in Requests : req[p].pc = "flushed" =>
             /\ work.hist = db.hist
             /\ Counted(work, Touched(req[p]))
             /\ req[p].op = "open" => db.hist[req[p].src] = <<>>)'
      BY <1>5 DEF Counted, Touched
    <2>3. (\A p \in Requests : req[p].pc = "recorded" => Chain(work) /\ Counted(work, {}))'
      BY <1>6 DEF Chain, Counted
    <2>4. (\A p \in Requests : req[p].pc \in Holding => Effect(db, work))'
      BY <1>7 DEF Holding, Effect, SameBooks, Posted, MovedBetween, CorrectedEntry, Balance, Journal
    <2>5. QED BY <1>3, <1>4, <2>2, <2>3, <2>4 DEF SerialInv, Chain, Counted, Unopened

\* create_version writes the missing version of an account, and chains it to
\* the newest one if old_data is what that one shows.
LEMMA VersionChained ==
    ASSUME NEW d \in Database, Dense(d), NEW a \in Accounts,
           NEW type \in {"CREATE", "UPDATE"}, NEW old \in Account,
           Chain(d), d.hist[a] # <<>> => d.hist[a][Len(d.hist[a])].new = old,
           NEW S, a \in S, Counted(d, S),
           NEW c, c = CreateVersion(d, a, type, old)
    PROVE  /\ Chain(c) /\ Counted(c, S \ {a})
           /\ \A b \in Accounts \ {a} : c.hist[b] = d.hist[b]
  <1> DEFINE row == [number |-> NextVersionNumber(d.hist[a]), type |-> type,
                     old |-> old, new |-> d.acct[a]]
  <1>1. /\ c.opened = d.opened /\ c.acct = d.acct
        /\ c.hist = [d.hist EXCEPT ![a] = Append(d.hist[a], row)]
    BY DEF CreateVersion, Database
  <1>2. row.old = old
    OBVIOUS
  <1> HIDE DEF row
  <1>3. d.hist \in [Accounts -> Seq(Version)] /\ d.opened \subseteq Accounts
    BY DEF Database
  <1>4. \A b \in Accounts \ {a} : c.hist[b] = d.hist[b]
    BY <1>1, <1>3
  <1>5. /\ d.hist[a] \in Seq(Version) /\ Len(d.hist[a]) \in Nat
        /\ c.hist[a] = Append(d.hist[a], row)
    BY <1>1, <1>3
  <1>6. Chain(c)
    <2> SUFFICES ASSUME NEW b \in Accounts, NEW i \in 2 .. Len(c.hist[b])
                 PROVE  c.hist[b][i].old = c.hist[b][i - 1].new
      BY DEF Chain
    <2>1. CASE b # a
      BY <1>4, <2>1 DEF Chain
    <2>2. CASE b = a
      <3>1. Len(c.hist[a]) = Len(d.hist[a]) + 1
        BY <1>5
      <3>2. CASE i \in 2 .. Len(d.hist[a])
        <4>1. c.hist[a][i] = d.hist[a][i] /\ c.hist[a][i - 1] = d.hist[a][i - 1]
          BY <1>5, <3>2
        <4>2. d.hist[a][i].old = d.hist[a][i - 1].new
          BY <3>2 DEF Chain
        <4>3. QED BY <2>2, <4>1, <4>2
      <3>3. CASE i = Len(d.hist[a]) + 1
        <4>1. c.hist[a][i] = row /\ c.hist[a][i - 1] = d.hist[a][Len(d.hist[a])]
          BY <1>5, <2>2, <3>1, <3>3
        <4>2. d.hist[a] # <<>>
          BY <1>5, <2>2, <3>3
        <4>3. QED BY <1>2, <2>2, <4>1, <4>2
      <3>4. QED BY <1>5, <2>2, <3>1, <3>2, <3>3
    <2>3. QED BY <2>1, <2>2
  <1>7. Counted(c, S \ {a})
    <2> SUFFICES ASSUME NEW b \in d.opened
                 PROVE  d.acct[b].version = Len(c.hist[b]) + (IF b \in S \ {a} THEN 1 ELSE 0)
      BY <1>1 DEF Counted
    <2>1. d.acct[b].version = Len(d.hist[b]) + (IF b \in S THEN 1 ELSE 0)
      BY DEF Counted
    <2>2. b \in Accounts /\ Len(d.hist[b]) \in Nat
      BY <1>3
    <2>3. CASE b = a
      <3>1. Len(c.hist[a]) = Len(d.hist[a]) + 1
        BY <1>5
      <3>2. QED BY <2>1, <2>2, <2>3, <3>1
    <2>4. CASE b # a
      BY <1>4, <2>1, <2>2, <2>4
    <2>5. QED BY <2>3, <2>4
  <1>8. QED BY <1>4, <1>6, <1>7

\* Images with the same accounts and rows are the same books.
LEMMA EffectKept ==
    ASSUME NEW d, NEW e, NEW f, Effect(d, e), f.acct = e.acct, f.txn = e.txn
    PROVE  Effect(d, f)
  <1>1. Balance(f) = Balance(e) /\ Journal(f) = Journal(e)
    BY DEF Balance, Journal
  <1>2. QED BY <1>1 DEF Effect, SameBooks, Posted, MovedBetween, CorrectedEntry

\* A recording by the only request that leaves one chain.
LEMMA SerialRecord ==
    ASSUME OneAtATime, IInv, SerialInv, NEW r \in Requests, req[r].pc = "flushed",
           Become(r, [req[r] EXCEPT !.pc = "recorded"]), db' = db,
           work'.opened = work.opened, work'.acct = work.acct, work'.txn = work.txn,
           Chain(work'), Counted(work', {})
    PROVE  SerialInv'
  <1> DEFINE s == [req[r] EXCEPT !.pc = "recorded"]
  <1>1. \A p \in Requests : req'[p] = s
    BY DEF OneAtATime, Become, IInv, TypeOK
  <1>2. /\ s.pc = "recorded" /\ s.op = req[r].op /\ s.src = req[r].src /\ s.dst = req[r].dst
        /\ s.tid = req[r].tid /\ s.seen = req[r].seen /\ s.from = req[r].from /\ s.to = req[r].to
    BY DEF IInv, TypeOK, Request
  <1>3. Current(s)
    BY <1>2 DEF SerialInv, Current
  <1> HIDE DEF s
  <1>4. /\ Chain(db') /\ Counted(db', {}) /\ Unopened(db') /\ Unopened(work')
    BY DEF SerialInv, Unopened
  <1>5. (\A p \in Requests : Current(req[p]))'
    BY <1>1, <1>3 DEF Current
  <1>6. Effect(db', work')
    <2>1. Effect(db, work)
      BY DEF SerialInv, Holding
    <2>2. QED BY <2>1, EffectKept
  <1>7. (\A p \in Requests : req[p].pc = "flushed" =>
           /\ work.hist = db.hist
           /\ Counted(work, Touched(req[p]))
           /\ req[p].op = "open" => db.hist[req[p].src] = <<>>)'
    BY <1>1, <1>2
  <1>8. (\A p \in Requests : req[p].pc = "recorded" => Chain(work) /\ Counted(work, {}))'
    BY DEF Chain, Counted
  <1>9. (\A p \in Requests : req[p].pc \in Holding => Effect(db, work))'
    BY <1>6 DEF Holding, Effect, SameBooks, Posted, MovedBetween, CorrectedEntry, Balance, Journal
  <1>10. QED BY <1>4, <1>5, <1>7, <1>8, <1>9 DEF SerialInv, Chain, Counted, Unopened

\* The end of the only request.
LEMMA SerialEnd ==
    ASSUME OneAtATime, IInv, SerialInv, NEW r \in Requests, Commit(r) \/ Fail(r)
    PROVE  SerialInv'
  <1>1. \A p \in Requests : req'[p] = Idle
    BY DEF OneAtATime, Become, Commit, Fail, IInv, TypeOK
  <1>2. Idle.pc = "idle" /\ Idle.op = "none"
    BY DEF Idle
  <1>3. /\ Chain(db') /\ Counted(db', {}) /\ Unopened(db') /\ Unopened(work')
    <2>1. CASE Commit(r)
      <3>1. db' = work /\ work' = work /\ Chain(work) /\ Counted(work, {})
        BY <2>1 DEF Commit, SerialInv
      <3>2. QED BY <3>1 DEF SerialInv
    <2>2. CASE Fail(r)
      BY <2>2 DEF Fail, SerialInv
    <2>3. QED BY <2>1, <2>2
  <1>4. (\A p \in Requests : Current(req[p]))'
    BY <1>1, <1>2 DEF Current
  <1>5. \A p \in Requests : req'[p].pc \notin Holding
    BY <1>1, <1>2 DEF Holding
  <1>6. (\A p \in Requests : req[p].pc = "flushed" =>
           /\ work.hist = db.hist
           /\ Counted(work, Touched(req[p]))
           /\ req[p].op = "open" => db.hist[req[p].src] = <<>>)'
    BY <1>5 DEF Holding
  <1>7. (\A p \in Requests : req[p].pc = "recorded" => Chain(work) /\ Counted(work, {}))'
    BY <1>5 DEF Holding
  <1>8. (\A p \in Requests : req[p].pc \in Holding => Effect(db, work))'
    BY <1>5 DEF Holding
  <1>9. QED BY <1>3, <1>4, <1>6, <1>7, <1>8 DEF SerialInv, Chain, Counted, Unopened

LineOf(row) == L!Line(row.account, Kind(row.type), row.change, row.related)

Kinds == {"post", "move", "correction"}

\* The journal of a database is a sequence.
LEMMA JournalType ==
    ASSUME NEW d \in Database
    PROVE  /\ Journal(d) \in Seq([account : Accounts, kind : Kinds, change : Int, corrects : Nat])
           /\ Len(Journal(d)) = Len(d.txn) /\ DOMAIN Journal(d) = DOMAIN d.txn
           /\ \A t \in DOMAIN d.txn :
                 Journal(d)[t] = LineOf(d.txn[t])
  <1> DEFINE E == [account : Accounts, kind : Kinds, change : Int, corrects : Nat]
  <1>1. Len(d.txn) \in Nat /\ DOMAIN d.txn = 1 .. Len(d.txn)
    BY DEF Database
  <1>2. \A t \in DOMAIN d.txn : d.txn[t] \in Transaction
    BY DEF Database
  <1>3. \A t \in DOMAIN d.txn : [account |-> d.txn[t].account, kind |-> Kind(d.txn[t].type),
                                 change |-> d.txn[t].change, corrects |-> d.txn[t].related] \in E
    BY <1>2 DEF Transaction, Kind, Kinds
  <1> HIDE DEF E
  <1>4. Journal(d) \in [1 .. Len(d.txn) -> E]
    BY <1>1, <1>3 DEF Journal
  <1>5. Journal(d) \in Seq(E) /\ Len(Journal(d)) = Len(d.txn) /\ DOMAIN Journal(d) = DOMAIN d.txn
    BY <1>1, <1>4
  <1>6. \A t \in DOMAIN d.txn :
           Journal(d)[t] = LineOf(d.txn[t])
    BY DEF Journal, LineOf, L!Line
  <1>7. QED BY <1>5, <1>6 DEF E

\* One row more is one line more.
LEMMA JournalRow ==
    ASSUME NEW d \in Database, NEW e \in Database, Grows(d, e), Len(e.txn) = Len(d.txn) + 1,
           NEW row, row = e.txn[Len(d.txn) + 1]
    PROVE  Journal(e) = Append(Journal(d), LineOf(row))
  <1> DEFINE E == [account : Accounts, kind : Kinds, change : Int, corrects : Nat]
             l == LineOf(row)
             n == Len(d.txn)
  <1>1. /\ Journal(d) \in Seq(E) /\ Len(Journal(d)) = n
        /\ Journal(e) \in Seq(E) /\ Len(Journal(e)) = n + 1 /\ n \in Nat
        /\ DOMAIN d.txn = 1 .. n /\ DOMAIN e.txn = 1 .. (n + 1)
    <2>1. n \in Nat /\ DOMAIN d.txn = 1 .. n /\ DOMAIN e.txn = 1 .. (n + 1)
      BY DEF Database
    <2>2. QED BY <2>1, JournalType
  <1>2. ASSUME NEW t \in 1 .. n PROVE Journal(e)[t] = Journal(d)[t]
    <2>1. t \in DOMAIN d.txn /\ t \in DOMAIN e.txn
      BY <1>1
    <2>2. /\ e.txn[t].account = d.txn[t].account /\ e.txn[t].change = d.txn[t].change
          /\ e.txn[t].related = d.txn[t].related /\ e.txn[t].type = d.txn[t].type
      BY <2>1, RowsStay
    <2>3. /\ Journal(d)[t] = LineOf(d.txn[t])
          /\ Journal(e)[t] = LineOf(e.txn[t])
      BY <2>1, JournalType
    <2>4. QED BY <2>2, <2>3 DEF LineOf
  <1>3. Journal(e)[n + 1] = l
    BY <1>1, JournalType
  <1> HIDE DEF E, l, n
  <1>4. l \in E
    BY <1>1, <1>3
  <1>5. /\ Append(Journal(d), l) \in Seq(E) /\ Len(Append(Journal(d), l)) = n + 1
        /\ \A t \in 1 .. n : Append(Journal(d), l)[t] = Journal(d)[t]
        /\ Append(Journal(d), l)[n + 1] = l
    BY <1>1, <1>4
  <1>6. \A t \in 1 .. (n + 1) : Journal(e)[t] = Append(Journal(d), l)[t]
    BY <1>1, <1>2, <1>3, <1>5
  <1>7. QED BY <1>1, <1>5, <1>6, SeqEqual DEF l

\* Two rows more are two lines more.
LEMMA JournalPair ==
    ASSUME NEW d \in Database, NEW e \in Database, Grows(d, e), Len(e.txn) = Len(d.txn) + 2,
           NEW out, out = e.txn[Len(d.txn) + 1], NEW in, in = e.txn[Len(d.txn) + 2]
    PROVE  Journal(e) = Journal(d) \o <<LineOf(out),
                                        LineOf(in)>>
  <1> DEFINE E == [account : Accounts, kind : Kinds, change : Int, corrects : Nat]
             l == LineOf(out)
             m == LineOf(in)
             n == Len(d.txn)
             s == Journal(d) \o <<l, m>>
  <1>1. /\ Journal(d) \in Seq(E) /\ Len(Journal(d)) = n
        /\ Journal(e) \in Seq(E) /\ Len(Journal(e)) = n + 2 /\ n \in Nat
        /\ DOMAIN d.txn = 1 .. n /\ DOMAIN e.txn = 1 .. (n + 2)
    <2>1. n \in Nat /\ DOMAIN d.txn = 1 .. n /\ DOMAIN e.txn = 1 .. (n + 2)
      BY DEF Database
    <2>2. QED BY <2>1, JournalType
  <1>2. ASSUME NEW t \in 1 .. n PROVE Journal(e)[t] = Journal(d)[t]
    <2>1. t \in DOMAIN d.txn /\ t \in DOMAIN e.txn
      BY <1>1
    <2>2. /\ e.txn[t].account = d.txn[t].account /\ e.txn[t].change = d.txn[t].change
          /\ e.txn[t].related = d.txn[t].related /\ e.txn[t].type = d.txn[t].type
      BY <2>1, RowsStay
    <2>3. /\ Journal(d)[t] = LineOf(d.txn[t])
          /\ Journal(e)[t] = LineOf(e.txn[t])
      BY <2>1, JournalType
    <2>4. QED BY <2>2, <2>3 DEF LineOf
  <1>3. Journal(e)[n + 1] = l /\ Journal(e)[n + 2] = m
    BY <1>1, JournalType
  <1> HIDE DEF E, l, m, n
  <1>4. l \in E /\ m \in E
    BY <1>1, <1>3
  <1>5. /\ s \in Seq(E) /\ Len(s) = n + 2
        /\ \A t \in 1 .. n : s[t] = Journal(d)[t]
        /\ s[n + 1] = l /\ s[n + 2] = m
    BY <1>1, <1>4
  <1> HIDE DEF s
  <1>6. \A t \in 1 .. (n + 2) : Journal(e)[t] = s[t]
    BY <1>1, <1>2, <1>3, <1>5
  <1>7. Journal(e) = s
    BY <1>1, <1>5, <1>6, SeqEqual
  <1>8. QED BY <1>7 DEF s, l, m

\* The balances after one account has moved by x.
LEMMA BalanceMoved ==
    ASSUME NEW d \in Database, NEW e \in Database, NEW a \in Accounts, NEW x \in Int,
           e.acct = [d.acct EXCEPT ![a] = Moved(d.acct[a], x)]
    PROVE  Balance(e) = [Balance(d) EXCEPT ![a] = @ + x]
  <1>1. d.acct \in [Accounts -> Account]
    BY DEF Database
  <1>2. \A b \in Accounts : e.acct[b] = IF b = a THEN Moved(d.acct[a], x) ELSE d.acct[b]
    BY <1>1
  <1>3. Moved(d.acct[a], x).balance = d.acct[a].balance + x
    BY DEF Moved
  <1>4. \A b \in Accounts : e.acct[b].balance =
           IF b = a THEN d.acct[a].balance + x ELSE d.acct[b].balance
    BY <1>2, <1>3
  <1>5. QED BY <1>4 DEF Balance

\* A posting by the only request writes what the ledger posts or corrects.
LEMMA SerialRow ==
    ASSUME OneAtATime, IInv, IInv', OverdraftInv, LinkInv, SerialInv,
           NEW r \in Requests, NEW row, NEW x, PostsRow(r, row, x)
    PROVE  SerialInv'
  <1> DEFINE q == req[r]
             s == [q EXCEPT !.pc = "flushed"]
             n == Len(db.txn) + 1
  <1>1. /\ db \in Database /\ work' \in Database /\ Grows(db, work') /\ q \in Request
        /\ db.acct \in [Accounts -> Account] /\ db.opened \subseteq Accounts
        /\ \A a \in Accounts : Len(db.hist[a]) \in Nat
    BY DEF IInv, TypeOK, PostsRow, Flushed, Database
  <1>2. /\ s.pc = "flushed" /\ s.op = q.op /\ s.src = q.src /\ s.dst = q.dst
        /\ s.tid = q.tid /\ s.seen = q.seen /\ s.from = q.from /\ s.to = q.to
    BY <1>1 DEF Request
  <1>3. /\ Flushed(r) /\ Become(r, s) /\ q.pc = "loaded"
        /\ q.op \in {"deposit", "withdraw", "reverse"}
        /\ q.src \in db.opened /\ q.src \in Accounts /\ x \in Int
        /\ work'.opened = db.opened /\ work'.hist = db.hist
        /\ work'.acct = [db.acct EXCEPT ![q.src] = Moved(q.from, x)]
        /\ row.account = q.src /\ row.change = x /\ x \in {row.amount, -row.amount}
        /\ Len(work'.txn) = n /\ row = work'.txn[n]
    BY <1>1 DEF PostsRow, Flushed
  <1>4. \/ /\ q.op \in {"deposit", "withdraw"}
           /\ row.related = 0
           /\ row.type \in {"DEPOSIT", "WITHDRAWAL", "REVERSAL"}
           /\ row.type = "REVERSAL" => row.related # 0
           /\ x # 0 /\ (x < 0 => q.from.available + x >= 0)
        \/ /\ q.op = "reverse"
           /\ q.tid \in DOMAIN db.txn
           /\ row.related = q.tid /\ row.type = "REVERSAL"
           /\ x = ReversalChange(db.txn[q.tid])
    BY DEF PostsRow, SingleEntry
  <1> HIDE DEF s, n
  <1>5. /\ q.from = db.acct[q.src]
        /\ q.op = "reverse" => q.seen = db.txn[q.tid].status /\ q.seen # "REVERSED"
    <2>1. Current(q)
      BY DEF SerialInv
    <2>2. QED BY <1>3, <2>1 DEF Current
  <1>6. Current(s)
    BY <1>2, <1>3, <1>5 DEF Current
  <1> HIDE DEF q
  <1>7. \A b \in Accounts : work'.acct[b] = IF b = q.src THEN Moved(q.from, x) ELSE db.acct[b]
    BY <1>1, <1>3
  <1>8. Touched(s) = {q.src} /\ s.op # "open"
    BY <1>2, <1>3 DEF Touched
  <1>9. Counted(work', {q.src})
    <2> SUFFICES ASSUME NEW b \in db.opened
                 PROVE  work'.acct[b].version = Len(db.hist[b]) + (IF b \in {q.src} THEN 1 ELSE 0)
      BY <1>3 DEF Counted
    <2>1. b \in Accounts /\ Len(db.hist[b]) \in Nat
      BY <1>1
    <2>2. db.acct[b].version = Len(db.hist[b]) + 0
      BY DEF SerialInv, Counted
    <2>3. Moved(q.from, x).version = q.from.version + 1
      BY DEF Moved
    <2>4. CASE b = q.src
      <3>1. work'.acct[b].version = db.acct[b].version + 1
        BY <1>5, <1>7, <2>1, <2>3, <2>4
      <3>2. QED BY <2>1, <2>2, <2>4, <3>1
    <2>5. CASE b # q.src
      BY <1>7, <2>1, <2>2, <2>5
    <2>6. QED BY <2>4, <2>5
  <1>10. Unopened(work')
    BY <1>3, <1>7 DEF SerialInv, Unopened
  <1>11. Balance(work') = [Balance(db) EXCEPT ![q.src] = @ + x]
    BY <1>1, <1>3, <1>5, BalanceMoved
  <1>12. Journal(work') = Append(Journal(db), L!Line(q.src, Kind(row.type), x, row.related))
    <2>1. Journal(work') = Append(Journal(db), LineOf(row))
      BY <1>1, <1>3, JournalRow DEF n
    <2>2. LineOf(row) = L!Line(q.src, Kind(row.type), x, row.related)
      BY <1>3 DEF LineOf
    <2>3. QED BY <2>1, <2>2
  <1>13. Effect(db, work')
    <2>1. CASE /\ row.related = 0
               /\ row.type \in {"DEPOSIT", "WITHDRAWAL", "REVERSAL"}
               /\ row.type = "REVERSAL" => row.related # 0
               /\ x # 0 /\ (x < 0 => q.from.available + x >= 0)
      <3>1. Balance(db)[q.src] = q.from.balance
        BY <1>3, <1>5 DEF Balance
      <3>2. q.from.available = q.from.balance
        BY <1>3, <1>5 DEF OverdraftInv, Covered
      <3>3. x < 0 => Balance(db)[q.src] + x >= 0
        BY <2>1, <3>1, <3>2
      <3>6. Kind(row.type) = "post"
        BY <2>1 DEF Kind
      <3>4. Posted(db, work')
        <4>1. Journal(work') = Append(Journal(db), L!Line(q.src, "post", x, 0))
          BY <1>12, <2>1, <3>6
        <4>2. q.src \in Accounts /\ x \in Int \ {0}
          BY <1>3, <2>1
        <4>3. QED BY <1>11, <3>3, <4>1, <4>2 DEF Posted
      <3>5. QED BY <3>4 DEF Effect
    <2>2. CASE /\ q.op = "reverse"
               /\ q.tid \in DOMAIN db.txn
               /\ row.related = q.tid /\ row.type = "REVERSAL"
               /\ x = ReversalChange(db.txn[q.tid])
      <3> DEFINE i == q.tid
      <3>1. /\ i \in DOMAIN Journal(db)
            /\ Journal(db)[i].kind = Kind(db.txn[i].type)
            /\ Journal(db)[i].change = db.txn[i].change
            /\ Journal(db)[i].account = q.src
        <4>1. db.txn[i].account = q.src
          BY <2>2 DEF LinkInv, q
        <4>2. QED BY <2>2, <4>1 DEF Journal
      <3>2. \A k \in DOMAIN Journal(db) : Journal(db)[k].corrects # i
        <4>1. \A k \in DOMAIN db.txn : db.txn[k].related # i
          BY <1>5, <2>2 DEF LinkInv, Linked
        <4>2. QED BY <4>1 DEF Journal
      <3>3. \/ /\ Journal(db)[i].change > 0 \/ Journal(db)[i].kind = "post"
               /\ x = -Journal(db)[i].change
            \/ /\ Journal(db)[i].change < 0 /\ Journal(db)[i].kind # "post"
               /\ x = Journal(db)[i].change
        <4>1. Signed(db.txn[i])
          BY <2>2 DEF LinkInv, Linked
        <4>2. db.txn[i].amount \in Int /\ db.txn[i].type \in TransactionTypes
          <5>1. db.txn[i] \in Transaction
            BY <1>1, <2>2 DEF Database
          <5>2. QED BY <5>1 DEF Transaction
        <4>3. x = IF db.txn[i].type = "WITHDRAWAL" THEN db.txn[i].amount ELSE -db.txn[i].amount
          BY <2>2 DEF ReversalChange
        <4>4. Kind(db.txn[i].type) = "post" <=> db.txn[i].type \in {"DEPOSIT", "WITHDRAWAL"}
          BY <4>2 DEF Kind, TransactionTypes
        <4> HIDE DEF i
        <4>5. CASE db.txn[i].type = "WITHDRAWAL"
          BY <3>1, <4>1, <4>2, <4>3, <4>4, <4>5 DEF Signed
        <4>6. CASE db.txn[i].type # "WITHDRAWAL" /\ db.txn[i].change = db.txn[i].amount
          BY <3>1, <4>1, <4>2, <4>3, <4>6 DEF Signed
        <4>7. CASE db.txn[i].type # "WITHDRAWAL" /\ db.txn[i].change = -db.txn[i].amount
          <5>1. db.txn[i].type # "DEPOSIT" \/ db.txn[i].amount = -db.txn[i].amount
            BY <4>1, <4>7 DEF Signed
          <5>2. QED BY <3>1, <4>1, <4>2, <4>3, <4>4, <4>7, <5>1 DEF Signed
        <4>8. QED BY <4>1, <4>5, <4>6, <4>7 DEF Signed
      <3>4. CorrectedEntry(db, work')
        <4>1. Balance(work') = [Balance(db) EXCEPT ![Journal(db)[i].account] = @ + x]
          BY <1>11, <3>1
        <4>2. Journal(work') = Append(Journal(db), L!Line(Journal(db)[i].account, "correction", x, i))
          BY <1>12, <2>2, <3>1 DEF Kind
        <4> HIDE DEF i
        <4>3. QED BY <1>3, <3>1, <3>2, <3>3, <4>1, <4>2 DEF CorrectedEntry
      <3>5. QED BY <3>4 DEF Effect
    <2>3. QED BY <1>4, <2>1, <2>2
  <1>14. QED BY <1>2, <1>3, <1>6, <1>8, <1>9, <1>10, <1>13, SerialFlush

\* A transfer by the only request writes what the ledger moves.
LEMMA SerialPair ==
    ASSUME OneAtATime, IInv, IInv', OverdraftInv, SerialInv,
           NEW r \in Requests, NEW out, NEW in, PostsPair(r, out, in)
    PROVE  SerialInv'
  <1> DEFINE q == req[r]
             s == [q EXCEPT !.pc = "flushed"]
             n == Len(db.txn) + 1
             x == q.amount
  <1>1. /\ db \in Database /\ work' \in Database /\ Grows(db, work') /\ q \in Request
        /\ db.acct \in [Accounts -> Account] /\ db.opened \subseteq Accounts
        /\ Len(db.txn) \in Nat
        /\ \A a \in Accounts : Len(db.hist[a]) \in Nat
    <2>1. db \in Database /\ work' \in Database /\ Grows(db, work') /\ q \in Request
      BY DEF IInv, TypeOK, PostsPair, Flushed
    <2>2. /\ db.acct \in [Accounts -> Account] /\ db.opened \subseteq Accounts
          /\ Len(db.txn) \in Nat
      BY <2>1 DEF Database
    <2>3. \A a \in Accounts : Len(db.hist[a]) \in Nat
      BY <2>1 DEF Database
    <2>4. QED BY <2>1, <2>2, <2>3
  <1>2. /\ s.pc = "flushed" /\ s.op = q.op /\ s.src = q.src /\ s.dst = q.dst
        /\ s.tid = q.tid /\ s.seen = q.seen /\ s.from = q.from /\ s.to = q.to
    BY <1>1 DEF Request
  <1>3. /\ Flushed(r) /\ Become(r, s) /\ q.pc = "loaded" /\ q.op = "transfer"
        /\ q.src # q.dst
        /\ q.src \in db.opened /\ q.src \in Accounts
        /\ q.dst \in db.opened /\ q.dst \in Accounts
        /\ x \in Int /\ x > 0 /\ q.from.available >= x
        /\ work'.opened = db.opened /\ work'.hist = db.hist
        /\ work'.acct = [db.acct EXCEPT ![q.src] = Moved(q.from, -x), ![q.dst] = Moved(q.to, x)]
        /\ out.account = q.src /\ out.change = -x /\ out.related = 0
        /\ in.account = q.dst /\ in.change = x /\ in.related = 0
        /\ Len(work'.txn) = n + 1 /\ out = work'.txn[n] /\ in = work'.txn[n + 1]
    BY <1>1 DEF PostsPair, Flushed
  <1>4. Len(work'.txn) = Len(db.txn) + 2 /\ in = work'.txn[Len(db.txn) + 2]
    BY <1>1, <1>3
  <1> HIDE DEF s
  <1>5. q.from = db.acct[q.src] /\ q.to = db.acct[q.dst]
    <2>1. Current(q)
      BY DEF SerialInv
    <2>2. QED BY <1>3, <2>1 DEF Current
  <1>6. Current(s)
    BY <1>2, <1>3, <1>5 DEF Current
  <1> HIDE DEF q, x
  <1>7. \A b \in Accounts : work'.acct[b] =
           IF b = q.dst THEN Moved(q.to, x) ELSE IF b = q.src THEN Moved(q.from, -x) ELSE db.acct[b]
    BY <1>1, <1>3
  <1>8. Touched(s) = {q.src, q.dst} /\ s.op # "open"
    BY <1>2, <1>3 DEF Touched
  <1>9. Counted(work', {q.src, q.dst})
    <2> SUFFICES ASSUME NEW b \in db.opened
                 PROVE  work'.acct[b].version =
                           Len(db.hist[b]) + (IF b \in {q.src, q.dst} THEN 1 ELSE 0)
      BY <1>3 DEF Counted
    <2>1. b \in Accounts /\ Len(db.hist[b]) \in Nat
      BY <1>1
    <2>2. db.acct[b].version = Len(db.hist[b]) + 0
      BY DEF SerialInv, Counted
    <2>3. \A f, y : Moved(f, y).version = f.version + 1
      BY DEF Moved
    <2>4. CASE b \in {q.src, q.dst}
      <3>1. work'.acct[b].version = db.acct[b].version + 1
        BY <1>3, <1>5, <1>7, <2>3, <2>4
      <3>2. QED BY <2>1, <2>2, <2>4, <3>1
    <2>5. CASE b \notin {q.src, q.dst}
      BY <1>7, <2>1, <2>2, <2>5
    <2>6. QED BY <2>4, <2>5
  <1>10. Unopened(work')
    BY <1>3, <1>7 DEF SerialInv, Unopened
  <1>11. Balance(work') = [Balance(db) EXCEPT ![q.src] = @ - x, ![q.dst] = @ + x]
    <2>1. \A f, y : Moved(f, y).balance = f.balance + y
      BY DEF Moved
    <2>2. q.from.balance \in Int
      <3>1. q.from \in Account
        BY <1>1, <1>3, <1>5
      <3>2. QED BY <3>1 DEF Account
    <2>3. q.from.balance + (-x) = q.from.balance - x
      BY <1>3, <2>2
    <2>4. \A b \in Accounts : work'.acct[b].balance =
             IF b = q.dst THEN db.acct[b].balance + x
             ELSE IF b = q.src THEN db.acct[b].balance - x ELSE db.acct[b].balance
      BY <1>5, <1>7, <2>1, <2>3
    <2>5. \A b \in Accounts : Balance(work')[b] = work'.acct[b].balance
                              /\ Balance(db)[b] = db.acct[b].balance
      BY DEF Balance
    <2>6. DOMAIN Balance(work') = Accounts /\ DOMAIN Balance(db) = Accounts
      BY DEF Balance
    <2> DEFINE m == [Balance(db) EXCEPT ![q.src] = @ - x, ![q.dst] = @ + x]
    <2>7. DOMAIN m = Accounts /\ \A b \in Accounts : m[b] =
             IF b = q.dst THEN Balance(db)[b] + x
             ELSE IF b = q.src THEN Balance(db)[b] - x ELSE Balance(db)[b]
      BY <1>3, <2>6
    <2>8. Balance(work') = [b \in Accounts |-> m[b]]
      BY <1>3, <2>4, <2>5, <2>7 DEF Balance
    <2>9. m = [b \in Accounts |-> m[b]]
      BY <2>6
    <2>10. QED BY <2>8, <2>9
  <1>12. Journal(work') = Journal(db) \o <<L!Line(q.src, "move", -x, 0), L!Line(q.dst, "move", x, 0)>>
    <2>1. out = work'.txn[Len(db.txn) + 1]
      BY <1>3
    <2>2. Journal(work') = Journal(db) \o <<LineOf(out),
                                            LineOf(in)>>
      BY <1>1, <1>4, <2>1, JournalPair
    <2>3. Kind(out.type) = "move" /\ Kind(in.type) = "move"
      BY DEF PostsPair, Mated, Kind
    <2>4. LineOf(out) = L!Line(q.src, "move", -x, 0) /\ LineOf(in) = L!Line(q.dst, "move", x, 0)
      BY <1>3, <2>3 DEF LineOf
    <2>5. QED BY <2>2, <2>4
  <1>13. Effect(db, work')
    <2>1. Balance(db)[q.src] >= x
      <3>1. Balance(db)[q.src] = q.from.balance
        BY <1>3, <1>5 DEF Balance
      <3>2. q.from.available = q.from.balance
        BY <1>3, <1>5 DEF OverdraftInv, Covered
      <3>3. QED BY <1>3, <3>1, <3>2
    <2>2. MovedBetween(db, work')
      <3> SUFFICES \E f, g \in Accounts, y \in Int :
                      /\ f # g /\ y > 0 /\ Balance(db)[f] >= y
                      /\ Balance(work') = [Balance(db) EXCEPT ![f] = @ - y, ![g] = @ + y]
                      /\ Journal(work') = Journal(db)
                                           \o <<L!Line(f, "move", -y, 0), L!Line(g, "move", y, 0)>>
        BY DEF MovedBetween
      <3> q.src \in Accounts /\ q.dst \in Accounts /\ x \in Int
        BY <1>3
      <3> WITNESS q.src \in Accounts, q.dst \in Accounts, x \in Int
      <3> QED BY <1>3, <1>11, <1>12, <2>1
    <2>3. QED BY <2>2 DEF Effect
  <1>14. QED BY <1>2, <1>3, <1>6, <1>8, <1>9, <1>10, <1>13, SerialFlush

\* An opening by the only request changes nothing in the ledger.
LEMMA SerialOpen ==
    ASSUME OneAtATime, IInv, IInv', HeadInv, CountInv, SerialInv, NEW r \in Requests, Open(r)
    PROVE  SerialInv'
  <1>1. PICK a \in Accounts \ db.opened :
           /\ Flush(r, db.opened \cup {a}, [db.acct EXCEPT ![a] = Fresh], db.txn)
           /\ Become(r, [req[r] EXCEPT !.pc = "flushed", !.src = a])
    BY DEF Open
  <1> DEFINE s    == [req[r] EXCEPT !.pc = "flushed", !.src = a]
             acct == [db.acct EXCEPT ![a] = Fresh]
  <1>2. s.pc = "flushed" /\ s.op = "open" /\ s.src = a
    BY DEF Open, At, IInv, TypeOK, Request
  <1> HIDE DEF s
  <1>3. Flushed(r) /\ Become(r, s)
    BY <1>1, FlushImage DEF Flushed, s
  <1>4. /\ work'.opened = db.opened \cup {a} /\ work'.hist = db.hist
        /\ work'.acct = acct /\ work'.txn = db.txn
    BY <1>1, FlushImage
  <1>5. /\ db \in Database /\ db.acct \in [Accounts -> Account]
        /\ db.hist \in [Accounts -> Seq(Version)]
    BY DEF IInv, TypeOK, Database
  <1>6. acct = db.acct
    <2>1. db.acct[a] = Fresh
      BY DEF SerialInv, Unopened
    <2>2. QED BY <1>5, <2>1
  <1> HIDE DEF acct
  <1>7. db.hist[a] = <<>>
    <2>1. Len(db.hist[a]) + 0 = Due(db, a)
      BY DEF CountInv, Behind
    <2>2. RowsOf(db, a) = {}
      BY DEF HeadInv, RowsShow
    <2>3. Cardinality(RowsOf(db, a)) = 0
      BY <2>2, FS_EmptySet
    <2>4. Due(db, a) = 0
      BY <2>3 DEF Due
    <2>5. db.hist[a] \in Seq(Version) /\ Len(db.hist[a]) \in Nat
      BY <1>5
    <2>6. Len(db.hist[a]) = 0
      BY <2>1, <2>4, <2>5
    <2>7. QED BY <2>5, <2>6
  <1>8. Touched(s) = {a}
    BY <1>2 DEF Touched
  <1>9. Counted(work', {a})
    <2> SUFFICES ASSUME NEW b \in db.opened \cup {a}
                 PROVE  db.acct[b].version = Len(db.hist[b]) + (IF b \in {a} THEN 1 ELSE 0)
      BY <1>4, <1>6 DEF Counted
    <2>1. CASE b = a
      <3>1. db.acct[a].version = 1 /\ Len(db.hist[a]) = 0
        BY <1>7 DEF SerialInv, Unopened, Fresh
      <3>2. QED BY <2>1, <3>1
    <2>2. CASE b # a
      <3>1. db.acct[b].version = Len(db.hist[b]) + (IF b \in {} THEN 1 ELSE 0)
        BY <2>2 DEF SerialInv, Counted
      <3>2. QED BY <2>2, <3>1
    <2>3. QED BY <2>1, <2>2
  <1>10. Unopened(work')
    BY <1>4, <1>6 DEF SerialInv, Unopened
  <1>11. Effect(db, work')
    <2>1. SameBooks(db, work')
      BY <1>4, <1>6 DEF SameBooks, Balance, Journal
    <2>2. QED BY <2>1 DEF Effect
  <1>12. Current(s)
    BY <1>2 DEF Current
  <1>13. QED BY <1>2, <1>3, <1>7, <1>8, <1>9, <1>10, <1>11, <1>12, SerialFlush

\* What the recordings of the only request write is one chain.
LEMMA SerialRecordSteps ==
    ASSUME OneAtATime, IInv, IInv', HeadInv, CountInv, SerialInv, NEW r \in Requests,
           RecordOpen(r) \/ RecordSingle(r) \/ RecordTransfer(r) \/ RecordReverse(r)
    PROVE  SerialInv'
  <1> DEFINE q == req[r]
  <1>1. /\ work'.opened = work.opened /\ work'.acct = work.acct /\ work'.txn = work.txn
        /\ db' = db /\ q.pc = "flushed" /\ Become(r, [q EXCEPT !.pc = "recorded"])
    BY RecordedKeeps
  <1>2. /\ work \in Database /\ Dense(work)
        /\ q.from \in Account /\ q.to \in Account /\ Fresh \in Account
        /\ \A a \in Accounts : Owner[a] \in Users
    <2>1. work \in Database /\ Dense(work) /\ q \in Request
      BY DEF IInv, TypeOK
    <2>2. Fresh \in Account
      BY DEF Fresh, Account
    <2>3. q.from \in Account /\ q.to \in Account
      BY <2>1 DEF Request
    <2>4. QED BY <2>1, <2>2, <2>3, ConstantsAssumption
  <1>3. /\ work.hist = db.hist /\ Chain(work) /\ Counted(work, Touched(q))
        /\ q.op = "open" => db.hist[q.src] = <<>>
    BY <1>1 DEF SerialInv, Chain
  <1>4. /\ q.op \in {"deposit", "withdraw", "transfer", "reverse"} =>
              q.src \in db.opened /\ q.from = db.acct[q.src]
        /\ q.op = "transfer" => q.dst \in db.opened /\ q.to = db.acct[q.dst] /\ q.src # q.dst
    <2>1. Current(q) /\ OnOpen(q, db) /\ (q.op = "transfer" => q.src # q.dst)
      BY <1>1 DEF SerialInv, HeadInv, CountInv
    <2>2. QED BY <1>1, <2>1 DEF Current, OnOpen
  <1>5. \A a \in db.opened : db.hist[a][Len(db.hist[a])].new = db.acct[a]
    BY DEF HeadInv, NewestVersion
  <1>6. \A a : {a} \ {a} = {}
    OBVIOUS
  <1>7. CASE RecordOpen(r) \/ RecordSingle(r) \/ RecordReverse(r)
    <2>1. PICK type \in {"CREATE", "UPDATE"}, old \in Account :
             /\ \/ work' = Notify(CreateVersion(work, q.src, type, old), Owner[q.src])
                \/ work' = CreateVersion(work, q.src, type, old)
             /\ q.op # "open" => old = q.from
             /\ q.op \in {"open", "deposit", "withdraw", "reverse"}
      <3>1. CASE RecordOpen(r)
        <4>1. q.op = "open" /\ work' = Notify(CreateVersion(work, q.src, "CREATE", Fresh), Owner[q.src])
          BY <3>1 DEF RecordOpen, Record, At
        <4>2. QED BY <1>2, <4>1
      <3>2. CASE RecordSingle(r)
        <4>1. /\ q.op \in {"deposit", "withdraw"}
              /\ work' = Notify(CreateVersion(work, q.src, "UPDATE", q.from), Owner[q.src])
          BY <3>2 DEF RecordSingle, Record, At
        <4>2. QED BY <1>2, <4>1
      <3>3. CASE RecordReverse(r)
        <4>1. q.op = "reverse" /\ work' = CreateVersion(work, q.src, "UPDATE", q.from)
          BY <3>3 DEF RecordReverse, Record, At
        <4>2. QED BY <1>2, <4>1
      <3>4. QED BY <1>7, <3>1, <3>2, <3>3
    <2>2. q.src \in Accounts
      BY <1>7 DEF RecordOpen, RecordSingle, RecordReverse, At, IInv, Placed, Holding
    <2>3. Touched(q) = {q.src}
      BY <2>1 DEF Touched
    <2> HIDE DEF q
    <2>4. work.hist[q.src] # <<>> => work.hist[q.src][Len(work.hist[q.src])].new = old
      BY <1>3, <1>4, <1>5, <2>1
    <2> DEFINE c == CreateVersion(work, q.src, type, old)
               n == Notify(c, Owner[q.src])
    <2>5. c \in Database /\ Dense(c)
      BY <1>2, <2>2, CreateVersionType
    <2>6. Chain(c) /\ Counted(c, {q.src} \ {q.src})
      <3>1. Counted(work, {q.src})
        BY <1>3, <2>3
      <3>2. \A k : k = c => Chain(k) /\ Counted(k, {q.src} \ {q.src})
        <4> HIDE DEF c
        <4> SUFFICES ASSUME NEW k, k = CreateVersion(work, q.src, type, old)
                     PROVE  Chain(k) /\ Counted(k, {q.src} \ {q.src})
          BY DEF c
        <4>1. QED BY <1>2, <1>3, <2>2, <2>4, <3>1, VersionChained
      <3>3. QED BY <3>2
    <2>7. Counted(c, {})
      BY <1>6, <2>6
    <2>8. work' = c \/ work' = n
      BY <2>1
    <2> HIDE DEF c
    <2>9. n.hist = c.hist /\ n.opened = c.opened /\ n.acct = c.acct
      BY <1>2, <2>2, <2>5, NotifyKeeps
    <2> HIDE DEF n
    <2>10. Chain(work') /\ Counted(work', {})
      BY <2>6, <2>7, <2>8, <2>9 DEF Chain, Counted
    <2>11. QED BY <1>1, <2>10, SerialRecord DEF q
  <1>8. CASE RecordTransfer(r)
    <2> DEFINE one  == CreateVersion(work, q.src, "UPDATE", q.from)
               both == CreateVersion(one, q.dst, "UPDATE", q.to)
               sent == Notify(both, Owner[q.src])
               n    == Notify(sent, Owner[q.dst])
    <2>1. /\ q.op = "transfer" /\ q.src \in Accounts /\ q.dst \in Accounts
          /\ work' = sent \/ work' = n
      BY <1>8 DEF RecordTransfer, Record, At, IInv, Placed
    <2> HIDE DEF q
    <2>2. Counted(work, {q.src, q.dst})
      BY <1>3, <2>1 DEF Touched
    <2>3. one \in Database /\ Dense(one)
      BY <1>2, <2>1, CreateVersionType
    <2>4. /\ Chain(one) /\ Counted(one, {q.src, q.dst} \ {q.src})
          /\ \A b \in Accounts \ {q.src} : one.hist[b] = work.hist[b]
      <3>1. work.hist[q.src] # <<>> => work.hist[q.src][Len(work.hist[q.src])].new = q.from
        BY <1>3, <1>4, <1>5, <2>1
      <3> DEFINE T == {q.src, q.dst}
      <3>2. q.src \in T /\ Counted(work, T) /\ one = CreateVersion(work, q.src, "UPDATE", q.from)
        BY <2>2
      <3> HIDE DEF T, one
      <3>3. /\ Chain(one) /\ Counted(one, T \ {q.src})
            /\ \A b \in Accounts \ {q.src} : one.hist[b] = work.hist[b]
        <4>1. /\ work \in Database /\ Dense(work) /\ q.src \in Accounts /\ q.from \in Account
              /\ "UPDATE" \in {"CREATE", "UPDATE"} /\ Chain(work)
          BY <1>2, <1>3, <2>1
        <4>2. Chain(one) /\ Counted(one, T \ {q.src})
          BY <3>1, <3>2, <4>1, VersionChained
        <4>3. \A b \in Accounts \ {q.src} : one.hist[b] = work.hist[b]
          BY <3>2, <4>1 DEF CreateVersion, Database
        <4>4. QED BY <4>2, <4>3
      <3>4. QED BY <3>3 DEF T
    <2>5. {q.src, q.dst} \ {q.src} = {q.dst}
      BY <1>4, <2>1
    <2>6. Counted(one, {q.dst}) /\ one.hist[q.dst] = db.hist[q.dst]
      BY <1>3, <1>4, <2>1, <2>4, <2>5
    <2> HIDE DEF one
    <2>7. both \in Database /\ Dense(both)
      BY <1>2, <2>1, <2>3, CreateVersionType
    <2>8. Chain(both) /\ Counted(both, {q.dst} \ {q.dst})
      <3>1. one.hist[q.dst] # <<>> => one.hist[q.dst][Len(one.hist[q.dst])].new = q.to
        BY <1>4, <1>5, <2>1, <2>6
      <3>2. QED BY <1>2, <2>1, <2>3, <2>4, <2>6, <3>1, VersionChained
    <2>9. Counted(both, {})
      BY <1>6, <2>8
    <2> HIDE DEF both
    <2>10. /\ sent \in Database /\ Dense(sent)
           /\ sent.hist = both.hist /\ sent.opened = both.opened /\ sent.acct = both.acct
      BY <1>2, <2>1, <2>7, NotifyKeeps
    <2> HIDE DEF sent
    <2>11. n.hist = sent.hist /\ n.opened = sent.opened /\ n.acct = sent.acct
      BY <1>2, <2>1, <2>10, NotifyKeeps
    <2> HIDE DEF n
    <2>12. Chain(work') /\ Counted(work', {})
      BY <2>1, <2>8, <2>9, <2>10, <2>11 DEF Chain, Counted
    <2>13. QED BY <1>1, <2>12, SerialRecord DEF q
  <1>9. QED BY <1>7, <1>8

\* Every step of the only request keeps the chains and the ledger.
LEMMA NextSerial ==
    ASSUME OneAtATime, IInv, IInv', HeadInv, OverdraftInv, CountInv, LinkInv, SerialInv,
           [Next]_vars
    PROVE  SerialInv'
  <1>1. CASE UNCHANGED vars
    <2>1. db' = db /\ work' = work /\ req' = req
      BY <1>1 DEF vars
    <2>2. /\ Chain(db') /\ Counted(db', {}) /\ Unopened(db') /\ Unopened(work')
      BY <2>1 DEF SerialInv
    <2>3. (\A p \in Requests : Current(req[p]))'
      <3>1. \A p \in Requests : Current(req[p])
        BY DEF SerialInv
      <3>2. QED BY <2>1, <3>1 DEF Current
    <2>4. (\A p \in Requests : req[p].pc = "flushed" =>
             /\ work.hist = db.hist
             /\ Counted(work, Touched(req[p]))
             /\ req[p].op = "open" => db.hist[req[p].src] = <<>>)'
      <3>1. \A p \in Requests : req[p].pc = "flushed" =>
               /\ work.hist = db.hist
               /\ Counted(work, Touched(req[p]))
               /\ req[p].op = "open" => db.hist[req[p].src] = <<>>
        BY DEF SerialInv
      <3>2. QED BY <2>1, <3>1 DEF Counted, Touched
    <2>5. (\A p \in Requests : req[p].pc = "recorded" => Chain(work) /\ Counted(work, {}))'
      <3>1. \A p \in Requests : req[p].pc = "recorded" => Chain(work) /\ Counted(work, {})
        BY DEF SerialInv
      <3>2. QED BY <2>1, <3>1 DEF Chain, Counted
    <2>6. (\A p \in Requests : req[p].pc \in Holding => Effect(db, work))'
      <3>1. \A p \in Requests : req[p].pc \in Holding => Effect(db, work)
        BY DEF SerialInv
      <3>2. \A p \in Requests : req'[p].pc \in Holding => Effect(db', work')
        BY <2>1, <3>1
      <3>3. QED BY <3>2 DEF Holding, Effect, SameBooks, Posted, MovedBetween, CorrectedEntry,
                            Balance, Journal
    <2>7. QED BY <2>2, <2>3, <2>4, <2>5, <2>6 DEF SerialInv, Chain, Counted, Unopened
  <1>2. CASE Rest
    BY <1>1, <1>2 DEF Rest
  <1>3. ASSUME NEW r \in Requests, Start(r) \/ Step(r) \/ Fail(r)
        PROVE  SerialInv'
    <2>1. CASE \/ Start(r) \/ LoadDestination(r) \/ LoadReversed(r) \/ RejectReversed(r)
               \/ Reject(r) \/ Busy(r)
      <3>1. Current(req[r])
        BY DEF SerialInv
      <3>2. PICK s : /\ Become(r, s) /\ UNCHANGED <<db, work, writer>>
                     /\ s.pc \notin Holding /\ Current(s)
        BY <2>1, <3>1, GoesOn
      <3>3. QED BY <3>2, SerialLocal
    <2>2. CASE Open(r)
      BY <2>2, SerialOpen
    <2>3. CASE Deposit(r) \/ Withdraw(r) \/ Reverse(r)
      <3>1. PICK row, x : PostsRow(r, row, x)
        BY <2>3, SinglePosts, ReversePosts
      <3>2. QED BY <3>1, SerialRow
    <2>4. CASE Transfer(r)
      <3>1. PICK out, in : PostsPair(r, out, in)
        BY <2>4, TransferPosts
      <3>2. QED BY <3>1, SerialPair
    <2>5. CASE RecordOpen(r) \/ RecordSingle(r) \/ RecordTransfer(r) \/ RecordReverse(r)
      BY <2>5, SerialRecordSteps
    <2>6. CASE Commit(r) \/ Fail(r)
      BY <2>6, SerialEnd
    <2>7. QED BY <1>3, <2>1, <2>2, <2>3, <2>4, <2>5, <2>6 DEF Step
  <1>4. QED BY <1>1, <1>2, <1>3 DEF Next

\* With one request at a time every invariant of this module holds together.
THEOREM SerialInvariant ==
    ASSUME OneAtATime
    PROVE  Spec => [](IInv /\ HeadInv /\ OverdraftInv /\ CountInv /\ LinkInv /\ SerialInv)
  <1>1. IInv /\ IInv' /\ OverdraftInv /\ [Next]_vars => OverdraftInv'
    BY NextOverdraft
  <1>2. IInv /\ IInv' /\ HeadInv /\ OverdraftInv /\ CountInv /\ LinkInv /\ SerialInv
           /\ [Next]_vars => SerialInv'
    BY NextSerial
  <1>3. QED BY <1>1, <1>2, InitOverdraft, InitSerial, BooksInvariant, PTL DEF Spec

\* When no two requests overlap the history of an account is one chain of
\* versions and version_number counts them; with two, banking_lost_update
\* shows the chain broken (_bump_account_version, create_version).
THEOREM HistoriesContiguous == ASSUME OneAtATime PROVE Spec => []HistoryContiguous
  <1>1. IInv /\ SerialInv => HistoryContiguous
    <2> SUFFICES ASSUME IInv, SerialInv, NEW a \in db.opened
                 PROVE  /\ \A i \in 2 .. Len(db.hist[a]) : db.hist[a][i].old = db.hist[a][i - 1].new
                        /\ db.acct[a].version = Len(db.hist[a])
      BY DEF HistoryContiguous
    <2>1. a \in Accounts /\ Len(db.hist[a]) \in Nat
      BY DEF IInv, TypeOK, Database
    <2>2. \A i \in 2 .. Len(db.hist[a]) : db.hist[a][i].old = db.hist[a][i - 1].new
      BY <2>1 DEF SerialInv, Chain
    <2>3. db.acct[a].version = Len(db.hist[a]) + 0
      BY DEF SerialInv, Counted
    <2>4. QED BY <2>1, <2>2, <2>3
  <1>2. QED BY <1>1, SerialInvariant, PTL

\* The initial database is the initial ledger.
LEMMA LedgerInit == Init => L!Init
  <1> SUFFICES ASSUME Init PROVE L!Init
    OBVIOUS
  <1>1. \A a \in Accounts : db.acct[a].balance = 0
    BY DEF Init, Fresh
  <1>2. db.txn = <<>>
    BY DEF Init
  <1>3. QED BY <1>1, <1>2 DEF L!Init

\* Every step is an operation of the ledger, or leaves the ledger as it is.
LEMMA LedgerStep ==
    ASSUME IInv, SerialInv, [Next]_vars
    PROVE  [L!NextAsBuilt]_<<[a \in Accounts |-> db.acct[a].balance],
                             [t \in DOMAIN db.txn |->
                                 [account |-> db.txn[t].account, kind |-> Kind(db.txn[t].type),
                                  change |-> db.txn[t].change, corrects |-> db.txn[t].related]]>>
  <1>1. CASE db' = db
    BY <1>1
  <1>2. CASE \E r \in Requests : Commit(r)
    <2>1. PICK r \in Requests : Commit(r)
      BY <1>2
    <2>2. db' = work /\ Effect(db, work)
      BY <2>1 DEF Commit, SerialInv, Holding
    <2>3. Effect(db, db')
      BY <2>2
    <2>4. CASE SameBooks(db, db')
      BY <2>4 DEF SameBooks, Balance, Journal
    <2>5. CASE Posted(db, db')
      <3>1. PICK a \in Accounts, x \in Int \ {0} :
               /\ x < 0 => Balance(db)[a] + x >= 0
               /\ Balance(db') = [Balance(db) EXCEPT ![a] = @ + x]
               /\ Journal(db') = Append(Journal(db), L!Line(a, "post", x, 0))
        BY <2>5 DEF Posted
      <3>2. Balance(db)[a] \in Int /\ Balance(db')[a] - Balance(db)[a] = x
        <4>1. Balance(db)[a] \in Int
          BY DEF IInv, TypeOK, Database, Account, Balance
        <4>2. Balance(db')[a] = Balance(db)[a] + x
          BY <3>1 DEF Balance
        <4>3. QED BY <4>1, <4>2
      <3> DEFINE y == [b \in Accounts |-> db.acct[b].balance]'[a]
                        - [b \in Accounts |-> db.acct[b].balance][a]
      <3>3. y = x
        BY <3>2 DEF Balance
      <3>4. L!PostAny
        <4>1. L!Post(a, y)
          <5> HIDE DEF y
          <5>1. QED BY <3>1, <3>3 DEF L!Post, Balance, Journal
        <4>2. QED BY <4>1 DEF L!PostAny, L!Post
      <3>5. QED BY <3>4 DEF L!NextAsBuilt
    <2>6. CASE MovedBetween(db, db')
      <3>1. PICK s \in Accounts, t \in Accounts, x \in Int :
               /\ s # t
               /\ x > 0
               /\ Balance(db)[s] >= x
               /\ Balance(db') = [Balance(db) EXCEPT ![s] = @ - x, ![t] = @ + x]
               /\ Journal(db') = Journal(db) \o <<L!Line(s, "move", -x, 0), L!Line(t, "move", x, 0)>>
        BY <2>6 DEF MovedBetween
      <3>2. Balance(db)[s] - Balance(db')[s] = x
        <4>1. Balance(db)[s] \in Int
          BY DEF IInv, TypeOK, Database, Account, Balance
        <4>2. Balance(db')[s] = Balance(db)[s] - x
          BY <3>1 DEF Balance
        <4>3. QED BY <4>1, <4>2
      <3> DEFINE y == [b \in Accounts |-> db.acct[b].balance][s]
                        - [b \in Accounts |-> db.acct[b].balance]'[s]
      <3>3. y = x
        BY <3>2 DEF Balance
      <3>4. L!MoveAny
        <4>1. L!Move(s, t, y)
          <5> HIDE DEF y
          <5>1. QED BY <3>1, <3>3 DEF L!Move, Balance, Journal
        <4>2. QED BY <4>1 DEF L!MoveAny, L!Move
      <3>5. QED BY <3>4 DEF L!NextAsBuilt
    <2>7. CASE CorrectedEntry(db, db')
      <3>1. PICK i \in DOMAIN Journal(db), x \in Int :
               /\ \A k \in DOMAIN Journal(db) : Journal(db)[k].corrects # i
               /\ \/ /\ Journal(db)[i].change > 0 \/ Journal(db)[i].kind = "post"
                     /\ x = -Journal(db)[i].change
                  \/ /\ Journal(db)[i].change < 0 /\ Journal(db)[i].kind # "post"
                     /\ x = Journal(db)[i].change
               /\ Balance(db') = [Balance(db) EXCEPT ![Journal(db)[i].account] = @ + x]
               /\ Journal(db') = Append(Journal(db), L!Line(Journal(db)[i].account, "correction", x, i))
        BY <2>7 DEF CorrectedEntry
      <3>3. CASE /\ Journal(db)[i].change > 0 \/ Journal(db)[i].kind = "post"
                 /\ x = -Journal(db)[i].change
        <4>1. L!Correct(i)
          BY <3>1, <3>3 DEF L!Correct, L!Adjust, L!Corrected, Balance, Journal
        <4>2. QED BY <3>1, <3>3, <4>1 DEF L!NextAsBuilt, L!Undone, Journal
      <3>4. CASE /\ Journal(db)[i].change < 0 /\ Journal(db)[i].kind # "post"
                 /\ x = Journal(db)[i].change
        <4>1. L!Repeat(i)
          BY <3>1, <3>4 DEF L!Repeat, L!Adjust, L!Corrected, Balance, Journal
        <4>2. QED BY <3>1, <4>1 DEF L!NextAsBuilt, L!RepeatAny, Journal
      <3>5. QED BY <3>1, <3>3, <3>4
    <2>8. QED BY <2>3, <2>4, <2>5, <2>6, <2>7 DEF Effect
  <1>3. db' = db \/ \E r \in Requests : Commit(r)
    BY DEF vars, Next, Rest, Start, Step, StartOpen, StartSingle, StartTransfer, StartReverse,
           LoadDestination, LoadReversed, RejectReversed, Reject, Busy, Open, Deposit, Withdraw,
           PostSingle, Transfer, Reverse, Flush, Record, RecordOpen, RecordSingle, RecordTransfer,
           RecordReverse, Fail
  <1>4. QED BY <1>1, <1>2, <1>3

\* Operations that do not overlap implement the ledger as built: each takes
\* effect at its commit, on the balances of that moment, however the requests
\* before it ended, and the only entries whose correction is not equal and
\* opposite are sending legs of transfers and debiting reversals (deposit,
\* withdraw, transfer, reverse_transaction).
THEOREM ImplementsLedger == ASSUME OneAtATime PROVE Spec => LedgerAsBuilt
  <1>1. QED BY LedgerInit, LedgerStep, SerialInvariant, PTL DEF Spec, LedgerAsBuilt, L!SpecAsBuilt
================================================================================
