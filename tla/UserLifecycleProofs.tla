-------------------------- MODULE UserLifecycleProofs --------------------------
(***************************************************************************)
(* Proofs about UserLifecycle for any number of overlapping requests, any  *)
(* set of names and any bounds.                                            *)
(***************************************************************************)
EXTENDS UserLifecycle, TLAPS, WellFoundedInduction, FiniteSetTheorems

Tables == {"users", "accts", "txn", "hist", "inbox", "asks", "born"}

\* A set of ids of rows.
Bounded(ids) == \E n \in Nat : \A i \in ids : i \in Nat /\ i <= n

\* What the properties need: new accounts get ids that are free, and these are,
\* because the ids in use are bounded numbers.
IInv ==
    /\ DOMAIN db = Tables
    /\ Bounded(DOMAIN db.accts)
    /\ UniqueNames
    /\ TransactionsNameAccounts
    /\ CustomersHaveAccounts

-----------------------------------------------------------------------------
(* Ids                                                                      *)

\* Every bounded set of ids has a largest one.
LEMMA LargestId ==
    ASSUME NEW ids, Bounded(ids), ids # {}
    PROVE  \E m \in ids : \A j \in ids : j <= m
  <1>1. PICK n \in Nat : \A i \in ids : i \in Nat /\ i <= n
    BY DEF Bounded
  <1> DEFINE gaps == {n - i : i \in ids}
  <1>2. gaps \subseteq Nat /\ gaps # {}
    BY <1>1
  <1>3. PICK g \in gaps : \A h \in gaps : ~ (<<h, g>> \in OpToRel(<, Nat))
    <2> HIDE DEF gaps
    <2>1. QED BY <1>2, WFMin, NatLessThanWellFounded
  <1>4. \A h \in gaps : ~ (h < g)
    BY <1>2, <1>3 DEF OpToRel
  <1>5. PICK m \in ids : g = n - m
    BY <1>3
  <1>6. ASSUME NEW j \in ids PROVE j <= m
    BY <1>1, <1>4, <1>5
  <1>7. QED BY <1>6

\* The id of a new row is not in use, and the ids stay bounded.
LEMMA NextIdFree ==
    ASSUME NEW ids, Bounded(ids)
    PROVE  NextId(ids) \notin ids /\ Bounded(ids \cup {NextId(ids)})
  <1>1. CASE ids = {}
    BY <1>1 DEF NextId, Bounded
  <1>2. CASE ids # {}
    <2> DEFINE m == CHOOSE i \in ids : \A j \in ids : j <= i
    <2>1. m \in ids /\ \A j \in ids : j <= m
      BY <1>2, LargestId
    <2>2. NextId(ids) = m + 1
      BY <1>2 DEF NextId
    <2> HIDE DEF m
    <2>3. m \in Nat /\ \A j \in ids : j \in Nat
      BY <2>1 DEF Bounded
    <2>4. m + 1 \in Nat /\ m + 1 \notin ids /\ \A j \in ids : j <= m + 1
      BY <2>1, <2>3
    <2>5. QED BY <2>2, <2>3, <2>4 DEF Bounded
  <1>3. QED BY <1>1, <1>2

-----------------------------------------------------------------------------
(* What the writes leave alone                                              *)

\* create_version touches nothing but the histories.
LEMMA WithVersionFrame ==
    ASSUME NEW d, DOMAIN d = Tables,
           NEW kind, NEW e, NEW type, NEW life, NEW by
    PROVE  LET n == WithVersion(d, kind, e, type, life, by)
           IN  DOMAIN n = Tables /\ n.users = d.users /\ n.accts = d.accts /\ n.txn = d.txn
  <1> DEFINE rows == d.hist \cup
                {[kind |-> kind, entity |-> e, type |-> type, life |-> life, by |-> by,
                  number |-> NextId({v.number : v \in VersionsOf(d, kind, e)})]}
  <1>1. WithVersion(d, kind, e, type, life, by) = [d EXCEPT !.hist = rows]
    BY DEF WithVersion
  <1> HIDE DEF rows
  <1>2. QED BY <1>1 DEF Tables

\* create_account adds one account and nothing else.
LEMMA WithAccountFrame ==
    ASSUME NEW d, DOMAIN d = Tables, NEW u, NEW default
    PROVE  LET n == WithAccount(d, u, default)
               a == NextId(DOMAIN d.accts)
           IN  /\ DOMAIN n = Tables /\ n.users = d.users /\ n.txn = d.txn
               /\ \E row : row.owner = u /\ n.accts = Put(d.accts, a, row)
  <1> DEFINE a     == NextId(DOMAIN d.accts)
             row   == [owner |-> u, life |-> d.born + 1, default |-> default]
             accts == Put(d.accts, a, row)
             life  == d.born + 1
             inbox == d.inbox \cup {u}
             mid   == [d EXCEPT !.accts = accts, !.born = life, !.inbox = inbox]
  <1>1. WithAccount(d, u, default) = WithVersion(mid, "ACCOUNT", a, "CREATE", life, u)
    BY DEF WithAccount
  <1>2. row.owner = u
    OBVIOUS
  <1>3. DOMAIN mid = Tables /\ mid.users = d.users /\ mid.txn = d.txn /\ mid.accts = accts
    <2> HIDE DEF accts, life, inbox
    <2>1. QED BY DEF Tables
  <1> HIDE DEF mid, life
  <1>4. QED BY <1>1, <1>2, <1>3, WithVersionFrame

\* A registration adds one user row.
LEMMA WithUserFrame ==
    ASSUME NEW d, DOMAIN d = Tables, NEW name, NEW role
    PROVE  LET n == WithUser(d, name, role)
               u == NextId(DOMAIN d.users)
           IN  /\ DOMAIN n = Tables /\ n.accts = d.accts /\ n.txn = d.txn
               /\ \E row : /\ row.name = name /\ row.role = role
                           /\ n.users = Put(d.users, u, row)
  <1> DEFINE u     == NextId(DOMAIN d.users)
             row   == [name |-> name, role |-> role, life |-> d.born + 1]
             users == Put(d.users, u, row)
             life  == d.born + 1
             mid   == [d EXCEPT !.users = users, !.born = life]
  <1>1. WithUser(d, name, role) = WithVersion(mid, "USER_PROFILE", u, "CREATE", life, u)
    BY DEF WithUser
  <1>2. row.name = name /\ row.role = role
    OBVIOUS
  <1>3. DOMAIN mid = Tables /\ mid.users = users /\ mid.txn = d.txn /\ mid.accts = d.accts
    <2> HIDE DEF users, life
    <2>1. QED BY DEF Tables
  <1> HIDE DEF mid, life
  <1>4. QED BY <1>1, <1>2, <1>3, WithVersionFrame

\* A transfer posts rows of its two accounts.
LEMMA TransferredFrame ==
    ASSUME NEW d, DOMAIN d = Tables, NEW q
    PROVE  LET n == Transferred(d, q)
           IN  /\ DOMAIN n = Tables /\ n.users = d.users /\ n.accts = d.accts
               /\ d.txn \subseteq n.txn
               /\ \A t \in n.txn \ d.txn : {t.account, t.counterparty} = {q.src, q.dst}
  <1> DEFINE k     == NextId({t.id : t \in d.txn})
             out   == [id |-> k, account |-> q.src, counterparty |-> q.dst]
             in    == [id |-> k + 1, account |-> q.dst, counterparty |-> q.src]
             inbox == d.inbox \cup q.told
             txn   == d.txn \cup {out, in}
             mid   == [d EXCEPT !.inbox = inbox, !.txn = txn]
             one   == WithVersion(mid, "ACCOUNT", q.src, "UPDATE", q.srcLife, q.user)
  <1>1. Transferred(d, q) = WithVersion(one, "ACCOUNT", q.dst, "UPDATE", q.dstLife, q.user)
    BY DEF Transferred
  <1>2. \A t \in txn \ d.txn : {t.account, t.counterparty} = {q.src, q.dst}
    <2>1. /\ out.account = q.src /\ out.counterparty = q.dst
          /\ in.account = q.dst /\ in.counterparty = q.src
      OBVIOUS
    <2> HIDE DEF out, in
    <2>2. QED BY <2>1
  <1>3. d.txn \subseteq txn
    OBVIOUS
  <1>4. DOMAIN mid = Tables /\ mid.users = d.users /\ mid.txn = txn /\ mid.accts = d.accts
    <2> HIDE DEF txn, inbox
    <2>1. QED BY DEF Tables
  <1> HIDE DEF mid, txn
  <1>5. DOMAIN one = Tables /\ one.users = d.users /\ one.txn = txn /\ one.accts = d.accts
    BY <1>4, WithVersionFrame
  <1> HIDE DEF one
  <1>6. QED BY <1>1, <1>2, <1>3, <1>5, WithVersionFrame

\* A deletion takes the user, the user's accounts, and the rows that name them.
LEMMA WithoutUserFrame ==
    ASSUME NEW d, DOMAIN d = Tables, NEW u
    PROVE  LET n    == WithoutUser(d, u)
               gone == OwnedBy(d, u)
           IN  /\ DOMAIN n = Tables
               /\ n.users = Keep(d.users, DOMAIN d.users \ {u})
               /\ n.accts = Keep(d.accts, DOMAIN d.accts \ gone)
               /\ n.txn = KeptTransactions(d, gone)
  <1> DEFINE gone  == OwnedBy(d, u)
             users == Keep(d.users, DOMAIN d.users \ {u})
             accts == Keep(d.accts, DOMAIN d.accts \ gone)
             txn   == KeptTransactions(d, gone)
             inbox == d.inbox \ {u}
             hist  == {[v EXCEPT !.by = IF @ = u THEN 0 ELSE @] : v \in d.hist}
  <1>1. WithoutUser(d, u) =
          [d EXCEPT !.users = users, !.accts = accts, !.txn = txn, !.inbox = inbox, !.hist = hist]
    BY DEF WithoutUser
  <1> HIDE DEF users, accts, txn, inbox, hist
  <1>2. QED BY <1>1 DEF Tables, users, accts, txn

-----------------------------------------------------------------------------
(* The writes preserve the invariant                                        *)

\* The parts of the invariant, of any image of the tables.
NamesDiffer(d) ==
    \A u, v \in DOMAIN d.users : d.users[u].name = d.users[v].name => u = v

RowsHaveAccounts(d) ==
    \A t \in d.txn : {t.account, t.counterparty} \subseteq DOMAIN d.accts

CustomersServed(d) ==
    \A u \in DOMAIN d.users : d.users[u].role = "customer" => OwnedBy(d, u) # {}

Sound(d) ==
    /\ DOMAIN d = Tables
    /\ Bounded(DOMAIN d.accts)
    /\ NamesDiffer(d)
    /\ RowsHaveAccounts(d)
    /\ CustomersServed(d)

\* The invariant says that the image in db is sound.
LEMMA SoundIsIInv == IInv <=> Sound(db)
  BY DEF IInv, Sound, NamesDiffer, RowsHaveAccounts, CustomersServed, UniqueNames,
         TransactionsNameAccounts, CustomersHaveAccounts

\* A new account takes nothing from anybody.
LEMMA AccountAdded ==
    ASSUME NEW d, DOMAIN d = Tables, Bounded(DOMAIN d.accts), NEW u, NEW default
    PROVE  LET n == WithAccount(d, u, default)
           IN  /\ DOMAIN n = Tables /\ n.users = d.users /\ n.txn = d.txn
               /\ Bounded(DOMAIN n.accts)
               /\ DOMAIN d.accts \subseteq DOMAIN n.accts
               /\ \A v : OwnedBy(d, v) \subseteq OwnedBy(n, v)
               /\ OwnedBy(n, u) # {}
  <1> DEFINE n == WithAccount(d, u, default)
             a == NextId(DOMAIN d.accts)
  <1>1. DOMAIN n = Tables /\ n.users = d.users /\ n.txn = d.txn
    BY WithAccountFrame
  <1>2. PICK row : row.owner = u /\ n.accts = Put(d.accts, a, row)
    BY WithAccountFrame
  <1>3. a \notin DOMAIN d.accts /\ Bounded(DOMAIN d.accts \cup {a})
    BY NextIdFree
  <1> HIDE DEF n, a
  <1>4. /\ DOMAIN n.accts = DOMAIN d.accts \cup {a}
        /\ n.accts[a] = row
        /\ \A b \in DOMAIN d.accts : n.accts[b] = d.accts[b]
    BY <1>2, <1>3 DEF Put
  <1>5. \A v : OwnedBy(d, v) \subseteq OwnedBy(n, v)
    BY <1>4 DEF OwnedBy
  <1>6. a \in OwnedBy(n, u)
    BY <1>2, <1>4 DEF OwnedBy
  <1>7. QED BY <1>1, <1>3, <1>4, <1>5, <1>6 DEF n

\* create_account keeps an image sound.
LEMMA AccountSound ==
    ASSUME NEW d, Sound(d), NEW u, NEW default
    PROVE  Sound(WithAccount(d, u, default))
  <1> DEFINE n == WithAccount(d, u, default)
  <1>1. /\ DOMAIN n = Tables /\ n.users = d.users /\ n.txn = d.txn
        /\ Bounded(DOMAIN n.accts)
        /\ DOMAIN d.accts \subseteq DOMAIN n.accts
        /\ \A v : OwnedBy(d, v) \subseteq OwnedBy(n, v)
    BY AccountAdded DEF Sound
  <1> HIDE DEF n
  <1>2. NamesDiffer(n)
    BY <1>1 DEF Sound, NamesDiffer
  <1>3. RowsHaveAccounts(n)
    BY <1>1 DEF Sound, RowsHaveAccounts
  <1>4. CustomersServed(n)
    BY <1>1 DEF Sound, CustomersServed
  <1>5. QED BY <1>1, <1>2, <1>3, <1>4 DEF Sound, n

\* A registration under a free name: a customer gets an account with the user.
LEMMA RegisteredSound ==
    ASSUME NEW d, Sound(d), NEW name, NEW role,
           \A u \in DOMAIN d.users : d.users[u].name # name
    PROVE  Sound(Registered(d, name, role))
  <1> DEFINE u   == NextId(DOMAIN d.users)
             mid == WithUser(d, name, role)
  <1>1. DOMAIN mid = Tables /\ mid.accts = d.accts /\ mid.txn = d.txn
    BY WithUserFrame DEF Sound
  <1>2. PICK row : row.name = name /\ row.role = role /\ mid.users = Put(d.users, u, row)
    BY WithUserFrame DEF Sound
  <1> HIDE DEF mid, u
  <1>3. /\ DOMAIN mid.users = DOMAIN d.users \cup {u}
        /\ mid.users[u] = row
        /\ \A v \in DOMAIN d.users : v # u => mid.users[v] = d.users[v]
    BY <1>2 DEF Put
  <1>4. NamesDiffer(mid)
    BY <1>2, <1>3 DEF Sound, NamesDiffer
  <1>5. RowsHaveAccounts(mid)
    BY <1>1 DEF Sound, RowsHaveAccounts
  <1>6. \A v : OwnedBy(mid, v) = OwnedBy(d, v)
    BY <1>1 DEF OwnedBy
  <1>7. Bounded(DOMAIN mid.accts)
    BY <1>1 DEF Sound
  <1>8. \A v \in DOMAIN mid.users : v # u /\ mid.users[v].role = "customer" => OwnedBy(mid, v) # {}
    BY <1>3, <1>6 DEF Sound, CustomersServed
  <1>9. CASE role = "customer"
    <2> DEFINE n == WithAccount(mid, u, TRUE)
    <2>1. Registered(d, name, role) = n
      BY <1>9 DEF Registered, mid, u
    <2>2. /\ DOMAIN n = Tables /\ n.users = mid.users /\ n.txn = mid.txn
          /\ Bounded(DOMAIN n.accts)
          /\ DOMAIN mid.accts \subseteq DOMAIN n.accts
          /\ \A v : OwnedBy(mid, v) \subseteq OwnedBy(n, v)
          /\ OwnedBy(n, u) # {}
      BY <1>1, <1>7, AccountAdded
    <2> HIDE DEF n
    <2>3. NamesDiffer(n)
      BY <1>4, <2>2 DEF NamesDiffer
    <2>4. RowsHaveAccounts(n)
      BY <1>5, <2>2 DEF RowsHaveAccounts
    <2>5. CustomersServed(n)
      BY <1>8, <2>2 DEF CustomersServed
    <2>6. QED BY <2>1, <2>2, <2>3, <2>4, <2>5 DEF Sound
  <1>10. CASE role # "customer"
    <2>1. Registered(d, name, role) = mid
      BY <1>10 DEF Registered, mid
    <2>2. CustomersServed(mid)
      BY <1>2, <1>3, <1>8, <1>10 DEF CustomersServed
    <2>3. QED BY <1>1, <1>4, <1>5, <1>7, <2>1, <2>2 DEF Sound
  <1>11. QED BY <1>9, <1>10

\* A transfer whose accounts are still there.
LEMMA TransferredSound ==
    ASSUME NEW d, Sound(d), NEW q, {q.src, q.dst} \subseteq DOMAIN d.accts
    PROVE  Sound(Transferred(d, q))
  <1> DEFINE n == Transferred(d, q)
  <1>1. /\ DOMAIN n = Tables /\ n.users = d.users /\ n.accts = d.accts
        /\ \A t \in n.txn \ d.txn : {t.account, t.counterparty} = {q.src, q.dst}
    BY TransferredFrame DEF Sound
  <1> HIDE DEF n
  <1>2. RowsHaveAccounts(n)
    <2>1. ASSUME NEW t \in n.txn PROVE {t.account, t.counterparty} \subseteq DOMAIN n.accts
      <3>1. CASE t \in d.txn
        BY <1>1, <3>1 DEF Sound, RowsHaveAccounts
      <3>2. CASE t \notin d.txn
        BY <1>1, <3>2
      <3>3. QED BY <3>1, <3>2
    <2>2. QED BY <2>1 DEF RowsHaveAccounts
  <1>3. NamesDiffer(n)
    BY <1>1 DEF Sound, NamesDiffer
  <1>4. \A v : OwnedBy(n, v) = OwnedBy(d, v)
    BY <1>1 DEF OwnedBy
  <1>5. CustomersServed(n)
    BY <1>1, <1>4 DEF Sound, CustomersServed
  <1>6. Bounded(DOMAIN n.accts)
    BY <1>1 DEF Sound
  <1>7. QED BY <1>1, <1>2, <1>3, <1>5, <1>6 DEF Sound, n

\* A deletion takes every row that names an account of the user, and the other
\* users keep their accounts.
LEMMA WithoutUserSound ==
    ASSUME NEW d, Sound(d), NEW u
    PROVE  Sound(WithoutUser(d, u))
  <1> DEFINE n    == WithoutUser(d, u)
             gone == OwnedBy(d, u)
  <1>1. /\ DOMAIN n = Tables
        /\ n.users = Keep(d.users, DOMAIN d.users \ {u})
        /\ n.accts = Keep(d.accts, DOMAIN d.accts \ gone)
        /\ n.txn = KeptTransactions(d, gone)
    BY WithoutUserFrame DEF Sound
  <1>2. \A v : v # u => OwnedBy(d, v) \cap gone = {}
    BY DEF OwnedBy
  <1> HIDE DEF n, gone
  <1>3. /\ DOMAIN n.users = DOMAIN d.users \ {u}
        /\ \A v \in DOMAIN n.users : n.users[v] = d.users[v]
        /\ DOMAIN n.accts = DOMAIN d.accts \ gone
        /\ \A a \in DOMAIN n.accts : n.accts[a] = d.accts[a]
    BY <1>1 DEF Keep
  <1>4. NamesDiffer(n)
    BY <1>3 DEF Sound, NamesDiffer
  <1>5. RowsHaveAccounts(n)
    BY <1>1, <1>3 DEF Sound, RowsHaveAccounts, KeptTransactions
  <1>6. \A v : v # u => OwnedBy(n, v) = OwnedBy(d, v)
    BY <1>2, <1>3 DEF OwnedBy
  <1>7. CustomersServed(n)
    BY <1>3, <1>6 DEF Sound, CustomersServed
  <1>8. Bounded(DOMAIN n.accts)
    BY <1>3 DEF Sound, Bounded
  <1>9. QED BY <1>1, <1>4, <1>5, <1>7, <1>8 DEF Sound, n

-----------------------------------------------------------------------------
(* The invariant                                                            *)

\* The empty tables are sound.
LEMMA InitIInv == Init => IInv
  <1> SUFFICES ASSUME Init PROVE IInv
    OBVIOUS
  <1>1. DOMAIN db = Tables /\ DOMAIN db.users = {} /\ DOMAIN db.accts = {} /\ db.txn = {}
    BY DEF Init, Tables
  <1>2. QED
    BY <1>1 DEF IInv, Bounded, UniqueNames, TransactionsNameAccounts, CustomersHaveAccounts

\* Every step keeps the tables sound.
LEMMA NextIInv == IInv /\ [Next]_vars => IInv'
  <1> SUFFICES ASSUME IInv, [Next]_vars PROVE IInv'
    OBVIOUS
  <1>1. Sound(db)
    BY SoundIsIInv
  <1>2. ASSUME Sound(db') PROVE IInv'
    BY <1>2 DEF IInv, Sound, NamesDiffer, RowsHaveAccounts, CustomersServed, UniqueNames,
                TransactionsNameAccounts, CustomersHaveAccounts
  <1>3. ASSUME db' = db PROVE IInv'
    BY <1>1, <1>2, <1>3
  <1>4. ASSUME NEW r \in Requests, Register(r) PROVE IInv'
    <2>1. /\ db' = Registered(db, req[r].name, req[r].role)
          /\ \A u \in DOMAIN db.users : db.users[u].name # req[r].name
      BY <1>4 DEF Register, Write, NameTaken
    <2>2. QED BY <1>1, <1>2, <2>1, RegisteredSound
  <1>5. ASSUME NEW r \in Requests, Open(r) PROVE IInv'
    <2>1. db' = WithAccount(db, req[r].user, req[r].op = "default")
      BY <1>5 DEF Open, Write
    <2>2. QED BY <1>1, <1>2, <2>1, AccountSound
  <1>6. ASSUME NEW r \in Requests, Transfer(r) PROVE IInv'
    <2>1. db' = Transferred(db, req[r]) /\ {req[r].src, req[r].dst} \subseteq DOMAIN db.accts
      BY <1>6 DEF Transfer, Write
    <2>2. QED BY <1>1, <1>2, <2>1, TransferredSound
  <1>7. ASSUME NEW r \in Requests, Ask(r) PROVE IInv'
    <2> DEFINE asks == db.asks \cup {req[r].user}
    <2>1. db' = [db EXCEPT !.asks = asks]
      BY <1>7 DEF Ask, Write
    <2> HIDE DEF asks
    <2>2. DOMAIN db' = Tables /\ db'.users = db.users /\ db'.accts = db.accts /\ db'.txn = db.txn
      BY <1>1, <2>1 DEF Sound, Tables
    <2>3. Sound(db')
      BY <1>1, <2>2 DEF Sound, NamesDiffer, RowsHaveAccounts, CustomersServed, OwnedBy
    <2>4. QED BY <1>2, <2>3
  <1>8. ASSUME NEW r \in Requests, Delete(r) PROVE IInv'
    <2>1. db' = WithoutUser(db, req[r].user)
      BY <1>8 DEF Delete, Write
    <2>2. QED BY <1>1, <1>2, <2>1, WithoutUserSound
  <1>9. ASSUME NEW r \in Requests,
               \/ StartRegister(r) \/ RegisterConflict(r) \/ StartPage(r) \/ LookUp(r)
               \/ StartOpen(r) \/ StartTransfer(r) \/ TransferStale(r)
               \/ StartAsk(r) \/ StartDelete(r) \/ DeleteRefused(r) \/ GiveUp(r)
        PROVE  IInv'
    <2>1. db' = db
      BY <1>9 DEF StartRegister, RegisterConflict, StartPage, LookUp, StartOpen, StartTransfer,
                  TransferStale, StartAsk, StartDelete, DeleteRefused, GiveUp, Start, Continue
    <2>2. QED BY <1>3, <2>1
  <1>10. CASE UNCHANGED vars
    BY <1>3, <1>10 DEF vars
  <1>11. QED
    BY <1>4, <1>5, <1>6, <1>7, <1>8, <1>9, <1>10 DEF Next, Rest

-----------------------------------------------------------------------------
(* Transaction rows leave with a party                                      *)

\* Only a deletion takes transaction rows away.
LEMMA TransactionsKept ==
    ASSUME NEW d, Sound(d)
    PROVE  /\ \A name, role : Registered(d, name, role).txn = d.txn
           /\ \A u, default : WithAccount(d, u, default).txn = d.txn
           /\ \A q : d.txn \subseteq Transferred(d, q).txn
  <1>1. ASSUME NEW name, NEW role PROVE Registered(d, name, role).txn = d.txn
    <2> DEFINE mid == WithUser(d, name, role)
               u   == NextId(DOMAIN d.users)
    <2>1. DOMAIN mid = Tables /\ mid.txn = d.txn
      BY WithUserFrame DEF Sound
    <2>2. Registered(d, name, role) = IF role = "customer" THEN WithAccount(mid, u, TRUE) ELSE mid
      BY DEF Registered
    <2> HIDE DEF mid, u
    <2>3. \A v, w : WithAccount(mid, v, w).txn = mid.txn
      BY <2>1, WithAccountFrame
    <2>4. WithAccount(mid, u, TRUE).txn = d.txn
      BY <2>1, <2>3
    <2>5. CASE role = "customer"
      BY <2>2, <2>4, <2>5
    <2>6. CASE role # "customer"
      BY <2>1, <2>2, <2>6
    <2>7. QED BY <2>5, <2>6
  <1>2. \A u, default : WithAccount(d, u, default).txn = d.txn
    BY WithAccountFrame DEF Sound
  <1>3. \A q : d.txn \subseteq Transferred(d, q).txn
    BY TransferredFrame DEF Sound
  <1>4. QED BY <1>1, <1>2, <1>3

\* A row a deletion takes names an account that is gone afterwards.
LEMMA DeletedWithParty ==
    ASSUME NEW d, Sound(d), NEW u, NEW t \in d.txn \ WithoutUser(d, u).txn
    PROVE  ~({t.account, t.counterparty} \subseteq DOMAIN WithoutUser(d, u).accts)
  <1> DEFINE n    == WithoutUser(d, u)
             gone == OwnedBy(d, u)
  <1>1. n.accts = Keep(d.accts, DOMAIN d.accts \ gone) /\ n.txn = KeptTransactions(d, gone)
    BY WithoutUserFrame DEF Sound
  <1>2. t \in d.txn \ n.txn
    OBVIOUS
  <1> HIDE DEF n, gone
  <1>3. t.account \in gone \/ t.counterparty \in gone
    BY <1>1, <1>2 DEF KeptTransactions
  <1>4. DOMAIN n.accts = DOMAIN d.accts \ gone
    BY <1>1 DEF Keep
  <1>5. ~({t.account, t.counterparty} \subseteq DOMAIN n.accts)
    BY <1>3, <1>4
  <1>6. QED BY <1>5 DEF n

\* A step that takes a transaction row takes one of its accounts.
LEMMA NextRowsLeave ==
    ASSUME IInv, [Next]_vars, NEW t \in db.txn \ db'.txn
    PROVE  ~({t.account, t.counterparty} \subseteq DOMAIN db'.accts)
  <1>1. Sound(db)
    BY SoundIsIInv
  <1>2. ~(db.txn \subseteq db'.txn)
    OBVIOUS
  <1>3. ASSUME NEW r \in Requests, Delete(r)
        PROVE  ~({t.account, t.counterparty} \subseteq DOMAIN db'.accts)
    <2>1. db' = WithoutUser(db, req[r].user)
      BY <1>3 DEF Delete, Write
    <2>2. QED BY <1>1, <2>1, DeletedWithParty
  <1>4. ASSUME NEW r \in Requests, Register(r) \/ Open(r) \/ Transfer(r) PROVE FALSE
    <2>1. \/ db' = Registered(db, req[r].name, req[r].role)
          \/ db' = WithAccount(db, req[r].user, req[r].op = "default")
          \/ db' = Transferred(db, req[r])
      BY <1>4 DEF Register, Open, Transfer, Write
    <2>2. QED BY <1>1, <1>2, <2>1, TransactionsKept
  <1>5. ASSUME NEW r \in Requests, Ask(r) PROVE FALSE
    <2> DEFINE asks == db.asks \cup {req[r].user}
    <2>1. db' = [db EXCEPT !.asks = asks]
      BY <1>5 DEF Ask, Write
    <2> HIDE DEF asks
    <2>2. db'.txn = db.txn
      BY <1>1, <2>1 DEF Sound, Tables
    <2>3. QED BY <1>2, <2>2
  <1>6. ASSUME NEW r \in Requests,
               \/ StartRegister(r) \/ RegisterConflict(r) \/ StartPage(r) \/ LookUp(r)
               \/ StartOpen(r) \/ StartTransfer(r) \/ TransferStale(r)
               \/ StartAsk(r) \/ StartDelete(r) \/ DeleteRefused(r) \/ GiveUp(r)
        PROVE  FALSE
    <2>1. db' = db
      BY <1>6 DEF StartRegister, RegisterConflict, StartPage, LookUp, StartOpen, StartTransfer,
                  TransferStale, StartAsk, StartDelete, DeleteRefused, GiveUp, Start, Continue
    <2>2. QED BY <1>2, <2>1
  <1>7. CASE UNCHANGED vars
    BY <1>2, <1>7 DEF vars
  <1>8. QED
    BY <1>3, <1>4, <1>5, <1>6, <1>7 DEF Next, Rest

-----------------------------------------------------------------------------
(* Theorems                                                                 *)

\* The tables are sound at every moment.
LEMMA Invariance == Spec => []IInv
  BY InitIInv, NextIInv, PTL DEF Spec

\* However many registrations overlap, no two users have the same name
\* (register_user and the UNIQUE columns of users).
THEOREM NamesUnique == Spec => []UniqueNames
  <1>1. IInv => UniqueNames
    BY DEF IInv
  <1>2. QED BY <1>1, Invariance, PTL

\* However transfers and deletions overlap, every transaction row names two
\* accounts that exist (transfer, delete_user_account).
THEOREM RowsNameAccounts == Spec => []TransactionsNameAccounts
  <1>1. IInv => TransactionsNameAccounts
    BY DEF IInv
  <1>2. QED BY <1>1, Invariance, PTL

\* Every customer has an account at every moment (register_user).
THEOREM CustomersServedAlways == Spec => []CustomersHaveAccounts
  <1>1. IInv => CustomersHaveAccounts
    BY DEF IInv
  <1>2. QED BY <1>1, Invariance, PTL

\* A transaction row leaves only with one of its two accounts
\* (delete_user_account).
THEOREM RowsLeaveOnlyWithParty == Spec => RowsLeaveWithParty
  <1>1. IInv /\ [Next]_vars =>
          [\A t \in db.txn \ db'.txn :
              ~({t.account, t.counterparty} \subseteq DOMAIN db'.accts)]_vars
    BY NextRowsLeave
  <1>2. QED BY <1>1, Invariance, PTL DEF Spec, RowsLeaveWithParty

-----------------------------------------------------------------------------
(* Types                                                                    *)

\* Every column of an image of the tables has its type, and ids and version
\* numbers are bounded.
Typed(d) ==
    /\ DOMAIN d = Tables
    /\ Bounded(DOMAIN d.users)
    /\ \A u \in DOMAIN d.users : d.users[u] \in User
    /\ Bounded(DOMAIN d.accts)
    /\ \A a \in DOMAIN d.accts : d.accts[a] \in Account
    /\ Bounded({t.id : t \in d.txn})
    /\ \A t \in d.txn : t \in Transaction
    /\ Bounded({v.number : v \in d.hist})
    /\ \A v \in d.hist : v \in Version
    /\ d.inbox \subseteq Nat
    /\ d.asks \subseteq Nat
    /\ d.born \in Nat

\* A request has its type, and one that registers a user has a name for it.
Formed(q) == q \in Request /\ (q.op = "register" => q.name \in Names)

TypeInv ==
    /\ Typed(db)
    /\ DOMAIN req = Requests
    /\ \A r \in Requests : Formed(req[r])
    /\ alone \in BOOLEAN

\* The types of versions.
Changes == {"CREATE", "UPDATE"}

\* The row that create_version adds.
VersionRow(d, kind, e, type, life, by) ==
    [kind |-> kind, entity |-> e, type |-> type, life |-> life, by |-> by,
     number |-> NextId({v.number : v \in VersionsOf(d, kind, e)})]

\* A bounded set of ids stays bounded with one more, and so do its subsets.
LEMMA BoundedMore ==
    ASSUME NEW ids, Bounded(ids), NEW i \in Nat
    PROVE  Bounded(ids \cup {i}) /\ \A some \in SUBSET ids : Bounded(some)
  <1>1. PICK n \in Nat : \A j \in ids : j \in Nat /\ j <= n
    BY DEF Bounded
  <1>2. PICK m \in Nat : m >= n /\ m >= i
    <2>1. n >= i \/ i >= n
      OBVIOUS
    <2>2. QED BY <2>1
  <1>3. \A j \in ids \cup {i} : j \in Nat /\ j <= m
    BY <1>1, <1>2
  <1>4. QED BY <1>1, <1>3 DEF Bounded

\* The next id is a positive number.
LEMMA NextIdNumber ==
    ASSUME NEW ids, Bounded(ids)
    PROVE  NextId(ids) \in Nat /\ NextId(ids) # 0
  <1>1. CASE ids = {}
    BY <1>1 DEF NextId
  <1>2. CASE ids # {}
    <2> DEFINE m == CHOOSE i \in ids : \A j \in ids : j <= i
    <2>1. m \in ids
      BY <1>2, LargestId
    <2>2. NextId(ids) = m + 1
      BY <1>2 DEF NextId
    <2> HIDE DEF m
    <2>3. m \in Nat
      BY <2>1 DEF Bounded
    <2>4. QED BY <2>2, <2>3
  <1>3. QED BY <1>1, <1>2

\* create_version adds its row and touches nothing else.
LEMMA WithVersionImage ==
    ASSUME NEW d, DOMAIN d = Tables, NEW kind, NEW e, NEW type, NEW life, NEW by,
           NEW n, n = WithVersion(d, kind, e, type, life, by)
    PROVE  /\ DOMAIN n = Tables /\ n.users = d.users /\ n.accts = d.accts /\ n.txn = d.txn
           /\ n.inbox = d.inbox /\ n.asks = d.asks /\ n.born = d.born
           /\ n.hist = d.hist \cup {VersionRow(d, kind, e, type, life, by)}
  <1> DEFINE rows == d.hist \cup {VersionRow(d, kind, e, type, life, by)}
  <1>1. n = [d EXCEPT !.hist = rows]
    BY DEF WithVersion, VersionRow
  <1> HIDE DEF rows
  <1>2. QED BY <1>1 DEF Tables, rows

\* The row of a version has its type.
LEMMA VersionRowTyped ==
    ASSUME NEW d, Typed(d), NEW kind \in Kinds, NEW e \in Nat, NEW type \in Changes,
           NEW life \in Nat, NEW by \in Nat
    PROVE  VersionRow(d, kind, e, type, life, by) \in Version
  <1> DEFINE v       == VersionRow(d, kind, e, type, life, by)
             numbers == {w.number : w \in VersionsOf(d, kind, e)}
             n       == NextId(numbers)
  <1>1. numbers \subseteq {w.number : w \in d.hist}
    BY DEF VersionsOf
  <1> HIDE DEF numbers
  <1>2. Bounded(numbers)
    BY <1>1, BoundedMore DEF Typed
  <1>3. n \in Nat
    BY <1>2, NextIdNumber
  <1>4. v = [kind |-> kind, entity |-> e, type |-> type, life |-> life, by |-> by, number |-> n]
    BY DEF VersionRow, numbers
  <1> HIDE DEF n, v
  <1>5. QED BY <1>3, <1>4 DEF Version, Changes, v

\* create_version keeps the types.
LEMMA WithVersionTyped ==
    ASSUME NEW d, Typed(d), NEW kind \in Kinds, NEW e \in Nat, NEW type \in Changes,
           NEW life \in Nat, NEW by \in Nat,
           NEW n, n = WithVersion(d, kind, e, type, life, by)
    PROVE  Typed(n)
  <1> PICK v : v = VersionRow(d, kind, e, type, life, by)
    OBVIOUS
  <1>1. /\ DOMAIN n = Tables /\ n.users = d.users /\ n.accts = d.accts /\ n.txn = d.txn
        /\ n.inbox = d.inbox /\ n.asks = d.asks /\ n.born = d.born
        /\ n.hist = d.hist \cup {v}
    BY WithVersionImage DEF Typed
  <1>2. v \in Version
    BY VersionRowTyped
  <1>3. Bounded({w.number : w \in n.hist})
    <2> DEFINE old == {w.number : w \in d.hist}
    <2>1. {w.number : w \in n.hist} = old \cup {v.number}
      BY <1>1
    <2>2. v.number \in Nat
      BY <1>2 DEF Version
    <2>3. Bounded(old)
      BY DEF Typed
    <2> HIDE DEF old
    <2>4. QED BY <2>1, <2>2, <2>3, BoundedMore
  <1>4. \A w \in n.hist : w \in Version
    BY <1>1, <1>2 DEF Typed
  <1>5. QED BY <1>1, <1>3, <1>4 DEF Typed

\* The image in which create_account has inserted its row.
WithAccountRow(d, u, default) ==
    [d EXCEPT !.accts = Put(@, NextId(DOMAIN d.accts),
                            [owner |-> u, life |-> d.born + 1, default |-> default]),
              !.born = d.born + 1,
              !.inbox = @ \cup {u}]

\* What that image holds.
LEMMA AccountRowImage ==
    ASSUME NEW d, DOMAIN d = Tables, NEW u, NEW default,
           NEW m, m = WithAccountRow(d, u, default)
    PROVE  /\ DOMAIN m = Tables /\ m.users = d.users /\ m.txn = d.txn /\ m.hist = d.hist
           /\ m.asks = d.asks /\ m.born = d.born + 1 /\ m.inbox = d.inbox \cup {u}
           /\ m.accts = Put(d.accts, NextId(DOMAIN d.accts),
                            [owner |-> u, life |-> d.born + 1, default |-> default])
           /\ WithAccount(d, u, default) =
                WithVersion(m, "ACCOUNT", NextId(DOMAIN d.accts), "CREATE", d.born + 1, u)
  <1> DEFINE accts == Put(d.accts, NextId(DOMAIN d.accts),
                          [owner |-> u, life |-> d.born + 1, default |-> default])
             life  == d.born + 1
             inbox == d.inbox \cup {u}
  <1>1. m = [d EXCEPT !.accts = accts, !.born = life, !.inbox = inbox]
    BY DEF WithAccountRow
  <1>2. WithAccount(d, u, default) =
          WithVersion(m, "ACCOUNT", NextId(DOMAIN d.accts), "CREATE", d.born + 1, u)
    BY <1>1 DEF WithAccount
  <1> HIDE DEF accts, life, inbox
  <1>3. QED BY <1>1, <1>2 DEF Tables, accts, life, inbox

\* The image in which register_user has inserted its row.
WithUserRow(d, name, role) ==
    [d EXCEPT !.users = Put(@, NextId(DOMAIN d.users),
                            [name |-> name, role |-> role, life |-> d.born + 1]),
              !.born = d.born + 1]

\* What that image holds.
LEMMA UserRowImage ==
    ASSUME NEW d, DOMAIN d = Tables, NEW name, NEW role,
           NEW m, m = WithUserRow(d, name, role)
    PROVE  /\ DOMAIN m = Tables /\ m.accts = d.accts /\ m.txn = d.txn /\ m.hist = d.hist
           /\ m.asks = d.asks /\ m.born = d.born + 1 /\ m.inbox = d.inbox
           /\ m.users = Put(d.users, NextId(DOMAIN d.users),
                            [name |-> name, role |-> role, life |-> d.born + 1])
           /\ WithUser(d, name, role) =
                WithVersion(m, "USER_PROFILE", NextId(DOMAIN d.users), "CREATE", d.born + 1,
                            NextId(DOMAIN d.users))
  <1> DEFINE users == Put(d.users, NextId(DOMAIN d.users),
                          [name |-> name, role |-> role, life |-> d.born + 1])
             life  == d.born + 1
  <1>1. m = [d EXCEPT !.users = users, !.born = life]
    BY DEF WithUserRow
  <1>2. WithUser(d, name, role) =
          WithVersion(m, "USER_PROFILE", NextId(DOMAIN d.users), "CREATE", d.born + 1,
                      NextId(DOMAIN d.users))
    BY <1>1 DEF WithUser
  <1> HIDE DEF users, life
  <1>3. QED BY <1>1, <1>2 DEF Tables, users, life

\* create_account keeps the types.
LEMMA WithAccountTyped ==
    ASSUME NEW d, Typed(d), NEW u \in Nat, NEW default \in BOOLEAN,
           NEW n, n = WithAccount(d, u, default)
    PROVE  Typed(WithAccountRow(d, u, default)) /\ Typed(n)
  <1> DEFINE a   == NextId(DOMAIN d.accts)
             row == [owner |-> u, life |-> d.born + 1, default |-> default]
             m   == WithAccountRow(d, u, default)
  <1>1. /\ DOMAIN m = Tables /\ m.users = d.users /\ m.txn = d.txn /\ m.hist = d.hist
        /\ m.asks = d.asks /\ m.born = d.born + 1 /\ m.inbox = d.inbox \cup {u}
        /\ m.accts = Put(d.accts, a, row)
        /\ n = WithVersion(m, "ACCOUNT", a, "CREATE", d.born + 1, u)
    BY AccountRowImage DEF Typed
  <1>2. /\ a \notin DOMAIN d.accts /\ Bounded(DOMAIN d.accts \cup {a}) /\ a \in Nat
        /\ d.born + 1 \in Nat
    BY NextIdFree, NextIdNumber DEF Typed
  <1>3. row \in Account
    BY <1>2 DEF Account
  <1> HIDE DEF a, row, m
  <1>4. /\ DOMAIN m.accts = DOMAIN d.accts \cup {a} /\ m.accts[a] = row
        /\ \A b \in DOMAIN d.accts : m.accts[b] = d.accts[b]
    BY <1>1, <1>2 DEF Put
  <1>5. \A b \in DOMAIN m.accts : m.accts[b] \in Account
    BY <1>3, <1>4 DEF Typed
  <1>6. Typed(m)
    BY <1>1, <1>2, <1>4, <1>5 DEF Typed
  <1>7. Typed(n)
    BY <1>1, <1>2, <1>6, WithVersionTyped DEF Kinds, Changes
  <1>8. QED BY <1>6, <1>7 DEF m

\* The new user's version keeps the types.
LEMMA WithUserTyped ==
    ASSUME NEW d, Typed(d), NEW name \in Names, NEW role \in Roles,
           NEW n, n = WithUser(d, name, role)
    PROVE  Typed(WithUserRow(d, name, role)) /\ Typed(n)
  <1> DEFINE u   == NextId(DOMAIN d.users)
             row == [name |-> name, role |-> role, life |-> d.born + 1]
             m   == WithUserRow(d, name, role)
  <1>1. /\ DOMAIN m = Tables /\ m.accts = d.accts /\ m.txn = d.txn /\ m.hist = d.hist
        /\ m.asks = d.asks /\ m.born = d.born + 1 /\ m.inbox = d.inbox
        /\ m.users = Put(d.users, u, row)
        /\ n = WithVersion(m, "USER_PROFILE", u, "CREATE", d.born + 1, u)
    BY UserRowImage DEF Typed
  <1>2. /\ u \notin DOMAIN d.users /\ Bounded(DOMAIN d.users \cup {u}) /\ u \in Nat
        /\ d.born + 1 \in Nat
    BY NextIdFree, NextIdNumber DEF Typed
  <1>3. row \in User
    BY <1>2 DEF User
  <1> HIDE DEF u, row, m
  <1>4. /\ DOMAIN m.users = DOMAIN d.users \cup {u} /\ m.users[u] = row
        /\ \A b \in DOMAIN d.users : m.users[b] = d.users[b]
    BY <1>1, <1>2 DEF Put
  <1>5. \A b \in DOMAIN m.users : m.users[b] \in User
    BY <1>3, <1>4 DEF Typed
  <1>6. Typed(m)
    BY <1>1, <1>2, <1>4, <1>5 DEF Typed
  <1>7. Typed(n)
    BY <1>1, <1>2, <1>6, WithVersionTyped DEF Kinds, Changes
  <1>8. QED BY <1>6, <1>7 DEF m

\* A registration keeps the types.
LEMMA RegisteredTyped ==
    ASSUME NEW d, Typed(d), NEW name \in Names, NEW role \in Roles
    PROVE  Typed(Registered(d, name, role))
  <1> DEFINE u == NextId(DOMAIN d.users)
             m == WithUser(d, name, role)
             n == WithAccount(m, u, TRUE)
  <1>1. Typed(m)
    BY WithUserTyped
  <1>2. u \in Nat
    BY NextIdNumber DEF Typed
  <1>3. Registered(d, name, role) = IF role = "customer" THEN n ELSE m
    BY DEF Registered
  <1> HIDE DEF m, u
  <1>4. Typed(n)
    BY <1>1, <1>2, WithAccountTyped
  <1> HIDE DEF n
  <1>5. QED BY <1>1, <1>3, <1>4

\* The image in which a transfer has posted its rows.
WithTransferRows(d, q) ==
    LET k == NextId({t.id : t \in d.txn})
    IN  [d EXCEPT !.inbox = @ \cup q.told,
                  !.txn = @ \cup {[id |-> k, account |-> q.src, counterparty |-> q.dst],
                                  [id |-> k + 1, account |-> q.dst, counterparty |-> q.src]}]

\* What that image holds.
LEMMA TransferRowsImage ==
    ASSUME NEW d, DOMAIN d = Tables, NEW q, NEW m, m = WithTransferRows(d, q)
    PROVE  /\ DOMAIN m = Tables /\ m.users = d.users /\ m.accts = d.accts /\ m.hist = d.hist
           /\ m.asks = d.asks /\ m.born = d.born /\ m.inbox = d.inbox \cup q.told
           /\ m.txn = d.txn \cup
                 {[id |-> NextId({t.id : t \in d.txn}), account |-> q.src, counterparty |-> q.dst],
                  [id |-> NextId({t.id : t \in d.txn}) + 1, account |-> q.dst,
                   counterparty |-> q.src]}
           /\ Transferred(d, q) =
                 WithVersion(WithVersion(m, "ACCOUNT", q.src, "UPDATE", q.srcLife, q.user),
                             "ACCOUNT", q.dst, "UPDATE", q.dstLife, q.user)
  <1> DEFINE k     == NextId({t.id : t \in d.txn})
             txn   == d.txn \cup {[id |-> k, account |-> q.src, counterparty |-> q.dst],
                                 [id |-> k + 1, account |-> q.dst, counterparty |-> q.src]}
             inbox == d.inbox \cup q.told
  <1>1. m = [d EXCEPT !.inbox = inbox, !.txn = txn]
    BY DEF WithTransferRows
  <1>2. Transferred(d, q) =
           WithVersion(WithVersion(m, "ACCOUNT", q.src, "UPDATE", q.srcLife, q.user),
                       "ACCOUNT", q.dst, "UPDATE", q.dstLife, q.user)
    BY <1>1 DEF Transferred
  <1> HIDE DEF k, txn, inbox
  <1>3. QED BY <1>1, <1>2 DEF Tables, k, txn, inbox

\* A transfer between accounts that exist keeps the types.
LEMMA TransferredTyped ==
    ASSUME NEW d, Typed(d), NEW q \in Request, {q.src, q.dst} \subseteq DOMAIN d.accts
    PROVE  /\ Typed(WithTransferRows(d, q))
           /\ Typed(WithVersion(WithTransferRows(d, q), "ACCOUNT", q.src, "UPDATE",
                                q.srcLife, q.user))
           /\ Typed(Transferred(d, q))
  <1> DEFINE ids  == {t.id : t \in d.txn}
             k    == NextId(ids)
             out  == [id |-> k, account |-> q.src, counterparty |-> q.dst]
             in   == [id |-> k + 1, account |-> q.dst, counterparty |-> q.src]
             m    == WithTransferRows(d, q)
             x    == q.srcLife
             y    == q.dstLife
             sent == WithVersion(m, "ACCOUNT", q.src, "UPDATE", x, q.user)
             n    == Transferred(d, q)
  <1>1. /\ DOMAIN m = Tables /\ m.users = d.users /\ m.accts = d.accts /\ m.hist = d.hist
        /\ m.asks = d.asks /\ m.born = d.born /\ m.inbox = d.inbox \cup q.told
        /\ m.txn = d.txn \cup {out, in}
        /\ n = WithVersion(sent, "ACCOUNT", q.dst, "UPDATE", y, q.user)
    <2>1. DOMAIN d = Tables
      BY DEF Typed
    <2>2. QED BY <2>1, TransferRowsImage
  <1>2. /\ q.src \in Nat /\ q.dst \in Nat /\ q.user \in Nat /\ q.told \subseteq Nat
    BY DEF Request
  <1>3. x \in Nat /\ y \in Nat
    BY DEF Request
  <1>4. k \in Nat /\ k + 1 \in Nat /\ Bounded(ids \cup {k}) /\ Bounded(ids \cup {k} \cup {k + 1})
    <2> HIDE DEF ids, k
    <2>1. Bounded(ids)
      BY DEF Typed, ids
    <2>2. k \in Nat
      BY <2>1, NextIdNumber DEF k
    <2>3. k + 1 \in Nat /\ Bounded(ids \cup {k})
      BY <2>1, <2>2, BoundedMore
    <2>4. Bounded(ids \cup {k} \cup {k + 1})
      BY <2>3, BoundedMore
    <2>5. QED BY <2>2, <2>3, <2>4
  <1>5. out \in Transaction /\ in \in Transaction /\ out.id = k /\ in.id = k + 1
    BY <1>2, <1>4 DEF Transaction
  <1> HIDE DEF k, x, y, m, n
  <1>6. Typed(m)
    <2>1. {t.id : t \in m.txn} = ids \cup {k} \cup {k + 1}
      <3> HIDE DEF out, in
      <3> QED BY <1>1, <1>5
    <2> HIDE DEF out, in, ids
    <2>2. \A t \in m.txn : t \in Transaction
      BY <1>1, <1>5 DEF Typed
    <2>3. m.inbox \subseteq Nat
      BY <1>1, <1>2 DEF Typed
    <2>4. QED BY <1>1, <1>4, <2>1, <2>2, <2>3 DEF Typed
  <1>7. Typed(sent)
    BY <1>2, <1>3, <1>6, WithVersionTyped DEF Kinds, Changes
  <1> HIDE DEF sent
  <1>8. Typed(n)
    BY <1>1, <1>2, <1>3, <1>7, WithVersionTyped DEF Kinds, Changes
  <1>9. QED BY <1>6, <1>7, <1>8 DEF m, n, sent, x

\* changed_by of a version once user u is gone.
Blanked(v, u) == [v EXCEPT !.by = IF @ = u THEN 0 ELSE @]

\* What a deletion leaves.
LEMMA WithoutUserImage ==
    ASSUME NEW d, DOMAIN d = Tables, NEW u
    PROVE  LET n == WithoutUser(d, u)
           IN  /\ DOMAIN n = Tables
               /\ n.users = Keep(d.users, DOMAIN d.users \ {u})
               /\ n.accts = Keep(d.accts, DOMAIN d.accts \ OwnedBy(d, u))
               /\ n.txn = KeptTransactions(d, OwnedBy(d, u))
               /\ n.inbox = d.inbox \ {u} /\ n.asks = d.asks /\ n.born = d.born
               /\ \A w : w \in n.hist <=> \E v \in d.hist : w = Blanked(v, u)
  <1> DEFINE users == Keep(d.users, DOMAIN d.users \ {u})
             accts == Keep(d.accts, DOMAIN d.accts \ OwnedBy(d, u))
             txn   == KeptTransactions(d, OwnedBy(d, u))
             inbox == d.inbox \ {u}
             hist  == {Blanked(v, u) : v \in d.hist}
             n     == WithoutUser(d, u)
  <1>1. n = [d EXCEPT !.users = users, !.accts = accts, !.txn = txn, !.inbox = inbox, !.hist = hist]
    BY DEF WithoutUser, Blanked
  <1>2. \A w : w \in hist <=> \E v \in d.hist : w = Blanked(v, u)
    OBVIOUS
  <1> HIDE DEF users, accts, txn, inbox, hist, n
  <1>3. /\ DOMAIN n = Tables /\ n.users = users /\ n.accts = accts /\ n.txn = txn
        /\ n.inbox = inbox /\ n.asks = d.asks /\ n.born = d.born /\ n.hist = hist
    BY <1>1 DEF Tables
  <1>4. QED BY <1>2, <1>3 DEF n, users, accts, txn, inbox

\* Blanking changed_by changes no other column.
LEMMA BlankedVersion ==
    ASSUME NEW v \in Version, NEW u, NEW w, w = Blanked(v, u)
    PROVE  /\ w \in Version /\ w.kind = v.kind /\ w.entity = v.entity
           /\ w.number = v.number /\ w.type = v.type /\ w.life = v.life
           /\ w.by = IF v.by = u THEN 0 ELSE v.by
  <1> DEFINE by == IF v.by = u THEN 0 ELSE v.by
  <1>1. by \in Nat
    BY DEF Version
  <1>2. w = [v EXCEPT !.by = by]
    BY DEF Blanked
  <1> HIDE DEF by
  <1>3. w = [kind |-> v.kind, entity |-> v.entity, number |-> v.number, type |-> v.type,
             life |-> v.life, by |-> by]
    BY <1>2 DEF Version
  <1>4. QED BY <1>1, <1>3 DEF Version, by

\* A deletion keeps the types.
LEMMA WithoutUserTyped ==
    ASSUME NEW d, Typed(d), NEW u
    PROVE  Typed(WithoutUser(d, u))
  <1> DEFINE gone == OwnedBy(d, u)
             n    == WithoutUser(d, u)
  <1>1. /\ DOMAIN n = Tables
        /\ n.users = Keep(d.users, DOMAIN d.users \ {u})
        /\ n.accts = Keep(d.accts, DOMAIN d.accts \ gone)
        /\ n.txn = KeptTransactions(d, gone)
        /\ n.inbox = d.inbox \ {u} /\ n.asks = d.asks /\ n.born = d.born
        /\ \A w : w \in n.hist <=> \E v \in d.hist : w = Blanked(v, u)
    <2>1. DOMAIN d = Tables
      BY DEF Typed
    <2>2. QED BY <2>1, WithoutUserImage
  <1> HIDE DEF gone, n
  <1>2. /\ DOMAIN n.users = DOMAIN d.users \ {u} /\ \A v \in DOMAIN n.users : n.users[v] = d.users[v]
        /\ DOMAIN n.accts = DOMAIN d.accts \ gone
        /\ \A a \in DOMAIN n.accts : n.accts[a] = d.accts[a]
    BY <1>1 DEF Keep
  <1>3. Bounded(DOMAIN n.users) /\ Bounded(DOMAIN n.accts)
    <2>1. Bounded(DOMAIN d.users) /\ Bounded(DOMAIN d.accts)
      BY DEF Typed
    <2>2. DOMAIN n.users \subseteq DOMAIN d.users /\ DOMAIN n.accts \subseteq DOMAIN d.accts
      BY <1>2
    <2>3. QED BY <2>1, <2>2 DEF Bounded
  <1>4. n.txn \subseteq d.txn
    BY <1>1 DEF KeptTransactions
  <1>5. Bounded({t.id : t \in n.txn})
    <2>1. Bounded({t.id : t \in d.txn})
      BY DEF Typed
    <2>2. {t.id : t \in n.txn} \subseteq {t.id : t \in d.txn}
      BY <1>4
    <2>3. QED BY <2>1, <2>2 DEF Bounded
  <1>6. \A w \in n.hist : \E v \in d.hist : w \in Version /\ w.number = v.number
    <2>1. ASSUME NEW v \in d.hist PROVE Blanked(v, u) \in Version /\ Blanked(v, u).number = v.number
      <3>1. v \in Version
        BY DEF Typed
      <3>2. QED BY <3>1, BlankedVersion
    <2>2. QED BY <1>1, <2>1
  <1>7. Bounded({v.number : v \in n.hist})
    <2>1. Bounded({v.number : v \in d.hist})
      BY DEF Typed
    <2>2. {v.number : v \in n.hist} \subseteq {v.number : v \in d.hist}
      BY <1>6
    <2>3. QED BY <2>1, <2>2 DEF Bounded
  <1>8. n.inbox \subseteq Nat /\ n.asks \subseteq Nat /\ n.born \in Nat
    BY <1>1 DEF Typed
  <1>9. /\ \A v \in DOMAIN n.users : n.users[v] \in User
        /\ \A a \in DOMAIN n.accts : n.accts[a] \in Account
        /\ \A t \in n.txn : t \in Transaction
    BY <1>2, <1>4 DEF Typed
  <1>10. QED BY <1>1, <1>3, <1>5, <1>6, <1>7, <1>8, <1>9 DEF Typed, n

\* A rollback request adds a user to a table.
LEMMA AskImage ==
    ASSUME NEW d, DOMAIN d = Tables, NEW u, NEW n, n = [d EXCEPT !.asks = @ \cup {u}]
    PROVE  /\ DOMAIN n = Tables /\ n.users = d.users /\ n.accts = d.accts /\ n.txn = d.txn
           /\ n.inbox = d.inbox /\ n.born = d.born /\ n.hist = d.hist
           /\ n.asks = d.asks \cup {u}
  <1> DEFINE asks == d.asks \cup {u}
  <1>1. n = [d EXCEPT !.asks = asks]
    OBVIOUS
  <1> HIDE DEF asks
  <1>2. QED BY <1>1 DEF Tables, asks

\* A rollback request keeps the types.
LEMMA AskTyped ==
    ASSUME NEW d, Typed(d), NEW u \in Nat
    PROVE  Typed([d EXCEPT !.asks = @ \cup {u}])
  <1> DEFINE n == [d EXCEPT !.asks = @ \cup {u}]
  <1>1. DOMAIN d = Tables
    BY DEF Typed
  <1>2. /\ DOMAIN n = Tables /\ n.users = d.users /\ n.accts = d.accts /\ n.txn = d.txn
        /\ n.inbox = d.inbox /\ n.born = d.born /\ n.hist = d.hist
        /\ n.asks = d.asks \cup {u}
    BY <1>1, AskImage
  <1> HIDE DEF n
  <1>3. Typed(n)
    BY <1>2 DEF Typed
  <1>4. QED BY <1>3 DEF n

\* A request that starts from an idle one has its type.
LEMMA StartedFormed ==
    /\ Formed(Idle)
    /\ \A n \in Names, role \in Roles :
          Formed([Idle EXCEPT !.op = "register", !.name = n, !.role = role])
    /\ \A u \in Nat, op \in {"page", "open", "ask", "delete"} :
          Formed([Idle EXCEPT !.op = op, !.user = u])
    /\ \A u \in Nat, s \in Nat, d \in Nat, x \in Nat, y \in Nat, told \in SUBSET Nat :
          Formed([Idle EXCEPT !.op = "transfer", !.user = u, !.src = s, !.dst = d,
                              !.srcLife = x, !.dstLife = y, !.told = told])
  <1>1. Formed(Idle)
    BY DEF Formed, Idle, Request, Operations, Roles
  <1>2. ASSUME NEW n \in Names, NEW role \in Roles
        PROVE  Formed([Idle EXCEPT !.op = "register", !.name = n, !.role = role])
    BY DEF Formed, Idle, Request, Operations, Roles
  <1>3. ASSUME NEW u \in Nat, NEW op \in {"page", "open", "ask", "delete"}
        PROVE  Formed([Idle EXCEPT !.op = op, !.user = u])
    BY DEF Formed, Idle, Request, Operations, Roles
  <1>4. ASSUME NEW u \in Nat, NEW s \in Nat, NEW d \in Nat, NEW x \in Nat, NEW y \in Nat,
               NEW told \in SUBSET Nat
        PROVE  Formed([Idle EXCEPT !.op = "transfer", !.user = u, !.src = s, !.dst = d,
                                   !.srcLife = x, !.dstLife = y, !.told = told])
    BY DEF Formed, Idle, Request, Operations, Roles
  <1>5. QED BY <1>1, <1>2, <1>3, <1>4

\* Replacing a request by one of the same type keeps the types of all.
LEMMA RequestReplaced ==
    ASSUME DOMAIN req = Requests, \A s \in Requests : Formed(req[s]),
           NEW r \in Requests, NEW q, Formed(q), req' = [req EXCEPT ![r] = q]
    PROVE  (DOMAIN req = Requests /\ \A s \in Requests : Formed(req[s]))'
  <1>1. DOMAIN req' = Requests
    OBVIOUS
  <1>2. ASSUME NEW s \in Requests PROVE Formed(req[s])'
    <2>1. CASE s = r
      <3>1. req'[s] = q
        BY <2>1
      <3>2. QED BY <3>1 DEF Formed
    <2>2. CASE s # r
      <3>1. req'[s] = req[s]
        BY <2>2
      <3>2. QED BY <3>1 DEF Formed
    <2>3. QED BY <2>1, <2>2
  <1>3. QED BY <1>1, <1>2

\* Nothing is stored at first.
LEMMA InitTypes == Init => TypeInv
  <1> SUFFICES ASSUME Init PROVE TypeInv
    OBVIOUS
  <1>1. /\ DOMAIN db = Tables /\ DOMAIN db.users = {} /\ DOMAIN db.accts = {} /\ db.txn = {}
        /\ db.hist = {} /\ db.inbox = {} /\ db.asks = {} /\ db.born = 0
    BY DEF Init, Tables
  <1>2. Bounded({})
    BY DEF Bounded
  <1>3. {t.id : t \in db.txn} = {} /\ {v.number : v \in db.hist} = {}
    BY <1>1
  <1>4. Typed(db)
    BY <1>1, <1>2, <1>3 DEF Typed
  <1>5. DOMAIN req = Requests /\ (\A r \in Requests : req[r] = Idle) /\ alone \in BOOLEAN
    BY DEF Init
  <1>6. \A r \in Requests : Formed(req[r])
    BY <1>5, StartedFormed
  <1>7. QED BY <1>4, <1>5, <1>6 DEF TypeInv

\* Every step keeps the types.
LEMMA NextTypes == TypeInv /\ [Next]_vars => TypeInv'
  <1> SUFFICES ASSUME TypeInv, [Next]_vars PROVE TypeInv'
    OBVIOUS
  <1>1. /\ Typed(db) /\ DOMAIN req = Requests /\ \A s \in Requests : Formed(req[s])
        /\ alone \in BOOLEAN
    BY DEF TypeInv
  <1>2. /\ \A u \in DOMAIN db.users : u \in Nat
        /\ \A a \in DOMAIN db.accts : a \in Nat /\ db.accts[a].owner \in Nat /\ db.accts[a].life \in Nat
    BY <1>1 DEF Typed, Bounded, Account
  <1>3. ASSUME NEW r \in Requests, NEW q, Formed(q), Start(r, q) PROVE TypeInv'
    <2>1. req' = [req EXCEPT ![r] = q] /\ db' = db
          /\ alone' = (alone /\ \A s \in Requests : req[s] = Idle)
      BY <1>3 DEF Start
    <2>2. alone' \in BOOLEAN
      BY <2>1
    <2>3. (DOMAIN req = Requests /\ \A s \in Requests : Formed(req[s]))'
      BY <1>1, <1>3, <2>1, RequestReplaced
    <2>4. Typed(db')
      BY <1>1, <2>1
    <2>5. QED BY <2>2, <2>3, <2>4 DEF TypeInv
  <1>4. ASSUME NEW r \in Requests, NEW q, Formed(q), Continue(r, q) PROVE TypeInv'
    <2>1. req' = [req EXCEPT ![r] = q] /\ db' = db /\ alone' = alone
      BY <1>4 DEF Continue
    <2>2. (DOMAIN req = Requests /\ \A s \in Requests : Formed(req[s]))'
      BY <1>1, <1>4, <2>1, RequestReplaced
    <2>3. Typed(db') /\ alone' \in BOOLEAN
      BY <1>1, <2>1
    <2>4. QED BY <2>2, <2>3 DEF TypeInv
  <1>5. ASSUME NEW r \in Requests, NEW image, Typed(image), Write(r, image) PROVE TypeInv'
    <2>1. req' = [req EXCEPT ![r] = Idle] /\ db' = image /\ alone' = alone
      BY <1>5 DEF Write
    <2>2. (DOMAIN req = Requests /\ \A s \in Requests : Formed(req[s]))'
      BY <1>1, <2>1, RequestReplaced, StartedFormed
    <2>3. Typed(db') /\ alone' \in BOOLEAN
      BY <1>1, <1>5, <2>1
    <2>4. QED BY <2>2, <2>3 DEF TypeInv
  <1>6. ASSUME NEW r \in Requests PROVE req[r] \in Request /\ req[r].user \in Nat
    BY <1>1, <1>6 DEF Formed, Request
  <1>7. ASSUME NEW r \in Requests, StartRegister(r) PROVE TypeInv'
    BY <1>3, <1>7, StartedFormed DEF StartRegister
  <1>8. ASSUME NEW r \in Requests, Register(r) PROVE TypeInv'
    <2>1. req[r].name \in Names /\ req[r].role \in Roles
      BY <1>1, <1>8 DEF Register, Formed, Request
    <2>2. Typed(Registered(db, req[r].name, req[r].role))
      BY <1>1, <2>1, RegisteredTyped
    <2>3. QED BY <1>5, <1>8, <2>2 DEF Register
  <1>9. ASSUME NEW r \in Requests,
               RegisterConflict(r) \/ TransferStale(r) \/ DeleteRefused(r) \/ GiveUp(r)
        PROVE  TypeInv'
    <2>1. Continue(r, Idle)
      BY <1>9 DEF RegisterConflict, TransferStale, DeleteRefused, GiveUp
    <2>2. QED BY <1>4, <2>1, StartedFormed
  <1>10. ASSUME NEW r \in Requests, StartPage(r) \/ StartOpen(r) \/ StartAsk(r) \/ StartDelete(r)
         PROVE  TypeInv'
    <2>1. PICK u \in DOMAIN db.users, op \in {"page", "open", "ask", "delete"} :
             Start(r, [Idle EXCEPT !.op = op, !.user = u])
      BY <1>10 DEF StartPage, StartOpen, StartAsk, StartDelete
    <2>2. QED BY <1>2, <1>3, <2>1, StartedFormed
  <1>11. ASSUME NEW r \in Requests, LookUp(r) PROVE TypeInv'
    <2> DEFINE q == [req[r] EXCEPT !.op = "default"]
    <2>1. Formed(q)
      BY <1>6 DEF Formed, Request, Operations
    <2>2. Continue(r, q) \/ Continue(r, Idle)
      BY <1>11 DEF LookUp
    <2> HIDE DEF q
    <2>3. QED BY <1>4, <2>1, <2>2, StartedFormed
  <1>12. ASSUME NEW r \in Requests, Open(r) PROVE TypeInv'
    <2> PICK default \in BOOLEAN : default = (req[r].op = "default")
      OBVIOUS
    <2>1. Write(r, WithAccount(db, req[r].user, default))
      BY <1>12 DEF Open
    <2>2. Typed(WithAccount(db, req[r].user, default))
      BY <1>1, <1>6, WithAccountTyped
    <2>3. QED BY <1>5, <2>1, <2>2
  <1>13. ASSUME NEW r \in Requests, StartTransfer(r) PROVE TypeInv'
    <2>1. PICK u \in DOMAIN db.users, s \in DOMAIN db.accts, d \in DOMAIN db.accts :
             Start(r, [Idle EXCEPT !.op = "transfer", !.user = u, !.src = s, !.dst = d,
                                   !.srcLife = db.accts[s].life, !.dstLife = db.accts[d].life,
                                   !.told = {db.accts[s].owner, db.accts[d].owner}])
      BY <1>13 DEF StartTransfer
    <2> DEFINE told == {db.accts[s].owner, db.accts[d].owner}
               q    == [Idle EXCEPT !.op = "transfer", !.user = u, !.src = s, !.dst = d,
                                    !.srcLife = db.accts[s].life, !.dstLife = db.accts[d].life,
                                    !.told = told]
    <2>2. /\ told \in SUBSET Nat /\ u \in Nat /\ s \in Nat /\ d \in Nat
          /\ db.accts[s].life \in Nat /\ db.accts[d].life \in Nat
      BY <1>2
    <2> HIDE DEF told
    <2>3. Formed(q)
      BY <2>2, StartedFormed
    <2>4. Start(r, q)
      BY <2>1 DEF told
    <2> HIDE DEF q
    <2>5. QED BY <1>3, <2>3, <2>4
  <1>14. ASSUME NEW r \in Requests, Transfer(r) PROVE TypeInv'
    <2>1. {req[r].src, req[r].dst} \subseteq DOMAIN db.accts /\ Write(r, Transferred(db, req[r]))
      BY <1>14 DEF Transfer
    <2>2. Typed(Transferred(db, req[r]))
      BY <1>1, <1>6, <2>1, TransferredTyped
    <2>3. QED BY <1>5, <2>1, <2>2
  <1>15. ASSUME NEW r \in Requests, Ask(r) PROVE TypeInv'
    <2>1. Typed([db EXCEPT !.asks = @ \cup {req[r].user}])
      BY <1>1, <1>6, AskTyped
    <2>2. QED BY <1>5, <1>15, <2>1 DEF Ask
  <1>16. ASSUME NEW r \in Requests, Delete(r) PROVE TypeInv'
    <2>1. Typed(WithoutUser(db, req[r].user))
      BY <1>1, WithoutUserTyped
    <2>2. QED BY <1>5, <1>16, <2>1 DEF Delete
  <1>17. CASE UNCHANGED vars
    <2>1. db' = db /\ req' = req /\ alone' = alone
      BY <1>17 DEF vars
    <2>2. (\A s \in Requests : Formed(req[s]))'
      BY <1>1, <2>1 DEF Formed
    <2>3. QED BY <1>1, <2>1, <2>2 DEF TypeInv
  <1>18. QED
    BY <1>7, <1>8, <1>9, <1>10, <1>11, <1>12, <1>13, <1>14, <1>15, <1>16, <1>17 DEF Next, Rest

\* The types, in the form the other proofs use.
LEMMA TypeInvariance == Spec => []TypeInv
  BY InitTypes, NextTypes, PTL DEF Spec

\* However requests overlap and ids are given again, every column of every
\* table has its type, and the numbers of versions stay bounded naturals
\* (the models of User, Account, Transaction and EntityVersion).
THEOREM TypeCorrect == Spec => []TypeOK
  <1>1. TypeInv => TypeOK
    BY DEF TypeInv, Typed, Bounded, Formed, TypeOK
  <1>2. QED BY <1>1, TypeInvariance, PTL

-----------------------------------------------------------------------------
(* Histories                                                                *)

\* The versions of an entity are numbered 1, 2, 3, ... without a gap.
Numbered(rows) ==
    \E n \in Nat :
        /\ \A v \in rows : v.number \in 1 .. n
        /\ \A i \in 1 .. n : \E v \in rows : v.number = i
        /\ \A v, w \in rows : v.number = w.number => v = w

\* Every holder's versions begin with a CREATE that is later than everything
\* before it; `serial' asks that no version goes back to an earlier holder.
Begun(rows, serial) ==
    /\ \A v \in rows : \E w \in rows :
          w.type = "CREATE" /\ w.life = v.life /\ w.number <= v.number
    /\ \A v, w \in rows : v.type = "CREATE" /\ w.number < v.number => w.life < v.life
    /\ serial => \A v, w \in rows : w.number < v.number => w.life <= v.life

\* The columns of versions that the order is about are numbers.
Columns(rows) == \A v \in rows : v.number \in Nat /\ v.life \in Nat

\* Every history of the tables is in order.
Ordered(d, serial) ==
    \A kind \in Kinds, e \in Nat :
        Numbered(VersionsOf(d, kind, e)) /\ Begun(VersionsOf(d, kind, e), serial)

\* No version is of a holder that has not been born yet.
Born(d) == \A v \in d.hist : v.life <= d.born

\* The account is among the holders of its id with a history, and the last.
Current(d, a, serial) ==
    /\ \E v \in VersionsOf(d, "ACCOUNT", a) : v.life = d.accts[a].life
    /\ serial => \A v \in VersionsOf(d, "ACCOUNT", a) : v.life <= d.accts[a].life

\* What LivesInOrder needs of an image of the tables.
Historic(d, serial) ==
    Ordered(d, serial) /\ Born(d) /\ \A a \in DOMAIN d.accts : Current(d, a, serial)

\* The number that create_version gives after these versions.
NumberAfter(rows) == NextId({w.number : w \in rows})

\* After 1, ..., n comes n + 1.
LEMMA NextNumber ==
    ASSUME NEW n \in Nat, NEW ids, ids = 1 .. n
    PROVE  NextId(ids) = n + 1
  <1>1. CASE n = 0
    <2>1. ids = {}
      BY <1>1
    <2>2. QED BY <1>1, <2>1 DEF NextId
  <1>2. CASE n # 0
    <2>1. n \in ids /\ \A j \in ids : j \in Int /\ j <= n
      BY <1>2
    <2>2. ids # {}
      BY <2>1
    <2> DEFINE m == CHOOSE i \in ids : \A j \in ids : j <= i
    <2>3. m \in ids /\ \A j \in ids : j <= m
      BY <2>1
    <2>4. NextId(ids) = m + 1
      BY <2>2 DEF NextId
    <2> HIDE DEF m
    <2>5. m = n
      BY <2>1, <2>3
    <2>6. QED BY <2>4, <2>5
  <1>3. QED BY <1>1, <1>2

\* A history goes on in order with a version of the next number, if that
\* begins a new holder's history or continues the last one's.
LEMMA HistoryGrows ==
    ASSUME NEW serial \in BOOLEAN, NEW rows, Columns(rows), Numbered(rows), Begun(rows, serial),
           NEW v, v.number = NumberAfter(rows), v.life \in Nat,
           serial => \A w \in rows : w.life <= v.life,
           \/ v.type = "CREATE" /\ \A w \in rows : w.life < v.life
           \/ v.type # "CREATE" /\ \E w \in rows : w.life = v.life
    PROVE  Numbered(rows \cup {v}) /\ Begun(rows \cup {v}, serial)
  <1>1. PICK n \in Nat : /\ \A w \in rows : w.number \in 1 .. n
                         /\ \A i \in 1 .. n : \E w \in rows : w.number = i
                         /\ \A w, x \in rows : w.number = x.number => w = x
    BY DEF Numbered
  <1>2. v.number = n + 1
    <2> DEFINE ids == {w.number : w \in rows}
    <2>1. ids = 1 .. n
      BY <1>1
    <2> HIDE DEF ids
    <2>2. NextId(ids) = n + 1
      BY <2>1, NextNumber
    <2>3. QED BY <2>2 DEF ids, NumberAfter
  <1>3. \A w \in rows : w.number \in Nat /\ w.number < v.number /\ w.life \in Nat
    BY <1>1, <1>2 DEF Columns
  <1>4. Numbered(rows \cup {v})
    <2>1. \A w \in rows \cup {v} : w.number \in 1 .. (n + 1)
      BY <1>1, <1>2
    <2>2. \A i \in 1 .. (n + 1) : \E w \in rows \cup {v} : w.number = i
      BY <1>1, <1>2
    <2>3. \A w, x \in rows \cup {v} : w.number = x.number => w = x
      BY <1>1, <1>3
    <2>4. n + 1 \in Nat
      OBVIOUS
    <2>5. QED BY <2>1, <2>2, <2>3, <2>4 DEF Numbered
  <1>5. serial => \A x, w \in rows \cup {v} : w.number < x.number => w.life <= x.life
    BY <1>2, <1>3 DEF Begun
  <1>6. \A x \in rows \cup {v} : \E w \in rows \cup {v} :
           w.type = "CREATE" /\ w.life = x.life /\ w.number <= x.number
    <2>1. ASSUME NEW x \in rows
          PROVE  \E w \in rows : w.type = "CREATE" /\ w.life = x.life /\ w.number <= x.number
      BY DEF Begun
    <2>2. CASE v.type = "CREATE"
      <3>1. v.number <= v.number
        BY <1>2
      <3>2. QED BY <2>1, <2>2, <3>1
    <2>3. CASE v.type # "CREATE"
      <3>1. PICK x \in rows : x.life = v.life
        BY <2>3
      <3>2. PICK w \in rows : w.type = "CREATE" /\ w.life = x.life
        BY <2>1
      <3>3. w.number <= v.number
        BY <1>2, <1>3
      <3>4. QED BY <2>1, <3>1, <3>2, <3>3
    <2>4. QED BY <2>2, <2>3
  <1>7. \A x, w \in rows \cup {v} : x.type = "CREATE" /\ w.number < x.number => w.life < x.life
    BY <1>2, <1>3 DEF Begun
  <1>8. QED BY <1>4, <1>5, <1>6, <1>7 DEF Begun

\* Blanking changed_by leaves a history in order.
LEMMA HistoryBlanked ==
    ASSUME NEW serial \in BOOLEAN, NEW rows, rows \subseteq Version, NEW u, NEW some,
           \A w : w \in some <=> \E v \in rows : w = Blanked(v, u),
           Numbered(rows), Begun(rows, serial)
    PROVE  Numbered(some) /\ Begun(some, serial)
  <1>1. \A v \in rows : /\ Blanked(v, u) \in some
                        /\ Blanked(v, u).number = v.number /\ Blanked(v, u).life = v.life
                        /\ Blanked(v, u).type = v.type
    BY BlankedVersion
  <1>2. \A w \in some : \E v \in rows : w = Blanked(v, u)
    OBVIOUS
  <1>3. Numbered(some)
    <2>1. PICK n \in Nat : /\ \A v \in rows : v.number \in 1 .. n
                           /\ \A i \in 1 .. n : \E v \in rows : v.number = i
                           /\ \A v, w \in rows : v.number = w.number => v = w
      BY DEF Numbered
    <2>2. \A w \in some : w.number \in 1 .. n
      BY <1>1, <1>2, <2>1
    <2>3. \A i \in 1 .. n : \E w \in some : w.number = i
      BY <1>1, <2>1
    <2>4. \A w, x \in some : w.number = x.number => w = x
      BY <1>1, <1>2, <2>1
    <2>5. QED BY <2>2, <2>3, <2>4 DEF Numbered
  <1>4. serial => \A v, w \in some : w.number < v.number => w.life <= v.life
    BY <1>1, <1>2 DEF Begun
  <1>5. \A v \in some : \E w \in some :
           w.type = "CREATE" /\ w.life = v.life /\ w.number <= v.number
    BY <1>1, <1>2 DEF Begun
  <1>6. \A v, w \in some : v.type = "CREATE" /\ w.number < v.number => w.life < v.life
    BY <1>1, <1>2 DEF Begun
  <1>7. QED BY <1>3, <1>4, <1>5, <1>6 DEF Begun

\* In an orderly history a number counts the versions up to it.
LEMMA NumbersCount ==
    ASSUME NEW rows, Numbered(rows), NEW v \in rows
    PROVE  v.number = Cardinality({w \in rows : w.number <= v.number})
  <1>1. PICK n \in Nat : /\ \A w \in rows : w.number \in 1 .. n
                         /\ \A i \in 1 .. n : \E w \in rows : w.number = i
                         /\ \A w, x \in rows : w.number = x.number => w = x
    BY DEF Numbered
  <1> DEFINE k    == v.number
             upto == {w \in rows : w.number <= k}
             f    == [i \in 1 .. k |-> CHOOSE w \in rows : w.number = i]
  <1>2. k \in Nat /\ k <= n
    BY <1>1
  <1>3. \A i \in 1 .. k : f[i] \in rows /\ f[i].number = i
    <2>1. ASSUME NEW i \in 1 .. k PROVE f[i] \in rows /\ f[i].number = i
      <3>1. i \in 1 .. n
        BY <1>2
      <3>2. \E w \in rows : w.number = i
        BY <1>1, <3>1
      <3>3. QED BY <3>2
    <2>2. QED BY <2>1
  <1>4. f = [i \in 1 .. k |-> f[i]] /\ DOMAIN f = 1 .. k
    OBVIOUS
  <1> HIDE DEF f
  <1>5. f \in [1 .. k -> upto]
    <2>1. \A i \in 1 .. k : f[i] \in upto
      BY <1>2, <1>3
    <2>2. QED BY <1>4, <2>1
  <1>6. \A i, j \in 1 .. k : f[i] = f[j] => i = j
    BY <1>3
  <1>7. \A w \in upto : \E i \in 1 .. k : f[i] = w
    <2>1. ASSUME NEW w \in upto PROVE w.number \in 1 .. k /\ f[w.number] = w
      <3>1. w.number \in 1 .. k
        BY <1>1, <1>2
      <3>2. f[w.number] \in rows /\ f[w.number].number = w.number
        BY <1>3, <3>1
      <3>3. QED BY <1>1, <3>1, <3>2
    <2>2. QED BY <2>1
  <1> HIDE DEF upto, k
  <1>8. f \in Bijection(1 .. k, upto)
    BY <1>5, <1>6, <1>7 DEF Bijection, Injection, Surjection, IsInjective
  <1>9. ExistsBijection(1 .. k, upto)
    BY <1>8 DEF ExistsBijection
  <1>10. Cardinality(upto) = k
    BY <1>2, <1>9, FS_CountingElements
  <1>11. QED BY <1>10 DEF upto, k

\* The versions of one entity have the types of their columns.
LEMMA VersionColumns ==
    ASSUME NEW d, Typed(d), NEW kind, NEW e
    PROVE  VersionsOf(d, kind, e) \subseteq Version /\ Columns(VersionsOf(d, kind, e))
  <1>1. VersionsOf(d, kind, e) \subseteq Version
    BY DEF Typed, VersionsOf
  <1>2. \A v \in Version : v.number \in Nat /\ v.life \in Nat
    BY DEF Version
  <1>3. QED BY <1>1, <1>2 DEF Columns

\* What create_version does to the histories: one of them goes on.
LEMMA VersionAdded ==
    ASSUME NEW d, DOMAIN d = Tables, NEW kind, NEW e, NEW type, NEW life, NEW by,
           NEW n, n = WithVersion(d, kind, e, type, life, by),
           NEW v, v = VersionRow(d, kind, e, type, life, by)
    PROVE  /\ VersionsOf(n, kind, e) = VersionsOf(d, kind, e) \cup {v}
           /\ \A k, f : k # kind \/ f # e => VersionsOf(n, k, f) = VersionsOf(d, k, f)
           /\ v.number = NumberAfter(VersionsOf(d, kind, e))
           /\ v.type = type /\ v.life = life /\ v.by = by
           /\ n.hist = d.hist \cup {v}
  <1>1. n.hist = d.hist \cup {v}
    BY WithVersionImage
  <1>2. /\ v.kind = kind /\ v.entity = e /\ v.type = type /\ v.life = life /\ v.by = by
        /\ v.number = NumberAfter(VersionsOf(d, kind, e))
    BY DEF VersionRow, NumberAfter
  <1>3. /\ VersionsOf(n, kind, e) = VersionsOf(d, kind, e) \cup {v}
        /\ \A k, f : k # kind \/ f # e => VersionsOf(n, k, f) = VersionsOf(d, k, f)
    BY <1>1, <1>2 DEF VersionsOf
  <1>4. QED BY <1>1, <1>2, <1>3

\* The same, with the new version as some version.
LEMMA VersionOf ==
    ASSUME NEW d, DOMAIN d = Tables, NEW kind, NEW e, NEW type, NEW life, NEW by,
           NEW n, n = WithVersion(d, kind, e, type, life, by)
    PROVE  /\ \E v : v.life = life /\ VersionsOf(n, kind, e) = VersionsOf(d, kind, e) \cup {v}
           /\ \A k, f : k # kind \/ f # e => VersionsOf(n, k, f) = VersionsOf(d, k, f)
  <1>1. PICK v : v = VersionRow(d, kind, e, type, life, by)
    OBVIOUS
  <1>2. /\ v.life = life /\ VersionsOf(n, kind, e) = VersionsOf(d, kind, e) \cup {v}
        /\ \A k, f : k # kind \/ f # e => VersionsOf(n, k, f) = VersionsOf(d, k, f)
    BY <1>1, VersionAdded
  <1>3. QED BY <1>2

\* create_version keeps every history in order.
LEMMA WithVersionOrdered ==
    ASSUME NEW serial \in BOOLEAN, NEW d, Typed(d), Ordered(d, serial), Born(d),
           NEW kind \in Kinds, NEW e \in Nat, NEW type \in Changes, NEW life \in Nat, NEW by \in Nat,
           life <= d.born,
           serial => \A w \in VersionsOf(d, kind, e) : w.life <= life,
           \/ type = "CREATE" /\ \A w \in VersionsOf(d, kind, e) : w.life < life
           \/ type = "UPDATE" /\ \E w \in VersionsOf(d, kind, e) : w.life = life
    PROVE  Ordered(WithVersion(d, kind, e, type, life, by), serial)
           /\ Born(WithVersion(d, kind, e, type, life, by))
  <1> PICK n : n = WithVersion(d, kind, e, type, life, by)
    OBVIOUS
  <1> PICK v : v = VersionRow(d, kind, e, type, life, by)
    OBVIOUS
  <1>1. DOMAIN d = Tables
    BY DEF Typed
  <1>2. /\ VersionsOf(n, kind, e) = VersionsOf(d, kind, e) \cup {v}
        /\ \A k, f : k # kind \/ f # e => VersionsOf(n, k, f) = VersionsOf(d, k, f)
        /\ v.number = NumberAfter(VersionsOf(d, kind, e))
        /\ v.type = type /\ v.life = life
        /\ n.hist = d.hist \cup {v}
    BY <1>1, VersionAdded
  <1>3. n.born = d.born
    BY <1>1, WithVersionImage
  <1>4. Numbered(VersionsOf(n, kind, e)) /\ Begun(VersionsOf(n, kind, e), serial)
    <2> PICK rows : rows = VersionsOf(d, kind, e)
      OBVIOUS
    <2>1. Columns(rows) /\ Numbered(rows) /\ Begun(rows, serial)
      BY VersionColumns DEF Ordered
    <2>2. VersionsOf(n, kind, e) = rows \cup {v}
      BY <1>2
    <2>3. Numbered(rows \cup {v}) /\ Begun(rows \cup {v}, serial)
      BY <1>2, <2>1, HistoryGrows
    <2>4. QED BY <2>2, <2>3
  <1>5. Ordered(n, serial)
    <2>1. ASSUME NEW k \in Kinds, NEW f \in Nat
          PROVE  Numbered(VersionsOf(n, k, f)) /\ Begun(VersionsOf(n, k, f), serial)
      <3>1. CASE k = kind /\ f = e
        BY <1>4, <3>1
      <3>2. CASE ~(k = kind /\ f = e)
        <4>1. VersionsOf(n, k, f) = VersionsOf(d, k, f)
          BY <1>2, <3>2
        <4>2. QED BY <4>1 DEF Ordered
      <3>3. QED BY <3>1, <3>2
    <2>2. QED BY <2>1 DEF Ordered
  <1>6. Born(n)
    BY <1>2, <1>3 DEF Born
  <1>7. QED BY <1>5, <1>6

\* create_account begins the history of a new holder of the id.
LEMMA WithAccountHistoric ==
    ASSUME NEW serial \in BOOLEAN, NEW d, Typed(d), Historic(d, serial), NEW u \in Nat, NEW default \in BOOLEAN,
           NEW n, n = WithAccount(d, u, default)
    PROVE  Historic(n, serial) /\ d.hist \subseteq n.hist
  <1> DEFINE a   == NextId(DOMAIN d.accts)
             row == [owner |-> u, life |-> d.born + 1, default |-> default]
             m   == WithAccountRow(d, u, default)
             x   == d.born + 1
  <1>1. /\ DOMAIN m = Tables /\ m.hist = d.hist /\ m.born = x
        /\ m.accts = Put(d.accts, a, row)
        /\ n = WithVersion(m, "ACCOUNT", a, "CREATE", x, u)
    BY AccountRowImage DEF Typed
  <1>2. a \notin DOMAIN d.accts /\ a \in Nat
    BY NextIdFree, NextIdNumber DEF Typed
  <1>3. d.born \in Nat /\ x \in Nat /\ d.born < x
    BY DEF Typed
  <1>4. row.life = x
    OBVIOUS
  <1>5. Typed(m)
    BY WithAccountTyped
  <1> HIDE DEF a, row, x, m
  <1>6. /\ DOMAIN m.accts = DOMAIN d.accts \cup {a} /\ m.accts[a] = row
        /\ \A b \in DOMAIN d.accts : m.accts[b] = d.accts[b]
    BY <1>1, <1>2 DEF Put
  <1>7. \A kind, e : VersionsOf(m, kind, e) = VersionsOf(d, kind, e)
    BY <1>1 DEF VersionsOf
  <1>8. \A v \in d.hist : v.life \in Nat /\ v.life <= d.born
    BY DEF Historic, Born, Typed, Version
  <1>9. \A v \in VersionsOf(m, "ACCOUNT", a) : v.life <= x /\ v.life < x
    <2>1. ASSUME NEW v \in VersionsOf(m, "ACCOUNT", a) PROVE v.life <= x /\ v.life < x
      <3>1. v \in d.hist
        BY <1>7 DEF VersionsOf
      <3>2. QED BY <1>3, <1>8, <3>1
    <2>2. QED BY <2>1
  <1>10. Ordered(m, serial)
    BY <1>7 DEF Historic, Ordered
  <1>11. Born(m)
    BY <1>1, <1>3, <1>8 DEF Born
  <1>12. Ordered(n, serial) /\ Born(n)
    <2>1. x <= m.born
      BY <1>1, <1>3
    <2>2. "ACCOUNT" \in Kinds /\ "CREATE" \in Changes
      BY DEF Kinds, Changes
    <2>3. QED BY <1>1, <1>2, <1>3, <1>5, <1>9, <1>10, <1>11, <2>1, <2>2, WithVersionOrdered
  <1>13. /\ n.accts = m.accts
         /\ \E v : v.life = x /\ VersionsOf(n, "ACCOUNT", a) = VersionsOf(m, "ACCOUNT", a) \cup {v}
         /\ \A f : f # a => VersionsOf(n, "ACCOUNT", f) = VersionsOf(m, "ACCOUNT", f)
    <2>1. n.accts = m.accts
      BY <1>1, WithVersionImage
    <2>2. QED BY <1>1, <2>1, VersionOf
  <1>14. ASSUME NEW b \in DOMAIN n.accts PROVE Current(n, b, serial)
    <2> PICK v : v.life = x /\ VersionsOf(n, "ACCOUNT", a) = VersionsOf(m, "ACCOUNT", a) \cup {v}
      BY <1>13
    <2>1. CASE b = a
      <3>1. VersionsOf(n, "ACCOUNT", b) = VersionsOf(m, "ACCOUNT", a) \cup {v}
        BY <2>1
      <3>2. n.accts[b].life = x
        BY <1>4, <1>6, <1>13, <2>1
      <3>3. x <= x
        BY <1>3
      <3>4. QED BY <1>9, <3>1, <3>2, <3>3 DEF Current
    <2>2. CASE b # a
      <3>1. VersionsOf(n, "ACCOUNT", b) = VersionsOf(d, "ACCOUNT", b)
        BY <1>7, <1>13, <2>2
      <3>2. b \in DOMAIN d.accts /\ n.accts[b] = d.accts[b]
        BY <1>6, <1>13, <2>2
      <3>3. Current(d, b, serial)
        BY <3>2 DEF Historic
      <3>4. QED BY <3>1, <3>2, <3>3 DEF Current
    <2>3. QED BY <2>1, <2>2
  <1>15. Historic(n, serial)
    BY <1>12, <1>14 DEF Historic
  <1>16. d.hist \subseteq n.hist
    BY <1>1, WithVersionImage
  <1>17. QED BY <1>15, <1>16

\* A new user's history begins with the user.
LEMMA WithUserHistoric ==
    ASSUME NEW serial \in BOOLEAN, NEW d, Typed(d), Historic(d, serial), NEW name \in Names, NEW role \in Roles,
           NEW n, n = WithUser(d, name, role)
    PROVE  Historic(n, serial) /\ d.hist \subseteq n.hist
  <1> DEFINE u   == NextId(DOMAIN d.users)
             row == [name |-> name, role |-> role, life |-> d.born + 1]
             m   == WithUserRow(d, name, role)
             x   == d.born + 1
  <1>1. /\ DOMAIN m = Tables /\ m.accts = d.accts /\ m.txn = d.txn /\ m.hist = d.hist
        /\ m.asks = d.asks /\ m.born = x /\ m.inbox = d.inbox
        /\ m.users = Put(d.users, u, row)
        /\ n = WithVersion(m, "USER_PROFILE", u, "CREATE", x, u)
    BY UserRowImage DEF Typed
  <1>2. u \in Nat
    BY NextIdNumber DEF Typed
  <1>3. d.born \in Nat /\ x \in Nat /\ d.born < x
    BY DEF Typed
  <1>4. Typed(m)
    BY WithUserTyped
  <1> HIDE DEF u, row, x, m
  <1>5. \A kind, e : VersionsOf(m, kind, e) = VersionsOf(d, kind, e)
    BY <1>1 DEF VersionsOf
  <1>6. \A v \in d.hist : v.life \in Nat /\ v.life <= d.born
    BY DEF Historic, Born, Typed, Version
  <1>7. \A v \in VersionsOf(m, "USER_PROFILE", u) : v.life <= x /\ v.life < x
    BY <1>3, <1>5, <1>6 DEF VersionsOf
  <1>8. Ordered(m, serial)
    BY <1>5 DEF Historic, Ordered
  <1>9. Born(m)
    BY <1>1, <1>3, <1>6 DEF Born
  <1>10. Ordered(n, serial) /\ Born(n)
    <2>1. x <= m.born
      BY <1>1, <1>3
    <2>2. "USER_PROFILE" \in Kinds /\ "CREATE" \in Changes
      BY DEF Kinds, Changes
    <2>3. QED BY <1>1, <1>2, <1>3, <1>4, <1>7, <1>8, <1>9, <2>1, <2>2, WithVersionOrdered
  <1>11. n.accts = d.accts
    BY <1>1, WithVersionImage
  <1>12. \A f : VersionsOf(n, "ACCOUNT", f) = VersionsOf(d, "ACCOUNT", f)
    <2>1. \A f : VersionsOf(n, "ACCOUNT", f) = VersionsOf(m, "ACCOUNT", f)
      BY <1>1, VersionOf
    <2>2. QED BY <1>5, <2>1
  <1>13. \A a \in DOMAIN n.accts : Current(n, a, serial)
    BY <1>11, <1>12 DEF Historic, Current
  <1>14. d.hist \subseteq n.hist
    BY <1>1, WithVersionImage
  <1>15. QED BY <1>10, <1>13, <1>14 DEF Historic

\* A registration keeps the histories in order.
LEMMA RegisteredHistoric ==
    ASSUME NEW serial \in BOOLEAN, NEW d, Typed(d), Historic(d, serial), NEW name \in Names, NEW role \in Roles
    PROVE  /\ Historic(Registered(d, name, role), serial)
           /\ d.hist \subseteq Registered(d, name, role).hist
  <1> DEFINE u == NextId(DOMAIN d.users)
             m == WithUser(d, name, role)
             n == WithAccount(m, u, TRUE)
  <1>1. Typed(m) /\ Historic(m, serial) /\ d.hist \subseteq m.hist
    BY WithUserTyped, WithUserHistoric
  <1>2. u \in Nat
    BY NextIdNumber DEF Typed
  <1>3. Registered(d, name, role) = IF role = "customer" THEN n ELSE m
    BY DEF Registered
  <1> HIDE DEF m, u
  <1>4. Historic(n, serial) /\ m.hist \subseteq n.hist
    BY <1>1, <1>2, WithAccountHistoric
  <1> HIDE DEF n
  <1>5. QED BY <1>1, <1>3, <1>4

\* A version of a holder with a history continues it.
LEMMA AccountUpdated ==
    ASSUME NEW serial \in BOOLEAN, NEW d, Typed(d), Historic(d, serial),
           NEW a \in Nat, NEW by \in Nat, NEW x \in Nat,
           \E w \in VersionsOf(d, "ACCOUNT", a) : w.life = x,
           serial => a \in DOMAIN d.accts /\ d.accts[a].life = x,
           NEW n, n = WithVersion(d, "ACCOUNT", a, "UPDATE", x, by)
    PROVE  Historic(n, serial)
  <1>0. DOMAIN d = Tables
    BY DEF Typed
  <1>2. serial => \A w \in VersionsOf(d, "ACCOUNT", a) : w.life <= x
    BY DEF Historic, Current
  <1>3. x <= d.born
    BY DEF Historic, Born, VersionsOf
  <1>4. n.accts = d.accts
    BY <1>0, WithVersionImage
  <1>5. /\ \E v : v.life = x /\ VersionsOf(n, "ACCOUNT", a) = VersionsOf(d, "ACCOUNT", a) \cup {v}
        /\ \A f : f # a => VersionsOf(n, "ACCOUNT", f) = VersionsOf(d, "ACCOUNT", f)
    BY <1>0, VersionOf
  <1>6. Ordered(n, serial) /\ Born(n)
    BY <1>2, <1>3, WithVersionOrdered DEF Historic, Kinds, Changes
  <1>7. ASSUME NEW b \in DOMAIN n.accts PROVE Current(n, b, serial)
    <2>1. Current(d, b, serial)
      BY <1>4 DEF Historic
    <2>2. CASE b = a
      <3>1. PICK v : v.life = x /\ VersionsOf(n, "ACCOUNT", b) = VersionsOf(d, "ACCOUNT", b) \cup {v}
        BY <1>5, <2>2
      <3>2. serial => n.accts[b].life = x /\ x <= x
        BY <1>4, <2>2
      <3>3. QED BY <1>2, <1>4, <2>1, <2>2, <3>1, <3>2 DEF Current
    <2>3. CASE b # a
      <3>1. VersionsOf(n, "ACCOUNT", b) = VersionsOf(d, "ACCOUNT", b)
        BY <1>5, <2>3
      <3>2. QED BY <1>4, <2>1, <3>1 DEF Current
    <2>4. QED BY <2>2, <2>3
  <1>8. QED BY <1>6, <1>7 DEF Historic

\* The lives that a transfer has loaded have histories, and are those of the
\* accounts when the transfer is alone.
Loaded(d, q, serial) ==
    /\ \E v \in VersionsOf(d, "ACCOUNT", q.src) : v.life = q.srcLife
    /\ \E v \in VersionsOf(d, "ACCOUNT", q.dst) : v.life = q.dstLife
    /\ serial => /\ q.src \in DOMAIN d.accts => d.accts[q.src].life = q.srcLife
                 /\ q.dst \in DOMAIN d.accts => d.accts[q.dst].life = q.dstLife

\* A transfer continues the histories of the two accounts it has loaded.
LEMMA TransferredHistoric ==
    ASSUME NEW serial \in BOOLEAN, NEW d, Typed(d), Historic(d, serial), NEW q \in Request,
           {q.src, q.dst} \subseteq DOMAIN d.accts, Loaded(d, q, serial)
    PROVE  Historic(Transferred(d, q), serial) /\ d.hist \subseteq Transferred(d, q).hist
  <1> DEFINE x    == q.srcLife
             y    == q.dstLife
             m    == WithTransferRows(d, q)
             sent == WithVersion(m, "ACCOUNT", q.src, "UPDATE", x, q.user)
             n    == Transferred(d, q)
             k    == NextId({t.id : t \in d.txn})
             out  == [id |-> k, account |-> q.src, counterparty |-> q.dst]
             in   == [id |-> k + 1, account |-> q.dst, counterparty |-> q.src]
  <1>1. /\ DOMAIN m = Tables /\ m.users = d.users /\ m.accts = d.accts /\ m.hist = d.hist
        /\ m.asks = d.asks /\ m.born = d.born /\ m.inbox = d.inbox \cup q.told
        /\ m.txn = d.txn \cup {out, in}
        /\ n = WithVersion(sent, "ACCOUNT", q.dst, "UPDATE", y, q.user)
    <2>1. DOMAIN d = Tables
      BY DEF Typed
    <2>2. QED BY <2>1, TransferRowsImage
  <1>2. Typed(m) /\ Typed(sent)
    BY TransferredTyped
  <1>3. /\ q.user \in Nat /\ q.src \in DOMAIN d.accts /\ q.dst \in DOMAIN d.accts
        /\ q.src \in Nat /\ q.dst \in Nat /\ x \in Nat /\ y \in Nat
    BY DEF Request
  <1> HIDE DEF m, n, x, y, out, in
  <1>4. \A kind, e : VersionsOf(m, kind, e) = VersionsOf(d, kind, e)
    BY <1>1 DEF VersionsOf
  <1>5. Historic(m, serial)
    <2>1. Ordered(m, serial)
      BY <1>4 DEF Historic, Ordered
    <2>2. Born(m)
      BY <1>1 DEF Historic, Born
    <2>3. \A a \in DOMAIN m.accts : Current(m, a, serial)
      BY <1>1, <1>4 DEF Historic, Current
    <2>4. QED BY <2>1, <2>2, <2>3 DEF Historic
  <1>6. /\ \E w \in VersionsOf(m, "ACCOUNT", q.src) : w.life = x
        /\ serial => q.src \in DOMAIN m.accts /\ m.accts[q.src].life = x
    BY <1>1, <1>3, <1>4 DEF Loaded, x
  <1>7. Historic(sent, serial)
    <2> PICK s : s = sent
      OBVIOUS
    <2>1. s = WithVersion(m, "ACCOUNT", q.src, "UPDATE", x, q.user)
      OBVIOUS
    <2> HIDE DEF sent
    <2>2. QED BY <1>2, <1>3, <1>5, <1>6, <2>1, AccountUpdated
  <1>8. sent.accts = d.accts
    BY <1>1, WithVersionImage
  <1>13. DOMAIN sent = Tables /\ d.hist \subseteq sent.hist
    BY <1>1, WithVersionImage
  <1> HIDE DEF sent
  <1>9. \A v \in VersionsOf(d, "ACCOUNT", q.dst) : v \in VersionsOf(sent, "ACCOUNT", q.dst)
    BY <1>13 DEF VersionsOf
  <1>10. /\ \E w \in VersionsOf(sent, "ACCOUNT", q.dst) : w.life = y
         /\ serial => q.dst \in DOMAIN sent.accts /\ sent.accts[q.dst].life = y
    BY <1>3, <1>8, <1>9 DEF Loaded, y
  <1>11. Historic(n, serial)
    BY <1>1, <1>2, <1>3, <1>7, <1>10, AccountUpdated
  <1>12. d.hist \subseteq n.hist
    BY <1>1, <1>13, WithVersionImage
  <1>14. QED BY <1>11, <1>12 DEF n

\* A deletion leaves every history in order, also those of what it deletes.
LEMMA WithoutUserHistoric ==
    ASSUME NEW serial \in BOOLEAN, NEW d, Typed(d), Historic(d, serial), NEW u
    PROVE  Historic(WithoutUser(d, u), serial)
  <1> DEFINE n    == WithoutUser(d, u)
             gone == OwnedBy(d, u)
  <1>1. /\ n.accts = Keep(d.accts, DOMAIN d.accts \ gone)
        /\ n.born = d.born
        /\ \A w : w \in n.hist <=> \E v \in d.hist : w = Blanked(v, u)
    <2>1. DOMAIN d = Tables
      BY DEF Typed
    <2>2. QED BY <2>1, WithoutUserImage
  <1> HIDE DEF n, gone
  <1>2. \A a \in DOMAIN n.accts : a \in DOMAIN d.accts /\ n.accts[a] = d.accts[a]
    BY <1>1 DEF Keep
  <1>3. \A v \in d.hist : /\ v \in Version /\ Blanked(v, u).kind = v.kind
                          /\ Blanked(v, u).entity = v.entity /\ Blanked(v, u).life = v.life
    BY BlankedVersion DEF Typed
  <1>4. ASSUME NEW kind, NEW e
        PROVE  \A w : w \in VersionsOf(n, kind, e) <=>
                         \E v \in VersionsOf(d, kind, e) : w = Blanked(v, u)
    BY <1>1, <1>3 DEF VersionsOf
  <1>5. Ordered(n, serial)
    <2>1. ASSUME NEW kind \in Kinds, NEW e \in Nat
          PROVE  Numbered(VersionsOf(n, kind, e)) /\ Begun(VersionsOf(n, kind, e), serial)
      <3>1. VersionsOf(d, kind, e) \subseteq Version
        BY VersionColumns
      <3>2. Numbered(VersionsOf(d, kind, e)) /\ Begun(VersionsOf(d, kind, e), serial)
        BY DEF Historic, Ordered
      <3>3. QED BY <1>4, <3>1, <3>2, HistoryBlanked
    <2>2. QED BY <2>1 DEF Ordered
  <1>6. Born(n)
    BY <1>1, <1>3 DEF Historic, Born
  <1>7. ASSUME NEW a \in DOMAIN n.accts PROVE Current(n, a, serial)
    <2>1. Current(d, a, serial)
      BY <1>2 DEF Historic
    <2>2. \A v \in VersionsOf(d, "ACCOUNT", a) : Blanked(v, u).life = v.life
      BY <1>3 DEF VersionsOf
    <2>3. serial => \A v \in VersionsOf(n, "ACCOUNT", a) : v.life <= n.accts[a].life
      BY <1>2, <1>4, <2>1, <2>2 DEF Current
    <2>4. \E v \in VersionsOf(n, "ACCOUNT", a) : v.life = n.accts[a].life
      BY <1>2, <1>4, <2>1, <2>2 DEF Current
    <2>5. QED BY <2>3, <2>4 DEF Current
  <1>8. QED BY <1>5, <1>6, <1>7 DEF Historic, n

-----------------------------------------------------------------------------
(* One request after the other                                              *)

\* Whatever belongs to a user belongs to one who exists.
Belongs(d) ==
    /\ \A a \in DOMAIN d.accts : d.accts[a].owner \in DOMAIN d.users
    /\ d.inbox \subseteq DOMAIN d.users
    /\ d.asks \subseteq DOMAIN d.users
    /\ \A v \in d.hist : v.by # 0 => v.by \in DOMAIN d.users

\* The users whom a request has looked up exist.
Knows(d, q) ==
    /\ q.op \notin {"none", "register"} => q.user \in DOMAIN d.users
    /\ q.told \subseteq DOMAIN d.users

\* Of two requests one is idle.
Single == \A r, s \in Requests : req[r] # Idle /\ req[s] # Idle => r = s

AloneInv ==
    alone => Single /\ (\A r \in Requests : Knows(db, req[r])) /\ Belongs(db)

\* create_version names who made the change.
LEMMA VersionBelongs ==
    ASSUME NEW d, DOMAIN d = Tables, Belongs(d), NEW kind, NEW e, NEW type, NEW life,
           NEW by \in DOMAIN d.users
    PROVE  Belongs(WithVersion(d, kind, e, type, life, by))
  <1> PICK n : n = WithVersion(d, kind, e, type, life, by)
    OBVIOUS
  <1> PICK v : v = VersionRow(d, kind, e, type, life, by)
    OBVIOUS
  <1>1. /\ n.users = d.users /\ n.accts = d.accts /\ n.inbox = d.inbox /\ n.asks = d.asks
        /\ n.hist = d.hist \cup {v}
    BY WithVersionImage
  <1>2. v.by = by
    BY VersionAdded
  <1>3. \A w \in n.hist : w.by # 0 => w.by \in DOMAIN n.users
    BY <1>1, <1>2 DEF Belongs
  <1>4. Belongs(n)
    BY <1>1, <1>3 DEF Belongs
  <1>5. QED BY <1>4

\* create_account for a user who exists.
LEMMA AccountBelongs ==
    ASSUME NEW d, Typed(d), Belongs(d), NEW u \in DOMAIN d.users, NEW default \in BOOLEAN,
           NEW n, n = WithAccount(d, u, default)
    PROVE  Belongs(n)
  <1> DEFINE a   == NextId(DOMAIN d.accts)
             row == [owner |-> u, life |-> d.born + 1, default |-> default]
             m   == WithAccountRow(d, u, default)
  <1>1. /\ DOMAIN m = Tables /\ m.users = d.users /\ m.txn = d.txn /\ m.hist = d.hist
        /\ m.asks = d.asks /\ m.born = d.born + 1 /\ m.inbox = d.inbox \cup {u}
        /\ m.accts = Put(d.accts, a, row)
        /\ n = WithVersion(m, "ACCOUNT", a, "CREATE", d.born + 1, u)
    BY AccountRowImage DEF Typed
  <1>2. a \notin DOMAIN d.accts
    BY NextIdFree DEF Typed
  <1>3. row.owner = u
    OBVIOUS
  <1> HIDE DEF a, row, m
  <1>4. /\ DOMAIN m.accts = DOMAIN d.accts \cup {a} /\ m.accts[a] = row
        /\ \A b \in DOMAIN d.accts : m.accts[b] = d.accts[b]
    BY <1>1, <1>2 DEF Put
  <1>5. \A b \in DOMAIN m.accts : m.accts[b].owner \in DOMAIN m.users
    BY <1>1, <1>3, <1>4 DEF Belongs
  <1>6. Belongs(m)
    BY <1>1, <1>5 DEF Belongs
  <1>7. u \in DOMAIN m.users
    BY <1>1
  <1>8. QED BY <1>1, <1>6, <1>7, VersionBelongs

\* A new user makes the first version of themselves.
LEMMA UserBelongs ==
    ASSUME NEW d, Typed(d), Belongs(d), NEW name \in Names, NEW role \in Roles,
           NEW n, n = WithUser(d, name, role)
    PROVE  Belongs(n) /\ NextId(DOMAIN d.users) \in DOMAIN n.users
  <1> DEFINE u   == NextId(DOMAIN d.users)
             row == [name |-> name, role |-> role, life |-> d.born + 1]
             m   == WithUserRow(d, name, role)
  <1>1. /\ DOMAIN m = Tables /\ m.accts = d.accts /\ m.txn = d.txn /\ m.hist = d.hist
        /\ m.asks = d.asks /\ m.born = d.born + 1 /\ m.inbox = d.inbox
        /\ m.users = Put(d.users, u, row)
        /\ n = WithVersion(m, "USER_PROFILE", u, "CREATE", d.born + 1, u)
    BY UserRowImage DEF Typed
  <1> HIDE DEF u, row, m
  <1>2. DOMAIN m.users = DOMAIN d.users \cup {u}
    BY <1>1 DEF Put
  <1>3. Belongs(m)
    BY <1>1, <1>2 DEF Belongs
  <1>4. u \in DOMAIN m.users
    BY <1>2
  <1>5. Belongs(n)
    BY <1>1, <1>3, <1>4, VersionBelongs
  <1>6. n.users = m.users
    BY <1>1, WithVersionImage
  <1>7. QED BY <1>4, <1>5, <1>6 DEF u

\* A registration opens the account for the user it stores.
LEMMA RegisteredBelongs ==
    ASSUME NEW d, Typed(d), Belongs(d), NEW name \in Names, NEW role \in Roles
    PROVE  Belongs(Registered(d, name, role))
  <1> DEFINE u == NextId(DOMAIN d.users)
             m == WithUser(d, name, role)
             n == WithAccount(m, u, TRUE)
  <1>1. Typed(m) /\ Belongs(m) /\ u \in DOMAIN m.users
    BY WithUserTyped, UserBelongs
  <1>2. Registered(d, name, role) = IF role = "customer" THEN n ELSE m
    BY DEF Registered
  <1> HIDE DEF m, u
  <1>3. Belongs(n)
    BY <1>1, AccountBelongs
  <1> HIDE DEF n
  <1>4. QED BY <1>1, <1>2, <1>3

\* A transfer by a user who exists tells users who exist.
LEMMA TransferBelongs ==
    ASSUME NEW d, Typed(d), Belongs(d), NEW q \in Request,
           q.user \in DOMAIN d.users, q.told \subseteq DOMAIN d.users
    PROVE  Belongs(Transferred(d, q))
  <1> DEFINE x    == q.srcLife
             y    == q.dstLife
             m    == WithTransferRows(d, q)
             sent == WithVersion(m, "ACCOUNT", q.src, "UPDATE", x, q.user)
             n    == Transferred(d, q)
             k    == NextId({t.id : t \in d.txn})
             out  == [id |-> k, account |-> q.src, counterparty |-> q.dst]
             in   == [id |-> k + 1, account |-> q.dst, counterparty |-> q.src]
  <1>1. /\ DOMAIN m = Tables /\ m.users = d.users /\ m.accts = d.accts /\ m.hist = d.hist
        /\ m.asks = d.asks /\ m.born = d.born /\ m.inbox = d.inbox \cup q.told
        /\ m.txn = d.txn \cup {out, in}
        /\ n = WithVersion(sent, "ACCOUNT", q.dst, "UPDATE", y, q.user)
    <2>1. DOMAIN d = Tables
      BY DEF Typed
    <2>2. QED BY <2>1, TransferRowsImage
  <1> HIDE DEF x, y, m, n, k, out, in
  <1>2. Belongs(m) /\ q.user \in DOMAIN m.users
    BY <1>1 DEF Belongs
  <1>3. DOMAIN sent = Tables /\ sent.users = m.users
    BY <1>1, WithVersionImage
  <1>4. Belongs(sent) /\ q.user \in DOMAIN sent.users
    BY <1>1, <1>2, <1>3, VersionBelongs
  <1> HIDE DEF sent
  <1>5. Belongs(n)
    BY <1>1, <1>3, <1>4, VersionBelongs
  <1>6. QED BY <1>5 DEF n

\* A deletion takes everything of the user along, when no rollback request is
\* in the way.
LEMMA WithoutUserBelongs ==
    ASSUME NEW d, Typed(d), Belongs(d), NEW u, u \notin d.asks
    PROVE  Belongs(WithoutUser(d, u))
  <1> DEFINE n    == WithoutUser(d, u)
             gone == OwnedBy(d, u)
  <1>1. /\ n.users = Keep(d.users, DOMAIN d.users \ {u})
        /\ n.accts = Keep(d.accts, DOMAIN d.accts \ gone)
        /\ n.inbox = d.inbox \ {u} /\ n.asks = d.asks
        /\ \A w : w \in n.hist <=> \E v \in d.hist : w = Blanked(v, u)
    <2>1. DOMAIN d = Tables
      BY DEF Typed
    <2>2. QED BY <2>1, WithoutUserImage
  <1> HIDE DEF n
  <1>2. /\ DOMAIN n.users = DOMAIN d.users \ {u}
        /\ DOMAIN n.accts = DOMAIN d.accts \ gone
        /\ \A a \in DOMAIN n.accts : n.accts[a] = d.accts[a]
    BY <1>1 DEF Keep
  <1>3. \A a \in DOMAIN n.accts : n.accts[a].owner \in DOMAIN n.users
    BY <1>2 DEF Belongs, OwnedBy
  <1>4. \A v \in d.hist : v \in Version /\ Blanked(v, u).by = IF v.by = u THEN 0 ELSE v.by
    BY BlankedVersion DEF Typed
  <1>5. ASSUME NEW w \in n.hist, w.by # 0 PROVE w.by \in DOMAIN n.users
    <2>1. PICK v \in d.hist : w = Blanked(v, u)
      BY <1>1, <1>5
    <2>2. w.by = v.by /\ v.by # u
      BY <1>4, <1>5, <2>1
    <2>3. QED BY <1>2, <1>5, <2>2 DEF Belongs
  <1>6. n.inbox \subseteq DOMAIN n.users /\ n.asks \subseteq DOMAIN n.users
    BY <1>1, <1>2 DEF Belongs
  <1>7. QED BY <1>3, <1>5, <1>6 DEF Belongs, n

\* One request moves, the others are idle.
LEMMA OneMoves ==
    ASSUME DOMAIN req = Requests, NEW r \in Requests, NEW q,
           req' = [req EXCEPT ![r] = q], alone' \in BOOLEAN,
           alone' => /\ \A s \in Requests : s # r => req[s] = Idle
                     /\ Knows(db', q)
                     /\ Belongs(db')
    PROVE  AloneInv'
  <1> SUFFICES ASSUME alone' PROVE (Single /\ (\A s \in Requests : Knows(db, req[s])) /\ Belongs(db))'
    BY DEF AloneInv
  <1>1. (\A s \in Requests : s # r => req'[s] = Idle) /\ req'[r] = q
    OBVIOUS
  <1>2. Single'
    BY <1>1 DEF Single
  <1>3. ASSUME NEW s \in Requests PROVE Knows(db, req[s])'
    <2>1. CASE s = r
      <3>1. Knows(db', q) /\ req'[s] = q
        BY <1>1, <2>1
      <3>2. QED BY <3>1 DEF Knows
    <2>2. CASE s # r
      <3>1. req'[s] = Idle
        BY <1>1, <2>2
      <3>2. Idle.op = "none" /\ Idle.told = {}
        BY DEF Idle
      <3>3. QED BY <3>1, <3>2 DEF Knows
    <2>3. QED BY <2>1, <2>2
  <1>4. Belongs(db)'
    BY DEF Belongs
  <1>5. QED BY <1>2, <1>3, <1>4

\* Nothing is there at first.
LEMMA InitAlone == Init => AloneInv
  <1> SUFFICES ASSUME Init PROVE AloneInv
    OBVIOUS
  <1>1. /\ DOMAIN db.accts = {} /\ db.hist = {} /\ db.inbox = {} /\ db.asks = {}
        /\ \A r \in Requests : req[r] = Idle
    BY DEF Init
  <1>2. Belongs(db) /\ Single
    BY <1>1 DEF Belongs, Single
  <1>3. \A r \in Requests : Knows(db, req[r])
    <2>1. Idle.op = "none" /\ Idle.told = {}
      BY DEF Idle
    <2>2. QED BY <1>1, <2>1 DEF Knows
  <1>4. QED BY <1>2, <1>3 DEF AloneInv

\* Every step keeps the invariant.
LEMMA NextAlone ==
    ASSUME TypeInv, AloneInv, [Next]_vars
    PROVE  AloneInv'
  <1>1. /\ Typed(db) /\ DOMAIN req = Requests /\ alone \in BOOLEAN
        /\ \A r \in Requests : Formed(req[r]) /\ req[r] \in Request
    BY DEF TypeInv, Formed
  <1>2. alone => Single /\ (\A r \in Requests : Knows(db, req[r])) /\ Belongs(db)
    BY DEF AloneInv
  <1>3. ASSUME NEW r \in Requests, NEW q, Start(r, q), alone => Knows(db, q) PROVE AloneInv'
    <2>1. /\ req' = [req EXCEPT ![r] = q] /\ db' = db
          /\ alone' = (alone /\ \A s \in Requests : req[s] = Idle)
      BY <1>3 DEF Start
    <2>2. alone' \in BOOLEAN /\ (alone' => alone /\ \A s \in Requests : req[s] = Idle)
      BY <1>1, <2>1
    <2>3. alone' => Belongs(db') /\ Knows(db', q)
      BY <1>2, <1>3, <2>1, <2>2
    <2>4. QED BY <1>1, <2>1, <2>2, <2>3, OneMoves
  <1>4. ASSUME NEW r \in Requests, req[r] # Idle, alone
        PROVE  \A s \in Requests : s # r => req[s] = Idle
    BY <1>2, <1>4 DEF Single
  <1>5. ASSUME NEW r \in Requests, NEW q, Continue(r, q), req[r] # Idle, alone => Knows(db, q)
        PROVE  AloneInv'
    <2>1. req' = [req EXCEPT ![r] = q] /\ db' = db /\ alone' = alone
      BY <1>5 DEF Continue
    <2>2. alone' => /\ \A s \in Requests : s # r => req[s] = Idle
                    /\ Knows(db', q)
                    /\ Belongs(db')
      BY <1>2, <1>4, <1>5, <2>1
    <2>3. QED BY <1>1, <2>1, <2>2, OneMoves
  <1>6. ASSUME NEW r \in Requests, NEW image, Write(r, image), req[r] # Idle,
               alone => Belongs(image)
        PROVE  AloneInv'
    <2>1. req' = [req EXCEPT ![r] = Idle] /\ db' = image /\ alone' = alone
      BY <1>6 DEF Write
    <2>2. Knows(db', Idle)
      BY DEF Knows, Idle
    <2>3. alone' => /\ \A s \in Requests : s # r => req[s] = Idle
                    /\ Knows(db', Idle)
                    /\ Belongs(db')
      BY <1>4, <1>6, <2>1, <2>2
    <2>4. QED BY <1>1, <2>1, <2>3, OneMoves
  <1>7. Knows(db, Idle) /\ Idle.op = "none"
    BY DEF Knows, Idle
  <1>8. ASSUME NEW r \in Requests, req[r].op \notin {"none", "register"}, alone
        PROVE  req[r].user \in DOMAIN db.users
    BY <1>2, <1>8 DEF Knows
  <1>9. ASSUME NEW r \in Requests, StartRegister(r) PROVE AloneInv'
    <2>1. PICK n \in Names, role \in Roles :
             Start(r, [Idle EXCEPT !.op = "register", !.name = n, !.role = role])
      BY <1>9 DEF StartRegister
    <2>2. Knows(db, [Idle EXCEPT !.op = "register", !.name = n, !.role = role])
      BY DEF Knows, Idle
    <2>3. QED BY <1>3, <2>1, <2>2
  <1>10. ASSUME NEW r \in Requests, StartPage(r) \/ StartOpen(r) \/ StartAsk(r) \/ StartDelete(r)
         PROVE  AloneInv'
    <2>1. PICK u \in DOMAIN db.users, op \in {"page", "open", "ask", "delete"} :
             Start(r, [Idle EXCEPT !.op = op, !.user = u])
      BY <1>10 DEF StartPage, StartOpen, StartAsk, StartDelete
    <2>2. Knows(db, [Idle EXCEPT !.op = op, !.user = u])
      BY DEF Knows, Idle
    <2>3. QED BY <1>3, <2>1, <2>2
  <1>11. ASSUME NEW r \in Requests, StartTransfer(r) PROVE AloneInv'
    <2>1. PICK u \in DOMAIN db.users, s \in DOMAIN db.accts, d \in DOMAIN db.accts :
             Start(r, [Idle EXCEPT !.op = "transfer", !.user = u, !.src = s, !.dst = d,
                                   !.srcLife = db.accts[s].life, !.dstLife = db.accts[d].life,
                                   !.told = {db.accts[s].owner, db.accts[d].owner}])
      BY <1>11 DEF StartTransfer
    <2> DEFINE told == {db.accts[s].owner, db.accts[d].owner}
               q    == [Idle EXCEPT !.op = "transfer", !.user = u, !.src = s, !.dst = d,
                                    !.srcLife = db.accts[s].life, !.dstLife = db.accts[d].life,
                                    !.told = told]
    <2>2. alone => told \subseteq DOMAIN db.users
      BY <1>2 DEF Belongs
    <2> HIDE DEF told
    <2>3. q.user = u /\ q.told = told
      BY DEF Idle
    <2>4. Start(r, q)
      BY <2>1 DEF told
    <2> HIDE DEF q
    <2>5. alone => Knows(db, q)
      BY <2>2, <2>3 DEF Knows
    <2>6. QED BY <1>3, <2>4, <2>5
  <1>12. ASSUME NEW r \in Requests,
                RegisterConflict(r) \/ TransferStale(r) \/ DeleteRefused(r) \/ GiveUp(r)
         PROVE  AloneInv'
    <2>1. Continue(r, Idle) /\ (req[r] # Idle \/ req[r].op # "none")
      BY <1>12 DEF RegisterConflict, TransferStale, DeleteRefused, GiveUp
    <2>2. QED BY <1>5, <1>7, <2>1
  <1>13. ASSUME NEW r \in Requests, LookUp(r) PROVE AloneInv'
    <2> DEFINE q == [req[r] EXCEPT !.op = "default"]
    <2>1. q.user = req[r].user /\ q.told = req[r].told
      BY <1>1 DEF Request
    <2>2. req[r].op = "page" /\ (Continue(r, q) \/ Continue(r, Idle))
      BY <1>13 DEF LookUp
    <2> HIDE DEF q
    <2>3. alone => Knows(db, q)
      BY <1>2, <2>1, <2>2 DEF Knows
    <2>4. QED BY <1>5, <1>7, <2>2, <2>3
  <1>14. ASSUME NEW r \in Requests, Register(r) PROVE AloneInv'
    <2>1. req[r].op = "register" /\ Write(r, Registered(db, req[r].name, req[r].role))
      BY <1>14 DEF Register
    <2>2. req[r].name \in Names /\ req[r].role \in Roles
      BY <1>1, <2>1 DEF Formed, Request
    <2>3. alone => Belongs(Registered(db, req[r].name, req[r].role))
      BY <1>1, <1>2, <2>2, RegisteredBelongs
    <2>4. req[r] # Idle
      BY <1>7, <2>1
    <2>5. QED BY <1>6, <2>1, <2>3, <2>4
  <1>15. ASSUME NEW r \in Requests, Open(r) PROVE AloneInv'
    <2> PICK default \in BOOLEAN : default = (req[r].op = "default")
      OBVIOUS
    <2>1. req[r].op \in {"default", "open"} /\ Write(r, WithAccount(db, req[r].user, default))
      BY <1>15 DEF Open
    <2>2. alone => Belongs(WithAccount(db, req[r].user, default))
      <3> SUFFICES ASSUME alone PROVE Belongs(WithAccount(db, req[r].user, default))
        OBVIOUS
      <3>1. req[r].user \in DOMAIN db.users
        BY <1>8, <2>1
      <3>2. QED BY <1>1, <1>2, <3>1, AccountBelongs
    <2>3. req[r] # Idle
      BY <1>7, <2>1
    <2>4. QED BY <1>6, <2>1, <2>2, <2>3
  <1>16. ASSUME NEW r \in Requests, Transfer(r) PROVE AloneInv'
    <2>1. req[r].op = "transfer" /\ Write(r, Transferred(db, req[r]))
      BY <1>16 DEF Transfer
    <2>2. alone => Belongs(Transferred(db, req[r]))
      <3> SUFFICES ASSUME alone PROVE Belongs(Transferred(db, req[r]))
        OBVIOUS
      <3>1. req[r].user \in DOMAIN db.users /\ req[r].told \subseteq DOMAIN db.users
        BY <1>2, <2>1 DEF Knows
      <3>2. QED BY <1>1, <1>2, <3>1, TransferBelongs
    <2>3. req[r] # Idle
      BY <1>7, <2>1
    <2>4. QED BY <1>6, <2>1, <2>2, <2>3
  <1>17. ASSUME NEW r \in Requests, Ask(r) PROVE AloneInv'
    <2> DEFINE n == [db EXCEPT !.asks = @ \cup {req[r].user}]
    <2>1. req[r].op = "ask" /\ Write(r, n)
      BY <1>17 DEF Ask
    <2>2. DOMAIN db = Tables
      BY <1>1 DEF Typed
    <2>3. /\ n.users = db.users /\ n.accts = db.accts /\ n.inbox = db.inbox /\ n.hist = db.hist
          /\ n.asks = db.asks \cup {req[r].user}
      BY <2>2, AskImage
    <2> HIDE DEF n
    <2>4. alone => Belongs(n)
      <3> SUFFICES ASSUME alone PROVE Belongs(n)
        OBVIOUS
      <3>1. req[r].user \in DOMAIN db.users
        BY <1>8, <2>1
      <3>2. QED BY <1>2, <2>3, <3>1 DEF Belongs
    <2>5. req[r] # Idle
      BY <1>7, <2>1
    <2>6. QED BY <1>6, <2>1, <2>4, <2>5
  <1>18. ASSUME NEW r \in Requests, Delete(r) PROVE AloneInv'
    <2>1. /\ req[r].op = "delete" /\ req[r].user \notin db.asks
          /\ Write(r, WithoutUser(db, req[r].user))
      BY <1>18 DEF Delete
    <2>2. alone => Belongs(WithoutUser(db, req[r].user))
      BY <1>1, <1>2, <2>1, WithoutUserBelongs
    <2>3. req[r] # Idle
      BY <1>7, <2>1
    <2>4. QED BY <1>6, <2>1, <2>2, <2>3
  <1>19. CASE UNCHANGED vars
    <2>1. db' = db /\ req' = req /\ alone' = alone
      BY <1>19 DEF vars
    <2>2. QED BY <2>1 DEF AloneInv, Single, Knows, Belongs
  <1>20. QED
    BY <1>9, <1>10, <1>11, <1>12, <1>13, <1>14, <1>15, <1>16, <1>17, <1>18, <1>19 DEF Next, Rest

\* While requests come one after the other, accounts, notifications,
\* beneficiaries and rollback requests belong to users who exist, and versions
\* name no user who is gone: a deletion leaves nothing that the next holder of
\* the id could inherit (delete_user_account).
THEOREM NothingOutlivesUsers == Spec => []NothingOutlives
  <1>1. Init => TypeInv /\ AloneInv
    BY InitTypes, InitAlone
  <1>2. TypeInv /\ AloneInv /\ [Next]_vars => TypeInv' /\ AloneInv'
    BY NextTypes, NextAlone
  <1>3. AloneInv => NothingOutlives
    BY DEF AloneInv, Belongs, NothingOutlives
  <1>4. QED BY <1>1, <1>2, <1>3, PTL DEF Spec

-----------------------------------------------------------------------------
(* One holder after the other                                               *)

\* Every transfer under way has loaded accounts with histories.
LoadedInv == \A r \in Requests : req[r].op = "transfer" => Loaded(db, req[r], alone)

\* What the order of the histories rests on.
LivesInv == Historic(db, alone) /\ LoadedInv

\* No life disappears from the histories.
Survive(d, n) ==
    \A a \in Nat : \A v \in VersionsOf(d, "ACCOUNT", a) :
        \E w \in VersionsOf(n, "ACCOUNT", a) : w.life = v.life

\* Versions that stay keep their lives.
LEMMA SupersetSurvives ==
    ASSUME NEW d, NEW n, d.hist \subseteq n.hist
    PROVE  Survive(d, n)
  BY DEF Survive, VersionsOf

\* What create_account does, for accounts of either sort.
LEMMA OpenHistoric ==
    ASSUME NEW serial \in BOOLEAN, NEW d, Typed(d), Historic(d, serial), NEW u \in Nat
    PROVE  /\ Historic(WithAccount(d, u, TRUE), serial)
           /\ Historic(WithAccount(d, u, FALSE), serial)
           /\ d.hist \subseteq WithAccount(d, u, TRUE).hist
           /\ d.hist \subseteq WithAccount(d, u, FALSE).hist
  <1> DEFINE n == WithAccount(d, u, TRUE)
             m == WithAccount(d, u, FALSE)
  <1>1. Historic(n, serial) /\ d.hist \subseteq n.hist
    BY WithAccountHistoric
  <1>2. Historic(m, serial) /\ d.hist \subseteq m.hist
    BY WithAccountHistoric
  <1>3. QED BY <1>1, <1>2

\* A deletion blanks who made the changes and keeps the lives.
LEMMA DeletionSurvives ==
    ASSUME NEW d, Typed(d), NEW u
    PROVE  Survive(d, WithoutUser(d, u))
  <1> DEFINE n == WithoutUser(d, u)
  <1>1. \A w : w \in n.hist <=> \E v \in d.hist : w = Blanked(v, u)
    <2>1. DOMAIN d = Tables
      BY DEF Typed
    <2>2. QED BY <2>1, WithoutUserImage
  <1> HIDE DEF n
  <1>2. \A v \in d.hist : /\ Blanked(v, u) \in n.hist /\ Blanked(v, u).kind = v.kind
                          /\ Blanked(v, u).entity = v.entity /\ Blanked(v, u).life = v.life
    BY <1>1, BlankedVersion DEF Typed
  <1>3. QED BY <1>2 DEF Survive, VersionsOf, n

\* Order under interleaving is part of order without it.
LEMMA HistoricWeaker ==
    ASSUME NEW b \in BOOLEAN, NEW c \in BOOLEAN, c => b, NEW d, Historic(d, b)
    PROVE  Historic(d, c)
  <1>1. Ordered(d, c)
    BY DEF Historic, Ordered, Begun
  <1>2. \A a \in DOMAIN d.accts : Current(d, a, c)
    BY DEF Historic, Current
  <1>3. QED BY <1>1, <1>2 DEF Historic

\* Nothing has a history at first.
LEMMA InitLives == Init => LivesInv
  <1> SUFFICES ASSUME Init PROVE LivesInv
    OBVIOUS
  <1>1. db.hist = {} /\ DOMAIN db.accts = {}
    BY DEF Init
  <1>2. \A kind, e : VersionsOf(db, kind, e) = {}
    BY <1>1 DEF VersionsOf
  <1>3. Numbered({})
    <2>1. 0 \in Nat /\ 1 .. 0 = {}
      OBVIOUS
    <2>2. QED BY <2>1 DEF Numbered
  <1>4. Begun({}, alone)
    BY DEF Begun
  <1>5. Ordered(db, alone)
    BY <1>2, <1>3, <1>4 DEF Ordered
  <1>6. Historic(db, alone)
    BY <1>1, <1>5 DEF Historic, Born
  <1>7. LoadedInv
    BY DEF Init, Idle, LoadedInv
  <1>8. QED BY <1>6, <1>7 DEF LivesInv

\* Every step keeps the histories in order, and what transfers have loaded.
LEMMA NextLives ==
    ASSUME TypeInv, AloneInv, LivesInv, [Next]_vars
    PROVE  LivesInv'
  <1>1. /\ Typed(db) /\ DOMAIN req = Requests /\ alone \in BOOLEAN /\ Historic(db, alone)
        /\ \A r \in Requests : /\ req[r] \in Request /\ req[r].user \in Nat
                               /\ req[r].src \in Nat /\ req[r].dst \in Nat
        /\ \A r \in Requests : req[r].op = "transfer" => Loaded(db, req[r], alone)
    BY DEF TypeInv, Formed, Request, LivesInv, LoadedInv
  <1>2. Idle.op = "none"
    BY DEF Idle
  <1>3. ASSUME NEW image, NEW r \in Requests, req[r].op # "none", Write(r, image),
               Historic(image, alone), Survive(db, image)
        PROVE  LivesInv'
    <2>1. req' = [req EXCEPT ![r] = Idle] /\ db' = image /\ alone' = alone
      BY <1>3 DEF Write
    <2>2. ASSUME NEW s \in Requests, req'[s].op = "transfer" PROVE Loaded(db', req'[s], alone')
      <3>1. s # r /\ req'[s] = req[s]
        BY <1>1, <1>2, <2>1, <2>2
      <3>2. req[s].op = "transfer" /\ Loaded(db, req[s], alone)
        BY <1>1, <2>2, <3>1
      <3>3. ~alone
        BY <1>2, <1>3, <3>1, <3>2 DEF AloneInv, Single
      <3>4. QED BY <1>1, <1>3, <2>1, <3>1, <3>2, <3>3 DEF Loaded, Survive
    <2>3. LoadedInv'
      BY <2>2 DEF LoadedInv
    <2>4. Historic(db', alone')
      BY <1>3, <2>1
    <2>5. QED BY <2>3, <2>4 DEF LivesInv, Historic, Ordered, Born, Current, VersionsOf
  <1>4. ASSUME NEW r \in Requests, NEW q, req' = [req EXCEPT ![r] = q], db' = db,
               alone' \in BOOLEAN, alone' => alone,
               q.op = "transfer" => Loaded(db, q, alone)
        PROVE  LivesInv'
    <2>1. Historic(db', alone')
      BY <1>1, <1>4, HistoricWeaker
    <2>2. ASSUME NEW s \in Requests, req'[s].op = "transfer" PROVE Loaded(db', req'[s], alone')
      <3>1. Loaded(db, req'[s], alone)
        BY <1>1, <1>4, <2>2
      <3>2. QED BY <1>4, <3>1 DEF Loaded
    <2>3. LoadedInv'
      BY <2>2 DEF LoadedInv
    <2>4. QED BY <2>1, <2>3 DEF LivesInv, Historic, Ordered, Born, Current, VersionsOf
  <1>5. ASSUME NEW r \in Requests, NEW q, Start(r, q), q.op = "transfer" => Loaded(db, q, alone)
        PROVE  LivesInv'
    <2>1. /\ req' = [req EXCEPT ![r] = q] /\ db' = db
          /\ alone' = (alone /\ \A s \in Requests : req[s] = Idle)
      BY <1>5 DEF Start
    <2>2. alone' \in BOOLEAN /\ (alone' => alone)
      BY <1>1, <2>1
    <2>3. QED BY <1>4, <1>5, <2>1, <2>2
  <1>6. ASSUME NEW r \in Requests, NEW q, Continue(r, q), q.op # "transfer"
        PROVE  LivesInv'
    <2>1. req' = [req EXCEPT ![r] = q] /\ db' = db /\ alone' = alone
      BY <1>6 DEF Continue
    <2>2. QED BY <1>1, <1>4, <1>6, <2>1
  <1>7. ASSUME NEW r \in Requests, Register(r) PROVE LivesInv'
    <2>1. /\ req[r].op = "register" /\ req[r].name \in Names /\ req[r].role \in Roles
          /\ Write(r, Registered(db, req[r].name, req[r].role))
      BY <1>7 DEF Register, TypeInv, Formed, Request
    <2>2. /\ Historic(Registered(db, req[r].name, req[r].role), alone)
          /\ db.hist \subseteq Registered(db, req[r].name, req[r].role).hist
      BY <1>1, <2>1, RegisteredHistoric
    <2>3. Survive(db, Registered(db, req[r].name, req[r].role))
      BY <2>2, SupersetSurvives
    <2>4. QED BY <1>3, <2>1, <2>2, <2>3
  <1>8. ASSUME NEW r \in Requests, Open(r) PROVE LivesInv'
    <2>1. /\ Historic(WithAccount(db, req[r].user, TRUE), alone)
          /\ Historic(WithAccount(db, req[r].user, FALSE), alone)
          /\ db.hist \subseteq WithAccount(db, req[r].user, TRUE).hist
          /\ db.hist \subseteq WithAccount(db, req[r].user, FALSE).hist
      BY <1>1, OpenHistoric
    <2> PICK image : /\ Write(r, image)
                     /\ \/ image = WithAccount(db, req[r].user, TRUE)
                        \/ image = WithAccount(db, req[r].user, FALSE)
      <3>1. CASE req[r].op = "default"
        BY <1>8, <3>1 DEF Open
      <3>2. CASE req[r].op # "default"
        BY <1>8, <3>2 DEF Open
      <3>3. QED BY <3>1, <3>2
    <2>2. req[r].op # "none"
      BY <1>8 DEF Open
    <2>3. Historic(image, alone) /\ db.hist \subseteq image.hist
      BY <2>1
    <2>4. Survive(db, image)
      BY <2>3, SupersetSurvives
    <2>5. QED BY <1>3, <2>2, <2>3, <2>4
  <1>9. ASSUME NEW r \in Requests, Transfer(r) PROVE LivesInv'
    <2>1. /\ req[r].op = "transfer" /\ {req[r].src, req[r].dst} \subseteq DOMAIN db.accts
          /\ Write(r, Transferred(db, req[r]))
      BY <1>9 DEF Transfer
    <2>2. Historic(Transferred(db, req[r]), alone) /\ db.hist \subseteq Transferred(db, req[r]).hist
      BY <1>1, <2>1, TransferredHistoric
    <2>3. Survive(db, Transferred(db, req[r]))
      BY <2>2, SupersetSurvives
    <2>4. QED BY <1>3, <2>1, <2>2, <2>3
  <1>10. ASSUME NEW r \in Requests, Ask(r) PROVE LivesInv'
    <2> DEFINE n == [db EXCEPT !.asks = @ \cup {req[r].user}]
    <2>1. req[r].op = "ask" /\ Write(r, n) /\ DOMAIN db = Tables
      BY <1>1, <1>10 DEF Ask, Typed
    <2>2. n.hist = db.hist /\ n.accts = db.accts /\ n.born = db.born
      BY <2>1, AskImage
    <2> HIDE DEF n
    <2>3. \A kind, e : VersionsOf(n, kind, e) = VersionsOf(db, kind, e)
      BY <2>2 DEF VersionsOf
    <2>4. Ordered(n, alone)
      BY <1>1, <2>3 DEF Historic, Ordered
    <2>5. Born(n)
      BY <1>1, <2>2 DEF Historic, Born
    <2>6. \A a \in DOMAIN n.accts : Current(n, a, alone)
      BY <1>1, <2>2, <2>3 DEF Historic, Current
    <2>7. Historic(n, alone)
      BY <2>4, <2>5, <2>6 DEF Historic
    <2>8. Survive(db, n)
      BY <2>2, SupersetSurvives
    <2>9. QED BY <1>3, <2>1, <2>7, <2>8
  <1>11. ASSUME NEW r \in Requests, Delete(r) PROVE LivesInv'
    <2>1. req[r].op = "delete" /\ Write(r, WithoutUser(db, req[r].user))
      BY <1>11 DEF Delete
    <2>2. Historic(WithoutUser(db, req[r].user), alone)
      BY <1>1, WithoutUserHistoric
    <2>3. Survive(db, WithoutUser(db, req[r].user))
      BY <1>1, DeletionSurvives
    <2>4. QED BY <1>3, <2>1, <2>2, <2>3
  <1>12. ASSUME NEW r \in Requests, StartTransfer(r) PROVE LivesInv'
    <2>1. PICK u \in DOMAIN db.users, s \in DOMAIN db.accts, d \in DOMAIN db.accts :
             Start(r, [Idle EXCEPT !.op = "transfer", !.user = u, !.src = s, !.dst = d,
                                   !.srcLife = db.accts[s].life, !.dstLife = db.accts[d].life,
                                   !.told = {db.accts[s].owner, db.accts[d].owner}])
      BY <1>12 DEF StartTransfer
    <2> DEFINE x == db.accts[s].life
               y == db.accts[d].life
               told == {db.accts[s].owner, db.accts[d].owner}
               q == [Idle EXCEPT !.op = "transfer", !.user = u, !.src = s, !.dst = d,
                                 !.srcLife = x, !.dstLife = y, !.told = told]
    <2>2. Start(r, q)
      BY <2>1
    <2>3. /\ \E v \in VersionsOf(db, "ACCOUNT", s) : v.life = x
          /\ \E v \in VersionsOf(db, "ACCOUNT", d) : v.life = y
      BY <1>1 DEF Historic, Current
    <2>4. x = db.accts[s].life /\ y = db.accts[d].life
      OBVIOUS
    <2> HIDE DEF x, y, told
    <2>5. q.src = s /\ q.dst = d /\ q.srcLife = x /\ q.dstLife = y
      BY DEF Idle
    <2> HIDE DEF q
    <2>6. Loaded(db, q, alone)
      BY <2>3, <2>4, <2>5 DEF Loaded
    <2>7. QED BY <1>5, <2>2, <2>6
  <1>13. ASSUME NEW r \in Requests, StartRegister(r) PROVE LivesInv'
    <2>1. PICK n \in Names, role \in Roles :
             Start(r, [Idle EXCEPT !.op = "register", !.name = n, !.role = role])
      BY <1>13 DEF StartRegister
    <2>2. [Idle EXCEPT !.op = "register", !.name = n, !.role = role].op # "transfer"
      BY DEF Idle
    <2>3. QED BY <1>5, <2>1, <2>2
  <1>14. ASSUME NEW r \in Requests, StartPage(r) \/ StartOpen(r) \/ StartAsk(r) \/ StartDelete(r)
         PROVE  LivesInv'
    <2>1. PICK u \in DOMAIN db.users, op \in {"page", "open", "ask", "delete"} :
             Start(r, [Idle EXCEPT !.op = op, !.user = u])
      BY <1>14 DEF StartPage, StartOpen, StartAsk, StartDelete
    <2>2. [Idle EXCEPT !.op = op, !.user = u].op # "transfer"
      BY DEF Idle
    <2>3. QED BY <1>5, <2>1, <2>2
  <1>15. ASSUME NEW r \in Requests,
                RegisterConflict(r) \/ TransferStale(r) \/ DeleteRefused(r) \/ GiveUp(r)
         PROVE  LivesInv'
    <2>1. Continue(r, Idle)
      BY <1>15 DEF RegisterConflict, TransferStale, DeleteRefused, GiveUp
    <2>2. QED BY <1>2, <1>6, <2>1
  <1>16. ASSUME NEW r \in Requests, LookUp(r) PROVE LivesInv'
    <2> DEFINE q == [req[r] EXCEPT !.op = "default"]
    <2>1. q.op # "transfer"
      BY <1>1 DEF Request
    <2>2. Continue(r, q) \/ Continue(r, Idle)
      BY <1>16 DEF LookUp
    <2> HIDE DEF q
    <2>3. QED BY <1>2, <1>6, <2>1, <2>2
  <1>17. CASE UNCHANGED vars
    <2>1. db' = db /\ req' = req /\ alone' = alone
      BY <1>17 DEF vars
    <2>2. QED
      BY <2>1 DEF LivesInv, LoadedInv, Loaded, Historic, Ordered, Born, Current, VersionsOf
  <1>18. QED
    BY <1>7, <1>8, <1>9, <1>10, <1>11, <1>12, <1>13, <1>14, <1>15, <1>16, <1>17 DEF Next, Rest

\* What the order of histories says of one version.
LEMMA HistoricLives ==
    ASSUME Typed(db), alone \in BOOLEAN, Historic(db, alone)
    PROVE  LivesInOrder
  <1>1. \A v \in db.hist : v.kind \in Kinds /\ v.entity \in Nat
    BY DEF Typed, Version
  <1>2. \A v \in db.hist : v \in VersionsOf(db, v.kind, v.entity)
    BY DEF VersionsOf
  <1>3. \A v \in db.hist : Numbered(VersionsOf(db, v.kind, v.entity))
                           /\ Begun(VersionsOf(db, v.kind, v.entity), alone)
    BY <1>1 DEF Historic, Ordered
  <1>4. alone => LivesApart
    BY <1>2, <1>3 DEF Begun, LivesApart
  <1>5. ASSUME NEW v \in db.hist, NEW rows, rows = VersionsOf(db, v.kind, v.entity)
        PROVE  /\ v.number = Cardinality({w \in rows : w.number <= v.number})
               /\ \E w \in rows : w.type = "CREATE" /\ w.life = v.life /\ w.number <= v.number
               /\ v.type = "CREATE" => \A w \in rows : w.number < v.number => w.life < v.life
    <2>1. v \in rows /\ Numbered(rows) /\ Begun(rows, alone)
      BY <1>2, <1>3, <1>5
    <2>2. v.number = Cardinality({w \in rows : w.number <= v.number})
      BY <2>1, NumbersCount
    <2>3. QED BY <2>1, <2>2 DEF Begun
  <1>6. QED BY <1>4, <1>5 DEF LivesInOrder

\* However requests overlap, users are deleted and ids are given again, the
\* history of an id is numbered 1, 2, 3, ..., and every holder has a CREATE of
\* its own, later than all that was there; without overlaps the holders'
\* histories follow each other, so that only a stale transfer mixes them
\* (_next_version_number, create_version, transfer, delete_user_account).
THEOREM LivesAlwaysInOrder == Spec => []LivesInOrder
  <1>1. Init => TypeInv /\ AloneInv /\ LivesInv
    BY InitTypes, InitAlone, InitLives
  <1>2. TypeInv /\ AloneInv /\ LivesInv /\ [Next]_vars => TypeInv' /\ AloneInv' /\ LivesInv'
    BY NextTypes, NextAlone, NextLives
  <1>3. TypeInv /\ LivesInv => LivesInOrder
    BY HistoricLives DEF TypeInv, LivesInv
  <1>4. QED BY <1>1, <1>2, <1>3, PTL DEF Spec
================================================================================
