---------------------------- MODULE AuditChainProofs ----------------------------
(***************************************************************************)
(* Proofs about AuditChain for any number of workers, users and rows: what *)
(* verify_audit_integrity can find when nobody tampers with the log.       *)
(***************************************************************************)
EXTENDS AuditChain, TLAPS, SequenceTheorems

Columns == {"user", "action", "prev", "hash"}

IsLog(log) == \E S : log \in Seq(S)

\* A hash the log holds, or the one a log begins with.
Known(log, hash) == hash = Genesis \/ \E k \in DOMAIN log : hash = log[k].hash

PointsBack(log) ==
    \A i \in DOMAIN log :
        log[i].prev = Genesis \/ \E k \in 1 .. i - 1 : log[i].prev = log[k].hash

\* The hash of a row matches, or tells which user was blanked.
Explained(log, deleted) ==
    \A i \in DOMAIN log :
        \/ ContentHolds(log, i)
        \/ /\ log[i].user = Nobody
           /\ \E u \in deleted : log[i].hash = Hash(u, log[i].action, log[i].prev)

WellFormed(row) ==
    DOMAIN row = Columns /\ row.user \in Users \cup {Nobody} /\ row.action \in Actions

Sound(d) ==
    /\ IsLog(d.log)
    /\ d.deleted \subseteq Deletable
    /\ \A i \in DOMAIN d.log : WellFormed(d.log[i])
    /\ PointsBack(d.log)
    /\ Explained(d.log, d.deleted)

\* What RowsStay says of two logs.
Kept(log, later) ==
    /\ Len(later) >= Len(log)
    /\ \A i \in DOMAIN log :
          /\ later[i].action = log[i].action
          /\ later[i].prev = log[i].prev
          /\ later[i].hash = log[i].hash
          /\ later[i].user \in {log[i].user, Nobody}

-----------------------------------------------------------------------------
(* The verdicts of the verification                                         *)

\* If every row points back, the first broken link is a fork: the row after the
\* one it points at, or the first row, names the same previous hash.
LEMMA ForkFromPointsBack ==
    ASSUME NEW log, IsLog(log), PointsBack(log), NEW i \in DOMAIN log,
           ~LinkHolds(log, i), \A k \in 1 .. i - 1 : LinkHolds(log, k)
    PROVE  \E k \in 1 .. i - 1 : log[k].prev = log[i].prev
  <1>1. DOMAIN log = 1 .. Len(log) /\ Len(log) \in Nat /\ i \in Nat /\ i >= 1
    BY DEF IsLog
  <1>2. CASE log[i].prev = Genesis
    <2>1. i # 1
      BY <1>2 DEF LinkHolds, ExpectedPrev
    <2>2. 1 \in 1 .. i - 1
      BY <1>1, <2>1
    <2>3. log[1].prev = Genesis
      BY <2>2 DEF LinkHolds, ExpectedPrev
    <2>4. QED BY <1>2, <2>2, <2>3
  <1>3. ASSUME NEW k \in 1 .. i - 1, log[i].prev = log[k].hash
        PROVE  \E j \in 1 .. i - 1 : log[j].prev = log[i].prev
    <2>1. k # i - 1
      BY <1>1, <1>3 DEF LinkHolds, ExpectedPrev
    <2>2. k + 1 \in 1 .. i - 1 /\ k + 1 # 1 /\ (k + 1) - 1 = k
      BY <1>1, <2>1
    <2>3. log[k + 1].prev = log[k].hash
      BY <2>2 DEF LinkHolds, ExpectedPrev
    <2>4. QED BY <1>3, <2>2, <2>3
  <1>4. QED BY <1>2, <1>3 DEF PointsBack

-----------------------------------------------------------------------------
(* The operators that change the log                                        *)

LEMMA KeptReflexive == ASSUME NEW log, IsLog(log) PROVE Kept(log, log)
  BY DEF Kept, IsLog

LEMMA KeptTransitive ==
    ASSUME NEW x, NEW y, NEW z, IsLog(x), IsLog(y), IsLog(z), Kept(x, y), Kept(y, z)
    PROVE  Kept(x, z)
  <1>1. /\ DOMAIN x = 1 .. Len(x) /\ DOMAIN y = 1 .. Len(y)
        /\ Len(x) \in Nat /\ Len(y) \in Nat /\ Len(z) \in Nat
    BY DEF IsLog
  <1>2. DOMAIN x \subseteq DOMAIN y /\ Len(z) >= Len(x)
    BY <1>1 DEF Kept
  <1>3. QED BY <1>2 DEF Kept

LEMMA KnownStays ==
    ASSUME NEW x, NEW y, IsLog(x), IsLog(y), Kept(x, y), NEW hash, Known(x, hash)
    PROVE  Known(y, hash)
  <1>1. DOMAIN x \subseteq DOMAIN y
    BY DEF IsLog, Kept
  <1>2. QED BY <1>1 DEF Known, Kept

\* A row whose previous hash is known can be appended.
LEMMA AppendSound ==
    ASSUME NEW d, Sound(d), NEW row, WellFormed(row), Known(d.log, row.prev),
           row.hash = Hash(row.user, row.action, row.prev),
           NEW e, e.log = Append(d.log, row), e.deleted = d.deleted
    PROVE  Sound(e) /\ Kept(d.log, e.log)
  <1> DEFINE log == d.log
             n   == Len(log) + 1
  <1>1. PICK S : log \in Seq(S)
    BY DEF Sound, IsLog
  <1>2. log \in Seq(S \cup {row}) /\ Len(log) \in Nat
    BY <1>1
  <1>3. /\ e.log \in Seq(S \cup {row})
        /\ DOMAIN e.log = 1 .. n /\ Len(e.log) = n
        /\ e.log[n] = row /\ \A i \in 1 .. Len(log) : e.log[i] = log[i]
        /\ DOMAIN log = 1 .. Len(log)
    BY <1>2
  <1>4. IsLog(e.log)
    BY <1>3 DEF IsLog
  <1>5. \A i \in DOMAIN e.log : i \in DOMAIN log \/ i = n
    BY <1>2, <1>3
  <1>6. \A i \in DOMAIN e.log : WellFormed(e.log[i])
    BY <1>3, <1>5 DEF Sound
  <1>7. PointsBack(e.log)
    <2>1. ASSUME NEW i \in DOMAIN log
          PROVE  e.log[i].prev = Genesis \/ \E k \in 1 .. i - 1 : e.log[i].prev = e.log[k].hash
      <3>1. \A k \in 1 .. i - 1 : k \in 1 .. Len(log)
        BY <1>2, <1>3
      <3>2. QED BY <1>3, <3>1 DEF Sound, PointsBack
    <2>2. e.log[n].prev = Genesis \/ \E k \in 1 .. n - 1 : e.log[n].prev = e.log[k].hash
      BY <1>2, <1>3 DEF Known
    <2>3. QED BY <1>5, <2>1, <2>2 DEF PointsBack
  <1>8. Explained(e.log, e.deleted)
    BY <1>3, <1>5 DEF Sound, Explained, ContentHolds
  <1>9. Kept(log, e.log)
    BY <1>2, <1>3 DEF Kept
  <1>10. QED BY <1>4, <1>6, <1>7, <1>8, <1>9 DEF Sound

\* Blanking a user whose deletion is recorded explains every mismatch.
LEMMA BlankSound ==
    ASSUME NEW d, Sound(d), NEW u \in Deletable,
           NEW e, e.log = [i \in DOMAIN d.log |-> Blanked(d.log[i], u)],
           e.deleted = d.deleted \cup {u}
    PROVE  Sound(e) /\ Kept(d.log, e.log)
  <1> DEFINE log == d.log
             S   == {e.log[i] : i \in DOMAIN log}
  <1>1. DOMAIN log = 1 .. Len(log) /\ Len(log) \in Nat
    BY DEF Sound, IsLog
  <1>2. DOMAIN e.log = DOMAIN log /\ \A i \in DOMAIN log : e.log[i] = Blanked(log[i], u)
    OBVIOUS
  <1>3. e.log \in Seq(S) /\ Len(e.log) = Len(log)
    <2>1. e.log \in [1 .. Len(log) -> S]
      BY <1>1
    <2>2. QED BY <1>1, <2>1, SeqDef
  <1>4. ASSUME NEW i \in DOMAIN log
        PROVE  /\ DOMAIN e.log[i] = Columns
               /\ e.log[i].action = log[i].action
               /\ e.log[i].prev = log[i].prev
               /\ e.log[i].hash = log[i].hash
               /\ e.log[i].user = IF log[i].user = u THEN Nobody ELSE log[i].user
    <2> DEFINE user == IF log[i].user = u THEN Nobody ELSE log[i].user
    <2>1. DOMAIN log[i] = Columns
      BY DEF Sound, WellFormed
    <2>2. e.log[i] = [log[i] EXCEPT !.user = user]
      BY <1>2 DEF Blanked
    <2> HIDE DEF user, log
    <2>3. /\ DOMAIN e.log[i] = Columns /\ e.log[i].action = log[i].action
          /\ e.log[i].prev = log[i].prev /\ e.log[i].hash = log[i].hash
          /\ e.log[i].user = user
      BY <2>1, <2>2 DEF Columns
    <2>4. QED BY <2>3 DEF user
  <1>5. \A i \in DOMAIN e.log : WellFormed(e.log[i])
    BY <1>2, <1>4 DEF Sound, WellFormed
  <1>6. PointsBack(e.log)
    <2>1. ASSUME NEW i \in DOMAIN log
          PROVE  e.log[i].prev = Genesis \/ \E k \in 1 .. i - 1 : e.log[i].prev = e.log[k].hash
      <3>1. \A k \in 1 .. i - 1 : k \in DOMAIN log
        BY <1>1
      <3>2. QED BY <1>4, <3>1 DEF Sound, PointsBack
    <2>2. QED BY <1>2, <2>1 DEF PointsBack
  <1>7. Explained(e.log, e.deleted)
    <2> SUFFICES ASSUME NEW i \in DOMAIN log
                 PROVE  \/ ContentHolds(e.log, i)
                        \/ /\ e.log[i].user = Nobody
                           /\ \E v \in e.deleted :
                                 e.log[i].hash = Hash(v, e.log[i].action, e.log[i].prev)
      BY <1>2 DEF Explained
    <2>1. CASE ContentHolds(log, i) /\ log[i].user = u
      BY <1>4, <2>1 DEF ContentHolds
    <2>2. CASE ContentHolds(log, i) /\ log[i].user # u
      BY <1>4, <2>2 DEF ContentHolds
    <2>3. CASE ~ContentHolds(log, i)
      <3>1. log[i].user = Nobody /\ \E v \in d.deleted : log[i].hash = Hash(v, log[i].action, log[i].prev)
        BY <2>3 DEF Sound, Explained
      <3>2. QED BY <1>4, <3>1
    <2>4. QED BY <2>1, <2>2, <2>3
  <1>8. Kept(log, e.log)
    <2>1. Len(e.log) >= Len(log)
      BY <1>1, <1>3
    <2>2. ASSUME NEW i \in DOMAIN log
          PROVE  /\ e.log[i].action = log[i].action
                 /\ e.log[i].prev = log[i].prev
                 /\ e.log[i].hash = log[i].hash
                 /\ e.log[i].user \in {log[i].user, Nobody}
      BY <1>4
    <2> HIDE DEF log
    <2>3. QED BY <2>1, <2>2 DEF Kept
  <1>9. e.deleted \subseteq Deletable
    BY DEF Sound
  <1>10. QED BY <1>3, <1>5, <1>6, <1>7, <1>8, <1>9 DEF Sound, IsLog

-----------------------------------------------------------------------------
(* The invariant                                                            *)

Locked == {"writing", "deleting", "done"}

\* A worker's row: its previous hash is known, and only a user who may be
\* deleted is.
Ready(me, log) ==
    /\ DOMAIN me = {"pc", "user", "action", "prev", "left"}
    /\ me.pc \in Phases /\ me.left \in 0 .. 2
    /\ me.pc # "idle" => me.user \in Users \cup {Nobody} /\ me.action \in Actions
    /\ me.pc = "hashed" => Known(log, me.prev)
    /\ me.pc = "writing" => me.left # 0
    /\ me.pc = "deleting" \/ (me.pc = "hashed" /\ me.action = DeleteAction) => me.user \in Deletable

IInv ==
    /\ DOMAIN store = {"log", "deleted"}
    /\ Sound(store)
    /\ Sound(work)
    /\ Kept(store.log, work.log)
    /\ writer \in Workers \cup {NoWorker}
    /\ writer = NoWorker => work = store
    /\ DOMAIN work = {"log", "deleted"}
    /\ DOMAIN worker = Workers
    /\ \A w \in Workers : /\ Ready(worker[w], store.log)
                          /\ worker[w].pc \in Locked <=> writer = w

LEMMA IdleReady == ASSUME NEW log PROVE Ready(Idle, log) /\ Idle.pc = "idle"
  BY DEF Idle, Ready, Phases

\* The newest hash is known.
LEMMA TailKnown == ASSUME NEW log, IsLog(log) PROVE Known(log, TailHash(log))
  <1>1. PICK S : log \in Seq(S)
    BY DEF IsLog
  <1>2. log # <<>> => Len(log) \in DOMAIN log
    BY <1>1
  <1>3. QED BY <1>2 DEF TailHash, Known

\* A worker moves on without changing what is stored.
LEMMA MoveStep ==
    ASSUME IInv, NEW w \in Workers, NEW s, Become(w, s), Ready(s, store.log),
           store' = store, DOMAIN work' = {"log", "deleted"},
           Sound(work'), Kept(store.log, work'.log),
           writer' \in Workers \cup {NoWorker}, writer' = NoWorker => work' = store,
           \/ writer' = writer
           \/ writer = NoWorker /\ writer' = w
           \/ writer = w /\ writer' = NoWorker,
           s.pc \in Locked <=> writer' = w
    PROVE  IInv'
  <1>1. DOMAIN worker' = Workers /\ \A v \in Workers : worker'[v] = IF v = w THEN s ELSE worker[v]
    BY DEF Become, IInv
  <1>2. ASSUME NEW v \in Workers
        PROVE  Ready(worker'[v], store'.log) /\ (worker'[v].pc \in Locked <=> writer' = v)
    <2>1. CASE v = w
      BY <1>1, <2>1
    <2>2. CASE v # w
      BY <1>1, <2>2, ConstantsAssumption DEF IInv
    <2>3. QED BY <2>1, <2>2
  <1>3. QED BY <1>1, <1>2 DEF IInv, Sound, IsLog, WellFormed, PointsBack, Explained, ContentHolds,
                              Kept, Ready, Known

LEMMA PrepareStep ==
    ASSUME IInv, NEW w \in Workers, PrepareBare(w) \/ PrepareDelete(w)
    PROVE  IInv'
  <1>1. PICK u, a : /\ Become(w, [pc |-> "hashed", user |-> u, action |-> a,
                                  prev |-> TailHash(store.log), left |-> 0])
                    /\ u \in Users \cup {Nobody} /\ a \in Actions
                    /\ a = DeleteAction => u \in Deletable
    <2>1. CASE PrepareBare(w)
      <3>1. PICK u \in Live \cup {Nobody}, a \in BareActions :
               Become(w, [pc |-> "hashed", user |-> u, action |-> a,
                          prev |-> TailHash(store.log), left |-> 0])
        BY <2>1 DEF PrepareBare
      <3>2. u \in Users \cup {Nobody} /\ a \in Actions /\ a # DeleteAction
        BY ConstantsAssumption DEF Live, Actions
      <3>3. QED BY <3>1, <3>2
    <2>2. CASE PrepareDelete(w)
      <3>1. PICK u \in Live \cap Deletable :
               Become(w, [pc |-> "hashed", user |-> u, action |-> DeleteAction,
                          prev |-> TailHash(store.log), left |-> 0])
        BY <2>2 DEF PrepareDelete
      <3>2. u \in Users /\ DeleteAction \in Actions
        BY DEF Live, Actions
      <3>3. QED BY <3>1, <3>2
    <2>3. QED BY <2>1, <2>2
  <1> DEFINE s == [pc |-> "hashed", user |-> u, action |-> a,
                   prev |-> TailHash(store.log), left |-> 0]
  <1>2. Known(store.log, TailHash(store.log))
    BY TailKnown DEF IInv, Sound
  <1>3. Ready(s, store.log) /\ s.pc = "hashed"
    BY <1>1, <1>2 DEF Ready, Phases
  <1>4. UNCHANGED <<store, work, writer>> /\ worker[w].pc = "idle"
    BY DEF PrepareBare, PrepareDelete, MayStart, At
  <1> HIDE DEF s
  <1>5. writer # w
    BY <1>4 DEF IInv, Locked
  <1>6. QED BY <1>1, <1>3, <1>4, <1>5, MoveStep DEF IInv, Locked, s

LEMMA InsertStep == ASSUME IInv, NEW w \in Workers, InsertPrepared(w) PROVE IInv'
  <1> DEFINE me  == worker[w]
             row == [user |-> me.user, action |-> me.action, prev |-> me.prev,
                     hash |-> Hash(me.user, me.action, me.prev)]
             pc  == IF me.action = DeleteAction THEN "deleting" ELSE "done"
             s   == [me EXCEPT !.pc = pc]
             log == Append(store.log, row)
  <1>1. /\ me.pc = "hashed" /\ writer = NoWorker /\ writer' = w /\ store' = store
        /\ Become(w, s) /\ work' = [store EXCEPT !.log = log]
    BY DEF InsertPrepared, At
  <1>2. Ready(me, store.log)
    BY DEF IInv
  <1>3. /\ WellFormed(row) /\ Known(store.log, row.prev)
        /\ row.hash = Hash(row.user, row.action, row.prev)
    BY <1>1, <1>2 DEF WellFormed, Columns, Ready
  <1> HIDE DEF row
  <1>4. DOMAIN work' = {"log", "deleted"} /\ work'.log = log /\ work'.deleted = store.deleted
    <2> HIDE DEF log
    <2>1. QED BY <1>1 DEF IInv
  <1>5. Sound(work') /\ Kept(store.log, work'.log)
    BY <1>3, <1>4, AppendSound DEF IInv
  <1>6. pc \in Locked /\ pc \in Phases /\ (pc = "deleting" => me.action = DeleteAction) /\ pc # "writing"
        /\ pc # "hashed"
    BY DEF Locked, Phases
  <1> HIDE DEF me, pc, log
  <1>7. Ready(s, store.log) /\ s.pc = pc
    BY <1>1, <1>2, <1>6 DEF Ready
  <1> HIDE DEF s
  <1>8. QED BY <1>1, <1>4, <1>5, <1>6, <1>7, ConstantsAssumption, MoveStep

LEMMA BlankStep == ASSUME IInv, NEW w \in Workers, BlankUser(w) PROVE IInv'
  <1> DEFINE me  == worker[w]
             u   == me.user
             s   == [me EXCEPT !.pc = "done"]
             log == [i \in DOMAIN work.log |-> Blanked(work.log[i], u)]
             del == work.deleted \cup {u}
  <1>1. /\ me.pc = "deleting" /\ writer' = writer /\ store' = store
        /\ Become(w, s) /\ work' = [log |-> log, deleted |-> del]
    BY DEF BlankUser, At
  <1>2. Ready(me, store.log) /\ writer = w
    BY <1>1 DEF IInv, Locked
  <1>3. u \in Deletable
    BY <1>1, <1>2 DEF Ready
  <1>4. DOMAIN work' = {"log", "deleted"} /\ work'.log = log /\ work'.deleted = del
    <2> HIDE DEF log, del
    <2>1. QED BY <1>1
  <1> HIDE DEF me, u
  <1>5. Sound(work') /\ Kept(work.log, work'.log)
    BY <1>3, <1>4, BlankSound DEF IInv
  <1>6. Kept(store.log, work'.log)
    BY <1>5, KeptTransitive DEF IInv, Sound
  <1>7. Ready(s, store.log) /\ s.pc = "done"
    BY <1>1, <1>2 DEF Ready, Phases
  <1> HIDE DEF s, log, del
  <1>8. QED BY <1>1, <1>2, <1>4, <1>5, <1>6, <1>7, ConstantsAssumption, MoveStep DEF Locked

LEMMA FlushStep == ASSUME IInv, NEW w \in Workers, FlushChange(w) PROVE IInv'
  <1>1. PICK u \in Live, a \in WriteActions, n \in 1 .. 2 :
           Become(w, [pc |-> "writing", user |-> u, action |-> a, prev |-> Genesis, left |-> n])
    BY DEF FlushChange
  <1> DEFINE s == [pc |-> "writing", user |-> u, action |-> a, prev |-> Genesis, left |-> n]
  <1>2. Ready(s, store.log) /\ s.pc = "writing"
    BY DEF Ready, Phases, Live, Actions
  <1>3. UNCHANGED <<store, work>> /\ writer = NoWorker /\ writer' = w
    BY DEF FlushChange
  <1> HIDE DEF s
  <1>4. QED BY <1>1, <1>2, <1>3, ConstantsAssumption, MoveStep DEF IInv, Locked, s

LEMMA AppendStep == ASSUME IInv, NEW w \in Workers, AppendRow(w) PROVE IInv'
  <1> DEFINE me   == worker[w]
             row  == LogRow(work.log, me.user, me.action)
             pc   == IF me.left = 1 THEN "done" ELSE "writing"
             left == me.left - 1
             s    == [me EXCEPT !.left = left, !.pc = pc]
             log  == Append(work.log, row)
  <1>1. /\ me.pc = "writing" /\ writer' = writer /\ store' = store
        /\ Become(w, s) /\ work' = [work EXCEPT !.log = log]
    BY DEF AppendRow, At
  <1>2. Ready(me, store.log) /\ writer = w
    BY <1>1 DEF IInv, Locked
  <1>3. /\ WellFormed(row) /\ row.prev = TailHash(work.log)
        /\ row.hash = Hash(row.user, row.action, row.prev)
    BY <1>1, <1>2 DEF WellFormed, Columns, Ready, LogRow
  <1>4. Known(work.log, row.prev)
    BY <1>3, TailKnown DEF IInv, Sound
  <1> HIDE DEF row
  <1>5. DOMAIN work' = {"log", "deleted"} /\ work'.log = log /\ work'.deleted = work.deleted
    <2> HIDE DEF log
    <2>1. QED BY <1>1 DEF IInv
  <1>6. Sound(work') /\ Kept(work.log, work'.log)
    BY <1>3, <1>4, <1>5, AppendSound DEF IInv
  <1>7. Kept(store.log, work'.log)
    BY <1>6, KeptTransitive DEF IInv, Sound
  <1>8. left \in 0 .. 2 /\ (pc = "writing" => left # 0) /\ pc \in {"done", "writing"}
    BY <1>1, <1>2 DEF Ready
  <1> HIDE DEF me, pc, left, log
  <1>9. Ready(s, store.log) /\ s.pc = pc
    BY <1>1, <1>2, <1>8 DEF Ready, Phases
  <1> HIDE DEF s
  <1>10. QED BY <1>1, <1>2, <1>5, <1>6, <1>7, <1>8, <1>9, ConstantsAssumption, MoveStep DEF Locked

LEMMA CommitStep == ASSUME IInv, NEW w \in Workers, Commit(w) PROVE IInv'
  <1>1. /\ worker[w].pc = "done" /\ store' = work /\ work' = work /\ writer' = NoWorker
        /\ Become(w, Idle) /\ writer = w
    BY DEF Commit, At, IInv, Locked
  <1>2. DOMAIN worker' = Workers /\ \A v \in Workers : worker'[v] = IF v = w THEN Idle ELSE worker[v]
    BY <1>1 DEF Become, IInv
  <1>3. \A hash : Known(store.log, hash) => Known(work.log, hash)
    BY KnownStays DEF IInv, Sound
  <1>4. ASSUME NEW v \in Workers
        PROVE  Ready(worker'[v], store'.log) /\ (worker'[v].pc \in Locked <=> writer' = v)
    <2>1. CASE v = w
      BY <1>1, <1>2, <2>1, IdleReady, ConstantsAssumption DEF Locked
    <2>2. CASE v # w
      <3>1. worker'[v] = worker[v] /\ Ready(worker[v], store.log) /\ worker[v].pc \notin Locked
        BY <1>1, <1>2, <2>2 DEF IInv
      <3>2. Ready(worker[v], work.log)
        BY <1>3, <3>1 DEF Ready
      <3>3. QED BY <1>1, <3>1, <3>2, ConstantsAssumption
    <2>3. QED BY <2>1, <2>2
  <1>5. Kept(work.log, work.log)
    BY KeptReflexive DEF IInv, Sound
  <1>6. QED BY <1>1, <1>2, <1>4, <1>5 DEF IInv, Sound, IsLog, WellFormed, PointsBack, Explained,
                                          ContentHolds, Kept, Ready, Known

LEMMA FailStep == ASSUME IInv, NEW w \in Workers, Fail(w) PROVE IInv'
  <1>1. Become(w, Idle) /\ store' = store
    BY DEF Fail
  <1>2. Ready(Idle, store.log) /\ Idle.pc \notin Locked
    BY IdleReady DEF Locked
  <1>3. CASE writer = w
    <2>1. writer' = NoWorker /\ work' = store
      BY <1>3 DEF Fail
    <2>2. Kept(store.log, store.log)
      BY KeptReflexive DEF IInv, Sound
    <2>3. QED BY <1>1, <1>2, <1>3, <2>1, <2>2, ConstantsAssumption, MoveStep DEF IInv
  <1>4. CASE writer # w
    <2>1. writer' = writer /\ work' = work
      BY <1>4 DEF Fail
    <2>2. QED BY <1>1, <1>2, <1>4, <2>1, MoveStep DEF IInv
  <1>5. QED BY <1>3, <1>4
LEMMA InitIInv == Init => IInv
  <1> SUFFICES ASSUME Init PROVE IInv
    OBVIOUS
  <1>1. store.log = <<>> /\ store.deleted = {} /\ DOMAIN store = {"log", "deleted"} /\ work = store
    BY DEF Init
  <1>2. IsLog(store.log)
    <2>1. <<>> \in Seq({})
      OBVIOUS
    <2>2. QED BY <1>1, <2>1 DEF IsLog
  <1>3. Sound(store)
    BY <1>1, <1>2 DEF Sound, PointsBack, Explained
  <1>4. Kept(store.log, work.log)
    BY <1>1, <1>2, KeptReflexive
  <1>5. \A w \in Workers : worker[w] = Idle
    BY DEF Init
  <1>6. DOMAIN worker = Workers /\ writer = NoWorker
    BY DEF Init
  <1>7. \A w \in Workers : Ready(worker[w], store.log) /\ (worker[w].pc \in Locked <=> writer = w)
    BY <1>5, <1>6, IdleReady, ConstantsAssumption DEF Locked
  <1>8. QED BY <1>1, <1>3, <1>4, <1>6, <1>7 DEF IInv

LEMMA NextIInv == IInv /\ [Next]_vars => IInv'
  <1> SUFFICES ASSUME IInv, [Next]_vars PROVE IInv'
    OBVIOUS
  <1>1. CASE UNCHANGED vars
    BY <1>1 DEF vars, IInv, Sound, IsLog, WellFormed, PointsBack, Explained, ContentHolds,
                Kept, Ready, Known
  <1>2. CASE Rest
    BY <1>1, <1>2 DEF Rest
  <1>3. ASSUME NEW w \in Workers,
               \/ PrepareBare(w) \/ PrepareDelete(w) \/ InsertPrepared(w) \/ BlankUser(w)
               \/ FlushChange(w) \/ AppendRow(w) \/ Commit(w) \/ Fail(w)
        PROVE  IInv'
    BY <1>3, PrepareStep, InsertStep, BlankStep, FlushStep, AppendStep, CommitStep, FailStep
  <1>4. QED BY <1>1, <1>2, <1>3 DEF Next

LEMMA Invariance == Spec => []IInv
  BY InitIInv, NextIInv, PTL DEF Spec

LEMMA NextKeeps == ASSUME IInv, [Next]_vars PROVE Kept(store.log, store'.log)
  <1>1. Kept(store.log, store.log) /\ Kept(store.log, work.log)
    BY KeptReflexive DEF IInv, Sound
  <1>2. store' = store \/ store' = work
    BY DEF Next, vars, Rest, PrepareBare, PrepareDelete, InsertPrepared, BlankUser, FlushChange,
           AppendRow, Commit, Fail
  <1>3. QED BY <1>1, <1>2

-----------------------------------------------------------------------------
(* When the chain is valid                                                  *)

\* Requests do not overlap.
OneAtATime == \A v, w \in Workers : v = w

\* No row is logged outside the write lock.
LoggedUnderLock == BareActions = {}

\* A row that log_action builds on a valid log leaves it valid.
LEMMA LogRowValid ==
    ASSUME NEW log, IsLog(log), Valid(log), NEW user, NEW action
    PROVE  Valid(Append(log, LogRow(log, user, action)))
  <1> DEFINE row == LogRow(log, user, action)
             new == Append(log, row)
             n   == Len(log) + 1
  <1>1. PICK S : log \in Seq(S)
    BY DEF IsLog
  <1>2. log \in Seq(S \cup {row}) /\ Len(log) \in Nat
    BY <1>1
  <1>3. /\ DOMAIN new = 1 .. n /\ new[n] = row /\ \A i \in 1 .. Len(log) : new[i] = log[i]
        /\ DOMAIN log = 1 .. Len(log)
    BY <1>2
  <1>4. row.prev = TailHash(log) /\ row.hash = Hash(row.user, row.action, row.prev)
    BY DEF LogRow
  <1> HIDE DEF row, new
  <1>5. ASSUME NEW i \in 1 .. Len(log)
        PROVE  LinkHolds(new, i) /\ ContentHolds(new, i)
    <2>1. LinkHolds(log, i) /\ ContentHolds(log, i)
      BY <1>3 DEF Valid
    <2>2. new[i] = log[i] /\ (i # 1 => new[i - 1] = log[i - 1])
      BY <1>2, <1>3
    <2>3. QED BY <2>1, <2>2 DEF LinkHolds, ContentHolds, ExpectedPrev
  <1>6. LinkHolds(new, n)
    <2>1. CASE log = <<>>
      BY <1>3, <1>4, <2>1 DEF LinkHolds, ExpectedPrev, TailHash
    <2>2. CASE log # <<>>
      <3>1. n # 1 /\ n - 1 = Len(log) /\ Len(log) \in 1 .. Len(log)
        BY <1>1, <2>2
      <3>2. QED BY <1>3, <1>4, <2>2, <3>1 DEF LinkHolds, ExpectedPrev, TailHash
    <2>3. QED BY <2>1, <2>2
  <1>7. ContentHolds(new, n)
    BY <1>3, <1>4 DEF ContentHolds
  <1>8. \A i \in DOMAIN new : i \in 1 .. Len(log) \/ i = n
    BY <1>2, <1>3
  <1>9. Valid(new)
    BY <1>5, <1>6, <1>7, <1>8 DEF Valid
  <1>10. QED BY <1>9 DEF new, row

\* The log is valid, committed or not, nobody is being deleted, and a row that
\* waits for the lock, which only one request alone may have, goes on the tail.
ChainInv ==
    /\ Valid(store.log)
    /\ Valid(work.log)
    /\ \A w \in Workers :
          /\ worker[w].pc # "deleting"
          /\ worker[w].pc = "hashed" => /\ OneAtATime
                                       /\ worker[w].action # DeleteAction
                                       /\ worker[w].prev = TailHash(store.log)

\* A worker moves on while the logs stay valid; if it is not alone, nothing waits.
LEMMA ChainMove ==
    ASSUME IInv, ChainInv, NEW w \in Workers, NEW s, Become(w, s),
           Valid(store'.log), Valid(work'.log), s.pc # "deleting",
           s.pc = "hashed" => /\ OneAtATime
                              /\ s.action # DeleteAction
                              /\ s.prev = TailHash(store'.log)
    PROVE  ChainInv'
  <1>1. \A v \in Workers : worker'[v] = IF v = w THEN s ELSE worker[v]
    BY DEF Become, IInv
  <1>2. ASSUME NEW v \in Workers
        PROVE  /\ worker'[v].pc # "deleting"
               /\ worker'[v].pc = "hashed" => /\ OneAtATime
                                             /\ worker'[v].action # DeleteAction
                                             /\ worker'[v].prev = TailHash(store'.log)
    <2>1. CASE v = w
      BY <1>1, <2>1
    <2>2. CASE v # w
      <3>1. worker'[v] = worker[v] /\ ~OneAtATime
        BY <1>1, <2>2 DEF OneAtATime
      <3>2. QED BY <3>1 DEF ChainInv
    <2>3. QED BY <2>1, <2>2
  <1>3. QED BY <1>2 DEF ChainInv, Valid, LinkHolds, ContentHolds, ExpectedPrev, TailHash, OneAtATime

LEMMA ChainPrepare ==
    ASSUME IInv, ChainInv, LoggedUnderLock \/ OneAtATime,
           NEW w \in Workers, PrepareBare(w)
    PROVE  ChainInv'
  <1>1. PICK u \in Live \cup {Nobody}, a \in BareActions :
           Become(w, [pc |-> "hashed", user |-> u, action |-> a,
                      prev |-> TailHash(store.log), left |-> 0])
    BY DEF PrepareBare
  <1>2. UNCHANGED <<store, work>>
    BY DEF PrepareBare
  <1>3. a # DeleteAction /\ OneAtATime
    BY ConstantsAssumption DEF LoggedUnderLock
  <1>4. QED BY <1>1, <1>2, <1>3, ChainMove DEF ChainInv

\* The row that waited goes in as log_action would build it now.
LEMMA ChainInsert ==
    ASSUME IInv, ChainInv, NEW w \in Workers, InsertPrepared(w)
    PROVE  ChainInv'
  <1> DEFINE me  == worker[w]
             row == [user |-> me.user, action |-> me.action, prev |-> me.prev,
                     hash |-> Hash(me.user, me.action, me.prev)]
             s   == [me EXCEPT !.pc = "done"]
             log == Append(store.log, row)
  <1>1. /\ me.action # DeleteAction /\ me.prev = TailHash(store.log)
        /\ store' = store
    BY DEF InsertPrepared, At, ChainInv
  <1>2. Become(w, s) /\ work' = [store EXCEPT !.log = log]
    <2>1. (IF me.action = DeleteAction THEN "deleting" ELSE "done") = "done"
      BY <1>1
    <2>2. QED BY <2>1 DEF InsertPrepared
  <1>3. row = LogRow(store.log, me.user, me.action)
    BY <1>1 DEF LogRow
  <1>4. Valid(log)
    BY <1>3, LogRowValid DEF ChainInv, IInv, Sound
  <1> HIDE DEF log
  <1>5. work'.log = log
    BY <1>2 DEF IInv
  <1>6. s.pc = "done"
    <2>1. "pc" \in DOMAIN me
      BY DEF IInv, Ready
    <2> HIDE DEF me
    <2>2. QED BY <2>1
  <1> HIDE DEF s
  <1>7. QED BY <1>1, <1>2, <1>4, <1>5, <1>6, ChainMove DEF ChainInv

LEMMA ChainAppend ==
    ASSUME IInv, ChainInv, NEW w \in Workers, AppendRow(w)
    PROVE  ChainInv'
  <1> DEFINE me   == worker[w]
             row  == LogRow(work.log, me.user, me.action)
             pc   == IF me.left = 1 THEN "done" ELSE "writing"
             left == me.left - 1
             s    == [me EXCEPT !.left = left, !.pc = pc]
             log  == Append(work.log, row)
  <1>1. Become(w, s) /\ store' = store /\ work' = [work EXCEPT !.log = log]
    BY DEF AppendRow
  <1>2. Valid(log)
    BY LogRowValid DEF ChainInv, IInv, Sound
  <1> HIDE DEF log
  <1>3. work'.log = log
    BY <1>1 DEF IInv
  <1>4. "pc" \in DOMAIN me /\ pc \in {"done", "writing"}
    BY DEF IInv, Ready
  <1> HIDE DEF me, pc, left
  <1>5. s.pc = pc
    BY <1>4
  <1> HIDE DEF s
  <1>6. QED BY <1>1, <1>2, <1>3, <1>4, <1>5, ChainMove DEF ChainInv

LEMMA NextChainInv ==
    ASSUME Deletable = {}, LoggedUnderLock \/ OneAtATime, IInv, ChainInv, [Next]_vars
    PROVE  ChainInv'
  <1>1. CASE UNCHANGED vars
    BY <1>1 DEF vars, ChainInv, Valid, LinkHolds, ContentHolds, ExpectedPrev, TailHash, OneAtATime
  <1>2. CASE Rest
    BY <1>1, <1>2 DEF Rest
  <1>3. ASSUME NEW w \in Workers
        PROVE  ~PrepareDelete(w) /\ ~BlankUser(w)
    BY <1>3 DEF ChainInv, PrepareDelete, BlankUser, At
  <1>4. ASSUME NEW w \in Workers, FlushChange(w)
        PROVE  ChainInv'
    <2>1. PICK u \in Live, a \in WriteActions, n \in 1 .. 2 :
             Become(w, [pc |-> "writing", user |-> u, action |-> a, prev |-> Genesis, left |-> n])
      BY <1>4 DEF FlushChange
    <2>2. UNCHANGED <<store, work>>
      BY <1>4 DEF FlushChange
    <2>3. QED BY <2>1, <2>2, ChainMove DEF ChainInv
  <1>5. ASSUME NEW w \in Workers, Commit(w) \/ Fail(w)
        PROVE  ChainInv'
    <2>1. /\ Become(w, Idle) /\ Idle.pc = "idle"
          /\ store' \in {store, work} /\ work' \in {store, work}
      BY <1>5 DEF Commit, Fail, Idle
    <2>2. QED BY <2>1, ChainMove DEF ChainInv
  <1>6. QED BY <1>1, <1>2, <1>3, <1>4, <1>5, ChainPrepare, ChainInsert, ChainAppend DEF Next

-----------------------------------------------------------------------------
(* Theorems                                                                 *)

\* Every reachable state is well typed.
THEOREM TypeCorrect == Spec => []TypeOK
  <1>1. IInv => TypeOK
    BY DEF IInv, TypeOK, Sound, WellFormed, Ready
  <1>2. QED BY <1>1, Invariance, PTL

\* However requests overlap and fail, no committed row is chained to a row that
\* was rolled back (log_action).
THEOREM EveryLinkPointsBack == Spec => []LinksPointBack
  <1>1. IInv => LinksPointBack
    BY DEF IInv, Sound, PointsBack, LinksPointBack
  <1>2. QED BY <1>1, Invariance, PTL

\* The first broken link that the verification reports in a log nobody touched
\* is always a fork (log_action, verify_audit_integrity).
THEOREM BreaksAreForks == Spec => []FirstBreakIsFork
  <1>1. IInv => FirstBreakIsFork
    BY ForkFromPointsBack DEF IInv, Sound, FirstBreakIsFork
  <1>2. QED BY <1>1, Invariance, PTL

\* A hash that does not match its row belongs to a user who was deleted
\* (delete_user_account, verify_audit_integrity).
THEOREM MismatchesAreDeletions == Spec => []MismatchIsDeletion
  <1>1. IInv => MismatchIsDeletion
    BY DEF IInv, Sound, Explained, MismatchIsDeletion
  <1>2. QED BY <1>1, Invariance, PTL

\* The log only grows, and its rows lose at most their user (log_action,
\* delete_user_account).
THEOREM LogAppendOnly == Spec => RowsStay
  <1>1. ASSUME IInv, [Next]_vars
        PROVE  [/\ Len(store'.log) >= Len(store.log)
                /\ \A i \in DOMAIN store.log :
                      LET old == store.log[i]
                          new == store'.log[i]
                      IN  /\ new.action = old.action
                          /\ new.prev = old.prev
                          /\ new.hash = old.hash
                          /\ new.user \in {old.user, Nobody}]_vars
    BY <1>1, NextKeeps DEF Kept
  <1>2. QED BY <1>1, Invariance, PTL DEF Spec, RowsStay
\* verify_audit_integrity finds the log valid when no user is deleted and either
\* each row is logged after a change that took the write lock, however requests
\* overlap and fail, or requests do not overlap (log_action).
THEOREM ChainStaysValid ==
    Deletable = {} /\ (LoggedUnderLock \/ OneAtATime) => (Spec => []ChainValid)
  <1> SUFFICES ASSUME Deletable = {}, LoggedUnderLock \/ OneAtATime
               PROVE  Spec => []ChainValid
    OBVIOUS
  <1>1. Init => ChainInv
    BY DEF Init, Idle, ChainInv, Valid
  <1>2. IInv /\ ChainInv /\ [Next]_vars => ChainInv'
    BY NextChainInv
  <1>3. ChainInv => ChainValid
    BY DEF ChainInv, ChainValid
  <1>4. QED BY <1>1, <1>2, <1>3, Invariance, PTL DEF Spec
================================================================================
