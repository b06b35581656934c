------------------------- MODULE VersionControlProofs -------------------------
(***************************************************************************)
(* Proofs about VersionControl for every set of requests, records and      *)
(* values, and any bound.                                                  *)
(***************************************************************************)
EXTENDS VersionControl, TLAPS, SequenceTheorems

Restoring(q) == q.op \in {"restore", "approve"}

\* What RestoresAreForward says of one image.
Forward(d) ==
    \A e \in Entities : \A i \in DOMAIN d.hist[e] :
        LET v == d.hist[e][i]
        IN  v.type = "RESTORE" =>
                /\ v.from \in 1 .. v.number - 1
                /\ v.new.detail = d.hist[e][v.from].new.detail
                /\ v.new.status = d.hist[e][v.from].new.status

\* Image f holds all versions and rollback requests that d holds, in place.
Grows(d, f) ==
    /\ Len(f.rollbacks) >= Len(d.rollbacks)
    /\ \A e \in Entities : /\ Len(f.hist[e]) >= Len(d.hist[e])
                           /\ \A i \in DOMAIN d.hist[e] : f.hist[e][i] = d.hist[e][i]

\* What a request refers to exists: its record, its rollback request and the
\* version to restore, which it is going to repeat.  A number read without the
\* lock is at most the next one.
Placed(q, d) ==
    /\ q.pc \notin {"idle", "recorded"} => q.entity \in Entities
    /\ Restoring(q) => q.pc # "idle" /\ q.entity \in Entities
    /\ q.rollback \in 0 .. Len(d.rollbacks)
    /\ Restoring(q) => q.target \in DOMAIN d.hist[q.entity]
    /\ Restoring(q) /\ q.pc \in {"loaded", "numbered", "flushed"} =>
          /\ q.now.detail = d.hist[q.entity][q.target].new.detail
          /\ q.now.status = d.hist[q.entity][q.target].new.status
          /\ q.now.aside = q.was.aside
    /\ q.pc = "numbered" => q.number \in 1 .. Len(d.hist[q.entity]) + 1

\* A restore under way leaves every balance and phone as committed.
KeepsAside(q, d, f) ==
    q.pc \in Holding /\ Restoring(q) =>
        \A e \in Entities : f.live[e].aside = d.live[e].aside

\* The image of the write transaction is the committed database while nobody
\* writes, and the requests past their flush are exactly the lock's holder.
LockInv ==
    /\ writer = NoRequest => work = db
    /\ \A r \in Requests : req[r].pc \in Holding <=> writer = r

Sound(d) == d \in Database /\ Dense(d) /\ Forward(d)

IInv ==
    /\ TypeOK
    /\ LockInv
    /\ Sound(db) /\ Sound(work)
    /\ Grows(db, work)
    /\ \A r \in Requests : Placed(req[r], db) /\ KeepsAside(req[r], db, work)

-----------------------------------------------------------------------------
(* Images                                                                   *)

\* An image holds what it holds.
LEMMA GrowsReflexive == ASSUME NEW d \in Database PROVE Grows(d, d)
  BY DEF Grows, Database

\* An image of an image holds what the first one holds.
LEMMA GrowsTransitive ==
    ASSUME NEW d \in Database, NEW f \in Database, NEW g \in Database,
           Grows(d, f), Grows(f, g)
    PROVE  Grows(d, g)
  <1>1. Len(g.rollbacks) >= Len(d.rollbacks)
    BY DEF Grows, Database
  <1>2. ASSUME NEW e \in Entities
        PROVE  /\ Len(g.hist[e]) >= Len(d.hist[e])
               /\ \A i \in DOMAIN d.hist[e] : g.hist[e][i] = d.hist[e][i]
    <2>1. /\ d.hist[e] \in Seq(Version) /\ f.hist[e] \in Seq(Version)
          /\ g.hist[e] \in Seq(Version)
      BY DEF Database
    <2>2. \A i \in DOMAIN d.hist[e] : i \in DOMAIN f.hist[e]
      BY <2>1 DEF Grows
    <2>3. QED BY <2>1, <2>2 DEF Grows
  <1>3. QED BY <1>1, <1>2 DEF Grows

\* What exists stays.
LEMMA PlacedStays ==
    ASSUME NEW d \in Database, NEW f \in Database, Grows(d, f), NEW q \in Request, Placed(q, d)
    PROVE  Placed(q, f)
  <1>1. \A e \in Entities : d.hist[e] \in Seq(Version) /\ f.hist[e] \in Seq(Version)
    BY DEF Database
  <1>2. d.rollbacks \in Seq(Rollback) /\ f.rollbacks \in Seq(Rollback)
    BY DEF Database
  <1>3. q.rollback \in 0 .. Len(f.rollbacks)
    BY <1>2 DEF Placed, Grows
  <1>4. \A e \in Entities : \A i \in DOMAIN d.hist[e] :
            i \in DOMAIN f.hist[e] /\ f.hist[e][i] = d.hist[e][i]
    BY <1>1 DEF Grows
  <1>5. q.pc = "numbered" => q.number \in 1 .. Len(f.hist[q.entity]) + 1
    BY <1>1 DEF Placed, Grows
  <1>6. QED BY <1>3, <1>4, <1>5 DEF Placed

\* Over rows numbered 1, 2, ..., n the query for the highest number gives n + 1
\* (_next_version_number).
LEMMA NextNumberDense ==
    ASSUME NEW rows \in Seq(Version), \A i \in DOMAIN rows : rows[i].number = i
    PROVE  NextNumber(rows) = Len(rows) + 1
  <1>1. CASE rows = <<>>
    BY <1>1 DEF NextNumber
  <1>2. CASE rows # <<>>
    <2> DEFINE Highest(i) == \A j \in DOMAIN rows : rows[j].number <= rows[i].number
    <2>1. Len(rows) \in DOMAIN rows /\ Len(rows) \in Nat
      BY <1>2
    <2>2. Highest(Len(rows))
      BY <2>1
    <2>3. \A i \in DOMAIN rows : Highest(i) => i = Len(rows)
      BY <2>1
    <2>4. (CHOOSE i \in DOMAIN rows : Highest(i)) = Len(rows)
      <3> HIDE DEF Highest
      <3> QED BY <2>1, <2>2, <2>3
    <2>5. NextNumber(rows) = rows[CHOOSE i \in DOMAIN rows : Highest(i)].number + 1
      BY <1>2 DEF NextNumber
    <2>6. QED BY <2>1, <2>4, <2>5
  <1>3. QED BY <1>1, <1>2

-----------------------------------------------------------------------------
(* Rows and versions                                                        *)

\* A row is its five columns.
LEMMA RowColumns ==
    ASSUME NEW row \in Row
    PROVE  /\ row = [detail |-> row.detail, status |-> row.status, aside |-> row.aside,
                     number |-> row.number, stamp |-> row.stamp]
           /\ DOMAIN row = {"detail", "status", "aside", "number", "stamp"}
  BY DEF Row

\* A snapshot (to_dict) is a row with the same editable columns.
LEMMA SnapshotRow ==
    ASSUME NEW e, NEW row \in Row
    PROVE  /\ Snapshot(e, row) \in Row
           /\ Snapshot(e, row).detail = row.detail
           /\ Snapshot(e, row).status = row.status
  <1> DEFINE x == [row EXCEPT !.aside = FirstAside, !.stamp = 0]
  <1>1. FirstAside \in Asides /\ 0 \in Nat
    BY ConstantsAssumption
  <1>2. /\ DOMAIN x = DOMAIN row /\ x.aside = FirstAside /\ x.stamp = 0
        /\ x.detail = row.detail /\ x.status = row.status /\ x.number = row.number
        /\ x = [c \in DOMAIN row |-> x[c]]
    BY RowColumns
  <1> HIDE DEF x
  <1>3. x = [detail |-> row.detail, status |-> row.status, aside |-> FirstAside,
             number |-> row.number, stamp |-> 0]
    BY <1>2, RowColumns
  <1>4. /\ row.detail \in Details /\ row.status \in {"active", "inactive"}
        /\ row.number \in Nat
    BY DEF Row
  <1>5. x \in Row
    BY <1>1, <1>3, <1>4 DEF Row
  <1>6. Snapshot(e, row) = IF Kind[e] = "USER_PROFILE" THEN x ELSE row
    BY DEF Snapshot, x
  <1>7. QED BY <1>2, <1>5, <1>6

\* Counting a record's version changes no other column.
LEMMA BumpedRow ==
    ASSUME NEW e, NEW row \in Row
    PROVE  /\ Bumped(e, row) \in Row
           /\ Bumped(e, row).detail = row.detail
           /\ Bumped(e, row).status = row.status
           /\ Bumped(e, row).aside = row.aside
           /\ Bumped(e, row).stamp = row.stamp
           /\ Kind[e] # "USER_PROFILE" => Bumped(e, row).number # row.number
  <1> DEFINE n == row.number + 1
  <1>1. n \in Nat /\ n # row.number
    BY DEF Row
  <1>2. [row EXCEPT !.number = n] =
          [detail |-> row.detail, status |-> row.status, aside |-> row.aside, number |-> n,
           stamp |-> row.stamp]
    <2> HIDE DEF n
    <2> QED BY RowColumns
  <1>3. Bumped(e, row) = IF Kind[e] = "USER_PROFILE" THEN row ELSE [row EXCEPT !.number = n]
    BY DEF Bumped
  <1> HIDE DEF n
  <1>4. QED BY <1>1, <1>2, <1>3 DEF Row

\* A restored row has the snapshot's columns and keeps its own aside.
LEMMA WithSnapshotRow ==
    ASSUME NEW row \in Row, NEW snapshot \in Row
    PROVE  /\ WithSnapshot(row, snapshot) \in Row
           /\ WithSnapshot(row, snapshot).detail = snapshot.detail
           /\ WithSnapshot(row, snapshot).status = snapshot.status
           /\ WithSnapshot(row, snapshot).aside = row.aside
           /\ WithSnapshot(row, snapshot).number = row.number
           /\ WithSnapshot(row, snapshot).stamp = row.stamp
  <1> DEFINE x == snapshot.detail
             y == snapshot.status
  <1>1. WithSnapshot(row, snapshot) = [row EXCEPT !.detail = x, !.status = y]
    BY DEF WithSnapshot
  <1>2. x \in Details /\ y \in {"active", "inactive"}
    BY DEF Row
  <1>3. WithSnapshot(row, snapshot) =
          [detail |-> x, status |-> y, aside |-> row.aside, number |-> row.number,
           stamp |-> row.stamp]
    <2> HIDE DEF x, y
    <2> QED BY <1>1, RowColumns
  <1>4. QED BY <1>2, <1>3 DEF Row

\* The UPDATE leaves a column alone that the session did not change.
LEMMA MergeRow ==
    ASSUME NEW row \in Row, NEW was \in Row, NEW now \in Row
    PROVE  /\ Merge(row, was, now) \in Row
           /\ now.aside = was.aside => Merge(row, was, now).aside = row.aside
  <1>1. Merge(row, was, now) =
          [detail |-> IF now.detail = was.detail THEN row.detail ELSE now.detail,
           status |-> IF now.status = was.status THEN row.status ELSE now.status,
           aside  |-> IF now.aside = was.aside THEN row.aside ELSE now.aside,
           number |-> IF now.number = was.number THEN row.number ELSE now.number,
           stamp  |-> row.stamp + 1]
    BY RowColumns DEF Merge
  <1>2. QED BY <1>1 DEF Row

\* A snapshot taken after the flush differs in the timestamp only.
LEMMA FlushedRow ==
    ASSUME NEW q, q.now \in Row, NEW row \in Row
    PROVE  /\ Flushed(q, row) \in Row
           /\ Flushed(q, row).detail = q.now.detail
           /\ Flushed(q, row).status = q.now.status
           /\ Flushed(q, row).aside = q.now.aside
  <1> DEFINE n   == row.stamp
             now == q.now
  <1>1. n \in Nat /\ now \in Row
    BY DEF Row
  <1>2. Flushed(q, row) = now \/ Flushed(q, row) = [now EXCEPT !.stamp = n]
    BY DEF Flushed
  <1> HIDE DEF n, now
  <1>3. [now EXCEPT !.stamp = n] =
          [detail |-> now.detail, status |-> now.status, aside |-> now.aside,
           number |-> now.number, stamp |-> n]
    BY <1>1, RowColumns
  <1>4. QED BY <1>1, <1>2, <1>3 DEF Row, now

\* The version that a request writes repeats what the request restores.
LEMMA VersionOfType ==
    ASSUME db \in Database, NEW q \in Request, q.pc \in {"numbered", "flushed"},
           Placed(q, db), NEW n \in Nat
    PROVE  /\ VersionOf(q, n) \in Version
           /\ VersionOf(q, n).number = n
           /\ VersionOf(q, n).type = "RESTORE" <=> Restoring(q)
           /\ VersionOf(q, n).from = q.target
           /\ VersionOf(q, n).new.detail = q.now.detail
           /\ VersionOf(q, n).new.status = q.now.status
  <1> DEFINE old == IF q.op = "restore" THEN TargetOf(q) ELSE Snapshot(q.entity, q.was)
             new == Snapshot(q.entity, q.now)
  <1>1. /\ q.was \in Row /\ q.now \in Row /\ q.target \in Nat /\ q.rollback \in Nat
        /\ q.entity \in Entities
    BY DEF Request, Placed
  <1>2. new \in Row /\ new.detail = q.now.detail /\ new.status = q.now.status
    BY <1>1, SnapshotRow
  <1>3. ASSUME q.op = "restore" PROVE TargetOf(q) \in Row
    <2>1. q.target \in DOMAIN db.hist[q.entity] /\ db.hist[q.entity] \in Seq(Version)
      BY <1>1, <1>3 DEF Placed, Restoring, Database
    <2>2. db.hist[q.entity][q.target] \in Version
      BY <2>1
    <2>3. QED BY <2>2 DEF TargetOf, Version
  <1>4. old \in Row
    BY <1>1, <1>3, SnapshotRow
  <1>5. /\ TypeOf(q) \in {"CREATE", "UPDATE", "DELETE", "RESTORE"}
        /\ TypeOf(q) = "RESTORE" <=> Restoring(q)
    BY DEF TypeOf, Restoring
  <1>6. VersionOf(q, n) = [number |-> n, type |-> TypeOf(q), old |-> old, new |-> new,
                           from |-> q.target, reason |-> q.rollback]
    BY DEF VersionOf
  <1> HIDE DEF old, new
  <1>7. QED BY <1>1, <1>2, <1>4, <1>5, <1>6 DEF Version

\* Marking a rollback request changes neither versions nor records.
LEMMA ExecutedImage ==
    ASSUME NEW d \in Database, Dense(d), Forward(d), NEW k \in 0 .. Len(d.rollbacks)
    PROVE  /\ Sound(Executed(d, k))
           /\ Grows(d, Executed(d, k))
           /\ Executed(d, k).live = d.live
  <1>1. CASE k = 0
    BY <1>1, GrowsReflexive DEF Executed, Sound
  <1>2. CASE k # 0
    <2> DEFINE b    == [d.rollbacks[k] EXCEPT !.status = "EXECUTED"]
               rows == [d.rollbacks EXCEPT ![k] = b]
               f    == [live |-> d.live, hist |-> d.hist, rollbacks |-> rows,
                        gone |-> d.gone]
    <2>1. d.rollbacks \in Seq(Rollback) /\ k \in DOMAIN d.rollbacks
      BY <1>2 DEF Database
    <2>2. b \in Rollback
      <3>1. d.rollbacks[k] \in Rollback
        BY <2>1
      <3>2. QED BY <3>1 DEF Rollback
    <2>3. Executed(d, k) = [d EXCEPT !.rollbacks[k].status = "EXECUTED"]
      BY <1>2 DEF Executed
    <2>4. Executed(d, k) = f
      BY <2>3 DEF Database
    <2> HIDE DEF b
    <2>5. rows \in Seq(Rollback) /\ Len(rows) = Len(d.rollbacks)
      BY <2>1, <2>2
    <2> HIDE DEF rows
    <2>6. f \in Database
      BY <2>5 DEF Database
    <2>7. Dense(f) /\ Forward(f)
      BY DEF Dense, Forward
    <2>8. Grows(d, f)
      BY <2>5, GrowsReflexive DEF Grows
    <2>9. QED BY <2>4, <2>6, <2>7, <2>8 DEF Sound
  <1>3. QED BY <1>1, <1>2

\* A version with the next number, which repeats the version it restores, can be
\* added to an image.
LEMMA AppendVersion ==
    ASSUME NEW d \in Database, Dense(d), Forward(d), NEW e \in Entities, NEW v \in Version,
           v.number = Len(d.hist[e]) + 1,
           v.type = "RESTORE" => /\ v.from \in DOMAIN d.hist[e]
                                 /\ v.new.detail = d.hist[e][v.from].new.detail
                                 /\ v.new.status = d.hist[e][v.from].new.status,
           NEW g, g = [d EXCEPT !.hist[e] = Append(@, v)]
    PROVE  Sound(g) /\ Grows(d, g) /\ g.live = d.live /\ g.rollbacks = d.rollbacks
  <1> DEFINE rows == Append(d.hist[e], v)
             hist == [d.hist EXCEPT ![e] = rows]
             f    == [live |-> d.live, hist |-> hist, rollbacks |-> d.rollbacks,
                      gone |-> d.gone]
  <1>1. d.hist[e] \in Seq(Version) /\ d.hist \in [Entities -> Seq(Version)]
    BY DEF Database
  <1>2. g = f
    <2>1. g = [d EXCEPT !.hist = hist]
      OBVIOUS
    <2> HIDE DEF hist
    <2>2. QED BY <2>1 DEF Database
  <1>3. /\ rows \in Seq(Version) /\ Len(rows) = Len(d.hist[e]) + 1
        /\ DOMAIN rows = 1 .. Len(d.hist[e]) + 1
        /\ rows[Len(d.hist[e]) + 1] = v
        /\ \A i \in DOMAIN d.hist[e] : i \in DOMAIN rows /\ rows[i] = d.hist[e][i]
        /\ DOMAIN d.hist[e] = 1 .. Len(d.hist[e]) /\ Len(d.hist[e]) \in Nat
    BY <1>1
  <1> HIDE DEF rows
  <1>4. hist \in [Entities -> Seq(Version)]
    BY <1>1, <1>3
  <1>5. hist[e] = rows /\ \A n \in Entities : n # e => hist[n] = d.hist[n]
    BY <1>1
  <1> HIDE DEF hist
  <1>6. f \in Database
    BY <1>4 DEF Database
  <1>7. Grows(d, f)
    <2>1. Len(f.rollbacks) >= Len(d.rollbacks)
      BY DEF Database
    <2>2. ASSUME NEW n \in Entities
          PROVE  /\ Len(f.hist[n]) >= Len(d.hist[n])
                 /\ \A i \in DOMAIN d.hist[n] : f.hist[n][i] = d.hist[n][i]
      <3>1. CASE n = e
        BY <3>1, <1>3, <1>5
      <3>2. CASE n # e
        BY <3>2, <1>5, GrowsReflexive DEF Grows
      <3>3. QED BY <3>1, <3>2
    <2>3. QED BY <2>1, <2>2 DEF Grows
  <1>8. Dense(f)
    <2> SUFFICES ASSUME NEW n \in Entities, NEW i \in DOMAIN f.hist[n]
                 PROVE  f.hist[n][i].number = i
      BY DEF Dense
    <2>1. CASE n # e
      BY <2>1, <1>5 DEF Dense
    <2>2. CASE n = e /\ i \in DOMAIN d.hist[e]
      BY <2>2, <1>3, <1>5 DEF Dense
    <2>3. CASE n = e /\ i = Len(d.hist[e]) + 1
      BY <2>3, <1>3, <1>5
    <2>4. QED BY <2>1, <2>2, <2>3, <1>3, <1>5
  <1>9. Forward(f)
    <2> SUFFICES ASSUME NEW n \in Entities, NEW i \in DOMAIN f.hist[n],
                        f.hist[n][i].type = "RESTORE"
                 PROVE  /\ f.hist[n][i].from \in 1 .. f.hist[n][i].number - 1
                        /\ f.hist[n][i].new.detail = f.hist[n][f.hist[n][i].from].new.detail
                        /\ f.hist[n][i].new.status = f.hist[n][f.hist[n][i].from].new.status
      BY DEF Forward
    <2>1. CASE n # e
      BY <2>1, <1>5 DEF Forward
    <2>2. CASE n = e /\ i \in DOMAIN d.hist[e]
      <3>1. f.hist[n][i] = d.hist[e][i] /\ f.hist[n] = rows
        BY <2>2, <1>3, <1>5
      <3>2. d.hist[e][i].number = i
        BY <2>2 DEF Dense
      <3>3. d.hist[e][i].from \in 1 .. d.hist[e][i].number - 1
        BY <2>2, <3>1 DEF Forward
      <3>4. d.hist[e][i].from \in DOMAIN d.hist[e]
        BY <2>2, <3>2, <3>3, <1>3
      <3>5. rows[d.hist[e][i].from] = d.hist[e][d.hist[e][i].from]
        BY <3>4, <1>3
      <3>6. /\ d.hist[e][i].new.detail = d.hist[e][d.hist[e][i].from].new.detail
            /\ d.hist[e][i].new.status = d.hist[e][d.hist[e][i].from].new.status
        BY <2>2, <3>1 DEF Forward
      <3>7. QED BY <3>1, <3>3, <3>5, <3>6
    <2>3. CASE n = e /\ i = Len(d.hist[e]) + 1
      <3>1. f.hist[n][i] = v /\ f.hist[n] = rows
        BY <2>3, <1>3, <1>5
      <3>2. v.from \in DOMAIN d.hist[e] /\ rows[v.from] = d.hist[e][v.from]
        BY <3>1, <1>3
      <3>3. v.from \in 1 .. v.number - 1
        BY <3>2, <1>3
      <3>4. QED BY <3>1, <3>2, <3>3
    <2>4. QED BY <2>1, <2>2, <2>3, <1>3, <1>5
  <1>10. QED BY <1>2, <1>6, <1>7, <1>8, <1>9 DEF Sound

\* create_version with the next number.
LEMMA WithVersionSound ==
    ASSUME db \in Database, NEW d \in Database, Dense(d), Forward(d), Grows(db, d),
           NEW q \in Request, q.pc \in {"numbered", "flushed"}, Placed(q, db)
    PROVE  LET f == WithVersion(d, q, Len(d.hist[q.entity]) + 1)
           IN  Sound(f) /\ Grows(d, f) /\ f.live = d.live
  <1> DEFINE n == Len(d.hist[q.entity]) + 1
             v == VersionOf(q, n)
             f == [d EXCEPT !.hist[q.entity] = Append(@, v)]
  <1>1. q.entity \in Entities
    BY DEF Placed
  <1>2. n \in Nat
    BY <1>1 DEF Database
  <1>3. Placed(q, d)
    BY PlacedStays
  <1>4. /\ v \in Version /\ v.number = n /\ v.from = q.target
        /\ v.type = "RESTORE" => Restoring(q)
        /\ v.new.detail = q.now.detail /\ v.new.status = q.now.status
    BY <1>2, VersionOfType
  <1>5. Restoring(q) => /\ q.target \in DOMAIN d.hist[q.entity]
                        /\ q.now.detail = d.hist[q.entity][q.target].new.detail
                        /\ q.now.status = d.hist[q.entity][q.target].new.status
    BY <1>3 DEF Placed
  <1>6. WithVersion(d, q, n) = Executed(f, q.rollback)
    BY DEF WithVersion
  <1> HIDE DEF v
  <1>7. Sound(f) /\ Grows(d, f) /\ f.live = d.live /\ f.rollbacks = d.rollbacks
    BY <1>1, <1>4, <1>5, AppendVersion
  <1> HIDE DEF n, f
  <1>8. q.rollback \in 0 .. Len(f.rollbacks)
    BY <1>3, <1>7 DEF Placed
  <1>9. /\ Sound(Executed(f, q.rollback)) /\ Grows(f, Executed(f, q.rollback))
        /\ Executed(f, q.rollback).live = f.live
    BY <1>7, <1>8, ExecutedImage DEF Sound
  <1>10. Grows(d, Executed(f, q.rollback))
    BY <1>7, <1>9, GrowsTransitive DEF Sound
  <1>11. QED BY <1>6, <1>7, <1>9, <1>10 DEF n

-----------------------------------------------------------------------------
(* The kinds of steps                                                       *)

\* An idle request refers to nothing.
LEMMA IdlePlaced ==
    /\ Idle \in Request /\ Idle.pc = "idle" /\ Idle.op = "none"
    /\ \A d \in Database : Placed(Idle, d)
  <1>1. FirstRow \in Row
    BY ConstantsAssumption DEF FirstRow, Row
  <1>2. Idle \in Request /\ Idle.pc = "idle" /\ Idle.op = "none" /\ Idle.rollback = 0
    BY <1>1 DEF Idle, Request, Phases, Operations
  <1>3. ASSUME NEW d \in Database PROVE Placed(Idle, d)
    <2>1. Len(d.rollbacks) \in Nat
      BY DEF Database
    <2>2. QED BY <1>2, <2>1 DEF Placed, Restoring
  <1>4. QED BY <1>2, <1>3

\* A step of a request that does not hold the lock and takes nothing.
LEMMA LocalStep ==
    ASSUME IInv, NEW r \in Requests, NEW s, s \in Request, s.pc \notin Holding,
           Placed(s, db), req[r].pc \notin Holding, Become(r, s),
           UNCHANGED <<db, work, writer>>
    PROVE  IInv'
  <1>1. req' = [req EXCEPT ![r] = s] /\ req \in [Requests -> Request]
    BY DEF Become, IInv, TypeOK
  <1>2. \A p \in Requests : req'[p] = IF p = r THEN s ELSE req[p]
    BY <1>1
  <1>3. TypeOK'
    BY <1>1 DEF IInv, TypeOK
  <1>4. LockInv'
    BY <1>2 DEF IInv, LockInv
  <1>5. \A p \in Requests : Placed(req'[p], db) /\ KeepsAside(req'[p], db, work)
    BY <1>2 DEF IInv, KeepsAside
  <1>6. Sound(db)' /\ Sound(work)' /\ Grows(db, work)'
    <2>1. Sound(db) /\ Sound(work) /\ Grows(db, work)
      BY DEF IInv
    <2>2. Sound(db)'
      BY <2>1 DEF Sound, Dense, Forward
    <2>3. Sound(work)'
      BY <2>1 DEF Sound, Dense, Forward
    <2>4. Grows(db, work)'
      BY <2>1 DEF Grows
    <2>5. QED BY <2>2, <2>3, <2>4
  <1>7. \A p \in Requests : (Placed(req[p], db) /\ KeepsAside(req[p], db, work))'
    BY <1>5 DEF Placed, KeepsAside
  <1>8. QED BY <1>3, <1>4, <1>6, <1>7 DEF IInv

\* Taking the lock with a first image.
LEMMA TakeStep ==
    ASSUME IInv, NEW r \in Requests, NEW s, s \in Request, s.pc \in Holding,
           Placed(s, db), NEW image, Sound(image), Grows(db, image),
           KeepsAside(s, db, image), Take(r, image, s)
    PROVE  IInv'
  <1>1. /\ req' = [req EXCEPT ![r] = s] /\ req \in [Requests -> Request]
        /\ writer = NoRequest /\ writer' = r /\ work' = image /\ db' = db
    BY DEF Take, Become, IInv, TypeOK
  <1>2. \A p \in Requests : req'[p] = IF p = r THEN s ELSE req[p]
    BY <1>1
  <1>3. TypeOK'
    BY <1>1 DEF IInv, TypeOK, Sound
  <1>4. NoRequest \notin Requests
    BY ConstantsAssumption
  <1>5. \A p \in Requests : req[p].pc \notin Holding
    BY <1>1, <1>4 DEF IInv, LockInv
  <1>6. LockInv'
    BY <1>1, <1>2, <1>4, <1>5 DEF LockInv
  <1>7. \A p \in Requests : Placed(req'[p], db) /\ KeepsAside(req'[p], db, image)
    BY <1>2, <1>5 DEF IInv, KeepsAside
  <1>8. Sound(db)' /\ Sound(work)' /\ Grows(db, work)'
    <2>1. Sound(db)'
      BY <1>1 DEF IInv, Sound, Dense, Forward
    <2>2. Sound(work)'
      BY <1>1 DEF Sound, Dense, Forward
    <2>3. Grows(db, work)'
      BY <1>1 DEF Grows
    <2>4. QED BY <2>1, <2>2, <2>3
  <1>9. \A p \in Requests : (Placed(req[p], db) /\ KeepsAside(req[p], db, work))'
    BY <1>1, <1>7 DEF Placed, KeepsAside
  <1>10. QED BY <1>3, <1>6, <1>8, <1>9 DEF IInv

\* create_version after a flush: the number is read under the lock.
LEMMA RecordStep ==
    ASSUME IInv, NEW r \in Requests, Record(r)
    PROVE  IInv'
  <1> DEFINE q    == req[r]
             n    == Len(work.hist[q.entity]) + 1
             next == WithVersion(work, q, n)
             s    == [q EXCEPT !.pc = "recorded"]
  <1>1. /\ q \in Request /\ q.pc = "flushed" /\ Placed(q, db) /\ q.entity \in Entities
        /\ db \in Database /\ work \in Database /\ Dense(work) /\ Forward(work)
        /\ Grows(db, work) /\ KeepsAside(q, db, work)
    BY DEF Record, IInv, TypeOK, Sound, Placed
  <1>2. NextNumber(work.hist[q.entity]) = n
    BY <1>1, NextNumberDense DEF Database, Dense
  <1>3. /\ work' = next /\ req' = [req EXCEPT ![r] = s] /\ db' = db /\ writer' = writer
        /\ req \in [Requests -> Request]
    BY <1>2 DEF Record, Become, IInv, TypeOK
  <1> HIDE DEF q
  <1>4. Sound(next) /\ Grows(work, next) /\ next.live = work.live
    BY <1>1, WithVersionSound
  <1>5. /\ s \in Request /\ s.pc = "recorded" /\ s.op = q.op /\ s.entity = q.entity
        /\ s.rollback = q.rollback /\ s.target = q.target
    BY <1>1 DEF Request, Phases
  <1> HIDE DEF n, next, s
  <1>6. Grows(db, next)
    BY <1>1, <1>4, GrowsTransitive DEF Sound
  <1>7. Placed(s, db) /\ KeepsAside(s, db, next)
    BY <1>1, <1>4, <1>5 DEF Placed, KeepsAside, Restoring, Holding
  <1>8. \A p \in Requests : req'[p] = IF p = r THEN s ELSE req[p]
    BY <1>3
  <1>9. TypeOK'
    BY <1>3, <1>4, <1>5 DEF IInv, TypeOK, Sound
  <1>10. writer = r /\ r # NoRequest
    BY <1>1, ConstantsAssumption DEF IInv, LockInv, Holding, q
  <1>11. LockInv'
    BY <1>3, <1>5, <1>8, <1>10 DEF IInv, LockInv, Holding
  <1>12. \A p \in Requests : p # r => req[p].pc \notin Holding
    BY <1>10 DEF IInv, LockInv
  <1>13. \A p \in Requests : Placed(req'[p], db) /\ KeepsAside(req'[p], db, next)
    BY <1>7, <1>8, <1>12 DEF IInv, KeepsAside
  <1>14. Sound(db)' /\ Sound(work)' /\ Grows(db, work)'
    <2>1. Sound(db) /\ db' = db /\ work' = next
      BY <1>3 DEF IInv
    <2>2. Sound(db)'
      BY <2>1 DEF Sound, Dense, Forward
    <2>3. Sound(work)'
      BY <1>4, <2>1 DEF Sound, Dense, Forward
    <2>4. Grows(db, work)'
      BY <1>6, <2>1 DEF Grows
    <2>5. QED BY <2>2, <2>3, <2>4
  <1>15. \A p \in Requests : (Placed(req[p], db) /\ KeepsAside(req[p], db, work))'
    BY <1>3, <1>13 DEF Placed, KeepsAside
  <1>16. QED BY <1>9, <1>11, <1>14, <1>15 DEF IInv

\* The image becomes the committed database; what requests refer to stays.
LEMMA CommitStep ==
    ASSUME IInv, NEW r \in Requests, Commit(r)
    PROVE  IInv'
  <1>1. /\ db' = work /\ work' = work /\ writer' = NoRequest
        /\ req' = [req EXCEPT ![r] = Idle] /\ req \in [Requests -> Request]
        /\ req[r].pc \in Holding
    BY DEF Commit, Become, IInv, TypeOK, Holding
  <1>2. \A p \in Requests : req'[p] = IF p = r THEN Idle ELSE req[p]
    BY <1>1
  <1>3. TypeOK'
    BY <1>1, IdlePlaced DEF IInv, TypeOK
  <1>4. writer = r /\ NoRequest \notin Requests
    BY <1>1, ConstantsAssumption DEF IInv, LockInv
  <1>5. \A p \in Requests : p # r => req[p].pc \notin Holding
    BY <1>4 DEF IInv, LockInv
  <1>6. LockInv'
    BY <1>1, <1>2, <1>4, <1>5, IdlePlaced DEF LockInv, Holding
  <1>7. db \in Database /\ work \in Database
    BY DEF IInv, TypeOK
  <1>8. ASSUME NEW p \in Requests
        PROVE  Placed(req'[p], work) /\ KeepsAside(req'[p], work, work)
    <2>1. CASE p = r
      BY <2>1, <1>2, <1>7, IdlePlaced DEF KeepsAside, Holding
    <2>2. CASE p # r
      <3>1. req'[p] = req[p] /\ req[p] \in Request /\ Placed(req[p], db)
        BY <2>2, <1>1, <1>2 DEF IInv
      <3>2. Placed(req[p], work)
        BY <3>1, <1>7, PlacedStays DEF IInv
      <3>3. QED BY <3>1, <3>2 DEF KeepsAside
    <2>3. QED BY <2>1, <2>2
  <1>9. Sound(db)' /\ Sound(work)' /\ Grows(db, work)'
    <2>1. Sound(work) /\ Grows(work, work)
      BY <1>7, GrowsReflexive DEF IInv
    <2>2. Sound(db)'
      BY <1>1, <2>1 DEF Sound, Dense, Forward
    <2>3. Sound(work)'
      BY <1>1, <2>1 DEF Sound, Dense, Forward
    <2>4. Grows(db, work)'
      BY <1>1, <2>1 DEF Grows
    <2>5. QED BY <2>2, <2>3, <2>4
  <1>10. \A p \in Requests : (Placed(req[p], db) /\ KeepsAside(req[p], db, work))'
    BY <1>1, <1>8 DEF Placed, KeepsAside
  <1>11. QED BY <1>3, <1>6, <1>9, <1>10 DEF IInv

\* A failure gives up the request and the image, if it has one.
LEMMA GiveUpStep ==
    ASSUME IInv, NEW r \in Requests, Fail(r)
    PROVE  IInv'
  <1>1. CASE writer # r
    <2>1. req[r].pc \notin Holding
      BY <1>1 DEF IInv, LockInv
    <2>2. UNCHANGED <<db, work, writer>> /\ Become(r, Idle)
      BY <1>1 DEF Fail
    <2>3. Idle \in Request /\ Idle.pc \notin Holding /\ Placed(Idle, db)
      BY IdlePlaced DEF IInv, TypeOK, Holding
    <2>4. QED BY <2>1, <2>2, <2>3, LocalStep
  <1>2. CASE writer = r
    <2>1. /\ db' = db /\ work' = db /\ writer' = NoRequest
          /\ req' = [req EXCEPT ![r] = Idle] /\ req \in [Requests -> Request]
      BY <1>2 DEF Fail, Become, IInv, TypeOK
    <2>2. \A p \in Requests : req'[p] = IF p = r THEN Idle ELSE req[p]
      BY <2>1
    <2>3. TypeOK'
      BY <2>1, IdlePlaced DEF IInv, TypeOK
    <2>4. NoRequest \notin Requests /\ \A p \in Requests : p # r => req[p].pc \notin Holding
      BY <1>2, ConstantsAssumption DEF IInv, LockInv
    <2>5. LockInv'
      BY <2>1, <2>2, <2>4, IdlePlaced DEF LockInv, Holding
    <2>6. \A p \in Requests : Placed(req'[p], db) /\ KeepsAside(req'[p], db, db)
      BY <2>2, IdlePlaced DEF IInv, TypeOK, KeepsAside
    <2>7. Sound(db)' /\ Sound(work)' /\ Grows(db, work)'
      <3>1. Sound(db) /\ Grows(db, db)
        BY GrowsReflexive DEF IInv, TypeOK
      <3>2. Sound(db)'
        BY <2>1, <3>1 DEF Sound, Dense, Forward
      <3>3. Sound(work)'
        BY <2>1, <3>1 DEF Sound, Dense, Forward
      <3>4. Grows(db, work)'
        BY <2>1, <3>1 DEF Grows
      <3>5. QED BY <3>2, <3>3, <3>4
    <2>8. \A p \in Requests : (Placed(req[p], db) /\ KeepsAside(req[p], db, work))'
      BY <2>1, <2>6 DEF Placed, KeepsAside
    <2>9. QED BY <2>3, <2>5, <2>7, <2>8 DEF IInv
  <1>3. QED BY <1>1, <1>2

-----------------------------------------------------------------------------
(* Every action is one of these steps                                       *)

\* What a committed history says of a version that may be restored.
LEMMA TargetRow ==
    ASSUME NEW d \in Database, NEW e \in Entities, NEW n \in DOMAIN d.hist[e]
    PROVE  d.hist[e][n].new \in Row /\ n \in Nat
  <1>1. d.hist[e] \in Seq(Version)
    BY DEF Database
  <1>2. d.hist[e][n] \in Version /\ n \in Nat
    BY <1>1
  <1>3. QED BY <1>2 DEF Version

\* A handler loads a record and changes it in memory.
LEMMA ChangeStep ==
    ASSUME IInv, NEW r \in Requests, NEW op \in Operations \ {"none", "restore", "approve", "remove"},
           NEW e \in Entities, NEW new \in Row, Change(r, op, e, new)
    PROVE  IInv'
  <1> DEFINE was == db.live[e]
             s   == [Idle EXCEPT !.pc = "loaded", !.op = op, !.entity = e,
                                 !.was = was, !.now = new]
  <1>1. /\ Become(r, s) /\ UNCHANGED <<db, work, writer>> /\ req[r].pc = "idle"
        /\ db \in Database
    BY DEF Change, MayStart, IInv, TypeOK
  <1>2. was \in Row
    BY <1>1 DEF Database
  <1>3. Len(db.rollbacks) \in Nat
    BY <1>1 DEF Database
  <1> HIDE DEF was
  <1>4. s \in Request /\ s.pc = "loaded" /\ s.op = op /\ s.entity = e /\ s.rollback = 0
    BY <1>2, IdlePlaced DEF Idle, Request, Phases
  <1> HIDE DEF s
  <1>5. Placed(s, db) /\ s.pc \notin Holding
    BY <1>3, <1>4 DEF Placed, Restoring, Holding
  <1>6. QED BY <1>1, <1>4, <1>5, LocalStep DEF Holding

\* The handlers that change a record in memory.
LEMMA StartChange ==
    ASSUME IInv, NEW r \in Requests,
           EditBeneficiary(r) \/ Deactivate(r) \/ EditProfile(r) \/ Toggle(r) \/ Unlock(r) \/ Post(r)
    PROVE  IInv'
  <1>1. db \in Database /\ \A e \in Entities : db.live[e] \in Row
    BY DEF IInv, TypeOK, Database
  <1>2. ASSUME NEW e \in Entities, NEW x \in Details
        PROVE  [db.live[e] EXCEPT !.detail = x] \in Row
    BY <1>1 DEF Row
  <1>3. ASSUME NEW e \in Entities, NEW y \in Asides
        PROVE  [db.live[e] EXCEPT !.aside = y] \in Row
    BY <1>1 DEF Row
  <1>4. ASSUME NEW e \in Entities, NEW z \in {"active", "inactive"}
        PROVE  [db.live[e] EXCEPT !.status = z] \in Row
    BY <1>1 DEF Row
  <1>5. CASE EditBeneficiary(r)
    <2>1. PICK e \in Entities, x \in Details :
             Change(r, "edit", e, Bumped(e, [db.live[e] EXCEPT !.detail = x]))
      BY <1>5 DEF EditBeneficiary
    <2> DEFINE new == Bumped(e, [db.live[e] EXCEPT !.detail = x])
    <2>2. new \in Row
      BY <1>2, BumpedRow
    <2> HIDE DEF new
    <2>3. Change(r, "edit", e, new) /\ "edit" \in Operations
      BY <2>1 DEF new, Operations
    <2>4. QED BY <2>2, <2>3, ChangeStep
  <1>6. CASE Deactivate(r)
    <2>1. PICK e \in Entities :
             Change(r, "deactivate", e, Bumped(e, [db.live[e] EXCEPT !.status = "inactive"]))
      BY <1>6 DEF Deactivate
    <2> DEFINE new == Bumped(e, [db.live[e] EXCEPT !.status = "inactive"])
    <2>2. new \in Row
      BY <1>4, BumpedRow
    <2> HIDE DEF new
    <2>3. Change(r, "deactivate", e, new) /\ "deactivate" \in Operations
      BY <2>1 DEF new, Operations
    <2>4. QED BY <2>2, <2>3, ChangeStep
  <1>7. CASE EditProfile(r)
    <2>1. PICK e \in Entities, x \in Details, y \in Asides :
             Change(r, "edit", e, [db.live[e] EXCEPT !.detail = x, !.aside = y])
      BY <1>7 DEF EditProfile
    <2> DEFINE new == [db.live[e] EXCEPT !.detail = x, !.aside = y]
    <2>2. new \in Row
      BY <1>1 DEF Row
    <2> HIDE DEF new
    <2>3. Change(r, "edit", e, new) /\ "edit" \in Operations
      BY <2>1 DEF new, Operations
    <2>4. QED BY <2>2, <2>3, ChangeStep
  <1>8. CASE Toggle(r)
    <2>1. PICK e \in Entities :
             Change(r, "toggle", e,
                    [db.live[e] EXCEPT !.status = IF @ = "active" THEN "inactive" ELSE "active"])
      BY <1>8 DEF Toggle
    <2> DEFINE z   == IF db.live[e].status = "active" THEN "inactive" ELSE "active"
               new == [db.live[e] EXCEPT !.status = z]
    <2>2. Change(r, "toggle", e, new) /\ "toggle" \in Operations
      BY <2>1 DEF Operations
    <2>3. z \in {"active", "inactive"}
      OBVIOUS
    <2> HIDE DEF z
    <2>4. new \in Row
      BY <1>4, <2>3
    <2> HIDE DEF new
    <2>5. QED BY <2>2, <2>4, ChangeStep
  <1>9. CASE Unlock(r)
    <2>1. PICK e \in Entities : Change(r, "unlock", e, db.live[e])
      BY <1>9 DEF Unlock
    <2> DEFINE new == db.live[e]
    <2>2. Change(r, "unlock", e, new) /\ "unlock" \in Operations /\ new \in Row
      BY <1>1, <2>1 DEF Operations
    <2> HIDE DEF new
    <2>3. QED BY <2>2, ChangeStep
  <1>10. CASE Post(r)
    <2>1. PICK e \in Entities, y \in Asides :
             Change(r, "post", e, Bumped(e, [db.live[e] EXCEPT !.aside = y]))
      BY <1>10 DEF Post
    <2> DEFINE new == Bumped(e, [db.live[e] EXCEPT !.aside = y])
    <2>2. new \in Row
      BY <1>3, BumpedRow
    <2> HIDE DEF new
    <2>3. Change(r, "post", e, new) /\ "post" \in Operations
      BY <2>1 DEF new, Operations
    <2>4. QED BY <2>2, <2>3, ChangeStep
  <1>11. QED BY <1>5, <1>6, <1>7, <1>8, <1>9, <1>10

\* A restore or an approval begins with a version that exists.
LEMMA StartRestoring ==
    ASSUME IInv, NEW r \in Requests, StartRestore(r) \/ StartApprove(r)
    PROVE  IInv'
  <1>1. db \in Database /\ db.rollbacks \in Seq(Rollback) /\ Len(db.rollbacks) \in Nat
    BY DEF IInv, TypeOK, Database
  <1>2. req[r].pc = "idle" /\ UNCHANGED <<db, work, writer>>
    BY DEF StartRestore, StartApprove, MayStart
  <1>3. ASSUME NEW s, s \in Request, s.pc = "loading", s.entity \in Entities,
               s.target \in DOMAIN db.hist[s.entity], s.rollback \in 0 .. Len(db.rollbacks),
               Become(r, s)
        PROVE  IInv'
    <2>1. Placed(s, db) /\ s.pc \notin Holding
      BY <1>3 DEF Placed, Restoring, Holding
    <2>2. QED BY <1>2, <1>3, <2>1, LocalStep DEF Holding
  <1>4. CASE StartRestore(r)
    <2>1. PICK e \in Entities : \E n \in DOMAIN db.hist[e] :
             Become(r, [Idle EXCEPT !.pc = "loading", !.op = "restore", !.entity = e, !.target = n])
      BY <1>4 DEF StartRestore
    <2>2. PICK n \in DOMAIN db.hist[e] :
             Become(r, [Idle EXCEPT !.pc = "loading", !.op = "restore", !.entity = e, !.target = n])
      BY <2>1
    <2> DEFINE s == [Idle EXCEPT !.pc = "loading", !.op = "restore", !.entity = e, !.target = n]
    <2>3. n \in Nat
      BY <1>1, TargetRow
    <2>4. s \in Request /\ s.pc = "loading" /\ s.entity = e /\ s.target = n /\ s.rollback = 0
      BY <2>3, IdlePlaced DEF Idle, Request, Phases, Operations
    <2>5. Become(r, s)
      BY <2>2
    <2> HIDE DEF s
    <2>6. QED BY <1>1, <1>3, <2>4, <2>5
  <1>5. CASE StartApprove(r)
    <2>1. PICK k \in DOMAIN db.rollbacks :
             /\ db.rollbacks[k].target \in DOMAIN db.hist[db.rollbacks[k].entity]
             /\ Become(r, [Idle EXCEPT !.pc = "loading", !.op = "approve",
                                       !.entity = db.rollbacks[k].entity,
                                       !.target = db.rollbacks[k].target, !.rollback = k])
      BY <1>5 DEF StartApprove
    <2> DEFINE e == db.rollbacks[k].entity
               n == db.rollbacks[k].target
               s == [Idle EXCEPT !.pc = "loading", !.op = "approve", !.entity = e,
                                 !.target = n, !.rollback = k]
    <2>2. db.rollbacks[k] \in Rollback /\ k \in 0 .. Len(db.rollbacks) /\ k \in Nat
      BY <1>1
    <2>3. e \in Entities /\ n \in DOMAIN db.hist[e]
      BY <2>1, <2>2 DEF Rollback
    <2>4. Become(r, s)
      BY <2>1
    <2> HIDE DEF e, n
    <2>5. n \in Nat
      BY <1>1, <2>3, TargetRow
    <2>6. s \in Request /\ s.pc = "loading" /\ s.entity = e /\ s.target = n /\ s.rollback = k
      BY <2>2, <2>3, <2>5, IdlePlaced DEF Idle, Request, Phases, Operations
    <2> HIDE DEF s
    <2>7. QED BY <1>3, <2>2, <2>3, <2>4, <2>6
  <1>6. QED BY <1>4, <1>5

\* The restore applied to the loaded record.
LEMMA LoadStep ==
    ASSUME IInv, NEW r \in Requests, LoadRestored(r) \/ LoadApproved(r)
    PROVE  IInv'
  <1> DEFINE q    == req[r]
             was  == db.live[q.entity]
             with == WithSnapshot(was, TargetOf(q))
  <1>1. /\ q \in Request /\ q.pc = "loading" /\ Restoring(q) /\ Placed(q, db)
        /\ db \in Database /\ UNCHANGED <<db, work, writer>>
    BY DEF LoadRestored, LoadApproved, At, Restoring, IInv, TypeOK
  <1>2. q.entity \in Entities /\ q.target \in DOMAIN db.hist[q.entity]
    BY <1>1 DEF Placed
  <1>3. was \in Row
    BY <1>1, <1>2 DEF Database
  <1>4. TargetOf(q) \in Row /\ TargetOf(q) = db.hist[q.entity][q.target].new
    BY <1>1, <1>2, TargetRow DEF TargetOf
  <1>5. /\ with \in Row /\ with.detail = db.hist[q.entity][q.target].new.detail
        /\ with.status = db.hist[q.entity][q.target].new.status
        /\ with.aside = was.aside
    BY <1>3, <1>4, WithSnapshotRow
  <1>6. ASSUME NEW now \in Row, now.detail = with.detail, now.status = with.status,
               now.aside = with.aside,
               Become(r, [q EXCEPT !.pc = "loaded", !.was = was, !.now = now])
        PROVE  IInv'
    <2> DEFINE s == [q EXCEPT !.pc = "loaded", !.was = was, !.now = now]
    <2> HIDE DEF q, was, with
    <2>1. /\ s \in Request /\ s.pc = "loaded" /\ s.op = q.op /\ s.entity = q.entity
          /\ s.target = q.target /\ s.rollback = q.rollback /\ s.was = was /\ s.now = now
      BY <1>1, <1>3 DEF Request, Phases
    <2>2. Become(r, s)
      BY <1>6
    <2> HIDE DEF s
    <2>3. Placed(s, db) /\ s.pc \notin Holding
      BY <1>1, <1>5, <1>6, <2>1 DEF Placed, Restoring, Holding
    <2>4. req[r].pc \notin Holding
      BY <1>1 DEF q, Holding
    <2>5. QED BY <1>1, <2>1, <2>2, <2>3, <2>4, LocalStep
  <1>7. CASE LoadRestored(r)
    <2> DEFINE now == Bumped(q.entity, with)
    <2>1. Become(r, [q EXCEPT !.pc = "loaded", !.was = was, !.now = now])
      BY <1>7 DEF LoadRestored
    <2> HIDE DEF q, was, with
    <2>2. /\ now \in Row /\ now.detail = with.detail /\ now.status = with.status
          /\ now.aside = with.aside
      BY <1>5, BumpedRow
    <2> HIDE DEF now
    <2>3. QED BY <1>6, <2>1, <2>2
  <1>8. CASE LoadApproved(r)
    <2>1. Become(r, [q EXCEPT !.pc = "loaded", !.was = was, !.now = with])
      BY <1>8 DEF LoadApproved
    <2> HIDE DEF q, was, with
    <2>2. QED BY <1>5, <1>6, <2>1
  <1>9. QED BY <1>7, <1>8

\* Steps that end a request which holds no lock.
LEMMA EndStep ==
    ASSUME IInv, NEW r \in Requests,
           RestoreMissing(r) \/ ApproveCrashes(r) \/ Stale(r) \/ Conflict(r) \/ Busy(r)
    PROVE  IInv'
  <1>1. req[r].pc \notin Holding /\ Become(r, Idle) /\ UNCHANGED <<db, work, writer>>
    BY DEF RestoreMissing, ApproveCrashes, Stale, Conflict, Busy, At, Holding
  <1>2. Idle \in Request /\ Idle.pc \notin Holding /\ Placed(Idle, db)
    BY IdlePlaced DEF IInv, TypeOK, Holding
  <1>3. QED BY <1>1, <1>2, LocalStep

\* A handler with nothing to flush reads the next number without the lock.
LEMMA ReadNumberStep ==
    ASSUME IInv, NEW r \in Requests, ReadNumber(r)
    PROVE  IInv'
  <1> DEFINE q == req[r]
             n == Len(db.hist[q.entity]) + 1
             s == [q EXCEPT !.pc = "numbered", !.number = n]
  <1>1. /\ q \in Request /\ q.pc = "loaded" /\ Placed(q, db) /\ q.entity \in Entities
        /\ db \in Database /\ Dense(db) /\ UNCHANGED <<db, work, writer>>
    BY DEF ReadNumber, IInv, TypeOK, Sound, Placed
  <1>2. NextNumber(db.hist[q.entity]) = n
    BY <1>1, NextNumberDense DEF Database, Dense
  <1>3. Become(r, s)
    BY <1>2 DEF ReadNumber
  <1>4. n \in Nat \ {0}
    BY <1>1 DEF Database
  <1>5. req[r].pc \notin Holding
    BY <1>1 DEF Holding
  <1> HIDE DEF q
  <1>6. n = Len(db.hist[q.entity]) + 1
    OBVIOUS
  <1> HIDE DEF n
  <1>7. /\ s \in Request /\ s.pc = "numbered" /\ s.op = q.op /\ s.entity = q.entity
        /\ s.target = q.target /\ s.rollback = q.rollback /\ s.was = q.was /\ s.now = q.now
        /\ s.number = n
    BY <1>1, <1>4 DEF Request, Phases
  <1> HIDE DEF s
  <1>8. n \in 1 .. Len(db.hist[s.entity]) + 1
    BY <1>4, <1>6, <1>7
  <1>9. Placed(s, db) /\ s.pc \notin Holding
    BY <1>1, <1>7, <1>8 DEF Placed, Restoring, Holding
  <1>10. QED BY <1>1, <1>3, <1>5, <1>7, <1>9, LocalStep

\* The flush of a changed record takes the lock.
LEMMA FlushStep ==
    ASSUME IInv, NEW r \in Requests, FlushChanged(r)
    PROVE  IInv'
  <1> DEFINE q   == req[r]
             row == Merge(db.live[q.entity], q.was, q.now)
             now == Flushed(q, row)
             f   == [db EXCEPT !.live[q.entity] = row]
             s   == [q EXCEPT !.pc = "flushed", !.now = now]
  <1>1. /\ q \in Request /\ q.pc = "loaded" /\ Placed(q, db)
        /\ q.was \in Row /\ q.now \in Row
        /\ db \in Database /\ Dense(db) /\ Forward(db)
    BY DEF FlushChanged, IInv, TypeOK, Sound, Request
  <1>11. q.entity \in Entities
    BY <1>1 DEF Placed
  <1>2. Take(r, f, s)
    BY DEF FlushChanged
  <1>3. db.live[q.entity] \in Row /\ db.live \in [Entities -> Row]
    BY <1>1, <1>11 DEF Database
  <1>4. row \in Row /\ (q.now.aside = q.was.aside => row.aside = db.live[q.entity].aside)
    BY <1>1, <1>3, MergeRow
  <1> HIDE DEF row
  <1>12. /\ now \in Row /\ now.detail = q.now.detail /\ now.status = q.now.status
         /\ now.aside = q.now.aside
    BY <1>1, <1>4, FlushedRow
  <1> HIDE DEF q, now
  <1>5. Sound(f) /\ Grows(db, f) /\ \A e \in Entities :
            f.live[e] = IF e = q.entity THEN row ELSE db.live[e]
    <2> DEFINE live == [db.live EXCEPT ![q.entity] = row]
    <2>1. live \in [Entities -> Row]
      BY <1>3, <1>4
    <2>2. \A e \in Entities : live[e] = IF e = q.entity THEN row ELSE db.live[e]
      BY <1>3, <1>11
    <2>3. f = [db EXCEPT !.live = live]
      OBVIOUS
    <2> HIDE DEF live
    <2>4. f = [live |-> live, hist |-> db.hist, rollbacks |-> db.rollbacks,
               gone |-> db.gone]
      BY <1>1, <2>3 DEF Database
    <2> HIDE DEF f
    <2>5. f \in Database
      BY <1>1, <2>1, <2>4 DEF Database
    <2>6. f.hist = db.hist /\ f.rollbacks = db.rollbacks /\ f.live = live
      BY <2>4
    <2>7. Dense(f) /\ Forward(f)
      BY <1>1, <2>6 DEF Dense, Forward
    <2>8. Grows(db, f)
      BY <1>1, <2>6, GrowsReflexive DEF Grows
    <2>9. QED BY <2>2, <2>5, <2>6, <2>7, <2>8 DEF Sound
  <1>6. /\ s \in Request /\ s.pc = "flushed" /\ s.op = q.op /\ s.entity = q.entity
        /\ s.target = q.target /\ s.rollback = q.rollback /\ s.was = q.was /\ s.now = now
    BY <1>1, <1>12 DEF Request, Phases
  <1> HIDE DEF f, s
  <1>7. Placed(s, db) /\ s.pc \in Holding
    BY <1>1, <1>6, <1>12 DEF Placed, Restoring, Holding
  <1>8. Restoring(q) => q.now.aside = q.was.aside
    BY <1>1 DEF Placed
  <1>9. KeepsAside(s, db, f)
    BY <1>4, <1>5, <1>6, <1>8 DEF KeepsAside, Restoring
  <1>10. QED BY <1>2, <1>5, <1>6, <1>7, <1>9, TakeStep

\* The flush of an audit row alone takes the lock.
LEMMA FlushAuditStep ==
    ASSUME IInv, NEW r \in Requests, FlushAudit(r)
    PROVE  IInv'
  <1> DEFINE q == req[r]
             f == db
             s == [q EXCEPT !.pc = "flushed"]
  <1>1. /\ q \in Request /\ q.pc = "loaded" /\ Placed(q, db)
        /\ f \in Database /\ Sound(f)
    BY DEF FlushAudit, IInv, TypeOK
  <1>2. Take(r, f, s)
    BY DEF FlushAudit
  <1>3. Grows(db, f) /\ f.live = db.live
    BY <1>1, GrowsReflexive
  <1> HIDE DEF q
  <1>4. /\ s \in Request /\ s.pc = "flushed" /\ s.op = q.op /\ s.entity = q.entity
        /\ s.target = q.target /\ s.rollback = q.rollback /\ s.was = q.was /\ s.now = q.now
    BY <1>1 DEF Request, Phases
  <1> HIDE DEF s
  <1>5. Placed(s, db) /\ s.pc \in Holding
    BY <1>1, <1>4 DEF Placed, Restoring, Holding
  <1> HIDE DEF f
  <1>6. KeepsAside(s, db, f)
    BY <1>3 DEF KeepsAside
  <1>7. QED BY <1>1, <1>2, <1>3, <1>4, <1>5, <1>6, TakeStep

\* The deletion of a user removes records, and neither versions nor requests.
LEMMA RemovedImage ==
    ASSUME NEW d \in Database, NEW owned, owned \subseteq Entities,
           NEW f, f = [d EXCEPT !.gone = @ \cup owned]
    PROVE  /\ f \in Database /\ f.live = d.live /\ f.hist = d.hist
           /\ f.rollbacks = d.rollbacks /\ d.gone \subseteq f.gone
  <1> DEFINE gone == d.gone \cup owned
  <1>1. gone \in SUBSET Entities /\ d.gone \subseteq gone
    BY DEF Database
  <1>2. f = [d EXCEPT !.gone = gone]
    OBVIOUS
  <1> HIDE DEF gone
  <1>3. f = [live |-> d.live, hist |-> d.hist, rollbacks |-> d.rollbacks, gone |-> gone]
    BY <1>2 DEF Database
  <1>4. QED BY <1>1, <1>3 DEF Database

\* delete_user_account.
LEMMA RemoveStep ==
    ASSUME IInv, NEW r \in Requests, Remove(r)
    PROVE  IInv'
  <1>1. PICK owned \in SUBSET {e \in Entities : Present(e)} :
           Take(r, [db EXCEPT !.gone = @ \cup owned],
                [Idle EXCEPT !.pc = "recorded", !.op = "remove"])
    BY DEF Remove
  <1> DEFINE f == [db EXCEPT !.gone = @ \cup owned]
             s == [Idle EXCEPT !.pc = "recorded", !.op = "remove"]
  <1>2. db \in Database /\ Dense(db) /\ Forward(db) /\ Len(db.rollbacks) \in Nat
    BY DEF IInv, TypeOK, Sound, Database
  <1>3. Take(r, f, s)
    BY <1>1
  <1>4. s \in Request /\ s.pc = "recorded" /\ s.op = "remove" /\ s.rollback = 0
    BY IdlePlaced DEF Idle, Request, Phases, Operations
  <1>5. /\ f \in Database /\ f.live = db.live /\ f.hist = db.hist
        /\ f.rollbacks = db.rollbacks
    <2>1. db \in Database
      BY <1>2
    <2>2. QED BY <2>1, RemovedImage
  <1> HIDE DEF f, s
  <1>6. Dense(f) /\ Forward(f)
    BY <1>2, <1>5 DEF Dense, Forward
  <1>7. Grows(db, f)
    BY <1>2, <1>5, GrowsReflexive DEF Grows
  <1>8. Placed(s, db) /\ s.pc \in Holding /\ KeepsAside(s, db, f)
    BY <1>2, <1>4 DEF Placed, Restoring, Holding, KeepsAside
  <1>9. QED BY <1>3, <1>4, <1>5, <1>6, <1>7, <1>8, TakeStep DEF Sound

\* add_beneficiary inserts the record.
LEMMA AddStep ==
    ASSUME IInv, NEW r \in Requests, Add(r)
    PROVE  IInv'
  <1>1. PICK e \in Entities, x \in Details :
           Take(r, [db EXCEPT !.live[e] = [FirstRow EXCEPT !.detail = x]],
                [Idle EXCEPT !.pc = "flushed", !.op = "add", !.entity = e,
                             !.was = [FirstRow EXCEPT !.detail = x],
                             !.now = [FirstRow EXCEPT !.detail = x]])
    BY DEF Add
  <1> DEFINE row == [FirstRow EXCEPT !.detail = x]
             f   == [db EXCEPT !.live[e] = row]
             s   == [Idle EXCEPT !.pc = "flushed", !.op = "add", !.entity = e,
                                 !.was = row, !.now = row]
  <1>2. db \in Database /\ Dense(db) /\ Forward(db) /\ Len(db.rollbacks) \in Nat
    BY DEF IInv, TypeOK, Sound, Database
  <1>3. Take(r, f, s)
    BY <1>1
  <1>4. row \in Row
    BY ConstantsAssumption DEF FirstRow, Row
  <1> HIDE DEF row
  <1>5. Sound(f) /\ Grows(db, f)
    <2> DEFINE live == [db.live EXCEPT ![e] = row]
    <2>1. live \in [Entities -> Row]
      BY <1>2, <1>4 DEF Database
    <2>2. f = [db EXCEPT !.live = live]
      OBVIOUS
    <2> HIDE DEF live, f
    <2>3. f = [live |-> live, hist |-> db.hist, rollbacks |-> db.rollbacks,
               gone |-> db.gone]
      BY <1>2, <2>2 DEF Database
    <2>4. f \in Database
      BY <1>2, <2>1, <2>3 DEF Database
    <2>5. f.hist = db.hist /\ f.rollbacks = db.rollbacks
      BY <2>3
    <2>6. Dense(f) /\ Forward(f)
      BY <1>2, <2>5 DEF Dense, Forward
    <2>7. Grows(db, f)
      BY <1>2, <2>5, GrowsReflexive DEF Grows
    <2>8. QED BY <2>4, <2>6, <2>7 DEF Sound
  <1>6. s \in Request /\ s.pc = "flushed" /\ s.op = "add" /\ s.entity = e /\ s.rollback = 0
    BY <1>4, IdlePlaced DEF Idle, Request, Phases, Operations
  <1> HIDE DEF f, s
  <1>7. Placed(s, db) /\ s.pc \in Holding /\ KeepsAside(s, db, f)
    BY <1>2, <1>6 DEF Placed, Restoring, Holding, KeepsAside
  <1>8. QED BY <1>3, <1>5, <1>6, <1>7, TakeStep

\* create_rollback_request adds a request.
LEMMA AskStep ==
    ASSUME IInv, NEW r \in Requests, Ask(r)
    PROVE  IInv'
  <1>1. PICK e \in Entities : \E n \in 1 .. Len(db.hist[e]) + 1 :
           Take(r, [db EXCEPT !.rollbacks =
                       Append(@, [entity |-> e, target |-> n, status |-> "PENDING"])],
                [Idle EXCEPT !.pc = "recorded", !.op = "ask", !.entity = e])
    BY DEF Ask
  <1>2. PICK n \in 1 .. Len(db.hist[e]) + 1 :
           Take(r, [db EXCEPT !.rollbacks =
                       Append(@, [entity |-> e, target |-> n, status |-> "PENDING"])],
                [Idle EXCEPT !.pc = "recorded", !.op = "ask", !.entity = e])
    BY <1>1
  <1> DEFINE b    == [entity |-> e, target |-> n, status |-> "PENDING"]
             rows == Append(db.rollbacks, b)
             f    == [db EXCEPT !.rollbacks = rows]
             s    == [Idle EXCEPT !.pc = "recorded", !.op = "ask", !.entity = e]
  <1>3. /\ db \in Database /\ Dense(db) /\ Forward(db) /\ Len(db.rollbacks) \in Nat
        /\ db.rollbacks \in Seq(Rollback) /\ Len(db.hist[e]) \in Nat
    BY DEF IInv, TypeOK, Sound, Database
  <1>4. Take(r, f, s)
    BY <1>2
  <1>5. b \in Rollback
    BY <1>3 DEF Rollback
  <1> HIDE DEF b
  <1>6. rows \in Seq(Rollback) /\ Len(rows) >= Len(db.rollbacks)
    BY <1>3, <1>5
  <1> HIDE DEF rows
  <1>7. f = [live |-> db.live, hist |-> db.hist, rollbacks |-> rows, gone |-> db.gone]
    BY <1>3 DEF Database
  <1>8. s \in Request /\ s.pc = "recorded" /\ s.op = "ask" /\ s.entity = e /\ s.rollback = 0
    BY IdlePlaced DEF Idle, Request, Phases, Operations
  <1> HIDE DEF f, s
  <1>9. f \in Database
    BY <1>3, <1>6, <1>7 DEF Database
  <1>10. f.hist = db.hist /\ f.rollbacks = rows
    BY <1>7
  <1>11. Dense(f) /\ Forward(f)
    BY <1>3, <1>10 DEF Dense, Forward
  <1>12. Grows(db, f)
    BY <1>3, <1>6, <1>10, GrowsReflexive DEF Grows
  <1>13. Placed(s, db) /\ s.pc \in Holding /\ KeepsAside(s, db, f)
    BY <1>3, <1>8 DEF Placed, Restoring, Holding, KeepsAside
  <1>14. QED BY <1>4, <1>8, <1>9, <1>11, <1>12, <1>13, TakeStep DEF Sound

\* uq_entity_version accepts the number only when it is still the next one.
LEMMA InsertStep ==
    ASSUME IInv, NEW r \in Requests, Insert(r)
    PROVE  IInv'
  <1> DEFINE q == req[r]
             f == WithVersion(db, q, Len(db.hist[q.entity]) + 1)
             s == [q EXCEPT !.pc = "recorded"]
  <1>1. /\ q \in Request /\ q.pc = "numbered" /\ Placed(q, db) /\ q.entity \in Entities
        /\ db \in Database /\ Dense(db) /\ Forward(db)
    BY DEF Insert, IInv, TypeOK, Sound, Placed
  <1>2. q.number = Len(db.hist[q.entity]) + 1
    <2>1. q.number \in 1 .. Len(db.hist[q.entity]) + 1 /\ db.hist[q.entity] \in Seq(Version)
      BY <1>1 DEF Placed, Database
    <2>2. \A i \in DOMAIN db.hist[q.entity] : db.hist[q.entity][i].number = i
      BY <1>1 DEF Dense
    <2>3. ~Used(db.hist[q.entity], q.number)
      BY DEF Insert
    <2>4. q.number \notin DOMAIN db.hist[q.entity]
      BY <2>2, <2>3 DEF Used
    <2>5. QED BY <2>1, <2>4
  <1>3. Take(r, f, s)
    BY <1>2 DEF Insert
  <1>4. Sound(f) /\ Grows(db, f) /\ f.live = db.live
    <2> HIDE DEF q
    <2>1. QED BY <1>1, GrowsReflexive, WithVersionSound
  <1>5. /\ s \in Request /\ s.pc = "recorded" /\ s.op = q.op /\ s.entity = q.entity
        /\ s.rollback = q.rollback /\ s.target = q.target
    <2> HIDE DEF q
    <2>1. QED BY <1>1 DEF Request, Phases
  <1> HIDE DEF q, f, s
  <1>6. Placed(s, db) /\ s.pc \in Holding /\ KeepsAside(s, db, f)
    BY <1>1, <1>4, <1>5 DEF Placed, Restoring, Holding, KeepsAside
  <1>7. QED BY <1>3, <1>4, <1>5, <1>6, TakeStep

\* A profile's approval marks its request.
LEMMA ApproveOnlyStep ==
    ASSUME IInv, NEW r \in Requests, ApproveOnly(r)
    PROVE  IInv'
  <1> DEFINE q == req[r]
             f == Executed(db, q.rollback)
             s == [q EXCEPT !.pc = "recorded"]
  <1>1. /\ q \in Request /\ q.pc = "loading" /\ Placed(q, db)
        /\ q.rollback \in 0 .. Len(db.rollbacks)
        /\ db \in Database /\ Dense(db) /\ Forward(db)
    BY DEF ApproveOnly, At, IInv, TypeOK, Sound, Placed
  <1>2. Take(r, f, s)
    BY DEF ApproveOnly
  <1> HIDE DEF q
  <1>3. Sound(f) /\ Grows(db, f) /\ f.live = db.live
    BY <1>1, ExecutedImage
  <1>4. /\ s \in Request /\ s.pc = "recorded" /\ s.op = q.op /\ s.entity = q.entity
        /\ s.rollback = q.rollback /\ s.target = q.target
    BY <1>1 DEF Request, Phases
  <1> HIDE DEF f, s
  <1>5. Placed(s, db) /\ s.pc \in Holding /\ KeepsAside(s, db, f)
    BY <1>1, <1>3, <1>4 DEF Placed, Restoring, Holding, KeepsAside
  <1>6. QED BY <1>2, <1>3, <1>4, <1>5, TakeStep

-----------------------------------------------------------------------------
(* The invariant                                                            *)

\* The first database satisfies the invariant.
LEMMA InitIInv == Init => IInv
  <1> SUFFICES ASSUME Init PROVE IInv
    OBVIOUS
  <1> DEFINE v    == [number |-> 1, type |-> "CREATE", old |-> FirstRow,
                      new |-> FirstRow, from |-> 0, reason |-> 0]
             hist == [e \in Entities |-> IF e \in Created THEN <<v>> ELSE <<>>]
             live == [e \in Entities |-> FirstRow]
  <1>1. FirstRow \in Row /\ NoRequest \notin Requests
    BY ConstantsAssumption DEF FirstRow, Row
  <1>2. v \in Version /\ v.number = 1 /\ v.type = "CREATE"
    BY <1>1 DEF Version
  <1>3. /\ db = [live |-> live, hist |-> hist, rollbacks |-> <<>>, gone |-> {}]
        /\ work = db /\ writer = NoRequest /\ req = [r \in Requests |-> Idle]
    BY DEF Init
  <1> HIDE DEF v
  <1>4. hist \in [Entities -> Seq(Version)]
    BY <1>2
  <1>5. \A e \in Entities : \A i \in DOMAIN hist[e] : i = 1 /\ hist[e][i] = v
    OBVIOUS
  <1>6. live \in [Entities -> Row]
    BY <1>1
  <1> HIDE DEF hist, live
  <1>7. db \in Database
    BY <1>3, <1>4, <1>6 DEF Database
  <1>8. Dense(db) /\ Forward(db)
    BY <1>2, <1>3, <1>5 DEF Dense, Forward
  <1>9. TypeOK
    BY <1>3, <1>7, IdlePlaced DEF TypeOK
  <1>10. LockInv
    BY <1>1, <1>3, IdlePlaced DEF LockInv, Holding
  <1>11. \A r \in Requests : Placed(req[r], db) /\ KeepsAside(req[r], db, work)
    BY <1>3, <1>7, IdlePlaced DEF KeepsAside, Holding
  <1>12. Grows(db, work)
    BY <1>3, <1>7, GrowsReflexive
  <1>13. Sound(db) /\ Sound(work)
    BY <1>3, <1>7, <1>8 DEF Sound
  <1>14. QED BY <1>9, <1>10, <1>11, <1>12, <1>13 DEF IInv

\* Every step keeps the invariant.
LEMMA NextIInv == IInv /\ [Next]_vars => IInv'
  <1> SUFFICES ASSUME IInv, [Next]_vars PROVE IInv'
    OBVIOUS
  <1>1. CASE UNCHANGED vars
    <2>1. db' = db /\ work' = work /\ writer' = writer /\ req' = req
      BY <1>1 DEF vars
    <2>2. TypeOK' /\ LockInv'
      BY <2>1 DEF IInv, TypeOK, LockInv
    <2>3. Sound(db)' /\ Sound(work)'
      BY <2>1 DEF IInv, Sound, Dense, Forward
    <2>4. Grows(db, work)'
      BY <2>1 DEF IInv, Grows
    <2>5. \A r \in Requests : (Placed(req[r], db) /\ KeepsAside(req[r], db, work))'
      BY <2>1 DEF IInv, Placed, KeepsAside
    <2>6. QED BY <2>2, <2>3, <2>4, <2>5 DEF IInv
  <1>2. CASE Rest
    BY <1>1, <1>2 DEF Rest
  <1>3. ASSUME NEW r \in Requests, Start(r)
        PROVE  IInv'
    BY <1>3, StartChange, StartRestoring, AddStep, AskStep, RemoveStep DEF Start
  <1>4. ASSUME NEW r \in Requests, Step(r)
        PROVE  IInv'
    BY <1>4, LoadStep, EndStep, ApproveOnlyStep, FlushStep, FlushAuditStep, RecordStep,
       ReadNumberStep, InsertStep, CommitStep DEF Step
  <1>5. ASSUME NEW r \in Requests, Fail(r)
        PROVE  IInv'
    BY <1>5, GiveUpStep
  <1>6. QED BY <1>1, <1>2, <1>3, <1>4, <1>5 DEF Next

\* The invariant holds throughout.
LEMMA Inductive == Spec => []IInv
  BY InitIInv, NextIInv, PTL DEF Spec

-----------------------------------------------------------------------------
(* Theorems                                                                 *)

\* Every variable of a version-controlled database keeps its type.
THEOREM TypeCorrect == Spec => []TypeOK
  <1>1. IInv => TypeOK
    BY DEF IInv
  <1>2. QED BY <1>1, Inductive, PTL

\* The versions of every record are numbered 1, 2, 3, ... in every committed
\* database, although some handlers read the next number without the write lock
\* (_next_version_number and uq_entity_version).
THEOREM NumbersDense == Spec => []VersionsDense
  <1>1. IInv => VersionsDense
    BY DEF IInv, Sound, VersionsDense
  <1>2. QED BY <1>1, Inductive, PTL

\* Every restore is a new version that repeats an earlier one, however many
\* requests change the record between the load and the write (restore_version,
\* approve_rollback).
THEOREM RestoresForward == Spec => []RestoresAreForward
  <1>1. IInv => RestoresAreForward
    BY DEF IInv, Sound, Forward, RestoresAreForward
  <1>2. QED BY <1>1, Inductive, PTL

\* No restore changes a committed balance or phone, also when the restored
\* object was loaded before another request wrote that column.
THEOREM RestoresKeepAside == Spec => RestoreKeepsAside
  <1> DEFINE Kept == \A r \in Requests :
                        Commit(r) /\ req[r].op \in {"restore", "approve"} =>
                            \A e \in Entities : db'.live[e].aside = db.live[e].aside
  <1>1. IInv /\ [Next]_vars => [Kept]_vars
    <2>1. ASSUME IInv, NEW r \in Requests, Commit(r), req[r].op \in {"restore", "approve"},
                 NEW e \in Entities
          PROVE  db'.live[e].aside = db.live[e].aside
      BY <2>1 DEF IInv, KeepsAside, Commit, Restoring, Holding
    <2>2. QED BY <2>1
  <1>2. QED BY <1>1, Inductive, PTL DEF Spec, RestoreKeepsAside

-----------------------------------------------------------------------------
(* Rollback requests                                                        *)

\* A RESTORE version to the target of rollback request k, made by its approval.
Restored(d, k) ==
    LET b == d.rollbacks[k]
    IN  \E i \in DOMAIN d.hist[b.entity] :
            /\ d.hist[b.entity][i].type = "RESTORE"
            /\ d.hist[b.entity][i].from = b.target
            /\ d.hist[b.entity][i].reason = k

\* What RollbacksHonoured says of one image; no version names a request that
\* was never made.
Honest(d) ==
    /\ \A k \in DOMAIN d.rollbacks :
          Kind[d.rollbacks[k].entity] # "USER_PROFILE" =>
              /\ Restored(d, k) => d.rollbacks[k].status = "EXECUTED"
              /\ d.rollbacks[k].status = "EXECUTED" =>
                    Restored(d, k) \/ d.rollbacks[k].entity \in d.gone
    /\ \A e \in Entities : \A i \in DOMAIN d.hist[e] :
          d.hist[e][i].reason \in 0 .. Len(d.rollbacks)

\* Image f keeps the record and the target of every request that d holds.
Targets(d, f) ==
    \A k \in DOMAIN d.rollbacks :
        /\ k \in DOMAIN f.rollbacks
        /\ f.rollbacks[k].entity = d.rollbacks[k].entity
        /\ f.rollbacks[k].target = d.rollbacks[k].target

\* An approval under way restores what its rollback request names.
Approves(q, d) ==
    /\ q.op = "approve" =>
          /\ q.rollback \in DOMAIN d.rollbacks
          /\ q.entity = d.rollbacks[q.rollback].entity
          /\ q.target = d.rollbacks[q.rollback].target
    /\ q.op # "approve" => q.rollback = 0

HonourInv ==
    /\ Honest(db) /\ Honest(work)
    /\ Targets(db, work)
    /\ \A r \in Requests : Approves(req[r], db)

\* Image f is image d with version v added to record e.
Added(d, f, e, v) ==
    /\ f.rollbacks = d.rollbacks /\ f.live = d.live /\ f.gone = d.gone
    /\ \A n \in Entities : n # e => f.hist[n] = d.hist[n]
    /\ DOMAIN f.hist[e] = DOMAIN d.hist[e] \cup {Len(d.hist[e]) + 1}
    /\ Len(f.hist[e]) = Len(d.hist[e]) + 1
    /\ f.hist[e][Len(d.hist[e]) + 1] = v
    /\ \A i \in DOMAIN d.hist[e] : f.hist[e][i] = d.hist[e][i]

\* Image g is image f with rollback request k marked as executed.
Marked(f, g, k) ==
    /\ g.hist = f.hist /\ g.live = f.live /\ g.gone = f.gone
    /\ Len(g.rollbacks) = Len(f.rollbacks)
    /\ DOMAIN g.rollbacks = DOMAIN f.rollbacks
    /\ \A j \in DOMAIN f.rollbacks :
          /\ g.rollbacks[j].entity = f.rollbacks[j].entity
          /\ g.rollbacks[j].target = f.rollbacks[j].target
          /\ g.rollbacks[j].status = IF j = k THEN "EXECUTED" ELSE f.rollbacks[j].status

\* Marking request k changes one status.
LEMMA ExecutedRows ==
    ASSUME NEW d \in Database, NEW k \in 0 .. Len(d.rollbacks), NEW g, g = Executed(d, k)
    PROVE  Marked(d, g, k)
  <1>1. d.rollbacks \in Seq(Rollback)
    BY DEF Database
  <1>2. CASE k = 0
    BY <1>1, <1>2 DEF Executed, Marked
  <1>3. CASE k # 0
    <2> DEFINE b    == [d.rollbacks[k] EXCEPT !.status = "EXECUTED"]
               rows == [d.rollbacks EXCEPT ![k] = b]
    <2>1. k \in DOMAIN d.rollbacks
      BY <1>1, <1>3
    <2>2. /\ b.entity = d.rollbacks[k].entity /\ b.target = d.rollbacks[k].target
          /\ b.status = "EXECUTED" /\ b \in Rollback
      <3>1. d.rollbacks[k] \in Rollback
        BY <1>1, <2>1
      <3>2. QED BY <3>1 DEF Rollback
    <2>3. g = [d EXCEPT !.rollbacks = rows]
      BY <1>3 DEF Executed
    <2> HIDE DEF b
    <2>4. /\ Len(rows) = Len(d.rollbacks) /\ DOMAIN rows = DOMAIN d.rollbacks
          /\ \A j \in DOMAIN d.rollbacks : rows[j] = IF j = k THEN b ELSE d.rollbacks[j]
      BY <1>1, <2>1, <2>2
    <2> HIDE DEF rows
    <2>5. g.hist = d.hist /\ g.live = d.live /\ g.gone = d.gone /\ g.rollbacks = rows
      BY <2>3 DEF Database
    <2>6. QED BY <2>2, <2>4, <2>5 DEF Marked
  <1>4. QED BY <1>2, <1>3

\* Adding a version to a record changes its own history and nothing else.
LEMMA AppendedRows ==
    ASSUME NEW d \in Database, NEW e \in Entities, NEW v \in Version,
           NEW f, f = [d EXCEPT !.hist[e] = Append(@, v)]
    PROVE  Added(d, f, e, v) /\ f \in Database
  <1> DEFINE rows == Append(d.hist[e], v)
             hist == [d.hist EXCEPT ![e] = rows]
  <1>1. d.hist[e] \in Seq(Version) /\ d.hist \in [Entities -> Seq(Version)]
    BY DEF Database
  <1>2. f = [d EXCEPT !.hist = hist]
    OBVIOUS
  <1>3. /\ rows \in Seq(Version)
        /\ DOMAIN rows = DOMAIN d.hist[e] \cup {Len(d.hist[e]) + 1}
        /\ Len(rows) = Len(d.hist[e]) + 1
        /\ rows[Len(d.hist[e]) + 1] = v
        /\ \A i \in DOMAIN d.hist[e] : rows[i] = d.hist[e][i]
    BY <1>1
  <1> HIDE DEF rows
  <1>4. /\ hist[e] = rows /\ \A n \in Entities : n # e => hist[n] = d.hist[n]
        /\ hist \in [Entities -> Seq(Version)]
    BY <1>1, <1>3
  <1> HIDE DEF hist
  <1>5. f = [live |-> d.live, hist |-> hist, rollbacks |-> d.rollbacks, gone |-> d.gone]
    BY <1>2 DEF Database
  <1>6. f \in Database
    <2> DEFINE y == [live |-> d.live, hist |-> hist, rollbacks |-> d.rollbacks,
                     gone |-> d.gone]
    <2>1. y \in Database
      BY <1>4 DEF Database
    <2> HIDE DEF y
    <2>2. QED BY <1>5, <2>1 DEF y
  <1>7. f.hist = hist /\ f.rollbacks = d.rollbacks /\ f.live = d.live /\ f.gone = d.gone
    BY <1>5
  <1>8. QED BY <1>3, <1>4, <1>6, <1>7 DEF Added

\* An image with the same versions and requests, which lost no more than
\* records, is as honest.
LEMMA HonestSame ==
    ASSUME NEW d, NEW f, Honest(d), f.hist = d.hist, f.rollbacks = d.rollbacks,
           d.gone \subseteq f.gone
    PROVE  Honest(f) /\ Targets(d, f)
  BY DEF Honest, Restored, Targets

\* The approval of k adds its RESTORE version and marks k together; any other
\* version leaves every request as it is (create_version, approve_rollback).
LEMMA HonestVersion ==
    ASSUME NEW d \in Database, Honest(d), NEW e \in Entities, NEW v,
           NEW k \in 0 .. Len(d.rollbacks), v.reason = k,
           k # 0 => /\ d.rollbacks[k].entity = e
                    /\ v.type = "RESTORE" /\ v.from = d.rollbacks[k].target,
           NEW f, Added(d, f, e, v), NEW g, Marked(f, g, k)
    PROVE  Honest(g) /\ Targets(d, g)
  <1>1. /\ DOMAIN d.rollbacks = 1 .. Len(d.rollbacks) /\ Len(d.rollbacks) \in Nat
        /\ \A j \in DOMAIN d.rollbacks : d.rollbacks[j].entity \in Entities
    <2>1. d.rollbacks \in Seq(Rollback)
      BY DEF Database
    <2>2. ASSUME NEW j \in DOMAIN d.rollbacks PROVE d.rollbacks[j].entity \in Entities
      <3>1. d.rollbacks[j] \in Rollback
        BY <2>1
      <3>2. QED BY <3>1 DEF Rollback
    <2>3. QED BY <2>1, <2>2
  <1>2. /\ \A n \in Entities : n # e => g.hist[n] = d.hist[n]
        /\ DOMAIN g.hist[e] = DOMAIN d.hist[e] \cup {Len(d.hist[e]) + 1}
        /\ g.hist[e][Len(d.hist[e]) + 1] = v
        /\ \A i \in DOMAIN d.hist[e] : g.hist[e][i] = d.hist[e][i]
    BY DEF Added, Marked
  <1>3. /\ Len(g.rollbacks) = Len(d.rollbacks) /\ g.gone = d.gone
        /\ DOMAIN g.rollbacks = DOMAIN d.rollbacks
        /\ \A j \in DOMAIN d.rollbacks :
              /\ g.rollbacks[j].entity = d.rollbacks[j].entity
              /\ g.rollbacks[j].target = d.rollbacks[j].target
              /\ g.rollbacks[j].status = IF j = k THEN "EXECUTED" ELSE d.rollbacks[j].status
    BY DEF Added, Marked
  <1>4. Targets(d, g)
    BY <1>3 DEF Targets
  <1>5. ASSUME NEW n \in Entities, NEW i \in DOMAIN g.hist[n]
        PROVE  g.hist[n][i].reason \in 0 .. Len(g.rollbacks)
    BY <1>2, <1>3 DEF Honest
  <1>6. ASSUME NEW j \in DOMAIN d.rollbacks
        PROVE  Restored(g, j) <=> j = k \/ Restored(d, j)
    <2>1. /\ g.rollbacks[j].entity = d.rollbacks[j].entity
          /\ g.rollbacks[j].target = d.rollbacks[j].target
          /\ d.rollbacks[j].entity \in Entities /\ j # 0
      BY <1>1, <1>3
    <2>2. CASE d.rollbacks[j].entity # e
      BY <1>2, <1>3, <2>1, <2>2 DEF Restored
    <2>3. CASE d.rollbacks[j].entity = e /\ j # k
      BY <1>2, <1>3, <2>1, <2>3 DEF Restored
    <2>4. CASE d.rollbacks[j].entity = e /\ j = k
      BY <1>2, <1>3, <2>1, <2>4 DEF Restored
    <2>5. QED BY <1>1, <2>1, <2>2, <2>3, <2>4
  <1>7. ASSUME NEW j \in DOMAIN g.rollbacks, Kind[g.rollbacks[j].entity] # "USER_PROFILE"
        PROVE  /\ Restored(g, j) => g.rollbacks[j].status = "EXECUTED"
               /\ g.rollbacks[j].status = "EXECUTED" =>
                     Restored(g, j) \/ g.rollbacks[j].entity \in g.gone
    BY <1>3, <1>6, <1>7 DEF Honest
  <1>8. Honest(g)
    BY <1>5, <1>7 DEF Honest
  <1>9. QED BY <1>4, <1>8

\* Marking the request of a profile, or of a record that is gone, needs no
\* version.
LEMMA HonestMark ==
    ASSUME NEW d, Honest(d), NEW k,
           \/ Kind[d.rollbacks[k].entity] = "USER_PROFILE"
           \/ d.rollbacks[k].entity \in d.gone,
           NEW g, Marked(d, g, k)
    PROVE  Honest(g) /\ Targets(d, g)
  <1>1. /\ g.hist = d.hist /\ g.gone = d.gone
        /\ Len(g.rollbacks) = Len(d.rollbacks)
        /\ DOMAIN g.rollbacks = DOMAIN d.rollbacks
        /\ \A j \in DOMAIN d.rollbacks :
              /\ g.rollbacks[j].entity = d.rollbacks[j].entity
              /\ g.rollbacks[j].target = d.rollbacks[j].target
              /\ g.rollbacks[j].status = IF j = k THEN "EXECUTED" ELSE d.rollbacks[j].status
    BY DEF Marked
  <1>2. \A j \in DOMAIN d.rollbacks : Restored(g, j) <=> Restored(d, j)
    BY <1>1 DEF Restored
  <1>3. QED BY <1>1, <1>2 DEF Honest, Targets

\* A new request is pending and no version names it yet
\* (create_rollback_request).
LEMMA HonestAsk ==
    ASSUME NEW d \in Database, Honest(d), NEW b \in Rollback, b.status = "PENDING",
           NEW g, g = [d EXCEPT !.rollbacks = Append(@, b)]
    PROVE  Honest(g) /\ Targets(d, g)
  <1> DEFINE rows == Append(d.rollbacks, b)
             n    == Len(d.rollbacks) + 1
  <1>1. d.rollbacks \in Seq(Rollback) /\ Len(d.rollbacks) \in Nat
    BY DEF Database
  <1>2. /\ DOMAIN rows = DOMAIN d.rollbacks \cup {n} /\ Len(rows) = n
        /\ rows[n] = b /\ \A j \in DOMAIN d.rollbacks : rows[j] = d.rollbacks[j]
        /\ DOMAIN d.rollbacks = 1 .. Len(d.rollbacks)
    BY <1>1
  <1>3. g = [d EXCEPT !.rollbacks = rows]
    OBVIOUS
  <1> HIDE DEF rows
  <1>4. g.hist = d.hist /\ g.rollbacks = rows /\ g.gone = d.gone
    BY <1>3 DEF Database
  <1>5. Targets(d, g)
    BY <1>2, <1>4 DEF Targets
  <1>6. ASSUME NEW e \in Entities, NEW i \in DOMAIN g.hist[e]
        PROVE  g.hist[e][i].reason \in 0 .. Len(d.rollbacks)
    BY <1>4, <1>6 DEF Honest
  <1>7. ASSUME NEW e \in Entities, NEW i \in DOMAIN g.hist[e]
        PROVE  g.hist[e][i].reason \in 0 .. Len(g.rollbacks)
    BY <1>1, <1>2, <1>4, <1>6
  <1>8. b.entity \in Entities
    BY DEF Rollback
  <1>9. ~Restored(g, n)
    <2>1. \A i \in DOMAIN g.hist[b.entity] : g.hist[b.entity][i].reason # n
      BY <1>1, <1>6, <1>8
    <2>2. g.rollbacks[n] = b
      BY <1>2, <1>4
    <2>3. QED BY <2>1, <2>2 DEF Restored
  <1>10. \A j \in DOMAIN d.rollbacks : Restored(g, j) <=> Restored(d, j)
    BY <1>2, <1>4 DEF Restored
  <1>11. ASSUME NEW j \in DOMAIN g.rollbacks, Kind[g.rollbacks[j].entity] # "USER_PROFILE"
         PROVE  /\ Restored(g, j) => g.rollbacks[j].status = "EXECUTED"
                /\ g.rollbacks[j].status = "EXECUTED" =>
                      Restored(g, j) \/ g.rollbacks[j].entity \in g.gone
    <2>1. CASE j = n
      BY <1>2, <1>4, <1>9, <2>1
    <2>2. CASE j \in DOMAIN d.rollbacks
      <3>1. g.rollbacks[j] = d.rollbacks[j]
        BY <1>2, <1>4, <2>2
      <3>2. QED BY <1>4, <1>10, <1>11, <2>2, <3>1 DEF Honest
    <2>3. QED BY <1>2, <1>4, <2>1, <2>2
  <1>12. QED BY <1>5, <1>7, <1>11 DEF Honest

\* What an approval refers to keeps its record and its target.
LEMMA ApprovesStays ==
    ASSUME NEW d, NEW f, Targets(d, f), NEW q, Approves(q, d)
    PROVE  Approves(q, f)
  BY DEF Approves, Targets

\* A step that leaves both images alone.
LEMMA HonourLocal ==
    ASSUME IInv, HonourInv, NEW r \in Requests, NEW s, Become(r, s), Approves(s, db),
           UNCHANGED <<db, work>>
    PROVE  HonourInv'
  <1>1. \A p \in Requests : req'[p] = IF p = r THEN s ELSE req[p]
    BY DEF Become, IInv, TypeOK
  <1>2. Honest(db)' /\ Honest(work)'
    BY DEF HonourInv, Honest, Restored
  <1>3. Targets(db, work)'
    BY DEF HonourInv, Targets
  <1>4. \A p \in Requests : Approves(req'[p], db)
    BY <1>1 DEF HonourInv
  <1>5. \A p \in Requests : Approves(req[p], db)'
    BY <1>4 DEF Approves
  <1>6. QED BY <1>2, <1>3, <1>5 DEF HonourInv

\* A step that writes an image and commits nothing.
LEMMA HonourWrite ==
    ASSUME IInv, HonourInv, NEW r \in Requests, NEW s, Become(r, s), Approves(s, db),
           NEW image, Honest(image), Targets(db, image), work' = image, db' = db
    PROVE  HonourInv'
  <1>1. \A p \in Requests : req'[p] = IF p = r THEN s ELSE req[p]
    BY DEF Become, IInv, TypeOK
  <1>2. Honest(db)'
    BY DEF HonourInv, Honest, Restored
  <1>3. Honest(work)'
    BY DEF Honest, Restored
  <1>4. Targets(db, work)'
    BY DEF Targets
  <1>5. \A p \in Requests : Approves(req'[p], db)
    BY <1>1 DEF HonourInv
  <1>6. \A p \in Requests : Approves(req[p], db)'
    BY <1>5 DEF Approves
  <1>7. QED BY <1>2, <1>3, <1>4, <1>6 DEF HonourInv

\* A request on its way keeps what it approves.
LEMMA ApprovesKept ==
    ASSUME NEW d, NEW q, Approves(q, d), NEW s, s.op = q.op, s.rollback = q.rollback,
           s.entity = q.entity, s.target = q.target
    PROVE  Approves(s, d)
  BY DEF Approves

\* An idle request approves nothing.
LEMMA IdleApproves == ASSUME NEW d PROVE Approves(Idle, d)
  BY DEF Approves, Idle

\* create_version, with or without the mark of an approval, keeps an image
\* honest.
LEMMA HonourWithVersion ==
    ASSUME db \in Database, NEW d \in Database, Honest(d), Grows(db, d), Targets(db, d),
           NEW q \in Request, q.pc \in {"numbered", "flushed"}, Placed(q, db),
           Approves(q, db), NEW n \in Nat, NEW g, g = WithVersion(d, q, n)
    PROVE  Honest(g) /\ Targets(d, g)
  <1> DEFINE v == VersionOf(q, n)
             e == q.entity
             k == q.rollback
             f == [d EXCEPT !.hist[e] = Append(@, v)]
  <1>1. e \in Entities /\ Placed(q, d) /\ Approves(q, d)
    BY PlacedStays, ApprovesStays DEF Placed
  <1>2. v \in Version /\ v.from = q.target /\ (v.type = "RESTORE" <=> Restoring(q))
    BY VersionOfType
  <1>3. v.reason = k
    BY DEF VersionOf
  <1>4. k \in 0 .. Len(d.rollbacks)
    BY <1>1 DEF Placed
  <1>5. k # 0 => q.op = "approve" /\ d.rollbacks[k].entity = e /\ q.target = d.rollbacks[k].target
    BY <1>1 DEF Approves
  <1>6. g = Executed(f, k)
    BY DEF WithVersion
  <1> HIDE DEF v, e, k
  <1>7. Added(d, f, e, v) /\ f \in Database
    BY <1>1, <1>2, AppendedRows
  <1> HIDE DEF f
  <1>8. f.rollbacks = d.rollbacks
    BY <1>7 DEF Added
  <1>9. Marked(f, g, k)
    BY <1>4, <1>6, <1>7, <1>8, ExecutedRows
  <1>10. k # 0 => /\ d.rollbacks[k].entity = e
                  /\ v.type = "RESTORE" /\ v.from = d.rollbacks[k].target
    BY <1>2, <1>5 DEF Restoring
  <1>11. QED BY <1>1, <1>3, <1>4, <1>7, <1>9, <1>10, HonestVersion

\* A step in which the handler goes on, starts or ends without a write.
LEMMA HonourQuiet ==
    ASSUME IInv, HonourInv, NEW r \in Requests,
           \/ LoadRestored(r) \/ LoadApproved(r) \/ ReadNumber(r) \/ RestoreMissing(r)
           \/ ApproveCrashes(r) \/ Stale(r) \/ Conflict(r) \/ Busy(r)
    PROVE  HonourInv'
  <1> DEFINE q == req[r]
  <1>1. q \in Request /\ Approves(q, db)
    BY DEF IInv, TypeOK, HonourInv
  <1>2. CASE RestoreMissing(r) \/ ApproveCrashes(r) \/ Stale(r) \/ Conflict(r) \/ Busy(r)
    <2>1. Become(r, Idle) /\ UNCHANGED <<db, work>>
      BY <1>2 DEF RestoreMissing, ApproveCrashes, Stale, Conflict, Busy
    <2>2. QED BY <2>1, IdleApproves, HonourLocal
  <1>3. ASSUME NEW s, Become(r, s), UNCHANGED <<db, work>>, s.op = q.op,
               s.rollback = q.rollback, s.entity = q.entity, s.target = q.target
        PROVE  HonourInv'
    <2>1. Approves(s, db)
      BY <1>1, <1>3, ApprovesKept
    <2>2. QED BY <1>3, <2>1, HonourLocal
  <1>4. CASE LoadRestored(r) \/ LoadApproved(r)
    <2>1. \E row, now : Become(r, [q EXCEPT !.pc = "loaded", !.was = row, !.now = now])
      BY <1>4 DEF LoadRestored, LoadApproved
    <2>2. PICK row, now : Become(r, [q EXCEPT !.pc = "loaded", !.was = row, !.now = now])
      BY <2>1
    <2> DEFINE s == [q EXCEPT !.pc = "loaded", !.was = row, !.now = now]
    <2>3. Become(r, s) /\ UNCHANGED <<db, work>>
      BY <1>4, <2>2 DEF LoadRestored, LoadApproved
    <2> HIDE DEF q
    <2>4. /\ s.op = q.op /\ s.rollback = q.rollback /\ s.entity = q.entity
          /\ s.target = q.target
      BY <1>1 DEF Request
    <2> HIDE DEF s
    <2>5. QED BY <1>3, <2>3, <2>4
  <1>5. CASE ReadNumber(r)
    <2> DEFINE n == NextNumber(db.hist[q.entity])
               s == [q EXCEPT !.pc = "numbered", !.number = n]
    <2>1. Become(r, s) /\ UNCHANGED <<db, work>>
      BY <1>5 DEF ReadNumber
    <2> HIDE DEF q, n
    <2>2. /\ s.op = q.op /\ s.rollback = q.rollback /\ s.entity = q.entity
          /\ s.target = q.target
      BY <1>1 DEF Request
    <2> HIDE DEF s
    <2>3. QED BY <1>3, <2>1, <2>2
  <1>6. QED BY <1>2, <1>4, <1>5

\* A handler that begins approves nothing, except for the approval of a rollback
\* request that exists.
LEMMA HonourStart ==
    ASSUME IInv, HonourInv, NEW r \in Requests, Start(r), ~Add(r), ~Ask(r), ~Remove(r)
    PROVE  HonourInv'
  <1>1. CASE StartApprove(r)
    <2>1. PICK k \in DOMAIN db.rollbacks :
             Become(r, [Idle EXCEPT !.pc = "loading", !.op = "approve",
                                    !.entity = db.rollbacks[k].entity,
                                    !.target = db.rollbacks[k].target, !.rollback = k])
      BY <1>1 DEF StartApprove
    <2> DEFINE e == db.rollbacks[k].entity
               n == db.rollbacks[k].target
               s == [Idle EXCEPT !.pc = "loading", !.op = "approve", !.entity = e,
                                 !.target = n, !.rollback = k]
    <2>2. Become(r, s) /\ UNCHANGED <<db, work>>
      BY <1>1, <2>1 DEF StartApprove
    <2>3. s.op = "approve" /\ s.entity = e /\ s.target = n /\ s.rollback = k
      BY DEF Idle
    <2> HIDE DEF s
    <2>4. Approves(s, db)
      BY <2>3 DEF Approves
    <2>5. QED BY <2>2, <2>4, HonourLocal
  <1>2. CASE StartRestore(r)
    <2>1. PICK e, n :
             Become(r, [Idle EXCEPT !.pc = "loading", !.op = "restore", !.entity = e, !.target = n])
      BY <1>2 DEF StartRestore
    <2> DEFINE s == [Idle EXCEPT !.pc = "loading", !.op = "restore", !.entity = e, !.target = n]
    <2>2. Become(r, s) /\ UNCHANGED <<db, work>>
      BY <1>2, <2>1 DEF StartRestore
    <2>3. s.op = "restore" /\ s.rollback = 0
      BY DEF Idle
    <2> HIDE DEF s
    <2>4. Approves(s, db)
      BY <2>3 DEF Approves
    <2>5. QED BY <2>2, <2>4, HonourLocal
  <1>3. ASSUME NEW op, op # "approve", NEW e, NEW new, Change(r, op, e, new)
        PROVE  HonourInv'
    <2> DEFINE was == db.live[e]
               s   == [Idle EXCEPT !.pc = "loaded", !.op = op, !.entity = e,
                                   !.was = was, !.now = new]
    <2>1. Become(r, s) /\ UNCHANGED <<db, work>>
      BY <1>3 DEF Change
    <2> HIDE DEF was
    <2>2. s.op # "approve" /\ s.rollback = 0
      BY <1>3 DEF Idle
    <2> HIDE DEF s
    <2>3. Approves(s, db)
      BY <2>2 DEF Approves
    <2>4. QED BY <2>1, <2>3, HonourLocal
  <1>4. ASSUME EditBeneficiary(r) \/ Deactivate(r) \/ EditProfile(r) \/ Toggle(r)
               \/ Unlock(r) \/ Post(r)
        PROVE  \E op, e, new : op # "approve" /\ Change(r, op, e, new)
    BY <1>4 DEF EditBeneficiary, Deactivate, EditProfile, Toggle, Unlock, Post
  <1>5. QED BY <1>1, <1>2, <1>3, <1>4 DEF Start

\* A flush writes the record and nothing else.
LEMMA HonourFlush ==
    ASSUME IInv, HonourInv, NEW r \in Requests, FlushChanged(r)
    PROVE  HonourInv'
  <1> DEFINE q    == req[r]
             row  == Merge(db.live[q.entity], q.was, q.now)
             live == [db.live EXCEPT ![q.entity] = row]
             now  == Flushed(q, row)
             f    == [db EXCEPT !.live = live]
             s    == [q EXCEPT !.pc = "flushed", !.now = now]
  <1>1. db \in Database /\ q \in Request /\ Approves(q, db) /\ Honest(db)
    BY DEF IInv, TypeOK, HonourInv
  <1>2. work' = f /\ db' = db /\ Become(r, s)
    BY DEF FlushChanged, Take
  <1> HIDE DEF q, now
  <1>3. /\ s.op = q.op /\ s.rollback = q.rollback /\ s.entity = q.entity
        /\ s.target = q.target
    BY <1>1 DEF Request
  <1> HIDE DEF s, live
  <1>4. f.hist = db.hist /\ f.rollbacks = db.rollbacks /\ f.gone = db.gone
    BY <1>1 DEF Database
  <1> HIDE DEF f
  <1>5. Honest(f) /\ Targets(db, f)
    BY <1>1, <1>4, HonestSame
  <1>6. Approves(s, db)
    BY <1>1, <1>3, ApprovesKept
  <1>7. QED BY <1>2, <1>5, <1>6, HonourWrite

\* The flush of an audit row writes neither versions nor requests.
LEMMA HonourFlushAudit ==
    ASSUME IInv, HonourInv, NEW r \in Requests, FlushAudit(r)
    PROVE  HonourInv'
  <1> DEFINE q == req[r]
             f == db
             s == [q EXCEPT !.pc = "flushed"]
  <1>1. q \in Request /\ Approves(q, db) /\ Honest(f) /\ Targets(db, f)
    BY DEF IInv, TypeOK, HonourInv, Targets
  <1>2. work' = f /\ db' = db /\ Become(r, s)
    BY DEF FlushAudit, Take
  <1> HIDE DEF q, f
  <1>3. /\ s.op = q.op /\ s.rollback = q.rollback /\ s.entity = q.entity
        /\ s.target = q.target
    BY <1>1 DEF Request
  <1> HIDE DEF s
  <1>4. Approves(s, db)
    BY <1>1, <1>3, ApprovesKept
  <1>5. QED BY <1>1, <1>2, <1>4, HonourWrite

\* A deletion removes records and neither versions nor requests.
LEMMA HonourRemove ==
    ASSUME IInv, HonourInv, NEW r \in Requests, Remove(r)
    PROVE  HonourInv'
  <1>1. PICK owned \in SUBSET {e \in Entities : Present(e)} :
           Take(r, [db EXCEPT !.gone = @ \cup owned],
                [Idle EXCEPT !.pc = "recorded", !.op = "remove"])
    BY DEF Remove
  <1> DEFINE f == [db EXCEPT !.gone = @ \cup owned]
             s == [Idle EXCEPT !.pc = "recorded", !.op = "remove"]
  <1>2. work' = f /\ db' = db /\ Become(r, s)
    BY <1>1 DEF Take
  <1>3. db \in Database /\ Honest(db)
    BY DEF IInv, TypeOK, HonourInv
  <1>4. f.hist = db.hist /\ f.rollbacks = db.rollbacks /\ db.gone \subseteq f.gone
    BY <1>3, RemovedImage
  <1>5. s.op = "remove" /\ s.rollback = 0
    BY DEF Idle
  <1> HIDE DEF f, s
  <1>6. Honest(f) /\ Targets(db, f)
    BY <1>3, <1>4, HonestSame
  <1>7. Approves(s, db)
    BY <1>5 DEF Approves
  <1>8. QED BY <1>2, <1>6, <1>7, HonourWrite

\* add_beneficiary writes the record and nothing else.
LEMMA HonourAdd ==
    ASSUME IInv, HonourInv, NEW r \in Requests, Add(r)
    PROVE  HonourInv'
  <1>1. PICK e, x :
           Take(r, [db EXCEPT !.live[e] = [FirstRow EXCEPT !.detail = x]],
                [Idle EXCEPT !.pc = "flushed", !.op = "add", !.entity = e,
                             !.was = [FirstRow EXCEPT !.detail = x],
                             !.now = [FirstRow EXCEPT !.detail = x]])
    BY DEF Add
  <1> DEFINE row  == [FirstRow EXCEPT !.detail = x]
             live == [db.live EXCEPT ![e] = row]
             f    == [db EXCEPT !.live = live]
             s    == [Idle EXCEPT !.pc = "flushed", !.op = "add", !.entity = e,
                                  !.was = row, !.now = row]
  <1>2. work' = f /\ db' = db /\ Become(r, s)
    BY <1>1 DEF Take
  <1>3. db \in Database /\ Honest(db)
    BY DEF IInv, TypeOK, HonourInv
  <1> HIDE DEF row
  <1>4. s.op = "add" /\ s.rollback = 0
    BY DEF Idle
  <1> HIDE DEF s, live
  <1>5. f.hist = db.hist /\ f.rollbacks = db.rollbacks /\ f.gone = db.gone
    BY <1>3 DEF Database
  <1> HIDE DEF f
  <1>6. Honest(f) /\ Targets(db, f)
    BY <1>3, <1>5, HonestSame
  <1>7. Approves(s, db)
    BY <1>4 DEF Approves
  <1>8. QED BY <1>2, <1>6, <1>7, HonourWrite

\* create_rollback_request adds a pending request.
LEMMA HonourAsk ==
    ASSUME IInv, HonourInv, NEW r \in Requests, Ask(r)
    PROVE  HonourInv'
  <1>1. PICK e \in Entities : \E n \in 1 .. Len(db.hist[e]) + 1 :
           Take(r, [db EXCEPT !.rollbacks =
                       Append(@, [entity |-> e, target |-> n, status |-> "PENDING"])],
                [Idle EXCEPT !.pc = "recorded", !.op = "ask", !.entity = e])
    BY DEF Ask
  <1>2. PICK n \in 1 .. Len(db.hist[e]) + 1 :
           Take(r, [db EXCEPT !.rollbacks =
                       Append(@, [entity |-> e, target |-> n, status |-> "PENDING"])],
                [Idle EXCEPT !.pc = "recorded", !.op = "ask", !.entity = e])
    BY <1>1
  <1> DEFINE b == [entity |-> e, target |-> n, status |-> "PENDING"]
             f == [db EXCEPT !.rollbacks = Append(@, b)]
             s == [Idle EXCEPT !.pc = "recorded", !.op = "ask", !.entity = e]
  <1>3. work' = f /\ db' = db /\ Become(r, s)
    BY <1>2 DEF Take
  <1>4. db \in Database /\ Honest(db) /\ Len(db.hist[e]) \in Nat
    BY DEF IInv, TypeOK, HonourInv, Database
  <1>5. b \in Rollback /\ b.status = "PENDING"
    BY <1>4 DEF Rollback
  <1>6. s.op = "ask" /\ s.rollback = 0
    BY DEF Idle
  <1> HIDE DEF b, s
  <1>7. Honest(f) /\ Targets(db, f)
    BY <1>4, <1>5, HonestAsk
  <1> HIDE DEF f
  <1>8. Approves(s, db)
    BY <1>6 DEF Approves
  <1>9. QED BY <1>3, <1>7, <1>8, HonourWrite

\* create_version under the lock.
LEMMA HonourRecord ==
    ASSUME IInv, HonourInv, NEW r \in Requests, Record(r)
    PROVE  HonourInv'
  <1> DEFINE q == req[r]
             n == NextNumber(work.hist[q.entity])
             f == WithVersion(work, q, n)
             s == [q EXCEPT !.pc = "recorded"]
  <1>1. /\ q \in Request /\ q.pc = "flushed" /\ Placed(q, db) /\ Approves(q, db)
        /\ db \in Database /\ work \in Database /\ Dense(work) /\ q.entity \in Entities
        /\ Honest(work) /\ Grows(db, work) /\ Targets(db, work)
    BY DEF Record, IInv, TypeOK, Sound, HonourInv, Placed
  <1>2. work' = f /\ db' = db /\ Become(r, s)
    BY DEF Record
  <1> HIDE DEF q
  <1>3. n \in Nat
    <2>1. work.hist[q.entity] \in Seq(Version)
      BY <1>1 DEF Database
    <2>2. NextNumber(work.hist[q.entity]) = Len(work.hist[q.entity]) + 1
      BY <1>1, <2>1, NextNumberDense DEF Dense
    <2>3. QED BY <2>1, <2>2
  <1>4. /\ s.op = q.op /\ s.rollback = q.rollback /\ s.entity = q.entity
        /\ s.target = q.target
    BY <1>1 DEF Request
  <1> HIDE DEF s, n
  <1>5. Honest(f) /\ Targets(work, f)
    BY <1>1, <1>3, HonourWithVersion
  <1> HIDE DEF f
  <1>6. Targets(db, f)
    BY <1>1, <1>5 DEF Targets
  <1>7. Approves(s, db)
    BY <1>1, <1>4, ApprovesKept
  <1>8. QED BY <1>2, <1>5, <1>6, <1>7, HonourWrite

\* The insert of a version whose number was read without the lock.
LEMMA HonourInsert ==
    ASSUME IInv, HonourInv, NEW r \in Requests, Insert(r)
    PROVE  HonourInv'
  <1> DEFINE q == req[r]
             n == q.number
             f == WithVersion(db, q, n)
             s == [q EXCEPT !.pc = "recorded"]
  <1>1. /\ q \in Request /\ q.pc = "numbered" /\ Placed(q, db) /\ Approves(q, db)
        /\ db \in Database /\ Honest(db)
    BY DEF Insert, IInv, TypeOK, HonourInv
  <1>2. work' = f /\ db' = db /\ Become(r, s)
    BY DEF Insert, Take
  <1> HIDE DEF q
  <1>3. n \in Nat
    BY <1>1 DEF Request
  <1>4. /\ s.op = q.op /\ s.rollback = q.rollback /\ s.entity = q.entity
        /\ s.target = q.target
    BY <1>1 DEF Request
  <1>5. Grows(db, db) /\ Targets(db, db)
    BY <1>1, GrowsReflexive DEF Targets
  <1> HIDE DEF s, n
  <1>6. Honest(f) /\ Targets(db, f)
    BY <1>1, <1>3, <1>5, HonourWithVersion
  <1> HIDE DEF f
  <1>7. Approves(s, db)
    BY <1>1, <1>4, ApprovesKept
  <1>8. QED BY <1>2, <1>6, <1>7, HonourWrite

\* The approval that only marks a request: of a profile, or of a record that is
\* gone.
LEMMA HonourApproveOnly ==
    ASSUME IInv, HonourInv, NEW r \in Requests, ApproveOnly(r)
    PROVE  HonourInv'
  <1> DEFINE q == req[r]
             k == q.rollback
             f == Executed(db, k)
             s == [q EXCEPT !.pc = "recorded"]
  <1>1. /\ q \in Request /\ q.op = "approve" /\ q.pc = "loading" /\ Placed(q, db)
        /\ Kind[q.entity] = "USER_PROFILE" \/ ~Present(q.entity)
        /\ Approves(q, db) /\ db \in Database /\ Honest(db)
        /\ k \in 0 .. Len(db.rollbacks)
    BY DEF ApproveOnly, At, IInv, TypeOK, HonourInv, Placed
  <1>2. work' = f /\ db' = db /\ Become(r, s)
    BY DEF ApproveOnly, Take
  <1> HIDE DEF q
  <1>3. /\ s.op = q.op /\ s.rollback = q.rollback /\ s.entity = q.entity
        /\ s.target = q.target
    BY <1>1 DEF Request
  <1>9. Exists(q.entity)
    BY <1>1 DEF Placed, Restoring, Exists
  <1>4. \/ Kind[db.rollbacks[k].entity] = "USER_PROFILE"
        \/ db.rollbacks[k].entity \in db.gone
    BY <1>1, <1>9 DEF Approves, Present
  <1> HIDE DEF s, k
  <1>5. Marked(db, f, k)
    BY <1>1, ExecutedRows
  <1> HIDE DEF f
  <1>6. Honest(f) /\ Targets(db, f)
    BY <1>1, <1>4, <1>5, HonestMark
  <1>7. Approves(s, db)
    BY <1>1, <1>3, ApprovesKept
  <1>8. QED BY <1>2, <1>6, <1>7, HonourWrite

\* The image becomes the committed database.
LEMMA HonourCommit ==
    ASSUME IInv, HonourInv, NEW r \in Requests, Commit(r)
    PROVE  HonourInv'
  <1>1. /\ db' = work /\ work' = work
        /\ \A p \in Requests : req'[p] = IF p = r THEN Idle ELSE req[p]
    BY DEF Commit, Become, IInv, TypeOK
  <1>2. Honest(db)' /\ Honest(work)'
    BY <1>1 DEF HonourInv, Honest, Restored
  <1>3. Targets(db, work)'
    BY <1>1 DEF Targets
  <1>4. \A p \in Requests : Approves(req'[p], work)
    BY <1>1, IdleApproves, ApprovesStays DEF HonourInv
  <1>5. \A p \in Requests : Approves(req[p], db)'
    BY <1>1, <1>4 DEF Approves
  <1>6. QED BY <1>2, <1>3, <1>5 DEF HonourInv

\* A failure leaves the committed database alone.
LEMMA HonourFail ==
    ASSUME IInv, HonourInv, NEW r \in Requests, Fail(r)
    PROVE  HonourInv'
  <1>1. Become(r, Idle) /\ db' = db /\ work' \in {db, work}
    BY DEF Fail
  <1>2. CASE work' = db
    <2>1. Honest(db) /\ Targets(db, db)
      BY DEF HonourInv, Targets
    <2>2. QED BY <1>1, <1>2, <2>1, IdleApproves, HonourWrite
  <1>3. CASE work' = work
    BY <1>1, <1>3, IdleApproves, HonourLocal
  <1>4. QED BY <1>1, <1>2, <1>3

\* At first nobody has asked for a rollback.
LEMMA InitHonour == Init => HonourInv
  <1> SUFFICES ASSUME Init PROVE HonourInv
    OBVIOUS
  <1> DEFINE v    == [number |-> 1, type |-> "CREATE", old |-> FirstRow,
                      new |-> FirstRow, from |-> 0, reason |-> 0]
             hist == [e \in Entities |-> IF e \in Created THEN <<v>> ELSE <<>>]
  <1>1. /\ db.hist = hist /\ db.rollbacks = <<>> /\ work = db
        /\ \A r \in Requests : req[r] = Idle
    BY DEF Init
  <1>2. v.reason = 0
    OBVIOUS
  <1> HIDE DEF v
  <1>3. \A e \in Entities : \A i \in DOMAIN hist[e] : hist[e][i].reason = 0
    BY <1>2
  <1> HIDE DEF hist
  <1>4. Honest(db)
    BY <1>1, <1>3 DEF Honest
  <1>5. Targets(db, work)
    BY <1>1 DEF Targets
  <1>6. QED BY <1>1, <1>4, <1>5, IdleApproves DEF HonourInv

\* Every step keeps the rollback requests honest.
LEMMA NextHonour == IInv /\ HonourInv /\ [Next]_vars => HonourInv'
  <1> SUFFICES ASSUME IInv, HonourInv, [Next]_vars PROVE HonourInv'
    OBVIOUS
  <1>1. CASE UNCHANGED vars
    <2>1. db' = db /\ work' = work /\ req' = req
      BY <1>1 DEF vars
    <2>2. Honest(db)' /\ Honest(work)'
      BY <2>1 DEF HonourInv, Honest, Restored
    <2>3. Targets(db, work)'
      BY <2>1 DEF HonourInv, Targets
    <2>4. \A r \in Requests : Approves(req[r], db)'
      BY <2>1 DEF HonourInv, Approves
    <2>5. QED BY <2>2, <2>3, <2>4 DEF HonourInv
  <1>2. CASE Rest
    BY <1>1, <1>2 DEF Rest
  <1>3. ASSUME NEW r \in Requests, Start(r)
        PROVE  HonourInv'
    BY <1>3, HonourStart, HonourAdd, HonourAsk, HonourRemove
  <1>4. ASSUME NEW r \in Requests, Step(r)
        PROVE  HonourInv'
    BY <1>4, HonourQuiet, HonourApproveOnly, HonourFlush, HonourFlushAudit, HonourRecord,
       HonourInsert, HonourCommit DEF Step
  <1>5. ASSUME NEW r \in Requests, Fail(r)
        PROVE  HonourInv'
    BY <1>5, HonourFail
  <1>6. QED BY <1>1, <1>2, <1>3, <1>4, <1>5 DEF Next

\* An approved RESTORE version and the mark of its rollback request are committed
\* together, whatever fails between the two and whatever other requests do
\* meanwhile; only the approval of a record that is gone, or of a profile, marks
\* the request alone (approve_rollback, create_rollback_request).
THEOREM ExecutedWithRestore == Spec => []RollbacksHonoured
  <1>1. Init => IInv /\ HonourInv
    BY InitIInv, InitHonour
  <1>2. IInv /\ HonourInv /\ [Next]_vars => (IInv /\ HonourInv)'
    BY NextIInv, NextHonour
  <1>3. HonourInv => RollbacksHonoured
    BY DEF HonourInv, Honest, Restored, RollbacksHonoured
  <1>4. QED BY <1>1, <1>2, <1>3, PTL DEF Spec

-----------------------------------------------------------------------------
(* Requests one after another                                               *)

\* The requests do not overlap: there is at most one.
OneAtATime == \A p, r \in Requests : p = r

\* What ContiguousUnlessRestored says of one image.
Chained(d) ==
    \A e \in Entities : \A i \in 2 .. Len(d.hist[e]) :
        \/ IsDirectRestore(d.hist[e][i])
        \/ d.hist[e][i].old = Left(e, d.hist[e][i - 1])

\* The newest version of record e leaves it as `row'.
HeadShows(d, e, row) == d.hist[e] # <<>> => Left(e, Last(d.hist[e])) = Snapshot(e, row)

\* What HeadIsLive says of one image.
Shown(d) == \A e \in Entities : HeadShows(d, e, d.live[e])

\* The operations that load a record of kind k and change it.
Changing(k) ==
    CASE k = "ACCOUNT"     -> {"post", "approve", "restore"}
      [] k = "BENEFICIARY" -> {"edit", "deactivate", "restore"}
      [] OTHER             -> {"edit", "toggle", "unlock", "restore"}

\* A request that has loaded a record is of an operation on records of its kind;
\* it has not touched the timestamp, and a beneficiary it always changes.
Fits(q) ==
    /\ q.op \in Changing(Kind[q.entity])
    /\ q.now.stamp = q.was.stamp
    /\ Kind[q.entity] = "BENEFICIARY" => q.now # q.was

\* The version of q captures its record before the UPDATE.
Early(q) ==
    \/ Kind[q.entity] = "BENEFICIARY" /\ q.op \in {"edit", "deactivate"}
    \/ q.rollback # 0 /\ Snapshot(q.entity, q.now) # Snapshot(q.entity, q.was)

\* How the version of q is going to leave the record.
Leaves(q) ==
    LET new == Snapshot(q.entity, q.now)
    IN  IF Early(q) THEN [new EXCEPT !.stamp = @ + 1] ELSE new

\* What the request has loaded is what is committed in d; its image w shows the
\* record as it was until the version is written.
Current(q, d, w) ==
    /\ q.pc \in {"loaded", "numbered"} => q.was = d.live[q.entity]
    /\ q.pc = "loaded" => Fits(q)
    /\ q.pc = "numbered" => q.now = q.was /\ Kind[q.entity] # "BENEFICIARY"
    /\ q.pc = "flushed" =>
          /\ Kind[q.entity] = "BENEFICIARY" => q.op \in {"add", "edit", "deactivate", "restore"}
          /\ Snapshot(q.entity, w.live[q.entity]) = Leaves(q)
          /\ HeadShows(w, q.entity, q.was)
          /\ \A e \in Entities \ {q.entity} : HeadShows(w, e, w.live[e])
    /\ q.pc = "recorded" => Shown(w)

SerialInv ==
    /\ Chained(db) /\ Chained(work)
    /\ Shown(db)
    /\ \A r \in Requests : Current(req[r], db, work)

\* The step of the only request.
LEMMA SerialStep ==
    ASSUME OneAtATime, IInv, NEW r \in Requests, NEW s, Become(r, s),
           NEW d, NEW w, db' = d, work' = w,
           Chained(d), Chained(w), Shown(d), Current(s, d, w)
    PROVE  SerialInv'
  <1>1. \A p \in Requests : req'[p] = s
    BY DEF Become, IInv, TypeOK, OneAtATime
  <1>2. Chained(db)' /\ Chained(work)'
    BY DEF Chained
  <1>3. Shown(db)'
    BY DEF Shown, HeadShows
  <1>4. \A p \in Requests : Current(req'[p], d, w)
    BY <1>1
  <1>5. \A p \in Requests : Current(req[p], db, work)'
    BY <1>4 DEF Current, Shown, HeadShows
  <1>6. QED BY <1>2, <1>3, <1>5 DEF SerialInv

\* An image with the same versions is as contiguous.
LEMMA ChainedSame ==
    ASSUME NEW d, NEW f, Chained(d), f.hist = d.hist
    PROVE  Chained(f)
  BY DEF Chained

\* An image with the same versions and records shows as much.
LEMMA ShownSame ==
    ASSUME NEW d, NEW f, Shown(d), f.hist = d.hist, f.live = d.live
    PROVE  Shown(f)
  BY DEF Shown, HeadShows

\* The UPDATE of a record that nobody else changed writes the row in memory, with
\* a new timestamp.
LEMMA MergeCurrent ==
    ASSUME NEW row \in Row, NEW now \in Row
    PROVE  Merge(row, row, now) = [now EXCEPT !.stamp = row.stamp + 1]
  <1> DEFINE n == row.stamp + 1
  <1>1. Merge(row, row, now) =
          [detail |-> now.detail, status |-> now.status, aside  |-> now.aside,
           number |-> now.number, stamp |-> n]
    BY RowColumns DEF Merge
  <1> HIDE DEF n
  <1>2. [now EXCEPT !.stamp = n] =
          [detail |-> now.detail, status |-> now.status, aside  |-> now.aside,
           number |-> now.number, stamp |-> n]
    BY RowColumns
  <1>3. QED BY <1>1, <1>2 DEF n

\* Idle requests have loaded nothing.
LEMMA IdleCurrent == ASSUME NEW d, NEW w PROVE Current(Idle, d, w)
  BY DEF Current, Idle

\* The version of a change says how it leaves the record.
LEMMA VersionLeaves ==
    ASSUME NEW q, Approves(q, db),
           Kind[q.entity] = "BENEFICIARY" => q.op \in {"add", "edit", "deactivate", "restore"},
           NEW n
    PROVE  Left(q.entity, VersionOf(q, n)) = Leaves(q)
  <1> DEFINE v == VersionOf(q, n)
  <1>1. /\ v.type = TypeOf(q) /\ v.new = Snapshot(q.entity, q.now) /\ v.reason = q.rollback
        /\ v.old = IF q.op = "restore" THEN TargetOf(q) ELSE Snapshot(q.entity, q.was)
    BY DEF VersionOf
  <1> HIDE DEF v
  <1>2. q.rollback # 0 => v.old = Snapshot(q.entity, q.was)
    BY <1>1 DEF Approves
  <1>3. Kind[q.entity] = "BENEFICIARY" =>
            (v.type \in {"UPDATE", "DELETE"} <=> q.op \in {"edit", "deactivate"})
    BY <1>1 DEF TypeOf
  <1>4. CapturedEarly(q.entity, v) <=> Early(q)
    BY <1>1, <1>2, <1>3 DEF CapturedEarly, Early
  <1>5. QED BY <1>1, <1>4 DEF Left, Leaves, v

\* The version of the record's change continues its history and shows it.
LEMMA SerialVersion ==
    ASSUME db \in Database, NEW d \in Database, Chained(d), Grows(db, d),
           NEW q \in Request, q.pc \in {"numbered", "flushed"}, Placed(q, db),
           Approves(q, db), Targets(db, d),
           Snapshot(q.entity, d.live[q.entity]) = Leaves(q), HeadShows(d, q.entity, q.was),
           Kind[q.entity] = "BENEFICIARY" => q.op \in {"add", "edit", "deactivate", "restore"},
           \A e \in Entities \ {q.entity} : HeadShows(d, e, d.live[e]),
           NEW n \in Nat, NEW g, g = WithVersion(d, q, n)
    PROVE  Chained(g) /\ Shown(g)
  <1> DEFINE v == VersionOf(q, n)
             e == q.entity
             k == q.rollback
             f == [d EXCEPT !.hist[e] = Append(@, v)]
  <1>1. e \in Entities /\ Placed(q, d)
    BY PlacedStays DEF Placed
  <1>2. v \in Version /\ (v.type = "RESTORE" <=> Restoring(q))
    BY VersionOfType
  <1>3. k \in 0 .. Len(d.rollbacks)
    BY <1>1 DEF Placed
  <1>4. v.new = Snapshot(e, q.now) /\ v.reason = k
    BY DEF VersionOf
  <1>5. IsDirectRestore(v) \/ v.old = Snapshot(e, q.was)
    <2>1. CASE q.op = "restore"
      <3>1. k = 0
        BY <2>1 DEF Approves
      <3>2. v.type = "RESTORE"
        BY <1>2, <2>1 DEF Restoring
      <3>3. QED BY <1>4, <3>1, <3>2 DEF IsDirectRestore
    <2>2. CASE q.op # "restore"
      BY <2>2 DEF VersionOf
    <2>3. QED BY <2>1, <2>2
  <1>14. Left(e, v) = Leaves(q)
    BY <1>4, VersionLeaves
  <1>6. g = Executed(f, k)
    BY DEF WithVersion
  <1>7. d.hist[e] \in Seq(Version) /\ \A c \in Entities : d.hist[c] \in Seq(Version)
    BY <1>1 DEF Database
  <1> HIDE DEF v, k
  <1>8. Added(d, f, e, v) /\ f \in Database
    <2> HIDE DEF e
    <2> QED BY <1>1, <1>2, AppendedRows
  <1> HIDE DEF f
  <1>9. Marked(f, g, k)
    BY <1>3, <1>6, <1>8, ExecutedRows DEF Added
  <1> DEFINE m == Len(d.hist[e]) + 1
  <1>10. /\ g.live = d.live
         /\ \A c \in Entities : c # e => g.hist[c] = d.hist[c]
         /\ Len(g.hist[e]) = m /\ g.hist[e][m] = v
         /\ \A i \in DOMAIN d.hist[e] : g.hist[e][i] = d.hist[e][i]
         /\ g.hist[e] = f.hist[e] /\ f.hist[e] \in Seq(Version)
    BY <1>1, <1>8, <1>9 DEF Added, Marked, Database
  <1>11. Shown(g)
    <2>1. HeadShows(g, e, g.live[e])
      BY <1>10, <1>14 DEF HeadShows, Last
    <2>2. \A c \in Entities \ {e} : HeadShows(g, c, g.live[c])
      BY <1>10 DEF HeadShows
    <2>3. QED BY <2>1, <2>2 DEF Shown
  <1>12. Chained(g)
    <2> SUFFICES ASSUME NEW c \in Entities, NEW i \in 2 .. Len(g.hist[c])
                 PROVE  \/ IsDirectRestore(g.hist[c][i])
                        \/ g.hist[c][i].old = Left(c, g.hist[c][i - 1])
      BY DEF Chained
    <2>1. CASE c # e
      BY <1>10, <2>1 DEF Chained
    <2>2. CASE c = e /\ i # m
      <3>1. i \in 2 .. Len(d.hist[e]) /\ i \in DOMAIN d.hist[e] /\ i - 1 \in DOMAIN d.hist[e]
        <4>1. Len(d.hist[e]) \in Nat /\ DOMAIN d.hist[e] = 1 .. Len(d.hist[e])
          BY <1>7
        <4>2. i \in 2 .. Len(d.hist[e]) + 1 /\ i # Len(d.hist[e]) + 1
          BY <1>10, <2>2
        <4>3. QED BY <4>1, <4>2
      <3>2. g.hist[c][i] = d.hist[e][i] /\ g.hist[c][i - 1] = d.hist[e][i - 1]
        BY <1>10, <2>2, <3>1
      <3>3. QED BY <1>1, <2>2, <3>1, <3>2 DEF Chained
    <2>3. CASE c = e /\ i = m
      <3>1. /\ d.hist[e] # <<>> /\ Len(d.hist[e]) \in DOMAIN d.hist[e]
            /\ i - 1 = Len(d.hist[e])
        BY <1>7, <2>3
      <3>2. g.hist[c][i - 1] = Last(d.hist[e]) /\ g.hist[c][i] = v
        BY <1>10, <2>3, <3>1 DEF Last
      <3>3. Left(e, Last(d.hist[e])) = Snapshot(e, q.was)
        BY <3>1 DEF HeadShows
      <3>4. QED BY <1>5, <2>3, <3>2, <3>3
    <2>4. QED BY <2>1, <2>2, <2>3
  <1>13. QED BY <1>11, <1>12

\* The only request goes on, starts or ends without a write.
LEMMA SerialLocal ==
    ASSUME OneAtATime, IInv, SerialInv, NEW r \in Requests, NEW s, Become(r, s),
           Current(s, db, work), UNCHANGED <<db, work>>
    PROVE  SerialInv'
  <1> DEFINE d == db
             w == work
  <1>1. db' = d /\ work' = w /\ Chained(d) /\ Chained(w) /\ Shown(d) /\ Current(s, d, w)
    BY DEF SerialInv
  <1> HIDE DEF d, w
  <1>2. QED BY <1>1, SerialStep

\* The only request writes an image.
LEMMA SerialWrite ==
    ASSUME OneAtATime, IInv, SerialInv, NEW r \in Requests, NEW s, Become(r, s),
           NEW w, db' = db, work' = w, Chained(w), Current(s, db, w)
    PROVE  SerialInv'
  <1> DEFINE d == db
  <1>1. db' = d /\ Chained(d) /\ Shown(d) /\ Current(s, d, w)
    BY DEF SerialInv
  <1> HIDE DEF d
  <1>2. QED BY <1>1, SerialStep

\* Steps without a write.
LEMMA SerialQuiet ==
    ASSUME OneAtATime, IInv, SerialInv, NEW r \in Requests,
           \/ LoadRestored(r) \/ LoadApproved(r) \/ ReadNumber(r) \/ RestoreMissing(r)
           \/ ApproveCrashes(r) \/ Stale(r) \/ Conflict(r) \/ Busy(r)
    PROVE  SerialInv'
  <1> DEFINE q == req[r]
  <1>1. q \in Request /\ Current(q, db, work)
    BY DEF IInv, TypeOK, SerialInv
  <1>2. CASE RestoreMissing(r) \/ ApproveCrashes(r) \/ Stale(r) \/ Conflict(r) \/ Busy(r)
    <2>1. Become(r, Idle) /\ UNCHANGED <<db, work>>
      BY <1>2 DEF RestoreMissing, ApproveCrashes, Stale, Conflict, Busy
    <2>2. QED BY <2>1, IdleCurrent, SerialLocal
  <1>3. CASE LoadRestored(r) \/ LoadApproved(r)
    <2> DEFINE e    == q.entity
               row  == db.live[e]
               with == WithSnapshot(row, TargetOf(q))
    <2>1. q.pc = "loading" /\ Placed(q, db) /\ db \in Database
      BY <1>3 DEF LoadRestored, LoadApproved, At, IInv, TypeOK
    <2>2. e \in Entities /\ row \in Row
      BY <2>1 DEF Placed, Database
    <2>3. TargetOf(q) \in Row
      <3>1. Restoring(q)
        BY <1>3 DEF LoadRestored, LoadApproved, At, Restoring
      <3>2. q.target \in DOMAIN db.hist[q.entity]
        BY <2>1, <3>1 DEF Placed
      <3>3. QED BY <2>1, <2>2, <3>2, TargetRow DEF TargetOf
    <2>4. with \in Row /\ with.stamp = row.stamp /\ with.number = row.number
      BY <2>2, <2>3, WithSnapshotRow
    <2>5. ASSUME NEW now, now.stamp = row.stamp, q.op \in Changing(Kind[e]),
                 Kind[e] = "BENEFICIARY" => now # row,
                 Become(r, [q EXCEPT !.pc = "loaded", !.was = row, !.now = now])
          PROVE  SerialInv'
      <3> DEFINE s == [q EXCEPT !.pc = "loaded", !.was = row, !.now = now]
      <3>1. Become(r, s) /\ UNCHANGED <<db, work>>
        BY <1>3, <2>5 DEF LoadRestored, LoadApproved
      <3> HIDE DEF q, row
      <3>2. /\ s.pc = "loaded" /\ s.was = row /\ s.now = now /\ s.entity = q.entity
            /\ s.op = q.op
        BY <1>1 DEF Request
      <3> HIDE DEF s
      <3>3. Current(s, db, work)
        BY <2>5, <3>2 DEF Current, Fits, row
      <3>4. QED BY <3>1, <3>3, SerialLocal
    <2>6. CASE LoadRestored(r)
      <3> DEFINE now == Bumped(e, with)
      <3>1. now.stamp = row.stamp /\ (Kind[e] # "USER_PROFILE" => now.number # row.number)
        <4> HIDE DEF e, row, with
        <4>1. QED BY <2>4, BumpedRow
      <3>2. Become(r, [q EXCEPT !.pc = "loaded", !.was = row, !.now = now])
        BY <2>6 DEF LoadRestored
      <3>3. q.op \in Changing(Kind[e])
        BY <2>6 DEF LoadRestored, At, Changing
      <3> HIDE DEF q, e, row, with, now
      <3>4. Kind[e] = "BENEFICIARY" => now # row
        BY <3>1
      <3>5. QED BY <2>5, <3>1, <3>2, <3>3, <3>4
    <2>7. CASE LoadApproved(r)
      <3>1. Become(r, [q EXCEPT !.pc = "loaded", !.was = row, !.now = with])
        BY <2>7 DEF LoadApproved
      <3>2. q.op \in Changing(Kind[e]) /\ Kind[e] # "BENEFICIARY"
        BY <2>7 DEF LoadApproved, At, Changing
      <3> HIDE DEF q, e, row, with
      <3>3. QED BY <2>4, <2>5, <3>1, <3>2
    <2>8. QED BY <1>3, <2>6, <2>7
  <1>4. CASE ReadNumber(r)
    <2> DEFINE n == NextNumber(db.hist[q.entity])
               s == [q EXCEPT !.pc = "numbered", !.number = n]
    <2>1. Become(r, s) /\ UNCHANGED <<db, work>> /\ q.pc = "loaded" /\ q.now = q.was
      BY <1>4 DEF ReadNumber, Dirty, Changed
    <2> HIDE DEF q, n
    <2>2. /\ s.pc = "numbered" /\ s.was = q.was /\ s.now = q.now /\ s.entity = q.entity
      BY <1>1 DEF Request
    <2> HIDE DEF s
    <2>3. Current(s, db, work)
      BY <1>1, <2>1, <2>2 DEF Current, Fits
    <2>4. QED BY <2>1, <2>3, SerialLocal
  <1>5. QED BY <1>2, <1>3, <1>4

\* A handler that begins.
LEMMA SerialStart ==
    ASSUME OneAtATime, IInv, SerialInv, NEW r \in Requests, Start(r), ~Add(r), ~Ask(r), ~Remove(r)
    PROVE  SerialInv'
  <1>1. CASE StartApprove(r) \/ StartRestore(r)
    <2>1. ASSUME NEW s, Become(r, s), s.pc = "loading"
          PROVE  SerialInv'
      <3>1. Current(s, db, work)
        BY <2>1 DEF Current
      <3>2. UNCHANGED <<db, work>>
        BY <1>1 DEF StartApprove, StartRestore
      <3>3. QED BY <2>1, <3>1, <3>2, SerialLocal
    <2>2. CASE StartApprove(r)
      <3>1. PICK e, n, k :
               Become(r, [Idle EXCEPT !.pc = "loading", !.op = "approve", !.entity = e,
                                      !.target = n, !.rollback = k])
        BY <2>2 DEF StartApprove
      <3> DEFINE s == [Idle EXCEPT !.pc = "loading", !.op = "approve", !.entity = e,
                                   !.target = n, !.rollback = k]
      <3>2. Become(r, s) /\ s.pc = "loading"
        BY <3>1 DEF Idle
      <3> HIDE DEF s
      <3>3. QED BY <2>1, <3>2
    <2>3. CASE StartRestore(r)
      <3>1. PICK e, n :
               Become(r, [Idle EXCEPT !.pc = "loading", !.op = "restore", !.entity = e,
                                      !.target = n])
        BY <2>3 DEF StartRestore
      <3> DEFINE s == [Idle EXCEPT !.pc = "loading", !.op = "restore", !.entity = e,
                                   !.target = n]
      <3>2. Become(r, s) /\ s.pc = "loading"
        BY <3>1 DEF Idle
      <3> HIDE DEF s
      <3>3. QED BY <2>1, <3>2
    <2>4. QED BY <1>1, <2>2, <2>3
  <1>2. ASSUME NEW op, NEW e, NEW new, Change(r, op, e, new), op \in Changing(Kind[e]),
               new.stamp = db.live[e].stamp, Kind[e] = "BENEFICIARY" => new # db.live[e]
        PROVE  SerialInv'
    <2> DEFINE was == db.live[e]
               s   == [Idle EXCEPT !.pc = "loaded", !.op = op, !.entity = e,
                                   !.was = was, !.now = new]
    <2>1. Become(r, s) /\ UNCHANGED <<db, work>>
      BY <1>2 DEF Change
    <2>2. new.stamp = was.stamp /\ (Kind[e] = "BENEFICIARY" => new # was)
      BY <1>2
    <2> HIDE DEF was
    <2>3. s.pc = "loaded" /\ s.op = op /\ s.was = was /\ s.now = new /\ s.entity = e
      BY DEF Idle
    <2> HIDE DEF s
    <2>4. Current(s, db, work)
      BY <1>2, <2>2, <2>3 DEF Current, Fits, was
    <2>5. QED BY <2>1, <2>4, SerialLocal
  <1>3. ASSUME EditBeneficiary(r) \/ Deactivate(r) \/ EditProfile(r) \/ Toggle(r)
               \/ Unlock(r) \/ Post(r)
        PROVE  \E op, e, new :
                  /\ Change(r, op, e, new) /\ op \in Changing(Kind[e])
                  /\ new.stamp = db.live[e].stamp
                  /\ Kind[e] = "BENEFICIARY" => new # db.live[e]
    <2>1. \A e \in Entities : db.live[e] \in Row
      BY DEF IInv, TypeOK, Database
    <2>2. CASE EditBeneficiary(r)
      <3>1. PICK e \in Entities, x \in Details :
               /\ Kind[e] = "BENEFICIARY"
               /\ Change(r, "edit", e, Bumped(e, [db.live[e] EXCEPT !.detail = x]))
        BY <2>2 DEF EditBeneficiary
      <3> DEFINE row == [db.live[e] EXCEPT !.detail = x]
      <3>2. row \in Row /\ row.stamp = db.live[e].stamp /\ row.number = db.live[e].number
        BY <2>1 DEF Row
      <3> HIDE DEF row
      <3>3. /\ Bumped(e, row).stamp = db.live[e].stamp
            /\ Bumped(e, row).number # db.live[e].number
        BY <3>1, <3>2, BumpedRow
      <3>4. Bumped(e, row) # db.live[e] /\ Change(r, "edit", e, Bumped(e, row))
        BY <3>1, <3>3 DEF row
      <3>5. "edit" \in Changing(Kind[e])
        BY <3>1 DEF Changing
      <3>6. QED BY <3>3, <3>4, <3>5
    <2>3. CASE Deactivate(r)
      <3>1. PICK e \in Entities :
               /\ Kind[e] = "BENEFICIARY"
               /\ Change(r, "deactivate", e, Bumped(e, [db.live[e] EXCEPT !.status = "inactive"]))
        BY <2>3 DEF Deactivate
      <3> DEFINE row == [db.live[e] EXCEPT !.status = "inactive"]
      <3>2. row \in Row /\ row.stamp = db.live[e].stamp /\ row.number = db.live[e].number
        BY <2>1 DEF Row
      <3> HIDE DEF row
      <3>3. /\ Bumped(e, row).stamp = db.live[e].stamp
            /\ Bumped(e, row).number # db.live[e].number
        BY <3>1, <3>2, BumpedRow
      <3>4. Bumped(e, row) # db.live[e] /\ Change(r, "deactivate", e, Bumped(e, row))
        BY <3>1, <3>3 DEF row
      <3>5. "deactivate" \in Changing(Kind[e])
        BY <3>1 DEF Changing
      <3>6. QED BY <3>3, <3>4, <3>5
    <2>4. ASSUME NEW op, NEW e \in Entities, NEW new, Change(r, op, e, new),
                 Kind[e] = "USER_PROFILE", op \in {"edit", "toggle", "unlock"},
                 new.stamp = db.live[e].stamp
          PROVE  \E o, c, n :
                    /\ Change(r, o, c, n) /\ o \in Changing(Kind[c])
                    /\ n.stamp = db.live[c].stamp
                    /\ Kind[c] = "BENEFICIARY" => n # db.live[c]
      <3>1. op \in Changing(Kind[e]) /\ Kind[e] # "BENEFICIARY"
        BY <2>4 DEF Changing
      <3>2. QED BY <2>4, <3>1
    <2>5. CASE EditProfile(r)
      <3>1. PICK e \in Entities, x \in Details, y \in Asides :
               /\ Kind[e] = "USER_PROFILE"
               /\ Change(r, "edit", e, [db.live[e] EXCEPT !.detail = x, !.aside = y])
        BY <2>5 DEF EditProfile
      <3> DEFINE row == [db.live[e] EXCEPT !.detail = x, !.aside = y]
      <3>2. row.stamp = db.live[e].stamp
        BY <2>1 DEF Row
      <3>3. Change(r, "edit", e, row)
        BY <3>1
      <3> HIDE DEF row
      <3>4. QED BY <2>4, <3>1, <3>2, <3>3
    <2>6. CASE Toggle(r)
      <3>1. PICK e \in Entities :
               /\ Kind[e] = "USER_PROFILE"
               /\ Change(r, "toggle", e,
                         [db.live[e] EXCEPT !.status = IF @ = "active" THEN "inactive" ELSE "active"])
        BY <2>6 DEF Toggle
      <3> DEFINE row == [db.live[e] EXCEPT !.status =
                            IF @ = "active" THEN "inactive" ELSE "active"]
      <3>2. row.stamp = db.live[e].stamp
        BY <2>1 DEF Row
      <3>3. Change(r, "toggle", e, row)
        BY <3>1
      <3> HIDE DEF row
      <3>4. QED BY <2>4, <3>1, <3>2, <3>3
    <2>7. CASE Unlock(r)
      BY <2>4, <2>7 DEF Unlock
    <2>8. CASE Post(r)
      <3>1. PICK e \in Entities, y \in Asides :
               /\ Kind[e] = "ACCOUNT"
               /\ Change(r, "post", e, Bumped(e, [db.live[e] EXCEPT !.aside = y]))
        BY <2>8 DEF Post
      <3> DEFINE row == [db.live[e] EXCEPT !.aside = y]
      <3>2. row \in Row /\ row.stamp = db.live[e].stamp
        BY <2>1 DEF Row
      <3>3. Change(r, "post", e, Bumped(e, row))
        BY <3>1
      <3> HIDE DEF row
      <3>4. Bumped(e, row).stamp = db.live[e].stamp
        BY <3>2, BumpedRow
      <3>5. "post" \in Changing(Kind[e])
        BY <3>1 DEF Changing
      <3>6. QED BY <3>1, <3>3, <3>4, <3>5
    <2>9. QED BY <1>3, <2>2, <2>3, <2>5, <2>6, <2>7, <2>8
  <1>4. QED BY <1>1, <1>2, <1>3 DEF Start

\* A flush leaves the row as the version of the change is going to say.
LEMMA FlushLeaves ==
    ASSUME NEW q \in Request, Fits(q), q.was # q.now, q.entity \in Entities,
           Approves(q, db), db \in Database,
           NEW row, row = [q.now EXCEPT !.stamp = q.was.stamp + 1],
           NEW s, s.entity = q.entity, s.op = q.op, s.rollback = q.rollback,
           s.was = q.was, s.now = Flushed(q, row)
    PROVE  Snapshot(q.entity, row) = Leaves(s)
  <1> DEFINE was  == q.was
             now  == q.now
             kind == Kind[q.entity]
             n    == was.stamp + 1
  <1>1. /\ was \in Row /\ now \in Row /\ now.stamp = was.stamp /\ was # now
        /\ kind \in Kinds /\ q.op \in Changing(kind)
    BY ConstantsAssumption DEF Request, Fits
  <1>2. q.op # "approve" => q.rollback = 0
    BY DEF Approves
  <1>3. q.op = "approve" => q.rollback # 0
    <2>1. db.rollbacks \in Seq(Rollback)
      BY DEF Database
    <2>2. QED BY <2>1 DEF Approves
  <1>4. row = [now EXCEPT !.stamp = n] /\ row.stamp = n /\ n = now.stamp + 1
    BY <1>1 DEF Row
  <1>5. Snapshot(q.entity, now) =
          IF kind = "USER_PROFILE" THEN [now EXCEPT !.aside = FirstAside, !.stamp = 0] ELSE now
    BY DEF Snapshot
  <1>6. CASE q.op \in {"post", "restore"}
    <2>1. s.now = row
      <3>1. s.now = [now EXCEPT !.stamp = row.stamp]
        BY <1>6 DEF Flushed
      <3> HIDE DEF now, n
      <3>2. QED BY <1>4, <3>1
    <2>2. ~Early(s)
      BY <1>1, <1>2, <1>6 DEF Early
    <2>3. QED BY <2>1, <2>2 DEF Leaves
  <1>7. CASE q.op \notin {"post", "restore"}
    <2>1. s.now = now
      BY <1>7 DEF Flushed
    <2>2. CASE kind = "BENEFICIARY"
      <3>1. Early(s)
        BY <1>1, <1>7, <2>2 DEF Early, Changing
      <3>2. Leaves(s) = [now EXCEPT !.stamp = @ + 1]
        BY <2>1, <2>2, <3>1 DEF Leaves, Snapshot
      <3>3. Snapshot(q.entity, row) = row
        BY <2>2 DEF Snapshot
      <3>4. QED BY <1>4, <3>2, <3>3
    <2>3. CASE kind = "ACCOUNT"
      <3>1. q.op = "approve"
        BY <1>1, <1>7, <2>3 DEF Changing
      <3>2. Early(s)
        BY <1>1, <1>3, <2>1, <2>3, <3>1 DEF Early, Snapshot
      <3>3. Leaves(s) = [now EXCEPT !.stamp = @ + 1]
        BY <2>1, <2>3, <3>2 DEF Leaves, Snapshot
      <3>4. Snapshot(q.entity, row) = row
        BY <2>3 DEF Snapshot
      <3>5. QED BY <1>4, <3>3, <3>4
    <2>4. CASE kind = "USER_PROFILE"
      <3>1. ~Early(s)
        BY <1>1, <1>2, <1>7, <2>4 DEF Early, Changing
      <3>2. Leaves(s) = [now EXCEPT !.aside = FirstAside, !.stamp = 0]
        BY <1>5, <2>1, <2>4, <3>1 DEF Leaves
      <3>3. Snapshot(q.entity, row) = [row EXCEPT !.aside = FirstAside, !.stamp = 0]
        BY <2>4 DEF Snapshot
      <3> HIDE DEF now, n
      <3>4. [row EXCEPT !.aside = FirstAside, !.stamp = 0]
              = [now EXCEPT !.aside = FirstAside, !.stamp = 0]
        BY <1>1, <1>4, RowColumns
      <3>5. QED BY <3>2, <3>3, <3>4
    <2>5. QED BY <1>1, <2>2, <2>3, <2>4 DEF Kinds
  <1>8. QED BY <1>6, <1>7

\* A flush writes the row in memory over the row as it was loaded.
LEMMA SerialFlush ==
    ASSUME OneAtATime, IInv, HonourInv, SerialInv, NEW r \in Requests, FlushChanged(r)
    PROVE  SerialInv'
  <1> DEFINE q    == req[r]
             e    == q.entity
             row  == Merge(db.live[e], q.was, q.now)
             now  == Flushed(q, row)
             live == [db.live EXCEPT ![e] = row]
             f    == [db EXCEPT !.live = live]
             s    == [q EXCEPT !.pc = "flushed", !.now = now]
  <1>1. /\ db \in Database /\ q \in Request /\ q.pc = "loaded" /\ Placed(q, db)
        /\ Current(q, db, work) /\ Chained(db) /\ Shown(db) /\ q.was # q.now
        /\ Approves(q, db)
    BY DEF FlushChanged, Changed, IInv, TypeOK, HonourInv, SerialInv
  <1>2. work' = f /\ db' = db /\ Become(r, s)
    BY DEF FlushChanged, Take
  <1> HIDE DEF q, now
  <1>3. /\ e \in Entities /\ q.was = db.live[e] /\ q.was \in Row /\ q.now \in Row
        /\ Fits(q)
    BY <1>1 DEF Placed, Current, Request
  <1>4. row = [q.now EXCEPT !.stamp = q.was.stamp + 1]
    BY <1>3, MergeCurrent
  <1>5. /\ s.pc = "flushed" /\ s.entity = e /\ s.op = q.op /\ s.rollback = q.rollback
        /\ s.was = q.was /\ s.now = now
    BY <1>1 DEF Request
  <1> HIDE DEF s, row
  <1>6. live[e] = row /\ \A c \in Entities \ {e} : live[c] = db.live[c]
    BY <1>1, <1>3 DEF Database
  <1> HIDE DEF live
  <1>7. f.hist = db.hist /\ f.live = live
    BY <1>1 DEF Database
  <1> HIDE DEF f, e
  <1>8. Chained(f)
    BY <1>1, <1>7, ChainedSame
  <1>9. Snapshot(e, row) = Leaves(s)
    <2>1. s.entity = q.entity /\ s.now = Flushed(q, row) /\ q.entity \in Entities
      BY <1>3, <1>5 DEF e, now
    <2>2. QED BY <1>1, <1>3, <1>4, <1>5, <2>1, FlushLeaves
  <1>10. Current(s, db, f)
    <2>1. f.live[e] = row
      BY <1>6, <1>7
    <2>2. HeadShows(f, e, q.was)
      BY <1>1, <1>3, <1>7 DEF Shown, HeadShows
    <2>3. \A c \in Entities \ {e} : HeadShows(f, c, f.live[c])
      BY <1>1, <1>6, <1>7 DEF Shown, HeadShows
    <2>4. Kind[e] = "BENEFICIARY" => s.op \in {"add", "edit", "deactivate", "restore"}
      BY <1>3, <1>5 DEF Fits, Changing, e
    <2>5. QED BY <1>5, <1>9, <2>1, <2>2, <2>3, <2>4 DEF Current
  <1>11. QED BY <1>2, <1>8, <1>10, SerialWrite

\* The flush of an audit row leaves the record as it is.
LEMMA SerialFlushAudit ==
    ASSUME OneAtATime, IInv, HonourInv, SerialInv, NEW r \in Requests, FlushAudit(r)
    PROVE  SerialInv'
  <1> DEFINE q == req[r]
             f == db
             s == [q EXCEPT !.pc = "flushed"]
  <1>1. /\ q \in Request /\ q.pc = "loaded" /\ Placed(q, db) /\ db \in Database
        /\ Current(q, db, work) /\ Chained(f) /\ Shown(f) /\ Approves(q, db)
        /\ q.now = q.was /\ q.op = "unlock"
    BY DEF FlushAudit, Dirty, Changed, IInv, TypeOK, HonourInv, SerialInv
  <1>2. work' = f /\ db' = db /\ Become(r, s)
    BY DEF FlushAudit, Take
  <1> HIDE DEF q
  <1>3. q.entity \in Entities /\ q.was = f.live[q.entity] /\ Fits(q)
    BY <1>1 DEF Placed, Current
  <1> HIDE DEF f
  <1>4. Kind[q.entity] # "BENEFICIARY"
    BY <1>1, <1>3 DEF Fits
  <1>5. /\ s.pc = "flushed" /\ s.entity = q.entity /\ s.rollback = q.rollback
        /\ s.was = q.was /\ s.now = q.now
    BY <1>1 DEF Request
  <1> HIDE DEF s
  <1>6. Leaves(s) = Snapshot(q.entity, f.live[q.entity])
    BY <1>1, <1>3, <1>4, <1>5 DEF Leaves, Early
  <1>7. Current(s, db, f)
    BY <1>1, <1>3, <1>4, <1>5, <1>6 DEF Current, Shown
  <1>8. QED BY <1>1, <1>2, <1>7, SerialWrite

\* add_beneficiary inserts a record that has no version yet.
LEMMA SerialAdd ==
    ASSUME OneAtATime, IInv, SerialInv, NEW r \in Requests, Add(r)
    PROVE  SerialInv'
  <1>1. PICK e \in Entities, x \in Details :
           /\ ~Exists(e)
           /\ Take(r, [db EXCEPT !.live[e] = [FirstRow EXCEPT !.detail = x]],
                   [Idle EXCEPT !.pc = "flushed", !.op = "add", !.entity = e,
                                !.was = [FirstRow EXCEPT !.detail = x],
                                !.now = [FirstRow EXCEPT !.detail = x]])
    BY DEF Add
  <1> DEFINE row  == [FirstRow EXCEPT !.detail = x]
             live == [db.live EXCEPT ![e] = row]
             f    == [db EXCEPT !.live = live]
             s    == [Idle EXCEPT !.pc = "flushed", !.op = "add", !.entity = e,
                                  !.was = row, !.now = row]
  <1>2. work' = f /\ db' = db /\ Become(r, s)
    BY <1>1 DEF Take
  <1>3. db \in Database /\ Chained(db) /\ Shown(db)
    BY DEF IInv, TypeOK, SerialInv
  <1> HIDE DEF row
  <1>4. /\ s.pc = "flushed" /\ s.op = "add" /\ s.entity = e /\ s.was = row /\ s.now = row
        /\ s.rollback = 0
    BY DEF Idle
  <1>5. live[e] = row /\ \A c \in Entities \ {e} : live[c] = db.live[c]
    BY <1>3 DEF Database
  <1> HIDE DEF s, live
  <1>6. f.hist = db.hist /\ f.live = live
    BY <1>3 DEF Database
  <1> HIDE DEF f
  <1>7. Chained(f)
    BY <1>3, <1>6, ChainedSame
  <1>8. Current(s, db, f)
    <2>1. f.live[e] = row
      BY <1>5, <1>6
    <2>2. HeadShows(f, e, row)
      BY <1>1, <1>6 DEF Exists, HeadShows
    <2>3. \A c \in Entities \ {e} : HeadShows(f, c, f.live[c])
      BY <1>3, <1>5, <1>6 DEF Shown, HeadShows
    <2>4. Leaves(s) = Snapshot(e, row)
      BY <1>4 DEF Leaves, Early
    <2>5. QED BY <1>4, <2>1, <2>2, <2>3, <2>4 DEF Current
  <1>9. QED BY <1>2, <1>7, <1>8, SerialWrite

\* A rollback request, an approval that only marks its request and a deletion
\* touch neither rows nor versions.
LEMMA SerialMark ==
    ASSUME OneAtATime, IInv, SerialInv, NEW r \in Requests,
           Ask(r) \/ ApproveOnly(r) \/ Remove(r)
    PROVE  SerialInv'
  <1>1. db \in Database /\ req[r] \in Request /\ Chained(db) /\ Shown(db)
    BY DEF IInv, TypeOK, SerialInv
  <1>2. ASSUME NEW f, NEW s, f.hist = db.hist, f.live = db.live, s.pc = "recorded", Take(r, f, s)
        PROVE  SerialInv'
    <2>1. Chained(f) /\ Shown(f)
      BY <1>1, <1>2, ChainedSame, ShownSame
    <2>2. Current(s, db, f)
      BY <1>2, <2>1 DEF Current
    <2>3. Become(r, s) /\ db' = db /\ work' = f
      BY <1>2 DEF Take
    <2>4. QED BY <2>1, <2>2, <2>3, SerialWrite
  <1>3. CASE Ask(r)
    <2>1. PICK e, n :
             Take(r, [db EXCEPT !.rollbacks =
                         Append(@, [entity |-> e, target |-> n, status |-> "PENDING"])],
                  [Idle EXCEPT !.pc = "recorded", !.op = "ask", !.entity = e])
      BY <1>3 DEF Ask
    <2> DEFINE rows == Append(db.rollbacks, [entity |-> e, target |-> n, status |-> "PENDING"])
               f    == [db EXCEPT !.rollbacks = rows]
               s    == [Idle EXCEPT !.pc = "recorded", !.op = "ask", !.entity = e]
    <2>2. Take(r, f, s)
      BY <2>1
    <2>3. s.pc = "recorded"
      BY DEF Idle
    <2> HIDE DEF rows, s
    <2>4. f.hist = db.hist /\ f.live = db.live
      BY <1>1 DEF Database
    <2> HIDE DEF f
    <2>5. QED BY <1>2, <2>2, <2>3, <2>4
  <1>4. CASE ApproveOnly(r)
    <2> DEFINE q == req[r]
               k == q.rollback
               f == Executed(db, k)
               s == [q EXCEPT !.pc = "recorded"]
    <2>1. Take(r, f, s) /\ k \in 0 .. Len(db.rollbacks)
      BY <1>4 DEF ApproveOnly, IInv, Placed
    <2> HIDE DEF q
    <2>2. s.pc = "recorded"
      BY <1>1 DEF Request, q
    <2> HIDE DEF k, s
    <2>3. Marked(db, f, k)
      BY <1>1, <2>1, ExecutedRows
    <2> HIDE DEF f
    <2>4. QED BY <1>2, <2>1, <2>2, <2>3 DEF Marked
  <1>5. CASE Remove(r)
    <2>1. PICK owned \in SUBSET {e \in Entities : Present(e)} :
             Take(r, [db EXCEPT !.gone = @ \cup owned],
                  [Idle EXCEPT !.pc = "recorded", !.op = "remove"])
      BY <1>5 DEF Remove
    <2> DEFINE f == [db EXCEPT !.gone = @ \cup owned]
               s == [Idle EXCEPT !.pc = "recorded", !.op = "remove"]
    <2>2. Take(r, f, s)
      BY <2>1
    <2>3. s.pc = "recorded"
      BY DEF Idle
    <2>4. f.hist = db.hist /\ f.live = db.live
      BY <1>1, RemovedImage
    <2> HIDE DEF f, s
    <2>5. QED BY <1>2, <2>2, <2>3, <2>4
  <1>6. QED BY <1>3, <1>4, <1>5

\* create_version under the lock.
LEMMA SerialRecord ==
    ASSUME OneAtATime, IInv, HonourInv, SerialInv, NEW r \in Requests, Record(r)
    PROVE  SerialInv'
  <1> DEFINE q == req[r]
             n == NextNumber(work.hist[q.entity])
             f == WithVersion(work, q, n)
             s == [q EXCEPT !.pc = "recorded"]
  <1>1. /\ q \in Request /\ q.pc = "flushed" /\ Placed(q, db) /\ Approves(q, db)
        /\ db \in Database /\ work \in Database /\ Dense(work) /\ q.entity \in Entities
        /\ Grows(db, work) /\ Targets(db, work)
    BY DEF Record, IInv, TypeOK, Sound, HonourInv, Placed
  <1>2. Chained(work) /\ Current(q, db, work)
    BY DEF SerialInv
  <1>3. work' = f /\ db' = db /\ Become(r, s)
    BY DEF Record
  <1> HIDE DEF q
  <1>4. n \in Nat
    <2>1. work.hist[q.entity] \in Seq(Version)
      BY <1>1 DEF Database
    <2>2. NextNumber(work.hist[q.entity]) = Len(work.hist[q.entity]) + 1
      BY <1>1, <2>1, NextNumberDense DEF Dense
    <2>3. QED BY <2>1, <2>2
  <1>5. s.pc = "recorded"
    BY <1>1 DEF Request
  <1>6. /\ Snapshot(q.entity, work.live[q.entity]) = Leaves(q)
        /\ HeadShows(work, q.entity, q.was)
        /\ Kind[q.entity] = "BENEFICIARY" => q.op \in {"add", "edit", "deactivate", "restore"}
        /\ \A e \in Entities \ {q.entity} : HeadShows(work, e, work.live[e])
    BY <1>1, <1>2 DEF Current
  <1> HIDE DEF s, n
  <1>7. Chained(f) /\ Shown(f)
    BY <1>1, <1>2, <1>4, <1>6, SerialVersion
  <1> HIDE DEF f
  <1>8. Current(s, db, f)
    BY <1>5, <1>7 DEF Current
  <1>9. QED BY <1>3, <1>7, <1>8, SerialWrite

\* The insert of a version without a flush: the record is unchanged.
LEMMA SerialInsert ==
    ASSUME OneAtATime, IInv, HonourInv, SerialInv, NEW r \in Requests, Insert(r)
    PROVE  SerialInv'
  <1> DEFINE q == req[r]
             n == q.number
             f == WithVersion(db, q, n)
             s == [q EXCEPT !.pc = "recorded"]
  <1>1. /\ q \in Request /\ q.pc = "numbered" /\ Placed(q, db) /\ Approves(q, db)
        /\ db \in Database /\ q.entity \in Entities
    BY DEF Insert, IInv, TypeOK, HonourInv, Placed
  <1>2. Chained(db) /\ Shown(db) /\ Current(q, db, work)
    BY DEF SerialInv
  <1>3. work' = f /\ db' = db /\ Become(r, s)
    BY DEF Insert, Take
  <1> HIDE DEF q
  <1>4. n \in Nat
    BY <1>1 DEF Request
  <1>5. s.pc = "recorded"
    BY <1>1 DEF Request
  <1>6. /\ Snapshot(q.entity, db.live[q.entity]) = Leaves(q)
        /\ HeadShows(db, q.entity, q.was)
        /\ Kind[q.entity] = "BENEFICIARY" => q.op \in {"add", "edit", "deactivate", "restore"}
        /\ \A e \in Entities \ {q.entity} : HeadShows(db, e, db.live[e])
    <2>1. q.was = db.live[q.entity] /\ q.now = q.was /\ Kind[q.entity] # "BENEFICIARY"
      BY <1>1, <1>2 DEF Current
    <2>2. Leaves(q) = Snapshot(q.entity, q.now)
      BY <2>1 DEF Leaves, Early
    <2>3. QED BY <1>1, <1>2, <2>1, <2>2 DEF Shown
  <1>7. Grows(db, db) /\ Targets(db, db)
    BY <1>1, GrowsReflexive DEF Targets
  <1> HIDE DEF s, n
  <1>8. Chained(f) /\ Shown(f)
    BY <1>1, <1>2, <1>4, <1>6, <1>7, SerialVersion
  <1> HIDE DEF f
  <1>9. Current(s, db, f)
    BY <1>5, <1>8 DEF Current
  <1>10. QED BY <1>3, <1>8, <1>9, SerialWrite

\* A commit publishes an image that shows every record.
LEMMA SerialCommit ==
    ASSUME OneAtATime, IInv, SerialInv, NEW r \in Requests, Commit(r)
    PROVE  SerialInv'
  <1> DEFINE w == work
  <1>1. Current(req[r], db, work) /\ req[r].pc = "recorded" /\ Chained(work)
    BY DEF Commit, SerialInv
  <1>2. Chained(w) /\ Shown(w) /\ db' = w /\ work' = w /\ Become(r, Idle)
    BY <1>1 DEF Current, Commit
  <1> HIDE DEF w
  <1>3. Current(Idle, w, w)
    BY IdleCurrent
  <1>4. QED BY <1>2, <1>3, SerialStep

\* A failure leaves the committed database alone.
LEMMA SerialFail ==
    ASSUME OneAtATime, IInv, SerialInv, NEW r \in Requests, Fail(r)
    PROVE  SerialInv'
  <1>1. Become(r, Idle) /\ db' = db /\ work' \in {db, work}
    BY DEF Fail
  <1>2. Chained(db)
    BY DEF SerialInv
  <1>3. CASE work' = db
    BY <1>1, <1>2, <1>3, IdleCurrent, SerialWrite
  <1>4. CASE work' = work
    BY <1>1, <1>4, IdleCurrent, SerialLocal
  <1>5. QED BY <1>1, <1>3, <1>4

\* At first the only version of a record shows it.
LEMMA InitSerial == Init => SerialInv
  <1> SUFFICES ASSUME Init PROVE SerialInv
    OBVIOUS
  <1> DEFINE v    == [number |-> 1, type |-> "CREATE", old |-> FirstRow,
                      new |-> FirstRow, from |-> 0, reason |-> 0]
             hist == [e \in Entities |-> IF e \in Created THEN <<v>> ELSE <<>>]
  <1>1. /\ db.hist = hist /\ work = db /\ \A e \in Entities : db.live[e] = FirstRow
        /\ \A r \in Requests : req[r] = Idle
    BY DEF Init
  <1>2. v.new = FirstRow /\ v.type = "CREATE" /\ v.reason = 0
    OBVIOUS
  <1> HIDE DEF v
  <1>3. \A e \in Entities : hist[e] = <<v>> \/ hist[e] = <<>>
    OBVIOUS
  <1> HIDE DEF hist
  <1>4. Chained(db)
    BY <1>1, <1>3 DEF Chained
  <1>5. \A e \in Entities : Snapshot(e, FirstRow) = FirstRow
    <2>1. FirstRow \in Row /\ FirstRow.aside = FirstAside /\ FirstRow.stamp = 0
      BY ConstantsAssumption DEF FirstRow, Row
    <2>2. QED BY <2>1 DEF Snapshot, Row
  <1>6. Shown(db)
    BY <1>1, <1>2, <1>3, <1>5 DEF Shown, HeadShows, Last, Left, CapturedEarly
  <1>7. QED BY <1>1, <1>4, <1>6, IdleCurrent DEF SerialInv

\* Every step of the only request keeps the invariant.
LEMMA NextSerial ==
    ASSUME OneAtATime
    PROVE  IInv /\ HonourInv /\ SerialInv /\ [Next]_vars => SerialInv'
  <1> SUFFICES ASSUME IInv, HonourInv, SerialInv, [Next]_vars PROVE SerialInv'
    OBVIOUS
  <1>1. CASE UNCHANGED vars
    <2>1. db' = db /\ work' = work /\ req' = req
      BY <1>1 DEF vars
    <2>2. Chained(db)' /\ Chained(work)'
      BY <2>1 DEF SerialInv, Chained
    <2>3. Shown(db)'
      BY <2>1 DEF SerialInv, Shown, HeadShows
    <2>4. \A r \in Requests : Current(req[r], db, work)'
      BY <2>1 DEF SerialInv, Current, Shown, HeadShows
    <2>5. QED BY <2>2, <2>3, <2>4 DEF SerialInv
  <1>2. CASE Rest
    BY <1>1, <1>2 DEF Rest
  <1>3. ASSUME NEW r \in Requests, Start(r)
        PROVE  SerialInv'
    BY <1>3, SerialStart, SerialAdd, SerialMark
  <1>4. ASSUME NEW r \in Requests, Step(r)
        PROVE  SerialInv'
    BY <1>4, SerialQuiet, SerialMark, SerialFlush, SerialFlushAudit, SerialRecord,
       SerialInsert, SerialCommit DEF Step
  <1>5. ASSUME NEW r \in Requests, Fail(r)
        PROVE  SerialInv'
    BY <1>5, SerialFail
  <1>6. QED BY <1>1, <1>2, <1>3, <1>4, <1>5 DEF Next

\* The invariant of requests that do not overlap.
LEMMA SerialInductive ==
    ASSUME OneAtATime
    PROVE  Spec => []SerialInv
  <1>1. Init => IInv /\ HonourInv /\ SerialInv
    BY InitIInv, InitHonour, InitSerial
  <1>2. IInv /\ HonourInv /\ SerialInv /\ [Next]_vars => (IInv /\ HonourInv /\ SerialInv)'
    BY NextIInv, NextHonour, NextSerial
  <1>3. QED BY <1>1, <1>2, PTL DEF Spec

\* While requests do not overlap, the newest committed version of a record shows
\* the record as it is, but for the timestamp where new_data is captured before
\* the UPDATE, whichever request fails wherever it does (create_version's
\* callers).
THEOREM HeadShowsRecord ==
    ASSUME OneAtATime
    PROVE  Spec => []HeadIsLive
  <1>1. SerialInv => HeadIsLive
    BY DEF SerialInv, Shown, HeadShows, HeadIsLive, Present, Exists
  <1>2. QED BY <1>1, SerialInductive, PTL

\* While requests do not overlap, every version starts from the state in which
\* the one before it left the record, except for a direct restore (create_version's callers, approve_rollback).
THEOREM HistoriesContinue ==
    ASSUME OneAtATime
    PROVE  Spec => []ContiguousUnlessRestored
  <1>1. SerialInv => ContiguousUnlessRestored
    BY DEF SerialInv, Chained, ContiguousUnlessRestored
  <1>2. QED BY <1>1, SerialInductive, PTL
================================================================================
