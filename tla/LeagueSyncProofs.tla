------------------------- MODULE LeagueSyncProofs -------------------------
(***************************************************************************)
(* For any number of synchronisations that overlap, fail and are killed,    *)
(* next to the deletion of the league: the history accumulates, the digest  *)
(* describes the pools it compares, enrichments do not go back, and, until  *)
(* two calls overlap, what readers see is replaced as a whole.              *)
(***************************************************************************)
EXTENDS LeagueSync, FiniteSetTheorems, TLAPS

USE SyncAssumption, NoneAssumption DEF Maybe

\* A league's pool is complete, and its weeks are recorded.
StoreInv ==
  store.row # None =>
    LET i == store.row.id
    IN  /\ store.pool[i] \in Pool
        /\ {store.pool[i].teams, store.pool[i].agents} \subseteq store.history[i]

DeleteInv == deletion # None => store.row # None /\ store.row.id = deletion.id

\* What a synchronisation that holds the lock has made of the store, which has
\* not changed since.
Sound(q) ==
  LET i == q.mine.id
  IN  /\ q.mine \in Row /\ q.work \in Store /\ q.now \in Times
      /\ q.work.row \in Row /\ q.work.row.id = i
      /\ q.work.pool[i] # None /\ q.work.pool[i].teams \in q.work.history[i]
      /\ q.before = IF store.row = None THEN None ELSE store.pool[i]
      /\ store.row = None =>
           q.work.row.digest = None /\ q.work.row.weekly = None /\ q.work.row.live = None
      /\ store.row # None =>
           /\ store.row.id = i
           /\ store.history[i] \subseteq q.work.history[i]
           /\ q.work.row.weekly = store.row.weekly /\ q.work.row.live = store.row.live

JobInv ==
  \A j \in Jobs :
    /\ job[j].at = "rebuilding" <=> lock = j
    /\ job[j].at = "rebuilding" => Sound(job[j])
    /\ job[j].at # "rebuilding" => job[j].before = None
    /\ job[j].at = "idle" => job[j].loaded = None
    /\ job[j].at \in {"fetched", "read", "rebuilding"} => job[j].fetched \in Versions
    /\ job[j].at = "read" => job[j].now \in Times

Inv == TypeOK /\ StoreInv /\ DeleteInv /\ JobInv
-----------------------------------------------------------------------------
LEMMA IdleType == Idle \in Job /\ Idle.at = "idle" /\ Idle.before = None /\ Idle.loaded = None
BY DEF Idle, Job

LEMMA InitInv == Init => Inv
<1> SUFFICES ASSUME Init PROVE Inv
  OBVIOUS
<1>1. store \in Store
  BY DEF Init, Store
<1>2. TypeOK
  <2>1. espn \in Versions /\ clock \in 0 .. MaxTime
    BY DEF Init, Versions
  <2>2. job \in [Jobs -> Job]
    BY IdleType DEF Init
  <2>3. QED
    BY <1>1, <2>1, <2>2 DEF Init, TypeOK
<1>3. StoreInv /\ DeleteInv
  BY DEF Init, StoreInv, DeleteInv
<1>4. JobInv
  BY IdleType DEF Init, JobInv, Idle
<1>5. QED
  BY <1>2, <1>3, <1>4 DEF Inv

\* The wipe and what takes its place.
LEMMA RebuiltStore ==
  ASSUME NEW s \in Store, NEW i \in RowIds, NEW version \in Versions, NEW now \in Times
  PROVE  LET r == Rebuilt(s, i, version, now)
         IN  /\ r \in Store /\ r.row = s.row
             /\ r.pool[i] # None /\ r.pool[i].teams = version /\ r.pool[i].by = now
             /\ r.history[i] = s.history[i] \union {version}
<1> DEFINE p == [teams |-> version, agents |-> None, by |-> now]
<1>1. p \in Partial /\ p.teams = version /\ p.by = now
  BY DEF Partial
<1>2. p # None
  BY <1>1
<1>3. Rebuilt(s, i, version, now) =
        [s EXCEPT !.pool = [s.pool EXCEPT ![i] = p],
                  !.history = [s.history EXCEPT ![i] = s.history[i] \union {version}]]
  BY DEF Rebuilt, Store
<1> HIDE DEF p
<1> DEFINE pools == [s.pool EXCEPT ![i] = p]
           histories == [s.history EXCEPT ![i] = s.history[i] \union {version}]
<1>4. pools \in [RowIds -> Maybe(Partial)] /\ pools[i] = p
  BY <1>1 DEF Store
<1>5. histories \in [RowIds -> SUBSET Versions] /\ histories[i] = s.history[i] \union {version}
  BY DEF Store
<1>6. Rebuilt(s, i, version, now) = [s EXCEPT !.pool = pools, !.history = histories]
  BY <1>3
<1> HIDE DEF pools, histories
<1>7. Rebuilt(s, i, version, now) = [row |-> s.row, pool |-> pools, history |-> histories]
  BY <1>6 DEF Store
<1>8. QED
  BY <1>1, <1>2, <1>4, <1>5, <1>7 DEF Store

\* A step of one call that leaves it without the lock.
LEMMA JobStep ==
  ASSUME Inv, NEW j \in Jobs, NEW q \in Job, job' = [job EXCEPT ![j] = q],
         q.at # "rebuilding", q.before = None, q.at = "idle" => q.loaded = None,
         q.at \in {"fetched", "read", "rebuilding"} => q.fetched \in Versions,
         q.at = "read" => q.now \in Times,
         lock' = IF lock = j THEN None ELSE lock,
         UNCHANGED <<store, deletion>>,
         espn' \in Versions, clock' \in 0 .. MaxTime, overlapped' \in BOOLEAN
  PROVE  Inv'
<1>1. /\ job' \in [Jobs -> Job] /\ job'[j] = q
      /\ \A k \in Jobs : k # j => job'[k] = job[k]
  BY DEF Inv, TypeOK
<1>2. TypeOK'
  BY <1>1 DEF Inv, TypeOK
<1>3. StoreInv' /\ DeleteInv'
  BY DEF Inv, StoreInv, DeleteInv
<1>4. ASSUME NEW k \in Jobs, k # j
      PROVE  /\ job'[k].at = "rebuilding" <=> lock' = k
             /\ job'[k].at = "rebuilding" => Sound(job[k])'
             /\ job'[k].at # "rebuilding" => job'[k].before = None
             /\ job'[k].at = "idle" => job'[k].loaded = None
             /\ job'[k].at \in {"fetched", "read", "rebuilding"} => job'[k].fetched \in Versions
             /\ job'[k].at = "read" => job'[k].now \in Times
  BY <1>1, <1>4 DEF Inv, JobInv, Sound
<1>5. JobInv'
  BY <1>1, <1>4 DEF JobInv
<1>6. QED
  BY <1>2, <1>3, <1>5 DEF Inv

LEMMA LoadStep ==
  ASSUME Inv, NEW j \in Jobs, Load(j), overlapped' \in BOOLEAN
  PROVE  Inv'
<1> DEFINE q == [Idle EXCEPT !.at = "loaded", !.loaded = store.row]
<1>1. store.row \in Maybe(Row)
  BY DEF Inv, TypeOK, Store
<1>2. q \in Job /\ q.at = "loaded" /\ q.before = None
  BY <1>1 DEF Idle, Job
<1>3. job' = [job EXCEPT ![j] = q]
  BY DEF Load
<1>4. lock' = IF lock = j THEN None ELSE lock
  BY DEF Load, Inv, JobInv
<1>5. UNCHANGED <<store, deletion>> /\ espn' \in Versions /\ clock' \in 0 .. MaxTime
  BY DEF Load, Inv, TypeOK
<1> HIDE DEF q
<1>6. QED
  BY <1>2, <1>3, <1>4, <1>5, JobStep

LEMMA FetchStep ==
  ASSUME Inv, NEW j \in Jobs, Fetch(j), overlapped' \in BOOLEAN
  PROVE  Inv'
<1> DEFINE q == [job[j] EXCEPT !.at = "fetched", !.fetched = espn]
<1>1. job[j] \in Job /\ job[j].before = None /\ espn \in Versions
  BY DEF Fetch, Inv, TypeOK, JobInv
<1>2. /\ q \in Job /\ q.at = "fetched" /\ q.before = None /\ q.fetched \in Versions
  BY <1>1 DEF Job
<1>3. job' = [job EXCEPT ![j] = q]
  BY DEF Fetch
<1>4. lock' = IF lock = j THEN None ELSE lock
  BY DEF Fetch, Inv, JobInv
<1>5. UNCHANGED <<store, deletion>> /\ espn' \in Versions /\ clock' \in 0 .. MaxTime
  BY DEF Fetch, Inv, TypeOK
<1> HIDE DEF q
<1>6. QED
  BY <1>2, <1>3, <1>4, <1>5, JobStep

LEMMA ReadStep ==
  ASSUME Inv, NEW j \in Jobs, ReadRow(j), overlapped' \in BOOLEAN
  PROVE  Inv'
<1> DEFINE q == [job[j] EXCEPT !.at = "read", !.mine = Found(j), !.now = clock + 1]
<1>1. clock + 1 \in Times /\ clock + 1 \in 0 .. MaxTime /\ Found(j) \in Maybe(Row)
  BY DEF ReadRow, Found, Inv, TypeOK, Times, Store, Job
<1>2. job[j] \in Job /\ job[j].at = "fetched" /\ job[j].fetched \in Versions /\ job[j].before = None
  BY DEF ReadRow, Inv, TypeOK, JobInv
<1>3. /\ q \in Job /\ q.at = "read" /\ q.before = None /\ q.fetched \in Versions /\ q.now \in Times
  BY <1>1, <1>2 DEF Job
<1>4. job' = [job EXCEPT ![j] = q]
  BY DEF ReadRow
<1>5. lock' = IF lock = j THEN None ELSE lock
  BY <1>2 DEF ReadRow, Inv, JobInv
<1>6. UNCHANGED <<store, deletion>> /\ espn' \in Versions /\ clock' \in 0 .. MaxTime
  BY <1>1 DEF ReadRow, Inv, TypeOK
<1> HIDE DEF q
<1>7. QED
  BY <1>3, <1>4, <1>5, <1>6, JobStep

LEMMA FailStep ==
  ASSUME Inv, NEW j \in Jobs, Fail(j), overlapped' \in BOOLEAN
  PROVE  Inv'
<1>1. /\ job' = [job EXCEPT ![j] = Idle] /\ lock' = IF lock = j THEN None ELSE lock
      /\ UNCHANGED <<store, deletion>> /\ espn' \in Versions /\ clock' \in 0 .. MaxTime
  BY DEF Fail, Inv, TypeOK
<1>2. QED
  BY <1>1, IdleType, JobStep

\* A flush that gets the lock: nobody else holds it, and the store stays.
LEMMA FlushStep ==
  ASSUME Inv, NEW j \in Jobs, NEW q \in Job, job' = [job EXCEPT ![j] = q],
         q.at = "rebuilding", q.fetched \in Versions, Sound(q), lock = None, lock' = j,
         UNCHANGED <<espn, clock, store, deletion>>, overlapped' \in BOOLEAN
  PROVE  Inv'
<1>1. /\ job' \in [Jobs -> Job] /\ job'[j] = q
      /\ \A k \in Jobs : k # j => job'[k] = job[k]
  BY DEF Inv, TypeOK
<1>2. TypeOK'
  BY <1>1 DEF Inv, TypeOK
<1>3. StoreInv' /\ DeleteInv'
  BY DEF Inv, StoreInv, DeleteInv
<1>4. ASSUME NEW k \in Jobs, k # j
      PROVE  /\ job'[k].at # "rebuilding" /\ lock' # k /\ job'[k].before = None
             /\ job'[k].at = "idle" => job'[k].loaded = None
             /\ job'[k].at \in {"fetched", "read", "rebuilding"} => job'[k].fetched \in Versions
             /\ job'[k].at = "read" => job'[k].now \in Times
  BY <1>1, <1>4 DEF Inv, JobInv
<1>5. Sound(job[j])'
  BY <1>1 DEF Sound
<1>6. JobInv'
  BY <1>1, <1>4, <1>5 DEF JobInv
<1>7. QED
  BY <1>2, <1>3, <1>6 DEF Inv

LEMMA InsertStep ==
  ASSUME Inv, NEW j \in Jobs, NEW i \in RowIds, FlushInsert(j, i), overlapped' \in BOOLEAN
  PROVE  Inv'
<1> DEFINE row == [id |-> i, header |-> job[j].fetched, syncedAt |-> job[j].now,
                   digest |-> None, schedule |-> None, weekly |-> None, live |-> None]
           s == [store EXCEPT !.row = row]
           work == Rebuilt(s, i, job[j].fetched, job[j].now)
           q == [job[j] EXCEPT !.at = "rebuilding", !.mine = row, !.work = work]
<1>1. /\ job[j] \in Job /\ job[j].at = "read" /\ job[j].fetched \in Versions
      /\ job[j].now \in Times /\ job[j].before = None /\ store \in Store
  BY DEF FlushInsert, Inv, TypeOK, JobInv
<1>2. row \in Row /\ row.id = i /\ row.digest = None /\ row.weekly = None /\ row.live = None
  BY <1>1 DEF Row
<1>3. job' = [job EXCEPT ![j] = q]
  BY DEF FlushInsert
<1> HIDE DEF row
<1>4. s \in Store /\ s.row = row
  BY <1>1, <1>2 DEF Store
<1> HIDE DEF s
<1>5. /\ work \in Store /\ work.row = row /\ work.pool[i] # None
      /\ work.pool[i].teams \in work.history[i]
  BY <1>1, <1>4, RebuiltStore
<1> HIDE DEF work
<1>6. /\ q \in Job /\ q.at = "rebuilding" /\ q.mine = row /\ q.work = work
      /\ q.now = job[j].now /\ q.before = None /\ q.fetched \in Versions
  BY <1>1, <1>2, <1>5 DEF Job
<1> HIDE DEF q
<1>7. store.row = None /\ lock = None /\ lock' = j /\ UNCHANGED <<espn, clock, store, deletion>>
  BY DEF FlushInsert
<1>8. Sound(q)
  BY <1>1, <1>2, <1>5, <1>6, <1>7 DEF Sound
<1>9. QED
  BY <1>3, <1>6, <1>7, <1>8, FlushStep

LEMMA UpdateStep ==
  ASSUME Inv, NEW j \in Jobs, FlushUpdate(j), overlapped' \in BOOLEAN
  PROVE  Inv'
<1> DEFINE i == store.row.id
           row == Updated(j)
           s == [store EXCEPT !.row = row]
           work == Rebuilt(s, i, job[j].fetched, job[j].now)
           q == [job[j] EXCEPT !.at = "rebuilding", !.before = store.pool[i], !.work = work]
<1>1. /\ job[j] \in Job /\ job[j].at = "read" /\ job[j].fetched \in Versions
      /\ job[j].now \in Times /\ job[j].mine \in Row /\ job[j].mine.id = i
      /\ store \in Store /\ store.row \in Row /\ i \in RowIds
  BY DEF FlushUpdate, Inv, TypeOK, JobInv, Job, Store, Row
<1>2. /\ row \in Row /\ row.id = i
      /\ row.weekly = store.row.weekly /\ row.live = store.row.live
  BY <1>1 DEF Updated, Written, Row
<1>3. job' = [job EXCEPT ![j] = q]
  BY DEF FlushUpdate, Snapshot
<1>4. store.pool[i] \in Pool
  BY <1>1 DEF Inv, StoreInv
<1> HIDE DEF row
<1>5. s \in Store /\ s.row = row /\ s.history = store.history
  BY <1>1, <1>2 DEF Store
<1> HIDE DEF s
<1>6. /\ work \in Store /\ work.row = row /\ work.pool[i] # None
      /\ work.pool[i].teams \in work.history[i] /\ store.history[i] \subseteq work.history[i]
  BY <1>1, <1>5, RebuiltStore
<1> HIDE DEF work
<1>7. /\ q \in Job /\ q.at = "rebuilding" /\ q.mine = job[j].mine /\ q.work = work
      /\ q.now = job[j].now /\ q.before = store.pool[i] /\ q.fetched \in Versions
  BY <1>1, <1>4, <1>6 DEF Job
<1> HIDE DEF q
<1>8. store.row # None /\ lock = None /\ lock' = j /\ UNCHANGED <<espn, clock, store, deletion>>
  BY DEF FlushUpdate
<1>9. Sound(q)
  BY <1>1, <1>2, <1>6, <1>7, <1>8 DEF Sound
<1>10. QED
  BY <1>3, <1>7, <1>8, <1>9, FlushStep
-----------------------------------------------------------------------------
\* What a publication puts in the place of what there was.
LEMMA PublishFacts ==
  ASSUME Inv, NEW j \in Jobs, NEW answers \in SUBSET Sources, Publish(j, answers)
  PROVE  LET q == job[j]
             i == q.mine.id
         IN  /\ lock = j /\ Sound(q) /\ q \in Job /\ i \in RowIds
             /\ store' \in Store /\ store'.row \in Row /\ store'.row.id = i
             /\ store'.row.header = q.work.row.header /\ store'.row.syncedAt = q.work.row.syncedAt
             /\ store'.pool[i] \in Pool /\ store'.pool[i].agents = espn
             /\ store'.pool[i].teams = q.work.pool[i].teams /\ store'.pool[i].by = q.work.pool[i].by
             /\ store'.history[i] = q.work.history[i] \union {espn}
             /\ store'.row.digest = NewDigest(j, store'.pool[i])
             /\ store'.row.schedule = Enriched(j, answers).schedule
             /\ store'.row.weekly = Enriched(j, answers).weekly
             /\ store'.row.live = Enriched(j, answers).live
             /\ q.before # None => store.row # None /\ store.pool[i] = q.before /\ q.before \in Pool
<1> DEFINE q == job[j]
           i == q.mine.id
           pool == [q.work.pool[i] EXCEPT !.agents = espn]
           digest == NewDigest(j, pool)
           columns == Enriched(j, answers)
<1>1. q \in Job /\ lock = j /\ Sound(q) /\ espn \in Versions
  BY DEF Publish, Inv, TypeOK, JobInv
<1>2. /\ i \in RowIds /\ q.mine \in Row /\ q.work \in Store /\ q.work.row \in Row
      /\ q.work.row.id = i /\ q.now \in Times
  BY <1>1 DEF Sound, Row
<1>3. q.work.pool[i] \in Partial
  BY <1>1, <1>2 DEF Sound, Store
<1>4. /\ pool \in Pool /\ pool.teams = q.work.pool[i].teams /\ pool.agents = espn
      /\ pool.by = q.work.pool[i].by
  BY <1>1, <1>3 DEF Partial, Pool
<1>5. q.before # None => store.row # None /\ store.pool[i] = q.before /\ q.before \in Pool
  BY <1>1 DEF Sound, Inv, StoreInv
<1> HIDE DEF pool
<1>6. digest \in Maybe(Digest)
  BY <1>2, <1>4, <1>5 DEF NewDigest, Digest, Row
<1>7. /\ columns \in Row /\ columns.id = i /\ columns.header = q.work.row.header
      /\ columns.syncedAt = q.work.row.syncedAt
  <2>1. q.fetched \in Versions
    BY DEF Publish, Inv, JobInv
  <2> DEFINE fetched == IF "schedule" \in answers THEN q.fetched ELSE None
             schedule == Written(fetched, q.mine.schedule, q.work.row.schedule)
             weekly == IF "weekly" \in answers THEN Written(q.fetched, q.mine.weekly, q.work.row.weekly)
                       ELSE q.work.row.weekly
             live == IF "live" \in answers THEN Written(espn, q.mine.live, q.work.row.live)
                     ELSE q.work.row.live
  <2>2. schedule \in Maybe(Versions) /\ weekly \in Maybe(Versions) /\ live \in Maybe(Versions)
    BY <1>1, <1>2, <2>1 DEF Written, Row
  <2>3. columns = [q.work.row EXCEPT !.schedule = schedule, !.weekly = weekly, !.live = live]
    BY DEF Enriched
  <2> HIDE DEF columns, schedule, weekly, live
  <2>4. QED
    BY <1>2, <2>2, <2>3 DEF Row
<1> DEFINE pools == [q.work.pool EXCEPT ![i] = pool]
           histories == [q.work.history EXCEPT ![i] = q.work.history[i] \union {espn}]
           row == [columns EXCEPT !.digest = digest]
<1>8. store' = [q.work EXCEPT !.pool = pools, !.history = histories, !.row = row]
  BY <1>2 DEF Publish, pool, Store
<1> HIDE DEF digest, columns
<1>9. pools \in [RowIds -> Maybe(Partial)] /\ pools[i] = pool
  BY <1>2, <1>4 DEF Store, Pool, Partial
<1>10. histories \in [RowIds -> SUBSET Versions] /\ histories[i] = q.work.history[i] \union {espn}
  BY <1>1, <1>2 DEF Store
<1>11. /\ row \in Row /\ row.id = i /\ row.header = q.work.row.header
       /\ row.syncedAt = q.work.row.syncedAt /\ row.digest = digest
       /\ row.schedule = columns.schedule /\ row.weekly = columns.weekly /\ row.live = columns.live
  BY <1>2, <1>6, <1>7 DEF Row
<1> HIDE DEF pools, histories, row
<1>12. store' = [row |-> row, pool |-> pools, history |-> histories]
  BY <1>2, <1>8 DEF Store
<1>13. store' \in Store /\ store'.row = row /\ store'.pool = pools /\ store'.history = histories
  BY <1>9, <1>10, <1>11, <1>12 DEF Store
<1>14. QED
  BY <1>1, <1>2, <1>4, <1>5, <1>9, <1>10, <1>11, <1>13 DEF digest, columns

LEMMA PublishStep ==
  ASSUME Inv, NEW j \in Jobs, NEW answers \in SUBSET Sources, Publish(j, answers), overlapped' \in BOOLEAN
  PROVE  Inv'
<1>1. /\ job' = [job EXCEPT ![j] = Idle] /\ lock' = None /\ lock = j
      /\ UNCHANGED <<espn, clock, deletion>>
  BY PublishFacts DEF Publish
<1>2. /\ job' \in [Jobs -> Job] /\ job'[j] = Idle
      /\ \A k \in Jobs : k # j => job'[k] = job[k]
  BY <1>1, IdleType DEF Inv, TypeOK
<1>3. TypeOK'
  BY <1>1, <1>2, PublishFacts DEF Inv, TypeOK
<1>4. StoreInv'
  BY PublishFacts DEF StoreInv, Sound
<1>5. DeleteInv'
  BY <1>1, PublishFacts DEF Inv, DeleteInv, Sound
<1>6. ASSUME NEW k \in Jobs, k # j
      PROVE  /\ job'[k].at # "rebuilding" /\ lock' # k /\ job'[k].before = None
             /\ job'[k].at = "idle" => job'[k].loaded = None
             /\ job'[k].at \in {"fetched", "read", "rebuilding"} => job'[k].fetched \in Versions
             /\ job'[k].at = "read" => job'[k].now \in Times
  BY <1>1, <1>2, <1>6 DEF Inv, JobInv
<1>7. JobInv'
  BY <1>1, <1>2, <1>6, IdleType DEF JobInv, Idle
<1>8. QED
  BY <1>3, <1>4, <1>5, <1>7 DEF Inv

\* The deletion takes the row it loaded along: no other has come in its place.
LEMMA DeleteFacts ==
  ASSUME Inv, CommitDelete
  PROVE  /\ store' \in Store /\ store'.row = None /\ lock = None
<1>1. PICK rest \in {None, store.pool[deletion.id]} :
        store' = [store EXCEPT
             !.row = IF @ # None /\ @.id = deletion.id THEN None ELSE @,
             !.pool[deletion.id] = rest,
             !.history[deletion.id] = @ \ deletion.history]
  BY DEF CommitDelete
<1>2. store \in Store /\ deletion.id \in RowIds /\ store.row # None /\ store.row.id = deletion.id
  BY DEF CommitDelete, Inv, TypeOK, DeleteInv
<1> DEFINE pools == [store.pool EXCEPT ![deletion.id] = rest]
           histories == [store.history EXCEPT ![deletion.id] = store.history[deletion.id] \ deletion.history]
<1>3. pools \in [RowIds -> Maybe(Partial)] /\ histories \in [RowIds -> SUBSET Versions]
  BY <1>2 DEF Store
<1>4. store' = [store EXCEPT !.row = None, !.pool = pools, !.history = histories]
  BY <1>1, <1>2 DEF Store
<1> HIDE DEF pools, histories
<1>5. store' = [row |-> None, pool |-> pools, history |-> histories]
  BY <1>2, <1>4 DEF Store
<1>6. QED
  BY <1>3, <1>5 DEF Store, CommitDelete

LEMMA DeletionStep ==
  ASSUME Inv, LoadForDelete \/ CommitDelete \/ FailDelete, overlapped' \in BOOLEAN
  PROVE  Inv'
<1>1. CASE LoadForDelete
  <2>1. /\ store.row # None /\ UNCHANGED <<espn, clock, store, lock, job>>
        /\ deletion' = [id |-> store.row.id, pool |-> store.pool[store.row.id],
                        history |-> store.history[store.row.id]]
    BY <1>1 DEF LoadForDelete
  <2>2. store.row.id \in RowIds /\ store.pool[store.row.id] \in Pool /\ store.history[store.row.id] \in SUBSET Versions
    BY <2>1 DEF Inv, TypeOK, StoreInv, Store, Row
  <2>3. TypeOK' /\ DeleteInv'
    BY <2>1, <2>2 DEF Inv, TypeOK, DeleteInv
  <2>4. StoreInv' /\ JobInv'
    BY <2>1 DEF Inv, StoreInv, JobInv, Sound
  <2>5. QED
    BY <2>3, <2>4 DEF Inv
<1>2. CASE CommitDelete
  <2>1. deletion' = None /\ UNCHANGED <<espn, clock, lock, job>>
    BY <1>2 DEF CommitDelete
  <2>2. store' \in Store /\ store'.row = None /\ lock = None
    BY <1>2, DeleteFacts
  <2>3. TypeOK' /\ DeleteInv' /\ StoreInv'
    BY <2>1, <2>2 DEF Inv, TypeOK, DeleteInv, StoreInv
  <2>4. JobInv'
    BY <2>1, <2>2 DEF Inv, JobInv
  <2>5. QED
    BY <2>3, <2>4 DEF Inv
<1>3. CASE FailDelete
  BY <1>3 DEF FailDelete, Inv, TypeOK, StoreInv, DeleteInv, JobInv, Sound
<1>4. QED
  BY <1>1, <1>2, <1>3

LEMMA NextInv == Inv /\ [Next]_vars => Inv'
<1> SUFFICES ASSUME Inv, [Next]_vars PROVE Inv'
  OBVIOUS
<1>1. CASE UNCHANGED vars
  BY <1>1 DEF vars, Inv, TypeOK, StoreInv, DeleteInv, JobInv, Sound
<1>2. CASE Next
  <2>1. overlapped' \in BOOLEAN
    BY <1>2 DEF Next, Remember, Inv, TypeOK
  <2>2. CASE EspnChanges
    <3>1. espn' \in Versions /\ UNCHANGED <<clock, store, lock, job, deletion>>
      BY <2>2 DEF EspnChanges, Inv, TypeOK, Versions
    <3>2. QED
      BY <2>1, <3>1 DEF Inv, TypeOK, StoreInv, DeleteInv, JobInv, Sound
  <2>3. QED
    BY <1>2, <2>1, <2>2, LoadStep, FetchStep, ReadStep, InsertStep, UpdateStep, PublishStep, FailStep, DeletionStep
    DEF Next, Step, Progress
<1>3. QED
  BY <1>1, <1>2

LEMMA Invariant == Spec => []Inv
<1>1. QED
  BY InitInv, NextInv, PTL DEF Spec

\* Only a publication leaves another row than there was.
LEMMA StoreSteps ==
  ASSUME Inv, [Next]_vars
  PROVE  \/ store' = store
         \/ store'.row = None
         \/ \E j \in Jobs, answers \in SUBSET Sources : Publish(j, answers)
BY DeleteFacts DEF Next, Step, Progress, vars, EspnChanges, Load, Fetch, ReadRow, FlushInsert, FlushUpdate, Fail,
                   LoadForDelete, FailDelete

\* The rows, the calls and the deletion stay within their types.
THEOREM TypeCorrect == Spec => []TypeOK
<1>1. Inv => TypeOK
  BY DEF Inv
<1>2. QED
  BY <1>1, Invariant, PTL

LEMMA StepAccumulates ==
  Inv /\ [Next]_vars
    => (store.row # None /\ store'.row # None /\ store'.row.id = store.row.id =>
          /\ store.history[store.row.id] \subseteq store'.history[store.row.id]
          /\ {CurrentPool.teams, CurrentPool.agents} \subseteq store.history[store.row.id])
<1> SUFFICES ASSUME Inv, [Next]_vars, store.row # None, store'.row # None, store'.row.id = store.row.id
             PROVE  /\ store.history[store.row.id] \subseteq store'.history[store.row.id]
                    /\ {CurrentPool.teams, CurrentPool.agents} \subseteq store.history[store.row.id]
  OBVIOUS
<1>1. {CurrentPool.teams, CurrentPool.agents} \subseteq store.history[store.row.id]
  BY DEF Inv, StoreInv, CurrentPool
<1>2. ASSUME NEW j \in Jobs, NEW answers \in SUBSET Sources, Publish(j, answers)
      PROVE  store.history[store.row.id] \subseteq store'.history[store.row.id]
  BY <1>2, PublishFacts DEF Sound
<1>3. QED
  BY <1>1, <1>2, StoreSteps

\* README, "Notes": stat snapshots accumulate, whatever synchronisations overlap,
\* fail or are killed, and a pool that is served has been recorded.
THEOREM HistoryKept == Spec => HistoryAccumulates
<1> DEFINE Kept ==
      store.row # None /\ store'.row # None /\ store'.row.id = store.row.id =>
        /\ store.history[store.row.id] \subseteq store'.history[store.row.id]
        /\ {CurrentPool.teams, CurrentPool.agents} \subseteq store.history[store.row.id]
<1>1. Inv /\ [Next]_vars => Kept
  BY StepAccumulates
<1> HIDE DEF Kept
<1>2. Spec => [][Kept]_vars
  BY <1>1, Invariant, PTL DEF Spec
<1>3. QED
  BY <1>2 DEF Kept, HistoryAccumulates

LEMMA StepDescribes ==
  Inv /\ [Next]_vars
    => (store'.row # None /\ store'.row.digest # None /\ store' # store =>
          /\ store'.row.digest.to = store'.pool[store'.row.id]
          /\ store.row # None => store'.row.digest.from = CurrentPool)
<1> SUFFICES ASSUME Inv, [Next]_vars, store'.row # None, store'.row.digest # None, store' # store
             PROVE  /\ store'.row.digest.to = store'.pool[store'.row.id]
                    /\ store.row # None => store'.row.digest.from = CurrentPool
  OBVIOUS
<1>1. PICK j \in Jobs, answers \in SUBSET Sources : Publish(j, answers)
  BY StoreSteps
<1>2. job[j].before # None
  <2>1. CASE store.row = None
    <3>1. job[j].work.row.digest = None /\ job[j].before = None
      BY <1>1, <2>1, PublishFacts DEF Sound
    <3>2. store'.row.digest = None
      BY <1>1, <3>1, PublishFacts DEF NewDigest
    <3>3. QED
      BY <3>2
  <2>2. CASE store.row # None
    BY <1>1, <2>2, PublishFacts DEF Sound, Inv, StoreInv, Pool, Partial
  <2>3. QED
    BY <2>1, <2>2
<1>3. store'.row.id = job[j].mine.id /\ store.row # None /\ store.row.id = job[j].mine.id
      /\ store.pool[store.row.id] = job[j].before
  BY <1>1, <1>2, PublishFacts DEF Sound
<1>4. store'.row.digest = NewDigest(j, store'.pool[store'.row.id])
  BY <1>1, <1>3, PublishFacts
<1>5. QED
  BY <1>2, <1>3, <1>4 DEF NewDigest, CurrentPool

\* sync_diff.py: the digest is captured in the transaction that replaces the
\* pool, so it compares the pool served before with the pool served from now on.
THEOREM DigestDescribes == Spec => DigestDescribesPool
<1> DEFINE Described ==
      store'.row # None /\ store'.row.digest # None /\ store' # store =>
        /\ store'.row.digest.to = store'.pool[store'.row.id]
        /\ store.row # None => store'.row.digest.from = CurrentPool
<1>1. Inv /\ [Next]_vars => Described
  BY StepDescribes
<1> HIDE DEF Described
<1>2. Spec => [][Described]_vars
  BY <1>1, Invariant, PTL DEF Spec
<1>3. QED
  BY <1>2 DEF Described, DigestDescribesPool

\* ESPN and the clock go on.
LEMMA TimeSteps ==
  ASSUME Inv, [Next]_vars
  PROVE  /\ espn \in Int /\ espn' \in Int /\ espn <= espn'
         /\ clock \in Int /\ clock' \in Int /\ clock <= clock'
<1>1. espn \in Int /\ clock \in Int
  BY DEF Inv, TypeOK, Versions
<1>2. /\ espn' = espn \/ espn' = espn + 1
      /\ clock' = clock \/ clock' = clock + 1
  BY DEF Next, Step, Progress, vars, EspnChanges, Load, Fetch, ReadRow, FlushInsert, FlushUpdate, Publish, Fail,
         LoadForDelete, CommitDelete, FailDelete
<1>3. QED
  BY <1>1, <1>2

\* What is stored is not newer than its source.
LiveInv == store.row # None /\ store.row.live # None => store.row.live <= espn

\* The last answer of a live enrichment, or what was stored already.
LEMMA LiveFacts ==
  ASSUME Inv, NEW j \in Jobs, NEW answers \in SUBSET Sources, Publish(j, answers)
  PROVE  /\ store'.row \in Row /\ espn' = espn
         /\ store.row = None => store'.row.live \in {None, espn}
         /\ store.row # None =>
              /\ store'.row.live \in {store.row.live, espn}
              /\ store'.row.weekly \in {store.row.weekly, job[j].fetched}
<1> DEFINE q == job[j]
<1>1. /\ Sound(q) /\ espn' = espn /\ store'.row \in Row /\ q.work.row \in Row
      /\ store'.row.weekly = Enriched(j, answers).weekly /\ store'.row.live = Enriched(j, answers).live
  BY PublishFacts DEF Publish, Sound
<1>2. Enriched(j, answers).live \in {q.work.row.live, espn} /\ Enriched(j, answers).weekly \in {q.work.row.weekly, q.fetched}
  BY <1>1 DEF Enriched, Written, Row
<1>3. QED
  BY <1>1, <1>2 DEF Sound

LEMMA LiveNext == Inv /\ LiveInv /\ [Next]_vars => LiveInv'
<1> SUFFICES ASSUME Inv, LiveInv, [Next]_vars PROVE LiveInv'
  OBVIOUS
<1>1. espn \in Int /\ espn' \in Int /\ espn <= espn'
  BY TimeSteps
<1>2. store.row # None => store.row \in Row
  BY DEF Inv, TypeOK, Store
<1>3. ASSUME NEW j \in Jobs, NEW answers \in SUBSET Sources, Publish(j, answers) PROVE LiveInv'
  BY <1>1, <1>3, LiveFacts DEF LiveInv
<1>4. CASE store' = store
  BY <1>1, <1>2, <1>4 DEF LiveInv, Row, Versions
<1>5. CASE store'.row = None
  BY <1>5 DEF LiveInv
<1>6. QED
  BY <1>3, <1>4, <1>5, StoreSteps

LEMMA StepRegressesNot ==
  Inv /\ LiveInv /\ [Next]_vars
    => (store.row # None /\ store'.row # None /\ store'.row.id = store.row.id =>
          /\ store.row.weekly # None => store'.row.weekly # None
          /\ store.row.live # None => store'.row.live # None /\ store'.row.live >= store.row.live)
<1> SUFFICES ASSUME Inv, LiveInv, [Next]_vars, store.row # None, store'.row # None
             PROVE  /\ store.row.weekly # None => store'.row.weekly # None
                    /\ store.row.live # None => store'.row.live # None /\ store'.row.live >= store.row.live
  OBVIOUS
<1>1. store.row \in Row /\ espn \in Versions
  BY DEF Inv, TypeOK, Store
<1>2. ASSUME NEW j \in Jobs, NEW answers \in SUBSET Sources, Publish(j, answers)
      PROVE  /\ store.row.weekly # None => store'.row.weekly # None
             /\ store.row.live # None => store'.row.live # None /\ store'.row.live >= store.row.live
  <2>1. job[j].fetched \in Versions
    BY <1>2 DEF Publish, Inv, JobInv
  <2>2. QED
    BY <1>1, <1>2, <2>1, LiveFacts DEF LiveInv, Row, Versions
<1>3. CASE store' = store
  BY <1>1, <1>3 DEF Row, Versions
<1>4. QED
  BY <1>2, <1>3, StoreSteps

\* sync_service.py: an empty result leaves last sync's enrichments alone, and
\* those not asked for by week, fetched under the write lock, never go back.
THEOREM EnrichmentsGoForward == Spec => EnrichmentsNeverRegress
<1> DEFINE Kept ==
      store.row # None /\ store'.row # None /\ store'.row.id = store.row.id =>
        /\ store.row.weekly # None => store'.row.weekly # None
        /\ store.row.live # None => store'.row.live # None /\ store'.row.live >= store.row.live
<1>1. Inv /\ LiveInv /\ [Next]_vars => Kept
  BY StepRegressesNot
<1>2. Init => LiveInv
  BY DEF Init, LiveInv
<1>3. Inv /\ LiveInv /\ [Next]_vars => LiveInv'
  BY LiveNext
<1> HIDE DEF Kept
<1>4. Spec => [][Kept]_vars
  BY <1>1, <1>2, <1>3, Invariant, PTL DEF Spec
<1>5. QED
  BY <1>4 DEF Kept, EnrichmentsNeverRegress
-----------------------------------------------------------------------------
\* Until two synchronisations overlap, every step of LeagueSync is a step of
\* PublishedLeague or leaves what is published alone.

\* What the one call in progress has is newer than what is stored.
Latest(q) ==
  LET i == q.mine.id
  IN  /\ q.at \in {"fetched", "read", "rebuilding"} =>
           /\ q.fetched \in Versions /\ q.fetched <= espn
           /\ store.row # None => store.row.header <= q.fetched
      /\ q.at \in {"read", "rebuilding"} =>
           /\ q.now <= clock
           /\ store.row # None => store.row.syncedAt < q.now
      /\ q.at \in {"loaded", "fetched"} /\ q.loaded # None /\ store.row # None => q.loaded = store.row
      /\ q.at = "read" /\ q.mine # None /\ store.row # None => q.mine = store.row
      /\ q.at = "rebuilding" =>
           /\ q.work.row.header = q.fetched /\ q.work.row.syncedAt = q.now
           /\ q.work.pool[i].teams = q.fetched /\ q.work.pool[i].by = q.now
           /\ q.mine.weekly = q.work.row.weekly /\ q.mine.live = q.work.row.live
           /\ q.mine.schedule = q.work.row.schedule
           /\ store.row # None => q.mine.syncedAt = store.row.syncedAt

StoredInv ==
  store.row # None =>
    /\ store.row.header <= espn /\ store.row.syncedAt <= clock
    /\ store.pool[store.row.id].by = store.row.syncedAt
    /\ store.pool[store.row.id].teams = store.row.header

AtomicInv ==
  ~overlapped =>
    /\ \A j, k \in Jobs : j # k => job[j].at = "idle" \/ job[k].at = "idle"
    /\ \A j \in Jobs : Latest(job[j])
    /\ StoredInv
-----------------------------------------------------------------------------
LEMMA AtomicInit == Init => AtomicInv
BY DEF Init, Idle, AtomicInv, Latest, StoredInv

\* Two different calls in progress overlap.
LEMMA OneCall ==
  ASSUME Remember, ~overlapped', NEW j \in Jobs, NEW k \in Jobs, j # k
  PROVE  ~overlapped /\ (job'[j].at = "idle" \/ job'[k].at = "idle")
<1> DEFINE Active == {l \in Jobs : job'[l].at # "idle"}
<1>1. ~overlapped /\ ~(Cardinality(Active) > 1)
  BY DEF Remember
<1>2. SUFFICES ASSUME j \in Active, k \in Active PROVE FALSE
  BY <1>1
<1>3. IsFiniteSet(Active) /\ {j, k} \subseteq Active
  BY <1>2, FS_Subset
<1> HIDE DEF Active
<1>4. Cardinality({j, k}) = 2
  <2>1. IsFiniteSet({j}) /\ Cardinality({j}) = 1 /\ k \notin {j}
    BY FS_Singleton
  <2>2. Cardinality({j} \union {k}) = Cardinality({j}) + 1
    BY <2>1, FS_AddElement
  <2>3. {j} \union {k} = {j, k}
    OBVIOUS
  <2>4. QED
    BY <2>1, <2>2, <2>3
<1>5. Cardinality({j, k}) <= Cardinality(Active) /\ Cardinality(Active) \in Nat
  BY <1>3, FS_Subset, FS_CardinalityType
<1>6. QED
  BY <1>1, <1>4, <1>5

\* One call is in progress, and it is the one that acts.
LEMMA OnlyActor ==
  ASSUME Inv, AtomicInv, Next, ~overlapped', NEW k \in Jobs, job'[k].at # "idle"
  PROVE  \/ job' = job
         \/ Load(k) \/ Fetch(k)
         \/ ReadRow(k) \/ (\E i \in RowIds : FlushInsert(k, i)) \/ FlushUpdate(k)
<1>1. ~overlapped
  BY DEF Next, Remember
<1>2. ASSUME NEW j \in Jobs, job[j].at # "idle", job' = [job EXCEPT ![j] = Idle] PROVE FALSE
  <2>1. j # k /\ job'[k] = job[k]
    BY <1>2 DEF Idle, Inv, TypeOK
  <2>2. QED
    BY <1>1, <1>2, <2>1 DEF AtomicInv
<1>3. ASSUME NEW j \in Jobs, (\E answers \in SUBSET Sources : Publish(j, answers)) \/ Fail(j) PROVE FALSE
  BY <1>2, <1>3 DEF Publish, Fail
<1>4. ASSUME NEW j \in Jobs, j # k, Load(j) \/ Fetch(j) PROVE FALSE
  <2>1. job'[j].at \in {"loaded", "fetched"}
    <3>1. job \in [Jobs -> Job] /\ job[j] \in Job
      BY DEF Inv, TypeOK
    <3>2. CASE Load(j)
      BY <3>1, <3>2 DEF Load, Idle
    <3>3. CASE Fetch(j)
      BY <3>1, <3>3 DEF Fetch, Job
    <3>4. QED
      BY <1>4, <3>2, <3>3
  <2>2. QED
    BY <1>4, <2>1, OneCall DEF Next
<1>5. ASSUME NEW j \in Jobs, j # k, ReadRow(j) \/ FlushUpdate(j) \/ \E i \in RowIds : FlushInsert(j, i) PROVE FALSE
  <2>1. job'[j].at \in {"read", "rebuilding"}
    <3>1. job \in [Jobs -> Job] /\ job[j] \in Job
      BY DEF Inv, TypeOK
    <3>2. CASE ReadRow(j)
      BY <3>1, <3>2 DEF ReadRow, Job
    <3>3. CASE FlushUpdate(j)
      BY <3>1, <3>3 DEF FlushUpdate, Job
    <3>4. ASSUME NEW i \in RowIds, FlushInsert(j, i) PROVE job'[j].at = "rebuilding"
      BY <3>1, <3>4 DEF FlushInsert, Job
    <3>5. QED
      BY <1>5, <3>2, <3>3, <3>4
  <2>2. QED
    BY <1>5, <2>1, OneCall DEF Next
<1>6. CASE EspnChanges \/ LoadForDelete \/ CommitDelete \/ FailDelete
  BY <1>6 DEF EspnChanges, LoadForDelete, CommitDelete, FailDelete
<1>7. QED
  BY <1>3, <1>4, <1>5, <1>6 DEF Next, Step, Progress

\* What is stored has columns of the types it should.
LEMMA StoredTypes ==
  ASSUME Inv, store.row # None
  PROVE  store.row \in Row /\ store.row.header \in Int /\ store.row.syncedAt \in Int
BY DEF Inv, TypeOK, Store, Row, Versions, Times

LEMMA StoredNext ==
  ASSUME Inv, AtomicInv, [Next]_vars, ~overlapped
  PROVE  StoredInv'
<1>1. CASE store' = store
  <2>1. SUFFICES ASSUME store.row # None PROVE store.row.header <= espn' /\ store.row.syncedAt <= clock'
    BY <1>1 DEF AtomicInv, StoredInv
  <2>2. QED
    BY <2>1, StoredTypes, TimeSteps DEF AtomicInv, StoredInv
<1>2. CASE store'.row = None
  BY <1>2 DEF StoredInv
<1>3. ASSUME NEW j \in Jobs, NEW answers \in SUBSET Sources, Publish(j, answers) PROVE StoredInv'
  <2>1. Latest(job[j]) /\ job[j].at = "rebuilding"
    BY <1>3 DEF AtomicInv, Publish
  <2>2. espn' = espn /\ clock' = clock
    BY <1>3 DEF Publish
  <2>3. /\ job[j].fetched <= espn /\ job[j].now <= clock
        /\ job[j].work.row.header = job[j].fetched /\ job[j].work.row.syncedAt = job[j].now
        /\ job[j].work.pool[job[j].mine.id].teams = job[j].fetched
        /\ job[j].work.pool[job[j].mine.id].by = job[j].now
    BY <2>1 DEF Latest
  <2>4. QED
    BY <1>3, <2>2, <2>3, PublishFacts DEF StoredInv
<1>4. QED
  BY <1>1, <1>2, <1>3, StoreSteps

\* Who does not act stays as new as before.
LEMMA LatestStays ==
  ASSUME Inv, AtomicInv, [Next]_vars, ~overlapped, NEW k \in Jobs, job'[k] = job[k],
         store' = store \/ store'.row = None
  PROVE  Latest(job[k])'
<1>1. Latest(job[k]) /\ job[k] \in Job
  BY DEF AtomicInv, Inv, TypeOK
<1>2. job[k].at \in {"fetched", "read", "rebuilding"} => job[k].fetched \in Int /\ job[k].fetched <= espn'
  BY <1>1, TimeSteps DEF Latest, Versions
<1>3. job[k].at \in {"read", "rebuilding"} => job[k].now <= clock'
  <2>1. job[k].at \in {"read", "rebuilding"} => job[k].now \in Int
    BY DEF Inv, JobInv, Sound, Times
  <2>2. QED
    BY <1>1, <2>1, TimeSteps DEF Latest
<1>4. QED
  BY <1>1, <1>2, <1>3 DEF Latest

LEMMA LatestLoaded ==
  ASSUME Inv, NEW k \in Jobs, Load(k)
  PROVE  Latest(job[k])'
<1>1. job'[k].at = "loaded" /\ job'[k].loaded = store.row /\ store' = store
  BY DEF Load, Idle, Inv, TypeOK
<1>2. QED
  BY <1>1 DEF Latest

LEMMA LatestFetched ==
  ASSUME Inv, AtomicInv, ~overlapped, NEW k \in Jobs, Fetch(k)
  PROVE  Latest(job[k])'
<1>1. /\ job'[k].at = "fetched" /\ job'[k].fetched = espn /\ espn' = espn /\ store' = store
      /\ job'[k].loaded = job[k].loaded
  <2>1. job \in [Jobs -> Job] /\ job[k] \in Job
    BY DEF Inv, TypeOK
  <2>2. QED
    BY <2>1 DEF Fetch, Job
<1>5. job[k].loaded # None /\ store.row # None => job[k].loaded = store.row
  BY DEF AtomicInv, Latest, Fetch, Inv, JobInv
<1>2. espn \in Versions /\ espn \in Int
  BY DEF Inv, TypeOK, Versions
<1>3. store.row # None => store.row.header <= espn
  BY DEF AtomicInv, StoredInv
<1>4. QED
  BY <1>1, <1>2, <1>3, <1>5 DEF Latest

LEMMA LatestRead ==
  ASSUME Inv, AtomicInv, ~overlapped, NEW k \in Jobs, ReadRow(k)
  PROVE  Latest(job[k])'
<1>1. job[k] \in Job /\ Latest(job[k]) /\ job[k].at = "fetched"
  BY DEF AtomicInv, Inv, TypeOK, ReadRow
<1>2. /\ job'[k] = [job[k] EXCEPT !.at = "read", !.mine = Found(k), !.now = clock + 1]
      /\ clock' = clock + 1 /\ espn' = espn /\ store' = store
  BY DEF ReadRow, Inv, TypeOK
<1>3. job'[k].at = "read" /\ job'[k].mine = Found(k) /\ job'[k].now = clock + 1 /\ job'[k].fetched = job[k].fetched
  BY <1>1, <1>2 DEF Job
<1>4. clock \in Int
  BY DEF Inv, TypeOK
<1>5. store.row # None => store.row.syncedAt \in Int /\ store.row.syncedAt <= clock
  BY StoredTypes DEF AtomicInv, StoredInv
<1>6. store.row # None => Found(k) = store.row
  BY <1>1 DEF Found, Latest
<1>7. QED
  BY <1>1, <1>2, <1>3, <1>4, <1>5, <1>6 DEF Latest

LEMMA LatestInserted ==
  ASSUME Inv, AtomicInv, ~overlapped, NEW k \in Jobs, NEW i \in RowIds, FlushInsert(k, i)
  PROVE  Latest(job[k])'
<1> DEFINE row == [id |-> i, header |-> job[k].fetched, syncedAt |-> job[k].now,
                   digest |-> None, schedule |-> None, weekly |-> None, live |-> None]
           s == [store EXCEPT !.row = row]
           work == Rebuilt(s, i, job[k].fetched, job[k].now)
<1>1. /\ job[k] \in Job /\ Latest(job[k]) /\ job[k].at = "read" /\ job[k].fetched \in Versions
      /\ job[k].now \in Times /\ store \in Store
  BY DEF FlushInsert, AtomicInv, Inv, TypeOK, JobInv
<1>2. /\ row \in Row /\ row.id = i /\ row.header = job[k].fetched /\ row.syncedAt = job[k].now
      /\ job[k].fetched \in Int /\ job[k].now \in Int
  BY <1>1 DEF Row, Versions, Times
<1>3. job'[k] = [job[k] EXCEPT !.at = "rebuilding", !.mine = row, !.work = work]
  BY DEF FlushInsert, Inv, TypeOK
<1> HIDE DEF row
<1>4. s \in Store /\ s.row = row
  BY <1>1, <1>2 DEF Store
<1> HIDE DEF s
<1>5. work.row = row /\ work.pool[i].teams = job[k].fetched /\ work.pool[i].by = job[k].now
  BY <1>1, <1>4, RebuiltStore
<1> HIDE DEF work
<1>6. /\ job'[k].at = "rebuilding" /\ job'[k].mine = row /\ job'[k].work = work
      /\ job'[k].now = job[k].now /\ job'[k].fetched = job[k].fetched
  BY <1>1, <1>3 DEF Job
<1>7. store.row = None /\ store' = store /\ espn' = espn /\ clock' = clock
  BY DEF FlushInsert
<1>8. QED
  BY <1>1, <1>2, <1>5, <1>6, <1>7 DEF Latest

LEMMA LatestUpdated ==
  ASSUME Inv, AtomicInv, ~overlapped, NEW k \in Jobs, FlushUpdate(k)
  PROVE  Latest(job[k])'
<1> DEFINE i == store.row.id
           row == Updated(k)
           s == [store EXCEPT !.row = row]
           work == Rebuilt(s, i, job[k].fetched, job[k].now)
<1>1. /\ job[k] \in Job /\ Latest(job[k]) /\ job[k].at = "read" /\ job[k].fetched \in Versions
      /\ job[k].now \in Times /\ store \in Store /\ store.row \in Row /\ i \in RowIds
      /\ job[k].mine # None /\ store.row # None
  BY DEF FlushUpdate, AtomicInv, Inv, TypeOK, JobInv, Store, Row
<1>2. job[k].mine = store.row
  BY <1>1 DEF Latest
<1>3. /\ row \in Row /\ row.id = i /\ row.header = job[k].fetched /\ row.syncedAt = job[k].now
      /\ row.schedule = store.row.schedule /\ row.weekly = store.row.weekly /\ row.live = store.row.live
  BY <1>1, <1>2 DEF Updated, Written, Row
<1>4. job'[k] = [job[k] EXCEPT !.at = "rebuilding", !.before = Snapshot(k), !.work = work]
  BY DEF FlushUpdate, Inv, TypeOK
<1> HIDE DEF row
<1>5. s \in Store /\ s.row = row
  BY <1>1, <1>3 DEF Store
<1> HIDE DEF s
<1>6. work.row = row /\ work.pool[i].teams = job[k].fetched /\ work.pool[i].by = job[k].now
  BY <1>1, <1>5, RebuiltStore
<1> HIDE DEF work
<1>7. /\ job'[k].at = "rebuilding" /\ job'[k].mine = store.row /\ job'[k].work = work
      /\ job'[k].now = job[k].now /\ job'[k].fetched = job[k].fetched
  BY <1>1, <1>2, <1>4 DEF Job
<1>8. store' = store /\ espn' = espn /\ clock' = clock
  BY DEF FlushUpdate
<1>9. QED
  BY <1>1, <1>3, <1>6, <1>7, <1>8 DEF Latest

LEMMA AtomicNext == Inv /\ AtomicInv /\ [Next]_vars => AtomicInv'
<1> SUFFICES ASSUME Inv, AtomicInv, [Next]_vars, ~overlapped' PROVE AtomicInv'
  BY DEF AtomicInv
<1>1. CASE UNCHANGED vars
  BY <1>1 DEF vars, AtomicInv, Latest, StoredInv
<1>2. CASE Next
  <2>1. ~overlapped
    BY <1>2 DEF Next, Remember
  <2>2. \A j, k \in Jobs : j # k => job'[j].at = "idle" \/ job'[k].at = "idle"
    BY <1>2, OneCall DEF Next
  <2>3. ASSUME NEW k \in Jobs, job'[k].at # "idle" PROVE Latest(job[k])'
    <3>1. CASE job' = job
      <4>1. store' = store \/ store'.row = None
        <5>1. ASSUME NEW j \in Jobs, NEW answers \in SUBSET Sources, Publish(j, answers) PROVE FALSE
          BY <3>1, <5>1, IdleType DEF Publish, Inv, TypeOK
        <5>2. QED
          BY <5>1, StoreSteps
      <4>2. QED
        BY <2>1, <3>1, <4>1, LatestStays
    <3>2. QED
      BY <1>2, <2>1, <2>3, <3>1, OnlyActor, LatestLoaded, LatestFetched, LatestRead, LatestInserted, LatestUpdated
  <2>4. ASSUME NEW k \in Jobs, job'[k].at = "idle" PROVE Latest(job[k])'
    BY <2>4 DEF Latest
  <2>5. StoredInv'
    BY <2>1, StoredNext
  <2>6. QED
    BY <2>2, <2>3, <2>4, <2>5 DEF AtomicInv
<1>3. QED
  BY <1>1, <1>2
-----------------------------------------------------------------------------
\* What readers see, as PublishedLeague has it.
Shown == IF store.row = None THEN None
         ELSE [syncedAt |-> store.row.syncedAt, header |-> store.row.header,
               pool |-> CurrentPool, digest |-> store.row.digest,
               schedule |-> store.row.schedule, weekly |-> store.row.weekly, live |-> store.row.live]

LEMMA ShownType ==
  ASSUME Inv, AtomicInv, store.row # None, ~overlapped
  PROVE  /\ Shown # None /\ Shown.syncedAt = store.row.syncedAt
         /\ Shown.header = store.row.header /\ Shown.pool = CurrentPool
         /\ Shown["weekly"] = store.row.weekly /\ Shown["live"] = store.row.live
<1>1. /\ store.row.syncedAt \in Times /\ store.row.header \in Versions
      /\ store.row.digest \in Maybe(Digest) /\ CurrentPool \in Pool
      /\ store.row.schedule \in Maybe(Versions) /\ store.row.weekly \in Maybe(Versions)
      /\ store.row.live \in Maybe(Versions)
  BY DEF Inv, TypeOK, Store, Row, StoreInv, CurrentPool
<1>2. Shown = [syncedAt |-> store.row.syncedAt, header |-> store.row.header,
               pool |-> CurrentPool, digest |-> store.row.digest,
               schedule |-> store.row.schedule, weekly |-> store.row.weekly, live |-> store.row.live]
  BY DEF Shown
<1>3. Shown \in Served
  BY <1>1, <1>2 DEF Served
<1>4. QED
  BY <1>2, <1>3

\* The steps of PublishedLeague, in terms of what is shown.
LEMMA PublishedStep ==
  ASSUME NEW teams, NEW agents, NEW at, agents >= teams,
         Shown # None => at > Shown.syncedAt /\ teams >= Shown.header,
         NEW schedule \in {None, teams}, NEW weekly \in {Published!Kept("weekly"), teams},
         NEW live \in {Published!Kept("live"), agents},
         Shown' = [syncedAt |-> at, header |-> teams, pool |-> Published!Pool(teams, agents, at),
                   digest |-> IF Shown = None THEN None
                              ELSE Published!Digest(Shown.pool, Published!Pool(teams, agents, at)),
                   schedule |-> schedule, weekly |-> weekly, live |-> live]
  PROVE  Published!Publish(teams, agents, at)
BY DEF Published!Publish, Shown

\* The publication of a lone call is one of PublishedLeague's.
LEMMA PublishImplements ==
  ASSUME Inv, AtomicInv, ~overlapped, NEW j \in Jobs, NEW answers \in SUBSET Sources, Publish(j, answers)
  PROVE  Published!Publish(job[j].fetched, espn, job[j].now)
<1> DEFINE q == job[j]
           i == q.mine.id
           pool == [teams |-> q.fetched, agents |-> espn, by |-> q.now]
           schedule == Enriched(j, answers).schedule
           weekly == Enriched(j, answers).weekly
           live == Enriched(j, answers).live
<1>1. /\ Latest(q) /\ q.at = "rebuilding" /\ Sound(q) /\ store'.row # None
      /\ store'.row.id = i /\ store'.row.header = q.fetched /\ store'.row.syncedAt = q.now
      /\ store'.pool[i] \in Pool /\ store'.pool[i].agents = espn /\ store'.pool[i].teams = q.fetched
      /\ store'.pool[i].by = q.now /\ store'.row.digest = NewDigest(j, store'.pool[i])
      /\ store'.row.schedule = schedule /\ store'.row.weekly = weekly /\ store'.row.live = live
  <2>1. Latest(q) /\ q.at = "rebuilding"
    BY DEF AtomicInv, Publish
  <2>2. QED
    BY <2>1, PublishFacts DEF Latest
<1>2. store'.pool[i] = pool
  BY <1>1 DEF Pool
<1>3. Shown' = [syncedAt |-> q.now, header |-> q.fetched, pool |-> pool, digest |-> NewDigest(j, pool),
                schedule |-> schedule, weekly |-> weekly, live |-> live]
  BY <1>1, <1>2 DEF Shown, CurrentPool
<1>4. espn >= q.fetched
  BY <1>1 DEF Latest, Inv, TypeOK, Versions
<1>7. /\ schedule \in {None, q.fetched}
      /\ weekly \in {Published!Kept("weekly"), q.fetched} /\ live \in {Published!Kept("live"), espn}
  <2>1. /\ schedule \in {None, q.fetched} /\ weekly \in {q.work.row.weekly, q.fetched}
        /\ live \in {q.work.row.live, espn}
    <3>1. q.work.row \in Row
      BY <1>1 DEF Sound
    <3>2. /\ q.mine.schedule = q.work.row.schedule /\ q.mine.weekly = q.work.row.weekly
          /\ q.mine.live = q.work.row.live
      BY <1>1 DEF Latest
    <3>3. QED
      BY <3>1, <3>2 DEF Enriched, Written, Row
  <2>2. CASE store.row = None
    <3>1. Published!Kept("weekly") = None /\ Published!Kept("live") = None
      BY <2>2 DEF Published!Kept
    <3>2. q.work.row.weekly = None /\ q.work.row.live = None
      BY <1>1, <2>2 DEF Latest, Sound
    <3>3. QED
      BY <2>1, <3>1, <3>2
  <2>3. CASE store.row # None
    <3>1. Published!Kept("weekly") = store.row.weekly /\ Published!Kept("live") = store.row.live
      BY <2>3, ShownType DEF Published!Kept, Shown
    <3>2. q.work.row.weekly = store.row.weekly /\ q.work.row.live = store.row.live
      BY <1>1, <2>3 DEF Sound
    <3>3. QED
      BY <2>1, <3>1, <3>2
  <2>4. QED
    BY <2>2, <2>3
<1> HIDE DEF schedule, weekly, live
<1>5. CASE store.row = None
  <2>1. q.before = None /\ q.work.row.digest = None
    BY <1>1, <1>5 DEF Sound
  <2>2. NewDigest(j, pool) = None
    BY <2>1 DEF NewDigest
  <2>3. QED
    BY <1>3, <1>4, <1>5, <1>7, <2>2 DEF Published!Publish, Published!Pool, Shown
<1>6. CASE store.row # None
  <2>1. /\ q.before = CurrentPool /\ q.before # None /\ q.before.by = store.row.syncedAt
        /\ q.mine.syncedAt = store.row.syncedAt
    BY <1>1, <1>6 DEF Sound, Latest, CurrentPool, Inv, StoreInv, AtomicInv, StoredInv, Pool, Partial
  <2>2. NewDigest(j, pool) = [since |-> CurrentPool.by, at |-> pool.by, from |-> CurrentPool, to |-> pool]
    BY <2>1 DEF NewDigest
  <2>3. q.now > store.row.syncedAt /\ q.fetched >= store.row.header
    <3>1. store.row.syncedAt < q.now /\ store.row.header <= q.fetched
      BY <1>1, <1>6 DEF Latest
    <3>2. q.now \in Times /\ q.fetched \in Versions
      BY <1>1 DEF Latest, Sound
    <3>3. QED
      BY <1>6, <3>1, <3>2, StoredTypes DEF Times, Versions
  <2>4. Shown # None /\ q.now > Shown.syncedAt /\ q.fetched >= Shown.header
    BY <1>6, <2>3, ShownType, StoredTypes, <1>1 DEF Latest, Sound, Times, Versions
  <2>5. NewDigest(j, pool) = Published!Digest(Shown.pool, pool)
    BY <1>6, <2>2, ShownType DEF Published!Digest
  <2>6. pool = Published!Pool(q.fetched, espn, q.now)
    BY DEF Published!Pool
  <2> HIDE DEF pool
  <2>7. Shown' = [syncedAt |-> q.now, header |-> q.fetched, pool |-> Published!Pool(q.fetched, espn, q.now),
                  digest |-> IF Shown = None THEN None
                             ELSE Published!Digest(Shown.pool, Published!Pool(q.fetched, espn, q.now)),
                  schedule |-> schedule, weekly |-> weekly, live |-> live]
    BY <1>3, <2>4, <2>5, <2>6
  <2>8. QED
    BY <1>4, <1>7, <2>4, <2>7, PublishedStep
<1>8. QED
  BY <1>5, <1>6

\* Every step is one of PublishedLeague's, or changes nothing of what is shown.
LEMMA StepImplements == Inv /\ AtomicInv /\ [Next]_vars => overlapped' \/ Published!Step
<1> SUFFICES ASSUME Inv, AtomicInv, [Next]_vars, ~overlapped' PROVE Published!Step
  OBVIOUS
<1>1. ~overlapped
  BY DEF Next, Remember, vars
<1>2. CASE store' = store
  <2>1. Shown' = Shown
    BY <1>2 DEF Shown, CurrentPool
  <2>2. QED
    BY <2>1 DEF Published!Step, Shown
<1>3. CASE store'.row = None
  <2>1. Shown' = None
    BY <1>3 DEF Shown
  <2>2. CASE store.row = None
    BY <2>1, <2>2 DEF Published!Step, Shown
  <2>3. CASE store.row # None
    <3>1. Shown # None
      BY <1>1, <2>3, ShownType
    <3>2. Published!Remove
      BY <2>1, <3>1 DEF Published!Remove, Shown
    <3>3. QED
      BY <3>2 DEF Published!Step, Published!Next
  <2>4. QED
    BY <2>2, <2>3
<1>4. ASSUME NEW j \in Jobs, NEW answers \in SUBSET Sources, Publish(j, answers) PROVE Published!Step
  <2>1. Published!Publish(job[j].fetched, espn, job[j].now)
    BY <1>1, <1>4, PublishImplements
  <2>2. job[j].fetched \in Versions /\ espn \in Versions /\ job[j].now \in Times
    BY <1>1, <1>4, PublishFacts DEF AtomicInv, Latest, Publish, Sound, Inv, TypeOK
  <2>3. \E teams, agents \in Versions, at \in Times : Published!Publish(teams, agents, at)
    BY <2>1, <2>2
  <2>4. QED
    BY <2>3 DEF Published!Step, Published!Next
<1>5. QED
  BY <1>2, <1>3, <1>4, StoreSteps

\* Until two of them overlap, synchronisations next to requests, failures and
\* the deletion of the league publish atomically: sync_league commits once.
THEOREM Atomic == Spec => PublishesAtomically
<1> DEFINE Implements == overlapped' \/ Published!Step
<1>1. Inv /\ AtomicInv /\ [Next]_vars => Implements
  BY StepImplements
<1>2. Init => AtomicInv /\ Published!Init
  BY AtomicInit DEF Init, Published!Init
<1>3. Inv /\ AtomicInv /\ [Next]_vars => AtomicInv'
  BY AtomicNext
<1> HIDE DEF Implements
<1>4. Spec => Published!Init /\ [][Implements]_vars
  BY <1>1, <1>2, <1>3, Invariant, PTL DEF Spec
<1>5. QED
  BY <1>4 DEF Implements, PublishesAtomically
=============================================================================
