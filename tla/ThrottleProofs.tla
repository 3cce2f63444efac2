--------------------------- MODULE ThrottleProofs ---------------------------
(***************************************************************************)
(* For any number of threads, keys and entries, any limit, window and clock: *)
(* nobody is refused without cause however requests overlap, and while they *)
(* do not, the limit holds, waiting as told suffices and old keys go.       *)
(***************************************************************************)
EXTENDS Throttle, FiniteSetTheorems, WellFoundedInduction, TLAPS

USE ThrottleAssumption, NoneAssumption DEF Maybe

Active(t) == thread[t].at # "idle"

\* Entries are numbered, and what is in a list was recorded.
RecordInv ==
  \A k \in Keys :
    /\ IsFiniteSet(events[k]) /\ \A e \in events[k] : e.nth <= Cardinality(events[k])
    /\ Listed(k) \subseteq events[k]

\* So was what is in a request's copy of a list.
CopyInv(q) ==
  /\ q.at # "idle" => q.key \in Keys /\ q.now <= clock
  /\ q.at = "store" => q.cursor \in Keys /\ q.seen \subseteq events[q.cursor]
  /\ q.at \in {"own", "refused", "work"} => q.seen \subseteq events[q.key]
  /\ q.at = "own" \/ (q.at \in {"refused", "work"} /\ kind # "register") =>
       Recent(q.seen, q.now) = q.seen
  /\ q.at = "refused" => Cardinality(q.seen) >= Limit
  /\ q.at = "append" /\ ~q.orphan => q.key \in DOMAIN table

BaseInv == TypeOK /\ RecordInv /\ \A t \in Threads : CopyInv(thread[t])
-----------------------------------------------------------------------------
AloneInv == \A s, t \in Threads : Active(s) /\ Active(t) => s = t

\* At a time, the dictionary has all that counts, and that is within the limit.
Counted(now) ==
  \A k \in Keys :
    /\ Recent(Outstanding(k), now) \subseteq Listed(k)
    /\ Young(Outstanding(k), now) <= Limit

\* What a request that is alone has in hand, as far as it has come.
RequestInv(q) ==
  /\ q.at # "idle" => ~q.orphan /\ Counted(q.now)
  /\ q.at = "store" => q.seen = Recent(Listed(q.cursor), q.now)
  /\ q.at \in {"own", "refused", "work"} => q.todo = {} /\ q.seen = Recent(Listed(q.key), q.now)
  /\ q.at \in {"prune", "store", "own", "refused", "work"} =>
       \A k \in DOMAIN table \ q.todo :
         \/ q.at = "store" /\ k = q.cursor
         \/ table[k] # {} /\ Recent(table[k], q.now) = table[k]
  /\ q.at \in {"work", "append"} => Young(Outstanding(q.key), q.now) < Limit

\* A refused client that comes back as told finds room.
PromiseInv ==
  \A k \in Keys : promise[k] # None => Young(Outstanding(k), promise[k]) < Limit

SerialInv ==
  /\ AloneInv
  /\ Counted(clock)
  /\ \A k \in Keys : Listed(k) \subseteq Outstanding(k)
  /\ \A t \in Threads : RequestInv(thread[t])
  /\ PromiseInv

Inv == BaseInv /\ (~raced => SerialInv)
-----------------------------------------------------------------------------
\* Least elements, by the well-foundedness of inclusion among finite sets.
LEMMA LeastSet ==
  ASSUME NEW S, NEW C, C # {}, \A c \in C : c \subseteq S /\ IsFiniteSet(c)
  PROVE  \E c \in C : \A d \in C : d \subseteq c => d = c
<1>1. C \subseteq FiniteSubsetsOf(S)
  BY DEF FiniteSubsetsOf
<1>2. PICK c \in C : \A d \in C : ~ (<<d, c>> \in StrictSubsetOrdering(S))
  BY <1>1, FS_StrictSubsetOrderingWellFounded, WFMin
<1>3. ASSUME NEW d \in C, d \subseteq c PROVE d = c
  BY <1>2, <1>3 DEF StrictSubsetOrdering
<1>4. QED
  BY <1>3

LEMMA LeastNatural ==
  ASSUME NEW T, T \subseteq Nat, T # {}
  PROVE  Min(T) \in T /\ \A y \in T : Min(T) <= y
<1> DEFINE C == {0 .. n : n \in T}
<1>1. C # {} /\ \A c \in C : c \subseteq Nat /\ IsFiniteSet(c)
  <2>1. \A n \in T : 0 .. n \subseteq Nat /\ IsFiniteSet(0 .. n)
    BY FS_Interval
  <2>2. QED
    BY <2>1
<1> HIDE DEF C
<1>2. PICK c \in C : \A d \in C : d \subseteq c => d = c
  BY <1>1, LeastSet
<1>3. PICK x \in T : c = 0 .. x
  BY DEF C
<1>4. ASSUME NEW y \in T, y < x PROVE FALSE
  <2>1. 0 .. y \in C /\ 0 .. y \subseteq c /\ x \in c /\ x \notin 0 .. y
    BY <1>3, <1>4 DEF C
  <2>2. QED
    BY <1>2, <2>1
<1>5. \E m \in T : \A y \in T : m <= y
  BY <1>4
<1>6. QED
  BY <1>5 DEF Min

LEMMA WholeIsEnough ==
  ASSUME NEW x \in Int
  PROVE  Unit * (Whole(x) + 1) \in Int /\ Unit * (Whole(x) + 1) > x
<1>1. \A y \in Nat : /\ y \div Unit \in Int /\ Unit * (y \div Unit) <= y
                     /\ y < Unit * (y \div Unit) + Unit
  OBVIOUS
<1>2. CASE x >= 0
  <2>1. Whole(x) = x \div Unit
    BY <1>2 DEF Whole
  <2>2. QED
    BY <1>1, <1>2, <2>1
<1>3. CASE x < 0
  <2>1. Whole(x) = -((-x) \div Unit) /\ -x \in Nat
    BY <1>3 DEF Whole
  <2>2. QED
    BY <1>1, <1>3, <2>1
<1>4. QED
  BY <1>2, <1>3
-----------------------------------------------------------------------------
\* The dictionary after a key has gone, come or been pruned.
LEMMA WithoutList ==
  ASSUME TypeOK, NEW k \in Keys, table' = Without(k)
  PROVE  /\ DOMAIN table' \subseteq Keys /\ table' \in [DOMAIN table' -> Entries]
         /\ DOMAIN table' = DOMAIN table \ {k}
         /\ \A j \in DOMAIN table' : table'[j] = table[j]
         /\ \A j \in Keys : Listed(j)' = IF j = k THEN {} ELSE Listed(j)
  BY DEF TypeOK, Without, Listed

LEMMA WithList ==
  ASSUME TypeOK, NEW k \in Keys, NEW entries \in Entries, table' = With(k, entries)
  PROVE  /\ DOMAIN table' \subseteq Keys /\ table' \in [DOMAIN table' -> Entries]
         /\ DOMAIN table' = DOMAIN table \union {k}
         /\ \A j \in DOMAIN table' : table'[j] = IF j = k THEN entries ELSE table[j]
         /\ \A j \in Keys : Listed(j)' = IF j = k THEN entries ELSE Listed(j)
  BY DEF TypeOK, With, Listed

LEMMA PrunedList ==
  ASSUME TypeOK, NEW k \in Keys, NEW entries \in Entries, table' = Pruned(k, entries)
  PROVE  /\ DOMAIN table' \subseteq Keys /\ table' \in [DOMAIN table' -> Entries]
         /\ DOMAIN table \ {k} \subseteq DOMAIN table' /\ DOMAIN table' \subseteq DOMAIN table \union {k}
         /\ k \in DOMAIN table' => entries # {} /\ table'[k] = entries
         /\ \A j \in DOMAIN table' : j # k => table'[j] = table[j]
         /\ \A j \in Keys : Listed(j)' = IF j = k THEN entries ELSE Listed(j)
<1>1. CASE entries = {}
  BY <1>1, WithoutList DEF Pruned
<1>2. CASE entries # {}
  BY <1>2, WithList DEF Pruned
<1>3. QED
  BY <1>1, <1>2

LEMMA ListedType ==
  ASSUME TypeOK, NEW k \in Keys
  PROVE  Listed(k) \in Entries
  BY DEF TypeOK, Listed, Entries

LEMMA RecentType ==
  ASSUME NEW entries \in Entries, NEW now
  PROVE  Recent(entries, now) \in Entries /\ Recent(entries, now) \subseteq entries
  BY DEF Recent, Entries

LEMMA RecentTwice ==
  ASSUME NEW S, NEW now
  PROVE  Recent(Recent(S, now), now) = Recent(S, now)
  BY DEF Recent

\* What counts at a time counted before; and what has been looked through stays so.
LEMMA RecentSets ==
  ASSUME NEW S \in Entries, NEW now \in Nat, NEW later \in Nat, now <= later
  PROVE  /\ Recent(S, later) \subseteq Recent(S, now)
         /\ Recent(Recent(S, now), now) = Recent(S, now)
         /\ \A T \in SUBSET S : Recent(T, now) \subseteq Recent(S, now)
<1>1. \A e \in S : e.at \in Nat
  BY DEF Entries, Entry, Time
<1>2. QED
  BY <1>1 DEF Recent

LEMMA YoungSize ==
  ASSUME NEW S, IsFiniteSet(S), NEW now
  PROVE  /\ Young(S, now) = Cardinality(Recent(S, now)) /\ Young(S, now) \in Nat
         /\ IsFiniteSet(Recent(S, now))
<1>1. Recent(S, now) \in SUBSET S
  BY DEF Recent
<1>2. QED
  BY <1>1, FS_Subset, FS_CardinalityType DEF Recent, Young

LEMMA FewerYoung ==
  ASSUME NEW S, NEW T, IsFiniteSet(T), NEW now, NEW later, Recent(S, later) \subseteq Recent(T, now),
         IsFiniteSet(S)
  PROVE  Young(S, later) <= Young(T, now)
  BY YoungSize, FS_Subset
-----------------------------------------------------------------------------
\* What a step does to the threads: it moves its own, and tells those that are
\* about to append to a list that is no longer in the dictionary.
Others(t) ==
  \A o \in Threads \ {t} : LET p == thread'[o] q == thread[o] IN
    /\ p.at = q.at /\ p.key = q.key /\ p.now = q.now /\ p.todo = q.todo
    /\ p.cursor = q.cursor /\ p.seen = q.seen

\* Only then does an entry of a key go, or the list of a key.
Told(t) ==
  \A o \in Threads \ {t} :
    thread'[o].at = "append" /\ ~thread'[o].orphan =>
      ~thread[o].orphan /\ (thread[o].key \in DOMAIN table => thread[o].key \in DOMAIN table')

LEMMA IdleType == Idle \in Request /\ Idle.at = "idle" /\ ~Idle.orphan
  BY DEF Idle, Request, Time, Entries

LEMMA OrphanedThreads ==
  ASSUME TypeOK, NEW k \in Keys
  PROVE  /\ Orphaned(k) \in [Threads -> Request]
         /\ \A o \in Threads : LET p == Orphaned(k)[o] q == thread[o] IN
              /\ p.at = q.at /\ p.key = q.key /\ p.now = q.now /\ p.todo = q.todo
              /\ p.cursor = q.cursor /\ p.seen = q.seen
              /\ p.at = "append" /\ ~p.orphan => ~q.orphan /\ q.key # k
              /\ q.at # "append" => p = q
<1>1. ASSUME NEW q \in Request, NEW p, p = [q EXCEPT !.orphan = TRUE]
      PROVE  /\ p \in Request /\ p.at = q.at /\ p.key = q.key /\ p.now = q.now /\ p.todo = q.todo
             /\ p.cursor = q.cursor /\ p.seen = q.seen /\ p.orphan
  BY <1>1 DEF Request
<1>2. \A o \in Threads : thread[o] \in Request
  BY DEF TypeOK
<1>3. \A o \in Threads :
        Orphaned(k)[o] = IF thread[o].at = "append" /\ thread[o].key = k THEN [thread[o] EXCEPT !.orphan = TRUE]
                         ELSE thread[o]
  BY DEF Orphaned
<1>4. \A o \in Threads : LET p == Orphaned(k)[o] q == thread[o] IN
        /\ p \in Request /\ p.at = q.at /\ p.key = q.key /\ p.now = q.now /\ p.todo = q.todo
        /\ p.cursor = q.cursor /\ p.seen = q.seen
        /\ p.at = "append" /\ ~p.orphan => ~q.orphan /\ q.key # k
        /\ q.at # "append" => p = q
  <2> TAKE o \in Threads
  <2>1. CASE thread[o].at = "append" /\ thread[o].key = k
    <3>1. Orphaned(k)[o] = [thread[o] EXCEPT !.orphan = TRUE] /\ thread[o] \in Request
      BY <1>2, <1>3, <2>1
    <3>2. LET p == Orphaned(k)[o] q == thread[o] IN
            /\ p \in Request /\ p.at = q.at /\ p.key = q.key /\ p.now = q.now /\ p.todo = q.todo
            /\ p.cursor = q.cursor /\ p.seen = q.seen /\ p.orphan
      BY <1>1, <3>1
    <3>3. QED
      BY <2>1, <3>2
  <2>2. CASE ~(thread[o].at = "append" /\ thread[o].key = k)
    BY <1>2, <1>3, <2>2
  <2>3. QED
    BY <2>1, <2>2
<1>5. Orphaned(k) = [o \in Threads |-> Orphaned(k)[o]]
  BY DEF Orphaned
<1>6. QED
  BY <1>4, <1>5

LEMMA PlainMove ==
  ASSUME TypeOK, NEW t \in Threads, NEW q \in Request, thread' = [thread EXCEPT ![t] = q],
         DOMAIN table \subseteq DOMAIN table'
  PROVE  thread' \in [Threads -> Request] /\ Others(t) /\ Told(t) /\ thread'[t] = q
<1>1. thread' \in [Threads -> Request] /\ thread'[t] = q
  BY DEF TypeOK
<1>2. \A o \in Threads \ {t} : thread'[o] = thread[o]
  BY DEF TypeOK
<1>3. Others(t) /\ Told(t)
  BY <1>2 DEF Others, Told
<1>4. QED
  BY <1>1, <1>3

LEMMA TellingMove ==
  ASSUME TypeOK, NEW t \in Threads, NEW k \in Keys, NEW q \in Request,
         thread' = [Orphaned(k) EXCEPT ![t] = q], DOMAIN table \ {k} \subseteq DOMAIN table'
  PROVE  thread' \in [Threads -> Request] /\ Others(t) /\ Told(t) /\ thread'[t] = q
<1>0. Orphaned(k) \in [Threads -> Request]
  BY OrphanedThreads
<1>1. thread' \in [Threads -> Request] /\ thread'[t] = q
  BY <1>0
<1>2. \A o \in Threads \ {t} : thread'[o] = Orphaned(k)[o]
  BY <1>0
<1>3. Others(t)
  BY <1>2, OrphanedThreads DEF Others
<1>4. Told(t)
  BY <1>2, OrphanedThreads DEF Told
<1>5. QED
  BY <1>1, <1>3, <1>4

LEMMA StartStep ==
  ASSUME TypeOK, NEW t \in Threads, NEW k \in Keys, Start(t, k)
  PROVE  /\ thread' \in [Threads -> Request] /\ Others(t) /\ Told(t)
         /\ thread'[t].at = "prune" /\ thread'[t].key = k /\ thread'[t].now = clock
         /\ thread'[t].todo = DOMAIN table /\ thread'[t].seen = {} /\ ~thread'[t].orphan
<1> DEFINE q == [Idle EXCEPT !.at = "prune", !.key = k, !.now = clock, !.todo = DOMAIN table]
<1>1. /\ q \in Request /\ q.at = "prune" /\ q.key = k /\ q.now = clock
      /\ q.todo = DOMAIN table /\ q.seen = {} /\ ~q.orphan
  BY IdleType DEF Idle, Request, TypeOK
<1>2. thread' = [thread EXCEPT ![t] = q] /\ UNCHANGED table
  BY DEF Start
<1> HIDE DEF q
<1>3. QED
  BY <1>1, <1>2, PlainMove

LEMMA LookStep ==
  ASSUME TypeOK, NEW t \in Threads, NEW k \in Keys, NEW next \in {"store", "own"}, Look(t, k, next),
         UNCHANGED table
  PROVE  /\ thread' \in [Threads -> Request] /\ Others(t) /\ Told(t)
         /\ thread'[t].at = next /\ thread'[t].key = thread[t].key /\ thread'[t].now = thread[t].now
         /\ thread'[t].todo = thread[t].todo \ {k} /\ thread'[t].cursor = k
         /\ thread'[t].seen = Recent(Listed(k), thread[t].now)
         /\ thread'[t].orphan = thread[t].orphan
<1> DEFINE seen == Recent(Listed(k), thread[t].now)
           q == [thread[t] EXCEPT !.at = next, !.todo = @ \ {k}, !.cursor = k, !.seen = seen]
<1>1. seen \in Entries /\ thread[t] \in Request
  BY ListedType, RecentType DEF TypeOK
<1>2. thread' = [thread EXCEPT ![t] = q]
  BY DEF Look
<1> HIDE DEF seen
<1>3. /\ q \in Request /\ q.at = next /\ q.key = thread[t].key /\ q.now = thread[t].now
      /\ q.todo = thread[t].todo \ {k} /\ q.cursor = k /\ q.seen = seen /\ q.orphan = thread[t].orphan
  BY <1>1 DEF Request
<1> HIDE DEF q
<1>4. QED
  BY <1>2, <1>3, PlainMove DEF seen

LEMMA StoreStep ==
  ASSUME TypeOK, NEW t \in Threads, Store(t), thread[t].cursor \in Keys
  PROVE  /\ thread' \in [Threads -> Request] /\ Others(t) /\ Told(t)
         /\ table' = Pruned(thread[t].cursor, thread[t].seen)
         /\ thread'[t].at = "prune" /\ thread'[t].key = thread[t].key /\ thread'[t].now = thread[t].now
         /\ thread'[t].todo = thread[t].todo /\ thread'[t].orphan = thread[t].orphan
<1> DEFINE q == [thread[t] EXCEPT !.at = "prune", !.cursor = None, !.seen = {}]
<1>1. thread[t] \in Request /\ thread[t].seen \in Entries
  BY DEF TypeOK, Request
<1>2. /\ table' = Pruned(thread[t].cursor, thread[t].seen)
      /\ thread' = [Orphaned(thread[t].cursor) EXCEPT ![t] = q]
  BY DEF Store
<1>3. /\ q \in Request /\ q.at = "prune" /\ q.key = thread[t].key /\ q.now = thread[t].now
      /\ q.todo = thread[t].todo /\ q.orphan = thread[t].orphan
  BY <1>1 DEF Request, Entries
<1>4. DOMAIN table \ {thread[t].cursor} \subseteq DOMAIN table'
  BY <1>1, <1>2, PrunedList
<1> HIDE DEF q
<1>5. QED
  BY <1>2, <1>3, <1>4, TellingMove

LEMMA DecideOwnStep ==
  ASSUME TypeOK, NEW t \in Threads, DecideOwn(t), thread[t].key \in Keys
  PROVE  /\ thread' \in [Threads -> Request] /\ Others(t) /\ Told(t)
         /\ table' = Pruned(thread[t].key, thread[t].seen)
         /\ thread'[t].at = Verdict(thread[t].seen)
         /\ thread'[t].key = thread[t].key /\ thread'[t].now = thread[t].now
         /\ thread'[t].todo = thread[t].todo /\ thread'[t].seen = thread[t].seen
         /\ thread'[t].orphan = thread[t].orphan
<1> DEFINE at == Verdict(thread[t].seen)
           q == [thread[t] EXCEPT !.at = at]
<1>1. thread[t] \in Request /\ thread[t].seen \in Entries /\ at \in {"refused", "work"}
  BY DEF TypeOK, Request, Verdict
<1>2. /\ table' = Pruned(thread[t].key, thread[t].seen)
      /\ thread' = [Orphaned(thread[t].key) EXCEPT ![t] = q]
  BY DEF DecideOwn
<1> HIDE DEF at
<1>3. /\ q \in Request /\ q.at = at /\ q.key = thread[t].key /\ q.now = thread[t].now
      /\ q.todo = thread[t].todo /\ q.seen = thread[t].seen /\ q.orphan = thread[t].orphan
  BY <1>1 DEF Request
<1>4. DOMAIN table \ {thread[t].key} \subseteq DOMAIN table'
  BY <1>1, <1>2, PrunedList
<1> HIDE DEF q
<1>5. QED
  BY <1>2, <1>3, <1>4, TellingMove DEF at

LEMMA DecideRegistrationStep ==
  ASSUME TypeOK, NEW t \in Threads, DecideRegistration(t), thread[t].key \in Keys
  PROVE  /\ thread' \in [Threads -> Request] /\ Others(t) /\ Told(t)
         /\ thread'[t].at = Verdict(Listed(thread[t].key))
         /\ thread'[t].key = thread[t].key /\ thread'[t].now = thread[t].now
         /\ thread'[t].todo = thread[t].todo /\ thread'[t].seen = Listed(thread[t].key)
         /\ thread'[t].orphan = thread[t].orphan
<1> DEFINE seen == Listed(thread[t].key)
           at == Verdict(seen)
           q == [thread[t] EXCEPT !.at = at, !.seen = seen]
<1>1. thread[t] \in Request /\ seen \in Entries /\ at \in {"refused", "work"}
  BY ListedType DEF TypeOK, Verdict
<1>2. UNCHANGED table /\ thread' = [thread EXCEPT ![t] = q]
  BY DEF DecideRegistration
<1> HIDE DEF at, seen
<1>3. /\ q \in Request /\ q.at = at /\ q.key = thread[t].key /\ q.now = thread[t].now
      /\ q.todo = thread[t].todo /\ q.seen = seen /\ q.orphan = thread[t].orphan
  BY <1>1 DEF Request
<1> HIDE DEF q
<1>4. QED
  BY <1>2, <1>3, PlainMove DEF at, seen

LEMMA CountsStep ==
  ASSUME TypeOK, NEW t \in Threads, Counts(t), thread[t].key \in Keys
  PROVE  /\ thread' \in [Threads -> Request] /\ Others(t) /\ Told(t)
         /\ table' = With(thread[t].key, Listed(thread[t].key))
         /\ thread'[t].at = "append"
         /\ thread'[t].key = thread[t].key /\ thread'[t].now = thread[t].now
         /\ thread'[t].orphan = thread[t].orphan
<1> DEFINE q == [thread[t] EXCEPT !.at = "append", !.seen = {}]
<1>1. thread[t] \in Request /\ Listed(thread[t].key) \in Entries
  BY ListedType DEF TypeOK
<1>2. /\ table' = With(thread[t].key, Listed(thread[t].key))
      /\ thread' = [thread EXCEPT ![t] = q]
  BY DEF Counts
<1>3. /\ q \in Request /\ q.at = "append" /\ q.key = thread[t].key /\ q.now = thread[t].now
      /\ q.orphan = thread[t].orphan
  BY <1>1 DEF Request, Entries
<1>4. DOMAIN table \subseteq DOMAIN table'
  BY <1>2 DEF With
<1> HIDE DEF q
<1>5. QED
  BY <1>2, <1>3, <1>4, PlainMove

LEMMA EndStep ==
  ASSUME TypeOK, NEW t \in Threads, thread' = [thread EXCEPT ![t] = Idle],
         DOMAIN table \subseteq DOMAIN table'
  PROVE  thread' \in [Threads -> Request] /\ Others(t) /\ Told(t) /\ thread'[t] = Idle
  BY IdleType, PlainMove

LEMMA SignInStep ==
  ASSUME TypeOK, NEW t \in Threads, SignIn(t), thread[t].key \in Keys
  PROVE  /\ thread' \in [Threads -> Request] /\ Others(t) /\ Told(t) /\ thread'[t] = Idle
         /\ table' = Without(thread[t].key)
         /\ cleared' = [cleared EXCEPT ![thread[t].key] = events[thread[t].key]]
<1>1. /\ table' = Without(thread[t].key)
      /\ thread' = [Orphaned(thread[t].key) EXCEPT ![t] = Idle]
      /\ cleared' = [cleared EXCEPT ![thread[t].key] = events[thread[t].key]]
  BY DEF SignIn
<1>2. DOMAIN table \ {thread[t].key} \subseteq DOMAIN table'
  BY <1>1, WithoutList
<1>3. QED
  BY <1>1, <1>2, IdleType, TellingMove
-----------------------------------------------------------------------------
\* What a refused client is told is a time, and by then its oldest entry is old.
LEMMA PromiseIsLate ==
  ASSUME BaseInv, NEW t \in Threads, thread[t].at = "refused",
         NEW p, p = clock + Unit * RetryAfter(thread[t])
  PROVE  p \in Nat /\ \E e \in thread[t].seen : p - e.at >= Window
<1> DEFINE q == thread[t]
           T == {e.at : e \in q.seen}
<1>1. /\ q.key \in Keys /\ q.now <= clock /\ q.now \in Nat /\ clock \in Nat
      /\ q.seen \subseteq events[q.key] /\ Cardinality(q.seen) >= Limit
  <2>1. CopyInv(q)
    BY DEF BaseInv
  <2>2. q \in Request /\ clock \in Nat
    BY DEF BaseInv, TypeOK, Time
  <2>3. q.now \in Nat
    BY <2>2 DEF Request, Time
  <2> HIDE DEF q
  <2>4. q.at = "refused"
    BY DEF q
  <2>5. QED
    BY <2>1, <2>2, <2>3, <2>4 DEF CopyInv
<1>2. q.seen # {}
  <2>1. SUFFICES ASSUME q.seen = {} PROVE FALSE
    OBVIOUS
  <2>2. Cardinality(q.seen) = 0
    BY <2>1, FS_EmptySet
  <2>3. QED
    BY <1>1, <2>2
<1>3. \A e \in q.seen : e.at \in Nat
  BY DEF BaseInv, TypeOK, Request, Entries, Entry, Time
<1>4. Min(T) \in T /\ Min(T) \in Nat
  <2>1. T \subseteq Nat /\ T # {}
    BY <1>2, <1>3
  <2> HIDE DEF T
  <2>2. QED
    BY <2>1, LeastNatural
<1>5. PICK e \in q.seen : Min(T) = e.at
  BY <1>4
<1>6. Left(q) = Window - (q.now - e.at)
  BY <1>5 DEF Left
<1>7. Left(q) \in Int
  BY <1>1, <1>3, <1>6
<1>8. /\ Unit * RetryAfter(q) \in Int /\ Unit * RetryAfter(q) > Left(q)
  BY <1>7, WholeIsEnough DEF RetryAfter
<1>9. p \in Nat /\ p - e.at >= Window
  <2> DEFINE u == Unit * RetryAfter(q)
  <2>1. u \in Int /\ u > Window - (q.now - e.at) /\ p = clock + u
    BY <1>6, <1>8
  <2> HIDE DEF u
  <2>2. QED
    BY <1>1, <1>3, <2>1
<1>10. QED
  BY <1>9

\* A step of one request leaves what the others have in hand sound.
LEMMA BaseCombine ==
  ASSUME BaseInv, NEW t \in Threads, thread' \in [Threads -> Request], Others(t), Told(t),
         DOMAIN table' \subseteq Keys, table' \in [DOMAIN table' -> Entries], UNCHANGED <<kind, clock>>,
         events' \in [Keys -> Entries], \A k \in Keys : events[k] \subseteq events'[k],
         cleared' \in [Keys -> Entries], \A k \in Keys : cleared'[k] \subseteq events'[k],
         promise' \in [Keys -> Maybe(Nat)], raced' \in BOOLEAN,
         RecordInv', CopyInv(thread[t])'
  PROVE  BaseInv'
<1>1. TypeOK'
  BY DEF BaseInv, TypeOK
<1>2. ASSUME NEW o \in Threads \ {t} PROVE CopyInv(thread[o])'
  <2>1. /\ thread'[o].at = thread[o].at /\ thread'[o].key = thread[o].key
        /\ thread'[o].now = thread[o].now /\ thread'[o].cursor = thread[o].cursor
        /\ thread'[o].seen = thread[o].seen
    BY DEF Others
  <2>2. thread'[o].at = "append" /\ ~thread'[o].orphan =>
          ~thread[o].orphan /\ (thread[o].key \in DOMAIN table => thread[o].key \in DOMAIN table')
    BY DEF Told
  <2>3. CopyInv(thread[o])
    BY DEF BaseInv
  <2>4. QED
    BY <2>1, <2>2, <2>3 DEF CopyInv, Recent
<1>3. QED
  BY <1>1, <1>2 DEF BaseInv

LEMMA KeptCombine ==
  ASSUME BaseInv, NEW t \in Threads, thread' \in [Threads -> Request], Others(t), Told(t),
         DOMAIN table' \subseteq Keys, table' \in [DOMAIN table' -> Entries], UNCHANGED <<kind, clock>>,
         UNCHANGED <<events, cleared, promise>>, raced' \in BOOLEAN,
         \A k \in Keys : Listed(k)' \subseteq events[k], CopyInv(thread[t])'
  PROVE  BaseInv'
<1>1. RecordInv'
  BY DEF BaseInv, RecordInv
<1>2. QED
  BY <1>1, BaseCombine DEF BaseInv, TypeOK
-----------------------------------------------------------------------------
\* However requests overlap, what is in a list or a copy was recorded.
LEMMA BaseTyped ==
  ASSUME BaseInv, NEW t \in Threads
  PROVE  /\ TypeOK /\ thread[t] \in Request /\ clock \in Nat /\ clock \in Time
         /\ thread[t].now \in Nat /\ thread[t].seen \in Entries
         /\ CopyInv(thread[t]) /\ (thread[t].at # "idle" => thread[t].key \in Keys)
         /\ \A k \in Keys : /\ Listed(k) \subseteq events[k] /\ Listed(k) \in Entries
                            /\ IsFiniteSet(events[k]) /\ events[k] \in Entries
<1>1. TypeOK /\ thread[t] \in Request /\ CopyInv(thread[t]) /\ clock \in Time
  BY DEF BaseInv, TypeOK
<1>2. thread[t].now \in Nat /\ thread[t].seen \in Entries /\ clock \in Nat
  BY <1>1 DEF Request, Time
<1>3. thread[t].at # "idle" => thread[t].key \in Keys
  BY <1>1 DEF CopyInv
<1>4. \A k \in Keys : /\ Listed(k) \subseteq events[k] /\ Listed(k) \in Entries
                      /\ IsFiniteSet(events[k]) /\ events[k] \in Entries
  BY <1>1, ListedType DEF BaseInv, RecordInv, TypeOK
<1>5. QED
  BY <1>1, <1>2, <1>3, <1>4

\* A step that leaves the dictionary as it is.
LEMMA SameTable ==
  ASSUME TypeOK, UNCHANGED table
  PROVE  /\ DOMAIN table' \subseteq Keys /\ table' \in [DOMAIN table' -> Entries]
         /\ \A k \in Keys : Listed(k)' = Listed(k)
  BY DEF TypeOK, Listed

LEMMA BaseStart ==
  ASSUME BaseInv, NEW t \in Threads, NEW k \in Keys, Start(t, k)
  PROVE  BaseInv'
<1>1. /\ TypeOK /\ clock \in Nat /\ \A j \in Keys : Listed(j) \subseteq events[j]
  BY BaseTyped
<1>2. /\ thread' \in [Threads -> Request] /\ Others(t) /\ Told(t)
      /\ thread'[t].at = "prune" /\ thread'[t].key = k /\ thread'[t].now = clock
  BY <1>1, StartStep
<1>3. UNCHANGED <<kind, table, clock, events, cleared, promise>> /\ raced' \in BOOLEAN
  BY DEF Start
<1>4. CopyInv(thread[t])'
  BY <1>1, <1>2, <1>3 DEF CopyInv
<1>5. QED
  BY <1>1, <1>2, <1>3, <1>4, SameTable, KeptCombine

LEMMA BaseRead ==
  ASSUME BaseInv, NEW t \in Threads, NEW k \in Keys, Read(t, k)
  PROVE  BaseInv'
<1>1. /\ TypeOK /\ thread[t].now \in Nat /\ CopyInv(thread[t])
      /\ \A j \in Keys : Listed(j) \subseteq events[j]
  BY BaseTyped
<1>2. /\ thread[t].at = "prune" /\ Look(t, k, "store") /\ UNCHANGED <<kind, table, clock, history>>
  BY DEF Read
<1>3. /\ thread' \in [Threads -> Request] /\ Others(t) /\ Told(t)
      /\ thread'[t].at = "store" /\ thread'[t].key = thread[t].key /\ thread'[t].now = thread[t].now
      /\ thread'[t].cursor = k /\ thread'[t].seen = Recent(Listed(k), thread[t].now)
  BY <1>1, <1>2, LookStep
<1>4. Recent(Listed(k), thread[t].now) \subseteq events[k]
  BY <1>1 DEF Recent
<1>5. CopyInv(thread[t])'
  BY <1>1, <1>2, <1>3, <1>4 DEF CopyInv, history
<1>6. QED
  BY <1>1, <1>2, <1>3, <1>5, SameTable, KeptCombine DEF history, TypeOK

LEMMA BaseReadOwn ==
  ASSUME BaseInv, NEW t \in Threads, ReadOwn(t)
  PROVE  BaseInv'
<1>0. /\ thread[t].at = "prune" /\ Look(t, thread[t].key, "own") /\ UNCHANGED <<kind, table, clock, history>>
  BY DEF ReadOwn
<1> DEFINE k == thread[t].key
<1>1. /\ TypeOK /\ thread[t].now \in Nat /\ CopyInv(thread[t]) /\ k \in Keys
      /\ \A j \in Keys : Listed(j) \subseteq events[j] /\ Listed(j) \in Entries
  BY <1>0, BaseTyped
<1>3. /\ thread' \in [Threads -> Request] /\ Others(t) /\ Told(t)
      /\ thread'[t].at = "own" /\ thread'[t].key = thread[t].key /\ thread'[t].now = thread[t].now
      /\ thread'[t].seen = Recent(Listed(k), thread[t].now)
  BY <1>0, <1>1, LookStep
<1>4. Recent(Listed(k), thread[t].now) \subseteq events[k]
  BY <1>1 DEF Recent
<1>5. Recent(thread'[t].seen, thread'[t].now) = thread'[t].seen
  BY <1>1, <1>3, RecentSets
<1>6. CopyInv(thread[t])'
  BY <1>0, <1>1, <1>3, <1>4, <1>5 DEF CopyInv, history
<1>7. QED
  BY <1>0, <1>1, <1>3, <1>6, SameTable, KeptCombine DEF history, TypeOK

LEMMA BaseStore ==
  ASSUME BaseInv, NEW t \in Threads, Store(t)
  PROVE  BaseInv'
<1>0. thread[t].at = "store" /\ UNCHANGED <<kind, clock, history>>
  BY DEF Store
<1>1. /\ TypeOK /\ thread[t].now \in Nat /\ CopyInv(thread[t]) /\ thread[t].key \in Keys
      /\ thread[t].seen \in Entries /\ thread[t].cursor \in Keys
      /\ thread[t].seen \subseteq events[thread[t].cursor]
      /\ \A j \in Keys : Listed(j) \subseteq events[j] /\ Listed(j) \in Entries
  BY <1>0, BaseTyped DEF CopyInv
<1>2. /\ thread' \in [Threads -> Request] /\ Others(t) /\ Told(t)
      /\ table' = Pruned(thread[t].cursor, thread[t].seen)
      /\ thread'[t].at = "prune" /\ thread'[t].key = thread[t].key /\ thread'[t].now = thread[t].now
  BY <1>1, StoreStep
<1>3. /\ DOMAIN table' \subseteq Keys /\ table' \in [DOMAIN table' -> Entries]
      /\ \A j \in Keys : Listed(j)' = IF j = thread[t].cursor THEN thread[t].seen ELSE Listed(j)
  BY <1>1, <1>2, PrunedList
<1>4. CopyInv(thread[t])'
  BY <1>0, <1>1, <1>2 DEF CopyInv, history
<1>5. \A j \in Keys : Listed(j)' \subseteq events[j]
  BY <1>1, <1>3
<1>6. QED
  BY <1>0, <1>1, <1>2, <1>3, <1>4, <1>5, KeptCombine DEF history, TypeOK

LEMMA BaseDecideOwn ==
  ASSUME BaseInv, NEW t \in Threads, DecideOwn(t)
  PROVE  BaseInv'
<1>0. thread[t].at = "own" /\ UNCHANGED <<kind, clock, history>>
  BY DEF DecideOwn
<1>1. /\ TypeOK /\ thread[t].now \in Nat /\ CopyInv(thread[t]) /\ thread[t].key \in Keys
      /\ thread[t].seen \in Entries /\ thread[t].seen \subseteq events[thread[t].key]
      /\ Recent(thread[t].seen, thread[t].now) = thread[t].seen
      /\ \A j \in Keys : Listed(j) \subseteq events[j] /\ Listed(j) \in Entries
  BY <1>0, BaseTyped DEF CopyInv
<1>2. /\ thread' \in [Threads -> Request] /\ Others(t) /\ Told(t)
      /\ table' = Pruned(thread[t].key, thread[t].seen)
      /\ thread'[t].at = Verdict(thread[t].seen)
      /\ thread'[t].key = thread[t].key /\ thread'[t].now = thread[t].now
      /\ thread'[t].seen = thread[t].seen
  BY <1>1, DecideOwnStep
<1>3. /\ DOMAIN table' \subseteq Keys /\ table' \in [DOMAIN table' -> Entries]
      /\ \A j \in Keys : Listed(j)' = IF j = thread[t].key THEN thread[t].seen ELSE Listed(j)
  BY <1>1, <1>2, PrunedList
<1>4. CopyInv(thread[t])'
  BY <1>0, <1>1, <1>2 DEF CopyInv, history, Verdict
<1>5. \A j \in Keys : Listed(j)' \subseteq events[j]
  BY <1>1, <1>3
<1>6. QED
  BY <1>0, <1>1, <1>2, <1>3, <1>4, <1>5, KeptCombine DEF history, TypeOK

LEMMA BaseDecideRegistration ==
  ASSUME BaseInv, NEW t \in Threads, DecideRegistration(t)
  PROVE  BaseInv'
<1>0. kind = "register" /\ thread[t].at = "prune" /\ UNCHANGED <<kind, table, clock, history>>
  BY DEF DecideRegistration
<1>1. /\ TypeOK /\ CopyInv(thread[t]) /\ thread[t].key \in Keys
      /\ \A j \in Keys : Listed(j) \subseteq events[j] /\ Listed(j) \in Entries
  BY <1>0, BaseTyped
<1>2. /\ thread' \in [Threads -> Request] /\ Others(t) /\ Told(t)
      /\ thread'[t].at = Verdict(Listed(thread[t].key))
      /\ thread'[t].key = thread[t].key /\ thread'[t].now = thread[t].now
      /\ thread'[t].seen = Listed(thread[t].key)
  BY <1>1, DecideRegistrationStep
<1>3. CopyInv(thread[t])'
  BY <1>0, <1>1, <1>2 DEF CopyInv, history, Verdict
<1>4. QED
  BY <1>0, <1>1, <1>2, <1>3, SameTable, KeptCombine DEF history, TypeOK

LEMMA BaseCounts ==
  ASSUME BaseInv, NEW t \in Threads, Counts(t)
  PROVE  BaseInv'
<1>0. thread[t].at = "work" /\ UNCHANGED <<kind, clock, history>>
  BY DEF Counts
<1>1. /\ TypeOK /\ CopyInv(thread[t]) /\ thread[t].key \in Keys
      /\ \A j \in Keys : Listed(j) \subseteq events[j] /\ Listed(j) \in Entries
  BY <1>0, BaseTyped
<1>2. /\ thread' \in [Threads -> Request] /\ Others(t) /\ Told(t)
      /\ table' = With(thread[t].key, Listed(thread[t].key))
      /\ thread'[t].at = "append" /\ thread'[t].key = thread[t].key /\ thread'[t].now = thread[t].now
  BY <1>1, CountsStep
<1>3. /\ DOMAIN table' \subseteq Keys /\ table' \in [DOMAIN table' -> Entries]
      /\ \A j \in Keys : Listed(j)' = Listed(j)
      /\ thread[t].key \in DOMAIN table'
  <2> DEFINE k == thread[t].key
             entries == Listed(k)
  <2>1. k \in Keys /\ entries \in Entries /\ table' = With(k, entries)
    BY <1>1, <1>2
  <2>2. /\ DOMAIN table' \subseteq Keys /\ table' \in [DOMAIN table' -> Entries]
        /\ DOMAIN table' = DOMAIN table \union {k}
        /\ \A j \in Keys : Listed(j)' = IF j = k THEN entries ELSE Listed(j)
    <3> HIDE DEF k, entries
    <3>1. QED
      BY <1>1, <2>1, WithList
  <2>3. QED
    BY <2>2
<1>4. CopyInv(thread[t])'
  BY <1>0, <1>1, <1>2, <1>3 DEF CopyInv, history
<1>5. QED
  BY <1>0, <1>1, <1>2, <1>3, <1>4, KeptCombine DEF history, TypeOK

\* The failed and the finished requests have nothing in hand.
LEMMA IdleCopy ==
  ASSUME NEW t \in Threads, thread'[t] = Idle
  PROVE  CopyInv(thread[t])'
<1>1. thread'[t].at = "idle"
  BY IdleType
<1>2. QED
  BY <1>1 DEF CopyInv

LEMMA BaseEnd ==
  ASSUME BaseInv, NEW t \in Threads, KeyVanished(t) \/ EmailTaken(t)
  PROVE  BaseInv'
<1>1. /\ thread' = [thread EXCEPT ![t] = Idle] /\ UNCHANGED <<kind, table, clock, history>>
  BY DEF KeyVanished, EmailTaken
<1>2. TypeOK /\ \A j \in Keys : Listed(j) \subseteq events[j]
  BY BaseTyped
<1>3. /\ thread' \in [Threads -> Request] /\ Others(t) /\ Told(t) /\ thread'[t] = Idle
  BY <1>1, <1>2, EndStep
<1>4. /\ DOMAIN table' \subseteq Keys /\ table' \in [DOMAIN table' -> Entries]
      /\ \A j \in Keys : Listed(j)' \subseteq events[j]
  BY <1>1, <1>2, SameTable
<1>5. CopyInv(thread[t])'
  BY <1>3, IdleCopy
<1>6. QED
  BY <1>1, <1>2, <1>3, <1>4, <1>5, KeptCombine DEF history, TypeOK

LEMMA BaseRefuse ==
  ASSUME BaseInv, NEW t \in Threads, Refuse(t)
  PROVE  BaseInv'
<1> DEFINE p == clock + Unit * RetryAfter(thread[t])
<1>1. /\ thread[t].at = "refused" /\ thread' = [thread EXCEPT ![t] = Idle]
      /\ promise' = [promise EXCEPT ![thread[t].key] = p]
      /\ UNCHANGED <<kind, table, clock, events, cleared, raced>>
  BY DEF Refuse
<1>2. TypeOK /\ RecordInv /\ \A j \in Keys : Listed(j) \subseteq events[j]
  BY BaseTyped DEF BaseInv
<1>3. p \in Nat
  BY <1>1, PromiseIsLate
<1> HIDE DEF p
<1>4. /\ thread' \in [Threads -> Request] /\ Others(t) /\ Told(t) /\ thread'[t] = Idle
  BY <1>1, <1>2, EndStep
<1>5. /\ DOMAIN table' \subseteq Keys /\ table' \in [DOMAIN table' -> Entries]
      /\ RecordInv'
  BY <1>1, <1>2, SameTable DEF RecordInv
<1>6. promise' \in [Keys -> Maybe(Nat)]
  BY <1>1, <1>2, <1>3 DEF TypeOK
<1>7. CopyInv(thread[t])'
  BY <1>4, IdleCopy
<1>8. QED
  BY <1>1, <1>2, <1>4, <1>5, <1>6, <1>7, BaseCombine DEF TypeOK

LEMMA BaseSignIn ==
  ASSUME BaseInv, NEW t \in Threads, SignIn(t)
  PROVE  BaseInv'
<1> DEFINE k == thread[t].key
<1>1. thread[t].at = "work" /\ UNCHANGED <<kind, clock, events, promise, raced>>
  BY DEF SignIn
<1>2. TypeOK /\ RecordInv /\ k \in Keys /\ \A j \in Keys : Listed(j) \subseteq events[j]
  BY <1>1, BaseTyped DEF BaseInv
<1>3. /\ thread' \in [Threads -> Request] /\ Others(t) /\ Told(t) /\ thread'[t] = Idle
      /\ table' = Without(k) /\ cleared' = [cleared EXCEPT ![k] = events[k]]
  BY <1>2, SignInStep
<1> HIDE DEF k
<1>4. /\ DOMAIN table' \subseteq Keys /\ table' \in [DOMAIN table' -> Entries]
      /\ \A j \in Keys : Listed(j)' = IF j = k THEN {} ELSE Listed(j)
  BY <1>2, <1>3, WithoutList
<1>5. RecordInv'
  BY <1>1, <1>2, <1>4 DEF RecordInv
<1>6. cleared' \in [Keys -> Entries] /\ \A j \in Keys : cleared'[j] \subseteq events'[j]
  BY <1>1, <1>2, <1>3 DEF TypeOK
<1>7. CopyInv(thread[t])'
  BY <1>3, IdleCopy
<1>8. QED
  BY <1>1, <1>2, <1>3, <1>4, <1>5, <1>6, <1>7, BaseCombine DEF TypeOK

\* The entry that is recorded is a new one.
NewEntry(k) == [nth |-> Cardinality(events[k]) + 1, at |-> clock]

LEMMA AppendStep ==
  ASSUME BaseInv, NEW t \in Threads, AppendTime(t), NEW k, k = thread[t].key,
         NEW e, e = NewEntry(k)
  PROVE  /\ k \in Keys /\ e \in Entry /\ e.at = clock /\ e \notin events[k]
         /\ thread' \in [Threads -> Request] /\ Others(t) /\ Told(t) /\ thread'[t] = Idle
         /\ DOMAIN table' = DOMAIN table /\ DOMAIN table' \subseteq Keys
         /\ table' \in [DOMAIN table' -> Entries]
         /\ \A j \in Keys : Listed(j)' = IF j = k /\ ~thread[t].orphan THEN Listed(j) \union {e} ELSE Listed(j)
         /\ events' = [events EXCEPT ![k] = @ \union {e}]
         /\ promise' = [promise EXCEPT ![k] = None]
         /\ UNCHANGED <<kind, clock, cleared, raced>>
<1>1. /\ thread[t].at = "append"
      /\ table' = IF thread[t].orphan THEN table ELSE [table EXCEPT ![k] = @ \union {e}]
      /\ events' = [events EXCEPT ![k] = @ \union {e}]
      /\ promise' = [promise EXCEPT ![k] = None]
      /\ thread' = [thread EXCEPT ![t] = Idle]
      /\ UNCHANGED <<kind, clock, cleared, raced>>
  BY DEF AppendTime, NewEntry
<1>2. /\ TypeOK /\ CopyInv(thread[t]) /\ RecordInv /\ k \in Keys /\ clock \in Time
  BY <1>1, BaseTyped DEF BaseInv
<1>3. IsFiniteSet(events[k]) /\ Cardinality(events[k]) \in Nat
  BY <1>2, FS_CardinalityType DEF RecordInv
<1>4. e \in Entry /\ e.at = clock /\ e.nth = Cardinality(events[k]) + 1
  BY <1>2, <1>3 DEF NewEntry, Entry
<1>5. e \notin events[k]
  BY <1>2, <1>3, <1>4 DEF RecordInv
<1>6. ~thread[t].orphan => k \in DOMAIN table
  BY <1>1, <1>2 DEF CopyInv
<1>7. DOMAIN table' = DOMAIN table
  BY <1>1
<1>8. DOMAIN table' \subseteq Keys /\ table' \in [DOMAIN table' -> Entries]
  <2>1. CASE thread[t].orphan
    BY <1>1, <1>2, <2>1 DEF TypeOK
  <2>2. CASE ~thread[t].orphan
    BY <1>1, <1>2, <1>4, <1>6, <2>2 DEF TypeOK, Entries
  <2>3. QED
    BY <2>1, <2>2
<1>9. \A j \in Keys : Listed(j)' = IF j = k /\ ~thread[t].orphan THEN Listed(j) \union {e} ELSE Listed(j)
  <2>1. CASE thread[t].orphan
    BY <1>1, <2>1 DEF Listed
  <2>2. CASE ~thread[t].orphan
    BY <1>1, <1>2, <1>6, <2>2 DEF Listed, TypeOK
  <2>3. QED
    BY <2>1, <2>2
<1>10. thread' \in [Threads -> Request] /\ Others(t) /\ Told(t) /\ thread'[t] = Idle
  BY <1>1, <1>2, <1>7, EndStep
<1>11. QED
  BY <1>1, <1>2, <1>4, <1>5, <1>7, <1>8, <1>9, <1>10

LEMMA BaseAppend ==
  ASSUME BaseInv, NEW t \in Threads, AppendTime(t)
  PROVE  BaseInv'
<1> DEFINE k == thread[t].key
           e == NewEntry(k)
<1>1. /\ k \in Keys /\ e \in Entry /\ e.at = clock /\ e \notin events[k]
      /\ thread' \in [Threads -> Request] /\ Others(t) /\ Told(t) /\ thread'[t] = Idle
      /\ DOMAIN table' \subseteq Keys /\ table' \in [DOMAIN table' -> Entries]
      /\ \A j \in Keys : Listed(j)' = IF j = k /\ ~thread[t].orphan THEN Listed(j) \union {e} ELSE Listed(j)
      /\ events' = [events EXCEPT ![k] = @ \union {e}]
      /\ promise' = [promise EXCEPT ![k] = None]
      /\ UNCHANGED <<kind, clock, cleared, raced>>
  BY AppendStep
<1>2. TypeOK /\ RecordInv
  BY DEF BaseInv
<1>3. e.nth = Cardinality(events[k]) + 1
  BY DEF NewEntry
<1> HIDE DEF k, e
<1>4. \A j \in Keys : events'[j] = IF j = k THEN events[j] \union {e} ELSE events[j]
  BY <1>1, <1>2 DEF TypeOK
<1>5. events' \in [Keys -> Entries] /\ \A j \in Keys : events[j] \subseteq events'[j]
  BY <1>1, <1>2, <1>4 DEF TypeOK, Entries
<1>6. cleared' \in [Keys -> Entries] /\ \A j \in Keys : cleared'[j] \subseteq events'[j]
  BY <1>1, <1>2, <1>5 DEF TypeOK
<1>7. promise' \in [Keys -> Maybe(Nat)] /\ raced' \in BOOLEAN
  BY <1>1, <1>2 DEF TypeOK
<1>8. RecordInv'
  <2>1. ASSUME NEW j \in Keys
        PROVE  /\ IsFiniteSet(events'[j]) /\ \A x \in events'[j] : x.nth <= Cardinality(events'[j])
               /\ Listed(j)' \subseteq events'[j]
    <3>0. /\ IsFiniteSet(events[j]) /\ Cardinality(events[j]) \in Nat
          /\ \A x \in events[j] : x.nth <= Cardinality(events[j]) /\ x.nth \in Nat
          /\ Listed(j) \subseteq events[j]
      BY <1>2, FS_CardinalityType DEF RecordInv, TypeOK, Entries, Entry
    <3>1. CASE j # k
      BY <1>1, <1>4, <3>0, <3>1
    <3>2. CASE j = k
      <4>1. IsFiniteSet(events'[j]) /\ Cardinality(events'[j]) = Cardinality(events[j]) + 1
        <5>1. events'[j] = events[j] \union {e} /\ e \notin events[j]
          BY <1>1, <1>4, <3>2
        <5>2. IsFiniteSet(events[j])
          BY <3>0
        <5>3. /\ IsFiniteSet(events[j] \union {e})
              /\ Cardinality(events[j] \union {e}) = Cardinality(events[j]) + 1
          BY <5>1, <5>2, FS_AddElement
        <5>4. QED
          BY <5>1, <5>3
      <4>2. \A x \in events'[j] : x.nth <= Cardinality(events'[j])
        <5>1. events'[j] = events[j] \union {e} /\ e.nth = Cardinality(events[j]) + 1
          BY <1>3, <1>4, <3>2
        <5>2. ASSUME NEW x \in events'[j] PROVE x.nth <= Cardinality(events'[j])
          <6>1. CASE x \in events[j]
            BY <3>0, <4>1, <6>1
          <6>2. CASE x = e
            BY <3>0, <4>1, <5>1, <6>2
          <6>3. QED
            BY <5>1, <5>2, <6>1, <6>2
        <5>3. QED
          BY <5>2
      <4>3. Listed(j)' \subseteq events'[j]
        BY <1>1, <1>4, <3>0, <3>2
      <4>4. QED
        BY <4>1, <4>2, <4>3
    <3>3. QED
      BY <3>1, <3>2
  <2>2. QED
    BY <2>1 DEF RecordInv
<1>9. CopyInv(thread[t])'
  BY <1>1, IdleCopy
<1>10. QED
  BY <1>1, <1>5, <1>6, <1>7, <1>8, <1>9, BaseCombine

LEMMA BaseTick ==
  ASSUME BaseInv, Tick
  PROVE  BaseInv'
<1>1. /\ clock' = clock + 1 /\ clock' \in Time /\ clock \in Nat
      /\ UNCHANGED <<kind, table, thread, events, cleared, promise, raced>>
  BY DEF Tick, history, BaseInv, TypeOK, Time
<1>2. TypeOK'
  BY <1>1 DEF BaseInv, TypeOK
<1>3. RecordInv'
  BY <1>1, SameTable DEF BaseInv, RecordInv
<1>4. ASSUME NEW t \in Threads PROVE CopyInv(thread[t])'
  BY <1>1, BaseTyped DEF CopyInv
<1>5. QED
  BY <1>2, <1>3, <1>4 DEF BaseInv

\* A process that has just started.
LEMMA BaseFresh ==
  ASSUME /\ table = [k \in {} |-> {}] /\ thread = [t \in Threads |-> Idle]
         /\ events = [k \in Keys |-> {}] /\ cleared = [k \in Keys |-> {}]
         /\ promise = [k \in Keys |-> None] /\ raced = FALSE /\ kind \in Kinds /\ clock \in Time
  PROVE  BaseInv
<1>1. TypeOK
  BY IdleType DEF TypeOK, Entries
<1>2. RecordInv
  BY FS_EmptySet DEF RecordInv, Listed
<1>3. \A t \in Threads : CopyInv(thread[t])
  BY IdleType DEF CopyInv
<1>4. QED
  BY <1>1, <1>2, <1>3 DEF BaseInv

LEMMA BaseNext ==
  ASSUME BaseInv, [Next]_vars
  PROVE  BaseInv'
<1>1. CASE Tick
  BY <1>1, BaseTick
<1>2. CASE Restart
  <2>1. /\ table' = [k \in {} |-> {}] /\ thread' = [t \in Threads |-> Idle]
        /\ events' = [k \in Keys |-> {}] /\ cleared' = [k \in Keys |-> {}]
        /\ promise' = [k \in Keys |-> None] /\ raced' = FALSE /\ kind' \in Kinds /\ clock' \in Time
    BY <1>2 DEF Restart, BaseInv, TypeOK
  <2>2. TypeOK'
    BY <2>1, IdleType DEF TypeOK, Entries
  <2>3. RecordInv'
    BY <2>1, FS_EmptySet DEF RecordInv, Listed
  <2>4. \A t \in Threads : CopyInv(thread[t])'
    BY <2>1, IdleType DEF CopyInv
  <2>5. QED
    BY <2>2, <2>3, <2>4 DEF BaseInv
<1>3. ASSUME NEW t \in Threads, Step(t) PROVE BaseInv'
  BY <1>3, BaseStart, BaseRead, BaseEnd, BaseStore, BaseReadOwn, BaseDecideOwn, BaseDecideRegistration,
     BaseRefuse, BaseCounts, BaseSignIn, BaseAppend DEF Step
<1>4. CASE UNCHANGED vars
  <2>1. UNCHANGED <<kind, table, thread, clock, events, cleared, promise, raced>>
    BY <1>4 DEF vars, history
  <2>2. TypeOK'
    BY <2>1 DEF BaseInv, TypeOK
  <2>3. RecordInv'
    BY <2>1 DEF BaseInv, RecordInv, Listed
  <2>4. \A t \in Threads : CopyInv(thread[t])'
    BY <2>1 DEF BaseInv, CopyInv
  <2>5. QED
    BY <2>2, <2>3, <2>4 DEF BaseInv
<1>5. QED
  BY <1>1, <1>2, <1>3, <1>4 DEF Next
-----------------------------------------------------------------------------
\* While requests do not overlap: what the one that is under way relies on.
LEMMA OutstandingYoung ==
  ASSUME BaseInv, NEW k \in Keys, NEW now \in Nat, NEW later \in Nat, now <= later
  PROVE  /\ Recent(Outstanding(k), later) \subseteq Recent(Outstanding(k), now)
         /\ Young(Outstanding(k), later) <= Young(Outstanding(k), now)
         /\ Young(Outstanding(k), now) = Cardinality(Recent(Outstanding(k), now))
         /\ Young(Outstanding(k), later) \in Nat /\ Young(Outstanding(k), now) \in Nat
         /\ IsFiniteSet(Outstanding(k)) /\ Outstanding(k) \in Entries
<1>1. IsFiniteSet(Outstanding(k)) /\ Outstanding(k) \in Entries
  <2>1. Outstanding(k) \subseteq events[k] /\ IsFiniteSet(events[k]) /\ events[k] \in Entries
    BY DEF BaseInv, RecordInv, TypeOK, Outstanding
  <2>2. QED
    BY <2>1, FS_Subset DEF Entries
<1>2. Recent(Outstanding(k), later) \subseteq Recent(Outstanding(k), now)
  BY <1>1, RecentSets
<1>3. QED
  BY <1>1, <1>2, YoungSize, FewerYoung

LEMMA SerialCombine ==
  ASSUME BaseInv, NEW t \in Threads, \A o \in Threads \ {t} : ~Active(o), Others(t),
         Counted(clock)', \A k \in Keys : Listed(k)' \subseteq Outstanding(k)',
         RequestInv(thread[t])', PromiseInv'
  PROVE  SerialInv'
<1>1. \A o \in Threads \ {t} : thread'[o].at = "idle"
  BY DEF Active, Others
<1>2. AloneInv'
  BY <1>1 DEF AloneInv, Active
<1>3. ASSUME NEW o \in Threads PROVE RequestInv(thread[o])'
  <2>1. CASE o = t
    BY <2>1
  <2>2. CASE o # t
    <3>1. thread'[o].at = "idle"
      BY <1>1, <2>2
    <3>2. QED
      BY <3>1 DEF RequestInv
  <2>3. QED
    BY <2>1, <2>2
<1>4. QED
  BY <1>2, <1>3 DEF SerialInv

LEMMA Serial ==
  ASSUME BaseInv, SerialInv, NEW t \in Threads, thread[t].at # "idle"
  PROVE  /\ \A o \in Threads \ {t} : ~Active(o)
         /\ RequestInv(thread[t]) /\ ~thread[t].orphan /\ Counted(thread[t].now)
         /\ Counted(clock) /\ PromiseInv
         /\ \A k \in Keys : Listed(k) \subseteq Outstanding(k)
         /\ thread[t].now <= clock
<1>1. \A o \in Threads \ {t} : ~Active(o)
  BY DEF SerialInv, AloneInv, Active
<1>2. RequestInv(thread[t]) /\ CopyInv(thread[t])
  BY DEF SerialInv, BaseInv
<1>3. ~thread[t].orphan /\ Counted(thread[t].now)
  BY <1>2 DEF RequestInv
<1>4. thread[t].now <= clock
  BY <1>2 DEF CopyInv
<1>5. QED
  BY <1>1, <1>2, <1>3, <1>4 DEF SerialInv

\* Pruning leaves what counts.
LEMMA PruneKeeps ==
  ASSUME BaseInv, NEW now \in Nat, now <= clock, Counted(now),
         \A k \in Keys : Listed(k) \subseteq Outstanding(k),
         NEW c \in Keys, table' = Pruned(c, Recent(Listed(c), now))
  PROVE  /\ \A k \in Keys : /\ Listed(k)' \subseteq Outstanding(k)
                            /\ Recent(Outstanding(k), now) \subseteq Listed(k)'
                            /\ Recent(Outstanding(k), clock) \subseteq Listed(k)'
                            /\ k = c => Listed(k)' = Recent(Listed(k), now)
         /\ \A k \in DOMAIN table' :
              IF k = c THEN table'[k] # {} /\ Recent(table'[k], now) = table'[k]
              ELSE k \in DOMAIN table /\ table'[k] = table[k]
<1> DEFINE seen == Recent(Listed(c), now)
<1>1. TypeOK /\ clock \in Nat /\ Listed(c) \in Entries
  BY ListedType DEF BaseInv, TypeOK, Time
<1>2. seen \in Entries /\ seen \subseteq Listed(c) /\ Recent(seen, now) = seen
  BY <1>1, RecentType, RecentSets
<1>3. table' = Pruned(c, seen)
  OBVIOUS
<1>4. Recent(Outstanding(c), now) \subseteq seen
  BY DEF Counted, Recent
<1> HIDE DEF seen
<1>5. /\ DOMAIN table' \subseteq DOMAIN table \union {c}
      /\ c \in DOMAIN table' => seen # {} /\ table'[c] = seen
      /\ \A j \in DOMAIN table' : j # c => table'[j] = table[j]
      /\ \A j \in Keys : Listed(j)' = IF j = c THEN seen ELSE Listed(j)
  BY <1>1, <1>2, <1>3, PrunedList
<1>6. ASSUME NEW k \in Keys
      PROVE  /\ Listed(k)' \subseteq Outstanding(k)
             /\ Recent(Outstanding(k), now) \subseteq Listed(k)'
             /\ Recent(Outstanding(k), clock) \subseteq Listed(k)'
  <2>1. Recent(Outstanding(k), clock) \subseteq Recent(Outstanding(k), now)
    BY <1>1, OutstandingYoung
  <2>2. Listed(k)' \subseteq Outstanding(k) /\ Recent(Outstanding(k), now) \subseteq Listed(k)'
    BY <1>2, <1>4, <1>5 DEF Counted
  <2>3. QED
    BY <2>1, <2>2
<1>7. QED
  BY <1>2, <1>5, <1>6 DEF seen

\* A step that records nothing, and leaves in the dictionary what counts.
LEMMA KeptCounts ==
  ASSUME NEW now, Counted(now), UNCHANGED <<events, cleared>>,
         \A k \in Keys : Recent(Outstanding(k), now) \subseteq Listed(k)'
  PROVE  /\ \A k \in Keys : Outstanding(k)' = Outstanding(k)
         /\ \A k \in Keys : /\ Recent(Outstanding(k)', now) \subseteq Listed(k)'
                            /\ Young(Outstanding(k)', now) <= Limit
<1>1. \A k \in Keys : Outstanding(k)' = Outstanding(k)
  BY DEF Outstanding
<1>2. QED
  BY <1>1 DEF Counted

LEMMA KeptPromise ==
  ASSUME PromiseInv, UNCHANGED <<events, cleared, promise>>
  PROVE  PromiseInv'
  BY DEF PromiseInv, Outstanding

\* What stays when neither the dictionary nor the history changes.
LEMMA SameCounts ==
  ASSUME BaseInv, NEW now, Counted(now), UNCHANGED <<table, events, cleared>>
  PROVE  /\ \A k \in Keys : Listed(k)' = Listed(k) /\ Outstanding(k)' = Outstanding(k)
         /\ \A k \in Keys : /\ Recent(Outstanding(k)', now) \subseteq Listed(k)'
                            /\ Young(Outstanding(k)', now) <= Limit
  BY DEF Counted, Listed, Outstanding

LEMMA SerialStart ==
  ASSUME BaseInv, SerialInv, NEW t \in Threads, NEW k \in Keys, Start(t, k), ~raced'
  PROVE  SerialInv'
<1>1. TypeOK /\ Counted(clock) /\ PromiseInv /\ \A j \in Keys : Listed(j) \subseteq Outstanding(j)
  BY DEF BaseInv, SerialInv
<1>2. UNCHANGED <<table, clock, events, cleared, promise>> /\ \A o \in Threads : ~Active(o)
  BY DEF Start, Active
<1>3. /\ Others(t) /\ thread'[t].at = "prune" /\ thread'[t].now = clock
      /\ thread'[t].todo = DOMAIN table /\ ~thread'[t].orphan
  BY <1>1, StartStep
<1>4. /\ \A j \in Keys : Listed(j)' = Listed(j) /\ Outstanding(j)' = Outstanding(j)
      /\ Counted(clock)'
  BY <1>1, <1>2, SameCounts DEF Counted
<1>5. Counted(thread[t].now)'
  BY <1>2, <1>3, <1>4 DEF Counted
<1>6. RequestInv(thread[t])'
  BY <1>2, <1>3, <1>5 DEF RequestInv
<1>7. PromiseInv'
  BY <1>1, <1>2, KeptPromise
<1>8. QED
  BY <1>1, <1>2, <1>3, <1>4, <1>6, <1>7, SerialCombine

LEMMA SerialRead ==
  ASSUME BaseInv, SerialInv, NEW t \in Threads, NEW k \in Keys, Read(t, k)
  PROVE  SerialInv'
<1>1. /\ thread[t].at = "prune" /\ Look(t, k, "store") /\ UNCHANGED <<table, clock, events, cleared, promise>>
  BY DEF Read, history
<1>2. /\ TypeOK /\ Counted(clock) /\ PromiseInv
      /\ \A j \in Keys : Listed(j) \subseteq Outstanding(j)
      /\ \A o \in Threads \ {t} : ~Active(o)
      /\ RequestInv(thread[t]) /\ ~thread[t].orphan /\ Counted(thread[t].now)
  BY <1>1, Serial DEF BaseInv
<1>3. /\ Others(t) /\ thread'[t].at = "store" /\ thread'[t].now = thread[t].now
      /\ thread'[t].todo = thread[t].todo \ {k} /\ thread'[t].cursor = k
      /\ thread'[t].seen = Recent(Listed(k), thread[t].now) /\ thread'[t].orphan = thread[t].orphan
  BY <1>1, <1>2, LookStep
<1>4. /\ \A j \in Keys : Listed(j)' = Listed(j) /\ Outstanding(j)' = Outstanding(j)
      /\ Counted(clock)' /\ Counted(thread[t].now)'
  BY <1>1, <1>2, <1>3, SameCounts DEF Counted
<1>5. \A j \in DOMAIN table \ thread[t].todo :
        table[j] # {} /\ Recent(table[j], thread[t].now) = table[j]
  BY <1>1, <1>2 DEF RequestInv
<1>6. RequestInv(thread[t])'
  <2>1. thread'[t].seen = Recent(Listed(thread[t].cursor)', thread'[t].now)
    BY <1>3, <1>4
  <2>2. \A j \in DOMAIN table' \ thread'[t].todo :
          \/ thread'[t].at = "store" /\ j = thread'[t].cursor
          \/ table'[j] # {} /\ Recent(table'[j], thread'[t].now) = table'[j]
    BY <1>1, <1>3, <1>5
  <2>3. QED
    BY <1>2, <1>3, <1>4, <2>1, <2>2 DEF RequestInv
<1>7. PromiseInv'
  BY <1>1, <1>2, KeptPromise
<1>8. QED
  BY <1>2, <1>3, <1>4, <1>6, <1>7, SerialCombine

LEMMA SerialReadOwn ==
  ASSUME BaseInv, SerialInv, NEW t \in Threads, ReadOwn(t)
  PROVE  SerialInv'
<1> DEFINE k == thread[t].key
<1>1. /\ thread[t].at = "prune" /\ thread[t].todo = {} /\ Look(t, k, "own")
      /\ UNCHANGED <<table, clock, events, cleared, promise>>
  BY DEF ReadOwn, history
<1>2. /\ TypeOK /\ Counted(clock) /\ PromiseInv
      /\ \A j \in Keys : Listed(j) \subseteq Outstanding(j)
      /\ \A o \in Threads \ {t} : ~Active(o)
      /\ RequestInv(thread[t]) /\ ~thread[t].orphan /\ Counted(thread[t].now) /\ k \in Keys
  BY <1>1, Serial, BaseTyped
<1>3. /\ Others(t) /\ thread'[t].at = "own" /\ thread'[t].now = thread[t].now
      /\ thread'[t].key = k
      /\ thread'[t].todo = thread[t].todo \ {k}
      /\ thread'[t].seen = Recent(Listed(k), thread[t].now) /\ thread'[t].orphan = thread[t].orphan
  BY <1>1, <1>2, LookStep
<1> HIDE DEF k
<1>4. /\ \A j \in Keys : Listed(j)' = Listed(j) /\ Outstanding(j)' = Outstanding(j)
      /\ Counted(clock)' /\ Counted(thread[t].now)'
  BY <1>1, <1>2, <1>3, SameCounts DEF Counted
<1>5. \A j \in DOMAIN table : table[j] # {} /\ Recent(table[j], thread[t].now) = table[j]
  BY <1>1, <1>2 DEF RequestInv
<1>6. RequestInv(thread[t])'
  <2>1. thread'[t].seen = Recent(Listed(thread[t].key)', thread'[t].now) /\ thread'[t].todo = {}
    BY <1>1, <1>2, <1>3, <1>4
  <2>2. \A j \in DOMAIN table' : table'[j] # {} /\ Recent(table'[j], thread'[t].now) = table'[j]
    BY <1>1, <1>3, <1>5
  <2>3. QED
    BY <1>2, <1>3, <1>4, <2>1, <2>2 DEF RequestInv
<1>7. PromiseInv'
  BY <1>1, <1>2, KeptPromise
<1>8. QED
  BY <1>2, <1>3, <1>4, <1>6, <1>7, SerialCombine

LEMMA SerialStore ==
  ASSUME BaseInv, SerialInv, NEW t \in Threads, Store(t)
  PROVE  SerialInv'
<1> DEFINE c == thread[t].cursor
           now == thread[t].now
<1>1. /\ thread[t].at = "store" /\ UNCHANGED <<clock, events, cleared, promise>>
  BY DEF Store, history
<1>2. /\ TypeOK /\ Counted(clock) /\ PromiseInv
      /\ \A j \in Keys : Listed(j) \subseteq Outstanding(j)
      /\ \A o \in Threads \ {t} : ~Active(o)
      /\ now \in Nat /\ now <= clock
      /\ RequestInv(thread[t]) /\ ~thread[t].orphan /\ Counted(now) /\ c \in Keys
  BY <1>1, Serial, BaseTyped DEF CopyInv
<1>3. thread[t].seen = Recent(Listed(c), now)
  BY <1>1, <1>2 DEF RequestInv
<1>4. /\ Others(t) /\ table' = Pruned(c, Recent(Listed(c), now))
      /\ thread'[t].at = "prune" /\ thread'[t].now = now
      /\ thread'[t].todo = thread[t].todo /\ thread'[t].orphan = thread[t].orphan
  BY <1>2, <1>3, StoreStep
<1>5. \A j \in DOMAIN table \ thread[t].todo :
        j = c \/ (table[j] # {} /\ Recent(table[j], now) = table[j])
  BY <1>1, <1>2 DEF RequestInv
<1> HIDE DEF c, now
<1>6. /\ \A k \in Keys : /\ Listed(k)' \subseteq Outstanding(k)
                         /\ Recent(Outstanding(k), now) \subseteq Listed(k)'
                         /\ Recent(Outstanding(k), clock) \subseteq Listed(k)'
      /\ \A k \in DOMAIN table' :
           IF k = c THEN table'[k] # {} /\ Recent(table'[k], now) = table'[k]
           ELSE k \in DOMAIN table /\ table'[k] = table[k]
  BY <1>2, <1>4, PruneKeeps
<1>7. \A k \in Keys : Outstanding(k)' = Outstanding(k)
  BY <1>1 DEF Outstanding
<1>8. Counted(clock)' /\ Counted(thread[t].now)'
  BY <1>1, <1>2, <1>4, <1>6, <1>7 DEF Counted
<1>9. RequestInv(thread[t])'
  <2>1. \A j \in DOMAIN table' \ thread'[t].todo :
          table'[j] # {} /\ Recent(table'[j], thread'[t].now) = table'[j]
    BY <1>4, <1>5, <1>6
  <2>2. QED
    BY <1>2, <1>4, <1>8, <2>1 DEF RequestInv
<1>10. PromiseInv'
  BY <1>1, <1>2, KeptPromise
<1>11. QED
  BY <1>2, <1>4, <1>6, <1>7, <1>8, <1>9, <1>10, SerialCombine

\* Whoever is let through has room for one entry more.
LEMMA VerdictMeans ==
  ASSUME BaseInv, NEW k \in Keys, NEW now \in Nat, NEW seen, IsFiniteSet(seen),
         Recent(Outstanding(k), now) \subseteq seen, Verdict(seen) = "work"
  PROVE  Young(Outstanding(k), now) < Limit
<1>1. Cardinality(seen) \in Nat /\ Cardinality(seen) < Limit
  BY FS_CardinalityType DEF Verdict
<1>2. /\ Cardinality(Recent(Outstanding(k), now)) <= Cardinality(seen)
      /\ Cardinality(Recent(Outstanding(k), now)) \in Nat
  BY FS_Subset, FS_CardinalityType
<1>3. Young(Outstanding(k), now) = Cardinality(Recent(Outstanding(k), now))
  BY OutstandingYoung
<1>4. QED
  BY <1>1, <1>2, <1>3

LEMMA SerialDecideOwn ==
  ASSUME BaseInv, SerialInv, NEW t \in Threads, DecideOwn(t), NEW c, c = thread[t].key, NEW now, now = thread[t].now
  PROVE  SerialInv'
<1>1. /\ thread[t].at = "own" /\ UNCHANGED <<clock, events, cleared, promise>>
  BY DEF DecideOwn, history
<1>2. /\ TypeOK /\ Counted(clock) /\ PromiseInv
      /\ \A j \in Keys : Listed(j) \subseteq Outstanding(j)
      /\ \A o \in Threads \ {t} : ~Active(o)
      /\ now \in Nat /\ now <= clock
      /\ RequestInv(thread[t]) /\ ~thread[t].orphan /\ Counted(now) /\ c \in Keys
      /\ IsFiniteSet(events[c]) /\ thread[t].seen \subseteq events[c]
  BY <1>1, Serial, BaseTyped DEF CopyInv
<1>3. /\ thread[t].seen = Recent(Listed(c), now) /\ thread[t].todo = {}
      /\ \A j \in DOMAIN table : table[j] # {} /\ Recent(table[j], now) = table[j]
  BY <1>1, <1>2 DEF RequestInv
<1>4. /\ Others(t) /\ table' = Pruned(c, Recent(Listed(c), now))
      /\ thread'[t].at = Verdict(thread[t].seen) /\ thread'[t].now = now /\ thread'[t].key = c
      /\ thread'[t].seen = thread[t].seen
      /\ thread'[t].todo = thread[t].todo /\ thread'[t].orphan = thread[t].orphan
  BY <1>2, <1>3, DecideOwnStep
<1>5. IsFiniteSet(thread[t].seen)
  BY <1>2, FS_Subset
<1>6. /\ \A k \in Keys : /\ Listed(k)' \subseteq Outstanding(k)
                         /\ Recent(Outstanding(k), now) \subseteq Listed(k)'
                         /\ Recent(Outstanding(k), clock) \subseteq Listed(k)'
                         /\ k = c => Listed(k)' = Recent(Listed(k), now)
      /\ \A k \in DOMAIN table' :
           IF k = c THEN table'[k] # {} /\ Recent(table'[k], now) = table'[k]
           ELSE k \in DOMAIN table /\ table'[k] = table[k]
  BY <1>2, <1>4, PruneKeeps
<1>7. \A k \in Keys : Outstanding(k)' = Outstanding(k)
  BY <1>1 DEF Outstanding
<1>8. Counted(clock)' /\ Counted(thread[t].now)'
  BY <1>1, <1>2, <1>4, <1>6, <1>7 DEF Counted
<1>9. RequestInv(thread[t])'
  <2>1. \A j \in DOMAIN table' : table'[j] # {} /\ Recent(table'[j], now) = table'[j]
    BY <1>3, <1>6
  <2>2. Listed(c)' = thread[t].seen /\ Recent(Listed(c)', now) = thread[t].seen
    <3>1. Recent(Recent(Listed(c), now), now) = Recent(Listed(c), now)
      BY RecentTwice
    <3>2. Listed(c)' = Recent(Listed(c), now)
      BY <1>2, <1>6
    <3>3. QED
      BY <1>3, <3>1, <3>2
  <2>3. thread'[t].at = "work" => Young(Outstanding(c), now) < Limit
    BY <1>2, <1>4, <1>5, <1>6, <2>2, VerdictMeans
  <2>4. thread'[t].at \in {"refused", "work"}
    BY <1>4 DEF Verdict
  <2>5. QED
    BY <1>2, <1>3, <1>4, <1>7, <1>8, <2>1, <2>2, <2>3, <2>4 DEF RequestInv
<1>10. PromiseInv'
  BY <1>1, <1>2, KeptPromise
<1>11. QED
  BY <1>2, <1>4, <1>6, <1>7, <1>8, <1>9, <1>10, SerialCombine

LEMMA SerialDecideRegistration ==
  ASSUME BaseInv, SerialInv, NEW t \in Threads, DecideRegistration(t), NEW c, c = thread[t].key, NEW now, now = thread[t].now
  PROVE  SerialInv'
<1>1. /\ thread[t].at = "prune" /\ thread[t].todo = {}
      /\ UNCHANGED <<table, clock, events, cleared, promise>>
  BY DEF DecideRegistration, history
<1>2. /\ TypeOK /\ Counted(clock) /\ PromiseInv
      /\ \A j \in Keys : Listed(j) \subseteq Outstanding(j)
      /\ \A o \in Threads \ {t} : ~Active(o)
      /\ now \in Nat /\ now <= clock
      /\ RequestInv(thread[t]) /\ ~thread[t].orphan /\ Counted(now) /\ c \in Keys
      /\ IsFiniteSet(events[c]) /\ Listed(c) \subseteq events[c]
  BY <1>1, Serial, BaseTyped
<1>3. \A j \in DOMAIN table : table[j] # {} /\ Recent(table[j], now) = table[j]
  BY <1>1, <1>2 DEF RequestInv
<1>4. /\ Others(t) /\ thread'[t].at = Verdict(Listed(c)) /\ thread'[t].now = now /\ thread'[t].key = c
      /\ thread'[t].seen = Listed(c)
      /\ thread'[t].todo = thread[t].todo /\ thread'[t].orphan = thread[t].orphan
  BY <1>2, DecideRegistrationStep
<1>5. IsFiniteSet(Listed(c))
  BY <1>2, FS_Subset
<1>6. Recent(Listed(c), now) = Listed(c)
  BY <1>3 DEF Listed, Recent
<1>7. /\ \A j \in Keys : Listed(j)' = Listed(j) /\ Outstanding(j)' = Outstanding(j)
      /\ Counted(clock)' /\ Counted(thread[t].now)'
  BY <1>1, <1>2, <1>4, SameCounts DEF Counted
<1>8. RequestInv(thread[t])'
  <2>1. \A j \in DOMAIN table' : table'[j] # {} /\ Recent(table'[j], now) = table'[j]
    BY <1>1, <1>3
  <2>2. thread'[t].at = "work" => Young(Outstanding(c), now) < Limit
    BY <1>2, <1>4, <1>5, VerdictMeans DEF Counted
  <2>3. thread'[t].at \in {"refused", "work"} /\ thread'[t].todo = {}
    BY <1>1, <1>4 DEF Verdict
  <2>4. QED
    BY <1>2, <1>4, <1>6, <1>7, <2>1, <2>2, <2>3 DEF RequestInv
<1>9. PromiseInv'
  BY <1>1, <1>2, KeptPromise
<1>10. QED
  BY <1>2, <1>4, <1>7, <1>8, <1>9, SerialCombine

LEMMA SerialCounts ==
  ASSUME BaseInv, SerialInv, NEW t \in Threads, Counts(t), NEW c, c = thread[t].key, NEW now, now = thread[t].now,
         NEW entries, entries = Listed(c)
  PROVE  SerialInv'
<1>1. /\ thread[t].at = "work" /\ UNCHANGED <<clock, events, cleared, promise>>
  BY DEF Counts, history
<1>2. /\ TypeOK /\ Counted(clock) /\ PromiseInv
      /\ \A j \in Keys : Listed(j) \subseteq Outstanding(j)
      /\ \A o \in Threads \ {t} : ~Active(o)
      /\ RequestInv(thread[t]) /\ ~thread[t].orphan /\ Counted(now) /\ c \in Keys
      /\ entries \in Entries
  BY <1>1, Serial, BaseTyped
<1>3. Young(Outstanding(c), now) < Limit
  BY <1>1, <1>2 DEF RequestInv
<1>4. /\ Others(t) /\ table' = With(c, entries)
      /\ thread'[t].at = "append" /\ thread'[t].now = now /\ thread'[t].key = c
      /\ thread'[t].orphan = thread[t].orphan
  BY <1>2, CountsStep
<1>5. \A j \in Keys : Listed(j)' = IF j = c THEN entries ELSE Listed(j)
  <2>1. TypeOK /\ c \in Keys /\ entries \in Entries /\ table' = With(c, entries)
    BY <1>2, <1>4
  <2>2. QED
    BY <2>1 DEF With, Listed
<1>6. /\ \A j \in Keys : Listed(j)' = Listed(j) /\ Outstanding(j)' = Outstanding(j)
  BY <1>1, <1>5 DEF Outstanding
<1>7. Counted(clock)' /\ Counted(thread[t].now)'
  BY <1>1, <1>2, <1>4, <1>6 DEF Counted
<1>8. RequestInv(thread[t])'
  BY <1>2, <1>3, <1>4, <1>6, <1>7 DEF RequestInv
<1>9. PromiseInv'
  BY <1>1, <1>2, KeptPromise
<1>10. QED
  BY <1>2, <1>4, <1>6, <1>7, <1>8, <1>9, SerialCombine

LEMMA IdleRequest ==
  ASSUME NEW t \in Threads, thread'[t] = Idle
  PROVE  RequestInv(thread[t])'
<1>1. thread'[t].at = "idle"
  BY IdleType
<1>2. QED
  BY <1>1 DEF RequestInv

LEMMA SerialEnd ==
  ASSUME BaseInv, SerialInv, NEW t \in Threads, KeyVanished(t) \/ EmailTaken(t)
  PROVE  SerialInv'
<1>1. /\ thread' = [thread EXCEPT ![t] = Idle] /\ thread[t].at # "idle"
      /\ UNCHANGED <<table, clock, events, cleared, promise>>
  BY DEF KeyVanished, EmailTaken, history
<1>2. /\ TypeOK /\ Counted(clock) /\ PromiseInv
      /\ \A j \in Keys : Listed(j) \subseteq Outstanding(j)
      /\ \A o \in Threads \ {t} : ~Active(o)
  BY <1>1, Serial DEF BaseInv
<1>3. Others(t) /\ thread'[t] = Idle
  BY <1>1, <1>2, EndStep
<1>4. /\ \A j \in Keys : Listed(j)' = Listed(j) /\ Outstanding(j)' = Outstanding(j)
      /\ Counted(clock)'
  BY <1>1, <1>2, SameCounts DEF Counted
<1>5. RequestInv(thread[t])' /\ PromiseInv'
  BY <1>1, <1>2, <1>3, IdleRequest, KeptPromise
<1>6. QED
  BY <1>2, <1>3, <1>4, <1>5, SerialCombine

LEMMA SerialSignIn ==
  ASSUME BaseInv, SerialInv, NEW t \in Threads, SignIn(t), NEW c, c = thread[t].key
  PROVE  SerialInv'
<1>1. /\ thread[t].at = "work" /\ UNCHANGED <<clock, events, promise>>
  BY DEF SignIn
<1>2. /\ TypeOK /\ Counted(clock) /\ PromiseInv
      /\ \A j \in Keys : Listed(j) \subseteq Outstanding(j)
      /\ \A o \in Threads \ {t} : ~Active(o)
      /\ c \in Keys
  BY <1>1, Serial, BaseTyped
<1>3. /\ Others(t) /\ thread'[t] = Idle /\ table' = Without(c)
      /\ cleared' = [cleared EXCEPT ![c] = events[c]]
  BY <1>2, SignInStep
<1>4. \A j \in Keys : Listed(j)' = IF j = c THEN {} ELSE Listed(j)
  <2>1. TypeOK /\ c \in Keys /\ table' = Without(c)
    BY <1>2, <1>3
  <2>2. QED
    BY <2>1, WithoutList
<1>5. \A j \in Keys : Outstanding(j)' = IF j = c THEN {} ELSE Outstanding(j)
  BY <1>1, <1>2, <1>3 DEF Outstanding, TypeOK
<1>6. \A now : Recent({}, now) = {} /\ Young({}, now) = 0
  BY FS_EmptySet DEF Recent, Young
<1>7. Limit > 0
  OBVIOUS
<1>8. Counted(clock)'
  BY <1>1, <1>2, <1>4, <1>5, <1>6, <1>7 DEF Counted
<1>9. PromiseInv'
  BY <1>1, <1>2, <1>5, <1>6, <1>7 DEF PromiseInv
<1>10. \A j \in Keys : Listed(j)' \subseteq Outstanding(j)'
  BY <1>2, <1>4, <1>5
<1>11. RequestInv(thread[t])'
  BY <1>3, IdleRequest
<1>12. QED
  BY <1>2, <1>3, <1>8, <1>9, <1>10, <1>11, SerialCombine

\* Nobody has more on record than the limit, and by the time a refused client is
\* told, the oldest of that counts no more.
LEMMA SerialRefuse ==
  ASSUME BaseInv, SerialInv, NEW t \in Threads, Refuse(t),
         NEW c, c = thread[t].key, NEW now, now = thread[t].now, NEW seen, seen = thread[t].seen,
         NEW p, p = clock + Unit * RetryAfter(thread[t])
  PROVE  SerialInv'
<1>1. /\ thread[t].at = "refused" /\ thread' = [thread EXCEPT ![t] = Idle]
      /\ promise' = [promise EXCEPT ![c] = p] /\ UNCHANGED <<table, clock, events, cleared>>
  BY DEF Refuse
<1>2. /\ TypeOK /\ Counted(clock) /\ PromiseInv
      /\ \A j \in Keys : Listed(j) \subseteq Outstanding(j)
      /\ \A o \in Threads \ {t} : ~Active(o)
      /\ now \in Nat /\ now <= clock /\ clock \in Nat
      /\ RequestInv(thread[t]) /\ Counted(now) /\ c \in Keys /\ seen \in Entries
  BY <1>1, Serial, BaseTyped
<1>3. p \in Nat /\ \E e \in seen : p - e.at >= Window
  BY <1>1, PromiseIsLate
<1>4. PICK e \in seen : p - e.at >= Window
  BY <1>3
<1>5. seen = Recent(Listed(c), now)
  BY <1>1, <1>2 DEF RequestInv
<1>6. e \in Outstanding(c) /\ now - e.at < Window /\ e.at \in Nat
  BY <1>2, <1>5 DEF Recent, Entries, Entry, Time
<1>7. p >= now
  BY <1>2, <1>3, <1>4, <1>6
<1>8. Young(Outstanding(c), p) < Limit
  <2> DEFINE S == Recent(Outstanding(c), now)
             T == Recent(Outstanding(c), p)
  <2>1. /\ IsFiniteSet(Outstanding(c)) /\ T \subseteq S
        /\ Young(Outstanding(c), now) \in Nat /\ Young(Outstanding(c), p) \in Nat
        /\ Young(Outstanding(c), now) = Cardinality(S)
    BY <1>2, <1>3, <1>7, OutstandingYoung
  <2>2. e \in S /\ e \notin T
    BY <1>3, <1>4, <1>6 DEF Recent
  <2>3. IsFiniteSet(S) /\ Young(Outstanding(c), p) = Cardinality(T)
    BY <2>1, YoungSize
  <2>4. Young(Outstanding(c), now) <= Limit
    BY <1>2 DEF Counted
  <2> HIDE DEF S, T
  <2>5. Cardinality(T) < Cardinality(S)
    BY <2>1, <2>2, <2>3, FS_Subset, FS_CardinalityType
  <2>6. QED
    BY <2>1, <2>3, <2>4, <2>5
<1>9. Others(t) /\ thread'[t] = Idle
  BY <1>1, <1>2, EndStep
<1>10. /\ \A j \in Keys : Listed(j)' = Listed(j) /\ Outstanding(j)' = Outstanding(j)
       /\ Counted(clock)'
  BY <1>1, <1>2, SameCounts DEF Counted
<1>11. PromiseInv'
  <2>1. \A j \in Keys : promise'[j] = IF j = c THEN p ELSE promise[j]
    BY <1>1, <1>2 DEF TypeOK
  <2>2. QED
    BY <1>2, <1>8, <1>10, <2>1 DEF PromiseInv
<1>12. RequestInv(thread[t])'
  BY <1>9, IdleRequest
<1>13. QED
  BY <1>2, <1>9, <1>10, <1>11, <1>12, SerialCombine

LEMMA SerialAppend ==
  ASSUME BaseInv, SerialInv, NEW t \in Threads, AppendTime(t),
         NEW c, c = thread[t].key, NEW now, now = thread[t].now, NEW e, e = NewEntry(c)
  PROVE  SerialInv'
<1>1. thread[t].at = "append"
  BY DEF AppendTime
<1>2. /\ TypeOK /\ Counted(clock) /\ PromiseInv
      /\ \A j \in Keys : Listed(j) \subseteq Outstanding(j)
      /\ \A o \in Threads \ {t} : ~Active(o)
      /\ now \in Nat /\ now <= clock /\ clock \in Nat
      /\ RequestInv(thread[t]) /\ ~thread[t].orphan
  BY <1>1, Serial, BaseTyped
<1>3. Young(Outstanding(c), now) < Limit
  BY <1>1, <1>2 DEF RequestInv
<1>4. /\ c \in Keys /\ e.at = clock /\ e \notin events[c]
      /\ Others(t) /\ thread'[t] = Idle
      /\ \A j \in Keys : Listed(j)' = IF j = c /\ ~thread[t].orphan THEN Listed(j) \union {e} ELSE Listed(j)
      /\ events' = [events EXCEPT ![c] = @ \union {e}]
      /\ promise' = [promise EXCEPT ![c] = None]
      /\ UNCHANGED <<clock, cleared>>
  BY AppendStep
<1>5. \A j \in Keys : Listed(j)' = IF j = c THEN Listed(j) \union {e} ELSE Listed(j)
  BY <1>2, <1>4
<1>6. \A j \in Keys : Outstanding(j)' = IF j = c THEN Outstanding(j) \union {e} ELSE Outstanding(j)
  BY <1>2, <1>4 DEF Outstanding, TypeOK
<1>7. Young(Outstanding(c) \union {e}, clock) <= Limit
  <2> DEFINE S == Recent(Outstanding(c), clock)
  <2>1. /\ IsFiniteSet(Outstanding(c))
        /\ Young(Outstanding(c), clock) <= Young(Outstanding(c), now)
        /\ Young(Outstanding(c), clock) \in Nat /\ Young(Outstanding(c), now) \in Nat
    BY <1>2, <1>4, OutstandingYoung
  <2>2. Recent(Outstanding(c) \union {e}, clock) = S \union {e}
    BY <1>2, <1>4 DEF Recent
  <2>3. IsFiniteSet(S) /\ Young(Outstanding(c), clock) = Cardinality(S)
    BY <2>1, YoungSize
  <2>4. Young(Outstanding(c) \union {e}, clock) = Cardinality(S \union {e})
    BY <2>2 DEF Young, Recent
  <2>5. e \notin S
    BY <1>4 DEF Recent, Outstanding
  <2> HIDE DEF S
  <2>6. Cardinality(S \union {e}) = Cardinality(S) + 1
    BY <2>3, <2>5, FS_AddElement
  <2>7. QED
    BY <1>3, <2>1, <2>3, <2>4, <2>6
<1>8. Counted(clock)'
  <2>1. ASSUME NEW j \in Keys
        PROVE  /\ Recent(Outstanding(j)', clock) \subseteq Listed(j)'
               /\ Young(Outstanding(j)', clock) <= Limit
    <3>1. CASE j = c
      BY <1>2, <1>4, <1>5, <1>6, <1>7, <3>1 DEF Counted, Recent
    <3>2. CASE j # c
      BY <1>2, <1>5, <1>6, <3>2 DEF Counted
    <3>3. QED
      BY <3>1, <3>2
  <2>2. QED
    BY <1>4, <2>1 DEF Counted
<1>9. PromiseInv'
  <2>1. \A j \in Keys : promise'[j] = IF j = c THEN None ELSE promise[j]
    BY <1>2, <1>4 DEF TypeOK
  <2>2. QED
    BY <1>2, <1>6, <2>1 DEF PromiseInv
<1>10. \A j \in Keys : Listed(j)' \subseteq Outstanding(j)'
  BY <1>2, <1>5, <1>6
<1>11. RequestInv(thread[t])'
  BY <1>4, IdleRequest
<1>12. QED
  BY <1>2, <1>4, <1>8, <1>9, <1>10, <1>11, SerialCombine

LEMMA SerialTick ==
  ASSUME BaseInv, SerialInv, Tick
  PROVE  SerialInv'
<1>1. /\ clock' = clock + 1 /\ clock \in Nat /\ clock' \in Nat
      /\ UNCHANGED <<table, thread, events, cleared, promise>>
  BY DEF Tick, history, BaseInv, TypeOK, Time
<1>2. \A j \in Keys : Listed(j)' = Listed(j) /\ Outstanding(j)' = Outstanding(j)
  BY <1>1 DEF Listed, Outstanding
<1>3. Counted(clock)'
  <2>1. ASSUME NEW j \in Keys
        PROVE  /\ Recent(Outstanding(j), clock') \subseteq Listed(j)
               /\ Young(Outstanding(j), clock') <= Limit
    <3>1. /\ Recent(Outstanding(j), clock') \subseteq Recent(Outstanding(j), clock)
          /\ Young(Outstanding(j), clock') <= Young(Outstanding(j), clock)
          /\ Young(Outstanding(j), clock') \in Nat /\ Young(Outstanding(j), clock) \in Nat
      BY <1>1, OutstandingYoung
    <3>2. Recent(Outstanding(j), clock) \subseteq Listed(j) /\ Young(Outstanding(j), clock) <= Limit
      BY DEF SerialInv, Counted
    <3>3. QED
      BY <3>1, <3>2
  <2>2. QED
    BY <1>2, <2>1 DEF Counted
<1>4. AloneInv' /\ PromiseInv'
  BY <1>1, <1>2 DEF SerialInv, AloneInv, Active, PromiseInv
<1>5. ASSUME NEW t \in Threads PROVE RequestInv(thread[t])'
  <2>1. RequestInv(thread[t])
    BY DEF SerialInv
  <2>2. QED
    BY <1>1, <2>1 DEF RequestInv, Counted, Listed, Outstanding
<1>6. QED
  BY <1>2, <1>3, <1>4, <1>5 DEF SerialInv
-----------------------------------------------------------------------------
\* A process that has just started has counted nothing and promised nothing.
LEMMA FreshSerial ==
  ASSUME table = [k \in {} |-> {}], thread = [t \in Threads |-> Idle],
         events = [k \in Keys |-> {}], promise = [k \in Keys |-> None]
  PROVE  SerialInv
<1>1. \A t \in Threads : thread[t].at = "idle"
  BY IdleType
<1>2. \A k \in Keys : Listed(k) = {} /\ Outstanding(k) = {} /\ promise[k] = None
  BY DEF Listed, Outstanding
<1>3. \A now : Recent({}, now) = {} /\ Young({}, now) = 0
  BY FS_EmptySet DEF Recent, Young
<1>4. Counted(clock)
  <2>1. \A k \in Keys : Recent(Outstanding(k), clock) = {} /\ Young(Outstanding(k), clock) = 0
    BY <1>2, <1>3
  <2>2. QED
    BY <1>2, <2>1 DEF Counted
<1>5. AloneInv /\ PromiseInv /\ \A t \in Threads : RequestInv(thread[t])
  BY <1>1, <1>2 DEF AloneInv, Active, PromiseInv, RequestInv
<1>6. QED
  BY <1>2, <1>4, <1>5 DEF SerialInv

LEMMA InvInit == Init => Inv
<1> SUFFICES ASSUME Init PROVE Inv
  OBVIOUS
<1>1. /\ table = [k \in {} |-> {}] /\ thread = [t \in Threads |-> Idle]
      /\ events = [k \in Keys |-> {}] /\ cleared = [k \in Keys |-> {}]
      /\ promise = [k \in Keys |-> None] /\ raced = FALSE /\ kind \in Kinds /\ clock \in Time
  <2>1. clock \in Time
    BY DEF Init, Time
  <2>2. QED
    BY <2>1 DEF Init
<1>2. QED
  BY <1>1, BaseFresh, FreshSerial DEF Inv

LEMMA SerialStep ==
  ASSUME BaseInv, SerialInv, NEW t \in Threads, Step(t), ~raced'
  PROVE  SerialInv'
<1>1. ASSUME NEW k \in Keys, Start(t, k) \/ Read(t, k) PROVE SerialInv'
  BY <1>1, SerialStart, SerialRead
<1>2. CASE KeyVanished(t) \/ EmailTaken(t)
  BY <1>2, SerialEnd
<1>3. CASE Store(t) \/ ReadOwn(t)
  BY <1>3, SerialStore, SerialReadOwn
<1>4. CASE DecideOwn(t)
  BY <1>4, SerialDecideOwn
<1>5. CASE DecideRegistration(t)
  BY <1>5, SerialDecideRegistration
<1>6. CASE Refuse(t)
  BY <1>6, SerialRefuse
<1>7. CASE Counts(t)
  BY <1>7, SerialCounts
<1>8. CASE SignIn(t)
  BY <1>8, SerialSignIn
<1>9. CASE AppendTime(t)
  BY <1>9, SerialAppend
<1>10. QED
  BY <1>1, <1>2, <1>3, <1>4, <1>5, <1>6, <1>7, <1>8, <1>9 DEF Step

LEMMA InvNext == Inv /\ [Next]_vars => Inv'
<1> SUFFICES ASSUME Inv, [Next]_vars PROVE Inv'
  OBVIOUS
<1>1. BaseInv /\ BaseInv'
  BY BaseNext DEF Inv
<1>2. ASSUME ~raced' PROVE SerialInv'
  <2>1. CASE Restart
    <3>1. /\ table' = [k \in {} |-> {}] /\ thread' = [t \in Threads |-> Idle]
          /\ events' = [k \in Keys |-> {}] /\ promise' = [k \in Keys |-> None]
      BY <2>1 DEF Restart
    <3>2. \A t \in Threads : thread'[t].at = "idle"
      BY <3>1, IdleType
    <3>3. \A k \in Keys : Listed(k)' = {} /\ Outstanding(k)' = {} /\ promise'[k] = None
      BY <3>1 DEF Listed, Outstanding
    <3>4. \A now : Recent({}, now) = {} /\ Young({}, now) = 0
      BY FS_EmptySet DEF Recent, Young
    <3>5. Counted(clock)'
      BY <3>3, <3>4 DEF Counted
    <3>6. AloneInv' /\ PromiseInv' /\ \A t \in Threads : RequestInv(thread[t])'
      BY <3>2, <3>3 DEF AloneInv, Active, PromiseInv, RequestInv
    <3>7. QED
      BY <3>3, <3>5, <3>6 DEF SerialInv
  <2>2. CASE Tick
    <3>1. ~raced
      BY <1>2, <2>2 DEF Tick, history
    <3>2. QED
      BY <1>1, <2>2, <3>1, SerialTick DEF Inv
  <2>3. ASSUME NEW t \in Threads, Step(t) PROVE SerialInv'
    <3>1. ~raced
      BY <1>1, <1>2, <2>3 DEF Step, Start, Read, KeyVanished, Store, ReadOwn, DecideOwn, DecideRegistration,
         Refuse, Counts, SignIn, EmailTaken, AppendTime, history, BaseInv, TypeOK
    <3>2. QED
      BY <1>1, <1>2, <2>3, <3>1, SerialStep DEF Inv
  <2>4. CASE UNCHANGED vars
    <3>1. UNCHANGED <<kind, table, thread, clock, events, cleared, promise, raced>>
      BY <2>4 DEF vars, history
    <3>2. SerialInv
      BY <1>2, <3>1 DEF Inv
    <3>3. \A k \in Keys : Listed(k)' = Listed(k) /\ Outstanding(k)' = Outstanding(k)
      BY <3>1 DEF Listed, Outstanding
    <3>4. Counted(clock)' /\ AloneInv' /\ PromiseInv'
      BY <3>1, <3>2, <3>3 DEF SerialInv, AloneInv, Active, PromiseInv, Counted
    <3>5. ASSUME NEW t \in Threads PROVE RequestInv(thread[t])'
      <4>1. RequestInv(thread[t])
        BY <3>2 DEF SerialInv
      <4>2. QED
        BY <3>1, <3>3, <4>1 DEF RequestInv, Counted, Listed, Outstanding
    <3>6. QED
      BY <3>2, <3>3, <3>4, <3>5 DEF SerialInv
  <2>5. QED
    BY <2>1, <2>2, <2>3, <2>4 DEF Next
<1>3. QED
  BY <1>1, <1>2 DEF Inv

THEOREM Invariant == Spec => []Inv
  BY InvInit, InvNext, PTL DEF Spec

\* Every state is of its type: in particular what a refused client is told is a
\* time, also when the list it was refused for is an old one that has come back.
THEOREM TypeCorrect == Spec => []TypeOK
<1>1. Inv => TypeOK
  BY DEF Inv, BaseInv
<1>2. QED
  BY <1>1, Invariant, PTL

\* check_login_allowed, check_registration_allowed and the limit of analyses let
\* no more through in any window than they say, while no two requests overlap.
THEOREM Limits == Spec => []LimitHolds
<1>1. Inv => LimitHolds
  BY DEF Inv, SerialInv, Counted, LimitHolds
<1>2. QED
  BY <1>1, Invariant, PTL

\* However requests overlap, who is refused has used the limit up within the
\* window; for registrations, while they do not overlap.
THEOREM Causes == Spec => []RefusedForCause
<1>1. Inv => RefusedForCause
  <2> SUFFICES ASSUME Inv, ~(kind = "register" /\ raced), NEW t \in Threads, thread[t].at = "refused"
               PROVE  Young(events[thread[t].key], thread[t].now) >= Limit
    BY DEF RefusedForCause
  <2> DEFINE q == thread[t]
  <2>1. /\ CopyInv(q) /\ q.key \in Keys /\ q.seen \in Entries
        /\ IsFiniteSet(events[q.key])
    BY BaseTyped DEF Inv
  <2>2. q.seen \subseteq events[q.key] /\ Cardinality(q.seen) >= Limit
    BY <2>1 DEF CopyInv
  <2>3. Recent(q.seen, q.now) = q.seen
    <3>1. CASE kind # "register"
      BY <2>1, <3>1 DEF CopyInv
    <3>2. CASE ~raced
      <4>1. q.seen = Recent(Listed(q.key), q.now)
        BY <3>2 DEF Inv, SerialInv, RequestInv
      <4>2. QED
        BY <4>1, RecentTwice
    <3>3. QED
      BY <3>1, <3>2
  <2> HIDE DEF q
  <2>4. q.seen \subseteq Recent(events[q.key], q.now)
    BY <2>2, <2>3 DEF Recent
  <2>5. /\ Young(events[q.key], q.now) = Cardinality(Recent(events[q.key], q.now))
        /\ IsFiniteSet(Recent(events[q.key], q.now))
    BY <2>1, YoungSize
  <2>6. /\ Cardinality(q.seen) <= Cardinality(Recent(events[q.key], q.now))
        /\ Cardinality(q.seen) \in Nat /\ Cardinality(Recent(events[q.key], q.now)) \in Nat
    BY <2>4, <2>5, FS_Subset, FS_CardinalityType
  <2>7. Young(events[q.key], q.now) >= Limit
    BY <2>2, <2>5, <2>6
  <2>8. QED
    BY <2>7 DEF q
<1>2. QED
  BY <1>1, Invariant, PTL

\* A client that waits as long as Retry-After says is not refused again, rounded
\* as it is to whole units, while requests do not overlap.
THEOREM RetryAfterIsEnough == Spec => []RetryAfterSuffices
<1>1. Inv => RetryAfterSuffices
  <2> SUFFICES ASSUME Inv, ~raced, NEW t \in Threads, thread[t].at = "refused",
                      promise[thread[t].key] # None, ~(thread[t].now < promise[thread[t].key])
               PROVE  FALSE
    BY DEF RetryAfterSuffices
  <2> DEFINE q == thread[t]
             k == q.key
  <2>1. /\ BaseInv /\ k \in Keys /\ q.now \in Nat /\ promise[k] \in Nat
        /\ Cardinality(q.seen) >= Limit
    <3>1. BaseInv
      BY DEF Inv
    <3>2. CopyInv(q) /\ k \in Keys /\ q.now \in Nat /\ TypeOK
      BY <3>1, BaseTyped
    <3>3. promise[k] \in Nat
      BY <3>2 DEF TypeOK
    <3>4. Cardinality(q.seen) >= Limit
      BY <3>2 DEF CopyInv
    <3>5. QED
      BY <3>1, <3>2, <3>3, <3>4
  <2>2. /\ Counted(clock) /\ Listed(k) \subseteq Outstanding(k) /\ RequestInv(q)
        /\ Young(Outstanding(k), promise[k]) < Limit
    BY <2>1 DEF Inv, SerialInv, PromiseInv
  <2>3. q.seen = Recent(Listed(k), q.now)
    BY <2>2 DEF RequestInv
  <2>4. promise[k] <= q.now
    BY <2>1
  <2> HIDE DEF k
  <2>5. /\ Young(Outstanding(k), q.now) <= Young(Outstanding(k), promise[k])
        /\ Young(Outstanding(k), q.now) \in Nat /\ Young(Outstanding(k), promise[k]) \in Nat
        /\ IsFiniteSet(Outstanding(k))
    BY <2>1, <2>4, OutstandingYoung
  <2>6. q.seen \subseteq Recent(Outstanding(k), q.now)
    BY <2>2, <2>3 DEF Recent
  <2>7. /\ Young(Outstanding(k), q.now) = Cardinality(Recent(Outstanding(k), q.now))
        /\ IsFiniteSet(Recent(Outstanding(k), q.now))
    BY <2>5, YoungSize
  <2>8. /\ Cardinality(q.seen) <= Cardinality(Recent(Outstanding(k), q.now))
        /\ Cardinality(q.seen) \in Nat
    BY <2>6, <2>7, FS_Subset, FS_CardinalityType
  <2>9. QED
    BY <2>1, <2>2, <2>5, <2>7, <2>8
<1>2. QED
  BY <1>1, Invariant, PTL

\* _prune_attempts keeps no key that has nothing recent, while requests do not
\* overlap: the dictionary grows no larger than what happened in one window.
THEOREM Forgetting == Spec => []OldKeysAreForgotten
<1>1. Inv => OldKeysAreForgotten
  <2> SUFFICES ASSUME Inv, ~raced, NEW t \in Threads, thread[t].at \in {"refused", "work"},
                      NEW k \in DOMAIN table
               PROVE  Young(table[k], thread[t].now) > 0
    BY DEF OldKeysAreForgotten
  <2>1. k \in Keys /\ IsFiniteSet(table[k])
    <3>1. k \in Keys /\ Listed(k) = table[k]
      BY DEF Inv, BaseInv, TypeOK, Listed
    <3>2. IsFiniteSet(events[k]) /\ Listed(k) \subseteq events[k]
      BY <3>1 DEF Inv, BaseInv, RecordInv
    <3>3. QED
      BY <3>1, <3>2, FS_Subset
  <2>2. RequestInv(thread[t])
    BY DEF Inv, SerialInv
  <2>3. table[k] # {} /\ Recent(table[k], thread[t].now) = table[k]
    BY <2>2 DEF RequestInv
  <2>4. Young(table[k], thread[t].now) = Cardinality(table[k])
    BY <2>1, <2>3, YoungSize
  <2>5. Cardinality(table[k]) \in Nat /\ Cardinality(table[k]) # 0
    BY <2>1, <2>3, FS_EmptySet, FS_CardinalityType
  <2>6. QED
    BY <2>4, <2>5
<1>2. QED
  BY <1>1, Invariant, PTL
=============================================================================
