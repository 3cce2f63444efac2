------------------------------ MODULE Throttle ------------------------------
(***************************************************************************)
(* The limits a process keeps in a dictionary of lists of times: failed     *)
(* sign-ins and registrations (app/auth.py) and AI analyses                 *)
(* (app/ai_advisor.py).  Every request looks through the dictionary, decides,*)
(* and adds its own time later; requests run in threads, without a lock.    *)
(* Nothing depends on the order of a list but on how long it is and on its  *)
(* least time, so a list is the set of its entries.                         *)
(* Times are in ticks, of which Unit make a second or, for analyses, a      *)
(* minute of the message.                                                   *)
(***************************************************************************)
EXTENDS Integers, FiniteSets, FiniteSetsExt

CONSTANTS
  Kinds,    \* the dictionaries: "login", "register", "analysis"
  Keys,     \* an address and client, a client, or an account
  Threads,  \* threads of one process
  Limit,    \* MAX_FAILED_ATTEMPTS, MAX_REGISTRATIONS_PER_IP, MAX_CALLS_PER_HOUR
  Window,   \* the time after which an entry no longer counts
  Unit,
  MaxTime,  \* bound: the clock
  MaxEvents,\* bound: entries recorded since the process started
  None

ASSUME ThrottleAssumption ==
  /\ Kinds \subseteq {"login", "register", "analysis"}
  /\ Limit \in Nat \ {0} /\ Window \in Nat \ {0} /\ Unit \in Nat \ {0} /\ MaxTime \in Nat /\ MaxEvents \in Nat

VARIABLES
  kind,     \* which of the dictionaries: they do not touch each other
  table,    \* the dictionary
  thread,   \* the requests
  clock,    \* time.monotonic
  events,   \* history: everything that had to be recorded
  cleared,  \* history: what of it a successful sign-in has made irrelevant
  promise,  \* history: when a refused client was told it may come back
  raced     \* history: two requests have overlapped

history == <<events, cleared, promise, raced>>
vars == <<kind, table, thread, clock, history>>
-----------------------------------------------------------------------------
Time == 0 .. MaxTime
Maybe(S) == S \union {None}

\* The how manieth of a key it is, and when.
Entry == [nth : Nat \ {0}, at : Time]
Entries == SUBSET Entry

ASSUME NoneAssumption == None \notin Nat

Request == [at : {"idle", "prune", "store", "own", "refused", "work", "append"},
            key : Maybe(Keys), now : Time, todo : SUBSET Keys, cursor : Maybe(Keys), seen : Entries,
            orphan : BOOLEAN]

TypeOK ==
  /\ kind \in Kinds
  /\ DOMAIN table \subseteq Keys /\ table \in [DOMAIN table -> Entries]
  /\ thread \in [Threads -> Request]
  /\ clock \in Time
  /\ events \in [Keys -> Entries]
  /\ cleared \in [Keys -> Entries] /\ \A k \in Keys : cleared[k] \subseteq events[k]
  /\ promise \in [Keys -> Maybe(Nat)]
  /\ raced \in BOOLEAN

Idle == [at |-> "idle", key |-> None, now |-> 0, todo |-> {}, cursor |-> None, seen |-> {},
         orphan |-> FALSE]

Init ==
  /\ kind \in Kinds
  /\ table = [k \in {} |-> {}]
  /\ thread = [t \in Threads |-> Idle]
  /\ clock = 0
  /\ events = [k \in Keys |-> {}]
  /\ cleared = [k \in Keys |-> {}]
  /\ promise = [k \in Keys |-> None]
  /\ raced = FALSE

Listed(k) == IF k \in DOMAIN table THEN table[k] ELSE {}

Without(k) == [j \in DOMAIN table \ {k} |-> table[j]]

With(k, entries) ==
  [j \in DOMAIN table \union {k} |-> IF j = k THEN entries ELSE table[j]]

\* Mutant: an entry counts for ever.
RecentAll(entries, now) == entries

\* What still counts at a time.
Recent(entries, now) == {e \in entries : now - e.at < Window}
-----------------------------------------------------------------------------
Tick == clock < MaxTime /\ clock' = clock + 1 /\ UNCHANGED <<kind, table, thread, history>>

\* A check begins: the time, and the keys to look through.
Start(t, k) ==
  /\ thread[t].at = "idle"
  /\ Cardinality(UNION {{j} \X events[j] : j \in Keys}) < MaxEvents
  /\ thread' = [thread EXCEPT ![t] = [Idle EXCEPT
       !.at = "prune", !.key = k, !.now = clock, !.todo = DOMAIN table]]
  /\ raced' = (raced \/ \E o \in Threads : thread[o].at # "idle")
  /\ UNCHANGED <<kind, table, clock, events, cleared, promise>>

\* A key that another request has removed meanwhile: the registration check
\* indexes the dictionary, and the request fails; the others find an empty list.
KeyVanished(t) ==
  /\ kind = "register"
  /\ thread[t].at = "prune"
  /\ ~(thread[t].todo \subseteq DOMAIN table)
  /\ thread' = [thread EXCEPT ![t] = Idle]
  /\ UNCHANGED <<kind, table, clock, history>>

Look(t, k, next) ==
  thread' = [thread EXCEPT ![t] = [thread[t] EXCEPT
    !.at = next, !.todo = @ \ {k}, !.cursor = k, !.seen = Recent(Listed(k), thread[t].now)]]

Read(t, k) ==
  /\ thread[t].at = "prune"
  /\ k \in thread[t].todo
  /\ kind = "register" => k \in DOMAIN table
  /\ Look(t, k, "store")
  /\ UNCHANGED <<kind, table, clock, history>>

\* Mutant: a list that has become empty is kept.
PrunedKeepingEmpty(k, entries) == With(k, entries)

\* A list of what still counts takes the place of the list, or the key goes.
Pruned(k, entries) == IF entries = {} THEN Without(k) ELSE With(k, entries)

\* Whoever is about to append to the list that was in the dictionary keeps it.
Orphaned(k) ==
  [o \in Threads |->
    IF thread[o].at = "append" /\ thread[o].key = k THEN [thread[o] EXCEPT !.orphan = TRUE]
    ELSE thread[o]]

Store(t) ==
  /\ thread[t].at = "store"
  /\ table' = Pruned(thread[t].cursor, thread[t].seen)
  /\ thread' = [Orphaned(thread[t].cursor) EXCEPT ![t] = [thread[t] EXCEPT
       !.at = "prune", !.cursor = None, !.seen = {}]]
  /\ UNCHANGED <<kind, clock, history>>

\* Once through, the check for a sign-in or an analysis looks at its own key again.
ReadOwn(t) ==
  /\ kind # "register"
  /\ thread[t].at = "prune" /\ thread[t].todo = {}
  /\ Look(t, thread[t].key, "own")
  /\ UNCHANGED <<kind, table, clock, history>>

\* Mutant: one more than the limit gets through.
VerdictLate(attempts) == IF Cardinality(attempts) > Limit THEN "refused" ELSE "work"

Verdict(attempts) == IF Cardinality(attempts) >= Limit THEN "refused" ELSE "work"

\* The list stored is the one whose length decides.
DecideOwn(t) ==
  /\ thread[t].at = "own"
  /\ table' = Pruned(thread[t].key, thread[t].seen)
  /\ thread' = [Orphaned(thread[t].key) EXCEPT ![t] = [thread[t] EXCEPT
       !.at = Verdict(thread[t].seen)]]
  /\ UNCHANGED <<kind, clock, history>>

DecideRegistration(t) ==
  /\ kind = "register"
  /\ thread[t].at = "prune" /\ thread[t].todo = {}
  /\ thread' = [thread EXCEPT ![t] = [thread[t] EXCEPT
       !.at = Verdict(Listed(thread[t].key)), !.seen = Listed(thread[t].key)]]
  /\ UNCHANGED <<kind, table, clock, history>>

\* How long until the oldest entry no longer counts: less than nothing for an old
\* list that has come back.
Left(q) == Window - (q.now - Min({e.at : e \in q.seen}))

\* int(): towards zero.
Whole(x) == IF x < 0 THEN -((-x) \div Unit) ELSE x \div Unit

\* Mutant: fractions are cut off.
RetryAfterCutOff(q) == Whole(Left(q))

\* Retry-After, in whole units.
RetryAfter(q) == Whole(Left(q)) + 1

Refuse(t) ==
  /\ thread[t].at = "refused"
  /\ promise' = [promise EXCEPT ![thread[t].key] = clock + Unit * RetryAfter(thread[t])]
  /\ thread' = [thread EXCEPT ![t] = Idle]
  /\ UNCHANGED <<kind, table, clock, events, cleared, raced>>
-----------------------------------------------------------------------------
\* A wrong password, a new account and every analysis are recorded: setdefault
\* returns the key's list, and append will add the time to that.
Counts(t) ==
  /\ thread[t].at = "work"
  /\ table' = With(thread[t].key, Listed(thread[t].key))
  /\ thread' = [thread EXCEPT ![t] = [thread[t] EXCEPT !.at = "append", !.seen = {}]]
  /\ UNCHANGED <<kind, clock, history>>

\* The right password clears the failures before it.
SignIn(t) ==
  /\ kind = "login"
  /\ thread[t].at = "work"
  /\ LET k == thread[t].key
     IN  /\ table' = Without(k)
         /\ thread' = [Orphaned(k) EXCEPT ![t] = Idle]
         /\ cleared' = [cleared EXCEPT ![k] = events[k]]
  /\ UNCHANGED <<kind, clock, events, promise, raced>>

\* The address is taken: nothing is recorded.
EmailTaken(t) ==
  /\ kind = "register"
  /\ thread[t].at = "work"
  /\ thread' = [thread EXCEPT ![t] = Idle]
  /\ UNCHANGED <<kind, table, clock, history>>

AppendTime(t) ==
  /\ thread[t].at = "append"
  /\ LET k == thread[t].key
         e == [nth |-> Cardinality(events[k]) + 1, at |-> clock]
     IN  /\ table' = IF thread[t].orphan THEN table ELSE [table EXCEPT ![k] = @ \union {e}]
         /\ events' = [events EXCEPT ![k] = @ \union {e}]
         /\ promise' = [promise EXCEPT ![k] = None]
  /\ thread' = [thread EXCEPT ![t] = Idle]
  /\ UNCHANGED <<kind, clock, cleared, raced>>

\* The process restarts: what it counted is gone.
Restart ==
  /\ table' = [k \in {} |-> {}]
  /\ thread' = [t \in Threads |-> Idle]
  /\ events' = [k \in Keys |-> {}]
  /\ cleared' = [k \in Keys |-> {}]
  /\ promise' = [k \in Keys |-> None]
  /\ raced' = FALSE
  /\ UNCHANGED <<kind, clock>>
-----------------------------------------------------------------------------
Step(t) ==
  \/ \E k \in Keys : Start(t, k) \/ Read(t, k)
  \/ KeyVanished(t) \/ Store(t) \/ ReadOwn(t) \/ DecideOwn(t) \/ DecideRegistration(t) \/ Refuse(t)
  \/ Counts(t) \/ SignIn(t) \/ EmailTaken(t) \/ AppendTime(t)

Next == Tick \/ Restart \/ \E t \in Threads : Step(t)

Spec == Init /\ [][Next]_vars
-----------------------------------------------------------------------------
\* How many entries are younger than the window.
Young(entries, now) == Cardinality({e \in entries : now - e.at < Window})

Outstanding(k) == events[k] \ cleared[k]

\* check_login_allowed and its like let no more through than they say, as long
\* as no two requests overlap in the process.
LimitHolds == raced \/ \A k \in Keys : Young(Outstanding(k), clock) <= Limit

\* However requests overlap, nobody is refused who has not used the limit up by
\* entries of their own that are not older than the window; but a registration,
\* whose check does not look at the times of its own list a second time, may be
\* when another one has put an old list back.
RefusedForCause ==
  (kind = "register" /\ raced) \/ \A t \in Threads :
    thread[t].at = "refused" => Young(events[thread[t].key], thread[t].now) >= Limit

\* Who waits as long as Retry-After says, and has nothing recorded meanwhile, is
\* not refused again.
RetryAfterSuffices ==
  raced \/ \A t \in Threads :
    thread[t].at = "refused" /\ promise[thread[t].key] # None =>
      thread[t].now < promise[thread[t].key]

\* _prune_attempts keeps the dictionary from growing without bound: after a check
\* no key is left that has nothing recent.
OldKeysAreForgotten ==
  raced \/ \A t \in Threads :
    thread[t].at \in {"refused", "work"} =>
      \A k \in DOMAIN table : Young(table[k], thread[t].now) > 0
=============================================================================
