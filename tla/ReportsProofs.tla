---------------------------- MODULE ReportsProofs ----------------------------
(***************************************************************************)
(* For every cost matrix with at least as many columns as rows: Hungarian   *)
(* ends, if it does, with an assignment that its potentials certify, and    *)
(* that none is cheaper than.  For every sequence: what sorted(), a slice   *)
(* and a filter make of it.  With these, for every list a report is made    *)
(* of: what each of the five reports promises of its answer.  For every     *)
(* week: the lineup made of the assignment is the best there is, and what   *)
(* score_week reports about it adds up.                                     *)
(***************************************************************************)
EXTENDS Reports, SequenceTheorems, FiniteSetTheorems, WellFoundedInduction, TLAPS

\* Column 0 always holds the row being assigned, and its search has begun once
\* another loop runs.
RowInv ==
  /\ parent[0] = row
  /\ \A j \in Columns : parent[j] <= row
  /\ at = "search" => row # 0
  /\ at # "search" /\ row # 0 => used # {}

\* Where the search is, it has come to a matched column for the first time.
SearchInv ==
  at = "search" =>
    /\ used = before[col0]
    /\ parent[col0] # 0
    /\ used = {} => col0 = 0 /\ minCost = [j \in 0 .. problem.cols |-> Infinity]
    /\ used # {} => 0 \in used

\* The cheapest ways from the columns used to the others.
NearestInv ==
  at = "search" /\ used # {} =>
    \A j \in Columns \ used :
      /\ way[j] \in used
      /\ minCost[j] = Slack(parent[way[j]], j)
      /\ \A c \in used : minCost[j] <= Slack(parent[c], j)

\* The columns the search has come to form a tree of tight pairings, ordered by
\* the columns used before each.
Tree == before[col0] \union {col0}
TreeInv ==
  at \in {"search", "augment"} =>
    \A j \in Tree :
      /\ j \notin before[j]
      /\ \A k \in before[j] : before[k] \subseteq before[j] /\ parent[k] # 0
      /\ j # 0 => way[j] \in before[j] /\ Slack(parent[way[j]], j) = 0

\* Every pairing of the matching, complete or not, is tight.
TightInv == \A j \in Columns : parent[j] # 0 => Slack(parent[j], j) = 0

\* The column whose entry in parent has already been passed on.
Hole == IF at = "search" THEN {} ELSE IF at = "augment" THEN {col0} ELSE {0}
Held == (0 .. problem.cols) \ Hole
MatchingInv ==
  /\ \A j, k \in Held : parent[j] = parent[k] /\ parent[j] # 0 => j = k
  /\ \A i \in 1 .. row : \E j \in Held : parent[j] = i

DoneInv == at = "done" => row = problem.rows

Inv ==
  /\ WellFormed(problem) /\ TypeOK /\ RowInv /\ SearchInv /\ NearestInv /\ TreeInv
  /\ TightInv /\ MatchingInv /\ DoneInv /\ DualFeasible /\ FreeColumnsAreUnpriced

-----------------------------------------------------------------------------
LEMMA SlackType ==
  ASSUME WellFormed(problem), TypeOK, NEW i \in Rows, NEW j \in Columns
  PROVE  Slack(i, j) \in Int
<1>1. i \in 0 .. problem.rows /\ j \in 0 .. problem.cols
  BY DEF WellFormed, Rows, Columns
<1>2. problem.cost[i] \in [1 .. problem.cols -> Int]
  BY DEF WellFormed, Rows
<1>3. problem.cost[i][j] \in Int
  BY <1>2 DEF Columns
<1>4. u[i] \in Int /\ v[j] \in Int
  BY <1>1 DEF TypeOK
<1>5. QED
  BY <1>3, <1>4 DEF Slack

LEMMA InitInv == WellFormed(problem) /\ Start => Inv
<1> SUFFICES ASSUME WellFormed(problem), Start PROVE Inv
  OBVIOUS
<1>1. TypeOK
  BY InfinityAssumption DEF WellFormed, Start, TypeOK
<1>2. RowInv /\ SearchInv /\ NearestInv /\ TreeInv /\ TightInv /\ DoneInv
  BY DEF WellFormed, Start, RowInv, SearchInv, NearestInv, TreeInv, TightInv, DoneInv, Columns
<1>3. MatchingInv
  BY DEF WellFormed, Start, MatchingInv, Held, Hole
<1>4. DualFeasible /\ FreeColumnsAreUnpriced
  BY DEF WellFormed, Start, DualFeasible, FreeColumnsAreUnpriced, Priced, Rows, Columns
<1>5. QED
  BY <1>1, <1>2, <1>3, <1>4 DEF Inv

LEMMA NextRowInv == Inv /\ NextRow /\ UNCHANGED problem => Inv'
<1> SUFFICES ASSUME Inv, NextRow, problem' = problem PROVE Inv'
  OBVIOUS
<1> USE DEF Inv, WellFormed, TypeOK
<1>1. TypeOK'
  <2>1. row + 1 \in 0 .. problem.rows /\ minCost' \in [0 .. problem.cols -> Int \union {Infinity}]
    BY DEF NextRow, RowsLeft
  <2>2. parent' \in [0 .. problem.cols -> 0 .. problem.rows]
    BY <2>1 DEF NextRow
  <2>3. QED
    BY <2>1, <2>2 DEF NextRow
<1>2. RowInv'
  <2>1. parent'[0] = row + 1 /\ \A j \in Columns : parent'[j] = parent[j]
    BY DEF NextRow, RowsLeft, Columns
  <2>2. ASSUME NEW j \in Columns PROVE parent'[j] <= row'
    <3>1. j \in 0 .. problem.cols
      BY DEF Columns
    <3>2. parent[j] \in 0 .. problem.rows
      BY <3>1
    <3>3. parent[j] <= row
      BY DEF RowInv
    <3>4. QED
      BY <2>1, <3>2, <3>3 DEF NextRow, RowsLeft
  <2>3. row \in Nat /\ row' = row + 1 /\ at' = "search" /\ Columns' = Columns
    BY DEF NextRow, RowsLeft, Columns
  <2>4. QED
    BY <2>1, <2>2, <2>3, row' # 0 DEF RowInv
<1>3. SearchInv' /\ NearestInv' /\ DoneInv'
  BY DEF NextRow, RowsLeft, SearchInv, NearestInv, DoneInv
<1>4. TreeInv'
  BY DEF NextRow, RowsLeft, TreeInv, Tree
<1>5. TightInv'
  <2>1. ASSUME NEW j \in Columns
        PROVE  parent'[j] = parent[j] /\ Slack(parent[j], j)' = Slack(parent'[j], j)
    BY DEF NextRow, RowsLeft, Slack, Columns
  <2>2. Columns' = Columns
    BY DEF Columns
  <2>3. QED
    BY <2>1, <2>2 DEF TightInv, NextRow, Slack
<1>6. MatchingInv'
  <2>1. Held = Columns /\ Held' = 0 .. problem.cols
    BY DEF NextRow, RowsLeft, Held, Hole, Columns
  <2>2. ASSUME NEW j \in Held', NEW k \in Held', parent'[j] = parent'[k], parent'[j] # 0
        PROVE  j = k
    BY <2>1, <2>2 DEF NextRow, RowsLeft, MatchingInv, RowInv, Columns
  <2>3. ASSUME NEW i \in 1 .. row' PROVE \E j \in Held' : parent'[j] = i
    BY <2>1, <2>3 DEF NextRow, RowsLeft, MatchingInv, Columns
  <2>4. QED
    BY <2>2, <2>3 DEF MatchingInv
<1>7. DualFeasible'
  <2>1. ASSUME NEW i \in Rows, Priced(i)'
        PROVE  Priced(i)
    BY <2>1 DEF NextRow, RowsLeft, Priced, Rows, RowInv
  <2>2. Rows' = Rows /\ Columns' = Columns
    BY DEF Rows, Columns
  <2>3. QED
    BY <2>1, <2>2 DEF NextRow, RowsLeft, DualFeasible, Slack
<1>8. FreeColumnsAreUnpriced'
  BY DEF NextRow, RowsLeft, FreeColumnsAreUnpriced, Columns
<1>9. QED
  BY <1>1, <1>2, <1>3, <1>4, <1>5, <1>6, <1>7, <1>8

LEMMA EndInv == Inv /\ (EndAugment \/ Finish) /\ UNCHANGED problem => Inv'
<1> SUFFICES ASSUME Inv, EndAugment \/ Finish, problem' = problem PROVE Inv'
  OBVIOUS
<1> USE DEF Inv, WellFormed, TypeOK, EndAugment, Finish
<1>1. TypeOK' /\ RowInv'
  BY DEF RowInv, Columns
<1>2. SearchInv' /\ NearestInv' /\ TreeInv' /\ DoneInv'
  BY DEF SearchInv, NearestInv, TreeInv, DoneInv
<1>3. UNCHANGED <<u, v, parent, row, used, Rows, Columns, Held>>
  BY DEF Rows, Columns, Held, Hole
<1>4. DualFeasible' /\ FreeColumnsAreUnpriced'
  BY ONLY Inv, problem' = problem, <1>3 DEF Inv, DualFeasible, FreeColumnsAreUnpriced, Slack, Priced
<1>5. TightInv' /\ MatchingInv'
  BY ONLY Inv, problem' = problem, <1>3 DEF Inv, TightInv, MatchingInv, Slack
<1>6. QED
  BY <1>1, <1>2, <1>3, <1>4, <1>5

LEMMA AugmentInv == Inv /\ Augment /\ UNCHANGED problem => Inv'
<1> SUFFICES ASSUME Inv, Augment, problem' = problem PROVE Inv'
  OBVIOUS
<1> USE DEF Inv, WellFormed, TypeOK
<1> DEFINE k == way[col0]
<1>1. /\ k \in before[col0] /\ k # col0 /\ parent[k] # 0
      /\ Slack(parent[k], col0) = 0
      /\ col0 \in Columns
  BY DEF Augment, TreeInv, Tree, Columns
<1>2. TypeOK'
  BY <1>1 DEF Augment
<1>3. RowInv'
  BY <1>1 DEF Augment, RowInv, Columns
<1>4. SearchInv' /\ NearestInv' /\ DoneInv'
  BY DEF Augment, SearchInv, NearestInv, DoneInv
<1>5. TreeInv'
  <2>1. Tree' \subseteq before[col0] /\ before' = before /\ way' = way
    BY <1>1 DEF Augment, Tree, TreeInv
  <2>2. \A c \in before[col0] : parent'[c] = parent[c]
    BY DEF Augment, Tree, TreeInv
  <2>3. ASSUME NEW j \in Tree'
        PROVE  /\ j \notin before[j]
               /\ \A c \in before[j] : before[c] \subseteq before[j] /\ parent'[c] # 0
               /\ j # 0 => way[j] \in before[j] /\ Slack(parent[way[j]], j)' = 0
    <3>1. j \in Tree /\ before[j] \subseteq before[col0]
      BY <2>1, <2>3 DEF Augment, Tree, TreeInv
    <3>2. QED
      BY <2>1, <2>2, <3>1 DEF Augment, TreeInv, Slack
  <2>4. QED
    BY <2>1, <2>3 DEF TreeInv
<1>6. TightInv'
  <2>1. ASSUME NEW j \in Columns, parent'[j] # 0
        PROVE  Slack(parent[j], j)' = 0
    <3>1. CASE j = col0
      <4>1. parent'[j] = parent[k]
        BY <3>1 DEF Augment
      <4>2. QED
        BY <1>1, <3>1, <4>1 DEF Augment, Slack
    <3>2. CASE j # col0
      <4>1. parent'[j] = parent[j]
        BY <3>2 DEF Augment, Columns
      <4>2. QED
        BY <2>1, <4>1 DEF Augment, Slack, TightInv
    <3>3. QED
      BY <3>1, <3>2
  <2>2. QED
    BY <2>1 DEF TightInv, Columns
<1>7. MatchingInv'
  <2>1. Held = (0 .. problem.cols) \ {col0} /\ Held' = (0 .. problem.cols) \ {k}
    BY DEF Augment, Held, Hole
  <2>2. \A c \in 0 .. problem.cols : parent'[c] = IF c = col0 THEN parent[k] ELSE parent[c]
    BY DEF Augment
  <2>3. ASSUME NEW j \in Held', NEW c \in Held', parent'[j] = parent'[c], parent'[j] # 0
        PROVE  j = c
    <3>1. /\ k \in Held
          /\ \A x, y \in Held : parent[x] = parent[y] /\ parent[x] # 0 => x = y
      BY <1>1, <2>1 DEF MatchingInv
    <3>2. \A x \in Held' : x # col0 => x \in Held /\ x # k
      BY <2>1
    <3>3. QED
      BY <1>1, <2>1, <2>2, <2>3, <3>1, <3>2
  <2>4. ASSUME NEW i \in 1 .. row' PROVE \E j \in Held' : parent'[j] = i
    <3>1. PICK c \in Held : parent[c] = i
      BY <2>4 DEF Augment, MatchingInv
    <3>2. QED
      BY <1>1, <2>1, <2>2, <3>1
  <2>5. QED
    BY <2>3, <2>4 DEF MatchingInv
<1>8. DualFeasible'
  BY DEF Augment, DualFeasible, Slack, Priced, Rows, Columns
<1>9. FreeColumnsAreUnpriced'
  BY <1>1 DEF Augment, FreeColumnsAreUnpriced, Columns
<1>10. QED
  BY <1>2, <1>3, <1>4, <1>5, <1>6, <1>7, <1>8, <1>9

\* What a round of the search knows: every column reached has a row, no two the
\* same, and Cheapest is the least slack between those rows and a free column.
LEMMA Reaching ==
  ASSUME Inv, at = "search"
  PROVE  /\ Reached = Tree /\ col0 \notin used /\ used = before[col0] /\ 0 \in Reached
         /\ Free \subseteq Columns \ used
         /\ \A c \in Reached : c \in 0 .. problem.cols /\ parent[c] \in Rows /\ parent[c] <= row
         /\ \A c, d \in 0 .. problem.cols : parent[c] = parent[d] /\ parent[c] # 0 => c = d
<1> USE DEF Inv, WellFormed, TypeOK
<1>1. used = before[col0] /\ Reached = Tree /\ col0 \in Tree
  BY DEF SearchInv, Reached, Tree
<1>2. col0 \notin used /\ \A c \in used : parent[c] # 0
  BY <1>1 DEF TreeInv
<1>3. 0 \in Reached
  BY DEF SearchInv, Reached
<1>4. ASSUME NEW c \in Reached
      PROVE  c \in 0 .. problem.cols /\ parent[c] \in Rows /\ parent[c] <= row
  <2>1. c \in 0 .. problem.cols /\ parent[c] # 0
    BY <1>2 DEF Reached, SearchInv
  <2>2. parent[c] \in 0 .. problem.rows
    BY <2>1
  <2>3. parent[c] <= row
    BY <2>1, <2>2 DEF RowInv, Columns
  <2>4. QED
    BY <2>1, <2>2, <2>3 DEF Rows
<1>5. Held = 0 .. problem.cols
  BY DEF Held, Hole
<1>6. \A c, d \in 0 .. problem.cols : parent[c] = parent[d] /\ parent[c] # 0 => c = d
  BY <1>5 DEF MatchingInv
<1>7. Free \subseteq Columns \ used
  BY <1>3 DEF Free, Reached, Columns
<1>8. QED
  BY <1>1, <1>2, <1>3, <1>4, <1>6, <1>7

NewWay(c) == IF Nearer(c) THEN col0 ELSE way[c]

LEMMA Cheapness ==
  ASSUME Inv, at = "search", NEW c \in Free
  PROVE  /\ Cheapest(c) \in Int
         /\ NewWay(c) \in Reached
         /\ Cheapest(c) = Slack(parent[NewWay(c)], c)
         /\ \A r \in Reached : Cheapest(c) <= Slack(parent[r], c)
<1>1. c \in Columns /\ c \notin used
  BY Reaching
<1>2. \A r \in Reached : parent[r] \in Rows /\ Slack(parent[r], c) \in Int
  BY <1>1, Reaching, SlackType DEF Inv
<1>3. col0 \in Reached /\ Reached = used \union {col0}
  BY DEF Reached
<1>4. CASE used = {}
  <2>1. minCost[c] = Infinity
    BY <1>1, <1>4 DEF Inv, SearchInv, Columns, WellFormed
  <2>2. Cheapest(c) = Slack(parent[col0], c) /\ NewWay(c) = col0
    BY <2>1 DEF Cheapest, Nearer, NewWay
  <2>3. QED
    BY <1>2, <1>3, <1>4, <2>2
<1>5. CASE used # {}
  <2>1. /\ way[c] \in used /\ minCost[c] = Slack(parent[way[c]], c)
        /\ \A r \in used : minCost[c] <= Slack(parent[r], c)
    BY <1>1, <1>5 DEF Inv, NearestInv
  <2>2. minCost[c] \in Int /\ Slack(parent[col0], c) \in Int /\ minCost[c] # Infinity
    BY <1>2, <1>3, <2>1, InfinityAssumption
  <2>3. Nearer(c) <=> Slack(parent[col0], c) < minCost[c]
    BY <2>2 DEF Nearer
  <2>4. CASE Nearer(c)
    BY <1>2, <1>3, <2>1, <2>2, <2>3, <2>4 DEF Cheapest, NewWay
  <2>5. CASE ~Nearer(c)
    BY <1>2, <1>3, <2>1, <2>2, <2>3, <2>5 DEF Cheapest, NewWay
  <2>6. QED
    BY <2>4, <2>5
<1>6. QED
  BY <1>4, <1>5

LEMMA SearchStepInv ==
  ASSUME Inv, NEW j \in Columns, Search(j), problem' = problem
  PROVE  Inv'
<1> DEFINE delta == Cheapest(j)
           tree == {parent[c] : c \in Reached}
<1>search. at = "search" /\ j \in Free /\ \A c \in Free : Cheapest(j) <= Cheapest(c)
  <2>1. at = "search" /\ j \in Free
    BY DEF Search, IsNext
  <2>2. \A c \in Free : Cheapest(c) \in Int
    BY <2>1, Cheapness
  <2>3. QED
    BY <2>1, <2>2 DEF Search, IsNext
<1>reach. /\ Reached = Tree /\ col0 \notin used /\ used = before[col0] /\ 0 \in Reached
          /\ Free \subseteq Columns \ used
          /\ \A c \in Reached : c \in 0 .. problem.cols /\ parent[c] \in Rows /\ parent[c] <= row
          /\ \A c, d \in 0 .. problem.cols : parent[c] = parent[d] /\ parent[c] # 0 => c = d
  BY <1>search, Reaching
<1>cheap. \A c \in Free :
            /\ Cheapest(c) \in Int
            /\ NewWay(c) \in Reached
            /\ Cheapest(c) = Slack(parent[NewWay(c)], c)
            /\ \A r \in Reached : Cheapest(c) <= Slack(parent[r], c)
  BY <1>search, Cheapness
<1>delta. delta \in Int
  BY <1>search, <1>cheap
<1>steps. /\ parent' = parent /\ row' = row /\ used' = Reached /\ col0' = j
          /\ at' = IF parent[j] = 0 THEN "augment" ELSE "search"
          /\ before' = [before EXCEPT ![j] = Reached]
          /\ Columns' = Columns /\ Rows' = Rows
  BY DEF Search, Columns, Rows
<1>cols. \A c \in 0 .. problem.cols : c \in Reached \/ c \in Free
  BY DEF Free
<1>u. \A i \in 0 .. problem.rows : u'[i] = IF i \in tree THEN u[i] + delta ELSE u[i]
  BY DEF Search
<1>v. \A c \in 0 .. problem.cols : v'[c] = IF c \in Reached THEN v[c] - delta ELSE v[c]
  BY DEF Search
<1>way. \A c \in 0 .. problem.cols : way'[c] = IF c \in Free THEN NewWay(c) ELSE way[c]
  BY DEF Search, NewWay, Inv, TypeOK
<1>min. \A c \in Free : minCost'[c] = Cheapest(c) - delta
  BY DEF Search, Free
\* How slack changes: by the potential of the row and that of the column.
<1>slack. ASSUME NEW i \in Rows, NEW c \in Columns
          PROVE  /\ Slack(i, c) \in Int
                 /\ i \in tree /\ c \in Reached => Slack(i, c)' = Slack(i, c)
                 /\ i \notin tree /\ c \notin Reached => Slack(i, c)' = Slack(i, c)
                 /\ i \in tree /\ c \notin Reached => Slack(i, c)' = Slack(i, c) - delta
                 /\ i \notin tree /\ c \in Reached => Slack(i, c)' = Slack(i, c) + delta
  <2>1. i \in 0 .. problem.rows /\ c \in 0 .. problem.cols
    BY DEF Rows, Columns, Inv, WellFormed
  <2>2. problem.cost[i] \in [1 .. problem.cols -> Int]
    BY DEF Rows, Inv, WellFormed
  <2>3. problem.cost[i][c] \in Int /\ u[i] \in Int /\ v[c] \in Int
    BY <2>1, <2>2 DEF Columns, Inv, TypeOK
  <2>4. Slack(i, c)' = problem.cost[i][c] - u'[i] - v'[c]
    BY DEF Slack
  <2>5. QED
    BY <2>1, <2>3, <2>4, <1>u, <1>v, <1>delta DEF Slack
<1>tree. \A c \in Reached : parent[c] \in tree
  OBVIOUS
\* A later round of a row moves the potentials apart, never together.
<1>grows. used # {} => delta >= 0
  <2>1. SUFFICES ASSUME used # {} PROVE delta >= 0
    OBVIOUS
  <2>2. PICK w \in Reached : delta = Slack(parent[w], j)
    BY <1>search, <1>cheap
  <2>3. parent[w] \in Rows /\ Priced(parent[w])
    BY <1>reach, <2>1 DEF Priced, Rows, Inv, TypeOK, WellFormed
  <2>4. QED
    BY <2>2, <2>3 DEF Inv, DualFeasible
<1>first. used = {} => Reached = {0}
  BY <1>search DEF Reached, Inv, SearchInv
<1>1. TypeOK'
  <2>1. u' \in [0 .. problem.rows -> Int]
    BY <1>delta DEF Search, Inv, TypeOK
  <2>2. v' \in [0 .. problem.cols -> Int]
    BY <1>delta DEF Search, Inv, TypeOK
  <2>3. minCost' \in [0 .. problem.cols -> Int \union {Infinity}]
    BY <1>delta, <1>cheap DEF Search, Inv, TypeOK
  <2>4. way' \in [0 .. problem.cols -> 0 .. problem.cols]
    BY DEF Search, Inv, TypeOK
  <2>5. Reached \in SUBSET (0 .. problem.cols) /\ j \in 0 .. problem.cols
    BY DEF Reached, Columns, Inv, TypeOK
  <2>6. before' \in [0 .. problem.cols -> SUBSET (0 .. problem.cols)]
    BY <1>steps, <2>5 DEF Inv, TypeOK
  <2>7. QED
    BY <1>steps, <2>1, <2>2, <2>3, <2>4, <2>5, <2>6 DEF Inv, TypeOK
<1>2. RowInv'
  BY <1>steps, <1>reach, <1>search DEF Inv, RowInv
<1>3. SearchInv'
  BY <1>steps, <1>reach DEF SearchInv, Inv, TypeOK, Columns
<1>4. NearestInv'
  <2>1. ASSUME NEW c \in Columns \ Reached
        PROVE  /\ way'[c] \in Reached
               /\ minCost'[c] = Slack(parent[way[c]], c)'
               /\ \A r \in Reached : minCost'[c] <= Slack(parent[r], c)'
    <3>1. c \in Free /\ c \in 0 .. problem.cols
      BY <2>1 DEF Free, Columns
    <3>2. way'[c] = NewWay(c) /\ NewWay(c) \in Reached
      BY <3>1, <1>way, <1>cheap
    <3>3. \A r \in Reached : Slack(parent[r], c) \in Int /\ Slack(parent[r], c)' = Slack(parent[r], c) - delta
      BY <2>1, <1>slack, <1>reach, <1>tree, <1>steps DEF Slack
    <3>4. Slack(parent[way[c]], c)' = Slack(parent[NewWay(c)], c) - delta
      BY <3>2, <3>3, <1>steps DEF Slack
    <3>5. QED
      BY <3>1, <3>2, <3>3, <3>4, <1>min, <1>cheap, <1>delta
  <2>2. QED
    BY <2>1, <1>steps DEF NearestInv, Slack
<1>5. TreeInv'
  <2>1. Tree' = Reached \union {j}
    <3>1. before'[j] = Reached
      BY <1>steps DEF Inv, TypeOK, Columns
    <3>2. QED
      BY <1>steps, <3>1 DEF Tree
  <2>2. ASSUME NEW k \in Tree'
        PROVE  /\ k \notin before'[k]
               /\ \A c \in before'[k] : before'[c] \subseteq before'[k] /\ parent'[c] # 0
               /\ k # 0 => way'[k] \in before'[k] /\ Slack(parent[way[k]], k)' = 0
    <3>1. CASE k \in Reached
      <4>1. /\ k # j /\ k \notin Free /\ k \in 0 .. problem.cols
            /\ k \notin before[k]
            /\ \A c \in before[k] : before[c] \subseteq before[k] /\ parent[c] # 0
            /\ k # 0 => way[k] \in before[k] /\ Slack(parent[way[k]], k) = 0
        BY <3>1, <1>reach, <1>search DEF Inv, TreeInv, Free
      <4>2. before[k] \subseteq Reached /\ before'[k] = before[k]
        <5>1. before[k] \subseteq before[col0]
          BY <3>1, <1>reach, <1>search DEF Inv, TreeInv, Tree
        <5>2. before'[k] = before[k]
          BY <4>1, <1>steps DEF Inv, TypeOK
        <5>3. QED
          BY <5>1, <5>2, <1>reach DEF Tree
      <4>3. \A c \in before[k] : before'[c] = before[c]
        BY <4>2, <1>steps, <1>reach, <1>search DEF Inv, TypeOK, Free
      <4>4. way'[k] = way[k]
        BY <4>1, <1>way
      <4>5. ASSUME k # 0 PROVE Slack(parent[way[k]], k)' = 0
        <5>1. k \in Columns /\ way[k] \in Reached
          BY <4>1, <4>2, <4>5 DEF Columns
        <5>2. parent[way[k]] \in Rows /\ parent[way[k]] \in tree
          BY <5>1, <1>reach, <1>tree
        <5>3. Slack(parent[way[k]], k)' = Slack(parent[way[k]], k)
          <6>1. /\ problem'.cost[parent[way[k]]][k] - u'[parent[way[k]]] - v'[k]
                    = Slack(parent[way[k]], k)
            BY <5>1, <5>2, <3>1, <1>slack DEF Slack
          <6>2. QED
            BY <6>1, <4>4, <1>steps DEF Slack
        <5>4. QED
          BY <5>3, <4>1, <4>5
      <4>6. QED
        BY <4>1, <4>2, <4>3, <4>4, <4>5, <1>steps
    <3>2. CASE k = j
      <4>1. before'[j] = Reached /\ j \notin Reached /\ j \in 0 .. problem.cols
        BY <1>steps, <1>search DEF Inv, TypeOK, Columns, Free
      <4>2. ASSUME NEW c \in Reached
            PROVE  before'[c] \subseteq Reached /\ parent'[c] # 0
        BY <4>1, <1>reach, <1>search, <1>steps DEF Inv, TreeInv, Tree, TypeOK, Rows
      <4>3. way'[j] \in Reached /\ Slack(parent[way'[j]], j) = delta
        BY <4>1, <1>search, <1>way, <1>cheap
      <4>4. Slack(parent[way[j]], j)' = 0
        BY <4>1, <4>3, <1>slack, <1>reach, <1>tree, <1>steps, <1>delta DEF Slack
      <4>5. QED
        BY <3>2, <4>1, <4>2, <4>3, <4>4
    <3>3. QED
      BY <2>1, <2>2, <3>1, <3>2
  <2>3. QED
    BY <2>2 DEF TreeInv, Slack
<1>6. TightInv'
  <2>1. ASSUME NEW c \in Columns, parent[c] # 0
        PROVE  Slack(parent[c], c)' = 0
    <3>1. c \in 0 .. problem.cols /\ parent[c] \in Rows /\ Slack(parent[c], c) = 0
      BY <2>1 DEF Columns, Rows, Inv, TypeOK, TightInv
    <3>2. parent[c] \in tree <=> c \in Reached
      BY <2>1, <3>1, <1>reach
    <3>3. QED
      BY <3>1, <3>2, <1>slack, <1>steps DEF Slack
  <2>2. QED
    BY <2>1, <1>steps DEF TightInv, Slack
<1>7. MatchingInv'
  <2>1. Held = 0 .. problem.cols
    BY <1>search DEF Held, Hole
  <2>2. Held' = IF parent[j] = 0 THEN (0 .. problem.cols) \ {j} ELSE 0 .. problem.cols
    BY <1>steps DEF Held, Hole
  <2>3. ASSUME NEW i \in 1 .. row PROVE \E c \in Held' : parent[c] = i
    BY <2>1, <2>2, <2>3 DEF Inv, MatchingInv, TypeOK, WellFormed
  <2>4. QED
    BY <2>1, <2>2, <2>3, <1>steps DEF Inv, MatchingInv
<1>8. DualFeasible'
  <2>1. ASSUME NEW i \in Rows, NEW c \in Columns, Priced(i)'
        PROVE  Slack(i, c)' >= 0
    <3>1. i <= row
      BY <2>1, <1>steps DEF Priced, Rows, Inv, TypeOK, WellFormed
    <3>2. c \in Reached \/ c \in Free
      BY <1>cols DEF Columns
    <3>3. CASE i \in tree /\ c \in Free
      BY <3>3, <1>slack, <1>search, <1>cheap, <1>delta DEF Free
    <3>4. CASE i \in tree /\ c \in Reached
      <4>1. used # {}
        BY <3>4, <1>first DEF Columns
      <4>2. Priced(i)
        BY <3>1, <4>1 DEF Priced, Rows, Inv, TypeOK
      <4>3. QED
        BY <3>4, <4>2, <1>slack DEF Inv, DualFeasible
    <3>5. CASE i \notin tree
      <4>1. Priced(i)
        <5>1. used = {} => i # row
          BY <3>5, <1>tree, <1>reach DEF Inv, RowInv
        <5>2. QED
          BY <3>1, <5>1 DEF Priced, Rows, Inv, TypeOK
      <4>2. Slack(i, c) >= 0
        BY <4>1 DEF Inv, DualFeasible
      <4>3. c \in Reached => used # {}
        BY <1>first DEF Columns
      <4>4. QED
        BY <3>5, <4>2, <4>3, <1>slack, <1>grows, <1>delta
    <3>6. QED
      BY <3>2, <3>3, <3>4, <3>5
  <2>2. QED
    BY <2>1, <1>steps DEF DualFeasible
<1>9. FreeColumnsAreUnpriced'
  <2>1. ASSUME NEW c \in Columns
        PROVE  v'[c] <= 0 /\ (parent[c] = 0 => v'[c] = 0)
    <3>1. c \in 0 .. problem.cols /\ v[c] \in Int /\ v[c] <= 0 /\ (parent[c] = 0 => v[c] = 0)
      BY DEF Columns, Inv, TypeOK, FreeColumnsAreUnpriced
    <3>2. CASE c \in Reached
      <4>1. used # {} /\ parent[c] # 0
        BY <3>2, <1>first, <1>reach DEF Columns, Rows
      <4>2. QED
        BY <3>1, <3>2, <4>1, <1>v, <1>grows, <1>delta
    <3>3. CASE c \notin Reached
      BY <3>1, <3>3, <1>v
    <3>4. QED
      BY <3>2, <3>3
  <2>2. QED
    BY <2>1, <1>steps DEF FreeColumnsAreUnpriced
<1>10. WellFormed(problem)' /\ DoneInv'
  BY <1>steps DEF Inv, DoneInv
<1>11. QED
  BY <1>1, <1>2, <1>3, <1>4, <1>5, <1>6, <1>7, <1>8, <1>9, <1>10 DEF Inv

LEMMA StepInv == Inv /\ [Step]_assignment => Inv'
<1> SUFFICES ASSUME Inv, [Step]_assignment PROVE Inv'
  OBVIOUS
<1>1. CASE NextRow /\ UNCHANGED problem
  BY <1>1, NextRowInv
<1>2. ASSUME NEW j \in Columns, Search(j), UNCHANGED problem PROVE Inv'
  BY <1>2, SearchStepInv
<1>3. CASE Augment /\ UNCHANGED problem
  BY <1>3, AugmentInv
<1>4. CASE (EndAugment \/ Finish) /\ UNCHANGED problem
  BY <1>4, EndInv
<1>5. CASE UNCHANGED assignment
  BY <1>5 DEF assignment, state, Inv, WellFormed, TypeOK, RowInv, SearchInv, NearestInv,
    TreeInv, Tree, TightInv, MatchingInv, Held, Hole, DoneInv, DualFeasible, Priced,
    FreeColumnsAreUnpriced, Slack, Rows, Columns
<1>6. QED
  BY <1>1, <1>2, <1>3, <1>4, <1>5 DEF Step

LEMMA InvHolds == Hungarian => []Inv
<1>1. WellFormed(problem) /\ Start => Inv
  BY InitInv
<1>2. Inv /\ [Step]_assignment => Inv'
  BY StepInv
<1>3. QED
  BY <1>1, <1>2, PTL DEF Hungarian

-----------------------------------------------------------------------------
\* For every cost matrix with a column for each row, the loops of _hungarian keep
\* their indices within the arrays and every potential finite.
THEOREM TypeCorrect == Hungarian => []TypeOK
<1>1. Inv => TypeOK
  BY DEF Inv
<1>2. QED
  BY <1>1, InvHolds, PTL

\* For every cost matrix: no step of _hungarian lets the potentials of a row it has
\* taken in exceed the cost of one of its pairings.
THEOREM Feasible == Hungarian => []DualFeasible
<1>1. Inv => DualFeasible
  BY DEF Inv
<1>2. QED
  BY <1>1, InvHolds, PTL

LEMMA Certificate == Inv => Certified
<1> SUFFICES ASSUME Inv, at = "done" PROVE
      /\ \A i \in Rows : \E j \in Columns :
           /\ AssignedTo(i, j) /\ Slack(i, j) = 0
           /\ \A k \in Columns : AssignedTo(i, k) => k = j
      /\ \A i \in Rows, j \in Columns : Slack(i, j) >= 0
      /\ FreeColumnsAreUnpriced
  BY DEF Certified
<1>1. row = problem.rows /\ Held = Columns
  BY DEF Inv, DoneInv, WellFormed, Held, Hole, Columns
<1>2. ASSUME NEW i \in Rows
      PROVE  \E j \in Columns :
               /\ AssignedTo(i, j) /\ Slack(i, j) = 0
               /\ \A k \in Columns : AssignedTo(i, k) => k = j
  <2>1. PICK j \in Columns : parent[j] = i
    BY <1>1 DEF Inv, MatchingInv, Rows
  <2>2. i # 0
    BY DEF Rows, Inv, WellFormed
  <2>3. Slack(i, j) = 0
    BY <2>1, <2>2 DEF Inv, TightInv
  <2>4. \A k \in Columns : parent[k] = i => k = j
    BY <1>1, <2>1, <2>2 DEF Inv, MatchingInv
  <2>5. QED
    BY <2>1, <2>3, <2>4 DEF AssignedTo
<1>3. \A i \in Rows : Priced(i)
  BY <1>1 DEF Priced, Rows, Inv, RowInv, WellFormed
<1>4. QED
  BY <1>2, <1>3 DEF Inv, DualFeasible

\* For every cost matrix: when _hungarian returns, every row has a column of its
\* own, and the potentials prove that no other assignment costs less.
THEOREM Optimal == Hungarian => []Certified
  BY InvHolds, Certificate, PTL
-----------------------------------------------------------------------------
\* Sums over finite sets.

\* Least elements, by the well-foundedness of inclusion among finite sets.
LEMMA LeastPart ==
  ASSUME NEW S, IsFiniteSet(S), NEW C \in SUBSET (SUBSET S), C # {}
  PROVE  \E c \in C : \A d \in C : d \subseteq c => d = c
<1>1. C \subseteq FiniteSubsetsOf(S)
  BY FS_Subset DEF FiniteSubsetsOf
<1>2. PICK c \in C : \A d \in C : ~ (<<d, c>> \in StrictSubsetOrdering(S))
  BY <1>1, FS_StrictSubsetOrderingWellFounded, WFMin
<1>3. ASSUME NEW d \in C, d \subseteq c PROVE d = c
  BY <1>2, <1>3 DEF StrictSubsetOrdering
<1>4. QED
  BY <1>3

\* A set M that has {} and, with a part of S, that part and one more, has S.
LEMMA FiniteInduction ==
  ASSUME NEW S, IsFiniteSet(S), NEW M, {} \in M,
         \A A \in SUBSET S : \A x \in S \ A : A \in M => A \union {x} \in M
  PROVE  S \in M
<1> SUFFICES ASSUME S \notin M PROVE FALSE
  OBVIOUS
<1> DEFINE C == {A \in SUBSET S : A \notin M}
<1>1. C \in SUBSET (SUBSET S) /\ C # {}
  OBVIOUS
<1> HIDE DEF C
<1>2. PICK c \in C : \A d \in C : d \subseteq c => d = c
  BY <1>1, LeastPart
<1> USE DEF C
<1>3. PICK x : x \in c
  OBVIOUS
<1>4. c \ {x} \in M
  BY <1>2, <1>3
<1>5. (c \ {x}) \union {x} = c /\ x \in S \ (c \ {x})
  BY <1>3
<1>6. QED
  BY <1>4, <1>5

\* A sum is computed by taking the elements off one by one.
IsSum(f, S, g) ==
  g = [s \in SUBSET S |-> IF s = {} THEN 0
                          ELSE LET x == CHOOSE x \in s : TRUE IN f[x] + g[s \ {x}]]

LEMMA SumIs ==
  ASSUME NEW f, NEW S
  PROVE  SumFunctionOnSet(f, S) = (CHOOSE g : IsSum(f, S, g))[S]
  BY DEF SumFunctionOnSet, FoldFunctionOnSet, MapThenFoldSet, IsSum

LEMMA SumUnique ==
  ASSUME NEW f, NEW S, IsFiniteSet(S), NEW g, NEW h, IsSum(f, S, g), IsSum(f, S, h)
  PROVE  g = h
<1> DEFINE C == {s \in SUBSET S : g[s] # h[s]}
<1>1. CASE C = {}
  <2>1. \A s \in SUBSET S : g[s] = h[s]
    BY <1>1
  <2> DEFINE G(s) == IF s = {} THEN 0 ELSE LET x == CHOOSE x \in s : TRUE IN f[x] + g[s \ {x}]
             H(s) == IF s = {} THEN 0 ELSE LET x == CHOOSE x \in s : TRUE IN f[x] + h[s \ {x}]
  <2>2. g = [s \in SUBSET S |-> G(s)] /\ h = [s \in SUBSET S |-> H(s)]
    BY DEF IsSum
  <2> HIDE DEF G, H
  <2>3. \A s \in SUBSET S : G(s) = H(s)
    BY <2>1, <2>2
  <2>4. QED
    BY <2>2, <2>3
<1>2. CASE C # {}
  <2>1. C \in SUBSET (SUBSET S)
    OBVIOUS
  <2> HIDE DEF C
  <2>2. PICK c \in C : \A d \in C : d \subseteq c => d = c
    BY <1>2, <2>1, LeastPart
  <2> USE DEF C
  <2> DEFINE x == CHOOSE x \in c : TRUE
  <2>3. c = {} => g[c] = 0 /\ h[c] = 0
    BY DEF IsSum
  <2>4. c # {} => x \in c
    OBVIOUS
  <2>5. c # {} => g[c \ {x}] = h[c \ {x}]
    BY <2>2, <2>4
  <2>6. c # {} => g[c] = f[x] + g[c \ {x}] /\ h[c] = f[x] + h[c \ {x}]
    BY DEF IsSum
  <2>7. QED
    BY <2>3, <2>5, <2>6
<1>3. QED
  BY <1>1, <1>2

LEMMA SumRestricted ==
  ASSUME NEW f, NEW S, NEW g, IsSum(f, S, g), NEW A \in SUBSET S
  PROVE  IsSum(f, A, [s \in SUBSET A |-> g[s]])
<1> DEFINE h == [s \in SUBSET A |-> g[s]]
           X(s) == CHOOSE x \in s : TRUE
<1>1. ASSUME NEW s \in SUBSET A
      PROVE  g[s] = IF s = {} THEN 0 ELSE f[X(s)] + h[s \ {X(s)}]
  <2>1. s \in SUBSET S /\ s \ {X(s)} \in SUBSET A
    OBVIOUS
  <2>2. g[s] = IF s = {} THEN 0 ELSE f[X(s)] + g[s \ {X(s)}]
    BY <2>1 DEF IsSum
  <2>3. QED
    BY <2>1, <2>2
<1>2. h = [s \in SUBSET A |-> IF s = {} THEN 0 ELSE f[X(s)] + h[s \ {X(s)}]]
  BY <1>1
<1>3. QED
  BY <1>2 DEF IsSum

LEMMA SumExists ==
  ASSUME NEW f, NEW S, IsFiniteSet(S)
  PROVE  \E g : IsSum(f, S, g)
<1> DEFINE C == {A \in SUBSET S : \A g : ~IsSum(f, A, g)}
<1> SUFFICES ASSUME C # {} PROVE FALSE
  OBVIOUS
<1>1. \A c \in C : c \subseteq S /\ IsFiniteSet(c)
  BY FS_Subset
<1>0. C \in SUBSET (SUBSET S)
  OBVIOUS
<1> HIDE DEF C
<1>2. PICK c \in C : \A d \in C : d \subseteq c => d = c
  BY <1>0, LeastPart
<1> USE DEF C
<1> DEFINE X(s) == CHOOSE x \in s : TRUE
           The(s) == CHOOSE g : IsSum(f, s, g)
           I(s) == The(s)[s]
           g == [s \in SUBSET c |-> IF s = {} THEN 0 ELSE f[X(s)] + I(s \ {X(s)})]
<1>3. ASSUME NEW t \in SUBSET c, t # c PROVE IsSum(f, t, The(t)) /\ IsFiniteSet(t)
  <2>1. t \in SUBSET S /\ t \notin C
    BY <1>2, <1>3
  <2>2. \E k : IsSum(f, t, k)
    BY <2>1
  <2>3. QED
    BY <2>1, <2>2, FS_Subset
<1>4. ASSUME NEW t \in SUBSET c, t # c PROVE g[t] = I(t)
  <2>1. IsSum(f, t, The(t))
    BY <1>3, <1>4
  <2> DEFINE r == t \ {X(t)}
  <2> HIDE DEF The
  <2>2. I(t) = IF t = {} THEN 0 ELSE f[X(t)] + The(t)[r]
    BY <2>1 DEF IsSum
  <2>3. ASSUME t # {} PROVE The(t)[r] = I(r)
    <3>1. r \in SUBSET t /\ r \in SUBSET c /\ r # c
      BY <1>4
    <3>2. IsSum(f, r, [s \in SUBSET r |-> The(t)[s]])
      BY <2>1, <3>1, SumRestricted
    <3>3. IsSum(f, r, The(r)) /\ IsFiniteSet(r)
      BY <1>3, <3>1
    <3>4. [s \in SUBSET r |-> The(t)[s]] = The(r)
      BY <3>2, <3>3, SumUnique
    <3>5. QED
      BY <3>4
  <2>4. QED
    BY <2>2, <2>3
<1> HIDE DEF The
<1>5. ASSUME NEW s \in SUBSET c
      PROVE  g[s] = IF s = {} THEN 0 ELSE f[X(s)] + g[s \ {X(s)}]
  <2>1. s # {} => s \ {X(s)} \in SUBSET c /\ s \ {X(s)} # c
    OBVIOUS
  <2>2. s # {} => g[s \ {X(s)}] = I(s \ {X(s)})
    BY <1>4, <2>1
  <2> HIDE DEF I
  <2>3. QED
    BY <2>2
<1>6. g = [s \in SUBSET c |-> IF s = {} THEN 0 ELSE f[X(s)] + g[s \ {X(s)}]]
  BY <1>5
<1> HIDE DEF g, X
<1>7. IsSum(f, c, g)
  BY <1>6 DEF IsSum, X
<1>8. QED
  BY <1>7

\* The sum over a set is that over what remains without one of its elements.
LEMMA SumFirst ==
  ASSUME NEW f, NEW S, IsFiniteSet(S)
  PROVE  LET x == CHOOSE x \in S : TRUE
         IN  SumFunctionOnSet(f, S) = IF S = {} THEN 0 ELSE f[x] + SumFunctionOnSet(f, S \ {x})
<1> DEFINE x == CHOOSE x \in S : TRUE
           r == S \ {x}
           g == CHOOSE g : IsSum(f, S, g)
           h == CHOOSE h : IsSum(f, r, h)
<1>1. IsFiniteSet(r)
  BY FS_Subset
<1>2. IsSum(f, S, g) /\ IsSum(f, r, h)
  BY <1>1, SumExists
<1>3. SumFunctionOnSet(f, S) = g[S] /\ SumFunctionOnSet(f, r) = h[r]
  BY SumIs
<1> HIDE DEF g, h
<1>4. IsSum(f, r, [s \in SUBSET r |-> g[s]])
  BY <1>2, SumRestricted
<1>5. [s \in SUBSET r |-> g[s]] = h
  BY <1>1, <1>2, <1>4, SumUnique
<1>6. h[r] = g[r]
  BY <1>5
<1>7. g[S] = IF S = {} THEN 0 ELSE f[x] + g[r]
  BY <1>2 DEF IsSum
<1>8. QED
  BY <1>3, <1>6, <1>7

LEMMA SumEmpty == \A f : SumFunctionOnSet(f, {}) = 0
  BY SumFirst, FS_EmptySet

LEMMA SumType ==
  ASSUME NEW f, NEW S, IsFiniteSet(S), \A x \in S : f[x] \in Int
  PROVE  SumFunctionOnSet(f, S) \in Int
<1> DEFINE C == {A \in SUBSET S : SumFunctionOnSet(f, A) \notin Int}
<1> SUFFICES ASSUME C # {} PROVE FALSE
  OBVIOUS
<1>1. \A c \in C : c \subseteq S /\ IsFiniteSet(c)
  BY FS_Subset
<1>0. C \in SUBSET (SUBSET S)
  OBVIOUS
<1> HIDE DEF C
<1>2. PICK c \in C : \A d \in C : d \subseteq c => d = c
  BY <1>0, LeastPart
<1> USE DEF C
<1> DEFINE x == CHOOSE x \in c : TRUE
<1>3. SumFunctionOnSet(f, c) = IF c = {} THEN 0 ELSE f[x] + SumFunctionOnSet(f, c \ {x})
  BY <1>1, SumFirst
<1>4. CASE c = {}
  BY <1>3, <1>4
<1>5. CASE c # {}
  <2>1. x \in c
    BY <1>5
  <2>2. c \ {x} \notin C
    BY <1>2, <2>1
  <2>3. SumFunctionOnSet(f, c \ {x}) \in Int /\ f[x] \in Int
    BY <2>1, <2>2
  <2>4. QED
    BY <1>3, <1>5, <2>3
<1>6. QED
  BY <1>4, <1>5

\* Whichever element is taken off first.
LEMMA SumWithout ==
  ASSUME NEW f, NEW S, IsFiniteSet(S), \A x \in S : f[x] \in Int, NEW y \in S
  PROVE  SumFunctionOnSet(f, S) = f[y] + SumFunctionOnSet(f, S \ {y})
<1> DEFINE Sum(A) == SumFunctionOnSet(f, A)
           C == {A \in SUBSET S : \E z \in A : Sum(A) # f[z] + Sum(A \ {z})}
<1> SUFFICES ASSUME C # {} PROVE FALSE
  OBVIOUS
<1>1. \A c \in SUBSET S : IsFiniteSet(c)
  BY FS_Subset
<1>0. C \in SUBSET (SUBSET S)
  OBVIOUS
<1> HIDE DEF C
<1>2. PICK c \in C : \A d \in C : d \subseteq c => d = c
  BY <1>0, LeastPart
<1> USE DEF C
<1>3. PICK z \in c : Sum(c) # f[z] + Sum(c \ {z})
  OBVIOUS
<1> DEFINE x == CHOOSE x \in c : TRUE
<1>4. x \in c
  OBVIOUS
<1>5. Sum(c) = f[x] + Sum(c \ {x})
  BY <1>1, SumFirst
<1>6. \A A \in SUBSET S : Sum(A) \in Int
  BY <1>1, SumType
<1> HIDE DEF Sum
<1>7. x # z
  BY <1>3, <1>5
<1>8. c \ {x} \notin C /\ c \ {z} \notin C
  BY <1>2, <1>3, <1>4
<1>9. /\ Sum(c \ {x}) = f[z] + Sum((c \ {x}) \ {z})
      /\ Sum(c \ {z}) = f[x] + Sum((c \ {z}) \ {x})
  BY <1>3, <1>4, <1>7, <1>8
<1>10. (c \ {x}) \ {z} = (c \ {z}) \ {x}
  OBVIOUS
<1> DEFINE rest == Sum((c \ {z}) \ {x})
<1>11. rest \in Int /\ f[x] \in Int /\ f[z] \in Int
  BY <1>4, <1>6
<1> HIDE DEF rest, C
<1>12. Sum(c) = f[x] + (f[z] + rest) /\ Sum(c \ {z}) = f[x] + rest
  BY <1>5, <1>9, <1>10 DEF rest
<1> HIDE DEF x
<1>13. Sum(c) = f[z] + Sum(c \ {z})
  BY <1>11, <1>12
<1>14. QED
  BY <1>3, <1>13

LEMMA SumWith ==
  ASSUME NEW f, NEW S, IsFiniteSet(S), \A x \in S : f[x] \in Int, NEW A \in SUBSET S, NEW y \in S \ A
  PROVE  /\ SumFunctionOnSet(f, A \union {y}) = f[y] + SumFunctionOnSet(f, A)
         /\ SumFunctionOnSet(f, A) \in Int /\ f[y] \in Int
         /\ SumFunctionOnSet(f, A \union {y}) \in Int
<1>1. /\ IsFiniteSet(A \union {y}) /\ A \union {y} \in SUBSET S
      /\ (A \union {y}) \ {y} = A /\ IsFiniteSet(A)
  BY FS_Subset
<1>2. QED
  BY <1>1, SumWithout, SumType

LEMMA SumBelow ==
  ASSUME NEW S, IsFiniteSet(S), NEW f, NEW g,
         \A x \in S : f[x] \in Int /\ g[x] \in Int /\ f[x] <= g[x]
  PROVE  SumFunctionOnSet(f, S) <= SumFunctionOnSet(g, S)
<1> DEFINE M == {A \in SUBSET S : SumFunctionOnSet(f, A) <= SumFunctionOnSet(g, A)}
<1>1. {} \in M
  BY SumEmpty
<1>2. ASSUME NEW A \in SUBSET S, NEW x \in S \ A, A \in M PROVE A \union {x} \in M
  <2>1. /\ SumFunctionOnSet(f, A \union {x}) = f[x] + SumFunctionOnSet(f, A)
        /\ SumFunctionOnSet(g, A \union {x}) = g[x] + SumFunctionOnSet(g, A)
        /\ SumFunctionOnSet(f, A) \in Int /\ SumFunctionOnSet(g, A) \in Int
    BY SumWith
  <2>2. QED
    BY <1>2, <2>1
<1> HIDE DEF M
<1>3. S \in M
  BY <1>1, <1>2, FiniteInduction
<1>4. QED
  BY <1>3 DEF M

LEMMA SumSame ==
  ASSUME NEW S, IsFiniteSet(S), NEW f, NEW g, \A x \in S : f[x] \in Int /\ f[x] = g[x]
  PROVE  SumFunctionOnSet(f, S) = SumFunctionOnSet(g, S)
  BY SumBelow, SumType

LEMMA SumConstant ==
  ASSUME NEW S, IsFiniteSet(S), NEW f, NEW b \in Int, \A x \in S : f[x] = b
  PROVE  SumFunctionOnSet(f, S) = b * Cardinality(S)
<1> DEFINE M == {A \in SUBSET S : SumFunctionOnSet(f, A) = b * Cardinality(A)}
<1>1. {} \in M
  BY SumEmpty, FS_EmptySet
<1>2. ASSUME NEW A \in SUBSET S, NEW x \in S \ A, A \in M PROVE A \union {x} \in M
  <2>1. SumFunctionOnSet(f, A \union {x}) = b + SumFunctionOnSet(f, A)
    BY SumWith
  <2>2. IsFiniteSet(A)
    BY FS_Subset
  <2>3. Cardinality(A) \in Nat /\ Cardinality(A \union {x}) = Cardinality(A) + 1
    BY <2>2, FS_AddElement, FS_CardinalityType
  <2>4. \A c \in Nat : b * (c + 1) = b + b * c
    OBVIOUS
  <2>5. QED
    BY <1>2, <2>1, <2>3, <2>4
<1> HIDE DEF M
<1>3. S \in M
  BY <1>1, <1>2, FiniteInduction
<1>4. QED
  BY <1>3 DEF M

LEMMA SumBounds ==
  ASSUME NEW S, IsFiniteSet(S), NEW f, NEW a \in Int, NEW b \in Int,
         \A x \in S : f[x] \in Int /\ a <= f[x] /\ f[x] <= b
  PROVE  a * Cardinality(S) <= SumFunctionOnSet(f, S) /\ SumFunctionOnSet(f, S) <= b * Cardinality(S)
<1> DEFINE low == [x \in S |-> a]
           high == [x \in S |-> b]
<1>1. SumFunctionOnSet(low, S) = a * Cardinality(S) /\ SumFunctionOnSet(high, S) = b * Cardinality(S)
  BY SumConstant
<1>2. SumFunctionOnSet(low, S) <= SumFunctionOnSet(f, S) /\ SumFunctionOnSet(f, S) <= SumFunctionOnSet(high, S)
  BY SumBelow
<1>3. QED
  BY <1>1, <1>2

LEMMA SumAdded ==
  ASSUME NEW S, IsFiniteSet(S), NEW f, NEW g, NEW h,
         \A x \in S : f[x] \in Int /\ g[x] \in Int /\ h[x] = f[x] + g[x]
  PROVE  SumFunctionOnSet(h, S) = SumFunctionOnSet(f, S) + SumFunctionOnSet(g, S)
<1> DEFINE M == {A \in SUBSET S : SumFunctionOnSet(h, A) = SumFunctionOnSet(f, A) + SumFunctionOnSet(g, A)}
<1>1. {} \in M
  BY SumEmpty
<1>2. ASSUME NEW A \in SUBSET S, NEW x \in S \ A, A \in M PROVE A \union {x} \in M
  <2>1. /\ SumFunctionOnSet(f, A \union {x}) = f[x] + SumFunctionOnSet(f, A)
        /\ SumFunctionOnSet(g, A \union {x}) = g[x] + SumFunctionOnSet(g, A)
        /\ SumFunctionOnSet(f, A) \in Int /\ SumFunctionOnSet(g, A) \in Int
    BY SumWith
  <2>2. \A y \in S : h[y] \in Int
    OBVIOUS
  <2>3. SumFunctionOnSet(h, A \union {x}) = h[x] + SumFunctionOnSet(h, A)
    BY <2>2, SumWith
  <2>4. QED
    BY <1>2, <2>1, <2>3
<1> HIDE DEF M
<1>3. S \in M
  BY <1>1, <1>2, FiniteInduction
<1>4. QED
  BY <1>3 DEF M

\* A sum over the values of an injective function.
LEMMA SumOfImage ==
  ASSUME NEW S, IsFiniteSet(S), NEW f, NEW e, NEW h,
         \A x \in S : f[e[x]] \in Int /\ h[x] = f[e[x]],
         \A x, y \in S : e[x] = e[y] => x = y
  PROVE  SumFunctionOnSet(f, {e[x] : x \in S}) = SumFunctionOnSet(h, S)
<1> DEFINE Im(A) == {e[x] : x \in A}
           M == {A \in SUBSET S : /\ IsFiniteSet(Im(A))
                                  /\ SumFunctionOnSet(f, Im(A)) = SumFunctionOnSet(h, A)}
<1>1. {} \in M
  <2>1. Im({}) = {}
    OBVIOUS
  <2>2. QED
    BY <2>1, SumEmpty, FS_EmptySet
<1>2. ASSUME NEW A \in SUBSET S, NEW x \in S \ A, A \in M PROVE A \union {x} \in M
  <2>1. Im(A \union {x}) = Im(A) \union {e[x]} /\ e[x] \notin Im(A)
    OBVIOUS
  <2>3. \A y \in Im(A) \union {e[x]} : f[y] \in Int
    OBVIOUS
  <2> DEFINE J == Im(A)
  <2>2. IsFiniteSet(J)
    BY <1>2
  <2>4. /\ IsFiniteSet(J \union {e[x]}) /\ J \in SUBSET (J \union {e[x]}) /\ e[x] \in (J \union {e[x]}) \ J
        /\ \A y \in J \union {e[x]} : f[y] \in Int
    <3>1. e[x] \notin J /\ \A y \in J \union {e[x]} : f[y] \in Int
      BY <2>1, <2>3
    <3> HIDE DEF J
    <3>2. QED
      BY <2>2, <3>1, FS_AddElement
  <2> HIDE DEF J
  <2>5. SumFunctionOnSet(f, J \union {e[x]}) = f[e[x]] + SumFunctionOnSet(f, J)
    BY <2>4, SumWith
  <2>6. \A y \in S : h[y] \in Int
    OBVIOUS
  <2>7. SumFunctionOnSet(h, A \union {x}) = h[x] + SumFunctionOnSet(h, A)
    BY <2>6, SumWith
  <2>8. SumFunctionOnSet(f, Im(A \union {x})) = SumFunctionOnSet(h, A \union {x})
    BY <1>2, <2>1, <2>5, <2>7 DEF J
  <2>9. IsFiniteSet(Im(A \union {x}))
    BY <2>1, <2>4 DEF J
  <2>10. QED
    BY <2>8, <2>9
<1> HIDE DEF M
<1>3. S \in M
  BY <1>1, <1>2, FiniteInduction
<1>4. QED
  BY <1>3 DEF M

LEMMA SumSplit ==
  ASSUME NEW S, IsFiniteSet(S), NEW f, \A x \in S : f[x] \in Int, NEW R \in SUBSET S
  PROVE  SumFunctionOnSet(f, S) = SumFunctionOnSet(f, R) + SumFunctionOnSet(f, S \ R)
<1> DEFINE Q == S \ R
           M == {A \in SUBSET Q : SumFunctionOnSet(f, R \union A) = SumFunctionOnSet(f, R) + SumFunctionOnSet(f, A)}
<1>1. {} \in M
  <2>1. R \union {} = R /\ SumFunctionOnSet(f, R) \in Int
    BY FS_Subset, SumType
  <2>2. QED
    BY <2>1, SumEmpty
<1>2. ASSUME NEW A \in SUBSET Q, NEW x \in Q \ A, A \in M PROVE A \union {x} \in M
  <2>1. /\ SumFunctionOnSet(f, A \union {x}) = f[x] + SumFunctionOnSet(f, A)
        /\ SumFunctionOnSet(f, A) \in Int /\ f[x] \in Int
    BY SumWith
  <2>2. R \union A \in SUBSET S /\ x \in S \ (R \union A) /\ R \union (A \union {x}) = (R \union A) \union {x}
    OBVIOUS
  <2>3. SumFunctionOnSet(f, R \union (A \union {x})) = f[x] + SumFunctionOnSet(f, R \union A)
    BY <2>2, SumWith
  <2>4. SumFunctionOnSet(f, R) \in Int
    BY FS_Subset, SumType
  <2>5. QED
    BY <1>2, <2>1, <2>3, <2>4
<1>3. IsFiniteSet(Q) /\ R \union Q = S
  BY FS_Subset
<1> HIDE DEF M
<1>4. S \ R \in M
  BY <1>1, <1>2, <1>3, FiniteInduction
<1>5. QED
  BY <1>3, <1>4 DEF M
-----------------------------------------------------------------------------
\* The column of a row, and what the assignment costs that uses the columns of g.
Matched == [i \in Rows |-> CHOOSE j \in Columns : AssignedTo(i, j)]
Costs(g) == SumFunctionOnSet([i \in Rows |-> problem.cost[i][g[i]]], Rows)

\* No column is used by two rows.
Assignments == {g \in [Rows -> Columns] : \A i, k \in Rows : g[i] = g[k] => i = k}

LEMMA MatchedRows ==
  ASSUME Certified, at = "done"
  PROVE  /\ Matched \in Assignments
         /\ \A i \in Rows : AssignedTo(i, Matched[i]) /\ Slack(i, Matched[i]) = 0
         /\ \A i \in Rows, k \in Columns : AssignedTo(i, k) => k = Matched[i]
<1>1. ASSUME NEW i \in Rows
      PROVE  /\ Matched[i] \in Columns /\ AssignedTo(i, Matched[i]) /\ Slack(i, Matched[i]) = 0
             /\ \A k \in Columns : AssignedTo(i, k) => k = Matched[i]
  <2>1. PICK j \in Columns : /\ AssignedTo(i, j) /\ Slack(i, j) = 0
                             /\ \A k \in Columns : AssignedTo(i, k) => k = j
    BY DEF Certified
  <2>2. Matched[i] = j
    BY <2>1 DEF Matched
  <2>3. QED
    BY <2>1, <2>2
<1>2. Matched \in [Rows -> Columns]
  BY <1>1 DEF Matched
<1>3. \A i, k \in Rows : Matched[i] = Matched[k] => i = k
  BY <1>1 DEF AssignedTo
<1>4. QED
  BY <1>1, <1>2, <1>3 DEF Assignments

LEMMA DualTypes ==
  ASSUME WellFormed(problem), TypeOK
  PROVE  /\ IsFiniteSet(Rows) /\ IsFiniteSet(Columns)
         /\ \A i \in Rows : u[i] \in Int
         /\ \A j \in Columns : v[j] \in Int
         /\ \A i \in Rows, j \in Columns : problem.cost[i][j] \in Int
<1>1. IsFiniteSet(Rows) /\ IsFiniteSet(Columns)
  BY FS_Interval DEF WellFormed, Rows, Columns
<1>2. (\A i \in Rows : i \in 0 .. problem.rows) /\ \A j \in Columns : j \in 0 .. problem.cols
  BY DEF WellFormed, Rows, Columns
<1>3. (\A i \in Rows : u[i] \in Int) /\ \A j \in Columns : v[j] \in Int
  BY <1>2 DEF TypeOK
<1>4. ASSUME NEW i \in Rows, NEW j \in Columns PROVE problem.cost[i][j] \in Int
  <2>1. problem.cost[i] \in [1 .. problem.cols -> Int]
    BY DEF WellFormed, Rows
  <2>2. QED
    BY <2>1 DEF Columns
<1>5. QED
  BY <1>1, <1>3, <1>4

\* What a row and its column cost together, over all rows, is what the rows cost
\* and what their columns cost.
LEMMA Duals ==
  ASSUME WellFormed(problem), TypeOK, FreeColumnsAreUnpriced, NEW g \in Assignments
  PROVE  LET Im == {g[i] : i \in Rows}
             both == [i \in Rows |-> u[i] + v[g[i]]]
         IN  /\ SumFunctionOnSet(both, Rows) = SumFunctionOnSet(u, Rows) + SumFunctionOnSet(v, Im)
             /\ SumFunctionOnSet(v, Columns) = SumFunctionOnSet(v, Im) + SumFunctionOnSet(v, Columns \ Im)
             /\ SumFunctionOnSet(u, Rows) \in Int /\ SumFunctionOnSet(v, Im) \in Int
             /\ SumFunctionOnSet(v, Columns \ Im) \in Int
             /\ IsFiniteSet(Columns \ Im)
<1> DEFINE Im == {g[i] : i \in Rows}
           both == [i \in Rows |-> u[i] + v[g[i]]]
           there == [i \in Rows |-> v[g[i]]]
<1>1. IsFiniteSet(Rows) /\ IsFiniteSet(Columns)
  BY DualTypes
<1>2. (\A i \in Rows : u[i] \in Int /\ g[i] \in Columns) /\ \A j \in Columns : v[j] \in Int
  BY DualTypes DEF Assignments
<1>3. SumFunctionOnSet(both, Rows) = SumFunctionOnSet(u, Rows) + SumFunctionOnSet(there, Rows)
  BY <1>1, <1>2, SumAdded
<1>4. SumFunctionOnSet(v, Im) = SumFunctionOnSet(there, Rows)
  BY <1>1, <1>2, SumOfImage DEF Assignments
<1>5. Im \in SUBSET Columns /\ IsFiniteSet(Im) /\ IsFiniteSet(Columns \ Im)
  BY <1>1, <1>2, FS_Subset
<1> HIDE DEF Im, both, there
<1>6. SumFunctionOnSet(v, Columns) = SumFunctionOnSet(v, Im) + SumFunctionOnSet(v, Columns \ Im)
  BY <1>1, <1>2, <1>5, SumSplit
<1>7. /\ SumFunctionOnSet(u, Rows) \in Int /\ SumFunctionOnSet(v, Im) \in Int
      /\ SumFunctionOnSet(v, Columns \ Im) \in Int
  BY <1>1, <1>2, <1>5, SumType
<1>8. QED
  BY <1>3, <1>4, <1>5, <1>6, <1>7 DEF Im, both

\* Weak duality: the potentials bound what any assignment costs, and the one
\* found meets the bound.
LEMMA NoneIsCheaper ==
  ASSUME WellFormed(problem), TypeOK, Certified, at = "done", NEW g \in Assignments
  PROVE  Costs(Matched) <= Costs(g)
<1> DEFINE all == SumFunctionOnSet(u, Rows) + SumFunctionOnSet(v, Columns)
<1>1. FreeColumnsAreUnpriced /\ \A i \in Rows, j \in Columns : Slack(i, j) >= 0
  BY DEF Certified
<1>2. IsFiniteSet(Rows) /\ IsFiniteSet(Columns)
  BY DualTypes
<1>3. \A i \in Rows, j \in Columns :
        /\ u[i] \in Int /\ v[j] \in Int /\ problem.cost[i][j] \in Int
        /\ Slack(i, j) = problem.cost[i][j] - u[i] - v[j]
  BY DualTypes DEF Slack
<1>4. \A j \in Columns : v[j] \in Int
  BY DualTypes
<1>5. all <= Costs(g)
  <2> DEFINE Im == {g[i] : i \in Rows}
             both == [i \in Rows |-> u[i] + v[g[i]]]
             cost == [i \in Rows |-> problem.cost[i][g[i]]]
             rest == SumFunctionOnSet(v, Columns \ Im)
  <2>1. /\ SumFunctionOnSet(both, Rows) = SumFunctionOnSet(u, Rows) + SumFunctionOnSet(v, Im)
        /\ SumFunctionOnSet(v, Columns) = SumFunctionOnSet(v, Im) + rest
        /\ SumFunctionOnSet(u, Rows) \in Int /\ SumFunctionOnSet(v, Im) \in Int
        /\ rest \in Int /\ IsFiniteSet(Columns \ Im)
    BY <1>1, Duals
  <2>2. \A i \in Rows : g[i] \in Columns
    BY DEF Assignments
  <2>3. \A i \in Rows : both[i] \in Int /\ cost[i] \in Int /\ both[i] <= cost[i]
    BY <1>1, <1>3, <2>2
  <2>4. SumFunctionOnSet(both, Rows) <= SumFunctionOnSet(cost, Rows) /\ SumFunctionOnSet(cost, Rows) \in Int
    BY <1>2, <2>3, SumBelow, SumType
  <2>5. rest <= 0
    <3> DEFINE zero == [j \in Columns \ Im |-> 0]
    <3>1. \A j \in Columns \ Im : v[j] \in Int /\ zero[j] \in Int /\ v[j] <= zero[j]
      BY <1>1, <1>4 DEF FreeColumnsAreUnpriced
    <3>2. SumFunctionOnSet(zero, Columns \ Im) = 0 * Cardinality(Columns \ Im)
      BY <2>1, SumConstant
    <3>3. Cardinality(Columns \ Im) \in Nat
      BY <2>1, FS_CardinalityType
    <3> HIDE DEF zero, Im
    <3>4. SumFunctionOnSet(v, Columns \ Im) <= SumFunctionOnSet(zero, Columns \ Im)
      BY <2>1, <3>1, SumBelow
    <3>5. QED
      BY <3>2, <3>3, <3>4, <2>1
  <2>6. Costs(g) = SumFunctionOnSet(cost, Rows)
    BY DEF Costs
  <2> HIDE DEF rest, both, cost, Im
  <2>7. QED
    BY <2>1, <2>4, <2>5, <2>6
<1>6. Costs(Matched) = all
  <2> DEFINE Im == {Matched[i] : i \in Rows}
             both == [i \in Rows |-> u[i] + v[Matched[i]]]
             cost == [i \in Rows |-> problem.cost[i][Matched[i]]]
             rest == SumFunctionOnSet(v, Columns \ Im)
  <2>0. Matched \in Assignments
    BY MatchedRows
  <2>1. /\ SumFunctionOnSet(both, Rows) = SumFunctionOnSet(u, Rows) + SumFunctionOnSet(v, Im)
        /\ SumFunctionOnSet(v, Columns) = SumFunctionOnSet(v, Im) + rest
        /\ SumFunctionOnSet(u, Rows) \in Int /\ SumFunctionOnSet(v, Im) \in Int
        /\ rest \in Int /\ IsFiniteSet(Columns \ Im)
    BY <1>1, <2>0, Duals
  <2>2. \A i \in Rows : Matched[i] \in Columns /\ Slack(i, Matched[i]) = 0
    BY MatchedRows DEF Assignments
  <2>3. ASSUME NEW i \in Rows PROVE both[i] \in Int /\ both[i] = cost[i]
    <3> DEFINE j == Matched[i]
    <3>1. j \in Columns /\ Slack(i, j) = 0
      BY <2>2
    <3>2. both[i] = u[i] + v[j] /\ cost[i] = problem.cost[i][j]
      OBVIOUS
    <3> HIDE DEF j, both, cost
    <3>3. QED
      BY <1>3, <3>1, <3>2
  <2>4. SumFunctionOnSet(both, Rows) = SumFunctionOnSet(cost, Rows)
    BY <1>2, <2>3, SumSame
  <2>5. rest = 0
    <3>1. ASSUME NEW j \in Columns \ Im PROVE v[j] = 0
      <4>1. parent[j] \in 0 .. problem.rows
        BY DEF TypeOK, WellFormed, Columns
      <4>2. CASE parent[j] = 0
        BY <1>1, <4>2 DEF FreeColumnsAreUnpriced
      <4>3. CASE parent[j] # 0
        <5>1. parent[j] \in Rows
          BY <4>1, <4>3 DEF Rows, WellFormed
        <5>2. AssignedTo(parent[j], j)
          BY DEF AssignedTo
        <5>3. j = Matched[parent[j]]
          BY <5>1, <5>2, MatchedRows
        <5>4. QED
          BY <5>1, <5>3
      <4>4. QED
        BY <4>2, <4>3
    <3>2. Cardinality(Columns \ Im) \in Nat
      BY <2>1, FS_CardinalityType
    <3> HIDE DEF Im
    <3>3. SumFunctionOnSet(v, Columns \ Im) = 0 * Cardinality(Columns \ Im)
      BY <2>1, <3>1, SumConstant
    <3>4. QED
      BY <3>2, <3>3
  <2>6. Costs(Matched) = SumFunctionOnSet(cost, Rows)
    BY DEF Costs
  <2> HIDE DEF rest, both, cost, Im
  <2>7. QED
    BY <2>1, <2>4, <2>5, <2>6
<1>7. QED
  BY <1>5, <1>6

NoneCheaper ==
  at = "done" => Matched \in Assignments /\ \A g \in Assignments : Costs(Matched) <= Costs(g)

\* For every cost matrix: when _hungarian returns, no assignment of the rows to
\* columns of their own costs less than the one it returns.
THEOREM CheapestFound == Hungarian => []NoneCheaper
<1>1. Inv => NoneCheaper
  BY Certificate, MatchedRows, NoneIsCheaper DEF Inv, NoneCheaper
<1>2. QED
  BY <1>1, InvHolds, PTL
-----------------------------------------------------------------------------
LEMMA Greatest ==
  ASSUME NEW S, IsFiniteSet(S), S # {}, S \subseteq Int
  PROVE  Max(S) \in S /\ \A y \in S : y <= Max(S)
<1> DEFINE Top(A) == \E m \in A : \A y \in A : m >= y
           M == {A \in SUBSET S : A = {} \/ Top(A)}
<1>1. {} \in M
  OBVIOUS
<1>2. ASSUME NEW A \in SUBSET S, NEW x \in S \ A, A \in M PROVE A \union {x} \in M
  <2>1. CASE A = {}
    BY <2>1
  <2>2. CASE Top(A)
    <3>1. PICK m \in A : \A y \in A : m >= y
      BY <2>2
    <3>2. m \in Int /\ x \in Int /\ \A y \in A : y \in Int
      OBVIOUS
    <3>3. m >= x => \A y \in A \union {x} : m >= y
      BY <3>1, <3>2
    <3>4. ~(m >= x) => \A y \in A \union {x} : x >= y
      BY <3>1, <3>2
    <3>5. QED
      BY <3>1, <3>3, <3>4
  <2>3. QED
    BY <1>2, <2>1, <2>2
<1> HIDE DEF M
<1>3. S \in M
  BY <1>1, <1>2, FiniteInduction
<1>4. \E m \in S : \A y \in S : m >= y
  BY <1>3 DEF M
<1>5. Max(S) \in S /\ \A y \in S : Max(S) >= y
  BY <1>4 DEF Max
<1>6. QED
  BY <1>5

\* In a linear order every element has a rank of its own: how many are not after it.
LEMMA Ranks ==
  ASSUME NEW S, IsFiniteSet(S), NEW below, \A i \in S : below[i] \subseteq S /\ i \in below[i],
         \A i, k \in S : i # k => \/ below[i] \subseteq below[k] /\ k \notin below[i]
                                  \/ below[k] \subseteq below[i] /\ i \notin below[k]
  PROVE  /\ Cardinality(S) \in Nat
         /\ \A i \in S : Cardinality(below[i]) \in 1 .. Cardinality(S)
         /\ \A i, k \in S : Cardinality(below[i]) = Cardinality(below[k]) => i = k
         /\ \A i, k \in S : k \in below[i] => Cardinality(below[k]) <= Cardinality(below[i])
         /\ \A n \in 1 .. Cardinality(S) : \E i \in S : Cardinality(below[i]) = n
<1> DEFINE c == Cardinality(S)
           rank == [i \in S |-> Cardinality(below[i])]
<1>0. c \in Nat
  BY FS_CardinalityType
<1>1. ASSUME NEW i \in S PROVE rank[i] \in 1 .. c /\ IsFiniteSet(below[i]) /\ rank[i] = Cardinality(below[i])
  <2>1. IsFiniteSet(below[i]) /\ Cardinality(below[i]) <= c
    BY FS_Subset
  <2>2. Cardinality(below[i]) \in Nat /\ Cardinality(below[i]) # 0
    BY <2>1, FS_CardinalityType, FS_EmptySet
  <2>3. QED
    BY <1>0, <2>1, <2>2
<1>2. ASSUME NEW i \in S, NEW k \in S, below[i] \subseteq below[k], k \notin below[i] PROVE rank[i] # rank[k]
  <2>1. Cardinality(below[i]) = Cardinality(below[k]) => below[i] = below[k]
    BY <1>1, <1>2, FS_Subset
  <2>2. QED
    BY <1>1, <1>2, <2>1
<1>3. \A i, k \in S : rank[i] = rank[k] => i = k
  <2> HIDE DEF rank
  <2>1. QED
    BY <1>2
<1>4. \A n \in 1 .. c : \E i \in S : rank[i] = n
  <2>1. rank \in [S -> 1 .. c]
    BY <1>1
  <2>2. IsFiniteSet(1 .. c) /\ Cardinality(1 .. c) = c
    BY <1>0, FS_Interval
  <2> HIDE DEF rank
  <2>3. rank \in Injection(S, 1 .. c)
    BY <1>3, <2>1 DEF Injection, IsInjective
  <2>4. rank \in Surjection(S, 1 .. c)
    BY <2>2, <2>3, FS_Injection
  <2>5. QED
    BY <2>4 DEF Surjection
<1>5. ASSUME NEW i \in S, NEW k \in S, k \in below[i] PROVE rank[k] <= rank[i]
  <2>1. below[k] \subseteq below[i]
    BY <1>5
  <2>2. Cardinality(below[k]) <= Cardinality(below[i])
    BY <1>1, <2>1, FS_Subset
  <2>3. QED
    BY <1>1, <2>2
<1> HIDE DEF rank
<1>6. QED
  BY <1>0, <1>1, <1>3, <1>4, <1>5

\* Counting off: every element is the n-th for exactly one n, the lesser before the
\* greater.
LEMMA Counted ==
  ASSUME NEW S, IsFiniteSet(S), S \subseteq Nat
  PROVE  /\ Cardinality(S) \in Nat
         /\ \A n \in 1 .. Cardinality(S) : Nth(S, n) \in S
         /\ \A m, n \in 1 .. Cardinality(S) : Nth(S, m) = Nth(S, n) => m = n
         /\ \A m, n \in 1 .. Cardinality(S) : m < n => Nth(S, m) < Nth(S, n)
         /\ \A i \in S : \E n \in 1 .. Cardinality(S) : Nth(S, n) = i
<1> DEFINE c == Cardinality(S)
           below == [i \in S |-> {k \in S : k <= i}]
<1>0. \A i \in S : i \in Nat
  OBVIOUS
<1>1. \A i \in S : below[i] \subseteq S /\ i \in below[i]
  BY <1>0
<1>2. \A i, k \in S : i # k => \/ below[i] \subseteq below[k] /\ k \notin below[i]
                               \/ below[k] \subseteq below[i] /\ i \notin below[k]
  <2>1. ASSUME NEW i \in S, NEW k \in S, i < k
        PROVE  below[i] \subseteq below[k] /\ k \notin below[i]
    <3>1. \A j \in S : j <= i => j <= k
      BY <1>0, <2>1
    <3>2. ~(k <= i)
      BY <1>0, <2>1
    <3>3. QED
      BY <3>1, <3>2
  <2>2. \A i, k \in S : i < k \/ k < i \/ i = k
    BY <1>0
  <2> HIDE DEF below
  <2>3. QED
    BY <2>1, <2>2
<1> HIDE DEF below
<1>4. /\ c \in Nat
      /\ \A i \in S : Cardinality(below[i]) \in 1 .. c
      /\ \A i, k \in S : Cardinality(below[i]) = Cardinality(below[k]) => i = k
      /\ \A i, k \in S : k \in below[i] => Cardinality(below[k]) <= Cardinality(below[i])
      /\ \A n \in 1 .. c : \E i \in S : Cardinality(below[i]) = n
  BY <1>1, <1>2, Ranks
<1>5. ASSUME NEW n \in 1 .. c PROVE Nth(S, n) \in S /\ Cardinality(below[Nth(S, n)]) = n
  <2>1. \A i \in S : below[i] = {k \in S : k <= i}
    BY DEF below
  <2>2. \E i \in S : Cardinality({k \in S : k <= i}) = n
    BY <1>4, <2>1
  <2>3. Nth(S, n) \in S /\ Cardinality({k \in S : k <= Nth(S, n)}) = n
    BY <2>2 DEF Nth
  <2>4. QED
    BY <2>1, <2>3
<1> HIDE DEF c
<1>6. \A i \in S : Nth(S, Cardinality(below[i])) = i
  BY <1>4, <1>5
<1>7. \A m, n \in 1 .. c : m < n => Nth(S, m) < Nth(S, n)
  <2>1. ASSUME NEW m \in 1 .. c, NEW n \in 1 .. c, m < n PROVE Nth(S, m) < Nth(S, n)
    <3>1. Nth(S, m) \in S /\ Nth(S, n) \in S /\ Nth(S, m) # Nth(S, n)
      BY <1>5, <2>1
    <3>2. Nth(S, m) \in Nat /\ Nth(S, n) \in Nat
      BY <1>0, <3>1
    <3>3. Nth(S, n) < Nth(S, m) => Nth(S, n) \in below[Nth(S, m)]
      BY <3>1, <3>2 DEF below
    <3>4. Nth(S, n) \notin below[Nth(S, m)]
      <4>1. Nth(S, n) \in below[Nth(S, m)]
              => Cardinality(below[Nth(S, n)]) <= Cardinality(below[Nth(S, m)])
        BY <1>4, <3>1
      <4>2. Cardinality(below[Nth(S, n)]) = n /\ Cardinality(below[Nth(S, m)]) = m
        BY <1>5
      <4>3. m \in Int /\ n \in Int
        BY <1>4
      <4>4. QED
        BY <2>1, <4>1, <4>2, <4>3
    <3>5. QED
      BY <3>1, <3>2, <3>3, <3>4
  <2>2. QED
    BY <2>1
<1>8. \A m, n \in 1 .. c : Nth(S, m) = Nth(S, n) => m = n
  BY <1>5
<1>9. QED
  BY <1>4, <1>5, <1>6, <1>7, <1>8 DEF c

\* So does sorting: every element has one place, the one with the greater key, or
\* of equals the first, before the other.
LEMMA RankedIs ==
  ASSUME NEW n \in Nat, NEW key, DOMAIN key = 1 .. n, \A i \in 1 .. n : key[i] \in Int
  PROVE  LET r == Ranked(key)
         IN  /\ r \in [1 .. n -> 1 .. n]
             /\ \A i, j \in 1 .. n : r[i] = r[j] => i = j
             /\ \A i \in 1 .. n : \E k \in 1 .. n : r[k] = i
             /\ \A i, j \in 1 .. n : i <= j => key[r[i]] >= key[r[j]]
             /\ \A i, j \in 1 .. n : i < j /\ key[r[i]] = key[r[j]] => r[i] < r[j]
<1> DEFINE S == 1 .. n
           below == [i \in S |-> UpTo(key, i)]
           r == Ranked(key)
<1>0. IsFiniteSet(S) /\ Cardinality(S) = n
  BY FS_Interval
<1>1. \A i \in S : below[i] = {j \in S : key[j] > key[i] \/ (key[j] = key[i] /\ j <= i)}
  BY DEF UpTo
<1> HIDE DEF below
<1>2. \A i, j \in S : j \in below[i] <=> key[j] > key[i] \/ (key[j] = key[i] /\ j <= i)
  BY <1>1
<1>3. \A i \in S : below[i] \subseteq S /\ i \in below[i]
  BY <1>1
<1>4. \A i, k \in S : i # k => \/ below[i] \subseteq below[k] /\ k \notin below[i]
                               \/ below[k] \subseteq below[i] /\ i \notin below[k]
  <2>1. ASSUME NEW i \in S, NEW k \in S, i # k, key[i] > key[k] \/ (key[i] = key[k] /\ i < k)
        PROVE  below[i] \subseteq below[k] /\ k \notin below[i]
    <3>1. k \notin below[i]
      BY <1>2, <2>1
    <3>2. ASSUME NEW j \in below[i] PROVE j \in below[k]
      <4>1. j \in S /\ (key[j] > key[i] \/ (key[j] = key[i] /\ j <= i))
        BY <1>1
      <4>2. key[j] > key[k] \/ (key[j] = key[k] /\ j <= k)
        BY <2>1, <4>1
      <4>3. QED
        BY <1>2, <4>1, <4>2
    <3>3. QED
      BY <3>1, <3>2
  <2>2. \A i, k \in S : i # k => \/ key[i] > key[k] \/ (key[i] = key[k] /\ i < k)
                                 \/ key[k] > key[i] \/ (key[k] = key[i] /\ k < i)
    OBVIOUS
  <2>3. QED
    BY <2>1, <2>2
<1>5. /\ \A i \in S : Cardinality(below[i]) \in 1 .. n
      /\ \A i, k \in S : Cardinality(below[i]) = Cardinality(below[k]) => i = k
      /\ \A i, k \in S : k \in below[i] => Cardinality(below[k]) <= Cardinality(below[i])
      /\ \A m \in 1 .. n : \E i \in S : Cardinality(below[i]) = m
  <2>1. IsFiniteSet(S)
    BY <1>0
  <2>2. Cardinality(S) = n
    BY <1>0
  <2> HIDE DEF S
  <2>3. /\ \A i \in S : Cardinality(below[i]) \in 1 .. Cardinality(S)
        /\ \A i, k \in S : Cardinality(below[i]) = Cardinality(below[k]) => i = k
        /\ \A i, k \in S : k \in below[i] => Cardinality(below[k]) <= Cardinality(below[i])
        /\ \A m \in 1 .. Cardinality(S) : \E i \in S : Cardinality(below[i]) = m
    BY <2>1, <1>3, <1>4, Ranks
  <2>4. QED
    BY <2>2, <2>3
<1>6. ASSUME NEW m \in S PROVE r[m] \in S /\ Cardinality(below[r[m]]) = m
  <2>1. r[m] = CHOOSE i \in S : Cardinality(UpTo(key, i)) = m
    BY DEF Ranked
  <2>2. \A i \in S : below[i] = UpTo(key, i)
    BY DEF below
  <2> HIDE DEF r
  <2>3. \E i \in S : Cardinality(UpTo(key, i)) = m
    BY <1>5, <2>2
  <2>4. r[m] \in S /\ Cardinality(UpTo(key, r[m])) = m
    BY <2>1, <2>3
  <2>5. QED
    BY <2>2, <2>4
<1>7. r \in [S -> S]
  <2>1. r = [m \in S |-> r[m]]
    BY DEF Ranked
  <2> HIDE DEF r
  <2>2. QED
    BY <1>6, <2>1
<1> HIDE DEF r
<1>8. \A i \in S : r[Cardinality(below[i])] = i
  <2>1. ASSUME NEW i \in S PROVE r[Cardinality(below[i])] = i
    <3>1. Cardinality(below[i]) \in S
      BY <1>5
    <3>2. r[Cardinality(below[i])] \in S /\ Cardinality(below[r[Cardinality(below[i])]]) = Cardinality(below[i])
      BY <1>6, <3>1
    <3>3. QED
      BY <1>5, <3>2
  <2>2. QED
    BY <2>1
<1>9. ASSUME NEW i \in S, NEW j \in S, i < j PROVE r[i] \in below[r[j]] /\ r[j] \notin below[r[i]]
  <2>1. r[j] \notin below[r[i]]
    <3>1. r[i] \in S /\ r[j] \in S /\ Cardinality(below[r[i]]) = i /\ Cardinality(below[r[j]]) = j
      BY <1>6
    <3>2. r[j] \in below[r[i]] => Cardinality(below[r[j]]) <= Cardinality(below[r[i]])
      BY <1>5, <3>1
    <3>3. i \in Nat /\ j \in Nat
      OBVIOUS
    <3>4. QED
      BY <1>9, <3>1, <3>2, <3>3
  <2>2. r[i] # r[j]
    BY <1>6, <1>9
  <2>3. QED
    BY <1>3, <1>4, <1>6, <2>1, <2>2
<1>10. ASSUME NEW i \in S, NEW j \in S, i < j
       PROVE  key[r[i]] >= key[r[j]] /\ (key[r[i]] = key[r[j]] => r[i] < r[j])
  <2>1. r[i] \in S /\ r[j] \in S /\ r[i] # r[j]
    BY <1>6, <1>10
  <2>2. key[r[i]] > key[r[j]] \/ (key[r[i]] = key[r[j]] /\ r[i] <= r[j])
    BY <1>2, <1>9, <1>10, <2>1
  <2>3. key[r[i]] \in Int /\ key[r[j]] \in Int /\ r[i] \in Int /\ r[j] \in Int
    BY <2>1
  <2>4. QED
    BY <2>1, <2>2, <2>3
<1>11. \A i, j \in S : i <= j => key[r[i]] >= key[r[j]]
  <2>1. ASSUME NEW i \in S, NEW j \in S, i <= j PROVE key[r[i]] >= key[r[j]]
    <3>1. CASE i < j
      BY <1>10, <3>1
    <3>2. CASE i = j
      BY <1>6, <3>2
    <3>3. QED
      BY <2>1, <3>1, <3>2
  <2>2. QED
    BY <2>1
<1>12. QED
  BY <1>5, <1>6, <1>7, <1>8, <1>10, <1>11 DEF r
-----------------------------------------------------------------------------
\* What the Python idioms deliver.

LEMMA Bounds ==
  ASSUME NEW a \in Int, NEW b \in Int
  PROVE  /\ AtLeast(a, b) = IF a >= b THEN a ELSE b
         /\ AtMost(a, b) = IF a <= b THEN a ELSE b
<1>1. \E m \in {a, b} : \A x \in {a, b} : m >= x
  OBVIOUS
<1>2. Max({a, b}) \in {a, b} /\ \A x \in {a, b} : Max({a, b}) >= x
  BY <1>1 DEF Max
<1>3. \E m \in {a, b} : \A x \in {a, b} : m <= x
  OBVIOUS
<1>4. Min({a, b}) \in {a, b} /\ \A x \in {a, b} : Min({a, b}) <= x
  BY <1>3 DEF Min
<1>5. QED
  BY <1>2, <1>4 DEF AtLeast, AtMost

LEMMA Length ==
  ASSUME NEW n \in Nat, NEW s, s = [i \in 1 .. n |-> s[i]]
  PROVE  /\ Len(s) = n /\ DOMAIN s = 1 .. n /\ (s = <<>> <=> n = 0)
         /\ \A T : (\A i \in 1 .. n : s[i] \in T) => s \in Seq(T)
<1>1. DOMAIN s = 1 .. n
  OBVIOUS
<1>2. ASSUME NEW T, \A i \in 1 .. n : s[i] \in T PROVE s \in Seq(T)
  <2>1. s \in [1 .. n -> T]
    BY <1>2
  <2>2. QED
    BY <2>1, IsASeq
<1>3. s \in Seq({s[i] : i \in 1 .. n})
  BY <1>2
<1>4. Len(s) = n
  BY <1>1, <1>3, LenProperties
<1>5. s = <<>> <=> n = 0
  BY <1>1, <1>3, <1>4, EmptySeq
<1>6. QED
  BY <1>1, <1>2, <1>4, <1>5

LEMMA TakeIs ==
  ASSUME NEW n \in Nat, NEW s, Len(s) = n, NEW m \in Int
  PROVE  LET t == Take(s, m)
             l == IF m <= n THEN (IF m < 0 THEN 0 ELSE m) ELSE n
         IN  /\ Len(t) = l /\ DOMAIN t = 1 .. l
             /\ \A i \in 1 .. l : t[i] = s[i]
<1> DEFINE l == IF m <= n THEN (IF m < 0 THEN 0 ELSE m) ELSE n
           t == Take(s, m)
<1>1. AtMost(m, n) = IF m <= n THEN m ELSE n
  BY Bounds
<1>2. l \in Nat /\ 1 .. AtMost(m, n) = 1 .. l
  BY <1>1
<1> HIDE DEF l
<1>3. t = [i \in 1 .. l |-> s[i]]
  BY <1>2 DEF Take
<1> HIDE DEF t
<1>4. t = [i \in 1 .. l |-> t[i]]
  BY <1>3
<1>5. Len(t) = l /\ DOMAIN t = 1 .. l
  BY <1>2, <1>4, Length
<1>6. QED
  BY <1>3, <1>5 DEF t, l

LEMMA Spaces == \A n \in Nat : IsFiniteSet(1 .. n) /\ Cardinality(1 .. n) = n
  BY FS_Interval

LEMMA SameSize ==
  ASSUME NEW S, IsFiniteSet(S), NEW e, \A x, y \in S : e[x] = e[y] => x = y
  PROVE  IsFiniteSet({e[x] : x \in S}) /\ Cardinality({e[x] : x \in S}) = Cardinality(S)
<1> DEFINE T == {e[x] : x \in S}
           b == [x \in S |-> e[x]]
<1>1. b \in Bijection(S, T)
  BY DEF Bijection, Injection, IsInjective, Surjection
<1>2. ExistsBijection(S, T)
  BY <1>1 DEF ExistsBijection
<1> HIDE DEF T
<1>3. IsFiniteSet(T) /\ Cardinality(T) = Cardinality(S)
  BY <1>2, FS_Bijection
<1>4. QED
  BY <1>3 DEF T

LEMMA KeptIs ==
  ASSUME NEW n \in Nat, NEW s, DOMAIN s = 1 .. n, NEW S \in SUBSET (1 .. n)
  PROVE  LET t == Kept(s, S)
             c == Cardinality(S)
         IN  /\ c \in Nat /\ c <= n /\ Len(t) = c /\ DOMAIN t = 1 .. c /\ (t = <<>> <=> S = {})
             /\ \A k \in 1 .. c : t[k] = s[Nth(S, k)] /\ Nth(S, k) \in S
             /\ \A i \in S : \E k \in 1 .. c : Nth(S, k) = i
             /\ \A k, l \in 1 .. c : Nth(S, k) = Nth(S, l) => k = l
             /\ \A k, l \in 1 .. c : k < l => Nth(S, k) < Nth(S, l)
<1> DEFINE t == Kept(s, S)
           c == Cardinality(S)
<1>1. IsFiniteSet(1 .. n) /\ Cardinality(1 .. n) = n
  BY Spaces
<1>2. IsFiniteSet(S) /\ Cardinality(S) <= n /\ S \subseteq Nat
  <2>1. IsFiniteSet(S) /\ Cardinality(S) <= Cardinality(1 .. n)
    BY <1>1, FS_Subset
  <2>2. QED
    BY <1>1, <2>1
<1>3. /\ c \in Nat
      /\ \A k \in 1 .. c : Nth(S, k) \in S
      /\ \A i \in S : \E k \in 1 .. c : Nth(S, k) = i
      /\ \A k, l \in 1 .. c : Nth(S, k) = Nth(S, l) => k = l
      /\ \A k, l \in 1 .. c : k < l => Nth(S, k) < Nth(S, l)
  BY <1>2, Counted
<1>4. t = [k \in 1 .. c |-> s[Nth(S, k)]]
  BY DEF Kept
<1>5. c = 0 <=> S = {}
  BY <1>2, FS_EmptySet
<1>9. c <= n
  BY <1>2
<1> HIDE DEF t, c
<1>6. t = [k \in 1 .. c |-> t[k]] /\ \A k \in 1 .. c : t[k] = s[Nth(S, k)]
  BY <1>4
<1>7. Len(t) = c /\ DOMAIN t = 1 .. c /\ (t = <<>> <=> c = 0)
  BY <1>3, <1>6, Length
<1>8. QED
  BY <1>3, <1>5, <1>6, <1>7, <1>9 DEF t, c

LEMMA ListedIs ==
  ASSUME NEW n \in Nat, NEW S \in SUBSET (1 .. n)
  PROVE  LET t == Listed(S)
             c == Cardinality(S)
         IN  /\ c \in Nat /\ c <= n /\ Len(t) = c /\ DOMAIN t = 1 .. c /\ (t = <<>> <=> S = {})
             /\ \A k \in 1 .. c : t[k] \in S
             /\ \A i \in S : \E k \in 1 .. c : t[k] = i
             /\ \A k, l \in 1 .. c : t[k] = t[l] => k = l
             /\ \A k, l \in 1 .. c : k < l => t[k] < t[l]
<1> DEFINE t == Listed(S)
           c == Cardinality(S)
           id == [i \in 1 .. n |-> i]
<1>1. DOMAIN id = 1 .. n /\ \A i \in 1 .. n : id[i] = i
  OBVIOUS
<1> HIDE DEF id
<1>2. /\ c \in Nat /\ c <= n /\ Len(Kept(id, S)) = c /\ DOMAIN Kept(id, S) = 1 .. c
      /\ (Kept(id, S) = <<>> <=> S = {})
      /\ \A k \in 1 .. c : Kept(id, S)[k] = id[Nth(S, k)] /\ Nth(S, k) \in S
      /\ \A i \in S : \E k \in 1 .. c : Nth(S, k) = i
      /\ \A k, l \in 1 .. c : Nth(S, k) = Nth(S, l) => k = l
      /\ \A k, l \in 1 .. c : k < l => Nth(S, k) < Nth(S, l)
  BY <1>1, KeptIs
<1>3. \A k \in 1 .. c : id[Nth(S, k)] = Nth(S, k)
  BY <1>1, <1>2
<1>4. Kept(id, S) = Listed(S)
  BY <1>3 DEF Kept, Listed
<1>5. \A k \in 1 .. c : t[k] = Nth(S, k)
  BY <1>2, <1>3, <1>4
<1>6. QED
  BY <1>2, <1>4, <1>5

\* A sequence in the order of a key: each of its elements at one place, the one with
\* the greater key, or of equals the first, before the other.
Arranged(t, s, key, n) ==
  /\ DOMAIN s = 1 .. n /\ DOMAIN key = 1 .. n /\ \A i \in 1 .. n : key[i] \in Int
  /\ t = [m \in 1 .. n |-> s[Ranked(key)[m]]]

LEMMA OrderedIs ==
  ASSUME NEW n \in Nat, NEW s, NEW key, NEW t, Arranged(t, s, key, n)
  PROVE  /\ Len(t) = n /\ DOMAIN t = 1 .. n /\ (t = <<>> <=> n = 0)
         /\ \A i \in 1 .. n : Ranked(key)[i] \in 1 .. n /\ t[i] = s[Ranked(key)[i]]
         /\ \A i, j \in 1 .. n : Ranked(key)[i] = Ranked(key)[j] => i = j
         /\ \A i \in 1 .. n : \E k \in 1 .. n : Ranked(key)[k] = i
         /\ \A i, j \in 1 .. n : i <= j => key[Ranked(key)[i]] >= key[Ranked(key)[j]]
         /\ \A i, j \in 1 .. n :
              i < j /\ key[Ranked(key)[i]] = key[Ranked(key)[j]] => Ranked(key)[i] < Ranked(key)[j]
<1>0. DOMAIN key = 1 .. n /\ \A i \in 1 .. n : key[i] \in Int
  BY DEF Arranged
<1>1. /\ Ranked(key) \in [1 .. n -> 1 .. n]
      /\ \A i, j \in 1 .. n : Ranked(key)[i] = Ranked(key)[j] => i = j
      /\ \A i \in 1 .. n : \E k \in 1 .. n : Ranked(key)[k] = i
      /\ \A i, j \in 1 .. n : i <= j => key[Ranked(key)[i]] >= key[Ranked(key)[j]]
      /\ \A i, j \in 1 .. n :
           i < j /\ key[Ranked(key)[i]] = key[Ranked(key)[j]] => Ranked(key)[i] < Ranked(key)[j]
  BY ONLY <1>0, n \in Nat, RankedIs
<1>2. t = [m \in 1 .. n |-> t[m]] /\ \A m \in 1 .. n : t[m] = s[Ranked(key)[m]]
  BY DEF Arranged
<1>3. Len(t) = n /\ DOMAIN t = 1 .. n /\ (t = <<>> <=> n = 0)
  BY <1>2, Length
<1>4. QED
  BY <1>1, <1>2, <1>3

LEMMA Scaled ==
  ASSUME NEW b \in Nat \ {0}, NEW p \in Int, NEW q \in Int, b * p < b * q
  PROVE  p < q
<1>1. ASSUME p >= q PROVE FALSE
  <2>1. PICK d \in Nat : p = q + d
    BY <1>1
  <2>2. b * p = b * q + b * d /\ b * d \in Nat /\ b * q \in Int
    BY <2>1
  <2>3. QED
    BY <2>2
<1>2. QED
  BY <1>1

LEMMA Division ==
  ASSUME NEW a \in Int, NEW b \in Nat \ {0}
  PROVE  /\ a \div b \in Int /\ a % b \in Nat /\ a % b < b
         /\ a = b * (a \div b) + (a % b)
<1>1. a \div b \in Int
  OBVIOUS
<1>2. a % b \in Nat /\ a % b < b
  OBVIOUS
<1>3. a = b * (a \div b) + (a % b)
  OBVIOUS
<1>4. QED
  BY <1>1, <1>2, <1>3

LEMMA Rounded ==
  ASSUME NEW a \in Int, NEW b \in Nat \ {0}
  PROVE  LET up == (2 * a + b) \div (2 * b)
         IN  /\ RoundDiv(a, b) \in Int
             /\ RoundDiv(a, b) = IF (2 * a + b) % (2 * b) = 0 /\ up % 2 = 1 THEN up - 1 ELSE up
<1>1. (2 * a + b) \div (2 * b) \in Int
  BY Division
<1>2. QED
  BY <1>1 DEF RoundDiv

LEMMA RoundRises ==
  ASSUME NEW a \in Int, NEW c \in Int, a <= c, NEW b \in Nat \ {0}
  PROVE  RoundDiv(a, b) <= RoundDiv(c, b)
<1> DEFINE y == 2 * b
           x == 2 * a + b
           z == 2 * c + b
           q == x \div y
           p == z \div y
           m == x % y
           k == z % y
<1>1. x \in Int /\ z \in Int /\ y \in Nat \ {0} /\ x <= z /\ (x = z => a = c)
  OBVIOUS
<1> HIDE DEF x, y, z
<1>2. /\ q \in Int /\ m \in Nat /\ m < y /\ x = y * q + m
      /\ p \in Int /\ k \in Nat /\ k < y /\ z = y * p + k
  BY <1>1, Division
<1>3. /\ RoundDiv(a, b) \in Int /\ RoundDiv(c, b) \in Int
      /\ RoundDiv(a, b) = IF m = 0 /\ q % 2 = 1 THEN q - 1 ELSE q
      /\ RoundDiv(c, b) = IF k = 0 /\ p % 2 = 1 THEN p - 1 ELSE p
  BY Rounded DEF x, y, z
<1> HIDE DEF q, p, m, k
<1>4. y * q \in Int /\ y * p \in Int /\ y * (p + 1) = y * p + y
  BY <1>1, <1>2
<1>5. y * q < y * (p + 1)
  BY <1>1, <1>2, <1>4
<1>6. q < p + 1
  BY <1>1, <1>2, <1>5, Scaled
<1>7. CASE q = p
  <2>1. a = c \/ k # 0
    BY <1>1, <1>2, <1>4, <1>7
  <2>2. CASE a = c
    BY <1>3, <2>2
  <2>3. CASE k # 0
    BY <1>2, <1>3, <1>7, <2>3
  <2>4. QED
    BY <2>1, <2>2, <2>3
<1>8. CASE q < p
  BY <1>2, <1>3, <1>8
<1>9. QED
  BY <1>2, <1>6, <1>7, <1>8

LEMMA RoundBelow ==
  ASSUME NEW a \in Int, NEW b \in Nat \ {0}, NEW c \in Int, a <= b * c
  PROVE  RoundDiv(a, b) <= c
<1> DEFINE y == 2 * b
           x == 2 * a + b
           q == x \div y
           m == x % y
<1>1. x \in Int /\ y \in Nat \ {0} /\ b * c \in Int /\ b < y
  OBVIOUS
<1>2. y * (c + 1) = 2 * (b * c) + y /\ x < 2 * (b * c) + y
  OBVIOUS
<1> HIDE DEF x, y
<1>3. q \in Int /\ m \in Nat /\ x = y * q + m
  BY <1>1, Division
<1>4. RoundDiv(a, b) \in Int /\ RoundDiv(a, b) <= q
  <2>1. RoundDiv(a, b) \in Int /\ RoundDiv(a, b) = IF m = 0 /\ q % 2 = 1 THEN q - 1 ELSE q
    BY Rounded DEF x, y
  <2> HIDE DEF q, m
  <2>2. QED
    BY <1>3, <2>1
<1> HIDE DEF q, m
<1>5. y * q \in Int /\ y * q < y * (c + 1)
  BY <1>1, <1>2, <1>3
<1>6. q < c + 1
  BY <1>1, <1>3, <1>5, Scaled
<1>7. QED
  BY <1>3, <1>4, <1>6

\* A sum over other names of the same elements.
Renamed(e, S, R) ==
  /\ \A x \in S : e[x] \in R
  /\ \A x, y \in S : e[x] = e[y] => x = y
  /\ \A y \in R : \E x \in S : e[x] = y

LEMMA SumRenamed ==
  ASSUME NEW S, IsFiniteSet(S), NEW R, NEW e, Renamed(e, S, R),
         NEW f, NEW h, \A x \in S : f[e[x]] \in Int /\ h[x] = f[e[x]]
  PROVE  SumFunctionOnSet(f, R) = SumFunctionOnSet(h, S)
<1>1. R = {e[x] : x \in S} /\ \A x, y \in S : e[x] = e[y] => x = y
  BY DEF Renamed
<1>2. SumFunctionOnSet(f, {e[x] : x \in S}) = SumFunctionOnSet(h, S)
  BY <1>1, SumOfImage
<1>3. QED
  BY <1>1, <1>2

\* A sum, group by group.
Grouped(S, f, T, g, h) ==
  /\ \A x \in S : f[x] \in Int /\ g[x] \in T
  /\ \A t \in T : h[t] = SumFunctionOnSet(f, {x \in S : g[x] = t})

LEMMA SumByGroup ==
  ASSUME NEW S, IsFiniteSet(S), NEW f, NEW T, IsFiniteSet(T), NEW g, NEW h, Grouped(S, f, T, g, h)
  PROVE  SumFunctionOnSet(h, T) = SumFunctionOnSet(f, S)
<1>1. /\ \A x \in S : f[x] \in Int /\ g[x] \in T
      /\ \A t \in T : h[t] = SumFunctionOnSet(f, {x \in S : g[x] = t})
  BY DEF Grouped
<1> DEFINE Of(A) == {x \in S : g[x] \in A}
           M == {A \in SUBSET T : SumFunctionOnSet(h, A) = SumFunctionOnSet(f, Of(A))}
<1>2. \A t \in T : h[t] \in Int
  <2>1. ASSUME NEW t \in T PROVE h[t] \in Int
    <3>1. IsFiniteSet({x \in S : g[x] = t})
      BY FS_Subset
    <3>2. SumFunctionOnSet(f, {x \in S : g[x] = t}) \in Int
      BY <1>1, <3>1, SumType
    <3>3. QED
      BY <1>1, <3>2
  <2>2. QED
    BY <2>1
<1>3. {} \in M
  <2>1. Of({}) = {}
    OBVIOUS
  <2>2. QED
    BY <2>1, SumEmpty
<1>4. ASSUME NEW A \in SUBSET T, NEW t \in T \ A, A \in M PROVE A \union {t} \in M
  <2> DEFINE P == Of(A \union {t})
             R == Of(A)
  <2>1. R \in SUBSET P /\ P \ R = {x \in S : g[x] = t} /\ \A x \in P : f[x] \in Int
    BY <1>1
  <2>2. IsFiniteSet(P)
    BY FS_Subset
  <2> HIDE DEF P, R
  <2>3. SumFunctionOnSet(f, P) = SumFunctionOnSet(f, R) + SumFunctionOnSet(f, P \ R)
    BY <1>1, <2>1, <2>2, SumSplit
  <2>4. SumFunctionOnSet(f, P \ R) = h[t]
    BY <1>1, <2>1
  <2>5. SumFunctionOnSet(h, A \union {t}) = h[t] + SumFunctionOnSet(h, A)
        /\ h[t] \in Int /\ SumFunctionOnSet(h, A) \in Int
    BY <1>2, SumWith
  <2>6. SumFunctionOnSet(h, A) = SumFunctionOnSet(f, R)
    BY <1>4 DEF R
  <2>7. SumFunctionOnSet(h, A \union {t}) = SumFunctionOnSet(f, P)
    BY <2>3, <2>4, <2>5, <2>6
  <2>8. QED
    BY <2>7 DEF P
<1> HIDE DEF M
<1>5. T \in M
  BY <1>3, <1>4, FiniteInduction
<1>6. Of(T) = S
  BY <1>1
<1>7. QED
  BY <1>5, <1>6 DEF M
-----------------------------------------------------------------------------
\* Trades: the projections of a team, sorted and cut in two.
LEMMA TotalIs ==
  ASSUME NEW n \in Nat, NEW s, DOMAIN s = 1 .. n, \A i \in 1 .. n : s[i] \in Int
  PROVE  SumOf(s) = SumFunctionOnSet(s, 1 .. n) /\ SumOf(s) \in Int
<1> DEFINE f == [i \in DOMAIN s |-> Identity(s[i])]
<1>1. SumOf(s) = SumFunctionOnSet(f, 1 .. n)
  BY DEF SumOf, Total, SumFunction
<1>2. \A i \in 1 .. n : f[i] \in Int /\ f[i] = s[i]
  BY DEF Identity
<1>3. IsFiniteSet(1 .. n)
  BY Spaces
<1> HIDE DEF f
<1>4. SumFunctionOnSet(f, 1 .. n) = SumFunctionOnSet(s, 1 .. n) /\ SumFunctionOnSet(f, 1 .. n) \in Int
  BY <1>2, <1>3, SumSame, SumType
<1>5. QED
  BY <1>1, <1>4

SortOrder(s) == Ranked([i \in DOMAIN s |-> Identity(s[i])])

LEMMA SortedIs ==
  ASSUME NEW n \in Nat, NEW s, DOMAIN s = 1 .. n, \A i \in 1 .. n : s[i] \in Int
  PROVE  LET r == SortOrder(s)
         IN  /\ Len(Sorted(s)) = n /\ DOMAIN Sorted(s) = 1 .. n
             /\ \A i \in 1 .. n : r[i] \in 1 .. n /\ Sorted(s)[i] = s[r[i]]
             /\ Renamed(r, 1 .. n, 1 .. n)
             /\ \A i, j \in 1 .. n : i <= j => Sorted(s)[i] >= Sorted(s)[j]
<1> DEFINE key == [i \in DOMAIN s |-> Identity(s[i])]
           t == Sorted(s)
           r == SortOrder(s)
<1>1. DOMAIN key = 1 .. n /\ (\A i \in 1 .. n : key[i] = s[i] /\ key[i] \in Int) /\ r = Ranked(key)
  BY DEF Identity, SortOrder
<1>2. t = [m \in 1 .. n |-> s[Ranked(key)[m]]]
  BY DEF Sorted, Descending
<1> HIDE DEF key, t, r
<1>3. Arranged(t, s, key, n)
  BY <1>1, <1>2 DEF Arranged
<1>4. /\ Len(t) = n /\ DOMAIN t = 1 .. n
      /\ \A i \in 1 .. n : r[i] \in 1 .. n /\ t[i] = s[r[i]]
      /\ \A i, j \in 1 .. n : r[i] = r[j] => i = j
      /\ \A i \in 1 .. n : \E k \in 1 .. n : r[k] = i
      /\ \A i, j \in 1 .. n : i <= j => key[r[i]] >= key[r[j]]
  <2>1. /\ Len(t) = n /\ DOMAIN t = 1 .. n
        /\ \A i \in 1 .. n : Ranked(key)[i] \in 1 .. n /\ t[i] = s[Ranked(key)[i]]
        /\ \A i, j \in 1 .. n : Ranked(key)[i] = Ranked(key)[j] => i = j
        /\ \A i \in 1 .. n : \E k \in 1 .. n : Ranked(key)[k] = i
        /\ \A i, j \in 1 .. n : i <= j => key[Ranked(key)[i]] >= key[Ranked(key)[j]]
    BY ONLY <1>3, n \in Nat, OrderedIs
  <2>2. QED
    BY ONLY <1>1, <2>1
<1>5. \A i, j \in 1 .. n : i <= j => t[i] >= t[j]
  <2>1. \A i \in 1 .. n : key[r[i]] = t[i]
    BY ONLY <1>1, <1>4
  <2>2. ASSUME NEW i \in 1 .. n, NEW j \in 1 .. n, i <= j PROVE t[i] >= t[j]
    <3>1. key[r[i]] >= key[r[j]]
      BY <1>4, <2>2
    <3>2. QED
      BY <2>1, <3>1
  <2>3. QED
    BY <2>2
<1>6. Renamed(r, 1 .. n, 1 .. n)
  BY <1>4 DEF Renamed
<1>7. QED
  BY <1>4, <1>5, <1>6 DEF t, r

LEMMA CutInTwo ==
  ASSUME NEW n \in Nat, NEW s, DOMAIN s = 1 .. n, \A i \in 1 .. n : s[i] \in Int,
         NEW k \in Nat
  PROVE  LET points == Sorted(s)
         IN  /\ SumOf(Take(points, k)) \in Int
             /\ SumOf(Drop(points, AtMost(k, Len(points)))) \in Int
             /\ SumOf(Take(points, k)) + SumOf(Drop(points, AtMost(k, Len(points))))
                  = SumOf(s)
<1> DEFINE p == Sorted(s)
           l == IF k <= n THEN k ELSE n
           m == n - l
           best == Take(p, k)
           rest == Drop(p, AtMost(k, Len(p)))
           r == SortOrder(s)
<1>1. /\ Len(p) = n /\ DOMAIN p = 1 .. n
      /\ \A i \in 1 .. n : r[i] \in 1 .. n /\ p[i] = s[r[i]]
      /\ Renamed(r, 1 .. n, 1 .. n)
  BY SortedIs
<1> HIDE DEF r
<1>2. \A i \in 1 .. n : p[i] \in Int
  BY <1>1
<1>3. AtMost(k, Len(p)) = l /\ l \in Nat /\ m \in Nat /\ l <= n /\ n = l + m
  BY <1>1, Bounds
<1> HIDE DEF p
<1>4. DOMAIN best = 1 .. l /\ \A i \in 1 .. l : best[i] = p[i]
  <2>1. k \in Int /\ k >= 0
    OBVIOUS
  <2>2. l = IF k <= n THEN (IF k < 0 THEN 0 ELSE k) ELSE n
    BY <2>1
  <2> HIDE DEF l
  <2>3. QED
    BY <1>1, <2>1, <2>2, TakeIs
<1>5. DOMAIN rest = 1 .. m /\ \A i \in 1 .. m : rest[i] = p[l + i]
  BY <1>1, <1>3 DEF Drop
<1> HIDE DEF l, m, best, rest
<1>6. \A i \in 1 .. l : i \in 1 .. n /\ best[i] \in Int
  BY <1>2, <1>3, <1>4
<1>7. \A i \in 1 .. m : l + i \in 1 .. n /\ rest[i] \in Int
  <2>1. \A i \in 1 .. m : l + i \in 1 .. n
    BY <1>3
  <2>2. QED
    BY <1>2, <1>5, <2>1
<1>8. /\ SumOf(best) = SumFunctionOnSet(best, 1 .. l) /\ SumOf(best) \in Int
      /\ SumOf(rest) = SumFunctionOnSet(rest, 1 .. m) /\ SumOf(rest) \in Int
      /\ SumOf(s) = SumFunctionOnSet(s, 1 .. n)
  BY <1>3, <1>4, <1>5, <1>6, <1>7, TotalIs
<1>9. SumFunctionOnSet(best, 1 .. l) = SumFunctionOnSet(p, 1 .. l)
  BY <1>3, <1>4, <1>6, Spaces, SumSame
<1>10. SumFunctionOnSet(p, (1 .. n) \ (1 .. l)) = SumFunctionOnSet(rest, 1 .. m)
  <2> DEFINE e == [i \in 1 .. m |-> l + i]
             R == (1 .. n) \ (1 .. l)
           Q == 1 .. m
  <2>1. \A i \in 1 .. m : e[i] \in R /\ p[e[i]] \in Int /\ rest[i] = p[e[i]]
    BY <1>2, <1>3, <1>5, <1>7
  <2>2. \A i, j \in 1 .. m : e[i] = e[j] => i = j
    BY <1>3
  <2>3. ASSUME NEW i \in R PROVE \E j \in 1 .. m : e[j] = i
    <3>1. i - l \in 1 .. m /\ e[i - l] = i
      BY <1>3
    <3>2. QED
      BY <3>1
  <2>4. IsFiniteSet(1 .. m)
    BY <1>3, Spaces
  <2> HIDE DEF e, R
  <2>7. Renamed(e, Q, R)
    BY <2>1, <2>2, <2>3 DEF Renamed, Q
  <2>5. SumFunctionOnSet(p, R) = SumFunctionOnSet(rest, 1 .. m)
    <3>1. IsFiniteSet(Q) /\ \A i \in Q : p[e[i]] \in Int /\ rest[i] = p[e[i]]
      BY <2>1, <2>4 DEF Q
    <3> HIDE DEF Q
    <3>2. SumFunctionOnSet(p, R) = SumFunctionOnSet(rest, Q)
      BY <2>7, <3>1, SumRenamed
    <3>3. QED
      BY <3>2 DEF Q
  <2>6. QED
    BY <2>5 DEF R
<1>11. SumFunctionOnSet(p, 1 .. n) = SumFunctionOnSet(p, 1 .. l) + SumFunctionOnSet(p, (1 .. n) \ (1 .. l))
  <2>1. (1 .. l) \in SUBSET (1 .. n) /\ IsFiniteSet(1 .. n)
    BY <1>6, Spaces
  <2>2. QED
    BY <1>2, <2>1, SumSplit
<1>12. SumFunctionOnSet(s, 1 .. n) = SumFunctionOnSet(p, 1 .. n)
  <2>1. \A i \in 1 .. n : r[i] \in 1 .. n /\ s[r[i]] \in Int /\ p[i] = s[r[i]]
    BY <1>1
  <2>2. IsFiniteSet(1 .. n)
    BY Spaces
  <2>3. QED
    BY <1>1, <2>1, <2>2, SumRenamed
<1>13. QED
  BY <1>8, <1>9, <1>10, <1>11, <1>12 DEF best, rest, p

NeededIn(counts, pos) ==
  {s \in DOMAIN counts \intersect DOMAIN SharedSlotShares : pos \in DOMAIN SharedSlotShares[s]}

LEMMA StartersAreCounted ==
  ASSUME NEW counts, \A s \in DOMAIN counts : counts[s] \in Nat, NEW pos \in Positions
  PROVE  StartersNeeded(counts)[pos] \in Int
<1> DEFINE shared == NeededIn(counts, pos)
           f == [s \in shared |-> counts[s] * SharedSlotShares[s][pos]]
<1>1. DOMAIN SharedSlotShares = {23, 7}
  BY DEF SharedSlotShares
<1>2. /\ DOMAIN SharedSlotShares[23] = {"RB", "WR", "TE"}
      /\ \A p \in {"RB", "WR", "TE"} : SharedSlotShares[23][p] \in Int
  BY DEF SharedSlotShares
<1>3. /\ DOMAIN SharedSlotShares[7] = {"QB", "RB", "WR", "TE"}
      /\ \A p \in {"QB", "RB", "WR", "TE"} : SharedSlotShares[7][p] \in Int
  BY DEF SharedSlotShares
<1>4. shared \subseteq {23, 7} /\ \A s \in shared : f[s] \in Int
  <2>1. ASSUME NEW s \in shared PROVE s \in {23, 7} /\ f[s] \in Int
    <3>1. s \in {23, 7} /\ counts[s] \in Nat /\ SharedSlotShares[s][pos] \in Int
      BY <1>1, <1>2, <1>3 DEF NeededIn
    <3>2. QED
      BY <3>1
  <2>2. QED
    BY <2>1
<1>5. IsFiniteSet(1 .. 23) /\ shared \in SUBSET (1 .. 23)
  <2>1. 23 \in Nat /\ \A s \in {23, 7} : s \in 1 .. 23
    OBVIOUS
  <2>2. IsFiniteSet(1 .. 23)
    BY <2>1, Spaces
  <2> HIDE DEF shared
  <2>3. QED
    BY <1>4, <2>1, <2>2
<1>6. IsFiniteSet(shared)
  BY <1>5, FS_Subset
<1>7. SumFunction(f) = SumFunctionOnSet(f, shared)
  BY DEF SumFunction
<1> HIDE DEF shared, f
<1>8. SumFunction(f) \in Int
  BY <1>4, <1>6, <1>7, SumType
<1>9. PrimarySlots[pos] \in DOMAIN counts => 100 * counts[PrimarySlots[pos]] \in Int
  OBVIOUS
<1>10. StartersNeeded(counts)[pos]
         = (IF PrimarySlots[pos] \in DOMAIN counts THEN 100 * counts[PrimarySlots[pos]] ELSE 0)
             + SumFunction(f)
  BY DEF StartersNeeded, f, shared, NeededIn
<1>11. QED
  BY <1>8, <1>9, <1>10

\* Every projection counts once.
LEMMA ProfileIs ==
  ASSUME NEW roster, NEW pos \in Positions, roster[pos] \in Seq(Int),
         NEW needed, needed[pos] \in Int
  PROVE  LET p == Profile(roster, needed)[pos]
         IN  /\ p.strength \in Int /\ p.depth \in Int
             /\ p.strength + p.depth = SumOf(roster[pos])
<1> DEFINE s == roster[pos]
           points == Sorted(s)
           k == AtLeast(RoundDiv(needed[pos], 100), 1)
<1>1. s = roster[pos] /\ Len(s) \in Nat /\ DOMAIN s = 1 .. Len(s) /\ \A i \in 1 .. Len(s) : s[i] \in Int
  BY LenProperties, ElementOfSeq
<1>2. RoundDiv(needed[pos], 100) \in Int
  <2>1. 100 \in Nat \ {0}
    OBVIOUS
  <2>2. QED
    BY <2>1, Rounded
<1>3. k \in Nat
  BY <1>2, Bounds
<1>4. /\ Profile(roster, needed)[pos].strength = SumOf(Take(points, k))
      /\ Profile(roster, needed)[pos].depth = SumOf(Drop(points, AtMost(k, Len(points))))
  BY DEF Profile
<1> HIDE DEF s, k
<1>5. /\ SumOf(Take(points, k)) \in Int /\ SumOf(Drop(points, AtMost(k, Len(points)))) \in Int
      /\ SumOf(Take(points, k)) + SumOf(Drop(points, AtMost(k, Len(points)))) = SumOf(s)
  BY <1>1, <1>3, CutInTwo
<1>6. QED
  BY <1>1, <1>4, <1>5

\* At most half of some numbers are below their median.
LEMMA BelowMedian ==
  ASSUME NEW n \in Nat, NEW s, s = [i \in 1 .. n |-> s[i]], \A i \in 1 .. n : s[i] \in Int
  PROVE  LET below == {i \in 1 .. n : 2 * s[i] < TwiceMedian(s)}
         IN  Cardinality(below) \in Nat /\ 2 * Cardinality(below) <= n
<1> DEFINE below == {i \in 1 .. n : 2 * s[i] < TwiceMedian(s)}
           h == (n + 1) \div 2
           d == Sorted(s)
           r == SortOrder(s)
           late == {r[k] : k \in h + 1 .. n}
<1>1. DOMAIN s = 1 .. n /\ Len(s) = n
  BY Length
<1>2. /\ DOMAIN d = 1 .. n
      /\ \A i \in 1 .. n : r[i] \in 1 .. n /\ d[i] = s[r[i]]
      /\ Renamed(r, 1 .. n, 1 .. n)
      /\ \A i, j \in 1 .. n : i <= j => d[i] >= d[j]
  BY ONLY <1>1, n \in Nat, \A i \in 1 .. n : s[i] \in Int, SortedIs
<1>3. TwiceMedian(s) = d[h] + d[n \div 2 + 1]
  BY <1>1 DEF TwiceMedian
<1>4. h \in Nat /\ h <= n /\ 2 * h >= n
  OBVIOUS
<1> HIDE DEF d, r
<1>5. below \subseteq late
  <2>1. ASSUME NEW i \in below PROVE i \in late
    <3>1. n # 0 /\ h \in 1 .. n /\ n \div 2 + 1 \in 1 .. n /\ h <= n \div 2 + 1
      OBVIOUS
    <3>2. PICK k \in 1 .. n : r[k] = i
      BY <1>2 DEF Renamed
    <3>3. d[k] = s[i] /\ d[h] >= d[n \div 2 + 1] /\ \A j \in 1 .. n : d[j] \in Int
      BY <1>2, <3>1, <3>2
    <3>4. 2 * d[k] < d[h] + d[n \div 2 + 1]
      BY <1>3, <3>3
    <3>5. d[k] < d[h]
      BY <3>1, <3>3, <3>4
    <3>6. ~(k <= h)
      BY <1>2, <3>1, <3>3, <3>5
    <3>7. k \in h + 1 .. n
      BY <1>4, <3>6
    <3>8. QED
      BY <3>2, <3>7
  <2>2. QED
    BY <2>1
<1> HIDE DEF h
<1>6. IsFiniteSet(h + 1 .. n) /\ Cardinality(h + 1 .. n) = n - h
  <2>1. h + 1 \in Int /\ n \in Int /\ (h + 1 > n => n - h = 0) /\ n - (h + 1) + 1 = n - h
    BY <1>4
  <2>2. QED
    BY <2>1, FS_Interval
<1>7. IsFiniteSet(late) /\ Cardinality(late) = n - h
  <2> DEFINE K == h + 1 .. n
  <2>1. \A x, y \in K : r[x] = r[y] => x = y
    <3>1. \A x \in K : x \in 1 .. n
      BY <1>4
    <3> HIDE DEF K
    <3>2. QED
      BY <1>2, <3>1 DEF Renamed
  <2>4. IsFiniteSet(K)
    BY <1>6
  <2> HIDE DEF K
  <2>2. IsFiniteSet({r[x] : x \in K}) /\ Cardinality({r[x] : x \in K}) = Cardinality(K)
    BY <2>1, <2>4, SameSize
  <2>3. QED
    BY <1>6, <2>2 DEF K
<1> HIDE DEF late, below
<1>8. IsFiniteSet(below) /\ Cardinality(below) <= n - h
  BY <1>5, <1>7, FS_Subset
<1>9. Cardinality(below) \in Nat
  BY <1>8, FS_CardinalityType
<1>10. QED
  BY <1>4, <1>8, <1>9 DEF below

ProfilesOf(c) == [i \in DOMAIN c.rosters |-> Profile(c.rosters[i], StartersNeeded(c.counts))]

\* What all teams are told, of the profiles they share.
League(c, n, all, profiles) ==
  /\ n \in Nat /\ DOMAIN c.rosters = 1 .. n /\ DOMAIN all = 1 .. n /\ DOMAIN profiles = 1 .. n
  /\ \A t \in 1 .. n :
       /\ all[t].profiles = profiles /\ all[t].needs = Needs(profiles, t)
       /\ all[t].surpluses = Surpluses(profiles, t)
       /\ \A p \in all[t].partners :
            /\ p.team \in 1 .. n \ {t}
            /\ p.sends # {} /\ p.sends \subseteq Needs(profiles, t)
            /\ p.wants # {} /\ p.wants = Surpluses(profiles, t) \intersect Needs(profiles, p.team)
  /\ \A t \in 1 .. n, pos \in Positions :
       /\ profiles[t][pos].strength \in Int
       /\ profiles[t][pos].strength + profiles[t][pos].depth = SumOf(c.rosters[t][pos])

LEMMA LeagueIs ==
  ASSUME NEW c, c.rosters \in Seq([Positions -> Seq(Int)]), \A s \in DOMAIN c.counts : c.counts[s] \in Nat
  PROVE  League(c, Len(c.rosters), TradeSuggestions(c), ProfilesOf(c))
<1> DEFINE n == Len(c.rosters)
           all == TradeSuggestions(c)
           profiles == ProfilesOf(c)
<1>1. n \in Nat /\ DOMAIN c.rosters = 1 .. n /\ \A t \in 1 .. n : c.rosters[t] \in [Positions -> Seq(Int)]
  BY LenProperties, ElementOfSeq
<1>2. DOMAIN all = 1 .. n /\ DOMAIN profiles = 1 .. n
  BY <1>1 DEF TradeSuggestions, ProfilesOf
<1>3. ASSUME NEW t \in 1 .. n
      PROVE  /\ all[t].profiles = profiles /\ all[t].needs = Needs(profiles, t)
             /\ all[t].surpluses = Surpluses(profiles, t)
             /\ \A p \in all[t].partners :
                  /\ p.team \in 1 .. n \ {t}
                  /\ p.sends # {} /\ p.sends \subseteq Needs(profiles, t)
                  /\ p.wants # {} /\ p.wants = Surpluses(profiles, t) \intersect Needs(profiles, p.team)
  <2> DEFINE Sends(i) == {pos \in Needs(profiles, t) : profiles[i][pos].depth > 0}
             Wants(i) == Surpluses(profiles, t) \intersect Needs(profiles, i)
             partners == {[team |-> i, sends |-> Sends(i), wants |-> Wants(i)] :
                            i \in {j \in DOMAIN c.rosters \ {t} : Sends(j) # {} /\ Wants(j) # {}}}
  <2>1. all[t] = Suggestions(c.rosters, c.counts, t)
    BY <1>1 DEF TradeSuggestions
  <2>2. all[t] = [profiles |-> profiles, needs |-> Needs(profiles, t),
                  surpluses |-> Surpluses(profiles, t), partners |-> partners]
    BY <2>1 DEF Suggestions, ProfilesOf
  <2> HIDE DEF profiles
  <2>3. \A i : Sends(i) \subseteq Needs(profiles, t)
    OBVIOUS
  <2>4. ASSUME NEW p \in partners
        PROVE  /\ p.team \in 1 .. n \ {t}
               /\ p.sends # {} /\ p.sends \subseteq Needs(profiles, t)
               /\ p.wants # {} /\ p.wants = Surpluses(profiles, t) \intersect Needs(profiles, p.team)
    <3>1. PICK i \in DOMAIN c.rosters \ {t} :
            Sends(i) # {} /\ Wants(i) # {} /\ p = [team |-> i, sends |-> Sends(i), wants |-> Wants(i)]
      OBVIOUS
    <3>2. p.team = i /\ p.sends = Sends(i) /\ p.wants = Wants(i)
      BY <3>1
    <3>3. QED
      BY <1>1, <2>3, <3>1, <3>2
  <2> HIDE DEF partners
  <2>5. QED
    BY <2>2, <2>4
<1>4. ASSUME NEW t \in 1 .. n, NEW pos \in Positions
      PROVE  /\ profiles[t][pos].strength \in Int
             /\ profiles[t][pos].strength + profiles[t][pos].depth = SumOf(c.rosters[t][pos])
  <2>1. profiles[t] = Profile(c.rosters[t], StartersNeeded(c.counts))
    BY <1>1 DEF ProfilesOf
  <2>2. StartersNeeded(c.counts)[pos] \in Int
    BY StartersAreCounted
  <2>3. c.rosters[t][pos] \in Seq(Int)
    BY <1>1
  <2>4. QED
    BY <2>1, <2>2, <2>3, ProfileIs
<1> HIDE DEF n, all, profiles
<1>5. League(c, n, all, profiles)
  BY <1>1, <1>2, <1>3, <1>4 DEF League
<1>6. QED
  BY <1>5 DEF n, all, profiles

LEMMA SuggestionsHold ==
  ASSUME NEW c, c.rosters \in Seq([Positions -> Seq(Int)]), \A s \in DOMAIN c.counts : c.counts[s] \in Nat
  PROVE  ProfilesAreFair(c.rosters, TradeSuggestions(c)) /\ PartnersComplement(TradeSuggestions(c))
<1> DEFINE n == Len(c.rosters)
           all == TradeSuggestions(c)
           profiles == ProfilesOf(c)
<1>0. League(c, n, all, profiles)
  BY LeagueIs
<1> HIDE DEF all, profiles
<1>1. /\ n \in Nat /\ DOMAIN c.rosters = 1 .. n /\ DOMAIN all = 1 .. n /\ DOMAIN profiles = 1 .. n
      /\ \A t \in 1 .. n :
           /\ all[t].profiles = profiles /\ all[t].needs = Needs(profiles, t)
           /\ all[t].surpluses = Surpluses(profiles, t)
           /\ \A p \in all[t].partners :
                /\ p.team \in 1 .. n \ {t}
                /\ p.sends # {} /\ p.sends \subseteq Needs(profiles, t)
                /\ p.wants # {} /\ p.wants = Surpluses(profiles, t) \intersect Needs(profiles, p.team)
      /\ \A t \in 1 .. n, pos \in Positions :
           /\ profiles[t][pos].strength \in Int
           /\ profiles[t][pos].strength + profiles[t][pos].depth = SumOf(c.rosters[t][pos])
  BY <1>0 DEF League
<1>2. c.rosters = c.rosters /\ n = Len(c.rosters)
  OBVIOUS
<1> HIDE DEF n, all, profiles
<1>3. ASSUME NEW t \in 1 .. n, NEW w \in 1 .. n, t # w
      PROVE  Surpluses(profiles, t) \intersect Surpluses(profiles, w) = {}
  BY <1>3 DEF Surpluses
<1>4. ASSUME NEW pos \in Positions
      PROVE  2 * Cardinality({t \in DOMAIN all : pos \in all[t].needs}) <= n
  <2> DEFINE s == [i \in 1 .. n |-> profiles[i][pos].strength]
             below == {i \in 1 .. n : 2 * s[i] < TwiceMedian(s)}
             lacking == {t \in DOMAIN all : pos \in all[t].needs}
  <2>1. s = [i \in 1 .. n |-> s[i]] /\ \A i \in 1 .. n : s[i] \in Int /\ s[i] = profiles[i][pos].strength
    BY <1>1
  <2>2. \A t \in 1 .. n : pos \in Needs(profiles, t) <=> 2 * s[t] < TwiceMedian(s)
    BY <1>1 DEF Needs
  <2> HIDE DEF s
  <2>3. lacking = below
    BY <1>1, <2>2
  <2>4. 2 * Cardinality(below) <= n
    BY <1>1, <2>1, BelowMedian
  <2>5. QED
    BY <2>3, <2>4
<1>5. ProfilesAreFair(c.rosters, all)
  BY <1>1, <1>2, <1>3, <1>4 DEF ProfilesAreFair
<1>6. ASSUME NEW t \in DOMAIN all, NEW p \in all[t].partners
      PROVE  /\ p.team # t
             /\ p.sends # {} /\ p.sends \subseteq all[t].needs
             /\ p.wants # {} /\ p.wants \subseteq all[p.team].needs \ UNION {all[w].surpluses : w \in DOMAIN all \ {t}}
  <2>1. /\ t \in 1 .. n /\ p.team \in 1 .. n \ {t}
        /\ p.sends # {} /\ p.sends \subseteq Needs(profiles, t)
        /\ p.wants # {} /\ p.wants = Surpluses(profiles, t) \intersect Needs(profiles, p.team)
    BY <1>1
  <2>2. all[p.team].needs = Needs(profiles, p.team) /\ all[t].needs = Needs(profiles, t)
    BY <1>1, <2>1
  <2>3. ASSUME NEW w \in DOMAIN all \ {t} PROVE p.wants \intersect all[w].surpluses = {}
    <3>1. all[w].surpluses = Surpluses(profiles, w) /\ w \in 1 .. n
      BY <1>1
    <3>2. QED
      BY <1>3, <2>1, <3>1
  <2>4. p.wants \intersect UNION {all[w].surpluses : w \in DOMAIN all \ {t}} = {}
    BY <2>3
  <2>5. QED
    BY <2>1, <2>2, <2>4
<1>7. PartnersComplement(all)
  BY <1>6 DEF PartnersComplement
<1>8. QED
  BY <1>5, <1>7 DEF all

LEMMA ValueType ==
  ASSUME NEW player \in TradedPlayer, NEW current
  PROVE  RosValue(player, current) \in Int
<1> DEFINE S == {w \in DOMAIN player.weeks : w >= current /\ player.weeks[w] # None}
           f == [w \in S |-> player.weeks[w]]
           n == Len(player.weeks)
<1>1. /\ player.weeks \in Seq(Int \union {None}) /\ player.cached \in Int \union {None}
      /\ n \in Nat /\ DOMAIN player.weeks = 1 .. n /\ \A w \in 1 .. n : player.weeks[w] \in Int \union {None}
  <2>1. player.weeks \in Seq(Int \union {None}) /\ player.cached \in Int \union {None}
    BY DEF TradedPlayer
  <2>2. QED
    BY <2>1, LenProperties, ElementOfSeq
<1>2. S \in SUBSET (1 .. n) /\ \A w \in S : f[w] \in Int
  BY <1>1
<1>3. SumFunction(f) = SumFunctionOnSet(f, S)
  BY DEF SumFunction
<1>4. RosValue(player, current) = IF S # {} THEN RoundDiv(SumFunction(f), Cardinality(S))
                                  ELSE IF player.cached = None THEN 0 ELSE player.cached
  BY DEF RosValue
<1> HIDE DEF S, f, n
<1>5. IsFiniteSet(S)
  BY <1>1, <1>2, Spaces, FS_Subset
<1>6. Cardinality(S) \in Nat /\ (S # {} => Cardinality(S) # 0)
  BY <1>5, FS_CardinalityType, FS_EmptySet
<1>7. SumFunction(f) \in Int
  BY <1>2, <1>3, <1>5, SumType
<1>8. S # {} => RoundDiv(SumFunction(f), Cardinality(S)) \in Int
  BY <1>6, <1>7, Rounded
<1>9. QED
  BY <1>1, <1>4, <1>8

ValueOf(s, current) == GradeTrade([a |-> s, b |-> s], current).value.a

LEMMA TotalValue ==
  ASSUME NEW s \in Seq(TradedPlayer), NEW current
  PROVE  ValueOf(s, current) \in Int
<1> DEFINE f == [i \in DOMAIN s |-> RosValue(s[i], current)]
<1>1. Len(s) \in Nat /\ DOMAIN s = 1 .. Len(s) /\ \A i \in 1 .. Len(s) : s[i] \in TradedPlayer
  BY LenProperties, ElementOfSeq
<1>2. \A i \in DOMAIN s : f[i] \in Int
  BY <1>1, ValueType
<1>3. IsFiniteSet(DOMAIN s)
  BY <1>1, Spaces
<1>4. ValueOf(s, current) = SumFunctionOnSet(f, DOMAIN s)
  BY DEF ValueOf, GradeTrade, Total, SumFunction
<1> HIDE DEF f
<1>5. QED
  BY <1>2, <1>3, <1>4, SumType

LEMMA GradeIs ==
  ASSUME NEW a, NEW b, NEW current
  PROVE  LET x == ValueOf(a, current)
             y == ValueOf(b, current)
         IN  GradeTrade([a |-> a, b |-> b], current)
               = [value |-> [a |-> x, b |-> y], grade |-> [a |-> GradeOf(x, y), b |-> GradeOf(y, x)]]
  BY DEF ValueOf, GradeTrade

\* Whoever receives more gets the better grade, and who sends less no worse a grade.
LEMMA GradesFall ==
  /\ \A x, y \in Int : GradeOf(x, y) \in {"A", "B", "C", "D"}
  /\ \A x, y \in Int : y >= x => GradeOf(x, y) = "A"
  /\ \A x, y, z \in Int : z <= x => Letters[GradeOf(x, y)] <= Letters[GradeOf(z, y)]
<1>1. ASSUME NEW x \in Int, NEW y \in Int
      PROVE  GradeOf(x, y) \in {"A", "B", "C", "D"} /\ (y >= x => GradeOf(x, y) = "A")
  BY DEF GradeOf, GradeForEdge
<1>2. ASSUME NEW x \in Int, NEW y \in Int, NEW z \in Int, z <= x
      PROVE  Letters[GradeOf(x, y)] <= Letters[GradeOf(z, y)]
  <2>1. Letters["A"] = 4 /\ Letters["B"] = 3 /\ Letters["C"] = 2 /\ Letters["D"] = 1
    BY DEF Letters
  <2>2. CASE y >= z
    BY <1>1, <2>1, <2>2
  <2>3. CASE ~(y >= z)
    <3>1. GradeOf(x, y) = GradeForEdge(x - y, x + y) /\ GradeOf(z, y) = GradeForEdge(z - y, z + y)
      BY <1>2, <2>3 DEF GradeOf
    <3>2. x + y >= z + y
      BY <1>2
    <3>3. CASE z + y <= 0 \/ 100 * (z - y) < 5 * (z + y)
      <4>1. GradeForEdge(z - y, z + y) = "A"
        BY <3>3 DEF GradeForEdge
      <4>2. QED
        BY <1>1, <2>1, <3>1, <4>1
    <3>4. CASE ~(z + y <= 0 \/ 100 * (z - y) < 5 * (z + y))
      <4>1. ~(x + y <= 0 \/ 100 * (x - y) < 5 * (x + y))
        BY <1>2, <3>4
      <4>2. CASE 100 * (z - y) < 15 * (z + y)
        BY <2>1, <3>1, <3>4, <4>1, <4>2 DEF GradeForEdge
      <4>3. CASE ~(100 * (z - y) < 15 * (z + y))
        <5>1. ~(100 * (x - y) < 15 * (x + y))
          BY <1>2, <4>3
        <5>2. CASE 100 * (z - y) < 30 * (z + y)
          BY <2>1, <3>1, <3>4, <4>1, <4>3, <5>1, <5>2 DEF GradeForEdge
        <5>3. CASE ~(100 * (z - y) < 30 * (z + y))
          <6>1. ~(100 * (x - y) < 30 * (x + y))
            BY <1>2, <5>3
          <6>2. QED
            BY <2>1, <3>1, <3>4, <4>1, <4>3, <5>1, <5>3, <6>1 DEF GradeForEdge
        <5>4. QED
          BY <5>2, <5>3
      <4>4. QED
        BY <4>2, <4>3
    <3>5. QED
      BY <3>3, <3>4
  <2>4. QED
    BY <2>2, <2>3
<1>3. QED
  BY <1>1, <1>2

LEMMA GradesHold ==
  ASSUME NEW c, c.sends \in [a : Seq(TradedPlayer), b : Seq(TradedPlayer)]
  PROVE  GradesAreImpartial(TradeGrades(c).graded, TradeGrades(c).mirrored, TradeGrades(c).lighter)
<1> DEFINE s == c.sends.a
           t == c.sends.b
           less == Take(s, Len(s) - 1)
           x == ValueOf(s, c.current)
           y == ValueOf(t, c.current)
           z == ValueOf(less, c.current)
           g == TradeGrades(c)
<1>1. s \in Seq(TradedPlayer) /\ t \in Seq(TradedPlayer) /\ c.sends = [a |-> s, b |-> t]
  OBVIOUS
<1>2. [c.sends EXCEPT !.a = less] = [a |-> less, b |-> t]
  BY <1>1
<1>3. less \in Seq(TradedPlayer)
  <2>1. Len(s) \in Nat /\ \A i \in 1 .. Len(s) : s[i] \in TradedPlayer
    BY <1>1, LenProperties, ElementOfSeq
  <2>2. AtMost(Len(s) - 1, Len(s)) = Len(s) - 1
    BY <2>1, Bounds
  <2> DEFINE n == IF Len(s) = 0 THEN 0 ELSE Len(s) - 1
  <2>3. n \in Nat /\ 1 .. AtMost(Len(s) - 1, Len(s)) = 1 .. n /\ \A i \in 1 .. n : i \in 1 .. Len(s)
    BY <2>1, <2>2
  <2> HIDE DEF n
  <2>4. less = [i \in 1 .. n |-> s[i]]
    BY <2>3 DEF Take
  <2> HIDE DEF less
  <2>5. less = [i \in 1 .. n |-> less[i]] /\ \A i \in 1 .. n : less[i] \in TradedPlayer
    BY <2>1, <2>3, <2>4
  <2>6. QED
    BY <2>3, <2>5, Length
<1>4. x \in Int /\ y \in Int /\ z \in Int
  BY <1>1, <1>3, TotalValue
<1>5. /\ g.graded = GradeTrade([a |-> s, b |-> t], c.current)
      /\ g.mirrored = GradeTrade([a |-> t, b |-> s], c.current)
      /\ g.lighter = GradeTrade([a |-> less, b |-> t], c.current)
  BY <1>1, <1>2 DEF TradeGrades
<1> HIDE DEF g, less
<1>6. /\ g.graded = [value |-> [a |-> x, b |-> y], grade |-> [a |-> GradeOf(x, y), b |-> GradeOf(y, x)]]
      /\ g.mirrored = [value |-> [a |-> y, b |-> x], grade |-> [a |-> GradeOf(y, x), b |-> GradeOf(x, y)]]
      /\ g.lighter = [value |-> [a |-> z, b |-> y], grade |-> [a |-> GradeOf(z, y), b |-> GradeOf(y, z)]]
  BY <1>5, GradeIs
<1> HIDE DEF x, y, z
<1>7. y >= x => Letters[GradeOf(x, y)] >= Letters[GradeOf(y, x)]
  BY <1>4, GradesFall DEF Letters
<1>8. z <= x => Letters[GradeOf(x, y)] <= Letters[GradeOf(z, y)]
  BY <1>4, GradesFall
<1>9. QED
  BY <1>6, <1>7, <1>8 DEF GradesAreImpartial, g
-----------------------------------------------------------------------------
LEMMA LeastOf ==
  ASSUME NEW T, T \subseteq Nat, T # {}
  PROVE  \E m \in T : \A n \in T : m <= n
<1>1. IsWellFoundedOn(OpToRel(<, Nat), Nat)
  BY NatLessThanWellFounded
<1>2. PICK m \in T : \A n \in T : ~(<<n, m>> \in OpToRel(<, Nat))
  BY <1>1, WFMin
<1>3. \A n \in T : ~(n < m)
  BY <1>2 DEF OpToRel
<1>4. QED
  BY <1>3

\* Step by step: what holds of 0 and, with a number, of the next one.
LEMMA CountingUp ==
  ASSUME NEW m \in Nat, NEW M, 0 \in M, \A n \in 1 .. m : n - 1 \in M => n \in M
  PROVE  \A n \in 0 .. m : n \in M
<1> DEFINE T == {n \in 0 .. m : n \notin M}
<1> SUFFICES ASSUME T # {} PROVE FALSE
  OBVIOUS
<1>1. T \subseteq Nat
  OBVIOUS
<1> HIDE DEF T
<1>2. PICK n \in T : \A k \in T : n <= k
  BY <1>1, LeastOf
<1> USE DEF T
<1>3. n \in 1 .. m /\ n - 1 \in 0 .. m /\ ~(n <= n - 1)
  BY <1>2
<1>4. n - 1 \in M
  BY <1>2, <1>3
<1>5. QED
  BY <1>2, <1>3, <1>4

\* Whom to start: entries of a roster and what they are worth.
Value(roster, i) == PointsOr(roster[i], -1)

IsRoster(roster, n) ==
  /\ n \in Nat /\ DOMAIN roster = 1 .. n
  /\ \A i \in 1 .. n : Value(roster, i) \in Int

LEMMA RosterIs ==
  ASSUME NEW roster,
         roster \in Seq([slot : Slots \union BenchSlots, eligible : SUBSET Slots, points : Int \union {None}])
  PROVE  IsRoster(roster, Len(roster))
<1> DEFINE E == [slot : Slots \union BenchSlots, eligible : SUBSET Slots, points : Int \union {None}]
<1>1. Len(roster) \in Nat /\ DOMAIN roster = 1 .. Len(roster) /\ \A i \in 1 .. Len(roster) : roster[i] \in E
  BY LenProperties, ElementOfSeq
<1>2. \A e \in E : e.points \in Int \union {None}
  OBVIOUS
<1>3. QED
  BY <1>1, <1>2 DEF IsRoster, Value, PointsOr

LEMMA BestIs ==
  ASSUME NEW roster, NEW n, IsRoster(roster, n), NEW free \in SUBSET (1 .. n), free # {}
  PROVE  BestOf(roster, free) \in free /\ \A i \in free : Value(roster, BestOf(roster, free)) >= Value(roster, i)
<1> DEFINE s == Listed(free)
           c == Cardinality(free)
           key == [i \in DOMAIN s |-> Value(roster, s[i])]
           t == [m \in DOMAIN s |-> s[Ranked(key)[m]]]
<1>0. n \in Nat
  BY DEF IsRoster
<1>1. /\ c \in Nat /\ DOMAIN s = 1 .. c /\ s # <<>>
      /\ \A k \in 1 .. c : s[k] \in free
      /\ \A i \in free : \E k \in 1 .. c : s[k] = i
      /\ (s = <<>> <=> free = {}) /\ Len(s) = c
  BY <1>0, ListedIs
<1>2. BestOf(roster, free) = t[1]
  BY DEF BestOf, First, Descending, Value
<1> HIDE DEF s, c
<1>3. DOMAIN key = 1 .. c /\ \A i \in 1 .. c : key[i] = Value(roster, s[i]) /\ key[i] \in Int
  BY <1>1 DEF IsRoster
<1>4. t = [m \in 1 .. c |-> s[Ranked(key)[m]]]
  BY <1>1
<1> HIDE DEF key, t
<1>5. Arranged(t, s, key, c)
  BY <1>1, <1>3, <1>4 DEF Arranged
<1>6. /\ \A i \in 1 .. c : Ranked(key)[i] \in 1 .. c /\ t[i] = s[Ranked(key)[i]]
      /\ \A i \in 1 .. c : \E k \in 1 .. c : Ranked(key)[k] = i
      /\ \A i, j \in 1 .. c : i <= j => key[Ranked(key)[i]] >= key[Ranked(key)[j]]
  <2>1. c \in Nat
    BY <1>1
  <2>2. QED
    BY ONLY <1>5, <2>1, OrderedIs
<1>7. 1 \in 1 .. c
  BY <1>1
<1>8. ASSUME NEW i \in free PROVE Value(roster, t[1]) >= Value(roster, i)
  <2>1. PICK k \in 1 .. c : s[k] = i
    BY <1>1
  <2>2. PICK j \in 1 .. c : Ranked(key)[j] = k
    BY <1>6
  <2>3. key[Ranked(key)[1]] >= key[k]
    BY <1>6, <1>7, <2>2
  <2>4. QED
    BY <1>3, <1>6, <1>7, <2>1, <2>3
<1>9. t[1] \in free
  BY <1>1, <1>6, <1>7
<1>10. QED
  BY <1>2, <1>8, <1>9

CandidatesOf(roster, i) == Cardinality(Candidates(roster, roster[i].slot))

\* The starters, each once, those with the fewest candidates first.
LEMMA SlotsAre ==
  ASSUME NEW roster, NEW n, IsRoster(roster, n)
  PROVE  LET slots == SlotOrder(roster)
             c == Cardinality(Starters(roster))
         IN  /\ c \in Nat /\ Len(slots) = c /\ DOMAIN slots = 1 .. c
             /\ \A k \in 1 .. c : slots[k] \in Starters(roster)
             /\ \A i \in Starters(roster) : \E k \in 1 .. c : slots[k] = i
             /\ \A k, l \in 1 .. c : slots[k] = slots[l] => k = l
             /\ \A k, l \in 1 .. c : k <= l => CandidatesOf(roster, slots[k]) <= CandidatesOf(roster, slots[l])
<1> DEFINE S == Starters(roster)
           c == Cardinality(S)
           s == Listed(S)
           key == [i \in DOMAIN s |-> -CandidatesOf(roster, s[i])]
           t == SlotOrder(roster)
<1>0. n \in Nat /\ S \in SUBSET (1 .. n)
  BY DEF IsRoster, Starters
<1>1. t = [m \in DOMAIN s |-> s[Ranked(key)[m]]]
  BY DEF SlotOrder, Ascending, Descending, CandidatesOf
<1> HIDE DEF S
<1>2. /\ c \in Nat /\ DOMAIN s = 1 .. c
      /\ \A k \in 1 .. c : s[k] \in S
      /\ \A i \in S : \E k \in 1 .. c : s[k] = i
      /\ \A k, l \in 1 .. c : s[k] = s[l] => k = l
  BY <1>0, ListedIs
<1>3. \A i \in S : CandidatesOf(roster, i) \in Int
  <2>1. ASSUME NEW i \in S PROVE CandidatesOf(roster, i) \in Int
    <3> DEFINE C == Candidates(roster, roster[i].slot)
    <3>1. C \in SUBSET (1 .. n)
      BY DEF Candidates, IsRoster
    <3> HIDE DEF C
    <3>2. IsFiniteSet(C)
      BY <1>0, <3>1, Spaces, FS_Subset
    <3>3. QED
      BY <3>2, FS_CardinalityType DEF C, CandidatesOf
  <2>2. QED
    BY <2>1
<1> HIDE DEF s, c
<1>4. DOMAIN key = 1 .. c /\ \A i \in 1 .. c : key[i] = -CandidatesOf(roster, s[i]) /\ key[i] \in Int
  BY <1>2, <1>3
<1>5. t = [m \in 1 .. c |-> s[Ranked(key)[m]]]
  BY <1>1, <1>2
<1> HIDE DEF key, t
<1>6. Arranged(t, s, key, c)
  BY <1>2, <1>4, <1>5 DEF Arranged
<1>7. /\ Len(t) = c /\ DOMAIN t = 1 .. c
      /\ \A i \in 1 .. c : Ranked(key)[i] \in 1 .. c /\ t[i] = s[Ranked(key)[i]]
      /\ \A i, j \in 1 .. c : Ranked(key)[i] = Ranked(key)[j] => i = j
      /\ \A i \in 1 .. c : \E k \in 1 .. c : Ranked(key)[k] = i
      /\ \A i, j \in 1 .. c : i <= j => key[Ranked(key)[i]] >= key[Ranked(key)[j]]
  <2>1. c \in Nat
    BY <1>2
  <2>2. QED
    BY ONLY <1>6, <2>1, OrderedIs
<1>8. \A k \in 1 .. c : t[k] \in S
  BY <1>2, <1>7
<1>9. ASSUME NEW i \in S PROVE \E k \in 1 .. c : t[k] = i
  <2>1. PICK j \in 1 .. c : s[j] = i
    BY <1>2
  <2>2. PICK k \in 1 .. c : Ranked(key)[k] = j
    BY <1>7
  <2>3. QED
    BY <1>7, <2>1, <2>2
<1>10. ASSUME NEW k \in 1 .. c, NEW l \in 1 .. c, t[k] = t[l] PROVE k = l
  <2>1. s[Ranked(key)[k]] = s[Ranked(key)[l]] /\ Ranked(key)[k] \in 1 .. c /\ Ranked(key)[l] \in 1 .. c
    BY <1>7, <1>10
  <2>2. Ranked(key)[k] = Ranked(key)[l]
    BY <1>2, <2>1
  <2>3. QED
    BY <1>7, <2>2
<1>11. ASSUME NEW k \in 1 .. c, NEW l \in 1 .. c, k <= l
       PROVE  CandidatesOf(roster, t[k]) <= CandidatesOf(roster, t[l])
  <2>1. key[Ranked(key)[k]] >= key[Ranked(key)[l]]
    BY <1>7, <1>11
  <2>2. key[Ranked(key)[k]] = -CandidatesOf(roster, t[k]) /\ key[Ranked(key)[l]] = -CandidatesOf(roster, t[l])
    <3>1. /\ Ranked(key)[k] \in 1 .. c /\ t[k] = s[Ranked(key)[k]]
          /\ Ranked(key)[l] \in 1 .. c /\ t[l] = s[Ranked(key)[l]]
      BY <1>7
    <3>2. QED
      BY <1>4, <3>1
  <2>3. CandidatesOf(roster, t[k]) \in Int /\ CandidatesOf(roster, t[l]) \in Int
    BY <1>3, <1>8
  <2>4. QED
    BY <2>1, <2>2, <2>3
<1>12. QED
  BY <1>2, <1>7, <1>8, <1>9, <1>10, <1>11 DEF S, c, t

\* The rows after every slot, in the order of the slots.
IsRows(g, roster, m) ==
  g = [n \in 0 .. m |-> IF n = 0 THEN <<>> ELSE Fill(roster, g[n - 1], SlotOrder(roster)[n])]

LEMMA RowsExist ==
  ASSUME NEW roster, NEW m \in Nat
  PROVE  \E g : IsRows(g, roster, m)
<1> DEFINE F(n, rows) == Fill(roster, rows, SlotOrder(roster)[n])
           M == {n \in Nat : \E g : g = [k \in 0 .. n |-> IF k = 0 THEN <<>> ELSE F(k, g[k - 1])]}
<1>1. 0 \in M
  <2> DEFINE g == [k \in 0 .. 0 |-> <<>>]
  <2>1. g = [k \in 0 .. 0 |-> IF k = 0 THEN <<>> ELSE F(k, g[k - 1])]
    OBVIOUS
  <2>2. QED
    BY <2>1
<1>2. ASSUME NEW n \in 1 .. m, n - 1 \in M PROVE n \in M
  <2>1. PICK g : g = [k \in 0 .. n - 1 |-> IF k = 0 THEN <<>> ELSE F(k, g[k - 1])]
    BY <1>2
  <2> DEFINE h == [k \in 0 .. n |-> IF k = n THEN F(n, g[n - 1]) ELSE g[k]]
  <2> HIDE DEF F
  <2>2. ASSUME NEW k \in 0 .. n PROVE h[k] = IF k = 0 THEN <<>> ELSE F(k, h[k - 1])
    <3>1. CASE k = 0
      <4>1. h[k] = g[0] /\ 0 \in 0 .. n - 1
        BY <1>2, <3>1
      <4>2. QED
        BY <2>1, <3>1, <4>1
    <3>2. CASE k \in 1 .. n - 1
      <4>1. h[k] = g[k] /\ h[k - 1] = g[k - 1] /\ k \in 0 .. n - 1 /\ k # 0
        BY <1>2, <3>2
      <4>2. QED
        BY <2>1, <4>1
    <3>3. CASE k = n
      <4>1. h[k] = F(n, g[n - 1]) /\ h[k - 1] = g[n - 1] /\ k # 0
        BY <1>2, <3>3
      <4>2. QED
        BY <3>3, <4>1
    <3>4. QED
      BY <1>2, <3>1, <3>2, <3>3
  <2>3. h = [k \in 0 .. n |-> h[k]]
    OBVIOUS
  <2> HIDE DEF h
  <2>4. h = [k \in 0 .. n |-> IF k = 0 THEN <<>> ELSE F(k, h[k - 1])]
    BY <2>2, <2>3
  <2>5. QED
    BY <1>2, <2>4
<1> HIDE DEF M
<1>3. \A n \in 0 .. m : n \in M
  BY <1>1, <1>2, CountingUp
<1>4. m \in M
  BY <1>3
<1>5. QED
  BY <1>4 DEF M, IsRows

RowsOf(roster) == CHOOSE g : IsRows(g, roster, Len(SlotOrder(roster)))

LEMMA RowsAre ==
  ASSUME NEW roster, Len(SlotOrder(roster)) \in Nat
  PROVE  LET c == Len(SlotOrder(roster))
             g == RowsOf(roster)
         IN  /\ StartSit(roster) = g[c] /\ g[0] = <<>>
             /\ \A n \in 1 .. c : g[n] = Fill(roster, g[n - 1], SlotOrder(roster)[n])
<1> DEFINE c == Len(SlotOrder(roster))
           g == RowsOf(roster)
<1>1. StartSit(roster) = g[c]
  BY DEF StartSit, RowsOf, IsRows
<1>2. IsRows(g, roster, c)
  <2>1. \E h : IsRows(h, roster, c)
    BY RowsExist
  <2>2. QED
    BY <2>1 DEF RowsOf
<1> HIDE DEF g
<1>3. g = [n \in 0 .. c |-> IF n = 0 THEN <<>> ELSE Fill(roster, g[n - 1], SlotOrder(roster)[n])]
  BY <1>2 DEF IsRows
<1>4. g[0] = <<>>
  BY <1>3
<1>5. \A n \in 1 .. c : g[n] = Fill(roster, g[n - 1], SlotOrder(roster)[n])
  BY <1>3
<1>6. QED
  BY <1>1, <1>4, <1>5 DEF g

\* What every prefix of the rows has.
RowsOfRoster(roster, n) ==
  [slot : {roster[i].slot : i \in 1 .. n}, current : 1 .. n, best : 1 .. n]

Sound(roster, n, rows) ==
  /\ rows \in Seq(RowsOfRoster(roster, n))
  /\ LineupIsLegal(roster, rows) /\ NoSwapForTheWorse(roster, rows)
  /\ IsFiniteSet(Recommended(rows)) /\ Cardinality(Recommended(rows)) = Len(rows)

LEMMA FillIs ==
  ASSUME NEW roster, NEW n, IsRoster(roster, n), NEW rows, Sound(roster, n, rows), NEW i \in 1 .. n
  PROVE  LET free == Untaken(roster, roster[i].slot, Recommended(rows))
         IN  /\ Sound(roster, n, Fill(roster, rows, i))
             /\ free = {} => Recommended(Fill(roster, rows, i)) = Recommended(rows)
             /\ free # {} => Recommended(Fill(roster, rows, i)) = Recommended(rows) \union {BestOf(roster, free)}
<1> DEFINE free == Untaken(roster, roster[i].slot, Recommended(rows))
           R == RowsOfRoster(roster, n)
           best == BestOf(roster, free)
           entry == [slot |-> roster[i].slot, current |-> i, best |-> best]
           new == Append(rows, entry)
<1>1. Fill(roster, rows, i) = IF free = {} THEN rows ELSE new
  BY DEF Fill
<1>2. free \in SUBSET (1 .. n) /\ \A j \in free : roster[i].slot \in roster[j].eligible /\ j \notin Recommended(rows)
  BY DEF Untaken, Candidates, IsRoster
<1>3. CASE free = {}
  BY <1>1, <1>3
<1>4. CASE free # {}
  <2>1. best \in free /\ \A j \in free : Value(roster, best) >= Value(roster, j)
    BY <1>2, <1>4, BestIs
  <2>0. i \notin free => i \notin Candidates(roster, roster[i].slot) \/ i \in Recommended(rows)
    BY DEF Untaken
  <2> HIDE DEF free, best
  <2>2. entry \in R
    BY <1>2, <2>1 DEF RowsOfRoster
  <2> HIDE DEF R
  <2>3. rows \in Seq(R) /\ Len(rows) \in Nat /\ DOMAIN rows = 1 .. Len(rows)
    BY LenProperties DEF Sound, R
  <2>9. entry.slot = roster[i].slot /\ entry.current = i /\ entry.best = best
    OBVIOUS
  <2> HIDE DEF entry
  <2>4. /\ new \in Seq(R) /\ Len(new) = Len(rows) + 1 /\ DOMAIN new = 1 .. Len(rows) + 1
        /\ \A k \in 1 .. Len(rows) : new[k] = rows[k]
        /\ new[Len(rows) + 1] = entry
    BY <2>2, <2>3, AppendProperties, LenProperties
  <2> HIDE DEF new
  <2>5. Recommended(new) = Recommended(rows) \union {best}
    BY <2>3, <2>4, <2>9 DEF Recommended
  <2>6. best \notin Recommended(rows)
    BY <1>2, <2>1
  <2>7. IsFiniteSet(Recommended(new)) /\ Cardinality(Recommended(new)) = Len(new)
    <3> DEFINE T == Recommended(rows)
    <3>1. IsFiniteSet(T) /\ Cardinality(T) = Len(rows) /\ best \notin T
      BY <2>6 DEF Sound
    <3> HIDE DEF T
    <3>2. IsFiniteSet(T \union {best}) /\ Cardinality(T \union {best}) = Cardinality(T) + 1
      BY <3>1, FS_AddElement
    <3>3. QED
      BY <2>4, <2>5, <3>1, <3>2 DEF T
  <2>8. \A k \in DOMAIN new : k \in DOMAIN rows \/ k = Len(rows) + 1
    BY <2>3, <2>4
  <2>10. LineupIsLegal(roster, new)
    <3>1. \A k \in DOMAIN rows : rows[k].best \in Recommended(rows)
      BY DEF Recommended
    <3>2. ASSUME NEW k \in DOMAIN new, NEW j \in DOMAIN new
          PROVE  /\ new[k].slot \in roster[new[k].best].eligible
                 /\ new[k].best = new[j].best => k = j
      <4>1. \A a, b \in DOMAIN rows : /\ rows[a].slot \in roster[rows[a].best].eligible
                                      /\ rows[a].best = rows[b].best => a = b
        BY DEF Sound, LineupIsLegal
      <4>2. entry.slot \in roster[entry.best].eligible
        BY <1>2, <2>1, <2>9
      <4>3. QED
        BY <2>3, <2>4, <2>6, <2>8, <2>9, <3>1, <4>1, <4>2
    <3>3. QED
      BY <3>2 DEF LineupIsLegal
  <2>11. NoSwapForTheWorse(roster, new)
    <3>1. ASSUME NEW k \in DOMAIN new, roster[new[k].current].slot \in roster[new[k].current].eligible,
                 Value(roster, new[k].best) < Value(roster, new[k].current)
          PROVE  new[k].current \in Recommended(new)
      <4>1. CASE k \in DOMAIN rows
        <5>1. new[k] = rows[k]
          BY <2>3, <2>4, <4>1
        <5>2. rows[k].current \in Recommended(rows)
          BY <3>1, <4>1, <5>1 DEF Sound, NoSwapForTheWorse, Value
        <5>3. QED
          BY <2>5, <5>1, <5>2
      <4>2. CASE k = Len(rows) + 1
        <5>1. new[k].current = i /\ new[k].best = best
          BY <2>4, <2>9, <4>2
        <5>2. i \in Candidates(roster, roster[i].slot)
          BY <3>1, <5>1 DEF Candidates, IsRoster
        <5>3. best \in 1 .. n /\ Value(roster, best) \in Int /\ Value(roster, i) \in Int
          BY <1>2, <2>1 DEF IsRoster
        <5>4. i \notin free
          BY <2>1, <3>1, <5>1, <5>3
        <5>5. QED
          BY <2>0, <2>5, <5>1, <5>2, <5>4
      <4>3. QED
        BY <2>8, <4>1, <4>2
    <3>2. QED
      BY <3>1 DEF NoSwapForTheWorse, Value
  <2>12. Sound(roster, n, new)
    BY <2>4, <2>7, <2>10, <2>11 DEF Sound, R
  <2>13. QED
    BY <1>1, <1>4, <2>5, <2>12 DEF free, best
<1>5. QED
  BY <1>3, <1>4

\* The player put into each slot, or 0.
TakenBefore(roster, k) == Recommended(RowsOf(roster)[k - 1])
FreeAt(roster, k) == Untaken(roster, roster[SlotOrder(roster)[k]].slot, TakenBefore(roster, k))
Picked(roster, k) == IF FreeAt(roster, k) = {} THEN 0 ELSE BestOf(roster, FreeAt(roster, k))

LEMMA Picking ==
  ASSUME NEW roster, NEW n, IsRoster(roster, n)
  PROVE  LET c == Cardinality(Starters(roster))
             T(k) == Recommended(RowsOf(roster)[k])
         IN  /\ \A k \in 0 .. c : Sound(roster, n, RowsOf(roster)[k])
             /\ T(0) = {}
             /\ \A k \in 1 .. c : T(k) = T(k - 1) \union ({Picked(roster, k)} \ {0})
<1> DEFINE c == Cardinality(Starters(roster))
           g == RowsOf(roster)
           M == {k \in 0 .. c : Sound(roster, n, g[k])}
<1>0. n \in Nat
  BY DEF IsRoster
<1>1. /\ c \in Nat /\ Len(SlotOrder(roster)) = c
      /\ \A k \in 1 .. c : SlotOrder(roster)[k] \in Starters(roster)
  BY SlotsAre
<1>2. \A k \in 1 .. c : SlotOrder(roster)[k] \in 1 .. n
  BY <1>1 DEF Starters, IsRoster
<1> HIDE DEF c
<1>3. g[0] = <<>> /\ \A k \in 1 .. c : g[k] = Fill(roster, g[k - 1], SlotOrder(roster)[k])
  BY <1>1, RowsAre
<1> HIDE DEF g
<1>4. Recommended(<<>>) = {} /\ Sound(roster, n, <<>>)
  <2>1. DOMAIN <<>> = {} /\ Len(<<>>) = 0 /\ <<>> \in Seq(RowsOfRoster(roster, n))
    OBVIOUS
  <2>2. Recommended(<<>>) = {}
    BY <2>1 DEF Recommended
  <2>3. QED
    BY <2>1, <2>2, FS_EmptySet DEF Sound, LineupIsLegal, NoSwapForTheWorse
<1>5. 0 \in M
  BY <1>1, <1>3, <1>4
<1>6. ASSUME NEW k \in 1 .. c, Sound(roster, n, g[k - 1])
      PROVE  /\ Sound(roster, n, g[k])
             /\ Recommended(g[k]) = Recommended(g[k - 1]) \union ({Picked(roster, k)} \ {0})
  <2> DEFINE i == SlotOrder(roster)[k]
             free == Untaken(roster, roster[i].slot, Recommended(g[k - 1]))
             next == Fill(roster, g[k - 1], i)
  <2>1. i \in 1 .. n /\ g[k] = next
    BY <1>2, <1>3
  <2>2. Picked(roster, k) = IF free = {} THEN 0 ELSE BestOf(roster, free)
    BY DEF Picked, FreeAt, TakenBefore, g
  <2>3. /\ Sound(roster, n, next)
        /\ free = {} => Recommended(next) = Recommended(g[k - 1])
        /\ free # {} => Recommended(next) = Recommended(g[k - 1]) \union {BestOf(roster, free)}
    BY <1>6, <2>1, FillIs
  <2>4. free \in SUBSET (1 .. n)
    BY DEF Untaken, Candidates, IsRoster
  <2> HIDE DEF free, next, i
  <2>5. free # {} => BestOf(roster, free) # 0
    BY <1>0, <2>4, BestIs
  <2>6. QED
    BY <2>1, <2>2, <2>3, <2>5
<1>7. \A k \in 1 .. c : k - 1 \in M => k \in M
  BY <1>6
<1> HIDE DEF M
<1>8. \A k \in 0 .. c : k \in M
  BY <1>1, <1>5, <1>7, CountingUp
<1>9. \A k \in 0 .. c : Sound(roster, n, g[k])
  BY <1>8 DEF M
<1>10. \A k \in 1 .. c : Sound(roster, n, g[k - 1])
  BY <1>1, <1>9
<1>11. QED
  BY <1>3, <1>4, <1>6, <1>9, <1>10 DEF g, c

LEMMA PickIs ==
  ASSUME NEW roster, NEW n, IsRoster(roster, n), NEW k \in 1 .. Cardinality(Starters(roster))
  PROVE  LET b == Picked(roster, k)
             i == SlotOrder(roster)[k]
             T == TakenBefore(roster, k)
         IN  /\ b = 0 => Candidates(roster, roster[i].slot) \subseteq T
             /\ b # 0 => /\ b \in Candidates(roster, roster[i].slot) /\ b \notin T
                         /\ \A x \in Candidates(roster, roster[i].slot) \ T :
                              Value(roster, b) >= Value(roster, x)
<1> DEFINE i == SlotOrder(roster)[k]
           free == FreeAt(roster, k)
<1>0. n \in Nat
  BY DEF IsRoster
<1>1. free = Candidates(roster, roster[i].slot) \ TakenBefore(roster, k)
  BY DEF FreeAt, Untaken
<1>2. free \in SUBSET (1 .. n)
  BY <1>1 DEF Candidates, IsRoster
<1> HIDE DEF free
<1>3. free # {} => /\ BestOf(roster, free) \in free
                   /\ \A x \in free : Value(roster, BestOf(roster, free)) >= Value(roster, x)
  BY <1>2, BestIs
<1>4. Picked(roster, k) = IF free = {} THEN 0 ELSE BestOf(roster, free)
  BY DEF Picked, free
<1>5. CASE free = {}
  BY <1>1, <1>4, <1>5
<1>6. CASE free # {}
  <2>1. BestOf(roster, free) # 0
    BY <1>0, <1>2, <1>3, <1>6
  <2>2. QED
    BY <1>1, <1>3, <1>4, <1>6, <2>1
<1>7. QED
  BY <1>5, <1>6

LEMMA TakenAre ==
  ASSUME NEW roster, NEW n, IsRoster(roster, n)
  PROVE  \A k \in 0 .. Cardinality(Starters(roster)) :
           Recommended(RowsOf(roster)[k]) = {Picked(roster, m) : m \in 1 .. k} \ {0}
<1> DEFINE c == Cardinality(Starters(roster))
           T(k) == Recommended(RowsOf(roster)[k])
           P(k) == {Picked(roster, m) : m \in 1 .. k} \ {0}
           M == {k \in 0 .. c : T(k) = P(k)}
<1>1. c \in Nat
  BY SlotsAre
<1>2. T(0) = {} /\ \A k \in 1 .. c : T(k) = T(k - 1) \union ({Picked(roster, k)} \ {0})
  BY Picking
<1> HIDE DEF c, T
<1>3. 0 \in M
  <2>1. P(0) = {}
    OBVIOUS
  <2>2. QED
    BY <1>1, <1>2, <2>1
<1>4. ASSUME NEW k \in 1 .. c, k - 1 \in M PROVE k \in M
  <2>1. 1 .. k = (1 .. k - 1) \union {k}
    OBVIOUS
  <2>2. P(k) = P(k - 1) \union ({Picked(roster, k)} \ {0})
    BY <2>1
  <2> HIDE DEF P
  <2>3. QED
    BY <1>2, <1>4, <2>2
<1> HIDE DEF M
<1>5. \A k \in 0 .. c : k \in M
  BY <1>1, <1>3, <1>4, CountingUp
<1>6. QED
  BY <1>5 DEF M, c, T

\* The points of some players, and of others in their place.
LEMMA PointsOfPlayers ==
  ASSUME NEW roster, NEW n, IsRoster(roster, n), NEW A \in SUBSET (1 .. n)
  PROVE  /\ IsFiniteSet(A) /\ Cardinality(A) \in Nat /\ PointsOfSet(roster, A) \in Int
         /\ PointsOfSet(roster, A) = SumFunctionOnSet([i \in 1 .. n |-> Value(roster, i)], A)
<1> DEFINE f == [i \in A |-> Value(roster, i)]
           V == [i \in 1 .. n |-> Value(roster, i)]
<1>0. n \in Nat
  BY DEF IsRoster
<1>1. IsFiniteSet(A) /\ Cardinality(A) \in Nat
  BY <1>0, Spaces, FS_Subset, FS_CardinalityType
<1>2. PointsOfSet(roster, A) = SumFunctionOnSet(f, A)
  BY DEF PointsOfSet, SumFunction, Value
<1>3. \A i \in A : f[i] \in Int /\ f[i] = V[i]
  BY DEF IsRoster
<1> HIDE DEF f, V
<1>4. SumFunctionOnSet(f, A) = SumFunctionOnSet(V, A) /\ SumFunctionOnSet(f, A) \in Int
  BY <1>1, <1>3, SumSame, SumType
<1>5. QED
  BY <1>1, <1>2, <1>4 DEF V

LEMMA PlayerAdded ==
  ASSUME NEW roster, NEW n, IsRoster(roster, n), NEW A \in SUBSET (1 .. n), NEW b \in (1 .. n) \ A
  PROVE  /\ Cardinality(A \union {b}) = Cardinality(A) + 1
         /\ PointsOfSet(roster, A \union {b}) = Value(roster, b) + PointsOfSet(roster, A)
<1> DEFINE V == [i \in 1 .. n |-> Value(roster, i)]
           B == A \union {b}
           D == 1 .. n
<1>1. IsFiniteSet(A) /\ PointsOfSet(roster, A) = SumFunctionOnSet(V, A)
  BY PointsOfPlayers
<1>2. B \in SUBSET D /\ PointsOfSet(roster, B) = SumFunctionOnSet(V, B)
  BY PointsOfPlayers
<1>3. (\A i \in D : V[i] \in Int) /\ IsFiniteSet(D) /\ V[b] = Value(roster, b) /\ A \in SUBSET D /\ b \in D \ A
  BY Spaces DEF IsRoster
<1> HIDE DEF V, D
<1>4. SumFunctionOnSet(V, B) = V[b] + SumFunctionOnSet(V, A)
  BY <1>3, SumWith
<1>5. Cardinality(B) = Cardinality(A) + 1
  BY <1>1, FS_AddElement
<1>6. QED
  BY <1>1, <1>2, <1>3, <1>4, <1>5

\* More players, or as many with no fewer points.
NoWorse(roster, A, B) ==
  \/ Cardinality(A) < Cardinality(B)
  \/ Cardinality(A) = Cardinality(B) /\ PointsOfSet(roster, A) <= PointsOfSet(roster, B)

LEMMA BetterInPlace ==
  ASSUME NEW roster, NEW n, IsRoster(roster, n), NEW A \in SUBSET (1 .. n), NEW b \in (1 .. n) \ A,
         NEW a \in A \union {0}, a \in A => Value(roster, a) <= Value(roster, b)
  PROVE  NoWorse(roster, A, (A \ {a}) \union {b})
<1> DEFINE R == A \ {a}
<1>1. /\ R \in SUBSET (1 .. n) /\ b \in (1 .. n) \ R
      /\ Cardinality(R) \in Nat /\ PointsOfSet(roster, R) \in Int
      /\ Cardinality(A) \in Nat /\ PointsOfSet(roster, A) \in Int
  <2>1. R \in SUBSET (1 .. n) /\ b \in (1 .. n) \ R
    OBVIOUS
  <2> HIDE DEF R
  <2>2. QED
    BY <2>1, PointsOfPlayers
<1> HIDE DEF R
<1>2. /\ Cardinality(R \union {b}) = Cardinality(R) + 1
      /\ PointsOfSet(roster, R \union {b}) = Value(roster, b) + PointsOfSet(roster, R)
  BY <1>1, PlayerAdded
<1>3. CASE a \in A
  <2>1. a \in (1 .. n) \ R /\ R \union {a} = A
    BY <1>3 DEF R
  <2>2. /\ Cardinality(A) = Cardinality(R) + 1
        /\ PointsOfSet(roster, A) = Value(roster, a) + PointsOfSet(roster, R)
    BY <1>1, <2>1, PlayerAdded
  <2>3. Value(roster, a) \in Int /\ Value(roster, b) \in Int
    BY <1>3 DEF IsRoster
  <2>4. QED
    BY <1>1, <1>2, <1>3, <2>2, <2>3 DEF NoWorse, R
<1>4. CASE a \notin A
  <2>1. R = A
    BY <1>4 DEF R
  <2>2. QED
    BY <1>1, <1>2, <2>1 DEF NoWorse, R
<1>5. QED
  BY <1>3, <1>4

Fielding(f) == {f[i] : i \in DOMAIN f} \ {0}

\* A lineup that has the players picked in the first k slots.
Follows(roster, f, k) == \A m \in 1 .. k : f[SlotOrder(roster)[m]] = Picked(roster, m)

IsLineup(roster, f) ==
  /\ f \in [Starters(roster) -> DOMAIN roster \union {0}]
  /\ \A i \in Starters(roster) : f[i] # 0 => f[i] \in Candidates(roster, roster[i].slot)
  /\ \A i, j \in Starters(roster) : f[i] # 0 /\ f[i] = f[j] => i = j

LEMMA LineupsAre ==
  ASSUME NEW roster, NEW n, IsRoster(roster, n)
  PROVE  \A f : f \in StartSitLineups(roster) <=> IsLineup(roster, f)
<1>1. \A f \in [Starters(roster) -> DOMAIN roster \union {0}] : \A i \in Starters(roster) :
        f[i] # 0 => (f[i] \in Candidates(roster, roster[i].slot) <=> roster[i].slot \in roster[f[i]].eligible)
  BY DEF Candidates
<1>2. QED
  BY <1>1 DEF StartSitLineups, IsLineup

\* Whatever a slot holds can be exchanged for what is picked there.
LEMMA Exchange ==
  ASSUME NEW roster, NEW n, IsRoster(roster, n), Nested(roster),
         NEW k \in 1 .. Cardinality(Starters(roster)),
         NEW f, IsLineup(roster, f), Follows(roster, f, k - 1)
  PROVE  \E h : /\ IsLineup(roster, h) /\ Follows(roster, h, k)
                /\ (Fielding(h) = Fielding(f) \/ NoWorse(roster, Fielding(f), Fielding(h)))
<1> DEFINE c == Cardinality(Starters(roster))
           slots == SlotOrder(roster)
           i == slots[k]
           b == Picked(roster, k)
           T == TakenBefore(roster, k)
           a == f[i]
           C(j) == Candidates(roster, roster[j].slot)
<1>0. n \in Nat /\ DOMAIN roster = 1 .. n /\ Starters(roster) \subseteq 1 .. n
      /\ \A j \in Starters(roster) : C(j) \in SUBSET (1 .. n)
  BY DEF IsRoster, Starters, Candidates
<1>1. /\ c \in Nat
      /\ \A m \in 1 .. c : slots[m] \in Starters(roster)
      /\ \A j \in Starters(roster) : \E m \in 1 .. c : slots[m] = j
      /\ \A m, l \in 1 .. c : slots[m] = slots[l] => m = l
      /\ \A m, l \in 1 .. c : m <= l => CandidatesOf(roster, slots[m]) <= CandidatesOf(roster, slots[l])
  BY SlotsAre
<1>2. T = {Picked(roster, m) : m \in 1 .. k - 1} \ {0}
  <2>1. k - 1 \in 0 .. c
    BY <1>1
  <2>2. QED
    BY <2>1, TakenAre DEF TakenBefore
<1>3. /\ b = 0 => C(i) \subseteq T
      /\ b # 0 => /\ b \in C(i) /\ b \notin T
                  /\ \A x \in C(i) \ T : Value(roster, b) >= Value(roster, x)
  BY PickIs
<1>4. k \in 1 .. c /\ i \in Starters(roster) /\ \A m \in 1 .. k - 1 : m \in 1 .. c /\ slots[m] \in Starters(roster) /\ slots[m] # i
  <2>1. \A m \in 1 .. k - 1 : m \in 1 .. c /\ m # k
    BY <1>1
  <2>2. QED
    BY <1>1, <2>1
<1>5. \A m \in 1 .. k - 1 : f[slots[m]] = Picked(roster, m)
  BY DEF Follows
<1>6. /\ f \in [Starters(roster) -> 1 .. n \union {0}]
      /\ \A j \in Starters(roster) : f[j] # 0 => f[j] \in C(j)
      /\ \A j, l \in Starters(roster) : f[j] # 0 /\ f[j] = f[l] => j = l
  BY <1>0 DEF IsLineup
<1> HIDE DEF slots, c, C, T, b
<1>7. a # 0 => a \in C(i) /\ a \notin T
  <2>1. ASSUME a # 0, a \in T PROVE FALSE
    <3>1. PICK m \in 1 .. k - 1 : a = Picked(roster, m)
      BY <1>2, <2>1
    <3>2. f[slots[m]] = a /\ slots[m] \in Starters(roster) /\ slots[m] # i
      BY <1>4, <1>5, <3>1
    <3>3. QED
      BY <1>4, <1>6, <2>1, <3>2
  <2>2. QED
    BY <1>4, <1>6, <2>1
<1>8. b # 0 => \A m \in 1 .. k - 1 : f[slots[m]] # b
  BY <1>2, <1>3, <1>5
<1>9. CASE a = b
  <2>1. \A m \in 1 .. k : m \in 1 .. k - 1 \/ m = k
    BY <1>1
  <2>2. Follows(roster, f, k)
    BY <1>5, <1>9, <2>1 DEF Follows, slots, b
  <2>3. QED
    BY <2>2
<1>10. CASE b = 0 /\ a # b
  BY <1>3, <1>7, <1>10
<1>11. CASE b # 0 /\ a # b /\ b \notin {f[j] : j \in Starters(roster)}
  <2> DEFINE h == [f EXCEPT ![i] = b]
  <2>1. h \in [Starters(roster) -> 1 .. n \union {0}] /\ \A j \in Starters(roster) : h[j] = IF j = i THEN b ELSE f[j]
    BY <1>0, <1>3, <1>4, <1>6, <1>11
  <2>8. DOMAIN h = Starters(roster) /\ DOMAIN f = Starters(roster)
    BY <1>6
  <2> HIDE DEF h
  <2>2. IsLineup(roster, h)
    <3>1. \A j \in Starters(roster) : h[j] # 0 => h[j] \in C(j)
      BY <1>3, <1>6, <1>11, <2>1
    <3>2. \A j, l \in Starters(roster) : h[j] # 0 /\ h[j] = h[l] => j = l
      BY <1>6, <1>11, <2>1
    <3>3. QED
      BY <1>0, <2>1, <3>1, <3>2 DEF IsLineup, C
  <2>3. Follows(roster, h, k)
    <3>1. ASSUME NEW m \in 1 .. k PROVE h[slots[m]] = Picked(roster, m)
      <4>1. m \in 1 .. k - 1 \/ m = k
        BY <1>1
      <4>2. QED
        BY <1>4, <1>5, <2>1, <4>1 DEF b
    <3>2. QED
      BY <3>1 DEF Follows, slots
  <2>4. Fielding(h) = (Fielding(f) \ {a}) \union {b}
    <3>1. \A j \in Starters(roster) : j # i /\ f[j] # 0 => f[j] # a
      BY <1>4, <1>6
    <3>2. Fielding(h) = {h[j] : j \in Starters(roster)} \ {0} /\ Fielding(f) = {f[j] : j \in Starters(roster)} \ {0}
      BY <2>8 DEF Fielding
    <3>3. ASSUME NEW x \in Fielding(h) PROVE x \in (Fielding(f) \ {a}) \union {b}
      <4>1. PICK j \in Starters(roster) : x = h[j] /\ x # 0
        BY <3>2
      <4>2. QED
        BY <2>1, <3>1, <3>2, <4>1
    <3>4. ASSUME NEW x \in Fielding(f) \ {a} PROVE x \in Fielding(h)
      <4>1. PICK j \in Starters(roster) : x = f[j] /\ x # 0
        BY <3>2
      <4>2. j # i /\ h[j] = x
        BY <2>1, <4>1
      <4>3. QED
        BY <3>2, <4>1, <4>2
    <3>5. b \in Fielding(h)
      <4>1. h[i] = b
        BY <1>4, <2>1
      <4>2. QED
        BY <1>4, <1>11, <3>2, <4>1
    <3>6. QED
      BY <3>3, <3>4, <3>5
  <2>5. Fielding(f) \in SUBSET (1 .. n) /\ b \in (1 .. n) \ Fielding(f) /\ a \in Fielding(f) \union {0}
    BY <1>0, <1>3, <1>4, <1>6, <1>11, <2>8 DEF Fielding
  <2>6. a \in Fielding(f) => Value(roster, a) <= Value(roster, b)
    <3>1. a \in Fielding(f) => a # 0
      BY DEF Fielding
    <3>2. a # 0 => Value(roster, b) >= Value(roster, a)
      BY <1>3, <1>7, <1>11
    <3>3. a # 0 => a \in 1 .. n /\ b \in 1 .. n
      BY <1>0, <1>4, <1>7, <2>5
    <3>4. a # 0 => Value(roster, a) \in Int /\ Value(roster, b) \in Int
      BY <3>3 DEF IsRoster
    <3>5. QED
      BY <3>1, <3>2, <3>4
  <2> HIDE DEF a
  <2>7. NoWorse(roster, Fielding(f), Fielding(h))
    BY <2>4, <2>5, <2>6, BetterInPlace
  <2>9. QED
    BY <2>2, <2>3, <2>7
<1>12. CASE b # 0 /\ a # b /\ b \in {f[j] : j \in Starters(roster)}
  <2>1. PICK j \in Starters(roster) : f[j] = b
    BY <1>12
  <2> DEFINE h == [f EXCEPT ![i] = b, ![j] = a]
  <2>2. j # i /\ \A m \in 1 .. k - 1 : slots[m] # j
    BY <1>8, <1>12, <2>1
  <2>3. C(i) \subseteq C(j)
    <3>1. PICK t \in 1 .. c : slots[t] = j
      BY <1>1
    <3>2. k <= t
      <4>1. ~(t \in 1 .. k - 1)
        BY <2>2, <3>1
      <4>2. QED
        BY <1>1, <4>1
    <3>3. CandidatesOf(roster, i) <= CandidatesOf(roster, j)
      BY <1>1, <1>4, <3>1, <3>2
    <3>4. b \in C(i) /\ b \in C(j)
      BY <1>3, <1>6, <1>12, <2>1
    <3>5. C(i) \subseteq C(j) \/ C(j) \subseteq C(i)
      BY <1>4, <3>4 DEF Nested, C
    <3> DEFINE S == C(i)
               R == C(j)
    <3>6. IsFiniteSet(S) /\ Cardinality(S) <= Cardinality(R) /\ (S \subseteq R \/ R \subseteq S)
      <4>1. IsFiniteSet(S)
        BY <1>0, <1>4, Spaces, FS_Subset
      <4>2. Cardinality(S) <= Cardinality(R)
        BY <3>3 DEF CandidatesOf, C
      <4>3. QED
        BY <3>5, <4>1, <4>2
    <3> HIDE DEF S, R
    <3>7. ASSUME R \subseteq S PROVE R = S
      <4>1. Cardinality(R) <= Cardinality(S) /\ Cardinality(R) \in Nat /\ Cardinality(S) \in Nat
        BY <3>6, <3>7, FS_Subset, FS_CardinalityType
      <4>2. Cardinality(R) = Cardinality(S)
        BY <3>6, <4>1
      <4>3. QED
        BY <3>6, <3>7, <4>2, FS_Subset
    <3>8. QED
      BY <3>6, <3>7 DEF S, R
  <2>4. h \in [Starters(roster) -> 1 .. n \union {0}]
        /\ \A l \in Starters(roster) : h[l] = IF l = i THEN b ELSE IF l = j THEN a ELSE f[l]
    BY <1>0, <1>3, <1>4, <1>6, <1>12, <2>1, <2>2
  <2>5. DOMAIN h = Starters(roster) /\ DOMAIN f = Starters(roster)
    BY <1>6
  <2> HIDE DEF h
  <2>6. IsLineup(roster, h)
    <3>1. \A l \in Starters(roster) : h[l] # 0 => h[l] \in C(l)
      BY <1>3, <1>6, <1>7, <1>12, <2>3, <2>4
    <3>2. \A l, m \in Starters(roster) : h[l] # 0 /\ h[l] = h[m] => l = m
      BY <1>4, <1>6, <1>12, <2>1, <2>2, <2>4
    <3>3. QED
      BY <1>0, <2>4, <3>1, <3>2 DEF IsLineup, C
  <2>7. Follows(roster, h, k)
    <3>1. ASSUME NEW m \in 1 .. k PROVE h[slots[m]] = Picked(roster, m)
      <4>1. m \in 1 .. k - 1 \/ m = k
        BY <1>1
      <4>2. QED
        BY <1>4, <1>5, <2>2, <2>4, <4>1 DEF b
    <3>2. QED
      BY <3>1 DEF Follows, slots
  <2>8. Fielding(h) = Fielding(f)
    <3>1. Fielding(h) = {h[l] : l \in Starters(roster)} \ {0} /\ Fielding(f) = {f[l] : l \in Starters(roster)} \ {0}
      BY <2>5 DEF Fielding
    <3>2. \A l \in Starters(roster) : \E m \in Starters(roster) : h[m] = f[l]
      BY <1>4, <2>1, <2>2, <2>4
    <3>3. \A l \in Starters(roster) : \E m \in Starters(roster) : f[m] = h[l]
      BY <1>4, <2>1, <2>2, <2>4
    <3>4. QED
      BY <3>1, <3>2, <3>3
  <2>9. QED
    BY <2>6, <2>7, <2>8
<1>13. QED
  BY <1>9, <1>10, <1>11, <1>12

LEMMA FieldedPlayers ==
  ASSUME NEW roster, NEW n, IsRoster(roster, n), NEW f, IsLineup(roster, f)
  PROVE  /\ Fielding(f) \in SUBSET (1 .. n) /\ Cardinality(Fielding(f)) \in Nat
         /\ PointsOfSet(roster, Fielding(f)) \in Int
         /\ Fielding(f) = {f[i] : i \in Starters(roster)} \ {0}
<1>1. f \in [Starters(roster) -> 1 .. n \union {0}]
  BY DEF IsLineup, IsRoster
<1>2. Fielding(f) = {f[i] : i \in Starters(roster)} \ {0}
  BY <1>1 DEF Fielding
<1>3. Fielding(f) \in SUBSET (1 .. n)
  BY <1>1, <1>2
<1>4. QED
  BY <1>2, <1>3, PointsOfPlayers

\* Slot by slot, every lineup can be turned into the one that is picked.
LEMMA GreedyWins ==
  ASSUME NEW roster, NEW n, IsRoster(roster, n), Nested(roster), NEW f, IsLineup(roster, f)
  PROVE  NoWorse(roster, Fielding(f), Recommended(StartSit(roster)))
<1> DEFINE c == Cardinality(Starters(roster))
           slots == SlotOrder(roster)
           Good(h) == NoWorse(roster, Fielding(f), Fielding(h))
           M == {k \in 0 .. c : \E h : IsLineup(roster, h) /\ Follows(roster, h, k) /\ Good(h)}
<1>1. /\ c \in Nat /\ Len(slots) = c
      /\ \A k \in 1 .. c : slots[k] \in Starters(roster)
      /\ \A i \in Starters(roster) : \E k \in 1 .. c : slots[k] = i
  BY SlotsAre
<1>2. 0 \in M
  <2>1. Good(f) /\ Follows(roster, f, 0)
    BY FieldedPlayers DEF NoWorse, Follows
  <2>2. QED
    BY <1>1, <2>1
<1>3. ASSUME NEW k \in 1 .. c, k - 1 \in M PROVE k \in M
  <2>1. PICK g : IsLineup(roster, g) /\ Follows(roster, g, k - 1) /\ Good(g)
    BY <1>3
  <2>2. PICK h : /\ IsLineup(roster, h) /\ Follows(roster, h, k)
                 /\ (Fielding(h) = Fielding(g) \/ NoWorse(roster, Fielding(g), Fielding(h)))
    BY <2>1, Exchange
  <2>3. Good(h)
    <3>1. CASE Fielding(h) = Fielding(g)
      BY <2>1, <3>1
    <3>2. CASE NoWorse(roster, Fielding(g), Fielding(h))
      <4>1. /\ Cardinality(Fielding(f)) \in Nat /\ PointsOfSet(roster, Fielding(f)) \in Int
            /\ Cardinality(Fielding(g)) \in Nat /\ PointsOfSet(roster, Fielding(g)) \in Int
            /\ Cardinality(Fielding(h)) \in Nat /\ PointsOfSet(roster, Fielding(h)) \in Int
        BY <2>1, <2>2, FieldedPlayers
      <4>2. QED
        BY <2>1, <3>2, <4>1 DEF NoWorse
    <3>3. QED
      BY <2>2, <3>1, <3>2
  <2> HIDE DEF Good
  <2>4. QED
    BY <1>3, <2>2, <2>3
<1> HIDE DEF M
<1>4. \A k \in 0 .. c : k \in M
  BY <1>1, <1>2, <1>3, CountingUp
<1>5. c \in M
  BY <1>1, <1>4
<1>6. PICK h : IsLineup(roster, h) /\ Follows(roster, h, c) /\ Good(h)
  BY <1>5 DEF M
<1>7. Fielding(h) = {Picked(roster, m) : m \in 1 .. c} \ {0}
  <2>1. Fielding(h) = {h[i] : i \in Starters(roster)} \ {0}
    BY <1>6, FieldedPlayers
  <2>2. \A m \in 1 .. c : h[slots[m]] = Picked(roster, m)
    BY <1>6 DEF Follows
  <2> HIDE DEF slots, c
  <2>3. {h[i] : i \in Starters(roster)} = {Picked(roster, m) : m \in 1 .. c}
    BY <1>1, <2>2
  <2>4. QED
    BY <2>1, <2>3
<1>8. Recommended(StartSit(roster)) = {Picked(roster, m) : m \in 1 .. c} \ {0}
  <2>1. StartSit(roster) = RowsOf(roster)[c]
    BY <1>1, RowsAre
  <2>2. c \in 0 .. c
    BY <1>1
  <2>3. QED
    BY <2>1, <2>2, TakenAre
<1>9. QED
  BY <1>6, <1>7, <1>8

LEMMA LineupAdviceHolds ==
  ASSUME NEW roster, NEW n, IsRoster(roster, n)
  PROVE  /\ LineupIsLegal(roster, StartSit(roster))
         /\ GreedyIsBest(roster, StartSit(roster))
         /\ NoSwapForTheWorse(roster, StartSit(roster))
<1> DEFINE c == Cardinality(Starters(roster))
           rows == StartSit(roster)
<1>1. c \in Nat /\ Len(SlotOrder(roster)) = c
  BY SlotsAre
<1>2. rows = RowsOf(roster)[c]
  BY <1>1, RowsAre
<1>3. Sound(roster, n, rows)
  <2>1. c \in 0 .. c
    BY <1>1
  <2>2. QED
    BY <1>2, <2>1, Picking
<1> HIDE DEF rows
<1>4. ASSUME Nested(roster), NEW f \in StartSitLineups(roster)
      PROVE  LET fielded == {f[i] : i \in DOMAIN f} \ {0}
             IN  /\ Cardinality(fielded) <= Len(rows)
                 /\ Cardinality(fielded) = Len(rows) =>
                      PointsOfSet(roster, fielded) <= PointsOfSet(roster, Recommended(rows))
  <2>1. IsLineup(roster, f)
    BY <1>4, LineupsAre
  <2>2. NoWorse(roster, Fielding(f), Recommended(rows))
    BY <1>4, <2>1, GreedyWins DEF rows
  <2>3. Cardinality(Recommended(rows)) = Len(rows) /\ Len(rows) \in Nat
    BY <1>3, LenProperties DEF Sound
  <2>4. Cardinality(Fielding(f)) \in Nat
    BY <2>1, FieldedPlayers
  <2>5. QED
    BY <2>2, <2>3, <2>4 DEF NoWorse, Fielding
<1>5. GreedyIsBest(roster, rows)
  BY <1>4 DEF GreedyIsBest
<1>6. QED
  BY <1>3, <1>5 DEF Sound, rows
-----------------------------------------------------------------------------
\* The digest of a synchronisation: the comparison of the j-th player's q-th figure.
Number(j, q) == 4 * (j - 1) + q
Pair(earlier, later, i, j) == i \in DOMAIN earlier /\ j \in DOMAIN later /\ earlier[i].id = later[j].id

LEMMA Numbering ==
  /\ \A j \in Nat \ {0}, q \in 1 .. 4 :
       /\ Number(j, q) \in Nat \ {0} /\ PlayerOf(Number(j, q)) = j /\ KindOf(Number(j, q)) = Kinds[q]
       /\ \A l \in Nat : Number(j, q) \in 1 .. 4 * l <=> j \in 1 .. l
  /\ \A n \in Nat \ {0} : \E j \in Nat \ {0}, q \in 1 .. 4 : n = Number(j, q)
  /\ \A i, j \in Nat \ {0}, p, q \in 1 .. 4 : Number(i, p) = Number(j, q) => i = j /\ p = q
<1>1. ASSUME NEW j \in Nat \ {0}, NEW q \in 1 .. 4
      PROVE  /\ Number(j, q) \in Nat \ {0} /\ PlayerOf(Number(j, q)) = j /\ KindOf(Number(j, q)) = Kinds[q]
             /\ \A l \in Nat : Number(j, q) \in 1 .. 4 * l <=> j \in 1 .. l
  <2>1. Number(j, q) \in Nat \ {0} /\ PlayerOf(Number(j, q)) = j
    BY DEF Number, PlayerOf
  <2>2. (Number(j, q) - 1) % 4 = q - 1
    BY DEF Number
  <2>3. 1 + ((Number(j, q) - 1) % 4) = q
    BY <2>2
  <2>4. KindOf(Number(j, q)) = Kinds[q]
    BY <2>3 DEF KindOf
  <2>5. \A l \in Nat : Number(j, q) \in 1 .. 4 * l <=> j \in 1 .. l
    BY DEF Number
  <2>6. QED
    BY <2>1, <2>4, <2>5
<1>2. ASSUME NEW n \in Nat \ {0} PROVE \E j \in Nat \ {0}, q \in 1 .. 4 : n = Number(j, q)
  <2> DEFINE j == (n + 3) \div 4
             q == n - 4 * (j - 1)
  <2>1. j \in Nat \ {0} /\ q \in 1 .. 4 /\ n = 4 * (j - 1) + q
    OBVIOUS
  <2>2. QED
    BY <2>1 DEF Number
<1>3. ASSUME NEW i \in Nat \ {0}, NEW j \in Nat \ {0}, NEW p \in 1 .. 4, NEW q \in 1 .. 4, Number(i, p) = Number(j, q)
      PROVE  i = j /\ p = q
  <2>1. i = j
    BY <1>1, <1>3
  <2>2. QED
    BY <1>3, <2>1 DEF Number
<1>4. QED
  BY <1>1, <1>2, <1>3

LEMMA SnapshotIs ==
  ASSUME NEW s \in Snapshot
  PROVE  /\ Len(s) \in Nat /\ DOMAIN s = 1 .. Len(s)
         /\ \A i \in DOMAIN s : s[i] \in SnapshotPlayer
         /\ \A i, j \in DOMAIN s : s[i].id = s[j].id => i = j
<1>1. s \in Seq(SnapshotPlayer) /\ \A i, j \in DOMAIN s : s[i].id = s[j].id => i = j
  BY DEF Snapshot
<1>2. QED
  BY <1>1, LenProperties, ElementOfSeq

LEMMA FourKinds ==
  /\ Kinds[1] = "injury" /\ Kinds[2] = "roster_move" /\ Kinds[3] = "ownership" /\ Kinds[4] = "projection"
  /\ \A q \in 1 .. 4 : q = 1 \/ q = 2 \/ q = 3 \/ q = 4
  BY DEF Kinds

LEMMA SizeIs ==
  ASSUME NEW a \in Int, NEW b \in Int
  PROVE  /\ Size(a - b) = Size(b - a) /\ Size(a - b) \in Int
         /\ \A c \in Int : a - b <= c /\ b - a <= c => Size(a - b) <= c
<1>1. a - b \in Int /\ b - a \in Int /\ -(a - b) = b - a /\ -(b - a) = a - b
  OBVIOUS
<1>2. CASE a - b < 0
  <2>1. Size(a - b) = b - a /\ Size(b - a) = b - a
    BY <1>1, <1>2 DEF Size
  <2>2. QED
    BY <1>1, <2>1
<1>3. CASE ~(a - b < 0)
  <2>1. Size(a - b) = a - b /\ (b - a < 0 => Size(b - a) = a - b) /\ (~(b - a < 0) => Size(b - a) = b - a)
    BY <1>1, <1>3 DEF Size
  <2>2. QED
    BY <1>1, <1>3, <2>1
<1>4. QED
  BY <1>2, <1>3

\* Undoing a change is as much news as the change.
LEMMA NewsBothWays ==
  ASSUME NEW x \in SnapshotPlayer, NEW y \in SnapshotPlayer, NEW q \in 1 .. 4
  PROVE  IsNews(Kinds[q], x, y) <=> IsNews(Kinds[q], y, x)
<1>1. x.owned \in 0 .. 100 /\ y.owned \in 0 .. 100 /\ x.points \in -50 .. 350 \union {None} /\ y.points \in -50 .. 350 \union {None}
  BY DEF SnapshotPlayer
<1>2. IsNews("injury", x, y) <=> IsNews("injury", y, x)
  BY DEF IsNews
<1>3. IsNews("roster_move", x, y) <=> IsNews("roster_move", y, x)
  BY DEF IsNews
<1>4. IsNews("ownership", x, y) <=> IsNews("ownership", y, x)
  <2>0. x.owned \in Int /\ y.owned \in Int
    BY <1>1
  <2>1. Size(x.owned - y.owned) = Size(y.owned - x.owned)
    BY <2>0, SizeIs
  <2>2. QED
    BY <2>1 DEF IsNews
<1>5. IsNews("projection", x, y) <=> IsNews("projection", y, x)
  <2>0. x.points # None /\ y.points # None => x.points \in Int /\ y.points \in Int
    BY <1>1
  <2>1. x.points # None /\ y.points # None => Size(x.points - y.points) = Size(y.points - x.points)
    BY <2>0, SizeIs
  <2>2. QED
    BY <2>1 DEF IsNews
<1>6. QED
  BY <1>2, <1>3, <1>4, <1>5, FourKinds

LEMMA NewsAre ==
  ASSUME NEW earlier \in Snapshot, NEW later \in Snapshot
  PROVE  /\ News(earlier, later) \in SUBSET (1 .. 4 * Len(later))
         /\ \A i, j, q : Pair(earlier, later, i, j) /\ q \in 1 .. 4 =>
              /\ Number(j, q) \in News(earlier, later) <=> IsNews(Kinds[q], earlier[i], later[j])
              /\ ChangeAt(earlier, later, Number(j, q)) = ChangeOf(Kinds[q], earlier[i], later[j])
         /\ \A n \in News(earlier, later) : \E i, j, q :
              /\ Pair(earlier, later, i, j) /\ q \in 1 .. 4 /\ n = Number(j, q)
              /\ IsNews(Kinds[q], earlier[i], later[j])
<1>1. /\ Len(earlier) \in Nat /\ DOMAIN earlier = 1 .. Len(earlier)
      /\ \A i, j \in DOMAIN earlier : earlier[i].id = earlier[j].id => i = j
      /\ Len(later) \in Nat /\ DOMAIN later = 1 .. Len(later)
  BY SnapshotIs
<1>2. News(earlier, later) \in SUBSET (1 .. 4 * Len(later))
  BY DEF News
<1>3. ASSUME NEW i, NEW j, NEW q, Pair(earlier, later, i, j), q \in 1 .. 4
      PROVE  /\ Number(j, q) \in News(earlier, later) <=> IsNews(Kinds[q], earlier[i], later[j])
             /\ ChangeAt(earlier, later, Number(j, q)) = ChangeOf(Kinds[q], earlier[i], later[j])
  <2>1. i \in DOMAIN earlier /\ j \in 1 .. Len(later) /\ earlier[i].id = later[j].id /\ j \in Nat \ {0}
    BY <1>1, <1>3 DEF Pair
  <2>2. /\ PlayerOf(Number(j, q)) = j /\ KindOf(Number(j, q)) = Kinds[q]
        /\ Number(j, q) \in 1 .. 4 * Len(later)
    BY <1>1, <1>3, <2>1, Numbering
  <2>3. \A k \in DOMAIN earlier : earlier[k].id = later[j].id <=> k = i
    BY <1>1, <2>1
  <2>4. Number(j, q) \in News(earlier, later) <=> IsNews(Kinds[q], earlier[i], later[j])
    BY <2>1, <2>2, <2>3 DEF News
  <2>5. (CHOOSE k \in DOMAIN earlier : earlier[k].id = later[PlayerOf(Number(j, q))].id) = i
    BY <2>1, <2>2, <2>3
  <2>6. QED
    BY <2>2, <2>4, <2>5 DEF ChangeAt
<1>4. ASSUME NEW n \in News(earlier, later)
      PROVE  \E i, j, q : /\ Pair(earlier, later, i, j) /\ q \in 1 .. 4 /\ n = Number(j, q)
                          /\ IsNews(Kinds[q], earlier[i], later[j])
  <2>1. PICK i \in DOMAIN earlier : earlier[i].id = later[PlayerOf(n)].id
    BY DEF News
  <2>2. n \in 1 .. 4 * Len(later) /\ n \in Nat \ {0}
    BY <1>1, <1>2
  <2>3. PICK j \in Nat \ {0}, q \in 1 .. 4 : n = Number(j, q)
    BY <2>2, Numbering
  <2>4. PlayerOf(n) = j /\ j \in 1 .. Len(later)
    BY <1>1, <2>2, <2>3, Numbering
  <2>5. Pair(earlier, later, i, j)
    BY <1>1, <2>1, <2>4 DEF Pair
  <2>6. QED
    BY <1>3, <2>3, <2>5
<1>5. QED
  BY <1>2, <1>3, <1>4

\* A change of hands is more significant than any swing.
LEMMA Significances ==
  ASSUME NEW x \in SnapshotPlayer, NEW y \in SnapshotPlayer, NEW q \in 1 .. 4, IsNews(Kinds[q], x, y)
  PROVE  LET s == Significance(ChangeOf(Kinds[q], x, y))
         IN  /\ s \in Int /\ (q <= 2 => s >= 500) /\ (q > 2 => s < 500)
             /\ (q = 1 => s >= 1000) /\ (q = 2 => s < 1000)
<1> DEFINE c == ChangeOf(Kinds[q], x, y)
<1>1. c.kind = Kinds[q] /\ c.magnitude = Magnitude(Kinds[q], x, y)
  BY DEF ChangeOf
<1>2. Significance(c) = KindWeight[Kinds[q]] + Size(Magnitude(Kinds[q], x, y))
  BY <1>1 DEF Significance
<1> HIDE DEF c
<1>3. /\ KindWeight["injury"] = 1000 /\ KindWeight["roster_move"] = 500
      /\ KindWeight["ownership"] = 100 /\ KindWeight["projection"] = 50
  BY DEF KindWeight
<1>4. Size(0) = 0 /\ Size(1) = 1
  BY DEF Size
<1>5. CASE q = 1
  <2>1. Magnitude("injury", x, y) \in {0, 1}
    BY DEF Magnitude
  <2>2. Size(Magnitude("injury", x, y)) \in {0, 1}
    BY <1>4, <2>1
  <2>3. QED
    BY <1>2, <1>3, <1>5, <2>2, FourKinds DEF c
<1>6. CASE q = 2
  <2>1. Magnitude("roster_move", x, y) = 0
    BY DEF Magnitude
  <2>2. QED
    BY <1>2, <1>3, <1>4, <1>6, <2>1, FourKinds DEF c
<1>7. CASE q = 3
  <2>1. Magnitude("ownership", x, y) = y.owned - x.owned
    BY DEF Magnitude, Field
  <2>2. y.owned \in 0 .. 100 /\ x.owned \in 0 .. 100
    BY DEF SnapshotPlayer
  <2>0. \A k \in 0 .. 100 : k \in Int /\ 0 <= k /\ k <= 100
    OBVIOUS
  <2>9. /\ y.owned \in Int /\ 0 <= y.owned /\ y.owned <= 100
        /\ x.owned \in Int /\ 0 <= x.owned /\ x.owned <= 100
    BY <2>0, <2>2
  <2>3. y.owned \in Int /\ x.owned \in Int /\ y.owned - x.owned <= 100 /\ x.owned - y.owned <= 100
    BY <2>9
  <2>4. Size(y.owned - x.owned) \in Int /\ Size(y.owned - x.owned) <= 100
    BY <2>3, SizeIs
  <2>5. QED
    BY <1>2, <1>3, <1>7, <2>1, <2>4, FourKinds DEF c
<1>8. CASE q = 4
  <2>1. Magnitude("projection", x, y) = y.points - x.points
    BY DEF Magnitude, Field
  <2>2. x.points # None /\ y.points # None
    BY <1>8, FourKinds DEF IsNews
  <2>3. y.points \in -50 .. 350 /\ x.points \in -50 .. 350
    BY <2>2 DEF SnapshotPlayer
  <2>0. \A k \in -50 .. 350 : k \in Int /\ -50 <= k /\ k <= 350
    OBVIOUS
  <2>9. /\ y.points \in Int /\ -50 <= y.points /\ y.points <= 350
        /\ x.points \in Int /\ -50 <= x.points /\ x.points <= 350
    BY <2>0, <2>3
  <2>4. y.points \in Int /\ x.points \in Int /\ y.points - x.points <= 400 /\ x.points - y.points <= 400
    BY <2>9
  <2>5. Size(y.points - x.points) \in Int /\ Size(y.points - x.points) <= 400
    BY <2>4, SizeIs
  <2>6. QED
    BY <1>2, <1>3, <1>8, <2>1, <2>5, FourKinds DEF c
<1>9. QED
  BY <1>5, <1>6, <1>7, <1>8

LEMMA SignificanceOf ==
  ASSUME NEW earlier \in Snapshot, NEW later \in Snapshot, NEW n \in News(earlier, later)
  PROVE  Significance(ChangeAt(earlier, later, n)) \in Int
<1>1. PICK i, j, q : /\ Pair(earlier, later, i, j) /\ q \in 1 .. 4 /\ n = Number(j, q)
                     /\ IsNews(Kinds[q], earlier[i], later[j])
  BY NewsAre
<1>2. ChangeAt(earlier, later, n) = ChangeOf(Kinds[q], earlier[i], later[j])
  BY <1>1, NewsAre
<1>3. earlier[i] \in SnapshotPlayer /\ later[j] \in SnapshotPlayer
  BY <1>1, SnapshotIs DEF Pair
<1>4. QED
  BY <1>1, <1>2, <1>3, Significances

LEMMA Sliced ==
  ASSUME NEW n \in Nat, NEW s, Len(s) = n, NEW m \in Nat
  PROVE  LET l == IF m <= n THEN m ELSE n
         IN  Len(Take(s, m)) = l /\ DOMAIN Take(s, m) = 1 .. l /\ \A i \in 1 .. l : Take(s, m)[i] = s[i]
<1> DEFINE t == Take(s, m)
           k == IF m <= n THEN (IF m < 0 THEN 0 ELSE m) ELSE n
           l == IF m <= n THEN m ELSE n
<1>1. Len(t) = k /\ DOMAIN t = 1 .. k /\ \A i \in 1 .. k : t[i] = s[i]
  <2>1. m \in Int
    OBVIOUS
  <2>2. QED
    BY <2>1, TakeIs
<1>2. k = l
  OBVIOUS
<1> HIDE DEF t, k, l
<1>3. Len(t) = l /\ DOMAIN t = 1 .. l /\ \A i \in 1 .. l : t[i] = s[i]
  BY <1>1, <1>2
<1>4. QED
  BY <1>3 DEF t, l

\* What is kept are changes, and what is not kept is no more significant.
LEMMA DigestIs ==
  ASSUME ReportAssumption, NEW earlier \in Snapshot, NEW later \in Snapshot
  PROVE  LET d == DiffPlayers(earlier, later)
             N == News(earlier, later)
             c == Cardinality(N)
         IN  /\ c \in Nat /\ MaxChanges \in Nat
             /\ Len(d) = (IF MaxChanges <= c THEN MaxChanges ELSE c) /\ DOMAIN d = 1 .. Len(d)
             /\ \A k \in 1 .. Len(d) : \E n \in N : d[k] = ChangeAt(earlier, later, n)
             /\ \A n \in N :
                  \/ \E k \in 1 .. Len(d) : d[k] = ChangeAt(earlier, later, n)
                  \/ /\ Len(d) = MaxChanges
                     /\ \A k \in 1 .. Len(d) : Significance(d[k]) >= Significance(ChangeAt(earlier, later, n))
<1> DEFINE N == News(earlier, later)
           c == Cardinality(N)
           At(n) == ChangeAt(earlier, later, n)
           news == Listed(N)
           changes == [k \in DOMAIN news |-> At(news[k])]
           key == [k \in DOMAIN changes |-> Significance(changes[k])]
           t == Descending(changes, Significance)
           d == DiffPlayers(earlier, later)
<1>0. MaxChanges \in Nat /\ Len(later) \in Nat /\ 4 * Len(later) \in Nat /\ N \in SUBSET (1 .. 4 * Len(later))
  BY SnapshotIs, NewsAre DEF ReportAssumption
<1>1. /\ c \in Nat /\ DOMAIN news = 1 .. c
      /\ \A k \in 1 .. c : news[k] \in N
      /\ \A n \in N : \E k \in 1 .. c : news[k] = n
  <2> HIDE DEF N
  <2>1. QED
    BY <1>0, ListedIs
<1>2. \A n \in N : Significance(At(n)) \in Int
  BY SignificanceOf
<1>3. t = [m \in DOMAIN changes |-> changes[Ranked(key)[m]]]
  BY DEF Descending
<1>4. d = Take(t, MaxChanges)
  BY DEF DiffPlayers
<1> HIDE DEF N, At, news, c
<1>5. DOMAIN changes = 1 .. c /\ \A k \in 1 .. c : changes[k] = At(news[k])
  BY <1>1
<1> HIDE DEF changes
<1>6. DOMAIN key = 1 .. c /\ \A k \in 1 .. c : key[k] = Significance(changes[k]) /\ key[k] \in Int
  BY <1>1, <1>2, <1>5
<1>7. t = [m \in 1 .. c |-> changes[Ranked(key)[m]]]
  BY <1>3, <1>5
<1> HIDE DEF key, t, d
<1>8. Arranged(t, changes, key, c)
  BY <1>5, <1>6, <1>7 DEF Arranged
<1>9. /\ Len(t) = c
      /\ \A i \in 1 .. c : Ranked(key)[i] \in 1 .. c /\ t[i] = changes[Ranked(key)[i]]
      /\ \A i \in 1 .. c : \E k \in 1 .. c : Ranked(key)[k] = i
      /\ \A i, j \in 1 .. c : i <= j => key[Ranked(key)[i]] >= key[Ranked(key)[j]]
  <2>1. c \in Nat
    BY <1>1
  <2>2. QED
    BY ONLY <1>8, <2>1, OrderedIs
<1> DEFINE l == IF MaxChanges <= c THEN MaxChanges ELSE c
<1>10. Len(d) = l /\ DOMAIN d = 1 .. l /\ \A i \in 1 .. l : d[i] = t[i]
  <2>1. MaxChanges \in Nat /\ c \in Nat /\ Len(t) = c
    BY <1>0, <1>1, <1>9
  <2>2. QED
    BY ONLY <1>4, <2>1, Sliced
<1>11. l \in Nat /\ l <= c /\ \A i \in 1 .. l : i \in 1 .. c
  BY <1>0, <1>1
<1>12. ASSUME NEW k \in 1 .. l PROVE \E n \in N : d[k] = At(n)
  <2>1. Ranked(key)[k] \in 1 .. c /\ d[k] = changes[Ranked(key)[k]]
    BY <1>9, <1>10, <1>11
  <2>2. QED
    BY <1>1, <1>5, <2>1
<1>13. ASSUME NEW n \in N
       PROVE  \/ \E k \in 1 .. l : d[k] = At(n)
              \/ l = MaxChanges /\ \A k \in 1 .. l : Significance(d[k]) >= Significance(At(n))
  <2>1. PICK m \in 1 .. c : news[m] = n
    BY <1>1
  <2>2. PICK p \in 1 .. c : Ranked(key)[p] = m
    BY <1>9
  <2>3. t[p] = At(n) /\ key[Ranked(key)[p]] = Significance(At(n))
    BY <1>5, <1>6, <1>9, <2>1, <2>2
  <2>4. CASE p \in 1 .. l
    BY <1>10, <2>3, <2>4
  <2>5. CASE p \notin 1 .. l
    <3>1. l = MaxChanges /\ \A k \in 1 .. l : k \in 1 .. c /\ k <= p
      BY <1>0, <1>1, <1>11, <2>5
    <3>2. ASSUME NEW k \in 1 .. l PROVE Significance(d[k]) >= Significance(At(n))
      <4>1. key[Ranked(key)[k]] >= key[Ranked(key)[p]] /\ Ranked(key)[k] \in 1 .. c
        BY <1>9, <3>1
      <4>2. d[k] = changes[Ranked(key)[k]]
        BY <1>9, <1>10, <3>1
      <4>3. key[Ranked(key)[k]] = Significance(d[k])
        BY <1>6, <4>1, <4>2
      <4>4. QED
        BY <2>3, <4>1, <4>3
    <3>3. QED
      BY <3>1, <3>2
  <2>6. QED
    BY <2>4, <2>5
<1> HIDE DEF l
<1>14. /\ c \in Nat /\ MaxChanges \in Nat /\ Len(d) = l /\ DOMAIN d = 1 .. Len(d)
       /\ \A k \in 1 .. Len(d) : \E n \in N : d[k] = At(n)
       /\ \A n \in N :
            \/ \E k \in 1 .. Len(d) : d[k] = At(n)
            \/ /\ Len(d) = MaxChanges
               /\ \A k \in 1 .. Len(d) : Significance(d[k]) >= Significance(At(n))
  BY <1>0, <1>1, <1>10, <1>12, <1>13
<1>15. QED
  BY <1>14 DEF d, N, c, At, l

\* The comparison of the same figure of the same player, the other way round.
Opposite(earlier, later, n) ==
  CHOOSE m : \E i, j, q : /\ Pair(earlier, later, i, j) /\ q \in 1 .. 4
                          /\ n = Number(j, q) /\ m = Number(i, q)

LEMMA BothWays ==
  ASSUME NEW earlier \in Snapshot, NEW later \in Snapshot, NEW i, NEW j, NEW q \in 1 .. 4,
         Pair(earlier, later, i, j)
  PROVE  /\ Pair(later, earlier, j, i) /\ i \in Nat \ {0} /\ j \in Nat \ {0}
         /\ earlier[i] \in SnapshotPlayer /\ later[j] \in SnapshotPlayer
         /\ Number(j, q) \in News(earlier, later) <=> Number(i, q) \in News(later, earlier)
         /\ Opposite(earlier, later, Number(j, q)) = Number(i, q)
<1>1. /\ Len(earlier) \in Nat /\ DOMAIN earlier = 1 .. Len(earlier)
      /\ Len(later) \in Nat /\ DOMAIN later = 1 .. Len(later)
      /\ \A k \in DOMAIN earlier : earlier[k] \in SnapshotPlayer
      /\ \A k \in DOMAIN later : later[k] \in SnapshotPlayer
      /\ \A k, l \in DOMAIN earlier : earlier[k].id = earlier[l].id => k = l
  BY SnapshotIs
<1>2. /\ Pair(later, earlier, j, i) /\ i \in Nat \ {0} /\ j \in Nat \ {0}
      /\ earlier[i] \in SnapshotPlayer /\ later[j] \in SnapshotPlayer
  BY <1>1 DEF Pair
<1>3. Number(j, q) \in News(earlier, later) <=> IsNews(Kinds[q], earlier[i], later[j])
  BY NewsAre
<1>4. Number(i, q) \in News(later, earlier) <=> IsNews(Kinds[q], later[j], earlier[i])
  BY <1>2, NewsAre
<1>5. IsNews(Kinds[q], earlier[i], later[j]) <=> IsNews(Kinds[q], later[j], earlier[i])
  BY <1>2, NewsBothWays
<1>6. ASSUME NEW k, NEW l, NEW p \in 1 .. 4, Pair(earlier, later, k, l), Number(j, q) = Number(l, p)
      PROVE  Number(k, p) = Number(i, q)
  <2>1. l \in Nat \ {0} /\ k \in DOMAIN earlier /\ earlier[k].id = later[l].id
    BY <1>1, <1>6 DEF Pair
  <2>2. l = j /\ p = q
    BY <1>2, <1>6, <2>1, Numbering
  <2>3. k = i
    BY <1>1, <2>1, <2>2 DEF Pair
  <2>4. QED
    BY <2>2, <2>3
<1>7. \A m : (\E k, l, p : /\ Pair(earlier, later, k, l) /\ p \in 1 .. 4
                           /\ Number(j, q) = Number(l, p) /\ m = Number(k, p)) <=> m = Number(i, q)
  BY <1>6
<1>8. Opposite(earlier, later, Number(j, q)) = Number(i, q)
  BY <1>7 DEF Opposite
<1>9. QED
  BY <1>2, <1>3, <1>4, <1>5, <1>8

\* There is as much news both ways.
LEMMA AsMuchNews ==
  ASSUME NEW earlier \in Snapshot, NEW later \in Snapshot
  PROVE  Cardinality(News(earlier, later)) = Cardinality(News(later, earlier))
<1> DEFINE N == News(earlier, later)
           M == News(later, earlier)
           e == [n \in N |-> Opposite(earlier, later, n)]
<1>1. IsFiniteSet(N)
  <2>1. Len(later) \in Nat /\ N \in SUBSET (1 .. 4 * Len(later))
    BY SnapshotIs, NewsAre
  <2>2. IsFiniteSet(1 .. 4 * Len(later))
    BY <2>1, Spaces
  <2>3. QED
    BY <2>1, <2>2, FS_Subset
<1>2. ASSUME NEW n \in N
      PROVE  \E i, j, q : /\ Pair(earlier, later, i, j) /\ q \in 1 .. 4 /\ n = Number(j, q)
                          /\ e[n] = Number(i, q) /\ e[n] \in M /\ i \in Nat \ {0}
  <2>1. PICK i, j, q : Pair(earlier, later, i, j) /\ q \in 1 .. 4 /\ n = Number(j, q)
    BY NewsAre
  <2>2. e[n] = Number(i, q) /\ Number(i, q) \in M /\ i \in Nat \ {0}
    BY <2>1, BothWays
  <2>3. QED
    BY <2>1, <2>2
<1>3. ASSUME NEW n \in N, NEW m \in N, e[n] = e[m] PROVE n = m
  <2>1. PICK i, j, q : /\ Pair(earlier, later, i, j) /\ q \in 1 .. 4 /\ n = Number(j, q)
                       /\ e[n] = Number(i, q) /\ i \in Nat \ {0}
    BY <1>2
  <2>2. PICK k, l, p : /\ Pair(earlier, later, k, l) /\ p \in 1 .. 4 /\ m = Number(l, p)
                       /\ e[m] = Number(k, p) /\ k \in Nat \ {0}
    BY <1>2
  <2> HIDE DEF e
  <2>3. i = k /\ q = p
    BY <1>3, <2>1, <2>2, Numbering
  <2>4. j = l
    BY <2>1, <2>2, <2>3, SnapshotIs DEF Pair
  <2>5. QED
    BY <2>1, <2>2, <2>3, <2>4
<1>4. ASSUME NEW m \in M PROVE \E n \in N : e[n] = m
  <2>1. PICK j, i, q : Pair(later, earlier, j, i) /\ q \in 1 .. 4 /\ m = Number(i, q)
    BY NewsAre
  <2>2. Pair(earlier, later, i, j)
    BY <2>1 DEF Pair
  <2>3. Number(j, q) \in N /\ Opposite(earlier, later, Number(j, q)) = m
    BY <2>1, <2>2, BothWays
  <2>4. QED
    BY <2>3
<1>5. \A n \in N : e[n] \in M
  BY <1>2
<1> HIDE DEF N, M, e
<1>6. M = {e[n] : n \in N}
  BY <1>4, <1>5
<1>7. Cardinality({e[n] : n \in N}) = Cardinality(N)
  BY <1>1, <1>3, SameSize
<1>8. Cardinality(N) = Cardinality(M)
  BY <1>6, <1>7
<1>9. QED
  BY <1>8 DEF N, M

LEMMA ChangeIs ==
  ASSUME NEW old, NEW new, NEW q \in 1 .. 4
  PROVE  LET c == ChangeOf(Kinds[q], old, new)
         IN  c.id = new.id /\ c.kind = Kinds[q] /\ c.from = old[Field[Kinds[q]]] /\ c.to = new[Field[Kinds[q]]]
  BY DEF ChangeOf

LEMMA UndoneBothWays ==
  ASSUME ReportAssumption, NEW earlier \in Snapshot, NEW later \in Snapshot
  PROVE  UndoneIsReported(DiffPlayers(earlier, later), DiffPlayers(later, earlier))
<1> DEFINE there == DiffPlayers(earlier, later)
           back == DiffPlayers(later, earlier)
           c == Cardinality(News(earlier, later))
<1>1. /\ c \in Nat /\ MaxChanges \in Nat
      /\ Len(there) = (IF MaxChanges <= c THEN MaxChanges ELSE c) /\ DOMAIN there = 1 .. Len(there)
      /\ \A k \in 1 .. Len(there) : \E n \in News(earlier, later) : there[k] = ChangeAt(earlier, later, n)
  BY DigestIs
<1>2. /\ Len(back) = (IF MaxChanges <= c THEN MaxChanges ELSE c) /\ DOMAIN back = 1 .. Len(back)
      /\ \A n \in News(later, earlier) :
           \/ \E k \in 1 .. Len(back) : back[k] = ChangeAt(later, earlier, n)
           \/ Len(back) = MaxChanges
  <2> DEFINE b == Cardinality(News(later, earlier))
  <2>1. /\ Len(back) = (IF MaxChanges <= b THEN MaxChanges ELSE b) /\ DOMAIN back = 1 .. Len(back)
        /\ \A n \in News(later, earlier) :
             \/ \E k \in 1 .. Len(back) : back[k] = ChangeAt(later, earlier, n)
             \/ Len(back) = MaxChanges
    BY DigestIs
  <2>2. b = c
    BY AsMuchNews
  <2> HIDE DEF b, c, back
  <2>3. QED
    BY <2>1, <2>2
<1> HIDE DEF there, back, c
<1>3. Len(there) = Len(back)
  BY <1>1, <1>2
<1>4. ASSUME Len(there) < MaxChanges, NEW k \in DOMAIN there
      PROVE  \E m \in DOMAIN back :
               /\ back[m].id = there[k].id /\ back[m].kind = there[k].kind
               /\ back[m].from = there[k].to /\ back[m].to = there[k].from
  <2>1. PICK n \in News(earlier, later) : there[k] = ChangeAt(earlier, later, n)
    BY <1>1
  <2>2. PICK i, j, q : Pair(earlier, later, i, j) /\ q \in 1 .. 4 /\ n = Number(j, q)
    BY NewsAre
  <2>3. Number(i, q) \in News(later, earlier) /\ Pair(later, earlier, j, i)
    BY <2>1, <2>2, BothWays
  <2>4. there[k] = ChangeOf(Kinds[q], earlier[i], later[j])
    BY <2>1, <2>2, NewsAre
  <2>5. ChangeAt(later, earlier, Number(i, q)) = ChangeOf(Kinds[q], later[j], earlier[i])
    BY <2>2, <2>3, NewsAre
  <2>6. PICK m \in 1 .. Len(back) : back[m] = ChangeAt(later, earlier, Number(i, q))
    BY <1>1, <1>2, <1>3, <1>4, <2>3
  <2>7. back[m] = ChangeOf(Kinds[q], later[j], earlier[i]) /\ m \in DOMAIN back
    BY <1>2, <2>5, <2>6
  <2>8. earlier[i].id = later[j].id
    BY <2>2 DEF Pair
  <2>9. QED
    BY <2>2, <2>4, <2>7, <2>8, ChangeIs
<1>5. UndoneIsReported(there, back)
  BY <1>3, <1>4 DEF UndoneIsReported
<1>6. QED
  BY <1>5 DEF there, back

LEMMA UrgentComesFirst ==
  ASSUME ReportAssumption, NEW earlier \in Snapshot, NEW later \in Snapshot
  PROVE  UrgentIsKept(earlier, later, DiffPlayers(earlier, later))
<1> DEFINE d == DiffPlayers(earlier, later)
           N == News(earlier, later)
           At(n) == ChangeAt(earlier, later, n)
<1>1. /\ Len(d) \in Nat /\ DOMAIN d = 1 .. Len(d)
      /\ \A k \in 1 .. Len(d) : \E n \in N : d[k] = At(n)
      /\ \A n \in N : \/ \E k \in 1 .. Len(d) : d[k] = At(n)
                      \/ /\ Len(d) = MaxChanges
                         /\ \A k \in 1 .. Len(d) : Significance(d[k]) >= Significance(At(n))
  <2> DEFINE c == Cardinality(N)
  <2>1. /\ c \in Nat /\ MaxChanges \in Nat
        /\ Len(d) = (IF MaxChanges <= c THEN MaxChanges ELSE c) /\ DOMAIN d = 1 .. Len(d)
        /\ \A k \in 1 .. Len(d) : \E n \in N : d[k] = At(n)
        /\ \A n \in N : \/ \E k \in 1 .. Len(d) : d[k] = At(n)
                        \/ /\ Len(d) = MaxChanges
                           /\ \A k \in 1 .. Len(d) : Significance(d[k]) >= Significance(At(n))
    BY DigestIs
  <2> HIDE DEF c, d, N, At
  <2>2. QED
    BY <2>1
<1>2. ASSUME NEW k \in 1 .. Len(d)
      PROVE  \E i, j, q : /\ Pair(earlier, later, i, j) /\ q \in 1 .. 4
                          /\ IsNews(Kinds[q], earlier[i], later[j])
                          /\ d[k] = ChangeOf(Kinds[q], earlier[i], later[j])
  <2>1. PICK n \in N : d[k] = At(n)
    BY <1>1
  <2>2. PICK i, j, q : /\ Pair(earlier, later, i, j) /\ q \in 1 .. 4 /\ n = Number(j, q)
                       /\ IsNews(Kinds[q], earlier[i], later[j])
    BY NewsAre
  <2>3. At(n) = ChangeOf(Kinds[q], earlier[i], later[j])
    BY <2>2, NewsAre
  <2> HIDE DEF d, N, At
  <2>4. QED
    BY <2>1, <2>2, <2>3
<1> HIDE DEF d
<1>3. SUFFICES ASSUME NEW i \in DOMAIN earlier, NEW j \in DOMAIN later, earlier[i].id = later[j].id,
                      NEW r \in 1 .. 2
      PROVE  /\ Kinds[r] \in KindsOf(d, later[j].id) => IsNews(Kinds[r], earlier[i], later[j])
             /\ IsNews(Kinds[r], earlier[i], later[j]) /\ Kinds[r] \notin KindsOf(d, later[j].id) =>
                  /\ Len(d) = MaxChanges
                  /\ \A k \in DOMAIN d : Order[d[k].kind] <= Order[Kinds[r]]
  <2>1. \A kind \in {"injury", "roster_move"} : \E r \in 1 .. 2 : kind = Kinds[r]
    BY FourKinds
  <2>2. QED
    BY <2>1 DEF UrgentIsKept, d
<1>4. Pair(earlier, later, i, j)
  BY <1>3 DEF Pair
<1>5. ASSUME Kinds[r] \in KindsOf(d, later[j].id) PROVE IsNews(Kinds[r], earlier[i], later[j])
  <2>1. PICK k \in DOMAIN d : d[k].id = later[j].id /\ d[k].kind = Kinds[r]
    BY <1>5 DEF KindsOf
  <2>2. PICK g, l, q : /\ Pair(earlier, later, g, l) /\ q \in 1 .. 4
                       /\ IsNews(Kinds[q], earlier[g], later[l])
                       /\ d[k] = ChangeOf(Kinds[q], earlier[g], later[l])
    BY <1>1, <1>2
  <2>3. later[l].id = later[j].id /\ Kinds[q] = Kinds[r]
    BY <2>1, <2>2, ChangeIs
  <2>4. l = j /\ g = i
    <3>1. l = j
      BY <2>2, <2>3, SnapshotIs DEF Pair
    <3>2. QED
      BY <1>3, <2>2, <3>1, SnapshotIs DEF Pair
  <2>5. QED
    BY <2>2, <2>3, <2>4
<1>6. ASSUME IsNews(Kinds[r], earlier[i], later[j]), Kinds[r] \notin KindsOf(d, later[j].id)
      PROVE  Len(d) = MaxChanges /\ \A k \in DOMAIN d : Order[d[k].kind] <= Order[Kinds[r]]
  <2>1. r \in 1 .. 4
    OBVIOUS
  <2>2. Number(j, r) \in N /\ At(Number(j, r)) = ChangeOf(Kinds[r], earlier[i], later[j])
    BY <1>4, <1>6, <2>1, NewsAre
  <2>3. ASSUME NEW k \in 1 .. Len(d) PROVE d[k] # At(Number(j, r))
    <3>1. SUFFICES ASSUME d[k] = ChangeOf(Kinds[r], earlier[i], later[j]) PROVE FALSE
      BY <2>2
    <3>2. d[k].id = later[j].id /\ d[k].kind = Kinds[r]
      BY <2>1, <3>1, ChangeIs
    <3>3. QED
      BY <1>1, <1>6, <3>2 DEF KindsOf
  <2>4. /\ Len(d) = MaxChanges
        /\ \A k \in 1 .. Len(d) : Significance(d[k]) >= Significance(At(Number(j, r)))
    BY <1>1, <2>2, <2>3
  <2>5. earlier[i] \in SnapshotPlayer /\ later[j] \in SnapshotPlayer
    BY <1>4, BothWays, <2>1
  <2>6. /\ Significance(At(Number(j, r))) >= 500 /\ Significance(At(Number(j, r))) \in Int
        /\ r = 1 => Significance(At(Number(j, r))) >= 1000
    BY <1>6, <2>1, <2>2, <2>5, Significances
  <2>7. ASSUME NEW k \in DOMAIN d PROVE Order[d[k].kind] <= Order[Kinds[r]]
    <3>1. PICK g, l, q : /\ Pair(earlier, later, g, l) /\ q \in 1 .. 4
                         /\ IsNews(Kinds[q], earlier[g], later[l])
                         /\ d[k] = ChangeOf(Kinds[q], earlier[g], later[l])
      BY <1>1, <1>2
    <3>2. earlier[g] \in SnapshotPlayer /\ later[l] \in SnapshotPlayer
      BY <3>1, BothWays
    <3>3. /\ Significance(d[k]) \in Int /\ (q > 2 => Significance(d[k]) < 500)
          /\ q = 2 => Significance(d[k]) < 1000
      BY <3>1, <3>2, Significances
    <3>4. Significance(d[k]) >= Significance(At(Number(j, r)))
      BY <1>1, <2>4
    <3>5. ~(q > 2) /\ ~(r = 1 /\ q = 2)
      BY <2>6, <3>3, <3>4
    <3>6. d[k].kind = Kinds[q] /\ (q = 1 \/ q = 2) /\ (r = 2 \/ q = 1)
      BY <3>1, <3>5, ChangeIs, FourKinds
    <3>7. CASE q = 1
      BY <3>6, <3>7, FourKinds DEF Order
    <3>8. CASE q = 2 /\ r = 2
      BY <3>6, <3>8, FourKinds DEF Order
    <3>9. QED
      BY <3>6, <3>7, <3>8
  <2>8. QED
    BY <2>4, <2>7
<1>7. QED
  BY <1>5, <1>6
-----------------------------------------------------------------------------
\* The first of an arranged sequence.
LEMMA TopIs ==
  ASSUME NEW n \in Nat, NEW s, NEW key, NEW t, Arranged(t, s, key, n), NEW m \in Nat
  PROVE  LET l == IF m <= n THEN m ELSE n
             d == Take(t, m)
             r == Ranked(key)
         IN  /\ Len(d) = l /\ DOMAIN d = 1 .. l
             /\ \A k \in 1 .. l : k \in 1 .. n /\ r[k] \in 1 .. n /\ d[k] = s[r[k]]
             /\ \A k, j \in 1 .. l : r[k] = r[j] => k = j
             /\ \A i \in 1 .. n : \/ \E k \in 1 .. l : r[k] = i
                                  \/ l = m /\ \A k \in 1 .. l : key[r[k]] >= key[i]
<1> DEFINE l == IF m <= n THEN m ELSE n
           d == Take(t, m)
           r == Ranked(key)
<1>1. /\ Len(t) = n
      /\ \A i \in 1 .. n : r[i] \in 1 .. n /\ t[i] = s[r[i]]
      /\ \A i, j \in 1 .. n : r[i] = r[j] => i = j
      /\ \A i \in 1 .. n : \E k \in 1 .. n : r[k] = i
      /\ \A i, j \in 1 .. n : i <= j => key[r[i]] >= key[r[j]]
  BY OrderedIs
<1>2. Len(d) = l /\ DOMAIN d = 1 .. l /\ \A i \in 1 .. l : d[i] = t[i]
  <2>1. n \in Nat /\ m \in Nat /\ Len(t) = n
    BY <1>1
  <2>2. n \in Nat
    OBVIOUS
  <2>3. m \in Nat
    OBVIOUS
  <2> HIDE DEF r, d
  <2>4. Len(Take(t, m)) = l /\ DOMAIN Take(t, m) = 1 .. l
    BY ONLY <2>1, <2>2, <2>3, Sliced
  <2>5. \A i \in 1 .. l : Take(t, m)[i] = t[i]
    BY ONLY <2>1, <2>2, <2>3, Sliced
  <2>6. QED
    BY <2>4, <2>5 DEF d
<1>3. l \in Nat /\ \A k \in 1 .. l : k \in 1 .. n
  OBVIOUS
<1>4. ASSUME NEW i \in 1 .. n
      PROVE  \/ \E k \in 1 .. l : r[k] = i
             \/ l = m /\ \A k \in 1 .. l : key[r[k]] >= key[i]
  <2>1. PICK p \in 1 .. n : r[p] = i
    BY <1>1
  <2>2. CASE p \in 1 .. l
    BY <2>1, <2>2
  <2>3. CASE p \notin 1 .. l
    <3>1. l = m /\ \A k \in 1 .. l : k \in 1 .. n /\ k <= p
      BY <2>3
    <3> HIDE DEF r, l
    <3>2. QED
      BY <1>1, <2>1, <3>1
  <2>4. QED
    BY <2>2, <2>3
<1> HIDE DEF l, d, r
<1>5. /\ Len(d) = l /\ DOMAIN d = 1 .. l
      /\ \A k \in 1 .. l : k \in 1 .. n /\ r[k] \in 1 .. n /\ d[k] = s[r[k]]
      /\ \A k, j \in 1 .. l : r[k] = r[j] => k = j
      /\ \A i \in 1 .. n : \/ \E k \in 1 .. l : r[k] = i
                           \/ l = m /\ \A k \in 1 .. l : key[r[k]] >= key[i]
  BY <1>1, <1>2, <1>3, <1>4
<1>6. QED
  BY <1>5 DEF l, d, r

LEMMA ListIs ==
  ASSUME NEW s \in TransactionList
  PROVE  /\ Len(s) \in Nat /\ DOMAIN s = 1 .. Len(s)
         /\ \A i \in DOMAIN s : s[i] \in Transaction
         /\ \A i, j \in DOMAIN s : s[i].id = s[j].id => i = j
<1>1. s \in Seq(Transaction) /\ \A i, j \in DOMAIN s : s[i].id = s[j].id => i = j
  BY DEF TransactionList
<1>2. QED
  BY <1>1, LenProperties, ElementOfSeq

LEMMA TransactionIs ==
  ASSUME NEW x \in Transaction, None \notin Nat
  PROVE  /\ x.id \in Nat /\ x.team \in Teams /\ x.items \in Seq(Item)
         /\ OrZero(x.bid) \in Nat /\ OrZero(x.period) \in Nat /\ OrZero(x.at) \in Nat
         /\ Recency(x) \in Int
<1>1. /\ x.id \in Nat /\ x.team \in Teams /\ x.items \in Seq(Item)
      /\ OrZero(x.bid) \in Nat /\ OrZero(x.period) \in Nat /\ OrZero(x.at) \in Nat
  BY DEF Transaction, OrZero
<1>2. Recency(x) \in Int
  BY <1>1 DEF Recency, MaxAt
<1>3. QED
  BY <1>1, <1>2

LEMMA RowIs ==
  ASSUME NEW x, NEW team
  PROVE  LET r == Row(x, team)
         IN  /\ r.id = x.id /\ r.team = team /\ r.bid = (IF x.type \in Bidding THEN x.bid ELSE None)
             /\ r.period = x.period /\ r.at = x.at /\ Recency(r) = Recency(x)
             /\ r.adds = Moved(x, team, "in") /\ r.drops = Moved(x, team, "out")
  BY DEF Row, Recency

\* Whom a row names as added or dropped.
LEMMA MovedAre ==
  ASSUME NEW x \in Transaction, NEW team, NEW side, None \notin Nat
  PROVE  Named(Moved(x, team, side)) = {x.items[i].player : i \in {i \in DOMAIN x.items : Side(x.items[i], team) = side}}
<1> DEFINE S == {i \in DOMAIN x.items : Side(x.items[i], team) = side}
           items == x.items
           n == Len(items)
           t == Kept(items, S)
           c == Cardinality(S)
<1>1. n \in Nat /\ DOMAIN items = 1 .. n
  BY TransactionIs, LenProperties
<1>2. S \in SUBSET (1 .. n) /\ Moved(x, team, side) = t
  BY <1>1 DEF Moved
<1> HIDE DEF S, items, n
<1>3. /\ DOMAIN t = 1 .. c
      /\ \A k \in 1 .. c : t[k] = items[Nth(S, k)] /\ Nth(S, k) \in S
      /\ \A i \in S : \E k \in 1 .. c : Nth(S, k) = i
  BY <1>1, <1>2, KeptIs
<1> HIDE DEF t, c
<1>4. Named(t) = {items[i].player : i \in S}
  BY <1>3 DEF Named
<1>5. QED
  BY <1>2, <1>4 DEF S, items

\* What goes to one side of a trade comes from the other.
LEMMA OtherSide ==
  ASSUME NEW item, NEW t, NEW other, {item.to, item.from} = {t, other}, t # other
  PROVE  Side(item, t) = "in" <=> Side(item, other) = "out"
<1>1. (item.to = t /\ item.from = other) \/ (item.to = other /\ item.from = t)
  OBVIOUS
<1>2. CASE item.to = t /\ item.from = other
  BY <1>2 DEF Side
<1>3. CASE item.to = other /\ item.from = t
  BY <1>3 DEF Side
<1>4. QED
  BY <1>1, <1>2, <1>3

LEMMA TradeIsOne ==
  ASSUME NEW x \in Transaction, NEW t, NEW other, t # other, None \notin Nat,
         \A i \in DOMAIN x.items : {x.items[i].to, x.items[i].from} = {t, other}
  PROVE  Named(Row(x, t).adds) = Named(Row(x, other).drops)
<1>1. \A i \in DOMAIN x.items : Side(x.items[i], t) = "in" <=> Side(x.items[i], other) = "out"
  BY OtherSide
<1>2. /\ Named(Moved(x, t, "in"))
           = {x.items[i].player : i \in {i \in DOMAIN x.items : Side(x.items[i], t) = "in"}}
      /\ Named(Moved(x, other, "out"))
           = {x.items[i].player : i \in {i \in DOMAIN x.items : Side(x.items[i], other) = "out"}}
  BY MovedAre
<1>3. {i \in DOMAIN x.items : Side(x.items[i], t) = "in"} = {i \in DOMAIN x.items : Side(x.items[i], other) = "out"}
  BY <1>1
<1>4. Named(Moved(x, t, "in")) = Named(Moved(x, other, "out"))
  BY <1>2, <1>3
<1>5. QED
  BY <1>4, RowIs

\* What is shown of somebody's claims are rows of his own.
LEMMA ClaimsAre ==
  ASSUME ReportAssumption, NEW txns \in TransactionList, NEW mine
  PROVE  \A entry \in ToSet(PendingClaims(txns, mine)) : \E k \in DOMAIN txns : entry = Row(txns[k], mine)
<1> DEFINE n == Len(txns)
           H == {k \in DOMAIN txns : MayBeLive(txns[k], mine)}
           live == Kept(txns, H)
           rows == [k \in DOMAIN live |-> Row(live[k], mine)]
           some == Take(rows, MaxClaims)
           bids == [k \in DOMAIN some |-> OrZero(some[k].bid)]
           byBid == [k \in DOMAIN some |-> some[Ranked(bids)[k]]]
           periods == [k \in DOMAIN byBid |-> -OrZero(byBid[k].period)]
           claims == [k \in DOMAIN byBid |-> byBid[Ranked(periods)[k]]]
           c == Cardinality(H)
           l == IF MaxClaims <= c THEN MaxClaims ELSE c
           Right(entry) == \E k \in DOMAIN txns : entry = Row(txns[k], mine)
<1>0. MaxClaims \in Nat /\ n \in Nat /\ DOMAIN txns = 1 .. n /\ H \in SUBSET (1 .. n)
  BY ListIs DEF ReportAssumption
<1>1. PendingClaims(txns, mine) = claims
  BY DEF PendingClaims, Ascending, Descending
<1>2. ASSUME NEW entry, Right(entry) PROVE OrZero(entry.bid) \in Int /\ -OrZero(entry.period) \in Int
  <2>1. PICK k \in DOMAIN txns : entry = Row(txns[k], mine)
    BY <1>2
  <2>2. OrZero(txns[k].bid) \in Nat /\ OrZero(txns[k].period) \in Nat
    BY <2>1, ListIs, TransactionIs, NoneAssumption
  <2>3. OrZero(None) = 0
    BY DEF OrZero
  <2>4. entry.period = txns[k].period /\ (entry.bid = txns[k].bid \/ entry.bid = None)
    BY <2>1, RowIs
  <2>5. QED
    BY <2>2, <2>3, <2>4
<1>3. c \in Nat /\ DOMAIN live = 1 .. c /\ \A k \in 1 .. c : live[k] = txns[Nth(H, k)] /\ Nth(H, k) \in H
  <2> HIDE DEF H, n
  <2>1. QED
    BY <1>0, KeptIs
<1>4. \A k \in 1 .. c : Right(rows[k])
  <2> HIDE DEF live, c
  <2>1. \A k \in 1 .. c : rows[k] = Row(txns[Nth(H, k)], mine) /\ Nth(H, k) \in DOMAIN txns
    BY <1>3
  <2>2. QED
    BY <2>1
<1>5. rows = [k \in 1 .. c |-> rows[k]]
  BY <1>3
<1> HIDE DEF H, live, rows, n, c, Right
<1>6. Len(rows) = c
  BY <1>3, <1>5, Length
<1> DEFINE first == Take(rows, MaxClaims)
<1>20. some = first
  OBVIOUS
<1> HIDE DEF some
<1>7. DOMAIN some = 1 .. l /\ \A k \in 1 .. l : some[k] = rows[k]
  <2>1. MaxClaims \in Nat /\ c \in Nat /\ Len(rows) = c
    BY <1>0, <1>3, <1>6
  <2>2. QED
    BY ONLY <1>20, <2>1, Sliced
<1>8. l \in Nat /\ \A k \in 1 .. l : Right(some[k])
  <2>1. l \in Nat /\ \A k \in 1 .. l : k \in 1 .. c
    BY <1>0, <1>3
  <2>2. QED
    BY <1>4, <1>7, <2>1
<1> HIDE DEF l
<1>9. DOMAIN bids = 1 .. l /\ \A k \in 1 .. l : bids[k] \in Int
  BY <1>2, <1>7, <1>8
<1>10. byBid = [k \in 1 .. l |-> some[Ranked(bids)[k]]]
  BY <1>7
<1> HIDE DEF bids, byBid
<1>11. Arranged(byBid, some, bids, l)
  BY <1>7, <1>9, <1>10 DEF Arranged
<1>12. DOMAIN byBid = 1 .. l /\ \A k \in 1 .. l : Right(byBid[k])
  <2>1. DOMAIN byBid = 1 .. l /\ \A k \in 1 .. l : Ranked(bids)[k] \in 1 .. l /\ byBid[k] = some[Ranked(bids)[k]]
    BY ONLY <1>8, <1>11, OrderedIs
  <2>2. QED
    BY <1>8, <2>1
<1>13. DOMAIN periods = 1 .. l /\ \A k \in 1 .. l : periods[k] \in Int
  BY <1>2, <1>12
<1>14. claims = [k \in 1 .. l |-> byBid[Ranked(periods)[k]]]
  BY <1>12
<1> HIDE DEF periods, claims
<1>15. Arranged(claims, byBid, periods, l)
  BY <1>12, <1>13, <1>14 DEF Arranged
<1>16. DOMAIN claims = 1 .. l /\ \A k \in 1 .. l : Right(claims[k])
  <2>1. DOMAIN claims = 1 .. l /\ \A k \in 1 .. l : Ranked(periods)[k] \in 1 .. l /\ claims[k] = byBid[Ranked(periods)[k]]
    BY ONLY <1>8, <1>15, OrderedIs
  <2>2. QED
    BY <1>12, <2>1
<1>17. \A entry \in ToSet(claims) : Right(entry)
  BY <1>16 DEF ToSet
<1>18. QED
  BY <1>1, <1>17 DEF Right

LEMMA SidesDoAgree ==
  ASSUME ReportAssumption, NEW c, c.pending = None \/ c.pending \in TransactionList
  PROVE  SidesAgree(c.pending, [t \in Teams \union {None} |-> ClaimsShown(c.connected, t, c.pending)])
<1> DEFINE shown == [t \in Teams \union {None} |-> ClaimsShown(c.connected, t, c.pending)]
           txns == c.pending
<1>1. ASSUME txns # None, NEW t \in Teams, NEW entry \in ToSet(shown[t].claims)
      PROVE  \E k \in DOMAIN txns : entry = Row(txns[k], t)
  <2>1. shown[t] = ClaimsShown(c.connected, t, txns)
    OBVIOUS
  <2>2. shown[t].claims = <<>> \/ shown[t].claims = PendingClaims(txns, t)
    BY <2>1 DEF ClaimsShown
  <2>3. ToSet(<<>>) = {}
    BY DEF ToSet
  <2>4. entry \in ToSet(PendingClaims(txns, t))
    BY <1>1, <2>2, <2>3
  <2> HIDE DEF shown
  <2>5. QED
    BY <1>1, <2>4, ClaimsAre
<1> HIDE DEF shown
<1>2. ASSUME txns # None, NEW k \in DOMAIN txns, NEW t \in Teams, NEW other \in Teams,
             \A i \in DOMAIN txns[k].items :
               {txns[k].items[i].to, txns[k].items[i].from} = {t, other} /\ t # other,
             NEW mine \in ToSet(shown[t].claims), mine.id = txns[k].id,
             NEW theirs \in ToSet(shown[other].claims), theirs.id = txns[k].id
      PROVE  Named(mine.adds) = Named(theirs.drops) /\ Named(mine.drops) = Named(theirs.adds)
  <2>1. txns[k] \in Transaction /\ \A i, j \in DOMAIN txns : txns[i].id = txns[j].id => i = j
    BY <1>2, ListIs
  <2>2. PICK i \in DOMAIN txns : mine = Row(txns[i], t)
    BY <1>1, <1>2
  <2>3. PICK j \in DOMAIN txns : theirs = Row(txns[j], other)
    BY <1>1, <1>2
  <2>4. i = k /\ j = k
    BY <1>2, <2>1, <2>2, <2>3, RowIs
  <2>5. CASE t # other
    <3>1. \A l \in DOMAIN txns[k].items : {txns[k].items[l].to, txns[k].items[l].from} = {t, other}
      BY <1>2
    <3>2. \A l \in DOMAIN txns[k].items : {txns[k].items[l].to, txns[k].items[l].from} = {other, t}
      BY <1>2
    <3>3. Named(Row(txns[k], t).adds) = Named(Row(txns[k], other).drops)
      BY <2>1, <2>5, <3>1, TradeIsOne, NoneAssumption
    <3>4. Named(Row(txns[k], other).adds) = Named(Row(txns[k], t).drops)
      BY <2>1, <2>5, <3>2, TradeIsOne, NoneAssumption
    <3>5. QED
      BY <2>2, <2>3, <2>4, <3>3, <3>4
  <2>6. CASE t = other
    <3>1. DOMAIN txns[k].items = {}
      BY <1>2, <2>6
    <3>2. Named(Moved(txns[k], t, "in")) = {} /\ Named(Moved(txns[k], t, "out")) = {}
      BY <2>1, <3>1, MovedAre, NoneAssumption
    <3>3. mine = theirs /\ mine = Row(txns[k], t)
      BY <2>2, <2>3, <2>4, <2>6
    <3>4. mine.adds = Moved(txns[k], t, "in") /\ mine.drops = Moved(txns[k], t, "out")
      BY <3>3, RowIs
    <3>5. QED
      BY <3>2, <3>3, <3>4
  <2>7. QED
    BY <2>5, <2>6
<1>3. QED
  BY <1>2 DEF SidesAgree, shown

\* The feed: rows of what happened, each from the team whose transaction it is.
Newsworthy(log) == {k \in DOMAIN log : Happened(log[k])}

LEMMA FeedIs ==
  ASSUME ReportAssumption, NEW log \in TransactionList
  PROVE  LET feed == Feed(log)
             H == Newsworthy(log)
         IN  /\ Len(feed) \in Nat /\ DOMAIN feed = 1 .. Len(feed)
             /\ \A j \in 1 .. Len(feed) : \E k \in H : feed[j] = Row(log[k], log[k].team)
             /\ \A i, j \in 1 .. Len(feed) : feed[i].id = feed[j].id => i = j
             /\ \A k \in H : \/ \E j \in 1 .. Len(feed) : feed[j] = Row(log[k], log[k].team)
                             \/ /\ Len(feed) = MaxStored
                                /\ \A j \in 1 .. Len(feed) : Recency(feed[j]) >= Recency(log[k])
<1> DEFINE n == Len(log)
           H == Newsworthy(log)
           c == Cardinality(H)
           done == Kept(log, H)
           rows == [k \in DOMAIN done |-> Row(done[k], done[k].team)]
           key == [k \in DOMAIN rows |-> Recency(rows[k])]
           t == Descending(rows, Recency)
           feed == Feed(log)
           l == IF MaxStored <= c THEN MaxStored ELSE c
           Right(k) == Row(log[k], log[k].team)
           r == Ranked(key)
<1>0. /\ MaxStored \in Nat /\ n \in Nat /\ DOMAIN log = 1 .. n /\ H \in SUBSET (1 .. n)
      /\ \A i \in 1 .. n : log[i] \in Transaction
      /\ \A i, j \in 1 .. n : log[i].id = log[j].id => i = j
  BY ListIs DEF ReportAssumption, Newsworthy
<1>1. feed = Take(t, MaxStored)
  BY DEF Feed, Newest, Newsworthy
<1>2. t = [m \in DOMAIN rows |-> rows[Ranked(key)[m]]]
  BY DEF Descending
<1>3. /\ c \in Nat /\ DOMAIN done = 1 .. c
      /\ \A k \in 1 .. c : done[k] = log[Nth(H, k)] /\ Nth(H, k) \in H
      /\ \A i \in H : \E k \in 1 .. c : Nth(H, k) = i
      /\ \A k, j \in 1 .. c : Nth(H, k) = Nth(H, j) => k = j
  <2> HIDE DEF H, n
  <2>1. QED
    BY <1>0, KeptIs
<1>4. DOMAIN rows = 1 .. c /\ \A k \in 1 .. c : rows[k] = Right(Nth(H, k))
  <2> HIDE DEF done, c, H
  <2>1. QED
    BY <1>3
<1>5. \A k \in H : Right(k).id = log[k].id /\ Recency(Right(k)) = Recency(log[k]) /\ Recency(log[k]) \in Int
  <2>1. ASSUME NEW k \in H
        PROVE  Right(k).id = log[k].id /\ Recency(Right(k)) = Recency(log[k]) /\ Recency(log[k]) \in Int
    <3>1. log[k] \in Transaction
      BY <1>0
    <3>2. QED
      BY <3>1, RowIs, TransactionIs, NoneAssumption
  <2>2. QED
    BY <2>1
<1> HIDE DEF H, c, done, rows, t, feed, Right, n
<1>6. DOMAIN key = 1 .. c /\ \A k \in 1 .. c : key[k] = Recency(log[Nth(H, k)]) /\ key[k] \in Int
  BY <1>3, <1>4, <1>5
<1>7. t = [m \in 1 .. c |-> rows[Ranked(key)[m]]]
  BY <1>2, <1>4
<1> HIDE DEF key
<1>8. Arranged(t, rows, key, c)
  BY <1>4, <1>6, <1>7 DEF Arranged
<1>9. /\ Len(feed) = l /\ DOMAIN feed = 1 .. l
      /\ \A k \in 1 .. l : k \in 1 .. c /\ r[k] \in 1 .. c /\ feed[k] = rows[r[k]]
      /\ \A k, j \in 1 .. l : r[k] = r[j] => k = j
      /\ \A i \in 1 .. c : \/ \E k \in 1 .. l : r[k] = i
                           \/ l = MaxStored /\ \A k \in 1 .. l : key[r[k]] >= key[i]
  <2>1. c \in Nat /\ MaxStored \in Nat
    BY <1>0, <1>3
  <2>2. Len(feed) = l /\ DOMAIN feed = 1 .. l
    BY ONLY <1>1, <1>8, <2>1, TopIs
  <2>7. \A k \in 1 .. l : k \in 1 .. c /\ r[k] \in 1 .. c
    BY ONLY <1>8, <2>1, TopIs
  <2>8. \A k \in 1 .. l : feed[k] = rows[r[k]]
    BY ONLY <1>1, <1>8, <2>1, TopIs
  <2>3. \A k \in 1 .. l : k \in 1 .. c /\ r[k] \in 1 .. c /\ feed[k] = rows[r[k]]
    BY ONLY <2>7, <2>8
  <2>4. \A k, j \in 1 .. l : r[k] = r[j] => k = j
    BY ONLY <1>8, <2>1, TopIs
  <2>5. \A i \in 1 .. c : \/ \E k \in 1 .. l : r[k] = i
                          \/ l = MaxStored /\ \A k \in 1 .. l : key[r[k]] >= key[i]
    BY ONLY <1>8, <2>1, TopIs
  <2>6. QED
    BY ONLY <2>2, <2>3, <2>4, <2>5
<1>10. l \in Nat
  BY <1>0, <1>3
<1> HIDE DEF l, r
<1>11. \A k \in 1 .. l : /\ Nth(H, r[k]) \in H /\ feed[k] = Right(Nth(H, r[k]))
                         /\ Recency(feed[k]) = key[r[k]] /\ feed[k].id = log[Nth(H, r[k])].id
  BY <1>3, <1>4, <1>5, <1>6, <1>9
<1>12. \A i, j \in 1 .. l : feed[i].id = feed[j].id => i = j
  <2>1. ASSUME NEW i \in 1 .. l, NEW j \in 1 .. l, feed[i].id = feed[j].id PROVE i = j
    <3> DEFINE a == Nth(H, r[i])
               b == Nth(H, r[j])
    <3>0. a \in H /\ b \in H /\ log[a].id = log[b].id
      BY <1>11, <2>1
    <3>4. a \in 1 .. n /\ b \in 1 .. n
      BY <1>0, <3>0
    <3>1. Nth(H, r[i]) = Nth(H, r[j])
      <4> HIDE DEF a, b
      <4>1. a = b
        BY ONLY <1>0, <3>0, <3>4
      <4>2. QED
        BY <4>1 DEF a, b
    <3>2. r[i] = r[j]
      BY <1>3, <1>9, <3>1
    <3>3. QED
      BY <1>9, <3>2
  <2>2. QED
    BY <2>1
<1>13. ASSUME NEW i \in H
       PROVE  \/ \E j \in 1 .. l : feed[j] = Right(i)
              \/ l = MaxStored /\ \A j \in 1 .. l : Recency(feed[j]) >= Recency(log[i])
  <2>1. PICK k \in 1 .. c : Nth(H, k) = i
    BY <1>3
  <2>2. key[k] = Recency(log[i])
    BY <1>6, <2>1
  <2>3. CASE \E j \in 1 .. l : r[j] = k
    BY <1>11, <2>1, <2>3
  <2>4. CASE l = MaxStored /\ \A j \in 1 .. l : key[r[j]] >= key[k]
    BY <1>11, <2>2, <2>4
  <2>5. QED
    BY <1>9, <2>3, <2>4
<1>14. /\ Len(feed) \in Nat /\ DOMAIN feed = 1 .. Len(feed)
       /\ \A j \in 1 .. Len(feed) : \E k \in H : feed[j] = Right(k)
       /\ \A i, j \in 1 .. Len(feed) : feed[i].id = feed[j].id => i = j
       /\ \A k \in H : \/ \E j \in 1 .. Len(feed) : feed[j] = Right(k)
                       \/ /\ Len(feed) = MaxStored
                          /\ \A j \in 1 .. Len(feed) : Recency(feed[j]) >= Recency(log[k])
  BY <1>9, <1>10, <1>11, <1>12, <1>13
<1>15. QED
  BY <1>14 DEF feed, H, Right

LEMMA FeedKeepsTheNewest ==
  ASSUME ReportAssumption, NEW log \in TransactionList
  PROVE  FeedIsNewest(log, Feed(log))
<1> DEFINE feed == Feed(log)
           H == Newsworthy(log)
<1>1. /\ Len(feed) \in Nat /\ DOMAIN feed = 1 .. Len(feed)
      /\ \A j \in 1 .. Len(feed) : \E k \in H : feed[j] = Row(log[k], log[k].team)
      /\ \A k \in H : \/ \E j \in 1 .. Len(feed) : feed[j] = Row(log[k], log[k].team)
                      \/ /\ Len(feed) = MaxStored
                         /\ \A j \in 1 .. Len(feed) : Recency(feed[j]) >= Recency(log[k])
  BY FeedIs
<1> HIDE DEF feed
<1>2. ASSUME NEW k \in DOMAIN log, NEW j \in DOMAIN feed, log[k].id \notin Ids(feed),
             log[k].status \in Completed, log[k].pending = FALSE, Moves(Row(log[k], log[k].team))
      PROVE  Recency(log[k]) <= Recency(feed[j]) /\ Len(feed) = MaxStored
  <2>1. k \in H
    BY <1>2 DEF Newsworthy, Happened
  <2>2. ASSUME NEW i \in 1 .. Len(feed) PROVE feed[i] # Row(log[k], log[k].team)
    <3>1. feed[i].id # log[k].id
      BY <1>1, <1>2 DEF Ids
    <3>2. Row(log[k], log[k].team).id = log[k].id
      BY RowIs
    <3>3. QED
      BY <3>1, <3>2
  <2>3. PICK i \in H : feed[j] = Row(log[i], log[i].team)
    BY <1>1, <1>2
  <2>4. log[i] \in Transaction /\ log[k] \in Transaction
    BY <1>2, <2>3, ListIs DEF Newsworthy
  <2>5. Recency(feed[j]) \in Int /\ Recency(log[k]) \in Int
    BY <2>3, <2>4, RowIs, TransactionIs, NoneAssumption
  <2>6. Len(feed) = MaxStored /\ Recency(feed[j]) >= Recency(log[k])
    BY <1>1, <1>2, <2>1, <2>2
  <2>7. QED
    BY <2>5, <2>6
<1>3. FeedIsNewest(log, feed)
  BY <1>2 DEF FeedIsNewest
<1>4. QED
  BY <1>3 DEF feed

\* What counts for nothing may be left out of a sum.
LEMMA SumWhere ==
  ASSUME NEW S, IsFiniteSet(S), NEW f, \A x \in S : f[x] \in Int,
         NEW R \in SUBSET S, \A x \in S \ R : f[x] = 0
  PROVE  SumFunctionOnSet(f, R) = SumFunctionOnSet(f, S)
<1> DEFINE Q == S \ R
<1>1. SumFunctionOnSet(f, S) = SumFunctionOnSet(f, R) + SumFunctionOnSet(f, Q)
  BY SumSplit
<1>2. IsFiniteSet(Q) /\ IsFiniteSet(R) /\ \A x \in Q : f[x] = 0
  BY FS_Subset
<1> HIDE DEF Q
<1>3. SumFunctionOnSet(f, Q) = 0 * Cardinality(Q) /\ Cardinality(Q) \in Nat
  BY <1>2, SumConstant, FS_CardinalityType
<1>4. SumFunctionOnSet(f, R) \in Int
  BY <1>2, SumType
<1>5. QED
  BY <1>1, <1>3, <1>4

\* What one manager spent.
Bids(won) == [i \in DOMAIN won |-> won[i].bid]
BidOrder(won) == Descending(won, LAMBDA entry : entry.bid)

Account(won) ==
  [spent |-> SumFunction(Bids(won)), claims |-> Len(won),
   biggest |-> IF won = <<>> THEN 0 ELSE BidOrder(won)[1].bid,
   average |-> IF won = <<>> THEN 0 ELSE RoundDiv(10 * SumFunction(Bids(won)), Len(won))]

LEMMA SpendingIs ==
  ASSUME NEW feed
  PROVE  Spending(feed) = [t \in {feed[k].team : k \in DOMAIN feed} |-> Account(ClaimsWon(feed, t))]
  BY DEF Spending, Account, Bids, BidOrder, First, Total, Descending

LEMMA AccountIs ==
  ASSUME NEW n \in Nat, NEW won, Len(won) = n, DOMAIN won = 1 .. n, won = <<>> <=> n = 0,
         \A i \in 1 .. n : won[i].bid \in Nat
  PROVE  LET a == Account(won)
         IN  /\ a.spent = SumFunctionOnSet(Bids(won), 1 .. n)
             /\ a.biggest <= a.spent
             /\ a.average <= 10 * a.biggest
             /\ a.spent <= a.claims * a.biggest
<1> DEFINE f == Bids(won)
           a == Account(won)
           sum == SumFunctionOnSet(f, 1 .. n)
           r == Ranked(f)
           big == f[r[1]]
<1>1. DOMAIN f = 1 .. n /\ \A i \in 1 .. n : f[i] = won[i].bid /\ f[i] \in Int /\ f[i] >= 0
  BY DEF Bids
<1>2. IsFiniteSet(1 .. n) /\ Cardinality(1 .. n) = n
  BY Spaces
<1>3. a.spent = SumFunction(f) /\ SumFunction(f) = sum /\ a.claims = n
  BY <1>1 DEF Account, SumFunction
<1>4. CASE n = 0
  <2>1. sum = 0
    BY <1>4, SumEmpty
  <2>2. a.biggest = 0 /\ a.average = 0
    BY <1>4 DEF Account
  <2> HIDE DEF a, sum
  <2>3. a.spent = sum /\ a.biggest <= a.spent /\ a.average <= 10 * a.biggest /\ a.spent <= a.claims * a.biggest
    BY <1>3, <1>4, <2>1, <2>2
  <2>4. QED
    BY <2>3 DEF a, sum
<1>5. CASE n # 0
  <2> DEFINE t == BidOrder(won)
  <2>1. t = [m \in 1 .. n |-> won[r[m]]]
    BY DEF BidOrder, Descending, Bids
  <2> HIDE DEF t, f
  <2>2. Arranged(t, won, f, n)
    BY <1>1, <2>1 DEF Arranged
  <2>3. /\ \A i \in 1 .. n : r[i] \in 1 .. n /\ t[i] = won[r[i]]
        /\ \A i \in 1 .. n : \E k \in 1 .. n : r[k] = i
        /\ \A i, j \in 1 .. n : i <= j => f[r[i]] >= f[r[j]]
    BY ONLY <2>2, n \in Nat, OrderedIs
  <2>4. 1 \in 1 .. n /\ \A p \in 1 .. n : 1 <= p
    BY <1>5
  <2> HIDE DEF r
  <2>5. r[1] \in 1 .. n /\ t[1].bid = big /\ big \in Nat
    <3>1. r[1] \in 1 .. n /\ t[1] = won[r[1]]
      BY <2>3, <2>4
    <3>2. big = won[r[1]].bid /\ big \in Int /\ big >= 0
      BY <1>1, <3>1
    <3>3. QED
      BY <3>1, <3>2
  <2>6. ASSUME NEW i \in 1 .. n PROVE f[i] <= big
    <3>1. PICK p \in 1 .. n : r[p] = i
      BY <2>3
    <3>2. f[r[1]] >= f[r[p]]
      BY <2>3, <2>4
    <3>3. QED
      BY <1>1, <2>5, <3>1, <3>2
  <2>7. a.biggest = big /\ a.average = RoundDiv(10 * sum, n)
    BY <1>3, <1>5, <2>5 DEF Account, f, t
  <2> HIDE DEF big
  <2>8. 0 * n <= sum /\ sum <= big * n /\ sum \in Int
    <3>1. \A i \in 1 .. n : f[i] \in Int /\ 0 <= f[i] /\ f[i] <= big
      BY <1>1, <2>6
    <3>2. big \in Int /\ 0 \in Int
      BY <2>5
    <3>3. 0 * Cardinality(1 .. n) <= sum /\ sum <= big * Cardinality(1 .. n)
      BY <1>2, <3>1, <3>2, SumBounds
    <3>4. sum \in Int
      BY <1>1, <1>2, SumType
    <3>5. QED
      BY <1>2, <3>3, <3>4
  <2>9. big <= sum
    <3> DEFINE R == (1 .. n) \ {r[1]}
               rest == SumFunctionOnSet(f, R)
    <3>1. sum = f[r[1]] + rest
      BY <1>1, <1>2, <2>5, SumWithout
    <3>2. IsFiniteSet(R) /\ R \in SUBSET (1 .. n)
      BY <1>2, FS_Subset
    <3> HIDE DEF R
    <3>3. 0 * Cardinality(R) <= rest /\ Cardinality(R) \in Nat /\ rest \in Int
      <4>1. \A i \in R : f[i] \in Int /\ 0 <= f[i] /\ f[i] <= big
        BY <1>1, <2>6, <3>2
      <4>2. 0 * Cardinality(R) <= rest
        <5>1. IsFiniteSet(R) /\ 0 \in Int /\ big \in Int
          BY <2>5, <3>2
        <5>2. QED
          BY ONLY <4>1, <5>1, SumBounds
      <4>3. QED
        BY <3>2, <4>1, <4>2, FS_CardinalityType, SumType
    <3> HIDE DEF rest
    <3>4. QED
      BY <2>5, <3>1, <3>3 DEF big
  <2>10. RoundDiv(10 * sum, n) <= 10 * big
    <3> HIDE DEF sum
    <3>1. 10 * sum \in Int /\ 10 * big \in Int /\ 10 * sum <= n * (10 * big) /\ n \in Nat \ {0}
      BY <1>5, <2>5, <2>8
    <3>2. QED
      BY <3>1, RoundBelow
  <2> HIDE DEF a, sum
  <2>11. a.spent = sum /\ a.biggest <= a.spent /\ a.average <= 10 * a.biggest /\ a.spent <= a.claims * a.biggest
    <3>1. sum <= n * big
      BY <2>5, <2>8
    <3>2. QED
      BY <1>3, <2>7, <2>9, <2>10, <3>1
  <2>12. QED
    BY <2>11 DEF a, sum, f
<1>6. QED
  BY <1>4, <1>5

\* His claims are the rows of the feed that cost him something.
LEMMA ManagerIs ==
  ASSUME NEW n \in Nat, NEW feed, DOMAIN feed = 1 .. n, NEW b,
         \A k \in 1 .. n : feed[k].bid \in Nat \union {None} /\ b[k] = OrZero(feed[k].bid),
         NEW t
  PROVE  LET a == Account(ClaimsWon(feed, t))
         IN  /\ a.spent = SumFunctionOnSet(b, {k \in 1 .. n : feed[k].team = t})
             /\ a.biggest <= a.spent
             /\ a.average <= 10 * a.biggest
             /\ a.spent <= a.claims * a.biggest
<1> DEFINE G == {k \in 1 .. n : feed[k].team = t}
           W == {k \in DOMAIN feed : feed[k].team = t /\ feed[k].bid # None /\ feed[k].bid > 0}
           won == Kept(feed, W)
           c == Cardinality(W)
           e == [k \in 1 .. c |-> Nth(W, k)]
           a == Account(won)
<1>1. W \in SUBSET G /\ G \in SUBSET (1 .. n) /\ W \in SUBSET (1 .. n) /\ IsFiniteSet(G) /\ ClaimsWon(feed, t) = won
  <2>1. IsFiniteSet(1 .. n)
    BY Spaces
  <2>2. QED
    BY <2>1, FS_Subset DEF ClaimsWon
<1>2. \A k \in 1 .. n : b[k] \in Int /\ (k \in W => b[k] = feed[k].bid /\ feed[k].bid \in Nat)
                        /\ (k \in G \ W => b[k] = 0)
  BY NoneAssumption DEF OrZero
<1> HIDE DEF W, G
<1>3. /\ c \in Nat /\ Len(won) = c /\ DOMAIN won = 1 .. c /\ (won = <<>> <=> W = {})
      /\ \A k \in 1 .. c : won[k] = feed[Nth(W, k)] /\ Nth(W, k) \in W
      /\ \A i \in W : \E k \in 1 .. c : Nth(W, k) = i
      /\ \A k, l \in 1 .. c : Nth(W, k) = Nth(W, l) => k = l
  BY <1>1, KeptIs
<1>4. W = {} <=> c = 0
  BY <1>1, FS_Subset, FS_EmptySet
<1> HIDE DEF won, c
<1>5. \A i \in 1 .. c : e[i] = Nth(W, i) /\ won[i].bid = b[e[i]] /\ won[i].bid \in Nat /\ b[e[i]] \in Int
  BY <1>1, <1>2, <1>3
<1>6. Renamed(e, 1 .. c, W)
  BY <1>3 DEF Renamed
<1> HIDE DEF e
<1>7. SumFunctionOnSet(b, W) = SumFunctionOnSet(Bids(won), 1 .. c)
  <2> DEFINE f == Bids(won)
             Q == 1 .. c
  <2>1. \A i \in Q : b[e[i]] \in Int /\ f[i] = b[e[i]]
    BY <1>3, <1>5 DEF Bids
  <2>2. IsFiniteSet(Q)
    BY <1>3, Spaces
  <2>3. Renamed(e, Q, W)
    BY <1>6
  <2> HIDE DEF f, Q
  <2>4. SumFunctionOnSet(b, W) = SumFunctionOnSet(f, Q)
    BY <2>1, <2>2, <2>3, SumRenamed
  <2>5. QED
    BY <2>4 DEF f, Q
<1>8. SumFunctionOnSet(b, W) = SumFunctionOnSet(b, G)
  BY <1>1, <1>2, SumWhere
<1>9. /\ a.spent = SumFunctionOnSet(Bids(won), 1 .. c)
      /\ a.biggest <= a.spent
      /\ a.average <= 10 * a.biggest
      /\ a.spent <= a.claims * a.biggest
  <2>1. /\ c \in Nat /\ Len(won) = c /\ DOMAIN won = 1 .. c /\ (won = <<>> <=> c = 0)
        /\ \A i \in 1 .. c : won[i].bid \in Nat
    BY <1>3, <1>4, <1>5
  <2>2. QED
    BY ONLY <2>1, AccountIs
<1>10. QED
  BY <1>1, <1>7, <1>8, <1>9 DEF G

LEMMA SpendingDoesAddUp ==
  ASSUME ReportAssumption, NEW log \in TransactionList
  PROVE  SpendingAddsUp(log, Feed(log), Spending(Feed(log)))
<1> DEFINE feed == Feed(log)
           n == Len(feed)
           e == [j \in 1 .. n |-> CHOOSE k \in DOMAIN log : log[k].id = feed[j].id]
           b == [j \in 1 .. n |-> OrZero(feed[j].bid)]
           C == {k \in DOMAIN log : log[k].id \in Ids(feed) /\ log[k].type \in Bidding}
           f == [k \in C |-> OrZero(log[k].bid)]
           J == {j \in 1 .. n : log[e[j]].type \in Bidding}
           T == {feed[k].team : k \in DOMAIN feed}
           g == [k \in 1 .. n |-> feed[k].team]
           spending == Spending(feed)
           h == [t \in DOMAIN spending |-> spending[t].spent]
<1>1. /\ n \in Nat /\ DOMAIN feed = 1 .. n
      /\ \A j \in 1 .. n : \E k \in Newsworthy(log) : feed[j] = Row(log[k], log[k].team)
      /\ \A i, j \in 1 .. n : feed[i].id = feed[j].id => i = j
  BY FeedIs
<1>2. /\ \A k \in DOMAIN log : log[k] \in Transaction
      /\ \A i, j \in DOMAIN log : log[i].id = log[j].id => i = j
  BY ListIs
<1> HIDE DEF feed, n
<1>3. ASSUME NEW j \in 1 .. n
      PROVE  /\ e[j] \in DOMAIN log /\ feed[j] = Row(log[e[j]], log[e[j]].team) /\ log[e[j]].id = feed[j].id
  <2>1. PICK k \in DOMAIN log : feed[j] = Row(log[k], log[k].team)
    BY <1>1 DEF Newsworthy
  <2>2. log[k].id = feed[j].id
    BY <2>1, RowIs
  <2>3. e[j] = k
    BY <1>2, <2>2
  <2>4. QED
    BY <2>1, <2>2, <2>3
<1>4. \A j \in 1 .. n : b[j] = OrZero(feed[j].bid)
  OBVIOUS
<1> HIDE DEF e, b
<1>5. ASSUME NEW j \in 1 .. n
      PROVE  /\ feed[j].bid \in Nat \union {None} /\ b[j] \in Int
             /\ j \in J => e[j] \in C /\ b[j] = f[e[j]]
             /\ j \notin J => b[j] = 0
  <2> DEFINE x == log[e[j]]
  <2>1. x \in Transaction /\ feed[j].bid = (IF x.type \in Bidding THEN x.bid ELSE None)
    BY <1>2, <1>3, RowIs
  <2>2. x.bid \in Nat \union {None}
    BY <2>1 DEF Transaction
  <2>3. OrZero(None) = 0 /\ OrZero(x.bid) \in Int
    BY <2>2 DEF OrZero
  <2>4. j \in J => e[j] \in C
    BY <1>1, <1>3 DEF Ids
  <2>5. QED
    BY <1>4, <2>1, <2>2, <2>3, <2>4
<1>6. ASSUME NEW i \in J, NEW j \in J, e[i] = e[j] PROVE i = j
  <2>1. i \in 1 .. n /\ j \in 1 .. n
    OBVIOUS
  <2>2. feed[i].id = feed[j].id
    BY <1>3, <1>6, <2>1
  <2>3. QED
    BY <1>1, <2>1, <2>2
<1>7. ASSUME NEW k \in C PROVE \E j \in J : e[j] = k
  <2>1. PICK j \in 1 .. n : feed[j].id = log[k].id
    BY <1>1 DEF Ids
  <2>2. e[j] = k
    BY <1>2, <1>3, <2>1
  <2>3. QED
    BY <2>2
<1>8. IsFiniteSet(1 .. n) /\ J \in SUBSET (1 .. n) /\ IsFiniteSet(J)
  <2>1. IsFiniteSet(1 .. n) /\ J \in SUBSET (1 .. n)
    BY <1>1, Spaces
  <2>2. QED
    BY <2>1, FS_Subset
<1>9. DOMAIN f = C
  OBVIOUS
<1> HIDE DEF J, C, f
<1>10. SumFunctionOnSet(f, C) = SumFunctionOnSet(b, J)
  <2>1. Renamed(e, J, C)
    BY <1>5, <1>6, <1>7, <1>8 DEF Renamed
  <2>2. \A x \in J : f[e[x]] \in Int /\ b[x] = f[e[x]]
    BY <1>5, <1>8
  <2>3. IsFiniteSet(J)
    BY <1>8
  <2>4. QED
    BY ONLY <2>1, <2>2, <2>3, SumRenamed
<1>11. SumFunctionOnSet(b, J) = SumFunctionOnSet(b, 1 .. n)
  BY <1>5, <1>8, SumWhere
<1>12. spending = [t \in T |-> Account(ClaimsWon(feed, t))]
  BY SpendingIs
<1>13. DOMAIN spending = T /\ DOMAIN h = T /\ \A t \in T : h[t] = spending[t].spent
  BY <1>12
<1> HIDE DEF h
<1>14. ASSUME NEW t \in T
       PROVE  /\ spending[t].spent = SumFunctionOnSet(b, {k \in 1 .. n : feed[k].team = t})
              /\ spending[t].biggest <= spending[t].spent
              /\ spending[t].average <= 10 * spending[t].biggest
              /\ spending[t].spent <= spending[t].claims * spending[t].biggest
  <2> DEFINE a == Account(ClaimsWon(feed, t))
  <2>1. spending[t] = a
    BY <1>12
  <2>2. /\ a.spent = SumFunctionOnSet(b, {k \in 1 .. n : feed[k].team = t})
        /\ a.biggest <= a.spent
        /\ a.average <= 10 * a.biggest
        /\ a.spent <= a.claims * a.biggest
    <3>1. n \in Nat /\ DOMAIN feed = 1 .. n
      BY <1>1
    <3>2. \A k \in 1 .. n : feed[k].bid \in Nat \union {None} /\ b[k] = OrZero(feed[k].bid)
      BY <1>4, <1>5
    <3>3. QED
      BY ONLY <3>1, <3>2, ManagerIs
  <2> HIDE DEF a, spending
  <2>3. QED
    BY <2>1, <2>2
<1>15. SumFunctionOnSet(h, T) = SumFunctionOnSet(b, 1 .. n)
  <2> DEFINE Q == 1 .. n
  <2>1. IsFiniteSet(T)
    <3>1. g \in Surjection(1 .. n, T)
      BY <1>1 DEF Surjection
    <3>2. QED
      BY <1>8, <3>1, FS_Surjection
  <2>2. \A x \in Q : b[x] \in Int /\ g[x] \in T /\ g[x] = feed[x].team
    BY <1>1, <1>5
  <2>3. IsFiniteSet(Q)
    BY <1>8
  <2>4. \A t \in T : h[t] = SumFunctionOnSet(b, {k \in Q : feed[k].team = t})
    BY <1>13, <1>14
  <2>5. \A t \in T : h[t] = SumFunctionOnSet(b, {x \in Q : g[x] = t})
    <3>1. \A t \in T : {k \in Q : feed[k].team = t} = {x \in Q : g[x] = t}
      BY <2>2
    <3>2. QED
      BY <2>4, <3>1
  <2> HIDE DEF Q, T, g
  <2>6. SumFunctionOnSet(h, T) = SumFunctionOnSet(b, Q)
    <3>1. Grouped(Q, b, T, g, h)
      BY <2>2, <2>5 DEF Grouped
    <3>2. QED
      BY ONLY <2>1, <2>3, <3>1, SumByGroup
  <2>7. QED
    BY <2>6 DEF Q
<1>16. SumFunction(f) = SumFunction(h)
  BY <1>9, <1>10, <1>11, <1>13, <1>15 DEF SumFunction
<1>17. SpendingAddsUp(log, feed, spending)
  BY <1>13, <1>14, <1>16 DEF SpendingAddsUp, f, C, h
<1>18. QED
  BY <1>17 DEF feed

\* Claims, feed and spending tell one story.
LEMMA ActivityAgrees ==
  ASSUME ReportAssumption, NEW c, c.log \in TransactionList,
         c.pending = None \/ c.pending \in TransactionList
  PROVE  LET a == Activity(c)
         IN  /\ SidesAgree(c.pending, a.claims)
             /\ FeedIsNewest(c.log, a.feed)
             /\ SpendingAddsUp(c.log, a.feed, a.spending)
<1> DEFINE a == Activity(c)
<1>1. /\ a.claims = [t \in Teams \union {None} |-> ClaimsShown(c.connected, t, c.pending)]
      /\ a.feed = Feed(c.log) /\ a.spending = Spending(Feed(c.log))
  BY DEF Activity
<1>2. /\ SidesAgree(c.pending, [t \in Teams \union {None} |-> ClaimsShown(c.connected, t, c.pending)])
      /\ FeedIsNewest(c.log, Feed(c.log))
      /\ SpendingAddsUp(c.log, Feed(c.log), Spending(Feed(c.log)))
  BY SidesDoAgree, FeedKeepsTheNewest, SpendingDoesAddUp
<1> HIDE DEF a
<1>3. /\ SidesAgree(c.pending, a.claims)
      /\ FeedIsNewest(c.log, a.feed)
      /\ SpendingAddsUp(c.log, a.feed, a.spending)
  BY <1>1, <1>2
<1>4. QED
  BY <1>3 DEF a
-----------------------------------------------------------------------------
\* Waivers: what to bid.
LEMMA Percentage ==
  ASSUME NEW gain \in Int
  PROVE  /\ SuggestedFaabPct(gain) \in 0 .. 35
         /\ \A other \in Int : other <= gain => SuggestedFaabPct(other) <= SuggestedFaabPct(gain)
<1> DEFINE Cut(x) == IF (IF x <= 35 THEN x ELSE 35) >= 0 THEN (IF x <= 35 THEN x ELSE 35) ELSE 0
<1>1. ASSUME NEW other \in Int PROVE RoundDiv(other, 4) \in Int /\ SuggestedFaabPct(other) = Cut(RoundDiv(other, 4))
  <2>1. RoundDiv(other, 4) \in Int
    BY Rounded
  <2>2. AtMost(RoundDiv(other, 4), 35) = (IF RoundDiv(other, 4) <= 35 THEN RoundDiv(other, 4) ELSE 35)
    BY <2>1, Bounds
  <2>3. AtMost(RoundDiv(other, 4), 35) \in Int
    BY <2>1, <2>2
  <2>4. AtLeast(AtMost(RoundDiv(other, 4), 35), 0)
          = IF AtMost(RoundDiv(other, 4), 35) >= 0 THEN AtMost(RoundDiv(other, 4), 35) ELSE 0
    BY <2>3, Bounds
  <2>5. QED
    BY <2>1, <2>2, <2>4 DEF SuggestedFaabPct
<1>2. \A x \in Int : Cut(x) \in 0 .. 35
  OBVIOUS
<1>3. \A x, y \in Int : x <= y => Cut(x) <= Cut(y)
  OBVIOUS
<1> HIDE DEF Cut
<1>4. ASSUME NEW other \in Int, other <= gain PROVE SuggestedFaabPct(other) <= SuggestedFaabPct(gain)
  <2>1. RoundDiv(other, 4) <= RoundDiv(gain, 4)
    BY <1>4, RoundRises
  <2>2. QED
    BY <1>1, <1>3, <2>1
<1>5. QED
  BY <1>1, <1>2, <1>4

LEMMA Share ==
  ASSUME NEW b \in Nat, NEW p \in 0 .. 35, NEW q \in 0 .. 35, p <= q
  PROVE  /\ RoundDiv(b * p, 100) \in Nat
         /\ RoundDiv(b * p, 100) <= RoundDiv(b * q, 100)
<1>1. \A k \in 0 .. 35 : k \in Nat
  OBVIOUS
<1>2. p \in Nat /\ q \in Nat
  BY <1>1
<1>3. PICK d \in Nat : q = p + d
  BY <1>2
<1>4. b * p \in Nat /\ b * d \in Nat /\ b * q = b * p + b * d
  BY <1>2, <1>3
<1>5. b * p \in Int /\ b * q \in Int /\ b * p <= b * q /\ 0 <= b * p
  BY <1>4
<1> HIDE DEF RoundDiv
<1>6. RoundDiv(b * p, 100) <= RoundDiv(b * q, 100)
  BY <1>5, RoundRises
<1>7. RoundDiv(0, 100) = 0
  BY DEF RoundDiv
<1>8. RoundDiv(0, 100) <= RoundDiv(b * p, 100)
  BY <1>5, RoundRises
<1>9. RoundDiv(b * p, 100) \in Int
  BY <1>5, Rounded
<1>10. QED
  BY <1>6, <1>7, <1>8, <1>9

\* A bid from an upgrade of u, what is left and what the budget is.
BidOf(gain, budget, left) ==
  LET bid == RoundDiv(budget * SuggestedFaabPct(gain), 100)
      capped == IF bid <= left THEN bid ELSE left
  IN  IF gain > 0 /\ left > 0 /\ capped < 1 THEN 1 ELSE capped

LEMMA BidIs ==
  ASSUME NEW gain \in Int, NEW budget \in Nat, NEW left \in Nat, NEW context,
         context # None, context.type = "faab", context.budget = budget, context.mine = left
  PROVE  SuggestedBid(gain, context) = BidOf(gain, budget, left)
<1> DEFINE bid == RoundDiv(budget * SuggestedFaabPct(gain), 100)
           capped == IF bid <= left THEN bid ELSE left
<1>1. SuggestedFaabPct(gain) \in 0 .. 35 /\ 35 \in 0 .. 35 /\ SuggestedFaabPct(gain) <= 35
  BY Percentage
<1>2. bid \in Nat
  BY <1>1, Share
<1>3. left # None
  BY NoneAssumption
<1> HIDE DEF bid
<1>4. AtMost(bid, left) = capped /\ capped \in Int
  BY <1>2, Bounds
<1>5. AtLeast(capped, 1) = IF capped < 1 THEN 1 ELSE capped
  <2> HIDE DEF capped
  <2>1. AtLeast(capped, 1) = IF capped >= 1 THEN capped ELSE 1
    BY <1>4, Bounds
  <2>2. QED
    BY <1>4, <2>1
<1> HIDE DEF capped
<1>6. SuggestedBid(gain, context) = IF gain > 0 /\ left > 0 THEN AtLeast(capped, 1) ELSE capped
  BY <1>3, <1>4 DEF SuggestedBid, bid
<1>7. BidOf(gain, budget, left) = IF gain > 0 /\ left > 0 /\ capped < 1 THEN 1 ELSE capped
  BY DEF BidOf, bid, capped
<1>8. QED
  BY <1>5, <1>6, <1>7

LEMMA BidBounds ==
  ASSUME NEW gain \in Int, NEW budget \in Nat, NEW left \in Nat
  PROVE  /\ BidOf(gain, budget, left) \in 0 .. left
         /\ BidOf(gain, budget, left) <= AtLeast(RoundDiv(budget * 35, 100), 1)
         /\ gain > 0 /\ left > 0 => BidOf(gain, budget, left) >= 1
         /\ \A other \in Int : other <= gain => BidOf(other, budget, left) <= BidOf(gain, budget, left)
<1> DEFINE most == RoundDiv(budget * 35, 100)
           Bid(x) == RoundDiv(budget * SuggestedFaabPct(x), 100)
           Capped(x) == IF Bid(x) <= left THEN Bid(x) ELSE left
<1>1. ASSUME NEW x \in Int
      PROVE  /\ Bid(x) \in Nat /\ Bid(x) <= most
             /\ BidOf(x, budget, left) = IF x > 0 /\ left > 0 /\ Capped(x) < 1 THEN 1 ELSE Capped(x)
  <2>1. SuggestedFaabPct(x) \in 0 .. 35 /\ 35 \in 0 .. 35 /\ SuggestedFaabPct(x) <= 35
    BY Percentage
  <2>2. Bid(x) \in Nat /\ Bid(x) <= most
    BY <2>1, Share
  <2>3. QED
    BY <2>2 DEF BidOf
<1>2. ASSUME NEW other \in Int, other <= gain PROVE Bid(other) <= Bid(gain)
  <2>1. SuggestedFaabPct(other) \in 0 .. 35 /\ SuggestedFaabPct(gain) \in 0 .. 35
        /\ SuggestedFaabPct(other) <= SuggestedFaabPct(gain)
    BY <1>2, Percentage
  <2>2. QED
    BY <2>1, Share
<1>3. most \in Nat
  BY Share, 35 \in 0 .. 35
<1> HIDE DEF most, Bid
<1>4. AtLeast(most, 1) = IF most >= 1 THEN most ELSE 1
  BY <1>3, Bounds
<1>5. BidOf(gain, budget, left) \in 0 .. left
  BY <1>1
<1>6. BidOf(gain, budget, left) <= AtLeast(most, 1)
  BY <1>1, <1>3, <1>4
<1>7. gain > 0 /\ left > 0 => BidOf(gain, budget, left) >= 1
  BY <1>1
<1>8. ASSUME NEW other \in Int, other <= gain PROVE BidOf(other, budget, left) <= BidOf(gain, budget, left)
  BY <1>1, <1>2, <1>8
<1>9. QED
  BY <1>5, <1>6, <1>7, <1>8 DEF most

\* Whoever asks has a team in the league, so he has something left or nothing.
LEMMA BudgetIs ==
  ASSUME NEW league \in [faab : BOOLEAN, budget : Nat],
         NEW teams \in Seq([mine : BOOLEAN, spent : Nat, rank : Nat \union {None}]),
         \E i \in DOMAIN teams : teams[i].mine,
         BudgetContext(league, teams) # None, BudgetContext(league, teams).type = "faab"
  PROVE  BudgetContext(league, teams).budget \in Nat /\ BudgetContext(league, teams).mine \in Nat
<1> DEFINE n == Len(teams)
           S == {i \in DOMAIN teams : teams[i].mine}
           mine == Kept(teams, S)
           c == BudgetContext(league, teams)
           left == Remaining(league.budget, mine[1].spent)
<1>1. n \in Nat /\ DOMAIN teams = 1 .. n
      /\ \A i \in 1 .. n : teams[i] \in [mine : BOOLEAN, spent : Nat, rank : Nat \union {None}]
  BY LenProperties, ElementOfSeq
<1>2. S \in SUBSET (1 .. n) /\ S # {}
  BY <1>1
<1>3. mine # <<>> /\ mine[1].spent \in Nat
  <2> DEFINE k == Cardinality(S)
  <2> HIDE DEF S, n
  <2>1. /\ k \in Nat /\ (mine = <<>> <=> S = {}) /\ DOMAIN mine = 1 .. k /\ Len(mine) = k
        /\ \A j \in 1 .. k : mine[j] = teams[Nth(S, j)] /\ Nth(S, j) \in S
    BY <1>1, <1>2, KeptIs
  <2>2. IsFiniteSet(S)
    BY <1>1, <1>2, Spaces, FS_Subset
  <2>3. k # 0
    BY <1>2, <2>2, FS_EmptySet
  <2> HIDE DEF mine, k
  <2>4. 1 \in 1 .. k
    BY <2>1, <2>3
  <2>5. mine[1] \in [mine : BOOLEAN, spent : Nat, rank : Nat \union {None}]
    BY <1>1, <1>2, <2>1, <2>4
  <2>6. QED
    BY <1>2, <2>1, <2>5
<1>4. left \in Nat
  <2>1. league.budget - mine[1].spent \in Int
    BY <1>3
  <2> HIDE DEF mine
  <2>2. QED
    BY <2>1, Bounds DEF Remaining
<1> HIDE DEF mine
<1>5. c.budget = league.budget /\ c.mine = left
  BY <1>3 DEF BudgetContext, mine, S
<1>6. QED
  BY <1>4, <1>5

LEMMA ProspectIs ==
  ASSUME NEW p \in Prospect
  PROVE  /\ p.id \in Nat /\ p.value \in Nat /\ PointsOrDefault(p) \in Int /\ AdjustedValue(p) \in Int
         /\ p.out \in BOOLEAN
<1>1. /\ p.id \in Nat /\ p.value \in Nat /\ p.out \in BOOLEAN
      /\ p.points \in Int \union {None} /\ p.average \in Int \union {None}
      /\ p.trend \in {"up", "flat", "down"} /\ p.matchup \in {"favorable", "neutral", "tough"}
  BY DEF Prospect, Projections
<1>2. PointsOrDefault(p) \in Int
  BY <1>1 DEF PointsOrDefault
<1>3. TrendMultiplier[p.trend] \in Int /\ MatchupMultiplier[p.matchup] \in Int
  BY <1>1 DEF TrendMultiplier, MatchupMultiplier
<1> DEFINE base == IF PointsOrDefault(p) = 0 /\ p.average # None THEN p.average ELSE PointsOrDefault(p)
<1>4. base \in Int
  BY <1>1, <1>2
<1>5. AdjustedValue(p) = base * TrendMultiplier[p.trend] * MatchupMultiplier[p.matchup]
  BY DEF AdjustedValue
<1> HIDE DEF base
<1>6. \A a, b, c \in Int : a * b * c \in Int
  OBVIOUS
<1>7. AdjustedValue(p) \in Int
  BY <1>3, <1>4, <1>5, <1>6
<1>8. QED
  BY <1>1, <1>2, <1>7

LEMMA ProspectsAre ==
  ASSUME NEW s \in Seq(Prospect)
  PROVE  Len(s) \in Nat /\ DOMAIN s = 1 .. Len(s) /\ (\A i \in 1 .. Len(s) : s[i] \in Prospect)
         /\ (s = <<>> <=> Len(s) = 0)
  BY LenProperties, ElementOfSeq, EmptySeq

\* The first ones kept.
LEMMA FirstKept ==
  ASSUME NEW n \in Nat, NEW s, DOMAIN s = 1 .. n, NEW S \in SUBSET (1 .. n), NEW m \in Nat
  PROVE  LET d == Take(Kept(s, S), m)
             c == Cardinality(S)
             l == IF m <= c THEN m ELSE c
         IN  /\ l \in Nat /\ c \in Nat /\ Len(d) = l /\ DOMAIN d = 1 .. l
             /\ \A k \in 1 .. l : k \in 1 .. c /\ Nth(S, k) \in S /\ d[k] = s[Nth(S, k)]
             /\ \A k, j \in 1 .. l : k <= j => Nth(S, k) <= Nth(S, j)
             /\ \A i \in S : \/ \E k \in 1 .. l : Nth(S, k) = i
                             \/ l = m /\ \A k \in 1 .. l : Nth(S, k) < i
<1> DEFINE t == Kept(s, S)
           d == Take(t, m)
           c == Cardinality(S)
           l == IF m <= c THEN m ELSE c
<1>1. /\ c \in Nat /\ Len(t) = c /\ DOMAIN t = 1 .. c
      /\ \A k \in 1 .. c : t[k] = s[Nth(S, k)] /\ Nth(S, k) \in S
      /\ \A i \in S : \E k \in 1 .. c : Nth(S, k) = i
      /\ \A k, j \in 1 .. c : Nth(S, k) = Nth(S, j) => k = j
      /\ \A k, j \in 1 .. c : k < j => Nth(S, k) < Nth(S, j)
  BY KeptIs
<1> HIDE DEF t, c
<1>2. Len(d) = l /\ DOMAIN d = 1 .. l /\ \A k \in 1 .. l : d[k] = t[k]
  <2>1. d = Take(t, m)
    OBVIOUS
  <2> HIDE DEF d
  <2>2. c \in Nat /\ m \in Nat /\ Len(t) = c
    BY <1>1
  <2>3. Len(d) = l /\ DOMAIN d = 1 .. l
    BY ONLY <2>1, <2>2, Sliced
  <2>4. \A k \in 1 .. l : d[k] = t[k]
    BY ONLY <2>1, <2>2, Sliced
  <2>5. QED
    BY <2>3, <2>4
<1> HIDE DEF d
<1>3. l \in Nat /\ \A k \in 1 .. l : k \in 1 .. c
  BY <1>1
<1>4. \A k \in 1 .. l : k \in 1 .. c /\ Nth(S, k) \in S /\ d[k] = s[Nth(S, k)]
  BY <1>1, <1>2, <1>3
<1>5. \A k, j \in 1 .. l : k <= j => Nth(S, k) <= Nth(S, j)
  <2>1. ASSUME NEW k \in 1 .. l, NEW j \in 1 .. l, k <= j PROVE Nth(S, k) <= Nth(S, j)
    <3>1. k < j \/ k = j
      BY <1>3, <2>1
    <3>2. Nth(S, k) \in Int /\ Nth(S, j) \in Int
      <4>1. \A i \in S : i \in Int
        OBVIOUS
      <4>2. QED
        BY <1>4, <4>1
    <3>3. QED
      BY <1>1, <1>3, <3>1, <3>2
  <2>2. QED
    BY <2>1
<1>6. ASSUME NEW i \in S
      PROVE  (\E k \in 1 .. l : Nth(S, k) = i) \/ (l = m /\ \A k \in 1 .. l : Nth(S, k) < i)
  <2>1. PICK p \in 1 .. c : Nth(S, p) = i
    BY <1>1
  <2>2. CASE p \in 1 .. l
    BY <2>1, <2>2
  <2>3. CASE p \notin 1 .. l
    <3>1. l = m /\ \A k \in 1 .. l : k < p
      BY <1>1, <2>3
    <3>2. QED
      BY <1>1, <1>3, <2>1, <3>1
  <2>4. QED
    BY <2>2, <2>3
<1> HIDE DEF l
<1>7. /\ l \in Nat /\ c \in Nat /\ Len(d) = l /\ DOMAIN d = 1 .. l
      /\ \A k \in 1 .. l : k \in 1 .. c /\ Nth(S, k) \in S /\ d[k] = s[Nth(S, k)]
      /\ \A k, j \in 1 .. l : k <= j => Nth(S, k) <= Nth(S, j)
      /\ \A i \in S : \/ \E k \in 1 .. l : Nth(S, k) = i
                      \/ l = m /\ \A k \in 1 .. l : Nth(S, k) < i
  BY <1>1, <1>2, <1>3, <1>4, <1>5, <1>6
<1>8. QED
  BY <1>7 DEF l, d, c, t

\* Whom to drop: one of the least.
WeakestByPoints(mine) == Weakest(mine, PointsOrDefault)
WeakestByValue(mine) == Weakest(mine, LAMBDA p : p.value)

LEMMA WeakestIs ==
  ASSUME NEW mine \in Seq(Prospect), None \notin Prospect
  PROVE  /\ mine = <<>> => WeakestByPoints(mine) = None /\ WeakestByValue(mine) = None
         /\ mine # <<>> =>
              /\ WeakestByPoints(mine) \in ToSet(mine)
              /\ \A p \in ToSet(mine) : PointsOrDefault(WeakestByPoints(mine)) <= PointsOrDefault(p)
              /\ WeakestByValue(mine) \in ToSet(mine)
              /\ \A p \in ToSet(mine) : WeakestByValue(mine).value <= p.value
         /\ \A p \in ToSet(mine) : p \in Prospect /\ p # None
<1> DEFINE n == Len(mine)
<1>1. n \in Nat /\ DOMAIN mine = 1 .. n /\ (\A i \in 1 .. n : mine[i] \in Prospect) /\ (mine = <<>> <=> n = 0)
  BY ProspectsAre
<1>2. ToSet(mine) = {mine[i] : i \in 1 .. n}
  BY <1>1 DEF ToSet
<1>3. mine = <<>> => WeakestByPoints(mine) = None /\ WeakestByValue(mine) = None
  BY DEF WeakestByPoints, WeakestByValue, Weakest
<1>4. \A p \in ToSet(mine) : p \in Prospect /\ p # None
  BY <1>1, <1>2
<1> HIDE DEF n
<1>5. ASSUME mine # <<>>
      PROVE  /\ WeakestByPoints(mine) \in ToSet(mine)
             /\ \A p \in ToSet(mine) : PointsOrDefault(WeakestByPoints(mine)) <= PointsOrDefault(p)
  <2> DEFINE key == [i \in DOMAIN mine |-> -PointsOrDefault(mine[i])]
             t == [k \in DOMAIN mine |-> mine[Ranked(key)[k]]]
             r == Ranked(key)
  <2>1. WeakestByPoints(mine) = t[1]
    BY <1>5 DEF WeakestByPoints, Weakest, Ascending, Descending
  <2>2. DOMAIN key = 1 .. n /\ \A i \in 1 .. n : key[i] = -PointsOrDefault(mine[i]) /\ key[i] \in Int
    <3>1. \A i \in 1 .. n : PointsOrDefault(mine[i]) \in Int
      BY <1>1, ProspectIs
    <3>2. QED
      BY <1>1, <3>1
  <2>3. t = [k \in 1 .. n |-> mine[Ranked(key)[k]]]
    BY <1>1
  <2> HIDE DEF key, t
  <2>4. Arranged(t, mine, key, n)
    BY <1>1, <2>2, <2>3 DEF Arranged
  <2>5. /\ \A i \in 1 .. n : r[i] \in 1 .. n /\ t[i] = mine[r[i]]
        /\ \A i \in 1 .. n : \E k \in 1 .. n : r[k] = i
        /\ \A i, j \in 1 .. n : i <= j => key[r[i]] >= key[r[j]]
    BY ONLY <1>1, <2>4, OrderedIs
  <2>6. 1 \in 1 .. n /\ \A i \in 1 .. n : 1 <= i
    BY <1>1, <1>5
  <2> HIDE DEF r
  <2>7. ASSUME NEW i \in 1 .. n PROVE PointsOrDefault(t[1]) <= PointsOrDefault(mine[i])
    <3>1. PICK k \in 1 .. n : r[k] = i
      BY <2>5
    <3>2. key[r[1]] >= key[i] /\ r[1] \in 1 .. n /\ t[1] = mine[r[1]]
      BY <2>5, <2>6, <3>1
    <3>3. PointsOrDefault(mine[r[1]]) \in Int /\ PointsOrDefault(mine[i]) \in Int
      BY <1>1, <3>2, ProspectIs
    <3>4. QED
      BY <2>2, <3>2, <3>3
  <2>8. r[1] \in 1 .. n /\ t[1] = mine[r[1]]
    BY <2>5, <2>6
  <2>9. t[1] \in ToSet(mine)
    BY <1>2, <2>8
  <2>10. QED
    BY <1>2, <2>1, <2>7, <2>9
<1>6. ASSUME mine # <<>>
      PROVE  /\ WeakestByValue(mine) \in ToSet(mine)
             /\ \A p \in ToSet(mine) : WeakestByValue(mine).value <= p.value
  <2> DEFINE key == [i \in DOMAIN mine |-> -mine[i].value]
             t == [k \in DOMAIN mine |-> mine[Ranked(key)[k]]]
             r == Ranked(key)
  <2>1. WeakestByValue(mine) = t[1]
    BY <1>6 DEF WeakestByValue, Weakest, Ascending, Descending
  <2>2. DOMAIN key = 1 .. n /\ \A i \in 1 .. n : key[i] = -mine[i].value /\ key[i] \in Int
    <3>1. \A i \in 1 .. n : mine[i].value \in Int
      BY <1>1, ProspectIs
    <3>2. QED
      BY <1>1, <3>1
  <2>3. t = [k \in 1 .. n |-> mine[Ranked(key)[k]]]
    BY <1>1
  <2> HIDE DEF key, t
  <2>4. Arranged(t, mine, key, n)
    BY <1>1, <2>2, <2>3 DEF Arranged
  <2>5. /\ \A i \in 1 .. n : r[i] \in 1 .. n /\ t[i] = mine[r[i]]
        /\ \A i \in 1 .. n : \E k \in 1 .. n : r[k] = i
        /\ \A i, j \in 1 .. n : i <= j => key[r[i]] >= key[r[j]]
    BY ONLY <1>1, <2>4, OrderedIs
  <2>6. 1 \in 1 .. n /\ \A i \in 1 .. n : 1 <= i
    BY <1>1, <1>6
  <2> HIDE DEF r
  <2>7. ASSUME NEW i \in 1 .. n PROVE t[1].value <= mine[i].value
    <3>1. PICK k \in 1 .. n : r[k] = i
      BY <2>5
    <3>2. key[r[1]] >= key[i] /\ r[1] \in 1 .. n /\ t[1] = mine[r[1]]
      BY <2>5, <2>6, <3>1
    <3>3. mine[r[1]].value \in Int /\ mine[i].value \in Int
      BY <1>1, <3>2, ProspectIs
    <3>4. QED
      BY <2>2, <3>2, <3>3
  <2>8. r[1] \in 1 .. n /\ t[1] = mine[r[1]]
    BY <2>5, <2>6
  <2>9. t[1] \in ToSet(mine)
    BY <1>2, <2>8
  <2>10. QED
    BY <1>2, <2>1, <2>7, <2>9
<1>7. QED
  BY <1>3, <1>4, <1>5, <1>6

\* Whom the position has to offer, and where he is among the free agents.
Fits(mine, p) == ~p.out /\ \A i \in DOMAIN mine : mine[i].id # p.id
Strangers(mine, agents) == {k \in DOMAIN agents : \A i \in DOMAIN mine : mine[i].id # agents[k].id}
Healthy(agents) == {k \in DOMAIN agents : ~agents[k].out}
FitAgents(mine, agents) == Fit(Unrostered(mine, agents))
Place(mine, agents, k) == Nth(Strangers(mine, agents), Nth(Healthy(Unrostered(mine, agents)), k))

LEMMA StrangersAre ==
  ASSUME NEW mine, NEW agents \in Seq(Prospect)
  PROVE  LET U == Unrostered(mine, agents)
             S == Strangers(mine, agents)
             c == Cardinality(S)
         IN  /\ c \in Nat /\ Len(U) = c /\ DOMAIN U = 1 .. c
             /\ \A k \in 1 .. c : /\ U[k] = agents[Nth(S, k)] /\ Nth(S, k) \in S
                                  /\ Nth(S, k) \in 1 .. Len(agents) /\ U[k] \in Prospect
             /\ \A i \in S : \E k \in 1 .. c : Nth(S, k) = i
             /\ \A k, l \in 1 .. c : Nth(S, k) = Nth(S, l) => k = l
<1> DEFINE U == Unrostered(mine, agents)
           S == Strangers(mine, agents)
           c == Cardinality(S)
           n == Len(agents)
<1>1. n \in Nat /\ DOMAIN agents = 1 .. n /\ \A i \in 1 .. n : agents[i] \in Prospect
  BY ProspectsAre
<1>2. S \in SUBSET (1 .. n) /\ U = Kept(agents, S)
  BY <1>1 DEF Strangers, Unrostered
<1> HIDE DEF S, U, n
<1>3. /\ c \in Nat /\ Len(U) = c /\ DOMAIN U = 1 .. c
      /\ \A k \in 1 .. c : U[k] = agents[Nth(S, k)] /\ Nth(S, k) \in S
      /\ \A i \in S : \E k \in 1 .. c : Nth(S, k) = i
      /\ \A k, l \in 1 .. c : Nth(S, k) = Nth(S, l) => k = l
  BY <1>1, <1>2, KeptIs
<1>4. \A k \in 1 .. c : Nth(S, k) \in 1 .. n /\ U[k] \in Prospect
  BY <1>1, <1>2, <1>3
<1>5. QED
  BY <1>3, <1>4 DEF S, U, n

LEMMA FitAre ==
  ASSUME NEW mine, NEW agents \in Seq(Prospect)
  PROVE  LET F == FitAgents(mine, agents)
             f == Len(F)
         IN  /\ f \in Nat /\ DOMAIN F = 1 .. f
             /\ \A k \in 1 .. f : LET i == Place(mine, agents, k)
                                  IN  /\ i \in DOMAIN agents /\ F[k] = agents[i]
                                      /\ Fits(mine, F[k]) /\ F[k] \in Prospect
             /\ \A k, l \in 1 .. f : Place(mine, agents, k) = Place(mine, agents, l) => k = l
             /\ \A i \in DOMAIN agents :
                  Fits(mine, agents[i]) => \E k \in 1 .. f : Place(mine, agents, k) = i
<1> DEFINE U == Unrostered(mine, agents)
           S == Strangers(mine, agents)
           c == Cardinality(S)
           H == Healthy(U)
           f == Cardinality(H)
           F == FitAgents(mine, agents)
           P(k) == Place(mine, agents, k)
<1>0. DOMAIN agents = 1 .. Len(agents)
  BY ProspectsAre
<1>1. /\ c \in Nat /\ Len(U) = c /\ DOMAIN U = 1 .. c
      /\ \A k \in 1 .. c : /\ U[k] = agents[Nth(S, k)] /\ Nth(S, k) \in S
                           /\ Nth(S, k) \in 1 .. Len(agents) /\ U[k] \in Prospect
      /\ \A i \in S : \E k \in 1 .. c : Nth(S, k) = i
      /\ \A k, l \in 1 .. c : Nth(S, k) = Nth(S, l) => k = l
  BY StrangersAre
<1>2. F = Kept(U, H)
  BY DEF FitAgents, Fit, Healthy
<1>3. \A k : P(k) = Nth(S, Nth(H, k))
  BY DEF Place
<1>4. \A i \in DOMAIN agents : Fits(mine, agents[i]) <=> i \in S /\ ~agents[i].out
  BY DEF Strangers, Fits
<1>5. H \in SUBSET (1 .. c) /\ \A k \in H : ~U[k].out
  BY <1>1 DEF Healthy
<1>6. \A k \in 1 .. c : ~U[k].out => k \in H
  BY <1>1 DEF Healthy
<1> HIDE DEF U, S, c, H, F, P
<1>7. /\ f \in Nat /\ Len(F) = f /\ DOMAIN F = 1 .. f
      /\ \A k \in 1 .. f : F[k] = U[Nth(H, k)] /\ Nth(H, k) \in H
      /\ \A i \in H : \E k \in 1 .. f : Nth(H, k) = i
      /\ \A k, l \in 1 .. f : Nth(H, k) = Nth(H, l) => k = l
  BY <1>1, <1>2, <1>5, KeptIs
<1> HIDE DEF f
<1>8. ASSUME NEW k \in 1 .. f
      PROVE  P(k) \in DOMAIN agents /\ F[k] = agents[P(k)] /\ Fits(mine, F[k]) /\ F[k] \in Prospect
  <2>1. Nth(H, k) \in 1 .. c /\ ~U[Nth(H, k)].out /\ F[k] = U[Nth(H, k)]
    BY <1>5, <1>7
  <2>2. /\ U[Nth(H, k)] = agents[P(k)] /\ P(k) \in S /\ P(k) \in 1 .. Len(agents)
        /\ U[Nth(H, k)] \in Prospect
    BY <1>1, <1>3, <2>1
  <2>3. QED
    BY <1>0, <1>4, <2>1, <2>2
<1>9. ASSUME NEW k \in 1 .. f, NEW l \in 1 .. f, P(k) = P(l) PROVE k = l
  <2>1. Nth(H, k) \in 1 .. c /\ Nth(H, l) \in 1 .. c
    BY <1>5, <1>7
  <2>2. Nth(H, k) = Nth(H, l)
    BY <1>1, <1>3, <1>9, <2>1
  <2>3. QED
    BY <1>7, <2>2
<1>10. ASSUME NEW i \in DOMAIN agents, Fits(mine, agents[i]) PROVE \E k \in 1 .. f : P(k) = i
  <2>1. i \in S /\ ~agents[i].out
    BY <1>4, <1>10
  <2>2. PICK l \in 1 .. c : Nth(S, l) = i
    BY <1>1, <2>1
  <2>3. l \in H
    BY <1>1, <1>6, <2>1, <2>2
  <2>4. PICK k \in 1 .. f : Nth(H, k) = l
    BY <1>7, <2>3
  <2>5. QED
    BY <1>3, <2>2, <2>4
<1>11. /\ Len(F) = f /\ f \in Nat /\ DOMAIN F = 1 .. f
       /\ \A k \in 1 .. f : P(k) \in DOMAIN agents /\ F[k] = agents[P(k)] /\ Fits(mine, F[k]) /\ F[k] \in Prospect
       /\ \A k, l \in 1 .. f : P(k) = P(l) => k = l
       /\ \A i \in DOMAIN agents : Fits(mine, agents[i]) => \E k \in 1 .. f : P(k) = i
  BY <1>7, <1>8, <1>9, <1>10
<1>12. QED
  BY <1>11 DEF F, P

\* The pool: whoever is left out of it gives way to as many others as it holds,
\* none of whom looks worse.
WeekPool(mine, agents) == Pool(FitAgents(mine, agents), PointsOrDefault)
NoWorseThan(mine, agents, i) ==
  {j \in DOMAIN agents \ {i} :
     Fits(mine, agents[j]) /\ PointsOrDefault(agents[j]) >= PointsOrDefault(agents[i])}

LEMMA PoolIs ==
  ASSUME ReportAssumption, NEW mine, NEW agents \in Seq(Prospect)
  PROVE  LET pool == WeekPool(mine, agents)
             n == Len(pool)
         IN  /\ n \in Nat /\ DOMAIN pool = 1 .. n
             /\ \A k \in 1 .. n : pool[k] \in Prospect
             /\ \A i \in DOMAIN agents : Fits(mine, agents[i]) =>
                  \/ \E k \in 1 .. n : pool[k] = agents[i]
                  \/ Cardinality(NoWorseThan(mine, agents, i)) >= 3 * TopN
<1> DEFINE F == FitAgents(mine, agents)
           f == Len(F)
           P(k) == Place(mine, agents, k)
           key == [k \in DOMAIN F |-> PointsOrDefault(F[k])]
           t == Descending(F, PointsOrDefault)
           m == 3 * TopN
           l == IF m <= f THEN m ELSE f
           pool == WeekPool(mine, agents)
           r == Ranked(key)
<1>0. m \in Nat /\ DOMAIN agents = 1 .. Len(agents) /\ Len(agents) \in Nat
  BY ProspectsAre DEF ReportAssumption
<1>1. /\ f \in Nat /\ DOMAIN F = 1 .. f
      /\ \A k \in 1 .. f : P(k) \in DOMAIN agents /\ F[k] = agents[P(k)] /\ Fits(mine, F[k]) /\ F[k] \in Prospect
      /\ \A k, j \in 1 .. f : P(k) = P(j) => k = j
      /\ \A i \in DOMAIN agents : Fits(mine, agents[i]) => \E k \in 1 .. f : P(k) = i
  BY FitAre
<1>2. t = [k \in DOMAIN F |-> F[Ranked(key)[k]]]
  BY DEF Descending
<1>3. pool = Take(t, m)
  BY DEF WeekPool, Pool
<1> HIDE DEF F, f, P, t, pool, m
<1>4. DOMAIN key = 1 .. f /\ \A k \in 1 .. f : key[k] = PointsOrDefault(F[k]) /\ key[k] \in Int
  BY <1>1, ProspectIs
<1>5. t = [k \in 1 .. f |-> F[Ranked(key)[k]]]
  BY <1>1, <1>2
<1> HIDE DEF key
<1>6. Arranged(t, F, key, f)
  BY <1>1, <1>4, <1>5 DEF Arranged
<1>7. /\ Len(pool) = l /\ DOMAIN pool = 1 .. l
      /\ \A k \in 1 .. l : k \in 1 .. f /\ r[k] \in 1 .. f /\ pool[k] = F[r[k]]
      /\ \A k, j \in 1 .. l : r[k] = r[j] => k = j
      /\ \A i \in 1 .. f : \/ \E k \in 1 .. l : r[k] = i
                           \/ l = m /\ \A k \in 1 .. l : key[r[k]] >= key[i]
  <2>1. f \in Nat /\ m \in Nat
    BY <1>0, <1>1
  <2>2. Len(pool) = l /\ DOMAIN pool = 1 .. l
    BY ONLY <1>3, <1>6, <2>1, TopIs
  <2>3. \A k \in 1 .. l : k \in 1 .. f /\ r[k] \in 1 .. f
    BY ONLY <1>6, <2>1, TopIs
  <2>4. \A k \in 1 .. l : pool[k] = F[r[k]]
    BY ONLY <1>3, <1>6, <2>1, TopIs
  <2>5. \A k, j \in 1 .. l : r[k] = r[j] => k = j
    BY ONLY <1>6, <2>1, TopIs
  <2>6. \A i \in 1 .. f : \/ \E k \in 1 .. l : r[k] = i
                          \/ l = m /\ \A k \in 1 .. l : key[r[k]] >= key[i]
    BY ONLY <1>6, <2>1, TopIs
  <2>7. QED
    BY ONLY <2>2, <2>3, <2>4, <2>5, <2>6
<1>8. l \in Nat
  BY <1>0, <1>1
<1> HIDE DEF l, r
<1>9. ASSUME NEW i \in DOMAIN agents, Fits(mine, agents[i])
      PROVE  \/ \E k \in 1 .. l : pool[k] = agents[i]
             \/ Cardinality(NoWorseThan(mine, agents, i)) >= m
  <2>1. PICK g \in 1 .. f : P(g) = i
    BY <1>1, <1>9
  <2>2. CASE \E k \in 1 .. l : r[k] = g
    BY <1>1, <1>7, <2>1, <2>2
  <2>3. CASE /\ ~\E k \in 1 .. l : r[k] = g
             /\ l = m /\ \A k \in 1 .. l : key[r[k]] >= key[g]
    <3> DEFINE Q == 1 .. l
               e == [k \in Q |-> P(r[k])]
               N == NoWorseThan(mine, agents, i)
               I == {e[k] : k \in Q}
    <3>1. ASSUME NEW k \in Q PROVE e[k] \in N
      <4>1. r[k] \in 1 .. f /\ r[k] # g
        BY <1>7, <2>3
      <4>2. e[k] \in DOMAIN agents /\ e[k] # i /\ F[r[k]] = agents[e[k]] /\ Fits(mine, agents[e[k]])
        BY <1>1, <2>1, <4>1
      <4>3. key[r[k]] = PointsOrDefault(agents[e[k]]) /\ key[g] = PointsOrDefault(agents[i])
        BY <1>1, <1>4, <2>1, <4>1, <4>2
      <4>4. PointsOrDefault(agents[e[k]]) >= PointsOrDefault(agents[i])
        BY <2>3, <4>3
      <4> HIDE DEF e
      <4>5. QED
        BY <4>2, <4>4 DEF NoWorseThan
    <3>2. ASSUME NEW k \in Q, NEW j \in Q, e[k] = e[j] PROVE k = j
      <4>1. r[k] \in 1 .. f /\ r[j] \in 1 .. f /\ P(r[k]) = P(r[j])
        BY <1>7, <3>2
      <4>2. r[k] = r[j]
        BY <1>1, <4>1
      <4>3. QED
        BY <1>7, <4>2
    <3>3. IsFiniteSet(Q) /\ Cardinality(Q) = m
      BY <1>8, <2>3, Spaces
    <3>4. IsFiniteSet(N)
      <4>1. N \in SUBSET (1 .. Len(agents)) /\ IsFiniteSet(1 .. Len(agents))
        BY <1>0, Spaces DEF NoWorseThan
      <4>2. QED
        BY <4>1, FS_Subset
    <3> HIDE DEF Q, e, N
    <3>5. Cardinality(I) = m
      BY <3>2, <3>3, SameSize
    <3>6. I \in SUBSET N
      BY <3>1
    <3> HIDE DEF I
    <3>7. Cardinality(I) <= Cardinality(N) /\ Cardinality(N) \in Nat
      BY <3>4, <3>6, FS_Subset, FS_CardinalityType
    <3>8. QED
      BY <1>0, <3>5, <3>7 DEF N
  <2>4. QED
    BY <1>7, <2>2, <2>3
<1>10. \A k \in 1 .. l : pool[k] \in Prospect
  BY <1>1, <1>7
<1>11. /\ Len(pool) = l /\ l \in Nat /\ DOMAIN pool = 1 .. l
       /\ \A k \in 1 .. l : pool[k] \in Prospect
       /\ \A i \in DOMAIN agents : Fits(mine, agents[i]) =>
            \/ \E k \in 1 .. l : pool[k] = agents[i]
            \/ Cardinality(NoWorseThan(mine, agents, i)) >= m
  BY <1>7, <1>8, <1>9, <1>10
<1>12. QED
  BY <1>11 DEF pool, m

\* The best of the pool that beat the player to drop.
WeekBest(mine, agents) ==
  Upgrades(Descending(WeekPool(mine, agents), AdjustedValue), WeakestByPoints(mine), AdjustedValue)

LEMMA BestOfWeek ==
  ASSUME ReportAssumption, NEW mine \in Seq(Prospect), NEW agents \in Seq(Prospect), None \notin Prospect
  PROVE  LET best == WeekBest(mine, agents)
             n == Len(best)
             w == WeakestByPoints(mine)
         IN  /\ n \in Nat /\ DOMAIN best = 1 .. n
             /\ \A k \in 1 .. n : best[k] \in Prospect
             /\ \A j, k \in 1 .. n : j <= k => AdjustedValue(best[j]) >= AdjustedValue(best[k])
             /\ \A i \in DOMAIN agents : Fits(mine, agents[i]) =>
                  \/ \E k \in 1 .. n : best[k] = agents[i]
                  \/ w # None /\ AdjustedValue(agents[i]) <= AdjustedValue(w)
                  \/ n = TopN /\ \A k \in 1 .. n : AdjustedValue(best[k]) >= AdjustedValue(agents[i])
                  \/ Cardinality(NoWorseThan(mine, agents, i)) >= 3 * TopN
<1> DEFINE pool == WeekPool(mine, agents)
           p == Len(pool)
           key == [k \in DOMAIN pool |-> AdjustedValue(pool[k])]
           r == Ranked(key)
           ranked == Descending(pool, AdjustedValue)
           w == WeakestByPoints(mine)
           K == {k \in DOMAIN ranked : w = None \/ AdjustedValue(ranked[k]) > AdjustedValue(w)}
           best == WeekBest(mine, agents)
           c == Cardinality(K)
           l == IF TopN <= c THEN TopN ELSE c
<1>0. TopN \in Nat
  BY DEF ReportAssumption
<1>1. /\ p \in Nat /\ DOMAIN pool = 1 .. p
      /\ \A k \in 1 .. p : pool[k] \in Prospect
      /\ \A i \in DOMAIN agents : Fits(mine, agents[i]) =>
           \/ \E k \in 1 .. p : pool[k] = agents[i]
           \/ Cardinality(NoWorseThan(mine, agents, i)) >= 3 * TopN
  BY PoolIs
<1>2. ranked = [k \in DOMAIN pool |-> pool[Ranked(key)[k]]]
  BY DEF Descending
<1>3. best = Take(Kept(ranked, K), TopN)
  BY DEF WeekBest, Upgrades
<1> HIDE DEF pool, p, ranked, best
<1>4. DOMAIN key = 1 .. p /\ \A k \in 1 .. p : key[k] = AdjustedValue(pool[k]) /\ key[k] \in Int
  BY <1>1, ProspectIs
<1>5. ranked = [k \in 1 .. p |-> pool[Ranked(key)[k]]]
  BY <1>1, <1>2
<1> HIDE DEF key
<1>6. Arranged(ranked, pool, key, p)
  BY <1>1, <1>4, <1>5 DEF Arranged
<1>7. /\ DOMAIN ranked = 1 .. p
      /\ \A k \in 1 .. p : r[k] \in 1 .. p /\ ranked[k] = pool[r[k]]
      /\ \A i \in 1 .. p : \E k \in 1 .. p : r[k] = i
      /\ \A i, j \in 1 .. p : i <= j => key[r[i]] >= key[r[j]]
  BY ONLY <1>1, <1>6, OrderedIs
<1> HIDE DEF r
<1>8. /\ \A k \in 1 .. p : ranked[k] \in Prospect /\ AdjustedValue(ranked[k]) \in Int
                           /\ key[r[k]] = AdjustedValue(ranked[k])
      /\ \A i, j \in 1 .. p : i <= j => AdjustedValue(ranked[i]) >= AdjustedValue(ranked[j])
  <2>1. \A k \in 1 .. p : ranked[k] \in Prospect /\ key[r[k]] = AdjustedValue(ranked[k])
    BY <1>1, <1>4, <1>7
  <2>2. \A k \in 1 .. p : AdjustedValue(ranked[k]) \in Int
    BY <2>1, ProspectIs
  <2>3. \A i, j \in 1 .. p : i <= j => AdjustedValue(ranked[i]) >= AdjustedValue(ranked[j])
    BY <1>7, <2>1
  <2>4. QED
    BY <2>1, <2>2, <2>3
<1>9. /\ K \in SUBSET (1 .. p)
      /\ \A k \in 1 .. p : k \in K <=> w = None \/ AdjustedValue(ranked[k]) > AdjustedValue(w)
  BY <1>7
<1>10. w # None => AdjustedValue(w) \in Int
  <2>1. w # None => w \in Prospect
    BY WeakestIs
  <2>2. QED
    BY <2>1, ProspectIs
<1> HIDE DEF K, w
<1>11. /\ l \in Nat /\ c \in Nat /\ Len(best) = l /\ DOMAIN best = 1 .. l
       /\ \A k \in 1 .. l : k \in 1 .. c /\ Nth(K, k) \in K /\ best[k] = ranked[Nth(K, k)]
       /\ \A k, j \in 1 .. l : k <= j => Nth(K, k) <= Nth(K, j)
       /\ \A i \in K : \/ \E k \in 1 .. l : Nth(K, k) = i
                       \/ l = TopN /\ \A k \in 1 .. l : Nth(K, k) < i
  <2>1. p \in Nat /\ DOMAIN ranked = 1 .. p /\ K \in SUBSET (1 .. p) /\ TopN \in Nat
    BY <1>0, <1>1, <1>7, <1>9
  <2>2. l \in Nat /\ c \in Nat
    BY ONLY <2>1, FirstKept
  <2>3. Len(best) = l /\ DOMAIN best = 1 .. l
    BY ONLY <1>3, <2>1, FirstKept
  <2>4. \A k \in 1 .. l : k \in 1 .. c /\ Nth(K, k) \in K
    BY ONLY <2>1, FirstKept
  <2>5. \A k \in 1 .. l : best[k] = ranked[Nth(K, k)]
    BY ONLY <1>3, <2>1, FirstKept
  <2>6. \A k, j \in 1 .. l : k <= j => Nth(K, k) <= Nth(K, j)
    BY ONLY <2>1, FirstKept
  <2>7. \A i \in K : \/ \E k \in 1 .. l : Nth(K, k) = i
                     \/ l = TopN /\ \A k \in 1 .. l : Nth(K, k) < i
    BY ONLY <2>1, FirstKept
  <2>8. QED
    BY ONLY <2>2, <2>3, <2>4, <2>5, <2>6, <2>7
<1> HIDE DEF c, l
<1>12. \A k \in 1 .. l : Nth(K, k) \in 1 .. p
  BY <1>9, <1>11
<1>13. \A k \in 1 .. l : best[k] \in Prospect
  BY <1>8, <1>11, <1>12
<1>14. ASSUME NEW j \in 1 .. l, NEW k \in 1 .. l, j <= k
       PROVE  AdjustedValue(best[j]) >= AdjustedValue(best[k])
  <2>1. Nth(K, j) \in 1 .. p /\ Nth(K, k) \in 1 .. p /\ Nth(K, j) <= Nth(K, k)
    BY <1>11, <1>12, <1>14
  <2>2. best[j] = ranked[Nth(K, j)] /\ best[k] = ranked[Nth(K, k)]
    BY <1>11
  <2>3. QED
    BY <1>8, <2>1, <2>2
<1>15. ASSUME NEW i \in DOMAIN agents, Fits(mine, agents[i]), NEW g \in 1 .. p, pool[g] = agents[i]
       PROVE  \/ \E k \in 1 .. l : best[k] = agents[i]
              \/ w # None /\ AdjustedValue(agents[i]) <= AdjustedValue(w)
              \/ l = TopN /\ \A k \in 1 .. l : AdjustedValue(best[k]) >= AdjustedValue(agents[i])
  <2>1. PICK h \in 1 .. p : r[h] = g
    BY <1>7
  <2>2. ranked[h] = agents[i]
    BY <1>7, <1>15, <2>1
  <2>3. CASE h \notin K
    <3>1. w # None /\ ~(AdjustedValue(ranked[h]) > AdjustedValue(w))
      BY <1>9, <2>3
    <3>2. AdjustedValue(ranked[h]) \in Int /\ AdjustedValue(w) \in Int
      BY <1>8, <1>10, <3>1
    <3>3. QED
      BY <2>2, <3>1, <3>2
  <2>4. CASE \E k \in 1 .. l : Nth(K, k) = h
    BY <1>11, <2>2, <2>4
  <2>5. CASE l = TopN /\ \A k \in 1 .. l : Nth(K, k) < h
    <3>1. ASSUME NEW k \in 1 .. l PROVE AdjustedValue(best[k]) >= AdjustedValue(agents[i])
      <4>1. Nth(K, k) \in 1 .. p /\ Nth(K, k) <= h /\ best[k] = ranked[Nth(K, k)]
        BY <1>11, <1>12, <2>5
      <4>2. QED
        BY <1>8, <2>2, <4>1
    <3>2. QED
      BY <2>5, <3>1
  <2>6. QED
    BY <1>11, <2>3, <2>4, <2>5
<1>16. ASSUME NEW i \in DOMAIN agents, Fits(mine, agents[i])
       PROVE  \/ \E k \in 1 .. l : best[k] = agents[i]
              \/ w # None /\ AdjustedValue(agents[i]) <= AdjustedValue(w)
              \/ l = TopN /\ \A k \in 1 .. l : AdjustedValue(best[k]) >= AdjustedValue(agents[i])
              \/ Cardinality(NoWorseThan(mine, agents, i)) >= 3 * TopN
  <2>1. CASE \E k \in 1 .. p : pool[k] = agents[i]
    BY <1>15, <1>16, <2>1
  <2>2. QED
    BY <1>1, <1>16, <2>1
<1>17. /\ Len(best) = l /\ l \in Nat /\ DOMAIN best = 1 .. l
       /\ \A k \in 1 .. l : best[k] \in Prospect
       /\ \A j, k \in 1 .. l : j <= k => AdjustedValue(best[j]) >= AdjustedValue(best[k])
       /\ \A i \in DOMAIN agents : Fits(mine, agents[i]) =>
            \/ \E k \in 1 .. l : best[k] = agents[i]
            \/ w # None /\ AdjustedValue(agents[i]) <= AdjustedValue(w)
            \/ l = TopN /\ \A k \in 1 .. l : AdjustedValue(best[k]) >= AdjustedValue(agents[i])
            \/ Cardinality(NoWorseThan(mine, agents, i)) >= 3 * TopN
  BY <1>11, <1>13, <1>14, <1>16
<1>18. QED
  BY <1>17 DEF best, w

\* The rows of this week, from whom they add.
Baseline(mine) == IF WeakestByPoints(mine) = None THEN 0 ELSE AdjustedValue(WeakestByPoints(mine))
UpgradeBy(mine, p) == RoundDiv(AdjustedValue(p) - Baseline(mine), 1000)

LEMMA WeekIs ==
  ASSUME NEW mine, NEW agents, NEW context
  PROVE  LET week_ == ThisWeek(mine, agents, context)
             best == WeekBest(mine, agents)
         IN  /\ DOMAIN week_ = DOMAIN best
             /\ \A k \in DOMAIN best :
                  /\ week_[k].add = best[k] /\ week_[k].upgrade = UpgradeBy(mine, best[k])
                  /\ week_[k].bid = SuggestedBid(UpgradeBy(mine, best[k]), context)
<1> DEFINE best == WeekBest(mine, agents)
           week_ == ThisWeek(mine, agents, context)
<1>1. week_ = [k \in DOMAIN best |->
                [add |-> best[k], drop |-> WeakestByPoints(mine), upgrade |-> UpgradeBy(mine, best[k]),
                 bid |-> SuggestedBid(UpgradeBy(mine, best[k]), context)]]
  BY DEF ThisWeek, WeekBest, WeekPool, FitAgents, WeakestByPoints, UpgradeBy, Baseline
<1> HIDE DEF week_, best
<1>2. /\ DOMAIN week_ = DOMAIN best
      /\ \A k \in DOMAIN best :
           /\ week_[k].add = best[k] /\ week_[k].upgrade = UpgradeBy(mine, best[k])
           /\ week_[k].bid = SuggestedBid(UpgradeBy(mine, best[k]), context)
  BY <1>1
<1>3. QED
  BY <1>2 DEF week_, best

LEMMA NobodyIsPassedOver ==
  ASSUME ReportAssumption, NEW mine \in Seq(Prospect), NEW agents \in Seq(Prospect), None \notin Prospect,
         NEW context
  PROVE  NobodyPassedOver(mine, agents, ThisWeek(mine, agents, context))
<1> DEFINE best == WeekBest(mine, agents)
           n == Len(best)
           w == WeakestByPoints(mine)
           rows == ThisWeek(mine, agents, context)
           Weak == {m \in ToSet(mine) : \A p \in ToSet(mine) : PointsOrDefault(m) <= PointsOrDefault(p)}
           Listing == {rows[k].add.id : k \in DOMAIN rows}
           Better(i) == {k \in DOMAIN rows : AdjustedValue(rows[k].add) >= AdjustedValue(agents[i])}
<1>1. /\ n \in Nat /\ DOMAIN best = 1 .. n
      /\ \A i \in DOMAIN agents : Fits(mine, agents[i]) =>
           \/ \E k \in 1 .. n : best[k] = agents[i]
           \/ w # None /\ AdjustedValue(agents[i]) <= AdjustedValue(w)
           \/ n = TopN /\ \A k \in 1 .. n : AdjustedValue(best[k]) >= AdjustedValue(agents[i])
           \/ Cardinality(NoWorseThan(mine, agents, i)) >= 3 * TopN
  BY BestOfWeek
<1>2. w # None => w \in Weak
  BY WeakestIs
<1>3. DOMAIN rows = 1 .. n /\ \A k \in 1 .. n : rows[k].add = best[k]
  <2>1. DOMAIN best = 1 .. n
    BY <1>1
  <2>2. QED
    BY ONLY <2>1, WeekIs
<1> HIDE DEF best, n, w, rows, Weak
<1>4. ASSUME NEW i \in DOMAIN agents, Fits(mine, agents[i]), agents[i].id \notin Listing
      PROVE  \/ \E m \in Weak : AdjustedValue(agents[i]) <= AdjustedValue(m)
             \/ Cardinality(Better(i)) = TopN
             \/ Cardinality(NoWorseThan(mine, agents, i)) >= 3 * TopN
  <2>1. ~\E k \in 1 .. n : best[k] = agents[i]
    BY <1>3, <1>4
  <2>2. CASE w # None /\ AdjustedValue(agents[i]) <= AdjustedValue(w)
    BY <1>2, <2>2
  <2>3. CASE n = TopN /\ \A k \in 1 .. n : AdjustedValue(best[k]) >= AdjustedValue(agents[i])
    <3>1. Better(i) = 1 .. n
      BY <1>3, <2>3
    <3>2. Cardinality(Better(i)) = TopN
      BY <1>1, <2>3, <3>1, Spaces
    <3>3. QED
      BY <3>2
  <2>4. CASE Cardinality(NoWorseThan(mine, agents, i)) >= 3 * TopN
    BY <2>4
  <2>5. QED
    BY <1>1, <1>4, <2>1, <2>2, <2>3, <2>4
<1> HIDE DEF Better, Listing
<1>5. ASSUME NEW i \in DOMAIN agents,
             ~agents[i].out /\ \A j \in DOMAIN mine : mine[j].id # agents[i].id, agents[i].id \notin Listing
      PROVE  \/ \E m \in Weak : AdjustedValue(agents[i]) <= AdjustedValue(m)
             \/ Cardinality(Better(i)) = TopN
             \/ Cardinality({j \in DOMAIN agents \ {i} :
                  (~agents[j].out /\ \A k \in DOMAIN mine : mine[k].id # agents[j].id)
                    /\ PointsOrDefault(agents[j]) >= PointsOrDefault(agents[i])}) >= 3 * TopN
  <2>1. Fits(mine, agents[i])
    BY <1>5 DEF Fits
  <2>2. NoWorseThan(mine, agents, i)
          = {j \in DOMAIN agents \ {i} :
               (~agents[j].out /\ \A k \in DOMAIN mine : mine[k].id # agents[j].id)
                 /\ PointsOrDefault(agents[j]) >= PointsOrDefault(agents[i])}
    BY DEF NoWorseThan, Fits
  <2>3. QED
    BY <1>4, <1>5, <2>1, <2>2
<1>6. QED
  BY <1>5 DEF NobodyPassedOver, Weak, Better, Listing, rows

LEMMA BidsWillDo ==
  ASSUME ReportAssumption, NEW mine \in Seq(Prospect), NEW agents \in Seq(Prospect), None \notin Prospect,
         NEW context, context # None /\ context.type = "faab" => context.budget \in Nat /\ context.mine \in Nat
  PROVE  BidsArePossible(context, ThisWeek(mine, agents, context))
<1> DEFINE best == WeekBest(mine, agents)
           n == Len(best)
           rows == ThisWeek(mine, agents, context)
           left == context.mine
           budget == context.budget
           Up(k) == UpgradeBy(mine, best[k])
<1>1. SUFFICES ASSUME context # None, context.type = "faab"
               PROVE  \A k \in DOMAIN rows :
                        /\ rows[k].bid \in 0 .. left
                        /\ rows[k].bid <= AtLeast(RoundDiv(budget * 35, 100), 1)
                        /\ \A j \in 1 .. k : rows[j].bid >= rows[k].bid
                        /\ rows[k].upgrade > 0 /\ left > 0 => rows[k].bid >= 1
  BY DEF BidsArePossible
<1>2. budget \in Nat /\ left \in Nat
  BY <1>1
<1>3. /\ n \in Nat /\ DOMAIN best = 1 .. n /\ DOMAIN rows = 1 .. n
      /\ \A k \in 1 .. n : best[k] \in Prospect
      /\ \A j, k \in 1 .. n : j <= k => AdjustedValue(best[j]) >= AdjustedValue(best[k])
      /\ \A k \in 1 .. n : rows[k].upgrade = Up(k) /\ rows[k].bid = SuggestedBid(Up(k), context)
  BY BestOfWeek, WeekIs
<1>4. Baseline(mine) \in Int
  <2>1. WeakestByPoints(mine) # None => WeakestByPoints(mine) \in Prospect
    BY WeakestIs
  <2>2. QED
    BY <2>1, ProspectIs DEF Baseline
<1> HIDE DEF best, n, rows
<1>5. \A k \in 1 .. n : Up(k) \in Int
  <2>1. ASSUME NEW k \in 1 .. n PROVE Up(k) \in Int
    <3>1. AdjustedValue(best[k]) - Baseline(mine) \in Int
      BY <1>3, <1>4, ProspectIs
    <3>2. QED
      BY <3>1, Rounded DEF UpgradeBy
  <2>2. QED
    BY <2>1
<1>6. \A j, k \in 1 .. n : j <= k => Up(k) <= Up(j)
  <2>1. ASSUME NEW j \in 1 .. n, NEW k \in 1 .. n, j <= k PROVE Up(k) <= Up(j)
    <3> DEFINE x == AdjustedValue(best[k]) - Baseline(mine)
               y == AdjustedValue(best[j]) - Baseline(mine)
    <3>1. AdjustedValue(best[k]) \in Int /\ AdjustedValue(best[j]) \in Int
          /\ AdjustedValue(best[k]) <= AdjustedValue(best[j])
      BY <1>3, <2>1, ProspectIs
    <3>2. x \in Int /\ y \in Int /\ x <= y
      BY <1>4, <3>1
    <3> HIDE DEF x, y
    <3>3. RoundDiv(x, 1000) <= RoundDiv(y, 1000)
      BY <3>2, RoundRises
    <3>4. QED
      BY <3>3 DEF UpgradeBy, x, y
  <2>2. QED
    BY <2>1
<1> HIDE DEF Up, left, budget
<1>7. \A k \in 1 .. n : rows[k].bid = BidOf(Up(k), budget, left)
  <2>1. ASSUME NEW k \in 1 .. n PROVE rows[k].bid = BidOf(Up(k), budget, left)
    <3>1. context.budget = budget /\ context.mine = left
      BY DEF budget, left
    <3>2. SuggestedBid(Up(k), context) = BidOf(Up(k), budget, left)
      BY <1>1, <1>2, <1>5, <3>1, BidIs
    <3>3. QED
      BY <1>3, <3>2
  <2>2. QED
    BY <2>1
<1>8. ASSUME NEW k \in 1 .. n
      PROVE  /\ rows[k].bid \in 0 .. left
             /\ rows[k].bid <= AtLeast(RoundDiv(budget * 35, 100), 1)
             /\ \A j \in 1 .. k : rows[j].bid >= rows[k].bid
             /\ rows[k].upgrade > 0 /\ left > 0 => rows[k].bid >= 1
  <2>1. Up(k) \in Int /\ rows[k].upgrade = Up(k) /\ rows[k].bid = BidOf(Up(k), budget, left)
    BY <1>3, <1>5, <1>7
  <2>2. /\ rows[k].bid \in 0 .. left
        /\ rows[k].bid <= AtLeast(RoundDiv(budget * 35, 100), 1)
        /\ rows[k].upgrade > 0 /\ left > 0 => rows[k].bid >= 1
    <3> DEFINE gain == Up(k)
               b == BidOf(gain, budget, left)
    <3>1. gain \in Int /\ budget \in Nat /\ left \in Nat
      BY <1>2, <2>1
    <3>2. b \in 0 .. left /\ b <= AtLeast(RoundDiv(budget * 35, 100), 1) /\ (gain > 0 /\ left > 0 => b >= 1)
      <4> HIDE DEF gain
      <4>1. b \in 0 .. left
        BY ONLY <3>1, BidBounds
      <4>2. b <= AtLeast(RoundDiv(budget * 35, 100), 1)
        BY ONLY <3>1, BidBounds
      <4>3. gain > 0 /\ left > 0 => b >= 1
        BY ONLY <3>1, BidBounds
      <4>4. QED
        BY <4>1, <4>2, <4>3
    <3>3. rows[k].bid = b /\ rows[k].upgrade = gain
      BY <2>1
    <3> HIDE DEF b, gain
    <3>4. QED
      BY <3>2, <3>3
  <2>3. ASSUME NEW j \in 1 .. k PROVE rows[j].bid >= rows[k].bid
    <3>1. j \in 1 .. n /\ j <= k
      BY <1>3
    <3>2. Up(j) \in Int /\ Up(k) <= Up(j) /\ rows[j].bid = BidOf(Up(j), budget, left)
      BY <1>5, <1>6, <1>7, <3>1
    <3>3. BidOf(Up(k), budget, left) <= BidOf(Up(j), budget, left)
      BY <1>2, <2>1, <3>2, BidBounds
    <3>4. QED
      BY <2>1, <3>2, <3>3
  <2>4. QED
    BY <2>2, <2>3
<1>9. QED
  BY <1>3, <1>8 DEF left, budget

\* The rest of the season.
Worthy(agents) == {k \in DOMAIN agents : agents[k].value > 0}
StashPool(mine, agents) == Pool(Valued(Unrostered(mine, agents)), LAMBDA p : p.value)
Stashes(mine, agents) == Upgrades(StashPool(mine, agents), WeakestByValue(mine), LAMBDA p : p.value)

LEMMA StashPoolIs ==
  ASSUME ReportAssumption, NEW mine, NEW agents \in Seq(Prospect)
  PROVE  LET pool == StashPool(mine, agents)
             n == Len(pool)
         IN  /\ n \in Nat /\ DOMAIN pool = 1 .. n
             /\ \A k \in 1 .. n : pool[k] \in Prospect /\ pool[k] \in ToSet(agents) /\ pool[k].value > 0
<1> DEFINE U == Unrostered(mine, agents)
           S == Strangers(mine, agents)
           c == Cardinality(S)
           H == Worthy(U)
           size == Cardinality(H)
           V == Valued(U)
           key == [k \in DOMAIN V |-> V[k].value]
           t == [k \in DOMAIN V |-> V[Ranked(key)[k]]]
           m == 3 * TopN
           l == IF m <= size THEN m ELSE size
           pool == StashPool(mine, agents)
           r == Ranked(key)
<1>0. m \in Nat /\ ToSet(agents) = {agents[i] : i \in 1 .. Len(agents)}
  BY ProspectsAre DEF ReportAssumption, ToSet
<1>1. /\ c \in Nat /\ Len(U) = c /\ DOMAIN U = 1 .. c
      /\ \A k \in 1 .. c : /\ U[k] = agents[Nth(S, k)] /\ Nth(S, k) \in S
                           /\ Nth(S, k) \in 1 .. Len(agents) /\ U[k] \in Prospect
  BY StrangersAre
<1>2. V = Kept(U, H)
  BY DEF Valued, Worthy
<1>3. H \in SUBSET (1 .. c) /\ \A k \in H : U[k].value > 0
  BY <1>1 DEF Worthy
<1>4. pool = Take(t, m)
  BY DEF StashPool, Pool, Descending
<1> HIDE DEF U, S, c, H, V, pool, m
<1>5. /\ size \in Nat /\ DOMAIN V = 1 .. size
      /\ \A k \in 1 .. size : V[k] = U[Nth(H, k)] /\ Nth(H, k) \in H
  BY <1>1, <1>2, <1>3, KeptIs
<1> HIDE DEF size
<1>6. \A k \in 1 .. size : V[k] \in Prospect /\ V[k] \in ToSet(agents) /\ V[k].value > 0 /\ V[k].value \in Int
  <2>1. ASSUME NEW k \in 1 .. size
        PROVE  V[k] \in Prospect /\ V[k] \in ToSet(agents) /\ V[k].value > 0 /\ V[k].value \in Int
    <3>1. Nth(H, k) \in 1 .. c /\ U[Nth(H, k)].value > 0 /\ V[k] = U[Nth(H, k)]
      BY <1>3, <1>5
    <3>2. V[k] \in Prospect /\ V[k] \in ToSet(agents)
      BY <1>0, <1>1, <3>1
    <3>3. QED
      BY <3>1, <3>2, ProspectIs
  <2>2. QED
    BY <2>1
<1>7. DOMAIN key = 1 .. size /\ \A k \in 1 .. size : key[k] \in Int
  BY <1>5, <1>6
<1>8. t = [k \in 1 .. size |-> V[Ranked(key)[k]]]
  BY <1>5
<1> HIDE DEF key, t
<1>9. Arranged(t, V, key, size)
  BY <1>5, <1>7, <1>8 DEF Arranged
<1>10. /\ Len(pool) = l /\ DOMAIN pool = 1 .. l
       /\ \A k \in 1 .. l : k \in 1 .. size /\ r[k] \in 1 .. size /\ pool[k] = V[r[k]]
  <2>1. size \in Nat /\ m \in Nat
    BY <1>0, <1>5
  <2>2. Len(pool) = l /\ DOMAIN pool = 1 .. l
    BY ONLY <1>4, <1>9, <2>1, TopIs
  <2>3. \A k \in 1 .. l : k \in 1 .. size /\ r[k] \in 1 .. size
    BY ONLY <1>9, <2>1, TopIs
  <2>4. \A k \in 1 .. l : pool[k] = V[r[k]]
    BY ONLY <1>4, <1>9, <2>1, TopIs
  <2>5. QED
    BY ONLY <2>2, <2>3, <2>4
<1>11. l \in Nat
  BY <1>0, <1>5
<1> HIDE DEF l, r
<1>12. /\ Len(pool) \in Nat /\ DOMAIN pool = 1 .. Len(pool)
       /\ \A k \in 1 .. Len(pool) : pool[k] \in Prospect /\ pool[k] \in ToSet(agents) /\ pool[k].value > 0
  BY <1>6, <1>10, <1>11
<1>13. QED
  BY <1>12 DEF pool

LEMMA StashesGain ==
  ASSUME ReportAssumption, NEW mine \in Seq(Prospect), NEW agents \in Seq(Prospect), None \notin Prospect
  PROVE  StashesGainValue(mine, agents, RestOfSeason(mine, agents))
<1> DEFINE pool == StashPool(mine, agents)
           n == Len(pool)
           w == WeakestByValue(mine)
           K == {k \in DOMAIN pool : w = None \/ pool[k].value > w.value}
           best == Stashes(mine, agents)
           rows == RestOfSeason(mine, agents)
           floor == IF w = None THEN 0 ELSE w.value
           c == Cardinality(K)
           l == IF TopN <= c THEN TopN ELSE c
<1>0. TopN \in Nat
  BY DEF ReportAssumption
<1>1. /\ n \in Nat /\ DOMAIN pool = 1 .. n
      /\ \A k \in 1 .. n : pool[k] \in Prospect /\ pool[k] \in ToSet(agents) /\ pool[k].value > 0
  BY StashPoolIs
<1>2. best = Take(Kept(pool, K), TopN)
  BY DEF Stashes, Upgrades
<1>3. rows = [k \in DOMAIN best |-> [add |-> best[k], drop |-> w, upgrade |-> best[k].value - floor]]
  BY DEF RestOfSeason, Stashes, StashPool, WeakestByValue
<1>4. /\ w # None => w \in ToSet(mine) /\ w \in Prospect /\ \A p \in ToSet(mine) : w.value <= p.value
      /\ w = None => ToSet(mine) = {}
  <2>1. CASE mine = <<>>
    <3>1. ToSet(<<>>) = {}
      BY DEF ToSet
    <3>2. w = None
      BY <2>1, WeakestIs
    <3>3. ToSet(mine) = {}
      BY <2>1, <3>1
    <3> HIDE DEF w
    <3>4. QED
      BY <3>2, <3>3
  <2>2. CASE mine # <<>>
    <3>1. w \in ToSet(mine) /\ (\A p \in ToSet(mine) : w.value <= p.value) /\ \A p \in ToSet(mine) : p \in Prospect /\ p # None
      BY ONLY <2>2, mine \in Seq(Prospect), None \notin Prospect, WeakestIs
    <3> HIDE DEF w
    <3>2. QED
      BY <3>1
  <2>3. QED
    BY <2>1, <2>2
<1>5. w # None => w.value \in Int
  BY <1>4, ProspectIs
<1>6. K \in SUBSET (1 .. n) /\ \A k \in K : w = None \/ pool[k].value > w.value
  BY <1>1
<1> HIDE DEF pool, n, w, K, best, rows
<1>7. /\ l \in Nat /\ DOMAIN best = 1 .. l
      /\ \A k \in 1 .. l : Nth(K, k) \in K /\ best[k] = pool[Nth(K, k)]
  <2>1. n \in Nat /\ DOMAIN pool = 1 .. n /\ K \in SUBSET (1 .. n) /\ TopN \in Nat
    BY <1>0, <1>1, <1>6
  <2>2. l \in Nat /\ \A k \in 1 .. l : Nth(K, k) \in K
    BY ONLY <2>1, FirstKept
  <2>3. DOMAIN best = 1 .. l
    BY ONLY <1>2, <2>1, FirstKept
  <2>4. \A k \in 1 .. l : best[k] = pool[Nth(K, k)]
    BY ONLY <1>2, <2>1, FirstKept
  <2>5. QED
    BY ONLY <2>2, <2>3, <2>4
<1> HIDE DEF l, c
<1>8. ASSUME NEW k \in 1 .. l
      PROVE  /\ best[k] \in ToSet(agents) /\ best[k].value - floor > 0
             /\ w # None => w \in ToSet(mine)
             /\ \A m \in ToSet(mine) : w # None /\ w.value <= m.value
  <2>1. Nth(K, k) \in 1 .. n /\ best[k] = pool[Nth(K, k)] /\ (w = None \/ best[k].value > w.value)
    BY <1>6, <1>7
  <2>2. best[k] \in Prospect /\ best[k] \in ToSet(agents) /\ best[k].value > 0
    BY <1>1, <2>1
  <2>3. best[k].value \in Int
    BY <2>2, ProspectIs
  <2>4. best[k].value - floor > 0
    BY <1>5, <2>1, <2>2, <2>3
  <2>5. QED
    BY <1>4, <2>2, <2>4
<1>9. ASSUME NEW k \in DOMAIN rows
      PROVE  /\ k \in 1 .. l /\ rows[k].add = best[k] /\ rows[k].drop = w
             /\ rows[k].upgrade = best[k].value - floor
  BY <1>3, <1>7
<1>10. StashesGainValue(mine, agents, rows)
  BY <1>8, <1>9 DEF StashesGainValue
<1>11. QED
  BY <1>10 DEF rows

\* Waiver advice can be followed.
LEMMA WaiversHold ==
  ASSUME ReportAssumption, CaseAssumption, NEW c \in WaiverCases
  PROVE  LET a == WaiverTargets(c)
         IN  /\ BidsArePossible(a.context, a.week)
             /\ NobodyPassedOver(c.mine, c.agents, a.week)
             /\ StashesGainValue(c.mine, c.agents, a.season)
<1> DEFINE context == IF c.premium THEN BudgetContext(c.league, c.teams) ELSE None
           a == WaiverTargets(c)
<1>1. a.context = context /\ a.week = ThisWeek(c.mine, c.agents, context) /\ a.season = RestOfSeason(c.mine, c.agents)
  BY DEF WaiverTargets
<1>2. /\ None \notin Prospect
      /\ c.mine \in Seq(Prospect) /\ c.agents \in Seq(Prospect)
      /\ c.league \in [faab : BOOLEAN, budget : Nat]
      /\ c.teams \in Seq([mine : BOOLEAN, spent : Nat, rank : Nat \union {None}])
      /\ \E i \in DOMAIN c.teams : c.teams[i].mine
  BY DEF CaseAssumption
<1>3. context # None /\ context.type = "faab" => context.budget \in Nat /\ context.mine \in Nat
  <2>1. context = BudgetContext(c.league, c.teams) \/ context = None
    OBVIOUS
  <2> HIDE DEF context
  <2>2. QED
    BY <1>2, <2>1, BudgetIs
<1> HIDE DEF context, a
<1>4. BidsArePossible(context, ThisWeek(c.mine, c.agents, context))
  BY <1>2, <1>3, BidsWillDo
<1>5. NobodyPassedOver(c.mine, c.agents, ThisWeek(c.mine, c.agents, context))
  BY <1>2, NobodyIsPassedOver
<1>6. StashesGainValue(c.mine, c.agents, RestOfSeason(c.mine, c.agents))
  BY <1>2, StashesGain
<1>7. QED
  BY <1>1, <1>4, <1>5, <1>6 DEF a
-----------------------------------------------------------------------------
\* A report that is asked for is about one of its cases, and once it is answered
\* the answer is what the request computes from that case.
Reporting ==
  report # None =>
    /\ report = [kind |-> report.kind, of |-> report.of, answer |-> report.answer]
    /\ report.kind \in {"waivers", "trades", "grade", "start_sit", "digest", "activity"}
    /\ report.kind = "waivers" =>
         report.of \in WaiverCases /\ report.answer \in {None, WaiverTargets(report.of)}
    /\ report.kind = "trades" =>
         report.of \in LeagueCases /\ report.answer \in {None, TradeSuggestions(report.of)}
    /\ report.kind = "grade" =>
         report.of \in GradeCases /\ report.answer \in {None, TradeGrades(report.of)}
    /\ report.kind = "start_sit" =>
         report.of \in RosterCases /\ report.answer \in {None, LineupAdvice(report.of)}
    /\ report.kind = "digest" =>
         report.of \in DigestCases /\ report.answer \in {None, Changes(report.of)}
    /\ report.kind = "activity" =>
         report.of \in TransactionCases /\ report.answer \in {None, Activity(report.of)}

LEMMA AskedIsReporting == ReportInit => Reporting
<1>1. ASSUME report \in Asked("waivers", WaiverCases) PROVE Reporting
  BY <1>1 DEF Asked, Reporting
<1>2. ASSUME report \in Asked("trades", LeagueCases) PROVE Reporting
  BY <1>2 DEF Asked, Reporting
<1>3. ASSUME report \in Asked("grade", GradeCases) PROVE Reporting
  BY <1>3 DEF Asked, Reporting
<1>4. ASSUME report \in Asked("start_sit", RosterCases) PROVE Reporting
  BY <1>4 DEF Asked, Reporting
<1>5. ASSUME report \in Asked("digest", DigestCases) PROVE Reporting
  BY <1>5 DEF Asked, Reporting
<1>6. ASSUME report \in Asked("activity", TransactionCases) PROVE Reporting
  BY <1>6 DEF Asked, Reporting
<1>7. ASSUME report = None PROVE Reporting
  BY <1>7 DEF Reporting
<1>8. QED
  BY <1>1, <1>2, <1>3, <1>4, <1>5, <1>6, <1>7 DEF ReportInit

\* What a request does to the report.
LEMMA AnswerIs ==
  ASSUME Reporting, NEW kind, NEW answer, Answer(kind, answer)
  PROVE  /\ report # None /\ report.kind = kind
         /\ report' = [kind |-> report.kind, of |-> report.of, answer |-> answer]
         /\ report'.kind = kind /\ report'.of = report.of /\ report'.answer = answer
<1>1. report # None /\ report.kind = kind /\ report' = [report EXCEPT !.answer = answer]
  BY DEF Answer
<1>2. report = [kind |-> report.kind, of |-> report.of, answer |-> report.answer]
  BY <1>1 DEF Reporting
<1>3. report' = [kind |-> report.kind, of |-> report.of, answer |-> answer]
  BY <1>1, <1>2
<1>4. QED
  BY <1>1, <1>3

LEMMA StepIsReporting == Reporting /\ [ReportNext]_reportVars => Reporting'
<1> SUFFICES ASSUME Reporting, [ReportNext]_reportVars PROVE Reporting'
  OBVIOUS
<1>1. CASE GetWaivers
  <2>1. Answer("waivers", WaiverTargets(report.of))
    BY <1>1 DEF GetWaivers
  <2>2. /\ report # None /\ report.kind = "waivers"
        /\ report' = [kind |-> report.kind, of |-> report.of, answer |-> WaiverTargets(report.of)]
        /\ report'.kind = "waivers" /\ report'.of = report.of /\ report'.answer = WaiverTargets(report.of)
    BY <2>1, AnswerIs
  <2>3. report.of \in WaiverCases
    BY <2>2 DEF Reporting
  <2>4. QED
    BY <2>2, <2>3 DEF Reporting
<1>2. CASE GetTrades
  <2>1. Answer("trades", TradeSuggestions(report.of))
    BY <1>2 DEF GetTrades
  <2>2. /\ report # None /\ report.kind = "trades"
        /\ report' = [kind |-> report.kind, of |-> report.of, answer |-> TradeSuggestions(report.of)]
        /\ report'.kind = "trades" /\ report'.of = report.of /\ report'.answer = TradeSuggestions(report.of)
    BY <2>1, AnswerIs
  <2>3. report.of \in LeagueCases
    BY <2>2 DEF Reporting
  <2>4. QED
    BY <2>2, <2>3 DEF Reporting
<1>3. CASE PostTradeGrade
  <2>1. Answer("grade", TradeGrades(report.of))
    BY <1>3 DEF PostTradeGrade
  <2>2. /\ report # None /\ report.kind = "grade"
        /\ report' = [kind |-> report.kind, of |-> report.of, answer |-> TradeGrades(report.of)]
        /\ report'.kind = "grade" /\ report'.of = report.of /\ report'.answer = TradeGrades(report.of)
    BY <2>1, AnswerIs
  <2>3. report.of \in GradeCases
    BY <2>2 DEF Reporting
  <2>4. QED
    BY <2>2, <2>3 DEF Reporting
<1>4. CASE GetStartSit
  <2>1. Answer("start_sit", LineupAdvice(report.of))
    BY <1>4 DEF GetStartSit
  <2>2. /\ report # None /\ report.kind = "start_sit"
        /\ report' = [kind |-> report.kind, of |-> report.of, answer |-> LineupAdvice(report.of)]
        /\ report'.kind = "start_sit" /\ report'.of = report.of /\ report'.answer = LineupAdvice(report.of)
    BY <2>1, AnswerIs
  <2>3. report.of \in RosterCases
    BY <2>2 DEF Reporting
  <2>4. QED
    BY <2>2, <2>3 DEF Reporting
<1>5. CASE GetDigest
  <2>1. Answer("digest", Changes(report.of))
    BY <1>5 DEF GetDigest
  <2>2. /\ report # None /\ report.kind = "digest"
        /\ report' = [kind |-> report.kind, of |-> report.of, answer |-> Changes(report.of)]
        /\ report'.kind = "digest" /\ report'.of = report.of /\ report'.answer = Changes(report.of)
    BY <2>1, AnswerIs
  <2>3. report.of \in DigestCases
    BY <2>2 DEF Reporting
  <2>4. QED
    BY <2>2, <2>3 DEF Reporting
<1>6. CASE GetActivity
  <2>1. Answer("activity", Activity(report.of))
    BY <1>6 DEF GetActivity
  <2>2. /\ report # None /\ report.kind = "activity"
        /\ report' = [kind |-> report.kind, of |-> report.of, answer |-> Activity(report.of)]
        /\ report'.kind = "activity" /\ report'.of = report.of /\ report'.answer = Activity(report.of)
    BY <2>1, AnswerIs
  <2>3. report.of \in TransactionCases
    BY <2>2 DEF Reporting
  <2>4. QED
    BY <2>2, <2>3 DEF Reporting
<1>7. CASE report' = report
  BY <1>7 DEF Reporting
<1>8. QED
  BY <1>1, <1>2, <1>3, <1>4, <1>5, <1>6, <1>7 DEF ReportNext, Answered, ScoreWeek, reportVars

LEMMA ReportingHolds == ReportSpec => []Reporting
<1>1. QED
  BY AskedIsReporting, StepIsReporting, PTL DEF ReportSpec

\* However many players, free agents, teams and dollars there are: every bid of
\* this week's waiver advice can be paid, none is smaller than that of a lesser
\* upgrade, nobody better is passed over, and no stash loses value.
THEOREM WaiversAreSound == ReportSpec => []WaiverAdviceHolds
<1>1. Reporting => WaiverAdviceHolds
  <2> SUFFICES ASSUME Reporting, Known("waivers")
               PROVE  /\ BidsArePossible(report.answer.context, report.answer.week)
                      /\ NobodyPassedOver(report.of.mine, report.of.agents, report.answer.week)
                      /\ StashesGainValue(report.of.mine, report.of.agents, report.answer.season)
    BY DEF WaiverAdviceHolds
  <2>1. report.of \in WaiverCases /\ report.answer = WaiverTargets(report.of)
    BY DEF Reporting, Known
  <2>2. QED
    BY <2>1, WaiversHold, ReportAssumption, CaseAssumption
<1>2. QED
  BY <1>1, ReportingHolds, PTL

\* However many teams, positions and projections there are: every team is measured
\* by the same league, a partner has what is needed and needs what is offered, and
\* a trade is graded the same from both sides, never better for giving more.
THEOREM TradesAreImpartial == ReportSpec => []TradeAdviceHolds
<1>1. Reporting => TradeAdviceHolds
  <2> SUFFICES ASSUME Reporting PROVE TradeAdviceHolds
    OBVIOUS
  <2>1. ASSUME Known("trades")
        PROVE  ProfilesAreFair(report.of.rosters, report.answer) /\ PartnersComplement(report.answer)
    <3>1. report.of \in LeagueCases /\ report.answer = TradeSuggestions(report.of)
      BY <2>1 DEF Reporting, Known
    <3>2. /\ report.of.rosters \in Seq([Positions -> Seq(Int)])
          /\ \A s \in DOMAIN report.of.counts : report.of.counts[s] \in Nat
      BY <3>1, CaseAssumption DEF CaseAssumption
    <3>3. QED
      BY <3>1, <3>2, SuggestionsHold
  <2>2. ASSUME Known("grade")
        PROVE  GradesAreImpartial(report.answer.graded, report.answer.mirrored, report.answer.lighter)
    <3>1. report.of \in GradeCases /\ report.answer = TradeGrades(report.of)
      BY <2>2 DEF Reporting, Known
    <3>2. report.of.sends \in [a : Seq(TradedPlayer), b : Seq(TradedPlayer)]
      BY <3>1, CaseAssumption DEF CaseAssumption
    <3>3. QED
      BY <3>1, <3>2, GradesHold
  <2>3. QED
    BY <2>1, <2>2 DEF TradeAdviceHolds
<1>2. QED
  BY <1>1, ReportingHolds, PTL

\* For every roster: the recommended lineup is legal, no lineup of as many players
\* is worth more when the slots are nested, and nobody makes way for a lesser
\* player unless he is needed elsewhere.
THEOREM LineupsAreSound == ReportSpec => []StartSitHolds
<1>1. Reporting => StartSitHolds
  <2> SUFFICES ASSUME Reporting, Known("start_sit")
               PROVE  /\ LineupIsLegal(report.of.mine, report.answer.rows)
                      /\ GreedyIsBest(report.of.mine, report.answer.rows)
                      /\ NoSwapForTheWorse(report.of.mine, report.answer.rows)
    BY DEF StartSitHolds
  <2>1. report.of \in RosterCases /\ report.answer = LineupAdvice(report.of)
    BY DEF Reporting, Known
  <2>2. report.answer.rows = StartSit(report.of.mine)
    BY <2>1 DEF LineupAdvice
  <2>3. IsRoster(report.of.mine, Len(report.of.mine))
    <3>1. report.of.mine \in Seq([slot : Slots \union BenchSlots, eligible : SUBSET Slots, points : Int \union {None}])
      BY <2>1, CaseAssumption DEF CaseAssumption
    <3>2. QED
      BY <3>1, RosterIs
  <2>4. QED
    BY <2>2, <2>3, LineupAdviceHolds
<1>2. QED
  BY <1>1, ReportingHolds, PTL

\* For every two pools of players: what a sync changed is reported, the other way
\* round, by the sync that undoes it, and a digest that is full has kept no swing in
\* place of a player who changed hands.
THEOREM DigestsAreSound == ReportSpec => []DigestHolds
<1>1. Reporting => DigestHolds
  <2> SUFFICES ASSUME Reporting, Known("digest")
               PROVE  /\ UndoneIsReported(report.answer.there, report.answer.back)
                      /\ UrgentIsKept(report.of.before, report.of.after, report.answer.there)
    BY DEF DigestHolds
  <2>1. report.of \in DigestCases /\ report.answer = Changes(report.of)
    BY DEF Reporting, Known
  <2>2. /\ report.answer.there = DiffPlayers(report.of.before, report.of.after)
        /\ report.answer.back = DiffPlayers(report.of.after, report.of.before)
    BY <2>1 DEF Changes
  <2>3. report.of.before \in Snapshot /\ report.of.after \in Snapshot
    BY <2>1, CaseAssumption DEF CaseAssumption
  <2>4. QED
    BY <2>2, <2>3, UndoneBothWays, UrgentComesFirst, ReportAssumption
<1>2. QED
  BY <1>1, ReportingHolds, PTL

\* For every log of transactions: both sides see the same trade, the feed keeps the
\* recent end, and the spending of all teams is what its claims cost.
THEOREM ActivityIsSound == ReportSpec => []ActivityHolds
<1>1. Reporting => ActivityHolds
  <2> SUFFICES ASSUME Reporting, Known("activity")
               PROVE  /\ SidesAgree(report.of.pending, report.answer.claims)
                      /\ FeedIsNewest(report.of.log, report.answer.feed)
                      /\ SpendingAddsUp(report.of.log, report.answer.feed, report.answer.spending)
    BY DEF ActivityHolds
  <2>1. report.of \in TransactionCases /\ report.answer = Activity(report.of)
    BY DEF Reporting, Known
  <2>2. /\ report.of.log \in TransactionList
        /\ report.of.pending = None \/ report.of.pending \in TransactionList
    BY <2>1, CaseAssumption DEF CaseAssumption
  <2>3. QED
    BY <2>1, <2>2, ActivityAgrees, ReportAssumption
<1>2. QED
  BY <1>1, ReportingHolds, PTL
-----------------------------------------------------------------------------
USE WeekAssumption, NoneAssumption

\* The starters and the startable players of a week.
Slotted == 1 .. NSlots
Numbers == 1 .. NPlayers

LEMMA WeekType ==
  ASSUME week \in Weeks
  PROVE  /\ Len(week) \in Nat /\ DOMAIN week = 1 .. Len(week)
         /\ \A i \in 1 .. Len(week) : week[i] \in Player
         /\ InLineup \subseteq Startable /\ Startable \subseteq 1 .. Len(week)
         /\ IsFiniteSet(InLineup) /\ IsFiniteSet(Startable)
         /\ NSlots \in Nat \ {0} /\ NPlayers \in Nat /\ NSlots <= NPlayers /\ NPlayers <= Len(week)
<1>1. week \in Seq(Player)
  OBVIOUS
<1>2. Len(week) \in Nat /\ DOMAIN week = 1 .. Len(week) /\ \A i \in 1 .. Len(week) : week[i] \in Player
  BY <1>1
<1>3. InLineup \subseteq Startable /\ Startable \subseteq 1 .. Len(week) /\ InLineup # {}
  BY <1>2 DEF InLineup, Startable, Starts, CouldStart
<1>4. IsFiniteSet(1 .. Len(week)) /\ Cardinality(1 .. Len(week)) = Len(week)
  BY <1>2, Spaces
<1>5. IsFiniteSet(Startable) /\ Cardinality(Startable) <= Len(week)
  BY <1>3, <1>4, FS_Subset
<1>6. IsFiniteSet(InLineup) /\ Cardinality(InLineup) <= Cardinality(Startable)
  BY <1>3, <1>5, FS_Subset
<1>7. Cardinality(InLineup) \in Nat \ {0} /\ Cardinality(Startable) \in Nat
  BY <1>3, <1>5, <1>6, FS_CardinalityType, FS_EmptySet
<1>8. QED
  BY <1>2, <1>3, <1>5, <1>6, <1>7 DEF NSlots, NPlayers

LEMMA Places ==
  ASSUME week \in Weeks
  PROVE  /\ \A i \in Slotted : Started[i] = week[Nth(InLineup, i)] /\ Nth(InLineup, i) \in InLineup
         /\ \A p \in Numbers : Available[p] = week[Nth(Startable, p)] /\ Nth(Startable, p) \in Startable
         /\ \A i \in Slotted : Started[i] \in Player /\ Started[i].slot \in Slots
         /\ \A p \in Numbers : Available[p] \in Player
         /\ \A i, k \in Slotted : Nth(InLineup, i) = Nth(InLineup, k) => i = k
         /\ \A j \in Startable : \E p \in Numbers : Nth(Startable, p) = j
<1>1. /\ InLineup \subseteq Nat /\ Startable \subseteq Nat
      /\ IsFiniteSet(InLineup) /\ IsFiniteSet(Startable)
      /\ \A j \in Startable : week[j] \in Player
      /\ InLineup \subseteq Startable
  BY WeekType
<1>2. /\ \A i \in Slotted : Nth(InLineup, i) \in InLineup
      /\ \A i, k \in Slotted : Nth(InLineup, i) = Nth(InLineup, k) => i = k
  BY <1>1, Counted DEF Slotted, NSlots
<1>3. /\ \A p \in Numbers : Nth(Startable, p) \in Startable
      /\ \A j \in Startable : \E p \in Numbers : Nth(Startable, p) = j
  BY <1>1, Counted DEF Numbers, NPlayers
<1>4. /\ \A i \in Slotted : Started[i] = week[Nth(InLineup, i)]
      /\ \A p \in Numbers : Available[p] = week[Nth(Startable, p)]
  BY DEF Started, Available, Kept, Slotted, Numbers, NSlots, NPlayers
<1>5. \A j \in InLineup : week[j].slot \in Slots
  BY DEF InLineup, Starts
<1>6. QED
  BY <1>1, <1>2, <1>3, <1>4, <1>5

\* The offset is above every score, and below what a slot costs that stays empty.
LEMMA Prices ==
  ASSUME week \in Weeks
  PROVE  /\ Offset \in Nat \ {0}
         /\ \A p \in Numbers : /\ Available[p].points \in Int
                               /\ -Offset < Available[p].points /\ Available[p].points < Offset
         /\ 2 * NSlots * Offset <= Ineligible
<1> DEFINE Sizes == {Abs(Available[p].points) : p \in 1 .. NPlayers}
<1>1. NSlots \in Nat \ {0} /\ NPlayers \in Nat /\ NSlots <= NPlayers /\ NPlayers <= Len(week) /\ Len(week) \in Nat
  BY WeekType
<1>2. \A p \in Numbers : Available[p].points \in Int
  BY Places DEF Player
<1>3. IsFiniteSet(Sizes) /\ Sizes # {} /\ Sizes \subseteq Int
  <2>1. IsFiniteSet(Numbers) /\ 1 \in Numbers
    BY <1>1, FS_Interval DEF Numbers
  <2> DEFINE size == [p \in Numbers |-> Abs(Available[p].points)]
  <2>2. size \in Surjection(Numbers, Sizes)
    BY DEF Surjection, Numbers
  <2>3. IsFiniteSet(Sizes)
    BY <2>1, <2>2, FS_Surjection
  <2>4. QED
    BY <1>2, <2>1, <2>3 DEF Numbers, Abs
<1>4. Max(Sizes) \in Sizes /\ \A y \in Sizes : y <= Max(Sizes)
  BY <1>3, Greatest
<1>5. Offset = Max(Sizes) + One
  BY DEF Offset
<1>6. PICK b \in Numbers : Max(Sizes) = Abs(Available[b].points)
  BY <1>4 DEF Numbers
<1>7. ASSUME NEW p \in Numbers PROVE Abs(Available[p].points) <= Max(Sizes)
  BY <1>4 DEF Numbers
<1> HIDE DEF Sizes
<1>8. Max(Sizes) \in Nat
  BY <1>2, <1>6 DEF Abs
<1>9. Offset \in Nat \ {0}
  BY <1>5, <1>8
<1>10. ASSUME NEW p \in Numbers
       PROVE  -Offset < Available[p].points /\ Available[p].points < Offset
  BY <1>2, <1>5, <1>7, <1>8 DEF Abs
<1>11. 2 * NSlots * Offset <= Ineligible
  <2>1. PICK j \in Startable : Available[b] = week[j]
    BY Places
  <2>2. j \in DOMAIN week
    BY WeekType
  <2>3. 2 * Len(week) * Offset <= Ineligible
    BY <1>5, <1>6, <2>1, <2>2, PriceAssumption
  <2>4. \A n, l, o \in Nat : n <= l => 2 * n * o <= 2 * l * o
    OBVIOUS
  <2>5. 2 * NSlots * Offset <= 2 * Len(week) * Offset
    BY <1>1, <1>9, <2>4
  <2>6. 2 * NSlots * Offset \in Int /\ 2 * Len(week) * Offset \in Int
    BY <1>1, <1>9
  <2>7. QED
    BY <2>3, <2>5, <2>6
<1>12. QED
  BY <1>2, <1>9, <1>10, <1>11

-----------------------------------------------------------------------------
\* The matrix that is built, and what its entries mean.
LEMMA MatrixOfWeek ==
  ASSUME week \in Weeks, problem = Matrix
  PROVE  /\ WellFormed(problem)
         /\ Rows = Slotted /\ Columns = Numbers /\ Width = NPlayers
         /\ \A i \in Slotted, p \in Numbers :
              /\ problem.cost[i][p] = Cost(i, p)
              /\ Started[i].slot \in Available[p].eligible =>
                   Cost(i, p) = -(Available[p].points + Offset) /\ Cost(i, p) < Ineligible
              /\ Started[i].slot \notin Available[p].eligible => Cost(i, p) = Ineligible
              /\ Cost(i, p) \in Int
<1>1. NSlots \in Nat \ {0} /\ NPlayers \in Nat /\ NSlots <= NPlayers
  BY WeekType
<1>2. Width = NPlayers
  <2>1. IsFiniteSet({NSlots, NPlayers})
    <3>1. {NSlots, NPlayers} \in SUBSET (1 .. NPlayers)
      BY <1>1
    <3>2. QED
      BY <1>1, <3>1, Spaces, FS_Subset
  <2>2. Max({NSlots, NPlayers}) \in {NSlots, NPlayers} /\ \A y \in {NSlots, NPlayers} : y <= Max({NSlots, NPlayers})
    <3> DEFINE S == {NSlots, NPlayers}
    <3>1. IsFiniteSet(S) /\ S # {} /\ S \subseteq Int
      BY <1>1, <2>1
    <3> HIDE DEF S
    <3>2. Max(S) \in S /\ \A y \in S : y <= Max(S)
      BY <3>1, Greatest
    <3>3. QED
      BY <3>2 DEF S
  <2>3. QED
    BY <1>1, <2>2 DEF Width
<1>3. /\ problem.rows = NSlots /\ problem.cols = NPlayers
      /\ problem.cost = [i \in Slotted |-> [j \in Numbers |-> Cost(i, j)]]
  BY <1>2 DEF Matrix, Slotted, Numbers
<1>4. Rows = Slotted /\ Columns = Numbers
  BY <1>3 DEF Rows, Columns, Slotted, Numbers
<1>5. ASSUME NEW i \in Slotted, NEW p \in Numbers
      PROVE  /\ Started[i].slot \in Available[p].eligible =>
                   Cost(i, p) = -(Available[p].points + Offset) /\ Cost(i, p) < Ineligible
             /\ Started[i].slot \notin Available[p].eligible => Cost(i, p) = Ineligible
             /\ Cost(i, p) \in Int
  <2>1. p <= NPlayers
    BY <1>1 DEF Numbers
  <2>2. Available[p].points \in Int /\ -Offset < Available[p].points /\ Offset \in Nat
    BY Prices
  <2>3. Cost(i, p) = IF Started[i].slot \in Available[p].eligible
                     THEN -(Available[p].points + Offset) ELSE Ineligible
    BY <2>1 DEF Cost
  <2>4. QED
    BY <2>2, <2>3
<1>6. WellFormed(problem)
  BY <1>1, <1>3, <1>5 DEF WellFormed, Slotted, Numbers
<1>7. QED
  BY <1>2, <1>3, <1>4, <1>5, <1>6

\* What a lineup costs: each slot what its player costs, or what it costs empty.
Entry(f, i) == IF f[i] = 0 THEN Ineligible ELSE Cost(i, f[i])
Entries(f) == [i \in Slotted |-> Entry(f, i)]
Price(f) == SumFunctionOnSet(Entries(f), Slotted)

Filled(f) == {i \in Slotted : f[i] # 0}
Players(f) == {f[i] : i \in 1 .. NSlots} \ {0}

Score == [p \in Numbers |-> Available[p].points]

LEMMA PointsAreScores ==
  ASSUME week \in Weeks, NEW S \in SUBSET Numbers
  PROVE  Points(S) = SumFunctionOnSet(Score, S) /\ Points(S) \in Int /\ IsFiniteSet(S)
<1>1. IsFiniteSet(Numbers)
  BY WeekType, Spaces DEF Numbers
<1>2. IsFiniteSet(S)
  BY <1>1, FS_Subset
<1> DEFINE own == [p \in S |-> Available[p].points]
<1>3. \A p \in S : own[p] \in Int /\ own[p] = Score[p]
  BY Prices DEF Score
<1> HIDE DEF own
<1>4. SumFunctionOnSet(own, S) = SumFunctionOnSet(Score, S) /\ SumFunctionOnSet(own, S) \in Int
  BY <1>2, <1>3, SumSame, SumType
<1>5. QED
  BY <1>2, <1>4 DEF Points, own

LEMMA LineupType ==
  ASSUME week \in Weeks, NEW f \in Lineups
  PROVE  /\ f \in [Slotted -> 0 .. NPlayers]
         /\ Players(f) \subseteq Numbers /\ Filled(f) \subseteq Slotted
         /\ IsFiniteSet(Slotted) /\ IsFiniteSet(Filled(f)) /\ IsFiniteSet(Players(f))
         /\ Players(f) = {f[i] : i \in Filled(f)}
         /\ \A i \in Filled(f) : f[i] \in Numbers /\ Started[i].slot \in Available[f[i]].eligible
         /\ \A i, k \in Filled(f) : f[i] = f[k] => i = k
         /\ Cardinality(Slotted) = NSlots
<1>1. NSlots \in Nat /\ NPlayers \in Nat
  BY WeekType
<1>2. f \in [Slotted -> 0 .. NPlayers]
  BY DEF Lineups, Slotted
<1>3. Players(f) \subseteq Numbers /\ Filled(f) \subseteq Slotted /\ Players(f) = {f[i] : i \in Filled(f)}
  BY <1>1, <1>2 DEF Players, Filled, Numbers, Slotted
<1>4. \A i \in Filled(f) : f[i] \in Numbers /\ Started[i].slot \in Available[f[i]].eligible
  BY <1>1, <1>2 DEF Filled, Numbers, Slotted, Lineups
<1>5. \A i, k \in Filled(f) : f[i] = f[k] => i = k
  BY DEF Filled, Lineups, Slotted
<1>6. IsFiniteSet(Slotted) /\ IsFiniteSet(Numbers) /\ Cardinality(Slotted) = NSlots
  BY <1>1, Spaces DEF Slotted, Numbers
<1>7. IsFiniteSet(Filled(f)) /\ IsFiniteSet(Players(f))
  BY <1>3, <1>6, FS_Subset
<1>8. QED
  BY <1>2, <1>3, <1>4, <1>5, <1>6, <1>7

\* There are as many players as slots filled, and their points are what the
\* slots score.
LEMMA FilledByPlayers ==
  ASSUME week \in Weeks, NEW f \in Lineups, NEW score, \A i \in Filled(f) : score[i] = Available[f[i]].points
  PROVE  /\ Cardinality(Players(f)) = Cardinality(Filled(f))
         /\ Points(Players(f)) = SumFunctionOnSet(score, Filled(f))
<1>1. /\ IsFiniteSet(Filled(f)) /\ IsFiniteSet(Players(f)) /\ Players(f) \in SUBSET Numbers
      /\ Players(f) = {f[i] : i \in Filled(f)}
      /\ \A i \in Filled(f) : f[i] \in Numbers
      /\ \A i, k \in Filled(f) : f[i] = f[k] => i = k
  BY LineupType
<1>2. Cardinality(Players(f)) = Cardinality(Filled(f))
  BY <1>1, SameSize
<1>3. \A i \in Filled(f) : Score[f[i]] \in Int /\ score[i] = Score[f[i]]
  BY <1>1, Prices DEF Score
<1>4. SumFunctionOnSet(Score, Players(f)) = SumFunctionOnSet(score, Filled(f))
  BY <1>1, <1>3, SumOfImage
<1>5. QED
  BY <1>1, <1>2, <1>4, PointsAreScores

\* A lineup costs what its players score, and an offset for each, less than
\* nothing, and the price of an empty slot for each of the others.
LEMMA PriceOfLineup ==
  ASSUME week \in Weeks, problem = Matrix, NEW f \in Lineups
  PROVE  LET k == Cardinality(Players(f))
         IN  /\ k \in Nat /\ k <= NSlots
             /\ Price(f) = -Points(Players(f)) - Offset * k + Ineligible * (NSlots - k)
             /\ Price(f) \in Int
             /\ -Offset * k <= Points(Players(f)) /\ Points(Players(f)) <= Offset * k
             /\ Points(Players(f)) \in Int
<1> DEFINE F == Filled(f)
           k == Cardinality(Players(f))
           score == [i \in F |-> Available[f[i]].points]
           flat == [i \in F |-> -Offset]
<1>1. /\ F \in SUBSET Slotted /\ IsFiniteSet(F) /\ IsFiniteSet(Slotted) /\ Cardinality(Slotted) = NSlots
      /\ \A i \in F : f[i] \in Numbers /\ Started[i].slot \in Available[f[i]].eligible
      /\ Players(f) \in SUBSET Numbers /\ IsFiniteSet(Players(f))
  BY LineupType
<1>2. Cardinality(F) = k /\ Points(Players(f)) = SumFunctionOnSet(score, F)
  BY FilledByPlayers
<1>3. Offset \in Nat /\ Ineligible \in Nat /\ NSlots \in Nat
  BY Prices, WeekType
<1>4. \A i \in F : /\ score[i] \in Int /\ -Offset <= score[i] /\ score[i] <= Offset
                   /\ Entries(f)[i] = -(score[i] + Offset)
  <2>1. ASSUME NEW i \in F
        PROVE /\ score[i] \in Int /\ -Offset <= score[i] /\ score[i] <= Offset
              /\ Entries(f)[i] = -(score[i] + Offset)
    <3>1. f[i] \in Numbers /\ i \in Slotted /\ f[i] # 0
      BY <1>1 DEF Filled
    <3>2. Cost(i, f[i]) = -(Available[f[i]].points + Offset)
      BY <1>1, <3>1, MatrixOfWeek
    <3>3. score[i] \in Int /\ -Offset < score[i] /\ score[i] < Offset
      BY <3>1, Prices
    <3>4. QED
      BY <1>3, <3>1, <3>2, <3>3 DEF Entries, Entry
  <2>2. QED
    BY <2>1
<1>5. \A i \in Slotted \ F : Entries(f)[i] = Ineligible
  BY DEF Filled, Entries, Entry
<1>6. k \in Nat /\ k <= NSlots
  BY <1>1, <1>2, FS_CardinalityType, FS_Subset
<1> HIDE DEF F, score
<1>7. SumFunctionOnSet(flat, F) = SumFunctionOnSet(Entries(f), F) + SumFunctionOnSet(score, F)
  <2>1. \A i \in F : Entries(f)[i] \in Int /\ score[i] \in Int /\ flat[i] = Entries(f)[i] + score[i]
    BY <1>3, <1>4
  <2> HIDE DEF flat
  <2>2. QED
    BY <1>1, <2>1, SumAdded
<1>8. SumFunctionOnSet(flat, F) = (-Offset) * k
  <2>1. -Offset \in Int /\ \A i \in F : flat[i] = -Offset
    BY <1>3
  <2> HIDE DEF flat
  <2>2. QED
    BY <1>1, <1>2, <2>1, SumConstant
<1>9. Price(f) = SumFunctionOnSet(Entries(f), F) + SumFunctionOnSet(Entries(f), Slotted \ F)
  <2>1. \A i \in Slotted : Entries(f)[i] \in Int
    BY <1>3, <1>4, <1>5
  <2>2. QED
    BY <1>1, <2>1, SumSplit DEF Price
<1>10. SumFunctionOnSet(Entries(f), Slotted \ F) = Ineligible * (NSlots - k)
  <2>1. IsFiniteSet(Slotted \ F) /\ Cardinality(Slotted \ F) = NSlots - k
    <3>1. Slotted \cap F = F /\ IsFiniteSet(Slotted) /\ Cardinality(Slotted) = NSlots /\ Cardinality(F) = k
      BY <1>1, <1>2
    <3>2. IsFiniteSet(Slotted \ F) /\ Cardinality(Slotted \ F) = Cardinality(Slotted) - Cardinality(F)
      BY <3>1, FS_Difference
    <3>3. QED
      BY <3>1, <3>2
  <2>2. QED
    BY <1>3, <1>5, <2>1, SumConstant
<1>11. (-Offset) * k <= SumFunctionOnSet(score, F) /\ SumFunctionOnSet(score, F) <= Offset * k
  <2>1. -Offset \in Int /\ Offset \in Int
    BY <1>3
  <2>2. QED
    BY <1>1, <1>2, <1>4, <2>1, SumBounds
<1>12. /\ SumFunctionOnSet(score, F) \in Int /\ SumFunctionOnSet(Entries(f), F) \in Int
  <2>1. \A i \in F : Entries(f)[i] \in Int /\ score[i] \in Int
    BY <1>3, <1>4
  <2>2. QED
    BY <1>1, <2>1, SumType
<1> HIDE DEF k, flat
<1>13. \A o, n \in Nat : (-o) * n = -(o * n) /\ o * n \in Int
  OBVIOUS
<1>14. (-Offset) * k = -(Offset * k) /\ Offset * k \in Int /\ Ineligible * (NSlots - k) \in Int
  BY <1>3, <1>6, <1>13
<1>15. Price(f) = -Points(Players(f)) - Offset * k + Ineligible * (NSlots - k) /\ Price(f) \in Int
  BY <1>2, <1>7, <1>8, <1>9, <1>10, <1>12, <1>14
<1>16. QED
  BY <1>2, <1>6, <1>11, <1>12, <1>14, <1>15 DEF k
-----------------------------------------------------------------------------
\* Slots left empty are given columns that nobody plays in: an assignment of
\* every row, that costs no more.
LEMMA FullAssignment ==
  ASSUME week \in Weeks, problem = Matrix, NEW f \in Lineups
  PROVE  \E g \in Assignments : Costs(g) <= Price(f)
<1> DEFINE F == Filled(f)
           P == Players(f)
           E == Slotted \ F
           C == Numbers \ P
           e == Cardinality(E)
           c == Cardinality(C)
<1>1. /\ f \in [Slotted -> 0 .. NPlayers]
      /\ F \in SUBSET Slotted /\ P \in SUBSET Numbers /\ IsFiniteSet(Slotted) /\ IsFiniteSet(F)
      /\ P = {f[i] : i \in F}
      /\ \A i \in F : f[i] \in Numbers
      /\ \A i, k \in F : f[i] = f[k] => i = k
      /\ Cardinality(Slotted) = NSlots
  BY LineupType
<1>2. Cardinality(P) = Cardinality(F)
  <2>1. IsFiniteSet(F) /\ (\A i, k \in F : f[i] = f[k] => i = k)
    BY <1>1
  <2> HIDE DEF F
  <2>2. Cardinality({f[i] : i \in F}) = Cardinality(F)
    BY <2>1, SameSize
  <2>3. QED
    BY <1>1, <2>2
<1>3. /\ NSlots \in Nat /\ NPlayers \in Nat /\ NSlots <= NPlayers
      /\ IsFiniteSet(Numbers) /\ Cardinality(Numbers) = NPlayers
  BY WeekType, Spaces DEF Numbers
<1>4. E \in SUBSET Slotted /\ C \in SUBSET Numbers /\ Slotted \cap F = F /\ Numbers \cap P = P
  BY <1>1
<1> HIDE DEF F, P
<1>5. /\ IsFiniteSet(E) /\ e = NSlots - Cardinality(F)
      /\ IsFiniteSet(C) /\ c = NPlayers - Cardinality(P)
  <2>1. IsFiniteSet(Slotted \ F) /\ Cardinality(Slotted \ F) = NSlots - Cardinality(F)
    BY <1>1, <1>4, FS_Difference
  <2>2. IsFiniteSet(Numbers \ P) /\ Cardinality(Numbers \ P) = NPlayers - Cardinality(P)
    BY <1>3, <1>4, FS_Difference
  <2>3. QED
    BY <2>1, <2>2
<1>6. Cardinality(F) \in Nat
  BY <1>1, FS_CardinalityType
<1>7. e \in Nat /\ c \in Nat /\ e <= c
  BY <1>2, <1>3, <1>5, <1>6, FS_CardinalityType
<1>8. PICK x : x \in Bijection(1 .. e, E)
  BY <1>5, FS_CardinalityType DEF ExistsBijection
<1>9. PICK y : y \in Bijection(1 .. c, C)
  BY <1>5, FS_CardinalityType DEF ExistsBijection
<1> HIDE DEF E, C, e, c
<1>10. /\ \A i \in E : \E n \in 1 .. e : x[n] = i
       /\ \A n \in 1 .. c : y[n] \in C
       /\ \A m, n \in 1 .. c : y[m] = y[n] => m = n
  BY <1>8, <1>9 DEF Bijection, Injection, IsInjective, Surjection
<1>11. 1 .. e \subseteq 1 .. c
  BY <1>7
<1> DEFINE place(i) == CHOOSE n \in 1 .. e : x[n] = i
           g == [i \in Slotted |-> IF i \in F THEN f[i] ELSE y[place(i)]]
<1>12. \A i \in E : place(i) \in 1 .. e /\ place(i) \in 1 .. c /\ x[place(i)] = i
  BY <1>10, <1>11
<1> HIDE DEF place
<1>13. \A i \in Slotted : i \in F \/ i \in E
  BY DEF E
<1>14. (\A i \in E : i \notin F) /\ \A j \in C : j \in Numbers /\ j \notin P
  BY DEF E, C
<1>15. \A i \in Slotted : g[i] \in Numbers
  BY <1>1, <1>10, <1>12, <1>13, <1>14
<1>16. \A i \in Slotted : i \in F => g[i] = f[i] /\ g[i] \in P
  BY <1>1
<1>17. \A i \in Slotted : i \in E => g[i] = y[place(i)] /\ g[i] \in C
  BY <1>10, <1>12, <1>14
<1> HIDE DEF g
<1>18. \A i, k \in Slotted : g[i] = g[k] => i = k
  <2>1. \A i, k \in F : g[i] = g[k] => i = k
    BY <1>1, <1>16
  <2>2. \A i, k \in E : i \in Slotted /\ k \in Slotted /\ g[i] = g[k] => i = k
    BY <1>10, <1>12, <1>17
  <2>3. QED
    BY <1>13, <1>14, <1>16, <1>17, <2>1, <2>2
<1>19. Rows = Slotted /\ Columns = Numbers
  BY MatrixOfWeek
<1>20. g \in Assignments
  BY <1>15, <1>18, <1>19 DEF Assignments, g
<1> DEFINE cost == [i \in Slotted |-> problem.cost[i][g[i]]]
<1>21. ASSUME NEW i \in Slotted
       PROVE  cost[i] \in Int /\ Entries(f)[i] \in Int /\ cost[i] <= Entries(f)[i]
  <2>1. cost[i] = Cost(i, g[i]) /\ Cost(i, g[i]) \in Int /\ Cost(i, g[i]) <= Ineligible
    BY <1>15, MatrixOfWeek
  <2>2. CASE i \in F
    BY <1>16, <2>1, <2>2 DEF Entries, Entry, F, Filled
  <2>3. CASE i \notin F
    BY <2>1, <2>3 DEF Entries, Entry, F, Filled
  <2>4. QED
    BY <2>2, <2>3
<1>22. Costs(g) = SumFunctionOnSet(cost, Slotted)
  BY <1>19 DEF Costs
<1> HIDE DEF cost
<1>23. SumFunctionOnSet(cost, Slotted) <= Price(f)
  BY <1>1, <1>21, SumBelow DEF Price
<1>24. QED
  BY <1>20, <1>22, <1>23

\* What is made of the assignment returned is a lineup, at the price that was
\* paid for the assignment.
LEMMA ChosenLineup ==
  ASSUME week \in Weeks, problem = Matrix, Certified, Done
  PROVE  /\ Chosen \in Lineups
         /\ Price(Chosen) = Costs(Matched)
         /\ Players(Chosen) = Fielded
         /\ \A i \in Slotted : Best(i) # None => Best(i) \in Numbers /\ Chosen[i] = Best(i)
         /\ \A i \in Slotted : Best(i) = None => Chosen[i] = 0
<1>1. Rows = Slotted /\ Columns = Numbers /\ Width = NPlayers /\ NPlayers \in Nat /\ NSlots \in Nat
  BY MatrixOfWeek, WeekType
<1>2. /\ \A i \in Slotted : Matched[i] \in Numbers
      /\ \A i, k \in Slotted : Matched[i] = Matched[k] => i = k
  BY <1>1, MatchedRows DEF Done, Assignments
<1>3. ASSUME NEW i \in Slotted
      PROVE  Best(i) = IF Cost(i, Matched[i]) >= Ineligible THEN None ELSE Matched[i]
  <2>1. Matched[i] = CHOOSE k \in 1 .. Width : AssignedTo(i, k)
    BY <1>1 DEF Matched, Numbers
  <2>2. ~(Matched[i] > NPlayers)
    BY <1>1, <1>2 DEF Numbers
  <2>3. QED
    BY <2>1, <2>2 DEF Best
<1>4. ASSUME NEW i \in Slotted
      PROVE  /\ Best(i) = None => Cost(i, Matched[i]) = Ineligible
             /\ Best(i) # None => Best(i) = Matched[i] /\ Started[i].slot \in Available[Matched[i]].eligible
  <2>1. /\ Started[i].slot \in Available[Matched[i]].eligible => Cost(i, Matched[i]) < Ineligible
        /\ Started[i].slot \notin Available[Matched[i]].eligible => Cost(i, Matched[i]) = Ineligible
        /\ Cost(i, Matched[i]) \in Int
    BY <1>2, MatrixOfWeek
  <2>2. Matched[i] # None /\ Ineligible \in Int
    BY <1>1, <1>2 DEF Numbers
  <2>3. QED
    BY <1>3, <2>1, <2>2
<1>5. ASSUME NEW i \in Slotted
      PROVE  /\ Best(i) # None => Best(i) \in Numbers /\ Best(i) # 0 /\ Chosen[i] = Best(i)
             /\ Best(i) = None => Chosen[i] = 0
  BY <1>1, <1>2, <1>4 DEF Chosen, Slotted, Numbers
<1>6. Chosen \in Lineups
  <2>1. Chosen \in [1 .. NSlots -> 0 .. NPlayers]
    BY <1>1, <1>5 DEF Chosen, Slotted, Numbers
  <2>2. ASSUME NEW i \in 1 .. NSlots, Chosen[i] # 0
        PROVE  Started[i].slot \in Available[Chosen[i]].eligible
    BY <1>4, <1>5, <2>2 DEF Slotted
  <2>3. ASSUME NEW i \in 1 .. NSlots, NEW k \in 1 .. NSlots, Chosen[i] = Chosen[k] /\ Chosen[i] # 0
        PROVE  i = k
    BY <1>2, <1>4, <1>5, <2>3 DEF Slotted
  <2>4. QED
    BY <2>1, <2>2, <2>3 DEF Lineups
<1>7. Players(Chosen) = Fielded
  <2>1. ASSUME NEW x \in Fielded PROVE x \in Players(Chosen)
    <3>1. PICK i \in Slotted : x = Best(i) /\ Best(i) # None
      BY DEF Fielded, Slotted
    <3>2. x = Chosen[i] /\ x # 0
      BY <1>5, <3>1
    <3>3. QED
      BY <3>2 DEF Players, Slotted
  <2>2. ASSUME NEW x \in Players(Chosen) PROVE x \in Fielded
    <3>1. PICK i \in Slotted : x = Chosen[i] /\ x # 0
      BY DEF Players, Slotted
    <3>2. Best(i) # None /\ x = Best(i)
      BY <1>5, <3>1
    <3>3. QED
      BY <3>2 DEF Fielded, Slotted
  <2>3. QED
    BY <2>1, <2>2
<1>8. Price(Chosen) = Costs(Matched)
  <2> DEFINE cost == [i \in Slotted |-> problem.cost[i][Matched[i]]]
  <2>1. ASSUME NEW i \in Slotted PROVE cost[i] \in Int /\ cost[i] = Entries(Chosen)[i]
    <3>1. cost[i] = Cost(i, Matched[i]) /\ Cost(i, Matched[i]) \in Int
      BY <1>2, MatrixOfWeek
    <3>2. QED
      BY <1>4, <1>5, <3>1 DEF Entries, Entry
  <2>2. IsFiniteSet(Slotted)
    BY <1>6, LineupType
  <2>3. Costs(Matched) = SumFunctionOnSet(cost, Slotted)
    BY <1>1 DEF Costs
  <2> HIDE DEF cost
  <2>4. QED
    BY <2>1, <2>2, <2>3, SumSame DEF Price
<1>9. QED
  BY <1>5, <1>6, <1>7, <1>8

\* Filling one slot more is worth any points.
LEMMA Worth ==
  ASSUME NEW n \in Nat, NEW o \in Nat \ {0}, NEW big \in Nat, 2 * n * o <= big,
         NEW k \in 0 .. n, NEW l \in 0 .. n, NEW p \in Int, NEW q \in Int,
         p <= o * k, -(o * l) <= q,
         -p - o * k + big * (n - k) <= -q - o * l + big * (n - l)
  PROVE  l < k \/ (l = k /\ q <= p)
<1>1. (o + big) * k = o * k + big * k /\ (o + big) * l = o * l + big * l
  OBVIOUS
<1>2. big * (n - k) = big * n - big * k /\ big * (n - l) = big * n - big * l
  OBVIOUS
<1> DEFINE d == o + big
<1>3. /\ o * k \in Int /\ o * l \in Int /\ big * k \in Int /\ big * l \in Int /\ big * n \in Int
      /\ d * k \in Int /\ d * l \in Int /\ d \in Nat
  OBVIOUS
<1>4. q + d * l <= p + d * k
  <2> DEFINE ok == o * k  ol == o * l  bk == big * k  bl == big * l  bn == big * n
  <2>1. -p - ok + (bn - bk) <= -q - ol + (bn - bl) /\ d * k = ok + bk /\ d * l = ol + bl
    BY <1>1, <1>2
  <2>2. ok \in Int /\ ol \in Int /\ bk \in Int /\ bl \in Int /\ bn \in Int
    BY <1>3
  <2> HIDE DEF ok, ol, bk, bl, bn, d
  <2>3. QED
    BY <2>1, <2>2
<1>5. CASE l > k
  <2>1. \A a, b \in Nat : b > a => d * b >= d * a + d
    OBVIOUS
  <2>2. d * l >= d * k + d
    BY <1>5, <2>1
  <2>3. \A a \in 0 .. n : o * a <= o * n
    OBVIOUS
  <2>4. o * k <= o * n /\ o * l <= o * n /\ 2 * n * o = o * n + o * n /\ o * n \in Int
    BY <2>3
  <2> DEFINE dl == d * l  dk == d * k  ok == o * k  ol == o * l  on == o * n
  <2>5. /\ dl >= dk + d /\ q + dl <= p + dk /\ ok <= on /\ ol <= on /\ on + on <= big
        /\ p <= ok /\ -ol <= q /\ d = o + big
    BY <1>4, <2>2, <2>4
  <2>6. dl \in Int /\ dk \in Int /\ ok \in Int /\ ol \in Int /\ on \in Int
    BY <1>3, <2>4
  <2> HIDE DEF dl, dk, ok, ol, on, d
  <2>7. FALSE
    BY <2>5, <2>6
  <2>8. QED
    BY <2>7
<1>6. CASE l = k
  <2> DEFINE dk == d * k
  <2>1. q + dk <= p + dk /\ dk \in Int
    BY <1>3, <1>4, <1>6
  <2> HIDE DEF dk
  <2>2. q <= p
    BY <2>1
  <2>3. QED
    BY <1>6, <2>2
<1>7. QED
  BY <1>5, <1>6

LEMMA BestLineup ==
  ASSUME week \in Weeks, problem = Matrix, WellFormed(problem), TypeOK, Certified
  PROVE  FoundOptimum
<1> SUFFICES ASSUME Done
             PROVE  /\ Chosen \in Lineups
                    /\ \A f \in Lineups :
                         \/ Cardinality(Players(f)) < Cardinality(Fielded)
                         \/ Cardinality(Players(f)) = Cardinality(Fielded) /\ Points(Players(f)) <= OptimalPoints
  BY DEF FoundOptimum, Players
<1>1. Chosen \in Lineups /\ Price(Chosen) = Costs(Matched) /\ Players(Chosen) = Fielded
  BY ChosenLineup
<1>2. ASSUME NEW f \in Lineups
      PROVE  \/ Cardinality(Players(f)) < Cardinality(Fielded)
             \/ Cardinality(Players(f)) = Cardinality(Fielded) /\ Points(Players(f)) <= OptimalPoints
  <2> DEFINE k == Cardinality(Fielded)
             l == Cardinality(Players(f))
             p == Points(Fielded)
             q == Points(Players(f))
  <2>1. /\ k \in Nat /\ k <= NSlots /\ p \in Int /\ p <= Offset * k
        /\ Price(Chosen) = -p - Offset * k + Ineligible * (NSlots - k)
        /\ Price(Chosen) \in Int
    BY <1>1, PriceOfLineup
  <2>2. /\ l \in Nat /\ l <= NSlots /\ q \in Int /\ -Offset * l <= q
        /\ Price(f) = -q - Offset * l + Ineligible * (NSlots - l)
        /\ Price(f) \in Int
    BY PriceOfLineup
  <2>3. PICK g \in Assignments : Costs(g) <= Price(f)
    BY FullAssignment
  <2>4. Costs(Matched) <= Costs(g)
    BY NoneIsCheaper DEF Done
  <2>5. Price(Chosen) <= Price(f)
    <3>1. Costs(g) \in Int
      <4>1. \A i \in Rows : problem.cost[i][g[i]] \in Int
        BY DualTypes DEF Assignments
      <4>2. QED
        BY <4>1, DualTypes, SumType DEF Costs
    <3>2. QED
      BY <1>1, <2>1, <2>2, <2>3, <2>4, <3>1
  <2>6. Offset \in Nat \ {0} /\ Ineligible \in Nat /\ NSlots \in Nat /\ 2 * NSlots * Offset <= Ineligible
    BY Prices, WeekType
  <2> HIDE DEF k, l, p, q
  <2>7. k \in 0 .. NSlots /\ l \in 0 .. NSlots
    BY <2>1, <2>2, <2>6
  <2>8. -(Offset * l) <= q
    BY <2>2, <2>6, <2>7
  <2>9. l < k \/ (l = k /\ q <= p)
    BY <2>1, <2>2, <2>5, <2>6, <2>7, <2>8, Worth
  <2>10. QED
    BY <2>9 DEF k, l, p, q, OptimalPoints
<1>3. QED
  BY <1>1, <1>2
-----------------------------------------------------------------------------
\* What was started is one of the lineups, with every slot filled.
Real == [i \in Slotted |-> CHOOSE p \in Numbers : Nth(Startable, p) = Nth(InLineup, i)]

LEMMA RealLineup ==
  ASSUME week \in Weeks, LegallyStarted
  PROVE  /\ Real \in Lineups /\ Filled(Real) = Slotted
         /\ \A i \in Slotted : Available[Real[i]] = Started[i]
<1>1. NSlots \in Nat /\ NPlayers \in Nat
  BY WeekType
<1>2. ASSUME NEW i \in Slotted
      PROVE  Real[i] \in Numbers /\ Nth(Startable, Real[i]) = Nth(InLineup, i)
  <2>1. Nth(InLineup, i) \in Startable
    BY Places, WeekType
  <2>2. PICK p \in Numbers : Nth(Startable, p) = Nth(InLineup, i)
    BY <2>1, Places
  <2>3. QED
    BY <2>2 DEF Real
<1>3. ASSUME NEW i \in Slotted
      PROVE  Available[Real[i]] = Started[i] /\ Real[i] # 0
  BY <1>1, <1>2, Places DEF Numbers
<1>4. \A i, k \in Slotted : Real[i] = Real[k] => i = k
  BY <1>2, Places
<1>5. Real \in Lineups
  <2>1. Real \in [1 .. NSlots -> 0 .. NPlayers]
    BY <1>1, <1>2 DEF Real, Slotted, Numbers
  <2>2. \A i \in 1 .. NSlots : Started[i].slot \in Available[Real[i]].eligible
    BY <1>3 DEF LegallyStarted, Slotted
  <2>3. QED
    BY <1>4, <2>1, <2>2 DEF Lineups, Slotted
<1>6. Filled(Real) = Slotted
  BY <1>3 DEF Filled
<1>7. QED
  BY <1>3, <1>5, <1>6

StartedScore == [i \in 1 .. NSlots |-> Started[i].points]

LEMMA ActualType ==
  ASSUME week \in Weeks
  PROVE  /\ ActualPoints = SumFunctionOnSet(StartedScore, Slotted)
         /\ \A i \in Slotted : StartedScore[i] = Started[i].points /\ Started[i].points \in Int
<1>1. \A i \in Slotted : StartedScore[i] = Started[i].points
  BY DEF StartedScore, Slotted
<1>2. \A i \in Slotted : Started[i].points \in Int
  BY Places DEF Player
<1>3. DOMAIN StartedScore = Slotted
  BY DEF StartedScore, Slotted
<1>4. ActualPoints = SumFunctionOnSet(StartedScore, DOMAIN StartedScore)
  BY DEF ActualPoints, StartedScore, SumFunction
<1>5. QED
  BY <1>1, <1>2, <1>3, <1>4

\* If what was started was legal, the best lineup fills every slot too, and it
\* scores no less.
LEMMA AllFilled ==
  ASSUME week \in Weeks, problem = Matrix, WellFormed(problem), TypeOK, Certified, Done, LegallyStarted
  PROVE  /\ Filled(Chosen) = Slotted
         /\ ActualPoints <= OptimalPoints
         /\ ActualPoints \in Int /\ OptimalPoints \in Int
<1>1. Real \in Lineups /\ Filled(Real) = Slotted /\ \A i \in Slotted : Available[Real[i]] = Started[i]
  BY RealLineup
<1>2. \A i \in Filled(Real) : StartedScore[i] = Available[Real[i]].points
  BY <1>1, ActualType
<1>3. Cardinality(Players(Real)) = NSlots /\ Points(Players(Real)) = ActualPoints
  BY <1>1, <1>2, FilledByPlayers, ActualType, LineupType
<1>4. /\ Chosen \in Lineups /\ Players(Chosen) = Fielded
      /\ \/ Cardinality(Players(Real)) < Cardinality(Fielded)
         \/ Cardinality(Players(Real)) = Cardinality(Fielded) /\ Points(Players(Real)) <= OptimalPoints
  BY <1>1, BestLineup, ChosenLineup DEF FoundOptimum, Players
<1>5. /\ Cardinality(Fielded) \in Nat /\ Cardinality(Fielded) <= NSlots /\ Points(Fielded) \in Int
      /\ Points(Players(Real)) \in Int /\ NSlots \in Nat
  BY <1>1, <1>4, PriceOfLineup, WeekType
<1>6. Cardinality(Fielded) = NSlots /\ Points(Players(Real)) <= OptimalPoints
  BY <1>3, <1>4, <1>5
<1>7. Filled(Chosen) = Slotted
  <2>1. /\ IsFiniteSet(Slotted) /\ Filled(Chosen) \in SUBSET Slotted /\ IsFiniteSet(Filled(Chosen))
        /\ Cardinality(Slotted) = NSlots
        /\ Players(Chosen) = {Chosen[i] : i \in Filled(Chosen)}
        /\ \A i, k \in Filled(Chosen) : Chosen[i] = Chosen[k] => i = k
    BY <1>4, LineupType
  <2>2. Cardinality(Players(Chosen)) = Cardinality(Filled(Chosen))
    BY <2>1, SameSize
  <2>3. QED
    BY <1>4, <1>6, <2>1, <2>2, FS_Subset
<1>8. QED
  BY <1>3, <1>5, <1>6, <1>7 DEF OptimalPoints

LEMMA MissedSum ==
  ASSUME week \in Weeks, problem = Matrix, WellFormed(problem), TypeOK, Certified
  PROVE  NobodyBeatsTheBest /\ MissedAddsUp
<1>1. NobodyBeatsTheBest
  BY AllFilled DEF NobodyBeatsTheBest, LeftOnBench
<1>2. ASSUME Done, LegallyStarted
      PROVE  SumFunction([i \in 1 .. NSlots |-> Missed(i)]) = LeftOnBench
  <2> DEFINE missed == [i \in 1 .. NSlots |-> Missed(i)]
             best == [i \in Slotted |-> Available[Chosen[i]].points]
  <2>1. Filled(Chosen) = Slotted /\ ActualPoints \in Int /\ OptimalPoints \in Int
    BY <1>2, AllFilled
  <2>2. /\ Chosen \in Lineups /\ Players(Chosen) = Fielded
        /\ \A i \in Slotted : Best(i) # None => Best(i) \in Numbers /\ Chosen[i] = Best(i)
        /\ \A i \in Slotted : Best(i) = None => Chosen[i] = 0
    BY <1>2, ChosenLineup
  <2>3. ASSUME NEW i \in Slotted
        PROVE  /\ best[i] \in Int /\ StartedScore[i] \in Int /\ missed[i] \in Int
               /\ best[i] = missed[i] + StartedScore[i]
    <3>1. Best(i) # None
      BY <2>1, <2>2 DEF Filled
    <3>2. Best(i) \in Numbers /\ Chosen[i] = Best(i)
      BY <2>2, <3>1
    <3>3. missed[i] = Available[Best(i)].points - Started[i].points
      BY <3>1 DEF Missed, Slotted
    <3>4. Available[Best(i)].points \in Int /\ StartedScore[i] = Started[i].points /\ Started[i].points \in Int
      BY <3>2, Prices, ActualType
    <3>5. best[i] = Available[Best(i)].points
      BY <3>2
    <3> HIDE DEF missed, best
    <3>6. QED
      BY <3>3, <3>4, <3>5
  <2>4. \A i \in Filled(Chosen) : best[i] = Available[Chosen[i]].points
    BY <2>1
  <2>5. SumFunction(missed) = SumFunctionOnSet(missed, Slotted)
    <3>1. DOMAIN missed = Slotted
      BY DEF Slotted
    <3> HIDE DEF missed
    <3>2. QED
      BY <3>1 DEF SumFunction
  <2> HIDE DEF missed, best
  <2>6. OptimalPoints = SumFunctionOnSet(best, Slotted)
    BY <2>1, <2>2, <2>4, FilledByPlayers DEF OptimalPoints
  <2>7. IsFiniteSet(Slotted)
    BY <2>2, LineupType
  <2>8. SumFunctionOnSet(best, Slotted) = SumFunctionOnSet(missed, Slotted) + SumFunctionOnSet(StartedScore, Slotted)
    BY <2>3, <2>7, SumAdded
  <2>9. SumFunctionOnSet(missed, Slotted) \in Int
    BY <2>3, <2>7, SumType
  <2>10. ActualPoints = SumFunctionOnSet(StartedScore, Slotted)
    BY ActualType
  <2>11. SumFunction(missed) = LeftOnBench
    BY <2>1, <2>5, <2>6, <2>8, <2>9, <2>10 DEF LeftOnBench
  <2>12. QED
    BY <2>11 DEF missed
<1>3. QED
  BY <1>1, <1>2 DEF MissedAddsUp
-----------------------------------------------------------------------------
\* While a week is scored, _hungarian works on its matrix.
Scoring == week \in Weeks /\ problem = Matrix /\ Inv

LEMMA ScoringHolds == Spec => []Scoring
<1>1. Init => Scoring
  <2> SUFFICES ASSUME Init PROVE Scoring
    OBVIOUS
  <2>1. week \in Weeks /\ problem = Matrix /\ Start
    BY DEF Init
  <2>2. WellFormed(problem)
    BY <2>1, MatrixOfWeek
  <2>3. QED
    BY <2>1, <2>2, InitInv DEF Scoring
<1>2. Scoring /\ [Next]_vars => Scoring'
  <2> SUFFICES ASSUME Scoring, [Next]_vars PROVE Scoring'
    OBVIOUS
  <2>1. week' = week /\ [Step]_assignment /\ problem' = problem
    BY DEF Next, vars, assignment, Step
  <2>2. Inv'
    BY <2>1, StepInv DEF Scoring
  <2>3. Matrix' = Matrix
    BY <2>1 DEF Matrix, Width, NSlots, NPlayers, InLineup, Startable, Cost, Started, Available, Kept, Offset
  <2>4. QED
    BY <2>1, <2>2, <2>3 DEF Scoring
<1>3. QED
  BY <1>1, <1>2, PTL DEF Spec

\* For every week, however many slots and players and whatever their scores and
\* eligibilities, optimal_assignment fills as many slots as can be filled, and no
\* lineup that fills as many scores more.
THEOREM BestIsFound == Spec => []FoundOptimum
<1>1. Scoring => FoundOptimum
  BY BestLineup, Certificate DEF Scoring, Inv
<1>2. QED
  BY <1>1, ScoringHolds, PTL

\* For every week: what a manager has started, where players may start, never
\* scores more than the lineup score_week compares it with.
THEOREM Unbeaten == Spec => []NobodyBeatsTheBest
<1>1. Scoring => NobodyBeatsTheBest
  BY MissedSum, Certificate DEF Scoring, Inv
<1>2. QED
  BY <1>1, ScoringHolds, PTL

\* For every week: the differences listed slot by slot add up to the points left on
\* the bench.
THEOREM MissedIsAll == Spec => []MissedAddsUp
<1>1. Scoring => MissedAddsUp
  BY MissedSum, Certificate DEF Scoring, Inv
<1>2. QED
  BY <1>1, ScoringHolds, PTL
=============================================================================
