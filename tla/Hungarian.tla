----------------------------- MODULE Hungarian -----------------------------
(***************************************************************************)
(* _hungarian of app/lineup.py: a minimum-cost assignment of every row to a *)
(* column of its own, by shortest augmenting paths with potentials.  One    *)
(* step is one round of one of its loops.  Columns are counted from 1, and  *)
(* column 0 holds the row that is being assigned, as in the code.           *)
(***************************************************************************)
EXTENDS Integers

CONSTANT Infinity  \* float("inf")

ASSUME InfinityAssumption == Infinity \notin Int

VARIABLES
  problem,   \* the cost matrix and its size
  u, v,      \* the potentials of the rows and of the columns
  parent,    \* the row a column is matched to, or 0
  way,       \* the column from which a column is reached most cheaply
  row,       \* the row being assigned
  col0,      \* the column the search or the augmentation is at
  minCost,   \* the reduced cost of reaching a column from the columns used
  used,      \* the columns the search has been at
  at,        \* which loop is running
  before     \* history: the columns used before the search came to a column

state == <<u, v, parent, way, row, col0, minCost, used, at, before>>
assignment == <<problem, state>>
-----------------------------------------------------------------------------
WellFormed(p) ==
  /\ p.rows \in Nat /\ p.cols \in Nat /\ p.rows <= p.cols
  /\ p.cost \in [1 .. p.rows -> [1 .. p.cols -> Int]]

Rows == 1 .. problem.rows
Columns == 1 .. problem.cols

TypeOK ==
  /\ u \in [0 .. problem.rows -> Int]
  /\ v \in [0 .. problem.cols -> Int]
  /\ parent \in [0 .. problem.cols -> 0 .. problem.rows]
  /\ way \in [0 .. problem.cols -> 0 .. problem.cols]
  /\ row \in 0 .. problem.rows
  /\ col0 \in 0 .. problem.cols
  /\ minCost \in [0 .. problem.cols -> Int \union {Infinity}]
  /\ used \subseteq 0 .. problem.cols
  /\ at \in {"rows", "search", "augment", "done"}
  /\ before \in [0 .. problem.cols -> SUBSET (0 .. problem.cols)]

\* How much a pairing costs beyond the potentials of its row and column.
Slack(i, j) == problem.cost[i][j] - u[i] - v[j]

Start ==
  /\ u = [i \in 0 .. problem.rows |-> 0]
  /\ v = [j \in 0 .. problem.cols |-> 0]
  /\ parent = [j \in 0 .. problem.cols |-> 0]
  /\ way = [j \in 0 .. problem.cols |-> 0]
  /\ row = 0
  /\ col0 = 0
  /\ minCost = [j \in 0 .. problem.cols |-> Infinity]
  /\ used = {}
  /\ at = "rows"
  /\ before = [j \in 0 .. problem.cols |-> {}]

RowsLeft == row < problem.rows

\* The next row is put into column 0.
NextRow ==
  /\ at = "rows"
  /\ RowsLeft
  /\ row' = row + 1
  /\ parent' = [parent EXCEPT ![0] = row + 1]
  /\ col0' = 0
  /\ minCost' = [j \in 0 .. problem.cols |-> Infinity]
  /\ used' = {}
  /\ before' = [before EXCEPT ![0] = {}]
  /\ at' = "search"
  /\ UNCHANGED <<u, v, way>>

\* The column at hand reaches column j more cheaply than any before it.
Nearer(j) == minCost[j] = Infinity \/ Slack(parent[col0], j) < minCost[j]

Cheapest(j) == IF Nearer(j) THEN Slack(parent[col0], j) ELSE minCost[j]

Reached == used \union {col0}
Free == (0 .. problem.cols) \ Reached

\* The first of the cheapest columns: the comparison is strict.
IsNext(j) ==
  /\ j \in Free
  /\ \A k \in Free : Cheapest(j) < Cheapest(k) \/ (Cheapest(j) = Cheapest(k) /\ j <= k)

\* One round of the search: to the next column, moving the potentials so that
\* the edge to it becomes tight.
Search(j) ==
  /\ at = "search"
  /\ IsNext(j)
  /\ LET delta == Cheapest(j)
         tree == {parent[c] : c \in Reached}
     IN  /\ u' = [i \in 0 .. problem.rows |-> IF i \in tree THEN u[i] + delta ELSE u[i]]
         /\ v' = [c \in 0 .. problem.cols |-> IF c \in Reached THEN v[c] - delta ELSE v[c]]
         /\ minCost' = [c \in 0 .. problem.cols |->
              IF c \in Free THEN Cheapest(c) - delta ELSE minCost[c]]
  /\ way' = [c \in 0 .. problem.cols |-> IF c \in Free /\ Nearer(c) THEN col0 ELSE way[c]]
  /\ used' = Reached
  /\ col0' = j
  /\ before' = [before EXCEPT ![j] = Reached]
  /\ at' = IF parent[j] = 0 THEN "augment" ELSE "search"
  /\ UNCHANGED <<parent, row>>

\* Mutant: the path is not followed.
AugmentOnce ==
  /\ at = "augment"
  /\ col0 # 0
  /\ parent' = [parent EXCEPT ![col0] = parent[way[col0]]]
  /\ col0' = 0
  /\ UNCHANGED <<u, v, way, row, minCost, used, at, before>>

\* One column of the path back to column 0 takes over its predecessor's row.
Augment ==
  /\ at = "augment"
  /\ col0 # 0
  /\ parent' = [parent EXCEPT ![col0] = parent[way[col0]]]
  /\ col0' = way[col0]
  /\ UNCHANGED <<u, v, way, row, minCost, used, at, before>>

EndAugment ==
  /\ at = "augment"
  /\ col0 = 0
  /\ at' = "rows"
  /\ UNCHANGED <<u, v, parent, way, row, col0, minCost, used, before>>

\* Mutant: the loop waits for a row beyond the last.
FinishLate ==
  /\ at = "rows"
  /\ row > problem.rows
  /\ at' = "done"
  /\ UNCHANGED <<u, v, parent, way, row, col0, minCost, used, before>>

Finish ==
  /\ at = "rows"
  /\ row = problem.rows
  /\ at' = "done"
  /\ UNCHANGED <<u, v, parent, way, row, col0, minCost, used, before>>

Step ==
  /\ \/ NextRow \/ (\E j \in Columns : Search(j)) \/ Augment \/ EndAugment \/ Finish
  /\ UNCHANGED problem

\* Whatever the matrix: the users of this module say which they build.
Hungarian == WellFormed(problem) /\ Start /\ [][Step]_assignment
-----------------------------------------------------------------------------
\* assignment[row] = col.
AssignedTo(i, j) == parent[j] = i

\* The rows that have got their potential: the first round of a row sets it.
Priced(i) == i < row \/ (i = row /\ used # {})

\* No pairing ever costs less than its potentials: what makes a matching of
\* tight pairings a cheapest one.
DualFeasible == \A i \in Rows, j \in Columns : Priced(i) => Slack(i, j) >= 0

\* Only matched columns ever get a potential, and never a positive one.
FreeColumnsAreUnpriced == \A j \in Columns : v[j] <= 0 /\ (parent[j] = 0 => v[j] = 0)

\* _hungarian returns an assignment of every row to a column of its own, and
\* the potentials prove that none is cheaper: every pairing chosen is tight.
Certified ==
  at = "done" =>
    /\ \A i \in Rows : \E j \in Columns :
         /\ AssignedTo(i, j) /\ Slack(i, j) = 0
         /\ \A k \in Columns : AssignedTo(i, k) => k = j
    /\ \A i \in Rows, j \in Columns : Slack(i, j) >= 0
    /\ FreeColumnsAreUnpriced
=============================================================================
