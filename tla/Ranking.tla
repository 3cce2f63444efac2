------------------------------ MODULE Ranking ------------------------------
(***************************************************************************)
(* The Python idioms the reports are written with: a comprehension with a   *)
(* condition, sorted with a key (which keeps the order of equals), min with *)
(* a key, a slice, sum, and round (which takes a half to the even           *)
(* neighbour).  None of them is recursive or takes an operator that the     *)
(* provers cannot see into.                                                 *)
(***************************************************************************)
EXTENDS Integers, SequencesExt

CONSTANT None  \* Python's None, SQL NULL

AtLeast(n, floor) == Max({n, floor})
AtMost(n, ceiling) == Min({n, ceiling})

\* The n-th of some numbers, all of them in their order, and the elements of a
\* sequence that have these numbers.
Nth(S, n) == CHOOSE i \in S : Cardinality({k \in S : k <= i}) = n
Listed(S) == [n \in 1 .. Cardinality(S) |-> Nth(S, n)]
Kept(s, S) == [n \in 1 .. Cardinality(S) |-> s[Nth(S, n)]]

\* The n-th greatest of some keys is the one with n keys, its own included, that
\* are greater, or equal and not after it.
UpTo(key, i) == {j \in DOMAIN key : key[j] > key[i] \/ (key[j] = key[i] /\ j <= i)}
Ranked(key) == [n \in DOMAIN key |-> CHOOSE i \in DOMAIN key : Cardinality(UpTo(key, i)) = n]

\* sorted(s, key=Key, reverse=True)
Descending(s, Key(_)) ==
  LET order == Ranked([i \in DOMAIN s |-> Key(s[i])])
  IN  [n \in DOMAIN s |-> s[order[n]]]

Ascending(s, Key(_)) == Descending(s, LAMBDA e : -Key(e))

\* max(s, key=Key): the first of the greatest.
First(s, Key(_)) == Descending(s, Key)[1]

\* s[:n] and s[n:]
Take(s, n) == [i \in 1 .. AtMost(n, Len(s)) |-> s[i]]
Drop(s, n) == [i \in 1 .. Len(s) - n |-> s[n + i]]

Total(s, Key(_)) == SumFunction([i \in DOMAIN s |-> Key(s[i])])

\* round(a / b), b > 0
RoundDiv(a, b) ==
  LET up == (2 * a + b) \div (2 * b)
      half == (2 * a + b) % (2 * b) = 0
  IN  IF half /\ up % 2 = 1 THEN up - 1 ELSE up
=============================================================================
