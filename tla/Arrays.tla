-------------------------------- MODULE Arrays --------------------------------
(***************************************************************************)
(* What filter() and sort() of the language do with an array, as           *)
(* functions of the positions of its elements: proofs can take neither an  *)
(* operator as a parameter nor the recursion of the standard modules.      *)
(***************************************************************************)
EXTENDS Integers, Sequences, FiniteSets

\* filter(): the elements at the given positions, in their order.
Kept(s, positions) ==
  LET F[i \in 0..Len(s)] == IF i = 0 THEN <<>>
                            ELSE IF i \in positions THEN Append(F[i - 1], s[i])
                            ELSE F[i - 1]
  IN  F[Len(s)]

\* Position i comes no later than j: the comparator puts it first, or it puts
\* neither first and i was first already, for sort() is stable.  `before` has
\* the pairs of positions the comparator tells apart.
NoLater(i, j, before) == <<i, j>> \in before \/ (<<j, i>> \notin before /\ i <= j)

\* sort()
SortedBy(s, before) ==
  LET rank == [i \in DOMAIN s |-> Cardinality({j \in DOMAIN s : NoLater(j, i, before)})]
  IN  [r \in DOMAIN s |-> s[CHOOSE i \in DOMAIN s : rank[i] = r]]

\* The pairs told apart by (a, b) => a - b.
Smaller(values) == {p \in (DOMAIN values) \X (DOMAIN values) : values[p[1]] < values[p[2]]}

=============================================================================
