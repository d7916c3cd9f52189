------------------------------ MODULE Ordering ------------------------------
(***************************************************************************)
(* Lists whose order is given by a relation: what Go's sort leaves of a    *)
(* set, and of the positions of a list.                                    *)
(***************************************************************************)
EXTENDS Integers, FiniteSets

Least(S) == CHOOSE k \in S : \A j \in S : k <= j

\* The elements of S in the order of before, the pairs of a strict total order on S.
InOrder(S, before) ==
  LET rank == [i \in S |-> Cardinality({j \in S : <<j, i>> \in before})]
  IN  [k \in 1..Cardinality(S) |-> CHOOSE i \in S : rank[i] = k - 1]

Positions(S) == InOrder(S, {at \in S \X S : at[1] < at[2]})

\* What a list has at the positions K.
At(list, K) == LET order == Positions(K) IN [k \in DOMAIN order |-> list[order[k]]]
=============================================================================
