------------------------------ MODULE Rankings ------------------------------
(***************************************************************************)
(* How the deal search and the deal tools put things in order and cut      *)
(* them: sorted() of the retrieval service and std::stable_sort of the     *)
(* deal tools, by what they promise.                                       *)
(***************************************************************************)
EXTENDS Integers, Sequences, FiniteSets

FirstN(s, n) == SubSeq(s, 1, IF Len(s) < n THEN Len(s) ELSE n)

(* The members of the finite set S in the order of the relation precedes:  *)
(* the k-th is the one that k - 1 others precede.                          *)
Before(x, S, precedes) == {y \in S : <<y, x>> \in precedes}
Ranked(S, precedes) ==
  [k \in 1..Cardinality(S) |-> CHOOSE x \in S : Cardinality(Before(x, S, precedes)) = k - 1]

(* Positions of a list by descending key; equal keys keep their order.     *)
ByKey(positions, key) ==
  {p \in positions \X positions :
     key[p[1]] > key[p[2]] \/ (key[p[1]] = key[p[2]] /\ p[1] < p[2])}

(* What list s has at some of its positions, the highest key first.        *)
Arranged(s, positions, key) ==
  LET order == Ranked(positions, ByKey(positions, key))
  IN  [k \in DOMAIN order |-> s[order[k]]]
=============================================================================
