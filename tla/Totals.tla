------------------------------- MODULE Totals -------------------------------
(***************************************************************************)
(* The sum of a function's values.  It is counted instead of folded: the   *)
(* function stands for a collection that has f[x] units of each x, and its *)
(* total is the number of these units.                                     *)
(***************************************************************************)
EXTENDS Integers, FiniteSets

Units(f) == UNION {{x} \X (1..f[x]) : x \in DOMAIN f}

Total(f) == Cardinality(Units(f))
=============================================================================
