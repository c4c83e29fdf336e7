---------------------------- MODULE MCInventory ----------------------------
(* Small instances of Inventory for TLC. *)
EXTENDS Inventory, TLC

CONSTANTS p1, p2

\* Two units of the first product, one of the second.
MCStock == (p1 :> 2) @@ (p2 :> 1)
MCStockOne == (p1 :> 2)

\* Counting the units of a function is adding up its values.
F == INSTANCE Functions
ASSUME TotalIsSum ==
    \A S \in SUBSET (1..4) : \A f \in [S -> 0..3] : Total(f) = F!SumFunction(f)

MCSymmetry == Permutations(Carts) \cup Permutations(Sessions)
                 \cup Permutations(Workers) \cup Permutations(Ids)
=============================================================================
