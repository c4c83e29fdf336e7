-------------------------- MODULE MCOrderPlacement --------------------------
(* Small instances of OrderPlacement for TLC. *)
EXTENDS OrderPlacement

CONSTANTS p1, p2

MCStock == [p \in Products |-> 1]

\* A client may send no items, or the same line twice.
MCLine == [product |-> p1, quantity |-> 1]
MCFallbacks == {<<>>, <<MCLine, MCLine>>}

MCLineQuantities == {-1, 0, 1}

MCSymmetry == Permutations(Sessions) \cup Permutations(Ids)
                 \cup Permutations(Requests)
=============================================================================
