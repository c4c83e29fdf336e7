----------------------------- MODULE MCShopping -----------------------------
(* Small instances of Shopping for TLC. *)
EXTENDS Shopping, TLC

\* What is typed into the quantity field: an ordinary number, and one that the
\* field accepts although it makes no sense.
MCTyped == {-1, 1}

MCSymmetry == Permutations(Clicks) \cup Permutations(Products)
=============================================================================
