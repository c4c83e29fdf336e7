----------------------------- MODULE MCCheckout -----------------------------
(* Small instances of Checkout for TLC. *)
EXTENDS Checkout

MCStock == [p \in Products |-> 1]

=============================================================================
