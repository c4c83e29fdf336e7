---------------------------- MODULE MCFulfilment ----------------------------
(* Small instances of Fulfilment for TLC. *)
EXTENDS Fulfilment, TLC

CONSTANTS h1, h2, h3

\* The order.paid subscriber of the source, and two that want the failures.
MCHandlerType == (h1 :> "order.paid") @@ (h2 :> "labelFailed") @@ (h3 :> "labelFailed")
=============================================================================
