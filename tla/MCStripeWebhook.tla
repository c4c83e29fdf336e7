--------------------------- MODULE MCStripeWebhook ---------------------------
(***************************************************************************)
(* StripeWebhook for TLC: deliveries of a payment event and of an event    *)
(* the handler only records.                                               *)
(***************************************************************************)
EXTENDS StripeWebhook, TLC

CONSTANTS paid, other

MCEvents == {paid, other}
MCPayments == {paid}
=============================================================================
