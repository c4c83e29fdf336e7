-------------------------- MODULE MCOrderLifecycle --------------------------
(***************************************************************************)
(* OrderLifecycle for TLC: a caller and two jobs overlap on one order,     *)
(* while a second order has its own callback from the gateway.             *)
(***************************************************************************)
EXTENDS OrderLifecycle, TLC

CONSTANTS o1, o2

MCOrders == {o1, o2}
MCPaying == {o2}
=============================================================================
