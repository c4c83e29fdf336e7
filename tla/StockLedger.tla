----------------------------- MODULE StockLedger -----------------------------
(***************************************************************************)
(* What the inventory module promises its callers (ADR 0004): stock is     *)
(* either free or held under a reservation, holding takes units that are   *)
(* free, and ending a hold frees exactly the units it held.  Every change  *)
(* is one step.                                                            *)
(***************************************************************************)
EXTENDS Integers

CONSTANTS Products, Ids, Quantities, Stock, None

VARIABLES
    free,       \* free[p]: units of p anyone may take
    hold        \* hold[id]: the product and quantity held, or None

Holding == [product : Products, quantity : Quantities]

Init ==
    /\ free = Stock
    /\ hold = [id \in Ids |-> None]

Take(id, p, q) ==
    /\ hold[id] = None
    /\ free[p] >= q
    /\ free' = [free EXCEPT ![p] = @ - q]
    /\ hold' = [hold EXCEPT ![id] = [product |-> p, quantity |-> q]]

GiveBack(id) ==
    /\ hold[id] # None
    /\ free' = [free EXCEPT ![hold[id].product] = @ + hold[id].quantity]
    /\ hold' = [hold EXCEPT ![id] = None]

Next ==
    \/ \E id \in Ids, p \in Products, q \in Quantities : Take(id, p, q)
    \/ \E id \in Ids : GiveBack(id)

Spec == Init /\ [][Next]_<<free, hold>>
=============================================================================
