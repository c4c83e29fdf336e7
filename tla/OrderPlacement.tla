---------------------------- MODULE OrderPlacement ----------------------------
(***************************************************************************)
(* OrderService.createOrder (src/modules/orders/order.service.ts) beside   *)
(* the inventory service: requests that place orders, shoppers who change  *)
(* their carts meanwhile, and the transactions of Inventory on the same    *)
(* tables.                                                                 *)
(*                                                                         *)
(* createOrder opens no transaction.  Each await is a point where anything *)
(* else runs: it reads the product of every line of the cart and copies    *)
(* the line when that has come, checks the stock of every line with one    *)
(* read per line, then takes the stock of every line with one update per   *)
(* line and no condition, then inserts the order, then empties the cart in *)
(* memory, and at last deletes the cart's reservations.  A failure leaves  *)
(* what was done.                                                          *)
(*                                                                         *)
(* Nothing keeps a quantity above zero: the routes pass on the number they *)
(* get, the cart compares it with the stock from above only, and the items *)
(* a client sends along are not looked at.  A negative line passes every   *)
(* check, and its deduction puts units in the stock.                       *)
(***************************************************************************)
EXTENDS Inventory, Sequences, SequencesExt, TLC

CONSTANTS
    Requests,       \* concurrent calls of createOrder
    Fallbacks,      \* item lists a client may send along, sequences of lines
    LinesPerProduct, \* bound of the lines such a list has of one product
    LineQuantities, \* quantities a line may have, zero and negative ones too
    CartLimit,      \* bound of these from above
    MaxOrders,      \* bound of the number of orders
    MaxPutBack      \* bound of the units negative lines put in the stock

Line == [product : Products, quantity : LineQuantities]

ASSUME OrderAssumption ==
    /\ Requests \cap Procs = {}
    /\ IsFiniteSet(Requests) /\ IsFiniteSet(Products)
    /\ CartLimit \in Nat /\ MaxOrders \in Nat /\ MaxPutBack \in Nat
    /\ \A q \in LineQuantities : q \in Int /\ q <= CartLimit
    /\ None \notin LineQuantities
    /\ LinesPerProduct \in Nat \ {0}
    /\ \A items \in Fallbacks : items \in Seq(Line)

LinesOf(items, p) == {i \in DOMAIN items : items[i].product = p}

ASSUME LinesAssumption ==
    \A items \in Fallbacks, p \in Products :
       Cardinality(LinesOf(items, p)) <= LinesPerProduct

VARIABLES
    cart,           \* cart[c][p]: the quantity of the line of p, None without one
    orders,         \* the Order rows with their items, in order of creation
    call,           \* call[r]: the progress of the createOrder call of r
    putBack         \* putBack[p]: the units negative lines have ever put in the
                    \* stock of p, a history that no step depends on

orderVars == <<cart, orders, call, putBack>>
allVars == <<vars, orderVars>>

\* Where a call is: the line it is at, the items it works on, its cart.  live:
\* the products whose items are still the cart's own line objects.
NoCall == [at |-> "idle", cart |-> None, items |-> <<>>, live |-> {}, i |-> 0]

EmptyCart == [p \in Products |-> None]

PlacementInit ==
    /\ Init
    /\ cart = [c \in Carts |-> EmptyCart]
    /\ orders = <<>>
    /\ call = [r \in Requests |-> NoCall]
    /\ putBack = [p \in Products |-> 0]

\* The products that have a line, and the lines in whatever order they came.
InCart(c) == {p \in Products : cart[c][p] # None}
CartLines(c) ==
    SetToSeqs({[product |-> p, quantity |-> cart[c][p]] : p \in InCart(c)})

-----------------------------------------------------------------------------
(* The shopper.                                                            *)

Write(items, p, q) ==
    [i \in DOMAIN items |->
        IF items[i].product = p THEN [items[i] EXCEPT !.quantity = q] ELSE items[i]]

\* What a call that has not copied the line of p in cart c finds there.
Sees(k, c, p, q) ==
    IF k.cart # c \/ p \notin k.live THEN k
    ELSE IF q = None THEN [k EXCEPT !.live = @ \ {p}]
    ELSE [k EXCEPT !.items = Write(k.items, p, q)]

\* addItem, updateQuantity, removeItem (None): the last, synchronous part of
\* each.  The stock they compare with was read before an await and may since
\* be less, and a merge of two carts compares nothing: any quantity will do.
ChangeCart(c, p, q) ==
    /\ cart[c][p] # q
    /\ cart' = [cart EXCEPT ![c][p] = q]
    /\ call' = [r \in Requests |-> Sees(call[r], c, p, q)]
    /\ UNCHANGED <<vars, orders, putBack>>

-----------------------------------------------------------------------------
(* createOrder                                                             *)

\* The items the client sent along are ordered; none at all throws, before
\* anything is changed.
OrderFallback(r, c) ==
    \E items \in Fallbacks :
       call' = [call EXCEPT ![r] =
                   IF items = <<>> THEN NoCall
                   ELSE [at |-> "check", cart |-> c, items |-> items,
                         live |-> {}, i |-> 1]]

\* getCart maps over the lines there are; without any, its await brings
\* nothing.
Begin(r, c) ==
    /\ call[r].at = "idle"
    /\ Len(orders) < MaxOrders
    /\ IF cart[c] = EmptyCart THEN OrderFallback(r, c)
       ELSE \E items \in CartLines(c) :
               call' = [call EXCEPT ![r] = [at |-> "gather", cart |-> c, items |-> items,
                                            live |-> InCart(c), i |-> 1]]
    /\ UNCHANGED <<vars, cart, orders, putBack>>

\* The product of a line has come, and the line is copied as it is now.
CopyLine(r, p) ==
    /\ call[r].at = "gather" /\ p \in call[r].live
    /\ call' = [call EXCEPT ![r].live = @ \ {p}]
    /\ UNCHANGED <<vars, cart, orders, putBack>>

Gathered(r) ==
    /\ call[r].at = "gather" /\ call[r].live = {}
    /\ call' = [call EXCEPT ![r].at = "check"]
    /\ UNCHANGED <<vars, cart, orders, putBack>>

\* A read of a product throws: the catch goes on with the client's items,
\* although the cart is not empty.
GatherFails(r) ==
    /\ call[r].at = "gather"
    /\ OrderFallback(r, call[r].cart)
    /\ UNCHANGED <<vars, cart, orders, putBack>>

LineOf(r) == call[r].items[call[r].i]

\* Wrong on purpose, for AfterLine: one line too many.
AfterOneTooMany(k, phase) ==
    IF k.i <= Len(k.items) THEN [k EXCEPT !.i = k.i + 1]
                           ELSE [k EXCEPT !.i = 1, !.at = phase]

\* A call after its current line: at the next line, or in the next phase.
AfterLine(k, phase) ==
    IF k.i < Len(k.items) THEN [k EXCEPT !.i = k.i + 1]
                          ELSE [k EXCEPT !.i = 1, !.at = phase]

Advance(r, phase) == call' = [call EXCEPT ![r] = AfterLine(call[r], phase)]

\* Wrong on purpose, for Check: the order is created before the deduction.
CheckThenCreate(r) ==
    /\ call[r].at = "check"
    /\ IF CommittedAvailable[LineOf(r).product] < LineOf(r).quantity
       THEN call' = [call EXCEPT ![r] = NoCall]
       ELSE Advance(r, "create")
    /\ UNCHANGED <<vars, cart, orders, putBack>>

\* Wrong on purpose, for Check: nothing is compared.
CheckNothing(r) ==
    /\ call[r].at = "check"
    /\ Advance(r, "deduct")
    /\ UNCHANGED <<vars, cart, orders, putBack>>

\* getProductById reads the committed row; too little of it throws.
Check(r) ==
    /\ call[r].at = "check"
    /\ IF CommittedAvailable[LineOf(r).product] < LineOf(r).quantity
       THEN call' = [call EXCEPT ![r] = NoCall]
       ELSE Advance(r, "deduct")
    /\ UNCHANGED <<vars, cart, orders, putBack>>

\* The units a line puts in the stock when it is deducted.
Returned(line) == IF line.quantity < 0 THEN -line.quantity ELSE 0

\* update({ where: { productId }, data: { availableStock: { decrement } } }):
\* a statement of its own, with no condition on the stock that is left.
Deduct(r) ==
    LET line == LineOf(r) IN
    /\ call[r].at = "deduct"
    /\ lock[line.product] = None
    /\ putBack[line.product] + Returned(line) <= MaxPutBack
    /\ available' = [available EXCEPT ![line.product] = @ - line.quantity]
    /\ putBack' = [putBack EXCEPT ![line.product] = @ + Returned(line)]
    /\ Advance(r, "create")
    /\ UNCHANGED <<reserved, lock, before, rowVars, now, tx, cart, orders>>

\* The order and its items are inserted by one statement.
CreateRow(r) ==
    /\ call[r].at = "create"
    /\ orders' = Append(orders, [by |-> r, items |-> call[r].items])
    /\ call' = [call EXCEPT ![r].at = "clear"]
    /\ UNCHANGED <<vars, cart, putBack>>

\* clearCart: the whole cart, whatever it holds by now.  Calls that are
\* reading it keep the lines they have.
ClearCart(r) ==
    /\ call[r].at = "clear"
    /\ cart' = [cart EXCEPT ![call[r].cart] = EmptyCart]
    /\ call' = [s \in Requests |->
                   IF s = r THEN [call[s] EXCEPT !.at = "drop"]
                   ELSE IF call[s].cart = call[r].cart THEN [call[s] EXCEPT !.live = {}]
                   ELSE call[s]]
    /\ UNCHANGED <<vars, orders, putBack>>

\* stockReservation.deleteMany({ where: { cartId } }): the rows go, the
\* counters of their items stay as they are.
DropReservations(r) ==
    /\ call[r].at = "drop"
    /\ live' = {id \in live : reservation[id].cart # call[r].cart}
    /\ call' = [call EXCEPT ![r] = NoCall]
    /\ UNCHANGED <<stockVars, reservation, expiration, now, tx, cart, orders, putBack>>

\* A statement of the call fails (a lost connection, an order id that is
\* taken: it is drawn from the millisecond and a number below 1000).
CallFails(r) ==
    /\ call[r].at \in {"check", "deduct", "create", "drop"}
    /\ call' = [call EXCEPT ![r] = NoCall]
    /\ UNCHANGED <<vars, cart, orders, putBack>>

-----------------------------------------------------------------------------
\* The process stops and starts again: carts and calls are gone, and every
\* open transaction is rolled back.
Restart ==
    /\ \/ cart # [c \in Carts |-> EmptyCart]
       \/ \E r \in Requests : call[r].at # "idle"
    /\ available' = CommittedAvailable
    /\ reserved' = CommittedReserved
    /\ lock' = [p \in Products |-> None]
    /\ tx' = [x \in Procs |-> Idle]
    /\ cart' = [c \in Carts |-> EmptyCart]
    /\ call' = [r \in Requests |-> NoCall]
    /\ UNCHANGED <<before, rowVars, now, orders, putBack>>

OrderStep(r) ==
    \/ \E c \in Carts : Begin(r, c)
    \/ \E p \in Products : CopyLine(r, p)
    \/ Gathered(r)
    \/ GatherFails(r)
    \/ Check(r)
    \/ Deduct(r)
    \/ CreateRow(r)
    \/ ClearCart(r)
    \/ DropReservations(r)
    \/ CallFails(r)

PlacementNext ==
    \/ Next /\ UNCHANGED orderVars
    \/ \E c \in Carts, p \in Products, q \in LineQuantities \cup {None} :
          ChangeCart(c, p, q)
    \/ \E r \in Requests : OrderStep(r)
    \/ Restart

PlacementSpec == PlacementInit /\ [][PlacementNext]_allVars

-----------------------------------------------------------------------------
\* The units a line takes: none if it is negative.
Taken(line) == IF line.quantity > 0 THEN line.quantity ELSE 0

\* The units of p that those of the lines of items take that lines names.
UnitsOn(items, lines, p) ==
    Total([i \in LinesOf(items, p) \cap lines |-> Taken(items[i])])

Sold(p) ==
    Total([o \in DOMAIN orders |->
              UnitsOn(orders[o].items, DOMAIN orders[o].items, p)])

\* The most that the calls under way can take of an item between them.
Overdraft == Cardinality(Requests) * (LinesPerProduct * CartLimit)

Phases == {"idle", "gather", "check", "deduct", "create", "clear", "drop"}

\* Type invariant of the placement part.
PlacementTypeOK ==
    /\ TypeOK
    /\ cart \in [Carts -> [Products -> LineQuantities \cup {None}]]
    /\ putBack \in [Products -> Nat]
    /\ \A o \in Range(orders) : o.by \in Requests /\ o.items \in Seq(Line)
    /\ \A r \in Requests :
          /\ call[r].at \in Phases
          /\ call[r].items \in Seq(Line)
          /\ call[r].live \subseteq Products
          /\ call[r].at # "idle" => call[r].i \in 1..Len(call[r].items)

\* An order in the table is backed by units that have left the stock: what is
\* available, reserved and sold together is never more than there was and what
\* negative lines have put there, with partial failures, restarts and rolled
\* back credits in between (each line is deducted before the order is created,
\* order.service.ts:40-75).
SoldIsTaken ==
    \A p \in Products :
       CommittedAvailable[p] + CommittedReserved[p] + Sold(p) <= Stock[p] + putBack[p]

\* How far the counter of an item falls below zero: once it is sold out every
\* further check fails, so only the calls that had passed theirs still deduct,
\* the lines they have of it: one, or as many as a client has sent, each of
\* which is compared alone (order.service.ts:32-47).  Negative lines only move
\* the counter away from there; what they make it possible to sell is putBack.
OversellBounded == \A p \in Products : CommittedAvailable[p] >= -Overdraft

-----------------------------------------------------------------------------
(* The invariants behind these.                                            *)

PlacementCall ==
    [at : Phases, cart : Carts \cup {None}, items : Seq(Line),
     live : SUBSET Products, i : Nat]

WellFormed(c) ==
    /\ c \in PlacementCall
    /\ c.at # "idle" => c.cart \in Carts /\ c.i \in 1..Len(c.items)
    /\ c.at = "gather" => c.i = 1
    /\ c.live # {} => c.at = "gather"
    /\ \A p \in Products : Cardinality(LinesOf(c.items, p)) <= LinesPerProduct

\* The units of p that call c has taken from the stock for an order that is
\* not there yet.
InHand(c, p) ==
    CASE c.at = "deduct" -> UnitsOn(c.items, 1..(c.i - 1), p)
      [] c.at = "create" -> UnitsOn(c.items, DOMAIN c.items, p)
      [] OTHER -> 0

\* The units of p that call c may still take: its lines that have passed their
\* check and are not deducted.
Due(c, p) ==
    CASE c.at = "check" -> UnitsOn(c.items, 1..(c.i - 1), p)
      [] c.at = "deduct" -> UnitsOn(c.items, c.i..Len(c.items), p)
      [] OTHER -> 0

\* Orders, and units on their way to one, have left the stock or what was put
\* into it.
SoldOrInHand(p) ==
    CommittedAvailable[p] + CommittedReserved[p] + Sold(p)
      + Total([r \in Requests |-> InHand(call[r], p)]) <= Stock[p] + putBack[p]

\* Whatever is still due is taken within the bound.
DueBounded(p) ==
    CommittedAvailable[p] - Total([r \in Requests |-> Due(call[r], p)]) >= -Overdraft

\* The transactions of Inventory, beside deductions that may leave an item
\* with less than nothing.
TransactionsProgress ==
    /\ \A x \in Procs : /\ tx[x].todo \subseteq tx[x].rows
                        /\ tx[x].at # None => tx[x].at \in tx[x].todo
    /\ \A p \in Products :
          lock[p] # None =>
             /\ available[p] + reserved[p] = before[p].available + before[p].reserved
             /\ available[p] >= before[p].available

PlacementInv ==
    /\ PlacementTypeOK
    /\ TransactionsProgress
    /\ orders \in Seq([by : Requests, items : Seq(Line)])
    /\ call \in [Requests -> PlacementCall]
    /\ \A r \in Requests : WellFormed(call[r])
    /\ \A p \in Products : SoldOrInHand(p) /\ DueBounded(p)
=============================================================================
