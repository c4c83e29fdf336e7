------------------------------ MODULE Checkout ------------------------------
(***************************************************************************)
(* initiateCheckout (src/checkout.controller.ts) beside the inventory      *)
(* service.  A checkout opens a transaction, and in it merges two carts in *)
(* memory, reads the reservations of the user's cart, extends each of them *)
(* through InventoryService, inserts the order, empties the cart in memory *)
(* and commits.                                                            *)
(*                                                                         *)
(* Only the reads and the insert are in that transaction.  The extensions  *)
(* are transactions of their own, on a second connection of the same pool: *)
(* a checkout that waits for one keeps the connection it has.  The carts   *)
(* are in no transaction at all.  When the outer transaction times out the *)
(* database rolls it back, but the code runs on until its next statement   *)
(* in it, which throws.  Prices and totals are left out.                   *)
(***************************************************************************)
EXTENDS Inventory

CONSTANTS
    Checkouts,      \* concurrent calls of initiateCheckout, a part of Sessions
    GuestCarts,     \* carts that are merged into one of Carts, in or beside it
    PoolSize,       \* connections in the pool
    UnitLimit       \* bound of the units in the carts

ASSUME CheckoutAssumption ==
    /\ Checkouts \subseteq Sessions
    /\ PoolSize \in Nat /\ UnitLimit \in Nat

VARIABLES
    inCart,         \* inCart[c]: the units in cart c, of whatever products
    ordered,        \* the reservations that orders have been made from
    checkout        \* checkout[r]: the progress of checkout r

checkoutVars == <<inCart, ordered, checkout>>
allCheckoutVars == <<vars, checkoutVars>>

\* open: the outer transaction is; rows: what it read; todo: rows still to be
\* extended.
NoCheckout == [at |-> "idle", cart |-> None, open |-> FALSE, rows |-> {}, todo |-> {}]

AllCarts == Carts \cup GuestCarts

UnitsInCarts == Total(inCart)

CheckoutInit ==
    /\ Init
    /\ inCart = [c \in AllCarts |-> 0]
    /\ ordered = {}
    /\ checkout = [r \in Checkouts |-> NoCheckout]

Return(r) == checkout' = [checkout EXCEPT ![r] = NoCheckout]

\* Connections in use: an open checkout has one, and so has an open transaction
\* of the inventory service, a checkout's own extensions included.
Connections ==
    Cardinality({r \in Checkouts : checkout[r].open})
      + Cardinality({x \in Procs : tx[x].op # "idle"})

-----------------------------------------------------------------------------
\* Wrong on purpose, for Merged: the guest's lines replace the user's.
MergedOver(guest, user) ==
    [inCart EXCEPT ![user] = IF inCart[guest] > 0 THEN inCart[guest] ELSE @, ![guest] = 0]

\* mergeCart of two carts, which the caller has to keep different.
Merged(guest, user) == [inCart EXCEPT ![user] = @ + inCart[guest], ![guest] = 0]

\* The transaction is opened, and the first thing done in it is the merge.
BeginCheckout(r, guest, user) ==
    /\ checkout[r].at = "idle"
    /\ guest # user
    /\ Connections < PoolSize
    /\ inCart' = Merged(guest, user)
    /\ checkout' = [checkout EXCEPT ![r] = [at |-> "read", cart |-> user,
                                            open |-> TRUE, rows |-> {},
                                            todo |-> {}]]
    /\ UNCHANGED <<vars, ordered>>

\* The loop goes on with another row, or is over.
NextRow(todo) == IF todo = {} THEN "create" ELSE "extend"

\* findMany({ where: { cartId: userCartId } }): the guest's rows are not in it.
ReadRows(r) ==
    LET found == {id \in live : reservation[id].cart = checkout[r].cart} IN
    /\ checkout[r].at = "read"
    /\ checkout' = [checkout EXCEPT ![r].rows = found, ![r].todo = found,
                            ![r].at = NextRow(found)]
    /\ UNCHANGED <<vars, inCart, ordered>>

-----------------------------------------------------------------------------
(* The extension of one row, which names its product and cart, not the row *)

ExtendStarts(r) ==
    /\ checkout[r].at = "extend"
    /\ Connections < PoolSize
    /\ \E id \in checkout[r].todo :
          /\ ExtendRead(r, reservation[id].product, checkout[r].cart)
          /\ checkout' = [checkout EXCEPT ![r].todo = @ \ {id}, ![r].at = "update"]
    /\ UNCHANGED <<inCart, ordered>>

\* Wrong on purpose, for PriceRead: the price is read outside the transaction.
PriceReadOutside(r, todo) ==
    checkout' = [checkout EXCEPT ![r].todo = todo, ![r].at = NextRow(todo)]

\* Wrong on purpose, for PriceRead: the loop ends after its first row.
PriceReadOnce(r, todo) ==
    IF checkout[r].open THEN checkout' = [checkout EXCEPT ![r].todo = todo, ![r].at = "create"]
                    ELSE Return(r)

\* After each extension the price is read in the outer transaction, which
\* throws when that is no longer open.  The read changes nothing, and so is
\* part of the step that the extension ends with.
PriceRead(r, todo) ==
    IF checkout[r].open THEN checkout' = [checkout EXCEPT ![r].todo = todo, ![r].at = NextRow(todo)]
                    ELSE Return(r)

\* No such row any more, or the one that was found is already extended.
ExtendReturns(r) ==
    /\ checkout[r].at = "extend"
    /\ Connections < PoolSize
    /\ \E id \in checkout[r].todo :
          LET found == Matching(reservation[id].product, checkout[r].cart) IN
          /\ found = {} \/ \E first \in found : AlreadyExtended(first)
          /\ PriceRead(r, checkout[r].todo \ {id})
    /\ UNCHANGED <<vars, inCart, ordered>>

\* A row that is gone by now makes the update throw, and the checkout with it.
ExtendEnds(r) ==
    /\ checkout[r].at = "update"
    /\ ExtendUpdate(r)
    /\ IF tx[r].rows \subseteq live THEN PriceRead(r, checkout[r].todo)
                                    ELSE Return(r)
    /\ UNCHANGED <<inCart, ordered>>

\* Wrong on purpose, for PoolTimeout: a wait without an end.
PoolWaits(r) == FALSE

\* No connection within the time a transaction waits for one.
PoolTimeout(r) ==
    /\ checkout[r].at = "extend"
    /\ Connections >= PoolSize
    /\ Return(r)
    /\ UNCHANGED <<vars, inCart, ordered>>

-----------------------------------------------------------------------------
\* The order is inserted, visible to nobody yet, and the cart emptied.
Create(r) ==
    /\ checkout[r].at = "create"
    /\ inCart' = [inCart EXCEPT ![checkout[r].cart] = 0]
    /\ checkout' = [checkout EXCEPT ![r].at = "commit"]
    /\ UNCHANGED <<vars, ordered>>

CommitOrder(r) ==
    /\ checkout[r].at = "commit"
    /\ ordered' = ordered \cup checkout[r].rows
    /\ Return(r)
    /\ UNCHANGED <<vars, inCart>>

\* The five seconds of the outer transaction are over during an extension,
\* which goes on.  Anywhere else the next statement throws: CheckoutFails.
Timeout(r) ==
    /\ checkout[r].at \in {"extend", "update"}
    /\ checkout[r].open
    /\ checkout' = [checkout EXCEPT ![r].open = FALSE, ![r].rows = {}]
    /\ UNCHANGED <<vars, inCart, ordered>>

\* A statement in a transaction that is no longer open throws, and any other
\* may fail; what was done to the carts and by the extensions stays done.
CheckoutFails(r) ==
    /\ checkout[r].at \in {"read", "extend", "create", "commit"}
    /\ Return(r)
    /\ UNCHANGED <<vars, inCart, ordered>>

ExtendFails(r) ==
    /\ checkout[r].at = "update"
    /\ Fail(r)
    /\ Return(r)
    /\ UNCHANGED <<inCart, ordered>>

-----------------------------------------------------------------------------
\* The shopper puts a unit into a cart.
AddItem(c) ==
    /\ UnitsInCarts < UnitLimit
    /\ inCart' = [inCart EXCEPT ![c] = @ + 1]
    /\ UNCHANGED <<vars, ordered, checkout>>

\* Everyone else: the steps of Inventory that are not a checkout's, over the
\* same pool (a reservation takes a connection and gives it back in one step).
InventoryStep ==
    /\ Next
    /\ \A r \in Checkouts : tx'[r] = tx[r]
    /\ UNCHANGED checkoutVars
    /\ Connections' <= PoolSize
    /\ live' \subseteq live \/ Connections < PoolSize

CheckoutNext ==
    \/ InventoryStep
    \/ \E c \in AllCarts : AddItem(c)
    \/ \E r \in Checkouts, guest \in GuestCarts, user \in Carts :
          BeginCheckout(r, guest, user)
    \/ \E r \in Checkouts : ReadRows(r)
    \/ \E r \in Checkouts : ExtendStarts(r)
    \/ \E r \in Checkouts : ExtendReturns(r)
    \/ \E r \in Checkouts : ExtendEnds(r)
    \/ \E r \in Checkouts : PoolTimeout(r)
    \/ \E r \in Checkouts : Create(r)
    \/ \E r \in Checkouts : CommitOrder(r)
    \/ \E r \in Checkouts : Timeout(r)
    \/ \E r \in Checkouts : CheckoutFails(r)
    \/ \E r \in Checkouts : ExtendFails(r)

CheckoutSpec == CheckoutInit /\ [][CheckoutNext]_allCheckoutVars

\* The database answers: every statement returns or throws, and a wait for a
\* connection is bounded.  The outer timeout is not relied upon.
CheckoutFairness ==
    \A r \in Checkouts :
       /\ WF_allCheckoutVars(ReadRows(r) \/ Create(r) \/ CommitOrder(r))
       /\ WF_allCheckoutVars(ExtendStarts(r) \/ ExtendReturns(r) \/ PoolTimeout(r))
       /\ WF_allCheckoutVars(ExtendEnds(r))

CheckoutFairSpec == CheckoutSpec /\ CheckoutFairness

-----------------------------------------------------------------------------
Stages == {"idle", "read", "extend", "update", "create", "commit"}

WellStaged(r) ==
    /\ checkout[r].at \in Stages
    /\ checkout[r].at # "idle" => checkout[r].cart \in Carts
    /\ checkout[r].open => checkout[r].todo \subseteq checkout[r].rows
    /\ tx[r].op = "extend" <=> checkout[r].at = "update"
    /\ checkout[r].at \in {"read", "create", "commit"} => checkout[r].open

\* Type invariant of the checkout part, with the transaction each stage has.
CheckoutTypeOK ==
    /\ TypeOK
    /\ inCart \in [AllCarts -> 0..UnitLimit]
    /\ \A id \in ordered : reservation[id] # None
    /\ \A r \in Checkouts : WellStaged(r)

\* Another reservation of the same product for the same cart.
HasTwin(id) ==
    \E other \in Ids \ {id} :
       /\ reservation[other] # None
       /\ reservation[other].product = reservation[id].product
       /\ reservation[other].cart = reservation[id].cart

\* Who has ordered keeps what was reserved for the longer time: every
\* reservation an order was made from, while it is in the table, has the
\* extended deadline, whatever was released, expired or extended during the
\* checkout (checkout.controller.ts:25-27).  A second reservation of the same
\* product is out of reach: both extensions may find the first.
OrderedIsExtended ==
    \A id \in ordered \cap live :
       HasTwin(id) \/ expiration[id] = reservation[id].createdAt + Extension

\* The invariant behind it.  What a call has read are rows of its cart; those
\* it is done with are settled, but for the one its transaction is extending.
RowsOfCart(c) ==
    {id \in Ids : reservation[id] # None /\ reservation[id].cart = c}

Settled(id) ==
    id \in live =>
       HasTwin(id) \/ expiration[id] = reservation[id].createdAt + Extension

CallProgress(r) ==
    LET done == checkout[r].rows \ checkout[r].todo IN
    /\ checkout[r].rows \cup checkout[r].todo \subseteq RowsOfCart(checkout[r].cart)
    /\ checkout[r].at \in {"create", "commit"} => checkout[r].todo = {}
    /\ \A id \in done :
          Settled(id) \/ (checkout[r].at = "update" /\ tx[r].rows = {id})

Call == [at : Stages, cart : Carts \cup {None}, open : BOOLEAN,
         rows : SUBSET Ids, todo : SUBSET Ids]

CartsBounded ==
    /\ inCart \in [AllCarts -> Nat]
    /\ IsFiniteSet(Units(inCart)) /\ UnitsInCarts <= UnitLimit

CheckoutInv ==
    /\ CheckoutTypeOK
    /\ CartsBounded
    /\ checkout \in [Checkouts -> Call]
    /\ \A r \in Checkouts : CallProgress(r)
    /\ \A id \in ordered : id \in Ids /\ Settled(id)

\* Units leave the carts by the insert of an order only, and then those of its
\* own cart: no merge with another cart, additions meanwhile, failure or timeout
\* before the insert takes a unit (checkout.controller.ts:13-16 and 62-84).  An
\* insert that is rolled back after that does not bring them back: the cart is in
\* memory, and its clearing is no part of the transaction (line 82).
ItemsLeaveWithOrder ==
    [][\/ UnitsInCarts' >= UnitsInCarts
       \/ \E r \in Checkouts :
             /\ checkout[r].at = "create" /\ checkout'[r].at = "commit"
             /\ UnitsInCarts' = UnitsInCarts - inCart[checkout[r].cart]]_allCheckoutVars

\* Every checkout ends, also when all connections are held by checkouts that
\* each wait for a second one.
CheckoutEnds ==
    \A r \in Checkouts : checkout[r].at # "idle" ~> checkout[r].at = "idle"
=============================================================================
