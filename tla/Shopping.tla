------------------------------ MODULE Shopping ------------------------------
(***************************************************************************)
(* The cart of one browser: the clicks of its pages (the product page, the *)
(* cart page and the checkout page of src/storefront/app), the handlers    *)
(* they call (cart.controller.ts, createOrder of order.controller.ts and   *)
(* order.service.ts) and the CartStore that keeps the cart in memory       *)
(* (src/modules/cart/cart.service.ts).                                     *)
(*                                                                         *)
(* A browser has several tabs, so clicks overlap.  Every handler awaits    *)
(* the catalog before it touches the cart, and everything after its last   *)
(* await is one step.  createOrder copies the lines of the cart: it holds  *)
(* the array of lines it started with, whose line objects addItem and      *)
(* updateQuantity go on writing to until they are copied.                  *)
(*                                                                         *)
(* The stock is what others leave of it: a read of the catalog answers any *)
(* number up to MaxStock.  OrderPlacement has the deductions; here a check *)
(* passes or fails.  What a shopper who does one thing at a time expects   *)
(* to find is kept beside the cart, in kept, for as long as that is so.    *)
(***************************************************************************)
EXTENDS Integers, FiniteSets

CONSTANTS
    Products,
    Clicks,         \* clicks that may be under way at the same time
    Typed,          \* quantities a shopper types: a number input accepts any
    MaxStock,       \* the most a product ever has in stock
    MaxOwed,        \* bound of how far a line is taken below zero
    None

ASSUME QuantityAssumption ==
    Typed \subseteq Int /\ MaxStock \in Nat /\ MaxOwed \in Nat

ASSUME NoneAssumption == None \notin Products /\ None \notin Int

VARIABLES
    cart,       \* cart[p]: the quantity in the line of p, None without one
    page,       \* the lines the checkout page shows since it was opened
    click,      \* click[k]: the progress of click k, in the browser and behind it
    calm,       \* no two clicks have ever overlapped, no order answered in error
    kept        \* kept[p]: put - ordered - taken out, while calm

vars == <<cart, page, click, calm, kept>>

Lines == [Products -> Int \cup {None}]
NoLines == [p \in Products |-> None]
LinesOf(lines) == {p \in Products : lines[p] # None}
Qty(lines, p) == IF lines[p] = None THEN 0 ELSE lines[p]

\* items, live: the lines createOrder has, and those of them that are still
\* the cart's own objects.  waiting: the page has not seen an error.
Idle == [at |-> "idle", kind |-> None, product |-> None, quantity |-> 0,
         seen |-> 0, items |-> NoLines, live |-> {}, waiting |-> FALSE]

NothingKept == [p \in Products |-> 0]

Init ==
    /\ cart = NoLines
    /\ page = NoLines
    /\ click = [k \in Clicks |-> Idle]
    /\ calm = TRUE
    /\ kept = NothingKept

Active == {k \in Clicks : click[k].at # "idle"}

\* k moves on as r; lines of the others stop being the cart's own in ps, or
\* are written to, if they are.
Moves(k, r) == click' = [click EXCEPT ![k] = r]
Unlinks(k, r, ps) ==
    click' = [j \in Clicks |-> IF j = k THEN r
                               ELSE [click[j] EXCEPT !.live = @ \ ps]]
Writes(k, p, q) ==
    click' = [j \in Clicks |->
                 IF j = k THEN Idle
                 ELSE IF p \in click[j].live THEN [click[j] EXCEPT !.items[p] = q]
                 ELSE click[j]]

\* The shopper's own account, in which product p now has n.
Keeps(p, n) == kept' = IF calm THEN [kept EXCEPT ![p] = n] ELSE kept

-----------------------------------------------------------------------------
(* The pages.  A click that begins while another is under way ends the calm *)

Begin(k, kind, p, q) ==
    /\ click[k].at = "idle"
    /\ Moves(k, [at |-> "sent", kind |-> kind, product |-> p, quantity |-> q,
                 seen |-> 0, items |-> NoLines, live |-> {}, waiting |-> TRUE])
    /\ calm' = (calm /\ Active = {})
    /\ kept' = IF Active = {} THEN kept ELSE NothingKept
    /\ UNCHANGED <<cart, page>>

\* "Add to Cart": Number(quantity) || 1, so a typed zero is sent as one.
ClickAdd(k, p, typed) == Begin(k, "add", p, IF typed = 0 THEN 1 ELSE typed)

\* "+" and "-" send one more or less than the page shows; a quantity that is
\* not positive removes the line.
ClickQuantity(k, p, q) == Begin(k, IF q <= 0 THEN "remove" ELSE "update", p, q)

ClickRemove(k, p) == Begin(k, "remove", p, 0)

OpenCheckout ==
    /\ page' = cart
    /\ UNCHANGED <<cart, click, calm, kept>>

ClickSubmit(k) == Begin(k, "submit", None, 0)

-----------------------------------------------------------------------------
(* The cart's handlers                                                     *)

\* getProductById answers; n is the stock as others leave it.
ReadProduct(k, n) ==
    /\ click[k].at = "sent"
    /\ click[k].kind \in {"add", "update"}
    /\ Moves(k, [click[k] EXCEPT !.at = "priced", !.seen = n])
    /\ UNCHANGED <<cart, page, calm, kept>>

\* Wrong on purpose, for TotalWanted: the line's quantity is not counted.
AddedAlone(k) == click[k].quantity

\* What the line would hold, from its quantity after the await.
TotalWanted(k) == Qty(cart, click[k].product) + click[k].quantity

AddItem(k) ==
    LET p == click[k].product IN
    /\ click[k].at = "priced" /\ click[k].kind = "add"
    /\ TotalWanted(k) <= click[k].seen
    /\ Qty(cart, p) + click[k].quantity >= -MaxOwed
    /\ cart' = [cart EXCEPT ![p] = Qty(cart, p) + click[k].quantity]
    /\ Writes(k, p, Qty(cart, p) + click[k].quantity)
    /\ Keeps(p, kept[p] + click[k].quantity)
    /\ UNCHANGED <<page, calm>>

\* A product that is no longer a line is not put back.
UpdateQuantity(k) ==
    LET p == click[k].product  q == click[k].quantity IN
    /\ click[k].at = "priced" /\ click[k].kind = "update"
    /\ q <= click[k].seen
    /\ IF cart[p] # None
       THEN cart' = [cart EXCEPT ![p] = q] /\ Writes(k, p, q) /\ Keeps(p, q)
       ELSE Moves(k, Idle) /\ UNCHANGED <<cart, kept>>
    /\ UNCHANGED <<page, calm>>

InsufficientStock(k) ==
    /\ click[k].at = "priced"
    /\ \/ click[k].kind = "add" /\ TotalWanted(k) > click[k].seen
       \/ click[k].kind = "update" /\ click[k].quantity > click[k].seen
    /\ Moves(k, Idle)
    /\ UNCHANGED <<cart, page, calm, kept>>

RemoveItem(k) ==
    LET p == click[k].product IN
    /\ click[k].at = "sent" /\ click[k].kind = "remove"
    /\ cart' = [cart EXCEPT ![p] = None]
    /\ Unlinks(k, Idle, {p})
    /\ Keeps(p, 0)
    /\ UNCHANGED <<page, calm>>

-----------------------------------------------------------------------------
(* createOrder                                                             *)

\* The page sends its lines as fallbackItems.
Body == [items |-> NoLines, fallbackItems |-> page]

\* Wrong on purpose, for FallbackItems: what the page sends is used.
FallbackSent(body) == body.fallbackItems

\* The handler looks for them under another name.
FallbackItems(body) == body.items

\* Wrong on purpose, for Gather: the lines are taken out as they are read.
GatherAndClear(k) ==
    /\ click[k].at = "sent" /\ click[k].kind = "submit"
    /\ Unlinks(k, [click[k] EXCEPT !.at = "copy", !.items = cart], Products)
    /\ cart' = NoLines
    /\ UNCHANGED <<page, calm, kept>>

\* getCart maps over the array of lines there is.
Gather(k) ==
    /\ click[k].at = "sent" /\ click[k].kind = "submit"
    /\ Moves(k, [click[k] EXCEPT !.at = "copy", !.items = cart,
                                 !.live = LinesOf(cart)])
    /\ UNCHANGED <<cart, page, calm, kept>>

\* The product of a line arrives, and the line is copied as it is now.
CopyLine(k, p) ==
    /\ click[k].at = "copy"
    /\ p \in click[k].live
    /\ Moves(k, [click[k] EXCEPT !.live = @ \ {p}])
    /\ UNCHANGED <<cart, page, calm, kept>>

\* All have arrived; an empty cart is filled from the request.
Gathered(k) ==
    LET items == IF click[k].items # NoLines THEN click[k].items
                                             ELSE FallbackItems(Body)
    IN  /\ click[k].at = "copy" /\ click[k].live = {}
        /\ Moves(k, IF items = NoLines THEN Idle
                    ELSE [click[k] EXCEPT !.at = "insert", !.items = items])
        /\ UNCHANGED <<cart, page, calm, kept>>

\* The stock has been checked and taken, and the order is inserted.
Insert(k) ==
    /\ click[k].at = "insert"
    /\ Moves(k, [click[k] EXCEPT !.at = "clear"])
    /\ kept' = IF calm THEN [p \in Products |-> kept[p] - Qty(click[k].items, p)]
                       ELSE kept
    /\ UNCHANGED <<cart, page, calm>>

\* The rest of createOrder up to its answer, and, when the page still waits
\* for that, the DELETE of the cart that it sends then.
ClearCart(k) ==
    /\ click[k].at = "clear"
    /\ cart' = NoLines
    /\ Unlinks(k, IF click[k].waiting THEN [click[k] EXCEPT !.at = "drop"]
                                      ELSE Idle, Products)
    /\ UNCHANGED <<page, calm, kept>>

\* The reservations are deleted and the order answered.
DropReservations(k) ==
    /\ click[k].at = "drop"
    /\ Moves(k, IF click[k].waiting THEN [click[k] EXCEPT !.at = "delete"] ELSE Idle)
    /\ UNCHANGED <<cart, page, calm, kept>>

DeleteCart(k) ==
    /\ click[k].at = "delete"
    /\ cart' = NoLines
    /\ Unlinks(k, Idle, Products)
    /\ UNCHANGED <<page, calm, kept>>

-----------------------------------------------------------------------------
\* Any await may throw, and the page shows the error.  When the insert was
\* made nevertheless and only its answer is lost, the cart stays full.
Fails(k) ==
    /\ click[k].at # "idle"
    /\ Moves(k, Idle)
    /\ calm' = (calm /\ click[k].at # "clear")
    /\ kept' = IF calm' THEN kept ELSE NothingKept
    /\ UNCHANGED <<cart, page>>

\* The page loses the answer while the handler goes on.  Only a submission
\* would have done something with it.
GivesUp(k) ==
    /\ click[k].kind = "submit" /\ click[k].waiting
    /\ click[k].at \notin {"idle", "delete"}
    /\ Moves(k, [click[k] EXCEPT !.waiting = FALSE])
    /\ UNCHANGED <<cart, page, calm, kept>>

\* The carts are in the memory of the process.
Restart ==
    /\ cart # NoLines \/ Active # {}
    /\ cart' = NoLines
    /\ click' = [k \in Clicks |-> Idle]
    /\ calm' = FALSE
    /\ kept' = NothingKept
    /\ UNCHANGED page

Handler(k) ==
    \/ \E n \in 0..MaxStock : ReadProduct(k, n)
    \/ AddItem(k)
    \/ UpdateQuantity(k)
    \/ InsufficientStock(k)
    \/ RemoveItem(k)
    \/ Gather(k)
    \/ \E p \in Products : CopyLine(k, p)
    \/ Gathered(k)
    \/ Insert(k)
    \/ ClearCart(k)
    \/ DropReservations(k)
    \/ DeleteCart(k)

Next ==
    \/ \E k \in Clicks, p \in Products, typed \in Typed : ClickAdd(k, p, typed)
    \/ \E k \in Clicks, p \in Products, q \in 0..MaxStock : ClickQuantity(k, p, q)
    \/ \E k \in Clicks, p \in Products : ClickRemove(k, p)
    \/ \E k \in Clicks : ClickSubmit(k)
    \/ OpenCheckout
    \/ \E k \in Clicks : Handler(k)
    \/ \E k \in Clicks : Fails(k)
    \/ \E k \in Clicks : GivesUp(k)
    \/ Restart

Spec == Init /\ [][Next]_vars

-----------------------------------------------------------------------------
\* Where a click is; the kinds of click that get there are not spelled out.
Click == [at : {"idle", "sent", "priced", "copy", "insert", "clear", "drop", "delete"},
          kind : {"add", "update", "remove", "submit", None},
          product : Products \cup {None}, quantity : Int, seen : 0..MaxStock,
          items : Lines, live : SUBSET Products, waiting : BOOLEAN]

\* Type invariant; a line that is still the cart's own is one that was copied.
TypeOK ==
    /\ cart \in Lines /\ page \in Lines
    /\ click \in [Clicks -> Click]
    /\ \A k \in Clicks : click[k].live \subseteq LinesOf(click[k].items)
    /\ calm \in BOOLEAN
    /\ kept \in [Products -> Int]

\* A shopper who does one thing at a time finds in the cart what was put there
\* and neither taken out nor ordered, and nothing is ordered twice: through
\* refused clicks, failed submissions that are tried again, a checkout page
\* that shows an old cart and the second emptying of it
\* (order.service.ts:14-102, checkout/page.tsx:69-119).
OneAtATimeConserves ==
    calm => \/ \E k \in Clicks : click[k].at = "clear"
            \/ \A p \in Products : Qty(cart, p) = kept[p]

\* No cart, and no order made from one, ever asks for more of a product than
\* there ever was of it, however additions, changes and copies of its line
\* overlap: addItem adds to the quantity that is there after its await
\* (cart.service.ts:46-66).
WithinStock ==
    \A p \in Products :
       /\ Qty(cart, p) <= MaxStock
       /\ Qty(page, p) <= MaxStock
       /\ \A k \in Clicks : Qty(click[k].items, p) <= MaxStock

\* A submission that fails or is refused leaves the cart to be submitted
\* again: a line leaves it by a click on "remove" or "-", or once an order is in
\* the table (order.service.ts:52-97, cart.service.ts:92-100).
EmptiedAfterOrder ==
    [][\A p \in LinesOf(cart) \ LinesOf(cart') :
          \/ Restart
          \/ \E k \in Clicks : /\ click[k].kind = "remove"
                               /\ click[k].product = p /\ click'[k] = Idle
          \/ \E k \in Clicks : click[k].at \in {"clear", "delete"}]_vars

-----------------------------------------------------------------------------
(* The invariant that the proofs are by                                    *)

\* What kind of click, about what, is where.
StagesOK ==
    \A k \in Clicks :
       /\ click[k].at \in {"sent", "priced"} /\ click[k].kind # "submit" =>
             click[k].product \in Products
       /\ click[k].at = "priced" => click[k].kind \in {"add", "update"}

\* While calm there is one click at most: a submission has the lines of the
\* cart, which are ordered when it is about to clear it and gone after that.
CalmOK ==
    calm =>
       /\ \A j, k \in Active : j = k
       /\ \A k \in Clicks :
             /\ click[k].at \in {"copy", "insert"} => click[k].items = cart
             /\ click[k].at \in {"drop", "delete"} => cart = NoLines
             /\ click[k].at = "clear" => kept = NothingKept

IInv == TypeOK /\ StagesOK /\ WithinStock /\ CalmOK /\ OneAtATimeConserves
=============================================================================
