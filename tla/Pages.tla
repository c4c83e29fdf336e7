------------------------------- MODULE Pages -------------------------------
(***************************************************************************)
(* One tab of the storefront: the page it shows and the cart's badge in    *)
(* its Navbar, each filled by requests that are answered, refused or lost  *)
(* in any order (src/storefront/app, components/Navbar.tsx, lib/api.ts),   *)
(* and the reads behind them (catalog.service.ts, order.service.ts,        *)
(* cart.service.ts).                                                       *)
(*                                                                         *)
(* A page fetches when it is visited, when its filter changes and, as the  *)
(* badge does, on the event 'cart-updated', which a tab dispatches once a  *)
(* change of the cart that it asked for is answered.  Nothing cancels a    *)
(* request: what comes back is set, unless the page was left.              *)
(*                                                                         *)
(* What a request answers is the set of what it lists: the products that   *)
(* match a filter, the lines of the cart, an order if it is found.  What   *)
(* other tabs, the administration and a restart change behind the pages    *)
(* is not announced to them.                                               *)
(***************************************************************************)
EXTENDS Integers, FiniteSets

CONSTANTS
    Products,
    Orders,         \* the numbers of orders, as they are typed or linked
    Filters,        \* what the list of products may be searched for
    None,
    MaxAsks         \* bound: the shopper is idle after so many requests

ASSUME AsksAssumption == MaxAsks \in Nat

VARIABLES
    catalog,        \* catalog[p]: the filters that p matches, {} without a row
    cart,           \* the lines of this browser's cart
    table, memory,  \* the orders in the table, and those orderService.orders has
    view,           \* the page shown, and the state of its component
    badge,          \* the badge of the Navbar
    requests,       \* requests on their way, there or back
    asks,           \* how many there ever were, which also numbers them
    since           \* since[t]: what the answer to t would have listed, at any
                    \* time since its last request or since the tab last heard
                    \* that the cart was changed

server == <<catalog, cart, table, memory>>
vars == <<catalog, cart, table, memory, view, badge, requests, asks, since>>

Targets == {"view", "badge"}

-----------------------------------------------------------------------------
(* The reads of the backend                                                *)

\* getProducts with where and contains; status and minStock, which the
\* router passes, are not among its parameters.
GetProducts(filter) == {p \in Products : filter \in catalog[p]}
GetProductById(p) == IF p \in Products /\ catalog[p] # {} THEN {p} ELSE {}
GetCart == cart
GetOrderById(o) == {o} \cap memory
GetOrdersByUserId == memory
GetGuestOrder(o) == {o} \cap table

Answer(page, key) ==
    CASE page = "products" -> GetProducts(key)
      [] page = "product" -> GetProductById(key)
      [] page = "cart" -> GetCart
      [] page = "orders" -> GetOrdersByUserId
      [] page = "order" -> GetOrderById(key)
      [] page = "order-tracking" -> GetGuestOrder(key)
      [] OTHER -> {}

Wanted(t) == IF t = "badge" THEN GetCart ELSE Answer(view.page, view.key)

\* The last conjunct of every action: the record of what could be answered.
Heard(resets) ==
    since' = [t \in Targets |->
                 (IF t \in resets THEN {} ELSE since[t]) \cup {Wanted(t)'}]

-----------------------------------------------------------------------------
(* Requests                                                                *)

\* to: what its answer is for; a "click" has done something to the cart, and a
\* page that was "left" does not set anything.  then: 'cart-updated' is
\* dispatched when the request has ended.
Request(n, to, page, key, then) ==
    [n |-> n, to |-> to, page |-> page, key |-> key, here |-> to # "left",
     then |-> then, at |-> "sent", answer |-> {}]

Asked(t) == {r \in requests : r.to = t}

\* The page is left: what it fetched is dropped, and what it clicked is not.
Left(rs) ==
    {IF r.to = "view" THEN [r EXCEPT !.to = "left", !.here = FALSE]
     ELSE IF r.to = "click" THEN [r EXCEPT !.here = FALSE] ELSE r :
        r \in {q \in rs : q.to = "view" => q.then}}

\* The pages that fetch when they are visited.  What the checkout page fetches
\* is in Shopping; here it only submits.
Fetches(page) == page \notin {"order-tracking", "checkout", "success"}

\* last: the number of its last request, which current says it shows.
Mounted(page, key, n) ==
    [page |-> page, key |-> key, last |-> n, current |-> FALSE,
     loading |-> Fetches(page), error |-> FALSE, value |-> {}]

\* setLoading(true) and setError(null), the old value stays.
Loading(v, n) ==
    [v EXCEPT !.loading = TRUE, !.error = FALSE, !.last = n, !.current = FALSE]

Init ==
    /\ catalog \in [Products -> SUBSET Filters]
    /\ cart = {} /\ table = {} /\ memory = {}
    /\ \E f \in Filters :
          /\ view = Mounted("products", f, 2)
          /\ requests = {Request(1, "badge", "cart", None, FALSE),
                         Request(2, "view", "products", f, FALSE)}
    /\ badge = [last |-> 1, current |-> FALSE, ok |-> TRUE, value |-> {}]
    /\ asks = 2
    /\ since = [t \in Targets |-> {Wanted(t)}]

-----------------------------------------------------------------------------
(* The shopper                                                             *)

\* Another page, or another product or order, is a new component.
Visit(page, key) ==
    /\ asks < MaxAsks
    /\ page = view.page => page \in {"product", "order"} /\ key # view.key
    /\ IF Fetches(page)
       THEN /\ view' = Mounted(page, key, asks + 1)
            /\ requests' = Left(requests) \cup
                            {Request(asks + 1, "view", page, key, FALSE)}
            /\ asks' = asks + 1
       ELSE /\ view' = Mounted(page, key, 0)
            /\ requests' = Left(requests)
            /\ UNCHANGED asks
    /\ UNCHANGED <<server, badge>>
    /\ Heard({"view"})

\* applyFilters: the component stays, its effect fetches again.
ApplyFilters(f) ==
    /\ asks < MaxAsks
    /\ view.page = "products" /\ view.key # f
    /\ view' = [Loading(view, asks + 1) EXCEPT !.key = f]
    /\ requests' = requests \cup {Request(asks + 1, "view", "products", f, FALSE)}
    /\ asks' = asks + 1
    /\ UNCHANGED <<server, badge>>
    /\ Heard({"view"})

\* Wrong on purpose, for Disabled: the buttons stay enabled.
NeverDisabled == FALSE

\* disabled={isLoading} of the tracking form, {isSubmitting} of the checkout.
Disabled == view.loading

\* handleTrack: the form is sent again and again, for any order.
Track(o) ==
    /\ asks < MaxAsks
    /\ view.page = "order-tracking" /\ ~Disabled
    /\ view' = [Loading(view, asks + 1) EXCEPT !.key = o, !.value = {}]
    /\ requests' = requests \cup {Request(asks + 1, "view", "order-tracking", o, FALSE)}
    /\ asks' = asks + 1
    /\ UNCHANGED <<server, badge>>
    /\ Heard({"view"})

\* "Add to Cart" of a product that is shown; "+", "-" and "remove" of a line.
ClickProduct(p) ==
    /\ asks < MaxAsks
    /\ view.page \in {"products", "product", "cart"}
    /\ view.page # "products" => ~view.error
    /\ ~view.loading /\ p \in view.value
    /\ requests' = requests \cup {Request(asks + 1, "click", view.page, p, FALSE)}
    /\ asks' = asks + 1
    /\ UNCHANGED <<server, view, badge>>
    /\ Heard({})

\* handleSubmit of the checkout page.
Submit ==
    /\ asks < MaxAsks
    /\ view.page = "checkout" /\ ~Disabled
    /\ view' = Loading(view, asks + 1)
    /\ requests' = requests \cup {Request(asks + 1, "click", "checkout", None, FALSE)}
    /\ asks' = asks + 1
    /\ UNCHANGED <<server, badge>>
    /\ Heard({})

-----------------------------------------------------------------------------
(* The backend and its other users                                         *)

Answered(r, answer) ==
    requests' = (requests \ {r}) \cup {[r EXCEPT !.at = "answered", !.answer = answer]}

Read(r) ==
    /\ r.at = "sent" /\ r.to # "click"
    /\ Answered(r, Answer(r.page, r.key))
    /\ UNCHANGED <<server, view, badge, asks>>
    /\ Heard({})

\* addItem, updateQuantity or removeItem, if the stock allows; Shopping has
\* them in detail.
ChangeCart(r) ==
    /\ r.at = "sent" /\ r.to = "click" /\ r.page # "checkout"
    /\ \/ /\ r.page # "cart"
          /\ cart' = cart \cup {r.key}
          /\ Answered(r, {r.key})
       \/ /\ r.page = "cart"
          /\ cart' \in {cart, cart \ {r.key}}
          /\ Answered(r, {r.key})
       \/ cart' = cart /\ Answered(r, {})
    /\ UNCHANGED <<catalog, table, memory, view, badge, asks>>
    /\ Heard({})

\* createOrder, and the DELETE of the cart after it; or createOrder throws,
\* perhaps when the insert was made.
CreateOrder(r) ==
    /\ r.at = "sent" /\ r.to = "click" /\ r.page = "checkout"
    /\ \/ \E o \in Orders \ table :
             /\ cart # {}
             /\ table' = table \cup {o}
             /\ \/ memory' = memory \cup {o} /\ cart' = {} /\ Answered(r, {o})
                \/ UNCHANGED <<memory, cart>> /\ Answered(r, {})
       \/ UNCHANGED <<table, memory, cart>> /\ Answered(r, {})
    /\ UNCHANGED <<catalog, view, badge, asks>>
    /\ Heard({})

\* createProduct and updateProduct; deleteProduct only archives, which no
\* answer tells apart.
UpdateProduct(p, matching) ==
    /\ catalog[p] # matching /\ matching # {}
    /\ catalog' = [catalog EXCEPT ![p] = matching]
    /\ UNCHANGED <<cart, table, memory, view, badge, requests, asks>>
    /\ Heard({})

\* A request of another tab of the same browser.
ElsewhereInCart(lines) ==
    /\ cart # lines
    /\ cart' = lines
    /\ UNCHANGED <<catalog, table, memory, view, badge, requests, asks>>
    /\ Heard({})

ElsewhereOrdered(o) ==
    /\ o \notin table
    /\ table' = table \cup {o}
    /\ memory' = memory \cup {o}
    /\ UNCHANGED <<catalog, cart, view, badge, requests, asks>>
    /\ Heard({})

\* The carts and the orders in memory are gone, the table stays.
Restart ==
    /\ cart # {} \/ memory # {}
    /\ cart' = {} /\ memory' = {}
    /\ UNCHANGED <<catalog, table, view, badge, requests, asks>>
    /\ Heard({})

-----------------------------------------------------------------------------
(* What comes back                                                         *)

\* The tab with page v and requests rs dispatches 'cart-updated': the badge
\* asks again, and a cart page does.
CartUpdated(v, rs) ==
    LET again == v.page = "cart" IN
    /\ badge' = [badge EXCEPT !.last = asks + 1, !.current = FALSE]
    /\ view' = IF again THEN Loading(v, asks + 2) ELSE v
    /\ asks' = IF again THEN asks + 2 ELSE asks + 1
    /\ requests' = rs \cup {Request(asks + 1, "badge", "cart", None, FALSE)}
                      \cup (IF again
                            THEN {Request(asks + 2, "view", "cart", None, FALSE)}
                            ELSE {})
    /\ Heard(IF again THEN Targets ELSE {"badge"})

\* 404 and 400; an order that is not tracked is null, which is no error.
Refused(r) == r.answer = {} /\ (r.to = "click" \/ r.page \in {"product", "order"})

\* The fetch of a page ends: its component, if it is still there, becomes v.
FetchEnds(r, v) ==
    LET shown == IF r.here THEN v ELSE view
        rest == requests \ {r}
    IN  IF r.then
        THEN CartUpdated(shown, rest)
        ELSE /\ view' = shown
             /\ requests' = rest
             /\ UNCHANGED <<badge, asks>>
             /\ Heard({})

PageFetched(r) ==
    /\ r.at = "answered" /\ r.to \in {"view", "left"} /\ ~Refused(r)
    /\ UNCHANGED server
    /\ FetchEnds(r, [view EXCEPT !.loading = FALSE, !.value = r.answer,
                                 !.current = (r.n = view.last)])

\* Wrong on purpose, for FailedFetch: setLoading(false) only after an answer.
StillLoading(v) == [v EXCEPT !.error = TRUE]

\* catch and finally: the old value stays, and so does the error when an
\* answer to a later request is set after it.
FailedFetch(v) == [v EXCEPT !.error = TRUE, !.loading = FALSE]

\* A request is lost on its way, there or back, or it is refused.
PageFails(r) ==
    /\ r.to \in {"view", "left"}
    /\ UNCHANGED server
    /\ FetchEnds(r, FailedFetch(view))

BadgeEnds(r, b) ==
    /\ badge' = b
    /\ requests' = requests \ {r}
    /\ UNCHANGED <<server, view, asks>>
    /\ Heard({})

BadgeFetched(r) ==
    /\ r.at = "answered" /\ r.to = "badge"
    /\ BadgeEnds(r, [badge EXCEPT !.ok = TRUE, !.value = r.answer,
                                  !.current = (r.n = badge.last)])

\* setCartCount(0)
BadgeFails(r) ==
    /\ r.to = "badge"
    /\ BadgeEnds(r, [badge EXCEPT !.ok = FALSE, !.value = {}])

\* handleAddToCart of both product pages tells the tab.
AddAnswered(r) ==
    /\ r.at = "answered" /\ r.to = "click" /\ ~Refused(r)
    /\ r.page \in {"products", "product"}
    /\ UNCHANGED server
    /\ CartUpdated(view, requests \ {r})

\* handleUpdateQuantity and handleRemoveItem load the cart first, into the
\* page that the click was made on.
ChangeAnswered(r) ==
    /\ r.at = "answered" /\ r.to = "click" /\ ~Refused(r)
    /\ r.page = "cart"
    /\ view' = IF r.here THEN Loading(view, asks + 1) ELSE view
    /\ requests' = (requests \ {r}) \cup
                   {Request(asks + 1, IF r.here THEN "view" ELSE "left", "cart", None, TRUE)}
    /\ asks' = asks + 1
    /\ UNCHANGED <<server, badge>>
    /\ Heard(IF r.here THEN Targets ELSE {"badge"})

\* clearCart and handleSubmit dispatch the event, each once, and the shopper
\* is taken to the order from wherever they are.
OrderAnswered(r) ==
    /\ r.at = "answered" /\ r.to = "click" /\ ~Refused(r)
    /\ r.page = "checkout"
    /\ badge' = [badge EXCEPT !.last = asks + 2, !.current = FALSE]
    /\ view' = Mounted("success", None, 0)
    /\ requests' = Left(requests \ {r}) \cup
                   {Request(asks + i, "badge", "cart", None, FALSE) : i \in 1..2}
    /\ asks' = asks + 2
    /\ UNCHANGED server
    /\ Heard(Targets)

\* An alert; what the click did stays unknown to the tab.
ClickFails(r) ==
    /\ r.to = "click"
    /\ requests' = requests \ {r}
    /\ view' = IF r.page = "checkout" /\ r.here
               THEN [view EXCEPT !.loading = FALSE] ELSE view
    /\ UNCHANGED <<server, badge, asks>>
    /\ Heard({})

Comes(r) ==
    \/ Read(r)
    \/ ChangeCart(r)
    \/ CreateOrder(r)
    \/ PageFetched(r)
    \/ PageFails(r)
    \/ BadgeFetched(r)
    \/ BadgeFails(r)
    \/ AddAnswered(r)
    \/ ChangeAnswered(r)
    \/ OrderAnswered(r)
    \/ ClickFails(r)

-----------------------------------------------------------------------------
\* The links of the pages.
Links == ({"product"} \X Products) \cup ({"order"} \X Orders)
         \cup ({"products"} \X Filters)
         \cup ({"cart", "orders", "order-tracking", "checkout"} \X {None})

Next ==
    \/ \E link \in Links : Visit(link[1], link[2])
    \/ \E f \in Filters : ApplyFilters(f)
    \/ \E o \in Orders : Track(o)
    \/ \E p \in Products : ClickProduct(p)
    \/ Submit
    \/ \E r \in requests : Comes(r)
    \/ \E p \in Products, matching \in SUBSET Filters : UpdateProduct(p, matching)
    \/ \E lines \in SUBSET Products : ElsewhereInCart(lines)
    \/ \E o \in Orders : ElsewhereOrdered(o)
    \/ Restart

Spec == Init /\ [][Next]_vars

\* Every request ends: fetch settles, by an answer or by an error.  One that
\* the shopper asked for leads to three more at the most.
Ends(n) == \E r \in requests : r.n = n /\ Comes(r)

FairSpec == Spec /\ \A n \in 1..(4 * MaxAsks) : WF_vars(Ends(n))

-----------------------------------------------------------------------------
\* Once nothing a page or the badge asked for is under way it does not spin,
\* and what it shows without an error was so at some time since it was last
\* asked for, and since the last change of the cart that this tab was told of:
\* unless an answer was overtaken by that to an older request, which happens
\* to the list of products, the cart and the badge alone
\* (products/page.tsx:59-81, cart/page.tsx:29-94, Navbar.tsx:16-58,
\* order-tracking/page.tsx:15-42).
SettledShowsTruth ==
    /\ Asked("view") = {} /\ view.last # 0 /\ view.page # "checkout" =>
          /\ ~view.loading
          /\ view.current /\ ~view.error => view.value \in since["view"]
          /\ view.current \/ view.error \/ view.page \in {"products", "cart"}
    /\ (Asked("badge") = {} /\ badge.current /\ badge.ok
          /\ \A r \in requests : ~r.then) => badge.value \in since["badge"]

\* No page spins for ever, and no button stays disabled (the finally blocks of
\* the pages).
LoadingEnds == view.loading ~> ~view.loading

-----------------------------------------------------------------------------
(* The invariant that the proofs are by                                    *)

PageNames == {"products", "product", "cart", "checkout", "success", "order", "orders",
              "order-tracking"}
Things == Products \cup Orders
Keys == Things \cup Filters \cup {None}

Views == [page : PageNames, key : Keys, last : Nat, current : BOOLEAN,
          loading : BOOLEAN, error : BOOLEAN, value : SUBSET Things]

Asking == [n : Nat, to : {"view", "badge", "click", "left"}, page : PageNames,
           key : Keys, here : BOOLEAN, then : BOOLEAN,
           at : {"sent", "answered"}, answer : SUBSET Things]

StateOK ==
    /\ catalog \in [Products -> SUBSET Filters]
    /\ cart \subseteq Products /\ table \subseteq Orders /\ memory \subseteq table
    /\ view \in Views
    /\ badge \in [last : Nat, current : BOOLEAN, ok : BOOLEAN, value : SUBSET Things]
    /\ requests \subseteq Asking
    /\ asks \in Nat

\* Type invariant.
TypeOK == StateOK /\ since \in [Targets -> SUBSET SUBSET Things]

\* A number is that of one request, and the latest ones have been made.
Numbered ==
    /\ view.last <= asks /\ badge.last <= asks
    /\ \A r \in requests : 1 <= r.n /\ r.n <= asks
    /\ \A q, r \in requests : q.n = r.n => q = r

\* What a request is for, and where.
Addressed ==
    /\ view.page = "cart" => view.key = None
    /\ \A r \in requests :
       /\ r.to = "view" => r.here /\ (r.n = view.last => r.page = view.page
                                                        /\ r.key = view.key)
       /\ r.to = "left" => ~r.here
       /\ r.to = "badge" => r.page = "cart" /\ ~r.then
       /\ r.to = "click" => /\ r.here => r.page = view.page
                            /\ r.page # "checkout" => r.key \in Products
                            /\ ~r.then

\* A page that spins has asked; all but two ask one thing at a time.
OneAtATime ==
    /\ view.loading /\ view.page # "checkout" => Asked("view") # {}
    /\ view.page \in {"checkout", "success"} => Asked("view") = {}
    /\ view.page \notin {"products", "cart"} =>
          /\ \A r \in Asked("view") : r.n = view.last /\ view.loading
          /\ Asked("view") = {} /\ view.last # 0 /\ view.page # "checkout" =>
                view.current \/ view.error

\* The latest answers, on their way or shown, were true since.
Recent ==
    /\ \A r \in Asked("view") :
          r.at = "answered" /\ r.n = view.last => r.answer \in since["view"]
    /\ view.current => view.value \in since["view"]
    /\ (\A r \in requests : ~r.then) =>
          /\ \A r \in Asked("badge") :
                r.at = "answered" /\ r.n = badge.last => r.answer \in since["badge"]
          /\ badge.current /\ badge.ok => badge.value \in since["badge"]

IInv == TypeOK /\ Numbered /\ Addressed /\ OneAtATime /\ Recent
=============================================================================
