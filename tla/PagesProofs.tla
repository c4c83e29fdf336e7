----------------------------- MODULE PagesProofs -----------------------------
(***************************************************************************)
(* That a page or the badge at rest shows what was so since it asked, for  *)
(* every number of requests: by IInv, whose part Recent follows the latest *)
(* request of each from the read behind it to the component it sets.       *)
(***************************************************************************)
EXTENDS Pages, TLAPS

-----------------------------------------------------------------------------
(* What is answered                                                        *)

\* What an answer lists are products and orders.
LEMMA AnswerTyped ==
    ASSUME StateOK, NEW page, NEW key
    PROVE  Answer(page, key) \in SUBSET Things
BY DEF StateOK, Things, Answer, GetProducts, GetProductById, GetCart,
       GetOrderById, GetOrdersByUserId, GetGuestOrder

LEMMA AnswerTypedNext ==
    ASSUME StateOK', NEW page, NEW key
    PROVE  Answer(page, key)' \in SUBSET Things
BY DEF StateOK, Things, Answer, GetProducts, GetProductById, GetCart,
       GetOrderById, GetOrdersByUserId, GetGuestOrder

LEMMA WantedTyped ==
    ASSUME StateOK, NEW t \in Targets
    PROVE  Wanted(t) \in SUBSET Things
<1>1. CASE t = "badge"
    BY <1>1 DEF Wanted, StateOK, Things, GetCart
<1>2. CASE t # "badge"
    BY <1>2, AnswerTyped DEF Wanted
<1> QED BY <1>1, <1>2

LEMMA WantedTypedNext ==
    ASSUME StateOK', NEW t \in Targets
    PROVE  Wanted(t)' \in SUBSET Things
<1>1. CASE t = "badge"
    BY <1>1 DEF Wanted, StateOK, Things, GetCart
<1>2. CASE t # "badge"
    <2>1. Answer(view.page, view.key)' \in SUBSET Things
        BY AnswerTypedNext DEF StateOK, Things, Answer, GetProducts, GetProductById,
           GetCart, GetOrderById, GetOrdersByUserId, GetGuestOrder
    <2> QED BY <1>2, <2>1 DEF Wanted
<1> QED BY <1>1, <1>2

\* A read answers what is wanted, if nothing changes with it.
LEMMA AnswerSame ==
    ASSUME UNCHANGED server, NEW page, NEW key
    PROVE  Answer(page, key)' = Answer(page, key)
BY DEF server, Answer, GetProducts, GetProductById, GetCart,
       GetOrderById, GetOrdersByUserId, GetGuestOrder

\* The record of what could be answered grows, or begins again.
LEMMA HeardGrows ==
    ASSUME TypeOK, StateOK', NEW R, Heard(R)
    PROVE  /\ TypeOK'
           /\ \A t \in Targets : Wanted(t)' \in since'[t]
           /\ \A t \in Targets \ R : since[t] \subseteq since'[t]
<1>1. \A t \in Targets : Wanted(t)' \in SUBSET Things
    BY WantedTypedNext
<1>2. since' = [t \in Targets |->
                  (IF t \in R THEN {} ELSE since[t]) \cup {Wanted(t)'}]
    BY DEF Heard
<1>3. since' \in [Targets -> SUBSET SUBSET Things]
    BY <1>1, <1>2 DEF TypeOK
<1> QED BY <1>2, <1>3 DEF TypeOK

-----------------------------------------------------------------------------
(* Steps of the backend                                                    *)

\* A step that no request sees.
LEMMA QuietStep ==
    ASSUME IInv, StateOK', UNCHANGED <<view, badge, requests, asks>>, Heard({})
    PROVE  IInv'
<1>1. /\ TypeOK'
      /\ \A t \in Targets : since[t] \subseteq since'[t]
    BY HeardGrows DEF IInv
<1>2. (Numbered /\ Addressed /\ OneAtATime)'
    BY DEF IInv, Numbered, Addressed, OneAtATime, Asked
<1>3. Recent'
    BY <1>1 DEF IInv, Recent, Asked, Targets
<1> QED BY <1>1, <1>2, <1>3 DEF IInv

LEMMA QuietSteps ==
    ASSUME IInv,
           \/ \E p \in Products, matching \in SUBSET Filters : UpdateProduct(p, matching)
           \/ \E lines \in SUBSET Products : ElsewhereInCart(lines)
           \/ \E o \in Orders : ElsewhereOrdered(o)
           \/ Restart
    PROVE  IInv'
<1>1. StateOK'
    BY DEF IInv, TypeOK, StateOK, UpdateProduct, ElsewhereInCart, ElsewhereOrdered, Restart
<1>2. UNCHANGED <<view, badge, requests, asks>> /\ Heard({})
    BY DEF UpdateProduct, ElsewhereInCart, ElsewhereOrdered, Restart
<1> QED BY <1>1, <1>2, QuietStep

\* A request gets its answer: one that the record has, if it is a fetch.
LEMMA AnsweredStep ==
    ASSUME IInv, NEW r \in requests, NEW a \in SUBSET Things,
           r.at = "sent", StateOK', Answered(r, a),
           UNCHANGED <<view, badge, asks>>, Heard({}),
           r.to = "view" /\ r.n = view.last => a = Wanted("view")',
           r.to = "badge" => a = Wanted("badge")'
    PROVE  IInv'
<1> DEFINE s == [r EXCEPT !.at = "answered", !.answer = a]
<1>1. /\ TypeOK'
      /\ \A t \in Targets : Wanted(t)' \in since'[t]
      /\ \A t \in Targets : since[t] \subseteq since'[t]
    BY HeardGrows DEF IInv
<1>2. r \in Asking
    BY DEF IInv, TypeOK, StateOK
<1>3. /\ s.n = r.n /\ s.to = r.to /\ s.page = r.page /\ s.key = r.key
      /\ s.here = r.here /\ s.then = r.then /\ s.answer = a
    BY <1>2 DEF Asking
<1>4. requests' = (requests \ {r}) \cup {s}
    BY DEF Answered
<1> HIDE DEF s
<1>5. Numbered'
    BY <1>3, <1>4 DEF IInv, Numbered
<1>6. Addressed'
    BY <1>3, <1>4 DEF IInv, Addressed
<1>7. OneAtATime'
    <2>1. Asked("view")' = {} <=> Asked("view") = {}
        BY <1>3, <1>4 DEF Asked
    <2>2. \A q \in Asked("view")' : \E p \in Asked("view") : p.n = q.n
        BY <1>3, <1>4 DEF Asked
    <2> QED BY <2>1, <2>2 DEF IInv, OneAtATime
<1>8. Recent'
    <2>1. \A q \in Asked("view")' :
             q.at = "answered" /\ q.n = view.last => q.answer \in since'["view"]
        BY <1>1, <1>3, <1>4 DEF IInv, Recent, Asked, Targets
    <2>2. (\A q \in requests' : ~q.then) => \A q \in requests : ~q.then
        BY <1>3, <1>4
    <2>3. (\A q \in requests : ~q.then) => \A q \in Asked("badge")' :
             q.at = "answered" /\ q.n = badge.last => q.answer \in since'["badge"]
        BY <1>1, <1>3, <1>4 DEF IInv, Recent, Asked, Targets
    <2> QED BY <1>1, <2>1, <2>2, <2>3 DEF IInv, Recent, Targets
<1> QED BY <1>1, <1>5, <1>6, <1>7, <1>8 DEF IInv

LEMMA AnsweredTyped ==
    ASSUME TypeOK, NEW r \in requests, NEW a \in SUBSET Things, Answered(r, a)
    PROVE  requests' \subseteq Asking
<1>1. r \in Asking
    BY DEF TypeOK, StateOK
<1>2. [r EXCEPT !.at = "answered", !.answer = a] \in Asking
    BY <1>1 DEF Asking
<1> QED BY <1>2 DEF TypeOK, StateOK, Answered

LEMMA ReadStep ==
    ASSUME IInv, NEW r \in requests, Read(r)
    PROVE  IInv'
<1> DEFINE a == Answer(r.page, r.key)
<1>1. r \in Asking
    BY DEF IInv, TypeOK, StateOK
<1>2. a \in SUBSET Things
    BY AnswerTyped DEF IInv, TypeOK
<1>3. StateOK'
    <2>1. requests' \subseteq Asking
        BY <1>2, AnsweredTyped DEF IInv, Read
    <2> QED BY <2>1 DEF IInv, TypeOK, StateOK, Read, server
<1>4. r.to = "view" /\ r.n = view.last => a = Wanted("view")'
    <2>1. SUFFICES ASSUME r.to = "view", r.n = view.last
                   PROVE  a = Wanted("view")'
        OBVIOUS
    <2>2. r.page = view.page /\ r.key = view.key
        BY <2>1 DEF IInv, Addressed
    <2>3. view' = view /\ UNCHANGED server
        BY DEF Read
    <2>4. Wanted("view")' = Answer(view.page, view.key)'
        BY DEF Wanted
    <2>5. Answer(view.page, view.key)' = Answer(view.page, view.key)
        BY <2>3 DEF server, Answer, GetProducts, GetProductById, GetCart,
                    GetOrderById, GetOrdersByUserId, GetGuestOrder
    <2> QED BY <2>2, <2>4, <2>5
<1>5. r.to = "badge" => a = Wanted("badge")'
    BY DEF IInv, Addressed, Wanted, Answer, GetCart, Read, server
<1> QED BY <1>2, <1>3, <1>4, <1>5, AnsweredStep DEF Read

LEMMA ChangeCartStep ==
    ASSUME IInv, NEW r \in requests, ChangeCart(r)
    PROVE  IInv'
<1>1. r \in Asking /\ r.key \in Products
    BY DEF IInv, TypeOK, StateOK, Addressed, ChangeCart
<1>2. PICK a \in {{}, {r.key}} : Answered(r, a)
    BY DEF ChangeCart
<1>3. a \in SUBSET Things
    BY <1>1 DEF Things
<1>4. StateOK'
    <2>1. cart' \subseteq Products
        BY <1>1 DEF ChangeCart, IInv, TypeOK, StateOK
    <2>2. requests' \subseteq Asking
        BY <1>2, <1>3, AnsweredTyped DEF IInv
    <2> QED BY <2>1, <2>2 DEF IInv, TypeOK, StateOK, ChangeCart
<1> QED BY <1>2, <1>3, <1>4, AnsweredStep DEF ChangeCart

LEMMA CreateOrderStep ==
    ASSUME IInv, NEW r \in requests, CreateOrder(r)
    PROVE  IInv'
<1>1. r \in Asking
    BY DEF IInv, TypeOK, StateOK
<1>2. PICK a \in SUBSET Orders : Answered(r, a)
    BY DEF CreateOrder
<1>3. a \in SUBSET Things
    BY DEF Things
<1>4. StateOK'
    <2>1. cart' \subseteq Products /\ table' \subseteq Orders /\ memory' \subseteq table'
        BY DEF CreateOrder, IInv, TypeOK, StateOK
    <2>2. requests' \subseteq Asking
        BY <1>2, <1>3, AnsweredTyped DEF IInv
    <2> QED BY <2>1, <2>2 DEF IInv, TypeOK, StateOK, CreateOrder
<1> QED BY <1>2, <1>3, <1>4, AnsweredStep DEF CreateOrder

-----------------------------------------------------------------------------
(* The shopper's steps                                                     *)

\* What is left of requests when their page is.
LEMMA LeftFacts ==
    ASSUME IInv, NEW rs \in SUBSET requests
    PROVE  /\ Left(rs) \subseteq Asking
           /\ \A q \in Left(rs) :
                 /\ 1 <= q.n /\ q.n <= asks /\ q.to # "view"
                 /\ q.to = "left" => ~q.here
                 /\ q.to = "badge" => q \in rs /\ q.page = "cart" /\ ~q.then
                 /\ q.to = "click" => ~q.here /\ ~q.then
                 /\ q.to = "click" /\ q.page # "checkout" => q.key \in Products
           /\ \A p, q \in Left(rs) : p.n = q.n => p = q
           /\ (\A q \in Left(rs) : ~q.then) => \A r \in rs : ~r.then
<1> DEFINE L(r) == IF r.to = "view" THEN [r EXCEPT !.to = "left", !.here = FALSE]
                   ELSE IF r.to = "click" THEN [r EXCEPT !.here = FALSE] ELSE r
<1>1. \A r \in rs : r \in Asking /\ 1 <= r.n /\ r.n <= asks
    BY DEF IInv, TypeOK, StateOK, Numbered
<1>2. \A r \in rs :
         /\ L(r) \in Asking /\ L(r).n = r.n /\ L(r).to # "view"
         /\ L(r).then = r.then /\ L(r).page = r.page /\ L(r).key = r.key
         /\ L(r).to = "left" => ~L(r).here
         /\ L(r).to = "badge" => L(r) = r
         /\ L(r).to = "click" => ~L(r).here /\ r.to = "click"
    <2> SUFFICES ASSUME NEW r \in rs
                 PROVE  /\ L(r) \in Asking /\ L(r).n = r.n /\ L(r).to # "view"
                        /\ L(r).then = r.then /\ L(r).page = r.page /\ L(r).key = r.key
                        /\ L(r).to = "left" => ~L(r).here
                        /\ L(r).to = "badge" => L(r) = r
                        /\ L(r).to = "click" => ~L(r).here /\ r.to = "click"
        OBVIOUS
    <2>1. CASE r.to = "view"
        BY <1>1, <2>1 DEF Asking
    <2>2. CASE r.to = "click"
        BY <1>1, <2>2 DEF Asking
    <2>3. CASE r.to = "left"
        BY <1>1, <2>3 DEF Asking, IInv, Addressed
    <2>4. CASE r.to = "badge"
        BY <1>1, <2>4 DEF Asking
    <2> QED BY <1>1, <2>1, <2>2, <2>3, <2>4 DEF Asking
<1>3. Left(rs) = {L(r) : r \in {q \in rs : q.to = "view" => q.then}}
    BY DEF Left
<1> HIDE DEF L
<1>4. \A q \in Left(rs) : \E r \in rs : q = L(r)
    BY <1>3
<1>5. \A r \in rs : r.then => L(r) \in Left(rs)
    BY <1>3
<1>6. \A p, q \in rs : p.n = q.n => p = q
    BY DEF IInv, Numbered
<1>7. \A q \in Left(rs) : q \in Asking /\ q.to # "view" /\ (q.to = "left" => ~q.here)
    BY <1>2, <1>4
<1>8. \A q \in Left(rs) : 1 <= q.n /\ q.n <= asks
    BY <1>1, <1>2, <1>4
<1>9. \A q \in Left(rs) : q.to = "badge" => q \in rs /\ q.page = "cart" /\ ~q.then
    BY <1>2, <1>4 DEF IInv, Addressed
<1>10. \A q \in Left(rs) :
          /\ q.to = "click" => ~q.here /\ ~q.then
          /\ q.to = "click" /\ q.page # "checkout" => q.key \in Products
    BY <1>2, <1>4 DEF IInv, Addressed
<1>11. \A p, q \in Left(rs) : p.n = q.n => p = q
    BY <1>2, <1>4, <1>6
<1>12. (\A q \in Left(rs) : ~q.then) => \A r \in rs : ~r.then
    BY <1>2, <1>5
<1> QED BY <1>7, <1>8, <1>9, <1>10, <1>11, <1>12

\* A request of a component that has its place.
LEMMA RequestTyped ==
    ASSUME NEW n \in Nat, NEW to \in {"view", "badge", "click", "left"},
           NEW page \in PageNames, NEW key \in Keys, NEW then \in BOOLEAN
    PROVE  LET q == Request(n, to, page, key, then) IN
           /\ q \in Asking /\ q.n = n /\ q.to = to /\ q.page = page /\ q.key = key
           /\ q.then = then /\ q.at = "sent" /\ (q.here <=> to # "left")
BY DEF Request, Asking

\* A page as it is mounted.
LEMMA MountedTyped ==
    ASSUME NEW page \in PageNames, NEW key \in Keys, NEW n \in Nat
    PROVE  LET v == Mounted(page, key, n) IN
           /\ v \in Views
           /\ v.page = page /\ v.key = key /\ v.last = n /\ ~v.current
           /\ v.loading <=> Fetches(page)
<1> DEFINE f == Fetches(page)
<1>1. f \in BOOLEAN
    BY DEF Fetches
<1>2. Mounted(page, key, n) = [page |-> page, key |-> key, last |-> n, current |-> FALSE,
                               loading |-> f, error |-> FALSE, value |-> {}]
    BY DEF Mounted
<1> HIDE DEF f
<1>3. /\ Mounted(page, key, n) \in
            Views
      /\ Mounted(page, key, n).page = page /\ Mounted(page, key, n).key = key
      /\ Mounted(page, key, n).last = n /\ ~Mounted(page, key, n).current
      /\ Mounted(page, key, n).loading = f
    BY <1>1, <1>2 DEF Views
<1> QED BY <1>1, <1>3 DEF f

LEMMA VisitStep ==
    ASSUME IInv, NEW link \in Links, Visit(link[1], link[2])
    PROVE  IInv'
<1> DEFINE page == link[1]
           key == link[2]
           q == Request(asks + 1, "view", page, key, FALSE)
<1>1. /\ page \in PageNames /\ key \in Keys /\ asks \in Nat /\ page # "success"
      /\ page = "cart" => key = None
      /\ Fetches(page) <=> page \notin {"order-tracking", "checkout", "success"}
    <2>1. /\ link[1] \in {"product", "order", "products", "cart", "orders",
                         "order-tracking", "checkout"}
          /\ link[2] \in Keys
          /\ link[1] = "cart" => link[2] = None
        <3>1. CASE link \in {"product"} \X Products
            BY <3>1 DEF Keys, Things
        <3>2. CASE link \in {"order"} \X Orders
            BY <3>2 DEF Keys, Things
        <3>3. CASE link \in {"products"} \X Filters
            BY <3>3 DEF Keys
        <3>4. CASE link \in {"cart", "orders", "order-tracking", "checkout"} \X {None}
            BY <3>4 DEF Keys
        <3> QED BY <3>1, <3>2, <3>3, <3>4 DEF Links
    <2>2. asks \in Nat
        BY DEF IInv, TypeOK, StateOK
    <2>3. /\ page \in {"product", "order", "products", "cart", "orders",
                        "order-tracking", "checkout"}
          /\ key \in Keys
          /\ page = "cart" => key = None
        BY <2>1
    <2> HIDE DEF page, key
    <2>4. page \in PageNames /\ page # "success"
        <3>1. page \in PageNames
            BY <2>3 DEF PageNames
        <3>2. page # "success"
            BY <2>3
        <3> QED BY <3>1, <3>2
    <2>5. Fetches(page) <=> page \notin {"order-tracking", "checkout", "success"}
        BY DEF Fetches
    <2> QED BY <2>2, <2>3, <2>4, <2>5
<1> HIDE DEF page, key
<1>2. /\ Heard({"view"}) /\ UNCHANGED <<server, badge>>
      /\ IF Fetches(page)
         THEN /\ view' = Mounted(page, key, asks + 1)
              /\ requests' = Left(requests) \cup {q}
              /\ asks' = asks + 1
         ELSE /\ view' = Mounted(page, key, 0)
              /\ requests' = Left(requests)
              /\ asks' = asks
    BY DEF Visit, page, key
<1>3. /\ q \in Asking /\ q.n = asks + 1 /\ q.to = "view" /\ q.page = page
      /\ q.key = key /\ ~q.then /\ q.at = "sent" /\ q.here
    <2>1. asks + 1 \in Nat
        BY <1>1
    <2> QED BY <1>1, <2>1, RequestTyped DEF Request
<1> HIDE DEF q
<1>4. /\ view'.page = page /\ view'.key = key /\ ~view'.current
      /\ view'.loading <=> Fetches(page)
      /\ view'.last = IF Fetches(page) THEN asks + 1 ELSE 0
      /\ view' \in Views
    <2>1. CASE Fetches(page)
        BY <1>1, <1>2, <2>1, MountedTyped
    <2>2. CASE ~Fetches(page)
        BY <1>1, <1>2, <2>2, MountedTyped
    <2> QED BY <2>1, <2>2
<1>5. StateOK'
    BY <1>1, <1>2, <1>3, <1>4, LeftFacts DEF IInv, TypeOK, StateOK, server
<1>6. TypeOK' /\ since["badge"] \subseteq since'["badge"]
    BY <1>2, <1>5, HeardGrows DEF IInv, Targets
<1>7. Numbered'
    <2>1. /\ view'.last <= asks' /\ badge'.last <= asks'
          /\ \A r \in Left(requests) : 1 <= r.n /\ r.n <= asks /\ r.n \in Nat
          /\ asks' \in {asks, asks + 1}
        BY <1>1, <1>2, <1>4, LeftFacts DEF IInv, TypeOK, StateOK, Numbered, Asking
    <2>2. \A p, r \in Left(requests) : p.n = r.n => p = r
        BY LeftFacts
    <2> QED BY <1>1, <1>2, <1>3, <2>1, <2>2 DEF Numbered
<1>8. Addressed'
    BY <1>1, <1>2, <1>3, <1>4, LeftFacts DEF Addressed
<1>9. OneAtATime'
    <2>1. Asked("view")' = IF Fetches(page) THEN {q} ELSE {}
        BY <1>2, <1>3, LeftFacts DEF Asked
    <2> QED BY <1>1, <1>3, <1>4, <2>1 DEF OneAtATime
<1>10. Recent'
    <2>1. \A r \in Asked("view")' : r.at = "sent"
        BY <1>2, <1>3, LeftFacts DEF Asked
    <2>2. \A r \in Asked("badge")' : r \in Asked("badge")
        BY <1>2, <1>3, LeftFacts DEF Asked
    <2>3. (\A r \in requests' : ~r.then) => \A r \in requests : ~r.then
        BY <1>2, LeftFacts
    <2> QED BY <1>2, <1>4, <1>6, <2>1, <2>2, <2>3 DEF IInv, Recent
<1> QED BY <1>6, <1>7, <1>8, <1>9, <1>10 DEF IInv

\* A page that loads again.
LEMMA LoadingTyped ==
    ASSUME NEW v \in Views, NEW n \in Nat
    PROVE  /\ Loading(v, n) \in Views
           /\ Loading(v, n).page = v.page /\ Loading(v, n).key = v.key
           /\ Loading(v, n).last = n /\ ~Loading(v, n).current
           /\ Loading(v, n).loading /\ Loading(v, n).value = v.value
BY DEF Loading, Views

\* One more fetch of the page that is shown, for key.
LEMMA FetchAgain ==
    ASSUME IInv, NEW key \in Keys, view' \in Views,
           view'.page = view.page, view'.key = key, view'.last = asks + 1,
           view'.loading, ~view'.current,
           requests' = requests \cup {Request(asks + 1, "view", view.page, key, FALSE)},
           asks' = asks + 1, UNCHANGED <<server, badge>>, Heard({"view"}),
           \/ view.page = "products"
           \/ view.page = "order-tracking" /\ Asked("view") = {}
    PROVE  IInv'
<1> DEFINE q == Request(asks + 1, "view", view.page, key, FALSE)
<1>1. asks \in Nat /\ asks + 1 \in Nat /\ view.page \in PageNames
    BY DEF IInv, TypeOK, StateOK, Views
<1>2. /\ q \in Asking /\ q.n = asks + 1 /\ q.to = "view" /\ q.page = view.page
      /\ q.key = key /\ ~q.then /\ q.at = "sent" /\ q.here
    <2>1. /\ q \in Asking /\ q.n = asks + 1 /\ q.to = "view" /\ q.page = view.page
          /\ q.key = key /\ ~q.then /\ q.at = "sent"
        BY <1>1 DEF Request, Asking
    <2>2. q.here
        BY DEF Request
    <2> QED BY <2>1, <2>2
<1>3. requests' = requests \cup {q}
    OBVIOUS
<1> HIDE DEF q
<1>4. StateOK'
    BY <1>1, <1>2, <1>3 DEF IInv, TypeOK, StateOK, server
<1>5. TypeOK' /\ since["badge"] \subseteq since'["badge"]
    BY <1>4, HeardGrows DEF IInv, Targets
<1>6. \A r \in requests : r.n \in Nat /\ r.n <= asks
    BY DEF IInv, TypeOK, StateOK, Asking, Numbered
<1>7. Numbered'
    <2>1. view'.last <= asks' /\ badge'.last <= asks'
        BY <1>1 DEF IInv, TypeOK, StateOK, Views, Numbered
    <2>2. \A r \in requests' : 1 <= r.n /\ r.n <= asks'
        <3>1. 1 <= q.n /\ q.n <= asks'
            BY <1>1, <1>2
        <3>2. \A r \in requests : 1 <= r.n /\ r.n <= asks'
            BY <1>1, <1>6 DEF IInv, Numbered
        <3> QED BY <1>3, <3>1, <3>2
    <2>3. \A r \in requests : r.n # q.n
        BY <1>1, <1>2, <1>6
    <2>4. \A p, r \in requests' : p.n = r.n => p = r
        BY <1>3, <2>3 DEF IInv, Numbered
    <2> QED BY <2>1, <2>2, <2>4 DEF Numbered
<1>8. Addressed'
    <2>1. \A r \in requests : r.n # view'.last
        BY <1>1, <1>6
    <2> QED BY <1>2, <1>3, <2>1 DEF IInv, Addressed
<1>9. OneAtATime'
    <2>1. Asked("view")' = Asked("view") \cup {q}
        BY <1>2, <1>3 DEF Asked
    <2> QED BY <1>2, <2>1 DEF OneAtATime
<1>10. Recent'
    <2>1. \A r \in requests' : r = q \/ (r \in requests /\ r.n # view'.last)
        <3>1. \A r \in requests : r.n # view'.last
            BY <1>1, <1>6
        <3> QED BY <1>3, <3>1
    <2>2. \A r \in Asked("badge")' : r \in Asked("badge")
        BY <1>2, <1>3 DEF Asked
    <2>3. (\A r \in requests' : ~r.then) => \A r \in requests : ~r.then
        BY <1>3
    <2>4. \A r \in Asked("view")' : ~(r.at = "answered" /\ r.n = view'.last)
        BY <1>2, <2>1 DEF Asked
    <2> QED BY <1>5, <2>2, <2>3, <2>4 DEF IInv, Recent
<1> QED BY <1>5, <1>7, <1>8, <1>9, <1>10 DEF IInv

LEMMA FilterStep ==
    ASSUME IInv, NEW f \in Filters, ApplyFilters(f)
    PROVE  IInv'
<1>1. asks + 1 \in Nat /\ view \in Views /\ f \in Keys
    BY DEF IInv, TypeOK, StateOK, Keys
<1>2. /\ view' \in Views /\ view'.page = view.page /\ view'.key = f
      /\ view'.last = asks + 1 /\ view'.loading /\ ~view'.current
    BY <1>1, LoadingTyped DEF ApplyFilters, Views
<1> QED BY <1>1, <1>2, FetchAgain DEF ApplyFilters

LEMMA TrackStep ==
    ASSUME IInv, NEW o \in Orders, Track(o)
    PROVE  IInv'
<1>1. asks + 1 \in Nat /\ view \in Views /\ o \in Keys
    BY DEF IInv, TypeOK, StateOK, Keys, Things
<1>2. /\ view' \in Views /\ view'.page = view.page /\ view'.key = o
      /\ view'.last = asks + 1 /\ view'.loading /\ ~view'.current
    BY <1>1, LoadingTyped DEF Track, Views
<1>3. view.page = "order-tracking" /\ Asked("view") = {}
    BY DEF Track, Disabled, IInv, OneAtATime
<1> QED BY <1>1, <1>2, <1>3, FetchAgain DEF Track

\* A click; that of the checkout form disables its button.
LEMMA ClickStep ==
    ASSUME IInv, NEW key \in Keys, view' \in Views,
           view.page # "checkout" => key \in Products,
           \/ view' = view
           \/ /\ view.page = "checkout" /\ view'.page = view.page
              /\ view'.last = asks + 1 /\ ~view'.current,
           requests' = requests \cup {Request(asks + 1, "click", view.page, key, FALSE)},
           asks' = asks + 1, UNCHANGED <<server, badge>>, Heard({})
    PROVE  IInv'
<1> DEFINE q == Request(asks + 1, "click", view.page, key, FALSE)
<1>1. asks \in Nat /\ asks + 1 \in Nat /\ view.page \in PageNames
    BY DEF IInv, TypeOK, StateOK, Views
<1>2. /\ q \in Asking /\ q.n = asks + 1 /\ q.to = "click" /\ q.page = view.page
      /\ q.key = key /\ ~q.then /\ q.at = "sent"
    BY <1>1, RequestTyped DEF Request
<1>3. requests' = requests \cup {q}
    OBVIOUS
<1> HIDE DEF q
<1>4. StateOK'
    BY <1>1, <1>2, <1>3 DEF IInv, TypeOK, StateOK, server
<1>5. TypeOK' /\ \A t \in Targets : since[t] \subseteq since'[t]
    BY <1>4, HeardGrows DEF IInv
<1>6. \A r \in requests : r.n \in Nat /\ r.n <= asks
    BY DEF IInv, TypeOK, StateOK, Asking, Numbered
<1>7. Numbered'
    <2>1. view'.last <= asks' /\ badge'.last <= asks'
        BY <1>1 DEF IInv, TypeOK, StateOK, Views, Numbered
    <2>2. \A r \in requests' : 1 <= r.n /\ r.n <= asks'
        <3>1. 1 <= q.n /\ q.n <= asks'
            BY <1>1, <1>2
        <3>2. \A r \in requests : 1 <= r.n /\ r.n <= asks'
            BY <1>1, <1>6 DEF IInv, Numbered
        <3> QED BY <1>3, <3>1, <3>2
    <2>3. \A r \in requests : r.n # q.n
        BY <1>1, <1>2, <1>6
    <2>4. \A p, r \in requests' : p.n = r.n => p = r
        BY <1>3, <2>3 DEF IInv, Numbered
    <2> QED BY <2>1, <2>2, <2>4 DEF Numbered
<1>8. Asked("view")' = Asked("view") /\ Asked("badge")' = Asked("badge")
    BY <1>2, <1>3 DEF Asked
<1>9. view.page = "checkout" => Asked("view") = {}
    BY DEF IInv, OneAtATime
<1>10. Addressed'
    BY <1>2, <1>3, <1>9 DEF IInv, Addressed, Asked
<1>11. OneAtATime'
    BY <1>8, <1>9 DEF IInv, OneAtATime
<1>12. Recent'
    <2>1. (\A r \in requests' : ~r.then) => \A r \in requests : ~r.then
        BY <1>3
    <2> QED BY <1>5, <1>8, <1>9, <2>1 DEF IInv, Recent, Targets
<1> QED BY <1>5, <1>7, <1>10, <1>11, <1>12 DEF IInv

LEMMA ClickProductStep ==
    ASSUME IInv, NEW p \in Products, ClickProduct(p)
    PROVE  IInv'
<1>1. view \in Views /\ p \in Keys
    BY DEF IInv, TypeOK, StateOK, Keys, Things
<1> QED BY <1>1, ClickStep DEF ClickProduct

LEMMA SubmitStep ==
    ASSUME IInv, Submit
    PROVE  IInv'
<1>1. asks + 1 \in Nat /\ view \in Views /\ None \in Keys
    BY DEF IInv, TypeOK, StateOK, Keys
<1>2. /\ view' \in Views /\ view'.page = view.page
      /\ view'.last = asks + 1 /\ ~view'.current
    BY <1>1, LoadingTyped DEF Submit
<1> QED BY <1>1, <1>2, ClickStep DEF Submit

-----------------------------------------------------------------------------
(* What comes back                                                         *)

\* What IInv says of a page v with the requests rs, as long as none is new.
Rests(v, rs) ==
    /\ v \in Views /\ v.page = view.page /\ v.key = view.key /\ v.last = view.last
    /\ rs \subseteq requests
    /\ v.loading /\ v.page # "checkout" => \E q \in rs : q.to = "view"
    /\ v.page \notin {"products", "cart"} =>
          /\ \A q \in rs : q.to = "view" => q.n = v.last /\ v.loading
          /\ (\A q \in rs : q.to # "view") /\ v.last # 0 /\ v.page # "checkout" =>
                v.current \/ v.error
    /\ v.current => v.value \in since["view"]

\* A request that no page waits for ends.
LEMMA OtherRests ==
    ASSUME IInv, NEW r \in requests, r.to # "view"
    PROVE  Rests(view, requests \ {r})
BY DEF Rests, IInv, TypeOK, StateOK, OneAtATime, Recent, Asked

\* The fetch of a page ends with an answer or an error.
LEMMA FetchRests ==
    ASSUME IInv, NEW r \in requests, r.to \in {"view", "left"},
           NEW v \in Views, v.page = view.page, v.key = view.key, v.last = view.last,
           ~v.loading,
           r.n = view.last => v.current \/ v.error,
           v.current /\ r.to = "view" => v.value \in since["view"]
    PROVE  Rests(IF r.here THEN v ELSE view, requests \ {r})
<1>1. CASE r.to = "left"
    BY <1>1, OtherRests DEF IInv, Addressed
<1>2. CASE r.to = "view"
    <2>1. r.here
        BY <1>2 DEF IInv, Addressed
    <2>2. v.page \notin {"products", "cart"} =>
             \A q \in requests : q.to = "view" => q.n = view.last
        BY DEF IInv, OneAtATime, Asked
    <2>3. v.page \notin {"products", "cart"} =>
             /\ r.n = view.last
             /\ \A q \in requests \ {r} : q.to # "view"
        BY <1>2, <2>2 DEF IInv, Numbered
    <2> QED BY <1>2, <2>1, <2>3 DEF Rests
<1> QED BY <1>1, <1>2

\* Requests end and no new one is made; the page becomes v.
LEMMA RestStep ==
    ASSUME IInv, NEW v, NEW rs, Rests(v, rs), view' = v, requests' = rs,
           UNCHANGED <<server, asks>>, Heard({}),
           badge' \in [last : Nat, current : BOOLEAN, ok : BOOLEAN, value : SUBSET Things],
           badge'.last = badge.last,
           (\A q \in rs : ~q.then) => \A q \in requests : ~q.then,
           (\A q \in rs : ~q.then) /\ badge'.current /\ badge'.ok =>
               badge'.value \in since["badge"]
    PROVE  IInv'
<1>1. StateOK'
    BY DEF Rests, IInv, TypeOK, StateOK, server
<1>2. TypeOK' /\ \A t \in Targets : since[t] \subseteq since'[t]
    BY <1>1, HeardGrows DEF IInv
<1>3. Numbered'
    BY DEF Rests, IInv, Numbered
<1>4. Addressed'
    BY DEF Rests, IInv, Addressed
<1>5. OneAtATime'
    BY DEF Rests, IInv, OneAtATime, Asked
<1>6. Recent'
    <2>1. \A r \in Asked("view")' :
             r.at = "answered" /\ r.n = view'.last => r.answer \in since'["view"]
        BY <1>2 DEF Rests, IInv, Recent, Asked, Targets
    <2>2. view'.current => view'.value \in since'["view"]
        BY <1>2 DEF Rests, Targets
    <2>3. ASSUME \A q \in requests' : ~q.then
          PROVE  /\ \A r \in Asked("badge")' :
                       r.at = "answered" /\ r.n = badge'.last => r.answer \in since'["badge"]
                 /\ badge'.current /\ badge'.ok => badge'.value \in since'["badge"]
        BY <1>2, <2>3 DEF Rests, IInv, Recent, Asked, Targets
    <2> QED BY <2>1, <2>2, <2>3 DEF Recent
<1> QED BY <1>2, <1>3, <1>4, <1>5, <1>6 DEF IInv

\* The event is dispatched.
LEMMA CartUpdatedStep ==
    ASSUME IInv, NEW v, NEW rs, Rests(v, rs), UNCHANGED server, CartUpdated(v, rs)
    PROVE  IInv'
<1> DEFINE b == Request(asks + 1, "badge", "cart", None, FALSE)
           q == Request(asks + 2, "view", "cart", None, FALSE)
           new == IF v.page = "cart" THEN {b, q} ELSE {b}
<1>1. asks \in Nat /\ asks + 1 \in Nat /\ asks + 2 \in Nat /\ None \in Keys
    BY DEF IInv, TypeOK, StateOK, Keys
<1>2. /\ b \in Asking /\ b.n = asks + 1 /\ b.to = "badge" /\ b.page = "cart"
      /\ b.key = None /\ ~b.then /\ b.at = "sent"
    BY <1>1 DEF Request, Asking, PageNames
<1>3. /\ q \in Asking /\ q.n = asks + 2 /\ q.to = "view" /\ q.page = "cart"
      /\ q.key = None /\ ~q.then /\ q.at = "sent"
    BY <1>1 DEF Request, Asking, PageNames
<1>4. q.here
    BY DEF Request
<1>5. requests' = rs \cup new
    BY DEF CartUpdated
<1>6. new \subseteq Asking /\ b \in new /\ new \subseteq {b, q}
      /\ (v.page = "cart" => q \in new) /\ (v.page # "cart" => new = {b})
    BY <1>2, <1>3
<1> HIDE DEF b, q, new
<1>7. \A r \in rs : r \in Asking /\ r.n \in Nat /\ 1 <= r.n /\ r.n <= asks
    BY DEF Rests, IInv, TypeOK, StateOK, Asking, Numbered
<1>8. /\ view' \in Views /\ view'.page = v.page /\ view'.key = v.key
      /\ v.page = "cart" => view'.last = asks + 2 /\ ~view'.current /\ view'.loading
      /\ v.page # "cart" => view' = v
    BY <1>1, LoadingTyped DEF CartUpdated, Rests
<1>9. /\ badge' \in [last : Nat, current : BOOLEAN, ok : BOOLEAN, value : SUBSET Things]
      /\ badge'.last = asks + 1 /\ ~badge'.current
    BY <1>1 DEF CartUpdated, IInv, TypeOK, StateOK
<1>10. asks' \in {asks + 1, asks + 2} /\ (v.page = "cart" => asks' = asks + 2)
    BY DEF CartUpdated
<1>11. StateOK'
    BY <1>1, <1>5, <1>6, <1>7, <1>8, <1>9, <1>10 DEF IInv, TypeOK, StateOK, server
<1>12. Heard(IF v.page = "cart" THEN Targets ELSE {"badge"})
    BY DEF CartUpdated
<1>13. TypeOK' /\ (v.page # "cart" => since["view"] \subseteq since'["view"])
    BY <1>11, <1>12, HeardGrows DEF IInv, Targets
<1>14. Numbered'
    <2>1. view'.last <= asks' /\ badge'.last <= asks'
        BY <1>1, <1>8, <1>9, <1>10 DEF IInv, TypeOK, StateOK, Views, Numbered, Rests
    <2>2. /\ 1 <= b.n /\ b.n <= asks'
          /\ v.page = "cart" => 1 <= q.n /\ q.n <= asks'
          /\ b.n # q.n
        BY <1>1, <1>2, <1>3, <1>10
    <2>3. \A r \in rs : 1 <= r.n /\ r.n <= asks' /\ r.n # b.n /\ r.n # q.n
        BY <1>1, <1>2, <1>3, <1>7, <1>10
    <2>4. \A p, r \in rs : p.n = r.n => p = r
        BY DEF Rests, IInv, Numbered
    <2>5. \A r \in requests' : 1 <= r.n /\ r.n <= asks'
        BY <1>5, <1>6, <2>2, <2>3
    <2>6. \A p, r \in requests' : p.n = r.n => p = r
        BY <1>5, <1>6, <2>2, <2>3, <2>4
    <2> QED BY <2>1, <2>5, <2>6 DEF Numbered
<1>15. Addressed'
    <2>1. \A r \in rs : r.n # asks + 2
        BY <1>1, <1>7
    <2>2. /\ view'.page = view.page /\ view'.key = view.key
          /\ view.page = "cart" => view.key = None
          /\ v.page # "cart" => view'.last = view.last
          /\ v.page = view.page
        BY <1>8 DEF Rests, IInv, Addressed
    <2>3. \A r \in rs : r.to = "view" /\ r.n = view'.last =>
             r.page = view'.page /\ r.key = view'.key
        BY <1>8, <2>1, <2>2 DEF Rests, IInv, Addressed
    <2> QED BY <1>2, <1>3, <1>4, <1>5, <1>6, <2>2, <2>3 DEF Rests, IInv, Addressed
<1>16. OneAtATime'
    <2>1. Asked("view")' = {r \in rs : r.to = "view"} \cup (IF v.page = "cart" THEN {q} ELSE {})
        BY <1>2, <1>3, <1>5, <1>6 DEF Asked
    <2>2. view.page \in {"checkout", "success"} => Asked("view") = {}
        BY DEF IInv, OneAtATime
    <2>3. CASE v.page = "cart"
        BY <1>8, <2>1, <2>3 DEF OneAtATime
    <2>4. CASE v.page # "cart"
        BY <1>8, <2>1, <2>2, <2>4 DEF OneAtATime, Rests, Asked
    <2> QED BY <2>3, <2>4
<1>17. Recent'
    <2>1. \A r \in Asked("view")' :
             r.at = "answered" /\ r.n = view'.last => r.answer \in since'["view"]
        <3>1. \A r \in rs : r.n # asks + 2
            BY <1>1, <1>7
        <3>2. \A r \in new : r.at = "sent"
            BY <1>2, <1>3, <1>6
        <3>3. CASE v.page = "cart"
            BY <1>5, <1>8, <3>1, <3>2, <3>3 DEF Asked
        <3>4. CASE v.page # "cart"
            BY <1>5, <1>8, <1>13, <3>2, <3>4 DEF Asked, Rests, IInv, Recent
        <3> QED BY <3>3, <3>4
    <2>2. view'.current => view'.value \in since'["view"]
        BY <1>8, <1>13 DEF Rests
    <2>3. \A r \in Asked("badge")' : ~(r.at = "answered" /\ r.n = badge'.last)
        <3>1. \A r \in rs : r.n # asks + 1
            BY <1>1, <1>7
        <3> QED BY <1>2, <1>3, <1>5, <1>6, <1>9, <3>1 DEF Asked
    <2> QED BY <1>9, <2>1, <2>2, <2>3 DEF Recent
<1> QED BY <1>13, <1>14, <1>15, <1>16, <1>17 DEF IInv

LEMMA AddAnsweredStep ==
    ASSUME IInv, NEW r \in requests, AddAnswered(r)
    PROVE  IInv'
BY OtherRests, CartUpdatedStep DEF AddAnswered

\* A fetch ends: the event follows, or nothing does.
LEMMA FetchEndsStep ==
    ASSUME IInv, NEW r \in requests, NEW v, UNCHANGED server, FetchEnds(r, v),
           Rests(IF r.here THEN v ELSE view, requests \ {r})
    PROVE  IInv'
<1>1. CASE r.then
    BY <1>1, CartUpdatedStep DEF FetchEnds
<1>2. CASE ~r.then
    <2> DEFINE shown == IF r.here THEN v ELSE view
               rest == requests \ {r}
    <2>1. /\ view' = shown /\ requests' = rest /\ badge' = badge /\ asks' = asks
          /\ Heard({})
        BY <1>2 DEF FetchEnds
    <2>2. /\ (\A q \in rest : ~q.then) => \A q \in requests : ~q.then
          /\ (\A q \in rest : ~q.then) /\ badge.current /\ badge.ok =>
                badge.value \in since["badge"]
        BY <1>2 DEF IInv, Recent
    <2>3. badge \in [last : Nat, current : BOOLEAN, ok : BOOLEAN, value : SUBSET Things]
        BY DEF IInv, TypeOK, StateOK
    <2>4. Rests(shown, rest)
        OBVIOUS
    <2> HIDE DEF shown, rest
    <2> QED BY <2>1, <2>2, <2>3, <2>4, RestStep
<1> QED BY <1>1, <1>2

LEMMA PageFetchedStep ==
    ASSUME IInv, NEW r \in requests, PageFetched(r)
    PROVE  IInv'
<1> DEFINE v == [view EXCEPT !.loading = FALSE, !.value = r.answer,
                             !.current = (r.n = view.last)]
<1>1. r \in Asking /\ view \in Views
    BY DEF IInv, TypeOK, StateOK
<1>2. /\ v \in Views /\ v.page = view.page /\ v.key = view.key /\ v.last = view.last
      /\ ~v.loading /\ v.value = r.answer /\ (v.current <=> r.n = view.last)
    BY <1>1 DEF Views, Asking
<1>3. r.to \in {"view", "left"} /\ r.at = "answered" /\ UNCHANGED server
      /\ FetchEnds(r, v)
    BY DEF PageFetched
<1> HIDE DEF v
<1>4. v.current /\ r.to = "view" => v.value \in since["view"]
    BY <1>2, <1>3 DEF IInv, Recent, Asked
<1>5. Rests(IF r.here THEN v ELSE view, requests \ {r})
    BY <1>2, <1>3, <1>4, FetchRests
<1> QED BY <1>3, <1>5, FetchEndsStep

LEMMA PageFailsStep ==
    ASSUME IInv, NEW r \in requests, PageFails(r)
    PROVE  IInv'
<1> DEFINE v == FailedFetch(view)
<1>1. view \in Views
    BY DEF IInv, TypeOK, StateOK
<1>2. /\ v \in Views /\ v.page = view.page /\ v.key = view.key /\ v.last = view.last
      /\ ~v.loading /\ v.error /\ v.value = view.value /\ v.current = view.current
    BY <1>1 DEF Views, FailedFetch
<1>3. r.to \in {"view", "left"} /\ UNCHANGED server /\ FetchEnds(r, v)
    BY DEF PageFails
<1> HIDE DEF v
<1>4. v.current => v.value \in since["view"]
    BY <1>2 DEF IInv, Recent
<1>5. Rests(IF r.here THEN v ELSE view, requests \ {r})
    BY <1>2, <1>3, <1>4, FetchRests
<1> QED BY <1>3, <1>5, FetchEndsStep

LEMMA BadgeStep ==
    ASSUME IInv, NEW r \in requests, BadgeFetched(r) \/ BadgeFails(r)
    PROVE  IInv'
<1> DEFINE rest == requests \ {r}
<1>1. r \in Asking
    BY DEF IInv, TypeOK, StateOK
<1>2. /\ r.to = "badge" /\ UNCHANGED <<server, view, asks>> /\ requests' = rest
      /\ Heard({})
    BY DEF BadgeFetched, BadgeFails, BadgeEnds
<1>3. Rests(view, rest)
    BY <1>2, OtherRests
<1>4. (\A q \in rest : ~q.then) => \A q \in requests : ~q.then
    BY <1>2 DEF IInv, Addressed
<1>5. /\ badge' \in [last : Nat, current : BOOLEAN, ok : BOOLEAN, value : SUBSET Things]
      /\ badge'.last = badge.last
      /\ (\A q \in requests : ~q.then) /\ badge'.current /\ badge'.ok =>
            badge'.value \in since["badge"]
    <2>1. CASE BadgeFetched(r)
        <3>1. badge' = [badge EXCEPT !.ok = TRUE, !.value = r.answer,
                                     !.current = (r.n = badge.last)]
            BY <2>1 DEF BadgeFetched, BadgeEnds
        <3>2. /\ badge' \in [last : Nat, current : BOOLEAN, ok : BOOLEAN,
                             value : SUBSET Things]
              /\ badge'.last = badge.last /\ badge'.value = r.answer
              /\ badge'.current => r.n = badge.last
            BY <1>1, <3>1 DEF IInv, TypeOK, StateOK, Asking
        <3>3. r.at = "answered"
            BY <2>1 DEF BadgeFetched
        <3> QED BY <1>2, <3>2, <3>3 DEF IInv, Recent, Asked
    <2>2. CASE BadgeFails(r)
        <3>1. badge' = [badge EXCEPT !.ok = FALSE, !.value = {}]
            BY <2>2 DEF BadgeFails, BadgeEnds
        <3> QED BY <3>1 DEF IInv, TypeOK, StateOK
    <2> QED BY <2>1, <2>2
<1> HIDE DEF rest
<1> QED BY <1>2, <1>3, <1>4, <1>5, RestStep

LEMMA ClickFailsStep ==
    ASSUME IInv, NEW r \in requests, ClickFails(r)
    PROVE  IInv'
<1> DEFINE rest == requests \ {r}
<1>1. /\ r.to = "click" /\ UNCHANGED <<server, badge, asks>> /\ requests' = rest
      /\ Heard({})
    BY DEF ClickFails
<1>2. Rests(view, rest)
    BY <1>1, OtherRests
<1>3. Rests(view', rest)
    <2>1. CASE r.page = "checkout" /\ r.here
        <3>1. view.page = "checkout"
            BY <1>1, <2>1 DEF IInv, Addressed
        <3>2. view' = [view EXCEPT !.loading = FALSE]
            BY <2>1 DEF ClickFails
        <3>3. /\ view' \in Views /\ view'.page = view.page /\ view'.key = view.key
              /\ view'.last = view.last /\ view'.current = view.current
              /\ view'.value = view.value /\ view'.error = view.error
            BY <3>2 DEF IInv, TypeOK, StateOK, Views
        <3>4. \A q \in rest : q.to # "view"
            BY <3>1 DEF IInv, OneAtATime, Asked
        <3> QED BY <1>2, <3>1, <3>3, <3>4 DEF Rests
    <2>2. CASE ~(r.page = "checkout" /\ r.here)
        BY <1>2, <2>2 DEF ClickFails
    <2> QED BY <2>1, <2>2
<1>4. /\ (\A q \in rest : ~q.then) => \A q \in requests : ~q.then
      /\ badge \in [last : Nat, current : BOOLEAN, ok : BOOLEAN, value : SUBSET Things]
      /\ (\A q \in requests : ~q.then) /\ badge.current /\ badge.ok =>
            badge.value \in since["badge"]
    BY <1>1 DEF IInv, TypeOK, StateOK, Addressed, Recent
<1> HIDE DEF rest
<1> QED BY <1>1, <1>3, <1>4, RestStep

LEMMA ChangeAnsweredStep ==
    ASSUME IInv, NEW r \in requests, ChangeAnswered(r)
    PROVE  IInv'
<1> DEFINE to == IF r.here THEN "view" ELSE "left"
           q == Request(asks + 1, to, "cart", None, TRUE)
           rest == requests \ {r}
<1>1. asks \in Nat /\ asks + 1 \in Nat /\ None \in Keys /\ view \in Views
    BY DEF IInv, TypeOK, StateOK, Keys
<1>2. /\ q \in Asking /\ q.n = asks + 1 /\ q.to = to /\ q.page = "cart"
      /\ q.key = None /\ q.then /\ q.at = "sent" /\ (q.here <=> to # "left")
    BY <1>1 DEF Request, Asking, PageNames
<1>3. /\ r.to = "click" /\ r.page = "cart" /\ UNCHANGED <<server, badge>>
      /\ asks' = asks + 1 /\ requests' = rest \cup {q}
      /\ view' = IF r.here THEN Loading(view, asks + 1) ELSE view
      /\ Heard(IF r.here THEN Targets ELSE {"badge"})
    BY DEF ChangeAnswered
<1>4. r.here => view.page = "cart" /\ view.key = None
    BY <1>3 DEF IInv, Addressed
<1>5. /\ r.here => to = "view"
      /\ ~r.here => to = "left"
    OBVIOUS
<1> HIDE DEF q, to
<1>6. /\ view' \in Views /\ view'.page = view.page /\ view'.key = view.key
      /\ r.here => view'.last = asks + 1 /\ ~view'.current /\ view'.loading
      /\ ~r.here => view' = view
    BY <1>1, <1>3, LoadingTyped
<1>7. StateOK'
    BY <1>1, <1>2, <1>3, <1>6 DEF IInv, TypeOK, StateOK, server
<1>8. TypeOK' /\ (~r.here => since["view"] \subseteq since'["view"])
    BY <1>3, <1>7, HeardGrows DEF IInv, Targets
<1>9. \A p \in rest : p.n \in Nat /\ 1 <= p.n /\ p.n <= asks
    BY DEF IInv, TypeOK, StateOK, Asking, Numbered
<1>10. \A p \in rest : p.n # asks + 1
    BY <1>1, <1>9
<1>11. Numbered'
    <2>1. view'.last <= asks' /\ badge'.last <= asks'
        BY <1>1, <1>3, <1>6 DEF IInv, TypeOK, StateOK, Views, Numbered
    <2>2. 1 <= q.n /\ q.n <= asks' /\ \A p \in rest : 1 <= p.n /\ p.n <= asks'
        BY <1>1, <1>2, <1>3, <1>9
    <2>3. \A p, s \in rest : p.n = s.n => p = s
        BY DEF IInv, Numbered
    <2> QED BY <1>2, <1>3, <1>10, <2>1, <2>2, <2>3 DEF Numbered
<1>12. \A p \in requests' : p = q \/ p \in requests
    BY <1>3
<1>13. Addressed'
    <2>1. \A p \in rest : p.to = "view" =>
             p.here /\ (p.n = view'.last => p.page = view'.page /\ p.key = view'.key)
        BY <1>6, <1>10 DEF IInv, Addressed
    <2> QED BY <1>2, <1>3, <1>4, <1>5, <1>6, <2>1 DEF IInv, Addressed
<1>14. OneAtATime'
    <2>1. CASE r.here
        <3>1. q \in Asked("view")'
            BY <1>2, <1>3, <1>5, <2>1 DEF Asked
        <3> QED BY <1>4, <1>6, <2>1, <3>1 DEF OneAtATime
    <2>2. CASE ~r.here
        <3>1. Asked("view")' = Asked("view")
            BY <1>2, <1>3, <1>5, <2>2 DEF Asked
        <3> QED BY <1>6, <2>2, <3>1 DEF IInv, OneAtATime
    <2> QED BY <2>1, <2>2
<1>15. Recent'
    <2>1. \A p \in Asked("view")' :
             p.at = "answered" /\ p.n = view'.last => p.answer \in since'["view"]
        <3>1. CASE r.here
            BY <1>2, <1>3, <1>6, <1>10, <3>1 DEF Asked
        <3>2. CASE ~r.here
            BY <1>2, <1>3, <1>6, <1>8, <3>2 DEF Asked, IInv, Recent
        <3> QED BY <3>1, <3>2
    <2>2. view'.current => view'.value \in since'["view"]
        BY <1>6, <1>8 DEF IInv, Recent
    <2>3. q \in requests' /\ q.then
        BY <1>2, <1>3
    <2> QED BY <2>1, <2>2, <2>3 DEF Recent
<1> QED BY <1>8, <1>11, <1>13, <1>14, <1>15 DEF IInv

LEMMA OrderAnsweredStep ==
    ASSUME IInv, NEW r \in requests, OrderAnswered(r)
    PROVE  IInv'
<1> DEFINE b(i) == Request(asks + i, "badge", "cart", None, FALSE)
           old == Left(requests \ {r})
           new == {b(i) : i \in 1..2}
<1>1. asks \in Nat /\ asks + 1 \in Nat /\ asks + 2 \in Nat /\ None \in Keys
    BY DEF IInv, TypeOK, StateOK, Keys
<1>2. \A i \in 1..2 : /\ b(i) \in Asking /\ b(i).n = asks + i /\ b(i).to = "badge"
                      /\ b(i).page = "cart" /\ ~b(i).then /\ b(i).at = "sent"
    BY <1>1 DEF Request, Asking, PageNames
<1>3. /\ UNCHANGED server /\ asks' = asks + 2 /\ requests' = old \cup new
      /\ view' = Mounted("success", None, 0) /\ Heard(Targets)
      /\ badge' = [badge EXCEPT !.last = asks + 2, !.current = FALSE]
    BY DEF OrderAnswered
<1> HIDE DEF b
<1>4. \A p \in new : /\ p \in Asking /\ asks + 1 <= p.n /\ p.n <= asks + 2
                     /\ p.to = "badge" /\ p.page = "cart" /\ ~p.then /\ p.at = "sent"
    <2>1. SUFFICES ASSUME NEW i \in 1..2
                   PROVE  asks + 1 <= asks + i /\ asks + i <= asks + 2
        BY <1>2
    <2> QED BY <1>1
<1>5. \A p, s \in new : p.n = s.n => p = s
    <2>1. SUFFICES ASSUME NEW i \in 1..2, NEW j \in 1..2, asks + i = asks + j
                   PROVE  i = j
        BY <1>2
    <2> QED BY <1>1, <2>1
<1> HIDE DEF new
<1>6. /\ view' \in Views /\ view'.page = "success" /\ view'.last = 0
      /\ ~view'.current /\ ~view'.loading
    BY <1>1, <1>3, MountedTyped DEF Fetches, PageNames
<1>7. badge' \in [last : Nat, current : BOOLEAN, ok : BOOLEAN, value : SUBSET Things]
      /\ badge'.last = asks + 2 /\ ~badge'.current
    BY <1>1, <1>3 DEF IInv, TypeOK, StateOK
<1>8. /\ old \subseteq Asking
      /\ \A p \in old : /\ p.to # "view"
                        /\ p.to = "left" => ~p.here
                        /\ p.to = "badge" => p.page = "cart" /\ ~p.then
                        /\ p.to = "click" => ~p.here /\ ~p.then
                        /\ p.to = "click" /\ p.page # "checkout" => p.key \in Products
      /\ \A p, s \in old : p.n = s.n => p = s
    BY LeftFacts
<1>16. \A p \in old : p.n \in Nat /\ 1 <= p.n /\ p.n <= asks
    BY LeftFacts DEF Asking
<1> HIDE DEF old
<1>9. StateOK'
    BY <1>1, <1>3, <1>4, <1>6, <1>7, <1>8 DEF IInv, TypeOK, StateOK, server
<1>10. TypeOK'
    BY <1>3, <1>9, HeardGrows DEF IInv
<1>11. Numbered'
    <2>1. view'.last <= asks' /\ badge'.last <= asks'
        BY <1>1, <1>3, <1>6, <1>7
    <2>2. \A p \in old : 1 <= p.n /\ p.n <= asks'
        BY <1>1, <1>3, <1>16
    <2>3. \A p \in new : p.n \in Nat /\ 1 <= p.n /\ p.n <= asks'
        BY <1>1, <1>3, <1>4 DEF Asking
    <2>4. \A p \in old, s \in new : p.n # s.n
        BY <1>1, <1>4, <1>16, <2>3
    <2>5. \A p, s \in requests' : p.n = s.n => p = s
        BY <1>3, <1>5, <1>8, <2>4
    <2> QED BY <1>3, <2>1, <2>2, <2>3, <2>5 DEF Numbered
<1>12. Addressed'
    BY <1>3, <1>4, <1>6, <1>8 DEF Addressed
<1>13. Asked("view")' = {}
    BY <1>3, <1>4, <1>8 DEF Asked
<1>14. OneAtATime'
    BY <1>6, <1>13 DEF OneAtATime
<1>15. Recent'
    <2>1. \A p \in old : p.n # asks + 2
        BY <1>1, <1>16
    <2>2. \A p \in Asked("badge")' : ~(p.at = "answered" /\ p.n = badge'.last)
        BY <1>3, <1>4, <1>7, <2>1 DEF Asked
    <2> QED BY <1>6, <1>7, <1>13, <2>2 DEF Recent
<1> QED BY <1>10, <1>11, <1>12, <1>14, <1>15 DEF IInv

-----------------------------------------------------------------------------
(* The theorems                                                            *)

LEMMA Initially ==
    ASSUME Init
    PROVE  IInv
<1>1. PICK f \in Filters :
         /\ view = Mounted("products", f, 2)
         /\ requests = {Request(1, "badge", "cart", None, FALSE),
                        Request(2, "view", "products", f, FALSE)}
    BY DEF Init
<1> DEFINE b == Request(1, "badge", "cart", None, FALSE)
           q == Request(2, "view", "products", f, FALSE)
<1>2. /\ b \in Asking /\ b.n = 1 /\ b.to = "badge" /\ b.page = "cart" /\ ~b.then
      /\ b.at = "sent"
    BY DEF Request, Asking, PageNames, Keys
<1>3. /\ q \in Asking /\ q.n = 2 /\ q.to = "view" /\ q.page = "products" /\ q.key = f
      /\ ~q.then /\ q.at = "sent"
    BY DEF Request, Asking, PageNames, Keys
<1>4. q.here
    BY DEF Request
<1>5. requests = {b, q}
    BY <1>1
<1> HIDE DEF b, q
<1>6. /\ view \in Views /\ view.page = "products" /\ view.key = f /\ view.last = 2
      /\ ~view.current
    BY <1>1, MountedTyped DEF PageNames, Keys
<1>7. /\ badge \in [last : Nat, current : BOOLEAN, ok : BOOLEAN, value : SUBSET Things]
      /\ badge.last = 1 /\ ~badge.current
    BY DEF Init
<1>8. StateOK
    BY <1>2, <1>3, <1>5, <1>6, <1>7 DEF Init, StateOK
<1>9. TypeOK
    BY <1>8, WantedTyped DEF Init, TypeOK
<1>10. Numbered
    <2>1. asks = 2 /\ 1 <= b.n /\ b.n <= 2 /\ 1 <= q.n /\ q.n <= 2 /\ b.n # q.n
        BY <1>2, <1>3 DEF Init
    <2>2. view.last <= asks /\ badge.last <= asks
        BY <1>6, <1>7, <2>1
    <2> QED BY <1>5, <2>1, <2>2 DEF Numbered
<1>11. Addressed
    BY <1>2, <1>3, <1>4, <1>5, <1>6 DEF Addressed
<1>12. OneAtATime
    BY <1>3, <1>5, <1>6 DEF OneAtATime, Asked
<1>13. Recent
    BY <1>2, <1>3, <1>5, <1>6, <1>7 DEF Recent, Asked
<1> QED BY <1>9, <1>10, <1>11, <1>12, <1>13 DEF IInv

\* The server's tables, the page, the badge and the requests under way stay
\* as IInv says, by every step.
THEOREM Invariance == Spec => []IInv
<1>1. Init => IInv
    BY Initially
<1>2. IInv /\ [Next]_vars => IInv'
    <2> SUFFICES ASSUME IInv, [Next]_vars
                 PROVE  IInv'
        OBVIOUS
    <2>1. ASSUME NEW link \in Links, Visit(link[1], link[2])
          PROVE  IInv'
        BY <2>1, VisitStep
    <2>2. ASSUME NEW f \in Filters, ApplyFilters(f)
          PROVE  IInv'
        BY <2>2, FilterStep
    <2>3. ASSUME NEW o \in Orders, Track(o)
          PROVE  IInv'
        BY <2>3, TrackStep
    <2>4. ASSUME NEW p \in Products, ClickProduct(p)
          PROVE  IInv'
        BY <2>4, ClickProductStep
    <2>5. CASE Submit
        BY <2>5, SubmitStep
    <2>6. ASSUME NEW r \in requests, Comes(r)
          PROVE  IInv'
        BY <2>6, ReadStep, ChangeCartStep, CreateOrderStep, PageFetchedStep,
           PageFailsStep, BadgeStep, AddAnsweredStep, ChangeAnsweredStep,
           OrderAnsweredStep, ClickFailsStep DEF Comes
    <2>7. CASE \/ \E p \in Products, matching \in SUBSET Filters :
                     UpdateProduct(p, matching)
               \/ \E lines \in SUBSET Products : ElsewhereInCart(lines)
               \/ \E o \in Orders : ElsewhereOrdered(o)
               \/ Restart
        BY <2>7, QuietSteps
    <2>8. CASE UNCHANGED vars
        BY <2>8 DEF vars, IInv, TypeOK, StateOK, Numbered, Addressed, OneAtATime,
                    Recent, Asked
    <2> QED BY <2>1, <2>2, <2>3, <2>4, <2>5, <2>6, <2>7, <2>8 DEF Next
<1> QED BY <1>1, <1>2, PTL DEF Spec

\* Everything has its type.
THEOREM TypeCorrect == Spec => []TypeOK
<1>1. IInv => TypeOK
    BY DEF IInv
<1> QED BY <1>1, Invariance, PTL

\* A page and the badge at rest show what was so since they asked, and since
\* the tab last heard of a change (products/page.tsx:59-81, Navbar.tsx:16-58).
THEOREM PagesShowTruth == Spec => []SettledShowsTruth
<1>1. IInv => SettledShowsTruth
    <2> SUFFICES ASSUME IInv
                 PROVE  SettledShowsTruth
        OBVIOUS
    <2>1. Asked("view") = {} /\ view.last # 0 /\ view.page # "checkout" =>
             /\ ~view.loading
             /\ view.current /\ ~view.error => view.value \in since["view"]
             /\ view.current \/ view.error \/ view.page \in {"products", "cart"}
        BY DEF IInv, OneAtATime, Recent
    <2>2. (\A r \in requests : ~r.then) /\ badge.current /\ badge.ok =>
             badge.value \in since["badge"]
        BY DEF IInv, Recent
    <2> QED BY <2>1, <2>2 DEF SettledShowsTruth
<1> QED BY <1>1, Invariance, PTL
=============================================================================
