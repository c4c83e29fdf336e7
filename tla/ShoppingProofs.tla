--------------------------- MODULE ShoppingProofs ---------------------------
(***************************************************************************)
(* For every set of products and any number of overlapping clicks: the     *)
(* invariant of Shopping is inductive, and nothing leaves the cart before  *)
(* it is taken out or ordered.                                             *)
(***************************************************************************)
EXTENDS Shopping, TLAPS

\* A quantity is a number, zero where there is no line.
LEMMA QtyIsInt ==
  ASSUME NEW lines \in Lines
  PROVE  \A p \in Products : /\ Qty(lines, p) \in Int
                             /\ lines[p] # None => Qty(lines, p) = lines[p]
BY DEF Lines, Qty

LEMMA NoLinesType ==
  /\ NoLines \in Lines
  /\ \A p \in Products : Qty(NoLines, p) = 0
  /\ LinesOf(NoLines) = {}
BY DEF NoLines, Lines, Qty, LinesOf

LEMMA IdleType ==
  Idle \in Click /\ Idle.at = "idle" /\ Idle.kind = None /\ Idle.live = {}
    /\ Idle.items = NoLines
BY NoLinesType, QuantityAssumption DEF Idle, Click

LEMMA InitEstablishes == Init => IInv
<1> SUFFICES ASSUME Init PROVE IInv
  OBVIOUS
<1> USE NoLinesType, IdleType, QuantityAssumption DEF Init
<1>1. TypeOK
  BY DEF TypeOK, NothingKept
<1>2. StagesOK /\ CalmOK
  BY DEF StagesOK, CalmOK, Active
<1>3. WithinStock
  BY DEF WithinStock
<1>4. OneAtATimeConserves
  BY DEF OneAtATimeConserves, NothingKept
<1> QED BY <1>1, <1>2, <1>3, <1>4 DEF IInv

\* What a click is while the cart, the account and the calm stay as they are.
Sound(r) ==
    /\ r \in Click
    /\ r.live \subseteq LinesOf(r.items)
    /\ r.at \in {"sent", "priced"} /\ r.kind # "submit" => r.product \in Products
    /\ r.at = "priced" => r.kind \in {"add", "update"}
    /\ \A p \in Products : Qty(r.items, p) <= MaxStock

\* Every click of the invariant is sound, and the one that is under way while
\* it is calm is the only one.
LEMMA ClicksSound ==
  ASSUME IInv, NEW k \in Clicks
  PROVE  Sound(click[k])
BY DEF IInv, TypeOK, StagesOK, WithinStock, Sound

LEMMA OnlyActive ==
  ASSUME IInv, calm, NEW k \in Clicks, click[k].at # "idle"
  PROVE  \A j \in Clicks \ {k} : click[j].at = "idle"
BY DEF IInv, CalmOK, Active

\* A click moves on and nothing else changes.
LEMMA MoveStep ==
  ASSUME IInv, NEW k \in Clicks, NEW r, Sound(r), Moves(k, r),
         UNCHANGED <<cart, page, calm, kept>>,
         click[k].at # "idle", click[k].at = "clear" <=> r.at = "clear",
         calm => /\ r.at \in {"copy", "insert"} => r.items = cart
                 /\ r.at \in {"drop", "delete"} => cart = NoLines
  PROVE  IInv'
<1>1. /\ click'[k] = r /\ click' \in [Clicks -> Click]
      /\ \A j \in Clicks \ {k} : click'[j] = click[j]
  BY DEF Moves, Sound, IInv, TypeOK
<1>2. TypeOK' /\ StagesOK' /\ WithinStock'
  BY <1>1 DEF IInv, TypeOK, StagesOK, WithinStock, Sound
<1>3. CalmOK'
  BY <1>1, OnlyActive DEF CalmOK, IInv, Active
<1>4. OneAtATimeConserves'
  BY <1>1 DEF OneAtATimeConserves, IInv
<1> QED BY <1>2, <1>3, <1>4 DEF IInv

\* A click begins: with another under way the calm is over.
LEMMA BeginStep ==
  ASSUME IInv, NEW k \in Clicks, NEW kind \in {"add", "update", "remove", "submit"},
         NEW p \in Products \cup {None}, NEW q \in Int, Begin(k, kind, p, q),
         kind # "submit" => p \in Products
  PROVE  IInv'
<1> DEFINE r == [at |-> "sent", kind |-> kind, product |-> p, quantity |-> q,
                 seen |-> 0, items |-> NoLines, live |-> {}, waiting |-> TRUE]
<1>1. Sound(r) /\ r.at = "sent"
  BY NoLinesType, QuantityAssumption DEF Sound, Click
<1>2. /\ click'[k] = r /\ click' \in [Clicks -> Click] /\ click[k].at = "idle"
      /\ \A j \in Clicks \ {k} : click'[j] = click[j]
  BY <1>1 DEF Begin, Moves, Sound, IInv, TypeOK
<1> HIDE DEF r
<1>3. calm' \in BOOLEAN /\ kept' \in [Products -> Int] /\ UNCHANGED <<cart, page>>
  BY DEF Begin, IInv, TypeOK, NothingKept
<1>4. TypeOK' /\ StagesOK' /\ WithinStock'
  BY <1>1, <1>2, <1>3 DEF IInv, TypeOK, StagesOK, WithinStock, Sound
<1>5. calm' => calm /\ kept' = kept /\ \A j \in Clicks : click[j].at = "idle"
  BY DEF Begin, Active
<1>6. CalmOK'
  BY <1>1, <1>2, <1>5 DEF CalmOK, Active
<1>7. OneAtATimeConserves'
  BY <1>1, <1>2, <1>3, <1>5 DEF OneAtATimeConserves, IInv
<1> QED BY <1>4, <1>6, <1>7 DEF IInv

\* A click writes a quantity into a line, and into the copies that are still
\* the cart's own.
LEMMA WriteStep ==
  ASSUME IInv, NEW k \in Clicks, NEW p \in Products, NEW q \in Int,
         click[k].at = "priced", cart' = [cart EXCEPT ![p] = q], Writes(k, p, q),
         UNCHANGED <<page, calm>>, q <= MaxStock,
         kept' = IF calm THEN [kept EXCEPT ![p] = q] ELSE kept
  PROVE  IInv'
<1> USE NoneAssumption
<1>1. cart' \in Lines /\ cart'[p] = q /\ \A x \in Products \ {p} : cart'[x] = cart[x]
  BY DEF IInv, TypeOK, Lines
<1>2. click'[k] = Idle
  BY DEF Writes
<1>3. ASSUME NEW j \in Clicks \ {k}
      PROVE  /\ click'[j].at = click[j].at
             /\ Sound(click'[j])
  <2>1. CASE p \in click[j].live
    <3> DEFINE items == [click[j].items EXCEPT ![p] = q]
    <3>1. click'[j] = [click[j] EXCEPT !.items = items]
      BY <2>1 DEF Writes
    <3>2. click[j].items \in Lines /\ Sound(click[j])
      BY ClicksSound DEF Sound, Click
    <3>3. /\ items \in Lines /\ items[p] = q
          /\ \A x \in Products \ {p} : items[x] = click[j].items[x]
      BY <3>2 DEF Lines
    <3>4. LinesOf(click[j].items) \subseteq LinesOf(items)
      BY <3>3 DEF LinesOf
    <3>5. \A x \in Products : Qty(items, x) <= MaxStock
      BY <3>2, <3>3 DEF Qty, Sound
    <3> HIDE DEF items
    <3>6. /\ click'[j] \in Click /\ click'[j].items = items
          /\ click'[j].at = click[j].at /\ click'[j].kind = click[j].kind
          /\ click'[j].product = click[j].product
          /\ click'[j].live = click[j].live
      BY <3>1, <3>2, <3>3 DEF Sound, Click
    <3> QED BY <3>2, <3>4, <3>5, <3>6 DEF Sound
  <2>2. CASE p \notin click[j].live
    BY <2>2, ClicksSound DEF Writes
  <2> QED BY <2>1, <2>2
<1>4. kept' \in [Products -> Int]
  BY DEF IInv, TypeOK
<1>5. click' \in [Clicks -> Click]
  BY <1>2, <1>3, IdleType DEF Writes, Sound
<1>6. TypeOK' /\ StagesOK'
  BY <1>1, <1>2, <1>3, <1>4, <1>5, IdleType
     DEF IInv, TypeOK, StagesOK, Sound
<1>7. WithinStock'
  BY <1>1, <1>2, <1>3, IdleType, NoLinesType, QuantityAssumption
     DEF IInv, WithinStock, Sound, Qty
<1>8. CalmOK'
  BY <1>2, <1>3, OnlyActive, IdleType DEF IInv, CalmOK, Active
<1>9. OneAtATimeConserves'
  <2> SUFFICES ASSUME calm PROVE \A x \in Products : Qty(cart', x) = kept'[x]
    BY DEF OneAtATimeConserves
  <2>1. \A x \in Products : Qty(cart, x) = kept[x]
    BY OnlyActive DEF IInv, OneAtATimeConserves
  <2> QED BY <2>1, <1>1 DEF IInv, TypeOK, Qty
<1> QED BY <1>6, <1>7, <1>8, <1>9 DEF IInv

\* A click leaves lines of the cart out, which then are nobody else's.
LEMMA UnlinkStep ==
  ASSUME IInv, NEW k \in Clicks, NEW r, Sound(r), NEW ps, Unlinks(k, r, ps),
         cart' \in Lines, \A p \in Products : cart'[p] \in {cart[p], None},
         UNCHANGED <<page, calm>>, kept' \in [Products -> Int],
         click[k].at # "idle", r.at \in {"idle", "drop"},
         calm => /\ r.at = "drop" => cart' = NoLines
                 /\ \A p \in Products : Qty(cart', p) = kept'[p]
  PROVE  IInv'
<1> USE NoneAssumption
<1>1. /\ click'[k] = r
      /\ \A j \in Clicks \ {k} : click'[j] = [click[j] EXCEPT !.live = @ \ ps]
  BY DEF Unlinks
<1>2. ASSUME NEW j \in Clicks \ {k}
      PROVE  Sound(click'[j]) /\ click'[j].at = click[j].at
  <2>1. Sound(click[j])
    BY ClicksSound
  <2>2. /\ click'[j] \in Click
        /\ click'[j].live \subseteq click[j].live
        /\ click'[j].at = click[j].at /\ click'[j].kind = click[j].kind
        /\ click'[j].product = click[j].product
        /\ click'[j].items = click[j].items
    <3> DEFINE left == click[j].live \ ps
    <3>1. click[j] \in Click /\ left \in SUBSET Products /\ left \subseteq click[j].live
      BY <2>1 DEF Sound, Click
    <3>2. click'[j] = [click[j] EXCEPT !.live = left]
      BY <1>1
    <3> HIDE DEF left
    <3> QED BY <3>1, <3>2 DEF Click
  <2> QED BY <2>1, <2>2 DEF Sound
<1>3. click' \in [Clicks -> Click]
  BY <1>1, <1>2 DEF Unlinks, Sound
<1>4. TypeOK' /\ StagesOK'
  BY <1>1, <1>2, <1>3 DEF IInv, TypeOK, StagesOK, Sound
<1>5. WithinStock'
  BY <1>1, <1>2, QuantityAssumption DEF IInv, WithinStock, Sound, Qty
<1>6. CalmOK'
  BY <1>1, <1>2, OnlyActive DEF IInv, CalmOK, Active
<1>7. OneAtATimeConserves'
  BY DEF OneAtATimeConserves
<1> QED BY <1>4, <1>5, <1>6, <1>7 DEF IInv

\* A click fails: whoever was between the insert of an order and the clearing
\* of its cart ends the calm with it.
LEMMA FailStep ==
  ASSUME IInv, NEW k \in Clicks, Fails(k)
  PROVE  IInv'
<1>1. /\ click'[k] = Idle /\ click' \in [Clicks -> Click]
      /\ \A j \in Clicks \ {k} : click'[j] = click[j]
  BY IdleType DEF Fails, Moves, IInv, TypeOK
<1>2. /\ calm' \in BOOLEAN /\ kept' \in [Products -> Int]
      /\ calm' => calm /\ kept' = kept /\ click[k].at # "clear"
      /\ UNCHANGED <<cart, page>>
  <2>1. kept \in [Products -> Int] /\ NothingKept \in [Products -> Int]
    BY DEF IInv, TypeOK, NothingKept
  <2>2. calm' = (calm /\ click[k].at # "clear") /\ UNCHANGED <<cart, page>>
    BY DEF Fails
  <2>3. kept' = IF calm' THEN kept ELSE NothingKept
    BY DEF Fails
  <2> QED BY <2>1, <2>2, <2>3
<1>3. Sound(Idle)
  BY IdleType, NoLinesType, QuantityAssumption DEF Sound
<1>4. TypeOK' /\ StagesOK' /\ WithinStock'
  BY <1>1, <1>2, <1>3 DEF IInv, TypeOK, StagesOK, WithinStock, Sound
<1>5. CalmOK'
  BY <1>1, <1>2, IdleType DEF IInv, CalmOK, Active
<1>6. OneAtATimeConserves'
  BY <1>1, <1>2 DEF IInv, OneAtATimeConserves
<1> QED BY <1>4, <1>5, <1>6 DEF IInv

\* The order is inserted: what it has is what the cart had.
LEMMA InsertStep ==
  ASSUME IInv, NEW k \in Clicks, Insert(k)
  PROVE  IInv'
<1> DEFINE r == [click[k] EXCEPT !.at = "clear"]
<1>1. Sound(r) /\ r.at = "clear"
  BY ClicksSound DEF Sound, Click
<1>2. /\ click'[k] = r /\ click' \in [Clicks -> Click]
      /\ \A j \in Clicks \ {k} : click'[j] = click[j]
      /\ UNCHANGED <<cart, page, calm>> /\ click[k].at = "insert"
  BY <1>1 DEF Insert, Moves, IInv, TypeOK, Sound
<1> HIDE DEF r
<1>3. kept' \in [Products -> Int]
  BY ClicksSound, QtyIsInt DEF Insert, IInv, TypeOK, Sound, Click
<1>4. TypeOK' /\ StagesOK' /\ WithinStock'
  BY <1>1, <1>2, <1>3 DEF IInv, TypeOK, StagesOK, WithinStock, Sound
<1>5. ASSUME calm PROVE kept' = NothingKept
  <2>1. click[k].items = cart
    BY <1>2, <1>5 DEF IInv, CalmOK
  <2>2. \A p \in Products : Qty(cart, p) = kept[p]
    BY <1>2, <1>5, OnlyActive DEF IInv, OneAtATimeConserves
  <2>3. kept \in [Products -> Int]
    BY DEF IInv, TypeOK
  <2> QED BY <1>5, <2>1, <2>2, <2>3 DEF Insert, NothingKept
<1>6. CalmOK'
  BY <1>1, <1>2, <1>5, OnlyActive DEF IInv, CalmOK, Active
<1>7. OneAtATimeConserves'
  BY <1>1, <1>2 DEF OneAtATimeConserves
<1> QED BY <1>4, <1>6, <1>7 DEF IInv

\* Each step that only moves its click on is an instance of MoveStep.
LEMMA MovesKeep ==
  ASSUME IInv, NEW k \in Clicks,
         \/ \E n \in 0..MaxStock : ReadProduct(k, n)
         \/ InsufficientStock(k) \/ Gather(k) \/ Gathered(k)
         \/ \E p \in Products : CopyLine(k, p)
         \/ DropReservations(k) \/ GivesUp(k)
  PROVE  IInv'
<1>0. /\ Sound(click[k]) /\ click[k] \in Click
      /\ Sound(Idle) /\ Idle.at = "idle"
  BY ClicksSound, IdleType, NoLinesType, QuantityAssumption DEF Sound
<1>1. ASSUME NEW n \in 0..MaxStock, ReadProduct(k, n) PROVE IInv'
  <2> DEFINE r == [click[k] EXCEPT !.at = "priced", !.seen = n]
  <2>1. Sound(r) /\ r.at = "priced" /\ click[k].at = "sent"
    BY <1>0, <1>1 DEF ReadProduct, Sound, Click
  <2>2. Moves(k, r) /\ UNCHANGED <<cart, page, calm, kept>>
    BY <1>1 DEF ReadProduct
  <2> HIDE DEF r
  <2> QED BY <2>1, <2>2, MoveStep
<1>2. CASE InsufficientStock(k)
  BY <1>0, <1>2, MoveStep DEF InsufficientStock
<1>3. CASE Gather(k)
  <2> DEFINE r == [click[k] EXCEPT !.at = "copy", !.items = cart,
                                   !.live = LinesOf(cart)]
  <2>1. cart \in Lines /\ LinesOf(cart) \in SUBSET Products
        /\ \A p \in Products : Qty(cart, p) <= MaxStock
    BY DEF IInv, TypeOK, WithinStock, LinesOf
  <2>2. r \in Click /\ r.at = "copy" /\ r.items = cart /\ r.live = LinesOf(cart)
    BY <1>0, <2>1 DEF Click
  <2>3. Moves(k, r) /\ UNCHANGED <<cart, page, calm, kept>> /\ click[k].at = "sent"
    BY <1>3 DEF Gather
  <2> HIDE DEF r
  <2>4. Sound(r)
    BY <2>1, <2>2 DEF Sound
  <2> QED BY <2>2, <2>3, <2>4, MoveStep
<1>4. CASE Gathered(k)
  <2> DEFINE items == click[k].items
             r == [click[k] EXCEPT !.at = "insert", !.items = items]
  <2>1. Moves(k, IF items = NoLines THEN Idle ELSE r)
    BY <1>4 DEF Gathered, FallbackItems, Body
  <2>2. Sound(r) /\ r.at = "insert" /\ r.items = items
    BY <1>0 DEF Sound, Click
  <2>3. UNCHANGED <<cart, page, calm, kept>> /\ click[k].at = "copy"
    BY <1>4 DEF Gathered
  <2>4. calm => items = cart
    BY <2>3 DEF IInv, CalmOK
  <2> HIDE DEF r
  <2> QED BY <1>0, <2>1, <2>2, <2>3, <2>4, MoveStep
<1>5. ASSUME NEW p \in Products, CopyLine(k, p) PROVE IInv'
  <2> DEFINE r == [click[k] EXCEPT !.live = @ \ {p}]
  <2>1. Sound(r) /\ r.at = "copy" /\ r.items = click[k].items
    BY <1>0, <1>5 DEF CopyLine, Sound, Click
  <2>2. Moves(k, r) /\ UNCHANGED <<cart, page, calm, kept>> /\ click[k].at = "copy"
    BY <1>5 DEF CopyLine
  <2>3. calm => r.items = cart
    BY <2>1, <2>2 DEF IInv, CalmOK
  <2> HIDE DEF r
  <2> QED BY <2>1, <2>2, <2>3, MoveStep
<1>6. CASE DropReservations(k)
  <2> DEFINE r == [click[k] EXCEPT !.at = "delete"]
  <2>1. Sound(r) /\ r.at = "delete"
    BY <1>0 DEF Sound, Click
  <2>2. /\ Moves(k, IF click[k].waiting THEN r ELSE Idle)
        /\ UNCHANGED <<cart, page, calm, kept>> /\ click[k].at = "drop"
    BY <1>6 DEF DropReservations
  <2>3. calm => cart = NoLines
    BY <2>2 DEF IInv, CalmOK
  <2> HIDE DEF r
  <2> QED BY <1>0, <2>1, <2>2, <2>3, MoveStep
<1>7. CASE GivesUp(k)
  <2> DEFINE r == [click[k] EXCEPT !.waiting = FALSE]
  <2>1. Sound(r) /\ r.at = click[k].at /\ r.items = click[k].items
    BY <1>0 DEF Sound, Click
  <2>2. Moves(k, r) /\ UNCHANGED <<cart, page, calm, kept>> /\ click[k].at # "idle"
    BY <1>7 DEF GivesUp
  <2>3. calm => /\ r.at \in {"copy", "insert"} => r.items = cart
                /\ r.at \in {"drop", "delete"} => cart = NoLines
    BY <2>1 DEF IInv, CalmOK
  <2> HIDE DEF r
  <2> QED BY <2>1, <2>2, <2>3, MoveStep
<1> QED BY <1>1, <1>2, <1>3, <1>4, <1>5, <1>6, <1>7

\* The steps that change the cart.
LEMMA CartStepsKeep ==
  ASSUME IInv, NEW k \in Clicks,
         \/ AddItem(k) \/ UpdateQuantity(k) \/ RemoveItem(k)
         \/ ClearCart(k) \/ DeleteCart(k)
  PROVE  IInv'
<1>0. /\ Sound(click[k]) /\ click[k] \in Click
      /\ Sound(Idle) /\ Idle.at = "idle"
  BY ClicksSound, IdleType, NoLinesType, QuantityAssumption DEF Sound
<1>1. CASE AddItem(k)
  <2> DEFINE p == click[k].product
             q == Qty(cart, p) + click[k].quantity
  <2>1. p \in Products /\ click[k].at = "priced" /\ click[k].kind = "add"
    BY <1>0, <1>1 DEF AddItem, Sound
  <2>2. q \in Int /\ q <= MaxStock
    BY <1>0, <1>1, <2>1, QtyIsInt, QuantityAssumption
       DEF AddItem, TotalWanted, Click, IInv, TypeOK
  <2>3. ASSUME calm PROVE kept[p] + click[k].quantity = q
    BY <2>1, <2>3, OnlyActive DEF IInv, OneAtATimeConserves
  <2>4. /\ cart' = [cart EXCEPT ![p] = q] /\ Writes(k, p, q)
        /\ UNCHANGED <<page, calm>>
        /\ kept' = IF calm THEN [kept EXCEPT ![p] = kept[p] + click[k].quantity]
                           ELSE kept
    BY <1>1 DEF AddItem, Keeps
  <2>5. kept' = IF calm THEN [kept EXCEPT ![p] = q] ELSE kept
    BY <2>3, <2>4
  <2> HIDE DEF p, q
  <2> QED BY <2>1, <2>2, <2>4, <2>5, WriteStep
<1>2. CASE UpdateQuantity(k)
  <2> DEFINE p == click[k].product
             q == click[k].quantity
  <2>1. p \in Products /\ click[k].at = "priced"
    BY <1>0, <1>2 DEF UpdateQuantity, Sound
  <2>2. q \in Int /\ q <= MaxStock
    BY <1>0, <1>2, QuantityAssumption DEF UpdateQuantity, Click
  <2>3. CASE cart[p] = None
    BY <1>0, <1>2, <2>1, <2>3, MoveStep DEF UpdateQuantity
  <2>4. CASE cart[p] # None
    <3>1. /\ cart' = [cart EXCEPT ![p] = q] /\ Writes(k, p, q)
          /\ UNCHANGED <<page, calm>>
          /\ kept' = IF calm THEN [kept EXCEPT ![p] = q] ELSE kept
      BY <1>2, <2>4 DEF UpdateQuantity, Keeps
    <3> HIDE DEF p, q
    <3> QED BY <2>1, <2>2, <3>1, WriteStep
  <2> QED BY <2>3, <2>4
<1>3. CASE RemoveItem(k)
  <2> DEFINE p == click[k].product
  <2>1. /\ p \in Products /\ click[k].at = "sent"
        /\ cart' = [cart EXCEPT ![p] = None] /\ Unlinks(k, Idle, {p})
        /\ UNCHANGED <<page, calm>>
        /\ kept' = IF calm THEN [kept EXCEPT ![p] = 0] ELSE kept
    BY <1>0, <1>3 DEF RemoveItem, Keeps, Sound
  <2>2. /\ cart' \in Lines /\ \A x \in Products : cart'[x] \in {cart[x], None}
        /\ \A x \in Products \ {p} : cart'[x] = cart[x]
        /\ cart'[p] = None
    BY <2>1 DEF IInv, TypeOK, Lines
  <2>3. kept' \in [Products -> Int]
    BY <2>1 DEF IInv, TypeOK
  <2>4. ASSUME calm PROVE \A x \in Products : Qty(cart', x) = kept'[x]
    <3>1. \A x \in Products : Qty(cart, x) = kept[x]
      BY <2>1, <2>4, OnlyActive DEF IInv, OneAtATimeConserves
    <3>2. kept \in [Products -> Int]
      BY DEF IInv, TypeOK
    <3> QED BY <2>1, <2>2, <2>4, <3>1, <3>2 DEF Qty
  <2> HIDE DEF p
  <2> QED BY <1>0, <2>1, <2>2, <2>3, <2>4, UnlinkStep
<1>4. CASE ClearCart(k) \/ DeleteCart(k)
  <2> DEFINE r == IF click[k].at = "clear" /\ click[k].waiting
                  THEN [click[k] EXCEPT !.at = "drop"] ELSE Idle
  <2>1. Sound(r) /\ r.at \in {"idle", "drop"}
    BY <1>0 DEF Sound, Click
  <2>2. /\ Unlinks(k, r, Products) /\ cart' = NoLines
        /\ UNCHANGED <<page, calm, kept>> /\ click[k].at \in {"clear", "delete"}
    BY <1>4 DEF ClearCart, DeleteCart
  <2>3. ASSUME calm PROVE \A x \in Products : kept[x] = 0
    <3>1. CASE click[k].at = "clear"
      BY <2>3, <3>1 DEF IInv, CalmOK, NothingKept
    <3>2. CASE click[k].at = "delete"
      BY <2>3, <3>2, OnlyActive, NoLinesType DEF IInv, CalmOK, OneAtATimeConserves
    <3> QED BY <2>2, <3>1, <3>2
  <2>4. NoLines \in Lines /\ \A p \in Products : NoLines[p] = None
    BY NoLinesType DEF NoLines
  <2>5. kept' \in [Products -> Int]
    BY <2>2 DEF IInv, TypeOK
  <2> HIDE DEF r
  <2> QED BY <2>1, <2>2, <2>3, <2>4, <2>5, NoLinesType, UnlinkStep
<1> QED BY <1>1, <1>2, <1>3, <1>4

LEMMA NextKeeps ==
  ASSUME IInv, [Next]_vars
  PROVE  IInv'
<1>1. ASSUME NEW k \in Clicks, NEW p \in Products, NEW typed \in Typed,
             ClickAdd(k, p, typed)
      PROVE  IInv'
  BY <1>1, BeginStep, QuantityAssumption DEF ClickAdd
<1>2. ASSUME NEW k \in Clicks, NEW p \in Products, NEW q \in 0..MaxStock,
             ClickQuantity(k, p, q)
      PROVE  IInv'
  BY <1>2, BeginStep, QuantityAssumption DEF ClickQuantity
<1>3. ASSUME NEW k \in Clicks, NEW p \in Products, ClickRemove(k, p) PROVE IInv'
  BY <1>3, BeginStep DEF ClickRemove
<1>4. ASSUME NEW k \in Clicks, ClickSubmit(k) PROVE IInv'
  BY <1>4, BeginStep DEF ClickSubmit
<1>5. CASE OpenCheckout
  BY <1>5 DEF OpenCheckout, IInv, TypeOK, StagesOK, WithinStock, CalmOK, Active,
              OneAtATimeConserves
<1>6. ASSUME NEW k \in Clicks, Handler(k) PROVE IInv'
  BY <1>6, MovesKeep, CartStepsKeep, InsertStep DEF Handler
<1>7. ASSUME NEW k \in Clicks, Fails(k) PROVE IInv'
  BY <1>7, FailStep
<1>8. ASSUME NEW k \in Clicks, GivesUp(k) PROVE IInv'
  BY <1>8, MovesKeep
<1>9. CASE Restart
  <2>1. TypeOK'
    <3>1. NothingKept \in [Products -> Int]
      BY DEF NothingKept
    <3> QED BY <1>9, <3>1, NoLinesType, IdleType DEF Restart, IInv, TypeOK
  <2>2. StagesOK'
    BY <1>9, IdleType DEF Restart, StagesOK
  <2>3. WithinStock'
    BY <1>9, NoLinesType, IdleType, QuantityAssumption DEF Restart, IInv, WithinStock
  <2>4. CalmOK' /\ OneAtATimeConserves'
    BY <1>9 DEF Restart, CalmOK, OneAtATimeConserves
  <2> QED BY <2>1, <2>2, <2>3, <2>4 DEF IInv
<1>10. CASE UNCHANGED vars
  BY <1>10 DEF vars, IInv, TypeOK, StagesOK, WithinStock, CalmOK, Active,
               OneAtATimeConserves
<1> QED BY <1>1, <1>2, <1>3, <1>4, <1>5, <1>6, <1>7, <1>8, <1>9, <1>10 DEF Next

\* The inductive invariant holds in every reachable state.
THEOREM Invariance == Spec => []IInv
<1>1. IInv /\ [Next]_vars => IInv'
  BY NextKeeps
<1> QED BY <1>1, InitEstablishes, PTL DEF Spec

\* Clicks, lines and the shopper's account keep their types
\* (cart.service.ts:4-10, order.service.ts:9-24).
THEOREM TypeCorrect == Spec => []TypeOK
<1>1. IInv => TypeOK
  BY DEF IInv
<1> QED BY <1>1, Invariance, PTL

\* Whatever is clicked, one thing at a time, for any number of products, the
\* cart has what was put there and neither taken out nor ordered
\* (order.service.ts:14-102, checkout/page.tsx:69-119).
THEOREM Conservation == Spec => []OneAtATimeConserves
<1>1. IInv => OneAtATimeConserves
  BY DEF IInv
<1> QED BY <1>1, Invariance, PTL

\* However many clicks overlap, and whatever is typed, no line and no order
\* exceeds what there ever was (cart.service.ts:46-66).
THEOREM Bounded == Spec => []WithinStock
<1>1. IInv => WithinStock
  BY DEF IInv
<1> QED BY <1>1, Invariance, PTL

\* A step that takes a line out of the cart has an order or a click behind it
\* (order.service.ts:52-97, cart.service.ts:92-100).
LEMMA LinesLeave ==
  ASSUME IInv, [Next]_vars, NEW p \in LinesOf(cart) \ LinesOf(cart')
  PROVE  \/ Restart
         \/ \E k \in Clicks : /\ click[k].kind = "remove"
                              /\ click[k].product = p /\ click'[k] = Idle
         \/ \E k \in Clicks : click[k].at \in {"clear", "delete"}
<1> USE NoneAssumption
<1>1. cart' # cart /\ p \in Products /\ cart[p] # None /\ cart'[p] = None
  BY DEF LinesOf
<1>2. CASE UNCHANGED vars
  BY <1>1, <1>2 DEF vars
<1>3. ASSUME NEW k \in Clicks, AddItem(k) \/ UpdateQuantity(k) PROVE FALSE
  <2>1. click[k].quantity \in Int /\ Qty(cart, click[k].product) \in Int
        /\ click[k].product \in Products
    BY <1>3, QtyIsInt DEF AddItem, UpdateQuantity, IInv, TypeOK, StagesOK, Click
  <2>2. PICK n \in Int : cart' = cart \/ cart' = [cart EXCEPT ![click[k].product] = n]
    BY <1>3, <2>1 DEF AddItem, UpdateQuantity
  <2> QED BY <1>1, <2>1, <2>2 DEF IInv, TypeOK, Lines
<1>4. ASSUME NEW k \in Clicks, RemoveItem(k)
      PROVE  click[k].kind = "remove" /\ click[k].product = p /\ click'[k] = Idle
  BY <1>1, <1>4 DEF RemoveItem, Unlinks, IInv, TypeOK, Lines
<1>5. CASE \E k \in Clicks : ClearCart(k) \/ DeleteCart(k)
  BY <1>5 DEF ClearCart, DeleteCart
<1>6. CASE Restart
  BY <1>6
<1> QED
  BY <1>1, <1>2, <1>3, <1>4, <1>5, <1>6
     DEF Next, Handler, ClickAdd, ClickQuantity, ClickRemove, ClickSubmit, Begin,
         OpenCheckout, ReadProduct, InsufficientStock, Gather, CopyLine, Gathered,
         Insert, DropReservations, Fails, GivesUp

\* For every set of products and clicks, a submission that fails leaves the
\* cart as it was (order.service.ts:52-97).
THEOREM NothingLostBeforeOrder == Spec => EmptiedAfterOrder
<1>1. IInv /\ [Next]_vars =>
        [\A p \in LinesOf(cart) \ LinesOf(cart') :
          \/ Restart
          \/ \E k \in Clicks : /\ click[k].kind = "remove"
                               /\ click[k].product = p /\ click'[k] = Idle
          \/ \E k \in Clicks : click[k].at \in {"clear", "delete"}]_vars
  BY LinesLeave
<1> QED BY <1>1, Invariance, PTL DEF Spec, EmptiedAfterOrder
=============================================================================
