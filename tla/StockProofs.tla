---------------------------- MODULE StockProofs ----------------------------
(***************************************************************************)
(* Theorems about the stock, for any products, requests, workers, carts    *)
(* and reservations: of the inventory service alone (Inventory), beside    *)
(* checkouts (Checkout), and beside createOrder (OrderPlacement).  Each    *)
(* part has its inductive invariant, and what follows from it.             *)
(***************************************************************************)
EXTENDS OrderPlacement, Checkout, TLAPS, FiniteSetTheorems, SequenceTheorems

-----------------------------------------------------------------------------
(* Totals: how the sum of a function changes with its values.              *)

LEMMA UnitsMember ==
  ASSUME NEW f, NEW u
  PROVE  u \in Units(f) <=> \E x \in DOMAIN f : \E n \in 1..f[x] : u = <<x, n>>
  BY DEF Units

\* The units of one element are as many as the function says.
LEMMA UnitsOfOne ==
  ASSUME NEW x, NEW n \in Nat
  PROVE  IsFiniteSet({x} \X (1..n)) /\ Cardinality({x} \X (1..n)) = n
<1>1. IsFiniteSet({x}) /\ Cardinality({x}) = 1
  BY FS_Singleton
<1>2. IsFiniteSet(1..n) /\ Cardinality(1..n) = n
  BY FS_Interval
<1>3. /\ IsFiniteSet({x} \X (1..n))
      /\ Cardinality({x} \X (1..n)) = Cardinality({x}) * Cardinality(1..n)
  BY <1>1, <1>2, FS_Product, Zenon
<1> QED BY <1>1, <1>2, <1>3

LEMMA UnitsFinite ==
  ASSUME NEW S, IsFiniteSet(S), NEW f \in [S -> Nat]
  PROVE  IsFiniteSet(Units(f))
<1> DEFINE part[x \in S] == {x} \X (1..f[x])
<1>1. \A x \in S : IsFiniteSet({x} \X (1..f[x]))
  BY UnitsOfOne
<1>2. \A T \in {{x} \X (1..f[x]) : x \in DOMAIN f} : IsFiniteSet(T)
  BY <1>1
<1>3. IsFiniteSet({{x} \X (1..f[x]) : x \in DOMAIN f})
  <2>1. part \in Surjection(S, {{x} \X (1..f[x]) : x \in DOMAIN f})
    BY DEF Surjection
  <2> QED BY <2>1, FS_Surjection
<1> QED BY <1>2, <1>3, FS_UNION DEF Units

LEMMA TotalOfParts ==
  ASSUME NEW S, NEW T, S \cap T = {},
         NEW f \in [S \cup T -> Nat], NEW g \in [S -> Nat], NEW h \in [T -> Nat],
         \A x \in S : f[x] = g[x],
         \A x \in T : f[x] = h[x],
         IsFiniteSet(Units(g)), IsFiniteSet(Units(h))
  PROVE  IsFiniteSet(Units(f)) /\ Total(f) = Total(g) + Total(h)
<1>1. Units(f) = Units(g) \cup Units(h)
  <2>1. ASSUME NEW u \in Units(f) PROVE u \in Units(g) \cup Units(h)
    <3>1. PICK x \in S \cup T : \E n \in 1..f[x] : u = <<x, n>>
      BY UnitsMember
    <3> QED BY <3>1, UnitsMember
  <2>2. ASSUME NEW u \in Units(g) \cup Units(h) PROVE u \in Units(f)
    BY UnitsMember
  <2> QED BY <2>1, <2>2
<1>2. Units(g) \cap Units(h) = {}
  BY UnitsMember
<1>3. Cardinality(Units(g) \cap Units(h)) = 0
  BY <1>2, FS_EmptySet
<1>4. Cardinality(Units(g)) \in Nat /\ Cardinality(Units(h)) \in Nat
  BY FS_CardinalityType
<1> QED BY <1>1, <1>3, <1>4, FS_Union DEF Total

\* Nothing to add up.
LEMMA TotalOfNothing ==
  ASSUME NEW S, NEW f \in [S -> Nat], \A x \in S : f[x] = 0
  PROVE  IsFiniteSet(Units(f)) /\ Total(f) = 0
<1>1. Units(f) = {}
  BY UnitsMember
<1> QED BY <1>1, FS_EmptySet DEF Total

LEMMA TotalType ==
  ASSUME NEW f, IsFiniteSet(Units(f))
  PROVE  Total(f) \in Nat
  BY FS_CardinalityType DEF Total

\* One value is set apart.
LEMMA TotalWithOne ==
  ASSUME NEW S, NEW x \in S, NEW f \in [S -> Nat], NEW g \in [S \ {x} -> Nat],
         \A y \in S \ {x} : f[y] = g[y],
         IsFiniteSet(Units(g))
  PROVE  IsFiniteSet(Units(f)) /\ Total(f) = Total(g) + f[x]
<1> DEFINE R == S \ {x}
           h == [y \in {x} |-> f[y]]
<1>1. f[x] \in Nat /\ Units(h) = {x} \X (1..f[x])
  BY DEF Units
<1>2. IsFiniteSet({x} \X (1..f[x])) /\ Cardinality({x} \X (1..f[x])) = f[x]
  BY <1>1, UnitsOfOne
<1>3. IsFiniteSet(Units(h)) /\ Total(h) = f[x]
  BY <1>1, <1>2, Zenon DEF Total
<1>4. /\ S = R \cup {x} /\ R \cap {x} = {}
      /\ \A y \in {x} : f[y] = h[y]
      /\ \A y \in R : f[y] = g[y]
      /\ g \in [R -> Nat] /\ h \in [{x} -> Nat]
  OBVIOUS
<1> HIDE DEF h, R
<1>5. f \in [R \cup {x} -> Nat]
  BY <1>4
<1>6. IsFiniteSet(Units(f)) /\ Total(f) = Total(g) + Total(h)
  BY <1>3, <1>4, <1>5, TotalOfParts
<1> QED BY <1>3, <1>6

\* Values that are smaller, of fewer arguments, have a smaller total.
LEMMA TotalGrows ==
  ASSUME NEW T, NEW S, S \subseteq T, NEW f \in [S -> Nat], NEW g \in [T -> Nat],
         \A x \in S : f[x] <= g[x],
         IsFiniteSet(Units(g))
  PROVE  IsFiniteSet(Units(f)) /\ Total(f) <= Total(g)
<1>1. Units(f) \subseteq Units(g)
  <2> SUFFICES ASSUME NEW u \in Units(f) PROVE u \in Units(g)
    OBVIOUS
  <2>1. PICK x \in S : \E n \in 1..f[x] : u = <<x, n>>
    BY UnitsMember
  <2>2. PICK n \in 1..f[x] : u = <<x, n>>
    BY <2>1
  <2>3. n \in 1..g[x] /\ x \in T
    BY <2>2
  <2> QED BY <2>2, <2>3, UnitsMember
<1> QED BY <1>1, FS_Subset DEF Total

\* One value changes.
LEMMA TotalChanges ==
  ASSUME NEW S, NEW x \in S, NEW f \in [S -> Nat], NEW g \in [S -> Nat],
         \A y \in S \ {x} : f[y] = g[y],
         IsFiniteSet(Units(f))
  PROVE  IsFiniteSet(Units(g)) /\ Total(g) = Total(f) - f[x] + g[x]
<1> DEFINE h == [y \in S \ {x} |-> f[y]]
<1>1. h \in [S \ {x} -> Nat] /\ \A y \in S \ {x} : f[y] = h[y] /\ g[y] = h[y]
  OBVIOUS
<1> HIDE DEF h
<1>2. IsFiniteSet(Units(h))
  BY <1>1, TotalGrows
<1>3. Total(f) = Total(h) + f[x]
  BY <1>1, <1>2, TotalWithOne
<1>4. IsFiniteSet(Units(g)) /\ Total(g) = Total(h) + g[x]
  BY <1>1, <1>2, TotalWithOne
<1>5. Total(h) \in Nat
  BY <1>2, TotalType
<1> QED BY <1>3, <1>4, <1>5

\* Each value has a bound.
LEMMA TotalBound ==
  ASSUME NEW S, IsFiniteSet(S), NEW n \in Nat, NEW f \in [S -> Nat],
         \A x \in S : f[x] <= n
  PROVE  IsFiniteSet(Units(f)) /\ Total(f) <= Cardinality(S) * n
<1>1. IsFiniteSet(S \X (1..n)) /\ Cardinality(S \X (1..n)) = Cardinality(S) * n
  <2>1. IsFiniteSet(1..n) /\ Cardinality(1..n) = n
    BY FS_Interval
  <2>2. /\ IsFiniteSet(S \X (1..n))
        /\ Cardinality(S \X (1..n)) = Cardinality(S) * Cardinality(1..n)
    BY <2>1, FS_Product, Zenon
  <2> QED BY <2>1, <2>2
<1>2. Units(f) \subseteq S \X (1..n)
  <2> SUFFICES ASSUME NEW u \in Units(f) PROVE u \in S \X (1..n)
    OBVIOUS
  <2>1. PICK x \in S : \E k \in 1..f[x] : u = <<x, k>>
    BY UnitsMember
  <2> QED BY <2>1
<1>3. IsFiniteSet(Units(f)) /\ Cardinality(Units(f)) <= Cardinality(S \X (1..n))
  BY <1>1, <1>2, FS_Subset
<1> QED BY <1>1, <1>3 DEF Total

\* The totals of two parts add up.
LEMMA TotalOfBoth ==
  ASSUME NEW S, NEW T, S \cap T = {}, IsFiniteSet(S), IsFiniteSet(T),
         NEW h \in [S \cup T -> Nat]
  PROVE  Total(h) = Total([x \in S |-> h[x]]) + Total([x \in T |-> h[x]])
<1> DEFINE f == [x \in S |-> h[x]]
           g == [x \in T |-> h[x]]
<1>1. f \in [S -> Nat] /\ g \in [T -> Nat]
  OBVIOUS
<1>2. Units(h) = Units(f) \cup Units(g) /\ Units(f) \cap Units(g) = {}
  BY DEF Units
<1> HIDE DEF f, g
<1>3. IsFiniteSet(Units(f)) /\ IsFiniteSet(Units(g))
  BY <1>1, UnitsFinite
<1>4. Cardinality(Units(f) \cap Units(g)) = 0
  BY <1>2, FS_EmptySet
<1>5. Cardinality(Units(f)) \in Nat /\ Cardinality(Units(g)) \in Nat
  BY <1>3, FS_CardinalityType
<1>6. Cardinality(Units(f) \cup Units(g)) = Cardinality(Units(f)) + Cardinality(Units(g))
               - Cardinality(Units(f) \cap Units(g))
  BY <1>3, FS_Union, Zenon
<1>7. Cardinality(Units(h)) = Cardinality(Units(f)) + Cardinality(Units(g))
  BY <1>2, <1>4, <1>5, <1>6
<1> QED BY <1>7 DEF f, g, Total

\* One more value.
LEMMA TotalOfOneMore ==
  ASSUME NEW S, IsFiniteSet(S), NEW x, x \notin S, NEW h \in [S \cup {x} -> Nat]
  PROVE  Total(h) = Total([y \in S |-> h[y]]) + h[x]
<1> DEFINE g == [y \in S |-> h[y]]
<1>1. g \in [S -> Nat] /\ \A y \in S : h[y] = g[y]
  OBVIOUS
<1> HIDE DEF g
<1>2. IsFiniteSet(Units(g))
  BY <1>1, UnitsFinite
<1>3. ASSUME NEW T, T = S \cup {x} PROVE Total(h) = Total(g) + h[x]
  <2>1. x \in T /\ h \in [T -> Nat] /\ g \in [T \ {x} -> Nat]
    BY <1>1, <1>3
  <2>2. \A y \in T \ {x} : h[y] = g[y]
    BY <1>1, <1>3
  <2> QED BY <1>2, <2>1, <2>2, TotalWithOne
<1>4. Total(h) = Total(g) + h[x]
  BY <1>3
<1> QED BY <1>4 DEF g

-----------------------------------------------------------------------------
(* Inventory: the invariant of the transactions.                           *)

\* A reservation holds at least one unit of a product.
LEMMA ReservationFields ==
  ASSUME NEW row \in Reservation
  PROVE  /\ row.product \in Products /\ row.quantity \in Quantities
         /\ row.quantity \in Nat /\ row.quantity > 0
         /\ row.createdAt \in Nat
<1>1. row.quantity \in Quantities
  BY DEF Reservation
<1>2. row.quantity \in Nat /\ row.quantity # 0
  BY <1>1, QuantityAssumption
<1> QED BY <1>1, <1>2 DEF Reservation

\* The initial state satisfies the inductive invariant.
LEMMA InitIInv == Init => IInv
<1> SUFFICES ASSUME Init PROVE IInv
  OBVIOUS
<1> USE DEF Init, Procs, Idle
<1>1. TypeOK
  BY StockAssumption DEF TypeOK, Row, Transaction
<1>2. UnitsConserved /\ \A p \in Products : available[p] >= 0
  BY StockAssumption DEF UnitsConserved
<1>3. LockedRows /\ Deadlines
  BY DEF LockedRows, Deadlines
<1>4. ExpireSnapshots
  BY DEF ExpireSnapshots
<1>5. RequestProgress
  BY NoneAssumption, ProcsAssumption
     DEF RequestProgress, WritesNoItem, HoldsNoLock
<1>6. WorkerProgress
  BY DEF WorkerProgress
<1> QED BY <1>1, <1>2, <1>3, <1>4, <1>5, <1>6 DEF IInv

\* reserveStock preserves the inductive invariant.
LEMMA ReserveStep ==
  ASSUME IInv,
         NEW p \in Products, NEW c \in Carts, NEW q \in Quantities, NEW id \in Ids,
         reserveStock(p, c, q, id)
  PROVE  IInv'
<1> USE DEF IInv, Procs
<1>0. q \in Nat /\ q > 0
  BY QuantityAssumption
<1>0a. id \notin live
  BY DEF reserveStock, Enough, Move, NewRow, TypeOK
<1>0b. \A r \in Ids : reservation[r] # None => reservation'[r] = reservation[r]
  BY DEF reserveStock, Enough, Move, NewRow, TypeOK
<1>0c. reservation'[id] = [product |-> p, cart |-> c, quantity |-> q, createdAt |-> now]
  BY DEF reserveStock, Enough, Move, NewRow, TypeOK
<1>1. TypeOK'
  <2>1. reservation' \in [Ids -> Reservation \cup {None}]
    BY DEF reserveStock, Enough, Move, NewRow, TypeOK, Reservation
  <2>2. reservation'[id] # None
    BY <1>0c, NoneAssumption DEF Reservation, TypeOK
  <2>3. live' \subseteq {r \in Ids : reservation'[r] # None}
    BY <1>0b, <2>2 DEF reserveStock, Enough, Move, NewRow, TypeOK
  <2>4. expiration' \in [Ids -> Nat]
    BY LifetimeAssumption DEF reserveStock, Enough, Move, NewRow, TypeOK
  <2>5. available' \in [Products -> Int] /\ reserved' \in [Products -> Int]
    BY <1>0 DEF reserveStock, Enough, Move, NewRow, TypeOK
  <2>6. \A x \in Procs : tx'[x].rows \subseteq {r \in Ids : reservation'[r] # None}
    BY <1>0b DEF reserveStock, Enough, Move, NewRow, TypeOK
  <2> QED BY <2>1, <2>3, <2>4, <2>5, <2>6
             DEF reserveStock, Enough, Move, NewRow, TypeOK
<1>2. UnitsConserved'
  BY <1>0 DEF reserveStock, Enough, Move, NewRow, TypeOK, UnitsConserved
<1>3. (\A x \in Products : available[x] >= 0)'
  BY <1>0 DEF reserveStock, Enough, Move, NewRow, TypeOK
<1>4. LockedRows'
  BY DEF reserveStock, Enough, Move, NewRow, TypeOK, LockedRows
<1>5. Deadlines'
  BY <1>0a, <1>0b, <1>0c
     DEF reserveStock, Enough, Move, NewRow, TypeOK, Deadlines
<1>6. ExpireSnapshots'
  BY <1>0b DEF reserveStock, Enough, Move, NewRow, TypeOK, ExpireSnapshots
<1>7. RequestProgress'
  <2>1. \A s \in Sessions : lock'[p] # s /\ lock' = lock /\ tx' = tx
    BY NoneAssumption DEF reserveStock, Enough, Move, NewRow
  <2>2. ASSUME NEW s \in Sessions, WritesNoItem(s) \/ BeforeCredit(s)
        PROVE  (WritesNoItem(s) \/ BeforeCredit(s))'
    BY <2>1, <2>2 DEF WritesNoItem, BeforeCredit, HoldsNoLock
  <2>3. ASSUME NEW s \in Sessions, NEW r \in Ids, AfterCredit(s, r)
        PROVE  AfterCredit(s, r)'
    <3>1. reservation'[r] = reservation[r] /\ reservation[r] \in Reservation
      BY <1>0b, <2>3 DEF AfterCredit, TypeOK
    <3>2. reservation[r].product # p
      BY <2>1, <2>3 DEF AfterCredit
    <3> QED BY <2>1, <2>3, <3>1, <3>2
         DEF AfterCredit, reserveStock, Enough, Move, NewRow, TypeOK, Reservation
  <2> QED BY <2>2, <2>3 DEF RequestProgress
<1>8. WorkerProgress'
  BY DEF reserveStock, Enough, Move, NewRow, WorkerProgress
<1> QED BY <1>1, <1>2, <1>3, <1>4, <1>5, <1>6, <1>7, <1>8

-----------------------------------------------------------------------------
(* Steps that open a transaction change nothing but tx.                    *)

\* A request opens a transaction on a row it has found.
LEMMA RequestReadStep ==
  ASSUME IInv,
         NEW s \in Sessions, NEW p \in Products, NEW c \in Carts,
         ReleaseRead(s, p, c) \/ ExtendRead(s, p, c)
  PROVE  IInv'
<1> USE DEF IInv, Procs
<1>1. UNCHANGED <<available, reserved, lock, before, reservation, live,
                  expiration, now>> /\ tx[s].op = "idle"
  BY DEF ReleaseRead, ExtendRead
<1>2. PICK id \in live :
         \/ tx' = [tx EXCEPT ![s] = [op |-> "release", rows |-> {id},
                                     todo |-> {id}, at |-> id]]
         \/ tx' = [tx EXCEPT ![s] = [op |-> "extend", rows |-> {id},
                                     todo |-> {}, at |-> None]]
  BY DEF ReleaseRead, ExtendRead, Matching
<1>3. id \in Ids /\ reservation[id] # None
  BY DEF TypeOK
<1>4. TypeOK'
  <2>1. tx' \in [Procs -> Transaction]
    BY <1>2, <1>3 DEF TypeOK, Transaction
  <2>2. \A x \in Procs : tx'[x].rows \subseteq {r \in Ids : reservation[r] # None}
    BY <1>2, <1>3 DEF TypeOK
  <2> QED BY <1>1, <2>1, <2>2 DEF TypeOK
<1>5. HoldsNoLock(s)
  BY <1>1 DEF RequestProgress, WritesNoItem, BeforeCredit, AfterCredit
<1>6. LockedRows'
  <2>1. \A p1 \in Products : lock[p1] # s
    BY <1>5 DEF HoldsNoLock
  <2>2. \A p1 \in Products : lock[p1] # None => tx'[lock[p1]] = tx[lock[p1]]
    BY <1>2, <2>1 DEF TypeOK
  <2> QED BY <1>1, <2>2 DEF LockedRows
<1>7. ExpireSnapshots'
  BY <1>1, <1>2, ProcsAssumption DEF ExpireSnapshots, TypeOK
<1>8. RequestProgress'
  <2>1. WritesNoItem(s)' \/ BeforeCredit(s)'
    BY <1>1, <1>2, <1>3, <1>5, NoneAssumption
       DEF WritesNoItem, BeforeCredit, HoldsNoLock, TypeOK
  <2>2. \A t \in Sessions \ {s} : tx'[t] = tx[t]
    BY <1>2 DEF TypeOK
  <2> QED BY <1>1, <2>1, <2>2
          DEF RequestProgress, WritesNoItem, BeforeCredit, AfterCredit, HoldsNoLock
<1>9. WorkerProgress'
  BY <1>1, <1>2, ProcsAssumption DEF WorkerProgress, TypeOK
<1> QED BY <1>1, <1>4, <1>6, <1>7, <1>8, <1>9 DEF UnitsConserved, Deadlines

\* A worker opens a transaction on the expired rows it has found.
LEMMA ExpireReadStep ==
  ASSUME IInv, NEW w \in Workers, ExpireRead(w)
  PROVE  IInv'
<1> USE DEF IInv, Procs
<1>1. UNCHANGED <<available, reserved, lock, before, reservation, live,
                  expiration, now>> /\ tx[w].op = "idle"
  BY DEF ExpireRead
<1>2. PICK first \in Expired :
         tx' = [tx EXCEPT ![w] = [op |-> "expire", rows |-> Expired,
                                  todo |-> Expired, at |-> first]]
  BY DEF ExpireRead
<1>3. Expired \subseteq {r \in Ids : reservation[r] # None}
  BY DEF Expired, TypeOK
<1>4. TypeOK'
  <2>1. tx' \in [Procs -> Transaction]
    BY <1>2, <1>3 DEF TypeOK, Transaction
  <2>2. \A x \in Procs : tx'[x].rows \subseteq {r \in Ids : reservation[r] # None}
    BY <1>2, <1>3 DEF TypeOK
  <2> QED BY <1>1, <2>1, <2>2 DEF TypeOK
<1>5. LockedRows'
  <2>1. \A p \in Products : lock[p] # w
    BY <1>1, NoneAssumption DEF LockedRows, TypeOK
  <2>2. \A p \in Products : lock[p] # None => tx'[lock[p]] = tx[lock[p]]
    BY <1>2, <2>1 DEF TypeOK
  <2> QED BY <1>1, <2>2 DEF LockedRows
<1>6. ExpireSnapshots'
  <2>1. \A r \in Expired : now > reservation[r].createdAt + Hold
    <3> SUFFICES ASSUME NEW r \in Expired
                 PROVE  now > reservation[r].createdAt + Hold
      OBVIOUS
    <3>1. r \in live /\ expiration[r] < now /\ reservation[r] \in Reservation
      BY <1>3 DEF Expired, TypeOK
    <3>2. expiration[r] >= reservation[r].createdAt + Hold
      BY <3>1, LifetimeAssumption DEF Deadlines, Reservation
    <3> QED BY <3>1, <3>2, LifetimeAssumption DEF Reservation, TypeOK
  <2> QED BY <1>1, <1>2, <2>1 DEF ExpireSnapshots, TypeOK
<1>7. RequestProgress'
  <2>1. \A s \in Sessions : tx'[s] = tx[s]
    BY <1>2, ProcsAssumption DEF TypeOK
  <2> QED BY <1>1, <2>1
          DEF RequestProgress, WritesNoItem, BeforeCredit, AfterCredit, HoldsNoLock
<1>8. WorkerProgress'
  BY <1>1, <1>2 DEF WorkerProgress, TypeOK
<1> QED BY <1>1, <1>4, <1>5, <1>6, <1>7, <1>8 DEF UnitsConserved, Deadlines

-----------------------------------------------------------------------------
(* The update of an inventory row under its lock.                          *)

LEMMA CreditStep ==
  ASSUME IInv, NEW x \in Procs, Credit(x)
  PROVE  IInv'
<1> USE DEF IInv
<1>1. UNCHANGED <<reservation, live, expiration, now>>
  BY DEF Credit, Writable, Move
<1>2. PICK id \in Ids : id = tx[x].at /\ id # None /\ id \in tx[x].rows
  <2>1. tx[x].at # None
    BY DEF Credit, Writable, Move
  <2>2. tx[x].at \in tx[x].rows
    BY <2>1 DEF RequestProgress, WorkerProgress, WritesNoItem, BeforeCredit,
                AfterCredit, Procs
  <2> QED BY <2>1, <2>2 DEF TypeOK
<1> DEFINE p == reservation[id].product
           q == reservation[id].quantity
<1>3. p \in Products /\ q \in Nat /\ q > 0
  <2>1. reservation[id] \in Reservation
    BY <1>2 DEF TypeOK
  <2> QED BY <2>1, ReservationFields
<1>4. PICK next \in IF tx[x].todo \ {id} = {} THEN {None} ELSE tx[x].todo \ {id} :
         tx' = [tx EXCEPT ![x].todo = tx[x].todo \ {id}, ![x].at = next]
  BY <1>2 DEF Credit, Writable, Move
<1>5. /\ tx'[x].op = tx[x].op /\ tx'[x].rows = tx[x].rows
      /\ tx'[x].todo = tx[x].todo \ {id} /\ tx'[x].at = next
      /\ \A y \in Procs \ {x} : tx'[y] = tx[y]
      /\ tx' \in [Procs -> Transaction]
  <2>1. tx \in [Procs -> Transaction] /\ tx[x] \in Transaction
    BY DEF TypeOK
  <2>2. tx[x].todo \ {id} \in SUBSET Ids /\ next \in Ids \cup {None}
    BY <1>4, <2>1 DEF Transaction
  <2>3. tx'[x] = [tx[x] EXCEPT !.todo = tx[x].todo \ {id}, !.at = next]
    BY <1>4, <2>1
  <2>4. tx'[x] \in Transaction
    BY <2>1, <2>2, <2>3 DEF Transaction
  <2>5. tx' = [tx EXCEPT ![x] = tx'[x]]
    BY <1>4, <2>1
  <2>6. /\ tx'[x].op = tx[x].op /\ tx'[x].rows = tx[x].rows
        /\ tx'[x].todo = tx[x].todo \ {id} /\ tx'[x].at = next
    BY <2>1, <2>3 DEF Transaction
  <2> QED BY <2>1, <2>4, <2>5, <2>6
<1>6. /\ available' = [available EXCEPT ![p] = @ + q]
      /\ reserved' = [reserved EXCEPT ![p] = @ - q]
      /\ lock' = [lock EXCEPT ![p] = x]
      /\ lock[p] \in {None, x}
      /\ before' = IF lock[p] = x THEN before
                   ELSE [before EXCEPT ![p] = [available |-> available[p],
                                               reserved |-> reserved[p]]]
      /\ x # None
  BY <1>2, NoneAssumption DEF Credit, Writable, Move
<1>7. TypeOK'
  <2>1. available' \in [Products -> Int] /\ reserved' \in [Products -> Int]
    BY <1>3, <1>6 DEF TypeOK
  <2>2. lock' \in [Products -> Procs \cup {None}]
    BY <1>6 DEF TypeOK
  <2>3. before' \in [Products -> Row]
    BY <1>3, <1>6 DEF TypeOK, Row
  <2>4. \A y \in Procs : tx'[y].rows = tx[y].rows
    BY <1>5
  <2> QED BY <1>1, <1>5, <2>1, <2>2, <2>3, <2>4 DEF TypeOK
<1>8. UnitsConserved'
  BY <1>3, <1>6 DEF UnitsConserved, TypeOK
<1>9. (\A y \in Products : available[y] >= 0)'
  BY <1>3, <1>6 DEF TypeOK
<1>10. tx[x].op \in {"release", "expire"}
  BY <1>2 DEF RequestProgress, WorkerProgress, WritesNoItem, BeforeCredit,
              AfterCredit, Procs, TypeOK, Transaction
<1>11. LockedRows'
  <2> SUFFICES ASSUME NEW y \in Products, lock'[y] # None
               PROVE  /\ before'[y].available + before'[y].reserved = Stock[y]
                      /\ before'[y].available >= 0
                      /\ available'[y] >= before'[y].available
                      /\ tx'[lock'[y]].op \in {"release", "expire"}
    BY DEF LockedRows
  <2>1. CASE y # p
    BY <1>5, <1>6, <2>1 DEF LockedRows, TypeOK
  <2>2. CASE y = p /\ lock[p] = x
    BY <1>3, <1>5, <1>6, <1>10, <2>2 DEF LockedRows, TypeOK, Row
  <2>3. CASE y = p /\ lock[p] # x
    BY <1>3, <1>5, <1>6, <1>10, <2>3 DEF UnitsConserved, TypeOK
  <2> QED BY <2>1, <2>2, <2>3
<1>12. Deadlines' /\ ExpireSnapshots'
  BY <1>1, <1>5 DEF Deadlines, ExpireSnapshots, Procs
<1>13. RequestProgress'
  <2> SUFFICES ASSUME NEW s \in Sessions
               PROVE  \/ WritesNoItem(s)' \/ BeforeCredit(s)'
                      \/ \E r \in Ids : AfterCredit(s, r)'
    BY DEF RequestProgress
  <2>1. CASE s # x /\ (WritesNoItem(s) \/ BeforeCredit(s))
    BY <1>5, <1>6, <2>1
       DEF WritesNoItem, BeforeCredit, HoldsNoLock, TypeOK, Procs
  <2>2. ASSUME s # x, NEW r \in Ids, AfterCredit(s, r)
        PROVE  AfterCredit(s, r)'
    <3> DEFINE pr == reservation[r].product
    <3>1. tx'[s] = tx[s]
      BY <1>5, <2>2 DEF Procs
    <3>2. pr \in Products
      BY <2>2 DEF AfterCredit, TypeOK, Reservation, Procs
    <3>3. lock[pr] = s
      BY <2>2, <3>2 DEF AfterCredit
    <3>4. pr # p
      BY <1>6, <2>2, <3>3, NoneAssumption DEF Procs
    <3>5. before'[pr] = before[pr] /\ available'[pr] = available[pr]
      BY <1>6, <3>2, <3>4 DEF TypeOK
    <3>6. \A y \in Products : lock'[y] = s <=> lock[y] = s
      BY <1>6, <2>2, NoneAssumption DEF TypeOK, Procs
    <3> QED BY <1>1, <2>2, <3>1, <3>5, <3>6 DEF AfterCredit
  <2>3. CASE s = x
    <3>1. BeforeCredit(x)
      BY <1>2, <2>3 DEF RequestProgress, WritesNoItem, AfterCredit
    <3>2. next = None
      BY <3>1, <1>2, <1>4 DEF BeforeCredit
    <3>3. lock[p] = None
      BY <1>3, <1>6, <3>1 DEF BeforeCredit, HoldsNoLock
    <3>4. \A y \in Products : lock'[y] = x <=> y = p
      BY <1>3, <1>6, <3>1 DEF BeforeCredit, HoldsNoLock, TypeOK
    <3>5. available'[p] = before'[p].available + q
      BY <1>2, <1>3, <1>6, <3>3 DEF TypeOK, Row
    <3>6. AfterCredit(x, id)'
      BY <1>1, <1>5, <3>1, <3>2, <3>4, <3>5 DEF AfterCredit, BeforeCredit
    <3> QED BY <1>2, <2>3, <3>6
  <2> QED BY <2>1, <2>2, <2>3 DEF RequestProgress
<1>14. WorkerProgress'
  <2> SUFFICES ASSUME NEW w \in Workers
               PROVE  /\ tx'[w].op \in {"idle", "expire"}
                      /\ tx'[w].op = "idle" => tx'[w].at = None /\ tx'[w].rows = {}
                      /\ tx'[w].at # None => tx'[w].at \in tx'[w].rows
                      /\ tx'[w].todo \subseteq tx'[w].rows
    BY DEF WorkerProgress
  <2>1. CASE w # x
    BY <1>5, <2>1 DEF WorkerProgress, Procs
  <2>2. CASE w = x
    BY <1>4, <1>5, <1>10, <2>2 DEF WorkerProgress
  <2> QED BY <2>1, <2>2
<1> QED BY <1>7, <1>8, <1>9, <1>11, <1>12, <1>13, <1>14

-----------------------------------------------------------------------------
(* The steps that end a transaction.                                       *)

\* What closing the transaction of x leaves of the others.
LEMMA CloseFacts ==
  ASSUME TypeOK, NEW x \in Procs, Unlock(x), Close(x)
  PROVE  /\ tx'[x] = Idle
         /\ \A y \in Procs \ {x} : tx'[y] = tx[y]
         /\ tx' \in [Procs -> Transaction]
         /\ \A y \in Procs : tx'[y].rows \subseteq tx[y].rows
         /\ lock' \in [Products -> Procs \cup {None}]
         /\ \A p \in Products : lock'[p] # x
         /\ \A p \in Products, y \in Procs \ {x} : lock'[p] = y <=> lock[p] = y
         /\ \A p \in Products : lock'[p] # None => lock'[p] = lock[p]
<1>1. Idle \in Transaction
  BY DEF Idle, Transaction
<1>2. tx' = [tx EXCEPT ![x] = Idle] /\ tx \in [Procs -> Transaction]
  BY DEF Close, TypeOK
<1>3. tx'[x] = Idle /\ \A y \in Procs \ {x} : tx'[y] = tx[y]
  BY <1>2
<1>4. tx' \in [Procs -> Transaction]
  BY <1>1, <1>2
<1>5. \A y \in Procs : tx'[y].rows \subseteq tx[y].rows
  BY <1>3 DEF Idle
<1> QED BY <1>3, <1>4, <1>5, NoneAssumption DEF Unlock, TypeOK

\* Closing a transaction keeps what the invariant says of the open ones, when
\* the counters of the items others have locked are left alone.
LEMMA ClosingKeepsProgress ==
  ASSUME IInv, NEW x \in Procs, Unlock(x), Close(x),
         UNCHANGED <<reservation, now, before>>,
         \A p \in Products : lock[p] # x => available'[p] = available[p]
  PROVE  ExpireSnapshots' /\ RequestProgress' /\ WorkerProgress'
<1> USE CloseFacts DEF IInv, Procs
<1>1. ExpireSnapshots'
  BY DEF ExpireSnapshots
<1>2. WorkerProgress'
  BY DEF WorkerProgress, Idle
<1>3. RequestProgress'
  <2> SUFFICES ASSUME NEW s \in Sessions
               PROVE  \/ WritesNoItem(s)' \/ BeforeCredit(s)'
                      \/ \E r \in Ids : AfterCredit(s, r)'
    BY DEF RequestProgress
  <2>1. CASE s = x
    BY <2>1 DEF WritesNoItem, HoldsNoLock, Idle
  <2>2. CASE s # x /\ (WritesNoItem(s) \/ BeforeCredit(s))
    BY <2>2 DEF WritesNoItem, BeforeCredit, HoldsNoLock
  <2>3. ASSUME s # x, NEW r \in Ids, AfterCredit(s, r)
        PROVE  AfterCredit(s, r)'
    <3>1. reservation[r].product \in Products
      BY <2>3, ReservationFields DEF AfterCredit, TypeOK
    <3> QED BY <2>3, <3>1 DEF AfterCredit
  <2> QED BY <2>1, <2>2, <2>3 DEF RequestProgress
<1> QED BY <1>1, <1>2, <1>3

\* A commit leaves rows that were not deleted and a deadline the code writes.
LEMMA CommitStep ==
  ASSUME IInv, NEW x \in Procs, Commit(x), UNCHANGED <<reservation, now>>,
         live' \subseteq live, expiration' \in [Ids -> Nat],
         \A id \in live' : \/ expiration'[id] = expiration[id]
                           \/ expiration'[id] = reservation[id].createdAt + Extension
  PROVE  IInv'
<1> USE DEF IInv
<1>1. Unlock(x) /\ Close(x) /\ UNCHANGED <<available, reserved, before>>
  BY DEF Commit
<1>2. TypeOK'
  BY <1>1, CloseFacts DEF TypeOK
<1>3. LockedRows'
  <2> SUFFICES ASSUME NEW p \in Products, lock'[p] # None
               PROVE  lock'[p] = lock[p] /\ tx'[lock'[p]] = tx[lock[p]]
    BY <1>1 DEF LockedRows
  <2> QED BY <1>1, CloseFacts DEF TypeOK
<1>4. Deadlines'
  BY DEF Deadlines
<1>5. ExpireSnapshots' /\ RequestProgress' /\ WorkerProgress'
  BY <1>1, ClosingKeepsProgress
<1> QED BY <1>1, <1>2, <1>3, <1>4, <1>5 DEF UnitsConserved

\* A rollback restores the rows the transaction had locked.
LEMMA RollbackStep ==
  ASSUME IInv, NEW x \in Procs, Rollback(x), UNCHANGED <<reservation, now>>
  PROVE  IInv'
<1> USE DEF IInv
<1>1. Unlock(x) /\ Close(x) /\ UNCHANGED <<before, live, expiration>> /\ x # None
  BY NoneAssumption DEF Rollback
<1>2. \A p \in Products :
         /\ lock[p] = x => /\ available'[p] = before[p].available
                           /\ reserved'[p] = before[p].reserved
         /\ lock[p] # x => /\ available'[p] = available[p]
                           /\ reserved'[p] = reserved[p]
  BY DEF Rollback
<1>3. TypeOK'
  <2>1. available' \in [Products -> Int] /\ reserved' \in [Products -> Int]
    BY DEF Rollback, TypeOK, Row
  <2> QED BY <1>1, <2>1, CloseFacts DEF TypeOK
<1>4. UnitsConserved' /\ (\A p \in Products : available[p] >= 0)'
  BY <1>1, <1>2 DEF UnitsConserved, LockedRows
<1>5. LockedRows'
  <2> SUFFICES ASSUME NEW p \in Products, lock'[p] # None
               PROVE  /\ lock'[p] = lock[p] /\ tx'[lock'[p]] = tx[lock[p]]
                      /\ available'[p] = available[p]
    BY <1>1 DEF LockedRows
  <2> QED BY <1>1, <1>2, CloseFacts DEF TypeOK
<1>6. Deadlines'
  BY <1>1 DEF Deadlines
<1>7. ExpireSnapshots' /\ RequestProgress' /\ WorkerProgress'
  BY <1>1, <1>2, ClosingKeepsProgress
<1> QED BY <1>3, <1>4, <1>5, <1>6, <1>7

LEMMA ReleaseDeleteStep ==
  ASSUME IInv, NEW s \in Sessions, ReleaseDelete(s)
  PROVE  IInv'
<1>1. s \in Procs /\ UNCHANGED <<reservation, now>> /\ expiration \in [Ids -> Nat]
  BY DEF ReleaseDelete, Procs, IInv, TypeOK
<1>2. CASE Rollback(s)
  BY <1>1, <1>2, RollbackStep
<1>3. CASE live' = live \ tx[s].rows /\ Commit(s) /\ UNCHANGED expiration
  BY <1>1, <1>3, CommitStep
<1> QED BY <1>2, <1>3 DEF ReleaseDelete

LEMMA ExtendUpdateStep ==
  ASSUME IInv, NEW s \in Sessions, ExtendUpdate(s)
  PROVE  IInv'
<1>1. s \in Procs /\ UNCHANGED <<reservation, now>>
  BY DEF ExtendUpdate, Procs
<1>2. CASE Rollback(s)
  BY <1>1, <1>2, RollbackStep
<1>3. CASE /\ expiration' = [id \in Ids |-> IF id \in tx[s].rows
                                THEN reservation[id].createdAt + Extension
                                ELSE expiration[id]]
           /\ Commit(s) /\ UNCHANGED live
  <2>1. \A id \in tx[s].rows : id \in Ids /\ reservation[id] \in Reservation
    BY <1>1 DEF IInv, TypeOK
  <2>2. expiration' \in [Ids -> Nat]
    BY <1>3, <2>1, ReservationFields, LifetimeAssumption DEF IInv, TypeOK
  <2>3. live \subseteq Ids
    BY DEF IInv, TypeOK
  <2> QED BY <1>1, <1>3, <2>2, <2>3, CommitStep
<1> QED BY <1>2, <1>3 DEF ExtendUpdate

LEMMA ExpireDeleteStep ==
  ASSUME IInv, NEW w \in Workers, ExpireDelete(w)
  PROVE  IInv'
<1>1. w \in Procs /\ expiration \in [Ids -> Nat]
  BY DEF Procs, IInv, TypeOK
<1> QED BY <1>1, CommitStep DEF ExpireDelete

LEMMA TickStep ==
  ASSUME IInv, Tick
  PROVE  IInv'
<1> USE DEF Tick, IInv
<1>1. TypeOK'
  BY DEF TypeOK
<1>2. ExpireSnapshots'
  <2> SUFFICES ASSUME NEW w \in Workers, NEW id \in tx[w].rows
               PROVE  now + 1 > reservation[id].createdAt + Hold
    BY DEF ExpireSnapshots
  <2>1. reservation[id] \in Reservation
    BY DEF TypeOK, Procs
  <2> QED BY <2>1, ReservationFields, LifetimeAssumption
             DEF ExpireSnapshots, TypeOK
<1>3. RequestProgress'
  BY DEF RequestProgress, WritesNoItem, BeforeCredit, AfterCredit, HoldsNoLock
<1> QED BY <1>1, <1>2, <1>3
        DEF UnitsConserved, LockedRows, Deadlines, WorkerProgress

-----------------------------------------------------------------------------
\* Every step preserves the inductive invariant.
LEMMA NextIInv == IInv /\ [Next]_vars => IInv'
<1> SUFFICES ASSUME IInv, [Next]_vars PROVE IInv'
  OBVIOUS
<1>1. CASE UNCHANGED vars
  BY <1>1 DEF vars, IInv, TypeOK, UnitsConserved, LockedRows, Deadlines,
              ExpireSnapshots, RequestProgress, WorkerProgress, WritesNoItem,
              BeforeCredit, AfterCredit, HoldsNoLock
<1>2. ASSUME NEW p \in Products, NEW c \in Carts, NEW q \in Quantities, NEW id \in Ids,
             reserveStock(p, c, q, id)
      PROVE  IInv'
  BY <1>2, ReserveStep
<1>3. ASSUME NEW s \in Sessions, NEW p \in Products, NEW c \in Carts,
             ReleaseRead(s, p, c) \/ ExtendRead(s, p, c)
      PROVE  IInv'
  BY <1>3, RequestReadStep
<1>4. ASSUME NEW x \in Procs, Credit(x) PROVE IInv'
  BY <1>4, CreditStep
<1>5. ASSUME NEW s \in Sessions, ReleaseDelete(s) PROVE IInv'
  BY <1>5, ReleaseDeleteStep
<1>6. ASSUME NEW s \in Sessions, ExtendUpdate(s) PROVE IInv'
  BY <1>6, ExtendUpdateStep
<1>7. ASSUME NEW w \in Workers, ExpireRead(w) PROVE IInv'
  BY <1>7, ExpireReadStep
<1>8. ASSUME NEW w \in Workers, ExpireDelete(w) PROVE IInv'
  BY <1>8, ExpireDeleteStep
<1>9. ASSUME NEW x \in Procs, DeadlockVictim(x) \/ Fail(x) PROVE IInv'
  BY <1>9, RollbackStep DEF DeadlockVictim, Fail
<1>10. CASE Tick
  BY <1>10, TickStep
<1> QED BY <1>1, <1>2, <1>3, <1>4, <1>5, <1>6, <1>7, <1>8, <1>9, <1>10 DEF Next

\* The inductive invariant holds in every reachable state.
THEOREM InvariantHolds == Spec => []IInv
  BY InitIInv, NextIInv, PTL DEF Spec

\* Type correctness of the inventory tables and their open transactions.
THEOREM TypeCorrect == Spec => []TypeOK
<1>1. IInv => TypeOK
  BY DEF IInv
<1> QED BY <1>1, InvariantHolds, PTL

\* Transactions of reserve, release, extend and expire that overlap, fail or
\* deadlock never make or lose a unit of stock (inventory.service.ts:7-126).
THEOREM StockIsConserved == Spec => []UnitsConserved
<1>1. IInv => UnitsConserved
  BY DEF IInv
<1> QED BY <1>1, InvariantHolds, PTL

\* reserveStock never takes a unit the item does not have, neither in the
\* committed state nor in one that uncommitted credits have touched.
THEOREM NoUnitSoldTwice == Spec => []NeverOversold
<1>1. IInv => NeverOversold
  BY DEF IInv, NeverOversold, CommittedAvailable, LockedRows
<1> QED BY <1>1, InvariantHolds, PTL

-----------------------------------------------------------------------------
(* Action properties.                                                      *)

\* Rows leave the table early only at the request that released them
\* (expireReservations deletes nothing but rows it has read as expired).
THEOREM EarlyEndIsRequested == Spec => HoldHonoured
<1> DEFINE Early == \A id \in live \ live' :
                       \/ now > reservation[id].createdAt + Hold
                       \/ \E s \in Sessions : tx[s].op = "release" /\ id \in tx[s].rows
<1>1. IInv /\ [Next]_vars => [Early]_vars
  <2> SUFFICES ASSUME IInv, Next PROVE Early
    OBVIOUS
  <2>1. ASSUME NEW s \in Sessions, ReleaseDelete(s) PROVE Early
    BY <2>1 DEF ReleaseDelete, Rollback
  <2>2. ASSUME NEW w \in Workers, ExpireDelete(w) PROVE Early
    BY <2>2 DEF ExpireDelete, IInv, ExpireSnapshots
  <2>3. CASE live \subseteq live'
    BY <2>3
  <2> QED BY <2>1, <2>2, <2>3
          DEF Next, reserveStock, Enough, Move, NewRow, ReleaseRead, ExtendRead,
              Credit, Writable, ExtendUpdate,
              ExpireRead, DeadlockVictim, Fail, Rollback, Tick
<1> QED BY <1>1, InvariantHolds, PTL DEF Spec, HoldHonoured

\* A reservation is extended at most once, however many extensions of it
\* have passed the idempotency check together.
THEOREM ExtensionIsIdempotent == Spec => ExtendedOnce
<1> DEFINE Once == \A id \in live \cap live' :
                      expiration'[id] # expiration[id] =>
                         /\ expiration[id] = reservation[id].createdAt + Hold
                         /\ expiration'[id] = reservation[id].createdAt + Extension
<1>1. IInv /\ [Next]_vars => [Once]_vars
  <2> SUFFICES ASSUME IInv, Next PROVE Once
    OBVIOUS
  <2>1. ASSUME NEW p \in Products, NEW c \in Carts, NEW q \in Quantities,
               NEW r \in Ids, reserveStock(p, c, q, r)
        PROVE  Once
    BY <2>1 DEF reserveStock, Enough, Move, NewRow, IInv, TypeOK
  <2>2. ASSUME NEW s \in Sessions, ExtendUpdate(s) PROVE Once
    BY <2>2 DEF ExtendUpdate, Rollback, IInv, TypeOK, Deadlines
  <2>3. CASE UNCHANGED expiration
    BY <2>3
  <2> QED BY <2>1, <2>2, <2>3
          DEF Next, ReleaseRead, ExtendRead, Credit, Writable, Move, ReleaseDelete,
              ExpireRead,
              ExpireDelete, DeadlockVictim, Fail, Rollback, Tick
<1> QED BY <1>1, InvariantHolds, PTL DEF Spec, ExtendedOnce

-----------------------------------------------------------------------------
(* Refinement of StockLedger.                                              *)

Holds == [id \in Ids |-> HeldRow(id)]

\* A step that changes no committed stock and no row is a stutter.
LEMMA InvisibleStep ==
  ASSUME UNCHANGED <<reservation, live>>,
         \A p \in Products : CommittedAvailable'[p] = CommittedAvailable[p]
  PROVE  UNCHANGED <<CommittedAvailable, Holds>>
<1>1. CommittedAvailable' = CommittedAvailable
  BY DEF CommittedAvailable
<1>2. Holds' = Holds
  BY DEF Holds, HeldRow
<1> QED BY <1>1, <1>2

\* A rollback is invisible to whoever reads committed rows.
LEMMA RollbackIsInvisible ==
  ASSUME IInv, NEW x \in Procs, Rollback(x), UNCHANGED reservation
  PROVE  UNCHANGED <<CommittedAvailable, Holds>>
<1>1. x # None
  BY NoneAssumption
<1>2. \A p \in Products : CommittedAvailable'[p] = CommittedAvailable[p]
  BY <1>1 DEF Rollback, Unlock, CommittedAvailable, IInv, TypeOK
<1> QED BY <1>2, InvisibleStep DEF Rollback

\* The commit of releaseStock gives one hold back.
LEMMA ReleaseGivesBack ==
  ASSUME IInv, NEW s \in Sessions, ReleaseDelete(s), ~Rollback(s)
  PROVE  \E id \in Ids : Ledger!GiveBack(id)
<1> USE DEF IInv
<1>1. /\ tx[s].op = "release" /\ tx[s].at = None /\ tx[s].rows \subseteq live
      /\ live' = live \ tx[s].rows /\ Unlock(s)
      /\ UNCHANGED <<available, reserved, before, reservation>>
  BY DEF ReleaseDelete, Commit
<1>2. PICK id \in Ids : AfterCredit(s, id)
  BY <1>1 DEF RequestProgress, WritesNoItem, BeforeCredit
<1> DEFINE p == reservation[id].product
           q == reservation[id].quantity
<1>3. tx[s].rows = {id} /\ id \in live /\ reservation[id] \in Reservation
  BY <1>1, <1>2 DEF AfterCredit, TypeOK
<1>4. p \in Products /\ q \in Quantities /\ s # None
  BY <1>3, ReservationFields, NoneAssumption DEF Procs
<1>5. HeldRow(id) = [product |-> p, quantity |-> q] /\ HeldRow(id) # None
  BY <1>3, <1>4, NoneAssumption DEF HeldRow
<1>6. CommittedAvailable' = [CommittedAvailable EXCEPT ![p] = @ + q]
  <2>1. \A y \in Products : lock[y] = s <=> y = p
    BY <1>2 DEF AfterCredit
  <2>2. available[p] = before[p].available + q
    BY <1>2 DEF AfterCredit
  <2>3. \A y \in Products : CommittedAvailable'[y] =
            IF y = p THEN CommittedAvailable[p] + q ELSE CommittedAvailable[y]
    BY <1>1, <1>4, <2>1, <2>2 DEF CommittedAvailable, Unlock
  <2> QED BY <2>3 DEF CommittedAvailable
<1>7. Holds' = [Holds EXCEPT ![id] = None]
  <2>1. \A r \in Ids : HeldRow(r)' = IF r = id THEN None ELSE HeldRow(r)
    BY <1>1, <1>3 DEF HeldRow
  <2> QED BY <2>1 DEF Holds
<1>8. Holds[id] = HeldRow(id) /\ Holds[id].product = p /\ Holds[id].quantity = q
  BY <1>5 DEF Holds
<1>9. Ledger!GiveBack(id)
  BY <1>5, <1>6, <1>7, <1>8 DEF Ledger!GiveBack, Holds
<1> QED BY <1>9

\* reserveStock takes one hold.
LEMMA ReserveTakes ==
  ASSUME IInv, NEW p \in Products, NEW c \in Carts, NEW q \in Quantities,
         NEW id \in Ids, reserveStock(p, c, q, id)
  PROVE  Ledger!Take(id, p, q)
<1> USE DEF IInv
<1>1. id \notin live /\ HeldRow(id) = None
  BY DEF reserveStock, Enough, Move, NewRow, TypeOK, HeldRow
<1>2. CommittedAvailable[p] = available[p] /\ available[p] >= q
  BY DEF reserveStock, Enough, Move, NewRow, CommittedAvailable
<1>3. CommittedAvailable' = [CommittedAvailable EXCEPT ![p] = @ - q]
  <2>1. \A y \in Products : CommittedAvailable'[y] =
            IF y = p THEN CommittedAvailable[p] - q ELSE CommittedAvailable[y]
    BY DEF reserveStock, Enough, Move, NewRow, CommittedAvailable, TypeOK
  <2> QED BY <2>1 DEF CommittedAvailable
<1>4. Holds' = [Holds EXCEPT ![id] = [product |-> p, quantity |-> q]]
  <2>1. reservation'[id].product = p /\ reservation'[id].quantity = q
    BY DEF reserveStock, Enough, Move, NewRow, TypeOK
  <2>2. HeldRow(id)' = [product |-> p, quantity |-> q]
    BY <2>1 DEF reserveStock, Enough, Move, NewRow, HeldRow
  <2>3. \A r \in Ids \ {id} : HeldRow(r)' = HeldRow(r)
    BY DEF reserveStock, Enough, Move, NewRow, HeldRow, TypeOK
  <2> QED BY <2>2, <2>3 DEF Holds
<1> QED BY <1>1, <1>2, <1>3, <1>4 DEF Ledger!Take, Holds

\* The credit of an open transaction is invisible until it commits.
LEMMA CreditIsInvisible ==
  ASSUME IInv, NEW x \in Procs, Credit(x)
  PROVE  UNCHANGED <<CommittedAvailable, Holds>>
<1>1. x # None
  BY NoneAssumption
<1>2. \A p \in Products : CommittedAvailable'[p] = CommittedAvailable[p]
  BY <1>1 DEF Credit, Writable, Move, CommittedAvailable, IInv, TypeOK
<1> QED BY <1>2, InvisibleStep DEF Credit, Writable, Move

\* While the maintenance job does not run, the inventory service implements
\* the ledger ADR 0004 promises: every reservation takes its units once and
\* gives them back once, whatever requests overlap, fail or retry.
THEOREM ImplementsLedger == ASSUME Workers = {} PROVE Spec => KeepsLedger
<1>1. Init => Ledger!Init
  <2> SUFFICES ASSUME Init PROVE Ledger!Init
    OBVIOUS
  <2>1. CommittedAvailable = Stock
    BY StockAssumption DEF Init, CommittedAvailable
  <2>2. Holds = [id \in Ids |-> None]
    BY DEF Init, Holds, HeldRow
  <2> QED BY <2>1, <2>2 DEF Ledger!Init, Holds
<1>2. IInv /\ [Next]_vars => [Ledger!Next]_<<CommittedAvailable, Holds>>
  <2> SUFFICES ASSUME IInv, [Next]_vars
               PROVE  Ledger!Next \/ UNCHANGED <<CommittedAvailable, Holds>>
    OBVIOUS
  <2>1. ASSUME NEW p \in Products, NEW c \in Carts, NEW q \in Quantities,
               NEW id \in Ids, reserveStock(p, c, q, id)
        PROVE  Ledger!Next
    BY <2>1, ReserveTakes DEF Ledger!Next
  <2>2. ASSUME NEW x \in Procs, Credit(x)
        PROVE  UNCHANGED <<CommittedAvailable, Holds>>
    BY <2>2, CreditIsInvisible
  <2>3. ASSUME NEW s \in Sessions, ReleaseDelete(s)
        PROVE  Ledger!Next \/ UNCHANGED <<CommittedAvailable, Holds>>
    <3>1. CASE Rollback(s)
      BY <2>3, <3>1, RollbackIsInvisible DEF ReleaseDelete, Procs
    <3>2. CASE ~Rollback(s)
      BY <2>3, <3>2, ReleaseGivesBack DEF Ledger!Next
    <3> QED BY <3>1, <3>2
  <2>4. ASSUME NEW s \in Sessions, ExtendUpdate(s)
        PROVE  UNCHANGED <<CommittedAvailable, Holds>>
    <3>1. CASE Rollback(s)
      BY <2>4, <3>1, RollbackIsInvisible DEF ExtendUpdate, Procs
    <3>2. CASE Commit(s) /\ UNCHANGED live
      <4>1. tx[s].op = "extend" /\ s # None
        BY <2>4, NoneAssumption DEF ExtendUpdate, Procs
      <4>2. HoldsNoLock(s)
        BY <4>1
           DEF IInv, RequestProgress, WritesNoItem, BeforeCredit, AfterCredit
      <4>3. \A p \in Products : CommittedAvailable'[p] = CommittedAvailable[p]
        BY <3>2, <4>2 DEF Commit, Unlock, HoldsNoLock, CommittedAvailable
      <4> QED BY <2>4, <3>2, <4>3, InvisibleStep DEF ExtendUpdate
    <3> QED BY <2>4, <3>1, <3>2 DEF ExtendUpdate
  <2>5. ASSUME NEW x \in Procs, DeadlockVictim(x) \/ Fail(x)
        PROVE  UNCHANGED <<CommittedAvailable, Holds>>
    BY <2>5, RollbackIsInvisible DEF DeadlockVictim, Fail
  <2>6. CASE UNCHANGED <<available, lock, before, reservation, live>>
    BY <2>6, InvisibleStep DEF CommittedAvailable
  <2> QED BY <2>1, <2>2, <2>3, <2>4, <2>5, <2>6
          DEF Next, vars, ReleaseRead, ExtendRead, Tick
<1> QED BY <1>1, <1>2, InvariantHolds, PTL
        DEF Spec, KeepsLedger, Ledger!Spec, Holds

-----------------------------------------------------------------------------
(* Inventory: the ledger.  What rows are for, what is credited, and the    *)
(* counter of what is reserved.                                            *)

\* The rows whose reservations were ever made.
Created == {id \in Ids : reservation[id] # None}

LEMMA CreatedRow ==
  ASSUME TypeOK, NEW id \in Created
  PROVE  /\ id \in Ids /\ reservation[id].product \in Products
         /\ reservation[id].quantity \in Nat /\ reservation[id].quantity > 0
  BY ReservationFields DEF Created, TypeOK

\* The units of some rows: a number, none for no rows, and those of one row.
LEMMA UnitsOfType ==
  ASSUME TypeOK, NEW p, NEW S \in SUBSET Created, IsFiniteSet(S)
  PROVE  UnitsOf(p, S) \in Nat
<1> DEFINE D == {i \in S : reservation[i].product = p}
           f == [id \in D |-> reservation[id].quantity]
<1>1. IsFiniteSet(D)
  BY FS_Subset
<1>2. f \in [D -> Nat]
  BY CreatedRow
<1> HIDE DEF f, D
<1>3. Total(f) \in Nat
  BY <1>1, <1>2, UnitsFinite, TotalType
<1> QED BY <1>3 DEF UnitsOf, f, D

LEMMA UnitsOfRow ==
  ASSUME TypeOK, NEW p, NEW id \in Created
  PROVE  UnitsOf(p, {id}) = IF reservation[id].product = p
                            THEN reservation[id].quantity ELSE 0
<1> DEFINE D == {i \in {id} : reservation[i].product = p}
           f == [i \in D |-> reservation[i].quantity]
<1>1. CASE reservation[id].product = p
  <2>1. Units(f) = {id} \X (1..reservation[id].quantity)
    BY <1>1 DEF Units
  <2>2. Cardinality(Units(f)) = reservation[id].quantity
    BY <2>1, CreatedRow, UnitsOfOne
  <2> QED BY <1>1, <2>2 DEF UnitsOf, Total
<1>2. CASE reservation[id].product # p
  <2>1. f \in [D -> Nat] /\ \A i \in D : f[i] = 0
    BY <1>2
  <2>2. Total(f) = 0
    BY <2>1, TotalOfNothing
  <2> QED BY <1>2, <2>2 DEF UnitsOf
<1> QED BY <1>1, <1>2

LEMMA UnitsOfNothing ==
  ASSUME NEW p, NEW S, \A id \in S : reservation[id].product # p
  PROVE  UnitsOf(p, S) = 0
<1> DEFINE D == {i \in S : reservation[i].product = p}
           f == [id \in D |-> reservation[id].quantity]
<1>1. f \in [D -> Nat] /\ \A i \in D : f[i] = 0
  OBVIOUS
<1> HIDE DEF f, D
<1>2. Total(f) = 0
  BY <1>1, TotalOfNothing
<1> QED BY <1>2 DEF UnitsOf, f, D

\* The units of two sets of rows add up.
LEMMA UnitsOfParts ==
  ASSUME TypeOK, NEW p, NEW S \in SUBSET Created, NEW T \in SUBSET Created,
         S \cap T = {}, IsFiniteSet(S), IsFiniteSet(T)
  PROVE  UnitsOf(p, S \cup T) = UnitsOf(p, S) + UnitsOf(p, T)
<1> DEFINE DS == {i \in S : reservation[i].product = p}
           DT == {i \in T : reservation[i].product = p}
           h == [id \in DS \cup DT |-> reservation[id].quantity]
<1>1. IsFiniteSet(DS) /\ IsFiniteSet(DT) /\ DS \cap DT = {}
  BY FS_Subset
<1>2. h \in [DS \cup DT -> Nat]
  BY CreatedRow
<1>3. Total(h) = Total([x \in DS |-> h[x]]) + Total([x \in DT |-> h[x]])
  <2> HIDE DEF h, DS, DT
  <2> QED BY <1>1, <1>2, TotalOfBoth
<1>4. UnitsOf(p, S \cup T) = Total(h)
  <2>1. {i \in S \cup T : reservation[i].product = p} = DS \cup DT
    OBVIOUS
  <2> QED BY <2>1 DEF UnitsOf
<1>5. UnitsOf(p, S) = Total([x \in DS |-> h[x]])
  <2>1. [x \in DS |-> h[x]] = [x \in DS |-> reservation[x].quantity]
    OBVIOUS
  <2> QED BY <2>1 DEF UnitsOf
<1>6. UnitsOf(p, T) = Total([x \in DT |-> h[x]])
  <2>1. [x \in DT |-> h[x]] = [x \in DT |-> reservation[x].quantity]
    OBVIOUS
  <2> QED BY <2>1 DEF UnitsOf
<1> QED BY <1>3, <1>4, <1>5, <1>6

\* Fewer rows are not more units.
LEMMA UnitsOfFewer ==
  ASSUME TypeOK, NEW p, NEW T \in SUBSET Created, IsFiniteSet(T), NEW S \in SUBSET T
  PROVE  UnitsOf(p, S) <= UnitsOf(p, T)
<1> DEFINE R == T \ S
<1>1. T = S \cup R /\ S \cap R = {} /\ S \in SUBSET Created /\ R \in SUBSET Created
  OBVIOUS
<1>2. IsFiniteSet(S) /\ IsFiniteSet(R)
  BY FS_Subset
<1> HIDE DEF R
<1>3. UnitsOf(p, T) = UnitsOf(p, S) + UnitsOf(p, R)
  BY <1>1, <1>2, UnitsOfParts
<1>4. UnitsOf(p, S) \in Nat /\ UnitsOf(p, R) \in Nat
  BY <1>1, <1>2, UnitsOfType
<1> QED BY <1>3, <1>4

\* The columns of a row never change, and so does not what rows are for.
LEMMA UnitsOfSameRows ==
  ASSUME NEW p, NEW S, \A id \in S : reservation'[id] = reservation[id]
  PROVE  UnitsOf(p, S)' = UnitsOf(p, S)
<1>1. [id \in {i \in S : reservation'[i].product = p} |-> reservation'[id].quantity]
        = [id \in {i \in S : reservation[i].product = p} |-> reservation[id].quantity]
  <2>1. {i \in S : reservation'[i].product = p} = {i \in S : reservation[i].product = p}
    OBVIOUS
  <2> QED BY <2>1
<1> QED BY <1>1 DEF UnitsOf

\* What a transaction has read are rows that were once created.
LEMMA RowsRead ==
  ASSUME TypeOK, LedgerInv, NEW x \in Procs
  PROVE  /\ tx[x].rows \in SUBSET Created /\ IsFiniteSet(tx[x].rows)
         /\ Credited(x) \in SUBSET Created /\ IsFiniteSet(Credited(x))
<1>1. tx[x].rows \in SUBSET Created
  BY DEF TypeOK, Created
<1>2. IsFiniteSet(tx[x].rows)
  BY DEF LedgerInv
<1>3. Credited(x) \subseteq tx[x].rows
  BY DEF Credited
<1> QED BY <1>1, <1>2, <1>3, FS_Subset

\* A product that a transaction has not locked is in none of the rows it has
\* credited.
LEMMA NothingCredited ==
  ASSUME LedgerInv, NEW x \in Procs, tx[x].op \in {"release", "expire"},
         NEW p \in Products, lock[p] # x
  PROVE  UnitsOf(p, Credited(x)) = 0
<1>1. \A id \in Credited(x) : reservation[id].product # p
  BY DEF LedgerInv, CreditProgress
<1> QED BY <1>1, UnitsOfNothing

\* Who has no lock has credited nothing, and opens a transaction.
LEMMA OpenLedger ==
  ASSUME TypeOK, LedgerInv, NEW x \in Procs, HoldsNoLock(x),
         UNCHANGED <<reserved, lock, before, reservation, live>>,
         \A y \in Procs \ {x} : tx'[y] = tx[y],
         IsFiniteSet(tx'[x].rows),
         tx'[x].op \in {"release", "expire"} =>
            tx'[x].todo = tx'[x].rows /\ tx'[x].at \in tx'[x].todo
  PROVE  LedgerInv'
<1>1. IsFiniteSet(live')
  BY DEF LedgerInv
<1>2. \A y \in Procs : IsFiniteSet(tx'[y].rows)
  BY DEF LedgerInv
<1>3. ASSUME NEW y \in Procs, tx'[y].op \in {"release", "expire"}
      PROVE  CreditProgress(y)'
  <2>1. CASE y = x
    BY <1>3, <2>1 DEF CreditProgress, Credited
  <2>2. CASE y # x
    BY <1>3, <2>2 DEF LedgerInv, CreditProgress, Credited
  <2> QED BY <2>1, <2>2
<1>4. ASSUME NEW p \in Products, lock'[p] # None
      PROVE  reserved'[p] = before'[p].reserved - UnitsOf(p, Credited(lock[p]))'
  <2>1. lock[p] \in Procs \ {x}
    BY <1>4 DEF HoldsNoLock, TypeOK
  <2>2. Credited(lock[p])' = Credited(lock[p])
    BY <2>1 DEF Credited
  <2>3. UnitsOf(p, Credited(lock[p]))' = UnitsOf(p, Credited(lock[p]))
    BY <2>2 DEF UnitsOf
  <2> QED BY <1>4, <2>3 DEF LedgerInv
<1> QED BY <1>1, <1>2, <1>3, <1>4 DEF LedgerInv

\* A transaction ends.
LEMMA CloseLedger ==
  ASSUME TypeOK, LedgerInv, NEW x \in Procs, Unlock(x), Close(x),
         UNCHANGED <<before, reservation>>, IsFiniteSet(live'),
         \A p \in Products : lock[p] # x => reserved'[p] = reserved[p]
  PROVE  LedgerInv'
<1>1. /\ tx'[x] = Idle
      /\ \A y \in Procs \ {x} : tx'[y] = tx[y]
      /\ \A p \in Products : lock'[p] # x
      /\ \A p \in Products, y \in Procs \ {x} : lock'[p] = y <=> lock[p] = y
      /\ \A p \in Products : lock'[p] # None => lock'[p] = lock[p]
  BY CloseFacts
<1>2. \A y \in Procs : IsFiniteSet(tx'[y].rows)
  <2>1. IsFiniteSet(Idle.rows)
    BY FS_EmptySet DEF Idle
  <2> QED BY <1>1, <2>1 DEF LedgerInv
<1>3. ASSUME NEW y \in Procs, tx'[y].op \in {"release", "expire"}
      PROVE  CreditProgress(y)'
  <2>1. y # x /\ tx'[y] = tx[y]
    BY <1>1, <1>3 DEF Idle
  <2>2. CreditProgress(y)
    BY <1>3, <2>1 DEF LedgerInv
  <2>3. \A id \in Credited(y) : reservation[id].product \in Products
    BY RowsRead, CreatedRow
  <2> QED BY <1>1, <2>1, <2>2, <2>3 DEF CreditProgress, Credited
<1>4. ASSUME NEW p \in Products, lock'[p] # None
      PROVE  reserved'[p] = before'[p].reserved - UnitsOf(p, Credited(lock[p]))'
  <2>1. lock'[p] = lock[p] /\ lock[p] \in Procs \ {x}
    BY <1>1, <1>4 DEF TypeOK
  <2>2. Credited(lock[p])' = Credited(lock[p])
    BY <1>1, <2>1 DEF Credited
  <2>3. UnitsOf(p, Credited(lock[p]))' = UnitsOf(p, Credited(lock[p]))
    BY <2>2 DEF UnitsOf
  <2> QED BY <1>4, <2>1, <2>3 DEF LedgerInv
<1> QED BY <1>2, <1>3, <1>4 DEF LedgerInv

\* reserveStock does not touch the ledger of open transactions.
LEMMA ReserveLedger ==
  ASSUME IInv, LedgerInv,
         NEW p \in Products, NEW c \in Carts, NEW q \in Quantities, NEW id \in Ids,
         reserveStock(p, c, q, id)
  PROVE  LedgerInv'
<1>1. /\ UNCHANGED <<lock, before, tx>> /\ lock[p] = None
      /\ live' = live \cup {id}
      /\ \A y \in Products \ {p} : reserved'[y] = reserved[y]
      /\ \A r \in Created : reservation'[r] = reservation[r]
  BY DEF reserveStock, Enough, Move, NewRow, IInv, TypeOK, Created
<1>2. IsFiniteSet(live')
  BY <1>1, FS_AddElement DEF LedgerInv
<1>3. ASSUME NEW x \in Procs
      PROVE  /\ Credited(x)' = Credited(x)
             /\ \A r \in Credited(x) : reservation'[r] = reservation[r]
  BY <1>1, RowsRead DEF Credited, IInv
<1>4. ASSUME NEW x \in Procs, tx'[x].op \in {"release", "expire"}
      PROVE  CreditProgress(x)'
  BY <1>1, <1>3, <1>4 DEF LedgerInv, CreditProgress
<1>5. ASSUME NEW y \in Products, lock'[y] # None
      PROVE  reserved'[y] = before'[y].reserved - UnitsOf(y, Credited(lock[y]))'
  <2>1. y # p /\ lock[y] \in Procs
    BY <1>1, <1>5 DEF IInv, TypeOK
  <2> DEFINE S == Credited(lock[y])
  <2>2. S' = S /\ \A r \in S : reservation'[r] = reservation[r]
    BY <1>1, <1>3, <2>1 DEF Credited
  <2>3. UnitsOf(y, S)' = UnitsOf(y, S)
    <3> HIDE DEF S
    <3>1. {i \in S : reservation'[i].product = y} = {i \in S : reservation[i].product = y}
      BY <2>2
    <3>2. [r \in {i \in S : reservation'[i].product = y} |-> reservation'[r].quantity]
            = [r \in {i \in S : reservation[i].product = y} |-> reservation[r].quantity]
      BY <2>2, <3>1
    <3> QED BY <2>2, <3>2 DEF UnitsOf
  <2> QED BY <1>1, <1>5, <2>1, <2>3 DEF LedgerInv
<1> QED BY <1>1, <1>2, <1>3, <1>4, <1>5 DEF LedgerInv

\* What a credit does to the transaction it is part of.
CreditOf(x, id) ==
    LET p == reservation[id].product
        q == reservation[id].quantity
    IN  /\ id \in tx[x].todo
        /\ lock[p] \in {None, x}
        /\ reserved' = [reserved EXCEPT ![p] = @ - q]
        /\ available' = [available EXCEPT ![p] = @ + q]
        /\ lock' = [lock EXCEPT ![p] = x]
        /\ before' = IF lock[p] = x THEN before
                     ELSE [before EXCEPT ![p] = [available |-> available[p],
                                                 reserved |-> reserved[p]]]
        /\ tx'[x].op = tx[x].op /\ tx'[x].rows = tx[x].rows
        /\ tx'[x].todo = tx[x].todo \ {id}
        /\ IF tx'[x].todo = {} THEN tx'[x].at = None ELSE tx'[x].at \in tx'[x].todo
        /\ \A y \in Procs \ {x} : tx'[y] = tx[y]
        /\ tx' \in [Procs -> Transaction]
        /\ UNCHANGED <<reservation, live, expiration, now>>

LEMMA CreditFacts ==
  ASSUME TypeOK, NEW x \in Procs,
         tx[x].at \in tx[x].todo, tx[x].todo \subseteq tx[x].rows, Credit(x)
  PROVE  \E id \in Created : CreditOf(x, id)
<1> DEFINE id == tx[x].at
           left == tx[x].todo \ {id}
<1>1. id \in Created /\ id \in tx[x].todo
  BY DEF TypeOK, Created
<1>2. PICK next \in IF left = {} THEN {None} ELSE left :
         tx' = [tx EXCEPT ![x].todo = left, ![x].at = next]
  BY DEF Credit, Writable, Move
<1>3. /\ tx'[x] = [tx[x] EXCEPT !.todo = left, !.at = next]
      /\ \A y \in Procs \ {x} : tx'[y] = tx[y]
  BY <1>2 DEF TypeOK
<1>4. /\ tx'[x].op = tx[x].op /\ tx'[x].rows = tx[x].rows
      /\ tx'[x].todo = left /\ tx'[x].at = next
  BY <1>3 DEF TypeOK, Transaction
<1>5. IF tx'[x].todo = {} THEN tx'[x].at = None ELSE tx'[x].at \in tx'[x].todo
  BY <1>2, <1>4
<1>6. tx' \in [Procs -> Transaction]
  <2>1. left \in SUBSET Ids /\ next \in Ids \cup {None} /\ tx[x] \in Transaction
    BY <1>2 DEF TypeOK, Transaction
  <2>2. tx'[x] \in Transaction
    BY <1>3, <2>1 DEF Transaction
  <2>3. tx' = [tx EXCEPT ![x] = tx'[x]]
    BY <1>2 DEF TypeOK
  <2> QED BY <2>2, <2>3 DEF TypeOK
<1> QED BY <1>1, <1>3, <1>4, <1>5, <1>6 DEF Credit, Writable, Move, CreditOf

\* A credit takes the row's units from the reserved counter of the item it
\* locks.
LEMMA CreditLedger ==
  ASSUME TypeOK, LedgerInv, NEW x \in Procs, tx[x].op \in {"release", "expire"},
         Credit(x)
  PROVE  LedgerInv'
<1>0. CreditProgress(x) /\ tx[x].at # None
  BY DEF LedgerInv, Credit, Writable, Move
<1>1. tx[x].at \in tx[x].todo /\ tx[x].todo \subseteq tx[x].rows
  BY <1>0 DEF CreditProgress
<1>2. PICK id \in Created : CreditOf(x, id)
  BY <1>1, CreditFacts
<1> DEFINE p == reservation[id].product
           q == reservation[id].quantity
<1>3. p \in Products /\ q \in Nat
  BY CreatedRow
<1>4. /\ lock[p] \in {None, x} /\ lock'[p] = x
      /\ \A y \in Products \ {p} : /\ lock'[y] = lock[y]
                                   /\ reserved'[y] = reserved[y]
                                   /\ before'[y] = before[y]
      /\ reserved'[p] = reserved[p] - q
      /\ before'[p].reserved = IF lock[p] = x THEN before[p].reserved ELSE reserved[p]
  BY <1>2, <1>3 DEF TypeOK, CreditOf
<1>5. Credited(x)' = Credited(x) \cup {id} /\ id \notin Credited(x)
  BY <1>1, <1>2 DEF Credited, CreditOf
<1>6. \A y \in Procs \ {x} : Credited(y)' = Credited(y)
  BY <1>2 DEF Credited, CreditOf
<1>7. ASSUME NEW y \in Procs, tx'[y].op \in {"release", "expire"}
      PROVE  CreditProgress(y)'
  <2>1. CASE y = x
    <3>1. \A r \in Credited(x) : /\ reservation[r].product \in Products
                                 /\ lock[reservation[r].product] = x
      BY <1>0, RowsRead, CreatedRow DEF CreditProgress
    <3>2. \A r \in Credited(x)' : lock'[reservation[r].product] = x
      BY <1>4, <1>5, <3>1
    <3> QED BY <1>1, <1>2, <2>1, <3>2 DEF CreditProgress, CreditOf
  <2>2. CASE y # x
    <3>1. CreditProgress(y) /\ tx'[y] = tx[y]
      BY <1>2, <1>7, <2>2 DEF LedgerInv, CreditOf
    <3>2. \A r \in Credited(y) : /\ reservation[r].product \in Products
                                 /\ lock[reservation[r].product] = y
      BY <3>1, RowsRead, CreatedRow DEF CreditProgress
    <3>3. \A r \in Credited(y)' : lock'[reservation[r].product] = y
      BY <1>4, <1>6, <2>2, <3>2, NoneAssumption
    <3> QED BY <1>2, <3>1, <3>3 DEF CreditProgress, CreditOf
  <2> QED BY <2>1, <2>2
<1>8. UNCHANGED <<reservation, live>>
  BY <1>2 DEF CreditOf
<1>9. ASSUME NEW y \in Products
      PROVE  UnitsOf(y, Credited(x) \cup {id})
               = UnitsOf(y, Credited(x)) + (IF y = p THEN q ELSE 0)
  <2>1. UnitsOf(y, {id}) = IF y = p THEN q ELSE 0
    BY UnitsOfRow
  <2>2. /\ Credited(x) \in SUBSET Created /\ IsFiniteSet(Credited(x))
        /\ {id} \in SUBSET Created /\ IsFiniteSet({id})
        /\ Credited(x) \cap {id} = {}
    BY <1>5, RowsRead, FS_Singleton
  <2>3. UnitsOf(y, Credited(x) \cup {id}) = UnitsOf(y, Credited(x)) + UnitsOf(y, {id})
    BY <2>2, UnitsOfParts, Zenon
  <2> QED BY <2>1, <2>3
<1>10. \A y \in Products : UnitsOf(y, Credited(x)) \in Nat
  BY RowsRead, UnitsOfType
<1>11. ASSUME NEW y \in Products, lock'[y] # None
       PROVE  reserved'[y] = before'[y].reserved - UnitsOf(y, Credited(lock[y]))'
  <2>1. CASE lock'[y] # x
    <3>1. y # p /\ lock[y] = lock'[y] /\ lock[y] \in Procs \ {x}
      BY <1>4, <1>11, <2>1 DEF TypeOK
    <3>2. UnitsOf(y, Credited(lock[y]))' = UnitsOf(y, Credited(lock[y]))
      BY <1>6, <1>8, <3>1 DEF UnitsOf
    <3> QED BY <1>4, <1>11, <3>1, <3>2 DEF LedgerInv
  <2>2. CASE lock'[y] = x
    <3>1. UnitsOf(y, Credited(lock[y]))' = UnitsOf(y, Credited(x) \cup {id})
      BY <1>5, <1>8, <2>2 DEF UnitsOf
    <3>2. CASE lock[y] = x
      <4>1. reserved[y] = before[y].reserved - UnitsOf(y, Credited(x))
        BY <3>2, NoneAssumption DEF LedgerInv
      <4>2. before[y].reserved \in Int
        BY DEF TypeOK, Row
      <4>3. before'[y].reserved = before[y].reserved
        BY <1>4, <3>2
      <4> QED BY <1>3, <1>4, <1>9, <1>10, <3>1, <4>1, <4>2, <4>3
    <3>3. CASE lock[y] # x
      <4>1. y = p
        BY <1>4, <2>2, <3>3
      <4>2. UnitsOf(y, Credited(x)) = 0
        BY <3>3, NothingCredited
      <4>3. reserved[y] \in Int
        BY DEF TypeOK
      <4>4. UnitsOf(y, Credited(lock[y]))' = q
        <5>1. UnitsOf(y, Credited(x) \cup {id}) = UnitsOf(y, Credited(x)) + q
          BY <1>9, <4>1
        <5>2. UnitsOf(y, Credited(x) \cup {id}) = q
          BY <1>3, <4>2, <5>1
        <5> QED BY <3>1, <5>2
      <4>5. reserved'[y] = reserved[y] - q /\ before'[y].reserved = reserved[y]
        BY <1>4, <3>3, <4>1
      <4> HIDE DEF q
      <4> QED BY <1>3, <4>3, <4>4, <4>5
    <3> QED BY <3>2, <3>3
  <2> QED BY <2>1, <2>2
<1>12. IsFiniteSet(live') /\ \A y \in Procs : IsFiniteSet(tx'[y].rows)
  BY <1>2 DEF LedgerInv, CreditOf
<1> QED BY <1>7, <1>11, <1>12 DEF LedgerInv

LEMMA InitLedger == Init => LedgerInv
<1> SUFFICES ASSUME Init PROVE LedgerInv
  OBVIOUS
<1>1. IsFiniteSet(live) /\ \A x \in Procs : IsFiniteSet(tx[x].rows)
  BY FS_EmptySet DEF Init, Idle
<1> QED BY <1>1 DEF Init, Idle, LedgerInv

\* Every step preserves what the ledger says of open transactions.
LEMMA NextLedger == IInv /\ LedgerInv /\ [Next]_vars => LedgerInv'
<1> SUFFICES ASSUME IInv, LedgerInv, [Next]_vars PROVE LedgerInv'
  OBVIOUS
<1>0. TypeOK /\ LockedRows
  BY DEF IInv
<1>1. ASSUME NEW x \in Procs, tx[x].op = "idle" PROVE HoldsNoLock(x)
  BY <1>0, <1>1, NoneAssumption DEF LockedRows, HoldsNoLock
<1>2. ASSUME NEW s \in Sessions, NEW p \in Products, NEW c \in Carts,
             ReleaseRead(s, p, c) \/ ExtendRead(s, p, c)
      PROVE  LedgerInv'
  <2>1. s \in Procs /\ HoldsNoLock(s)
    BY <1>1, <1>2 DEF Procs, ReleaseRead, ExtendRead
  <2>2. PICK id : \/ tx' = [tx EXCEPT ![s] = [op |-> "release", rows |-> {id},
                                              todo |-> {id}, at |-> id]]
                  \/ tx' = [tx EXCEPT ![s] = [op |-> "extend", rows |-> {id},
                                              todo |-> {}, at |-> None]]
    BY <1>2 DEF ReleaseRead, ExtendRead
  <2>3. tx'[s].rows = {id} /\ \A y \in Procs \ {s} : tx'[y] = tx[y]
    BY <1>0, <2>1, <2>2 DEF TypeOK
  <2>4. tx'[s].op \in {"release", "expire"} =>
            tx'[s].todo = tx'[s].rows /\ tx'[s].at \in tx'[s].todo
    <3>1. \/ tx'[s] = [op |-> "release", rows |-> {id}, todo |-> {id}, at |-> id]
          \/ tx'[s] = [op |-> "extend", rows |-> {id}, todo |-> {}, at |-> None]
      BY <1>0, <2>1, <2>2 DEF TypeOK
    <3> QED BY <3>1
  <2>5. IsFiniteSet(tx'[s].rows)
    BY <2>3, FS_Singleton
  <2>6. UNCHANGED <<reserved, lock, before, reservation, live>>
    BY <1>2 DEF ReleaseRead, ExtendRead
  <2> QED BY <1>0, <2>1, <2>3, <2>4, <2>5, <2>6, OpenLedger
<1>3. ASSUME NEW w \in Workers, ExpireRead(w) PROVE LedgerInv'
  <2>1. w \in Procs /\ HoldsNoLock(w)
    BY <1>1, <1>3 DEF Procs, ExpireRead
  <2>2. PICK first \in Expired :
           tx' = [tx EXCEPT ![w] = [op |-> "expire", rows |-> Expired,
                                    todo |-> Expired, at |-> first]]
    BY <1>3 DEF ExpireRead
  <2>3. /\ tx'[w].rows = Expired /\ tx'[w].todo = Expired /\ tx'[w].at \in Expired
        /\ \A y \in Procs \ {w} : tx'[y] = tx[y]
    BY <1>0, <2>1, <2>2 DEF TypeOK
  <2>4. IsFiniteSet(Expired)
    BY FS_Subset DEF Expired, LedgerInv
  <2>5. UNCHANGED <<reserved, lock, before, reservation, live>>
    BY <1>3 DEF ExpireRead
  <2> QED BY <1>0, <2>1, <2>3, <2>4, <2>5, OpenLedger
<1>4. ASSUME NEW x \in Procs, Credit(x) PROVE LedgerInv'
  <2>1. tx[x].op \in {"release", "expire"}
    BY <1>4 DEF Credit, IInv, RequestProgress, WorkerProgress, WritesNoItem,
                BeforeCredit, AfterCredit, Procs
  <2> QED BY <1>0, <1>4, <2>1, CreditLedger
<1>5. ASSUME NEW x \in Procs, Rollback(x), UNCHANGED reservation
      PROVE  LedgerInv'
  <2>1. /\ Unlock(x) /\ Close(x) /\ UNCHANGED <<before, live>>
        /\ \A p \in Products : lock[p] # x => reserved'[p] = reserved[p]
    BY <1>5 DEF Rollback
  <2> QED BY <1>0, <1>5, <2>1, CloseLedger DEF LedgerInv
<1>6. ASSUME NEW x \in Procs, Commit(x), live' \subseteq live, UNCHANGED reservation
      PROVE  LedgerInv'
  <2>1. /\ Unlock(x) /\ Close(x) /\ UNCHANGED <<before, reserved>>
    BY <1>6 DEF Commit
  <2>2. IsFiniteSet(live')
    BY <1>6, FS_Subset DEF LedgerInv
  <2> QED BY <1>0, <1>6, <2>1, <2>2, CloseLedger
<1>7. ASSUME UNCHANGED <<reserved, lock, before, reservation, live, tx>>
      PROVE  LedgerInv'
  BY <1>7 DEF LedgerInv, CreditProgress, Credited, UnitsOf
<1>8. ASSUME NEW s \in Sessions, ReleaseDelete(s) \/ ExtendUpdate(s) PROVE LedgerInv'
  <2>1. s \in Procs
    BY DEF Procs
  <2> QED BY <1>5, <1>6, <1>8, <2>1 DEF ReleaseDelete, ExtendUpdate
<1>9. ASSUME NEW w \in Workers, ExpireDelete(w) PROVE LedgerInv'
  BY <1>6, <1>9 DEF ExpireDelete, Procs
<1>10. ASSUME NEW x \in Procs, DeadlockVictim(x) \/ Fail(x) PROVE LedgerInv'
  BY <1>5, <1>10 DEF DeadlockVictim, Fail
<1>11. CASE Tick \/ UNCHANGED vars
  BY <1>7, <1>11 DEF Tick, vars
<1> QED BY <1>2, <1>3, <1>4, <1>8, <1>9, <1>10, <1>11, ReserveLedger DEF Next

-----------------------------------------------------------------------------
\* The reserved units of p that no committed counter accounts for.
Uncounted(p) == HeldUnits(p) - CommittedReserved[p]

LEMMA UncountedType ==
  ASSUME TypeOK, LedgerInv, NEW p \in Products
  PROVE  HeldUnits(p) \in Nat /\ CommittedReserved[p] \in Int
<1>1. live \in SUBSET Created /\ IsFiniteSet(live)
  BY DEF TypeOK, LedgerInv, Created
<1>2. CommittedReserved[p] \in Int
  BY DEF CommittedReserved, TypeOK, Row
<1> QED BY <1>1, <1>2, UnitsOfType DEF HeldUnits

\* A step that only reads, waits or rolls back.
LEMMA SameCount ==
  ASSUME NEW p \in Products, UNCHANGED <<reservation, live>>,
         CommittedReserved'[p] = CommittedReserved[p]
  PROVE  Uncounted(p)' = Uncounted(p)
BY DEF Uncounted, HeldUnits, UnitsOf

\* A commit lowers the counter by the units of all the rows that were read,
\* and removes those of them that are still there.
LEMMA CommitCounts ==
  ASSUME TypeOK, LedgerInv, NEW x \in Procs, tx[x].op \in {"release", "expire"},
         tx[x].at = None, live' = live \ tx[x].rows, Commit(x),
         UNCHANGED reservation, NEW p \in Products
  PROVE  Uncounted(p)' = Uncounted(p) + UnitsOf(p, tx[x].rows)
                           - UnitsOf(p, live \cap tx[x].rows)
<1> DEFINE rows == tx[x].rows
           gone == live \cap rows
           left == live \ rows
<1>1. tx[x].todo = {} /\ Credited(x) = rows
  <2>1. CreditProgress(x) /\ x # None
    BY NoneAssumption DEF LedgerInv
  <2>2. tx[x].todo \in SUBSET Ids
    BY DEF TypeOK, Transaction
  <2> QED BY <2>1, <2>2, NoneAssumption DEF CreditProgress, Credited
<1>2. rows \in SUBSET Created /\ IsFiniteSet(rows)
  BY RowsRead
<1>3. /\ gone \in SUBSET Created /\ left \in SUBSET Created
      /\ IsFiniteSet(gone) /\ IsFiniteSet(left)
      /\ gone \cap left = {} /\ live = gone \cup left
  BY <1>2, FS_Subset DEF TypeOK, LedgerInv, Created
<1>4. HeldUnits(p) = UnitsOf(p, gone) + UnitsOf(p, left)
  <2> HIDE DEF gone, left
  <2> QED BY <1>3, UnitsOfParts, Zenon DEF HeldUnits
<1>5. HeldUnits(p)' = UnitsOf(p, left)
  BY DEF HeldUnits, UnitsOf
<1>6. CommittedReserved'[p] = CommittedReserved[p] - UnitsOf(p, rows)
  <2>1. x # None
    BY NoneAssumption
  <2>2. CASE lock[p] = x
    <3>1. CommittedReserved'[p] = reserved[p]
      BY <2>2 DEF Commit, Unlock, CommittedReserved
    <3>2. CommittedReserved[p] = before[p].reserved
      BY <2>1, <2>2 DEF CommittedReserved
    <3> QED BY <1>1, <2>1, <2>2, <3>1, <3>2 DEF LedgerInv
  <2>3. CASE lock[p] # x
    <3>1. CommittedReserved'[p] = CommittedReserved[p]
      BY <2>1, <2>3 DEF Commit, Unlock, CommittedReserved
    <3>2. UnitsOf(p, rows) = 0
      BY <1>1, <2>3, NothingCredited
    <3>3. CommittedReserved[p] \in Int
      BY DEF CommittedReserved, TypeOK, Row
    <3> QED BY <3>1, <3>2, <3>3
  <2> QED BY <2>2, <2>3
<1>7. /\ UnitsOf(p, rows) \in Nat /\ UnitsOf(p, gone) \in Nat
      /\ UnitsOf(p, left) \in Nat /\ CommittedReserved[p] \in Int
  BY <1>2, <1>3, UnitsOfType, UncountedType
<1> HIDE DEF rows, gone, left
<1>8. Uncounted(p)' = HeldUnits(p)' - CommittedReserved'[p]
  BY DEF Uncounted
<1>9. Uncounted(p)' = Uncounted(p) + UnitsOf(p, rows) - UnitsOf(p, gone)
  BY <1>4, <1>5, <1>6, <1>7, <1>8 DEF Uncounted
<1> QED BY <1>9 DEF rows, gone

\* Rollbacks and credits leave the committed counter alone.
LEMMA RollbackCounts ==
  ASSUME TypeOK, NEW x \in Procs, Rollback(x), UNCHANGED reservation,
         NEW p \in Products
  PROVE  Uncounted(p)' = Uncounted(p)
<1>1. x # None
  BY NoneAssumption
<1>2. CommittedReserved'[p] = CommittedReserved[p]
  BY <1>1 DEF Rollback, Unlock, CommittedReserved, TypeOK
<1> QED BY <1>2, SameCount DEF Rollback

LEMMA CreditCounts ==
  ASSUME TypeOK, NEW x \in Procs, Credit(x), NEW p \in Products
  PROVE  Uncounted(p)' = Uncounted(p)
<1>1. x # None
  BY NoneAssumption
<1>2. CommittedReserved'[p] = CommittedReserved[p]
  BY <1>1 DEF Credit, Writable, Move, CommittedReserved, TypeOK
<1> QED BY <1>2, SameCount DEF Credit, Writable, Move

\* A new reservation is counted once, and adds one row.
LEMMA ReserveCounts ==
  ASSUME IInv, LedgerInv,
         NEW q \in Quantities, NEW r \in Products, NEW c \in Carts, NEW id \in Ids,
         reserveStock(r, c, q, id), NEW p \in Products
  PROVE  Uncounted(p)' = Uncounted(p)
<1>0. TypeOK /\ TypeOK'
  BY ReserveStep DEF IInv
<1>1. /\ lock[r] = None /\ UNCHANGED <<lock, before>>
      /\ id \notin live /\ live' = live \cup {id}
      /\ reservation'[id].product = r /\ reservation'[id].quantity = q
      /\ \A i \in live : reservation'[i] = reservation[i]
      /\ q \in Nat
  BY <1>0, QuantityAssumption DEF reserveStock, Enough, Move, NewRow, TypeOK
<1>2. CommittedReserved'[p] = CommittedReserved[p] + IF p = r THEN q ELSE 0
  <2>1. reserved'[p] = reserved[p] + IF p = r THEN q ELSE 0
    BY <1>0, <1>1 DEF reserveStock, Enough, Move, NewRow, TypeOK
  <2> QED BY <1>0, <1>1, <2>1 DEF CommittedReserved, TypeOK, Row
<1> DEFINE old == [i \in {j \in live : reservation[j].product = p} |->
                      reservation[i].quantity]
           new == [i \in {j \in live \cup {id} : reservation'[j].product = p} |->
                      reservation'[i].quantity]
           S == {j \in live : reservation[j].product = p}
<1>3. HeldUnits(p) = Total(old) /\ HeldUnits(p)' = Total(new)
  BY <1>1 DEF HeldUnits, UnitsOf
<1>4. IsFiniteSet(S) /\ old \in [S -> Nat] /\ id \notin S
  <2>1. live \in SUBSET Created
    BY <1>0 DEF TypeOK, Created
  <2> QED BY <1>0, <1>1, <2>1, CreatedRow, FS_Subset DEF LedgerInv
<1>5. IsFiniteSet(Units(old)) /\ Total(old) \in Nat
  <2> HIDE DEF old, S
  <2> QED BY <1>4, UnitsFinite, TotalType
<1>6. Total(new) = Total(old) + IF p = r THEN q ELSE 0
  <2>1. CASE p # r
    <3>1. new = old
      <4>1. {j \in live \cup {id} : reservation'[j].product = p} = S
        BY <1>1, <2>1
      <4> QED BY <1>1, <4>1
    <3> QED BY <1>5, <2>1, <3>1
  <2>2. CASE p = r
    <3> DEFINE R == S \cup {id}
    <3>1. {j \in live \cup {id} : reservation'[j].product = p} = R
      BY <1>1, <2>2
    <3>2. /\ new \in [R -> Nat] /\ new[id] = q
          /\ \A i \in S : new[i] = old[i]
      BY <1>1, <1>4, <3>1
    <3>3. R \ {id} = S /\ id \in R
      BY <1>4
    <3> HIDE DEF R, S, new, old
    <3>4. old \in [R \ {id} -> Nat] /\ \A i \in R \ {id} : new[i] = old[i]
      BY <1>4, <3>2, <3>3
    <3>5. Total(new) = Total(old) + new[id]
      BY <1>5, <3>2, <3>3, <3>4, TotalWithOne
    <3> QED BY <2>2, <3>2, <3>5
  <2> QED BY <2>1, <2>2
<1>7. CommittedReserved[p] \in Int
  BY <1>0, UncountedType
<1> HIDE DEF old, new
<1> QED BY <1>1, <1>2, <1>3, <1>5, <1>6, <1>7 DEF Uncounted

\* Reserved units that no row is for do not appear, and without a maintenance
\* run nothing is credited twice: no step changes the count.
LEMMA NextCounts ==
  ASSUME IInv, LedgerInv, Next, NEW p \in Products
  PROVE  /\ Uncounted(p)' \in Int /\ Uncounted(p)' >= Uncounted(p)
         /\ Workers = {} => Uncounted(p)' = Uncounted(p)
<1>0. TypeOK
  BY DEF IInv
<1>a. Uncounted(p) \in Int
  BY <1>0, UncountedType DEF Uncounted
<1>1. CASE Uncounted(p)' = Uncounted(p)
  BY <1>a, <1>1
<1>2. ASSUME NEW s \in Sessions, ReleaseDelete(s)
      PROVE  Uncounted(p)' = Uncounted(p)
  <2>1. s \in Procs
    BY DEF Procs
  <2>2. CASE Rollback(s)
    BY <1>0, <1>2, <2>1, <2>2, RollbackCounts DEF ReleaseDelete
  <2>3. CASE ~Rollback(s)
    <3>1. /\ tx[s].op \in {"release", "expire"} /\ tx[s].at = None
          /\ tx[s].rows \subseteq live /\ live' = live \ tx[s].rows
          /\ Commit(s) /\ UNCHANGED reservation
      BY <1>2, <2>3 DEF ReleaseDelete
    <3>2. Uncounted(p)' = Uncounted(p) + UnitsOf(p, tx[s].rows)
                             - UnitsOf(p, live \cap tx[s].rows)
      BY <1>0, <2>1, <3>1, CommitCounts
    <3>3. UnitsOf(p, live \cap tx[s].rows) = UnitsOf(p, tx[s].rows)
      <4>1. live \cap tx[s].rows = tx[s].rows
        BY <3>1
      <4> QED BY <4>1
    <3>4. UnitsOf(p, tx[s].rows) \in Nat
      BY <1>0, <2>1, RowsRead, UnitsOfType
    <3> QED BY <1>a, <3>2, <3>3, <3>4
  <2> QED BY <2>2, <2>3
<1>3. ASSUME NEW s \in Sessions, ExtendUpdate(s)
      PROVE  Uncounted(p)' = Uncounted(p)
  <2>1. s \in Procs /\ s # None /\ tx[s].op = "extend"
    BY <1>3, NoneAssumption DEF Procs, ExtendUpdate
  <2>2. CASE Rollback(s)
    BY <1>0, <1>3, <2>1, <2>2, RollbackCounts DEF ExtendUpdate
  <2>3. CASE Commit(s) /\ UNCHANGED live
    <3>1. HoldsNoLock(s)
      BY <2>1 DEF IInv, LockedRows, HoldsNoLock
    <3>2. CommittedReserved'[p] = CommittedReserved[p]
      BY <2>3, <3>1 DEF Commit, Unlock, HoldsNoLock, CommittedReserved
    <3> QED BY <1>3, <2>3, <3>2, SameCount DEF ExtendUpdate
  <2> QED BY <1>3, <2>2, <2>3 DEF ExtendUpdate
<1>4. ASSUME NEW w \in Workers, ExpireDelete(w)
      PROVE  Uncounted(p)' \in Int /\ Uncounted(p)' >= Uncounted(p)
  <2>1. /\ w \in Procs /\ tx[w].op \in {"release", "expire"} /\ tx[w].at = None
        /\ live' = live \ tx[w].rows /\ Commit(w) /\ UNCHANGED reservation
    BY <1>4 DEF ExpireDelete, Procs
  <2>2. Uncounted(p)' = Uncounted(p) + UnitsOf(p, tx[w].rows)
                           - UnitsOf(p, live \cap tx[w].rows)
    BY <1>0, <2>1, CommitCounts
  <2>3. tx[w].rows \in SUBSET Created /\ IsFiniteSet(tx[w].rows)
    BY <1>0, <2>1, RowsRead
  <2>4. UnitsOf(p, live \cap tx[w].rows) <= UnitsOf(p, tx[w].rows)
    BY <1>0, <2>3, UnitsOfFewer
  <2>5. UnitsOf(p, tx[w].rows) \in Nat /\ UnitsOf(p, live \cap tx[w].rows) \in Nat
    BY <1>0, <2>3, UnitsOfType, FS_Subset
  <2> QED BY <1>a, <2>2, <2>4, <2>5
<1>5. ASSUME NEW x \in Procs, DeadlockVictim(x) \/ Fail(x)
      PROVE  Uncounted(p)' = Uncounted(p)
  BY <1>0, <1>5, RollbackCounts DEF DeadlockVictim, Fail
<1>6. CASE UNCHANGED <<reserved, lock, before, reservation, live>>
  BY <1>a, <1>6, SameCount DEF CommittedReserved
<1> QED BY <1>0, <1>a, <1>2, <1>3, <1>4, <1>5, <1>6, ReserveCounts, CreditCounts
        DEF Next, ReleaseRead, ExtendRead, ExpireRead, Tick

\* In the beginning nothing is reserved.
LEMMA InitCounts ==
  ASSUME Init, NEW p \in Products
  PROVE  Uncounted(p) = 0
<1>1. UnitsOf(p, live) = 0
  BY UnitsOfNothing DEF Init
<1>2. CommittedReserved[p] = 0
  BY DEF Init, CommittedReserved
<1> QED BY <1>1, <1>2 DEF Uncounted, HeldUnits

\* The invariant behind the ledger holds in every reachable state.
THEOREM LedgerInvariantHolds == Spec => [](IInv /\ LedgerInv)
  BY InitIInv, NextIInv, InitLedger, NextLedger, PTL DEF Spec

\* No reserved unit is stranded: at every commit the reserved counter of an
\* item is covered by rows of the table, whatever releases, extensions and
\* maintenance runs overlap, fail or deadlock (inventory.service.ts:41-126).
THEOREM NoUnitStranded == Spec => []NothingStranded
<1> DEFINE Covered == \A p \in Products : Uncounted(p) >= 0
<1>1. Init => Covered
  BY InitCounts
<1>2. IInv /\ LedgerInv /\ Covered /\ [Next]_vars => Covered'
  <2> SUFFICES ASSUME IInv, LedgerInv, Covered, [Next]_vars, NEW p \in Products
               PROVE  Uncounted(p)' >= 0
    OBVIOUS
  <2>1. Uncounted(p) \in Int /\ Uncounted(p) >= 0
    BY UncountedType DEF Uncounted, IInv
  <2>2. CASE Next
    <3>1. Uncounted(p)' \in Int /\ Uncounted(p)' >= Uncounted(p)
      BY <2>2, NextCounts
    <3> QED BY <2>1, <3>1
  <2>3. CASE UNCHANGED vars
    <3>1. Uncounted(p)' = Uncounted(p)
      BY <2>3, SameCount DEF vars, CommittedReserved
    <3> QED BY <2>1, <3>1
  <2> QED BY <2>2, <2>3
<1>3. IInv /\ LedgerInv /\ Covered => NothingStranded
  <2> SUFFICES ASSUME IInv, LedgerInv, Covered, NEW p \in Products
               PROVE  CommittedReserved[p] <= HeldUnits(p)
    BY DEF NothingStranded
  <2>1. HeldUnits(p) \in Nat /\ CommittedReserved[p] \in Int
    BY UncountedType DEF IInv
  <2> QED BY <2>1 DEF Uncounted
<1> QED BY <1>1, <1>2, <1>3, LedgerInvariantHolds, PTL DEF Spec

\* While the maintenance job does not run, the committed reserved counter is
\* the sum of the reservation rows: each reservation that ends is credited
\* exactly once, also when two requests release it together.
THEOREM LedgerIsExact == ASSUME Workers = {} PROVE Spec => []LedgerExact
<1> DEFINE Exact == \A p \in Products : Uncounted(p) = 0
<1>1. Init => Exact
  BY InitCounts
<1>2. IInv /\ LedgerInv /\ Exact /\ [Next]_vars => Exact'
  <2> SUFFICES ASSUME IInv, LedgerInv, Exact, [Next]_vars, NEW p \in Products
               PROVE  Uncounted(p)' = 0
    OBVIOUS
  <2>1. CASE Next
    BY <2>1, NextCounts
  <2>2. CASE UNCHANGED vars
    BY <2>2, SameCount DEF vars, CommittedReserved
  <2> QED BY <2>1, <2>2
<1>3. IInv /\ LedgerInv /\ Exact => LedgerExact
  <2> SUFFICES ASSUME IInv, LedgerInv, Exact, NEW p \in Products
               PROVE  CommittedReserved[p] = HeldUnits(p)
    BY DEF LedgerExact
  <2>1. HeldUnits(p) \in Nat /\ CommittedReserved[p] \in Int
    BY UncountedType DEF IInv
  <2> QED BY <2>1 DEF Uncounted
<1> QED BY <1>1, <1>2, <1>3, LedgerInvariantHolds, PTL DEF Spec

-----------------------------------------------------------------------------
(* Checkout: the inventory service beside initiateCheckout.                *)

\* One value is not more than the total.
LEMMA TotalCovers ==
  ASSUME NEW S, NEW f \in [S -> Nat], IsFiniteSet(Units(f)), NEW x \in S
  PROVE  f[x] <= Total(f)
<1> DEFINE g == [y \in {x} |-> f[y]]
<1>1. g \in [{x} -> Nat] /\ {x} \subseteq S /\ \A y \in {x} : g[y] <= f[y]
  OBVIOUS
<1>2. Total(g) = f[x]
  <2>1. Units(g) = {x} \X (1..f[x]) /\ f[x] \in Nat
    BY DEF Units
  <2>2. Cardinality({x} \X (1..f[x])) = f[x]
    BY <2>1, UnitsOfOne
  <2> QED BY <2>1, <2>2, Zenon DEF Total
<1> HIDE DEF g
<1>3. Total(g) <= Total(f)
  BY <1>1, TotalGrows
<1> QED BY <1>2, <1>3

-----------------------------------------------------------------------------
(* What every step of Inventory does to the rows.                          *)

\* A reservation's columns are written once, and a row that is gone is gone.
LEMMA RowsKept ==
  ASSUME TypeOK, Next, NEW id \in Created
  PROVE  reservation'[id] = reservation[id] /\ (id \in live' => id \in live)
<1>1. id \in Ids /\ reservation[id] # None
  BY DEF Created
<1>2. ASSUME NEW p \in Products, NEW c \in Carts, NEW q \in Quantities, NEW r \in Ids,
             reserveStock(p, c, q, r)
      PROVE  reservation'[id] = reservation[id] /\ (id \in live' => id \in live)
  BY <1>1, <1>2 DEF reserveStock, NewRow, Enough, Move, TypeOK
<1> QED BY <1>2
           DEF Next, ReleaseRead, ExtendRead, Credit, ReleaseDelete, ExtendUpdate,
            ExpireRead, ExpireDelete, DeadlockVictim, Fail, Tick, Rollback, Commit

\* The deadline of a row moves once, to the extended one.
LEMMA DeadlineMovesOnce ==
  ASSUME IInv, Next, NEW id \in live \cap live', expiration'[id] # expiration[id]
  PROVE  /\ expiration[id] = reservation[id].createdAt + Hold
         /\ expiration'[id] = reservation[id].createdAt + Extension
<1>1. ASSUME NEW p \in Products, NEW c \in Carts, NEW q \in Quantities,
             NEW r \in Ids, reserveStock(p, c, q, r)
      PROVE  FALSE
  BY <1>1 DEF reserveStock, Enough, Move, NewRow, IInv, TypeOK
<1>2. PICK s \in Sessions : ExtendUpdate(s)
  BY <1>1
     DEF Next, ReleaseRead, ExtendRead, Credit, Writable, Move, ReleaseDelete,
              ExpireRead, ExpireDelete, DeadlockVictim, Fail, Rollback, Tick
<1> QED BY <1>2 DEF ExtendUpdate, Rollback, IInv, TypeOK, Deadlines

LEMMA SettledStays ==
  ASSUME IInv, Next \/ UNCHANGED vars, NEW id \in Created, Settled(id)
  PROVE  Settled(id)'
<1>0. TypeOK
  BY DEF IInv
<1>1. CASE UNCHANGED vars
  BY <1>1 DEF vars, Settled, HasTwin
<1>2. CASE Next
  <2> SUFFICES ASSUME id \in live', ~HasTwin(id)'
               PROVE  expiration'[id] = reservation'[id].createdAt + Extension
    BY DEF Settled
  <2>1. id \in live /\ reservation'[id] = reservation[id]
    BY <1>0, <1>2, RowsKept
  <2>2. ~HasTwin(id)
    <3> SUFFICES ASSUME NEW other \in Ids \ {id}, reservation[other] # None,
                        reservation[other].product = reservation[id].product,
                        reservation[other].cart = reservation[id].cart
                 PROVE  FALSE
      BY DEF HasTwin
    <3>1. reservation'[other] = reservation[other]
      BY <1>0, <1>2, RowsKept DEF Created
    <3> QED BY <2>1, <3>1 DEF HasTwin
  <2>3. expiration[id] = reservation[id].createdAt + Extension
    BY <2>1, <2>2 DEF Settled
  <2> QED BY <1>2, <2>1, <2>3, DeadlineMovesOnce
<1> QED BY <1>1, <1>2

\* The carts' units when one cart changes.
LEMMA OneCartChanges ==
  ASSUME CartsBounded, NEW c \in AllCarts, NEW n \in Nat,
         inCart' = [inCart EXCEPT ![c] = n]
  PROVE  /\ inCart' \in [AllCarts -> Nat] /\ IsFiniteSet(Units(inCart'))
         /\ UnitsInCarts' = UnitsInCarts - inCart[c] + n
         /\ UnitsInCarts \in Nat /\ inCart[c] \in Nat /\ inCart[c] <= UnitsInCarts
<1> DEFINE new == [inCart EXCEPT ![c] = n]
<1>1. inCart \in [AllCarts -> Nat] /\ IsFiniteSet(Units(inCart))
  BY DEF CartsBounded
<1>2. /\ new \in [AllCarts -> Nat] /\ new[c] = n
      /\ \A d \in AllCarts \ {c} : inCart[d] = new[d]
      /\ inCart' = new
  BY <1>1
<1> HIDE DEF new
<1>3. IsFiniteSet(Units(new)) /\ Total(new) = Total(inCart) - inCart[c] + new[c]
  BY <1>1, <1>2, TotalChanges
<1>4. Total(inCart) \in Nat /\ inCart[c] <= Total(inCart)
  BY <1>1, TotalType, TotalCovers
<1> QED BY <1>1, <1>2, <1>3, <1>4 DEF UnitsInCarts

\* A merge moves the units of one cart to another.
LEMMA MergeKeepsUnits ==
  ASSUME CartsBounded, NEW guest \in AllCarts, NEW user \in AllCarts, guest # user
  PROVE  /\ Merged(guest, user) \in [AllCarts -> Nat]
         /\ IsFiniteSet(Units(Merged(guest, user)))
         /\ Total(Merged(guest, user)) = UnitsInCarts
<1> DEFINE more == [inCart EXCEPT ![user] = @ + inCart[guest]]
           new == Merged(guest, user)
<1>1. inCart \in [AllCarts -> Nat] /\ IsFiniteSet(Units(inCart))
  BY DEF CartsBounded
<1>2. /\ more \in [AllCarts -> Nat] /\ more[user] = inCart[user] + inCart[guest]
      /\ \A d \in AllCarts \ {user} : inCart[d] = more[d]
  BY <1>1
<1>3. /\ new \in [AllCarts -> Nat] /\ new[guest] = 0
      /\ \A d \in AllCarts \ {guest} : more[d] = new[d]
      /\ more[guest] = inCart[guest]
  BY <1>1 DEF Merged
<1> HIDE DEF more, new
<1>4. IsFiniteSet(Units(more)) /\ Total(more) = Total(inCart) - inCart[user] + more[user]
  BY <1>1, <1>2, TotalChanges
<1>5. IsFiniteSet(Units(new)) /\ Total(new) = Total(more) - more[guest] + new[guest]
  BY <1>2, <1>3, <1>4, TotalChanges
<1>6. Total(inCart) \in Nat /\ inCart[user] \in Nat /\ inCart[guest] \in Nat
  BY <1>1, TotalType
<1>7. Total(new) = Total(inCart)
  BY <1>2, <1>3, <1>4, <1>5, <1>6
<1> QED BY <1>3, <1>5, <1>7 DEF new, UnitsInCarts

\* A step keeps the carts within their bound, and only Create takes a unit
\* out of them.
LEMMA CartsStep ==
  ASSUME CheckoutInv, CheckoutNext
  PROVE  /\ CartsBounded'
         /\ \/ UnitsInCarts' >= UnitsInCarts
            \/ \E r \in Checkouts :
                  /\ checkout[r].at = "create" /\ checkout'[r].at = "commit"
                  /\ UnitsInCarts' = UnitsInCarts - inCart[checkout[r].cart]
<1>0. CartsBounded /\ UnitLimit \in Nat /\ UnitsInCarts \in Nat
  BY CheckoutAssumption, TotalType DEF CheckoutInv, CartsBounded, UnitsInCarts
<1>1. CASE UNCHANGED inCart
  BY <1>0, <1>1 DEF CartsBounded, UnitsInCarts
<1>2. ASSUME NEW c \in AllCarts, AddItem(c)
      PROVE  CartsBounded' /\ UnitsInCarts' >= UnitsInCarts
  <2>1. inCart[c] + 1 \in Nat /\ inCart' = [inCart EXCEPT ![c] = inCart[c] + 1]
    BY <1>0, <1>2 DEF AddItem, CartsBounded
  <2>2. /\ inCart' \in [AllCarts -> Nat] /\ IsFiniteSet(Units(inCart'))
        /\ UnitsInCarts' = UnitsInCarts - inCart[c] + (inCart[c] + 1)
        /\ inCart[c] \in Nat
    BY <1>0, <2>1, OneCartChanges
  <2>3. UnitsInCarts' = UnitsInCarts + 1 /\ UnitsInCarts < UnitLimit
    BY <1>0, <1>2, <2>2 DEF AddItem
  <2> QED BY <1>0, <2>2, <2>3 DEF CartsBounded
<1>3. ASSUME NEW r \in Checkouts, NEW guest \in GuestCarts, NEW user \in Carts,
             BeginCheckout(r, guest, user)
      PROVE  CartsBounded' /\ UnitsInCarts' >= UnitsInCarts
  <2>1. /\ inCart' = Merged(guest, user)
        /\ guest \in AllCarts /\ user \in AllCarts /\ guest # user
    BY <1>3 DEF BeginCheckout, AllCarts
  <2>2. /\ inCart' \in [AllCarts -> Nat] /\ IsFiniteSet(Units(inCart'))
        /\ UnitsInCarts' = UnitsInCarts
    BY <1>0, <2>1, MergeKeepsUnits DEF UnitsInCarts
  <2> QED BY <1>0, <2>2 DEF CartsBounded
<1>4. ASSUME NEW r \in Checkouts, Create(r)
      PROVE  /\ CartsBounded' /\ checkout[r].at = "create" /\ checkout'[r].at = "commit"
             /\ UnitsInCarts' = UnitsInCarts - inCart[checkout[r].cart]
  <2>1. checkout[r].cart \in AllCarts /\ inCart' = [inCart EXCEPT ![checkout[r].cart] = 0]
    BY <1>4 DEF Create, CheckoutInv, CheckoutTypeOK, WellStaged, AllCarts
  <2>2. /\ inCart' \in [AllCarts -> Nat] /\ IsFiniteSet(Units(inCart'))
        /\ UnitsInCarts' = UnitsInCarts - inCart[checkout[r].cart] + 0
        /\ inCart[checkout[r].cart] \in Nat
    BY <1>0, <2>1, OneCartChanges
  <2>3. checkout[r].at = "create" /\ checkout'[r].at = "commit"
    BY <1>4 DEF Create, CheckoutInv, Call
  <2>4. UnitsInCarts' <= UnitLimit
    BY <1>0, <2>2 DEF CartsBounded
  <2>5. UnitsInCarts' = UnitsInCarts - inCart[checkout[r].cart]
    BY <1>0, <2>2
  <2> QED BY <2>2, <2>3, <2>4, <2>5 DEF CartsBounded
<1> QED BY <1>0, <1>1, <1>2, <1>3, <1>4
        DEF CheckoutNext, InventoryStep, checkoutVars, ReadRows, ExtendStarts,
            ExtendReturns, ExtendEnds, PoolTimeout, CommitOrder, Timeout, CheckoutFails,
            ExtendFails

\* A checkout only does to the inventory what a request of it may do.
LEMMA CheckoutIsInventory ==
  ASSUME CheckoutInv, [CheckoutNext]_allCheckoutVars
  PROVE  Next \/ UNCHANGED vars
<1>1. Checkouts \subseteq Sessions /\ Sessions \subseteq Procs
  BY CheckoutAssumption DEF Procs
<1>2. ASSUME NEW r \in Checkouts, ExtendStarts(r) PROVE Next
  <2>1. PICK id \in checkout[r].todo :
           ExtendRead(r, reservation[id].product, checkout[r].cart)
    BY <1>2 DEF ExtendStarts
  <2>2. reservation[id].product \in Products /\ checkout[r].cart \in Carts
    <3>1. TypeOK /\ CallProgress(r) /\ WellStaged(r)
      BY DEF CheckoutInv, CheckoutTypeOK
    <3>2. id \in Created
      BY <3>1 DEF CallProgress, RowsOfCart, Created
    <3> QED BY <1>2, <3>1, <3>2, CreatedRow DEF ExtendStarts, WellStaged
  <2> QED BY <1>1, <2>1, <2>2 DEF Next
<1>3. ASSUME NEW r \in Checkouts, ExtendEnds(r) PROVE Next
  BY <1>1, <1>3 DEF ExtendEnds, Next
<1>4. ASSUME NEW r \in Checkouts, ExtendFails(r) PROVE Next
  BY <1>1, <1>4 DEF ExtendFails, Next
<1> QED BY <1>2, <1>3, <1>4
        DEF CheckoutNext, InventoryStep, allCheckoutVars, checkoutVars, AddItem,
            BeginCheckout, ReadRows, ExtendReturns, PoolTimeout, Create, CommitOrder,
            Timeout, CheckoutFails

\* The rows of a cart stay so, and settled ones stay settled.
LEMMA CallStays ==
  ASSUME IInv, Next \/ UNCHANGED vars,
         NEW r \in Checkouts, CallProgress(r), WellStaged(r),
         checkout'[r] = checkout[r], tx'[r] = tx[r]
  PROVE  CallProgress(r)' /\ WellStaged(r)'
<1>1. WellStaged(r)'
  BY DEF WellStaged
<1>2. TypeOK
  BY DEF IInv
<1>3. RowsOfCart(checkout[r].cart) \subseteq Created
  BY DEF RowsOfCart, Created
<1>4. \A id \in Created : reservation'[id] = reservation[id]
  BY <1>2, RowsKept DEF vars
<1>5. RowsOfCart(checkout[r].cart) \subseteq RowsOfCart(checkout[r].cart)'
  BY <1>3, <1>4 DEF RowsOfCart
<1>6. ASSUME NEW id \in checkout[r].rows \ checkout[r].todo
      PROVE  (Settled(id) \/ (checkout[r].at = "update" /\ tx[r].rows = {id}))'
  <2>1. Settled(id) \/ (checkout[r].at = "update" /\ tx[r].rows = {id})
    BY DEF CallProgress
  <2>2. id \in Created
    BY <1>3 DEF CallProgress
  <2> QED BY <2>1, <2>2, SettledStays
<1> QED BY <1>1, <1>5, <1>6 DEF CallProgress

\* The rows an extension may find for a row of a call's cart: the row itself
\* or a twin of it.
LEMMA FoundRow ==
  ASSUME TypeOK, NEW c, NEW id \in RowsOfCart(c),
         NEW first \in Matching(reservation[id].product, c)
  PROVE  first = id \/ HasTwin(id)
BY DEF Matching, HasTwin, RowsOfCart, TypeOK

\* An attempt to extend a row that finds nothing to do leaves it settled.
LEMMA NothingToExtend ==
  ASSUME IInv, NEW c, NEW id \in RowsOfCart(c),
         LET found == Matching(reservation[id].product, c)
         IN  found = {} \/ \E first \in found : AlreadyExtended(first)
  PROVE  Settled(id)
<1> SUFFICES ASSUME id \in live, ~HasTwin(id)
             PROVE  expiration[id] = reservation[id].createdAt + Extension
  BY DEF Settled
<1>1. id \in Matching(reservation[id].product, c)
  BY DEF Matching, RowsOfCart
<1>2. AlreadyExtended(id)
  BY <1>1, FoundRow DEF IInv
<1>3. reservation[id].createdAt \in Nat
  BY ReservationFields DEF RowsOfCart, IInv, TypeOK
<1> QED BY <1>2, <1>3, LifetimeAssumption DEF AlreadyExtended, IInv, Deadlines

\* What a step of call r has to show: its own progress, and that it leaves the
\* other calls and their transactions alone.
OwnStep(r) ==
    /\ checkout'[r] \in Call
    /\ \A y \in Checkouts \ {r} : checkout'[y] = checkout[y] /\ tx'[y] = tx[y]
    /\ DOMAIN checkout' = Checkouts
    /\ checkout' = [y \in Checkouts |-> checkout'[y]]
    /\ CallProgress(r)'
    /\ WellStaged(r)'

\* A call returns or throws, its extension being over.
LEMMA ReturnStep ==
  ASSUME CheckoutInv, NEW r \in Checkouts, Return(r), tx'[r].op # "extend",
         \A y \in Checkouts \ {r} : tx'[y] = tx[y]
  PROVE  OwnStep(r)
<1>1. /\ checkout'[r] = NoCheckout
      /\ \A y \in Checkouts \ {r} : checkout'[y] = checkout[y]
      /\ checkout' = [y \in Checkouts |-> checkout'[y]]
  BY DEF Return, CheckoutInv
<1>2. NoCheckout \in Call
  BY DEF NoCheckout, Call, Stages
<1>3. CallProgress(r)'
  BY <1>1 DEF CallProgress, NoCheckout
<1>4. WellStaged(r)'
  BY <1>1 DEF WellStaged, NoCheckout, Stages
<1> QED BY <1>1, <1>2, <1>3, <1>4 DEF OwnStep

\* The price is read after an extension: the rest of the rows is still to be
\* done, the other rows are settled.
LEMMA PriceReadStep ==
  ASSUME CheckoutInv, TypeOK, Next \/ UNCHANGED vars, NEW r \in Checkouts,
         NEW todo \in SUBSET checkout[r].todo, PriceRead(r, todo),
         checkout[r].at \in {"extend", "update"},
         tx'[r].op # "extend", \A y \in Checkouts \ {r} : tx'[y] = tx[y],
         \A id \in checkout[r].rows \ todo : Settled(id)'
  PROVE  OwnStep(r)
<1>1. CASE ~checkout[r].open
  BY <1>1, ReturnStep DEF PriceRead
<1>2. CASE checkout[r].open
  <2>1. checkout[r] \in Call /\ CallProgress(r) /\ WellStaged(r)
    BY DEF CheckoutInv, CheckoutTypeOK
  <2>2. /\ checkout'[r] = [checkout[r] EXCEPT !.todo = todo, !.at = NextRow(todo)]
        /\ \A y \in Checkouts \ {r} : checkout'[y] = checkout[y]
        /\ checkout' = [y \in Checkouts |-> checkout'[y]]
    BY <1>2 DEF PriceRead, CheckoutInv
  <2>3. NextRow(todo) \in {"create", "extend"} /\ (NextRow(todo) = "create" => todo = {})
    BY DEF NextRow
  <2>4. /\ checkout'[r].todo = todo /\ checkout'[r].at = NextRow(todo)
        /\ checkout'[r].rows = checkout[r].rows /\ checkout'[r].cart = checkout[r].cart
        /\ checkout'[r].open
    BY <1>2, <2>1, <2>2 DEF Call
  <2>5. checkout'[r] \in Call
    BY <2>1, <2>2, <2>3 DEF Call, Stages
  <2>6. RowsOfCart(checkout[r].cart) \subseteq RowsOfCart(checkout[r].cart)'
    BY <2>4, RowsKept DEF vars, RowsOfCart, Created
  <2>7. CallProgress(r)'
    BY <2>1, <2>3, <2>4, <2>6 DEF CallProgress
  <2>8. WellStaged(r)'
    BY <1>2, <2>1, <2>3, <2>4 DEF WellStaged, Stages
  <2> QED BY <2>2, <2>5, <2>7, <2>8 DEF OwnStep
<1> QED BY <1>1, <1>2

LEMMA BeginStep ==
  ASSUME CheckoutInv, NEW r \in Checkouts, NEW guest \in GuestCarts, NEW user \in Carts,
         BeginCheckout(r, guest, user)
  PROVE  OwnStep(r)
<1>1. /\ checkout'[r] = [at |-> "read", cart |-> user, open |-> TRUE, rows |-> {},
                        todo |-> {}]
      /\ \A y \in Checkouts \ {r} : checkout'[y] = checkout[y]
      /\ checkout' = [y \in Checkouts |-> checkout'[y]]
      /\ tx' = tx /\ checkout[r].at = "idle"
  BY DEF BeginCheckout, CheckoutInv, vars
<1>2. checkout'[r] \in Call
  BY <1>1 DEF Call, Stages
<1>3. CallProgress(r)'
  BY <1>1 DEF CallProgress
<1>4. tx[r].op # "extend"
  BY <1>1 DEF CheckoutInv, CheckoutTypeOK, WellStaged
<1>5. WellStaged(r)'
  BY <1>1, <1>4 DEF WellStaged, Stages
<1> QED BY <1>1, <1>2, <1>3, <1>5 DEF OwnStep

LEMMA ReadRowsStep ==
  ASSUME CheckoutInv, TypeOK, NEW r \in Checkouts, ReadRows(r)
  PROVE  OwnStep(r)
<1> DEFINE found == {id \in live : reservation[id].cart = checkout[r].cart}
<1>0. /\ checkout[r] \in Call /\ checkout[r].at = "read"
      /\ CallProgress(r) /\ WellStaged(r)
  BY DEF CheckoutInv, CheckoutTypeOK, ReadRows
<1>1. /\ checkout'[r] = [checkout[r] EXCEPT !.rows = found, !.todo = found,
                                           !.at = NextRow(found)]
      /\ \A y \in Checkouts \ {r} : checkout'[y] = checkout[y]
      /\ checkout' = [y \in Checkouts |-> checkout'[y]]
      /\ UNCHANGED vars
  BY DEF ReadRows, CheckoutInv
<1>2. found \subseteq RowsOfCart(checkout[r].cart) /\ found \in SUBSET Ids
  BY DEF RowsOfCart, TypeOK
<1> HIDE DEF found
<1>3. /\ checkout'[r].rows = found /\ checkout'[r].todo = found
      /\ checkout'[r].at = NextRow(found) /\ checkout'[r].cart = checkout[r].cart
      /\ checkout'[r].open = checkout[r].open
  BY <1>0, <1>1 DEF Call
<1>4. NextRow(found) \in {"create", "extend"} /\ (NextRow(found) = "create" => found = {})
  BY DEF NextRow
<1>5. checkout'[r] \in Call
  BY <1>0, <1>1, <1>2, <1>4 DEF Call, Stages
<1>6. CallProgress(r)'
  BY <1>1, <1>2, <1>3, <1>4 DEF CallProgress, RowsOfCart, vars
<1>7. WellStaged(r)'
  BY <1>0, <1>1, <1>3, <1>4 DEF WellStaged, Stages, vars
<1> QED BY <1>1, <1>5, <1>6, <1>7 DEF OwnStep, vars

LEMMA ExtendStartsStep ==
  ASSUME CheckoutInv, TypeOK, NEW r \in Checkouts, ExtendStarts(r)
  PROVE  OwnStep(r)
<1>0. /\ checkout[r] \in Call /\ checkout[r].at = "extend"
      /\ CallProgress(r) /\ WellStaged(r)
  BY DEF CheckoutInv, CheckoutTypeOK, ExtendStarts
<1>1. PICK id \in checkout[r].todo :
         /\ ExtendRead(r, reservation[id].product, checkout[r].cart)
         /\ checkout' = [checkout EXCEPT ![r].todo = @ \ {id}, ![r].at = "update"]
  BY DEF ExtendStarts
<1>2. PICK first \in Matching(reservation[id].product, checkout[r].cart) :
         tx' = [tx EXCEPT ![r] = [op |-> "extend", rows |-> {first},
                                  todo |-> {}, at |-> None]]
  BY <1>1 DEF ExtendRead
<1>3. UNCHANGED <<reservation, live, expiration>>
  BY <1>1 DEF ExtendRead
<1>4. /\ checkout'[r] = [checkout[r] EXCEPT !.todo = checkout[r].todo \ {id},
                                           !.at = "update"]
      /\ \A y \in Checkouts \ {r} : checkout'[y] = checkout[y]
      /\ checkout' = [y \in Checkouts |-> checkout'[y]]
  BY <1>1 DEF CheckoutInv
<1>5. /\ checkout'[r].rows = checkout[r].rows
      /\ checkout'[r].todo = checkout[r].todo \ {id}
      /\ checkout'[r].at = "update" /\ checkout'[r].cart = checkout[r].cart
      /\ checkout'[r].open = checkout[r].open
  BY <1>0, <1>4 DEF Call
<1>6. r \in Procs /\ tx \in [Procs -> Transaction]
  BY CheckoutAssumption DEF TypeOK, Procs
<1>7. /\ tx'[r] = [op |-> "extend", rows |-> {first}, todo |-> {}, at |-> None]
      /\ \A y \in Checkouts \ {r} : tx'[y] = tx[y]
  BY <1>2, <1>6, CheckoutAssumption DEF Procs
<1>8. checkout'[r] \in Call
  BY <1>0, <1>4 DEF Call, Stages
<1>9. first = id \/ HasTwin(id)
  BY <1>0, FoundRow DEF CallProgress
<1>10. CallProgress(r)'
  <2>1. ASSUME NEW i \in checkout[r].rows \ (checkout[r].todo \ {id})
        PROVE  (Settled(i) \/ (checkout[r].at = "update" /\ tx[r].rows = {i}))'
    <3>1. CASE i = id
      BY <1>3, <1>5, <1>7, <1>9, <3>1 DEF Settled, HasTwin
    <3>2. CASE i # id
      <4>1. Settled(i)
        BY <1>0, <3>2 DEF CallProgress
      <4> QED BY <1>3, <4>1 DEF Settled, HasTwin
    <3> QED BY <3>1, <3>2
  <2> QED BY <1>0, <1>3, <1>5, <2>1 DEF CallProgress, RowsOfCart
<1>11. WellStaged(r)'
  BY <1>0, <1>5, <1>7 DEF WellStaged, Stages
<1> QED BY <1>4, <1>7, <1>8, <1>10, <1>11 DEF OwnStep

LEMMA ExtendReturnsStep ==
  ASSUME IInv, CheckoutInv, NEW r \in Checkouts, ExtendReturns(r)
  PROVE  OwnStep(r)
<1>0. checkout[r].at = "extend" /\ UNCHANGED vars
  BY DEF ExtendReturns
<1>1. CallProgress(r) /\ WellStaged(r) /\ TypeOK
  BY DEF CheckoutInv, CheckoutTypeOK
<1>2. PICK id \in checkout[r].todo :
         LET found == Matching(reservation[id].product, checkout[r].cart) IN
         /\ found = {} \/ \E first \in found : AlreadyExtended(first)
         /\ PriceRead(r, checkout[r].todo \ {id})
  BY DEF ExtendReturns
<1>3. id \in RowsOfCart(checkout[r].cart)
  BY <1>1 DEF CallProgress
<1>4. Settled(id)
  BY <1>2, <1>3, NothingToExtend
<1>5. \A i \in checkout[r].rows \ (checkout[r].todo \ {id}) : Settled(i)
  BY <1>0, <1>1, <1>4 DEF CallProgress
<1>6. \A i \in checkout[r].rows \ (checkout[r].todo \ {id}) : Settled(i)'
  BY <1>0, <1>5 DEF vars, Settled, HasTwin
<1>7. tx'[r].op # "extend" /\ \A y \in Checkouts \ {r} : tx'[y] = tx[y]
  BY <1>0, <1>1 DEF vars, WellStaged
<1>8. checkout[r].todo \ {id} \in SUBSET checkout[r].todo
  OBVIOUS
<1> QED BY <1>0, <1>1, <1>2, <1>6, <1>7, <1>8, PriceReadStep

\* The transactions of the other calls when one is closed.
LEMMA ClosedStep ==
  ASSUME TypeOK, NEW r \in Checkouts, Close(r)
  PROVE  tx'[r].op # "extend" /\ \A y \in Checkouts \ {r} : tx'[y] = tx[y]
BY CheckoutAssumption DEF TypeOK, Procs, Close, Idle

LEMMA ExtendEndsStep ==
  ASSUME IInv, CheckoutInv, NEW r \in Checkouts, ExtendEnds(r)
  PROVE  OwnStep(r)
<1>0. /\ checkout[r].at = "update" /\ ExtendUpdate(r) /\ Next
      /\ CallProgress(r) /\ WellStaged(r) /\ TypeOK /\ r \in Procs
  BY CheckoutAssumption DEF ExtendEnds, CheckoutInv, CheckoutTypeOK, Next, Procs
<1>1. tx'[r].op # "extend" /\ \A y \in Checkouts \ {r} : tx'[y] = tx[y]
  BY <1>0, ClosedStep DEF ExtendUpdate, Commit, Rollback
<1>2. CASE ~(tx[r].rows \subseteq live)
  BY <1>1, <1>2, ReturnStep DEF ExtendEnds
<1>3. CASE tx[r].rows \subseteq live
  <2>1. /\ PriceRead(r, checkout[r].todo)
        /\ expiration' = [i \in Ids |-> IF i \in tx[r].rows
                                        THEN reservation[i].createdAt + Extension
                                        ELSE expiration[i]]
        /\ UNCHANGED reservation
    BY <1>0, <1>3 DEF ExtendEnds, ExtendUpdate
  <2>2. ASSUME NEW i \in checkout[r].rows \ checkout[r].todo
        PROVE  Settled(i)'
    <3>1. i \in Created
      BY <1>0 DEF CallProgress, RowsOfCart, Created
    <3>2. CASE Settled(i)
      BY <1>0, <3>1, <3>2, SettledStays
    <3>3. CASE tx[r].rows = {i}
      BY <2>1, <3>1, <3>3 DEF Settled, Created
    <3> QED BY <1>0, <3>2, <3>3 DEF CallProgress
  <2> QED BY <1>0, <1>1, <2>1, <2>2, PriceReadStep
<1> QED BY <1>2, <1>3

LEMMA OtherSteps ==
  ASSUME CheckoutInv, NEW r \in Checkouts,
         \/ PoolTimeout(r) \/ CommitOrder(r) \/ CheckoutFails(r) \/ ExtendFails(r)
  PROVE  OwnStep(r)
<1>0. WellStaged(r) /\ TypeOK
  BY DEF CheckoutInv, CheckoutTypeOK
<1>1. Return(r)
  BY DEF PoolTimeout, CommitOrder, CheckoutFails, ExtendFails
<1>2. CASE ExtendFails(r)
  BY <1>0, <1>1, <1>2, ClosedStep, ReturnStep DEF ExtendFails, Fail, Rollback
<1>3. CASE UNCHANGED tx /\ checkout[r].at # "update"
  BY <1>0, <1>1, <1>3, ReturnStep DEF WellStaged
<1> QED BY <1>2, <1>3 DEF PoolTimeout, CommitOrder, CheckoutFails, vars

LEMMA CreateStep ==
  ASSUME CheckoutInv, NEW r \in Checkouts, Create(r)
  PROVE  OwnStep(r)
<1>0. /\ checkout[r] \in Call /\ checkout[r].at = "create"
      /\ CallProgress(r) /\ WellStaged(r)
  BY DEF CheckoutInv, CheckoutTypeOK, Create
<1>1. /\ checkout'[r] = [checkout[r] EXCEPT !.at = "commit"]
      /\ \A y \in Checkouts \ {r} : checkout'[y] = checkout[y]
      /\ checkout' = [y \in Checkouts |-> checkout'[y]]
      /\ UNCHANGED <<reservation, live, expiration, tx>>
  BY DEF Create, CheckoutInv, vars
<1>2. checkout'[r] \in Call
  BY <1>0, <1>1 DEF Call, Stages
<1>3. /\ checkout'[r].rows = checkout[r].rows /\ checkout'[r].todo = checkout[r].todo
      /\ checkout'[r].at = "commit" /\ checkout'[r].cart = checkout[r].cart
      /\ checkout'[r].open = checkout[r].open
  BY <1>0, <1>1 DEF Call
<1>4. CallProgress(r)'
  BY <1>0, <1>1, <1>3 DEF CallProgress, RowsOfCart, Settled, HasTwin
<1>5. WellStaged(r)'
  BY <1>0, <1>1, <1>3 DEF WellStaged, Stages
<1> QED BY <1>1, <1>2, <1>4, <1>5 DEF OwnStep

LEMMA TimeoutStep ==
  ASSUME CheckoutInv, NEW r \in Checkouts, Timeout(r)
  PROVE  OwnStep(r)
<1>0. /\ checkout[r] \in Call /\ CallProgress(r) /\ WellStaged(r)
      /\ checkout[r].at \in {"extend", "update"}
  BY DEF CheckoutInv, CheckoutTypeOK, Timeout
<1>1. /\ checkout'[r] = [checkout[r] EXCEPT !.open = FALSE, !.rows = {}]
      /\ \A y \in Checkouts \ {r} : checkout'[y] = checkout[y]
      /\ checkout' = [y \in Checkouts |-> checkout'[y]]
      /\ UNCHANGED <<reservation, live, expiration, tx>>
  BY DEF Timeout, CheckoutInv, vars
<1>2. checkout'[r] \in Call
  BY <1>0, <1>1 DEF Call, Stages
<1>3. /\ checkout'[r].rows = {} /\ checkout'[r].todo = checkout[r].todo
      /\ checkout'[r].at = checkout[r].at /\ checkout'[r].cart = checkout[r].cart
      /\ checkout'[r].open = FALSE
  BY <1>0, <1>1 DEF Call
<1>4. CallProgress(r)'
  BY <1>0, <1>1, <1>3 DEF CallProgress, RowsOfCart
<1>5. WellStaged(r)'
  BY <1>0, <1>1, <1>3 DEF WellStaged, Stages
<1> QED BY <1>1, <1>2, <1>4, <1>5 DEF OwnStep

LEMMA InitCheckout == CheckoutInit => CheckoutInv
<1> SUFFICES ASSUME CheckoutInit PROVE CheckoutInv
  OBVIOUS
<1>0. TypeOK /\ Init
  BY InitIInv DEF CheckoutInit, IInv
<1>1. CartsBounded /\ inCart \in [AllCarts -> 0..UnitLimit]
  <2>1. inCart \in [AllCarts -> Nat] /\ \A c \in AllCarts : inCart[c] = 0
    BY DEF CheckoutInit
  <2>2. IsFiniteSet(Units(inCart)) /\ Total(inCart) = 0
    BY <2>1, TotalOfNothing
  <2> QED BY <2>1, <2>2, CheckoutAssumption
             DEF CartsBounded, UnitsInCarts, CheckoutInit
<1>2. checkout \in [Checkouts -> Call]
  BY DEF CheckoutInit, NoCheckout, Call, Stages
<1>3. \A r \in Checkouts : CallProgress(r)
  BY DEF CheckoutInit, NoCheckout, CallProgress
<1>4. \A r \in Checkouts : WellStaged(r)
  BY <1>0, CheckoutAssumption
     DEF CheckoutInit, NoCheckout, WellStaged, Stages, Init, Idle, Procs
<1>5. ordered = {}
  BY DEF CheckoutInit
<1> QED BY <1>0, <1>1, <1>2, <1>3, <1>4, <1>5 DEF CheckoutInv, CheckoutTypeOK

\* Every step of a checkout, and of anyone else, preserves the invariant.
LEMMA NextCheckout ==
  IInv /\ CheckoutInv /\ [CheckoutNext]_allCheckoutVars => CheckoutInv'
<1> SUFFICES ASSUME IInv, CheckoutInv, [CheckoutNext]_allCheckoutVars
             PROVE  CheckoutInv'
  OBVIOUS
<1>0. (Next \/ UNCHANGED vars) /\ TypeOK
  BY CheckoutIsInventory DEF IInv
<1>1. TypeOK'
  BY <1>0, NextIInv DEF IInv
<1>2. \A r \in Checkouts : CallProgress(r) /\ WellStaged(r)
  BY DEF CheckoutInv, CheckoutTypeOK
<1>3. CartsBounded' /\ (inCart \in [AllCarts -> 0..UnitLimit])'
  <2>1. CartsBounded'
    <3>1. CASE CheckoutNext
      BY <3>1, CartsStep
    <3>2. CASE UNCHANGED allCheckoutVars
      BY <3>2 DEF allCheckoutVars, checkoutVars, CheckoutInv, CartsBounded,
         UnitsInCarts
    <3> QED BY <3>1, <3>2
  <2> DEFINE new == inCart'
  <2>3. /\ new \in [AllCarts -> Nat] /\ IsFiniteSet(Units(new))
        /\ Total(new) <= UnitLimit
    BY <2>1 DEF CartsBounded, UnitsInCarts
  <2> HIDE DEF new
  <2>4. \A c \in AllCarts : new[c] \in Nat /\ new[c] <= Total(new)
    BY <2>3, TotalCovers
  <2>5. Total(new) \in Nat
    BY <2>3, TotalType
  <2>6. new \in [AllCarts -> 0..UnitLimit]
    BY <2>3, <2>4, <2>5, CheckoutAssumption
  <2> QED BY <2>1, <2>6 DEF new
<1>4. /\ checkout' \in [Checkouts -> Call]
      /\ \A r \in Checkouts : CallProgress(r)' /\ WellStaged(r)'
  <2>1. CASE /\ checkout' = checkout
             /\ \A r \in Checkouts : tx'[r] = tx[r]
    BY <1>0, <1>2, <2>1, CallStays DEF CheckoutInv
  <2>2. ASSUME NEW r \in Checkouts, OwnStep(r)
        PROVE  /\ checkout' \in [Checkouts -> Call]
               /\ \A y \in Checkouts : CallProgress(y)' /\ WellStaged(y)'
    <3>1. \A y \in Checkouts \ {r} : CallProgress(y)' /\ WellStaged(y)'
      BY <1>0, <1>2, <2>2, CallStays DEF OwnStep
    <3>2. \A y \in Checkouts : checkout'[y] \in Call
      BY <2>2 DEF OwnStep, CheckoutInv
    <3>3. checkout' \in [Checkouts -> Call]
      BY <2>2, <3>2 DEF OwnStep
    <3> QED BY <2>2, <3>1, <3>3 DEF OwnStep
  <2>3. CASE UNCHANGED allCheckoutVars
    BY <2>1, <2>3 DEF allCheckoutVars, checkoutVars, vars
  <2>4. CASE InventoryStep \/ \E c \in AllCarts : AddItem(c)
    BY <2>1, <2>4 DEF InventoryStep, AddItem, checkoutVars, vars
  <2> QED BY <1>0, <2>2, <2>3, <2>4, BeginStep, ReadRowsStep, ExtendStartsStep,
             ExtendReturnsStep, ExtendEndsStep, OtherSteps, CreateStep, TimeoutStep
          DEF CheckoutNext
<1>5. \A id \in ordered' : id \in Ids /\ reservation'[id] # None /\ Settled(id)'
  <2> SUFFICES ASSUME NEW id \in ordered'
               PROVE  id \in Ids /\ reservation'[id] # None /\ Settled(id)'
    OBVIOUS
  <2>1. id \in Created /\ Settled(id)
    <3>1. CASE id \in ordered
      BY <3>1 DEF CheckoutInv, CheckoutTypeOK, Created
    <3>2. ASSUME NEW r \in Checkouts, CommitOrder(r), id \in checkout[r].rows
          PROVE  id \in Created /\ Settled(id)
      BY <1>2, <3>2 DEF CommitOrder, CallProgress, RowsOfCart, Created
    <3> QED BY <3>1, <3>2
            DEF CheckoutNext, InventoryStep, checkoutVars, allCheckoutVars, AddItem,
                BeginCheckout, ReadRows, ExtendStarts, ExtendReturns, ExtendEnds,
                PoolTimeout, Create, CommitOrder, Timeout, CheckoutFails, ExtendFails
  <2>2. reservation'[id] = reservation[id]
    BY <1>0, <2>1, RowsKept DEF vars
  <2> QED BY <1>0, <2>1, <2>2, SettledStays DEF Created
<1> QED BY <1>1, <1>3, <1>4, <1>5 DEF CheckoutInv, CheckoutTypeOK

\* The inventory service under checkouts is the inventory service: whatever
\* is proved of it holds beside them.
THEOREM CheckoutKeepsInventory == CheckoutSpec => Spec /\ [](IInv /\ CheckoutInv)
<1>1. CheckoutInit => Init /\ IInv /\ CheckoutInv
  BY InitIInv, InitCheckout DEF CheckoutInit
<1>2. IInv /\ CheckoutInv /\ [CheckoutNext]_allCheckoutVars
        => [Next]_vars /\ IInv' /\ CheckoutInv'
  BY CheckoutIsInventory, NextIInv, NextCheckout
<1> QED BY <1>1, <1>2, PTL DEF CheckoutSpec, Spec

\* What the inventory service promises, kept beside any number of checkouts
\* that merge carts, time out, fail and give their connections back: units are
\* conserved, no item is sold twice, a hold ends early only on request, and a
\* deadline moves once.
THEOREM SafeBesideCheckouts ==
  CheckoutSpec => /\ [](UnitsConserved /\ NeverOversold /\ NothingStranded)
                  /\ HoldHonoured /\ ExtendedOnce
BY CheckoutKeepsInventory, StockIsConserved, NoUnitSoldTwice, NoUnitStranded,
   EarlyEndIsRequested, ExtensionIsIdempotent, PTL

\* Type correctness of the calls of initiateCheckout and of the carts.
THEOREM CheckoutTypeCorrect == CheckoutSpec => []CheckoutTypeOK
<1>1. CheckoutInv => CheckoutTypeOK
  BY DEF CheckoutInv
<1> QED BY <1>1, CheckoutKeepsInventory, PTL

\* Every reservation an order was made from has the extended deadline while it
\* is in the table, whatever was released, expired or extended meanwhile
\* (checkout.controller.ts:25-27); a second reservation of the same product
\* for the same cart is the exception.
THEOREM OrdersAreExtended == CheckoutSpec => []OrderedIsExtended
<1>1. CheckoutInv => OrderedIsExtended
  BY DEF CheckoutInv, OrderedIsExtended, Settled
<1> QED BY <1>1, CheckoutKeepsInventory, PTL

\* For any number of carts and checkouts, no step but the insert of an order
\* takes a unit out of the carts, and that one takes the units of its own cart
\* (checkout.controller.ts:13-16 and 62-84).
THEOREM ItemsLeaveOnlyWithOrder == CheckoutSpec => ItemsLeaveWithOrder
<1> DEFINE Kept == \/ UnitsInCarts' >= UnitsInCarts
                   \/ \E r \in Checkouts :
                         /\ checkout[r].at = "create" /\ checkout'[r].at = "commit"
                         /\ UnitsInCarts' = UnitsInCarts - inCart[checkout[r].cart]
<1>1. CheckoutInv /\ [CheckoutNext]_allCheckoutVars => [Kept]_allCheckoutVars
  BY CartsStep
<1> QED BY <1>1, CheckoutKeepsInventory, PTL
           DEF CheckoutSpec, ItemsLeaveWithOrder

-----------------------------------------------------------------------------
(* OrderPlacement: createOrder beside the transactions.                    *)

\* What a step does to the committed value of an item.
ItemKept(p) ==
    /\ CommittedAvailable'[p] + CommittedReserved'[p]
         = CommittedAvailable[p] + CommittedReserved[p]
    /\ CommittedAvailable'[p] >= CommittedAvailable[p] \/ CommittedAvailable'[p] >= 0
    /\ CommittedAvailable'[p] \in Int /\ CommittedReserved'[p] \in Int

LEMMA CommittedType ==
  ASSUME TypeOK, NEW p \in Products
  PROVE  CommittedAvailable[p] \in Int /\ CommittedReserved[p] \in Int
BY DEF TypeOK, CommittedAvailable, CommittedReserved, Row

LEMMA ItemUnchanged ==
  ASSUME TypeOK, UNCHANGED <<available, reserved, lock, before>>, NEW p \in Products
  PROVE  ItemKept(p)
<1>1. /\ CommittedAvailable'[p] = CommittedAvailable[p]
      /\ CommittedReserved'[p] = CommittedReserved[p]
  BY DEF CommittedAvailable, CommittedReserved
<1> QED BY <1>1, CommittedType DEF ItemKept

\* reserveStock takes what is there.
LEMMA ReserveItems ==
  ASSUME TypeOK, TransactionsProgress,
         NEW p \in Products, NEW c \in Carts, NEW q \in Quantities, NEW id \in Ids,
         reserveStock(p, c, q, id)
  PROVE  TypeOK' /\ TransactionsProgress' /\ \A y \in Products : ItemKept(y)
<1>0. q \in Nat /\ q > 0
  BY QuantityAssumption
<1>1. /\ lock[p] = None /\ UNCHANGED <<lock, before, tx, now>> /\ available[p] >= q
      /\ available' = [available EXCEPT ![p] = @ + (-q)]
      /\ reserved' = [reserved EXCEPT ![p] = @ - (-q)]
      /\ reservation' = [reservation EXCEPT ![id] =
            [product |-> p, cart |-> c, quantity |-> q, createdAt |-> now]]
      /\ live' = live \cup {id} /\ reservation[id] = None
      /\ expiration' = [expiration EXCEPT ![id] = now + Hold]
  BY DEF reserveStock, Enough, Move, NewRow
<1>2. TypeOK'
  <2>1. [product |-> p, cart |-> c, quantity |-> q, createdAt |-> now] \in Reservation
    BY DEF Reservation, TypeOK
  <2>2. reservation' \in [Ids -> Reservation \cup {None}] /\ reservation'[id] # None
    BY <1>1, <2>1, NoneAssumption DEF TypeOK
  <2>3. \A r \in Ids : reservation[r] # None => reservation'[r] # None
    BY <1>1, <2>2 DEF TypeOK
  <2>4. live' \subseteq {r \in Ids : reservation'[r] # None}
    BY <1>1, <2>2, <2>3 DEF TypeOK
  <2>5. expiration' \in [Ids -> Nat]
    BY <1>1, LifetimeAssumption DEF TypeOK
  <2>6. available' \in [Products -> Int] /\ reserved' \in [Products -> Int]
    BY <1>0, <1>1 DEF TypeOK
  <2>7. \A x \in Procs : tx'[x].rows \subseteq {r \in Ids : reservation'[r] # None}
    BY <1>1, <2>3 DEF TypeOK
  <2> QED BY <1>1, <2>2, <2>4, <2>5, <2>6, <2>7 DEF TypeOK
<1>3. TransactionsProgress'
  BY <1>1 DEF TransactionsProgress, TypeOK
<1>4. ASSUME NEW y \in Products PROVE ItemKept(y)
  <2>0. available'[p] = available[p] - q /\ reserved'[p] = reserved[p] + q
    BY <1>0, <1>1 DEF TypeOK
  <2>1. /\ CommittedAvailable'[y] = IF y = p THEN available'[p] ELSE CommittedAvailable[y]
        /\ CommittedReserved'[y] = IF y = p THEN reserved'[p] ELSE CommittedReserved[y]
    BY <1>1 DEF CommittedAvailable, CommittedReserved, TypeOK
  <2>2. /\ CommittedAvailable[p] = available[p] /\ CommittedReserved[p] = reserved[p]
        /\ available[p] \in Int /\ reserved[p] \in Int
    BY <1>1 DEF CommittedAvailable, CommittedReserved, TypeOK
  <2>3. CASE y = p
    BY <1>0, <1>1, <2>0, <2>1, <2>2, <2>3 DEF ItemKept
  <2>4. CASE y # p
    BY <2>1, <2>4, CommittedType DEF ItemKept
  <2> QED BY <2>3, <2>4
<1> QED BY <1>2, <1>3, <1>4

\* A transaction is opened on rows of the table.
LEMMA OpenItems ==
  ASSUME TypeOK, TransactionsProgress, NEW x \in Procs,
         UNCHANGED <<available, reserved, lock, before>>,
         UNCHANGED <<reservation, live, expiration, now>>,
         NEW t \in Transaction, tx' = [tx EXCEPT ![x] = t],
         t.rows \subseteq live, t.todo \subseteq t.rows, t.at # None => t.at \in t.todo
  PROVE  TypeOK' /\ TransactionsProgress' /\ \A y \in Products : ItemKept(y)
<1>1. /\ tx' \in [Procs -> Transaction] /\ tx'[x] = t
      /\ \A y \in Procs \ {x} : tx'[y] = tx[y]
  BY DEF TypeOK
<1>2. \A y \in Procs : tx'[y].rows \subseteq {r \in Ids : reservation[r] # None}
  BY <1>1 DEF TypeOK
<1>3. TypeOK'
  BY <1>1, <1>2 DEF TypeOK
<1>4. TransactionsProgress'
  BY <1>1 DEF TransactionsProgress
<1> QED BY <1>3, <1>4, ItemUnchanged

LEMMA CreditItems ==
  ASSUME TypeOK, TransactionsProgress, NEW x \in Procs, Credit(x)
  PROVE  TypeOK' /\ TransactionsProgress' /\ \A y \in Products : ItemKept(y)
<1>1. tx[x].at \in tx[x].todo /\ tx[x].todo \subseteq tx[x].rows
  BY DEF TransactionsProgress, Credit
<1>2. PICK id \in Created : CreditOf(x, id)
  BY <1>1, CreditFacts
<1> DEFINE p == reservation[id].product
           q == reservation[id].quantity
<1>3. p \in Products /\ q \in Nat /\ x # None
  BY CreatedRow, NoneAssumption
<1>4. /\ lock[p] \in {None, x}
      /\ available' = [available EXCEPT ![p] = @ + q]
      /\ reserved' = [reserved EXCEPT ![p] = @ - q]
      /\ lock' = [lock EXCEPT ![p] = x]
      /\ before' = IF lock[p] = x THEN before
                   ELSE [before EXCEPT ![p] = [available |-> available[p],
                                               reserved |-> reserved[p]]]
  BY <1>2 DEF CreditOf
<1>5. TypeOK'
  <2>1. available' \in [Products -> Int] /\ reserved' \in [Products -> Int]
    BY <1>3, <1>4 DEF TypeOK
  <2>2. lock' \in [Products -> Procs \cup {None}]
    BY <1>4 DEF TypeOK
  <2>3. before' \in [Products -> Row]
    BY <1>3, <1>4 DEF TypeOK, Row
  <2>4. tx' \in [Procs -> Transaction] /\ \A y \in Procs : tx'[y].rows = tx[y].rows
    BY <1>2 DEF CreditOf
  <2> QED BY <1>2, <2>1, <2>2, <2>3, <2>4 DEF TypeOK, CreditOf
<1>6. TransactionsProgress'
  <2>1. ASSUME NEW y \in Procs
        PROVE  /\ tx'[y].todo \subseteq tx'[y].rows
               /\ tx'[y].at # None => tx'[y].at \in tx'[y].todo
    BY <1>2 DEF TransactionsProgress, CreditOf
  <2>2. ASSUME NEW y \in Products, lock'[y] # None
        PROVE  /\ available'[y] + reserved'[y]
                    = before'[y].available + before'[y].reserved
               /\ available'[y] >= before'[y].available
    <3>1. CASE y # p
      <4>1. /\ lock'[y] = lock[y] /\ available'[y] = available[y]
            /\ reserved'[y] = reserved[y] /\ before'[y] = before[y]
        BY <1>4, <3>1 DEF TypeOK
      <4> QED BY <2>2, <4>1 DEF TransactionsProgress
    <3>2. CASE y = p /\ lock[p] = x
      <4>1. /\ available'[p] = available[p] + q /\ reserved'[p] = reserved[p] - q
            /\ before' = before /\ available[p] \in Int /\ reserved[p] \in Int
            /\ before[p].available \in Int
        BY <1>3, <1>4, <3>2 DEF TypeOK, Row
      <4>2. /\ available[p] + reserved[p] = before[p].available + before[p].reserved
            /\ available[p] >= before[p].available
        BY <1>3, <3>2 DEF TransactionsProgress
      <4> QED BY <1>3, <3>2, <4>1, <4>2
    <3>3. CASE y = p /\ lock[p] # x
      <4>1. /\ available'[p] = available[p] + q /\ reserved'[p] = reserved[p] - q
            /\ before'[p].available = available[p] /\ before'[p].reserved = reserved[p]
            /\ available[p] \in Int /\ reserved[p] \in Int
        BY <1>3, <1>4, <3>3 DEF TypeOK
      <4> QED BY <1>3, <3>3, <4>1
    <3> QED BY <3>1, <3>2, <3>3
  <2> QED BY <2>1, <2>2 DEF TransactionsProgress
<1>7. ASSUME NEW y \in Products PROVE ItemKept(y)
  <2>1. /\ CommittedAvailable'[y] = CommittedAvailable[y]
        /\ CommittedReserved'[y] = CommittedReserved[y]
    BY <1>3, <1>4 DEF CommittedAvailable, CommittedReserved, TypeOK
  <2> QED BY <2>1, CommittedType DEF ItemKept
<1> QED BY <1>5, <1>6, <1>7

\* A transaction is closed with what it has written, or without.
LEMMA CommitItems ==
  ASSUME TypeOK, TransactionsProgress, NEW x \in Procs, Commit(x),
         UNCHANGED <<reservation, now>>,
         live' \subseteq live, expiration' \in [Ids -> Nat]
  PROVE  TypeOK' /\ TransactionsProgress' /\ \A y \in Products : ItemKept(y)
<1>1. UNCHANGED <<available, reserved, before>> /\ Unlock(x) /\ Close(x) /\ x # None
  BY NoneAssumption DEF Commit
<1>2. /\ tx'[x] = Idle /\ \A y \in Procs \ {x} : tx'[y] = tx[y]
      /\ tx' \in [Procs -> Transaction]
      /\ \A y \in Procs : tx'[y].rows \subseteq tx[y].rows
      /\ lock' \in [Products -> Procs \cup {None}]
      /\ \A p \in Products : lock'[p] # None => lock'[p] = lock[p]
  BY <1>1, CloseFacts
<1>3. TypeOK'
  BY <1>1, <1>2 DEF TypeOK
<1>4. TransactionsProgress'
  BY <1>1, <1>2 DEF TransactionsProgress, Idle
<1>5. ASSUME NEW y \in Products PROVE ItemKept(y)
  <2>1. CASE lock[y] # x
    <3>1. /\ CommittedAvailable'[y] = CommittedAvailable[y]
          /\ CommittedReserved'[y] = CommittedReserved[y]
      BY <1>1, <2>1 DEF Unlock, CommittedAvailable, CommittedReserved
    <3> QED BY <3>1, CommittedType DEF ItemKept
  <2>2. CASE lock[y] = x
    <3>1. /\ CommittedAvailable'[y] = available[y] /\ CommittedReserved'[y] = reserved[y]
          /\ CommittedAvailable[y] = before[y].available
          /\ CommittedReserved[y] = before[y].reserved
      BY <1>1, <2>2 DEF Unlock, CommittedAvailable, CommittedReserved
    <3>2. /\ available[y] + reserved[y] = before[y].available + before[y].reserved
          /\ available[y] >= before[y].available
          /\ available[y] \in Int /\ reserved[y] \in Int
      BY <1>1, <2>2 DEF TransactionsProgress, TypeOK
    <3> QED BY <3>1, <3>2 DEF ItemKept
  <2> QED BY <2>1, <2>2
<1> QED BY <1>3, <1>4, <1>5

LEMMA RollbackItems ==
  ASSUME TypeOK, TransactionsProgress, NEW x \in Procs, Rollback(x),
         UNCHANGED <<reservation, now>>
  PROVE  TypeOK' /\ TransactionsProgress' /\ \A y \in Products : ItemKept(y)
<1>1. UNCHANGED <<before, live, expiration>> /\ Unlock(x) /\ Close(x) /\ x # None
  BY NoneAssumption DEF Rollback
<1>2. /\ tx'[x] = Idle /\ \A y \in Procs \ {x} : tx'[y] = tx[y]
      /\ tx' \in [Procs -> Transaction]
      /\ \A y \in Procs : tx'[y].rows \subseteq tx[y].rows
      /\ lock' \in [Products -> Procs \cup {None}]
      /\ \A p \in Products : lock'[p] # None => lock'[p] = lock[p]
      /\ \A p \in Products : lock'[p] # x
  BY <1>1, CloseFacts
<1>3. available' \in [Products -> Int] /\ reserved' \in [Products -> Int]
  BY DEF Rollback, TypeOK, Row
<1>4. TypeOK'
  BY <1>1, <1>2, <1>3 DEF TypeOK
<1>5. \A p \in Products : lock[p] # x =>
         available'[p] = available[p] /\ reserved'[p] = reserved[p]
  BY DEF Rollback
<1>6. TransactionsProgress'
  BY <1>1, <1>2, <1>5 DEF TransactionsProgress, Idle
<1>7. ASSUME NEW y \in Products PROVE ItemKept(y)
  <2>1. /\ CommittedAvailable'[y] = CommittedAvailable[y]
        /\ CommittedReserved'[y] = CommittedReserved[y]
    BY <1>1 DEF Rollback, Unlock, CommittedAvailable, CommittedReserved
  <2> QED BY <2>1, CommittedType DEF ItemKept
<1> QED BY <1>4, <1>6, <1>7

\* Every step of the inventory service: well typed, and no unit of an item is
\* made, lost or taken below nothing by it.
LEMMA NextItems ==
  ASSUME TypeOK, TransactionsProgress, Next
  PROVE  TypeOK' /\ TransactionsProgress' /\ \A y \in Products : ItemKept(y)
<1> DEFINE Goal == TypeOK' /\ TransactionsProgress' /\ \A y \in Products : ItemKept(y)
<1>1. ASSUME NEW s \in Sessions, NEW p \in Products, NEW c \in Carts,
             ReleaseRead(s, p, c) \/ ExtendRead(s, p, c)
      PROVE  Goal
  <2>1. PICK id \in live :
           \/ tx' = [tx EXCEPT ![s] = [op |-> "release", rows |-> {id},
                                       todo |-> {id}, at |-> id]]
           \/ tx' = [tx EXCEPT ![s] = [op |-> "extend", rows |-> {id},
                                       todo |-> {}, at |-> None]]
    BY <1>1 DEF ReleaseRead, ExtendRead, Matching
  <2>2. id \in Ids /\ s \in Procs
    BY DEF TypeOK, Procs
  <2>3. /\ [op |-> "release", rows |-> {id}, todo |-> {id}, at |-> id] \in Transaction
        /\ [op |-> "extend", rows |-> {id}, todo |-> {}, at |-> None] \in Transaction
    BY <2>2 DEF Transaction
  <2>4. /\ UNCHANGED <<available, reserved, lock, before>>
        /\ UNCHANGED <<reservation, live, expiration, now>>
    BY <1>1 DEF ReleaseRead, ExtendRead
  <2>5. CASE tx' = [tx EXCEPT ![s] = [op |-> "release", rows |-> {id},
                                      todo |-> {id}, at |-> id]]
    BY <2>2, <2>3, <2>4, <2>5, OpenItems
  <2>6. CASE tx' = [tx EXCEPT ![s] = [op |-> "extend", rows |-> {id},
                                      todo |-> {}, at |-> None]]
    BY <2>2, <2>3, <2>4, <2>6, OpenItems
  <2> QED BY <2>1, <2>5, <2>6
<1>2. ASSUME NEW w \in Workers, ExpireRead(w) PROVE Goal
  <2>1. PICK first \in Expired :
           tx' = [tx EXCEPT ![w] = [op |-> "expire", rows |-> Expired,
                                    todo |-> Expired, at |-> first]]
    BY <1>2 DEF ExpireRead
  <2>2. w \in Procs /\ Expired \subseteq live /\ Expired \subseteq Ids
    BY DEF Expired, TypeOK, Procs
  <2>3. [op |-> "expire", rows |-> Expired, todo |-> Expired, at |-> first]
          \in Transaction
    BY <2>1, <2>2 DEF Transaction
  <2>4. /\ UNCHANGED <<available, reserved, lock, before>>
        /\ UNCHANGED <<reservation, live, expiration, now>>
    BY <1>2 DEF ExpireRead
  <2> QED BY <2>1, <2>2, <2>3, <2>4, OpenItems
<1>3. ASSUME NEW s \in Sessions, ReleaseDelete(s) PROVE Goal
  <2>1. s \in Procs /\ expiration \in [Ids -> Nat]
    BY DEF Procs, TypeOK
  <2>2. CASE Rollback(s)
    BY <1>3, <2>1, <2>2, RollbackItems DEF ReleaseDelete
  <2>3. CASE ~Rollback(s)
    BY <1>3, <2>1, <2>3, CommitItems DEF ReleaseDelete
  <2> QED BY <2>2, <2>3
<1>4. ASSUME NEW s \in Sessions, ExtendUpdate(s) PROVE Goal
  <2>1. s \in Procs
    BY DEF Procs
  <2>2. CASE Rollback(s)
    BY <1>4, <2>1, <2>2, RollbackItems DEF ExtendUpdate
  <2>3. CASE ~Rollback(s)
    <3>1. \A id \in tx[s].rows : id \in Ids /\ reservation[id] \in Reservation
      BY <2>1 DEF TypeOK
    <3>2. expiration' = [id \in Ids |-> IF id \in tx[s].rows
                                        THEN reservation[id].createdAt + Extension
                                        ELSE expiration[id]]
      BY <1>4, <2>3 DEF ExtendUpdate
    <3>3. expiration' \in [Ids -> Nat]
      BY <3>1, <3>2, ReservationFields, LifetimeAssumption DEF TypeOK
    <3> QED BY <1>4, <2>1, <2>3, <3>3, CommitItems DEF ExtendUpdate
  <2> QED BY <2>2, <2>3
<1>5. ASSUME NEW w \in Workers, ExpireDelete(w) PROVE Goal
  <2>1. w \in Procs /\ expiration' \in [Ids -> Nat] /\ live' \subseteq live
    BY <1>5 DEF ExpireDelete, Procs, TypeOK
  <2> QED BY <1>5, <2>1, CommitItems DEF ExpireDelete
<1>6. ASSUME NEW x \in Procs, DeadlockVictim(x) \/ Fail(x) PROVE Goal
  BY <1>6, RollbackItems DEF DeadlockVictim, Fail
<1>7. CASE Tick
  <2>1. TypeOK' /\ TransactionsProgress'
    BY <1>7 DEF Tick, TypeOK, TransactionsProgress
  <2> QED BY <1>7, <2>1, ItemUnchanged DEF Tick
<1> QED BY <1>1, <1>2, <1>3, <1>4, <1>5, <1>6, <1>7, ReserveItems, CreditItems
           DEF Next

-----------------------------------------------------------------------------
(* The units on the lines of an item list.                                 *)

LEMMA LineFields ==
  ASSUME NEW items \in Seq(Line), NEW i \in DOMAIN items
  PROVE  /\ items[i].product \in Products /\ items[i].quantity \in Int
         /\ Taken(items[i]) \in Nat /\ Taken(items[i]) <= CartLimit
         /\ Returned(items[i]) \in Nat
         /\ Taken(items[i]) - Returned(items[i]) = items[i].quantity
<1>1. items[i] \in Line
  OBVIOUS
<1>2. /\ items[i].product \in Products /\ items[i].quantity \in Int
      /\ items[i].quantity <= CartLimit /\ CartLimit \in Nat
  BY <1>1, OrderAssumption DEF Line
<1> QED BY <1>2 DEF Taken, Returned

LEMMA LinesFinite ==
  ASSUME NEW items \in Seq(Line), NEW lines, NEW p
  PROVE  /\ LinesOf(items, p) \cap lines \subseteq LinesOf(items, p)
         /\ IsFiniteSet(LinesOf(items, p))
         /\ IsFiniteSet(LinesOf(items, p) \cap lines)
<1>1. IsFiniteSet(1..Len(items)) /\ LinesOf(items, p) \subseteq 1..Len(items)
  <2>1. Len(items) \in Nat /\ DOMAIN items = 1..Len(items)
    OBVIOUS
  <2> QED BY <2>1, FS_Interval DEF LinesOf
<1> QED BY <1>1, FS_Subset

LEMMA UnitsOnType ==
  ASSUME NEW items \in Seq(Line), NEW lines, NEW p
  PROVE  /\ UnitsOn(items, lines, p) \in Nat
         /\ UnitsOn(items, lines, p) <= Cardinality(LinesOf(items, p)) * CartLimit
         /\ Cardinality(LinesOf(items, p)) \in Nat
<1> DEFINE S == LinesOf(items, p) \cap lines
           f == [i \in S |-> Taken(items[i])]
<1>1. f \in [S -> Nat] /\ \A i \in S : f[i] <= CartLimit
  BY LineFields DEF LinesOf
<1>2. IsFiniteSet(S) /\ IsFiniteSet(LinesOf(items, p)) /\ S \subseteq LinesOf(items, p)
  BY LinesFinite
<1>3. UnitsOn(items, lines, p) = Total(f)
  BY DEF UnitsOn
<1> HIDE DEF f, S
<1>4. CartLimit \in Nat
  BY OrderAssumption
<1>5. IsFiniteSet(Units(f)) /\ Total(f) <= Cardinality(S) * CartLimit
  BY <1>1, <1>2, <1>4, TotalBound
<1>6. Total(f) \in Nat
  BY <1>5, TotalType
<1>7. /\ Cardinality(S) <= Cardinality(LinesOf(items, p))
      /\ Cardinality(S) \in Nat /\ Cardinality(LinesOf(items, p)) \in Nat
  BY <1>2, FS_Subset, FS_CardinalityType
<1>8. \A a, b, c \in Nat : a <= b => a * c <= b * c
  OBVIOUS
<1>9. Cardinality(S) * CartLimit <= Cardinality(LinesOf(items, p)) * CartLimit
  BY <1>4, <1>7, <1>8
<1>10. /\ Cardinality(S) * CartLimit \in Nat
       /\ Cardinality(LinesOf(items, p)) * CartLimit \in Nat
  BY <1>4, <1>7
<1> QED BY <1>3, <1>5, <1>6, <1>7, <1>9, <1>10

LEMMA UnitsOnNone ==
  ASSUME NEW items \in Seq(Line), NEW p
  PROVE  UnitsOn(items, {}, p) = 0
<1> DEFINE f == [i \in LinesOf(items, p) \cap {} |-> Taken(items[i])]
<1>1. f \in [{} -> Nat] /\ \A i \in {} : f[i] = 0
  OBVIOUS
<1>2. UnitsOn(items, {}, p) = Total(f)
  BY DEF UnitsOn
<1> HIDE DEF f
<1> QED BY <1>1, <1>2, TotalOfNothing

\* The units of p that line i takes.
LineUnits(items, i, p) == IF items[i].product = p THEN Taken(items[i]) ELSE 0

LEMMA UnitsOnMore ==
  ASSUME NEW items \in Seq(Line), NEW p, NEW lines, NEW i \in DOMAIN items, i \notin lines
  PROVE  UnitsOn(items, lines \cup {i}, p)
           = UnitsOn(items, lines, p) + LineUnits(items, i, p)
<1> DEFINE S == LinesOf(items, p) \cap lines
           h == [j \in S \cup {i} |-> Taken(items[j])]
<1>1. IsFiniteSet(S) /\ i \notin S /\ h \in [S \cup {i} -> Nat]
  BY LineFields, LinesFinite DEF LinesOf
<1>2. CASE items[i].product = p
  <2>1. UnitsOn(items, lines \cup {i}, p) = Total(h)
    <3>1. LinesOf(items, p) \cap (lines \cup {i}) = S \cup {i}
      BY <1>2 DEF LinesOf
    <3> QED BY <3>1 DEF UnitsOn
  <2>2. UnitsOn(items, lines, p) = Total([j \in S |-> h[j]])
    <3>1. [j \in S |-> h[j]] = [j \in S |-> Taken(items[j])]
      OBVIOUS
    <3> QED BY <3>1 DEF UnitsOn
  <2>3. h[i] = Taken(items[i])
    OBVIOUS
  <2> HIDE DEF S, h
  <2>4. Total(h) = Total([j \in S |-> h[j]]) + h[i]
    BY <1>1, TotalOfOneMore
  <2> QED BY <1>2, <2>1, <2>2, <2>3, <2>4 DEF LineUnits
<1>3. CASE items[i].product # p
  <2>1. LinesOf(items, p) \cap (lines \cup {i}) = S
    BY <1>3 DEF LinesOf
  <2>2. UnitsOn(items, lines \cup {i}, p) = UnitsOn(items, lines, p)
    BY <2>1 DEF UnitsOn
  <2>3. UnitsOn(items, lines, p) \in Nat
    BY UnitsOnType
  <2> QED BY <1>3, <2>2, <2>3 DEF LineUnits
<1> QED BY <1>2, <1>3

\* The lines of a cart are a list with one line per product.
LEMMA CartLinesType ==
  ASSUME NEW c \in Carts,
         cart \in [Carts -> [Products -> LineQuantities \cup {None}]],
         NEW items \in CartLines(c)
  PROVE  /\ items \in Seq(Line)
         /\ cart[c] # EmptyCart => items # <<>>
         /\ \A p \in Products : Cardinality(LinesOf(items, p)) <= LinesPerProduct
<1> DEFINE filled == InCart(c)
           lines == {[product |-> p, quantity |-> cart[c][p]] : p \in filled}
           n == Cardinality(lines)
<1>1. IsFiniteSet(lines)
  <2>1. IsFiniteSet(filled)
    BY OrderAssumption, FS_Subset DEF InCart
  <2>2. [p \in filled |-> [product |-> p, quantity |-> cart[c][p]]]
          \in Surjection(filled, lines)
    BY DEF Surjection
  <2> HIDE DEF filled, lines
  <2> QED BY <2>1, <2>2, FS_Surjection
<1>2. n \in Nat
  BY <1>1, FS_CardinalityType
<1>3. lines \subseteq Line
  BY DEF Line, InCart
<1>4. /\ items \in [1..n -> lines]
      /\ \A i, j \in 1..n : i # j => items[i] # items[j]
  BY DEF CartLines, SetToSeqs
<1>5. items \in Seq(Line) /\ DOMAIN items = 1..n
  <2> HIDE DEF n, lines
  <2>1. items \in [1..n -> Line]
    BY <1>3, <1>4
  <2> QED BY <1>2, <2>1
<1>6. \A i \in 1..n : items[i].quantity = cart[c][items[i].product]
  BY <1>4
<1>7. ASSUME NEW p \in Products
      PROVE  Cardinality(LinesOf(items, p)) <= LinesPerProduct
  <2>0. LinesPerProduct \in Nat /\ LinesPerProduct >= 1
    BY OrderAssumption
  <2>1. CASE LinesOf(items, p) = {}
    BY <2>0, <2>1, FS_EmptySet
  <2>2. ASSUME NEW i \in LinesOf(items, p)
        PROVE  Cardinality(LinesOf(items, p)) <= LinesPerProduct
    <3>1. LinesOf(items, p) = {i}
      <4> SUFFICES ASSUME NEW j \in LinesOf(items, p) PROVE j = i
        OBVIOUS
      <4>1. /\ i \in 1..n /\ j \in 1..n
            /\ items[i].product = p /\ items[j].product = p
        BY <1>5 DEF LinesOf
      <4>2. items[i].quantity = items[j].quantity
        BY <1>6, <4>1
      <4>3. items[i] \in Line /\ items[j] \in Line
        BY <1>3, <1>4, <4>1
      <4>4. items[i] = items[j]
        BY <4>1, <4>2, <4>3 DEF Line
      <4> QED BY <1>4, <4>1, <4>4
    <3> QED BY <2>0, <3>1, FS_Singleton
  <2> QED BY <2>1, <2>2
<1>8. ASSUME cart[c] # EmptyCart PROVE items # <<>>
  <2>1. PICK p \in Products : cart[c][p] # None
    BY <1>8 DEF EmptyCart
  <2>2. lines # {}
    BY <2>1 DEF InCart
  <2> HIDE DEF lines
  <2>3. n # 0
    BY <1>1, <2>2, FS_EmptySet
  <2> HIDE DEF n
  <2>4. 1 \in DOMAIN items
    BY <1>2, <1>5, <2>3
  <2> QED BY <2>4
<1> QED BY <1>5, <1>7, <1>8

\* A number for each request has a total, which follows the change of one.
LEMMA RequestTotal ==
  ASSUME NEW f \in [Requests -> Nat]
  PROVE  IsFiniteSet(Units(f)) /\ Total(f) \in Nat
BY OrderAssumption, UnitsFinite, TotalType

LEMMA RequestTotalChanges ==
  ASSUME NEW r \in Requests, NEW f \in [Requests -> Nat], NEW g \in [Requests -> Nat],
         \A y \in Requests \ {r} : f[y] = g[y]
  PROVE  Total(g) = Total(f) - f[r] + g[r]
BY RequestTotal, TotalChanges

\* What is in hand of a call and due by it are numbers; what is due is bounded.
LEMMA CallUnits ==
  ASSUME NEW c, WellFormed(c), NEW p \in Products
  PROVE  /\ InHand(c, p) \in Nat /\ Due(c, p) \in Nat
         /\ Due(c, p) <= LinesPerProduct * CartLimit
<1>0. LinesPerProduct \in Nat /\ CartLimit \in Nat
  BY OrderAssumption
<1>1. ASSUME NEW lines
      PROVE  /\ UnitsOn(c.items, lines, p) \in Nat
             /\ UnitsOn(c.items, lines, p) <= LinesPerProduct * CartLimit
  <2>1. /\ UnitsOn(c.items, lines, p) \in Nat
        /\ UnitsOn(c.items, lines, p) <= Cardinality(LinesOf(c.items, p)) * CartLimit
        /\ Cardinality(LinesOf(c.items, p)) \in Nat
    BY UnitsOnType DEF WellFormed, PlacementCall
  <2>2. Cardinality(LinesOf(c.items, p)) <= LinesPerProduct
    BY DEF WellFormed
  <2>3. \A a, b, d \in Nat : a <= b => a * d <= b * d
    OBVIOUS
  <2>4. Cardinality(LinesOf(c.items, p)) * CartLimit <= LinesPerProduct * CartLimit
    BY <1>0, <2>1, <2>2, <2>3
  <2>5. /\ Cardinality(LinesOf(c.items, p)) * CartLimit \in Nat
        /\ LinesPerProduct * CartLimit \in Nat
    BY <1>0, <2>1
  <2> QED BY <2>1, <2>4, <2>5
<1>2. LinesPerProduct * CartLimit \in Nat
  BY <1>0
<1>3. InHand(c, p) \in Nat
  BY <1>1 DEF InHand
<1>4. Due(c, p) \in Nat /\ Due(c, p) <= LinesPerProduct * CartLimit
  BY <1>1, <1>2 DEF Due
<1> QED BY <1>3, <1>4

\* The totals over all calls.
AllInHand(p) == Total([r \in Requests |-> InHand(call[r], p)])
AllDue(p) == Total([r \in Requests |-> Due(call[r], p)])

LEMMA CallTotals ==
  ASSUME NEW k, \A r \in Requests : WellFormed(k[r]), NEW p \in Products
  PROVE  /\ Total([r \in Requests |-> InHand(k[r], p)]) \in Nat
         /\ Total([r \in Requests |-> Due(k[r], p)]) \in Nat
         /\ Total([r \in Requests |-> Due(k[r], p)]) <= Overdraft
         /\ Overdraft \in Nat
<1> DEFINE f == [r \in Requests |-> InHand(k[r], p)]
           g == [r \in Requests |-> Due(k[r], p)]
           n == LinesPerProduct * CartLimit
<1>1. f \in [Requests -> Nat] /\ g \in [Requests -> Nat] /\ \A r \in Requests : g[r] <= n
  BY CallUnits
<1>2. IsFiniteSet(Requests) /\ n \in Nat /\ Cardinality(Requests) \in Nat
  BY OrderAssumption, FS_CardinalityType
<1>3. Total(f) \in Nat /\ Total(g) \in Nat
  <2> HIDE DEF f, g
  <2> QED BY <1>1, RequestTotal
<1>4. Total(g) <= Cardinality(Requests) * n
  <2> HIDE DEF g, n
  <2> QED BY <1>1, <1>2, TotalBound
<1>5. Cardinality(Requests) * n \in Nat
  <2> HIDE DEF n
  <2> QED BY <1>2
<1> QED BY <1>3, <1>4, <1>5 DEF Overdraft

LEMMA AllUnits ==
  ASSUME \A r \in Requests : WellFormed(call[r]), NEW p \in Products
  PROVE  /\ AllInHand(p) \in Nat /\ AllDue(p) \in Nat /\ AllDue(p) <= Overdraft
         /\ Overdraft \in Nat
BY CallTotals DEF AllInHand, AllDue

LEMMA CallChanges ==
  ASSUME \A r \in Requests : WellFormed(call[r]),
         call \in [Requests -> PlacementCall],
         NEW r \in Requests, NEW c, WellFormed(c), call' = [call EXCEPT ![r] = c],
         NEW p \in Products
  PROVE  /\ AllInHand(p)' = AllInHand(p) - InHand(call[r], p) + InHand(c, p)
         /\ AllDue(p)' = AllDue(p) - Due(call[r], p) + Due(c, p)
         /\ \A y \in Requests : WellFormed(call'[y])
         /\ call' \in [Requests -> PlacementCall]
<1> DEFINE new == [call EXCEPT ![r] = c]
           f == [y \in Requests |-> InHand(call[y], p)]
           g == [y \in Requests |-> Due(call[y], p)]
           nf == [y \in Requests |-> InHand(new[y], p)]
           ng == [y \in Requests |-> Due(new[y], p)]
<1>1. /\ new[r] = c /\ \A y \in Requests \ {r} : new[y] = call[y]
      /\ call' = new
  OBVIOUS
<1>2. \A y \in Requests : WellFormed(new[y])
  BY <1>1
<1>3. new \in [Requests -> PlacementCall]
  BY DEF WellFormed
<1> HIDE DEF new
<1>4. /\ f \in [Requests -> Nat] /\ nf \in [Requests -> Nat]
      /\ g \in [Requests -> Nat] /\ ng \in [Requests -> Nat]
  BY <1>2, CallUnits
<1>5. /\ f[r] = InHand(call[r], p) /\ nf[r] = InHand(c, p)
      /\ g[r] = Due(call[r], p) /\ ng[r] = Due(c, p)
      /\ \A y \in Requests \ {r} : f[y] = nf[y]
      /\ \A y \in Requests \ {r} : g[y] = ng[y]
  BY <1>1
<1>6. AllInHand(p)' = Total(nf) /\ AllDue(p)' = Total(ng)
  BY <1>1 DEF AllInHand, AllDue
<1>7. AllInHand(p) = Total(f) /\ AllDue(p) = Total(g)
  BY DEF AllInHand, AllDue
<1> HIDE DEF f, g, nf, ng
<1>8. Total(nf) = Total(f) - f[r] + nf[r]
  BY <1>4, <1>5, RequestTotalChanges
<1>9. Total(ng) = Total(g) - g[r] + ng[r]
  BY <1>4, <1>5, RequestTotalChanges
<1> QED BY <1>1, <1>2, <1>3, <1>5, <1>6, <1>7, <1>8, <1>9

\* The units on the orders.
OrderRow == [by : Requests, items : Seq(Line)]

LEMMA EachOf ==
  ASSUME NEW S, NEW q \in Seq(S)
  PROVE  /\ Len(q) \in Nat /\ DOMAIN q = 1..Len(q)
         /\ \A i \in DOMAIN q : q[i] \in S
OBVIOUS

LEMMA OneMore ==
  ASSUME NEW S, NEW q \in Seq(S), NEW e \in S
  PROVE  /\ Append(q, e) \in Seq(S)
         /\ DOMAIN Append(q, e) = (1..Len(q)) \cup {Len(q) + 1}
         /\ \A i \in 1..Len(q) : Append(q, e)[i] = q[i]
         /\ Append(q, e)[Len(q) + 1] = e
         /\ Len(q) + 1 \notin 1..Len(q)
OBVIOUS

LEMMA OrderItems ==
  ASSUME NEW o \in OrderRow, NEW lines, NEW p
  PROVE  o.items \in Seq(Line) /\ UnitsOn(o.items, lines, p) \in Nat
<1>1. o.items \in Seq(Line)
  BY DEF OrderRow
<1> QED BY <1>1, UnitsOnType

LEMMA OrdersTotal ==
  ASSUME NEW q \in Seq(OrderRow), NEW p
  PROVE  Total([o \in DOMAIN q |-> UnitsOn(q[o].items, DOMAIN q[o].items, p)]) \in Nat
<1> DEFINE f == [o \in DOMAIN q |-> UnitsOn(q[o].items, DOMAIN q[o].items, p)]
<1>1. IsFiniteSet(DOMAIN q)
  BY EachOf, FS_Interval
<1>2. f \in [DOMAIN q -> Nat]
  BY EachOf, OrderItems
<1> HIDE DEF f
<1>3. Total(f) \in Nat
  BY <1>1, <1>2, UnitsFinite, TotalType
<1> QED BY <1>3 DEF f

LEMMA SoldType ==
  ASSUME orders \in Seq(OrderRow), NEW p
  PROVE  Sold(p) \in Nat
BY OrdersTotal DEF Sold

LEMMA SoldMore ==
  ASSUME orders \in Seq(OrderRow), NEW p, NEW order \in OrderRow,
         orders' = Append(orders, order)
  PROVE  /\ orders' \in Seq(OrderRow)
         /\ Sold(p)' = Sold(p) + UnitsOn(order.items, DOMAIN order.items, p)
<1> DEFINE n == Len(orders)
           new == Append(orders, order)
           U(o) == UnitsOn(o.items, DOMAIN o.items, p)
           h == [i \in (1..n) \cup {n + 1} |-> U(new[i])]
<1>1. /\ n \in Nat /\ DOMAIN orders = 1..n /\ DOMAIN new = (1..n) \cup {n + 1}
      /\ \A i \in 1..n : new[i] = orders[i]
      /\ new[n + 1] = order
      /\ new \in Seq(OrderRow)
      /\ n + 1 \notin 1..n
  BY EachOf, OneMore
<1>2. \A i \in (1..n) \cup {n + 1} : new[i] \in OrderRow
  BY <1>1, EachOf
<1>3. h \in [(1..n) \cup {n + 1} -> Nat]
  BY <1>2, OrderItems
<1>4. Sold(p)' = Total(h)
  BY <1>1 DEF Sold
<1>5. Sold(p) = Total([i \in 1..n |-> h[i]])
  <2>1. [i \in 1..n |-> h[i]] = [o \in DOMAIN orders |-> U(orders[o])]
    BY <1>1
  <2> QED BY <2>1 DEF Sold
<1>6. h[n + 1] = U(order)
  BY <1>1
<1> HIDE DEF h, n
<1>7. IsFiniteSet(1..n)
  <2>1. n \in Nat
    BY <1>1
  <2> QED BY <2>1, FS_Interval
<1>8. n + 1 \notin 1..n
  BY <1>1
<1>9. Total(h) = Total([i \in 1..n |-> h[i]]) + h[n + 1]
  BY <1>3, <1>7, <1>8, TotalOfOneMore
<1> QED BY <1>1, <1>4, <1>5, <1>6, <1>9

\* What the invariant says, with its sums named.
LEMMA PlacementFacts ==
  ASSUME PlacementInv
  PROVE  /\ TypeOK /\ TransactionsProgress
         /\ cart \in [Carts -> [Products -> LineQuantities \cup {None}]]
         /\ putBack \in [Products -> Nat]
         /\ orders \in Seq(OrderRow)
         /\ call \in [Requests -> PlacementCall]
         /\ \A r \in Requests : WellFormed(call[r])
         /\ \A p \in Products :
               /\ CommittedAvailable[p] \in Int /\ CommittedReserved[p] \in Int
               /\ Sold(p) \in Nat /\ AllInHand(p) \in Nat /\ AllDue(p) \in Nat
               /\ CommittedAvailable[p] + CommittedReserved[p] + Sold(p) + AllInHand(p)
                    <= Stock[p] + putBack[p]
               /\ CommittedAvailable[p] - AllDue(p) >= -Overdraft
<1>1. /\ TypeOK /\ TransactionsProgress
      /\ cart \in [Carts -> [Products -> LineQuantities \cup {None}]]
      /\ putBack \in [Products -> Nat]
      /\ orders \in Seq(OrderRow)
      /\ call \in [Requests -> PlacementCall]
      /\ \A r \in Requests : WellFormed(call[r])
  BY DEF PlacementInv, PlacementTypeOK, OrderRow
<1>2. ASSUME NEW p \in Products
      PROVE  /\ CommittedAvailable[p] + CommittedReserved[p] + Sold(p) + AllInHand(p)
                  <= Stock[p] + putBack[p]
             /\ CommittedAvailable[p] - AllDue(p) >= -Overdraft
  BY DEF PlacementInv, SoldOrInHand, DueBounded, AllInHand, AllDue, Overdraft
<1> QED BY <1>1, <1>2, CommittedType, SoldType, AllUnits

\* And the other way round, in the next state.
LEMMA PlacementFromFacts ==
  ASSUME TypeOK', TransactionsProgress',
         cart' \in [Carts -> [Products -> LineQuantities \cup {None}]],
         putBack' \in [Products -> Nat],
         orders' \in Seq(OrderRow),
         call' \in [Requests -> PlacementCall],
         \A r \in Requests : WellFormed(call'[r]),
         \A p \in Products :
            /\ CommittedAvailable'[p] + CommittedReserved'[p] + Sold(p)' + AllInHand(p)'
                 <= Stock[p] + putBack'[p]
            /\ CommittedAvailable'[p] - AllDue(p)' >= -Overdraft
  PROVE  PlacementInv'
<1>1. \A r \in Requests :
         /\ call'[r].at \in Phases /\ call'[r].items \in Seq(Line)
         /\ call'[r].live \subseteq Products
         /\ call'[r].at # "idle" => call'[r].i \in 1..Len(call'[r].items)
  BY DEF WellFormed, PlacementCall
<1>2. \A o \in Range(orders') : o.by \in Requests /\ o.items \in Seq(Line)
  <2>1. \A i \in DOMAIN orders' : orders'[i] \in OrderRow
    BY EachOf
  <2>2. \A o \in OrderRow : o.by \in Requests /\ o.items \in Seq(Line)
    BY DEF OrderRow
  <2> QED BY <2>1, <2>2 DEF Range
<1>3. PlacementTypeOK'
  BY <1>1, <1>2 DEF PlacementTypeOK
<1>4. \A p \in Products : SoldOrInHand(p)' /\ DueBounded(p)'
  BY DEF SoldOrInHand, DueBounded, AllInHand, AllDue
<1> QED BY <1>3, <1>4 DEF PlacementInv, OrderRow

\* A step of one call keeps the invariant when what it takes from the stock is
\* sold or in hand, and when what it still has to take does not grow, or is
\* there.
LEMMA CallStep ==
  ASSUME PlacementInv, NEW r \in Requests, NEW c, WellFormed(c),
         call' = [call EXCEPT ![r] = c],
         TypeOK', TransactionsProgress',
         cart' \in [Carts -> [Products -> LineQuantities \cup {None}]],
         putBack' \in [Products -> Nat],
         orders' \in Seq(OrderRow),
         \A p \in Products :
            /\ CommittedAvailable'[p] + CommittedReserved'[p] + Sold(p)' + InHand(c, p)
                 <= CommittedAvailable[p] + CommittedReserved[p] + Sold(p)
                      + InHand(call[r], p) + (putBack'[p] - putBack[p])
            /\ \/ CommittedAvailable'[p] - Due(c, p)
                    >= CommittedAvailable[p] - Due(call[r], p)
               \/ CommittedAvailable'[p] >= 0
  PROVE  PlacementInv'
<1>1. ASSUME NEW p \in Products
      PROVE  /\ CommittedAvailable'[p] + CommittedReserved'[p] + Sold(p)' + AllInHand(p)'
                  <= Stock[p] + putBack'[p]
             /\ CommittedAvailable'[p] - AllDue(p)' >= -Overdraft
  <2>1. /\ AllInHand(p)' = AllInHand(p) - InHand(call[r], p) + InHand(c, p)
        /\ AllDue(p)' = AllDue(p) - Due(call[r], p) + Due(c, p)
    BY PlacementFacts, CallChanges
  <2>2. AllDue(p)' <= Overdraft /\ AllDue(p)' \in Nat /\ Overdraft \in Nat
    <3>1. \A y \in Requests : WellFormed(call'[y])
      BY PlacementFacts, CallChanges
    <3> DEFINE k == call'
    <3>2. \A y \in Requests : WellFormed(k[y])
      BY <3>1
    <3>3. AllDue(p)' = Total([y \in Requests |-> Due(k[y], p)])
      BY DEF AllDue
    <3> HIDE DEF k
    <3>4. /\ Total([y \in Requests |-> Due(k[y], p)]) \in Nat
          /\ Total([y \in Requests |-> Due(k[y], p)]) <= Overdraft
          /\ Overdraft \in Nat
      BY <3>2, CallTotals
    <3> QED BY <3>3, <3>4
  <2>3. /\ CommittedAvailable'[p] \in Int /\ CommittedReserved'[p] \in Int
        /\ Sold(p)' \in Nat
    <3>1. CommittedAvailable'[p] \in Int /\ CommittedReserved'[p] \in Int
      BY DEF TypeOK, CommittedAvailable, CommittedReserved, Row
    <3>2. Sold(p)' \in Nat
      <4> DEFINE q == orders'
      <4>1. /\ q \in Seq(OrderRow)
            /\ Sold(p)' = Total([o \in DOMAIN q |->
                                   UnitsOn(q[o].items, DOMAIN q[o].items, p)])
        BY DEF Sold
      <4> HIDE DEF q
      <4> QED BY <4>1, OrdersTotal
    <3> QED BY <3>1, <3>2
  <2>4. /\ InHand(c, p) \in Nat /\ Due(c, p) \in Nat
        /\ InHand(call[r], p) \in Nat /\ Due(call[r], p) \in Nat
    BY PlacementFacts, CallUnits
  <2>5. Stock[p] \in Nat /\ putBack[p] \in Nat /\ putBack'[p] \in Nat
    BY StockAssumption, PlacementFacts
  <2>6. /\ CommittedAvailable[p] \in Int /\ CommittedReserved[p] \in Int
        /\ Sold(p) \in Nat /\ AllInHand(p) \in Nat /\ AllDue(p) \in Nat
        /\ CommittedAvailable[p] + CommittedReserved[p] + Sold(p) + AllInHand(p)
             <= Stock[p] + putBack[p]
        /\ CommittedAvailable[p] - AllDue(p) >= -Overdraft
    BY PlacementFacts
  <2>7. /\ CommittedAvailable'[p] + CommittedReserved'[p] + Sold(p)' + InHand(c, p)
             <= CommittedAvailable[p] + CommittedReserved[p] + Sold(p)
                  + InHand(call[r], p) + (putBack'[p] - putBack[p])
        /\ \/ CommittedAvailable'[p] - Due(c, p)
                >= CommittedAvailable[p] - Due(call[r], p)
           \/ CommittedAvailable'[p] >= 0
    OBVIOUS
  <2>8. /\ AllInHand(p)' = AllInHand(p) - InHand(call[r], p) + InHand(c, p)
        /\ AllDue(p)' = AllDue(p) - Due(call[r], p) + Due(c, p)
    BY <2>1
  <2>9. CommittedAvailable'[p] + CommittedReserved'[p] + Sold(p)' + AllInHand(p)'
          <= Stock[p] + putBack'[p]
    <3> DEFINE a == CommittedAvailable[p]   a1 == CommittedAvailable'[p]
               b == CommittedReserved[p]    b1 == CommittedReserved'[p]
               s == Sold(p)                 s1 == Sold(p)'
               h == AllInHand(p)            h1 == AllInHand(p)'
               d == InHand(call[r], p)      d1 == InHand(c, p)
               n == Stock[p]
               u == putBack[p]              u1 == putBack'[p]
    <3>1. /\ a \in Int /\ b \in Int /\ s \in Nat /\ h \in Nat /\ d \in Nat /\ n \in Nat
          /\ u \in Nat /\ u1 \in Nat
      BY <2>4, <2>5, <2>6
    <3>2. a1 \in Int /\ b1 \in Int /\ s1 \in Nat /\ d1 \in Nat
      BY <2>3, <2>4
    <3>3. a + b + s + h <= n + u /\ h1 = h - d + d1
      BY <2>6, <2>8
    <3>4. a1 + b1 + s1 + d1 <= a + b + s + d + (u1 - u)
      BY <2>7
    <3> HIDE DEF a, b, s, h, d, a1, b1, s1, h1, d1, n, u, u1
    <3>5. a1 + b1 + s1 + h1 <= n + u1
      BY <3>1, <3>2, <3>3, <3>4
    <3> QED BY <3>5 DEF a1, b1, s1, h1, n, u1
  <2>10. CommittedAvailable'[p] - AllDue(p)' >= -Overdraft
    <3> DEFINE a == CommittedAvailable[p]   a1 == CommittedAvailable'[p]
               d == AllDue(p)               d1 == AllDue(p)'
               e == Due(call[r], p)         e1 == Due(c, p)
               n == Overdraft
    <3>1. a \in Int /\ d \in Nat /\ e \in Nat /\ a1 \in Int /\ e1 \in Nat
      BY <2>3, <2>4, <2>6
    <3>2. d1 \in Nat /\ d1 <= n /\ n \in Nat
      BY <2>2
    <3>3. a - d >= -n
      BY <2>6
    <3>4. d1 = d - e + e1
      BY <2>8
    <3>5. a1 - e1 >= a - e \/ a1 >= 0
      BY <2>7
    <3> HIDE DEF a, a1, d, d1, e, e1, n
    <3>6. a1 - d1 >= -n
      BY <3>1, <3>2, <3>3, <3>4, <3>5
    <3> QED BY <3>6 DEF a1, d1, n
  <2> QED BY <2>9, <2>10
<1>2. /\ call' \in [Requests -> PlacementCall]
      /\ \A y \in Requests : WellFormed(call'[y])
  <2>1. call' \in [Requests -> PlacementCall]
    BY PlacementFacts DEF WellFormed
  <2> QED BY <2>1, PlacementFacts
<1> QED BY <1>1, <1>2, PlacementFromFacts

LEMMA AfterLineFacts ==
  ASSUME NEW k, WellFormed(k), k.at \in {"check", "deduct"}, NEW phase \in Phases
  PROVE  /\ WellFormed(AfterLine(k, phase))
         /\ AfterLine(k, phase).items = k.items
         /\ \/ /\ AfterLine(k, phase).at = k.at
               /\ AfterLine(k, phase).i = k.i + 1
            \/ /\ AfterLine(k, phase).at = phase
               /\ AfterLine(k, phase).i = 1
               /\ k.i = Len(k.items)
<1>1. /\ k \in PlacementCall /\ k.live = {} /\ k.cart \in Carts /\ k.i \in 1..Len(k.items)
      /\ \A p \in Products : Cardinality(LinesOf(k.items, p)) <= LinesPerProduct
  BY DEF WellFormed
<1>2. k.items \in Seq(Line) /\ Len(k.items) \in Nat /\ k.i \in Nat
  BY <1>1 DEF PlacementCall
<1>3. CASE k.i < Len(k.items)
  <2>1. AfterLine(k, phase) = [k EXCEPT !.i = k.i + 1]
    BY <1>3 DEF AfterLine
  <2>2. AfterLine(k, phase) \in PlacementCall
    BY <1>1, <1>2, <2>1 DEF PlacementCall
  <2>3. /\ AfterLine(k, phase).live = k.live
        /\ AfterLine(k, phase).items = k.items /\ AfterLine(k, phase).cart = k.cart
        /\ AfterLine(k, phase).at = k.at /\ AfterLine(k, phase).i = k.i + 1
    BY <1>1, <2>1 DEF PlacementCall
  <2>4. k.i + 1 \in 1..Len(k.items)
    BY <1>1, <1>2, <1>3
  <2> QED BY <1>1, <2>2, <2>3, <2>4 DEF WellFormed
<1>4. CASE ~(k.i < Len(k.items))
  <2>1. AfterLine(k, phase) = [k EXCEPT !.i = 1, !.at = phase]
    BY <1>4 DEF AfterLine
  <2>2. AfterLine(k, phase) \in PlacementCall
    <3>1. [k EXCEPT !.i = 1] \in PlacementCall
      BY <1>1 DEF PlacementCall
    <3>2. AfterLine(k, phase) = [[k EXCEPT !.i = 1] EXCEPT !.at = phase]
      BY <2>1
    <3> QED BY <3>1, <3>2 DEF PlacementCall
  <2>3. /\ AfterLine(k, phase).live = k.live
        /\ AfterLine(k, phase).items = k.items /\ AfterLine(k, phase).cart = k.cart
        /\ AfterLine(k, phase).at = phase /\ AfterLine(k, phase).i = 1
    BY <1>1, <2>1 DEF PlacementCall
  <2>4. k.i = Len(k.items) /\ 1 \in 1..Len(k.items)
    BY <1>1, <1>2, <1>4
  <2> QED BY <1>1, <2>2, <2>3, <2>4 DEF WellFormed
<1> QED BY <1>3, <1>4

\* What a checked line adds to the units that are due.
LEMMA CheckedLine ==
  ASSUME NEW k, WellFormed(k), k.at = "check", NEW p \in Products
  PROVE  /\ InHand(k, p) = 0 /\ InHand(AfterLine(k, "deduct"), p) = 0
         /\ Due(AfterLine(k, "deduct"), p) = Due(k, p) + LineUnits(k.items, k.i, p)
         /\ LineUnits(k.items, k.i, p) \in Nat
<1> DEFINE c == AfterLine(k, "deduct")
<1>1. /\ c.items = k.items
      /\ \/ c.at = "check" /\ c.i = k.i + 1
         \/ c.at = "deduct" /\ c.i = 1 /\ k.i = Len(k.items)
  BY AfterLineFacts DEF Phases
<1> HIDE DEF c
<1>2. /\ k.items \in Seq(Line) /\ DOMAIN k.items = 1..Len(k.items)
      /\ Len(k.items) \in Nat /\ k.i \in 1..Len(k.items)
  BY DEF WellFormed, PlacementCall
<1>3. UnitsOn(k.items, (1..(k.i - 1)) \cup {k.i}, p)
        = UnitsOn(k.items, 1..(k.i - 1), p) + LineUnits(k.items, k.i, p)
  <2>1. k.i \notin 1..(k.i - 1)
    BY <1>2
  <2> QED BY <1>2, <2>1, UnitsOnMore
<1>4. (1..(k.i - 1)) \cup {k.i} = 1..k.i
  BY <1>2
<1>5. Due(k, p) = UnitsOn(k.items, 1..(k.i - 1), p) /\ InHand(k, p) = 0
  BY DEF Due, InHand
<1>6. LineUnits(k.items, k.i, p) \in Nat
  BY <1>2, LineFields DEF LineUnits
<1>7. InHand(c, p) = 0 /\ Due(c, p) = UnitsOn(k.items, 1..k.i, p)
  <2>1. CASE c.at = "check" /\ c.i = k.i + 1
    <3>1. c.i - 1 = k.i
      BY <1>2, <2>1
    <3> QED BY <1>1, <2>1, <3>1 DEF Due, InHand
  <2>2. CASE c.at = "deduct" /\ c.i = 1 /\ k.i = Len(k.items)
    <3>1. 1..(c.i - 1) = {}
      BY <2>2
    <3>2. InHand(c, p) = UnitsOn(k.items, 1..(c.i - 1), p)
      BY <1>1, <2>2 DEF InHand
    <3>3. InHand(c, p) = 0
      BY <1>2, <3>1, <3>2, UnitsOnNone
    <3>4. Due(c, p) = UnitsOn(k.items, 1..k.i, p)
      BY <1>1, <2>2 DEF Due
    <3> QED BY <3>3, <3>4
  <2> QED BY <1>1, <2>1, <2>2
<1> QED BY <1>3, <1>4, <1>5, <1>6, <1>7 DEF c

\* A deducted line moves from what is due to what is in hand.
LEMMA DeductedLine ==
  ASSUME NEW k, WellFormed(k), k.at = "deduct", NEW p \in Products
  PROVE  /\ InHand(AfterLine(k, "create"), p)
              = InHand(k, p) + LineUnits(k.items, k.i, p)
         /\ Due(k, p) = Due(AfterLine(k, "create"), p) + LineUnits(k.items, k.i, p)
         /\ LineUnits(k.items, k.i, p) \in Nat
<1> DEFINE c == AfterLine(k, "create")
<1>1. /\ c.items = k.items
      /\ \/ c.at = "deduct" /\ c.i = k.i + 1
         \/ c.at = "create" /\ c.i = 1 /\ k.i = Len(k.items)
  BY AfterLineFacts DEF Phases
<1> HIDE DEF c
<1>2. /\ k.items \in Seq(Line) /\ DOMAIN k.items = 1..Len(k.items)
      /\ Len(k.items) \in Nat /\ k.i \in 1..Len(k.items)
  BY DEF WellFormed, PlacementCall
<1>3. UnitsOn(k.items, (1..(k.i - 1)) \cup {k.i}, p)
        = UnitsOn(k.items, 1..(k.i - 1), p) + LineUnits(k.items, k.i, p)
  <2>1. k.i \notin 1..(k.i - 1)
    BY <1>2
  <2> QED BY <1>2, <2>1, UnitsOnMore
<1>4. UnitsOn(k.items, ((k.i + 1)..Len(k.items)) \cup {k.i}, p)
        = UnitsOn(k.items, (k.i + 1)..Len(k.items), p) + LineUnits(k.items, k.i, p)
  <2>1. k.i \notin (k.i + 1)..Len(k.items)
    BY <1>2
  <2> QED BY <1>2, <2>1, UnitsOnMore
<1>5. /\ (1..(k.i - 1)) \cup {k.i} = 1..k.i
      /\ ((k.i + 1)..Len(k.items)) \cup {k.i} = k.i..Len(k.items)
  BY <1>2
<1>6. /\ InHand(k, p) = UnitsOn(k.items, 1..(k.i - 1), p)
      /\ Due(k, p) = UnitsOn(k.items, k.i..Len(k.items), p)
  BY DEF Due, InHand
<1>7. LineUnits(k.items, k.i, p) \in Nat
  BY <1>2, LineFields DEF LineUnits
<1>8. /\ InHand(c, p) = UnitsOn(k.items, 1..k.i, p)
      /\ Due(c, p) = UnitsOn(k.items, (k.i + 1)..Len(k.items), p)
  <2>1. CASE c.at = "deduct" /\ c.i = k.i + 1
    <3>1. c.i - 1 = k.i
      BY <1>2, <2>1
    <3> QED BY <1>1, <2>1, <3>1 DEF Due, InHand
  <2>2. CASE c.at = "create" /\ c.i = 1 /\ k.i = Len(k.items)
    <3>1. (k.i + 1)..Len(k.items) = {} /\ DOMAIN c.items = 1..k.i
      BY <1>1, <1>2, <2>2
    <3>2. Due(c, p) = 0 /\ InHand(c, p) = UnitsOn(c.items, DOMAIN c.items, p)
      BY <2>2 DEF Due, InHand
    <3>3. UnitsOn(k.items, {}, p) = 0
      BY <1>2, UnitsOnNone
    <3> QED BY <1>1, <3>1, <3>2, <3>3
  <2> QED BY <1>1, <2>1, <2>2
<1> QED BY <1>3, <1>4, <1>5, <1>6, <1>7, <1>8 DEF c

\* A call that is not at its lines has nothing in hand, and nothing due.
LEMMA NoLines ==
  ASSUME NEW k, k.at \in {"idle", "gather", "clear", "drop"}, NEW p
  PROVE  InHand(k, p) = 0 /\ Due(k, p) = 0
BY DEF InHand, Due

LEMMA NoCallFacts ==
  /\ WellFormed(NoCall)
  /\ \A p \in Products : InHand(NoCall, p) = 0 /\ Due(NoCall, p) = 0
<1>1. NoCall \in PlacementCall
  <2>1. <<>> \in Seq(Line)
    OBVIOUS
  <2> QED BY <2>1 DEF NoCall, PlacementCall, Phases
<1>2. \A p \in Products : Cardinality(LinesOf(NoCall.items, p)) <= LinesPerProduct
  <2> TAKE p \in Products
  <2>1. LinesOf(NoCall.items, p) = {}
    BY DEF LinesOf, NoCall
  <2>2. Cardinality({}) = 0
    BY FS_EmptySet
  <2> QED BY <2>1, <2>2, OrderAssumption
<1>3. NoCall.at = "idle" /\ NoCall.live = {}
  BY DEF NoCall
<1>4. \A p \in Products : InHand(NoCall, p) = 0 /\ Due(NoCall, p) = 0
  BY <1>3, NoLines
<1> QED BY <1>1, <1>2, <1>3, <1>4 DEF WellFormed

CartsOK == cart \in [Carts -> [Products -> LineQuantities \cup {None}]]

\* A step of a call that leaves the stock, the rows and the transactions alone.
LEMMA QuietStep ==
  ASSUME PlacementInv, UNCHANGED vars
  PROVE  /\ TypeOK' /\ TransactionsProgress'
         /\ \A p \in Products : /\ CommittedAvailable'[p] = CommittedAvailable[p]
                                /\ CommittedReserved'[p] = CommittedReserved[p]
<1>1. TypeOK /\ TransactionsProgress
  BY PlacementFacts
<1>2. TypeOK' /\ TransactionsProgress'
  BY <1>1 DEF TypeOK, TransactionsProgress, vars
<1>3. \A p \in Products : /\ CommittedAvailable'[p] = CommittedAvailable[p]
                          /\ CommittedReserved'[p] = CommittedReserved[p]
  BY DEF CommittedAvailable, CommittedReserved, vars
<1> QED BY <1>2, <1>3

\* The same, when nothing is added to what is due and nothing in hand is lost
\* from an order.
LEMMA QuietCall ==
  ASSUME PlacementInv, UNCHANGED vars, NEW r \in Requests, NEW c, WellFormed(c),
         call' = [call EXCEPT ![r] = c],
         CartsOK', UNCHANGED <<orders, putBack>>,
         \A p \in Products : InHand(c, p) = 0 /\ Due(c, p) = 0
  PROVE  PlacementInv'
<1>1. \A p \in Products :
        /\ CommittedAvailable[p] \in Int /\ CommittedReserved[p] \in Int
        /\ Sold(p) \in Nat /\ InHand(call[r], p) \in Nat /\ Due(call[r], p) \in Nat
  BY PlacementFacts, CallUnits
<1>2. \A p \in Products : Sold(p)' = Sold(p) /\ putBack'[p] - putBack[p] = 0
  <2>1. putBack \in [Products -> Nat]
    BY PlacementFacts
  <2> QED BY <2>1 DEF Sold
<1>3. orders' \in Seq(OrderRow) /\ putBack' \in [Products -> Nat]
  BY PlacementFacts
<1>4. \A p \in Products :
        /\ CommittedAvailable'[p] + CommittedReserved'[p] + Sold(p)' + InHand(c, p)
             <= CommittedAvailable[p] + CommittedReserved[p] + Sold(p)
                  + InHand(call[r], p) + (putBack'[p] - putBack[p])
        /\ CommittedAvailable'[p] - Due(c, p) >= CommittedAvailable[p] - Due(call[r], p)
  BY <1>1, <1>2, QuietStep
<1> QED BY <1>3, <1>4, QuietStep, CallStep DEF CartsOK

\* An item list that a client may send along.
LEMMA FallbackCall ==
  ASSUME NEW c \in Carts, NEW items \in Fallbacks, items # <<>>
  PROVE  /\ WellFormed([at |-> "check", cart |-> c, items |-> items, live |-> {}, i |-> 1])
         /\ items \in Seq(Line)
<1> DEFINE k == [at |-> "check", cart |-> c, items |-> items, live |-> {}, i |-> 1]
<1>1. /\ items \in Seq(Line)
      /\ \A p \in Products : Cardinality(LinesOf(items, p)) <= LinesPerProduct
  BY OrderAssumption, LinesAssumption
<1>2. Len(items) \in Nat /\ Len(items) > 0
  BY <1>1
<1>3. k \in PlacementCall
  BY <1>1 DEF PlacementCall, Phases
<1> QED BY <1>1, <1>2, <1>3 DEF WellFormed

\* A call at its first line to check: nothing is due yet.
LEMMA FirstLine ==
  ASSUME NEW k, k.at = "check", k.i = 1, k.items \in Seq(Line), NEW p
  PROVE  InHand(k, p) = 0 /\ Due(k, p) = 0
<1>1. InHand(k, p) = 0 /\ Due(k, p) = UnitsOn(k.items, 1..(k.i - 1), p)
  BY DEF InHand, Due
<1>2. 1..(k.i - 1) = {}
  OBVIOUS
<1> QED BY <1>1, <1>2, UnitsOnNone

\* A step that changes one call and nothing else.
LEMMA CallOnly ==
  ASSUME PlacementInv, UNCHANGED <<vars, cart, orders, putBack>>,
         NEW r \in Requests, NEW c, WellFormed(c), call' = [call EXCEPT ![r] = c],
         \A p \in Products : InHand(c, p) = 0 /\ Due(c, p) = 0
  PROVE  PlacementInv'
<1>1. CartsOK' /\ UNCHANGED vars /\ UNCHANGED <<orders, putBack>>
  BY PlacementFacts DEF CartsOK
<1> QED BY <1>1, QuietCall

LEMMA FailStep ==
  ASSUME PlacementInv, NEW r \in Requests, call' = [call EXCEPT ![r] = NoCall],
         UNCHANGED <<vars, cart, orders, putBack>>
  PROVE  PlacementInv'
BY NoCallFacts, CallOnly

LEMMA FallbackStep ==
  ASSUME PlacementInv, NEW r \in Requests, NEW c \in Carts, OrderFallback(r, c),
         UNCHANGED <<vars, cart, orders, putBack>>
  PROVE  PlacementInv'
<1>1. PICK items \in Fallbacks :
        call' = [call EXCEPT ![r] =
                   IF items = <<>> THEN NoCall
                   ELSE [at |-> "check", cart |-> c, items |-> items,
                         live |-> {}, i |-> 1]]
  BY DEF OrderFallback
<1>2. CASE items = <<>>
  BY <1>1, <1>2, FailStep
<1>3. CASE items # <<>>
  <2> DEFINE k == [at |-> "check", cart |-> c, items |-> items, live |-> {}, i |-> 1]
  <2>1. call' = [call EXCEPT ![r] = k]
    BY <1>1, <1>3
  <2>2. WellFormed(k) /\ k.items \in Seq(Line) /\ k.at = "check" /\ k.i = 1
    BY <1>3, FallbackCall
  <2> HIDE DEF k
  <2> QED BY <2>1, <2>2, FirstLine, CallOnly
<1> QED BY <1>2, <1>3

LEMMA BeginOrderStep ==
  ASSUME PlacementInv, NEW r \in Requests, NEW c \in Carts, Begin(r, c)
  PROVE  PlacementInv'
<1>1. UNCHANGED <<vars, cart, orders, putBack>>
  BY DEF Begin
<1>2. CASE cart[c] = EmptyCart
  BY <1>1, <1>2, FallbackStep DEF Begin
<1>3. CASE cart[c] # EmptyCart
  <2>1. PICK items \in CartLines(c) :
          call' = [call EXCEPT ![r] = [at |-> "gather", cart |-> c, items |-> items,
                                       live |-> InCart(c), i |-> 1]]
    BY <1>3 DEF Begin
  <2> DEFINE k == [at |-> "gather", cart |-> c, items |-> items,
                   live |-> InCart(c), i |-> 1]
  <2>2. /\ items \in Seq(Line) /\ items # <<>>
        /\ \A p \in Products : Cardinality(LinesOf(items, p)) <= LinesPerProduct
    BY <1>3, PlacementFacts, CartLinesType
  <2>3. Len(items) \in Nat /\ Len(items) > 0
    BY <2>2
  <2>4. k \in PlacementCall
    BY <2>2 DEF PlacementCall, Phases, InCart
  <2>5. WellFormed(k)
    BY <2>2, <2>3, <2>4 DEF WellFormed
  <2>6. k.at = "gather" /\ call' = [call EXCEPT ![r] = k]
    BY <2>1
  <2> HIDE DEF k
  <2>7. \A p \in Products : InHand(k, p) = 0 /\ Due(k, p) = 0
    BY <2>6, NoLines
  <2> QED BY <1>1, <2>5, <2>6, <2>7, CallOnly
<1> QED BY <1>2, <1>3

LEMMA CopyLineStep ==
  ASSUME PlacementInv, NEW r \in Requests, NEW p \in Products, CopyLine(r, p)
  PROVE  PlacementInv'
<1> DEFINE k == call[r]
           c == [k EXCEPT !.live = k.live \ {p}]
<1>1. /\ k.at = "gather" /\ call' = [call EXCEPT ![r] = c]
      /\ UNCHANGED <<vars, cart, orders, putBack>>
  BY PlacementFacts DEF CopyLine
<1>2. WellFormed(k) /\ k \in PlacementCall
  BY PlacementFacts
<1>3. /\ c.at = "gather" /\ c.items = k.items /\ c.i = k.i /\ c.cart = k.cart
      /\ c \in PlacementCall
  BY <1>1, <1>2 DEF PlacementCall
<1>4. WellFormed(c)
  BY <1>1, <1>2, <1>3 DEF WellFormed
<1> HIDE DEF c
<1>5. \A y \in Products : InHand(c, y) = 0 /\ Due(c, y) = 0
  BY <1>3, NoLines
<1> QED BY <1>1, <1>4, <1>5, CallOnly

\* Every line is copied: the call goes on with its first one.
LEMMA GatheredStep ==
  ASSUME PlacementInv, NEW r \in Requests, Gathered(r)
  PROVE  PlacementInv'
<1> DEFINE k == call[r]
           c == [k EXCEPT !.at = "check"]
<1>1. /\ k.at = "gather" /\ k.live = {} /\ call' = [call EXCEPT ![r] = c]
      /\ UNCHANGED <<vars, cart, orders, putBack>>
  BY PlacementFacts DEF Gathered
<1>2. WellFormed(k) /\ k \in PlacementCall /\ k.i = 1
  BY <1>1, PlacementFacts DEF WellFormed
<1>3. /\ c.at = "check" /\ c.items = k.items /\ c.i = 1 /\ c.cart = k.cart
      /\ c.live = {} /\ c \in PlacementCall /\ c.items \in Seq(Line)
  BY <1>1, <1>2 DEF PlacementCall, Phases
<1>4. WellFormed(c)
  BY <1>1, <1>2, <1>3 DEF WellFormed
<1> HIDE DEF c
<1> QED BY <1>1, <1>3, <1>4, FirstLine, CallOnly

LEMMA GatherFailsStep ==
  ASSUME PlacementInv, NEW r \in Requests, GatherFails(r)
  PROVE  PlacementInv'
<1>1. call[r].cart \in Carts
  BY PlacementFacts DEF GatherFails, WellFormed
<1> QED BY <1>1, FallbackStep DEF GatherFails

\* A line that passes its check finds its units in stock: what becomes due is
\* there at that moment.
LEMMA CheckStep ==
  ASSUME PlacementInv, NEW r \in Requests, Check(r)
  PROVE  PlacementInv'
<1> DEFINE k == call[r]
           c == AfterLine(k, "deduct")
<1>1. k.at = "check" /\ UNCHANGED <<vars, cart, orders, putBack>>
  BY DEF Check
<1>2. CASE CommittedAvailable[LineOf(r).product] < LineOf(r).quantity
  BY <1>2, FailStep DEF Check
<1>3. CASE ~(CommittedAvailable[LineOf(r).product] < LineOf(r).quantity)
  <2>1. call' = [call EXCEPT ![r] = c]
    BY <1>3, PlacementFacts DEF Check, Advance
  <2>2. WellFormed(k) /\ WellFormed(c)
    BY <1>1, PlacementFacts, AfterLineFacts DEF Phases
  <2>3. k.items \in Seq(Line) /\ k.i \in DOMAIN k.items
    BY <1>1, <2>2 DEF WellFormed, PlacementCall
  <2>4. ASSUME NEW p \in Products
        PROVE  /\ CommittedAvailable'[p] + CommittedReserved'[p] + Sold(p)' + InHand(c, p)
                    <= CommittedAvailable[p] + CommittedReserved[p] + Sold(p)
                         + InHand(k, p) + (putBack'[p] - putBack[p])
               /\ \/ CommittedAvailable'[p] - Due(c, p)
                       >= CommittedAvailable[p] - Due(k, p)
                  \/ CommittedAvailable'[p] >= 0
    <3>1. /\ InHand(k, p) = 0 /\ InHand(c, p) = 0
          /\ Due(c, p) = Due(k, p) + LineUnits(k.items, k.i, p)
      BY <1>1, <2>2, CheckedLine
    <3>2. /\ CommittedAvailable[p] \in Int /\ CommittedReserved[p] \in Int
          /\ Sold(p) \in Nat /\ Due(k, p) \in Nat
      BY <2>2, PlacementFacts, CallUnits
    <3>3. /\ CommittedAvailable'[p] = CommittedAvailable[p]
          /\ CommittedReserved'[p] = CommittedReserved[p] /\ Sold(p)' = Sold(p)
          /\ putBack'[p] - putBack[p] = 0
      <4>1. putBack \in [Products -> Nat]
        BY PlacementFacts
      <4> QED BY <1>1, <4>1, QuietStep DEF Sold
    <3>4. CASE k.items[k.i].product = p /\ k.items[k.i].quantity > 0
      <4>1. k.items[k.i].quantity \in Nat
        BY <2>3, <3>4, LineFields
      <4>2. ~(CommittedAvailable[p] < k.items[k.i].quantity)
        BY <1>3, <3>4 DEF LineOf
      <4>3. CommittedAvailable[p] >= 0
        BY <3>2, <4>1, <4>2
      <4> QED BY <3>1, <3>2, <3>3, <4>3
    <3>5. CASE ~(k.items[k.i].product = p /\ k.items[k.i].quantity > 0)
      <4>1. Due(c, p) = Due(k, p)
        BY <3>1, <3>2, <3>5 DEF LineUnits, Taken
      <4> QED BY <3>1, <3>2, <3>3, <4>1
    <3> QED BY <3>4, <3>5
  <2>5. /\ CartsOK' /\ putBack' \in [Products -> Nat] /\ orders' \in Seq(OrderRow)
        /\ TypeOK' /\ TransactionsProgress'
    BY <1>1, PlacementFacts, QuietStep DEF CartsOK
  <2> HIDE DEF c
  <2> QED BY <2>1, <2>2, <2>4, <2>5, CallStep DEF CartsOK
<1> QED BY <1>2, <1>3

\* A deducted line leaves the stock, and is in hand; a negative one is put there.
LEMMA DeductStep ==
  ASSUME PlacementInv, NEW r \in Requests, Deduct(r)
  PROVE  PlacementInv'
<1> DEFINE k == call[r]
           c == AfterLine(k, "create")
           line == k.items[k.i]
           Units1(p) == LineUnits(k.items, k.i, p)
           Back(p) == IF line.product = p THEN Returned(line) ELSE 0
<1>1. /\ k.at = "deduct" /\ lock[line.product] = None
      /\ available' = [available EXCEPT ![line.product] = @ - line.quantity]
      /\ putBack' = [putBack EXCEPT ![line.product] = @ + Returned(line)]
      /\ UNCHANGED <<reserved, lock, before, rowVars, now, tx, cart, orders>>
  BY DEF Deduct, LineOf
<1>2. call' = [call EXCEPT ![r] = c]
  BY PlacementFacts DEF Deduct, Advance
<1>3. WellFormed(k) /\ WellFormed(c)
  BY <1>1, PlacementFacts, AfterLineFacts DEF Phases
<1>4. /\ line.product \in Products /\ line.quantity \in Int
      /\ Taken(line) \in Nat /\ Returned(line) \in Nat
      /\ Taken(line) - Returned(line) = line.quantity
  <2>1. k.items \in Seq(Line) /\ k.i \in DOMAIN k.items
    BY <1>1, <1>3 DEF WellFormed, PlacementCall
  <2> QED BY <2>1, LineFields
<1>5. TypeOK /\ TransactionsProgress /\ putBack \in [Products -> Nat]
  BY PlacementFacts
<1>6. \A p \in Products :
        /\ Units1(p) \in Nat /\ Back(p) \in Nat /\ putBack[p] \in Nat
        /\ available'[p] = available[p] - Units1(p) + Back(p)
        /\ putBack'[p] = putBack[p] + Back(p)
  <2> TAKE p \in Products
  <2>1. available[p] \in Int /\ putBack[p] \in Nat
    BY <1>5 DEF TypeOK
  <2>2. CASE line.product = p
    <3>1. Units1(p) = Taken(line) /\ Back(p) = Returned(line)
      BY <2>2 DEF LineUnits
    <3>2. /\ available'[p] = available[p] - line.quantity
          /\ putBack'[p] = putBack[p] + Returned(line)
      BY <1>1, <1>5, <2>2 DEF TypeOK
    <3> HIDE DEF line, Units1, Back
    <3> QED BY <1>4, <2>1, <3>1, <3>2
  <2>3. CASE line.product # p
    <3>1. Units1(p) = 0 /\ Back(p) = 0
      BY <2>3 DEF LineUnits
    <3>2. available'[p] = available[p] /\ putBack'[p] = putBack[p]
      BY <1>1, <1>5, <2>3 DEF TypeOK
    <3> HIDE DEF line, Units1, Back
    <3> QED BY <2>1, <3>1, <3>2
  <2> QED BY <2>2, <2>3
<1>7. available' \in [Products -> Int] /\ putBack' \in [Products -> Nat]
  <2> HIDE DEF line
  <2> QED BY <1>1, <1>4, <1>5 DEF TypeOK
<1>8. TypeOK'
  BY <1>1, <1>5, <1>7 DEF TypeOK, rowVars
<1>9. TransactionsProgress'
  BY <1>1, <1>4, <1>5 DEF TransactionsProgress, TypeOK
<1>10. ASSUME NEW p \in Products
       PROVE  /\ CommittedAvailable'[p] = CommittedAvailable[p] - Units1(p) + Back(p)
              /\ CommittedReserved'[p] = CommittedReserved[p]
  <2>1. CASE lock[p] = None
    <3>1. /\ CommittedAvailable'[p] = available'[p] /\ CommittedAvailable[p] = available[p]
          /\ CommittedReserved'[p] = CommittedReserved[p]
      BY <1>1, <2>1 DEF CommittedAvailable, CommittedReserved
    <3> QED BY <1>6, <3>1
  <2>2. CASE lock[p] # None
    <3>1. Units1(p) = 0 /\ Back(p) = 0
      BY <1>1, <2>2 DEF LineUnits
    <3>2. CommittedAvailable[p] \in Int
      BY <1>5, CommittedType
    <3>3. /\ CommittedAvailable'[p] = CommittedAvailable[p]
          /\ CommittedReserved'[p] = CommittedReserved[p]
      BY <1>1, <2>2 DEF CommittedAvailable, CommittedReserved
    <3> HIDE DEF Units1, Back
    <3> QED BY <3>1, <3>2, <3>3
  <2> QED BY <2>1, <2>2
<1>11. ASSUME NEW p \in Products
       PROVE  /\ CommittedAvailable'[p] + CommittedReserved'[p] + Sold(p)' + InHand(c, p)
                   <= CommittedAvailable[p] + CommittedReserved[p] + Sold(p)
                        + InHand(k, p) + (putBack'[p] - putBack[p])
              /\ CommittedAvailable'[p] - Due(c, p) >= CommittedAvailable[p] - Due(k, p)
  <2>1. /\ InHand(c, p) = InHand(k, p) + Units1(p)
        /\ Due(k, p) = Due(c, p) + Units1(p)
    BY <1>1, <1>3, DeductedLine
  <2>2. /\ CommittedAvailable[p] \in Int /\ CommittedReserved[p] \in Int
        /\ Sold(p) \in Nat /\ InHand(k, p) \in Nat /\ Due(c, p) \in Nat
    BY <1>3, PlacementFacts, CallUnits
  <2>3. Sold(p)' = Sold(p)
    BY <1>1 DEF Sold
  <2>4. /\ Units1(p) \in Nat /\ Back(p) \in Nat /\ putBack[p] \in Nat
        /\ putBack'[p] = putBack[p] + Back(p)
    BY <1>6
  <2> HIDE DEF k, c, Units1, Back
  <2> QED BY <1>10, <2>1, <2>2, <2>3, <2>4
<1>12. CartsOK' /\ orders' \in Seq(OrderRow)
  BY <1>1, PlacementFacts DEF CartsOK
<1> HIDE DEF c
<1> QED BY <1>2, <1>3, <1>7, <1>8, <1>9, <1>11, <1>12, CallStep DEF CartsOK

\* What was in hand is on the order.
LEMMA CreateRowStep ==
  ASSUME PlacementInv, NEW r \in Requests, CreateRow(r)
  PROVE  PlacementInv'
<1> DEFINE k == call[r]
           c == [k EXCEPT !.at = "clear"]
           order == [by |-> r, items |-> k.items]
<1>1. /\ k.at = "create" /\ UNCHANGED vars /\ UNCHANGED <<cart, putBack>>
      /\ orders' = Append(orders, order)
      /\ call' = [call EXCEPT ![r].at = "clear"]
  BY DEF CreateRow
<1>2. WellFormed(k) /\ k \in PlacementCall
  BY PlacementFacts
<1>3. call' = [call EXCEPT ![r] = c]
  BY <1>1
<1>4. /\ c.at = "clear" /\ c.items = k.items /\ c.i = k.i /\ c.cart = k.cart
      /\ c.live = k.live /\ c \in PlacementCall
  BY <1>2 DEF PlacementCall, Phases
<1>5. WellFormed(c)
  BY <1>1, <1>2, <1>4 DEF WellFormed
<1>6. order \in OrderRow
  BY <1>2 DEF PlacementCall, OrderRow
<1>7. /\ orders' \in Seq(OrderRow)
      /\ \A p \in Products :
            Sold(p)' = Sold(p) + UnitsOn(k.items, DOMAIN k.items, p)
  <2>1. order.items = k.items
    OBVIOUS
  <2> HIDE DEF order
  <2> QED BY <1>1, <1>6, <2>1, PlacementFacts, SoldMore
<1>8. ASSUME NEW p \in Products
      PROVE  /\ CommittedAvailable'[p] + CommittedReserved'[p] + Sold(p)' + InHand(c, p)
                  <= CommittedAvailable[p] + CommittedReserved[p] + Sold(p)
                       + InHand(k, p) + (putBack'[p] - putBack[p])
             /\ CommittedAvailable'[p] - Due(c, p) >= CommittedAvailable[p] - Due(k, p)
  <2>1. /\ CommittedAvailable'[p] = CommittedAvailable[p]
        /\ CommittedReserved'[p] = CommittedReserved[p]
        /\ putBack'[p] - putBack[p] = 0
    <3>1. putBack \in [Products -> Nat]
      BY PlacementFacts
    <3> QED BY <1>1, <3>1, QuietStep
  <2>2. InHand(c, p) = 0 /\ Due(c, p) = 0
    <3> HIDE DEF c
    <3> QED BY <1>4, NoLines
  <2>3. InHand(k, p) = UnitsOn(k.items, DOMAIN k.items, p) /\ Due(k, p) = 0
    BY <1>1 DEF InHand, Due
  <2>4. /\ CommittedAvailable[p] \in Int /\ CommittedReserved[p] \in Int
        /\ Sold(p) \in Nat /\ InHand(k, p) \in Nat
    BY <1>2, PlacementFacts, CallUnits
  <2>5. Sold(p)' = Sold(p) + InHand(k, p)
    BY <1>7, <2>3
  <2> HIDE DEF c, k
  <2> QED BY <2>1, <2>2, <2>3, <2>4, <2>5
<1>9. CartsOK' /\ TypeOK' /\ TransactionsProgress' /\ putBack' \in [Products -> Nat]
  BY <1>1, PlacementFacts, QuietStep DEF CartsOK
<1> HIDE DEF c
<1> QED BY <1>3, <1>5, <1>7, <1>8, <1>9, CallStep DEF CartsOK

\* The rows go, and no counter moves.
LEMMA DropStep ==
  ASSUME PlacementInv, NEW r \in Requests, DropReservations(r)
  PROVE  PlacementInv'
<1> DEFINE k == call[r]
<1>1. /\ k.at = "drop" /\ call' = [call EXCEPT ![r] = NoCall]
      /\ live' \subseteq live
      /\ UNCHANGED <<available, reserved, lock, before, reservation, expiration, now, tx>>
      /\ UNCHANGED <<cart, orders, putBack>>
  BY DEF DropReservations, stockVars
<1>2. TypeOK' /\ TransactionsProgress'
  <2>1. TypeOK /\ TransactionsProgress
    BY PlacementFacts
  <2>2. TypeOK'
    BY <1>1, <2>1 DEF TypeOK
  <2>3. TransactionsProgress'
    BY <1>1, <2>1 DEF TransactionsProgress
  <2> QED BY <2>2, <2>3
<1>3. ASSUME NEW p \in Products
      PROVE  /\ CommittedAvailable'[p] + CommittedReserved'[p] + Sold(p)'
                    + InHand(NoCall, p)
                  <= CommittedAvailable[p] + CommittedReserved[p] + Sold(p)
                       + InHand(k, p) + (putBack'[p] - putBack[p])
             /\ CommittedAvailable'[p] - Due(NoCall, p)
                  >= CommittedAvailable[p] - Due(k, p)
  <2>1. /\ CommittedAvailable'[p] = CommittedAvailable[p]
        /\ CommittedReserved'[p] = CommittedReserved[p]
        /\ Sold(p)' = Sold(p) /\ putBack'[p] - putBack[p] = 0
    <3>1. putBack \in [Products -> Nat]
      BY PlacementFacts
    <3> QED BY <1>1, <3>1 DEF CommittedAvailable, CommittedReserved, Sold
  <2>2. /\ CommittedAvailable[p] \in Int /\ CommittedReserved[p] \in Int
        /\ Sold(p) \in Nat
    BY PlacementFacts
  <2>3. InHand(k, p) = 0 /\ Due(k, p) = 0
    BY <1>1, NoLines
  <2> QED BY <2>1, <2>2, <2>3, NoCallFacts
<1>4. CartsOK' /\ orders' \in Seq(OrderRow) /\ putBack' \in [Products -> Nat]
  BY <1>1, PlacementFacts DEF CartsOK
<1> QED BY <1>1, <1>2, <1>3, <1>4, NoCallFacts, CallStep DEF CartsOK

\* A step that is of no call.
LEMMA OtherStep ==
  ASSUME PlacementInv, TypeOK', TransactionsProgress', CartsOK',
         UNCHANGED <<orders, putBack>>,
         call' \in [Requests -> PlacementCall],
         \A r \in Requests : WellFormed(call'[r]),
         \A r \in Requests, p \in Products :
            /\ InHand(call'[r], p) <= InHand(call[r], p)
            /\ Due(call'[r], p) <= Due(call[r], p),
         \A p \in Products : ItemKept(p)
  PROVE  PlacementInv'
<1>1. ASSUME NEW p \in Products
      PROVE  /\ CommittedAvailable'[p] + CommittedReserved'[p] + Sold(p)' + AllInHand(p)'
                  <= Stock[p] + putBack'[p]
             /\ CommittedAvailable'[p] - AllDue(p)' >= -Overdraft
  <2> DEFINE k == call'
             h == AllInHand(p)    h1 == AllInHand(p)'
             d == AllDue(p)       d1 == AllDue(p)'
             a == CommittedAvailable[p]   a1 == CommittedAvailable'[p]
             b == CommittedReserved[p]    b1 == CommittedReserved'[p]
             s == Sold(p)
  <2>1. /\ h1 = Total([r \in Requests |-> InHand(k[r], p)])
        /\ d1 = Total([r \in Requests |-> Due(k[r], p)])
    BY DEF AllInHand, AllDue
  <2>2. \A r \in Requests : WellFormed(k[r])
    OBVIOUS
  <2>3. \A r \in Requests : /\ InHand(k[r], p) <= InHand(call[r], p)
                            /\ Due(k[r], p) <= Due(call[r], p)
    OBVIOUS
  <2>4. h1 <= h /\ d1 <= d
    <3> HIDE DEF k
    <3> DEFINE f == [r \in Requests |-> InHand(call[r], p)]
               nf == [r \in Requests |-> InHand(k[r], p)]
               g == [r \in Requests |-> Due(call[r], p)]
               ng == [r \in Requests |-> Due(k[r], p)]
    <3>1. /\ f \in [Requests -> Nat] /\ nf \in [Requests -> Nat]
          /\ g \in [Requests -> Nat] /\ ng \in [Requests -> Nat]
      BY <2>2, PlacementFacts, CallUnits
    <3>2. \A r \in Requests : nf[r] <= f[r] /\ ng[r] <= g[r]
      BY <2>3
    <3>3. /\ h = Total(f) /\ h1 = Total(nf) /\ d = Total(g) /\ d1 = Total(ng)
      BY <2>1 DEF AllInHand, AllDue
    <3> HIDE DEF f, nf, g, ng
    <3>4. Total(nf) <= Total(f)
      BY <3>1, <3>2, RequestTotal, TotalGrows
    <3>5. Total(ng) <= Total(g)
      BY <3>1, <3>2, RequestTotal, TotalGrows
    <3> QED BY <3>3, <3>4, <3>5
  <2>5. h1 \in Nat /\ d1 \in Nat /\ d1 <= Overdraft /\ Overdraft \in Nat
    <3> HIDE DEF k
    <3> QED BY <2>1, <2>2, CallTotals
  <2>6. /\ a \in Int /\ b \in Int /\ s \in Nat /\ h \in Nat /\ d \in Nat
        /\ a + b + s + h <= Stock[p] + putBack[p] /\ a - d >= -Overdraft
    BY PlacementFacts
  <2>7. /\ a1 \in Int /\ b1 \in Int /\ a1 + b1 = a + b
        /\ a1 >= a \/ a1 >= 0
    BY DEF ItemKept
  <2>8. Sold(p)' = s
    BY DEF Sold
  <2>9. Stock[p] \in Nat /\ putBack[p] \in Nat /\ putBack'[p] = putBack[p]
    BY StockAssumption, PlacementFacts
  <2> DEFINE n == Stock[p] + putBack[p]
  <2>10. n \in Nat /\ a + b + s + h <= n
    BY <2>6, <2>9
  <2> HIDE DEF k, h, h1, d, d1, a, a1, b, b1, s, n
  <2>11. a1 + b1 + s + h1 <= n
    BY <2>4, <2>5, <2>6, <2>7, <2>10
  <2>12. a1 - d1 >= -Overdraft
    BY <2>4, <2>5, <2>6, <2>7
  <2> QED BY <2>8, <2>9, <2>11, <2>12 DEF a1, b1, h1, d1, n
<1>2. orders' \in Seq(OrderRow) /\ putBack' \in [Products -> Nat]
  BY PlacementFacts
<1> QED BY <1>1, <1>2, PlacementFromFacts DEF CartsOK

\* A step that moves no unit and changes what any number of calls have read of
\* their carts.
LEMMA CartStep ==
  ASSUME PlacementInv, UNCHANGED <<vars, orders, putBack>>, CartsOK',
         call' \in [Requests -> PlacementCall],
         \A r \in Requests :
            /\ WellFormed(call'[r])
            /\ \/ call'[r] = call[r]
               \/ call'[r].at \in {"gather", "drop"}
  PROVE  PlacementInv'
<1>1. UNCHANGED vars /\ UNCHANGED <<orders, putBack>>
  OBVIOUS
<1>2. TypeOK' /\ TransactionsProgress' /\ \A p \in Products : ItemKept(p)
  BY <1>1, PlacementFacts, QuietStep DEF ItemKept
<1>3. ASSUME NEW r \in Requests, NEW p \in Products
      PROVE  /\ InHand(call'[r], p) <= InHand(call[r], p)
             /\ Due(call'[r], p) <= Due(call[r], p)
  <2>1. InHand(call[r], p) \in Nat /\ Due(call[r], p) \in Nat
    BY PlacementFacts, CallUnits
  <2>2. CASE call'[r] = call[r]
    BY <2>1, <2>2
  <2>3. CASE call'[r].at \in {"gather", "drop"}
    <3> DEFINE k == call'[r]
    <3>1. k.at \in {"gather", "drop"}
      BY <2>3
    <3> HIDE DEF k
    <3>2. InHand(k, p) = 0 /\ Due(k, p) = 0
      BY <3>1, NoLines
    <3> QED BY <2>1, <3>2 DEF k
  <2> QED BY <2>2, <2>3
<1> QED BY <1>1, <1>2, <1>3, OtherStep

\* The cart is emptied; calls that are reading it keep what they have.
LEMMA ClearCartStep ==
  ASSUME PlacementInv, NEW r \in Requests, ClearCart(r)
  PROVE  PlacementInv'
<1>1. /\ call[r].at = "clear" /\ UNCHANGED <<vars, orders, putBack>>
      /\ cart' = [cart EXCEPT ![call[r].cart] = EmptyCart]
      /\ call' = [s \in Requests |->
                    IF s = r THEN [call[s] EXCEPT !.at = "drop"]
                    ELSE IF call[s].cart = call[r].cart
                         THEN [call[s] EXCEPT !.live = {}]
                    ELSE call[s]]
  BY DEF ClearCart
<1>2. CartsOK'
  BY <1>1, PlacementFacts DEF CartsOK, EmptyCart
<1>3. ASSUME NEW s \in Requests
      PROVE  /\ WellFormed(call'[s]) /\ call'[s] \in PlacementCall
             /\ call'[s] = call[s] \/ call'[s].at \in {"gather", "drop"}
  <2> DEFINE k == call[s]
             d == [k EXCEPT !.at = "drop"]
             e == [k EXCEPT !.live = {}]
  <2>1. WellFormed(k) /\ k \in PlacementCall
    BY PlacementFacts
  <2>2. CASE s = r
    <3>1. call'[s] = d /\ k.at = "clear"
      BY <1>1, <2>2
    <3>2. /\ d \in PlacementCall /\ d.at = "drop" /\ d.items = k.items
          /\ d.cart = k.cart /\ d.i = k.i /\ d.live = k.live
      BY <2>1 DEF PlacementCall, Phases
    <3>3. WellFormed(d)
      BY <2>1, <3>1, <3>2 DEF WellFormed
    <3> HIDE DEF d
    <3> QED BY <3>1, <3>2, <3>3
  <2>3. CASE s # r /\ k.cart = call[r].cart
    <3>1. call'[s] = e
      BY <1>1, <2>3
    <3>2. /\ e \in PlacementCall /\ e.at = k.at /\ e.items = k.items
          /\ e.cart = k.cart /\ e.i = k.i /\ e.live = {}
      BY <2>1 DEF PlacementCall
    <3>3. WellFormed(e)
      BY <2>1, <3>2 DEF WellFormed
    <3>4. k.at = "gather" \/ e = k
      BY <2>1 DEF WellFormed, PlacementCall
    <3> HIDE DEF e
    <3> QED BY <3>1, <3>2, <3>3, <3>4
  <2>4. CASE s # r /\ k.cart # call[r].cart
    BY <1>1, <2>1, <2>4
  <2> QED BY <2>2, <2>3, <2>4
<1>4. call' \in [Requests -> PlacementCall]
  <2> DEFINE new == call'
  <2>1. DOMAIN new = Requests /\ new = [s \in Requests |-> new[s]]
    BY <1>1
  <2>2. \A s \in Requests : new[s] \in PlacementCall
    BY <1>3
  <2> HIDE DEF new
  <2>3. new \in [Requests -> PlacementCall]
    BY <2>1, <2>2
  <2> QED BY <2>3 DEF new
<1> QED BY <1>1, <1>2, <1>3, <1>4, CartStep


LEMMA InitPlacement == PlacementInit => PlacementInv
<1> SUFFICES ASSUME PlacementInit PROVE PlacementInv
  OBVIOUS
<1>1. /\ Init /\ cart = [c \in Carts |-> EmptyCart] /\ orders = <<>>
      /\ call = [r \in Requests |-> NoCall]
      /\ putBack = [p \in Products |-> 0]
  BY DEF PlacementInit
<1>2. TypeOK /\ TransactionsProgress
  <2>1. TypeOK
    BY <1>1, InitIInv DEF IInv
  <2>2. TransactionsProgress
    BY <1>1 DEF Init, Idle, TransactionsProgress
  <2> QED BY <2>1, <2>2
<1>3. CartsOK /\ putBack \in [Products -> Nat]
  BY <1>1 DEF CartsOK, EmptyCart
<1>4. /\ call \in [Requests -> PlacementCall]
      /\ \A r \in Requests : WellFormed(call[r])
  BY <1>1, NoCallFacts DEF WellFormed
<1>5. orders \in Seq(OrderRow) /\ DOMAIN orders = {}
  BY <1>1
<1>6. PlacementTypeOK
  <2>1. Range(orders) = {}
    BY <1>5 DEF Range
  <2>2. \A r \in Requests :
          /\ call[r].at \in Phases /\ call[r].items \in Seq(Line)
          /\ call[r].live \subseteq Products
          /\ call[r].at # "idle" => call[r].i \in 1..Len(call[r].items)
    BY <1>4 DEF WellFormed, PlacementCall
  <2> QED BY <1>2, <1>3, <2>1, <2>2 DEF PlacementTypeOK, CartsOK
<1>7. ASSUME NEW p \in Products PROVE SoldOrInHand(p) /\ DueBounded(p)
  <2>1. CommittedAvailable[p] = Stock[p] /\ CommittedReserved[p] = 0
    BY <1>1, StockAssumption DEF Init, CommittedAvailable, CommittedReserved
  <2>2. Sold(p) = 0
    <3> DEFINE f == [o \in DOMAIN orders |->
                       UnitsOn(orders[o].items, DOMAIN orders[o].items, p)]
    <3>1. f \in [{} -> Nat] /\ \A o \in {} : f[o] = 0
      BY <1>5
    <3>2. Sold(p) = Total(f)
      BY DEF Sold
    <3> HIDE DEF f
    <3> QED BY <3>1, <3>2, TotalOfNothing
  <2>3. Total([r \in Requests |-> InHand(call[r], p)]) = 0
    <3> DEFINE f == [r \in Requests |-> InHand(call[r], p)]
    <3>1. f \in [Requests -> Nat] /\ \A r \in Requests : f[r] = 0
      BY <1>1, NoCallFacts
    <3> HIDE DEF f
    <3>2. Total(f) = 0
      BY <3>1, TotalOfNothing
    <3> QED BY <3>2 DEF f
  <2>4. Total([r \in Requests |-> Due(call[r], p)]) = 0
    <3> DEFINE f == [r \in Requests |-> Due(call[r], p)]
    <3>1. f \in [Requests -> Nat] /\ \A r \in Requests : f[r] = 0
      BY <1>1, NoCallFacts
    <3> HIDE DEF f
    <3>2. Total(f) = 0
      BY <3>1, TotalOfNothing
    <3> QED BY <3>2 DEF f
  <2>5. Stock[p] \in Nat /\ Overdraft \in Nat
    BY <1>4, StockAssumption, AllUnits
  <2>6. SoldOrInHand(p)
    <3>1. putBack[p] = 0
      BY <1>1
    <3> QED BY <2>1, <2>2, <2>3, <2>5, <3>1 DEF SoldOrInHand
  <2>7. DueBounded(p)
    <3>1. Stock[p] - 0 >= -Overdraft
      BY <2>5
    <3> QED BY <2>1, <2>4, <3>1 DEF DueBounded
  <2> QED BY <2>6, <2>7
<1> QED BY <1>2, <1>4, <1>5, <1>6, <1>7 DEF PlacementInv, OrderRow

\* The steps of the transactions touch neither orders nor calls.
LEMMA TransactionStep ==
  ASSUME PlacementInv, Next, UNCHANGED orderVars
  PROVE  PlacementInv'
<1>1. /\ TypeOK' /\ TransactionsProgress' /\ \A p \in Products : ItemKept(p)
      /\ UNCHANGED <<cart, orders, call, putBack>>
  BY PlacementFacts, NextItems DEF orderVars
<1>2. /\ CartsOK' /\ call' \in [Requests -> PlacementCall]
      /\ \A r \in Requests : WellFormed(call'[r])
  BY <1>1, PlacementFacts DEF CartsOK
<1>3. \A r \in Requests, p \in Products :
         /\ InHand(call'[r], p) <= InHand(call[r], p)
         /\ Due(call'[r], p) <= Due(call[r], p)
  BY <1>1, PlacementFacts, CallUnits
<1> QED BY <1>1, <1>2, <1>3, OtherStep

\* What a call has of a cart stays a list of as many lines of each product.
LEMMA SeesFacts ==
  ASSUME NEW k, WellFormed(k), NEW c, NEW p \in Products,
         NEW q \in LineQuantities \cup {None}
  PROVE  /\ WellFormed(Sees(k, c, p, q)) /\ Sees(k, c, p, q) \in PlacementCall
         /\ Sees(k, c, p, q) = k \/ Sees(k, c, p, q).at = "gather"
<1>1. /\ k \in PlacementCall /\ k.items \in Seq(Line) /\ k.live \subseteq Products
      /\ k.live # {} => k.at = "gather"
  BY DEF WellFormed, PlacementCall
<1>2. CASE k.cart # c \/ p \notin k.live
  BY <1>1, <1>2 DEF Sees
<1>3. CASE k.cart = c /\ p \in k.live /\ q = None
  <2> DEFINE d == [k EXCEPT !.live = k.live \ {p}]
  <2>1. Sees(k, c, p, q) = d /\ k.at = "gather"
    BY <1>1, <1>3 DEF Sees
  <2>2. /\ d \in PlacementCall /\ d.at = k.at /\ d.items = k.items
        /\ d.cart = k.cart /\ d.i = k.i
    BY <1>1 DEF PlacementCall
  <2>3. WellFormed(d)
    BY <2>1, <2>2 DEF WellFormed
  <2> HIDE DEF d
  <2> QED BY <2>1, <2>2, <2>3
<1>4. CASE k.cart = c /\ p \in k.live /\ q # None
  <2> DEFINE items == Write(k.items, p, q)
             d == [k EXCEPT !.items = items]
  <2>1. Sees(k, c, p, q) = d /\ k.at = "gather" /\ q \in LineQuantities
    BY <1>1, <1>4 DEF Sees
  <2>2. /\ items \in Seq(Line) /\ DOMAIN items = DOMAIN k.items
        /\ Len(items) = Len(k.items)
        /\ \A i \in DOMAIN items : items[i].product = k.items[i].product
    <3> DEFINE n == Len(k.items)
    <3>1. n \in Nat /\ DOMAIN k.items = 1..n /\ \A i \in 1..n : k.items[i] \in Line
      BY <1>1, EachOf
    <3>2. \A line \in Line : /\ [line EXCEPT !.quantity = q] \in Line
                             /\ [line EXCEPT !.quantity = q].product = line.product
      BY <2>1 DEF Line
    <3>3. /\ items = [i \in 1..n |-> items[i]]
          /\ \A i \in 1..n : items[i] \in Line /\ items[i].product = k.items[i].product
      BY <3>1, <3>2 DEF Write
    <3> HIDE DEF items, n
    <3>4. items \in [1..n -> Line]
      BY <3>3
    <3>5. items \in Seq(Line) /\ Len(items) = n /\ DOMAIN items = 1..n
      BY <3>1, <3>4
    <3> QED BY <3>1, <3>3, <3>5 DEF n
  <2>3. \A x \in Products : LinesOf(items, x) = LinesOf(k.items, x)
    <3> HIDE DEF items
    <3> QED BY <2>2 DEF LinesOf
  <2> HIDE DEF items
  <2>4. /\ d \in PlacementCall /\ d.at = k.at /\ d.items = items
        /\ d.cart = k.cart /\ d.i = k.i /\ d.live = k.live
    BY <1>1, <2>2 DEF PlacementCall
  <2>5. WellFormed(d)
    BY <2>1, <2>2, <2>3, <2>4 DEF WellFormed
  <2> HIDE DEF d
  <2> QED BY <2>1, <2>4, <2>5
<1> QED BY <1>2, <1>3, <1>4

LEMMA ChangeCartStep ==
  ASSUME PlacementInv, NEW c \in Carts, NEW p \in Products,
         NEW q \in LineQuantities \cup {None}, ChangeCart(c, p, q)
  PROVE  PlacementInv'
<1>1. /\ UNCHANGED <<vars, orders, putBack>>
      /\ cart' = [cart EXCEPT ![c][p] = q]
      /\ call' = [r \in Requests |-> Sees(call[r], c, p, q)]
  BY DEF ChangeCart
<1>2. CartsOK'
  BY <1>1, PlacementFacts DEF CartsOK
<1>3. \A r \in Requests :
        /\ call'[r] = Sees(call[r], c, p, q)
        /\ WellFormed(call'[r]) /\ call'[r] \in PlacementCall
        /\ call'[r] = call[r] \/ call'[r].at = "gather"
  BY <1>1, PlacementFacts, SeesFacts
<1>4. call' \in [Requests -> PlacementCall]
  BY <1>1, PlacementFacts, SeesFacts
<1> QED BY <1>1, <1>2, <1>3, <1>4, CartStep

\* A restart rolls every open transaction back and forgets every call: what was
\* in hand is lost, and belongs to no order.
LEMMA RestartStep ==
  ASSUME PlacementInv, Restart
  PROVE  PlacementInv'
<1>1. /\ available' = CommittedAvailable /\ reserved' = CommittedReserved
      /\ lock' = [p \in Products |-> None]
      /\ tx' = [x \in Procs |-> Idle]
      /\ cart' = [c \in Carts |-> EmptyCart]
      /\ call' = [r \in Requests |-> NoCall]
      /\ UNCHANGED <<before, rowVars, now, orders, putBack>>
  BY DEF Restart
<1>2. TypeOK
  BY PlacementFacts
<1>3. /\ available' \in [Products -> Int] /\ reserved' \in [Products -> Int]
      /\ \A p \in Products : /\ CommittedAvailable'[p] = CommittedAvailable[p]
                             /\ CommittedReserved'[p] = CommittedReserved[p]
  <2>1. /\ CommittedAvailable \in [Products -> Int]
        /\ CommittedReserved \in [Products -> Int]
    BY <1>2 DEF TypeOK, CommittedAvailable, CommittedReserved, Row
  <2>2. \A p \in Products : /\ CommittedAvailable'[p] = available'[p]
                            /\ CommittedReserved'[p] = reserved'[p]
    BY <1>1 DEF CommittedAvailable, CommittedReserved
  <2> QED BY <1>1, <2>1, <2>2
<1>4. TypeOK'
  <2>1. lock' \in [Products -> Procs \cup {None}]
    BY <1>1
  <2>2. /\ tx' \in [Procs -> Transaction]
        /\ \A x \in Procs : tx'[x].rows = {}
    BY <1>1 DEF Idle, Transaction
  <2>3. /\ before' \in [Products -> Row]
        /\ reservation' \in [Ids -> Reservation \cup {None}]
        /\ live' \subseteq {id \in Ids : reservation'[id] # None}
        /\ expiration' \in [Ids -> Nat] /\ now' \in Nat
    BY <1>1, <1>2 DEF TypeOK, rowVars
  <2> QED BY <1>3, <2>1, <2>2, <2>3 DEF TypeOK
<1>5. TransactionsProgress'
  BY <1>1 DEF TransactionsProgress, Idle
<1>6. CartsOK'
  BY <1>1 DEF CartsOK, EmptyCart
<1>7. /\ call' \in [Requests -> PlacementCall]
      /\ \A r \in Requests : WellFormed(call'[r])
  BY <1>1, NoCallFacts DEF WellFormed
<1>8. \A r \in Requests, p \in Products :
         /\ InHand(call'[r], p) <= InHand(call[r], p)
         /\ Due(call'[r], p) <= Due(call[r], p)
  BY <1>1, NoCallFacts, PlacementFacts, CallUnits
<1>9. \A p \in Products : ItemKept(p)
  BY <1>3, PlacementFacts DEF ItemKept
<1> QED BY <1>1, <1>4, <1>5, <1>6, <1>7, <1>8, <1>9, OtherStep

LEMMA NextPlacement == PlacementInv /\ [PlacementNext]_allVars => PlacementInv'
<1> SUFFICES ASSUME PlacementInv, [PlacementNext]_allVars PROVE PlacementInv'
  OBVIOUS
<1>1. CASE Next /\ UNCHANGED orderVars
  BY <1>1, TransactionStep
<1>2. CASE \E c \in Carts, p \in Products, q \in LineQuantities \cup {None} :
              ChangeCart(c, p, q)
  BY <1>2, ChangeCartStep
<1>3. ASSUME NEW r \in Requests, OrderStep(r) PROVE PlacementInv'
  <2>1. ASSUME NEW c \in Carts, Begin(r, c) PROVE PlacementInv'
    BY <2>1, BeginOrderStep
  <2>2. CASE Check(r)
    BY <2>2, CheckStep
  <2>3. CASE Deduct(r)
    BY <2>3, DeductStep
  <2>4. CASE CreateRow(r)
    BY <2>4, CreateRowStep
  <2>5. CASE ClearCart(r)
    BY <2>5, ClearCartStep
  <2>6. CASE DropReservations(r)
    BY <2>6, DropStep
  <2>7. CASE CallFails(r)
    BY <2>7, FailStep DEF CallFails
  <2>8. ASSUME NEW p \in Products, CopyLine(r, p) PROVE PlacementInv'
    BY <2>8, CopyLineStep
  <2>9. CASE Gathered(r)
    BY <2>9, GatheredStep
  <2>10. CASE GatherFails(r)
    BY <2>10, GatherFailsStep
  <2> QED BY <1>3, <2>1, <2>2, <2>3, <2>4, <2>5, <2>6, <2>7, <2>8, <2>9, <2>10
             DEF OrderStep
<1>4. CASE Restart
  BY <1>4, RestartStep
<1>5. CASE UNCHANGED allVars
  <2>1. UNCHANGED vars /\ UNCHANGED <<cart, orders, call, putBack>>
    BY <1>5 DEF allVars, orderVars
  <2>2. \A p \in Products : ItemKept(p)
    BY <2>1, PlacementFacts, QuietStep DEF ItemKept
  <2>3. /\ CartsOK' /\ call' \in [Requests -> PlacementCall]
        /\ \A r \in Requests : WellFormed(call'[r])
    BY <2>1, PlacementFacts DEF CartsOK
  <2>4. \A r \in Requests, p \in Products :
           /\ InHand(call'[r], p) <= InHand(call[r], p)
           /\ Due(call'[r], p) <= Due(call[r], p)
    BY <2>1, PlacementFacts, CallUnits
  <2> QED BY <2>1, <2>2, <2>3, <2>4, QuietStep, OtherStep
<1> QED BY <1>1, <1>2, <1>3, <1>4, <1>5 DEF PlacementNext

\* Every order, and every unit on its way to one, is out of the stock, and what
\* is still to be deducted is bounded, in every state of createOrder beside the
\* transactions, the shoppers and the restarts (order.service.ts:9-109).
THEOREM PlacementInvariantHolds == PlacementSpec => []PlacementInv
BY InitPlacement, NextPlacement, PTL DEF PlacementSpec

\* PlacementTypeOK: carts, orders and calls are well formed, with lines of
\* whatever quantity the routes let through, and a call at its lines is at one
\* of them.
THEOREM PlacementTypeCorrect == PlacementSpec => []PlacementTypeOK
<1>1. PlacementInv => PlacementTypeOK
  BY DEF PlacementInv
<1> QED BY <1>1, PlacementInvariantHolds, PTL

\* SoldIsTaken: the units on the orders in the table have left the stock, or what
\* lines below zero have put into it, each of them once (order.service.ts:40-75).
THEOREM OrdersAreBacked == PlacementSpec => []SoldIsTaken
<1>1. ASSUME PlacementInv PROVE SoldIsTaken
  <2> SUFFICES ASSUME NEW p \in Products
               PROVE  CommittedAvailable[p] + CommittedReserved[p] + Sold(p)
                        <= Stock[p] + putBack[p]
    BY DEF SoldIsTaken
  <2>1. Stock[p] \in Nat /\ putBack[p] \in Nat
    BY <1>1, StockAssumption, PlacementFacts
  <2> QED BY <1>1, <2>1, PlacementFacts
<1> QED BY <1>1, PlacementInvariantHolds, PTL

\* OversellBounded: however many calls pass their checks before the others
\* deduct, and whatever lines below zero put back in between, an item goes below
\* nothing by their lines of it and no more (order.service.ts:32-47).
THEOREM OversellIsBounded == PlacementSpec => []OversellBounded
<1>1. ASSUME PlacementInv PROVE OversellBounded
  <2> SUFFICES ASSUME NEW p \in Products PROVE CommittedAvailable[p] >= -Overdraft
    BY DEF OversellBounded
  <2>1. Overdraft \in Nat
    BY <1>1, PlacementFacts, AllUnits
  <2> QED BY <1>1, <2>1, PlacementFacts
<1> QED BY <1>1, PlacementInvariantHolds, PTL

=============================================================================
