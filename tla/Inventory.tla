------------------------------ MODULE Inventory ------------------------------
(***************************************************************************)
(* The inventory service (src/modules/inventory/inventory.service.ts) over *)
(* the InventoryItem and StockReservation tables.                          *)
(*                                                                         *)
(* Every operation is a Prisma interactive transaction, which PostgreSQL   *)
(* runs at READ COMMITTED.  A transaction therefore is several steps: a    *)
(* read of committed rows, writes of inventory rows (each takes the row    *)
(* lock and keeps it), and a last step that deletes or updates reservation *)
(* rows and commits.  Other transactions interleave between the steps; an  *)
(* uncommitted inventory row is visible to nobody, because whoever touches *)
(* it waits for the lock.  reserveStock alone is one step: its conditional *)
(* updateMany is re-evaluated under the row lock and nothing is read       *)
(* before it.                                                              *)
(*                                                                         *)
(* A reservation's product, cart, quantity and creation time are written   *)
(* once and its id is never reused, so what a transaction has read of a    *)
(* row is represented by the row's id.                                     *)
(***************************************************************************)
EXTENDS Integers, FiniteSets, Totals

CONSTANTS
    Products,       \* products that have an inventory row
    Carts,          \* cart ids
    Sessions,       \* requests that call releaseStock and extendReservation
    Workers,        \* concurrent runs of expireReservations
    Ids,            \* reservation ids (bounds the reservations ever made)
    Quantities,     \* quantities a request may reserve
    Stock,          \* initial available stock of a product
    Hold,           \* lifetime of a new reservation            (15 minutes)
    Slack,          \* age limit that tells "already extended"  (16 minutes)
    Extension,      \* lifetime of an extended reservation      (30 minutes)
    MaxTime,        \* bound of the clock
    None            \* no row, no lock holder

Procs == Sessions \cup Workers

Reservation ==
    [product : Products, cart : Carts, quantity : Quantities, createdAt : Nat]

ASSUME StockAssumption == Stock \in [Products -> Nat]
ASSUME QuantityAssumption == Quantities \subseteq Nat \ {0}
ASSUME LifetimeAssumption ==
    /\ Hold \in Nat /\ Slack \in Nat /\ Extension \in Nat /\ MaxTime \in Nat
    /\ Hold <= Slack /\ Slack < Extension
ASSUME NoneAssumption ==
    /\ None \notin Procs
    /\ None \notin Ids
    /\ None \notin Reservation
    /\ None \notin [product : Products, quantity : Quantities]
ASSUME ProcsAssumption == Sessions \cap Workers = {}

VARIABLES
    available,      \* InventoryItem.availableStock, uncommitted writes included
    reserved,       \* InventoryItem.reservedStock, likewise
    lock,           \* lock[p]: the transaction that holds the row lock of p
    before,         \* before[p]: the committed row of p while it is locked
    reservation,    \* reservation[id]: the immutable columns of a row ever created
    live,           \* the ids of the rows now in the table
    expiration,     \* expiration[id]: the column expirationTime
    now,            \* the clock
    tx              \* tx[x]: the open transaction of x

stockVars == <<available, reserved, lock, before>>
rowVars == <<reservation, live, expiration>>
vars == <<available, reserved, lock, before, reservation, live, expiration,
          now, tx>>

Idle == [op |-> "idle", rows |-> {}, todo |-> {}, at |-> None]

Init ==
    /\ available = Stock
    /\ reserved = [p \in Products |-> 0]
    /\ lock = [p \in Products |-> None]
    /\ before = [p \in Products |-> [available |-> Stock[p], reserved |-> 0]]
    /\ reservation = [id \in Ids |-> None]
    /\ live = {}
    /\ expiration = [id \in Ids |-> 0]
    /\ now = 0
    /\ tx = [x \in Procs |-> Idle]

-----------------------------------------------------------------------------
(* What a transaction reads and how it ends.                               *)

\* findFirst / findMany({ where: { productId, cartId } }): no order is asked
\* for, so any matching row may be the first.
Matching(p, c) == {id \in live : /\ reservation[id].product = p
                                 /\ reservation[id].cart = c}

\* Wrong on purpose, for Expired: lte in the place of lt.
ExpiredOrDue == {id \in live : expiration[id] <= now}

\* findMany({ where: { expirationTime: { lt: new Date() } } })
Expired == {id \in live : expiration[id] < now}

AlreadyExtended(id) == expiration[id] > reservation[id].createdAt + Slack

\* The committed value of an inventory row.
CommittedAvailable ==
    [p \in Products |-> IF lock[p] = None THEN available[p]
                                          ELSE before[p].available]
CommittedReserved ==
    [p \in Products |-> IF lock[p] = None THEN reserved[p]
                                          ELSE before[p].reserved]

\* x ends: its locks are released, and its transaction is closed.
Unlock(x) == lock' = [p \in Products |-> IF lock[p] = x THEN None ELSE lock[p]]
Close(x) == tx' = [tx EXCEPT ![x] = Idle]

Commit(x) ==
    /\ Unlock(x)
    /\ Close(x)
    /\ UNCHANGED <<available, reserved, before>>

Rollback(x) ==
    /\ available' = [p \in Products |-> IF lock[p] = x THEN before[p].available
                                                       ELSE available[p]]
    /\ reserved' = [p \in Products |-> IF lock[p] = x THEN before[p].reserved
                                                      ELSE reserved[p]]
    /\ Unlock(x)
    /\ Close(x)
    /\ UNCHANGED <<before, live, expiration>>

\* Wrong on purpose, for Move: one of the two counters stays.
MoveAvailable(p, q) ==
    /\ available' = [available EXCEPT ![p] = @ + q]
    /\ UNCHANGED reserved

\* One update moves q units of p from the reserved to the available counter, or
\* back when q is negative.
Move(p, q) ==
    /\ available' = [available EXCEPT ![p] = @ + q]
    /\ reserved' = [reserved EXCEPT ![p] = @ - q]

-----------------------------------------------------------------------------
(* reserveStock                                                            *)

\* Wrong on purpose, for Enough: the update has no condition.
EnoughAlways(p, q) == TRUE

Enough(p, q) == available[p] >= q

\* Wrong on purpose, for NewRow: the row is counted but not created.
NewRowMissing(id, row) == UNCHANGED reservation

NewRow(id, row) == reservation' = [reservation EXCEPT ![id] = row]

\* updateMany where availableStock >= quantity, then the new row.  A count of
\* 0 throws 'Insufficient stock' and changes nothing.
reserveStock(p, c, q, id) ==
    /\ reservation[id] = None
    /\ lock[p] = None
    /\ Enough(p, q)
    /\ Move(p, -q)
    /\ NewRow(id, [product |-> p, cart |-> c, quantity |-> q, createdAt |-> now])
    /\ live' = live \cup {id}
    /\ expiration' = [expiration EXCEPT ![id] = now + Hold]
    /\ UNCHANGED <<lock, before, now, tx>>

-----------------------------------------------------------------------------
(* The step releaseStock and expireReservations share: the update of one   *)
(* inventory row, which waits for the row's lock.                          *)

\* Wrong on purpose, for Writable: the update is sent outside the transaction,
\* and so waits for the transaction's own locks.
WritableOutside(x, p) == lock[p] = None

Writable(x, p) == lock[p] \in {None, x}

Credit(x) ==
    LET id == tx[x].at
        p == reservation[id].product
        q == reservation[id].quantity
        left == tx[x].todo \ {id}
    IN  /\ id # None
        /\ Writable(x, p)
        /\ Move(p, q)
        /\ lock' = [lock EXCEPT ![p] = x]
        /\ before' = IF lock[p] = x THEN before
                     ELSE [before EXCEPT ![p] = [available |-> available[p],
                                                 reserved |-> reserved[p]]]
        /\ \E next \in IF left = {} THEN {None} ELSE left :
              tx' = [tx EXCEPT ![x].todo = left, ![x].at = next]
        /\ UNCHANGED <<reservation, live, expiration, now>>

-----------------------------------------------------------------------------
(* releaseStock: findFirst, the update of the item, the delete by id.      *)

\* No matching row: the code returns null, and nothing changes.
ReleaseRead(s, p, c) ==
    /\ tx[s].op = "idle"
    /\ \E id \in Matching(p, c) :
          tx' = [tx EXCEPT ![s] = [op |-> "release", rows |-> {id},
                                   todo |-> {id}, at |-> id]]
    /\ UNCHANGED <<available, reserved, lock, before, reservation, live,
                   expiration, now>>

\* Wrong on purpose, for ReleaseDelete: deleteMany, which minds no missing row.
ReleaseDeleteMany(s) ==
    /\ tx[s].op = "release"
    /\ tx[s].at = None
    /\ live' = live \ tx[s].rows
    /\ Commit(s)
    /\ UNCHANGED <<expiration, reservation, now>>

\* delete({ where: { id } }) throws when another transaction has removed the
\* row meanwhile, which rolls the credit back.
ReleaseDelete(s) ==
    /\ tx[s].op = "release"
    /\ tx[s].at = None
    /\ IF tx[s].rows \subseteq live
       THEN /\ live' = live \ tx[s].rows
            /\ Commit(s)
            /\ UNCHANGED expiration
       ELSE Rollback(s)
    /\ UNCHANGED <<reservation, now>>

-----------------------------------------------------------------------------
(* extendReservation: findFirst and the idempotency check on what it read, *)
(* then the update by id.  The check that the item exists never fails:     *)
(* no code deletes an inventory row.                                       *)

ExtendRead(s, p, c) ==
    /\ tx[s].op = "idle"
    /\ \E id \in Matching(p, c) :
          /\ ~AlreadyExtended(id)
          /\ tx' = [tx EXCEPT ![s] = [op |-> "extend", rows |-> {id},
                                      todo |-> {}, at |-> None]]
    /\ UNCHANGED <<available, reserved, lock, before, reservation, live,
                   expiration, now>>

\* Wrong on purpose, for ExtendUpdate: the extension counts from now.
ExtendFromNow(s) ==
    /\ tx[s].op = "extend"
    /\ tx[s].rows \subseteq live
    /\ expiration' = [id \in Ids |-> IF id \in tx[s].rows THEN now + Extension
                                                         ELSE expiration[id]]
    /\ Commit(s)
    /\ UNCHANGED <<live, reservation, now>>

ExtendUpdate(s) ==
    /\ tx[s].op = "extend"
    /\ IF tx[s].rows \subseteq live
       THEN /\ expiration' =
                  [id \in Ids |-> IF id \in tx[s].rows
                                  THEN reservation[id].createdAt + Extension
                                  ELSE expiration[id]]
            /\ Commit(s)
            /\ UNCHANGED live
       ELSE Rollback(s)
    /\ UNCHANGED <<reservation, now>>

-----------------------------------------------------------------------------
(* expireReservations: findMany, one item update per row read, then a      *)
(* deleteMany of the ids read, which does not mind rows that are gone.     *)

ExpireRead(w) ==
    /\ tx[w].op = "idle"
    /\ \E first \in Expired :
          tx' = [tx EXCEPT ![w] = [op |-> "expire", rows |-> Expired,
                                   todo |-> Expired, at |-> first]]
    /\ UNCHANGED <<available, reserved, lock, before, reservation, live,
                   expiration, now>>

\* Wrong on purpose, for ExpireDelete: by the time, not by the ids read.
ExpireDeleteByTime(w) ==
    /\ tx[w].op = "expire"
    /\ tx[w].at = None
    /\ live' = live \ Expired
    /\ Commit(w)
    /\ UNCHANGED <<reservation, expiration, now>>

ExpireDelete(w) ==
    /\ tx[w].op = "expire"
    /\ tx[w].at = None
    /\ live' = live \ tx[w].rows
    /\ Commit(w)
    /\ UNCHANGED <<reservation, expiration, now>>

-----------------------------------------------------------------------------
(* What can end a transaction from outside.                                *)

\* The database aborts one of the transactions that wait for each other.
Waiting(x) == tx[x].at # None /\ lock[reservation[tx[x].at].product] \notin {None, x}
WaitsFor(x) == lock[reservation[tx[x].at].product]
Deadlocked(S) == \A x \in S : Waiting(x) /\ WaitsFor(x) \in S

DeadlockVictim(x) ==
    /\ \E S \in SUBSET Procs : /\ x \in S
                               /\ Deadlocked(S)
                               /\ \E y \in S : WaitsFor(y) = x
    /\ Rollback(x)
    /\ UNCHANGED <<reservation, now>>

\* The transaction's five second limit, a lost connection or a crash of the
\* process: nothing of it is committed.
Fail(x) ==
    /\ tx[x].op # "idle"
    /\ Rollback(x)
    /\ UNCHANGED <<reservation, now>>

Tick ==
    /\ now < MaxTime
    /\ now' = now + 1
    /\ UNCHANGED <<available, reserved, lock, before, reservation, live,
                   expiration, tx>>

-----------------------------------------------------------------------------
Next ==
    \/ \E p \in Products, c \in Carts, q \in Quantities, id \in Ids :
          reserveStock(p, c, q, id)
    \/ \E s \in Sessions, p \in Products, c \in Carts : ReleaseRead(s, p, c)
    \/ \E s \in Sessions, p \in Products, c \in Carts : ExtendRead(s, p, c)
    \/ \E x \in Procs : Credit(x)
    \/ \E s \in Sessions : ReleaseDelete(s)
    \/ \E s \in Sessions : ExtendUpdate(s)
    \/ \E w \in Workers : ExpireRead(w)
    \/ \E w \in Workers : ExpireDelete(w)
    \/ \E x \in Procs : DeadlockVictim(x)
    \/ \E x \in Procs : Fail(x)
    \/ Tick

Spec == Init /\ [][Next]_vars

\* The driver sends the next statement of an open transaction, the database
\* queues the waiters of a row lock in order (hence strong fairness of Credit)
\* and breaks deadlocks.  Nothing obliges a client to start anything, the
\* clock to reach its bound, or a transaction to fail.
Fairness ==
    /\ \A x \in Procs : SF_vars(Credit(x)) /\ WF_vars(DeadlockVictim(x))
    /\ \A s \in Sessions : WF_vars(ReleaseDelete(s)) /\ WF_vars(ExtendUpdate(s))
    /\ \A w \in Workers : WF_vars(ExpireDelete(w))

FairSpec == Spec /\ Fairness

-----------------------------------------------------------------------------
(* The promise of the module: its committed stock and the rows of its      *)
(* table behave as the ledger does.                                        *)

HeldRow(id) ==
    IF id \in live THEN [product |-> reservation[id].product,
                         quantity |-> reservation[id].quantity]
                   ELSE None

Ledger == INSTANCE StockLedger WITH free <- CommittedAvailable,
                                    hold <- [id \in Ids |-> HeldRow(id)]

\* Without a maintenance worker every operation, seen at its commit, is one
\* step of the ledger or none: two releases of one reservation that have both
\* read it credit it once (inventory.service.ts:41-61).
KeepsLedger == Ledger!Spec

-----------------------------------------------------------------------------
Row == [available : Int, reserved : Int]
Transaction == [op : {"idle", "release", "extend", "expire"},
                rows : SUBSET Ids, todo : SUBSET Ids, at : Ids \cup {None}]

\* Type invariant: every table row, lock and open transaction is well formed,
\* and the rows of the table and of every snapshot were once created.
TypeOK ==
    /\ available \in [Products -> Int]
    /\ reserved \in [Products -> Int]
    /\ lock \in [Products -> Procs \cup {None}]
    /\ before \in [Products -> Row]
    /\ reservation \in [Ids -> Reservation \cup {None}]
    /\ live \subseteq {id \in Ids : reservation[id] # None}
    /\ expiration \in [Ids -> Nat]
    /\ now \in Nat
    /\ tx \in [Procs -> Transaction]
    /\ \A x \in Procs : tx[x].rows \subseteq {id \in Ids : reservation[id] # None}

\* The units of p that the reservations ids are for.
UnitsOf(p, ids) ==
    Total([id \in {i \in ids : reservation[i].product = p} |->
              reservation[id].quantity])

HeldUnits(p) == UnitsOf(p, live)

\* The units of a product are moved between the two counters and never made
\* or lost, whatever transactions of reserve, release and expire overlap,
\* fail or deadlock (the two counters of inventory.service.ts:9-18, 49-55 and
\* 111-119 move together, rolled back together).
UnitsConserved ==
    \A p \in Products : available[p] + reserved[p] = Stock[p]

\* reserveStock never hands out a unit the item does not have, even when
\* credits of other transactions on the same row are rolled back after it
\* (the conditional update of inventory.service.ts:9-18).
NeverOversold ==
    \A p \in Products : available[p] >= 0 /\ CommittedAvailable[p] >= 0

\* No reserved unit is stranded: at every commit the reserved counter is
\* covered by reservation rows, so releasing them all empties it.
NothingStranded ==
    \A p \in Products : CommittedReserved[p] <= HeldUnits(p)

\* The committed reserved counter is exactly the sum of the reservation rows:
\* a unit is credited once for each reservation that ends.  It holds while no
\* run of expireReservations overlaps another release of the same row.
LedgerExact ==
    \A p \in Products : CommittedReserved[p] = HeldUnits(p)

\* ADR 0004 (docs/adr/0004-inventory-reservation-strategy.md:24) says of
\* reservations that they prevent overselling completely: what anyone may
\* still take and what the reservations hold is never more than the stock.
NoOverselling ==
    \A p \in Products : CommittedAvailable[p] + HeldUnits(p) <= Stock[p]

\* The fifteen minutes a reservation promises are kept: a row leaves the table
\* before they have passed only when a request asked to release that very row.
HoldHonoured ==
    [][\A id \in live \ live' :
          \/ now > reservation[id].createdAt + Hold
          \/ \E s \in Sessions : tx[s].op = "release" /\ id \in tx[s].rows]_vars

\* Extending is idempotent: the deadline of a live row moves at most once,
\* from the initial to the extended one, also when two extensions of one row
\* have both passed the idempotency check (inventory.service.ts:84-93).
ExtendedOnce ==
    [][\A id \in live \cap live' :
          expiration'[id] # expiration[id] =>
             /\ expiration[id] = reservation[id].createdAt + Hold
             /\ expiration'[id] = reservation[id].createdAt + Extension]_vars

\* The parts of the inductive invariant behind the properties above: what the
\* lock of a row says about its saved value and its holder, and what an open
\* transaction has read and done.
LockedRows ==
    \A p \in Products :
       lock[p] # None =>
          /\ before[p].available + before[p].reserved = Stock[p]
          /\ before[p].available >= 0
          /\ available[p] >= before[p].available
          /\ tx[lock[p]].op \in {"release", "expire"}

\* A row's deadline is one of the two the code ever writes.
Deadlines ==
    \A id \in live :
       expiration[id] \in {reservation[id].createdAt + Hold,
                          reservation[id].createdAt + Extension}

\* Rows in the snapshot of a maintenance run have outlived their hold.
ExpireSnapshots ==
    \A w \in Workers : \A id \in tx[w].rows :
       now > reservation[id].createdAt + Hold

\* A request's transaction holds no lock before its credit, and afterwards
\* the lock of its own row's item only, credited by that row's quantity.
HoldsNoLock(x) == \A p \in Products : lock[p] # x

WritesNoItem(s) ==
    /\ tx[s].op \in {"idle", "extend"}
    /\ tx[s].at = None
    /\ HoldsNoLock(s)

BeforeCredit(s) ==
    /\ tx[s].op = "release"
    /\ tx[s].at # None
    /\ tx[s].rows = {tx[s].at}
    /\ tx[s].todo = {tx[s].at}
    /\ HoldsNoLock(s)

AfterCredit(s, id) ==
    LET own == reservation[id] IN
    /\ tx[s].op = "release"
    /\ tx[s].at = None
    /\ tx[s].rows = {id}
    /\ \A p \in Products : lock[p] = s <=> p = own.product
    /\ available[own.product] = before[own.product].available + own.quantity

RequestProgress ==
    \A s \in Sessions :
       WritesNoItem(s) \/ BeforeCredit(s) \/ \E id \in Ids : AfterCredit(s, id)

WorkerProgress ==
    \A w \in Workers :
       /\ tx[w].op \in {"idle", "expire"}
       /\ tx[w].op = "idle" => tx[w].at = None /\ tx[w].rows = {}
       /\ tx[w].at # None => tx[w].at \in tx[w].rows
       /\ tx[w].todo \subseteq tx[w].rows

IInv ==
    /\ TypeOK
    /\ UnitsConserved
    /\ \A p \in Products : available[p] >= 0
    /\ LockedRows
    /\ Deadlines
    /\ ExpireSnapshots
    /\ RequestProgress
    /\ WorkerProgress

\* The invariant behind the two properties of the ledger: a transaction holds
\* the lock of every row it has credited, and the reserved counter of a locked
\* item has been lowered by the units of just these rows.
Credited(x) == tx[x].rows \ tx[x].todo

CreditProgress(x) ==
    /\ tx[x].todo \subseteq tx[x].rows
    /\ IF tx[x].todo = {} THEN tx[x].at = None ELSE tx[x].at \in tx[x].todo
    /\ \A id \in Credited(x) : lock[reservation[id].product] = x

LedgerInv ==
    /\ IsFiniteSet(live)
    /\ \A x \in Procs : IsFiniteSet(tx[x].rows)
    /\ \A x \in Procs : tx[x].op \in {"release", "expire"} => CreditProgress(x)
    /\ \A p \in Products :
          lock[p] # None =>
             reserved[p] = before[p].reserved - UnitsOf(p, Credited(lock[p]))

\* Every transaction ends: waits for row locks, deadlocks and rows that are
\* gone included.
TransactionsEnd ==
    \A x \in Procs : tx[x].op # "idle" ~> tx[x].op = "idle"
=============================================================================
