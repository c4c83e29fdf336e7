# Verification of the grill shop

TLA+ models of this repository (a TypeScript shop: Express and tRPC over Prisma
and PostgreSQL, carts, sessions and events in process memory, and a Next.js
storefront), the TLC instances that check them and TLAPS proofs of the main
safety properties.
Paths below are relative to the repository; `inventory.service.ts` and the like
live under `src/modules/`, pages under `storefront/app/`.

- [The system](#the-system)
- [How the models are written](#how-the-models-are-written)
- [Modules](#modules)
- [Runs](#runs)
- [Fairness](#fairness)
- [Proofs](#proofs)
- [Where the code and its documents differ](#where-the-code-and-its-documents-differ)
- [Not modelled](#not-modelled)
- [Plan](#plan)

## The system

One Node.js process serves all requests. Code between two `await`s runs without
interruption; at each `await` any other request may run. There may be several
database transactions at a time, at PostgreSQL's READ COMMITTED.

| Component | State | Operations | Hard behaviour | What makes it correct |
|---|---|---|---|---|
| **Inventory** `inventory/inventory.service.ts` | tables `InventoryItem` (available, reserved), `StockReservation` | `reserveStock`, `releaseStock`, `extendReservation`, `expireReservations` | transactions overlap on one row; read, write and delete of one transaction are separate statements; deadlocks; rollback | units are conserved, none is promised twice, a hold lasts, an extension is idempotent |
| **Order placement** `orders/order.service.ts` | tables `Order`, `OrderItem`, `InventoryItem`; an in-memory map of orders | `createOrder`, `getOrderById`, `getOrdersByUserId` | no transaction at all: check, deduct, insert, clear and delete interleave with everything; a failure leaves what was done; quantities may be zero or negative | what is sold has left the stock |
| **Cart store** `cart/cart.service.ts` | `Map` of carts in memory | `getCart`, `addItem`, `updateQuantity`, `removeItem`, `clearCart`, `mergeCart` | the stock is read before an `await`; quantities are read after one; a restart loses everything | one thing at a time: nothing lost or doubled; no line beyond the stock there ever was; emptied by an order only |
| **Checkout** `checkout.controller.ts` | none of its own | `initiateCheckout` | a database transaction around changes in memory and around other transactions of the same pool | ordered rows are extended; units leave the carts at an insert only; it ends |
| **Order state** `orders/order.state.service.ts`, `payments/payments.service.ts`, `fulfillment/services/reconciliation.service.ts` | `Order.status`, `Order.paymentStatus` | `transition`, `handleWebhook`, `reconcile` | three writers without a lock; one retry on conflict | a cancellation nothing overlaps is final; only orders reported delivered are completed |
| **Stripe webhook** `payments/webhooks/stripe.webhook.handler.ts` | table `ProcessedWebhook` | `handle` | deliveries repeat and overlap; rollback after the effect | each event has its effect once |
| **Cache** `shared/cache.service.ts` | two maps: entries, fetches under way | `get`, `invalidate` | promise callbacks run later; invalidation during a fetch; failing fetches | one fetch per key; every caller is answered; an invalidation settles its key, unless a fetch has read the old value; nothing outdated stays |
| **Labels and events** `fulfillment/services/label-generation.service.ts`, `shared/event-bus.ts` | map of failed jobs; listeners | `processLabelGeneration`, `publish`, `subscribe` | retries with backoff after errors that may come late; events in memory only | events reach each subscriber once and in order; a failed label is reported |
| **Users** `users/user.service.ts`, `auth/*`, `trpc/routers/auth.ts`, sessions of `app.ts`, the user in `localStorage` | table `User`; sessions in memory; a user per browser | `getOrCreateGuestUser`, `registerUser`, `pruneAbandonedGuests`, `register`, `login`, `logout` | check, then create; pruning by ids that were read; server and browser can disagree | one user per email; who is signed in exists; who has registered stays, unless a pruning had found the guest before |
| **Promotions** `promotions/promotion.service.ts` | table `Coupon` | `validateCoupon`, `applyCoupon` | check and count are separate calls | the usage limit holds |
| **Catalog, administration** `catalog/*`, `trpc/routers/adminProduct.ts`, `admin.controller.ts` | tables `Product`, `InventoryItem` | create, update, list | the stock is written as an absolute number | |
| **Plumbing** `app.ts`, `trpc/*`, `shared/*` | none | guards, validation, logging | | each request decided alone |
| **Storefront** `storefront/` | the state of each page's component, the badge of the Navbar, `localStorage` | visiting, filtering, tracking, clicking, submitting; `cart-updated` | answers late, lost, or overtaken; a page left while it asks; changes nobody tells it of | what a settled page shows was true; no page loads for ever |

Who calls whom. The order routes call `createOrder`, which reads the cart
store and the catalog, writes the inventory rows directly (not through the
inventory service) and deletes reservations. `initiateCheckout` calls the cart
store and the inventory service inside a transaction of its own. The pages call
the REST routes, and tRPC for the list of products, order tracking and
registration; tabs of a browser share its cart, session and `localStorage`.
Within a tab, `cart-updated` makes the badge and a cart page ask again.
`ReconciliationService` drives `OrderStateService`; the payment callback
bypasses it. No code schedules `expireReservations`, `reconcile` or
`pruneAbandonedGuests`: they are maintenance jobs someone starts.

The hazards each of these is exposed to are listed in `PROJECT.json`, at their
lines, with the properties that cover them.

## How the models are written

A database transaction is as many steps as it has statements others can see
between. A statement that only reads is merged with the next step of its process
where nothing can be told apart. Row locks are explicit (`lock`, `before` in
`Inventory`), since waiting, deadlock and rollback depend on them: `available`
holds uncommitted values, `before` the committed row to go back to, and
`CommittedAvailable` is what others read. A failure of the process or the
connection is an action (`Fail`, `Rollback`, `Restart`, `CallFails`,
`CheckoutFails`, `Fails`, `PruneFails`) that may come before any statement.

Data is abstracted to what the properties tell apart: a reservation row is an
id with its immutable columns, a payload is a model value, a price does not
exist, a cached value is a version number, the clock counts small ticks, an
event is its number, an answer is the set of what it lists.

Every name after a comment `Wrong on purpose, for X` is a variant of X with a
plausible mistake. Nothing uses it: replacing X by it makes a property fail,
which is how each property is known to depend on the code.

## Modules

| Module | Models | Correspondence |
|---|---|---|
| `StockLedger` | what ADR 0004 promises: stock is free or held, in single steps | abstract specification |
| `Inventory` | `inventory.service.ts` | `reserveStock` is one step (one conditional `updateMany`, and an insert nobody can see before the commit). `releaseStock` = `ReleaseRead`, `Credit`, `ReleaseDelete`. `extendReservation` = `ExtendRead`, `ExtendUpdate`. `expireReservations` = `ExpireRead`, a `Credit` per row, `ExpireDelete`. `DeadlockVictim` and `Fail` roll back |
| `Totals` | the sum of a function's values, counted instead of folded: `Total(f)` is the cardinality of `Units(f)` | a vocabulary of the modules that add up rows, lines or carts |
| `OrderPlacement` | `createOrder`, with `Inventory` beside it | `Begin`; `CopyLine` per product as its read returns, `Gathered` when all have, or `GatherFails`, the `catch` that goes on with the client's items (`OrderFallback`); `Check` per line, `Deduct` per line, `CreateRow`, `ClearCart`, `DropReservations`; `ChangeCart` is the synchronous end of the cart's operations, which a call that has not copied the line sees (`live`); `Restart` empties the memory. A line's quantity may be zero or negative; `putBack` counts what negative lines have put in the stock |
| `Checkout` | `initiateCheckout`, with `Inventory` beside it | `BeginCheckout` opens the outer transaction and merges; `ReadRows`; per row `ExtendStarts`/`ExtendEnds` (or `ExtendReturns`) and the price read; `Create` inserts and empties the cart; `CommitOrder`. Connections are counted against `PoolSize` |
| `OrderLifecycle` | the three writers of `Order.status` | `CallTransition`, `TransitionRead`, `TransitionWrite`; `handleWebhook`; `reconcile`, `Track`, `Conflict`; `Deliver` and `Withdraw` are the carrier's reports, and `reported` remembers those of the try a job is in |
| `OncePerEvent` | what ADR 0012 promises: effect and record in one step | abstract specification |
| `StripeWebhook` | `stripe.webhook.handler.ts` | `Deliver`, then `Skip` or `Accept`, `ProcessPayment`, `Mark` or `Duplicate` (the unique key), `Commit`; `Rollback` |
| `CacheService` | `cache.service.ts` | `Miss` and `Join`/`StartFetch` are the synchronous part of `get`; `Read`/`ReadFails` the fetcher; `Store` the `.then`, `Settle` the `.finally`; `invalidate`; `Change` is the writer of the source, `Tick` the clock |
| `Shopping` | the clicks of one browser on its cart, the cart's handlers and `createOrder` with the cart's side of it | `ReadProduct` is the await of `addItem` and `updateQuantity`; `AddItem`, `UpdateQuantity`, `RemoveItem` what follows it. `createOrder` is `Gather`, `CopyLine` per line, `Gathered`, `Insert`, `ClearCart`, `DropReservations`, and the page's own `DeleteCart`. `live` are the line objects a copy still shares with the cart |
| `Accounts` | `User` rows, sessions, `localStorage`, the pruning job | `FindFree`, `Create`, `SessionStarts` are the REST registration, `TrpcRegister`, `Create`, `Answered` the one of the page; `FindAccount`, `Compared`, `Answered` a login; `PruneFinds`, `PruneDeletes` the transaction of the job |
| `Fulfilment` | `event-bus.ts`, `label-generation.service.ts` and who publishes | `Publish` puts an event off, `Turn` is the next `setImmediate` callback; `AttemptFails`, `BackoffEnds`, `TerminalFailure` the loop of attempts; the event of a failure carries its order |
| `Pages` | one tab: its page, the badge, its requests, and the reads behind them | `Visit`, `ApplyFilters`, `Track`, `ClickProduct`, `Submit` ask; `Read`, `ChangeCart`, `CreateOrder` answer; `PageFetched`, `PageFails`, `BadgeFetched`, `AddAnswered`, `ChangeAnswered`, `OrderAnswered`, ... are what the pages do then; `UpdateProduct`, `ElsewhereInCart`, `ElsewhereOrdered`, `Restart` are behind its back |
| `StockProofs` (of `Inventory`, `Checkout` and `OrderPlacement`), `OrderLifecycleProofs`, `StripeWebhookProofs`, `CacheProofs`, `ShoppingProofs`, `AccountsProofs`, `FulfilmentProofs`, `PagesProofs` | | theorems |
| `MC*` | | instances for TLC |

`OrderPlacement` and `Checkout` compose: they EXTEND `Inventory`, take its
`Next` as the steps of everyone else, and change its tables in actions of their
own. `OrderPlacement` and `Shopping` are two views of `createOrder`: the first
has the stock and takes the cart as quantities that change in any way, the
second has the operations of the cart and takes the stock as any number a read
may answer. `Pages` has what a tab sees of both: a click changes the cart or
does not, an order is placed in the table and in the memory of the process, or
in the table alone.

Assumptions on the environment worth knowing: `findFirst` may return any
matching row (no order is asked for); an id is never reused; the two carts that
`initiateCheckout` merges are different; guest and user carts hold whatever
units, and `Checkout` does not look at their lines, as the code does not (the
order is made from the reservations); a request releases by product and cart,
whichever they are; the Prisma limits (two seconds for a connection, five for a
transaction) may strike at any time. `createOrder` of `order.controller.ts` reads
`items` from a body in which the checkout page sends `fallbackItems`, so what
the page shows is never ordered in place of the cart (`FallbackItems` of
`Shopping`; `OrderPlacement` has clients that do send `items`, `Fallbacks`).
Quantities are looked at by nobody: `cart.controller.ts:25` and `:37`, the
`items` of an order and `z.number()` of `trpc/routers/checkout.ts:22` let zero
and negative ones through. No code of the repository uses the cache yet, so who
changes a source and calls `invalidate` after it is environment. A
product is archived and never deleted, so the lines of a cart keep theirs. In
`Pages` a request may be lost at any time, there or back; a component that was
left sets nothing; the list of products stays the same component when its
filters change; a failure of an older request leaves its error over the answer
of a newer one, as `catch` does in the pages. `getProducts` ignores the
`status` and `minStock` that `trpc/routers/product.ts` passes it.

## Runs

| Run | Instance | Shows |
|---|---|---|
| `inventory_sessions` | 3 requests, 2 carts, 1 product of 2 units, 3 reservations | the reserved counter is exactly the sum of the rows (`LedgerExact`), the service implements `StockLedger` (`KeepsLedger`), a deadline moves once (`ExtendedOnce`) |
| `inventory_workers` | 1 request, 2 maintenance runs, 2 products, 2 reservations, clock to 3 | units conserved and never oversold, nothing stranded, holds honoured, and every transaction ends although two runs can deadlock |
| `inventory_double_credit` | the same, quantities 1 and 2, clock to 2 | a counterexample to ADR 0004, below |
| `order_placement` | 2 calls, a product of 1 unit, its line -1, 0 or 1, a list of two equal lines that a client may send, 1 reservation and a request, restarts | sold units have left the stock, or what negative lines put there (`SoldIsTaken`); overselling stays within the lines the calls have of an item (`OversellBounded`) |
| `checkout` | 2 checkouts and a request, pool of 2 connections, 2 products, 2 reservations | ordered reservations are extended (`OrderedIsExtended`), units leave the carts only at the insert of an order, and then those of its own cart (`ItemsLeaveWithOrder`), no checkout waits for ever (`CheckoutEnds`) |
| `order_lifecycle` | 2 orders, one with callbacks; 1 caller, 2 reconciliations; reports of delivery come and are withdrawn | a settled cancellation is final (`CancellationSettles`), a completion rests on a report of the same try (`JobsTrackFirst`), reconciliations end (`ReconcileEnds`) |
| `stripe_webhook` | 3 deliveries of 2 events | an event has its effect once, the handler implements `OncePerEvent`, deliveries end |
| `cache` | 3 callers, 2 keys, 2 changes | one fetch at a time per key, joined callers wait for a live fetch, an invalidation settles its key unless a fetch has read the old value (`InvalidationSettles`), outdated entries go (`OutdatedIsTransient`), every call is answered |
| `shopping` | 2 clicks at a time, 2 products, typed quantities 1 and -1, stock up to 2 | a shopper who does one thing at a time loses nothing and orders nothing twice (`OneAtATimeConserves`); no line ever exceeds what there was (`WithinStock`); a line leaves by its removal or after an order (`EmptiedAfterOrder`) |
| `accounts` | 3 ids, 2 emails, 2 browsers, 2 requests and the pruning job | who is signed in has an account (`SignedInIsReal`), one user per email (`OneAccountPerEmail`), who registered before a pruning read the guests keeps the account (`RegisteredStay`) |
| `fulfilment` | 2 label generations, 3 events, 3 subscribers of 2 types | each subscriber is called once and in order (`DeliveredInOrder`), label generations end, and one that fails for good is marked and its event reaches who listens (`FailuresAreTold`) |
| `pages` | 1 product, 1 order, 2 filters, 4 requests of the shopper and those that follow | what settled was true since it was asked for, or was overtaken on the list, the cart or the badge (`SettledShowsTruth`); loading ends (`LoadingEnds`) |

**Why the bounds are enough to be interesting.** Two transactions on one row
with a third that fails is what a lost or doubled credit takes; two products and
two maintenance runs is what a deadlock takes. The clock runs to 3 because a row
that expires *after* a maintenance run has read, and before it deletes, needs
two rows created at different times. Quantities 1 and 2, in
`inventory_sessions`, tell a reservation that takes everything from one that
leaves a unit; units of 1 are enough for what `inventory_workers` is about. Two
calls of `createOrder` are what overselling takes, and a reservation beside them
is what conversion takes; a client's list with the same line twice is what
passes two checks with the stock of one. One product is enough for what a
negative line does to the check of another call and for a line that changes
while the cart is read; carts of several products are left to the proofs. A
second delivery report is what tells a retry that asks again from one that does
not. Two checkouts over two connections is the smallest pool in which all of
them wait for each other. Three deliveries let one roll back while a second
waits for its key and a third arrives. Two changes of a source let a fetch that
read the first store its value after the second. Two clicks are what an overlap
takes, and a third would repeat it; a negative quantity is enough to leave a
line below zero, and the stock of 2 tells adding to a line from adding alone.
Three ids let an account be pruned and its email taken again while a request
still holds it. Three events are two of one type around one of another, or a
failure of each label generation and one more. In `pages` two requests are made
by the first page and its badge, two more by the shopper, and a click's answer
makes up to three: enough for one to overtake another and for a page to be left
in between; two filters tell an old answer from a new one. `MaxTime`,
`MaxOrders`, `MaxPutBack`, `LineQuantities` (with `CartLimit`),
`LinesPerProduct`, `UnitLimit`, `MaxVersion`, `MaxOwed`, `MaxEvents`, `MaxAsks`
and `Ids` bound what would grow without end; they sit in guards. Runs with
`CHECK_DEADLOCK FALSE` are those in which these bounds may be exhausted with
nothing left to do.

Symmetry is used only in runs without liveness properties.

## Fairness

Nothing obliges a client to start an operation, the clock to reach its bound, or
anything to fail. What is assumed:

- `Inventory`: the driver sends the next statement of an open transaction (weak
  fairness of `ReleaseDelete`, `ExtendUpdate`, `ExpireDelete`); PostgreSQL
  queues those who wait for a row lock (strong fairness of `Credit`, because
  the lock is taken and freed by others meanwhile) and breaks deadlocks (weak
  fairness of `DeadlockVictim`).
- `Checkout`: every statement returns or throws, and a wait for a connection
  ends with the connection or with `PoolTimeout`, which is Prisma's `maxWait`.
  The timeout of the outer transaction is not relied upon.
- `OrderLifecycle`: an awaited call of the carrier or the database is answered,
  by a result, a conflict or an error. No fairness for starting a
  reconciliation: no code schedules one.
- `StripeWebhook`: statements are answered; who waits for a key is woken when
  its holder ends (strong fairness of `Mark \/ Duplicate`: the key may be taken
  again by another delivery first).
- `CacheService`: a fetcher settles, promise callbacks run, whoever changes the
  source goes on to `invalidate`, and time passes.
- `Fulfilment`: the event loop turns, the timers of the pauses fire, and the
  carrier's call returns or throws. Restarts are never required nor excluded.
- `Pages`: every request ends, by an answer or an error, since `fetch` settles;
  which of the two, and in which order, is open. The shopper need do nothing.

## Proofs

TLAPS proves the following for all values of the constants: any number of
requests, maintenance runs, products, reservations, checkouts, carts, calls,
orders, deliveries, callers and keys, clicks, users, browsers, subscribers and
requests of a page, and any lifetimes, within the named assumptions.
`StockAssumption` and `QuantityAssumption` type the constants;
`LifetimeAssumption` is hold <= slack < extension; `NoneAssumption` says that
`None` is nothing else; `CheckoutAssumption` that checkouts are sessions;
`OrderAssumption` that products and calls of `createOrder` are finitely many and
the quantity of a line, which may be zero or negative, is no more than
`CartLimit`; `LinesAssumption` that no list a client sends has more than
`LinesPerProduct` lines of one product. TLC evaluates them in the runs. Each
invariant and each action property that a passing run checks is a theorem.

**`StockProofs`** has four parts, each citing those before it: the totals,
`Inventory`, `Checkout` and `OrderPlacement`.

*Totals.* `Total(f)` is a cardinality, so the library's facts about finite sets
give what the other parts need, without induction: a total is a number
(`TotalType`), follows the change of one value (`TotalChanges`), of one more
argument (`TotalOfOneMore`) and of two parts (`TotalOfBoth`), grows with its
values (`TotalGrows`) and is bounded by theirs (`TotalBound`). That it is the
sum, as the community modules fold it, is `TotalIsSum` of `MCInventory`.

*Inventory.* None of the three safety properties is inductive. That
available and reserved units add up survives a rollback only if the saved row
`before[p]` adds up too, and that available never goes below zero survives one
only if the saved value is no greater than the current one, which is true
because lock holders only ever credit. Hence `LockedRows`. `HoldHonoured` needs
`ExpireSnapshots` (a maintenance run's rows have outlived their hold, which
needs `Deadlines`). `RequestProgress` and `WorkerProgress` say how far each
transaction is. `IInv` is their conjunction with `TypeOK`; `InvariantHolds`
proves it inductive action by action, and the rest follows:
`TypeCorrect`, `StockIsConserved`, `NoUnitSoldTwice`, `EarlyEndIsRequested`,
`ExtensionIsIdempotent`. `ImplementsLedger` proves, for `Workers = {}`, that
each step maps to a step of `StockLedger` or a stutter: the refinement takes
the committed stock and the rows of the table, so that only a commit is a step,
and `AfterCredit` in the invariant says exactly what that commit publishes.
With maintenance runs the refinement is false (see `inventory_double_credit`).

*The ledger.* `NothingStranded` and `LedgerExact` compare a committed counter
with a sum over the table, which says nothing of what open transactions have
credited. `LedgerInv` adds it: the counter of a locked row has been lowered by
the units of just the rows its holder has credited, and the holder has the locks
of all of them. A commit then lowers the committed counter by what its rows are
for and takes at most these rows from the table (`CommitCounts`), so nothing is
stranded (`NoUnitStranded`). A release that finds its row gone throws, and its
credit is rolled back, so its commit takes exactly what it credited, and
`LedgerIsExact` follows for `Workers = {}`. A maintenance run deletes without
minding a row that is gone, so with one the counter may be too low; that is the
double credit again.

*Checkout.* A checkout changes tables and transactions in steps that `Next` of
`Inventory` allows, or not at all (`CheckoutIsInventory`), so each behaviour of
`Checkout` is one of `Inventory` (`CheckoutKeepsInventory`), and all that is
proved of the service alone holds beside checkouts (`SafeBesideCheckouts`).
`OrderedIsExtended` needs to know where each extension is: `CallProgress` says
that the rows a call is done with are settled (extended, gone, or with a twin),
except the one that its own transaction is extending at the moment. A settled
row stays settled, because a deadline that has moved does not move again
(`SettledStays`). `ItemsLeaveOnlyWithOrder` proves the action property from the
bound of the carts (`CartsBounded`): a merge moves units and neither makes nor
loses any. It allows the insert to take the units of its own cart and no others;
that the order may be rolled back after it is difference 7 below.

*Order placement.* `SoldIsTaken` is about orders that are there, and their units
have left the stock some steps earlier. `InHand` is what a call has deducted for
an order that is yet to be inserted; orders and what is in hand together have
left the stock or what negative lines have put there, `putBack`
(`SoldOrInHand`), and a failure or a restart only loses what was in hand. A line
takes its quantity if that is positive and nothing else (`Taken`), so a negative
line raises the counter and `putBack` alike. `OversellBounded` is about
deductions that are still to come: `Due` is what the checked lines of a call
will still take, and even after all of it the stock is within the bound
(`DueBounded`). A line that passes its check finds its units in stock at that
moment, so what is due of the item afterwards is measured from zero; a deduction
moves units from due to taken. The steps of `Inventory` keep the sum of an
item's counters, and leave its available units no fewer, or no fewer than none
(`NextItems`). Deductions break `UnitsConserved`, so the transactions' part of
the invariant (`TransactionsProgress`) is what `IInv` says relative to the saved
row alone. `PlacementInv` is the conjunction; `OrdersAreBacked` and
`OversellIsBounded` follow.

**`OrderLifecycleProofs`.** `IInv` strengthens `JobsTrackFirst` by
`JobsOnlyComplete`: only a job tracks, and while one is about to ask, what the
carrier reports counts for its try (`DeliveredFirst`). `CancellationIsFinal`
proves the action property `CancellationSettles` from it.

**`StripeWebhookProofs`.** `KeyHeld` says that one transaction at most holds the
uncommitted key of an event and that the event is then not yet committed; with
it `EffectOnce` is inductive (`PaidOnce`), and each commit is the one atomic
step of `OncePerEvent` (`ImplementsPromise`).

**`CacheProofs`.** `Registered` says that the map of fetches holds exactly the
fetches under way, each under its own key; from it follow `SingleFetch`
(`StampedeGuard`) and `WaitsAreLive` (`NobodyWaitsInVain`). `InvalidatedForGood`
proves the action property `InvalidationSettles`: what is stored was read from
the source as it is now (`NothingOlder`), so a key that is up to date stays so
under every step that does not change its source.

**`ShoppingProofs`.** `OneAtATimeConserves` compares the cart with what a
shopper expects, and is not inductive: `CalmOK` adds that while clicks never
overlapped there is one at most, that it holds the lines of the cart until it
inserts them, and that the cart is to be, or has been, emptied after that.
`WithinStock` is inductive with `TypeOK`, because an addition is compared after
its await with the quantity it adds to (`Bounded`). `StagesOK` says which kind
of click is where. `NothingLostBeforeOrder` proves `EmptiedAfterOrder`.

**`AccountsProofs`.** That sessions refer to real accounts holds because a row
with a password is never taken away: it counts as registered
(`PasswordsRegistered`), pruning finds others only, and what it has found stays
without a password (`PruningOK`), whoever calls `registerUser` meanwhile.
`CallsOK` carries it over the awaits of a login and a registration.
`SignedIn` and `OneAccount` follow.
`RegisteredAreKept` proves `RegisteredStay`: a pruning that begins later does not
find who has registered (`SafeStays`).

**`FulfilmentProofs`.** The queue is the latest numbers of `published`, in
order, so that a turn of the event loop delivers a number greater than all
delivered before; `Delivery` follows for any number of restarts.

**`PagesProofs`.** `Recent` says that the latest answer, on its way or shown,
was true since it was asked for, where `since` only loses what it held when the
page asks anew. `Numbered` and `Addressed` keep requests apart; `OneAtATime`
says that all pages but the list and the cart ask one thing at a time, which is
why no other page shows an answer that was overtaken (`PagesShowTruth`). That
the tracking form is disabled while it waits is what keeps it so.

**Only model-checked.** Everything with `~>` (`TransactionsEnd`,
`ReconcileEnds`, `DeliveriesEnd`, `GetsAnswered`, `OutdatedIsTransient`,
`CheckoutEnds`, `FailuresAreTold`, `LoadingEnds`): liveness under fairness is
out of TLAPS's reach. So is `TotalIsSum`, which relates a total to a fold, by
induction over the set it folds.

## Where the code and its documents differ

1. `expireReservations` credits the rows it read and deletes them with a
   `deleteMany` that minds no missing row. A release of the same row in between
   credits its units a second time. ADR 0004 says reservations prevent
   overselling completely. The run `inventory_double_credit` ends with this
   counterexample.

The others are in the models as the code has them, and the properties that hold
are stated around them. Up to 8 they are against a text of the repository:

2. The same `deleteMany` takes a row that was extended after the read, whose 30
   minutes (`CONTEXT.md:64`) are not over. Its first 15 are, and `HoldHonoured`
   speaks of these alone.
3. `createOrder` checks and deducts in separate statements and the deduction has
   no condition, while `CONTEXT.md:23-24` says all deductions are atomic
   `updateMany`s that prevent overselling: the stock can fall below zero, by as
   much as `OversellBounded` allows.
4. `createOrder` deletes the reservations of its cart without moving their units
   out of `reservedStock`, and deducts the same units a second time. ADR
   0004:16 says the reservation is converted. `NothingStranded` is about the
   inventory service alone.
5. `transition` writes by id what it checked by a read; a cancellation in
   between is overwritten. ADR 0016:16 says that who comes second fails or does
   nothing. `CancellationSettles` leaves out the transitions that overlap the
   cancellation.
6. `handleWebhook` sets a cancelled order to PAID. ADR 0012:10 says that
   `OrderStateService` enforces rules on every transition. `CancellationSettles`
   leaves out the orders in `Paying`.
7. `initiateCheckout` empties the cart in memory before its transaction commits,
   while `CONTEXT.md:59` says all steps succeed or fail together: after a commit
   that fails there is neither the cart nor an order. `ItemsLeaveWithOrder`
   speaks of the insert and not of the commit.
8. `pruneAbandonedGuests` deletes by ids it read, and so a guest whom
   `registerUser` marked in between, while `user.service.ts:42` says guest
   accounts are pruned. `RegisteredStay` leaves out who was found before.
9. A negative line of a cart or an order passes the check and raises the stock
   when it is deducted, so that more can be sold than there ever was:
   `SoldIsTaken` counts what was put there. No text speaks of it.
10. When a read of a product throws while the cart is read, `createOrder` orders
    the items the client sent along and then empties the cart. The log it writes
    says so.
11. An insert of an order whose answer is lost leaves the cart full, and the next
    submission orders the same lines again; `OneAtATimeConserves` ends there, and
    at any overlap of clicks.
12. Lines added to a cart between its reading and its clearing by `createOrder`
    are gone, unordered; `EmptiedAfterOrder` allows it.
13. A value that a fetch read before the change of its source, and stores after
    the invalidation, stays for the lifetime of an entry. `InvalidationSettles`
    leaves out that overlap; `OutdatedIsTransient` says that it ends, which is by
    expiry alone.
14. Events that wait when the process ends are lost; a restart ends what
    `FailuresAreTold` and `DeliveredInOrder` promise.
15. After a restart the pages of an order and of the history find nothing, since
    they read the map in memory, while order tracking reads the table (`Pages`).
16. `trpc/routers/product.ts:15` says that only published products in stock are
    listed; `getProducts` does not look at what it is passed for that.

## Not modelled

- Prices, totals, formatting, telemetry spans, logging: no property is about
  them. Form fields and their validation by the browser.
- Guards, validation, HMAC, adapters: stateless per request.
- Promotions: two calls that no code makes.
- The administrator's absolute stock update (`updateProduct` with `stock`): it
  ends what any property about the stock can say, and nothing is promised of it.
- The administration page (`admin/products/page.tsx`): it asks in a form whose
  answers do not have the shape it reads, so it never lists a product. The
  home page, which the server renders once. `AdminProduct` paging.
- The periodic reconciliation that ADR 0013 speaks of: no code schedules it, so
  nothing eventual can be claimed.
- Seeds, scripts and generated clients.

## Plan

Written in this order: the inventory core and its proofs, order placement,
checkout, the order row's writers, the webhook handler, the cache; then the
cart with its clicks, users, fulfilment and the pages, each with its proofs.
What would come next:

1. `Shopping` over `OrderPlacement`: the cart's lines and the stock in one
   module, with the refinement of each view by it.
2. Two tabs in `Pages`, each with its own record of what it was told.
