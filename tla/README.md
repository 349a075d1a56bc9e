# snapdoor: a verification project

snapdoor ("LocalMart" in its documents) lets neighbourhood stores sell online and over the
counter: a NestJS modular monolith (`src/apps/api`) on PostgreSQL through Prisma, and three
Next.js front ends (customer shop, store admin, platform admin). What is hard in it is not any
single handler but what several requests, a background job, two browser tabs and crashes do to
the same state: few handlers are transactions, some transactions read before they lock,
screens show what was, and clients retry.

This directory holds TLA+ modules translated from that code, TLC configurations that check
them on small instances, and TLAPS proofs for every size. `PROJECT.json` maps each definition
to the lines it stands for.

## 1. Inventory of the system

| component (under `apps/api/src` unless said otherwise) | state | operations | talks to | module |
|---|---|---|---|---|
| Order lifecycle, `modules/order/order.service.ts` | orders, items, status history, payments, refunds, sales invoices | checkout, createPosOrder, accept, reject, prepare, markReady, dispatch, complete, cancel, customerCancel | Inventory (same transaction), Offers, carts, event bus, SSE | OrderService, OrderMoves, OrderBook |
| Inventory, `modules/inventory` | inventory rows (quantity, reservedQuantity), adjustments, variant `is_active` | init, adjust, decrementDirect, reserve, release, commit | called by orders and the job | Inventory, OrderService |
| The transactions underneath | row locks, pool connections | lock, check, write, commit, roll back | PostgreSQL, Prisma | StockTransactions, StockBook |
| Order timeout job, `modules/jobs/order-timeout.job.ts` | none of its own | list stale orders, cancel each in a transaction (its five-minute schedule is commented out until "Phase 2") | orders, Inventory | OrderService |
| Carts and checkout routes, `modules/order/cart.service.ts`, `customer-cart.controller.ts`, `checkout.controller.ts`, `common/utils/idempotency.util.ts` | carts, cart items, idempotency keys | add, update, remove, clear, merge, two checkout routes | OrderService.checkout | CartService |
| Offers, totals, opening hours | offers, schedule, exceptions, pause | evaluate, charge, open/closed | gate and price checkout | Storefront |
| Store onboarding, `modules/store-catalog`, `modules/documents` | store status, location, documents, approval queue, audit log | upload, verify, reject a document; submit, approve, reject, requestChanges | commission resolver, audit log | StoreOnboarding |
| Catalog, offers, billing, payout accounts, hour exceptions, store creation, commission rules | their tables | CRUD, find-or-create, resolve a rate | carts, checkout, onboarding | BackOffice |
| Identity, OTP rate limiters, the web apps' sign-in routes | users, OTP requests, sessions, counters, cookies | requestOtp, verifyOtp, logout | every guarded route | Identity |
| Customer shop, `apps/store-web` | guest cart in localStorage, cart and sign-in stores of each tab | add, merge at sign-in, checkout, sign-out; an order's two pages | cart, checkout and order routes | ShopClient, OrderPages |
| Store admin, `apps/store-admin-web` | lists of orders kept by the query client, drawer, calls under way | tabs, buttons, polling | order routes through a proxy with timeouts | OrderConsole |
| Soft-delete and audit-column extensions | (rewrite of queries) | deleteMany becomes updateMany of the base client | every query | where it bites: CartService, BackOffice, StockTransactions |

What makes each correct, and what is hard about it:

* **Orders and stock.** The reservation counter must equal what open orders were promised;
  goods leave the shelf once; terminal statuses are final; a completed order is invoiced and
  paid. Hard: reads without locks before `FOR UPDATE`, updates by id after an earlier read, a
  job that works on a snapshot, clamps at zero that hide errors, status and history in two statements,
  locks taken in no order.
* **Carts.** One store per cart, one line per variant (or no more than requests overlapped), a cart is ordered once and whole, a key
  names an order of its own. Hard: nothing but `mergeCart` is a transaction, and it is not quite one
  either; keys are written after the commit; clients repeat requests whose answers were lost.
* **Prices and hours.** Checkout agrees with menu and calendar, the best offer is given, amounts
  add up. Hard: two time zones in one function, doubles rounded one by one, offers read early.
* **Onboarding.** Nothing incomplete reaches an admin, nothing unverified or without a rate goes
  LIVE, REJECTED is final, records tell what happened. Hard: owner and admins act at the same
  time on statements far apart; a crash leaves half of a review.
* **Back office.** What is sold is live; one row where there should be one; the narrowest rule wins.
  Hard: find-or-create without locks, unique indexes that count deleted rows, soft deletes decided
  on earlier reads.
* **Identity.** Limits hold, an OTP is for one login, nobody loses a role, a lockout ends. Hard: counted
  after it is checked; two Redis commands may lose the second.
* **Screens.** A basket is merged once, what is shown is what the API has, a page always opens, a stale
  button does no harm. Hard: answers out of order, several tabs, optimistic changes and roll-backs.

`PROJECT.json` "components" lists every part with what is modelled of it, "hazards" every place
where this code can go wrong in a way a test hardly reaches, at its line, with the properties
that look for it.

## 2. Modules and their correspondence with the code

**`Inventory`** is one row of the `inventory` table and what InventoryService does to it, as pure
operators: `ReserveStock`, `ReleaseReservedStock`, `CommitReservedStock`, `AdjustStock`,
`DecrementDirectStock`, with their guards (`CanReserveStock`, ...). `ledger` is the sum of the row's
adjustments. The switch of the variant (`isActive`) is part of the row.

**`OrderMoves`** has the statuses of an order and the moves the handlers allow (`AllowedFrom`, `Target`).
OrderService, OrderConsole and OrderPages share it.

**`OrderService`** is the database of one store. `orders[o]` is the order's row with what hangs
off it (payment status, invoice, refunds, newest history row; `sales` counts how often its goods
were taken off the shelf). `req[p]` is a request in flight and holds what it has read.

* checkout, createPosOrder and adjustStock decide under the row locks: one step each
  (`Checkout`, `CreatePosOrder`, `AdjustStockOf`). `SwitchVariant` is the owner's updateVariant, which writes a variant's
  `isActive` by hand; createProduct and createVariant make it active with whatever stock, none by default (`InitInventory`).
* accept, prepare, markReady and dispatch are three statements: `AcceptOrder` etc. read and
  check, `UpdateStatus` writes by id, `RecordStatusChange` inserts the history row.
* reject, cancel and complete are transactions whose read comes before the lock:
  `RejectOrder`, `CancelOrder`, `CompleteOrder` read, `RejectTx`, `CancelTx`, `CompleteTx` are
  everything from the lock to the commit. Under READ COMMITTED the transaction writes what it
  decided on the early read. `CustomerCancelOrder` reads, checks, then calls `CancelOrder`,
  which reads again.
* the job: `JobScan` lists, `JobRead` reads the stock rows of the next order, `JobCommit`
  writes, `JobFail` is the rolled-back transaction that the job logs and skips.
* `Abort` ends a request between two steps; `Tick` lets an order grow old (`Age` has the four
  values the code tells apart: inside the cancel window, after it, past 15 and past 120 minutes).

**`OrderBook`** is the abstract specification of that: orders and a shelf, no counters, locks or requests;
what is promised is what open orders ask for. `OrderService` implements it
(`ImplementsOrderBook`) where requests on one order do not overlap.

**`StockTransactions`** opens up what OrderService takes for one step: a transaction gets a connection
of the pool (`Connect`), locks its rows one by one in whatever order (`Lock`), checks, writes, commits.
`DeadlockVictim`, `PoolTimeout` and `Abort` end it otherwise; `ClearOnSecondConnection` is mergeCart's
`deleteMany`, which the extension sends through the base client. **`StockBook`** is its abstract
specification: a transaction happens at once or not at all. `StockTransactions` implements it
(`ImplementsStockBook`, by TLC and by TLAPS), which is what justifies the one step.

**`CartService`** is the carts of one customer, the keys, and checkout as carts see it. Each
handler is its statements: `AddItem`, `AbandonOtherCart`, `FindOrCreateCart`, `FindItem`,
`WriteItem`; `UpdateItem`/`RemoveItem` with `WriteItem`/`DeleteItem`; `ClearCart`, `AbandonCart`;
`MergeCart`, `ClearStaleItems`, `MergeCommit`; `CartCheckout` or `Checkout`, then
`CheckIdempotencyKey`, `PlaceOrder` or `RefuseOrder`, `SetIdempotencyKey`. `ClearStaleItems`
takes effect at once: the soft-delete extension rewrites `tx.cartItem.deleteMany` into an
`updateMany` of the base client (`soft-delete.extension.ts:165`).

**`Storefront`** is a store's calendar and offers and one customer at the checkout or the counter:
`ReadStore` (open?), `EvaluateOffersForCart`, `CreateOrder`, with the owner's changes in between
(`SetHours`, `SetException`, `TogglePause`, `ToggleOffer`). `MenuOpen` is what the menu says
(`computeIsOpenStatus`), `StoreClosed` what checkout decides; `Winners`, `CalculateDiscount`,
`CheckTrigger`, `LineDiscount` are the functions of `offers.service.ts`, in integers of a hundredth of a
paisa, rounded (`Paise`) where a column has two decimals.

**`StoreOnboarding`** is one store with its documents. A review (submit, approve, reject,
requestChanges) goes through `CheckKyc`, `SetLocation` or `ApplyRate`, `WriteStatus`,
`QueueDecision`, `RecordAudit`, each a statement; an upload is `UploadDocument` (find) and
`StoreDocument` (replace in one transaction).

**`BackOffice`** is the rest of what owners and admins write: categories (verticals and the store's own),
products, variants, offers, the billing profile with its default plan, payout accounts, hour exceptions,
createStoreByAdmin, commission rules. A handler is an action for what it reads (`ReadProduct`, `ReadOffer`,
...) and one for each transaction it commits. A behaviour has the operations of one group (`Desks`) that share tables.
`Accepted` is what the cart would take, with the tests `addItem` makes. The approval asks the five tiers one
after the other (`ResolveTier`), rules may be created in between.

**`Identity`** is one phone number: `RecordInMemory` or `ReadCount`, `IncrementCount`, `SetExpiry` for the
two limiters, `CreateOtp`; `FindOtp`, `CountAttempt`, `CompareAndMark`, `FindUser`, `CreateUser`, `OpenSession` for
verifyOtp; `Answer` is what each web app does with the token (its role check, its cookie); `Logout`, `DropCookie`;
`MakeStoreOwner` is an admin's createStoreByAdmin; `Crash`, `Restart`.

**`ShopClient`** is the browser: per tab the cart store, sign-in store and page start (`Load`, `KnowUser`,
`Hydrate`, `MergeGuestCart`), shared by the tabs the guest cart in localStorage and the cookie, and calls that
are `Serve`d by the API as a whole and `Settle`d by the page any time later, or never. `Reload` is what a new
load of the page, by the user or at the end of a sign-out, does to the calls of the page that was there. Its `Serve...`
actions are the handlers of CartService without their races.

**`OrderConsole`** is the store's orders page: a list per tab in the query client with the fetch under way
(`Poll`, `ReadOrders`, `ListAnswer`, `ListFails`), the tab chosen and the tab shown (`placeholderData`), buttons in rows
and drawer (`Press`, `PressInDrawer`), calls that the API performs (`Perform`) and the proxy gives up on
(`GiveUp`). `Elsewhere` is everybody else who moves orders. **`OrderPages`** is the customer's detail and
tracking page of one order, with their different ideas of when to poll and who may cancel.

`MC*` modules define what TLC needs: symmetry sets and constants that are functions; `MCOrderScreens` composes the
console (once with rows, once with the drawer) and the customer's pages into one run, one screen per behaviour.
`OrderServiceProofs`, `StockTransactionsProofs`, `CartServiceProofs`, `StoreOnboardingProofs`, `BackOfficeProofs`,
`IdentityProofs`, `WebClientProofs` (`ShopClient`, and `OrderConsole` through an instance) and `StorefrontProofs` hold the proofs.

Definitions whose comment says *Mutant* are not part of a specification. Each is a definition as a
plausible bug would have it; replacing the original by it makes a property fail, which shows the
property can.

### Which requests overlap: `Overlap`, `Overlapping`, `overlapped`, `smooth`

The code does not serialise requests, so every model can interleave them freely. Several things
one would like then fail (section 6). Where a property survives every overlap, perhaps in a weaker form that bounds what the
overlap can do, it is stated in that form (`TerminalIsFinal`, `FewLinesPerVariant`, `LegalMoves`, `OneDocumentPerType`, `MergedOnce`).
To say what holds besides, a constant says
which requests the environment lets overlap: in `OrderService` `"any"`, `"acrossOrders"` (requests
on different orders overlap, those on one order do not) or `"jobAlone"` (besides, the job runs
while the store is quiet); in `CartService` a Boolean. `StoreOnboarding`, `BackOffice` and `ShopClient` always
overlap and keep history variables (`overlapped`, `died`, `smooth`) that properties refer to. In `StoreOnboarding` `overlapped` is
whether the requests in flight have met one another, and is over when nobody is at work.

## 3. Runs

| run | question | bounds | states |
|---|---|---|---|
| `orders_races` | everything overlaps, requests die anywhere: are reservations never leaked, is the shelf never over-reserved, are completed orders settled, who can write over an ended order? | 2 orders, 1 variant, 1 unit, 2 requests | 1.7 M |
| `orders_disjoint` | requests on different orders overlap, online selling and restocking: is nothing oversold, every unit traced, history exact; does it implement `OrderBook`? | 2 orders, 2 variants, quantities to 2, stock to 3 | 386 k |
| `orders_counter` | counter sales, corrections, the owner's switch, the job and failures besides, a shelf that is empty at first: what is still exact, does the switch follow the shelf? | 2 orders, 1 variant, quantities and stock to 2, 2 requests | 669 k |
| `stock_locks` | locks in any order, deadlocks, a small pool, failures: is a transaction one step, does each end? | 3 transactions, 2 rows, 2 connections | 68 k |
| `carts_sequential` | one request at a time, crashes, lost answers, variants going off sale: are carts ordered once and whole? | 2 stores, 1 variant each, 2 carts, 3 lines, 2 orders, 1 key | 2.4 M |
| `carts_concurrent` | two requests overlap in every way: one store per cart, keys name their orders, how many lines for a variant? | 2 carts, 2 lines, 2 orders, 2 keys | 963 k |
| `storefront` | hours, exceptions, pauses, offers change while a customer checks out: is checkout open by the calendar, the sum right, does more ever cost the discount? | 3 variants, quantities to 2, 3 dates, 4 times of day, 9 offers, 2 changes | 539 k |
| `onboarding` | two requests overlap in every way, dying anywhere: backing, life cycle, documents, records? | 2 requests, 2 types, 3 documents | 1.5 M |
| `back_office` | three requests of one desk in every order and overlap, dying half-way | 3 requests; a small catalog, 1 offer, 2 stores, 3 accounts, 1 date, 11 rule scopes | 346 k |
| `identity` | two requests of one number overlap, die, the API restarts, either limiter | 2 requests, 2 portals, 1 OTP, 2 attempts, 1 send, 2 sessions | 657 k |
| `web_shop` | two tabs, two calls in flight, lost, refused and late answers, reloads, sign-out | 2 stores, 1 variant each, quantities to 2, 4 acts of the user | 203 k |
| `order_screens` | polling against an API that is late, lost or overtaken: does a screen catch up, do stale buttons follow it? | 1 order; rows: 2 tabs, 1 call, delivery and takeaway; drawer: 2 calls; both customer pages | 406 k |

Why the bounds are enough. Every race in orders is between two requests on one order (or cart, or store),
or between one such pair and the stock a second order needs. One unit of stock makes every reservation contested; two
variants are needed for baskets of several lines, quantities of two for clamps that bite partway. The bounds on counters are `MaxStock`
(what restocking reaches), `MaxSales` (how often one order's goods are taken; 2 is the first
double sale), `MaxAge` (0 where time does not matter, 3 for the job), `MaxCarts`, `MaxLines`, `MaxOrders`
(rows ever created: two carts, to have one abandoned and its successor; two orders, to have a
duplicate), `MaxDocuments` (each type once and one more, beside or in place of the first). `UpdateItem` sets quantities 1 and 2, `Available` is 2.
Two transactions that lock two rows are the smallest cycle of waits; with two connections two merges exhaust the pool;
the third transaction is the one that finds what they left. In `identity` one OTP, one allowed send and two attempts
reach each limit and pass it by overlap; the two portals are one that takes every role and one that refuses some.
In `web_shop` four acts fill a guest cart, sign in in one tab while the other starts, and check out. `storefront`
has midnight, 01:00, dawn (05:30, when UTC changes its date) and evening on three dates, so that yesterday's exception can be mistaken
for today's; prices and percentages that do not divide, goods that cost nothing, a percentage above a hundred and one below zero. `back_office` needs three requests for a create, a delete and an update that was decided before.
`order_screens` has one order, as the rows of a list share nothing but the list; two tabs for a list that comes back stale; in the drawer
two calls, one from the row and one from the drawer, or of a drawer opened twice.

Symmetry (orders, requests, document types, idempotency keys) is used where no liveness is checked and no property tells them apart.
`CHECK_DEADLOCK FALSE` in every run: a store whose orders have all ended, a customer who is done, a page that has stopped polling,
or a model that has used up its rows, has nothing left to do. That nobody waits for ever is a property where it matters (`EveryTxEnds`, `EveryPageOpens`).

**Fairness** is assumed where the environment of the code gives it:

* `StockTransactions`: weak fairness of a transaction's next statement, of PostgreSQL's deadlock detection (it runs when a wait lasts a
  second) and of Prisma's timeouts. Nothing makes a transaction commit, or a client open one.
* `Identity`: weak fairness of the next step of a request in flight (the crash is an action of its own and may
  come first) and of the end of a limiter's window. Nobody has to send a request.
* `ShopClient`: weak fairness of "a call ends", if only by failing, and of its handler in the page; browsers end fetches and run handlers.
* `OrderConsole`, `OrderPages`: weak fairness of the poll timer while the page is open, strong fairness of "the API reads the list" and "its answer is handled":
  answers may be lost any number of times, but not for ever. Without it both liveness properties fail at once.

The timeout job has no fairness and no liveness is claimed of it: its schedule (`order-timeout.job.ts:24`) is commented out.

### What the properties say

* `ExactReservation`: the counter is what open orders were promised. `NoLeakedReservation` is the half that survives every
  race: stock never stays reserved for nobody (and no column becomes negative). `NoOverReservation` survives too, because both clamps move in the
  safe direction. `NoOversell` (what was *promised* fits the shelf) needs that requests on one order do not overlap.
* `GoodsTraced` (shelf, ledger and sales agree, goods are taken once), `CompletedIsSettled`: shelf, adjustments and invoices agree with the orders.
* `SoldOutIsHidden`: whoever takes the last unit hides a variant that switches off at zero, the first unit back shows it, and no other change of the stock
  moves a switch. It is not "for sale exactly while in stock": owners write the switch by hand and variants are created active and empty.
* `TerminalIsFinal`: what had read an order while it was open may still write its status over a terminal one, each handler and the job once; nothing new starts on it,
  and where requests on one order do not overlap it is final at once. `orders_races` has the handlers overlap on one order, `orders_disjoint` keeps
  them apart; the job beside them is covered by the theorem, since its late release breaks other properties of that run. `HistoryIsChain`: how an order moved.
* `ImplementsOrderBook`, `ImplementsStockBook`: the two refinements. `EveryTxEnds`: no transaction waits for ever.
* `CartsOfOneStore`, `FewLinesPerVariant` (one line per variant without overlap, no more than requests overlap with it: they do not pile up), `CartOrderedOnce` (once, and whole), `KeyNamesItsOrder`.
* `OpenAsPlanned`: menu and checkout agree, and from 05:30 on with the calendar. `MoneyAddsUp` (the columns to a paisa, the lines to half a paisa each unless the
  offer is for goods that are free; nobody is paid for ordering but by FREE_ITEM or more than a hundred percent), `MoreNeverDiscountsLess`: neither an item nor an offer more makes the discount smaller.
* `StageIsBacked` (a store under review or LIVE has its documents and location, a LIVE one its rate). `LegalMoves`: REJECTED, and LIVE but for rejection, are written over
  only by submissions and approvals that began before, each once. `OneDocumentPerType`: only uploads that met another request leave a type with more than one document, and never with
  more than there are requests. `RecordsMatchStatus`: what queue and audit log say of a review that met no other is what became of the store, after deaths and overlaps before it.
* `SellableIsLive` under any overlap. `OfferAsAsked` without, deaths between updateOffer's two transactions included: the reward is that of the last update that was done, the triggers
  are those of the last that committed them. `OffersStayNarrow` under any overlap and death: an offer for some products is never for all of them unless asked. `OneRowEach` without overlap (but one store for a new number under any); `RateAsRuled`: never another
  store's or zone's rule under any overlap, the narrowest that fits without.
* `LimitsHold`: limits are exceeded by what overlaps and no more. `LoginsPerOtp`, `RoleOnlyRises`; `MemoryLimitLifts` is liveness.
* `OneStore` and `MergedOnce` under everything: a guest cart that the API has merged is merged again only if the answer was lost.
  `ShownIsServed` where nothing went wrong, `EveryPageOpens` whatever fails. `ShownIsServed` speaks of the store whose cart is shown: a page may show
  nothing while the API has a cart of another store (section 6). The run has two stores; the theorems of section 4 have any number.
* `ScreensCatchUp`: who keeps a screen open sees in the end what became of the orders. `StepsFollowScreen`: a button moves an order on from the status that was seen
  or not at all (Reject and Cancel excepted, they are allowed from several).

## 4. What is proved

For every number of orders, variants, requests, document types, transactions, connections, attempts, tabs, calls and every stock:

| theorem | assumption | argument |
|---|---|---|
| `TypeCorrect` | none | inductive as it stands; needs that every inventory operator stays in `InventoryRow`, the clamps included |
| `NeverOverReserved` | no counter sales, no job, no downward correction | `CoveredInv`: the property, the types, and that the job never runs. Per row: reserve needs what is available, release lowers one side, commit lowers both by the same amount before clamping |
| `CompletedOrdersAreSettled` | none | `SettledInv` adds that counter orders are invoiced from birth: a cancelled counter order may be completed again by a late request and must be settled then too |
| `TerminalStatusesAreFinal` (`Spec => TerminalIsFinal`) | none | `EndedInv`: the job has an order on its list or in hand, and once (`JobOnce`), so its write is its last; no handler starts on an ended order, since none allows it. Where requests on one order do not overlap what they have read is still so (`Exclusive`, `Fresh`), and nobody is late |
| `ReservationsNeverLeak` | no timeout job | `LeakInv`: per variant the counter is at most the number of units the open orders were promised. A step changes one order, so the promised set changes by that order's share (finite intervals, their union's cardinality); releases and commits lower the counter at least as much, the clamp at zero included |
| `SoldOutVariantsAreHidden` (`Spec => SoldOutIsHidden`) | none | each step treats a row in one of few ways (`RowStep`), and nothing changes `autoDisableAtZero` (`FlagInv`); the owner's switch moves no stock |
| `ReservationIsExact` | requests on one order do not overlap; the job runs by itself, or there is none | `ExactInv`: the counter equals the promised units, what works on an order is alone with it (`ExclusiveInv`), and the stock the job has read without a lock is still so. Equality makes every clamp idle |
| `NothingIsOversold` | besides: no counter sales, no downward correction | `ShelfInv`: `ExactInv` and `NoOverReservation` together |
| `GoodsAreTraced` | the same | `ShelfInv` and the property: a commit takes what was reserved, and that is on the shelf, so it is not clamped |
| `OrdersImplementOrderBook` (`Spec => ImplementsOrderBook`) | as `NothingIsOversold` | `BookInv`: `ShelfInv` and that what requests have read is current. Every commit maps to a move of the book, every other step to a stutter |
| `TransactionsAreAtomic` (`Spec => ImplementsStockBook`) | none | `TxInv`: shapes (`ShapeOK`), progress of the locks (`ProgressOK`), the request is one the book allows (`RequestOK`), rows are held once (`RowsHeldOnce`), and what a transaction has read and is to write fits the rows it holds (`WorkOK`). Every step maps to a stutter but `Open`, the commit and the failures |
| `RowsAreHeldOnce` | none | from `TxInv` |
| `CartsAreOfOneStore`, `KeysNameTheirOrders` | none | `CartInv`: rows are never lost, a cart keeps its store (`Grown`), so what a request has read of a cart's store and the row it refers to stays true (`Sound`) however long ago it was read |
| `VariantsAreOnFewLines` | none | with overlap `CrowdInv`: the lines of a variant and the requests that found none and will still add one are together at most the requests there are; who ends up on a line changes it, and a merge deletes them all. Without, `OneLine` of the next theorem |
| `CartsAreOrderedOnce` | requests of the customer do not overlap | `SequentialInv`: one request at work, all it has read still holds (`Current`: the cart is active, it has no line for what is added, it holds what is ordered), no two lines for a variant (`OneLine`), and carts that were ordered are abandoned and hold their order (`OrderedInv`), since only active and new carts get or change lines |
| `OnboardingTypeCorrect` | none | `TypeInv` adds that the document an upload found exists and is of its type |
| `SubmittedStoresAreComplete` | none | `CompleteInv`: what a submission or approval has already checked stays true, since documents are only ever replaced in one transaction and pins are never removed |
| `LiveStoresAreRated`, `StagesAreBacked` | none | `RatedInv`: an approval that is about to write has applied the rate; with the above, `StageIsBacked` holds under every overlap |
| `StoresFollowTheirLifeCycle` (`Spec => LegalMoves`) | none | `SeenInv`: an approval has seen its store PENDING. No submission or approval begins on a store that is LIVE or REJECTED, so those in flight only get fewer, and a write takes its request from them |
| `RecordsFollowTheStore` | none | `RecordInv`: until somebody meets another one request at most is at work, and a review that has written the status finds it unchanged |
| `OneDocumentCounts` | none | `CountInv`: the documents of a type that count and the uploads that found none are together at most the requests there are; until somebody meets another, a type found empty still is |
| `BackOfficeTypeCorrect` | finitely many requests at a time; products on sale at first exist | `TypeInv` adds that a request refers to rows of the right table (`Refers`) and that plans and stores are at most the requests there were (`Counted`): each handler that makes one begins with a request of its own |
| `SellableProductsAreLive` | the same | `ActiveIsLive`: a product that is switched on exists. Deleting one switches it off in the same update, and updates find live rows only; `addItem` need not look at `deletedAt` for that reason |
| `RowsAreMadeOnce` | the same | `Alone`: while nothing has overlapped one request is at work, what it has read is still so (`Current`), and the rows are single (`Single`), which no request can tell without the other two. `Newcomer` has the phone number that nobody has used: whoever looked found nobody, and the unique index on the number stops all but the first |
| `OffersAreAsAsked` | the same | `OfferInv`: every offer has the triggers last committed and the reward last asked for (`Matches`), and they are of one update (`Whole`), unless one request stands between its two transactions and has the rest in hand (`HalfDone`) or one has died there |
| `OffersOpenOnlyWhenAsked` (`Spec => OffersStayNarrow`) | the same | from the types: of all that writes an offer's triggers only an update does so while it exists, and the deletion of the old ones is seen by nobody before the new ones are there |
| `RatesAreAsRuled` | the same | `FairInv`: what an approval has found is a rule of this store and zone, or names neither; holds under every overlap, since rules are only appended and keep their scope. `SearchInv`: without overlap, while nothing is found no rule in force fits in the tiers asked so far, and what is found is the narrowest and newest (`Searched`); each tier's query gives the newest of its width |
| `IdentityTypeCorrect` | none | rows are only appended, references stay in range |
| `RolesOnlyRise` | none | a user row is created with the role of a newcomer only where there is none |
| `LimitsAreKept` | none | `AttemptsInv`, `WindowInv`: attempts plus the requests that were allowed and have not counted yet stay below limit plus requests; needs cardinality of finite sets |
| `OneOtpFewLogins` | none | `MarkedInv`: an OTP that has opened a session is marked, and a marked one is found by nobody new, so sessions and requests in flight together are at most the requests there were |
| `BasketsAreOfOneStore`, `GuestCartsAreMergedOnce` | `NoStore` is no store, there is a tab | `ShopInv`: every basket, kept, shown or sent, is of one store (`GoodPage`, `GoodCall`, `GoodCopy`); an item being added fits the basket its refusal goes back to (`Fits`), which the answer to a 401 needs; each copy of the guest cart has a number of its own and is in one place (`TokensInv`), one that the API has merged and whose answer is not lost is in none (`MergedInv`) |
| `PagesShowTheServedCart` | the same | `ShopInv` and `SmoothInv`: while nothing went wrong one call is in flight at most, on the only page, and what the page will make of its answer is the API's cart (`Awaits`, one case per kind of call: a removal is shown before it is done, an addition can be taken back) |
| `ScreensAreBehind`, `StepsFollow` | `"All"` is a tab (the page starts there) | `ConsoleInv`: orders only move forward (`Rank`), so everything shown, under way or sent is `Behind` them; a call was offered for what it saw; a takeaway order is never out for delivery, since dispatching is not offered for it. Where a handler allows two statuses (dispatch, complete), the one not seen is behind the seen one or of the other kind of order |
| `StoresOpenAsPlanned` | `StorefrontAssumption`: finitely many variants and offers, prices and fee not negative, a calendar without gaps at its start | `IInv` (theorem `StorefrontInvariant`), its part `Calendar`: the date before today's has an entry too, which is the one UTC may take; entries are what may be entered. Then menu, checkout and calendar differ only where UTC has another date |
| `TheMoneyAddsUp` | the same | `Evaluated`: from the evaluation to the last moment of the request the winner is one of the offers that ran *then*, or none; the owner's changes do not touch it. `Placed`: what was written is what `CreateOrder` computes from basket, fee and winner. Rounding the parts of a sum each by itself moves it by half a unit per part (`LineShare`, `SharesAddUp`), rounding discount and total by half a paisa each (`PaiseGap`) |
| `MoreIsNeverDiscountedLess` | the same | every trigger and every reward is monotone in the basket (`MoreForAnOffer`): an offer that is given stays given and is worth no less, so neither is the best of them and of more offers (`MoreForAll`) |

The constants' own assumptions (`OrdersAssumption`, `StockAssumption`, `IdentityAssumption`, ...) are named in the modules; TLC evaluates them in
every run. The invariants are proved for `Init` and each step, the last step of each theorem is temporal.

Every invariant and every action property that a run checks is stated by one of these theorems, but for `HistoryIsChain`, which the code keeps only where nothing overlaps or dies and TLC shows there; `StepsFollowScreen` is proved as the property of
the instance of OrderConsole that WebClientProofs takes, which is how `order_screens` checks it. Left to TLC for good is liveness (`EveryTxEnds`, `MemoryLimitLifts`,
`EveryPageOpens`, `ScreensCatchUp`): the prover handles neither fairness nor ENABLED. No module has recursive operators.

Storefront's totals are folds over the lines of a basket, so its proofs need an induction. The library's induction theorems take an operator, which the
provers cannot instantiate; StorefrontProofs does it with *sets*: the finite sets for which a claim fails have a smallest member (`SmallestSet`, from the
library's well-foundedness of strict inclusion), and looking at it gives `SetInduction`. With it the fold of a finite set is shown to
be the total that does not depend on the order of the lines (`SumIs`, `SumRemove`), and from that come the sums' bounds and monotonicity.
The proofs also changed the model: that an offer's amounts and its cap may be negative or zero, percentages exceed a hundred and prices be zero, as the
API accepts, had been left out, and is what `MoneyAddsUp` now excepts.

## 5. Abstractions

* In OrderService from lock to commit is one step: StockTransactions shows that it may be. A plain update of the order
  row takes effect before the transaction's own update or after its commit.
* Checkout's reads before its transaction (store open, offers) are in Storefront with their staleness; in OrderService they
  are folded into `Checkout`. Addresses are left out everywhere.
* The job reads all stock rows of an order in one step. READ COMMITTED is PostgreSQL's default and what Prisma's transactions use here.
* Refund rows are in the model (`RefundDue`) but never due: online payments never reach SUCCESS in this code.
* A customer's cart sees the available stock as a constant; `OrderService` models its contention.
* `mergeCart` is given a guest cart of one store: `OneStore` checks that the web shop keeps it so, the server does not look.
* Carts, documents and decisions are in the order of their creation; `updatedAt` and `createdAt` orders are that order.
* Storefront: time moves by four slots a day; money and percentages are whole numbers, a price typed in at the counter is left out, quantity triggers are tested only for BUY_X_GET_Y_FREE-like rules as in the code; offers do not begin or end by themselves.
* BackOffice: rules do not begin or end within a behaviour, a percentage stands for the rule it comes from, names and prices are left out.
* Identity: the JWT is the session it names; a code is right or wrong; `refresh` is left out, no client of the repository calls it; so are the development bypass and Google sign-in, which finds users by e-mail.
* ShopClient and OrderConsole take each API handler as one step; what overlaps there is in CartService and OrderService. The console's badge, its search text and pages of the list are left out, and so is the push of new orders, which never arrives.
* Commission in StoreOnboarding is a flag (applied or not). Notifications, events, logs and wording are left out.

## 6. Where code and its documents, or its own parts, disagree

All of these were seen as counterexamples of a model, or in the code while modelling it; the properties of section 3 are what holds beside them.
No run is kept for them.

Orders and stock:

* A late accept revives a cancelled order: `order.service.ts:143` updates by id after an earlier read. A request that dies between status and history row (`:148`) leaves a gap in the history.
* Two cancellations of one order release its stock twice (`:221` reads before the lock), and the shelf is oversold.
* The counter sells reserved units (`:763`; `DECISIONS.md` 114-116 has both channels share the stock).
* UPI and CARD orders complete unpaid (`:423` trusts a `confirmPayment` that does not exist).
* A customer's cancellation that passed its check at `:921` cancels an order already in preparation.
* The job cancels orders accepted after its scan (`order-timeout.job.ts:65`), and its unlocked release (`inventory.service.ts:353`) loses reservations made in between.

Carts:

* The idempotency key is written after the commit; a retry orders twice. After a lost answer the repeated checkout gets "Your cart is empty" (`customer-cart.controller.ts:116`).
* A failed merge leaves the cart empty; overlapping requests give one variant two lines (`cart.service.ts:161`, `318`) and a customer two active carts (`149-150`).
* Lines added between the read of a cart and its checkout are abandoned with it (`order.service.ts:679`).

Prices and hours:

* The exception's date is taken in UTC, day and time in India (`order.service.ts:489`, `customer-store-catalog.service.ts:249`); before 05:30 the wrong day's exception counts. Where a runtime prints midnight as "24", an hour is lost. Windows over midnight never open.
* FREE_ITEM is not capped (`offers.service.ts:171`): a total can be negative. So it can by a percentage above a hundred, which only the form refuses (`OfferFormDrawer.tsx:244`, not `create-offer.dto.ts:81`). `maxUsesTotal` and `maxUsesPerOrder` are never enforced.
* A discount whose eligible lines cost nothing is on the order and on none of its lines (`offers.service.ts:192`).
* The checkout page shows subtotal + GST - discount (`page.tsx:60`), the API charges subtotal + fee - discount (`order.service.ts:603`). Sales change the menu's prices and not checkout's.

Stores:

* A late submission puts a rejected store back under review (`store-owner-catalog.service.ts:262`); a document rejected while its store is approved leaves the store LIVE with it (`store-catalog.service.ts:328`);
  two first uploads of a type leave two documents that count (`documents.service.ts:107`); `requestChanges` looks at no status (`store-catalog.service.ts:358`); reviews write their audit rows outside any transaction (`DECISIONS.md` section 16).
* The admin's commission page says a city "scopes rule to a city" (`page.tsx:318`); a rule with city and category applies to the category in every city.
* Overlapping first visits make two default fee plans, overlapping account creations two primaries, two admins two stores for one customer. A deleted exception's date can never be set again: the unique index counts deleted rows.
* Overlapping updates of an offer can join their triggers; a crash between its two writes leaves new triggers with old terms.

Identity and screens:

* A crash between INCR and EXPIRE leaves a phone number locked out for good.
* The live feed never works: `order.controller.ts:58` (`orders/:id`) is declared before `:162` (`orders/stream`) and takes its requests, and the proxy gives up on a stream after four seconds; the hook then closes for good. New orders show by polling.
* A stale Reject hits an order accepted meanwhile, a stale Cancel any open one; the success of a drawer's call closes whichever drawer is open by then.
* A write the proxy gave up on after 15 seconds may have been done: the page says "Action failed".
* Cancel is offered for five minutes on the detail page and one on the tracking page, the API allows half a one for delivery. A detail page whose first load failed never polls.
* `cart.store.ts:382` says that localStorage is cleared before the call "to prevent double-merge on retry": a basket that the API has merged and whose answer is lost is put back (`:428`)
  and merged again later, in place of what the cart holds by then (`cart.service.ts:315`), ordered goods included.
* A page can go on showing a cart that is not the API's when calls overlap; a reload during a merge loses the guest cart.
* A customer can have active carts of two stores (a merge does not look at the others, `cart.service.ts:293`). The page then shows one; after a confirmed "Clear cart &
  add item" (`cart.store.ts:359`) clears that one, the item is refused because of the other, and the page shows an empty cart that the API does not have. So does the page after an order of the one.
* The cross-store question is asked on the cart page only (`cart/page.tsx:86`): asked on a store's page it waits, and its answer may clear a cart that is no longer the one it was about.

## 7. Not modelled, and what is left

Not modelled, with the reason:

* Most of the repository's lines are pages of the three front ends: layout, forms whose state ends with the page, lists over read-only routes, mock
  data of routes that do not exist yet. There is nothing in them for a model to check that the API's handlers do not already show; the share of lines the map
  covers stays small for that reason. The pages whose own state matters are modelled (ShopClient, OrderConsole, OrderPages, the sign-in routes in Identity). Pages read and
  left out after reading: counter billing, settings, products, admin stores, commission, geography, search; most of what they do wrong is last-writer-wins of a form over a stale read, which no property of theirs survives.
* Read-only routes: order lists, menus and search results, analytics, invoices, settlements, notification counts.
* Ratings (one insert guarded by a unique index), delivery staff, profile and address updates (single-row writes), geography (PostGIS functions).
* Guards, filters, interceptors: stateless; the models' requests are those that passed them.
* Placeholder modules (fulfillment, merchandising, search, notification, monthly billing): no behaviour yet.
* Sales: nothing in the repository writes a `sale` row.

Proofs: no safety property of a run is without its theorem but `HistoryIsChain`. What would be worth stating beyond the runs is that `CartService` and `OrderService` together keep
one order per key, for which their modules would have to be composed.

Models still worth making: the timeout job's liveness, once its schedule is switched on; a confirmation of online payments, once there is one.

## 8. Running

    tlc -workers 2 -config orders_disjoint.cfg MCOrderService
    tlc -workers 2 -config order_screens.cfg MCOrderScreens
    tlapm OrderServiceProofs.tla
    tlapm CartServiceProofs.tla
    tlapm StockTransactionsProofs.tla
    tlapm StoreOnboardingProofs.tla
    tlapm BackOfficeProofs.tla
    tlapm IdentityProofs.tla
    tlapm WebClientProofs.tla
    tlapm StorefrontProofs.tla
