# Verification of the Sadivacloset API

TLA+ models of the NestJS / Prisma / Redis service in `src/src`, their TLC
configurations, and TLAPS proofs. Paths below are relative to the repository.

The service runs in several Node.js processes over one PostgreSQL database
(isolation READ COMMITTED, Prisma's default) and one Redis. Inside a process
every `await` is a point where another request may run, and between two
statements on the database any other process may run: the unit of interleaving
in all modules is **one statement on the database or on Redis**, or the stretch
of code between two of them.

## 1. Inventory

Status: M modelled, P partly, - not modelled. `PROJECT.json` has the sources.

| Component | State | Operations | Correct when | |
|---|---|---|---|---|
| Cart (`cart.service.ts`) | `CartItem(buyer, product, quantity)` | add, update, remove, clear | lines stay within the stock there was; deleted products stay out | M |
| Checkout (`checkout.service.ts`) | `Order`, `OrderItem`, `Delivery`, `Product.stock` | cart to order in one transaction, after reading address, zone and fee | never oversold, all or nothing, ends; fee in force; delivered to an own address | M |
| Order cancellation, delivery edits (`orders.service.ts`) | the same | cancel (transaction), upsertDelivery | stock returned, order and delivery closed together | M |
| Administration of orders, deliveries | status columns | updateStatus | does not touch the stock | M |
| Administration of products | `Product`, catalogue cache | stock edits, deletion, invalidation | products of orders and carts exist; readers see the edit | M |
| Payments (`payments.service.ts`) | `Payment`, `Payout`, `WalletTransaction`, order status | init (charge, KWiK, bank transfer), receipt, validate | paid means paid for that order; the ledger follows payments and transfers | P |
| Webhooks (`webhooks.controller.ts`, `payments.service.ts`) | `webhookProcessedAt`, Redis keys | AppyPay, generic, alias, E-Kwanza | repeated notifications are idempotent, none is lost | P |
| AppyPay client, E-Kwanza client | a token | createCharge, sendKwikToCustomer | an answer that comes late or never does no harm | P |
| Authentication (`auth.service.ts`), account of the administrator | `User`; refresh blacklist and reset links in Redis | register, login, Google, refresh, logout, forgot, reset, profile | a revoked token gets nothing; a link works once; addresses are unique | M |
| Addresses (`addresses.service.ts`) | `Address.isDefault` | create, update, remove, setDefault | one default; the last address of a pending order stays | M |
| Delivery zones and fees | `DeliveryZone`, preferences, a Redis copy | list, quote, administration | one rule for every fee shown and charged | M |
| Catalogue, preferences, store settings, Redis access | rows with a Redis copy | cache-aside reads, invalidation, singletons created on first use | a reader sees a write soon; defaults never replace settings | M |
| Payment queue | BullMQ jobs | enqueue after confirmation | no consumer in the repository | - |
| Rate limiting (`redis-throttler.storage.ts`) | counters with expiry, fallback map | increment | limit respected at the boundary | - |
| Favourites, members, statistics, audit | single rows, aggregates, a log | CRUD | - | - |
| Notifications, realtime, storage, mail, health, HTTP plumbing | none that others read | output | - | - |
| `admin/pedidos`, `admin/entregas`, `admin/produtos`, ... | - | duplicates that `admin.module.ts` does not register | dead code | - |

Interactions: cart rows are the input of checkout, which deletes them; product
rows are shared by cart, checkout, cancellation and administration (row locks,
foreign keys, cascades); the order's status is written by cancellation,
administration, payments and webhooks; a webhook shares a payment row with the
buyer's requests and the administrator, with no transaction at all; the code of
an outgoing transfer is also written as the reference of the order's payment;
deliveries point at addresses, whose deletion sets the pointer to null; fees are
read from zones and preferences, which administrators change; Redis holds copies
of tables, revoked tokens, reset links and idempotency keys, and may lose any.

Hard behaviours, in the order of what they can cost: two notifications of one
payment at a time; a notification, a retry and a late answer of the provider in
any order; money sent before anything is recorded; a handler that dies between
payment, order and ledger; two buyers after the last unit; guards evaluated
before a transaction and relied on inside it; deadlocks between transactions
that lock products in opposite orders; deletions that race with carts, checkouts
and deliveries; tokens and links that are looked up first and revoked later;
caches filled with what was read before a write. `PROJECT.json` lists the hazards
line by line.

## 2. Modules

| Module | What it is | Proofs |
|---|---|---|
| `Cart` | cart requests statement by statement, with the product writes of administrators | `CartProofs` |
| `CartHistory` | extends `Cart` with the largest stock that each product ever had | `CartProofs` |
| `Inventory` | abstract specification: orders and cancellations are one atomic step each | |
| `Checkout` | extends `Cart`: checkout and cancel with transactions, row locks, rollback; administration; implements `Inventory` | `CheckoutProofs` |
| `Payments` | charges, buyers, provider, webhooks, validation | `PaymentsProofs` |
| `Disbursement` | abstract specification: what the books may say of an outgoing transfer | |
| `Payouts` | money that leaves: KWiK, bank transfer, E-Kwanza's notifications of them; implements `Disbursement` | `PayoutsProofs` |
| `Accounts` | accounts, refresh tokens, reset links, profile and account page | `AccountsProofs` |
| `Addresses` | addresses of buyers, default marks, deliveries that go there | `AddressesProofs` |
| `Fees` | what a delivery costs: checkout, receipts and pages, each statement by statement, against quote | `FeesProofs` |
| `CacheAside` | tables kept in Redis: zones, catalogue, preferences, store | `CacheProofs` |
| `MC*` | symmetry for TLC; one `.cfg` per question | |

### Cart

`cart[b][p]` is the quantity of the row (unique per buyer and product; 0 means no
row), `creq[c]` the local variables of a request between two statements. `addItem`
is `AddItem` (read the product), `AddItemLookup` (read the row, compare the sum
with the stock read *before*), then `AddItemCreate` (unique key and foreign key
may refuse) or `WriteQuantity` (an absolute value by row id). The field `row`
says that the id that was read still names a row: `DropRows` clears it for every
deletion, cascades included, since ids are never used again.

A bound that holds over time needs a memory of what the stock was:
`CartHistory` adds `peak[p]`, the largest stock of product `p` so far, to the same
actions. Lines that exist at the start were compared with some stock of their own
product, and so start below its peak.

### Checkout and Inventory

A request first reads (`CheckoutReadCart`, `CancelRead`: every guard outside the
transaction is evaluated here and never again), then works through `todo`, one
product at a time in any order. `UpdateStock` waits for the row lock; what it
writes is in `delta[r]`, invisible to others until `CommitStock`. The condition
`stock >= quantity` of `updateMany` is evaluated on the committed row when the
lock is granted, which is what READ COMMITTED does. `Rollback` may strike at any
point (deadlock victim, Prisma's time limit, a crash). Status handlers of
administrators accept any status and write one column. `Inventory.tla` knows
neither requests nor locks; `Shelf == INSTANCE Inventory` maps the committed
tables to themselves and hides the rest.

Addresses and fees of a checkout are in `Addresses` and `Fees`, where their races
are; the stock does not depend on them. Prices of products are not modelled. The
product's row lock also stands for the foreign-key lock that the insertion of an
order item takes: a product being ordered cannot be deleted before the commit
because its row was updated earlier in the same transaction.

### Payments

`pay[o]` is the payment row: status, `ref` (`bridpayMerchantTxId`, the merchant's id
of the last attempt, which `init` also writes to `externalReference`), `code`
(`providerTxId`), whether `webhookProcessedAt` is set. `redis` has the idempotency
keys, `settled[o]` the number of settled credits. `charge[a]` is what the provider
knows of an attempt; `calling` holds the calls in the background, whose answer
(`CallAnswered`) writes `providerTxId` of whatever attempt the payment carries by
then. A webhook or a validation is `Receive` / `AdminValidate` (read, decide),
then one action per write: `ConfirmPayment`, `ConfirmOrder`, `ConfirmCredit`, or
`ConfirmFailed`, `ConfirmMarked`. `AnswerAtOnce` is the early return of a
repetition, `AnswerPending` that of a status which is neither success nor failure.
`Die` stops a handler between two writes. `RedisForgets` is one key that expires or
is evicted, or a Redis that is down when it is asked (the code goes on without it).
`TransferRecorded` is the write by which an outgoing transfer puts its own ids on the
payment.

The handlers differ in details the model keeps:

- how a call names the charge (`Names`: by the merchant's id, by the provider's, by
  the order) and where the handler looks for it (`Finds`): AppyPay and the
  generic webhook by the id that was given, the generic one by the order as well,
  E-Kwanza by both ids, which it always gives;
- what is said of the charge (`Says`): AppyPay and E-Kwanza give its state; a caller
  of the generic webhook gives any of `Words`, a listed success, a listed failure,
  another word, or none;
- what is made of it (`Fails`, `Succeeds`): AppyPay takes neither side for a pending
  charge, E-Kwanza fails whatever is not a success, and the generic handler **takes
  everything but its six words of failure for a success**, `pending`, `declined` and
  a missing status included (`payments.service.ts:1283-1319`);
- which leave marks (`Marks`), under which key (`Key`), and whether a paid payment
  may fail afterwards (`AlreadyPaid`).

The route `alias` is `POST /webhooks/payment/appypay`, which `payment/:gateway` takes
because it is declared first: an AppyPay payload, which has no `status`, in the hands
of the generic handler.

The provider is external and modelled from its use: it repeats a notification
until a webhook answers 200, and may repeat it afterwards. Writes of the order's
status by others are `OrderMoved`, an environment action over `OrderMoves`.

### Payouts and Disbursement

`iniciar` with an IBAN, one action per statement: `InitRead`, `InitCreate` (the
unique key of the payment refuses the second creation), `InitPendingCredit`,
`InitSend` (a fresh operation code, and for KWiK the call to E-Kwanza),
`CallReturns` or `CallFails` (an error or the timeout of 1 to 15 seconds; the bank
may carry the transfer out all the same), `InitPayoutRow`, `InitPendingDebit`,
`InitReference`. `bank[x]` is what E-Kwanza knows; it notifies as often as it
likes. `HookFindsPayment` comes before `HookFindsPayout`, as in the webhook, so a
transfer whose code is the payment's reference confirms the *order*. `ChargeStarted`
is a charge of `Payments` that replaces the reference meanwhile.

`Disbursement` has three facts of a transfer, the bank's decision, what the service
knows, and settled debits. `Bank == INSTANCE Disbursement WITH ...` maps the status
column of the payout to what it says (`Standing`).

### Accounts

`account[u]` is the row, `issued` the refresh tokens that were signed, `listed[t]`
the second at which the key `blacklist:refresh:<token>` expires, `link[k]` a reset
link. A token is its user and the second it was signed in, since the code signs no
`jti`. Each route is its look-ups and its writes as separate actions, for example
`RefreshCheck`, `RefreshUser`, `RefreshRevoke`, `SignTokens`. `Tick` is the clock;
`Deactivate` stands for whoever sets `isActive` in the database. The `late` mark of
a request is history: its token was revoked, or its link answered, before it began.

### Addresses

`CreateCount` / `CreateWrite`; `RemoveFind`, `RemoveCount`, `RemoveLinked`,
`RemoveDelete`, `RemovePick`, `RemovePromote`; `SetDefaultFind`, then the two updates
of the transaction: `DefaultSnapshot` finds the rows, `DefaultClear` gets their
locks and evaluates the condition again, `DefaultSet` is the second update with the
commit. `CheckoutAddress` / `CheckoutPlace` and `UpsertRead` / `UpsertAddress` /
`UpsertWrite` are the look-ups and writes of those who use addresses. Ids are random
and never used twice (`state` is `new`, `live` or `gone`); "first by id" is any.

### Fees

`Quote` is `GET /delivery-zones/quote` as one operator, the measure of the others.
Everything else is a request, one statement per action. Checkout is
`CheckoutAddress`, `CheckoutZoneOnly`, `CheckoutDefault` or `CheckoutPickup`, then
`CheckoutZoneById`, `CheckoutZoneByNeighborhood`, `CheckoutPrefs`, then
`CheckoutOrder`, which goes on to the zone of the answer (`Receipt`, `ReceiptZone`).
The pages that price a zone (addresses, profile, orders, breakdown of a payment) are
`PageOfAddress` or `PageOfOrder`, `PageAddress`, `PageZone`, `PagePrefs`. Where the
copies of the rule differ, so do the actions: a page without preferences shows no zone
where quote and checkout say 0, and a receipt does not fall back on the default fee.

`EditDelivery` is `upsertDelivery`: only while neither order nor delivery is closed
(`open`, which `WriteStatus` turns either way for administrators and cancellations); the
address changes, the fee stays. Its create branch fills in a missing delivery with the
fee of the order; it never does here, because a checkout creates the delivery with
the order and nothing deletes one. `seen` is history: what quote offered since a
request began.

### CacheAside

A handler is a sequence of operations (`Get`, `load`, `Fill`, `write`, `Del`, ...);
`ZonesFindAll`, `ProductWrite`, `GetPreferences` and so on spell out those of the
code, with the `try` blocks that swallow errors of Redis. One action per kind of
operation carries a request one statement further. A table is the number of its
last write. `MaxFill` bounds the time from reading a table to filling the key, a
fact about the environment that `BoundedStaleness` takes into its bound.

## 3. What is checked

| Run | Instance | Shows |
|---|---|---|
| `cart` | 1 buyer, 2 products, 2 requests, stock 0..3, quantities 1..2 | `LineWithinStock`: no line exceeds the largest stock that its own product ever had; `DeletedStaysOut` |
| `checkout` | 2 buyers, 2 products, 2 transactions, 2 orders, stock 0..1, two cancellations per order | `NeverOversold`, `StockLedger`, `TransactionInv`, `NoStandstill`, `OrderedProductsExist`, refinement of `Inventory` |
| `checkout_live` | 2 transactions over 2 products, `FairSpec` | every checkout and cancellation ends |
| `payments` | 2 orders, 2 attempts, generic webhook (listed words for one charge, an unlisted one too for the other) + E-Kwanza, named by merchant's id or order | `Prompted` |
| `payments_live` | 1 order, 1 attempt, 2 confirmations at a time, AppyPay + its alias + administrator, order cancelled meanwhile, 1 fault, `FairSpec` | `BooksBalance`, `AckedMeansRecorded`, `ChargeConfirmed` |
| `payouts` | 1 order, 2 transfers, 2 requests, 2 notifications, the three methods, 1 fault | `TransfersRecorded`, `OpenedOnce`, `ConfirmedByTransfer`, refinement of `Disbursement` |
| `accounts` | 2 users of whom 1 administrator, 2 e-mails, 1 link, 2 requests, 3 seconds | `RevokedGetsNothing`, `LinkWorksOnce`, `EmailsUnique` |
| `addresses` | 2 buyers, 2 addresses, 1 order, 2 requests | `DeliveryToOwnAddress`, `OneDefault`, `DefaultLostByRemovalOnly`, `LastAddressKept` |
| `fees` | 2 zones, 2 neighbourhoods, 1 address, 1 order, 1 request (checkout with its receipt, or page), prices 1 and 2 | `FeeInForce`, `PagesInForce` |
| `cache` | each family of tables in turn, 2 requests, 2 writes, lifetime 1 | `WritesShow`, `BoundedStaleness`, `SavedStays` |
| `credited_twice` | 1 charge, 2 calls of the generic webhook at a time | **violated**: `SettledOnce`, see below |
| `cancel_twice` | 2 cancellations of one order | **violated**: `RestockedOnce`, see below |

Each passing run checks the module's type invariant as well, and each property
has a mutant of the code that breaks it (`PROJECT.json`, `mutants`).

`credited_twice`: `docs/API_CONTRACT.md:271` says that a second call with the same
reference is answered without processing the payment again. The mark is read at
`payments.service.ts:1258` and written at 1320, and Redis is told last: two calls at
a time both confirm and both settle a credit. The same happens on AppyPay's route
(lines 992 and 1028). `BooksBalance` counts every time the payment was recorded, and so
holds.

`cancel_twice`: `SADIVACLOSET.md:622` says that a cancelled order cannot be
cancelled and line 626 that its stock is restored. Both guards are evaluated before
the transaction (`orders.service.ts:202-243`) and not again in it, so two calls at a
time restore the stock twice. In `checkout`, `StockLedger` counts what each call gave
back, and so holds.

**Bounds and why they are enough.** Every race in these components is between
two requests about one row, or two transactions about two rows (a deadlock needs
two rows and two lockers); a third actor repeats what the second one does.

- `MaxStock` = 1 makes every two orders of one product compete; the cart needs 3
  for a sum of two additions that fits and one that does not.
- `payments` has two orders because `Prompted` is about charges of the wrong one, and
  two attempts, which may be of one order (a retry) or of two; `payments_live` has one
  order and two confirmations at a time, because the books and the answers are about
  overlaps. The provider's id as a name is left to the proofs, which have no such bound.
- `MaxReturns`, `MaxCredits`, `MaxDebits` and `MaxFaults` cap counters; they admit the
  second, wrong, occurrence (`MaxCredits` and `MaxDebits` guard the start of a call
  only, so two that overlap still count twice).
- Cart requests between the statements of a checkout are covered by
  `DeletedStaysOutOfShop`, for any number of them; an instance with both that is large
  enough to be of interest is beyond a run of a few minutes. In `checkout` carts start
  with any lines.
- Two transfers let the code of one replace that of the other on the payment.
- Accounts: two seconds and lifetimes of 2, 1 and 1 let a token and a key expire
  while a request is under way; two pairs of tokens are a session and its successor.
- Addresses: two rows are a default and its substitute, or one of each buyer.
- Cache: two writes let an entry be of the last one, of the one before and of
  neither; a lifetime of 1 over 3 seconds lets entries expire and be refilled.
- Fees: two prices tell any mixture of two tariffs apart.
- `OrderMoves` and `DeliveryMoves` name representatives: the handlers of the
  other parts do not look at more than membership in a guard set.

**Deadlock** is checked in `accounts` and `fees`. Elsewhere `CHECK_DEADLOCK FALSE`:
shops with every product deleted, payments with every charge declined, a bounded
clock at its end and ids that are used up rightly leave nothing to do.

**Fairness.** `Checkout!FairSpec`: weak fairness of the steps of a request (an
`await` that can resolve does), strong fairness of its lock steps (PostgreSQL
queues the waiters of a row, so a lock that becomes free again and again is
granted), weak fairness of `DeadlockVictim` (PostgreSQL breaks every waiting
cycle after `deadlock_timeout`). Rollbacks from outside, buyers and
administrators are owed nothing. `Payments!FairSpec`: weak fairness of a handler
that has started, strong fairness of the provider's repetition until one is
answered 200. Nothing is assumed of the buyer's choice, of the answer to the
background call, or of handlers not dying (`Die` stays possible, up to
`MaxFaults`).

**Conditions in properties**, each needed (see section 5): `AckedMeansRecorded` and
`ChargeConfirmed` speak of orders with one attempt, since the outcome of one attempt
marks the payment as processed for all; `OpenedOnce`, `TransfersRecorded` and the equation
in `BooksBalance` (not its inequality) hold while nothing died half-way; `OneDefault`
and `LastAddressKept` for buyers who never had two requests under way; `FeeInForce`
and `PagesInForce` with at most one change of the tariff during the request;
`WritesShow` except for entries of an overtaken reader. `Prompted` has no condition,
and says less for it: its cause may be a status that the generic handler takes for
success. What the API contract promises, a *paid* charge, is `Earned`, which is a theorem
for callers who keep to the words it lists.

## 4. What is proved

For every value of the constants, under the assumptions named in the modules:
`None` is not a member of the sets it stands beside, bounds, lifetimes and prices
are naturals, and sets such as `OrderMoves`, `Routes`, `Methods`, `Admins` are
subsets of what they name. All theorems are about the specifications that TLC runs
(`HistorySpec` in the cart, whose steps are those of `Cart`).

| Module | Theorems |
|---|---|
| `CartProofs` | `CartTyped`, `LinesWithinStock`, `DeletedProductsStayOut` |
| `CheckoutProofs` | `Typed`, `TransactionsIsolated`, `StockNeverOversold`, `ProductsOfOrdersExist`, `DeletedStaysOutOfShop`, `CheckoutImplementsInventory` (refinement); `StockAccountedFor` for finitely many orders; `StandstillsAreCircles` for finitely many requests at a time |
| `PaymentsProofs` | `PaymentsTyped`, `ConfirmationsPrompted`, `PaymentsBalance`, `AnswersHold`; `ConfirmationsEarned` under `Listed`: callers of the generic webhook use the words of `docs/API_CONTRACT.md:269`, and AppyPay's payloads do not get there |
| `PayoutsProofs` | `PayoutsTyped`, `OrdersConfirmedByTransfer`, `PaymentsOpenedOnce`, `AllTransfersRecorded`, `BooksFollowBank` (refinement) |
| `AccountsProofs` | `AccountsTyped`, `RevokedTokensGetNothing`, `LinksWorkOnce`, `EmailsStayUnique` |
| `AddressesProofs` | `AddressesTyped`, `DeliveriesGoToOwn`, `OneDefaultEach`; the action properties `DefaultsLostByRemoval`, `LastAddressIsKept` |
| `FeesProofs` | `FeesTyped`, `FeesWereInForce`, `PagesWereInForce` |
| `CacheProofs` | `CacheTyped`, `AnsweredWritesShow`, `StalenessEnds`, `SavedSettingsStay` |

*Cart.* `CartInv` adds to the types that a request under way names a buyer and a
product, that a quantity in hand is within a stock figure that was read, and that
a request that still has hold of a row (`row`) is about a product that exists:
without this `WriteQuantity` could bring a deleted line back. For the bound on lines
the figure that was read, and with it the quantity in hand, is at most the `peak` of
that very product.

*Checkout.* Non-negative stock is not inductive: `CommitStock` adds a `delta`
computed several steps earlier. `Safe` adds `TransactionInv`: a delta is exactly
what the request has worked off (`RequestInv`), a non-zero delta means that the
request holds the row's lock and the product exists (`LockInv`), and two
checkouts never hold the same fresh order id (`FreshOrders`). Since only the
lock holder changes a row, the comparison made when the lock was granted is
still true at the commit. `OrderedProductsExist` needs the same: a row that a
transaction has changed cannot be deleted. `Safe` is also what the refinement
uses: at a commit the delta equals the items of the order.

`StockAccountedFor` follows from `Safe` and one invariant on two sums over orders
(`LedgerInv`): a commit changes one summand. What a sum over a finite set is cannot be
had by the library's induction, whose predicate is an operator parameter; `Descent`
replaces it: a family of subsets of a finite set in which every member has a smaller
member is empty, because strict inclusion is well-founded there. The same lemma gives
the circle of `StandstillsAreCircles`: the smallest set of waiting requests that
contains whom its members wait for. What has to be invariant is `LocksOwned`: a
locked row is one that a request still under way has updated, so nobody waits for a
transaction that has ended, nor for itself. `DeletedStaysOutOfShop` takes
`RowsOfLive` over from the cart, together with the lemmas about the writes of cart
requests: the other steps of the shop only remove rows of carts, or a product that
no lock protects.

*Payments.* `Prompted` says what confirmations rest on, on all routes: a validation,
or a charge of that order of which some webhook in use is told what it *takes* for a
success (`TakenForPaid`). It is not inductive since a handler acts on what it read
earlier. `Sound` adds that a reference or provider id on a payment is of a charge made
for that order (`Linked`), and that a handler on its way to confirm has a cause for its
order (`Justified`). Causes never go away (`CausesStay`): a validation stays on
record, an attempt keeps its order, and what may be said of an open charge may still be
said once it is decided. `Earned` follows because, under `Listed`, only a paid charge is
taken for paid.

For `PaymentsBalance` the invariant (`Books`) counts the handlers between payment and
credit: a step moves one of them in, or one out together with a credit, or one out by
its death, which breaks the equation and keeps the inequality; the order is set to
PAID before any credit (`PaidFirst`). For `AnswersHold` (`Acks`) the answers
rest on payments that were recorded or charges that were declined, for the calls that
were answered early as well: a key in Redis is of a charge that was recorded or
declined (`Keys`), a mark on the payment was left by a charge of that order
(`Processed`), a payment is PAID only if that was recorded (`PaidRecorded`), and the
reference of an order with one attempt is never replaced (`Current`). Nothing in this
depends on who else is at work, so the theorem has no condition on routes, words or
overlaps.

*Payouts.* A notification under way must still be right when it writes: `HooksReport`
says what the bank decided of its code and for which order the code was made, and
`Later` that no step takes this back. `References` says that the reference of a
payment is a code made for its order, `OneEach` that no two requests have one code.
For `OpenedOnce` an invariant over the requests adds that whoever is about to open a payment
has just created it, which the unique key allows once; for `TransfersRecorded` that
the rows of a code are those that its request has already passed. The refinement
goes action by action; only `BankDecides`, `InitPayoutRow`, `HookClose`, `HookSettle`
and `HookRefuse` move the abstract books.

*Accounts.* `Outlived`: a revoked token's key stays on the blacklist at least until
the token has expired by itself, so a request that begins after the revocation is
refused by the blacklist or by the signature. `Gone`: an answered link is deleted for
ever, since keys are fresh. `Fits` is what a request may rely on after its look-up;
accounts, tokens and time only grow (`Grown`), which keeps it true.

*Addresses.* Addresses never change hands (`Later`), so what a checkout saw of one is
true if the row is still there, and the foreign key covers the rest. For buyers who
do one thing at a time `Steady` says that what their only request has read (no
addresses, the default marks, the awaited ones) is *still* so: a request of another
buyer touches no row of theirs (`OwnTables`), and payments and administrators only
take orders off the awaited ones (`StatusesSteady`).

*Fees.* `Fits` carries the offers of quote along: as long as the tariff has not
changed, a request that has found no zone for its neighbourhood will read the default
fee that is on offer, and after one change it reads an offer from before or after it.
This goes for a page as for a checkout; a receipt is of the address or zone that its
checkout used.

*Cache.* `Knows` ties what a reader holds to the table at the time it read: it is the
last write or was superseded after that time (or the reader is marked as
overtaken); with `InTime` for entries and `Floors` for answered writes this gives both
`WritesShow` and the bound on staleness.

**Only model-checked.** The liveness properties `RequestsEnd` and `ChargeConfirmed`:
liveness under fairness is beyond the prover. Every other property of a passing run
is a theorem.

## 5. Seen while modelling, without a run

These follow from the actions. Some contradict a document (quoted), others only
an expectation; the properties above name them as conditions.

*Carts and orders.*
- Two additions of one product at a time read the same quantity and one is lost
  (`cart.service.ts:69-98`); `docs/API_CONTRACT.md:400` and `SADIVACLOSET.md:523`
  speak of adding sums.
- Two checkouts of one buyer at a time order the same cart twice: it is read before
  the transaction (`checkout.service.ts:26`), although `docs/API_CONTRACT.md:447`
  says that the transaction validates it.
- `cancel` relies on a delivery status read before its transaction: an order that has
  left meanwhile is cancelled. A webhook may set a cancelled, restocked order
  to PAID (`payments.service.ts:661, 800, 1036, 1328`).

*Charges.*
- Two overlapping notifications of one payment credit twice (`credited_twice`). On the
  routes that leave no mark it takes no overlap: a receipt uploaded from an earlier read
  puts a paid payment back to PROCESSING, and E-Kwanza's repetition confirms again.
- The generic webhook takes a status it does not know for success, and a missing one
  too: `pending`, `declined` or `expired` set the payment to PAID
  (`payments.service.ts:1283-1319`). `docs/API_CONTRACT.md:269` lists five words of
  success and three of failure, and lines 275-284 let another application forward
  AppyPay's payloads, which have no `status`, to that route. `Prompted` and `Earned`
  are apart by exactly this.
- After a declined attempt `webhookProcessedAt` stays set and the success of the next
  attempt is answered "already processed" (`webhooks.controller.ts:107` says that
  operationStatus 1 marks the payment PAID).
- On the alias route (`webhooks.controller.ts:118-120`) a declined AppyPay charge is
  confirmed: its payload has no `status`, which then defaults to `paid`.
- A crash between `payment.update` (PAID) and `order.update` leaves the order
  unpaid for ever (`payments.service.ts:1029-1036`).
- `iniciar` and `comprovativo` write PROCESSING on the strength of an earlier
  read and may overwrite PAID (lines 313, 611); a late failure overwrites a
  payment that was validated meanwhile (lines 852, 1009).
- A charge of an attempt whose reference was replaced finds no payment: 404 to
  every repetition (line 317). E-Kwanza's unknown reference is answered 200.

*Transfers.* The webhook finds the payment before the payout: a KWiK transfer that
goes through marks the order as paid and settles its credit, while its payout stays
PROCESSING and its debit pending, unless another attempt has taken the reference
over. A transfer whose call timed out leaves no row for its notification to find. A
repeated notification of a payout settles another debit.

*Accounts.* Two refreshes with one token, or two resets with one link, that both look
it up before either revokes it both succeed (`auth.service.ts:296-323`, 402-428;
`SADIVACLOSET.md:307` speaks of rotation). Without `jti` two sessions of one second
are one token, and one logout ends both. A changed password leaves sessions alive,
and the guard does not look at `isActive`.

*Addresses, fees.* Two first addresses at a time both become default. `quote` is
public and so never has a buyer whose default address it could use, as its
description says it does. If a zone is created for the neighbourhood and the default
fee is raised between the statements of a checkout, it charges a fee that was never
in force. Before preferences are saved pages show no zone while checkout charges 0, and
the answer of a checkout leaves out the zone where the default fee was charged.
`valorEntregaZona` differs from the fee charged when zone and address are both given.

*Caches.* A reader that was overtaken by a write puts the old state back for one
lifetime; orders and cancellations never clear the catalogue, so its stock is up to
60 seconds old.

## 6. Not modelled, and the plan

Left out for good: formatting, storage, mail, health, statistics, the audit log,
notifications and realtime events (nothing reads them back), favourites (single
atomic statements), the payment queue (no consumer), the access tokens of the
providers (two refills at a time are harmless), signatures of webhooks, hashing, the
unregistered Portuguese duplicates. Prices and discounts of products are functions
of single rows. Rate limiting counts load, not state of the shop.

Partly modelled: payments and webhooks lack what follows the credit (queue, mail,
events) and the reads (history, wallet).

Worth adding next:

1. `Fulfilment.tla`: `Checkout` and `Payments` over one `ostatus`, with an abstract
   life cycle of orders.
2. `Throttler.tla`: the counters in Redis and the fallback beside them.
