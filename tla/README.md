# A TLA+ model of the shop

The repository is a NestJS shop: PostgreSQL through Prisma, Redis for locks and
caches, BullMQ for jobs, three payment gateways that call back. This directory
models the parts in which things can go wrong that no test reaches: what several
requests, jobs and gateway calls do to the same rows, locks and cache entries when
they interleave, fail half-way and are repeated. There are five specifications:
`OrderSystem` (stock, orders, payments), `Launchpad` (the life of a launchpad),
`Authentication` and `Authorization` (who is logged in, who may do what), and
`Shop` (products, coupons, prices and reviews edited under the checkouts).

Source paths below are relative to `src/src/`.

## 1. Inventory

| component | state it keeps | operations | talks to |
|---|---|---|---|
| Checkout (`routes/order/order.service.ts`, `order.repo.ts`, `order.producer.ts`, `redis.ts`) | `Order`, `ProductSKUSnapshot`, `Payment`, stock in `SKU`, `Coupon.quantity`, Redlock keys `lock:sku:<id>` | `createOrder`, `_createOrderTransaction` | carts (reads and deletes rows), the cancel-payment queue, gateways (URL) |
| Order cancellation (`order.service.ts`) | `Order.status`, `Payment.status`, stock, coupons | `cancelOrder` | races with payments and the job |
| Payment webhooks (`routes/payment/*`) | `PaymentTransaction`, `Payment`, `Order`, `Launchpad.soldCount` | `receiver` (SePay), `verifyIpnMomo`, `verifyIpnVNPay` | queue (removes the job), websocket |
| Cancel-payment job (`queues/payment.consumer.ts`, `shared/repositories/shared-payment.repo.ts`) | BullMQ job `cancel-payment-<id>`, 24 h delay, one attempt | `process` / `cancelPaymentAndOrders` | payments, orders, stock |
| Launchpad purchase (`routes/launchpad/manage-launchpad.service.ts`, `launchpad.repo.ts`) | orders with `launchpadId`, stock | `purchase`, `_createLaunchpadOrderTransaction` | same SKU locks as checkout, gateways |
| Cart (`routes/cart/*`) | `CartItem`, unique in (user, SKU) | `addToCart`, `updateCart`, `deleteCart` | stock (reads) |
| Launchpad lifecycle (`manage-launchpad.service.ts`, `cronjobs/launchpad-expire.cronjob.ts`, `queues/launchpad.consumer.ts`) | `Launchpad.status`, `endTime`, expire jobs | create, update, delete, submit, approve, reject, publish, processExpired | purchase |
| Pricing (`order.service.ts`, `payment.service.ts`, `shared/services/shared-payment.service.ts`) | none | subtotal, discount, launch price, gateway amount, expected total | checkout, webhooks |
| Coupons (`routes/coupon/*`) | `Coupon` | create, update, delete | checkout |
| Products (`routes/product/*`) | `Product`, `SKU`, translations | create, update (absolute stock), soft delete | checkout, cart, cancellation |
| Reviews (`routes/review/*`) | `Review`, one update allowed | create, update | orders |
| Authentication (`routes/auth/*`) | OTP codes, devices, refresh tokens, TOTP secrets | register, login, logout, refresh, forgot password, 2FA | users |
| Authorisation (`shared/guards/*`, `routes/role/*`, `routes/permission/*`) | roles, permissions, the Redis cache `role:<id>` | guards, role and permission edits | every request |
| Users, profile | `User` | create, update, delete | roles |
| Catalogue (brands, categories, languages), media, websockets, e-mail, i18n, generated Prisma client, vendored gateway client | rows, files, sockets | CRUD and I/O | - |

What is hard here:

* **check, then act.** `cancelOrder` reads a status and later writes without asking
  for it again; webhooks do not ask at all; the purchase limit is counted under a
  lock released before the order exists.
* **reads before locks.** The SKUs to lock come from a cart read before the locks;
  the version a purchase compares is read before its lock.
* **locks that expire** (3000 ms) while the transaction runs; a second, optimistic
  lock on `SKU.updatedAt` is meant to cover that.
* **several statements, several stores.** The order commits in PostgreSQL, the job
  is added in Redis afterwards; the transfer commits, the job is removed afterwards.
* **side by side.** `Promise.all` starts statements that commit one by one: a token
  is created while the old one is deleted, a user is written while the code is
  spent, a product is deleted while its SKUs are.
* **caches.** What a role may do is cached for an hour, filled from two SELECTs and
  cleared after the write by promises nobody awaits.
* **repeated work.** Gateways retry, BullMQ re-runs stalled jobs, a code or a token is
  presented twice.
* **things that must happen eventually.** An unpaid order must give its stock back.

What makes each modelled component correct: stock is conserved and never
oversold; a coupon unit is spent once per order; a cart item is ordered once; a
payment and its orders agree; the job never undoes a payment; a transfer counts
once; an unpaid order settles; a launchpad ends when its time is over and is sold
only if approved; a code serves one request, a device has one session, a logout is
final; an outdated cache entry goes; ADMIN stays ADMIN; variants keep their SKUs,
prices charged are current, discounts and coupons stay within their limits; a review
shows one body. `PROJECT.json` lists every hazard at its line.

## 2. Modules

| module | models |
|---|---|
| `Store` | the shared tables, Redlock keys and the queue; `TakeStock`, `ReturnStock` |
| `Checkout` | `createOrder`: read SKU ids, acquire locks one by one, the transaction, add the job, release; overload, crash, TTL |
| `Cart` | `addToCart`, `updateCart`, `deleteCart`: validation and write are two steps |
| `Purchase` | the launchpad purchase: read the launchpad, its SKUs, count, lock, transaction, release |
| `Settlement` | `cancelOrder`, the three webhooks, the cancel-payment job, a SKU being soft-deleted |
| `OrderSystem` | all of them against one store; fairness; properties |
| `PaymentLifecycle` | abstract: what the handlers promise about a payment and its orders, one step per handler |
| `MCOrderSystem` | the requests of the bounded instances |
| `OrderSystemProofs` | theorems about it: types, statuses, the lifecycle, launchpad sales |
| `StockProofs` | theorems about what orders hold: SKUs, stock, coupons; extends the former |
| `ExpiryProofs` | theorems about what can take an order's expiry job away; extends `StockProofs` |
| `LockProofs` | theorems about what the SKU locks protect, and when; extends `StockProofs` |
| `Launchpad` | a launchpad's life: the seller's and admins' handlers, the cron job, the expire job |
| `MCLaunchpad`, `LaunchpadProofs` | its bounded instances; its theorems |
| `Account` | users, their TOTP secret; what login, Google login, 2FA set-up and user creation read and insert |
| `Otp` | one-time codes: `sendOtp`, finding, spending, and the write that runs beside the deletion of the code |
| `Session` | devices and refresh tokens: login, `refreshToken`, `logout`, `deleteUser`, the midnight job |
| `DeviceSession` | abstract: the session of a device is opened once, held by one, passed on, ended |
| `Authentication` | `Account`, `Otp` and `Session` together; properties; inductive invariants |
| `Authorization` | the guard's permission check and its cache, every handler of roles and permissions |
| `Product` | `createProduct`, `updateProduct`, the three-part `delete` |
| `Promotion` | coupon handlers, pricing of a checkout, `cancelOrder`, the amount of a transfer; extends `Product` |
| `Review` | `create` and `update` of reviews; extends `Promotion` |
| `Shop` | products, coupons, checkouts, cancellations, payments and reviews together |
| `MCAuthentication`, `MCAuthorization`, `MCShop` | their bounded instances |
| `AuthenticationProofs`, `AuthorizationProofs`, `ShopProofs` | their theorems |

### How code becomes steps

* **Transactions** run at READ COMMITTED (nothing sets an isolation level). A row a
  transaction has written stays locked until it ends, so conditional writes (`where`
  with `stock`, `updatedAt`, `quantity`, `status`) can be moved to the commit: all
  writes and the commit are one step, enabled iff every `where` matches. A plain
  SELECT does not block anyone, so each SELECT whose result is used later is a step
  of its own. Prisma without `relationJoins` loads an `include` with a second query;
  `findCartItems` is therefore `FindCartItems` (rows) and `FindCartItemSkus` (SKUs
  with `updatedAt`), `findByIdLive` is `FindByIdLive` and `FindLaunchpadSku`. An abort is possible at any point of a transaction
  (`AbortOrder`, `AbortCancel`, ...): it stands for the validations whose data is
  abstracted (product hidden, SKU of another shop, `minOrderAmount`), for timeouts
  and for PostgreSQL's deadlock victims - `cancelOrder` locks order before payment,
  the webhooks payment before order.
* **Redlock.** `redlock.acquire` for each SKU is a separate step; `Promise.all` rejects
  on the first refusal *before* the `try`, so granted locks are left to their TTL and
  acquisitions still under way may succeed afterwards. `release` deletes a key only
  if it is still its own.
* **Requests** are constants (a body does not change once sent): checkout `p` inserts
  payment `p` and the orders `o` with `PaymentOf[o] = p`; a row not inserted is
  `"none"`. A gateway's retry is one more delivery of the same transaction.
* **BullMQ.** `queue.remove` does not remove a job that is being processed;
  `attempts` is 1 with `removeOnFail`; a stalled job runs again, also if its
  transaction had committed (`StallJob`).
  The expire job has `attempts` of 5 and a `jobId`: `addBulk` does nothing while
  BullMQ knows a job of that id, a completed or failed one included (`AddBulk`),
  until more than `removeOnComplete` or `removeOnFail` of them have gathered.
  Its write and its completion are two steps: a worker that dies before or between
  them leaves a stalled job, which runs again once and fails the second time.
* **Launchpad handlers** read the row outside the transaction, compare its status and
  update it by id: two steps, three for `publish`, which counts the LIVE launchpads
  in between. `endTime` is null, ahead or past. A launchpad is on sale for an hour at
  least (`duration` is whole hours) while a transaction lasts seconds, so `Elapse`
  waits for handlers under way on it. `Purchase` sees only that a launchpad stops
  being live (`EndLaunchpad`), so the two are checked apart.
* **Promise.all.** The statements of one `Promise.all` are separate steps in any order
  (`InsertNextToken` and `DeleteRefreshToken`, `SpendOtpCode` and `WriteUser`,
  `DeleteProductRow` and `DeleteSkus`), each with its outcome; when one throws the
  others still run and what they wrote stays. The answer waits for all. The mail that
  `sendOtp` starts beside the upsert touches no table, and what came of it is looked at
  only after both, so its answer is one step after the row is stored.
* **Row locks** matter where a transaction writes, reads again and then commits:
  a transaction that decremented a coupon holds its row (`RowHeld`), one that
  updated a review holds that (`Writing`); others wait, which is a guard.
* **Names of rows.** A code, a token, a device, a SKU and a review body are named
  after the request that made them, since ids and uuids are never reused. A user of
  an email at the start is named after the email.
* **The cache.** `cacheManager.get`, the two SELECTs of the guard and `set` are four
  steps; the dels of a permission's roles one each. The variables `before`, `overtaken`
  and `excused` are history: they record why an entry may be outdated and no handler
  reads them. A permission's roles are read in the transaction that writes it,
  before the write is visible.
* **Amounts** are in hundredths of a VND. Prices and discounts are taken to be whole (the
  schemas would admit fractions), so a percentage of them is exact. Floating point is
  not modelled: the error of the one division by 100 is far below the half that
  `Math.round` removes, which is what the comment at `payment.service.ts:264` says it is for. An order of
  `Promotion` has one line, since the sum over lines changes nothing about the
  order of steps; a product and its SKU are read in one step, since a deletion is
  final and never undone. Locks and stock are in `OrderSystem`; so is the expiry job,
  which does not touch coupons.
* **Rows that vanish.** `cancelOrder` and the job skip a snapshot whose `skuId` is null. SKUs are
  soft-deleted and keep their id; only the hard deletion of a seller's account erases
  them (`onDelete` of `SKU.createdBy`), and that is not part of `OrderSystem`: every
  snapshot there has its SKU.
* **updatedAt** is a counter: two updates of one SKU within the same millisecond are
  taken to get different stamps.
* **Abstracted data:** in `OrderSystem` prices and amounts (a transfer either matches
  the rounded total or not), signatures, receiver, translations, `orderItems` as a set of
  (SKU, quantity) lines. Both reads of a checkout ask for rows of its own user (`BuyerOf`),
  so an item of somebody else is not found (`FoundItems`) and the checkout is refused.

### State and source

`stock`, `updatedAt`, `deletedSkus` are columns of `SKU`; `cartItem` is `CartItem`;
`couponQuantity`, `paymentStatus`, `orderStatus`, `soldCount` the columns of that
name; `orderItems` the snapshots; `transactionOf` the primary key and payment of
`PaymentTransaction`; `lock` the Redis keys; `cancelJob` the queue. `checkoutPc`,
`purchasePc`, `cancelPc`, `ipnPc`, `editPc` say where a request is, `readCart`,
`readUpdatedAt`, `purchaseRead`, `foundSkuIds`, `acquired` hold its local variables.
`account`, `totp`, `otpCodes`, `devices`, `inactive`, `tokens`, `stale` are the tables
`User`, `VerificationCode`, `Device`, `RefreshToken`; `otpId`, `deviceOf`, `presented`
what a request has in hand; `spent`, `written`, `created`, `dropped` the outcomes of the
parts of its `Promise.all`. `roles`, `roleName`, `active`, `links`, `route` are `Role`,
`Permission` and the table between them, `cache` the Redis entries `role:<id>`, `owed` the dels
still to run. `product`, `sku`, `couponState`, `coupon`, `orders`, `payment`, `review`,
`updateCount`, `media` are the tables of `Shop`; `editSkus`, `seenSku`, `discount`,
`taken`, `asked`, `oldMedia` what handlers remember; `budget` and `refused` are history;
`paid` and `cancelled` are the values PENDING_PICKUP and CANCELLED of `Order.status`.

## 3. Runs

`Launchpad`, `Authentication`, `Authorization` and `Shop` run on the MC module of that
name, the others on `MCOrderSystem`. Requests are sent once, so every behaviour ends and
deadlock is not checked.

| run | asks | result |
|---|---|---|
| `Checkout` | checkouts of two carts and a launchpad purchase race for two SKUs and a coupon of 2 units; locks expire under their holders, requests die, jobs run twice, a transfer for the purchase comes twice | stock conserved, coupons spent once per order, nothing negative; `soldCount` counts transfers |
| `Settlement` | a payment of two orders meets two cancels, two transfers and one of a wrong amount, the job, a deleted SKU and failures | statuses agree, no stock lost and none invented but by two races, coupon units change in three ways only, only a racing cancel undoes a payment, an unpaid order loses its job only by a failure, the lifecycle is implemented |
| `Expiry` | a cart item submitted by two checkouts and deleted, another moved between SKUs, an order cancelled, a transfer; locks outlive transactions, nothing fails, no SKU is deleted, with fairness | no payment holds a SKU twice; the contested item is ordered once; a SKU is written without its lock only where an edit put it; a pending order always has its job; every pending order settles |
| `Launchpad` | seven requests on one launchpad, four on another of the same product, the cron job, jobs that fail twice of three attempts and stall once, with fairness | none ends early, goes on sale unapproved or changes once deleted; a completed job has ended its launchpad; every expired one ends |
| `Authentication` | a code resent and presented twice; a token refreshed twice and logged out of; an email registered four ways; a reset and 2FA while the user is deleted; refusals and deaths, with fairness | a code serves one request (two exceptions) and is refused once deleted, a device has one session, a logout ends it, the abstract session is implemented, outdated tokens go |
| `Authorization` | two guards against edits of their role; a permission moved or deleted while a role is given it; roles made, renamed and deleted; lost clearings, with fairness | an outdated entry is about to be cleared or has a known cause; none outlives its ttl; ADMIN is not changed |
| `Shop` | overlapping updates and deletions of a product; prices and coupons edited under two checkouts; coupons in opposite order; orders cancelled under an edit of their coupon and twice at once; a review updated twice at once; refusals and deaths | variants keep their SKUs, discounts within subtotals, coupons not overspent (three exceptions), whole amounts accepted, current prices, deleted stays deleted, one body's media |
| `CancelRace` | cancel and transfer of one order | **violated**: a paid order is cancelled (`order.service.ts:305`) |
| `PartialCancel` | one of two orders cancelled, with fairness | **violated**: the other never settles (`:92`) |
| `LockExpiry` | does the optimistic lock cover for Redlock? | **violated**: a cart item ordered twice (`order.repo.ts:257`) |
| `CartMove` | an item moved to another SKU while its cart is checked out | **violated**: a SKU is bought without its lock (`order.service.ts:61`) |
| `PurchaseLimit` | limit of one purchase | **violated** (`manage-launchpad.service.ts:288`) |

The same shape, a check and a write with nothing between them, has more
consequences that TLC reaches in these models and that no property states, because
nothing the code does stands against them: two publishes of one product both go
LIVE (`manage-launchpad.service.ts:217`); a review is updated twice (`review.repo.ts:122`);
SELLER and USER can be renamed and then deleted (`role.service.ts:109`); overlapping
updates of a product may leave a SKU on sale that the last body does not list; a
deleted product may keep live SKUs when its delete dies half-way. A checkout looks at
the product's `deletedAt` and not at the SKU's (`order.service.ts:153`), and a review at the
order's status and not at its products (`review.repo.ts:178`); the models do the same.

`RefusedOnlyIfFractional` has its condition for a reason: the payment URL asks for the
unrounded amount, the webhook accepts the rounded one, so half of an odd price
can be asked for and not be paid.

`StockInventedOnlyByRaces` names the two ways in which stock appears from nothing: two
cancels of one order return its stock twice (`order.service.ts:312`, as `CancelRace`), and a
transfer makes an order live whose stock has gone back (`payment.service.ts:275`).

`PendingOrderSettles` is about runs in which nothing fails; `JobLostOnlyByFailure` says what of it
remains when things do. The order commits in PostgreSQL and its job is added in Redis
afterwards (`order.service.ts:93`), and the job has one attempt: these two are the only
ways to lose it. A job also gives up when an order of its payment was cancelled
(`PartialCancel`) or a SKU was soft-deleted (`BeyondJob`).

`LocksCoverWantedSkus` is what `order.service.ts:61` says, all SKUs to be bought are locked, and
`CartMove` refutes it: the ids to lock are read before the transaction (`order.service.ts:62`) and an
`updateCart` to another SKU takes no lock, so the checkout buys a SKU it has not locked
and the optimistic lock is all there is. `UnlockedOnlyIfMoved` says that this is the only way: no
failure, expired lock or half-granted set of locks leads to such a write.

`CouponsSpentOncePerOrder` bounds the quantity from the orders placed, and is exact where nothing
is cancelled, as in `Checkout`. Where orders are cancelled `CouponUnitsAccounted` is the stronger one: it
counts the units that are free or used by live orders and names each step that changes
their number, with the exact amount. There are three: a cancelOrder overtaken by another
cancellation gives a unit back twice, the expiry job keeps the units of the orders it
cancels (`shared-payment.repo.ts:42` gives back stock only), and a transfer revives cancelled
orders whose units were given back.

`CouponNeverOverspent` asks the same of `Shop`, where sellers overwrite the quantity. Each write begins a
new account (`budget`): what was granted, which orders used it since, and `extra`, units that came back
without belonging to it. Three events bring those: a cancelOrder of an order older than the edit
increments the new quantity, a cancelOrder of an order that is CANCELLED already, and a
transfer for cancelled orders. Without `extra` the statement is false (edit the quantity to N, cancel
an older order: N + 1 orders use it), and TLC reaches all three. What an edit overwrites is not
in the account: by the body's meaning the seller's number is the quantity.

`CodeServesOneRequest` has two exceptions, both reached. `forgotPassword` writes the password and deletes
the code in one `Promise.all` (`auth.service.ts:250-268`), so of several requests that found the
code each writes its password, and only one is told so; and `register` may insert an
email again that an admin deleted between the two writes. `login` and `disable2fa` wait for the
deletion. `SpentCodeRefused` is the part without exception: once deleted, a code is found by nobody, although
a resend keeps the row's id.

No run has a body that repeats a cart item: the code refuses it twice, by the set of ids
(`order.service.ts:124`) and by the number of rows found (`:137`, `AllFound`), and the theorem `NoSkuTwice` covers
every body. The run asks what the unique index of the cart is for: a body of different items whose
SKUs are made the same.

`ExpiredLaunchpadEnds` is about jobs with an attempt left and one stall: one that has used all five,
or stalled twice, stays in the failed set under its `jobId`, and no later cron run can replace it.
`CompletedJobEnded` says that a job kept as *completed* does no such harm: its launchpad is
ENDED or deleted.

The findings in `PROJECT.json` quote the comments these runs contradict.

**Bounds.** Two users, two or three SKUs, at most two checkouts, two purchases,
two cancels, three deliveries. Stock of `a` is 2: Alice's line (1) and Bob's (2)
cannot both be served; the coupon has two units for three orders that use it.
Every hazard of orders needs at most two requests on one row plus one failure, job or
TTL; the purchase in `Checkout` adds a bystander. Counters are bounded by the requests.
Expire jobs have 3 attempts instead of 5 and BullMQ keeps 1 completed job instead of
100, so that both limits are reached with two launchpads.
`Failures`, `LockMayExpire`, `PurchaseLockMayExpire`, `DeletableSkus` switch
classes of events off where a run asks what holds without them.
In `Authentication`, `Authorization` and `Shop` the constant `Arrivals` is a set of sets: each
behaviour gets the requests of one of them, four to six that concern the same rows, in
any order and with any of them failing at any step. Three requests on a row are
enough for an update to come between the read and the write of another and for a third
to see the result. `Shop` has one product with two values, of which bodies list
the one, the other or both; prices of 3 and 4 and a discount of 50 percent, so that a half is asked for and so
that the edit changes the amount; coupons of one and two units.

**Fairness** (`FairSpec`): weak fairness for every step of a checkout that was sent, of
every job, of a cancel that has begun, and of lock expiry. The event loop runs an
accepted request to its end, BullMQ runs a due job, Redis drops expired keys. No
cancel, transfer or edit has to be sent, and failures are never required. In
`Launchpad` only the cron job, which runs every two minutes, and the expire jobs are
fair; that an attempt fails or stalls is bounded by `FailureBudget` and `StallBudget`. In `Authentication` the midnight
job is fair (it runs every day, whether or not it failed the day before), in
`Authorization` the expiry of a cache entry (Redis drops it after its ttl); no request
has to be answered.

**Mutants.** Next to a definition stands a plausible wrong version of it (a status
missing in a `where`, a lock taken over, a job never added); each property is
violated when one of them takes its place.

## 4. Proofs

`OrderSystemProofs`, checked by TLAPS, for any sets of users, SKUs, requests and
deliveries. Assumptions: the ASSUMEs of `Store`, `Checkout`, `Purchase`,
`Settlement` and `Cart` - request kinds are disjoint, bodies are functions of the
right type, a body has finitely many orders and at least one, a purchase exactly one.

1. `TypeCorrect`: `Spec => []TypeOK`. `TypeOK` says stock and coupon quantities are
   naturals. It is not inductive: that the lines written are cart rows follows from
   `CartWasRead` (a transaction past its first SELECT has found all its rows).
   `QuantityInStock` and `UsesType` then show that the `where` of the SKU and coupon
   updates keeps both non-negative.
2. `Agreement`: `Spec => []PaymentOrderAgreement`. The strengthening `StatusInv` adds
   `PlacedLater` (a request that has not committed has no payment yet) and
   `CancelSeen` (a cancellation under way is of an order that exists). The proof goes
   through the refinement: `StatusStep` shows that each handler's step is a step of
   `PaymentLifecycle` or changes no status, `AgreementStep` that the abstract steps
   preserve agreement.
3. `Refinement`: `Spec => ImplementsLifecycle`, from `StatusStep` and `StatusInv`;
   the mapping takes the two status columns as they are, and as `cancelling` the
   orders some `cancelOrder` has read and not yet written.
4. `PaymentUndoneOnlyByRacingCancel`: `Spec => OnlyRacingCancelUndoesPayment`.
5. `SalesCounted`: `Spec => []SoldCountMatchesTransactions`; needs that the recorded
   transfers are finitely many, which every step preserves.

`StockProofs`, from the same assumptions and two more: the initial cart is unique in
(user, SKU), as the table's index says, and a launchpad purchase names no cart item.
What orders hold is counted as the cardinality of a set with one element per unit
(`Units`), so that no sum has to be unfolded: a step adds or removes the block of one order, and
`FiniteSetTheorems` gives its size.

6. `NoSkuTwice`: `Spec => []NoSkuTwiceInPayment`. `CartInv` is the cart's unique index, kept
   by every edit, and `ReadUnique`: a transaction that passed the duplicate check has
   read rows with different SKUs.
7. `StockNeverLost` and `StockInventedByRaces`: `AccountStep` shows for each of the five commits
   that stock plus what live orders hold is kept, or grows in one of the two races.
   It needs `NoSkuTwice`, because stock goes back line by line, and `UnitsFinite`.
8. `StockExact`: with no cancelOrder and no transfer neither race can occur and
   `StockConserved` holds, with expiring locks, dying requests and jobs run twice. Without the
   hypotheses the statement is false; the run `Checkout` has transfers too, but only for a
   purchase, whose orders nothing cancels there.
9. `CouponsAccounted`: `Spec => []CouponsSpentOncePerOrder`, by `CouponAccount`; and `CouponUnitsByRaces`:
   `Spec => CouponUnitsAccounted`. `CouponUnitsStep` gives the change of each commit as the size of a
   set of orders; `CancelSeen` is what tells an overtaken cancelOrder from one that is not.

`ExpiryProofs`, from the same assumptions:

10. `JobLost`: `Spec => JobLostOnlyByFailure`. The IPN handlers remove a job by the payment's id after
    their transaction, when anything may have happened since. `RemovalAfterSettling` makes
    it safe: a delivery about to remove the job has settled every order of the payment, and
    `SettledStays` says that no step takes a settled order back to PENDING_PAYMENT. The
    worker's attempt fails by itself only when the payment is no longer PENDING
    though an order still is; by `PaymentOrderAgreement` it is then FAILED, and by
    `FailedByCancel` an order of it was cancelled.
11. `OrdersWatched`: `~Failures` implies `Spec => []PendingOrderWatched`, from the same invariant.
    Without the hypothesis it is false, at `order.service.ts:93`.

`LockProofs`, from the same assumptions:

12. `UnlockedIfMoved`: `Spec => []UnlockedOnlyIfMoved`, whatever the edits. `MoveInv`: a row of the cart that a
    checkout under way names has a SKU it found before locking or one an edit gave it
    (`FoundOrMoved`), and so has every row it read (`ReadOrMoved`).
13. `OrderedOnce`: `~LockMayExpire` and `CartsKeepSkus` imply `Spec => []CartItemOrderedOnce`. `CartsKeepSkus`
    says that no edit inserts an item a checkout names or moves it to another SKU; quantities
    may change, items may be deleted and other items edited at will. Without it the
    statement is false: TLC finds a counterexample with two checkouts and one `updateCart`.
    In `Expiry` the item both checkouts name is deleted and never moved; the one that is
    moved is named by one of them.
    `ExclusionInv`: a checkout still at work holds what it acquired (`Holder`), an item
    that was ordered has left the cart (`OrderedGone`), and no order of an item is placed while
    a transaction has read it (`NotYetOrdered`) - two transactions that read one item
    would both hold the lock of its SKU. `LockExpiry` shows that the first hypothesis
    cannot be dropped. Requests may die at any step.

`LaunchpadProofs`, for any launchpads and requests, any number of attempts and any
failures (`LaunchpadAssumption` types the requests):

14. `EndedAfterEndTime`: `Spec => []EndedOnlyAfterEndTime`. `processExpired` does not look
    at `endTime`; it is right because what the cron job saw cannot change.
    `ExpiredIsQuiet` says that nothing is under way on a launchpad on sale past its
    endTime, and no handler admits LIVE or ENDED; `JobsOnlyForExpired` that only
    such launchpads are found or have a job.
15. `LiveApproved`: `Spec => []LiveOnlyIfApproved`, with `PublishIsApproved`: a publish
    under way has read an approved launchpad, and an approval is never unwritten.
16. `DeletedFrozen`: `Spec => FrozenOnceDeleted`, with `OnRows`.
17. `JobsComplete`: `Spec => []CompletedJobEnded`, by `DoneJobEnded`, which says it of a job that has returned and is
    not completed yet. `processExpired` skips a launchpad that is not LIVE;
    by `JobsOnlyForExpired` one with a job is LIVE or ENDED, and by `ExpiredIsQuiet` no
    handler makes an ended one anything else.
18. `TypeCorrect`: `Spec => []TypeOK` of `Launchpad`.

`AuthenticationProofs`, for any emails and requests (`AccountAssumption`):

19. `CodesServeOnce`: `Spec => []CodeServesOneRequest`, and `SpentCodesRefused`: `Spec => SpentCodeRefused`. A resend changes the code in a row and keeps the
    id, and handlers delete by id, so the invariant is about ids: a code knows the
    row it was stored in (`RowsKnown`), all who hold it hold that id (`HeldKnown`), and an id a
    code was spent on is gone for good (`SpentGone`), so the second deletion throws and a
    later search does not find it. `EffectInv`: who is told of its success has
    deleted its code, and a registered user is there until an admin deletes it.
20. `SingleSession` and `LogoutIsFinal`. The right to a device's session is a *claim* one request has
    at a time: a login that is signing, its token in the table, the refresh that has
    deleted that token and not answered. `OneClaimPerDevice` is inductive because only
    the deletion of a token that is there passes the claim on; `LoggedOutUnclaimed`
    says that a logout takes it away.
21. `DeviceSessionRefinement`: `Spec => ImplementsDeviceSession`. The mapping makes `holding` those who
    claim a device's session (`Claimants`) and `used` the logins that made their device
    and the refreshes whose deletion succeeded (`Claimed`). Of all steps only
    `CreateDevice` opens a session (`LoginOpens`) and only the deletion of a token
    passes it on (`DeletionPasses`); every other step leaves the claims alone or ends some
    (`ClaimsEnd`), among them the failures that leave a device without a session. The
    next token, inserted beside that deletion, is nobody's until then.

`AuthorizationProofs`, for any roles, permissions, routes and requests
(`AuthorizationAssumption`; `AdminAssumption` is the initial script):

22. `CacheExplained`: `Spec => []StaleOnlyIfExcused`, with `RowsThere` (foreign keys), `ReadsFresh` (a
    guard no write has overtaken knows what its role may do) and `ListComplete`.
23. `AdminUntouched`: `Spec => AdminRoleKept`. The name is checked before the write; what makes it
    safe is `AdminInv`: no request past the check is about the role ADMIN, and names
    are unique.

`ShopProofs`, for any products, values, coupons, prices, bodies and requests:

24. `SkuForEveryVariant`: the update's first statement locks the product, `updateSku` throws on a SKU
    that is gone and the partial index refuses a second one of a value, so a
    transaction that commits leaves each value of its body a live SKU. `EditsInv` says
    that what an edit has read are SKUs of its product.
25. `CurrentPriceCharged`: `PricesInv` (the price read is current while the version is) and `OrdersInv`
    (orders carry the prices read); the version is compared at the commit.
26. `DiscountBounded`: `CouponsInv` - terms written are valid, one transaction at a time holds
    units of a coupon. `NeverOverspent`: `UnitsInv` - the uses in force and the quantity left together
    are what was granted and what came back (`UnitsBalance`); what a transaction holds are the
    uses of its orders (`TakenIsUsed`), and the orders counted are of committed checkouts
    (`OrdersCommitted`), so that a cancellation finds its unit in the account or counts it as `extra`.
27. `MediaConsistent`: `WritersInv` - one transaction at a time writes a review, and the media it
    found are still there when it commits.
28. `DeletedForGood`: `Spec => NothingAddedToDeleted`.
29. `WholeAmountsAccepted`: `Spec => []RefusedOnlyIfFractional`. `TotalsInv`: what a checkout asks for is
    `TotalAmount` of its orders so far. `RunningTotal` is a recursive function, and that
    it satisfies its equation is not free: `TotalExists` builds a solution for any list of
    amounts from the least length without one (`Least`, from the well-founded order of the
    naturals), `TotalUnique` shows the same way that one amount more leaves the totals
    before it alone, so `createOrder` adds the same to both sums (`TotalCreated`).

`AuthenticationProofs`, `AuthorizationProofs` and `ShopProofs` also prove `TypeCorrect`; TLC does not
check `TypeOK` there.

Every safety property of a passing run is a theorem. Only model-checked are
`PendingOrderSettles`, `ExpiredLaunchpadEnds`, `StaleTokensRemoved` and `StaleEntriesVanish`: liveness under
fairness is beyond the prover. The five violations are counterexamples of TLC.

## 5. Plan

Done: everything above. Next:

1. The coupon units of `OrderSystem` and `Promotion` are two accounts of one column;
   state both as refinements of one abstract counter.
2. Compose `Launchpad` with `Purchase`, replacing `EndLaunchpad`; the terms an admin saw
   against the terms that go on sale.
3. The gateways' front end: result codes, the shared 32-bit transaction id.
4. The absolute stock of `updateSku` against the decrements of a checkout.

## 6. Not modelled

* Reads (listing, search, pagination), because they change no state.
* The catalogue (brands, categories, languages and their translations): single-row CRUD
  with soft delete, one statement per handler.
* `updateUser`, `updateProfile`, `changePassword`: single writes of columns that no modelled
  handler looks at again after it has read the user.
* The evaluation of composed guards (`auth-composite.guard.ts`) and the API-key guard: stateless.
* Launch prices (one expression over `discountRate`) and what the three gateways'
  messages say beyond payment, amount and id.
* Uploads, e-mail, i18n, websocket rooms, pipes and filters, and the vendored gateway
  client: I/O, formatting, hashing.
* `src/src/generated/prisma`: the client Prisma generates from `schema.prisma`. It is most of
  the repository's lines and declares types only; the tables are modelled from the schema.
  The share of the source that the map covers is small because of it.
