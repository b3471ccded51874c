------------------------------ MODULE Checkout ------------------------------
(***************************************************************************)
(* POST /orders: OrderService.createOrder and _createOrderTransaction.      *)
(*                                                                          *)
(* A request reads the SKU ids of its cart items outside any transaction,   *)
(* takes one Redlock per SKU, runs the transaction, enqueues the job that   *)
(* expires the payment and releases its locks.  Inside the transaction the  *)
(* cart items and their SKUs are two SELECTs (Prisma loads an include with  *)
(* a query of its own), and the SKU update asks for the updatedAt the       *)
(* second one returned.                                                     *)
(***************************************************************************)
EXTENDS Store

CONSTANTS
    BuyerOf,        \* checkout -> the userId of its token
    LockMayExpire   \* may a 3000 ms Redlock run out under its holder?

ASSUME LockAssumption == LockMayExpire \in BOOLEAN

\* allBodyCartItemIds: an id that two orders of a body name is listed twice.
BodyIds(p) == UNION {{o} \X CartItemIdsOf[o] : o \in OrdersOf(p)}

\* The body schema asks for at least one order; a body is finite.
ASSUME CheckoutAssumption ==
    /\ BuyerOf \in [Checkouts -> Users]
    /\ \A p \in Checkouts : /\ OrdersOf(p) # {}
                             /\ IsFiniteSet(OrdersOf(p))
                             /\ IsFiniteSet(BodyIds(p))

VARIABLES
    checkoutPc,    \* where a request is
    foundSkuIds,   \* the SKU ids it read before locking
    acquired,      \* the SKU locks it was granted
    readCart,      \* the cart items its transaction read
    readUpdatedAt  \* the updatedAt of the SKUs its transaction read

checkoutVars == <<checkoutPc, foundSkuIds, acquired, readCart, readUpdatedAt>>

InTransaction == {"findSkus", "findCoupons", "write"}

CheckoutPc == {"start", "locking", "overloaded", "addJob", "releasing", "done"}
                \cup InTransaction

CheckoutTypeOK ==
    /\ checkoutPc \in [Checkouts -> CheckoutPc]
    /\ foundSkuIds \in [Checkouts -> SUBSET Skus]
    /\ acquired \in [Checkouts -> SUBSET Skus]
    /\ readCart \in [Checkouts -> [CartItems -> CartRow \cup {Absent}]]
    /\ readUpdatedAt \in [Checkouts -> [Skus -> Nat]]

CheckoutInit ==
    /\ checkoutPc = [p \in Checkouts |-> "start"]
    /\ foundSkuIds = [p \in Checkouts |-> {}]
    /\ acquired = [p \in Checkouts |-> {}]
    /\ readCart = [p \in Checkouts |-> [i \in CartItems |-> Absent]]
    /\ readUpdatedAt = [p \in Checkouts |-> [s \in Skus |-> 0]]

Goto(p, label) == checkoutPc' = [checkoutPc EXCEPT ![p] = label]

\* where: { userId, id: { in: cartItemIds } }
FoundItems(p) ==
    {i \in ItemsOf(p) : OwnerOf[i] = BuyerOf[p] /\ cartItem[i] # Absent}

\* findCartItemsSkuIds: the SKUs to lock, read outside the transaction.
FindCartItemsSkuIds(p) ==
    /\ checkoutPc[p] = "start"
    /\ foundSkuIds' = [foundSkuIds EXCEPT ![p] =
            SkusIn({cartItem[i] : i \in FoundItems(p)})]
    /\ Goto(p, "locking")
    /\ UNCHANGED <<storeVars, acquired, readCart, readUpdatedAt>>

\* Mutant of AcquireLock: a key that is set is taken over.
AcquireTakenLock(p, s) ==
    /\ checkoutPc[p] = "locking"
    /\ s \in foundSkuIds[p] \ acquired[p]
    /\ lock' = [lock EXCEPT ![s] = p]
    /\ acquired' = [acquired EXCEPT ![p] = @ \cup {s}]
    /\ UNCHANGED <<skuVars, orderVars, cartItem, couponQuantity, transactionOf,
                   soldCount, cancelJob, checkoutPc, foundSkuIds, readCart,
                   readUpdatedAt>>

\* One redlock.acquire of the Promise.all.  The others are not cancelled when
\* one of them gives up, so a rejected request may still be granted a lock.
AcquireLock(p, s) ==
    /\ checkoutPc[p] \in {"locking", "overloaded"}
    /\ s \in foundSkuIds[p] \ acquired[p]
    /\ lock[s] = Nobody
    /\ lock' = [lock EXCEPT ![s] = p]
    /\ acquired' = [acquired EXCEPT ![p] = @ \cup {s}]
    /\ UNCHANGED <<skuVars, orderVars, cartItem, couponQuantity, transactionOf,
                   soldCount, cancelJob, checkoutPc, foundSkuIds, readCart,
                   readUpdatedAt>>

\* A lock stays taken through all retries: ServerOverloadedException.  This is
\* thrown before the try, so the locks already granted are not released.
Overloaded(p) ==
    /\ checkoutPc[p] = "locking"
    /\ \E s \in foundSkuIds[p] \ acquired[p] : lock[s] # Nobody
    /\ Goto(p, "overloaded")
    /\ UNCHANGED <<storeVars, foundSkuIds, acquired, readCart, readUpdatedAt>>

\* CartItemDuplicatedException
Duplicated(p) ==
    \E o1, o2 \in OrdersOf(p) :
        o1 # o2 /\ CartItemIdsOf[o1] \cap CartItemIdsOf[o2] # {}

\* Mutant of LocksGranted: the Promise.all is not awaited.
LocksNotAwaited(p) == acquired[p] \subseteq foundSkuIds[p]

LocksGranted(p) == acquired[p] = foundSkuIds[p]

\* cartItems.length = allBodyCartItemIds.length
AllFound(p) == Cardinality(FoundItems(p)) = Cardinality(BodyIds(p))

\* First SELECT of findCartItems, after the duplicate check; the request goes
\* on only if it finds as many cart items as its body lists ids.
FindCartItems(p) ==
    /\ checkoutPc[p] = "locking"
    /\ LocksGranted(p)
    /\ IF Duplicated(p) \/ ~AllFound(p)
       THEN Goto(p, "releasing") /\ UNCHANGED readCart
       ELSE /\ readCart' = [readCart EXCEPT ![p] =
                    [i \in CartItems |->
                        IF i \in ItemsOf(p) THEN cartItem[i] ELSE Absent]]
            /\ Goto(p, "findSkus")
    /\ UNCHANGED <<storeVars, foundSkuIds, acquired, readUpdatedAt>>

Wanted(p) == {readCart[p][i] : i \in ItemsOf(p)}

OrderLines(p, o) == {readCart[p][i] : i \in CartItemIdsOf[o]}

InStock(p) == \A l \in Wanted(p) : stock[l.skuId] >= l.quantity

\* Second SELECT of findCartItems: the SKUs, with the updatedAt the optimistic
\* lock will compare; SkuOutOfStockException.
FindCartItemSkus(p) ==
    /\ checkoutPc[p] = "findSkus"
    /\ IF InStock(p)
       THEN /\ readUpdatedAt' = [readUpdatedAt EXCEPT ![p] =
                    [s \in Skus |->
                        IF s \in SkusIn(Wanted(p)) THEN updatedAt[s] ELSE 0]]
            /\ Goto(p, "findCoupons")
       ELSE Goto(p, "releasing") /\ UNCHANGED readUpdatedAt
    /\ UNCHANGED <<storeVars, foundSkuIds, acquired, readCart>>

\* Mutant of Uses: a coupon used by several orders of a body counts once.
UsesDeduplicated(p, c) ==
    IF \E o \in OrdersOf(p) : CouponOf[o] = c THEN 1 ELSE 0

\* How many orders of the request use coupon c.
Uses(p, c) == Cardinality({o \in OrdersOf(p) : CouponOf[o] = c})

\* Mutant of CouponsLeft: the quantity is compared with zero only once.
SomeCouponLeft(p) == \A c \in Coupons : Uses(p, c) > 0 => couponQuantity[c] > 0

CouponsLeft(p) == \A c \in Coupons : couponQuantity[c] >= Uses(p, c)

\* findSkus (stock checked a second time) and findCouponForOrder: two reads
\* that only decide whether the request goes on.
FindSkusAndCoupons(p) ==
    /\ checkoutPc[p] = "findCoupons"
    /\ Goto(p, IF InStock(p) /\ CouponsLeft(p) THEN "write" ELSE "releasing")
    /\ UNCHANGED <<storeVars, foundSkuIds, acquired, readCart, readUpdatedAt>>

\* where: { id, updatedAt, stock: { gte: quantity } }
VersionsMatch(p) ==
    \A s \in SkusIn(Wanted(p)) : updatedAt[s] = readUpdatedAt[p][s]

Writable(p) == VersionsMatch(p) /\ InStock(p) /\ CouponsLeft(p)

\* The writes of _createOrderTransaction and its commit.  deleteCartItems is
\* a deleteMany whose count is not looked at.
CommitOrder(p) ==
    /\ checkoutPc[p] = "write"
    /\ Writable(p)
    /\ paymentStatus' = [paymentStatus EXCEPT ![p] = "PENDING"]
    /\ orderStatus' = [o \in Orders |->
            IF o \in OrdersOf(p) THEN "PENDING_PAYMENT" ELSE orderStatus[o]]
    /\ orderItems' = [o \in Orders |->
            IF o \in OrdersOf(p) THEN OrderLines(p, o) ELSE orderItems[o]]
    /\ couponQuantity' = [c \in Coupons |-> couponQuantity[c] - Uses(p, c)]
    /\ cartItem' = [i \in CartItems |->
            IF i \in ItemsOf(p) THEN Absent ELSE cartItem[i]]
    /\ TakeStock(Wanted(p))
    /\ Goto(p, "addJob")
    /\ UNCHANGED <<transactionOf, soldCount, lock, cancelJob, foundSkuIds,
                   acquired, readCart, readUpdatedAt>>

\* A conditional write matched no row: P2025, the transaction rolls back.
WriteConflict(p) ==
    /\ checkoutPc[p] = "write"
    /\ ~Writable(p)
    /\ Goto(p, "releasing")
    /\ UNCHANGED <<storeVars, foundSkuIds, acquired, readCart, readUpdatedAt>>

\* Any other end without commit: a product hidden since, a SKU of another
\* shop, minOrderAmount, the transaction timeout, a deadlock victim.
AbortOrder(p) ==
    /\ checkoutPc[p] \in InTransaction
    /\ Goto(p, "releasing")
    /\ UNCHANGED <<storeVars, foundSkuIds, acquired, readCart, readUpdatedAt>>

\* Mutant of AddJobCancelPayment: the job is never enqueued.
AddNoJob(p) ==
    /\ checkoutPc[p] = "addJob"
    /\ Goto(p, "releasing")
    /\ UNCHANGED <<storeVars, foundSkuIds, acquired, readCart, readUpdatedAt>>

\* addJobCancelPayment, after the commit.
AddJobCancelPayment(p) ==
    /\ checkoutPc[p] = "addJob"
    /\ cancelJob' = [cancelJob EXCEPT ![p] = "delayed"]
    /\ Goto(p, "releasing")
    /\ UNCHANGED <<skuVars, orderVars, cartItem, couponQuantity, transactionOf,
                   soldCount, lock, foundSkuIds, acquired, readCart,
                   readUpdatedAt>>

\* Redis refuses the job: the exception leaves through the finally.
AddJobFails(p) ==
    /\ Failures
    /\ checkoutPc[p] = "addJob"
    /\ Goto(p, "releasing")
    /\ UNCHANGED <<storeVars, foundSkuIds, acquired, readCart, readUpdatedAt>>

\* redlock.release deletes a key only while it still holds the caller's value.
ReleaseLocks(p) ==
    /\ checkoutPc[p] = "releasing"
    /\ lock' = [s \in Skus |-> IF lock[s] = p THEN Nobody ELSE lock[s]]
    /\ Goto(p, "done")
    /\ UNCHANGED <<skuVars, orderVars, cartItem, couponQuantity, transactionOf,
                   soldCount, cancelJob, foundSkuIds, acquired, readCart,
                   readUpdatedAt>>

\* The process dies with the request in it.
CrashCheckout(p) ==
    /\ Failures
    /\ checkoutPc[p] \notin {"start", "overloaded", "done"}
    /\ Goto(p, "done")
    /\ UNCHANGED <<storeVars, foundSkuIds, acquired, readCart, readUpdatedAt>>

\* The TTL of a checkout's SKU lock runs out: under the request if
\* LockMayExpire, and in any case once the request is gone without releasing.
LockExpires(s) ==
    /\ lock[s] \in Checkouts
    /\ LockMayExpire \/ checkoutPc[lock[s]] \in {"overloaded", "done"}
    /\ lock' = [lock EXCEPT ![s] = Nobody]
    /\ UNCHANGED <<skuVars, orderVars, cartItem, couponQuantity, transactionOf,
                   soldCount, cancelJob, checkoutVars>>

CheckoutStep(p) ==
    \/ FindCartItemsSkuIds(p)
    \/ \E s \in Skus : AcquireLock(p, s)
    \/ Overloaded(p)
    \/ FindCartItems(p)
    \/ FindCartItemSkus(p)
    \/ FindSkusAndCoupons(p)
    \/ CommitOrder(p)
    \/ WriteConflict(p)
    \/ AbortOrder(p)
    \/ AddJobCancelPayment(p)
    \/ AddJobFails(p)
    \/ ReleaseLocks(p)
    \/ CrashCheckout(p)

CheckoutNext ==
    \/ \E p \in Checkouts : CheckoutStep(p)
    \/ \E s \in Skus : LockExpires(s)

=============================================================================
