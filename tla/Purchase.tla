------------------------------ MODULE Purchase ------------------------------
(***************************************************************************)
(* POST /launchpads/:id/purchase: ManageLaunchpadService.purchase and       *)
(* _createLaunchpadOrderTransaction.  Purchase p buys one unit of the SKU   *)
(* SkuOf[p] for UserOf[p] and inserts one order of a launchpad.  No         *)
(* cancel-payment job is enqueued for its payment.                          *)
(***************************************************************************)
EXTENDS Store

CONSTANTS
    UserOf, SkuOf,          \* purchase -> its user, its SKU
    MaxPurchasesPerUser,    \* launchpad -> the limit (a launchpad without a
                            \* limit is given one that is never reached)
    PurchaseLockMayExpire   \* may the 3000 ms SKU lock run out under it?

ASSUME PurchaseAssumption ==
    /\ UserOf \in [Purchases -> Users]
    /\ SkuOf \in [Purchases -> Skus]
    /\ MaxPurchasesPerUser \in [Launchpads -> Nat]
    /\ PurchaseLockMayExpire \in BOOLEAN
    /\ \A p \in Purchases : \E o \in Orders :
            /\ OrdersOf(p) = {o}
            /\ LaunchpadOf[o] \in Launchpads
            /\ CouponOf[o] = NoCoupon
            /\ CartItemIdsOf[o] = {}

VARIABLES
    live,          \* launchpads with status LIVE and endTime in the future
    purchasePc,
    purchaseRead   \* the SKU's updatedAt, read with the launchpad

purchaseVars == <<live, purchasePc, purchaseRead>>

PurchasePc == {"start", "findSku", "count", "lock", "write", "releasing", "done"}

PurchaseTypeOK ==
    /\ live \in SUBSET Launchpads
    /\ purchasePc \in [Purchases -> PurchasePc]
    /\ purchaseRead \in [Purchases -> Nat]

PurchaseInit ==
    /\ live = Launchpads
    /\ purchasePc = [p \in Purchases |-> "start"]
    /\ purchaseRead = [p \in Purchases |-> 0]

OrderOf(p) == CHOOSE o \in Orders : PaymentOf[o] = p

LaunchpadBought(p) == LaunchpadOf[OrderOf(p)]

Proceed(p, label) == purchasePc' = [purchasePc EXCEPT ![p] = label]

\* First SELECT of findByIdLive.
FindByIdLive(p) ==
    /\ purchasePc[p] = "start"
    /\ Proceed(p, IF LaunchpadBought(p) \in live THEN "findSku" ELSE "done")
    /\ UNCHANGED <<storeVars, live, purchaseRead>>

\* The SKUs its include loads after that, the deleted ones left out.
FindLaunchpadSku(p) ==
    /\ purchasePc[p] = "findSku"
    /\ IF SkuOf[p] \notin deletedSkus
       THEN /\ purchaseRead' = [purchaseRead EXCEPT ![p] = updatedAt[SkuOf[p]]]
            /\ Proceed(p, "count")
       ELSE Proceed(p, "done") /\ UNCHANGED purchaseRead
    /\ UNCHANGED <<storeVars, live>>

\* countUserPurchases: orders not cancelled whose payment is SUCCESS.
Bought(user, l) ==
    {o \in Orders :
        /\ LaunchpadOf[o] = l
        /\ PaymentOf[o] \in Purchases
        /\ UserOf[PaymentOf[o]] = user
        /\ orderStatus[o] \notin {"none", "CANCELLED"}
        /\ paymentStatus[PaymentOf[o]] = "SUCCESS"}

\* The limit, counted under a Redlock of its own that is released before the
\* order is inserted; a section of a single read is one step.
CountUserPurchases(p) ==
    /\ purchasePc[p] = "count"
    /\ Proceed(p, IF Cardinality(Bought(UserOf[p], LaunchpadBought(p)))
                        >= MaxPurchasesPerUser[LaunchpadBought(p)]
                  THEN "done" ELSE "lock")
    /\ UNCHANGED <<storeVars, live, purchaseRead>>

\* ServerOverloadedException: another request of the user is at the same count,
\* or died there and its key has not run out.
LimitLockTaken(p) ==
    /\ purchasePc[p] = "count"
    /\ \/ Failures
       \/ \E q \in Purchases \ {p} : /\ UserOf[q] = UserOf[p]
                                    /\ LaunchpadBought(q) = LaunchpadBought(p)
                                    /\ purchasePc[q] = "count"
    /\ Proceed(p, "done")
    /\ UNCHANGED <<storeVars, live, purchaseRead>>

AcquireSkuLock(p) ==
    /\ purchasePc[p] = "lock"
    /\ lock[SkuOf[p]] = Nobody
    /\ lock' = [lock EXCEPT ![SkuOf[p]] = p]
    /\ Proceed(p, "write")
    /\ UNCHANGED <<skuVars, orderVars, cartItem, couponQuantity, transactionOf,
                   soldCount, cancelJob, live, purchaseRead>>

\* ServerOverloadedException
SkuLockTaken(p) ==
    /\ purchasePc[p] = "lock"
    /\ lock[SkuOf[p]] # Nobody
    /\ Proceed(p, "done")
    /\ UNCHANGED <<storeVars, live, purchaseRead>>

\* findSkuById and the where of decrementSkuStock.  The updatedAt compared was
\* read with the launchpad, before the lock.
Sellable(p) ==
    /\ SkuOf[p] \notin deletedSkus
    /\ stock[SkuOf[p]] >= 1
    /\ updatedAt[SkuOf[p]] = purchaseRead[p]

CommitPurchase(p) ==
    LET line == [skuId |-> SkuOf[p], quantity |-> 1]
    IN  /\ purchasePc[p] = "write"
        /\ Sellable(p)
        /\ paymentStatus' = [paymentStatus EXCEPT ![p] = "PENDING"]
        /\ orderStatus' = [o \in Orders |->
                IF o \in OrdersOf(p) THEN "PENDING_PAYMENT" ELSE orderStatus[o]]
        /\ orderItems' = [o \in Orders |->
                IF o \in OrdersOf(p) THEN {line} ELSE orderItems[o]]
        /\ TakeStock({line})
        /\ Proceed(p, "releasing")
        /\ UNCHANGED <<cartItem, couponQuantity, transactionOf, soldCount, lock,
                       cancelJob, live, purchaseRead>>

\* SKU gone, out of stock or changed since, or the transaction fails.
AbortPurchase(p) ==
    /\ purchasePc[p] = "write"
    /\ Failures \/ ~Sellable(p)
    /\ Proceed(p, "releasing")
    /\ UNCHANGED <<storeVars, live, purchaseRead>>

ReleaseSkuLock(p) ==
    /\ purchasePc[p] = "releasing"
    /\ lock' = [s \in Skus |-> IF lock[s] = p THEN Nobody ELSE lock[s]]
    /\ Proceed(p, "done")
    /\ UNCHANGED <<skuVars, orderVars, cartItem, couponQuantity, transactionOf,
                   soldCount, cancelJob, live, purchaseRead>>

CrashPurchase(p) ==
    /\ Failures
    /\ purchasePc[p] \notin {"start", "done"}
    /\ Proceed(p, "done")
    /\ UNCHANGED <<storeVars, live, purchaseRead>>

\* The TTL of a purchase's SKU lock runs out.
PurchaseLockExpires(s) ==
    /\ lock[s] \in Purchases
    /\ PurchaseLockMayExpire \/ purchasePc[lock[s]] = "done"
    /\ lock' = [lock EXCEPT ![s] = Nobody]
    /\ UNCHANGED <<skuVars, orderVars, cartItem, couponQuantity, transactionOf,
                   soldCount, cancelJob, purchaseVars>>

\* endTime passes, or the expiry job sets the status to ENDED.
EndLaunchpad(l) ==
    /\ l \in live
    /\ live' = live \ {l}
    /\ UNCHANGED <<storeVars, purchasePc, purchaseRead>>

PurchaseStep(p) ==
    \/ FindByIdLive(p)
    \/ FindLaunchpadSku(p)
    \/ CountUserPurchases(p)
    \/ LimitLockTaken(p)
    \/ AcquireSkuLock(p)
    \/ SkuLockTaken(p)
    \/ CommitPurchase(p)
    \/ AbortPurchase(p)
    \/ ReleaseSkuLock(p)
    \/ CrashPurchase(p)

PurchaseNext ==
    \/ \E p \in Purchases : PurchaseStep(p)
    \/ \E s \in Skus : PurchaseLockExpires(s)
    \/ \E l \in Launchpads : EndLaunchpad(l)

=============================================================================
