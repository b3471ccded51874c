----------------------------- MODULE OrderSystem -----------------------------
(***************************************************************************)
(* The shop around its orders: carts, checkout, launchpad purchases and     *)
(* settlement run against the same tables, locks and queue.                 *)
(***************************************************************************)
EXTENDS Checkout, Purchase, Settlement, Cart

vars == <<storeVars, checkoutVars, purchaseVars, settlementVars, cartVars>>

Init ==
    /\ StoreInit
    /\ CheckoutInit
    /\ PurchaseInit
    /\ SettlementInit
    /\ CartInit

Next ==
    \/ CheckoutNext /\ UNCHANGED <<purchaseVars, settlementVars, cartVars>>
    \/ PurchaseNext /\ UNCHANGED <<checkoutVars, settlementVars, cartVars>>
    \/ SettlementNext /\ UNCHANGED <<checkoutVars, purchaseVars, cartVars>>
    \/ CartNext /\ UNCHANGED <<checkoutVars, purchaseVars, settlementVars>>

Spec == Init /\ [][Next]_vars

(***************************************************************************)
(* Fairness.  The event loop runs every request it has accepted, BullMQ     *)
(* runs a delayed job when its time has come, and Redis drops a key when    *)
(* its TTL ends.  Nobody has to send a cancel, a transfer or an edit.       *)
(***************************************************************************)
Fairness ==
    /\ \A p \in Checkouts :
        WF_vars(CheckoutStep(p) /\ UNCHANGED <<purchaseVars, settlementVars, cartVars>>)
    /\ \A p \in Payments :
        WF_vars(JobStep(p) /\ UNCHANGED <<checkoutVars, purchaseVars, cartVars>>)
    /\ \A c \in Cancels :
        WF_vars(cancelPc[c] # "start" /\ CancelStep(c)
                /\ UNCHANGED <<checkoutVars, purchaseVars, cartVars>>)
    /\ \A s \in Skus :
        WF_vars(LockExpires(s) /\ UNCHANGED <<purchaseVars, settlementVars, cartVars>>)

FairSpec == Spec /\ Fairness

-----------------------------------------------------------------------------
(***************************************************************************)
(* Safety                                                                   *)
(***************************************************************************)

\* Every table, queue entry and request record holds a value of its type; in
\* particular no stock and no coupon quantity is ever negative.
TypeOK ==
    /\ StoreTypeOK
    /\ CheckoutTypeOK
    /\ PurchaseTypeOK
    /\ SettlementTypeOK
    /\ CartTypeOK

\* A payment still PENDING has all its orders waiting for payment, and a
\* payment that is SUCCESS has all of them waiting for pickup: cancelOrder,
\* the IPN handlers and the expiry job each move both tables in one
\* transaction, whichever of them come first.
PaymentOrderAgreement ==
    \A o \in Orders :
        /\ paymentStatus[PaymentOf[o]] = "none" <=> orderStatus[o] = "none"
        /\ paymentStatus[PaymentOf[o]] = "PENDING"
                => orderStatus[o] = "PENDING_PAYMENT"
        /\ paymentStatus[PaymentOf[o]] = "SUCCESS"
                => orderStatus[o] = "PENDING_PICKUP"

\* A payment that was paid can only be taken back by a cancelOrder that had
\* read its order before the transfer arrived.  The expiry job never does it,
\* even when a crash kept the job in the queue or BullMQ runs it twice.
OnlyRacingCancelUndoesPayment ==
    [][\A p \in Payments :
        paymentStatus[p] = "SUCCESS" /\ paymentStatus'[p] # "SUCCESS" =>
            \E c \in Cancels : PaymentOf[CancelTarget[c]] = p
                               /\ cancelPc[c] = "read" /\ cancelPc'[c] = "done"]_vars

Cancelling == {CancelTarget[c] : c \in {k \in Cancels : cancelPc[k] = "read"}}

Lifecycle == INSTANCE PaymentLifecycle
    WITH payment <- paymentStatus, order <- orderStatus, cancelling <- Cancelling

\* Seen through the two status columns and the cancellations under way, the
\* handlers with all their steps, locks, crashes and retries do nothing the
\* one-step-per-handler specification of a payment does not allow.
ImplementsLifecycle == Lifecycle!LifecycleSpec

\* No SKU occurs in two orders of one payment, nor twice in one order: the
\* duplicate check and the unique (userId, skuId) of the cart guarantee it,
\* and returning the stock line by line relies on it.
NoSkuTwiceInPayment ==
    \A o1, o2 \in Orders :
        PaymentOf[o1] = PaymentOf[o2] =>
            \A l1 \in orderItems[o1], l2 \in orderItems[o2] :
                l1.skuId = l2.skuId => o1 = o2 /\ l1 = l2

LiveOrders ==
    {o \in Orders : orderStatus[o] \in {"PENDING_PAYMENT", "PENDING_PICKUP"}}

\* One element for each unit of SKU s in the lines of a set of orders.
Units(lines, S, s) == UNION {{o} \X (1..QuantityIn(lines[o], s)) : o \in S}

Held(s) == Cardinality(Units(orderItems, LiveOrders, s))

\* While nothing is cancelled by a user or paid, stock is neither lost nor
\* invented: what left a SKU's stock is exactly what live orders hold,
\* whatever locks expire, checkouts race and jobs run twice.
StockConserved == \A s \in Skus : stock[s] + Held(s) = InitialStock[s]

\* Stock plus what live orders hold never falls below what there was: every
\* cancellation, by the user or by the job, returns what the order took.
NoStockLost == \A s \in Skus : stock[s] + Held(s) >= InitialStock[s]

\* Stock plus what live orders hold changes in two races only: a cancelOrder
\* that read its order in time commits after the order was cancelled by
\* somebody else, or a transfer revives an order whose stock went back.
StockInventedOnlyByRaces ==
    [][\A s \in Skus :
        stock'[s] + Held(s)' # stock[s] + Held(s) =>
            \/ \E c \in Cancels :
                /\ cancelPc[c] = "read" /\ cancelPc'[c] = "done"
                /\ orderStatus[CancelTarget[c]] = "CANCELLED"
            \/ \E d \in Deliveries :
                /\ ipnPc[d] = "checked" /\ ipnPc'[d] = "removeJob"
                /\ \E o \in OrdersOf(PaidFor[d]) :
                        orderStatus[o] = "CANCELLED"]_vars

PlacedWith(k) == {o \in Orders : CouponOf[o] = k /\ orderStatus[o] # "none"}

CancelsEnded(k) ==
    {c \in Cancels : cancelPc[c] = "done" /\ CouponOf[CancelTarget[c]] = k}

\* A coupon is spent exactly once for every order placed with it, and no
\* cancelOrder gives back more than one unit: the quantity is at least what
\* the orders left of it, and above that by at most one for each cancellation
\* that has ended.
CouponsSpentOncePerOrder ==
    \A k \in Coupons :
        LET accounted == couponQuantity[k] + Cardinality(PlacedWith(k))
        IN  /\ accounted >= InitialQuantity[k]
            /\ accounted <= InitialQuantity[k] + Cardinality(CancelsEnded(k))

\* The units of coupon k that are free or in use by live orders.
UnitsOf(k) ==
    couponQuantity[k] + Cardinality({o \in LiveOrders : CouponOf[o] = k})

\* The units of a coupon change in three ways only, each by exactly what it
\* does wrong.  A cancelOrder that commits although its order was cancelled
\* meanwhile gives the unit back twice; the expiry job cancels the orders of a
\* payment and keeps their units; a transfer that revives cancelled orders
\* does not take their units again.  A checkout, a cancelOrder that is not
\* overtaken, a job that is run again and whatever fails leave them alone.
CouponUnitsAccounted ==
    [][\A k \in Coupons :
        UnitsOf(k)' # UnitsOf(k) =>
            \/ \E c \in Cancels :
                /\ cancelPc[c] = "read" /\ cancelPc'[c] = "done"
                /\ orderStatus[CancelTarget[c]] = "CANCELLED"
                /\ CouponOf[CancelTarget[c]] = k
                /\ UnitsOf(k)' = UnitsOf(k) + 1
            \/ \E p \in Payments :
                /\ cancelJob[p] = "active" /\ cancelJob'[p] = "committed"
                /\ UnitsOf(k)' = UnitsOf(k)
                        - Cardinality({o \in OrdersOf(p) : CouponOf[o] = k})
            \/ \E d \in Deliveries :
                /\ ipnPc[d] = "checked" /\ ipnPc'[d] = "removeJob"
                /\ UnitsOf(k)' = UnitsOf(k)
                        + Cardinality({o \in OrdersOf(PaidFor[d]) :
                                CouponOf[o] = k /\ orderStatus[o] = "CANCELLED"})]_vars

\* A launchpad's soldCount is the number of recorded transfers that paid for
\* one of its orders: a transfer delivered twice, even concurrently, counts
\* once, because the primary key of PaymentTransaction lets one insert pass.
SoldCountMatchesTransactions ==
    \A l \in Launchpads :
        soldCount[l] =
            Cardinality({t \in Txns : transactionOf[t] # NoPayment
                                      /\ l \in LaunchpadsOf(transactionOf[t])})

\* A cart item becomes part of at most one order, however often it is checked
\* out concurrently.
CartItemOrderedOnce ==
    \A o1, o2 \in Orders :
        /\ o1 # o2
        /\ orderStatus[o1] # "none"
        /\ orderStatus[o2] # "none"
        => CartItemIdsOf[o1] \cap CartItemIdsOf[o2] = {}

\* An edit that has ended gave item i the SKU s.
MovedTo(i, s) ==
    \E e \in Edits :
        /\ editPc[e] = "done"
        /\ EditOf[e].op \in {"addToCart", "updateCart"}
        /\ EditOf[e].item = i
        /\ EditOf[e].skuId = s

\* A checkout that writes has been granted the lock of every SKU it buys, save
\* for items that an edit of the cart put on the SKU it now buys: the SKUs to
\* lock are looked up before the locks, the cart is read after them, and no
\* other handler can come in between.
UnlockedOnlyIfMoved ==
    \A p \in Checkouts :
        checkoutPc[p] = "write" =>
            \A i \in ItemsOf(p) :
                LET s == readCart[p][i].skuId
                IN  s \in acquired[p] \/ MovedTo(i, s)

\* What order.service.ts:61 says: all SKUs to be bought are locked.  Not so
\* when updateCart moves an item between the lookup and the lock (CartMove).
LocksCoverWantedSkus ==
    \A p \in Checkouts :
        checkoutPc[p] = "write" => SkusIn(Wanted(p)) \subseteq acquired[p]

\* The cancel-payment job of p is about to be enqueued, waits or runs.
Watched(p) == checkoutPc[p] = "addJob" \/ cancelJob[p] \in {"delayed", "active"}

\* What makes the job give up: an order of p was cancelled, which leaves the
\* payment FAILED, or a SKU of p is soft-deleted.
BeyondJob(p) ==
    \/ \E o \in OrdersOf(p) : orderStatus[o] = "CANCELLED"
    \/ ~Returnable(LinesOf(p))

\* As long as nothing fails, an order of a checkout that waits for payment has
\* a job that will expire it, from the commit that placed it on: transfers,
\* cancellations of other payments and late removals never take it away.  The
\* two exceptions are the ones in which the job itself gives up.
PendingOrderWatched ==
    \A o \in Orders :
        orderStatus[o] = "PENDING_PAYMENT" /\ PaymentOf[o] \in Checkouts
            => Watched(PaymentOf[o]) \/ BeyondJob(PaymentOf[o])

\* Also when processes die and Redis fails, an order that goes on waiting for
\* payment loses its job in two ways only: createOrder did not get to enqueue
\* it, or the single attempt of the worker failed.  In particular the IPN
\* handlers remove the job of an order only once the order is settled.
JobLostOnlyByFailure ==
    [][\A o \in Orders :
        LET p == PaymentOf[o]
        IN  /\ p \in Checkouts
            /\ orderStatus[o] = "PENDING_PAYMENT"
            /\ orderStatus'[o] = "PENDING_PAYMENT"
            /\ Watched(p) /\ ~Watched(p)'
            => \/ Failures /\ checkoutPc[p] = "addJob"
               \/ cancelJob[p] = "active" /\ (Failures \/ BeyondJob(p))]_vars

\* An order becomes CANCELLED only from PENDING_PAYMENT.
CancelOnlyPending ==
    [][\A o \in Orders :
        orderStatus'[o] = "CANCELLED" /\ orderStatus[o] # "CANCELLED"
            => orderStatus[o] = "PENDING_PAYMENT"]_vars

\* No user holds more paid orders of a launchpad than maxPurchasesPerUser.
PurchaseLimitRespected ==
    \A u \in Users, l \in Launchpads :
        Cardinality(Bought(u, l)) <= MaxPurchasesPerUser[l]

(***************************************************************************)
(* Liveness                                                                 *)
(***************************************************************************)

\* An order waiting for payment does not wait forever: it is paid, cancelled
\* by its user, or cancelled by the job 24 hours after it was placed.
PendingOrderSettles ==
    \A o \in Orders :
        orderStatus[o] = "PENDING_PAYMENT" ~> orderStatus[o] # "PENDING_PAYMENT"

=============================================================================
