---------------------------- MODULE ExpiryProofs ----------------------------
(***************************************************************************)
(* Who takes away the cancel-payment job of an order that waits for         *)
(* payment, for any requests, transfers, cancellations and deleted SKUs.    *)
(***************************************************************************)
EXTENDS StockProofs

Settled(o) == orderStatus[o] \notin {"none", "PENDING_PAYMENT"}

\* An IPN handler that is about to remove the job has settled every order.
RemovalAfterSettling ==
    \A d \in Deliveries :
        ipnPc[d] = "removeJob" => \A o \in OrdersOf(PaidFor[d]) : Settled(o)

\* A payment becomes FAILED together with one of its orders.
FailedByCancel ==
    \A o \in Orders :
        paymentStatus[PaymentOf[o]] = "FAILED" =>
            \E k \in OrdersOf(PaymentOf[o]) : orderStatus[k] = "CANCELLED"

JobInv == StatusInv /\ RemovalAfterSettling /\ FailedByCancel

\* What the steps need to know of the state they start from.
LEMMA StatusFacts ==
    ASSUME StatusInv
    PROVE  /\ paymentStatus \in [Payments -> PaymentStatus \cup {"none"}]
           /\ orderStatus \in [Orders -> OrderStatus \cup {"none"}]
           /\ checkoutPc \in [Checkouts -> CheckoutPc]
           /\ cancelJob \in [Payments -> {"none", "delayed", "active", "committed"}]
           /\ ipnPc \in [Deliveries -> {"start", "checked", "removeJob", "done"}]
           /\ PaymentOrderAgreement
BY DEF StatusInv, TypeInv, TypeOK, StoreTypeOK, CheckoutTypeOK, SettlementTypeOK

-----------------------------------------------------------------------------
(***************************************************************************)
(* What the statuses do from one state to the next.                         *)
(***************************************************************************)

\* No order that was settled ever waits for payment again.
LEMMA SettledStays ==
    ASSUME StatusInv, [Next]_vars, NEW o \in Orders, Settled(o)
    PROVE  Settled(o)'
<1> USE BodiesAssumption DEF Settled, PaymentOrderAgreement
<1>0. LifecycleStep
  BY StatusStep
<1>1. ASSUME NEW p \in Payments, Lifecycle!Place(p)
      PROVE  Settled(o)'
  BY <1>1, StatusFacts DEF Lifecycle!Place, Lifecycle!MoveAll
<1>2. ASSUME NEW p \in Payments, Lifecycle!Pay(p) \/ Lifecycle!Expire(p)
      PROVE  Settled(o)'
  BY <1>2 DEF Lifecycle!Pay, Lifecycle!Expire, Lifecycle!MoveAll
<1>3. ASSUME NEW k \in Orders, Lifecycle!AdmitCancel(k) \/ Lifecycle!DropCancel(k)
      PROVE  Settled(o)'
  BY <1>3 DEF Lifecycle!AdmitCancel, Lifecycle!DropCancel
<1>4. ASSUME NEW k \in Orders, Lifecycle!Cancel(k)
      PROVE  Settled(o)'
  BY <1>4, StatusFacts DEF Lifecycle!Cancel
<1>5. CASE Quiet
  BY <1>5 DEF Quiet
<1> QED
  BY <1>0, <1>1, <1>2, <1>3, <1>4, <1>5 DEF LifecycleStep, Lifecycle!LifecycleNext

\* Of a payment whose order goes on waiting, no cancelled order is revived.
LEMMA CancelledStays ==
    ASSUME StatusInv, [Next]_vars, NEW o \in Orders,
           orderStatus[o] = "PENDING_PAYMENT", orderStatus'[o] = "PENDING_PAYMENT",
           NEW k \in OrdersOf(PaymentOf[o]), orderStatus[k] = "CANCELLED"
    PROVE  orderStatus'[k] = "CANCELLED"
<1> DEFINE goal == orderStatus'[k] = "CANCELLED"
<1>0. LifecycleStep /\ k \in Orders /\ PaymentOf[k] = PaymentOf[o]
  BY StatusStep DEF OrdersOf
<1>1. ASSUME NEW p \in Payments, Lifecycle!Place(p)
      PROVE  goal
  <2>1. PaymentOf[o] # p
    BY <1>1, StatusFacts DEF Lifecycle!Place, PaymentOrderAgreement
  <2> QED
    BY <1>0, <1>1, <2>1 DEF Lifecycle!Place, Lifecycle!MoveAll
<1>2. ASSUME NEW p \in Payments, Lifecycle!Pay(p) \/ Lifecycle!Expire(p)
      PROVE  goal
  BY <1>0, <1>2 DEF Lifecycle!Pay, Lifecycle!Expire, Lifecycle!MoveAll
<1>3. ASSUME NEW j \in Orders, Lifecycle!AdmitCancel(j) \/ Lifecycle!DropCancel(j)
      PROVE  goal
  BY <1>3 DEF Lifecycle!AdmitCancel, Lifecycle!DropCancel
<1>4. ASSUME NEW j \in Orders, Lifecycle!Cancel(j)
      PROVE  goal
  BY <1>0, <1>4, StatusFacts DEF Lifecycle!Cancel
<1>5. CASE Quiet
  BY <1>5 DEF Quiet
<1> QED
  BY <1>0, <1>1, <1>2, <1>3, <1>4, <1>5 DEF LifecycleStep, Lifecycle!LifecycleNext

\* cancelOrder and the job write FAILED next to a CANCELLED order.
LEMMA FailedStep ==
    ASSUME StatusInv, FailedByCancel, [Next]_vars
    PROVE  FailedByCancel'
<1> SUFFICES ASSUME NEW o \in Orders, paymentStatus'[PaymentOf[o]] = "FAILED"
             PROVE  \E k \in OrdersOf(PaymentOf[o]) : orderStatus'[k] = "CANCELLED"
  BY DEF FailedByCancel, OrdersOf
<1> USE BodiesAssumption
<1> DEFINE goal == \E k \in OrdersOf(PaymentOf[o]) : orderStatus'[k] = "CANCELLED"
<1>0. LifecycleStep /\ PaymentOf[o] \in Payments
  BY StatusStep
<1>a. paymentStatus[PaymentOf[o]] = "FAILED" =>
        \E k \in OrdersOf(PaymentOf[o]) : orderStatus[k] = "CANCELLED"
  BY DEF FailedByCancel
<1>1. ASSUME NEW p \in Payments, Lifecycle!Place(p) \/ Lifecycle!Pay(p)
      PROVE  goal
  <2>1. PaymentOf[o] # p
    BY <1>1, StatusFacts DEF Lifecycle!Place, Lifecycle!Pay
  <2>2. /\ paymentStatus[PaymentOf[o]] = "FAILED"
        /\ \A k \in OrdersOf(PaymentOf[o]) : orderStatus'[k] = orderStatus[k]
    BY <1>0, <1>1, <2>1, StatusFacts
       DEF Lifecycle!Place, Lifecycle!Pay, Lifecycle!MoveAll, OrdersOf
  <2> QED
    BY <1>a, <2>2
<1>2. ASSUME NEW p \in Payments, Lifecycle!Expire(p)
      PROVE  goal
  <2>1. CASE PaymentOf[o] = p
    BY <1>2, <2>1 DEF Lifecycle!Expire, Lifecycle!MoveAll, OrdersOf
  <2>2. CASE PaymentOf[o] # p
    <3>1. /\ paymentStatus[PaymentOf[o]] = "FAILED"
          /\ \A k \in OrdersOf(PaymentOf[o]) : orderStatus'[k] = orderStatus[k]
      BY <1>0, <1>2, <2>2, StatusFacts
         DEF Lifecycle!Expire, Lifecycle!MoveAll, OrdersOf
    <3> QED
      BY <1>a, <3>1
  <2> QED
    BY <2>1, <2>2
<1>3. ASSUME NEW j \in Orders, Lifecycle!AdmitCancel(j) \/ Lifecycle!DropCancel(j)
      PROVE  goal
  BY <1>3, <1>a DEF Lifecycle!AdmitCancel, Lifecycle!DropCancel
<1>4. ASSUME NEW j \in Orders, Lifecycle!Cancel(j)
      PROVE  goal
  <2>1. orderStatus'[j] = "CANCELLED"
    BY <1>4, StatusFacts DEF Lifecycle!Cancel
  <2>2. CASE PaymentOf[o] = PaymentOf[j]
    BY <2>1, <2>2 DEF OrdersOf
  <2>3. CASE PaymentOf[o] # PaymentOf[j]
    <3>1. /\ paymentStatus[PaymentOf[o]] = "FAILED"
          /\ \A k \in OrdersOf(PaymentOf[o]) : orderStatus'[k] = orderStatus[k]
      BY <1>0, <1>4, <2>3, StatusFacts DEF Lifecycle!Cancel, OrdersOf
    <3> QED
      BY <1>a, <3>1
  <2> QED
    BY <2>2, <2>3
<1>5. CASE Quiet
  BY <1>5, <1>a DEF Quiet
<1> QED
  BY <1>0, <1>1, <1>2, <1>3, <1>4, <1>5 DEF LifecycleStep, Lifecycle!LifecycleNext

-----------------------------------------------------------------------------
(***************************************************************************)
(* What moves the IPN handlers, the lines and the deleted SKUs.             *)
(***************************************************************************)

\* A handler comes to remove a job only by recording a transfer.
LEMMA IpnMoves ==
    ASSUME StatusInv, [Next]_vars, NEW d \in Deliveries, ipnPc'[d] = "removeJob"
    PROVE  ipnPc[d] = "removeJob" \/ CommitPayment(d)
<1> USE DEF settlementVars
<1>1. CASE UNCHANGED vars
  BY <1>1 DEF vars
<1>2. ASSUME NEW c \in Cancels, CancelStep(c)
      PROVE  UNCHANGED ipnPc
  BY <1>2 DEF CancelStep, ReadOrder, CommitCancel, AbortCancel
<1>3. ASSUME NEW k \in Deliveries, IpnStep(k)
      PROVE  ipnPc[d] = "removeJob" \/ CommitPayment(d)
  <2>1. CASE CommitPayment(k)
    <3>1. ipnPc' = [ipnPc EXCEPT ![k] = "removeJob"]
      BY <2>1 DEF CommitPayment
    <3> QED
      BY <2>1, <3>1, StatusFacts
  <2>2. CASE ~CommitPayment(k)
    <3>1. \E l \in {"checked", "done"} : ipnPc' = [ipnPc EXCEPT ![k] = l]
      BY <1>3, <2>2 DEF IpnStep, FindTransaction, AbortPayment, RemoveJob, RemoveJobFails
    <3> QED
      BY <3>1, StatusFacts
  <2> QED
    BY <2>1, <2>2
<1>4. ASSUME NEW p \in Payments, JobStep(p)
      PROVE  UNCHANGED ipnPc
  BY <1>4 DEF JobStep, StartJob, CommitJob, FailJob, CompleteJob, StallJob
<1>5. ASSUME EnvironmentStep
      PROVE  UNCHANGED ipnPc
  BY <1>5 DEF EnvironmentStep, DeleteSku
<1> QED
  BY <1>1, <1>2, <1>3, <1>4, <1>5, NextCases

LEMMA RemovalStep ==
    ASSUME StatusInv, RemovalAfterSettling, [Next]_vars
    PROVE  RemovalAfterSettling'
<1> SUFFICES ASSUME NEW d \in Deliveries, ipnPc'[d] = "removeJob",
                    NEW o \in OrdersOf(PaidFor[d])
             PROVE  Settled(o)'
  BY DEF RemovalAfterSettling, OrdersOf
<1>0. o \in Orders
  BY DEF OrdersOf
<1>1. CASE ipnPc[d] = "removeJob"
  BY <1>0, <1>1, SettledStays DEF RemovalAfterSettling
<1>2. CASE CommitPayment(d)
  BY <1>0, <1>2 DEF CommitPayment, PaidOrders, Settled
<1> QED
  BY <1>1, <1>2, IpnMoves

\* An order that waits for payment was placed with its payment, or waits on.
LEMMA WaitingBefore ==
    ASSUME StatusInv, [Next]_vars, NEW o \in Orders,
           orderStatus'[o] = "PENDING_PAYMENT", PaymentOf[o] \in Checkouts
    PROVE  orderStatus[o] = "PENDING_PAYMENT" \/ CommitOrder(PaymentOf[o])
<1>0. ~Settled(o)
  BY SettledStays DEF Settled
<1> SUFFICES ASSUME orderStatus[o] = "none" PROVE CommitOrder(PaymentOf[o])
  BY <1>0 DEF Settled
<1>1. ASSUME NEW p \in Checkouts, CommitOrder(p)
      PROVE  CommitOrder(PaymentOf[o])
  <2>1. o \in OrdersOf(p)
    BY <1>1 DEF CommitOrder
  <2> QED
    BY <1>1, <2>1 DEF OrdersOf
<1>2. ASSUME NEW p \in Purchases, CommitPurchase(p)
      PROVE  FALSE
  <2>1. o \in OrdersOf(p)
    BY <1>2 DEF CommitPurchase
  <2> QED
    BY <2>1, RequestsAssumption DEF OrdersOf
<1>3. ASSUME NEW c \in Cancels, CommitCancel(c)
      PROVE  FALSE
  BY <1>3, StatusFacts DEF CommitCancel
<1>4. ASSUME NEW d \in Deliveries, CommitPayment(d)
      PROVE  FALSE
  BY <1>4 DEF CommitPayment
<1>5. ASSUME NEW p \in Payments, CommitJob(p)
      PROVE  FALSE
  BY <1>5 DEF CommitJob
<1> QED
  BY <1>1, <1>2, <1>3, <1>4, <1>5, CommitCases

\* The lines of an order that was placed are never written again.
LEMMA LinesKept ==
    ASSUME StatusInv, [Next]_vars, NEW o \in Orders, orderStatus[o] # "none"
    PROVE  orderItems'[o] = orderItems[o]
<1> USE BodiesAssumption DEF orderVars
<1>0. paymentStatus[PaymentOf[o]] # "none"
  BY StatusFacts DEF PaymentOrderAgreement
<1>1. ASSUME NEW p \in Checkouts, CommitOrder(p)
      PROVE  orderItems'[o] = orderItems[o]
  <2>1. paymentStatus[p] = "none"
    BY <1>1 DEF StatusInv, PlacedLater, CommitOrder, InTransaction
  <2> QED
    BY <1>0, <1>1, <2>1 DEF CommitOrder, OrdersOf
<1>2. ASSUME NEW p \in Purchases, CommitPurchase(p)
      PROVE  orderItems'[o] = orderItems[o]
  <2>1. paymentStatus[p] = "none"
    BY <1>2 DEF StatusInv, PlacedLater, CommitPurchase
  <2> QED
    BY <1>0, <1>2, <2>1 DEF CommitPurchase, OrdersOf
<1>3. ASSUME NEW c \in Cancels, CommitCancel(c)
      PROVE  orderItems'[o] = orderItems[o]
  BY <1>3 DEF CommitCancel
<1>4. ASSUME NEW d \in Deliveries, CommitPayment(d)
      PROVE  orderItems'[o] = orderItems[o]
  BY <1>4 DEF CommitPayment
<1>5. ASSUME NEW p \in Payments, CommitJob(p)
      PROVE  orderItems'[o] = orderItems[o]
  BY <1>5 DEF CommitJob
<1> QED
  BY <1>1, <1>2, <1>3, <1>4, <1>5, CommitCases

\* A soft-deleted SKU stays deleted.
LEMMA DeletedGrow ==
    ASSUME [Next]_vars
    PROVE  deletedSkus \subseteq deletedSkus'
<1> USE DEF storeVars, skuVars
<1>1. CASE UNCHANGED vars
  BY <1>1 DEF vars
<1>2. CASE Next
  <2>1. ASSUME NEW p \in Checkouts, CheckoutStep(p)
        PROVE  UNCHANGED deletedSkus
    BY <2>1 DEF CheckoutStep, FindCartItemsSkuIds, AcquireLock, Overloaded,
       FindCartItems, FindCartItemSkus, FindSkusAndCoupons, CommitOrder, TakeStock,
       WriteConflict, AbortOrder, AddJobCancelPayment, AddJobFails, ReleaseLocks,
       CrashCheckout
  <2>2. ASSUME NEW p \in Purchases, PurchaseStep(p)
        PROVE  UNCHANGED deletedSkus
    BY <2>2 DEF PurchaseStep, FindByIdLive, FindLaunchpadSku,
        CountUserPurchases, LimitLockTaken, AcquireSkuLock,
       SkuLockTaken, CommitPurchase, TakeStock, AbortPurchase, ReleaseSkuLock,
       CrashPurchase
  <2>3. ASSUME NEW c \in Cancels, CancelStep(c)
        PROVE  UNCHANGED deletedSkus
    BY <2>3 DEF CancelStep, ReadOrder, CommitCancel, ReturnStock, AbortCancel
  <2>4. ASSUME NEW d \in Deliveries, IpnStep(d)
        PROVE  UNCHANGED deletedSkus
    BY <2>4 DEF IpnStep, FindTransaction, CommitPayment, AbortPayment, RemoveJob,
       RemoveJobFails
  <2>5. ASSUME NEW p \in Payments, JobStep(p)
        PROVE  UNCHANGED deletedSkus
    BY <2>5 DEF JobStep, StartJob, CommitJob, ReturnStock, FailJob, CompleteJob,
       StallJob
  <2>6. ASSUME NEW e \in Edits, CartStep(e)
        PROVE  UNCHANGED deletedSkus
    BY <2>6 DEF CartStep, ValidateSku, AddToCart, UpdateCart, DeleteCart, WriteCart
  <2>7. ASSUME EnvironmentStep
        PROVE  deletedSkus \subseteq deletedSkus'
    BY <2>7 DEF EnvironmentStep, LockExpires, PurchaseLockExpires, EndLaunchpad,
       DeleteSku
  <2> QED
    BY <1>2, <2>1, <2>2, <2>3, <2>4, <2>5, <2>6, <2>7, NextCases
<1> QED
  BY <1>1, <1>2

\* What made the job of p give up still does while an order of p waits.
LEMMA BeyondStays ==
    ASSUME StatusInv, [Next]_vars, NEW o \in Orders,
           orderStatus[o] = "PENDING_PAYMENT", orderStatus'[o] = "PENDING_PAYMENT",
           BeyondJob(PaymentOf[o])
    PROVE  BeyondJob(PaymentOf[o])'
<1> DEFINE p == PaymentOf[o]
<1>1. CASE \E k \in OrdersOf(p) : orderStatus[k] = "CANCELLED"
  <2>1. \E k \in OrdersOf(p) : orderStatus'[k] = "CANCELLED"
    BY <1>1, CancelledStays
  <2> QED
    BY <2>1 DEF BeyondJob, OrdersOf
<1>2. CASE ~Returnable(LinesOf(p))
  <2>1. paymentStatus[p] # "none"
    BY StatusFacts DEF PaymentOrderAgreement
  <2>2. \A k \in OrdersOf(p) : k \in Orders /\ orderStatus[k] # "none"
    BY <2>1, StatusFacts DEF OrdersOf, PaymentOrderAgreement
  <2>3. \A k \in OrdersOf(p) : orderItems'[k] = orderItems[k]
    BY <2>2, LinesKept
  <2>4. LinesOf(p)' = LinesOf(p)
    BY <2>3 DEF LinesOf, OrdersOf
  <2>5. SkusIn(LinesOf(p)) \cap deletedSkus \subseteq SkusIn(LinesOf(p))' \cap deletedSkus'
    BY <2>4, DeletedGrow DEF SkusIn
  <2> QED
    BY <1>2, <2>5 DEF BeyondJob, Returnable
<1> QED
  BY <1>1, <1>2 DEF BeyondJob

-----------------------------------------------------------------------------
(***************************************************************************)
(* Who may take the job away.                                               *)
(***************************************************************************)

\* createOrder goes on to release its locks only after the job is enqueued.
LEMMA CheckoutWatch ==
    ASSUME StatusInv, NEW q \in Checkouts, CheckoutStep(q),
           NEW p \in Checkouts, Watched(p)
    PROVE  Watched(p)' \/ (Failures /\ checkoutPc[p] = "addJob")
<1> USE DEF storeVars, Goto
<1> SUFFICES ASSUME ~(Failures /\ checkoutPc[p] = "addJob")
             PROVE  checkoutPc'[p] = "addJob" \/ cancelJob'[p] \in {"delayed", "active"}
  BY DEF Watched
<1>a. checkoutPc[p] = "addJob" \/ cancelJob[p] \in {"delayed", "active"}
  BY DEF Watched
<1>0. p \in Payments /\ q \in Payments
  BY DEF Payments
<1>1. CASE AddJobCancelPayment(q)
  BY <1>a, <1>0, <1>1, StatusFacts DEF AddJobCancelPayment
<1>2. CASE AddJobFails(q) \/ CrashCheckout(q)
  <2>1. /\ Failures
        /\ UNCHANGED cancelJob
        /\ \E l \in {"releasing", "done"} : checkoutPc' = [checkoutPc EXCEPT ![q] = l]
    BY <1>2 DEF AddJobFails, CrashCheckout
  <2> QED
    BY <1>a, <2>1, StatusFacts
<1>3. CASE ~AddJobCancelPayment(q) /\ ~AddJobFails(q) /\ ~CrashCheckout(q)
  <2>1. /\ UNCHANGED cancelJob
        /\ \/ UNCHANGED checkoutPc
           \/ /\ checkoutPc[q] # "addJob"
              /\ \E l \in CheckoutPc : checkoutPc' = [checkoutPc EXCEPT ![q] = l]
    BY <1>3 DEF CheckoutStep, FindCartItemsSkuIds, AcquireLock, Overloaded,
       FindCartItems, FindCartItemSkus, FindSkusAndCoupons, CommitOrder,
       WriteConflict, AbortOrder, ReleaseLocks, InTransaction, CheckoutPc
  <2>2. checkoutPc[p] = "addJob" => checkoutPc'[p] = "addJob"
    BY <2>1, StatusFacts
  <2> QED
    BY <1>a, <2>1, <2>2
<1> QED
  BY <1>1, <1>2, <1>3

\* How the job of p can end while it is watched: its worker settles the
\* orders or gives up, or an IPN handler removes it.
JobTaken(p) ==
    \/ CommitJob(p)
    \/ cancelJob[p] = "active" /\ (Failures \/ ~Expirable(p))
    \/ \E d \in Deliveries : ipnPc[d] = "removeJob" /\ PaidFor[d] = p

LEMMA WatchMoves ==
    ASSUME StatusInv, [Next]_vars, NEW p \in Checkouts, Watched(p), ~Watched(p)'
    PROVE  (Failures /\ checkoutPc[p] = "addJob") \/ JobTaken(p)
<1> USE DEF Watched
<1> DEFINE same == UNCHANGED <<checkoutPc, cancelJob>>
<1>0. p \in Payments
  BY DEF Payments
<1>1. CASE UNCHANGED vars
  BY <1>1 DEF vars, storeVars, checkoutVars
<1>2. ASSUME NEW q \in Purchases, PurchaseStep(q), UNCHANGED checkoutVars
      PROVE  same
  BY <1>2 DEF PurchaseStep, FindByIdLive, FindLaunchpadSku,
        CountUserPurchases, LimitLockTaken, AcquireSkuLock,
     SkuLockTaken, CommitPurchase, AbortPurchase, ReleaseSkuLock, CrashPurchase,
     storeVars, checkoutVars
<1>3. ASSUME NEW c \in Cancels, CancelStep(c), UNCHANGED checkoutVars
      PROVE  same
  BY <1>3 DEF CancelStep, ReadOrder, CommitCancel, AbortCancel, storeVars, checkoutVars
<1>4. ASSUME NEW d \in Deliveries, IpnStep(d), UNCHANGED checkoutVars
      PROVE  JobTaken(p)
  <2>1. CASE RemoveJob(d)
    <3>1. PaidFor[d] = p
      BY <1>0, <1>4, <2>1, StatusFacts DEF RemoveJob, checkoutVars
    <3> QED
      BY <2>1, <3>1 DEF RemoveJob, JobTaken
  <2>2. CASE ~RemoveJob(d)
    BY <1>4, <2>2 DEF IpnStep, FindTransaction, CommitPayment, AbortPayment,
       RemoveJobFails, storeVars, checkoutVars
  <2> QED
    BY <2>1, <2>2
<1>5. ASSUME NEW q \in Payments, JobStep(q), UNCHANGED checkoutVars
      PROVE  JobTaken(p)
  <2> USE DEF SetJob, checkoutVars
  <2>1. CASE StartJob(q) \/ StallJob(q)
    <3>1. \E l \in {"active", "delayed"} : cancelJob' = [cancelJob EXCEPT ![q] = l]
      BY <2>1 DEF StartJob, StallJob
    <3> QED
      BY <1>0, <1>5, <3>1, StatusFacts
  <2>2. CASE CompleteJob(q)
    BY <1>0, <1>5, <2>2, StatusFacts DEF CompleteJob
  <2>3. CASE FailJob(q)
    <3>1. p = q
      BY <1>0, <1>5, <2>3, StatusFacts DEF FailJob
    <3> QED
      BY <2>3, <3>1 DEF FailJob, JobTaken
  <2>4. CASE CommitJob(q)
    <3>1. p = q
      BY <1>0, <1>5, <2>4, StatusFacts DEF CommitJob
    <3> QED
      BY <2>4, <3>1 DEF JobTaken
  <2> QED
    BY <1>5, <2>1, <2>2, <2>3, <2>4 DEF JobStep
<1>6. ASSUME NEW e \in Edits, CartStep(e), UNCHANGED checkoutVars
      PROVE  same
  BY <1>6 DEF CartStep, ValidateSku, AddToCart, UpdateCart, DeleteCart, WriteCart,
     storeVars, checkoutVars
<1>7. ASSUME EnvironmentStep
      PROVE  same
  BY <1>7 DEF EnvironmentStep, LockExpires, PurchaseLockExpires, EndLaunchpad,
     DeleteSku, storeVars, checkoutVars
<1> QED
  BY <1>1, <1>2, <1>3, <1>4, <1>5, <1>6, <1>7, NextCases, CheckoutWatch

-----------------------------------------------------------------------------
LEMMA JobInvariant == Spec => []JobInv
<1>1. Init => RemovalAfterSettling /\ FailedByCancel
  BY BodiesAssumption
     DEF Init, StoreInit, SettlementInit, RemovalAfterSettling, FailedByCancel
<1>2. /\ StatusInv /\ RemovalAfterSettling /\ FailedByCancel /\ [Next]_vars
      => (RemovalAfterSettling /\ FailedByCancel)'
  BY RemovalStep, FailedStep
<1> QED
  BY <1>1, <1>2, StatusInvariant, PTL DEF Spec, JobInv

\* Of an order that goes on waiting, the job is lost in two ways only.
LEMMA JobKept ==
    ASSUME JobInv, [Next]_vars, NEW o \in Orders, PaymentOf[o] \in Checkouts,
           orderStatus[o] = "PENDING_PAYMENT", orderStatus'[o] = "PENDING_PAYMENT",
           Watched(PaymentOf[o]), ~Watched(PaymentOf[o])'
    PROVE  \/ Failures /\ checkoutPc[PaymentOf[o]] = "addJob"
           \/ /\ cancelJob[PaymentOf[o]] = "active"
              /\ Failures \/ BeyondJob(PaymentOf[o])
<1> DEFINE p == PaymentOf[o]
<1>0. StatusInv /\ RemovalAfterSettling /\ FailedByCancel /\ o \in OrdersOf(p)
  BY DEF JobInv, OrdersOf
<1>1. CASE CommitJob(p)
  BY <1>0, <1>1 DEF CommitJob
<1>2. ASSUME NEW d \in Deliveries, ipnPc[d] = "removeJob", PaidFor[d] = p
      PROVE  FALSE
  BY <1>0, <1>2 DEF RemovalAfterSettling, Settled
<1>3. CASE cancelJob[p] = "active" /\ Failures
  BY <1>3
<1>4. CASE cancelJob[p] = "active" /\ ~Expirable(p)
  <2>1. CASE ~Returnable(LinesOf(p))
    BY <1>4, <2>1 DEF BeyondJob
  <2>2. CASE paymentStatus[p] # "PENDING"
    <3>1. p \in Payments
      BY DEF Payments
    <3>2. paymentStatus[p] = "FAILED"
      BY <1>0, <2>2, <3>1, StatusFacts DEF PaymentOrderAgreement, PaymentStatus
    <3> QED
      BY <1>0, <1>4, <3>2 DEF FailedByCancel, BeyondJob
  <2> QED
    BY <1>4, <2>1, <2>2 DEF Expirable
<1> QED
  BY <1>0, <1>1, <1>2, <1>3, <1>4, WatchMoves DEF JobTaken

\* Whatever fails, dies or comes twice, an order that goes on waiting for
\* payment loses its job only when createOrder fails to enqueue it or when the
\* one attempt of the worker fails; the IPN handlers never take it away.
THEOREM JobLost == Spec => JobLostOnlyByFailure
<1> DEFINE A == \A o \in Orders :
                    LET p == PaymentOf[o]
                    IN  /\ p \in Checkouts
                        /\ orderStatus[o] = "PENDING_PAYMENT"
                        /\ orderStatus'[o] = "PENDING_PAYMENT"
                        /\ Watched(p) /\ ~Watched(p)'
                        => \/ Failures /\ checkoutPc[p] = "addJob"
                           \/ cancelJob[p] = "active" /\ (Failures \/ BeyondJob(p))
<1>1. JobInv /\ [Next]_vars => A
  BY JobKept
<1>2. JobInv /\ [Next]_vars => [A]_vars
  BY <1>1
<1> QED
  BY <1>2, JobInvariant, PTL DEF Spec, JobLostOnlyByFailure

\* As long as nothing fails, every order of a checkout that waits for payment
\* has its job, from the commit that placed it to the end of its wait, unless
\* one of its payment's orders was cancelled or one of its SKUs deleted.
THEOREM OrdersWatched ==
    ASSUME ~Failures
    PROVE  Spec => []PendingOrderWatched
<1>1. Init => PendingOrderWatched
  BY DEF Init, StoreInit, PendingOrderWatched
<1>2. JobInv /\ PendingOrderWatched /\ [Next]_vars => PendingOrderWatched'
  <2> SUFFICES ASSUME JobInv, PendingOrderWatched, [Next]_vars, NEW o \in Orders,
                      orderStatus'[o] = "PENDING_PAYMENT", PaymentOf[o] \in Checkouts
               PROVE  (Watched(PaymentOf[o]) \/ BeyondJob(PaymentOf[o]))'
    BY DEF PendingOrderWatched
  <2>0. StatusInv
    BY DEF JobInv
  <2>1. CASE CommitOrder(PaymentOf[o])
    BY <2>0, <2>1, StatusFacts DEF CommitOrder, Goto, Watched
  <2>2. CASE orderStatus[o] = "PENDING_PAYMENT" /\ BeyondJob(PaymentOf[o])
    BY <2>0, <2>2, BeyondStays
  <2>3. CASE orderStatus[o] = "PENDING_PAYMENT" /\ ~BeyondJob(PaymentOf[o])
    <3>1. Watched(PaymentOf[o])
      BY <2>3 DEF PendingOrderWatched
    <3> QED
      BY <2>3, <3>1, JobKept
  <2> QED
    BY <2>0, <2>1, <2>2, <2>3, WaitingBefore
<1> QED
  BY <1>1, <1>2, JobInvariant, PTL DEF Spec

=============================================================================
