-------------------------- MODULE OrderSystemProofs --------------------------
(***************************************************************************)
(* Theorems about OrderSystem, for any number of users, SKUs, requests,     *)
(* transfers, failures and lock expiries.                                   *)
(***************************************************************************)
EXTENDS OrderSystem, FiniteSetTheorems, TLAPS

\* A transaction past its first SELECT has read a row for every cart item.
CartWasRead ==
    \A p \in Checkouts :
        checkoutPc[p] \in InTransaction =>
            \A i \in ItemsOf(p) : readCart[p][i] \in CartRow

TypeInv == TypeOK /\ CartWasRead

-----------------------------------------------------------------------------
\* The quantity of a SKU in a set of lines is a natural number.
LEMMA QuantityType ==
    ASSUME NEW lines \in SUBSET CartRow, NEW s
    PROVE  QuantityIn(lines, s) \in Nat
<1> DEFINE hits == {l \in lines : l.skuId = s}
<1>1. CASE hits = {}
  BY <1>1 DEF QuantityIn
<1>2. CASE hits # {}
  <2>1. (CHOOSE l \in hits : TRUE) \in hits
    BY <1>2
  <2>2. (CHOOSE l \in hits : TRUE) \in CartRow
    BY <2>1
  <2>3. QuantityIn(lines, s) = (CHOOSE l \in hits : TRUE).quantity
    BY <1>2 DEF QuantityIn
  <2> QED
    BY <2>2, <2>3 DEF CartRow
<1> QED
  BY <1>1, <1>2

\* What a set of lines takes from a SKU is in stock if every line is.
LEMMA QuantityInStock ==
    ASSUME NEW lines \in SUBSET CartRow, NEW s \in Skus,
           NEW f \in [Skus -> Nat],
           \A l \in lines : f[l.skuId] >= l.quantity
    PROVE  f[s] - QuantityIn(lines, s) \in Nat
<1> DEFINE hits == {l \in lines : l.skuId = s}
<1>1. CASE hits = {}
  BY <1>1 DEF QuantityIn
<1>2. CASE hits # {}
  <2>1. (CHOOSE l \in hits : TRUE) \in hits
    BY <1>2
  <2>2. PICK l \in hits : QuantityIn(lines, s) = l.quantity
    BY <1>2, <2>1 DEF QuantityIn
  <2>3. l \in CartRow /\ l.skuId = s /\ f[s] >= l.quantity
    OBVIOUS
  <2> QED
    BY <2>2, <2>3 DEF CartRow
<1> QED
  BY <1>1, <1>2

\* The number of orders of a body that use a coupon is a natural number.
LEMMA UsesType ==
    ASSUME NEW p \in Checkouts, NEW c
    PROVE  Uses(p, c) \in Nat
<1>1. IsFiniteSet({o \in OrdersOf(p) : CouponOf[o] = c})
  BY CheckoutAssumption, FS_Subset
<1> QED
  BY <1>1, FS_CardinalityType DEF Uses

LEMMA TouchType ==
    ASSUME NEW S, Touch(S), updatedAt \in [Skus -> Nat]
    PROVE  updatedAt' \in [Skus -> Nat]
BY DEF Touch

\* Returning lines keeps the SKU rows well-typed.
LEMMA ReturnStockType ==
    ASSUME NEW lines \in SUBSET CartRow, ReturnStock(lines),
           stock \in [Skus -> Nat], updatedAt \in [Skus -> Nat],
           deletedSkus \in SUBSET Skus
    PROVE  /\ stock' \in [Skus -> Nat]
           /\ updatedAt' \in [Skus -> Nat]
           /\ deletedSkus' \in SUBSET Skus
<1>1. \A s \in Skus : stock[s] + QuantityIn(lines, s) \in Nat
  BY QuantityType
<1> QED
  BY <1>1, TouchType DEF ReturnStock

\* Taking lines that are in stock leaves no stock negative.
LEMMA TakeStockType ==
    ASSUME NEW lines \in SUBSET CartRow, TakeStock(lines),
           stock \in [Skus -> Nat], updatedAt \in [Skus -> Nat],
           deletedSkus \in SUBSET Skus,
           \A l \in lines : stock[l.skuId] >= l.quantity
    PROVE  /\ stock' \in [Skus -> Nat]
           /\ updatedAt' \in [Skus -> Nat]
           /\ deletedSkus' \in SUBSET Skus
<1>1. \A s \in Skus : stock[s] - QuantityIn(lines, s) \in Nat
  BY QuantityInStock
<1> QED
  BY <1>1, TouchType DEF TakeStock

-----------------------------------------------------------------------------
EnvironmentStep ==
    \/ \E s \in Skus : /\ LockExpires(s)
                       /\ UNCHANGED <<purchaseVars, settlementVars, cartVars>>
    \/ \E s \in Skus : /\ PurchaseLockExpires(s)
                       /\ UNCHANGED <<checkoutVars, settlementVars, cartVars>>
    \/ \E l \in Launchpads : /\ EndLaunchpad(l)
                             /\ UNCHANGED <<checkoutVars, settlementVars, cartVars>>
    \/ \E s \in Skus : /\ DeleteSku(s)
                       /\ UNCHANGED <<checkoutVars, purchaseVars, cartVars>>

\* Who takes a step: a request, a job, or nobody.
LEMMA NextCases ==
    ASSUME Next
    PROVE  \/ \E p \in Checkouts :
                /\ CheckoutStep(p)
                /\ UNCHANGED <<purchaseVars, settlementVars, cartVars>>
           \/ \E p \in Purchases :
                /\ PurchaseStep(p)
                /\ UNCHANGED <<checkoutVars, settlementVars, cartVars>>
           \/ \E c \in Cancels :
                /\ CancelStep(c)
                /\ UNCHANGED <<checkoutVars, purchaseVars, cartVars>>
           \/ \E d \in Deliveries :
                /\ IpnStep(d)
                /\ UNCHANGED <<checkoutVars, purchaseVars, cartVars>>
           \/ \E p \in Payments :
                /\ JobStep(p)
                /\ UNCHANGED <<checkoutVars, purchaseVars, cartVars>>
           \/ \E e \in Edits :
                /\ CartStep(e)
                /\ UNCHANGED <<checkoutVars, purchaseVars, settlementVars>>
           \/ EnvironmentStep
BY Zenon DEF Next, CheckoutNext, PurchaseNext, SettlementNext, CartNext,
             EnvironmentStep

\* A request that finds as many items as it lists ids found every item named.
LEMMA AllItemsFound ==
    ASSUME NEW p \in Checkouts, AllFound(p)
    PROVE  FoundItems(p) = ItemsOf(p)
<1> DEFINE item == [b \in BodyIds(p) |-> b[2]]
<1>1. \A i \in ItemsOf(p) : \E b \in BodyIds(p) : item[b] = i
  <2> SUFFICES ASSUME NEW o \in OrdersOf(p), NEW i \in CartItemIdsOf[o]
               PROVE  \E b \in BodyIds(p) : item[b] = i
    BY DEF ItemsOf
  <2>1. <<o, i>> \in BodyIds(p)
    BY DEF BodyIds
  <2>2. item[<<o, i>>] = i
    BY <2>1
  <2> QED
    BY <2>1, <2>2
<1>2. item \in [BodyIds(p) -> ItemsOf(p)]
  BY DEF BodyIds, ItemsOf
<1>3. item \in Surjection(BodyIds(p), ItemsOf(p))
  BY <1>1, <1>2 DEF Surjection
<1>4. IsFiniteSet(BodyIds(p))
  BY CheckoutAssumption
<1> HIDE DEF item
<1>5. /\ IsFiniteSet(ItemsOf(p))
      /\ Cardinality(ItemsOf(p)) <= Cardinality(BodyIds(p))
  BY <1>3, <1>4, FS_Surjection
<1>6. FoundItems(p) \subseteq ItemsOf(p)
  BY DEF FoundItems
<1>7. /\ Cardinality(FoundItems(p)) <= Cardinality(ItemsOf(p))
      /\ Cardinality(FoundItems(p)) = Cardinality(ItemsOf(p))
            => FoundItems(p) = ItemsOf(p)
  BY <1>5, <1>6, FS_Subset
<1>8. Cardinality(FoundItems(p)) \in Nat /\ Cardinality(ItemsOf(p)) \in Nat
  BY <1>5, <1>6, FS_Subset, FS_CardinalityType
<1> QED
  BY <1>5, <1>7, <1>8 DEF AllFound

\* Every step of a checkout preserves the types.
LEMMA CheckoutType ==
    ASSUME TypeInv, NEW p \in Checkouts, CheckoutStep(p),
           UNCHANGED <<purchaseVars, settlementVars, cartVars>>
    PROVE  TypeInv'
<1> USE DEF TypeInv, TypeOK, StoreTypeOK, CheckoutTypeOK, PurchaseTypeOK,
            SettlementTypeOK, CartTypeOK, CartWasRead, storeVars, skuVars,
            orderVars, checkoutVars, purchaseVars, settlementVars, cartVars,
            CheckoutPc, InTransaction, Goto, Payments
<1>1. CASE FindCartItemsSkuIds(p)
  <2>1. SkusIn({cartItem[i] : i \in FoundItems(p)}) \in SUBSET Skus
    BY BodiesAssumption DEF SkusIn, FoundItems, ItemsOf, OrdersOf, CartRow
  <2> QED
    BY <1>1, <2>1 DEF FindCartItemsSkuIds
<1>2. CASE \E s \in Skus : AcquireLock(p, s)
  BY <1>2 DEF AcquireLock
<1>3. CASE Overloaded(p)
  BY <1>3 DEF Overloaded
<1>4. CASE FindCartItems(p)
  <2>1. CASE Duplicated(p) \/ ~AllFound(p)
    <3>1. /\ checkoutPc' = [checkoutPc EXCEPT ![p] = "releasing"]
          /\ UNCHANGED <<storeVars, foundSkuIds, acquired, readUpdatedAt, readCart>>
      BY <1>4, <2>1 DEF FindCartItems
    <3>2. CartWasRead'
      BY <3>1
    <3> QED
      BY <3>1, <3>2
  <2>2. CASE ~(Duplicated(p) \/ ~AllFound(p))
    <3>1. ItemsOf(p) \subseteq CartItems
      BY BodiesAssumption DEF ItemsOf, OrdersOf
    <3>2. \A i \in ItemsOf(p) : cartItem[i] \in CartRow
      BY <2>2, <3>1, AllItemsFound DEF FoundItems
    <3> DEFINE row == [i \in CartItems |->
                            IF i \in ItemsOf(p) THEN cartItem[i] ELSE Absent]
    <3>3. row \in [CartItems -> CartRow \cup {Absent}]
      OBVIOUS
    <3>4. /\ readCart' = [readCart EXCEPT ![p] = row]
          /\ checkoutPc' = [checkoutPc EXCEPT ![p] = "findSkus"]
          /\ UNCHANGED <<storeVars, foundSkuIds, acquired, readUpdatedAt>>
      BY <1>4, <2>2 DEF FindCartItems
    <3>5. readCart' \in [Checkouts -> [CartItems -> CartRow \cup {Absent}]]
      BY <3>3, <3>4
    <3>6. CartWasRead'
      BY <3>1, <3>2, <3>4
    <3> QED
      BY <3>4, <3>5, <3>6
  <2> QED
    BY <2>1, <2>2
<1>5. CASE FindCartItemSkus(p)
  <2>1. CASE InStock(p)
    <3> DEFINE seen == [s \in Skus |->
                            IF s \in SkusIn(Wanted(p)) THEN updatedAt[s] ELSE 0]
    <3>1. seen \in [Skus -> Nat]
      OBVIOUS
    <3>2. /\ readUpdatedAt' = [readUpdatedAt EXCEPT ![p] = seen]
          /\ checkoutPc' = [checkoutPc EXCEPT ![p] = "findCoupons"]
          /\ checkoutPc[p] = "findSkus"
          /\ UNCHANGED <<storeVars, foundSkuIds, acquired, readCart>>
      BY <1>5, <2>1 DEF FindCartItemSkus
    <3>3. readUpdatedAt' \in [Checkouts -> [Skus -> Nat]]
      BY <3>1, <3>2
    <3> QED
      BY <3>2, <3>3
  <2>2. CASE ~InStock(p)
    <3>1. /\ checkoutPc' = [checkoutPc EXCEPT ![p] = "releasing"]
          /\ UNCHANGED <<storeVars, foundSkuIds, acquired, readUpdatedAt, readCart>>
      BY <1>5, <2>2 DEF FindCartItemSkus
    <3>2. CartWasRead'
      BY <3>1
    <3> QED
      BY <3>1, <3>2
  <2> QED
    BY <2>1, <2>2
<1>6. CASE FindSkusAndCoupons(p)
  BY <1>6 DEF FindSkusAndCoupons
<1>7. CASE CommitOrder(p)
  <2>1. Wanted(p) \in SUBSET CartRow
    BY <1>7 DEF Wanted, CommitOrder
  <2>2. \A o \in OrdersOf(p) : OrderLines(p, o) \in SUBSET CartRow
    BY <1>7 DEF OrderLines, CommitOrder, ItemsOf
  <2>3. /\ stock' \in [Skus -> Nat]
        /\ updatedAt' \in [Skus -> Nat]
        /\ deletedSkus' \in SUBSET Skus
    BY <1>7, <2>1, TakeStockType DEF CommitOrder, Writable, InStock
  <2>4. couponQuantity' \in [Coupons -> Nat]
    <3>1. \A c \in Coupons : couponQuantity[c] - Uses(p, c) \in Nat
      BY <1>7, UsesType DEF CommitOrder, Writable, CouponsLeft
    <3> QED
      BY <1>7, <3>1 DEF CommitOrder
  <2>5. orderItems' \in [Orders -> SUBSET CartRow]
    BY <1>7, <2>2 DEF CommitOrder
  <2>6. /\ cartItem' \in [CartItems -> CartRow \cup {Absent}]
        /\ paymentStatus' \in [Payments -> PaymentStatus \cup {"none"}]
        /\ orderStatus' \in [Orders -> OrderStatus \cup {"none"}]
    BY <1>7 DEF CommitOrder, PaymentStatus, OrderStatus
  <2> QED
    BY <1>7, <2>3, <2>4, <2>5, <2>6 DEF CommitOrder
<1>8. CASE WriteConflict(p)
  BY <1>8 DEF WriteConflict
<1>9. CASE AbortOrder(p)
  BY <1>9 DEF AbortOrder
<1>10. CASE AddJobCancelPayment(p)
  BY <1>10 DEF AddJobCancelPayment
<1>11. CASE AddJobFails(p)
  BY <1>11 DEF AddJobFails
<1>12. CASE ReleaseLocks(p)
  BY <1>12 DEF ReleaseLocks
<1>13. CASE CrashCheckout(p)
  BY <1>13 DEF CrashCheckout
<1> QED
  BY <1>1, <1>2, <1>3, <1>4, <1>5, <1>6, <1>7, <1>8, <1>9, <1>10, <1>11,
     <1>12, <1>13 DEF CheckoutStep

\* Every step of a launchpad purchase preserves the types.
LEMMA PurchaseType ==
    ASSUME TypeInv, NEW p \in Purchases, PurchaseStep(p),
           UNCHANGED <<checkoutVars, settlementVars, cartVars>>
    PROVE  TypeInv'
<1> USE DEF TypeInv, TypeOK, StoreTypeOK, CheckoutTypeOK, PurchaseTypeOK,
            SettlementTypeOK, CartTypeOK, CartWasRead, storeVars, skuVars,
            orderVars, checkoutVars, purchaseVars, settlementVars, cartVars,
            PurchasePc, Proceed, Payments
<1> USE PurchaseAssumption
<1>0. CASE FindByIdLive(p)
  BY <1>0 DEF FindByIdLive
<1>1. CASE FindLaunchpadSku(p)
  <2>1. updatedAt[SkuOf[p]] \in Nat
    OBVIOUS
  <2>2. purchaseRead' \in [Purchases -> Nat]
    <3>1. \/ purchaseRead' = [purchaseRead EXCEPT ![p] = updatedAt[SkuOf[p]]]
          \/ purchaseRead' = purchaseRead
      BY <1>1 DEF FindLaunchpadSku
    <3> QED
      BY <2>1, <3>1
  <2>3. purchasePc' \in [Purchases -> PurchasePc]
    <3>1. \/ purchasePc' = [purchasePc EXCEPT ![p] = "count"]
          \/ purchasePc' = [purchasePc EXCEPT ![p] = "done"]
      BY <1>1 DEF FindLaunchpadSku
    <3> QED
      BY <3>1
  <2> QED
    BY <1>1, <2>2, <2>3 DEF FindLaunchpadSku
<1>2. CASE CountUserPurchases(p)
  BY <1>2 DEF CountUserPurchases
<1>9. CASE LimitLockTaken(p)
  BY <1>9 DEF LimitLockTaken
<1>3. CASE AcquireSkuLock(p)
  BY <1>3 DEF AcquireSkuLock
<1>4. CASE SkuLockTaken(p)
  BY <1>4 DEF SkuLockTaken
<1>5. CASE CommitPurchase(p)
  <2> DEFINE line == [skuId |-> SkuOf[p], quantity |-> 1]
  <2>1. line \in CartRow
    BY DEF CartRow
  <2>2. /\ stock' \in [Skus -> Nat]
        /\ updatedAt' \in [Skus -> Nat]
        /\ deletedSkus' \in SUBSET Skus
    <3>1. {line} \in SUBSET CartRow /\ TakeStock({line})
      BY <1>5, <2>1 DEF CommitPurchase
    <3>2. \A l \in {line} : stock[l.skuId] >= l.quantity
      BY <1>5 DEF CommitPurchase, Sellable
    <3> HIDE DEF line
    <3> QED
      BY <3>1, <3>2, TakeStockType
  <2>3. orderItems' \in [Orders -> SUBSET CartRow]
    BY <1>5, <2>1 DEF CommitPurchase
  <2>4. /\ paymentStatus' \in [Payments -> PaymentStatus \cup {"none"}]
        /\ orderStatus' \in [Orders -> OrderStatus \cup {"none"}]
    BY <1>5 DEF CommitPurchase, PaymentStatus, OrderStatus
  <2> QED
    BY <1>5, <2>2, <2>3, <2>4 DEF CommitPurchase
<1>6. CASE AbortPurchase(p)
  BY <1>6 DEF AbortPurchase
<1>7. CASE ReleaseSkuLock(p)
  BY <1>7 DEF ReleaseSkuLock
<1>8. CASE CrashPurchase(p)
  BY <1>8 DEF CrashPurchase
<1> QED
  BY <1>0, <1>9, <1>1, <1>2, <1>3, <1>4, <1>5, <1>6, <1>7, <1>8 DEF PurchaseStep

\* Every step of cancelOrder preserves the types.
LEMMA CancelType ==
    ASSUME TypeInv, NEW c \in Cancels, CancelStep(c),
           UNCHANGED <<checkoutVars, purchaseVars, cartVars>>
    PROVE  TypeInv'
<1> USE DEF TypeInv, TypeOK, StoreTypeOK, CheckoutTypeOK, PurchaseTypeOK,
            SettlementTypeOK, CartTypeOK, CartWasRead, storeVars, skuVars,
            orderVars, checkoutVars, purchaseVars, settlementVars, cartVars,
            Elsewhere
<1> USE SettlementAssumption
<1>1. CASE ReadOrder(c)
  BY <1>1 DEF ReadOrder
<1>2. CASE CommitCancel(c)
  <2> DEFINE o == CancelTarget[c]
  <2>1. o \in Orders /\ PaymentOf[o] \in Payments /\ orderItems[o] \in SUBSET CartRow
    BY BodiesAssumption
  <2>2. /\ stock' \in [Skus -> Nat]
        /\ updatedAt' \in [Skus -> Nat]
        /\ deletedSkus' \in SUBSET Skus
    BY <1>2, <2>1, ReturnStockType DEF CommitCancel
  <2>3. /\ paymentStatus' \in [Payments -> PaymentStatus \cup {"none"}]
        /\ orderStatus' \in [Orders -> OrderStatus \cup {"none"}]
    BY <1>2, <2>1 DEF CommitCancel, PaymentStatus, OrderStatus
  <2> QED
    BY <1>2, <2>2, <2>3 DEF CommitCancel, CouponsWith
<1>3. CASE AbortCancel(c)
  BY <1>3 DEF AbortCancel
<1> QED
  BY <1>1, <1>2, <1>3 DEF CancelStep

\* Every step of a gateway's call preserves the types.
LEMMA IpnType ==
    ASSUME TypeInv, NEW d \in Deliveries, IpnStep(d),
           UNCHANGED <<checkoutVars, purchaseVars, cartVars>>
    PROVE  TypeInv'
<1> USE DEF TypeInv, TypeOK, StoreTypeOK, CheckoutTypeOK, PurchaseTypeOK,
            SettlementTypeOK, CartTypeOK, CartWasRead, storeVars, skuVars,
            orderVars, checkoutVars, purchaseVars, settlementVars, cartVars,
            Elsewhere
<1> USE SettlementAssumption
<1>1. CASE FindTransaction(d)
  BY <1>1 DEF FindTransaction
<1>2. CASE CommitPayment(d)
  <2>1. PaidFor[d] \in Payments /\ TxnOf[d] \in Txns
    OBVIOUS
  <2>2. /\ paymentStatus' \in [Payments -> PaymentStatus \cup {"none"}]
        /\ orderStatus' \in [Orders -> OrderStatus \cup {"none"}]
    BY <1>2, <2>1 DEF CommitPayment, PaymentStatus, OrderStatus
  <2> QED
    BY <1>2, <2>1, <2>2 DEF CommitPayment
<1>3. CASE AbortPayment(d)
  BY <1>3 DEF AbortPayment
<1>4. CASE RemoveJob(d)
  BY <1>4 DEF RemoveJob
<1>5. CASE RemoveJobFails(d)
  BY <1>5 DEF RemoveJobFails
<1> QED
  BY <1>1, <1>2, <1>3, <1>4, <1>5 DEF IpnStep

\* Every step of the cancel-payment job preserves the types.
LEMMA JobType ==
    ASSUME TypeInv, NEW p \in Payments, JobStep(p),
           UNCHANGED <<checkoutVars, purchaseVars, cartVars>>
    PROVE  TypeInv'
<1> USE DEF TypeInv, TypeOK, StoreTypeOK, CheckoutTypeOK, PurchaseTypeOK,
            SettlementTypeOK, CartTypeOK, CartWasRead, storeVars, skuVars,
            orderVars, checkoutVars, purchaseVars, settlementVars, cartVars,
            Elsewhere, SetJob
<1>1. CASE StartJob(p)
  BY <1>1 DEF StartJob
<1>2. CASE CommitJob(p)
  <2>1. LinesOf(p) \in SUBSET CartRow
    BY DEF LinesOf, OrdersOf
  <2>2. /\ stock' \in [Skus -> Nat]
        /\ updatedAt' \in [Skus -> Nat]
        /\ deletedSkus' \in SUBSET Skus
    BY <1>2, <2>1, ReturnStockType DEF CommitJob
  <2>3. /\ paymentStatus' \in [Payments -> PaymentStatus \cup {"none"}]
        /\ orderStatus' \in [Orders -> OrderStatus \cup {"none"}]
    BY <1>2 DEF CommitJob, PaymentStatus, OrderStatus
  <2> QED
    BY <1>2, <2>2, <2>3 DEF CommitJob
<1>3. CASE FailJob(p)
  BY <1>3 DEF FailJob
<1>4. CASE CompleteJob(p)
  BY <1>4 DEF CompleteJob
<1>5. CASE StallJob(p)
  BY <1>5 DEF StallJob
<1> QED
  BY <1>1, <1>2, <1>3, <1>4, <1>5 DEF JobStep

\* A cart row stays one when its quantity grows.
LEMMA GrownRow ==
    ASSUME NEW r \in CartRow, NEW n \in Nat
    PROVE  [r EXCEPT !.quantity = @ + n] \in CartRow
BY DEF CartRow

\* Every edit of a cart preserves the types.
LEMMA CartType ==
    ASSUME TypeInv, NEW e \in Edits, CartStep(e),
           UNCHANGED <<checkoutVars, purchaseVars, settlementVars>>
    PROVE  TypeInv'
<1> USE DEF TypeInv, TypeOK, StoreTypeOK, CheckoutTypeOK, PurchaseTypeOK,
            SettlementTypeOK, CartTypeOK, CartWasRead, storeVars, skuVars,
            orderVars, checkoutVars, purchaseVars, settlementVars, cartVars
<1> USE EditAssumption DEF EditBody
<1>1. CASE ValidateSku(e)
  BY <1>1 DEF ValidateSku
<1>2. CASE AddToCart(e)
  <2>1. \A i \in RowFor(OwnerOf[EditOf[e].item], EditOf[e].skuId) :
            [cartItem[i] EXCEPT !.quantity = @ + EditOf[e].quantity] \in CartRow
    <3> SUFFICES ASSUME NEW i \in RowFor(OwnerOf[EditOf[e].item], EditOf[e].skuId)
                 PROVE  [cartItem[i] EXCEPT !.quantity = @ + EditOf[e].quantity]
                            \in CartRow
      OBVIOUS
    <3>1. EditOf[e].quantity \in Nat
      OBVIOUS
    <3>2. i \in CartItems /\ cartItem[i] # Absent
      BY DEF RowFor
    <3>3. cartItem[i] \in CartRow
      BY <3>2
    <3> QED
      BY <3>1, <3>3, GrownRow
  <2>2. [skuId |-> EditOf[e].skuId, quantity |-> EditOf[e].quantity] \in CartRow
    BY DEF CartRow
  <2> QED
    BY <1>2, <2>1, <2>2 DEF AddToCart, WriteCart
<1>3. CASE UpdateCart(e)
  <2>1. [skuId |-> EditOf[e].skuId, quantity |-> EditOf[e].quantity] \in CartRow
    BY DEF CartRow
  <2> QED
    BY <1>3, <2>1 DEF UpdateCart, WriteCart
<1>4. CASE DeleteCart(e)
  BY <1>4 DEF DeleteCart, WriteCart
<1> QED
  BY <1>1, <1>2, <1>3, <1>4 DEF CartStep

\* Steps of no request: TTLs, the end of a launchpad, the deletion of a SKU.
LEMMA EnvironmentType ==
    ASSUME TypeInv, EnvironmentStep
    PROVE  TypeInv'
<1> USE DEF TypeInv, TypeOK, StoreTypeOK, CheckoutTypeOK, PurchaseTypeOK,
            SettlementTypeOK, CartTypeOK, CartWasRead, storeVars, skuVars,
            orderVars, checkoutVars, purchaseVars, settlementVars, cartVars
<1>1. ASSUME NEW s \in Skus, LockExpires(s),
             UNCHANGED <<purchaseVars, settlementVars, cartVars>>
      PROVE  TypeInv'
  BY <1>1 DEF LockExpires
<1>2. ASSUME NEW s \in Skus, PurchaseLockExpires(s),
             UNCHANGED <<checkoutVars, settlementVars, cartVars>>
      PROVE  TypeInv'
  BY <1>2 DEF PurchaseLockExpires
<1>3. ASSUME NEW l \in Launchpads, EndLaunchpad(l),
             UNCHANGED <<checkoutVars, settlementVars, cartVars>>
      PROVE  TypeInv'
  BY <1>3 DEF EndLaunchpad
<1>4. ASSUME NEW s \in Skus, DeleteSku(s),
             UNCHANGED <<checkoutVars, purchaseVars, cartVars>>
      PROVE  TypeInv'
  BY <1>4, SettlementAssumption, TouchType DEF DeleteSku, Elsewhere
<1> QED
  BY <1>1, <1>2, <1>3, <1>4 DEF EnvironmentStep

\* The initial state is well-typed.
LEMMA InitType == Init => TypeInv
BY InitialAssumption
   DEF Init, StoreInit, CheckoutInit, PurchaseInit, SettlementInit, CartInit,
       TypeInv, TypeOK, StoreTypeOK, CheckoutTypeOK, PurchaseTypeOK,
       SettlementTypeOK, CartTypeOK, CartWasRead, CheckoutPc, InTransaction,
       PurchasePc

\* Every step of the system preserves the types.
LEMMA TypeStep == TypeInv /\ [Next]_vars => TypeInv'
<1> SUFFICES ASSUME TypeInv, [Next]_vars
             PROVE  TypeInv'
  OBVIOUS
<1>1. CASE UNCHANGED vars
  BY <1>1 DEF vars, TypeInv, TypeOK, StoreTypeOK, CheckoutTypeOK, PurchaseTypeOK,
              SettlementTypeOK, CartTypeOK, CartWasRead, storeVars, checkoutVars,
              purchaseVars, settlementVars, cartVars
<1>2. CASE Next
  BY <1>2, NextCases, CheckoutType, PurchaseType, CancelType, IpnType, JobType,
     CartType, EnvironmentType
<1> QED
  BY <1>1, <1>2

\* Every table, lock, job and request record keeps its type; in particular no
\* stock and no coupon quantity becomes negative, however many checkouts,
\* purchases and cancellations race and however many locks expire.
THEOREM TypeCorrect == Spec => []TypeOK
<1>1. TypeInv => TypeOK
  BY DEF TypeInv
<1> QED
  BY <1>1, InitType, TypeStep, PTL DEF Spec

-----------------------------------------------------------------------------
(***************************************************************************)
(* Statuses.  PaymentOrderAgreement is not inductive: that a checkout        *)
(* inserts a fresh payment follows from where its request is, and that a     *)
(* cancellation concerns an order that exists from what it has read.         *)
(***************************************************************************)

PlacedLater ==
    /\ \A p \in Checkouts :
        checkoutPc[p] \in {"start", "locking", "overloaded"} \cup InTransaction
            => paymentStatus[p] = "none"
    /\ \A p \in Purchases :
        purchasePc[p] \in {"start", "findSku", "count", "lock", "write"}
            => paymentStatus[p] = "none"

CancelSeen == \A o \in Cancelling : o \in Orders /\ orderStatus[o] # "none"

StatusInv == TypeInv /\ PaymentOrderAgreement /\ PlacedLater /\ CancelSeen

\* The action inside OnlyRacingCancelUndoesPayment.
UndoneByCancel ==
    \A p \in Payments :
        paymentStatus[p] = "SUCCESS" /\ paymentStatus'[p] # "SUCCESS" =>
            \E c \in Cancels : PaymentOf[CancelTarget[c]] = p
                               /\ cancelPc[c] = "read" /\ cancelPc'[c] = "done"

Quiet == UNCHANGED <<paymentStatus, orderStatus, Cancelling>>

LifecycleStep == Lifecycle!LifecycleNext \/ Quiet

\* A step that writes no status and moves no cancellation is quiet.
LEMMA QuietStep ==
    ASSUME UNCHANGED <<paymentStatus, orderStatus, cancelPc>>
    PROVE  Quiet /\ UndoneByCancel
BY DEF Quiet, Cancelling, UndoneByCancel

\* A payment is inserted with its orders.
LEMMA PlaceStep ==
    ASSUME TypeInv, NEW p \in Payments, paymentStatus[p] = "none",
           paymentStatus' = [paymentStatus EXCEPT ![p] = "PENDING"],
           orderStatus' = [o \in Orders |->
                IF o \in OrdersOf(p) THEN "PENDING_PAYMENT" ELSE orderStatus[o]],
           UNCHANGED cancelPc
    PROVE  Lifecycle!Place(p) /\ UndoneByCancel
<1> USE DEF TypeInv, TypeOK, StoreTypeOK
<1>1. UNCHANGED Cancelling
  BY DEF Cancelling
<1>2. Lifecycle!MoveAll(p, "PENDING_PAYMENT")
  BY DEF Lifecycle!MoveAll, OrdersOf
<1>3. \A q \in Payments : paymentStatus[q] = "SUCCESS" => paymentStatus'[q] = "SUCCESS"
  OBVIOUS
<1> QED
  BY <1>1, <1>2, <1>3 DEF Lifecycle!Place, UndoneByCancel

\* A checkout only ever places its payment.
LEMMA CheckoutStatus ==
    ASSUME StatusInv, NEW p \in Checkouts, CheckoutStep(p),
           UNCHANGED <<purchaseVars, settlementVars, cartVars>>
    PROVE  LifecycleStep /\ UndoneByCancel /\ PlacedLater'
<1> USE DEF storeVars, skuVars, orderVars, checkoutVars, purchaseVars,
            settlementVars, cartVars, Goto, InTransaction
<1>0. checkoutPc \in [Checkouts -> CheckoutPc] /\ p \in Payments
  BY DEF StatusInv, TypeInv, TypeOK, CheckoutTypeOK, Payments
<1>1. CASE CommitOrder(p)
  <2>1. paymentStatus[p] = "none"
    BY <1>1 DEF StatusInv, PlacedLater, CommitOrder
  <2>2. Lifecycle!Place(p) /\ UndoneByCancel
    BY <1>0, <1>1, <2>1, PlaceStep DEF StatusInv, CommitOrder
  <2>3. PlacedLater'
    <3>1. paymentStatus \in [Payments -> PaymentStatus \cup {"none"}]
      BY DEF StatusInv, TypeInv, TypeOK, StoreTypeOK
    <3>2. p \notin Purchases
      BY RequestsAssumption
    <3> QED
      BY <1>0, <1>1, <3>1, <3>2 DEF StatusInv, PlacedLater, CommitOrder, Payments
  <2> QED
    BY <1>0, <2>2, <2>3 DEF LifecycleStep, Lifecycle!LifecycleNext
<1>2. CASE ~CommitOrder(p)
  <2>1. UNCHANGED <<paymentStatus, orderStatus, cancelPc, purchasePc>>
    BY <1>2 DEF CheckoutStep, FindCartItemsSkuIds, AcquireLock, Overloaded,
        FindCartItems, FindCartItemSkus, FindSkusAndCoupons, WriteConflict,
        AbortOrder, AddJobCancelPayment, AddJobFails, ReleaseLocks, CrashCheckout
  <2>2. \/ checkoutPc' = checkoutPc
        \/ /\ checkoutPc[p] \in {"start", "locking", "overloaded"} \cup InTransaction
           /\ \E l \in CheckoutPc : checkoutPc' = [checkoutPc EXCEPT ![p] = l]
        \/ \E l \in {"releasing", "done"} : checkoutPc' = [checkoutPc EXCEPT ![p] = l]
    BY <1>2 DEF CheckoutStep, FindCartItemsSkuIds, AcquireLock, Overloaded,
        FindCartItems, FindCartItemSkus, FindSkusAndCoupons, WriteConflict,
        AbortOrder, AddJobCancelPayment, AddJobFails, ReleaseLocks, CrashCheckout,
        CheckoutPc
  <2>3. PlacedLater'
    BY <1>0, <2>1, <2>2 DEF StatusInv, PlacedLater
  <2> QED
    BY <2>1, <2>3, QuietStep DEF LifecycleStep
<1> QED
  BY <1>1, <1>2

\* A launchpad purchase only ever places its payment.
LEMMA PurchaseStatus ==
    ASSUME StatusInv, NEW p \in Purchases, PurchaseStep(p),
           UNCHANGED <<checkoutVars, settlementVars, cartVars>>
    PROVE  LifecycleStep /\ UndoneByCancel /\ PlacedLater'
<1> USE DEF storeVars, skuVars, orderVars, checkoutVars, purchaseVars,
            settlementVars, cartVars, Proceed
<1>0. purchasePc \in [Purchases -> PurchasePc] /\ p \in Payments
  BY DEF StatusInv, TypeInv, TypeOK, PurchaseTypeOK, Payments
<1>1. CASE CommitPurchase(p)
  <2>1. paymentStatus[p] = "none"
    BY <1>1 DEF StatusInv, PlacedLater, CommitPurchase
  <2>2. Lifecycle!Place(p) /\ UndoneByCancel
    BY <1>0, <1>1, <2>1, PlaceStep DEF StatusInv, CommitPurchase
  <2>3. PlacedLater'
    <3>1. paymentStatus \in [Payments -> PaymentStatus \cup {"none"}]
      BY DEF StatusInv, TypeInv, TypeOK, StoreTypeOK
    <3>2. p \notin Checkouts
      BY RequestsAssumption
    <3> QED
      BY <1>0, <1>1, <3>1, <3>2 DEF StatusInv, PlacedLater, CommitPurchase, Payments
  <2> QED
    BY <1>0, <2>2, <2>3 DEF LifecycleStep, Lifecycle!LifecycleNext
<1>2. CASE ~CommitPurchase(p)
  <2>1. UNCHANGED <<paymentStatus, orderStatus, cancelPc, checkoutPc>>
    BY <1>2 DEF PurchaseStep, FindByIdLive, FindLaunchpadSku,
        CountUserPurchases, LimitLockTaken, AcquireSkuLock,
        SkuLockTaken, AbortPurchase, ReleaseSkuLock, CrashPurchase
  <2>2. \/ /\ purchasePc[p] \in {"start", "findSku", "count", "lock", "write"}
           /\ \E l \in PurchasePc : purchasePc' = [purchasePc EXCEPT ![p] = l]
        \/ \E l \in {"releasing", "done"} : purchasePc' = [purchasePc EXCEPT ![p] = l]
    BY <1>2 DEF PurchaseStep, FindByIdLive, FindLaunchpadSku,
        CountUserPurchases, LimitLockTaken, AcquireSkuLock,
        SkuLockTaken, AbortPurchase, ReleaseSkuLock, CrashPurchase, PurchasePc
  <2>3. PlacedLater'
    BY <1>0, <2>1, <2>2 DEF StatusInv, PlacedLater
  <2> QED
    BY <2>1, <2>3, QuietStep DEF LifecycleStep
<1> QED
  BY <1>1, <1>2

\* A payment that exists may change its status: the requests that have not
\* placed theirs yet do not notice.
LEMMA StillPlacedLater ==
    ASSUME StatusInv, NEW q \in Payments, NEW status, paymentStatus[q] # "none",
           paymentStatus' = [paymentStatus EXCEPT ![q] = status],
           UNCHANGED <<checkoutPc, purchasePc>>
    PROVE  PlacedLater'
<1>1. paymentStatus \in [Payments -> PaymentStatus \cup {"none"}]
  BY DEF StatusInv, TypeInv, TypeOK, StoreTypeOK
<1> QED
  BY <1>1 DEF StatusInv, PlacedLater, Payments

\* cancelOrder admits, drops or carries out a cancellation.
LEMMA CancelStatus ==
    ASSUME StatusInv, NEW c \in Cancels, CancelStep(c),
           UNCHANGED <<checkoutVars, purchaseVars, cartVars>>
    PROVE  LifecycleStep /\ UndoneByCancel /\ PlacedLater'
<1> USE SettlementAssumption
    DEF storeVars, skuVars, orderVars, checkoutVars, purchaseVars, cartVars
<1> DEFINE o == CancelTarget[c]
<1>0. /\ cancelPc \in [Cancels -> {"start", "read", "done"}]
      /\ o \in Orders
      /\ PaymentOf[o] \in Payments
      /\ paymentStatus \in [Payments -> PaymentStatus \cup {"none"}]
  BY BodiesAssumption
     DEF StatusInv, TypeInv, TypeOK, SettlementTypeOK, StoreTypeOK
<1>1. CASE ReadOrder(c)
  <2>1. UNCHANGED <<paymentStatus, orderStatus, checkoutPc, purchasePc>>
    BY <1>1 DEF ReadOrder
  <2>2. UndoneByCancel /\ PlacedLater'
    BY <2>1 DEF UndoneByCancel, StatusInv, PlacedLater
  <2>3. CASE orderStatus[o] = "PENDING_PAYMENT"
    <3>1. cancelPc' = [cancelPc EXCEPT ![c] = "read"]
      BY <1>1, <2>3 DEF ReadOrder
    <3>2. Cancelling' = Cancelling \cup {o}
      BY <1>0, <1>1, <3>1 DEF Cancelling, ReadOrder
    <3>3. Lifecycle!AdmitCancel(o)
      BY <2>1, <2>3, <3>2 DEF Lifecycle!AdmitCancel
    <3> QED
      BY <1>0, <2>2, <3>3 DEF LifecycleStep, Lifecycle!LifecycleNext
  <2>4. CASE orderStatus[o] # "PENDING_PAYMENT"
    <3>1. cancelPc' = [cancelPc EXCEPT ![c] = "done"] /\ cancelPc[c] = "start"
      BY <1>1, <2>4 DEF ReadOrder
    <3>2. Cancelling' = Cancelling
      BY <1>0, <3>1 DEF Cancelling
    <3> QED
      BY <2>1, <2>2, <3>2 DEF LifecycleStep, Quiet
  <2> QED
    BY <2>3, <2>4
<1>2. ASSUME cancelPc[c] = "read", cancelPc' = [cancelPc EXCEPT ![c] = "done"]
      PROVE  o \in Cancelling /\ Cancelling' \in {Cancelling, Cancelling \ {o}}
  <2>1. o \in Cancelling
    BY <1>2 DEF Cancelling
  <2>2. CASE \E k \in Cancels : k # c /\ cancelPc[k] = "read" /\ CancelTarget[k] = o
    <3>1. Cancelling' = Cancelling
      BY <1>0, <1>2, <2>2 DEF Cancelling
    <3> QED
      BY <2>1, <3>1
  <2>3. CASE ~\E k \in Cancels : k # c /\ cancelPc[k] = "read" /\ CancelTarget[k] = o
    <3>1. Cancelling' = Cancelling \ {o}
      BY <1>0, <1>2, <2>3 DEF Cancelling
    <3> QED
      BY <2>1, <3>1
  <2> QED
    BY <2>2, <2>3
<1>3. CASE CommitCancel(c)
  <2>1. /\ cancelPc[c] = "read"
        /\ cancelPc' = [cancelPc EXCEPT ![c] = "done"]
        /\ orderStatus' = [orderStatus EXCEPT ![o] = "CANCELLED"]
        /\ paymentStatus' = [paymentStatus EXCEPT ![PaymentOf[o]] = "FAILED"]
        /\ UNCHANGED <<checkoutPc, purchasePc>>
    BY <1>3 DEF CommitCancel
  <2>2. Lifecycle!Cancel(o)
    BY <1>2, <2>1 DEF Lifecycle!Cancel
  <2>3. UndoneByCancel
    <3>1. cancelPc'[c] = "done"
      BY <1>0, <2>1
    <3>2. \A q \in Payments : q # PaymentOf[o] => paymentStatus'[q] = paymentStatus[q]
      BY <1>0, <2>1
    <3> QED
      BY <2>1, <3>1, <3>2 DEF UndoneByCancel
  <2>4. paymentStatus[PaymentOf[o]] # "none"
    BY <1>0, <1>2, <2>1 DEF StatusInv, CancelSeen, PaymentOrderAgreement
  <2>5. PlacedLater'
    BY <1>0, <2>1, <2>4, StillPlacedLater
  <2> QED
    BY <1>0, <2>2, <2>3, <2>5 DEF LifecycleStep, Lifecycle!LifecycleNext
<1>4. CASE AbortCancel(c)
  <2>1. /\ cancelPc[c] = "read"
        /\ cancelPc' = [cancelPc EXCEPT ![c] = "done"]
        /\ UNCHANGED <<paymentStatus, orderStatus, checkoutPc, purchasePc>>
    BY <1>4 DEF AbortCancel
  <2>2. UndoneByCancel /\ PlacedLater'
    BY <2>1 DEF UndoneByCancel, StatusInv, PlacedLater
  <2>3. CASE Cancelling' = Cancelling
    BY <2>1, <2>2, <2>3 DEF LifecycleStep, Quiet
  <2>4. CASE Cancelling' = Cancelling \ {o}
    <3>1. Lifecycle!DropCancel(o)
      BY <1>2, <2>1, <2>4 DEF Lifecycle!DropCancel
    <3> QED
      BY <1>0, <2>2, <3>1 DEF LifecycleStep, Lifecycle!LifecycleNext
  <2> QED
    BY <1>2, <2>1, <2>3, <2>4
<1> QED
  BY <1>1, <1>3, <1>4 DEF CancelStep

\* A recorded transfer pays a payment and all its orders at once.
LEMMA IpnStatus ==
    ASSUME StatusInv, NEW d \in Deliveries, IpnStep(d),
           UNCHANGED <<checkoutVars, purchaseVars, cartVars>>
    PROVE  LifecycleStep /\ UndoneByCancel /\ PlacedLater'
<1> USE SettlementAssumption
    DEF storeVars, skuVars, orderVars, checkoutVars, purchaseVars, cartVars
<1> DEFINE p == PaidFor[d]
<1>0. p \in Payments /\ paymentStatus \in [Payments -> PaymentStatus \cup {"none"}]
  BY DEF StatusInv, TypeInv, TypeOK, StoreTypeOK
<1>1. CASE CommitPayment(d)
  <2>1. /\ paymentStatus[p] # "none"
        /\ paymentStatus' = [paymentStatus EXCEPT ![p] = "SUCCESS"]
        /\ orderStatus' = [o \in Orders |->
                IF o \in OrdersOf(p) THEN "PENDING_PICKUP" ELSE orderStatus[o]]
        /\ UNCHANGED <<cancelPc, checkoutPc, purchasePc>>
    BY <1>1 DEF CommitPayment, Payable, PaidOrders
  <2>2. UNCHANGED Cancelling
    BY <2>1 DEF Cancelling
  <2>3. Lifecycle!MoveAll(p, "PENDING_PICKUP")
    BY <2>1 DEF Lifecycle!MoveAll, OrdersOf
  <2>4. Lifecycle!Pay(p)
    BY <2>1, <2>2, <2>3 DEF Lifecycle!Pay
  <2>5. \A q \in Payments : paymentStatus[q] = "SUCCESS" => paymentStatus'[q] = "SUCCESS"
    BY <1>0, <2>1
  <2>6. PlacedLater'
    BY <1>0, <2>1, StillPlacedLater
  <2> QED
    BY <1>0, <2>4, <2>5, <2>6
       DEF LifecycleStep, Lifecycle!LifecycleNext, UndoneByCancel
<1>2. CASE ~CommitPayment(d)
  <2>1. UNCHANGED <<paymentStatus, orderStatus, cancelPc, checkoutPc, purchasePc>>
    BY <1>2 DEF IpnStep, FindTransaction, AbortPayment, RemoveJob, RemoveJobFails
  <2>2. PlacedLater'
    BY <2>1 DEF StatusInv, PlacedLater
  <2> QED
    BY <2>1, <2>2, QuietStep DEF LifecycleStep
<1> QED
  BY <1>1, <1>2

\* The job expires a payment only while it is PENDING, with all its orders.
LEMMA JobStatus ==
    ASSUME StatusInv, NEW p \in Payments, JobStep(p),
           UNCHANGED <<checkoutVars, purchaseVars, cartVars>>
    PROVE  LifecycleStep /\ UndoneByCancel /\ PlacedLater'
<1> USE DEF storeVars, skuVars, orderVars, checkoutVars, purchaseVars, cartVars,
            settlementVars
<1>0. /\ paymentStatus \in [Payments -> PaymentStatus \cup {"none"}]
      /\ orderStatus \in [Orders -> OrderStatus \cup {"none"}]
  BY DEF StatusInv, TypeInv, TypeOK, StoreTypeOK
<1>1. CASE CommitJob(p)
  <2>1. /\ paymentStatus[p] = "PENDING"
        /\ paymentStatus' = [paymentStatus EXCEPT ![p] = "FAILED"]
        /\ orderStatus' = [o \in Orders |->
                IF o \in OrdersOf(p) /\ orderStatus[o] = "PENDING_PAYMENT"
                THEN "CANCELLED" ELSE orderStatus[o]]
        /\ UNCHANGED <<cancelPc, checkoutPc, purchasePc>>
    BY <1>1 DEF CommitJob, Expirable
  <2>2. UNCHANGED Cancelling
    BY <2>1 DEF Cancelling
  <2>3. \A o \in OrdersOf(p) : orderStatus[o] = "PENDING_PAYMENT"
    BY <2>1 DEF StatusInv, PaymentOrderAgreement, OrdersOf
  <2>4. Lifecycle!MoveAll(p, "CANCELLED")
    BY <2>1, <2>3 DEF Lifecycle!MoveAll, OrdersOf
  <2>5. Lifecycle!Expire(p)
    BY <2>1, <2>2, <2>4 DEF Lifecycle!Expire
  <2>6. \A q \in Payments : paymentStatus[q] = "SUCCESS" => paymentStatus'[q] = "SUCCESS"
    BY <1>0, <2>1
  <2>7. PlacedLater'
    BY <2>1, StillPlacedLater
  <2> QED
    BY <2>5, <2>6, <2>7 DEF LifecycleStep, Lifecycle!LifecycleNext, UndoneByCancel
<1>2. CASE ~CommitJob(p)
  <2>1. UNCHANGED <<paymentStatus, orderStatus, cancelPc, checkoutPc, purchasePc>>
    BY <1>2 DEF JobStep, StartJob, FailJob, CompleteJob, StallJob
  <2>2. PlacedLater'
    BY <2>1 DEF StatusInv, PlacedLater
  <2> QED
    BY <2>1, <2>2, QuietStep DEF LifecycleStep
<1> QED
  BY <1>1, <1>2

\* Carts, TTLs, launchpads and deleted SKUs touch no status.
LEMMA OtherStatus ==
    ASSUME StatusInv,
           \/ EnvironmentStep
           \/ \E e \in Edits :
                /\ CartStep(e)
                /\ UNCHANGED <<checkoutVars, purchaseVars, settlementVars>>
    PROVE  LifecycleStep /\ UndoneByCancel /\ PlacedLater'
<1>1. UNCHANGED <<paymentStatus, orderStatus, cancelPc, checkoutPc, purchasePc>>
  BY DEF EnvironmentStep, LockExpires, PurchaseLockExpires, EndLaunchpad,
         DeleteSku, CartStep, ValidateSku, AddToCart, UpdateCart, DeleteCart,
         WriteCart, storeVars, skuVars, orderVars, checkoutVars, purchaseVars,
         settlementVars, cartVars
<1>2. PlacedLater'
  BY <1>1 DEF StatusInv, PlacedLater
<1> QED
  BY <1>1, <1>2, QuietStep DEF LifecycleStep

\* Every step of the system is a step of the abstract lifecycle, or none.
LEMMA StatusStep ==
    ASSUME StatusInv, [Next]_vars
    PROVE  LifecycleStep /\ UndoneByCancel /\ PlacedLater'
<1>1. CASE UNCHANGED vars
  <2>1. UNCHANGED <<paymentStatus, orderStatus, cancelPc, checkoutPc, purchasePc>>
    BY <1>1 DEF vars, storeVars, checkoutVars, purchaseVars, settlementVars
  <2>2. PlacedLater'
    BY <2>1 DEF StatusInv, PlacedLater
  <2> QED
    BY <2>1, <2>2, QuietStep DEF LifecycleStep
<1>2. CASE Next
  BY <1>2, NextCases, CheckoutStatus, PurchaseStatus, CancelStatus, IpnStatus,
     JobStatus, OtherStatus
<1> QED
  BY <1>1, <1>2

\* The steps of the abstract lifecycle keep payments and orders in agreement.
LEMMA AgreementStep ==
    ASSUME StatusInv, TypeInv', LifecycleStep
    PROVE  PaymentOrderAgreement' /\ CancelSeen'
<1> USE BodiesAssumption DEF PaymentOrderAgreement, CancelSeen
<1>0. /\ paymentStatus \in [Payments -> PaymentStatus \cup {"none"}]
      /\ orderStatus \in [Orders -> OrderStatus \cup {"none"}]
      /\ PaymentOrderAgreement
      /\ CancelSeen
  BY DEF StatusInv, TypeInv, TypeOK, StoreTypeOK
<1>1. ASSUME NEW p \in Payments, Lifecycle!Place(p)
      PROVE  PaymentOrderAgreement' /\ CancelSeen'
  BY <1>0, <1>1 DEF Lifecycle!Place, Lifecycle!MoveAll
<1>2. ASSUME NEW p \in Payments, Lifecycle!Pay(p)
      PROVE  PaymentOrderAgreement' /\ CancelSeen'
  BY <1>0, <1>2 DEF Lifecycle!Pay, Lifecycle!MoveAll
<1>3. ASSUME NEW p \in Payments, Lifecycle!Expire(p)
      PROVE  PaymentOrderAgreement' /\ CancelSeen'
  BY <1>0, <1>3 DEF Lifecycle!Expire, Lifecycle!MoveAll
<1>4. ASSUME NEW o \in Orders, Lifecycle!AdmitCancel(o)
      PROVE  PaymentOrderAgreement' /\ CancelSeen'
  BY <1>0, <1>4 DEF Lifecycle!AdmitCancel
<1>5. ASSUME NEW o \in Orders, Lifecycle!Cancel(o)
      PROVE  PaymentOrderAgreement' /\ CancelSeen'
  BY <1>0, <1>5 DEF Lifecycle!Cancel
<1>6. ASSUME NEW o \in Orders, Lifecycle!DropCancel(o)
      PROVE  PaymentOrderAgreement' /\ CancelSeen'
  BY <1>0, <1>6 DEF Lifecycle!DropCancel
<1>7. CASE Quiet
  BY <1>0, <1>7 DEF Quiet
<1> QED
  BY <1>1, <1>2, <1>3, <1>4, <1>5, <1>6, <1>7
     DEF LifecycleStep, Lifecycle!LifecycleNext

LEMMA StatusInvariant == Spec => []StatusInv
<1>1. Init => StatusInv
  <2> SUFFICES ASSUME Init PROVE StatusInv
    OBVIOUS
  <2>1. TypeInv
    BY InitType
  <2>2. Cancelling = {}
    BY DEF Cancelling, Init, SettlementInit
  <2> QED
    BY <2>1, <2>2, BodiesAssumption
       DEF Init, StoreInit, StatusInv, PaymentOrderAgreement, PlacedLater,
           CancelSeen, Payments
<1>2. StatusInv /\ [Next]_vars => StatusInv'
  <2> SUFFICES ASSUME StatusInv, [Next]_vars PROVE StatusInv'
    OBVIOUS
  <2>1. TypeInv'
    BY TypeStep DEF StatusInv
  <2> QED
    BY <2>1, StatusStep, AgreementStep DEF StatusInv
<1> QED
  BY <1>1, <1>2, PTL DEF Spec

\* Cancels, transfers and the expiry job each move a payment together with its
\* orders, whatever they find: a PENDING payment never has a cancelled order,
\* a paid one never has an order that is not to be picked up.
THEOREM Agreement == Spec => []PaymentOrderAgreement
<1>1. StatusInv => PaymentOrderAgreement
  BY DEF StatusInv
<1> QED
  BY <1>1, StatusInvariant, PTL

\* No handler but a cancelOrder that read the order before the transfer takes
\* a payment back; the expiry job, run late or twice, never does.
THEOREM PaymentUndoneOnlyByRacingCancel == Spec => OnlyRacingCancelUndoesPayment
<1>1. StatusInv /\ [Next]_vars => UndoneByCancel
  BY StatusStep
<1>2. StatusInv /\ [Next]_vars => [UndoneByCancel]_vars
  BY <1>1
<1> QED
  BY <1>2, StatusInvariant, PTL
     DEF Spec, OnlyRacingCancelUndoesPayment, UndoneByCancel

\* Checkout, purchase, cancelOrder, the IPN handlers and the expiry job, with
\* all their steps, crashes and retries, implement the one-step lifecycle.
THEOREM Refinement == Spec => ImplementsLifecycle
<1>1. Init => Lifecycle!LifecycleInit
  BY DEF Init, StoreInit, SettlementInit, Cancelling, Lifecycle!LifecycleInit
<1>2. StatusInv /\ [Next]_vars => [Lifecycle!LifecycleNext]_(Lifecycle!lifecycleVars)
  BY StatusStep DEF LifecycleStep, Quiet, Lifecycle!lifecycleVars
<1> QED
  BY <1>1, <1>2, StatusInvariant, PTL
     DEF Spec, ImplementsLifecycle, Lifecycle!LifecycleSpec

-----------------------------------------------------------------------------
(***************************************************************************)
(* Sales.  A count by Cardinality needs the recorded transfers to be         *)
(* finitely many, which holds because each step records at most one.         *)
(***************************************************************************)

Recorded == {t \in Txns : transactionOf[t] # NoPayment}

PaidFrom(l) == {t \in Txns : transactionOf[t] # NoPayment
                             /\ l \in LaunchpadsOf(transactionOf[t])}

SalesInv == TypeInv /\ SoldCountMatchesTransactions /\ IsFiniteSet(Recorded)

\* Only a recorded transfer touches soldCount and PaymentTransaction.
LEMMA SalesFrame ==
    ASSUME [Next]_vars, \A d \in Deliveries : ~CommitPayment(d)
    PROVE  UNCHANGED <<transactionOf, soldCount>>
<1> USE DEF storeVars, checkoutVars, purchaseVars, settlementVars, cartVars,
            skuVars, orderVars, Elsewhere
<1>1. CASE UNCHANGED vars
  BY <1>1 DEF vars
<1>2. CASE Next
  <2>1. ASSUME NEW p \in Checkouts, CheckoutStep(p)
        PROVE  UNCHANGED <<transactionOf, soldCount>>
    BY <2>1 DEF CheckoutStep, FindCartItemsSkuIds, AcquireLock, Overloaded,
        FindCartItems, FindCartItemSkus, FindSkusAndCoupons, CommitOrder,
        WriteConflict, AbortOrder, AddJobCancelPayment, AddJobFails,
        ReleaseLocks, CrashCheckout
  <2>2. ASSUME NEW p \in Purchases, PurchaseStep(p)
        PROVE  UNCHANGED <<transactionOf, soldCount>>
    BY <2>2 DEF PurchaseStep, FindByIdLive, FindLaunchpadSku,
        CountUserPurchases, LimitLockTaken, AcquireSkuLock,
        SkuLockTaken, CommitPurchase, AbortPurchase, ReleaseSkuLock, CrashPurchase
  <2>3. ASSUME NEW c \in Cancels, CancelStep(c)
        PROVE  UNCHANGED <<transactionOf, soldCount>>
    BY <2>3 DEF CancelStep, ReadOrder, CommitCancel, AbortCancel
  <2>4. ASSUME NEW d \in Deliveries, IpnStep(d)
        PROVE  UNCHANGED <<transactionOf, soldCount>>
    BY <2>4 DEF IpnStep, FindTransaction, AbortPayment, RemoveJob, RemoveJobFails
  <2>5. ASSUME NEW p \in Payments, JobStep(p)
        PROVE  UNCHANGED <<transactionOf, soldCount>>
    BY <2>5 DEF JobStep, StartJob, CommitJob, FailJob, CompleteJob, StallJob
  <2>6. ASSUME NEW e \in Edits, CartStep(e)
        PROVE  UNCHANGED <<transactionOf, soldCount>>
    BY <2>6 DEF CartStep, ValidateSku, AddToCart, UpdateCart, DeleteCart, WriteCart
  <2>7. ASSUME EnvironmentStep
        PROVE  UNCHANGED <<transactionOf, soldCount>>
    BY <2>7 DEF EnvironmentStep, LockExpires, PurchaseLockExpires, EndLaunchpad,
        DeleteSku
  <2> QED
    BY <1>2, <2>1, <2>2, <2>3, <2>4, <2>5, <2>6, <2>7, NextCases
<1> QED
  BY <1>1, <1>2

\* A transfer adds one to the launchpads it pays for, and is new.
LEMMA SalesStep ==
    ASSUME SalesInv, TypeInv', NEW d \in Deliveries, CommitPayment(d)
    PROVE  SalesInv'
<1> USE SettlementAssumption
<1> DEFINE t == TxnOf[d]
           p == PaidFor[d]
<1>1. /\ t \in Txns
      /\ p \in Payments
      /\ transactionOf \in [Txns -> Payments \cup {NoPayment}]
      /\ soldCount \in [Launchpads -> Nat]
      /\ transactionOf[t] = NoPayment
      /\ transactionOf' = [transactionOf EXCEPT ![t] = p]
      /\ soldCount' = [l \in Launchpads |->
                IF l \in LaunchpadsOf(p) THEN soldCount[l] + 1 ELSE soldCount[l]]
      /\ p # NoPayment
  BY RequestsAssumption
     DEF SalesInv, TypeInv, TypeOK, StoreTypeOK, CommitPayment, Payable
<1>2. Recorded' = Recorded \cup {t}
  BY <1>1 DEF Recorded
<1>3. IsFiniteSet(Recorded')
  BY <1>2, FS_AddElement DEF SalesInv
<1>4. ASSUME NEW l \in Launchpads
      PROVE  soldCount'[l] = Cardinality(PaidFrom(l)')
  <2>1. IsFiniteSet(PaidFrom(l))
    <3>1. PaidFrom(l) \subseteq Recorded
      BY DEF PaidFrom, Recorded
    <3> QED
      BY <3>1, FS_Subset DEF SalesInv
  <2>2. soldCount[l] = Cardinality(PaidFrom(l)) /\ t \notin PaidFrom(l)
    BY <1>1 DEF SalesInv, SoldCountMatchesTransactions, PaidFrom
  <2>3. CASE l \in LaunchpadsOf(p)
    <3>1. PaidFrom(l)' = PaidFrom(l) \cup {t}
      BY <1>1, <2>3 DEF PaidFrom, LaunchpadsOf
    <3>2. Cardinality(PaidFrom(l) \cup {t}) = Cardinality(PaidFrom(l)) + 1
      BY <2>1, <2>2, FS_AddElement
    <3> QED
      BY <1>1, <2>2, <2>3, <3>1, <3>2
  <2>4. CASE l \notin LaunchpadsOf(p)
    <3>1. PaidFrom(l)' = PaidFrom(l)
      BY <1>1, <2>4 DEF PaidFrom, LaunchpadsOf
    <3> QED
      BY <1>1, <2>2, <2>4, <3>1
  <2> QED
    BY <2>3, <2>4
<1> QED
  BY <1>3, <1>4 DEF SalesInv, SoldCountMatchesTransactions, PaidFrom

\* However often and however concurrently the gateways deliver a transfer, a
\* launchpad's soldCount is the number of distinct transfers recorded for it.
THEOREM SalesCounted == Spec => []SoldCountMatchesTransactions
<1>1. Init => SalesInv
  <2> SUFFICES ASSUME Init PROVE SalesInv
    OBVIOUS
  <2>1. Recorded = {} /\ \A l \in Launchpads : PaidFrom(l) = {} /\ soldCount[l] = 0
    BY DEF Init, StoreInit, Recorded, PaidFrom
  <2> QED
    BY <2>1, InitType, FS_EmptySet DEF SalesInv, SoldCountMatchesTransactions, PaidFrom
<1>2. SalesInv /\ [Next]_vars => SalesInv'
  <2> SUFFICES ASSUME SalesInv, [Next]_vars PROVE SalesInv'
    OBVIOUS
  <2>1. TypeInv'
    BY TypeStep DEF SalesInv
  <2>2. CASE \E d \in Deliveries : CommitPayment(d)
    BY <2>1, <2>2, SalesStep
  <2>3. CASE \A d \in Deliveries : ~CommitPayment(d)
    <3>1. UNCHANGED <<transactionOf, soldCount>>
      BY <2>3, SalesFrame
    <3>2. Recorded' = Recorded
      BY <3>1 DEF Recorded
    <3>3. SoldCountMatchesTransactions'
      BY <3>1 DEF SalesInv, SoldCountMatchesTransactions, LaunchpadsOf
    <3> QED
      BY <2>1, <3>2, <3>3 DEF SalesInv
  <2> QED
    BY <2>2, <2>3
<1>3. SalesInv => SoldCountMatchesTransactions
  BY DEF SalesInv
<1> QED
  BY <1>1, <1>2, <1>3, PTL DEF Spec

=============================================================================
