----------------------------- MODULE StockProofs -----------------------------
(***************************************************************************)
(* What orders hold: no SKU twice in a payment, no unit of stock lost, none *)
(* invented outside two races, and a coupon spent once for every order, its *)
(* units lost or doubled in three known ways only; for any number of users, *)
(* SKUs, requests, transfers, failures and expiries.                        *)
(***************************************************************************)
EXTENDS OrderSystemProofs

\* Only the five commits write stock, statuses, lines or coupons.
LEMMA CommitCases ==
    ASSUME [Next]_vars
    PROVE  \/ \E p \in Checkouts :
                /\ CommitOrder(p)
                /\ UNCHANGED <<purchaseVars, settlementVars, cartVars>>
           \/ \E p \in Purchases :
                /\ CommitPurchase(p)
                /\ UNCHANGED <<checkoutVars, settlementVars, cartVars>>
           \/ \E c \in Cancels :
                /\ CommitCancel(c)
                /\ UNCHANGED <<checkoutVars, purchaseVars, cartVars>>
           \/ \E d \in Deliveries :
                /\ CommitPayment(d)
                /\ UNCHANGED <<checkoutVars, purchaseVars, cartVars>>
           \/ \E p \in Payments :
                /\ CommitJob(p)
                /\ UNCHANGED <<checkoutVars, purchaseVars, cartVars>>
           \/ UNCHANGED <<stock, orderStatus, orderItems, couponQuantity>>
<1> USE DEF storeVars, checkoutVars, purchaseVars, settlementVars, cartVars,
            skuVars, orderVars, Elsewhere
<1> DEFINE same == UNCHANGED <<stock, orderStatus, orderItems, couponQuantity>>
<1>1. CASE UNCHANGED vars
  BY <1>1 DEF vars
<1>2. CASE Next
  <2>1. ASSUME NEW p \in Checkouts, CheckoutStep(p), ~CommitOrder(p)
        PROVE  same
    BY <2>1 DEF CheckoutStep, FindCartItemsSkuIds, AcquireLock, Overloaded,
        FindCartItems, FindCartItemSkus, FindSkusAndCoupons, WriteConflict,
        AbortOrder, AddJobCancelPayment, AddJobFails, ReleaseLocks, CrashCheckout
  <2>2. ASSUME NEW p \in Purchases, PurchaseStep(p), ~CommitPurchase(p)
        PROVE  same
    BY <2>2 DEF PurchaseStep, FindByIdLive, FindLaunchpadSku,
        CountUserPurchases, LimitLockTaken, AcquireSkuLock,
        SkuLockTaken, AbortPurchase, ReleaseSkuLock, CrashPurchase
  <2>3. ASSUME NEW c \in Cancels, CancelStep(c), ~CommitCancel(c)
        PROVE  same
    BY <2>3 DEF CancelStep, ReadOrder, AbortCancel
  <2>4. ASSUME NEW d \in Deliveries, IpnStep(d), ~CommitPayment(d)
        PROVE  same
    BY <2>4 DEF IpnStep, FindTransaction, AbortPayment, RemoveJob, RemoveJobFails
  <2>5. ASSUME NEW p \in Payments, JobStep(p), ~CommitJob(p)
        PROVE  same
    BY <2>5 DEF JobStep, StartJob, FailJob, CompleteJob, StallJob
  <2>6. ASSUME NEW e \in Edits, CartStep(e)
        PROVE  same
    BY <2>6 DEF CartStep, ValidateSku, AddToCart, UpdateCart, DeleteCart, WriteCart
  <2>7. ASSUME EnvironmentStep
        PROVE  same
    BY <2>7 DEF EnvironmentStep, LockExpires, PurchaseLockExpires, EndLaunchpad,
        DeleteSku
  <2> HIDE DEF same
  <2> QED
    BY <1>2, <2>1, <2>2, <2>3, <2>4, <2>5, <2>6, <2>7, NextCases, Zenon DEF same
<1> QED
  BY <1>1, <1>2

-----------------------------------------------------------------------------
(***************************************************************************)
(* NoSkuTwiceInPayment follows from the unique index on the cart, as it was *)
(* when a transaction read it, and from the duplicate check.                *)
(***************************************************************************)

ReadUnique ==
    \A p \in Checkouts :
        checkoutPc[p] \in InTransaction =>
            /\ ~Duplicated(p)
            /\ \A i, j \in ItemsOf(p) :
                readCart[p][i].skuId = readCart[p][j].skuId => i = j

CartInv == UniqueInCart(cartItem) /\ ReadUnique /\ NoSkuTwiceInPayment

\* An edit keeps the cart unique in (userId, skuId).
LEMMA EditUnique ==
    ASSUME TypeInv, CartInv, NEW e \in Edits, CartStep(e)
    PROVE  UniqueInCart(cartItem')
<1> DEFINE b == EditOf[e]
<1> USE DEF CartInv, UniqueInCart
<1>0. /\ cartItem \in [CartItems -> CartRow \cup {Absent}]
      /\ b \in EditBody
      /\ b.item \in CartItems /\ b.skuId \in Skus /\ b.quantity \in Nat
      /\ Absent \notin CartRow
  BY EditAssumption, RequestsAssumption DEF TypeInv, TypeOK, StoreTypeOK, EditBody
<1>1. CASE ValidateSku(e)
  BY <1>1 DEF ValidateSku, storeVars
<1>2. CASE AddToCart(e)
  <2> DEFINE found == RowFor(OwnerOf[b.item], b.skuId)
  <2>1. cartItem' = [i \in CartItems |->
                IF i \in found
                THEN [cartItem[i] EXCEPT !.quantity = @ + b.quantity]
                ELSE IF found = {} /\ i = b.item
                THEN [skuId |-> b.skuId, quantity |-> b.quantity]
                ELSE cartItem[i]]
    BY <1>2 DEF AddToCart, WriteCart
  <2>2. \A i \in found : /\ cartItem[i] \in CartRow
                         /\ cartItem'[i].skuId = cartItem[i].skuId
    BY <1>0, <2>1 DEF RowFor, CartRow
  <2>3. CASE found = {}
    <3>1. cartItem' = [cartItem EXCEPT ![b.item] =
                            [skuId |-> b.skuId, quantity |-> b.quantity]]
      BY <1>0, <2>1, <2>3
    <3>2. \A i \in CartItems : OwnerOf[i] = OwnerOf[b.item] /\ cartItem[i] # Absent
                                => cartItem[i].skuId # b.skuId
      BY <2>3 DEF RowFor
    <3>3. cartItem'[b.item].skuId = b.skuId
      BY <1>0, <3>1
    <3>4. \A i \in CartItems : i # b.item => cartItem'[i] = cartItem[i]
      BY <1>0, <3>1
    <3> QED
      BY <3>2, <3>3, <3>4
  <2>4. CASE found # {}
    <3>1. \A i \in CartItems \ found : cartItem'[i] = cartItem[i]
      BY <2>1, <2>4
    <3>2. \A i \in CartItems : cartItem'[i] # Absent =>
                cartItem[i] # Absent /\ cartItem'[i].skuId = cartItem[i].skuId
      BY <1>0, <2>2, <3>1
    <3> QED
      BY <3>2
  <2> QED
    BY <2>3, <2>4
<1>3. CASE UpdateCart(e)
  <2>1. CASE b.quantity = 0 \/ RowFor(OwnerOf[b.item], b.skuId) \ {b.item} # {}
             \/ cartItem[b.item] = Absent
    BY <1>0, <1>3, <2>1 DEF UpdateCart, WriteCart, SkuTaken
  <2>2. CASE ~(b.quantity = 0 \/ RowFor(OwnerOf[b.item], b.skuId) \ {b.item} # {}
               \/ cartItem[b.item] = Absent)
    <3>1. cartItem' = [cartItem EXCEPT ![b.item] =
                            [skuId |-> b.skuId, quantity |-> b.quantity]]
      BY <1>3, <2>2 DEF UpdateCart, WriteCart, SkuTaken
    <3>2. \A i \in CartItems \ {b.item} :
                OwnerOf[i] = OwnerOf[b.item] /\ cartItem[i] # Absent
                    => cartItem[i].skuId # b.skuId
      BY <2>2 DEF RowFor
    <3>3. cartItem'[b.item].skuId = b.skuId
      BY <1>0, <3>1
    <3>4. \A i \in CartItems : i # b.item => cartItem'[i] = cartItem[i]
      BY <1>0, <3>1
    <3> QED
      BY <3>2, <3>3, <3>4
  <2> QED
    BY <2>1, <2>2
<1>4. CASE DeleteCart(e)
  BY <1>0, <1>4 DEF DeleteCart, WriteCart
<1> QED
  BY <1>1, <1>2, <1>3, <1>4 DEF CartStep

\* A checkout keeps the cart unique, and reads it so.
LEMMA CheckoutUnique ==
    ASSUME TypeInv, CartInv, NEW p \in Checkouts, CheckoutStep(p)
    PROVE  UniqueInCart(cartItem') /\ ReadUnique'
<1> USE DEF storeVars, skuVars, orderVars, Goto
<1>0. /\ cartItem \in [CartItems -> CartRow \cup {Absent}]
      /\ checkoutPc \in [Checkouts -> CheckoutPc]
      /\ readCart \in [Checkouts -> [CartItems -> CartRow \cup {Absent}]]
  BY DEF TypeInv, TypeOK, StoreTypeOK, CheckoutTypeOK
<1>1. CASE FindCartItems(p) /\ checkoutPc' = [checkoutPc EXCEPT ![p] = "findSkus"]
  <2>1. ItemsOf(p) \subseteq CartItems
    BY BodiesAssumption DEF ItemsOf, OrdersOf
  <2>2. checkoutPc'[p] = "findSkus"
    BY <1>0, <1>1
  <2>3. /\ ~Duplicated(p)
        /\ FoundItems(p) = ItemsOf(p)
        /\ readCart' = [readCart EXCEPT ![p] = [i \in CartItems |->
                IF i \in ItemsOf(p) THEN cartItem[i] ELSE Absent]]
        /\ UNCHANGED cartItem
    BY <1>0, <1>1, <2>2, AllItemsFound DEF FindCartItems
  <2>4. \A i \in ItemsOf(p) : readCart'[p][i] = cartItem[i]
    BY <1>0, <2>1, <2>3
  <2>5. \A i, j \in ItemsOf(p) : readCart'[p][i].skuId = readCart'[p][j].skuId => i = j
    BY <2>1, <2>3, <2>4 DEF CartInv, UniqueInCart, FoundItems
  <2>6. \A q \in Checkouts \ {p} :
            readCart'[q] = readCart[q] /\ checkoutPc'[q] = checkoutPc[q]
    BY <1>0, <1>1, <2>3
  <2>7. UniqueInCart(cartItem')
    BY <2>3 DEF CartInv
  <2>8. ReadUnique'
    <3> SUFFICES ASSUME NEW q \in Checkouts, checkoutPc'[q] \in InTransaction
                 PROVE  /\ ~Duplicated(q)
                        /\ \A i, j \in ItemsOf(q) :
                            readCart'[q][i].skuId = readCart'[q][j].skuId => i = j
      BY DEF ReadUnique, Duplicated
    <3>1. CASE q = p
      BY <2>3, <2>5, <3>1
    <3>2. CASE q # p
      BY <2>6, <3>2 DEF CartInv, ReadUnique
    <3> QED
      BY <3>1, <3>2
  <2> QED
    BY <2>7, <2>8
<1>2. CASE ~(FindCartItems(p) /\ checkoutPc' = [checkoutPc EXCEPT ![p] = "findSkus"])
  <2>1. UNCHANGED readCart
    <3>1. CASE FindCartItems(p)
      BY <1>2, <3>1 DEF FindCartItems
    <3>2. CASE ~FindCartItems(p)
      BY <3>2 DEF CheckoutStep, FindCartItemsSkuIds, AcquireLock, Overloaded,
          FindCartItemSkus, FindSkusAndCoupons, CommitOrder, WriteConflict,
          AbortOrder, AddJobCancelPayment, AddJobFails, ReleaseLocks,
          CrashCheckout
    <3> QED
      BY <3>1, <3>2
  <2>2. \A q \in Checkouts : checkoutPc'[q] \in InTransaction
                                => checkoutPc[q] \in InTransaction
    BY <1>0, <1>2 DEF CheckoutStep, FindCartItemsSkuIds, AcquireLock, Overloaded,
        FindCartItems, FindCartItemSkus, FindSkusAndCoupons, CommitOrder,
        WriteConflict, AbortOrder, AddJobCancelPayment, AddJobFails,
        ReleaseLocks, CrashCheckout, InTransaction
  <2>3. cartItem' = cartItem \/ cartItem' = [i \in CartItems |->
            IF i \in ItemsOf(p) THEN Absent ELSE cartItem[i]]
    BY DEF CheckoutStep, FindCartItemsSkuIds, AcquireLock, Overloaded,
        FindCartItems, FindCartItemSkus, FindSkusAndCoupons, CommitOrder,
        WriteConflict, AbortOrder, AddJobCancelPayment, AddJobFails,
        ReleaseLocks, CrashCheckout
  <2>4. UniqueInCart(cartItem')
    BY <2>3 DEF CartInv, UniqueInCart
  <2> QED
    BY <2>1, <2>2, <2>4 DEF CartInv, ReadUnique, Duplicated
<1> QED
  BY <1>1, <1>2

\* The orders a checkout inserts share no SKU.
LEMMA CommitOrderUnique ==
    ASSUME TypeInv, CartInv, NEW p \in Checkouts, CommitOrder(p)
    PROVE  NoSkuTwiceInPayment'
<1>1. /\ ~Duplicated(p)
      /\ \A i, j \in ItemsOf(p) :
                readCart[p][i].skuId = readCart[p][j].skuId => i = j
  BY DEF CommitOrder, CartInv, ReadUnique, InTransaction
<1>2. orderItems' = [o \in Orders |->
            IF o \in OrdersOf(p) THEN OrderLines(p, o) ELSE orderItems[o]]
  BY DEF CommitOrder
<1> SUFFICES ASSUME NEW o1 \in Orders, NEW o2 \in Orders,
                    PaymentOf[o1] = PaymentOf[o2],
                    NEW l1 \in orderItems'[o1], NEW l2 \in orderItems'[o2],
                    l1.skuId = l2.skuId
             PROVE  o1 = o2 /\ l1 = l2
  BY DEF NoSkuTwiceInPayment
<1>3. CASE PaymentOf[o1] = p
  <2>1. o1 \in OrdersOf(p) /\ o2 \in OrdersOf(p)
    BY <1>3 DEF OrdersOf
  <2>2. PICK i1 \in CartItemIdsOf[o1] : l1 = readCart[p][i1]
    BY <1>2, <2>1 DEF OrderLines
  <2>3. PICK i2 \in CartItemIdsOf[o2] : l2 = readCart[p][i2]
    BY <1>2, <2>1 DEF OrderLines
  <2>4. i1 \in ItemsOf(p) /\ i2 \in ItemsOf(p)
    BY <2>1, <2>2, <2>3 DEF ItemsOf
  <2>5. i1 = i2
    BY <1>1, <2>2, <2>3, <2>4
  <2> QED
    BY <1>1, <2>1, <2>2, <2>3, <2>5 DEF Duplicated
<1>4. CASE PaymentOf[o1] # p
  BY <1>2, <1>4 DEF OrdersOf, CartInv, NoSkuTwiceInPayment
<1> QED
  BY <1>3, <1>4

\* A purchase inserts one order of one line.
LEMMA CommitPurchaseUnique ==
    ASSUME CartInv, NEW p \in Purchases, CommitPurchase(p)
    PROVE  NoSkuTwiceInPayment'
<1> DEFINE line == [skuId |-> SkuOf[p], quantity |-> 1]
<1>1. PICK o \in Orders : OrdersOf(p) = {o}
  BY PurchaseAssumption
<1>2. orderItems' = [q \in Orders |-> IF q \in OrdersOf(p) THEN {line} ELSE orderItems[q]]
  BY DEF CommitPurchase
<1> QED
  BY <1>1, <1>2 DEF CartInv, NoSkuTwiceInPayment, OrdersOf

LEMMA CartInvariant == Spec => [](StatusInv /\ CartInv)
<1>1. Init => CartInv
  BY InitialAssumption DEF Init, StoreInit, CheckoutInit, CartInv, ReadUnique,
     NoSkuTwiceInPayment, InTransaction
<1>2. TypeInv /\ CartInv /\ [Next]_vars => CartInv'
  <2> SUFFICES ASSUME TypeInv, CartInv, [Next]_vars PROVE CartInv'
    OBVIOUS
  <2>1. NoSkuTwiceInPayment'
    <3>1. ASSUME UNCHANGED orderItems PROVE NoSkuTwiceInPayment'
      BY <3>1 DEF CartInv, NoSkuTwiceInPayment
    <3> QED
      BY <3>1, CommitCases, CommitOrderUnique, CommitPurchaseUnique
         DEF CommitCancel, CommitPayment, CommitJob
  <2>2. UniqueInCart(cartItem') /\ ReadUnique'
    <3>1. ASSUME UNCHANGED <<cartItem, readCart, checkoutPc>>
          PROVE  UniqueInCart(cartItem') /\ ReadUnique'
      BY <3>1 DEF CartInv, UniqueInCart, ReadUnique, Duplicated
    <3>2. CASE UNCHANGED vars
      BY <3>1, <3>2 DEF vars, storeVars, checkoutVars
    <3>3. CASE Next
      <4> USE DEF storeVars, checkoutVars, purchaseVars, settlementVars, cartVars,
                  skuVars, orderVars, Elsewhere
      <4>1. ASSUME NEW p \in Purchases, PurchaseStep(p), UNCHANGED checkoutVars
            PROVE  UNCHANGED <<cartItem, readCart, checkoutPc>>
        BY <4>1 DEF PurchaseStep, FindByIdLive, FindLaunchpadSku,
        CountUserPurchases, LimitLockTaken, AcquireSkuLock,
            SkuLockTaken, CommitPurchase, AbortPurchase, ReleaseSkuLock, CrashPurchase
      <4>2. ASSUME NEW c \in Cancels, CancelStep(c), UNCHANGED checkoutVars
            PROVE  UNCHANGED <<cartItem, readCart, checkoutPc>>
        BY <4>2 DEF CancelStep, ReadOrder, CommitCancel, AbortCancel
      <4>3. ASSUME NEW d \in Deliveries, IpnStep(d), UNCHANGED checkoutVars
            PROVE  UNCHANGED <<cartItem, readCart, checkoutPc>>
        BY <4>3 DEF IpnStep, FindTransaction, CommitPayment, AbortPayment,
            RemoveJob, RemoveJobFails
      <4>4. ASSUME NEW p \in Payments, JobStep(p), UNCHANGED checkoutVars
            PROVE  UNCHANGED <<cartItem, readCart, checkoutPc>>
        BY <4>4 DEF JobStep, StartJob, CommitJob, FailJob, CompleteJob, StallJob
      <4>5. ASSUME EnvironmentStep
            PROVE  UNCHANGED <<cartItem, readCart, checkoutPc>>
        BY <4>5 DEF EnvironmentStep, LockExpires, PurchaseLockExpires,
            EndLaunchpad, DeleteSku
      <4>6. ASSUME NEW e \in Edits, CartStep(e), UNCHANGED checkoutVars
            PROVE  UniqueInCart(cartItem') /\ ReadUnique'
        BY <4>6, EditUnique DEF CartInv, ReadUnique, Duplicated
      <4> QED
        BY <3>1, <3>3, <4>1, <4>2, <4>3, <4>4, <4>5, <4>6, NextCases, CheckoutUnique
    <3> QED
      BY <3>2, <3>3
  <2> QED
    BY <2>1, <2>2 DEF CartInv, UniqueInCart
<1>3. StatusInv => TypeInv
  BY DEF StatusInv
<1> QED
  BY <1>1, <1>2, <1>3, StatusInvariant, PTL DEF Spec

\* Bodies may list an item twice, carts may be edited while checkouts run: the
\* orders of one payment never name a SKU twice.
THEOREM NoSkuTwice == Spec => []NoSkuTwiceInPayment
<1>1. CartInv => NoSkuTwiceInPayment
  BY DEF CartInv
<1> QED
  BY <1>1, CartInvariant, PTL

-----------------------------------------------------------------------------
(***************************************************************************)
(* Units.  What an order holds is a set with one element for each unit, so  *)
(* that what several hold is a union and is counted by Cardinality.         *)
(***************************************************************************)

LEMMA DisjointUnion ==
    ASSUME NEW S, NEW T, IsFiniteSet(S), IsFiniteSet(T), S \cap T = {}
    PROVE  /\ IsFiniteSet(S \cup T)
           /\ Cardinality(S \cup T) = Cardinality(S) + Cardinality(T)
<1>1. Cardinality(S \cap T) = 0
  BY FS_EmptySet
<1>2. Cardinality(S) \in Nat /\ Cardinality(T) \in Nat
  BY FS_CardinalityType
<1>3. /\ IsFiniteSet(S \cup T)
      /\ Cardinality(S \cup T) = Cardinality(S) + Cardinality(T) - Cardinality(S \cap T)
  BY FS_Union, Zenon
<1> QED
  BY <1>1, <1>2, <1>3

LEMMA UnitsMember ==
    ASSUME NEW lines, NEW S, NEW s, NEW u
    PROVE  u \in Units(lines, S, s) <=>
                \E o \in S : \E n \in 1..QuantityIn(lines[o], s) : u = <<o, n>>
BY DEF Units

\* Orders added or taken away bring or take their own units.
LEMMA UnitsSplit ==
    ASSUME NEW lines, NEW S, NEW T, NEW s, S \cap T = {}
    PROVE  /\ Units(lines, S \cup T, s) = Units(lines, S, s) \cup Units(lines, T, s)
           /\ Units(lines, S, s) \cap Units(lines, T, s) = {}
<1>1. Units(lines, S \cup T, s) = Units(lines, S, s) \cup Units(lines, T, s)
  BY DEF Units
<1>2. ASSUME NEW u \in Units(lines, S, s), u \in Units(lines, T, s)
      PROVE  FALSE
  <2>1. PICK o1 \in S : \E n \in 1..QuantityIn(lines[o1], s) : u = <<o1, n>>
    BY <1>2, UnitsMember
  <2>2. PICK o2 \in T : \E n \in 1..QuantityIn(lines[o2], s) : u = <<o2, n>>
    BY <1>2, UnitsMember
  <2> QED
    BY <2>1, <2>2
<1> QED
  BY <1>1, <1>2

\* Units depend only on the lines of the orders counted.
LEMMA UnitsSame ==
    ASSUME NEW f, NEW g, NEW S, NEW s, \A o \in S : f[o] = g[o]
    PROVE  Units(f, S, s) = Units(g, S, s)
BY DEF Units

LEMMA UnitsSubset ==
    ASSUME NEW lines, NEW S, NEW T \in SUBSET S, NEW s
    PROVE  Units(lines, T, s) \subseteq Units(lines, S, s)
BY DEF Units

\* Orders that share no SKU hold, of each SKU, the quantity in all their lines
\* together: stock taken or returned line by line is what the orders hold.
LEMMA UnitsCount ==
    ASSUME NEW S, NEW lines, NEW s,
           \A o \in S : lines[o] \in SUBSET CartRow,
           \A o1, o2 \in S : \A l1 \in lines[o1], l2 \in lines[o2] :
                l1.skuId = l2.skuId => o1 = o2 /\ l1 = l2
    PROVE  /\ IsFiniteSet(Units(lines, S, s))
           /\ Cardinality(Units(lines, S, s))
                = QuantityIn(UNION {lines[o] : o \in S}, s)
<1> DEFINE all == UNION {lines[o] : o \in S}
           hits(L) == {l \in L : l.skuId = s}
<1>1. CASE hits(all) = {}
  <2>1. \A o \in S : QuantityIn(lines[o], s) = 0
    BY <1>1 DEF QuantityIn
  <2>2. Units(lines, S, s) = {}
    BY <2>1, UnitsMember
  <2>3. QuantityIn(all, s) = 0
    BY <1>1 DEF QuantityIn
  <2> QED
    BY <2>2, <2>3, FS_EmptySet
<1>2. CASE hits(all) # {}
  <2>1. PICK o \in S : \E l \in lines[o] : l.skuId = s
    BY <1>2
  <2>2. PICK l \in lines[o] : l.skuId = s
    BY <2>1
  <2>3. hits(all) = {l} /\ hits(lines[o]) = {l}
    BY <2>1, <2>2
  <2>4. QuantityIn(all, s) = l.quantity /\ QuantityIn(lines[o], s) = l.quantity
    BY <2>3 DEF QuantityIn
  <2>5. \A q \in S \ {o} : QuantityIn(lines[q], s) = 0
    BY <2>1, <2>2 DEF QuantityIn
  <2>6. Units(lines, S, s) = {o} \X (1..l.quantity)
    <3>1. \A q \in S \ {o} : {q} \X (1..QuantityIn(lines[q], s)) = {}
      BY <2>5
    <3> QED
      BY <2>4, <3>1 DEF Units
  <2>7. l.quantity \in Nat
    BY <2>1, <2>2 DEF CartRow
  <2>8. IsFiniteSet(1..l.quantity) /\ Cardinality(1..l.quantity) = l.quantity
    BY <2>7, FS_Interval
  <2>9. IsFiniteSet({o}) /\ Cardinality({o}) = 1
    BY FS_Singleton
  <2>10. /\ IsFiniteSet({o} \X (1..l.quantity))
         /\ Cardinality({o} \X (1..l.quantity)) = 1 * l.quantity
    <3> DEFINE A == {o}
               B == 1..l.quantity
    <3>1. IsFiniteSet(A) /\ IsFiniteSet(B) /\ Cardinality(A) = 1 /\ Cardinality(B) = l.quantity
      BY <2>8, <2>9
    <3> HIDE DEF A, B
    <3>2. IsFiniteSet(A \X B) /\ Cardinality(A \X B) = Cardinality(A) * Cardinality(B)
      BY <3>1, FS_Product
    <3> QED
      BY <3>1, <3>2 DEF A, B
  <2> QED
    BY <2>4, <2>6, <2>7, <2>10
<1> QED
  BY <1>1, <1>2

-----------------------------------------------------------------------------
(***************************************************************************)
(* Stock.  To count by Cardinality the units must be finite; those of every *)
(* order placed are, and a transfer can make any of them live again.        *)
(***************************************************************************)

Placed == {o \in Orders : orderStatus[o] # "none"}

UnitsFinite == \A s \in Skus : IsFiniteSet(Units(orderItems, Placed, s))

Kept(s) == stock'[s] + Held(s)' = stock[s] + Held(s)

\* The two races of StockInventedOnlyByRaces.
LateCancel ==
    \E c \in Cancels :
        /\ cancelPc[c] = "read" /\ cancelPc'[c] = "done"
        /\ orderStatus[CancelTarget[c]] = "CANCELLED"

LatePayment ==
    \E d \in Deliveries :
        /\ ipnPc[d] = "checked" /\ ipnPc'[d] = "removeJob"
        /\ \E o \in OrdersOf(PaidFor[d]) : orderStatus[o] = "CANCELLED"

StockAccount(s) ==
    /\ IsFiniteSet(Units(orderItems, Placed, s)')
    /\ stock'[s] + Held(s)' >= stock[s] + Held(s)
    /\ Kept(s) \/ LateCancel \/ LatePayment

OrderInv == StatusInv /\ CartInv /\ UnitsFinite

\* What the steps need to know of the state they start from.
LEMMA OrderFacts ==
    ASSUME OrderInv
    PROVE  /\ stock \in [Skus -> Nat]
           /\ orderStatus \in [Orders -> OrderStatus \cup {"none"}]
           /\ orderItems \in [Orders -> SUBSET CartRow]
           /\ LiveOrders \subseteq Placed
           /\ Placed \subseteq Orders
           /\ \A s \in Skus : /\ IsFiniteSet(Units(orderItems, LiveOrders, s))
                              /\ Held(s) \in Nat
<1>1. /\ stock \in [Skus -> Nat]
      /\ orderStatus \in [Orders -> OrderStatus \cup {"none"}]
      /\ orderItems \in [Orders -> SUBSET CartRow]
  BY DEF OrderInv, StatusInv, TypeInv, TypeOK, StoreTypeOK
<1>2. LiveOrders \subseteq Placed /\ Placed \subseteq Orders
  BY DEF LiveOrders, Placed
<1>3. ASSUME NEW s \in Skus
      PROVE  IsFiniteSet(Units(orderItems, LiveOrders, s)) /\ Held(s) \in Nat
  <2>1. IsFiniteSet(Units(orderItems, LiveOrders, s))
    BY <1>2, UnitsSubset, FS_Subset DEF OrderInv, UnitsFinite
  <2> QED
    BY <2>1, FS_CardinalityType DEF Held
<1> QED
  BY <1>1, <1>2, <1>3

\* Inserting the orders of a payment moves their lines out of the stock.
LEMMA PlaceStock ==
    ASSUME OrderInv, NEW p \in Payments, paymentStatus[p] = "none",
           orderStatus' = [o \in Orders |->
                IF o \in OrdersOf(p) THEN "PENDING_PAYMENT" ELSE orderStatus[o]],
           orderItems' \in [Orders -> SUBSET CartRow],
           \A o \in Orders \ OrdersOf(p) : orderItems'[o] = orderItems[o],
           NoSkuTwiceInPayment',
           TakeStock(UNION {orderItems'[o] : o \in OrdersOf(p)}),
           NEW s \in Skus
    PROVE  StockAccount(s)
<1> DEFINE S == OrdersOf(p)
           new == Units(orderItems', S, s)
           held == Units(orderItems, LiveOrders, s)
           placed == Units(orderItems, Placed, s)
<1>1. S \subseteq Orders /\ S \cap Placed = {}
  BY DEF OrderInv, StatusInv, PaymentOrderAgreement, OrdersOf, Placed
<1>2. Placed' = Placed \cup S /\ LiveOrders' = LiveOrders \cup S
  BY <1>1, OrderFacts DEF Placed, LiveOrders
<1>3. LiveOrders \cap S = {}
  BY <1>1, OrderFacts
<1>4. /\ Units(orderItems', LiveOrders, s) = held
      /\ Units(orderItems', Placed, s) = placed
  <2>1. \A o \in Placed : orderItems'[o] = orderItems[o]
    BY <1>1, OrderFacts
  <2> QED
    BY <2>1, OrderFacts, UnitsSame
<1>5. /\ Units(orderItems', LiveOrders \cup S, s) = held \cup new
      /\ held \cap new = {}
  <2> HIDE DEF S
  <2>1. /\ Units(orderItems', LiveOrders \cup S, s)
            = Units(orderItems', LiveOrders, s) \cup new
        /\ Units(orderItems', LiveOrders, s) \cap new = {}
    BY <1>3, UnitsSplit
  <2> QED
    BY <1>4, <2>1
<1>6. Units(orderItems', Placed \cup S, s) = placed \cup new
  BY <1>1, <1>4, UnitsSplit
<1>7. /\ IsFiniteSet(new)
      /\ Cardinality(new) = QuantityIn(UNION {orderItems'[o] : o \in S}, s)
  <2>1. \A o1, o2 \in S : \A l1 \in orderItems'[o1], l2 \in orderItems'[o2] :
                l1.skuId = l2.skuId => o1 = o2 /\ l1 = l2
    BY <1>1 DEF NoSkuTwiceInPayment, OrdersOf
  <2>2. \A o \in S : orderItems'[o] \in SUBSET CartRow
    BY <1>1
  <2> QED
    BY <2>1, <2>2, UnitsCount
<1>8. stock'[s] = stock[s] - Cardinality(new)
  BY <1>7, OrderFacts DEF TakeStock
<1>9. IsFiniteSet(held) /\ IsFiniteSet(placed) /\ Cardinality(held) = Held(s)
  BY OrderFacts DEF OrderInv, UnitsFinite, Held
<1>10. Cardinality(held \cup new) = Cardinality(held) + Cardinality(new)
  <2> HIDE DEF held, new
  <2> QED
    BY <1>5, <1>7, <1>9, DisjointUnion
<1>11. IsFiniteSet(placed \cup new)
  BY <1>7, <1>9, FS_Union
<1>12. Held(s)' = Held(s) + Cardinality(new)
  BY <1>2, <1>5, <1>9, <1>10 DEF Held
<1>13. Cardinality(new) \in Nat /\ stock[s] \in Nat /\ Held(s) \in Nat
  BY <1>7, OrderFacts, FS_CardinalityType
<1>14. Units(orderItems, Placed, s)' = placed \cup new
  BY <1>2, <1>6
<1>15. Kept(s) /\ stock'[s] + Held(s)' >= stock[s] + Held(s)
  BY <1>8, <1>12, <1>13 DEF Kept
<1> QED
  BY <1>11, <1>14, <1>15 DEF StockAccount

\* Cancelling live orders that share no SKU moves their lines into the stock.
LEMMA ReturnLive ==
    ASSUME OrderInv, NEW S \in SUBSET LiveOrders,
           LiveOrders' = LiveOrders \ S,
           Placed' = Placed,
           UNCHANGED orderItems,
           \A o1, o2 \in S : PaymentOf[o1] = PaymentOf[o2],
           ReturnStock(UNION {orderItems[o] : o \in S}),
           NEW s \in Skus
    PROVE  StockAccount(s)
<1> DEFINE back == Units(orderItems, S, s)
           rest == Units(orderItems, LiveOrders \ S, s)
           held == Units(orderItems, LiveOrders, s)
<1>1. /\ IsFiniteSet(back)
      /\ Cardinality(back) = QuantityIn(UNION {orderItems[o] : o \in S}, s)
  <2>1. S \subseteq Orders
    BY OrderFacts
  <2>2. \A o1, o2 \in S : \A l1 \in orderItems[o1], l2 \in orderItems[o2] :
                l1.skuId = l2.skuId => o1 = o2 /\ l1 = l2
    BY <2>1 DEF OrderInv, CartInv, NoSkuTwiceInPayment
  <2>3. \A o \in S : orderItems[o] \in SUBSET CartRow
    BY <2>1, OrderFacts
  <2> QED
    BY <2>2, <2>3, UnitsCount
<1>2. stock'[s] = stock[s] + Cardinality(back)
  BY <1>1, OrderFacts DEF ReturnStock
<1>3. held = back \cup rest /\ back \cap rest = {}
  <2> DEFINE T == LiveOrders \ S
  <2>1. S \cup T = LiveOrders /\ S \cap T = {}
    OBVIOUS
  <2> HIDE DEF T
  <2>2. /\ Units(orderItems, S \cup T, s) = back \cup Units(orderItems, T, s)
        /\ back \cap Units(orderItems, T, s) = {}
    BY <2>1, UnitsSplit
  <2> QED
    BY <2>1, <2>2 DEF T
<1>4. IsFiniteSet(held) /\ Cardinality(held) = Held(s)
  BY OrderFacts DEF Held
<1>5. IsFiniteSet(rest)
  BY <1>3, <1>4, FS_Subset
<1>6. Cardinality(held) = Cardinality(back) + Cardinality(rest)
  <2> HIDE DEF held, back, rest
  <2> QED
    BY <1>1, <1>3, <1>5, DisjointUnion
<1>7. Held(s)' = Cardinality(rest)
  BY DEF Held
<1>8. Cardinality(back) \in Nat /\ Cardinality(rest) \in Nat /\ stock[s] \in Nat
  BY <1>1, <1>5, OrderFacts, FS_CardinalityType
<1>9. Kept(s) /\ stock'[s] + Held(s)' >= stock[s] + Held(s)
  BY <1>2, <1>4, <1>6, <1>7, <1>8 DEF Kept
<1>10. IsFiniteSet(Units(orderItems, Placed, s)')
  BY DEF OrderInv, UnitsFinite
<1> QED
  BY <1>9, <1>10 DEF StockAccount

\* Nothing placed, cancelled or paid: the account stays as it is.
LEMMA SameStock ==
    ASSUME OrderInv, Placed' = Placed, LiveOrders' = LiveOrders,
           UNCHANGED <<stock, orderItems>>, NEW s \in Skus
    PROVE  StockAccount(s)
<1>1. Held(s)' = Held(s)
  BY DEF Held
<1>2. IsFiniteSet(Units(orderItems, Placed, s)')
  BY DEF OrderInv, UnitsFinite
<1>3. stock[s] \in Nat /\ Held(s) \in Nat
  BY OrderFacts
<1> QED
  BY <1>1, <1>2, <1>3 DEF StockAccount, Kept

\* A checkout takes from the stock what its orders hold.
LEMMA CommitOrderStock ==
    ASSUME OrderInv, TypeInv', CartInv', NEW p \in Checkouts, CommitOrder(p),
           NEW s \in Skus
    PROVE  StockAccount(s)
<1>1. p \in Payments /\ paymentStatus[p] = "none"
  BY DEF Payments, OrderInv, StatusInv, PlacedLater, CommitOrder, InTransaction
<1>2. /\ orderStatus' = [o \in Orders |->
            IF o \in OrdersOf(p) THEN "PENDING_PAYMENT" ELSE orderStatus[o]]
      /\ orderItems' = [o \in Orders |->
            IF o \in OrdersOf(p) THEN OrderLines(p, o) ELSE orderItems[o]]
      /\ TakeStock(Wanted(p))
  BY DEF CommitOrder
<1>3. UNION {orderItems'[o] : o \in OrdersOf(p)} = Wanted(p)
  <2>1. \A o \in OrdersOf(p) : orderItems'[o] = OrderLines(p, o)
    BY <1>2 DEF OrdersOf
  <2>2. UNION {orderItems'[o] : o \in OrdersOf(p)}
            = UNION {OrderLines(p, o) : o \in OrdersOf(p)}
    BY <2>1
  <2> QED
    BY <2>2 DEF Wanted, OrderLines, ItemsOf
<1>4. /\ orderItems' \in [Orders -> SUBSET CartRow]
      /\ NoSkuTwiceInPayment'
      /\ \A o \in Orders \ OrdersOf(p) : orderItems'[o] = orderItems[o]
  BY <1>2 DEF TypeInv, TypeOK, StoreTypeOK, CartInv
<1> QED
  BY <1>1, <1>2, <1>3, <1>4, PlaceStock

\* A launchpad purchase takes the one unit its order holds.
LEMMA CommitPurchaseStock ==
    ASSUME OrderInv, TypeInv', CartInv', NEW p \in Purchases, CommitPurchase(p),
           NEW s \in Skus
    PROVE  StockAccount(s)
<1> DEFINE line == [skuId |-> SkuOf[p], quantity |-> 1]
<1>1. p \in Payments /\ paymentStatus[p] = "none"
  BY DEF Payments, OrderInv, StatusInv, PlacedLater, CommitPurchase
<1>2. /\ orderStatus' = [o \in Orders |->
            IF o \in OrdersOf(p) THEN "PENDING_PAYMENT" ELSE orderStatus[o]]
      /\ orderItems' = [o \in Orders |->
            IF o \in OrdersOf(p) THEN {line} ELSE orderItems[o]]
      /\ TakeStock({line})
  BY DEF CommitPurchase
<1>3. PICK o \in Orders : OrdersOf(p) = {o}
  BY PurchaseAssumption
<1>4. UNION {orderItems'[q] : q \in OrdersOf(p)} = {line}
  BY <1>2, <1>3
<1>5. /\ orderItems' \in [Orders -> SUBSET CartRow]
      /\ NoSkuTwiceInPayment'
      /\ \A q \in Orders \ OrdersOf(p) : orderItems'[q] = orderItems[q]
  BY <1>2 DEF TypeInv, TypeOK, StoreTypeOK, CartInv
<1> HIDE DEF line
<1> QED
  BY <1>1, <1>2, <1>4, <1>5, PlaceStock

\* A cancel returns what its order holds, or what it no longer holds.
LEMMA CommitCancelStock ==
    ASSUME OrderInv, NEW c \in Cancels, CommitCancel(c), NEW s \in Skus
    PROVE  StockAccount(s)
<1> DEFINE o == CancelTarget[c]
<1>1. /\ orderStatus' = [orderStatus EXCEPT ![o] = "CANCELLED"]
      /\ ReturnStock(orderItems[o])
      /\ cancelPc[c] = "read"
      /\ cancelPc' = [cancelPc EXCEPT ![c] = "done"]
      /\ UNCHANGED orderItems
  BY DEF CommitCancel
<1>2. o \in Orders /\ orderStatus[o] # "none"
  BY <1>1 DEF OrderInv, StatusInv, CancelSeen, Cancelling
<1>3. Placed' = Placed
  BY <1>1, <1>2, OrderFacts DEF Placed
<1>4. CASE o \in LiveOrders
  <2>1. LiveOrders' = LiveOrders \ {o}
    BY <1>1, <1>2, OrderFacts DEF LiveOrders
  <2>2. UNION {orderItems[q] : q \in {o}} = orderItems[o]
    OBVIOUS
  <2>3. ReturnStock(UNION {orderItems[q] : q \in {o}})
    BY <1>1, <2>2
  <2>4. {o} \in SUBSET LiveOrders /\ \A o1, o2 \in {o} : PaymentOf[o1] = PaymentOf[o2]
    BY <1>4
  <2> QED
    BY <1>1, <1>3, <2>1, <2>3, <2>4, ReturnLive
<1>5. CASE o \notin LiveOrders
  <2>1. orderStatus[o] = "CANCELLED"
    BY <1>2, <1>5, OrderFacts DEF LiveOrders, OrderStatus
  <2>2. LiveOrders' = LiveOrders
    BY <1>1, <1>2, <2>1, OrderFacts DEF LiveOrders
  <2>3. Held(s)' = Held(s)
    BY <1>1, <2>2 DEF Held
  <2>4. QuantityIn(orderItems[o], s) \in Nat
    BY <1>2, OrderFacts, QuantityType
  <2>5. stock'[s] = stock[s] + QuantityIn(orderItems[o], s)
    BY <1>1 DEF ReturnStock
  <2>6. stock[s] \in Nat /\ Held(s) \in Nat
    BY OrderFacts
  <2>7. LateCancel
    <3>1. cancelPc'[c] = "done"
      BY <1>1 DEF OrderInv, StatusInv, TypeInv, TypeOK, SettlementTypeOK
    <3> QED
      BY <1>1, <2>1, <3>1 DEF LateCancel
  <2>8. IsFiniteSet(Units(orderItems, Placed, s)')
    BY <1>1, <1>3 DEF OrderInv, UnitsFinite
  <2>9. stock'[s] + Held(s)' >= stock[s] + Held(s)
    BY <2>3, <2>4, <2>5, <2>6
  <2> QED
    BY <2>7, <2>8, <2>9 DEF StockAccount
<1> QED
  BY <1>4, <1>5

\* A transfer touches no stock; it may revive an order that was cancelled.
LEMMA CommitPaymentStock ==
    ASSUME OrderInv, NEW d \in Deliveries, CommitPayment(d), NEW s \in Skus
    PROVE  StockAccount(s)
<1> DEFINE p == PaidFor[d]
<1>1. /\ p \in Payments
      /\ paymentStatus[p] # "none"
      /\ orderStatus' = [o \in Orders |->
                IF o \in OrdersOf(p) THEN "PENDING_PICKUP" ELSE orderStatus[o]]
      /\ ipnPc[d] = "checked"
      /\ ipnPc' = [ipnPc EXCEPT ![d] = "removeJob"]
      /\ UNCHANGED <<stock, orderItems>>
  BY SettlementAssumption DEF CommitPayment, Payable, PaidOrders, skuVars
<1>2. OrdersOf(p) \subseteq Placed
  BY <1>1 DEF OrderInv, StatusInv, PaymentOrderAgreement, OrdersOf, Placed
<1>3. Placed' = Placed
  BY <1>1, <1>2, OrderFacts DEF Placed
<1>4. CASE \A o \in OrdersOf(p) : orderStatus[o] # "CANCELLED"
  <2>1. OrdersOf(p) \subseteq LiveOrders
    BY <1>2, <1>4, OrderFacts DEF LiveOrders, Placed, OrderStatus
  <2>2. LiveOrders' = LiveOrders
    BY <1>1, <2>1, OrderFacts DEF LiveOrders
  <2> QED
    BY <1>1, <1>3, <2>2, SameStock
<1>5. CASE \E o \in OrdersOf(p) : orderStatus[o] = "CANCELLED"
  <2>1. LatePayment
    <3>1. ipnPc'[d] = "removeJob"
      BY <1>1 DEF OrderInv, StatusInv, TypeInv, TypeOK, SettlementTypeOK
    <3> QED
      BY <1>1, <1>5, <3>1 DEF LatePayment
  <2>2. LiveOrders \subseteq LiveOrders' /\ LiveOrders' \subseteq Placed
    BY <1>1, <1>3, OrderFacts DEF LiveOrders, Placed
  <2> DEFINE before == Units(orderItems, LiveOrders, s)
             after == Units(orderItems, LiveOrders', s)
             placed == Units(orderItems, Placed, s)
  <2>3. before \subseteq after /\ after \subseteq placed
    BY <2>2, UnitsSubset
  <2>4. IsFiniteSet(placed)
    BY DEF OrderInv, UnitsFinite
  <2>5. IsFiniteSet(after)
    BY <2>3, <2>4, FS_Subset
  <2>6. Cardinality(before) <= Cardinality(after) /\ Cardinality(after) \in Nat
    BY <2>3, <2>5, FS_Subset, FS_CardinalityType
  <2>7. Held(s) = Cardinality(before) /\ Held(s)' = Cardinality(after)
    BY <1>1 DEF Held
  <2>8. stock[s] \in Nat /\ Held(s) \in Nat
    BY OrderFacts
  <2>9. stock'[s] + Held(s)' >= stock[s] + Held(s)
    BY <1>1, <2>6, <2>7, <2>8
  <2>10. IsFiniteSet(Units(orderItems, Placed, s)')
    BY <1>1, <1>3, <2>4
  <2> QED
    BY <2>1, <2>9, <2>10 DEF StockAccount
<1> QED
  BY <1>4, <1>5

\* The job returns what all the orders of its PENDING payment hold.
LEMMA CommitJobStock ==
    ASSUME OrderInv, NEW p \in Payments, CommitJob(p), NEW s \in Skus
    PROVE  StockAccount(s)
<1>1. /\ paymentStatus[p] = "PENDING"
      /\ orderStatus' = [o \in Orders |->
            IF o \in OrdersOf(p) /\ orderStatus[o] = "PENDING_PAYMENT"
            THEN "CANCELLED" ELSE orderStatus[o]]
      /\ ReturnStock(UNION {orderItems[o] : o \in OrdersOf(p)})
      /\ UNCHANGED orderItems
  BY DEF CommitJob, Expirable, LinesOf
<1>2. \A o \in OrdersOf(p) : o \in Orders /\ orderStatus[o] = "PENDING_PAYMENT"
  BY <1>1 DEF OrderInv, StatusInv, PaymentOrderAgreement, OrdersOf
<1>3. OrdersOf(p) \in SUBSET LiveOrders
  BY <1>2 DEF LiveOrders
<1>4. LiveOrders' = LiveOrders \ OrdersOf(p) /\ Placed' = Placed
  BY <1>1, <1>2, OrderFacts DEF LiveOrders, Placed
<1>5. \A o1, o2 \in OrdersOf(p) : PaymentOf[o1] = PaymentOf[o2]
  BY DEF OrdersOf
<1> QED
  BY <1>1, <1>3, <1>4, <1>5, ReturnLive

LEMMA StockStep ==
    ASSUME OrderInv, TypeInv', CartInv', [Next]_vars, NEW s \in Skus
    PROVE  StockAccount(s)
<1>1. CASE UNCHANGED <<stock, orderStatus, orderItems, couponQuantity>>
  <2>1. Placed' = Placed /\ LiveOrders' = LiveOrders
    BY <1>1 DEF Placed, LiveOrders
  <2> QED
    BY <1>1, <2>1, SameStock
<1> QED
  BY <1>1, CommitCases, CommitOrderStock, CommitPurchaseStock, CommitCancelStock,
     CommitPaymentStock, CommitJobStock

LEMMA OrderInvariant == Spec => []OrderInv
<1>1. Init => UnitsFinite
  <2> SUFFICES ASSUME Init, NEW s \in Skus
               PROVE  IsFiniteSet(Units(orderItems, Placed, s))
    BY DEF UnitsFinite
  <2>1. Units(orderItems, Placed, s) = {}
    BY DEF Init, StoreInit, Placed, Units
  <2> QED
    BY <2>1, FS_EmptySet
<1>2. /\ OrderInv /\ [Next]_vars
      /\ (StatusInv /\ CartInv)'
      => UnitsFinite'
  <2> SUFFICES ASSUME OrderInv, [Next]_vars, StatusInv', CartInv' PROVE UnitsFinite'
    OBVIOUS
  <2>1. TypeInv'
    BY DEF StatusInv
  <2> QED
    BY <2>1, StockStep DEF StockAccount, UnitsFinite
<1> QED
  BY <1>1, <1>2, CartInvariant, PTL DEF Spec, OrderInv

\* Every step keeps the account of stock, or is one of the two races.
LEMMA AccountStep ==
    ASSUME OrderInv, OrderInv', [Next]_vars, NEW s \in Skus
    PROVE  StockAccount(s) /\ Held(s) \in Nat /\ Held(s)' \in Nat
<1>1. TypeInv' /\ CartInv'
  BY DEF OrderInv, StatusInv
<1>2. StockAccount(s) /\ Held(s) \in Nat
  BY <1>1, StockStep, OrderFacts
<1>3. Held(s)' \in Nat
  <2>1. LiveOrders' \subseteq Placed'
    BY DEF LiveOrders, Placed
  <2>2. IsFiniteSet(Units(orderItems', Placed', s))
    BY <1>2 DEF StockAccount
  <2>3. IsFiniteSet(Units(orderItems', LiveOrders', s))
    BY <2>1, <2>2, UnitsSubset, FS_Subset
  <2> QED
    BY <2>3, FS_CardinalityType DEF Held
<1> QED
  BY <1>2, <1>3

LEMMA InitStock ==
    ASSUME Init, NEW s \in Skus
    PROVE  stock[s] + Held(s) = InitialStock[s] /\ InitialStock[s] \in Nat
<1>1. Units(orderItems, LiveOrders, s) = {}
  BY DEF Init, StoreInit, LiveOrders, Units
<1>2. Held(s) = 0
  BY <1>1, FS_EmptySet DEF Held
<1> QED
  BY <1>2, InitialAssumption DEF Init, StoreInit

\* However checkouts, purchases, cancels, transfers and jobs race, crash and
\* repeat, stock and live orders together never hold less than there was.
THEOREM StockNeverLost == Spec => []NoStockLost
<1>1. Init => NoStockLost
  BY InitStock DEF NoStockLost
<1>2. OrderInv /\ OrderInv' /\ NoStockLost /\ [Next]_vars => NoStockLost'
  <2> SUFFICES ASSUME OrderInv, OrderInv', NoStockLost, [Next]_vars, NEW s \in Skus
               PROVE  stock'[s] + Held(s)' >= InitialStock[s]
    BY DEF NoStockLost
  <2>1. /\ stock[s] + Held(s) >= InitialStock[s]
        /\ stock'[s] + Held(s)' >= stock[s] + Held(s)
    BY AccountStep DEF NoStockLost, StockAccount
  <2>2. /\ stock[s] \in Nat /\ stock'[s] \in Nat /\ InitialStock[s] \in Nat
        /\ Held(s) \in Nat /\ Held(s)' \in Nat
    BY AccountStep, InitialAssumption
       DEF OrderInv, StatusInv, TypeInv, TypeOK, StoreTypeOK
  <2> QED
    BY <2>1, <2>2
<1> QED
  BY <1>1, <1>2, OrderInvariant, PTL DEF Spec

\* The action inside StockInventedOnlyByRaces.
KeptOrRace == \A s \in Skus : ~Kept(s) => LateCancel \/ LatePayment

\* No handler creates stock, with two exceptions: a cancelOrder that commits
\* after its order was cancelled by somebody else, and a transfer that pays an
\* order whose stock had been returned.
THEOREM StockInventedByRaces == Spec => StockInventedOnlyByRaces
<1>1. OrderInv /\ OrderInv' /\ [Next]_vars => KeptOrRace
  BY AccountStep DEF KeptOrRace, StockAccount
<1>2. KeptOrRace =>
        [\A s \in Skus :
            stock'[s] + Held(s)' # stock[s] + Held(s) =>
                \/ \E c \in Cancels :
                    /\ cancelPc[c] = "read" /\ cancelPc'[c] = "done"
                    /\ orderStatus[CancelTarget[c]] = "CANCELLED"
                \/ \E d \in Deliveries :
                    /\ ipnPc[d] = "checked" /\ ipnPc'[d] = "removeJob"
                    /\ \E o \in OrdersOf(PaidFor[d]) :
                            orderStatus[o] = "CANCELLED"]_vars
  BY Zenon DEF KeptOrRace, Kept, LateCancel, LatePayment
<1> QED
  BY <1>1, <1>2, OrderInvariant, PTL DEF Spec, StockInventedOnlyByRaces

\* With no cancelOrder and no transfer, neither race can happen: every unit
\* that left the stock is in a live order, exactly.
THEOREM StockExact ==
    ASSUME Cancels = {}, Deliveries = {}
    PROVE  Spec => []StockConserved
<1>1. Init => StockConserved
  BY InitStock DEF StockConserved
<1>2. OrderInv /\ OrderInv' /\ StockConserved /\ [Next]_vars => StockConserved'
  <2> SUFFICES ASSUME OrderInv, OrderInv', StockConserved, [Next]_vars,
                      NEW s \in Skus
               PROVE  stock'[s] + Held(s)' = InitialStock[s]
    BY DEF StockConserved
  <2>1. Kept(s)
    BY AccountStep DEF StockAccount, LateCancel, LatePayment
  <2> QED
    BY <2>1 DEF StockConserved, Kept
<1> QED
  BY <1>1, <1>2, OrderInvariant, PTL DEF Spec

-----------------------------------------------------------------------------
(***************************************************************************)
(* Coupons.  As with stock, what is counted has to be finite: each step     *)
(* places the finitely many orders of one body or ends one cancellation.    *)
(***************************************************************************)

CouponAccount(k) ==
    /\ IsFiniteSet(PlacedWith(k)) /\ IsFiniteSet(CancelsEnded(k))
    /\ couponQuantity[k] + Cardinality(PlacedWith(k)) >= InitialQuantity[k]
    /\ couponQuantity[k] + Cardinality(PlacedWith(k))
            <= InitialQuantity[k] + Cardinality(CancelsEnded(k))

CouponInv == \A k \in Coupons : CouponAccount(k)

\* A step ends at most one cancellation, and what has ended stays so.
LEMMA CancelsEndedStep ==
    ASSUME TypeInv, [Next]_vars, NEW k
    PROVE  \E c : CancelsEnded(k)' \in {CancelsEnded(k), CancelsEnded(k) \cup {c}}
<1> USE DEF settlementVars
<1>1. cancelPc \in [Cancels -> {"start", "read", "done"}]
  BY DEF TypeInv, TypeOK, SettlementTypeOK
<1>2. CASE UNCHANGED cancelPc
  BY <1>2 DEF CancelsEnded
<1>3. ASSUME NEW c \in Cancels, CancelStep(c)
      PROVE  \E x : CancelsEnded(k)' \in {CancelsEnded(k), CancelsEnded(k) \cup {x}}
  <2>1. PICK v \in {"read", "done"} :
            /\ cancelPc[c] # "done"
            /\ cancelPc' = [cancelPc EXCEPT ![c] = v]
    BY <1>3 DEF CancelStep, ReadOrder, CommitCancel, AbortCancel
  <2>2. CASE v = "done" /\ CouponOf[CancelTarget[c]] = k
    <3>1. CancelsEnded(k)' = CancelsEnded(k) \cup {c}
      BY <1>1, <2>1, <2>2 DEF CancelsEnded
    <3> QED
      BY <3>1
  <2>3. CASE ~(v = "done" /\ CouponOf[CancelTarget[c]] = k)
    <3>1. CancelsEnded(k)' = CancelsEnded(k)
      BY <1>1, <2>1, <2>3 DEF CancelsEnded
    <3> QED
      BY <3>1
  <2> QED
    BY <2>2, <2>3
<1>4. CASE UNCHANGED vars
  BY <1>2, <1>4 DEF vars
<1>5. CASE Next
  <2>1. ASSUME NEW d \in Deliveries, IpnStep(d) PROVE UNCHANGED cancelPc
    BY <2>1 DEF IpnStep, FindTransaction, CommitPayment, AbortPayment, RemoveJob,
        RemoveJobFails
  <2>2. ASSUME NEW p \in Payments, JobStep(p) PROVE UNCHANGED cancelPc
    BY <2>2 DEF JobStep, StartJob, CommitJob, FailJob, CompleteJob, StallJob
  <2>3. ASSUME EnvironmentStep PROVE UNCHANGED cancelPc
    BY <2>3 DEF EnvironmentStep, DeleteSku
  <2> QED
    BY <1>2, <1>3, <1>5, <2>1, <2>2, <2>3, NextCases
<1> QED
  BY <1>4, <1>5

\* The coupon and its orders as they were: the bounds hold a fortiori.
LEMMA CouponSame ==
    ASSUME TypeInv, [Next]_vars, NEW k \in Coupons, CouponAccount(k),
           couponQuantity'[k] = couponQuantity[k], PlacedWith(k)' = PlacedWith(k)
    PROVE  CouponAccount(k)'
<1>1. IsFiniteSet(CancelsEnded(k)')
  BY CancelsEndedStep, FS_AddElement DEF CouponAccount
<1>2. CancelsEnded(k) \subseteq CancelsEnded(k)'
  BY CancelsEndedStep
<1>3. /\ Cardinality(CancelsEnded(k)) <= Cardinality(CancelsEnded(k)')
      /\ Cardinality(CancelsEnded(k)) \in Nat
      /\ Cardinality(CancelsEnded(k)') \in Nat
  BY <1>1, <1>2, FS_Subset, FS_CardinalityType DEF CouponAccount
<1>4. Cardinality(PlacedWith(k)) \in Nat /\ couponQuantity[k] \in Nat
      /\ InitialQuantity[k] \in Nat
  BY FS_CardinalityType, InitialAssumption
     DEF CouponAccount, TypeInv, TypeOK, StoreTypeOK
<1> QED
  BY <1>1, <1>3, <1>4 DEF CouponAccount

\* A checkout spends a unit for each of its orders with the coupon.
LEMMA CommitOrderCoupon ==
    ASSUME StatusInv, NEW p \in Checkouts, CommitOrder(p), UNCHANGED settlementVars,
           NEW k \in Coupons, CouponAccount(k)
    PROVE  CouponAccount(k)'
<1> DEFINE new == {o \in OrdersOf(p) : CouponOf[o] = k}
<1>1. paymentStatus[p] = "none"
  BY DEF StatusInv, PlacedLater, CommitOrder, InTransaction
<1>2. /\ orderStatus' = [o \in Orders |->
            IF o \in OrdersOf(p) THEN "PENDING_PAYMENT" ELSE orderStatus[o]]
      /\ couponQuantity' = [c \in Coupons |-> couponQuantity[c] - Uses(p, c)]
  BY DEF CommitOrder
<1>3. \A o \in OrdersOf(p) : o \in Orders /\ orderStatus[o] = "none"
  BY <1>1 DEF StatusInv, PaymentOrderAgreement, OrdersOf
<1>4. PlacedWith(k)' = PlacedWith(k) \cup new /\ PlacedWith(k) \cap new = {}
  BY <1>2, <1>3 DEF PlacedWith
<1>5. IsFiniteSet(new) /\ Cardinality(new) = Uses(p, k)
  <2>1. IsFiniteSet(OrdersOf(p))
    BY CheckoutAssumption
  <2>2. new \subseteq OrdersOf(p)
    OBVIOUS
  <2> QED
    BY <2>1, <2>2, FS_Subset DEF Uses
<1>6. /\ IsFiniteSet(PlacedWith(k)')
      /\ Cardinality(PlacedWith(k)') = Cardinality(PlacedWith(k)) + Uses(p, k)
  <2> HIDE DEF new
  <2> QED
    BY <1>4, <1>5, DisjointUnion DEF CouponAccount
<1>7. CancelsEnded(k)' = CancelsEnded(k)
  BY DEF CancelsEnded, settlementVars
<1>8. /\ couponQuantity[k] \in Nat /\ Cardinality(PlacedWith(k)) \in Nat
      /\ Uses(p, k) \in Nat
  BY UsesType, FS_CardinalityType
     DEF StatusInv, TypeInv, TypeOK, StoreTypeOK, CouponAccount
<1> QED
  BY <1>2, <1>6, <1>7, <1>8 DEF CouponAccount

\* A cancel gives back one unit and is over.
LEMMA CommitCancelCoupon ==
    ASSUME StatusInv, NEW c \in Cancels, CommitCancel(c), [Next]_vars,
           NEW k \in Coupons, CouponAccount(k)
    PROVE  CouponAccount(k)'
<1> DEFINE o == CancelTarget[c]
<1>1. /\ orderStatus' = [orderStatus EXCEPT ![o] = "CANCELLED"]
      /\ cancelPc[c] = "read"
      /\ cancelPc' = [cancelPc EXCEPT ![c] = "done"]
      /\ couponQuantity' = [q \in Coupons |->
                IF CouponOf[o] = q THEN couponQuantity[q] + 1 ELSE couponQuantity[q]]
  BY DEF CommitCancel, CouponsWith
<1>2. o \in Orders /\ orderStatus[o] # "none"
  BY <1>1 DEF StatusInv, CancelSeen, Cancelling
<1>3. PlacedWith(k)' = PlacedWith(k)
  BY <1>1, <1>2 DEF PlacedWith, StatusInv, TypeInv, TypeOK, StoreTypeOK
<1>4. CASE CouponOf[o] # k
  BY <1>1, <1>3, <1>4, CouponSame DEF StatusInv
<1>5. CASE CouponOf[o] = k
  <2>1. CancelsEnded(k)' = CancelsEnded(k) \cup {c} /\ c \notin CancelsEnded(k)
    BY <1>1, <1>5 DEF CancelsEnded, StatusInv, TypeInv, TypeOK, SettlementTypeOK
  <2>2. /\ IsFiniteSet(CancelsEnded(k)')
        /\ Cardinality(CancelsEnded(k)') = Cardinality(CancelsEnded(k)) + 1
    BY <2>1, FS_AddElement DEF CouponAccount
  <2>3. couponQuantity'[k] = couponQuantity[k] + 1
    BY <1>1, <1>5
  <2>4. /\ couponQuantity[k] \in Nat /\ InitialQuantity[k] \in Nat
        /\ Cardinality(PlacedWith(k)) \in Nat /\ Cardinality(CancelsEnded(k)) \in Nat
    BY FS_CardinalityType, InitialAssumption
       DEF CouponAccount, StatusInv, TypeInv, TypeOK, StoreTypeOK
  <2> QED
    BY <1>3, <2>2, <2>3, <2>4 DEF CouponAccount
<1> QED
  BY <1>4, <1>5

\* Purchases use no coupon; transfers and jobs leave coupons alone.
LEMMA OtherCoupon ==
    ASSUME StatusInv, [Next]_vars, NEW k \in Coupons, CouponAccount(k),
           \/ \E p \in Purchases : CommitPurchase(p)
           \/ \E d \in Deliveries : CommitPayment(d)
           \/ \E p \in Payments : CommitJob(p)
           \/ UNCHANGED <<stock, orderStatus, orderItems, couponQuantity>>
    PROVE  CouponAccount(k)'
<1>0. /\ TypeInv
      /\ orderStatus \in [Orders -> OrderStatus \cup {"none"}]
      /\ PaymentOrderAgreement
  BY DEF StatusInv, TypeInv, TypeOK, StoreTypeOK
<1>1. ASSUME NEW p \in Purchases, CommitPurchase(p)
      PROVE  PlacedWith(k)' = PlacedWith(k) /\ UNCHANGED couponQuantity
  <2>1. \A o \in OrdersOf(p) : CouponOf[o] # k
    BY PurchaseAssumption, RequestsAssumption
  <2> QED
    BY <1>1, <2>1 DEF CommitPurchase, PlacedWith
<1>2. ASSUME NEW d \in Deliveries, CommitPayment(d)
      PROVE  PlacedWith(k)' = PlacedWith(k) /\ UNCHANGED couponQuantity
  <2>1. \A o \in OrdersOf(PaidFor[d]) : orderStatus[o] # "none"
    BY <1>0, <1>2 DEF CommitPayment, Payable, PaymentOrderAgreement, OrdersOf
  <2> QED
    BY <1>2, <2>1 DEF CommitPayment, PaidOrders, PlacedWith
<1>3. ASSUME NEW p \in Payments, CommitJob(p)
      PROVE  PlacedWith(k)' = PlacedWith(k) /\ UNCHANGED couponQuantity
  BY <1>3 DEF CommitJob, PlacedWith
<1>4. CASE UNCHANGED <<stock, orderStatus, orderItems, couponQuantity>>
  BY <1>0, <1>4, CouponSame DEF PlacedWith
<1> QED
  BY <1>0, <1>1, <1>2, <1>3, <1>4, CouponSame

LEMMA CouponInvariant == Spec => []CouponInv
<1>1. Init => CouponInv
  <2> SUFFICES ASSUME Init, NEW k \in Coupons PROVE CouponAccount(k)
    BY DEF CouponInv
  <2>1. PlacedWith(k) = {} /\ CancelsEnded(k) = {}
    BY DEF Init, StoreInit, SettlementInit, PlacedWith, CancelsEnded
  <2>2. couponQuantity[k] = InitialQuantity[k] /\ InitialQuantity[k] \in Nat
    BY InitialAssumption DEF Init, StoreInit
  <2> QED
    BY <2>1, <2>2, FS_EmptySet DEF CouponAccount
<1>2. StatusInv /\ CouponInv /\ [Next]_vars => CouponInv'
  <2> SUFFICES ASSUME StatusInv, CouponInv, [Next]_vars, NEW k \in Coupons
               PROVE  CouponAccount(k)'
    BY DEF CouponInv
  <2>1. CouponAccount(k)
    BY DEF CouponInv
  <2> QED
    BY <2>1, CommitCases, CommitOrderCoupon, CommitCancelCoupon, OtherCoupon, Zenon
<1> QED
  BY <1>1, <1>2, StatusInvariant, PTL DEF Spec

\* Each order placed with a coupon has taken one unit of it, and each
\* cancellation has given back at most one, however they overlap.
THEOREM CouponsAccounted == Spec => []CouponsSpentOncePerOrder
<1>1. CouponInv => CouponsSpentOncePerOrder
  BY DEF CouponInv, CouponAccount, CouponsSpentOncePerOrder
<1> QED
  BY <1>1, CouponInvariant, PTL

-----------------------------------------------------------------------------
(***************************************************************************)
(* Coupon units: what is left of a coupon and what live orders use of it.   *)
(***************************************************************************)

InUse(k) == {o \in LiveOrders : CouponOf[o] = k}

UnitsKept(k) == UnitsOf(k)' = UnitsOf(k)

\* The three ways of CouponUnitsAccounted.
GivenBackTwice(k) ==
    \E c \in Cancels :
        /\ cancelPc[c] = "read" /\ cancelPc'[c] = "done"
        /\ orderStatus[CancelTarget[c]] = "CANCELLED"
        /\ CouponOf[CancelTarget[c]] = k
        /\ UnitsOf(k)' = UnitsOf(k) + 1

KeptByJob(k) ==
    \E p \in Payments :
        /\ cancelJob[p] = "active" /\ cancelJob'[p] = "committed"
        /\ UnitsOf(k)' = UnitsOf(k)
                - Cardinality({o \in OrdersOf(p) : CouponOf[o] = k})

NotTakenAgain(k) ==
    \E d \in Deliveries :
        /\ ipnPc[d] = "checked" /\ ipnPc'[d] = "removeJob"
        /\ UnitsOf(k)' = UnitsOf(k)
                + Cardinality({o \in OrdersOf(PaidFor[d]) :
                        CouponOf[o] = k /\ orderStatus[o] = "CANCELLED"})

UnitsAccount(k) ==
    UnitsKept(k) \/ GivenBackTwice(k) \/ KeptByJob(k) \/ NotTakenAgain(k)

LEMMA InUseFacts ==
    ASSUME StatusInv, NEW k \in Coupons, CouponAccount(k)
    PROVE  /\ orderStatus \in [Orders -> OrderStatus \cup {"none"}]
           /\ PaymentOrderAgreement
           /\ IsFiniteSet(InUse(k)) /\ IsFiniteSet(PlacedWith(k))
           /\ Cardinality(InUse(k)) \in Nat /\ couponQuantity[k] \in Nat
           /\ UnitsOf(k) = couponQuantity[k] + Cardinality(InUse(k))
<1>1. /\ orderStatus \in [Orders -> OrderStatus \cup {"none"}]
      /\ couponQuantity[k] \in Nat
      /\ PaymentOrderAgreement
  BY DEF StatusInv, TypeInv, TypeOK, StoreTypeOK
<1>2. InUse(k) \subseteq PlacedWith(k) /\ IsFiniteSet(PlacedWith(k))
  BY DEF InUse, LiveOrders, PlacedWith, CouponAccount
<1>3. IsFiniteSet(InUse(k)) /\ Cardinality(InUse(k)) \in Nat
  BY <1>2, FS_Subset, FS_CardinalityType
<1> QED
  BY <1>1, <1>2, <1>3 DEF UnitsOf, InUse

\* The same orders use it, and the quantity is the same.
LEMMA UnitsUnmoved ==
    ASSUME NEW k \in Coupons, couponQuantity'[k] = couponQuantity[k],
           InUse(k)' = InUse(k)
    PROVE  UnitsKept(k)
BY DEF UnitsKept, UnitsOf, InUse

\* A checkout takes a unit for each of its orders with the coupon.
LEMMA CommitOrderUnits ==
    ASSUME StatusInv, NEW p \in Checkouts, CommitOrder(p),
           NEW k \in Coupons, CouponAccount(k)
    PROVE  UnitsKept(k)
<1> DEFINE new == {o \in OrdersOf(p) : CouponOf[o] = k}
<1>1. paymentStatus[p] = "none"
  BY DEF StatusInv, PlacedLater, CommitOrder, InTransaction
<1>2. /\ orderStatus' = [o \in Orders |->
            IF o \in OrdersOf(p) THEN "PENDING_PAYMENT" ELSE orderStatus[o]]
      /\ couponQuantity' = [c \in Coupons |-> couponQuantity[c] - Uses(p, c)]
  BY DEF CommitOrder
<1>3. \A o \in OrdersOf(p) : o \in Orders /\ orderStatus[o] = "none"
  BY <1>1 DEF StatusInv, PaymentOrderAgreement, OrdersOf
<1>4. InUse(k)' = InUse(k) \cup new /\ InUse(k) \cap new = {}
  BY <1>2, <1>3 DEF InUse, LiveOrders
<1>5. IsFiniteSet(new) /\ Cardinality(new) = Uses(p, k)
  <2>1. IsFiniteSet(OrdersOf(p))
    BY CheckoutAssumption
  <2>2. new \subseteq OrdersOf(p)
    OBVIOUS
  <2> QED
    BY <2>1, <2>2, FS_Subset DEF Uses
<1>6. Cardinality(InUse(k)') = Cardinality(InUse(k)) + Uses(p, k)
  <2> HIDE DEF new
  <2> QED
    BY <1>4, <1>5, InUseFacts, DisjointUnion
<1>7. UnitsOf(k)' = couponQuantity'[k] + Cardinality(InUse(k)')
  BY DEF UnitsOf, InUse
<1>8. couponQuantity'[k] = couponQuantity[k] - Uses(p, k) /\ Uses(p, k) \in Nat
  BY <1>2, UsesType
<1> QED
  BY <1>6, <1>7, <1>8, InUseFacts DEF UnitsKept

\* A cancel gives back the unit its order uses, or one it no longer uses.
LEMMA CommitCancelUnits ==
    ASSUME StatusInv, NEW c \in Cancels, CommitCancel(c),
           NEW k \in Coupons, CouponAccount(k)
    PROVE  UnitsKept(k) \/ GivenBackTwice(k)
<1> DEFINE o == CancelTarget[c]
<1>1. /\ orderStatus' = [orderStatus EXCEPT ![o] = "CANCELLED"]
      /\ cancelPc[c] = "read"
      /\ cancelPc'[c] = "done"
      /\ couponQuantity'[k] =
            IF CouponOf[o] = k THEN couponQuantity[k] + 1 ELSE couponQuantity[k]
  BY DEF CommitCancel, CouponsWith, StatusInv, TypeInv, TypeOK, SettlementTypeOK
<1>2. o \in Orders /\ orderStatus[o] # "none"
  BY <1>1 DEF StatusInv, CancelSeen, Cancelling
<1>3. UnitsOf(k)' = couponQuantity'[k] + Cardinality(InUse(k)')
  BY DEF UnitsOf, InUse
<1>4. CASE CouponOf[o] # k
  <2>1. InUse(k)' = InUse(k)
    BY <1>1, <1>2, <1>4, InUseFacts DEF InUse, LiveOrders
  <2> QED
    BY <1>1, <1>4, <2>1, UnitsUnmoved
<1>5. CASE CouponOf[o] = k /\ o \in LiveOrders
  <2>1. o \in InUse(k) /\ InUse(k)' = InUse(k) \ {o}
    BY <1>1, <1>2, <1>5, InUseFacts DEF InUse, LiveOrders
  <2>2. Cardinality(InUse(k)') = Cardinality(InUse(k)) - 1
    BY <2>1, InUseFacts, FS_RemoveElement
  <2> QED
    BY <1>1, <1>3, <1>5, <2>2, InUseFacts DEF UnitsKept
<1>6. CASE CouponOf[o] = k /\ o \notin LiveOrders
  <2>1. orderStatus[o] = "CANCELLED"
    BY <1>2, <1>6, InUseFacts DEF LiveOrders, OrderStatus
  <2>2. InUse(k)' = InUse(k)
    BY <1>1, <1>2, <1>6, InUseFacts DEF InUse, LiveOrders
  <2>3. UnitsOf(k)' = UnitsOf(k) + 1
    BY <1>1, <1>3, <1>6, <2>2, InUseFacts
  <2> QED
    BY <1>1, <1>6, <2>1, <2>3 DEF GivenBackTwice
<1> QED
  BY <1>4, <1>5, <1>6

\* A transfer takes no unit for the cancelled orders it makes live again.
LEMMA CommitPaymentUnits ==
    ASSUME StatusInv, NEW d \in Deliveries, CommitPayment(d),
           NEW k \in Coupons, CouponAccount(k)
    PROVE  NotTakenAgain(k)
<1> DEFINE p == PaidFor[d]
           new == {o \in OrdersOf(p) : CouponOf[o] = k /\ orderStatus[o] = "CANCELLED"}
<1>1. /\ orderStatus' = [o \in Orders |->
                IF o \in OrdersOf(p) THEN "PENDING_PICKUP" ELSE orderStatus[o]]
      /\ ipnPc[d] = "checked" /\ ipnPc'[d] = "removeJob"
      /\ UNCHANGED couponQuantity
      /\ paymentStatus[p] # "none"
  BY DEF CommitPayment, Payable, PaidOrders, StatusInv, TypeInv, TypeOK,
         SettlementTypeOK
<1>2. \A o \in OrdersOf(p) : o \in Orders /\ orderStatus[o] # "none"
  BY <1>1, InUseFacts DEF PaymentOrderAgreement, OrdersOf
<1>3. new \subseteq PlacedWith(k)
  BY <1>2 DEF PlacedWith
<1>4. IsFiniteSet(new) /\ Cardinality(new) \in Nat
  BY <1>3, InUseFacts, FS_Subset, FS_CardinalityType
<1>5. InUse(k) \cap new = {}
  BY DEF InUse, LiveOrders
<1>6. InUse(k)' = InUse(k) \cup new
  BY <1>1, <1>2, InUseFacts DEF InUse, LiveOrders, OrderStatus
<1>7. Cardinality(InUse(k)') = Cardinality(InUse(k)) + Cardinality(new)
  <2> HIDE DEF new
  <2> QED
    BY <1>4, <1>5, <1>6, InUseFacts, DisjointUnion
<1>8. UnitsOf(k)' = couponQuantity[k] + Cardinality(InUse(k)')
  BY <1>1 DEF UnitsOf, InUse
<1>9. UnitsOf(k)' = UnitsOf(k) + Cardinality(new)
  <2> HIDE DEF new
  <2> QED
    BY <1>4, <1>7, <1>8, InUseFacts
<1> QED
  BY <1>1, <1>9 DEF NotTakenAgain

\* The job cancels the orders and gives no unit back.
LEMMA CommitJobUnits ==
    ASSUME StatusInv, NEW p \in Payments, CommitJob(p),
           NEW k \in Coupons, CouponAccount(k)
    PROVE  KeptByJob(k)
<1> DEFINE kept == {o \in OrdersOf(p) : CouponOf[o] = k}
<1>1. /\ paymentStatus[p] = "PENDING"
      /\ orderStatus' = [o \in Orders |->
            IF o \in OrdersOf(p) /\ orderStatus[o] = "PENDING_PAYMENT"
            THEN "CANCELLED" ELSE orderStatus[o]]
      /\ cancelJob[p] = "active"
      /\ cancelJob' = [cancelJob EXCEPT ![p] = "committed"]
      /\ UNCHANGED couponQuantity
  BY DEF CommitJob, Expirable, SetJob
<1>2. cancelJob'[p] = "committed"
  BY <1>1 DEF StatusInv, TypeInv, TypeOK, StoreTypeOK
<1>3. \A o \in OrdersOf(p) : o \in Orders /\ orderStatus[o] = "PENDING_PAYMENT"
  BY <1>1, InUseFacts DEF PaymentOrderAgreement, OrdersOf
<1>4. kept \subseteq InUse(k)
  BY <1>3 DEF InUse, LiveOrders
<1>5. InUse(k)' = InUse(k) \ kept
  BY <1>1, <1>3, InUseFacts DEF InUse, LiveOrders
<1>6. IsFiniteSet(kept) /\ IsFiniteSet(InUse(k) \ kept)
  BY <1>4, InUseFacts, FS_Subset
<1>7. /\ Cardinality(InUse(k)) = Cardinality(kept) + Cardinality(InUse(k)')
      /\ Cardinality(kept) \in Nat /\ Cardinality(InUse(k)') \in Nat
  <2>1. kept \cup InUse(k)' = InUse(k) /\ kept \cap InUse(k)' = {}
    BY <1>4, <1>5
  <2> HIDE DEF kept
  <2> QED
    BY <1>5, <1>6, <2>1, DisjointUnion, FS_CardinalityType
<1>8. UnitsOf(k)' = couponQuantity[k] + Cardinality(InUse(k)')
  BY <1>1 DEF UnitsOf, InUse
<1>9. UnitsOf(k)' = UnitsOf(k) - Cardinality(kept)
  <2> HIDE DEF kept
  <2> QED
    BY <1>7, <1>8, InUseFacts
<1> QED
  BY <1>1, <1>2, <1>9 DEF KeptByJob

LEMMA CouponUnitsStep ==
    ASSUME StatusInv, CouponInv, [Next]_vars, NEW k \in Coupons
    PROVE  UnitsAccount(k)
<1>0. CouponAccount(k)
  BY DEF CouponInv
<1>1. ASSUME NEW p \in Purchases, CommitPurchase(p)
      PROVE  UnitsKept(k)
  <2>1. \A o \in OrdersOf(p) : CouponOf[o] # k
    BY PurchaseAssumption, RequestsAssumption
  <2>2. InUse(k)' = InUse(k)
    BY <1>1, <2>1 DEF CommitPurchase, InUse, LiveOrders
  <2> QED
    BY <1>1, <2>2, UnitsUnmoved DEF CommitPurchase
<1>2. CASE UNCHANGED <<stock, orderStatus, orderItems, couponQuantity>>
  BY <1>2, UnitsUnmoved DEF UnitsAccount, InUse, LiveOrders
<1> QED
  BY <1>0, <1>1, <1>2, CommitCases, CommitOrderUnits, CommitCancelUnits,
     CommitPaymentUnits, CommitJobUnits, Zenon DEF UnitsAccount

\* The action inside CouponUnitsAccounted.
UnitsKeptOrRace ==
    \A k \in Coupons :
        ~UnitsKept(k) => GivenBackTwice(k) \/ KeptByJob(k) \/ NotTakenAgain(k)

\* The units of a coupon, free or used by live orders, change only when a
\* cancelOrder is overtaken by another (one unit too many), when the job
\* expires a payment (its units are lost) and when a transfer revives orders
\* that were cancelled (their units are used twice); each time by exactly that.
THEOREM CouponUnitsByRaces == Spec => CouponUnitsAccounted
<1>1. StatusInv /\ CouponInv /\ [Next]_vars => UnitsKeptOrRace
  BY CouponUnitsStep DEF UnitsKeptOrRace, UnitsAccount
<1>2. UnitsKeptOrRace =>
        [\A k \in Coupons :
            UnitsOf(k)' # UnitsOf(k) =>
                \/ \E c \in Cancels :
                    /\ cancelPc[c] = "read" /\ cancelPc'[c] = "done"
                    /\ orderStatus[CancelTarget[c]] = "CANCELLED"
                    /\ CouponOf[CancelTarget[c]] = k
                    /\ UnitsOf(k)' = UnitsOf(k) + 1
                \/ \E p \in Payments :
                    /\ cancelJob[p] = "active" /\ cancelJob'[p] = "committed"
                    /\ UnitsOf(k)' = UnitsOf(k)
                            - Cardinality({o \in OrdersOf(p) : CouponOf[o] = k})
                \/ \E d \in Deliveries :
                    /\ ipnPc[d] = "checked" /\ ipnPc'[d] = "removeJob"
                    /\ UnitsOf(k)' = UnitsOf(k)
                            + Cardinality({o \in OrdersOf(PaidFor[d]) :
                                    CouponOf[o] = k
                                    /\ orderStatus[o] = "CANCELLED"})]_vars
  BY Zenon DEF UnitsKeptOrRace, UnitsKept, GivenBackTwice, KeptByJob, NotTakenAgain
<1> QED
  BY <1>1, <1>2, StatusInvariant, CouponInvariant, PTL DEF Spec, CouponUnitsAccounted

=============================================================================
