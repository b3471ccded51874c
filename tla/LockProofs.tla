----------------------------- MODULE LockProofs ------------------------------
(***************************************************************************)
(* What the SKU locks of a checkout protect.  The SKUs are looked up before *)
(* they are locked and the cart is read after: an item is bought unlocked   *)
(* when an edit moved it to another SKU in between, and in no other case.   *)
(* Where edits do not do that and a lock outlives its holder's transaction, *)
(* no item is ordered twice.                                                *)
(***************************************************************************)
EXTENDS StockProofs

\* No edit inserts an item that a checkout names or changes its SKU.  Edits of
\* quantities, deletions and edits of all other items are unrestricted.
CartsKeepSkus ==
    \A e \in Edits, p \in Checkouts :
        EditOf[e].item \in ItemsOf(p) =>
            /\ EditOf[e].op # "addToCart"
            /\ EditOf[e].op = "updateCart"
                    => EditOf[e].skuId = InitialCart[EditOf[e].item].skuId

Named == UNION {ItemsOf(p) : p \in Checkouts}

SkuKept ==
    \A i \in Named : cartItem[i] # Absent => cartItem[i].skuId = InitialCart[i].skuId

\* What a request found before locking covers what it still can find.
FoundCovers ==
    \A p \in Checkouts :
        checkoutPc[p] # "start" =>
            \A i \in FoundItems(p) : cartItem[i].skuId \in foundSkuIds[p]

\* A transaction read rows with locked SKUs, which the items always had.
ReadCovers ==
    \A p \in Checkouts :
        checkoutPc[p] \in InTransaction =>
            /\ acquired[p] = foundSkuIds[p]
            /\ \A i \in ItemsOf(p) :
                /\ readCart[p][i].skuId \in foundSkuIds[p]
                /\ readCart[p][i].skuId = InitialCart[i].skuId

CoverInv == TypeInv /\ SkuKept /\ FoundCovers /\ ReadCovers

LEMMA NamedItems ==
    ASSUME NEW p \in Checkouts
    PROVE  ItemsOf(p) \subseteq Named /\ Named \subseteq CartItems
BY BodiesAssumption DEF Named, ItemsOf, OrdersOf

\* What a step may do to the row of an item that some checkout names.
RowKept ==
    \A i \in Named :
        cartItem'[i] # Absent =>
            cartItem[i] # Absent /\ cartItem'[i].skuId = cartItem[i].skuId

\* An edit that keeps to CartsKeepSkus keeps the SKUs of the rows.
LEMMA EditKeepsRows ==
    ASSUME CartsKeepSkus, TypeInv, SkuKept, NEW e \in Edits, CartStep(e)
    PROVE  RowKept
<1> DEFINE b == EditOf[e]
<1>0. /\ cartItem \in [CartItems -> CartRow \cup {Absent}]
      /\ b.item \in CartItems /\ b.skuId \in Skus /\ b.quantity \in Nat
      /\ Absent \notin CartRow
      /\ Named \subseteq CartItems
  BY EditAssumption, RequestsAssumption, BodiesAssumption
     DEF TypeInv, TypeOK, StoreTypeOK, EditBody, Named, ItemsOf, OrdersOf
<1>1. CASE ValidateSku(e)
  BY <1>1 DEF ValidateSku, storeVars, RowKept
<1>2. CASE AddToCart(e)
  <2> DEFINE found == RowFor(OwnerOf[b.item], b.skuId)
  <2>1. cartItem' = [i \in CartItems |->
                IF i \in found
                THEN [cartItem[i] EXCEPT !.quantity = @ + b.quantity]
                ELSE IF found = {} /\ i = b.item
                THEN [skuId |-> b.skuId, quantity |-> b.quantity]
                ELSE cartItem[i]]
    BY <1>2 DEF AddToCart, WriteCart
  <2>2. b.item \notin Named
    BY <1>2 DEF AddToCart, CartsKeepSkus, Named
  <2>3. \A i \in found : /\ i \in CartItems /\ cartItem[i] # Absent
                         /\ cartItem'[i].skuId = cartItem[i].skuId
    BY <1>0, <2>1 DEF RowFor, CartRow
  <2>4. \A i \in Named \ found : cartItem'[i] = cartItem[i]
    BY <1>0, <2>1, <2>2
  <2> QED
    BY <2>3, <2>4 DEF RowKept
<1>3. CASE UpdateCart(e)
  <2>1. \/ cartItem' = cartItem
        \/ cartItem' = [cartItem EXCEPT ![b.item] = Absent]
        \/ /\ cartItem[b.item] # Absent
           /\ cartItem' = [cartItem EXCEPT ![b.item] =
                                [skuId |-> b.skuId, quantity |-> b.quantity]]
    BY <1>3 DEF UpdateCart, WriteCart
  <2>2. b.item \in Named => b.skuId = InitialCart[b.item].skuId
    BY <1>3 DEF UpdateCart, CartsKeepSkus, Named
  <2> QED
    BY <1>0, <2>1, <2>2 DEF SkuKept, RowKept
<1>4. CASE DeleteCart(e)
  BY <1>0, <1>4 DEF DeleteCart, WriteCart, RowKept
<1> QED
  BY <1>1, <1>2, <1>3, <1>4 DEF CartStep

\* Carts are written by edits, and by the checkout that deletes what it ordered.
LEMMA CartWriters ==
    ASSUME [Next]_vars
    PROVE  \/ UNCHANGED cartItem
           \/ \E p \in Checkouts : cartItem' = [i \in CartItems |->
                    IF i \in ItemsOf(p) THEN Absent ELSE cartItem[i]]
           \/ \E e \in Edits : CartStep(e)
<1> USE DEF storeVars, skuVars, orderVars, Elsewhere
<1>1. CASE UNCHANGED vars
  BY <1>1 DEF vars
<1>2. ASSUME NEW p \in Checkouts, CheckoutStep(p)
      PROVE  cartItem' = cartItem \/ cartItem' = [i \in CartItems |->
                IF i \in ItemsOf(p) THEN Absent ELSE cartItem[i]]
  BY <1>2 DEF CheckoutStep, FindCartItemsSkuIds, AcquireLock, Overloaded,
      FindCartItems, FindCartItemSkus, FindSkusAndCoupons, CommitOrder,
      WriteConflict, AbortOrder, AddJobCancelPayment, AddJobFails,
      ReleaseLocks, CrashCheckout
<1>3. ASSUME NEW p \in Purchases, PurchaseStep(p) PROVE UNCHANGED cartItem
  BY <1>3 DEF PurchaseStep, FindByIdLive, FindLaunchpadSku, CountUserPurchases,
      LimitLockTaken, AcquireSkuLock, SkuLockTaken, CommitPurchase,
      AbortPurchase, ReleaseSkuLock, CrashPurchase
<1>4. ASSUME NEW c \in Cancels, CancelStep(c) PROVE UNCHANGED cartItem
  BY <1>4 DEF CancelStep, ReadOrder, CommitCancel, AbortCancel
<1>5. ASSUME NEW d \in Deliveries, IpnStep(d) PROVE UNCHANGED cartItem
  BY <1>5 DEF IpnStep, FindTransaction, CommitPayment, AbortPayment, RemoveJob,
      RemoveJobFails
<1>6. ASSUME NEW p \in Payments, JobStep(p) PROVE UNCHANGED cartItem
  BY <1>6 DEF JobStep, StartJob, CommitJob, FailJob, CompleteJob, StallJob
<1>7. ASSUME EnvironmentStep PROVE UNCHANGED cartItem
  BY <1>7 DEF EnvironmentStep, LockExpires, PurchaseLockExpires, EndLaunchpad,
      DeleteSku
<1> QED
  BY <1>1, <1>2, <1>3, <1>4, <1>5, <1>6, <1>7, NextCases

\* So does every other step.
LEMMA RowsKept ==
    ASSUME CartsKeepSkus, TypeInv, SkuKept, [Next]_vars
    PROVE  RowKept
<1>1. CASE UNCHANGED cartItem
  BY <1>1 DEF RowKept
<1>2. ASSUME NEW p \in Checkouts,
             cartItem' = [i \in CartItems |->
                IF i \in ItemsOf(p) THEN Absent ELSE cartItem[i]]
      PROVE  RowKept
  BY <1>2, NamedItems DEF RowKept
<1> QED
  BY <1>1, <1>2, CartWriters, EditKeepsRows

-----------------------------------------------------------------------------
(***************************************************************************)
(* Only a checkout moves its own record, and there are four ways to: it     *)
(* looks its SKUs up, is granted a lock, reads its cart, or goes on.        *)
(***************************************************************************)

LooksUp(p) ==
    /\ checkoutPc[p] = "start"
    /\ checkoutPc' = [checkoutPc EXCEPT ![p] = "locking"]
    /\ foundSkuIds' = [foundSkuIds EXCEPT ![p] =
            SkusIn({cartItem[i] : i \in FoundItems(p)})]
    /\ UNCHANGED <<cartItem, acquired, readCart, lock>>

IsGranted(p) ==
    \E s \in Skus :
        /\ checkoutPc[p] \in {"locking", "overloaded"}
        /\ lock[s] = Nobody
        /\ lock' = [lock EXCEPT ![s] = p]
        /\ acquired' = [acquired EXCEPT ![p] = @ \cup {s}]
        /\ UNCHANGED <<cartItem, checkoutPc, foundSkuIds, readCart>>

ReadsCart(p) ==
    /\ checkoutPc[p] = "locking"
    /\ acquired[p] = foundSkuIds[p]
    /\ FoundItems(p) = ItemsOf(p)
    /\ readCart' = [readCart EXCEPT ![p] = [i \in CartItems |->
            IF i \in ItemsOf(p) THEN cartItem[i] ELSE Absent]]
    /\ checkoutPc' = [checkoutPc EXCEPT ![p] = "findSkus"]
    /\ UNCHANGED <<cartItem, foundSkuIds, acquired, lock>>

GoesOn(p) ==
    /\ \E l \in CheckoutPc :
        /\ checkoutPc' = [checkoutPc EXCEPT ![p] = l]
        /\ l \in InTransaction => checkoutPc[p] \in InTransaction
        /\ l = "start" => checkoutPc[p] = "start"
        /\ checkoutPc[p] = "start" => l = "start"
        /\ l \in {"overloaded", "done"} \/ checkoutPc[p] \notin {"overloaded", "done"}
    /\ UNCHANGED <<foundSkuIds, acquired, readCart>>
    /\ \/ UNCHANGED lock
       \/ /\ checkoutPc' = [checkoutPc EXCEPT ![p] = "done"]
          /\ lock' = [s \in Skus |-> IF lock[s] = p THEN Nobody ELSE lock[s]]

\* Every step of a checkout is one of the four.
LEMMA CheckoutMoves ==
    ASSUME TypeInv, NEW p \in Checkouts, CheckoutStep(p)
    PROVE  LooksUp(p) \/ IsGranted(p) \/ ReadsCart(p) \/ GoesOn(p)
<1> USE DEF storeVars, Goto, CheckoutPc, InTransaction
<1>0. /\ checkoutPc \in [Checkouts -> CheckoutPc]
      /\ checkoutPc = [checkoutPc EXCEPT ![p] = checkoutPc[p]]
  BY DEF TypeInv, TypeOK, CheckoutTypeOK
<1>1. CASE FindCartItemsSkuIds(p)
  BY <1>1 DEF FindCartItemsSkuIds, LooksUp
<1>2. CASE \E s \in Skus : AcquireLock(p, s)
  BY <1>2 DEF AcquireLock, IsGranted
<1>3. CASE Overloaded(p)
  BY <1>0, <1>3 DEF Overloaded, GoesOn
<1>4. CASE FindCartItems(p)
  <2>1. CASE Duplicated(p) \/ ~AllFound(p)
    BY <1>0, <1>4, <2>1 DEF FindCartItems, GoesOn
  <2>2. CASE ~(Duplicated(p) \/ ~AllFound(p))
    BY <1>4, <2>2, AllItemsFound DEF FindCartItems, LocksGranted, ReadsCart
  <2> QED
    BY <2>1, <2>2
<1>5. CASE FindCartItemSkus(p)
  BY <1>0, <1>5 DEF FindCartItemSkus, GoesOn
<1>6. CASE FindSkusAndCoupons(p)
  BY <1>0, <1>6 DEF FindSkusAndCoupons, GoesOn
<1>7. CASE CommitOrder(p)
  BY <1>0, <1>7 DEF CommitOrder, GoesOn
<1>8. CASE WriteConflict(p)
  BY <1>0, <1>8 DEF WriteConflict, GoesOn
<1>9. CASE AbortOrder(p)
  BY <1>0, <1>9 DEF AbortOrder, GoesOn
<1>10. CASE AddJobCancelPayment(p)
  BY <1>0, <1>10 DEF AddJobCancelPayment, GoesOn
<1>11. CASE AddJobFails(p)
  BY <1>0, <1>11 DEF AddJobFails, GoesOn
<1>12. CASE ReleaseLocks(p)
  BY <1>0, <1>12 DEF ReleaseLocks, GoesOn
<1>13. CASE CrashCheckout(p)
  BY <1>0, <1>13 DEF CrashCheckout, GoesOn
<1> QED
  BY <1>1, <1>2, <1>3, <1>4, <1>5, <1>6, <1>7, <1>8, <1>9, <1>10, <1>11,
     <1>12, <1>13 DEF CheckoutStep

\* A step by nobody's checkout leaves the records of the checkouts alone.
LEMMA RecordsMove ==
    ASSUME TypeInv, [Next]_vars
    PROVE  \/ UNCHANGED checkoutVars
           \/ \E p \in Checkouts : LooksUp(p) \/ IsGranted(p) \/ ReadsCart(p) \/ GoesOn(p)
<1>1. CASE UNCHANGED vars
  BY <1>1 DEF vars, checkoutVars
<1>2. CASE Next
  BY <1>2, NextCases, CheckoutMoves DEF EnvironmentStep, LockExpires
<1> QED
  BY <1>1, <1>2

LEMMA CoverStep ==
    ASSUME CartsKeepSkus, CoverInv, [Next]_vars
    PROVE  CoverInv'
<1>0. /\ checkoutPc \in [Checkouts -> CheckoutPc]
      /\ cartItem \in [CartItems -> CartRow \cup {Absent}]
      /\ foundSkuIds \in [Checkouts -> SUBSET Skus]
      /\ acquired \in [Checkouts -> SUBSET Skus]
      /\ readCart \in [Checkouts -> [CartItems -> CartRow \cup {Absent}]]
      /\ TypeInv /\ SkuKept /\ FoundCovers /\ ReadCovers
  BY DEF CoverInv, TypeInv, TypeOK, CheckoutTypeOK, StoreTypeOK
<1>1. RowKept
  BY <1>0, RowsKept
<1>2. TypeInv'
  BY <1>0, TypeStep
<1>3. SkuKept'
  BY <1>0, <1>1 DEF SkuKept, RowKept, Named
<1>4. \A q \in Checkouts : \A i \in FoundItems(q)' :
            i \in FoundItems(q) /\ cartItem'[i].skuId = cartItem[i].skuId
  BY <1>1, NamedItems DEF FoundItems, RowKept
<1>5. CASE UNCHANGED checkoutVars
  BY <1>0, <1>2, <1>3, <1>4, <1>5
     DEF CoverInv, FoundCovers, ReadCovers, checkoutVars
<1>6. ASSUME NEW p \in Checkouts, LooksUp(p)
      PROVE  FoundCovers' /\ ReadCovers'
  <2>1. \A q \in Checkouts \ {p} : /\ foundSkuIds'[q] = foundSkuIds[q]
                                   /\ checkoutPc'[q] = checkoutPc[q]
    BY <1>0, <1>6 DEF LooksUp
  <2>2. /\ foundSkuIds'[p] = SkusIn({cartItem[i] : i \in FoundItems(p)})
        /\ checkoutPc'[p] = "locking"
        /\ UNCHANGED <<acquired, readCart>>
    BY <1>0, <1>6 DEF LooksUp
  <2>3. \A i \in FoundItems(p)' : cartItem'[i].skuId \in foundSkuIds'[p]
    BY <1>4, <2>2 DEF SkusIn
  <2>4. FoundCovers'
    BY <1>0, <1>4, <2>1, <2>3 DEF FoundCovers
  <2>5. ReadCovers'
    BY <1>0, <2>1, <2>2 DEF ReadCovers, InTransaction
  <2> QED
    BY <2>4, <2>5
<1>7. ASSUME NEW p \in Checkouts, IsGranted(p)
      PROVE  FoundCovers' /\ ReadCovers'
  <2>1. /\ UNCHANGED <<checkoutPc, foundSkuIds, readCart>>
        /\ checkoutPc[p] \notin InTransaction
        /\ \A q \in Checkouts \ {p} : acquired'[q] = acquired[q]
    BY <1>0, <1>7 DEF IsGranted, InTransaction
  <2> QED
    BY <1>0, <1>4, <2>1 DEF FoundCovers, ReadCovers
<1>8. ASSUME NEW p \in Checkouts, ReadsCart(p)
      PROVE  FoundCovers' /\ ReadCovers'
  <2>1. /\ UNCHANGED <<foundSkuIds, acquired>>
        /\ checkoutPc[p] = "locking"
        /\ acquired[p] = foundSkuIds[p]
        /\ FoundItems(p) = ItemsOf(p)
        /\ \A q \in Checkouts \ {p} : /\ readCart'[q] = readCart[q]
                                      /\ checkoutPc'[q] = checkoutPc[q]
    BY <1>0, <1>8 DEF ReadsCart
  <2>2. \A i \in ItemsOf(p) : readCart'[p][i] = cartItem[i]
    BY <1>0, <1>8, NamedItems DEF ReadsCart
  <2>3. \A i \in ItemsOf(p) : /\ readCart'[p][i].skuId \in foundSkuIds[p]
                              /\ readCart'[p][i].skuId = InitialCart[i].skuId
    <3>1. \A i \in ItemsOf(p) : i \in FoundItems(p) /\ i \in Named /\ cartItem[i] # Absent
      BY <2>1, NamedItems DEF FoundItems
    <3>2. \A i \in FoundItems(p) : cartItem[i].skuId \in foundSkuIds[p]
      BY <1>0, <2>1 DEF FoundCovers
    <3> QED
      BY <1>0, <2>2, <3>1, <3>2 DEF SkuKept
  <2>4. FoundCovers'
    BY <1>0, <1>4, <2>1 DEF FoundCovers
  <2>5. ReadCovers'
    <3> SUFFICES ASSUME NEW q \in Checkouts, checkoutPc'[q] \in InTransaction
                 PROVE  /\ acquired'[q] = foundSkuIds'[q]
                        /\ \A i \in ItemsOf(q) :
                            /\ readCart'[q][i].skuId \in foundSkuIds'[q]
                            /\ readCart'[q][i].skuId = InitialCart[i].skuId
      BY DEF ReadCovers
    <3>1. CASE q = p
      BY <2>1, <2>3, <3>1
    <3>2. CASE q # p
      BY <1>0, <2>1, <3>2 DEF ReadCovers
    <3> QED
      BY <3>1, <3>2
  <2> QED
    BY <2>4, <2>5
<1>9. ASSUME NEW p \in Checkouts, GoesOn(p)
      PROVE  FoundCovers' /\ ReadCovers'
  <2>1. /\ UNCHANGED <<foundSkuIds, acquired, readCart>>
        /\ \A q \in Checkouts :
            /\ checkoutPc'[q] \in InTransaction => checkoutPc[q] \in InTransaction
            /\ checkoutPc'[q] # "start" => checkoutPc[q] # "start"
    BY <1>0, <1>9 DEF GoesOn
  <2> QED
    BY <1>0, <1>4, <2>1 DEF FoundCovers, ReadCovers
<1>10. FoundCovers' /\ ReadCovers'
  BY <1>0, <1>4, <1>5, <1>6, <1>7, <1>8, <1>9, RecordsMove DEF CoverInv
<1> QED
  BY <1>2, <1>3, <1>10 DEF CoverInv

LEMMA InitCover == Init => CoverInv
<1> SUFFICES ASSUME Init PROVE CoverInv
  OBVIOUS
<1>1. TypeInv
  BY InitType
<1> QED
  BY <1>1 DEF Init, StoreInit, CheckoutInit, CoverInv, SkuKept, FoundCovers,
     ReadCovers, InTransaction

-----------------------------------------------------------------------------
(***************************************************************************)
(* With carts edited freely: a row a request finds after its lookup has a   *)
(* SKU the lookup named, or an edit has moved it there.                     *)
(***************************************************************************)

\* The moves that edits have made: which item, to which SKU.
Moves ==
    {<<EditOf[e].item, EditOf[e].skuId>> :
        e \in {f \in Edits : /\ editPc[f] = "done"
                             /\ EditOf[f].op \in {"addToCart", "updateCart"}}}

FoundOrMoved ==
    \A p \in Checkouts :
        checkoutPc[p] # "start" =>
            \A i \in FoundItems(p) :
                cartItem[i].skuId \in foundSkuIds[p] \/ <<i, cartItem[i].skuId>> \in Moves

ReadOrMoved ==
    \A p \in Checkouts :
        checkoutPc[p] \in InTransaction =>
            /\ acquired[p] = foundSkuIds[p]
            /\ \A i \in ItemsOf(p) :
                \/ readCart[p][i].skuId \in foundSkuIds[p]
                \/ <<i, readCart[p][i].skuId>> \in Moves

MoveInv == TypeInv /\ FoundOrMoved /\ ReadOrMoved

RowKeptOrMoved ==
    \A i \in CartItems :
        cartItem'[i] # Absent =>
            \/ cartItem[i] # Absent /\ cartItem'[i].skuId = cartItem[i].skuId
            \/ <<i, cartItem'[i].skuId>> \in Moves'

\* An edit that has ended has ended for good.
LEMMA MovesStay ==
    ASSUME TypeInv, [Next]_vars
    PROVE  Moves \subseteq Moves'
<1> USE DEF cartVars
<1>0. editPc \in [Edits -> {"start", "validated", "done"}]
  BY DEF TypeInv, TypeOK, CartTypeOK
<1>1. CASE UNCHANGED editPc
  BY <1>1 DEF Moves
<1>2. ASSUME NEW e \in Edits, CartStep(e)
      PROVE  \A f \in Edits : editPc[f] = "done" => editPc'[f] = "done"
  BY <1>0, <1>2 DEF CartStep, ValidateSku, AddToCart, UpdateCart, DeleteCart, WriteCart
<1>3. UNCHANGED editPc \/ \E e \in Edits : CartStep(e)
  BY NextCases DEF vars, EnvironmentStep
<1> QED
  BY <1>1, <1>2, <1>3 DEF Moves

\* An edit puts the item it names on the SKU it names and moves no other.
LEMMA EditMovesRow ==
    ASSUME TypeInv, NEW e \in Edits, CartStep(e)
    PROVE  RowKeptOrMoved
<1> DEFINE b == EditOf[e]
<1>0. /\ cartItem \in [CartItems -> CartRow \cup {Absent}]
      /\ editPc \in [Edits -> {"start", "validated", "done"}]
      /\ b.item \in CartItems /\ b.skuId \in Skus /\ b.quantity \in Nat
      /\ Absent \notin CartRow
  BY EditAssumption, RequestsAssumption
     DEF TypeInv, TypeOK, StoreTypeOK, CartTypeOK, EditBody
<1>1. CASE UNCHANGED cartItem
  BY <1>1 DEF RowKeptOrMoved
<1>2. CASE AddToCart(e)
  <2> DEFINE found == RowFor(OwnerOf[b.item], b.skuId)
  <2>1. /\ cartItem' = [i \in CartItems |->
                IF i \in found
                THEN [cartItem[i] EXCEPT !.quantity = @ + b.quantity]
                ELSE IF found = {} /\ i = b.item
                THEN [skuId |-> b.skuId, quantity |-> b.quantity]
                ELSE cartItem[i]]
        /\ b.op = "addToCart"
        /\ editPc'[e] = "done"
    BY <1>0, <1>2 DEF AddToCart, WriteCart
  <2>2. \A i \in found : /\ i \in CartItems /\ cartItem[i] # Absent
                         /\ cartItem'[i].skuId = cartItem[i].skuId
    BY <1>0, <2>1 DEF RowFor, CartRow
  <2>3. <<b.item, b.skuId>> \in Moves'
    BY <2>1 DEF Moves
  <2>4. \A i \in CartItems \ found :
            \/ cartItem'[i] = cartItem[i]
            \/ i = b.item /\ cartItem'[i].skuId = b.skuId
    BY <2>1
  <2> QED
    BY <2>2, <2>3, <2>4 DEF RowKeptOrMoved
<1>3. CASE UpdateCart(e)
  <2>1. /\ \/ cartItem' = cartItem
           \/ cartItem' = [cartItem EXCEPT ![b.item] = Absent]
           \/ cartItem' = [cartItem EXCEPT ![b.item] =
                                [skuId |-> b.skuId, quantity |-> b.quantity]]
        /\ b.op = "updateCart"
        /\ editPc'[e] = "done"
    BY <1>0, <1>3 DEF UpdateCart, WriteCart
  <2>2. <<b.item, b.skuId>> \in Moves'
    BY <2>1 DEF Moves
  <2> QED
    BY <1>0, <2>1, <2>2 DEF RowKeptOrMoved
<1>4. CASE DeleteCart(e)
  <2>1. cartItem' = [cartItem EXCEPT ![b.item] = Absent]
    BY <1>4 DEF DeleteCart, WriteCart
  <2> QED
    BY <1>0, <2>1 DEF RowKeptOrMoved
<1> QED
  BY <1>1, <1>2, <1>3, <1>4 DEF CartStep, ValidateSku, storeVars

\* Checkouts only delete rows, and nobody else writes the cart.
LEMMA RowsMove ==
    ASSUME TypeInv, [Next]_vars
    PROVE  RowKeptOrMoved
<1>1. CASE UNCHANGED cartItem
  BY <1>1 DEF RowKeptOrMoved
<1>2. ASSUME NEW p \in Checkouts,
             cartItem' = [i \in CartItems |->
                IF i \in ItemsOf(p) THEN Absent ELSE cartItem[i]]
      PROVE  RowKeptOrMoved
  BY <1>2 DEF RowKeptOrMoved
<1> QED
  BY <1>1, <1>2, CartWriters, EditMovesRow

LEMMA MoveStep ==
    ASSUME MoveInv, [Next]_vars
    PROVE  MoveInv'
<1>0. /\ checkoutPc \in [Checkouts -> CheckoutPc]
      /\ cartItem \in [CartItems -> CartRow \cup {Absent}]
      /\ foundSkuIds \in [Checkouts -> SUBSET Skus]
      /\ acquired \in [Checkouts -> SUBSET Skus]
      /\ readCart \in [Checkouts -> [CartItems -> CartRow \cup {Absent}]]
      /\ TypeInv /\ FoundOrMoved /\ ReadOrMoved
  BY DEF MoveInv, TypeInv, TypeOK, CheckoutTypeOK, StoreTypeOK
<1>1. TypeInv'
  BY <1>0, TypeStep
<1>2. Moves \subseteq Moves'
  BY <1>0, MovesStay
<1>3. \A q \in Checkouts : \A i \in FoundItems(q)' :
            \/ i \in FoundItems(q) /\ cartItem'[i].skuId = cartItem[i].skuId
            \/ <<i, cartItem'[i].skuId>> \in Moves'
  BY <1>0, RowsMove, NamedItems DEF FoundItems, RowKeptOrMoved
<1>4. ASSUME NEW q \in Checkouts, checkoutPc[q] # "start",
             foundSkuIds'[q] = foundSkuIds[q]
      PROVE  \A i \in FoundItems(q)' :
                \/ cartItem'[i].skuId \in foundSkuIds'[q]
                \/ <<i, cartItem'[i].skuId>> \in Moves'
  BY <1>0, <1>2, <1>3, <1>4 DEF FoundOrMoved
<1>5. ASSUME NEW q \in Checkouts, checkoutPc[q] \in InTransaction,
             foundSkuIds'[q] = foundSkuIds[q], acquired'[q] = acquired[q],
             readCart'[q] = readCart[q]
      PROVE  /\ acquired'[q] = foundSkuIds'[q]
             /\ \A i \in ItemsOf(q) :
                    \/ readCart'[q][i].skuId \in foundSkuIds'[q]
                    \/ <<i, readCart'[q][i].skuId>> \in Moves'
  BY <1>0, <1>2, <1>5 DEF ReadOrMoved
<1>6. ASSUME NEW p \in Checkouts, LooksUp(p)
      PROVE  FoundOrMoved' /\ ReadOrMoved'
  <2>1. \A q \in Checkouts \ {p} : /\ foundSkuIds'[q] = foundSkuIds[q]
                                   /\ checkoutPc'[q] = checkoutPc[q]
    BY <1>0, <1>6 DEF LooksUp
  <2>2. /\ foundSkuIds'[p] = SkusIn({cartItem[i] : i \in FoundItems(p)})
        /\ checkoutPc'[p] = "locking"
        /\ UNCHANGED <<cartItem, acquired, readCart>>
    BY <1>0, <1>6 DEF LooksUp
  <2>3. \A i \in FoundItems(p)' : cartItem'[i].skuId \in foundSkuIds'[p]
    BY <2>2 DEF SkusIn, FoundItems
  <2>4. FoundOrMoved'
    BY <1>4, <2>1, <2>3 DEF FoundOrMoved
  <2>5. ReadOrMoved'
    BY <1>5, <2>1, <2>2 DEF ReadOrMoved, InTransaction
  <2> QED
    BY <2>4, <2>5
<1>7. ASSUME NEW p \in Checkouts, IsGranted(p)
      PROVE  FoundOrMoved' /\ ReadOrMoved'
  <2>1. /\ UNCHANGED <<checkoutPc, foundSkuIds, readCart>>
        /\ checkoutPc[p] \notin InTransaction
        /\ \A q \in Checkouts \ {p} : acquired'[q] = acquired[q]
    BY <1>0, <1>7 DEF IsGranted, InTransaction
  <2>2. FoundOrMoved'
    BY <1>4, <2>1 DEF FoundOrMoved
  <2>3. ReadOrMoved'
    BY <1>5, <2>1 DEF ReadOrMoved
  <2> QED
    BY <2>2, <2>3
<1>8. ASSUME NEW p \in Checkouts, ReadsCart(p)
      PROVE  FoundOrMoved' /\ ReadOrMoved'
  <2>1. /\ UNCHANGED <<cartItem, foundSkuIds, acquired>>
        /\ checkoutPc[p] = "locking"
        /\ acquired[p] = foundSkuIds[p]
        /\ FoundItems(p) = ItemsOf(p)
        /\ \A q \in Checkouts \ {p} : /\ readCart'[q] = readCart[q]
                                      /\ checkoutPc'[q] = checkoutPc[q]
    BY <1>0, <1>8 DEF ReadsCart
  <2>2. \A i \in ItemsOf(p) : readCart'[p][i] = cartItem[i]
    BY <1>0, <1>8, NamedItems DEF ReadsCart
  <2>3. \A i \in ItemsOf(p) : \/ readCart'[p][i].skuId \in foundSkuIds'[p]
                              \/ <<i, readCart'[p][i].skuId>> \in Moves'
    <3>1. \A i \in ItemsOf(p) : \/ cartItem[i].skuId \in foundSkuIds[p]
                                \/ <<i, cartItem[i].skuId>> \in Moves
      BY <1>0, <2>1 DEF FoundOrMoved
    <3> QED
      BY <1>2, <2>1, <2>2, <3>1
  <2>4. FoundOrMoved'
    BY <1>4, <2>1 DEF FoundOrMoved
  <2>5. ReadOrMoved'
    <3> SUFFICES ASSUME NEW q \in Checkouts, checkoutPc'[q] \in InTransaction
                 PROVE  /\ acquired'[q] = foundSkuIds'[q]
                        /\ \A i \in ItemsOf(q) :
                            \/ readCart'[q][i].skuId \in foundSkuIds'[q]
                            \/ <<i, readCart'[q][i].skuId>> \in Moves'
      BY DEF ReadOrMoved
    <3>1. CASE q = p
      BY <2>1, <2>3, <3>1
    <3>2. CASE q # p
      BY <1>5, <2>1, <3>2
    <3> QED
      BY <3>1, <3>2
  <2> QED
    BY <2>4, <2>5
<1>9. ASSUME NEW p \in Checkouts, GoesOn(p)
      PROVE  FoundOrMoved' /\ ReadOrMoved'
  <2>1. /\ UNCHANGED <<foundSkuIds, acquired, readCart>>
        /\ \A q \in Checkouts :
            /\ checkoutPc'[q] \in InTransaction => checkoutPc[q] \in InTransaction
            /\ checkoutPc'[q] # "start" => checkoutPc[q] # "start"
    BY <1>0, <1>9 DEF GoesOn
  <2>2. FoundOrMoved'
    BY <1>4, <2>1 DEF FoundOrMoved
  <2>3. ReadOrMoved'
    BY <1>5, <2>1 DEF ReadOrMoved
  <2> QED
    BY <2>2, <2>3
<1>10. CASE UNCHANGED checkoutVars
  <2>1. FoundOrMoved'
    BY <1>4, <1>10 DEF FoundOrMoved, checkoutVars
  <2>2. ReadOrMoved'
    BY <1>5, <1>10 DEF ReadOrMoved, checkoutVars
  <2> QED
    BY <1>1, <2>1, <2>2 DEF MoveInv
<1> QED
  BY <1>0, <1>1, <1>6, <1>7, <1>8, <1>9, <1>10, RecordsMove DEF MoveInv

\* Whatever edits do to the cart meanwhile, a transaction holds a granted lock
\* for every SKU it is about to write, save for items that an edit which has
\* ended put on the SKU they are bought as.
THEOREM UnlockedIfMoved == Spec => []UnlockedOnlyIfMoved
<1>1. Init => MoveInv
  BY InitType DEF Init, CheckoutInit, MoveInv, FoundOrMoved, ReadOrMoved, InTransaction
<1>2. MoveInv /\ [Next]_vars => MoveInv'
  BY MoveStep
<1>3. MoveInv => UnlockedOnlyIfMoved
  BY DEF MoveInv, ReadOrMoved, UnlockedOnlyIfMoved, MovedTo, Moves, InTransaction
<1> QED
  BY <1>1, <1>2, <1>3, PTL DEF Spec

-----------------------------------------------------------------------------
(***************************************************************************)
(* Mutual exclusion.  Where locks outlive their holders' transactions, two  *)
(* checkouts of one cart item are never in their transactions together: the *)
(* item's SKU is locked by both.                                            *)
(***************************************************************************)

Holder ==
    \A p \in Checkouts :
        checkoutPc[p] \notin {"overloaded", "done"} =>
            \A s \in acquired[p] : lock[s] = p

\* An item that was ordered has left the cart.
OrderedGone ==
    \A o \in Placed : \A i \in CartItemIdsOf[o] : cartItem[i] = Absent

\* What a transaction read has not been ordered meanwhile.
NotYetOrdered ==
    \A p \in Checkouts :
        checkoutPc[p] \in InTransaction =>
            \A o \in Placed : CartItemIdsOf[o] \cap ItemsOf(p) = {}

ExclusionInv == Holder /\ OrderedGone /\ NotYetOrdered /\ CartItemOrderedOnce

\* Nobody takes a lock from a checkout that is still at work.
LEMMA HolderStep ==
    ASSUME ~LockMayExpire, TypeInv, Holder, [Next]_vars
    PROVE  Holder'
<1>0. /\ checkoutPc \in [Checkouts -> CheckoutPc]
      /\ acquired \in [Checkouts -> SUBSET Skus]
      /\ lock \in [Skus -> Payments \cup {Nobody}]
      /\ Checkouts \cap Purchases = {}
      /\ Nobody \notin Checkouts /\ Nobody \notin Purchases
  BY RequestsAssumption DEF TypeInv, TypeOK, CheckoutTypeOK, StoreTypeOK, Payments
<1>1. ASSUME UNCHANGED checkoutVars,
             \A s \in Skus : lock[s] \in Checkouts =>
                lock'[s] = lock[s] \/ checkoutPc[lock[s]] \in {"overloaded", "done"}
      PROVE  Holder'
  BY <1>0, <1>1 DEF Holder, checkoutVars
<1>2. ASSUME NEW p \in Checkouts, LooksUp(p) PROVE Holder'
  BY <1>0, <1>2 DEF LooksUp, Holder
<1>3. ASSUME NEW p \in Checkouts, IsGranted(p) PROVE Holder'
  <2>1. PICK s \in Skus :
            /\ lock[s] = Nobody
            /\ lock' = [lock EXCEPT ![s] = p]
            /\ acquired' = [acquired EXCEPT ![p] = @ \cup {s}]
            /\ UNCHANGED checkoutPc
    BY <1>3 DEF IsGranted
  <2> QED
    BY <1>0, <2>1 DEF Holder
<1>4. ASSUME NEW p \in Checkouts, ReadsCart(p) PROVE Holder'
  BY <1>0, <1>4 DEF ReadsCart, Holder
<1>5. ASSUME NEW p \in Checkouts, GoesOn(p) PROVE Holder'
  <2>1. /\ \A q \in Checkouts : checkoutPc'[q] \notin {"overloaded", "done"}
                                    => checkoutPc[q] \notin {"overloaded", "done"}
        /\ UNCHANGED acquired
    BY <1>0, <1>5 DEF GoesOn
  <2>2. CASE UNCHANGED lock
    BY <2>1, <2>2 DEF Holder
  <2>3. CASE /\ checkoutPc' = [checkoutPc EXCEPT ![p] = "done"]
             /\ lock' = [s \in Skus |-> IF lock[s] = p THEN Nobody ELSE lock[s]]
    BY <1>0, <2>1, <2>3 DEF Holder
  <2> QED
    BY <1>5, <2>2, <2>3 DEF GoesOn
<1>6. CASE UNCHANGED vars
  BY <1>1, <1>6 DEF vars, storeVars
<1>7. CASE Next
  <2> USE DEF storeVars, skuVars, orderVars, Elsewhere
  <2>1. ASSUME NEW p \in Purchases, PurchaseStep(p), UNCHANGED checkoutVars
        PROVE  Holder'
    <3>1. \/ UNCHANGED lock
          \/ \E s \in Skus : lock[s] = Nobody /\ lock' = [lock EXCEPT ![s] = p]
          \/ lock' = [s \in Skus |-> IF lock[s] = p THEN Nobody ELSE lock[s]]
      BY <2>1, PurchaseAssumption
         DEF PurchaseStep, FindByIdLive, FindLaunchpadSku,
        CountUserPurchases, LimitLockTaken, AcquireSkuLock,
             SkuLockTaken, CommitPurchase, AbortPurchase, ReleaseSkuLock,
             CrashPurchase
    <3>2. \A s \in Skus : lock[s] \in Checkouts => lock'[s] = lock[s]
      BY <1>0, <3>1
    <3> QED
      BY <1>1, <2>1, <3>2
  <2>2. ASSUME NEW c \in Cancels, CancelStep(c) PROVE UNCHANGED lock
    BY <2>2 DEF CancelStep, ReadOrder, CommitCancel, AbortCancel
  <2>3. ASSUME NEW d \in Deliveries, IpnStep(d) PROVE UNCHANGED lock
    BY <2>3 DEF IpnStep, FindTransaction, CommitPayment, AbortPayment, RemoveJob,
        RemoveJobFails
  <2>4. ASSUME NEW p \in Payments, JobStep(p) PROVE UNCHANGED lock
    BY <2>4 DEF JobStep, StartJob, CommitJob, FailJob, CompleteJob, StallJob
  <2>5. ASSUME NEW e \in Edits, CartStep(e) PROVE UNCHANGED lock
    BY <2>5 DEF CartStep, ValidateSku, AddToCart, UpdateCart, DeleteCart, WriteCart
  <2>6. ASSUME EnvironmentStep PROVE Holder'
    <3>1. ASSUME NEW s \in Skus, LockExpires(s) PROVE Holder'
      <4>1. /\ checkoutPc[lock[s]] \in {"overloaded", "done"}
            /\ lock' = [lock EXCEPT ![s] = Nobody]
            /\ UNCHANGED checkoutVars
        BY <3>1 DEF LockExpires
      <4> QED
        BY <1>0, <1>1, <4>1
    <3>2. ASSUME NEW s \in Skus, PurchaseLockExpires(s), UNCHANGED checkoutVars
          PROVE  Holder'
      BY <1>0, <1>1, <3>2 DEF PurchaseLockExpires
    <3>3. ASSUME UNCHANGED checkoutVars,
                 \/ \E l \in Launchpads : EndLaunchpad(l)
                 \/ \E s \in Skus : DeleteSku(s)
          PROVE  Holder'
      BY <1>1, <3>3 DEF EndLaunchpad, DeleteSku
    <3> QED
      BY <2>6, <3>1, <3>2, <3>3 DEF EnvironmentStep
  <2> QED
    BY <1>1, <1>2, <1>3, <1>4, <1>5, <1>7, <2>1, <2>2, <2>3, <2>4, <2>5, <2>6,
       NextCases, CheckoutMoves
<1> QED
  BY <1>6, <1>7

\* Orders are placed by the two commits only, and stay placed.
LEMMA PlacedCases ==
    ASSUME StatusInv, [Next]_vars
    PROVE  \/ Placed' = Placed
           \/ \E p \in Checkouts : CommitOrder(p) /\ Placed' = Placed \cup OrdersOf(p)
           \/ \E p \in Purchases : Placed' = Placed \cup OrdersOf(p)
<1>0. /\ orderStatus \in [Orders -> OrderStatus \cup {"none"}]
      /\ PaymentOrderAgreement /\ CancelSeen
  BY DEF StatusInv, TypeInv, TypeOK, StoreTypeOK
<1>1. ASSUME NEW p \in Checkouts, CommitOrder(p)
      PROVE  Placed' = Placed \cup OrdersOf(p)
  BY <1>0, <1>1 DEF CommitOrder, Placed, OrdersOf
<1>2. ASSUME NEW p \in Purchases, CommitPurchase(p)
      PROVE  Placed' = Placed \cup OrdersOf(p)
  BY <1>0, <1>2 DEF CommitPurchase, Placed, OrdersOf
<1>3. ASSUME NEW c \in Cancels, CommitCancel(c)
      PROVE  Placed' = Placed
  <2>1. orderStatus[CancelTarget[c]] # "none"
    BY <1>0, <1>3 DEF CommitCancel, CancelSeen, Cancelling
  <2> QED
    BY <1>0, <1>3, <2>1 DEF CommitCancel, Placed
<1>4. ASSUME NEW d \in Deliveries, CommitPayment(d)
      PROVE  Placed' = Placed
  <2>1. \A o \in OrdersOf(PaidFor[d]) : orderStatus[o] # "none"
    BY <1>0, <1>4 DEF CommitPayment, Payable, PaymentOrderAgreement, OrdersOf
  <2> QED
    BY <1>0, <1>4, <2>1 DEF CommitPayment, PaidOrders, Placed
<1>5. ASSUME NEW p \in Payments, CommitJob(p)
      PROVE  Placed' = Placed
  BY <1>0, <1>5 DEF CommitJob, Placed
<1>6. CASE UNCHANGED orderStatus
  BY <1>6 DEF Placed
<1> QED
  BY <1>1, <1>2, <1>3, <1>4, <1>5, <1>6, CommitCases

\* Items named by placed orders belong to checkouts.
LEMMA PlacedNamed ==
    ASSUME NEW o \in Orders, NEW i \in CartItemIdsOf[o]
    PROVE  /\ PaymentOf[o] \in Checkouts
           /\ i \in ItemsOf(PaymentOf[o]) /\ i \in Named
<1>1. PaymentOf[o] \in Payments /\ o \in OrdersOf(PaymentOf[o])
  BY BodiesAssumption DEF OrdersOf
<1>2. PaymentOf[o] \notin Purchases
  BY <1>1, PurchaseAssumption
<1>3. PaymentOf[o] \in Checkouts
  BY <1>1, <1>2 DEF Payments
<1> QED
  BY <1>1, <1>3 DEF ItemsOf, Named

\* Two checkouts in their transactions name no common item.
LEMMA TransactionsApart ==
    ASSUME TypeInv, ReadCovers, Holder,
           NEW p \in Checkouts, checkoutPc[p] \in InTransaction,
           NEW q \in Checkouts, checkoutPc[q] \in InTransaction,
           NEW i \in ItemsOf(p), i \in ItemsOf(q)
    PROVE  p = q
<1>1. readCart[p][i].skuId \in acquired[p] /\ readCart[q][i].skuId \in acquired[q]
  BY DEF ReadCovers
<1>2. readCart[p][i].skuId = readCart[q][i].skuId
  BY DEF ReadCovers
<1>3. /\ checkoutPc[p] \notin {"overloaded", "done"}
      /\ checkoutPc[q] \notin {"overloaded", "done"}
  BY DEF InTransaction
<1> QED
  BY <1>1, <1>2, <1>3 DEF Holder

\* Whoever is in its transaction after a step was there before, or has just
\* read all its items in the cart.
LEMMA TransactionMove ==
    ASSUME TypeInv, [Next]_vars, NEW q \in Checkouts, checkoutPc'[q] \in InTransaction
    PROVE  \/ checkoutPc[q] \in InTransaction
           \/ /\ \A i \in ItemsOf(q) : cartItem[i] # Absent
              /\ \A p \in Checkouts : ~CommitOrder(p)
<1>0. checkoutPc \in [Checkouts -> CheckoutPc]
  BY DEF TypeInv, TypeOK, CheckoutTypeOK
<1>1. CASE UNCHANGED checkoutVars
  BY <1>1 DEF checkoutVars
<1>2. ASSUME NEW p \in Checkouts, LooksUp(p) \/ IsGranted(p) \/ GoesOn(p)
      PROVE  checkoutPc[q] \in InTransaction
  BY <1>0, <1>2 DEF LooksUp, IsGranted, GoesOn, InTransaction
<1>3. ASSUME NEW p \in Checkouts, ReadsCart(p), q # p
      PROVE  checkoutPc[q] \in InTransaction
  BY <1>0, <1>3 DEF ReadsCart
<1>4. ASSUME ReadsCart(q)
      PROVE  /\ \A i \in ItemsOf(q) : cartItem[i] # Absent
             /\ \A p \in Checkouts : ~CommitOrder(p)
  <2>1. \A i \in ItemsOf(q) : cartItem[i] # Absent
    BY <1>4 DEF ReadsCart, FoundItems
  <2>2. \A p \in Checkouts : ~CommitOrder(p)
    BY <1>0, <1>4 DEF ReadsCart, CommitOrder, Goto
  <2> QED
    BY <2>1, <2>2
<1> QED
  BY <1>1, <1>2, <1>3, <1>4, RecordsMove

LEMMA ExclusionStep ==
    ASSUME ~LockMayExpire, CartsKeepSkus, StatusInv, CartInv, CoverInv,
           ExclusionInv, [Next]_vars
    PROVE  ExclusionInv'
<1>0. TypeInv /\ SkuKept /\ ReadCovers /\ ReadUnique
      /\ Holder /\ OrderedGone /\ NotYetOrdered /\ CartItemOrderedOnce
  BY DEF StatusInv, CartInv, CoverInv, ExclusionInv
<1>1. Holder'
  BY <1>0, HolderStep
<1>2. \A o \in Placed : \A i \in CartItemIdsOf[o] : cartItem'[i] = Absent
  <2>1. RowKept
    BY <1>0, RowsKept
  <2> QED
    BY <1>0, <2>1, PlacedNamed DEF RowKept, OrderedGone, Placed
<1>3. ASSUME NEW q \in Checkouts, checkoutPc'[q] \in InTransaction
      PROVE  \A o \in Placed : CartItemIdsOf[o] \cap ItemsOf(q) = {}
  BY <1>0, <1>3, TransactionMove DEF NotYetOrdered, OrderedGone
<1>4. CASE Placed' = Placed
  BY <1>0, <1>1, <1>2, <1>3, <1>4
     DEF ExclusionInv, OrderedGone, NotYetOrdered, CartItemOrderedOnce, Placed
<1>5. ASSUME NEW p \in Purchases, Placed' = Placed \cup OrdersOf(p)
      PROVE  ExclusionInv'
  <2>1. \A o \in OrdersOf(p) : CartItemIdsOf[o] = {}
    BY PurchaseAssumption
  <2> QED
    BY <1>0, <1>1, <1>2, <1>3, <1>5, <2>1
       DEF ExclusionInv, OrderedGone, NotYetOrdered, CartItemOrderedOnce, Placed
<1>6. ASSUME NEW p \in Checkouts, CommitOrder(p), Placed' = Placed \cup OrdersOf(p)
      PROVE  ExclusionInv'
  <2>1. checkoutPc[p] \in InTransaction /\ ~Duplicated(p)
    BY <1>0, <1>6 DEF CommitOrder, InTransaction, ReadUnique
  <2>2. \A o \in OrdersOf(p) : CartItemIdsOf[o] \subseteq ItemsOf(p)
    BY DEF ItemsOf
  <2>3. OrderedGone'
    <3>1. \A i \in ItemsOf(p) : cartItem'[i] = Absent
      BY <1>6, NamedItems DEF CommitOrder
    <3> QED
      BY <1>2, <1>6, <2>2, <3>1 DEF OrderedGone
  <2>4. NotYetOrdered'
    <3> SUFFICES ASSUME NEW q \in Checkouts, checkoutPc'[q] \in InTransaction,
                        NEW o \in OrdersOf(p), NEW i \in CartItemIdsOf[o],
                        i \in ItemsOf(q)
                 PROVE  FALSE
      BY <1>3, <1>6 DEF NotYetOrdered
    <3>1. q # p
      BY <1>0, <1>6 DEF CommitOrder, Goto, TypeInv, TypeOK, CheckoutTypeOK, InTransaction
    <3>2. checkoutPc[q] \in InTransaction
      BY <1>0, <1>6, TransactionMove
    <3> QED
      BY <1>0, <2>1, <2>2, <3>1, <3>2, TransactionsApart
  <2>5. CartItemOrderedOnce'
    <3> SUFFICES ASSUME NEW o1 \in Placed', NEW o2 \in Placed', o1 # o2
                 PROVE  CartItemIdsOf[o1] \cap CartItemIdsOf[o2] = {}
      BY DEF CartItemOrderedOnce, Placed
    <3>1. CASE o1 \in Placed /\ o2 \in Placed
      BY <1>0, <3>1 DEF CartItemOrderedOnce, Placed
    <3>2. CASE o1 \in OrdersOf(p) /\ o2 \in OrdersOf(p)
      BY <2>1, <3>2 DEF Duplicated
    <3>3. CASE o1 \in Placed /\ o2 \in OrdersOf(p)
      BY <1>0, <2>1, <2>2, <3>3 DEF NotYetOrdered
    <3>4. CASE o1 \in OrdersOf(p) /\ o2 \in Placed
      BY <1>0, <2>1, <2>2, <3>4 DEF NotYetOrdered
    <3> QED
      BY <1>6, <3>1, <3>2, <3>3, <3>4
  <2> QED
    BY <1>1, <2>3, <2>4, <2>5 DEF ExclusionInv
<1> QED
  BY <1>4, <1>5, <1>6, PlacedCases

\* While locks outlive their holders' transactions and no edit changes the SKU
\* of an item being checked out, an item is never ordered twice, however often
\* and concurrently it is submitted, and whatever requests die on the way.
THEOREM OrderedOnce ==
    ASSUME ~LockMayExpire, CartsKeepSkus
    PROVE  Spec => []CartItemOrderedOnce
<1>1. Init => ExclusionInv
  BY DEF Init, StoreInit, CheckoutInit, ExclusionInv, Holder, OrderedGone,
     NotYetOrdered, CartItemOrderedOnce, Placed, InTransaction
<1>2. CoverInv /\ [Next]_vars => CoverInv'
  BY CoverStep
<1>3. StatusInv /\ CartInv /\ CoverInv /\ ExclusionInv /\ [Next]_vars => ExclusionInv'
  BY ExclusionStep
<1>4. ExclusionInv => CartItemOrderedOnce
  BY DEF ExclusionInv
<1> QED
  BY <1>1, <1>2, <1>3, <1>4, InitCover, CartInvariant, PTL DEF Spec

=============================================================================
