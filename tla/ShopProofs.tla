----------------------------- MODULE ShopProofs -----------------------------
(***************************************************************************)
(* Proofs about Shop for any number of products, coupons, checkouts and     *)
(* reviews.                                                                 *)
(***************************************************************************)
EXTENDS Shop, TLAPS, WellFoundedInduction, FiniteSetTheorems

-----------------------------------------------------------------------------
(***************************************************************************)
(* Products.                                                                *)
(***************************************************************************)

LEMMA StampedType ==
    ASSUME NEW row \in [state : RowState, price : Nat, version : Nat],
           NEW state \in RowState, NEW price \in Nat
    PROVE  Stamped(row, state, price) \in [state : RowState, price : Nat, version : Nat]
  BY DEF Stamped

LEMMA NewSkuType ==
    ASSUME NEW r \in ProductEdits, NEW v \in BodyValues(r)
    PROVE  NewSku(r, v) \in [state : RowState, price : Nat, version : Nat]
  <1>1. EditPrices[r][v] \in Nat
    BY ProductAssumption DEF BodyValues
  <1> QED
    BY <1>1 DEF NewSku, RowState

\* The rows an updateProduct transaction leaves.
LEMMA UpdatedSkuType ==
    ASSUME NEW r \in ProductEdits, ProductTypeOK, UpdateProductTransaction(r)
    PROVE  sku' \in [Skus -> [state : RowState, price : Nat, version : Nat]]
  <1> DEFINE Row == [state : RowState, price : Nat, version : Nat]
  <1> SUFFICES ASSUME NEW s \in Skus
               PROVE  sku'[s] \in Row
    BY DEF UpdateProductTransaction
  <1>1. sku[s] \in Row
    BY DEF ProductTypeOK
  <1>2. s = <<s[1], s[2]>> /\ s[1] \in ProductEdits /\ s[2] \in Values
    BY DEF Skus
  <1>3. CASE s \in SkusToUpdate(r)
    <2>1. EditPrices[r][s[2]] \in Nat
      BY <1>2, <1>3, ProductAssumption DEF SkusToUpdate, BodyValues
    <2>2. sku'[s] = Stamped(sku[s], sku[s].state, EditPrices[r][s[2]])
      BY <1>3 DEF UpdateProductTransaction
    <2>3. sku[s].state \in RowState
      BY <1>1
    <2>4. Stamped(sku[s], sku[s].state, EditPrices[r][s[2]]) \in Row
      BY <1>1, <2>1, <2>3, StampedType
    <2> QED
      BY <2>2, <2>4
  <1>4. CASE s \notin SkusToUpdate(r) /\ s \in SkusToDelete(r) /\ sku[s].state = "live"
    <2>1. sku'[s] = Stamped(sku[s], "deleted", sku[s].price)
      BY <1>4 DEF UpdateProductTransaction
    <2> QED
      BY <1>1, <2>1, StampedType DEF RowState
  <1>5. CASE /\ s \notin SkusToUpdate(r) /\ ~(s \in SkusToDelete(r) /\ sku[s].state = "live")
             /\ s \in SkusToCreate(r)
    <2>1. s[2] \in BodyValues(r)
      BY <1>5 DEF SkusToCreate
    <2>2. sku'[s] = NewSku(r, s[2])
      BY <1>5 DEF UpdateProductTransaction
    <2> QED
      BY <2>1, <2>2, NewSkuType
  <1>6. CASE /\ s \notin SkusToUpdate(r) /\ ~(s \in SkusToDelete(r) /\ sku[s].state = "live")
             /\ s \notin SkusToCreate(r)
    <2>1. sku'[s] = sku[s]
      BY <1>6 DEF UpdateProductTransaction
    <2> QED
      BY <1>1, <2>1
  <1> QED
    BY <1>3, <1>4, <1>5, <1>6

\* The product rows after one row's state, or one row's variants, is written.
LEMMA ProductRowType ==
    ASSUME NEW f \in [Products -> [state : RowState, variants : SUBSET Values]],
           NEW p, NEW state \in RowState, NEW variants \in SUBSET Values
    PROVE  /\ [f EXCEPT ![p].state = state] \in
                    [Products -> [state : RowState, variants : SUBSET Values]]
           /\ [f EXCEPT ![p].variants = variants] \in
                    [Products -> [state : RowState, variants : SUBSET Values]]
  <1> DEFINE Row == [state : RowState, variants : SUBSET Values]
  <1>1. \A row \in Row : /\ [row EXCEPT !.state = state] \in Row
                         /\ [row EXCEPT !.variants = variants] \in Row
    OBVIOUS
  <1>2. \A q \in Products : f[q] \in Row
    OBVIOUS
  <1> HIDE DEF Row
  <1>3. [f EXCEPT ![p].state = state] \in [Products -> Row]
    BY <1>1, <1>2
  <1>4. [f EXCEPT ![p].variants = variants] \in [Products -> Row]
    BY <1>1, <1>2
  <1> QED
    BY <1>3, <1>4 DEF Row

LEMMA ProductTypeStep ==
    ASSUME NEW r \in ProductEdits, ProductTypeOK, ProductStep(r)
    PROVE  ProductTypeOK'
  <1> USE ProductAssumption
  <1>0. \A p \in Products : LiveSkus(p) \subseteq Skus
    BY DEF LiveSkus
  <1>1. CASE CreateProduct(r)
    <2>1. \A s \in Skus : s[1] = r /\ s[2] \in BodyValues(r) =>
                NewSku(r, s[2]) \in [state : RowState, price : Nat, version : Nat]
      BY NewSkuType
    <2>2. sku' \in [Skus -> [state : RowState, price : Nat, version : Nat]]
      BY <1>1, <2>1 DEF CreateProduct, ProductTypeOK
    <2> QED
      BY <1>1, <2>2 DEF CreateProduct, EditGoes, BodyValues, ProductTypeOK, RowState
  <1>2. CASE FindProduct(r)
    <2>1. CASE EditOp[r] = "update"
      BY <1>2, <2>1 DEF FindProduct, EditGoes, ProductTypeOK
    <2>2. CASE EditOp[r] = "delete"
      <3>1. editTodo' = [editTodo EXCEPT ![r] = {"product", "skus"}]
        BY <1>2, <2>2 DEF FindProduct
      <3>2. {"product", "skus"} \in SUBSET {"product", "skus", "marking"}
        OBVIOUS
      <3>3. editTodo' \in [ProductEdits -> SUBSET {"product", "skus", "marking"}]
        BY <3>1, <3>2 DEF ProductTypeOK
      <3> QED
        BY <1>2, <2>2, <3>3 DEF FindProduct, EditGoes, ProductTypeOK
    <2> QED
      BY <1>2, <2>1, <2>2 DEF FindProduct
  <1>3. CASE FindSkusByProductId(r)
    BY <1>0, <1>3 DEF FindSkusByProductId, EditGoes, ProductTypeOK
  <1>4. CASE UpdateProductTransaction(r)
    <2>1. product' \in [Products -> [state : RowState, variants : SUBSET Values]]
      <3>1. product' = [product EXCEPT ![EditProduct[r]].variants = BodyValues(r)]
        BY <1>4 DEF UpdateProductTransaction
      <3>2. BodyValues(r) \in SUBSET Values
        BY DEF BodyValues
      <3>3. "live" \in RowState
        BY DEF RowState
      <3> QED
        BY <3>1, <3>2, <3>3, ProductRowType DEF ProductTypeOK
    <2> QED
      BY <1>4, <2>1, UpdatedSkuType
         DEF UpdateProductTransaction, EditGoes, ProductTypeOK
  <1>5. CASE AbortEdit(r)
    BY <1>5 DEF AbortEdit, EditGoes, ProductTypeOK
  <1>6. CASE DeleteProductRow(r)
    <2>1. product' \in [Products -> [state : RowState, variants : SUBSET Values]]
      <3>1. product' = [product EXCEPT ![EditProduct[r]].state = "deleted"]
        BY <1>6 DEF DeleteProductRow
      <3>2. "deleted" \in RowState
        BY DEF RowState
      <3>3. {} \in SUBSET Values
        OBVIOUS
      <3> QED
        BY <3>1, <3>2, <3>3, ProductRowType DEF ProductTypeOK
    <2>2. editTodo' \in [ProductEdits -> SUBSET {"product", "skus", "marking"}]
      BY <1>6 DEF DeleteProductRow, ProductTypeOK
    <2> QED
      BY <1>6, <2>1, <2>2 DEF DeleteProductRow, ProductTypeOK
  <1>7. CASE StartDeletingSkus(r)
    BY <1>0, <1>7 DEF StartDeletingSkus, ProductTypeOK
  <1>8. CASE DeleteSkus(r)
    <2>1. sku' \in [Skus -> [state : RowState, price : Nat, version : Nat]]
      BY <1>8, StampedType DEF DeleteSkus, ProductTypeOK, RowState
    <2> QED
      BY <1>8, <2>1 DEF DeleteSkus, ProductTypeOK
  <1>9. CASE AnswerDelete(r)
    BY <1>9 DEF AnswerDelete, EditGoes, ProductTypeOK
  <1>10. CASE CrashDelete(r)
    BY <1>10 DEF CrashDelete, EditGoes, ProductTypeOK
  <1> QED
    BY <1>1, <1>2, <1>3, <1>4, <1>5, <1>6, <1>7, <1>8, <1>9, <1>10 DEF ProductStep

\* What a step does to a SKU: creates it, edits it or removes it; an edit or a
\* removal moves the version on.
LEMMA SkuChanges ==
    ASSUME NEW r \in ProductEdits, ProductTypeOK, EditsInv, ProductStep(r), NEW s \in Skus
    PROVE  \/ sku'[s] = sku[s]
           \/ /\ sku[s].state = "none" /\ sku'[s].state = "live"
              /\ s[1] = r /\ editAt'[r] = "done"
              /\ product[EditProduct[r]].state # "deleted"
           \/ /\ sku[s].state # "none" /\ sku'[s].version = sku[s].version + 1
              /\ ProductOfSku(s) = EditProduct[r]
              /\ \/ sku'[s].state = "deleted" /\ sku'[s].price = sku[s].price
                 \/ sku'[s].state = sku[s].state /\ product[EditProduct[r]].state # "deleted"
  <1> USE ProductAssumption
  <1>0. sku[s] \in [state : RowState, price : Nat, version : Nat]
    BY DEF ProductTypeOK
  <1>1. CASE CreateProduct(r)
    <2>1. s[1] = r => sku[s].state = "none"
      BY <1>0, <1>1 DEF CreateProduct, EditsInv
    <2> QED
      BY <1>1, <2>1 DEF CreateProduct, NewSku, EditGoes, ProductTypeOK
  <1>2. CASE UpdateProductTransaction(r)
    <2>0. s[1] = r => sku[s].state = "none"
      BY <1>0, <1>2 DEF UpdateProductTransaction, EditsInv
    <2>1. s \in editSkus[r] => ProductOfSku(s) = EditProduct[r]
      BY DEF EditsInv
    <2>2. CASE s \in SkusToUpdate(r)
      <3>1. s \in editSkus[r] /\ sku[s].state = "live"
        BY <1>2, <2>2 DEF UpdateProductTransaction, StillLive, SkusToUpdate
      <3>2. sku'[s] = Stamped(sku[s], sku[s].state, EditPrices[r][s[2]])
        BY <1>2, <2>2 DEF UpdateProductTransaction
      <3> QED
        BY <1>0, <1>2, <2>1, <3>1, <3>2
           DEF UpdateProductTransaction, ProductStillLive, Stamped
    <2>3. CASE s \notin SkusToUpdate(r) /\ s \in SkusToDelete(r) /\ sku[s].state = "live"
      <3>1. s \in editSkus[r]
        BY <2>3 DEF SkusToDelete
      <3>2. sku'[s] = Stamped(sku[s], "deleted", sku[s].price)
        BY <1>2, <2>3 DEF UpdateProductTransaction
      <3> QED
        BY <1>0, <2>1, <2>3, <3>1, <3>2 DEF Stamped
    <2>4. CASE /\ s \notin SkusToUpdate(r)
               /\ ~(s \in SkusToDelete(r) /\ sku[s].state = "live")
               /\ s \in SkusToCreate(r)
      <3>1. s[1] = r
        BY <2>4 DEF SkusToCreate
      <3>2. sku'[s] = NewSku(r, s[2])
        BY <1>2, <2>4 DEF UpdateProductTransaction
      <3> QED
        BY <1>2, <2>0, <3>1, <3>2
           DEF UpdateProductTransaction, ProductStillLive, NewSku, EditGoes, ProductTypeOK
    <2>5. CASE /\ s \notin SkusToUpdate(r)
               /\ ~(s \in SkusToDelete(r) /\ sku[s].state = "live")
               /\ s \notin SkusToCreate(r)
      BY <1>2, <2>5 DEF UpdateProductTransaction
    <2> QED
      BY <2>2, <2>3, <2>4, <2>5
  <1>3. CASE DeleteSkus(r)
    <2>1. s \in editSkus[r] => ProductOfSku(s) = EditProduct[r]
      BY DEF EditsInv
    <2> QED
      BY <1>0, <1>3, <2>1 DEF DeleteSkus, Stamped
  <1>4. CASE UNCHANGED sku
    BY <1>4
  <1> QED
    BY <1>1, <1>2, <1>3, <1>4
       DEF ProductStep, FindProduct, FindSkusByProductId, AbortEdit, DeleteProductRow,
           StartDeletingSkus, AnswerDelete, CrashDelete

\* What edits know stays true.
LEMMA EditsStep ==
    ASSUME NEW r \in ProductEdits, ProductTypeOK, EditsInv, ProductStep(r)
    PROVE  EditsInv'
  <1> USE ProductAssumption
  <1>1. \A p \in Products : \A s \in LiveSkus(p) : ProductOfSku(s) = p
    BY DEF LiveSkus
  <1>2. ASSUME NEW q \in ProductEdits, NEW s \in editSkus'[q]
        PROVE  ProductOfSku(s) = EditProduct[q]
    <2>1. CASE editSkus'[q] = editSkus[q]
      BY <1>2, <2>1 DEF EditsInv
    <2>2. CASE q = r /\ editSkus'[q] = LiveSkus(EditProduct[r])
      BY <1>1, <1>2, <2>2
    <2> QED
      BY <2>1, <2>2
         DEF ProductStep, CreateProduct, FindProduct, FindSkusByProductId,
             UpdateProductTransaction, AbortEdit, DeleteProductRow, StartDeletingSkus,
             DeleteSkus, AnswerDelete, CrashDelete, ProductTypeOK
  <1>3. ASSUME NEW q \in ProductEdits, editAt[q] = "done"
        PROVE  editAt'[q] = "done"
    BY <1>3 DEF ProductStep, CreateProduct, FindProduct, FindSkusByProductId, EditGoes,
             UpdateProductTransaction, AbortEdit, DeleteProductRow, StartDeletingSkus,
             DeleteSkus, AnswerDelete, CrashDelete, ProductTypeOK
  <1>4. ASSUME NEW s \in Skus, sku'[s].state # "none"
        PROVE  editAt'[s[1]] = "done"
    <2>1. s[1] \in ProductEdits
      BY DEF Skus
    <2> QED
      BY <1>3, <1>4, <2>1, SkuChanges DEF EditsInv
  <1>5. ASSUME NEW q \in ProductEdits, editAt'[q] = "deleting"
        PROVE  EditOp[q] = "delete"
    <2>1. CASE editAt[q] = "deleting"
      BY <2>1 DEF EditsInv
    <2>2. CASE editAt[q] # "deleting"
      BY <1>5, <2>2 DEF ProductStep, CreateProduct, FindProduct, FindSkusByProductId, EditGoes,
             UpdateProductTransaction, AbortEdit, DeleteProductRow, StartDeletingSkus,
             DeleteSkus, AnswerDelete, CrashDelete, ProductTypeOK
    <2> QED
      BY <2>1, <2>2
  <1> QED
    BY <1>2, <1>4, <1>5 DEF EditsInv, Skus

\* A deletion that has begun is never undone.
LEMMA DeletionStaysBegun ==
    ASSUME NEW r \in ProductEdits, ProductTypeOK, ProductStep(r),
           NEW p \in Products, DeletionBegun(p)
    PROVE  DeletionBegun(p)'
  <1>1. PICK q \in ProductEdits : /\ EditOp[q] = "delete" /\ EditProduct[q] = p
                                  /\ editAt[q] \in {"deleting", "done", "died"}
    BY DEF DeletionBegun
  <1>2. editAt'[q] \in {"deleting", "done", "died"}
    BY <1>1 DEF ProductStep, CreateProduct, FindProduct, FindSkusByProductId, EditGoes,
             UpdateProductTransaction, AbortEdit, DeleteProductRow, StartDeletingSkus,
             DeleteSkus, AnswerDelete, CrashDelete, ProductTypeOK
  <1> QED
    BY <1>1, <1>2 DEF DeletionBegun

LEMMA VariantsStep ==
    ASSUME NEW r \in ProductEdits, ProductTypeOK, EditsInv, EveryVariantHasSku, ProductStep(r)
    PROVE  EveryVariantHasSku'
  <1> USE ProductAssumption
  <1> SUFFICES ASSUME NEW p \in Products, product'[p].state = "live", ~DeletionBegun(p)',
                      NEW v \in product'[p].variants
               PROVE  \E s \in LiveSkus(p)' : s[2] = v
    BY DEF EveryVariantHasSku
  <1>1. ~DeletionBegun(p)
    BY DeletionStaysBegun
  <1>2. ASSUME p # EditProduct[r]
        PROVE  \E s \in LiveSkus(p)' : s[2] = v
    <2>1. product'[p] = product[p]
      BY <1>2 DEF ProductStep, CreateProduct, FindProduct, FindSkusByProductId,
             UpdateProductTransaction, AbortEdit, DeleteProductRow, StartDeletingSkus,
             DeleteSkus, AnswerDelete, CrashDelete, ProductTypeOK
    <2>2. PICK s \in LiveSkus(p) : s[2] = v
      BY <1>1, <2>1 DEF EveryVariantHasSku
    <2>3. s \in Skus /\ sku[s].state = "live" /\ ProductOfSku(s) = p
      BY DEF LiveSkus
    <2>4. sku'[s] = sku[s]
      BY <1>2, <2>3, SkuChanges DEF ProductOfSku
    <2> QED
      BY <2>2, <2>3, <2>4 DEF LiveSkus
  <1>3. CASE p = EditProduct[r] /\ CreateProduct(r)
    <2>1. v \in BodyValues(r)
      BY <1>3 DEF CreateProduct, ProductTypeOK
    <2>2. <<r, v>> \in Skus /\ ProductOfSku(<<r, v>>) = p
      BY <1>3, <2>1 DEF BodyValues, Skus, ProductOfSku
    <2>3. sku'[<<r, v>>] = NewSku(r, v)
      BY <1>3, <2>1, <2>2 DEF CreateProduct
    <2> QED
      BY <2>2, <2>3 DEF NewSku, LiveSkus
  <1>4. CASE p = EditProduct[r] /\ UpdateProductTransaction(r)
    <2>1. v \in BodyValues(r)
      BY <1>4 DEF UpdateProductTransaction, ProductTypeOK
    <2>2. CASE \E s \in editSkus[r] : s[2] = v
      <3>1. PICK s \in editSkus[r] : s[2] = v
        BY <2>2
      <3>2. s \in Skus /\ s \in SkusToUpdate(r) /\ ProductOfSku(s) = p
        BY <1>4, <2>1, <3>1 DEF SkusToUpdate, EditsInv, ProductTypeOK
      <3>3. sku'[s] = Stamped(sku[s], sku[s].state, EditPrices[r][s[2]])
        BY <1>4, <3>2 DEF UpdateProductTransaction
      <3>4. sku[s].state = "live"
        BY <1>4, <3>2 DEF UpdateProductTransaction, StillLive
      <3> QED
        BY <3>1, <3>2, <3>3, <3>4 DEF Stamped, LiveSkus
    <2>3. CASE ~\E s \in editSkus[r] : s[2] = v
      <3>1. <<r, v>> \in Skus /\ ProductOfSku(<<r, v>>) = p
        BY <1>4, <2>1 DEF BodyValues, Skus, ProductOfSku
      <3>2. <<r, v>> \in SkusToCreate(r)
        BY <2>1, <2>3 DEF SkusToCreate
      <3>3. <<r, v>> \notin editSkus[r]
        BY <2>3
      <3>4. sku'[<<r, v>>] = NewSku(r, v)
        BY <1>4, <3>1, <3>2, <3>3 DEF UpdateProductTransaction, SkusToUpdate, SkusToDelete
      <3> QED
        BY <3>1, <3>4 DEF NewSku, LiveSkus
    <2> QED
      BY <2>2, <2>3
  <1>5. CASE p = EditProduct[r] /\ DeleteSkus(r)
    <2>1. DeletionBegun(p)
      BY <1>5 DEF DeleteSkus, EditsInv, DeletionBegun
    <2> QED
      BY <1>1, <2>1
  <1>6. CASE p = EditProduct[r] /\ DeleteProductRow(r)
    BY <1>6 DEF DeleteProductRow, ProductTypeOK
  <1>7. CASE UNCHANGED <<product, sku>>
    BY <1>1, <1>7 DEF EveryVariantHasSku, LiveSkus
  <1> QED
    BY <1>2, <1>3, <1>4, <1>5, <1>6, <1>7
       DEF ProductStep, FindProduct, FindSkusByProductId, AbortEdit,
           StartDeletingSkus, AnswerDelete, CrashDelete

\* Once deleted, a product and the prices of its SKUs are final.
LEMMA DeletedStep ==
    ASSUME NEW r \in ProductEdits, ProductTypeOK, EditsInv, ProductStep(r),
           NEW p \in Products, product[p].state = "deleted"
    PROVE  /\ product'[p] = product[p]
           /\ \A s \in Skus : ProductOfSku(s) = p =>
                /\ sku'[s].price = sku[s].price
                /\ sku'[s].state = "live" => sku[s].state = "live"
  <1> USE ProductAssumption
  <1>1. product'[p] = product[p]
    <2>1. CASE DeleteProductRow(r)
      <3>1. product[p] \in [state : RowState, variants : SUBSET Values]
        BY DEF ProductTypeOK
      <3>2. p = EditProduct[r] => product'[p] = [product[p] EXCEPT !.state = "deleted"]
        BY <2>1 DEF DeleteProductRow, ProductTypeOK
      <3>3. [product[p] EXCEPT !.state = "deleted"] = product[p]
        BY <3>1
      <3> QED
        BY <2>1, <3>2, <3>3 DEF DeleteProductRow, ProductTypeOK
    <2>2. CASE CreateProduct(r)
      BY <2>2 DEF CreateProduct, ProductTypeOK
    <2>3. CASE UpdateProductTransaction(r)
      BY <2>3 DEF UpdateProductTransaction, ProductStillLive, ProductTypeOK
    <2> QED
      BY <2>1, <2>2, <2>3
         DEF ProductStep, FindProduct, FindSkusByProductId, AbortEdit, StartDeletingSkus,
             DeleteSkus, AnswerDelete, CrashDelete
  <1>2. ASSUME NEW s \in Skus, ProductOfSku(s) = p
        PROVE  /\ sku'[s].price = sku[s].price
               /\ sku'[s].state = "live" => sku[s].state = "live"
    BY <1>2, SkuChanges DEF ProductOfSku
  <1> QED
    BY <1>1, <1>2

-----------------------------------------------------------------------------
(***************************************************************************)
(* Coupons and checkouts.                                                   *)
(***************************************************************************)

LEMMA Element ==
    ASSUME NEW S, NEW q \in Seq(S), NEW i \in DOMAIN q
    PROVE  q[i] \in S
  OBVIOUS

\* A row of a coupon with another quantity.
LEMMA QuantityType ==
    ASSUME NEW t \in Terms, NEW n \in Nat
    PROVE  /\ [t EXCEPT !.quantity = n] \in Terms
           /\ [t EXCEPT !.quantity = n].quantity = n
           /\ [t EXCEPT !.quantity = n].discount = t.discount
           /\ [t EXCEPT !.quantity = n].discountType = t.discountType
           /\ [t EXCEPT !.quantity = n].minOrderAmount = t.minOrderAmount
  BY DEF Terms

\* A row of a coupon whose dates have come nearer.
LEMMA DatesType ==
    ASSUME NEW t \in Terms, NEW d \in {"early", "open", "over"}
    PROVE  /\ [t EXCEPT !.dates = d] \in Terms
           /\ [t EXCEPT !.dates = d].quantity = t.quantity
           /\ [t EXCEPT !.dates = d].discount = t.discount
           /\ [t EXCEPT !.dates = d].discountType = t.discountType
           /\ [t EXCEPT !.dates = d].minOrderAmount = t.minOrderAmount
  BY DEF Terms

\* The account of a coupon with other uses or more units come back.
LEMMA BudgetType ==
    ASSUME NEW b \in Budget, NEW u \in SUBSET OrderIds, NEW n \in Nat
    PROVE  /\ [b EXCEPT !.uses = u] \in Budget
           /\ [b EXCEPT !.uses = u].uses = u
           /\ [b EXCEPT !.uses = u].granted = b.granted
           /\ [b EXCEPT !.uses = u].extra = b.extra
           /\ [b EXCEPT !.extra = n] \in Budget
           /\ [b EXCEPT !.extra = n].uses = b.uses
           /\ [b EXCEPT !.extra = n].granted = b.granted
           /\ [b EXCEPT !.extra = n].extra = n
  BY DEF Budget

LEMMA CurrentType ==
    ASSUME NEW c \in Checkouts, PromotionTypeOK, OrdersLeft(c)
    PROVE  /\ Len(orders[c]) + 1 \in DOMAIN CheckoutBody[c]
           /\ Current(c) \in [sku : Skus, quantity : Nat, coupon : Coupons \cup {Absent}]
           /\ Current(c).sku \in SkusIn(c)
           /\ seenSku[c][Current(c).sku].price \in Nat
           /\ Subtotal(c) \in Nat
  <1> DEFINE Item == [sku : Skus, quantity : Nat, coupon : Coupons \cup {Absent}]
  <1>1. CheckoutBody[c] \in Seq(Item)
    BY PromotionAssumption
  <1>2. Len(orders[c]) \in Nat
    BY DEF PromotionTypeOK
  <1>3. Len(orders[c]) + 1 \in DOMAIN CheckoutBody[c]
    BY <1>1, <1>2 DEF OrdersLeft
  <1>4. Current(c) \in Item
    <2> HIDE DEF Item
    <2> QED
      BY <1>1, <1>3, Element DEF Current
  <1>5. Current(c).sku \in SkusIn(c)
    BY <1>3 DEF SkusIn, Current
  <1>6. seenSku[c][Current(c).sku].price \in Nat
    BY <1>4 DEF PromotionTypeOK
  <1>7. Subtotal(c) \in Nat
    BY <1>4, <1>6 DEF Subtotal
  <1> QED
    BY <1>3, <1>4, <1>5, <1>6, <1>7

\* A discount under valid terms is at most the subtotal.
LEMMA DiscountBound ==
    ASSUME NEW t \in Terms, NEW subtotal \in Nat, subtotal >= t.minOrderAmount,
           t.discount <= IF t.discountType = "PERCENTAGE" THEN 100 ELSE t.minOrderAmount
    PROVE  /\ DiscountAmount(t, subtotal) \in Nat
           /\ DiscountAmount(t, subtotal) <= 100 * subtotal
  <1>1. t.discount \in Nat /\ t.minOrderAmount \in Nat
    BY DEF Terms
  <1>2. CASE t.discountType = "PERCENTAGE"
    <2>1. t.discount <= 100
      BY <1>2
    <2>2. subtotal * t.discount \in Nat /\ subtotal * t.discount <= subtotal * 100
      <3>1. \A m, n \in Nat : n <= 100 => m * n \in Nat /\ m * n <= m * 100
        OBVIOUS
      <3> QED
        BY <1>1, <2>1, <3>1
    <2> QED
      BY <1>2, <2>2 DEF DiscountAmount
  <1>3. CASE t.discountType # "PERCENTAGE"
    BY <1>1, <1>3 DEF DiscountAmount
  <1> QED
    BY <1>2, <1>3

LEMMA BodyType ==
    ASSUME NEW e \in CouponEdits
    PROVE  CouponBody[e] \in Terms /\ CouponOf[e] \in Coupons /\ CouponBody[e].quantity \in Nat
  BY PromotionAssumption DEF Terms

LEMMA CouponTypeStep ==
    ASSUME NEW e \in CouponEdits, PromotionTypeOK, CouponStep(e)
    PROVE  PromotionTypeOK'
  <1> USE BodyType
  <1>0. UNCHANGED <<checkoutVars, paymentVars, cancelled, cancelAt>>
    BY DEF CouponStep
  <1>1. /\ couponState' \in [Coupons -> RowState]
        /\ coupon' \in [Coupons -> Terms]
        /\ budget' \in [Coupons -> Budget]
        /\ couponAt' \in [CouponEdits -> {"unsent", "start", "validated", "done", "failed"}]
    <2>1. CASE CreateCoupon(e)
      <3>1. budget' \in [Coupons -> Budget]
        BY <2>1 DEF CreateCoupon, PutCoupon, PromotionTypeOK, Budget
      <3> QED
        BY <2>1, <3>1 DEF CreateCoupon, PutCoupon, CouponGoes, PromotionTypeOK, RowState
    <2>2. CASE ValidateCoupon(e)
      BY <2>2 DEF ValidateCoupon, CouponGoes, PromotionTypeOK
    <2>3. CASE UpdateCoupon(e)
      <3>1. budget' \in [Coupons -> Budget]
        BY <2>3 DEF UpdateCoupon, PutCoupon, PromotionTypeOK, Budget
      <3> QED
        BY <2>3, <3>1 DEF UpdateCoupon, PutCoupon, CouponGoes, PromotionTypeOK
    <2>4. CASE DeleteCoupon(e)
      BY <2>4 DEF DeleteCoupon, CouponGoes, PromotionTypeOK, RowState
    <2>5. CASE AbortCouponEdit(e)
      BY <2>5 DEF AbortCouponEdit, CouponGoes, PromotionTypeOK
    <2> QED
      BY <2>1, <2>2, <2>3, <2>4, <2>5 DEF CouponStep
  <1> QED
    BY <1>0, <1>1 DEF PromotionTypeOK, checkoutVars, paymentVars

LEMMA CouponInvStep ==
    ASSUME NEW e \in CouponEdits, PromotionTypeOK, CouponsInv, CouponStep(e)
    PROVE  CouponsInv'
  <1> USE BodyType
  <1>0. UNCHANGED taken
    BY DEF CouponStep, checkoutVars
  <1>a. \A f \in CouponEdits : couponAt'[f] = "validated" /\ CouponOp[f] = "update"
                => ValidBody(CouponBody[f])
    BY DEF CouponStep, CreateCoupon, ValidateCoupon, UpdateCoupon, DeleteCoupon,
           AbortCouponEdit, CouponGoes, CouponsInv, PromotionTypeOK
  <1>1. ASSUME PutCoupon(e), ValidBody(CouponBody[e]), \A c \in Checkouts : taken[c][CouponOf[e]] = 0,
               couponState' \in [Coupons -> RowState], couponState'[CouponOf[e]] # "none",
               \A k \in Coupons \ {CouponOf[e]} : couponState'[k] = couponState[k]
        PROVE  CouponsInv'
    <2> DEFINE j == CouponOf[e]
    <2>1. coupon'[j] = CouponBody[e]
      BY <1>1 DEF PutCoupon, PromotionTypeOK
    <2>2. ASSUME NEW k \in Coupons, k # j
          PROVE  coupon'[k] = coupon[k] /\ couponState'[k] = couponState[k]
      BY <1>1, <2>2 DEF PutCoupon, PromotionTypeOK
    <2>3. coupon'[j].discount <= IF coupon'[j].discountType = "PERCENTAGE"
                                 THEN 100 ELSE coupon'[j].minOrderAmount
      BY <1>1, <2>1 DEF ValidBody
    <2>4. \A c \in Checkouts, k \in Coupons : taken'[c][k] <= coupon'[k].quantity
      BY <1>0, <1>1, <2>1, <2>2 DEF CouponsInv
    <2>5. \A k \in Coupons :
            IF couponState'[k] = "none" THEN coupon'[k].quantity = 0
            ELSE coupon'[k].discount <= IF coupon'[k].discountType = "PERCENTAGE"
                                        THEN 100 ELSE coupon'[k].minOrderAmount
      BY <1>1, <2>2, <2>3 DEF CouponsInv
    <2> QED
      BY <1>0, <1>a, <2>4, <2>5 DEF CouponsInv
  <1>2. CASE CreateCoupon(e)
    <2>0. CouponOf[e] \in Coupons /\ coupon[CouponOf[e]].quantity = 0
      BY <1>2 DEF CreateCoupon, CouponsInv
    <2>1. \A c \in Checkouts : taken[c][CouponOf[e]] = 0
      <3>1. \A c \in Checkouts : taken[c][CouponOf[e]] <= 0
        BY <2>0 DEF CouponsInv
      <3>2. \A c \in Checkouts : taken[c][CouponOf[e]] \in Nat
        BY <2>0 DEF PromotionTypeOK
      <3> QED
        BY <3>1, <3>2
    <2>2. /\ couponState' \in [Coupons -> RowState]
          /\ couponState'[CouponOf[e]] = "live"
          /\ \A k \in Coupons \ {CouponOf[e]} : couponState'[k] = couponState[k]
      BY <1>2 DEF CreateCoupon, PromotionTypeOK, RowState
    <2>3. PutCoupon(e) /\ ValidBody(CouponBody[e])
      BY <1>2 DEF CreateCoupon
    <2> QED
      BY <1>1, <2>1, <2>2, <2>3
  <1>3. CASE UpdateCoupon(e)
    <2>1. \A c \in Checkouts : taken[c][CouponOf[e]] = 0
      BY <1>3 DEF UpdateCoupon, RowHeld, PromotionTypeOK
    <2>2. PutCoupon(e) /\ ValidBody(CouponBody[e])
      BY <1>3 DEF UpdateCoupon, CouponsInv
    <2>3. /\ couponState' \in [Coupons -> RowState]
          /\ couponState'[CouponOf[e]] # "none"
          /\ \A k \in Coupons \ {CouponOf[e]} : couponState'[k] = couponState[k]
      BY <1>3 DEF UpdateCoupon, PromotionTypeOK
    <2> QED
      BY <1>1, <2>1, <2>2, <2>3
  <1>4. CASE DeleteCoupon(e)
    BY <1>0, <1>a, <1>4 DEF DeleteCoupon, PromotionTypeOK, CouponsInv
  <1>5. CASE UNCHANGED <<couponState, coupon>>
    BY <1>0, <1>a, <1>5 DEF CouponsInv
  <1> QED
    BY <1>2, <1>3, <1>4, <1>5 DEF CouponStep, ValidateCoupon, AbortCouponEdit

\* The row createOrder appends.
LEMMA CreatedOrder ==
    ASSUME NEW c \in Checkouts, PromotionTypeOK, OrdersLeft(c), NEW off \in Nat,
           CreateOrder(c, off)
    PROVE  /\ asked' \in [Checkouts -> Int]
           /\ orders' \in [Checkouts -> Seq(OrderRow)]
           /\ Len(orders'[c]) = Len(orders[c]) + 1
           /\ \A d \in Checkouts \ {c} : orders'[d] = orders[d]
           /\ \A i \in DOMAIN orders[c] : orders'[c][i] = orders[c][i]
           /\ orders'[c][Len(orders[c]) + 1].skuPrice = seenSku[c][Current(c).sku].price
           /\ orders'[c][Len(orders[c]) + 1].discountAmount = off
  <1> DEFINE row == [skuPrice |-> seenSku[c][Current(c).sku].price, discountAmount |-> off]
  <1>1. row \in OrderRow
    BY CurrentType DEF OrderRow
  <1>2. orders[c] \in Seq(OrderRow)
    BY DEF PromotionTypeOK
  <1>3. orders' = [orders EXCEPT ![c] = Append(orders[c], row)]
    BY DEF CreateOrder
  <1>4. orders'[c] = Append(orders[c], row)
    BY <1>3 DEF PromotionTypeOK
  <1> HIDE DEF row
  <1>5. orders' \in [Checkouts -> Seq(OrderRow)]
    BY <1>1, <1>2, <1>3 DEF PromotionTypeOK
  <1>6. /\ Len(orders'[c]) = Len(orders[c]) + 1
        /\ \A i \in DOMAIN orders[c] : orders'[c][i] = orders[c][i]
        /\ orders'[c][Len(orders[c]) + 1] = row
    BY <1>1, <1>2, <1>4
  <1>7. \A d \in Checkouts \ {c} : orders'[d] = orders[d]
    BY <1>3 DEF PromotionTypeOK
  <1>8. asked' \in [Checkouts -> Int]
    <2>2. asked' = [asked EXCEPT ![c] = @ + 100 * Subtotal(c) - off]
      BY DEF CreateOrder
    <2>3. asked[c] + 100 * Subtotal(c) - off \in Int
      <3>1. asked[c] \in Int
        BY DEF PromotionTypeOK
      <3>2. Subtotal(c) \in Nat
        BY CurrentType
      <3> QED
        BY <3>1, <3>2
    <2> QED
      BY <2>2, <2>3 DEF PromotionTypeOK
  <1> QED
    BY <1>5, <1>6, <1>7, <1>8 DEF row

\* The orders of a checkout that use a coupon are finitely many orders of its own.
LEMMA UsesType ==
    ASSUME NEW c \in Checkouts, NEW k \in Coupons, PromotionTypeOK
    PROVE  /\ UsesOf(c, k) \in SUBSET OrderIds
           /\ IsFiniteSet(UsesOf(c, k))
           /\ \A o \in UsesOf(c, k) : /\ o = <<c, o[2]>> /\ o[2] \in DOMAIN orders[c]
                                     /\ CheckoutBody[c][o[2]].coupon = k
  <1>1. Len(orders[c]) \in Nat /\ DOMAIN orders[c] = 1..Len(orders[c])
    BY DEF PromotionTypeOK
  <1>2. UsesOf(c, k) \subseteq {c} \X (1..Len(orders[c]))
    BY <1>1 DEF UsesOf
  <1>3. IsFiniteSet({c} \X (1..Len(orders[c])))
    <2>1. IsFiniteSet({c})
      BY FS_Singleton
    <2>2. IsFiniteSet(1..Len(orders[c]))
      BY <1>1, FS_Interval
    <2> QED
      BY <2>1, <2>2, FS_Product
  <1>4. IsFiniteSet(UsesOf(c, k))
    BY <1>2, <1>3, FS_Subset
  <1>5. UsesOf(c, k) \in SUBSET OrderIds
    BY <1>1, <1>2 DEF OrderIds
  <1> QED
    BY <1>4, <1>5 DEF UsesOf

LEMMA PricingTypeStep ==
    ASSUME NEW c \in Checkouts, ProductTypeOK, PromotionTypeOK, OrdersInv, CouponsInv,
           PricingStep(c)
    PROVE  ProductTypeOK' /\ PromotionTypeOK'
  <1>0. UNCHANGED <<product, editAt, editSkus, editTodo, couponState, couponAt, paid, cancelled,
                    cancelAt, refused, delivered>>
    BY DEF PricingStep
  <1>1. CASE ReadPrices(c)
    <2> DEFINE Seen == [price : Nat, version : Nat]
               read == [s \in Skus |-> IF s \in SkusIn(c)
                            THEN [price |-> sku[s].price, version |-> sku[s].version]
                            ELSE seenSku[c][s]]
    <2>1. \A s \in Skus : [price |-> sku[s].price, version |-> sku[s].version] \in Seen
      BY DEF ProductTypeOK
    <2>2. \A s \in Skus : seenSku[c][s] \in Seen
      BY DEF PromotionTypeOK
    <2>3. read \in [Skus -> Seen]
      BY <2>1, <2>2
    <2>4. seenSku' = [seenSku EXCEPT ![c] = read]
      BY <1>1 DEF ReadPrices
    <2>5. seenSku' \in [Checkouts -> [Skus -> Seen]]
      <3> HIDE DEF read, Seen
      <3>1. seenSku \in [Checkouts -> [Skus -> Seen]]
        BY DEF PromotionTypeOK, Seen
      <3> QED
        BY <2>3, <2>4, <3>1
    <2> QED
      BY <1>0, <1>1, <2>5 DEF ReadPrices, CheckoutGoes, ProductTypeOK, PromotionTypeOK
  <1>2. CASE FindCouponForOrder(c)
    <2> DEFINE k == Current(c).coupon
    <2>1. k \in Coupons /\ coupon[k] \in Terms /\ Subtotal(c) \in Nat
      BY <1>2, CurrentType DEF FindCouponForOrder, PromotionTypeOK
    <2>2. DiscountAmount(coupon[k], Subtotal(c)) \in Nat
      BY <1>2, <2>1, DiscountBound DEF FindCouponForOrder, CouponsInv
    <2>3. discount' = [discount EXCEPT ![c] = DiscountAmount(coupon[k], Subtotal(c))]
      BY <1>2 DEF FindCouponForOrder
    <2>4. discount' \in [Checkouts -> Nat]
      BY <2>2, <2>3 DEF PromotionTypeOK
    <2> QED
      BY <1>0, <1>2, <2>4 DEF FindCouponForOrder, CheckoutGoes, ProductTypeOK, PromotionTypeOK
  <1>3. CASE DecrementCouponQuantity(c)
    <2>1. OrdersLeft(c) /\ Current(c).coupon \in Coupons
      BY <1>3, CurrentType DEF DecrementCouponQuantity, OrdersInv, OrdersSoFar
    <2>2. taken' \in [Checkouts -> [Coupons -> Nat]]
      BY <1>3, <2>1 DEF DecrementCouponQuantity, PromotionTypeOK
    <2>3. discount[c] \in Nat /\ CreateOrder(c, discount[c])
      BY <1>3 DEF DecrementCouponQuantity, PromotionTypeOK
    <2>4. asked' \in [Checkouts -> Int] /\ orders' \in [Checkouts -> Seq(OrderRow)]
      BY <2>1, <2>3, CreatedOrder
    <2> QED
      BY <1>0, <1>3, <2>2, <2>4
         DEF DecrementCouponQuantity, CheckoutGoes, ProductTypeOK, PromotionTypeOK
  <1>4. CASE OrderWithoutCoupon(c)
    <2>1. asked' \in [Checkouts -> Int] /\ orders' \in [Checkouts -> Seq(OrderRow)]
      BY <1>4, CreatedOrder DEF OrderWithoutCoupon
    <2> QED
      BY <1>0, <1>4, <2>1 DEF OrderWithoutCoupon, ProductTypeOK, PromotionTypeOK
  <1>5. CASE CommitCheckout(c)
    <2>1. sku' \in [Skus -> [state : RowState, price : Nat, version : Nat]]
      BY <1>5, StampedType DEF CommitCheckout, ProductTypeOK
    <2>2. ASSUME NEW k \in Coupons
          PROVE  [coupon[k] EXCEPT !.quantity = @ - taken[c][k]] \in Terms
      <3>1. coupon[k] \in Terms /\ coupon[k].quantity \in Nat /\ taken[c][k] \in Nat
        BY DEF PromotionTypeOK, Terms
      <3>2. coupon[k].quantity - taken[c][k] \in Nat
        BY <3>1 DEF CouponsInv
      <3> QED
        BY <3>1, <3>2, QuantityType
    <2>3. coupon' \in [Coupons -> Terms]
      BY <1>5, <2>2 DEF CommitCheckout
    <2>4. ASSUME NEW k \in Coupons
          PROVE  [budget[k] EXCEPT !.uses = @ \cup UsesOf(c, k)] \in Budget
      <3>1. budget[k] \in Budget /\ budget[k].uses \in SUBSET OrderIds
        BY DEF PromotionTypeOK, Budget
      <3>2. budget[k].uses \cup UsesOf(c, k) \in SUBSET OrderIds
        BY <3>1, UsesType
      <3> QED
        BY <3>1, <3>2, BudgetType
    <2>5. budget' \in [Coupons -> Budget]
      BY <1>5, <2>4 DEF CommitCheckout
    <2>6. taken' \in [Checkouts -> [Coupons -> Nat]]
      BY <1>5 DEF CommitCheckout, PromotionTypeOK
    <2> QED
      BY <1>0, <1>5, <2>1, <2>3, <2>5, <2>6
         DEF CommitCheckout, CheckoutGoes, ProductTypeOK, PromotionTypeOK
  <1>6. CASE AbortCheckout(c)
    <2>1. taken' \in [Checkouts -> [Coupons -> Nat]]
      BY <1>6 DEF AbortCheckout, PromotionTypeOK
    <2>2. orders' \in [Checkouts -> Seq(OrderRow)]
      BY <1>6 DEF AbortCheckout, PromotionTypeOK
    <2> QED
      BY <1>0, <1>6, <2>1, <2>2 DEF AbortCheckout, CheckoutGoes, ProductTypeOK, PromotionTypeOK
  <1> QED
    BY <1>1, <1>2, <1>3, <1>4, <1>5, <1>6 DEF PricingStep

\* A checkout's step leaves the other checkouts alone.
LEMMA OtherCheckouts ==
    ASSUME NEW c \in Checkouts, PromotionTypeOK, PricingStep(c), NEW d \in Checkouts, d # c
    PROVE  /\ checkoutAt'[d] = checkoutAt[d] /\ seenSku'[d] = seenSku[d]
           /\ discount'[d] = discount[d] /\ orders'[d] = orders[d]
           /\ taken'[d] = taken[d] /\ payment'[d] = payment[d]
  BY DEF PricingStep, ReadPrices, FindCouponForOrder, DecrementCouponQuantity, CreateOrder,
         OrderWithoutCoupon, CommitCheckout, AbortCheckout, CheckoutGoes, PromotionTypeOK

LEMMA OrdersKept ==
    ASSUME NEW d \in Checkouts, OrdersSoFar(d),
           checkoutAt'[d] = checkoutAt[d], seenSku'[d] = seenSku[d],
           discount'[d] = discount[d], orders'[d] = orders[d]
    PROVE  OrdersSoFar(d)'
  BY DEF OrdersSoFar, OrdersLeft, Current, Subtotal

\* The orders of a checkout stay the first of its body, none discounted below zero.
LEMMA OrdersStep ==
    ASSUME NEW c \in Checkouts, PromotionTypeOK, OrdersInv, CouponsInv,
           DiscountWithinSubtotal, PricingStep(c)
    PROVE  OrdersInv' /\ DiscountWithinSubtotal'
  <1> DEFINE Bounded(d) == \A i \in DOMAIN orders[d] :
        orders[d][i].discountAmount <= 100 * orders[d][i].skuPrice * CheckoutBody[d][i].quantity
  <1>0. OrdersSoFar(c) /\ Bounded(c) /\ orders[c] \in Seq(OrderRow)
    BY DEF OrdersInv, DiscountWithinSubtotal, PromotionTypeOK
  <1>1. ASSUME NEW d \in Checkouts, d # c
        PROVE  OrdersSoFar(d)' /\ Bounded(d)'
    <2>1. OrdersSoFar(d) /\ Bounded(d)
      BY DEF OrdersInv, DiscountWithinSubtotal
    <2>2. /\ checkoutAt'[d] = checkoutAt[d] /\ seenSku'[d] = seenSku[d]
          /\ discount'[d] = discount[d] /\ orders'[d] = orders[d]
      BY <1>1, OtherCheckouts
    <2> QED
      BY <2>1, <2>2, OrdersKept
  <1>2. OrdersSoFar(c)' /\ Bounded(c)'
    <2>1. CASE ReadPrices(c)
      <3>1. orders[c] = <<>> /\ orders' = orders /\ checkoutAt'[c] = "pricing"
        BY <1>0, <2>1 DEF ReadPrices, CheckoutGoes, OrdersSoFar, PromotionTypeOK
      <3> QED
        BY <1>0, <3>1 DEF OrdersSoFar
    <2>2. CASE FindCouponForOrder(c)
      <3> DEFINE k == Current(c).coupon
      <3>1. k \in Coupons /\ coupon[k] \in Terms /\ Subtotal(c) \in Nat
        BY <2>2, CurrentType DEF FindCouponForOrder, PromotionTypeOK
      <3>2. DiscountAmount(coupon[k], Subtotal(c)) <= 100 * Subtotal(c)
        BY <2>2, <3>1, DiscountBound DEF FindCouponForOrder, CouponsInv
      <3>3. /\ discount'[c] = DiscountAmount(coupon[k], Subtotal(c))
            /\ checkoutAt'[c] = "couponFound" /\ orders' = orders /\ seenSku' = seenSku
        BY <2>2 DEF FindCouponForOrder, CheckoutGoes, PromotionTypeOK
      <3>4. OrdersLeft(c)' /\ Current(c)' = Current(c) /\ Subtotal(c)' = Subtotal(c)
        BY <2>2, <3>3 DEF FindCouponForOrder, OrdersLeft, Current, Subtotal
      <3>5. k # Absent
        BY <2>2 DEF FindCouponForOrder
      <3> QED
        BY <1>0, <3>2, <3>3, <3>4, <3>5 DEF OrdersSoFar
    <2>3. ASSUME NEW off \in Nat, OrdersLeft(c), off <= 100 * Subtotal(c), CreateOrder(c, off),
                 checkoutAt'[c] = "pricing", seenSku' = seenSku
          PROVE  OrdersSoFar(c)' /\ Bounded(c)'
      <3> DEFINE n == Len(orders[c]) + 1
      <3>1. /\ orders' \in [Checkouts -> Seq(OrderRow)]
            /\ Len(orders'[c]) = n
            /\ \A i \in DOMAIN orders[c] : orders'[c][i] = orders[c][i]
            /\ orders'[c][n].skuPrice = seenSku[c][Current(c).sku].price
            /\ orders'[c][n].discountAmount = off
        BY <2>3, CreatedOrder
      <3>2. n \in Nat /\ n <= Len(CheckoutBody[c])
        <4>1. Len(CheckoutBody[c]) \in Nat /\ Len(orders[c]) \in Nat
          BY <1>0, PromotionAssumption
        <4> QED
          BY <2>3, <4>1 DEF OrdersLeft
      <3>3. \A i \in DOMAIN orders'[c] : i \in DOMAIN orders[c] \/ i = n
        BY <1>0, <3>1
      <3>4. Current(c) = CheckoutBody[c][n]
        BY DEF Current
      <3>5. /\ Current(c).quantity \in Nat /\ seenSku[c][Current(c).sku].price \in Nat
            /\ Subtotal(c) = seenSku[c][Current(c).sku].price * Current(c).quantity
        BY <2>3, CurrentType DEF Subtotal
      <3>6. off <= 100 * orders'[c][n].skuPrice * CheckoutBody[c][n].quantity
        <4>1. \A x, y \in Nat : 100 * (x * y) = 100 * x * y
          OBVIOUS
        <4>2. 100 * Subtotal(c) = 100 * seenSku[c][Current(c).sku].price * Current(c).quantity
          BY <3>5, <4>1
        <4>3. off <= 100 * seenSku[c][Current(c).sku].price * Current(c).quantity
          BY <2>3, <4>2
        <4> QED
          BY <3>1, <3>4, <4>3
      <3>7. Bounded(c)'
        BY <1>0, <3>1, <3>3, <3>6
      <3>8. \A i \in DOMAIN orders'[c] :
                orders'[c][i].skuPrice = seenSku'[c][CheckoutBody[c][i].sku].price
        BY <1>0, <2>3, <3>1, <3>3, <3>4 DEF OrdersSoFar
      <3> QED
        BY <2>3, <3>1, <3>2, <3>7, <3>8 DEF OrdersSoFar
    <2>4. CASE DecrementCouponQuantity(c)
      <3>1. /\ OrdersLeft(c) /\ discount[c] \in Nat /\ discount[c] <= 100 * Subtotal(c)
            /\ CreateOrder(c, discount[c]) /\ checkoutAt'[c] = "pricing" /\ seenSku' = seenSku
        BY <1>0, <2>4 DEF DecrementCouponQuantity, CheckoutGoes, OrdersSoFar, PromotionTypeOK
      <3> QED
        BY <2>3, <3>1
    <2>5. CASE OrderWithoutCoupon(c)
      <3>1. /\ OrdersLeft(c) /\ CreateOrder(c, 0) /\ checkoutAt'[c] = "pricing"
            /\ seenSku' = seenSku
        BY <2>5 DEF OrderWithoutCoupon
      <3>2. 0 \in Nat /\ 0 <= 100 * Subtotal(c)
        BY <3>1, CurrentType
      <3> QED
        BY <2>3, <3>1, <3>2
    <2>6. CASE CommitCheckout(c)
      BY <1>0, <2>6 DEF CommitCheckout, CheckoutGoes, OrdersSoFar, PromotionTypeOK
    <2>7. CASE AbortCheckout(c)
      <3>1. orders'[c] = <<>> /\ checkoutAt'[c] = "failed"
        BY <2>7 DEF AbortCheckout, CheckoutGoes, PromotionTypeOK
      <3>2. Len(CheckoutBody[c]) \in Nat
        BY PromotionAssumption
      <3> QED
        BY <3>1, <3>2 DEF OrdersSoFar
    <2> QED
      BY <2>1, <2>2, <2>4, <2>5, <2>6, <2>7 DEF PricingStep
  <1> QED
    BY <1>1, <1>2 DEF OrdersInv, DiscountWithinSubtotal

\* Selling a SKU keeps its price and never moves its version back.
LEMMA SkuSold ==
    ASSUME NEW c \in Checkouts, ProductTypeOK, PricingStep(c), NEW s \in Skus
    PROVE  /\ sku'[s].state = sku[s].state /\ sku'[s].price = sku[s].price
           /\ sku[s].version \in Nat /\ sku'[s].version \in Nat
           /\ sku[s].version <= sku'[s].version
  <1>1. sku[s] \in [state : RowState, price : Nat, version : Nat]
    BY DEF ProductTypeOK
  <1>2. CASE sku' = sku
    BY <1>1, <1>2
  <1>3. CASE CommitCheckout(c)
    <2>1. sku'[s] = sku[s] \/ sku'[s] = Stamped(sku[s], sku[s].state, sku[s].price)
      BY <1>3 DEF CommitCheckout
    <2> QED
      BY <1>1, <2>1 DEF Stamped
  <1> QED
    BY <1>2, <1>3
       DEF PricingStep, ReadPrices, FindCouponForOrder, DecrementCouponQuantity,
           OrderWithoutCoupon, AbortCheckout

LEMMA SkusInCart ==
    ASSUME NEW c \in Checkouts
    PROVE  SkusIn(c) \subseteq Skus
  <1> DEFINE Item == [sku : Skus, quantity : Nat, coupon : Coupons \cup {Absent}]
  <1>1. CheckoutBody[c] \in Seq(Item)
    BY PromotionAssumption
  <1>2. \A i \in DOMAIN CheckoutBody[c] : CheckoutBody[c][i] \in Item
    <2> HIDE DEF Item
    <2> QED
      BY <1>1, Element
  <1> QED
    BY <1>2 DEF SkusIn

\* What a checkout knows of a SKU stays true while others sell or edit it.
LEMMA PricesKept ==
    ASSUME NEW d \in Checkouts, PromotionTypeOK, PricesSeen(d), seenSku'[d] = seenSku[d],
           checkoutAt'[d] \in {"pricing", "couponFound"} =>
                checkoutAt[d] \in {"pricing", "couponFound"},
           \A s \in SkusIn(d) : sku[s].state # "none" =>
                /\ sku'[s].state # "none"
                /\ sku[s].version \in Nat /\ sku'[s].version \in Nat
                /\ \/ sku[s].version < sku'[s].version
                   \/ sku[s].version = sku'[s].version /\ sku'[s].price = sku[s].price
    PROVE  PricesSeen(d)'
  <1> SUFFICES ASSUME checkoutAt'[d] \in {"pricing", "couponFound"}, NEW s \in SkusIn(d)
               PROVE  /\ sku'[s].state # "none"
                      /\ seenSku'[d][s].version <= sku'[s].version
                      /\ seenSku'[d][s].version = sku'[s].version
                            => seenSku'[d][s].price = sku'[s].price
    BY DEF PricesSeen
  <1>1. seenSku[d][s].version \in Nat
    BY SkusInCart DEF PromotionTypeOK
  <1>2. /\ sku[s].state # "none" /\ seenSku[d][s].version <= sku[s].version
        /\ seenSku[d][s].version = sku[s].version => seenSku[d][s].price = sku[s].price
    BY DEF PricesSeen
  <1> QED
    BY <1>1, <1>2

LEMMA PricesStep ==
    ASSUME NEW c \in Checkouts, ProductTypeOK, PromotionTypeOK, PricesInv, PricingStep(c)
    PROVE  PricesInv'
  <1> SUFFICES ASSUME NEW d \in Checkouts
               PROVE  PricesSeen(d)'
    BY DEF PricesInv
  <1>0. PricesSeen(d)
    BY DEF PricesInv
  <1>1. \A s \in SkusIn(d) : sku[s].state # "none" =>
            /\ sku'[s].state # "none"
            /\ sku[s].version \in Nat /\ sku'[s].version \in Nat
            /\ \/ sku[s].version < sku'[s].version
               \/ sku[s].version = sku'[s].version /\ sku'[s].price = sku[s].price
    BY SkuSold, SkusInCart
  <1>2. CASE d # c
    BY <1>0, <1>1, <1>2, OtherCheckouts, PricesKept
  <1>3. CASE d = c /\ ReadPrices(c)
    <2>1. \A s \in SkusIn(c) :
            seenSku'[c][s] = [price |-> sku[s].price, version |-> sku[s].version]
      BY <1>3, SkusInCart DEF ReadPrices, PromotionTypeOK
    <2>2. sku' = sku /\ \A s \in SkusIn(c) : sku[s].state # "none" /\ sku[s].version \in Nat
      BY <1>3, SkusInCart DEF ReadPrices, ProductTypeOK
    <2>3. ASSUME NEW s \in SkusIn(c)
          PROVE  /\ sku'[s].state # "none"
                 /\ seenSku'[c][s].version <= sku'[s].version
                 /\ seenSku'[c][s].price = sku'[s].price
      <3>1. seenSku'[c][s] = [price |-> sku[s].price, version |-> sku[s].version]
        BY <2>1
      <3>2. sku' = sku /\ sku[s].state # "none" /\ sku[s].version \in Nat
        BY <2>2
      <3>3. seenSku'[c][s].price = sku[s].price /\ seenSku'[c][s].version = sku[s].version
        BY <3>1
      <3> QED
        BY <3>2, <3>3
    <2> QED
      BY <1>3, <2>3 DEF PricesSeen
  <1>4. CASE d = c /\ ~ReadPrices(c)
    <2>1. /\ seenSku'[d] = seenSku[d]
          /\ checkoutAt'[d] \in {"pricing", "couponFound"} =>
                checkoutAt[d] \in {"pricing", "couponFound"}
      BY <1>4 DEF PricingStep, FindCouponForOrder, DecrementCouponQuantity,
           OrderWithoutCoupon, CommitCheckout, AbortCheckout, CheckoutGoes, PromotionTypeOK
    <2> QED
      BY <1>0, <1>1, <2>1, PricesKept
  <1> QED
    BY <1>2, <1>3, <1>4

\* Editing products does not falsify them either.
LEMMA PricesEdited ==
    ASSUME NEW r \in ProductEdits, ProductTypeOK, PromotionTypeOK, EditsInv, PricesInv,
           ProductStep(r), UNCHANGED promotionVars
    PROVE  PricesInv'
  <1> SUFFICES ASSUME NEW d \in Checkouts
               PROVE  PricesSeen(d)'
    BY DEF PricesInv
  <1>1. PricesSeen(d)
    BY DEF PricesInv
  <1>2. seenSku'[d] = seenSku[d] /\ checkoutAt'[d] = checkoutAt[d]
    BY DEF promotionVars, checkoutVars
  <1>3. ASSUME NEW s \in SkusIn(d), sku[s].state # "none"
        PROVE  /\ sku'[s].state # "none"
               /\ sku[s].version \in Nat /\ sku'[s].version \in Nat
               /\ \/ sku[s].version < sku'[s].version
                  \/ sku[s].version = sku'[s].version /\ sku'[s].price = sku[s].price
    <2>1. s \in Skus
      BY SkusInCart
    <2>2. sku[s].version \in Nat
      BY <2>1 DEF ProductTypeOK
    <2> QED
      BY <1>3, <2>1, <2>2, SkuChanges
  <1> QED
    BY <1>1, <1>2, <1>3, PricesKept

\* A checkout takes a coupon's units under its row lock, at most what is left.
LEMMA CouponPricing ==
    ASSUME NEW c \in Checkouts, PromotionTypeOK, OrdersInv, CouponsInv, PricingStep(c)
    PROVE  CouponsInv'
  <1>0. couponState' = couponState /\ couponAt' = couponAt
    BY DEF PricingStep
  <1>1. CASE UNCHANGED <<taken, coupon>>
    BY <1>0, <1>1 DEF CouponsInv
  <1>2. CASE DecrementCouponQuantity(c)
    <2> DEFINE j == Current(c).coupon
    <2>1. j \in Coupons
      BY <1>2, CurrentType DEF DecrementCouponQuantity, OrdersInv, OrdersSoFar
    <2> HIDE DEF j
    <2>2. /\ taken' = [taken EXCEPT ![c][j] = @ + 1] /\ taken[c][j] < coupon[j].quantity
          /\ \A d \in Checkouts \ {c} : taken[d][j] = 0
          /\ coupon' = coupon
      BY <1>2, <2>1 DEF DecrementCouponQuantity, QuantityLeft, PromotionTypeOK, Terms, j
    <2>3. taken[c][j] \in Nat /\ coupon[j].quantity \in Nat
      BY <2>1 DEF PromotionTypeOK, Terms
    <2>4. ASSUME NEW d \in Checkouts, NEW k \in Coupons
          PROVE  taken'[d][k] = IF d = c /\ k = j THEN taken[c][j] + 1 ELSE taken[d][k]
      BY <2>1, <2>2 DEF PromotionTypeOK
    <2>5. \A d \in Checkouts, k \in Coupons : taken'[d][k] <= coupon'[k].quantity
      BY <2>2, <2>3, <2>4 DEF CouponsInv
    <2>6. \A b, d \in Checkouts, k \in Coupons : taken'[b][k] > 0 /\ taken'[d][k] > 0 => b = d
      BY <2>2, <2>4 DEF CouponsInv
    <2> QED
      BY <1>0, <2>2, <2>5, <2>6 DEF CouponsInv
  <1>3. CASE CommitCheckout(c)
    <2>1. ASSUME NEW k \in Coupons
          PROVE  /\ coupon[k].quantity \in Nat /\ taken[c][k] \in Nat
                 /\ coupon'[k].quantity = coupon[k].quantity - taken[c][k]
                 /\ coupon'[k].discount = coupon[k].discount
                 /\ coupon'[k].discountType = coupon[k].discountType
                 /\ coupon'[k].minOrderAmount = coupon[k].minOrderAmount
      <3>1. coupon[k] \in Terms /\ coupon[k].quantity \in Nat /\ taken[c][k] \in Nat
        BY DEF PromotionTypeOK, Terms
      <3>2. coupon[k].quantity - taken[c][k] \in Nat
        BY <3>1 DEF CouponsInv
      <3>3. coupon'[k] = [coupon[k] EXCEPT !.quantity = coupon[k].quantity - taken[c][k]]
        BY <1>3 DEF CommitCheckout
      <3> QED
        BY <3>1, <3>2, <3>3, QuantityType
    <2>2. ASSUME NEW d \in Checkouts, NEW k \in Coupons
          PROVE  taken'[d][k] = IF d = c THEN 0 ELSE taken[d][k]
      BY <1>3 DEF CommitCheckout, PromotionTypeOK
    <2>3. ASSUME NEW k \in Coupons, couponState[k] = "none"
          PROVE  coupon'[k].quantity = 0
      <3>1. coupon[k].quantity = 0 /\ taken[c][k] <= coupon[k].quantity
        BY <2>3 DEF CouponsInv
      <3> QED
        BY <2>1, <3>1
    <2>4. ASSUME NEW d \in Checkouts, NEW k \in Coupons
          PROVE  taken'[d][k] <= coupon'[k].quantity
      <3>1. taken[c][k] <= coupon[k].quantity /\ taken[d][k] <= coupon[k].quantity
        BY DEF CouponsInv
      <3>2. d # c /\ taken[c][k] > 0 => taken[d][k] = 0
        BY DEF CouponsInv, PromotionTypeOK
      <3> QED
        BY <2>1, <2>2, <3>1, <3>2
    <2>5. \A b, d \in Checkouts, k \in Coupons : taken'[b][k] > 0 /\ taken'[d][k] > 0 => b = d
      BY <2>2 DEF CouponsInv
    <2>6. \A k \in Coupons :
            IF couponState[k] = "none" THEN coupon'[k].quantity = 0
            ELSE coupon'[k].discount <= IF coupon'[k].discountType = "PERCENTAGE"
                                        THEN 100 ELSE coupon'[k].minOrderAmount
      BY <2>1, <2>3 DEF CouponsInv
    <2> QED
      BY <1>0, <2>4, <2>5, <2>6 DEF CouponsInv
  <1>4. CASE AbortCheckout(c)
    <2>1. ASSUME NEW d \in Checkouts, NEW k \in Coupons
          PROVE  taken'[d][k] = IF d = c THEN 0 ELSE taken[d][k]
      BY <1>4 DEF AbortCheckout, PromotionTypeOK
    <2>2. coupon' = coupon
      BY <1>4 DEF AbortCheckout
    <2>3. \A k \in Coupons : coupon[k].quantity \in Nat
      BY DEF PromotionTypeOK, Terms
    <2>4. \A d \in Checkouts, k \in Coupons : taken'[d][k] <= coupon'[k].quantity
      BY <2>1, <2>2, <2>3 DEF CouponsInv
    <2>5. \A b, d \in Checkouts, k \in Coupons : taken'[b][k] > 0 /\ taken'[d][k] > 0 => b = d
      BY <2>1 DEF CouponsInv
    <2> QED
      BY <1>0, <2>2, <2>4, <2>5 DEF CouponsInv
  <1> QED
    BY <1>1, <1>2, <1>3, <1>4
       DEF PricingStep, ReadPrices, FindCouponForOrder, OrderWithoutCoupon

\* Dates that pass change nothing else of a coupon.
LEMMA DatesStep ==
    ASSUME NEW k \in Coupons, PromotionTypeOK, CouponsInv, DatePasses(k)
    PROVE  /\ PromotionTypeOK' /\ CouponsInv'
           /\ \A j \in Coupons : coupon'[j].quantity = coupon[j].quantity
  <1> DEFINE d == IF coupon[k].dates = "early" THEN "open" ELSE "over"
  <1>1. d \in {"early", "open", "over"} /\ coupon[k] \in Terms
    BY DEF PromotionTypeOK
  <1>2. coupon' = [coupon EXCEPT ![k] = [coupon[k] EXCEPT !.dates = d]]
    BY DEF DatePasses
  <1> HIDE DEF d
  <1>3. ASSUME NEW j \in Coupons
        PROVE  /\ coupon'[j] \in Terms
               /\ coupon'[j].quantity = coupon[j].quantity
               /\ coupon'[j].discount = coupon[j].discount
               /\ coupon'[j].discountType = coupon[j].discountType
               /\ coupon'[j].minOrderAmount = coupon[j].minOrderAmount
    <2>1. CASE j # k
      BY <1>2, <2>1 DEF PromotionTypeOK
    <2>2. CASE j = k
      <3>1. coupon'[j] = [coupon[k] EXCEPT !.dates = d]
        BY <1>2, <2>2 DEF PromotionTypeOK
      <3> QED
        <4>1. /\ [coupon[k] EXCEPT !.dates = d] \in Terms
              /\ [coupon[k] EXCEPT !.dates = d].quantity = coupon[k].quantity
              /\ [coupon[k] EXCEPT !.dates = d].discount = coupon[k].discount
              /\ [coupon[k] EXCEPT !.dates = d].discountType = coupon[k].discountType
              /\ [coupon[k] EXCEPT !.dates = d].minOrderAmount = coupon[k].minOrderAmount
          BY <1>1, DatesType
        <4> QED
          BY <2>2, <3>1, <4>1
    <2> QED
      BY <2>1, <2>2
  <1>4. coupon' \in [Coupons -> Terms]
    <2>1. DOMAIN coupon' = Coupons /\ coupon' = [j \in DOMAIN coupon' |-> coupon'[j]]
      BY <1>2 DEF PromotionTypeOK
    <2> QED
      BY <1>3, <2>1
  <1>5. UNCHANGED <<couponState, couponAt, budget, cancelled, cancelAt, checkoutAt, seenSku,
                    discount, taken, asked, orders, payment, paid, refused, delivered>>
    BY DEF DatePasses, unitVars, checkoutVars, paymentVars
  <1>6. PromotionTypeOK'
    BY <1>4, <1>5 DEF PromotionTypeOK
  <1>7. CouponsInv'
    BY <1>3, <1>5 DEF CouponsInv
  <1> QED
    BY <1>3, <1>6, <1>7

LEMMA PaymentTypeStep ==
    ASSUME NEW c \in Checkouts, PromotionTypeOK, OrdersCommitted, PaymentStep(c)
    PROVE  PromotionTypeOK'
  <1>1. UNCHANGED <<couponVars, checkoutVars, cancelAt>>
    BY DEF PaymentStep, ReceiveTransfer, Deliver
  <1>2. /\ payment' \in [Checkouts -> {"none", "PENDING", "SUCCESS", "FAILED"}]
        /\ paid' \in SUBSET Checkouts /\ refused' \in SUBSET Checkouts
        /\ delivered' \in SUBSET Checkouts /\ cancelled' \in SUBSET OrderIds
    BY DEF PaymentStep, ReceiveTransfer, Deliver, PromotionTypeOK, unitVars
  <1>3. budget' \in [Coupons -> Budget]
    <2>1. ASSUME NEW k \in Coupons
          PROVE  [budget[k] EXCEPT !.extra =
                    @ + Cardinality(TakenUpAgain(c, k))] \in Budget
      <3>1. budget[k] \in Budget /\ budget[k].extra \in Nat /\ budget[k].uses \in SUBSET OrderIds
        BY DEF PromotionTypeOK, Budget
      <3>2. IsFiniteSet(budget[k].uses) /\ TakenUpAgain(c, k) \subseteq budget[k].uses
        BY DEF OrdersCommitted, TakenUpAgain
      <3>3. Cardinality(TakenUpAgain(c, k)) \in Nat
        BY <3>2, FS_Subset, FS_CardinalityType
      <3>4. budget[k].extra + Cardinality(TakenUpAgain(c, k)) \in Nat
        BY <3>1, <3>3
      <3> QED
        BY <3>1, <3>4, BudgetType
    <2>2. CASE ReceiveTransfer(c) /\ Accepted(c, asked[c])
      BY <2>1, <2>2 DEF ReceiveTransfer
    <2>3. CASE UNCHANGED budget
      BY <2>3 DEF PromotionTypeOK
    <2> QED
      BY <2>2, <2>3 DEF PaymentStep, ReceiveTransfer, Deliver, unitVars
  <1> QED
    BY <1>1, <1>2, <1>3 DEF couponVars, checkoutVars, PromotionTypeOK

-----------------------------------------------------------------------------
(***************************************************************************)
(* Cancelled orders and the units of coupons.                               *)
(***************************************************************************)

\* The order a cancelOrder has found is one of a finished checkout's body.
LEMMA FoundOrder ==
    ASSUME NEW x \in Cancels, PromotionTypeOK, OrdersInv, OrdersCommitted, cancelAt[x] = "read"
    PROVE  LET o == CancelOf[x]
               item == CheckoutBody[o[1]][o[2]]
           IN  /\ o \in OrderIds /\ o[1] \in Checkouts /\ o = <<o[1], o[2]>>
               /\ payment[o[1]] # "none" /\ o[2] \in DOMAIN orders[o[1]]
               /\ item.sku \in Skus /\ item.coupon \in Coupons \cup {Absent}
               /\ item.coupon \in Coupons => o \in UsesOf(o[1], item.coupon)
  <1> DEFINE o == CancelOf[x]
             Item == [sku : Skus, quantity : Nat, coupon : Coupons \cup {Absent}]
  <1>1. o \in OrderIds /\ o[1] \in Checkouts /\ o = <<o[1], o[2]>>
    BY PromotionAssumption DEF OrderIds
  <1>2. payment[o[1]] # "none" /\ o[2] \in DOMAIN orders[o[1]]
    BY DEF OrdersCommitted
  <1>3. CheckoutBody[o[1]] \in Seq(Item)
    BY <1>1, PromotionAssumption
  <1>4. o[2] \in DOMAIN CheckoutBody[o[1]]
    <2>1. Len(CheckoutBody[o[1]]) \in Nat /\ DOMAIN CheckoutBody[o[1]] = 1..Len(CheckoutBody[o[1]])
      BY <1>3
    <2>2. /\ Len(orders[o[1]]) \in Nat /\ DOMAIN orders[o[1]] = 1..Len(orders[o[1]])
          /\ Len(orders[o[1]]) <= Len(CheckoutBody[o[1]])
      BY <1>1 DEF PromotionTypeOK, OrdersInv, OrdersSoFar
    <2> QED
      BY <1>2, <2>1, <2>2
  <1>5. CheckoutBody[o[1]][o[2]] \in Item
    <2> HIDE DEF Item, o
    <2> QED
      BY <1>3, <1>4, Element
  <1>6. CheckoutBody[o[1]][o[2]].coupon \in Coupons =>
            o \in UsesOf(o[1], CheckoutBody[o[1]][o[2]].coupon)
    <2>1. <<o[1], o[2]>> \in UsesOf(o[1], CheckoutBody[o[1]][o[2]].coupon)
      BY <1>2 DEF UsesOf
    <2> QED
      BY <1>1, <2>1
  <1>7. CheckoutBody[o[1]][o[2]].sku \in Skus /\ CheckoutBody[o[1]][o[2]].coupon \in Coupons \cup {Absent}
    BY <1>5
  <1> QED
    BY <1>1, <1>2, <1>6, <1>7

\* What cancelOrder does to a SKU and a coupon.
LEMMA CancelChanges ==
    ASSUME NEW x \in Cancels, ProductTypeOK, PromotionTypeOK, OrdersInv, OrdersCommitted,
           CancelStep(x)
    PROVE  /\ \A s \in Skus : /\ sku'[s].state = sku[s].state /\ sku'[s].price = sku[s].price
                              /\ sku[s].version \in Nat /\ sku'[s].version \in Nat
                              /\ sku[s].version <= sku'[s].version
           /\ \A k \in Coupons : /\ coupon'[k].discount = coupon[k].discount
                                 /\ coupon'[k].discountType = coupon[k].discountType
                                 /\ coupon'[k].minOrderAmount = coupon[k].minOrderAmount
                                 /\ coupon[k].quantity \in Nat /\ coupon'[k].quantity \in Nat
           /\ ProductTypeOK' /\ coupon' \in [Coupons -> Terms]
  <1>0. /\ \A s \in Skus : sku[s] \in [state : RowState, price : Nat, version : Nat]
        /\ \A k \in Coupons : coupon[k] \in Terms /\ coupon[k].quantity \in Nat
    BY DEF ProductTypeOK, PromotionTypeOK, Terms
  <1>1. CASE UNCHANGED <<sku, coupon>>
    BY <1>0, <1>1 DEF CancelStep, ProductTypeOK, PromotionTypeOK
  <1>2. CASE CommitCancel(x)
    <2> DEFINE o == CancelOf[x]
               t == CheckoutBody[o[1]][o[2]].sku
               j == CheckoutBody[o[1]][o[2]].coupon
    <2>1. t \in Skus
      BY <1>2, FoundOrder DEF CommitCancel
    <2>2. sku' = [sku EXCEPT ![t] = Stamped(sku[t], "live", sku[t].price)] /\ sku[t].state = "live"
      BY <1>2 DEF CommitCancel
    <2>3. coupon' = [k \in Coupons |-> IF j = k THEN [coupon[k] EXCEPT !.quantity = @ + 1]
                                       ELSE coupon[k]]
      BY <1>2 DEF CommitCancel, GiveBack
    <2> HIDE DEF t, j
    <2>4. ASSUME NEW s \in Skus
          PROVE  /\ sku'[s].state = sku[s].state /\ sku'[s].price = sku[s].price
                 /\ sku[s].version \in Nat /\ sku'[s].version \in Nat
                 /\ sku[s].version <= sku'[s].version
                 /\ sku'[s] \in [state : RowState, price : Nat, version : Nat]
      <3>1. sku'[s] = IF s = t THEN Stamped(sku[s], "live", sku[s].price) ELSE sku[s]
        BY <2>1, <2>2 DEF ProductTypeOK
      <3>2. "live" \in RowState
        BY DEF RowState
      <3> QED
        BY <1>0, <2>2, <3>1, <3>2 DEF Stamped
    <2>5. ASSUME NEW k \in Coupons
          PROVE  /\ coupon'[k].discount = coupon[k].discount
                 /\ coupon'[k].discountType = coupon[k].discountType
                 /\ coupon'[k].minOrderAmount = coupon[k].minOrderAmount
                 /\ coupon'[k] \in Terms /\ coupon'[k].quantity \in Nat
      <3>1. coupon[k].quantity + 1 \in Nat
        BY <1>0
      <3>2. coupon'[k] = [coupon[k] EXCEPT !.quantity = coupon[k].quantity + 1] \/ coupon'[k] = coupon[k]
        BY <2>3
      <3>3. CASE coupon'[k] = coupon[k]
        BY <1>0, <3>3
      <3>4. CASE coupon'[k] = [coupon[k] EXCEPT !.quantity = coupon[k].quantity + 1]
        BY <1>0, <3>1, <3>4, QuantityType
      <3> QED
        BY <3>2, <3>3, <3>4
    <2>6. sku' \in [Skus -> [state : RowState, price : Nat, version : Nat]]
      <3>1. sku' = [s \in Skus |-> sku'[s]]
        BY <2>2 DEF ProductTypeOK
      <3> QED
        BY <2>4, <3>1
    <2>7. coupon' \in [Coupons -> Terms]
      <3>1. coupon' = [k \in Coupons |-> coupon'[k]]
        BY <2>3
      <3> QED
        BY <2>5, <3>1
    <2>8. ProductTypeOK'
      BY <2>6 DEF CancelStep, ProductTypeOK
    <2> QED
      BY <1>0, <2>4, <2>5, <2>7, <2>8
  <1> QED
    BY <1>1, <1>2 DEF CancelStep, FindOrder, AbortCancel

LEMMA CancelTypeStep ==
    ASSUME NEW x \in Cancels, ProductTypeOK, PromotionTypeOK, OrdersInv, OrdersCommitted,
           CancelStep(x)
    PROVE  ProductTypeOK' /\ PromotionTypeOK'
  <1>0. UNCHANGED <<couponState, couponAt, checkoutVars, paid, refused, delivered>>
    BY DEF CancelStep
  <1>1. ProductTypeOK' /\ coupon' \in [Coupons -> Terms]
    BY CancelChanges
  <1>2. /\ cancelAt' \in [Cancels -> {"unsent", "start", "read", "done", "failed"}]
        /\ payment' \in [Checkouts -> {"none", "PENDING", "SUCCESS", "FAILED"}]
    BY DEF CancelStep, FindOrder, CommitCancel, AbortCancel, CancelGoes, PromotionTypeOK
  <1>3. cancelled' \in SUBSET OrderIds
    <2>1. CancelOf[x] \in OrderIds /\ cancelled \in SUBSET OrderIds
      BY PromotionAssumption DEF OrderIds, PromotionTypeOK
    <2>2. cancelled' = cancelled \/ cancelled' = cancelled \cup {CancelOf[x]}
      BY DEF CancelStep, FindOrder, CommitCancel, AbortCancel, unitVars
    <2> QED
      BY <2>1, <2>2
  <1>4. budget' \in [Coupons -> Budget]
    <2>1. CASE CommitCancel(x)
      <3>1. ASSUME NEW k \in Coupons
            PROVE  budget[k] \in Budget /\ [budget[k] EXCEPT !.extra = @ + 1] \in Budget
        <4>1. budget[k] \in Budget /\ budget[k].extra + 1 \in Nat /\ budget[k].uses \in SUBSET OrderIds
          BY DEF PromotionTypeOK, Budget
        <4> QED
          BY <4>1, BudgetType
      <3> QED
        BY <2>1, <3>1 DEF CommitCancel
    <2>2. CASE UNCHANGED budget
      BY <2>2 DEF PromotionTypeOK
    <2> QED
      BY <2>1, <2>2 DEF CancelStep, FindOrder, AbortCancel, unitVars
  <1> QED
    BY <1>0, <1>1, <1>2, <1>3, <1>4 DEF PromotionTypeOK, checkoutVars

\* A cancelled order gives its unit back to a coupon whose row nobody holds.
LEMMA CancelCouponsStep ==
    ASSUME NEW x \in Cancels, ProductTypeOK, PromotionTypeOK, OrdersInv, CouponsInv, UnitsInv,
           CancelStep(x)
    PROVE  CouponsInv'
  <1> USE DEF UnitsInv
  <1>0. UNCHANGED <<couponState, couponAt, taken>>
    BY DEF CancelStep, checkoutVars
  <1>1. CASE UNCHANGED coupon
    BY <1>0, <1>1 DEF CouponsInv
  <1>2. CASE CommitCancel(x)
    <2>1. ASSUME NEW k \in Coupons
          PROVE  /\ coupon[k].quantity \in Nat /\ coupon[k].quantity <= coupon'[k].quantity
                 /\ couponState[k] = "none" => coupon'[k].quantity = coupon[k].quantity
      <3> DEFINE j == CheckoutBody[CancelOf[x][1]][CancelOf[x][2]].coupon
      <3>1. coupon[k] \in Terms /\ coupon[k].quantity \in Nat
        BY DEF PromotionTypeOK, Terms
      <3>2. coupon'[k] = IF j = k THEN [coupon[k] EXCEPT !.quantity = coupon[k].quantity + 1]
                         ELSE coupon[k]
        BY <1>2 DEF CommitCancel, GiveBack
      <3>3. j = k => couponState[k] # "none"
        BY <1>2, FoundOrder DEF CommitCancel, UsedCouponsExist
      <3>4. j = k => coupon'[k].quantity = coupon[k].quantity + 1
        BY <3>1, <3>2, QuantityType
      <3> HIDE DEF j
      <3> QED
        BY <3>1, <3>2, <3>3, <3>4
    <2>2. \A c \in Checkouts, k \in Coupons : taken'[c][k] <= coupon'[k].quantity
      <3>1. ASSUME NEW c \in Checkouts, NEW k \in Coupons
            PROVE  taken'[c][k] <= coupon'[k].quantity
        <4>1. taken[c][k] \in Nat /\ taken[c][k] <= coupon[k].quantity /\ coupon'[k].quantity \in Nat
          BY CancelChanges DEF PromotionTypeOK, CouponsInv
        <4> QED
          BY <1>0, <2>1, <4>1
      <3> QED
        BY <3>1
    <2>3. \A k \in Coupons :
            IF couponState[k] = "none" THEN coupon'[k].quantity = 0
            ELSE coupon'[k].discount <= IF coupon'[k].discountType = "PERCENTAGE"
                                        THEN 100 ELSE coupon'[k].minOrderAmount
      BY <2>1, CancelChanges DEF CouponsInv
    <2> QED
      BY <1>0, <2>2, <2>3 DEF CouponsInv
  <1> QED
    BY <1>1, <1>2 DEF CancelStep, FindOrder, AbortCancel

\* Cancelling leaves alone which SKUs there are, what edits know and the prices
\* that checkouts have seen.
LEMMA CancelKept ==
    ASSUME NEW x \in Cancels, ProductTypeOK, PromotionTypeOK, OrdersInv, OrdersCommitted,
           EditsInv, EveryVariantHasSku, PricesInv, CancelStep(x)
    PROVE  EditsInv' /\ EveryVariantHasSku' /\ PricesInv'
  <1>1. UNCHANGED <<product, editAt, editSkus, editTodo, checkoutAt, seenSku>>
    BY DEF CancelStep, checkoutVars
  <1>2. \A s \in Skus : /\ sku'[s].state = sku[s].state /\ sku'[s].price = sku[s].price
                        /\ sku[s].version \in Nat /\ sku'[s].version \in Nat
                        /\ sku[s].version <= sku'[s].version
    BY CancelChanges
  <1>3. \A p \in Products : LiveSkus(p)' = LiveSkus(p) /\ DeletionBegun(p)' = DeletionBegun(p)
    BY <1>1, <1>2 DEF LiveSkus, DeletionBegun
  <1>4. EveryVariantHasSku'
    BY <1>1, <1>3 DEF EveryVariantHasSku
  <1>5. EditsInv'
    BY <1>1, <1>2 DEF EditsInv
  <1>6. ASSUME NEW d \in Checkouts
        PROVE  PricesSeen(d)'
    <2>1. PricesSeen(d) /\ seenSku'[d] = seenSku[d] /\ checkoutAt'[d] = checkoutAt[d]
      BY <1>1 DEF PricesInv
    <2>2. ASSUME NEW s \in SkusIn(d)
          PROVE  /\ sku'[s].state = sku[s].state
                 /\ sku[s].version \in Nat /\ sku'[s].version \in Nat
                 /\ \/ sku[s].version < sku'[s].version
                    \/ sku[s].version = sku'[s].version /\ sku'[s].price = sku[s].price
      BY <1>2, SkusInCart
    <2> QED
      BY <2>1, <2>2, PricesKept
  <1> QED
    BY <1>4, <1>5, <1>6 DEF PricesInv

\* The parts of UnitsInv that speak of checkouts are kept while their variables are.
LEMMA UsesKept ==
    ASSUME UsedCouponsExist, TakenIsUsed, UNCHANGED checkoutVars,
           \A k \in Coupons : couponState[k] # "none" => couponState'[k] # "none"
    PROVE  UsedCouponsExist' /\ TakenIsUsed'
  <1>1. UNCHANGED <<checkoutAt, taken, orders>>
    BY DEF checkoutVars
  <1>2. \A c \in Checkouts, k \in Coupons : UsesOf(c, k)' = UsesOf(c, k) /\ Current(c)' = Current(c)
    BY <1>1 DEF UsesOf, Current
  <1>3. UsedCouponsExist'
    BY <1>1, <1>2 DEF UsedCouponsExist
  <1>4. TakenIsUsed'
    BY <1>1, <1>2 DEF TakenIsUsed
  <1> QED
    BY <1>3, <1>4

\* Writing a coupon's quantity begins its account anew.
LEMMA UnitsEdited ==
    ASSUME NEW e \in CouponEdits, PromotionTypeOK, UnitsInv, CouponStep(e)
    PROVE  UnitsInv'
  <1> USE DEF UnitsInv
  <1>0. UNCHANGED <<checkoutVars, payment, orders, cancelled, cancelAt>>
    BY DEF CouponStep, checkoutVars, paymentVars
  <1>1. \A k \in Coupons : couponState[k] # "none" => couponState'[k] # "none"
    BY DEF CouponStep, CreateCoupon, ValidateCoupon, UpdateCoupon, DeleteCoupon, AbortCouponEdit,
           PromotionTypeOK
  <1>2. UsedCouponsExist' /\ TakenIsUsed'
    BY <1>0, <1>1, UsesKept
  <1>3. CASE PutCoupon(e)
    <2>1. ASSUME NEW k \in Coupons
          PROVE  \/ budget'[k] = budget[k] /\ coupon'[k] = coupon[k]
                 \/ /\ budget'[k].uses = {} /\ budget'[k].extra = 0
                    /\ coupon'[k].quantity \in Nat /\ budget'[k].granted = coupon'[k].quantity
      BY <1>3, BodyType DEF PutCoupon, PromotionTypeOK
    <2>2. IsFiniteSet({}) /\ Cardinality({}) = 0
      BY FS_EmptySet
    <2>3. OrdersCommitted'
      BY <1>0, <2>1, <2>2 DEF OrdersCommitted
    <2>4. ASSUME NEW k \in Coupons
          PROVE  Cardinality(InForce(k))' + coupon'[k].quantity = budget'[k].granted + budget'[k].extra
      <3>1. CASE budget'[k] = budget[k] /\ coupon'[k] = coupon[k]
        <4>1. InForce(k)' = InForce(k)
          BY <1>0, <3>1 DEF InForce
        <4> QED
          BY <3>1, <4>1 DEF UnitsBalance
      <3>2. CASE /\ budget'[k].uses = {} /\ budget'[k].extra = 0
                 /\ coupon'[k].quantity \in Nat /\ budget'[k].granted = coupon'[k].quantity
        <4>1. InForce(k)' = {}
          BY <3>2 DEF InForce
        <4> QED
          BY <2>2, <3>2, <4>1
      <3> QED
        BY <2>1, <3>1, <3>2
    <2> QED
      BY <1>2, <2>3, <2>4 DEF UnitsBalance
  <1>4. CASE UNCHANGED <<budget, coupon>>
    <2>1. \A k \in Coupons : InForce(k)' = InForce(k)
      BY <1>0, <1>4 DEF InForce
    <2> QED
      BY <1>0, <1>2, <1>4, <2>1 DEF OrdersCommitted, UnitsBalance
  <1> QED
    BY <1>3, <1>4 DEF CouponStep, CreateCoupon, ValidateCoupon, UpdateCoupon, DeleteCoupon,
                      AbortCouponEdit

\* Nothing is counted anew while only dates pass, orders are delivered or others work.
LEMMA UnitsKept ==
    ASSUME UnitsInv, UNCHANGED <<unitVars, checkoutVars, payment, cancelAt, couponState>>,
           \A k \in Coupons : coupon'[k].quantity = coupon[k].quantity
    PROVE  UnitsInv'
  <1> USE DEF UnitsInv
  <1>1. UNCHANGED <<budget, cancelled, orders>>
    BY DEF unitVars, checkoutVars
  <1>2. UsedCouponsExist' /\ TakenIsUsed'
    BY UsesKept
  <1>3. \A k \in Coupons : InForce(k)' = InForce(k)
    BY <1>1 DEF InForce
  <1> QED
    BY <1>1, <1>2, <1>3 DEF OrdersCommitted, UnitsBalance

\* An order created uses a coupon or none.
LEMMA UsesAdded ==
    ASSUME NEW c \in Checkouts, PromotionTypeOK, OrdersLeft(c), NEW off \in Nat,
           CreateOrder(c, off), NEW k \in Coupons
    PROVE  /\ Current(c).coupon # k => UsesOf(c, k)' = UsesOf(c, k)
           /\ Current(c).coupon = k =>
                Cardinality(UsesOf(c, k))' = Cardinality(UsesOf(c, k)) + 1
  <1> DEFINE n == Len(orders[c]) + 1
  <1>1. Len(orders[c]) \in Nat /\ DOMAIN orders[c] = 1..Len(orders[c])
    BY DEF PromotionTypeOK
  <1>2. orders'[c] \in Seq(OrderRow) /\ Len(orders'[c]) = n
    BY CreatedOrder
  <1>3. DOMAIN orders'[c] = DOMAIN orders[c] \cup {n} /\ n \notin DOMAIN orders[c]
    BY <1>1, <1>2
  <1>4. Current(c) = CheckoutBody[c][n]
    BY DEF Current
  <1> HIDE DEF n
  <1>5. UsesOf(c, k)' = UsesOf(c, k) \cup (IF Current(c).coupon = k THEN {<<c, n>>} ELSE {})
    BY <1>3, <1>4 DEF UsesOf
  <1>6. <<c, n>> \notin UsesOf(c, k) /\ IsFiniteSet(UsesOf(c, k))
    BY <1>3, UsesType DEF UsesOf
  <1> QED
    BY <1>5, <1>6, FS_AddElement

\* A checkout's coupon units are the uses of its orders, committed at once.
LEMMA UnitsPriced ==
    ASSUME NEW c \in Checkouts, PromotionTypeOK, OrdersInv, CouponsInv, TotalsInv, UnitsInv,
           PricingStep(c)
    PROVE  UnitsInv'
  <1> USE DEF UnitsInv
  <1>0. UNCHANGED <<couponState, cancelled, cancelAt>> /\ OrdersSoFar(c)
    BY DEF PricingStep, OrdersInv
  <1>1. payment[c] = "none"
    BY DEF PricingStep, ReadPrices, FindCouponForOrder, DecrementCouponQuantity,
           OrderWithoutCoupon, CommitCheckout, AbortCheckout, TotalsInv
  <1>2. ASSUME NEW d \in Checkouts, d # c, NEW k \in Coupons
        PROVE  /\ UsesOf(d, k)' = UsesOf(d, k) /\ Current(d)' = Current(d)
               /\ taken'[d] = taken[d] /\ checkoutAt'[d] = checkoutAt[d]
               /\ orders'[d] = orders[d] /\ payment'[d] = payment[d]
    <2>1. /\ orders'[d] = orders[d] /\ taken'[d] = taken[d]
          /\ checkoutAt'[d] = checkoutAt[d] /\ payment'[d] = payment[d]
      BY <1>2, OtherCheckouts
    <2> QED
      BY <2>1 DEF UsesOf, Current
  <1>3. ASSUME NEW k \in Coupons
        PROVE  /\ (checkoutAt'[c] = "couponFound" /\ Current(c)'.coupon = k) \/ UsesOf(c, k)' # {}
                    => couponState[k] # "none"
               /\ checkoutAt'[c] \in {"unsent", "start"} => taken'[c][k] = 0
               /\ checkoutAt'[c] \in {"pricing", "couponFound"} =>
                    taken'[c][k] = Cardinality(UsesOf(c, k))'
    <2>0. /\ (checkoutAt[c] = "couponFound" /\ Current(c).coupon = k) \/ UsesOf(c, k) # {}
                => couponState[k] # "none"
          /\ checkoutAt[c] \in {"unsent", "start"} => taken[c][k] = 0
          /\ checkoutAt[c] \in {"pricing", "couponFound"} =>
                taken[c][k] = Cardinality(UsesOf(c, k))
      BY DEF UsedCouponsExist, TakenIsUsed
    <2>1. CASE ReadPrices(c)
      <3>1. orders[c] = <<>> /\ orders' = orders /\ taken' = taken /\ taken[c][k] = 0
            /\ checkoutAt'[c] = "pricing"
        BY <1>0, <2>0, <2>1 DEF ReadPrices, CheckoutGoes, OrdersSoFar, PromotionTypeOK
      <3>2. UsesOf(c, k)' = {} /\ Cardinality({}) = 0
        BY <3>1, FS_EmptySet DEF UsesOf
      <3> QED
        BY <3>1, <3>2
    <2>2. CASE FindCouponForOrder(c)
      <3>1. /\ orders' = orders /\ taken' = taken /\ checkoutAt[c] = "pricing"
            /\ couponState[Current(c).coupon] = "live" /\ checkoutAt'[c] = "couponFound"
        BY <2>2 DEF FindCouponForOrder, CheckoutGoes, PromotionTypeOK
      <3>2. UsesOf(c, k)' = UsesOf(c, k) /\ Current(c)' = Current(c)
        BY <3>1 DEF UsesOf, Current
      <3> QED
        BY <2>0, <3>1, <3>2
    <2>3. CASE DecrementCouponQuantity(c)
      <3>1. /\ OrdersLeft(c) /\ discount[c] \in Nat /\ CreateOrder(c, discount[c])
            /\ checkoutAt[c] = "couponFound" /\ checkoutAt'[c] = "pricing"
            /\ Current(c).coupon \in Coupons
        BY <1>0, <2>3, CurrentType DEF DecrementCouponQuantity, CheckoutGoes, OrdersSoFar, PromotionTypeOK
      <3>2. taken' = [taken EXCEPT ![c][Current(c).coupon] = @ + 1]
        BY <2>3 DEF DecrementCouponQuantity
      <3>3. /\ Current(c).coupon # k => UsesOf(c, k)' = UsesOf(c, k)
            /\ Current(c).coupon = k =>
                Cardinality(UsesOf(c, k))' = Cardinality(UsesOf(c, k)) + 1
        BY <3>1, UsesAdded
      <3>4. taken'[c][k] = IF Current(c).coupon = k THEN taken[c][k] + 1 ELSE taken[c][k]
        BY <3>1, <3>2 DEF PromotionTypeOK
      <3> QED
        BY <2>0, <3>1, <3>3, <3>4
    <2>4. CASE OrderWithoutCoupon(c)
      <3>1. /\ OrdersLeft(c) /\ CreateOrder(c, 0) /\ Current(c).coupon = Absent
            /\ checkoutAt[c] = "pricing" /\ checkoutAt' = checkoutAt /\ taken' = taken
        BY <2>4 DEF OrderWithoutCoupon
      <3>2. UsesOf(c, k)' = UsesOf(c, k)
        BY <3>1, UsesAdded, PromotionAssumption
      <3> QED
        BY <2>0, <3>1, <3>2
    <2>5. CASE CommitCheckout(c)
      <3>1. orders' = orders /\ checkoutAt'[c] = "done"
        BY <2>5 DEF CommitCheckout, CheckoutGoes, PromotionTypeOK
      <3>2. UsesOf(c, k)' = UsesOf(c, k)
        BY <3>1 DEF UsesOf
      <3> QED
        BY <2>0, <3>1, <3>2
    <2>6. CASE AbortCheckout(c)
      <3>1. orders'[c] = <<>> /\ checkoutAt'[c] = "failed"
        BY <2>6 DEF AbortCheckout, CheckoutGoes, PromotionTypeOK
      <3>2. UsesOf(c, k)' = {}
        BY <3>1 DEF UsesOf
      <3> QED
        BY <3>1, <3>2
    <2> QED
      BY <2>1, <2>2, <2>3, <2>4, <2>5, <2>6 DEF PricingStep
  <1>4. UsedCouponsExist' /\ TakenIsUsed'
    <2>1. UsedCouponsExist'
      BY <1>0, <1>2, <1>3 DEF UsedCouponsExist
    <2>2. TakenIsUsed'
      BY <1>2, <1>3 DEF TakenIsUsed
    <2> QED
      BY <2>1, <2>2
  <1>5. \A d \in Checkouts : payment[d] # "none" =>
            payment'[d] # "none" /\ orders'[d] = orders[d]
    BY <1>1, OtherCheckouts
  <1>6. /\ \A o \in cancelled' : payment'[o[1]] # "none"
        /\ \A x \in Cancels : cancelAt'[x] = "read" =>
              payment'[CancelOf[x][1]] # "none" /\ CancelOf[x][2] \in DOMAIN orders'[CancelOf[x][1]]
    <2>1. \A x \in Cancels : CancelOf[x][1] \in Checkouts
      BY PromotionAssumption
    <2>2. \A o \in cancelled : o[1] \in Checkouts
      BY DEF PromotionTypeOK, OrderIds
    <2> QED
      BY <1>0, <1>5, <2>1, <2>2 DEF OrdersCommitted
  <1>7. CASE UNCHANGED <<budget, coupon>>
    <2>1. \A k \in Coupons : InForce(k)' = InForce(k)
      BY <1>0, <1>7 DEF InForce
    <2>2. \A k \in Coupons : \A o \in budget[k].uses : o[1] \in Checkouts
      BY DEF PromotionTypeOK, Budget, OrderIds
    <2>3. OrdersCommitted'
      BY <1>5, <1>6, <1>7, <2>2 DEF OrdersCommitted
    <2> QED
      BY <1>4, <1>7, <2>1, <2>3 DEF UnitsBalance
  <1>8. CASE CommitCheckout(c)
    <2>0. payment'[c] = "PENDING" /\ checkoutAt[c] = "pricing"
      BY <1>8 DEF CommitCheckout, PromotionTypeOK
    <2>1. ASSUME NEW k \in Coupons
          PROVE  /\ budget'[k].uses = budget[k].uses \cup UsesOf(c, k)
                 /\ budget'[k].granted = budget[k].granted /\ budget'[k].extra = budget[k].extra
                 /\ budget[k].granted \in Nat /\ budget[k].extra \in Nat
                 /\ budget[k].uses \in SUBSET OrderIds
      <3>1. /\ budget[k] \in Budget /\ budget[k].uses \in SUBSET OrderIds
            /\ budget[k].granted \in Nat /\ budget[k].extra \in Nat
        BY DEF PromotionTypeOK, Budget
      <3>2. budget[k].uses \cup UsesOf(c, k) \in SUBSET OrderIds
        BY <3>1, UsesType
      <3>3. budget'[k] = [budget[k] EXCEPT !.uses = budget[k].uses \cup UsesOf(c, k)]
        BY <1>8 DEF CommitCheckout
      <3> QED
        BY <3>1, <3>2, <3>3, BudgetType
    <2>2. ASSUME NEW k \in Coupons
          PROVE  /\ coupon[k].quantity \in Nat /\ taken[c][k] \in Nat
                 /\ coupon'[k].quantity = coupon[k].quantity - taken[c][k]
                 /\ taken[c][k] = Cardinality(UsesOf(c, k))
      <3>1. coupon[k] \in Terms /\ coupon[k].quantity \in Nat /\ taken[c][k] \in Nat
        BY DEF PromotionTypeOK, Terms
      <3>2. coupon[k].quantity - taken[c][k] \in Nat
        BY <3>1 DEF CouponsInv
      <3>3. coupon'[k] = [coupon[k] EXCEPT !.quantity = coupon[k].quantity - taken[c][k]]
        BY <1>8 DEF CommitCheckout
      <3>4. taken[c][k] = Cardinality(UsesOf(c, k))
        BY <2>0 DEF TakenIsUsed
      <3> QED
        BY <3>1, <3>2, <3>3, <3>4, QuantityType
    <2>3. ASSUME NEW k \in Coupons
          PROVE  /\ IsFiniteSet(budget[k].uses) /\ IsFiniteSet(UsesOf(c, k))
                 /\ \A o \in UsesOf(c, k) : o[1] = c /\ CheckoutBody[o[1]][o[2]].coupon = k
                 /\ \A o \in budget[k].uses : /\ o[1] \in Checkouts /\ payment[o[1]] # "none"
                                              /\ CheckoutBody[o[1]][o[2]].coupon = k
      <3>1. \A o \in UsesOf(c, k) : o = <<c, o[2]>> /\ CheckoutBody[c][o[2]].coupon = k
        BY UsesType
      <3>2. \A o \in UsesOf(c, k) : o[1] = c
        BY <3>1
      <3> QED
        BY <3>1, <3>2, <2>1, UsesType DEF OrdersCommitted, OrderIds
    <2>4. OrdersCommitted'
      <3>1. ASSUME NEW k \in Coupons
            PROVE  IsFiniteSet(budget'[k].uses)
        <4>1. IsFiniteSet(budget[k].uses) /\ IsFiniteSet(UsesOf(c, k))
          BY <2>3
        <4>2. IsFiniteSet(budget[k].uses \cup UsesOf(c, k))
          BY <4>1, FS_Union
        <4> QED
          BY <2>1, <4>2
      <3>2. ASSUME NEW k \in Coupons, NEW o \in budget'[k].uses
            PROVE  payment'[o[1]] # "none" /\ CheckoutBody[o[1]][o[2]].coupon = k
        BY <1>5, <2>0, <2>1, <2>3, <3>2
      <3> QED
        BY <1>6, <3>1, <3>2 DEF OrdersCommitted
    <2>5. ASSUME NEW k \in Coupons
          PROVE  Cardinality(InForce(k))' = Cardinality(InForce(k)) + Cardinality(UsesOf(c, k))
      <3>1. InForce(k)' = InForce(k) \cup UsesOf(c, k)
        <4>1. \A o \in UsesOf(c, k) : o \notin cancelled
          BY <1>1, <2>3 DEF OrdersCommitted
        <4> QED
          BY <1>0, <2>1, <4>1 DEF InForce
      <3>2. InForce(k) \cap UsesOf(c, k) = {}
        BY <1>1, <2>3 DEF InForce
      <3>3. IsFiniteSet(InForce(k)) /\ IsFiniteSet(UsesOf(c, k))
        BY <2>3, FS_Subset DEF InForce
      <3>4. /\ Cardinality(InForce(k) \cup UsesOf(c, k)) =
                  Cardinality(InForce(k)) + Cardinality(UsesOf(c, k))
                  - Cardinality(InForce(k) \cap UsesOf(c, k))
            /\ Cardinality(InForce(k)) \in Nat /\ Cardinality(UsesOf(c, k)) \in Nat
        BY <3>3, FS_Union, FS_CardinalityType
      <3>5. Cardinality(InForce(k) \cap UsesOf(c, k)) = 0
        BY <3>2, FS_EmptySet
      <3> QED
        BY <3>1, <3>4, <3>5
    <2>6. ASSUME NEW k \in Coupons
          PROVE  Cardinality(InForce(k))' + coupon'[k].quantity = budget'[k].granted + budget'[k].extra
      <3>1. Cardinality(InForce(k)) \in Nat
        BY <2>3, FS_Subset, FS_CardinalityType DEF InForce
      <3>2. Cardinality(InForce(k)) + coupon[k].quantity = budget[k].granted + budget[k].extra
        BY DEF UnitsBalance
      <3> QED
        BY <2>1, <2>2, <2>5, <3>1, <3>2
    <2> QED
      BY <1>4, <2>4, <2>6 DEF UnitsBalance
  <1> QED
    BY <1>7, <1>8 DEF PricingStep, ReadPrices, FindCouponForOrder, DecrementCouponQuantity,
           OrderWithoutCoupon, AbortCheckout

\* A transfer that takes up cancelled orders counts their units as come back.
LEMMA UnitsPaid ==
    ASSUME NEW c \in Checkouts, PromotionTypeOK, UnitsInv, PaymentStep(c)
    PROVE  UnitsInv'
  <1> USE DEF UnitsInv
  <1>0. UNCHANGED <<couponVars, checkoutVars, cancelAt>> /\ UNCHANGED <<couponState, coupon, orders>>
    BY DEF PaymentStep, ReceiveTransfer, Deliver, couponVars, checkoutVars
  <1>1. \A d \in Checkouts : payment[d] # "none" => payment'[d] # "none"
    BY DEF PaymentStep, ReceiveTransfer, Deliver, PromotionTypeOK
  <1>2. CASE UNCHANGED <<unitVars, payment>>
    BY <1>0, <1>2, UnitsKept
  <1>3. CASE ReceiveTransfer(c) /\ Accepted(c, asked[c])
    <2>1. cancelled' = {o \in cancelled : o[1] # c}
      BY <1>3 DEF ReceiveTransfer
    <2>2. ASSUME NEW k \in Coupons
          PROVE  /\ IsFiniteSet(TakenUpAgain(c, k)) /\ IsFiniteSet(InForce(k))
                 /\ Cardinality(TakenUpAgain(c, k)) \in Nat /\ Cardinality(InForce(k)) \in Nat
      BY FS_Subset, FS_CardinalityType DEF OrdersCommitted, InForce, TakenUpAgain
    <2>3. ASSUME NEW k \in Coupons
          PROVE  /\ budget'[k].uses = budget[k].uses /\ budget'[k].granted = budget[k].granted
                 /\ budget'[k].extra = budget[k].extra + Cardinality(TakenUpAgain(c, k))
                 /\ budget[k].uses \in SUBSET OrderIds
                 /\ budget[k].granted \in Nat /\ budget[k].extra \in Nat
      <3>1. /\ budget[k] \in Budget /\ budget[k].uses \in SUBSET OrderIds
            /\ budget[k].extra \in Nat /\ budget[k].granted \in Nat
        BY DEF PromotionTypeOK, Budget
      <3>2. budget'[k] = [budget[k] EXCEPT !.extra = budget[k].extra + Cardinality(TakenUpAgain(c, k))]
        BY <1>3 DEF ReceiveTransfer
      <3>3. budget[k].extra + Cardinality(TakenUpAgain(c, k)) \in Nat
        BY <2>2, <3>1
      <3> QED
        BY <3>1, <3>2, <3>3, BudgetType
    <2>4. ASSUME NEW k \in Coupons
          PROVE  Cardinality(InForce(k))' = Cardinality(InForce(k)) + Cardinality(TakenUpAgain(c, k))
      <3>1. InForce(k)' = InForce(k) \cup TakenUpAgain(c, k) /\ InForce(k) \cap TakenUpAgain(c, k) = {}
        BY <2>1, <2>3 DEF InForce, TakenUpAgain
      <3>2. Cardinality(InForce(k) \cup TakenUpAgain(c, k)) =
                Cardinality(InForce(k)) + Cardinality(TakenUpAgain(c, k))
                    - Cardinality(InForce(k) \cap TakenUpAgain(c, k))
        BY <2>2, FS_Union
      <3>3. Cardinality(InForce(k) \cap TakenUpAgain(c, k)) = 0
        BY <3>1, FS_EmptySet
      <3> QED
        BY <2>2, <3>1, <3>2, <3>3
    <2>5. UnitsBalance'
      <3>1. ASSUME NEW k \in Coupons
            PROVE  Cardinality(InForce(k))' + coupon'[k].quantity = budget'[k].granted + budget'[k].extra
        <4>1. Cardinality(InForce(k)) + coupon[k].quantity = budget[k].granted + budget[k].extra
          BY DEF UnitsBalance
        <4>2. coupon[k].quantity \in Nat /\ coupon' = coupon
          BY <1>0 DEF PromotionTypeOK, Terms
        <4> QED
          BY <2>2, <2>3, <2>4, <4>1, <4>2
      <3> QED
        BY <3>1 DEF UnitsBalance
    <2>6. OrdersCommitted'
      <3>1. \A x \in Cancels : CancelOf[x][1] \in Checkouts
        BY PromotionAssumption
      <3>2. /\ \A o \in cancelled : o[1] \in Checkouts
            /\ \A k \in Coupons : \A o \in budget[k].uses : o[1] \in Checkouts
        BY <2>3 DEF PromotionTypeOK, OrderIds
      <3> QED
        BY <1>0, <1>1, <2>1, <2>3, <3>1, <3>2 DEF OrdersCommitted
    <2>7. UsedCouponsExist' /\ TakenIsUsed'
      BY <1>0, UsesKept
    <2> QED
      BY <2>5, <2>6, <2>7
  <1> QED
    <2>1. ReceiveTransfer(c) /\ ~Accepted(c, asked[c]) => UNCHANGED <<unitVars, payment>>
      BY DEF ReceiveTransfer
    <2>2. Deliver(c) => UNCHANGED <<unitVars, payment>>
      BY DEF Deliver
    <2> QED
      BY <1>2, <1>3, <2>1, <2>2 DEF PaymentStep

\* The unit a cancelled order gives back is its own, or counted as extra.
LEMMA UnitsCancelled ==
    ASSUME NEW x \in Cancels, PromotionTypeOK, OrdersInv, UnitsInv, CancelStep(x)
    PROVE  UnitsInv'
  <1> USE DEF UnitsInv
  <1> DEFINE o == CancelOf[x]
             j == CheckoutBody[o[1]][o[2]].coupon
  <1>0. UNCHANGED <<couponState, checkoutVars>> /\ UNCHANGED orders
    BY DEF CancelStep, checkoutVars
  <1>1. UsedCouponsExist' /\ TakenIsUsed'
    BY <1>0, UsesKept
  <1>2. o[1] \in Checkouts /\ o \in OrderIds
    BY PromotionAssumption DEF OrderIds
  <1>3. CASE UNCHANGED <<coupon, unitVars, payment>> /\ ~CommitCancel(x)
    <2>1. UNCHANGED <<budget, cancelled>>
      BY <1>3 DEF unitVars
    <2>2. ASSUME NEW y \in Cancels, cancelAt'[y] = "read"
          PROVE  payment[CancelOf[y][1]] # "none" /\ CancelOf[y][2] \in DOMAIN orders[CancelOf[y][1]]
      BY <1>3, <2>2 DEF CancelStep, FindOrder, AbortCancel, CancelGoes, PromotionTypeOK, OrdersCommitted
    <2>3. OrdersCommitted'
      BY <1>0, <1>3, <2>1, <2>2 DEF OrdersCommitted
    <2>4. \A k \in Coupons : InForce(k)' = InForce(k)
      BY <2>1 DEF InForce
    <2> QED
      BY <1>1, <1>3, <2>1, <2>3, <2>4 DEF UnitsBalance
  <1>4. CASE CommitCancel(x)
    <2>1. /\ cancelled' = cancelled \cup {o} /\ payment[o[1]] # "none"
          /\ payment' = [payment EXCEPT ![o[1]] = "FAILED"]
          /\ cancelAt' = [cancelAt EXCEPT ![x] = "done"]
      BY <1>4 DEF CommitCancel, CancelGoes, OrdersCommitted
    <2>2. \A d \in Checkouts : payment[d] # "none" => payment'[d] # "none"
      BY <2>1 DEF PromotionTypeOK
    <2>3. ASSUME NEW k \in Coupons
          PROVE  /\ budget'[k].uses = budget[k].uses /\ budget'[k].granted = budget[k].granted
                 /\ budget'[k].extra = IF k = j /\ o \notin InForce(k)
                                       THEN budget[k].extra + 1 ELSE budget[k].extra
                 /\ budget[k].uses \in SUBSET OrderIds
                 /\ budget[k].granted \in Nat /\ budget[k].extra \in Nat
      <3>1. /\ budget[k] \in Budget /\ budget[k].uses \in SUBSET OrderIds
            /\ budget[k].extra \in Nat /\ budget[k].extra + 1 \in Nat /\ budget[k].granted \in Nat
        BY DEF PromotionTypeOK, Budget
      <3>2. budget'[k] = IF k = j /\ o \notin InForce(k)
                         THEN [budget[k] EXCEPT !.extra = budget[k].extra + 1] ELSE budget[k]
        BY <1>4 DEF CommitCancel
      <3> HIDE DEF o, j
      <3> QED
        BY <3>1, <3>2, BudgetType
    <2>4. ASSUME NEW k \in Coupons
          PROVE  /\ coupon[k].quantity \in Nat
                 /\ coupon'[k].quantity = IF j = k THEN coupon[k].quantity + 1 ELSE coupon[k].quantity
      <3>1. coupon[k] \in Terms /\ coupon[k].quantity \in Nat /\ coupon[k].quantity + 1 \in Nat
        BY DEF PromotionTypeOK, Terms
      <3>2. coupon'[k] = IF j = k THEN [coupon[k] EXCEPT !.quantity = coupon[k].quantity + 1]
                         ELSE coupon[k]
        BY <1>4 DEF CommitCancel, GiveBack
      <3> HIDE DEF j
      <3> QED
        BY <3>1, <3>2, QuantityType
    <2>5. OrdersCommitted'
      <3>1. \A y \in Cancels : CancelOf[y][1] \in Checkouts /\ (cancelAt'[y] = "read" => cancelAt[y] = "read")
        BY <2>1, PromotionAssumption DEF PromotionTypeOK
      <3>2. /\ \A p \in cancelled : p[1] \in Checkouts
            /\ \A k \in Coupons : \A p \in budget[k].uses : p[1] \in Checkouts
        BY <2>3 DEF PromotionTypeOK, OrderIds
      <3>3. \A p \in cancelled' : payment'[p[1]] # "none"
        BY <1>2, <2>1, <2>2, <3>2 DEF OrdersCommitted
      <3>4. \A y \in Cancels : cancelAt'[y] = "read" =>
              payment'[CancelOf[y][1]] # "none" /\ CancelOf[y][2] \in DOMAIN orders'[CancelOf[y][1]]
        BY <1>0, <2>2, <3>1 DEF OrdersCommitted
      <3>5. /\ \A k \in Coupons : IsFiniteSet(budget'[k].uses)
            /\ \A k \in Coupons : \A p \in budget'[k].uses :
                    payment'[p[1]] # "none" /\ CheckoutBody[p[1]][p[2]].coupon = k
        BY <2>2, <2>3, <3>2 DEF OrdersCommitted
      <3> QED
        BY <3>3, <3>4, <3>5 DEF OrdersCommitted
    <2>6. ASSUME NEW k \in Coupons
          PROVE  Cardinality(InForce(k))' + coupon'[k].quantity = budget'[k].granted + budget'[k].extra
      <3>1. IsFiniteSet(InForce(k)) /\ Cardinality(InForce(k)) \in Nat
        BY FS_Subset, FS_CardinalityType DEF InForce, OrdersCommitted
      <3>2. Cardinality(InForce(k)) + coupon[k].quantity = budget[k].granted + budget[k].extra
        BY DEF UnitsBalance
      <3>3. InForce(k)' = InForce(k) \ {o}
        BY <2>1, <2>3 DEF InForce
      <3>4. o \in InForce(k) => k = j
        BY DEF InForce, OrdersCommitted
      <3>5. CASE o \in InForce(k)
        <4>1. Cardinality(InForce(k) \ {o}) = Cardinality(InForce(k)) - 1
          BY <3>1, <3>5, FS_RemoveElement
        <4> HIDE DEF o, j
        <4> QED
          BY <2>3, <2>4, <3>1, <3>2, <3>3, <3>4, <3>5, <4>1
      <3>6. CASE o \notin InForce(k)
        <4> HIDE DEF o, j
        <4>1. InForce(k)' = InForce(k)
          BY <3>3, <3>6
        <4> QED
          BY <2>3, <2>4, <3>1, <3>2, <3>6, <4>1
      <3> QED
        BY <3>5, <3>6
    <2> QED
      BY <1>1, <2>5, <2>6 DEF UnitsBalance
  <1> QED
    BY <1>3, <1>4 DEF CancelStep, FindOrder, AbortCancel

-----------------------------------------------------------------------------
(***************************************************************************)
(* Reviews.                                                                 *)
(***************************************************************************)

LEMMA ReviewTypeStep ==
    ASSUME NEW q \in ReviewRequests, ReviewTypeOK, ReviewStep(q)
    PROVE  ReviewTypeOK'
  <1> USE ReviewAssumption
  <1>1. CASE Validate(q)
    BY <1>1 DEF Validate, ReviewGoes, ReviewTypeOK
  <1>2. CASE InsertReview(q)
    BY <1>2 DEF InsertReview, ReviewGoes, ReviewTypeOK
  <1>3. CASE UpdateReview(q)
    BY <1>3 DEF UpdateReview, ReviewGoes, ReviewTypeOK
  <1>4. CASE DeleteMedia(q)
    BY <1>4 DEF DeleteMedia, ReviewGoes, ReviewTypeOK
  <1>5. CASE CommitReview(q)
    BY <1>5 DEF CommitReview, ReviewGoes, ReviewTypeOK
  <1>6. CASE AbortReview(q)
    BY <1>6 DEF AbortReview, ReviewGoes, ReviewTypeOK
  <1> QED
    BY <1>1, <1>2, <1>3, <1>4, <1>5, <1>6 DEF ReviewStep

\* The row lock keeps the writers of a review apart.
LEMMA WritersStep ==
    ASSUME NEW q \in ReviewRequests, ReviewTypeOK, WritersInv, MediaOfOneBody, ReviewStep(q)
    PROVE  WritersInv' /\ MediaOfOneBody'
  <1> USE ReviewAssumption
  <1>1. CASE Validate(q)
    BY <1>1 DEF Validate, ReviewGoes, ReviewTypeOK, WritersInv, Writing, MediaOfOneBody
  <1>2. CASE InsertReview(q)
    <2>1. \A r \in Writing : ReviewOf[r] # ReviewOf[q]
      BY <1>2 DEF InsertReview, WritersInv, Writing
    <2>2. Writing' = Writing
      BY <1>2 DEF InsertReview, ReviewGoes, ReviewTypeOK, Writing
    <2>3. \A v \in Reviews : review[v] # Absent => review'[v] # Absent
      BY <1>2 DEF InsertReview, ReviewTypeOK
    <2>4. MediaOfOneBody'
      BY <1>2 DEF InsertReview, ReviewTypeOK, MediaOfOneBody
    <2>5. \A r \in ReviewRequests : reviewAt'[r] = "replaced" =>
                oldMedia'[r] = media'[ReviewOf[r]]
      BY <1>2, <2>1 DEF InsertReview, ReviewGoes, ReviewTypeOK, WritersInv, Writing
    <2>6. \A r \in ReviewRequests :
                (reviewAt'[r] = "validated" /\ ReviewOp[r] = "update") \/ r \in Writing
                    => review'[ReviewOf[r]] # Absent
      BY <1>2, <2>3 DEF InsertReview, ReviewGoes, ReviewTypeOK, WritersInv
    <2> QED
      BY <2>2, <2>4, <2>5, <2>6 DEF WritersInv
  <1>3. CASE UpdateReview(q)
    BY <1>3 DEF UpdateReview, ReviewFree, ReviewGoes, ReviewTypeOK, WritersInv, Writing,
                MediaOfOneBody
  <1>4. CASE DeleteMedia(q)
    <2>1. Writing' = Writing
      BY <1>4 DEF DeleteMedia, ReviewGoes, ReviewTypeOK, Writing
    <2> QED
      BY <1>4, <2>1 DEF DeleteMedia, ReviewGoes, ReviewTypeOK, WritersInv, MediaOfOneBody
  <1>5. CASE CommitReview(q)
    <2> DEFINE v == ReviewOf[q]
    <2>1. q \in Writing /\ v \in Reviews
      BY <1>5 DEF CommitReview, Writing
    <2>2. \A r \in Writing' : r \in Writing /\ ReviewOf[r] # v
      BY <1>5, <2>1 DEF CommitReview, ReviewGoes, ReviewTypeOK, Writing, WritersInv
    <2>3. media'[v] = {q} /\ review'[v] = q
      BY <1>5, <2>1 DEF CommitReview, ReviewTypeOK, WritersInv
    <2>4. \A w \in Reviews \ {v} : media'[w] = media[w] /\ review'[w] = review[w]
      BY <1>5 DEF CommitReview, ReviewTypeOK
    <2>5. MediaOfOneBody'
      BY <2>3, <2>4 DEF MediaOfOneBody
    <2>6. \A r \in ReviewRequests : reviewAt'[r] = "replaced" =>
                oldMedia'[r] = media'[ReviewOf[r]]
      BY <1>5, <2>2, <2>4 DEF CommitReview, ReviewGoes, ReviewTypeOK, WritersInv, Writing
    <2>7. \A r \in ReviewRequests :
                (reviewAt'[r] = "validated" /\ ReviewOp[r] = "update") \/ r \in Writing'
                    => review'[ReviewOf[r]] # Absent
      BY <1>5, <2>2, <2>3, <2>4 DEF CommitReview, ReviewGoes, ReviewTypeOK, WritersInv
    <2> QED
      BY <2>2, <2>5, <2>6, <2>7 DEF WritersInv
  <1>6. CASE AbortReview(q)
    BY <1>6 DEF AbortReview, ReviewGoes, ReviewTypeOK, WritersInv, Writing, MediaOfOneBody
  <1> QED
    BY <1>1, <1>2, <1>3, <1>4, <1>5, <1>6 DEF ReviewStep

-----------------------------------------------------------------------------
(***************************************************************************)
(* Totals.                                                                  *)
(***************************************************************************)

\* t[n] is the sum of the first n amounts.
IsTotal(t, amounts) ==
    t = [n \in 0..Len(amounts) |-> IF n = 0 THEN 0 ELSE t[n - 1] + amounts[n]]

\* A set of numbers has a least one: the only induction the proofs below need.
LEMMA Least ==
    ASSUME NEW T, T \subseteq Nat, T # {}
    PROVE  \E n \in T : \A m \in T : n <= m
  <1>1. PICK n \in T : \A m \in T : <<m, n>> \notin OpToRel(<, Nat)
    BY NatLessThanWellFounded, WFMin
  <1>2. \A m \in T : ~(m < n)
    BY <1>1 DEF OpToRel
  <1> QED
    BY <1>2

\* One amount more does not change the totals before it.
LEMMA TotalUnique ==
    ASSUME NEW a \in Seq(Int), NEW x \in Int, NEW t, NEW u,
           IsTotal(t, a), IsTotal(u, Append(a, x))
    PROVE  \A n \in 0..Len(a) : t[n] = u[n]
  <1> DEFINE T == {n \in 0..Len(a) : t[n] # u[n]}
  <1> SUFFICES ASSUME T # {} PROVE FALSE
    OBVIOUS
  <1>0. Len(a) \in Nat /\ Len(Append(a, x)) = Len(a) + 1
        /\ \A i \in 1..Len(a) : Append(a, x)[i] = a[i]
    OBVIOUS
  <1>1. PICK n \in T : \A m \in T : n <= m
    <2>1. T \subseteq Nat
      BY <1>0
    <2> HIDE DEF T
    <2> QED
      BY <2>1, Least
  <1>2. n # 0
    BY <1>0, <1>1 DEF IsTotal
  <1>3. n - 1 \in 0..Len(a) /\ n - 1 \notin T /\ n \in 1..Len(a)
    BY <1>0, <1>1, <1>2
  <1>4. t[n - 1] = u[n - 1]
    BY <1>3
  <1>5. t[n] = t[n - 1] + a[n]
    <2>1. t = [k \in 0..Len(a) |-> IF k = 0 THEN 0 ELSE t[k - 1] + a[k]]
      BY DEF IsTotal
    <2>2. n \in 0..Len(a) /\ n # 0
      BY <1>0, <1>3
    <2> HIDE DEF T
    <2> QED
      BY <2>1, <2>2
  <1>6. u[n] = u[n - 1] + Append(a, x)[n]
    <2>1. u = [k \in 0..Len(a) + 1 |-> IF k = 0 THEN 0 ELSE u[k - 1] + Append(a, x)[k]]
      BY <1>0 DEF IsTotal
    <2>2. n \in 0..Len(a) + 1 /\ n # 0
      BY <1>0, <1>3
    <2> HIDE DEF T
    <2> QED
      BY <2>1, <2>2
  <1>7. Append(a, x)[n] = a[n]
    BY <1>0, <1>3
  <1> QED
    BY <1>1, <1>4, <1>5, <1>6, <1>7

\* The recursive definition of RunningTotal has a solution, so it is one.
LEMMA TotalExists ==
    ASSUME NEW a \in Seq(Int)
    PROVE  \E t : IsTotal(t, a)
  <1> DEFINE UpTo(t, n) == t \in [0..n -> Int] /\ t[0] = 0 /\ \A k \in 1..n : t[k] = t[k - 1] + a[k]
             T == {n \in 0..Len(a) : ~(\E t : UpTo(t, n))}
  <1>0. Len(a) \in Nat /\ \A i \in 1..Len(a) : a[i] \in Int
    OBVIOUS
  <1>1. T = {}
    <2> SUFFICES ASSUME T # {} PROVE FALSE
      OBVIOUS
    <2>1. PICK n \in T : \A m \in T : n <= m
      <3>1. T \subseteq Nat
        BY <1>0
      <3> HIDE DEF T
      <3> QED
        BY <3>1, Least
    <2>2. n # 0
      <3>1. UpTo([k \in 0..0 |-> 0], 0)
        OBVIOUS
      <3> QED
        BY <2>1, <3>1
    <2>3. n \in 1..Len(a) /\ n - 1 \in 0..Len(a) /\ n - 1 \notin T
      <3> HIDE DEF UpTo
      <3> QED
        BY <1>0, <2>1, <2>2
    <2>4. PICK t : UpTo(t, n - 1)
      BY <2>3
    <2> DEFINE u == [k \in 0..n |-> IF k = n THEN t[n - 1] + a[n] ELSE t[k]]
    <2>5. t[n - 1] + a[n] \in Int
      BY <1>0, <2>3, <2>4
    <2>6. u \in [0..n -> Int]
      BY <2>3, <2>4, <2>5
    <2>7. u[0] = 0
      BY <2>3, <2>4
    <2>8. ASSUME NEW k \in 1..n PROVE u[k] = u[k - 1] + a[k]
      <3>1. CASE k = n
        BY <2>3, <3>1
      <3>2. CASE k # n
        BY <2>3, <2>4, <3>2
      <3> QED
        BY <3>1, <3>2
    <2>9. UpTo(u, n)
      BY <2>6, <2>7, <2>8
    <2> QED
      BY <2>1, <2>9
  <1>2. Len(a) \in 0..Len(a)
    BY <1>0
  <1>3. PICK t : UpTo(t, Len(a))
    BY <1>1, <1>2
  <1>4. IsTotal(t, a)
    BY <1>0, <1>3 DEF IsTotal
  <1> QED
    BY <1>4

LEMMA TotalDef ==
    ASSUME NEW a \in Seq(Int)
    PROVE  IsTotal(RunningTotal(a), a)
  <1>1. \E t : IsTotal(t, a)
    BY TotalExists
  <1>2. RunningTotal(a) = CHOOSE t : IsTotal(t, a)
    BY DEF RunningTotal, IsTotal
  <1> QED
    BY <1>1, <1>2

LEMMA TotalOfNone == RunningTotal(<<>>)[0] = 0
  <1>1. <<>> \in Seq(Int) /\ Len(<<>>) = 0
    OBVIOUS
  <1>2. IsTotal(RunningTotal(<<>>), <<>>)
    BY <1>1, TotalDef
  <1> QED
    BY <1>1, <1>2 DEF IsTotal

LEMMA TotalAppended ==
    ASSUME NEW a \in Seq(Int), NEW x \in Int
    PROVE  RunningTotal(Append(a, x))[Len(a) + 1] = RunningTotal(a)[Len(a)] + x
  <1> DEFINE b == Append(a, x)
             n == Len(a) + 1
  <1>1. b \in Seq(Int) /\ Len(b) = n /\ b[n] = x /\ Len(a) \in Nat
    OBVIOUS
  <1>2. IsTotal(RunningTotal(a), a) /\ IsTotal(RunningTotal(b), b)
    BY <1>1, TotalDef
  <1>3. RunningTotal(a)[Len(a)] = RunningTotal(b)[Len(a)]
    BY <1>1, <1>2, TotalUnique
  <1>4. RunningTotal(b)[n] = RunningTotal(b)[n - 1] + b[n]
    <2>1. n \in 0..Len(b) /\ n # 0
      BY <1>1
    <2> HIDE DEF b, n
    <2> QED
      BY <1>2, <2>1 DEF IsTotal
  <1>5. n - 1 = Len(a)
    BY <1>1
  <1> QED
    BY <1>1, <1>3, <1>4, <1>5

\* The amounts of a checkout's orders.
Amounts(c, rows) ==
    [i \in DOMAIN rows |-> 100 * rows[i].skuPrice * CheckoutBody[c][i].quantity
                           - rows[i].discountAmount]

LEMMA TotalOfRows ==
    ASSUME NEW c \in Checkouts
    PROVE  /\ TotalAmount(c) = RunningTotal(Amounts(c, orders[c]))[Len(orders[c])]
           /\ TotalAmount(c)' = RunningTotal(Amounts(c, orders'[c]))[Len(orders'[c])]
  BY DEF TotalAmount, OrderAmount, SkuPrice, Amounts

LEMMA AmountsType ==
    ASSUME NEW c \in Checkouts, NEW rows \in Seq(OrderRow), Len(rows) <= Len(CheckoutBody[c])
    PROVE  Amounts(c, rows) \in Seq(Int) /\ Len(Amounts(c, rows)) = Len(rows)
  <1> DEFINE Item == [sku : Skus, quantity : Nat, coupon : Coupons \cup {Absent}]
  <1>1. CheckoutBody[c] \in Seq(Item)
    BY PromotionAssumption
  <1>2. /\ Len(rows) \in Nat /\ DOMAIN rows = 1..Len(rows)
        /\ Len(CheckoutBody[c]) \in Nat /\ DOMAIN CheckoutBody[c] = 1..Len(CheckoutBody[c])
    BY <1>1
  <1>3. ASSUME NEW i \in DOMAIN rows
        PROVE  100 * rows[i].skuPrice * CheckoutBody[c][i].quantity - rows[i].discountAmount \in Int
    <2>1. i \in DOMAIN CheckoutBody[c]
      BY <1>2
    <2>2. rows[i] \in OrderRow /\ CheckoutBody[c][i] \in Item
      <3> HIDE DEF Item
      <3> QED
        BY <1>1, <2>1, Element
    <2>3. /\ rows[i].skuPrice \in Nat /\ rows[i].discountAmount \in Nat
          /\ CheckoutBody[c][i].quantity \in Nat
      BY <2>2 DEF OrderRow
    <2>4. \A m, n, d \in Nat : 100 * m * n - d \in Int
      OBVIOUS
    <2> QED
      BY <2>3, <2>4
  <1>4. Amounts(c, rows) \in [1..Len(rows) -> Int]
    BY <1>2, <1>3 DEF Amounts
  <1> QED
    BY <1>2, <1>4

LEMMA TotalKept ==
    ASSUME NEW d \in Checkouts, orders'[d] = orders[d]
    PROVE  TotalAmount(d)' = TotalAmount(d)
  BY TotalOfRows

\* createOrder adds to totalFinalAmount what its order adds to _getTotalAmount.
LEMMA TotalCreated ==
    ASSUME NEW c \in Checkouts, PromotionTypeOK, OrdersLeft(c), NEW off \in Nat,
           CreateOrder(c, off)
    PROVE  TotalAmount(c)' = TotalAmount(c) + (100 * Subtotal(c) - off)
  <1> DEFINE old == orders[c]
             new == orders'[c]
             n == Len(orders[c]) + 1
             x == 100 * Subtotal(c) - off
  <1>1. /\ orders' \in [Checkouts -> Seq(OrderRow)]
        /\ Len(new) = n
        /\ \A i \in DOMAIN old : new[i] = old[i]
        /\ new[n].skuPrice = seenSku[c][Current(c).sku].price
        /\ new[n].discountAmount = off
    BY CreatedOrder
  <1>2. /\ old \in Seq(OrderRow) /\ new \in Seq(OrderRow) /\ Len(old) \in Nat
        /\ DOMAIN old = 1..Len(old) /\ DOMAIN new = 1..n
    BY <1>1 DEF PromotionTypeOK
  <1>3. Len(old) <= Len(CheckoutBody[c]) /\ n <= Len(CheckoutBody[c])
    <2>1. Len(CheckoutBody[c]) \in Nat
      BY PromotionAssumption
    <2> QED
      BY <1>2, <2>1 DEF OrdersLeft
  <1>4. Amounts(c, old) \in Seq(Int) /\ Len(Amounts(c, old)) = Len(old)
    BY <1>2, <1>3, AmountsType
  <1>5. Amounts(c, new) \in Seq(Int) /\ Len(Amounts(c, new)) = n
    BY <1>1, <1>2, <1>3, AmountsType
  <1>6. Subtotal(c) \in Nat /\ x \in Int
    BY CurrentType
  <1>7. Amounts(c, new)[n] = x
    <2>1. Current(c) = CheckoutBody[c][n]
      BY DEF Current
    <2>2. Amounts(c, new)[n] =
            100 * seenSku[c][Current(c).sku].price * Current(c).quantity - off
      BY <1>1, <1>2, <2>1 DEF Amounts
    <2>3. \A p, q \in Nat : 100 * p * q = 100 * (p * q)
      OBVIOUS
    <2>4. seenSku[c][Current(c).sku].price \in Nat /\ Current(c).quantity \in Nat
      BY CurrentType
    <2> QED
      BY <2>2, <2>3, <2>4 DEF Subtotal
  <1>8. ASSUME NEW i \in 1..Len(old)
        PROVE  Amounts(c, new)[i] = Amounts(c, old)[i]
    <2> HIDE DEF old, new
    <2>1. i \in DOMAIN old /\ new[i] = old[i]
      BY <1>1, <1>2
    <2>2. i \in DOMAIN new
      BY <1>2 DEF old
    <2> QED
      BY <2>1, <2>2 DEF Amounts
  <1>9. Amounts(c, new) = Append(Amounts(c, old), x)
    <2> DEFINE A == Amounts(c, old)
               B == Amounts(c, new)
    <2>1. A \in Seq(Int) /\ x \in Int /\ B \in Seq(Int) /\ Len(B) = Len(A) + 1
      BY <1>2, <1>4, <1>5, <1>6
    <2>2. B[Len(B)] = x /\ \A i \in 1..Len(A) : B[i] = A[i]
      BY <1>2, <1>4, <1>5, <1>7, <1>8
    <2> HIDE DEF A, B, x, new
    <2>3. B = Append(A, x)
      BY <2>1, <2>2
    <2> QED
      BY <2>3 DEF A, B
  <1>10. RunningTotal(Append(Amounts(c, old), x))[n] = RunningTotal(Amounts(c, old))[Len(old)] + x
    BY <1>4, <1>6, TotalAppended
  <1> QED
    BY <1>1, <1>9, <1>10, TotalOfRows

\* A whole amount that is the total is accepted.
LEMMA WholeAccepted ==
    ASSUME NEW c \in Checkouts, asked[c] \in Int, asked[c] = TotalAmount(c), asked[c] % 100 = 0
    PROVE  Accepted(c, asked[c])
  <1>1. \A n \in Int : n % 100 = 0 => n = 100 * ((n + 50) \div 100)
    OBVIOUS
  <1> QED
    BY <1>1 DEF Accepted, Round

LEMMA TotalsStep ==
    ASSUME NEW c \in Checkouts, PromotionTypeOK, OrdersInv, TotalsInv, PricingStep(c)
    PROVE  TotalsInv'
  <1>0. refused' = refused
    BY DEF PricingStep
  <1>1. ASSUME NEW d \in Checkouts, d # c
        PROVE  /\ checkoutAt'[d] # "failed" => asked'[d] = TotalAmount(d)'
               /\ payment'[d] # "none" => checkoutAt'[d] = "done"
               /\ d \in refused' => payment'[d] # "none"
    <2>1. checkoutAt'[d] = checkoutAt[d] /\ orders'[d] = orders[d] /\ payment'[d] = payment[d]
      BY <1>1, OtherCheckouts
    <2>2. asked'[d] = asked[d]
      BY <1>1 DEF PricingStep, ReadPrices, FindCouponForOrder, DecrementCouponQuantity,
             CreateOrder, OrderWithoutCoupon, CommitCheckout, AbortCheckout, PromotionTypeOK
    <2> QED
      BY <1>0, <2>1, <2>2, TotalKept DEF TotalsInv
  <1>2. ASSUME NEW off \in Nat, OrdersLeft(c), CreateOrder(c, off)
        PROVE  checkoutAt[c] # "failed" => asked'[c] = TotalAmount(c)'
    <2>1. TotalAmount(c)' = TotalAmount(c) + (100 * Subtotal(c) - off)
      BY <1>2, TotalCreated
    <2>2. asked'[c] = asked[c] + 100 * Subtotal(c) - off
      BY <1>2 DEF CreateOrder, PromotionTypeOK
    <2>3. asked[c] \in Int /\ Subtotal(c) \in Nat
      BY <1>2, CurrentType DEF PromotionTypeOK
    <2> QED
      BY <2>1, <2>2, <2>3 DEF TotalsInv
  <1>3. /\ checkoutAt'[c] # "failed" => asked'[c] = TotalAmount(c)'
        /\ payment'[c] # "none" => checkoutAt'[c] = "done"
        /\ c \in refused' => payment'[c] # "none"
    <2>1. CASE ReadPrices(c) \/ FindCouponForOrder(c)
      <3>1. orders' = orders /\ asked' = asked /\ payment' = payment /\ checkoutAt[c] \in {"start", "pricing"}
        BY <2>1 DEF ReadPrices, FindCouponForOrder
      <3> QED
        BY <1>0, <3>1, TotalKept DEF TotalsInv
    <2>2. CASE DecrementCouponQuantity(c)
      <3>1. OrdersLeft(c) /\ discount[c] \in Nat /\ CreateOrder(c, discount[c])
        BY <2>2 DEF DecrementCouponQuantity, OrdersInv, OrdersSoFar, PromotionTypeOK
      <3>2. checkoutAt[c] = "couponFound" /\ payment' = payment
        BY <2>2 DEF DecrementCouponQuantity
      <3> QED
        BY <1>0, <1>2, <3>1, <3>2 DEF TotalsInv
    <2>3. CASE OrderWithoutCoupon(c)
      <3>1. /\ OrdersLeft(c) /\ CreateOrder(c, 0)
            /\ checkoutAt[c] = "pricing" /\ payment' = payment
        BY <2>3 DEF OrderWithoutCoupon
      <3> QED
        BY <1>0, <1>2, <3>1 DEF TotalsInv
    <2>4. CASE CommitCheckout(c)
      <3>1. /\ orders' = orders /\ asked' = asked
            /\ checkoutAt[c] = "pricing" /\ checkoutAt'[c] = "done"
            /\ payment'[c] = "PENDING"
        BY <2>4 DEF CommitCheckout, CheckoutGoes, PromotionTypeOK
      <3> QED
        BY <1>0, <3>1, TotalKept DEF TotalsInv
    <2>5. CASE AbortCheckout(c)
      <3>1. /\ checkoutAt[c] # "done" /\ payment' = payment /\ checkoutAt'[c] = "failed"
        BY <2>5 DEF AbortCheckout, CheckoutGoes, PromotionTypeOK
      <3> QED
        BY <1>0, <3>1 DEF TotalsInv
    <2> QED
      BY <2>1, <2>2, <2>3, <2>4, <2>5 DEF PricingStep
  <1> QED
    BY <1>1, <1>3 DEF TotalsInv

\* A refused checkout is not priced any more.
LEMMA AskedKept ==
    ASSUME NEW c \in Checkouts, PromotionTypeOK, TotalsInv, RefusedOnlyIfFractional,
           PricingStep(c)
    PROVE  RefusedOnlyIfFractional'
  <1>1. checkoutAt[c] # "done" /\ refused' = refused
    BY DEF PricingStep, ReadPrices, FindCouponForOrder, DecrementCouponQuantity,
           OrderWithoutCoupon, CommitCheckout, AbortCheckout
  <1>2. c \notin refused /\ refused \subseteq Checkouts
    BY <1>1 DEF TotalsInv, PromotionTypeOK
  <1>3. \A d \in Checkouts \ {c} : asked'[d] = asked[d]
    BY DEF PricingStep, ReadPrices, FindCouponForOrder, DecrementCouponQuantity, CreateOrder,
           OrderWithoutCoupon, CommitCheckout, AbortCheckout, PromotionTypeOK
  <1> QED
    BY <1>1, <1>2, <1>3 DEF RefusedOnlyIfFractional

LEMMA TotalsKept ==
    ASSUME TotalsInv, UNCHANGED <<checkoutVars, payment, refused>>
    PROVE  TotalsInv'
  <1>1. UNCHANGED <<checkoutAt, asked, orders, payment, refused>>
    BY DEF checkoutVars
  <1> QED
    BY <1>1, TotalKept DEF TotalsInv

\* A transfer of a whole amount is not turned away.
LEMMA TotalsPaid ==
    ASSUME NEW c \in Checkouts, PromotionTypeOK, TotalsInv, RefusedOnlyIfFractional,
           PaymentStep(c)
    PROVE  TotalsInv' /\ RefusedOnlyIfFractional'
  <1>1. UNCHANGED checkoutVars
    BY DEF PaymentStep, ReceiveTransfer, Deliver
  <1>2. UNCHANGED <<checkoutAt, asked, orders>>
    BY <1>1 DEF checkoutVars
  <1>3. CASE ReceiveTransfer(c)
    <2>1. payment[c] # "none" /\ checkoutAt[c] = "done"
      BY <1>3 DEF ReceiveTransfer, TotalsInv
    <2>2. asked[c] = TotalAmount(c) /\ asked[c] \in Int
      BY <2>1 DEF TotalsInv, PromotionTypeOK
    <2>3. ASSUME NEW d \in Checkouts
          PROVE  /\ payment'[d] # "none" <=> payment[d] # "none"
                 /\ d \in refused' => d \in refused \/ d = c
      <3>1. payment' = [payment EXCEPT ![c] = "SUCCESS"] \/ payment' = payment
        BY <1>3 DEF ReceiveTransfer
      <3>2. payment'[d] # "none" <=> payment[d] # "none"
        BY <2>1, <3>1 DEF PromotionTypeOK
      <3>3. refused' \subseteq refused \cup {c}
        BY <1>3 DEF ReceiveTransfer
      <3> QED
        BY <3>2, <3>3
    <2>4. TotalsInv'
      BY <1>2, <2>1, <2>3, TotalKept DEF TotalsInv
    <2>5. CASE Accepted(c, asked[c])
      BY <1>2, <1>3, <2>4, <2>5 DEF ReceiveTransfer, RefusedOnlyIfFractional
    <2>6. CASE ~Accepted(c, asked[c])
      <3>1. asked[c] % 100 # 0
        BY <2>2, <2>6, WholeAccepted
      <3>2. refused' = refused \cup {c}
        BY <1>3, <2>6 DEF ReceiveTransfer
      <3> QED
        BY <1>2, <2>4, <3>1, <3>2 DEF RefusedOnlyIfFractional
    <2> QED
      BY <2>5, <2>6
  <1>4. CASE Deliver(c)
    BY <1>1, <1>2, <1>4, TotalsKept DEF Deliver, RefusedOnlyIfFractional
  <1> QED
    BY <1>3, <1>4 DEF PaymentStep

\* Nor does cancelling change what is asked for or who was turned away.
LEMMA TotalsCancelled ==
    ASSUME NEW x \in Cancels, PromotionTypeOK, OrdersCommitted, TotalsInv,
           RefusedOnlyIfFractional, CancelStep(x)
    PROVE  TotalsInv' /\ RefusedOnlyIfFractional'
  <1>1. UNCHANGED <<checkoutAt, asked, orders, refused>>
    BY DEF CancelStep, checkoutVars
  <1>2. ASSUME NEW d \in Checkouts
        PROVE  payment'[d] # "none" <=> payment[d] # "none"
    <2>1. CASE CommitCancel(x)
      <3>1. cancelAt[x] = "read" /\ payment' = [payment EXCEPT ![CancelOf[x][1]] = "FAILED"]
        BY <2>1 DEF CommitCancel
      <3>2. payment[CancelOf[x][1]] # "none"
        BY <3>1 DEF OrdersCommitted
      <3> QED
        BY <3>1, <3>2 DEF PromotionTypeOK
    <2>2. CASE UNCHANGED payment
      BY <2>2
    <2> QED
      BY <2>1, <2>2 DEF CancelStep, FindOrder, AbortCancel
  <1> QED
    BY <1>1, <1>2, TotalKept DEF TotalsInv, RefusedOnlyIfFractional

-----------------------------------------------------------------------------
(***************************************************************************)
(* The shop.                                                                *)
(***************************************************************************)

\* The inductive invariant.
Inv ==
    /\ TypeOK
    /\ EditsInv /\ EveryVariantHasSku
    /\ PricesInv /\ OrdersInv /\ DiscountWithinSubtotal /\ CouponsInv /\ UnitsInv
    /\ TotalsInv /\ RefusedOnlyIfFractional
    /\ WritersInv /\ MediaOfOneBody

LEMMA Initially == Init => Inv
  <1> SUFFICES ASSUME NEW sent \in Arrivals,
                      ProductInit(sent), PromotionInit(sent), ReviewInit(sent)
               PROVE  Inv
    BY DEF Init
  <1>1. ProductTypeOK
    BY DEF ProductInit, ProductTypeOK, RowState
  <1>2. PromotionTypeOK
    <2>1. NoTerms \in Terms
      BY DEF NoTerms, Terms
    <2>2. <<>> \in Seq(OrderRow)
      OBVIOUS
    <2>3. coupon \in [Coupons -> Terms] /\ orders \in [Checkouts -> Seq(OrderRow)]
      BY <2>1, <2>2 DEF PromotionInit
    <2>4. budget \in [Coupons -> Budget]
      BY DEF PromotionInit, Budget
    <2> QED
      BY <2>3, <2>4 DEF PromotionInit, PromotionTypeOK, RowState
  <1>3. ReviewTypeOK
    BY DEF ReviewInit, ReviewTypeOK
  <1>4. EditsInv /\ EveryVariantHasSku
    BY DEF ProductInit, EditsInv, EveryVariantHasSku
  <1>5. PricesInv
    BY DEF PromotionInit, PricesInv, PricesSeen
  <1>6. OrdersInv /\ DiscountWithinSubtotal
    <2>1. ASSUME NEW c \in Checkouts
          PROVE  OrdersSoFar(c) /\ orders[c] = <<>>
      <3>1. orders[c] = <<>> /\ checkoutAt[c] \in {"unsent", "start"}
        BY DEF PromotionInit
      <3>2. Len(CheckoutBody[c]) \in Nat
        BY PromotionAssumption
      <3> QED
        BY <3>1, <3>2 DEF OrdersSoFar
    <2> QED
      BY <2>1 DEF OrdersInv, DiscountWithinSubtotal
  <1>7. CouponsInv
    <2>1. \A k \in Coupons : couponState[k] = "none" /\ coupon[k].quantity = 0
      BY DEF PromotionInit, NoTerms
    <2>2. \A c \in Checkouts, k \in Coupons : taken[c][k] = 0
      BY DEF PromotionInit
    <2>3. \A e \in CouponEdits : couponAt[e] # "validated"
      BY DEF PromotionInit
    <2> QED
      BY <2>1, <2>2, <2>3 DEF CouponsInv
  <1>9. TotalsInv /\ RefusedOnlyIfFractional
    <2>1. ASSUME NEW c \in Checkouts
          PROVE  asked[c] = TotalAmount(c) /\ payment[c] = "none"
      <3>1. orders[c] = <<>> /\ asked[c] = 0 /\ payment[c] = "none"
        BY DEF PromotionInit
      <3>2. Amounts(c, <<>>) = <<>> /\ Len(<<>>) = 0
        BY DEF Amounts
      <3> QED
        BY <3>1, <3>2, TotalOfRows, TotalOfNone
    <2> QED
      BY <2>1 DEF PromotionInit, TotalsInv, RefusedOnlyIfFractional
  <1>10. UnitsInv
    <2>1. \A c \in Checkouts, k \in Coupons :
            /\ UsesOf(c, k) = {} /\ taken[c][k] = 0 /\ checkoutAt[c] \in {"unsent", "start"}
      BY DEF PromotionInit, UsesOf
    <2>2. \A k \in Coupons : /\ coupon[k].quantity = 0 /\ budget[k].uses = {} /\ InForce(k) = {}
                             /\ budget[k].granted = 0 /\ budget[k].extra = 0
      BY DEF PromotionInit, NoTerms, InForce
    <2>3. cancelled = {} /\ \A x \in Cancels : cancelAt[x] # "read"
      BY DEF PromotionInit
    <2>4. UsedCouponsExist /\ TakenIsUsed
      BY <2>1 DEF UsedCouponsExist, TakenIsUsed
    <2>5. OrdersCommitted /\ UnitsBalance
      BY <2>2, <2>3, FS_EmptySet DEF OrdersCommitted, UnitsBalance
    <2> QED
      BY <2>4, <2>5 DEF UnitsInv
  <1>8. WritersInv /\ MediaOfOneBody
    BY DEF ReviewInit, WritersInv, Writing, MediaOfOneBody
  <1> QED
    BY <1>1, <1>2, <1>3, <1>4, <1>5, <1>6, <1>7, <1>8, <1>9, <1>10 DEF Inv, TypeOK

\* What is said of orders and prices is kept while their variables are.
LEMMA CheckoutsKept ==
    ASSUME OrdersInv, DiscountWithinSubtotal, UNCHANGED checkoutVars
    PROVE  OrdersInv' /\ DiscountWithinSubtotal'
  BY DEF OrdersInv, OrdersSoFar, OrdersLeft, Current, Subtotal, DiscountWithinSubtotal,
         checkoutVars

LEMMA ProductsKept ==
    ASSUME ProductTypeOK, EditsInv, EveryVariantHasSku, PricesInv,
           UNCHANGED <<productVars, checkoutVars>>
    PROVE  ProductTypeOK' /\ EditsInv' /\ EveryVariantHasSku' /\ PricesInv'
  <1>1. UNCHANGED <<product, sku, editAt, editSkus, editTodo>>
    BY DEF productVars
  <1>2. PricesInv'
    BY <1>1 DEF PricesInv, PricesSeen, checkoutVars
  <1>3. EveryVariantHasSku'
    BY <1>1 DEF EveryVariantHasSku, LiveSkus, DeletionBegun
  <1> QED
    BY <1>1, <1>2, <1>3 DEF ProductTypeOK, EditsInv

LEMMA ReviewsKept ==
    ASSUME ReviewTypeOK, WritersInv, MediaOfOneBody, UNCHANGED reviewVars
    PROVE  ReviewTypeOK' /\ WritersInv' /\ MediaOfOneBody'
  BY DEF ReviewTypeOK, WritersInv, Writing, MediaOfOneBody, reviewVars

LEMMA CouponsKept ==
    ASSUME CouponsInv, UNCHANGED <<couponVars, checkoutVars>>
    PROVE  CouponsInv'
  BY DEF CouponsInv, couponVars, checkoutVars

LEMMA PromotionsKept ==
    ASSUME PromotionTypeOK, UNCHANGED promotionVars
    PROVE  /\ PromotionTypeOK'
           /\ UNCHANGED <<couponVars, unitVars, checkoutVars, paymentVars, cancelAt>>
           /\ UNCHANGED <<couponState, coupon, payment, refused>>
  <1>1. UNCHANGED <<couponState, coupon, couponAt, budget, cancelled, checkoutAt, seenSku, discount,
                    taken, asked, orders, payment, paid, refused, delivered, cancelAt>>
    BY DEF promotionVars, couponVars, unitVars, checkoutVars, paymentVars
  <1>2. PromotionTypeOK'
    BY <1>1 DEF PromotionTypeOK
  <1> QED
    BY <1>1, <1>2 DEF couponVars, unitVars, checkoutVars, paymentVars

\* Selling changes neither which SKUs there are nor what edits know.
LEMMA SoldKept ==
    ASSUME NEW c \in Checkouts, ProductTypeOK, EditsInv, EveryVariantHasSku, PricingStep(c)
    PROVE  EditsInv' /\ EveryVariantHasSku'
  <1>1. UNCHANGED <<product, editAt, editSkus, editTodo>>
    BY DEF PricingStep
  <1>2. \A s \in Skus : sku'[s].state = sku[s].state
    BY SkuSold
  <1>3. \A p \in Products : LiveSkus(p)' = LiveSkus(p) /\ DeletionBegun(p)' = DeletionBegun(p)
    BY <1>1, <1>2 DEF LiveSkus, DeletionBegun
  <1>4. EveryVariantHasSku'
    BY <1>1, <1>3 DEF EveryVariantHasSku
  <1>5. EditsInv'
    BY <1>1, <1>2 DEF EditsInv
  <1> QED
    BY <1>4, <1>5

LEMMA Step ==
    ASSUME Inv, [Next]_vars
    PROVE  Inv'
  <1> USE DEF Inv, TypeOK
  <1>0. UNCHANGED <<checkoutVars, payment, refused>> => TotalsInv' /\ RefusedOnlyIfFractional'
    BY TotalsKept DEF RefusedOnlyIfFractional, checkoutVars
  <1>1. CASE EditProducts
    <2>1. PICK r \in ProductEdits : ProductStep(r)
      BY <1>1 DEF EditProducts
    <2>2. UNCHANGED promotionVars /\ UNCHANGED reviewVars
      BY <1>1 DEF EditProducts
    <2>3. PromotionTypeOK' /\ OrdersInv' /\ DiscountWithinSubtotal' /\ CouponsInv' /\ UnitsInv'
      BY <2>2, PromotionsKept, CheckoutsKept, CouponsKept, UnitsKept
    <2>4. ProductTypeOK' /\ EditsInv' /\ EveryVariantHasSku' /\ PricesInv'
      BY <2>1, <2>2, ProductTypeStep, EditsStep, VariantsStep, PricesEdited
    <2> QED
      BY <1>0, <2>2, <2>3, <2>4, PromotionsKept, ReviewsKept
  <1>2. CASE SellAndPay
    <2>0. ReviewTypeOK' /\ WritersInv' /\ MediaOfOneBody'
      BY <1>2, ReviewsKept DEF SellAndPay
    <2>1. ASSUME NEW e \in CouponEdits, CouponStep(e)
          PROVE  Inv'
      <3>1. UNCHANGED <<productVars, checkoutVars, paymentVars>>
        BY <2>1 DEF CouponStep
      <3>2. ProductTypeOK' /\ EditsInv' /\ EveryVariantHasSku' /\ PricesInv'
        BY <3>1, ProductsKept
      <3>3. OrdersInv' /\ DiscountWithinSubtotal'
        BY <3>1, CheckoutsKept
      <3> QED
        BY <1>0, <2>0, <2>1, <3>1, <3>2, <3>3, CouponTypeStep, CouponInvStep, UnitsEdited
        DEF paymentVars
    <2>2. ASSUME NEW k \in Coupons, DatePasses(k)
          PROVE  Inv'
      <3>1. UNCHANGED <<productVars, checkoutVars, paymentVars>>
        BY <2>2 DEF DatePasses
      <3>2. ProductTypeOK' /\ EditsInv' /\ EveryVariantHasSku' /\ PricesInv'
        BY <3>1, ProductsKept
      <3>3. OrdersInv' /\ DiscountWithinSubtotal'
        BY <3>1, CheckoutsKept
      <3>4. UnitsInv'
        <4>1. UNCHANGED <<unitVars, checkoutVars, payment, cancelAt, couponState>>
          BY <2>2 DEF DatePasses, paymentVars
        <4>2. \A j \in Coupons : coupon'[j].quantity = coupon[j].quantity
          BY <2>2, DatesStep
        <4> QED
          BY <4>1, <4>2, UnitsKept
      <3> QED
        BY <1>0, <2>0, <2>2, <3>1, <3>2, <3>3, <3>4, DatesStep DEF paymentVars
    <2>3. ASSUME NEW c \in Checkouts, PricingStep(c)
          PROVE  Inv'
      <3>1. TotalsInv'
        BY <2>3, TotalsStep
      <3>2. RefusedOnlyIfFractional'
        BY <2>3, AskedKept
      <3> QED
        BY <2>0, <2>3, <3>1, <3>2, PricingTypeStep, PricesStep, OrdersStep, CouponPricing,
           UnitsPriced, SoldKept
    <2>4. ASSUME NEW c \in Checkouts, PaymentStep(c)
          PROVE  Inv'
      <3>1. UNCHANGED <<productVars, couponVars, checkoutVars>>
        BY <2>4 DEF PaymentStep, ReceiveTransfer, Deliver
      <3>2. ProductTypeOK' /\ EditsInv' /\ EveryVariantHasSku' /\ PricesInv'
        BY <3>1, ProductsKept
      <3>3. OrdersInv' /\ DiscountWithinSubtotal' /\ CouponsInv'
        BY <3>1, CheckoutsKept, CouponsKept
      <3>4. PromotionTypeOK' /\ UnitsInv'
        BY <2>4, PaymentTypeStep, UnitsPaid DEF UnitsInv
      <3> QED
        BY <2>0, <2>4, <3>2, <3>3, <3>4, TotalsPaid
    <2>5. ASSUME NEW x \in Cancels, CancelStep(x)
          PROVE  Inv'
      <3>1. OrdersCommitted /\ UNCHANGED checkoutVars
        BY <2>5 DEF CancelStep, UnitsInv
      <3>2. ProductTypeOK' /\ PromotionTypeOK'
        BY <2>5, <3>1, CancelTypeStep
      <3>3. EditsInv' /\ EveryVariantHasSku' /\ PricesInv'
        BY <2>5, <3>1, CancelKept
      <3>4. OrdersInv' /\ DiscountWithinSubtotal'
        BY <3>1, CheckoutsKept
      <3>5. CouponsInv' /\ UnitsInv'
        BY <2>5, CancelCouponsStep, UnitsCancelled
      <3>6. TotalsInv' /\ RefusedOnlyIfFractional'
        BY <2>5, <3>1, TotalsCancelled
      <3> QED
        BY <2>0, <3>2, <3>3, <3>4, <3>5, <3>6
    <2> QED
      BY <1>2, <2>1, <2>2, <2>3, <2>4, <2>5 DEF SellAndPay
  <1>3. CASE WriteReviews
    <2>1. PICK q \in ReviewRequests : ReviewStep(q)
      BY <1>3 DEF WriteReviews
    <2>2. UNCHANGED productVars /\ UNCHANGED promotionVars
      BY <1>3 DEF WriteReviews
    <2>3. PromotionTypeOK' /\ OrdersInv' /\ DiscountWithinSubtotal' /\ CouponsInv' /\ UnitsInv'
      BY <2>2, PromotionsKept, CheckoutsKept, CouponsKept, UnitsKept
    <2>4. ProductTypeOK' /\ EditsInv' /\ EveryVariantHasSku' /\ PricesInv'
      BY <2>2, PromotionsKept, ProductsKept
    <2> QED
      BY <1>0, <2>1, <2>2, <2>3, <2>4, PromotionsKept, ReviewTypeStep, WritersStep
  <1>4. CASE UNCHANGED vars
    <2>1. UNCHANGED productVars /\ UNCHANGED promotionVars /\ UNCHANGED reviewVars
      BY <1>4 DEF vars
    <2>2. PromotionTypeOK' /\ OrdersInv' /\ DiscountWithinSubtotal' /\ CouponsInv' /\ UnitsInv'
      BY <2>1, PromotionsKept, CheckoutsKept, CouponsKept, UnitsKept
    <2>3. ProductTypeOK' /\ EditsInv' /\ EveryVariantHasSku' /\ PricesInv'
      BY <2>1, PromotionsKept, ProductsKept
    <2> QED
      BY <1>0, <2>1, <2>2, <2>3, PromotionsKept, ReviewsKept
  <1> QED
    BY <1>1, <1>2, <1>3, <1>4 DEF Next

LEMMA Invariance == Spec => []Inv
  <1>1. Inv /\ [Next]_vars => Inv'
    BY Step
  <1> QED
    BY Initially, <1>1, PTL DEF Spec

\* Rows, locks and what requests remember have their types in every reachable
\* state: no coupon's quantity and no price goes negative.
THEOREM TypeCorrect == Spec => []TypeOK
  <1>1. Inv => TypeOK
    BY DEF Inv
  <1> QED
    BY <1>1, Invariance, PTL

\* However updateProduct requests overlap, every value of the variants last
\* written has a SKU on sale until a deletion begins.
THEOREM SkuForEveryVariant == Spec => []EveryVariantHasSku
  <1>1. Inv => EveryVariantHasSku
    BY DEF Inv
  <1> QED
    BY <1>1, Invariance, PTL

\* No discount of an order exceeds its subtotal, whatever coupons are written
\* while it is priced.
THEOREM DiscountBounded == Spec => []DiscountWithinSubtotal
  <1>1. Inv => DiscountWithinSubtotal
    BY DEF Inv
  <1> QED
    BY <1>1, Invariance, PTL

\* Concurrent checkouts, edits of coupons and cancelOrder together: the orders in
\* force that use a coupon exceed the quantity last written only by the units that
\* cancelled orders older than it, orders cancelled twice and transfers for
\* cancelled orders have brought back.
THEOREM NeverOverspent == Spec => []CouponNeverOverspent
  <1>1. Inv => CouponNeverOverspent
    <2> SUFFICES ASSUME Inv, NEW k \in Coupons
                 PROVE  Cardinality(InForce(k)) <= budget[k].granted + budget[k].extra
      BY DEF CouponNeverOverspent
    <2>1. budget[k].granted \in Nat /\ budget[k].extra \in Nat /\ coupon[k].quantity \in Nat
      BY DEF Inv, TypeOK, PromotionTypeOK, Terms, Budget
    <2>2. Cardinality(InForce(k)) \in Nat
      BY FS_Subset, FS_CardinalityType DEF Inv, UnitsInv, OrdersCommitted, InForce
    <2>3. Cardinality(InForce(k)) + coupon[k].quantity = budget[k].granted + budget[k].extra
      BY DEF Inv, UnitsInv, UnitsBalance
    <2> QED
      BY <2>1, <2>2, <2>3
  <1> QED
    BY <1>1, Invariance, PTL

\* A payer who transfers what the payment URL asked for is turned away only if that
\* is no whole amount: for any list of orders, totalFinalAmount of createOrder and
\* _getTotalAmount of the webhooks are the same sum, whatever is edited in between.
THEOREM WholeAmountsAccepted == Spec => []RefusedOnlyIfFractional
  <1>1. Inv => RefusedOnlyIfFractional
    BY DEF Inv
  <1> QED
    BY <1>1, Invariance, PTL

\* A review shows the media of the body it holds, however updates overlap.
THEOREM MediaConsistent == Spec => []MediaOfOneBody
  <1>1. Inv => MediaOfOneBody
    BY DEF Inv
  <1> QED
    BY <1>1, Invariance, PTL

\* A commit finds the prices it read unchanged: the optimistic lock on updatedAt
\* covers every price, edited or not, between findCartItems and the commit.
LEMMA CommittedAtPrice ==
    ASSUME Inv, NEW c \in Checkouts, CommitCheckout(c), NEW i \in DOMAIN orders[c]
    PROVE  orders[c][i].skuPrice = sku[CheckoutBody[c][i].sku].price
  <1>1. OrdersSoFar(c) /\ PricesSeen(c) /\ orders[c] \in Seq(OrderRow)
    BY DEF Inv, OrdersInv, PricesInv, TypeOK, PromotionTypeOK
  <1>2. i \in DOMAIN CheckoutBody[c]
    <2>1. Len(CheckoutBody[c]) \in Nat /\ DOMAIN CheckoutBody[c] = 1..Len(CheckoutBody[c])
      BY PromotionAssumption
    <2>2. Len(orders[c]) \in Nat /\ i \in 1..Len(orders[c]) /\ Len(orders[c]) <= Len(CheckoutBody[c])
      BY <1>1 DEF OrdersSoFar
    <2> QED
      BY <2>1, <2>2
  <1>3. CheckoutBody[c][i].sku \in SkusIn(c)
    BY <1>2 DEF SkusIn
  <1>4. seenSku[c][CheckoutBody[c][i].sku].price = sku[CheckoutBody[c][i].sku].price
    BY <1>1, <1>3 DEF PricesSeen, CommitCheckout, VersionsMatch
  <1> QED
    BY <1>1, <1>4 DEF OrdersSoFar

\* An order is committed at the price its SKU has at that moment.
THEOREM CurrentPriceCharged == Spec => OrdersAtCurrentPrice
  <1>1. ASSUME Inv, [Next]_vars, NEW c \in Checkouts,
               payment[c] = "none", payment'[c] = "PENDING"
        PROVE  CommitCheckout(c)
    <2>1. payment \in [Checkouts -> {"none", "PENDING", "SUCCESS", "FAILED"}]
      BY <1>1 DEF Inv, TypeOK, PromotionTypeOK
    <2>2. payment' # payment
      BY <1>1
    <2>3. ~EditProducts /\ ~WriteReviews /\ ~UNCHANGED vars
      BY <2>2 DEF EditProducts, WriteReviews, vars, promotionVars, paymentVars
    <2>4. \A e \in CouponEdits : ~CouponStep(e)
      BY <2>2 DEF CouponStep, paymentVars
    <2>5. \A k \in Coupons : ~DatePasses(k)
      BY <2>2 DEF DatePasses, paymentVars
    <2>6. \A d \in Checkouts : ~PaymentStep(d)
      BY <1>1, <2>1 DEF PaymentStep, ReceiveTransfer, Deliver
    <2>7. \A x \in Cancels : ~CancelStep(x)
      BY <1>1, <2>1, <2>2 DEF CancelStep, FindOrder, CommitCancel, AbortCancel
    <2>8. PICK d \in Checkouts : PricingStep(d)
      BY <1>1, <2>3, <2>4, <2>5, <2>6, <2>7 DEF Next, SellAndPay
    <2>9. CommitCheckout(d)
      BY <2>2, <2>8 DEF PricingStep, ReadPrices, FindCouponForOrder, DecrementCouponQuantity,
                       OrderWithoutCoupon, AbortCheckout
    <2>10. d = c
      BY <1>1, <2>1, <2>9 DEF CommitCheckout
    <2> QED
      BY <2>9, <2>10
  <1>2. Inv /\ [Next]_vars =>
            [\A c \in Checkouts : payment[c] = "none" /\ payment'[c] = "PENDING"
                => \A i \in DOMAIN orders[c] :
                        orders[c][i].skuPrice = sku[CheckoutBody[c][i].sku].price]_<<sku, orders, payment>>
    BY <1>1, CommittedAtPrice
  <1> QED
    BY <1>2, Invariance, PTL DEF Spec, OrdersAtCurrentPrice

\* A deleted product stays deleted and gains no SKU and no new price.
THEOREM DeletedForGood == Spec => NothingAddedToDeleted
  <1>1. ASSUME Inv, [Next]_vars, NEW p \in Products, product[p].state = "deleted"
        PROVE  /\ product'[p] = product[p]
               /\ \A s \in Skus : ProductOfSku(s) = p =>
                    /\ sku'[s].price = sku[s].price
                    /\ sku'[s].state = "live" => sku[s].state = "live"
    <2>1. CASE EditProducts
      BY <1>1, <2>1, DeletedStep DEF EditProducts, Inv, TypeOK
    <2>2. ASSUME NEW c \in Checkouts, PricingStep(c)
          PROVE  /\ product' = product
                 /\ \A s \in Skus : sku'[s].price = sku[s].price /\ sku'[s].state = sku[s].state
      BY <1>1, <2>2, SkuSold DEF PricingStep, Inv, TypeOK
    <2>3. ASSUME NEW x \in Cancels, CancelStep(x)
          PROVE  /\ product' = product
                 /\ \A s \in Skus : sku'[s].price = sku[s].price /\ sku'[s].state = sku[s].state
      BY <1>1, <2>3, CancelChanges DEF CancelStep, Inv, TypeOK, UnitsInv
    <2>4. CASE UNCHANGED productVars
      BY <2>4 DEF productVars
    <2> QED
      BY <1>1, <2>1, <2>2, <2>3, <2>4
         DEF Next, SellAndPay, WriteReviews, vars, CouponStep, DatePasses, PaymentStep,
             ReceiveTransfer, Deliver
  <1>2. Inv /\ [Next]_vars =>
            [\A p \in Products : product[p].state = "deleted" =>
                /\ product'[p] = product[p]
                /\ \A s \in Skus : ProductOfSku(s) = p =>
                        /\ sku'[s].price = sku[s].price
                        /\ sku'[s].state = "live" => sku[s].state = "live"]_vars
    BY <1>1
  <1> QED
    BY <1>2, Invariance, PTL DEF Spec, NothingAddedToDeleted

=============================================================================
