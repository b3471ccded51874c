------------------------------- MODULE Product -------------------------------
(***************************************************************************)
(* Products and their SKUs: ManageProductService and ProductRepository.     *)
(* updateProduct reads the product and its SKUs outside the transaction     *)
(* that writes by them, and delete runs its statements side by side.         *)
(*                                                                          *)
(* A SKU is named by the edit that created it and its value.  Names, images,*)
(* brands, categories and translations are left out; stock is kept in Store.*)
(***************************************************************************)
EXTENDS Naturals

CONSTANTS
    Products,
    Values,         \* combinations of the options of variants
    ProductEdits,   \* requests to createProduct, updateProduct, deleteProduct
    EditOp,         \* the handler an edit is for
    EditProduct,    \* the product it names
    EditPrices,     \* its body: value -> price of the SKU, Absent: no such SKU
    Absent

ASSUME ProductAssumption ==
    /\ Absent \notin Nat
    /\ EditOp \in [ProductEdits -> {"create", "update", "delete"}]
    /\ EditProduct \in [ProductEdits -> Products]
    /\ EditPrices \in [ProductEdits -> [Values -> Nat \cup {Absent}]]

VARIABLES
    product,   \* Product rows
    sku,       \* SKU rows; version stands for updatedAt
    editAt,    \* edit -> where its handler is
    editSkus,  \* edit -> the live SKUs it has read
    editTodo   \* delete -> the statements of its Promise.all still to run

productVars == <<product, sku, editAt, editSkus, editTodo>>

Skus == ProductEdits \X Values

ProductOfSku(s) == EditProduct[s[1]]

RowState == {"none", "live", "deleted"}

ProductTypeOK ==
    /\ product \in [Products -> [state : RowState, variants : SUBSET Values]]
    /\ sku \in [Skus -> [state : RowState, price : Nat, version : Nat]]
    /\ editAt \in [ProductEdits -> {"unsent", "start", "found", "read", "deleting",
                                    "done", "failed", "died"}]
    /\ editSkus \in [ProductEdits -> SUBSET Skus]
    /\ editTodo \in [ProductEdits -> SUBSET {"product", "skus", "marking"}]

ProductInit(sent) ==
    /\ product = [p \in Products |-> [state |-> "none", variants |-> {}]]
    /\ sku = [s \in Skus |-> [state |-> "none", price |-> 0, version |-> 0]]
    /\ editAt = [r \in ProductEdits |-> IF r \in sent THEN "start" ELSE "unsent"]
    /\ editSkus = [r \in ProductEdits |-> {}]
    /\ editTodo = [r \in ProductEdits |-> {}]

LiveSkus(p) == {s \in Skus : sku[s].state = "live" /\ ProductOfSku(s) = p}

\* _generateSKUs: the body lists one SKU for every combination of its variants.
BodyValues(r) == {v \in Values : EditPrices[r][v] # Absent}

\* The row after an update, with the updatedAt that Prisma stamps.
Stamped(row, state, price) ==
    [state |-> state, price |-> price, version |-> row.version + 1]

EditGoes(r, label) == editAt' = [editAt EXCEPT ![r] = label]

NewSku(r, v) == [state |-> "live", price |-> EditPrices[r][v], version |-> 0]

CreateProduct(r) ==
    /\ EditOp[r] = "create" /\ editAt[r] = "start"
    /\ product[EditProduct[r]].state = "none"
    /\ product' = [product EXCEPT ![EditProduct[r]] =
            [state |-> "live", variants |-> BodyValues(r)]]
    /\ sku' = [s \in Skus |-> IF s[1] = r /\ s[2] \in BodyValues(r)
                              THEN NewSku(r, s[2]) ELSE sku[s]]
    /\ EditGoes(r, "done")
    /\ UNCHANGED <<editSkus, editTodo>>

\* findById at the start of updateProduct and deleteProduct.  From there on
\* delete sends its statements at once.
FindProduct(r) ==
    /\ EditOp[r] \in {"update", "delete"} /\ editAt[r] = "start"
    /\ product[EditProduct[r]].state = "live"
    /\ IF EditOp[r] = "update"
       THEN EditGoes(r, "found") /\ UNCHANGED editTodo
       ELSE /\ EditGoes(r, "deleting")
            /\ editTodo' = [editTodo EXCEPT ![r] = {"product", "skus"}]
    /\ UNCHANGED <<product, sku, editSkus>>

FindSkusByProductId(r) ==
    /\ editAt[r] = "found"
    /\ editSkus' = [editSkus EXCEPT ![r] = LiveSkus(EditProduct[r])]
    /\ EditGoes(r, "read")
    /\ UNCHANGED <<product, sku, editTodo>>

SkusToUpdate(r) == {s \in editSkus[r] : s[2] \in BodyValues(r)}

SkusToDelete(r) == editSkus[r] \ SkusToUpdate(r)

SkusToCreate(r) ==
    {r} \X (BodyValues(r) \ {s[2] : s \in editSkus[r]})

\* Mutant of StillLive: updateSku as an updateMany, which finds nothing silently.
MaybeGone(r) == TRUE

\* updateSku asks for deletedAt: null and throws when it finds no row.
StillLive(r) == \A s \in SkusToUpdate(r) : sku[s].state = "live"

\* The unique index on (productId, value) of the SKUs not deleted.
ValuesFree(r) ==
    \A s \in SkusToCreate(r), t \in LiveSkus(EditProduct[r]) : s[2] # t[2]

\* Mutant of ProductStillLive: the update does not ask for deletedAt: null.
ProductEvenDeleted(r) == TRUE

\* The transaction's first statement asks for deletedAt: null; it locks the
\* product, so that updates of one product run one after the other.
ProductStillLive(r) == product[EditProduct[r]].state = "live"

UpdateProductTransaction(r) ==
    /\ editAt[r] = "read"
    /\ ProductStillLive(r)
    /\ StillLive(r)
    /\ ValuesFree(r)
    /\ product' = [product EXCEPT ![EditProduct[r]].variants = BodyValues(r)]
    /\ sku' = [s \in Skus |->
            IF s \in SkusToUpdate(r)
            THEN Stamped(sku[s], sku[s].state, EditPrices[r][s[2]])
            ELSE IF s \in SkusToDelete(r) /\ sku[s].state = "live"
            THEN Stamped(sku[s], "deleted", sku[s].price)
            ELSE IF s \in SkusToCreate(r) THEN NewSku(r, s[2])
            ELSE sku[s]]
    /\ EditGoes(r, "done")
    /\ UNCHANGED <<editSkus, editTodo>>

\* A refused edit: not the owner, no such row, a unique value taken, or the
\* process exits before it wrote.
AbortEdit(r) ==
    /\ editAt[r] \in {"start", "found", "read"}
    /\ EditGoes(r, "failed")
    /\ UNCHANGED <<product, sku, editSkus, editTodo>>

\* The statements of delete.  Each commits by itself; when the product is
\* already deleted its own throws, and the others still run.
DeleteProductRow(r) ==
    /\ editAt[r] = "deleting" /\ "product" \in editTodo[r]
    /\ product' = [product EXCEPT ![EditProduct[r]].state = "deleted"]
    /\ editTodo' = [editTodo EXCEPT ![r] = @ \ {"product"}]
    /\ UNCHANGED <<sku, editAt, editSkus>>

\* The UPDATE of the SKUs sees the rows committed when it starts, and waits for
\* the ones an updateProduct transaction holds.
StartDeletingSkus(r) ==
    /\ editAt[r] = "deleting" /\ "skus" \in editTodo[r]
    /\ editSkus' = [editSkus EXCEPT ![r] = LiveSkus(EditProduct[r])]
    /\ editTodo' = [editTodo EXCEPT ![r] = (@ \ {"skus"}) \cup {"marking"}]
    /\ UNCHANGED <<product, sku, editAt>>

DeleteSkus(r) ==
    /\ editAt[r] = "deleting" /\ "marking" \in editTodo[r]
    /\ sku' = [s \in Skus |-> IF s \in editSkus[r] /\ sku[s].state = "live"
                              THEN Stamped(sku[s], "deleted", sku[s].price)
                              ELSE sku[s]]
    /\ editTodo' = [editTodo EXCEPT ![r] = @ \ {"marking"}]
    /\ UNCHANGED <<product, editAt, editSkus>>

AnswerDelete(r) ==
    /\ editAt[r] = "deleting" /\ editTodo[r] = {}
    /\ EditGoes(r, "done")
    /\ UNCHANGED <<product, sku, editSkus, editTodo>>

\* The process exits, or a connection fails, between the statements of a delete.
CrashDelete(r) ==
    /\ editAt[r] = "deleting"
    /\ EditGoes(r, "died")
    /\ UNCHANGED <<product, sku, editSkus, editTodo>>

ProductStep(r) ==
    \/ CreateProduct(r) \/ FindProduct(r) \/ FindSkusByProductId(r)
    \/ UpdateProductTransaction(r) \/ AbortEdit(r)
    \/ DeleteProductRow(r) \/ StartDeletingSkus(r) \/ DeleteSkus(r)
    \/ AnswerDelete(r) \/ CrashDelete(r)

DeletionBegun(p) ==
    \E r \in ProductEdits :
        /\ EditOp[r] = "delete" /\ EditProduct[r] = p
        /\ editAt[r] \in {"deleting", "done", "died"}

\* However updates of a product overlap, every value of the variants last
\* written has a SKU on sale, until a deletion begins (updateProduct works from
\* SKUs read before its transaction).
EveryVariantHasSku ==
    \A p \in Products :
        product[p].state = "live" /\ ~DeletionBegun(p)
            => \A v \in product[p].variants : \E s \in LiveSkus(p) : s[2] = v

\* What the edits under way know: SKUs of their product; a SKU exists only if the
\* edit it is named after is done; only deletions delete.
EditsInv ==
    /\ \A r \in ProductEdits : \A s \in editSkus[r] : ProductOfSku(s) = EditProduct[r]
    /\ \A s \in Skus : sku[s].state # "none" => editAt[s[1]] = "done"
    /\ \A r \in ProductEdits : editAt[r] = "deleting" => EditOp[r] = "delete"

=============================================================================
