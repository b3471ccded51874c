-------------------------------- MODULE Cart --------------------------------
(***************************************************************************)
(* CartService: addToCart, updateCart, deleteCart.  The first two validate  *)
(* the SKU with a SELECT and write later, so the stock they compared with   *)
(* may be gone by then.  Requests are one-shot: edit e carries its body.    *)
(***************************************************************************)
EXTENDS Store

CONSTANTS
    Edits,    \* requests to the cart controller
    EditOf    \* edit -> its method, the cart item, the SKU and the quantity

EditBody == [op : {"addToCart", "updateCart", "deleteCart"},
             item : CartItems, skuId : Skus, quantity : Nat]

\* An addToCart names the id its row gets if it inserts one: ids are fresh.
ASSUME EditAssumption ==
    /\ EditOf \in [Edits -> EditBody]
    /\ \A e \in Edits : EditOf[e].op = "addToCart" =>
            /\ InitialCart[EditOf[e].item] = Absent
            /\ \A f \in Edits : EditOf[f].op = "addToCart" /\ f # e =>
                    EditOf[f].item # EditOf[e].item

VARIABLE editPc

cartVars == <<editPc>>

CartTypeOK == editPc \in [Edits -> {"start", "validated", "done"}]

CartInit == editPc = [e \in Edits |-> "start"]

\* The row of a user's cart for a SKU: CartItem is unique in (userId, skuId).
RowFor(user, s) ==
    {i \in CartItems :
        OwnerOf[i] = user /\ cartItem[i] # Absent /\ cartItem[i].skuId = s}

QuantityInCart(user, s) ==
    IF RowFor(user, s) = {} THEN 0
    ELSE cartItem[CHOOSE i \in RowFor(user, s) : TRUE].quantity

\* _validateSku: the quantity asked for, with what the cart already holds when
\* adding, must not exceed the stock.
ValidateSku(e) ==
    LET b == EditOf[e]
        held == IF b.op = "addToCart"
                THEN QuantityInCart(OwnerOf[b.item], b.skuId) ELSE 0
        valid == /\ b.skuId \notin deletedSkus
                 /\ held + b.quantity <= stock[b.skuId]
                 /\ stock[b.skuId] > 0
    IN  /\ editPc[e] = "start"
        /\ b.op # "deleteCart"
        /\ editPc' = [editPc EXCEPT ![e] = IF valid THEN "validated" ELSE "done"]
        /\ UNCHANGED storeVars

WriteCart(e, rows) ==
    /\ cartItem' = rows
    /\ editPc' = [editPc EXCEPT ![e] = "done"]
    /\ UNCHANGED <<skuVars, orderVars, couponQuantity, transactionOf, soldCount,
                   lock, cancelJob>>

\* The upsert: increment the user's row for the SKU, or insert a new one.
AddToCart(e) ==
    LET b == EditOf[e]
        found == RowFor(OwnerOf[b.item], b.skuId)
    IN  /\ editPc[e] = "validated"
        /\ b.op = "addToCart"
        /\ WriteCart(e, [i \in CartItems |->
                IF i \in found
                THEN [cartItem[i] EXCEPT !.quantity = @ + b.quantity]
                ELSE IF found = {} /\ i = b.item
                THEN [skuId |-> b.skuId, quantity |-> b.quantity]
                ELSE cartItem[i]])

\* Mutant of SkuTaken: the table has no unique index.
SkuNeverTaken(e) == FALSE

\* Another item of the user has the SKU the edit moves its item to.
SkuTaken(e) ==
    RowFor(OwnerOf[EditOf[e].item], EditOf[e].skuId) \ {EditOf[e].item} # {}

\* Replaces SKU and quantity; a quantity of 0 deletes the row.  A row that is
\* gone (P2025) or a SKU already in the cart (P2002) leaves all as it was.
UpdateCart(e) ==
    LET b == EditOf[e]
    IN  /\ editPc[e] = "validated"
        /\ b.op = "updateCart"
        /\ WriteCart(e,
             IF b.quantity = 0 THEN [cartItem EXCEPT ![b.item] = Absent]
             ELSE IF SkuTaken(e) \/ cartItem[b.item] = Absent THEN cartItem
             ELSE [cartItem EXCEPT ![b.item] =
                        [skuId |-> b.skuId, quantity |-> b.quantity]])

DeleteCart(e) ==
    /\ editPc[e] = "start"
    /\ EditOf[e].op = "deleteCart"
    /\ WriteCart(e, [cartItem EXCEPT ![EditOf[e].item] = Absent])

CartStep(e) ==
    \/ ValidateSku(e)
    \/ AddToCart(e)
    \/ UpdateCart(e)
    \/ DeleteCart(e)

CartNext == \E e \in Edits : CartStep(e)

=============================================================================
