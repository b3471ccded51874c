-------------------------------- MODULE Shop --------------------------------
(***************************************************************************)
(* What a shop's visitors and sellers do at once: products and coupons are  *)
(* edited while checkouts price them, orders are cancelled, payments made   *)
(* and delivered orders reviewed.                                           *)
(***************************************************************************)
EXTENDS Review

CONSTANT Arrivals   \* the sets of requests that may come in together

ASSUME ArrivalsAssumption ==
    Arrivals \subseteq
        SUBSET (ProductEdits \cup CouponEdits \cup Checkouts \cup Cancels \cup ReviewRequests)

vars == <<productVars, promotionVars, reviewVars>>

\* Rows, locks and what requests remember are of their types; no coupon has a
\* negative quantity and no price is negative.
TypeOK == ProductTypeOK /\ PromotionTypeOK /\ ReviewTypeOK

Init ==
    \E sent \in Arrivals : ProductInit(sent) /\ PromotionInit(sent) /\ ReviewInit(sent)

EditProducts ==
    /\ \E r \in ProductEdits : ProductStep(r)
    /\ UNCHANGED <<promotionVars, reviewVars>>

SellAndPay ==
    /\ \/ \E e \in CouponEdits : CouponStep(e)
       \/ \E k \in Coupons : DatePasses(k)
       \/ \E c \in Checkouts : PricingStep(c) \/ PaymentStep(c)
       \/ \E x \in Cancels : CancelStep(x)
    /\ UNCHANGED reviewVars

WriteReviews ==
    /\ \E q \in ReviewRequests : ReviewStep(q)
    /\ UNCHANGED <<productVars, promotionVars>>

Next == EditProducts \/ SellAndPay \/ WriteReviews

Spec == Init /\ [][Next]_vars

-----------------------------------------------------------------------------

\* A deleted product stays deleted and gains no SKU and no new price: an
\* updateProduct that read it before does not write to it afterwards.
NothingAddedToDeleted ==
    [][\A p \in Products : product[p].state = "deleted" =>
            /\ product'[p] = product[p]
            /\ \A s \in Skus : ProductOfSku(s) = p =>
                    /\ sku'[s].price = sku[s].price
                    /\ sku'[s].state = "live" => sku[s].state = "live"]_vars

=============================================================================
