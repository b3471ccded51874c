------------------------------ MODULE Promotion ------------------------------
(***************************************************************************)
(* Coupons and amounts: ManageCouponService, the pricing of a checkout and  *)
(* cancelOrder (OrderService), and the amount the webhooks expect           *)
(* (PaymentService), while sellers edit prices and coupons.                 *)
(*                                                                          *)
(* Prices and coupons are in whole VND, amounts in hundredths of one, which *)
(* a percentage of a whole price always is.  An order has one line; stock,  *)
(* Redlocks, carts and the expiry job, which leaves coupons alone, are in   *)
(* the modules of OrderSystem.                                              *)
(***************************************************************************)
EXTENDS Product, Integers, Sequences, FiniteSets

CONSTANTS
    Coupons,
    CouponEdits,    \* requests to createCoupon, updateCoupon, deleteCoupon
    CouponOp,       \* the handler an edit is for
    CouponOf,       \* the coupon it names
    CouponBody,     \* its body
    Checkouts,      \* requests to createOrder
    CheckoutBody,   \* its orders: the SKU and quantity in the cart, the coupon
    Cancels,        \* requests to cancelOrder
    CancelOf        \* the order one names: a checkout and an index in its body

Terms == [discountType : {"PERCENTAGE", "FIXED_AMOUNT"}, discount : Nat,
          minOrderAmount : Nat, quantity : Nat,
          status : {"ACTIVE", "INACTIVE", "EXPIRED"}, dates : {"early", "open", "over"}]

ASSUME PromotionAssumption ==
    /\ Absent \notin Coupons
    /\ CouponOp \in [CouponEdits -> {"create", "update", "delete"}]
    /\ CouponOf \in [CouponEdits -> Coupons]
    /\ CouponBody \in [CouponEdits -> Terms]
    /\ CheckoutBody \in [Checkouts ->
            Seq([sku : Skus, quantity : Nat, coupon : Coupons \cup {Absent}])]
    /\ CancelOf \in [Cancels -> Checkouts \X (Nat \ {0})]

VARIABLES
    couponState,  \* whether the Coupon row exists, is deleted
    coupon,       \* the row; dates: where now is with regard to its dates
    couponAt,     \* coupon edit -> where its handler is
    checkoutAt,   \* checkout -> where its handler is
    seenSku,      \* checkout -> price and version of the SKUs it read
    discount,     \* checkout -> the discount of the order it is at
    taken,        \* checkout -> coupon units decremented, not yet committed
    asked,        \* checkout -> totalFinalAmount, asked for in the payment URL
    orders,       \* checkout -> its Order rows so far, committed with payment
    payment,      \* checkout -> Payment.status
    paid,         \* checkouts whose orders a transfer has set to PENDING_PICKUP
    cancelled,    \* orders that are CANCELLED
    cancelAt,     \* cancel -> where its handler is
    refused,      \* history: checkouts whose asked amount was not accepted
    delivered,    \* checkouts whose orders are DELIVERED
    budget        \* history: coupon -> the quantity last written, the orders that
                  \* used it since, units that came back without being theirs

couponVars == <<couponState, coupon, couponAt>>

unitVars == <<budget, cancelled>>

checkoutVars == <<checkoutAt, seenSku, discount, taken, asked, orders>>

paymentVars == <<payment, paid, refused, delivered>>

promotionVars == <<couponVars, unitVars, checkoutVars, paymentVars, cancelAt>>

SkusIn(c) == {CheckoutBody[c][i].sku : i \in DOMAIN CheckoutBody[c]}

OrderRow == [skuPrice : Nat, discountAmount : Nat]

OrderIds == Checkouts \X (Nat \ {0})

Budget == [granted : Nat, uses : SUBSET OrderIds, extra : Nat]

PromotionTypeOK ==
    /\ couponState \in [Coupons -> RowState]
    /\ coupon \in [Coupons -> Terms]
    /\ couponAt \in [CouponEdits -> {"unsent", "start", "validated", "done", "failed"}]
    /\ checkoutAt \in [Checkouts -> {"unsent", "start", "pricing", "couponFound",
                                     "done", "failed"}]
    /\ seenSku \in [Checkouts -> [Skus -> [price : Nat, version : Nat]]]
    /\ discount \in [Checkouts -> Nat]
    /\ taken \in [Checkouts -> [Coupons -> Nat]]
    /\ asked \in [Checkouts -> Int]
    /\ orders \in [Checkouts -> Seq(OrderRow)]
    /\ payment \in [Checkouts -> {"none", "PENDING", "SUCCESS", "FAILED"}]
    /\ paid \in SUBSET Checkouts
    /\ cancelled \in SUBSET OrderIds
    /\ cancelAt \in [Cancels -> {"unsent", "start", "read", "done", "failed"}]
    /\ refused \in SUBSET Checkouts
    /\ delivered \in SUBSET Checkouts
    /\ budget \in [Coupons -> Budget]

NoTerms == [discountType |-> "PERCENTAGE", discount |-> 0, minOrderAmount |-> 0,
            quantity |-> 0, status |-> "INACTIVE", dates |-> "over"]

PromotionInit(sent) ==
    /\ couponState = [k \in Coupons |-> "none"]
    /\ coupon = [k \in Coupons |-> NoTerms]
    /\ couponAt = [e \in CouponEdits |-> IF e \in sent THEN "start" ELSE "unsent"]
    /\ checkoutAt = [c \in Checkouts |-> IF c \in sent THEN "start" ELSE "unsent"]
    /\ seenSku = [c \in Checkouts |-> [s \in Skus |-> [price |-> 0, version |-> 0]]]
    /\ discount = [c \in Checkouts |-> 0]
    /\ taken = [c \in Checkouts |-> [k \in Coupons |-> 0]]
    /\ asked = [c \in Checkouts |-> 0]
    /\ orders = [c \in Checkouts |-> <<>>]
    /\ payment = [c \in Checkouts |-> "none"]
    /\ paid = {}
    /\ cancelled = {}
    /\ cancelAt = [x \in Cancels |-> IF x \in sent THEN "start" ELSE "unsent"]
    /\ refused = {}
    /\ delivered = {}
    /\ budget = [k \in Coupons |-> [granted |-> 0, uses |-> {}, extra |-> 0]]

-----------------------------------------------------------------------------
(* Coupons. *)

\* Mutant of ValidBody: a fixed amount may exceed minOrderAmount.
ValidBodyAnyFixed(b) ==
    /\ b.quantity >= 1 /\ b.minOrderAmount > 0 /\ b.discount > 0
    /\ b.discountType = "PERCENTAGE" => b.discount <= 100

\* CouponSchema and the superRefine of CreateCouponBodySchema, which is also the
\* schema of updates.
ValidBody(b) ==
    /\ b.quantity >= 1 /\ b.minOrderAmount > 0 /\ b.discount > 0
    /\ b.discount <= IF b.discountType = "PERCENTAGE" THEN 100 ELSE b.minOrderAmount

\* A transaction that decremented the coupon holds its row until it ends.
RowHeld(k) == \E c \in Checkouts : taken[c][k] > 0

\* The orders that refer to a coupon.
HasOrders(k) ==
    \E c \in Checkouts : \E i \in DOMAIN CheckoutBody[c] :
        payment[c] # "none" /\ CheckoutBody[c][i].coupon = k

CouponGoes(e, label) == couponAt' = [couponAt EXCEPT ![e] = label]

PutCoupon(e) ==
    /\ coupon' = [coupon EXCEPT ![CouponOf[e]] = CouponBody[e]]
    /\ budget' = [budget EXCEPT ![CouponOf[e]] =
                    [granted |-> CouponBody[e].quantity, uses |-> {}, extra |-> 0]]

CreateCoupon(e) ==
    /\ CouponOp[e] = "create" /\ couponAt[e] = "start"
    /\ ValidBody(CouponBody[e])
    /\ couponState[CouponOf[e]] = "none"
    /\ couponState' = [couponState EXCEPT ![CouponOf[e]] = "live"]
    /\ PutCoupon(e)
    /\ CouponGoes(e, "done")

\* The body is checked before the handler runs; then _validateCoupon.
ValidateCoupon(e) ==
    LET k == CouponOf[e] IN
    /\ CouponOp[e] \in {"update", "delete"} /\ couponAt[e] = "start"
    /\ CouponOp[e] = "update" => ValidBody(CouponBody[e])
    /\ couponState[k] = "live"
    /\ ~(coupon[k].status = "ACTIVE" /\ HasOrders(k))
    /\ CouponGoes(e, "validated")
    /\ UNCHANGED <<couponState, coupon, budget>>

UpdateCoupon(e) ==
    /\ CouponOp[e] = "update" /\ couponAt[e] = "validated"
    /\ couponState[CouponOf[e]] = "live" /\ ~RowHeld(CouponOf[e])
    /\ PutCoupon(e)
    /\ CouponGoes(e, "done")
    /\ UNCHANGED couponState

DeleteCoupon(e) ==
    /\ CouponOp[e] = "delete" /\ couponAt[e] = "validated"
    /\ couponState[CouponOf[e]] = "live" /\ ~RowHeld(CouponOf[e])
    /\ couponState' = [couponState EXCEPT ![CouponOf[e]] = "deleted"]
    /\ CouponGoes(e, "done")
    /\ UNCHANGED <<coupon, budget>>

\* A refused edit (not the owner, an invalid body, a code taken, no such row),
\* or the process exits.
AbortCouponEdit(e) ==
    /\ couponAt[e] \in {"start", "validated"}
    /\ CouponGoes(e, "failed")
    /\ UNCHANGED <<couponState, coupon, budget>>

CouponStep(e) ==
    /\ \/ CreateCoupon(e) \/ ValidateCoupon(e) \/ UpdateCoupon(e) \/ DeleteCoupon(e)
       \/ AbortCouponEdit(e)
    /\ UNCHANGED <<productVars, checkoutVars, paymentVars, cancelled, cancelAt>>

\* startDate, then endDate passes.
DatePasses(k) ==
    /\ coupon[k].dates \in {"early", "open"}
    /\ coupon' = [coupon EXCEPT ![k].dates = IF @ = "early" THEN "open" ELSE "over"]
    /\ UNCHANGED <<couponState, couponAt, unitVars, productVars, checkoutVars, paymentVars,
                   cancelAt>>

-----------------------------------------------------------------------------
(* Pricing a checkout. *)

CheckoutGoes(c, label) == checkoutAt' = [checkoutAt EXCEPT ![c] = label]

\* findCartItems with its SKUs and products.  A soft-deleted SKU passes, a
\* deleted product does not.
ReadPrices(c) ==
    /\ checkoutAt[c] = "start"
    /\ \A s \in SkusIn(c) :
            sku[s].state # "none" /\ product[ProductOfSku(s)].state = "live"
    /\ seenSku' = [seenSku EXCEPT ![c] =
            [s \in Skus |-> IF s \in SkusIn(c)
                            THEN [price |-> sku[s].price, version |-> sku[s].version]
                            ELSE @[s]]]
    /\ CheckoutGoes(c, "pricing")
    /\ UNCHANGED <<discount, taken, asked, orders, coupon, budget, sku, payment>>

\* The order of the body the loop is at.
Current(c) == CheckoutBody[c][Len(orders[c]) + 1]

OrdersLeft(c) == Len(orders[c]) < Len(CheckoutBody[c])

\* _calculateOrderItemSubtotal.
Subtotal(c) == seenSku[c][Current(c).sku].price * Current(c).quantity

\* _calculateDiscountAmount, in hundredths.
DiscountAmount(t, subtotal) ==
    IF t.discountType = "PERCENTAGE" THEN subtotal * t.discount ELSE 100 * t.discount

\* findCouponForOrder: what the transaction sees of the coupon is its own
\* decrements and what others committed.
FindCouponForOrder(c) ==
    LET k == Current(c).coupon IN
    /\ checkoutAt[c] = "pricing" /\ OrdersLeft(c) /\ k # Absent
    /\ couponState[k] = "live" /\ coupon[k].status = "ACTIVE" /\ coupon[k].dates = "open"
    /\ coupon[k].quantity > taken[c][k]
    /\ Subtotal(c) >= coupon[k].minOrderAmount
    /\ discount' = [discount EXCEPT ![c] = DiscountAmount(coupon[k], Subtotal(c))]
    /\ CheckoutGoes(c, "couponFound")
    /\ UNCHANGED <<seenSku, taken, asked, orders, coupon, budget, sku, payment>>

\* totalFinalAmount += subtotal - discountAmount, and createOrder with the
\* snapshot of the price.
CreateOrder(c, off) ==
    /\ asked' = [asked EXCEPT ![c] = @ + 100 * Subtotal(c) - off]
    /\ orders' = [orders EXCEPT ![c] = Append(@,
            [skuPrice |-> seenSku[c][Current(c).sku].price, discountAmount |-> off])]

\* Mutant of QuantityLeft: the decrement does not ask for quantity > 0.
QuantityUnchecked(c, k) == TRUE

\* decrementCouponQuantity asks for quantity > 0, at the row as it is now.
QuantityLeft(c, k) == coupon[k].quantity > taken[c][k]

\* The UPDATE waits for a transaction that holds the row; of the status, the
\* dates and the terms nothing is asked again.
DecrementCouponQuantity(c) ==
    LET k == Current(c).coupon IN
    /\ checkoutAt[c] = "couponFound"
    /\ \A d \in Checkouts \ {c} : taken[d][k] = 0
    /\ QuantityLeft(c, k)
    /\ taken' = [taken EXCEPT ![c][k] = @ + 1]
    /\ CreateOrder(c, discount[c])
    /\ CheckoutGoes(c, "pricing")
    /\ UNCHANGED <<seenSku, discount, coupon, budget, sku, payment>>

OrderWithoutCoupon(c) ==
    /\ checkoutAt[c] = "pricing" /\ OrdersLeft(c) /\ Current(c).coupon = Absent
    /\ CreateOrder(c, 0)
    /\ UNCHANGED <<checkoutAt, seenSku, discount, taken, coupon, budget, sku, payment>>

\* Mutant of VersionsMatch: the optimistic lock left out, as its comment allows.
VersionsIgnored(c) == TRUE

\* updateSkusStock asks for the updatedAt that findCartItems read.
VersionsMatch(c) == \A s \in SkusIn(c) : sku[s].version = seenSku[c][s].version

\* The orders of a checkout that use coupon k.
UsesOf(c, k) == {<<c, i>> : i \in {j \in DOMAIN orders[c] : CheckoutBody[c][j].coupon = k}}

\* The end of _createOrderTransaction: the SKUs are updated and everything is
\* committed.
CommitCheckout(c) ==
    /\ checkoutAt[c] = "pricing" /\ ~OrdersLeft(c)
    /\ VersionsMatch(c)
    /\ sku' = [s \in Skus |-> IF s \in SkusIn(c)
                              THEN Stamped(sku[s], sku[s].state, sku[s].price)
                              ELSE sku[s]]
    /\ coupon' = [k \in Coupons |-> [coupon[k] EXCEPT !.quantity = @ - taken[c][k]]]
    /\ budget' = [k \in Coupons |-> [budget[k] EXCEPT !.uses = @ \cup UsesOf(c, k)]]
    /\ payment' = [payment EXCEPT ![c] = "PENDING"]
    /\ taken' = [taken EXCEPT ![c] = [k \in Coupons |-> 0]]
    /\ CheckoutGoes(c, "done")
    /\ UNCHANGED <<seenSku, discount, asked, orders>>

\* A check of createOrder fails, a condition of a write does, PostgreSQL ends a
\* deadlock, or the process exits: the transaction is rolled back.
AbortCheckout(c) ==
    /\ checkoutAt[c] \in {"start", "pricing", "couponFound"}
    /\ taken' = [taken EXCEPT ![c] = [k \in Coupons |-> 0]]
    /\ orders' = [orders EXCEPT ![c] = <<>>]
    /\ CheckoutGoes(c, "failed")
    /\ UNCHANGED <<seenSku, discount, asked, coupon, budget, sku, payment>>

PricingStep(c) ==
    /\ \/ ReadPrices(c) \/ FindCouponForOrder(c) \/ DecrementCouponQuantity(c)
       \/ OrderWithoutCoupon(c) \/ CommitCheckout(c) \/ AbortCheckout(c)
    /\ UNCHANGED <<product, editAt, editSkus, editTodo, couponState, couponAt, paid,
                   cancelled, cancelAt, refused, delivered>>

-----------------------------------------------------------------------------
(* Cancelling an order. *)

CancelGoes(x, label) == cancelAt' = [cancelAt EXCEPT ![x] = label]

\* findById, which must find the order PENDING_PAYMENT.
FindOrder(x) ==
    LET o == CancelOf[x] IN
    /\ cancelAt[x] = "start"
    /\ payment[o[1]] # "none" /\ o[2] \in DOMAIN orders[o[1]]
    /\ o \notin cancelled /\ o[1] \notin paid
    /\ CancelGoes(x, "read")
    /\ UNCHANGED <<sku, coupon, unitVars, payment>>

\* The orders that used a coupon since its quantity was written and are not
\* cancelled.
InForce(k) == budget[k].uses \ cancelled

\* incrementCouponQuantity, by id: also for a coupon edited or deleted meanwhile.
GiveBack(o) ==
    coupon' = [k \in Coupons |->
        IF CheckoutBody[o[1]][o[2]].coupon = k
        THEN [coupon[k] EXCEPT !.quantity = @ + 1] ELSE coupon[k]]

\* The writes of cancelOrder and its commit.  The status is not looked at again;
\* a SKU deleted meanwhile makes the update throw.
CommitCancel(x) ==
    LET o == CancelOf[x]
        item == CheckoutBody[o[1]][o[2]]
    IN  /\ cancelAt[x] = "read"
        /\ sku[item.sku].state = "live"
        /\ item.coupon # Absent => ~RowHeld(item.coupon)
        /\ sku' = [sku EXCEPT ![item.sku] = Stamped(@, "live", @.price)]
        /\ payment' = [payment EXCEPT ![o[1]] = "FAILED"]
        /\ cancelled' = cancelled \cup {o}
        /\ GiveBack(o)
        /\ budget' = [k \in Coupons |->
                IF k = item.coupon /\ o \notin InForce(k)
                THEN [budget[k] EXCEPT !.extra = @ + 1] ELSE budget[k]]
        /\ CancelGoes(x, "done")

\* The order is not there or not PENDING_PAYMENT, a write fails, the process exits.
AbortCancel(x) ==
    /\ cancelAt[x] \in {"start", "read"}
    /\ CancelGoes(x, "failed")
    /\ UNCHANGED <<sku, coupon, unitVars, payment>>

CancelStep(x) ==
    /\ FindOrder(x) \/ CommitCancel(x) \/ AbortCancel(x)
    /\ UNCHANGED <<product, editAt, editSkus, editTodo, couponState, couponAt, checkoutVars,
                   paid, refused, delivered>>

-----------------------------------------------------------------------------
(* The amount of a transfer. *)

\* Math.round of an amount in hundredths.
Round(amount) == (amount + 50) \div 100

\* Mutant of SkuPrice: the price of the SKU instead of the snapshot's.
CurrentPrice(c, i) == sku[CheckoutBody[c][i].sku].price

SkuPrice(c, i) == orders[c][i].skuPrice

\* The price of an order's one item times its quantity, less its discount.
OrderAmount(c, i) ==
    100 * SkuPrice(c, i) * CheckoutBody[c][i].quantity - orders[c][i].discountAmount

\* The loop over a payment's orders: the total after each of them.
RunningTotal(amounts) ==
    LET total[n \in 0..Len(amounts)] == IF n = 0 THEN 0 ELSE total[n - 1] + amounts[n]
    IN  total

\* _getTotalAmount.
TotalAmount(c) ==
    RunningTotal([i \in DOMAIN orders[c] |-> OrderAmount(c, i)])[Len(orders[c])]

\* PaymentTransaction.amountIn is an Int, and the amount must be the rounded total.
Accepted(c, amount) == amount % 100 = 0 /\ amount = 100 * Round(TotalAmount(c))

\* The cancelled orders of a checkout among the uses of a coupon.
TakenUpAgain(c, k) == {o \in cancelled \cap budget[k].uses : o[1] = c}

\* The payer transfers what the payment URL asked for.  Neither status is looked
\* at: the orders of a cancelled payment become PENDING_PICKUP too.
ReceiveTransfer(c) ==
    /\ payment[c] \in {"PENDING", "FAILED"} /\ c \notin refused
    /\ IF Accepted(c, asked[c])
       THEN /\ payment' = [payment EXCEPT ![c] = "SUCCESS"]
            /\ paid' = paid \cup {c}
            /\ cancelled' = {o \in cancelled : o[1] # c}
            /\ budget' = [k \in Coupons |-> [budget[k] EXCEPT !.extra =
                    @ + Cardinality(TakenUpAgain(c, k))]]
            /\ UNCHANGED refused
       ELSE refused' = refused \cup {c} /\ UNCHANGED <<payment, paid, unitVars>>
    /\ UNCHANGED <<delivered, cancelAt, productVars, couponVars, checkoutVars>>

\* Whoever carries orders out sets them to DELIVERED; nothing in the code does.
\* It takes longer than the transaction of a cancelOrder.
Deliver(c) ==
    /\ payment[c] = "SUCCESS" /\ c \notin delivered
    /\ \A x \in Cancels : CancelOf[x][1] = c => cancelAt[x] # "read"
    /\ delivered' = delivered \cup {c}
    /\ UNCHANGED <<payment, paid, refused, cancelAt, unitVars, productVars, couponVars,
                   checkoutVars>>

PaymentStep(c) == ReceiveTransfer(c) \/ Deliver(c)

-----------------------------------------------------------------------------

\* No discount exceeds the subtotal it is taken from, whatever coupons are
\* written while the order is priced: no payment asks for a negative amount.
DiscountWithinSubtotal ==
    \A c \in Checkouts : \A i \in DOMAIN orders[c] :
        orders[c][i].discountAmount <= 100 * orders[c][i].skuPrice * CheckoutBody[c][i].quantity

\* Checkouts that found a coupon at once do not overspend it: the orders that used
\* it since its quantity was last written and are not cancelled are no more than
\* that quantity, plus one for each of three events: a cancelOrder of an order
\* older than that edit, a cancelOrder of an order already CANCELLED, and a transfer
\* that takes up a cancelled order again.
CouponNeverOverspent ==
    \A k \in Coupons : Cardinality(InForce(k)) <= budget[k].granted + budget[k].extra

\* A payer who transfers exactly what the payment URL asked for is turned away
\* only if that is not a whole amount: editing prices and coupons after the
\* order changes nothing.
RefusedOnlyIfFractional == \A c \in refused : asked[c] % 100 # 0

\* An order is committed at the price its SKU has at that moment, although
\* prices are edited between its read and its commit without the SKU's lock.
OrdersAtCurrentPrice ==
    [][\A c \in Checkouts : payment[c] = "none" /\ payment'[c] = "PENDING"
            => \A i \in DOMAIN orders[c] :
                    orders[c][i].skuPrice = sku[CheckoutBody[c][i].sku].price]_<<sku, orders, payment>>

\* The price a checkout read is current as long as the version is.
PricesSeen(c) ==
    checkoutAt[c] \in {"pricing", "couponFound"} =>
        \A s \in SkusIn(c) :
            /\ sku[s].state # "none"
            /\ seenSku[c][s].version <= sku[s].version
            /\ seenSku[c][s].version = sku[s].version => seenSku[c][s].price = sku[s].price

PricesInv == \A c \in Checkouts : PricesSeen(c)

\* The orders of a checkout are the first of its body, at the prices it read; the
\* discount it is about to use is not above the subtotal.
OrdersSoFar(c) ==
    /\ checkoutAt[c] \in {"unsent", "start"} => orders[c] = <<>>
    /\ Len(orders[c]) <= Len(CheckoutBody[c])
    /\ \A i \in DOMAIN orders[c] :
            orders[c][i].skuPrice = seenSku[c][CheckoutBody[c][i].sku].price
    /\ checkoutAt[c] = "couponFound" =>
            /\ OrdersLeft(c) /\ Current(c).coupon # Absent
            /\ discount[c] <= 100 * Subtotal(c)

OrdersInv == \A c \in Checkouts : OrdersSoFar(c)

\* What a checkout asks for is the total of its orders so far; only a finished
\* checkout has a payment, and only a payment is refused.
TotalsInv ==
    \A c \in Checkouts :
        /\ checkoutAt[c] # "failed" => asked[c] = TotalAmount(c)
        /\ payment[c] # "none" => checkoutAt[c] = "done"
        /\ c \in refused => payment[c] # "none"

\* A coupon written or about to be has valid terms; one transaction at a time holds
\* a coupon, and no more units of it than there are.
CouponsInv ==
    /\ \A e \in CouponEdits : couponAt[e] = "validated" /\ CouponOp[e] = "update"
            => ValidBody(CouponBody[e])
    /\ \A k \in Coupons :
            IF couponState[k] = "none" THEN coupon[k].quantity = 0
            ELSE coupon[k].discount <= IF coupon[k].discountType = "PERCENTAGE"
                                       THEN 100 ELSE coupon[k].minOrderAmount
    /\ \A c \in Checkouts, k \in Coupons : taken[c][k] <= coupon[k].quantity
    /\ \A c, d \in Checkouts, k \in Coupons : taken[c][k] > 0 /\ taken[d][k] > 0 => c = d

\* The coupons that orders use, or are about to, exist.
UsedCouponsExist ==
    \A c \in Checkouts, k \in Coupons :
        (checkoutAt[c] = "couponFound" /\ Current(c).coupon = k) \/ UsesOf(c, k) # {}
            => couponState[k] # "none"

\* What a transaction has taken of a coupon are the uses of its orders.
TakenIsUsed ==
    \A c \in Checkouts, k \in Coupons :
        /\ checkoutAt[c] \in {"unsent", "start"} => taken[c][k] = 0
        /\ checkoutAt[c] \in {"pricing", "couponFound"} => taken[c][k] = Cardinality(UsesOf(c, k))

\* The orders counted, cancelled or about to be are of committed checkouts.
OrdersCommitted ==
    /\ \A o \in cancelled : payment[o[1]] # "none"
    /\ \A x \in Cancels : cancelAt[x] = "read" =>
            payment[CancelOf[x][1]] # "none" /\ CancelOf[x][2] \in DOMAIN orders[CancelOf[x][1]]
    /\ \A k \in Coupons : IsFiniteSet(budget[k].uses)
    /\ \A k \in Coupons : \A o \in budget[k].uses :
            payment[o[1]] # "none" /\ CheckoutBody[o[1]][o[2]].coupon = k

\* Each unit granted or come back is left or in force.
UnitsBalance ==
    \A k \in Coupons :
        Cardinality(InForce(k)) + coupon[k].quantity = budget[k].granted + budget[k].extra

UnitsInv == UsedCouponsExist /\ TakenIsUsed /\ OrdersCommitted /\ UnitsBalance

=============================================================================
