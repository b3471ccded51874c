----------------------------- MODULE Settlement -----------------------------
(***************************************************************************)
(* What happens to a payment once it exists: the user cancels an order      *)
(* (OrderService.cancelOrder), a gateway reports a transfer (PaymentService *)
(* receiver, verifyIpnMomo, verifyIpnVNPay), or the cancel-payment job      *)
(* expires it (PaymentConsumer, SharedPaymentRepository).  Sellers          *)
(* soft-delete SKUs meanwhile.                                              *)
(*                                                                          *)
(* A line loses its skuId when its SKU is erased, which only the deletion   *)
(* of the seller's account does; cancelOrder and the job then skip the line *)
(* (order.service.ts:331, shared-payment.repo.ts:54).  No account is        *)
(* deleted here, so every line keeps its SKU.                               *)
(***************************************************************************)
EXTENDS Store

CONSTANTS
    Cancels,        \* requests to cancel an order
    CancelTarget,   \* cancel request -> the order
    Deliveries,     \* calls of a gateway; a retry is one more delivery
    TxnOf,          \* delivery -> the transaction it reports
    PaidFor,        \* delivery -> the payment its code or TxnRef names
    AmountMatches,  \* delivery -> does transferAmount equal the rounded total?
    DeletableSkus   \* SKUs a seller may soft-delete

ASSUME SettlementAssumption ==
    /\ CancelTarget \in [Cancels -> Orders]
    /\ TxnOf \in [Deliveries -> Txns]
    /\ PaidFor \in [Deliveries -> Payments]
    /\ AmountMatches \in [Deliveries -> BOOLEAN]
    /\ DeletableSkus \in SUBSET Skus

VARIABLES cancelPc, ipnPc

settlementVars == <<cancelPc, ipnPc>>

SettlementTypeOK ==
    /\ cancelPc \in [Cancels -> {"start", "read", "done"}]
    /\ ipnPc \in [Deliveries -> {"start", "checked", "removeJob", "done"}]

SettlementInit ==
    /\ cancelPc = [c \in Cancels |-> "start"]
    /\ ipnPc = [d \in Deliveries |-> "start"]

\* The tables a settlement may change; the others keep their rows.
Elsewhere == <<cartItem, lock>>

-----------------------------------------------------------------------------
\* cancelOrder

\* Mutant of ReadOrder: the status is not checked.
ReadOrderAnyStatus(c) ==
    /\ cancelPc[c] = "start"
    /\ orderStatus[CancelTarget[c]] # "none"
    /\ cancelPc' = [cancelPc EXCEPT ![c] = "read"]
    /\ UNCHANGED <<storeVars, ipnPc>>

\* findById and the status check.
ReadOrder(c) ==
    LET o == CancelTarget[c]
    IN  /\ cancelPc[c] = "start"
        /\ orderStatus[o] # "none"
        /\ cancelPc' = [cancelPc EXCEPT ![c] =
                IF orderStatus[o] = "PENDING_PAYMENT" THEN "read" ELSE "done"]
        /\ UNCHANGED <<storeVars, ipnPc>>

\* Mutant of CouponsWith: the coupon of a cancelled order is not given back.
CouponsWithout(o) == couponQuantity

\* incrementCouponQuantity for the coupon of order o, if it has one.
CouponsWith(o) ==
    [k \in Coupons |->
        IF CouponOf[o] = k THEN couponQuantity[k] + 1 ELSE couponQuantity[k]]

\* The writes and the commit.  Neither update looks at the status again.
CommitCancel(c) ==
    LET o == CancelTarget[c]
    IN  /\ cancelPc[c] = "read"
        /\ Returnable(orderItems[o])
        /\ orderStatus' = [orderStatus EXCEPT ![o] = "CANCELLED"]
        /\ paymentStatus' = [paymentStatus EXCEPT ![PaymentOf[o]] = "FAILED"]
        /\ ReturnStock(orderItems[o])
        /\ couponQuantity' = CouponsWith(o)
        /\ cancelPc' = [cancelPc EXCEPT ![c] = "done"]
        /\ UNCHANGED <<Elsewhere, orderItems, transactionOf, soldCount,
                       cancelJob, ipnPc>>

\* A soft-deleted SKU, a deadlock or a timeout rolls it back.
AbortCancel(c) ==
    /\ cancelPc[c] = "read"
    /\ Failures \/ ~Returnable(orderItems[CancelTarget[c]])
    /\ cancelPc' = [cancelPc EXCEPT ![c] = "done"]
    /\ UNCHANGED <<storeVars, ipnPc>>

-----------------------------------------------------------------------------
\* receiver, verifyIpnMomo, verifyIpnVNPay

\* findPaymentTransactionById, outside the transaction.
FindTransaction(d) ==
    /\ ipnPc[d] = "start"
    /\ ipnPc' = [ipnPc EXCEPT ![d] =
            IF transactionOf[TxnOf[d]] = NoPayment THEN "checked" ELSE "done"]
    /\ UNCHANGED <<storeVars, cancelPc>>

\* Mutant of Payable: the insert is an upsert.
PayableTwice(d) == paymentStatus[PaidFor[d]] # "none" /\ AmountMatches[d]

\* The insert asks for an unused primary key, the payment must exist and the
\* amount must be its rounded total.
Payable(d) ==
    /\ transactionOf[TxnOf[d]] = NoPayment
    /\ paymentStatus[PaidFor[d]] # "none"
    /\ AmountMatches[d]

LaunchpadsOf(p) == {LaunchpadOf[o] : o \in OrdersOf(p)} \ {NoLaunchpad}

\* Mutant of PaidOrders: orders cancelled meanwhile are skipped.
PaidPendingOrders(p) == {o \in OrdersOf(p) : orderStatus[o] = "PENDING_PAYMENT"}

\* The orderIds of updateOrders: all orders of the payment.
PaidOrders(p) == OrdersOf(p)

\* _createPaymentTransaction: neither status is looked at.
CommitPayment(d) ==
    LET p == PaidFor[d]
    IN  /\ ipnPc[d] = "checked"
        /\ Payable(d)
        /\ transactionOf' = [transactionOf EXCEPT ![TxnOf[d]] = p]
        /\ paymentStatus' = [paymentStatus EXCEPT ![p] = "SUCCESS"]
        /\ orderStatus' = [o \in Orders |->
                IF o \in PaidOrders(p) THEN "PENDING_PICKUP" ELSE orderStatus[o]]
        /\ soldCount' = [l \in Launchpads |->
                IF l \in LaunchpadsOf(p) THEN soldCount[l] + 1 ELSE soldCount[l]]
        /\ ipnPc' = [ipnPc EXCEPT ![d] = "removeJob"]
        /\ UNCHANGED <<Elsewhere, skuVars, orderItems, couponQuantity,
                       cancelJob, cancelPc>>

\* Mutant of AbortPayment: the job is removed for a transfer that was rejected.
AbortPaymentRemovingJob(d) ==
    /\ ipnPc[d] = "checked"
    /\ Failures \/ ~Payable(d)
    /\ ipnPc' = [ipnPc EXCEPT ![d] = "removeJob"]
    /\ UNCHANGED <<storeVars, cancelPc>>

\* Rejected or rolled back; the gateway may deliver again.
AbortPayment(d) ==
    /\ ipnPc[d] = "checked"
    /\ Failures \/ ~Payable(d)
    /\ ipnPc' = [ipnPc EXCEPT ![d] = "done"]
    /\ UNCHANGED <<storeVars, cancelPc>>

\* removeJob: BullMQ removes a job that is not being processed.
RemoveJob(d) ==
    LET p == PaidFor[d]
    IN  /\ ipnPc[d] = "removeJob"
        /\ cancelJob' = [cancelJob EXCEPT ![p] =
                            IF @ = "delayed" THEN "none" ELSE @]
        /\ ipnPc' = [ipnPc EXCEPT ![d] = "done"]
        /\ UNCHANGED <<Elsewhere, skuVars, orderVars, couponQuantity,
                       transactionOf, soldCount, cancelPc>>

\* Redis is away or the process dies: the transfer is recorded, the job stays.
RemoveJobFails(d) ==
    /\ Failures
    /\ ipnPc[d] = "removeJob"
    /\ ipnPc' = [ipnPc EXCEPT ![d] = "done"]
    /\ UNCHANGED <<storeVars, cancelPc>>

-----------------------------------------------------------------------------
\* The cancel-payment job

SetJob(p, state) == cancelJob' = [cancelJob EXCEPT ![p] = state]

\* 24 hours have passed; the worker reads payment, orders and lines, none of
\* which change once inserted, save for the statuses the writes look at again.
StartJob(p) ==
    /\ cancelJob[p] = "delayed"
    /\ SetJob(p, "active")
    /\ UNCHANGED <<Elsewhere, skuVars, orderVars, couponQuantity, transactionOf,
                   soldCount, settlementVars>>

\* Mutant of Expirable: the status is not part of the where.
ExpirableAnyStatus(p) == paymentStatus[p] # "none" /\ Returnable(LinesOf(p))

\* payment.update asks for status PENDING, the SKU updates for deletedAt null.
Expirable(p) == paymentStatus[p] = "PENDING" /\ Returnable(LinesOf(p))

\* cancelPaymentAndOrders commits.  The coupons of the orders are left alone.
CommitJob(p) ==
    /\ cancelJob[p] = "active"
    /\ Expirable(p)
    /\ paymentStatus' = [paymentStatus EXCEPT ![p] = "FAILED"]
    /\ orderStatus' = [o \in Orders |->
            IF o \in OrdersOf(p) /\ orderStatus[o] = "PENDING_PAYMENT"
            THEN "CANCELLED" ELSE orderStatus[o]]
    /\ ReturnStock(LinesOf(p))
    /\ SetJob(p, "committed")
    /\ UNCHANGED <<Elsewhere, orderItems, couponQuantity, transactionOf,
                   soldCount, settlementVars>>

\* P2025 or a database error: attempts is 1 and removeOnFail is true.
FailJob(p) ==
    /\ cancelJob[p] = "active"
    /\ Failures \/ ~Expirable(p)
    /\ SetJob(p, "none")
    /\ UNCHANGED <<Elsewhere, skuVars, orderVars, couponQuantity, transactionOf,
                   soldCount, settlementVars>>

\* The worker reports completion: removeOnComplete.
CompleteJob(p) ==
    /\ cancelJob[p] = "committed"
    /\ SetJob(p, "none")
    /\ UNCHANGED <<Elsewhere, skuVars, orderVars, couponQuantity, transactionOf,
                   soldCount, settlementVars>>

\* A worker that dies or misses its lock renewal: BullMQ runs the job again,
\* also when its transaction had already committed.
StallJob(p) ==
    /\ Failures
    /\ cancelJob[p] \in {"active", "committed"}
    /\ SetJob(p, "delayed")
    /\ UNCHANGED <<Elsewhere, skuVars, orderVars, couponQuantity, transactionOf,
                   soldCount, settlementVars>>

-----------------------------------------------------------------------------
\* A seller removes a SKU or its product (soft delete).
DeleteSku(s) ==
    /\ s \in DeletableSkus \ deletedSkus
    /\ deletedSkus' = deletedSkus \cup {s}
    /\ Touch({s})
    /\ UNCHANGED <<Elsewhere, stock, orderVars, couponQuantity, transactionOf,
                   soldCount, cancelJob, settlementVars>>

CancelStep(c) == ReadOrder(c) \/ CommitCancel(c) \/ AbortCancel(c)

IpnStep(d) ==
    \/ FindTransaction(d)
    \/ CommitPayment(d)
    \/ AbortPayment(d)
    \/ RemoveJob(d)
    \/ RemoveJobFails(d)

JobStep(p) ==
    \/ StartJob(p)
    \/ CommitJob(p)
    \/ FailJob(p)
    \/ CompleteJob(p)
    \/ StallJob(p)

SettlementNext ==
    \/ \E c \in Cancels : CancelStep(c)
    \/ \E d \in Deliveries : IpnStep(d)
    \/ \E p \in Payments : JobStep(p)
    \/ \E s \in Skus : DeleteSku(s)

=============================================================================
