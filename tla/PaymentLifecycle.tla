-------------------------- MODULE PaymentLifecycle --------------------------
(***************************************************************************)
(* What the handlers together promise about a payment and its orders, with  *)
(* every handler a single step: a payment is placed once, with its orders;  *)
(* a transfer moves it and all its orders at once; the job expires it only  *)
(* while it is PENDING; and an order is cancelled only by a cancellation    *)
(* that was admitted while the order still waited for payment.  The gap     *)
(* between admitting a cancellation and carrying it out is part of the      *)
(* promise: cancelOrder does not look at the status again.                  *)
(***************************************************************************)
CONSTANTS Payments, Orders, PaymentOf

VARIABLES
    payment,      \* payment -> its status, or "none"
    order,        \* order -> its status, or "none"
    cancelling    \* orders with an admitted cancellation under way

lifecycleVars == <<payment, order, cancelling>>

LifecycleInit ==
    /\ payment = [p \in Payments |-> "none"]
    /\ order = [o \in Orders |-> "none"]
    /\ cancelling = {}

MoveAll(p, status) ==
    order' = [o \in Orders |-> IF PaymentOf[o] = p THEN status ELSE order[o]]

Place(p) ==
    /\ payment[p] = "none"
    /\ payment' = [payment EXCEPT ![p] = "PENDING"]
    /\ MoveAll(p, "PENDING_PAYMENT")
    /\ UNCHANGED cancelling

Pay(p) ==
    /\ payment[p] # "none"
    /\ payment' = [payment EXCEPT ![p] = "SUCCESS"]
    /\ MoveAll(p, "PENDING_PICKUP")
    /\ UNCHANGED cancelling

Expire(p) ==
    /\ payment[p] = "PENDING"
    /\ payment' = [payment EXCEPT ![p] = "FAILED"]
    /\ MoveAll(p, "CANCELLED")
    /\ UNCHANGED cancelling

AdmitCancel(o) ==
    /\ order[o] = "PENDING_PAYMENT"
    /\ cancelling' = cancelling \cup {o}
    /\ UNCHANGED <<payment, order>>

\* Two cancellations of one order may be under way, so the order may stay in
\* the set.
Cancel(o) ==
    /\ o \in cancelling
    /\ order' = [order EXCEPT ![o] = "CANCELLED"]
    /\ payment' = [payment EXCEPT ![PaymentOf[o]] = "FAILED"]
    /\ cancelling' \in {cancelling, cancelling \ {o}}

DropCancel(o) ==
    /\ o \in cancelling
    /\ cancelling' = cancelling \ {o}
    /\ UNCHANGED <<payment, order>>

LifecycleNext ==
    \/ \E p \in Payments : Place(p) \/ Pay(p) \/ Expire(p)
    \/ \E o \in Orders : AdmitCancel(o) \/ Cancel(o) \/ DropCancel(o)

LifecycleSpec == LifecycleInit /\ [][LifecycleNext]_lifecycleVars

=============================================================================
