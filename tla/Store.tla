------------------------------- MODULE Store -------------------------------
(***************************************************************************)
(* The state the request handlers of the shop share: the PostgreSQL tables  *)
(* an order touches, the Redlock keys of the SKUs and the BullMQ queue of   *)
(* cancel-payment jobs.                                                     *)
(*                                                                          *)
(* Transactions.  The database runs at READ COMMITTED.  A row a transaction *)
(* has written stays locked until it ends, so its conditional writes can be *)
(* moved to its commit; its plain SELECTs cannot.  Every handler is hence   *)
(* modelled as one step per SELECT whose result it uses later, and one step *)
(* for all its writes together with the commit.                             *)
(*                                                                          *)
(* Identity.  A request body is fixed when it is sent, so requests and the  *)
(* rows they would insert are constants: checkout p inserts payment p and   *)
(* the orders o with PaymentOf[o] = p.  A row not inserted yet is "none".   *)
(***************************************************************************)
EXTENDS Integers, FiniteSets

CONSTANTS
    Skus, CartItems, Users, Coupons, Launchpads,
    Checkouts,       \* POST /orders requests
    Purchases,       \* POST /launchpads/:id/purchase requests
    Orders,          \* the orders those requests would insert
    Txns,            \* ids of the gateways' transactions
    PaymentOf,       \* order -> the payment (request) it belongs to
    CartItemIdsOf,   \* order -> the cartItemIds its body lists
    CouponOf,        \* order -> its couponId, or NoCoupon
    LaunchpadOf,     \* order -> its launchpadId, or NoLaunchpad
    OwnerOf,         \* cart item -> userId
    InitialStock, InitialQuantity, InitialCart,
    NoCoupon, NoLaunchpad, NoPayment, Nobody, Absent,
    Failures         \* may a request die, or lose Redis, between two steps?

Payments == Checkouts \cup Purchases

CartRow == [skuId : Skus, quantity : Nat]

\* PENDING_DELIVERY, DELIVERED and RETURNED are never written by the code.
OrderStatus == {"PENDING_PAYMENT", "PENDING_PICKUP", "CANCELLED"}

PaymentStatus == {"PENDING", "SUCCESS", "FAILED"}

ASSUME RequestsAssumption ==
    /\ Checkouts \cap Purchases = {}
    /\ NoPayment \notin Payments
    /\ Nobody \notin Payments
    /\ Absent \notin CartRow
    /\ NoCoupon \notin Coupons
    /\ NoLaunchpad \notin Launchpads
    /\ Failures \in BOOLEAN

ASSUME BodiesAssumption ==
    /\ PaymentOf \in [Orders -> Payments]
    /\ CartItemIdsOf \in [Orders -> SUBSET CartItems]
    /\ CouponOf \in [Orders -> Coupons \cup {NoCoupon}]
    /\ LaunchpadOf \in [Orders -> Launchpads \cup {NoLaunchpad}]
    /\ OwnerOf \in [CartItems -> Users]

\* @@unique([userId, skuId]) of the CartItem table.
UniqueInCart(rows) ==
    \A i, j \in CartItems :
        /\ OwnerOf[i] = OwnerOf[j]
        /\ rows[i] # Absent /\ rows[j] # Absent
        /\ rows[i].skuId = rows[j].skuId
        => i = j

ASSUME InitialAssumption ==
    /\ InitialStock \in [Skus -> Nat]
    /\ InitialQuantity \in [Coupons -> Nat]
    /\ InitialCart \in [CartItems -> CartRow \cup {Absent}]
    /\ UniqueInCart(InitialCart)

VARIABLES
    stock,           \* SKU.stock
    updatedAt,       \* SKU.updatedAt: the version the optimistic lock compares
    deletedSkus,     \* SKUs with deletedAt set
    cartItem,        \* CartItem rows
    couponQuantity,  \* Coupon.quantity
    paymentStatus,   \* Payment.status
    orderStatus,     \* Order.status
    orderItems,      \* ProductSKUSnapshot: the lines of an order
    transactionOf,   \* PaymentTransaction: id -> the payment it names
    soldCount,       \* Launchpad.soldCount
    lock,            \* Redlock lock:sku:<id>: its holder
    cancelJob        \* BullMQ cancel-payment-<id>

skuVars == <<stock, updatedAt, deletedSkus>>

orderVars == <<paymentStatus, orderStatus, orderItems>>

storeVars == <<stock, updatedAt, deletedSkus, cartItem, couponQuantity,
               paymentStatus, orderStatus, orderItems, transactionOf,
               soldCount, lock, cancelJob>>

StoreTypeOK ==
    /\ stock \in [Skus -> Nat]
    /\ updatedAt \in [Skus -> Nat]
    /\ deletedSkus \in SUBSET Skus
    /\ cartItem \in [CartItems -> CartRow \cup {Absent}]
    /\ couponQuantity \in [Coupons -> Nat]
    /\ paymentStatus \in [Payments -> PaymentStatus \cup {"none"}]
    /\ orderStatus \in [Orders -> OrderStatus \cup {"none"}]
    /\ orderItems \in [Orders -> SUBSET CartRow]
    /\ transactionOf \in [Txns -> Payments \cup {NoPayment}]
    /\ soldCount \in [Launchpads -> Nat]
    /\ lock \in [Skus -> Payments \cup {Nobody}]
    /\ cancelJob \in [Payments -> {"none", "delayed", "active", "committed"}]

StoreInit ==
    /\ stock = InitialStock
    /\ updatedAt = [s \in Skus |-> 0]
    /\ deletedSkus = {}
    /\ cartItem = InitialCart
    /\ couponQuantity = InitialQuantity
    /\ paymentStatus = [p \in Payments |-> "none"]
    /\ orderStatus = [o \in Orders |-> "none"]
    /\ orderItems = [o \in Orders |-> {}]
    /\ transactionOf = [t \in Txns |-> NoPayment]
    /\ soldCount = [l \in Launchpads |-> 0]
    /\ lock = [s \in Skus |-> Nobody]
    /\ cancelJob = [p \in Payments |-> "none"]

OrdersOf(p) == {o \in Orders : PaymentOf[o] = p}

ItemsOf(p) == UNION {CartItemIdsOf[o] : o \in OrdersOf(p)}

SkusIn(lines) == {l.skuId : l \in lines}

\* The quantity of SKU s in a set of lines.  CartItem is unique in
\* (userId, skuId) and a body lists a cart item once, so the lines of a
\* payment never name a SKU twice (NoSkuTwiceInPayment).
QuantityIn(lines, s) ==
    LET hits == {l \in lines : l.skuId = s}
    IN  IF hits = {} THEN 0 ELSE (CHOOSE l \in hits : TRUE).quantity

\* Mutant of LinesOf: only one order of the payment is looked at.
LinesOfOneOrder(p) == orderItems[CHOOSE o \in OrdersOf(p) : TRUE]

LinesOf(p) == UNION {orderItems[o] : o \in OrdersOf(p)}

\* SKU rows are stamped by Prisma's @updatedAt on every update.
Touch(S) ==
    updatedAt' = [s \in Skus |->
                    IF s \in S THEN updatedAt[s] + 1 ELSE updatedAt[s]]

\* stock: { decrement: quantity } for each line.
TakeStock(lines) ==
    /\ stock' = [s \in Skus |-> stock[s] - QuantityIn(lines, s)]
    /\ Touch(SkusIn(lines))
    /\ UNCHANGED deletedSkus

\* stock: { increment: quantity } for each line.
ReturnStock(lines) ==
    /\ stock' = [s \in Skus |-> stock[s] + QuantityIn(lines, s)]
    /\ Touch(SkusIn(lines))
    /\ UNCHANGED deletedSkus

\* Every update that returns stock asks for deletedAt: null; a soft-deleted
\* SKU makes it throw P2025, which rolls the whole transaction back.
Returnable(lines) == SkusIn(lines) \cap deletedSkus = {}

=============================================================================
