\* A cancel and a transfer for the same order.
SPECIFICATION Spec
CHECK_DEADLOCK FALSE

CONSTANTS
    Skus = {"a", "b"}
    CartItems = {"i1", "i2"}
    Coupons = {"k"}
    Launchpads = {}
    Checkouts = {"c1"}
    Purchases = {}
    Orders = {"o1", "o2"}
    Txns = {"t1"}
    Cancels = {"x1"}
    Deliveries = {"d1"}
    DeletableSkus = {}
    Edits = {}
    Failures = FALSE
    LockMayExpire = FALSE
    PurchaseLockMayExpire = TRUE
    NoCoupon = NoCoupon
    NoLaunchpad = NoLaunchpad
    NoPayment = NoPayment
    Nobody = Nobody
    Absent = Absent
    Users <- MCUsers
    PaymentOf <- MCPaymentOf
    CartItemIdsOf <- MCCartItemIdsOf
    CouponOf <- MCCouponOf
    LaunchpadOf <- MCLaunchpadOf
    OwnerOf <- MCOwnerOf
    BuyerOf <- MCBuyerOf
    InitialStock <- MCInitialStock
    InitialQuantity <- MCInitialQuantity
    InitialCart <- MCInitialCart
    UserOf <- MCUserOf
    SkuOf <- MCSkuOf
    MaxPurchasesPerUser <- MCMaxPurchases
    CancelTarget <- MCCancelTarget
    TxnOf <- MCTxnOf
    PaidFor <- MCPaidFor
    AmountMatches <- MCAmountMatches
    EditOf <- MCEditOf

PROPERTIES
    CancelOnlyPending
