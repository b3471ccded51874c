\* Two purchases by one user of a launchpad limited to one.
SPECIFICATION Spec
CHECK_DEADLOCK FALSE

CONSTANTS
    Skus = {"a", "b"}
    CartItems = {}
    Coupons = {"k"}
    Launchpads = {"l"}
    Checkouts = {}
    Purchases = {"q1", "q2"}
    Orders = {"o5", "o6"}
    Txns = {"t3", "t4"}
    Cancels = {}
    Deliveries = {"d4", "d5"}
    DeletableSkus = {}
    Edits = {}
    Failures = FALSE
    LockMayExpire = TRUE
    PurchaseLockMayExpire = FALSE
    NoCoupon = NoCoupon
    NoLaunchpad = NoLaunchpad
    NoPayment = NoPayment
    Nobody = Nobody
    Absent = Absent
    Users <- MCUsers
    PaymentOf <- MCPaymentOf
    CartItemIdsOf <- MCCartItemIdsOf
    CouponOf <- MCCouponOf
    LaunchpadOf <- MCLaunchpadOf
    OwnerOf <- MCOwnerOf
    BuyerOf <- MCBuyerOf
    InitialStock <- MCInitialStock
    InitialQuantity <- MCInitialQuantity
    InitialCart <- MCInitialCart
    UserOf <- MCUserOf
    SkuOf <- MCSkuOf
    MaxPurchasesPerUser <- MCMaxPurchases
    CancelTarget <- MCCancelTarget
    TxnOf <- MCTxnOf
    PaidFor <- MCPaidFor
    AmountMatches <- MCAmountMatches
    EditOf <- MCEditOf

INVARIANTS
    PurchaseLimitRespected
