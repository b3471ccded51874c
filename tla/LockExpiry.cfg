\* As Checkout, asking whether the optimistic lock covers for an expired Redlock.
SPECIFICATION Spec
CHECK_DEADLOCK FALSE

CONSTANTS
    Skus = {"a", "b"}
    CartItems = {"i1", "i2"}
    Coupons = {"k"}
    Launchpads = {}
    Checkouts = {"c1", "c2"}
    Purchases = {}
    Orders = {"o1", "o2", "o3"}
    Txns = {}
    Cancels = {}
    Deliveries = {}
    DeletableSkus = {}
    Edits = {}
    Failures = FALSE
    LockMayExpire = TRUE
    PurchaseLockMayExpire = TRUE
    NoCoupon = NoCoupon
    NoLaunchpad = NoLaunchpad
    NoPayment = NoPayment
    Nobody = Nobody
    Absent = Absent
    Users <- MCUsers
    PaymentOf <- MCPaymentOf
    CartItemIdsOf <- MCCartItemIdsOf
    CouponOf <- MCCouponOf
    LaunchpadOf <- MCLaunchpadOf
    OwnerOf <- MCOwnerOf
    BuyerOf <- MCBuyerOf
    InitialStock <- MCInitialStock
    InitialQuantity <- MCInitialQuantity
    InitialCart <- MCInitialCart
    UserOf <- MCUserOf
    SkuOf <- MCSkuOf
    MaxPurchasesPerUser <- MCMaxPurchases
    CancelTarget <- MCCancelTarget
    TxnOf <- MCTxnOf
    PaidFor <- MCPaidFor
    AmountMatches <- MCAmountMatches
    EditOf <- MCEditOf

INVARIANTS
    CartItemOrderedOnce
