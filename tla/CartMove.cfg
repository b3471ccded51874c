\* An item of the cart is moved to another SKU while the cart is checked out.
SPECIFICATION Spec
CHECK_DEADLOCK FALSE

CONSTANTS
    Skus = {"a", "b", "c"}
    CartItems = {"i1", "i2"}
    Coupons = {"k"}
    Launchpads = {}
    Checkouts = {"c1"}
    Purchases = {}
    Orders = {"o1", "o2"}
    Txns = {}
    Cancels = {}
    Deliveries = {}
    DeletableSkus = {}
    Edits = {"e6"}
    Failures = FALSE
    LockMayExpire = FALSE
    PurchaseLockMayExpire = TRUE
    NoCoupon = NoCoupon
    NoLaunchpad = NoLaunchpad
    NoPayment = NoPayment
    Nobody = Nobody
    Absent = Absent
    Users <- MCUsers
    PaymentOf <- MCPaymentOf
    CartItemIdsOf <- MCCartItemIdsOf
    CouponOf <- MCCouponOf
    LaunchpadOf <- MCLaunchpadOf
    OwnerOf <- MCOwnerOf
    BuyerOf <- MCBuyerOf
    InitialStock <- MCInitialStock
    InitialQuantity <- MCInitialQuantity
    InitialCart <- MCInitialCart
    UserOf <- MCUserOf
    SkuOf <- MCSkuOf
    MaxPurchasesPerUser <- MCMaxPurchases
    CancelTarget <- MCCancelTarget
    TxnOf <- MCTxnOf
    PaidFor <- MCPaidFor
    AmountMatches <- MCAmountMatches
    EditOf <- MCEditOf

INVARIANTS
    LocksCoverWantedSkus
