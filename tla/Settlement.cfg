\* A payment of two orders meets two cancels, two transfers, one of them of the wrong
\* amount or delivered twice, the expiry job and a deleted SKU, with failures; the cart is
\* added to while it is checked out.
SPECIFICATION Spec
CHECK_DEADLOCK FALSE

CONSTANTS
    Skus = {"a", "b"}
    CartItems = {"i1", "i2", "i5"}
    Coupons = {"k"}
    Launchpads = {}
    Checkouts = {"c1"}
    Purchases = {}
    Orders = {"o1", "o2"}
    Txns = {"t1", "t2", "t5"}
    Cancels = {"x1", "x3"}
    Deliveries = {"d1", "d3", "d6"}
    DeletableSkus = {"b"}
    Edits = {"e3"}
    Failures = TRUE
    LockMayExpire = FALSE
    PurchaseLockMayExpire = FALSE
    NoCoupon = NoCoupon
    NoLaunchpad = NoLaunchpad
    NoPayment = NoPayment
    Nobody = Nobody
    Absent = Absent
    Users <- MCUsers
    PaymentOf <- MCPaymentOf
    CartItemIdsOf <- MCCartItemIdsOf
    CouponOf <- MCCouponOf
    LaunchpadOf <- MCLaunchpadOf
    OwnerOf <- MCOwnerOf
    BuyerOf <- MCBuyerOf
    InitialStock <- MCInitialStock
    InitialQuantity <- MCInitialQuantity
    InitialCart <- MCInitialCart
    UserOf <- MCUserOf
    SkuOf <- MCSkuOf
    MaxPurchasesPerUser <- MCMaxPurchases
    CancelTarget <- MCCancelTarget
    TxnOf <- MCTxnOf
    PaidFor <- MCPaidFor
    AmountMatches <- MCAmountMatches
    EditOf <- MCEditOf

INVARIANTS
    PaymentOrderAgreement
    NoStockLost
PROPERTIES
    OnlyRacingCancelUndoesPayment
    StockInventedOnlyByRaces
    CouponUnitsAccounted
    ImplementsLifecycle
    JobLostOnlyByFailure
