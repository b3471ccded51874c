\* Alice and Bob check out their carts, racing a launchpad purchase for two SKUs and a coupon.
\* Locks run out under their holders, requests die, jobs expire the payments of the carts, the
\* transfer for the purchase is delivered twice.
SPECIFICATION Spec
CHECK_DEADLOCK FALSE

CONSTANTS
    Skus = {"a", "b"}
    CartItems = {"i1", "i2", "i3"}
    Coupons = {"k"}
    Launchpads = {"l"}
    Checkouts = {"c1", "c3"}
    Purchases = {"q1"}
    Orders = {"o1", "o2", "o4", "o5"}
    Txns = {"t3"}
    Cancels = {}
    Deliveries = {"d4", "d7"}
    DeletableSkus = {}
    Edits = {}
    Failures = TRUE
    LockMayExpire = TRUE
    PurchaseLockMayExpire = TRUE
    NoCoupon = NoCoupon
    NoLaunchpad = NoLaunchpad
    NoPayment = NoPayment
    Nobody = Nobody
    Absent = Absent
    Users <- MCUsers
    PaymentOf <- MCPaymentOf
    CartItemIdsOf <- MCCartItemIdsOf
    CouponOf <- MCCouponOf
    LaunchpadOf <- MCLaunchpadOf
    OwnerOf <- MCOwnerOf
    BuyerOf <- MCBuyerOf
    InitialStock <- MCInitialStock
    InitialQuantity <- MCInitialQuantity
    InitialCart <- MCInitialCart
    UserOf <- MCUserOf
    SkuOf <- MCSkuOf
    MaxPurchasesPerUser <- MCMaxPurchases
    CancelTarget <- MCCancelTarget
    TxnOf <- MCTxnOf
    PaidFor <- MCPaidFor
    AmountMatches <- MCAmountMatches
    EditOf <- MCEditOf

INVARIANTS
    TypeOK
    StockConserved
    CouponsSpentOncePerOrder
    SoldCountMatchesTransactions
