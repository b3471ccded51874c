\* A cart is checked out twice while its items are deleted and moved to other SKUs, an order
\* cancelled and a transfer made; locks outlive the transactions, nothing fails and no SKU is
\* deleted: every order settles.
SPECIFICATION FairSpec
CHECK_DEADLOCK FALSE

CONSTANTS
    Skus = {"a", "b", "c"}
    CartItems = {"i1", "i2"}
    Coupons = {"k"}
    Launchpads = {}
    Checkouts = {"c1", "c2"}
    Purchases = {}
    Orders = {"o1", "o2", "o3"}
    Txns = {"t6"}
    Cancels = {"x5"}
    Deliveries = {"d8"}
    DeletableSkus = {}
    Edits = {"e4", "e6", "e7"}
    Failures = FALSE
    LockMayExpire = FALSE
    PurchaseLockMayExpire = TRUE
    NoCoupon = NoCoupon
    NoLaunchpad = NoLaunchpad
    NoPayment = NoPayment
    Nobody = Nobody
    Absent = Absent
    Users <- MCUsers
    PaymentOf <- MCPaymentOf
    CartItemIdsOf <- MCCartItemIdsOf
    CouponOf <- MCCouponOf
    LaunchpadOf <- MCLaunchpadOf
    OwnerOf <- MCOwnerOf
    BuyerOf <- MCBuyerOf
    InitialStock <- MCInitialStock
    InitialQuantity <- MCInitialQuantity
    InitialCart <- MCInitialCart
    UserOf <- MCUserOf
    SkuOf <- MCSkuOf
    MaxPurchasesPerUser <- MCMaxPurchases
    CancelTarget <- MCCancelTarget
    TxnOf <- MCTxnOf
    PaidFor <- MCPaidFor
    AmountMatches <- MCAmountMatches
    EditOf <- MCEditOf

INVARIANTS
    NoSkuTwiceInPayment
    CartItemOrderedOnce
    UnlockedOnlyIfMoved
    PendingOrderWatched
PROPERTIES
    PendingOrderSettles
