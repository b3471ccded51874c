\* Products and coupons are edited under the checkouts that price them, orders cancelled, payments
\* made, orders delivered and reviewed; any request may be refused or die.
SPECIFICATION Spec
CHECK_DEADLOCK FALSE

CONSTANTS
    Products = {"p"}
    Values = {"x", "y"}
    ProductEdits = {"new", "grow", "shrink", "swap", "remove", "remove2"}
    Coupons = {"k", "l"}
    CouponEdits = {"half", "fix", "pull", "fixed", "bad", "one"}
    Checkouts = {"c1", "c2", "c3", "c4", "c5", "c6"}
    Cancels = {"x1", "x2"}
    Reviews = {"v1", "v2"}
    ReviewRequests = {"write", "again", "edit1", "edit2"}
    Absent = Absent
    Arrivals <- MCArrivals
    EditOp <- MCEditOp
    EditProduct <- MCEditProduct
    EditPrices <- MCEditPrices
    CouponOp <- MCCouponOp
    CouponOf <- MCCouponOf
    CouponBody <- MCCouponBody
    CancelOf <- MCCancelOf
    CheckoutBody <- MCCheckoutBody
    ReviewOp <- MCReviewOp
    ReviewOf <- MCReviewOf
    ReviewOrder <- MCReviewOrder
    ReviewProduct <- MCReviewProduct

INVARIANTS
    EveryVariantHasSku
    DiscountWithinSubtotal
    CouponNeverOverspent
    RefusedOnlyIfFractional
    MediaOfOneBody
PROPERTIES
    OrdersAtCurrentPrice
    NothingAddedToDeleted
