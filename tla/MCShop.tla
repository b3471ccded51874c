------------------------------- MODULE MCShop -------------------------------
(***************************************************************************)
(* A bounded instance of Shop.  Product p has the values x and y; new lists *)
(* it with x, grow with x and y, shrink with x at another price, swap with  *)
(* y alone.                                                                 *)
(***************************************************************************)
EXTENDS Shop

\* Updates and deletions of one product overlap; prices and coupons are edited
\* under two checkouts, some with two orders and with the same coupons in the
\* opposite order; an order is cancelled twice at once, or under an edit of its
\* coupon; one order is reviewed and its review updated twice at once.
MCArrivals ==
    {{"new", "grow", "shrink", "swap"}, {"new", "grow", "swap", "remove"},
     {"new", "remove", "shrink", "remove2"},
     {"new", "shrink", "half", "c1", "c2"}, {"new", "half", "fix", "pull", "c1", "c2"},
     {"new", "half", "bad", "c1"}, {"new", "grow", "one", "c1", "c6"},
     {"new", "grow", "half", "fixed", "c4", "c5"}, {"new", "grow", "remove", "half", "c1", "c4"},
     {"new", "one", "c1", "c2", "x1", "x2"}, {"new", "half", "fix", "c1", "c2", "x1"},
     {"new", "c3", "write", "again", "edit1", "edit2"}}

MCEditOp == [r \in ProductEdits |->
    CASE r = "new" -> "create" [] r \in {"remove", "remove2"} -> "delete" [] OTHER -> "update"]

MCEditProduct == [r \in ProductEdits |-> "p"]

MCEditPrices == [r \in ProductEdits |-> [v \in Values |->
    CASE r = "new" -> IF v = "x" THEN 3 ELSE Absent
      [] r = "grow" -> 3
      [] r = "shrink" -> IF v = "x" THEN 4 ELSE Absent
      [] r = "swap" -> IF v = "y" THEN 3 ELSE Absent
      [] OTHER -> Absent]]

MCCouponOp == [e \in CouponEdits |->
    CASE e \in {"half", "one", "fixed"} -> "create" [] e \in {"fix", "bad"} -> "update" [] e = "pull" -> "delete"]

MCCouponOf == [e \in CouponEdits |-> IF e = "fixed" THEN "l" ELSE "k"]

\* half: 50 percent off, so that an odd price is asked for with a fraction; fix and
\* fixed: an amount off; bad: more off than the least amount of an order, which the
\* schema refuses.
MCCouponBody == [e \in CouponEdits |->
    CASE e \in {"half", "one", "pull"} ->
            [discountType |-> "PERCENTAGE", discount |-> 50, minOrderAmount |-> 3,
             quantity |-> IF e = "one" THEN 1 ELSE 2, status |-> "ACTIVE", dates |-> "early"]
      [] e = "fix" ->
            [discountType |-> "FIXED_AMOUNT", discount |-> 3, minOrderAmount |-> 4,
             quantity |-> 1, status |-> "ACTIVE", dates |-> "open"]
      [] e = "bad" ->
            [discountType |-> "FIXED_AMOUNT", discount |-> 4, minOrderAmount |-> 3,
             quantity |-> 1, status |-> "ACTIVE", dates |-> "open"]
      [] e = "fixed" ->
            [discountType |-> "FIXED_AMOUNT", discount |-> 3, minOrderAmount |-> 3,
             quantity |-> 1, status |-> "ACTIVE", dates |-> "open"]]

Order(s, n, k) == [sku |-> s, quantity |-> n, coupon |-> k]

MCCheckoutBody ==
    LET x == <<"new", "x">>
        y == <<"grow", "y">>
    IN  [c \in Checkouts |->
            CASE c = "c1" -> <<Order(x, 1, "k")>>
              [] c = "c2" -> <<Order(x, 2, "k")>>
              [] c = "c3" -> <<Order(x, 1, Absent)>>
              [] c = "c4" -> <<Order(x, 1, "k"), Order(y, 1, "l")>>
              [] c = "c5" -> <<Order(y, 1, "l"), Order(x, 2, "k")>>
              [] c = "c6" -> <<Order(y, 2, "k")>>]

MCCancelOf == [x \in Cancels |-> <<"c2", 1>>]

MCReviewOp == [q \in ReviewRequests |->
    IF q \in {"write", "again"} THEN "create" ELSE "update"]

MCReviewOf == [q \in ReviewRequests |-> IF q = "again" THEN "v2" ELSE "v1"]

MCReviewOrder == [q \in ReviewRequests |-> <<"c3", 1>>]

MCReviewProduct == [q \in ReviewRequests |-> "p"]

=============================================================================
