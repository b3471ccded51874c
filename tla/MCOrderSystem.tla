--------------------------- MODULE MCOrderSystem ---------------------------
(***************************************************************************)
(* Bounded instances of OrderSystem for TLC.                                *)
(***************************************************************************)
EXTENDS OrderSystem, TLC

(***************************************************************************)
(* The requests.  Alice checks out her cart {i1, i2} as two orders (c1),    *)
(* submits i1 again from another tab (c2); Bob checks out i3 (c3).  q1 and  *)
(* q2 are Alice's purchases from a launchpad.  A run takes a subset.        *)
(***************************************************************************)
MCUsers == {"alice", "bob"}

MCPaymentOf ==
    LET all == "o1" :> "c1" @@ "o2" :> "c1" @@ "o3" :> "c2" @@ "o4" :> "c3"
               @@ "o5" :> "q1" @@ "o6" :> "q2"
    IN  [o \in Orders |-> all[o]]

MCCartItemIdsOf ==
    LET all == "o1" :> {"i1"} @@ "o2" :> {"i2"} @@ "o3" :> {"i1"}
               @@ "o4" :> {"i3"} @@ "o5" :> {} @@ "o6" :> {}
    IN  [o \in Orders |-> all[o]]

MCCouponOf ==
    [o \in Orders |-> IF o \in {"o1", "o2", "o4"} THEN "k" ELSE NoCoupon]

MCLaunchpadOf ==
    [o \in Orders |-> IF o \in {"o5", "o6"} THEN "l" ELSE NoLaunchpad]

MCOwnerOf == [i \in CartItems |-> IF i = "i3" THEN "bob" ELSE "alice"]

MCBuyerOf == [p \in Checkouts |-> IF p = "c3" THEN "bob" ELSE "alice"]

MCInitialStock == [s \in Skus |-> IF s = "a" THEN 2 ELSE 1]

MCInitialQuantity == [k \in Coupons |-> 2]

MCInitialCart ==
    LET all == "i1" :> [skuId |-> "a", quantity |-> 1]
               @@ "i2" :> [skuId |-> "b", quantity |-> 1]
               @@ "i3" :> [skuId |-> "a", quantity |-> 2]
               @@ "i5" :> Absent
    IN  [i \in CartItems |-> all[i]]

MCUserOf == [p \in Purchases |-> "alice"]

MCSkuOf == [p \in Purchases |-> "a"]

MCMaxPurchases == [l \in Launchpads |-> 1]

MCCancelTarget ==
    LET all == "x1" :> "o1" @@ "x3" :> "o2" @@ "x5" :> "o3"
    IN  [c \in Cancels |-> all[c]]

\* d1 and d2 report one transfer twice, d3 a second transfer for the same
\* payment, d6 a transfer of the wrong amount.
MCTxnOf ==
    LET all == "d1" :> "t1" @@ "d2" :> "t1" @@ "d3" :> "t2" @@ "d4" :> "t3"
               @@ "d5" :> "t4" @@ "d6" :> "t5" @@ "d7" :> "t3" @@ "d8" :> "t6"
    IN  [d \in Deliveries |-> all[d]]

MCPaidFor ==
    LET all == "d1" :> "c1" @@ "d2" :> "c1" @@ "d3" :> "c1" @@ "d4" :> "q1"
               @@ "d5" :> "q2" @@ "d6" :> "c1" @@ "d7" :> "q1" @@ "d8" :> "c2"
    IN  [d \in Deliveries |-> all[d]]

MCAmountMatches == [d \in Deliveries |-> d # "d6"]

MCEditOf ==
    LET all == "e3" :> [op |-> "addToCart", item |-> "i5", skuId |-> "a", quantity |-> 1]
               @@ "e4" :> [op |-> "deleteCart", item |-> "i1", skuId |-> "a", quantity |-> 0]
               @@ "e6" :> [op |-> "updateCart", item |-> "i2", skuId |-> "c", quantity |-> 1]
               @@ "e7" :> [op |-> "updateCart", item |-> "i2", skuId |-> "a", quantity |-> 1]
    IN  [e \in Edits |-> all[e]]

=============================================================================
