---------------------------- MODULE MCLaunchpad ----------------------------
(***************************************************************************)
(* Bounded instances of Launchpad for TLC: two launchpads of one product    *)
(* and a set of requests on them, of which a run takes a part.              *)
(***************************************************************************)
EXTENDS Launchpad, TLC

MCProductOf == [l \in Launchpads |-> "p"]

MCOpOf ==
    LET all == "create1" :> "create" @@ "update1" :> "update" @@ "delete1" :> "delete"
               @@ "submit1" :> "submit" @@ "approve1" :> "approve"
               @@ "reject1" :> "reject" @@ "publish1" :> "publish"
               @@ "create2" :> "create" @@ "submit2" :> "submit"
               @@ "approve2" :> "approve" @@ "publish2" :> "publish"
    IN  [r \in Requests |-> all[r]]

MCTargetOf ==
    [r \in Requests |->
        IF r \in {"create2", "submit2", "approve2", "publish2"} THEN "l2" ELSE "l1"]

=============================================================================
