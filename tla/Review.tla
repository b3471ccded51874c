------------------------------- MODULE Review -------------------------------
(***************************************************************************)
(* Reviews of delivered orders: ReviewRepository.  create and update check  *)
(* outside the transaction they write in.  A body's content and media are   *)
(* named by the request that brought them.                                  *)
(***************************************************************************)
EXTENDS Promotion

CONSTANTS
    Reviews,
    ReviewRequests,
    ReviewOp,        \* create or update
    ReviewOf,        \* the review updated, or the id the new one gets
    ReviewOrder,     \* the order in the body: a checkout and an index
    ReviewProduct    \* the product in the body

ASSUME ReviewAssumption ==
    /\ Absent \notin ReviewRequests
    /\ ReviewOp \in [ReviewRequests -> {"create", "update"}]
    /\ ReviewOf \in [ReviewRequests -> Reviews]
    /\ ReviewOrder \in [ReviewRequests -> Checkouts \X Nat]
    /\ ReviewProduct \in [ReviewRequests -> Products]

VARIABLES
    review,        \* review -> the request whose body it holds, Absent: no row
    updateCount,   \* Review.updateCount
    media,         \* ReviewMedia: the requests whose media the review has
    reviewAt,      \* request -> where its handler is
    oldMedia       \* request -> the media its deleteMany saw

reviewVars == <<review, updateCount, media, reviewAt, oldMedia>>

ReviewTypeOK ==
    /\ review \in [Reviews -> ReviewRequests \cup {Absent}]
    /\ updateCount \in [Reviews -> Nat]
    /\ media \in [Reviews -> SUBSET ReviewRequests]
    /\ reviewAt \in [ReviewRequests -> {"unsent", "start", "validated", "updated",
                                        "replaced", "done", "failed"}]
    /\ oldMedia \in [ReviewRequests -> SUBSET ReviewRequests]

ReviewInit(sent) ==
    /\ review = [v \in Reviews |-> Absent]
    /\ updateCount = [v \in Reviews |-> 0]
    /\ media = [v \in Reviews |-> {}]
    /\ reviewAt = [q \in ReviewRequests |-> IF q \in sent THEN "start" ELSE "unsent"]
    /\ oldMedia = [q \in ReviewRequests |-> {}]

ReviewGoes(q, label) == reviewAt' = [reviewAt EXCEPT ![q] = label]

\* _validateOrder: the order is the user's and DELIVERED.  Which products it has
\* is not looked at.
OrderDelivered(q) ==
    /\ ReviewOrder[q][1] \in delivered
    /\ ReviewOrder[q][2] \in DOMAIN CheckoutBody[ReviewOrder[q][1]]

\* The Promise.all of update; the reads of create.
Validate(q) ==
    /\ reviewAt[q] = "start"
    /\ OrderDelivered(q)
    /\ ReviewOp[q] = "update" =>
            review[ReviewOf[q]] # Absent /\ updateCount[ReviewOf[q]] < 1
    /\ ReviewGoes(q, "validated")
    /\ UNCHANGED <<review, updateCount, media, oldMedia>>

\* The requests whose transaction has updated a review and not ended.
Writing == {q \in ReviewRequests : reviewAt[q] \in {"updated", "replaced"}}

SamePair(q, r) == ReviewOrder[q] = ReviewOrder[r] /\ ReviewProduct[q] = ReviewProduct[r]

\* The unique index on (orderId, productId), over the other reviews as committed
\* and as transactions under way, for which PostgreSQL waits, have written them.
PairFree(q) ==
    /\ \A v \in Reviews \ {ReviewOf[q]} : review[v] # Absent => ~SamePair(q, review[v])
    /\ \A r \in Writing : ReviewOf[r] # ReviewOf[q] => ~SamePair(q, r)

InsertReview(q) ==
    /\ ReviewOp[q] = "create" /\ reviewAt[q] = "validated"
    /\ review[ReviewOf[q]] = Absent /\ PairFree(q)
    /\ review' = [review EXCEPT ![ReviewOf[q]] = q]
    /\ media' = [media EXCEPT ![ReviewOf[q]] = {q}]
    /\ ReviewGoes(q, "done")
    /\ UNCHANGED <<updateCount, oldMedia>>

\* Mutant of ReviewFree: the review is updated after its media, so its row is
\* not locked while they are replaced.
ReviewUnlocked(q) == TRUE

\* The update of the row comes first and waits for another transaction's.
ReviewFree(q) == \A r \in Writing : ReviewOf[r] # ReviewOf[q]

UpdateReview(q) ==
    /\ ReviewOp[q] = "update" /\ reviewAt[q] = "validated"
    /\ ReviewFree(q) /\ PairFree(q)
    /\ ReviewGoes(q, "updated")
    /\ UNCHANGED <<review, updateCount, media, oldMedia>>

\* deleteMany sees the media committed by then.
DeleteMedia(q) ==
    /\ reviewAt[q] = "updated"
    /\ oldMedia' = [oldMedia EXCEPT ![q] = media[ReviewOf[q]]]
    /\ ReviewGoes(q, "replaced")
    /\ UNCHANGED <<review, updateCount, media>>

\* createManyAndReturn and the commit.
CommitReview(q) ==
    LET v == ReviewOf[q] IN
    /\ reviewAt[q] = "replaced"
    /\ review' = [review EXCEPT ![v] = q]
    /\ updateCount' = [updateCount EXCEPT ![v] = @ + 1]
    /\ media' = [media EXCEPT ![v] = (@ \ oldMedia[q]) \cup {q}]
    /\ ReviewGoes(q, "done")
    /\ UNCHANGED oldMedia

\* A refused request, or one that dies: its transaction is rolled back.
AbortReview(q) ==
    /\ reviewAt[q] \in {"start", "validated", "updated", "replaced"}
    /\ ReviewGoes(q, "failed")
    /\ UNCHANGED <<review, updateCount, media, oldMedia>>

ReviewStep(q) ==
    \/ Validate(q) \/ InsertReview(q) \/ UpdateReview(q) \/ DeleteMedia(q)
    \/ CommitReview(q) \/ AbortReview(q)

\* A review shows the media of the body it holds and of no other, although
\* overlapping updates replace them one by one.
MediaOfOneBody ==
    \A v \in Reviews : media[v] = IF review[v] = Absent THEN {} ELSE {review[v]}

\* One transaction at a time writes a review that exists, and the media it found are
\* still the review's.
WritersInv ==
    /\ \A q \in ReviewRequests :
            (reviewAt[q] = "validated" /\ ReviewOp[q] = "update") \/ q \in Writing
                => review[ReviewOf[q]] # Absent
    /\ \A q, r \in Writing : ReviewOf[q] = ReviewOf[r] => q = r
    /\ \A q \in ReviewRequests :
            reviewAt[q] = "replaced" => oldMedia[q] = media[ReviewOf[q]]

=============================================================================
