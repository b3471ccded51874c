------------------------------ MODULE Launchpad ------------------------------
(***************************************************************************)
(* The life of a launchpad: sellers create, edit, submit and publish it,    *)
(* admins approve or reject it, a cron job detects those past their endTime *)
(* and enqueues a job that ends them (ManageLaunchpadService,               *)
(* LaunchpadRepository, LaunchpadExpireCronjob, LaunchpadConsumer).         *)
(*                                                                          *)
(* Every handler reads the launchpad, compares its status and then updates  *)
(* the row by id: the read and the write are separate steps and the write   *)
(* asks only for deletedAt: null.                                           *)
(***************************************************************************)
EXTENDS Naturals, FiniteSets

CONSTANTS
    Launchpads,      \* launchpads the requests may create
    ProductOf,       \* launchpad -> its product (which has one seller)
    Requests,        \* requests of sellers and admins
    OpOf, TargetOf,  \* request -> its handler, its launchpad
    Initial,         \* the terms a launchpad is created with
    Attempts,        \* attempts of an expire job
    KeepCompleted,   \* removeOnComplete: { count }
    KeepFailed,      \* removeOnFail: { count }
    FailureBudget,   \* bound: how often an attempt of a job may fail
    StallBudget      \* bound: how often a worker may lose a job it has begun

Ops == {"create", "update", "delete", "submit", "publish", "approve", "reject"}

ASSUME LaunchpadAssumption ==
    /\ OpOf \in [Requests -> Ops]
    /\ TargetOf \in [Requests -> Launchpads]
    /\ Initial \notin Requests
    /\ Attempts \in Nat \ {0}
    /\ KeepCompleted \in Nat
    /\ KeepFailed \in Nat
    /\ FailureBudget \in Nat
    /\ StallBudget \in Nat

VARIABLES
    status,       \* Launchpad.status, "none" before create
    deleted,      \* launchpads with deletedAt set
    endTime,      \* null, in the future or past
    terms,        \* discountRate, duration, limit: the update that set them
    requestPc,    \* where a request is
    detected,     \* launchpads the cron job has found and not enqueued yet
    expireJob,    \* BullMQ expire-<id>
    attempts,     \* attempts the job has used up
    stalled,      \* launchpads whose job was lost by its worker once
    failuresLeft,
    stallsLeft

rowVars == <<status, deleted, endTime, terms>>

jobVars == <<detected, expireJob, attempts, stalled, failuresLeft, stallsLeft>>

launchpadVars == <<status, deleted, endTime, terms, requestPc, detected,
                   expireJob, attempts, stalled, failuresLeft, stallsLeft>>

\* Mutant of Status: the enum lacks a status the handlers write.
StatusWithoutRejected == {"DRAFT", "PENDING", "APPROVED", "LIVE", "ENDED"}

Status == {"DRAFT", "PENDING", "APPROVED", "REJECTED", "LIVE", "ENDED"}

\* Every row, request and job has one of the values the code gives it, and no
\* job uses more attempts than it has.
TypeOK ==
    /\ status \in [Launchpads -> Status \cup {"none"}]
    /\ deleted \in SUBSET Launchpads
    /\ endTime \in [Launchpads -> {"null", "future", "past"}]
    /\ terms \in [Launchpads -> Requests \cup {Initial}]
    /\ requestPc \in [Requests -> {"start", "read", "checked", "written", "failed"}]
    /\ detected \in SUBSET Launchpads
    /\ expireJob \in [Launchpads ->
            {"none", "waiting", "ending", "done", "completed", "failed"}]
    /\ attempts \in [Launchpads -> 0..Attempts]
    /\ stalled \in SUBSET Launchpads
    /\ failuresLeft \in Nat
    /\ stallsLeft \in Nat

Init ==
    /\ status = [l \in Launchpads |-> "none"]
    /\ deleted = {}
    /\ endTime = [l \in Launchpads |-> "null"]
    /\ terms = [l \in Launchpads |-> Initial]
    /\ requestPc = [r \in Requests |-> "start"]
    /\ detected = {}
    /\ expireJob = [l \in Launchpads |-> "none"]
    /\ attempts = [l \in Launchpads |-> 0]
    /\ stalled = {}
    /\ failuresLeft = FailureBudget
    /\ stallsLeft = StallBudget

-----------------------------------------------------------------------------
\* The statuses in which a handler goes on.
Admits(op) ==
    CASE op \in {"update", "delete", "submit"} -> {"DRAFT", "REJECTED"}
      [] op \in {"approve", "reject"} -> {"PENDING"}
      [] op = "publish" -> {"APPROVED"}
      [] op = "create" -> {}

InFlight(r) == requestPc[r] \in {"read", "checked"}

Finish(r, label) == requestPc' = [requestPc EXCEPT ![r] = label]

Create(r) ==
    LET l == TargetOf[r]
    IN  /\ OpOf[r] = "create"
        /\ requestPc[r] = "start"
        /\ status[l] = "none"
        /\ status' = [status EXCEPT ![l] = "DRAFT"]
        /\ Finish(r, "written")
        /\ UNCHANGED <<deleted, endTime, terms, jobVars>>

\* Mutant of FindByIdManage: the handler does not compare the status.
FindAnyStatus(r) ==
    /\ OpOf[r] # "create"
    /\ requestPc[r] = "start"
    /\ Finish(r, IF TargetOf[r] \notin deleted /\ status[TargetOf[r]] # "none"
                 THEN "read" ELSE "failed")
    /\ UNCHANGED <<rowVars, jobVars>>

\* The read and the checks every other handler begins with.
FindByIdManage(r) ==
    /\ OpOf[r] # "create"
    /\ requestPc[r] = "start"
    /\ Finish(r, IF /\ TargetOf[r] \notin deleted
                    /\ status[TargetOf[r]] \in Admits(OpOf[r])
                 THEN "read" ELSE "failed")
    /\ UNCHANGED <<rowVars, jobVars>>

\* publish counts the LIVE launchpads of the product; endTime is not looked at.
HasActiveLaunchpad(r) ==
    /\ OpOf[r] = "publish"
    /\ requestPc[r] = "read"
    /\ Finish(r, IF \E l \in Launchpads \ deleted :
                        /\ ProductOf[l] = ProductOf[TargetOf[r]]
                        /\ status[l] = "LIVE"
                 THEN "failed" ELSE "checked")
    /\ UNCHANGED <<rowVars, jobVars>>

\* Mutant of NotDeleted: the where clause of the updates lacks deletedAt.
EvenDeleted(r) == status[TargetOf[r]] # "none"

\* where: { id, deletedAt: null }
NotDeleted(r) == TargetOf[r] \notin deleted

SetStatus(r, op, pc, new) ==
    /\ OpOf[r] = op
    /\ requestPc[r] = pc
    /\ NotDeleted(r)
    /\ status' = [status EXCEPT ![TargetOf[r]] = new]
    /\ Finish(r, "written")
    /\ UNCHANGED <<deleted, terms, jobVars>>

Submit(r) == SetStatus(r, "submit", "read", "PENDING") /\ UNCHANGED endTime

Approve(r) == SetStatus(r, "approve", "read", "APPROVED") /\ UNCHANGED endTime

Reject(r) == SetStatus(r, "reject", "read", "REJECTED") /\ UNCHANGED endTime

Publish(r) ==
    /\ SetStatus(r, "publish", "checked", "LIVE")
    /\ endTime' = [endTime EXCEPT ![TargetOf[r]] = "future"]

Update(r) ==
    /\ OpOf[r] = "update"
    /\ requestPc[r] = "read"
    /\ NotDeleted(r)
    /\ terms' = [terms EXCEPT ![TargetOf[r]] = r]
    /\ Finish(r, "written")
    /\ UNCHANGED <<status, deleted, endTime, jobVars>>

SoftDelete(r) ==
    /\ OpOf[r] = "delete"
    /\ requestPc[r] = "read"
    /\ deleted' = deleted \cup {TargetOf[r]}
    /\ Finish(r, "written")
    /\ UNCHANGED <<status, endTime, terms, jobVars>>

\* P2025 for a deleted row, an invalid discountRate, a database error.
Abort(r) ==
    /\ InFlight(r)
    /\ Finish(r, "failed")
    /\ UNCHANGED <<rowVars, jobVars>>

RequestStep(r) ==
    \/ Create(r)
    \/ FindByIdManage(r)
    \/ HasActiveLaunchpad(r)
    \/ Submit(r)
    \/ Approve(r)
    \/ Reject(r)
    \/ Publish(r)
    \/ Update(r)
    \/ SoftDelete(r)
    \/ Abort(r)

-----------------------------------------------------------------------------
\* The endTime of a launchpad passes.  A launchpad runs for an hour at least
\* and a transaction for five seconds at most, so no handler is between its
\* read and its write of the launchpad when that happens.
Elapse(l) ==
    /\ endTime[l] = "future"
    /\ \A r \in Requests : TargetOf[r] = l => ~InFlight(r)
    /\ endTime' = [endTime EXCEPT ![l] = "past"]
    /\ UNCHANGED <<status, deleted, terms, requestPc, jobVars>>

\* Mutant of ExpiredLive: the cron job does not compare endTime.
AnyLive == {l \in Launchpads \ deleted : status[l] = "LIVE"}

\* findExpiredLive
ExpiredLive ==
    {l \in Launchpads \ deleted : status[l] = "LIVE" /\ endTime[l] = "past"}

DetectExpiredLaunchpads ==
    /\ detected = {}
    /\ ExpiredLive # {}
    /\ detected' = ExpiredLive
    /\ UNCHANGED <<rowVars, requestPc, expireJob, attempts, stalled, failuresLeft,
                   stallsLeft>>

\* addBulk: BullMQ ignores a job whose id it still knows, in whatever state.
AddBulk ==
    LET new == {l \in detected : expireJob[l] = "none"}
    IN  /\ detected # {}
        /\ expireJob' = [l \in Launchpads |-> IF l \in new THEN "waiting" ELSE expireJob[l]]
        /\ attempts' = [l \in Launchpads |-> IF l \in new THEN 0 ELSE attempts[l]]
        /\ stalled' = stalled \ new
        /\ detected' = {}
        /\ UNCHANGED <<rowVars, requestPc, failuresLeft, stallsLeft>>

SetJob(l, state) == expireJob' = [expireJob EXCEPT ![l] = state]

\* Mutant of FindLaunchpadById: the comparison of the status the other way round.
SkipLive(l) ==
    /\ expireJob[l] = "waiting"
    /\ SetJob(l, IF l \in deleted \/ status[l] = "LIVE" THEN "done" ELSE "ending")
    /\ UNCHANGED <<rowVars, requestPc, detected, attempts, stalled, failuresLeft,
                   stallsLeft>>

\* processExpired: the read and the check.  A launchpad that is not LIVE any more
\* is skipped.
FindLaunchpadById(l) ==
    /\ expireJob[l] = "waiting"
    /\ SetJob(l, IF l \in deleted \/ status[l] # "LIVE" THEN "done" ELSE "ending")
    /\ UNCHANGED <<rowVars, requestPc, detected, attempts, stalled, failuresLeft,
                   stallsLeft>>

\* processExpired: the write.
ProcessExpired(l) ==
    /\ expireJob[l] = "ending"
    /\ l \notin deleted
    /\ status' = [status EXCEPT ![l] = "ENDED"]
    /\ SetJob(l, "done")
    /\ UNCHANGED <<deleted, endTime, terms, requestPc, detected, attempts, stalled,
                   failuresLeft, stallsLeft>>

\* process() has returned and the worker tells BullMQ.
CompleteJob(l) ==
    /\ expireJob[l] = "done"
    /\ SetJob(l, "completed")
    /\ UNCHANGED <<rowVars, requestPc, detected, attempts, stalled, failuresLeft,
                   stallsLeft>>

\* Mutant of OutOfAttempts: a job gets one attempt less.
OutOfAttemptsEarly(l) == attempts[l] + 2 >= Attempts

OutOfAttempts(l) == attempts[l] + 1 >= Attempts

\* An attempt throws: it is retried after a backoff, or the job has failed.
FailAttempt(l) ==
    /\ expireJob[l] \in {"waiting", "ending"}
    /\ failuresLeft > 0
    /\ failuresLeft' = failuresLeft - 1
    /\ attempts' = [attempts EXCEPT ![l] = @ + 1]
    /\ SetJob(l, IF OutOfAttempts(l) THEN "failed" ELSE "waiting")
    /\ UNCHANGED <<rowVars, requestPc, detected, stalled, stallsLeft>>

\* The worker dies or loses its lock on the job, before the write or after it:
\* BullMQ runs the job again without counting an attempt, and fails it the
\* second time (maxStalledCount is 1).
StallJob(l) ==
    /\ expireJob[l] \in {"ending", "done"}
    /\ stallsLeft > 0
    /\ stallsLeft' = stallsLeft - 1
    /\ stalled' = stalled \cup {l}
    /\ SetJob(l, IF l \in stalled THEN "failed" ELSE "waiting")
    /\ UNCHANGED <<rowVars, requestPc, detected, attempts, failuresLeft>>

InState(state) == {l \in Launchpads : expireJob[l] = state}

Kept(state) == IF state = "completed" THEN KeepCompleted ELSE KeepFailed

\* BullMQ forgets finished jobs beyond the number it is told to keep.
ForgetJob(l) ==
    /\ expireJob[l] \in {"completed", "failed"}
    /\ Cardinality(InState(expireJob[l])) > Kept(expireJob[l])
    /\ SetJob(l, "none")
    /\ UNCHANGED <<rowVars, requestPc, detected, attempts, stalled, failuresLeft,
                   stallsLeft>>

ExpiryStep(l) ==
    \/ FindLaunchpadById(l)
    \/ ProcessExpired(l)
    \/ CompleteJob(l)
    \/ FailAttempt(l)
    \/ StallJob(l)

CronStep == DetectExpiredLaunchpads \/ AddBulk

Next ==
    \/ \E r \in Requests : RequestStep(r)
    \/ \E l \in Launchpads : Elapse(l) \/ ExpiryStep(l) \/ ForgetJob(l)
    \/ CronStep

Spec == Init /\ [][Next]_launchpadVars

\* The cron job runs every two minutes and a worker takes the jobs it finds.
Fairness ==
    /\ WF_launchpadVars(CronStep)
    /\ \A l \in Launchpads : WF_launchpadVars(ExpiryStep(l))

FairSpec == Spec /\ Fairness

-----------------------------------------------------------------------------
\* A launchpad is ended by the job only once its endTime has passed, although
\* the job ends it without looking at endTime and long after the cron job did.
EndedOnlyAfterEndTime ==
    \A l \in Launchpads : status[l] = "ENDED" => endTime[l] = "past"

Approved(l) ==
    \E r \in Requests :
        TargetOf[r] = l /\ OpOf[r] = "approve" /\ requestPc[r] = "written"

\* A launchpad on sale, or that was, has been approved by an admin, whatever
\* handlers overlap.
LiveOnlyIfApproved ==
    \A l \in Launchpads : status[l] \in {"APPROVED", "LIVE", "ENDED"} => Approved(l)

\* A deleted launchpad stays as it was: a handler that had read it before the
\* deletion finds no row to update.
FrozenOnceDeleted ==
    [][\A l \in deleted : status'[l] = status[l] /\ terms'[l] = terms[l]]_launchpadVars

\* An expire job that BullMQ keeps as completed, and whose jobId is refused from
\* then on, has done its work: the launchpad is ENDED for good, or deleted.
CompletedJobEnded ==
    \A l \in Launchpads \ deleted : expireJob[l] = "completed" => status[l] = "ENDED"

\* A launchpad past its endTime is ended although attempts of the job fail and a
\* worker dies over it, as long as fewer fail than a job has and it dies once.
ExpiredLaunchpadEnds ==
    \A l \in Launchpads :
        (status[l] = "LIVE" /\ endTime[l] = "past" /\ l \notin deleted)
            ~> status[l] = "ENDED"

-----------------------------------------------------------------------------
(***************************************************************************)
(* What makes the safety properties inductive.                              *)
(***************************************************************************)
Quiet(l) == \A r \in Requests : TargetOf[r] = l => ~InFlight(r)

Expired(l) == endTime[l] = "past" /\ status[l] \in {"LIVE", "ENDED"}

\* Nothing is under way on a launchpad past its endTime, and no handler admits
\* it any more: it stays there until the job ends it.
ExpiredIsQuiet == \A l \in Launchpads : Expired(l) => Quiet(l)

\* Only such launchpads are found by the cron job or have a job.
JobsOnlyForExpired ==
    \A l \in Launchpads : (l \in detected \/ expireJob[l] # "none") => Expired(l)

\* A publish under way has read an approved launchpad.
PublishIsApproved ==
    \A r \in Requests : (OpOf[r] = "publish" /\ InFlight(r)) => Approved(TargetOf[r])

\* A request under way is on a row, and so was a deletion.
OnRows ==
    /\ \A r \in Requests : InFlight(r) => status[TargetOf[r]] # "none"
    /\ \A l \in deleted : status[l] # "none"

\* A job that is still to run has an attempt left.
JobsHaveAttempts ==
    \A l \in Launchpads :
        expireJob[l] \in {"waiting", "ending", "done"} => attempts[l] < Attempts

\* So has one whose handler has returned: it may run again, and then finds the
\* launchpad ENDED.
DoneJobEnded ==
    \A l \in Launchpads \ deleted : expireJob[l] = "done" => status[l] = "ENDED"

LaunchpadInv ==
    /\ TypeOK
    /\ JobsHaveAttempts
    /\ EndedOnlyAfterEndTime
    /\ LiveOnlyIfApproved
    /\ ExpiredIsQuiet
    /\ JobsOnlyForExpired
    /\ CompletedJobEnded
    /\ DoneJobEnded
    /\ PublishIsApproved
    /\ OnRows

=============================================================================
