-------------------------- MODULE LaunchpadProofs --------------------------
(***************************************************************************)
(* The safety properties of Launchpad, for every set of launchpads and      *)
(* requests, every number of attempts and any failures.                     *)
(***************************************************************************)
EXTENDS Launchpad, TLAPS

\* The five shapes of a write on the row of a request's launchpad.
LEMMA StatusWrite ==
    ASSUME NEW r \in Requests, Submit(r) \/ Approve(r) \/ Reject(r) \/ Publish(r)
    PROVE  /\ InFlight(r)
           /\ NotDeleted(r)
           /\ \E new \in {"PENDING", "APPROVED", "REJECTED", "LIVE"} :
                status' = [status EXCEPT ![TargetOf[r]] = new]
           /\ requestPc' = [requestPc EXCEPT ![r] = "written"]
           /\ UNCHANGED <<deleted, terms, jobVars>>
  BY DEF Submit, Approve, Reject, Publish, SetStatus, Finish, InFlight

\* Type correctness and the attempts of jobs, step by step.
LEMMA TypeStep ==
    ASSUME TypeOK, JobsHaveAttempts, [Next]_launchpadVars
    PROVE  TypeOK' /\ JobsHaveAttempts'
<1> USE LaunchpadAssumption DEF TypeOK, JobsHaveAttempts, Status
<1>1. CASE UNCHANGED launchpadVars
  BY <1>1 DEF launchpadVars
<1>2. ASSUME NEW r \in Requests, RequestStep(r)
      PROVE  TypeOK' /\ JobsHaveAttempts'
  <2>1. CASE Create(r)
    BY <2>1 DEF Create, Finish, jobVars
  <2>2. CASE FindByIdManage(r)
    BY <2>2 DEF FindByIdManage, Finish, rowVars, jobVars
  <2>3. CASE HasActiveLaunchpad(r)
    BY <2>3 DEF HasActiveLaunchpad, Finish, rowVars, jobVars
  <2>4. CASE Submit(r)
    BY <2>4 DEF Submit, SetStatus, Finish, jobVars
  <2>5. CASE Approve(r)
    BY <2>5 DEF Approve, SetStatus, Finish, jobVars
  <2>6. CASE Reject(r)
    BY <2>6 DEF Reject, SetStatus, Finish, jobVars
  <2>7. CASE Publish(r)
    BY <2>7 DEF Publish, SetStatus, Finish, jobVars
  <2>8. CASE Update(r)
    BY <2>8 DEF Update, Finish, jobVars
  <2>9. CASE SoftDelete(r)
    BY <2>9 DEF SoftDelete, Finish, jobVars
  <2>10. CASE Abort(r)
    BY <2>10 DEF Abort, Finish, rowVars, jobVars
  <2> QED
    BY <1>2, <2>1, <2>2, <2>3, <2>4, <2>5, <2>6, <2>7, <2>8, <2>9, <2>10 DEF RequestStep
<1>3. ASSUME NEW l \in Launchpads, Elapse(l) \/ ExpiryStep(l) \/ ForgetJob(l)
      PROVE  TypeOK' /\ JobsHaveAttempts'
  <2>1. CASE Elapse(l)
    BY <2>1 DEF Elapse, jobVars
  <2>2. CASE FindLaunchpadById(l)
    BY <2>2 DEF FindLaunchpadById, SetJob, rowVars
  <2>3. CASE ProcessExpired(l)
    BY <2>3 DEF ProcessExpired, SetJob
  <2>4. CASE CompleteJob(l)
    BY <2>4 DEF CompleteJob, SetJob, rowVars
  <2>5. CASE FailAttempt(l)
    BY <2>5 DEF FailAttempt, SetJob, OutOfAttempts, rowVars
  <2>6. CASE StallJob(l)
    BY <2>6 DEF StallJob, SetJob, rowVars
  <2>7. CASE ForgetJob(l)
    BY <2>7 DEF ForgetJob, SetJob, rowVars
  <2> QED
    BY <1>3, <2>1, <2>2, <2>3, <2>4, <2>5, <2>6, <2>7 DEF ExpiryStep
<1>4. CASE DetectExpiredLaunchpads
  BY <1>4 DEF DetectExpiredLaunchpads, ExpiredLive, rowVars
<1>5. CASE AddBulk
  BY <1>5 DEF AddBulk, rowVars
<1> QED
  BY <1>1, <1>2, <1>3, <1>4, <1>5 DEF Next, CronStep

\* Requests under way and deletions are on rows: nothing turns a row back into
\* none, and the only step that takes a request under way has looked at the row.
LEMMA OnRowsStep ==
    ASSUME TypeOK, OnRows, [Next]_launchpadVars
    PROVE  OnRows'
<1> USE LaunchpadAssumption DEF TypeOK, OnRows, InFlight
<1>1. CASE UNCHANGED launchpadVars
  BY <1>1 DEF launchpadVars
<1>2. ASSUME NEW r \in Requests, RequestStep(r)
      PROVE  OnRows'
  <2>1. CASE Create(r)
    BY <2>1 DEF Create, Finish
  <2>2. CASE FindByIdManage(r)
    <3>1. \A op \in Ops : "none" \notin Admits(op)
      BY DEF Ops, Admits
    <3> QED
      BY <2>2, <3>1 DEF FindByIdManage, Finish, rowVars
  <2>3. CASE HasActiveLaunchpad(r)
    BY <2>3 DEF HasActiveLaunchpad, Finish, rowVars
  <2>4. CASE Submit(r) \/ Approve(r) \/ Reject(r) \/ Publish(r)
    BY <2>4, StatusWrite
  <2>5. CASE Update(r)
    BY <2>5 DEF Update, Finish
  <2>6. CASE SoftDelete(r)
    BY <2>6 DEF SoftDelete, Finish
  <2>7. CASE Abort(r)
    BY <2>7 DEF Abort, Finish, rowVars
  <2> QED
    BY <1>2, <2>1, <2>2, <2>3, <2>4, <2>5, <2>6, <2>7 DEF RequestStep
<1>3. ASSUME NEW l \in Launchpads, Elapse(l) \/ ExpiryStep(l) \/ ForgetJob(l)
      PROVE  OnRows'
  BY <1>3 DEF Elapse, ExpiryStep, FindLaunchpadById, ProcessExpired, CompleteJob,
              FailAttempt, StallJob, ForgetJob, rowVars
<1>4. CASE CronStep
  BY <1>4 DEF CronStep, DetectExpiredLaunchpads, AddBulk, rowVars
<1> QED
  BY <1>1, <1>2, <1>3, <1>4 DEF Next

\* Approval: a publish under way keeps what it read true, because an approval
\* once written is never taken back.
LEMMA ApprovalStep ==
    ASSUME TypeOK, LiveOnlyIfApproved, PublishIsApproved, JobsOnlyForExpired,
           [Next]_launchpadVars
    PROVE  LiveOnlyIfApproved' /\ PublishIsApproved'
<1> USE LaunchpadAssumption DEF TypeOK
<1>1. CASE UNCHANGED launchpadVars
  BY <1>1 DEF launchpadVars, LiveOnlyIfApproved, PublishIsApproved, Approved, InFlight
<1>2. ASSUME NEW r \in Requests, RequestStep(r)
      PROVE  LiveOnlyIfApproved' /\ PublishIsApproved'
  <2>1. \E label : requestPc' = [requestPc EXCEPT ![r] = label]
    BY <1>2, StatusWrite DEF RequestStep, Create, FindByIdManage, HasActiveLaunchpad, Update,
                             SoftDelete, Abort, Finish
  <2>2. requestPc[r] # "written"
    BY <1>2, StatusWrite DEF RequestStep, Create, FindByIdManage, HasActiveLaunchpad, Update,
                             SoftDelete, Abort, InFlight
  <2>3. \A l \in Launchpads : Approved(l) => Approved(l)'
    BY <2>1, <2>2 DEF Approved
  <2>4. CASE Create(r)
    BY <2>3, <2>4 DEF Create, Finish, LiveOnlyIfApproved, PublishIsApproved, InFlight
  <2>5. CASE FindByIdManage(r)
    <3>1. Admits("publish") = {"APPROVED"}
      BY DEF Admits
    <3>2. OpOf[r] = "publish" /\ InFlight(r)' => Approved(TargetOf[r])
      BY <2>5, <3>1 DEF FindByIdManage, Finish, LiveOnlyIfApproved, InFlight
    <3>3. PublishIsApproved'
      BY <2>3, <2>5, <3>2 DEF FindByIdManage, Finish, PublishIsApproved, InFlight
    <3> QED
      BY <2>3, <2>5, <3>3 DEF FindByIdManage, rowVars, LiveOnlyIfApproved
  <2>6. CASE HasActiveLaunchpad(r)
    BY <2>3, <2>6 DEF HasActiveLaunchpad, Finish, rowVars, LiveOnlyIfApproved,
                      PublishIsApproved, InFlight
  <2>7. CASE Submit(r) \/ Reject(r)
    BY <2>3, <2>7 DEF Submit, Reject, SetStatus, Finish, LiveOnlyIfApproved,
                      PublishIsApproved, InFlight
  <2>8. CASE Approve(r)
    <3>1. Approved(TargetOf[r])'
      BY <2>8 DEF Approve, SetStatus, Finish, Approved
    <3> QED
      BY <2>3, <2>8, <3>1 DEF Approve, SetStatus, Finish, LiveOnlyIfApproved,
                              PublishIsApproved, InFlight
  <2>9. CASE Publish(r)
    <3>1. Approved(TargetOf[r])
      BY <2>9 DEF Publish, SetStatus, PublishIsApproved, InFlight
    <3> QED
      BY <2>3, <2>9, <3>1 DEF Publish, SetStatus, Finish, LiveOnlyIfApproved,
                              PublishIsApproved, InFlight
  <2>10. CASE Update(r) \/ SoftDelete(r) \/ Abort(r)
    BY <2>3, <2>10 DEF Update, SoftDelete, Abort, Finish, rowVars, LiveOnlyIfApproved,
                       PublishIsApproved, InFlight
  <2> QED
    BY <1>2, <2>4, <2>5, <2>6, <2>7, <2>8, <2>9, <2>10 DEF RequestStep
<1>3. ASSUME NEW l \in Launchpads, Elapse(l) \/ ExpiryStep(l) \/ ForgetJob(l)
      PROVE  LiveOnlyIfApproved' /\ PublishIsApproved'
  <2>1. requestPc' = requestPc
    BY <1>3 DEF Elapse, ExpiryStep, FindLaunchpadById, ProcessExpired, CompleteJob,
                FailAttempt, StallJob, ForgetJob
  <2>2. /\ \A l1 \in Launchpads : Approved(l1)' = Approved(l1)
        /\ PublishIsApproved'
    BY <2>1 DEF PublishIsApproved, InFlight, Approved
  <2>3. CASE ProcessExpired(l)
    <3>1. Approved(l)
      BY <2>3 DEF ProcessExpired, JobsOnlyForExpired, Expired, LiveOnlyIfApproved
    <3> QED
      BY <2>2, <2>3, <3>1 DEF ProcessExpired, LiveOnlyIfApproved
  <2>4. CASE status' = status
    BY <2>2, <2>4 DEF LiveOnlyIfApproved
  <2> QED
    BY <1>3, <2>3, <2>4 DEF Elapse, ExpiryStep, FindLaunchpadById, CompleteJob, FailAttempt,
                            StallJob, ForgetJob, rowVars
<1>4. CASE CronStep
  BY <1>4 DEF CronStep, DetectExpiredLaunchpads, AddBulk, rowVars, LiveOnlyIfApproved,
              PublishIsApproved, Approved, InFlight
<1> QED
  BY <1>1, <1>2, <1>3, <1>4 DEF Next

\* Expiry: nothing is under way on an expired launchpad, so that what the cron
\* job saw still holds when the job ends it.
LEMMA ExpiredStep ==
    ASSUME TypeOK, EndedOnlyAfterEndTime, ExpiredIsQuiet, JobsOnlyForExpired,
           [Next]_launchpadVars
    PROVE  EndedOnlyAfterEndTime' /\ ExpiredIsQuiet' /\ JobsOnlyForExpired'
<1> DEFINE Inv == EndedOnlyAfterEndTime /\ ExpiredIsQuiet /\ JobsOnlyForExpired
<1> USE LaunchpadAssumption DEF TypeOK
<1>1. CASE UNCHANGED launchpadVars
  BY <1>1 DEF launchpadVars, EndedOnlyAfterEndTime, ExpiredIsQuiet, JobsOnlyForExpired,
              Expired, Quiet, InFlight
<1>2. ASSUME NEW r \in Requests, RequestStep(r)
      PROVE  Inv'
  <2>1. InFlight(r) => ~Expired(TargetOf[r]) /\ status[TargetOf[r]] # "ENDED"
    BY DEF ExpiredIsQuiet, Quiet, EndedOnlyAfterEndTime, Expired
  <2>2. CASE Create(r)
    BY <2>2 DEF Create, Finish, jobVars, EndedOnlyAfterEndTime, ExpiredIsQuiet,
                JobsOnlyForExpired, Expired, Quiet, InFlight
  <2>3. CASE FindByIdManage(r)
    <3>1. \A op \in Ops : Admits(op) \cap {"LIVE", "ENDED"} = {}
      BY DEF Ops, Admits
    <3>2. InFlight(r)' => ~Expired(TargetOf[r])
      BY <2>3, <3>1 DEF FindByIdManage, Finish, InFlight, Expired
    <3> QED
      BY <2>3, <3>2 DEF FindByIdManage, Finish, rowVars, jobVars, EndedOnlyAfterEndTime,
                        ExpiredIsQuiet, JobsOnlyForExpired, Expired, Quiet, InFlight
  <2>4. CASE HasActiveLaunchpad(r)
    BY <2>4 DEF HasActiveLaunchpad, Finish, rowVars, jobVars, EndedOnlyAfterEndTime,
                ExpiredIsQuiet, JobsOnlyForExpired, Expired, Quiet, InFlight
  <2>5. CASE Submit(r) \/ Approve(r) \/ Reject(r) \/ Publish(r)
    <3>1. InFlight(r)
      BY <2>5, StatusWrite
    <3>2. /\ TargetOf[r] \notin detected
          /\ expireJob[TargetOf[r]] = "none"
      BY <2>1, <3>1 DEF JobsOnlyForExpired
    <3>3. ~Expired(TargetOf[r])'
      <4>1. CASE Publish(r)
        BY <4>1 DEF Publish, Expired
      <4>2. CASE Submit(r) \/ Approve(r) \/ Reject(r)
        BY <4>2 DEF Submit, Approve, Reject, SetStatus, Expired
      <4> QED
        BY <2>5, <4>1, <4>2
    <3>4. status'[TargetOf[r]] # "ENDED"
      BY <2>5, StatusWrite
    <3>5. \A l \in Launchpads \ {TargetOf[r]} :
            status'[l] = status[l] /\ endTime'[l] = endTime[l]
      BY <2>5 DEF Submit, Approve, Reject, Publish, SetStatus
    <3>6. UNCHANGED <<detected, expireJob>>
      BY <2>5, StatusWrite DEF jobVars
    <3>7. \A r1 \in Requests : InFlight(r1)' => InFlight(r1)
      BY <2>5, StatusWrite DEF InFlight
    <3>8. EndedOnlyAfterEndTime'
      BY <3>4, <3>5 DEF EndedOnlyAfterEndTime
    <3>9. ExpiredIsQuiet'
      BY <3>3, <3>5, <3>7 DEF ExpiredIsQuiet, Expired, Quiet
    <3>10. JobsOnlyForExpired'
      BY <3>2, <3>5, <3>6 DEF JobsOnlyForExpired, Expired
    <3> QED
      BY <3>8, <3>9, <3>10
  <2>6. CASE Update(r) \/ SoftDelete(r) \/ Abort(r)
    BY <2>6 DEF Update, SoftDelete, Abort, Finish, rowVars, jobVars, EndedOnlyAfterEndTime,
                ExpiredIsQuiet, JobsOnlyForExpired, Expired, Quiet, InFlight
  <2> QED
    BY <1>2, <2>2, <2>3, <2>4, <2>5, <2>6 DEF RequestStep
<1>3. ASSUME NEW l \in Launchpads, Elapse(l)
      PROVE  Inv'
  BY <1>3 DEF Elapse, jobVars, EndedOnlyAfterEndTime, ExpiredIsQuiet, JobsOnlyForExpired,
              Expired, Quiet, InFlight
<1>4. ASSUME NEW l \in Launchpads, ProcessExpired(l)
      PROVE  Inv'
  <2>1. Expired(l)
    BY <1>4 DEF ProcessExpired, JobsOnlyForExpired
  <2> QED
    BY <1>4, <2>1 DEF ProcessExpired, SetJob, EndedOnlyAfterEndTime, ExpiredIsQuiet,
                      JobsOnlyForExpired, Expired, Quiet, InFlight
<1>5. ASSUME NEW l \in Launchpads,
             \/ FindLaunchpadById(l) \/ CompleteJob(l) \/ FailAttempt(l)
             \/ StallJob(l) \/ ForgetJob(l)
      PROVE  Inv'
  <2>1. Expired(l)
    BY <1>5 DEF FindLaunchpadById, CompleteJob, FailAttempt, StallJob, ForgetJob,
                JobsOnlyForExpired
  <2>2. /\ \E state : expireJob' = [expireJob EXCEPT ![l] = state]
        /\ UNCHANGED <<rowVars, requestPc, detected>>
    BY <1>5 DEF FindLaunchpadById, CompleteJob, FailAttempt, StallJob, ForgetJob, SetJob
  <2> QED
    BY <2>1, <2>2 DEF rowVars, EndedOnlyAfterEndTime, ExpiredIsQuiet, JobsOnlyForExpired,
                      Expired, Quiet, InFlight
<1>6. CASE DetectExpiredLaunchpads
  BY <1>6 DEF DetectExpiredLaunchpads, ExpiredLive, rowVars, EndedOnlyAfterEndTime,
              ExpiredIsQuiet, JobsOnlyForExpired, Expired, Quiet, InFlight
<1>7. CASE AddBulk
  BY <1>7 DEF AddBulk, rowVars, EndedOnlyAfterEndTime, ExpiredIsQuiet, JobsOnlyForExpired,
              Expired, Quiet, InFlight
<1> QED
  BY <1>1, <1>2, <1>3, <1>4, <1>5, <1>6, <1>7 DEF Next, ExpiryStep, CronStep

\* The expire job: no handler writes an expired launchpad, so that one the job
\* has ended stays ended, and the job is done with no other that is not deleted.
LEMMA CompletedStep ==
    ASSUME TypeOK, CompletedJobEnded, DoneJobEnded, EndedOnlyAfterEndTime, ExpiredIsQuiet,
           JobsOnlyForExpired, [Next]_launchpadVars
    PROVE  CompletedJobEnded' /\ DoneJobEnded'
<1> SUFFICES ASSUME NEW l \in Launchpads, l \notin deleted',
                    expireJob'[l] \in {"done", "completed"}
             PROVE  status'[l] = "ENDED"
  BY DEF CompletedJobEnded, DoneJobEnded
<1> USE DEF TypeOK
<1>1. l \notin deleted
  <2>1. deleted \subseteq deleted'
    BY StatusWrite
    DEF Next, launchpadVars, RequestStep, Create, FindByIdManage, HasActiveLaunchpad, Update,
        SoftDelete, Abort, Elapse, ExpiryStep, FindLaunchpadById, ProcessExpired, CompleteJob,
        FailAttempt, StallJob, ForgetJob, CronStep, DetectExpiredLaunchpads, AddBulk, rowVars
  <2> QED
    BY <2>1
<1>2. CASE expireJob[l] \in {"done", "completed"}
  <2>1. status[l] = "ENDED" /\ Expired(l)
    BY <1>1, <1>2 DEF CompletedJobEnded, DoneJobEnded, JobsOnlyForExpired
  <2>2. ASSUME NEW r \in Requests, RequestStep(r)
        PROVE  status'[l] = status[l]
    <3>1. CASE Create(r)
      BY <2>1, <3>1 DEF Create
    <3>2. CASE Submit(r) \/ Approve(r) \/ Reject(r) \/ Publish(r)
      BY <2>1, <3>2, StatusWrite DEF ExpiredIsQuiet, Quiet
    <3> QED
      BY <2>2, <3>1, <3>2
      DEF RequestStep, FindByIdManage, HasActiveLaunchpad, Update, SoftDelete, Abort, rowVars
  <2>3. CASE \E l1 \in Launchpads : ProcessExpired(l1)
    BY <2>1, <2>3 DEF ProcessExpired
  <2> QED
    BY <2>1, <2>2, <2>3
    DEF Next, launchpadVars, Elapse, ExpiryStep, FindLaunchpadById, CompleteJob, FailAttempt,
        StallJob, ForgetJob, CronStep, DetectExpiredLaunchpads, AddBulk, rowVars
<1>3. CASE expireJob[l] \notin {"done", "completed"}
  <2>1. \A r \in Requests : RequestStep(r) => expireJob' = expireJob
    BY StatusWrite DEF RequestStep, Create, FindByIdManage, HasActiveLaunchpad, Update,
                       SoftDelete, Abort, jobVars
  <2>2. \A l1 \in Launchpads : ~CompleteJob(l1)
    BY <1>3 DEF CompleteJob, SetJob
  <2>3. PICK l1 \in Launchpads : FindLaunchpadById(l1) \/ ProcessExpired(l1)
    BY <1>3, <2>1, <2>2
    DEF Next, launchpadVars, Elapse, ExpiryStep, FailAttempt, StallJob, ForgetJob, CronStep,
        DetectExpiredLaunchpads, AddBulk, SetJob, jobVars
  <2>4. l1 = l
    BY <1>3, <2>3 DEF FindLaunchpadById, ProcessExpired, SetJob
  <2>5. CASE FindLaunchpadById(l)
    <3>1. status[l] # "LIVE"
      BY <1>1, <2>5 DEF FindLaunchpadById, SetJob
    <3>2. Expired(l)
      BY <2>5 DEF FindLaunchpadById, JobsOnlyForExpired
    <3> QED
      BY <2>5, <3>1, <3>2 DEF FindLaunchpadById, Expired, rowVars
  <2>6. CASE ProcessExpired(l)
    BY <2>6 DEF ProcessExpired
  <2> QED
    BY <2>3, <2>4, <2>5, <2>6
<1> QED
  BY <1>2, <1>3

\* The inductive invariant holds in every state.
LEMMA Invariance == Spec => []LaunchpadInv
<1>1. Init => LaunchpadInv
  BY LaunchpadAssumption
  DEF Init, LaunchpadInv, TypeOK, JobsHaveAttempts, EndedOnlyAfterEndTime, LiveOnlyIfApproved,
      ExpiredIsQuiet, JobsOnlyForExpired, CompletedJobEnded, DoneJobEnded, PublishIsApproved,
      OnRows, Expired, InFlight
<1>2. LaunchpadInv /\ [Next]_launchpadVars => LaunchpadInv'
  BY TypeStep, OnRowsStep, ApprovalStep, ExpiredStep, CompletedStep DEF LaunchpadInv
<1> QED
  BY <1>1, <1>2, PTL DEF Spec

\* No handler, cron run or job leaves a row or a job ill-typed, and no job is
\* attempted more often than its options say.
THEOREM TypeCorrect == Spec => []TypeOK
  BY Invariance, PTL DEF LaunchpadInv

\* processExpired ends no launchpad before its endTime, although it does not
\* look at endTime.
THEOREM EndedAfterEndTime == Spec => []EndedOnlyAfterEndTime
  BY Invariance, PTL DEF LaunchpadInv

\* No interleaving of the handlers puts a launchpad on sale no admin approved.
THEOREM LiveApproved == Spec => []LiveOnlyIfApproved
  BY Invariance, PTL DEF LaunchpadInv

\* A job whose jobId is taken for good has not left its launchpad on sale, however
\* often its attempts fail and its worker dies.
THEOREM JobsComplete == Spec => []CompletedJobEnded
  BY Invariance, PTL DEF LaunchpadInv

\* No handler that read a launchpad before it was deleted changes it afterwards.
THEOREM DeletedFrozen == Spec => FrozenOnceDeleted
<1>1. LaunchpadInv /\ [Next]_launchpadVars
        => [\A l \in deleted : status'[l] = status[l] /\ terms'[l] = terms[l]]_launchpadVars
  <2> SUFFICES ASSUME LaunchpadInv, Next, NEW l \in deleted
               PROVE  status'[l] = status[l] /\ terms'[l] = terms[l]
    OBVIOUS
  <2> USE DEF LaunchpadInv, TypeOK
  <2>1. ASSUME NEW r \in Requests, RequestStep(r)
        PROVE  status'[l] = status[l] /\ terms'[l] = terms[l]
    <3>1. CASE Create(r)
      BY <3>1 DEF Create, OnRows
    <3>2. CASE Submit(r) \/ Approve(r) \/ Reject(r) \/ Publish(r)
      BY <3>2, StatusWrite DEF NotDeleted
    <3>3. CASE Update(r)
      BY <3>3 DEF Update, NotDeleted
    <3> QED
      BY <2>1, <3>1, <3>2, <3>3 DEF RequestStep, FindByIdManage, HasActiveLaunchpad,
                                    SoftDelete, Abort, rowVars
  <2>2. ASSUME NEW l1 \in Launchpads, Elapse(l1) \/ ExpiryStep(l1) \/ ForgetJob(l1)
        PROVE  status'[l] = status[l] /\ terms'[l] = terms[l]
    BY <2>2 DEF Elapse, ExpiryStep, FindLaunchpadById, ProcessExpired, CompleteJob,
                FailAttempt, StallJob, ForgetJob, rowVars
  <2>3. CASE CronStep
    BY <2>3 DEF CronStep, DetectExpiredLaunchpads, AddBulk, rowVars
  <2> QED
    BY <2>1, <2>2, <2>3 DEF Next
<1> QED
  BY <1>1, Invariance, PTL DEF Spec, FrozenOnceDeleted

=============================================================================
