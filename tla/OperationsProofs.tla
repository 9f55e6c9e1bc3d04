-------------------------- MODULE OperationsProofs --------------------------
(***************************************************************************)
(* Proofs about what is run for the customers: Automation, for any jobs,   *)
(* dispatchers and bounds; Hosting, for any accounts, servers and tasks;   *)
(* and Tickets, for any number of tasks. Last, their composition           *)
(* MCBackOffice.                                                           *)
(***************************************************************************)
EXTENDS MCBackOffice, BackOfficeProofs

-----------------------------------------------------------------------------
(***************************************************************************)
(* Automation jobs                                                         *)
(***************************************************************************)

\* d has written what became of its post of j, and not yet the delivery.
Settling(d, j) == disp[d].pc = "delivery" /\ disp[d].cur = j

\* A job nothing went wrong with is in the hands of one dispatcher or of one workflow run,
\* never of two, and whoever has it finds it RUNNING under a lease that is not over.
CalmJob(j) ==
    /\ j \notin reopened
    /\ job[j].st \in {"none", "PENDING"} => job[j].attempts < MaxAttempts
    /\ flows[j] > 0 => flows[j] = 1 /\ job[j].st = "RUNNING" /\ job[j].lease = "new"
    /\ \A d, e \in Dispatchers : j \in disp[d].batch /\ j \in disp[e].batch => d = e
    /\ \A d \in Dispatchers : j \in disp[d].batch =>
         /\ flows[j] = 0
         /\ IF Settling(d, j)
            THEN job[j].st \in {"PENDING", "FAILED", "CANCELLED"} /\ (job[j].st = "FAILED" => ~CanRetry(d))
            ELSE job[j].st = "RUNNING" /\ job[j].lease = "new" /\ job[j].attempts = disp[d].seen[j]

\* Its delivery is SENT exactly when it SUCCEEDED, and FAILED with it, but for the moment
\* between the two statements of a dispatcher.
CalmDelivery(j) ==
    /\ delivery[j] = "SENT" <=> job[j].st = "SUCCEEDED"
    /\ job[j].st # "none" => delivery[j] # "none"
    /\ job[j].st = "FAILED" => delivery[j] = "FAILED" \/ \E d \in Dispatchers : Settling(d, j)

\* An article stays with a job that SUCCEEDED, unless that end was taken back.
ArticlesInv ==
    \A j \in Drafts : /\ posts[j] > 0 => job[j].st = "SUCCEEDED" \/ j \in reopened
                      /\ posts[j] > 1 => j \in reopened

JobsInv ==
    /\ AutomationTypeOK
    /\ ArticlesInv
    /\ \A j \in AutoJobs \ astray : CalmJob(j)
    /\ \A j \in Emails \ astray : CalmDelivery(j)

LEMMA JobsInit == AutomationInit => JobsInv
<1> USE AutomationAssumption
<1> SUFFICES ASSUME AutomationInit PROVE JobsInv
    OBVIOUS
<1>1. AutomationTypeOK
    BY DEF AutomationInit, AutomationTypeOK, JobRows, Dispatches, NewJob, IdleDispatcher, AutoJobs
<1>2. ArticlesInv
    BY DEF AutomationInit, ArticlesInv
<1>3. \A j \in AutoJobs : CalmJob(j)
    BY DEF AutomationInit, CalmJob, NewJob, IdleDispatcher
<1>4. \A j \in Emails : CalmDelivery(j)
    BY DEF AutomationInit, CalmDelivery, NewJob, AutoJobs
<1> QED
    BY <1>1, <1>2, <1>3, <1>4 DEF JobsInv

\* What the shape of the variables says of one job and of one dispatch.
LEMMA JobForms ==
    ASSUME AutomationTypeOK
    PROVE  /\ \A j \in AutoJobs : job[j] \in JobRows /\ flows[j] \in 0 .. MaxFlows
           /\ \A d \in Dispatchers : disp[d] \in Dispatches
           /\ \A d \in Dispatchers : disp[d].pc \notin {"idle", "next"} =>
                disp[d].cur \in AutoJobs /\ disp[d].cur \in disp[d].batch
           /\ \A j \in Drafts : posts[j] \in 0 .. 2 /\ j \in AutoJobs /\ j \notin Emails
           /\ \A j \in Emails : j \in AutoJobs /\ j \notin Drafts
BY AutomationAssumption DEF AutomationTypeOK, AutoJobs, Dispatches

\* A step that changes one job, and its delivery with it, from a status in which nobody has
\* it in hand, or one that says no more than that its lease or its retry came due.
LEMMA OneJobStep ==
    ASSUME JobsInv, NEW j \in AutoJobs, NEW row \in JobRows, row.lease = "none" <=> row.st # "RUNNING",
           job' = [job EXCEPT ![j] = row],
           delivery' = delivery \/ (j \in Emails /\ \E st \in {"PENDING", "SENDING", "SENT", "FAILED"} : delivery' = [delivery EXCEPT ![j] = st]),
           astray \subseteq astray', astray' \subseteq AutoJobs, mishaps' \in 0 .. MaxMishaps,
           flows' = flows \/ (flows[j] > 0 /\ flows' = [flows EXCEPT ![j] = @ - 1]),
           UNCHANGED <<disp, posts, reopened>>,
           job[j].st = "SUCCEEDED" => row.st = "SUCCEEDED",
           j \notin astray' =>
             /\ row.st # "none" /\ (row.st = "PENDING" => row.attempts < MaxAttempts)
             /\ (row.st = "RUNNING" /\ row.lease = "new") \/ flows'[j] = 0
             /\ job[j].st = "RUNNING" => flows[j] > 0 \/ \A d \in Dispatchers : j \notin disp[d].batch
             /\ job[j].st # "RUNNING" => row.st \in {"PENDING", "CANCELLED"}
             /\ j \in Emails => /\ delivery'[j] = "SENT" <=> row.st = "SUCCEEDED"
                                /\ delivery'[j] # "none"
                                /\ row.st = "FAILED" => delivery'[j] = "FAILED"
    PROVE  JobsInv'
<1>1. AutomationTypeOK /\ ArticlesInv
    BY DEF JobsInv
<1>2. AutomationTypeOK'
  <2>1. flows' \in [AutoJobs -> 0 .. MaxFlows]
      BY <1>1, AutomationAssumption DEF AutomationTypeOK
  <2>2. job' \in [AutoJobs -> JobRows] /\ \A k \in AutoJobs : job'[k].lease = "none" <=> job'[k].st # "RUNNING"
      BY <1>1 DEF AutomationTypeOK
  <2>3. delivery' \in [Emails -> {"none", "PENDING", "SENDING", "SENT", "FAILED"}]
      BY <1>1 DEF AutomationTypeOK
  <2> QED
      BY <1>1, <2>1, <2>2, <2>3 DEF AutomationTypeOK
<1>3. ArticlesInv'
    BY <1>1, JobForms DEF ArticlesInv, AutomationTypeOK
<1>4. ASSUME NEW k \in AutoJobs \ astray' PROVE CalmJob(k)'
  <2>1. CalmJob(k) /\ k \in AutoJobs
      BY DEF JobsInv
  <2>2. CASE k # j
      BY <1>1, <2>1, <2>2 DEF CalmJob, Settling, CanRetry, AutomationTypeOK
  <2>3. CASE k = j
      BY <1>1, <2>1, <2>3, JobForms DEF CalmJob, Settling, CanRetry, AutomationTypeOK
  <2> QED
      BY <2>2, <2>3
<1>5. ASSUME NEW k \in Emails \ astray' PROVE CalmDelivery(k)'
  <2>1. CalmDelivery(k) /\ CalmJob(k) /\ k \in AutoJobs
      BY DEF JobsInv, AutoJobs
  <2>2. CASE k # j
      BY <1>1, <2>1, <2>2 DEF CalmDelivery, Settling, AutomationTypeOK
  <2>3. CASE k = j
      BY <1>1, <2>1, <2>3 DEF CalmDelivery, Settling, AutomationTypeOK
  <2> QED
      BY <2>2, <2>3
<1> QED
    BY <1>2, <1>3, <1>4, <1>5 DEF JobsInv

\* Creation, and what administrators and time do to a job nobody has in hand.
LEMMA QuietJobSteps ==
    ASSUME JobsInv, NEW j \in AutoJobs,
           \/ j \in Emails /\ EnqueueEmail(j)
           \/ j \in Drafts /\ CreateAiDraftRequest(j)
           \/ RetryJob(j) \/ CancelJob(j) \/ RetryComesDue(j) \/ JobLeaseRunsOut(j)
    PROVE  JobsInv'
<1>1. AutomationTypeOK
    BY DEF JobsInv
<1>2. job[j] \in JobRows /\ (job[j].lease = "none" <=> job[j].st # "RUNNING")
    BY <1>1, JobForms DEF AutomationTypeOK
<1>3. j \notin astray => CalmJob(j) /\ (j \in Emails => CalmDelivery(j))
    BY DEF JobsInv
<1>4. 0 \in 0 .. MaxAttempts /\ 0 < MaxAttempts
    BY AutomationAssumption
<1>9. j \notin astray /\ job[j].st # "RUNNING" => flows[j] = 0
    BY <1>1, <1>3, JobForms DEF CalmJob
<1>10. /\ UNCHANGED astray => astray \subseteq astray' /\ astray' \subseteq AutoJobs
       /\ UNCHANGED mishaps => mishaps' \in 0 .. MaxMishaps
       /\ UNCHANGED flows => flows'[j] = flows[j]
       /\ UNCHANGED delivery => delivery'[j] = delivery[j]
    BY <1>1 DEF AutomationTypeOK
<1>5. CASE (j \in Emails /\ EnqueueEmail(j)) \/ (j \in Drafts /\ CreateAiDraftRequest(j))
  <2> DEFINE row == [job[j] EXCEPT !.st = "PENDING"]
  <2>1. row \in JobRows /\ row.st = "PENDING" /\ row.lease = job[j].lease /\ row.attempts = job[j].attempts
      BY <1>2 DEF JobRows
  <2>2. job[j].st = "none" /\ job' = [job EXCEPT ![j] = row]
      BY <1>1, <1>5 DEF EnqueueEmail, CreateAiDraftRequest, Creatable, AutomationTypeOK
  <2>3. /\ UNCHANGED <<disp, flows, posts, reopened, astray, mishaps>>
        /\ (delivery' = delivery /\ j \notin Emails) \/ (j \in Emails /\ delivery' = [delivery EXCEPT ![j] = "PENDING"])
      BY <1>1, <1>5, JobForms DEF EnqueueEmail, CreateAiDraftRequest
  <2>4. j \in Emails => delivery'[j] = "PENDING"
      BY <1>1, <2>3 DEF AutomationTypeOK
  <2>5. delivery' = delivery \/ (j \in Emails /\ \E st \in {"PENDING", "SENDING", "SENT", "FAILED"} : delivery' = [delivery EXCEPT ![j] = st])
      BY <2>3
  <2>6. j \notin astray => row.attempts < MaxAttempts
      BY <1>3, <2>1, <2>2 DEF CalmJob
  <2> HIDE DEF row
  <2> QED
      BY <1>2, <1>9, <1>10, <2>1, <2>2, <2>3, <2>4, <2>5, <2>6, OneJobStep
<1>6. CASE RetryJob(j)
  <2> DEFINE row == [NewJob EXCEPT !.st = "PENDING"]
  <2>1. row \in JobRows /\ row.st = "PENDING" /\ row.lease = "none" /\ row.attempts = 0
      BY <1>4 DEF JobRows, NewJob
  <2>2. /\ job[j].st = "FAILED" /\ job' = [job EXCEPT ![j] = row]
        /\ UNCHANGED <<delivery, disp, flows, posts, reopened, astray, mishaps>>
      BY <1>6 DEF RetryJob
  <2> HIDE DEF row
  <2> QED
      BY <1>3, <1>4, <1>9, <1>10, <2>1, <2>2, OneJobStep DEF CalmJob, CalmDelivery
<1>7. CASE CancelJob(j) \/ RetryComesDue(j)
  <2>1. PICK row \in JobRows :
          /\ job' = [job EXCEPT ![j] = row]
          /\ row.st \in {"PENDING", "CANCELLED"} /\ row.lease = "none" /\ row.attempts = job[j].attempts
    <3>1. CASE CancelJob(j)
      <4> DEFINE row == [job[j] EXCEPT !.st = "CANCELLED", !.lease = "none"]
      <4>1. row \in JobRows /\ row.st = "CANCELLED" /\ row.lease = "none" /\ row.attempts = job[j].attempts
          BY <1>2 DEF JobRows
      <4>2. job' = [job EXCEPT ![j] = row]
          BY <3>1 DEF CancelJob
      <4> HIDE DEF row
      <4> QED
          BY <4>1, <4>2
    <3>2. CASE RetryComesDue(j)
      <4> DEFINE row == [job[j] EXCEPT !.due = TRUE]
      <4>1. row \in JobRows /\ row.st = "PENDING" /\ row.lease = "none" /\ row.attempts = job[j].attempts
          BY <1>2, <3>2 DEF JobRows, RetryComesDue
      <4>2. job' = [job EXCEPT ![j] = row]
          BY <1>1, <3>2 DEF RetryComesDue, AutomationTypeOK
      <4> HIDE DEF row
      <4> QED
          BY <4>1, <4>2
    <3> QED
        BY <1>7, <3>1, <3>2
  <2>2. job[j].st = "PENDING" /\ UNCHANGED <<delivery, disp, flows, posts, reopened, astray, mishaps>>
      BY <1>7 DEF CancelJob, RetryComesDue
  <2> QED
      BY <1>3, <1>9, <1>10, <2>1, <2>2, OneJobStep DEF CalmJob, CalmDelivery
<1>8. CASE JobLeaseRunsOut(j)
  <2> DEFINE row == [job[j] EXCEPT !.lease = "old"]
  <2>1. row \in JobRows /\ row.st = "RUNNING" /\ row.lease = "old" /\ row.attempts = job[j].attempts
      BY <1>2, <1>8 DEF JobRows, JobLeaseRunsOut
  <2>2. /\ job[j].st = "RUNNING" /\ job' = [job EXCEPT ![j] = row]
        /\ UNCHANGED <<delivery, disp, flows, posts, reopened>>
      BY <1>1, <1>8 DEF JobLeaseRunsOut, AutomationTypeOK
  <2>3. /\ astray \subseteq astray' /\ astray' \subseteq AutoJobs /\ mishaps' \in 0 .. MaxMishaps
        /\ j \notin astray' => ~AtWork(j)
      BY <1>1, <1>8, AutomationAssumption DEF JobLeaseRunsOut, AutomationTypeOK
  <2>4. ~AtWork(j) => flows[j] = 0 /\ \A d \in Dispatchers : j \notin disp[d].batch
      BY <1>1, JobForms DEF AtWork
  <2> HIDE DEF row
  <2>5. j \notin astray' => j \notin astray
      BY <2>3
  <2> QED
      BY <1>1, <1>2, <1>3, <2>1, <2>2, <2>3, <2>4, <2>5, OneJobStep DEF CalmJob, CalmDelivery
<1> QED
    BY <1>5, <1>6, <1>7, <1>8

\* A callback of n8n, or a run that dies without one.
LEMMA CallbackSteps ==
    ASSUME JobsInv, NEW j \in AutoJobs,
           (j \in Emails /\ CompleteJob(j)) \/ FailJob(j) \/ FlowDies(j)
    PROVE  JobsInv'
<1>1. AutomationTypeOK
    BY DEF JobsInv
<1>2. job[j] \in JobRows /\ (job[j].lease = "none" <=> job[j].st # "RUNNING") /\ flows[j] \in 0 .. MaxFlows
    BY <1>1, JobForms DEF AutomationTypeOK
<1>3. j \notin astray => CalmJob(j) /\ (j \in Emails => CalmDelivery(j))
    BY DEF JobsInv
<1>4. /\ flows[j] > 0
      /\ flows' = flows \/ flows' = [flows EXCEPT ![j] = @ - 1]
      /\ astray \subseteq astray' /\ astray' \subseteq AutoJobs /\ mishaps' \in 0 .. MaxMishaps
      /\ j \notin astray' => flows' = [flows EXCEPT ![j] = @ - 1]
      /\ UNCHANGED <<disp, posts, reopened>>
    BY <1>1, AutomationAssumption DEF CompleteJob, FailJob, FlowDies, Reports, AutomationTypeOK
<1>5. j \notin astray' => flows[j] = 1 /\ flows'[j] = 0 /\ job[j].st = "RUNNING" /\ \A d \in Dispatchers : j \notin disp[d].batch
    BY <1>1, <1>2, <1>3, <1>4 DEF CalmJob, AutomationTypeOK
<1>6. ASSUME UNCHANGED <<job, delivery>> PROVE JobsInv'
  <2>1. job' = [job EXCEPT ![j] = job[j]]
      BY <1>1, <1>6 DEF AutomationTypeOK
  <2> QED
      BY <1>1, <1>2, <1>3, <1>4, <1>5, <1>6, <2>1, OneJobStep DEF CalmJob, CalmDelivery
<1>7. ASSUME NEW row \in JobRows, row.lease = "none", job' = [job EXCEPT ![j] = row], job[j].st = "RUNNING",
             \/ row.st = "SUCCEEDED" /\ j \in Emails /\ delivery' = [delivery EXCEPT ![j] = "SENT"]
             \/ /\ row.st = "PENDING" /\ row.attempts < MaxAttempts
                /\ \/ delivery' = delivery
                   \/ j \in Emails /\ delivery' = [delivery EXCEPT ![j] = "PENDING"]
             \/ /\ row.st = "FAILED"
                /\ \/ delivery' = delivery /\ (j \in Emails => delivery[j] \notin {"PENDING", "SENDING"})
                   \/ j \in Emails /\ delivery' = [delivery EXCEPT ![j] = "FAILED"]
      PROVE  JobsInv'
  <2>1. j \in Emails => delivery[j] \in {"none", "PENDING", "SENDING", "SENT", "FAILED"}
      BY <1>1 DEF AutomationTypeOK
  <2>2. j \notin astray' => j \notin astray
      BY <1>4
  <2>3. j \in Emails /\ j \notin astray' => /\ delivery'[j] = "SENT" <=> row.st = "SUCCEEDED"
                                            /\ delivery'[j] # "none"
                                            /\ row.st = "FAILED" => delivery'[j] = "FAILED"
      BY <1>1, <1>3, <1>5, <1>7, <2>1, <2>2 DEF CalmDelivery, AutomationTypeOK
  <2>4. delivery' = delivery \/ (j \in Emails /\ \E st \in {"PENDING", "SENDING", "SENT", "FAILED"} : delivery' = [delivery EXCEPT ![j] = st])
      BY <1>7
  <2> QED
      BY <1>4, <1>5, <1>7, <2>3, <2>4, OneJobStep
<1>8. CASE FlowDies(j)
    BY <1>6, <1>8 DEF FlowDies
<1>9. CASE j \in Emails /\ CompleteJob(j)
  <2>1. CASE job[j].st = "RUNNING"
    <3> DEFINE row == [job[j] EXCEPT !.st = "SUCCEEDED", !.lease = "none"]
    <3>1. row \in JobRows /\ row.st = "SUCCEEDED" /\ row.lease = "none"
        BY <1>2 DEF JobRows
    <3>2. job' = [job EXCEPT ![j] = row] /\ delivery' = [delivery EXCEPT ![j] = "SENT"]
        BY <1>9, <2>1 DEF CompleteJob, Succeeded
    <3> HIDE DEF row
    <3> QED
        BY <1>7, <1>9, <2>1, <3>1, <3>2
  <2>2. CASE job[j].st # "RUNNING"
      BY <1>5, <1>6, <1>9, <2>2 DEF CompleteJob
  <2> QED
      BY <2>1, <2>2
<1>10. CASE FailJob(j)
  <2>1. CASE job[j].st = "RUNNING"
    <3>1. PICK again \in BOOLEAN :
            /\ again => job[j].attempts < MaxAttempts
            /\ job' = [job EXCEPT ![j] = IF again
                                         THEN [@ EXCEPT !.st = "PENDING", !.due = FALSE, !.lease = "none"]
                                         ELSE [@ EXCEPT !.st = "FAILED", !.lease = "none"]]
            /\ delivery' = IF j \notin Emails THEN delivery
                              ELSE [delivery EXCEPT ![j] =
                                     CASE again /\ @ = "SENDING" -> "PENDING"
                                       [] ~again /\ @ \in {"PENDING", "SENDING"} -> "FAILED"
                                       [] OTHER -> @]
        BY <1>10, <2>1 DEF FailJob
    <3>2. delivery = [delivery EXCEPT ![j] = delivery[j]] \/ j \notin Emails
        BY <1>1 DEF AutomationTypeOK
    <3>3. CASE again
      <4> DEFINE row == [job[j] EXCEPT !.st = "PENDING", !.due = FALSE, !.lease = "none"]
      <4>1. row \in JobRows /\ row.st = "PENDING" /\ row.lease = "none" /\ row.attempts = job[j].attempts
          BY <1>2 DEF JobRows
      <4>2. job' = [job EXCEPT ![j] = row]
          BY <3>1, <3>3
      <4>3. delivery' = delivery \/ (j \in Emails /\ delivery' = [delivery EXCEPT ![j] = "PENDING"])
          BY <3>1, <3>2, <3>3
      <4> HIDE DEF row
      <4> QED
          BY <1>7, <2>1, <3>1, <3>3, <4>1, <4>2, <4>3
    <3>4. CASE ~again
      <4> DEFINE row == [job[j] EXCEPT !.st = "FAILED", !.lease = "none"]
      <4>1. row \in JobRows /\ row.st = "FAILED" /\ row.lease = "none"
          BY <1>2 DEF JobRows
      <4>2. job' = [job EXCEPT ![j] = row]
          BY <3>1, <3>4
      <4>3. \/ delivery' = delivery /\ (j \in Emails => delivery[j] \notin {"PENDING", "SENDING"})
            \/ j \in Emails /\ delivery' = [delivery EXCEPT ![j] = "FAILED"]
          BY <3>1, <3>2, <3>4
      <4> HIDE DEF row
      <4> QED
          BY <1>7, <2>1, <4>1, <4>2, <4>3
    <3> QED
        BY <3>3, <3>4
  <2>2. CASE job[j].st # "RUNNING"
      BY <1>5, <1>6, <1>10, <2>2 DEF FailJob
  <2> QED
      BY <2>1, <2>2
<1> QED
    BY <1>8, <1>9, <1>10

\* The article and the end of its job: one more for a job that is RUNNING and so has none,
\* or whose end was taken back.
LEMMA DraftStep ==
    ASSUME JobsInv, NEW j \in Drafts, ApplyAiDraftResult(j)
    PROVE  JobsInv'
<1>1. AutomationTypeOK /\ ArticlesInv /\ j \in AutoJobs /\ j \notin Emails
    BY JobForms DEF JobsInv
<1>2. job[j] \in JobRows /\ (job[j].lease = "none" <=> job[j].st # "RUNNING") /\ flows[j] \in 0 .. MaxFlows
    BY <1>1, JobForms DEF AutomationTypeOK
<1>3. /\ flows[j] > 0
      /\ flows' = flows \/ flows' = [flows EXCEPT ![j] = @ - 1]
      /\ astray \subseteq astray' /\ astray' \subseteq AutoJobs /\ mishaps' \in 0 .. MaxMishaps
      /\ j \notin astray' => flows' = [flows EXCEPT ![j] = @ - 1]
      /\ UNCHANGED <<delivery, disp, reopened>>
    BY <1>1, AutomationAssumption DEF ApplyAiDraftResult, Reports, AutomationTypeOK
<1>4. j \notin astray' => flows[j] = 1 /\ flows'[j] = 0 /\ job[j].st = "RUNNING" /\ \A d \in Dispatchers : j \notin disp[d].batch
    BY <1>1, <1>2, <1>3 DEF JobsInv, CalmJob, AutomationTypeOK
<1>5. CASE job[j].st # "RUNNING"
  <2>1. job' = [job EXCEPT ![j] = job[j]] /\ UNCHANGED posts
      BY <1>1, <1>5 DEF ApplyAiDraftResult, AutomationTypeOK
  <2>2. j \in astray'
      BY <1>4, <1>5
  <2> QED
      BY <1>1, <1>2, <1>3, <2>1, <2>2, OneJobStep
<1>6. CASE job[j].st = "RUNNING"
  <2> DEFINE row == [job[j] EXCEPT !.st = "SUCCEEDED", !.lease = "none"]
  <2>1. row \in JobRows /\ row.st = "SUCCEEDED" /\ row.lease = "none"
      BY <1>2 DEF JobRows
  <2>2. job' = [job EXCEPT ![j] = row] /\ posts' = [posts EXCEPT ![j] = OneMore(@)]
      BY <1>6 DEF ApplyAiDraftResult, Succeeded
  <2> HIDE DEF row
  <2>3. AutomationTypeOK'
    <3>1. flows' \in [AutoJobs -> 0 .. MaxFlows]
        BY <1>1, <1>3, AutomationAssumption DEF AutomationTypeOK
    <3>2. job' \in [AutoJobs -> JobRows] /\ \A k \in AutoJobs : job'[k].lease = "none" <=> job'[k].st # "RUNNING"
        BY <1>1, <2>1, <2>2 DEF AutomationTypeOK
    <3>3. posts' \in [Drafts -> 0 .. 2]
        BY <1>1, <2>2 DEF AutomationTypeOK, OneMore
    <3> QED
        BY <1>1, <1>3, <3>1, <3>2, <3>3 DEF AutomationTypeOK
  <2>4. ArticlesInv'
    <3>1. posts[j] > 0 => j \in reopened
        BY <1>1, <1>6 DEF ArticlesInv
    <3>2. posts'[j] > 1 => posts[j] > 0
        BY <1>1, <2>2, JobForms DEF OneMore, AutomationTypeOK
    <3> QED
        BY <1>1, <1>3, <2>1, <2>2, <3>1, <3>2, JobForms DEF ArticlesInv, AutomationTypeOK
  <2>5. ASSUME NEW k \in AutoJobs \ astray' PROVE CalmJob(k)'
    <3>1. CalmJob(k) /\ k \in AutoJobs
        BY <1>3 DEF JobsInv
    <3> QED
        BY <1>1, <1>3, <1>4, <2>1, <2>2, <3>1 DEF CalmJob, Settling, CanRetry, AutomationTypeOK
  <2>6. ASSUME NEW k \in Emails \ astray' PROVE CalmDelivery(k)'
    <3>1. CalmDelivery(k) /\ k # j
        BY <1>1, <1>3 DEF JobsInv
    <3> QED
        BY <1>1, <1>3, <2>2, <3>1 DEF CalmDelivery, Settling, AutomationTypeOK
  <2> QED
      BY <2>3, <2>4, <2>5, <2>6 DEF JobsInv
<1> QED
    BY <1>5, <1>6

\* DoneWith leaves the dispatcher idle, or with the rest of its batch.
LEMMA DoneForms ==
    ASSUME AutomationTypeOK, NEW d \in Dispatchers, disp[d].pc \notin {"idle", "next"}, DoneWith(d)
    PROVE  /\ disp' \in [Dispatchers -> Dispatches]
           /\ \A e \in Dispatchers : e # d => disp'[e] = disp[e]
           /\ disp'[d].batch = disp[d].batch \ {disp[d].cur}
           /\ disp'[d].pc \in {"idle", "next"} /\ disp'[d].cur = NoJob
           /\ \A j \in disp'[d].batch : disp'[d].seen[j] = disp[d].seen[j]
<1>1. disp[d] \in Dispatches /\ disp[d].cur \in AutoJobs /\ disp[d].cur \in disp[d].batch
    BY JobForms
<1>2. CASE disp[d].batch \ {disp[d].cur} = {}
  <2>1. IdleDispatcher \in Dispatches
      BY AutomationAssumption DEF IdleDispatcher, Dispatches
  <2>2. disp' = [disp EXCEPT ![d] = IdleDispatcher]
      BY <1>2 DEF DoneWith
  <2>3. IdleDispatcher.batch = {} /\ IdleDispatcher.pc = "idle" /\ IdleDispatcher.cur = NoJob
      BY DEF IdleDispatcher
  <2> QED
      BY <1>2, <2>1, <2>2, <2>3 DEF AutomationTypeOK
<1>3. CASE disp[d].batch \ {disp[d].cur} # {}
  <2> DEFINE row == [disp[d] EXCEPT !.pc = "next", !.batch = disp[d].batch \ {disp[d].cur}, !.cur = NoJob, !.answer = "none"]
  <2>1. /\ row \in Dispatches /\ row.batch = disp[d].batch \ {disp[d].cur}
        /\ row.pc = "next" /\ row.cur = NoJob /\ row.seen = disp[d].seen
      BY <1>1 DEF Dispatches
  <2>2. disp' = [disp EXCEPT ![d] = row]
      BY <1>3 DEF DoneWith
  <2> HIDE DEF row
  <2> QED
      BY <2>1, <2>2 DEF AutomationTypeOK
<1> QED
    BY <1>2, <1>3

\* Of what a dispatcher has at hand, nothing is known to the jobs but its batch, its current
\* job and what it saw: a step of d that only moves d on keeps the others as they are.
LEMMA MarkAndRefuse ==
    ASSUME JobsInv, NEW d \in Dispatchers, (\E j \in AutoJobs : MarkSending(d, j)) \/ PostRefused(d)
    PROVE  JobsInv'
<1>1. AutomationTypeOK /\ ArticlesInv
    BY DEF JobsInv
<1> DEFINE Moves ==
        /\ UNCHANGED <<job, flows, posts, reopened, astray, mishaps>>
        /\ disp' \in [Dispatchers -> Dispatches]
        /\ \A e \in Dispatchers : e # d => disp'[e] = disp[e]
        /\ disp[d].pc \in {"next", "post"} /\ disp'[d].pc \in {"post", "settle"}
        /\ disp'[d].batch = disp[d].batch /\ disp'[d].seen = disp[d].seen
        /\ disp'[d].cur \in disp[d].batch /\ disp'[d].cur # NoJob
        /\ \/ delivery' = delivery
           \/ disp'[d].cur \in Emails /\ delivery' = [delivery EXCEPT ![disp'[d].cur] = "SENDING"]
<1>2. Moves
  <2>1. ASSUME NEW j \in AutoJobs, MarkSending(d, j) PROVE Moves
    <3> DEFINE row == [disp[d] EXCEPT !.pc = "post", !.cur = j]
    <3>1. disp[d] \in Dispatches
        BY <1>1, JobForms
    <3>2. row \in Dispatches /\ row.pc = "post" /\ row.cur = j /\ row.batch = disp[d].batch /\ row.seen = disp[d].seen
        BY <3>1 DEF Dispatches
    <3>3. disp' = [disp EXCEPT ![d] = row]
        BY <1>1, <2>1, <3>1 DEF MarkSending, AutomationTypeOK, Dispatches
    <3> HIDE DEF row
    <3>4. j # NoJob
        BY AutomationAssumption
    <3>5. disp[d].pc = "next" /\ j \in disp[d].batch /\ UNCHANGED <<job, flows, posts, reopened, astray, mishaps>>
        BY <2>1 DEF MarkSending
    <3>6. /\ disp' \in [Dispatchers -> Dispatches] /\ disp'[d] = row
          /\ \A e \in Dispatchers : e # d => disp'[e] = disp[e]
        BY <1>1, <3>2, <3>3 DEF AutomationTypeOK
    <3>7. delivery' = delivery \/ (j \in Emails /\ delivery' = [delivery EXCEPT ![j] = "SENDING"])
        BY <2>1 DEF MarkSending
    <3> QED
        BY <3>2, <3>4, <3>5, <3>6, <3>7
  <2>2. CASE PostRefused(d)
    <3>1. PICK answer \in {"retryable", "fatal"} : disp' = [disp EXCEPT ![d].pc = "settle", ![d].answer = answer]
        BY <2>2 DEF PostRefused
    <3> DEFINE row == [disp[d] EXCEPT !.pc = "settle", !.answer = answer]
    <3>2. disp[d] \in Dispatches /\ disp[d].cur \in disp[d].batch /\ disp[d].cur \in AutoJobs
        BY <1>1, <2>2, JobForms DEF PostRefused
    <3>3. row \in Dispatches /\ row.pc = "settle" /\ row.cur = disp[d].cur /\ row.batch = disp[d].batch /\ row.seen = disp[d].seen
        BY <3>2 DEF Dispatches
    <3>4. disp' = [disp EXCEPT ![d] = row]
        BY <1>1, <3>1, <3>2 DEF AutomationTypeOK, Dispatches
    <3> HIDE DEF row
    <3> QED
        BY <1>1, <2>2, <3>2, <3>3, <3>4, AutomationAssumption DEF PostRefused, AutomationTypeOK
  <2> QED
      BY <2>1, <2>2
<1>3. AutomationTypeOK'
    BY <1>1, <1>2 DEF AutomationTypeOK
<1>4. ArticlesInv'
    BY <1>1, <1>2 DEF ArticlesInv
<1>5. ASSUME NEW k \in AutoJobs \ astray' PROVE CalmJob(k)'
  <2>1. CalmJob(k)
      BY <1>2 DEF JobsInv
  <2> QED
      BY <1>2, <2>1 DEF CalmJob, Settling, CanRetry
<1>6. ASSUME NEW k \in Emails \ astray' PROVE CalmDelivery(k)'
  <2>1. CalmDelivery(k) /\ CalmJob(k)
      BY <1>1, <1>2, JobForms DEF JobsInv
  <2>2. CASE disp'[d].cur = k
    <3>1. job[k].st = "RUNNING"
        BY <1>2, <2>1, <2>2 DEF CalmJob, Settling
    <3> QED
        BY <1>1, <1>2, <2>1, <3>1 DEF CalmDelivery, AutomationTypeOK
  <2>3. CASE disp'[d].cur # k
    <3>1. delivery'[k] = delivery[k]
        BY <1>1, <1>2, <2>3 DEF AutomationTypeOK
    <3> QED
        BY <1>2, <2>1, <3>1 DEF CalmDelivery, Settling
  <2> QED
      BY <2>2, <2>3
<1> QED
    BY <1>3, <1>4, <1>5, <1>6 DEF JobsInv

\* The post reached n8n, and it said so or not.
LEMMA PostSteps ==
    ASSUME JobsInv, NEW d \in Dispatchers, PostAccepted(d) \/ PostAnswerLost(d)
    PROVE  JobsInv'
<1> DEFINE c == disp[d].cur
<1>1. AutomationTypeOK /\ ArticlesInv
    BY DEF JobsInv
<1>2. disp[d].pc = "post" /\ disp[d] \in Dispatches /\ c \in AutoJobs /\ c \in disp[d].batch
    BY <1>1, JobForms DEF PostAccepted, PostAnswerLost
<1>3. /\ UNCHANGED <<job, delivery, posts, reopened>>
      /\ flows' = Started(c)
      /\ astray \subseteq astray' /\ astray' \subseteq AutoJobs /\ mishaps' \in 0 .. MaxMishaps
    BY <1>1, <1>2, AutomationAssumption DEF PostAccepted, PostAnswerLost, AutomationTypeOK
<1>4. /\ disp' \in [Dispatchers -> Dispatches]
      /\ \A e \in Dispatchers : e # d => disp'[e] = disp[e]
      /\ \A j \in disp'[d].batch : disp'[d].seen[j] = disp[d].seen[j]
      /\ disp'[d].pc # "delivery"
      /\ disp'[d].pc \in {"idle", "next"} <=> disp'[d].cur = NoJob
      /\ disp'[d].cur # NoJob => disp'[d].cur \in disp'[d].batch
      /\ disp'[d].batch \subseteq disp[d].batch
      /\ c \notin astray' => c \notin disp'[d].batch
  <2>1. CASE PostAccepted(d)
    <3>1. DoneWith(d)
        BY <2>1 DEF PostAccepted
    <3> QED
        BY <1>1, <1>2, <3>1, DoneForms
  <2>2. CASE PostAnswerLost(d)
    <3> DEFINE row == [disp[d] EXCEPT !.pc = "settle", !.answer = "retryable"]
    <3>1. row \in Dispatches /\ row.pc = "settle" /\ row.cur = c /\ row.batch = disp[d].batch /\ row.seen = disp[d].seen
        BY <1>2 DEF Dispatches
    <3>2. disp' = [disp EXCEPT ![d] = row]
        BY <1>1, <1>2, <2>2 DEF PostAnswerLost, AutomationTypeOK, Dispatches
    <3>3. c \in astray' /\ c # NoJob
        BY <1>2, <2>2, AutomationAssumption DEF PostAnswerLost
    <3> HIDE DEF row
    <3> QED
        BY <1>1, <1>2, <3>1, <3>2, <3>3 DEF AutomationTypeOK
  <2> QED
      BY <2>1, <2>2
<1>5. /\ flows' \in [AutoJobs -> 0 .. MaxFlows]
      /\ \A k \in AutoJobs : k # c => flows'[k] = flows[k]
      /\ flows[c] = 0 => flows'[c] = 1
    BY <1>1, <1>2, <1>3, AutomationAssumption DEF Started, AutomationTypeOK
<1> HIDE DEF c
<1>6. AutomationTypeOK'
    BY <1>1, <1>3, <1>4, <1>5 DEF AutomationTypeOK
<1>7. ArticlesInv'
    BY <1>1, <1>3 DEF ArticlesInv
<1>8. ASSUME NEW k \in AutoJobs \ astray' PROVE CalmJob(k)'
  <2>1. CalmJob(k)
      BY <1>3 DEF JobsInv
  <2>2. ~Settling(d, k) /\ ~Settling(d, k)' /\ c \in disp[d].batch
      BY <1>2, <1>4 DEF Settling
  <2>3. CASE k = c
    <3>1. flows'[k] = 1 /\ job[k].st = "RUNNING" /\ job[k].lease = "new"
        BY <1>5, <2>1, <2>2, <2>3 DEF CalmJob
    <3>2. \A e \in Dispatchers : k \notin disp'[e].batch
        BY <1>4, <2>1, <2>2, <2>3 DEF CalmJob
    <3> QED
        BY <1>3, <2>1, <3>1, <3>2 DEF CalmJob
  <2>4. CASE k # c
    <3>1. flows'[k] = flows[k]
        BY <1>5, <2>4
    <3>2. \A e \in Dispatchers : k \in disp'[e].batch => k \in disp[e].batch /\ disp'[e].seen[k] = disp[e].seen[k]
        BY <1>4
    <3>3. \A e \in Dispatchers : /\ Settling(e, k)' <=> Settling(e, k)
                                 /\ Settling(e, k)' => (CanRetry(e)' <=> CanRetry(e))
        BY <1>4, <2>2 DEF Settling, CanRetry
    <3> QED
        BY <1>3, <2>1, <3>1, <3>2, <3>3 DEF CalmJob
  <2> QED
      BY <2>3, <2>4
<1>9. ASSUME NEW k \in Emails \ astray' PROVE CalmDelivery(k)'
  <2>1. CalmDelivery(k)
      BY <1>3 DEF JobsInv
  <2>2. \A e \in Dispatchers : Settling(e, k)' <=> Settling(e, k)
      BY <1>2, <1>4 DEF Settling
  <2> QED
      BY <1>3, <2>1, <2>2 DEF CalmDelivery
<1> QED
    BY <1>6, <1>7, <1>8, <1>9 DEF JobsInv

\* The outcome of a failed post, first for the job and then for its delivery.
LEMMA SettleSteps ==
    ASSUME JobsInv, NEW d \in Dispatchers, SettleJob(d) \/ SettleDelivery(d)
    PROVE  JobsInv'
<1> DEFINE c == disp[d].cur
<1>1. AutomationTypeOK /\ ArticlesInv
    BY DEF JobsInv
<1>2. disp[d] \in Dispatches /\ c \in AutoJobs /\ c \in disp[d].batch /\ c # NoJob /\ disp[d].pc \in {"settle", "delivery"}
    BY <1>1, JobForms, AutomationAssumption DEF SettleJob, SettleDelivery
<1>3. c \notin astray => CalmJob(c) /\ (c \in Emails => CalmDelivery(c))
    BY <1>2 DEF JobsInv
<1>4. CASE SettleJob(d)
  <2>1. PICK row \in JobRows :
          /\ job' = [job EXCEPT ![c] = row] /\ row.lease = "none"
          /\ row.st = IF CanRetry(d) THEN "PENDING" ELSE "FAILED"
          /\ row.attempts = job[c].attempts
    <3>1. job[c] \in JobRows
        BY <1>1, <1>2, JobForms
    <3>2. CASE CanRetry(d)
      <4> DEFINE row == [job[c] EXCEPT !.st = "PENDING", !.due = FALSE, !.lease = "none"]
      <4>1. row \in JobRows /\ row.st = "PENDING" /\ row.lease = "none" /\ row.attempts = job[c].attempts
          BY <3>1 DEF JobRows
      <4>2. job' = [job EXCEPT ![c] = row]
          BY <1>4, <3>2 DEF SettleJob
      <4> HIDE DEF row
      <4> QED
          BY <3>2, <4>1, <4>2
    <3>3. CASE ~CanRetry(d)
      <4> DEFINE row == [job[c] EXCEPT !.st = "FAILED", !.lease = "none"]
      <4>1. row \in JobRows /\ row.st = "FAILED" /\ row.lease = "none" /\ row.attempts = job[c].attempts
          BY <3>1 DEF JobRows
      <4>2. job' = [job EXCEPT ![c] = row]
          BY <1>4, <3>3 DEF SettleJob
      <4> HIDE DEF row
      <4> QED
          BY <3>3, <4>1, <4>2
    <3> QED
        BY <3>2, <3>3
  <2>2. /\ disp' \in [Dispatchers -> Dispatches]
        /\ \A e \in Dispatchers : e # d => disp'[e] = disp[e]
        /\ disp[d].pc = "settle" /\ disp'[d].pc = "delivery"
        /\ disp'[d].cur = c /\ disp'[d].batch = disp[d].batch /\ disp'[d].seen = disp[d].seen
        /\ CanRetry(d)' <=> CanRetry(d)
    <3> DEFINE own == [disp[d] EXCEPT !.pc = "delivery"]
    <3>1. own \in Dispatches /\ own.pc = "delivery" /\ own.cur = c /\ own.batch = disp[d].batch
          /\ own.seen = disp[d].seen /\ own.answer = disp[d].answer
        BY <1>2 DEF Dispatches
    <3>2. disp' = [disp EXCEPT ![d] = own] /\ disp[d].pc = "settle"
        BY <1>1, <1>2, <1>4 DEF SettleJob, AutomationTypeOK
    <3> HIDE DEF own
    <3> QED
        BY <1>1, <3>1, <3>2 DEF AutomationTypeOK, CanRetry
  <2>3. /\ UNCHANGED <<delivery, flows, posts, astray, mishaps>>
        /\ reopened' = IF job[c].st \in {"SUCCEEDED", "CANCELLED"} THEN reopened \cup {c} ELSE reopened
      BY <1>4 DEF SettleJob
  <2>4. c \notin astray => /\ job[c].st = "RUNNING" /\ job[c].attempts = disp[d].seen[c] /\ flows[c] = 0
                           /\ \A e \in Dispatchers : c \in disp[e].batch => e = d
      BY <1>2, <1>3, <2>2 DEF CalmJob, Settling
  <2>0. c = disp[d].cur
      OBVIOUS
  <2> HIDE DEF c
  <2>5. AutomationTypeOK'
    <3>1. job' \in [AutoJobs -> JobRows] /\ \A k \in AutoJobs : job'[k].lease = "none" <=> job'[k].st # "RUNNING"
        BY <1>1, <2>1 DEF AutomationTypeOK
    <3>2. \A e \in Dispatchers :
             /\ disp'[e].pc \in {"idle", "next"} <=> disp'[e].cur = NoJob
             /\ disp'[e].cur # NoJob => disp'[e].cur \in disp'[e].batch
             /\ \A j \in disp'[e].batch : disp'[e].seen[j] > 0
        BY <1>1, <1>2, <2>2 DEF AutomationTypeOK
    <3> QED
        BY <1>1, <1>2, <2>2, <2>3, <3>1, <3>2 DEF AutomationTypeOK
  <2>6. ArticlesInv'
      BY <1>1, <1>2, <2>1, <2>3, JobForms DEF ArticlesInv, AutomationTypeOK
  <2>7. \A k \in AutoJobs : k # c => job'[k] = job[k]
      BY <1>1, <2>1 DEF AutomationTypeOK
  <2>8. job'[c] = row
      BY <1>1, <1>2, <2>1 DEF AutomationTypeOK
  <2>9. ASSUME NEW k \in AutoJobs \ astray' PROVE CalmJob(k)'
    <3>1. CalmJob(k)
        BY <2>3 DEF JobsInv
    <3>2. CASE k = c
      <4>1. Settling(d, k)' /\ \A e \in Dispatchers : k \in disp'[e].batch => e = d
          BY <2>2, <2>3, <2>4, <3>2 DEF Settling
      <4>2. k \notin reopened' /\ flows'[k] = 0
          BY <2>3, <2>4, <3>1, <3>2 DEF CalmJob
      <4>3. row.st = "PENDING" => row.attempts < MaxAttempts
          BY <2>1, <2>3, <2>4, <3>2, <2>0 DEF CanRetry
      <4> QED
          BY <2>1, <2>2, <2>8, <3>2, <4>1, <4>2, <4>3 DEF CalmJob
    <3>3. CASE k # c
      <4>1. \A e \in Dispatchers : /\ Settling(e, k)' <=> Settling(e, k)
                                   /\ Settling(e, k)' => (CanRetry(e)' <=> CanRetry(e))
          BY <2>2, <3>3, <2>0 DEF Settling, CanRetry
      <4>2. \A e \in Dispatchers : disp'[e].batch = disp[e].batch /\ disp'[e].seen = disp[e].seen
          BY <2>2
      <4> QED
          BY <2>3, <2>7, <3>1, <3>3, <4>1, <4>2 DEF CalmJob
    <3> QED
        BY <3>2, <3>3
  <2>10. ASSUME NEW k \in Emails \ astray' PROVE CalmDelivery(k)'
    <3>1. CalmDelivery(k) /\ k \in AutoJobs
        BY <1>1, <2>3, JobForms DEF JobsInv
    <3>2. CASE k = c
      <4>1. Settling(d, k)'
          BY <2>2, <3>2 DEF Settling
      <4>2. delivery[k] # "SENT" /\ delivery[k] # "none"
          BY <2>3, <2>4, <3>1, <3>2 DEF CalmDelivery
      <4> QED
          BY <2>1, <2>3, <2>8, <3>2, <4>1, <4>2 DEF CalmDelivery
    <3>3. CASE k # c
      <4>1. \A e \in Dispatchers : Settling(e, k)' <=> Settling(e, k)
          BY <2>2, <3>3, <2>0 DEF Settling
      <4> QED
          BY <2>3, <2>7, <3>1, <3>3, <4>1 DEF CalmDelivery
    <3> QED
        BY <3>2, <3>3
  <2> QED
      BY <2>5, <2>6, <2>9, <2>10 DEF JobsInv
<1>5. CASE SettleDelivery(d)
  <2>1. /\ UNCHANGED <<job, flows, posts, reopened, astray, mishaps>>
        /\ delivery' = IF c \in Emails THEN [delivery EXCEPT ![c] = IF CanRetry(d) THEN "PENDING" ELSE "FAILED"] ELSE delivery
        /\ disp[d].pc = "delivery" /\ DoneWith(d)
      BY <1>5 DEF SettleDelivery
  <2>2. /\ disp' \in [Dispatchers -> Dispatches]
        /\ \A e \in Dispatchers : e # d => disp'[e] = disp[e]
        /\ disp'[d].batch = disp[d].batch \ {c}
        /\ disp'[d].pc \in {"idle", "next"} /\ disp'[d].cur = NoJob
        /\ \A j \in disp'[d].batch : disp'[d].seen[j] = disp[d].seen[j]
      BY <1>1, <2>1, DoneForms
  <2>3. Settling(d, c)
      BY <2>1 DEF Settling
  <2>4. c \notin astray => /\ job[c].st \in {"PENDING", "FAILED", "CANCELLED"} /\ (job[c].st = "FAILED" => ~CanRetry(d))
                           /\ flows[c] = 0 /\ \A e \in Dispatchers : c \in disp[e].batch => e = d
      BY <1>2, <1>3, <2>3 DEF CalmJob
  <2>5. \A k \in AutoJobs, e \in Dispatchers : k # c => (Settling(e, k)' <=> Settling(e, k))
      BY <2>1, <2>2 DEF Settling
  <2>6. \A e \in Dispatchers : disp'[e].pc = "delivery" => disp'[e] = disp[e]
      BY <2>2
  <2> HIDE DEF c
  <2>7. AutomationTypeOK'
    <3>1. delivery' \in [Emails -> {"none", "PENDING", "SENDING", "SENT", "FAILED"}]
        BY <1>1, <2>1 DEF AutomationTypeOK
    <3> QED
        BY <1>1, <2>1, <2>2, <3>1 DEF AutomationTypeOK
  <2>8. ArticlesInv'
      BY <1>1, <2>1 DEF ArticlesInv
  <2>9. ASSUME NEW k \in AutoJobs \ astray' PROVE CalmJob(k)'
    <3>1. CalmJob(k)
        BY <2>1 DEF JobsInv
    <3>2. CASE k = c
      <4>1. \A e \in Dispatchers : k \notin disp'[e].batch
          BY <2>1, <2>2, <2>4, <3>2
      <4> QED
          BY <2>1, <3>1, <4>1 DEF CalmJob
    <3>3. CASE k # c
      <4>1. \A e \in Dispatchers : k \in disp'[e].batch => k \in disp[e].batch /\ disp'[e].seen[k] = disp[e].seen[k]
          BY <2>2
      <4>2. \A e \in Dispatchers : Settling(e, k)' => (CanRetry(e)' <=> CanRetry(e))
          BY <2>6 DEF Settling, CanRetry
      <4> QED
          BY <2>1, <2>5, <3>1, <3>3, <4>1, <4>2 DEF CalmJob
    <3> QED
        BY <3>2, <3>3
  <2>10. ASSUME NEW k \in Emails \ astray' PROVE CalmDelivery(k)'
    <3>1. CalmDelivery(k) /\ k \in AutoJobs
        BY <1>1, <2>1, JobForms DEF JobsInv
    <3>2. CASE k = c
      <4>1. delivery'[k] = IF CanRetry(d) THEN "PENDING" ELSE "FAILED"
          BY <1>1, <2>1, <3>2 DEF AutomationTypeOK
      <4> QED
          BY <2>1, <2>4, <3>2, <4>1 DEF CalmDelivery
    <3>3. CASE k # c
      <4>1. delivery'[k] = delivery[k]
          BY <1>1, <2>1, <3>3 DEF AutomationTypeOK
      <4> QED
          BY <2>1, <2>5, <3>1, <3>3, <4>1 DEF CalmDelivery
    <3> QED
        BY <3>2, <3>3
  <2> QED
      BY <2>7, <2>8, <2>9, <2>10 DEF JobsInv
<1> QED
    BY <1>4, <1>5

\* A dispatcher that dies lets go of its batch; what it had written of a job and not yet of
\* its delivery is a mishap of that job.
LEMMA DeathStep ==
    ASSUME JobsInv, NEW d \in Dispatchers, DispatcherDies(d)
    PROVE  JobsInv'
<1>1. AutomationTypeOK /\ ArticlesInv
    BY DEF JobsInv
<1>2. /\ disp' \in [Dispatchers -> Dispatches]
      /\ \A e \in Dispatchers : e # d => disp'[e] = disp[e]
      /\ disp'[d].batch = {} /\ disp'[d].pc = "idle" /\ disp'[d].cur = NoJob
  <2>1. IdleDispatcher \in Dispatches
      BY AutomationAssumption DEF IdleDispatcher, Dispatches
  <2> QED
      BY <1>1, <2>1 DEF DispatcherDies, IdleDispatcher, AutomationTypeOK
<1>3. /\ UNCHANGED <<job, delivery, flows, posts, reopened>>
      /\ astray \subseteq astray' /\ astray' \subseteq AutoJobs /\ mishaps' \in 0 .. MaxMishaps
      /\ \A k \in AutoJobs : Settling(d, k) => k \in astray'
    BY <1>1, AutomationAssumption, JobForms DEF DispatcherDies, AutomationTypeOK, Settling
<1>4. AutomationTypeOK'
    BY <1>1, <1>2, <1>3 DEF AutomationTypeOK
<1>5. ArticlesInv'
    BY <1>1, <1>3 DEF ArticlesInv
<1>6. ASSUME NEW k \in AutoJobs \ astray' PROVE CalmJob(k)'
  <2>1. CalmJob(k)
      BY <1>3 DEF JobsInv
  <2> QED
      BY <1>2, <1>3, <2>1 DEF CalmJob, Settling, CanRetry
<1>7. ASSUME NEW k \in Emails \ astray' PROVE CalmDelivery(k)'
  <2>1. CalmDelivery(k) /\ k \in AutoJobs
      BY <1>1, <1>3, JobForms DEF JobsInv
  <2> QED
      BY <1>2, <1>3, <2>1 DEF CalmDelivery, Settling
<1> QED
    BY <1>4, <1>5, <1>6, <1>7 DEF JobsInv

\* The claim gives up what is exhausted and leases the rest to one dispatcher; a job that
\* another one still has in its batch is astray from then on.
LEMMA ClaimStep ==
    ASSUME JobsInv, NEW d \in Dispatchers, ClaimDueAutomationJobs(d)
    PROVE  JobsInv'
<1>1. AutomationTypeOK /\ ArticlesInv
    BY DEF JobsInv
<1>2. PICK new \in SUBSET ClaimableJobs :
         /\ job' = [j \in AutoJobs |->
              CASE j \in Exhausted -> [job[j] EXCEPT !.st = "FAILED", !.lease = "none"]
                [] j \in new -> [st |-> "RUNNING", attempts |-> job[j].attempts + 1, due |-> TRUE, lease |-> "new"]
                [] OTHER -> job[j]]
         /\ delivery' = [j \in Emails |-> IF j \in Exhausted /\ delivery[j] \in {"PENDING", "SENDING"}
                                          THEN "FAILED" ELSE delivery[j]]
         /\ disp' = IF new = {} THEN disp
                    ELSE [disp EXCEPT ![d] = [IdleDispatcher EXCEPT
                            !.pc = "next", !.batch = new,
                            !.seen = [j \in AutoJobs |-> IF j \in new THEN job[j].attempts + 1 ELSE 0]]]
         /\ astray' = astray \cup {j \in new : \E other \in Dispatchers : j \in disp[other].batch}
    BY DEF ClaimDueAutomationJobs
<1>3. disp[d].pc = "idle" /\ UNCHANGED <<flows, posts, reopened, mishaps>>
    BY DEF ClaimDueAutomationJobs
<1>4. /\ new \subseteq AutoJobs
      /\ \A j \in new : /\ job[j].attempts < MaxAttempts /\ job[j].attempts + 1 \in 1 .. MaxAttempts
                        /\ j \notin Exhausted
                        /\ LeaseOver(j) \/ job[j].st = "PENDING"
      /\ \A j \in Exhausted : LeaseOver(j)
      /\ Exhausted \subseteq AutoJobs
  <2>1. new \subseteq AutoJobs /\ Exhausted \subseteq AutoJobs /\ \A j \in Exhausted : LeaseOver(j) /\ ~(job[j].attempts < MaxAttempts)
      BY <1>1, JobForms, AutomationAssumption DEF ClaimableJobs, Exhausted, JobRows
  <2>2. \A j \in new : job[j].attempts < MaxAttempts /\ (LeaseOver(j) \/ job[j].st = "PENDING")
      BY DEF ClaimableJobs
  <2>3. \A j \in new : job[j].attempts \in 0 .. MaxAttempts
      BY <1>1, <2>1, JobForms DEF JobRows
  <2> QED
      BY <2>1, <2>2, <2>3, AutomationAssumption
<1>5. \A j \in AutoJobs :
        /\ job'[j] \in JobRows /\ (job'[j].lease = "none" <=> job'[j].st # "RUNNING")
        /\ j \in Exhausted => job'[j].st = "FAILED"
        /\ j \in new => job'[j].st = "RUNNING" /\ job'[j].lease = "new" /\ job'[j].attempts = job[j].attempts + 1
        /\ j \notin Exhausted /\ j \notin new => job'[j] = job[j]
  <2> SUFFICES ASSUME NEW j \in AutoJobs
               PROVE /\ job'[j] \in JobRows /\ (job'[j].lease = "none" <=> job'[j].st # "RUNNING")
                     /\ j \in Exhausted => job'[j].st = "FAILED"
                     /\ j \in new => job'[j].st = "RUNNING" /\ job'[j].lease = "new" /\ job'[j].attempts = job[j].attempts + 1
                     /\ j \notin Exhausted /\ j \notin new => job'[j] = job[j]
      OBVIOUS
  <2>1. job[j] \in JobRows /\ (job[j].lease = "none" <=> job[j].st # "RUNNING")
      BY <1>1, JobForms DEF AutomationTypeOK
  <2>2. CASE j \in Exhausted
    <3>1. job'[j] = CASE j \in Exhausted -> [job[j] EXCEPT !.st = "FAILED", !.lease = "none"]
                      [] j \in new -> [st |-> "RUNNING", attempts |-> job[j].attempts + 1, due |-> TRUE, lease |-> "new"]
                      [] OTHER -> job[j]
        BY <1>2
    <3>2. j \notin new
        BY <1>4, <2>2
    <3>3. job'[j] = [job[j] EXCEPT !.st = "FAILED", !.lease = "none"]
        BY <2>2, <3>1, <3>2
    <3> QED
        BY <1>4, <2>1, <2>2, <3>2, <3>3 DEF JobRows
  <2>3. CASE j \in new
    <3>1. job'[j] = [st |-> "RUNNING", attempts |-> job[j].attempts + 1, due |-> TRUE, lease |-> "new"]
        BY <1>2, <1>4, <2>3
    <3>2. job[j].attempts + 1 \in 0 .. MaxAttempts
        BY <1>4, <2>3
    <3> QED
        BY <1>4, <2>3, <3>1, <3>2 DEF JobRows
  <2>4. CASE j \notin Exhausted /\ j \notin new
      BY <1>2, <2>1, <2>4
  <2> QED
      BY <2>2, <2>3, <2>4
<1>6. job' \in [AutoJobs -> JobRows]
    BY <1>2, <1>5
<1>7. /\ disp' \in [Dispatchers -> Dispatches]
      /\ \A e \in Dispatchers : e # d => disp'[e] = disp[e]
      /\ new = {} => disp' = disp
      /\ new # {} => /\ disp'[d].pc = "next" /\ disp'[d].cur = NoJob /\ disp'[d].batch = new
                     /\ \A j \in new : disp'[d].seen[j] = job[j].attempts + 1
  <2>1. CASE new = {}
      BY <1>1, <1>2, <2>1 DEF AutomationTypeOK
  <2>2. CASE new # {}
    <3> DEFINE s == [j \in AutoJobs |-> IF j \in new THEN job[j].attempts + 1 ELSE 0]
               row == [IdleDispatcher EXCEPT !.pc = "next", !.batch = new, !.seen = s]
    <3>1. s \in [AutoJobs -> 0 .. MaxAttempts] /\ \A j \in new : s[j] = job[j].attempts + 1
        BY <1>4, AutomationAssumption
    <3>2. disp' = [disp EXCEPT ![d] = row]
        BY <1>2, <2>2
    <3> HIDE DEF s
    <3>3. row \in Dispatches /\ row.pc = "next" /\ row.batch = new /\ row.cur = NoJob /\ row.seen = s
        BY <1>4, <3>1 DEF IdleDispatcher, Dispatches
    <3> HIDE DEF row
    <3> QED
        BY <1>1, <2>2, <3>1, <3>2, <3>3 DEF AutomationTypeOK
  <2> QED
      BY <2>1, <2>2
<1>8. /\ astray \subseteq astray' /\ astray' \subseteq AutoJobs
      /\ \A j \in new : j \notin astray' => \A e \in Dispatchers : j \notin disp[e].batch
    BY <1>1, <1>2, <1>4 DEF AutomationTypeOK
<1>9. AutomationTypeOK'
  <2>1. delivery' \in [Emails -> {"none", "PENDING", "SENDING", "SENT", "FAILED"}]
      BY <1>1, <1>2 DEF AutomationTypeOK
  <2>2. \A e \in Dispatchers :
             /\ disp'[e].pc \in {"idle", "next"} <=> disp'[e].cur = NoJob
             /\ disp'[e].cur # NoJob => disp'[e].cur \in disp'[e].batch
             /\ \A j \in disp'[e].batch : disp'[e].seen[j] > 0
    <3> SUFFICES ASSUME NEW e \in Dispatchers
                 PROVE  /\ disp'[e].pc \in {"idle", "next"} <=> disp'[e].cur = NoJob
                        /\ disp'[e].cur # NoJob => disp'[e].cur \in disp'[e].batch
                        /\ \A j \in disp'[e].batch : disp'[e].seen[j] > 0
        OBVIOUS
    <3>1. CASE disp'[e] = disp[e]
        BY <1>1, <3>1 DEF AutomationTypeOK
    <3>2. CASE e = d /\ new # {}
        BY <1>4, <1>7, <3>2
    <3> QED
        BY <1>7, <3>1, <3>2
  <2> QED
      BY <1>1, <1>3, <1>5, <1>6, <1>7, <1>8, <2>1, <2>2 DEF AutomationTypeOK
<1>10. ArticlesInv'
  <2>1. \A j \in Drafts : j \in AutoJobs /\ (job[j].st = "SUCCEEDED" => job'[j] = job[j])
      BY <1>1, <1>4, <1>5, JobForms DEF LeaseOver
  <2> QED
      BY <1>1, <1>3, <2>1 DEF ArticlesInv
<1>11. ASSUME NEW k \in AutoJobs \ astray' PROVE CalmJob(k)'
  <2>1. CalmJob(k) /\ k \in AutoJobs
      BY <1>8 DEF JobsInv
  <2>2. \A e \in Dispatchers : e # d => (Settling(e, k)' <=> Settling(e, k)) /\ (CanRetry(e)' <=> CanRetry(e))
      BY <1>7 DEF Settling, CanRetry
  <2>3. flows[k] \in Nat /\ (LeaseOver(k) => flows[k] = 0 /\ \A e \in Dispatchers : k \notin disp[e].batch)
      BY <1>1, <2>1, JobForms, AutomationAssumption DEF CalmJob, LeaseOver, Settling
  <2>4. CASE k \in new
    <3>1. \A e \in Dispatchers : k \notin disp[e].batch
        BY <1>8, <2>4
    <3>2. flows[k] = 0
        BY <1>4, <2>1, <2>3, <2>4 DEF CalmJob
    <3>3. \A e \in Dispatchers : k \in disp'[e].batch => e = d
        BY <1>7, <3>1
    <3>4. ~Settling(d, k)' /\ disp'[d].seen[k] = job'[k].attempts
        BY <1>5, <1>7, <2>4 DEF Settling
    <3> QED
        BY <1>3, <1>5, <2>1, <2>4, <3>2, <3>3, <3>4 DEF CalmJob
  <2>5. CASE k \notin new
    <3>1. \A e \in Dispatchers : k \in disp'[e].batch => disp'[e] = disp[e]
        BY <1>7, <2>5
    <3>2. CASE k \in Exhausted
      <4>1. \A e \in Dispatchers : k \notin disp'[e].batch
          BY <1>4, <2>3, <3>1, <3>2
      <4> QED
          BY <1>3, <1>4, <1>5, <2>1, <2>3, <3>2, <4>1 DEF CalmJob
    <3>3. CASE k \notin Exhausted
      <4>1. job'[k] = job[k]
          BY <1>5, <2>5, <3>3
      <4>2. \A e \in Dispatchers : k \in disp'[e].batch =>
              (Settling(e, k)' <=> Settling(e, k)) /\ (CanRetry(e)' <=> CanRetry(e))
          BY <3>1 DEF Settling, CanRetry
      <4> QED
          BY <1>3, <2>1, <3>1, <4>1, <4>2 DEF CalmJob
    <3> QED
        BY <3>2, <3>3
  <2> QED
      BY <2>4, <2>5
<1>12. ASSUME NEW k \in Emails \ astray' PROVE CalmDelivery(k)'
  <2>1. CalmDelivery(k) /\ CalmJob(k) /\ k \in AutoJobs /\ delivery[k] \in {"none", "PENDING", "SENDING", "SENT", "FAILED"}
      BY <1>1, <1>8, JobForms DEF JobsInv, AutomationTypeOK
  <2>2. CASE k \in Exhausted
    <3>1. job[k].st = "RUNNING" /\ job'[k].st = "FAILED"
        BY <1>4, <1>5, <2>1, <2>2 DEF LeaseOver
    <3>2. delivery'[k] = "FAILED"
        BY <1>2, <2>1, <2>2, <3>1 DEF CalmDelivery
    <3> QED
        BY <3>1, <3>2 DEF CalmDelivery
  <2>3. CASE k \notin Exhausted
    <3>1. delivery'[k] = delivery[k]
        BY <1>2, <2>3
    <3>2. CASE k \in new
        BY <1>4, <1>5, <2>1, <3>1, <3>2 DEF CalmDelivery, LeaseOver
    <3>3. CASE k \notin new
      <4>1. job'[k] = job[k]
          BY <1>5, <2>1, <2>3, <3>3
      <4>2. \A e \in Dispatchers : Settling(e, k) => Settling(e, k)'
        <5> SUFFICES ASSUME NEW e \in Dispatchers, Settling(e, k) PROVE Settling(e, k)'
            OBVIOUS
        <5>1. e # d
            BY <1>3 DEF Settling
        <5> QED
            BY <1>7, <5>1 DEF Settling
      <4> QED
          BY <2>1, <3>1, <4>1, <4>2 DEF CalmDelivery
    <3> QED
        BY <3>2, <3>3
  <2> QED
      BY <2>2, <2>3
<1> QED
    BY <1>9, <1>10, <1>11, <1>12 DEF JobsInv

LEMMA JobsNext == JobsInv /\ [AutomationNext]_autoVars => JobsInv'
<1> SUFFICES ASSUME JobsInv, [AutomationNext]_autoVars PROVE JobsInv'
    OBVIOUS
<1>1. CASE \E j \in Emails : EnqueueEmail(j) \/ CompleteJob(j)
    BY <1>1, QuietJobSteps, CallbackSteps DEF AutoJobs
<1>2. CASE \E j \in Drafts : CreateAiDraftRequest(j) \/ ApplyAiDraftResult(j)
    BY <1>2, QuietJobSteps, DraftStep DEF AutoJobs
<1>3. CASE \E j \in AutoJobs : FailJob(j) \/ FlowDies(j) \/ RetryJob(j) \/ CancelJob(j)
    BY <1>3, QuietJobSteps, CallbackSteps
<1>4. CASE \E j \in AutoJobs : RetryComesDue(j) \/ JobLeaseRunsOut(j)
    BY <1>4, QuietJobSteps
<1>5. CASE \E d \in Dispatchers : Dispatch(d) \/ PostAnswerLost(d) \/ DispatcherDies(d)
    BY <1>5, ClaimStep, MarkAndRefuse, PostSteps, SettleSteps, DeathStep DEF Dispatch
<1>6. CASE UNCHANGED autoVars
    BY <1>6 DEF autoVars, JobsInv, AutomationTypeOK, ArticlesInv, CalmJob, CalmDelivery, Settling, CanRetry
<1> QED
    BY <1>1, <1>2, <1>3, <1>4, <1>5, <1>6 DEF AutomationNext

\* However claims, posts, callbacks, crashes, lost answers and administrators interleave, for
\* any number of jobs, dispatchers and attempts: at most one article is created for a job
\* whose end no dispatcher took back, and a job that nothing went wrong with between worker
\* and n8n keeps its end, can be claimed while it waits, and has a delivery that says the same.
THEOREM JobsAlwaysAgree == AutomationSpec => []JobsAgree
<1>1. JobsInv => JobsAgree
  <2> SUFFICES ASSUME JobsInv PROVE JobsAgree
      OBVIOUS
  <2>1. OneArticlePerJob
      BY DEF JobsInv, ArticlesInv, OneArticlePerJob
  <2>2. ASSUME NEW j \in AutoJobs \ astray
        PROVE  /\ j \notin reopened
               /\ job[j].st = "PENDING" => job[j].attempts < MaxAttempts
      BY DEF JobsInv, CalmJob
  <2>3. ASSUME NEW j \in AutoJobs \ astray, j \in Emails, \A d \in Dispatchers : disp[d].cur # j
        PROVE  /\ job[j].st = "SUCCEEDED" => delivery[j] = "SENT"
               /\ job[j].st = "FAILED" => delivery[j] = "FAILED"
               /\ delivery[j] = "SENT" => job[j].st = "SUCCEEDED"
      BY <2>3 DEF JobsInv, CalmDelivery, Settling
  <2> QED
      BY <2>1, <2>2, <2>3 DEF JobsAgree, UndisturbedJobsAgree
<1> QED
    BY <1>1, JobsInit, JobsNext, PTL DEF AutomationSpec

-----------------------------------------------------------------------------
(***************************************************************************)
(* Hosting                                                                 *)
(***************************************************************************)

\* The accounts that the count of s should be the number of.
Occupied(s) == {h \in Homes : place[h] = s /\ Counted(hosting[h])}

\* A task that is to write a status may go there from the status it read.
WritesAreLegal ==
    \A t \in HostingTasks : task[t].pc \in {"panel", "write"} =>
      /\ task[t].op \in {"SUSPENDED", "ACTIVE", "TERMINATED"}
      /\ task[t].read # "none" /\ ValidHostingTransition(task[t].read, task[t].op)

\* The accounts of a server are finitely many, which no constant has to say.
CountsAreRight ==
    \A s \in Servers \ drifted : IsFiniteSet(Occupied(s)) /\ activeAccounts[s] = Cardinality(Occupied(s))

HostingInv == HostingTypeOK /\ WritesAreLegal /\ CountsAreRight

\* What a task holds from its first step on.
TaskForms == [pc : {"insert", "panel", "write", "create", "created", "failed"}, h : Homes, s : Servers,
              read : HostingStatus, op : {"row", "account", "SUSPENDED", "ACTIVE", "TERMINATED"}]

LEMMA TaskForm ==
    ASSUME HostingTypeOK, NEW t \in HostingTasks, task[t] # NoTask
    PROVE  task[t] \in TaskForms
BY DEF HostingTypeOK, TaskForms

\* A change of the row of one account changes whom that account is counted with, and no other.
LEMMA OneRowChanges ==
    ASSUME HostingTypeOK, NEW h \in Homes, NEW st \in HostingStatus, NEW p \in Servers,
           hosting' = [hosting EXCEPT ![h] = st], place' = [place EXCEPT ![h] = p], NEW s \in Servers
    PROVE  /\ p = s /\ Counted(st) => Occupied(s)' = Occupied(s) \cup {h}
           /\ ~(p = s /\ Counted(st)) => Occupied(s)' = Occupied(s) \ {h}
           /\ h \in Occupied(s) <=> place[h] = s /\ Counted(hosting[h])
BY DEF HostingTypeOK, Occupied

\* A finite set that takes an element in or lets one go.
LEMMA InAndOut ==
    ASSUME NEW S, NEW x, IsFiniteSet(S)
    PROVE  /\ IsFiniteSet(S \cup {x}) /\ IsFiniteSet(S \ {x}) /\ Cardinality(S) \in Nat
           /\ x \in S => Cardinality(S \cup {x}) = Cardinality(S) /\ Cardinality(S \ {x}) = Cardinality(S) - 1
           /\ x \notin S => Cardinality(S \cup {x}) = Cardinality(S) + 1 /\ Cardinality(S \ {x}) = Cardinality(S)
BY FS_AddElement, FS_RemoveElement, FS_CardinalityType

LEMMA HostingInitially == HostingInit => HostingInv
<1> USE HostingAssumption
<1> SUFFICES ASSUME HostingInit PROVE HostingInv
    OBVIOUS
<1>1. HostingTypeOK
  <2>1. [h \in Homes |-> CHOOSE s \in Servers : TRUE] \in [Homes -> Servers]
      OBVIOUS
  <2>2. place \in [Homes -> Servers]
      BY <2>1 DEF HostingInit
  <2> QED
      BY <2>2 DEF HostingInit, HostingTypeOK, HostingStatus
<1>2. WritesAreLegal
    BY DEF HostingInit, WritesAreLegal, NoTask
<1>3. CountsAreRight
  <2>1. \A s \in Servers : Occupied(s) = {}
      BY DEF HostingInit, Occupied, Counted
  <2> QED
      BY <2>1, FS_EmptySet DEF HostingInit, CountsAreRight
<1> QED
    BY <1>1, <1>2, <1>3 DEF HostingInv

\* A step that writes no row and no count.
LEMMA NoRowWritten ==
    ASSUME HostingInv, UNCHANGED <<hosting, place, activeAccounts, drifted>>
    PROVE  CountsAreRight'
BY DEF HostingInv, CountsAreRight, Occupied

\* A step that writes the row of one account, moves the counts with it, and puts into
\* drifted the servers whose count no longer fits.
WritesRow(h, st, p) ==
    /\ hosting' = [hosting EXCEPT ![h] = st] /\ place' = [place EXCEPT ![h] = p]
    /\ drifted \subseteq drifted'
    /\ \A s \in Servers \ drifted' :
         activeAccounts'[s] = activeAccounts[s] + (IF p = s /\ Counted(st) THEN 1 ELSE 0)
                                                - (IF place[h] = s /\ Counted(hosting[h]) THEN 1 ELSE 0)

LEMMA OneRowWritten ==
    ASSUME HostingInv, NEW h \in Homes, NEW st \in HostingStatus, NEW p \in Servers, WritesRow(h, st, p)
    PROVE  CountsAreRight'
<1> SUFFICES ASSUME NEW s \in Servers \ drifted'
             PROVE  IsFiniteSet(Occupied(s)') /\ activeAccounts'[s] = Cardinality(Occupied(s)')
    BY DEF CountsAreRight
<1> USE DEF WritesRow
<1> DEFINE B == Occupied(s)
<1>1. HostingTypeOK /\ IsFiniteSet(B) /\ activeAccounts[s] = Cardinality(B) /\ activeAccounts[s] \in Int
    BY DEF HostingInv, CountsAreRight, HostingTypeOK
<1>2. /\ p = s /\ Counted(st) => Occupied(s)' = B \cup {h}
      /\ ~(p = s /\ Counted(st)) => Occupied(s)' = B \ {h}
      /\ h \in B <=> place[h] = s /\ Counted(hosting[h])
    BY <1>1, OneRowChanges
<1> HIDE DEF B
<1>3. /\ IsFiniteSet(B \cup {h}) /\ IsFiniteSet(B \ {h})
      /\ h \in B => Cardinality(B \cup {h}) = Cardinality(B) /\ Cardinality(B \ {h}) = Cardinality(B) - 1
      /\ h \notin B => Cardinality(B \cup {h}) = Cardinality(B) + 1 /\ Cardinality(B \ {h}) = Cardinality(B)
    BY <1>1, InAndOut
<1>4. activeAccounts'[s] = activeAccounts[s] + (IF p = s /\ Counted(st) THEN 1 ELSE 0) - (IF h \in B THEN 1 ELSE 0)
    BY <1>2
<1> DEFINE C == Occupied(s)'
<1>5. IsFiniteSet(C) /\ Cardinality(C) = Cardinality(B) + (IF p = s /\ Counted(st) THEN 1 ELSE 0) - (IF h \in B THEN 1 ELSE 0)
  <2>1. CASE p = s /\ Counted(st)
    <3>1. C = B \cup {h}
        BY <1>2, <2>1
    <3> HIDE DEF C
    <3> QED
        BY <1>1, <1>3, <2>1, <3>1
  <2>2. CASE ~(p = s /\ Counted(st))
    <3>1. C = B \ {h}
        BY <1>2, <2>2
    <3> HIDE DEF C
    <3> QED
        BY <1>1, <1>3, <2>2, <3>1
  <2> QED
      BY <2>1, <2>2
<1> QED
    BY <1>1, <1>4, <1>5

\* Tasks that begin, and what they read.
LEMMA BeginSteps ==
    ASSUME HostingInv, NEW t \in HostingTasks, NEW what \in TaskForms, BeginTask(t, what),
           what.pc \in {"panel", "write"} =>
             /\ what.op \in {"SUSPENDED", "ACTIVE", "TERMINATED"}
             /\ what.read # "none" /\ ValidHostingTransition(what.read, what.op)
    PROVE  HostingInv'
<1>1. HostingTypeOK'
    BY HostingAssumption DEF HostingInv, HostingTypeOK, BeginTask, TaskForms
<1>2. WritesAreLegal'
    BY DEF HostingInv, HostingTypeOK, WritesAreLegal, BeginTask
<1>3. CountsAreRight'
    BY NoRowWritten DEF BeginTask
<1> QED
    BY <1>1, <1>2, <1>3 DEF HostingInv

\* Tasks that go on, or end, but to write a status.
LEMMA TaskGoesOn ==
    ASSUME HostingInv, NEW t \in HostingTasks, task[t] # NoTask,
           NEW pc \in {"write", "create", "created", "failed"}, pc = "write" => task[t].pc = "panel",
           Continue(t, pc) \/ EndTask(t)
    PROVE  /\ task' \in [HostingTasks -> {NoTask} \cup TaskForms]
           /\ WritesAreLegal'
<1>1. task \in [HostingTasks -> {NoTask} \cup TaskForms] /\ task[t] \in TaskForms
    BY TaskForm DEF HostingInv, HostingTypeOK, TaskForms
<1>2. CASE EndTask(t)
    BY <1>1, <1>2 DEF EndTask, HostingInv, WritesAreLegal, NoTask
<1>3. CASE Continue(t, pc)
  <2> DEFINE row == [task[t] EXCEPT !.pc = pc]
  <2>1. /\ row \in TaskForms
        /\ row.pc = pc /\ row.op = task[t].op /\ row.read = task[t].read
      BY <1>1 DEF TaskForms
  <2>2. task' = [task EXCEPT ![t] = row]
      BY <1>1, <1>3 DEF Continue
  <2> HIDE DEF row
  <2> QED
      BY <1>1, <2>1, <2>2 DEF HostingInv, WritesAreLegal
<1> QED
    BY <1>2, <1>3

LEMMA PanelSteps ==
    ASSUME HostingInv, NEW t \in HostingTasks,
           \/ TaskDies(t) \/ PanelFails(t)
           \/ \E yes \in BOOLEAN : CallPanel(t, yes) \/ CreateAtPanel(t, yes)
    PROVE  HostingInv'
<1>1. HostingTypeOK /\ task[t] # NoTask /\ task[t] \in TaskForms
    BY TaskForm DEF HostingInv, TaskDies, PanelFails, CallPanel, CreateAtPanel, NoTask
<1>2. /\ UNCHANGED <<hosting, place, activeAccounts, begun, drifted>>
      /\ panel' \in [Servers -> SUBSET Homes]
    BY <1>1 DEF TaskDies, PanelFails, CallPanel, CreateAtPanel, TaskForms, HostingTypeOK
<1>3. \E pc \in {"write", "create", "created", "failed"} :
         (pc = "write" => task[t].pc = "panel") /\ (Continue(t, pc) \/ EndTask(t))
    BY DEF TaskDies, PanelFails, CallPanel, CreateAtPanel
<1>4. task' \in [HostingTasks -> {NoTask} \cup TaskForms] /\ WritesAreLegal'
    BY <1>1, <1>3, TaskGoesOn
<1>5. HostingTypeOK'
    BY <1>1, <1>2, <1>4 DEF HostingTypeOK, TaskForms
<1> QED
    BY <1>2, <1>4, <1>5, NoRowWritten DEF HostingInv

LEMMA RowSteps ==
    ASSUME HostingInv, NEW t \in HostingTasks,
           InsertRow(t) \/ UpsertRow(t) \/ WriteStatus(t) \/ ActivateAccount(t) \/ FailAccount(t)
    PROVE  HostingInv'
<1>1. HostingTypeOK /\ task[t] # NoTask /\ task[t] \in TaskForms
    BY TaskForm DEF HostingInv, InsertRow, UpsertRow, WriteStatus, ActivateAccount, FailAccount, NoTask
<1> DEFINE h == task[t].h
           s == task[t].s
<1>2. h \in Homes /\ s \in Servers /\ place[h] \in Servers /\ hosting[h] \in HostingStatus /\ drifted \subseteq Servers
    BY <1>1 DEF TaskForms, HostingTypeOK
<1>3. task' \in [HostingTasks -> {NoTask} \cup TaskForms] /\ WritesAreLegal'
  <2>1. Continue(t, "create") \/ EndTask(t)
      BY DEF InsertRow, UpsertRow, CreateRow, WriteStatus, ActivateAccount, FailAccount, Outcome
  <2> QED
      BY <1>1, <2>1, TaskGoesOn
<1>4. activeAccounts \in [Servers -> Int] /\ place = [place EXCEPT ![h] = place[h]]
    BY <1>1, <1>2 DEF HostingTypeOK
<1>5. ASSUME NEW st \in HostingStatus, NEW p \in Servers,
             hosting' = [hosting EXCEPT ![h] = st], place' = [place EXCEPT ![h] = p],
             activeAccounts' \in [Servers -> Int], UNCHANGED <<panel, begun>>,
             drifted' \in {drifted, drifted \cup {s, place[h]}},
             \A o \in Servers \ drifted' :
               activeAccounts'[o] = activeAccounts[o] + (IF p = o /\ Counted(st) THEN 1 ELSE 0)
                                                      - (IF place[h] = o /\ Counted(hosting[h]) THEN 1 ELSE 0)
      PROVE  HostingInv'
  <2> HIDE DEF h, s
  <2>3. WritesRow(h, st, p) /\ h \in Homes
      BY <1>2, <1>5 DEF WritesRow
  <2>1. CountsAreRight'
      BY <2>3, OneRowWritten
  <2>2. HostingTypeOK'
      BY <1>1, <1>2, <1>3, <1>5 DEF HostingTypeOK, TaskForms
  <2> QED
      BY <1>3, <2>1, <2>2 DEF HostingInv
\* The row becomes PROVISIONING on the server of the task, which books nothing.
<1>6. ASSUME hosting' = [hosting EXCEPT ![h] = "PROVISIONING"], place' = [place EXCEPT ![h] = s],
             drifted' = drifted \cup (IF Counted(hosting[h]) THEN {s, place[h]} ELSE {}),
             UNCHANGED <<activeAccounts, panel, begun>>
      PROVE  HostingInv'
  <2>1. "PROVISIONING" \in HostingStatus /\ ~Counted("PROVISIONING")
      BY DEF HostingStatus, Counted
  <2> HIDE DEF h, s
  <2>2. drifted' \in {drifted, drifted \cup {s, place[h]}} /\ UNCHANGED <<panel, begun>>
      BY <1>6
  <2>3. \A o \in Servers \ drifted' :
               activeAccounts'[o] = activeAccounts[o] + (IF s = o /\ Counted("PROVISIONING") THEN 1 ELSE 0)
                                                      - (IF place[h] = o /\ Counted(hosting[h]) THEN 1 ELSE 0)
      BY <1>2, <1>4, <1>6, <2>1
  <2> QED
      BY <1>2, <1>4, <1>5, <1>6, <2>1, <2>2, <2>3
<1>7. CASE InsertRow(t) \/ UpsertRow(t)
  <2>1. CASE hosting[h] # "none" /\ (InsertRow(t) \/ task[t].read = "none")
    <3>1. UNCHANGED <<hosting, place, activeAccounts, panel, begun, drifted>>
        BY <1>7, <2>1 DEF InsertRow, UpsertRow, CreateRow
    <3>2. CountsAreRight'
        BY <3>1, NoRowWritten
    <3>3. HostingTypeOK'
        BY <1>1, <1>3, <3>1 DEF HostingTypeOK, TaskForms
    <3> QED
        BY <1>3, <3>2, <3>3 DEF HostingInv
  <2>2. CASE ~(hosting[h] # "none" /\ (InsertRow(t) \/ task[t].read = "none"))
    <3>1. /\ hosting' = [hosting EXCEPT ![h] = "PROVISIONING"] /\ place' = [place EXCEPT ![h] = s]
          /\ UNCHANGED <<activeAccounts, panel, begun>>
        BY <1>7, <2>2 DEF InsertRow, UpsertRow, CreateRow
    <3>2. drifted' = drifted \cup (IF Counted(hosting[h]) THEN {s, place[h]} ELSE {})
        BY <1>7, <2>2 DEF InsertRow, UpsertRow, Counted
    <3> QED
        BY <1>6, <3>1, <3>2
  <2> QED
      BY <2>1, <2>2
<1>8. CASE WriteStatus(t)
  <2> DEFINE st == task[t].op
             n == Drops(t)
  <2>1. /\ hosting' = [hosting EXCEPT ![h] = st] /\ place' = [place EXCEPT ![h] = place[h]]
        /\ activeAccounts' = [activeAccounts EXCEPT ![s] = @ - n]
        /\ drifted' = drifted \cup (IF Misbooks(t) THEN {s, place[h]} ELSE {})
        /\ UNCHANGED <<panel, begun>>
      BY <1>4, <1>8 DEF WriteStatus
  <2>2. /\ st \in {"SUSPENDED", "ACTIVE", "TERMINATED"} /\ st \in HostingStatus
        /\ task[t].read # "none" /\ ValidHostingTransition(task[t].read, st)
      BY <1>8 DEF HostingInv, WritesAreLegal, WriteStatus, HostingStatus
  <2>3. n \in {0, 1}
      BY DEF Drops
  <2>4. ~Misbooks(t) => /\ place[h] = s
                        /\ 0 - n = (IF Counted(st) THEN 1 ELSE 0) - (IF Counted(hosting[h]) THEN 1 ELSE 0)
      BY <2>2 DEF Misbooks, Drops, Counted, ValidHostingTransition, HostingStatus
  <2> HIDE DEF h, s, st, n
  <2>5. activeAccounts' \in [Servers -> Int] /\ drifted' \in {drifted, drifted \cup {s, place[h]}}
      BY <1>2, <1>4, <2>1, <2>3
  <2>6. \A o \in Servers : activeAccounts'[o] = activeAccounts[o] + (IF o = s THEN 0 - n ELSE 0)
      BY <1>2, <1>4, <2>1, <2>3
  <2>7. \A o \in Servers \ drifted' :
               activeAccounts'[o] = activeAccounts[o] + (IF place[h] = o /\ Counted(st) THEN 1 ELSE 0)
                                                      - (IF place[h] = o /\ Counted(hosting[h]) THEN 1 ELSE 0)
      BY <1>2, <1>4, <2>1, <2>3, <2>4, <2>6
  <2> QED
      BY <1>2, <1>5, <2>1, <2>2, <2>5, <2>7
<1>9. CASE ActivateAccount(t) \/ FailAccount(t)
  <2>1. PICK st \in {"ACTIVE", "FAILED"} :
          /\ Outcome(t, st)
          /\ IF st = "ACTIVE" THEN activeAccounts' = [activeAccounts EXCEPT ![s] = @ + 1] ELSE UNCHANGED activeAccounts
      BY <1>9 DEF ActivateAccount, FailAccount
  <2>2. /\ hosting' = [hosting EXCEPT ![h] = st] /\ place' = [place EXCEPT ![h] = place[h]]
        /\ drifted' = drifted \cup (IF hosting[h] # "PROVISIONING" \/ place[h] # s THEN {s, place[h]} ELSE {})
        /\ UNCHANGED <<panel, begun>>
      BY <1>4, <2>1 DEF Outcome
  <2>3. st \in HostingStatus /\ (Counted(st) <=> st = "ACTIVE") /\ ~Counted("PROVISIONING")
      BY DEF HostingStatus, Counted
  <2> HIDE DEF h, s
  <2>4. activeAccounts' \in [Servers -> Int] /\ drifted' \in {drifted, drifted \cup {s, place[h]}}
      BY <1>2, <1>4, <2>1, <2>2
  <2>5. \A o \in Servers \ drifted' :
               activeAccounts'[o] = activeAccounts[o] + (IF place[h] = o /\ Counted(st) THEN 1 ELSE 0)
                                                      - (IF place[h] = o /\ Counted(hosting[h]) THEN 1 ELSE 0)
      BY <1>2, <1>4, <2>1, <2>2, <2>3
  <2> QED
      BY <1>2, <1>5, <2>2, <2>3, <2>4, <2>5
<1> QED
    BY <1>7, <1>8, <1>9

LEMMA HostingSteps == HostingInv /\ [HostingNext]_hostingVars => HostingInv'
<1> SUFFICES ASSUME HostingInv, [HostingNext]_hostingVars PROVE HostingInv'
    OBVIOUS
<1>1. ASSUME NEW t \in HostingTasks, NEW h \in Homes,
             \/ FindServer(t, h) \/ ReadForSuspension(t, h) \/ AdminRetryProvision(t, h)
             \/ \E op \in {"SUSPENDED", "ACTIVE", "TERMINATED"} : AdminChangeStatus(t, h, op)
             \/ \E s \in Servers : Provision(t, h, s)
      PROVE  HostingInv'
  <2>1. place[h] \in Servers /\ hosting[h] \in HostingStatus
      BY DEF HostingInv, HostingTypeOK
  <2>2. CASE FindServer(t, h)
    <3>1. PICK s \in Servers : BeginTask(t, [pc |-> "insert", h |-> h, s |-> s, read |-> "none", op |-> "row"])
        BY <2>2 DEF FindServer, Emptiest, WithRoom
    <3> QED
        BY <3>1, BeginSteps DEF TaskForms, HostingStatus
  <2>3. CASE ReadForSuspension(t, h)
      BY <2>1, <2>3, BeginSteps DEF ReadForSuspension, TaskForms, HostingStatus, ValidHostingTransition
  <2>4. CASE \E s \in Servers : Provision(t, h, s)
      BY <2>1, <2>4, BeginSteps DEF Provision, TaskForms
  <2>5. CASE AdminRetryProvision(t, h)
      BY <2>1, <2>4, <2>5 DEF AdminRetryProvision
  <2>6. CASE \E op \in {"SUSPENDED", "ACTIVE", "TERMINATED"} : AdminChangeStatus(t, h, op)
      BY <2>1, <2>6, BeginSteps DEF AdminChangeStatus, TaskForms
  <2> QED
      BY <1>1, <2>2, <2>3, <2>4, <2>5, <2>6
<1>2. CASE UNCHANGED hostingVars
    BY <1>2, NoRowWritten DEF hostingVars, HostingInv, HostingTypeOK, WritesAreLegal
<1> QED
    BY <1>1, <1>2, RowSteps, PanelSteps DEF HostingNext

\* For any number of accounts, servers and tasks, the count of a server is the number of its
\* accounts that are active or suspended, unless one of the steps the model names as
\* miscounting touched that server: no crash, no refusal and no lost answer of a panel, and
\* no other order of requests and orders, puts a count wrong.
THEOREM CountsDriftOnlyByTheseSteps == HostingSpec => []OnlyTheseStepsMiscount
<1>1. HostingInv => OnlyTheseStepsMiscount
    BY DEF HostingInv, CountsAreRight, Occupied, OnlyTheseStepsMiscount
<1> QED
    BY <1>1, HostingInitially, HostingSteps, PTL DEF HostingSpec

-----------------------------------------------------------------------------
(***************************************************************************)
(* Support tickets                                                         *)
(***************************************************************************)

\* A message is younger than updated_at, or than seven days when updated_at is not, only if
\* the staff wrote it; and what the worker has read of a ticket that nobody wrote since says so.
IdleInv ==
    /\ unmarked => lastWord = "staff"
    /\ old /\ ~quiet => lastWord = "staff"
    /\ \A t \in TicketTasks :
         ticketTask[t] # NoTicketTask /\ ticketTask[t].op = "worker" /\ ~ticketTask[t].stale /\ ~quiet
           => lastWord = "staff"

TicketsInv == TicketsTypeOK /\ IdleInv

TicketTaskForms ==
    [op : {"customer", "staff", "admin", "worker"}, to : TicketStatus, read : TicketStatus, stale : BOOLEAN]

LEMMA TicketsInitially == TicketsInit => TicketsInv
<1> SUFFICES ASSUME TicketsInit PROVE TicketsInv
    OBVIOUS
<1>1. ticket \in TicketStatus /\ lastWord \in {"customer", "staff"} /\ ticketTasks \in 0 .. MaxTicketTasks
    BY TicketsAssumption DEF TicketsInit, TicketStatus
<1>2. /\ old \in BOOLEAN /\ quiet \in BOOLEAN /\ unmarked \in BOOLEAN /\ ~old /\ ~unmarked
      /\ \A t \in TicketTasks : ticketTask[t] = NoTicketTask
    BY DEF TicketsInit
<1>3. ticketTask \in [TicketTasks -> {NoTicketTask}]
    BY DEF TicketsInit
<1> QED
    BY <1>1, <1>2, <1>3 DEF TicketsInv, TicketsTypeOK, IdleInv

\* A task that ends makes what all the others have read stale.
LEMMA OthersAreStale ==
    ASSUME TicketsInv, NEW t \in TicketTasks, TicketTaskEnds(t)
    PROVE  /\ ticketTask' \in [TicketTasks -> {NoTicketTask} \cup TicketTaskForms]
           /\ \A o \in TicketTasks : ticketTask'[o] # NoTicketTask => ticketTask'[o].stale
<1> SUFFICES ASSUME NEW o \in TicketTasks
             PROVE  /\ ticketTask'[o] \in {NoTicketTask} \cup TicketTaskForms
                    /\ ticketTask'[o] # NoTicketTask => ticketTask'[o].stale
    BY DEF TicketTaskEnds
<1>1. ticketTask[o] \in {NoTicketTask} \cup TicketTaskForms
    BY DEF TicketsInv, TicketsTypeOK, TicketTaskForms
<1>2. ticketTask'[o] = IF o = t \/ ticketTask[o] = NoTicketTask THEN NoTicketTask
                       ELSE [ticketTask[o] EXCEPT !.stale = TRUE]
    BY DEF TicketTaskEnds
<1> HIDE DEF NoTicketTask
<1> QED
    BY <1>1, <1>2 DEF TicketTaskForms

LEMMA TicketSteps == TicketsInv /\ [TicketsNext]_ticketVars => TicketsInv'
<1> USE TicketsAssumption
<1> SUFFICES ASSUME TicketsInv, [TicketsNext]_ticketVars PROVE TicketsInv'
    OBVIOUS
<1>1. TicketsTypeOK /\ IdleInv
    BY DEF TicketsInv
<1>2. CASE TimePasses
    BY <1>1, <1>2 DEF TimePasses, TicketsInv, TicketsTypeOK, IdleInv
<1>3. ASSUME NEW t \in TicketTasks, NEW op \in {"customer", "staff", "admin", "worker"}, NEW to \in TicketStatus,
             ReadTicket(t, op, to), op = "worker" => old
      PROVE  TicketsInv'
  <2> DEFINE row == [op |-> op, to |-> to, read |-> ticket, stale |-> FALSE]
  <2>1. row \in TicketTaskForms /\ row.op = op
      BY <1>1 DEF TicketTaskForms, TicketsTypeOK
  <2>2. ticketTask' = [ticketTask EXCEPT ![t] = row] /\ UNCHANGED <<ticket, lastWord, old, quiet, unmarked>>
      BY <1>3 DEF ReadTicket
  <2>3. ticketTasks' \in 0 .. MaxTicketTasks
      BY <1>1, <1>3 DEF ReadTicket, TicketsTypeOK
  <2> HIDE DEF row
  <2>4. TicketsTypeOK'
      BY <1>1, <2>1, <2>2, <2>3 DEF TicketsTypeOK, TicketTaskForms
  <2>5. IdleInv'
      BY <1>1, <1>3, <2>1, <2>2 DEF TicketsTypeOK, IdleInv
  <2> QED
      BY <2>4, <2>5 DEF TicketsInv
<1>4. CASE \E t \in TicketTasks : ReplyTicket(t) \/ AdminReplyTicket(t) \/ ReconcileIdleTickets(t)
                                  \/ \E to \in TicketStatus : AdminUpdateTicket(t, to)
    BY <1>1, <1>3, <1>4 DEF ReplyTicket, AdminReplyTicket, ReconcileIdleTickets, AdminUpdateTicket,
                            StatusOnReply, TicketStatus
<1>5. ASSUME NEW t \in TicketTasks, WriteTicket(t) \/ WriteStaffReply(t)
      PROVE  TicketsInv'
  <2>1. /\ ticketTask[t].op \in {"customer", "admin", "worker", "staff"} /\ TicketTaskEnds(t)
        /\ UNCHANGED ticketTasks
      BY <1>5 DEF WriteTicket, WriteStaffReply
  <2>2. ticketTask[t].to \in TicketStatus
      BY <1>1, <2>1 DEF TicketsTypeOK, NoTicketTask
  <2>3. /\ ticketTask' \in [TicketTasks -> {NoTicketTask} \cup TicketTaskForms]
        /\ \A o \in TicketTasks : ticketTask'[o] # NoTicketTask => ticketTask'[o].stale
      BY <2>1, OthersAreStale
  <2>4. /\ ticket' \in TicketStatus /\ lastWord' \in {"customer", "staff"}
        /\ old' \in BOOLEAN /\ quiet' \in BOOLEAN /\ unmarked' \in BOOLEAN
        /\ unmarked' => lastWord' = "staff"
        /\ old' /\ ~quiet' => lastWord' = "staff"
      BY <1>1, <1>5, <2>2 DEF WriteTicket, WriteStaffReply, TicketsTypeOK, IdleInv
  <2>5. TicketsTypeOK'
      BY <1>1, <2>1, <2>3, <2>4 DEF TicketsTypeOK, TicketTaskForms
  <2> QED
      BY <2>3, <2>4, <2>5 DEF TicketsInv, IdleInv
<1>6. CASE \E t \in TicketTasks : TicketTaskDies(t)
    BY <1>1, <1>6 DEF TicketTaskDies, TicketsInv, TicketsTypeOK, IdleInv
<1>7. CASE UNCHANGED ticketVars
    BY <1>1, <1>7 DEF ticketVars, TicketsInv, TicketsTypeOK, IdleInv
<1> QED
    BY <1>2, <1>4, <1>5, <1>6, <1>7 DEF TicketsNext

\* However replies, decisions and idle closings of any number of requests and workers
\* interleave, the worker closes a ticket with a message younger than seven days only if that
\* message came after the worker had looked, or was a reply of the staff that left updated_at
\* as it was.
THEOREM ClosedOnlyAsTheSweepSawIt == TicketsSpec => ActiveTicketsAreSpared
<1> DEFINE Spared == \A t \in TicketTasks :
             (ticketTask[t] # NoTicketTask /\ ticketTask[t].op = "worker" /\ Writes(t) /\ ticket' # ticket /\ ~quiet)
               => ticketTask[t].stale \/ lastWord = "staff"
<1>1. TicketsInv /\ [TicketsNext]_ticketVars => [Spared]_ticketVars
    BY DEF TicketsInv, IdleInv
<1>2. TicketsSpec => [][Spared]_ticketVars
    BY <1>1, TicketsInitially, TicketSteps, PTL DEF TicketsSpec
<1> QED
    BY <1>2 DEF ActiveTicketsAreSpared

-----------------------------------------------------------------------------
(***************************************************************************)
(* The back office, side by side                                           *)
(***************************************************************************)

\* Every part of the composition runs as its own specification allows: a step of one part
\* is a step of it, and a stutter of the others.
LEMMA DeskRunsItsParts ==
    DeskSpec => Spec /\ AutomationSpec /\ HostingSpec /\ TicketsSpec /\ InquiriesSpec /\ ProjectsSpec
<1>1. DeskInit => Init /\ AutomationInit /\ HostingInit /\ TicketsInit /\ InquiriesInit /\ ProjectsInit
    BY DEF DeskInit
<1>2. [DeskNext]_deskVars =>
        /\ [Next]_vars /\ [AutomationNext]_autoVars /\ [HostingNext]_hostingVars
        /\ [TicketsNext]_ticketVars /\ [InquiriesNext]_inquiryVars /\ [ProjectsNext]_projectVars
    BY DEF DeskNext, Books, Jobs, Accounts, OneTicket, OneInquiry, OneProject, deskVars
<1> QED
    BY <1>1, <1>2, PTL DEF DeskSpec, Spec, AutomationSpec, HostingSpec, TicketsSpec, InquiriesSpec, ProjectsSpec

\* What was begun on a project is one of the requests there are.
LEMMA ProjectShapes == ProjectsInv => ProjectsTypeOK
BY DEF ProjectsInv, ProjectsTypeOK, Requests

\* The composition the run explores, for any constants: invoices, jobs, accounts, tickets,
\* inquiries and projects keep their shape.
THEOREM DeskKeepsItsShape == DeskSpec => []DeskTypeOK
<1>1. AutomationSpec => []JobsInv
    BY JobsInit, JobsNext, PTL DEF AutomationSpec
<1>2. HostingSpec => []HostingInv
    BY HostingInitially, HostingSteps, PTL DEF HostingSpec
<1>3. TicketsSpec => []TicketsInv
    BY TicketsInitially, TicketSteps, PTL DEF TicketsSpec
<1>4. InquiriesSpec => []InquiriesInv
    BY InquiriesInitially, InquirySteps, PTL DEF InquiriesSpec
<1>5. ProjectsSpec => []ProjectsInv
    BY ProjectsInitially, ProjectsSteps, PTL DEF ProjectsSpec
<1>6. TypeOK /\ JobsInv /\ HostingInv /\ TicketsInv /\ InquiriesInv /\ ProjectsInv => DeskTypeOK
    BY ProjectShapes DEF DeskTypeOK, JobsInv, HostingInv, TicketsInv, InquiriesInv
<1> QED
    BY <1>1, <1>2, <1>3, <1>4, <1>5, <1>6, DeskRunsItsParts, FinanceTypeCorrect, PTL

\* What is proved of the parts holds in the composition: payments are booked as invoiced and
\* refunds reverse them, jobs agree with their deliveries, counts of servers drift only by the
\* named steps, conversions and files of inquiries stay, tickets are closed as
\* idle only on what the sweep saw, and closed projects stay closed.
THEOREM DeskKeepsItsPromises ==
    DeskSpec =>
      /\ []BookedAsInvoiced /\ []RefundReversesPayment
      /\ []JobsAgree
      /\ []OnlyTheseStepsMiscount
      /\ ActiveTicketsAreSpared
      /\ []InquiryKeepsItsFiles
      /\ []ConvertedMeansProject /\ ClosedProjectsStayClosed
<1> QED
    BY DeskRunsItsParts, PaymentsBookedAsInvoiced, RefundsReverse, JobsAlwaysAgree,
       CountsDriftOnlyByTheseSteps, ClosedOnlyAsTheSweepSawIt, FilesStayWithTheInquiry,
       ConvertedHasProject, ClosedStaysClosed
=============================================================================
