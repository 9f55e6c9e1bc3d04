----------------------------- MODULE Automation -----------------------------
(***************************************************************************)
(* Automation jobs: the claim of packages/database/src/domain/             *)
(* automation-engine.ts, the dispatcher of the worker                      *)
(* (automation-dispatcher.ts), the callbacks of n8n and the actions of     *)
(* administrators (automation.service.ts).                                 *)
(*                                                                         *)
(* A dispatcher claims a batch with a 5 minute lease and posts each job to *)
(* a workflow of n8n; the workflow reports through a callback.  Callbacks  *)
(* and administrators lock the row and look at its status; the dispatcher  *)
(* writes what became of its post without looking again.                   *)
(***************************************************************************)
EXTENDS Integers, FiniteSets

CONSTANTS
    Drafts,       \* jobs that ask for an article (CMS_AI_DRAFT), all of one administrator
    Emails,       \* jobs that send an e-mail; each has one delivery
    Dispatchers,  \* the worker processes
    ClaimLimit,   \* batchSize: 10 in the code
    MaxAttempts,  \* max_attempts: 3 in the code
    MaxActive,    \* drafts in progress per administrator: 3 in the code
    MaxMishaps,   \* bound: crashes, lost answers and overrun leases
    MaxJobs,      \* bound: jobs created in a behaviour
    MaxFlows      \* bound: workflow runs of one job told apart

AutoJobs == Drafts \cup Emails
NoJob == "no job"

ASSUME AutomationAssumption ==
    /\ Drafts \cap Emails = {} /\ NoJob \notin AutoJobs
    /\ ClaimLimit \in Nat \ {0} /\ MaxAttempts \in Nat \ {0} /\ MaxActive \in Nat
    /\ MaxMishaps \in Nat /\ MaxJobs \in Nat /\ MaxFlows \in Nat \ {0}

VARIABLES
    job,       \* job[j]: the row of automation_jobs
    delivery,  \* delivery[j]: the status of the automation_deliveries row of j
    disp,      \* disp[d]: what the dispatch of worker d holds in memory
    flows,     \* flows[j]: workflow runs of j that n8n has started and that have not ended
    posts,     \* posts[j]: how many articles were created for j, counted up to two
    reopened,  \* jobs that were finished and were made PENDING or FAILED afterwards
    astray,    \* jobs something went wrong with between the worker and n8n
    mishaps

autoVars == <<job, delivery, disp, flows, posts, reopened, astray, mishaps>>

NewJob == [st |-> "none", attempts |-> 0, due |-> TRUE, lease |-> "none"]
IdleDispatcher == [pc |-> "idle", batch |-> {}, cur |-> NoJob, seen |-> [j \in AutoJobs |-> 0], answer |-> "none"]

AutomationInit ==
    /\ job = [j \in AutoJobs |-> NewJob]
    /\ delivery = [j \in Emails |-> "none"]
    /\ disp = [d \in Dispatchers |-> IdleDispatcher]
    /\ flows = [j \in AutoJobs |-> 0]
    /\ posts = [j \in Drafts |-> 0]
    /\ reopened = {} /\ astray = {} /\ mishaps = 0

-----------------------------------------------------------------------------
\* Creation.  The idempotency key of a job stands for the job: a second request with
\* the same key, also a concurrent one (P2002), returns the row that is there.
Creatable(j) == job[j].st = "none" /\ Cardinality({k \in AutoJobs : job[k].st # "none"}) < MaxJobs

EnqueueEmail(j) ==
    /\ Creatable(j)
    /\ job' = [job EXCEPT ![j].st = "PENDING"]
    /\ delivery' = [delivery EXCEPT ![j] = "PENDING"]
    /\ UNCHANGED <<disp, flows, posts, reopened, astray, mishaps>>

ActiveDrafts == {j \in Drafts : job[j].st \in {"PENDING", "RUNNING"}}

\* The advisory lock makes the count and the insert one step.
CreateAiDraftRequest(j) ==
    /\ Creatable(j)
    /\ Cardinality(ActiveDrafts) < MaxActive
    /\ job' = [job EXCEPT ![j].st = "PENDING"]
    /\ UNCHANGED <<delivery, disp, flows, posts, reopened, astray, mishaps>>

-----------------------------------------------------------------------------
LeaseOver(j) == job[j].st = "RUNNING" /\ job[j].lease = "old"
Exhausted == {j \in AutoJobs : LeaseOver(j) /\ job[j].attempts >= MaxAttempts}

ClaimableJobs ==
    {j \in AutoJobs : /\ job[j].attempts < MaxAttempts
                      /\ LeaseOver(j) \/ (job[j].st = "PENDING" /\ job[j].due)}

\* claimDueAutomationJobs: one transaction that gives up the exhausted jobs and leases
\* the claimable ones.  SKIP LOCKED leaves out rows another transaction holds.
ClaimDueAutomationJobs(d) ==
    /\ disp[d].pc = "idle"
    /\ Exhausted # {} \/ ClaimableJobs # {}
    /\ \E batch \in SUBSET ClaimableJobs :
         /\ Cardinality(batch) <= ClaimLimit /\ (ClaimableJobs # {} => batch # {})
         /\ job' = [j \in AutoJobs |->
              CASE j \in Exhausted -> [job[j] EXCEPT !.st = "FAILED", !.lease = "none"]
                [] j \in batch -> [st |-> "RUNNING", attempts |-> job[j].attempts + 1, due |-> TRUE, lease |-> "new"]
                [] OTHER -> job[j]]
         /\ delivery' = [j \in Emails |-> IF j \in Exhausted /\ delivery[j] \in {"PENDING", "SENDING"}
                                          THEN "FAILED" ELSE delivery[j]]
         /\ disp' = IF batch = {} THEN disp
                    ELSE [disp EXCEPT ![d] = [IdleDispatcher EXCEPT
                            !.pc = "next", !.batch = batch,
                            !.seen = [j \in AutoJobs |-> IF j \in batch THEN job[j].attempts + 1 ELSE 0]]]
         /\ astray' = astray \cup {j \in batch : \E other \in Dispatchers : j \in disp[other].batch}
    /\ UNCHANGED <<flows, posts, reopened, mishaps>>

\* dispatchSingleAutomationJob begins by marking the delivery, whatever it says by now.
MarkSending(d, j) ==
    /\ disp[d].pc = "next"
    /\ j \in disp[d].batch
    /\ delivery' = IF j \in Emails THEN [delivery EXCEPT ![j] = "SENDING"] ELSE delivery
    /\ disp' = [disp EXCEPT ![d].pc = "post", ![d].cur = j]
    /\ UNCHANGED <<job, flows, posts, reopened, astray, mishaps>>

Started(j) == [flows EXCEPT ![j] = IF @ < MaxFlows THEN @ + 1 ELSE @]
DoneWith(d) ==
    LET rest == disp[d].batch \ {disp[d].cur}
    IN  disp' = [disp EXCEPT ![d] = IF rest = {} THEN IdleDispatcher
                                    ELSE [@ EXCEPT !.pc = "next", !.batch = rest, !.cur = NoJob, !.answer = "none"]]

PostAccepted(d) ==
    /\ disp[d].pc = "post"
    /\ flows' = Started(disp[d].cur)
    /\ DoneWith(d)
    /\ UNCHANGED <<job, delivery, posts, reopened, astray, mishaps>>

\* n8n did not take the job: no connection, 429 or 5xx ("retryable"), or another error.
PostRefused(d) ==
    /\ disp[d].pc = "post"
    /\ \E answer \in {"retryable", "fatal"} :
         disp' = [disp EXCEPT ![d].pc = "settle", ![d].answer = answer]
    /\ UNCHANGED <<job, delivery, flows, posts, reopened, astray, mishaps>>

\* n8n took the job, but the answer was lost, or was an error although the workflow runs.
PostAnswerLost(d) ==
    /\ disp[d].pc = "post"
    /\ mishaps < MaxMishaps
    /\ mishaps' = mishaps + 1
    /\ astray' = astray \cup {disp[d].cur}
    /\ flows' = Started(disp[d].cur)
    /\ disp' = [disp EXCEPT ![d].pc = "settle", ![d].answer = "retryable"]
    /\ UNCHANGED <<job, delivery, posts, reopened>>

CanRetry(d) == disp[d].answer = "retryable" /\ disp[d].seen[disp[d].cur] < MaxAttempts

\* The outcome of a failed dispatch, written over whatever status the job has by now.
SettleJob(d) ==
    LET j == disp[d].cur IN
    /\ disp[d].pc = "settle"
    /\ job' = [job EXCEPT ![j] = IF CanRetry(d)
                                 THEN [@ EXCEPT !.st = "PENDING", !.due = FALSE, !.lease = "none"]
                                 ELSE [@ EXCEPT !.st = "FAILED", !.lease = "none"]]
    /\ reopened' = IF job[j].st \in {"SUCCEEDED", "CANCELLED"} THEN reopened \cup {j} ELSE reopened
    /\ disp' = [disp EXCEPT ![d].pc = "delivery"]
    /\ UNCHANGED <<delivery, flows, posts, astray, mishaps>>

\* Mutant: the delivery is left as it is.
SettleDeliveryForgotten(d) ==
    /\ disp[d].pc = "delivery"
    /\ DoneWith(d)
    /\ UNCHANGED <<job, delivery, flows, posts, reopened, astray, mishaps>>

\* settleDeliveryAfterDispatchFailure, a statement of its own.
SettleDelivery(d) ==
    LET j == disp[d].cur IN
    /\ disp[d].pc = "delivery"
    /\ delivery' = IF j \in Emails
                   THEN [delivery EXCEPT ![j] = IF CanRetry(d) THEN "PENDING" ELSE "FAILED"] ELSE delivery
    /\ DoneWith(d)
    /\ UNCHANGED <<job, flows, posts, reopened, astray, mishaps>>

\* The worker dies, or a database error ends the tick.
DispatcherDies(d) ==
    /\ disp[d].pc # "idle"
    /\ mishaps < MaxMishaps
    /\ mishaps' = mishaps + 1
    /\ astray' = IF disp[d].pc = "delivery" THEN astray \cup {disp[d].cur} ELSE astray
    /\ disp' = [disp EXCEPT ![d] = IdleDispatcher]
    /\ UNCHANGED <<job, delivery, flows, posts, reopened>>

-----------------------------------------------------------------------------
(***************************************************************************)
(* The callbacks of n8n.  Each locks the row of its job; a callback whose  *)
(* job is not RUNNING changes nothing.                                     *)
(***************************************************************************)

\* A workflow run reports once, unless the answer to its report is lost.
Reports(j) ==
    /\ flows[j] > 0
    /\ \/ flows' = [flows EXCEPT ![j] = @ - 1] /\ UNCHANGED <<mishaps, astray>>
       \/ /\ mishaps < MaxMishaps
          /\ mishaps' = mishaps + 1
          /\ astray' = astray \cup {j}
          /\ UNCHANGED flows

Succeeded(j) == [job EXCEPT ![j] = [@ EXCEPT !.st = "SUCCEEDED", !.lease = "none"]]

CompleteJob(j) ==
    /\ Reports(j)
    /\ \/ /\ job[j].st = "RUNNING"
          /\ delivery' = [delivery EXCEPT ![j] = "SENT"]
          /\ job' = Succeeded(j)
       \/ job[j].st # "RUNNING" /\ UNCHANGED <<job, delivery>>
    /\ UNCHANGED <<disp, posts, reopened>>

FailJob(j) ==
    /\ Reports(j)
    /\ \/ /\ job[j].st = "RUNNING"
          /\ \E retryable \in BOOLEAN :
               LET again == retryable /\ job[j].attempts < MaxAttempts IN
               /\ job' = [job EXCEPT ![j] = IF again
                                            THEN [@ EXCEPT !.st = "PENDING", !.due = FALSE, !.lease = "none"]
                                            ELSE [@ EXCEPT !.st = "FAILED", !.lease = "none"]]
               /\ delivery' = IF j \notin Emails THEN delivery
                              ELSE [delivery EXCEPT ![j] =
                                     CASE again /\ @ = "SENDING" -> "PENDING"
                                       [] ~again /\ @ \in {"PENDING", "SENDING"} -> "FAILED"
                                       [] OTHER -> @]
       \/ job[j].st # "RUNNING" /\ UNCHANGED <<job, delivery>>
    /\ UNCHANGED <<disp, posts, reopened>>

OneMore(n) == IF n < 2 THEN n + 1 ELSE n

\* The article, in status AI_DRAFT, and the end of the job are one transaction.
ApplyAiDraftResult(j) ==
    /\ Reports(j)
    /\ \/ /\ job[j].st = "RUNNING"
          /\ posts' = [posts EXCEPT ![j] = OneMore(@)]
          /\ job' = Succeeded(j)
       \/ job[j].st # "RUNNING" /\ UNCHANGED <<job, posts>>
    /\ UNCHANGED <<delivery, disp, reopened>>

\* The run ends without a report.
FlowDies(j) ==
    /\ flows[j] > 0
    /\ flows' = [flows EXCEPT ![j] = @ - 1]
    /\ UNCHANGED <<job, delivery, disp, posts, reopened, astray, mishaps>>

-----------------------------------------------------------------------------
RetryJob(j) ==
    /\ job[j].st = "FAILED"
    /\ job' = [job EXCEPT ![j] = [NewJob EXCEPT !.st = "PENDING"]]
    /\ UNCHANGED <<delivery, disp, flows, posts, reopened, astray, mishaps>>

CancelJob(j) ==
    /\ job[j].st = "PENDING"
    /\ job' = [job EXCEPT ![j] = [@ EXCEPT !.st = "CANCELLED", !.lease = "none"]]
    /\ UNCHANGED <<delivery, disp, flows, posts, reopened, astray, mishaps>>

RetryComesDue(j) ==
    /\ job[j].st = "PENDING" /\ ~job[j].due
    /\ job' = [job EXCEPT ![j].due = TRUE]
    /\ UNCHANGED <<delivery, disp, flows, posts, reopened, astray, mishaps>>

AtWork(j) == flows[j] > 0 \/ \E d \in Dispatchers : j \in disp[d].batch

\* Mutant: leases last for ever.
JobLeaseLasts(j) == FALSE /\ j \in AutoJobs /\ UNCHANGED autoVars

\* Five minutes pass.  That a workflow or a dispatcher is still at work then is a mishap.
JobLeaseRunsOut(j) ==
    /\ job[j].st = "RUNNING" /\ job[j].lease = "new"
    /\ job' = [job EXCEPT ![j].lease = "old"]
    /\ \/ ~AtWork(j) /\ UNCHANGED <<astray, mishaps>>
       \/ /\ AtWork(j) /\ mishaps < MaxMishaps
          /\ mishaps' = mishaps + 1
          /\ astray' = astray \cup {j}
    /\ UNCHANGED <<delivery, disp, flows, posts, reopened>>

-----------------------------------------------------------------------------
Dispatch(d) ==
    \/ ClaimDueAutomationJobs(d)
    \/ \E j \in AutoJobs : MarkSending(d, j)
    \/ PostAccepted(d) \/ PostRefused(d) \/ SettleJob(d) \/ SettleDelivery(d)

AutomationNext ==
    \/ \E j \in Emails : EnqueueEmail(j) \/ CompleteJob(j)
    \/ \E j \in Drafts : CreateAiDraftRequest(j) \/ ApplyAiDraftResult(j)
    \/ \E j \in AutoJobs : FailJob(j) \/ FlowDies(j) \/ RetryJob(j) \/ CancelJob(j)
    \/ \E j \in AutoJobs : RetryComesDue(j) \/ JobLeaseRunsOut(j)
    \/ \E d \in Dispatchers : Dispatch(d) \/ PostAnswerLost(d) \/ DispatcherDies(d)

\* Polling ticks come for ever, a post is answered one way or the other, a workflow run
\* reports or dies, time passes.  Nothing assumes that n8n succeeds or an administrator acts.
AutomationFairness ==
    /\ \A d \in Dispatchers : WF_autoVars(Dispatch(d))
    /\ \A j \in AutoJobs : /\ WF_autoVars(RetryComesDue(j)) /\ WF_autoVars(JobLeaseRunsOut(j))
                           /\ WF_autoVars(FlowDies(j))

AutomationSpec == AutomationInit /\ [][AutomationNext]_autoVars
AutomationFairSpec == AutomationSpec /\ AutomationFairness

-----------------------------------------------------------------------------
(***************************************************************************)
(* Properties                                                              *)
(***************************************************************************)
JobRows == [st : {"none", "PENDING", "RUNNING", "SUCCEEDED", "FAILED", "CANCELLED"},
            attempts : 0 .. MaxAttempts, due : BOOLEAN, lease : {"none", "new", "old"}]
Dispatches == [pc : {"idle", "next", "post", "settle", "delivery"}, batch : SUBSET AutoJobs,
               cur : AutoJobs \cup {NoJob}, seen : [AutoJobs -> 0 .. MaxAttempts],
               answer : {"none", "retryable", "fatal"}]

\* Jobs, deliveries and dispatches keep their shape; a dispatch has a current job, of its
\* batch, exactly when it is past the choice of one, and saw at least one attempt of each.
AutomationTypeOK ==
    /\ job \in [AutoJobs -> JobRows]
    /\ \A j \in AutoJobs : job[j].lease = "none" <=> job[j].st # "RUNNING"
    /\ delivery \in [Emails -> {"none", "PENDING", "SENDING", "SENT", "FAILED"}]
    /\ disp \in [Dispatchers -> Dispatches]
    /\ \A d \in Dispatchers :
         /\ disp[d].pc \in {"idle", "next"} <=> disp[d].cur = NoJob
         /\ disp[d].cur # NoJob => disp[d].cur \in disp[d].batch
         /\ \A j \in disp[d].batch : disp[d].seen[j] > 0
    /\ flows \in [AutoJobs -> 0 .. MaxFlows] /\ posts \in [Drafts -> 0 .. 2]
    /\ reopened \subseteq AutoJobs /\ astray \subseteq AutoJobs /\ mishaps \in 0 .. MaxMishaps

\* However often a job is dispatched and its callbacks come, one article at most is
\* created for it, unless a dispatcher took the end of the job back.
OneArticlePerJob == \A j \in Drafts : posts[j] > 1 => j \in reopened

\* A job nothing went wrong with between the worker and n8n keeps its end, can be claimed
\* whenever it waits, and, once it has ended and no dispatcher has it in hand, its delivery says so.
UndisturbedJobsAgree ==
    \A j \in AutoJobs \ astray :
      /\ j \notin reopened
      /\ job[j].st = "PENDING" => job[j].attempts < MaxAttempts
      /\ j \in Emails /\ (\A d \in Dispatchers : disp[d].cur # j) =>
           /\ job[j].st = "SUCCEEDED" => delivery[j] = "SENT"
           /\ job[j].st = "FAILED" => delivery[j] = "FAILED"
           /\ delivery[j] = "SENT" => job[j].st = "SUCCEEDED"

\* Jobs agree with the articles and deliveries they stand for.
JobsAgree == OneArticlePerJob /\ UndisturbedJobsAgree

\* The end a job comes to, or the state nothing takes it out of but an administrator.
Ended(j) == job[j].st \in {"SUCCEEDED", "FAILED", "CANCELLED"}
Stranded(j) == job[j].st = "PENDING" /\ job[j].attempts >= MaxAttempts

\* Every job ends, although workers die, leases run out and workflows never report,
\* unless a late dispatcher has made it PENDING with all its attempts used up.
JobsEndOrStrand == \A j \in AutoJobs : job[j].st \in {"PENDING", "RUNNING"} ~> Ended(j) \/ Stranded(j)
=============================================================================
