------------------------------ MODULE Inquiries ------------------------------
(***************************************************************************)
(* One inquiry form that is sent several times with one submissionKey      *)
(* (apps/api/src/modules/services/service-inquiries.service.ts), and the   *)
(* outbox handler that tells the staff                                     *)
(* (apps/worker/src/service-inquiry-notifier.ts).                          *)
(*                                                                         *)
(* A submission looks the key up, stores its attachments under an id of    *)
(* its own, and then inserts the inquiry and its event in one transaction; *)
(* the unique submission_key decides who wins.  The notifier makes notices *)
(* unique by a read before the insert only, and e-mail jobs by their key.  *)
(***************************************************************************)
EXTENDS Integers, FiniteSets

CONSTANTS
    Submissions,      \* requests with the same form and key
    Staff,            \* accounts with inquiry.read
    Notifiers,        \* worker processes
    MaxInquiryFaults  \* bound: deaths, lost answers, failed handlers and overrun leases

ASSUME InquiriesAssumption == MaxInquiryFaults \in Nat

NoSubmission == "none"
ASSUME NoSubmissionAssumption == NoSubmission \notin Submissions

VARIABLES
    inquiry,        \* which submission the stored inquiry is from, or NoSubmission
    objects,        \* the submissions whose attachments are in storage
    submission,     \* submission[r]: how far r is and what it was answered
    notifyEvent,    \* SERVICE_INQUIRY_CREATED: none, DUE or PROCESSED
    lease,          \* the notifier that holds the lease of the event, or NoNotifier
    notifier,       \* notifier[w]: how far w is and which notices or audit row it saw
    notices,        \* notices[u]: notifications of user u about the inquiry
    emailJob,       \* automation jobs for the mailbox of the team: at most one, by its key
    audits,         \* SERVICE_INQUIRY_NOTIFIED rows
    lostAnswer,     \* a submission whose insert was committed has not heard of it
    inquiryFaults

storeVars == <<inquiry, objects, submission, lostAnswer>>
noticeVars == <<notifyEvent, lease, notifier, notices, emailJob, audits>>
inquiryVars == <<storeVars, noticeVars, inquiryFaults>>

NoNotifier == "none"
NewSubmission == [at |-> "new", answer |-> NoSubmission]
IdleNotifier == [at |-> "idle", seen |-> {}]

InquiriesInit ==
    /\ inquiry = NoSubmission /\ objects = {} /\ lostAnswer = FALSE
    /\ submission = [r \in Submissions |-> NewSubmission]
    /\ notifyEvent = "none" /\ lease = NoNotifier
    /\ notifier = [w \in Notifiers |-> IdleNotifier]
    /\ notices = [u \in Staff |-> 0] /\ emailJob = 0 /\ audits = 0
    /\ inquiryFaults = 0

InquiryFault == inquiryFaults < MaxInquiryFaults /\ inquiryFaults' = inquiryFaults + 1

-----------------------------------------------------------------------------
\* submit.  findBySubmissionKey: the same key is answered with the stored inquiry.
SubmissionAt(r, at) == submission' = [submission EXCEPT ![r].at = at]
SubmissionIsAnswered(r, answer) == submission' = [submission EXCEPT ![r] = [at |-> "over", answer |-> answer]]

FindBySubmissionKey(r) ==
    /\ submission[r].at = "new"
    /\ IF inquiry # NoSubmission THEN SubmissionIsAnswered(r, inquiry) ELSE SubmissionAt(r, "unknown")
    /\ UNCHANGED <<inquiry, objects, lostAnswer, noticeVars, inquiryFaults>>

\* A refusal (consent, rate limit, files) ends the request; so does a failed upload, which
\* removes what it had stored.
RefuseSubmission(r) ==
    /\ submission[r].at = "unknown"
    /\ SubmissionAt(r, "over")
    /\ UNCHANGED <<inquiry, objects, lostAnswer, noticeVars, inquiryFaults>>

UploadAll(r) ==
    /\ submission[r].at = "unknown"
    /\ objects' = objects \cup {r}
    /\ SubmissionAt(r, "uploaded")
    /\ UNCHANGED <<inquiry, lostAnswer, noticeVars, inquiryFaults>>

Stored(r) == inquiry' = r /\ notifyEvent' = "DUE"

CreateInquiry(r) ==
    /\ submission[r].at = "uploaded" /\ inquiry = NoSubmission
    /\ Stored(r)
    /\ SubmissionIsAnswered(r, r)
    /\ UNCHANGED <<objects, lostAnswer, lease, notifier, notices, emailJob, audits, inquiryFaults>>

\* Mutant: the loser removes the attachments of the inquiry that won.
LoseTheRaceForAll(r) ==
    /\ submission[r].at = "uploaded" /\ inquiry # NoSubmission
    /\ objects' = objects \ {r, inquiry}
    /\ SubmissionAt(r, "lost")
    /\ UNCHANGED <<inquiry, lostAnswer, noticeVars, inquiryFaults>>

\* P2002: somebody else inserted the key; the own attachments are removed, best effort.
LoseTheRace(r) ==
    /\ submission[r].at = "uploaded" /\ inquiry # NoSubmission
    /\ \/ objects' = objects \ {r} /\ UNCHANGED inquiryFaults
       \/ InquiryFault /\ UNCHANGED objects
    /\ SubmissionAt(r, "lost")
    /\ UNCHANGED <<inquiry, lostAnswer, noticeVars>>

AnswerWithWinner(r) ==
    /\ submission[r].at = "lost"
    /\ SubmissionIsAnswered(r, inquiry)
    /\ UNCHANGED <<inquiry, objects, lostAnswer, noticeVars, inquiryFaults>>

\* The insert fails, or is committed and its answer lost: either way the attachments go,
\* unless storage fails too.
InsertThrows(r) ==
    /\ submission[r].at = "uploaded" /\ inquiry = NoSubmission
    /\ InquiryFault
    /\ objects' \in {objects, objects \ {r}}
    /\ SubmissionAt(r, "over")
    /\ \/ UNCHANGED <<inquiry, notifyEvent, lostAnswer>>
       \/ Stored(r) /\ lostAnswer' = TRUE
    /\ UNCHANGED <<lease, notifier, notices, emailJob, audits>>

SubmissionDies(r) ==
    /\ submission[r].at \in {"unknown", "uploaded", "lost"}
    /\ InquiryFault
    /\ SubmissionAt(r, "over")
    /\ UNCHANGED <<inquiry, objects, lostAnswer, noticeVars>>

-----------------------------------------------------------------------------
\* processServiceInquiryCreatedEvent, one action per round trip.
NotifierAt(w, at, seen) == notifier' = [notifier EXCEPT ![w] = [at |-> at, seen |-> seen]]

\* The poll takes a due event nobody holds.
TakeEvent(w) ==
    /\ notifier[w].at = "idle" /\ notifyEvent = "DUE" /\ lease = NoNotifier
    /\ lease' = w
    /\ NotifierAt(w, "staff", {})
    /\ UNCHANGED <<storeVars, notifyEvent, notices, emailJob, audits, inquiryFaults>>

ReadNotices(w) ==
    /\ notifier[w].at = "staff"
    /\ NotifierAt(w, "notices", {u \in Staff : notices[u] > 0})
    /\ UNCHANGED <<storeVars, notifyEvent, lease, notices, emailJob, audits, inquiryFaults>>

\* One createMany for those who had none.
NotifyStaff(w) ==
    /\ notifier[w].at = "notices"
    /\ notices' = [u \in Staff |-> IF u \in notifier[w].seen THEN notices[u] ELSE notices[u] + 1]
    /\ NotifierAt(w, "emails", {})
    /\ UNCHANGED <<storeVars, notifyEvent, lease, emailJob, audits, inquiryFaults>>

\* A delivery and a job with a unique key, unless the cap of the hour is reached or no
\* mailbox is configured.
QueueEmails(w) ==
    /\ notifier[w].at = "emails"
    /\ emailJob' \in {emailJob, 1}
    /\ NotifierAt(w, "audit", {})
    /\ UNCHANGED <<storeVars, notifyEvent, lease, notices, audits, inquiryFaults>>

FindAudit(w) ==
    /\ notifier[w].at = "audit"
    /\ NotifierAt(w, IF audits > 0 THEN "finish" ELSE "unaudited", {})
    /\ UNCHANGED <<storeVars, notifyEvent, lease, notices, emailJob, audits, inquiryFaults>>

CreateAudit(w) ==
    /\ notifier[w].at = "unaudited"
    /\ audits' = audits + 1
    /\ NotifierAt(w, "finish", {})
    /\ UNCHANGED <<storeVars, notifyEvent, lease, notices, emailJob, inquiryFaults>>

\* The outbox marks the event only for the one who holds its lease.
FinishEvent(w) ==
    /\ notifier[w].at = "finish"
    /\ IF lease = w THEN notifyEvent' = "PROCESSED" /\ lease' = NoNotifier ELSE UNCHANGED <<notifyEvent, lease>>
    /\ NotifierAt(w, "idle", {})
    /\ UNCHANGED <<storeVars, notices, emailJob, audits, inquiryFaults>>

\* An error of the database in any step; the outbox tries again.
NotifierThrows(w) ==
    /\ notifier[w].at # "idle"
    /\ InquiryFault
    /\ lease' = IF lease = w THEN NoNotifier ELSE lease
    /\ NotifierAt(w, "idle", {})
    /\ UNCHANGED <<storeVars, notifyEvent, notices, emailJob, audits>>

NotifierDies(w) ==
    /\ notifier[w].at # "idle"
    /\ InquiryFault
    /\ NotifierAt(w, "idle", {})
    /\ UNCHANGED <<storeVars, notifyEvent, lease, notices, emailJob, audits>>

\* Mutant: an event in processing is never taken up again.
NotifierLeaseLasts == FALSE /\ UNCHANGED inquiryVars

\* Five minutes after the claim; that its holder is still at work counts as a fault.
NotifierLeaseRunsOut ==
    /\ lease # NoNotifier
    /\ IF notifier[lease].at = "idle" THEN UNCHANGED inquiryFaults ELSE InquiryFault
    /\ lease' = NoNotifier
    /\ UNCHANGED <<storeVars, notifyEvent, notifier, notices, emailJob, audits>>

-----------------------------------------------------------------------------
Submit(r) ==
    \/ FindBySubmissionKey(r) \/ RefuseSubmission(r) \/ UploadAll(r) \/ CreateInquiry(r)
    \/ LoseTheRace(r) \/ AnswerWithWinner(r)

Notify(w) ==
    \/ TakeEvent(w) \/ ReadNotices(w) \/ NotifyStaff(w) \/ QueueEmails(w)
    \/ FindAudit(w) \/ CreateAudit(w) \/ FinishEvent(w)

InquiriesNext ==
    \/ \E r \in Submissions : Submit(r) \/ InsertThrows(r) \/ SubmissionDies(r)
    \/ \E w \in Notifiers : Notify(w) \/ NotifierThrows(w) \/ NotifierDies(w)
    \/ NotifierLeaseRunsOut

\* Every worker polls, and leases run out.
InquiriesFairness == (\A w \in Notifiers : WF_inquiryVars(Notify(w))) /\ WF_inquiryVars(NotifierLeaseRunsOut)

InquiriesSpec == InquiriesInit /\ [][InquiriesNext]_inquiryVars

-----------------------------------------------------------------------------
InquiriesTypeOK ==
    /\ inquiry \in Submissions \cup {NoSubmission} /\ objects \subseteq Submissions /\ lostAnswer \in BOOLEAN
    /\ submission \in [Submissions -> [at : {"new", "unknown", "uploaded", "lost", "over"},
                                       answer : Submissions \cup {NoSubmission}]]
    /\ notifyEvent \in {"none", "DUE", "PROCESSED"} /\ lease \in Notifiers \cup {NoNotifier}
    /\ notifier \in [Notifiers -> [at : {"idle", "staff", "notices", "emails", "audit", "unaudited", "finish"},
                                   seen : SUBSET Staff]]
    /\ notices \in [Staff -> Nat] /\ emailJob \in {0, 1} /\ audits \in Nat
    /\ inquiryFaults \in 0 .. MaxInquiryFaults

\* Whoever sends the form is told the number of the one inquiry that is stored, and its
\* attachments stay in storage, whatever the losers of the race clean up; only a commit
\* whose answer is lost takes them away (submit, lines 143-223).
InquiryKeepsItsFiles ==
    /\ \A r \in Submissions : submission[r].answer \in {NoSubmission, inquiry}
    /\ inquiry # NoSubmission /\ ~lostAnswer => inquiry \in objects

\* Every member of the staff hears of every stored inquiry (processServiceInquiryCreatedEvent).
EveryInquiryIsAnnounced ==
    inquiry # NoSubmission ~> \A u \in Staff : notices[u] > 0

\* "Idempotent: running it again for the same event creates no second notification, email job
\* or audit row, so outbox retries and lease reclaims are safe" (lines 16-18).
StaffAreToldOnce == (\A u \in Staff : notices[u] <= 1) /\ audits <= 1
=============================================================================
