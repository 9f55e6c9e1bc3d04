------------------------------ MODULE Projects -------------------------------
(***************************************************************************)
(* One service inquiry, the project it is converted into, and what staff   *)
(* and customer add to the project: adminUpdate and convert of             *)
(* apps/api/src/modules/services/service-inquiries.service.ts,             *)
(* service-projects.service.ts beside it, and the life cycles of           *)
(* packages/database/src/domain/service-engine.ts.                         *)
(*                                                                         *)
(* A request reads and decides, and writes in a later transaction.  Status *)
(* changes compare with the status that was read; what is added to a       *)
(* project compares with nothing.                                          *)
(***************************************************************************)
EXTENDS Integers

CONSTANTS
    ProjectTasks,      \* requests of staff and customer
    MaxProjectTasks,   \* bound: requests begun
    MaxEntries           \* bound: messages and documents

ASSUME ProjectsAssumption == MaxProjectTasks \in Nat /\ MaxEntries \in Nat

VARIABLES
    lead,          \* the status of the inquiry
    project,       \* the status of its project (inquiry_id is unique), or NoProject
    milestone,     \* the status of one milestone, or NoMilestone
    entries,         \* messages and documents of the project
    projectTask,   \* projectTask[t]: what t has read and is about to write
    projectTasks   \* how many were begun

projectVars == <<lead, project, milestone, entries, projectTask, projectTasks>>

NoProject == "none"
NoMilestone == "none"
NoProjectTask == [op |-> "none"]

LeadStatus == {"NEW", "REVIEWING", "QUALIFIED", "REJECTED", "SPAM", "CONVERTED"}
ProjectStatus == {"PLANNING", "IN_PROGRESS", "ON_HOLD", "IN_REVIEW", "COMPLETED", "CANCELLED"}
MilestoneStatus == {"PENDING", "IN_PROGRESS", "DONE", "CANCELLED"}

\* isManualInquiryTransition: CONVERTED is reached by conversion only.
ManualLeadTransition(from, to) ==
    \/ from = to /\ to # "CONVERTED"
    \/ from = "NEW" /\ to \in {"REVIEWING", "QUALIFIED", "REJECTED", "SPAM"}
    \/ from = "REVIEWING" /\ to \in {"QUALIFIED", "REJECTED", "SPAM"}
    \/ from = "QUALIFIED" /\ to \in {"REVIEWING", "REJECTED"}
    \/ from \in {"REJECTED", "SPAM"} /\ to = "REVIEWING"

ValidProjectTransition(from, to) ==
    \/ from = to
    \/ from = "PLANNING" /\ to \in {"IN_PROGRESS", "ON_HOLD", "CANCELLED"}
    \/ from = "IN_PROGRESS" /\ to \in {"ON_HOLD", "IN_REVIEW", "CANCELLED"}
    \/ from = "ON_HOLD" /\ to \in {"PLANNING", "IN_PROGRESS", "CANCELLED"}
    \/ from = "IN_REVIEW" /\ to \in {"IN_PROGRESS", "COMPLETED", "ON_HOLD"}

ValidMilestoneTransition(from, to) ==
    \/ from = to
    \/ from = "PENDING" /\ to \in {"IN_PROGRESS", "DONE", "CANCELLED"}
    \/ from = "IN_PROGRESS" /\ to \in {"PENDING", "DONE", "CANCELLED"}
    \/ from = "DONE" /\ to = "IN_PROGRESS"
    \/ from = "CANCELLED" /\ to = "PENDING"

ProjectClosed(status) == status \in {"COMPLETED", "CANCELLED"}

\* Mutant: a closed project is not refused.
OpenAnyway == project # NoProject

\* requireOpenProject and requireOwnedOpenProject.
Open == project # NoProject /\ ~ProjectClosed(project)

ProjectsInit ==
    /\ lead = "NEW" /\ project = NoProject /\ milestone = NoMilestone
    /\ entries = 0
    /\ projectTask = [t \in ProjectTasks |-> NoProjectTask]
    /\ projectTasks = 0

-----------------------------------------------------------------------------
\* The reads and checks of each request; found is the status the project had then, which
\* those that must find it open have checked and no later statement compares with.
ReadForProject(t, op, read, to) ==
    /\ projectTask[t] = NoProjectTask /\ projectTasks < MaxProjectTasks
    /\ projectTasks' = projectTasks + 1
    /\ projectTask' = [projectTask EXCEPT ![t] = [op |-> op, read |-> read, to |-> to, found |-> project]]
    /\ UNCHANGED <<lead, project, milestone, entries>>

AdminUpdateInquiry(t, to) == ManualLeadTransition(lead, to) /\ ReadForProject(t, "inquiry", lead, to)

\* An inquiry with a project is answered with it, one that is not QUALIFIED refused.
Convert(t) == project = NoProject /\ lead = "QUALIFIED" /\ ReadForProject(t, "convert", lead, "CONVERTED")

AdminUpdateProject(t, to) ==
    /\ project # NoProject /\ ValidProjectTransition(project, to)
    /\ ReadForProject(t, "project", project, to)

CreateMilestone(t) == Open /\ milestone = NoMilestone /\ ReadForProject(t, "create", NoMilestone, "PENDING")

UpdateMilestone(t, to) ==
    /\ Open /\ milestone # NoMilestone /\ ValidMilestoneTransition(milestone, to)
    /\ ReadForProject(t, "milestone", milestone, to)

\* customerPostMessage, staffPostMessage, customerUploadDocument, staffUploadDocument.  A
\* document's object is stored before its row, as in Inquiries, and is left out here.
Post(t) == Open /\ entries < MaxEntries /\ ReadForProject(t, "post", project, project)

-----------------------------------------------------------------------------
ProjectTaskEnds(t) == projectTask' = [projectTask EXCEPT ![t] = NoProjectTask]
Does(t, op) == projectTask[t].op = op

\* Mutant: the inquiry is updated by its id alone.
WriteInquiryAnyway(t) ==
    /\ Does(t, "inquiry")
    /\ lead' = projectTask[t].to
    /\ ProjectTaskEnds(t)
    /\ UNCHANGED <<project, milestone, entries, projectTasks>>

\* updateMany where the status is still the one that was read; else 409.
WriteInquiry(t) ==
    /\ Does(t, "inquiry")
    /\ lead' = IF lead = projectTask[t].read THEN projectTask[t].to ELSE lead
    /\ ProjectTaskEnds(t)
    /\ UNCHANGED <<project, milestone, entries, projectTasks>>

\* One transaction: QUALIFIED to CONVERTED, and the project.  Who loses the race is
\* answered with the project of the winner.
WriteConversion(t) ==
    /\ Does(t, "convert")
    /\ IF lead = "QUALIFIED" THEN lead' = "CONVERTED" /\ project' = "PLANNING" ELSE UNCHANGED <<lead, project>>
    /\ ProjectTaskEnds(t)
    /\ UNCHANGED <<milestone, entries, projectTasks>>

\* Mutant: the project is updated by its id alone.
WriteProjectAnyway(t) ==
    /\ Does(t, "project")
    /\ project' = projectTask[t].to
    /\ ProjectTaskEnds(t)
    /\ UNCHANGED <<lead, milestone, entries, projectTasks>>

WriteProject(t) ==
    /\ Does(t, "project")
    /\ project' = IF project = projectTask[t].read THEN projectTask[t].to ELSE project
    /\ ProjectTaskEnds(t)
    /\ UNCHANGED <<lead, milestone, entries, projectTasks>>

\* A milestone is created whatever has become of the project.  The model follows the first.
WriteMilestone(t) ==
    /\ Does(t, "create") \/ Does(t, "milestone")
    /\ milestone' = IF milestone = projectTask[t].read THEN projectTask[t].to ELSE milestone
    /\ ProjectTaskEnds(t)
    /\ UNCHANGED <<lead, project, entries, projectTasks>>

WritePost(t) ==
    /\ Does(t, "post")
    /\ entries' = entries + 1
    /\ ProjectTaskEnds(t)
    /\ UNCHANGED <<lead, project, milestone, projectTasks>>

\* The process dies or its transaction fails.
ProjectTaskDies(t) ==
    /\ projectTask[t] # NoProjectTask
    /\ ProjectTaskEnds(t)
    /\ UNCHANGED <<lead, project, milestone, entries, projectTasks>>

ProjectsNext ==
    \E t \in ProjectTasks :
      \/ \E to \in LeadStatus : AdminUpdateInquiry(t, to)
      \/ \E to \in ProjectStatus : AdminUpdateProject(t, to)
      \/ \E to \in MilestoneStatus : UpdateMilestone(t, to)
      \/ Convert(t) \/ CreateMilestone(t) \/ Post(t)
      \/ WriteInquiry(t) \/ WriteConversion(t) \/ WriteProject(t) \/ WriteMilestone(t)
      \/ WritePost(t) \/ ProjectTaskDies(t)

ProjectsSpec == ProjectsInit /\ [][ProjectsNext]_projectVars

-----------------------------------------------------------------------------
ProjectsTypeOK ==
    /\ lead \in LeadStatus /\ project \in ProjectStatus \cup {NoProject}
    /\ milestone \in MilestoneStatus \cup {NoMilestone}
    /\ entries \in Nat
    /\ \A t \in ProjectTasks : projectTask[t] # NoProjectTask =>
         projectTask[t].op \in {"inquiry", "convert", "project", "create", "milestone", "post"}
    /\ projectTasks \in 0 .. MaxProjectTasks

\* "CONVERTED is terminal and only reachable through conversion into a project": an inquiry
\* is CONVERTED exactly if there is a project, whoever else decides about it meanwhile
\* (service-engine.ts, lines 8-10; adminUpdate and convert).
ConvertedMeansProject == lead = "CONVERTED" <=> project # NoProject

\* "Completed and cancelled projects are read-only": the status of a closed project never
\* changes, and whatever adds to a project or changes its milestone, then or before, has
\* found the project open (service-projects.service.ts, lines 155-167 and 481-488).  It may
\* have been closed since.
ClosedProjectsStayClosed ==
    [][/\ ProjectClosed(project) => project' = project
       /\ <<entries, milestone>>' # <<entries, milestone>> =>
            \E t \in ProjectTasks : /\ projectTask[t].op \in {"create", "milestone", "post"}
                                    /\ projectTask'[t] = NoProjectTask
                                    /\ projectTask[t].found # NoProject
                                    /\ ~ProjectClosed(projectTask[t].found)]_projectVars
=============================================================================
