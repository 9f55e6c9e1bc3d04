------------------------------ MODULE Hosting -------------------------------
(***************************************************************************)
(* Hosting accounts in production: apps/api/src/modules/hosting/           *)
(* hosting.service.ts and the worker's hosting-processor.ts.               *)
(*                                                                         *)
(* The worker gives a paid item a row on a server with room; a customer or *)
(* an administrator has it created at the control panel of the server, and *)
(* an administrator suspends, unsuspends and terminates it.  A request     *)
(* reads the row, calls the panel and then writes the row whatever it      *)
(* holds by then; a refund or a revocation suspends it in the same way but *)
(* does not tell the panel.                                                *)
(***************************************************************************)
EXTENDS Integers, FiniteSets

CONSTANTS
    Homes,         \* hosting accounts: a domain and the order item it was bought with
    Servers,       \* the active servers
    MaxAccounts,   \* max_accounts of a server
    HostingTasks,  \* requests and worker processes
    MaxTasks       \* bound: tasks begun

ASSUME HostingAssumption == Servers # {} /\ MaxAccounts \in Nat \ {0} /\ MaxTasks \in Nat

VARIABLES
    hosting,         \* hosting[h]: the status of the row, "none" if there is none
    place,           \* place[h]: the server of the row
    activeAccounts,  \* activeAccounts[s]: the count the server row keeps
    panel,           \* panel[s]: the accounts that exist at the control panel of s
    task,            \* task[t]: what t read and does next
    begun,           \* how many tasks were begun
    drifted          \* the servers whose count a step below put wrong

hostingVars == <<hosting, place, activeAccounts, panel, task, begun, drifted>>

NoTask == [pc |-> "idle"]

HostingInit ==
    /\ hosting = [h \in Homes |-> "none"]
    /\ place = CHOOSE p \in [Homes -> Servers] : TRUE   \* means nothing without a row
    /\ activeAccounts = [s \in Servers |-> 0]
    /\ panel = [s \in Servers |-> {}]
    /\ task = [t \in HostingTasks |-> NoTask]
    /\ begun = 0 /\ drifted = {}

\* isValidHostingTransition.
ValidHostingTransition(from, to) ==
    \/ from = to
    \/ <<from, to>> \in {"PROVISIONING"} \X {"ACTIVE", "FAILED"} \cup {"ACTIVE"} \X {"SUSPENDED", "TERMINATED"}
                          \cup {"SUSPENDED"} \X {"ACTIVE", "TERMINATED"} \cup {"FAILED"} \X {"PROVISIONING", "TERMINATED"}

WithRoom == {s \in Servers : activeAccounts[s] < MaxAccounts}
Emptiest == {s \in WithRoom : \A o \in WithRoom : activeAccounts[s] <= activeAccounts[o]}

BeginTask(t, what) ==
    /\ task[t] = NoTask /\ begun < MaxTasks
    /\ begun' = begun + 1
    /\ task' = [task EXCEPT ![t] = what]
    /\ UNCHANGED <<hosting, place, activeAccounts, panel, drifted>>

Continue(t, pc) == task' = [task EXCEPT ![t].pc = pc]
EndTask(t) == task' = [task EXCEPT ![t] = NoTask]

-----------------------------------------------------------------------------
\* The worker.  processHostingProvisioningForOrder looks for the row, then for a server.
FindServer(t, h) ==
    /\ hosting[h] = "none"
    /\ \E s \in Emptiest : BeginTask(t, [pc |-> "insert", h |-> h, s |-> s, read |-> "none", op |-> "row"])

\* The domain and the entitlement are unique: the insert that comes second fails.
CreateRow(t, next) ==
    LET h == task[t].h
    IN  IF hosting[h] = "none"
        THEN /\ hosting' = [hosting EXCEPT ![h] = "PROVISIONING"]
             /\ place' = [place EXCEPT ![h] = task[t].s]
             /\ next
        ELSE EndTask(t) /\ UNCHANGED <<hosting, place>>

InsertRow(t) ==
    /\ task[t].pc = "insert" /\ task[t].op = "row"
    /\ CreateRow(t, EndTask(t))
    /\ UNCHANGED <<activeAccounts, panel, begun, drifted>>

\* suspendHostingAccountsForOrder and suspendHostingForRevokedEntitlement.
ReadForSuspension(t, h) ==
    /\ hosting[h] = "ACTIVE"
    /\ BeginTask(t, [pc |-> "write", h |-> h, s |-> place[h], read |-> "ACTIVE", op |-> "SUSPENDED"])

-----------------------------------------------------------------------------
\* Requests to the panel of an existing account.  op is the status that is asked for.
AdminChangeStatus(t, h, op) ==
    /\ hosting[h] # "none" /\ ValidHostingTransition(hosting[h], op)
    /\ BeginTask(t, [pc |-> "panel", h |-> h, s |-> place[h], read |-> hosting[h], op |-> op])

\* The adapters turn every failure into an answer that nobody looks at.
CallPanel(t, done) ==
    /\ task[t].pc = "panel"
    /\ panel' = IF done /\ task[t].op = "TERMINATED"
                THEN [panel EXCEPT ![task[t].s] = @ \ {task[t].h}] ELSE panel
    /\ Continue(t, "write")
    /\ UNCHANGED <<hosting, place, activeAccounts, begun, drifted>>

Counted(st) == st \in {"ACTIVE", "SUSPENDED"}

\* Mutant: the count goes down whatever the account was.
DropsAlways(t) == IF task[t].op = "TERMINATED" THEN 1 ELSE 0

Drops(t) == IF task[t].op = "TERMINATED" /\ task[t].read = "ACTIVE" THEN 1 ELSE 0

\* The ways in which a status is written that leave the count of the server wrong: another
\* task wrote the row since it was read, an account is unsuspended that the panel never
\* activated, or one is terminated that is suspended.
Misbooks(t) ==
    \/ hosting[task[t].h] # task[t].read \/ place[task[t].h] # task[t].s
    \/ task[t].read = "PROVISIONING" /\ task[t].op = "ACTIVE"
    \/ task[t].read = "SUSPENDED" /\ task[t].op = "TERMINATED"

WriteStatus(t) ==
    LET h == task[t].h
    IN  /\ task[t].pc = "write"
        /\ hosting' = [hosting EXCEPT ![h] = task[t].op]
        /\ activeAccounts' = [activeAccounts EXCEPT ![task[t].s] = @ - Drops(t)]
        /\ drifted' = drifted \cup (IF Misbooks(t) THEN {task[t].s, place[h]} ELSE {})
        /\ EndTask(t)
        /\ UNCHANGED <<place, panel, begun>>

-----------------------------------------------------------------------------
\* provisionAccountInternal for a domain, on a server the customer names or one with room.
Provision(t, h, s) ==
    /\ hosting[h] # "ACTIVE"
    /\ BeginTask(t, [pc |-> "insert", h |-> h, s |-> s, read |-> hosting[h], op |-> "account"])

\* adminRetryProvision stays on the server of the row, full or not.
AdminRetryProvision(t, h) == hosting[h] \notin {"none", "TERMINATED"} /\ Provision(t, h, place[h])

\* An account is moved to PROVISIONING although its server counts it, or another task
\* provisions it already.
UpsertRow(t) ==
    LET h == task[t].h
    IN  /\ task[t].pc = "insert" /\ task[t].op = "account"
        /\ IF task[t].read = "none"
           THEN CreateRow(t, Continue(t, "create")) /\ UNCHANGED drifted
           ELSE /\ hosting' = [hosting EXCEPT ![h] = "PROVISIONING"]
                /\ place' = [place EXCEPT ![h] = task[t].s]
                /\ drifted' = drifted \cup (IF Counted(hosting[h]) THEN {task[t].s, place[h]} ELSE {})
                /\ Continue(t, "create")
        /\ UNCHANGED <<activeAccounts, panel, begun>>

\* A panel refuses an account it has; its answer may be lost once it has created one.
CreateAtPanel(t, answered) ==
    LET h == task[t].h
        s == task[t].s
    IN  /\ task[t].pc = "create"
        /\ panel' = [panel EXCEPT ![s] = @ \cup {h}]
        /\ Continue(t, IF h \notin panel[s] /\ answered THEN "created" ELSE "failed")
        /\ UNCHANGED <<hosting, place, activeAccounts, begun, drifted>>

PanelFails(t) ==
    /\ task[t].pc = "create"
    /\ Continue(t, "failed")
    /\ UNCHANGED <<hosting, place, activeAccounts, panel, begun, drifted>>

\* A task finds the row as it left it, or writes over what another one wrote.
Outcome(t, st) ==
    LET h == task[t].h
    IN  /\ hosting' = [hosting EXCEPT ![h] = st]
        /\ drifted' = drifted \cup (IF hosting[h] # "PROVISIONING" \/ place[h] # task[t].s
                                    THEN {task[t].s, place[h]} ELSE {})
        /\ EndTask(t)
        /\ UNCHANGED <<place, panel, begun>>

ActivateAccount(t) ==
    /\ task[t].pc = "created"
    /\ Outcome(t, "ACTIVE")
    /\ activeAccounts' = [activeAccounts EXCEPT ![task[t].s] = @ + 1]

FailAccount(t) == task[t].pc = "failed" /\ Outcome(t, "FAILED") /\ UNCHANGED activeAccounts

\* A process dies, or the database refuses.
TaskDies(t) ==
    /\ task[t] # NoTask
    /\ EndTask(t)
    /\ UNCHANGED <<hosting, place, activeAccounts, panel, begun, drifted>>

-----------------------------------------------------------------------------
HostingNext ==
    \/ \E t \in HostingTasks, h \in Homes :
         \/ FindServer(t, h) \/ ReadForSuspension(t, h) \/ AdminRetryProvision(t, h)
         \/ \E op \in {"SUSPENDED", "ACTIVE", "TERMINATED"} : AdminChangeStatus(t, h, op)
         \/ \E s \in Servers : Provision(t, h, s)
    \/ \E t \in HostingTasks :
         \/ InsertRow(t) \/ WriteStatus(t) \/ UpsertRow(t) \/ PanelFails(t)
         \/ ActivateAccount(t) \/ FailAccount(t) \/ TaskDies(t)
         \/ \E yes \in BOOLEAN : CallPanel(t, yes) \/ CreateAtPanel(t, yes)

HostingSpec == HostingInit /\ [][HostingNext]_hostingVars

-----------------------------------------------------------------------------
HostingStatus == {"none", "PROVISIONING", "ACTIVE", "SUSPENDED", "FAILED", "TERMINATED"}

HostingTypeOK ==
    /\ hosting \in [Homes -> HostingStatus] /\ place \in [Homes -> Servers]
    /\ activeAccounts \in [Servers -> Int] /\ panel \in [Servers -> SUBSET Homes]
    /\ task \in [HostingTasks -> {NoTask} \cup
         [pc : {"insert", "panel", "write", "create", "created", "failed"}, h : Homes, s : Servers,
          read : HostingStatus, op : {"row", "account", "SUSPENDED", "ACTIVE", "TERMINATED"}]]
    /\ begun \in 0 .. MaxTasks /\ drifted \subseteq Servers

\* The count a server is chosen by is the number of its accounts that are active or
\* suspended, whatever processes die and whatever the panel answers, unless one of these
\* steps touched the server: a write over a row another task has written, a new provisioning
\* of a suspended account, an unsuspension of one that was never activated, or the
\* termination of a suspended one (adminTerminateAccount and provisionAccountInternal).
OnlyTheseStepsMiscount ==
    \A s \in Servers \ drifted :
      activeAccounts[s] = Cardinality({h \in Homes : place[h] = s /\ Counted(hosting[h])})

\* "Never overfill a server" (hosting-processor.ts, line 83, and provisionAccountInternal,
\* line 764): a server none of these steps touched has no more active accounts than its
\* maximum.
ServersAreNotOverfilled ==
    \A s \in Servers \ drifted : Cardinality({h \in Homes : place[h] = s /\ hosting[h] = "ACTIVE"}) <= MaxAccounts
=============================================================================
