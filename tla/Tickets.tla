------------------------------ MODULE Tickets -------------------------------
(***************************************************************************)
(* One support ticket: apps/api/src/modules/tickets/tickets.service.ts,    *)
(* packages/database/src/domain/ticket-engine.ts and reconcileIdleTickets  *)
(* of the worker.                                                          *)
(*                                                                         *)
(* Everybody reads the ticket, decides, and updates it by its id alone in  *)
(* a later transaction.  A ticket is idle by its updated_at, which a       *)
(* message moves only where the code updates the ticket with it.           *)
(***************************************************************************)
EXTENDS Integers, FiniteSets

CONSTANTS
    TicketTasks,     \* requests and worker processes
    MaxTicketTasks   \* bound: tasks begun

ASSUME TicketsAssumption == MaxTicketTasks \in Nat

VARIABLES
    ticket,      \* the status of the ticket
    lastWord,    \* who wrote the last public message
    old,         \* updated_at is more than seven days ago
    quiet,       \* so is the last public message
    unmarked,    \* a public message is younger than updated_at
    ticketTask,  \* ticketTask[t]: what t read, and whether the ticket was written since
    ticketTasks  \* how many were begun

ticketVars == <<ticket, lastWord, old, quiet, unmarked, ticketTask, ticketTasks>>

TicketStatus == {"OPEN", "WAITING_STAFF", "IN_PROGRESS", "WAITING_CUSTOMER", "RESOLVED", "CLOSED"}
NoTicketTask == [op |-> "none"]

\* createTicket.
TicketsInit ==
    /\ ticket = "OPEN" /\ lastWord = "customer"
    /\ old = FALSE /\ quiet = FALSE /\ unmarked = FALSE
    /\ ticketTask = [t \in TicketTasks |-> NoTicketTask]
    /\ ticketTasks = 0

\* isValidTicketTransition.
ValidTicketTransition(from, to) ==
    \/ from = to
    \/ from \in {"OPEN", "WAITING_STAFF", "IN_PROGRESS", "WAITING_CUSTOMER"} /\ to # "OPEN"
    \/ from = "RESOLVED" /\ to # "WAITING_CUSTOMER"
    \/ from = "CLOSED" /\ to = "OPEN"

\* determineStatusOnReply for a message everybody sees.
StatusOnReply(from, sender) ==
    IF sender = "staff" THEN "WAITING_CUSTOMER"
    ELSE IF from \in {"RESOLVED", "CLOSED"} THEN "OPEN" ELSE "WAITING_STAFF"

\* Seven days after the last update.
TimePasses ==
    /\ ~(old /\ quiet)
    /\ old' = TRUE
    /\ quiet' \in IF unmarked THEN BOOLEAN ELSE {TRUE}
    /\ UNCHANGED <<ticket, lastWord, unmarked, ticketTask, ticketTasks>>

ReadTicket(t, op, to) ==
    /\ ticketTask[t] = NoTicketTask /\ ticketTasks < MaxTicketTasks
    /\ ticketTasks' = ticketTasks + 1
    /\ ticketTask' = [ticketTask EXCEPT ![t] = [op |-> op, to |-> to, read |-> ticket, stale |-> FALSE]]
    /\ UNCHANGED <<ticket, lastWord, old, quiet, unmarked>>

ReplyTicket(t) == ReadTicket(t, "customer", StatusOnReply(ticket, "customer"))
AdminReplyTicket(t) == ReadTicket(t, "staff", StatusOnReply(ticket, "staff"))
AdminUpdateTicket(t, to) == ValidTicketTransition(ticket, to) /\ ReadTicket(t, "admin", to)

ReconcileIdleTickets(t) ==
    ticket \in {"WAITING_CUSTOMER", "RESOLVED"} /\ old /\ ReadTicket(t, "worker", "CLOSED")

\* What the others in flight have read is from before this write.
TicketTaskEnds(t) ==
    ticketTask' = [o \in TicketTasks |->
        IF o = t \/ ticketTask[o] = NoTicketTask THEN NoTicketTask
        ELSE [ticketTask[o] EXCEPT !.stale = TRUE]]

\* Mutant: a customer's reply, too, updates the row only if it changes the status.
WriteChangesOnly(t) ==
    LET task == ticketTask[t]
    IN  /\ task.op \in {"customer", "admin", "worker"}
        /\ IF task.op = "customer" /\ task.to = task.read
           THEN unmarked' = TRUE /\ UNCHANGED <<ticket, old>>
           ELSE ticket' = task.to /\ old' = FALSE /\ unmarked' = FALSE
        /\ IF task.op = "customer" THEN lastWord' = "customer" /\ quiet' = FALSE ELSE UNCHANGED <<lastWord, quiet>>
        /\ TicketTaskEnds(t)
        /\ UNCHANGED ticketTasks

\* A customer's reply and a decision of an administrator or the worker always update the row.
WriteTicket(t) ==
    LET task == ticketTask[t]
    IN  /\ task.op \in {"customer", "admin", "worker"}
        /\ ticket' = task.to
        /\ old' = FALSE
        /\ unmarked' = FALSE
        /\ IF task.op = "customer" THEN lastWord' = "customer" /\ quiet' = FALSE ELSE UNCHANGED <<lastWord, quiet>>
        /\ TicketTaskEnds(t)
        /\ UNCHANGED ticketTasks

\* A reply of the staff updates it only if that changes the status that was read.
WriteStaffReply(t) ==
    LET task == ticketTask[t]
    IN  /\ task.op = "staff"
        /\ lastWord' = "staff" /\ quiet' = FALSE
        /\ IF task.to # task.read
           THEN ticket' = task.to /\ old' = FALSE /\ unmarked' = FALSE
           ELSE unmarked' = TRUE /\ UNCHANGED <<ticket, old>>
        /\ TicketTaskEnds(t)
        /\ UNCHANGED ticketTasks

\* The process dies or the transaction fails.
TicketTaskDies(t) ==
    /\ ticketTask[t] # NoTicketTask
    /\ ticketTask' = [ticketTask EXCEPT ![t] = NoTicketTask]
    /\ UNCHANGED <<ticket, lastWord, old, quiet, unmarked, ticketTasks>>

TicketsNext ==
    \/ TimePasses
    \/ \E t \in TicketTasks :
         \/ ReplyTicket(t) \/ AdminReplyTicket(t) \/ ReconcileIdleTickets(t)
         \/ WriteTicket(t) \/ WriteStaffReply(t) \/ TicketTaskDies(t)
         \/ \E to \in TicketStatus : AdminUpdateTicket(t, to)

TicketsSpec == TicketsInit /\ [][TicketsNext]_ticketVars

-----------------------------------------------------------------------------
TicketsTypeOK ==
    /\ ticket \in TicketStatus /\ lastWord \in {"customer", "staff"}
    /\ old \in BOOLEAN /\ quiet \in BOOLEAN /\ unmarked \in BOOLEAN
    /\ ticketTask \in [TicketTasks -> {NoTicketTask} \cup
         [op : {"customer", "staff", "admin", "worker"}, to : TicketStatus, read : TicketStatus, stale : BOOLEAN]]
    /\ ticketTasks \in 0 .. MaxTicketTasks

Writes(t) == ticketTask[t] # NoTicketTask /\ ticketTask'[t] = NoTicketTask

\* The worker closes tickets "that have had no activity" for seven days (reconcileIdleTickets,
\* ticket-processor.ts, line 72): one with a younger message only if that message came after
\* the worker had looked, or is a reply of the staff that left the status, and so updated_at,
\* as it was (adminReplyTicket).  So a reply of the customer is spared if the worker could
\* see it; one that comes between the worker's look and its write is closed over.
ActiveTicketsAreSpared ==
    [][\A t \in TicketTasks :
         (ticketTask[t] # NoTicketTask /\ ticketTask[t].op = "worker" /\ Writes(t) /\ ticket' # ticket /\ ~quiet)
           => ticketTask[t].stale \/ lastWord = "staff"]_ticketVars
=============================================================================
