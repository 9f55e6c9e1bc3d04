----------------------------- MODULE MCHosting ------------------------------
\* Hosting alone.  Requests that name a server, and retries, which stay on the server of
\* their row, are not asked whether it has room (provisionAccountInternal, line 747);
\* RoomIsLookedFor leaves such requests out, so that every provisioning that begins has
\* been given a server the code picked because it has room (line 757).
EXTENDS Hosting

Begins(t) == task[t] = NoTask /\ task'[t] # NoTask

PickedNext ==
    /\ HostingNext
    /\ \A t \in HostingTasks : Begins(t) /\ task'[t].pc = "insert" => task'[t].s \in Emptiest

RoomIsLookedFor == HostingInit /\ [][PickedNext]_hostingVars
=============================================================================
