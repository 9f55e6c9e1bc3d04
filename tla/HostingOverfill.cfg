SPECIFICATION RoomIsLookedFor
CONSTANTS
  Homes = {h1, h2}
  Servers = {s1}
  MaxAccounts = 1
  HostingTasks = {t1, t2}
  MaxTasks = 4
INVARIANT ServersAreNotOverfilled
CHECK_DEADLOCK FALSE
