SPECIFICATION DeskSpec
CONSTANTS
  Orders = {"o1", "o2"}
  Amount <- MCAmount
  Taxes = {1}
  Workers = {w1, w2}
  MaxFaults = 1
  Drafts = {"a1"}
  Emails = {"m1"}
  Dispatchers = {d1, d2}
  ClaimLimit = 2
  MaxAttempts = 2
  MaxActive = 1
  MaxMishaps = 2
  MaxJobs = 1
  MaxFlows = 2
  Homes = {h1, h2}
  Servers = {v1, v2}
  MaxAccounts = 1
  HostingTasks = {t1, t2}
  MaxTasks = 3
  TicketTasks = {t1, t2}
  MaxTicketTasks = 5
  Submissions = {"s1", "s2"}
  Staff = {"u1"}
  Notifiers = {w1, w2}
  MaxInquiryFaults = 2
  ProjectTasks = {t1, t2}
  MaxProjectTasks = 8
  MaxEntries = 1
INVARIANTS DeskTypeOK BookedAsInvoiced RefundReversesPayment JobsAgree OnlyTheseStepsMiscount InquiryKeepsItsFiles ConvertedMeansProject
PROPERTIES JobsEndOrStrand ActiveTicketsAreSpared EveryInquiryIsAnnounced ClosedProjectsStayClosed
CHECK_DEADLOCK FALSE
