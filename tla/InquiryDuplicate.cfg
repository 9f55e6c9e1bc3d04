SPECIFICATION InquiriesSpec
CONSTANTS
  Submissions = {"s1"}
  Staff = {"u1"}
  Notifiers = {w1, w2}
  MaxInquiryFaults = 1
INVARIANT StaffAreToldOnce
CHECK_DEADLOCK FALSE
