SPECIFICATION MCSpec
CONSTANTS
  Items = {"e1", "e2"}
  Sold <- MCSold
  Calls = {c1, c2}
  Nobody = Nobody
  Domains = {d1, d2}
  MaxActivations = 1
  Workers = {w1}
  MaxCalls = 3
  MaxDeaths = 1
  Rows = {r1, r2}
  Sites = {"d1"}
  Accounts = {p1, p2}
  Totals = {1, 2}
  MaxSites = 1
  MaxBookings = 3
  MaxEdits = 2
  Uploads = {"u1", "u2"}
  Publishers = {a1, a2}
  MaxDownloads = 2
  Window = 3
  LastTick = 7
  MaxRequests = 6
  FirstYear = 2023
  LastYear = 2024
  MaxMonths = 13
INVARIANTS AccessTypeOK SeatsHold RoomHolds DownloadsHold TermsHold
PROPERTIES NothingIsGivenAfterTheEnd EveryLicenseIsAnnounced DerivedRightsEnd
CHECK_DEADLOCK FALSE
