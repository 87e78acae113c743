\* Six services, one after the other.
SPECIFICATION Spec
CONSTANTS
  Parts = {"access", "accounts", "review", "trust", "risk", "window"}
  a = a
  b = b
  User = {a, b}
  Slot = {1, 2, 3}
  Handler = {p1, p2}
  NoUser = NoUser
  FirstTables <- Teams
  MaxRequests = 2
  MaxFaults = 1
  Email = {e1}
  Server = {s1, s2}
  NoEmail = NoEmail
  MaxRows = 2
  MaxCodes = 2
  Text = {1, 2}
  Desk = {d1, d2}
  MaxEdits = 2
  Report = {k1}
  Analyst = {t1, t2}
  MaxDecisions = 3
  MaxItems = 3
  MaxReports = 6
  Size = {"hour", "month"}
  Starts <- BucketStarts
  TruncOf <- SizeFor
  Earliest = 0
  Latest = 20
  Day = 4
CHECK_DEADLOCK FALSE
INVARIANTS
  AccessIsAccountable
  CodesFitTheirRow
  PublicTextWasCleared
  ResolutionIsWhole
  EveryReportIsCounted
  RiskIsShown
  SeriesCoversWindow
PROPERTIES
  VerifiedAccountsStay
