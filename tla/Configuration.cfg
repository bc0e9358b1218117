\* routing: two calls, an edit and a tick; catalogue: three operations beside a
\* check and two previews; budget: three routes of two batches over three days
\* in two months, and a crash; versions: three, two edits, a legacy import;
\* upgrades: three starts of seven releases, two changes of the operator's;
\* accounts: three with two passwords and two sessions
SPECIFICATION ConfSpec
CONSTANTS
  None = None
  p1 = p1
  qa = qa
  qb = qb
  Member <- Members
  Provider = {p1}
  ProviderOf <- Shared
  Class <- Ranking
  Call = {c1, c2}
  MaxRequests = 3
  MaxCooldown = 30
  MaxTime = 1
  MaxEdits = 1
  Model <- Models
  CatalogKind <- Kinds
  Url = {u1, u2}
  DashScope = u1
  MaxRows = 3
  MaxSteps = 3
  MaxRenames = 1
  MaxPreviews = 2
  Route = {"r1", "r2", "r3"}
  Batch = {"b1", "b2"}
  BatchOf <- RouteBatch
  MaxTokens = 2
  MaxBilled = 3
  BatchLimit <- Limits
  DailyLimit = 4
  MonthlyLimit = 6
  MonthOf <- Months
  LastDay = 3
  MaxCrashes = 1
  NoRow = NoRow
  f1 = f1
  f2 = f2
  k1 = k1
  k2 = k2
  Field = {f1, f2}
  Key = {k1, k2}
  Baseline <- OneField
  Import = {i1, i2}
  Legacy = {i2}
  MaxVersions = 3
  MaxDraftEdits = 2
  Releases = {13, 18, 24, 27, 28, 29, 30}
  Task = {t1}
  MaxOwn = 2
  MaxStarts = 3
  Absent = Absent
  Refused = Refused
  User = {u1, u2, u3}
  Role = {"admin", "operator"}
  Session = {s1, s2}
  MaxPassword = 2
  NoAccount = NoAccount
CHECK_DEADLOCK FALSE
INVARIANTS
  AccessHolds
  TriedInTurn
  CatalogStands
  HistoryStands
  LimitsHold
  DayReturns
  UpgradeStands
PROPERTIES
  WhatWasDoneStands
  AppliedIsPlanned
  DraftsContinue
