\* Two changes of the repository's snapshot and none of the database.
SPECIFICATION Spec
CONSTANTS
  Nil = Nil
  item = item
  field = field
  Entry = {item, field}
  FieldEntry = {field}
  Process = {"server", "tool"}
  Server = "server"
  Seed <- Seeds
  MaxLocal = 0
  MaxRemote = 2
  MaxFaults = 0
  Record = {r1}
  Question = {q1}
  Limit = 1
  MaxAttempts = 1
  MaxChanges = 0
  KBase = {b1}
  Upload = {u1}
  Workbook <- Workbooks
  Mapping <- Mappings
  FirstColumns <- Columns
  MaxEdits = 0
  NoMapping = NoMapping
  NoKBase = NoKBase
  Unused = Unused
  MRecord = {m1}
  MItem = {1, 2}
  ta = ta
  tb = tb
  tc = tc
  Text = {ta, tb, tc}
  Query = {qa}
  Points <- Scores
  CandidateLimit = 1
  MaxTouches = 0
  MaxMatches = 1
  NoText = NoText
  k1 = k1
  k2 = k2
  KbBase = {k1, k2}
  KbItem = {1, 2, 3}
  BaseOf <- ItemBase
  KbFile = {"f", "g"}
  KbPageSize = 1
  MaxGestures = 0
  MaxAsked = 2
  None = None
  Here = Here
CHECK_DEADLOCK FALSE
INVARIANT RefusedOnlyIfEdited
