\* sync: an edit here, one in the repository, a fault, the server and the tool;
\* hot topics: two records of two captures each, a change of the question base;
\* imports: two uploads of three workbooks, an edit; matches: two records of
\* two matches each, two edits or publications; desk: two bases, of two items
\* and of one, pages of one item, four gestures of two people, two lists of
\* bases under way
SPECIFICATION Spec
CONSTANTS
  Nil = Nil
  item = item
  field = field
  Entry = {item, field}
  FieldEntry = {field}
  Process = {"server", "tool"}
  Server = "server"
  Seed <- Seeds
  MaxLocal = 1
  MaxRemote = 1
  MaxFaults = 1
  Record = {r1, r2}
  Question = {q1, q2}
  Limit = 2
  MaxAttempts = 2
  MaxChanges = 1
  KBase = {b1, b2}
  Upload = {u1, u2}
  Workbook <- Workbooks
  Mapping <- Mappings
  FirstColumns <- Columns
  MaxEdits = 1
  NoMapping = NoMapping
  NoKBase = NoKBase
  Unused = Unused
  MRecord = {m1, m2}
  MItem = {1, 2}
  ta = ta
  tb = tb
  tc = tc
  Text = {ta, tb, tc}
  Query = {qa}
  Points <- Scores
  CandidateLimit = 1
  MaxTouches = 2
  MaxMatches = 2
  NoText = NoText
  k1 = k1
  k2 = k2
  KbBase = {k1, k2}
  KbItem = {1, 2, 3}
  BaseOf <- ItemBase
  KbFile = {"f", "g"}
  KbPageSize = 1
  MaxGestures = 4
  MaxAsked = 2
  None = None
  Here = Here
CHECK_DEADLOCK FALSE
INVARIANTS
  ReadyIsTrue
  OneEntryPerQuestion
  BasesStand
  MatchStands
PROPERTIES
  ReplacesOnlyKnown
  LateAnswerWritesNothing
  ImportChangesItsLines
