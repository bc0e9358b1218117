\* disk: three writers of up to three bytes; quality: two rules, two references
\* each, four kinds of material at hand; report: two rules of each scene,
\* dialogues of up to two turns, or of four without times; deal: two
\* attributions with fifteen answers; sheet: every way to fill a row with two
\* result columns, keyed or plain, pictures in and beside the image column, in
\* the header row, twice on a row and without media, two sheets, generic
\* workbooks, two platforms, one import; book: two fields, a value a run finds
\* and one a person gives, two tabs, what older versions left; plan: up to two
\* headers and two columns; views: two jobs of two pages, three records, two
\* versions and edits each; polling: two overlapping operations over two
\* analyses; starts: the two jobs, four operations and navigations
SPECIFICATION Spec
CONSTANTS
  Writer = {w1, w2, w3}
  Size = 7
  Minimum = 1
  MaxBytes = 3
  MaxOthers = 1
  q1 = q1
  q2 = q2
  Rule <- Rules
  Scope <- Scopes
  Declared <- Sources
  Deduction <- Points
  ScoreBase = 10
  Material <- AtHands
  MaxEvidence = 2
  Missing = Missing
  j1 = j1
  j2 = j2
  r1 = r1
  r2 = r2
  r3 = r3
  Job <- Jobs
  Record <- Records
  JobOf <- Owner
  MaxPage = 2
  MaxVersion = 2
  MaxDraft = 2
  Nothing = Nothing
  Operation = {o1, o2}
  MaxGen = 4
  MaxRuns = 2
  NoPoll = NoPoll
  Deal = {d1}
  CustomerReason = {"c1", "c2"}
  ServiceReason = {"s1"}
  Summary = {"t1", "t2"}
  RawAnswer <- Answers
  MaxAttributions = 2
  NoReason = NoReason
  p1 = p1
  p2 = p2
  a1 = a1
  a2 = a2
  Catalogue <- RuleList
  HeadOf <- Heads
  PointsOf <- Marks
  ForcesD = {p2}
  PriorityOf <- Ranks
  TopScore = 100
  AtLeast <- GradesFrom
  RankOf <- GradesListed
  Dialogue <- Dialogues
  Snapshot <- Frozen
  ContextLimit = 5
  Unknown = Unknown
  f1 = f1
  f2 = f2
  fromRun = fromRun
  fromPerson = fromPerson
  OutField = {f1, f2}
  Result = {fromRun}
  Typed = {fromPerson}
  Tab = {t1, t2}
  Inherited <- Leftovers
  Sheet <- Sheets
  Setting <- Settings
  KeysOf <- Known
  Blank = Blank
  Offered <- Files
  ResultKey = {"rating", "advice"}
  RequiredKey = {"rating"}
  PlatformName = {"p", "q"}
  NoFile = NoFile
  TaskJob <- Jobs
  TaskRecord <- Records
  TaskOf <- Owner
  MaxTokens = 4
  NoTask = NoTask
SYMMETRY Alike
CHECK_DEADLOCK FALSE
INVARIANTS
  MinimumIsKept
  JudgementStands
  LinksStand
  
  WorkbooksHold
PROPERTIES
  ViewStands
  ReportStands
