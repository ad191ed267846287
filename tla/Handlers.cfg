SPECIFICATION Spec
CONSTANTS
  focusses = {"drafts", "routes", "remote", "pages", "tags", "scores", "verbs"}
  Calls = {c1, c2}  MaxRestarts = 1  Blank = Blank  None = None
  Drafts = {d1}  Stamps = {early, late}
  Surfaces = {slack, any}  Any = any  RouteIds = {r1}  Profiles = {p1, p2}
  Callers = {c1}  MaxAssigned = 3
  Refs = {k1, k2}  MaxFiles = 2
  Providers = {slack, email}  Stranger = sms  Ids = {1, 2, 3}  MaxTime = 2  MaxChanges = 2
  Tags = {spam}  Foreign = foreign  MaxAttempts = 2
  Items = {i1, i2}  Runs = {r1, r2}  Levels = {1, 2}
  Regs = {r1, r2}  Days = {mon, tue}  MaxPurchases = 2  PageLimit = 2
INVARIANTS
  TypesOK
  KeysAreWhereNeeded
  PagesTellAll
  VerbsStayTrue
PROPERTIES
  DraftsAreKept
  RoutesAreKept
  TagsAreTrue
  LoneRunKeepsScores
  EveryCallIsAnswered
CHECK_DEADLOCK FALSE
