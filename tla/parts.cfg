SPECIFICATION PartsSpec
CONSTANTS
  c1 = c1
  Files = {f1, f2}
  Contents = {c1, o}
  Tagless = {}
  Opaque = {o}
  None = None
  Unread = Unread
  Rescan = Rescan
  PendingCap = 1
  Bound = 2
  Writers = {w1, w2}
  NoWriter = NoWriter
  Cap = 2
  Keeps = {0, 1, 2}
  MaxLines = 7
  MaxDeaths = 1
  s1 = s1
  s2 = s2
  Sessions = {s1, s2}
  HookChain <- HookChains2
  McpChain <- McpChains
  MaxResumes = 2
  MaxFaults = 2
  Requests = {r1, r2}
  Asks <- AllAsks
  Similar <- BothSimilar
  Ttl = 2
  MaxTime = 2
  MaxRestarts = 1
  A = A
  B = B
  C = C
  k1 = k1
  k2 = k2
  Dirs = {A, B, C}
  NoDir = NoDir
  Walkers = {k1, k2}
  Root = A
  References <- Manifests
  Depth = 2
  MaxAuto = 1
  MaxActs = 2
  t1 = t1
  t2 = t2
  b1 = b1
  b2 = b2
  Clients = {n1, n2}
  Topics = {t1, t2}
  Bodies = {b1, b2}
  Malformed = Malformed
  Abroad <- FromAbroad
  MaxNotes = 2
  MaxCalls = 4
  MaxCuts = 1
  x1 = x1
  q1 = q1
  q2 = q2
  x2 = x2
  Windows = {w1, w2}
  Slots = {q1, q2}
  Paths = {p1, p2}
  Texts = {x1, x2}
  Command = Command
  Large = {x2}
  NoRow = NoRow
  MaxTools = 3
  MaxUpsets = 1
INVARIANTS PartsTypeOK FreshIsTrue LinesAreKept LinkIsOwn HitIsOwn UsageOnce LinksAgree NotesAgree DenialsAreTrue
PROPERTIES IndexSettles SessionsEnd
CHECK_DEADLOCK FALSE
