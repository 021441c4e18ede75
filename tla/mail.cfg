SPECIFICATION MailSpec
CONSTANTS
  m1 = m1
  m2 = m2
  m3 = m3
  Msgs = {m1, m2, m3}
  Known = {"work"}
  Batch = 2
  PageMax = 2
  Broken = Broken
  Commands <- MCCommands
  MaxRuns = 2
  Parts <- MCParts
  Height <- MCHeight
  Messages <- MCMessages
  Requests <- MCRequests
  Clean <- MCClean
  Escapes <- MCEscapes
  Join <- MCJoin
  Archives <- MCArchives
  MaxFileSize = 2
  MaxTotalSize = 3
  MaxFiles = 3
  MaxDepth = 1
  ann = ann
  Ann = Ann
  bob = bob
  me = me
  ME = ME
  alias = alias
  m = m
  r = r
  thread = thread
  Addrs <- MCAddrs
  Lower <- MCLower
  None = None
  Malformed = Malformed
  Illegal = Illegal
  Me = me
  Cases <- MCCases
  Nodes <- MCNodes
  Deep = 4
INVARIANTS DraftFaithful EveryoneOnce ReadBack ElisionSafe
INVARIANTS BulkTouchedPrefix BulkDrains DownloadIntact DownloadBounded
PROPERTIES BulkOnlyAsked
CHECK_DEADLOCK FALSE
