SPECIFICATION FairSpec
CONSTANTS
  p1 = p1
  p2 = p2
  keychain = keychain
  newFile = newFile
  a = a
  b = b
  n = n
  Absent = Absent
  Zeros = Zeros
  Procs = {p1, p2}
  ItemSources = {keychain}
  FileSources = {newFile}
  Rank <- MCRank2
  LegacyTokens = {a, b}
  Issued = {n}
  Modes = {"migrate"}
  ReadFaults = FALSE
  TornDelete = FALSE
  MaxFaults = 2
INVARIANTS OpenMeansMigrated
PROPERTIES NoWedge FreshTokenKept ImplementsCustody Converges
