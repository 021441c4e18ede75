SPECIFICATION FairSpec
CONSTANTS
  p1 = p1
  c1 = c1
  c2 = c2
  work = work
  default = default
  Absent = Absent
  Invalid = Invalid
  Procs = {p1}
  Clients = {c1, c2}
  Settings = {work, default}
  Defaults = default
  MaxFaults = 2
  MaxTries = 2
INVARIANTS ClientKept SettingsKept NoticeOnce
PROPERTIES FilesSettle
