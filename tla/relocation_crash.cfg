SPECIFICATION Spec
CONSTANTS
  work = work
  home = home
  Unset = Unset
  Absent = Absent
  Malformed = Malformed
  Client = Client
  Refs = {work, home}
  DefaultRef = home
  Written <- MCWritten
  InUse = FALSE
  Commands = {"init"}
  MaxCrashes = 1
CHECK_DEADLOCK FALSE
INVARIANTS ClientAvailable
