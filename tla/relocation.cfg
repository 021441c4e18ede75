SPECIFICATION Spec
CONSTANTS
  work = work
  home = home
  Unset = Unset
  Absent = Absent
  Malformed = Malformed
  Client = Client
  Refs = {work, home}
  DefaultRef = home
  Written <- MCWritten
  InUse = TRUE
  Commands = {"init", "run", "use", "clear"}
  MaxCrashes = 1
INVARIANTS NoSilentSwitch
PROPERTIES ClearResets RelocationCarries
