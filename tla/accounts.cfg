SPECIFICATION Spec
CONSTANTS
  p1 = p1
  p2 = p2
  p3 = p3
  personal = personal
  work = work
  ann = ann
  bob = bob
  None = None
  Default = personal
  Procs = {p1, p2, p3}
  Profiles = {personal, work}
  Accounts = {ann, bob}
  Setups <- MCSetups
INVARIANTS IdentityEarned InitMeansUsable 
PROPERTIES ActsOnTarget RefreshUpdates LegacyHome
