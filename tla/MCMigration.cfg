SPECIFICATION Spec
CONSTANTS
  alice = alice
  bob = bob
  carol = carol
  o1 = o1
  o2 = o2
  Member = {alice, bob, carol}
  Anchor <- ExportFile
  Opening = 1
  Exported = 1
  Operator = {o1, o2}
  MaxRuns = 3
  MaxLive = 2
SYMMETRY Interchangeable
INVARIANTS
  TypeOK
  ActivityKept
  OneMigrationEntry

  
CHECK_DEADLOCK FALSE
