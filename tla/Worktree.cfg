SPECIFICATION FairSpec
CONSTANTS
  Homes = {"h1", "h2"}
  Targets = {"t1"}
  MaxTimers = 2
  MaxCrashes = 1
  Faults = TRUE
  DuringTimer = {"request", "approve", "forever", "reject", "unbind"}
  NoTree = NoTree
  Main = Main
INVARIANT TypeOK
INVARIANT StateMatchesBinding
PROPERTY TtlReverts
