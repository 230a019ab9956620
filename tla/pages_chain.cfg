SPECIFICATION Spec
CONSTANTS
  Publications <- Chains
  OperatorDirs <- OutsideDirs
  MaxBuilds = 1
  MaxFaults = 0
INVARIANTS PagesServed
