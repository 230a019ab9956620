SPECIFICATION Spec
CONSTANTS
  Publications <- PairsNested
  OperatorDirs <- InsideAndOutside
  MaxBuilds = 3
  MaxFaults = 1
INVARIANTS TypeOk PagesServed OnlyStalePagesGo
