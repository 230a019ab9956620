SPECIFICATION LiveSpec
CONSTANTS
  p1 = p1
  p2 = p2
  p3 = p3
  about = about
  terms = terms
  Requests = {p1, p2, p3}
  Pages = {about}
  Subtrees = {}
  Loaded = {}
  TopFiles <- OneFile
  ToggledFiles = {}
  Rank <- MCRank
  Sites <- SmallSites
  HostOf <- SharedOutput
  MaxEdits = 1
  MaxFaults = 0
  MaxCrashes = 0
PROPERTIES EventuallyCurrent
