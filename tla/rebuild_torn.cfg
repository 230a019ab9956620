SPECIFICATION Spec
CONSTANTS
  p1 = p1
  p2 = p2
  p3 = p3
  about = about
  terms = terms
  Requests = {p1, p2}
  Pages = {about}
  Subtrees <- MCSubtrees
  Loaded <- MCLoaded
  TopFiles <- MCTopFiles
  ToggledFiles <- MCToggled
  Rank <- MCRank
  Sites <- StyledSites
  HostOf <- ServerHost
  MaxEdits = 1
  MaxFaults = 1
  MaxCrashes = 0
PROPERTIES FailedPromotionChangesNothing
