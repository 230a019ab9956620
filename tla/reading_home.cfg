SPECIFICATION Spec
CONSTANTS
  Categories = {"c"}
  Rows <- MCRows
  MonthOf <- MCMonthOf
  SlugNumber <- MCSlugNumber
  PageSize = 2
  Discussed = {1}
  SidebarLimit = 1
  FeedLimit = 2
  LLMsLimit = 2
  MaxPosts = 4
  MaxEdits = 1
  LegacySites <- MCLegacySites
  Directories <- MCDirectories
  Mounts = {"/", "/blog/"}
  MaxImports = 2
  MaxMoves = 1
INVARIANTS HomeAsDynamic
CHECK_DEADLOCK FALSE
