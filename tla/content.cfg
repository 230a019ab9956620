SPECIFICATION Spec
CONSTANTS
  c1 = c1
  c2 = c2
  p1 = p1
  p2 = p2
  t1 = t1
  t2 = t2
  Clients = {c1, c2}
  Names = {"go", "c"}
  SlugOf <- MCSlugOf
  Slugs = {"s", "2"}
  NumberOf <- MCNumberOf
  Posts = {p1, p2}
  Articles = {"a"}
  Emails = {"m"}
  Addresses = {"ip"}
  Fingerprints = {"f", "g"}
  StampKinds = {"heart"}
  Texts = {t1, t2}
  FileNames = {"f"}
  PageSlugs <- MCPageSlugs
  MaxEntries = 2
  MaxTags = 2
  MaxSaves = 3
  MaxCategories = 3
  MaxDepth = 2
  RateLimit = 1
  MaxComments = 3
  MaxTemplates = 2
  MaxAssets = 2
  MaxFaults = 1
  MaxPages = 2
  Uploaders = {"editor", "author"}
  ImagesPerPage = 1
  MaxImages = 2
  MaxLinks = 3
  MaxShown = 2
INVARIANTS TypeOk TagsOfLastSave FormPublicationsAnnounced StrayCardsAreRaces DamageNeedsOldForm CategoriesReachable CountersMatch GateHolds DesignHolds EditsSurvive ConflictsNeedRace PicturesHold LinksHold
SYMMETRY Interchangeable
CHECK_DEADLOCK FALSE
