SPECIFICATION FairSpec
CONSTANTS
  NULL = NULL
  JobNum = 2
  EndNum = 1
INVARIANTS SavedOrReported ExistFlagsTrue
PROPERTIES BannerAppearsWhole BegunAccessEnds
