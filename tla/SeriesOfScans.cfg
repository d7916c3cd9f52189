SPECIFICATION SeriesSpec
CONSTANTS
  Possible <- MCPossible
  Images <- MCImages
  FilesOf <- MCFilesOf
  EvidenceOf <- MCEvidenceOf
  HasDpkg = TRUE
  Modes <- MCModes
  Surfaces <- MCSurfaces
  Orders <- MCOrders
  MergedDirs <- MCMergedDirs
  LinkTo <- MCLinkTo
  Regular <- MCRegular
  Releases <- MCReleases
  MaxChanges = 1
INVARIANTS DeltaReplays  CountsMatchStream PageIsTheStream HostEdgesNameHostSoftware OwnedWithinRoot OwnersAreRight SkipKeepsHost
PROPERTY QuietWhenUnchanged
