SPECIFICATION Spec
CONSTANTS
  Names <- MCNames
  Letters <- MCLetters
  Depth = 3
  MaxLinks = 2
  MaxEntries = 9
  Trees <- MCTrees
  AllowedLists <- MCAllowedLists
  RawPaths <- MCRawPaths
  Home <- MCHome
  Reqs = {r1, r2}
  FileText <- MCFileText
  MtimeOf <- MCMtimeOf
  Unreadable <- MCUnreadable
  Searches <- MCSearches
  SearchPaths <- MCSearchPaths
  NoPath <- MCNoPath
  GlobScanLimit = 7
  GlobMaxResults = 2
  Meanwhile = 1
INVARIANTS
  AcceptedInside
  SameFileSameKey
  RoutedExactly
  GlobCompleteUnlessNoted
  GrepExact
