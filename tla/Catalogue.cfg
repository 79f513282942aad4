SPECIFICATION FairSpec
CONSTANTS
  Roots <- TheRoots
  IdOrder <- TheIds
  DebugNames = {"lib.debug", "tool.debug", "flat.debug"}
  NoCommit = NoCommit
  None = None
  DefaultLimit = 2
  MaxLimit = 3
  RowCap = 4
  Artifacts <- TheArtifacts
  AtFirst <- TheFirst
  DedupFiles <- TheDedupFiles
  Searches <- TheSearches
  Queries <- TheQueries
  MaxChanges = 4
  MaxTimeouts = 2
  Tokens <- TheTokens
  Letters <- TheLetters
  MaxTokens = 3
  MaxLetters = 4
INVARIANTS
  PagesMissNothing
  PagesRepeatNothing
  BrowseMissesNothing
  BrowseShowsOnce
  TreeHoldsEach
  GroupsWhole
  PatternsAgree
PROPERTIES
  PagingEnds
