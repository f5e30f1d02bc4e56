CONSTANTS
  Restores = {a, b}
  Names <- MCNames
  Texts <- MCTexts
  Starts <- MCStarts
  Contains <- MCContains
  Custom <- MCCustom
  NoName = NoName
  NoKind = NoKind
  Archives <- MCArchives
  Prefs <- MCPrefs
  Targets <- MCTargets
  Rank <- MCRank
  MaxTries = 1
  Budget <- MCBudget
SPECIFICATION Spec
SYMMETRY CallsAlike
INVARIANTS
  TypeOK
  EveryItemCounted
  ClaimAfterVolume
  ReboundInPairs
  NothingExcluded
  GoTogether
  WholeArchive
  DoneLeavesNothing
  NeverStuck
  StricterTriesLess
PROPERTIES
  StepsRunOut
  KeepsAccount
CHECK_DEADLOCK FALSE
