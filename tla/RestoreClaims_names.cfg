CONSTANTS
  Restores = {a, b}
  Names <- MCNames
  Texts <- MCTexts
  Starts <- MCStarts
  Contains <- MCContains
  Custom <- MCCustom
  NoName = NoName
  NoKind = NoKind
  Archives <- MCArchives
  Prefs <- MCPrefs
  Targets <- MCTargets
  Rank <- MCRank
  MaxTries = 1
  Budget <- MCBudget
SPECIFICATION Spec
INVARIANT
  ExcludedExactly
CHECK_DEADLOCK FALSE
