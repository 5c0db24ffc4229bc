SPECIFICATION Spec
CONSTANTS
  Ref <- MCRef
  Prefixed <- MCPrefixed
  Stripped <- MCStripped
  Suffixed <- MCSuffixed
  Digits <- MCDigits
  Rank <- MCRank
  Preference <- MCRank
  Style = "pep440"
  UsesCmdclass = FALSE
  Tags = {"v1", "nightly"}
  Branch = "v0-next"
  MaxCommits = 2
  Scripts <- MCPlainScripts
  MaxBreaks = 0
  Places <- MCPlaces
INVARIANT DistributionHasShortFile
