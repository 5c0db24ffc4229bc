SPECIFICATION Spec
CONSTANTS
  Ref <- MCRef
  Prefixed <- MCPrefixed
  Stripped <- MCStripped
  Suffixed <- MCSuffixed
  Digits <- MCDigits
  Rank <- MCRank
  Preference <- MCRank
  Style = "pep440"
  UsesCmdclass = TRUE
  Tags = {"v1", "v1.post1"}
  Branch = "v0-next"
  MaxCommits = 2
  Scripts <- MCScripts
  MaxBreaks = 1
  Places <- MCPlaces
INVARIANTS
  TypeOK
  SourceFileIsLong
  LookupSeesOneCommit
  CleanReleaseIsItsTag
  ReleaseIsNamedByItsVersion
  ReleaseKeepsItsVersion
  
  ArchiveKnowsItsTag
  SetupIsComplete
PROPERTY SourceUntouched
