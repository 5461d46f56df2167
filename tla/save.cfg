CONSTANTS
  one = one
  two = two
  Savers = {one, two}
  Nothing = Nothing
  Torn = Torn
  SaveSeq = 2
  Contents <- MCContents
  Accepted <- MCAccepted
  Configs <- MCConfigs
  Installations <- MCInstallations
  PATHs <- MCPATHs
  FALLBACK_PATHS <- MCFALLBACK
  Spellings <- MCSpellings
SPECIFICATION ServiceSpec
INVARIANTS StartsAreAccountable OwnMountsAreRecognised WhatIsAcceptedWorks
PROPERTIES SavesAreAtomic
