SPECIFICATION Spec
CONSTANTS
  NULL = NULL
  Writers = {w1, w2}
  Readers = {r1}
  Paths <- TwoPaths
  Urls <- SomeUrls
  MaxEntries = 3
  MaxSearches = 1
INVARIANTS
  RegistryComplete
  LongestPrefixFound
PROPERTIES
  SearchesEnd
CHECK_DEADLOCK FALSE
