SPECIFICATION Spec
CONSTANTS
  Order <- MCOrder
  Entries <- MCEntries
  Listings <- MCListings
  Aliases <- MCAliases
  Parts <- MCParts
  Alphabet <- MCAlphabet
  Native <- MCNative
  Settings <- MCSettings
  Requests <- MCRequests
CHECK_DEADLOCK FALSE
INVARIANTS
  FallbacksAreConfigured
  AutoChooses
  ListedIsTrue
  ContinuationIsPlanned
