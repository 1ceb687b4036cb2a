SPECIFICATION FairSpec
CONSTANTS
  Calls = {c1, c2}
  mine = mine
  theirs = theirs
  other = other
  x = x
  y = y
  Services = {mine, theirs, other}
  Slugs = {x, y}
  SlugOf <- MCSlugOf
  Operations <- MCOperations
  Origins = {home, sibling, denied, foreign}
  Allowlist = {home, sibling, denied}
  DeniedIPs = {denied}
  Bound = home
  MaxPages = 2
  MaxRedirects = 1
  Deadline = 0
INVARIANTS
  TypeOK
  EachHopIsChecked
  RequestsAreBounded
  DoneIsComplete
  ClientsAreShared
PROPERTIES
  DowngradeIsFinal
  CallsEnd
