SPECIFICATION Spec
CONSTANTS
  seed = seed
  mail = mail
  a = a
  b = b
  Tasks = {t1, t2}
  Emails = {seed, mail}
  Subjects = {s1, s2}
  Slugs = {a, b}
  SeedEmail = seed
  None = None
  People <- SomePeople
  StartSlugs <- Start
  MintChoices <- Choices
  SessionTTL = 1
  RetentionDays = 1
  BatchSize = 1
  MaxCalls = 3
  MaxEndpoints = 2
  Horizon = 2
SYMMETRY Symmetry
CHECK_DEADLOCK FALSE
INVARIANTS
  TypeOK
  RestrictionNeverWidens
  SignInsReachTheirOwn
  NothingOutlivesItsOwner
PROPERTIES
  RevocationIsFinal
  LinksAreForever
  ClaimsAreProven
  SweepIsComplete
