SPECIFICATION Spec
CONSTANTS
  a = a
  m1 = m1
  m2 = m2
  Resolvers = {1, 2}
  Hosts = {1, 2, 3, 4}
  Material = {m1, m2}
  NotGiven = NotGiven
  Bad = Bad
  Other = Other
  NoCert = NoCert
  Atoms = {a}
  Slug <- MCSlug
  AcmeFiles <- MCFiles
INVARIANTS TypeOK RefusedAsAWhole LatestOfEachHost DistinctStems
CHECK_DEADLOCK FALSE
