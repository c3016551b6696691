SPECIFICATION Spec
CONSTANTS
  Nil = Nil
  Unknown = Unknown
  m1 = m1
  m2 = m2
  r1 = r1
  r2 = r2
  a1 = a1
  a2 = a2
  a3 = a3
  s1 = s1
  s2 = s2
  cuda = cuda
  cpu = cpu
  sm120 = sm120
  sm90 = sm90
  d1 = d1
  d2 = d2
  Models = {m1, m2}
  Offered <- MCOffered
  OfferedSets <- MCOfferedSets
  Domains <- MCDomains
  Requests <- MCRequests
  Calls = {c1, c2}
  MaxRevisions = 2
  MaxGeneration = 2
  MaxResidencies = 2
SYMMETRY CallSymmetry
INVARIANTS
  NamedLoadIsDefinition
  NamedLoadFits
  AnswerWasReady
PROPERTIES
  LatestOnlyAdvances
