SPECIFICATION FairSpec
CONSTANTS
  Conns = {c1, c2, c3}
  Workers = {w1, w2}
  Hosts = {w1}
  Boots = {1, 2}
  NoConn = NoConn
  Epoch = 1
  Generation = 1
  Orderly = TRUE
  MaxStale = 2
INVARIANTS
  TypeOK
  OneLiveBoot
  RegistryAgrees
  ReportJudged
  CountKept
PROPERTIES
  LostIsSurrendered
