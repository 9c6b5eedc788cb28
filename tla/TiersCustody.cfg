\* Two spools and two NAS, one of them unplugged at times; every begun step is carried on.
SPECIFICATION FairSpec
CONSTANTS
  video = video  still = still  s1 = s1  s2 = s2  n1 = n1  n2 = n2  c1 = c1
  m1 = m1  m2 = m2  f1 = f1  v1 = v1
  None = None
  Assets = {still}
  Stills = {still}
  Spools = {s1, s2}
  NASes = {n1, n2}
  Cards = {c1}
  CardOf <- MCCardOf
  Rank <- MCRankOf
  Movers = {m1}
  Flushers = {f1}
  Verifiers = {}
  Stoppable = {m1}
  Removable = {n2}
  Fragile = {}
  MaxDamage = 0
PROPERTIES LockIsFreed ImplementsCustody
