\* A flush cut short between its remove and its delete, then run again.
SPECIFICATION RerunSpec
CONSTANTS
  video = video  still = still  s1 = s1  s2 = s2  n1 = n1  n2 = n2  c1 = c1
  m1 = m1  m2 = m2  f1 = f1  v1 = v1
  None = None
  Assets = {video}
  Stills = {}
  Spools = {s1}
  NASes = {n1}
  Cards = {c1}
  CardOf <- MCCardOf
  Rank <- MCRankOf
  Movers = {m1}
  Flushers = {f1}
  Verifiers = {}
  Stoppable = {f1}
  Removable = {}
  Fragile = {}
  MaxDamage = 0
PROPERTIES RerunHeals
