\* A video and a still, two movers and a flush; the card pulled at times; files on spool and NAS go bad.
SPECIFICATION Spec
CONSTANTS
  video = video  still = still  s1 = s1  s2 = s2  n1 = n1  n2 = n2  c1 = c1
  m1 = m1  m2 = m2  f1 = f1  v1 = v1
  None = None
  Assets = {video, still}
  Stills = {still}
  Spools = {s1}
  NASes = {n1}
  Cards = {c1}
  CardOf <- MCCardOf
  Rank <- MCRankOf
  Movers = {m1, m2}
  Flushers = {f1}
  Verifiers = {}
  Stoppable = {}
  Removable = {c1}
  Fragile = {s1, n1}
  MaxDamage = 1
SYMMETRY MoverSymmetry
INVARIANTS TypeOK NASLinksResolve
PROPERTIES NASAppendOnly FlushKeepsACopy
