\* Two assets on the card, one left over from before, two NAS, two archivers and one slot beside the spooler.
SPECIFICATION FairSpec
CONSTANTS
  a1 = a1  a2 = a2  a3 = a3  b1 = b1  n1 = n1  n2 = n2  r1 = r1  r2 = r2
  Card = {a1, a2}
  Earlier = {b1}
  NASes = {n1, n2}
  Serves <- MCServes
  Archivers = {r1, r2}
  Writers = 2
  WhileSpooling = 1
INVARIANTS TypeOK NoneForgotten SlotsAccounted
PROPERTIES ImportReturns
