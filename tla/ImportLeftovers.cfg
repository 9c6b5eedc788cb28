\* The catalog fails to list the leftovers of earlier runs.
SPECIFICATION Spec
CONSTANTS
  a1 = a1  a2 = a2  a3 = a3  b1 = b1  n1 = n1  n2 = n2  r1 = r1  r2 = r2
  Card = {a1}
  Earlier = {b1}
  NASes = {n1, n2}
  Serves <- MCServes
  Archivers = {r1}
  Writers = 1
  WhileSpooling = 1
INVARIANTS NobodyLeftBehind
