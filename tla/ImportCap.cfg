\* No archive copy may run beside a spool copy.
SPECIFICATION Spec
CONSTANTS
  a1 = a1  a2 = a2  a3 = a3  b1 = b1  n1 = n1  n2 = n2  r1 = r1  r2 = r2
  Card = {a1, a2}
  Earlier = {}
  NASes = {n1}
  Serves <- MCServes
  Archivers = {r1, r2}
  Writers = 2
  WhileSpooling = 0
INVARIANTS CapWhileSpooling
