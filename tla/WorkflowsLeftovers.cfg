\* The catalog fails while an import reads the leftovers of earlier runs.
SPECIFICATION Spec
CONSTANTS
  one = one  two = two  clip = clip  photo = photo  old = old  raw = raw
  Imports = {two}
  Backlog = backlog
  Recall = recall
  Recalled = {}
  OnCard <- MCOnCard
  Earlier = {old}
  Big = {clip}
  Captured <- MCCaptured
  Conflicted = {}
  Unserved = {}
  Page = 10
  NASSlots = 1
  MaxTries = 1
  MaxFaults = 1
INVARIANTS EarlierHandedOff
