\* Pages of one: the archive an import started for its own clip may end between the
\* two pages of what needs one.
SPECIFICATION Spec
CONSTANTS
  one = one  two = two  clip = clip  photo = photo  old = old  raw = raw
  Imports = {two}
  Backlog = backlog
  Recall = recall
  Recalled = {}
  OnCard <- MCOnCard
  Earlier = {old}
  Big = {clip}
  Captured <- MCCardFirst
  Conflicted = {}
  Unserved = {}
  Page = 1
  NASSlots = 1
  MaxTries = 1
  MaxFaults = 0
INVARIANTS NothingForgotten
