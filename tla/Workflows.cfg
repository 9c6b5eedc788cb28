\* An import beside the backlog, with an older asset whose place is taken and one no
\* NAS has a tree for, and a spool-back; one attempt or lookup fails, or is lost with
\* the worker.
SPECIFICATION Spec
CONSTANTS
  one = one  two = two  clip = clip  photo = photo  old = old  raw = raw
  Imports = {one}
  Backlog = backlog
  Recall = recall
  Recalled = {photo}
  OnCard <- MCOnCard
  Earlier = {old, raw}
  Big = {clip, old}
  Captured <- MCCaptured
  Conflicted = {old}
  Unserved = {raw}
  Page = 10
  NASSlots = 1
  MaxTries = 3
  MaxFaults = 1
INVARIANTS TypeOK NothingForgotten CopiedOnce
