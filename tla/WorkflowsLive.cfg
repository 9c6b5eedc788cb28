\* A clip that the backlog finds while its import runs, and an older photo.
SPECIFICATION FairSpec
CONSTANTS
  one = one  two = two  clip = clip  photo = photo  old = old  raw = raw
  Imports = {two}
  Backlog = backlog
  Recall = recall
  Recalled = {old}
  OnCard <- MCOnCard
  Earlier = {old}
  Big = {clip}
  Captured <- MCCaptured
  Conflicted = {}
  Unserved = {}
  Page = 10
  NASSlots = 1
  MaxTries = 3
  MaxFaults = 1
PROPERTIES ArchivesSurvive ImportsEnd
