\* A card that is formatted and filled again.
SPECIFICATION Spec
CONSTANTS
  k1 = k1  k2 = k2  still1 = still1  still2 = still2  clip = clip
  img = img  mov = mov  d1 = d1  d2 = d2  None = None
  Cards = {k1, k2}
  Contents = {still1, still2, clip}
  Stills = {still1, still2}
  NameOf <- MCNameOf
  Stamp <- MCStamp
  Day <- MCDay
  Suffixes = 3
  MaxSessions = 1
INVARIANTS LinkShowsTheAsset
