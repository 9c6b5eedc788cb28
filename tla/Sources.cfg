\* Two cards, two stills with one name and a clip, three names to try, one more session with a camera.
SPECIFICATION FairSpec
CONSTANTS
  k1 = k1  k2 = k2  still1 = still1  still2 = still2  clip = clip
  img = img  mov = mov  d1 = d1  d2 = d2  None = None
  Cards = {k1, k2}
  Contents = {still1, still2, clip}
  Stills = {still1, still2}
  NameOf <- MCNameOf
  Stamp <- MCStamp
  Day <- MCDay
  Suffixes = 3
  MaxSessions = 1
INVARIANTS TypeOK ScanIsTrue CacheVouches
PROPERTIES PathsAreForever CardIsRegistered
