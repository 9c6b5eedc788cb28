\* The clip and a still are also on a card that is imported meanwhile, the still
\* under another name; two runs may die.
SPECIFICATION FairSpec
CONSTANTS
  clip = clip  still = still  twin = twin  other = other  mov = mov  img = img
  misc = misc  day = day  nested = nested  None = None
  Legacy = legacy
  LegacyDay = day
  Contents = {clip, still, twin}
  Stills = {still, twin}
  Dirs = {misc, day, nested}
  Library <- MCLibrary
  Beside <- MCBeside
  Depth <- MCDepth
  DirDay <- MCDirDay
  CaptureDay <- MCCaptureDay
  Parts <- MCParts
  CardName <- MCCardName
  OnCard = {clip, twin}
  CardBeside = {clip}
  Suffixes = 3
  MaxFaults = 2
  Mixed = FALSE
INVARIANTS TypeOK RowsAreTrue DoneIsCatalogued CompanionsFollow
PROPERTIES ContentsAreKept LibraryIsAdopted
