CONSTANTS
  p1 = p1
  p2 = p2
  c1 = c1
  c2 = c2
  Path <- MCPath
  Content <- MCContent
  Original = Original
  Torn = Torn
  NoFile = NoFile
  None = None
SPECIFICATION FairSpec
INVARIANTS TypeOK OriginalKept InPlace NothingLeftBehind
PROPERTIES ManagedFileSpec UpdateEnds
