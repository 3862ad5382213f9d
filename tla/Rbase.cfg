SPECIFICATION Spec
CONSTANTS
  PtrSize = 2  PageSize = 32  RootPages = 1  AllocSizes = {0, 3, 7, 16}  SizeWrap = 65536
  MaxLive = 2  MaxBlocks = 2
  U32 = 128  StrHeader = 4  Word = 4  StrLarge = 32  Line = 8  Digits = 5  StrSizes = {0, 1, 5, 9}
  BufSize = 8  Lengths = {1, 5, 12}  MaxBytes = 20
  Threads = {"t1", "t2"}  Align = 2  MinBlock = 2  MaxEntries = 2  MapPage = 8  Large = 8
  MapSizes = {3, 4, 8}  MaxPages = 2  MaxInUse = 2
INVARIANTS OwnMemory InMemory TakenApart NothingLost HashesMessage PrintsWithinLimit
CHECK_DEADLOCK FALSE
