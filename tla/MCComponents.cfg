SPECIFICATION Spec
CONSTANTS
  Guests = {t1, t2}
  None = None
  Garbage = Garbage
  NoFile = NoFile
  Null = Null
  NoDir = NoDir
  Capacity = 2
  Generations = 3
  MaxFiles = 5
  Runs = {1, 2}
  Installed <- Installations
  MaxFaults = 2
  MaxCrashes = 1
  MaxStarts = 4
  Owners = {x, y, z}
  FirstOwner = x
  Sites = {1, 2}
  SiteCapacity = 1
  HeapEnd = 13
  Exact = 2
  BinCount = 5
  Requests <- Asked
  MaxAllocations = 5
  Reuses = {TRUE, FALSE}
  Poisons = {TRUE, FALSE}
  StringThreads = {1, 2}
  OwnerOf <- ObjectOwners
  Reps = {1, 2, 3}
  MaxCount = 3
  Addresses = {1, 2, 3}
  CacheSize = 2
  HostMutexes = {1, 2, 3}
  DirCapacity = 2
  MaxDirs = 5
  Dirents = 2
  CgThreads <- OneGuest
  Programs = {1, 2}
  Context = 3
  Buffers = {4, 5}
  Listings <- Texts
  GuestBlocks = {1, 2, 3, 4, 5}
  Controls = {1, 2, 3}
  OnceCapacity = 2
  MaxNested = 2
  GuardThreads <- OneGuest
  Pages = {1, 2, 3, 4, 5, 6, 7, 8, 9, 10}
  Pinned = {1, 2, 3, 4, 5, 6, 7, 8, 9}
  Layouts <- Pairs
  ClassOf <- Kinds
  Slide = 10
  Symbol = 3
  Natives = {"hot"}
  ImportCapacity = 4
  ThunkRoom = 4
  DynamicRoom = 3
  CellRoom = 4
  TextPages = {1, 2, 3}
  LoaderCells <- LoaderWords
  BundleCells <- BundleWords
  MaxAttempts = 2
  Profiles = {1}
  Contents <- Saves
  MaxCalls = 4
  Sizes = {1, 2, 3}
  Tables <- ImportTables
  Depth = 2
SYMMETRY Symmetry
INVARIANTS
  TypeOK
  FilesSound
  GameNeverLost
  RunsEndWell
  HeapSound
  ContentKept
  StringsSound
  TablesSound
  ImagesSound
  UnwrapSound
  CloudSound
  RenderSound
  DispatchSound
PROPERTIES
  BackupKept
CHECK_DEADLOCK FALSE
