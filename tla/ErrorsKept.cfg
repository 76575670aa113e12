\* As in Catalogers.cfg.
CONSTANTS
  f1 = f1
  f2 = f2
  f3 = f3
  pa = pa
  pb = pb
  pc = pc
  Groups <- MCGroups
  Persistent = {"mine"}
  Requests <- MCRequests
  SourceTag <- MCSourceTag
  Task <- MCTask
  FilesOf <- MCFilesOf
  Yields <- MCYields
  Provides <- MCProvides
  Requires <- MCRequires
  Parallelism = 2
  MaxNesting = 4
  MaxDepth = 0
  Worlds <- MCWorlds
  Transitive = TRUE
  Archives <- MCArchives
  Alike <- MCAlike
  Within <- MCWithin
  Scanned <- MCScanned
  MaxConversions = 3
  JsLocks <- MCJsLocks
  PyFiles <- MCPyFiles
  LockFiles <- MCLockFiles
  Databases <- MCDatabases
  Apps <- MCApps
  Bundlers = {"fody"}
  Runtimes = {"runtimepack"}
  GoFiles <- MCGoFiles
  LocalPaths <- MCLocalPaths
  DotPaths <- MCDotPaths
  OddVersions = {"devel"}
  Binaries <- MCBinaries
  Word = 16
  MaxEntries = 3
SPECIFICATION MCSpec
INVARIANT ErrorsKept
CHECK_DEADLOCK FALSE
