\* As in Files.cfg.
CONSTANTS
  l1 = l1
  l2 = l2
  l3 = l3
  l4 = l4
  l5 = l5
  FileSystems <- MCFileSystems
  Root <- MCRoot
  MaxLinks = 4
  Refused <- MCRefused
  Locations <- MCLocations
  InSquash = {l1, l2, l3, l5}
  Excluded = {l2}
  cataloger1 = cataloger1
  cataloger2 = cataloger2
  cleaner = cleaner
  digests = digests
  metadata = metadata
  labeler = labeler
  pkg1 = pkg1
  pkg2 = pkg2
  pkg3 = pkg3
  Reader <- MCReader
  Labeler <- MCLabeler
  Writer <- MCWriter
  Change <- MCChange
  Pkg = {pkg1, pkg2, pkg3}
  Nobody = nobody
  u1 = u1
  u2 = u2
  value = value
  failure = failure
  Proc = {u1, u2}
  Answer = {value, failure}
  Chunks <- MCChunks
  MaxCalls = 3
  User = {u1, u2}
  Inputs <- MCInputs
  Demands <- MCDemands
  MaxAsks = 2
  Outputs <- MCOutputs
  Forbidden = {"root"}
  Unsupported = {"odd"}
  Chatter <- MCChatter
  Capacity = 2
  Shown = 1
  Images <- MCImages
  Queries <- MCQueries
  Exclusions <- MCExclusions
  MaxHops = 4
  Drives <- MCDrives
  Settings <- MCSettings
  Requests <- MCAsked
  GlobDirs <- MCGlobDirs
  MountTables <- MCMounts
  Rejected <- MCRejected
  Listed <- MCListed
  FollowLimit = 4
SPECIFICATION MCSpec
PROPERTY NobodyLeaks
CHECK_DEADLOCK FALSE
