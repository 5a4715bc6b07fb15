CONSTANTS
  pack = pack
  vendor = vendor
  main = main
  lib = lib
  top = top
  data = data
  dot = dot
  Path = {pack, vendor, main, lib, top, data, dot}
  Above <- MCAbove
  Turn <- MCTurn
  Archives <- MCArchives
  Repos <- MCRepos
  RepoSize <- MCSize
  Hidden = {dot}
  SourceRoots = {}
  PrunedDirs = {vendor}
  VcsDirs = {}
  Foreign = {data}
  Binary = {lib}
  MaxRuns = 2
  MaxCrashes = 1
  Keep = FALSE
  MaxArchive = 2
  MaxUncompressed = 3
  MaxMember = 2
  MaxMembers = 3
  MaxRatio = 2
  MaxSourceFile = 1
  MaxSourceFiles = 2
SPECIFICATION FairSpec
INVARIANTS TypeOK BudgetKept SourcesAreWhole NothingLost WorkspaceGone
PROPERTY EventuallyOver
CHECK_DEADLOCK FALSE
