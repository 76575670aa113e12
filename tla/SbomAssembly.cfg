\* Everything switched on; two tasks at a time.
SPECIFICATION Spec
CONSTANTS
  deb = deb
  jvm = jvm
  bin = bin
  elf = elf
  release = release
  java = java
  lib = lib
  osCataloger = osCataloger
  binaryCataloger = binaryCataloger
  Pkg = {deb, jvm, bin, elf}
  Coord = {release, java, lib}
  PkgTask = {osCataloger, binaryCataloger}
  Finds <- MCFinds
  Depends <- MCDepends
  Kind <- MCKind
  At <- MCAt
  Owned <- MCOwned
  Ownable = {release, java, lib}
  Regular = {java, lib}
  Executable = {java, lib}
  Library = {java}
  Imports <- MCImports
  Suspect = {java}
  MaxErrors = 1
  Hidden = {jvm}
  Config <- Everything
  Slots = 2
INVARIANTS
  SourceAndEvidence
  OwnedFilesDigested
  NothingReplaceable
  UnknownsReconciled
PROPERTIES
  
  AuthoritySurvives
  Scheduled
CHECK_DEADLOCK FALSE
