\* All files are catalogued, beside the packages; two tasks at a time.  What has
\* no executable (the OS package) or shares one (the classified binary) is left out.
SPECIFICATION Spec
CONSTANTS
  deb = deb
  jvm = jvm
  bin = bin
  elf = elf
  release = release
  java = java
  lib = lib
  osCataloger = osCataloger
  binaryCataloger = binaryCataloger
  Pkg = {deb, jvm, bin, elf}
  Coord = {release, java, lib}
  PkgTask = {osCataloger, binaryCataloger}
  Finds <- FewFinds
  Depends = {}
  Kind <- MCKind
  At <- MCAt
  Owned <- MCOwned
  Ownable = {release, java, lib}
  Regular = {java, lib}
  Executable = {java, lib}
  Library = {java}
  Imports <- MCImports
  Suspect = {java}
  MaxErrors = 1
  Hidden = {jvm}
  Config <- AllFiles
  Slots = 2
INVARIANTS
  UnknownsReconciled
CHECK_DEADLOCK FALSE
