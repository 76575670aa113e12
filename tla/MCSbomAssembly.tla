--------------------------- MODULE MCSbomAssembly --------------------------
(* A small image: an OS package that owns a JVM release file and a binary, *)
(* the JVM it installed, a classified binary, an ELF package with a note,  *)
(* and three files, of which the first is no regular one (a pipe, say).    *)
EXTENDS SbomAssembly

CONSTANTS deb, jvm, bin, elf,        \* packages
          release, java, lib,        \* files
          osCataloger, binaryCataloger

MCFinds == osCataloger :> {deb} @@ binaryCataloger :> {jvm, bin, elf}
FewFinds == osCataloger :> {} @@ binaryCataloger :> {jvm, elf}
MCDepends == {<<elf, jvm>>}
MCKind == deb :> "os" @@ jvm :> "jvm" @@ bin :> "binary" @@ elf :> "elf"
MCAt == deb :> {} @@ jvm :> {release, lib} @@ bin :> {java} @@ elf :> {lib}
MCOwned == deb :> {release} @@ jvm :> {java, release} @@ bin :> {} @@ elf :> {}
MCImports == java :> {} @@ lib :> {java}

Everything == [f \in ConfigFields |-> TRUE]
AllFiles == [f \in ConfigFields |-> f \notin {"selectOwned", "deepSquashed", "excludeBinaries"}]
=============================================================================
