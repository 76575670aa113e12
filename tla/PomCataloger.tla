---------------------------- MODULE PomCataloger ----------------------------
(***************************************************************************)
(* The packages of the pom files of a scan and of what they depend on:     *)
(* syft/pkg/cataloger/java/parse_pom_xml.go, with its resolver.            *)
(*                                                                         *)
(* A package is [id, kind, licenses]; all of that is in its ID.  Where a   *)
(* dependency is found, in which of the poms that name it, is left out.    *)
(***************************************************************************)
EXTENDS MavenResolver

CONSTANTS Worlds,      \* each [poms, repository, properties, files, texts]:
                       \* files, the poms in the order their files are found;
                       \* texts, those with a license text beside them
          Transitive   \* ResolveTransitiveDependencies

VARIABLES phase,       \* "adding", "cataloging", "depending" or "returned"
          next,        \* the file it is at
          st           \* [known, resolved, packages, relationships]

pomVars == <<world, phase, next, st>>

ReadPom(n) == [name |-> n, by |-> <<"caller">>]

Start == [known |-> <<>>, resolved |-> <<>>, packages |-> {}, relationships |-> {}]

-----------------------------------------------------------------------------
(* One file, in each of the three loops of Catalog.                        *)

\* Slip: the pom is not known by its ID.
AddPomUnknown(n, s) == s

\* AddPom
AddPom(n, s) == IF ID(ReadPom(n)) \in DOMAIN s.known THEN s
                ELSE [s EXCEPT !.known = @ @@ (ID(ReadPom(n)) :> ReadPom(n))]

\* newPackageFromMavenPom; what is returned may have been given the licenses
\* of a text beside the pom (RelativeToPackage), which makes it another package.
WithMain(found, n, s) ==
  LET pkg == [id |-> ID(ReadPom(n)), kind |-> "main", licenses |-> found.value]
  IN  [s EXCEPT !.known = found.known,
                !.resolved = (pkg.id :> pkg) @@ @,
                !.packages = @ \cup {IF found.value = {} /\ n \in world.texts
                                       THEN [pkg EXCEPT !.licenses = {"text"}] ELSE pkg}]

MainPackage(n, s) ==
  WithMain(Licenses(ParentOf(s.known, ReadPom(n)).known, ReadPom(n), {}), n, s)

\* newPackageFromDependency
WithDependency(found, id, s) ==
  [s EXCEPT !.known = found.known,
            !.resolved = (id :> [id |-> id, kind |-> "dependency", licenses |-> found.value]) @@ @]

DependencyPackage(pom, id, s) ==
  WithDependency(IF pom.error THEN [value |-> {}, known |-> pom.known]
                 ELSE Licenses(pom.known, pom.pom, {}), id, s)

RECURSIVE Collect(_, _, _, _)

\* A package that is new, and what it depends on itself.
DependenciesOf(pom, id, s) ==
  IF ~Transitive \/ id.version = "" \/ pom.error THEN s
  ELSE Collect(pom.pom, s.resolved[id], [s EXCEPT !.known = pom.known],
               Pom(pom.pom).dependencies)

NamedThen(named, id) == DependenciesOf(FindPom(named.known, id), id, named)

NewDependency(id, s) == NamedThen(DependencyPackage(FindPom(s.known, id), id, s), id)

\* collectDependencies: a dependency, by the ID it was resolved to.
Found(s, id) == IF id \in DOMAIN s.resolved THEN s ELSE NewDependency(id, s)

DependOn(package, s, id) ==
  [s EXCEPT !.packages = @ \cup {s.resolved[id]},
            !.relationships = @ \cup {<<s.resolved[id], package>>}]

Identified(artifact, version) == [artifact |-> artifact, version |-> version.value]

Resolved(version, package, s, artifact) ==
  DependOn(package, Found([s EXCEPT !.known = version.known], Identified(artifact, version)),
           Identified(artifact, version))

Collect(p, package, s, dependencies) ==
  IF dependencies = <<>> THEN s
  ELSE Collect(p, package,
               Resolved(DependencyVersion(s.known, p, Head(dependencies)), package, s,
                        Head(dependencies).artifact),
               Tail(dependencies))

DependFrom(n, s) ==
  Collect(ReadPom(n), s.resolved[ID(ReadPom(n))], s, Pom(ReadPom(n)).dependencies)

-----------------------------------------------------------------------------
PomInit == /\ world \in Worlds
           /\ phase = "adding" /\ next = 1
           /\ st = Start

\* One turn of a loop, or on to the next loop.
Turn(here, there, Step(_, _)) ==
  /\ phase = here
  /\ IF next <= Len(world.files)
       THEN st' = Step(world.files[next], st) /\ next' = next + 1 /\ phase' = here
       ELSE st' = st /\ next' = 1 /\ phase' = there
  /\ UNCHANGED world

AddFile     == Turn("adding", "cataloging", AddPom)
CatalogFile == Turn("cataloging", "depending", MainPackage)
DependFile  == Turn("depending", "returned", DependFrom)

PomNext == AddFile \/ CatalogFile \/ DependFile

PomSpec == PomInit /\ [][PomNext]_pomVars

-----------------------------------------------------------------------------
(* Properties.                                                             *)

\* What Catalog returns when the files are found in another order.
Result(files) ==
  FoldLeft(LAMBDA s, n : DependFrom(n, s),
           FoldLeft(LAMBDA s, n : MainPackage(n, s),
                    FoldLeft(LAMBDA s, n : AddPom(n, s), Start, files), files), files)

\* Every parent that is found beside its child is the one the child asks for,
ParentsMatch ==
  \A n \in DOMAIN world.poms :
    LET parent == world.poms[n].parent
    IN  parent.path \in DOMAIN world.poms =>
          IDOf(world.poms[parent.path]) = [artifact |-> parent.artifact, version |-> parent.version]

\* and a parent beside a child is one of the files, or in the repository.
ParentsFound ==
  \A n \in DOMAIN world.poms :
    LET path == world.poms[n].parent.path
    IN  path \in DOMAIN world.poms =>
          path \in Range(world.files) \/ IDOf(world.poms[path]) \in DOMAIN world.repository

\* The packages and their dependencies do not depend on the order the files are
\* found in, although what the resolver knows does (resolver.go:323, :488, :686,
\* :702), as long as that holds of the parents.
FoundInAnyOrder ==
  phase = "returned" /\ ParentsMatch /\ ParentsFound =>
    \A other \in {Result(Reverse(world.files))} :
      st.packages = other.packages /\ st.relationships = other.relationships

\* What a package depends on by its pom is there, each the package of its file
\* if it has one; so it is for what was not a file, if that was asked for
\* (parse_pom_xml.go:163-208).
DependsOn(package, p) ==
  \A d \in Range(Pom(p).dependencies) :
    \E r \in st.relationships :
      /\ r[2] = package /\ r[1].id.artifact = d.artifact
      /\ r[1].kind = "main" <=> \E n \in Range(world.files) : ID(ReadPom(n)) = r[1].id

GraphIsWhole ==
  phase = "returned" =>
    /\ \A n \in Range(world.files) : DependsOn(st.resolved[ID(ReadPom(n))], ReadPom(n))
    /\ Transitive => \A g \in {x \in st.packages : x.kind = "dependency"} :
                       LET pom == FindPom(st.known, g.id)
                       IN  pom.error \/ DependsOn(g, pom.pom)

\* Both: the graph of the poms is the one their dependencies say, in any order.
PomsCataloged == FoundInAnyOrder /\ GraphIsWhole

\* "catalog all the main packages first so these can be referenced later when
\* building the dependency graph" (parse_pom_xml.go:59): what is referenced is
\* one of the packages.
ReferencesAreCataloged ==
  phase = "returned" =>
    \A r \in st.relationships : {r[1], r[2]} \subseteq st.packages
=============================================================================
