----------------------------- MODULE DotnetDeps ----------------------------
(***************************************************************************)
(* .NET applications: deps.json documents, the executables (PEs) below     *)
(* them, and what of both is reported.  syft/pkg/cataloger/dotnet.         *)
(*                                                                         *)
(* A document is [dir, root, readable, libman, packages]: root is the name *)
(* its file has, a package [name, version, project, claims, needs], with   *)
(* paths relative to dir and the names and versions of what it needs.  The *)
(* targets of a document are merged; metadata, CPEs and the text of version*)
(* resources are left out.  A path is a sequence of names.                 *)
(***************************************************************************)
EXTENDS Naturals, SequencesExt

CONSTANTS Apps,       \* each [cataloger, config, docs, exes]
          Bundlers,   \* names of packages that tell of a bundler
          Runtimes    \* names of packages that are a runtime

VARIABLES app,        \* what is scanned
          appPhase,   \* "find", "partition", "attach", "catalog", "end"
          appDocs,    \* documents with their logical packages
          appLeft,    \* PEs or documents still to be looked at
          alone,      \* PEs that no document has: remainingPeFiles
          attached,   \* [doc, package, exe]
          roots,      \* root packages of the documents that are cataloged
          appFound    \* [packages, edges, errors]

appVars == <<app, appPhase, appDocs, appLeft, alone, attached, roots, appFound>>

\* The ID of a package that has none.
NoID == <<>>

NoRules == [mustHave |-> FALSE, mustClaim |-> FALSE, propagate |-> FALSE, relax |-> FALSE,
            excludeProjects |-> FALSE]

\* The cataloger of deps.json files alone has no options.
Rules == IF app.cataloger = "deps" THEN NoRules ELSE app.config

NameVersion(p) == <<p.name, p.version>>

\* The package of a document is reported at the document.
DepsID(d, p) == <<d.at, p.name, p.version>>
Executable(e) == e.dir \o <<e.file>>

-----------------------------------------------------------------------------
(* Documents.                                                              *)

\* traverseDependencies from what p needs.
RECURSIVE Traverse(_, _, _)
Traverse(packages, needs, visited) ==
  LET next == {q \in packages : NameVersion(q) \in needs \ visited}
  IN  IF next = {} THEN {}
      ELSE next \cup Traverse(packages, UNION {q.needs : q \in next}, visited \cup needs)

\* getLogicalDepsJSON.  No package has an executable yet, and so no child has.
Logical(packages) ==
  {[name |-> p.name, version |-> p.version, project |-> p.project, claims |-> p.claims, needs |-> p.needs,
    childClaims |-> \E q \in Traverse(packages, p.needs, {}) : q.claims # {},
    childHas |-> FALSE] : p \in packages}

LibmanRead(d) == IF d.libman.is = "read" THEN d.libman.libraries ELSE {}

\* findDepsJSON, readDepsJSON, findLibmanJSON
ReadDocument(d) ==
  [at |-> d.dir \o <<d.root, "deps.json">>, dir |-> d.dir, root |-> d.root,
   packages |-> Logical(d.packages), libraries |-> LibmanRead(d)]

\* extractEmbeddedDeps; the document is where its PE is.
EmbeddedDocument(e) ==
  [at |-> Executable(e), dir |-> e.dir, root |-> e.root, packages |-> Logical(e.embedded.packages),
   libraries |-> {}]

HasDocument(e) == e.embedded.is = "read"

\* A bad libman.json is an error; its document is read all the same.
FindDepsJSON ==
  /\ appPhase = "find"
  /\ app.cataloger # "binary"
  /\ appDocs' = {ReadDocument(d) : d \in {d \in app.docs : d.readable}}
  /\ appFound' = [appFound EXCEPT !.errors = Cardinality({d \in app.docs : ~d.readable})
                                             + Cardinality({d \in app.docs : d.readable /\ d.libman.is = "bad"})]
  /\ appPhase' = IF app.cataloger = "deps" THEN "catalog" ELSE "partition"
  /\ appLeft' = IF app.cataloger = "deps" THEN appDocs' ELSE {}
  /\ UNCHANGED <<app, alone, attached, roots>>

\* PEs without a common language runtime are none of .NET.
ManagedExes == {e \in app.exes : e.is = "managed"}
UnreadableExes == {e \in app.exes : e.is = "unreadable"}

\* findPEFiles, and the PEs that have a document in them.
PartitionPEs ==
  /\ appPhase = "partition"
  /\ appDocs' = appDocs \cup {EmbeddedDocument(e) : e \in {e \in ManagedExes : HasDocument(e)}}
  /\ appLeft' = ManagedExes
  /\ appFound' = [appFound EXCEPT !.errors = @ + Cardinality(UnreadableExes)]
  /\ appPhase' = "attach"
  /\ UNCHANGED <<app, alone, attached, roots>>

\* The path of a PE from the directory of a document above it.
Below(d, e) == IsPrefix(d.dir, e.dir)
RelativePath(d, e) == SubSeq(Executable(e), Len(d.dir) + 1, Len(Executable(e)))

\* attachAssociatedExecutables, for every document above the PE.
Claimants(e) ==
  UNION {{<<d, p>> : p \in {p \in d.packages : RelativePath(d, e) \in p.claims}} :
           d \in {d \in appDocs : Below(d, e)}}

Attach(e) ==
  /\ appPhase = "attach" /\ e \in appLeft
  /\ LET new == {[doc |-> c[1], package |-> c[2], exe |-> e] : c \in Claimants(e)}
     IN  /\ attached' = attached \cup new
         /\ alone' = IF new = {} /\ ~HasDocument(e) THEN alone \cup {e} ELSE alone
  /\ appLeft' = appLeft \ {e}
  /\ UNCHANGED <<app, appPhase, appDocs, roots, appFound>>

\* If every package must have its DLL, documents without any are left out.
Pair ==
  /\ appPhase = "attach" /\ appLeft = {}
  /\ appLeft' = {d \in appDocs : (\E a \in attached : a.doc = d) \/ ~Rules.mustHave}
  /\ appPhase' = "catalog"
  /\ UNCHANGED <<app, appDocs, alone, attached, roots, appFound>>

-----------------------------------------------------------------------------
(* Packages of a document.                                                 *)

\* RootPackage: the first that the walk over a map finds.
RootPackages(d) == {p \in d.packages : p.project /\ p.name = d.root}

ClaimsDLLs(p) == p.claims # {} \/ (Rules.propagate /\ p.childClaims)
FoundDLLs(d, p) == \/ \E a \in attached : a.doc = d /\ a.package = p
                   \/ Rules.propagate /\ p.childHas

Bundled(d) == \E p \in d.packages : p.name \in Bundlers

\* The reasons packagesFromLogicalDepsJSON has to leave a package out.
Skips(d, p) ==
  \/ Rules.excludeProjects /\ p.project
  \/ Rules.mustHave /\ ~FoundDLLs(d, p)
  \/ Rules.mustClaim /\ ~ClaimsDLLs(p) /\ ~(Rules.relax /\ Bundled(d))

\* findNearestDependencyPackages: those kept that needs leads to through those
\* that are skipped.
RECURSIVE Nearest(_, _, _, _)
Nearest(needs, kept, skipped, processed) ==
  LET next == {s \in skipped : NameVersion(s) \in needs /\ s \notin processed}
  IN  {k \in kept : NameVersion(k) \in needs}
      \cup IF next = {} THEN {}
           ELSE Nearest(UNION {s.needs : s \in next}, kept, skipped, processed \cup next)

PackageEdges(d, kept) ==
  UNION {{<<DepsID(d, k), DepsID(d, p)>> : k \in Nearest(p.needs, kept, d.packages \ kept, {})} :
           p \in kept}

LibmanEdges(d, root) == {<<l, DepsID(d, r)>> : l \in d.libraries, r \in root}

\* packagesFromLogicalDepsJSON: a root is never left out.
CatalogDocument(d) ==
  /\ appPhase = "catalog" /\ d \in appLeft
  /\ \E root \in IF RootPackages(d) = {} THEN {{}} ELSE {{r} : r \in RootPackages(d)} :
       LET kept == root \cup {p \in d.packages : ~Skips(d, p)}
       IN  /\ appFound' = [appFound EXCEPT
                             !.packages = @ \cup {DepsID(d, p) : p \in kept} \cup d.libraries,
                             !.edges = @ \cup PackageEdges(d, kept) \cup LibmanEdges(d, root)]
           /\ roots' = roots \cup {DepsID(d, r) : r \in root}
  /\ appLeft' = appLeft \ {d}
  /\ UNCHANGED <<app, appPhase, appDocs, alone, attached>>

-----------------------------------------------------------------------------
(* Runtimes and the rest.                                                  *)

IsRuntimePackage(id) == Len(id) = 3 /\ id[2] \in Runtimes
FoundRuntimes == {id \in appFound.packages : IsRuntimePackage(id)}

\* Runtimes of which there are only DLLs.  Their packages get no ID here.
MissingRuntimes ==
  {e.runtime : e \in {e \in alone : e.runtime # ""}} \ {id[3] : id \in FoundRuntimes}

RuntimePackage(version) == <<"Microsoft.NETCore.App", version>>

\* Catalog, after its documents.  In relationships, what has no ID is one.
EndDotnet ==
  /\ appPhase = "catalog" /\ appLeft = {}
  /\ appFound' =
       [appFound EXCEPT
          !.packages = @ \cup {<<Executable(e)>> : e \in {e \in alone : e.runtime = ""}}
                         \cup {RuntimePackage(v) : v \in MissingRuntimes},
          !.edges = IF app.cataloger = "deps" THEN @
                    ELSE @ \cup (FoundRuntimes \X roots)
                           \cup ((IF MissingRuntimes = {} THEN {} ELSE {NoID}) \X roots)]
  /\ appPhase' = "end"
  /\ UNCHANGED <<app, appDocs, appLeft, alone, attached, roots>>

\* The cataloger of PEs alone.
CatalogBinaries ==
  /\ appPhase = "find" /\ app.cataloger = "binary"
  /\ appFound' = [packages |-> {<<Executable(e)>> : e \in ManagedExes}, edges |-> {},
                  errors |-> Cardinality(UnreadableExes)]
  /\ appPhase' = "end"
  /\ UNCHANGED <<app, appDocs, appLeft, alone, attached, roots>>

AppInit == /\ app \in Apps
           /\ appPhase = "find"
           /\ appDocs = {} /\ appLeft = {} /\ alone = {} /\ attached = {} /\ roots = {}
           /\ appFound = [packages |-> {}, edges |-> {}, errors |-> 0]

AppNext == \/ FindDepsJSON \/ PartitionPEs \/ Pair \/ EndDotnet \/ CatalogBinaries
           \/ \E x \in appLeft : Attach(x) \/ CatalogDocument(x)

AppSpec == AppInit /\ [][AppNext]_appVars

-----------------------------------------------------------------------------
(* What documents and executables say.                                     *)

Cataloged(d) == d \in appDocs /\ (~Rules.mustHave \/ \E a \in attached : a.doc = d)
KeptOf(d) == {p \in d.packages : DepsID(d, p) \in appFound.packages}

\* From p to q by needs, with nothing but packages of Via between.
WalksTo(packages, p, q, Via) ==
  \E k \in 0..Cardinality(Via), s \in [1..Cardinality(Via) -> Via] :
    LET walk == <<p>> \o SubSeq(s, 1, k) \o <<q>>
    IN  \A n \in 1..(k + 1) : NameVersion(walk[n + 1]) \in walk[n].needs

LeadsToClaim(d, p) == \E q \in d.packages : q.claims # {} /\ WalksTo(d.packages, p, q, d.packages)

\* A package is reported if its document is its own, or if it may be and has or
\* claims what the options ask of it, or of what it leads to.
KeptAsAsked(d) ==
  ~Rules.mustHave =>
    \A p \in d.packages \ RootPackages(d) :
      p \in KeptOf(d) <=>
        /\ ~(Rules.excludeProjects /\ p.project)
        /\ \/ ~Rules.mustClaim
           \/ Rules.relax /\ Bundled(d)
           \/ p.claims # {}
           \/ Rules.propagate /\ LeadsToClaim(d, p)

\* Packages are linked as they need each other, or need what was left out and
\* needs the other.
LinkedThrough(d) ==
  \A p, q \in KeptOf(d) :
    <<DepsID(d, q), DepsID(d, p)>> \in appFound.edges <=>
      \/ WalksTo(d.packages, p, q, d.packages \ KeptOf(d))
      \/ DepsID(d, q) \in FoundRuntimes /\ DepsID(d, p) \in roots /\ app.cataloger # "deps"

\* An executable is a package of its own just if nothing else speaks for it.
Accounted(e) ==
  <<Executable(e)>> \in appFound.packages <=>
    \/ app.cataloger = "binary"
    \/ /\ e.runtime = ""
       /\ ~HasDocument(e)
       /\ ~\E d \in appDocs, p \in UNION {x.packages : x \in appDocs} :
             p \in d.packages /\ Below(d, e) /\ RelativePath(d, e) \in p.claims

\* Whatever documents and executables there are, and with any options: the
\* packages are those the options ask for, linked across those they leave out;
\* no executable is reported twice (deps_binary_cataloger.go:150-205, 270-415).
DotnetRead ==
  appPhase = "end" =>
    /\ app.cataloger # "binary" =>
         \A d \in appDocs : IF Cataloged(d) THEN KeptAsAsked(d) /\ LinkedThrough(d) ELSE KeptOf(d) = {}
    /\ app.cataloger # "deps" => \A e \in ManagedExes : Accounted(e)

\* "This applies to both the claims configuration and evidence-on-disk
\* configurations" (config.go:13): where packages must have their DLL, one that
\* needs a package with a DLL is reported.
EvidencePropagates ==
  appPhase = "end" /\ Rules.mustHave /\ Rules.propagate =>
    \A a \in attached : \A p \in a.doc.packages :
      /\ WalksTo(a.doc.packages, p, a.package, a.doc.packages)
      /\ ~(Rules.excludeProjects /\ p.project)
      => p \in KeptOf(a.doc)

\* "create a relationship from every runtime package to every root package"
\* (deps_binary_cataloger.go:118).  Runtimes that are made here have no ID.
EveryRuntimeLinked ==
  appPhase = "end" /\ app.cataloger = "deps-binary" =>
    \A v \in MissingRuntimes, r \in roots : <<RuntimePackage(v), r>> \in appFound.edges
=============================================================================
