---------------------------- MODULE SbomAssembly ---------------------------
(***************************************************************************)
(* How an SBOM comes together: the tasks that makeTaskGroups plans         *)
(* (syft/create_sbom_config.go) run under the scheduler of TaskGroups and  *)
(* change the SBOM through its builder, one lock at a time.                *)
(*                                                                         *)
(*   package tasks       AddPackages, then AddRelationships                *)
(*   file tasks          select coordinates, then store the result         *)
(*   scope task          remove packages the squashed image hides          *)
(*   relationships task  prune packages and derive relationships           *)
(*   unknowns labeler    reconcile unknowns and packages                   *)
(*                                                                         *)
(* What is scanned is given by constants: the packages catalogers may      *)
(* report, where they are and what they own, the executables and what they *)
(* import.  A package's locations are all primary evidence, owned files    *)
(* resolve to themselves (no symlinks), a library name resolves to one     *)
(* file, and packages of the kinds "jvm", "binary" and "elf" are of type   *)
(* binary and have metadata.                                               *)
(***************************************************************************)
EXTENDS SbomBuilder, FiniteSets, SequencesExt

CONSTANTS PkgTask,      \* package catalogers
          Finds,        \* packages a cataloger may report
          Depends,      \* pairs <<p, q>>: p is a dependency of q
          Kind,         \* "os", "bitnami", "jvm", "binary", "elf" or "other"
          At,           \* coordinates a package was found at
          Owned,        \* files a package claims (FileOwner), {} for none
          Ownable,      \* files outside of globsForbiddenFromBeingOwned
          Regular,      \* files with contents: no directory, link or device
          Executable,   \* files the executable cataloger reports
          Library,      \* executables that export symbols
          Imports,      \* libraries an executable imports
          Suspect,      \* coordinates errors may be about
          MaxErrors,    \* bound: coordinate errors a task returns
          Hidden,       \* packages of which the squashed image shows nothing
          Config,       \* the settings of CreateSBOMConfig, see below
          Slots         \* parallelism

ConfigFields == {"selectOwned",       \* Files.Selection is owned-by-package
                 "fileOwnership",     \* PackageFileOwnership
                 "deepSquashed",      \* Search.Scope is deep-squashed
                 "overlap",           \* PackageFileOwnershipOverlap
                 "excludeBinaries",   \* ExcludeBinaryPackagesWithFileOwnershipOverlap
                 "removeKnown",       \* Unknowns.RemoveWhenPackagesDefined
                 "labelExecutables"}  \* Unknowns.IncludeExecutablesWithoutPackages

\* What validate() lets through.
ASSUME ConfigAssumption ==
  /\ Config \in [ConfigFields -> BOOLEAN]
  /\ Config.excludeBinaries => Config.overlap

\* Package tasks go by the names of their catalogers.
ASSUME TaskNameAssumption ==
  PkgTask \cap {"environment-cataloger", "file-digest-cataloger",
                "file-executable-cataloger", "deep-squashed-cleaner",
                "relationships-cataloger", "unknowns-labeler",
                "os-feature-detection"} = {}

ASSUME ScanAssumption ==
  /\ IsFiniteSet(PkgTask)
  /\ Slots \in Nat \ {0} /\ MaxErrors \in Nat
  /\ Finds \in [PkgTask -> SUBSET Pkg]
  /\ Depends \subseteq Pkg \X Pkg
  /\ Kind \in [Pkg -> {"os", "bitnami", "jvm", "binary", "elf", "other"}]
  /\ At \in [Pkg -> SUBSET Coord]
  /\ Owned \in [Pkg -> SUBSET Coord]
  /\ \A p \in Pkg : Kind[p] \in {"binary", "elf"} => Owned[p] = {}   \* no FileOwner
  /\ Executable \subseteq Coord /\ Library \subseteq Executable
  /\ Imports \in [Executable -> SUBSET Coord]
  /\ Hidden \subseteq Pkg

-----------------------------------------------------------------------------
(* makeTaskGroups                                                          *)

FileTask == {"file-digest-cataloger", "file-executable-cataloger"}

\* Slip: files come before packages.
PlanFilesFirst ==
  << {"environment-cataloger"}, FileTask, PkgTask, {"deep-squashed-cleaner"},
     {"relationships-cataloger"}, {"unknowns-labeler"}, {"os-feature-detection"} >>

\* Slip: relationships are finalized beside the packages.
PlanRelationshipsBeside ==
  << {"environment-cataloger"}, PkgTask \cup {"relationships-cataloger"}, FileTask,
     {"deep-squashed-cleaner"}, {"unknowns-labeler"}, {"os-feature-detection"} >>

Plan ==
  << {"environment-cataloger"} >>
    \o (IF Config.selectOwned THEN <<PkgTask, FileTask>>
                              ELSE << PkgTask \cup FileTask >>)
    \o (IF Config.deepSquashed THEN << {"deep-squashed-cleaner"} >> ELSE <<>>)
    \o << {"relationships-cataloger"}, {"unknowns-labeler"},
          {"os-feature-detection"} >>

Planned == UNION Range(Plan)

VARIABLES group, status, outcome, unknowns, progress, tempDir, result, returned,
          sbom,   \* the SBOM the builder guards
          step,   \* where a running task is
          local   \* the value the task carries to its next step

\* What errors about a file say.
Reasons == {"cataloging failed", "no package identified in executable file"}

Sched == INSTANCE TaskGroups
           WITH Task <- Planned, NGroups <- Len(Plan),
                GroupOf <- [t \in Planned |-> CHOOSE g \in DOMAIN Plan : t \in Plan[g]],
                Reason <- Reasons,
                Labelers <- {"unknowns-labeler"},
                CallerOwnsTempDir <- FALSE

schedVars == <<group, status, outcome, unknowns, progress, tempDir, result, returned>>
content   == <<sbom, step, local>>
vars      == <<schedVars, content>>

Init == /\ Sched!Init
        /\ sbom = EmptySbom
        /\ step = [t \in Planned |-> "begin"]
        /\ local = [t \in Planned |-> {}]

\* A running task goes from one step to the next, carrying a value.
Goto(t, from, to, value) ==
  /\ status[t] = "running"
  /\ step[t] = from
  /\ step' = [step EXCEPT ![t] = to]
  /\ local' = [local EXCEPT ![t] = value]
  /\ UNCHANGED schedVars

-----------------------------------------------------------------------------
(* Package tasks (internal/task/package_task_factory.go).                  *)

\* c.Catalog and finalizePkgCatalogerResults, no lock held.  The task carries
\* the packages whose relationships it hands over in the end.
Catalog(t) ==
  /\ t \in PkgTask
  /\ \E P \in SUBSET Finds[t] : Goto(t, "begin", "catalogued", P)
  /\ UNCHANGED sbom

\* applyCompliance keeps some of them.  It drops the others, but Replace has
\* written their relationships back: how that happens is the subject of
\* Compliance (package_task_factory.go:124-138).
AddFound(t) ==
  /\ t \in PkgTask /\ step[t] = "catalogued"
  /\ \E K \in SUBSET local[t] :
       /\ Goto(t, "catalogued", "added", [kept |-> K, related |-> local[t]])
       /\ sbom' = AddPackages(sbom, K)

\* The dependencies D, and the files that the packages P own.
Found(P, D) ==
  {DependencyOf(d[1], d[2]) : d \in D}
    \cup (IF Config.fileOwnership
            THEN UNION {{Contained(p, f) : f \in Owned[p]} : p \in P}
            ELSE {})

\* Some dependencies are not reported, or lost in Replace.
RelateFound(t) ==
  /\ t \in PkgTask
  /\ Goto(t, "added", "over", {})
  /\ LET P == local[t].related
     IN  \E D \in SUBSET {d \in Depends : {d[1], d[2]} \subseteq P} :
           sbom' = AddRelationships(sbom, Found(P, D))

-----------------------------------------------------------------------------
(* File tasks (internal/task/file_tasks.go).                               *)

\* coordinatesForSelection, under the read lock.
SelectedCoordinates ==
  IF Config.selectOwned
    THEN {r.to : r \in {x \in DOMAIN sbom.rels : /\ x.type = "contains"
                                                /\ x.from \in Pkg
                                                /\ x.to \in Coord}}
           \cup UNION {At[p] : p \in sbom.packages}
    ELSE Coord

\* Slip: with nothing selected the task waits for files.
SelectFilesOrWait ==
  LET t == "file-digest-cataloger"
  IN  /\ Goto(t, "begin", IF SelectedCoordinates = {} THEN "waiting" ELSE "selected",
              SelectedCoordinates)
      /\ UNCHANGED sbom

\* With nothing selected the task is over.
SelectFiles ==
  LET t == "file-digest-cataloger"
  IN  /\ Goto(t, "begin", IF SelectedCoordinates = {} THEN "over" ELSE "selected",
              SelectedCoordinates)
      /\ UNCHANGED sbom

\* The digests of the selected files are stored at once.  What is no regular
\* file has none and is no error; what cannot be read has none and is reported
\* when the task returns.
StoreDigests ==
  LET t == "file-digest-cataloger"
  IN  \E U \in SUBSET (Suspect \cap local[t]) :
        /\ Cardinality(U) <= MaxErrors
        /\ Goto(t, "selected", "over", U)
        /\ sbom' = [sbom EXCEPT !.digests = (local[t] \cap Regular) \ U]

StoreExecutables ==
  /\ Goto("file-executable-cataloger", "begin", "over", {})
  /\ sbom' = [sbom EXCEPT !.executables = Executable]

-----------------------------------------------------------------------------
(* The scope task (internal/task/scope_tasks.go).  Which of the hidden     *)
(* packages go is the subject of DeepSquash; here it may be any of them.   *)

ReadHidden ==
  /\ \E H \in SUBSET (Hidden \cap sbom.packages) :
       Goto("deep-squashed-cleaner", "begin", "clean", H)
  /\ UNCHANGED sbom

DeleteHidden ==
  LET t == "deep-squashed-cleaner"
  IN  /\ Goto(t, "clean", "over", {})
      /\ sbom' = DeletePackages(sbom, local[t])

-----------------------------------------------------------------------------
(* The relationships task (internal/task/relationship_tasks.go): reads and *)
(* writes alternate, each under the lock of the builder.                   *)

IsBinary(p) == Kind[p] \in {"jvm", "binary", "elf"}

Relationships(from, to, value) == Goto("relationships-cataloger", from, to, value)
Carried == local["relationships-cataloger"]

\* binary.PackagesToRemove: a binary package where an ELF package is evident.
RepresentedByElf ==
  {q \in sbom.packages :
     /\ IsBinary(q) /\ Kind[q] # "elf"
     /\ \E e \in sbom.packages : Kind[e] = "elf" /\ At[e] \cap At[q] # {}}

ReadRepresented ==
  /\ Relationships("begin", "prune", RepresentedByElf)
  /\ UNCHANGED sbom

DeleteRepresented ==
  /\ Relationships("prune", IF Config.overlap THEN "overlap" ELSE "binaries", {})
  /\ sbom' = DeletePackages(sbom, Carried)

\* A package owns a file that another one was found at.
Claims(q, p) == Owned[q] \cap At[p] \cap Ownable # {}

\* byFileOwnershipOverlap
OverlapEdges ==
  {Overlap(e[1], e[2]) :
     e \in {d \in sbom.packages \X sbom.packages : d[1] # d[2] /\ Claims(d[1], d[2])}}

ReadOverlap ==
  /\ Relationships("overlap", "store overlap", OverlapEdges)
  /\ UNCHANGED sbom

\* The edges come out of a map in any order; the task goes on to walk them.
StoreOverlap ==
  /\ Relationships("store overlap",
                   IF Config.excludeBinaries THEN "exclude" ELSE "binaries", Carried)
  /\ sbom' = AddRelationships(sbom, Carried)

\* Slip: the JVM rule is forgotten.
CondemnedNotByJVM(r) ==
  IF Kind[r.from] \in {"os", "bitnami"} /\ IsBinary(r.to) THEN {r.to} ELSE {}

\* identifyOverlapping{OS,JVM,Bitnami}Relationship: the package an edge
\* between two packages condemns.
Condemned(r) ==
  CASE Kind[r.from] \in {"os", "bitnami"} /\ IsBinary(r.to) -> {r.to}
    [] Kind[r.from] = "jvm" /\ IsBinary(r.to) /\ Kind[r.to] # "jvm" -> {r.to}
    [] OTHER -> {}

\* Slip: nobody asks whether the ends of the edge are still there.
ExcludeBinaryUnchecked ==
  /\ Carried # {}
  /\ \E r \in Carried :
       /\ Relationships("exclude", "exclude", Carried \ {r})
       /\ sbom' = DeletePackages(sbom, Condemned(r))

\* ExcludeBinariesByFileOwnershipOverlap: one turn of the loop over the edges
\* there were when it began; an edge whose ends are not both there any more
\* condemns nothing.
ExcludeBinary ==
  /\ Carried # {}
  /\ \E r \in Carried :
       /\ Relationships("exclude", "exclude", Carried \ {r})
       /\ sbom' = IF Endpoints(r) \subseteq sbom.packages
                    THEN DeletePackages(sbom, Condemned(r)) ELSE sbom

ExcludedAll ==
  /\ Carried = {}
  /\ Relationships("exclude", "binaries", {})
  /\ UNCHANGED sbom

\* owningLibraryPackage: binary packages own what they are found at.
Owners(f) == {q \in sbom.packages : /\ f \in Library \cap sbom.executables
                                    /\ f \in IF IsBinary(q) THEN At[q] ELSE Owned[q]}

\* NewDependencyRelationships: for the libraries the executable of an ELF
\* package imports, from the packages that own one, or from the file itself.
BinaryDependencies ==
  LET elves   == {p \in sbom.packages : Kind[p] = "elf"}
      imports == {i \in elves \X Coord :
                    \E f \in At[i[1]] \cap sbom.executables : i[2] \in Imports[f]}
  IN  (UNION {IF Owners(i[2]) = {} THEN {DependencyOf(i[2], i[1])}
                                   ELSE {DependencyOf(q, i[1]) : q \in Owners(i[2])}
                : i \in imports}) \ BagToSet(sbom.rels)

ReadBinaries ==
  /\ Relationships("binaries", "store binaries", BinaryDependencies)
  /\ UNCHANGED sbom

StoreBinaries ==
  /\ Relationships("store binaries", "add binaries", Carried)
  /\ sbom' = AddRelationships(sbom, Carried)

\* The same relationships again.
AddBinaries ==
  /\ Relationships("add binaries", "source", {})
  /\ sbom' = AddRelationships(sbom, Carried)

ReadSource ==
  /\ Relationships("source", "add source", {Contained("source", p) : p \in sbom.packages})
  /\ UNCHANGED sbom

AddSource ==
  /\ Relationships("add source", "evidence", {})
  /\ sbom' = AddRelationships(sbom, Carried)

ReadEvidence ==
  /\ Relationships("evidence", "add evidence",
                   UNION {{EvidentBy(p, f) : f \in At[p]} : p \in sbom.packages})
  /\ UNCHANGED sbom

AddEvidence ==
  /\ Relationships("add evidence", "over", {})
  /\ sbom' = AddRelationships(sbom, Carried)

-----------------------------------------------------------------------------
(* The unknowns labeler (internal/task/unknowns_tasks.go).                 *)

\* Slip: only the evidence counts, not what packages own.
HasPackageEvidence(f) == \E p \in sbom.packages : f \in At[p]

\* coordinateReferenceLookup
HasPackageReference(f) ==
  \/ \E p \in sbom.packages : f \in At[p] \cup Owned[p]
  \/ \E r \in BagToSet(sbom.rels) : f \in Endpoints(r) /\ Endpoints(r) \cap Pkg # {}

Label ==
  /\ Sched!LabelUnknowns("unknowns-labeler",
       {f \in Coord : Config.removeKnown /\ HasPackageReference(f)},
       {f \in sbom.executables : Config.labelExecutables /\ ~HasPackageReference(f)},
       "no package identified in executable file")
  /\ UNCHANGED content

-----------------------------------------------------------------------------
(* Tasks that only concern the Linux distribution, and how tasks end.      *)

DistroTask == {"environment-cataloger", "os-feature-detection"}

DetectDistro(t) ==
  /\ t \in DistroTask
  /\ Goto(t, "begin", "over", {})
  /\ UNCHANGED sbom

\* The coordinates the errors of an outcome are about.
ErrorsAbout(o) == {o.coords[n][1] : n \in DOMAIN o.coords}

\* Catalogers return errors about coordinates, or others; the digest cataloger
\* one for every file it could not read; the remaining tasks return nil.
Return(t) ==
  /\ step[t] = "over"
  /\ \E o \in Sched!Outcome :
       /\ t \notin PkgTask \cup FileTask => o = Sched!NoErrors
       /\ \A n \in DOMAIN o.coords : o.coords[n] \in Suspect \X {"cataloging failed"}
       /\ t = "file-digest-cataloger" => ErrorsAbout(o) = local[t]
       /\ Sched!EndExecute(t, o)
  /\ UNCHANGED content

\* A cataloger panics before it handed anything over.
Panic(t) ==
  /\ t \in PkgTask \cup FileTask
  /\ step[t] = "begin"
  /\ Sched!EndExecute(t, [coords |-> <<>>, other |-> TRUE])
  /\ UNCHANGED content

RelationshipsStep ==
  \/ ReadRepresented \/ DeleteRepresented
  \/ ReadOverlap \/ StoreOverlap
  \/ ExcludeBinary \/ ExcludedAll
  \/ ReadBinaries \/ StoreBinaries \/ AddBinaries
  \/ ReadSource \/ AddSource
  \/ ReadEvidence \/ AddEvidence

ScopeStep == Config.deepSquashed /\ (ReadHidden \/ DeleteHidden)

FileStep == SelectFiles \/ StoreDigests \/ StoreExecutables

Work(t) == \/ Catalog(t) \/ AddFound(t) \/ RelateFound(t)
           \/ DetectDistro(t)
           \/ Return(t)

Schedule == /\ \/ \E t \in Planned : \/ Sched!StartTask(t)
                                     \/ Sched!AppendUnknowns(t)
                                     \/ Sched!FinishTask(t)
               \/ Sched!NextGroup
               \/ Sched!FailGroup
               \/ Sched!Complete
               \/ Sched!Return
            /\ UNCHANGED content

Next == \/ \E t \in Planned : Work(t) \/ Panic(t)
        \/ FileStep
        \/ ScopeStep
        \/ RelationshipsStep
        \/ Label
        \/ Schedule

Spec == Init /\ [][Next]_vars /\ WF_vars(Next)

-----------------------------------------------------------------------------
(* Properties.                                                             *)

TypeOK ==
  /\ sbom.packages \subseteq Pkg
  /\ DOMAIN sbom.rels \subseteq Rel
  /\ sbom.executables \subseteq Coord
  /\ sbom.digests \subseteq Coord
  /\ DOMAIN step = Planned /\ DOMAIN local = Planned
  /\ Sched!TypeOK

\* Relationships of a package that is not there.
Dangling == {r \in DOMAIN sbom.rels : ~(Endpoints(r) \cap Pkg \subseteq sbom.packages)}

\* Also between two locks, a relationship of a package the SBOM does not hold
\* comes into it in one way only: a cataloger hands it over and compliance
\* dropped the package.  Packages are added before what links them, what links
\* them goes with them, and nothing derived from an earlier state of the packages
\* is written after they changed (builder.go:83-109, package_task_factory.go:61-62,
\* relationship_tasks.go:40-78).
NothingNewDangles ==
  [][\A r \in Dangling' \ Dangling :
       \E t \in PkgTask :
         /\ step[t] = "added" /\ step'[t] = "over"
         /\ (Endpoints(r) \cap Pkg) \ sbom'.packages
              \subseteq local[t].related \ local[t].kept]_vars

\* In the SBOM that is returned the source contains every package once, and
\* every package is evident by each of its locations once
\* (relationship_tasks.go:64-77).
SourceAndEvidence ==
  result = "sbom" =>
    \A p \in Pkg :
      /\ Copies(Contained("source", p), sbom.rels) = (IF p \in sbom.packages THEN 1 ELSE 0)
      /\ \A f \in Coord : Copies(EvidentBy(p, f), sbom.rels) =
                            IF p \in sbom.packages /\ f \in At[p] THEN 1 ELSE 0

\* "we need the package info when we are cataloging files owned by packages":
\* with that selection every regular file of every package any cataloger
\* reported is digested, whichever cataloger was last, or the digest cataloger
\* returned an error about it: no file is passed over in silence
\* (create_sbom_config.go:202-204, filedigest/cataloger.go:54-77).
OwnedFilesDigested ==
  Config.selectOwned /\ result = "sbom" =>
    \A p \in sbom.packages :
      \A f \in Regular \cap (At[p] \cup (IF Config.fileOwnership THEN Owned[p] ELSE {})) :
        \/ f \in sbom.digests
        \/ f \in ErrorsAbout(outcome["file-digest-cataloger"])

\* After the scope task, a package goes because of one that owns or represents
\* its files, and that one is in the SBOM when it goes: nothing is removed on the
\* authority of a package that was itself removed before
\* (exclude_binaries_by_file_ownership_overlap.go:35-76).
AuthoritySurvives ==
  [][\A p \in sbom.packages \ sbom'.packages :
       \/ Config.deepSquashed /\ status["deep-squashed-cleaner"] = "running"
       \/ \E q \in sbom'.packages \ {p} :
             \/ Claims(q, p) /\ Condemned(Overlap(q, p)) = {p}
             \/ Kind[q] = "elf" /\ At[q] \cap At[p] # {} /\ Kind[p] \in {"jvm", "binary"}]_vars

\* And all of them go: the SBOM that is returned holds no binary package next
\* to a package that replaces it, whatever cataloger came first and whatever
\* order the edges were walked in (relationship_tasks.go:43-56).
NothingReplaceable ==
  result = "sbom" =>
    \A p, q \in sbom.packages :
      /\ Kind[q] = "elf" /\ Kind[p] \in {"jvm", "binary"} => At[q] \cap At[p] = {}
      /\ Config.excludeBinaries /\ Kind[q] \in {"os", "bitnami"}
           /\ Kind[p] \in {"jvm", "binary", "elf"} => ~Claims(q, p)
      /\ Config.excludeBinaries /\ Kind[q] = "jvm"
           /\ Kind[p] \in {"binary", "elf"} => ~Claims(q, p)

\* When the labeler is through, no unknown is left about a file of a package
\* the SBOM holds, and every executable that no package and no relationship
\* mentions has one (unknowns_tasks.go:35-57).
UnknownsReconciled ==
  result = "sbom" =>
    /\ Config.removeKnown =>
         \A p \in sbom.packages : \A f \in At[p] \cup Owned[p] : unknowns[f] = <<>>
    /\ Config.labelExecutables =>
         \A f \in sbom.executables :
            \/ unknowns[f] # <<>>
            \/ \E p \in sbom.packages : f \in At[p] \cup Owned[p]
            \/ \E r \in DOMAIN sbom.rels : f \in Endpoints(r)

\* The tasks run under the discipline of the scheduler.
Scheduled == Sched!Spec

\* binary_dependencies.go:18 says of the package-to-package relationships of
\* binaries that "each relationship must be unique".
BinaryDependenciesUnique ==
  \A r \in DOMAIN sbom.rels : r.type = "dependency-of" => sbom.rels[r] = 1
=============================================================================
