----------------------------- MODULE GoModules -----------------------------
(***************************************************************************)
(* What is found about Go modules: in a go.mod file and the packages that  *)
(* the go tool loads for it, in the build information of binaries, and the *)
(* search for the licenses of a module.  syft/pkg/cataloger/golang.        *)
(*                                                                         *)
(* A module is [path, version, replace], replace a sequence of at most one *)
(* module.  Digests, build settings, PURLs and CPEs are left out, and of   *)
(* binaries how they are read.                                             *)
(***************************************************************************)
EXTENDS Naturals, SequencesExt

CONSTANTS GoFiles,      \* each of kind "mod", "binary" or "licenses"
          LocalPaths,   \* paths of replacements in the file system
          DotPaths,     \* and those of them that begin with a dot
          OddVersions   \* Go versions no CPE can be made of

VARIABLES go,           \* what is read
          goPhase,      \* what comes next
          goLeft,       \* packages to visit
          goAt,         \* and the place in a list
          visited,      \* packages of the graph that were visited
          entries,      \* goModPackages: path -> version
          goFound,      \* [packages, edges, errors]
          search        \* the search for licenses

goVars == <<go, goPhase, goLeft, goAt, visited, entries, goFound, search>>

Devel == "(devel)"
Replacement(m) == IF m.replace = <<>> THEN m ELSE m.replace[1]

\* The name of a module that has a replacement, unless it is in the file system.
FinalPath(m) == IF Replacement(m).path \in LocalPaths THEN m.path ELSE Replacement(m).path

-----------------------------------------------------------------------------
(* go.mod, and the packages of packages.Load.                              *)

\* shouldSkipVisit
SkipsVisit(p) == go.graph[p].module = "" \/ go.graph[p].std

Enters(p) == ~go.graph[p].broken /\ ~SkipsVisit(p)

\* packages.Visit, all that wait at once: their order makes no difference.
Visit ==
  /\ goPhase = "visit" /\ goLeft # {}
  /\ visited' = visited \cup goLeft
  /\ goLeft' = (UNION {go.graph[p].imports : p \in {p \in goLeft : Enters(p)}}) \ visited'
  /\ goFound' = [goFound EXCEPT !.errors = @ + Cardinality({p \in goLeft : go.graph[p].broken})]
  /\ UNCHANGED <<go, goPhase, goAt, entries, search>>

\* Packages with files, of which the others only pass on what they import.
Sources == {p \in visited : Enters(p) /\ go.graph[p].files}

ModuleOf(p) == go.modules[go.graph[p].module]
LoadedPaths == {ModuleOf(p).path : p \in Sources}

\* dependencies: by the path of the replacement, to paths of modules themselves.
ModuleDependencies(path) ==
  {ModuleOf(q).path : q \in {q \in UNION {go.graph[p].imports :
                                            p \in {p \in Sources : Replacement(ModuleOf(p)).path = path}} :
                               go.graph[q].module # ""}}

SourceID(m) == <<"source", Replacement(m).path, Replacement(m).version>>
EntryID(path, version) == <<"entry", path, version>>

\* isRelativeImportOrMain
IsReported(m) == Replacement(m).path \notin DotPaths \cup {"main"}

Reported == {ModuleOf(p) : p \in {p \in Sources : IsReported(ModuleOf(p))}}
ReportedPaths == {Replacement(m).path : m \in Reported}

\* buildModuleRelationships, to the last module of a path.
SourceEdges(last) ==
  UNION {{<<SourceID(last[path]), SourceID(m)>> :
            path \in (ReportedPaths \cap ModuleDependencies(Replacement(m).path)) \ {Replacement(m).path}} :
           m \in Reported}

\* catalogModules: if one path replaces modules by two versions, any may be the last.
CatalogSources ==
  /\ goPhase = "visit" /\ goLeft = {}
  /\ \E last \in [ReportedPaths -> Reported] :
       /\ \A path \in ReportedPaths : Replacement(last[path]).path = path
       /\ goFound' = [goFound EXCEPT !.packages = {SourceID(m) : m \in Reported}, !.edges = SourceEdges(last)]
  /\ goPhase' = "require"
  /\ UNCHANGED <<go, goLeft, goAt, visited, entries, search>>

Required == {go.require[i].path : i \in DOMAIN go.require}

\* Of what is required twice, the last.
LastRequired == {i \in DOMAIN go.require : \A j \in DOMAIN go.require : go.require[j].path = go.require[i].path => j <= i}

\* createGoModPackages: what is required and was not loaded.
Require ==
  /\ goPhase = "require"
  /\ entries' = [path \in Required \ LoadedPaths |->
                   go.require[CHOOSE i \in LastRequired : go.require[i].path = path].version]
  /\ goPhase' = "replace"
  /\ UNCHANGED <<go, goLeft, goAt, visited, goFound, search>>

\* Slip: what is replaced stays.
ReplaceKeepsOld ==
  /\ goPhase = "replace" /\ goAt \in DOMAIN go.replaces
  /\ LET m == go.replaces[goAt]
     IN  entries' = [path \in DOMAIN entries \cup {FinalPath(m)} |->
                       IF path = FinalPath(m) THEN Replacement(m).version ELSE entries[path]]
  /\ goAt' = goAt + 1
  /\ UNCHANGED <<go, goLeft, goPhase, visited, goFound, search>>

\* One directive of applyReplaceDirectives, whatever version it is for.
Replace ==
  /\ goPhase = "replace" /\ goAt \in DOMAIN go.replaces
  /\ LET m == go.replaces[goAt]
         gone == IF FinalPath(m) = m.path THEN {} ELSE {m.path}
     IN  entries' = [path \in (DOMAIN entries \ gone) \cup {FinalPath(m)} |->
                       IF path = FinalPath(m) THEN Replacement(m).version ELSE entries[path]]
  /\ goAt' = goAt + 1
  /\ UNCHANGED <<go, goLeft, goPhase, visited, goFound, search>>

\* applyExcludeDirectives, assembleResults
Assemble ==
  /\ goPhase = "replace" /\ goAt \notin DOMAIN go.replaces
  /\ goFound' = [goFound EXCEPT
                   !.packages = @ \cup {EntryID(path, entries[path]) : path \in DOMAIN entries \ go.excludes}]
  /\ goPhase' = "end"
  /\ UNCHANGED <<go, goLeft, goAt, visited, entries, search>>

-----------------------------------------------------------------------------
(* Binaries: one build, or one for each architecture.                      *)

EmptyModule == [path |-> "", version |-> "", replace |-> <<>>]
PartialBuild == [EmptyModule EXCEPT !.path = "command-line-arguments"]

MissingMain(b) == \/ b.main = EmptyModule /\ b.path # ""
                  \/ b.main = PartialBuild

MainCandidates(b) == {i \in DOMAIN b.deps : b.deps[i].version = Devel}

\* buildGoPkgInfo up to its loop: createMainModuleFromPath takes a dependency
\* for the main module if it is the only one without a version.
WithMainModule(b) ==
  IF ~MissingMain(b) THEN b
  ELSE IF Cardinality(MainCandidates(b)) = 1
         THEN LET i == CHOOSE i \in MainCandidates(b) : TRUE
              IN  [b EXCEPT !.main = b.deps[i], !.deps = RemoveAt(@, i)]
         ELSE [b EXCEPT !.main = [path |-> b.path, version |-> Devel, replace |-> <<>>]]

\* findMainModuleVersion; what is found begins with a v.
MainVersion(b) ==
  IF b.main.version # Devel THEN b.main.version
  ELSE IF go.config.ldflags /\ b.ldflags # "" THEN b.ldflags
  ELSE IF go.config.contents /\ b.contents # "" THEN b.contents
  ELSE IF go.config.settings THEN b.revision ELSE ""

Released(version) == IF version = Devel THEN "" ELSE version

\* newGoBinaryPackage
BinaryID(b, m) == <<"binary", FinalPath(m), Released(Replacement(m).version), b.main.path, b.arch>>
MainID(b) == BinaryID(b, [b.main EXCEPT !.version = MainVersion(b)])

DependencyIDs(b) ==
  {BinaryID(b, b.deps[i]) : i \in {i \in DOMAIN b.deps : b.deps[i] # b.main /\ FinalPath(b.deps[i]) # ""}}

\* scanFile for one reader, and buildGoPkgInfo.  The relationships are those of
\* the latest main module: the assignment forgets the others.
ReadBuild ==
  /\ goPhase = "builds" /\ goAt \in DOMAIN go.builds
  /\ IF go.builds[goAt].is # "go" THEN UNCHANGED goFound
     ELSE LET b == WithMainModule(go.builds[goAt])
              main == IF b.main = EmptyModule THEN {} ELSE {MainID(b)}
          IN  goFound' = [packages |-> goFound.packages \cup DependencyIDs(b) \cup main,
                          edges |-> IF main = {} THEN goFound.edges ELSE DependencyIDs(b) \X main,
                          errors |-> goFound.errors + Cardinality(b.unknown)]
  /\ goAt' = goAt + 1
  /\ UNCHANGED <<go, goLeft, goPhase, visited, entries, search>>

\* A universal binary that cannot be taken apart.
RefuseBinary ==
  /\ goPhase = "builds" /\ goAt = 1 /\ go.torn
  /\ goFound' = [goFound EXCEPT !.errors = 1]
  /\ goPhase' = "end"
  /\ UNCHANGED <<go, goLeft, goAt, visited, entries, search>>

\* What a build is reported with, the main module first.
Firsts(b) == IF b.main # EmptyModule THEN {MainID(b)}
             ELSE LET named == {i \in DOMAIN b.deps : FinalPath(b.deps[i]) # ""}
                  IN  {BinaryID(b, b.deps[i]) : i \in {i \in named : \A j \in named : i <= j}}

StdlibID(version) == <<"stdlib", version>>

\* stdlibProcessor: for the first package of which the Go version is known.
AddStdlib ==
  /\ goPhase = "builds" /\ goAt \notin DOMAIN go.builds /\ ~go.torn
  /\ LET known == {i \in DOMAIN go.builds : /\ go.builds[i].is = "go"
                                            /\ go.builds[i].goVersion \notin OddVersions
                                            /\ Firsts(WithMainModule(go.builds[i])) # {}}
         first == {i \in known : \A j \in known : i <= j}
     IN  goFound' = [goFound EXCEPT
                       !.packages = @ \cup {StdlibID(go.builds[i].goVersion) : i \in first},
                       !.edges = @ \cup UNION {{StdlibID(go.builds[i].goVersion)}
                                                 \X Firsts(WithMainModule(go.builds[i])) : i \in first}]
  /\ goPhase' = "end"
  /\ UNCHANGED <<go, goLeft, goAt, visited, entries, search>>

-----------------------------------------------------------------------------
(* getLicenses: source, module cache, vendor directory, then remote.  A     *)
(* place answers with licenses, which may be none.                         *)

Enabled(place) == place = "source" \/ place \in go.places
After(place) == [source |-> "cache", cache |-> "vendor", vendor |-> "remote"][place]

SearchPlace ==
  /\ goPhase \in {"source", "cache", "vendor"}
  /\ LET found == IF Enabled(goPhase) THEN go.has[goPhase] ELSE {}
     IN  /\ search' = [search EXCEPT !.licenses = found]
         /\ goPhase' = IF found # {} THEN "answer" ELSE After(goPhase)
  /\ UNCHANGED <<go, goLeft, goAt, visited, entries, goFound>>

\* The resolver of the cache keeps answers, errors too.
SearchRemote ==
  /\ goPhase = "remote"
  /\ IF ~Enabled("remote") \/ search.cached # <<>>
       THEN /\ search' = [search EXCEPT !.licenses = IF Enabled("remote") THEN search.cached[1] ELSE {}]
            /\ goPhase' = "answer" /\ UNCHANGED goAt
       ELSE /\ search' = [search EXCEPT !.fsys = "none", !.failed = FALSE, !.asked = @ + 1]
            /\ goPhase' = "proxies" /\ goAt' = 1
  /\ UNCHANGED <<go, goLeft, visited, entries, goFound>>

\* remotesForModule
Proxies == IF go.private THEN <<go.repository>> ELSE go.proxies

\* What direct finds does not end the loop.
AsksOn == /\ goAt \in DOMAIN Proxies
          /\ search.fsys # "none" => Proxies[goAt - 1].is = "direct"

\* One proxy of getModule.  A directory always is a file system, and leaves the
\* error of a proxy before it.
AskProxy ==
  /\ goPhase = "proxies" /\ AsksOn
  /\ LET proxy == Proxies[goAt]
     IN  search' =
           [search EXCEPT
              !.fsys = IF proxy.is = "file" THEN "directory"
                       ELSE IF ~proxy.ok THEN "none"
                       ELSE [direct |-> "repository", http |-> "zip"][proxy.is],
              !.failed = IF proxy.is = "file" THEN @ ELSE ~proxy.ok,
              !.licenses = proxy.licenses,
              !.temp = IF proxy.is = "http" /\ proxy.ok THEN @ + 1 ELSE @]
  /\ goAt' = goAt + 1
  /\ UNCHANGED <<go, goLeft, goPhase, visited, entries, goFound>>

\* The end of getLicensesFromRemote: the temp file of a proxy is cleaned up.
EndRemote ==
  /\ goPhase = "proxies" /\ ~AsksOn
  /\ LET licenses == IF search.failed THEN {} ELSE search.licenses
     IN  search' = [search EXCEPT !.licenses = licenses, !.cached = <<licenses>>,
                                  !.temp = IF search.fsys = "zip" THEN @ - 1 ELSE @]
  /\ goPhase' = "answer"
  /\ UNCHANGED <<go, goLeft, goAt, visited, entries, goFound>>

\* The same module is searched for twice: it is required here and there.
AnswerSearch ==
  /\ goPhase = "answer"
  /\ search' = [search EXCEPT !.answers = Append(@, search.licenses)]
  /\ goPhase' = IF Len(search.answers) = 0 THEN "source" ELSE "end"
  /\ UNCHANGED <<go, goLeft, goAt, visited, entries, goFound>>

-----------------------------------------------------------------------------
(* What is read.  A module of a graph is known by its path.  In a build no *)
(* dependency goes by the name of what is built, unless it is that; and    *)
(* what has no version yet has no replacement.                              *)

ModAssumption(f) ==
  f.readable =>
    /\ f.require \in Seq(ToSet(f.require)) /\ f.replaces \in Seq(ToSet(f.replaces))
    /\ f.roots \subseteq DOMAIN f.graph
    /\ \A p \in DOMAIN f.graph : /\ f.graph[p].imports \subseteq DOMAIN f.graph
                                /\ f.graph[p].module \in DOMAIN f.modules \cup {""}
    /\ \A path \in DOMAIN f.modules : f.modules[path].path = path

IsModule(m) == m = [path |-> m.path, version |-> m.version, replace |-> m.replace]

BuildAssumption(b) ==
  /\ {"main", "deps", "arch"} \subseteq DOMAIN b
  /\ b.deps \in Seq(ToSet(b.deps))
  /\ IsModule(b.main) /\ b.main.replace = <<>>
  /\ \A d \in ToSet(b.deps) :
       /\ IsModule(d) /\ FinalPath(d) # ""
       /\ FinalPath(d) = b.main.path => d = b.main
       /\ FinalPath(d) = b.path => d.version = Devel
       /\ d.version = Devel => /\ d.replace = <<>>
                              /\ \A e \in ToSet(b.deps) : FinalPath(e) = d.path => e = d

BinaryAssumption(f) ==
  /\ f.builds \in Seq(ToSet(f.builds)) /\ (f.torn => f.builds = <<>>)
  /\ \A i \in DOMAIN f.builds : f.builds[i].is = "go" => BuildAssumption(f.builds[i])

SearchAssumption(f) ==
  /\ f.proxies \in Seq(ToSet(f.proxies))
  /\ {f.proxies[i].is : i \in DOMAIN f.proxies} \cup {f.repository.is} \subseteq {"file", "http", "direct"}

ASSUME GoFilesAssumption ==
  \A f \in GoFiles : \/ f.kind = "mod" /\ ModAssumption(f)
                     \/ f.kind = "binary" /\ BinaryAssumption(f)
                     \/ f.kind = "licenses" /\ SearchAssumption(f)

\* A go.mod file that cannot be parsed is an error and nothing else.
FirstPhase == [mod |-> IF go.kind = "mod" /\ ~go.readable THEN "unreadable"
                       ELSE IF go.kind = "mod" /\ go.usesLib THEN "visit" ELSE "require",
               binary |-> "builds", licenses |-> "source"][go.kind]

RefuseMod ==
  /\ goPhase = "unreadable"
  /\ goFound' = [goFound EXCEPT !.errors = 1]
  /\ goPhase' = "end"
  /\ UNCHANGED <<go, goLeft, goAt, visited, entries, search>>

GoInit == /\ go \in GoFiles
          /\ goPhase = FirstPhase
          /\ goLeft = (IF FirstPhase = "visit" THEN go.roots ELSE {})
          /\ goAt = 1
          /\ visited = {}
          /\ entries = <<>>
          /\ goFound = [packages |-> {}, edges |-> {}, errors |-> 0]
          /\ search = [fsys |-> "none", failed |-> FALSE, licenses |-> {}, temp |-> 0, asked |-> 0,
                       cached |-> <<>>, answers |-> <<>>]

GoNext == \/ Visit \/ CatalogSources \/ Require \/ Replace \/ Assemble \/ RefuseMod
          \/ ReadBuild \/ RefuseBinary \/ AddStdlib
          \/ SearchPlace \/ SearchRemote \/ AskProxy \/ EndRemote \/ AnswerSearch

GoSpec == GoInit /\ [][GoNext]_goVars

-----------------------------------------------------------------------------
(* What go.mod and the packages say.                                       *)

ClosedUnderImports(S) ==
  go.roots \subseteq S /\ \A p \in S : Enters(p) => go.graph[p].imports \subseteq S

\* Packages that the roots lead to, and of them those that belong to modules.
ReachedPackages == LET closed == {S \in SUBSET DOMAIN go.graph : ClosedUnderImports(S)}
           IN  {p \in DOMAIN go.graph : \A S \in closed : p \in S}
Used == IF go.usesLib THEN {p \in ReachedPackages : Enters(p) /\ go.graph[p].files} ELSE {}

\* Modules a package of which is used.
UsedModules == {ModuleOf(p) : p \in {p \in Used : IsReported(ModuleOf(p))}}

\* What goes by the path of a module imports a package of another, which has its own name.
ImportsFrom(m, n) ==
  \E p \in Used : /\ Replacement(ModuleOf(p)).path = Replacement(m).path
                  /\ \E q \in go.graph[p].imports : go.graph[q].module = n.path

\* The only one of its path.
Sole(n) == n.replace = <<>> /\ \A m \in UsedModules : Replacement(m).path = n.path => m = n

GoEntries == {id \in goFound.packages : id[1] = "entry"}

\* Directives that do not meet: none is about what another put there.
Unchained ==
  \A i, j \in DOMAIN go.replaces :
    /\ i # j => FinalPath(go.replaces[i]) # go.replaces[j].path
    /\ i # j => go.replaces[i].path # go.replaces[j].path
    /\ i # j => FinalPath(go.replaces[i]) # FinalPath(go.replaces[j])

Replaced == {go.replaces[i].path : i \in DOMAIN go.replaces}
Replacing == {FinalPath(go.replaces[i]) : i \in DOMAIN go.replaces}
EntriesAsked ==
  {EntryID(go.require[i].path, go.require[i].version) : i \in LastRequired}
  \cup {EntryID(FinalPath(m), Replacement(m).version) : m \in {go.replaces[i] : i \in DOMAIN go.replaces}}

ModulesRead ==
  /\ {id \in goFound.packages : id[1] = "source"} = {SourceID(m) : m \in UsedModules}
  /\ \A m \in UsedModules, n \in {n \in UsedModules : Sole(n)} :
       (<<SourceID(n), SourceID(m)>> \in goFound.edges) <=> (m # n /\ ImportsFrom(m, n))
  /\ \A e \in goFound.edges : {e[1], e[2]} \subseteq goFound.packages
  /\ GoEntries \subseteq EntriesAsked
  /\ \A id \in GoEntries : id[2] \notin go.excludes
  /\ Unchained =>
       \A id \in EntriesAsked :
         id \in GoEntries <=>
           /\ id[2] \notin go.excludes
           /\ \/ \E i \in DOMAIN go.replaces :
                   id = EntryID(FinalPath(go.replaces[i]), Replacement(go.replaces[i]).version)
              \/ id[2] \notin Replaced \cup Replacing \cup {ModuleOf(p).path : p \in Used}

\* What the builds of a binary say.
GoBuilds == {go.builds[i] : i \in {i \in DOMAIN go.builds : go.builds[i].is = "go"}}

\* Every module linked in is reported, what replaces it in its place; a main
\* module is one of them if they say which, and never a development version; the
\* Go library is there once; what a binary needs is linked to its main module.
BinaryRead ==
  LET modules == {id \in goFound.packages : id[1] = "binary"}
  IN  /\ \A b \in GoBuilds : \A d \in ToSet(b.deps) :
           \E id \in modules : id[2] = FinalPath(d) /\ id[5] = b.arch
      /\ \A id \in modules : id[3] # Devel
      /\ \A b \in {b \in GoBuilds : b.main # EmptyModule \/ b.path # ""} :
           \E id \in modules : id[4] = id[2] /\ id[5] = b.arch
      /\ \A e \in goFound.edges : {e[1], e[2]} \subseteq goFound.packages /\ e[1] # e[2]
      /\ Cardinality({id \in goFound.packages : id[1] = "stdlib"}) <= 1
      /\ Cardinality(GoBuilds) = 1 =>
           \A id, d \in modules : (id[4] = id[2] /\ d # id) => <<d, id>> \in goFound.edges
      /\ \A e \in goFound.edges : e[1][1] = "binary" => e[1][5] = e[2][5]

\* LicensePlaces in the order of the search, those that are asked.
LicensePlaces == <<"source", "cache", "vendor">>
FirstPlace == LET having == {i \in 1..3 : /\ Enabled(LicensePlaces[i])
                                          /\ go.has[LicensePlaces[i]] # {}}
              IN  {i \in having : \A j \in having : i <= j}

\* The licenses are those of the first place that has some; a proxy is asked if
\* no place has, once for all; its temp file is gone.
LicensesSearched ==
  /\ \A i \in FirstPlace : search.answers[1] = go.has[LicensePlaces[i]]
  /\ search.asked = IF FirstPlace = {} /\ Enabled("remote") THEN 1 ELSE 0
  /\ search.answers[1] = search.answers[2]
  /\ search.temp = 0

\* Whatever the go.mod file, its packages, the binary, and the places there are
\* for licenses: what is reported is what they say (parse_go_mod.go:41-413,
\* parse_go_binary.go:62-271, stdlib_package.go:15-51, licenses.go:80-286).
GoRead ==
  goPhase = "end" =>
    /\ go.kind = "mod" /\ go.readable => ModulesRead
    /\ go.kind = "binary" => BinaryRead
    /\ go.kind = "licenses" => LicensesSearched

\* Known not to hold.  Relationships of every architecture are there
\* (parse_go_binary.go:78 forgets those before).
ArchitecturesLinked ==
  goPhase = "end" /\ go.kind = "binary" /\ ~go.torn =>
    \A b \in {WithMainModule(b) : b \in GoBuilds} : DependencyIDs(b) \X {MainID(b)} \subseteq goFound.edges

\* Known not to hold.  Dependencies are "module => module"
\* (parse_go_mod.go:168), so also of modules that are replaced.
ReplacedLinked ==
  goPhase = "end" /\ go.kind = "mod" /\ go.readable =>
    \A m, n \in UsedModules : m # n /\ ImportsFrom(m, n) => <<SourceID(n), SourceID(m)>> \in goFound.edges

\* Known not to hold.  A proxy that has the module is found (licenses.go:265).
ProxyAnswers ==
  /\ goPhase = "end" /\ go.kind = "licenses" /\ search.asked = 1
  /\ \E i \in DOMAIN Proxies : Proxies[i].ok /\ Proxies[i].licenses # {}
  => search.answers[1] # {}
=============================================================================
