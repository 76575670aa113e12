----------------------------- MODULE OtherLocks -----------------------------
(***************************************************************************)
(* The packages of the lock files of Rust, C++, .NET, Dart, Swift, Ruby,   *)
(* Elixir, Erlang and Haskell, and of GitHub workflows: syft/pkg/cataloger.*)
(*                                                                         *)
(* What an entry has besides what is given here is left out, and so are    *)
(* files that cannot be decoded.  An edge <<q, p>> says q is From, p is To.*)
(***************************************************************************)
EXTENDS Naturals, SequencesExt

CONSTANTS LockFiles  \* each [format, ...]: see the actions

VARIABLES lf,      \* the file
          lfAt,    \* the next line, where lines are read one by one
          section, \* the section that line is in
          recipe,  \* the recipe hashes read so far
          lfFound  \* [packages, edges, errors, done]

lfVars == <<lf, lfAt, section, recipe, lfFound>>

NothingYet == [packages |-> {}, edges |-> {}, errors |-> 0, done |-> FALSE]

LfReading(format) == ~lfFound.done /\ lf.format = format

LfReport(packages, edges, errors) ==
  /\ lfFound' = [packages |-> packages, edges |-> edges, errors |-> errors, done |-> TRUE]
  /\ UNCHANGED <<lf, lfAt, section, recipe>>

OneIfEmpty(packages) == IF packages = {} THEN 1 ELSE 0

LfFailed == LfReport({}, {}, 1)

-----------------------------------------------------------------------------
(* Cargo.lock.  A package is [name, version, source, dependencies], a      *)
(* source <<>>, <<kind, url>> or <<"git", url, commit>>; it is asked for   *)
(* by its name, with its version, or with its source too, without commit.  *)

SourceAsked(source) == IF source[1] = "git" THEN <<"git", source[2], "">> ELSE source

CargoProvides(p) == {<<p.name>>, <<p.name, p.version>>}
                      \cup IF p.source = <<>> THEN {}
                           ELSE {<<p.name, p.version, SourceAsked(p.source)>>}

\* Slip: a package is asked for by its name, whatever else is said.
CargoEdgesByName(packages) ==
  {e \in packages \X packages : \E d \in e[2].dependencies : d[1] = e[1].name}

CargoEdges(packages) ==
  {e \in packages \X packages : e[2].dependencies \cap CargoProvides(e[1]) # {}}

ReadCargo == LfReading("cargo") /\ LfReport(lf.packages, CargoEdges(lf.packages), OneIfEmpty(lf.packages))

-----------------------------------------------------------------------------
(* conan.lock.  Version 1 has nodes, an index each, whose reference may be *)
(* of no package; nodes alike are one package, which has the requirements  *)
(* of the node last visited.  Version 2 has a list, without requirements.  *)

NoPackage == [name |-> "", version |-> ""]

Visited == {lf.nodes[i].ref : i \in DOMAIN lf.nodes} \ {NoPackage}

LastNode == {f \in [Visited -> DOMAIN lf.nodes] : \A p \in Visited : lf.nodes[f[p]].ref = p}

ReadConan ==
  /\ LfReading("conan")
  /\ \E last \in LastNode :
       LfReport(Visited \cup lf.requires,
                UNION {{<<IF i \in DOMAIN lf.nodes THEN lf.nodes[i].ref ELSE NoPackage, p>> :
                          i \in lf.nodes[last[p]].requires} : p \in Visited},
                OneIfEmpty(Visited \cup lf.requires))

-----------------------------------------------------------------------------
(* packages.lock.json: a function of frameworks, names and entries.  Of    *)
(* entries of one name and version the first one met is kept; a dependency *)
(* that is not there in the version asked for is taken in any it is there. *)

Listed == {<<f, n>> : f \in DOMAIN lf.frameworks, n \in UNION {DOMAIN lf.frameworks[g] : g \in DOMAIN lf.frameworks}}
EntriesListed == {<<x[2], lf.frameworks[x[1]][x[2]]>> : x \in {x \in Listed : x[2] \in DOMAIN lf.frameworks[x[1]]}}

Versions == {<<e[1], e[2].resolved>> : e \in EntriesListed}

FirstMet == {f \in [Versions -> EntriesListed] : \A v \in Versions : <<f[v][1], f[v][2].resolved>> = v}

Candidates(name, version) ==
  IF <<name, version>> \in Versions THEN {<<name, version>>} ELSE {v \in Versions : v[1] = name}

\* The packages an entry's dependencies lead to, one choice of each.
ChildrenOf(entry) ==
  LET there == {n \in DOMAIN entry.dependencies : Candidates(n, entry.dependencies[n]) # {}}
  IN  {f \in [there -> Versions] : \A n \in there : f[n] \in Candidates(n, entry.dependencies[n])}

ReadPackagesLock ==
  /\ LfReading("dotnet")
  /\ \E met \in FirstMet :
       \E children \in [Versions -> UNION {ChildrenOf(met[v][2]) : v \in Versions}] :
         /\ \A v \in Versions : children[v] \in ChildrenOf(met[v][2])
         /\ LfReport(Versions,
                     UNION {{<<v, children[v][n]>> : n \in DOMAIN children[v]} : v \in Versions}, 0)

-----------------------------------------------------------------------------
(* pubspec.lock: what comes with an SDK has the least version of the SDK   *)
(* that is asked for, or is left out.  Podfile.lock: every pod needs the   *)
(* checksum of its root.  Package.resolved: versions 1 to 3.               *)

SdkUnknown(p) == p.sdk # "" /\ p.version = "0.0.0" /\ p.sdk \notin DOMAIN lf.sdks

Versioned(p) == [name |-> p.name,
                 version |-> IF p.sdk # "" /\ p.version = "0.0.0" THEN lf.sdks[p.sdk] ELSE p.version]

ReadPubspec ==
  /\ LfReading("pubspec")
  /\ LET packages == {Versioned(p) : p \in {p \in lf.packages : ~SdkUnknown(p)}}
     IN  LfReport(packages, {}, OneIfEmpty(packages))

ReadPodfile ==
  /\ LfReading("podfile")
  /\ IF \E p \in lf.pods : p.root \notin lf.checksums THEN LfFailed
     ELSE LfReport(lf.pods, {}, OneIfEmpty(lf.pods))

ReadPackageResolved ==
  /\ LfReading("swift")
  /\ IF lf.version \notin 1..3 THEN LfFailed ELSE LfReport(lf.pins, {}, OneIfEmpty(lf.pins))

\* rebar.lock: hashes are given to the packages they name.
ReadRebar ==
  /\ LfReading("rebar")
  /\ LET packages == {[name |-> n, version |-> lf.deps[n],
                       hash |-> IF n \in DOMAIN lf.hashes THEN lf.hashes[n] ELSE ""] : n \in DOMAIN lf.deps}
     IN  LfReport(packages, {}, OneIfEmpty(packages))

\* stack.yaml.lock: all packages have the last snapshot.
ReadStackLock ==
  /\ LfReading("stack")
  /\ LET packages == {[name |-> p, snapshot |-> IF lf.snapshots = <<>> THEN "" ELSE Last(lf.snapshots)] :
                        p \in lf.names \ {""}}
     IN  LfReport(packages, {}, OneIfEmpty(packages))

\* A workflow: a commit gives way to the version in the comment beside it.  What
\* uses jobs and what uses steps are two parsers; a statement without a name is
\* an error.
UsageVersion(u) == IF u.commit /\ u.comment # "" THEN u.comment ELSE u.version

ReadWorkflow ==
  /\ LfReading("workflow")
  /\ LET used == {u \in lf.usages : u.level = lf.level}
     IN  LfReport({[name |-> u.name, version |-> UsageVersion(u)] : u \in {u \in used : u.name # ""}},
                  {}, IF \E u \in used : u.name = "" THEN 1 ELSE 0)

-----------------------------------------------------------------------------
(* Gemfile.lock, mix.lock and conaninfo.txt are read by the line.  A line  *)
(* is [is, ...]; conaninfo.txt and mix.lock lose a last line without end.  *)

ByLine == {"gemfile", "mix", "conaninfo"}
Unterminated == lf.format # "gemfile" /\ lf.cut

LastLine == IF Unterminated THEN Len(lf.lines) - 1 ELSE Len(lf.lines)

Line == lf.lines[lfAt]

AtLine(format) == LfReading(format) /\ lfAt <= LastLine

NextLine == lfAt' = lfAt + 1 /\ UNCHANGED lf

SectionsOfInterest == {"GEM", "GIT", "PATH", "PLUGIN SOURCE"}

NewSection ==
  /\ \E format \in {"gemfile", "conaninfo"} : AtLine(format)
  /\ Line.is = "section"
  /\ section' = Line.name
  /\ UNCHANGED <<recipe, lfFound>>
  /\ NextLine

\* Two fields behind four blanks.
ReadGem ==
  /\ AtLine("gemfile") /\ Line.is # "section"
  /\ lfFound' = IF section \in SectionsOfInterest /\ Line.is = "gem" /\ Line.version # ""
                  THEN [lfFound EXCEPT !.packages = @ \cup {[name |-> Line.name, version |-> Line.version]}]
                  ELSE lfFound
  /\ UNCHANGED <<section, recipe>>
  /\ NextLine

\* The braces around the entries are lines that cannot be read.
ReadMixLine ==
  /\ AtLine("mix")
  /\ lfFound' = IF Line.is = "entry"
                  THEN [lfFound EXCEPT !.packages = @ \cup {[name |-> Line.name, version |-> Line.version]}]
                  ELSE [lfFound EXCEPT !.errors = @ + 1]
  /\ UNCHANGED <<section, recipe>>
  /\ NextLine

ConanRequires(name) == [name |-> name, hash |-> <<>>]

\* Only the first line of a recipe hash counts; of another section it is added.
ReadConanLine ==
  /\ AtLine("conaninfo") /\ Line.is # "section"
  /\ lfFound' = IF section = "full_requires" /\ Line.is = "reference"
                  THEN [lfFound EXCEPT !.packages = @ \cup {ConanRequires(Line.name)}] ELSE lfFound
  /\ recipe' = IF section = "recipe_hash" THEN Append(recipe, Line.name) ELSE recipe
  /\ section' = IF section = "recipe_hash" THEN "" ELSE section
  /\ NextLine

\* The package conaninfo.txt is of is named by its path, and depends on all others.
EndOfLines ==
  /\ \E format \in ByLine : LfReading(format)
  /\ lfAt > LastLine
  /\ LET main == [name |-> "main", hash |-> recipe]
         packages == lfFound.packages
     IN  CASE lf.format = "conaninfo" -> LfReport(packages \cup {main}, packages \X {main}, 0)
           [] lf.format = "gemfile" -> LfReport(packages, {}, OneIfEmpty(packages))
           [] lf.format = "mix" ->
                LfReport(packages, {}, IF lfFound.errors > 0 THEN lfFound.errors ELSE OneIfEmpty(packages))

-----------------------------------------------------------------------------
\* What can be parsed: the source of a crate, with the commit of git's; what is
\* asked for, which has no commit; and lists, of nodes and of lines.
IsCargoSource(s) == \/ s = <<>>
                    \/ Len(s) = 2 /\ s = <<s[1], s[2]>> /\ s[1] # "git"
                    \/ Len(s) = 3 /\ s = <<"git", s[2], s[3]>>

IsCargoAsked(d) == \/ Len(d) = 1 /\ d = <<d[1]>>
                   \/ Len(d) = 2 /\ d = <<d[1], d[2]>>
                   \/ /\ Len(d) = 3 /\ d = <<d[1], d[2], d[3]>>
                      /\ IsCargoSource(d[3]) /\ d[3] # <<>> /\ d[3] = SourceAsked(d[3])

LockAllowed(f) ==
  /\ f.format = "cargo" =>
       \A p \in f.packages : IsCargoSource(p.source) /\ \A d \in p.dependencies : IsCargoAsked(d)
  /\ f.format = "conan" => f.nodes \in Seq(Range(f.nodes))
  /\ f.format \in ByLine => f.lines \in Seq(Range(f.lines))

ASSUME LocksAssumption == \A f \in LockFiles : LockAllowed(f)

LfInit == lf \in LockFiles /\ lfAt = 1 /\ section = "" /\ recipe = <<>> /\ lfFound = NothingYet

LfNext == \/ ReadCargo \/ ReadConan \/ ReadPackagesLock \/ ReadPubspec \/ ReadPodfile
          \/ ReadPackageResolved \/ ReadRebar \/ ReadStackLock \/ ReadWorkflow
          \/ NewSection \/ ReadGem \/ ReadMixLine \/ ReadConanLine \/ EndOfLines

LfSpec == LfInit /\ [][LfNext]_lfVars

-----------------------------------------------------------------------------
(* What the files say.                                                     *)

\* A dependency on a version leads to that version, and one that is meant for
\* the package of a source to no other source's (parse_cargo_lock.go:66-80).
CargoExact ==
  lfFound.done /\ lf.format = "cargo" =>
    \A p \in lf.packages : \A q \in lf.packages :
      <<q, p>> \in lfFound.edges <=>
        \E d \in p.dependencies : /\ d[1] = q.name
                                  /\ Len(d) > 1 => d[2] = q.version
                                  /\ Len(d) > 2 => q.source # <<>> /\ \A i \in 1..2 : d[3][i] = q.source[i]

\* A relationship joins packages that are reported, unless a node without a
\* package is required; and if no two nodes are alike it is what they require.
ConanKnown ==
  lfFound.done /\ lf.format = "conan" =>
    LET refs == {lf.nodes[i].ref : i \in DOMAIN lf.nodes}
        required == UNION {lf.nodes[i].requires : i \in DOMAIN lf.nodes}
    IN  /\ (\A i \in required : i \in DOMAIN lf.nodes /\ lf.nodes[i].ref # NoPackage) =>
             lfFound.edges \subseteq lfFound.packages \X lfFound.packages
        /\ Cardinality(refs) = Cardinality(DOMAIN lf.nodes) =>
             \A i, j \in DOMAIN lf.nodes : lf.nodes[j].ref # NoPackage /\ i \in lf.nodes[j].requires =>
               <<lf.nodes[i].ref, lf.nodes[j].ref>> \in lfFound.edges

\* What every framework's entry for a package depends on is linked to it once, in
\* the version asked for if that is there, and nothing else is (parse_packages_lock.go:80-110).
LinkedOnce ==
  lfFound.done /\ lf.format = "dotnet" =>
    /\ \A v \in lfFound.packages :
         LET entries == {e[2] : e \in {e \in EntriesListed : e[1] = v[1] /\ e[2].resolved = v[2]}}
         IN  \A n \in UNION {DOMAIN e.dependencies : e \in entries} :
               LET linked == {w \in lfFound.packages : w[1] = n /\ <<v, w>> \in lfFound.edges}
                   asked == {e.dependencies[n] : e \in {e \in entries : n \in DOMAIN e.dependencies}}
               IN  /\ Cardinality(linked) <= 1
                   /\ (\A e \in entries : n \in DOMAIN e.dependencies) /\ n \in {w[1] : w \in lfFound.packages} =>
                        linked # {}
                   /\ linked # {} /\ {n} \X asked \subseteq lfFound.packages => linked \subseteq {n} \X asked
    /\ \A e \in lfFound.edges : \E x \in EntriesListed :
         x[1] = e[1][1] /\ x[2].resolved = e[1][2] /\ e[2][1] \in DOMAIN x[2].dependencies

\* What a line says is reported if the last section before it is one that counts.
SectionBefore(i) ==
  LET before == {j \in 1..(i - 1) : lf.lines[j].is = "section"}
  IN  IF before = {} THEN "" ELSE lf.lines[CHOOSE j \in before : \A k \in before : k <= j].name

LinesAccounted ==
  lfFound.done =>
    /\ lf.format = "gemfile" =>
         lfFound.packages = {[name |-> lf.lines[i].name, version |-> lf.lines[i].version] :
                               i \in {i \in DOMAIN lf.lines : /\ lf.lines[i].is = "gem" /\ lf.lines[i].version # ""
                                                             /\ SectionBefore(i) \in SectionsOfInterest}}
    /\ lf.format = "conaninfo" =>
         /\ \E main \in lfFound.packages : main.name = "main" /\ \A p \in lfFound.packages \ {main} :
                                             <<p, main>> \in lfFound.edges /\ <<main, p>> \notin lfFound.edges
         /\ \A i \in 1..LastLine : lf.lines[i].is = "reference" /\ SectionBefore(i) = "full_requires" =>
              ConanRequires(lf.lines[i].name) \in lfFound.packages
    /\ lf.format = "mix" =>
         LET entries == {i \in 1..LastLine : lf.lines[i].is = "entry"}
         IN  /\ lfFound.packages = {[name |-> lf.lines[i].name, version |-> lf.lines[i].version] : i \in entries}
             /\ lfFound.errors = 0 => Cardinality(entries) = LastLine

\* What is reported of a lock file is what it states: the links, each by all that
\* a dependency says, and the lines, each by the section it is in.
LocksRead == CargoExact /\ ConanKnown /\ LinkedOnce /\ LinesAccounted
=============================================================================
