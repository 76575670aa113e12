--------------------------- MODULE PythonPackages ---------------------------
(***************************************************************************)
(* The packages of Python's lock files, of requirements.txt and of what is *)
(* installed in site-packages: syft/pkg/cataloger/python.                  *)
(*                                                                         *)
(* Something required or provided is <<name, extra>>, the extra "" for the *)
(* package itself.  A package is [name, version, requires, variants], the  *)
(* variants [provides, requires]; an installed one has its directory too.  *)
(* What is installed has py.broken, of whether a file of some package is   *)
(* in error, and virtual environments, of which some may not be readable.  *)
(* Names are normalized already, hashes, URLs and licenses are left out.   *)
(***************************************************************************)
EXTENDS Naturals, SequencesExt

CONSTANTS PyFiles   \* each [format, ...]: see the actions

VARIABLES py,       \* what is cataloged
          pyAt,    \* the next line of a requirements.txt
          pending,  \* the line before it, when that goes on
          pyFound   \* [packages, edges, errors, done]

pyVars == <<py, pyAt, pending, pyFound>>

NothingRead == [packages |-> {}, edges |-> {}, errors |-> 0, done |-> FALSE]

-----------------------------------------------------------------------------
(* What a package requires and provides: dependency.go.                    *)

Ref(name) == <<name, "">>

\* A dependency that a marker restricts to an extra is passed over; of another,
\* the package and each extra asked for are required.
OfDependencies(deps) ==
  UNION {{Ref(d.name)} \cup {<<d.name, x>> : x \in d.extras} : d \in {d \in deps : ~d.marked}}

\* An extra is something the package provides besides itself, and needs more.
OfExtras(name, extras) ==
  {[provides |-> {<<name, x>>}, requires |-> {Ref(n) : n \in extras[x]}] : x \in DOMAIN extras}

AllProvided(p) == {Ref(p.name)} \cup UNION {v.provides : v \in p.variants}
AllRequired(p) == p.requires \cup UNION {v.requires : v \in p.variants}

\* Slip: what the extras of a package need is not looked at.
PyResolveBase(packages) ==
  {<<q, p>> \in packages \X packages : AllProvided(q) \cap p.requires # {}}

\* dependency.Resolve, for which a package requires what any of its extras does.
PyResolve(packages) ==
  {<<q, p>> \in packages \X packages : AllProvided(q) \cap AllRequired(p) # {}}

PyReading(format) == ~pyFound.done /\ py.format = format

ReportPackages(packages, edges, errors) ==
  /\ pyFound' = [packages |-> packages, edges |-> edges, errors |-> errors, done |-> TRUE]
  /\ UNCHANGED <<py, pyAt, pending>>

IfEmpty(packages) == IF packages = {} THEN 1 ELSE 0

-----------------------------------------------------------------------------
(* Lock files.                                                             *)

LockPackages(entries) ==
  {[name |-> e.name, version |-> e.version, requires |-> OfDependencies(e.dependencies),
    variants |-> OfExtras(e.name, e.extras)] : e \in entries}

ReadPoetry ==
  /\ PyReading("poetry")
  /\ ReportPackages(LockPackages(py.entries), PyResolve(LockPackages(py.entries)), IfEmpty(py.entries))

\* A later version of the format is refused; an empty file gives no packages.
ReadUv ==
  /\ PyReading("uv")
  /\ IF py.lockVersion > 1 THEN ReportPackages({}, {}, 1)
     ELSE ReportPackages(LockPackages(py.entries), PyResolve(LockPackages(py.entries)),
                         IfEmpty(py.entries))

\* Of the entries with that name and version: the one without extras, and if
\* that has no summary, or there is none, the first.
Group(name, version) ==
  SelectSeq(py.entries, LAMBDA e : e.name = name /\ e.version = version)

BaseOf(group) ==
  LET bases == SelectSeq(group, LAMBDA e : e.extras = {})
  IN  IF bases # <<>> /\ Last(bases).summary THEN Last(bases) ELSE Head(group)

PdmPackage(name, version) ==
  [name |-> name, version |-> version,
   requires |-> {Ref(n) : n \in BaseOf(Group(name, version)).dependencies},
   variants |-> {[provides |-> {<<name, x>> : x \in e.extras},
                  requires |-> {Ref(n) : n \in e.dependencies \ {name}}] :
                   e \in {e \in ToSet(Group(name, version)) : e.extras # {}}}]

ReadPdm ==
  /\ PyReading("pdm")
  /\ LET packages == {PdmPackage(e.name, e.version) : e \in ToSet(py.entries)}
     IN  ReportPackages(packages, PyResolve(packages), IfEmpty(packages))

\* What is for development is not looked at, and nothing is said of dependencies.
ReadPipfile ==
  /\ PyReading("pipfile")
  /\ ReportPackages({[name |-> n, version |-> py.default[n], requires |-> {}, variants |-> {}] :
                       n \in DOMAIN py.default}, {}, 0)

-----------------------------------------------------------------------------
(* requirements.txt.  A line is [parts, continues]; the parts of lines that *)
(* go on are put together, and what they are then is one of py.meaning:    *)
(* "nothing", "editable", "unreadable", "unpinned", or a package.          *)

AtRequirement == PyReading("requirements") /\ pyAt <= Len(py.lines)

ContinueLine ==
  /\ AtRequirement /\ py.lines[pyAt].continues
  /\ pending' = pending \o py.lines[pyAt].parts
  /\ pyAt' = pyAt + 1
  /\ UNCHANGED <<py, pyFound>>

ReadRequirement ==
  /\ AtRequirement /\ ~py.lines[pyAt].continues
  /\ LET meaning == py.meaning[pending \o py.lines[pyAt].parts]
     IN  pyFound' = CASE meaning.is \in {"nothing", "editable"} -> pyFound
                      [] meaning.is \in {"unreadable", "unpinned"} -> [pyFound EXCEPT !.errors = @ + 1]
                      [] OTHER -> [pyFound EXCEPT !.packages = @ \cup {meaning.package}]
  /\ pending' = <<>>
  /\ pyAt' = pyAt + 1
  /\ UNCHANGED py

\* What the last line would have gone on with is forgotten.
EndRequirements ==
  /\ PyReading("requirements") /\ pyAt > Len(py.lines)
  /\ ReportPackages(pyFound.packages, {}, pyFound.errors + IfEmpty(pyFound.packages))

-----------------------------------------------------------------------------
(* What is installed: wheelEggRelationships and virtual_env.go.            *)

Directories == {p.dir : p \in py.packages}

\* matchVirtualEnvSitePackagesPath: the one directory with packages within the
\* environment, if there is one.
OwnDir(venv) == IF Cardinality(venv.within \cap Directories) = 1
                  THEN CHOOSE d \in venv.within : d \in Directories ELSE ""

GlobalDirs == Directories \ {OwnDir(v) : v \in {v \in py.venvs : OwnDir(v) # ""}}

\* matchSystemPackagesPath: the one directory of the same version of Python.
SystemDir(venv) ==
  LET same == {d \in GlobalDirs : d # "" /\ py.pythonOf[d] = venv.python}
  IN  IF Cardinality(same) = 1 THEN CHOOSE d \in same : TRUE ELSE ""

\* Of packages in a directory with one name, the last one met takes part.
ByDirAndName ==
  LET keys == {<<p.dir, p.name>> : p \in py.packages}
  IN  {f \in [keys -> py.packages] : \A k \in keys : <<f[k].dir, f[k].name>> = k}

\* collectPackages: a package hides those of its name in the directories after.
Collected(chosen, own, system) ==
  {chosen[k] : k \in {k \in DOMAIN chosen :
                        k[1] = own \/ (k[1] = system /\ <<own, k[2]>> \notin DOMAIN chosen)}}

EdgesWithin(packages) ==
  {<<q, p>> \in packages \X packages : q.name \in p.dependencies}

SiteEdges(chosen) ==
  (UNION {EdgesWithin(Collected(chosen, d, d)) : d \in GlobalDirs})
  \cup UNION {EdgesWithin(Collected(chosen, OwnDir(v), IF v.system THEN SystemDir(v) ELSE OwnDir(v))) :
                v \in py.venvs}

EnvironmentsReadable == \A v \in py.venvs : v.readable

\* An error about any package leaves all without relationships, and a pyvenv.cfg
\* that cannot be read leaves no package.
FindInstalled ==
  /\ PyReading("installed")
  /\ \/ py.broken /\ ReportPackages(py.packages, {}, 1)
     \/ ~py.broken /\ ~EnvironmentsReadable /\ ReportPackages({}, {}, 1)
     \/ /\ ~py.broken /\ EnvironmentsReadable
        /\ \E chosen \in ByDirAndName : ReportPackages(py.packages, SiteEdges(chosen), 0)

-----------------------------------------------------------------------------
PyInit == py \in PyFiles /\ pyAt = 1 /\ pending = <<>> /\ pyFound = NothingRead

PyNext == \/ ReadPoetry \/ ReadUv \/ ReadPdm \/ ReadPipfile
          \/ ContinueLine \/ ReadRequirement \/ EndRequirements \/ FindInstalled

-----------------------------------------------------------------------------
(* What holds.                                                             *)

PackagesOf(n) == {p \in pyFound.packages : p.name = n}

RestsOn(p) == {q \in pyFound.packages : <<q, p>> \in pyFound.edges}

\* What a package asks for with an extra is joined to it, and what the extra
\* needs to what was asked for, so all of it is above the package in the graph
\* (dependency.go:37-60); and a relationship has an entry that says so.
ExtrasReach ==
  pyFound.done /\ py.format \in {"poetry", "uv"} /\ pyFound.packages # {} =>
    \A e \in py.entries : \A p \in PackagesOf(e.name) : p.version = e.version =>
      /\ \A d \in e.dependencies : ~d.marked =>
           /\ PackagesOf(d.name) \subseteq RestsOn(p)
           /\ \A f \in py.entries : f.name = d.name =>
                \A x \in d.extras \cap DOMAIN f.extras : \A n \in f.extras[x] :
                  PackagesOf(n) \subseteq UNION {RestsOn(q) : q \in RestsOn(p)}
      /\ \A q \in RestsOn(p) : \E f \in py.entries :
           f.name = p.name /\ f.version = p.version
           /\ q.name \in {d.name : d \in f.dependencies} \cup UNION {f.extras[x] : x \in DOMAIN f.extras}

\* Entries of one name and version are one package, which keeps what each of
\* them needs if the one without extras is first or has a summary.
EntriesMerge ==
  pyFound.done /\ py.format = "pdm" =>
    \A e \in ToSet(py.entries) :
      LET group == Group(e.name, e.version)
          bases == SelectSeq(group, LAMBDA b : b.extras = {})
          merged == {p \in PackagesOf(e.name) : p.version = e.version}
      IN  /\ Cardinality(merged) = 1
          /\ (bases = <<>> \/ (Len(bases) = 1 /\ (bases[1].summary \/ bases[1] = Head(group)))) =>
               \A p \in merged : \A n \in e.dependencies \ {e.name} : PackagesOf(n) \subseteq RestsOn(p)

\* A pinned requirement is reported, whatever lines it is broken into, unless
\* the file ends within it; any other that is read to its end is an error.
RECURSIVE JoinedLines(_, _)
JoinedLines(lines, before) ==
  IF lines = <<>> THEN <<>>
  ELSE LET parts == before \o Head(lines).parts
       IN  IF Head(lines).continues THEN JoinedLines(Tail(lines), parts)
           ELSE <<py.meaning[parts]>> \o JoinedLines(Tail(lines), <<>>)

RequirementsAccounted ==
  pyFound.done /\ py.format = "requirements" =>
    LET all == JoinedLines(py.lines, <<>>)
        pinned == {i \in DOMAIN all : all[i].is = "package"}
        bad == {i \in DOMAIN all : all[i].is \in {"unreadable", "unpinned"}}
    IN  /\ pyFound.packages = {all[i].package : i \in pinned}
        /\ (pyFound.errors > 0) = (bad # {} \/ pinned = {})

\* A relationship joins packages that are seen from one place, a directory for
\* all or an environment, where a package of an environment hides those of its
\* name for all; and what sees each other and needs each other is joined, if no
\* two packages of one name share a directory and nothing was in error.  Packages
\* that were read are lost only with an error, which an environment is the cause of.
SeenTogether(q, p) ==
  \/ q.dir = p.dir
  \/ \E v \in py.venvs :
       /\ v.system
       /\ \A x \in {q, p} :
            \/ x.dir = OwnDir(v)
            \/ x.dir = SystemDir(v) /\ \A y \in py.packages : y.dir = OwnDir(v) => y.name # x.name

OnePerName == \A x, y \in py.packages : x.dir = y.dir /\ x.name = y.name => x = y

EnvironmentsApart ==
  pyFound.done /\ py.format = "installed" =>
    /\ \A e \in pyFound.edges : e[1].name \in e[2].dependencies /\ SeenTogether(e[1], e[2])
    /\ OnePerName /\ EnvironmentsReadable /\ ~py.broken =>
         \A q, p \in py.packages : q.name \in p.dependencies /\ SeenTogether(q, p) =>
           <<q, p>> \in pyFound.edges
    /\ pyFound.packages # py.packages => pyFound.errors > 0 /\ ~EnvironmentsReadable

PythonLocked == ExtrasReach /\ EntriesMerge /\ RequirementsAccounted /\ EnvironmentsApart
=============================================================================
