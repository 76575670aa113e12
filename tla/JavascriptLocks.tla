--------------------------- MODULE JavascriptLocks --------------------------
(***************************************************************************)
(* The packages of package-lock.json, pnpm-lock.yaml and yarn.lock:        *)
(* syft/pkg/cataloger/javascript.                                          *)
(*                                                                         *)
(* A name is <<scope, base>>, the scope "" for most.  A package is         *)
(* [name, version, dependencies]: in its ID there are also URLs, hashes    *)
(* and licenses, which depend on name and version alone and are left out.  *)
(* A dependency is [name, alias], the alias NoName unless its version is   *)
(* "npm:" and another name.  Versions of dependencies, which nothing       *)
(* compares, are left out, and so are files that cannot be decoded.        *)
(***************************************************************************)
EXTENDS SequencesExt

CONSTANTS JsLocks  \* each [format, within, includeDev, entries], for yarn
                   \* prod and dev also, the names package.json asks for

VARIABLES js,       \* the lock file
          line,     \* the next line of a yarn.lock of version 1
          entry,    \* [name, version, dependencies] read so far
          read,     \* what has been read, <<>> or a sequence of entries
          jsFound   \* [packages, edges, error], the error "reading" at first

jsVars == <<js, line, entry, read, jsFound>>

NoName == <<"", "">>
Unread == [packages |-> {}, edges |-> {}, error |-> "reading"]

-----------------------------------------------------------------------------
(* Who depends on whom: internal/dependency/resolver.go.                   *)

\* dependency.go: what a package of that format requires.  The canonical name
\* of an alias is formatted as namespace/name, and an unscoped one has no
\* namespace.
FullName(name) == IF name[1] = "" THEN <<"/", name[2]>> ELSE name

RequiredByNpm(p) ==
  {d.name : d \in p.dependencies}
    \cup {FullName(d.alias) : d \in {x \in p.dependencies : x.alias # NoName}}

RequiredByOthers(p) == {d.name : d \in p.dependencies}

JsResolve(packages) ==
  {<<q, p>> \in packages \X packages :
     q.name \in IF js.format = "npm" THEN RequiredByNpm(p) ELSE RequiredByOthers(p)}

Report(packages) ==
  jsFound' = [packages |-> packages, edges |-> JsResolve(packages),
              error |-> IF packages = {} THEN "unable to determine packages" ELSE "none"]

\* Lock files of packages that are installed are passed over.
Installed ==
  /\ jsFound = Unread
  /\ js.within /\ js.format # "pnpm"
  /\ jsFound' = [packages |-> {}, edges |-> {}, error |-> "none"]
  /\ UNCHANGED <<js, line, entry, read>>

JsReading(format) == jsFound = Unread /\ js.format = format /\ (js.within => format = "pnpm")

-----------------------------------------------------------------------------
(* package-lock.json.  In version 1 an entry has a name and maybe an alias,*)
(* and what it depends on is not read; in versions 2 and 3 it has a path   *)
(* and maybe a name.                                                       *)

V1Package(e) == [name |-> IF e.alias # NoName THEN e.alias ELSE e.name,
                 version |-> e.version, dependencies |-> {}]

\* Slip: a name of its own is not looked at, except in the root.
V2PackageByPath(e) == [name |-> IF e.path = <<>> THEN e.name ELSE Last(e.path),
                       version |-> e.version, dependencies |-> e.dependencies]

V2Package(e) == [name |-> IF e.name # NoName THEN e.name ELSE Last(e.path),
                 version |-> e.version, dependencies |-> e.dependencies]

Skipped(e) == e.dev /\ ~js.includeDev

ReadPackageLock ==
  /\ JsReading("npm")
  /\ Report(CASE js.lockfileVersion = 1 -> {V1Package(e) : e \in {x \in js.entries : ~Skipped(x)}}
              [] js.lockfileVersion \in {2, 3} ->
                   {V2Package(e) : e \in {x \in js.entries : ~Skipped(x) /\
                                                             (x.path # <<>> \/ x.name # NoName)}}
              [] OTHER -> {})
  /\ UNCHANGED <<js, line, entry, read>>

-----------------------------------------------------------------------------
(* pnpm-lock.yaml.  What an entry's key has after a parenthesis, the peers *)
(* it was installed with, is cut off, and of entries alike then the last   *)
(* one visited is kept.                                                    *)

Keys(entries) == {<<e.name, e.version>> : e \in entries}

\* One entry of each key.
Kept(entries) ==
  {f \in [Keys(entries) -> entries] : \A k \in Keys(entries) : <<f[k].name, f[k].version>> = k}

PlainEntry(e) == [name |-> e.name, version |-> e.version, dependencies |-> e.dependencies]

\* pnpmV6LockYaml: the direct dependencies, over which the packages are laid.
V6Packages(kept) ==
  {PlainEntry(kept[k]) : k \in {x \in DOMAIN kept : ~Skipped(kept[x])}}
    \cup {[name |-> k[1], version |-> k[2], dependencies |-> {}] : k \in js.direct \ DOMAIN kept}

\* pnpmV9LockYaml: the packages, to which the snapshots add what they depend on.
V9Packages(kept) ==
  {[name |-> e.name, version |-> e.version,
    dependencies |-> IF <<e.name, e.version>> \in DOMAIN kept
                       THEN kept[<<e.name, e.version>>].dependencies ELSE {}] :
     e \in {x \in js.entries : ~Skipped(x)}}

ReadPnpm6 ==
  /\ JsReading("pnpm") /\ js.lockfileVersion < 9
  /\ \E kept \in Kept(js.entries) : Report(V6Packages(kept))
  /\ UNCHANGED <<js, line, entry, read>>

ReadPnpm9 ==
  /\ JsReading("pnpm") /\ js.lockfileVersion >= 9
  /\ \E kept \in Kept(js.snapshots) : Report(V9Packages(kept))
  /\ UNCHANGED <<js, line, entry, read>>

-----------------------------------------------------------------------------
(* yarn.lock.                                                              *)

Blank == [kind |-> "blank"]

\* An entry of version 1 as it is written: its key, its fields, a blank line.
LinesOf(e) ==
  <<[kind |-> "key", name |-> e.key], [kind |-> "version", version |-> e.version]>>
    \o (IF e.resolved = NoName THEN <<>>
        ELSE <<[kind |-> "resolved", name |-> e.resolved, version |-> e.version]>>)
    \o SetToSeq({[kind |-> "dependency", dependency |-> d] : d \in e.dependencies})
    \o <<Blank>>

Lines == FlattenSeq([i \in DOMAIN js.entries |-> LinesOf(js.entries[i])])

NoEntry == [name |-> NoName, version |-> "", dependencies |-> {}]

Seen == {<<p.name, p.version>> : p \in ToSet(read)}

Complete == entry.name # NoName /\ <<entry.name, entry.version>> \notin Seen

YarnLine(kind) == JsReading("yarn1") /\ line <= Len(Lines) /\ Lines[line].kind = kind

EndEntry ==
  /\ YarnLine("blank") /\ Complete
  /\ read' = Append(read, entry)
  /\ entry' = NoEntry
  /\ line' = line + 1
  /\ UNCHANGED <<js, jsFound>>

\* A line that is not indented names the entry; so does the blank one after an
\* entry that is there already, and nothing but the name is reset.
NameEntry ==
  /\ \/ YarnLine("key") /\ entry' = [entry EXCEPT !.name = Lines[line].name]
     \/ YarnLine("blank") /\ ~Complete /\ entry' = [entry EXCEPT !.name = NoName]
  /\ line' = line + 1
  /\ UNCHANGED <<js, read, jsFound>>

\* The URL of a registry has the name that counts.
ReadField ==
  /\ \/ /\ YarnLine("version")
        /\ entry' = [entry EXCEPT !.version = Lines[line].version]
     \/ /\ YarnLine("resolved")
        /\ entry' = [entry EXCEPT !.name = Lines[line].name, !.version = Lines[line].version]
     \/ /\ YarnLine("dependency")
        /\ entry' = [entry EXCEPT !.dependencies = @ \cup {Lines[line].dependency}]
  /\ line' = line + 1
  /\ UNCHANGED <<js, read, jsFound>>

\* findReachable: breadth first.
RECURSIVE Reachable(_, _, _)
Reachable(names, visited, byName) ==
  IF names \subseteq visited THEN visited
  ELSE Reachable(UNION {{d.name : d \in byName[n].dependencies} :
                          n \in (names \ visited) \cap DOMAIN byName},
                 visited \cup names, byName)

\* findDevOnlyPkgs.  Of several versions the last one is looked at.
ByName(entries) ==
  [n \in {e.name : e \in ToSet(entries)} |-> Last(SelectSeq(entries, LAMBDA e : e.name = n))]

DevOnly(entries) ==
  Reachable(js.dev, {}, ByName(entries)) \ Reachable(js.prod, {}, ByName(entries))

YarnPackages(entries) == {e \in ToSet(entries) : js.includeDev \/ e.name \notin DevOnly(entries)}

EndYarn1 ==
  /\ JsReading("yarn1") /\ line > Len(Lines)
  /\ Report(YarnPackages(IF Complete THEN Append(read, entry) ELSE read))
  /\ UNCHANGED <<js, line, entry, read>>

\* Later versions: a map by name, so of several versions the last one visited.
YarnNames == {e.key : e \in ToSet(js.entries)} \ {NoName}

ReadYarn2 ==
  /\ JsReading("yarn2")
  /\ \E kept \in {f \in [YarnNames -> ToSet(js.entries)] : \A n \in YarnNames : f[n].key = n} :
       Report(YarnPackages(SetToSeq({[name |-> n, version |-> kept[n].version,
                                      dependencies |-> kept[n].dependencies] : n \in YarnNames})))
  /\ UNCHANGED <<js, line, entry, read>>

-----------------------------------------------------------------------------
JsInit ==
  /\ js \in JsLocks
  /\ line = 1
  /\ entry = NoEntry
  /\ read = <<>>
  /\ jsFound = Unread

JsNext == \/ Installed \/ ReadPackageLock \/ ReadPnpm6 \/ ReadPnpm9
          \/ EndEntry \/ NameEntry \/ ReadField \/ EndYarn1 \/ ReadYarn2

-----------------------------------------------------------------------------
(* What the lock file says.                                                *)

IsYarn == js.format \in {"yarn1", "yarn2"}

\* The name an entry stands for.
NameOf(e) ==
  CASE js.format = "npm" /\ js.lockfileVersion = 1 -> IF e.alias = NoName THEN e.name ELSE e.alias
    [] js.format = "npm" -> IF e.name = NoName /\ e.path # <<>> THEN Last(e.path) ELSE e.name
    [] js.format = "yarn1" -> IF e.resolved = NoName THEN e.key ELSE e.resolved
    [] js.format = "yarn2" -> e.key
    [] OTHER -> e.name

Entries == {e \in IF IsYarn THEN ToSet(js.entries) ELSE js.entries : NameOf(e) # NoName}

Locked(e) == <<NameOf(e), e.version>>

\* No name has two versions, and no entry stands for a package another stands for.
OneOfEach ==
  /\ \A e, f \in Entries : e # f => NameOf(e) # NameOf(f)
  /\ IsYarn => Cardinality(Entries) = Len(js.entries)

\* Production needs n: n is in every set of names that has what package.json
\* asks for and what its members depend on.
Needed(n) ==
  \A s \in SUBSET ({NameOf(e) : e \in Entries} \cup js.prod \cup {n}) :
    (js.prod \subseteq s /\
     \A e \in Entries : NameOf(e) \in s =>
       \A d \in e.dependencies : d.name \in {NameOf(f) : f \in Entries} => d.name \in s) => n \in s

DirectOnes == IF js.format = "pnpm" /\ js.lockfileVersion < 9 THEN js.direct ELSE {}

Done == jsFound # Unread /\ ~(js.within /\ js.format # "pnpm")

\* What is reported is in the lock file, and what is in the lock file and not
\* for development alone is reported; of the formats that are read into a map by
\* name, some version of it.  What production needs is not taken for a tool of
\* development, if names have one version each (parse_yarn_lock.go:149-166).
NothingLost ==
  Done =>
    LET reported == {<<p.name, p.version>> : p \in jsFound.packages}
        known == \/ js.format = "pnpm" \/ IsYarn \/ js.lockfileVersion \in 1..3
    IN  /\ reported \subseteq {Locked(e) : e \in Entries} \cup DirectOnes
        /\ (js.format \in {"npm", "pnpm"} /\ known) =>
             {Locked(e) : e \in {x \in Entries : js.includeDev \/ ~x.dev}} \subseteq reported
        /\ (js.format = "yarn1" /\ js.includeDev) => {Locked(e) : e \in Entries} \subseteq reported
        /\ js.format = "yarn2" /\ js.includeDev =>
             {NameOf(e) : e \in Entries} = {p.name : p \in jsFound.packages}
        /\ IsYarn /\ OneOfEach =>
             {n \in {NameOf(e) : e \in Entries} : Needed(n)} \subseteq {p.name : p \in jsFound.packages}

\* A package depends on those reported whose names its entry asks for, on no
\* others, and on all versions of them; an entry that repeats a package is not
\* to be there (parse_yarn_lock.go:188-202 gives its dependencies to the next).
EdgesAsLocked ==
  Done /\ ~(js.format = "npm" /\ js.lockfileVersion = 1) /\ (js.format = "yarn1" => OneOfEach) =>
    \A p, q \in jsFound.packages :
      LET asks == {e \in IF js.format = "pnpm" /\ js.lockfileVersion >= 9 THEN js.snapshots
                         ELSE Entries : (IF js.format = "pnpm" THEN e.name ELSE NameOf(e)) = p.name
                                        /\ e.version = p.version}
          names(e) == {d.name : d \in e.dependencies}
                        \cup {d.alias : d \in {x \in e.dependencies : x.alias # NoName /\ x.alias[1] # ""
                                                                     /\ js.format = "npm"}}
      IN  /\ <<q, p>> \in jsFound.edges => \E e \in asks : q.name \in names(e)
          /\ (\A e \in asks : q.name \in names(e)) /\ asks # {} => <<q, p>> \in jsFound.edges

JsLocked == NothingLost /\ EdgesAsLocked
=============================================================================
