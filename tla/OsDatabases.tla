----------------------------- MODULE OsDatabases ----------------------------
(***************************************************************************)
(* The databases of package managers: dpkg, apk, rpm, alpm and portage.    *)
(* syft/pkg/cataloger/debian, alpine, redhat, arch and gentoo.             *)
(*                                                                         *)
(* dpkg's and apk's are read line by line.  A package is reported as       *)
(* [name, version, provides, requires, files], a file as [path, from].     *)
(* Sizes, digests, signatures and the texts of licenses are left out, and  *)
(* of what a package provides or requires the versions.                    *)
(***************************************************************************)
EXTENDS Naturals, SequencesExt

CONSTANTS Databases   \* each [manager, ...]: see the actions

VARIABLES db,         \* the database
          dbAt,       \* the next line
          dbFields,   \* the fields of the entry so far: dpkgFields, currentEntry
          dbKey,      \* dpkg: the field a continuation belongs to
          fileCtx,    \* apk: fileParsingContext
          dbFound     \* [packages, edges, errors, status]

dbVars == <<db, dbAt, dbFields, dbKey, fileCtx, dbFound>>

NoFields == <<>>
NewContext == [files |-> <<>>, dir |-> 0, regular |-> 0]
NothingFound == [packages |-> {}, edges |-> {}, errors |-> 0, status |-> "reading"]

DbReading(manager) == db.manager = manager /\ dbFound.status = "reading"

DbEnd(packages, edges, errors) ==
  /\ dbFound' = [packages |-> packages, edges |-> edges, errors |-> errors, status |-> "read"]
  /\ UNCHANGED <<db, dbAt, dbFields, dbKey, fileCtx>>

\* dependency.Resolve.  The other parsers have no processor.
DbResolve(packages) ==
  {<<q, p>> \in packages \X packages : q.provides \cap p.requires # {}}

FieldOr(name, default) == IF name \in DOMAIN dbFields THEN dbFields[name] ELSE default

-----------------------------------------------------------------------------
(* dpkg.  A line is blank, unreadable, a continuation or a field; a last    *)
(* line that does not end is not seen.  A value is a sequence of words.    *)

DpkgLast == IF db.cut THEN Len(db.lines) - 1 ELSE Len(db.lines)

AtDpkg(is) == DbReading("dpkg") /\ dbAt <= DpkgLast /\ db.lines[dbAt].is = is

DbNext == dbAt' = dbAt + 1 /\ UNCHANGED <<db, fileCtx>>

Spoiled == [NothingFound EXCEPT !.errors = 1, !.status = "read"]

\* handleNewKeyValue, and the duplicate that spoils the whole database.
ReadDpkgField ==
  /\ AtDpkg("field")
  /\ dbKey' = db.lines[dbAt].key
  /\ IF dbKey' \in DOMAIN dbFields
       THEN dbFound' = Spoiled /\ UNCHANGED dbFields
       ELSE /\ dbFields' = [k \in DOMAIN dbFields \cup {dbKey'} |->
                            IF k = dbKey' THEN db.lines[dbAt].value ELSE dbFields[k]]
            /\ UNCHANGED dbFound
  /\ DbNext

SkipUnreadable ==
  /\ AtDpkg("unreadable")
  /\ dbKey' = ""
  /\ UNCHANGED <<dbFields, dbFound>>
  /\ DbNext

ReadContinuation ==
  /\ AtDpkg("continuation")
  /\ IF dbKey = "" THEN dbFound' = Spoiled /\ UNCHANGED dbFields
     ELSE /\ dbFields' = [dbFields EXCEPT ![dbKey] = @ \o db.lines[dbAt].value]
          /\ UNCHANGED dbFound
  /\ UNCHANGED dbKey
  /\ DbNext

\* md5Key
ListKey(name, arch) == IF arch \in {"", "all"} THEN <<name, "">> ELSE <<name, arch>>

\* fetchMd5Contents and fetchConffileContents: the list of the architecture, or
\* the one of all.
ListOf(lists, name, arch) ==
  IF ListKey(name, arch) \in DOMAIN lists THEN lists[ListKey(name, arch)]
  ELSE IF <<name, "">> \in DOMAIN lists THEN lists[<<name, "">>] ELSE <<>>

Tagged(paths, from) == [n \in DOMAIN paths |-> [path |-> paths[n], from |-> from]]

\* Slip: what is listed twice is there twice.
MergeListingAll(files, new) == files \o new

\* mergeFileListing: what is there already stays as it is.
MergeListing(files, new) ==
  FoldLeft(LAMBDA fs, f : IF \E n \in DOMAIN fs : fs[n].path = f.path THEN fs ELSE Append(fs, f),
           files, new)

WordOf(name) == IF FieldOr(name, <<>>) = <<>> THEN "" ELSE FieldOr(name, <<>>)[1]

DpkgFiles ==
  MergeListing(Tagged(FieldOr("Conffiles", <<>>), "status"),
               Tagged(ListOf(db.md5sums, WordOf("Package"), WordOf("Architecture")), "md5sums")
                 \o Tagged(ListOf(db.conffiles, WordOf("Package"), WordOf("Architecture")), "conffiles"))

\* A package that is not installed any more, or has no name, is none.
DpkgPackages ==
  IF "deinstall" \in ToSet(FieldOr("Status", <<>>)) \/ WordOf("Package") = "" THEN {}
  ELSE {[name |-> WordOf("Package"), version |-> WordOf("Version"),
         provides |-> {WordOf("Package")} \cup ToSet(FieldOr("Provides", <<>>)),
         requires |-> ToSet(FieldOr("Depends", <<>>)) \cup ToSet(FieldOr("PreDepends", <<>>)),
         files |-> DpkgFiles]}

\* A blank line ends an entry if there is one.
EndDpkgEntry ==
  /\ AtDpkg("blank")
  /\ IF dbFields = NoFields THEN UNCHANGED <<dbFields, dbKey, dbFound>>
     ELSE /\ dbFound' = [dbFound EXCEPT !.packages = @ \cup DpkgPackages]
          /\ dbFields' = NoFields
          /\ dbKey' = ""
  /\ DbNext

EndDpkg ==
  /\ DbReading("dpkg") /\ dbAt > DpkgLast
  /\ LET packages == dbFound.packages \cup IF dbFields = NoFields THEN {} ELSE DpkgPackages
     IN  DbEnd(packages, DbResolve(packages), IF packages = {} THEN 1 ELSE 0)

\* A .deb archive: its control, without which it is none, and its data, an error in
\* either of which is reported, except of data that is torn once decompressed.
ReadDebArchive ==
  /\ DbReading("deb")
  /\ IF "broken" \in {db.ar, db.control, db.data} \/ db.control = "missing" THEN DbEnd({}, {}, 1)
     ELSE DbEnd({[name |-> db.name, version |-> db.version, provides |-> {}, requires |-> {},
                  files |-> [n \in DOMAIN db.md5 |->
                               [path |-> db.md5[n],
                                from |-> IF db.md5[n] \in db.conf THEN "conffiles" ELSE "md5sums"]]]},
                {}, 0)

-----------------------------------------------------------------------------
(* apk.  A line has a name and a value; F names a directory, R a file in    *)
(* the latest one, M and a say who owns what was named last.               *)

AtApk == DbReading("apk") /\ dbAt <= Len(db.lines)

ApkLine == db.lines[dbAt]

ApkPackage ==
  [name |-> WordOf("P"), version |-> WordOf("V"),
   provides |-> {WordOf("P")} \cup ToSet(FieldOr("p", <<>>)), requires |-> ToSet(FieldOr("D", <<>>)),
   files |-> fileCtx.files]

\* appendApk
EndApkEntry ==
  /\ AtApk /\ ApkLine.is = "blank"
  /\ IF dbFields = NoFields THEN UNCHANGED <<dbFound, fileCtx>>
     ELSE /\ dbFound' = [dbFound EXCEPT !.packages = @ \cup {ApkPackage}]
          /\ fileCtx' = IF fileCtx.files = <<>> THEN fileCtx ELSE NewContext
  /\ dbFields' = NoFields
  /\ dbAt' = dbAt + 1
  /\ UNCHANGED <<db, dbKey>>

\* What is no field is an error, a field without a value nothing.
SkipApkLine ==
  /\ AtApk /\ ApkLine.is \in {"unreadable", "empty"}
  /\ dbFound' = IF ApkLine.is = "empty" THEN dbFound ELSE [dbFound EXCEPT !.errors = @ + 1]
  /\ dbAt' = dbAt + 1
  /\ UNCHANGED <<db, dbFields, dbKey, fileCtx>>

WithField(name, value) == [k \in DOMAIN dbFields \cup {name} |-> IF k = name THEN value ELSE dbFields[k]]

ReadApkField ==
  /\ AtApk /\ ApkLine.is = "field"
  /\ dbFields' = WithField(ApkLine.key, ApkLine.value)
  /\ dbAt' = dbAt + 1
  /\ UNCHANGED <<db, dbKey, fileCtx, dbFound>>

\* A file is [path: <<directory, name>>, from: who owns it].
ReadApkFile ==
  /\ AtApk /\ ApkLine.is \in {"F", "R"}
  /\ LET dir == IF fileCtx.dir = 0 THEN "/" ELSE fileCtx.files[fileCtx.dir].path[1]
         n == Len(fileCtx.files) + 1
     IN  fileCtx' = IF ApkLine.is = "F"
                      THEN [files |-> Append(fileCtx.files, [path |-> <<ApkLine.value, "">>, from |-> ""]),
                            dir |-> n, regular |-> fileCtx.regular]
                      ELSE [files |-> Append(fileCtx.files, [path |-> <<dir, ApkLine.value>>, from |-> ""]),
                            dir |-> fileCtx.dir, regular |-> n]
  /\ dbFields' = WithField(ApkLine.is, <<>>)
  /\ dbAt' = dbAt + 1
  /\ UNCHANGED <<db, dbKey, dbFound>>

\* An owner of nothing is an index out of range, and the end of the cataloger.
ReadApkOwner ==
  /\ AtApk /\ ApkLine.is \in {"M", "a"}
  /\ LET n == IF ApkLine.is = "M" THEN fileCtx.dir ELSE fileCtx.regular
     IN  IF n = 0
           THEN /\ dbFound' = [NothingFound EXCEPT !.status = "panicked"]
                /\ UNCHANGED fileCtx
           ELSE /\ fileCtx' = [fileCtx EXCEPT !.files[n].from = ApkLine.value]
                /\ UNCHANGED dbFound
  /\ dbFields' = WithField(ApkLine.is, <<>>)
  /\ dbAt' = dbAt + 1
  /\ UNCHANGED <<db, dbKey>>

EndApk ==
  /\ DbReading("apk") /\ dbAt > Len(db.lines)
  /\ LET packages == dbFound.packages \cup IF dbFields = NoFields THEN {} ELSE {ApkPackage}
     IN  DbEnd(packages, DbResolve(packages), dbFound.errors)

-----------------------------------------------------------------------------
(* rpm.  Files that are not in the image are not listed; what begins with a *)
(* parenthesis (boolean dependencies) is not looked at.                    *)

RpmPackage(e) ==
  LET files == IF e.filesReadable THEN e.files \cap db.present ELSE {}
  IN  [name |-> e.name, version |-> e.version,
       provides |-> {e.name} \cup (e.provides \ db.boolean) \cup files,
       requires |-> e.requires \ db.boolean, files |-> SetToSeq(files)]

\* denySelfReferences
NotSelf(edges) == {e \in edges : e[1] # e[2]}

ReadRpm ==
  /\ DbReading("rpm")
  /\ LET packages == {RpmPackage(e) : e \in {e \in db.entries : e.name # ""}}
         errors == Cardinality({e \in db.entries : ~e.filesReadable})
                     + Cardinality({e \in db.entries : e.name = ""})
     IN  DbEnd(packages, NotSelf(DbResolve(packages)),
               IF errors > 0 THEN errors ELSE IF packages = {} THEN 1 ELSE 0)

-----------------------------------------------------------------------------
(* alpm: a directory for each package, with its description, its mtree and  *)
(* its files.  What is missing beside the description is an error, and the *)
(* package is reported.                                                    *)

AlpmFiles(d) == IF d.mtree = "read" THEN Tagged(d.listed, "mtree") ELSE <<>>

AlpmPackage(d) ==
  [name |-> d.name, version |-> d.version, provides |-> {d.name} \cup d.provides,
   requires |-> d.requires, files |-> AlpmFiles(d)]

ReadAlpm ==
  /\ DbReading("alpm")
  /\ LET read == {d \in db.dirs : d.desc = "read"}
         packages == {AlpmPackage(d) : d \in {d \in read : d.name # ""}}
     IN  DbEnd(packages, DbResolve(packages),
               Cardinality({d \in db.dirs : d.desc = "bad"})
                 + Cardinality({d \in read : d.mtree # "read"})
                 + Cardinality({d \in read : d.files # "read"}))

-----------------------------------------------------------------------------
(* portage: the licenses of a package are words, of which some are groups; a*)
(* group has licenses and groups.  One that is in itself, or has one that  *)
(* is not there, spoils them all.                                          *)

RECURSIVE Expand(_, _)
Expand(group, visited) ==
  LET items == db.groups[group]
      parts == {IF i \notin db.names THEN {i}
                ELSE IF i \notin DOMAIN db.groups \/ i \in visited \cup {group} THEN {"spoiled"}
                ELSE Expand(i, visited \cup {group}) : i \in items}
  IN  IF {"spoiled"} \in parts THEN {"spoiled"} ELSE UNION parts

ExpandedGroups == [g \in DOMAIN db.groups |-> Expand(g, {})]

\* replaceLicenseGroups
ReplaceGroups(licenses) ==
  IF {"spoiled"} \in {ExpandedGroups[g] : g \in DOMAIN db.groups} THEN licenses
  ELSE UNION {IF l \in DOMAIN db.groups THEN ExpandedGroups[l] ELSE {l} : l \in licenses}

ReadPortage ==
  /\ DbReading("portage")
  /\ IF db.name = "" THEN DbEnd({}, {}, 1)
     ELSE DbEnd({[name |-> db.name, version |-> "1", provides |-> {}, requires |-> {},
                  files |-> Tagged(SetToSeq(ReplaceGroups(db.licenses)), "license")]}, {}, 0)

-----------------------------------------------------------------------------
DbInit == /\ db \in Databases
          /\ dbAt = 1
          /\ dbFields = NoFields
          /\ dbKey = ""
          /\ fileCtx = NewContext
          /\ dbFound = NothingFound

DbStep == \/ ReadDpkgField \/ SkipUnreadable \/ ReadContinuation \/ EndDpkgEntry \/ EndDpkg
          \/ ReadDebArchive \/ EndApkEntry \/ SkipApkLine \/ ReadApkField \/ ReadApkFile
          \/ ReadApkOwner \/ EndApk \/ ReadRpm \/ ReadAlpm \/ ReadPortage

-----------------------------------------------------------------------------
(* What the databases say.                                                 *)

IsRead(manager) == db.manager = manager /\ dbFound.status = "read"

\* The entries: lines between blank ones.
Stretch(i, j, last) ==
  /\ \A n \in i..j : db.lines[n].is # "blank"
  /\ i = 1 \/ db.lines[i - 1].is = "blank"
  /\ j = last \/ db.lines[j + 1].is = "blank"

Stretches(last) == {x \in (1..last) \X (1..last) : x[1] <= x[2] /\ Stretch(x[1], x[2], last)}

FieldIn(x, k) == {n \in x[1]..x[2] : db.lines[n].is = "field" /\ db.lines[n].key = k}

\* A continuation with nothing to continue, or a field twice.
Bad(x) ==
  \/ \E n \in x[1]..x[2] : /\ db.lines[n].is = "continuation"
                           /\ n = x[1] \/ db.lines[n - 1].is = "unreadable"
  \/ \E n, m \in x[1]..x[2] : n # m /\ db.lines[n].is = "field" /\ db.lines[m].is = "field"
                                /\ db.lines[n].key = db.lines[m].key

ValueIn(x, k) ==
  IF FieldIn(x, k) = {} THEN <<>>
  ELSE LET n == CHOOSE n \in FieldIn(x, k) : TRUE
           after == {m \in n..x[2] : \A o \in (n + 1)..m : db.lines[o].is = "continuation"}
       IN  FlattenSeq([m \in 1..Cardinality(after) |-> db.lines[n + m - 1].value])

InstalledEntry(x) == /\ "deinstall" \notin ToSet(ValueIn(x, "Status"))
                     /\ ValueIn(x, "Package") # <<>>

\* Each entry of a package that is installed is reported, with each path once,
\* listed for its architecture or for all; one bad entry, and nothing is
\* (parse_dpkg_db.go:87-93, package.go:142-171).
DpkgRead ==
  IsRead("dpkg") =>
    LET entries == Stretches(DpkgLast)
    IN  IF \E x \in entries : Bad(x) THEN dbFound.packages = {} /\ dbFound.errors = 1
        ELSE /\ {<<p.name, p.version>> : p \in dbFound.packages}
                  = {<<ValueIn(x, "Package")[1],
                       IF ValueIn(x, "Version") = <<>> THEN "" ELSE ValueIn(x, "Version")[1]>> :
                       x \in {x \in entries : InstalledEntry(x)}}
             /\ \A p \in dbFound.packages :
                  /\ \A m, n \in DOMAIN p.files : p.files[m].path = p.files[n].path => m = n
                  /\ \E x \in entries :
                       LET arch == IF ValueIn(x, "Architecture") = <<>> THEN "" ELSE ValueIn(x, "Architecture")[1]
                           has(lists) == ToSet(ListOf(lists, p.name, arch))
                           own == ToSet(ValueIn(x, "Conffiles"))
                       IN  /\ InstalledEntry(x) /\ ValueIn(x, "Package")[1] = p.name
                           /\ {f.path : f \in ToSet(p.files)} = own \cup has(db.md5sums) \cup has(db.conffiles)
                           /\ \A f \in ToSet(p.files) : f.path \in own <=> f.from = "status"

\* The files of a package are those of its entry, each in the directory named
\* before it there, or in the root (parse_apk_db.go:51-58, :263-293).
ApkOwn ==
  IsRead("apk") =>
    \A x \in Stretches(Len(db.lines)) :
      LET lines(is) == {n \in x[1]..x[2] : db.lines[n].is = is}
          before(n) == {m \in lines("F") : m < n}
          dir(n) == IF before(n) = {} THEN "/"
                    ELSE db.lines[CHOOSE m \in before(n) : \A o \in before(n) : o <= m].value
          owners(n, is, ends) == {db.lines[m].value : m \in {m \in lines(is) : m > n /\ \A o \in (n + 1)..m : db.lines[o].is # ends}}
          paths == {<<db.lines[n].value, "">> : n \in lines("F")} \cup {<<dir(n), db.lines[n].value>> : n \in lines("R")}
      IN  (\E n \in x[1]..x[2] : db.lines[n].is \notin {"unreadable", "empty"}) =>
            \E p \in dbFound.packages :
              /\ Len(p.files) = Cardinality(lines("F")) + Cardinality(lines("R"))
              /\ {f.path : f \in ToSet(p.files)} = paths
              /\ \A n \in lines("R") : \A o \in owners(n, "a", "R") :
                   \E f \in ToSet(p.files) : f.path = <<dir(n), db.lines[n].value>> /\ f.from # ""

\* An owner is taken for an index without a look whether something was named
\* before it in the entry (parse_apk_db.go:268-270, :294-296).
ApkPanics ==
  db.manager = "apk" /\ dbFound.status # "reading" =>
    (dbFound.status = "panicked") =
      (\E x \in Stretches(Len(db.lines)) : \E n \in x[1]..x[2] :
         \/ db.lines[n].is = "M" /\ \A m \in x[1]..n : db.lines[m].is # "F"
         \/ db.lines[n].is = "a" /\ \A m \in x[1]..n : db.lines[m].is # "R")

\* What an rpm needs leads to every other package that provides it, or has it
\* among its files, and never to itself (cataloger.go:25-38).
RpmLinked ==
  IsRead("rpm") =>
    \A e, f \in db.entries : e.name # "" /\ f.name # "" =>
      (<<RpmPackage(f), RpmPackage(e)>> \in dbFound.edges
        <=> /\ RpmPackage(e) # RpmPackage(f)
            /\ \E r \in e.requires : r \notin db.boolean
                 /\ r \in {f.name} \cup f.provides \cup (IF f.filesReadable THEN f.files \cap db.present ELSE {}))

\* A package of alpm is reported whatever is missing beside its description,
\* and what is missing is an error (parse_alpm_db.go:62-73).
AlpmAccounted ==
  IsRead("alpm") =>
    /\ {p.name : p \in dbFound.packages} = {d.name : d \in {d \in db.dirs : d.desc = "read"}} \ {""}
    /\ \A d \in db.dirs : d.desc = "bad" \/ (d.desc = "read" /\ {d.mtree, d.files} # {"read"})
                           => dbFound.errors > 0

\* No group is left in the licenses unless the groups are bad, and then they
\* are as they were; a license is there if a group leads to it (license.go:194-248).
Leads(from, to) ==
  \A s \in SUBSET (from \cup {to} \cup UNION {db.groups[g] : g \in DOMAIN db.groups}) :
    (from \subseteq s /\ \A g \in s \cap DOMAIN db.groups : db.groups[g] \subseteq s) => to \in s

LicensesExpanded ==
  IsRead("portage") /\ db.name # "" =>
    LET licenses == {f.path : f \in UNION {ToSet(p.files) : p \in dbFound.packages}}
        bad == \E g \in DOMAIN db.groups : Leads(db.groups[g], g)
                 \/ \E n \in db.names \ DOMAIN db.groups : n \in db.groups[g]
        all == (UNION {db.groups[g] : g \in DOMAIN db.groups}) \cup db.licenses
    IN  licenses = IF bad THEN db.licenses
                   ELSE {l \in all \ DOMAIN db.groups : Leads(db.licenses, l)}

DatabasesRead == /\ DpkgRead /\ ApkOwn /\ ApkPanics
                 /\ RpmLinked /\ AlpmAccounted /\ LicensesExpanded
=============================================================================
