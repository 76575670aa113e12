----------------------------- MODULE JavaArchive ----------------------------
(***************************************************************************)
(* The packages of a Java archive and of those within it:                  *)
(* syft/pkg/cataloger/java/archive_parser.go.                              *)
(*                                                                         *)
(* An archive has a file name, in parts; a manifest, which may be missing, *)
(* there twice, or unusable; poms, by their directory and in the order of  *)
(* the directories, each a pom.properties, a pom.xml or both; and archives *)
(* within, which may not be extractable.  Nothing is read twice, so an     *)
(* archive is parsed in one step.                                          *)
(***************************************************************************)
EXTENDS Naturals, Sequences, SequencesExt

CONSTANTS Archives,  \* archives that may be scanned
          Alike,     \* <<artifact, file name>>: one begins or ends the other
          Within     \* <<group, file name>>: the group occurs in the name

VARIABLES archive, parsed   \* parsed: what parse returns

jarVars == <<archive, parsed>>

None == <<>>
Gav(g, a, v) == [group |-> g, artifact |-> a, version |-> v]

-----------------------------------------------------------------------------
(* The main package.                                                       *)

WithProperties(poms) == SelectSeq(poms, LAMBDA p : p.properties # None)
Artifacts(poms) == {p.properties.artifact : p \in ToSet(WithProperties(poms))}

MatchesFile(artifact, a) == IF a.file \in Artifacts(a.poms) THEN artifact = a.file
                            ELSE <<artifact, a.file>> \in Alike

IsExactMatch(properties, xml, a) ==
  xml # None /\ (<<properties.group, a.file>> \in Within \/ properties.artifact = a.file)

\* updateMatchIfBetter
Better(best, p, a) ==
  IF best.properties = None
    THEN [best EXCEPT !.properties = p.properties,
                      !.xml = IF p.xml # None THEN p.xml ELSE @]
  ELSE IF p.xml # None /\ (best.xml = None \/ IsExactMatch(p.properties, p.xml, a))
    THEN [best EXCEPT !.properties = p.properties, !.xml = p.xml]
  ELSE best

\* One turn of the loop of findBestPomMatch.
BestSoFar(a, best, p) ==
  IF best.found \/ ~MatchesFile(p.properties.artifact, a) THEN best
  ELSE LET b == Better(best, p, a)
       IN  [b EXCEPT !.found = IsExactMatch(p.properties, b.xml, a)]

\* discoverMainPackageFromPomInfo
BestPom(a) ==
  LET b == FoldLeft(LAMBDA best, p : BestSoFar(a, best, p),
                    [properties |-> None, xml |-> None, found |-> FALSE],
                    WithProperties(a.poms))
  IN  IF WithProperties(a.poms) = <<>> /\ Len(a.poms) = 1
        THEN [b EXCEPT !.xml = a.poms[1].xml] ELSE b

FirstOf(s) == IF \A x \in ToSet(s) : x = "" THEN ""
              ELSE s[CHOOSE i \in DOMAIN s : s[i] # "" /\ \A j \in 1..(i - 1) : s[j] = ""]

PomField(pom, f) == IF pom = None THEN "" ELSE pom[f]

\* discoverMainPackage, where there is one manifest and it can be used.
MainOf(a, path) ==
  LET b == BestPom(a) IN
  [path |-> path, suffix |-> None, properties |-> None, project |-> b.xml,
   manifest |-> a.group,
   name |-> FirstOf(<<PomField(b.properties, "artifact"), PomField(b.xml, "artifact"), a.file>>),
   version |-> FirstOf(<<PomField(b.properties, "version"), PomField(b.xml, "version"), a.version>>)]

-----------------------------------------------------------------------------
(* The packages of its poms.                                               *)

\* groupIDFromJavaMetadata
GroupOf(p) == FirstOf(<<PomField(p.properties, "group"), PomField(p.project, "group"), p.manifest>>)

Key(p) == <<GroupOf(p), p.name, p.version>>

\* newPackageFromMavenData: another package, or more about the main one.  Its
\* version is taken from each pom that is about it, its properties from the
\* first.
AddPomPackage(found, pom) ==
  LET q == pom.properties
      main == found.main
      same == Key(main) = <<q.group, q.artifact, q.version>>
      p == [path |-> main.path, suffix |-> IF same THEN None ELSE <<q.group, q.artifact>>,
            properties |-> q, project |-> pom.xml, manifest |-> "",
            name |-> q.artifact, version |-> q.version]
  IN  IF Key(p) = Key(main) \/ p.suffix = main.suffix \/ p.name = main.name
        THEN [found EXCEPT !.main.name = p.name, !.main.version = p.version,
                           !.main.properties = IF @ = None THEN q ELSE @]
        ELSE [found EXCEPT !.aux = Append(@, p)]

\* discoverPkgsFromAllMavenFiles: nothing without a main package.
Own(a, path) == FoldLeft(AddPomPackage, [main |-> MainOf(a, path), aux |-> <<>>],
                         WithProperties(a.poms))

-----------------------------------------------------------------------------
(* Archives within.                                                        *)

NotParsed == [packages |-> {}, relationships |-> {}, error |-> TRUE]

Filed(p, parent) == [id |-> p, parent |-> parent]

\* Slip: what was found within is filed under this archive, whatever it is in.
AdoptAll(packages, main) == {[p EXCEPT !.parent = main] : p \in packages}

\* The packages that have no parent yet are given this one.
Adopt(packages, main) ==
  {IF p.parent = None THEN [p EXCEPT !.parent = main] ELSE p : p \in packages}

\* parse.  An archive within that is not parsed without errors is left out, with
\* all that was found in it.
RECURSIVE Parse(_, _, _)
Parse(a, path, parent) ==
  IF a.manifest = "twice" THEN NotParsed
  ELSE LET has  == a.manifest = "usable"
           own  == Own(a, path)
           main == IF has THEN own.main ELSE None
           packages == IF has THEN {Filed(main, None)}
                                   \cup {Filed(p, main) : p \in ToSet(own.aux)} ELSE {}
           relationships ==
             IF has THEN {<<main, p>> : p \in {parent} \ {None}}
                         \cup {<<p, main>> : p \in ToSet(own.aux)} ELSE {}
           inner == IF a.extractable
                      THEN {r \in {Parse(a.within[i], Append(path, i), main) :
                                     i \in DOMAIN a.within} : ~r.error}
                      ELSE {}
           all == packages \cup UNION {Adopt(r.packages, main) : r \in inner}
       IN  [packages |-> all,
            relationships |-> relationships \cup UNION {r.relationships : r \in inner},
            error |-> ~a.extractable \/ all = {}]

-----------------------------------------------------------------------------
JarInit == archive \in Archives /\ parsed = None

\* parseJavaArchive
ParseArchive == /\ parsed = None
                /\ parsed' = Parse(archive, <<>>, None)
                /\ UNCHANGED archive

JarNext == ParseArchive

JarSpec == JarInit /\ [][JarNext]_jarVars

-----------------------------------------------------------------------------
(* Properties.                                                             *)

RECURSIVE Inside(_, _)
Inside(a, path) == IF path = <<>> THEN a ELSE Inside(a.within[path[1]], Tail(path))

RECURSIVE Paths(_)
Paths(a) == {<<>>} \cup UNION {{<<i>> \o p : p \in Paths(a.within[i])} : i \in DOMAIN a.within}

\* The archives that are looked into and have a main package: those within them
\* could be extracted, unless it is the scanned archive itself.
Reached(path) ==
  /\ Inside(archive, path).manifest = "usable"
  /\ \A p \in Prefixes(path) : Inside(archive, p).manifest # "twice"
  /\ \A p \in Prefixes(path) : Inside(archive, p).extractable \/ (p = <<>> /\ path = <<>>)

\* What is found in an archive has as its parent the main package of the archive
\* nearest around it that has one, and is a dependency of nothing else; every
\* archive that was reached has its main package (archive_parser.go:135-204,
\* :629-682).
ArchivesNest ==
  parsed # None =>
    LET mains == {p \in parsed.packages : p.id.suffix = None}
        around(p) == {q \in mains : /\ q.id.path \in Prefixes(p.id.path)
                                    /\ q.id # p.id}
        nearest(p) == {q \in around(p) : \A r \in around(p) : Len(r.id.path) <= Len(q.id.path)}
    IN  /\ {p.id.path : p \in mains} = {path \in Paths(archive) : Reached(path)}
        /\ \A p \in parsed.packages :
             {p.parent} \ {None} = {q.id : q \in nearest(p)}
        /\ \A r \in parsed.relationships :
             \E p \in parsed.packages : r = <<p.id, p.parent>>
        /\ \A p \in parsed.packages :
             p.parent # None /\ Len(p.id.path) <= Len(p.parent.path) + 1
               => <<p.id, p.parent>> \in parsed.relationships

\* "Some packages have the same name but different group IDs", which is why
\* groups are told apart "to preserve uniqueness" (archive_parser.go:756-757): so
\* every pom.properties of an archive with a main package has its package.
PomsRepresented ==
  parsed # None =>
    \A path \in {p \in Paths(archive) : Reached(p)} :
      \A pom \in ToSet(WithProperties(Inside(archive, path).poms)) :
        \E p \in parsed.packages :
          p.id.path = path /\ p.id.name = pom.properties.artifact
            /\ p.id.version = pom.properties.version
            /\ GroupOf(p.id) = pom.properties.group
=============================================================================
