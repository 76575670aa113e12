--------------------------- MODULE MavenResolver ----------------------------
(***************************************************************************)
(* What a pom inherits: syft/pkg/cataloger/java/internal/maven/resolver.go.*)
(*                                                                         *)
(* A world has poms, by name: those that are files of the scan, and those  *)
(* a repository (the local one, then the remote ones) has.  An ID is       *)
(* [artifact, version].  The coordinates of poms and of their parents are  *)
(* literals; versions of dependencies may be properties.  A pom that was   *)
(* read is [name, by]: the same file read twice is two of them.            *)
(*                                                                         *)
(* What the resolver has found so far is "known", ID -> read pom; every    *)
(* operator that looks a pom up returns it as "known" with its answer.     *)
(***************************************************************************)
EXTENDS Naturals, FiniteSets, Sequences, SequencesExt, Functions, TLC

CONSTANTS MaxDepth  \* MaxParentRecursiveDepth, 0 for no limit

VARIABLE world      \* [poms, repository, properties, files]

NoPom == [name |-> "", by |-> <<"nobody">>]
Pom(p) == world.poms[p.name]

\* AddPom and the file resolver know where these are.
HasLocation(p) == Head(p.by) \in {"caller", "path"}

\* ResolveID: the version, not the artifact, may be that of the parent.
IDOf(pom) == [artifact |-> pom.artifact,
              version  |-> IF pom.version = "" THEN pom.parent.version ELSE pom.version]
ID(p) == IDOf(Pom(p))

HasParent(p) == Pom(p).parent.artifact # ""
ParentID(p) == [artifact |-> Pom(p).parent.artifact, version |-> Pom(p).parent.version]

-----------------------------------------------------------------------------
(* Looking a pom up: [pom, known, error].                                  *)

FindPom(known, id) ==
  IF id \in DOMAIN known
    THEN [pom |-> known[id], known |-> known, error |-> FALSE]
  ELSE IF id \in DOMAIN world.repository
    THEN LET p == [name |-> world.repository[id], by |-> <<"repository">>]
         IN  [pom |-> p, known |-> known @@ (id :> p), error |-> FALSE]
  ELSE [pom |-> NoPom, known |-> known, error |-> TRUE]

\* findParentPomByRelativePath: only the artifact of what is there is compared,
\* and it is known by the ID the child asked for.
BesideIt(p) ==
  /\ HasLocation(p)
  /\ Pom(p).parent.path \in DOMAIN world.poms
  /\ world.poms[Pom(p).parent.path].artifact = ParentID(p).artifact

\* resolveParent
ParentOf(known, p) ==
  LET id == ParentID(p)
  IN  IF ~HasParent(p) THEN [pom |-> NoPom, known |-> known, error |-> FALSE]
      ELSE IF id \notin DOMAIN known /\ BesideIt(p)
        THEN LET q == [name |-> Pom(p).parent.path, by |-> <<"path", id>>]
             IN  [pom |-> q, known |-> known @@ (id :> q), error |-> FALSE]
      ELSE FindPom(known, id)

-----------------------------------------------------------------------------
(* Properties: [value, known].  An error is the empty value.               *)

ProjectVersion == "project.version"
IsReference(e) == e \in world.properties \cup {ProjectVersion}
Empty(known) == [value |-> "", known |-> known]

RECURSIVE Expression(_, _, _, _), Walk(_, _, _, _, _, _)

\* resolveExpression, resolveProperty: in the poms of a context, each with its
\* parents, from the project on; what is being resolved is not begun again.
Expression(known, context, e, resolving) ==
  IF ~IsReference(e) THEN [value |-> e, known |-> known]
  ELSE IF e \in resolving THEN Empty(known)
  ELSE IF e = ProjectVersion
    THEN [value |-> ID(Last(context)).version, known |-> known]
  ELSE Walk(known, context, <<1, 0>>, Head(context), {}, <<e, resolving \cup {e}>>)

WalkUp(up, context, at, seen, for) ==
  IF up.error THEN Empty(up.known)
  ELSE Walk(up.known, context, <<at[1], at[2] + 1>>, up.pom, seen, for)

\* at: which pom of the context, and how many parents up.
Walk(known, context, at, p, seen, for) ==
  IF p = NoPom \/ p \in seen
    THEN IF at[1] = Len(context) THEN Empty(known)
         ELSE Walk(known, context, <<at[1] + 1, 0>>, context[at[1] + 1], seen, for)
  ELSE IF MaxDepth > 0 /\ at[2] > MaxDepth THEN Empty(known)
  ELSE IF for[1] \in DOMAIN Pom(p).properties
    THEN Expression(known, context, Pom(p).properties[for[1]], for[2])
  ELSE WalkUp(ParentOf(known, p), context, at, seen \cup {p}, for)

-----------------------------------------------------------------------------
(* Versions: [value, known, error].                                        *)

Answer(value, known) == [value |-> value, known |-> known, error |-> FALSE]
Failure(known) == [value |-> "", known |-> known, error |-> TRUE]

\* The version an entry gives an artifact, if it is about it.
VersionIn(known, context, entry, artifact) ==
  IF entry.artifact = artifact THEN Expression(known, context, entry.version, {})
  ELSE Empty(known)

RECURSIVE Inherited(_, _, _, _), Managed(_, _, _, _)

\* An import is treated like a parent; it may be missing, or fail.
ImportedFrom(found, context, artifact) ==
  IF found.error THEN Answer("", found.known)
  ELSE Inherited(found.known, found.pom, artifact, context)

ImportedAt(v, context, entry, artifact) ==
  ImportedFrom(FindPom(v.known, [artifact |-> entry.artifact, version |-> v.value]),
               context, artifact)

\* The entries of dependencyManagement, in turn.
AfterImport(imported, context, entries, artifact) ==
  IF imported.value # "" THEN Answer(imported.value, imported.known)
  ELSE Managed(imported.known, context, Tail(entries), artifact)

AfterOwn(own, context, entries, artifact) ==
  IF own.value # "" THEN Answer(own.value, own.known)
  ELSE AfterImport(
         IF Head(entries).import
           THEN ImportedAt(Expression(own.known, context, Head(entries).version, {}),
                           context, Head(entries), artifact)
           ELSE Answer("", own.known),
         context, entries, artifact)

Managed(known, context, entries, artifact) ==
  IF entries = <<>> THEN Answer("", known)
  ELSE AfterOwn(VersionIn(known, context, Head(entries), artifact), context, entries, artifact)

\* The dependencies themselves.
Stated(known, context, entries, artifact) ==
  FoldLeft(LAMBDA a, entry : IF a.value # "" THEN a
                             ELSE VersionIn(a.known, context, entry, artifact),
           Empty(known), entries)

\* resolveInheritedVersion: what the pom manages, its imports, its parents, then
\* its dependencies.  A parent that is not found, or fails, ends it.
AfterParents(inherited, p, artifact, context) ==
  IF inherited.error THEN Failure(inherited.known)
  ELSE IF inherited.value # "" THEN inherited
  ELSE Stated(inherited.known, context, Pom(p).dependencies, artifact) @@ [error |-> FALSE]

InheritedFrom(up, p, artifact, context) ==
  IF up.error THEN Failure(up.known)
  ELSE AfterParents(IF up.pom = NoPom THEN Answer("", up.known)
                    ELSE Inherited(up.known, up.pom, artifact, context),
                    p, artifact, context)

AfterManaged(managed, p, artifact, context) ==
  IF managed.value # "" THEN managed
  ELSE InheritedFrom(ParentOf(managed.known, p), p, artifact, context)

Inherited(known, p, artifact, above) ==
  IF p \in Range(above) \/ (MaxDepth > 0 /\ Len(above) > MaxDepth) THEN Failure(known)
  ELSE LET context == Append(above, p)
       IN  AfterManaged(Managed(known, context, Pom(p).managed, artifact), p, artifact, context)

\* ResolveDependencyID
OwnOrInherited(own, p, artifact) ==
  IF own.value # "" THEN own ELSE Inherited(own.known, p, artifact, <<>>)

DependencyVersion(known, p, d) ==
  OwnOrInherited(Expression(known, <<p>>, d.version, {}), p, d.artifact)

-----------------------------------------------------------------------------
(* Licenses: [value, known].                                               *)

\* resolveLicenses: the first pom on the way up that has some.
RECURSIVE Licenses(_, _, _)

LicensesUp(up, processing) ==
  IF up.error \/ up.pom = NoPom THEN [value |-> {}, known |-> up.known]
  ELSE Licenses(up.known, up.pom, processing)

Licenses(known, p, processing) ==
  IF ID(p) \in processing \/ (MaxDepth > 0 /\ Cardinality(processing) > MaxDepth)
    THEN [value |-> {}, known |-> known]
  ELSE IF Pom(p).licenses # {} THEN [value |-> Pom(p).licenses, known |-> known]
  ELSE LicensesUp(ParentOf(known, p), processing \cup {ID(p)})
=============================================================================
