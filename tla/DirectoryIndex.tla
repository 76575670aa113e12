--------------------------- MODULE DirectoryIndex --------------------------
(***************************************************************************)
(* The index of a directory that is scanned                                *)
(* (syft/internal/fileresolver/directory_indexer.go): the tree under a     *)
(* root and, since links may lead out of it, the trees they lead to.       *)
(*                                                                         *)
(* A path is a sequence of names; names are numbers in their alphabetical  *)
(* order.  The file system does not change while it is indexed.            *)
(***************************************************************************)
EXTENDS Naturals, Sequences, SequencesExt, Functions, FiniteSets

CONSTANTS FileSystems,  \* each: path -> [type, target], the target absolute
          Root,         \* the path that is scanned
          Refused,      \* paths the exclusions of the user, or of the kind of
                        \* mount, refuse
          MaxLinks      \* links the operating system follows in one path

\* What is in a file system is in its directories, and a link has a path for its
\* target.
ASSUME FileSystemAssumption ==
  /\ MaxLinks \in Nat
  /\ Root \in Seq(Nat)
  /\ \A f \in FileSystems :
       /\ IsFiniteSet(DOMAIN f)
       /\ <<>> \in DOMAIN f /\ f[<<>>].type = "dir"
       /\ \A p \in DOMAIN f : /\ p \in Seq(Nat) /\ f[p].target \in Seq(Nat)
                              /\ p # <<>> => /\ SubSeq(p, 1, Len(p) - 1) \in DOMAIN f
                                             /\ f[SubSeq(p, 1, Len(p) - 1)].type = "dir"

VARIABLES fs, queue, seen, indexed, status
dirVars == <<fs, queue, seen, indexed, status>>

Parent(p) == SubSeq(p, 1, Len(p) - 1)

-----------------------------------------------------------------------------
(* What the operating system says of a path.                               *)

IsDir(f, p) == p \in DOMAIN f /\ f[p].type = "dir"

\* Where a way through a path may end: at what is no directory.
Stops(f, p) == {n \in 1..Len(p) : ~IsDir(f, SubSeq(p, 1, n))}
FirstStop(f, p) == CHOOSE n \in Stops(f, p) : \A m \in Stops(f, p) : n <= m

StopsAt(f, p, n) ==
  LET q == SubSeq(p, 1, n)
  IN  [path |-> q, error |-> IF q \notin DOMAIN f THEN "missing"
                             ELSE IF f[q].type = "link" THEN "loop"
                             ELSE IF n = Len(p) THEN "none" ELSE "notdir"]

\* How far one gets without following a link; the link is one too many.
Look(f, p) == IF Stops(f, p) = {} THEN [path |-> p, error |-> "none"]
              ELSE StopsAt(f, p, FirstStop(f, p))

\* The first link in a path gives way to its target.
Follow(f, p) ==
  IF Look(f, p).error # "loop" THEN p
  ELSE f[Look(f, p).path].target \o SubSeq(p, FirstStop(f, p) + 1, Len(p))

Eval(f, p) ==
  LET way[k \in 0..MaxLinks] == IF k = 0 THEN p ELSE Follow(f, way[k - 1])
  IN  Look(f, way[MaxLinks])

EvalSymlinks(p) == Eval(fs, p)

\* Where lstat finds a path: the links on the way to it are followed.
Located(p) == IF p = <<>> THEN p ELSE Append(EvalSymlinks(Parent(p)).path, Last(p))

Lstat(p) == fs[Located(p)]

-----------------------------------------------------------------------------
(* One path.                                                               *)

\* The visitors: hasBeenIndexed and what is excluded.  Only a directory is
\* pruned with what is below it.
Pruned(ix, p) == p \in Refused \/ (p \in ix /\ Lstat(p).type = "dir")

Added(ix, p) == /\ Located(p) \in DOMAIN fs
                /\ p \notin ix \cup Refused
                /\ Lstat(p).type # "device"

\* addSymlinkToIndex: a target that is not there is no root.
NewRoot(p) ==
  IF Lstat(p).type = "link" /\ EvalSymlinks(Lstat(p).target).error # "missing"
    THEN <<Lstat(p).target>> ELSE <<>>

IndexPath(p, st) ==
  IF Added(st.indexed, p)
    THEN [st EXCEPT !.indexed = @ \cup {p}, !.roots = @ \o NewRoot(p)]
    ELSE st

-----------------------------------------------------------------------------
(* A root.                                                                 *)

\* The order of the paths: the first name in which they differ counts.
Before(p, q) ==
  \/ Len(p) < Len(q) /\ SubSeq(q, 1, Len(p)) = p
  \/ \E i \in 1..Len(p) : /\ i <= Len(q) /\ p[i] < q[i]
                          /\ SubSeq(p, 1, i - 1) = SubSeq(q, 1, i - 1)

InOrder(paths) ==
  [i \in 1..Cardinality(paths) |->
     CHOOSE p \in paths : Cardinality({q \in paths : Before(q, p)}) = i - 1]

\* filepath.Walk, in the order of the names, not into what was pruned; it does
\* not follow the root when that is a link.
Walked(ix, root) ==
  LET at == Located(root)
      paths == {root \o SubSeq(q, Len(at) + 1, Len(q)) : q \in {d \in DOMAIN fs : IsPrefix(at, d)}}
  IN  InOrder({p \in paths : \A n \in Len(root)..(Len(p) - 1) : ~Pruned(ix, SubSeq(p, 1, n))})

\* One path after the other.
IndexPaths(paths, st) ==
  LET after[i \in 0..Len(paths)] == IF i = 0 THEN st ELSE IndexPath(paths[i], after[i - 1])
  IN  after[Len(paths)]

Walk(root, st) == IndexPaths(Walked(st.indexed, root), st)

\* The elements of a path, each under its real parent (allContainedPaths).
Ancestors(root) == [n \in 1..Len(root) |-> Located(SubSeq(root, 1, n))]

Fail(st) == [st EXCEPT !.failed = TRUE]

\* indexBranch: a path with a link in it.  Its real path is walked (its parent
\* has no link), then each element of the path itself is added.
IndexBranch(root, st) ==
  LET real == EvalSymlinks(root)
  IN  CASE real.error = "missing" -> st
        [] real.error \notin {"missing", "none"} -> Fail(st)
        [] OTHER -> IndexPaths(Ancestors(root), Walk(real.path, st))

\* Slip: a root is walked whatever leads to it.
IndexDirectly(root, st) ==
  IF root # <<>> /\ EvalSymlinks(Parent(root)).error # "none" THEN Fail(st) ELSE Walk(root, st)

\* indexTree, with isRealPath.
IndexTree(root, st) ==
  LET parent == EvalSymlinks(Parent(root))
  IN  IF root = <<>> THEN Walk(root, st)
      ELSE IF parent.error # "none" THEN Fail(st)
      ELSE IF parent.path = Parent(root) THEN Walk(root, st)
      ELSE IndexBranch(root, st)

-----------------------------------------------------------------------------
(* All roots (indexAllRoots).                                              *)

DirInit == /\ fs \in FileSystems
           /\ queue = <<Root>>
           /\ seen = {}
           /\ indexed = {}
           /\ status = "indexing"

\* Roots that were not seen, each once.
NextRoots(q, r) == IF r \in seen \cup Range(q) THEN q ELSE Append(q, r)

Fresh(roots) ==
  LET after[i \in 0..Len(roots)] == IF i = 0 THEN <<>> ELSE NextRoots(after[i - 1], roots[i])
  IN  after[Len(roots)]

IndexRoot ==
  /\ status = "indexing" /\ queue # <<>>
  /\ LET st == IndexTree(Head(queue), [indexed |-> indexed, roots |-> <<>>, failed |-> FALSE])
     IN  /\ indexed' = st.indexed
         /\ status' = IF st.failed THEN "failed" ELSE status
         /\ queue' = IF st.failed THEN queue ELSE Tail(queue) \o Fresh(st.roots)
         /\ seen' = IF st.failed THEN seen ELSE seen \cup Range(st.roots)
  /\ UNCHANGED fs

Finish ==
  /\ status = "indexing" /\ queue = <<>>
  /\ status' = "indexed"
  /\ UNCHANGED <<fs, queue, seen, indexed>>

DirNext == IndexRoot \/ Finish

DirSpec == DirInit /\ [][DirNext]_dirVars /\ WF_dirVars(DirNext)

-----------------------------------------------------------------------------
(* Properties.                                                             *)

\* Nothing is cataloged twice: what is indexed has no link among its ancestors,
\* whatever links led to it (the comment at directory_indexer.go:459-461).
Canonical ==
  \A p \in indexed : /\ EvalSymlinks(Parent(p)).error = "none"
                      /\ EvalSymlinks(Parent(p)).path = Parent(p)

Below(p) == {q \in DOMAIN fs : /\ IsPrefix(p, q) /\ fs[q].type # "device"
                               /\ \A n \in 0..Len(q) : SubSeq(q, 1, n) \notin Refused}

\* Everything below the root, and below what a link leads to, can be found:
\* when the index is finished, it is indexed unless it is excluded
\* (directory_indexer.go:66-67).
Sought == {Root} \cup {Lstat(p).target : p \in {i \in indexed : Lstat(i).type = "link"}}

Complete ==
  status = "indexed" =>
    \A r \in Sought : EvalSymlinks(r).error = "none" => Below(Located(r)) \subseteq indexed

\* All but what is below a directory on the way to a root with a link in it:
\* that was added without its contents, and is taken for indexed.
OnTheWay(q) ==
  \E r \in seen \cup {Root} :
    /\ EvalSymlinks(r).error = "none" /\ EvalSymlinks(Parent(r)).path # Parent(r)
    /\ \E n \in 1..(Len(r) - 1) : IsPrefix(Ancestors(r)[n], q)

CompleteOffTheWay ==
  status = "indexed" =>
    \A r \in Sought : EvalSymlinks(r).error = "none" =>
      \A q \in Below(Located(r)) : q \in indexed \/ OnTheWay(q)

\* Both: each thing is found, at one place.
FoundOnce == Canonical /\ CompleteOffTheWay

\* "allow for attempting to index paths that do not exist (that is, a root that
\* does not exist is not an error case that should stop indexing)"
\* (directory_indexer.go:113-114).
NeverStops == status # "failed"
=============================================================================
