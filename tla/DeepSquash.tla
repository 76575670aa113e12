----------------------------- MODULE DeepSquash ----------------------------
(***************************************************************************)
(* The deep-squashed cleaner (internal/task/scope_tasks.go): a scan of all *)
(* layers reports packages of files that the image hides in the end; this  *)
(* task removes those, and removes duplicates of packages whose locations  *)
(* say nothing about visibility.  Which of two duplicates is the duplicate *)
(* depends on the order of an enumeration: types in the order of a Go map, *)
(* packages of a type in the order they were added.                        *)
(*                                                                         *)
(* Name and version of a package are one value, paths of a location (real  *)
(* and access) another.                                                    *)
(***************************************************************************)
EXTENDS Naturals, FiniteSets

CONSTANTS Pkg, Label, Path,
          PkgType,      \* with "binary"
          Seen          \* kinds of locations a cataloger may report

Location == [path : Path, visible : {"true", "false", ""}, primary : BOOLEAN]

ASSUME SeenAssumption == Seen \subseteq Location
ASSUME BinaryAssumption == "binary" \in PkgType

VARIABLES label,       \* name and version per package
          type, locations,
          packages,    \* the packages of the SBOM
          todo,        \* packages not yet enumerated
          duplicates,  \* filterDuplicates
          remove       \* pkgsToDelete

found == <<label, type, locations>>
squashVars  == <<found, packages, todo, duplicates, remove>>

SquashInit ==
  /\ label \in [Pkg -> Label]
  /\ type \in [Pkg -> PkgType]
  /\ locations \in [Pkg -> {L \in SUBSET Seen : Cardinality(L) \in 1 .. 2}]
  /\ packages = Pkg
  /\ todo = Pkg
  /\ duplicates = {}
  /\ remove = {}

\* Packages Enumerate can come to next: it goes type by type.
Upcoming ==
  LET begun == {type[p] : p \in packages \ todo} \cap {type[p] : p \in todo}
  IN  {p \in todo : begun # {} => type[p] \in begun}

\* getKey
Key(p, l) == <<label[p], l.path>>

\* Evidence whose visibility nobody determined.
Undetermined(p) == {Key(p, l) : l \in {m \in locations[p] : m.visible = "" /\ m.primary}}

InSquash(p) == \E l \in locations[p] :
                  l.visible = "true" /\ (l.primary \/ type[p] = "binary")

\* Slip: a duplicate is remembered for packages that are removed, too.
ExamineAll(p) ==
  /\ p \in Upcoming
  /\ todo' = todo \ {p}
  /\ duplicates' = duplicates \cup {Key(p, l) : l \in locations[p]}
  /\ remove' = IF ~InSquash(p) /\ Undetermined(p) \subseteq duplicates
                 THEN remove \cup {p} ELSE remove
  /\ UNCHANGED <<found, packages>>

\* One turn of the loop in packagesToRemove.
Examine(p) ==
  /\ p \in Upcoming
  /\ todo' = todo \ {p}
  /\ duplicates' = duplicates \cup Undetermined(p)
  /\ remove' = IF ~InSquash(p) /\ Undetermined(p) \subseteq duplicates
                 THEN remove \cup {p} ELSE remove
  /\ UNCHANGED <<found, packages>>

\* builder.DeletePackages; no other task runs beside this one.
Delete ==
  /\ todo = {}
  /\ packages' = packages \ remove
  /\ remove' = {}
  /\ UNCHANGED <<found, todo, duplicates>>

SquashNext == (\E p \in Pkg : Examine(p)) \/ Delete

SquashSpec == SquashInit /\ [][SquashNext]_squashVars

-----------------------------------------------------------------------------
(* Properties.                                                             *)

\* Only packages that were examined, and are there, are listed for removal.
SquashTypeOK ==
  /\ label \in [Pkg -> Label] /\ type \in [Pkg -> PkgType]
  /\ locations \in [Pkg -> SUBSET Seen]
  /\ packages \subseteq Pkg
  /\ duplicates \subseteq Label \X Path
  /\ remove \subseteq packages \ todo

\* No evidence is lost with the duplicates: a package that goes is not in the
\* squashed image, and each of its locations of undetermined visibility is a
\* location of a package of the same name and version that stays, whatever
\* order they were enumerated in (scope_tasks.go:30-55).
EvidenceStays ==
  [][\A p \in packages \ packages' :
       /\ ~InSquash(p)
       /\ Undetermined(p) \subseteq UNION {Undetermined(q) : q \in packages'}]_squashVars

-----------------------------------------------------------------------------
(* The invariant that the proofs use.                                      *)

\* What is remembered as seen is evidence of a package that is going to stay,
\* and what is going to be removed was seen.
Covered ==
  /\ todo \subseteq packages
  /\ \A k \in duplicates : \E q \in packages \ (todo \cup remove) : k \in Undetermined(q)
  /\ \A p \in remove : ~InSquash(p) /\ Undetermined(p) \subseteq duplicates

IInv == SquashTypeOK /\ Covered
=============================================================================
