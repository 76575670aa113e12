----------------------------- MODULE Compliance ----------------------------
(***************************************************************************)
(* applyCompliance of internal/task/package_task_factory.go: what happens, *)
(* between a cataloger and the SBOM, to packages without a name or a       *)
(* version, and to the relationships that mention them.                    *)
(*                                                                         *)
(* A package's ID is a hash of its content, so it is modelled by that      *)
(* content: stubbing a field gives the package another ID.  One cataloger  *)
(* result (chosen by ComplianceInit) is taken through the code step by step: each    *)
(* package through applyComplianceRules, the index built, dropped packages *)
(* removed from it one by one, replaced ones rewired one by one.           *)
(***************************************************************************)
EXTENDS Naturals, Sequences, FiniteSetsExt

CONSTANTS NPkgs,      \* packages in the cataloger's result
          Files,      \* coordinates of files packages own
          MaxRels     \* bound on the relationships in the result

ASSUME NPkgsAssumption == NPkgs \in Nat \ {0}

Action == {"keep", "drop", "stub"}

\* What SetID hashes: which package it is, and the fields a rule can stub.
HashedID == [key : 1 .. NPkgs, name : {"", "given", "UNKNOWN"},
          version : {"", "given", "UNKNOWN"}]

\* IDs are hashes of their own kind.
ASSUME FilesAssumption == Files \cap HashedID = {}

EntityID == HashedID \cup Files

Idx == INSTANCE RelationshipIndex
         WITH ID <- EntityID, Type <- {"dependency-of", "contains"}

VARIABLES cfg,          \* ComplianceConfig
          pkgs,         \* the cataloger's packages, in its order
          rels,         \* the cataloger's relationships
          pc,           \* "filter", "remove", "replace" or "done"
          i,            \* the loop index of the current loop
          remaining,    \* remainingPkgs
          dropped,      \* droppedPkgs
          replacements, \* packageReplacement values
          relIdx

complianceVars == <<cfg, pkgs, rels, pc, i, remaining, dropped, replacements, relIdx>>

-----------------------------------------------------------------------------
(* What a cataloger can return: relationships between its packages, and    *)
(* from its packages to files.                                             *)

Link(p, q) == [from |-> p, type |-> "dependency-of", to |-> q]
Owns(p, f) == [from |-> p, type |-> "contains", to |-> f]

Found(ps) ==
  LET P == {ps[n] : n \in 1 .. NPkgs}
  IN  {Link(e[1], e[2]) : e \in {d \in P \X P : d[1] # d[2]}}
        \cup {Owns(e[1], e[2]) : e \in P \X Files}

ComplianceInit ==
  /\ cfg \in [missingName : Action, missingVersion : Action]
  /\ \E content \in [1 .. NPkgs -> [name : {"", "given"}, version : {"", "given"}]] :
       pkgs = [n \in 1 .. NPkgs |-> [key |-> n, name |-> content[n].name,
                                     version |-> content[n].version]]
  /\ rels \in UNION {kSubset(n, Found(pkgs)) : n \in 0 .. MaxRels}
  /\ pc = "filter"
  /\ i = 1
  /\ remaining = <<>>
  /\ dropped = <<>>
  /\ replacements = <<>>
  /\ relIdx = Idx!EmptyIndex

-----------------------------------------------------------------------------
(* applyComplianceRules                                                    *)

Blank(field) == field = ""

\* Whether a rule asks for the package to go.
Drops(p) == \/ Blank(p.name) /\ cfg.missingName = "drop"
            \/ Blank(p.version) /\ cfg.missingVersion = "drop"

\* The package with its blank fields stubbed.  The version rule runs whatever
\* the name rule said, also on a package that is to be dropped.
Stubbed(p) ==
  [p EXCEPT
     !.name    = IF Blank(p.name) /\ cfg.missingName = "stub" THEN "UNKNOWN" ELSE @,
     !.version = IF Blank(p.version) /\ cfg.missingVersion = "stub" THEN "UNKNOWN" ELSE @]

Replaced(p) == Stubbed(p) # p

\* filterNonCompliantPackages: one turn of the loop.
FilterPackage ==
  /\ pc = "filter"
  /\ i <= NPkgs
  /\ LET p == pkgs[i]
         q == Stubbed(p)
     IN  /\ IF Drops(p) THEN /\ dropped' = Append(dropped, q)
                             /\ UNCHANGED remaining
                        ELSE /\ remaining' = Append(remaining, q)
                             /\ UNCHANGED dropped
         /\ replacements' = IF Replaced(p)
                              THEN Append(replacements, [original |-> p, pkg |-> q])
                              ELSE replacements
  /\ i' = i + 1
  /\ UNCHANGED <<cfg, pkgs, rels, pc, relIdx>>

\* relationship.NewIndex(relationships...)
BuildIndex ==
  /\ pc = "filter"
  /\ i > NPkgs
  /\ relIdx' = Idx!NewIndex(rels)
  /\ pc' = "remove"
  /\ i' = 1
  /\ UNCHANGED <<cfg, pkgs, rels, remaining, dropped, replacements>>

\* relIdx.Remove(p.ID()): the ID is the one after stubbing.
RemoveDropped ==
  /\ pc = "remove"
  /\ i <= Len(dropped)
  /\ relIdx' = Idx!RemoveEnd(relIdx, dropped[i])
  /\ i' = i + 1
  /\ UNCHANGED <<cfg, pkgs, rels, pc, remaining, dropped, replacements>>

StartReplacing ==
  /\ pc = "remove"
  /\ i > Len(dropped)
  /\ pc' = "replace"
  /\ i' = 1
  /\ UNCHANGED <<cfg, pkgs, rels, remaining, dropped, replacements, relIdx>>

\* Slip: the arguments are swapped.
ReplaceBackwards ==
  /\ pc = "replace"
  /\ i <= Len(replacements)
  /\ relIdx' = Idx!Replace(relIdx, replacements[i].pkg, replacements[i].original)
  /\ i' = i + 1
  /\ UNCHANGED <<cfg, pkgs, rels, pc, remaining, dropped, replacements>>

\* relIdx.Replace(replacement.original, replacement.pkg)
ReplaceStubbed ==
  /\ pc = "replace"
  /\ i <= Len(replacements)
  /\ relIdx' = Idx!Replace(relIdx, replacements[i].original, replacements[i].pkg)
  /\ i' = i + 1
  /\ UNCHANGED <<cfg, pkgs, rels, pc, remaining, dropped, replacements>>

\* The task hands remainingPkgs and relIdx.All() on.
Return ==
  /\ pc = "replace"
  /\ i > Len(replacements)
  /\ pc' = "done"
  /\ UNCHANGED <<cfg, pkgs, rels, i, remaining, dropped, replacements, relIdx>>

ComplianceNext == FilterPackage \/ BuildIndex \/ RemoveDropped \/ StartReplacing
                  \/ ReplaceStubbed \/ Return

ComplianceSpec == ComplianceInit /\ [][ComplianceNext]_complianceVars

-----------------------------------------------------------------------------
(* Properties of the result.                                               *)

Given == {pkgs[n] : n \in 1 .. NPkgs}
Result   == Idx!All(relIdx)
Kept(p)  == p \in Given /\ ~Drops(p)
Untouched(p) == Kept(p) /\ ~Replaced(p)

\* A package that is kept keeps its files and what it points at among the
\* untouched packages, under whatever ID it has now, whatever order the
\* packages came in and whatever became of its neighbours (index.go:81-91,
\* package_task_factory.go:128-137).
OutgoingSurvive ==
  pc = "done" =>
    \A p \in Given : Kept(p) =>
      /\ \A f \in Files : Owns(Stubbed(p), f) \in Result <=> Owns(p, f) \in rels
      /\ \A q \in Given : Untouched(q) =>
            (Link(Stubbed(p), q) \in Result <=> Link(p, q) \in rels)

\* Without stubbing, dropping is exact: a relationship survives if and only
\* if every package it mentions does (package_task_factory.go:129-131).
DropIsExact ==
  pc = "done" /\ (\A p \in Given : ~Replaced(p)) =>
    Result = {r \in rels : Kept(r.from) /\ (r.to \in Files \/ Kept(r.to))}

\* What the rules may cost: nothing of what a kept package owns or points at,
\* and, where nothing is stubbed, exactly what mentions a dropped package
\* (applyCompliance, package_task_factory.go:124-138).
RulesRespected == OutgoingSurvive /\ DropIsExact

-----------------------------------------------------------------------------
(* What tests and comments say, and the code does not do.                  *)

\* package_task_factory_test.go:280 says of a package without name and version
\* under the default rules that it "should be dropped": then no relationship
\* of the result mentions it, under its old or its new ID.
DroppedIsGone ==
  pc = "done" =>
    \A p \in Given : Drops(p) =>
       \A r \in Result : {r.from, r.to} \cap {p, Stubbed(p)} = {}

\* index.go:82: a relationship with "an elder ID in either side should be
\* discarded": none of the result mentions the ID a package had before.
NoElderID ==
  pc = "done" =>
    \A p \in Given : Kept(p) /\ Replaced(p) =>
       \A r \in Result : p \notin {r.from, r.to}

\* index_test.go:368-372 expects the target of an incoming relationship to be
\* replaced: what an untouched package points at is still pointed at.
IncomingSurvive ==
  pc = "done" =>
    \A p, q \in Given : Untouched(q) /\ Kept(p) /\ Link(q, p) \in rels =>
       Link(q, Stubbed(p)) \in Result
=============================================================================
