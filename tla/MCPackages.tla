----------------------------- MODULE MCPackages ----------------------------
(***************************************************************************)
(* What tasks do to packages and relationships on their way into the SBOM, *)
(* one at a time: the calls of a relationship index, the rules for         *)
(* packages that lack a name or a version, the deep-squashed cleaner, the  *)
(* collection of packages.                                                 *)
(***************************************************************************)
EXTENDS IndexCalls, Compliance, DeepSquash, PackageCollection, TLC

CONSTANTS u, v, w, glibc, musl   \* IDs and names in the collection

VARIABLE turn

\* Evidence of each visibility at two paths, and a location that only supports.
MCSeen == {[path |-> "a", visible |-> "", primary |-> TRUE],
           [path |-> "b", visible |-> "", primary |-> TRUE],
           [path |-> "a", visible |-> "true", primary |-> TRUE],
           [path |-> "a", visible |-> "true", primary |-> FALSE],
           [path |-> "b", visible |-> "false", primary |-> TRUE]}

\* Three packages: two share a name, another two a type.
MCNameOf == u :> glibc @@ v :> glibc @@ w :> musl
MCTypeOf == u :> "deb" @@ v :> "apk" @@ w :> "apk"

\* What has no turn stands still where it could begin.
StillCompliance == /\ cfg = [missingName |-> "keep", missingVersion |-> "keep"]
                   /\ pkgs = [n \in 1 .. NPkgs |-> [key |-> n, name |-> "", version |-> ""]]
                   /\ rels = {} /\ pc = "filter" /\ i = 1
                   /\ remaining = <<>> /\ dropped = <<>> /\ replacements = <<>>
                   /\ relIdx = Idx!EmptyIndex

StillSquash == /\ label = [p \in Pkg |-> CHOOSE l \in Label : TRUE]
               /\ type = [p \in Pkg |-> "binary"]
               /\ locations = [p \in Pkg |-> {}]
               /\ packages = Pkg /\ todo = Pkg /\ duplicates = {} /\ remove = {}

\* An index and a collection begin empty.
MCInit == /\ CallsInit
          /\ Init
          /\ \/ turn = "index" /\ StillCompliance /\ StillSquash
             \/ turn = "compliance" /\ ComplianceInit /\ StillSquash
             \/ turn = "squash" /\ StillCompliance /\ SquashInit
             \/ turn = "collection" /\ StillCompliance /\ StillSquash

MCNext ==
  \/ turn = "index" /\ CallsNext /\ UNCHANGED <<turn, complianceVars, squashVars, vars>>
  \/ turn = "compliance" /\ ComplianceNext /\ UNCHANGED <<turn, callsVars, squashVars, vars>>
  \/ turn = "squash" /\ SquashNext /\ UNCHANGED <<turn, callsVars, complianceVars, vars>>
  \/ turn = "collection" /\ Next /\ UNCHANGED <<turn, callsVars, complianceVars, squashVars>>

MCSpec == MCInit /\ [][MCNext]_<<turn, callsVars, complianceVars, squashVars, vars>>
=============================================================================
