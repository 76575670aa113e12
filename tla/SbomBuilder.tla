----------------------------- MODULE SbomBuilder ---------------------------
(***************************************************************************)
(* The SBOM under construction and the facade that tasks change it through *)
(* (internal/sbomsync/builder.go).  Every method of the facade runs under  *)
(* one lock, so each is one function from an SBOM to an SBOM here; what a  *)
(* task does between two calls is not protected, and is modelled as        *)
(* separate steps by the modules that use this one.                        *)
(*                                                                         *)
(* Relationships are a slice that only grows or is filtered: a bag.        *)
(***************************************************************************)
EXTENDS Naturals, Bags

CONSTANTS Pkg,      \* package IDs
          Coord     \* file coordinates

\* IDs are hashes of their own kind, and no file or package is the source.
ASSUME IdentityAssumption == Pkg \cap Coord = {} /\ "source" \notin Pkg \cup Coord

\* What a relationship can connect; "source" is what is being scanned.
Entity == Pkg \cup Coord \cup {"source"}

RelType == {"contains", "evident-by", "dependency-of", "ownership-by-file-overlap"}

Rel == [from : Entity, type : RelType, to : Entity]

Contained(p, q) == [from |-> p, type |-> "contains", to |-> q]
DependencyOf(p, q) == [from |-> p, type |-> "dependency-of", to |-> q]
Overlap(p, q) == [from |-> p, type |-> "ownership-by-file-overlap", to |-> q]
EvidentBy(p, f) == [from |-> p, type |-> "evident-by", to |-> f]

EmptySbom == [packages |-> {}, rels |-> EmptyBag,
              executables |-> {}, digests |-> {}]

Endpoints(r) == {r.from, r.to}

\* How often a relationship is in a slice.
Copies(r, B) == IF r \in DOMAIN B THEN B[r] ELSE 0

\* Slip: only what leaves the packages goes with them.
WithoutSources(B, D) ==
  [r \in {x \in DOMAIN B : x.from \notin D} |-> B[r]]

\* What is left of a slice of relationships when identities go.
WithoutEndpoints(B, D) ==
  [r \in {x \in DOMAIN B : Endpoints(x) \cap D = {}} |-> B[r]]

\* A package whose ID is known is merged into the one that is there.
AddPackages(s, P) == [s EXCEPT !.packages = @ \cup P]

DeletePackages(s, D) ==
  [s EXCEPT !.packages = @ \ D, !.rels = WithoutEndpoints(@, D)]

\* Appends, duplicates included.
AddRelationships(s, R) == [s EXCEPT !.rels = @ (+) SetToBag(R)]
=============================================================================
