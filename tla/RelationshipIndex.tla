------------------------- MODULE RelationshipIndex -------------------------
(***************************************************************************)
(* The relationship index of internal/relationship/index.go: a list of     *)
(* relationships with two lookup tables, one by source ID, one by target   *)
(* ID.  NewIndex(rels...) followed by Remove and Replace is how a package  *)
(* task applies compliance rules to what a cataloger found; the index has  *)
(* no lock, each task builds its own.                                      *)
(*                                                                         *)
(* A relationship is the triple that the index distinguishes: source ID,   *)
(* type, target ID.  What a query returns is sorted, so the order in which *)
(* relationships are stored is not modelled; how often one is listed is    *)
(* (the to-lists are bags; a from-list and the list of all never repeat).  *)
(***************************************************************************)
EXTENDS Naturals, FiniteSets, Bags

CONSTANTS ID,       \* the identities of packages, files and sources
          Type      \* relationship types

Rel == [from : ID, type : Type, to : ID]

-----------------------------------------------------------------------------
(* The operations, as functions from an index value to an index value.     *)

EmptyIndex == [all    |-> {},
               fromID |-> [i \in ID |-> {}],
               toID   |-> [i \in ID |-> EmptyBag]]

\* Only the from-table is consulted.
ContainsRel(x, r) == r \in x.fromID[r.from]

\* Slip: a duplicate is added again.
AddAlways(x, R) ==
  [all    |-> x.all \cup R,
   fromID |-> [i \in ID |-> x.fromID[i] \cup {r \in R : r.from = i}],
   toID   |-> [i \in ID |-> x.toID[i] (+) SetToBag({r \in R : r.to = i})]]

\* Add is variadic; a relationship that Contains reports is skipped.
Add(x, R) ==
  LET new == {r \in R : ~ContainsRel(x, r)}
  IN  [all    |-> x.all \cup new,
       fromID |-> [i \in ID |-> x.fromID[i] \cup {r \in new : r.from = i}],
       toID   |-> [i \in ID |-> x.toID[i] (+) SetToBag({r \in new : r.to = i})]]

NewIndex(R) == Add(EmptyIndex, R)

\* The tables lose the entry of id, but the entry of the other endpoint of a
\* removed relationship still lists it.
RemoveEnd(x, id) ==
  [all    |-> {r \in x.all : r.from # id /\ r.to # id},
   fromID |-> [x.fromID EXCEPT ![id] = {}],
   toID   |-> [x.toID EXCEPT ![id] = EmptyBag]]

\* First loop of Replace: outgoing relationships, kept when something points
\* at their target.
RewireOutgoing(x, og, rep) ==
  Add(x, {[r EXCEPT !.from = rep] :
            r \in {s \in x.fromID[og] : x.toID[s.to] # EmptyBag}})

\* Second loop: incoming relationships.  The guard of the code looks up
\* mapped.relationship.To, which is og itself.
RewireIncoming(x, og, rep) ==
  Add(x, {[r EXCEPT !.to = rep] :
            r \in {s \in BagToSet(x.toID[og]) : x.fromID[s.to] # {}}})

Replace(x, og, rep) ==
  RemoveEnd(RewireIncoming(RewireOutgoing(x, og, rep), og, rep), og)

\* The queries.  From and To read the tables, All reads the list.
From(x, id) == x.fromID[id]
To(x, id)   == x.toID[id]
All(x)      == x.all

-----------------------------------------------------------------------------
(* What a well-kept index looks like.                                      *)

\* Tables of the right shape; a to-list is a bag.
WellTyped(x) ==
  /\ x = [all |-> x.all, fromID |-> x.fromID, toID |-> x.toID]
  /\ x.all \in SUBSET Rel
  /\ x.fromID \in [ID -> SUBSET Rel]
  /\ x.toID = [i \in ID |-> x.toID[i]]
  /\ \A i \in ID : /\ DOMAIN x.toID[i] \subseteq Rel
                   /\ x.toID[i] \in [DOMAIN x.toID[i] -> Nat \ {0}]

\* Entries are filed under the right key.
Filed(x) ==
  \A i \in ID : /\ \A r \in x.fromID[i] : r.from = i
                /\ \A r \in DOMAIN x.toID[i] : r.to = i

\* Both tables know what the list holds.
ListIndexed(x) ==
  \A r \in x.all : r \in x.fromID[r.from] /\ r \in DOMAIN x.toID[r.to]

\* For relationships between identities of S list and tables agree, and the
\* to-table lists none twice.
ExactFor(x, S) ==
  \A r \in Rel : r.from \in S /\ r.to \in S =>
     /\ r \in x.fromID[r.from] <=> r \in x.all
     /\ r \in DOMAIN x.toID[r.to] <=> r \in x.all
     /\ r \in DOMAIN x.toID[r.to] => x.toID[r.to][r] = 1
=============================================================================
