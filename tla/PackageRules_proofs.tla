------------------------- MODULE PackageRules_proofs -----------------------
(***************************************************************************)
(* Packages may be dropped, given another ID or removed as duplicates      *)
(* between a cataloger and the SBOM; what the others own and point at      *)
(* stays.  First the relationship index on its own, for any calls; then    *)
(* the compliance rules, which work on one, for any number of packages and *)
(* relationships; then the deep-squashed cleaner, whatever the order in    *)
(* which it meets the packages.                                            *)
(*                                                                         *)
(* For the rules, each operation of the index is reduced to what it does   *)
(* to one relationship (Adds, Removes, Moves).  The invariant then says,   *)
(* for a package that stays and a target that is not touched, that the     *)
(* index holds the relationship under the ID it has been told of if and    *)
(* only if the cataloger reported it.  That Replace does its work at all   *)
(* needs Pointed: its guard looks the target up in the table by target,    *)
(* which Remove may have emptied, but not for a target that is untouched.  *)
(***************************************************************************)
EXTENDS IndexCalls, Compliance, DeepSquash, TLAPS

(* The relationship index on its own.                                      *)

\* The inductive invariant, as a predicate of an index value and of the
\* identities that were removed from it: the shape, the filing, that the list
\* is covered by the tables, and their agreement on the rest.
Consistent(x, gone) == /\ WellTyped(x)
                       /\ Filed(x)
                       /\ ListIndexed(x)
                       /\ ExactFor(x, ID \ gone)

\* An index nothing was added to (NewIndex before its Add).
LEMMA EmptyConsistent == Consistent(EmptyIndex, {})
BY DEF Consistent, EmptyIndex, WellTyped, Filed, ListIndexed, ExactFor, Rel,
       EmptyBag, SetToBag

\* Adding relationships, whatever they are (index.go:28-65).
LEMMA AddConsistent ==
  ASSUME NEW x, NEW gone, Consistent(x, gone), NEW R \in SUBSET Rel
  PROVE  Consistent(Add(x, R), gone)
<1> DEFINE new == {r \in R : ~ContainsRel(x, r)}
           y   == Add(x, R)
<1>1. /\ y.all = x.all \cup new
      /\ y.fromID = [d \in ID |-> x.fromID[d] \cup {r \in new : r.from = d}]
      /\ y.toID = [d \in ID |-> x.toID[d] (+) SetToBag({r \in new : r.to = d})]
      /\ y = [all |-> y.all, fromID |-> y.fromID, toID |-> y.toID]
  BY DEF Add
<1>2. /\ new \subseteq Rel
      /\ \A r \in new : r.from \in ID /\ r.to \in ID /\ r \notin x.fromID[r.from]
  BY DEF Rel, ContainsRel
<1>3. \A d \in ID : y.toID[d] = x.toID[d] (+) SetToBag({r \in new : r.to = d})
  BY <1>1
<1>4. /\ x.all \subseteq Rel
      /\ x.fromID \in [ID -> SUBSET Rel]
      /\ \A d \in ID : /\ DOMAIN x.toID[d] \subseteq Rel
                       /\ \A r \in DOMAIN x.toID[d] : x.toID[d][r] \in Nat \ {0}
  BY DEF Consistent, WellTyped
<1> HIDE DEF new, y
<1>5. ASSUME NEW d \in ID
      PROVE  /\ \A r : r \in DOMAIN y.toID[d] <=>
                       r \in DOMAIN x.toID[d] \/ (r \in new /\ r.to = d)
             /\ y.toID[d] \in [DOMAIN y.toID[d] -> Nat \ {0}]
             /\ \A r \in new : r.to = d /\ r \notin DOMAIN x.toID[d] => y.toID[d][r] = 1
             /\ \A r \in DOMAIN x.toID[d] : r \notin new => y.toID[d][r] = x.toID[d][r]
  <2> DEFINE X == x.toID[d]
             N == {r \in new : r.to = d}
             Y == y.toID[d]
  <2>1. Y = [e \in DOMAIN X \cup N |-> (IF e \in DOMAIN X THEN X[e] ELSE 0)
                                      + (IF e \in N THEN 1 ELSE 0)]
    BY <1>3 DEF (+), SetToBag
  <2>2. \A e \in DOMAIN X : X[e] \in Nat \ {0}
    BY <1>4
  <2>3. N \subseteq new
    OBVIOUS
  <2>4. \A r : r \in N <=> (r \in new /\ r.to = d)
    OBVIOUS
  <2> HIDE DEF X, N, Y
  <2>5. DOMAIN Y = DOMAIN X \cup N
    BY <2>1
  <2>6. Y \in [DOMAIN Y -> Nat \ {0}]
    BY <2>1, <2>2
  <2>7. \A e \in N : e \notin DOMAIN X => Y[e] = 1
    BY <2>1
  <2>8. \A e \in DOMAIN X : e \notin new => Y[e] = X[e]
    BY <2>1, <2>2, <2>3
  <2> QED BY <2>4, <2>5, <2>6, <2>7, <2>8 DEF X, Y
<1>6. WellTyped(y)
  <2>1. y.all \in SUBSET Rel /\ y.fromID \in [ID -> SUBSET Rel]
    BY <1>1, <1>2, <1>4
  <2>2. \A d \in ID : DOMAIN y.toID[d] \subseteq Rel
    BY <1>2, <1>4, <1>5
  <2>3. y.toID = [d \in ID |-> y.toID[d]]
    BY <1>1
  <2> QED BY <1>1, <1>5, <2>1, <2>2, <2>3 DEF WellTyped
<1>7. Filed(y)
  <2>1. ASSUME NEW d \in ID PROVE \A r \in y.fromID[d] : r.from = d
    BY <1>1 DEF Filed, Consistent
  <2>2. ASSUME NEW d \in ID PROVE \A r \in DOMAIN y.toID[d] : r.to = d
    BY <1>5 DEF Filed, Consistent
  <2> QED BY <2>1, <2>2 DEF Filed
<1>8. ListIndexed(y)
  <2> SUFFICES ASSUME NEW r \in y.all
               PROVE  r \in y.fromID[r.from] /\ r \in DOMAIN y.toID[r.to]
    BY DEF ListIndexed
  <2>1. r \in Rel /\ r.from \in ID /\ r.to \in ID
    BY <1>6 DEF WellTyped, Rel
  <2>2. CASE r \in new
    BY <1>1, <1>5, <2>1, <2>2
  <2>3. CASE r \in x.all
    BY <1>1, <1>5, <2>1, <2>3 DEF Consistent, ListIndexed
  <2> QED BY <1>1, <2>2, <2>3
<1>9. ExactFor(y, ID \ gone)
  <2> SUFFICES ASSUME NEW r \in Rel, r.from \in ID \ gone, r.to \in ID \ gone
               PROVE  /\ r \in y.fromID[r.from] <=> r \in y.all
                      /\ r \in DOMAIN y.toID[r.to] <=> r \in y.all
                      /\ r \in DOMAIN y.toID[r.to] => y.toID[r.to][r] = 1
    BY DEF ExactFor
  <2>1. /\ r \in x.fromID[r.from] <=> r \in x.all
        /\ r \in DOMAIN x.toID[r.to] <=> r \in x.all
        /\ r \in DOMAIN x.toID[r.to] => x.toID[r.to][r] = 1
    BY DEF Consistent, ExactFor
  <2>2. r \in new => r \notin x.all
    BY <1>2, <2>1
  <2>3. r \in y.all <=> r \in x.all \/ r \in new
    BY <1>1
  <2>4. r \in y.fromID[r.from] <=> r \in x.fromID[r.from] \/ r \in new
    BY <1>1
  <2>5. r \in DOMAIN y.toID[r.to] <=> r \in DOMAIN x.toID[r.to] \/ r \in new
    BY <1>5
  <2>6. r \in DOMAIN y.toID[r.to] => y.toID[r.to][r] = 1
    <3>1. CASE r \in new
      BY <1>5, <2>1, <2>2, <3>1
    <3>2. CASE r \notin new
      BY <1>5, <2>1, <2>5, <3>2
    <3> QED BY <3>1, <3>2
  <2> QED BY <2>1, <2>3, <2>4, <2>5, <2>6
<1> QED BY <1>6, <1>7, <1>8, <1>9 DEF Consistent, y

\* Removing an identity (index.go:67-78).
LEMMA RemoveConsistent ==
  ASSUME NEW x, NEW gone, Consistent(x, gone), NEW id \in ID
  PROVE  Consistent(RemoveEnd(x, id), gone \cup {id})
<1> DEFINE y == RemoveEnd(x, id)
<1>1. /\ y.all = {r \in x.all : r.from # id /\ r.to # id}
      /\ y.fromID = [x.fromID EXCEPT ![id] = {}]
      /\ y.toID = [x.toID EXCEPT ![id] = EmptyBag]
      /\ y = [all |-> y.all, fromID |-> y.fromID, toID |-> y.toID]
  BY DEF RemoveEnd
<1>2. /\ x.toID = [d \in ID |-> x.toID[d]]
      /\ x.fromID \in [ID -> SUBSET Rel]
      /\ \A r \in Rel : r.from \in ID /\ r.to \in ID
  BY DEF Consistent, WellTyped, Rel
<1>3. /\ \A d \in ID : y.toID[d] = IF d = id THEN EmptyBag ELSE x.toID[d]
      /\ \A d \in ID : y.fromID[d] = IF d = id THEN {} ELSE x.fromID[d]
      /\ y.toID = [d \in ID |-> y.toID[d]]
  BY <1>1, <1>2
<1>4. DOMAIN EmptyBag = {} /\ EmptyBag \in [{} -> Nat \ {0}]
  BY DEF EmptyBag, SetToBag
<1> HIDE DEF y
<1>5. WellTyped(y)
  <2>1. y.all \in SUBSET Rel /\ y.fromID \in [ID -> SUBSET Rel]
    BY <1>1 DEF Consistent, WellTyped
  <2>2. \A d \in ID : /\ DOMAIN y.toID[d] \subseteq Rel
                      /\ y.toID[d] \in [DOMAIN y.toID[d] -> Nat \ {0}]
    BY <1>3, <1>4 DEF Consistent, WellTyped
  <2> QED BY <1>1, <1>3, <2>1, <2>2 DEF WellTyped
<1>6. Filed(y)
  BY <1>3, <1>4 DEF Filed, Consistent
<1>7. ListIndexed(y)
  BY <1>1, <1>2, <1>3 DEF ListIndexed, Consistent, WellTyped
<1>8. ExactFor(y, ID \ (gone \cup {id}))
  BY <1>1, <1>3 DEF ExactFor, Consistent
<1> QED BY <1>5, <1>6, <1>7, <1>8 DEF Consistent, y

\* Replacing an identity is two Adds and a Remove (index.go:80-106).
LEMMA ReplaceConsistent ==
  ASSUME NEW x, NEW gone, Consistent(x, gone), NEW og \in ID, NEW rep \in ID
  PROVE  Consistent(Replace(x, og, rep), gone \cup {og})
<1> DEFINE x1 == RewireOutgoing(x, og, rep)
           x2 == RewireIncoming(x1, og, rep)
<1>1. Consistent(x1, gone)
  <2> DEFINE R == {[r EXCEPT !.from = rep] :
                     r \in {s \in x.fromID[og] : x.toID[s.to] # EmptyBag}}
  <2>1. x.fromID[og] \subseteq Rel
    BY DEF Consistent, WellTyped
  <2>2. R \in SUBSET Rel
    BY <2>1 DEF Rel
  <2> HIDE DEF R
  <2>3. Consistent(Add(x, R), gone)
    BY <2>2, AddConsistent
  <2> QED BY <2>3 DEF RewireOutgoing, R
<1> HIDE DEF x1
<1>2. Consistent(x2, gone)
  <2> DEFINE R == {[r EXCEPT !.to = rep] :
                     r \in {s \in BagToSet(x1.toID[og]) : x1.fromID[s.to] # {}}}
  <2>1. BagToSet(x1.toID[og]) \subseteq Rel
    BY <1>1 DEF Consistent, WellTyped, BagToSet
  <2>2. R \in SUBSET Rel
    BY <2>1 DEF Rel
  <2> HIDE DEF R
  <2>3. Consistent(Add(x1, R), gone)
    BY <1>1, <2>2, AddConsistent
  <2> QED BY <2>3 DEF RewireIncoming, R
<1> HIDE DEF x2
<1>3. Consistent(RemoveEnd(x2, og), gone \cup {og})
  BY <1>2, RemoveConsistent
<1> QED BY <1>3 DEF Replace, x1, x2

CallsInv == /\ Consistent(index, removed)
        /\ removed \in SUBSET ID
        /\ ops \in 0 .. MaxOps

\* No sequence of Add, Remove and Replace makes the index inconsistent.
THEOREM IndexStaysConsistent == CallsSpec => []CallsInv
<1> USE MaxOpsAssumption
<1>1. CallsInit => CallsInv
  BY EmptyConsistent DEF CallsInit, CallsInv
<1>2. CallsInv /\ [CallsNext]_callsVars => CallsInv'
  <2> SUFFICES ASSUME CallsInv, [CallsNext]_callsVars PROVE CallsInv'
    OBVIOUS
  <2>1. ASSUME NEW r \in Rel, AddRelationship(r) PROVE CallsInv'
    <3>1. Consistent(Add(index, {r}), removed)
      BY AddConsistent DEF CallsInv
    <3> QED BY <3>1, <2>1 DEF CallsInv, AddRelationship, Call
  <2>2. ASSUME NEW id \in ID, RemoveID(id) PROVE CallsInv'
    <3>1. Consistent(RemoveEnd(index, id), removed \cup {id})
      BY RemoveConsistent DEF CallsInv
    <3> QED BY <3>1, <2>2 DEF CallsInv, RemoveID, Call
  <2>3. ASSUME NEW og \in ID, NEW rep \in ID, ReplaceID(og, rep) PROVE CallsInv'
    <3>1. Consistent(Replace(index, og, rep), removed \cup {og})
      BY ReplaceConsistent DEF CallsInv
    <3> QED BY <3>1, <2>3 DEF CallsInv, ReplaceID, Call
  <2>4. CASE UNCHANGED callsVars
    BY <2>4 DEF CallsInv, callsVars
  <2> QED BY <2>1, <2>2, <2>3, <2>4 DEF CallsNext
<1> QED BY <1>1, <1>2, PTL DEF CallsSpec

\* The index keeps its shape.
THEOREM IndexTypeCorrect == CallsSpec => []CallsTypeOK
<1>1. CallsInv => CallsTypeOK
  BY DEF CallsInv, Consistent, CallsTypeOK
<1> QED BY <1>1, IndexStaysConsistent, PTL

\* The list of all relationships is covered by both lookup tables, so Add
\* never appends a relationship that is listed already.
THEOREM IndexAllIndexed == CallsSpec => []AllIndexed
<1>1. CallsInv => AllIndexed
  BY DEF CallsInv, Consistent, AllIndexed
<1> QED BY <1>1, IndexStaysConsistent, PTL

\* Among identities that were never removed or replaced, the queries agree.
THEOREM IndexExact == CallsSpec => []ExactForUntouched
<1>1. CallsInv => ExactForUntouched
  BY DEF CallsInv, Consistent, ExactForUntouched
<1> QED BY <1>1, IndexStaysConsistent, PTL

-----------------------------------------------------------------------------
(* The compliance rules.                                                   *)


\* The triples an index stores.
Relation == Idx!Rel

\* Tables with an entry for every identity, filed under the right one.
FiledTables(x) ==
  /\ DOMAIN x.fromID = EntityID /\ DOMAIN x.toID = EntityID
  /\ \A e \in EntityID : /\ \A r \in x.fromID[e] : r \in Relation /\ r.from = e
                         /\ \A r \in DOMAIN x.toID[e] : r \in Relation /\ r.to = e

\* What the rules are about: targets that are there, as they were, at the end.
Target == Files \cup {q \in Given : Untouched(q)}

\* Whatever points at a target is known to be pointing there.
Pointed(x) == \A r \in Relation : r.to \in Target /\ r \in x.fromID[r.from] => r \in DOMAIN x.toID[r.to]

\* A package the index has been told the new ID of, and the ID it has there.
Rewired(p) == pc \in {"replace", "done"} /\ \E j \in 1 .. i - 1 : replacements[j].original = p
Now(p) == IF Rewired(p) THEN Stubbed(p) ELSE p

\* The relationship r as the cataloger would have reported it of p.
Of(p, r) == [from |-> p, type |-> r.type, to |-> r.to]

\* What a cataloger hands over, and where the code is.
InputInv ==
  /\ pc \in {"filter", "remove", "replace", "done"}
  /\ i \in Nat \ {0}
  /\ cfg \in [missingName : Action, missingVersion : Action]
  /\ pkgs \in [1 .. NPkgs -> HashedID]
  /\ \A n \in 1 .. NPkgs : pkgs[n].key = n
  /\ rels \subseteq Found(pkgs)

\* The packages that the filter has seen are the first ones.
Filtered == IF pc = "filter" THEN i - 1 ELSE NPkgs

\* What the filter has decided of the packages it has seen.
FilterInv ==
  /\ pc = "filter" => i <= NPkgs + 1
  /\ dropped \in Seq(HashedID)
  /\ \A j \in 1 .. Len(dropped) :
        \E n \in 1 .. Filtered : Drops(pkgs[n]) /\ dropped[j] = Stubbed(pkgs[n])
  /\ \A n \in 1 .. Filtered :
        Drops(pkgs[n]) => \E j \in 1 .. Len(dropped) : dropped[j] = Stubbed(pkgs[n])
  /\ replacements \in Seq([original : HashedID, pkg : HashedID])
  /\ \A j \in 1 .. Len(replacements) :
        \E n \in 1 .. Filtered : /\ Replaced(pkgs[n])
                                 /\ replacements[j].original = pkgs[n]
                                 /\ replacements[j].pkg = Stubbed(pkgs[n])
  /\ \A n \in 1 .. Filtered :
        Replaced(pkgs[n]) => \E j \in 1 .. Len(replacements) : replacements[j].original = pkgs[n]
  /\ \A j, k \in 1 .. Len(replacements) :
        replacements[j].original = replacements[k].original => j = k
  /\ pc = "remove" => i <= Len(dropped) + 1
  /\ pc = "done" => i > Len(replacements)

\* What the index knows of a relationship of a kept package to a target.
Knows(p, r) ==
  /\ r.from = Now(p) => /\ r \in relIdx.all <=> Of(p, r) \in rels
                        /\ r \in relIdx.fromID[r.from] <=> r \in relIdx.all
  /\ r.from = Stubbed(p) /\ Now(p) # Stubbed(p) =>
       r \notin relIdx.all /\ r \notin relIdx.fromID[r.from]

IndexInv ==
  pc # "filter" =>
    /\ FiledTables(relIdx)
    /\ Pointed(relIdx)
    /\ \A p \in Given : Kept(p) =>
         \A r \in Relation : r.to \in Target => Knows(p, r)

\* Where nothing is stubbed, the index loses what was dropped so far.
Removed == IF pc = "remove" THEN i - 1 ELSE Len(dropped)
DropInv ==
  pc # "filter" /\ (\A p \in Given : ~Replaced(p)) =>
    \A r : r \in Result <=>
      r \in rels /\ \A j \in 1 .. Removed : r.from # dropped[j] /\ r.to # dropped[j]

\* The inductive invariant: what came in, what the filter made of it, what the
\* index knows of packages that stay, what it lost with those that go.
ComplianceInv == InputInv /\ FilterInv /\ IndexInv /\ DropInv

-----------------------------------------------------------------------------

\* A triple has its three fields and nothing else.
LEMMA RelationFacts ==
  \A r \in Relation : /\ r.from \in EntityID /\ r.to \in EntityID
                      /\ r.type \in {"dependency-of", "contains"}
                      /\ r = [from |-> r.from, type |-> r.type, to |-> r.to]
BY DEF Relation, Idx!Rel

\* The index a task starts from is in order and knows nothing.
LEMMA EmptyFiled ==
  /\ FiledTables(Idx!EmptyIndex) /\ Idx!EmptyIndex.all = {}
  /\ \A e \in EntityID : /\ Idx!EmptyIndex.fromID[e] = {}
                         /\ DOMAIN (Idx!EmptyIndex.toID[e]) = {}
BY DEF FiledTables, Idx!EmptyIndex, Idx!EmptyBag, Idx!SetToBag

\* What Add does, entry by entry.
Adds(x, R, y) ==
  /\ \A r : r \in y.all <=> r \in x.all \/ (r \in R /\ r \notin x.fromID[r.from])
  /\ \A e \in EntityID : \A r :
       /\ r \in y.fromID[e] <=> r \in x.fromID[e] \/ (r \in R /\ r.from = e)
       /\ r \in DOMAIN y.toID[e] <=>
            r \in DOMAIN x.toID[e] \/ (r \in R /\ r \notin x.fromID[r.from] /\ r.to = e)

\* Adding relationships keeps the tables in order.
LEMMA AddFacts ==
  ASSUME NEW x, FiledTables(x), NEW R \in SUBSET Relation, NEW y, y = Idx!Add(x, R)
  PROVE  FiledTables(y) /\ Adds(x, R, y)
<1> DEFINE new == {r \in R : ~Idx!ContainsRel(x, r)}
<1>1. \A r : r \in new <=> r \in R /\ r \notin x.fromID[r.from]
  BY DEF Idx!ContainsRel
<1>2. /\ y.all = x.all \cup new
      /\ y.fromID = [e \in EntityID |-> x.fromID[e] \cup {r \in new : r.from = e}]
      /\ y.toID = [e \in EntityID |-> Idx!(+)(x.toID[e], Idx!SetToBag({r \in new : r.to = e}))]
  BY DEF Idx!Add
<1> HIDE DEF new
<1>3. ASSUME NEW e \in EntityID, NEW r
      PROVE  r \in y.fromID[e] <=> r \in x.fromID[e] \/ (r \in R /\ r.from = e)
  BY <1>1, <1>2
<1>4. ASSUME NEW e \in EntityID
      PROVE  DOMAIN y.toID[e] = DOMAIN x.toID[e] \cup {r \in new : r.to = e}
  <2>1. y.toID[e] = Idx!(+)(x.toID[e], Idx!SetToBag({r \in new : r.to = e}))
    BY <1>2
  <2> QED BY <2>1 DEF Idx!(+), Idx!SetToBag
<1>5. FiledTables(y)
  <2>1. DOMAIN y.fromID = EntityID /\ DOMAIN y.toID = EntityID
    BY <1>2
  <2>2. ASSUME NEW e \in EntityID, NEW r \in y.fromID[e] PROVE r \in Relation /\ r.from = e
    BY <1>3, <2>2 DEF FiledTables
  <2>3. ASSUME NEW e \in EntityID, NEW r \in DOMAIN y.toID[e] PROVE r \in Relation /\ r.to = e
    BY <1>1, <1>4, <2>3 DEF FiledTables
  <2> QED BY <2>1, <2>2, <2>3 DEF FiledTables
<1>6. ASSUME NEW e \in EntityID, NEW r
      PROVE  r \in DOMAIN y.toID[e] <=>
               r \in DOMAIN x.toID[e] \/ (r \in R /\ r \notin x.fromID[r.from] /\ r.to = e)
  BY <1>1, <1>4
<1>7. \A r : r \in y.all <=> r \in x.all \/ (r \in R /\ r \notin x.fromID[r.from])
  BY <1>1, <1>2
<1> QED BY <1>3, <1>5, <1>6, <1>7 DEF Adds

\* What Remove does.
Removes(x, d, y) ==
  /\ \A r : r \in y.all <=> r \in x.all /\ r.from # d /\ r.to # d
  /\ \A e \in EntityID : \A r :
       /\ r \in y.fromID[e] <=> e # d /\ r \in x.fromID[e]
       /\ r \in DOMAIN y.toID[e] <=> e # d /\ r \in DOMAIN x.toID[e]

\* Removing an ID keeps the tables in order.
LEMMA RemoveFacts ==
  ASSUME NEW x, FiledTables(x), NEW d \in EntityID, NEW y, y = Idx!RemoveEnd(x, d)
  PROVE  FiledTables(y) /\ Removes(x, d, y)
<1>1. /\ y.all = {r \in x.all : r.from # d /\ r.to # d}
      /\ y.fromID = [x.fromID EXCEPT ![d] = {}]
      /\ y.toID = [x.toID EXCEPT ![d] = Idx!EmptyBag]
  BY DEF Idx!RemoveEnd
<1>2. DOMAIN Idx!EmptyBag = {}
  BY DEF Idx!EmptyBag, Idx!SetToBag
<1>3. DOMAIN y.fromID = EntityID /\ DOMAIN y.toID = EntityID
  BY <1>1 DEF FiledTables
<1>4. ASSUME NEW e \in EntityID, NEW r
      PROVE  /\ r \in y.fromID[e] <=> e # d /\ r \in x.fromID[e]
             /\ r \in DOMAIN y.toID[e] <=> e # d /\ r \in DOMAIN x.toID[e]
  BY <1>1, <1>2 DEF FiledTables
<1>5. FiledTables(y)
  BY <1>3, <1>4 DEF FiledTables
<1> QED BY <1>1, <1>4, <1>5 DEF Removes

\* What Replace does to a relationship to something else.
Moves(x, og, rep, y, r) ==
  /\ r.from \notin {og, rep} => /\ r \in y.all <=> r \in x.all
                                /\ r \in y.fromID[r.from] <=> r \in x.fromID[r.from]
  /\ r.from = og => r \notin y.fromID[og]
  /\ r.from = rep /\ r \notin x.fromID[rep] /\ r \notin x.all =>
       /\ r \in y.fromID[rep] <=> r \in y.all
       /\ r \in y.all => Of(og, r) \in x.fromID[og]
       /\ Of(og, r) \in x.fromID[og] /\ DOMAIN x.toID[r.to] # {} => r \in y.all
  /\ r \in y.fromID[r.from] => r \in x.fromID[r.from] \/ r \in DOMAIN y.toID[r.to]
  /\ r \in DOMAIN x.toID[r.to] => r \in DOMAIN y.toID[r.to]

\* A package that is neither the old nor the new one keeps what it has.
LEMMA MovesNothingElse ==
  ASSUME NEW x, NEW og, NEW rep, NEW y, NEW r, Moves(x, og, rep, y, r), r.from \notin {og, rep}
  PROVE  /\ r \in y.all <=> r \in x.all
         /\ r \in y.fromID[r.from] <=> r \in x.fromID[r.from]
BY DEF Moves

\* Replacing an ID keeps the tables in order and moves what it should: what the
\* old ID had, where the target is known to be pointed at.
LEMMA ReplaceFacts ==
  ASSUME NEW x, FiledTables(x), NEW og \in EntityID, NEW rep \in EntityID, og # rep,
         NEW y, y = Idx!Replace(x, og, rep)
  PROVE  /\ FiledTables(y)
         /\ \A r \in Relation : r.to \notin {og, rep} => Moves(x, og, rep, y, r)
<1> DEFINE O == {[r EXCEPT !.from = rep] :
                   r \in {s \in x.fromID[og] : x.toID[s.to] # Idx!EmptyBag}}
           u == Idx!Add(x, O)
           N == {[r EXCEPT !.to = rep] :
                   r \in {s \in DOMAIN u.toID[og] : u.fromID[s.to] # {}}}
           v == Idx!Add(u, N)
<1>1. y = Idx!RemoveEnd(v, og)
  BY DEF Idx!Replace, Idx!RewireOutgoing, Idx!RewireIncoming, Idx!BagToSet
<1>2. O \subseteq Relation
  <2> SUFFICES ASSUME NEW s \in x.fromID[og] PROVE [s EXCEPT !.from = rep] \in Relation
    OBVIOUS
  <2>1. s \in Relation
    BY DEF FiledTables
  <2> QED BY <2>1 DEF Relation, Idx!Rel
<1>3. ASSUME NEW r \in Relation
      PROVE  /\ r \in O => r.from = rep /\ Of(og, r) \in x.fromID[og]
             /\ r.from = rep /\ Of(og, r) \in x.fromID[og] /\ DOMAIN x.toID[r.to] # {} => r \in O
  <2>1. DOMAIN Idx!EmptyBag = {}
    BY DEF Idx!EmptyBag, Idx!SetToBag
  <2>2. ASSUME NEW s \in Relation
        PROVE  r = [s EXCEPT !.from = rep] /\ s.from = og <=> r.from = rep /\ s = Of(og, r)
    BY RelationFacts, <2>2 DEF Relation, Idx!Rel, Of
  <2>3. \A s \in x.fromID[og] : s \in Relation /\ s.from = og
    BY DEF FiledTables
  <2>4. Of(og, r) \in Relation /\ Of(og, r).to = r.to
    BY DEF Relation, Idx!Rel, Of
  <2> QED BY <2>1, <2>2, <2>3, <2>4
<1> HIDE DEF O
<1>4. FiledTables(u) /\ Adds(x, O, u)
  BY <1>2, AddFacts
<1> HIDE DEF u
<1>5. /\ N \subseteq Relation
      /\ \A r \in N : r.to = rep
  <2> SUFFICES ASSUME NEW s \in DOMAIN u.toID[og]
               PROVE  [s EXCEPT !.to = rep] \in Relation /\ [s EXCEPT !.to = rep].to = rep
    OBVIOUS
  <2>1. s \in Relation
    BY <1>4 DEF FiledTables
  <2> QED BY <2>1 DEF Relation, Idx!Rel
<1> HIDE DEF N
<1>6. FiledTables(v) /\ Adds(u, N, v)
  BY <1>4, <1>5, AddFacts
<1> HIDE DEF v
<1>7. FiledTables(y) /\ Removes(v, og, y)
  BY <1>1, <1>6, RemoveFacts
<1>8. ASSUME NEW r \in Relation, r.to \notin {og, rep}
      PROVE  /\ r \notin N /\ r.from \in EntityID /\ r.to \in EntityID
             /\ r \in y.all <=> (r \in x.all \/ (r \in O /\ r \notin x.fromID[r.from])) /\ r.from # og
             /\ r \in y.fromID[r.from] <=> r.from # og /\ (r \in x.fromID[r.from] \/ r \in O)
             /\ r \in DOMAIN y.toID[r.to] <=>
                  r \in DOMAIN x.toID[r.to] \/ (r \in O /\ r \notin x.fromID[r.from])
  <2>1. r \notin N /\ r.from \in EntityID /\ r.to \in EntityID
    BY <1>5, <1>8, RelationFacts
  <2> QED BY <1>4, <1>6, <1>7, <1>8, <2>1 DEF Adds, Removes
<1>9. ASSUME NEW r \in Relation, r.to \notin {og, rep} PROVE Moves(x, og, rep, y, r)
  <2>1. /\ r \in O => r.from = rep /\ Of(og, r) \in x.fromID[og]
        /\ r.from = rep /\ Of(og, r) \in x.fromID[og] /\ DOMAIN x.toID[r.to] # {} => r \in O
    BY <1>3
  <2>2. /\ r \in y.all <=> (r \in x.all \/ (r \in O /\ r \notin x.fromID[r.from])) /\ r.from # og
        /\ r \in y.fromID[r.from] <=> r.from # og /\ (r \in x.fromID[r.from] \/ r \in O)
        /\ r \in DOMAIN y.toID[r.to] <=>
             r \in DOMAIN x.toID[r.to] \/ (r \in O /\ r \notin x.fromID[r.from])
    BY <1>8, <1>9
  <2>3. r.from \notin {og, rep} => /\ r \in y.all <=> r \in x.all
                                   /\ r \in y.fromID[r.from] <=> r \in x.fromID[r.from]
    BY <2>1, <2>2
  <2>4. r.from = og => r \notin y.fromID[og]
    BY <2>2
  <2>5. r.from = rep /\ r \notin x.fromID[rep] /\ r \notin x.all =>
          /\ r \in y.fromID[rep] <=> r \in y.all
          /\ r \in y.all => Of(og, r) \in x.fromID[og]
          /\ Of(og, r) \in x.fromID[og] /\ DOMAIN x.toID[r.to] # {} => r \in y.all
    BY <2>1, <2>2
  <2>6. /\ r \in y.fromID[r.from] => r \in x.fromID[r.from] \/ r \in DOMAIN y.toID[r.to]
        /\ r \in DOMAIN x.toID[r.to] => r \in DOMAIN y.toID[r.to]
    BY <2>2
  <2> QED BY <2>3, <2>4, <2>5, <2>6 DEF Moves
<1> QED BY <1>7, <1>9

-----------------------------------------------------------------------------

\* What the rules make of a package, whoever asks.
LEMMA StubbedFacts ==
  ASSUME NEW p \in HashedID
  PROVE  Stubbed(p) \in HashedID /\ Stubbed(p).key = p.key
BY DEF Stubbed, HashedID

\* Packages of one result differ, whatever becomes of their fields.
LEMMA PackageFacts ==
  ASSUME InputInv
  PROVE  /\ Given \subseteq HashedID /\ HashedID \subseteq EntityID
         /\ \A n \in 1 .. NPkgs : pkgs[n] \in Given
         /\ \A p, q \in Given : p.key = q.key => p = q
         /\ \A p, q \in Given : q = Stubbed(p) => p = q
         /\ \A p, q \in Given : Stubbed(p) = Stubbed(q) => p = q
<1>1. /\ Given \subseteq HashedID /\ HashedID \subseteq EntityID
      /\ \A n \in 1 .. NPkgs : pkgs[n] \in Given
      /\ \A p, q \in Given : p.key = q.key => p = q
  BY DEF InputInv, Given, EntityID
<1> QED BY <1>1, StubbedFacts

\* What a cataloger relates are its packages and files.
LEMMA RelsFacts ==
  ASSUME InputInv, NEW r \in rels
  PROVE  r \in Relation /\ r.from \in Given /\ r.to \in Given \cup Files
<1>1. r \in Found(pkgs)
  BY DEF InputInv
<1>2. /\ Given = {pkgs[n] : n \in 1 .. NPkgs}
      /\ Given \subseteq EntityID /\ Files \subseteq EntityID
  BY PackageFacts DEF Given, EntityID
<1>3. \/ \E p, q \in Given : r = Link(p, q)
      \/ \E p \in Given, f \in Files : r = Owns(p, f)
  BY <1>1, <1>2 DEF Found
<1> QED BY <1>2, <1>3 DEF Link, Owns, Relation, Idx!Rel

\* A target is not what is dropped or replaced, nor what replaces it.
LEMMA TargetFacts ==
  ASSUME InputInv, NEW t \in Target, NEW p \in Given
  PROVE  /\ t \in EntityID
         /\ Drops(p) \/ Replaced(p) => t # p /\ t # Stubbed(p)
<1>1. CASE t \in Files
  BY <1>1, PackageFacts, StubbedFacts, FilesAssumption DEF EntityID
<1>2. CASE t \in Given /\ Untouched(t)
  <2>1. ~Drops(t) /\ ~Replaced(t)
    BY <1>2 DEF Untouched, Kept
  <2> QED BY <1>2, <2>1, PackageFacts
<1> QED BY <1>1, <1>2 DEF Target

\* The verdict on a package depends on the input alone.
LEMMA SameInput ==
  ASSUME UNCHANGED <<cfg, pkgs, rels>>
  PROVE  /\ Given' = Given
         /\ \A p : /\ Drops(p)' <=> Drops(p)
                   /\ Stubbed(p)' = Stubbed(p)
                   /\ Replaced(p)' <=> Replaced(p)
                   /\ Kept(p)' <=> Kept(p)
         /\ Target' = Target
<1>1. Given' = Given
  BY DEF Given
<1>2. ASSUME NEW p
      PROVE  /\ Drops(p)' <=> Drops(p)
             /\ Stubbed(p)' = Stubbed(p)
  BY DEF Drops, Stubbed
<1>3. ASSUME NEW p
      PROVE  /\ Replaced(p)' <=> Replaced(p)
             /\ Kept(p)' <=> Kept(p)
  BY <1>1, <1>2 DEF Replaced, Kept
<1>4. Target' = Target
  BY <1>1, <1>3 DEF Target, Untouched
<1> QED BY <1>1, <1>2, <1>3, <1>4

-----------------------------------------------------------------------------

\* The fields a cataloger can report, filled in or blank.
Reported == [name : {"", "given"}, version : {"", "given"}]

\* Filled in or blank, the fields make an ID.
LEMMA ReportedFacts ==
  ASSUME NEW m \in 1 .. NPkgs, NEW c \in Reported
  PROVE  /\ [key |-> m, name |-> c.name, version |-> c.version] \in HashedID
         /\ [key |-> m, name |-> c.name, version |-> c.version].key = m
<1>1. /\ c.name \in {"", "given", "UNKNOWN"}
      /\ c.version \in {"", "given", "UNKNOWN"}
  BY Zenon DEF Reported
<1>2. [key |-> m, name |-> c.name, version |-> c.version] \in HashedID
  BY <1>1, Zenon DEF HashedID
<1>3. [key |-> m, name |-> c.name, version |-> c.version].key = m
  OBVIOUS
<1> QED BY <1>2, <1>3

\* The invariant holds before the filter has seen anything.
LEMMA ComplianceStart == ComplianceInit => ComplianceInv
<1> SUFFICES ASSUME ComplianceInit PROVE ComplianceInv
  OBVIOUS
<1>1. InputInv
  <2>1. PICK size \in 0 .. MaxRels : rels \in kSubset(size, Found(pkgs))
    <3>1. rels \in UNION {kSubset(size, Found(pkgs)) : size \in 0 .. MaxRels}
      BY DEF ComplianceInit
    <3> QED BY <3>1
  <2>2. rels \subseteq Found(pkgs)
    BY <2>1 DEF kSubset
  <2>3. /\ pc \in {"filter", "remove", "replace", "done"} /\ i \in Nat \ {0}
        /\ cfg \in [missingName : Action, missingVersion : Action]
    <3>1. pc = "filter" /\ i = 1
      BY DEF ComplianceInit
    <3>2. cfg \in [missingName : Action, missingVersion : Action]
      BY DEF ComplianceInit
    <3> QED BY <3>1, <3>2
  <2>4. PICK content \in [1 .. NPkgs -> Reported] :
          pkgs = [n \in 1 .. NPkgs |-> [key |-> n, name |-> content[n].name,
                                        version |-> content[n].version]]
    BY DEF ComplianceInit, Reported
  <2>5. ASSUME NEW m \in 1 .. NPkgs PROVE pkgs[m] \in HashedID /\ pkgs[m].key = m
    <3>1. content[m] \in Reported
      BY <2>4
    <3>2. pkgs[m] = [key |-> m, name |-> content[m].name, version |-> content[m].version]
      BY <2>4
    <3> QED BY <3>1, <3>2, ReportedFacts
  <2>6. pkgs \in [1 .. NPkgs -> HashedID]
    BY <2>4, <2>5
  <2> QED BY <2>2, <2>3, <2>5, <2>6 DEF InputInv
<1>2. FilterInv
  <2>1. /\ pc = "filter" /\ i = 1 /\ dropped = <<>> /\ replacements = <<>>
    BY DEF ComplianceInit
  <2>2. Filtered = 0 /\ Len(dropped) = 0 /\ Len(replacements) = 0
    BY <2>1 DEF Filtered
  <2>3. 1 .. 0 = {} /\ <<>> \in Seq(HashedID) /\ <<>> \in Seq([original : HashedID, pkg : HashedID])
    OBVIOUS
  <2> QED BY <2>1, <2>2, <2>3, NPkgsAssumption DEF FilterInv
<1>3. IndexInv /\ DropInv
  <2>1. pc = "filter"
    BY DEF ComplianceInit
  <2> QED BY <2>1 DEF IndexInv, DropInv
<1> QED BY <1>1, <1>2, <1>3 DEF ComplianceInv

\* No step touches the input.
LEMMA InputStep ==
  ASSUME InputInv, ComplianceNext
  PROVE  InputInv'
<1>1. UNCHANGED <<cfg, pkgs, rels>>
  BY DEF ComplianceNext, FilterPackage, BuildIndex, RemoveDropped, StartReplacing,
         ReplaceStubbed, Return
<1>2. pc' = pc \/ pc' \in {"remove", "replace", "done"}
  BY DEF ComplianceNext, FilterPackage, BuildIndex, RemoveDropped, StartReplacing,
         ReplaceStubbed, Return
<1>3. i' \in {1, i, i + 1}
  BY DEF ComplianceNext, FilterPackage, BuildIndex, RemoveDropped, StartReplacing,
         ReplaceStubbed, Return
<1>4. Found(pkgs)' = Found(pkgs)
  BY <1>1 DEF Found, Link, Owns
<1>5. pc' \in {"filter", "remove", "replace", "done"}
  BY <1>2 DEF InputInv
<1>6. i' \in Nat \ {0}
  BY <1>3 DEF InputInv
<1> QED BY <1>1, <1>4, <1>5, <1>6 DEF InputInv

\* A sequence that may grow by one.
LEMMA Grown ==
  ASSUME NEW T, NEW s \in Seq(T), NEW x \in T
  PROVE  /\ Append(s, x) \in Seq(T)
         /\ Len(s) \in Nat /\ Len(Append(s, x)) = Len(s) + 1
         /\ Append(s, x)[Len(s) + 1] = x
         /\ \A j \in 1 .. Len(s) : Append(s, x)[j] = s[j]
OBVIOUS

\* One turn of the filter adds the next package to what is decided.
LEMMA FilterStep ==
  ASSUME InputInv, FilterInv, FilterPackage
  PROVE  FilterInv'
<1> DEFINE p == pkgs[i]
           q == Stubbed(p)
           e == [original |-> p, pkg |-> q]
<1>1. /\ pc = "filter" /\ pc' = "filter" /\ i \in 1 .. NPkgs /\ i' = i + 1
      /\ UNCHANGED <<cfg, pkgs, rels>>
      /\ Filtered = i - 1 /\ Filtered' = i
      /\ NPkgs \in Nat /\ i \in Nat
  BY NPkgsAssumption DEF InputInv, FilterPackage, Filtered
<1>2. p \in HashedID /\ q \in HashedID /\ e \in [original : HashedID, pkg : HashedID]
  BY <1>1, StubbedFacts DEF InputInv
<1>3. /\ Drops(p) => dropped' = Append(dropped, q)
      /\ ~Drops(p) => dropped' = dropped
      /\ Replaced(p) => replacements' = Append(replacements, e)
      /\ ~Replaced(p) => replacements' = replacements
  BY DEF FilterPackage
<1>4. \A n \in 1 .. i : /\ pkgs'[n] = pkgs[n]
                        /\ n = i \/ n \in 1 .. i - 1
                        /\ n # i => pkgs[n] # p
  BY <1>1 DEF InputInv
<1>5. \A r : /\ Drops(r)' <=> Drops(r)
             /\ Stubbed(r)' = Stubbed(r)
             /\ Replaced(r)' <=> Replaced(r)
  BY <1>1, SameInput
<1>6. /\ dropped' \in Seq(HashedID)
      /\ \A j \in 1 .. Len(dropped') :
            \E n \in 1 .. i : Drops(pkgs[n]) /\ dropped'[j] = Stubbed(pkgs[n])
      /\ \A n \in 1 .. i :
            Drops(pkgs[n]) => \E j \in 1 .. Len(dropped') : dropped'[j] = Stubbed(pkgs[n])
  <2>1. /\ dropped \in Seq(HashedID)
        /\ \A j \in 1 .. Len(dropped) :
              \E n \in 1 .. i - 1 : Drops(pkgs[n]) /\ dropped[j] = Stubbed(pkgs[n])
        /\ \A n \in 1 .. i - 1 :
              Drops(pkgs[n]) => \E j \in 1 .. Len(dropped) : dropped[j] = Stubbed(pkgs[n])
    BY <1>1 DEF FilterInv
  <2>2. CASE Drops(p)
    <3>1. /\ dropped' \in Seq(HashedID) /\ Len(dropped) \in Nat
          /\ Len(dropped') = Len(dropped) + 1
          /\ dropped'[Len(dropped) + 1] = q
          /\ \A j \in 1 .. Len(dropped) : dropped'[j] = dropped[j]
      <4> HIDE DEF p, q
      <4>1. dropped' = Append(dropped, q)
        BY <1>3, <2>2
      <4>2. q \in HashedID /\ dropped \in Seq(HashedID)
        BY <1>2, <2>1
      <4> QED BY <4>1, <4>2, Grown
    <3> HIDE DEF p, q
    <3>2. ASSUME NEW j \in 1 .. Len(dropped')
          PROVE  \E n \in 1 .. i : Drops(pkgs[n]) /\ dropped'[j] = Stubbed(pkgs[n])
      <4>1. CASE j = Len(dropped) + 1
        <5>1. i \in 1 .. i /\ Drops(pkgs[i]) /\ dropped'[j] = Stubbed(pkgs[i])
          BY <1>1, <2>2, <3>1, <4>1 DEF p, q
        <5> QED BY <5>1
      <4>2. CASE j \in 1 .. Len(dropped)
        <5>1. PICK n \in 1 .. i - 1 : Drops(pkgs[n]) /\ dropped[j] = Stubbed(pkgs[n])
          BY <2>1, <4>2
        <5>2. n \in 1 .. i /\ dropped'[j] = dropped[j]
          BY <1>1, <3>1, <4>2
        <5> QED BY <5>1, <5>2
      <4> QED BY <3>1, <4>1, <4>2
    <3>3. ASSUME NEW n \in 1 .. i, Drops(pkgs[n])
          PROVE  \E j \in 1 .. Len(dropped') : dropped'[j] = Stubbed(pkgs[n])
      <4>1. CASE n = i
        <5>1. Stubbed(pkgs[n]) = q /\ Len(dropped) + 1 \in 1 .. Len(dropped')
          BY <3>1, <4>1 DEF p, q
        <5> QED BY <3>1, <5>1
      <4>2. CASE n \in 1 .. i - 1
        <5>1. PICK j \in 1 .. Len(dropped) : dropped[j] = Stubbed(pkgs[n])
          BY <2>1, <3>3, <4>2
        <5>2. j \in 1 .. Len(dropped') /\ dropped'[j] = dropped[j]
          BY <3>1, <5>1
        <5> QED BY <5>1, <5>2
      <4> QED BY <1>4, <4>1, <4>2
    <3> QED BY <3>1, <3>2, <3>3
  <2>3. CASE ~Drops(p)
    <3>1. dropped' = dropped
      BY <1>3, <2>3
    <3>2. \A n \in 1 .. i : Drops(pkgs[n]) => n \in 1 .. i - 1
      BY <1>4, <2>3
    <3>3. \A n \in 1 .. i - 1 : n \in 1 .. i
      BY <1>1
    <3> HIDE DEF p, q
    <3> QED BY <2>1, <3>1, <3>2, <3>3
  <2> QED BY <2>2, <2>3
<1>7. /\ replacements' \in Seq([original : HashedID, pkg : HashedID])
      /\ \A j \in 1 .. Len(replacements') :
            \E n \in 1 .. i : /\ Replaced(pkgs[n])
                              /\ replacements'[j].original = pkgs[n]
                              /\ replacements'[j].pkg = Stubbed(pkgs[n])
      /\ \A n \in 1 .. i :
            Replaced(pkgs[n]) => \E j \in 1 .. Len(replacements') : replacements'[j].original = pkgs[n]
      /\ \A j, k \in 1 .. Len(replacements') :
            replacements'[j].original = replacements'[k].original => j = k
  <2>1. /\ replacements \in Seq([original : HashedID, pkg : HashedID])
        /\ \A j \in 1 .. Len(replacements) :
              \E n \in 1 .. i - 1 : /\ Replaced(pkgs[n])
                                    /\ replacements[j].original = pkgs[n]
                                    /\ replacements[j].pkg = Stubbed(pkgs[n])
        /\ \A n \in 1 .. i - 1 :
              Replaced(pkgs[n]) => \E j \in 1 .. Len(replacements) : replacements[j].original = pkgs[n]
        /\ \A j, k \in 1 .. Len(replacements) :
              replacements[j].original = replacements[k].original => j = k
    BY <1>1 DEF FilterInv
  <2>2. CASE Replaced(p)
    <3>1. /\ replacements' \in Seq([original : HashedID, pkg : HashedID])
          /\ Len(replacements) \in Nat
          /\ Len(replacements') = Len(replacements) + 1
          /\ replacements'[Len(replacements) + 1] = e
          /\ \A j \in 1 .. Len(replacements) : replacements'[j] = replacements[j]
      <4> HIDE DEF p, q, e
      <4>1. replacements' = Append(replacements, e)
        BY <1>3, <2>2
      <4>2. /\ e \in [original : HashedID, pkg : HashedID]
            /\ replacements \in Seq([original : HashedID, pkg : HashedID])
        BY <1>2, <2>1
      <4> QED BY <4>1, <4>2, Grown
    <3>2. e.original = p /\ e.pkg = q
      OBVIOUS
    <3> HIDE DEF p, q, e
    <3>3. ASSUME NEW j \in 1 .. Len(replacements')
          PROVE  /\ j = Len(replacements) + 1 => replacements'[j] = e
                 /\ j # Len(replacements) + 1 =>
                      /\ j \in 1 .. Len(replacements) /\ replacements'[j] = replacements[j]
                      /\ replacements'[j].original # p
      <4>1. j # Len(replacements) + 1 =>
              j \in 1 .. Len(replacements) /\ replacements'[j] = replacements[j]
        BY <3>1
      <4>2. \A n \in 1 .. i - 1 : pkgs[n] # p
        BY <1>1, <1>4
      <4>3. j \in 1 .. Len(replacements) => replacements[j].original # p
        BY <2>1, <4>2
      <4> QED BY <3>1, <4>1, <4>3
    <3>4. ASSUME NEW j \in 1 .. Len(replacements')
          PROVE  \E n \in 1 .. i : /\ Replaced(pkgs[n])
                                   /\ replacements'[j].original = pkgs[n]
                                   /\ replacements'[j].pkg = Stubbed(pkgs[n])
      <4>1. CASE j = Len(replacements) + 1
        <5>1. i \in 1 .. i /\ Replaced(pkgs[i])
          BY <1>1, <2>2 DEF p
        <5>2. replacements'[j].original = pkgs[i] /\ replacements'[j].pkg = Stubbed(pkgs[i])
          BY <3>2, <3>3, <4>1 DEF p, q
        <5> QED BY <5>1, <5>2
      <4>2. CASE j # Len(replacements) + 1
        <5>1. j \in 1 .. Len(replacements) /\ replacements'[j] = replacements[j]
          BY <3>3, <4>2
        <5>2. PICK n \in 1 .. i - 1 : /\ Replaced(pkgs[n])
                                      /\ replacements[j].original = pkgs[n]
                                      /\ replacements[j].pkg = Stubbed(pkgs[n])
          BY <2>1, <5>1
        <5>3. n \in 1 .. i
          BY <1>1, <5>2
        <5> QED BY <5>1, <5>2, <5>3
      <4> QED BY <4>1, <4>2
    <3>5. ASSUME NEW n \in 1 .. i, Replaced(pkgs[n])
          PROVE  \E j \in 1 .. Len(replacements') : replacements'[j].original = pkgs[n]
      <4>1. CASE n = i
        <5>1. pkgs[n] = p /\ Len(replacements) + 1 \in 1 .. Len(replacements')
          BY <3>1, <4>1 DEF p
        <5> QED BY <3>1, <3>2, <5>1
      <4>2. CASE n \in 1 .. i - 1
        <5>1. PICK j \in 1 .. Len(replacements) : replacements[j].original = pkgs[n]
          BY <2>1, <3>5, <4>2
        <5>2. j \in 1 .. Len(replacements') /\ replacements'[j] = replacements[j]
          BY <3>1, <5>1
        <5> QED BY <5>1, <5>2
      <4> QED BY <1>4, <4>1, <4>2
    <3>6. ASSUME NEW j \in 1 .. Len(replacements'), NEW k \in 1 .. Len(replacements'),
                 replacements'[j].original = replacements'[k].original
          PROVE  j = k
      <4>1. CASE j = Len(replacements) + 1 \/ k = Len(replacements) + 1
        BY <3>2, <3>3, <3>6, <4>1
      <4>2. CASE j # Len(replacements) + 1 /\ k # Len(replacements) + 1
        <5>1. /\ j \in 1 .. Len(replacements) /\ k \in 1 .. Len(replacements)
              /\ replacements[j].original = replacements[k].original
          BY <3>3, <3>6, <4>2
        <5> QED BY <2>1, <5>1
      <4> QED BY <4>1, <4>2
    <3> QED BY <3>1, <3>4, <3>5, <3>6
  <2>3. CASE ~Replaced(p)
    <3>1. replacements' = replacements
      BY <1>3, <2>3
    <3>2. \A n \in 1 .. i : Replaced(pkgs[n]) => n \in 1 .. i - 1
      BY <1>4, <2>3
    <3>3. \A n \in 1 .. i - 1 : n \in 1 .. i
      BY <1>1
    <3> HIDE DEF p, q, e
    <3> QED BY <2>1, <3>1, <3>2, <3>3
  <2> QED BY <2>2, <2>3
<1> HIDE DEF p, q, e
<1>8. pc' # "remove" /\ pc' # "done" /\ i' <= NPkgs + 1
  BY <1>1
<1>9. \A n \in 1 .. Filtered' :
           /\ n \in 1 .. i
           /\ pkgs'[n] = pkgs[n]
           /\ Drops(pkgs[n])' <=> Drops(pkgs[n])
           /\ Stubbed(pkgs[n])' = Stubbed(pkgs[n])
           /\ Replaced(pkgs[n])' <=> Replaced(pkgs[n])
  BY <1>1, <1>4, <1>5
<1> QED BY <1>1, <1>6, <1>7, <1>8, <1>9 DEF FilterInv

\* Once it is over, what the filter decided stays.
LEMMA FilterKept ==
  ASSUME InputInv, FilterInv, UNCHANGED <<cfg, pkgs, rels, dropped, replacements>>,
         Filtered' = Filtered, pc' # "filter",
         pc' = "remove" => i' <= Len(dropped) + 1,
         pc' = "done" => i' > Len(replacements)
  PROVE  FilterInv'
<1>1. \A p : /\ Drops(p)' <=> Drops(p)
             /\ Stubbed(p)' = Stubbed(p)
             /\ Replaced(p)' <=> Replaced(p)
  BY SameInput
<1> QED BY <1>1 DEF FilterInv

\* What is dropped is a package that was given, as its rules left it.
LEMMA DroppedFacts ==
  ASSUME InputInv, FilterInv, NEW j \in 1 .. Len(dropped)
  PROVE  \E q \in Given : Drops(q) /\ dropped[j] = Stubbed(q)
<1>1. PICK n \in 1 .. Filtered : Drops(pkgs[n]) /\ dropped[j] = Stubbed(pkgs[n])
  BY DEF FilterInv
<1>2. n \in 1 .. NPkgs
  BY <1>1, NPkgsAssumption DEF Filtered, FilterInv, InputInv
<1> QED BY <1>1, <1>2, PackageFacts

\* A replacement is a given package and what its rules made of it.
LEMMA ReplacementFacts ==
  ASSUME InputInv, FilterInv, NEW j \in 1 .. Len(replacements)
  PROVE  \E q \in Given : /\ Replaced(q)
                          /\ replacements[j].original = q
                          /\ replacements[j].pkg = Stubbed(q)
<1>1. PICK n \in 1 .. Filtered : /\ Replaced(pkgs[n])
                                 /\ replacements[j].original = pkgs[n]
                                 /\ replacements[j].pkg = Stubbed(pkgs[n])
  BY DEF FilterInv
<1>2. n \in 1 .. NPkgs
  BY <1>1, NPkgsAssumption DEF Filtered, FilterInv, InputInv
<1> QED BY <1>1, <1>2, PackageFacts

\* The index just built knows what the cataloger reported.
LEMMA BuildStep ==
  ASSUME ComplianceInv, BuildIndex
  PROVE  FilterInv' /\ IndexInv' /\ DropInv'
<1>1. /\ pc = "filter" /\ i > NPkgs /\ relIdx' = Idx!Add(Idx!EmptyIndex, rels)
      /\ pc' = "remove" /\ i' = 1
      /\ UNCHANGED <<cfg, pkgs, rels, dropped, replacements>>
      /\ InputInv /\ FilterInv
  BY DEF BuildIndex, Idx!NewIndex, ComplianceInv
<1>2. FilterInv'
  <2>1. i = NPkgs + 1
    BY <1>1, NPkgsAssumption DEF FilterInv, InputInv
  <2>2. Filtered' = Filtered
    BY <1>1, <2>1, NPkgsAssumption DEF Filtered
  <2>3. Len(dropped) \in Nat
    BY <1>1 DEF FilterInv
  <2> QED BY <1>1, <2>2, <2>3, FilterKept
<1>3. /\ Given' = Given /\ Target' = Target
      /\ \A p : Stubbed(p)' = Stubbed(p) /\ (Kept(p)' <=> Kept(p))
  BY <1>1, SameInput
<1>4. rels \subseteq Relation /\ (\A r \in rels : r.from \in EntityID /\ r.to \in EntityID)
  BY <1>1, RelsFacts, RelationFacts
<1>5. FiledTables(relIdx') /\ Adds(Idx!EmptyIndex, rels, relIdx')
  BY <1>1, <1>4, EmptyFiled, AddFacts
<1>6. ASSUME NEW r
      PROVE  r \in relIdx'.all <=> r \in rels
  <2>1. r \in rels => r \notin Idx!EmptyIndex.fromID[r.from]
    BY <1>4, EmptyFiled
  <2> QED BY <1>5, <2>1, EmptyFiled DEF Adds
<1>7. ASSUME NEW r \in Relation
      PROVE  /\ r \in relIdx'.fromID[r.from] <=> r \in rels
             /\ r \in DOMAIN relIdx'.toID[r.to] <=> r \in rels
  <2>1. r.from \in EntityID /\ r.to \in EntityID
    BY RelationFacts
  <2>2. r \notin Idx!EmptyIndex.fromID[r.from] /\ r \notin DOMAIN Idx!EmptyIndex.toID[r.to]
    BY <2>1, EmptyFiled
  <2> QED BY <1>5, <2>1, <2>2 DEF Adds
<1>8. IndexInv'
  <2>1. Pointed(relIdx)'
    BY <1>3, <1>7 DEF Pointed
  <2>2. FiledTables(relIdx)'
    BY <1>5 DEF FiledTables
  <2>3. ASSUME NEW p \in Given, NEW r \in Relation
        PROVE  Knows(p, r)'
    <3>1. Now(p)' = p
      BY <1>1 DEF Now, Rewired
    <3>2. r.from = p => Of(p, r) = r
      BY RelationFacts DEF Of
    <3>3. r.from = Stubbed(p) /\ p # Stubbed(p) => r \notin rels
      BY <1>1, RelsFacts, PackageFacts
    <3>4. Stubbed(p)' = Stubbed(p) /\ Of(p, r)' = Of(p, r)
      BY <1>3 DEF Of
    <3> QED BY <1>1, <1>6, <1>7, <3>1, <3>2, <3>3, <3>4 DEF Knows
  <2> QED BY <1>3, <2>1, <2>2, <2>3 DEF IndexInv
<1>9. DropInv'
  <2>1. Removed' = 0
    BY <1>1 DEF Removed
  <2>2. Result' = relIdx'.all
    BY DEF Result, Idx!All
  <2> QED BY <1>1, <1>6, <2>1, <2>2 DEF DropInv
<1> QED BY <1>2, <1>8, <1>9

\* Removing a package that goes tells the index nothing about one that stays.
LEMMA RemoveStep ==
  ASSUME ComplianceInv, RemoveDropped
  PROVE  FilterInv' /\ IndexInv' /\ DropInv'
<1>1. /\ pc = "remove" /\ pc' = "remove" /\ i \in 1 .. Len(dropped) /\ i' = i + 1
      /\ relIdx' = Idx!RemoveEnd(relIdx, dropped[i])
      /\ UNCHANGED <<cfg, pkgs, rels, dropped, replacements>>
      /\ InputInv /\ FilterInv /\ IndexInv /\ DropInv
      /\ Len(dropped) \in Nat
  BY DEF RemoveDropped, ComplianceInv, InputInv, FilterInv
<1>2. FilterInv'
  <2>1. Filtered' = Filtered /\ i' <= Len(dropped) + 1
    BY <1>1 DEF Filtered
  <2> QED BY <1>1, <2>1, FilterKept
<1>3. /\ Given' = Given /\ Target' = Target
      /\ \A p : /\ Stubbed(p)' = Stubbed(p)
                /\ Kept(p)' <=> Kept(p)
                /\ Replaced(p)' <=> Replaced(p)
  BY <1>1, SameInput
<1>4. PICK q \in Given : Drops(q) /\ dropped[i] = Stubbed(q)
  BY <1>1, DroppedFacts
<1>5. q \in HashedID /\ Stubbed(q) \in HashedID /\ Stubbed(q) \in EntityID
  BY <1>1, <1>4, PackageFacts, StubbedFacts
<1>6. FiledTables(relIdx) /\ Pointed(relIdx)
  BY <1>1 DEF IndexInv
<1>7. FiledTables(relIdx') /\ Removes(relIdx, Stubbed(q), relIdx')
  BY <1>1, <1>4, <1>5, <1>6, RemoveFacts
<1>8. ASSUME NEW r \in Relation, r.to \in Target
      PROVE  /\ r.from \in EntityID /\ r.to \in EntityID /\ r.to # Stubbed(q)
             /\ r \in relIdx'.all <=> r \in relIdx.all /\ r.from # Stubbed(q)
             /\ r \in relIdx'.fromID[r.from] <=>
                  r \in relIdx.fromID[r.from] /\ r.from # Stubbed(q)
             /\ r \in DOMAIN relIdx'.toID[r.to] <=> r \in DOMAIN relIdx.toID[r.to]
  <2>1. r.from \in EntityID /\ r.to \in EntityID
    BY RelationFacts
  <2>2. r.to # Stubbed(q)
    BY <1>1, <1>4, <1>8, TargetFacts
  <2> QED BY <1>7, <2>1, <2>2 DEF Removes
<1>9. IndexInv'
  <2>1. Pointed(relIdx)'
    BY <1>3, <1>6, <1>8 DEF Pointed
  <2>2. FiledTables(relIdx)'
    BY <1>7 DEF FiledTables
  <2>3. ASSUME NEW p \in Given, Kept(p), NEW r \in Relation, r.to \in Target
        PROVE  Knows(p, r)'
    <3>1. Knows(p, r)
      BY <1>1, <2>3 DEF IndexInv
    <3>2. Now(p) = p /\ Now(p)' = p
      BY <1>1 DEF Now, Rewired
    <3>3. ~Drops(p)
      BY <2>3 DEF Kept
    <3>4. p # Stubbed(q) /\ Stubbed(p) # Stubbed(q)
      BY <1>1, <1>4, <3>3, PackageFacts
    <3>5. r.from = p \/ r.from = Stubbed(p) =>
            /\ r \in relIdx'.all <=> r \in relIdx.all
            /\ r \in relIdx'.fromID[r.from] <=> r \in relIdx.fromID[r.from]
      BY <1>8, <2>3, <3>4
    <3>6. Stubbed(p)' = Stubbed(p) /\ Of(p, r)' = Of(p, r)
      BY <1>3 DEF Of
    <3> QED BY <1>1, <3>1, <3>2, <3>5, <3>6 DEF Knows
  <2> QED BY <1>3, <2>1, <2>2, <2>3 DEF IndexInv
<1>10. DropInv'
  <2>1. Removed = i - 1 /\ Removed' = i /\ i \in Nat \ {0}
    BY <1>1 DEF Removed
  <2>2. Result = relIdx.all /\ Result' = relIdx'.all
    BY DEF Result, Idx!All
  <2>3. \A r : r \in relIdx'.all <=> r \in relIdx.all /\ r.from # dropped[i] /\ r.to # dropped[i]
    BY <1>4, <1>7 DEF Removes
  <2>4. SUFFICES ASSUME \A p \in Given : ~Replaced(p), NEW r
                 PROVE  r \in Result' <=>
                          r \in rels /\ \A j \in 1 .. i : r.from # dropped[j] /\ r.to # dropped[j]
    BY <1>1, <1>3, <2>1 DEF DropInv
  <2>5. r \in Result <=>
          r \in rels /\ \A j \in 1 .. i - 1 : r.from # dropped[j] /\ r.to # dropped[j]
    BY <1>1, <2>1, <2>4 DEF DropInv
  <2>6. \A j \in 1 .. i : j = i \/ j \in 1 .. i - 1
    BY <2>1
  <2>7. i \in 1 .. i /\ \A j \in 1 .. i - 1 : j \in 1 .. i
    BY <2>1
  <2> QED BY <2>2, <2>3, <2>5, <2>6, <2>7
<1> QED BY <1>2, <1>9, <1>10

\* Between the loops nothing is looked at.
LEMMA BetweenStep ==
  ASSUME ComplianceInv, StartReplacing \/ Return
  PROVE  FilterInv' /\ IndexInv' /\ DropInv'
<1>1. /\ UNCHANGED <<cfg, pkgs, rels, dropped, replacements, relIdx>>
      /\ InputInv /\ FilterInv /\ IndexInv /\ DropInv
      /\ Len(dropped) \in Nat
  BY DEF StartReplacing, Return, ComplianceInv, FilterInv
<1>2. /\ pc \in {"remove", "replace"} /\ pc' \in {"replace", "done"}
      /\ pc = "remove" => i > Len(dropped) /\ i' = 1 /\ pc' = "replace"
      /\ pc = "replace" => pc' = "done" /\ i' = i /\ i > Len(replacements)
      /\ i \in Nat
  BY <1>1 DEF StartReplacing, Return, InputInv
<1>3. FilterInv'
  <2>1. Filtered' = Filtered
    BY <1>2 DEF Filtered
  <2> QED BY <1>1, <1>2, <2>1, FilterKept
<1>4. /\ Given' = Given /\ Target' = Target
      /\ \A p : /\ Stubbed(p)' = Stubbed(p)
                /\ Kept(p)' <=> Kept(p)
                /\ Replaced(p)' <=> Replaced(p)
  BY <1>1, SameInput
<1>5. \A p : Now(p)' = Now(p)
  <2>1. ASSUME NEW p PROVE Rewired(p)' <=> Rewired(p)
    BY <1>1, <1>2 DEF Rewired
  <2> QED BY <1>4, <2>1 DEF Now
<1>6. IndexInv'
  <2>1. ASSUME NEW p, NEW r PROVE Knows(p, r)' <=> Knows(p, r)
    BY <1>1, <1>4, <1>5 DEF Knows, Of
  <2>2. Pointed(relIdx)' <=> Pointed(relIdx)
    BY <1>1, <1>4 DEF Pointed
  <2>3. FiledTables(relIdx)' <=> FiledTables(relIdx)
    BY <1>1 DEF FiledTables
  <2> QED BY <1>1, <1>2, <1>4, <2>1, <2>2, <2>3 DEF IndexInv
<1>7. DropInv'
  <2>1. Removed' = Removed
    BY <1>1, <1>2 DEF Removed, FilterInv
  <2>2. Result' = Result
    BY <1>1 DEF Result
  <2> QED BY <1>1, <1>2, <1>4, <2>1, <2>2 DEF DropInv
<1> QED BY <1>3, <1>6, <1>7

\* The index is told the new ID of one package and forgets the old one.
LEMMA ReplaceStep ==
  ASSUME ComplianceInv, ReplaceStubbed
  PROVE  FilterInv' /\ IndexInv' /\ DropInv'
<1>1. /\ pc = "replace" /\ pc' = "replace" /\ i \in 1 .. Len(replacements) /\ i' = i + 1
      /\ relIdx' = Idx!Replace(relIdx, replacements[i].original, replacements[i].pkg)
      /\ UNCHANGED <<cfg, pkgs, rels, dropped, replacements>>
      /\ InputInv /\ FilterInv /\ IndexInv
      /\ Len(replacements) \in Nat /\ i \in Nat
  BY DEF ReplaceStubbed, ComplianceInv, InputInv, FilterInv
<1>2. FilterInv'
  <2>1. Filtered' = Filtered
    BY <1>1 DEF Filtered
  <2> QED BY <1>1, <2>1, FilterKept
<1>3. /\ Given' = Given /\ Target' = Target
      /\ \A p : /\ Stubbed(p)' = Stubbed(p)
                /\ Kept(p)' <=> Kept(p)
                /\ Replaced(p)' <=> Replaced(p)
  BY <1>1, SameInput
<1>4. PICK q \in Given : /\ Replaced(q)
                         /\ replacements[i].original = q
                         /\ replacements[i].pkg = Stubbed(q)
  BY <1>1, ReplacementFacts
<1>5. q \in HashedID /\ q \in EntityID /\ Stubbed(q) \in EntityID /\ q # Stubbed(q)
  BY <1>1, <1>4, PackageFacts, StubbedFacts DEF Replaced
<1>6. FiledTables(relIdx) /\ Pointed(relIdx)
  BY <1>1 DEF IndexInv
<1>7. /\ FiledTables(relIdx')
      /\ \A r \in Relation : r.to \notin {q, Stubbed(q)} => Moves(relIdx, q, Stubbed(q), relIdx', r)
  BY <1>1, <1>4, <1>5, <1>6, ReplaceFacts
<1>8. ASSUME NEW r \in Relation, r.to \in Target
      PROVE  Moves(relIdx, q, Stubbed(q), relIdx', r)
  BY <1>1, <1>4, <1>7, <1>8, TargetFacts
<1>9. ASSUME NEW p
      PROVE  Rewired(p)' <=> Rewired(p) \/ p = q
  <2>1. \A j : j \in 1 .. i' - 1 <=> j = i \/ j \in 1 .. i - 1
    BY <1>1
  <2> QED BY <1>1, <1>4, <2>1 DEF Rewired
<1>10. ~Rewired(q)
  <2>1. ASSUME NEW j \in 1 .. i - 1 PROVE replacements[j].original # q
    <3>1. j \in 1 .. Len(replacements) /\ j # i
      BY <1>1
    <3> QED BY <1>1, <1>4, <3>1 DEF FilterInv
  <2> QED BY <1>1, <2>1 DEF Rewired
<1>11. IndexInv'
  <2>1. Pointed(relIdx)'
    <3>1. ASSUME NEW r \in Relation, r.to \in Target, r \in relIdx'.fromID[r.from]
          PROVE  r \in DOMAIN relIdx'.toID[r.to]
      <4>1. Moves(relIdx, q, Stubbed(q), relIdx', r)
        BY <1>8, <3>1
      <4> QED BY <1>6, <3>1, <4>1 DEF Moves, Pointed
    <3> QED BY <1>3, <3>1 DEF Pointed
  <2>2. FiledTables(relIdx)'
    BY <1>7 DEF FiledTables
  <2>3. ASSUME NEW p \in Given, Kept(p), NEW r \in Relation, r.to \in Target
        PROVE  Knows(p, r)'
    <3>1. Knows(p, r) /\ Moves(relIdx, q, Stubbed(q), relIdx', r)
      BY <1>1, <1>8, <2>3 DEF IndexInv
    <3>2. Stubbed(p)' = Stubbed(p) /\ Of(p, r)' = Of(p, r)
      BY <1>3 DEF Of
    <3>3. CASE p # q
      <4>1. Now(p)' = Now(p)
        BY <1>9, <3>2, <3>3 DEF Now
      <4>2. Now(p) = p \/ Now(p) = Stubbed(p)
        BY DEF Now
      <4>3. {p, Stubbed(p)} \cap {q, Stubbed(q)} = {}
        BY <1>1, <1>4, <3>3, PackageFacts
      <4>4. r.from = p \/ r.from = Stubbed(p) =>
              /\ r \in relIdx'.all <=> r \in relIdx.all
              /\ r \in relIdx'.fromID[r.from] <=> r \in relIdx.fromID[r.from]
        <5>1. r.from = p \/ r.from = Stubbed(p) => r.from \notin {q, Stubbed(q)}
          BY <4>3
        <5>2. r.from \notin {q, Stubbed(q)} =>
                /\ r \in relIdx'.all <=> r \in relIdx.all
                /\ r \in relIdx'.fromID[r.from] <=> r \in relIdx.fromID[r.from]
          BY <3>1, MovesNothingElse
        <5> QED BY <5>1, <5>2
      <4>5. r.from = Now(p) => /\ r \in relIdx'.all <=> Of(p, r) \in rels
                               /\ r \in relIdx'.fromID[r.from] <=> r \in relIdx'.all
        BY <3>1, <4>2, <4>4 DEF Knows
      <4>6. r.from = Stubbed(p) /\ Now(p) # Stubbed(p) =>
              r \notin relIdx'.all /\ r \notin relIdx'.fromID[r.from]
        BY <3>1, <4>4 DEF Knows
      <4> QED BY <1>1, <3>2, <4>1, <4>5, <4>6 DEF Knows
    <3>4. CASE p = q
      <4>1. Now(p) = p /\ Now(p)' = Stubbed(p) /\ p # Stubbed(p)
        BY <1>5, <1>9, <1>10, <3>2, <3>4 DEF Now
      <4> DEFINE s == Of(p, r)
      <4>2. s \in Relation /\ s.from = p /\ s.to = r.to /\ Of(p, s) = s
        <5>1. p \in EntityID
          BY <1>5, <3>4
        <5> QED BY <5>1, RelationFacts DEF Of, Relation, Idx!Rel
      <4>3. Knows(p, s)
        BY <1>1, <2>3, <4>2 DEF IndexInv
      <4> HIDE DEF s
      <4>4. /\ s \in relIdx.fromID[p] <=> s \in rels
            /\ s \in rels => DOMAIN relIdx.toID[r.to] # {}
        <5>1. s \in relIdx.fromID[p] <=> s \in rels
          BY <4>1, <4>2, <4>3 DEF Knows
        <5>2. s \in relIdx.fromID[p] => s \in DOMAIN relIdx.toID[r.to]
          BY <1>6, <2>3, <4>2 DEF Pointed
        <5> QED BY <5>1, <5>2
      <4>5. r.from = Stubbed(p) => /\ r \in relIdx'.all <=> s \in rels
                                   /\ r \in relIdx'.fromID[r.from] <=> r \in relIdx'.all
        <5>1. SUFFICES ASSUME r.from = Stubbed(p)
                       PROVE  /\ r \in relIdx'.all <=> s \in rels
                              /\ r \in relIdx'.fromID[r.from] <=> r \in relIdx'.all
          OBVIOUS
        <5>2. r \notin relIdx.all /\ r \notin relIdx.fromID[r.from]
          BY <3>1, <4>1, <5>1 DEF Knows
        <5>3. /\ r \in relIdx'.fromID[r.from] <=> r \in relIdx'.all
              /\ r \in relIdx'.all => s \in relIdx.fromID[p]
              /\ s \in relIdx.fromID[p] /\ DOMAIN relIdx.toID[r.to] # {} => r \in relIdx'.all
          <6>1. q = p /\ s = Of(q, r) /\ r \notin relIdx.fromID[Stubbed(q)]
            BY <3>4, <5>1, <5>2 DEF s
          <6> HIDE DEF s
          <6> QED BY <3>1, <5>1, <5>2, <6>1 DEF Moves
        <5> QED BY <4>4, <5>3
      <4> QED BY <1>1, <3>2, <4>1, <4>5 DEF Knows, s
    <3> QED BY <3>3, <3>4
  <2> QED BY <1>3, <2>1, <2>2, <2>3 DEF IndexInv
<1>12. DropInv'
  BY <1>3, <1>4 DEF DropInv
<1> QED BY <1>2, <1>11, <1>12

\* ComplianceInv holds throughout.
THEOREM ComplianceInvariant == ComplianceSpec => []ComplianceInv
<1>1. ASSUME ComplianceInv, [ComplianceNext]_complianceVars PROVE ComplianceInv'
  <2>1. CASE ComplianceNext
    <3>1. InputInv'
      BY <1>1, <2>1, InputStep DEF ComplianceInv
    <3>2. FilterInv' /\ IndexInv' /\ DropInv'
      <4>1. CASE FilterPackage
        <5>1. FilterInv'
          BY <1>1, <4>1, FilterStep DEF ComplianceInv
        <5>2. pc' = "filter"
          BY <4>1 DEF FilterPackage
        <5> QED BY <5>1, <5>2 DEF IndexInv, DropInv
      <4>2. CASE BuildIndex
        BY <1>1, <4>2, BuildStep
      <4>3. CASE RemoveDropped
        BY <1>1, <4>3, RemoveStep
      <4>4. CASE StartReplacing \/ Return
        BY <1>1, <4>4, BetweenStep
      <4>5. CASE ReplaceStubbed
        BY <1>1, <4>5, ReplaceStep
      <4> QED BY <2>1, <4>1, <4>2, <4>3, <4>4, <4>5 DEF ComplianceNext
    <3> QED BY <3>1, <3>2 DEF ComplianceInv
  <2>2. CASE UNCHANGED complianceVars
    <3> USE <1>1, <2>2 DEF complianceVars, ComplianceInv
    <3>1. /\ Given' = Given /\ Target' = Target
          /\ \A p : /\ Drops(p)' <=> Drops(p)
                    /\ Stubbed(p)' = Stubbed(p)
                    /\ Kept(p)' <=> Kept(p)
                    /\ Replaced(p)' <=> Replaced(p)
      BY SameInput
    <3>2. InputInv'
      BY DEF InputInv, Found, Link, Owns
    <3>3. FilterInv'
      BY <3>1 DEF FilterInv, Filtered
    <3>4. IndexInv'
      <4>1. ASSUME NEW p, NEW r PROVE Knows(p, r)' <=> Knows(p, r)
        BY <3>1 DEF Knows, Of, Now, Rewired
      <4>2. Pointed(relIdx)' <=> Pointed(relIdx)
        BY <3>1 DEF Pointed
      <4>3. FiledTables(relIdx)' <=> FiledTables(relIdx)
        BY DEF FiledTables
      <4> QED BY <3>1, <4>1, <4>2, <4>3 DEF IndexInv
    <3>5. DropInv'
      BY <3>1 DEF DropInv, Removed, Result, Idx!All
    <3> QED BY <3>2, <3>3, <3>4, <3>5
  <2> QED BY <1>1, <2>1, <2>2
<1> QED BY <1>1, ComplianceStart, PTL DEF ComplianceSpec

\* RulesRespected: whatever the packages, their order and the rules, a package
\* that is kept still owns its files and points at the untouched packages it
\* pointed at, and without stubbing exactly the relationships of dropped packages
\* are gone (applyCompliance, package_task_factory.go:124-138).
THEOREM ComplianceRulesRespected == ComplianceSpec => []RulesRespected
<1>1. ASSUME ComplianceInv PROVE RulesRespected
  <2> USE <1>1 DEF ComplianceInv
  <2>1. OutgoingSurvive
    <3> SUFFICES ASSUME pc = "done", NEW p \in Given, Kept(p)
                 PROVE  /\ \A f \in Files : Owns(Stubbed(p), f) \in Result <=> Owns(p, f) \in rels
                        /\ \A q \in Given : Untouched(q) =>
                              (Link(Stubbed(p), q) \in Result <=> Link(p, q) \in rels)
      BY DEF OutgoingSurvive
    <3>1. Now(p) = Stubbed(p)
      <4>1. CASE Replaced(p)
        <5>1. PICK n \in 1 .. NPkgs : pkgs[n] = p
          BY DEF Given
        <5>2. PICK j \in 1 .. Len(replacements) : replacements[j].original = p
          BY <4>1, <5>1 DEF FilterInv, Filtered
        <5>3. j \in 1 .. i - 1
          BY DEF FilterInv, InputInv
        <5> QED BY <5>2, <5>3 DEF Now, Rewired
      <4>2. CASE ~Replaced(p)
        BY <4>2 DEF Replaced, Now
      <4> QED BY <4>1, <4>2
    <3>2. Stubbed(p) \in EntityID
      BY PackageFacts, StubbedFacts
    <3>3. ASSUME NEW r \in Relation, r.from = Stubbed(p), r.to \in Target
          PROVE  r \in Result <=> Of(p, r) \in rels
      BY <3>1, <3>3 DEF IndexInv, Knows, Result, Idx!All
    <3>4. ASSUME NEW f \in Files
          PROVE  Owns(Stubbed(p), f) \in Result <=> Owns(p, f) \in rels
      <4>1. /\ Owns(Stubbed(p), f) \in Relation /\ Owns(Stubbed(p), f).from = Stubbed(p)
            /\ Owns(Stubbed(p), f).to \in Target
            /\ Of(p, Owns(Stubbed(p), f)) = Owns(p, f)
        BY <3>2 DEF Owns, Of, Target, Relation, Idx!Rel, EntityID
      <4> QED BY <3>3, <4>1
    <3>5. ASSUME NEW q \in Given, Untouched(q)
          PROVE  Link(Stubbed(p), q) \in Result <=> Link(p, q) \in rels
      <4>1. q \in EntityID
        BY PackageFacts
      <4>2. /\ Link(Stubbed(p), q) \in Relation /\ Link(Stubbed(p), q).from = Stubbed(p)
            /\ Link(Stubbed(p), q).to \in Target
            /\ Of(p, Link(Stubbed(p), q)) = Link(p, q)
        BY <3>2, <3>5, <4>1 DEF Link, Of, Target, Relation, Idx!Rel
      <4> QED BY <3>3, <4>2
    <3> QED BY <3>4, <3>5
  <2>2. DropIsExact
    <3> SUFFICES ASSUME pc = "done", \A p \in Given : ~Replaced(p)
                 PROVE  Result = {r \in rels : Kept(r.from) /\ (r.to \in Files \/ Kept(r.to))}
      BY DEF DropIsExact
    <3>1. \A r : r \in Result <=>
             r \in rels /\ \A j \in 1 .. Len(dropped) : r.from # dropped[j] /\ r.to # dropped[j]
      BY DEF DropInv, Removed
    <3>2. \A p \in Given : Stubbed(p) = p
      BY DEF Replaced
    <3>3. ASSUME NEW p \in Given
          PROVE  Drops(p) <=> \E j \in 1 .. Len(dropped) : dropped[j] = p
      <4>1. PICK n \in 1 .. NPkgs : pkgs[n] = p
        BY DEF Given
      <4>2. Drops(p) => \E j \in 1 .. Len(dropped) : dropped[j] = p
        BY <3>2, <4>1 DEF FilterInv, Filtered
      <4>3. \A j \in 1 .. Len(dropped) : \E q \in Given : Drops(q) /\ dropped[j] = q
        BY <3>2, DroppedFacts
      <4> QED BY <4>2, <4>3
    <3>4. \A j \in 1 .. Len(dropped) : dropped[j] \notin Files
      BY <3>2, DroppedFacts, PackageFacts, FilesAssumption
    <3>5. ASSUME NEW r \in rels
          PROVE  (\A j \in 1 .. Len(dropped) : r.from # dropped[j] /\ r.to # dropped[j])
                    <=> Kept(r.from) /\ (r.to \in Files \/ Kept(r.to))
      <4>1. r.from \in Given /\ r.to \in Given \cup Files
        BY RelsFacts
      <4>2. (\A j \in 1 .. Len(dropped) : r.from # dropped[j]) <=> Kept(r.from)
        BY <3>3, <4>1 DEF Kept
      <4>3. r.to \in Given => ((\A j \in 1 .. Len(dropped) : r.to # dropped[j]) <=> Kept(r.to))
        BY <3>3 DEF Kept
      <4>4. r.to \in Files => (\A j \in 1 .. Len(dropped) : r.to # dropped[j]) /\ r.to \notin Given
        BY <3>4, PackageFacts, FilesAssumption
      <4> QED BY <4>1, <4>2, <4>3, <4>4
    <3> QED BY <3>1, <3>5
  <2> QED BY <2>1, <2>2 DEF RulesRespected
<1> QED BY <1>1, ComplianceInvariant, PTL

-----------------------------------------------------------------------------
(* The deep-squashed cleaner.                                              *)

\* A package that is enumerated is one that was still to come.
LEMMA UpcomingIsTodo == Upcoming \subseteq todo
BY DEF Upcoming

\* The keys of a package consist of its label and of paths.
LEMMA KeysTyped ==
  ASSUME SquashTypeOK, NEW p \in Pkg
  PROVE  Undetermined(p) \subseteq Label \X Path
<1>1. label[p] \in Label
  BY DEF SquashTypeOK
<1>2. ASSUME NEW l \in locations[p] PROVE l.path \in Path
  <2>1. locations[p] \subseteq Seen
    BY DEF SquashTypeOK
  <2>2. l \in Location
    BY <2>1, SeenAssumption
  <2> QED BY <2>2 DEF Location
<1>3. ASSUME NEW l \in locations[p] PROVE Key(p, l) \in Label \X Path
  BY <1>1, <1>2 DEF Key
<1> QED BY <1>3 DEF Undetermined

\* The invariant holds before anything was enumerated.
LEMMA InitInv == SquashInit => IInv
<1> SUFFICES ASSUME SquashInit PROVE IInv
  OBVIOUS
<1>1. SquashTypeOK
  BY DEF SquashInit, SquashTypeOK
<1>2. Covered
  BY DEF SquashInit, Covered
<1> QED BY <1>1, <1>2 DEF IInv

\* Examining a package keeps the invariant.
LEMMA ExamineInv ==
  ASSUME IInv, NEW p \in Pkg, Examine(p)
  PROVE  IInv'
<1>1. /\ p \in todo
      /\ todo' = todo \ {p}
      /\ duplicates' = duplicates \cup Undetermined(p)
      /\ UNCHANGED <<label, type, locations, packages>>
  BY UpcomingIsTodo DEF Examine, found
<1>2. \A q \in Pkg : Undetermined(q)' = Undetermined(q) /\ InSquash(q)' = InSquash(q)
  BY <1>1 DEF Undetermined, InSquash, Key
<1>3. SquashTypeOK /\ Covered
  BY DEF IInv
<1>4. packages \subseteq Pkg /\ remove \subseteq packages \ todo
  BY <1>3 DEF SquashTypeOK
<1>5. CASE ~InSquash(p) /\ Undetermined(p) \subseteq duplicates
  <2>1. remove' = remove \cup {p} /\ duplicates' = duplicates
    BY <1>1, <1>5 DEF Examine
  <2>2. SquashTypeOK'
    BY <1>1, <1>3, <2>1 DEF SquashTypeOK, Covered
  <2>3. ASSUME NEW k \in duplicates'
        PROVE  \E q \in packages' \ (todo' \cup remove') : k \in Undetermined(q)'
    <3>1. PICK q \in packages \ (todo \cup remove) : k \in Undetermined(q)
      BY <1>3, <2>1 DEF Covered
    <3>2. q \in packages' \ (todo' \cup remove')
      BY <1>1, <2>1, <3>1
    <3> QED BY <1>2, <1>4, <3>1, <3>2
  <2>4. ASSUME NEW q \in remove' PROVE ~InSquash(q)' /\ Undetermined(q)' \subseteq duplicates'
    BY <1>2, <1>3, <1>4, <1>5, <2>1 DEF Covered
  <2>5. todo' \subseteq packages'
    BY <1>1, <1>3 DEF Covered
  <2> QED BY <2>2, <2>3, <2>4, <2>5 DEF IInv, Covered
<1>6. CASE ~(~InSquash(p) /\ Undetermined(p) \subseteq duplicates)
  <2>1. remove' = remove
    BY <1>6 DEF Examine
  <2>2. SquashTypeOK'
    BY <1>1, <1>3, <2>1, KeysTyped DEF SquashTypeOK
  <2>3. ASSUME NEW k \in duplicates'
        PROVE  \E q \in packages' \ (todo' \cup remove') : k \in Undetermined(q)'
    <3>1. CASE k \in Undetermined(p)
      <4>1. p \in packages' \ (todo' \cup remove')
        BY <1>1, <1>3, <1>4, <2>1 DEF Covered
      <4> QED BY <1>2, <3>1, <4>1
    <3>2. CASE k \in duplicates
      <4>1. PICK q \in packages \ (todo \cup remove) : k \in Undetermined(q)
        BY <1>3, <3>2 DEF Covered
      <4>2. q \in packages' \ (todo' \cup remove')
        BY <1>1, <2>1, <4>1
      <4> QED BY <1>2, <1>4, <4>1, <4>2
    <3> QED BY <1>1, <3>1, <3>2
  <2>4. ASSUME NEW q \in remove' PROVE ~InSquash(q)' /\ Undetermined(q)' \subseteq duplicates'
    BY <1>1, <1>2, <1>3, <1>4, <2>1 DEF Covered
  <2>5. todo' \subseteq packages'
    BY <1>1, <1>3 DEF Covered
  <2> QED BY <2>2, <2>3, <2>4, <2>5 DEF IInv, Covered
<1> QED BY <1>5, <1>6

\* Removing what was listed keeps it.
LEMMA DeleteInv ==
  ASSUME IInv, Delete
  PROVE  IInv'
<1>1. /\ todo = {} /\ packages' = packages \ remove /\ remove' = {}
      /\ UNCHANGED <<label, type, locations, todo, duplicates>>
  BY DEF Delete, found
<1>2. \A q : Undetermined(q)' = Undetermined(q) /\ InSquash(q)' = InSquash(q)
  BY <1>1 DEF Undetermined, InSquash, Key
<1>3. SquashTypeOK'
  BY <1>1 DEF IInv, SquashTypeOK
<1>4. Covered'
  BY <1>1, <1>2 DEF IInv, Covered
<1> QED BY <1>3, <1>4 DEF IInv

\* Every step keeps the invariant.
LEMMA StepInv == IInv /\ [SquashNext]_squashVars => IInv'
<1> SUFFICES ASSUME IInv, [SquashNext]_squashVars PROVE IInv'
  OBVIOUS
<1>1. ASSUME NEW p \in Pkg, Examine(p) PROVE IInv'
  BY <1>1, ExamineInv
<1>2. CASE Delete
  BY <1>2, DeleteInv
<1>3. CASE UNCHANGED squashVars
  <2>1. \A q : Undetermined(q)' = Undetermined(q) /\ InSquash(q)' = InSquash(q)
    BY <1>3 DEF Undetermined, InSquash, Key, squashVars, found
  <2> QED BY <1>3, <2>1 DEF squashVars, found, IInv, SquashTypeOK, Covered
<1> QED BY <1>1, <1>2, <1>3 DEF SquashNext

\* The inductive invariant holds.
THEOREM SquashInvariant == SquashSpec => []IInv
  BY InitInv, StepInv, PTL DEF SquashSpec

\* Only packages that were examined, and are there, are listed for removal.
THEOREM SquashTypeCorrect == SquashSpec => []SquashTypeOK
<1>1. IInv => SquashTypeOK
  BY DEF IInv
<1> QED BY <1>1, SquashInvariant, PTL

\* A package is removed only if what it is evidence of stays with another one
\* (scope_tasks.go:30-55).
THEOREM SquashEvidenceStays == SquashSpec => EvidenceStays
<1> DEFINE Stays == \A p \in packages \ packages' :
                      /\ ~InSquash(p)
                      /\ Undetermined(p) \subseteq UNION {Undetermined(q) : q \in packages'}
<1>1. ASSUME IInv, [SquashNext]_squashVars PROVE Stays
  <2>1. ASSUME NEW p \in Pkg, Examine(p) PROVE Stays
    BY <2>1 DEF Examine
  <2>2. CASE Delete
    <3>1. todo = {} /\ packages' = packages \ remove
      BY <2>2 DEF Delete
    <3>2. Covered
      BY <1>1 DEF IInv
    <3>3. ASSUME NEW p \in packages \ packages'
          PROVE  ~InSquash(p) /\ Undetermined(p) \subseteq duplicates
      <4>1. p \in remove
        BY <3>1
      <4> QED BY <3>2, <4>1 DEF Covered
    <3>4. ASSUME NEW k \in duplicates
          PROVE  k \in UNION {Undetermined(q) : q \in packages'}
      <4>1. PICK q \in packages \ (todo \cup remove) : k \in Undetermined(q)
        BY <3>2 DEF Covered
      <4>2. q \in packages'
        BY <3>1, <4>1
      <4> QED BY <4>1, <4>2
    <3> QED BY <3>3, <3>4
  <2>3. CASE UNCHANGED squashVars
    BY <2>3 DEF squashVars
  <2> QED BY <1>1, <2>1, <2>2, <2>3 DEF SquashNext
<1>2. IInv /\ [SquashNext]_squashVars => [Stays]_squashVars
  BY <1>1
<1> QED BY <1>2, SquashInvariant, PTL DEF SquashSpec, EvidenceStays
=============================================================================
