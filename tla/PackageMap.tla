----------------------------- MODULE PackageMap ----------------------------
(***************************************************************************)
(* What pkg.Collection promises (syft/pkg/collection.go): a map from       *)
(* package IDs to packages.  Adding a package whose ID is known merges its *)
(* locations into the one that is there; a query answers with every        *)
(* package that matches, and lists none twice.                             *)
(***************************************************************************)
EXTENDS Naturals, Sequences, Functions

CONSTANTS PkgID,    \* package IDs
          Name, PType, PkgPath,
          NameOf,   \* the ID is a hash of the name and the type, among others
          TypeOf

VARIABLES held,       \* IDs of the packages in the collection
          paths,      \* the paths each of them was found at
          asked,      \* the latest query
          answer      \* and its result

vars == <<held, paths, asked, answer>>

IsListing(s, S) == s \in Seq(PkgID) /\ Range(s) = S /\ IsInjective(s)

-----------------------------------------------------------------------------
Init == /\ held = {}
        /\ paths = [i \in PkgID |-> {}]
        /\ asked = <<"types", {}>>
        /\ answer = <<>>

AddPackage(id, P) == /\ held' = held \cup {id}
                     /\ paths' = [paths EXCEPT ![id] = @ \cup P]
                     /\ UNCHANGED <<asked, answer>>

Delete(id) == /\ held' = held \ {id}
              /\ paths' = [paths EXCEPT ![id] = {}]
              /\ UNCHANGED <<asked, answer>>

Ask(query, S) == /\ asked' = query
                 /\ IsListing(answer', S)
                 /\ UNCHANGED <<held, paths>>

AskName(n) == Ask(<<"name", n>>, {id \in held : NameOf[id] = n})
AskPath(q) == Ask(<<"path", q>>, {id \in held : q \in paths[id]})
AskTypes(T) == Ask(<<"types", T>>, {id \in held : TypeOf[id] \in T})

Next == \/ \E id \in PkgID, P \in SUBSET PkgPath : AddPackage(id, P)
        \/ \E id \in PkgID : Delete(id)
        \/ \E n \in Name : AskName(n)
        \/ \E q \in PkgPath : AskPath(q)
        \/ \E T \in SUBSET PType : AskTypes(T)

Spec == Init /\ [][Next]_vars
=============================================================================
