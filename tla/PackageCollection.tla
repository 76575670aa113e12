-------------------------- MODULE PackageCollection ------------------------
(***************************************************************************)
(* pkg.Collection (syft/pkg/collection.go): the packages by ID and three   *)
(* indexes beside them, by name, by type and by path, kept by hand by      *)
(* every Add and Delete and trusted by every query.                        *)
(*                                                                         *)
(* Add, and each query but Enumerate, is one step: it holds the lock of    *)
(* the collection from its first line to its last.  Delete and Enumerate   *)
(* hold it too, one as a writer, the other as a reader, and go on package  *)
(* by package or type by type; other readers run beside Enumerate.  What   *)
(* the lock itself may do is the subject of CollectionReaders.             *)
(*                                                                         *)
(* A package is its ID and the paths of its locations, real and access     *)
(* paths alike.  Name and type are part of what the ID hashes, so packages *)
(* with one ID share them; paths are not, an access path can differ.       *)
(***************************************************************************)
EXTENDS Naturals, SequencesExt

CONSTANTS PkgID, Name, PType, PkgPath,
          NameOf,     \* the name of the package an ID stands for
          TypeOf      \* and its type

ASSUME HashAssumption == NameOf \in [PkgID -> Name] /\ TypeOf \in [PkgID -> PType]

VARIABLES held,       \* the keys of byID
          paths,      \* the paths of the packages in byID
          byName,     \* idsByName, idsByType, idsByPath; no entry is <<>>
          byType,
          byPath,
          deleting,   \* whether a Delete is running
          enumerating,\* whether an Enumerate is running
          types,      \* the types it was asked for
          visited,    \* those of them it has been through
          sent,       \* what it has sent
          asked,      \* the latest finished query
          answer      \* and its result

indexes == <<byName, byType, byPath>>
walk  == <<enumerating, types, visited, sent>>
query == <<asked, answer>>
vars  == <<held, paths, indexes, deleting, walk, query>>

\* The lock: free for a writer, free for a reader.
Unlocked == ~deleting /\ ~enumerating
Readable == ~deleting

-----------------------------------------------------------------------------
(* orderedIDSet                                                            *)

Insert(s, id) == IF id \in Range(s) THEN s ELSE Append(s, id)

FirstAt(s, id) == CHOOSE n \in DOMAIN s : /\ s[n] = id
                                          /\ \A m \in 1 .. (n - 1) : s[m] # id

Without(s, id) == IF id \in Range(s) THEN RemoveAt(s, FirstAt(s, id)) ELSE s

-----------------------------------------------------------------------------
Init == /\ held = {}
        /\ paths = [i \in PkgID |-> {}]
        /\ byName = [n \in Name |-> <<>>]
        /\ byType = [t \in PType |-> <<>>]
        /\ byPath = [q \in PkgPath |-> <<>>]
        /\ deleting = FALSE
        /\ enumerating = FALSE
        /\ types = {}
        /\ visited = {}
        /\ sent = <<>>
        /\ asked = <<"types", {}>>
        /\ answer = <<>>

\* addPathsToIndex
WithPaths(id, P) == [q \in PkgPath |-> IF q \in P THEN Insert(byPath[q], id) ELSE byPath[q]]

\* addToIndex
AddNew(id, P) ==
  /\ Unlocked
  /\ id \notin held
  /\ held' = held \cup {id}
  /\ paths' = [paths EXCEPT ![id] = P]
  /\ byName' = [byName EXCEPT ![NameOf[id]] = Insert(@, id)]
  /\ byType' = [byType EXCEPT ![TypeOf[id]] = Insert(@, id)]
  /\ byPath' = WithPaths(id, P)
  /\ UNCHANGED <<deleting, walk, query>>

\* Slip: the merged package is stored, its new paths are not indexed.
MergeUnindexed(id, P) ==
  /\ Unlocked
  /\ id \in held
  /\ paths' = [paths EXCEPT ![id] = @ \cup P]
  /\ UNCHANGED <<held, indexes, deleting, walk, query>>

\* Package.merge, and the paths of the package that was merged in.
Merge(id, P) ==
  /\ Unlocked
  /\ id \in held
  /\ paths' = [paths EXCEPT ![id] = @ \cup P]
  /\ byPath' = WithPaths(id, P)
  /\ UNCHANGED <<held, byName, byType, deleting, walk, query>>

\* Delete(ids...) takes the lock.
BeginDelete ==
  /\ Unlocked
  /\ deleting' = TRUE
  /\ UNCHANGED <<held, paths, indexes, walk, query>>

\* One turn of its loop, on the next of the IDs.
DeleteOne(id) ==
  /\ deleting
  /\ id \in held
  /\ held' = held \ {id}
  /\ paths' = [paths EXCEPT ![id] = {}]
  /\ byName' = [byName EXCEPT ![NameOf[id]] = Without(@, id)]
  /\ byType' = [byType EXCEPT ![TypeOf[id]] = Without(@, id)]
  /\ byPath' = [q \in PkgPath |-> IF q \in paths[id] THEN Without(byPath[q], id)
                                                   ELSE byPath[q]]
  /\ UNCHANGED <<deleting, walk, query>>

\* All of them are deleted, or one is not there: that ends the loop, and what
\* follows it stays.
EndDelete ==
  /\ deleting
  /\ deleting' = FALSE
  /\ UNCHANGED <<held, paths, indexes, walk, query>>

\* packages(ids): IDs that byID does not know are skipped.
Packages(ids) == IF Range(ids) \subseteq held
                   THEN ids
                   ELSE SelectSeq(ids, LAMBDA id : id \in held)

PackagesByName(n) ==
  /\ Readable
  /\ asked' = <<"name", n>>
  /\ answer' = Packages(byName[n])
  /\ UNCHANGED <<held, paths, indexes, deleting, walk>>

PackagesByPath(q) ==
  /\ Readable
  /\ asked' = <<"path", q>>
  /\ answer' = Packages(byPath[q])
  /\ UNCHANGED <<held, paths, indexes, deleting, walk>>

\* Enumerate(types...); no types stand for all of them.
BeginEnumerate(T) ==
  /\ Unlocked
  /\ enumerating' = TRUE
  /\ types' = IF T = {} THEN PType ELSE T
  /\ visited' = {}
  /\ sent' = <<>>
  /\ UNCHANGED <<held, paths, indexes, deleting, query>>

\* The map of types is walked in any order.
EnumerateType(t) ==
  /\ enumerating
  /\ t \in types \ visited
  /\ visited' = visited \cup {t}
  /\ sent' = sent \o Packages(byType[t])
  /\ UNCHANGED <<held, paths, indexes, deleting, enumerating, types, query>>

\* Slip: the channel is closed when anything was sent.
EndEnumerateEarly ==
  /\ enumerating
  /\ visited # {}
  /\ asked' = <<"types", types>>
  /\ answer' = sent
  /\ enumerating' = FALSE
  /\ types' = {}
  /\ visited' = {}
  /\ sent' = <<>>
  /\ UNCHANGED <<held, paths, indexes, deleting>>

EndEnumerate ==
  /\ enumerating
  /\ visited = types
  /\ asked' = <<"types", types>>
  /\ answer' = sent
  /\ enumerating' = FALSE
  /\ types' = {}
  /\ visited' = {}
  /\ sent' = <<>>
  /\ UNCHANGED <<held, paths, indexes, deleting>>

AddPackage(id, P) == AddNew(id, P) \/ Merge(id, P)

Next == \/ \E id \in PkgID, P \in SUBSET PkgPath : AddPackage(id, P)
        \/ BeginDelete
        \/ \E id \in PkgID : DeleteOne(id)
        \/ EndDelete
        \/ \E n \in Name : PackagesByName(n)
        \/ \E q \in PkgPath : PackagesByPath(q)
        \/ \E T \in SUBSET PType : BeginEnumerate(T)
        \/ \E t \in PType : EnumerateType(t)
        \/ EndEnumerate

Spec == Init /\ [][Next]_vars

-----------------------------------------------------------------------------
(* Properties.                                                             *)

Query == ({"name"} \X Name) \cup ({"path"} \X PkgPath) \cup ({"types"} \X SUBSET PType)

\* Index entries are lists of IDs; Delete and Enumerate exclude each other.
TypeOK ==
  /\ held \in SUBSET PkgID
  /\ paths \in [PkgID -> SUBSET PkgPath]
  /\ byName \in [Name -> Seq(PkgID)]
  /\ byType \in [PType -> Seq(PkgID)]
  /\ byPath \in [PkgPath -> Seq(PkgID)]
  /\ deleting \in BOOLEAN
  /\ enumerating \in BOOLEAN
  /\ enumerating => ~deleting
  /\ types \in SUBSET PType
  /\ visited \in SUBSET PType
  /\ sent \in Seq(PkgID)
  /\ asked \in Query
  /\ answer \in Seq(PkgID)

Lists(s, S) == Range(s) = S /\ IsInjective(s)

\* Also between two packages of one Delete, each index lists the packages that
\* belong there, all of them, each once: whatever was merged in under another
\* path is found there, and gone from there when it is deleted
\* (collection.go:108-249).
IndexesExact ==
  /\ \A n \in Name : Lists(byName[n], {id \in held : NameOf[id] = n})
  /\ \A t \in PType : Lists(byType[t], {id \in held : TypeOf[id] = t})
  /\ \A q \in PkgPath : Lists(byPath[q], {id \in held : q \in paths[id]})

\* The collection is a map, and a query answers as if it searched the map: in
\* particular an enumeration that took many steps lists the packages of its
\* types as they all were at one time (collection.go:252-286).
Map == INSTANCE PackageMap
IsMap == Map!Spec

-----------------------------------------------------------------------------
(* The invariant that the proofs use.                                      *)

\* What a running Enumerate has sent is what the collection holds of the types
\* it has been through.
WalkExact ==
  enumerating => /\ visited \subseteq types
                 /\ Lists(sent, {id \in held : TypeOf[id] \in visited})

\* Nothing is remembered of a package that is not there.
NothingLeft == \A id \in PkgID \ held : paths[id] = {}

CollInv == TypeOK /\ IndexesExact /\ WalkExact /\ NothingLeft
=============================================================================
