--------------------------- MODULE Streaming_proofs ---------------------------
(***************************************************************************)
(* Proofs about what is handed over while others go on.                    *)
(*   The readers and writers of the package collection, for any number of  *)
(* them and any changes: the lock of the builder alone keeps writers away  *)
(* from an enumeration, that of the collection is never contended by one.  *)
(*   The locations of an image, for any views and any exclusions: what a   *)
(* cataloger receives is each location once and in order.                  *)
(***************************************************************************)
EXTENDS CollectionReaders, LocationStreams, TLAPS

Inside == {"writing", "announced inside", "changing"}

TaskTypes == task \in [Reader \cup Writer ->
                         {"begin", "announced", "receiving", "over"} \cup Inside]

LockTypes == /\ readers \in [Lock -> SUBSET Reader]
             /\ waiting \in [Lock -> Reader \cup Writer \cup {Nobody}]
             /\ owner \in [Lock -> Reader \cup Writer \cup {Nobody}]

WalkTypes == /\ walker \in [Reader -> {"none", "started", "walking", "closed"}]
             /\ DOMAIN left = Reader /\ DOMAIN inHand = Reader
             /\ DOMAIN received = Reader /\ DOMAIN asOf = Reader

\* Whoever is in the builder holds its lock, writers and labelers alone.
BuilderInv ==
  /\ waiting["builder"] # Nobody => owner["builder"] = Nobody
  /\ readers["builder"] # {} => owner["builder"] = Nobody
  /\ \A w \in Writer : task[w] \in Inside => owner["builder"] = w
  /\ \A r \in Reader : task[r] = "receiving" =>
       IF r \in Labeler THEN owner["builder"] = r ELSE r \in readers["builder"]
  /\ \A r \in Reader : /\ task[r] \notin Inside
                       /\ task[r] = "announced" => r \in Labeler
  /\ \A w \in Writer : task[w] # "receiving"

\* Only writers in the builder go for the lock of the collection.
CollectionInv ==
  /\ waiting["collection"] # Nobody =>
       waiting["collection"] \in Writer /\ task[waiting["collection"]] = "announced inside"
  /\ owner["collection"] # Nobody =>
       owner["collection"] \in Writer /\ task[owner["collection"]] = "changing"

\* What a reader has received, is about to and has yet to look up are the
\* packages there are.
WalkOf(r) ==
    /\ task[r] \in {"begin", "announced"} =>
         walker[r] = "none" /\ received[r] = {} /\ left[r] = {} /\ inHand[r] = {}
    /\ task[r] = "receiving" => walker[r] # "none" /\ asOf[r] = packages
    /\ task[r] = "over" => walker[r] = "closed"
    /\ walker[r] = "started" => received[r] = {} /\ left[r] = {} /\ inHand[r] = {}
    /\ walker[r] = "walking" => received[r] \cup inHand[r] \cup left[r] = asOf[r]
    /\ walker[r] = "closed" => received[r] = asOf[r] /\ inHand[r] = {}

WalkInv == \A r \in Reader : WalkOf(r)

ReadersInv == TaskTypes /\ LockTypes /\ WalkTypes /\ BuilderInv /\ CollectionInv /\ WalkInv

-----------------------------------------------------------------------------

\* What the tasks begin with.
LEMMA ReadersStart == ReadersInit => ReadersInv
BY LabelerAssumption, RoleAssumption, NoneAssumption
   DEF ReadersInit, ReadersInv, TaskTypes, LockTypes, WalkTypes, BuilderInv,
       CollectionInv, WalkInv, WalkOf, Lock, Inside

\* Who is who.
LEMMA Roles ==
  /\ Labeler \subseteq Reader /\ Reader \cap Writer = {}
  /\ Nobody \notin Reader \cup Writer
  /\ "builder" \in Lock /\ "collection" \in Lock /\ "builder" # "collection"
BY LabelerAssumption, RoleAssumption, NoneAssumption DEF Lock

\* A task goes on, the others stay where they are.
Moves(t, from, to) ==
  /\ t \in Reader \cup Writer
  /\ task[t] = from /\ task'[t] = to
  /\ \A u \in Reader \cup Writer : u # t => task'[u] = task[u]

\* What becomes of a lock.
Becomes(l, rs, w, o) == readers'[l] = rs /\ waiting'[l] = w /\ owner'[l] = o

Kept(l) == Becomes(l, readers[l], waiting[l], owner[l])

\* What the operations of a lock do to it, and to the other one.
LEMMA RLockFacts ==
  ASSUME LockTypes, NEW l \in Lock, NEW m \in Lock \ {l}, NEW t \in Reader, RLock(l, t)
  PROVE  /\ LockTypes' /\ NoWriter(l) /\ Kept(m)
         /\ Becomes(l, readers[l] \cup {t}, waiting[l], owner[l])
BY DEF RLock, LockTypes, Becomes, Kept, NoWriter

LEMMA RUnlockFacts ==
  ASSUME LockTypes, NEW l \in Lock, NEW m \in Lock \ {l}, NEW t \in Reader \cup Writer,
         RUnlock(l, t)
  PROVE  LockTypes' /\ Kept(m) /\ Becomes(l, readers[l] \ {t}, waiting[l], owner[l])
BY DEF RUnlock, LockTypes, Becomes, Kept, NoWriter

LEMMA AnnounceFacts ==
  ASSUME LockTypes, NEW l \in Lock, NEW m \in Lock \ {l}, NEW t \in Reader \cup Writer,
         Announce(l, t)
  PROVE  LockTypes' /\ NoWriter(l) /\ Kept(m) /\ Becomes(l, readers[l], t, owner[l])
BY DEF Announce, LockTypes, Becomes, Kept, NoWriter

LEMMA AcquireFacts ==
  ASSUME LockTypes, NEW l \in Lock, NEW m \in Lock \ {l}, NEW t \in Reader \cup Writer,
         Acquire(l, t)
  PROVE  /\ LockTypes' /\ Kept(m) /\ Becomes(l, {}, Nobody, t)
         /\ waiting[l] = t /\ readers[l] = {}
BY DEF Acquire, LockTypes, Becomes, Kept, NoWriter

LEMMA UnlockFacts ==
  ASSUME LockTypes, NEW l \in Lock, NEW m \in Lock \ {l}, NEW t \in Reader \cup Writer,
         Unlock(l, t)
  PROVE  LockTypes' /\ Kept(m) /\ Becomes(l, readers[l], waiting[l], Nobody)
BY DEF Unlock, LockTypes, Becomes, Kept, NoWriter

\* What becomes of the enumeration of a reader; the others are as they were.
Walks(r, w, ps, p, rs, as) ==
  /\ walker'[r] = w /\ left'[r] = ps /\ inHand'[r] = p /\ received'[r] = rs /\ asOf'[r] = as
  /\ \A q \in Reader \ {r} :
       /\ walker'[q] = walker[q] /\ left'[q] = left[q] /\ inHand'[q] = inHand[q]
       /\ received'[q] = received[q] /\ asOf'[q] = asOf[q]

\* A task goes on, and nobody else.
LEMMA GotoFacts ==
  ASSUME TaskTypes, NEW t \in Reader \cup Writer, NEW from,
         NEW to \in {"begin", "announced", "receiving", "over"} \cup Inside, Goto(t, from, to)
  PROVE  TaskTypes' /\ Moves(t, from, to)
BY DEF TaskTypes, Moves, Goto

-----------------------------------------------------------------------------
(* What each step does, lock by lock and task by task.                     *)

LEMMA WantBuilderFacts ==
  ASSUME LockTypes, TaskTypes, NEW t \in Writer \cup Labeler, WantBuilder(t)
  PROVE  /\ LockTypes' /\ TaskTypes'
         /\ Moves(t, "begin", "announced")
         /\ NoWriter("builder")
         /\ Becomes("builder", readers["builder"], t, owner["builder"])
         /\ Kept("collection")
         /\ UNCHANGED <<packages, walker, left, inHand, received, asOf>>
<1>1. t \in Reader \cup Writer
  BY Roles
<1>0. Announce("builder", t)
  BY DEF WantBuilder
<1>2. /\ LockTypes'
      /\ NoWriter("builder")
      /\ Becomes("builder", readers["builder"], t, owner["builder"])
      /\ Kept("collection")
  BY <1>0, <1>1, Roles, AnnounceFacts
<1>3. TaskTypes' /\ Moves(t, "begin", "announced")
  BY <1>1, GotoFacts DEF Inside, WantBuilder
<1> QED BY <1>2, <1>3 DEF WantBuilder, walk

LEMMA GetBuilderFacts ==
  ASSUME LockTypes, TaskTypes, NEW t \in Writer, GetBuilder(t)
  PROVE  /\ LockTypes' /\ TaskTypes'
         /\ Moves(t, "announced", "writing")
         /\ waiting["builder"] = t /\ readers["builder"] = {}
         /\ Becomes("builder", {}, Nobody, t)
         /\ Kept("collection")
         /\ UNCHANGED <<packages, walker, left, inHand, received, asOf>>
<1>1. t \in Reader \cup Writer
  BY Roles
<1>0. Acquire("builder", t)
  BY DEF GetBuilder
<1>2. /\ LockTypes'
      /\ waiting["builder"] = t /\ readers["builder"] = {}
      /\ Becomes("builder", {}, Nobody, t)
      /\ Kept("collection")
  BY <1>0, <1>1, Roles, AcquireFacts
<1>3. TaskTypes' /\ Moves(t, "announced", "writing")
  BY <1>1, GotoFacts DEF Inside, GetBuilder
<1> QED BY <1>2, <1>3 DEF GetBuilder, walk

LEMMA WantCollectionFacts ==
  ASSUME LockTypes, TaskTypes, NEW t \in Writer, WantCollection(t)
  PROVE  /\ LockTypes' /\ TaskTypes'
         /\ Moves(t, "writing", "announced inside")
         /\ NoWriter("collection")
         /\ Becomes("collection", readers["collection"], t, owner["collection"])
         /\ Kept("builder")
         /\ UNCHANGED <<packages, walker, left, inHand, received, asOf>>
<1>1. t \in Reader \cup Writer
  BY Roles
<1>0. Announce("collection", t)
  BY DEF WantCollection
<1>2. /\ LockTypes'
      /\ NoWriter("collection")
      /\ Becomes("collection", readers["collection"], t, owner["collection"])
      /\ Kept("builder")
  BY <1>0, <1>1, Roles, AnnounceFacts
<1>3. TaskTypes' /\ Moves(t, "writing", "announced inside")
  BY <1>1, GotoFacts DEF Inside, WantCollection
<1> QED BY <1>2, <1>3 DEF WantCollection, walk

LEMMA GetCollectionFacts ==
  ASSUME LockTypes, TaskTypes, NEW t \in Writer, GetCollection(t)
  PROVE  /\ LockTypes' /\ TaskTypes'
         /\ Moves(t, "announced inside", "changing")
         /\ waiting["collection"] = t /\ readers["collection"] = {}
         /\ Becomes("collection", {}, Nobody, t)
         /\ Kept("builder")
         /\ UNCHANGED <<packages, walker, left, inHand, received, asOf>>
<1>1. t \in Reader \cup Writer
  BY Roles
<1>0. Acquire("collection", t)
  BY DEF GetCollection
<1>2. /\ LockTypes'
      /\ waiting["collection"] = t /\ readers["collection"] = {}
      /\ Becomes("collection", {}, Nobody, t)
      /\ Kept("builder")
  BY <1>0, <1>1, Roles, AcquireFacts
<1>3. TaskTypes' /\ Moves(t, "announced inside", "changing")
  BY <1>1, GotoFacts DEF Inside, GetCollection
<1> QED BY <1>2, <1>3 DEF GetCollection, walk

LEMMA ChangePackageFacts ==
  ASSUME LockTypes, TaskTypes, NEW t \in Writer, ChangePackage(t)
  PROVE  /\ LockTypes' /\ TaskTypes'
         /\ Moves(t, "changing", "writing")
         /\ Becomes("collection", readers["collection"], waiting["collection"], Nobody)
         /\ Kept("builder")
         /\ UNCHANGED <<walker, left, inHand, received, asOf>>
<1>1. t \in Reader \cup Writer
  BY Roles
<1>0. Unlock("collection", t)
  BY DEF ChangePackage
<1>2. /\ LockTypes'
      /\ Becomes("collection", readers["collection"], waiting["collection"], Nobody)
      /\ Kept("builder")
  BY <1>0, <1>1, Roles, UnlockFacts
<1>3. TaskTypes' /\ Moves(t, "changing", "writing")
  BY <1>1, GotoFacts DEF Inside, ChangePackage
<1> QED BY <1>2, <1>3 DEF ChangePackage, walk

LEMMA LeaveBuilderFacts ==
  ASSUME LockTypes, TaskTypes, NEW t \in Writer, LeaveBuilder(t)
  PROVE  /\ LockTypes' /\ TaskTypes'
         /\ Moves(t, "writing", "over")
         /\ Becomes("builder", readers["builder"], waiting["builder"], Nobody)
         /\ Kept("collection")
         /\ UNCHANGED <<packages, walker, left, inHand, received, asOf>>
<1>1. t \in Reader \cup Writer
  BY Roles
<1>0. Unlock("builder", t)
  BY DEF LeaveBuilder
<1>2. /\ LockTypes'
      /\ Becomes("builder", readers["builder"], waiting["builder"], Nobody)
      /\ Kept("collection")
  BY <1>0, <1>1, Roles, UnlockFacts
<1>3. TaskTypes' /\ Moves(t, "writing", "over")
  BY <1>1, GotoFacts DEF Inside, LeaveBuilder
<1> QED BY <1>2, <1>3 DEF LeaveBuilder, walk

LEMMA BeginReadingFacts ==
  ASSUME LockTypes, TaskTypes, WalkTypes, NEW r \in Reader, BeginReading(r)
  PROVE  /\ LockTypes' /\ TaskTypes' /\ WalkTypes'
         /\ r \notin Labeler
         /\ Moves(r, "begin", "receiving")
         /\ NoWriter("builder")
         /\ Becomes("builder", readers["builder"] \cup {r}, waiting["builder"], owner["builder"])
         /\ Kept("collection")
         /\ Walks(r, "started", left[r], inHand[r], received[r], packages)
         /\ UNCHANGED packages
<1> USE Roles DEF Inside
<1>1. /\ r \notin Labeler
      /\ Moves(r, "begin", "receiving")
      /\ NoWriter("builder")
      /\ Becomes("builder", readers["builder"] \cup {r}, waiting["builder"], owner["builder"])
      /\ Kept("collection")
      /\ UNCHANGED packages
  BY RLockFacts, GotoFacts DEF BeginReading, locks, walk
<1>2. LockTypes'
  BY RLockFacts DEF BeginReading
<1>3. TaskTypes'
  BY GotoFacts DEF BeginReading
<1>4. /\ WalkTypes'
      /\ Walks(r, "started", left[r], inHand[r], received[r], packages)
  BY DEF BeginReading, WalkTypes, Walks, walk
<1> QED BY <1>1, <1>2, <1>3, <1>4

LEMMA BeginLabelingFacts ==
  ASSUME LockTypes, TaskTypes, WalkTypes, NEW r \in Reader, BeginLabeling(r)
  PROVE  /\ LockTypes' /\ TaskTypes' /\ WalkTypes'
         /\ Moves(r, "announced", "receiving")
         /\ waiting["builder"] = r /\ readers["builder"] = {}
         /\ Becomes("builder", {}, Nobody, r)
         /\ Kept("collection")
         /\ Walks(r, "started", left[r], inHand[r], received[r], packages)
         /\ UNCHANGED packages
<1> USE Roles DEF Inside
<1>1. /\ Moves(r, "announced", "receiving")
      /\ waiting["builder"] = r /\ readers["builder"] = {}
      /\ Becomes("builder", {}, Nobody, r)
      /\ Kept("collection")
      /\ UNCHANGED packages
  BY AcquireFacts, GotoFacts DEF BeginLabeling, locks, walk
<1>2. LockTypes'
  BY AcquireFacts DEF BeginLabeling
<1>3. TaskTypes'
  BY GotoFacts DEF BeginLabeling
<1>4. /\ WalkTypes'
      /\ Walks(r, "started", left[r], inHand[r], received[r], packages)
  BY DEF BeginLabeling, WalkTypes, Walks, walk
<1> QED BY <1>1, <1>2, <1>3, <1>4

LEMMA ReceivePackageFacts ==
  ASSUME LockTypes, TaskTypes, WalkTypes, NEW r \in Reader, ReceivePackage(r)
  PROVE  /\ LockTypes' /\ TaskTypes' /\ WalkTypes'
         /\ Walks(r, walker[r], left[r], {}, received[r] \cup inHand[r], asOf[r])
         /\ inHand[r] # {}
         /\ UNCHANGED packages
         /\ UNCHANGED <<readers, waiting, owner>>
         /\ UNCHANGED task
<1> USE Roles DEF Inside
<1>1. /\ inHand[r] # {}
      /\ UNCHANGED packages
      /\ UNCHANGED <<readers, waiting, owner>>
      /\ UNCHANGED task
  BY GotoFacts DEF ReceivePackage, locks, walk
<1>2. LockTypes'
  BY <1>1 DEF LockTypes
<1>3. TaskTypes'
  BY <1>1 DEF TaskTypes
<1>4. /\ WalkTypes'
      /\ Walks(r, walker[r], left[r], {}, received[r] \cup inHand[r], asOf[r])
  BY DEF ReceivePackage, WalkTypes, Walks, walk
<1> QED BY <1>1, <1>2, <1>3, <1>4

LEMMA EndReadingFacts ==
  ASSUME LockTypes, TaskTypes, WalkTypes, NEW r \in Reader, EndReading(r)
  PROVE  /\ LockTypes' /\ TaskTypes' /\ WalkTypes'
         /\ Moves(r, "receiving", "over")
         /\ walker[r] = "closed"
         /\ r \in Labeler => Becomes("builder", readers["builder"], waiting["builder"], Nobody)
         /\ r \notin Labeler => Becomes("builder", readers["builder"] \ {r}, waiting["builder"], owner["builder"])
         /\ Kept("collection")
         /\ UNCHANGED <<packages, walker, left, inHand, received, asOf>>
<1> USE Roles DEF Inside
<1>1. /\ Moves(r, "receiving", "over")
      /\ walker[r] = "closed"
      /\ r \in Labeler => Becomes("builder", readers["builder"], waiting["builder"], Nobody)
      /\ r \notin Labeler => Becomes("builder", readers["builder"] \ {r}, waiting["builder"], owner["builder"])
      /\ Kept("collection")
      /\ UNCHANGED <<packages, walker, left, inHand, received, asOf>>
  BY UnlockFacts, RUnlockFacts, GotoFacts DEF EndReading, locks, walk
<1>2. LockTypes'
  BY UnlockFacts, RUnlockFacts DEF EndReading
<1>3. TaskTypes'
  BY GotoFacts DEF EndReading
<1>4. /\ WalkTypes'
  BY DEF EndReading, WalkTypes, Walks, walk
<1> QED BY <1>1, <1>2, <1>3, <1>4

LEMMA StartWalkFacts ==
  ASSUME LockTypes, TaskTypes, WalkTypes, NEW r \in Reader, StartWalk(r)
  PROVE  /\ LockTypes' /\ TaskTypes' /\ WalkTypes'
         /\ walker[r] = "started"
         /\ NoWriter("collection")
         /\ Becomes("collection", readers["collection"] \cup {r}, waiting["collection"], owner["collection"])
         /\ Kept("builder")
         /\ Walks(r, "walking", packages, inHand[r], received[r], asOf[r])
         /\ UNCHANGED packages
         /\ UNCHANGED task
<1> USE Roles DEF Inside
<1>1. /\ walker[r] = "started"
      /\ NoWriter("collection")
      /\ Becomes("collection", readers["collection"] \cup {r}, waiting["collection"], owner["collection"])
      /\ Kept("builder")
      /\ UNCHANGED packages
      /\ UNCHANGED task
  BY RLockFacts, GotoFacts DEF StartWalk, locks, walk
<1>2. LockTypes'
  BY RLockFacts DEF StartWalk
<1>3. TaskTypes'
  BY <1>1 DEF TaskTypes
<1>4. /\ WalkTypes'
      /\ Walks(r, "walking", packages, inHand[r], received[r], asOf[r])
  BY DEF StartWalk, WalkTypes, Walks, walk
<1> QED BY <1>1, <1>2, <1>3, <1>4

LEMMA LookUpFacts ==
  ASSUME LockTypes, TaskTypes, WalkTypes, NEW r \in Reader, LookUp(r)
  PROVE  /\ LockTypes' /\ TaskTypes' /\ WalkTypes'
         /\ walker[r] = "walking"
         /\ inHand[r] = {}
         /\ \E p \in left[r] : Walks(r, walker[r], left[r] \ {p}, {p} \cap packages, received[r], asOf[r])
         /\ UNCHANGED packages
         /\ UNCHANGED <<readers, waiting, owner>>
         /\ UNCHANGED task
<1> USE Roles DEF Inside
<1>1. /\ walker[r] = "walking"
      /\ inHand[r] = {}
      /\ UNCHANGED packages
      /\ UNCHANGED <<readers, waiting, owner>>
      /\ UNCHANGED task
  BY GotoFacts DEF LookUp, locks, walk
<1>2. LockTypes'
  BY <1>1 DEF LockTypes
<1>3. TaskTypes'
  BY <1>1 DEF TaskTypes
<1>4. /\ WalkTypes'
      /\ \E p \in left[r] : Walks(r, walker[r], left[r] \ {p}, {p} \cap packages, received[r], asOf[r])
  BY DEF LookUp, WalkTypes, Walks, walk
<1> QED BY <1>1, <1>2, <1>3, <1>4

LEMMA EndWalkFacts ==
  ASSUME LockTypes, TaskTypes, WalkTypes, NEW r \in Reader, EndWalk(r)
  PROVE  /\ LockTypes' /\ TaskTypes' /\ WalkTypes'
         /\ walker[r] = "walking"
         /\ left[r] = {} /\ inHand[r] = {}
         /\ Becomes("collection", readers["collection"] \ {r}, waiting["collection"], owner["collection"])
         /\ Kept("builder")
         /\ Walks(r, "closed", left[r], inHand[r], received[r], asOf[r])
         /\ UNCHANGED packages
         /\ UNCHANGED task
<1> USE Roles DEF Inside
<1>1. /\ walker[r] = "walking"
      /\ left[r] = {} /\ inHand[r] = {}
      /\ Becomes("collection", readers["collection"] \ {r}, waiting["collection"], owner["collection"])
      /\ Kept("builder")
      /\ UNCHANGED packages
      /\ UNCHANGED task
  BY RUnlockFacts, GotoFacts DEF EndWalk, locks, walk
<1>2. LockTypes'
  BY RUnlockFacts DEF EndWalk
<1>3. TaskTypes'
  BY <1>1 DEF TaskTypes
<1>4. /\ WalkTypes'
      /\ Walks(r, "closed", left[r], inHand[r], received[r], asOf[r])
  BY DEF EndWalk, WalkTypes, Walks, walk
<1> QED BY <1>1, <1>2, <1>3, <1>4

-----------------------------------------------------------------------------
(* The invariant.                                                          *)

\* Every step keeps the types,
LEMMA TypesStep ==
  ASSUME ReadersInv, ReadersNext
  PROVE  TaskTypes' /\ LockTypes' /\ WalkTypes'
<1>1. LockTypes /\ TaskTypes /\ WalkTypes /\ TRUE
  BY DEF ReadersInv
<1>2. ASSUME NEW t \in Writer \cup Labeler, WantBuilder(t) PROVE TaskTypes' /\ LockTypes' /\ WalkTypes'
  BY <1>1, <1>2, Roles, WantBuilderFacts
     DEF Inside, Moves, Becomes, Kept, NoWriter, WalkTypes
<1>3. ASSUME NEW t \in Writer, GetBuilder(t) PROVE TaskTypes' /\ LockTypes' /\ WalkTypes'
  BY <1>1, <1>3, Roles, GetBuilderFacts
     DEF Inside, Moves, Becomes, Kept, NoWriter, WalkTypes
<1>4. ASSUME NEW t \in Writer, WantCollection(t) PROVE TaskTypes' /\ LockTypes' /\ WalkTypes'
  BY <1>1, <1>4, Roles, WantCollectionFacts
     DEF Inside, Moves, Becomes, Kept, NoWriter, WalkTypes
<1>5. ASSUME NEW t \in Writer, GetCollection(t) PROVE TaskTypes' /\ LockTypes' /\ WalkTypes'
  BY <1>1, <1>5, Roles, GetCollectionFacts
     DEF Inside, Moves, Becomes, Kept, NoWriter, WalkTypes
<1>6. ASSUME NEW t \in Writer, ChangePackage(t) PROVE TaskTypes' /\ LockTypes' /\ WalkTypes'
  BY <1>1, <1>6, Roles, ChangePackageFacts
     DEF Inside, Moves, Becomes, Kept, NoWriter, WalkTypes
<1>7. ASSUME NEW t \in Writer, LeaveBuilder(t) PROVE TaskTypes' /\ LockTypes' /\ WalkTypes'
  BY <1>1, <1>7, Roles, LeaveBuilderFacts
     DEF Inside, Moves, Becomes, Kept, NoWriter, WalkTypes
<1>8. ASSUME NEW r \in Reader, BeginReading(r) PROVE TaskTypes' /\ LockTypes' /\ WalkTypes'
  BY <1>1, <1>8, Roles, BeginReadingFacts
     DEF Inside, Moves, Becomes, Kept, NoWriter, WalkTypes
<1>9. ASSUME NEW r \in Reader, BeginLabeling(r) PROVE TaskTypes' /\ LockTypes' /\ WalkTypes'
  BY <1>1, <1>9, Roles, BeginLabelingFacts
     DEF Inside, Moves, Becomes, Kept, NoWriter, WalkTypes
<1>10. ASSUME NEW r \in Reader, ReceivePackage(r) PROVE TaskTypes' /\ LockTypes' /\ WalkTypes'
  BY <1>1, <1>10, Roles, ReceivePackageFacts
     DEF Inside, Moves, Becomes, Kept, NoWriter, WalkTypes
<1>11. ASSUME NEW r \in Reader, EndReading(r) PROVE TaskTypes' /\ LockTypes' /\ WalkTypes'
  BY <1>1, <1>11, Roles, EndReadingFacts
     DEF Inside, Moves, Becomes, Kept, NoWriter, WalkTypes
<1>12. ASSUME NEW r \in Reader, StartWalk(r) PROVE TaskTypes' /\ LockTypes' /\ WalkTypes'
  BY <1>1, <1>12, Roles, StartWalkFacts
     DEF Inside, Moves, Becomes, Kept, NoWriter, WalkTypes
<1>13. ASSUME NEW r \in Reader, LookUp(r) PROVE TaskTypes' /\ LockTypes' /\ WalkTypes'
  BY <1>1, <1>13, Roles, LookUpFacts
     DEF Inside, Moves, Becomes, Kept, NoWriter, WalkTypes
<1>14. ASSUME NEW r \in Reader, EndWalk(r) PROVE TaskTypes' /\ LockTypes' /\ WalkTypes'
  BY <1>1, <1>14, Roles, EndWalkFacts
     DEF Inside, Moves, Becomes, Kept, NoWriter, WalkTypes
<1> QED
  BY <1>2, <1>3, <1>4, <1>5, <1>6, <1>7, <1>8, <1>9,
     <1>10, <1>11, <1>12, <1>13, <1>14
     DEF ReadersNext, WriterStep, ReaderStep, WalkerStep, WantBuilder

\* who is in the builder,
LEMMA BuilderStep ==
  ASSUME ReadersInv, ReadersNext
  PROVE  BuilderInv'
<1>1. LockTypes /\ TaskTypes /\ WalkTypes /\ BuilderInv
  BY DEF ReadersInv
<1>2. ASSUME NEW t \in Writer \cup Labeler, WantBuilder(t) PROVE BuilderInv'
  <2>1. /\ task[t] = "begin" /\ task'[t] = "announced"
        /\ \A u \in Reader \cup Writer : u # t => task'[u] = task[u]
        /\ owner["builder"] = Nobody /\ owner'["builder"] = Nobody
        /\ readers'["builder"] = readers["builder"]
    BY <1>1, <1>2, WantBuilderFacts DEF Moves, Becomes, NoWriter
  <2> QED BY <1>1, <2>1, Roles DEF BuilderInv, Inside
<1>3. ASSUME NEW t \in Writer, GetBuilder(t) PROVE BuilderInv'
  <2>1. /\ task'[t] = "writing"
        /\ \A u \in Reader \cup Writer : u # t => task'[u] = task[u]
        /\ waiting["builder"] = t /\ readers["builder"] = {}
        /\ readers'["builder"] = {} /\ owner'["builder"] = t /\ waiting'["builder"] = Nobody
    BY <1>1, <1>3, GetBuilderFacts DEF Moves, Becomes
  <2>2. owner["builder"] = Nobody
    BY <1>1, <2>1, Roles DEF BuilderInv
  <2>3. /\ \A w \in Writer : task[w] \notin Inside
        /\ \A r \in Reader : task[r] # "receiving"
    BY <1>1, <2>1, <2>2, Roles DEF BuilderInv
  <2>4. /\ \A w \in Writer : task'[w] \in Inside => w = t
        /\ \A r \in Reader : /\ task'[r] # "receiving" /\ task'[r] \notin Inside
                             /\ task'[r] = "announced" => r \in Labeler
        /\ \A w \in Writer : task'[w] # "receiving"
    BY <1>1, <2>1, <2>3, Roles DEF BuilderInv
  <2> QED BY <2>1, <2>4 DEF BuilderInv
<1>4. ASSUME NEW t \in Writer, WantCollection(t) PROVE BuilderInv'
  BY <1>1, <1>4, Roles, WantCollectionFacts
     DEF Inside, Moves, Becomes, Kept, NoWriter, BuilderInv
<1>5. ASSUME NEW t \in Writer, GetCollection(t) PROVE BuilderInv'
  BY <1>1, <1>5, Roles, GetCollectionFacts
     DEF Inside, Moves, Becomes, Kept, NoWriter, BuilderInv
<1>6. ASSUME NEW t \in Writer, ChangePackage(t) PROVE BuilderInv'
  BY <1>1, <1>6, Roles, ChangePackageFacts
     DEF Inside, Moves, Becomes, Kept, NoWriter, BuilderInv
<1>7. ASSUME NEW t \in Writer, LeaveBuilder(t) PROVE BuilderInv'
  BY <1>1, <1>7, Roles, LeaveBuilderFacts
     DEF Inside, Moves, Becomes, Kept, NoWriter, BuilderInv
<1>8. ASSUME NEW r \in Reader, BeginReading(r) PROVE BuilderInv'
  BY <1>1, <1>8, Roles, BeginReadingFacts
     DEF Inside, Moves, Becomes, Kept, NoWriter, BuilderInv
<1>9. ASSUME NEW r \in Reader, BeginLabeling(r) PROVE BuilderInv'
  <2>1. /\ task[r] = "announced" /\ task'[r] = "receiving"
        /\ \A u \in Reader \cup Writer : u # r => task'[u] = task[u]
        /\ waiting["builder"] = r /\ readers["builder"] = {}
        /\ readers'["builder"] = {} /\ owner'["builder"] = r /\ waiting'["builder"] = Nobody
    BY <1>1, <1>9, BeginLabelingFacts DEF Moves, Becomes
  <2>2. owner["builder"] = Nobody
    BY <1>1, <2>1, Roles DEF BuilderInv
  <2>3. /\ \A w \in Writer : task[w] \notin Inside
        /\ \A q \in Reader : task[q] # "receiving"
    BY <1>1, <2>1, <2>2, Roles DEF BuilderInv
  <2>4. /\ \A w \in Writer : task'[w] \notin Inside /\ task'[w] # "receiving"
        /\ \A q \in Reader : q # r => task'[q] # "receiving"
        /\ \A q \in Reader : /\ task'[q] \notin Inside
                             /\ task'[q] = "announced" => q \in Labeler
    BY <1>1, <2>1, <2>3, Roles DEF BuilderInv, Inside
  <2>5. r \in Labeler
    BY <1>1, <2>1 DEF BuilderInv
  <2> QED BY <2>1, <2>4, <2>5 DEF BuilderInv
<1>10. ASSUME NEW r \in Reader, ReceivePackage(r) PROVE BuilderInv'
  BY <1>1, <1>10, Roles, ReceivePackageFacts
     DEF Inside, Moves, Becomes, Kept, NoWriter, BuilderInv
<1>11. ASSUME NEW r \in Reader, EndReading(r) PROVE BuilderInv'
  BY <1>1, <1>11, Roles, EndReadingFacts
     DEF Inside, Moves, Becomes, Kept, NoWriter, BuilderInv
<1>12. ASSUME NEW r \in Reader, StartWalk(r) PROVE BuilderInv'
  BY <1>1, <1>12, Roles, StartWalkFacts
     DEF Inside, Moves, Becomes, Kept, NoWriter, BuilderInv
<1>13. ASSUME NEW r \in Reader, LookUp(r) PROVE BuilderInv'
  BY <1>1, <1>13, Roles, LookUpFacts
     DEF Inside, Moves, Becomes, Kept, NoWriter, BuilderInv
<1>14. ASSUME NEW r \in Reader, EndWalk(r) PROVE BuilderInv'
  BY <1>1, <1>14, Roles, EndWalkFacts
     DEF Inside, Moves, Becomes, Kept, NoWriter, BuilderInv
<1> QED
  BY <1>2, <1>3, <1>4, <1>5, <1>6, <1>7, <1>8, <1>9,
     <1>10, <1>11, <1>12, <1>13, <1>14
     DEF ReadersNext, WriterStep, ReaderStep, WalkerStep, WantBuilder

\* who is in the collection,
LEMMA CollectionStep ==
  ASSUME ReadersInv, ReadersNext
  PROVE  CollectionInv'
<1>1. LockTypes /\ TaskTypes /\ WalkTypes /\ CollectionInv
  BY DEF ReadersInv
<1>2. ASSUME NEW t \in Writer \cup Labeler, WantBuilder(t) PROVE CollectionInv'
  BY <1>1, <1>2, Roles, WantBuilderFacts
     DEF Inside, Moves, Becomes, Kept, NoWriter, CollectionInv
<1>3. ASSUME NEW t \in Writer, GetBuilder(t) PROVE CollectionInv'
  BY <1>1, <1>3, Roles, GetBuilderFacts
     DEF Inside, Moves, Becomes, Kept, NoWriter, CollectionInv
<1>4. ASSUME NEW t \in Writer, WantCollection(t) PROVE CollectionInv'
  BY <1>1, <1>4, Roles, WantCollectionFacts
     DEF Inside, Moves, Becomes, Kept, NoWriter, CollectionInv
<1>5. ASSUME NEW t \in Writer, GetCollection(t) PROVE CollectionInv'
  BY <1>1, <1>5, Roles, GetCollectionFacts
     DEF Inside, Moves, Becomes, Kept, NoWriter, CollectionInv
<1>6. ASSUME NEW t \in Writer, ChangePackage(t) PROVE CollectionInv'
  BY <1>1, <1>6, Roles, ChangePackageFacts
     DEF Inside, Moves, Becomes, Kept, NoWriter, CollectionInv
<1>7. ASSUME NEW t \in Writer, LeaveBuilder(t) PROVE CollectionInv'
  BY <1>1, <1>7, Roles, LeaveBuilderFacts
     DEF Inside, Moves, Becomes, Kept, NoWriter, CollectionInv
<1>8. ASSUME NEW r \in Reader, BeginReading(r) PROVE CollectionInv'
  <2>1. /\ \A w \in Writer : task'[w] = task[w]
        /\ waiting'["collection"] = waiting["collection"]
        /\ owner'["collection"] = owner["collection"]
    BY <1>1, <1>8, Roles, BeginReadingFacts DEF Moves, Becomes, Kept
  <2> QED BY <1>1, <2>1 DEF CollectionInv
<1>9. ASSUME NEW r \in Reader, BeginLabeling(r) PROVE CollectionInv'
  <2>1. /\ \A w \in Writer : task'[w] = task[w]
        /\ waiting'["collection"] = waiting["collection"]
        /\ owner'["collection"] = owner["collection"]
    BY <1>1, <1>9, Roles, BeginLabelingFacts DEF Moves, Becomes, Kept
  <2> QED BY <1>1, <2>1 DEF CollectionInv
<1>10. ASSUME NEW r \in Reader, ReceivePackage(r) PROVE CollectionInv'
  <2>1. /\ \A w \in Writer : task'[w] = task[w]
        /\ waiting'["collection"] = waiting["collection"]
        /\ owner'["collection"] = owner["collection"]
    BY <1>1, <1>10, Roles, ReceivePackageFacts DEF Moves, Becomes, Kept
  <2> QED BY <1>1, <2>1 DEF CollectionInv
<1>11. ASSUME NEW r \in Reader, EndReading(r) PROVE CollectionInv'
  <2>1. /\ \A w \in Writer : task'[w] = task[w]
        /\ waiting'["collection"] = waiting["collection"]
        /\ owner'["collection"] = owner["collection"]
    BY <1>1, <1>11, Roles, EndReadingFacts DEF Moves, Becomes, Kept
  <2> QED BY <1>1, <2>1 DEF CollectionInv
<1>12. ASSUME NEW r \in Reader, StartWalk(r) PROVE CollectionInv'
  <2>1. /\ \A w \in Writer : task'[w] = task[w]
        /\ waiting'["collection"] = waiting["collection"]
        /\ owner'["collection"] = owner["collection"]
    BY <1>1, <1>12, Roles, StartWalkFacts DEF Moves, Becomes, Kept
  <2> QED BY <1>1, <2>1 DEF CollectionInv
<1>13. ASSUME NEW r \in Reader, LookUp(r) PROVE CollectionInv'
  <2>1. /\ \A w \in Writer : task'[w] = task[w]
        /\ waiting'["collection"] = waiting["collection"]
        /\ owner'["collection"] = owner["collection"]
    BY <1>1, <1>13, Roles, LookUpFacts DEF Moves, Becomes, Kept
  <2> QED BY <1>1, <2>1 DEF CollectionInv
<1>14. ASSUME NEW r \in Reader, EndWalk(r) PROVE CollectionInv'
  <2>1. /\ \A w \in Writer : task'[w] = task[w]
        /\ waiting'["collection"] = waiting["collection"]
        /\ owner'["collection"] = owner["collection"]
    BY <1>1, <1>14, Roles, EndWalkFacts DEF Moves, Becomes, Kept
  <2> QED BY <1>1, <2>1 DEF CollectionInv
<1> QED
  BY <1>2, <1>3, <1>4, <1>5, <1>6, <1>7, <1>8, <1>9,
     <1>10, <1>11, <1>12, <1>13, <1>14
     DEF ReadersNext, WriterStep, ReaderStep, WalkerStep, WantBuilder

\* Nobody enumerates while a writer is in the builder.
LEMMA Alone ==
  ASSUME BuilderInv, NEW w \in Writer, task[w] \in Inside, NEW r \in Reader
  PROVE  task[r] # "receiving"
<1>1. owner["builder"] = w /\ w # Nobody /\ w # r
  BY Roles DEF BuilderInv
<1>2. readers["builder"] = {}
  BY <1>1 DEF BuilderInv
<1> QED BY <1>1, <1>2 DEF BuilderInv

\* An enumeration stays as good as it is where nothing of it changes.
LEMMA WalkKept ==
  ASSUME NEW r \in Reader, WalkOf(r), task'[r] = task[r],
         packages' = packages \/ task[r] # "receiving",
         walker'[r] = walker[r], left'[r] = left[r], inHand'[r] = inHand[r],
         received'[r] = received[r], asOf'[r] = asOf[r]
  PROVE  WalkOf(r)'
BY DEF WalkOf

\* and what every enumeration has sent.
LEMMA WalkStep ==
  ASSUME ReadersInv, ReadersNext
  PROVE  WalkInv'
<1>1. LockTypes /\ TaskTypes /\ WalkTypes /\ BuilderInv /\ \A r \in Reader : WalkOf(r)
  BY DEF ReadersInv, WalkInv
<1>2. ASSUME NEW t \in Writer \cup Labeler, WantBuilder(t), NEW q \in Reader PROVE WalkOf(q)'
  <2>1. task[t] = "begin" /\ task'[t] = "announced"
    BY <1>1, <1>2, WantBuilderFacts DEF Moves
  <2>2. CASE q # t
    <3>1. task'[q] = task[q] /\ UNCHANGED <<packages, walker, left, inHand, received, asOf>>
      BY <1>1, <1>2, <2>2, WantBuilderFacts DEF Moves
    <3> QED BY <1>1, <3>1, WalkKept
  <2>3. CASE q = t
    <3>1. UNCHANGED <<packages, walker, left, inHand, received, asOf>>
      BY <1>1, <1>2, WantBuilderFacts
    <3> QED BY <1>1, <2>1, <2>3, <3>1 DEF WalkOf
  <2> QED BY <2>2, <2>3
<1>3. ASSUME NEW t \in Writer, GetBuilder(t), NEW q \in Reader PROVE WalkOf(q)'
  <2>1. task'[q] = task[q] /\ UNCHANGED <<packages, walker, left, inHand, received, asOf>>
    BY <1>1, <1>3, Roles, GetBuilderFacts DEF Moves
  <2> QED BY <1>1, <2>1, WalkKept
<1>4. ASSUME NEW t \in Writer, WantCollection(t), NEW q \in Reader PROVE WalkOf(q)'
  <2>1. task'[q] = task[q] /\ UNCHANGED <<packages, walker, left, inHand, received, asOf>>
    BY <1>1, <1>4, Roles, WantCollectionFacts DEF Moves
  <2> QED BY <1>1, <2>1, WalkKept
<1>5. ASSUME NEW t \in Writer, GetCollection(t), NEW q \in Reader PROVE WalkOf(q)'
  <2>1. task'[q] = task[q] /\ UNCHANGED <<packages, walker, left, inHand, received, asOf>>
    BY <1>1, <1>5, Roles, GetCollectionFacts DEF Moves
  <2> QED BY <1>1, <2>1, WalkKept
<1>6. ASSUME NEW t \in Writer, ChangePackage(t), NEW q \in Reader PROVE WalkOf(q)'
  <2>1. task[t] \in Inside /\ task'[q] = task[q] /\ UNCHANGED <<walker, left, inHand, received, asOf>>
    BY <1>1, <1>6, Roles, ChangePackageFacts DEF Moves, Inside
  <2> QED BY <1>1, <2>1, Alone, WalkKept
<1>7. ASSUME NEW t \in Writer, LeaveBuilder(t), NEW q \in Reader PROVE WalkOf(q)'
  <2>1. task'[q] = task[q] /\ UNCHANGED <<packages, walker, left, inHand, received, asOf>>
    BY <1>1, <1>7, Roles, LeaveBuilderFacts DEF Moves
  <2> QED BY <1>1, <2>1, WalkKept
<1>8. ASSUME NEW r \in Reader, BeginReading(r), NEW q \in Reader PROVE WalkOf(q)'
  <2>1. CASE q # r
    <3>1. /\ task'[q] = task[q] /\ packages' = packages
          /\ walker'[q] = walker[q] /\ left'[q] = left[q] /\ inHand'[q] = inHand[q]
          /\ received'[q] = received[q] /\ asOf'[q] = asOf[q]
      BY <1>1, <1>8, <2>1, BeginReadingFacts DEF Moves, Walks
    <3> QED BY <1>1, <3>1, WalkKept
  <2>2. CASE q = r
    BY <1>1, <1>8, <2>2, BeginReadingFacts DEF Moves, Walks, WalkOf
  <2> QED BY <2>1, <2>2
<1>9. ASSUME NEW r \in Reader, BeginLabeling(r), NEW q \in Reader PROVE WalkOf(q)'
  <2>1. CASE q # r
    <3>1. /\ task'[q] = task[q] /\ packages' = packages
          /\ walker'[q] = walker[q] /\ left'[q] = left[q] /\ inHand'[q] = inHand[q]
          /\ received'[q] = received[q] /\ asOf'[q] = asOf[q]
      BY <1>1, <1>9, <2>1, BeginLabelingFacts DEF Moves, Walks
    <3> QED BY <1>1, <3>1, WalkKept
  <2>2. CASE q = r
    BY <1>1, <1>9, <2>2, BeginLabelingFacts DEF Moves, Walks, WalkOf
  <2> QED BY <2>1, <2>2
<1>10. ASSUME NEW r \in Reader, ReceivePackage(r), NEW q \in Reader PROVE WalkOf(q)'
  <2>1. CASE q # r
    <3>1. /\ task'[q] = task[q] /\ packages' = packages
          /\ walker'[q] = walker[q] /\ left'[q] = left[q] /\ inHand'[q] = inHand[q]
          /\ received'[q] = received[q] /\ asOf'[q] = asOf[q]
      BY <1>1, <1>10, <2>1, ReceivePackageFacts DEF Moves, Walks
    <3> QED BY <1>1, <3>1, WalkKept
  <2>2. CASE q = r
    BY <1>1, <1>10, <2>2, ReceivePackageFacts DEF Moves, Walks, WalkOf
  <2> QED BY <2>1, <2>2
<1>11. ASSUME NEW r \in Reader, EndReading(r), NEW q \in Reader PROVE WalkOf(q)'
  <2>1. CASE q # r
    <3>1. /\ task'[q] = task[q] /\ packages' = packages
          /\ walker'[q] = walker[q] /\ left'[q] = left[q] /\ inHand'[q] = inHand[q]
          /\ received'[q] = received[q] /\ asOf'[q] = asOf[q]
      BY <1>1, <1>11, <2>1, EndReadingFacts DEF Moves, Walks
    <3> QED BY <1>1, <3>1, WalkKept
  <2>2. CASE q = r
    BY <1>1, <1>11, <2>2, EndReadingFacts DEF Moves, Walks, WalkOf
  <2> QED BY <2>1, <2>2
<1>12. ASSUME NEW r \in Reader, StartWalk(r), NEW q \in Reader PROVE WalkOf(q)'
  <2>1. CASE q # r
    <3>1. /\ task'[q] = task[q] /\ packages' = packages
          /\ walker'[q] = walker[q] /\ left'[q] = left[q] /\ inHand'[q] = inHand[q]
          /\ received'[q] = received[q] /\ asOf'[q] = asOf[q]
      BY <1>1, <1>12, <2>1, StartWalkFacts DEF Moves, Walks
    <3> QED BY <1>1, <3>1, WalkKept
  <2>2. CASE q = r
    <3>1. walker[r] = "started" /\ task'[r] = task[r]
      BY <1>1, <1>12, StartWalkFacts
    <3>2. task[r] \in {"begin", "announced", "receiving", "over"}
      BY <1>1 DEF BuilderInv, TaskTypes
    <3>3. task[r] = "receiving"
      BY <1>1, <3>1, <3>2 DEF WalkOf
    <3> QED BY <1>1, <1>12, <2>2, <3>1, <3>3, StartWalkFacts DEF Walks, WalkOf
  <2> QED BY <2>1, <2>2
<1>13. ASSUME NEW r \in Reader, LookUp(r), NEW q \in Reader PROVE WalkOf(q)'
  <2>1. CASE q # r
    <3>1. /\ task'[q] = task[q] /\ packages' = packages
          /\ walker'[q] = walker[q] /\ left'[q] = left[q] /\ inHand'[q] = inHand[q]
          /\ received'[q] = received[q] /\ asOf'[q] = asOf[q]
      BY <1>1, <1>13, <2>1, LookUpFacts DEF Moves, Walks
    <3> QED BY <1>1, <3>1, WalkKept
  <2>2. CASE q = r
    <3>1. walker[r] = "walking" /\ task'[r] = task[r]
      BY <1>1, <1>13, LookUpFacts
    <3>2. task[r] \in {"begin", "announced", "receiving", "over"}
      BY <1>1 DEF BuilderInv, TaskTypes
    <3>3. task[r] = "receiving"
      BY <1>1, <3>1, <3>2 DEF WalkOf
    <3> QED BY <1>1, <1>13, <2>2, <3>1, <3>3, LookUpFacts DEF Walks, WalkOf
  <2> QED BY <2>1, <2>2
<1>14. ASSUME NEW r \in Reader, EndWalk(r), NEW q \in Reader PROVE WalkOf(q)'
  <2>1. CASE q # r
    <3>1. /\ task'[q] = task[q] /\ packages' = packages
          /\ walker'[q] = walker[q] /\ left'[q] = left[q] /\ inHand'[q] = inHand[q]
          /\ received'[q] = received[q] /\ asOf'[q] = asOf[q]
      BY <1>1, <1>14, <2>1, EndWalkFacts DEF Moves, Walks
    <3> QED BY <1>1, <3>1, WalkKept
  <2>2. CASE q = r
    BY <1>1, <1>14, <2>2, EndWalkFacts DEF Moves, Walks, WalkOf
  <2> QED BY <2>1, <2>2
<1> QED
  BY <1>2, <1>3, <1>4, <1>5, <1>6, <1>7, <1>8, <1>9,
     <1>10, <1>11, <1>12, <1>13, <1>14
     DEF WalkInv, ReadersNext, WriterStep, ReaderStep, WalkerStep, WantBuilder

\* So every step keeps the invariant.
LEMMA ReadersStep == ReadersInv /\ [ReadersNext]_readersVars => ReadersInv'
<1>1. ASSUME ReadersInv, ReadersNext PROVE ReadersInv'
  BY <1>1, TypesStep, BuilderStep, CollectionStep, WalkStep DEF ReadersInv
<1>2. ASSUME ReadersInv, UNCHANGED readersVars PROVE ReadersInv'
  <2>1. UNCHANGED <<packages, task, readers, waiting, owner, walker, left, inHand, received, asOf>>
    BY <1>2 DEF readersVars, locks, walk
  <2>2. TaskTypes' /\ LockTypes' /\ WalkTypes'
    BY <1>2, <2>1 DEF ReadersInv, TaskTypes, LockTypes, WalkTypes
  <2>3. BuilderInv'
    BY <1>2, <2>1 DEF ReadersInv, BuilderInv
  <2>4. CollectionInv'
    BY <1>2, <2>1 DEF ReadersInv, CollectionInv
  <2>5. WalkInv'
    BY <1>2, <2>1 DEF ReadersInv, WalkInv, WalkOf
  <2> QED BY <2>2, <2>3, <2>4, <2>5 DEF ReadersInv
<1> QED BY <1>1, <1>2

-----------------------------------------------------------------------------
(* The theorems.                                                           *)

\* Whoever is in the builder or enumerates holds the locks it relies on, for any
\* readers, writers and changes.
THEOREM ReadersInvariant == ReadersSpec => []ReadersInv
BY ReadersStart, ReadersStep, PTL DEF ReadersSpec

\* A task that ranges over the packages receives them as they were when it got
\* the lock of the builder (builder.go:75-89, collection.go:101-108).
THEOREM ReadersSeeOneState == ReadersSpec => []SeesOneState
<1>1. ReadersInv => SeesOneState
  BY DEF ReadersInv, WalkInv, WalkOf, SeesOneState
<1> QED BY <1>1, ReadersInvariant, PTL

\* An enumeration that holds the lock of the collection and takes it again for
\* every package never finds a writer that holds it or waits for it: what keeps
\* it from waiting for itself (collection.go:262-282).
THEOREM EnumerationsUnhindered ==
  ReadersSpec => [](\A r \in Reader : walker[r] = "walking" => NoWriter("collection"))
<1>1. ReadersInv => \A r \in Reader : walker[r] = "walking" => NoWriter("collection")
  <2> SUFFICES ASSUME ReadersInv, NEW r \in Reader, walker[r] = "walking"
               PROVE  NoWriter("collection")
    OBVIOUS
  <2>1. WalkOf(r) /\ BuilderInv /\ CollectionInv /\ TaskTypes
    BY DEF ReadersInv, WalkInv
  <2>2. task[r] \in {"begin", "announced", "receiving", "over"}
    BY <2>1 DEF BuilderInv, TaskTypes
  <2>3. task[r] = "receiving"
    BY <2>1, <2>2 DEF WalkOf
  <2>4. \A w \in Writer : task[w] \notin Inside
    BY <2>1, <2>3, Alone
  <2> QED BY <2>1, <2>4 DEF CollectionInv, NoWriter, Inside
<1> QED BY <1>1, ReadersInvariant, PTL

-----------------------------------------------------------------------------
(* The locations of an image.                                              *)

Squashed == Locations["squashed"]
AllLayers == Locations["all"]
Item == Range(Squashed) \cup Range(AllLayers)
Left == IF filtering THEN Excluded ELSE {}

\* What the merge has been sent, or the view itself has sent, and is wanted.
Fetched == {Squashed[n] : n \in 1 .. sent["squashed"]}
             \cup ({AllLayers[n] : n \in 1 .. sent["all"]}
                     \cap (Raisable \ Range(Squashed)))

StreamTypes ==
  /\ deep \in BOOLEAN /\ filtering \in BOOLEAN /\ cancelled \in BOOLEAN
  /\ sent \in [Views -> Nat]
  /\ \A v \in Views : sent[v] <= Len(Locations[v])
  /\ merging \in [view : Views, location : Item \cup {None}, done : BOOLEAN]
  /\ passing \in Item \cup {None}
  /\ got \in Seq(Item)

\* Who closed a channel was through with what is behind it.
ClosedInv ==
  /\ "squashed" \notin running => sent["squashed"] = Len(Squashed)
  /\ "all" \notin running /\ deep => sent["all"] = Len(AllLayers)
  /\ "merge" \notin running /\ deep =>
       /\ merging.view = "all" /\ merging.location = None
       /\ running \cap Views = {}
  /\ "filter" \notin running /\ filtering => passing = None /\ Upstream \notin running

\* The merge takes the views one after the other.
MergeInv ==
  /\ ~deep => /\ sent["all"] = 0 /\ merging.location = None
              /\ "merge" \notin running /\ "all" \notin running
  /\ merging.view = "squashed" => sent["all"] = 0
  /\ deep /\ merging.view = "all" => "squashed" \notin running
  /\ deep => coords = {Squashed[n] : n \in 1 .. sent["squashed"]}
                        \ (IF merging.view = "squashed" THEN {merging.location} ELSE {})
  /\ ~merging.done
  /\ ~filtering => passing = None /\ "filter" \notin running

\* Nothing of f is l or comes after it.
IsLast(f, l) == \A m \in f : m # l /\ Place(m) < Place(l)

\* What was fetched (f) but is not left out (x) has arrived (g), in order, but
\* for what is in the hands of the filter (p) and then of the merge (q).
Underway(f, x, g, p, q) ==
  /\ Range(g) = f \ (x \cup {p, q})
  /\ p # None => p \in f \ x
  /\ q # None => q \in f
  /\ KeepsOrder(g)
  /\ p # None => \A l \in Range(g) : Place(l) < Place(p)
  /\ q # None => \A l \in Range(g) : Place(l) < Place(q)
  /\ p # None /\ q # None => Place(p) < Place(q)

Flowing == Underway(Fetched, Left, got, passing, merging.location)

FlowInv == ~cancelled => ClosedInv /\ MergeInv /\ Flowing

StreamInv == /\ StreamTypes
             /\ FlowInv
             /\ EachOnce
             /\ cataloger = "returned" => cancelled

-----------------------------------------------------------------------------
\* What is assumed of views, in the form the steps need.
LEMMA StreamConstants ==
  /\ \A v \in Views : Locations[v] \in Seq(Item)
  /\ \A v \in Views : \A i, j \in 1 .. Len(Locations[v]) :
       Locations[v][i] = Locations[v][j] => i = j
  /\ None \notin Item
<1>1. \A v \in Views : Locations[v] \in Seq(Range(Locations[v]))
  BY StreamAssumption
<1>2. \A v \in Views : Range(Locations[v]) \subseteq Item
  BY DEF Views, Item, Squashed, AllLayers
<1>3. \A v \in Views : Locations[v] \in Seq(Item)
  <2> TAKE v \in Views
  <2>1. \A n \in 1 .. Len(Locations[v]) : Locations[v][n] \in Item
    BY <1>1, <1>2
  <2> QED BY <1>1, <2>1
<1>4. \A v \in Views : \A i, j \in 1 .. Len(Locations[v]) :
        Locations[v][i] = Locations[v][j] => i = j
  BY <1>3, StreamAssumption DEF IsInjective
<1> QED BY <1>3, <1>4, StreamAssumption DEF Item, Views, Squashed, AllLayers

\* The place of a location that the squashed view holds.
LEMMA PlaceSquashed ==
  ASSUME NEW n \in 1 .. Len(Squashed)
  PROVE  Squashed[n] \in Range(Squashed) /\ Place(Squashed[n]) = n
<1> DEFINE l == Squashed[n]
<1>1. DOMAIN Squashed = 1 .. Len(Squashed)
  BY StreamConstants DEF Views, Squashed
<1>2. l \in Range(Squashed)
  BY <1>1 DEF Range
<1>3. \A m \in 1 .. Len(Squashed) : Squashed[m] = l => m = n
  BY StreamConstants DEF Views, Squashed
<1>4. IndexIn("squashed", l) = n
  BY <1>1, <1>3 DEF IndexIn, Squashed
<1> QED BY <1>2, <1>4 DEF Place, Squashed

\* The place of a location that only another view holds.
LEMMA PlaceRaised ==
  ASSUME NEW n \in 1 .. Len(AllLayers), AllLayers[n] \notin Range(Squashed)
  PROVE  Place(AllLayers[n]) = Len(Squashed) + n
<1> DEFINE l == AllLayers[n]
<1>1. DOMAIN AllLayers = 1 .. Len(AllLayers)
  BY StreamConstants DEF Views, AllLayers
<1>3. \A m \in 1 .. Len(AllLayers) : AllLayers[m] = l => m = n
  BY StreamConstants DEF Views, AllLayers
<1>4. IndexIn("all", l) = n
  BY <1>1, <1>3 DEF IndexIn, AllLayers
<1> QED BY <1>4 DEF Place, Squashed

\* Nothing fetched so far comes after, or is, what a view holds next.
LEMMA FetchedPlaces ==
  ASSUME StreamTypes, NEW l \in Fetched
  PROVE  /\ l \in Item /\ l # None /\ Place(l) \in Nat
         /\ \/ \E n \in 1 .. sent["squashed"] : l = Squashed[n] /\ Place(l) = n
            \/ \E n \in 1 .. sent["all"] : /\ l = AllLayers[n] /\ l \notin Range(Squashed)
                                          /\ Place(l) = Len(Squashed) + n
<1>1. /\ sent["squashed"] \in Nat /\ sent["squashed"] <= Len(Squashed)
      /\ sent["all"] \in Nat /\ sent["all"] <= Len(AllLayers)
      /\ Len(Squashed) \in Nat /\ Len(AllLayers) \in Nat
      /\ Squashed \in Seq(Item) /\ AllLayers \in Seq(Item)
  BY StreamConstants DEF StreamTypes, Views, Squashed, AllLayers
<1>4. None \notin Item
  BY StreamConstants
<1>2. CASE \E n \in 1 .. sent["squashed"] : l = Squashed[n]
  BY <1>1, <1>2, <1>4, PlaceSquashed
<1>3. CASE \E n \in 1 .. sent["all"] : l = AllLayers[n] /\ l \notin Range(Squashed)
  BY <1>1, <1>3, <1>4, PlaceRaised
<1> QED BY <1>2, <1>3 DEF Fetched

\* The merge takes a location of the squashed view: it is new, and the last so far.
LEMMA FetchSquashed ==
  ASSUME StreamTypes, sent["all"] = 0, Ready("squashed"), Take("squashed")
  PROVE  LET l == NextOf("squashed")
         IN  /\ Fetched' = Fetched \cup {l}
             /\ IsLast(Fetched, l)
             /\ l \in Item
             /\ sent' \in [Views -> Nat] /\ sent'["all"] = sent["all"]
             /\ sent'["squashed"] = sent["squashed"] + 1
             /\ \A v \in Views : sent'[v] <= Len(Locations[v])
             /\ {Squashed[n] : n \in 1 .. sent'["squashed"]}
                  = {Squashed[n] : n \in 1 .. sent["squashed"]} \cup {l}
<1> DEFINE k == sent["squashed"]
           l == Squashed[k + 1]
<1>1. /\ k \in Nat /\ k < Len(Squashed) /\ Len(Squashed) \in Nat
      /\ NextOf("squashed") = l /\ Squashed \in Seq(Item)
      /\ sent' = [sent EXCEPT !["squashed"] = k + 1]
  BY StreamConstants DEF StreamTypes, Views, Squashed, Ready, NextOf, Take
<1>2. /\ sent' \in [Views -> Nat] /\ sent'["squashed"] = k + 1 /\ sent'["all"] = 0
      /\ \A v \in Views : sent'[v] <= Len(Locations[v])
  BY <1>1 DEF StreamTypes, Views, Squashed
<1>3. l \in Item /\ Place(l) = k + 1
  BY <1>1, PlaceSquashed
<1>4. {Squashed[n] : n \in 1 .. k + 1} = {Squashed[n] : n \in 1 .. k} \cup {l}
  BY <1>1
<1>5. 1 .. 0 = {}
  OBVIOUS
<1>6. Fetched' = Fetched \cup {l}
  BY <1>2, <1>4, <1>5 DEF Fetched, Squashed, AllLayers, Raisable
<1>7. IsLast(Fetched, l)
  BY <1>1, <1>3, FetchedPlaces DEF IsLast
<1> QED BY <1>1, <1>2, <1>3, <1>4, <1>6, <1>7

\* It takes one of all layers, after the squashed view: new only if that has not got it.
LEMMA FetchAll ==
  ASSUME StreamTypes, Ready("all"), Take("all"), sent["squashed"] = Len(Squashed)
  PROVE  LET l == NextOf("all")
         IN  /\ l \in Raisable \ Range(Squashed) =>
                  /\ Fetched' = Fetched \cup {l}
                  /\ IsLast(Fetched, l)
             /\ l \notin Raisable \ Range(Squashed) => Fetched' = Fetched
             /\ l \in Item
             /\ sent' \in [Views -> Nat] /\ sent'["squashed"] = sent["squashed"]
             /\ sent'["all"] = sent["all"] + 1
             /\ \A v \in Views : sent'[v] <= Len(Locations[v])
<1> DEFINE k == sent["all"]
           l == AllLayers[k + 1]
<1>1. /\ k \in Nat /\ k < Len(AllLayers) /\ Len(AllLayers) \in Nat
      /\ NextOf("all") = l /\ AllLayers \in Seq(Item) /\ Len(Squashed) \in Nat
      /\ sent' = [sent EXCEPT !["all"] = k + 1]
  BY StreamConstants DEF StreamTypes, Views, AllLayers, Squashed, Ready, NextOf, Take
<1>a. /\ \A v \in Views : sent[v] <= Len(Locations[v]) /\ sent[v] \in Nat
      /\ Views = {"squashed", "all"}
  BY DEF StreamTypes, Views
<1>b. sent \in [Views -> Nat]
  BY DEF StreamTypes
<1>2. /\ sent' \in [Views -> Nat] /\ sent'["all"] = k + 1
      /\ sent'["squashed"] = sent["squashed"]
      /\ \A v \in Views : sent'[v] <= Len(Locations[v])
  <2>0. "all" \in Views /\ "squashed" \in Views /\ k + 1 \in Nat
    BY <1>1, <1>a
  <2>1. sent' \in [Views -> Nat] /\ sent'["all"] = k + 1 /\ sent'["squashed"] = sent["squashed"]
    <3> HIDE DEF k
    <3> QED BY <1>1, <1>b, <2>0
  <2>2. k + 1 <= Len(Locations["all"])
    BY <1>1 DEF AllLayers
  <2> QED BY <2>1, <2>2, <1>a
<1>3. l \in Item /\ (l \notin Range(Squashed) => Place(l) = Len(Squashed) + (k + 1))
  <2>1. k + 1 \in 1 .. Len(AllLayers)
    BY <1>1
  <2>2. l \in Item
    BY <1>1, <2>1
  <2>3. ASSUME l \notin Range(Squashed) PROVE Place(l) = Len(Squashed) + (k + 1)
    BY <2>1, <2>3, PlaceRaised
  <2> QED BY <2>2, <2>3
<1>4. {AllLayers[n] : n \in 1 .. k + 1} = {AllLayers[n] : n \in 1 .. k} \cup {l}
  BY <1>1
<1>5. /\ Fetched = {Squashed[n] : n \in 1 .. sent["squashed"]}
                     \cup ({AllLayers[n] : n \in 1 .. k} \cap (Raisable \ Range(Squashed)))
      /\ Fetched' = {Squashed[n] : n \in 1 .. sent["squashed"]}
                     \cup ({AllLayers[n] : n \in 1 .. k + 1} \cap (Raisable \ Range(Squashed)))
  BY <1>2 DEF Fetched, Squashed, AllLayers, Raisable
<1>6. l \in Raisable \ Range(Squashed) => Fetched' = Fetched \cup {l}
  BY <1>4, <1>5
<1>7. l \notin Raisable \ Range(Squashed) => Fetched' = Fetched
  BY <1>4, <1>5
<1>8. l \notin Range(Squashed) => IsLast(Fetched, l)
  BY <1>1, <1>3, FetchedPlaces DEF IsLast
<1> QED BY <1>1, <1>2, <1>3, <1>6, <1>7, <1>8
-----------------------------------------------------------------------------
\* A location that comes into the hands of the merge is underway.
LEMMA Fetches ==
  ASSUME NEW f \in SUBSET Item, NEW x, NEW g, NEW p, NEW l \in Item,
         Underway(f, x, g, p, None), IsLast(f, l)
  PROVE  Underway(f \cup {l}, x, g, p, l)
<1>1. None \notin Item
  BY StreamConstants
<1>2. Range(g) \subseteq f /\ (p # None => p \in f) /\ l \notin f /\ l # None
  BY <1>1 DEF Underway, IsLast
<1>3. Range(g) = (f \cup {l}) \ (x \cup {p, l})
  BY <1>1, <1>2 DEF Underway
<1>4. \A m \in f : Place(m) < Place(l)
  BY DEF IsLast
<1> QED BY <1>2, <1>3, <1>4 DEF Underway

\* The filter goes from one location to the next.
LEMMA Passes ==
  ASSUME NEW f \in SUBSET Item, NEW x, NEW g, NEW l \in Item,
         Underway(f, x, g, None, l)
  PROVE  Underway(f, x, g, IF l \in x THEN None ELSE l, None)
<1>1. None \notin Item
  BY StreamConstants
<1> QED BY <1>1 DEF Underway

\* What arrives comes after all that arrived before it.
LEMMA Arrives ==
  ASSUME NEW f \in SUBSET Item, \A m \in f : Place(m) \in Nat,
         NEW x, NEW g \in Seq(Item), NEW l \in Item, NEW q,
         Underway(f, x, g, l, q)
  PROVE  Underway(f, x, Append(g, l), None, q) /\ Append(g, l) \in Seq(Item)
<1> DEFINE h == Append(g, l)
<1>1. None \notin Item
  BY StreamConstants
<1>2. /\ h \in Seq(Item) /\ Len(g) \in Nat /\ Len(h) = Len(g) + 1
      /\ \A i \in 1 .. Len(g) : h[i] = g[i]
      /\ h[Len(g) + 1] = l
      /\ DOMAIN g = 1 .. Len(g) /\ DOMAIN h = 1 .. Len(h)
  OBVIOUS
<1>3. Range(h) = Range(g) \cup {l}
  <2> HIDE DEF h
  <2>1. Range(g) = {g[i] : i \in 1 .. Len(g)} /\ Range(h) = {h[i] : i \in 1 .. Len(g) + 1}
    BY <1>2 DEF Range
  <2> QED BY <2>1, <1>2
<1>4. /\ l \in f \ x /\ KeepsOrder(g)
      /\ \A m \in Range(g) : Place(m) < Place(l)
      /\ q # None => q \in f /\ Place(l) < Place(q)
      /\ q # None => \A m \in Range(g) : Place(m) < Place(q)
      /\ Range(g) = f \ (x \cup {l, q})
  BY <1>1 DEF Underway
<1> HIDE DEF h
<1>5. l # q
  BY <1>1, <1>4
<1>6. Range(h) = f \ (x \cup {None, q})
  BY <1>1, <1>3, <1>4, <1>5
<1>7. ASSUME NEW i \in DOMAIN h, NEW j \in DOMAIN h, i < j
      PROVE  Place(h[i]) < Place(h[j])
  <2>1. i \in 1 .. Len(g) /\ h[i] = g[i] /\ g[i] \in Range(g)
    BY <1>2, <1>7 DEF Range
  <2>2. CASE j \in 1 .. Len(g)
    BY <2>1, <2>2, <1>2, <1>4, <1>7 DEF KeepsOrder
  <2>3. CASE j = Len(g) + 1
    BY <2>1, <2>3, <1>2, <1>4
  <2> QED BY <2>2, <2>3, <1>2
<1>8. KeepsOrder(h)
  BY <1>7 DEF KeepsOrder
<1>9. Underway(f, x, h, None, q)
  BY <1>3, <1>4, <1>6, <1>8 DEF Underway
<1> QED BY <1>2, <1>9 DEF h

-----------------------------------------------------------------------------
\* What was fetched are locations, and each has a place.
LEMMA FetchedTypes ==
  ASSUME StreamTypes
  PROVE  Fetched \in SUBSET Item /\ \A m \in Fetched : Place(m) \in Nat
BY FetchedPlaces

\* What a view sends is one of its locations.
LEMMA TakeTypes ==
  ASSUME StreamTypes, NEW v \in Views, Ready(v), Take(v)
  PROVE  /\ NextOf(v) \in Item
         /\ sent' \in [Views -> Nat]
         /\ \A w \in Views : sent'[w] <= Len(Locations[w])
<1>1. Locations[v] \in Seq(Item) /\ sent[v] \in Nat /\ sent[v] < Len(Locations[v])
  BY StreamConstants DEF StreamTypes, Ready
<1>2. NextOf(v) \in Item
  BY <1>1 DEF NextOf
<1>3. sent \in [Views -> Nat] /\ sent' = [sent EXCEPT ![v] = sent[v] + 1]
  BY DEF StreamTypes, Take
<1>4. sent' \in [Views -> Nat] /\ sent'[v] = sent[v] + 1 /\ \A w \in Views \ {v} : sent'[w] = sent[w]
  BY <1>1, <1>3
<1>5. \A w \in Views : sent'[w] <= Len(Locations[w])
  <2> TAKE w \in Views
  <2>1. CASE w = v
    BY <2>1, <1>1, <1>4
  <2>2. CASE w # v
    BY <2>2, <1>4 DEF StreamTypes
  <2> QED BY <2>1, <2>2
<1> QED BY <1>2, <1>4, <1>5

\* Flowing, in the next state.
LEMMA FlowingNext ==
  Flowing' <=> Underway(Fetched', Left', got', passing', merging'.location)
BY DEF Flowing, Underway, KeepsOrder, Place, IndexIn

\* While the cataloger and what it got stay as they are, so does what it
\* promises.
LEMMA EachOnceStays ==
  ASSUME StreamInv, UNCHANGED <<deep, filtering, got, cataloger>>,
         cancelled => cancelled'
  PROVE  EachOnce' /\ (cataloger' = "returned" => cancelled')
<1>1. Expected' = Expected
  BY DEF Expected, Raisable
<1>2. KeepsOrder(got') = KeepsOrder(got) /\ Range(got') = Range(got)
  OBVIOUS
<1>3. KeepsOrder(got)' = KeepsOrder(got')
  BY DEF KeepsOrder, Place, IndexIn
<1> QED BY <1>1, <1>2, <1>3 DEF StreamInv, EachOnce

\* Before anything was sent.
THEOREM StreamInitially == StreamInit => StreamInv
<1> SUFFICES ASSUME StreamInit PROVE StreamInv
  OBVIOUS
<1>1. \A v \in Views : Len(Locations[v]) \in Nat
  BY StreamConstants
<1>2. StreamTypes
  <2>1. /\ deep \in BOOLEAN /\ filtering \in BOOLEAN /\ cancelled \in BOOLEAN
    BY DEF StreamInit
  <2>4. passing \in Item \cup {None}
    BY DEF StreamInit
  <2>5. got \in Seq(Item)
    BY DEF StreamInit
  <2>2. /\ sent \in [Views -> Nat]
        /\ \A v \in Views : sent[v] <= Len(Locations[v])
    <3>1. sent \in [Views -> Nat] /\ \A v \in Views : sent[v] = 0
      BY DEF StreamInit
    <3>2. \A n \in Nat : 0 <= n
      OBVIOUS
    <3> QED BY <1>1, <3>1, <3>2
  <2>3. merging \in [view : Views, location : Item \cup {None}, done : BOOLEAN]
    BY DEF StreamInit, Views
  <2> QED BY <2>1, <2>2, <2>3, <2>4, <2>5 DEF StreamTypes
<1>3. ClosedInv
  BY DEF StreamInit, ClosedInv, Views
<1>4. sent["squashed"] = 0 /\ sent["all"] = 0 /\ 1 .. 0 = {}
  BY DEF StreamInit, Views
<1>5. MergeInv
  BY <1>4 DEF StreamInit, MergeInv
<1>6. Fetched = {} /\ Range(got) = {} /\ DOMAIN got = {}
  BY <1>4 DEF StreamInit, Fetched, Range
<1>7. Flowing
  BY <1>6 DEF StreamInit, Flowing, Underway, KeepsOrder
<1>8. EachOnce /\ (cataloger = "returned" => cancelled)
  BY DEF StreamInit, EachOnce
<1> QED BY <1>2, <1>3, <1>5, <1>7, <1>8 DEF StreamInv, FlowInv

-----------------------------------------------------------------------------
\* The steps.  Of a scan that was cancelled only the types are kept.

\* A view that was sent whole closes its channel.
LEMMA CloseViewStep ==
  ASSUME StreamInv, NEW v \in Views, CloseView(v)
  PROVE  StreamInv'
<1>1. StreamTypes'
  BY DEF StreamInv, StreamTypes, CloseView
<1>2. EachOnce' /\ (cataloger' = "returned" => cancelled')
  BY EachOnceStays DEF CloseView
<1>3. ASSUME ~cancelled' PROVE ClosedInv' /\ MergeInv'
  <2>1. ClosedInv /\ MergeInv /\ sent[v] = Len(Locations[v]) /\ ~cancelled
    BY <1>3 DEF StreamInv, FlowInv, CloseView
  <2>2. /\ running' = running \ {v} /\ v \in running /\ v \in {"squashed", "all"}
        /\ UNCHANGED <<deep, filtering, sent, merging, coords, passing>>
    BY DEF CloseView, Views
  <2>3. v = "squashed" => sent["squashed"] = Len(Squashed)
    BY <2>1 DEF Squashed
  <2>4. v = "all" => sent["all"] = Len(AllLayers)
    BY <2>1 DEF AllLayers
  <2>5. ClosedInv'
    BY <2>1, <2>2, <2>3, <2>4 DEF ClosedInv, Upstream, Squashed, AllLayers
  <2>6. MergeInv'
    BY <2>1, <2>2 DEF MergeInv, Squashed
  <2> QED BY <2>5, <2>6
<1>4. ASSUME ~cancelled' PROVE Flowing'
  <2>1. Fetched' = Fetched /\ Left' = Left
    BY DEF CloseView, Fetched, Left, Squashed, AllLayers, Raisable
  <2>2. Flowing /\ UNCHANGED <<got, passing, merging>>
    BY <1>4 DEF StreamInv, FlowInv, CloseView
  <2> QED BY <2>1, <2>2, FlowingNext DEF Flowing
<1> QED BY <1>1, <1>2, <1>3, <1>4 DEF StreamInv, FlowInv

\* The merge takes a location from a view.
LEMMA MergeReceiveStep ==
  ASSUME StreamInv, MergeReceive
  PROVE  StreamInv'
<1> DEFINE v == merging.view
           l == NextOf(v)
           wanted == ~merging.done /\ (v = "all" => Raised(l))
<1>1. /\ StreamTypes /\ FlowInv /\ v \in Views
      /\ merging \in [view : Views, location : Item \cup {None}, done : BOOLEAN]
  BY DEF StreamInv, StreamTypes
<1>2. /\ "merge" \in running /\ merging.location = None /\ Ready(v) /\ Take(v)
      /\ merging' = IF ~wanted THEN merging
                    ELSE IF cancelled THEN [merging EXCEPT !.done = TRUE]
                    ELSE [merging EXCEPT !.location = l]
      /\ UNCHANGED <<deep, filtering, cancelled, running, coords, passing, got, cataloger>>
  BY DEF MergeReceive
<1>3. l \in Item /\ sent' \in [Views -> Nat] /\ \A w \in Views : sent'[w] <= Len(Locations[w])
  BY <1>1, <1>2, TakeTypes
<1>4. merging' \in [view : Views, location : Item \cup {None}, done : BOOLEAN]
  <2> HIDE DEF wanted, l
  <2> QED BY <1>1, <1>2, <1>3
<1>5. StreamTypes'
  BY <1>1, <1>2, <1>3, <1>4 DEF StreamTypes
<1>6. EachOnce' /\ (cataloger' = "returned" => cancelled')
  BY <1>2, EachOnceStays
<1>7. ASSUME ~cancelled' PROVE ClosedInv' /\ MergeInv' /\ Flowing'
  <2>1. /\ ~cancelled /\ ClosedInv /\ MergeInv /\ Flowing /\ deep /\ ~merging.done
        /\ Fetched \in SUBSET Item /\ Left' = Left /\ None \notin Item
    BY <1>1, <1>2, <1>7, FetchedTypes, StreamConstants DEF FlowInv, MergeInv, Left
  <2>2. merging' = IF wanted THEN [merging EXCEPT !.location = l] ELSE merging
    BY <1>2, <2>1
  <2>3. /\ merging'.view = v /\ ~merging'.done
        /\ merging'.location = IF wanted THEN l ELSE None
    <3> HIDE DEF wanted, l
    <3> QED BY <1>1, <1>2, <2>1, <2>2
  <2>4. Underway(Fetched, Left, got, passing, None)
    BY <1>2, <2>1 DEF Flowing
  <2>5. CASE v = "squashed"
    <3>1. sent["all"] = 0 /\ wanted
      BY <2>1, <2>5 DEF MergeInv
    <3>2. /\ Fetched' = Fetched \cup {l} /\ IsLast(Fetched, l)
          /\ sent'["all"] = 0
          /\ {Squashed[n] : n \in 1 .. sent'["squashed"]}
               = {Squashed[n] : n \in 1 .. sent["squashed"]} \cup {l}
      BY <1>1, <1>2, <2>5, <3>1, FetchSquashed
    <3> HIDE DEF wanted, l, v
    <3>3. Underway(Fetched', Left, got, passing, l)
      BY <1>3, <2>1, <2>4, <3>2, Fetches
    <3>4. Flowing'
      BY <1>2, <2>1, <2>3, <3>1, <3>3, FlowingNext
    <3>5. ClosedInv'
      <4>1. "squashed" \in running /\ "merge" \in running /\ UNCHANGED <<running, deep, filtering, passing>>
        BY <1>2, <2>5 DEF Ready
      <4>2. Upstream' = Upstream
        BY <4>1 DEF Upstream
      <4> QED BY <2>1, <3>1, <3>2, <4>1, <4>2 DEF ClosedInv, Squashed, AllLayers
    <3>6. coords' = {Squashed[n] : n \in 1 .. sent'["squashed"]} \ {l}
      <4>1. coords = {Squashed[n] : n \in 1 .. sent["squashed"]} \ {None}
        BY <1>2, <2>1, <2>5 DEF MergeInv, v
      <4>2. {Squashed[n] : n \in 1 .. sent["squashed"]} \subseteq Fetched
        BY DEF Fetched
      <4>3. l \notin Fetched /\ None \notin Fetched
        BY <2>1, <3>2 DEF IsLast
      <4> QED BY <1>2, <3>2, <4>1, <4>2, <4>3
    <3>7. MergeInv'
      BY <1>2, <2>1, <2>3, <2>5, <3>1, <3>2, <3>6 DEF MergeInv, Squashed
    <3> QED BY <3>4, <3>5, <3>7
  <2>6. CASE v = "all"
    <3>1. "squashed" \notin running /\ sent["squashed"] = Len(Squashed)
      BY <2>1, <2>6 DEF MergeInv, ClosedInv
    <3>2. /\ l \in Raisable \ Range(Squashed) =>
               Fetched' = Fetched \cup {l} /\ IsLast(Fetched, l)
          /\ l \notin Raisable \ Range(Squashed) => Fetched' = Fetched
          /\ sent'["squashed"] = sent["squashed"]
      BY <1>1, <1>2, <2>6, <3>1, FetchAll
    <3>3. coords = {Squashed[n] : n \in 1 .. sent["squashed"]}
      BY <2>1, <2>6 DEF MergeInv
    <3>4. coords = Range(Squashed) /\ (coords = {} <=> Squashed = <<>>)
      <4>1. Squashed \in Seq(Item)
        BY StreamConstants DEF Views, Squashed
      <4>2. Range(Squashed) = {Squashed[n] : n \in 1 .. Len(Squashed)}
        BY <4>1 DEF Range
      <4>3. Range(Squashed) = {} <=> Squashed = <<>>
        <5>1. CASE Squashed = <<>>
          BY <5>1, <4>2
        <5>2. CASE Squashed # <<>>
          <6>1. 1 \in 1 .. Len(Squashed)
            BY <4>1, <5>2
          <6> QED BY <5>2, <6>1, <4>2
        <5> QED BY <5>1, <5>2
      <4> QED BY <3>1, <3>3, <4>2, <4>3
    <3>5. wanted <=> l \in Raisable \ Range(Squashed)
      BY <2>1, <2>6, <3>4 DEF Raised, Raisable, Squashed
    <3> HIDE DEF wanted, l, v
    <3>6. Flowing'
      <4>1. CASE wanted
        <5>1. Underway(Fetched', Left, got, passing, l)
          BY <4>1, <1>3, <2>1, <2>4, <3>2, <3>5, Fetches
        <5> QED BY <4>1, <5>1, <1>2, <2>1, <2>3, FlowingNext
      <4>2. CASE ~wanted
        BY <4>2, <1>2, <2>1, <2>3, <2>4, <3>2, <3>5, FlowingNext
      <4> QED BY <4>1, <4>2
    <3>7. ClosedInv'
      <4>1. "all" \in running /\ "merge" \in running /\ UNCHANGED <<running, deep, filtering, passing>>
        BY <1>2, <2>6 DEF Ready
      <4>2. Upstream' = Upstream
        BY <4>1 DEF Upstream
      <4> QED BY <2>1, <3>1, <3>2, <4>1, <4>2 DEF ClosedInv, Squashed, AllLayers
    <3>8. MergeInv'
      BY <1>2, <2>1, <2>3, <2>6, <3>1, <3>2, <3>3 DEF MergeInv, Squashed
    <3> QED BY <3>6, <3>7, <3>8
  <2> QED BY <1>1, <2>5, <2>6 DEF Views
<1> QED BY <1>5, <1>6, <1>7 DEF StreamInv, FlowInv

\* It goes on to the next view.
LEMMA MergeNextViewStep ==
  ASSUME StreamInv, MergeNextView
  PROVE  StreamInv'
<1>1. /\ StreamTypes /\ FlowInv /\ merging.view \in {"squashed", "all"}
      /\ merging \in [view : Views, location : Item \cup {None}, done : BOOLEAN]
  BY DEF StreamInv, StreamTypes, Views
<1>2. /\ "merge" \in running /\ merging.location = None
      /\ merging.view \notin running
      /\ merging.view = "squashed" => merging' = [merging EXCEPT !.view = "all"] /\ running' = running
      /\ merging.view = "all" => running' = running \ {"merge"} /\ merging' = merging
      /\ UNCHANGED <<deep, filtering, cancelled, sent, coords, passing, got, cataloger>>
  BY DEF MergeNextView
<1>3. merging' \in [view : Views, location : Item \cup {None}, done : BOOLEAN]
  BY <1>1, <1>2 DEF Views
<1>4. StreamTypes'
  BY <1>1, <1>2, <1>3 DEF StreamTypes
<1>5. EachOnce' /\ (cataloger' = "returned" => cancelled')
  BY <1>2, EachOnceStays
<1>6. merging'.view = "all" /\ merging'.location = None /\ merging'.done = merging.done
  BY <1>1, <1>2
<1>7. ASSUME ~cancelled' PROVE ClosedInv' /\ MergeInv' /\ Flowing'
  <2>1. ~cancelled /\ ClosedInv /\ MergeInv /\ Flowing /\ deep /\ None \notin Item
    BY <1>1, <1>2, <1>7, StreamConstants DEF FlowInv, MergeInv
  <2>2. Fetched' = Fetched /\ Left' = Left /\ Fetched \in SUBSET Item
    BY <1>1, <1>2, FetchedTypes DEF Fetched, Left, Squashed, AllLayers, Raisable
  <2>3. Flowing'
    BY <1>2, <1>6, <2>1, <2>2, FlowingNext DEF Flowing
  <2>4. "squashed" \notin running
    BY <1>1, <1>2, <2>1 DEF MergeInv
  <2>5. ClosedInv'
    <3>1. CASE merging.view = "squashed"
      BY <3>1, <1>2, <1>6, <2>1, <2>4 DEF ClosedInv, Upstream, Squashed, AllLayers
    <3>2. CASE merging.view = "all"
      BY <3>2, <1>2, <1>6, <2>1, <2>4 DEF ClosedInv, Upstream, Squashed, AllLayers, Views
    <3> QED BY <1>1, <3>1, <3>2
  <2>6. coords' = {Squashed[n] : n \in 1 .. sent'["squashed"]}
    <3>1. {Squashed[n] : n \in 1 .. sent["squashed"]} \subseteq Fetched
      BY DEF Fetched
    <3>2. None \notin Fetched
      BY <2>1, <2>2
    <3> QED BY <1>1, <1>2, <2>1, <3>1, <3>2 DEF MergeInv
  <2>7. "squashed" \notin running' /\ ("filter" \in running' => "filter" \in running)
    BY <1>1, <1>2, <2>4
  <2>8. MergeInv'
    BY <1>2, <1>6, <2>1, <2>6, <2>7 DEF MergeInv, Squashed
  <2> QED BY <2>3, <2>5, <2>8
<1> QED BY <1>4, <1>5, <1>7 DEF StreamInv, FlowInv

\* What is behind the last view or the merge takes a location from it.
LEMMA ReceiveStep ==
  ASSUME StreamInv, Offered # None, Receive,
         UNCHANGED <<deep, filtering, cancelled, running>>
  PROVE  /\ Offered \in Item
         /\ sent' \in [Views -> Nat] /\ \A w \in Views : sent'[w] <= Len(Locations[w])
         /\ merging' \in [view : Views, location : Item \cup {None}, done : BOOLEAN]
         /\ ~cancelled =>
              /\ Underway(Fetched', Left, got, passing, Offered)
              /\ \A m \in Fetched' : Place(m) \in Nat
              /\ Fetched' \in SUBSET Item
              /\ merging'.location = None
              /\ (filtering /\ "filter" \notin running => passing' = None) => ClosedInv'
              /\ (~filtering => passing' = None) => MergeInv'
<1>1. /\ StreamTypes /\ FlowInv
      /\ merging \in [view : Views, location : Item \cup {None}, done : BOOLEAN]
      /\ sent \in [Views -> Nat] /\ \A w \in Views : sent[w] <= Len(Locations[w])
      /\ "squashed" \in Views /\ deep \in BOOLEAN /\ deep' = deep
  BY DEF StreamInv, StreamTypes, Views
<1>2. CASE deep
  <2> DEFINE l == merging.location
  <2>1. /\ Offered = l /\ l \in Item
        /\ merging' = [merging EXCEPT !.location = None]
        /\ coords' = IF merging.view = "squashed" THEN coords \cup {l} ELSE coords
        /\ sent' = sent
    BY <1>1, <1>2 DEF Offered, Receive
  <2>2. /\ merging' \in [view : Views, location : Item \cup {None}, done : BOOLEAN]
        /\ merging'.location = None /\ merging'.view = merging.view
        /\ merging'.done = merging.done
    BY <1>1, <2>1
  <2>3. ASSUME ~cancelled
        PROVE  /\ Underway(Fetched', Left, got, passing, l)
               /\ Fetched' = Fetched
    BY <1>1, <2>1, <2>3 DEF FlowInv, Flowing, Fetched, Squashed, AllLayers, Raisable
  <2>4. ASSUME ~cancelled, filtering /\ "filter" \notin running => passing' = None
        PROVE  ClosedInv'
    <3>1. Upstream' = Upstream
      BY DEF Upstream
    <3> QED BY <1>1, <1>2, <2>1, <2>2, <2>4, <3>1 DEF FlowInv, ClosedInv, Squashed, AllLayers
  <2>5. ASSUME ~cancelled, ~filtering => passing' = None
        PROVE  MergeInv'
    <3>1. MergeInv /\ l \in Fetched /\ None \notin Item
      BY <1>1, <2>1, <2>5, StreamConstants DEF FlowInv, Flowing, Underway
    <3>2. coords' = {Squashed[n] : n \in 1 .. sent'["squashed"]}
      <4>1. CASE merging.view = "squashed"
        <5>1. sent["all"] = 0 /\ 1 .. 0 = {}
          BY <3>1, <4>1 DEF MergeInv
        <5>2. l \in {Squashed[n] : n \in 1 .. sent["squashed"]}
          BY <3>1, <5>1 DEF Fetched
        <5>3. coords = {Squashed[n] : n \in 1 .. sent["squashed"]} \ {l}
          BY <1>2, <3>1, <4>1 DEF MergeInv
        <5> QED BY <2>1, <4>1, <5>2, <5>3
      <4>2. CASE merging.view # "squashed"
        BY <1>2, <2>1, <3>1, <4>2 DEF MergeInv
      <4> QED BY <4>1, <4>2
    <3>3. {Squashed[n] : n \in 1 .. sent'["squashed"]} \subseteq Item
      BY <1>1, <2>1, FetchedTypes DEF Fetched
    <3>4. coords' = coords' \ {None}
      BY <3>1, <3>2, <3>3
    <3> QED BY <1>1, <1>2, <2>1, <2>2, <2>5, <3>1, <3>2, <3>4 DEF MergeInv, Squashed
  <2> QED BY <1>1, <2>1, <2>2, <2>3, <2>4, <2>5, FetchedTypes
<1>3. CASE ~deep
  <2> DEFINE l == NextOf("squashed")
  <2>1. /\ Offered = l /\ Ready("squashed") /\ Take("squashed")
        /\ UNCHANGED <<merging, coords>>
    BY <1>3 DEF Offered, Receive
  <2>2. /\ l \in Item
        /\ sent' \in [Views -> Nat] /\ \A w \in Views : sent'[w] <= Len(Locations[w])
    BY <1>1, <2>1, TakeTypes
  <2>3. ASSUME ~cancelled
        PROVE  /\ Underway(Fetched', Left, got, passing, l)
               /\ Fetched' \in SUBSET Item
               /\ \A m \in Fetched' : Place(m) \in Nat
               /\ merging.location = None /\ sent["all"] = 0 /\ sent'["all"] = 0
               /\ MergeInv /\ ClosedInv
    <3>1. MergeInv /\ ClosedInv /\ Flowing /\ merging.location = None /\ sent["all"] = 0
      BY <1>1, <1>3, <2>3 DEF FlowInv, MergeInv
    <3>2. Fetched' = Fetched \cup {l} /\ IsLast(Fetched, l) /\ sent'["all"] = 0
      BY <1>1, <2>1, <3>1, FetchSquashed
    <3>3. Fetched \in SUBSET Item /\ \A m \in Fetched : Place(m) \in Nat
      BY <1>1, FetchedTypes
    <3>4. Underway(Fetched, Left, got, passing, None)
      BY <3>1 DEF Flowing
    <3>5. Place(l) \in Nat
      BY <1>1, <2>1, StreamConstants, PlaceSquashed DEF NextOf, Ready, Squashed
    <3> HIDE DEF l
    <3>6. Underway(Fetched', Left, got, passing, l)
      BY <2>2, <3>2, <3>3, <3>4, Fetches
    <3> QED BY <2>2, <3>1, <3>2, <3>3, <3>5, <3>6
  <2>4. ASSUME ~cancelled, filtering /\ "filter" \notin running => passing' = None
        PROVE  ClosedInv'
    <3>1. Upstream' = Upstream
      BY DEF Upstream
    <3>2. "squashed" \in running
      BY <2>1 DEF Ready
    <3> QED BY <1>1, <1>3, <2>1, <2>3, <2>4, <3>1, <3>2 DEF ClosedInv, Squashed, AllLayers
  <2>5. ASSUME ~cancelled, ~filtering => passing' = None
        PROVE  MergeInv'
    BY <1>1, <1>3, <2>1, <2>3, <2>5 DEF MergeInv
  <2> HIDE DEF l
  <2> QED BY <1>1, <2>1, <2>2, <2>3, <2>4, <2>5
<1> QED BY <1>1, <1>2, <1>3

\* The filter takes a location.
LEMMA FilterReceiveStep ==
  ASSUME StreamInv, FilterReceive
  PROVE  StreamInv'
<1>1. /\ "filter" \in running /\ passing = None /\ Offered # None /\ Receive
      /\ passing' = IF Offered \in Excluded THEN None ELSE Offered
      /\ UNCHANGED <<deep, filtering, cancelled, running, got, cataloger>>
  BY DEF FilterReceive
<1>2. /\ Offered \in Item
      /\ sent' \in [Views -> Nat] /\ \A w \in Views : sent'[w] <= Len(Locations[w])
      /\ merging' \in [view : Views, location : Item \cup {None}, done : BOOLEAN]
  BY <1>1, ReceiveStep
<1>3. StreamTypes'
  BY <1>1, <1>2 DEF StreamInv, StreamTypes
<1>4. EachOnce' /\ (cataloger' = "returned" => cancelled')
  BY <1>1, EachOnceStays
<1>5. ASSUME ~cancelled' PROVE ClosedInv' /\ MergeInv' /\ Flowing'
  <2>1. ~cancelled /\ filtering /\ Left = Excluded /\ Left' = Left
    BY <1>1, <1>5 DEF StreamInv, StreamTypes, FlowInv, MergeInv, Left
  <2>2. /\ Underway(Fetched', Left, got, passing, Offered)
        /\ Fetched' \in SUBSET Item /\ merging'.location = None
        /\ ClosedInv' /\ MergeInv'
    BY <1>1, <2>1, ReceiveStep
  <2>3. Underway(Fetched', Left, got, passing', None)
    BY <1>1, <1>2, <2>1, <2>2, Passes
  <2> QED BY <1>1, <2>1, <2>2, <2>3, FlowingNext
<1> QED BY <1>3, <1>4, <1>5 DEF StreamInv, FlowInv

\* It returns, and closes its channel.
LEMMA FilterReturnStep ==
  ASSUME StreamInv, FilterReturn
  PROVE  StreamInv'
<1>1. /\ "filter" \in running
      /\ (passing = None /\ Upstream \notin running) \/ (passing # None /\ cancelled)
      /\ running' = running \ {"filter"} /\ passing' = None
      /\ UNCHANGED <<deep, filtering, cancelled, sent, merging, coords, got, cataloger>>
  BY DEF FilterReturn
<1>2. StreamTypes'
  BY <1>1 DEF StreamInv, StreamTypes
<1>3. EachOnce' /\ (cataloger' = "returned" => cancelled')
  BY <1>1, EachOnceStays
<1>4. ASSUME ~cancelled' PROVE ClosedInv' /\ MergeInv' /\ Flowing'
  <2>1. /\ ~cancelled /\ passing = None /\ passing' = passing /\ Upstream \notin running
        /\ ClosedInv /\ MergeInv /\ Flowing
    BY <1>1, <1>4 DEF StreamInv, FlowInv
  <2>2. \A g \in {"squashed", "all", "merge"} : g \in running' <=> g \in running
    BY <1>1
  <2>3. Upstream' = Upstream /\ Upstream \notin running'
    BY <1>1, <2>1 DEF Upstream
  <2>4. ClosedInv'
    BY <1>1, <2>1, <2>2, <2>3 DEF ClosedInv, Views, Squashed, AllLayers
  <2>5. MergeInv'
    BY <1>1, <2>1, <2>2 DEF MergeInv, Squashed
  <2>6. Fetched' = Fetched /\ Left' = Left
    BY <1>1 DEF Fetched, Left, Squashed, AllLayers, Raisable
  <2> QED BY <1>1, <2>1, <2>4, <2>5, <2>6, FlowingNext DEF Flowing
<1> QED BY <1>2, <1>3, <1>4 DEF StreamInv, FlowInv

\* The cataloger takes one.
LEMMA CatalogerReceiveStep ==
  ASSUME StreamInv, CatalogerReceive
  PROVE  StreamInv'
<1>1. /\ cataloger' = "working"
      /\ UNCHANGED <<deep, filtering, cancelled, running>>
      /\ filtering \in BOOLEAN /\ got \in Seq(Item) /\ passing \in Item \cup {None}
      /\ StreamTypes /\ FlowInv
  BY DEF StreamInv, StreamTypes, CatalogerReceive
<1>2. EachOnce' /\ (cataloger' = "returned" => cancelled')
  BY <1>1 DEF EachOnce
<1>3. CASE filtering
  <2>1. /\ passing # None /\ got' = Append(got, passing) /\ passing' = None
        /\ UNCHANGED <<sent, merging, coords>>
    BY <1>3 DEF CatalogerReceive
  <2>2. passing \in Item /\ got' \in Seq(Item)
    BY <1>1, <2>1
  <2>3. StreamTypes'
    BY <1>1, <2>1, <2>2 DEF StreamTypes
  <2>4. ASSUME ~cancelled' PROVE ClosedInv' /\ MergeInv' /\ Flowing'
    <3>1. /\ Fetched' = Fetched /\ Left' = Left /\ Upstream' = Upstream
          /\ Fetched \in SUBSET Item /\ \A m \in Fetched : Place(m) \in Nat
      BY <1>1, <2>1, FetchedTypes DEF Fetched, Left, Upstream, Squashed, AllLayers, Raisable
    <3>2. ClosedInv /\ MergeInv /\ Underway(Fetched, Left, got, passing, merging.location)
      BY <1>1, <2>4 DEF FlowInv, Flowing
    <3>3. Underway(Fetched, Left, Append(got, passing), None, merging.location)
      BY <1>1, <2>2, <3>1, <3>2, Arrives
    <3>4. Flowing'
      BY <2>1, <3>1, <3>3, FlowingNext
    <3>5. ClosedInv'
      BY <1>1, <2>1, <3>1, <3>2 DEF ClosedInv, Squashed, AllLayers
    <3>6. MergeInv'
      BY <1>1, <1>3, <2>1, <3>2 DEF MergeInv, Squashed
    <3> QED BY <3>4, <3>5, <3>6
  <2> QED BY <1>2, <2>3, <2>4 DEF StreamInv, FlowInv
<1>4. CASE ~filtering
  <2>1. /\ Offered # None /\ got' = Append(got, Offered) /\ Receive /\ passing' = passing
    BY <1>4 DEF CatalogerReceive
  <2>2. /\ Offered \in Item
        /\ sent' \in [Views -> Nat] /\ \A w \in Views : sent'[w] <= Len(Locations[w])
        /\ merging' \in [view : Views, location : Item \cup {None}, done : BOOLEAN]
    BY <1>1, <2>1, ReceiveStep
  <2>3. got' \in Seq(Item)
    BY <1>1, <2>1, <2>2
  <2>4. StreamTypes'
    BY <1>1, <2>1, <2>2, <2>3 DEF StreamTypes
  <2>5. ASSUME ~cancelled' PROVE ClosedInv' /\ MergeInv' /\ Flowing'
    <3>1. ~cancelled /\ passing = None /\ Left = {} /\ Left' = {}
      BY <1>1, <1>4, <2>5 DEF FlowInv, MergeInv, Left
    <3>2. /\ Underway(Fetched', {}, got, None, Offered)
          /\ \A m \in Fetched' : Place(m) \in Nat
          /\ Fetched' \in SUBSET Item
          /\ merging'.location = None /\ ClosedInv' /\ MergeInv'
      BY <1>1, <1>4, <2>1, <3>1, ReceiveStep
    <3>3. Underway(Fetched', {}, got, Offered, None)
      BY <2>2, <3>2, Passes
    <3>4. Underway(Fetched', {}, Append(got, Offered), None, None)
      BY <1>1, <2>2, <3>2, <3>3, Arrives
    <3> QED BY <2>1, <3>1, <3>2, <3>4, FlowingNext
  <2> QED BY <1>2, <2>4, <2>5 DEF StreamInv, FlowInv
<1> QED BY <1>1, <1>3, <1>4

\* What neither the goroutines nor what they sent depends on.
LEMMA FlowStays ==
  ASSUME StreamInv, ~cancelled' => ~cancelled,
         UNCHANGED <<deep, filtering, sent, running, merging, coords, passing, got>>
  PROVE  FlowInv'
<1>1. Fetched' = Fetched /\ Left' = Left /\ Upstream' = Upstream
  BY DEF Fetched, Left, Upstream, Squashed, AllLayers, Raisable
<1>2. ASSUME ~cancelled' PROVE ClosedInv' /\ MergeInv' /\ Flowing'
  <2>1. ClosedInv /\ MergeInv /\ Flowing
    BY <1>2 DEF StreamInv, FlowInv
  <2>2. ClosedInv'
    BY <1>1, <2>1 DEF ClosedInv, Squashed, AllLayers
  <2>3. MergeInv'
    BY <2>1 DEF MergeInv, Squashed
  <2> QED BY <1>1, <2>1, <2>2, <2>3, FlowingNext DEF Flowing
<1> QED BY <1>2 DEF FlowInv

\* It works on what it has.
LEMMA CatalogerWorkStep ==
  ASSUME StreamInv, CatalogerWork
  PROVE  StreamInv'
<1>1. /\ cataloger' \in {"receiving", "failed"}
      /\ ~cancelled' => ~cancelled
      /\ cancelled' \in BOOLEAN
      /\ UNCHANGED <<deep, filtering, sent, running, merging, coords, passing, got>>
  BY DEF CatalogerWork, StreamInv, StreamTypes
<1>2. FlowInv'
  BY <1>1, FlowStays
<1>3. StreamTypes'
  BY <1>1 DEF StreamInv, StreamTypes
<1> QED BY <1>1, <1>2, <1>3 DEF StreamInv, EachOnce

\* The context is done: nothing is promised any more.
LEMMA InterruptStep ==
  ASSUME StreamInv, Interrupt
  PROVE  StreamInv'
<1>1. /\ cancelled' = TRUE
      /\ UNCHANGED <<deep, filtering, sent, running, merging, coords, passing, got, cataloger>>
  BY DEF Interrupt
<1>2. FlowInv'
  BY <1>1, FlowStays
<1>3. StreamTypes'
  BY <1>1 DEF StreamInv, StreamTypes
<1> QED BY <1>1, <1>2, <1>3, EachOnceStays DEF StreamInv

\* Whoever is in front closed its channel after all that is behind it did.
LEMMA CatalogerReturnStep ==
  ASSUME StreamInv, CatalogerReturn
  PROVE  StreamInv'
<1>1. /\ (IF filtering THEN "filter" ELSE Upstream) \notin running
      /\ cataloger' = IF cancelled THEN "cut short" ELSE "returned"
      /\ cancelled' = TRUE
      /\ UNCHANGED <<deep, filtering, sent, running, merging, coords, passing, got>>
  BY DEF CatalogerReturn
<1>2. FlowInv'
  BY <1>1, FlowStays
<1>3. StreamTypes'
  BY <1>1 DEF StreamInv, StreamTypes
<1>4. ASSUME ~cancelled PROVE Range(got) = Expected /\ KeepsOrder(got)
  <2>1. ClosedInv /\ MergeInv /\ Flowing /\ StreamTypes
    BY <1>4 DEF StreamInv, FlowInv
  <2>2. Upstream \notin running /\ passing = None
    BY <1>1, <2>1 DEF ClosedInv, MergeInv
  <2>3. /\ merging.location = None /\ sent["squashed"] = Len(Squashed)
        /\ sent["all"] = IF deep THEN Len(AllLayers) ELSE 0
    BY <2>1, <2>2 DEF ClosedInv, MergeInv, Upstream, Views
  <2>4. Squashed \in Seq(Item) /\ AllLayers \in Seq(Item) /\ None \notin Item
    BY StreamConstants DEF Views, Squashed, AllLayers
  <2>5. /\ Range(Squashed) = {Squashed[n] : n \in 1 .. Len(Squashed)}
        /\ Range(AllLayers) = {AllLayers[n] : n \in 1 .. Len(AllLayers)}
        /\ {AllLayers[n] : n \in 1 .. 0} = {}
    BY <2>4 DEF Range
  <2>6. Fetched = Range(Squashed) \cup
                    IF deep THEN Range(AllLayers) \cap Raisable ELSE {}
    BY <2>3, <2>5 DEF Fetched
  <2>7. None \notin Fetched
    BY <2>1, <2>4, FetchedTypes
  <2>8. Range(got) = Fetched \ Left /\ KeepsOrder(got)
    BY <2>1, <2>2, <2>3, <2>7 DEF Flowing, Underway
  <2> QED BY <2>6, <2>8 DEF Expected, Left, Squashed, AllLayers
<1>5. EachOnce'
  <2>1. Expected' = Expected
    BY <1>1 DEF Expected, Raisable
  <2>2. KeepsOrder(got') = KeepsOrder(got) /\ Range(got') = Range(got)
    BY <1>1
  <2>3. KeepsOrder(got)' = KeepsOrder(got')
    BY DEF KeepsOrder, Place, IndexIn
  <2> QED BY <1>1, <1>4, <2>1, <2>2, <2>3 DEF EachOnce
<1> QED BY <1>1, <1>2, <1>3, <1>5 DEF StreamInv

\* What is under way, of both views, through the merge and the filter.
THEOREM StreamInvariant == StreamSpec => []StreamInv
<1>1. StreamInit => StreamInv
  BY StreamInitially
<1>2. ASSUME StreamInv, [StreamNext]_streamVars PROVE StreamInv'
  <2>1. ASSUME NEW v \in Views, CloseView(v) PROVE StreamInv'
    BY <1>2, <2>1, CloseViewStep
  <2>2. CASE MergeReceive
    BY <1>2, <2>2, MergeReceiveStep
  <2>3. CASE MergeNextView
    BY <1>2, <2>3, MergeNextViewStep
  <2>4. CASE FilterReceive
    BY <1>2, <2>4, FilterReceiveStep
  <2>5. CASE FilterReturn
    BY <1>2, <2>5, FilterReturnStep
  <2>6. CASE CatalogerReceive
    BY <1>2, <2>6, CatalogerReceiveStep
  <2>7. CASE CatalogerWork
    BY <1>2, <2>7, CatalogerWorkStep
  <2>8. CASE CatalogerReturn
    BY <1>2, <2>8, CatalogerReturnStep
  <2>9. CASE Interrupt
    BY <1>2, <2>9, InterruptStep
  <2>10. CASE UNCHANGED streamVars
    <3>1. UNCHANGED <<deep, filtering, cancelled, sent, running, merging, coords, passing, got, cataloger>>
      BY <2>10 DEF streamVars
    <3>2. FlowInv'
      BY <1>2, <3>1, FlowStays
    <3>3. StreamTypes'
      BY <1>2, <3>1 DEF StreamInv, StreamTypes
    <3> QED BY <1>2, <3>1, <3>2, <3>3, EachOnceStays DEF StreamInv
  <2> QED BY <1>2, <2>1, <2>2, <2>3, <2>4, <2>5, <2>6, <2>7, <2>8, <2>9, <2>10
       DEF StreamNext, Goroutines
<1> QED BY <1>1, <1>2, PTL DEF StreamSpec

\* A cataloger of metadata that returns without an error, and was not
\* interrupted, received each location once and in order, whatever the views
\* hold and however the goroutines take turns (mergeLocationStreams and the
\* excluding resolver's AllLocations).
THEOREM StreamsEachOnce == StreamSpec => []EachOnce
<1>1. StreamInv => EachOnce
  BY DEF StreamInv
<1> QED BY <1>1, StreamInvariant, PTL
=============================================================================
