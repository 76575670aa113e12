-------------------------- MODULE CollectionReaders ------------------------
(***************************************************************************)
(* Tasks that read and change the package collection at the same time, and *)
(* the two read-write locks between them: the builder's                    *)
(* (internal/sbomsync/builder.go) and the collection's own                 *)
(* (syft/pkg/collection.go).                                               *)
(*                                                                         *)
(* Collection.Enumerate hands its packages over on an unbuffered channel   *)
(* from a goroutine that holds the read lock of the collection for as long *)
(* as the receiver takes, and takes it again for every package.  A Go      *)
(* RWMutex admits no reader while a writer waits, one that holds the lock  *)
(* already included: the code relies on the lock of the builder to keep    *)
(* writers away from an enumeration.                                       *)
(*                                                                         *)
(* sync.RWMutex is modelled by its documentation: one writer at a time may *)
(* be waiting or holding (the others queue), readers are admitted when     *)
(* none is.                                                                *)
(***************************************************************************)
EXTENDS Naturals, FiniteSets

CONSTANTS Reader,      \* tasks that range over Enumerate()
          Labeler,     \* those that do so within WriteToSBOM
          Writer,      \* tasks that call AddPackages or DeletePackages
          Change,      \* what a writer changes, package by package
          Pkg,
          Nobody

ASSUME LabelerAssumption == Labeler \subseteq Reader
ASSUME RoleAssumption == Reader \cap Writer = {}
ASSUME ChangeAssumption == Change \in [Writer -> SUBSET ([op : {"add", "delete"}, pkg : Pkg])]
ASSUME NoneAssumption == Nobody \notin Reader \cup Writer

VARIABLES packages,   \* what the collection holds
          readers,    \* per lock: the tasks that hold it for reading
          waiting,    \* per lock: the writer that waits for the readers to leave
          owner,      \* per lock: the writer that holds it
          task,       \* where a task is
          todo,       \* changes a writer has not made
          walker,     \* where the goroutine of an Enumerate is
          left,       \* packages it has not looked up
          inHand,     \* the package it wants to send, if any
          received,   \* packages a reader received
          asOf        \* history: the packages when the reader got its lock

locks == <<readers, waiting, owner>>
walk  == <<walker, left, inHand>>
readersVars == <<packages, locks, task, todo, walk, received, asOf>>

Lock == {"builder", "collection"}

ReadersInit ==
  /\ packages = {}
  /\ readers = [l \in Lock |-> {}]
  /\ waiting = [l \in Lock |-> Nobody]
  /\ owner = [l \in Lock |-> Nobody]
  /\ task = [t \in Reader \cup Writer |-> "begin"]
  /\ todo = Change
  /\ walker = [r \in Reader |-> "none"]
  /\ left = [r \in Reader |-> {}]
  /\ inHand = [r \in Reader |-> {}]
  /\ received = [r \in Reader |-> {}]
  /\ asOf = [r \in Reader |-> {}]

Goto(t, from, to) == task[t] = from /\ task' = [task EXCEPT ![t] = to]

-----------------------------------------------------------------------------
(* sync.RWMutex                                                            *)

NoWriter(l) == waiting[l] = Nobody /\ owner[l] = Nobody

RLock(l, t) == /\ NoWriter(l)
               /\ readers' = [readers EXCEPT ![l] = @ \cup {t}]
               /\ UNCHANGED <<waiting, owner>>

RUnlock(l, t) == /\ readers' = [readers EXCEPT ![l] = @ \ {t}]
                 /\ UNCHANGED <<waiting, owner>>

\* Lock() shuts the door to readers, then waits for the last one to leave.
Announce(l, t) == /\ NoWriter(l)
                  /\ waiting' = [waiting EXCEPT ![l] = t]
                  /\ UNCHANGED <<readers, owner>>

Acquire(l, t) == /\ waiting[l] = t
                 /\ readers[l] = {}
                 /\ waiting' = [waiting EXCEPT ![l] = Nobody]
                 /\ owner' = [owner EXCEPT ![l] = t]
                 /\ UNCHANGED readers

Unlock(l, t) == /\ owner' = [owner EXCEPT ![l] = Nobody]
                /\ UNCHANGED <<readers, waiting>>

-----------------------------------------------------------------------------
(* Writers                                                                 *)

WantBuilder(t) ==
  /\ Goto(t, "begin", "announced")
  /\ Announce("builder", t)
  /\ t \in Writer \cup Labeler
  /\ UNCHANGED <<packages, todo, walk, received, asOf>>

GetBuilder(w) ==
  /\ Goto(w, "announced", "writing")
  /\ Acquire("builder", w)
  /\ UNCHANGED <<packages, todo, walk, received, asOf>>

\* Collection.add and Collection.Delete take the lock for one package.
WantCollection(w) ==
  /\ todo[w] # {}
  /\ Goto(w, "writing", "announced inside")
  /\ Announce("collection", w)
  /\ UNCHANGED <<packages, todo, walk, received, asOf>>

GetCollection(w) ==
  /\ Goto(w, "announced inside", "changing")
  /\ Acquire("collection", w)
  /\ UNCHANGED <<packages, todo, walk, received, asOf>>

ChangePackage(w) ==
  /\ Goto(w, "changing", "writing")
  /\ \E c \in todo[w] :
       /\ packages' = IF c.op = "add" THEN packages \cup {c.pkg} ELSE packages \ {c.pkg}
       /\ todo' = [todo EXCEPT ![w] = @ \ {c}]
  /\ Unlock("collection", w)
  /\ UNCHANGED <<walk, received, asOf>>

\* onWriteEvent: the package count is read, and the builder released.
LeaveBuilder(w) ==
  /\ todo[w] = {}
  /\ Goto(w, "writing", "over")
  /\ NoWriter("collection")
  /\ Unlock("builder", w)
  /\ UNCHANGED <<packages, todo, walk, received, asOf>>

-----------------------------------------------------------------------------
(* Readers, and what Enumerate runs for them                               *)

\* Slip: the packages are enumerated outside the lock of the builder.
BeginReadingOutside(r) ==
  /\ r \notin Labeler
  /\ Goto(r, "begin", "receiving")
  /\ walker' = [walker EXCEPT ![r] = "started"]
  /\ asOf' = [asOf EXCEPT ![r] = packages]
  /\ UNCHANGED <<packages, locks, todo, left, inHand, received>>

\* ReadFromSBOM; ranging over Enumerate() starts the goroutine.
BeginReading(r) ==
  /\ r \notin Labeler
  /\ Goto(r, "begin", "receiving")
  /\ RLock("builder", r)
  /\ walker' = [walker EXCEPT ![r] = "started"]
  /\ asOf' = [asOf EXCEPT ![r] = packages]
  /\ UNCHANGED <<packages, todo, left, inHand, received>>

\* WriteToSBOM does the same as the only one in the builder.
BeginLabeling(r) ==
  /\ Goto(r, "announced", "receiving")
  /\ Acquire("builder", r)
  /\ walker' = [walker EXCEPT ![r] = "started"]
  /\ asOf' = [asOf EXCEPT ![r] = packages]
  /\ UNCHANGED <<packages, todo, left, inHand, received>>

StartWalk(r) ==
  /\ walker[r] = "started"
  /\ RLock("collection", r)
  /\ walker' = [walker EXCEPT ![r] = "walking"]
  /\ left' = [left EXCEPT ![r] = packages]
  /\ UNCHANGED <<packages, task, todo, inHand, received, asOf>>

\* c.Package(id) takes the read lock once more, and gives it back.
LookUp(r) ==
  /\ walker[r] = "walking"
  /\ inHand[r] = {}
  /\ NoWriter("collection")
  /\ \E p \in left[r] : /\ inHand' = [inHand EXCEPT ![r] = {p} \cap packages]
                        /\ left' = [left EXCEPT ![r] = @ \ {p}]
  /\ UNCHANGED <<packages, locks, task, todo, walker, received, asOf>>

\* channel <- p meets the receiver's next turn.
ReceivePackage(r) ==
  /\ task[r] = "receiving"
  /\ inHand[r] # {}
  /\ received' = [received EXCEPT ![r] = @ \cup inHand[r]]
  /\ inHand' = [inHand EXCEPT ![r] = {}]
  /\ UNCHANGED <<packages, locks, task, todo, walker, left, asOf>>

\* Slip: the channel is closed on the last package.
EndWalkUnsent(r) ==
  /\ walker[r] = "walking"
  /\ left[r] = {}
  /\ RUnlock("collection", r)
  /\ walker' = [walker EXCEPT ![r] = "closed"]
  /\ UNCHANGED <<packages, task, todo, left, inHand, received, asOf>>

\* The deferred RUnlock, then the deferred close.
EndWalk(r) ==
  /\ walker[r] = "walking"
  /\ left[r] = {} /\ inHand[r] = {}
  /\ RUnlock("collection", r)
  /\ walker' = [walker EXCEPT ![r] = "closed"]
  /\ UNCHANGED <<packages, task, todo, left, inHand, received, asOf>>

\* The range loop ends with the channel, and the task leaves the builder.
EndReading(r) ==
  /\ walker[r] = "closed"
  /\ Goto(r, "receiving", "over")
  /\ IF r \in Labeler THEN NoWriter("collection") /\ Unlock("builder", r)
                      ELSE RUnlock("builder", r)
  /\ UNCHANGED <<packages, todo, walk, received, asOf>>

WriterStep(w) == \/ WantBuilder(w) \/ GetBuilder(w)
                 \/ WantCollection(w) \/ GetCollection(w) \/ ChangePackage(w)
                 \/ LeaveBuilder(w)

ReaderStep(r) == \/ WantBuilder(r) \/ BeginReading(r) \/ BeginLabeling(r)
                 \/ ReceivePackage(r) \/ EndReading(r)

WalkerStep(r) == StartWalk(r) \/ LookUp(r) \/ EndWalk(r)

ReadersNext == \/ \E w \in Writer : WriterStep(w)
               \/ \E r \in Reader : ReaderStep(r) \/ WalkerStep(r)

\* Every goroutine that can go on does.
ReadersFairness ==
  /\ \A w \in Writer : WF_readersVars(WriterStep(w))
  /\ \A r \in Reader : WF_readersVars(ReaderStep(r)) /\ WF_readersVars(WalkerStep(r))

ReadersSpec == ReadersInit /\ [][ReadersNext]_readersVars /\ ReadersFairness

-----------------------------------------------------------------------------
(* Properties.                                                             *)

\* No task waits for a lock that another one will not release: an enumeration
\* that takes the read lock again never finds a writer waiting for it to leave
\* (collection.go:262-282, builder.go:60-117).
AllOver == <>(\A t \in Reader \cup Writer : task[t] = "over")

\* A task that ranges over the packages sees them as they were when it got the
\* lock of the builder: all that one AddPackages adds and one DeletePackages
\* removes, or nothing of it, although the collection is locked package by
\* package (builder.go:75-89, collection.go:101-108).
SeesOneState == \A r \in Reader : task[r] = "over" => received[r] = asOf[r]
=============================================================================
