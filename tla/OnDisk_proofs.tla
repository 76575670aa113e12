---------------------------- MODULE OnDisk_proofs ---------------------------
(***************************************************************************)
(* Proofs about what a scan leaves and finds on disk, for any processes,   *)
(* answers, users and file systems.  Whatever writers leave in an entry of *)
(* the cache, what decodes is the whole of one answer; whoever allocates   *)
(* in a temporary directory while it is cleaned, nothing is left behind;   *)
(* whatever the links in a directory are, its index has everything once;   *)
(* and whatever the layers of an image hold, its three views agree.        *)
(*                                                                         *)
(* A path is followed step by step (EvalWays).  A path that leads          *)
(* somewhere has a parent that does, because each link followed on the way *)
(* to the parent is followed on the way to the child (EvalParent); so what *)
(* is indexed is where it is, and all directories in the index are covered *)
(* (CoversDirs), which is why the walk may pass over them.                 *)
(*                                                                         *)
(* The views of an image rest on what a search of a tree ends in: an entry *)
(* of the tree, or of the image, that is no link left to follow.  What a   *)
(* call returned is what its own view finds (ImageInv), and the deep view  *)
(* keeps of two others' answers what marks it had on the way in.           *)
(***************************************************************************)
EXTENDS CacheEntries, TempDirLife, DirectoryIndex, ImageResolvers, WellFoundedInduction, FiniteSetTheorems, TLAPS

-----------------------------------------------------------------------------
(* An entry of the cache: the invariant.                                   *)

Cell == {Hole} \cup (Answer \X (Nat \ {0}))

States == {"idle", "dead", "reading", "resolving", "answered", "writing"}

CacheTypes ==
  /\ file \in [there : BOOLEAN, cells : Seq(Cell), fresh : BOOLEAN]
  /\ pc \in [Proc -> States]
  /\ chunks \in [Proc -> Seq(Cell)]
  /\ DOMAIN answer = Proc
  /\ stored \in [Proc -> Nat]
  /\ DOMAIN result = Proc
  /\ answered \subseteq Answer

\* Every chunk is of an answer in A and where it belongs.
InPlace(cells, A) ==
  \A i \in 1 .. Len(cells) :
    \/ cells[i] = Hole
    \/ \E a \in A : cells[i] = <<a, i>> /\ i <= Chunks[a]

\* A reader goes past the first chunk only when it is not all of an answer.
GoesOn(cells) == Len(cells) > 1 => cells[1] = Hole \/ Chunks[cells[1][1]] # 1

EntryInv == InPlace(file.cells, answered)
ReadInv  == \A p \in Proc : InPlace(chunks[p], answered) /\ GoesOn(chunks[p])
StoreInv == \A p \in Proc : pc[p] \in {"answered", "writing"} => answer[p] \in answered

CacheInv == CacheTypes /\ EntryInv /\ ReadInv /\ StoreInv /\ AnswersWhole

-----------------------------------------------------------------------------
(* Its chunks.                                                             *)

\* What decodes is the whole of one answer: it has no hole, and a chunk that is
\* not the first, or not all of an answer, is of the only long one.
LEMMA DecodedWhole ==
  ASSUME NEW A \in SUBSET Answer, NEW cells \in Seq(Cell),
         InPlace(cells, A), GoesOn(cells), WellFormed(cells)
  PROVE  \E a \in A : cells = Whole(a)
<1> DEFINE n == Len(cells)
<1>1. n \in Nat /\ n >= 1
  BY DEF WellFormed
<1>2. \A i \in 1 .. n : cells[i] # Hole
  <2>1. Hole[2] = 0
    BY DEF Hole
  <2>2. \A i \in 1 .. n : cells[i][2] = i /\ i # 0
    BY DEF WellFormed
  <2> QED BY <2>1, <2>2
<1>3. \A i \in 1 .. n : \E a \in A : cells[i] = <<a, i>> /\ i <= Chunks[a]
  BY <1>2 DEF InPlace
<1>4. PICK b \in A : cells[n] = <<b, n>>
  BY <1>1, <1>3
<1>5. Chunks[b] = n
  BY <1>4 DEF WellFormed
<1>6. ASSUME NEW i \in 1 .. n PROVE cells[i] = <<b, i>>
  <2>1. PICK a \in A : cells[i] = <<a, i>> /\ i <= Chunks[a]
    BY <1>3
  <2>2. CASE n = 1
    BY <1>4, <2>2
  <2>3. CASE n # 1
    <3>1. n > 1 /\ Chunks[b] > 1
      BY <1>1, <1>5, <2>3
    <3>2. i = 1 => Chunks[a] # 1
      BY <1>2, <2>1, <3>1 DEF GoesOn
    <3>3. Chunks[a] \in Nat \ {0}
      BY CacheAssumption
    <3>4. Chunks[a] > 1
      BY <2>1, <3>2, <3>3
    <3> QED BY <2>1, <3>1, <3>4, CacheAssumption
  <2> QED BY <2>2, <2>3
<1>7. cells = [i \in 1 .. n |-> cells[i]]
  OBVIOUS
<1>8. cells = [i \in 1 .. n |-> <<b, i>>]
  BY <1>6, <1>7
<1> QED BY <1>5, <1>8 DEF Whole

\* What is in place stays so when the function answers more.
LEMMA InPlaceLater ==
  ASSUME NEW A, NEW B, A \subseteq B, NEW cells, InPlace(cells, A)
  PROVE  InPlace(cells, B)
BY DEF InPlace

\* Chunks are cells.
LEMMA ChunkFacts ==
  ASSUME NEW a \in Answer, NEW k \in Nat \ {0}
  PROVE  <<a, k>> \in Cell
BY DEF Cell

\* One chunk is not none.
LEMMA NeverEmpty ==
  ASSUME NEW s, Len(s) = 1 PROVE s # <<>>
<1>1. s = <<>> => Len(s) = 0
  OBVIOUS
<1> QED BY <1>1

\* A reader takes the next chunk of the file.
LEMMA NextInPlace ==
  ASSUME NEW A \in SUBSET Answer, NEW cells \in Seq(Cell), NEW entry \in Seq(Cell),
         InPlace(cells, A), InPlace(entry, A), GoesOn(cells), ~WellFormed(cells),
         Len(cells) < Len(entry)
  PROVE  LET more == Append(cells, entry[Len(cells) + 1])
         IN  more \in Seq(Cell) /\ InPlace(more, A) /\ GoesOn(more)
<1> DEFINE n == Len(cells)
           c == entry[n + 1]
           more == Append(cells, c)
<1>1. n \in Nat /\ Len(entry) \in Nat /\ n + 1 \in 1 .. Len(entry) /\ c \in Cell
  OBVIOUS
<1>2. c = Hole \/ \E a \in A : c = <<a, n + 1>> /\ n + 1 <= Chunks[a]
  BY <1>1 DEF InPlace
<1> HIDE DEF c
<1>3. /\ more \in Seq(Cell) /\ Len(more) = n + 1 /\ more[n + 1] = c
      /\ \A i \in 1 .. n : more[i] = cells[i]
  BY <1>1
<1> HIDE DEF more
<1>4. InPlace(more, A)
  BY <1>1, <1>2, <1>3 DEF InPlace
<1>5. ASSUME n = 1, cells[1] # Hole
      PROVE  Chunks[cells[1][1]] # 1
  <2>1. PICK a \in A : cells[1] = <<a, 1>>
    BY <1>5 DEF InPlace
  <2>2. cells[1][2] = 1 /\ cells[1][1] = a
    BY <2>1
  <2>3. \A i \in 1 .. n : cells[i][2] = i
    BY <1>5, <2>2
  <2>4. cells # <<>>
    BY <1>5, NeverEmpty
  <2>5. ~(cells[1][2] = Chunks[cells[1][1]])
    BY <1>5, <2>3, <2>4 DEF WellFormed
  <2> QED BY <2>2, <2>5
<1>6. n > 1 /\ cells[1] # Hole => Chunks[cells[1][1]] # 1
  BY DEF GoesOn
<1>7. n = 0 \/ n = 1 \/ n > 1
  <2>1. \A k \in Nat : k = 0 \/ k = 1 \/ k > 1
    OBVIOUS
  <2> HIDE DEF n
  <2> QED BY <1>1, <2>1
<1>8. n + 1 > 1 => more[1] = cells[1]
  BY <1>1, <1>3
<1>9. GoesOn(more)
  BY <1>3, <1>5, <1>6, <1>7, <1>8 DEF GoesOn
<1> QED BY <1>3, <1>4, <1>9 DEF more, c

\* A writer puts a chunk of its answer where it belongs, and holes before it.
LEMMA PutInPlace ==
  ASSUME NEW A \in SUBSET Answer, NEW cells \in Seq(Cell), InPlace(cells, A),
         NEW a \in A, NEW k \in Nat \ {0}, k <= Chunks[a]
  PROVE  Put(cells, k, <<a, k>>) \in Seq(Cell) /\ InPlace(Put(cells, k, <<a, k>>), A)
<1> DEFINE n == Len(cells)
           m == IF k > n THEN k ELSE n
           c == <<a, k>>
           cell(i) == IF i = k THEN c ELSE IF i <= n THEN cells[i] ELSE Hole
           new == [i \in 1 .. m |-> cell(i)]
<1>1. n \in Nat /\ m \in Nat /\ \A i \in 1 .. n : cells[i] \in Cell
  OBVIOUS
<1>2. c \in Cell /\ Hole \in Cell
  BY ChunkFacts DEF Cell
<1> HIDE DEF c, m
<1>3. \A i \in 1 .. m : cell(i) \in Cell
  BY <1>1, <1>2
<1>4. \A i \in 1 .. m : cell(i) = Hole \/ \E b \in A : cell(i) = <<b, i>> /\ i <= Chunks[b]
  BY <1>1 DEF InPlace, c
<1> HIDE DEF cell
<1>5. new \in Seq(Cell) /\ Len(new) = m /\ \A i \in 1 .. m : new[i] = cell(i)
  BY <1>1, <1>3
<1> HIDE DEF new
<1>6. InPlace(new, A)
  BY <1>4, <1>5 DEF InPlace
<1>7. Put(cells, k, c) = new
  BY DEF Put, new, cell, m
<1> QED BY <1>5, <1>6, <1>7 DEF c

\* An empty or truncated file.
LEMMA EmptyInPlace ==
  ASSUME NEW A PROVE <<>> \in Seq(Cell) /\ InPlace(<<>>, A) /\ GoesOn(<<>>)
BY DEF InPlace, GoesOn

-----------------------------------------------------------------------------
(* Its steps.                                                              *)

\* Nothing is in the file, and nobody has read.
LEMMA CacheStart == CacheInit => CacheInv
<1> SUFFICES ASSUME CacheInit PROVE CacheInv
  OBVIOUS
<1>1. CacheTypes
  BY EmptyInPlace DEF CacheInit, CacheTypes, States
<1>2. EntryInv
  BY EmptyInPlace DEF CacheInit, EntryInv
<1>3. ReadInv
  BY EmptyInPlace DEF CacheInit, ReadInv
<1>4. StoreInv /\ AnswersWhole
  BY DEF CacheInit, StoreInv, AnswersWhole
<1> QED BY <1>1, <1>2, <1>3, <1>4 DEF CacheInv

\* Where a step changes neither the entry nor what was read or answered, and only
\* p moves on or is returned something.
Moves(p) ==
  /\ pc' \in [Proc -> States] /\ DOMAIN result' = Proc
  /\ \A q \in Proc : q # p => pc'[q] = pc[q] /\ result'[q] = result[q]
  /\ pc'[p] \in {"answered", "writing"} => pc[p] \in {"answered", "writing"}
  /\ UNCHANGED <<file, chunks, answer, stored, answered>>

\* Such a step keeps the invariant when what is returned is whole.
LEMMA MovesStep ==
  ASSUME CacheInv, NEW p \in Proc, Moves(p),
         result'[p] # <<>> => \E a \in answered : result'[p] = Whole(a)
  PROVE  CacheInv'
<1>1. CacheTypes'
  BY DEF CacheInv, CacheTypes, Moves
<1>2. EntryInv' /\ ReadInv'
  BY DEF CacheInv, EntryInv, ReadInv, Moves
<1>3. StoreInv'
  BY DEF CacheInv, CacheTypes, StoreInv, Moves
<1>4. AnswersWhole'
  BY DEF CacheInv, CacheTypes, AnswersWhole, Moves
<1> QED BY <1>1, <1>2, <1>3, <1>4 DEF CacheInv

\* The steps that change more.
LEMMA ReadStep ==
  ASSUME CacheInv, NEW p \in Proc, Read(p) PROVE CacheInv'
<1>1. CacheTypes'
  BY EmptyInPlace DEF CacheInv, CacheTypes, States, Read, Become
<1>2. EntryInv' /\ AnswersWhole'
  BY DEF CacheInv, EntryInv, AnswersWhole, Read
<1>3. ReadInv'
  BY EmptyInPlace DEF CacheInv, CacheTypes, ReadInv, Read
<1>4. StoreInv'
  BY DEF CacheInv, CacheTypes, StoreInv, Read, Become
<1> QED BY <1>1, <1>2, <1>3, <1>4 DEF CacheInv

\* A reader reads the next chunk of the file it has open.
LEMMA ReadOnStep ==
  ASSUME CacheInv, NEW p \in Proc, ReadOn(p) PROVE CacheInv'
<1> DEFINE more == Append(chunks[p], file.cells[Len(chunks[p]) + 1])
<1>1. more \in Seq(Cell) /\ InPlace(more, answered) /\ GoesOn(more)
  BY NextInPlace DEF CacheInv, CacheTypes, EntryInv, ReadInv, ReadOn
<1>2. chunks' = [chunks EXCEPT ![p] = more]
  BY DEF ReadOn
<1> HIDE DEF more
<1>3. CacheTypes'
  BY <1>1, <1>2 DEF CacheInv, CacheTypes, ReadOn
<1>4. ReadInv'
  BY <1>1, <1>2 DEF CacheInv, CacheTypes, ReadInv, ReadOn
<1>5. EntryInv' /\ StoreInv' /\ AnswersWhole'
  BY DEF CacheInv, EntryInv, StoreInv, AnswersWhole, ReadOn
<1> QED BY <1>3, <1>4, <1>5 DEF CacheInv

\* What a reader has decodes: it returns that.
LEMMA DecodedStep ==
  ASSUME CacheInv, NEW p \in Proc, Decoded(p) PROVE CacheInv'
<1>1. \E a \in answered : chunks[p] = Whole(a)
  BY DecodedWhole DEF CacheInv, CacheTypes, ReadInv, Decoded
<1>2. Moves(p) /\ result'[p] = chunks[p]
  BY DEF CacheInv, CacheTypes, States, Moves, Decoded, Return, Become
<1> QED BY <1>1, <1>2, MovesStep

\* Nothing usable was there: the answer is computed.
LEMMA ResolveKeyStep ==
  ASSUME CacheInv, NEW p \in Proc, ResolveKey(p) PROVE CacheInv'
<1>1. PICK a \in Answer : /\ answer' = [answer EXCEPT ![p] = a]
                          /\ answered' = answered \cup {a}
  BY DEF ResolveKey
<1>2. pc' = [pc EXCEPT ![p] = "answered"] /\ UNCHANGED <<file, chunks, stored, result>>
  BY DEF ResolveKey, Become
<1>3. CacheTypes'
  BY <1>1, <1>2 DEF CacheInv, CacheTypes, States
<1>4. answered \subseteq answered'
  BY <1>1
<1>5. EntryInv'
  BY <1>2, <1>4, InPlaceLater DEF CacheInv, EntryInv
<1>6. ReadInv'
  BY <1>2, <1>4, InPlaceLater DEF CacheInv, ReadInv
<1>7. StoreInv'
  BY <1>1, <1>2 DEF CacheInv, CacheTypes, StoreInv
<1>8. AnswersWhole'
  BY <1>2, <1>4 DEF CacheInv, AnswersWhole
<1> QED BY <1>3, <1>5, <1>6, <1>7, <1>8 DEF CacheInv

\* A writer empties the file, or makes it.
LEMMA CreateStep ==
  ASSUME CacheInv, NEW p \in Proc, Create(p) PROVE CacheInv'
<1>1. file' \in [there : BOOLEAN, cells : Seq(Cell), fresh : BOOLEAN] /\ file'.cells = <<>>
  BY EmptyInPlace DEF Create
<1>2. CacheTypes'
  BY <1>1 DEF CacheInv, CacheTypes, States, Create, Become
<1>3. EntryInv'
  BY <1>1, EmptyInPlace DEF EntryInv
<1>4. ReadInv' /\ AnswersWhole'
  BY DEF CacheInv, ReadInv, AnswersWhole, Create
<1>5. StoreInv'
  BY DEF CacheInv, CacheTypes, StoreInv, Create, Become
<1> QED BY <1>2, <1>3, <1>4, <1>5 DEF CacheInv

\* It writes its next chunk.
LEMMA WriteStep ==
  ASSUME CacheInv, NEW p \in Proc, Write(p) PROVE CacheInv'
<1> DEFINE k == stored[p] + 1
           new == Put(file.cells, k, <<answer[p], k>>)
<1>1. k \in Nat \ {0} /\ k <= Chunks[answer[p]] /\ answer[p] \in answered
  BY DEF CacheInv, CacheTypes, StoreInv, Write
<1>2. new \in Seq(Cell) /\ InPlace(new, answered)
  BY <1>1, PutInPlace DEF CacheInv, CacheTypes, EntryInv
<1>3. /\ file' = [file EXCEPT !.cells = new, !.fresh = TRUE]
      /\ stored' = [stored EXCEPT ![p] = k]
      /\ UNCHANGED <<pc, chunks, answer, result, answered>>
  BY DEF Write
<1> HIDE DEF new, k
<1>4. CacheTypes'
  BY <1>1, <1>2, <1>3 DEF CacheInv, CacheTypes
<1>5. EntryInv'
  BY <1>2, <1>3 DEF CacheInv, CacheTypes, EntryInv
<1>6. ReadInv' /\ StoreInv' /\ AnswersWhole'
  BY <1>3 DEF CacheInv, ReadInv, StoreInv, AnswersWhole
<1> QED BY <1>4, <1>5, <1>6 DEF CacheInv

\* Every step keeps the invariant.
LEMMA CacheStep == CacheInv /\ [CacheNext]_cacheVars => CacheInv'
<1> SUFFICES ASSUME CacheInv, [CacheNext]_cacheVars PROVE CacheInv'
  OBVIOUS
<1>1. ASSUME NEW p \in Proc, Discard(p) PROVE CacheInv'
  <2>1. Moves(p)
    BY <1>1 DEF CacheInv, CacheTypes, States, Moves, Discard, Return, Become
  <2>2. result'[p] = <<>> \/ result'[p] = result[p]
    BY <1>1 DEF CacheInv, CacheTypes, Discard, Return
  <2> QED BY <2>1, <2>2, MovesStep DEF CacheInv, AnswersWhole
<1>2. ASSUME NEW p \in Proc, ResolveFails(p) PROVE CacheInv'
  <2>1. Moves(p) /\ result'[p] = <<>>
    BY <1>2 DEF CacheInv, CacheTypes, States, Moves, ResolveFails, Return, Become
  <2> QED BY <2>1, MovesStep
<1>3. ASSUME NEW p \in Proc, Written(p) PROVE CacheInv'
  <2>1. Moves(p) /\ result'[p] = Whole(answer[p])
    BY <1>3 DEF CacheInv, CacheTypes, States, Moves, Written, Return, Become
  <2>2. answer[p] \in answered
    BY <1>3 DEF CacheInv, StoreInv, Written, Return, Become
  <2> QED BY <2>1, <2>2, MovesStep
<1>4. ASSUME NEW p \in Proc, WriteFails(p) PROVE CacheInv'
  <2>1. Moves(p) /\ result'[p] = <<>>
    BY <1>4 DEF CacheInv, CacheTypes, States, Moves, WriteFails, Return, Become
  <2> QED BY <2>1, MovesStep
<1>5. ASSUME NEW p \in Proc, Crash(p) PROVE CacheInv'
  <2>1. Moves(p) /\ result'[p] = <<>>
    BY <1>5 DEF CacheInv, CacheTypes, States, Moves, Crash, Become
  <2> QED BY <2>1, MovesStep
<1>6. CASE Expire
  <2>1. CacheTypes'
    BY <1>6 DEF CacheInv, CacheTypes, Expire
  <2>2. EntryInv'
    BY <1>6 DEF CacheInv, CacheTypes, EntryInv, Expire
  <2>3. ReadInv' /\ StoreInv' /\ AnswersWhole'
    BY <1>6 DEF CacheInv, ReadInv, StoreInv, AnswersWhole, Expire
  <2> QED BY <2>1, <2>2, <2>3 DEF CacheInv
<1>7. CASE UNCHANGED cacheVars
  BY <1>7 DEF CacheInv, CacheTypes, EntryInv, ReadInv, StoreInv, AnswersWhole, cacheVars
<1> QED BY <1>1, <1>2, <1>3, <1>4, <1>5, <1>6, <1>7, ReadStep, ReadOnStep,
           DecodedStep, ResolveKeyStep, CreateStep, WriteStep DEF CacheNext

\* Whoever writes, dies or lets the entry expire, every chunk in the file and in
\* the hands of a reader is of something the function answered, in its place.
THEOREM CacheInvariant == CacheSpec => []CacheInv
BY CacheStart, CacheStep, PTL DEF CacheSpec

\* For any number of processes and answers of any length, a call never returns
\* a mixture, or a part, of what the function answered (resolver.go:45-67).
THEOREM CacheAnswersWhole == CacheSpec => []AnswersWhole
<1>1. CacheInv => AnswersWhole
  BY DEF CacheInv
<1> QED BY <1>1, CacheInvariant, PTL

\* And a call that reads a JSON entry only ends there with a value: what does
\* not decode is resolved again (resolver.go:61-64).
THEOREM CacheBrokenIsResolvedAgain == CacheSpec => BrokenIsResolvedAgain
<1> DEFINE Again == \A p \in Proc : kind = "json" /\ pc[p] = "reading" /\ pc'[p] = "idle"
                      => Decoded(p)
<1>1. CacheInv /\ [CacheNext]_cacheVars => [Again]_cacheVars
  <2> SUFFICES ASSUME CacheInv, CacheNext, NEW p \in Proc,
                      kind = "json", pc[p] = "reading", pc'[p] = "idle"
               PROVE  Decoded(p)
    OBVIOUS
  <2>1. Expire => pc' = pc
    BY DEF Expire
  <2>2. ASSUME NEW q \in Proc,
               Read(q) \/ ReadOn(q) \/ Discard(q) \/ ResolveKey(q) \/ ResolveFails(q)
               \/ Create(q) \/ Write(q) \/ Written(q) \/ WriteFails(q) \/ Crash(q)
        PROVE  FALSE
    BY <2>2 DEF CacheInv, CacheTypes, Read, ReadOn, Discard, ResolveKey, ResolveFails,
                Create, Write, Written, WriteFails, Crash, Return, Become
  <2>3. ASSUME NEW q \in Proc, Decoded(q) PROVE q = p
    BY <2>3 DEF CacheInv, CacheTypes, Decoded, Return, Become
  <2> QED BY <2>1, <2>2, <2>3 DEF CacheNext
<1> QED BY <1>1, CacheInvariant, PTL DEF CacheSpec, BrokenIsResolvedAgain

-----------------------------------------------------------------------------
(* A temporary directory.                                                  *)

TempTypes ==
  /\ root \in {"", "root"}
  /\ once \in {"new", "over"} \cup User
  /\ cleaned \in BOOLEAN
  /\ disk \subseteq {"root"} \cup User
  /\ at \in [User -> {"begin", "initializing", "initialized", "allocating",
                      "holding", "released", "refused"}]
  /\ cleanup \in {"begin", "cleaning", "nothing", "emptying", "removing", "done", "failed"}

\* One user makes the root, once, and nobody passes before it is assigned.
RootInv ==
  /\ root = "root" <=> once = "over"
  /\ \A u \in User : /\ at[u] = "initializing" <=> once = u
                     /\ at[u] \notin {"begin", "initializing"} => once = "over"

\* A user has a file only between Allocate and Release.
FileInv == \A u \in User : u \in disk => at[u] = "holding"

\* A Cleanup that saw a root removes one that is never made again; one that saw
\* none came before every allocation, and its flag is there for them all.
CleanInv ==
  /\ cleanup # "begin" => cleaned
  /\ cleanup \in {"emptying", "removing", "done", "failed"} => once = "over"
  /\ cleanup = "nothing" => \A u \in User : at[u] \notin {"allocating", "holding"}
  /\ cleanup = "done" => disk = {}

TempInv == TempTypes /\ RootInv /\ FileInv /\ CleanInv

\* Nothing was made, or the caller made the root.
LEMMA TempStart == TempInit => TempInv
BY UserAssumption DEF TempInit, TempInv, TempTypes, RootInv, FileInv, CleanInv

\* Every step keeps the invariant.
LEMMA TempStep == TempInv /\ [TempNext]_tempVars => TempInv'
<1> SUFFICES ASSUME TempInv, [TempNext]_tempVars PROVE TempInv'
  OBVIOUS
<1> USE UserAssumption DEF TempInv
<1>1. ASSUME NEW u \in User, MakeRoot(u) PROVE TempInv'
  <2>1. TempTypes'
    BY <1>1 DEF TempTypes, MakeRoot, Move
  <2>2. RootInv'
    <3>1. once = "new" /\ once' = u /\ u \notin {"new", "over"} /\ root' = root
      BY <1>1 DEF MakeRoot
    <3>2. root' # "root"
      BY <3>1 DEF RootInv
    <3>3. \A v \in User : at'[v] = IF v = u THEN "initializing" ELSE at[v]
      BY <1>1 DEF TempTypes, MakeRoot, Move
    <3>4. \A v \in User : at[v] = "begin"
      BY <3>1 DEF RootInv
    <3> QED BY <3>1, <3>2, <3>3, <3>4 DEF RootInv
  <2>3. FileInv'
    BY <1>1 DEF TempTypes, FileInv, MakeRoot, Move
  <2>4. CleanInv'
    BY <1>1 DEF TempTypes, FileInv, CleanInv, MakeRoot, Move
  <2> QED BY <2>1, <2>2, <2>3, <2>4
<1>2. ASSUME NEW u \in User, AssignRoot(u) PROVE TempInv'
  <2>1. TempTypes'
    BY <1>2 DEF TempTypes, AssignRoot, Move
  <2>2. RootInv'
    BY <1>2 DEF TempTypes, RootInv, AssignRoot, Move
  <2>3. FileInv'
    BY <1>2 DEF TempTypes, FileInv, AssignRoot, Move
  <2>4. CleanInv'
    BY <1>2 DEF TempTypes, CleanInv, AssignRoot, Move
  <2> QED BY <2>1, <2>2, <2>3, <2>4
<1>3. ASSUME NEW u \in User, FindRoot(u) PROVE TempInv'
  <2>1. TempTypes'
    BY <1>3 DEF TempTypes, FindRoot, Move
  <2>2. RootInv'
    BY <1>3 DEF TempTypes, RootInv, FindRoot, Move
  <2>3. FileInv'
    BY <1>3 DEF TempTypes, FileInv, FindRoot, Move
  <2>4. CleanInv'
    BY <1>3 DEF TempTypes, CleanInv, FindRoot, Move
  <2> QED BY <2>1, <2>2, <2>3, <2>4
<1>4. ASSUME NEW u \in User, CheckCleaned(u) PROVE TempInv'
  <2>1. TempTypes'
    BY <1>4 DEF TempTypes, CheckCleaned, Move
  <2>2. RootInv'
    BY <1>4 DEF TempTypes, RootInv, CheckCleaned, Move
  <2>3. FileInv'
    BY <1>4 DEF TempTypes, FileInv, CheckCleaned, Move
  <2>4. CleanInv'
    BY <1>4 DEF TempTypes, CleanInv, CheckCleaned, Move
  <2> QED BY <2>1, <2>2, <2>3, <2>4
<1>5. ASSUME NEW u \in User, Allocate(u) PROVE TempInv'
  <2>1. TempTypes'
    BY <1>5 DEF TempTypes, Allocate, Move
  <2>2. RootInv'
    BY <1>5 DEF TempTypes, RootInv, Allocate, Move
  <2>3. FileInv'
    BY <1>5 DEF TempTypes, FileInv, Allocate, Move
  <2>4. CleanInv'
    BY <1>5 DEF CleanInv, Allocate, Move
  <2> QED BY <2>1, <2>2, <2>3, <2>4
<1>6. ASSUME NEW u \in User, Release(u) PROVE TempInv'
  <2>1. TempTypes'
    BY <1>6 DEF TempTypes, Release
  <2>2. RootInv'
    BY <1>6 DEF TempTypes, RootInv, Release
  <2>3. FileInv'
    BY <1>6 DEF TempTypes, FileInv, Release
  <2>4. CleanInv'
    BY <1>6 DEF TempTypes, CleanInv, Release
  <2> QED BY <2>1, <2>2, <2>3, <2>4
<1>7. CASE BeginCleanup
  <2>1. TempTypes'
    BY <1>7 DEF TempTypes, BeginCleanup
  <2>2. RootInv'
    BY <1>7 DEF RootInv, BeginCleanup
  <2>3. FileInv'
    BY <1>7 DEF FileInv, BeginCleanup
  <2>4. CleanInv'
    BY <1>7 DEF CleanInv, BeginCleanup
  <2> QED BY <2>1, <2>2, <2>3, <2>4
<1>8. CASE LookForRoot
  <2>1. TempTypes'
    BY <1>8 DEF TempTypes, LookForRoot
  <2>2. RootInv'
    BY <1>8 DEF RootInv, LookForRoot
  <2>3. FileInv'
    BY <1>8 DEF FileInv, LookForRoot
  <2>4. CleanInv'
    BY <1>8 DEF TempTypes, RootInv, CleanInv, LookForRoot
  <2> QED BY <2>1, <2>2, <2>3, <2>4
<1>9. CASE EmptyRoot
  <2>1. TempTypes'
    BY <1>9 DEF TempTypes, EmptyRoot
  <2>2. RootInv'
    BY <1>9 DEF RootInv, EmptyRoot
  <2>3. FileInv'
    BY <1>9 DEF FileInv, EmptyRoot
  <2>4. CleanInv'
    BY <1>9 DEF CleanInv, EmptyRoot
  <2> QED BY <2>1, <2>2, <2>3, <2>4
<1>10. CASE RemoveRoot
  <2>1. TempTypes'
    BY <1>10 DEF TempTypes, RemoveRoot
  <2>2. RootInv'
    BY <1>10 DEF RootInv, RemoveRoot
  <2>3. FileInv'
    BY <1>10 DEF FileInv, RemoveRoot
  <2>4. CleanInv'
    BY <1>10 DEF CleanInv, RemoveRoot
  <2> QED BY <2>1, <2>2, <2>3, <2>4
<1>11. CASE UNCHANGED tempVars
  BY <1>11 DEF TempTypes, RootInv, FileInv, CleanInv, tempVars
<1> QED BY <1>1, <1>2, <1>3, <1>4, <1>5, <1>6, <1>7, <1>8, <1>9, <1>10, <1>11 DEF TempNext

\* For any number of users, there is one root that is made once and removed for good,
\* and files are there only while their users are.
THEOREM TempInvariant == TempSpec => []TempInv
BY TempStart, TempStep, PTL DEF TempSpec

\* However many users allocate while a Cleanup runs, or after it, no file of
\* theirs outlives one that did not fail (tmpdir.go:58-70, 110-121).
THEOREM TempFilesGone == TempSpec => []FilesGone
<1>1. TempInv => FilesGone
  BY DEF TempInv, TempTypes, FileInv, CleanInv, FilesGone
<1> QED BY <1>1, TempInvariant, PTL

-----------------------------------------------------------------------------
(* The index of a directory: numbers.                                      *)

\* Induction on the natural numbers, for the set of those that have a property.
LEMMA Inductive ==
  ASSUME NEW S, 0 \in S, \A n \in Nat : n \in S => n + 1 \in S
  PROVE  Nat \subseteq S
<1> DEFINE R == OpToRel(<, Nat)
           T == Nat \ S
<1>1. IsWellFoundedOn(R, Nat)
  BY NatLessThanWellFounded
<1>2. ASSUME T # {} PROVE FALSE
  <2>1. PICK x \in T : \A y \in T : ~(<<y, x>> \in R)
    <3> HIDE DEF R
    <3> QED BY <1>1, <1>2, WFMin
  <2>2. x # 0 /\ x - 1 \in Nat /\ x - 1 < x
    OBVIOUS
  <2>3. x - 1 \in T
    BY <2>2
  <2>4. <<x - 1, x>> \in R
    BY <2>2 DEF OpToRel
  <2> QED BY <2>1, <2>3, <2>4
<1> QED BY <1>2

\* A set of numbers has a least one.
LEMMA Least ==
  ASSUME NEW S \in SUBSET Nat, S # {}
  PROVE  \E n \in S : \A m \in S : n <= m
<1> DEFINE T == {n \in Nat : \A m \in S : n <= m}
<1>1. ASSUME \A n \in S : \E m \in S : m < n PROVE FALSE
  <2>1. 0 \in T
    OBVIOUS
  <2>2. ASSUME NEW n \in Nat, n \in T PROVE n + 1 \in T
    <3>1. n \notin S
      BY <1>1, <2>2
    <3>2. \A m \in S : n <= m /\ n # m
      BY <2>2, <3>1
    <3> QED BY <3>2
  <2>3. Nat \subseteq T
    <3> HIDE DEF T
    <3> QED BY <2>1, <2>2, Inductive
  <2>4. PICK n \in S : TRUE
    OBVIOUS
  <2>5. n + 1 \in T
    BY <2>3
  <2> QED BY <2>5
<1> QED BY <1>1

-----------------------------------------------------------------------------
(* Paths.                                                                  *)

Path == Seq(Nat)

\* Paths with the same names are the same.
LEMMA SamePath ==
  ASSUME NEW p \in Path, NEW q \in Path, Len(p) = Len(q), \A i \in 1..Len(p) : p[i] = q[i]
  PROVE  p = q
BY DEF Path

\* The first names of a path.
LEMMA UptoFacts ==
  ASSUME NEW p \in Path, NEW n \in 0..Len(p)
  PROVE  /\ SubSeq(p, 1, n) \in Path /\ Len(SubSeq(p, 1, n)) = n
         /\ \A i \in 1..n : SubSeq(p, 1, n)[i] = p[i]
BY DEF Path

\* All of them.
LEMMA UptoAll ==
  ASSUME NEW p \in Path PROVE SubSeq(p, 1, Len(p)) = p
<1>1. Len(p) \in 0..Len(p)
  BY DEF Path
<1> QED BY <1>1, UptoFacts, SamePath

\* The first of the first.
LEMMA UptoUpto ==
  ASSUME NEW p \in Path, NEW n \in 0..Len(p), NEW m \in 0..n
  PROVE  SubSeq(SubSeq(p, 1, n), 1, m) = SubSeq(p, 1, m)
<1> DEFINE q == SubSeq(p, 1, n)
<1>1. q \in Path /\ Len(q) = n /\ \A i \in 1..n : q[i] = p[i]
  BY UptoFacts
<1>2. m \in 0..Len(p) /\ Len(p) \in Nat
  BY DEF Path
<1> HIDE DEF q
<1>3. /\ SubSeq(q, 1, m) \in Path /\ Len(SubSeq(q, 1, m)) = m
      /\ \A i \in 1..m : SubSeq(q, 1, m)[i] = q[i]
  BY <1>1, UptoFacts
<1>4. /\ SubSeq(p, 1, m) \in Path /\ Len(SubSeq(p, 1, m)) = m
      /\ \A i \in 1..m : SubSeq(p, 1, m)[i] = p[i]
  BY <1>2, UptoFacts
<1>5. \A i \in 1..m : i \in 1..n
  OBVIOUS
<1>6. SubSeq(q, 1, m) = SubSeq(p, 1, m)
  BY <1>1, <1>3, <1>4, <1>5, SamePath
<1> QED BY <1>6 DEF q

\* A path is its parent and its last name.
LEMMA ParentFacts ==
  ASSUME NEW p \in Path, p # <<>>
  PROVE  /\ Len(p) \in Nat \ {0}
         /\ Parent(p) = SubSeq(p, 1, Len(p) - 1) /\ Parent(p) \in Path
         /\ Len(Parent(p)) = Len(p) - 1
         /\ Last(p) \in Nat /\ Append(Parent(p), Last(p)) = p
<1>1. Len(p) \in Nat \ {0}
  BY DEF Path
<1>2. Len(p) - 1 \in 0..Len(p) /\ Len(p) \in 1..Len(p)
  BY <1>1
<1>3. /\ Parent(p) \in Path /\ Len(Parent(p)) = Len(p) - 1
      /\ \A i \in 1..(Len(p) - 1) : Parent(p)[i] = p[i]
  BY <1>2, UptoFacts DEF Parent
<1>4. Last(p) = p[Len(p)] /\ p[Len(p)] \in Nat
  BY <1>2 DEF Last, Path
<1> DEFINE q == Append(Parent(p), Last(p))
<1>5. /\ q \in Path /\ Len(q) = Len(p) /\ q[Len(p)] = Last(p)
      /\ \A i \in 1..(Len(p) - 1) : q[i] = Parent(p)[i]
  BY <1>1, <1>3, <1>4 DEF Path
<1> HIDE DEF q
<1>6. \A i \in 1..Len(p) : i = Len(p) \/ i \in 1..(Len(p) - 1)
  BY <1>1
<1>7. q = p
  BY <1>3, <1>4, <1>5, <1>6, SamePath
<1> QED BY <1>1, <1>3, <1>4, <1>7 DEF q, Parent

\* A path and one more name.
LEMMA ChildFacts ==
  ASSUME NEW p \in Path, NEW x \in Nat
  PROVE  /\ Append(p, x) \in Path /\ Append(p, x) # <<>> /\ Len(Append(p, x)) = Len(p) + 1
         /\ Parent(Append(p, x)) = p /\ Last(Append(p, x)) = x
         /\ \A n \in 0..Len(p) : SubSeq(Append(p, x), 1, n) = SubSeq(p, 1, n)
<1> DEFINE q == Append(p, x)
<1>1. /\ q \in Path /\ Len(q) = Len(p) + 1 /\ q[Len(p) + 1] = x
      /\ \A i \in 1..Len(p) : q[i] = p[i]
  BY DEF Path
<1>2. Len(p) \in Nat
  BY DEF Path
<1> HIDE DEF q
<1>3. q # <<>>
  BY <1>1, <1>2
<1>4. ASSUME NEW n \in 0..Len(p) PROVE SubSeq(q, 1, n) = SubSeq(p, 1, n)
  <2>1. n \in 0..Len(q) /\ \A i \in 1..n : i \in 1..Len(p)
    BY <1>1, <1>2
  <2> QED BY <1>1, <2>1, UptoFacts, SamePath
<1>5. Parent(q) = p
  BY <1>1, <1>2, <1>4, UptoAll DEF Parent
<1>6. Last(q) = x
  BY <1>1 DEF Last
<1> QED BY <1>1, <1>3, <1>4, <1>5, <1>6 DEF q

-----------------------------------------------------------------------------
(* What the operating system says.                                         *)

\* What FileSystemAssumption says of a file system.
LEMMA SystemFacts ==
  ASSUME NEW f \in FileSystems
  PROVE  /\ MaxLinks \in Nat /\ Root \in Path
         /\ IsFiniteSet(DOMAIN f)
         /\ <<>> \in DOMAIN f /\ f[<<>>].type = "dir"
         /\ \A p \in DOMAIN f : /\ p \in Path /\ f[p].target \in Path
                                /\ p # <<>> => IsDir(f, Parent(p))
BY FileSystemAssumption DEF Path, IsDir, Parent

\* All that is above a file is a directory.
LEMMA Parents ==
  ASSUME NEW f \in FileSystems, NEW p \in DOMAIN f, NEW n \in 0..(Len(p) - 1)
  PROVE  IsDir(f, SubSeq(p, 1, n))
<1> DEFINE up(k) == SubSeq(p, 1, Len(p) - 1 - k)
           T == {k \in Nat : k < Len(p) => IsDir(f, up(k))}
<1>1. p \in Path /\ Len(p) \in Nat
  BY SystemFacts DEF Path
<1>2. 0 \in T
  <2> SUFFICES ASSUME 0 < Len(p) PROVE IsDir(f, up(0))
    OBVIOUS
  <2>1. p # <<>>
    OBVIOUS
  <2>2. IsDir(f, Parent(p))
    BY <2>1, SystemFacts
  <2>3. Parent(p) = up(0)
    BY <1>1 DEF Parent
  <2> QED BY <2>2, <2>3
<1>3. ASSUME NEW k \in Nat, k \in T PROVE k + 1 \in T
  <2> SUFFICES ASSUME k + 1 < Len(p) PROVE IsDir(f, up(k + 1))
    OBVIOUS
  <2>1. IsDir(f, up(k))
    BY <1>1, <1>3
  <2>2. Len(p) - 1 - k \in 0..Len(p) /\ Len(p) - 1 - (k + 1) \in 0..(Len(p) - 1 - k)
    BY <1>1
  <2>3. up(k) \in Path /\ Len(up(k)) = Len(p) - 1 - k
    BY <1>1, <2>2, UptoFacts
  <2>4. up(k) # <<>>
    <3>1. Len(p) - 1 - k # 0
      BY <1>1
    <3> HIDE DEF up
    <3> QED BY <3>1, <2>3
  <2>5. IsDir(f, Parent(up(k)))
    BY <2>1, <2>4, SystemFacts DEF IsDir
  <2>6. Parent(up(k)) = SubSeq(up(k), 1, Len(p) - 1 - (k + 1))
    <3>1. Len(p) - 1 - k - 1 = Len(p) - 1 - (k + 1)
      BY <1>1
    <3> HIDE DEF up
    <3> QED BY <3>1, <2>3 DEF Parent
  <2>7. SubSeq(up(k), 1, Len(p) - 1 - (k + 1)) = up(k + 1)
    BY <1>1, <2>2, UptoUpto
  <2> QED BY <2>5, <2>6, <2>7
<1>4. Nat \subseteq T
  <2> HIDE DEF T
  <2> QED BY <1>2, <1>3, Inductive
<1>5. Len(p) - 1 - n \in T /\ Len(p) - 1 - n < Len(p)
  <2> HIDE DEF T
  <2> QED BY <1>1, <1>4
<1>6. Len(p) - 1 - (Len(p) - 1 - n) = n
  BY <1>1
<1>7. IsDir(f, up(Len(p) - 1 - n))
  BY <1>5
<1> QED BY <1>6, <1>7

\* There is a first place where a way stops.
LEMMA FirstStops ==
  ASSUME NEW f, NEW p, Stops(f, p) # {}
  PROVE  FirstStop(f, p) \in Stops(f, p) /\ \A m \in Stops(f, p) : FirstStop(f, p) <= m
<1>1. Stops(f, p) \subseteq Nat
  BY DEF Stops
<1>2. \E n \in Stops(f, p) : \A m \in Stops(f, p) : n <= m
  BY <1>1, Least
<1> QED BY <1>2 DEF FirstStop

\* What is said of a path that goes to its n-th name.
LEMMA StopsAtFacts ==
  ASSUME NEW f, NEW p, NEW n
  PROVE  LET q == SubSeq(p, 1, n)
         IN  /\ StopsAt(f, p, n).path = q
             /\ StopsAt(f, p, n).error = "none" => q \in DOMAIN f /\ f[q].type # "link" /\ n = Len(p)
             /\ StopsAt(f, p, n).error = "loop" => q \in DOMAIN f /\ f[q].type = "link"
             /\ q \in DOMAIN f /\ f[q].type = "link" => StopsAt(f, p, n).error = "loop"
             /\ q \in DOMAIN f /\ f[q].type # "link" /\ n = Len(p) => StopsAt(f, p, n).error = "none"
BY DEF StopsAt

\* What ends well is a file.
LEMMA LookFound ==
  ASSUME NEW f \in FileSystems, NEW p \in Path, Look(f, p).error = "none"
  PROVE  Look(f, p).path = p /\ p \in DOMAIN f /\ f[p].type # "link"
<1>1. CASE Stops(f, p) = {} /\ p = <<>>
  BY <1>1, SystemFacts DEF Look
<1>2. CASE Stops(f, p) = {} /\ p # <<>>
  <2>1. Len(p) \in 1..Len(p)
    BY <1>2, ParentFacts
  <2>2. IsDir(f, SubSeq(p, 1, Len(p)))
    BY <1>2, <2>1 DEF Stops
  <2> QED BY <1>2, <2>2, UptoAll DEF Look, IsDir
<1>3. CASE Stops(f, p) # {}
  <2>1. Look(f, p) = StopsAt(f, p, FirstStop(f, p))
    BY <1>3 DEF Look
  <2>2. StopsAt(f, p, FirstStop(f, p)).error = "none"
    BY <2>1
  <2>3. FirstStop(f, p) = Len(p)
    BY <2>2, StopsAtFacts
  <2>4. SubSeq(p, 1, FirstStop(f, p)) = p
    BY <2>3, UptoAll
  <2>5. /\ StopsAt(f, p, FirstStop(f, p)).path = SubSeq(p, 1, FirstStop(f, p))
        /\ SubSeq(p, 1, FirstStop(f, p)) \in DOMAIN f
        /\ f[SubSeq(p, 1, FirstStop(f, p))].type # "link"
    BY <2>2, StopsAtFacts
  <2> QED BY <2>1, <2>4, <2>5
<1> QED BY <1>1, <1>2, <1>3

\* A file that is no link is found where it is.
LEMMA FoundLook ==
  ASSUME NEW f \in FileSystems, NEW p \in DOMAIN f, f[p].type # "link"
  PROVE  Look(f, p).error = "none" /\ Look(f, p).path = p
<1>1. p \in Path /\ Len(p) \in Nat
  BY SystemFacts DEF Path
<1>2. CASE Stops(f, p) = {}
  BY <1>2 DEF Look
<1>3. CASE Stops(f, p) # {}
  <2>1. FirstStop(f, p) \in 1..Len(p) /\ ~IsDir(f, SubSeq(p, 1, FirstStop(f, p)))
    BY <1>3, FirstStops DEF Stops
  <2>2. FirstStop(f, p) = Len(p)
    BY <1>1, <2>1, Parents
  <2>3. SubSeq(p, 1, FirstStop(f, p)) = p
    BY <1>1, <2>2, UptoAll
  <2>4. Look(f, p) = StopsAt(f, p, FirstStop(f, p))
    BY <1>3 DEF Look
  <2>5. /\ StopsAt(f, p, FirstStop(f, p)).path = SubSeq(p, 1, FirstStop(f, p))
        /\ StopsAt(f, p, FirstStop(f, p)).error = "none"
    <3>1. SubSeq(p, 1, FirstStop(f, p)) \in DOMAIN f /\ f[SubSeq(p, 1, FirstStop(f, p))].type # "link"
      BY <2>3
    <3> QED BY <2>2, <3>1, StopsAtFacts
  <2> QED BY <2>3, <2>4, <2>5
<1> QED BY <1>2, <1>3

\* A path with a link in it.
LinkAt(f, p, n) == /\ n \in 1..Len(p) /\ SubSeq(p, 1, n) \in DOMAIN f
                   /\ f[SubSeq(p, 1, n)].type = "link"

\* The link is where the way stops, and what is followed.
LEMMA LookLink ==
  ASSUME NEW f \in FileSystems, NEW p \in Path, NEW n, LinkAt(f, p, n)
  PROVE  /\ Look(f, p).error = "loop"
         /\ Follow(f, p) = f[SubSeq(p, 1, n)].target \o SubSeq(p, n + 1, Len(p))
<1> DEFINE q == SubSeq(p, 1, n)
<1>1. n \in 1..Len(p) /\ n \in 0..Len(p) /\ Len(p) \in Nat
  BY DEF LinkAt, Path
<1>2. q \in DOMAIN f /\ f[q].type = "link" /\ q \in Path /\ Len(q) = n
  BY <1>1, UptoFacts DEF LinkAt
<1>3. n \in Stops(f, p)
  BY <1>1, <1>2 DEF Stops, IsDir
<1>4. ASSUME NEW m \in Stops(f, p), m < n PROVE FALSE
  <2>1. m \in 1..Len(p) /\ ~IsDir(f, SubSeq(p, 1, m))
    BY DEF Stops
  <2>2. m \in 0..(Len(q) - 1) /\ m \in 0..n
    <3> HIDE DEF q
    <3> QED BY <1>1, <1>2, <1>4, <2>1
  <2>3. IsDir(f, SubSeq(q, 1, m))
    BY <1>2, <2>2, Parents
  <2>4. SubSeq(q, 1, m) = SubSeq(p, 1, m)
    BY <1>1, <2>2, UptoUpto
  <2> QED BY <2>1, <2>3, <2>4
<1>5. FirstStop(f, p) = n
  <2>1. FirstStop(f, p) \in Stops(f, p) /\ FirstStop(f, p) <= n
    BY <1>3, FirstStops
  <2>2. FirstStop(f, p) \in Nat
    BY <2>1 DEF Stops
  <2> QED BY <1>1, <1>4, <2>1, <2>2
<1>6. Look(f, p) = StopsAt(f, p, n)
  BY <1>3, <1>5 DEF Look
<1>7. Look(f, p).error = "loop" /\ Look(f, p).path = q
  BY <1>2, <1>6, StopsAtFacts
<1> QED BY <1>5, <1>7 DEF Follow

\* Where a link is one too many there is one.
LEMMA LinkLook ==
  ASSUME NEW f \in FileSystems, NEW p \in Path, Look(f, p).error = "loop"
  PROVE  \E n : LinkAt(f, p, n)
<1>1. Stops(f, p) # {} /\ Look(f, p) = StopsAt(f, p, FirstStop(f, p))
  BY DEF Look
<1>2. FirstStop(f, p) \in 1..Len(p)
  BY <1>1, FirstStops DEF Stops
<1>3. StopsAt(f, p, FirstStop(f, p)).error = "loop"
  BY <1>1
<1>4. /\ SubSeq(p, 1, FirstStop(f, p)) \in DOMAIN f
      /\ f[SubSeq(p, 1, FirstStop(f, p))].type = "link"
  BY <1>3, StopsAtFacts
<1> QED BY <1>2, <1>4 DEF LinkAt

\* A link leads to a path.
LEMMA FollowPath ==
  ASSUME NEW f \in FileSystems, NEW p \in Path PROVE Follow(f, p) \in Path
<1>1. CASE Look(f, p).error # "loop"
  BY <1>1 DEF Follow
<1>2. CASE Look(f, p).error = "loop"
  <2>1. PICK n : LinkAt(f, p, n)
    BY <1>2, LinkLook
  <2>2. f[SubSeq(p, 1, n)].target \in Path
    BY <2>1, SystemFacts DEF LinkAt
  <2>3. SubSeq(p, n + 1, Len(p)) \in Path
    BY <2>1 DEF LinkAt, Path
  <2>4. f[SubSeq(p, 1, n)].target \o SubSeq(p, n + 1, Len(p)) \in Path
    BY <2>2, <2>3 DEF Path
  <2> QED BY <2>1, <2>4, LookLink
<1> QED BY <1>1, <1>2

-----------------------------------------------------------------------------
(* Links are followed.                                                     *)

\* w is where a path leads after each link.
WaysTo(w, f, p, N) == w = [k \in 0..N |-> IF k = 0 THEN p ELSE Follow(f, w[k - 1])]

\* Any number of links can be followed.
LEMMA WaysExist ==
  ASSUME NEW f, NEW p
  PROVE  \A N \in Nat : \E w : WaysTo(w, f, p, N)
<1> DEFINE S == {N \in Nat : \E w : WaysTo(w, f, p, N)}
<1>1. 0 \in S
  <2>1. WaysTo([i \in 0..0 |-> p], f, p, 0)
    BY DEF WaysTo
  <2> QED BY <2>1
<1>2. ASSUME NEW N \in Nat, N \in S PROVE N + 1 \in S
  <2>1. PICK w : WaysTo(w, f, p, N)
    BY <1>2
  <2> DEFINE g == [i \in 0..(N + 1) |-> IF i <= N THEN w[i] ELSE Follow(f, w[N])]
  <2>2. \A i \in 0..N : g[i] = w[i] /\ w[i] = IF i = 0 THEN p ELSE Follow(f, w[i - 1])
    BY <2>1 DEF WaysTo
  <2>3. \A i \in 0..(N + 1) : g[i] = IF i = 0 THEN p ELSE Follow(f, g[i - 1])
    <3> SUFFICES ASSUME NEW i \in 0..(N + 1)
                 PROVE  g[i] = IF i = 0 THEN p ELSE Follow(f, g[i - 1])
      OBVIOUS
    <3>1. CASE i = N + 1
      BY <3>1, <2>2
    <3>2. CASE i \in 0..N
      <4> HIDE DEF g
      <4>1. i # 0 => i - 1 \in 0..N
        BY <3>2
      <4> QED BY <3>2, <2>2, <4>1
    <3> QED BY <3>1, <3>2
  <2>4. WaysTo(g, f, p, N + 1)
    <3>1. g = [i \in 0..(N + 1) |-> g[i]]
      OBVIOUS
    <3> HIDE DEF g
    <3> QED BY <2>3, <3>1 DEF WaysTo
  <2> QED BY <2>4
<1>3. Nat \subseteq S
  <2> HIDE DEF S
  <2> QED BY <1>1, <1>2, Inductive
<1> QED BY <1>3

\* What is said of a path is said of where it leads in the end.
LEMMA EvalWays ==
  ASSUME NEW f \in FileSystems, NEW p \in Path
  PROVE  \E w : /\ w[0] = p /\ \A k \in 0..(MaxLinks - 1) : w[k + 1] = Follow(f, w[k])
                /\ \A k \in 0..MaxLinks : w[k] \in Path
                /\ Eval(f, p) = Look(f, w[MaxLinks])
<1> DEFINE w == CHOOSE v : WaysTo(v, f, p, MaxLinks)
<1>0. MaxLinks \in Nat
  BY SystemFacts
<1>1. WaysTo(w, f, p, MaxLinks)
  <2>1. \E v : WaysTo(v, f, p, MaxLinks)
    BY <1>0, WaysExist
  <2> QED BY <2>1
<1>2. Eval(f, p) = Look(f, w[MaxLinks])
  BY Zenon DEF Eval, WaysTo
<1> HIDE DEF w
<1>3. \A k \in 0..MaxLinks : w[k] = IF k = 0 THEN p ELSE Follow(f, w[k - 1])
  BY <1>1 DEF WaysTo
<1>4. w[0] = p
  BY <1>0, <1>3
<1>5. ASSUME NEW k \in 0..(MaxLinks - 1) PROVE w[k + 1] = Follow(f, w[k])
  <2>1. k + 1 \in 0..MaxLinks /\ k + 1 # 0 /\ (k + 1) - 1 = k
    BY <1>0
  <2> QED BY <1>3, <2>1
<1> DEFINE T == {k \in Nat : k <= MaxLinks => w[k] \in Path}
<1>6. 0 \in T
  BY <1>4
<1>7. ASSUME NEW k \in Nat, k \in T PROVE k + 1 \in T
  <2> SUFFICES ASSUME k + 1 <= MaxLinks PROVE w[k + 1] \in Path
    OBVIOUS
  <2>1. w[k] \in Path /\ w[k + 1] = Follow(f, w[k])
    BY <1>0, <1>5, <1>7
  <2> QED BY <2>1, FollowPath
<1>8. Nat \subseteq T
  <2> HIDE DEF T
  <2> QED BY <1>6, <1>7, Inductive
<1>9. \A k \in 0..MaxLinks : w[k] \in Path
  BY <1>0, <1>8
<1> QED BY <1>2, <1>4, <1>5, <1>9

\* A path without a link is where it leads.
LEMMA EvalAtOnce ==
  ASSUME NEW f \in FileSystems, NEW p \in Path, Look(f, p).error # "loop"
  PROVE  Eval(f, p) = Look(f, p)
<1>1. PICK w : /\ w[0] = p /\ \A k \in 0..(MaxLinks - 1) : w[k + 1] = Follow(f, w[k])
               /\ Eval(f, p) = Look(f, w[MaxLinks])
  BY EvalWays
<1>2. MaxLinks \in Nat /\ Follow(f, p) = p
  BY SystemFacts DEF Follow
<1> DEFINE T == {k \in Nat : k <= MaxLinks => w[k] = p}
<1>3. 0 \in T
  BY <1>1
<1>4. ASSUME NEW k \in Nat, k \in T PROVE k + 1 \in T
  BY <1>1, <1>2, <1>4
<1>5. Nat \subseteq T
  <2> HIDE DEF T
  <2> QED BY <1>3, <1>4, Inductive
<1>6. w[MaxLinks] = p
  BY <1>2, <1>5
<1> QED BY <1>1, <1>6

\* What is in the file system, and no link, is found where it is.
LEMMA EvalFile ==
  ASSUME NEW f \in FileSystems, NEW p \in DOMAIN f, f[p].type # "link"
  PROVE  Eval(f, p).error = "none" /\ Eval(f, p).path = p
<1>1. p \in Path /\ Look(f, p).error = "none" /\ Look(f, p).path = p
  BY SystemFacts, FoundLook
<1> QED BY <1>1, EvalAtOnce

\* What is found is in the file system, and no link.
LEMMA EvalFound ==
  ASSUME NEW f \in FileSystems, NEW p \in Path, Eval(f, p).error = "none"
  PROVE  Eval(f, p).path \in DOMAIN f /\ f[Eval(f, p).path].type # "link"
<1>1. PICK w : (\A k \in 0..MaxLinks : w[k] \in Path) /\ Eval(f, p) = Look(f, w[MaxLinks])
  BY EvalWays
<1>2. w[MaxLinks] \in Path
  BY <1>1, SystemFacts
<1> QED BY <1>1, <1>2, LookFound

\* The names of a path and one more.
LEMMA ChildElements ==
  ASSUME NEW p \in Path, NEW x \in Nat
  PROVE  /\ Append(p, x) \in Path /\ Len(Append(p, x)) = Len(p) + 1 /\ Append(p, x)[Len(p) + 1] = x
         /\ \A i \in 1..Len(p) : Append(p, x)[i] = p[i]
BY DEF Path

\* The names of two paths put together.
LEMMA JoinElements ==
  ASSUME NEW p \in Path, NEW q \in Path
  PROVE  /\ p \o q \in Path /\ Len(p \o q) = Len(p) + Len(q)
         /\ \A i \in 1..Len(p) : (p \o q)[i] = p[i]
         /\ \A i \in 1..Len(q) : (p \o q)[Len(p) + i] = q[i]
BY DEF Path

\* The names of the rest of a path.
LEMMA RestElements ==
  ASSUME NEW p \in Path, NEW n \in 0..Len(p)
  PROVE  LET q == SubSeq(p, n + 1, Len(p))
         IN  q \in Path /\ Len(q) = Len(p) - n /\ \A i \in 1..(Len(p) - n) : q[i] = p[n + i]
<1>1. Len(p) \in Nat /\ p \in Seq(Nat)
  BY DEF Path
<1>2. SubSeq(p, n + 1, Len(p)) \in Seq(Nat)
  BY <1>1
<1>3. Len(SubSeq(p, n + 1, Len(p))) = Len(p) - n
  BY <1>1
<1>4. ASSUME NEW i \in 1..(Len(p) - n) PROVE SubSeq(p, n + 1, Len(p))[i] = p[n + i]
  <2>1. i \in 1..(Len(p) - (n + 1) + 1) /\ i + (n + 1) - 1 = n + i
    BY <1>1
  <2> QED BY <1>1, <2>1
<1> QED BY <1>2, <1>3, <1>4 DEF Path

\* A last name stays the last while links before it are followed.
LEMMA JoinChild ==
  ASSUME NEW t \in Path, NEW u \in Path, NEW x \in Nat, NEW n \in 0..Len(u)
  PROVE  t \o SubSeq(Append(u, x), n + 1, Len(u) + 1) = Append(t \o SubSeq(u, n + 1, Len(u)), x)
<1> DEFINE r == Append(u, x)
           a == SubSeq(r, n + 1, Len(u) + 1)
           b == SubSeq(u, n + 1, Len(u))
           c == t \o a
           d == t \o b
           e == Append(d, x)
<1>1. Len(u) \in Nat /\ Len(t) \in Nat
  BY DEF Path
<1>2. /\ r \in Path /\ Len(r) = Len(u) + 1 /\ r[Len(u) + 1] = x
      /\ \A i \in 1..Len(u) : r[i] = u[i]
  BY ChildElements
<1> HIDE DEF r
<1>3. /\ a \in Path /\ Len(a) = Len(u) + 1 - n
      /\ \A i \in 1..(Len(u) + 1 - n) : a[i] = r[n + i]
  <2>1. n \in 0..Len(r)
    BY <1>1, <1>2
  <2> QED BY <1>2, <2>1, RestElements
<1>4. /\ b \in Path /\ Len(b) = Len(u) - n
      /\ \A i \in 1..(Len(u) - n) : b[i] = u[n + i]
  BY RestElements
<1> HIDE DEF a, b
<1>5. /\ c \in Path /\ Len(c) = Len(t) + Len(a)
      /\ \A i \in 1..Len(t) : c[i] = t[i]
      /\ \A i \in 1..Len(a) : c[Len(t) + i] = a[i]
  BY <1>3, JoinElements
<1>6. /\ d \in Path /\ Len(d) = Len(t) + Len(b)
      /\ \A i \in 1..Len(t) : d[i] = t[i]
      /\ \A i \in 1..Len(b) : d[Len(t) + i] = b[i]
  BY <1>4, JoinElements
<1> HIDE DEF c, d
<1>7. /\ e \in Path /\ Len(e) = Len(d) + 1 /\ e[Len(d) + 1] = x
      /\ \A i \in 1..Len(d) : e[i] = d[i]
  BY <1>6, ChildElements
<1> HIDE DEF e
<1>8. Len(c) = Len(e) /\ Len(d) = Len(t) + (Len(u) - n) /\ Len(c) = Len(t) + (Len(u) - n) + 1
  BY <1>1, <1>3, <1>4, <1>5, <1>6, <1>7
<1>9. ASSUME NEW i \in 1..Len(c) PROVE c[i] = e[i]
  <2>1. CASE i \in 1..Len(t)
    <3>1. i \in 1..Len(d)
      BY <2>1, <1>1, <1>8
    <3> QED BY <2>1, <3>1, <1>5, <1>6, <1>7
  <2>2. CASE i \in (Len(t) + 1)..(Len(t) + (Len(u) - n))
    <3> DEFINE k == i - Len(t)
    <3>1. k \in 1..(Len(u) - n) /\ Len(t) + k = i /\ k \in 1..Len(a) /\ k \in 1..Len(b)
      BY <2>2, <1>1, <1>3, <1>4
    <3>2. i \in 1..Len(d) /\ n + k \in 1..Len(u) /\ k \in 1..(Len(u) + 1 - n)
      BY <2>2, <1>1, <1>8
    <3> HIDE DEF k
    <3>3. c[i] = a[k] /\ d[i] = b[k] /\ e[i] = d[i]
      BY <3>1, <3>2, <1>5, <1>6, <1>7
    <3>4. a[k] = r[n + k] /\ r[n + k] = u[n + k] /\ b[k] = u[n + k]
      BY <3>1, <3>2, <1>2, <1>3, <1>4
    <3> QED BY <3>3, <3>4
  <2>3. CASE i = Len(t) + (Len(u) - n) + 1
    <3> DEFINE k == Len(u) + 1 - n
    <3>1. k \in 1..(Len(u) + 1 - n) /\ Len(t) + k = i /\ k \in 1..Len(a) /\ n + k = Len(u) + 1
      BY <2>3, <1>1, <1>3
    <3>2. i = Len(d) + 1
      BY <2>3, <1>8
    <3> HIDE DEF k
    <3>3. c[i] = a[k] /\ a[k] = r[n + k]
      BY <3>1, <1>3, <1>5
    <3> QED BY <3>1, <3>2, <3>3, <1>2, <1>7
  <2> QED BY <1>1, <1>8, <2>1, <2>2, <2>3
<1>10. c = e
  BY <1>5, <1>7, <1>8, <1>9, SamePath
<1> QED BY <1>10 DEF c, e, d, a, b, r

IsLink(f, p) == p \in DOMAIN f /\ f[p].type = "link"

\* So a link that is followed in a path is followed in the path to a child,
\* unless that child is one.
LEMMA FollowChild ==
  ASSUME NEW f \in FileSystems, NEW u \in Path, NEW x \in Nat
  PROVE  /\ ~(IsLink(f, Append(u, x)) /\ Look(f, u).error # "loop") =>
              Follow(f, Append(u, x)) = Append(Follow(f, u), x)
         /\ Append(u, x) \in DOMAIN f => Look(f, u).error = "none" /\ Look(f, u).path = u
<1> DEFINE r == Append(u, x)
<1>1. /\ r \in Path /\ r # <<>> /\ Len(r) = Len(u) + 1 /\ Parent(r) = u
      /\ \A n \in 0..Len(u) : SubSeq(r, 1, n) = SubSeq(u, 1, n)
  BY ChildFacts
<1>2. Len(u) \in Nat
  BY DEF Path
<1>3. ASSUME Look(f, u).error = "loop" PROVE Follow(f, r) = Append(Follow(f, u), x)
  <2>1. PICK n : LinkAt(f, u, n)
    BY <1>3, LinkLook
  <2>2. n \in 1..Len(u) /\ n \in 0..Len(u) /\ n \in 1..(Len(u) + 1)
    BY <1>2, <2>1 DEF LinkAt
  <2>3. SubSeq(r, 1, n) = SubSeq(u, 1, n)
    BY <1>1, <2>2
  <2>4. LinkAt(f, r, n)
    <3> HIDE DEF r
    <3> QED BY <1>1, <2>1, <2>2, <2>3 DEF LinkAt
  <2> DEFINE t == f[SubSeq(u, 1, n)].target
  <2>5. t \in Path
    BY <2>1, SystemFacts DEF LinkAt
  <2>6. Follow(f, u) = t \o SubSeq(u, n + 1, Len(u))
    BY <2>1, LookLink
  <2>7. Follow(f, r) = t \o SubSeq(r, n + 1, Len(u) + 1)
    <3> HIDE DEF r
    <3> QED BY <1>1, <2>3, <2>4, LookLink
  <2> HIDE DEF t
  <2> QED BY <2>2, <2>5, <2>6, <2>7, JoinChild
<1>4. ASSUME Look(f, u).error # "loop", ~IsLink(f, r) PROVE Follow(f, r) = Append(Follow(f, u), x)
  <2> HIDE DEF r
  <2>1. ASSUME Look(f, r).error = "loop" PROVE FALSE
    <3>1. PICK n : LinkAt(f, r, n)
      BY <1>1, <2>1, LinkLook
    <3>2. CASE n = Len(r)
      BY <1>1, <1>4, <3>1, <3>2, UptoAll DEF LinkAt, IsLink
    <3>3. CASE n \in 1..Len(u)
      <4>1. SubSeq(r, 1, n) = SubSeq(u, 1, n)
        BY <1>1, <1>2, <3>3
      <4>2. LinkAt(f, u, n)
        BY <3>1, <3>3, <4>1 DEF LinkAt
      <4> QED BY <1>4, <4>2, LookLink
    <3> QED BY <1>1, <1>2, <3>1, <3>2, <3>3 DEF LinkAt
  <2>2. Follow(f, r) = r /\ Follow(f, u) = u
    BY <1>4, <2>1 DEF Follow
  <2> QED BY <2>2 DEF r
<1>5. ASSUME r \in DOMAIN f PROVE Look(f, u).error = "none" /\ Look(f, u).path = u
  <2> HIDE DEF r
  <2>1. IsDir(f, u)
    BY <1>1, <1>5, SystemFacts
  <2> QED BY <2>1, FoundLook DEF IsDir
<1> QED BY <1>3, <1>4, <1>5

\* Where lstat finds a path.
Place(f, p) == IF p = <<>> THEN p ELSE Append(Eval(f, Parent(p)).path, Last(p))

\* A path that leads somewhere has a parent that does.
LEMMA EvalParent ==
  ASSUME NEW f \in FileSystems, NEW r \in Path, r # <<>>, Eval(f, r).error = "none"
  PROVE  /\ Eval(f, Parent(r)).error = "none" /\ Place(f, r) \in DOMAIN f
         /\ f[Place(f, r)].type # "link" => Eval(f, r).path = Place(f, r)
<1> DEFINE u == Parent(r)
           x == Last(r)
<1>1. u \in Path /\ x \in Nat /\ Append(u, x) = r
  BY ParentFacts
<1>2. PICK v : /\ v[0] = u /\ \A k \in 0..(MaxLinks - 1) : v[k + 1] = Follow(f, v[k])
               /\ \A k \in 0..MaxLinks : v[k] \in Path
               /\ Eval(f, u) = Look(f, v[MaxLinks])
  BY <1>1, EvalWays
<1>3. PICK w : /\ w[0] = r /\ \A k \in 0..(MaxLinks - 1) : w[k + 1] = Follow(f, w[k])
               /\ Eval(f, r) = Look(f, w[MaxLinks])
  BY EvalWays
<1>4. MaxLinks \in Nat
  BY SystemFacts
<1>5. Place(f, r) = Append(Eval(f, u).path, x)
  BY DEF Place
<1> HIDE DEF u, x
<1> DEFINE Same(k) == w[k] = Append(v[k], x)
           Gone(k) == Look(f, v[k]).error # "loop" /\ IsLink(f, Append(v[k], x))
           T == {k \in Nat : k <= MaxLinks => Same(k) \/ Gone(k)}
<1>6. 0 \in T
  BY <1>1, <1>2, <1>3
<1>7. ASSUME NEW k \in Nat, k \in T PROVE k + 1 \in T
  <2> SUFFICES ASSUME k + 1 <= MaxLinks PROVE Same(k + 1) \/ Gone(k + 1)
    OBVIOUS
  <2>1. k \in 0..(MaxLinks - 1) /\ k \in 0..MaxLinks
    BY <1>4
  <2>2. v[k + 1] = Follow(f, v[k]) /\ w[k + 1] = Follow(f, w[k]) /\ v[k] \in Path
    BY <1>2, <1>3, <2>1
  <2>3. Same(k) \/ Gone(k)
    BY <1>7, <2>1
  <2>4. CASE Gone(k)
    BY <2>2, <2>4 DEF Follow
  <2>5. CASE Same(k) /\ ~Gone(k)
    BY <1>1, <2>2, <2>5, FollowChild
  <2> QED BY <2>3, <2>4, <2>5
<1>8. Nat \subseteq T
  <2> HIDE DEF T
  <2> QED BY <1>6, <1>7, Inductive
<1>9. Same(MaxLinks) \/ Gone(MaxLinks)
  BY <1>4, <1>8
<1> DEFINE a == v[MaxLinks]
<1>10. a \in Path /\ Eval(f, u) = Look(f, a) /\ Eval(f, r) = Look(f, w[MaxLinks])
  BY <1>2, <1>3, <1>4
<1>11. w[MaxLinks] = Append(a, x) \/ IsLink(f, Append(a, x))
  BY <1>9
<1> HIDE DEF a
<1>12. Append(a, x) \in Path
  BY <1>1, <1>10, ChildFacts
<1>13. CASE w[MaxLinks] = Append(a, x)
  <2>1. Look(f, Append(a, x)).error = "none"
    BY <1>10, <1>13
  <2>2. Look(f, Append(a, x)).path = Append(a, x) /\ Append(a, x) \in DOMAIN f
    BY <1>12, <2>1, LookFound
  <2>3. Look(f, a).error = "none" /\ Look(f, a).path = a
    BY <1>1, <1>10, <2>2, FollowChild
  <2> QED BY <1>5, <1>10, <1>13, <2>2, <2>3 DEF u
<1>14. CASE IsLink(f, Append(a, x))
  <2>1. Append(a, x) \in DOMAIN f /\ f[Append(a, x)].type = "link"
    BY <1>14 DEF IsLink
  <2>2. Look(f, a).error = "none" /\ Look(f, a).path = a
    BY <1>1, <1>10, <2>1, FollowChild
  <2> QED BY <1>5, <1>10, <2>1, <2>2 DEF u
<1> QED BY <1>11, <1>13, <1>14

\* So do all paths on the way.
LEMMA EvalPrefixes ==
  ASSUME NEW f \in FileSystems, NEW r \in Path, Eval(f, r).error = "none", NEW n \in 0..Len(r)
  PROVE  LET q == SubSeq(r, 1, n)
         IN  q \in Path /\ Eval(f, q).error = "none" /\ Place(f, q) \in DOMAIN f
<1> DEFINE up(k) == SubSeq(r, 1, Len(r) - k)
           T == {k \in Nat : k <= Len(r) => Eval(f, up(k)).error = "none"}
<1>1. Len(r) \in Nat
  BY DEF Path
<1>2. 0 \in T
  <2>1. up(0) = r
    BY <1>1, UptoAll
  <2> QED BY <2>1
<1>3. ASSUME NEW k \in Nat, k \in T PROVE k + 1 \in T
  <2> SUFFICES ASSUME k + 1 <= Len(r) PROVE Eval(f, up(k + 1)).error = "none"
    OBVIOUS
  <2>1. Eval(f, up(k)).error = "none"
    BY <1>1, <1>3
  <2>2. Len(r) - k \in 0..Len(r) /\ Len(r) - (k + 1) \in 0..(Len(r) - k) /\ Len(r) - k # 0
        /\ Len(r) - k - 1 = Len(r) - (k + 1)
    BY <1>1
  <2>3. up(k) \in Path /\ Len(up(k)) = Len(r) - k
    BY <2>2, UptoFacts
  <2>4. up(k) # <<>>
    <3> HIDE DEF up
    <3> QED BY <2>2, <2>3
  <2>5. Eval(f, Parent(up(k))).error = "none"
    BY <2>1, <2>3, <2>4, EvalParent
  <2>6. Parent(up(k)) = SubSeq(up(k), 1, Len(r) - (k + 1))
    <3> HIDE DEF up
    <3> QED BY <2>2, <2>3 DEF Parent
  <2>7. SubSeq(up(k), 1, Len(r) - (k + 1)) = up(k + 1)
    BY <2>2, UptoUpto
  <2> QED BY <2>5, <2>6, <2>7
<1>4. Nat \subseteq T
  <2> HIDE DEF T
  <2> QED BY <1>2, <1>3, Inductive
<1>5. Len(r) - n \in T /\ Len(r) - n <= Len(r) /\ Len(r) - (Len(r) - n) = n
  <2> HIDE DEF T
  <2> QED BY <1>1, <1>4
<1> DEFINE q == SubSeq(r, 1, n)
<1>6. Eval(f, q).error = "none"
  BY <1>5
<1>7. q \in Path
  BY UptoFacts
<1> HIDE DEF q
<1>8. Place(f, q) \in DOMAIN f
  BY <1>6, <1>7, EvalParent, SystemFacts DEF Place
<1> QED BY <1>6, <1>7, <1>8 DEF q

\* What is in the file system is where it is.
LEMMA PlaceFile ==
  ASSUME NEW f \in FileSystems, NEW p \in DOMAIN f
  PROVE  /\ p \in Path /\ Place(f, p) = p
         /\ Eval(f, Parent(p)).error = "none" /\ Eval(f, Parent(p)).path = Parent(p)
<1>1. p \in Path
  BY SystemFacts
<1>2. CASE p = <<>>
  <2>1. Parent(p) = <<>>
    BY <1>2 DEF Parent
  <2>2. <<>> \in DOMAIN f /\ f[<<>>].type # "link"
    BY SystemFacts
  <2> QED BY <1>1, <1>2, <2>1, <2>2, EvalFile DEF Place
<1>3. CASE p # <<>>
  <2>1. IsDir(f, Parent(p))
    BY <1>3, SystemFacts
  <2>2. Eval(f, Parent(p)).error = "none" /\ Eval(f, Parent(p)).path = Parent(p)
    BY <2>1, EvalFile DEF IsDir
  <2>3. Append(Parent(p), Last(p)) = p
    BY <1>1, <1>3, ParentFacts
  <2> QED BY <1>1, <1>3, <2>2, <2>3 DEF Place
<1> QED BY <1>2, <1>3

-----------------------------------------------------------------------------
(* The order of the paths.                                                 *)

\* q goes on where p ends.
GoesOnAfter(p, q) == Len(p) < Len(q) /\ \A j \in 1..Len(p) : p[j] = q[j]

\* The i-th name is the first in which they differ.
DifferAt(p, q, i) == /\ i \in 1..Len(p) /\ i \in 1..Len(q) /\ p[i] < q[i]
                     /\ \A j \in 1..(i - 1) : p[j] = q[j]

\* Paths that begin alike.
LEMMA SameUpto ==
  ASSUME NEW p \in Path, NEW q \in Path, NEW n \in Nat, n <= Len(p), n <= Len(q)
  PROVE  SubSeq(p, 1, n) = SubSeq(q, 1, n) <=> \A j \in 1..n : p[j] = q[j]
<1>1. n \in 0..Len(p) /\ n \in 0..Len(q)
  BY DEF Path
<1>2. /\ SubSeq(p, 1, n) \in Path /\ Len(SubSeq(p, 1, n)) = n
      /\ \A i \in 1..n : SubSeq(p, 1, n)[i] = p[i]
  BY <1>1, UptoFacts
<1>3. /\ SubSeq(q, 1, n) \in Path /\ Len(SubSeq(q, 1, n)) = n
      /\ \A i \in 1..n : SubSeq(q, 1, n)[i] = q[i]
  BY <1>1, UptoFacts
<1>4. ASSUME SubSeq(p, 1, n) = SubSeq(q, 1, n) PROVE \A j \in 1..n : p[j] = q[j]
  BY <1>2, <1>3, <1>4
<1>5. ASSUME \A j \in 1..n : p[j] = q[j] PROVE SubSeq(p, 1, n) = SubSeq(q, 1, n)
  <2> DEFINE a == SubSeq(p, 1, n)
             b == SubSeq(q, 1, n)
  <2>1. a \in Path /\ b \in Path /\ Len(a) = Len(b) /\ Len(a) = n
    BY <1>2, <1>3
  <2>2. \A i \in 1..n : a[i] = b[i]
    BY <1>2, <1>3, <1>5
  <2> HIDE DEF a, b
  <2>3. a = b
    BY <2>1, <2>2, SamePath
  <2> QED BY <2>3 DEF a, b
<1> QED BY <1>4, <1>5

\* One path is before another that goes on after it, or at the first name in
\* which they differ.
LEMMA BeforeDef ==
  ASSUME NEW p \in Path, NEW q \in Path
  PROVE  Before(p, q) <=> GoesOnAfter(p, q) \/ \E i : DifferAt(p, q, i)
<1>1. Len(p) \in Nat /\ Len(q) \in Nat
  BY DEF Path
<1>2. Len(p) < Len(q) /\ SubSeq(q, 1, Len(p)) = p <=> GoesOnAfter(p, q)
  <2>1. SubSeq(p, 1, Len(p)) = p
    BY UptoAll
  <2>2. Len(p) < Len(q) => (SubSeq(p, 1, Len(p)) = SubSeq(q, 1, Len(p)) <=> \A j \in 1..Len(p) : p[j] = q[j])
    BY <1>1, SameUpto
  <2> QED BY <2>1, <2>2 DEF GoesOnAfter
<1>3. ASSUME NEW i \in 1..Len(p), i <= Len(q)
      PROVE  SubSeq(p, 1, i - 1) = SubSeq(q, 1, i - 1) <=> \A j \in 1..(i - 1) : p[j] = q[j]
  BY <1>1, <1>3, SameUpto
<1>4. (\E i \in 1..Len(p) : /\ i <= Len(q) /\ p[i] < q[i]
                           /\ SubSeq(p, 1, i - 1) = SubSeq(q, 1, i - 1)) <=> \E i : DifferAt(p, q, i)
  <2>1. \A i \in 1..Len(p) : i <= Len(q) <=> i \in 1..Len(q)
    BY <1>1
  <2> QED BY <1>3, <2>1 DEF DifferAt
<1> QED BY <1>2, <1>4 DEF Before

\* No path is before itself.
LEMMA BeforeNever ==
  ASSUME NEW p \in Path PROVE ~Before(p, p)
<1>1. Len(p) \in Nat /\ \A i \in 1..Len(p) : p[i] \in Nat
  BY DEF Path
<1>2. ~GoesOnAfter(p, p) /\ \A i : ~DifferAt(p, p, i)
  BY <1>1 DEF GoesOnAfter, DifferAt
<1> QED BY <1>2, BeforeDef

\* A path before one that is before a third is before that one.
LEMMA BeforeAgain ==
  ASSUME NEW p \in Path, NEW q \in Path, NEW r \in Path, Before(p, q), Before(q, r)
  PROVE  Before(p, r)
<1>1. /\ Len(p) \in Nat /\ Len(q) \in Nat /\ Len(r) \in Nat
      /\ \A i \in 1..Len(p) : p[i] \in Nat
      /\ \A i \in 1..Len(q) : q[i] \in Nat
      /\ \A i \in 1..Len(r) : r[i] \in Nat
  BY DEF Path
<1>2. CASE GoesOnAfter(p, q) /\ GoesOnAfter(q, r)
  <2>1. \A j \in 1..Len(p) : j \in 1..Len(q)
    BY <1>1, <1>2 DEF GoesOnAfter
  <2>2. GoesOnAfter(p, r)
    BY <1>1, <1>2, <2>1 DEF GoesOnAfter
  <2> QED BY <2>2, BeforeDef
<1>3. ASSUME GoesOnAfter(p, q), NEW i, DifferAt(q, r, i) PROVE Before(p, r)
  <2>1. i \in 1..Len(q) /\ i \in 1..Len(r) /\ q[i] < r[i] /\ \A j \in 1..(i - 1) : q[j] = r[j]
    BY <1>3 DEF DifferAt
  <2>2. Len(p) < Len(q) /\ \A j \in 1..Len(p) : p[j] = q[j]
    BY <1>3 DEF GoesOnAfter
  <2>3. CASE i <= Len(p)
    <3>1. i \in 1..Len(p) /\ \A j \in 1..(i - 1) : j \in 1..Len(p)
      BY <1>1, <2>1, <2>3
    <3>2. DifferAt(p, r, i)
      BY <2>1, <2>2, <3>1 DEF DifferAt
    <3> QED BY <3>2, BeforeDef
  <2>4. CASE ~(i <= Len(p))
    <3>1. Len(p) < Len(r) /\ \A j \in 1..Len(p) : j \in 1..(i - 1)
      BY <1>1, <2>1, <2>4
    <3>2. GoesOnAfter(p, r)
      BY <2>1, <2>2, <3>1 DEF GoesOnAfter
    <3> QED BY <3>2, BeforeDef
  <2> QED BY <2>3, <2>4
<1>4. ASSUME NEW i, DifferAt(p, q, i), GoesOnAfter(q, r) PROVE Before(p, r)
  <2>1. i \in 1..Len(p) /\ i \in 1..Len(q) /\ p[i] < q[i] /\ \A j \in 1..(i - 1) : p[j] = q[j]
    BY <1>4 DEF DifferAt
  <2>2. Len(q) < Len(r) /\ \A j \in 1..Len(q) : q[j] = r[j]
    BY <1>4 DEF GoesOnAfter
  <2>3. i \in 1..Len(r) /\ \A j \in 1..(i - 1) : j \in 1..Len(q)
    BY <1>1, <2>1, <2>2
  <2>4. DifferAt(p, r, i)
    BY <2>1, <2>2, <2>3 DEF DifferAt
  <2> QED BY <2>4, BeforeDef
<1>5. ASSUME NEW i, NEW k, DifferAt(p, q, i), DifferAt(q, r, k) PROVE Before(p, r)
  <2>1. i \in 1..Len(p) /\ i \in 1..Len(q) /\ p[i] < q[i] /\ \A j \in 1..(i - 1) : p[j] = q[j]
    BY <1>5 DEF DifferAt
  <2>2. k \in 1..Len(q) /\ k \in 1..Len(r) /\ q[k] < r[k] /\ \A j \in 1..(k - 1) : q[j] = r[j]
    BY <1>5 DEF DifferAt
  <2>3. CASE i < k
    <3>1. i \in 1..Len(r) /\ i \in 1..(k - 1) /\ \A j \in 1..(i - 1) : j \in 1..(k - 1)
      BY <1>1, <2>1, <2>2, <2>3
    <3>2. DifferAt(p, r, i)
      BY <2>1, <2>2, <3>1 DEF DifferAt
    <3> QED BY <3>2, BeforeDef
  <2>4. CASE k < i
    <3>1. k \in 1..Len(p) /\ k \in 1..(i - 1) /\ \A j \in 1..(k - 1) : j \in 1..(i - 1)
      BY <1>1, <2>1, <2>2, <2>4
    <3>2. DifferAt(p, r, k)
      BY <2>1, <2>2, <3>1 DEF DifferAt
    <3> QED BY <3>2, BeforeDef
  <2>5. CASE k = i
    <3>1. p[i] \in Nat /\ q[i] \in Nat /\ r[i] \in Nat
      BY <1>1, <2>1, <2>2, <2>5
    <3>2. p[i] < r[i]
      BY <2>1, <2>2, <2>5, <3>1
    <3>3. DifferAt(p, r, i)
      BY <2>1, <2>2, <2>5, <3>2 DEF DifferAt
    <3> QED BY <3>3, BeforeDef
  <2>6. i \in Nat /\ k \in Nat
    BY <2>1, <2>2
  <2> QED BY <2>3, <2>4, <2>5, <2>6
<1>6. (GoesOnAfter(p, q) \/ \E i : DifferAt(p, q, i)) /\ (GoesOnAfter(q, r) \/ \E i : DifferAt(q, r, i))
  BY BeforeDef
<1> QED BY <1>2, <1>3, <1>4, <1>5, <1>6

\* Of two paths one is before the other.
LEMMA BeforeOneWay ==
  ASSUME NEW p \in Path, NEW q \in Path, p # q
  PROVE  Before(p, q) \/ Before(q, p)
<1>1. /\ Len(p) \in Nat /\ Len(q) \in Nat
      /\ \A i \in 1..Len(p) : p[i] \in Nat
      /\ \A i \in 1..Len(q) : q[i] \in Nat
  BY DEF Path
<1> DEFINE D == {i \in Nat : i \in 1..Len(p) /\ i \in 1..Len(q) /\ p[i] # q[i]}
<1>2. CASE D # {}
  <2>1. PICK i \in D : \A j \in D : i <= j
    <3>1. D \in SUBSET Nat
      OBVIOUS
    <3> HIDE DEF D
    <3> QED BY <1>2, <3>1, Least
  <2>2. i \in 1..Len(p) /\ i \in 1..Len(q) /\ p[i] # q[i]
    BY <2>1
  <2>3. ASSUME NEW j \in 1..(i - 1) PROVE p[j] = q[j]
    <3>1. j \in Nat /\ j \in 1..Len(p) /\ j \in 1..Len(q) /\ ~(i <= j)
      BY <1>1, <2>2
    <3> QED BY <2>1, <3>1
  <2>4. p[i] < q[i] \/ q[i] < p[i]
    BY <1>1, <2>2
  <2>5. DifferAt(p, q, i) \/ DifferAt(q, p, i)
    BY <2>2, <2>3, <2>4 DEF DifferAt
  <2> QED BY <2>5, BeforeDef
<1>3. CASE D = {}
  <2>1. \A i \in 1..Len(p) : i \in 1..Len(q) => p[i] = q[i]
    BY <1>1, <1>3
  <2>2. Len(p) # Len(q)
    BY <2>1, SamePath
  <2>3. CASE Len(p) < Len(q)
    <3>1. \A j \in 1..Len(p) : j \in 1..Len(q)
      BY <1>1, <2>3
    <3>2. GoesOnAfter(p, q)
      BY <2>1, <2>3, <3>1 DEF GoesOnAfter
    <3> QED BY <3>2, BeforeDef
  <2>4. CASE Len(q) < Len(p)
    <3>1. \A j \in 1..Len(q) : j \in 1..Len(p)
      BY <1>1, <2>4
    <3>2. GoesOnAfter(q, p)
      BY <2>1, <2>4, <3>1 DEF GoesOnAfter
    <3> QED BY <3>2, BeforeDef
  <2> QED BY <1>1, <2>2, <2>3, <2>4
<1> QED BY <1>2, <1>3

\* A list in order has all paths, and no others.
LEMMA InOrderAll ==
  ASSUME NEW S \in SUBSET Path, IsFiniteSet(S)
  PROVE  /\ Cardinality(S) \in Nat /\ DOMAIN InOrder(S) = 1..Cardinality(S)
         /\ InOrder(S) \in [1..Cardinality(S) -> S]
         /\ \A p \in S : \E i \in 1..Cardinality(S) : InOrder(S)[i] = p
<1> DEFINE N == Cardinality(S)
           Less(p) == {q \in S : Before(q, p)}
           rank == [p \in S |-> Cardinality(Less(p))]
<1>1. N \in Nat
  BY FS_CardinalityType
<1>2. ASSUME NEW p \in S
      PROVE  IsFiniteSet(Less(p)) /\ Cardinality(Less(p)) \in Nat /\ Cardinality(Less(p)) < N
  <2>1. Less(p) \subseteq S \ {p}
    <3>1. p \in Path /\ ~Before(p, p)
      BY BeforeNever
    <3> QED BY <3>1
  <2>2. IsFiniteSet(S \ {p}) /\ Cardinality(S \ {p}) = N - 1
    BY FS_RemoveElement
  <2> HIDE DEF Less
  <2>3. IsFiniteSet(Less(p)) /\ Cardinality(Less(p)) <= N - 1
    BY <2>1, <2>2, FS_Subset
  <2>4. Cardinality(Less(p)) \in Nat
    BY <2>3, FS_CardinalityType
  <2> QED BY <1>1, <2>3, <2>4
<1>3. ASSUME NEW p \in S, NEW q \in S, Before(p, q)
      PROVE  Cardinality(Less(p)) < Cardinality(Less(q))
  <2>1. p \in Path /\ q \in Path /\ \A r \in S : r \in Path
    OBVIOUS
  <2>2. Less(p) \subseteq Less(q) \ {p}
    BY <1>3, <2>1, BeforeAgain, BeforeNever
  <2>3. p \in Less(q)
    BY <1>3
  <2> HIDE DEF Less
  <2>4. IsFiniteSet(Less(q)) /\ Cardinality(Less(q)) \in Nat /\ Cardinality(Less(p)) \in Nat
    BY <1>2
  <2>5. IsFiniteSet(Less(q) \ {p}) /\ Cardinality(Less(q) \ {p}) = Cardinality(Less(q)) - 1
    BY <2>3, <2>4, FS_RemoveElement
  <2>6. Cardinality(Less(p)) <= Cardinality(Less(q)) - 1
    BY <2>2, <2>5, FS_Subset
  <2> QED BY <2>4, <2>6
<1>4. ASSUME NEW p \in S, NEW q \in S, rank[p] = rank[q] PROVE p = q
  <2>1. Cardinality(Less(p)) = Cardinality(Less(q))
    BY <1>4
  <2>2. Cardinality(Less(p)) \in Nat /\ Cardinality(Less(q)) \in Nat
    BY <1>2
  <2>3. ~Before(p, q) /\ ~Before(q, p)
    <3> HIDE DEF Less
    <3> QED BY <1>3, <2>1, <2>2
  <2> QED BY <2>3, BeforeOneWay
<1>5. rank \in [S -> 0..(N - 1)]
  <2>1. \A p \in S : Cardinality(Less(p)) \in 0..(N - 1)
    <3> HIDE DEF Less
    <3> QED BY <1>1, <1>2
  <2> QED BY <2>1
<1>6. IsFiniteSet(0..(N - 1)) /\ Cardinality(0..(N - 1)) = N
  <2>1. N - 1 \in Int
    BY <1>1
  <2> HIDE DEF N
  <2> QED BY <1>1, <2>1, FS_Interval
<1>7. rank \in Surjection(S, 0..(N - 1))
  <2>1. rank \in Injection(S, 0..(N - 1))
    <3> HIDE DEF rank
    <3> QED BY <1>4, <1>5 DEF Injection, IsInjective
  <2> HIDE DEF rank
  <2>2. Cardinality(S) = Cardinality(0..(N - 1)) <=> rank \in Surjection(S, 0..(N - 1))
    BY <2>1, <1>6, FS_Injection
  <2> QED BY <2>2, <1>6
<1> DEFINE s == InOrder(S)
<1>8. DOMAIN s = 1..N /\ \A i \in 1..N : s[i] = CHOOSE p \in S : Cardinality(Less(p)) = i - 1
  BY DEF InOrder
<1>9. ASSUME NEW i \in 1..N PROVE s[i] \in S /\ Cardinality(Less(s[i])) = i - 1
  <2>1. i - 1 \in 0..(N - 1)
    BY <1>1
  <2>2. \E p \in S : rank[p] = i - 1
    <3> HIDE DEF rank
    <3> QED BY <1>7, <2>1 DEF Surjection
  <2>3. \E p \in S : Cardinality(Less(p)) = i - 1
    BY <2>2
  <2> HIDE DEF Less, s
  <2> QED BY <1>8, <2>3
<1>10. s \in [1..N -> S]
  <2> DEFINE c(i) == CHOOSE p \in S : Cardinality(Less(p)) = i - 1
  <2>1. s = [i \in 1..N |-> c(i)]
    BY DEF InOrder
  <2>2. \A i \in 1..N : c(i) \in S
    <3> HIDE DEF Less, s
    <3> QED BY <1>8, <1>9
  <2> HIDE DEF s, N, c
  <2> QED BY <2>1, <2>2
<1>11. ASSUME NEW p \in S PROVE \E i \in 1..N : s[i] = p
  <2> DEFINE i == Cardinality(Less(p)) + 1
  <2>1. i \in 1..N /\ i - 1 = Cardinality(Less(p))
    <3> HIDE DEF Less
    <3> QED BY <1>1, <1>2
  <2>2. s[i] \in S /\ Cardinality(Less(s[i])) = Cardinality(Less(p))
    <3> HIDE DEF Less, s, i
    <3> QED BY <2>1, <1>9
  <2>3. rank[s[i]] = rank[p]
    <3> HIDE DEF Less, s, i
    <3> QED BY <2>2
  <2>4. s[i] = p
    <3> HIDE DEF rank, s, i
    <3> QED BY <1>4, <2>2, <2>3
  <2> QED BY <2>1, <2>4
<1> QED BY <1>1, <1>8, <1>10, <1>11

-----------------------------------------------------------------------------
(* What is indexed.                                                        *)

Branches == [indexed : SUBSET Path, roots : Seq(Path), failed : BOOLEAN]

Takes(f, p) == Place(f, p) \in DOMAIN f /\ p \notin Refused /\ f[Place(f, p)].type # "device"

LeadsIn(f, p) == /\ f[Place(f, p)].type = "link"
                 /\ Eval(f, f[Place(f, p)].target).error = "none"

Grown(f, I, S) == I \cup {p \in S : Takes(f, p)}

\* From st to new, what can be of S was added; nothing else was, and where the
\* links that were added lead is a root.
Adds(f, st, new, S) ==
  /\ new \in Branches /\ new.failed = st.failed
  /\ new.indexed = Grown(f, st.indexed, S)
  /\ Range(st.roots) \subseteq Range(new.roots)
  /\ \A p \in new.indexed : \/ p \in st.indexed
                            \/ LeadsIn(f, p) => f[Place(f, p)].target \in Range(new.roots)

\* What the operators of the model say of its file system.
LEMMA Within ==
  ASSUME NEW p
  PROVE  /\ EvalSymlinks(p) = Eval(fs, p) /\ Located(p) = Place(fs, p)
         /\ Lstat(p) = fs[Place(fs, p)]
BY DEF EvalSymlinks, Located, Place, Lstat

\* What is in two lists put together.
LEMMA JoinRange ==
  ASSUME NEW X, NEW s \in Seq(X), NEW t \in Seq(X)
  PROVE  s \o t \in Seq(X) /\ Range(s \o t) = Range(s) \cup Range(t)
<1> DEFINE j == s \o t
<1>1. /\ j \in Seq(X) /\ Len(j) = Len(s) + Len(t)
      /\ \A i \in 1..Len(s) : j[i] = s[i]
      /\ \A i \in 1..Len(t) : j[Len(s) + i] = t[i]
  OBVIOUS
<1> HIDE DEF j
<1>2. Len(s) \in Nat /\ Len(t) \in Nat
  OBVIOUS
<1>3. DOMAIN j = 1..(Len(s) + Len(t)) /\ DOMAIN s = 1..Len(s) /\ DOMAIN t = 1..Len(t)
  BY <1>1
<1>4. ASSUME NEW i \in 1..(Len(s) + Len(t))
      PROVE  i \in 1..Len(s) \/ (i - Len(s) \in 1..Len(t) /\ Len(s) + (i - Len(s)) = i)
  BY <1>2
<1>5. \A i \in 1..(Len(s) + Len(t)) : j[i] \in Range(s) \cup Range(t)
  BY <1>1, <1>3, <1>4 DEF Range
<1>6. \A i \in 1..Len(s) : i \in 1..(Len(s) + Len(t))
  BY <1>2
<1>7. \A i \in 1..Len(t) : Len(s) + i \in 1..(Len(s) + Len(t))
  BY <1>2
<1>8. \A i \in 1..Len(s) : s[i] \in Range(j)
  BY <1>1, <1>3, <1>6 DEF Range
<1>9. \A i \in 1..Len(t) : t[i] \in Range(j)
  BY <1>1, <1>3, <1>7 DEF Range
<1>10. Range(j) = Range(s) \cup Range(t)
  BY <1>3, <1>5, <1>8, <1>9 DEF Range
<1> QED BY <1>1, <1>10 DEF j

\* Nothing to add.
LEMMA AddsNothing ==
  ASSUME NEW f, NEW st \in Branches PROVE Adds(f, st, st, {})
BY DEF Adds, Grown

\* One path.
LEMMA AddsOne ==
  ASSUME fs \in FileSystems, NEW st \in Branches, NEW p \in Path
  PROVE  Adds(fs, st, IndexPath(p, st), {p})
<1> DEFINE to == NewRoot(p)
           new == IndexPath(p, st)
<1>1. Added(st.indexed, p) <=> Takes(fs, p) /\ p \notin st.indexed
  BY Within DEF Added, Takes
<1>2. CASE ~Added(st.indexed, p)
  <2>1. new = st
    BY <1>2 DEF IndexPath
  <2>2. st.indexed = Grown(fs, st.indexed, {p})
    BY <1>1, <1>2 DEF Grown
  <2> QED BY <2>1, <2>2 DEF Adds
<1>3. CASE Added(st.indexed, p)
  <2>1. fs[Place(fs, p)].target \in Path
    BY <1>1, <1>3, SystemFacts DEF Takes
  <2>2. to \in Seq(Path) /\ (LeadsIn(fs, p) => fs[Place(fs, p)].target \in Range(to))
    <3>1. CASE LeadsIn(fs, p)
      <4>1. to = <<fs[Place(fs, p)].target>>
        BY <3>1, Within DEF NewRoot, LeadsIn
      <4> DEFINE t == fs[Place(fs, p)].target
      <4> HIDE DEF t
      <4>2. <<t>> \in Seq(Path) /\ t \in Range(<<t>>)
        <5>1. t \in Path
          BY <2>1 DEF t
        <5>2. DOMAIN <<t>> = 1..1 /\ <<t>>[1] = t
          OBVIOUS
        <5> QED BY <5>1, <5>2 DEF Range
      <4> QED BY <4>1, <4>2 DEF t
    <3>2. CASE ~LeadsIn(fs, p)
      <4> DEFINE t == fs[Place(fs, p)].target
      <4>1. to = <<>> \/ to = <<t>>
        BY Within DEF NewRoot
      <4>2. t \in Path
        BY <2>1
      <4> HIDE DEF t, to
      <4>3. <<>> \in Seq(Path) /\ <<t>> \in Seq(Path)
        BY <4>2
      <4> QED BY <3>2, <4>1, <4>3
    <3> QED BY <3>1, <3>2
  <2> HIDE DEF to
  <2>3. /\ new.indexed = st.indexed \cup {p} /\ new.roots = st.roots \o to /\ new.failed = st.failed
        /\ new \in [indexed : SUBSET Path, roots : {st.roots \o to}, failed : BOOLEAN]
    BY <1>3 DEF IndexPath, Branches, to
  <2> HIDE DEF new
  <2>4. st.roots \in Seq(Path)
    BY DEF Branches
  <2>5. new.roots \in Seq(Path) /\ Range(new.roots) = Range(st.roots) \cup Range(to)
    BY <2>2, <2>3, <2>4, JoinRange
  <2>6. new \in Branches
    BY <2>3, <2>5 DEF Branches
  <2>7. new.indexed = Grown(fs, st.indexed, {p})
    BY <1>1, <1>3, <2>3 DEF Grown
  <2>8. Adds(fs, st, new, {p})
    BY <2>2, <2>3, <2>5, <2>6, <2>7 DEF Adds
  <2> QED BY <2>8 DEF new
<1> QED BY <1>2, <1>3

\* One thing after the other.
LEMMA AddsBoth ==
  ASSUME NEW f, NEW st \in Branches, NEW mid, NEW new, NEW S, NEW T,
         Adds(f, st, mid, S), Adds(f, mid, new, T)
  PROVE  Adds(f, st, new, S \cup T)
<1>1. new.indexed = Grown(f, st.indexed, S \cup T)
  BY DEF Adds, Grown
<1>2. new \in Branches /\ new.failed = st.failed /\ Range(st.roots) \subseteq Range(new.roots)
  BY DEF Adds
<1>3. \A p \in new.indexed : \/ p \in st.indexed
                             \/ LeadsIn(f, p) => f[Place(f, p)].target \in Range(new.roots)
  BY DEF Adds
<1> QED BY <1>1, <1>2, <1>3 DEF Adds

\* a is what comes of st after each path of s.
PathsTo(a, s, st, N) == a = [i \in 0..N |-> IF i = 0 THEN st ELSE IndexPath(s[i], a[i - 1])]

\* Any number of paths can be added one after the other.
LEMMA PathsExist ==
  ASSUME NEW s, NEW st
  PROVE  \A N \in Nat : \E a : PathsTo(a, s, st, N)
<1> DEFINE S == {N \in Nat : \E a : PathsTo(a, s, st, N)}
<1>1. 0 \in S
  <2>1. PathsTo([i \in 0..0 |-> st], s, st, 0)
    BY DEF PathsTo
  <2> QED BY <2>1
<1>2. ASSUME NEW N \in Nat, N \in S PROVE N + 1 \in S
  <2>1. PICK a : PathsTo(a, s, st, N)
    BY <1>2
  <2> DEFINE g == [i \in 0..(N + 1) |-> IF i <= N THEN a[i] ELSE IndexPath(s[N + 1], a[N])]
  <2>2. \A i \in 0..N : g[i] = a[i] /\ a[i] = IF i = 0 THEN st ELSE IndexPath(s[i], a[i - 1])
    BY <2>1 DEF PathsTo
  <2>3. \A i \in 0..(N + 1) : g[i] = IF i = 0 THEN st ELSE IndexPath(s[i], g[i - 1])
    <3> SUFFICES ASSUME NEW i \in 0..(N + 1)
                 PROVE  g[i] = IF i = 0 THEN st ELSE IndexPath(s[i], g[i - 1])
      OBVIOUS
    <3>1. CASE i = N + 1
      BY <3>1, <2>2
    <3>2. CASE i \in 0..N
      <4> HIDE DEF g
      <4>1. i # 0 => i - 1 \in 0..N
        BY <3>2
      <4> QED BY <3>2, <2>2, <4>1
    <3> QED BY <3>1, <3>2
  <2>4. PathsTo(g, s, st, N + 1)
    <3>1. g = [i \in 0..(N + 1) |-> g[i]]
      OBVIOUS
    <3> HIDE DEF g
    <3> QED BY <2>3, <3>1 DEF PathsTo
  <2> QED BY <2>4
<1>3. Nat \subseteq S
  <2> HIDE DEF S
  <2> QED BY <1>1, <1>2, Inductive
<1> QED BY <1>3

\* A list of paths.
LEMMA AddsAll ==
  ASSUME fs \in FileSystems, NEW st \in Branches, NEW s, Len(s) \in Nat,
         \A i \in 1..Len(s) : s[i] \in Path
  PROVE  Adds(fs, st, IndexPaths(s, st), {s[i] : i \in 1..Len(s)})
<1> DEFINE a == CHOOSE b : PathsTo(b, s, st, Len(s))
<1>1. PathsTo(a, s, st, Len(s))
  <2>1. \E b : PathsTo(b, s, st, Len(s))
    BY PathsExist
  <2> QED BY <2>1
<1>2. IndexPaths(s, st) = a[Len(s)]
  BY Zenon DEF IndexPaths, PathsTo
<1> HIDE DEF a
<1>3. \A i \in 0..Len(s) : a[i] = IF i = 0 THEN st ELSE IndexPath(s[i], a[i - 1])
  BY <1>1 DEF PathsTo
<1>4. a[0] = st
  BY <1>3
<1> DEFINE First(k) == {s[i] : i \in 1..k}
           T == {k \in Nat : k <= Len(s) => Adds(fs, st, a[k], First(k))}
<1>5. 0 \in T
  <2>1. First(0) = {}
    OBVIOUS
  <2> HIDE DEF First
  <2> QED BY <1>4, <2>1, AddsNothing
<1>6. ASSUME NEW k \in Nat, k \in T PROVE k + 1 \in T
  <2> SUFFICES ASSUME k + 1 <= Len(s) PROVE Adds(fs, st, a[k + 1], First(k + 1))
    OBVIOUS
  <2>1. Adds(fs, st, a[k], First(k))
    BY <1>6
  <2>2. k + 1 \in 0..Len(s) /\ k + 1 # 0 /\ (k + 1) - 1 = k /\ k + 1 \in 1..Len(s)
    OBVIOUS
  <2>3. a[k + 1] = IndexPath(s[k + 1], a[k]) /\ s[k + 1] \in Path
    BY <1>3, <2>2
  <2>4. a[k] \in Branches
    BY <2>1 DEF Adds
  <2>5. Adds(fs, a[k], a[k + 1], {s[k + 1]})
    BY <2>3, <2>4, AddsOne
  <2>6. First(k) \cup {s[k + 1]} = First(k + 1)
    <3>1. \A i \in 1..(k + 1) : i = k + 1 \/ i \in 1..k
      OBVIOUS
    <3>2. \A i \in 1..k : i \in 1..(k + 1)
      OBVIOUS
    <3>3. k + 1 \in 1..(k + 1)
      OBVIOUS
    <3> QED BY <3>1, <3>2, <3>3
  <2> HIDE DEF First
  <2> QED BY <2>1, <2>5, <2>6, AddsBoth
<1>7. Nat \subseteq T
  <2> HIDE DEF T
  <2> QED BY <1>5, <1>6, Inductive
<1>8. Len(s) \in T
  <2> HIDE DEF T
  <2> QED BY <1>7
<1>9. Adds(fs, st, a[Len(s)], First(Len(s)))
  <2> HIDE DEF First
  <2> QED BY <1>8
<1> QED BY <1>2, <1>9

\* What a walk visits.
Reach(f, I, r) ==
  {q \in DOMAIN f : /\ IsPrefix(r, q)
                    /\ \A n \in Len(r)..(Len(q) - 1) :
                         LET d == SubSeq(q, 1, n)
                         IN  d \notin Refused /\ ~(d \in I /\ f[Place(f, d)].type = "dir")}

\* A function on the first numbers is a list.
LEMMA IsSequence ==
  ASSUME NEW X, NEW n \in Nat, NEW s \in [1..n -> X]
  PROVE  s \in Seq(X) /\ Len(s) = n
OBVIOUS

-----------------------------------------------------------------------------
(* Paths that go on.                                                       *)

\* A path is the beginning of another that has its names.
LEMMA PrefixDef ==
  ASSUME NEW r \in Path, NEW q \in Path
  PROVE  IsPrefix(r, q) <=> Len(r) <= Len(q) /\ \A j \in 1..Len(r) : r[j] = q[j]
<1>1. Len(r) \in Nat /\ Len(r) <= Len(r)
  BY DEF Path
<1> QED BY <1>1, SameUpto DEF IsPrefix

\* The other is that path and the rest.
LEMMA PrefixFacts ==
  ASSUME NEW r \in Path, NEW q \in Path, IsPrefix(r, q)
  PROVE  /\ Len(r) \in 0..Len(q) /\ SubSeq(q, 1, Len(r)) = r
         /\ r \o SubSeq(q, Len(r) + 1, Len(q)) = q
<1>1. Len(r) \in Nat /\ Len(q) \in Nat
  BY DEF Path
<1>2. Len(r) \in 0..Len(q) /\ \A j \in 1..Len(r) : r[j] = q[j]
  BY <1>1, PrefixDef
<1>3. SubSeq(q, 1, Len(r)) = r
  BY UptoAll DEF IsPrefix
<1> DEFINE t == SubSeq(q, Len(r) + 1, Len(q))
           j == r \o t
<1>4. t \in Path /\ Len(t) = Len(q) - Len(r) /\ \A i \in 1..(Len(q) - Len(r)) : t[i] = q[Len(r) + i]
  BY <1>2, RestElements
<1> HIDE DEF t
<1>5. /\ j \in Path /\ Len(j) = Len(r) + Len(t)
      /\ \A i \in 1..Len(r) : j[i] = r[i]
      /\ \A i \in 1..Len(t) : j[Len(r) + i] = t[i]
  BY <1>4, JoinElements
<1> HIDE DEF j
<1>6. Len(j) = Len(q)
  BY <1>1, <1>2, <1>4, <1>5
<1>7. ASSUME NEW i \in 1..Len(q) PROVE j[i] = q[i]
  <2>1. CASE i \in 1..Len(r)
    BY <2>1, <1>2, <1>5
  <2>2. CASE i \notin 1..Len(r)
    <3> DEFINE k == i - Len(r)
    <3>1. k \in 1..(Len(q) - Len(r)) /\ k \in 1..Len(t) /\ Len(r) + k = i
      BY <2>2, <1>1, <1>2, <1>4
    <3> HIDE DEF k
    <3>2. j[i] = t[k] /\ t[k] = q[i]
      BY <3>1, <1>4, <1>5
    <3> QED BY <3>2
  <2> QED BY <2>1, <2>2
<1>8. j = q
  BY <1>5, <1>6, <1>7, SamePath
<1> QED BY <1>2, <1>3, <1>8 DEF j, t

\* The beginning of a beginning is one.
LEMMA PrefixAgain ==
  ASSUME NEW r \in Path, NEW q \in Path, NEW p \in Path, IsPrefix(r, q), IsPrefix(q, p)
  PROVE  IsPrefix(r, p)
<1>1. Len(r) \in Nat /\ Len(q) \in Nat /\ Len(p) \in Nat
  BY DEF Path
<1>2. Len(r) <= Len(q) /\ \A j \in 1..Len(r) : r[j] = q[j]
  BY PrefixDef
<1>3. Len(q) <= Len(p) /\ \A j \in 1..Len(q) : q[j] = p[j]
  BY PrefixDef
<1>4. \A j \in 1..Len(r) : j \in 1..Len(q)
  BY <1>1, <1>2
<1> QED BY <1>1, <1>2, <1>3, <1>4, PrefixDef

\* A path is the beginning of itself.
LEMMA PrefixSame ==
  ASSUME NEW p \in Path PROVE IsPrefix(p, p)
<1>1. Len(p) \in Nat
  BY DEF Path
<1> QED BY <1>1 DEF IsPrefix

\* Its first names are a beginning.
LEMMA PrefixUpto ==
  ASSUME NEW q \in Path, NEW n \in 0..Len(q)
  PROVE  IsPrefix(SubSeq(q, 1, n), q)
<1> DEFINE d == SubSeq(q, 1, n)
<1>1. d \in Path /\ Len(d) = n /\ \A i \in 1..n : d[i] = q[i]
  BY UptoFacts
<1>2. Len(q) \in Nat
  BY DEF Path
<1> HIDE DEF d
<1>3. IsPrefix(d, q)
  BY <1>1, <1>2, PrefixDef
<1> QED BY <1>3 DEF d

\* A walk adds what it visits.
LEMMA AddsWalk ==
  ASSUME fs \in FileSystems, NEW st \in Branches, NEW r \in Path, Place(fs, r) = r
  PROVE  Adds(fs, st, Walk(r, st), Reach(fs, st.indexed, r))
<1> DEFINE S == Reach(fs, st.indexed, r)
           s == Walked(st.indexed, r)
           paths == {r \o SubSeq(q, Len(r) + 1, Len(q)) : q \in {d \in DOMAIN fs : IsPrefix(r, d)}}
<1>1. DOMAIN fs \subseteq Path /\ IsFiniteSet(DOMAIN fs)
  BY SystemFacts
<1>2. paths = {d \in DOMAIN fs : IsPrefix(r, d)}
  <2>1. \A q \in DOMAIN fs : IsPrefix(r, q) => r \o SubSeq(q, Len(r) + 1, Len(q)) = q
    BY <1>1, PrefixFacts
  <2> QED BY <2>1
<1>3. s = InOrder({p \in paths : \A n \in Len(r)..(Len(p) - 1) : ~Pruned(st.indexed, SubSeq(p, 1, n))})
  BY Within DEF Walked
<1>4. {p \in paths : \A n \in Len(r)..(Len(p) - 1) : ~Pruned(st.indexed, SubSeq(p, 1, n))} = S
  <2>1. \A d : Pruned(st.indexed, d) <=> ~(d \notin Refused /\ ~(d \in st.indexed /\ fs[Place(fs, d)].type = "dir"))
    BY Within DEF Pruned
  <2> HIDE DEF paths
  <2> QED BY <1>2, <2>1 DEF Reach
<1>5. s = InOrder(S)
  <2> HIDE DEF S, paths, s
  <2> QED BY <1>3, <1>4
<1>6. S \subseteq DOMAIN fs
  BY DEF Reach
<1> HIDE DEF S, paths, s
<1>7. S \in SUBSET Path /\ IsFiniteSet(S)
  BY <1>1, <1>6, FS_Subset
<1>8. Cardinality(S) \in Nat /\ s \in [1..Cardinality(S) -> S] /\ \A p \in S : \E i \in 1..Cardinality(S) : s[i] = p
  BY <1>5, <1>7, InOrderAll
<1>9. Len(s) = Cardinality(S)
  BY <1>8, IsSequence
<1>10. \A i \in 1..Len(s) : s[i] \in Path
  BY <1>7, <1>8, <1>9
<1>11. {s[i] : i \in 1..Len(s)} = S
  BY <1>8, <1>9
<1>12. Adds(fs, st, IndexPaths(s, st), {s[i] : i \in 1..Len(s)})
  BY <1>8, <1>9, <1>10, AddsAll
<1> QED BY <1>11, <1>12 DEF Walk, s, S

\* The elements of a path, each under its real parent.
Elements(f, r) == {Place(f, SubSeq(r, 1, n)) : n \in 1..Len(r)}

\* Those of a path that leads somewhere are there, and are added.
LEMMA AddsAncestors ==
  ASSUME fs \in FileSystems, NEW st \in Branches, NEW r \in Path, Eval(fs, r).error = "none"
  PROVE  /\ Elements(fs, r) \subseteq DOMAIN fs
         /\ Adds(fs, st, IndexPaths(Ancestors(r), st), Elements(fs, r))
<1> DEFINE c(n) == Place(fs, SubSeq(r, 1, n))
           s == Ancestors(r)
<1>1. Len(r) \in Nat
  BY DEF Path
<1>2. \A n \in 1..Len(r) : c(n) \in DOMAIN fs
  BY EvalPrefixes
<1>3. s = [n \in 1..Len(r) |-> c(n)]
  BY Within DEF Ancestors
<1> HIDE DEF c, s
<1>4. s \in [1..Len(r) -> DOMAIN fs]
  BY <1>2, <1>3
<1>5. Len(s) = Len(r)
  BY <1>1, <1>4, IsSequence
<1>6. \A i \in 1..Len(s) : s[i] \in Path /\ s[i] = c(i)
  BY <1>2, <1>3, <1>5, SystemFacts
<1>7. Adds(fs, st, IndexPaths(s, st), {s[i] : i \in 1..Len(s)})
  BY <1>1, <1>5, <1>6, AddsAll
<1>8. {s[i] : i \in 1..Len(s)} = {c(n) : n \in 1..Len(r)}
  BY <1>5, <1>6
<1>9. {c(n) : n \in 1..Len(r)} \subseteq DOMAIN fs
  BY <1>2
<1> QED BY <1>7, <1>8, <1>9 DEF s, c, Elements

-----------------------------------------------------------------------------
(* What can be found.                                                      *)

BelowIn(f, p) == {q \in DOMAIN f : /\ IsPrefix(p, q) /\ f[q].type # "device"
                                   /\ \A n \in 0..Len(q) : SubSeq(q, 1, n) \notin Refused}

WayIn(f, R, q) ==
  \E r \in R : /\ Eval(f, r).error = "none" /\ Eval(f, Parent(r)).path # Parent(r)
               /\ \E n \in 1..(Len(r) - 1) : IsPrefix(Place(f, SubSeq(r, 1, n)), q)

\* With I indexed and the roots in R, all below d that is not on the way to one
\* of these can be found.
Covers(f, R, I, d) == \A q \in BelowIn(f, d) : q \in I \/ WayIn(f, R, q)

\* So a directory in the index may be passed over.
CoversDirs(f, R, I) == \A d \in I : f[d].type = "dir" => Covers(f, R, I, d)

\* What can be found is found in a larger index.
LEMMA CoversMore ==
  ASSUME NEW f, NEW R, NEW I, NEW d, Covers(f, R, I, d), NEW Q, NEW J, R \subseteq Q, I \subseteq J
  PROVE  Covers(f, Q, J, d)
BY DEF Covers, WayIn

\* What is further down can be found too.
LEMMA CoversLower ==
  ASSUME NEW f \in FileSystems, NEW R, NEW I, NEW r \in Path, Covers(f, R, I, r),
         NEW d \in Path, IsPrefix(r, d)
  PROVE  Covers(f, R, I, d)
<1>1. ASSUME NEW q \in BelowIn(f, d) PROVE q \in BelowIn(f, r)
  <2>1. q \in Path /\ IsPrefix(d, q)
    BY SystemFacts DEF BelowIn
  <2>2. IsPrefix(r, q)
    BY <2>1, PrefixAgain
  <2> QED BY <2>2 DEF BelowIn
<1> QED BY <1>1 DEF Covers

\* After a walk all below its root can be found.
LEMMA WalkCovers ==
  ASSUME NEW f \in FileSystems, NEW R, NEW I \in SUBSET DOMAIN f, CoversDirs(f, R, I),
         NEW r \in Path, NEW J, J = Grown(f, I, Reach(f, I, r))
  PROVE  /\ J \subseteq DOMAIN f /\ I \subseteq J
         /\ Covers(f, R, J, r) /\ CoversDirs(f, R, J)
<1>1. J \subseteq DOMAIN f /\ I \subseteq J
  BY DEF Reach, Grown
<1>2. ASSUME NEW q \in BelowIn(f, r) PROVE q \in J \/ WayIn(f, R, q)
  <2>1. /\ q \in DOMAIN f /\ q \in Path /\ IsPrefix(r, q) /\ f[q].type # "device"
        /\ \A n \in 0..Len(q) : SubSeq(q, 1, n) \notin Refused
    BY SystemFacts DEF BelowIn
  <2>2. Len(q) \in Nat /\ Len(r) \in Nat /\ Len(r) \in 0..Len(q)
    BY <2>1, PrefixFacts DEF Path
  <2>3. Place(f, q) = q /\ SubSeq(q, 1, Len(q)) = q
    BY <2>1, PlaceFile, UptoAll
  <2>4. Takes(f, q)
    <3>1. q \notin Refused
      <4>1. Len(q) \in 0..Len(q)
        BY <2>2
      <4> QED BY <2>1, <2>3, <4>1
    <3> QED BY <2>1, <2>3, <3>1 DEF Takes
  <2>5. CASE q \in Reach(f, I, r)
    BY <2>4, <2>5 DEF Grown
  <2>6. CASE q \notin Reach(f, I, r)
    <3>1. PICK n \in Len(r)..(Len(q) - 1) :
            LET d == SubSeq(q, 1, n)
            IN  ~(d \notin Refused /\ ~(d \in I /\ f[Place(f, d)].type = "dir"))
      BY <2>1, <2>6 DEF Reach
    <3> DEFINE d == SubSeq(q, 1, n)
    <3>2. n \in 0..Len(q)
      BY <2>2
    <3>3. d \notin Refused
      BY <2>1, <3>2
    <3>4. d \in I /\ f[Place(f, d)].type = "dir"
      BY <3>1, <3>3
    <3>5. IsPrefix(d, q)
      BY <2>1, <3>2, PrefixUpto
    <3> HIDE DEF d
    <3>6. Place(f, d) = d
      BY <3>4, PlaceFile
    <3>7. Covers(f, R, I, d)
      BY <3>4, <3>6 DEF CoversDirs
    <3>8. q \in BelowIn(f, d)
      BY <2>1, <3>5 DEF BelowIn
    <3> QED BY <1>1, <3>7, <3>8 DEF Covers
  <2> QED BY <2>5, <2>6
<1>3. Covers(f, R, J, r)
  BY <1>2 DEF Covers
<1>4. ASSUME NEW d \in J, f[d].type = "dir" PROVE Covers(f, R, J, d)
  <2>1. CASE d \in I
    <3>1. Covers(f, R, I, d)
      BY <1>4, <2>1 DEF CoversDirs
    <3> QED BY <1>1, <3>1, CoversMore
  <2>2. CASE d \in Reach(f, I, r)
    <3>1. IsPrefix(r, d) /\ d \in Path
      BY <2>2, SystemFacts DEF Reach
    <3> QED BY <1>3, <3>1, CoversLower
  <2> QED BY <2>1, <2>2 DEF Grown
<1>5. CoversDirs(f, R, J)
  BY <1>4 DEF CoversDirs
<1> QED BY <1>1, <1>3, <1>5

\* The elements of a root with a link in it may be added then.
LEMMA AncestorsCover ==
  ASSUME NEW f \in FileSystems, NEW R, NEW I \in SUBSET DOMAIN f, CoversDirs(f, R, I),
         NEW r \in Path, r # <<>>, r \in R, Eval(f, r).error = "none", Eval(f, Parent(r)).path # Parent(r),
         Covers(f, R, I, Eval(f, r).path),
         Elements(f, r) \subseteq DOMAIN f, NEW J, J = Grown(f, I, Elements(f, r))
  PROVE  /\ J \subseteq DOMAIN f /\ I \subseteq J
         /\ Covers(f, R, J, Place(f, r)) /\ CoversDirs(f, R, J)
<1>1. J \subseteq DOMAIN f /\ I \subseteq J
  BY DEF Grown
<1>2. /\ Place(f, r) \in DOMAIN f
      /\ f[Place(f, r)].type # "link" => Eval(f, r).path = Place(f, r)
  BY EvalParent
<1>3. Len(r) \in 1..Len(r) /\ Len(r) \in Nat /\ SubSeq(r, 1, Len(r)) = r
  BY ParentFacts, UptoAll
<1>4. Place(f, r) \in Elements(f, r)
  BY <1>3 DEF Elements
<1>5. ASSUME f[Place(f, r)].type # "link" PROVE Covers(f, R, J, Place(f, r))
  <2>1. Eval(f, r).path = Place(f, r)
    BY <1>2, <1>5
  <2>2. Covers(f, R, I, Place(f, r))
    BY <2>1
  <2> QED BY <1>1, <2>2, CoversMore
<1>6. ASSUME f[Place(f, r)].type = "link" PROVE Covers(f, R, J, Place(f, r))
  <2> DEFINE l == Place(f, r)
  <2>1. l \in DOMAIN f /\ l \in Path /\ Place(f, l) = l /\ f[l].type = "link"
    BY <1>2, <1>6, PlaceFile
  <2> HIDE DEF l
  <2>2. ASSUME NEW q \in BelowIn(f, l) PROVE q \in J
    <3>1. /\ q \in DOMAIN f /\ q \in Path /\ IsPrefix(l, q) /\ f[q].type # "device"
          /\ \A n \in 0..Len(q) : SubSeq(q, 1, n) \notin Refused
      BY SystemFacts DEF BelowIn
    <3>2. Len(l) \in 0..Len(q) /\ SubSeq(q, 1, Len(l)) = l /\ Len(q) \in Nat
      BY <2>1, <3>1, PrefixFacts DEF Path
    <3>3. CASE Len(l) = Len(q)
      <4>1. q = l
        BY <3>1, <3>2, <3>3, UptoAll
      <4>2. q \notin Refused
        BY <3>1, <3>2, <3>3, <4>1
      <4>3. Takes(f, q)
        BY <2>1, <3>1, <4>1, <4>2 DEF Takes
      <4> QED BY <1>4, <4>1, <4>3 DEF l, Grown
    <3>4. CASE Len(l) # Len(q)
      <4>1. Len(l) \in 0..(Len(q) - 1)
        BY <3>2, <3>4
      <4>2. IsDir(f, l)
        BY <3>1, <3>2, <4>1, Parents
      <4> QED BY <2>1, <4>2 DEF IsDir
    <3> QED BY <3>3, <3>4
  <2>3. Covers(f, R, J, l)
    BY <2>2 DEF Covers
  <2> QED BY <2>3 DEF l
<1>7. Covers(f, R, J, Place(f, r))
  BY <1>5, <1>6
<1>8. ASSUME NEW d \in J, f[d].type = "dir" PROVE Covers(f, R, J, d)
  <2>1. CASE d \in I
    <3>1. Covers(f, R, I, d)
      BY <1>8, <2>1 DEF CoversDirs
    <3> QED BY <1>1, <3>1, CoversMore
  <2>2. CASE d \in Elements(f, r)
    <3>1. PICK n \in 1..Len(r) : d = Place(f, SubSeq(r, 1, n))
      BY <2>2 DEF Elements
    <3>2. CASE n = Len(r)
      BY <1>3, <1>7, <3>1, <3>2
    <3>3. CASE n # Len(r)
      <4>1. n \in 1..(Len(r) - 1)
        <5>1. n \in 1..Len(r) /\ Len(r) \in Nat
          BY <1>3
        <5> QED BY <3>3, <5>1
      <4>2. ASSUME NEW q \in BelowIn(f, d) PROVE WayIn(f, R, q)
        <5>1. IsPrefix(Place(f, SubSeq(r, 1, n)), q)
          BY <3>1, <4>2 DEF BelowIn
        <5> QED BY <4>1, <5>1 DEF WayIn
      <4> QED BY <4>2 DEF Covers
    <3> QED BY <3>2, <3>3
  <2> QED BY <2>1, <2>2 DEF Grown
<1>9. CoversDirs(f, R, J)
  BY <1>8 DEF CoversDirs
<1> QED BY <1>1, <1>7, <1>9

-----------------------------------------------------------------------------
(* A root.                                                                 *)

Begin(I) == [indexed |-> I, roots |-> <<>>, failed |-> FALSE]

\* What a root that is indexed makes of the index, and where it leads.
Indexes(f, R, I, r, new) ==
  /\ new \in Branches
  /\ new.indexed \subseteq DOMAIN f /\ I \subseteq new.indexed
  /\ CoversDirs(f, R, new.indexed)
  /\ new.failed => new.indexed = I
  /\ ~new.failed /\ Eval(f, r).error = "none" => Covers(f, R, new.indexed, Place(f, r))
  /\ \A p \in new.indexed : p \in I \/ (LeadsIn(f, p) => f[Place(f, p)].target \in Range(new.roots))

\* indexTree does that, whatever the root.
LEMMA TreeIndexes ==
  ASSUME fs \in FileSystems, NEW R, NEW I \in SUBSET DOMAIN fs, CoversDirs(fs, R, I),
         NEW r \in Path, r \in R
  PROVE  Indexes(fs, R, I, r, IndexTree(r, Begin(I)))
<1> DEFINE st == Begin(I)
           new == IndexTree(r, st)
           u == Parent(r)
<1>1. st \in Branches /\ st.indexed = I /\ st.failed = FALSE
  <2>1. I \in SUBSET Path
    BY SystemFacts
  <2> QED BY <2>1 DEF Begin, Branches
<1> HIDE DEF st
<1>2. ASSUME Place(fs, r) = r PROVE Indexes(fs, R, I, r, Walk(r, st))
  <2> DEFINE a == Walk(r, st)
  <2>1. Adds(fs, st, a, Reach(fs, I, r))
    BY <1>1, <1>2, AddsWalk
  <2> HIDE DEF a
  <2>2. /\ a \in Branches /\ a.failed = FALSE /\ a.indexed = Grown(fs, I, Reach(fs, I, r))
        /\ \A p \in a.indexed : p \in I \/ (LeadsIn(fs, p) => fs[Place(fs, p)].target \in Range(a.roots))
    BY <1>1, <2>1 DEF Adds
  <2>3. /\ a.indexed \subseteq DOMAIN fs /\ I \subseteq a.indexed
        /\ Covers(fs, R, a.indexed, r) /\ CoversDirs(fs, R, a.indexed)
    BY <2>2, WalkCovers
  <2>4. Covers(fs, R, a.indexed, Place(fs, r))
    BY <1>2, <2>3
  <2>5. Indexes(fs, R, I, r, a)
    BY <2>2, <2>3, <2>4 DEF Indexes
  <2> QED BY <2>5 DEF a
<1>3. Indexes(fs, R, I, r, Fail(st))
  <2> DEFINE a == Fail(st)
  <2>1. a \in Branches /\ a.failed = TRUE /\ a.indexed = I
    BY <1>1 DEF Fail, Branches
  <2> HIDE DEF a
  <2>2. Indexes(fs, R, I, r, a)
    BY <2>1 DEF Indexes
  <2> QED BY <2>2 DEF a
<1>4. ASSUME Eval(fs, r).error # "none" PROVE Indexes(fs, R, I, r, st)
  BY <1>1, <1>4 DEF Indexes
<1>5. ASSUME r # <<>>, Eval(fs, u).path # u, Eval(fs, r).error = "none"
      PROVE  Indexes(fs, R, I, r, IndexPaths(Ancestors(r), Walk(Eval(fs, r).path, st)))
  <2> DEFINE e == Eval(fs, r).path
             a == Walk(e, st)
             b == IndexPaths(Ancestors(r), a)
  <2>1. e \in DOMAIN fs /\ e \in Path /\ Place(fs, e) = e
    <3>1. Eval(fs, r).path \in DOMAIN fs
      BY <1>5, EvalFound
    <3> QED BY <3>1, PlaceFile
  <2> HIDE DEF e
  <2>2. Adds(fs, st, a, Reach(fs, I, e))
    BY <1>1, <2>1, AddsWalk
  <2> HIDE DEF a
  <2>3. /\ a \in Branches /\ a.failed = FALSE /\ a.indexed = Grown(fs, I, Reach(fs, I, e))
    BY <1>1, <2>2 DEF Adds
  <2>4. /\ a.indexed \subseteq DOMAIN fs /\ I \subseteq a.indexed
        /\ Covers(fs, R, a.indexed, e) /\ CoversDirs(fs, R, a.indexed)
    BY <2>1, <2>3, WalkCovers
  <2>5. Elements(fs, r) \subseteq DOMAIN fs /\ Adds(fs, a, b, Elements(fs, r))
    BY <1>5, <2>3, AddsAncestors
  <2> HIDE DEF b
  <2>6. b \in Branches /\ b.failed = FALSE /\ b.indexed = Grown(fs, a.indexed, Elements(fs, r))
    BY <2>3, <2>5 DEF Adds
  <2>7. Covers(fs, R, a.indexed, Eval(fs, r).path)
    BY <2>4 DEF e
  <2>8. /\ b.indexed \subseteq DOMAIN fs /\ a.indexed \subseteq b.indexed
        /\ Covers(fs, R, b.indexed, Place(fs, r)) /\ CoversDirs(fs, R, b.indexed)
    <3>1. a.indexed \in SUBSET DOMAIN fs /\ CoversDirs(fs, R, a.indexed)
      BY <2>4
    <3>2. Eval(fs, Parent(r)).path # Parent(r)
      BY <1>5
    <3> QED BY <1>5, <2>5, <2>6, <2>7, <3>1, <3>2, AncestorsCover
  <2>9. Adds(fs, st, b, Reach(fs, I, e) \cup Elements(fs, r))
    BY <1>1, <2>2, <2>5, AddsBoth
  <2>10. \A p \in b.indexed : p \in I \/ (LeadsIn(fs, p) => fs[Place(fs, p)].target \in Range(b.roots))
    BY <1>1, <2>9 DEF Adds
  <2>11. I \subseteq b.indexed
    BY <2>4, <2>8
  <2>12. Indexes(fs, R, I, r, b)
    BY <2>6, <2>8, <2>10, <2>11 DEF Indexes
  <2> QED BY <2>12 DEF b, a, e
<1>6. ASSUME r # <<>>, Eval(fs, u).path = u PROVE Place(fs, r) = r
  BY <1>6, ParentFacts DEF Place
<1>7. CASE r = <<>>
  <2>1. Place(fs, r) = r
    BY <1>7 DEF Place
  <2>2. IndexTree(r, st) = Walk(r, st)
    BY <1>7 DEF IndexTree
  <2> QED BY <1>2, <2>1, <2>2 DEF st
<1>8. CASE r # <<>> /\ Eval(fs, u).error # "none"
  <2>1. IndexTree(r, st) = Fail(st)
    BY <1>8, Within DEF IndexTree
  <2> QED BY <1>3, <2>1 DEF st
<1>9. CASE r # <<>> /\ Eval(fs, u).error = "none" /\ Eval(fs, u).path = u
  <2>1. IndexTree(r, st) = Walk(r, st)
    BY <1>9, Within DEF IndexTree
  <2> QED BY <1>2, <1>6, <1>9, <2>1 DEF st
<1>10. CASE r # <<>> /\ Eval(fs, u).error = "none" /\ Eval(fs, u).path # u
  <2>1. IndexTree(r, st) = IndexBranch(r, st)
    BY <1>10, Within DEF IndexTree
  <2>2. CASE Eval(fs, r).error = "missing"
    <3>1. IndexBranch(r, st) = st
      BY <2>2, Within DEF IndexBranch
    <3> QED BY <1>4, <2>1, <2>2, <3>1 DEF st
  <2>3. CASE Eval(fs, r).error \notin {"missing", "none"}
    <3>1. IndexBranch(r, st) = Fail(st)
      BY <2>3, Within DEF IndexBranch
    <3> QED BY <1>3, <2>1, <3>1 DEF st
  <2>4. CASE Eval(fs, r).error = "none"
    <3>1. IndexBranch(r, st) = IndexPaths(Ancestors(r), Walk(Eval(fs, r).path, st))
      BY <2>4, Within DEF IndexBranch
    <3> QED BY <1>5, <1>10, <2>1, <2>4, <3>1 DEF st
  <2> QED BY <2>2, <2>3, <2>4
<1> QED BY <1>7, <1>8, <1>9, <1>10

-----------------------------------------------------------------------------
(* The roots that are left.                                                *)

FreshTo(a, roots, N) == a = [i \in 0..N |-> IF i = 0 THEN <<>> ELSE NextRoots(a[i - 1], roots[i])]

\* Any number of roots can be added to the queue one after the other.
LEMMA FreshExist ==
  ASSUME NEW roots
  PROVE  \A N \in Nat : \E a : FreshTo(a, roots, N)
<1> DEFINE S == {N \in Nat : \E a : FreshTo(a, roots, N)}
<1>1. 0 \in S
  <2>1. FreshTo([i \in 0..0 |-> <<>>], roots, 0)
    BY DEF FreshTo
  <2> QED BY <2>1
<1>2. ASSUME NEW N \in Nat, N \in S PROVE N + 1 \in S
  <2>1. PICK a : FreshTo(a, roots, N)
    BY <1>2
  <2> DEFINE g == [i \in 0..(N + 1) |-> IF i <= N THEN a[i] ELSE NextRoots(a[N], roots[N + 1])]
  <2>2. \A i \in 0..N : g[i] = a[i] /\ a[i] = IF i = 0 THEN <<>> ELSE NextRoots(a[i - 1], roots[i])
    BY <2>1 DEF FreshTo
  <2>3. \A i \in 0..(N + 1) : g[i] = IF i = 0 THEN <<>> ELSE NextRoots(g[i - 1], roots[i])
    <3> SUFFICES ASSUME NEW i \in 0..(N + 1)
                 PROVE  g[i] = IF i = 0 THEN <<>> ELSE NextRoots(g[i - 1], roots[i])
      OBVIOUS
    <3>1. CASE i = N + 1
      BY <3>1, <2>2
    <3>2. CASE i \in 0..N
      <4> HIDE DEF g
      <4>1. i # 0 => i - 1 \in 0..N
        BY <3>2
      <4> QED BY <3>2, <2>2, <4>1
    <3> QED BY <3>1, <3>2
  <2>4. FreshTo(g, roots, N + 1)
    <3>1. g = [i \in 0..(N + 1) |-> g[i]]
      OBVIOUS
    <3> HIDE DEF g
    <3> QED BY <2>3, <3>1 DEF FreshTo
  <2> QED BY <2>4
<1>3. Nat \subseteq S
  <2> HIDE DEF S
  <2> QED BY <1>1, <1>2, Inductive
<1> QED BY <1>3

\* What is in a list of one.
LEMMA SingleRange ==
  ASSUME NEW X, NEW x \in X PROVE <<x>> \in Seq(X) /\ Range(<<x>>) = {x}
<1>1. DOMAIN <<x>> = 1..1 /\ <<x>>[1] = x
  OBVIOUS
<1> QED BY <1>1 DEF Range

\* Nothing is in an empty list.
LEMMA EmptyRange ==
  ASSUME NEW X PROVE <<>> \in Seq(X) /\ Range(<<>>) = {}
<1>1. DOMAIN <<>> = {}
  OBVIOUS
<1> QED BY <1>1 DEF Range

\* Each root that was not seen is in the queue, and nothing that is no root.
LEMMA FreshFacts ==
  ASSUME NEW roots \in Seq(Path)
  PROVE  /\ Fresh(roots) \in Seq(Path) /\ Range(Fresh(roots)) \subseteq Range(roots)
         /\ Range(roots) \subseteq seen \cup Range(Fresh(roots))
<1> DEFINE N == Len(roots)
           a == CHOOSE b : FreshTo(b, roots, N)
<1>0. N \in Nat /\ DOMAIN roots = 1..N /\ \A i \in 1..N : roots[i] \in Path
  OBVIOUS
<1>1. FreshTo(a, roots, N)
  <2>1. \E b : FreshTo(b, roots, N)
    BY <1>0, FreshExist
  <2> QED BY <2>1
<1>2. Fresh(roots) = a[N]
  BY Zenon DEF Fresh, FreshTo
<1> HIDE DEF a, N
<1>3. \A i \in 0..N : a[i] = IF i = 0 THEN <<>> ELSE NextRoots(a[i - 1], roots[i])
  BY <1>1 DEF FreshTo
<1>4. a[0] = <<>>
  <2>1. 0 \in 0..N
    BY <1>0
  <2> QED BY <1>3, <2>1, Zenon
<1> DEFINE First(k) == {roots[i] : i \in 1..k}
           Good(k) == /\ a[k] \in Seq(Path) /\ Range(a[k]) \subseteq Range(roots)
                      /\ First(k) \subseteq seen \cup Range(a[k])
           T == {k \in Nat : k <= N => Good(k)}
<1>5. 0 \in T
  <2>1. First(0) = {}
    OBVIOUS
  <2> HIDE DEF First
  <2>2. Good(0)
    BY <1>4, <2>1, EmptyRange
  <2> QED BY <2>2
<1>6. ASSUME NEW k \in Nat, k \in T PROVE k + 1 \in T
  <2> SUFFICES ASSUME k + 1 <= N PROVE Good(k + 1)
    OBVIOUS
  <2> DEFINE q == a[k]
             x == roots[k + 1]
  <2>1. Good(k)
    <3> HIDE DEF Good
    <3> QED BY <1>0, <1>6
  <2>2. k + 1 \in 0..N /\ k + 1 # 0 /\ (k + 1) - 1 = k /\ k + 1 \in 1..N
    BY <1>0
  <2>3. a[k + 1] = NextRoots(q, x)
    BY <1>3, <2>2
  <2>4. x \in Path /\ x \in Range(roots)
    BY <1>0, <2>2 DEF Range
  <2>5. First(k + 1) = First(k) \cup {x}
    <3>1. \A i \in 1..(k + 1) : i = k + 1 \/ i \in 1..k
      OBVIOUS
    <3>2. (\A i \in 1..k : i \in 1..(k + 1)) /\ k + 1 \in 1..(k + 1)
      OBVIOUS
    <3> QED BY <3>1, <3>2
  <2> HIDE DEF First, q, x
  <2>6. q \in Seq(Path) /\ Range(q) \subseteq Range(roots) /\ First(k) \subseteq seen \cup Range(q)
    BY <2>1 DEF q
  <2>7. CASE x \in seen \cup Range(q)
    <3>1. a[k + 1] = q
      BY <2>3, <2>7 DEF NextRoots
    <3> QED BY <2>5, <2>6, <2>7, <3>1
  <2>8. CASE x \notin seen \cup Range(q)
    <3>1. a[k + 1] = q \o <<x>>
      <4>1. a[k + 1] = Append(q, x)
        BY <2>3, <2>8 DEF NextRoots
      <4> QED BY <2>4, <2>6, <4>1
    <3>2. a[k + 1] \in Seq(Path) /\ Range(a[k + 1]) = Range(q) \cup {x}
      <4>1. <<x>> \in Seq(Path) /\ Range(<<x>>) = {x}
        BY <2>4, SingleRange
      <4> DEFINE t == <<x>>
      <4> HIDE DEF t
      <4>2. t \in Seq(Path) /\ Range(t) = {x} /\ a[k + 1] = q \o t
        BY <3>1, <4>1 DEF t
      <4> QED BY <2>6, <4>2, JoinRange
    <3> QED BY <2>4, <2>5, <2>6, <3>2
  <2> QED BY <2>7, <2>8
<1>7. Nat \subseteq T
  <2> HIDE DEF T
  <2> QED BY <1>5, <1>6, Inductive
<1>8. N \in T
  <2> HIDE DEF T
  <2> QED BY <1>0, <1>7
<1>9. Good(N)
  <2> HIDE DEF Good
  <2> QED BY <1>0, <1>8
<1>10. Range(roots) = First(N)
  BY <1>0 DEF Range
<1> HIDE DEF First
<1> QED BY <1>2, <1>9, <1>10

\* What is in the queue is its head and what is in its tail.
LEMMA QueueRange ==
  ASSUME NEW q \in Seq(Path), q # <<>>
  PROVE  /\ Head(q) \in Path /\ Tail(q) \in Seq(Path)
         /\ Range(q) = {Head(q)} \cup Range(Tail(q))
<1> DEFINE t == Tail(q)
<1>1. Len(q) \in Nat \ {0} /\ Head(q) = q[1] /\ q[1] \in Path
  OBVIOUS
<1>2. t \in Seq(Path) /\ Len(t) = Len(q) - 1 /\ \A i \in 1..(Len(q) - 1) : t[i] = q[i + 1]
  BY <1>1
<1> HIDE DEF t
<1>3. DOMAIN q = 1..Len(q) /\ DOMAIN t = 1..(Len(q) - 1)
  BY <1>2
<1>4. \A i \in 1..Len(q) : i = 1 \/ (i - 1 \in 1..(Len(q) - 1) /\ (i - 1) + 1 = i)
  BY <1>1
<1>5. \A i \in 1..(Len(q) - 1) : i + 1 \in 1..Len(q)
  BY <1>1
<1>6. ASSUME NEW i \in 1..Len(q) PROVE q[i] \in {Head(q)} \cup Range(t)
  <2>1. CASE i = 1
    BY <1>1, <2>1
  <2>2. CASE i # 1
    <3>1. i - 1 \in 1..(Len(q) - 1) /\ q[i] = t[i - 1]
      BY <1>2, <1>4, <2>2
    <3> QED BY <1>3, <3>1 DEF Range
  <2> QED BY <2>1, <2>2
<1>7. ASSUME NEW i \in 1..(Len(q) - 1) PROVE t[i] \in Range(q)
  BY <1>2, <1>3, <1>5 DEF Range
<1>8. Head(q) \in Range(q)
  <2>1. 1 \in 1..Len(q)
    BY <1>1
  <2> QED BY <1>1, <1>3, <2>1 DEF Range
<1>9. Range(q) = {Head(q)} \cup Range(t)
  BY <1>3, <1>6, <1>7, <1>8 DEF Range
<1> QED BY <1>1, <1>2, <1>9 DEF t

-----------------------------------------------------------------------------
(* The invariant.                                                          *)

IndexTypes ==
  /\ fs \in FileSystems
  /\ queue \in Seq(Path) /\ Range(queue) \subseteq seen \cup {Root}
  /\ seen \subseteq Path
  /\ indexed \subseteq DOMAIN fs
  /\ status = "indexed" => queue = <<>>

\* Where the links in the index lead was seen.
LinksSeen == \A p \in indexed : LeadsIn(fs, p) => fs[Place(fs, p)].target \in seen

\* What is below a directory in the index can be found, and what is below a
\* root that is no longer in the queue.
DirsCovered == CoversDirs(fs, seen \cup {Root}, indexed)

RootsCovered ==
  \A r \in (seen \cup {Root}) \ Range(queue) :
    Eval(fs, r).error = "none" => Covers(fs, seen \cup {Root}, indexed, Place(fs, r))

IndexInv == IndexTypes /\ LinksSeen /\ DirsCovered /\ RootsCovered

\* It holds of the index that is empty.
LEMMA IndexInitially == DirInit => IndexInv
<1> SUFFICES ASSUME DirInit PROVE IndexInv
  OBVIOUS
<1>1. fs \in FileSystems /\ Root \in Path /\ queue = <<Root>> /\ seen = {} /\ indexed = {} /\ status = "indexing"
  BY SystemFacts DEF DirInit
<1>2. queue \in Seq(Path) /\ Range(queue) = {Root}
  BY <1>1, SingleRange
<1>3. IndexTypes
  BY <1>1, <1>2 DEF IndexTypes
<1>4. LinksSeen /\ DirsCovered
  BY <1>1 DEF LinksSeen, DirsCovered, CoversDirs
<1>5. RootsCovered
  BY <1>1, <1>2 DEF RootsCovered
<1> QED BY <1>3, <1>4, <1>5 DEF IndexInv

\* A root.
LEMMA IndexRootStep == ASSUME IndexInv, IndexRoot PROVE IndexInv'
<1> DEFINE r == Head(queue)
           R == seen \cup {Root}
           new == IndexTree(r, Begin(indexed))
           Q == seen' \cup {Root}
<1>1. /\ fs \in FileSystems /\ queue \in Seq(Path) /\ Range(queue) \subseteq R
      /\ seen \subseteq Path /\ indexed \in SUBSET DOMAIN fs /\ CoversDirs(fs, R, indexed)
      /\ status = "indexing" /\ queue # <<>>
  BY DEF IndexInv, IndexTypes, DirsCovered, IndexRoot
<1>2. /\ r \in Path /\ r \in R /\ Tail(queue) \in Seq(Path)
      /\ Range(queue) = {r} \cup Range(Tail(queue))
  BY <1>1, QueueRange
<1>3. /\ fs' = fs /\ indexed' = new.indexed
      /\ status' = IF new.failed THEN "failed" ELSE status
      /\ queue' = IF new.failed THEN queue ELSE Tail(queue) \o Fresh(new.roots)
      /\ seen' = IF new.failed THEN seen ELSE seen \cup Range(new.roots)
  BY DEF IndexRoot, Begin
<1>4. Indexes(fs, R, indexed, r, new)
  BY <1>1, <1>2, TreeIndexes
<1> HIDE DEF r, new
<1>5. /\ new \in Branches /\ new.roots \in Seq(Path)
      /\ new.indexed \subseteq DOMAIN fs /\ indexed \subseteq new.indexed
      /\ CoversDirs(fs, R, new.indexed)
      /\ new.failed => new.indexed = indexed
      /\ ~new.failed /\ Eval(fs, r).error = "none" => Covers(fs, R, new.indexed, Place(fs, r))
      /\ \A p \in new.indexed : p \in indexed \/ (LeadsIn(fs, p) => fs[Place(fs, p)].target \in Range(new.roots))
  BY <1>4 DEF Indexes, Branches
<1>6. CASE new.failed
  <2>1. fs' = fs /\ indexed' = indexed /\ queue' = queue /\ seen' = seen /\ status' = "failed"
    BY <1>3, <1>5, <1>6
  <2>2. IndexTypes'
    BY <2>1 DEF IndexInv, IndexTypes
  <2>3. LinksSeen'
    BY <2>1 DEF IndexInv, LinksSeen
  <2>4. DirsCovered' /\ RootsCovered'
    BY <2>1 DEF IndexInv, DirsCovered, RootsCovered
  <2> QED BY <2>2, <2>3, <2>4 DEF IndexInv
<1>7. CASE ~new.failed
  <2>1. /\ fs' = fs /\ indexed' = new.indexed /\ status' = "indexing"
        /\ queue' = Tail(queue) \o Fresh(new.roots) /\ seen' = seen \cup Range(new.roots)
    BY <1>1, <1>3, <1>7
  <2>2. /\ Fresh(new.roots) \in Seq(Path) /\ Range(Fresh(new.roots)) \subseteq Range(new.roots)
        /\ Range(new.roots) \subseteq seen \cup Range(Fresh(new.roots))
    BY <1>5, FreshFacts
  <2>3. queue' \in Seq(Path) /\ Range(queue') = Range(Tail(queue)) \cup Range(Fresh(new.roots))
    <3> DEFINE t == Tail(queue)
               u == Fresh(new.roots)
    <3>1. t \in Seq(Path) /\ u \in Seq(Path) /\ queue' = t \o u
      BY <1>2, <2>1, <2>2
    <3> HIDE DEF t, u
    <3>2. queue' \in Seq(Path) /\ Range(queue') = Range(t) \cup Range(u)
      BY <3>1, JoinRange
    <3> QED BY <3>2 DEF t, u
  <2>4. Range(new.roots) \subseteq Path
    BY <1>5 DEF Range
  <2>5. IndexTypes'
    <3>1. Range(queue') \subseteq seen' \cup {Root}
      BY <1>1, <1>2, <2>1, <2>2, <2>3
    <3> QED BY <1>1, <1>5, <2>1, <2>3, <2>4, <3>1 DEF IndexTypes
  <2>6. LinksSeen'
    <3>1. \A p \in indexed : LeadsIn(fs, p) => fs[Place(fs, p)].target \in seen
      BY DEF IndexInv, LinksSeen
    <3>2. \A p \in new.indexed : LeadsIn(fs, p) => fs[Place(fs, p)].target \in seen'
      BY <1>5, <2>1, <3>1
    <3> QED BY <2>1, <3>2 DEF LinksSeen
  <2>7. R \subseteq Q
    BY <2>1
  <2> HIDE DEF R, Q
  <2>8. CoversDirs(fs, Q, new.indexed)
    BY <1>5, <2>7, CoversMore DEF CoversDirs
  <2>9. DirsCovered'
    BY <2>1, <2>8 DEF DirsCovered, Q
  <2>10. ASSUME NEW x \in Q \ Range(queue'), Eval(fs, x).error = "none"
         PROVE  Covers(fs, Q, new.indexed, Place(fs, x))
    <3>1. CASE x = r
      <4>1. Covers(fs, R, new.indexed, Place(fs, x))
        BY <1>5, <1>7, <2>10, <3>1
      <4> QED BY <2>7, <4>1, CoversMore
    <3>2. CASE x # r /\ x \in R
      <4>1. x \in R \ Range(queue)
        BY <1>2, <2>3, <3>2
      <4>2. Covers(fs, R, indexed, Place(fs, x))
        BY <2>10, <4>1 DEF IndexInv, RootsCovered, R
      <4> QED BY <1>5, <2>7, <4>2, CoversMore
    <3>3. CASE x \notin R
      BY <2>1, <2>2, <2>3, <3>3 DEF Q, R
    <3> QED BY <3>1, <3>2, <3>3
  <2>11. RootsCovered'
    BY <2>1, <2>10 DEF RootsCovered, Q
  <2> QED BY <2>5, <2>6, <2>9, <2>11 DEF IndexInv
<1> QED BY <1>6, <1>7

\* Every step keeps it.
LEMMA IndexStep == IndexInv /\ [DirNext]_dirVars => IndexInv'
<1> SUFFICES ASSUME IndexInv, [DirNext]_dirVars PROVE IndexInv'
  OBVIOUS
<1>1. CASE IndexRoot
  BY <1>1, IndexRootStep
<1>2. CASE Finish \/ UNCHANGED dirVars
  <2>1. /\ fs' = fs /\ indexed' = indexed /\ queue' = queue /\ seen' = seen
        /\ status' = "indexed" => queue = <<>>
    BY <1>2 DEF Finish, dirVars, IndexInv, IndexTypes
  <2>2. IndexTypes'
    BY <2>1 DEF IndexInv, IndexTypes
  <2>3. LinksSeen'
    BY <2>1 DEF IndexInv, LinksSeen
  <2>4. DirsCovered' /\ RootsCovered'
    BY <2>1 DEF IndexInv, DirsCovered, RootsCovered
  <2> QED BY <2>2, <2>3, <2>4 DEF IndexInv
<1> QED BY <1>1, <1>2 DEF DirNext

\* The invariant, for every file system, root and exclusion (indexAllRoots).
THEOREM IndexInvariant == DirSpec => []IndexInv
<1> QED BY IndexInitially, IndexStep, PTL DEF DirSpec

\* What the links in the index lead to can be found, and nothing is found twice.
LEMMA IsFoundOnce == IndexInv => FoundOnce
<1> SUFFICES ASSUME IndexInv PROVE FoundOnce
  OBVIOUS
<1>1. /\ fs \in FileSystems /\ seen \subseteq Path /\ indexed \subseteq DOMAIN fs
      /\ status = "indexed" => queue = <<>>
  BY DEF IndexInv, IndexTypes
<1>2. Canonical
  BY <1>1, PlaceFile, Within DEF Canonical
<1>3. ASSUME status = "indexed", NEW r \in Sought, EvalSymlinks(r).error = "none", NEW q \in Below(Located(r))
      PROVE  q \in indexed \/ OnTheWay(q)
  <2>1. Eval(fs, r).error = "none" /\ q \in BelowIn(fs, Place(fs, r))
    BY <1>3, Within DEF Below, BelowIn
  <2>2. r \in seen \cup {Root}
    <3>1. CASE r = Root
      BY <3>1
    <3>2. CASE r # Root
      <4>1. PICK p \in indexed : Lstat(p).type = "link" /\ r = Lstat(p).target
        BY <1>3, <3>2 DEF Sought
      <4>2. LeadsIn(fs, p)
        BY <2>1, <4>1, Within DEF LeadsIn
      <4>3. fs[Place(fs, p)].target \in seen
        BY <4>1, <4>2 DEF IndexInv, LinksSeen
      <4> QED BY <4>1, <4>3, Within
    <3> QED BY <3>1, <3>2
  <2>3. r \notin Range(queue)
    BY <1>1, <1>3, EmptyRange
  <2>4. Covers(fs, seen \cup {Root}, indexed, Place(fs, r))
    BY <2>1, <2>2, <2>3 DEF IndexInv, RootsCovered
  <2>5. q \in indexed \/ WayIn(fs, seen \cup {Root}, q)
    BY <2>1, <2>4 DEF Covers
  <2>6. ASSUME WayIn(fs, seen \cup {Root}, q) PROVE OnTheWay(q)
    <3>1. PICK x \in seen \cup {Root} :
            /\ Eval(fs, x).error = "none" /\ Eval(fs, Parent(x)).path # Parent(x)
            /\ \E n \in 1..(Len(x) - 1) : IsPrefix(Place(fs, SubSeq(x, 1, n)), q)
      BY <2>6 DEF WayIn
    <3>2. PICK n \in 1..(Len(x) - 1) : IsPrefix(Place(fs, SubSeq(x, 1, n)), q)
      BY <3>1
    <3>3. x \in Path
      BY <1>1, SystemFacts
    <3>4. Len(x) \in Nat
      BY <3>3 DEF Path
    <3>5. n \in 1..Len(x)
      BY <3>4
    <3>6. Ancestors(x)[n] = Place(fs, SubSeq(x, 1, n))
      BY <3>5, Within DEF Ancestors
    <3>7. IsPrefix(Ancestors(x)[n], q)
      BY <3>2, <3>6
    <3>8. EvalSymlinks(x).error = "none" /\ EvalSymlinks(Parent(x)).path # Parent(x)
      BY <3>1, Within
    <3> QED BY <3>7, <3>8 DEF OnTheWay
  <2> QED BY <2>5, <2>6
<1>4. CompleteOffTheWay
  BY <1>3 DEF CompleteOffTheWay
<1> QED BY <1>2, <1>4 DEF FoundOnce

\* Whatever the links of a directory are, everything that the index is to find is
\* found in it, at one place, but for what is on the way to a root.
THEOREM IndexFoundOnce == DirSpec => []FoundOnce
<1> QED BY IndexInvariant, IsFoundOnce, PTL

-----------------------------------------------------------------------------
(* Images: lists.                                                          *)

LEMMA MembersList ==
  ASSUME NEW S, NEW s \in Seq(S)
  PROVE  IsList(s)
<1>1. \A i \in 1..Len(s) : s[i] \in Range(s)
  BY DEF Range
<1> QED BY <1>1 DEF IsList

LEMMA SameList ==
  ASSUME NEW S, NEW s \in Seq(S), NEW t \in Seq(S), Len(s) = Len(t),
         \A i \in 1..Len(s) : s[i] = t[i]
  PROVE  s = t
OBVIOUS

LEMMA ListBegin ==
  ASSUME NEW S, NEW s \in Seq(S), NEW n \in 0..Len(s)
  PROVE  /\ SubSeq(s, 1, n) \in Seq(S) /\ Len(SubSeq(s, 1, n)) = n
         /\ \A i \in 1..n : SubSeq(s, 1, n)[i] = s[i]
OBVIOUS

LEMMA ListParts ==
  ASSUME NEW p, IsList(p), p # <<>>
  PROVE  /\ Len(p) \in Nat /\ Len(p) > 0 /\ Len(Front(p)) = Len(p) - 1
         /\ IsList(Front(p)) /\ p = Append(Front(p), Last(p))
<1> DEFINE S == Range(p)
           n == Len(p)
<1>1. p \in Seq(S) /\ n \in Nat /\ n > 0
  BY DEF IsList
<1>2. n - 1 \in 0..n /\ n \in 1..n
  BY <1>1
<1> HIDE DEF S
<1>3. /\ Front(p) \in Seq(S) /\ Len(Front(p)) = n - 1
      /\ \A i \in 1..(n - 1) : Front(p)[i] = p[i]
  BY <1>1, <1>2, ListBegin DEF Front
<1>4. Last(p) \in S /\ Last(p) = p[n]
  BY <1>1, <1>2 DEF Last
<1> DEFINE q == Append(Front(p), Last(p))
<1>5. /\ q \in Seq(S) /\ Len(q) = n /\ q[n] = Last(p)
      /\ \A i \in 1..(n - 1) : q[i] = Front(p)[i]
  BY <1>1, <1>3, <1>4
<1> HIDE DEF q
<1>6. \A i \in 1..n : i = n \/ i \in 1..(n - 1)
  BY <1>1
<1>7. q = p
  BY <1>1, <1>3, <1>4, <1>5, <1>6, SameList
<1> QED BY <1>1, <1>3, <1>7, MembersList DEF q

LEMMA LongerList ==
  ASSUME NEW p, IsList(p), NEW n
  PROVE  /\ IsList(Append(p, n)) /\ Append(p, n) # <<>>
         /\ Front(Append(p, n)) = p /\ Last(Append(p, n)) = n
         /\ Len(Append(p, n)) = Len(p) + 1 /\ Len(p) \in Nat
         /\ \A k \in 1..Len(p) : Append(p, n)[k] = p[k]
<1> DEFINE S == Range(p) \cup {n}
           q == Append(p, n)
<1>1. p \in Seq(S) /\ n \in S /\ Len(p) \in Nat
  BY DEF IsList
<1> HIDE DEF S
<1>2. /\ q \in Seq(S) /\ Len(q) = Len(p) + 1 /\ q[Len(p) + 1] = n
      /\ \A k \in 1..Len(p) : q[k] = p[k]
  BY <1>1
<1> HIDE DEF q
<1>3. q # <<>> /\ Last(q) = n
  BY <1>1, <1>2 DEF Last
<1>4. Len(p) \in 0..Len(q) /\ Len(q) - 1 = Len(p)
  BY <1>1, <1>2
<1>5. Front(q) = p
  BY <1>1, <1>2, <1>4, ListBegin, SameList DEF Front
<1> QED BY <1>1, <1>2, <1>3, <1>5, MembersList DEF q

LEMMA EmptyList == IsList(<<>>) /\ Len(<<>>) = 0
BY DEF IsList

-----------------------------------------------------------------------------
(* Images: the search.                                                     *)

\* f is where one is after each name of a path.
Descents(f, tree, p, w, N) ==
  f = [k \in 0..N |-> IF k = 0 THEN Slash
                      ELSE Descend(tree, f[k - 1], p[k], w)]

LEMMA DescentsExist ==
  ASSUME NEW tree, NEW p, NEW w
  PROVE  \A N \in Nat : \E f : Descents(f, tree, p, w, N)
<1> DEFINE S == {N \in Nat : \E f : Descents(f, tree, p, w, N)}
           First == Slash
           Next(v, k) == Descend(tree, v, p[k], w)
<1>1. 0 \in S
  <2>1. Descents([k \in 0..0 |-> First], tree, p, w, 0)
    BY DEF Descents
  <2> QED BY <2>1
<1>2. ASSUME NEW N \in Nat, N \in S PROVE N + 1 \in S
  <2>1. PICK f : Descents(f, tree, p, w, N)
    BY <1>2
  <2> DEFINE g == [k \in 0..(N + 1) |-> IF k <= N THEN f[k] ELSE Next(f[N], N + 1)]
  <2>2. \A k \in 0..N : g[k] = f[k] /\ f[k] = IF k = 0 THEN First ELSE Next(f[k - 1], k)
    <3>1. \A k \in 0..N : g[k] = f[k]
      <4> HIDE DEF Next
      <4> QED OBVIOUS
    <3> HIDE DEF g
    <3> QED BY <2>1, <3>1 DEF Descents
  <2>3. g[N + 1] = Next(f[N], N + 1)
    <3> HIDE DEF Next
    <3> QED OBVIOUS
  <2>4. \A k \in 0..(N + 1) : g[k] = IF k = 0 THEN First ELSE Next(g[k - 1], k)
    <3> SUFFICES ASSUME NEW k \in 0..(N + 1)
                 PROVE  g[k] = IF k = 0 THEN First ELSE Next(g[k - 1], k)
      OBVIOUS
    <3> HIDE DEF g, First, Next
    <3>1. CASE k = N + 1
      BY <3>1, <2>2, <2>3
    <3>2. CASE k \in 0..N
      <4>1. k # 0 => k - 1 \in 0..N
        BY <3>2
      <4> QED BY <3>2, <2>2, <4>1
    <3> QED BY <3>1, <3>2
  <2>5. Descents(g, tree, p, w, N + 1)
    <3>1. g = [k \in 0..(N + 1) |-> g[k]]
      OBVIOUS
    <3> HIDE DEF g
    <3> QED BY <2>4, <3>1 DEF Descents
  <2> QED BY <2>5
<1>3. Nat \subseteq S
  <2> HIDE DEF S
  <2> QED BY <1>1, <1>2, Inductive
<1> QED BY <1>3

LEMMA WayDef ==
  ASSUME NEW tree, NEW p, NEW w, Len(p) \in Nat
  PROVE  \E f : Descents(f, tree, p, w, Len(p)) /\ Way(tree, p, w) = f[Len(p)]
<1> DEFINE f == CHOOSE g : Descents(g, tree, p, w, Len(p))
<1>1. Descents(f, tree, p, w, Len(p))
  <2>1. \E g : Descents(g, tree, p, w, Len(p))
    BY DescentsExist
  <2> QED BY <2>1
<1>2. Way(tree, p, w) = f[Len(p)]
  BY Zenon DEF Way, Descents
<1> QED BY <1>1, <1>2

LEMMA WayEmpty ==
  ASSUME NEW tree, NEW w
  PROVE  Way(tree, <<>>, w) = Slash
<1>1. PICK f : Descents(f, tree, <<>>, w, 0) /\ Way(tree, <<>>, w) = f[0]
  BY WayDef, EmptyList
<1> QED BY <1>1 DEF Descents

LEMMA WayFurther ==
  ASSUME NEW tree, NEW p, IsList(p), NEW n, NEW w
  PROVE  Way(tree, Append(p, n), w) = Descend(tree, Way(tree, p, w), n, w)
<1> DEFINE q == Append(p, n)
           N == Len(p)
<1>1. /\ IsList(q) /\ Last(q) = n /\ Len(q) = N + 1 /\ N \in Nat
      /\ \A k \in 1..N : q[k] = p[k]
  BY LongerList
<1>2. q[N + 1] = n
  BY <1>1 DEF Last
<1> HIDE DEF q
<1>3. PICK f : Descents(f, tree, p, w, N) /\ Way(tree, p, w) = f[N]
  BY <1>1, WayDef
<1>4. PICK g : Descents(g, tree, q, w, N + 1) /\ Way(tree, q, w) = g[N + 1]
  BY <1>1, WayDef
<1>5. \A k \in 0..N : f[k] = IF k = 0 THEN Slash ELSE Descend(tree, f[k - 1], p[k], w)
  BY <1>3 DEF Descents
<1>6. \A k \in 0..(N + 1) : g[k] = IF k = 0 THEN Slash ELSE Descend(tree, g[k - 1], q[k], w)
  BY <1>4 DEF Descents
<1> DEFINE S == {k \in Nat : k <= N => f[k] = g[k]}
<1>7. 0 \in S
  BY <1>1, <1>5, <1>6
<1>8. ASSUME NEW k \in Nat, k \in S PROVE k + 1 \in S
  <2> SUFFICES ASSUME k + 1 <= N PROVE f[k + 1] = g[k + 1]
    OBVIOUS
  <2>1. f[k] = g[k] /\ k + 1 \in 1..N /\ (k + 1) - 1 = k /\ k + 1 # 0
    BY <1>1, <1>8
  <2>2. k + 1 \in 0..N /\ k + 1 \in 0..(N + 1)
    BY <1>1, <2>1
  <2>3. f[k + 1] = Descend(tree, f[k], p[k + 1], w)
    BY <1>5, <2>1, <2>2
  <2>4. g[k + 1] = Descend(tree, g[k], q[k + 1], w)
    BY <1>6, <2>1, <2>2
  <2> QED BY <1>1, <2>1, <2>3, <2>4
<1>9. Nat \subseteq S
  <2> HIDE DEF S
  <2> QED BY <1>7, <1>8, Inductive
<1>10. f[N] = g[N]
  BY <1>1, <1>9
<1>11. g[N + 1] = Descend(tree, g[N], q[N + 1], w)
  <2>1. N + 1 \in 0..(N + 1) /\ N + 1 # 0 /\ (N + 1) - 1 = N
    BY <1>1
  <2> QED BY <1>6, <2>1
<1> QED BY <1>2, <1>3, <1>4, <1>10, <1>11 DEF q

\* f is where links lead, if so many may be followed.
LinksTo(f, tree, N) ==
  f = [k \in 0..N |-> IF k = 0 THEN [t \in LinkTargets |-> Circle]
                      ELSE [t \in LinkTargets |-> Way(tree, t, f[k - 1])]]

LEMMA LinksToExist ==
  ASSUME NEW tree
  PROVE  \A N \in Nat : \E f : LinksTo(f, tree, N)
<1> DEFINE S == {N \in Nat : \E f : LinksTo(f, tree, N)}
           First == [t \in LinkTargets |-> Circle]
           Next(v, k) == [t \in LinkTargets |-> Way(tree, t, v)]
<1>1. 0 \in S
  <2>1. LinksTo([k \in 0..0 |-> First], tree, 0)
    BY DEF LinksTo
  <2> QED BY <2>1
<1>2. ASSUME NEW N \in Nat, N \in S PROVE N + 1 \in S
  <2>1. PICK f : LinksTo(f, tree, N)
    BY <1>2
  <2> DEFINE g == [k \in 0..(N + 1) |-> IF k <= N THEN f[k] ELSE Next(f[N], N + 1)]
  <2>2. \A k \in 0..N : g[k] = f[k] /\ f[k] = IF k = 0 THEN First ELSE Next(f[k - 1], k)
    <3>1. \A k \in 0..N : g[k] = f[k]
      <4> HIDE DEF Next
      <4> QED OBVIOUS
    <3> HIDE DEF g
    <3> QED BY <2>1, <3>1 DEF LinksTo
  <2>3. g[N + 1] = Next(f[N], N + 1)
    <3> HIDE DEF Next
    <3> QED OBVIOUS
  <2>4. \A k \in 0..(N + 1) : g[k] = IF k = 0 THEN First ELSE Next(g[k - 1], k)
    <3> SUFFICES ASSUME NEW k \in 0..(N + 1)
                 PROVE  g[k] = IF k = 0 THEN First ELSE Next(g[k - 1], k)
      OBVIOUS
    <3> HIDE DEF g, First, Next
    <3>1. CASE k = N + 1
      BY <3>1, <2>2, <2>3
    <3>2. CASE k \in 0..N
      <4>1. k # 0 => k - 1 \in 0..N
        BY <3>2
      <4> QED BY <3>2, <2>2, <4>1
    <3> QED BY <3>1, <3>2
  <2>5. LinksTo(g, tree, N + 1)
    <3>1. g = [k \in 0..(N + 1) |-> g[k]]
      OBVIOUS
    <3> HIDE DEF g
    <3> QED BY <2>4, <3>1 DEF LinksTo
  <2> QED BY <2>5
<1>3. Nat \subseteq S
  <2> HIDE DEF S
  <2> QED BY <1>1, <1>2, Inductive
<1> QED BY <1>3

LEMMA FollowedDef ==
  ASSUME NEW tree, NEW h \in 0..MaxHops
  PROVE  Followed(tree, h) = IF h = 0 THEN [t \in LinkTargets |-> Circle]
                             ELSE [t \in LinkTargets |-> Way(tree, t, Followed(tree, h - 1))]
<1> DEFINE f == CHOOSE g : LinksTo(g, tree, MaxHops)
<1>0. MaxHops \in Nat
  BY ImagesAssumption
<1>1. LinksTo(f, tree, MaxHops)
  <2>1. \E g : LinksTo(g, tree, MaxHops)
    BY <1>0, LinksToExist
  <2> QED BY <2>1
<1>2. \A k : Followed(tree, k) = f[k]
  BY Zenon DEF Followed, LinksTo
<1> HIDE DEF f
<1>3. f[h] = IF h = 0 THEN [t \in LinkTargets |-> Circle]
             ELSE [t \in LinkTargets |-> Way(tree, t, f[h - 1])]
  BY <1>1 DEF LinksTo
<1> QED BY <1>2, <1>3

\* The same, where links that end nowhere are kept.
LivingTo(f, tree, N) ==
  f = [k \in 0..N |-> IF k = 0 THEN [t \in LinkTargets |-> Circle]
                      ELSE [t \in LinkTargets |-> OrLink(tree, t, Followed(tree, k - 1), f[k - 1])]]

LEMMA LivingToExist ==
  ASSUME NEW tree
  PROVE  \A N \in Nat : \E f : LivingTo(f, tree, N)
<1> DEFINE S == {N \in Nat : \E f : LivingTo(f, tree, N)}
           First == [t \in LinkTargets |-> Circle]
           Next(v, k) == [t \in LinkTargets |-> OrLink(tree, t, Followed(tree, k - 1), v)]
<1>1. 0 \in S
  <2>1. LivingTo([k \in 0..0 |-> First], tree, 0)
    BY DEF LivingTo
  <2> QED BY <2>1
<1>2. ASSUME NEW N \in Nat, N \in S PROVE N + 1 \in S
  <2>1. PICK f : LivingTo(f, tree, N)
    BY <1>2
  <2> DEFINE g == [k \in 0..(N + 1) |-> IF k <= N THEN f[k] ELSE Next(f[N], N + 1)]
  <2>2. \A k \in 0..N : g[k] = f[k] /\ f[k] = IF k = 0 THEN First ELSE Next(f[k - 1], k)
    <3>1. \A k \in 0..N : g[k] = f[k]
      <4> HIDE DEF Next
      <4> QED OBVIOUS
    <3> HIDE DEF g
    <3> QED BY <2>1, <3>1 DEF LivingTo
  <2>3. g[N + 1] = Next(f[N], N + 1)
    <3> HIDE DEF Next
    <3> QED OBVIOUS
  <2>4. \A k \in 0..(N + 1) : g[k] = IF k = 0 THEN First ELSE Next(g[k - 1], k)
    <3> SUFFICES ASSUME NEW k \in 0..(N + 1)
                 PROVE  g[k] = IF k = 0 THEN First ELSE Next(g[k - 1], k)
      OBVIOUS
    <3> HIDE DEF g, First, Next
    <3>1. CASE k = N + 1
      BY <3>1, <2>2, <2>3
    <3>2. CASE k \in 0..N
      <4>1. k # 0 => k - 1 \in 0..N
        BY <3>2
      <4> QED BY <3>2, <2>2, <4>1
    <3> QED BY <3>1, <3>2
  <2>5. LivingTo(g, tree, N + 1)
    <3>1. g = [k \in 0..(N + 1) |-> g[k]]
      OBVIOUS
    <3> HIDE DEF g
    <3> QED BY <2>4, <3>1 DEF LivingTo
  <2> QED BY <2>5
<1>3. Nat \subseteq S
  <2> HIDE DEF S
  <2> QED BY <1>1, <1>2, Inductive
<1> QED BY <1>3

LEMMA LivingDef ==
  ASSUME NEW tree, NEW h \in 0..MaxHops
  PROVE  Living(tree, h) =
           IF h = 0 THEN [t \in LinkTargets |-> Circle]
           ELSE [t \in LinkTargets |-> OrLink(tree, t, Followed(tree, h - 1), Living(tree, h - 1))]
<1> DEFINE f == CHOOSE g : LivingTo(g, tree, MaxHops)
<1>0. MaxHops \in Nat
  BY ImagesAssumption
<1>1. LivingTo(f, tree, MaxHops)
  <2>1. \E g : LivingTo(g, tree, MaxHops)
    BY <1>0, LivingToExist
  <2> QED BY <2>1
<1>2. \A k : Living(tree, k) = f[k]
  BY Zenon DEF Living, LivingTo
<1> HIDE DEF f
<1>3. f[h] = IF h = 0 THEN [t \in LinkTargets |-> Circle]
             ELSE [t \in LinkTargets |-> OrLink(tree, t, Followed(tree, h - 1), f[h - 1])]
  BY <1>1 DEF LivingTo
<1> QED BY <1>2, <1>3

-----------------------------------------------------------------------------
(* Images: trees.                                                          *)

Scene == layers \in Images /\ squashes = SquashesOf(layers)

\* A tree of layers up to the n-th.
IsTree(tree, n) ==
  \A p \in Paths : tree[p] = Nowhere \/ \E j \in 1..n : tree[p] = <<j, p>> /\ Brings(layers[j], p)

\* What is in it is in a directory.
InDirs(tree) ==
  \A p \in Paths : tree[p] # Nowhere /\ Len(p) > 1 =>
    Front(p) \in Paths /\ Is(tree[Front(p)], "dir")

LEMMA SceneFacts ==
  ASSUME Scene
  PROVE  /\ IsImage(layers) /\ Top \in Nat \ {0} /\ DOMAIN layers = 1..Top
         /\ \A i \in 1..Top : layers[i] \in Range(layers)
         /\ \A t \in LinkTargets : IsList(t)
<1>1. IsImage(layers)
  BY ImagesAssumption DEF Scene
<1>2. layers \in Seq(Range(layers)) /\ layers # <<>>
  BY <1>1 DEF IsImage, IsList
<1>3. Top \in Nat \ {0} /\ DOMAIN layers = 1..Top
  BY <1>2 DEF Top
<1>4. \A i \in 1..Top : layers[i] \in Range(layers)
  BY <1>3 DEF Range
<1>5. \A t \in LinkTargets : IsList(t)
  BY <1>1, <1>3, <1>4 DEF LinkTargets, IsImage
<1> QED BY <1>1, <1>3, <1>4, <1>5

LEMMA PathFacts ==
  ASSUME NEW p \in Paths
  PROVE  IsList(p) /\ p # <<>>
BY ImagesAssumption

\* What is Nowhere, a file, a link or a directory.
LEMMA RefFacts ==
  ASSUME Scene, NEW n \in 1..Top, NEW tree, IsTree(tree, n), NEW p \in Paths, tree[p] # Nowhere
  PROVE  /\ tree[p] = <<tree[p][1], p>> /\ tree[p][1] \in 1..n /\ tree[p][1] \in 1..Top
         /\ tree[p] \notin {Slash, Nowhere, Circle}
         /\ EntryOf(tree[p]) = layers[tree[p][1]][p]
         /\ Brings(layers[tree[p][1]], p)
         /\ EntryOf(tree[p]).target \in LinkTargets
<1>1. PICK j \in 1..n : tree[p] = <<j, p>> /\ Brings(layers[j], p)
  BY DEF IsTree
<1>2. Top \in Nat \ {0} /\ DOMAIN layers = 1..Top
  BY SceneFacts
<1>3. j \in 1..Top /\ tree[p][1] = j /\ tree[p][2] = p /\ j # 0
  BY <1>1, <1>2
<1>4. tree[p] \notin {Slash, Nowhere, Circle}
  BY <1>1, <1>3 DEF Slash, Nowhere, Circle
<1>5. EntryOf(tree[p]) = layers[j][p]
  BY <1>3 DEF EntryOf
<1>6. layers[j][p].target \in LinkTargets
  BY <1>2, <1>3 DEF LinkTargets
<1> QED BY <1>1, <1>3, <1>4, <1>5, <1>6

LEMMA NowhereIs ==
  \A type : ~Is(Nowhere, type) /\ ~Is(Slash, type) /\ ~Is(Circle, type)
BY DEF Is, Nowhere, Slash, Circle

LEMMA OwnTrees ==
  ASSUME Scene, NEW i \in 1..Top
  PROVE  IsTree(OwnTree(i), i)
<1>1. Top \in Nat \ {0}
  BY SceneFacts
<1>2. \A p \in Paths : OwnTree(i)[p] = IF Brings(layers[i], p) THEN <<i, p>> ELSE Nowhere
  BY DEF OwnTree
<1>3. i \in 1..i
  BY <1>1
<1> QED BY <1>2, <1>3 DEF IsTree

\* f has the trees of the layers of an image, squashed one after the other.
SquashTo(f, image, N) ==
  f = [k \in 0..N |-> IF k = 0 THEN [p \in Paths |-> Nowhere]
                      ELSE SquashOnto(f[k - 1], k, image[k])]

LEMMA SquashExist ==
  ASSUME NEW image
  PROVE  \A N \in Nat : \E f : SquashTo(f, image, N)
<1> DEFINE S == {N \in Nat : \E f : SquashTo(f, image, N)}
           First == [p \in Paths |-> Nowhere]
           Next(v, k) == SquashOnto(v, k, image[k])
<1>1. 0 \in S
  <2>1. SquashTo([k \in 0..0 |-> First], image, 0)
    BY DEF SquashTo
  <2> QED BY <2>1
<1>2. ASSUME NEW N \in Nat, N \in S PROVE N + 1 \in S
  <2>1. PICK f : SquashTo(f, image, N)
    BY <1>2
  <2> DEFINE g == [k \in 0..(N + 1) |-> IF k <= N THEN f[k] ELSE Next(f[N], N + 1)]
  <2>2. \A k \in 0..N : g[k] = f[k] /\ f[k] = IF k = 0 THEN First ELSE Next(f[k - 1], k)
    <3>1. \A k \in 0..N : g[k] = f[k]
      <4> HIDE DEF Next
      <4> QED OBVIOUS
    <3> HIDE DEF g
    <3> QED BY <2>1, <3>1 DEF SquashTo
  <2>3. g[N + 1] = Next(f[N], N + 1)
    <3> HIDE DEF Next
    <3> QED OBVIOUS
  <2>4. \A k \in 0..(N + 1) : g[k] = IF k = 0 THEN First ELSE Next(g[k - 1], k)
    <3> SUFFICES ASSUME NEW k \in 0..(N + 1)
                 PROVE  g[k] = IF k = 0 THEN First ELSE Next(g[k - 1], k)
      OBVIOUS
    <3> HIDE DEF g, First, Next
    <3>1. CASE k = N + 1
      BY <3>1, <2>2, <2>3
    <3>2. CASE k \in 0..N
      <4>1. k # 0 => k - 1 \in 0..N
        BY <3>2
      <4> QED BY <3>2, <2>2, <4>1
    <3> QED BY <3>1, <3>2
  <2>5. SquashTo(g, image, N + 1)
    <3>1. g = [k \in 0..(N + 1) |-> g[k]]
      OBVIOUS
    <3> HIDE DEF g
    <3> QED BY <2>4, <3>1 DEF SquashTo
  <2> QED BY <2>5
<1>3. Nat \subseteq S
  <2> HIDE DEF S
  <2> QED BY <1>1, <1>2, Inductive
<1> QED BY <1>3

LEMMA SquashesDef ==
  ASSUME Scene
  PROVE  \E f : /\ f[0] = [p \in Paths |-> Nowhere]
                /\ \A k \in 1..Top : f[k] = SquashOnto(f[k - 1], k, layers[k])
                /\ \A k \in 1..Top : squashes[k] = f[k]
<1> DEFINE f == CHOOSE g : SquashTo(g, layers, Top)
<1>1. Top \in Nat \ {0} /\ squashes = SquashesOf(layers) /\ Top = Len(layers)
  BY SceneFacts DEF Scene, Top
<1>2. SquashTo(f, layers, Top)
  <2>1. \E g : SquashTo(g, layers, Top)
    BY <1>1, SquashExist
  <2> QED BY <2>1
<1>3. SquashesOf(layers) = [i \in 1..Top |-> f[i]]
  BY Zenon DEF SquashesOf, SquashTo, Top
<1> HIDE DEF f
<1>4. \A k \in 0..Top : f[k] = IF k = 0 THEN [p \in Paths |-> Nowhere]
                               ELSE SquashOnto(f[k - 1], k, layers[k])
  BY <1>2 DEF SquashTo
<1>5. f[0] = [p \in Paths |-> Nowhere]
  BY <1>1, <1>4
<1>6. ASSUME NEW k \in 1..Top PROVE f[k] = SquashOnto(f[k - 1], k, layers[k])
  <2>1. k \in 0..Top /\ k # 0
    BY <1>1
  <2> QED BY <1>4, <2>1
<1>7. \A k \in 1..Top : squashes[k] = f[k]
  BY <1>1, <1>3
<1> QED BY <1>5, <1>6, <1>7

LEMMA FrontPrefix ==
  ASSUME NEW p, IsList(p), p # <<>>
  PROVE  /\ IsPrefix(Front(p), p)
         /\ \A q : IsList(q) /\ IsPrefix(q, Front(p)) => IsPrefix(q, p)
<1> DEFINE S == Range(p)
           d == Front(p)
<1>1. /\ p \in Seq(S) /\ Len(p) \in Nat /\ Len(p) > 0 /\ Len(d) = Len(p) - 1
  BY ListParts DEF IsList
<1> HIDE DEF S
<1>2. Len(p) - 1 \in 0..Len(p) /\ Len(d) \in 0..Len(p) /\ Len(d) \in Nat /\ Len(d) <= Len(p)
  BY <1>1
<1>3. d \in Seq(S) /\ \A i \in 1..Len(d) : d[i] = p[i]
  BY <1>1, <1>2, ListBegin DEF Front
<1> HIDE DEF d
<1>4. ASSUME NEW n \in 0..Len(d) PROVE SubSeq(d, 1, n) = SubSeq(p, 1, n)
  <2>1. n \in 0..Len(p) /\ \A i \in 1..n : i \in 1..Len(d)
    BY <1>1, <1>2
  <2>2. /\ SubSeq(d, 1, n) \in Seq(S) /\ Len(SubSeq(d, 1, n)) = n
        /\ \A i \in 1..n : SubSeq(d, 1, n)[i] = d[i]
    BY <1>3, ListBegin
  <2>3. /\ SubSeq(p, 1, n) \in Seq(S) /\ Len(SubSeq(p, 1, n)) = n
        /\ \A i \in 1..n : SubSeq(p, 1, n)[i] = p[i]
    BY <1>1, <2>1, ListBegin
  <2>4. \A i \in 1..n : SubSeq(d, 1, n)[i] = SubSeq(p, 1, n)[i]
    BY <1>3, <2>1, <2>2, <2>3
  <2> QED BY <2>2, <2>3, <2>4, SameList
<1>5. IsPrefix(d, p)
  <2>1. Len(d) \in 0..Len(d)
    BY <1>2
  <2> QED BY <1>2, <1>4, <2>1 DEF IsPrefix
<1>6. ASSUME NEW q, IsList(q), IsPrefix(q, d) PROVE IsPrefix(q, p)
  <2>1. Len(q) \in Nat /\ Len(q) <= Len(d) /\ SubSeq(q, 1, Len(q)) = SubSeq(d, 1, Len(q))
    BY <1>6 DEF IsPrefix, IsList
  <2>2. Len(q) \in 0..Len(d) /\ Len(q) <= Len(p)
    BY <1>1, <1>2, <2>1
  <2> QED BY <1>4, <2>1, <2>2 DEF IsPrefix
<1> QED BY <1>5, <1>6 DEF d

\* Squashing keeps what is in a tree in directories: what takes a directory away
\* takes along what is in it.
LEMMA SquashTrees ==
  ASSUME Scene
  PROVE  \A i \in 1..Top : IsTree(squashes[i], i) /\ InDirs(squashes[i])
<1>1. /\ IsImage(layers) /\ Top \in Nat \ {0} /\ DOMAIN layers = 1..Top
      /\ \A i \in 1..Top : layers[i] \in Range(layers)
  BY SceneFacts
<1>2. PICK f : /\ f[0] = [p \in Paths |-> Nowhere]
               /\ \A k \in 1..Top : f[k] = SquashOnto(f[k - 1], k, layers[k])
               /\ \A k \in 1..Top : squashes[k] = f[k]
  BY SquashesDef
<1> DEFINE S == {k \in Nat : k <= Top => IsTree(f[k], k) /\ InDirs(f[k])}
<1>3. 0 \in S
  BY <1>2 DEF IsTree, InDirs
<1>4. ASSUME NEW k \in Nat, k \in S PROVE k + 1 \in S
  <2> SUFFICES ASSUME k + 1 <= Top PROVE IsTree(f[k + 1], k + 1) /\ InDirs(f[k + 1])
    OBVIOUS
  <2> DEFINE i == k + 1
             layer == layers[i]
             below == f[k]
  <2>1. IsTree(below, k) /\ InDirs(below) /\ i \in 1..Top /\ i - 1 = k
    BY <1>1, <1>4
  <2>2. f[i] = SquashOnto(below, i, layer) /\ layer \in Range(layers)
    BY <1>1, <1>2, <2>1
  <2> DEFINE blocked(p) == \E q \in Paths : IsPrefix(q, p) /\ layer[q].type \in {"gone", "file", "link"}
  <2>3. \A p \in Paths : f[i][p] = IF Brings(layer, p) THEN <<i, p>>
                                   ELSE IF blocked(p) THEN Nowhere ELSE below[p]
    BY <2>2 DEF SquashOnto
  <2>4. \A p \in Paths : Brings(layer, p) /\ Len(p) > 1 => Front(p) \in Paths /\ layer[Front(p)].type = "dir"
    BY <1>1, <2>2 DEF IsImage
  <2>5. IsTree(f[i], i)
    <3> SUFFICES ASSUME NEW p \in Paths, f[i][p] # Nowhere
                 PROVE  \E j \in 1..i : f[i][p] = <<j, p>> /\ Brings(layers[j], p)
      BY DEF IsTree
    <3>1. CASE Brings(layer, p)
      <4>1. i \in 1..i
        BY <2>1
      <4> QED BY <2>3, <3>1, <4>1
    <3>2. CASE ~Brings(layer, p)
      <4>1. f[i][p] = below[p] /\ below[p] # Nowhere
        BY <2>3, <3>2
      <4>2. PICK j \in 1..k : below[p] = <<j, p>> /\ Brings(layers[j], p)
        BY <2>1, <4>1 DEF IsTree
      <4>3. j \in 1..i
        OBVIOUS
      <4> QED BY <4>1, <4>2, <4>3
    <3> QED BY <3>1, <3>2
  <2>6. InDirs(f[i])
    <3> SUFFICES ASSUME NEW p \in Paths, f[i][p] # Nowhere, Len(p) > 1
                 PROVE  Front(p) \in Paths /\ Is(f[i][Front(p)], "dir")
      BY DEF InDirs
    <3> DEFINE d == Front(p)
    <3>1. ASSUME d \in Paths, layer[d].type = "dir" PROVE Is(f[i][d], "dir")
      <4>1. f[i][d] = <<i, d>>
        BY <2>3, <3>1 DEF Brings
      <4>2. f[i][d][1] > 0 /\ EntryOf(f[i][d]) = layer[d]
        BY <2>1, <4>1 DEF EntryOf
      <4> QED BY <3>1, <4>2 DEF Is
    <3>2. CASE Brings(layer, p)
      BY <2>4, <3>1, <3>2
    <3>3. CASE ~Brings(layer, p)
      <4>1. ~blocked(p) /\ below[p] # Nowhere
        BY <2>3, <3>3
      <4>2. d \in Paths /\ Is(below[d], "dir")
        BY <2>1, <4>1 DEF InDirs
      <4>3. IsPrefix(d, p) /\ \A q \in Paths : IsPrefix(q, d) => IsPrefix(q, p)
        BY PathFacts, FrontPrefix
      <4>4. CASE Brings(layer, d)
        <5>1. layer[d].type = "dir"
          BY <4>1, <4>2, <4>3, <4>4 DEF Brings
        <5> QED BY <3>1, <4>2, <5>1
      <4>5. CASE ~Brings(layer, d)
        <5>1. ~blocked(d)
          BY <4>1, <4>3
        <5>2. f[i][d] = below[d]
          <6> HIDE DEF d, blocked
          <6> QED BY <2>3, <4>2, <4>5, <5>1
        <5> QED BY <4>2, <5>2
      <4> QED BY <4>4, <4>5
    <3> QED BY <3>2, <3>3
  <2> QED BY <2>5, <2>6
<1>5. Nat \subseteq S
  <2> HIDE DEF S
  <2> QED BY <1>3, <1>4, Inductive
<1>6. ASSUME NEW i \in 1..Top PROVE IsTree(squashes[i], i) /\ InDirs(squashes[i])
  <2>1. i \in S /\ i <= Top
    BY <1>1, <1>5
  <2> QED BY <1>2, <2>1
<1> QED BY <1>6

-----------------------------------------------------------------------------
(* Images: where a search ends.                                            *)

\* It is in the tree, no link, and where it says it is.
At(tree, r) ==
  /\ r[2] \in Paths /\ r = tree[r[2]] /\ r # Nowhere /\ ~Is(r, "link")
  /\ \A w : Way(tree, r[2], w) = r

Ended(tree, r) == r \in {Slash, Nowhere, Circle} \/ At(tree, r)

LEMMA EnteredAt ==
  ASSUME NEW tree, NEW r, Ended(tree, r), Entered(r)
  PROVE  IsList(r[2]) /\ \A w : Way(tree, r[2], w) = r
<1>1. CASE r = Slash
  BY <1>1, EmptyList, WayEmpty DEF Slash
<1>2. CASE Is(r, "dir")
  BY <1>2, NowhereIs, PathFacts DEF Ended, At
<1> QED BY <1>1, <1>2 DEF Entered

LEMMA DescendEnds ==
  ASSUME Scene, NEW n \in 1..Top, NEW tree, IsTree(tree, n), NEW r, Ended(tree, r),
         NEW name, NEW w, \A t \in LinkTargets : Ended(tree, w[t])
  PROVE  Ended(tree, Descend(tree, r, name, w))
<1> DEFINE here == Append(r[2], name)
<1>1. CASE r = Circle \/ ~Entered(r) \/ here \notin Paths
  BY <1>1 DEF Descend, Ended
<1>2. CASE r # Circle /\ Entered(r) /\ here \in Paths
  <2>1. IsList(r[2]) /\ \A v : Way(tree, r[2], v) = r
    BY <1>2, EnteredAt
  <2>2. Descend(tree, r, name, w) =
          IF Is(tree[here], "link") THEN w[EntryOf(tree[here]).target] ELSE tree[here]
    BY <1>2 DEF Descend
  <2>3. CASE tree[here] = Nowhere
    BY <2>2, <2>3, NowhereIs DEF Ended
  <2>4. CASE tree[here] # Nowhere
    <3>1. tree[here][2] = here /\ EntryOf(tree[here]).target \in LinkTargets
      <4> HIDE DEF here
      <4>1. tree[here] = <<tree[here][1], here>> /\ EntryOf(tree[here]).target \in LinkTargets
        BY <1>2, <2>4, RefFacts
      <4> QED BY <4>1
    <3>2. CASE Is(tree[here], "link")
      BY <2>2, <3>1, <3>2
    <3>3. CASE ~Is(tree[here], "link")
      <4>1. ASSUME NEW v PROVE Way(tree, here, v) = tree[here]
        <5>1. Way(tree, here, v) = Descend(tree, r, name, v)
          BY <2>1, WayFurther
        <5> QED BY <1>2, <3>3, <5>1 DEF Descend
      <4>2. At(tree, tree[here])
        <5> HIDE DEF here
        <5> QED BY <1>2, <2>4, <3>1, <3>3, <4>1 DEF At
      <4> QED BY <2>2, <3>3, <4>2 DEF Ended
    <3> QED BY <3>2, <3>3
  <2> QED BY <2>3, <2>4
<1> QED BY <1>1, <1>2

LEMMA WayEnds ==
  ASSUME Scene, NEW n \in 1..Top, NEW tree, IsTree(tree, n),
         NEW w, \A t \in LinkTargets : Ended(tree, w[t])
  PROVE  \A p : IsList(p) => Ended(tree, Way(tree, p, w))
<1> DEFINE S == {k \in Nat : \A p : IsList(p) /\ Len(p) = k => Ended(tree, Way(tree, p, w))}
<1>1. 0 \in S
  <2>1. ASSUME NEW p, IsList(p), Len(p) = 0 PROVE p = <<>>
    BY <2>1 DEF IsList
  <2>2. Ended(tree, Way(tree, <<>>, w))
    BY WayEmpty DEF Ended
  <2> QED BY <2>1, <2>2
<1>2. ASSUME NEW k \in Nat, k \in S PROVE k + 1 \in S
  <2> SUFFICES ASSUME NEW p, IsList(p), Len(p) = k + 1
               PROVE  Ended(tree, Way(tree, p, w))
    OBVIOUS
  <2>1. p # <<>>
    BY EmptyList
  <2>2. IsList(Front(p)) /\ Len(Front(p)) = k /\ p = Append(Front(p), Last(p))
    BY <2>1, ListParts
  <2>3. Ended(tree, Way(tree, Front(p), w))
    BY <1>2, <2>2
  <2>4. Way(tree, p, w) = Descend(tree, Way(tree, Front(p), w), Last(p), w)
    BY <2>2, WayFurther
  <2> QED BY <2>3, <2>4, DescendEnds
<1>3. Nat \subseteq S
  <2> HIDE DEF S
  <2> QED BY <1>1, <1>2, Inductive
<1> SUFFICES ASSUME NEW p, IsList(p) PROVE Ended(tree, Way(tree, p, w))
  OBVIOUS
<1>4. Len(p) \in Nat
  BY DEF IsList
<1> QED BY <1>3, <1>4

LEMMA FollowedEnds ==
  ASSUME Scene, NEW n \in 1..Top, NEW tree, IsTree(tree, n), NEW h \in 0..MaxHops
  PROVE  \A t \in LinkTargets : Ended(tree, Followed(tree, h)[t])
<1> DEFINE S == {k \in Nat : k <= MaxHops => \A t \in LinkTargets : Ended(tree, Followed(tree, k)[t])}
<1>0. MaxHops \in Nat
  BY ImagesAssumption
<1>1. 0 \in S
  <2>1. Followed(tree, 0) = [t \in LinkTargets |-> Circle]
    BY <1>0, FollowedDef
  <2> QED BY <2>1 DEF Ended
<1>2. ASSUME NEW k \in Nat, k \in S PROVE k + 1 \in S
  <2> SUFFICES ASSUME k + 1 <= MaxHops, NEW t \in LinkTargets
               PROVE  Ended(tree, Followed(tree, k + 1)[t])
    OBVIOUS
  <2>1. k + 1 \in 0..MaxHops /\ k + 1 # 0 /\ (k + 1) - 1 = k
    BY <1>0
  <2>2. Followed(tree, k + 1)[t] = Way(tree, t, Followed(tree, k))
    BY <2>1, FollowedDef
  <2>3. \A u \in LinkTargets : Ended(tree, Followed(tree, k)[u])
    BY <1>0, <1>2
  <2>4. IsList(t)
    BY SceneFacts
  <2> QED BY <2>2, <2>3, <2>4, WayEnds
<1>3. Nat \subseteq S
  <2> HIDE DEF S
  <2> QED BY <1>1, <1>2, Inductive
<1>4. h \in Nat /\ h <= MaxHops
  BY <1>0
<1> QED BY <1>3, <1>4

LEMMA SearchEnds ==
  ASSUME Scene, NEW n \in 1..Top, NEW tree, IsTree(tree, n), NEW p, IsList(p)
  PROVE  Ended(tree, SearchByPath(tree, p))
<1>1. MaxHops \in 0..MaxHops
  BY ImagesAssumption
<1> QED BY <1>1, FollowedEnds, WayEnds DEF SearchByPath

\* What is in the tree is found where it is, unless it is a link.
LEMMA FoundWhereItIs ==
  ASSUME Scene, NEW n \in 1..Top, NEW tree, IsTree(tree, n), InDirs(tree), NEW w
  PROVE  \A p \in Paths : tree[p] # Nowhere /\ ~Is(tree[p], "link") => Way(tree, p, w) = tree[p]
<1> DEFINE S == {k \in Nat : \A p \in Paths : Len(p) = k /\ tree[p] # Nowhere /\ ~Is(tree[p], "link")
                                               => Way(tree, p, w) = tree[p]}
<1>1. 0 \in S
  <2>1. \A p \in Paths : Len(p) # 0
    BY PathFacts, ListParts
  <2> QED BY <2>1
<1>2. ASSUME NEW k \in Nat, k \in S PROVE k + 1 \in S
  <2> SUFFICES ASSUME NEW p \in Paths, Len(p) = k + 1, tree[p] # Nowhere, ~Is(tree[p], "link")
               PROVE  Way(tree, p, w) = tree[p]
    OBVIOUS
  <2> DEFINE d == Front(p)
  <2>1. IsList(d) /\ Len(d) = k /\ p = Append(d, Last(p))
    BY PathFacts, ListParts
  <2>2. Way(tree, p, w) = Descend(tree, Way(tree, d, w), Last(p), w)
    BY <2>1, WayFurther
  <2>3. Entered(Way(tree, d, w)) /\ Way(tree, d, w) # Circle /\ Way(tree, d, w)[2] = d
    <3>1. CASE k = 0
      <4>1. d = <<>>
        BY <2>1, <3>1 DEF IsList
      <4> QED BY <4>1, WayEmpty DEF Entered, Slash, Circle
    <3>2. CASE k # 0
      <4>1. d \in Paths /\ Is(tree[d], "dir")
        BY <3>2 DEF InDirs
      <4>2. tree[d] # Nowhere /\ ~Is(tree[d], "link")
        BY <4>1, NowhereIs DEF Is
      <4>3. Way(tree, d, w) = tree[d]
        <5> HIDE DEF d
        <5> QED BY <1>2, <2>1, <4>1, <4>2
      <4>4. tree[d][2] = d /\ tree[d] # Circle
        BY <4>1, <4>2, RefFacts
      <4> QED BY <4>1, <4>3, <4>4 DEF Entered
    <3> QED BY <3>1, <3>2
  <2> QED BY <2>1, <2>2, <2>3 DEF Descend
<1>3. Nat \subseteq S
  <2> HIDE DEF S
  <2> QED BY <1>1, <1>2, Inductive
<1>4. \A p \in Paths : Len(p) \in Nat
  BY PathFacts DEF IsList
<1> QED BY <1>3, <1>4

\* What is found on some way is found where the way ends, under the same name.
LEMMA FoundAtEnd ==
  ASSUME Scene, NEW n \in 1..Top, NEW tree, IsTree(tree, n), NEW p \in Paths,
         At(tree, SearchByPath(tree, p))
  PROVE  \E x \in Paths : /\ Last(x) = Last(p) /\ tree[x] # Nowhere
                          /\ SearchByPath(tree, x) = SearchByPath(tree, p)
<1> DEFINE w == Followed(tree, MaxHops)
           r == Way(tree, Front(p), w)
           x == Append(r[2], Last(p))
           found == SearchByPath(tree, p)
<1>1. IsList(Front(p)) /\ p = Append(Front(p), Last(p))
  BY PathFacts, ListParts
<1>2. found = Descend(tree, r, Last(p), w)
  BY <1>1, WayFurther DEF SearchByPath
<1>3. Ended(tree, r)
  <2>1. MaxHops \in 0..MaxHops
    BY ImagesAssumption
  <2> QED BY <1>1, <2>1, FollowedEnds, WayEnds
<1>4. found # Nowhere /\ found # Circle
  <2>1. found \in {tree[y] : y \in Paths} /\ found # Nowhere
    BY DEF At
  <2> QED BY <2>1, RefFacts
<1> HIDE DEF found, w
<1>5. Entered(r) /\ x \in Paths /\ r # Circle /\ tree[x] # Nowhere
  BY <1>2, <1>4, NowhereIs DEF Descend
<1>6. IsList(r[2]) /\ Way(tree, r[2], w) = r
  BY <1>3, <1>5, EnteredAt
<1> HIDE DEF r
<1>7. Last(x) = Last(p)
  BY <1>6, LongerList
<1>8. SearchByPath(tree, x) = Descend(tree, r, Last(p), w)
  BY <1>6, WayFurther DEF SearchByPath, w
<1> QED BY <1>2, <1>5, <1>7, <1>8 DEF found

LinkIn(tree, r) == \E x \in Paths : r = tree[x] /\ Is(r, "link")

LEMMA OrLinkEnds ==
  ASSUME Scene, NEW n \in 1..Top, NEW tree, IsTree(tree, n), NEW p, IsList(p), NEW w, NEW l,
         \A t \in LinkTargets : l[t] = w[t] \/ LinkIn(tree, l[t])
  PROVE  OrLink(tree, p, w, l) = Way(tree, p, w) \/ LinkIn(tree, OrLink(tree, p, w, l))
<1> DEFINE r == Way(tree, Front(p), w)
           here == Append(r[2], Last(p))
           kept == /\ Way(tree, p, w) = Nowhere /\ p # <<>> /\ Entered(r)
                   /\ here \in Paths /\ Is(tree[here], "link")
           further == l[EntryOf(tree[here]).target]
<1>1. CASE ~kept
  BY <1>1 DEF OrLink, LivingLink
<1>2. CASE kept
  <2>1. OrLink(tree, p, w, l) = IF further = Nowhere THEN tree[here] ELSE further
    BY <1>2 DEF OrLink, LivingLink, LastOf
  <2>2. CASE further = Nowhere
    BY <1>2, <2>1, <2>2 DEF LinkIn
  <2>3. CASE further # Nowhere
    <3>1. Way(tree, p, w) = Descend(tree, r, Last(p), w)
      <4>1. IsList(Front(p)) /\ p = Append(Front(p), Last(p))
        BY <1>2, ListParts
      <4> QED BY <4>1, WayFurther
    <3>2. r # Circle
      BY <1>2, NowhereIs DEF Entered, Circle, Slash
    <3>3. w[EntryOf(tree[here]).target] = Nowhere
      BY <1>2, <3>1, <3>2 DEF Descend
    <3>4. EntryOf(tree[here]).target \in LinkTargets
      BY <1>2, NowhereIs, RefFacts
    <3> QED BY <2>1, <2>3, <3>3, <3>4
  <2> QED BY <2>2, <2>3
<1> QED BY <1>1, <1>2

\* The search that keeps links that end nowhere finds what the other one does, or
\* a link.
LEMMA LivingEnds ==
  ASSUME Scene, NEW n \in 1..Top, NEW tree, IsTree(tree, n), NEW p, IsList(p)
  PROVE  \/ SearchLiving(tree, p) = SearchByPath(tree, p)
         \/ LinkIn(tree, SearchLiving(tree, p))
<1> DEFINE alike(k) == \A t \in LinkTargets : \/ Living(tree, k)[t] = Followed(tree, k)[t]
                                              \/ LinkIn(tree, Living(tree, k)[t])
           S == {k \in Nat : k <= MaxHops => alike(k)}
<1>0. MaxHops \in Nat
  BY ImagesAssumption
<1>1. 0 \in S
  <2>1. /\ Followed(tree, 0) = [t \in LinkTargets |-> Circle]
        /\ Living(tree, 0) = [t \in LinkTargets |-> Circle]
    BY <1>0, FollowedDef, LivingDef
  <2> QED BY <2>1
<1>2. ASSUME NEW k \in Nat, k \in S PROVE k + 1 \in S
  <2> SUFFICES ASSUME k + 1 <= MaxHops, NEW t \in LinkTargets
               PROVE  \/ Living(tree, k + 1)[t] = Followed(tree, k + 1)[t]
                      \/ LinkIn(tree, Living(tree, k + 1)[t])
    OBVIOUS
  <2>1. k + 1 \in 0..MaxHops /\ k + 1 # 0 /\ (k + 1) - 1 = k
    BY <1>0
  <2>2. /\ Followed(tree, k + 1)[t] = Way(tree, t, Followed(tree, k))
        /\ Living(tree, k + 1)[t] = OrLink(tree, t, Followed(tree, k), Living(tree, k))
    BY <2>1, FollowedDef, LivingDef
  <2>3. alike(k)
    BY <1>0, <1>2
  <2>4. IsList(t)
    BY SceneFacts
  <2> QED BY <2>2, <2>3, <2>4, OrLinkEnds
<1>3. Nat \subseteq S
  <2> HIDE DEF S
  <2> QED BY <1>1, <1>2, Inductive
<1>4. alike(MaxHops)
  BY <1>0, <1>3
<1> QED BY <1>4, OrLinkEnds DEF SearchLiving, SearchByPath

-----------------------------------------------------------------------------
(* Images: lists of what was found.                                        *)

LEMMA AppendRange ==
  ASSUME NEW S, NEW s \in Seq(S), NEW x
  PROVE  /\ Len(s) \in Nat /\ DOMAIN s = 1..Len(s)
         /\ Range(Append(s, x)) = Range(s) \cup {x}
         /\ Len(Append(s, x)) = Len(s) + 1 /\ DOMAIN Append(s, x) = 1..(Len(s) + 1)
         /\ Append(s, x)[Len(s) + 1] = x
         /\ \A k \in 1..Len(s) : Append(s, x)[k] = s[k] /\ s[k] \in Range(s)
<1> DEFINE t == Append(s, x)
           n == Len(s)
<1>1. n \in Nat /\ DOMAIN s = 1..n
  OBVIOUS
<1>2. t \in Seq(S \cup {x}) /\ Len(t) = n + 1 /\ t[n + 1] = x /\ \A k \in 1..n : t[k] = s[k]
  <2>1. s \in Seq(S \cup {x}) /\ x \in S \cup {x}
    OBVIOUS
  <2> QED BY <2>1
<1>3. DOMAIN t = 1..(n + 1)
  BY <1>2
<1>4. \A k \in 1..n : s[k] \in Range(s)
  BY <1>1 DEF Range
<1> HIDE DEF t, n
<1>5. ASSUME NEW y \in Range(t) PROVE y \in Range(s) \cup {x}
  <2>1. PICK k \in 1..(n + 1) : y = t[k]
    BY <1>3 DEF Range
  <2>2. k = n + 1 \/ k \in 1..n
    BY <1>1
  <2> QED BY <1>2, <1>4, <2>1, <2>2
<1>6. ASSUME NEW y \in Range(s) \cup {x} PROVE y \in Range(t)
  <2>1. n + 1 \in 1..(n + 1) /\ \A k \in 1..n : k \in 1..(n + 1)
    BY <1>1
  <2>2. x \in Range(t)
    BY <1>2, <1>3, <2>1 DEF Range
  <2>3. ASSUME y \in Range(s) PROVE y \in Range(t)
    <3>1. PICK k \in 1..n : y = s[k]
      BY <1>1, <2>3 DEF Range
    <3> QED BY <1>2, <1>3, <2>1, <3>1 DEF Range
  <2> QED BY <2>2, <2>3
<1> QED BY <1>1, <1>2, <1>3, <1>4, <1>5, <1>6 DEF t, n

LEMMA NoneInRange == <<>> \in Seq({}) /\ Range(<<>>) = {} /\ DOMAIN <<>> = {} /\ \A S : <<>> \in Seq(S)
BY DEF Range

\* The members of a list differ in what key tells of them.
Differ(s, key) == \A j, k \in DOMAIN s : key[s[j]] = key[s[k]] => j = k

LEMMA DifferMore ==
  ASSUME NEW S, NEW s \in Seq(S), NEW x \in S, NEW key, Differ(s, key),
         \A y \in Range(s) : key[y] # key[x]
  PROVE  Differ(Append(s, x), key)
<1> DEFINE t == Append(s, x)
           n == Len(s)
<1>1. /\ n \in Nat /\ DOMAIN s = 1..n /\ DOMAIN t = 1..(n + 1) /\ t[n + 1] = x
      /\ \A k \in 1..n : t[k] = s[k] /\ s[k] \in Range(s)
  BY AppendRange
<1> HIDE DEF t, n
<1> SUFFICES ASSUME NEW j \in 1..(n + 1), NEW k \in 1..(n + 1), key[t[j]] = key[t[k]]
             PROVE  j = k
  BY <1>1 DEF Differ, t
<1>2. (j = n + 1 \/ j \in 1..n) /\ (k = n + 1 \/ k \in 1..n)
  BY <1>1
<1>3. CASE j \in 1..n /\ k \in 1..n
  BY <1>1, <1>3 DEF Differ
<1>4. CASE j = n + 1 /\ k \in 1..n
  BY <1>1, <1>4
<1>5. CASE k = n + 1 /\ j \in 1..n
  BY <1>1, <1>5
<1> QED BY <1>2, <1>3, <1>4, <1>5

\* f is what is wanted of each beginning of a list.
OnlyTo(f, list, wanted, N) ==
  f = [k \in 0..N |-> IF k = 0 THEN <<>>
                      ELSE IF list[k] \in wanted THEN Append(f[k - 1], list[k]) ELSE f[k - 1]]

LEMMA OnlyExist ==
  ASSUME NEW list, NEW wanted
  PROVE  \A N \in Nat : \E f : OnlyTo(f, list, wanted, N)
<1> DEFINE S == {N \in Nat : \E f : OnlyTo(f, list, wanted, N)}
           First == <<>>
           Next(v, k) == IF list[k] \in wanted THEN Append(v, list[k]) ELSE v
<1>1. 0 \in S
  <2>1. OnlyTo([k \in 0..0 |-> First], list, wanted, 0)
    BY DEF OnlyTo
  <2> QED BY <2>1
<1>2. ASSUME NEW N \in Nat, N \in S PROVE N + 1 \in S
  <2>1. PICK f : OnlyTo(f, list, wanted, N)
    BY <1>2
  <2> DEFINE g == [k \in 0..(N + 1) |-> IF k <= N THEN f[k] ELSE Next(f[N], N + 1)]
  <2>2. \A k \in 0..N : g[k] = f[k] /\ f[k] = IF k = 0 THEN First ELSE Next(f[k - 1], k)
    <3>1. \A k \in 0..N : g[k] = f[k]
      <4> HIDE DEF Next
      <4> QED OBVIOUS
    <3> HIDE DEF g
    <3> QED BY <2>1, <3>1 DEF OnlyTo
  <2>3. g[N + 1] = Next(f[N], N + 1)
    <3> HIDE DEF Next
    <3> QED OBVIOUS
  <2>4. \A k \in 0..(N + 1) : g[k] = IF k = 0 THEN First ELSE Next(g[k - 1], k)
    <3> SUFFICES ASSUME NEW k \in 0..(N + 1)
                 PROVE  g[k] = IF k = 0 THEN First ELSE Next(g[k - 1], k)
      OBVIOUS
    <3> HIDE DEF g, First, Next
    <3>1. CASE k = N + 1
      BY <3>1, <2>2, <2>3
    <3>2. CASE k \in 0..N
      <4>1. k # 0 => k - 1 \in 0..N
        BY <3>2
      <4> QED BY <3>2, <2>2, <4>1
    <3> QED BY <3>1, <3>2
  <2>5. OnlyTo(g, list, wanted, N + 1)
    <3>1. g = [k \in 0..(N + 1) |-> g[k]]
      OBVIOUS
    <3> HIDE DEF g
    <3> QED BY <2>4, <3>1 DEF OnlyTo
  <2> QED BY <2>5
<1>3. Nat \subseteq S
  <2> HIDE DEF S
  <2> QED BY <1>1, <1>2, Inductive
<1> QED BY <1>3

LEMMA OnlyFacts ==
  ASSUME NEW S, NEW list \in Seq(S), NEW wanted
  PROVE  /\ Only(list, wanted) \in Seq(S)
         /\ Range(Only(list, wanted)) = Range(list) \cap wanted
         /\ \A key : Differ(list, key) => Differ(Only(list, wanted), key)
<1> DEFINE N == Len(list)
           f == CHOOSE g : OnlyTo(g, list, wanted, N)
           upto(k) == {list[i] : i \in 1..k}
           S0 == {k \in Nat : k <= N =>
                    /\ f[k] \in Seq(S) /\ Range(f[k]) = upto(k) \cap wanted
                    /\ \A key : Differ(list, key) => Differ(f[k], key)}
<1>1. N \in Nat /\ DOMAIN list = 1..N
  OBVIOUS
<1>2. OnlyTo(f, list, wanted, N)
  <2>1. \E g : OnlyTo(g, list, wanted, N)
    BY <1>1, OnlyExist
  <2> QED BY <2>1
<1>3. Only(list, wanted) = f[N]
  BY Zenon DEF Only, OnlyTo
<1> HIDE DEF f
<1>4. \A k \in 0..N : f[k] = IF k = 0 THEN <<>>
                             ELSE IF list[k] \in wanted THEN Append(f[k - 1], list[k]) ELSE f[k - 1]
  BY <1>2 DEF OnlyTo
<1>5. 0 \in S0
  <2>1. f[0] = <<>> /\ upto(0) = {}
    BY <1>1, <1>4
  <2> QED BY <2>1, NoneInRange DEF Differ
<1>6. ASSUME NEW k \in Nat, k \in S0 PROVE k + 1 \in S0
  <2> SUFFICES ASSUME k + 1 <= N
               PROVE  /\ f[k + 1] \in Seq(S) /\ Range(f[k + 1]) = upto(k + 1) \cap wanted
                      /\ \A key : Differ(list, key) => Differ(f[k + 1], key)
    OBVIOUS
  <2> DEFINE x == list[k + 1]
  <2>1. /\ f[k] \in Seq(S) /\ Range(f[k]) = upto(k) \cap wanted
        /\ \A key : Differ(list, key) => Differ(f[k], key)
    BY <1>1, <1>6
  <2>2. f[k + 1] = IF x \in wanted THEN Append(f[k], x) ELSE f[k]
    BY <1>1, <1>4
  <2>3. k + 1 \in DOMAIN list /\ \A i \in 1..k : i \in DOMAIN list /\ i # k + 1
    BY <1>1
  <2>4. x \in S
    BY <2>3
  <2>5. upto(k + 1) = upto(k) \cup {x}
    <3>1. 1..(k + 1) = 1..k \cup {k + 1}
      OBVIOUS
    <3> QED BY <3>1
  <2>6. ASSUME x \in wanted
        PROVE  /\ f[k + 1] \in Seq(S) /\ Range(f[k + 1]) = upto(k + 1) \cap wanted
               /\ \A key : Differ(list, key) => Differ(f[k + 1], key)
    <3> HIDE DEF x, upto
    <3>1. f[k + 1] \in Seq(S) /\ Range(f[k + 1]) = Range(f[k]) \cup {x}
      BY <2>1, <2>2, <2>4, <2>6, AppendRange
    <3>2. ASSUME NEW key, Differ(list, key) PROVE Differ(f[k + 1], key)
      <4>1. \A y \in upto(k) : key[y] # key[x]
        BY <2>3, <3>2 DEF Differ, upto, x
      <4> QED BY <2>1, <2>2, <2>4, <2>6, <3>2, <4>1, DifferMore
    <3> QED BY <2>1, <2>5, <2>6, <3>1, <3>2
  <2>7. ASSUME x \notin wanted
        PROVE  /\ f[k + 1] \in Seq(S) /\ Range(f[k + 1]) = upto(k + 1) \cap wanted
               /\ \A key : Differ(list, key) => Differ(f[k + 1], key)
    <3> HIDE DEF x, upto
    <3> QED BY <2>1, <2>2, <2>5, <2>7
  <2> QED BY <2>6, <2>7
<1>7. Nat \subseteq S0
  <2> HIDE DEF S0
  <2> QED BY <1>5, <1>6, Inductive
<1>8. N \in S0 /\ upto(N) = Range(list)
  BY <1>1, <1>7 DEF Range
<1> QED BY <1>1, <1>3, <1>8

\* f is what was first of each beginning of what was found.
UniqueTo(f, found, N) ==
  f = [k \in 0..N |-> IF k = 0 THEN <<>>
                      ELSE IF found[k].ref \in {Nowhere, Slash} \cup {l.ref : l \in Range(f[k - 1])}
                           THEN f[k - 1] ELSE Append(f[k - 1], found[k])]

LEMMA UniqueExist ==
  ASSUME NEW found
  PROVE  \A N \in Nat : \E f : UniqueTo(f, found, N)
<1> DEFINE S == {N \in Nat : \E f : UniqueTo(f, found, N)}
           First == <<>>
           Next(v, k) == IF found[k].ref \in {Nowhere, Slash} \cup {l.ref : l \in Range(v)}
                         THEN v ELSE Append(v, found[k])
<1>1. 0 \in S
  <2>1. UniqueTo([k \in 0..0 |-> First], found, 0)
    BY DEF UniqueTo
  <2> QED BY <2>1
<1>2. ASSUME NEW N \in Nat, N \in S PROVE N + 1 \in S
  <2>1. PICK f : UniqueTo(f, found, N)
    BY <1>2
  <2> DEFINE g == [k \in 0..(N + 1) |-> IF k <= N THEN f[k] ELSE Next(f[N], N + 1)]
  <2>2. \A k \in 0..N : g[k] = f[k] /\ f[k] = IF k = 0 THEN First ELSE Next(f[k - 1], k)
    <3>1. \A k \in 0..N : g[k] = f[k]
      <4> HIDE DEF Next
      <4> QED OBVIOUS
    <3> HIDE DEF g
    <3> QED BY <2>1, <3>1 DEF UniqueTo
  <2>3. g[N + 1] = Next(f[N], N + 1)
    <3> HIDE DEF Next
    <3> QED OBVIOUS
  <2>4. \A k \in 0..(N + 1) : g[k] = IF k = 0 THEN First ELSE Next(g[k - 1], k)
    <3> SUFFICES ASSUME NEW k \in 0..(N + 1)
                 PROVE  g[k] = IF k = 0 THEN First ELSE Next(g[k - 1], k)
      OBVIOUS
    <3> HIDE DEF g, First, Next
    <3>1. CASE k = N + 1
      BY <3>1, <2>2, <2>3
    <3>2. CASE k \in 0..N
      <4>1. k # 0 => k - 1 \in 0..N
        BY <3>2
      <4> QED BY <3>2, <2>2, <4>1
    <3> QED BY <3>1, <3>2
  <2>5. UniqueTo(g, found, N + 1)
    <3>1. g = [k \in 0..(N + 1) |-> g[k]]
      OBVIOUS
    <3> HIDE DEF g
    <3> QED BY <2>4, <3>1 DEF UniqueTo
  <2> QED BY <2>5
<1>3. Nat \subseteq S
  <2> HIDE DEF S
  <2> QED BY <1>1, <1>2, Inductive
<1> QED BY <1>3

LEMMA UniqueFacts ==
  ASSUME NEW S, NEW found \in Seq(S), NEW key, \A l \in S : key[l] = l.ref,
         ~\E k \in DOMAIN found : found[k].ref = Circle
  PROVE  /\ Unique(found) \in Seq(S) /\ Differ(Unique(found), key)
         /\ Range(Unique(found)) \subseteq Range(found)
         /\ Refs(Range(Unique(found))) = Refs(Range(found)) \ {Nowhere, Slash}
<1> DEFINE N == Len(found)
           f == CHOOSE g : UniqueTo(g, found, N)
           upto(k) == {found[i] : i \in 1..k}
           fine(k) == /\ f[k] \in Seq(S) /\ Differ(f[k], key) /\ Range(f[k]) \subseteq upto(k)
                      /\ Refs(Range(f[k])) = Refs(upto(k)) \ {Nowhere, Slash}
           S0 == {k \in Nat : k <= N => fine(k)}
<1>1. N \in Nat /\ DOMAIN found = 1..N
  OBVIOUS
<1>2. UniqueTo(f, found, N)
  <2>1. \E g : UniqueTo(g, found, N)
    BY <1>1, UniqueExist
  <2> QED BY <2>1
<1>3. Unique(found) = f[N]
  BY Zenon DEF Unique, UniqueTo
<1> HIDE DEF f
<1>4. \A k \in 0..N : f[k] = IF k = 0 THEN <<>>
                             ELSE IF found[k].ref \in {Nowhere, Slash} \cup {l.ref : l \in Range(f[k - 1])}
                                  THEN f[k - 1] ELSE Append(f[k - 1], found[k])
  BY <1>2 DEF UniqueTo
<1>5. 0 \in S0
  <2>1. f[0] = <<>> /\ upto(0) = {}
    BY <1>1, <1>4
  <2> QED BY <2>1, NoneInRange DEF Differ, Refs
<1>6. ASSUME NEW k \in Nat, k \in S0 PROVE k + 1 \in S0
  <2> SUFFICES ASSUME k + 1 <= N PROVE fine(k + 1)
    OBVIOUS
  <2> DEFINE x == found[k + 1]
  <2>1. fine(k)
    BY <1>1, <1>6
  <2>2. f[k + 1] = IF x.ref \in {Nowhere, Slash} \cup Refs(Range(f[k]))
                   THEN f[k] ELSE Append(f[k], x)
    <3>1. k + 1 \in 0..N /\ k + 1 # 0 /\ (k + 1) - 1 = k
      BY <1>1
    <3> QED BY <1>4, <3>1 DEF Refs
  <2>3. x \in S
    BY <1>1
  <2>4. upto(k + 1) = upto(k) \cup {x}
    <3>1. 1..(k + 1) = 1..k \cup {k + 1}
      OBVIOUS
    <3> QED BY <3>1
  <2>5. Refs(upto(k + 1)) = Refs(upto(k)) \cup {x.ref}
    <3> HIDE DEF x, upto
    <3> QED BY <2>4 DEF Refs
  <2>6. CASE x.ref \in {Nowhere, Slash} \cup Refs(Range(f[k]))
    <3> HIDE DEF x, upto
    <3> QED BY <2>1, <2>2, <2>4, <2>5, <2>6
  <2>7. CASE x.ref \notin {Nowhere, Slash} \cup Refs(Range(f[k]))
    <3> HIDE DEF x, upto
    <3>1. f[k + 1] \in Seq(S) /\ Range(f[k + 1]) = Range(f[k]) \cup {x}
      BY <2>1, <2>2, <2>3, <2>7, AppendRange
    <3>2. Differ(f[k + 1], key)
      <4>1. \A y \in Range(f[k]) : y \in S
        BY <2>1 DEF Range
      <4>2. \A y \in Range(f[k]) : key[y] # key[x]
        BY <2>3, <2>7, <4>1 DEF Refs
      <4> QED BY <2>1, <2>2, <2>3, <2>7, <4>2, DifferMore
    <3>3. Refs(Range(f[k + 1])) = Refs(Range(f[k])) \cup {x.ref}
      BY <3>1 DEF Refs
    <3> QED BY <2>1, <2>4, <2>5, <2>7, <3>1, <3>2, <3>3
  <2> QED BY <2>6, <2>7
<1>7. Nat \subseteq S0
  <2> HIDE DEF S0
  <2> QED BY <1>5, <1>6, Inductive
<1>8. N \in S0 /\ upto(N) = Range(found)
  BY <1>1, <1>7 DEF Range
<1> QED BY <1>1, <1>3, <1>8

\* f is the first lists one after the other.
FlatTo(f, ss, N) ==
  f = [i \in 1..N |-> IF i = 1 THEN ss[i] ELSE f[i - 1] \o ss[i]]

LEMMA FlatExist ==
  ASSUME NEW ss
  PROVE  \A N \in Nat : \E f : FlatTo(f, ss, N)
<1> DEFINE S == {N \in Nat : \E f : FlatTo(f, ss, N)}
           Next(v, i) == v \o ss[i]
<1>1. 0 \in S
  <2>1. FlatTo([i \in 1..0 |-> <<>>], ss, 0)
    <3>1. 1..0 = {}
      OBVIOUS
    <3> QED BY <3>1 DEF FlatTo
  <2> QED BY <2>1
<1>2. ASSUME NEW N \in Nat, N \in S PROVE N + 1 \in S
  <2>1. PICK f : FlatTo(f, ss, N)
    BY <1>2
  <2> DEFINE g == [i \in 1..(N + 1) |-> IF i <= N THEN f[i] ELSE IF i = 1 THEN ss[i] ELSE Next(f[N], i)]
  <2>2. \A i \in 1..N : g[i] = f[i] /\ f[i] = IF i = 1 THEN ss[i] ELSE Next(f[i - 1], i)
    <3>1. \A i \in 1..N : g[i] = f[i]
      <4> HIDE DEF Next
      <4> QED OBVIOUS
    <3> HIDE DEF g
    <3> QED BY <2>1, <3>1 DEF FlatTo
  <2>3. g[N + 1] = IF N + 1 = 1 THEN ss[N + 1] ELSE Next(f[N], N + 1)
    <3> HIDE DEF Next
    <3> QED OBVIOUS
  <2>4. \A i \in 1..(N + 1) : g[i] = IF i = 1 THEN ss[i] ELSE Next(g[i - 1], i)
    <3> SUFFICES ASSUME NEW i \in 1..(N + 1)
                 PROVE  g[i] = IF i = 1 THEN ss[i] ELSE Next(g[i - 1], i)
      OBVIOUS
    <3> HIDE DEF g, Next
    <3>1. CASE i = N + 1
      <4>1. i # 1 => N \in 1..N /\ i - 1 = N
        BY <3>1
      <4> QED BY <3>1, <2>2, <2>3, <4>1
    <3>2. CASE i \in 1..N
      <4>1. i # 1 => i - 1 \in 1..N
        BY <3>2
      <4> QED BY <3>2, <2>2, <4>1
    <3> QED BY <3>1, <3>2
  <2>5. FlatTo(g, ss, N + 1)
    <3>1. g = [i \in 1..(N + 1) |-> g[i]]
      OBVIOUS
    <3> HIDE DEF g
    <3> QED BY <2>4, <3>1 DEF FlatTo
  <2> QED BY <2>5
<1>3. Nat \subseteq S
  <2> HIDE DEF S
  <2> QED BY <1>1, <1>2, Inductive
<1> QED BY <1>3

LEMMA FlatFacts ==
  ASSUME NEW S, NEW ss \in Seq(Seq(S))
  PROVE  FlattenSeq(ss) \in Seq(S)
<1> DEFINE N == Len(ss)
           f == CHOOSE g : FlatTo(g, ss, N)
           S0 == {k \in Nat : k + 1 <= N => f[k + 1] \in Seq(S)}
<1>1. N \in Nat
  OBVIOUS
<1>2. CASE N = 0
  <2>1. ss = <<>>
    BY <1>2
  <2> QED BY <1>2, <2>1, NoneInRange DEF FlattenSeq
<1>3. CASE N # 0
  <2>1. FlatTo(f, ss, N)
    <3>1. \E g : FlatTo(g, ss, N)
      BY <1>1, FlatExist
    <3> QED BY <3>1
  <2>2. FlattenSeq(ss) = f[N]
    BY <1>3, Zenon DEF FlattenSeq, FlatTo
  <2> HIDE DEF f
  <2>3. \A k \in 1..N : f[k] = IF k = 1 THEN ss[k] ELSE f[k - 1] \o ss[k]
    BY <2>1 DEF FlatTo
  <2>4. 0 \in S0
    BY <2>3
  <2>5. ASSUME NEW k \in Nat, k \in S0 PROVE k + 1 \in S0
    <3> SUFFICES ASSUME (k + 1) + 1 <= N PROVE f[(k + 1) + 1] \in Seq(S)
      OBVIOUS
    <3>1. f[k + 1] \in Seq(S)
      BY <1>1, <2>5
    <3>2. (k + 1) + 1 \in 1..N /\ (k + 1) + 1 # 1 /\ ((k + 1) + 1) - 1 = k + 1
      BY <1>1
    <3>4. f[(k + 1) + 1] = f[k + 1] \o ss[(k + 1) + 1]
      BY <2>3, <3>2
    <3>3. ss[(k + 1) + 1] \in Seq(S)
      BY <3>2
    <3> QED BY <3>1, <3>3, <3>4
  <2>6. Nat \subseteq S0
    <3> HIDE DEF S0
    <3> QED BY <2>4, <2>5, Inductive
  <2>7. N - 1 \in Nat /\ (N - 1) + 1 = N /\ N <= N
    BY <1>1, <1>3
  <2> QED BY <2>2, <2>6, <2>7
<1> QED BY <1>2, <1>3

\* A finite set in some order.
LEMMA OrderedFacts ==
  ASSUME NEW S, IsFiniteSet(S)
  PROVE  /\ Ordered(S) \in Seq(S) /\ Range(Ordered(S)) = S
         /\ \A j, k \in DOMAIN Ordered(S) : Ordered(S)[j] = Ordered(S)[k] => j = k
<1> DEFINE n == Cardinality(S)
           f == Ordered(S)
<1>1. n \in Nat /\ ExistsBijection(1..n, S)
  BY FS_CardinalityType
<1>2. \E g \in [1..n -> S] : IsInjective(g)
  BY <1>1 DEF ExistsBijection, Bijection, Injection, IsInjective
<1>3. f \in [1..n -> S] /\ IsInjective(f)
  BY <1>2 DEF Ordered, SetToSeq
<1>4. \A j, k \in 1..n : f[j] = f[k] => j = k
  BY <1>3 DEF IsInjective
<1> HIDE DEF f
<1>5. f \in Injection(1..n, S)
  BY <1>3, <1>4 DEF Injection
<1>6. f \in Surjection(1..n, S)
  <2>1. Cardinality(1..n) = n
    BY <1>1, FS_Interval
  <2> QED BY <1>5, <2>1, FS_Injection
<1>7. Range(f) = S
  BY <1>3, <1>6 DEF Surjection, Range
<1>8. f \in Seq(S) /\ DOMAIN f = 1..n
  BY <1>1, <1>3
<1> QED BY <1>4, <1>7, <1>8 DEF f

-----------------------------------------------------------------------------
(* Images: what each view finds.                                           *)

Access == Paths \cup UNION {Range(q) : q \in Queries}
Spots == (1..Top) \X Paths
NoSpots == {Slash, Nowhere, Circle}

Locations ==
  [ref : NoSpots \cup Spots, access : Access \cup {<<>>}, mark : {"none", "visible", "hidden"}]
InImage == {l \in Locations : l.ref \in Spots /\ l.access \in Access}

\* A question by path, name or type.
Posed(q) ==
  \/ q.by = "path" /\ q.of \in Queries
  \/ q.by = "name" /\ \E p \in Paths : q.of = <<<<Last(p)>>>>
  \/ q.by = "type"

AskedFor(q) ==
  IF q.by = "path" THEN Range(q.of)
  ELSE IF q.by = "name" THEN {p \in Paths : Last(p) = q.of[1][1]} ELSE Paths

\* What an answer to a question may be.
Answers(q) ==
  {l \in Locations : /\ l.access \in AskedFor(q) /\ l.mark = "none" /\ ~Is(l.ref, "link")
                     /\ q.by = "type" => Is(l.ref, "file") /\ l.ref[2] = l.access}

\* What a search of the squashed view comes to.
Showing ==
  {l \in Locations : /\ l.mark = "none"
                     /\ \/ l = Nothing
                        \/ l.access \in Access /\ l.ref = SearchByPath(Squashed, l.access)}
InSquash ==
  {l \in InImage : l.mark = "none" /\ At(Squashed, l.ref) /\ l.ref = SearchByPath(Squashed, l.access)}

ByRef == [l \in Locations |-> l.ref]

LEMMA AccessFacts == \A p \in Access : IsList(p)
BY ImagesAssumption DEF Access

LEMMA ListFacts ==
  ASSUME NEW q \in Queries
  PROVE  q \in Seq(Range(q)) /\ Range(q) \subseteq Access
BY ImagesAssumption DEF Access, IsList

LEMMA MarkFacts ==
  ASSUME NEW ref, NEW access
  PROVE  /\ Location(ref, access).ref = ref /\ Location(ref, access).access = access
         /\ Location(ref, access).mark = "none"
         /\ ref \in NoSpots \cup Spots /\ access \in Access \cup {<<>>} => Location(ref, access) \in Locations
BY DEF Location, Locations

LEMMA FailedFacts ==
  /\ \A S \in SUBSET InImage : Failed \notin Seq(S)
  /\ Circle \notin Spots /\ Nowhere \notin Spots /\ Slash \notin Spots
<1>1. Circle \notin Spots /\ Nowhere \notin Spots /\ Slash \notin Spots
  BY DEF Spots, Circle, Nowhere, Slash
<1>2. ASSUME NEW S \in SUBSET InImage, Failed \in Seq(S) PROVE FALSE
  <2>1. Failed[1] \in S /\ Failed[1] = Location(Circle, <<>>)
    BY <1>2 DEF Failed
  <2>2. Failed[1].ref = Circle
    BY <2>1, MarkFacts
  <2> QED BY <1>1, <2>1, <2>2 DEF InImage
<1> QED BY <1>1, <1>2

LEMMA TopFacts ==
  ASSUME Scene
  PROVE  /\ Top \in Nat \ {0} /\ Top \in 1..Top /\ 1..Top \subseteq Nat
         /\ IsTree(Squashed, Top) /\ InDirs(Squashed)
<1>1. Top \in Nat \ {0}
  BY SceneFacts
<1>2. Top \in 1..Top
  BY <1>1
<1> QED BY <1>1, <1>2, SquashTrees DEF Squashed

LEMMA EndedFacts ==
  ASSUME Scene, NEW n \in 1..Top, NEW tree, IsTree(tree, n), NEW r, Ended(tree, r)
  PROVE  /\ ~Is(r, "link") /\ r \in NoSpots \cup Spots
         /\ r \notin NoSpots => At(tree, r) /\ r \in Spots /\ r[1] \in 1..n
<1>1. CASE r \in NoSpots
  BY <1>1, NowhereIs DEF NoSpots
<1>2. CASE r \notin NoSpots
  <2>1. At(tree, r)
    BY <1>2 DEF Ended, NoSpots
  <2> DEFINE p == r[2]
  <2>2. p \in Paths /\ r = tree[p] /\ r # Nowhere
    BY <2>1 DEF At
  <2> HIDE DEF p
  <2>3. r = <<r[1], p>> /\ r[1] \in 1..n /\ r[1] \in 1..Top
    BY <2>2, RefFacts
  <2>4. r \in Spots
    BY <2>2, <2>3 DEF Spots
  <2> QED BY <2>1, <2>3, <2>4 DEF At
<1> QED BY <1>1, <1>2

LEMMA LivingFacts ==
  ASSUME Scene, NEW n \in 1..Top, NEW tree, IsTree(tree, n), NEW p, IsList(p)
  PROVE  /\ SearchLiving(tree, p) \in NoSpots \cup Spots
         /\ \/ SearchLiving(tree, p) = SearchByPath(tree, p)
            \/ Is(SearchLiving(tree, p), "link")
<1> DEFINE r == SearchLiving(tree, p)
<1>1. r = SearchByPath(tree, p) \/ LinkIn(tree, r)
  BY LivingEnds
<1>2. SearchByPath(tree, p) \in NoSpots \cup Spots
  BY SearchEnds, EndedFacts
<1> HIDE DEF r
<1>3. ASSUME LinkIn(tree, r) PROVE r \in Spots /\ Is(r, "link")
  <2>1. PICK x \in Paths : r = tree[x] /\ Is(r, "link")
    BY <1>3 DEF LinkIn
  <2>2. r # Nowhere
    BY <2>1, NowhereIs
  <2>3. r = <<r[1], x>> /\ r[1] \in 1..Top
    BY <2>1, <2>2, RefFacts
  <2> QED BY <2>1, <2>3 DEF Spots
<1> QED BY <1>1, <1>2, <1>3 DEF r

LEMMA UniqueProper ==
  ASSUME NEW C \in SUBSET Locations, NEW S, \A l \in C : l.ref \notin NoSpots => l \in S,
         NEW found \in Seq(C), Unique(found) # Failed
  PROVE  /\ Unique(found) \in Seq(S) /\ Differ(Unique(found), ByRef)
         /\ Refs(Range(Unique(found))) = Refs(Range(found)) \ {Nowhere, Slash}
<1> DEFINE u == Unique(found)
<1>1. ~\E k \in DOMAIN found : found[k].ref = Circle
  BY DEF Unique
<1>2. \A l \in C : ByRef[l] = l.ref
  BY DEF ByRef
<1>3. /\ u \in Seq(C) /\ Differ(u, ByRef) /\ Range(u) \subseteq Range(found)
      /\ Refs(Range(u)) = Refs(Range(found)) \ {Nowhere, Slash}
  BY <1>1, <1>2, UniqueFacts
<1> HIDE DEF u
<1>4. ASSUME NEW k \in 1..Len(u) PROVE u[k] \in S
  <2>1. u[k] \in Range(u) /\ u[k] \in C
    BY <1>3 DEF Range
  <2>2. u[k].ref \notin {Nowhere, Slash}
    BY <1>3, <2>1 DEF Refs
  <2>3. u[k].ref # Circle
    BY <1>1, <1>3, <2>1 DEF Range
  <2> QED BY <2>1, <2>2, <2>3 DEF NoSpots
<1>5. u \in Seq(S)
  BY <1>3, <1>4
<1> QED BY <1>3, <1>5 DEF u

LEMMA ShowingFacts ==
  ASSUME Scene
  PROVE  /\ \A p \in Access : ShownAt(p) \in Showing
         /\ \A l \in Showing : l.ref \notin NoSpots => l \in InSquash
<1>1. ASSUME NEW p \in Access PROVE ShownAt(p) \in Showing
  <2> DEFINE r == SearchByPath(Squashed, p)
  <2>1. r \in NoSpots \cup Spots
    BY AccessFacts, TopFacts, SearchEnds, EndedFacts
  <2>2. ShownAt(p) = IF IsNoFile(r) THEN Nothing ELSE Location(r, p)
    BY DEF ShownAt
  <2>3. Nothing \in Locations /\ Nothing.mark = "none"
    BY MarkFacts DEF Nothing, NoSpots
  <2>4. /\ Location(r, p) \in Locations /\ Location(r, p).mark = "none"
        /\ Location(r, p).access = p /\ Location(r, p).ref = r
    <3> HIDE DEF r
    <3> QED BY <2>1, MarkFacts
  <2> QED BY <2>2, <2>3, <2>4 DEF Showing
<1>2. ASSUME NEW l \in Showing, l.ref \notin NoSpots PROVE l \in InSquash
  <2>1. Nothing.ref \in NoSpots
    BY MarkFacts DEF Nothing, NoSpots
  <2>2. l \in Locations /\ l.mark = "none" /\ l.access \in Access /\ l.ref = SearchByPath(Squashed, l.access)
    BY <1>2, <2>1 DEF Showing
  <2>3. At(Squashed, l.ref) /\ l.ref \in Spots
    BY <1>2, <2>2, AccessFacts, TopFacts, SearchEnds, EndedFacts
  <2> QED BY <2>2, <2>3 DEF InSquash, InImage
<1> QED BY <1>1, <1>2

LEMMA ShownList ==
  ASSUME Scene, NEW A \in SUBSET Access, NEW paths \in Seq(A), SquashByPaths(paths) # Failed
  PROVE  /\ SquashByPaths(paths) \in Seq(InSquash) /\ Differ(SquashByPaths(paths), ByRef)
         /\ \A p \in Range(paths) : ~IsNoFile(SearchByPath(Squashed, p)) =>
              SearchByPath(Squashed, p) \in Refs(Range(SquashByPaths(paths)))
<1> DEFINE found == [k \in DOMAIN paths |-> ShownAt(paths[k])]
<1>1. DOMAIN paths = 1..Len(paths) /\ Len(paths) \in Nat /\ \A k \in DOMAIN paths : paths[k] \in Access
  OBVIOUS
<1>2. found \in Seq(Showing) /\ DOMAIN found = DOMAIN paths
  BY <1>1, ShowingFacts
<1>3. Unique(found) = SquashByPaths(paths)
  BY DEF SquashByPaths
<1>4. \A k \in DOMAIN paths : found[k] = ShownAt(paths[k])
  OBVIOUS
<1>5. Showing \in SUBSET Locations
  BY DEF Showing
<1> HIDE DEF found
<1>6. /\ SquashByPaths(paths) \in Seq(InSquash) /\ Differ(SquashByPaths(paths), ByRef)
      /\ Refs(Range(SquashByPaths(paths))) = Refs(Range(found)) \ {Nowhere, Slash}
  BY <1>2, <1>3, <1>5, ShowingFacts, UniqueProper
<1>7. ASSUME NEW p \in Range(paths), ~IsNoFile(SearchByPath(Squashed, p))
      PROVE  SearchByPath(Squashed, p) \in Refs(Range(SquashByPaths(paths)))
  <2> DEFINE r == SearchByPath(Squashed, p)
  <2>1. PICK k \in DOMAIN paths : p = paths[k]
    BY DEF Range
  <2>2. ShownAt(p) = Location(r, p)
    BY <1>7 DEF ShownAt
  <2>3. found[k] = ShownAt(p) /\ found[k] \in Range(found)
    BY <1>2, <1>4, <2>1 DEF Range
  <2> HIDE DEF r
  <2>4. r \in Refs(Range(found))
    BY <2>2, <2>3, MarkFacts DEF Refs
  <2>5. r \notin {Nowhere, Slash}
    BY <1>7 DEF IsNoFile, r
  <2> QED BY <1>6, <2>4, <2>5 DEF r
<1> QED BY <1>6, <1>7


LEMMA MatchedFacts ==
  ASSUME NEW tree, NEW name
  PROVE  /\ Matched(tree, name) \in Seq({p \in Paths : Last(p) = name})
         /\ Range(Matched(tree, name)) =
              {p \in Paths : Last(p) = name /\ tree[p] # Nowhere /\ SearchByPath(tree, p) # Circle}
<1> DEFINE S == {p \in Paths : Last(p) = name /\ tree[p] # Nowhere /\ SearchByPath(tree, p) # Circle}
<1>1. S \subseteq Paths /\ S \subseteq {p \in Paths : Last(p) = name}
  OBVIOUS
<1> HIDE DEF S
<1>2. IsFiniteSet(S)
  BY <1>1, ImagesAssumption, FS_Subset
<1>3. Ordered(S) \in Seq(S) /\ Range(Ordered(S)) = S
  BY <1>2, OrderedFacts
<1>4. Ordered(S) \in Seq({p \in Paths : Last(p) = name})
  BY <1>1, <1>3
<1> QED BY <1>3, <1>4 DEF S, Matched

LEMMA OfTypeFacts ==
  ASSUME NEW tree
  PROVE  /\ OfType(tree) \in Seq({p \in Paths : Is(tree[p], "file")})
         /\ Range(OfType(tree)) = {p \in Paths : Is(tree[p], "file")}
<1> DEFINE S == {p \in Paths : Is(tree[p], "file")}
<1>1. S \subseteq Paths
  OBVIOUS
<1> HIDE DEF S
<1>2. IsFiniteSet(S)
  BY <1>1, ImagesAssumption, FS_Subset
<1> QED BY <1>2, OrderedFacts DEF S, OfType

\* What the squashed view answers.
LEMMA SquashAnswers ==
  ASSUME Scene, NEW q, Posed(q), OfSquash(q) # Failed
  PROVE  /\ OfSquash(q) \in Seq(InSquash) /\ Differ(OfSquash(q), ByRef)
         /\ \A l \in Answers(q) \cap InImage :
              l.ref = SearchByPath(Squashed, l.access) /\ ~IsNoFile(l.ref)
              => l.ref \in Refs(Range(OfSquash(q)))
<1> DEFINE s == OfSquash(q)
<1>1. CASE q.by = "path"
  <2>1. q.of \in Queries /\ s = SquashByPaths(q.of)
    BY <1>1 DEF Posed, OfSquash
  <2>2. q.of \in Seq(Range(q.of)) /\ Range(q.of) \in SUBSET Access
    BY <2>1, ListFacts
  <2>3. /\ s \in Seq(InSquash) /\ Differ(s, ByRef)
        /\ \A p \in Range(q.of) : ~IsNoFile(SearchByPath(Squashed, p)) =>
              SearchByPath(Squashed, p) \in Refs(Range(s))
    BY <2>1, <2>2, ShownList
  <2>4. \A l \in Answers(q) : l.access \in Range(q.of)
    BY <1>1 DEF Answers, AskedFor
  <2> QED BY <2>3, <2>4
<1>2. CASE q.by = "name"
  <2> DEFINE name == q.of[1][1]
             paths == Matched(Squashed, name)
             named == {p \in Paths : Last(p) = name}
  <2>1. s = SquashByPaths(paths)
    BY <1>2 DEF OfSquash, SquashByName
  <2>2. /\ paths \in Seq(named) /\ named \in SUBSET Access
        /\ Range(paths) = {p \in Paths : Last(p) = name /\ Squashed[p] # Nowhere
                                         /\ SearchByPath(Squashed, p) # Circle}
    BY MatchedFacts DEF Access
  <2> HIDE DEF paths, named
  <2>3. /\ s \in Seq(InSquash) /\ Differ(s, ByRef)
        /\ \A p \in Range(paths) : ~IsNoFile(SearchByPath(Squashed, p)) =>
              SearchByPath(Squashed, p) \in Refs(Range(s))
    BY <2>1, <2>2, ShownList
  <2>4. ASSUME NEW l \in Answers(q) \cap InImage, l.ref = SearchByPath(Squashed, l.access),
               ~IsNoFile(l.ref)
        PROVE  l.ref \in Refs(Range(s))
    <3>1. l.access \in Paths /\ Last(l.access) = name
      BY <1>2 DEF Answers, AskedFor
    <3>2. l.ref \notin NoSpots /\ l.ref # Circle
      BY FailedFacts DEF NoSpots, InImage
    <3>3. IsTree(Squashed, Top) /\ Top \in 1..Top /\ IsList(l.access)
      BY <3>1, PathFacts, TopFacts
    <3>4. At(Squashed, l.ref)
      BY <2>4, <3>2, <3>3, SearchEnds, EndedFacts
    <3>5. PICK x \in Paths : /\ Last(x) = Last(l.access) /\ Squashed[x] # Nowhere
                             /\ SearchByPath(Squashed, x) = SearchByPath(Squashed, l.access)
      BY <2>4, <3>1, <3>3, <3>4, FoundAtEnd
    <3> QED BY <2>2, <2>3, <2>4, <3>1, <3>2, <3>5
  <2> QED BY <2>3, <2>4
<1>3. CASE q.by \notin {"path", "name"}
  <2> DEFINE paths == OfType(Squashed)
             found == [k \in DOMAIN paths |-> Location(Squashed[paths[k]], paths[k])]
  <2>1. s = Unique(found) /\ q.by = "type"
    BY <1>3 DEF OfSquash, SquashByType, Posed
  <2>2. /\ paths \in Seq({p \in Paths : Is(Squashed[p], "file")})
        /\ Range(paths) = {p \in Paths : Is(Squashed[p], "file")}
    BY OfTypeFacts
  <2> HIDE DEF paths
  <2>3. ASSUME NEW p \in Paths, Is(Squashed[p], "file")
        PROVE  /\ Location(Squashed[p], p) \in Showing
               /\ Location(Squashed[p], p).ref = Squashed[p]
    <3>1. Squashed[p] # Nowhere /\ ~Is(Squashed[p], "link")
      BY <2>3, NowhereIs DEF Is
    <3>2. SearchByPath(Squashed, p) = Squashed[p]
      BY <3>1, TopFacts, FoundWhereItIs DEF SearchByPath
    <3>3. Squashed[p] \in NoSpots \cup Spots
      BY <3>2, PathFacts, TopFacts, SearchEnds, EndedFacts
    <3>4. p \in Access
      BY DEF Access
    <3> QED BY <3>2, <3>3, <3>4, MarkFacts DEF Showing
  <2>4. /\ found \in Seq(Showing) /\ DOMAIN found = DOMAIN paths
        /\ \A k \in DOMAIN paths : found[k] = Location(Squashed[paths[k]], paths[k])
    BY <2>2, <2>3
  <2> HIDE DEF found
  <2>5. Showing \in SUBSET Locations
    BY DEF Showing
  <2>6. /\ s \in Seq(InSquash) /\ Differ(s, ByRef)
        /\ Refs(Range(s)) = Refs(Range(found)) \ {Nowhere, Slash}
    BY <2>1, <2>4, <2>5, ShowingFacts, UniqueProper
  <2>7. ASSUME NEW l \in Answers(q) \cap InImage, l.ref = SearchByPath(Squashed, l.access),
               ~IsNoFile(l.ref)
        PROVE  l.ref \in Refs(Range(s))
    <3>1. l.ref \notin NoSpots /\ Is(l.ref, "file") /\ l.ref[2] = l.access /\ l.access \in Paths
      BY <2>1, FailedFacts DEF NoSpots, InImage, Answers, AskedFor
    <3>2. At(Squashed, l.ref)
      BY <2>7, <3>1, PathFacts, TopFacts, SearchEnds, EndedFacts
    <3>3. Squashed[l.access] = l.ref
      BY <3>1, <3>2 DEF At
    <3>4. PICK k \in DOMAIN paths : paths[k] = l.access
      BY <2>2, <3>1, <3>3 DEF Range
    <3>5. found[k] \in Range(found) /\ found[k].ref = l.ref
      BY <2>3, <2>4, <3>1, <3>3, <3>4 DEF Range
    <3>6. l.ref \in Refs(Range(found))
      BY <3>5 DEF Refs
    <3> QED BY <2>6, <3>1, <3>6 DEF NoSpots
  <2> QED BY <2>6, <2>7
<1> QED BY <1>1, <1>2, <1>3

\* Seq of less.
LEMMA SmallerList ==
  ASSUME NEW S, NEW T, S \subseteq T, NEW s \in Seq(S)
  PROVE  s \in Seq(T)
OBVIOUS

LEMMA FileByRefFacts ==
  ASSUME Scene, NEW ref \in NoSpots \cup Spots, NEW access \in Access
  PROVE  FileByRef(ref, access) \in
           Seq({l \in Locations : l.access = access /\ l.mark = "none" /\ ~Is(l.ref, "link")})
<1> DEFINE S == {l \in Locations : l.access = access /\ l.mark = "none" /\ ~Is(l.ref, "link")}
<1>1. \A r \in NoSpots \cup Spots : ~Is(r, "link") => Location(r, access) \in S
  BY MarkFacts
<1> HIDE DEF S
<1>2. CASE IsNoFile(ref)
  BY <1>2 DEF FileByRef
<1>3. CASE ~IsNoFile(ref) /\ Is(ref, "link")
  <2>1. ref \in Spots
    BY <1>3, NowhereIs DEF NoSpots
  <2>2. ref[1] \in 1..Top /\ ref[2] \in Paths
    BY <2>1 DEF Spots
  <2> DEFINE n == Top - ref[1] + 1
             found(k) == SearchByPath(squashes[ref[1] + k - 1], ref[2])
  <2>3. FileByRef(ref, access) = [k \in 1..n |-> Location(found(k), access)] /\ n \in Nat
    BY <1>3, <2>2, TopFacts DEF FileByRef
  <2>4. ASSUME NEW k \in 1..n PROVE Location(found(k), access) \in S
    <3>1. ref[1] + k - 1 \in 1..Top
      BY <2>2, TopFacts
    <3>2. IsTree(squashes[ref[1] + k - 1], ref[1] + k - 1)
      BY <3>1, SquashTrees
    <3>3. ~Is(found(k), "link") /\ found(k) \in NoSpots \cup Spots
      BY <2>2, <3>1, <3>2, PathFacts, SearchEnds, EndedFacts
    <3> HIDE DEF found
    <3> QED BY <1>1, <3>3
  <2> HIDE DEF n, found
  <2> QED BY <2>3, <2>4 DEF S
<1>4. CASE ~IsNoFile(ref) /\ ~Is(ref, "link")
  BY <1>1, <1>4 DEF FileByRef, S
<1> QED BY <1>2, <1>3, <1>4 DEF S

\* What all layers answer.
LEMMA LayersAnswers ==
  ASSUME Scene, NEW q, Posed(q), OfLayers(q) # Failed
  PROVE  OfLayers(q) \in Seq(Answers(q) \cap InImage) /\ Differ(OfLayers(q), ByRef)
<1> DEFINE S == Answers(q)
           N == Top
<1>1. Answers(q) \in SUBSET Locations
  BY DEF Answers
<1>2. AskedFor(q) \subseteq Access
  <2>1. CASE q.by = "path"
    BY <2>1, ListFacts DEF Posed, AskedFor
  <2>2. CASE q.by # "path"
    BY <2>2 DEF AskedFor, Access
  <2> QED BY <2>1, <2>2
<1>3. \A l \in Answers(q) : l.ref \notin NoSpots => l \in Answers(q) \cap InImage
  BY <1>2 DEF Answers, Locations, InImage
<1>4. ASSUME NEW ss \in Seq(Seq(S)), OfLayers(q) = Unique(FlattenSeq(ss))
      PROVE  OfLayers(q) \in Seq(S \cap InImage) /\ Differ(OfLayers(q), ByRef)
  <2>1. FlattenSeq(ss) \in Seq(S)
    BY FlatFacts
  <2> QED BY <1>1, <1>3, <1>4, <2>1, UniqueProper
<1>5. ASSUME NEW ref \in NoSpots \cup Spots, NEW access \in AskedFor(q), q.by # "type"
      PROVE  FileByRef(ref, access) \in Seq(S)
  <2> DEFINE T == {l \in Locations : l.access = access /\ l.mark = "none" /\ ~Is(l.ref, "link")}
  <2>1. FileByRef(ref, access) \in Seq(T)
    BY <1>2, FileByRefFacts
  <2>2. T \subseteq S
    BY <1>5 DEF Answers
  <2> HIDE DEF T, S
  <2> QED BY <2>1, <2>2, SmallerList
<1>6. N \in Nat
  BY TopFacts
<1>7. CASE q.by = "path"
  <2>1. q.of \in Queries /\ AskedFor(q) = Range(q.of)
    BY <1>7 DEF Posed, AskedFor
  <2>2. q.of \in Seq(Range(q.of))
    BY <2>1, ListFacts
  <2>3. ASSUME NEW p \in AskedFor(q) PROVE InLayers(p) \in Seq(S)
    <3> DEFINE came(i) == FileByRef(SearchLiving(OwnTree(i), p), p)
    <3>1. ASSUME NEW i \in 1..N PROVE came(i) \in Seq(S)
      <4>1. IsList(p)
        BY <1>2, AccessFacts
      <4>2. SearchLiving(OwnTree(i), p) \in NoSpots \cup Spots
        BY <4>1, OwnTrees, LivingFacts
      <4> QED BY <1>5, <1>7, <4>2
    <3> HIDE DEF came, S
    <3>2. [i \in 1..N |-> came(i)] \in Seq(Seq(S))
      BY <1>6, <3>1
    <3>3. InLayers(p) = FlattenSeq([i \in 1..N |-> came(i)])
      BY DEF InLayers, came
    <3> QED BY <3>2, <3>3, FlatFacts
  <2> DEFINE ss == [k \in DOMAIN q.of |-> InLayers(q.of[k])]
  <2>4. ss \in Seq(Seq(S))
    <3>1. DOMAIN q.of = 1..Len(q.of) /\ Len(q.of) \in Nat /\ \A k \in DOMAIN q.of : q.of[k] \in AskedFor(q)
      BY <2>1, <2>2
    <3> HIDE DEF S
    <3> QED BY <2>3, <3>1
  <2>5. OfLayers(q) = Unique(FlattenSeq(ss))
    BY <1>7 DEF OfLayers, LayersByPaths
  <2> HIDE DEF ss, S
  <2> QED BY <1>4, <2>4, <2>5 DEF S
<1>8. CASE q.by = "name"
  <2> DEFINE name == q.of[1][1]
  <2>1. AskedFor(q) = {p \in Paths : Last(p) = name}
    BY <1>8 DEF AskedFor
  <2>2. ASSUME NEW i \in 1..N PROVE NamedIn(i, name) \in Seq(S)
    <3> DEFINE paths == Matched(squashes[i], name)
               came(p) == FileByRef(SearchLiving(squashes[i], p), p)
    <3>1. paths \in Seq(AskedFor(q))
      BY <2>1, MatchedFacts
    <3>2. ASSUME NEW p \in AskedFor(q) PROVE came(p) \in Seq(S)
      <4>1. IsList(p)
        BY <1>2, AccessFacts
      <4>2. SearchLiving(squashes[i], p) \in NoSpots \cup Spots
        BY <4>1, SquashTrees, LivingFacts
      <4> QED BY <1>5, <1>8, <4>2
    <3>3. NamedIn(i, name) = FlattenSeq([k \in DOMAIN paths |-> came(paths[k])])
      BY DEF NamedIn
    <3> HIDE DEF paths, came, S
    <3>4. DOMAIN paths = 1..Len(paths) /\ Len(paths) \in Nat /\ \A k \in DOMAIN paths : paths[k] \in AskedFor(q)
      BY <3>1
    <3>5. [k \in DOMAIN paths |-> came(paths[k])] \in Seq(Seq(S))
      BY <3>2, <3>4
    <3> QED BY <3>3, <3>5, FlatFacts
  <2> DEFINE ss == [i \in 1..N |-> NamedIn(i, name)]
  <2>3. ss \in Seq(Seq(S))
    <3> HIDE DEF S, name
    <3> QED BY <1>6, <2>2
  <2>4. OfLayers(q) = Unique(FlattenSeq(ss))
    BY <1>8 DEF OfLayers, LayersByName
  <2> HIDE DEF ss, S
  <2> QED BY <1>4, <2>3, <2>4 DEF S
<1>9. CASE q.by \notin {"path", "name"}
  <2>1. q.by = "type" /\ AskedFor(q) = Paths
    BY <1>9 DEF Posed, AskedFor
  <2>2. ASSUME NEW i \in 1..N PROVE TypedIn(i) \in Seq(S)
    <3> DEFINE paths == OfType(OwnTree(i))
               came(p) == FileByRef(<<i, p>>, p)
               files == {p \in Paths : Is(OwnTree(i)[p], "file")}
    <3>1. paths \in Seq(files)
      BY OfTypeFacts
    <3>2. ASSUME NEW p \in files PROVE came(p) \in Seq(S)
      <4>1. OwnTree(i)[p] = <<i, p>>
        BY NowhereIs DEF OwnTree
      <4>2. Is(<<i, p>>, "file") /\ p \in Paths
        BY <4>1
      <4>3. <<i, p>> \in Spots /\ p \in Access
        BY <4>2 DEF Spots, Access
      <4>4. <<i, p>> \notin {Nowhere, Slash} /\ ~Is(<<i, p>>, "link") /\ ~Is(<<i, p>>, "dir")
        BY <4>2, <4>3, FailedFacts DEF Is
      <4>5. came(p) = <<Location(<<i, p>>, p)>>
        BY <4>4 DEF FileByRef, IsNoFile
      <4>6. Location(<<i, p>>, p) \in S
        BY <2>1, <4>2, <4>3, <4>4, MarkFacts DEF Answers
      <4> HIDE DEF came, S
      <4> QED BY <4>5, <4>6
    <3>3. TypedIn(i) = FlattenSeq([k \in DOMAIN paths |-> came(paths[k])])
      BY DEF TypedIn
    <3> HIDE DEF paths, came, S, files
    <3>4. DOMAIN paths = 1..Len(paths) /\ Len(paths) \in Nat /\ \A k \in DOMAIN paths : paths[k] \in files
      BY <3>1
    <3>5. [k \in DOMAIN paths |-> came(paths[k])] \in Seq(Seq(S))
      BY <3>2, <3>4
    <3> QED BY <3>3, <3>5, FlatFacts
  <2> DEFINE ss == [i \in 1..N |-> TypedIn(i)]
  <2>3. ss \in Seq(Seq(S))
    <3> HIDE DEF S
    <3> QED BY <1>6, <2>2
  <2>4. OfLayers(q) = Unique(FlattenSeq(ss))
    BY <1>9 DEF OfLayers, LayersByType
  <2> HIDE DEF ss, S
  <2> QED BY <1>4, <2>3, <2>4 DEF S
<1> QED BY <1>7, <1>8, <1>9

Itself == [l \in Locations |-> l]

Marks == {"none", "visible", "hidden"}
AnyMark(L) == L \in SUBSET InImage /\ \A l \in L, m \in Marks : [l EXCEPT !.mark = m] \in L

LEMMA AnyMarkFacts ==
  AnyMark(InImage) /\ AnyMark({l \in InImage : ~Is(l.ref, "link")})
<1>1. ASSUME NEW l \in InImage, NEW m \in Marks
      PROVE  /\ [l EXCEPT !.mark = m] \in InImage
             /\ [l EXCEPT !.mark = m].ref = l.ref /\ [l EXCEPT !.mark = m].access = l.access
  BY DEF InImage, Locations, Marks
<1> QED BY <1>1 DEF AnyMark

\* t is s with the marks m.
HasMarks(t, s, m) == t = [k \in DOMAIN s |-> [s[k] EXCEPT !.mark = m[k]]]

LEMMA MarkedFacts ==
  ASSUME NEW L, AnyMark(L), NEW s \in Seq(L), Differ(s, ByRef), NEW m \in [DOMAIN s -> Marks],
         NEW t, HasMarks(t, s, m)
  PROVE  /\ t \in Seq(L) /\ DOMAIN t = DOMAIN s /\ Differ(t, ByRef) /\ Differ(t, Itself)
         /\ \A k \in DOMAIN s : /\ t[k].ref = s[k].ref /\ t[k].access = s[k].access
                                /\ t[k].mark = m[k]
<1>1. DOMAIN s = 1..Len(s) /\ Len(s) \in Nat /\ \A k \in DOMAIN s : s[k] \in L /\ s[k] \in Locations
  BY DEF AnyMark, InImage
<1>2. /\ DOMAIN t = DOMAIN s
      /\ \A k \in DOMAIN s : t[k] = [s[k] EXCEPT !.mark = m[k]] /\ m[k] \in Marks
  BY DEF HasMarks
<1>3. t = [k \in DOMAIN s |-> t[k]]
  BY DEF HasMarks
<1>4. \A k \in DOMAIN s : /\ t[k] \in L /\ t[k].ref = s[k].ref /\ t[k].access = s[k].access
                          /\ t[k].mark = m[k] /\ t[k] \in Locations
  BY <1>1, <1>2 DEF AnyMark, Locations, InImage
<1>5. t \in Seq(L)
  BY <1>1, <1>3, <1>4
<1>6. \A k \in DOMAIN s : ByRef[s[k]] = s[k].ref /\ ByRef[t[k]] = s[k].ref /\ Itself[t[k]] = t[k]
  BY <1>1, <1>4 DEF ByRef, Itself
<1>7. Differ(t, ByRef)
  BY <1>2, <1>6 DEF Differ
<1>8. Differ(t, Itself)
  BY <1>2, <1>6, <1>7 DEF Differ
<1> QED BY <1>2, <1>4, <1>5, <1>7, <1>8

LEMMA AnnotatedFacts ==
  ASSUME NEW L, AnyMark(L), NEW s \in Seq(L), Differ(s, ByRef)
  PROVE  /\ Annotated(s) \in Seq(L) /\ Differ(Annotated(s), Itself) /\ DOMAIN Annotated(s) = DOMAIN s
         /\ \A k \in DOMAIN s :
              /\ Annotated(s)[k].ref = s[k].ref /\ Annotated(s)[k].access = s[k].access
              /\ Annotated(s)[k].mark = "visible" => SearchLiving(Squashed, s[k].access) = s[k].ref
<1> DEFINE m == [k \in DOMAIN s |->
                   IF /\ SearchLiving(Squashed, s[k].ref[2]) = s[k].ref
                      /\ SearchLiving(Squashed, s[k].access) = s[k].ref
                   THEN "visible" ELSE "hidden"]
<1>1. s # Failed
  BY FailedFacts DEF AnyMark
<1>2. m \in [DOMAIN s -> Marks]
  BY DEF Marks
<1>3. Annotated(s) = [k \in DOMAIN s |-> [s[k] EXCEPT !.mark = m[k]]]
  BY <1>1 DEF Annotated, Annotate
<1>4. \A k \in DOMAIN s : m[k] = "visible" => SearchLiving(Squashed, s[k].access) = s[k].ref
  OBVIOUS
<1> HIDE DEF m
<1> DEFINE t == Annotated(s)
<1> HIDE DEF t
<1>5. HasMarks(t, s, m)
  BY <1>3 DEF t, HasMarks
<1>6. /\ t \in Seq(L) /\ DOMAIN t = DOMAIN s /\ Differ(t, Itself)
      /\ \A k \in DOMAIN s : t[k].ref = s[k].ref /\ t[k].access = s[k].access /\ t[k].mark = m[k]
  BY <1>2, <1>5, MarkedFacts
<1> QED BY <1>4, <1>6 DEF t

\* The two parts of what the deep view finds: all that is visible, and what is
\* hidden in layers at paths that are visible.
Beneath(squashed, all) ==
  Only(all, {l \in Range(all) \ Range(squashed) : HasPath(l.ref[2]) /\ HasPath(l.access)})

LEMMA MergedFacts ==
  ASSUME NEW L, AnyMark(L), NEW s \in Seq(L), Differ(s, ByRef), NEW t \in Seq(L), Differ(t, ByRef),
         s # <<>>
  PROVE  LET merged == MergeLocations(s, t)
             v == Marked(s, "visible")
             h == Marked(Beneath(s, t), "hidden")
         IN  /\ merged \in Seq(L) /\ Differ(merged, Itself) /\ Range(merged) = Range(v) \cup Range(h)
             /\ DOMAIN v = DOMAIN s
             /\ \A k \in DOMAIN s : /\ v[k].ref = s[k].ref /\ v[k].access = s[k].access
                                    /\ v[k].mark = "visible"
             /\ \A l \in Range(h) : l.mark = "hidden" /\ HasPath(l.ref[2]) /\ HasPath(l.access)
<1> DEFINE merged == MergeLocations(s, t)
           v == Marked(s, "visible")
           below == Beneath(s, t)
           h == Marked(below, "hidden")
           always(r, m) == [k \in DOMAIN r |-> m]
<1>1. s # Failed /\ t # Failed
  BY FailedFacts DEF AnyMark
<1>2. merged = v \o h
  BY <1>1 DEF MergeLocations, Beneath
<1>3. /\ below \in Seq(L) /\ Differ(below, ByRef)
      /\ \A l \in Range(below) : HasPath(l.ref[2]) /\ HasPath(l.access)
  BY OnlyFacts DEF Beneath
<1>4. /\ v \in Seq(L) /\ DOMAIN v = DOMAIN s /\ Differ(v, Itself)
      /\ \A k \in DOMAIN s : /\ v[k].ref = s[k].ref /\ v[k].access = s[k].access
                             /\ v[k].mark = "visible"
  <2> DEFINE m == always(s, "visible")
  <2>1. /\ m \in [DOMAIN s -> Marks] /\ \A k \in DOMAIN s : m[k] = "visible"
        /\ HasMarks(v, s, m)
    BY DEF Marks, Marked, HasMarks
  <2> HIDE DEF m, v
  <2>2. /\ v \in Seq(L) /\ DOMAIN v = DOMAIN s /\ Differ(v, Itself)
        /\ \A k \in DOMAIN s : v[k].ref = s[k].ref /\ v[k].access = s[k].access /\ v[k].mark = m[k]
    BY <2>1, MarkedFacts
  <2> QED BY <2>1, <2>2
<1>5. /\ h \in Seq(L) /\ DOMAIN h = DOMAIN below /\ Differ(h, Itself)
      /\ \A k \in DOMAIN below : /\ h[k].ref = below[k].ref /\ h[k].access = below[k].access
                                 /\ h[k].mark = "hidden"
  <2> DEFINE m == always(below, "hidden")
  <2>1. /\ m \in [DOMAIN below -> Marks] /\ \A k \in DOMAIN below : m[k] = "hidden"
        /\ HasMarks(h, below, m)
    BY DEF Marks, Marked, HasMarks
  <2> HIDE DEF m, h, below
  <2>2. /\ h \in Seq(L) /\ DOMAIN h = DOMAIN below /\ Differ(h, Itself)
        /\ \A k \in DOMAIN below : /\ h[k].ref = below[k].ref /\ h[k].access = below[k].access
                                   /\ h[k].mark = m[k]
    BY <1>3, <2>1, MarkedFacts
  <2> QED BY <2>1, <2>2
<1> HIDE DEF v, h, below
<1>6. /\ Len(v) \in Nat /\ Len(h) \in Nat /\ DOMAIN v = 1..Len(v) /\ DOMAIN h = 1..Len(h)
      /\ v \o h \in Seq(L) /\ Len(v \o h) = Len(v) + Len(h)
      /\ \A k \in 1..Len(v) : (v \o h)[k] = v[k]
      /\ \A k \in 1..Len(h) : (v \o h)[Len(v) + k] = h[k]
  BY <1>4, <1>5
<1>7. DOMAIN (v \o h) = 1..(Len(v) + Len(h))
  BY <1>6
<1>8. ASSUME NEW k \in 1..(Len(v) + Len(h))
      PROVE  \/ k \in 1..Len(v)
             \/ k - Len(v) \in 1..Len(h) /\ k = Len(v) + (k - Len(v))
  BY <1>6
<1> DEFINE w == v \o h
<1>9. /\ \A k \in 1..Len(v) : w[k] = v[k] /\ w[k].mark = "visible" /\ v[k] \in L
      /\ \A k \in 1..Len(h) : w[Len(v) + k] = h[k] /\ w[Len(v) + k].mark = "hidden" /\ h[k] \in L
  <2>1. \A k \in 1..Len(v) : w[k] = v[k] /\ v[k].mark = "visible" /\ v[k] \in L
    <3>1. \A k \in 1..Len(v) : w[k] = v[k]
      BY <1>6
    <3>2. \A k \in 1..Len(v) : v[k] \in L
      BY <1>4
    <3>3. \A k \in 1..Len(v) : v[k].mark = "visible"
      BY <1>4, <1>6
    <3> QED BY <3>1, <3>2, <3>3
  <2>2. \A k \in 1..Len(h) : w[Len(v) + k] = h[k] /\ h[k].mark = "hidden" /\ h[k] \in L
    <3>1. \A k \in 1..Len(h) : w[Len(v) + k] = h[k]
      BY <1>6
    <3>2. \A k \in 1..Len(h) : h[k] \in L
      BY <1>5
    <3>3. \A k \in 1..Len(h) : h[k].mark = "hidden"
      BY <1>5, <1>6
    <3> QED BY <3>1, <3>2, <3>3
  <2> QED BY <2>1, <2>2
<1>10. L \subseteq Locations
  BY DEF AnyMark, InImage
<1>11. w \in Seq(L) /\ DOMAIN w = 1..(Len(v) + Len(h))
  BY <1>6, <1>7
<1> HIDE DEF w
<1>12. Differ(w, Itself)
  <2> SUFFICES ASSUME NEW j \in 1..(Len(v) + Len(h)), NEW k \in 1..(Len(v) + Len(h)), w[j] = w[k]
               PROVE  j = k
    <3>1. \A k \in DOMAIN w : Itself[w[k]] = w[k]
      BY <1>10, <1>11 DEF Itself
    <3> QED BY <1>11, <3>1 DEF Differ
  <2>1. CASE j \in 1..Len(v) /\ k \in 1..Len(v)
    <3>1. v[j] = v[k] /\ v[j] \in Locations /\ v[k] \in Locations
      BY <1>9, <1>10, <2>1
    <3> QED BY <1>4, <1>6, <2>1, <3>1 DEF Differ, Itself
  <2>2. CASE j \in 1..Len(v) /\ k \notin 1..Len(v)
    <3> DEFINE b == k - Len(v)
    <3>1. b \in 1..Len(h) /\ k = Len(v) + b
      BY <1>8, <2>2
    <3> HIDE DEF b
    <3>2. w[j].mark = "visible" /\ w[k].mark = "hidden"
      BY <1>9, <2>2, <3>1
    <3> QED BY <3>2
  <2>3. CASE j \notin 1..Len(v) /\ k \in 1..Len(v)
    <3> DEFINE a == j - Len(v)
    <3>1. a \in 1..Len(h) /\ j = Len(v) + a
      BY <1>8, <2>3
    <3> HIDE DEF a
    <3>2. w[k].mark = "visible" /\ w[j].mark = "hidden"
      BY <1>9, <2>3, <3>1
    <3> QED BY <3>2
  <2>4. CASE j \notin 1..Len(v) /\ k \notin 1..Len(v)
    <3> DEFINE a == j - Len(v)
               b == k - Len(v)
    <3>1. a \in 1..Len(h) /\ b \in 1..Len(h) /\ j = Len(v) + a /\ k = Len(v) + b
      BY <1>8, <2>4
    <3> HIDE DEF a, b
    <3>2. h[a] = h[b] /\ h[a] \in Locations /\ h[b] \in Locations
      BY <1>9, <1>10, <3>1
    <3>3. a = b
      BY <1>5, <1>6, <3>1, <3>2 DEF Differ, Itself
    <3> QED BY <3>1, <3>3
  <2> QED BY <2>1, <2>2, <2>3, <2>4
<1>13. Range(w) = Range(v) \cup Range(h)
  <2>1. ASSUME NEW x \in Range(w) PROVE x \in Range(v) \cup Range(h)
    <3>1. PICK k \in 1..(Len(v) + Len(h)) : x = w[k]
      BY <1>11 DEF Range
    <3>2. CASE k \in 1..Len(v)
      BY <1>6, <1>9, <3>1, <3>2 DEF Range
    <3>3. CASE k \notin 1..Len(v)
      <4>1. k - Len(v) \in 1..Len(h) /\ x = h[k - Len(v)]
        BY <1>8, <1>9, <3>1, <3>3
      <4> QED BY <1>6, <4>1 DEF Range
    <3> QED BY <3>2, <3>3
  <2>2. ASSUME NEW x \in Range(v) PROVE x \in Range(w)
    <3>1. PICK k \in 1..Len(v) : x = v[k]
      BY <1>6, <2>2 DEF Range
    <3>2. k \in DOMAIN w /\ x = w[k]
      BY <1>6, <1>9, <1>11, <3>1
    <3> QED BY <3>2 DEF Range
  <2>3. ASSUME NEW x \in Range(h) PROVE x \in Range(w)
    <3>1. PICK k \in 1..Len(h) : x = h[k]
      BY <1>6, <2>3 DEF Range
    <3>2. Len(v) + k \in DOMAIN w /\ x = w[Len(v) + k]
      BY <1>6, <1>9, <1>11, <3>1
    <3> QED BY <3>2 DEF Range
  <2> QED BY <2>1, <2>2, <2>3
<1>14. \A l \in Range(h) : l.mark = "hidden" /\ HasPath(l.ref[2]) /\ HasPath(l.access)
  <2> SUFFICES ASSUME NEW l \in Range(h)
               PROVE  l.mark = "hidden" /\ HasPath(l.ref[2]) /\ HasPath(l.access)
    OBVIOUS
  <2>1. PICK k \in DOMAIN below : l = h[k]
    BY <1>5 DEF Range
  <2>2. below[k] \in Range(below) /\ l.ref = below[k].ref /\ l.access = below[k].access
    BY <1>5, <2>1 DEF Range
  <2> QED BY <1>3, <1>5, <2>1, <2>2
<1> QED BY <1>2, <1>4, <1>11, <1>12, <1>13, <1>14 DEF v, h, below, w

Proper(list, L) == list = Failed \/ (list \in Seq(L) /\ Differ(list, ByRef))

LEMMA ViewFacts ==
  ASSUME NEW L, AnyMark(L), NEW s, Proper(s, L), NEW t, Proper(t, L),
         NEW v \in {"squashed", "all", "deep"}, View(v, s, t) # Failed
  PROVE  View(v, s, t) \in Seq(L) /\ Differ(View(v, s, t), Itself)
<1>1. CASE v = "squashed"
  <2>1. View(v, s, t) = s /\ s \in Seq(L) /\ Differ(s, ByRef)
    BY <1>1 DEF View, Proper
  <2>2. \A k \in DOMAIN s : s[k] \in Locations
    BY <2>1 DEF AnyMark, InImage
  <2> QED BY <2>1, <2>2 DEF Differ, ByRef, Itself
<1>2. CASE v = "all"
  <2>1. View(v, s, t) = Annotated(t)
    BY <1>2 DEF View
  <2>2. t # Failed
    BY <2>1 DEF Annotated
  <2> QED BY <2>1, <2>2, AnnotatedFacts DEF Proper
<1>3. CASE v = "deep"
  <2>1. View(v, s, t) = MergeLocations(s, t)
    BY <1>3 DEF View
  <2>2. s # Failed
    BY <2>1 DEF MergeLocations
  <2>3. CASE s = <<>>
    <3>1. View(v, s, t) = <<>>
      BY <2>1, <2>2, <2>3 DEF MergeLocations
    <3> QED BY <3>1, NoneInRange DEF Differ
  <2>4. CASE s # <<>>
    <3>1. t # Failed
      BY <2>1, <2>2, <2>4 DEF MergeLocations
    <3> QED BY <2>1, <2>2, <2>4, <3>1, MergedFacts DEF Proper
  <2> QED BY <2>3, <2>4
<1> QED BY <1>1, <1>2, <1>3

LEMMA FilterFacts ==
  ASSUME NEW L \in SUBSET InImage, NEW list \in Seq(L)
  PROVE  /\ Filter(list) \in Seq(L) /\ Filter(list) # Failed
         /\ Range(Filter(list)) = {l \in Range(list) : ~IsExcluded(l)}
         /\ \A key : Differ(list, key) => Differ(Filter(list), key)
<1>1. list # Failed
  BY FailedFacts
<1>2. Filter(list) = Only(list, {l \in Range(list) : ~IsExcluded(l)})
  BY <1>1 DEF Filter
<1>3. /\ Filter(list) \in Seq(L)
      /\ Range(Filter(list)) = Range(list) \cap {l \in Range(list) : ~IsExcluded(l)}
      /\ \A key : Differ(list, key) => Differ(Filter(list), key)
  BY <1>2, OnlyFacts
<1> QED BY <1>3, FailedFacts

LEMMA OwnFacts ==
  ASSUME Scene
  PROVE  OwnLocations \in Seq(InImage) /\ Differ(OwnLocations, ByRef)
<1> DEFINE S == {ref \in (1..Top) \X Paths : Brings(layers[ref[1]], ref[2])}
           refs == Ordered(S)
<1>1. S \subseteq Spots
  BY DEF Spots
<1>2. IsFiniteSet(Spots)
  <2>1. IsFiniteSet(1..Top)
    BY TopFacts, FS_Interval
  <2> QED BY <2>1, ImagesAssumption, FS_Product DEF Spots
<1>3. OwnLocations = [k \in DOMAIN refs |-> Location(refs[k], refs[k][2])]
  BY DEF OwnLocations
<1> HIDE DEF S
<1>4. /\ refs \in Seq(S)
      /\ \A j, k \in DOMAIN refs : refs[j] = refs[k] => j = k
  BY <1>1, <1>2, FS_Subset, OrderedFacts
<1> HIDE DEF refs
<1>5. DOMAIN refs = 1..Len(refs) /\ Len(refs) \in Nat /\ \A k \in DOMAIN refs : refs[k] \in Spots
  BY <1>1, <1>4
<1>6. ASSUME NEW ref \in Spots
      PROVE  Location(ref, ref[2]) \in InImage /\ Location(ref, ref[2]).ref = ref
  BY MarkFacts DEF Spots, InImage, Access
<1>7. OwnLocations \in Seq(InImage)
  BY <1>3, <1>5, <1>6
<1>8. Differ(OwnLocations, ByRef)
  <2>1. ASSUME NEW k \in DOMAIN refs PROVE ByRef[OwnLocations[k]] = refs[k]
    <3>1. OwnLocations[k] = Location(refs[k], refs[k][2]) /\ refs[k] \in Spots
      BY <1>3, <1>5
    <3> QED BY <1>6, <3>1 DEF ByRef, InImage
  <2>2. DOMAIN OwnLocations = DOMAIN refs
    BY <1>3
  <2> QED BY <1>4, <2>1, <2>2 DEF Differ
<1> QED BY <1>7, <1>8

NoLinks == {l \in InImage : ~Is(l.ref, "link")}
Views == {"squashed", "all", "deep"}

\* What is answered, before paths are excluded.
LEMMA UnfilteredFacts ==
  ASSUME Scene, NEW q, Posed(q)
  PROVE  /\ \A v \in Views : Unfiltered(v, q) = View(v, OfSquash(q), OfLayers(q))
         /\ Proper(OfSquash(q), NoLinks) /\ Proper(OfLayers(q), NoLinks) /\ AnyMark(NoLinks)
<1>1. \A v \in Views : Unfiltered(v, q) = View(v, OfSquash(q), OfLayers(q))
  BY DEF Unfiltered
<1>2. InSquash \subseteq NoLinks
  BY DEF InSquash, At, NoLinks
<1>3. Answers(q) \cap InImage \subseteq NoLinks
  BY DEF Answers, NoLinks
<1>4. Proper(OfSquash(q), NoLinks)
  BY <1>2, SquashAnswers, SmallerList DEF Proper
<1>5. Proper(OfLayers(q), NoLinks)
  BY <1>3, LayersAnswers, SmallerList DEF Proper
<1> QED BY <1>1, <1>4, <1>5, AnyMarkFacts DEF NoLinks

\* What the deep view calls visible is what the squashed view shows.
LEMMA DeepAlike ==
  ASSUME Scene, NEW q, Posed(q), OfSquash(q) # Failed, OfLayers(q) # Failed
  PROVE  Refs(Visible(Range(Filter(Unfiltered("deep", q))))) =
           Refs(Range(Filter(Unfiltered("squashed", q))))
<1> DEFINE s == OfSquash(q)
           t == OfLayers(q)
           merged == MergeLocations(s, t)
<1>1. Unfiltered("squashed", q) = s /\ Unfiltered("deep", q) = merged
  BY UnfilteredFacts DEF Views, View
<1>2. /\ AnyMark(NoLinks) /\ NoLinks \in SUBSET InImage
      /\ s \in Seq(NoLinks) /\ Differ(s, ByRef) /\ t \in Seq(NoLinks) /\ Differ(t, ByRef)
  BY UnfilteredFacts DEF Proper, NoLinks
<1>3. CASE s = <<>>
  <2>1. merged = <<>>
    BY <1>3 DEF MergeLocations, Failed
  <2>2. Range(Filter(<<>>)) = {}
    BY <1>2, <1>3, NoneInRange, FilterFacts
  <2> QED BY <1>1, <1>3, <2>1, <2>2 DEF Visible, Refs
<1>4. CASE s # <<>>
  <2> DEFINE v == Marked(s, "visible")
             h == Marked(Beneath(s, t), "hidden")
  <2>1. /\ merged \in Seq(NoLinks) /\ Range(merged) = Range(v) \cup Range(h)
        /\ DOMAIN v = DOMAIN s
        /\ \A k \in DOMAIN s : v[k].ref = s[k].ref /\ v[k].access = s[k].access /\ v[k].mark = "visible"
        /\ \A l \in Range(h) : l.mark = "hidden"
    BY <1>2, <1>4, MergedFacts
  <2> HIDE DEF v, h, s, merged
  <2>2. /\ Range(Filter(merged)) = {l \in Range(merged) : ~IsExcluded(l)}
        /\ Range(Filter(s)) = {l \in Range(s) : ~IsExcluded(l)}
    BY <1>2, <2>1, FilterFacts
  <2>3. \A k \in DOMAIN s : IsExcluded(v[k]) <=> IsExcluded(s[k])
    BY <2>1 DEF IsExcluded
  <2>4. ASSUME NEW r \in Refs(Visible(Range(Filter(merged)))) PROVE r \in Refs(Range(Filter(s)))
    <3>1. PICK l \in Range(merged) : ~IsExcluded(l) /\ l.mark = "visible" /\ l.ref = r
      BY <2>2 DEF Refs, Visible
    <3>2. l \in Range(v)
      BY <2>1, <3>1
    <3>3. PICK k \in DOMAIN s : l = v[k]
      BY <2>1, <3>2 DEF Range
    <3>4. s[k] \in Range(s) /\ s[k].ref = r /\ ~IsExcluded(s[k])
      BY <2>1, <2>3, <3>1, <3>3 DEF Range
    <3> QED BY <2>2, <3>4 DEF Refs
  <2>5. ASSUME NEW r \in Refs(Range(Filter(s))) PROVE r \in Refs(Visible(Range(Filter(merged))))
    <3>1. PICK l \in Range(s) : ~IsExcluded(l) /\ l.ref = r
      BY <2>2 DEF Refs
    <3>2. PICK k \in DOMAIN s : l = s[k]
      BY DEF Range
    <3>3. v[k] \in Range(v) /\ v[k].ref = r /\ ~IsExcluded(v[k]) /\ v[k].mark = "visible"
      BY <2>1, <2>3, <3>1, <3>2 DEF Range
    <3> QED BY <2>1, <2>2, <3>3 DEF Refs, Visible
  <2> QED BY <1>1, <2>4, <2>5
<1> QED BY <1>3, <1>4

\* A file that all layers call visible is what the squashed view has where it was
\* asked for.
LEMMA AllAlike ==
  ASSUME Scene, NEW q, Posed(q), OfSquash(q) # Failed, OfLayers(q) # Failed,
         NEW l \in Range(Filter(Unfiltered("all", q))), l.mark = "visible", ~IsNoFile(l.ref)
  PROVE  \/ l.ref \in Refs(Range(Filter(OfSquash(q))))
         \/ \E m \in Range(OfSquash(q)) : m.access \in excludes /\ m.ref = l.ref
<1> DEFINE s == OfSquash(q)
           t == OfLayers(q)
           a == Annotated(t)
<1>1. Unfiltered("all", q) = a
  BY UnfilteredFacts DEF Views, View
<1>2. /\ AnyMark(NoLinks) /\ NoLinks \in SUBSET InImage
      /\ s \in Seq(NoLinks) /\ Differ(s, ByRef) /\ t \in Seq(NoLinks) /\ Differ(t, ByRef)
  BY UnfilteredFacts DEF Proper, NoLinks
<1>3. /\ a \in Seq(NoLinks) /\ DOMAIN a = DOMAIN t
      /\ \A k \in DOMAIN t :
           /\ a[k].ref = t[k].ref /\ a[k].access = t[k].access
           /\ a[k].mark = "visible" => SearchLiving(Squashed, t[k].access) = t[k].ref
  BY <1>2, AnnotatedFacts
<1>4. t \in Seq(Answers(q) \cap InImage)
  BY LayersAnswers
<1>5. \A m \in Answers(q) \cap InImage : m.ref = SearchByPath(Squashed, m.access) /\ ~IsNoFile(m.ref)
                                        => m.ref \in Refs(Range(s))
  BY SquashAnswers
<1> HIDE DEF a, t, s
<1>6. l \in Range(a) /\ ~IsExcluded(l)
  BY <1>1, <1>2, <1>3, FilterFacts
<1>7. PICK k \in DOMAIN t : l = a[k]
  BY <1>3, <1>6 DEF Range
<1> DEFINE m == t[k]
<1>8. m \in Answers(q) \cap InImage /\ m.ref = l.ref /\ SearchLiving(Squashed, m.access) = m.ref
  BY <1>3, <1>4, <1>7
<1> HIDE DEF m
<1>9. IsList(m.access) /\ ~Is(m.ref, "link")
  BY <1>8, AccessFacts DEF Answers, InImage
<1>10. SearchByPath(Squashed, m.access) = m.ref
  BY <1>8, <1>9, TopFacts, LivingFacts
<1>11. l.ref \in Refs(Range(s))
  BY <1>5, <1>8, <1>10
<1>12. PICK shown \in Range(s) : shown.ref = l.ref
  BY <1>11 DEF Refs
<1>13. CASE IsExcluded(shown)
  BY <1>6, <1>12, <1>13 DEF IsExcluded, s
<1>14. CASE ~IsExcluded(shown)
  <2>1. shown \in Range(Filter(s))
    BY <1>2, <1>14, FilterFacts
  <2> QED BY <1>12, <2>1 DEF Refs, s
<1> QED BY <1>13, <1>14

LEMMA AreVisibleAlike ==
  ASSUME Scene, question.by \in {"path", "name", "type"} => Posed(question)
  PROVE  VisibleAlike
<1> SUFFICES ASSUME Asked({"path", "name", "type"}), Everybody
             PROVE  /\ Refs(Visible(Found("deep"))) = Refs(Found("squashed"))
                    /\ Refs(Files(Visible(Found("all")))) \subseteq Refs(Found("squashed")) \cup Refs(Barred)
  BY DEF VisibleAlike
<1> DEFINE q == question
<1>1. Posed(q)
  BY DEF Asked
<1>2. Unfiltered("squashed", q) = OfSquash(q) /\ Unfiltered("all", q) = Annotated(OfLayers(q))
  BY <1>1, UnfilteredFacts DEF Views, View
<1>3. OfSquash(q) # Failed /\ OfLayers(q) # Failed
  BY DEF Everybody
<1>4. Refs(Visible(Found("deep"))) = Refs(Found("squashed"))
  BY <1>1, <1>3, DeepAlike DEF Found
<1>5. ASSUME NEW r \in Refs(Files(Visible(Found("all")))) PROVE r \in Refs(Found("squashed")) \cup Refs(Barred)
  <2>1. PICK l \in Range(Filter(Unfiltered("all", q))) : l.mark = "visible" /\ ~IsNoFile(l.ref) /\ l.ref = r
    BY DEF Refs, Files, Visible, Found
  <2>2. \/ r \in Refs(Range(Filter(OfSquash(q))))
        \/ \E m \in Range(OfSquash(q)) : m.access \in excludes /\ m.ref = r
    BY <1>1, <1>3, <2>1, AllAlike
  <2> QED BY <1>2, <2>2 DEF Refs, Barred, Found
<1> QED BY <1>4, <1>5

LEMMA AreRaisedWherePresent ==
  ASSUME Scene,
         question.by \in {"path", "name", "type"} =>
           Posed(question) /\ located = Filter(Unfiltered(view, question))
  PROVE  RaisedWherePresent
<1> SUFFICES ASSUME view = "deep", Asked({"path", "name", "type"}), NEW k \in DOMAIN located
             PROVE  HasPath(located[k].ref[2]) /\ HasPath(located[k].access)
  BY DEF RaisedWherePresent
<1> DEFINE q == question
           s == OfSquash(q)
           t == OfLayers(q)
           merged == MergeLocations(s, t)
<1>1. Posed(q) /\ located = Filter(merged) /\ located # Failed
  <2>1. Posed(q) /\ located = Filter(Unfiltered("deep", q)) /\ located # Failed
    BY DEF Asked
  <2> QED BY <2>1, UnfilteredFacts DEF Views, View
<1>2. merged # Failed
  BY <1>1 DEF Filter
<1>3. s # Failed /\ (s # <<>> => t # Failed)
  BY <1>2 DEF MergeLocations
<1>4. AnyMark(NoLinks) /\ NoLinks \in SUBSET InImage /\ Proper(s, NoLinks) /\ Proper(t, NoLinks)
  BY <1>1, UnfilteredFacts DEF NoLinks
<1>5. s # <<>>
  <2> SUFFICES ASSUME s = <<>> PROVE FALSE
    OBVIOUS
  <2>1. merged = <<>>
    BY <1>2 DEF MergeLocations
  <2>2. Range(Filter(<<>>)) = {}
    BY <1>4, NoneInRange, FilterFacts
  <2> HIDE DEF merged
  <2> QED BY <1>1, <2>1, <2>2 DEF Range
<1> DEFINE v == Marked(s, "visible")
           h == Marked(Beneath(s, t), "hidden")
<1>6. /\ merged \in Seq(NoLinks) /\ Range(merged) = Range(v) \cup Range(h)
      /\ DOMAIN v = DOMAIN s
      /\ \A i \in DOMAIN s : v[i].ref = s[i].ref /\ v[i].access = s[i].access
      /\ \A l \in Range(h) : HasPath(l.ref[2]) /\ HasPath(l.access)
  BY <1>3, <1>4, <1>5, MergedFacts DEF Proper
<1>7. s \in Seq(InSquash)
  BY <1>1, <1>3, SquashAnswers
<1> HIDE DEF v, h, merged, s
<1>8. located[k] \in Range(merged)
  <2>1. located[k] \in Range(located)
    BY DEF Range
  <2> QED BY <1>1, <1>4, <1>6, <2>1, FilterFacts
<1>9. CASE located[k] \in Range(h)
  BY <1>6, <1>9
<1>10. CASE located[k] \in Range(v)
  <2>1. PICK i \in DOMAIN s : located[k].ref = s[i].ref /\ located[k].access = s[i].access
    BY <1>6, <1>10 DEF Range
  <2> DEFINE l == s[i]
  <2>2. l \in InImage /\ At(Squashed, l.ref) /\ l.ref = SearchByPath(Squashed, l.access)
    BY <1>7 DEF InSquash
  <2> HIDE DEF l
  <2>3. SearchByPath(Squashed, l.ref[2]) = l.ref
    BY <2>2 DEF At, SearchByPath
  <2>4. l.ref \notin {Nowhere, Circle}
    BY <2>2, FailedFacts DEF InImage
  <2> QED BY <2>1, <2>2, <2>3, <2>4 DEF HasPath, l
<1> QED BY <1>6, <1>8, <1>9, <1>10

\* What a file is found beside of a file that was found.
LEMMA RelativeFacts ==
  ASSUME Scene, view \in Views, NEW l \in InImage, NEW p \in Paths,
         NEW beside, beside = Relative(view, l, p), beside # Nothing
  PROVE  beside \in NoLinks /\ (view = "all" => beside.ref[1] <= l.ref[1])
<1> DEFINE shown == OneOf(SquashByPaths(<<p>>))
           other == RelativeToLayer(l, p)
<1>1. AnyMark(NoLinks) /\ NoLinks \in SUBSET InImage
  BY AnyMarkFacts DEF NoLinks
<1>2. ASSUME NEW x \in NoLinks, NEW m \in Marks
      PROVE  [x EXCEPT !.mark = m] \in NoLinks /\ [x EXCEPT !.mark = m].ref = x.ref
  BY <1>1 DEF AnyMark, InImage, Locations
<1>3. shown # Nothing => shown \in NoLinks
  <2> DEFINE list == SquashByPaths(<<p>>)
  <2>1. <<p>> \in Seq({p}) /\ {p} \in SUBSET Access
    BY DEF Access
  <2>2. CASE list \in {Failed, <<>>}
    BY <2>2 DEF OneOf
  <2>3. CASE list \notin {Failed, <<>>}
    <3>1. list \in Seq(InSquash)
      BY <2>1, <2>3, ShownList
    <3> HIDE DEF list
    <3>2. list[1] \in InSquash
      BY <2>3, <3>1
    <3> QED BY <2>3, <3>2 DEF OneOf, InSquash, At, NoLinks, list
  <2> QED BY <2>2, <2>3
<1>4. other # Nothing => other \in NoLinks /\ other.ref[1] <= l.ref[1]
  <2> DEFINE n == l.ref[1]
             r == SearchByPath(squashes[n], p)
  <2>1. n \in 1..Top
    BY DEF InImage, Spots
  <2>2. /\ IsList(p) /\ IsTree(squashes[n], n) /\ p \in Access
    BY <2>1, PathFacts, SquashTrees DEF Access
  <2>3. other = IF r \in {Nowhere, Slash, Circle} THEN Nothing ELSE Location(r, p)
    BY DEF RelativeToLayer
  <2>4. r \notin NoSpots => ~Is(r, "link") /\ r \in Spots /\ r[1] \in 1..n
    BY <2>1, <2>2, SearchEnds, EndedFacts
  <2> HIDE DEF n, r, other
  <2> SUFFICES ASSUME other # Nothing PROVE other \in NoLinks /\ other.ref[1] <= n
    BY DEF n
  <2>5. other = Location(r, p) /\ r \notin NoSpots
    BY <2>3 DEF NoSpots
  <2>6. /\ Location(r, p) \in Locations /\ Location(r, p).ref = r /\ Location(r, p).access = p
    BY <2>2, <2>4, <2>5, MarkFacts
  <2>7. r[1] <= n
    BY <2>1, <2>4, <2>5, TopFacts
  <2> QED BY <2>2, <2>4, <2>5, <2>6, <2>7 DEF NoLinks, InImage
<1> HIDE DEF shown, other
<1>5. CASE view = "squashed"
  <2>1. beside = shown
    BY <1>5 DEF Relative, shown
  <2> QED BY <1>3, <1>5, <2>1
<1>6. CASE view = "all"
  <2>1. other # Nothing /\ beside = Annotate(other)
    BY <1>6 DEF Relative, other
  <2>2. \E m \in Marks : beside = [other EXCEPT !.mark = m]
    BY <2>1 DEF Annotate, Marks
  <2> QED BY <1>2, <1>4, <2>1, <2>2
<1>7. CASE view = "deep"
  <2>1. \/ shown # Nothing /\ beside = [shown EXCEPT !.mark = "visible"]
        \/ other # Nothing /\ beside = [other EXCEPT !.mark = "hidden"]
    BY <1>7 DEF Relative, shown, other
  <2>2. "visible" \in Marks /\ "hidden" \in Marks
    BY DEF Marks
  <2> QED BY <1>2, <1>3, <1>4, <1>7, <2>1, <2>2
<1> QED BY <1>5, <1>6, <1>7 DEF Views

-----------------------------------------------------------------------------
(* Images: the invariant.                                                  *)

Kinds == {"nothing", "path", "name", "type", "all", "relative"}

\* What is located is in the image and is the answer to the question; only if all
\* locations were asked for there are links among them.
Answered ==
  question.by \in {"path", "name", "type"} =>
    Posed(question) /\ located = Filter(Unfiltered(view, question))
Readable ==
  question.by # "all" /\ located # Failed =>
    \A k \in DOMAIN located : ~Is(located[k].ref, "link") /\ ~IsExcluded(located[k])

ImageInv ==
  /\ Scene /\ view \in Views /\ question.by \in Kinds
  /\ located = Failed \/ located \in Seq(InImage)
  /\ Answered /\ Readable /\ ReportedOnce /\ ReadAsFound

\* A file that was read was read as itself.
ReadOwn == read # <<>> => read[2] = read[1].ref \/ IsNoFile(read[1].ref)

\* The image, the view and what is excluded stay.
Stays == layers' = layers /\ squashes' = squashes /\ excludes' = excludes /\ view' = view

\* While the image stays, so does what a search of a tree ends in.
LEMMA StaysFound ==
  ASSUME Stays
  PROVE  /\ \A tree, p : SearchByPath(tree, p)' = SearchByPath(tree, p)
         /\ \A tree, p : SearchLiving(tree, p)' = SearchLiving(tree, p)
<1>1. /\ \A ref : EntryOf(ref)' = EntryOf(ref) /\ Entered(ref)' = Entered(ref)
      /\ \A ref, type : Is(ref, type)' = Is(ref, type)
      /\ LinkTargets' = LinkTargets
  BY DEF Stays, EntryOf, Entered, Is, LinkTargets
<1>2. \A tree, parent, name, w : Descend(tree, parent, name, w)' = Descend(tree, parent, name, w)
  BY <1>1 DEF Descend
<1>3. \A tree, p, w : Way(tree, p, w)' = Way(tree, p, w)
  <2> SUFFICES ASSUME NEW tree, NEW p, NEW w PROVE Way(tree, p, w)' = Way(tree, p, w)
    OBVIOUS
  <2> DEFINE D(f) == Descents(f, tree, p, w, Len(p))
  <2>1. \A f : D(f)' <=> D(f)
    BY <1>2 DEF Descents
  <2>2. Way(tree, p, w) = (CHOOSE f : D(f))[Len(p)]
    BY Zenon DEF Way, Descents
  <2>3. Way(tree, p, w)' = (CHOOSE f : D(f)')[Len(p)]
    BY Zenon DEF Way, Descents
  <2> HIDE DEF D
  <2>4. (CHOOSE f : D(f)') = (CHOOSE f : D(f))
    BY <2>1, Zenon
  <2> QED BY <2>2, <2>3, <2>4
<1>4. \A tree, h : Followed(tree, h)' = Followed(tree, h)
  <2> SUFFICES ASSUME NEW tree, NEW h PROVE Followed(tree, h)' = Followed(tree, h)
    OBVIOUS
  <2> DEFINE D(f) == LinksTo(f, tree, MaxHops)
  <2>1. \A f : D(f)' <=> D(f)
    BY <1>1, <1>3 DEF LinksTo
  <2>2. Followed(tree, h) = (CHOOSE f : D(f))[h]
    BY Zenon DEF Followed, LinksTo
  <2>3. Followed(tree, h)' = (CHOOSE f : D(f)')[h]
    BY Zenon DEF Followed, LinksTo
  <2> HIDE DEF D
  <2>4. (CHOOSE f : D(f)') = (CHOOSE f : D(f))
    BY <2>1, Zenon
  <2> QED BY <2>2, <2>3, <2>4
<1>5. \A tree, p, w, v : OrLink(tree, p, w, v)' = OrLink(tree, p, w, v)
  <2>1. \A tree, parent, name, v : LivingLink(tree, parent, name, v)' = LivingLink(tree, parent, name, v)
    BY <1>1 DEF LivingLink, LastOf
  <2> QED BY <1>3, <2>1 DEF OrLink
<1>6. \A tree, h : Living(tree, h)' = Living(tree, h)
  <2> SUFFICES ASSUME NEW tree, NEW h PROVE Living(tree, h)' = Living(tree, h)
    OBVIOUS
  <2> DEFINE D(f) == LivingTo(f, tree, MaxHops)
  <2>1. \A f : D(f)' <=> D(f)
    BY <1>1, <1>4, <1>5 DEF LivingTo
  <2>2. Living(tree, h) = (CHOOSE f : D(f))[h]
    BY Zenon DEF Living, LivingTo
  <2>3. Living(tree, h)' = (CHOOSE f : D(f)')[h]
    BY Zenon DEF Living, LivingTo
  <2> HIDE DEF D
  <2>4. (CHOOSE f : D(f)') = (CHOOSE f : D(f))
    BY <2>1, Zenon
  <2> QED BY <2>2, <2>3, <2>4
<1>7. \A tree, p : SearchByPath(tree, p)' = SearchByPath(tree, p)
  BY <1>3, <1>4 DEF SearchByPath
<1>8. \A tree, p : SearchLiving(tree, p)' = SearchLiving(tree, p)
  BY <1>4, <1>5, <1>6 DEF SearchLiving
<1> QED BY <1>7, <1>8

LEMMA StaysFacts ==
  ASSUME Stays
  PROVE  /\ Scene' = Scene /\ InImage' = InImage
         /\ \A ref, type : Is(ref, type)' = Is(ref, type) /\ IsNoFile(ref)' = IsNoFile(ref)
         /\ \A l : IsExcluded(l)' = IsExcluded(l)
         /\ \A v, q : Filter(Unfiltered(v, q))' = Filter(Unfiltered(v, q))
<1>1. /\ \A tree, p : SearchByPath(tree, p)' = SearchByPath(tree, p)
      /\ \A tree, p : SearchLiving(tree, p)' = SearchLiving(tree, p)
  BY StaysFound
<1>2. /\ Top' = Top /\ Squashed' = Squashed /\ InImage' = InImage /\ Scene' = Scene
      /\ \A ref, type : Is(ref, type)' = Is(ref, type) /\ IsNoFile(ref)' = IsNoFile(ref)
      /\ \A l : IsExcluded(l)' = IsExcluded(l)
      /\ \A i : OwnTree(i)' = OwnTree(i)
  BY DEF Stays, Top, Squashed, Scene, InImage, Locations, Spots, Is, IsNoFile, EntryOf, IsExcluded, OwnTree, Brings
<1>3. \A paths : SquashByPaths(paths)' = SquashByPaths(paths)
  BY <1>1, <1>2 DEF SquashByPaths, ShownAt
<1>4. \A tree, name : Matched(tree, name)' = Matched(tree, name) /\ OfType(tree)' = OfType(tree)
  BY <1>1, <1>2 DEF Matched, OfType
<1>5. (\A name : SquashByName(name)' = SquashByName(name)) /\ SquashByType' = SquashByType
  BY <1>2, <1>3, <1>4 DEF SquashByName, SquashByType
<1>6. \A ref, access : FileByRef(ref, access)' = FileByRef(ref, access)
  BY <1>1, <1>2 DEF Stays, FileByRef
<1>7. \A p : InLayers(p)' = InLayers(p)
  BY <1>1, <1>2, <1>6 DEF InLayers
<1>8. \A paths : LayersByPaths(paths)' = LayersByPaths(paths)
  BY <1>7 DEF LayersByPaths
<1>9. \A i, name : NamedIn(i, name)' = NamedIn(i, name)
  BY <1>1, <1>4, <1>6 DEF Stays, NamedIn
<1>10. (\A name : LayersByName(name)' = LayersByName(name)) /\ LayersByType' = LayersByType
  <2>1. ASSUME NEW i PROVE TypedIn(i)' = TypedIn(i)
    <3>1. OfType(OwnTree(i))' = OfType(OwnTree(i))
      BY <1>2, <1>4
    <3> QED BY <1>6, <3>1 DEF TypedIn
  <2>2. LayersByType' = LayersByType
    BY <1>2, <2>1 DEF LayersByType
  <2>3. \A name : LayersByName(name)' = LayersByName(name)
    BY <1>2, <1>9 DEF LayersByName
  <2> QED BY <2>2, <2>3
<1>11. \A v, s, a : View(v, s, a)' = View(v, s, a)
  <2>1. \A l : Annotate(l)' = Annotate(l)
    BY <1>1, <1>2 DEF Annotate
  <2>2. \A list : Annotated(list)' = Annotated(list)
    BY <2>1 DEF Annotated
  <2>3. \A p : HasPath(p)' = HasPath(p)
    BY <1>1, <1>2 DEF HasPath
  <2>4. \A s, a : MergeLocations(s, a)' = MergeLocations(s, a)
    BY <2>3 DEF MergeLocations
  <2> QED BY <2>2, <2>4 DEF View
<1>12. \A v, q : Unfiltered(v, q)' = Unfiltered(v, q)
  BY <1>3, <1>5, <1>8, <1>10, <1>11 DEF Unfiltered, OfSquash, OfLayers
<1>13. \A list : Filter(list)' = Filter(list)
  BY <1>2 DEF Filter
<1> QED BY <1>2, <1>12, <1>13

LEMMA ImageStart == ImageInit => ImageInv
<1> SUFFICES ASSUME ImageInit PROVE ImageInv
  OBVIOUS
<1>1. Scene /\ view \in Views /\ question.by = "nothing" /\ located = <<>> /\ read = <<>>
  BY DEF ImageInit, Scene, Views, Question
<1> QED BY <1>1 DEF ImageInv, Kinds, Answered, Readable, ReportedOnce, ReadAsFound

\* A list that came of a view and lost what is excluded.
LEMMA AnswerFacts ==
  ASSUME NEW L, AnyMark(L), NEW list, list # Failed => list \in Seq(L) /\ Differ(list, Itself)
  PROVE  /\ Filter(list) = Failed \/ Filter(list) \in Seq(L)
         /\ Filter(list) # Failed =>
              \A k \in DOMAIN Filter(list) : Filter(list)[k] \in L /\ ~IsExcluded(Filter(list)[k])
         /\ Filter(list) # Failed =>
              \A j, k \in DOMAIN Filter(list) : Filter(list)[j] = Filter(list)[k] => j = k
<1>1. CASE list = Failed
  BY <1>1 DEF Filter
<1>2. CASE list # Failed
  <2> DEFINE f == Filter(list)
  <2>1. /\ f \in Seq(L) /\ f # Failed /\ Range(f) = {l \in Range(list) : ~IsExcluded(l)}
        /\ Differ(f, Itself)
    BY <1>2, FilterFacts DEF AnyMark
  <2> HIDE DEF f
  <2>2. \A k \in DOMAIN f : f[k] \in L /\ f[k] \in Range(f) /\ f[k] \in Locations
    BY <2>1 DEF Range, AnyMark, InImage
  <2>3. \A j, k \in DOMAIN f : f[j] = f[k] => j = k
    BY <2>1, <2>2 DEF Differ, Itself
  <2> QED BY <2>1, <2>2, <2>3 DEF f
<1> QED BY <1>1, <1>2

LEMMA AskStep ==
  ASSUME ImageInv, NEW q, Posed(q), q.by \in {"path", "name", "type"}, Ask(q)
  PROVE  ImageInv'
<1> DEFINE f == Filter(Unfiltered(view, q))
<1>1. /\ Stays /\ question' = q /\ located' = f /\ read' = read
      /\ Scene /\ view \in Views /\ question.by = "nothing" /\ ReadAsFound
  BY DEF Ask, Stays, ImageInv
<1>2. Unfiltered(view, q) # Failed => Unfiltered(view, q) \in Seq(NoLinks) /\ Differ(Unfiltered(view, q), Itself)
  BY <1>1, UnfilteredFacts, ViewFacts DEF Views
<1>3. AnyMark(NoLinks) /\ NoLinks \in SUBSET InImage
  BY AnyMarkFacts DEF NoLinks
<1>4. /\ f = Failed \/ f \in Seq(NoLinks)
      /\ f # Failed => \A k \in DOMAIN f : f[k] \in NoLinks /\ ~IsExcluded(f[k])
      /\ f # Failed => \A j, k \in DOMAIN f : f[j] = f[k] => j = k
  BY <1>2, <1>3, AnswerFacts
<1>5. Scene' /\ view' \in Views /\ question'.by \in Kinds
  BY <1>1, StaysFacts DEF Stays, Kinds
<1>6. located' = Failed \/ located' \in Seq(InImage')
  BY <1>1, <1>3, <1>4, StaysFacts, SmallerList
<1>7. Answered'
  <2>1. view' = view
    BY <1>1 DEF Stays
  <2>2. located' = Filter(Unfiltered(view, question))'
    BY <1>1, <2>1, StaysFacts
  <2>3. Posed(question)'
    BY <1>1 DEF Posed
  <2> QED BY <2>2, <2>3 DEF Answered
<1>8. Readable'
  BY <1>1, <1>4, StaysFacts DEF NoLinks, Readable
<1>9. ReportedOnce'
  BY <1>1, <1>4 DEF ReportedOnce
<1>10. ReadAsFound'
  <2>1. ReadOwn
    BY <1>1 DEF ReadAsFound, ReadOwn
  <2>2. ReadOwn'
    BY <1>1, <2>1, StaysFacts DEF ReadOwn
  <2> QED BY <1>1, <2>2 DEF ReadAsFound, ReadOwn
<1> QED BY <1>5, <1>6, <1>7, <1>8, <1>9, <1>10 DEF ImageInv

LEMMA AskAllStep ==
  ASSUME ImageInv, AskAll
  PROVE  ImageInv'
<1> DEFINE own == Only(OwnLocations, {l \in Range(OwnLocations) : Squashed[l.ref[2]] = l.ref})
           list == EveryLocation(view)
           f == Filter(list)
<1>1. /\ Stays /\ question'.by = "all" /\ located' = f /\ read' = read
      /\ Scene /\ view \in Views /\ question.by = "nothing" /\ ReadAsFound
  BY DEF AskAll, Stays, ImageInv, Question
<1>2. Proper(OwnLocations, InImage)
  BY <1>1, OwnFacts DEF Proper
<1>3. Proper(own, InImage)
  BY <1>1, OwnFacts, OnlyFacts DEF Proper
<1>4. list = View(view, own, OwnLocations)
  BY DEF EveryLocation
<1>5. list # Failed => list \in Seq(InImage) /\ Differ(list, Itself)
  BY <1>1, <1>2, <1>3, <1>4, AnyMarkFacts, ViewFacts DEF Views
<1> HIDE DEF list
<1>6. /\ f = Failed \/ f \in Seq(InImage)
      /\ f # Failed => \A j, k \in DOMAIN f : f[j] = f[k] => j = k
  BY <1>5, AnyMarkFacts, AnswerFacts
<1> HIDE DEF f
<1>7. Scene' /\ view' \in Views /\ question'.by \in Kinds
  BY <1>1, StaysFacts DEF Stays, Kinds
<1>8. located' = Failed \/ located' \in Seq(InImage')
  BY <1>1, <1>6, StaysFacts
<1>9. ReportedOnce'
  BY <1>1, <1>6 DEF ReportedOnce
<1>10. ReadAsFound'
  BY <1>1 DEF ReadAsFound
<1> QED BY <1>1, <1>7, <1>8, <1>9, <1>10 DEF ImageInv, Answered, Readable

LEMMA AskRelativeStep ==
  ASSUME ImageInv, AskRelative
  PROVE  ImageInv'
<1>1. /\ Stays /\ read' = read /\ question.by \in {"path", "name"}
      /\ Scene /\ view \in Views /\ ReadAsFound /\ located \in Seq(InImage)
  BY DEF AskRelative, Stays, ImageInv
<1>2. PICK k \in DOMAIN located, p \in Paths :
        LET l == Relative(view, located[k], p)
        IN /\ question' = Question("relative", <<p>>, located[k])
           /\ located' = IF l = Nothing THEN <<>> ELSE IF IsExcluded(l) THEN <<>> ELSE <<l>>
  BY DEF AskRelative
<1> DEFINE l == Relative(view, located[k], p)
<1>3. located[k] \in InImage
  BY <1>1
<1>4. l # Nothing => l \in NoLinks /\ (view = "all" => l.ref[1] <= located[k].ref[1])
  BY <1>1, <1>3, RelativeFacts
<1> HIDE DEF l
<1>5. question'.by = "relative" /\ question'.from = located[k]
  BY <1>2 DEF Question
<1>6. located' = <<>> \/ (located' = <<l>> /\ l # Nothing /\ ~IsExcluded(l))
  BY <1>2 DEF l
<1>7. Scene' /\ view' \in Views /\ question'.by \in Kinds /\ view' = view
  BY <1>1, <1>5, StaysFacts DEF Stays, Kinds
<1>8. located' \in Seq(InImage')
  <2>1. l # Nothing => l \in InImage
    BY <1>4 DEF NoLinks
  <2>2. located' \in Seq(InImage)
    <3>1. <<>> \in Seq(InImage)
      OBVIOUS
    <3>2. l \in InImage => <<l>> \in Seq(InImage)
      <4> HIDE DEF InImage
      <4> QED OBVIOUS
    <3> QED BY <1>6, <2>1, <3>1, <3>2
  <2> QED BY <1>1, <2>2, StaysFacts
<1>9. Readable'
  BY <1>1, <1>4, <1>6, StaysFacts DEF NoLinks, Readable
<1>10. ReportedOnce'
  BY <1>6 DEF ReportedOnce
<1>11. ReadAsFound'
  <2>1. ReadOwn
    BY <1>1 DEF ReadAsFound, ReadOwn
  <2>2. ReadOwn'
    BY <1>1, <2>1, StaysFacts DEF ReadOwn
  <2>3. view' = "all" /\ located' # <<>> => located'[1].ref[1] <= question'.from.ref[1]
    BY <1>4, <1>5, <1>6, <1>7
  <2> QED BY <2>2, <2>3 DEF ReadAsFound, ReadOwn
<1> QED BY <1>5, <1>7, <1>8, <1>9, <1>10, <1>11 DEF ImageInv, Answered

LEMMA ReadFoundStep ==
  ASSUME ImageInv, ReadFound
  PROVE  ImageInv'
<1>1. /\ Stays /\ UNCHANGED <<question, located>> /\ located # Failed /\ ImageInv
  BY DEF ReadFound, Stays
<1>2. PICK k \in DOMAIN located : read' = <<located[k], Contents(view, located[k])>>
  BY DEF ReadFound
<1>3. question.by # "all" =>
        \/ Contents(view, located[k]) = located[k].ref
        \/ IsNoFile(located[k].ref)
  <2> SUFFICES ASSUME question.by # "all"
               PROVE  Contents(view, located[k]) = located[k].ref \/ IsNoFile(located[k].ref)
    OBVIOUS
  <2>1. ~Is(located[k].ref, "link") /\ ~IsExcluded(located[k])
    BY <1>1 DEF ImageInv, Readable
  <2> QED BY <2>1 DEF Contents, IsNoFile
<1>4. ReadAsFound'
  <2>1. question'.by # "all" => ReadOwn'
    BY <1>1, <1>2, <1>3, StaysFacts DEF ReadOwn
  <2>2. view' = "all" /\ question'.by = "relative" /\ located' # <<>> =>
          located'[1].ref[1] <= question'.from.ref[1]
    BY <1>1 DEF ImageInv, ReadAsFound, Stays
  <2> QED BY <2>1, <2>2 DEF ReadAsFound, ReadOwn
<1>5. Scene' /\ view' \in Views /\ question'.by \in Kinds /\ view' = view
  BY <1>1, StaysFacts DEF ImageInv, Stays
<1>6. located' = Failed \/ located' \in Seq(InImage')
  BY <1>1, StaysFacts DEF ImageInv
<1>7. Answered'
  BY <1>1, <1>5, StaysFacts DEF ImageInv, Answered, Posed
<1>8. Readable'
  BY <1>1, StaysFacts DEF ImageInv, Readable
<1>9. ReportedOnce'
  BY <1>1 DEF ImageInv, ReportedOnce
<1> QED BY <1>4, <1>5, <1>6, <1>7, <1>8, <1>9 DEF ImageInv

LEMMA ImageStep == ImageInv /\ [ImageNext]_imageVars => ImageInv'
<1> SUFFICES ASSUME ImageInv, [ImageNext]_imageVars PROVE ImageInv'
  OBVIOUS
<1>1. CASE AskPaths
  <2>1. PICK q \in Queries : Ask(Question("path", q, Nothing))
    BY <1>1 DEF AskPaths
  <2> QED BY <2>1, AskStep DEF Posed, Question
<1>2. CASE AskName
  <2>1. PICK p \in Paths : Ask(Question("name", <<<<Last(p)>>>>, Nothing))
    BY <1>2 DEF AskName
  <2> QED BY <2>1, AskStep DEF Posed, Question
<1>3. CASE AskType
  BY <1>3, AskStep DEF AskType, Posed, Question
<1>4. CASE AskAll
  BY <1>4, AskAllStep
<1>5. CASE AskRelative
  BY <1>5, AskRelativeStep
<1>6. CASE ReadFound
  BY <1>6, ReadFoundStep
<1>7. CASE UNCHANGED imageVars
  <2>1. Stays /\ UNCHANGED <<question, located, read>>
    BY <1>7 DEF imageVars, Stays
  <2>2. view' = view
    BY <2>1 DEF Stays
  <2>3. Scene' /\ view' \in Views /\ question'.by \in Kinds
    BY <2>1, <2>2, StaysFacts DEF ImageInv
  <2>4. located' = Failed \/ located' \in Seq(InImage')
    BY <2>1, StaysFacts DEF ImageInv
  <2>5. Answered'
    BY <2>1, <2>2, StaysFacts DEF ImageInv, Answered, Posed
  <2>6. Readable'
    BY <2>1, StaysFacts DEF ImageInv, Readable
  <2>7. ReportedOnce' /\ ReadAsFound'
    BY <2>1, <2>2, StaysFacts DEF ImageInv, ReportedOnce, ReadAsFound
  <2> QED BY <2>3, <2>4, <2>5, <2>6, <2>7 DEF ImageInv
<1> QED BY <1>1, <1>2, <1>3, <1>4, <1>5, <1>6, <1>7 DEF ImageNext

\* The invariant of the resolvers of an image.
THEOREM ImageInvariant == ImageSpec => []ImageInv
BY ImageStart, ImageStep, PTL DEF ImageSpec

\* Whatever an image and its links are, and whatever is excluded, the three
\* resolvers agree about what is visible, report it once and read it as found.
THEOREM ImageViewsAgree == ImageSpec => []ViewsAgree
<1>1. ImageInv => ViewsAgree
  BY AreVisibleAlike, AreRaisedWherePresent DEF ImageInv, Answered, ViewsAgree
<1> QED BY <1>1, ImageInvariant, PTL
=============================================================================
