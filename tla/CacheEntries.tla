---------------------------- MODULE CacheEntries ---------------------------
(***************************************************************************)
(* One entry of the persistent cache (internal/cache), and the processes   *)
(* that resolve its key: scans that run at the same time or one after the  *)
(* other, and may die.  An entry is a file, truncated and written in       *)
(* place; nobody locks it.                                                 *)
(*                                                                         *)
(* A key names something immutable, such as a module at a version, so of   *)
(* the answers the function behind the cache may give only one is longer   *)
(* than what one read returns; the others are short errors, stored like    *)
(* values (error_resolver.go).                                             *)
(***************************************************************************)
EXTENDS Naturals, Sequences

CONSTANTS Proc,
          Answer,    \* what the function behind the cache may answer
          Chunks,    \* how many reads each answer takes
          MaxCalls   \* bound on calls

ASSUME CacheAssumption ==
  /\ Chunks \in [Answer -> Nat \ {0}]
  /\ \A a, b \in Answer : Chunks[a] > 1 /\ Chunks[b] > 1 => a = b
  /\ MaxCalls \in Nat

VARIABLES kind,      \* "json": cacheResolver; "raw": the Maven resolver's reader
          file,      \* [there, cells, fresh]: cells are chunks of answers
          pc,        \* where a process is
          chunks,    \* the chunks it has read of the entry
          answer,    \* the answer it is storing
          stored,    \* the chunks of it that are written
          result,    \* what its latest call returned: chunks, or <<>> for an error
          answered,  \* every answer the function ever gave
          calls

cacheVars == <<kind, file, pc, chunks, answer, stored, result, answered, calls>>

Whole(a) == [i \in 1..Chunks[a] |-> <<a, i>>]
Hole == <<"hole", 0>>        \* bytes nobody wrote, before bytes that somebody did

CacheInit ==
  /\ kind \in {"json", "raw"}
  /\ file = [there |-> FALSE, cells |-> <<>>, fresh |-> FALSE]
  /\ pc = [p \in Proc |-> "idle"]
  /\ chunks = [p \in Proc |-> <<>>]
  /\ answer = [p \in Proc |-> CHOOSE a \in Answer : TRUE]
  /\ stored = [p \in Proc |-> 0]
  /\ result = [p \in Proc |-> <<>>]
  /\ answered = {}
  /\ calls = 0

Become(p, from, to) == pc[p] = from /\ pc' = [pc EXCEPT ![p] = to]

Return(p, from, r) == Become(p, from, "idle") /\ result' = [result EXCEPT ![p] = r]

-----------------------------------------------------------------------------
\* filesystemCache.Read: absent or too old is a miss.
Read(p) ==
  /\ calls < MaxCalls
  /\ pc[p] \in {"idle", "dead"}
  /\ Become(p, pc[p], IF file.there /\ file.fresh THEN "reading" ELSE "resolving")
  /\ calls' = calls + 1
  /\ chunks' = [chunks EXCEPT ![p] = <<>>]
  /\ UNCHANGED <<kind, file, answer, stored, result, answered>>

\* What a decoder takes for a value: it begins with the beginning of one, ends
\* with the end of one and has no hole; it goes no further.
WellFormed(cells) ==
  /\ cells # <<>>
  /\ \A i \in 1..Len(cells) : cells[i][2] = i
  /\ LET last == cells[Len(cells)] IN last[2] = Chunks[last[1]]

ReadOn(p) ==
  /\ pc[p] = "reading"
  /\ Len(chunks[p]) < Len(file.cells)
  /\ ~WellFormed(chunks[p])
  /\ chunks' = [chunks EXCEPT ![p] = Append(@, file.cells[Len(@) + 1])]
  /\ UNCHANGED <<kind, file, pc, answer, stored, result, answered, calls>>

Decoded(p) ==
  /\ WellFormed(chunks[p])
  /\ Return(p, "reading", chunks[p])
  /\ UNCHANGED <<kind, file, chunks, answer, stored, answered, calls>>

Undecodable(p) ==
  /\ ~WellFormed(chunks[p])
  /\ \/ Len(chunks[p]) >= Len(file.cells)
     \/ \E i \in 1..Len(chunks[p]) : chunks[p][i][2] # i

\* Slip: the end of the file is taken for the end of the value.
AcceptTruncated(p) ==
  /\ Undecodable(p)
  /\ Return(p, "reading", chunks[p])
  /\ UNCHANGED <<kind, file, chunks, answer, stored, answered, calls>>

\* Slip: a broken entry is the caller's problem.
GiveUp(p) ==
  /\ Undecodable(p)
  /\ Return(p, "reading", <<>>)
  /\ UNCHANGED <<kind, file, chunks, answer, stored, answered, calls>>

\* A cacheResolver resolves again what does not decode; cacheResolveReader has
\* handed the reader out, and the parser behind it fails.
Discard(p) ==
  /\ Undecodable(p)
  /\ IF kind = "json"
       THEN Become(p, "reading", "resolving") /\ UNCHANGED result
       ELSE Return(p, "reading", <<>>)
  /\ UNCHANGED <<kind, file, chunks, answer, stored, answered, calls>>

-----------------------------------------------------------------------------
\* The function behind the cache answers.
ResolveKey(p) ==
  /\ Become(p, "resolving", "answered")
  /\ \E a \in Answer : /\ answer' = [answer EXCEPT ![p] = a]
                       /\ answered' = answered \cup {a}
  /\ UNCHANGED <<kind, file, chunks, stored, result, calls>>

\* It fails, and the failure is nothing to store.
ResolveFails(p) ==
  /\ kind = "raw"
  /\ Return(p, "resolving", <<>>)
  /\ UNCHANGED <<kind, file, chunks, answer, stored, answered, calls>>

\* afero.WriteReader: the file is created, or truncated, and then written.
Create(p) ==
  /\ Become(p, "answered", "writing")
  /\ file' = [there |-> TRUE, cells |-> <<>>, fresh |-> TRUE]
  /\ stored' = [stored EXCEPT ![p] = 0]
  /\ UNCHANGED <<kind, chunks, answer, result, answered, calls>>

\* Each writer goes by its own offset.
Put(cells, k, c) ==
  [i \in 1..(IF k > Len(cells) THEN k ELSE Len(cells)) |->
     IF i = k THEN c ELSE IF i <= Len(cells) THEN cells[i] ELSE Hole]

Write(p) ==
  LET k == stored[p] + 1
  IN  /\ pc[p] = "writing"
      /\ k <= Chunks[answer[p]]
      /\ file' = [file EXCEPT !.cells = Put(@, k, <<answer[p], k>>), !.fresh = TRUE]
      /\ stored' = [stored EXCEPT ![p] = k]
      /\ UNCHANGED <<kind, pc, chunks, answer, result, answered, calls>>

Written(p) ==
  /\ stored[p] = Chunks[answer[p]]
  /\ Return(p, "writing", Whole(answer[p]))
  /\ UNCHANGED <<kind, file, chunks, answer, stored, answered, calls>>

\* No permission, or the disk is full: the value comes with an error.
WriteFails(p) ==
  /\ \/ pc[p] = "answered"
     \/ pc[p] = "writing" /\ stored[p] < Chunks[answer[p]]
  /\ Return(p, pc[p], <<>>)
  /\ UNCHANGED <<kind, file, chunks, answer, stored, answered, calls>>

\* The scan is killed.  The next one is a process of its own.
Crash(p) ==
  /\ pc[p] \notin {"idle", "dead"}
  /\ Become(p, pc[p], "dead")
  /\ result' = [result EXCEPT ![p] = <<>>]
  /\ UNCHANGED <<kind, file, chunks, answer, stored, answered, calls>>

\* The entry outlives its time.
Expire ==
  /\ file.there /\ file.fresh
  /\ file' = [file EXCEPT !.fresh = FALSE]
  /\ UNCHANGED <<kind, pc, chunks, answer, stored, result, answered, calls>>

CacheNext ==
  \/ \E p \in Proc : \/ Read(p) \/ ReadOn(p) \/ Decoded(p) \/ Discard(p)
                     \/ ResolveKey(p) \/ ResolveFails(p)
                     \/ Create(p) \/ Write(p) \/ Written(p) \/ WriteFails(p)
                     \/ Crash(p)
  \/ Expire

CacheSpec == CacheInit /\ [][CacheNext]_cacheVars

-----------------------------------------------------------------------------
(* Properties.                                                             *)

\* Whatever writers left behind or are doing to the entry, a call returns the
\* whole of something the function really answered (resolver.go:45-67).
AnswersWhole ==
  \A p \in Proc : result[p] # <<>> => \E a \in answered : result[p] = Whole(a)

\* "this function is guaranteed to return an unread reader for the correct
\* contents" (maven/resolver.go:450): a call that reads the entry does not fail.
ReadingNeverFails ==
  [][\A p \in Proc : pc[p] = "reading" /\ pc'[p] = "idle" => Decoded(p)]_cacheVars

\* For JSON entries it holds although nothing protects the file: what is broken
\* is resolved again (resolver.go:61-64).
BrokenIsResolvedAgain ==
  [][\A p \in Proc : kind = "json" /\ pc[p] = "reading" /\ pc'[p] = "idle"
       => Decoded(p)]_cacheVars
=============================================================================
