---------------------------- MODULE IndexCalls -----------------------------
(***************************************************************************)
(* One relationship index under any sequence of calls of its API           *)
(* (internal/relationship/index.go): what the two lookup tables and the    *)
(* list of all relationships may disagree about, and for which identities. *)
(***************************************************************************)
EXTENDS RelationshipIndex

CONSTANT MaxOps     \* bound on the calls made on the index

ASSUME MaxOpsAssumption == MaxOps \in Nat

VARIABLES index,    \* the Index
          removed,  \* history: every ID that Remove was ever called with
          ops       \* calls made so far

callsVars == <<index, removed, ops>>

-----------------------------------------------------------------------------
CallsInit == /\ index = EmptyIndex
             /\ removed = {}
             /\ ops = 0

Call == ops < MaxOps /\ ops' = ops + 1

AddRelationship(r) ==
  /\ Call
  /\ index' = Add(index, {r})
  /\ UNCHANGED removed

RemoveID(id) ==
  /\ Call
  /\ index' = RemoveEnd(index, id)
  /\ removed' = removed \cup {id}

\* The only caller replaces a package by one whose ID differs.
ReplaceID(og, rep) ==
  /\ Call
  /\ og # rep
  /\ index' = Replace(index, og, rep)
  /\ removed' = removed \cup {og}

CallsNext == \/ \E r \in Rel : AddRelationship(r)
             \/ \E id \in ID : RemoveID(id)
             \/ \E og, rep \in ID : ReplaceID(og, rep)

CallsSpec == CallsInit /\ [][CallsNext]_callsVars

-----------------------------------------------------------------------------
(* Properties.                                                             *)

\* The index keeps its shape under any calls.
CallsTypeOK == /\ WellTyped(index)
               /\ removed \in SUBSET ID
               /\ ops \in 0 .. MaxOps

\* What All() returns is known to both lookup tables.  Add decides from the
\* from-table alone whether a relationship is a duplicate, so without this
\* the list of all could hold a relationship twice (index.go:29-65).
AllIndexed == ListIndexed(index)

\* The three structures agree, and the to-table lists a relationship once,
\* as far as identities are concerned that were never removed or replaced:
\* the damage Remove leaves behind stays with relationships that touch a
\* removed identity (index.go:67-78).
ExactForUntouched == ExactFor(index, ID \ removed)

=============================================================================
