---------------------------- MODULE TempDirLife ----------------------------
(***************************************************************************)
(* A tmpdir.TempDir (internal/tmpdir/tmpdir.go) between callers that       *)
(* allocate in it and a Cleanup that need not wait for them.  The root is  *)
(* created by the first caller, once; Cleanup reads it without             *)
(* synchronizing with that.                                                *)
(***************************************************************************)
CONSTANT User        \* goroutines that call NewChild or NewFile

ASSUME UserAssumption == {"", "root", "new", "over"} \cap User = {}

VARIABLES backed,    \* FromPath: the root is a directory of the caller
          root,      \* the field: "" until it is assigned
          once,      \* initOnce: "new", a user that runs it, or "over"
          cleaned,   \* the flag
          disk,      \* what is there: "root", and children named by their users
          at,        \* where each user is
          cleanup    \* where Cleanup is

tempVars == <<backed, root, once, cleaned, disk, at, cleanup>>

TempInit ==
  /\ backed \in BOOLEAN
  /\ root = IF backed THEN "root" ELSE ""
  /\ once = IF backed THEN "over" ELSE "new"
  /\ cleaned = FALSE
  /\ disk = IF backed THEN {"root"} ELSE {}
  /\ at = [u \in User |-> "begin"]
  /\ cleanup = "begin"

Move(u, from, to) == at[u] = from /\ at' = [at EXCEPT ![u] = to]

\* path(): initOnce.Do; a second caller waits for the first.
MakeRoot(u) ==
  /\ once = "new"
  /\ Move(u, "begin", "initializing")
  /\ once' = u
  /\ disk' = disk \cup {"root"}
  /\ UNCHANGED <<backed, root, cleaned, cleanup>>

AssignRoot(u) ==
  /\ Move(u, "initializing", "initialized")
  /\ root' = "root"
  /\ once' = "over"
  /\ UNCHANGED <<backed, cleaned, disk, cleanup>>

FindRoot(u) ==
  /\ once = "over"
  /\ Move(u, "begin", "initialized")
  /\ UNCHANGED <<backed, root, once, cleaned, disk, cleanup>>

\* Slip: nobody asks whether the root is still there.
CheckNothing(u) ==
  /\ Move(u, "initialized", "allocating")
  /\ UNCHANGED <<backed, root, once, cleaned, disk, cleanup>>

CheckCleaned(u) ==
  /\ Move(u, "initialized", IF cleaned THEN "refused" ELSE "allocating")
  /\ UNCHANGED <<backed, root, once, cleaned, disk, cleanup>>

\* os.MkdirTemp and os.CreateTemp fail when the root is gone.
Allocate(u) ==
  /\ Move(u, "allocating", IF "root" \in disk THEN "holding" ELSE "refused")
  /\ disk' = IF "root" \in disk THEN disk \cup {u} ELSE disk
  /\ UNCHANGED <<backed, root, once, cleaned, cleanup>>

\* The cleanup function of the child; it may be called again.
Release(u) ==
  /\ at[u] \in {"holding", "released"}
  /\ at' = [at EXCEPT ![u] = "released"]
  /\ disk' = disk \ {u}
  /\ UNCHANGED <<backed, root, once, cleaned, cleanup>>

\* cleanupOnce: the flag is set first.
BeginCleanup ==
  /\ cleanup = "begin"
  /\ cleanup' = "cleaning"
  /\ cleaned' = TRUE
  /\ UNCHANGED <<backed, root, once, disk, at>>

\* A root that is still being made is not seen.
LookForRoot ==
  /\ cleanup = "cleaning"
  /\ cleanup' = IF root = "" THEN "nothing" ELSE "emptying"
  /\ UNCHANGED <<backed, root, once, cleaned, disk, at>>

\* os.RemoveAll: the contents, then the directory, which may have filled again.
EmptyRoot ==
  /\ cleanup = "emptying"
  /\ cleanup' = "removing"
  /\ disk' = disk \ User
  /\ UNCHANGED <<backed, root, once, cleaned, at>>

RemoveRoot ==
  /\ cleanup = "removing"
  /\ cleanup' = IF disk \subseteq {"root"} THEN "done" ELSE "failed"
  /\ disk' = IF disk \subseteq {"root"} THEN {} ELSE disk
  /\ UNCHANGED <<backed, root, once, cleaned, at>>

TempNext == \/ \E u \in User : \/ MakeRoot(u) \/ AssignRoot(u) \/ FindRoot(u)
                               \/ CheckCleaned(u) \/ Allocate(u) \/ Release(u)
            \/ BeginCleanup \/ LookForRoot \/ EmptyRoot \/ RemoveRoot

TempSpec == TempInit /\ [][TempNext]_tempVars

-----------------------------------------------------------------------------
(* Properties.                                                             *)

\* No file of a user outlives a Cleanup that did not fail, whoever was in the
\* middle of an allocation or began one after it (tmpdir.go:58-70, 110-121).  An
\* empty root may: a user who comes when Cleanup found nothing to do makes it.
FilesGone ==
  /\ cleanup = "done" => disk = {}
  /\ cleanup = "nothing" => disk \subseteq {"root"}

\* "The caller owns the lifecycle of the directory; Cleanup() is a no-op"
\* (tmpdir.go:21-22).
CallersDirectoryStays == backed => "root" \in disk
=============================================================================
