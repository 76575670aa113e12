----------------------------- MODULE TaskGroups ----------------------------
(***************************************************************************)
(* CreateSBOM (syft/create_sbom.go) as a scheduler: the groups of tasks    *)
(* that makeTaskGroups planned are run one after the other, the tasks of a *)
(* group concurrently on a bounded executor, each wrapped in RunTask       *)
(* (internal/task/executor.go), which turns a panic into an error, files   *)
(* the errors that have coordinates as unknowns of the SBOM and hands the  *)
(* rest to its caller.  What a task does while it runs is left open: it    *)
(* may use the temp dir and it ends with any result.                       *)
(*                                                                         *)
(* sync.Collect and the executor are from github.com/anchore/go-sync: they *)
(* are modelled by what CreateSBOM relies on, that every task of the group *)
(* is executed, that at most Slots of them are executing at a time, and    *)
(* that Collect returns the joined errors once all of them returned.       *)
(***************************************************************************)
EXTENDS Naturals, FiniteSets, SequencesExt

CONSTANTS Task,            \* all planned tasks
          NGroups,         \* number of task groups; some may be empty
          GroupOf,         \* the group a task was planned in
          Slots,           \* parallelism of the executor
          Coord,           \* coordinates an error can be about
          Reason,          \* texts of such errors
          MaxErrors,       \* bound on the coordinate errors of one task
          Labelers,        \* tasks that post-process the unknowns
          CallerOwnsTempDir

ASSUME TaskAssumption   == IsFiniteSet(Task)
ASSUME GroupsAssumption == NGroups \in Nat \ {0} /\ GroupOf \in [Task -> 1 .. NGroups]
ASSUME SlotsAssumption  == Slots \in Nat \ {0}
ASSUME ErrorsAssumption == MaxErrors \in Nat
ASSUME LabelAssumption  == Labelers \subseteq Task
ASSUME OwnerAssumption  == CallerOwnsTempDir \in BOOLEAN

VARIABLES group,     \* index of the loop over taskGroups
          status,    \* how far RunTask has come, per task
          outcome,   \* what Execute returned: coordinate errors, other error
          unknowns,  \* sbom.Artifacts.Unknowns
          progress,  \* catalogingProgress: tasks counted, error set
          tempDir,   \* the root temp dir: "absent", "created" or "removed"
          result,    \* what CreateSBOM is going to return
          returned   \* the deferred cleanup has run

vars == <<group, status, outcome, unknowns, progress, tempDir, result, returned>>

\* An unknown is remembered with the task that reported it (formatUnknown).
Text == Task \X Reason

\* The errors of a task, in the order they were joined; a panic is an error
\* without coordinates.
Outcome == [coords : UNION {[1 .. n -> Coord \X Reason] : n \in 0 .. MaxErrors},
            other  : BOOLEAN]

NoErrors == [coords |-> <<>>, other |-> FALSE]

Members(g) == {t \in Task : GroupOf[t] = g}

Executing == {t \in Task : status[t] \in {"running", "executed", "reported"}}

Init ==
  /\ group = 1
  /\ status = [t \in Task |-> "waiting"]
  /\ outcome = [t \in Task |-> NoErrors]
  /\ unknowns = [c \in Coord |-> <<>>]
  /\ progress = [current |-> 0, err |-> FALSE]
  /\ tempDir = "absent"
  /\ result = "none"
  /\ returned = FALSE

-----------------------------------------------------------------------------
(* RunTask                                                                 *)

\* sync.Collect hands a task of the current group to the executor.
StartTask(t) ==
  /\ result = "none"
  /\ status[t] = "waiting"
  /\ GroupOf[t] = group
  /\ Cardinality(Executing) < Slots
  /\ status' = [status EXCEPT ![t] = "running"]
  /\ UNCHANGED <<group, outcome, unknowns, progress, tempDir, result, returned>>

\* TempDir.path(): created by whichever task needs it first.
UseTempDir(t) ==
  /\ status[t] = "running"
  /\ tempDir = "absent"
  /\ tempDir' = "created"
  /\ UNCHANGED <<group, status, outcome, unknowns, progress, result, returned>>

\* runTaskSafely: Execute returns or panics.
EndExecute(t, o) ==
  /\ status[t] = "running"
  /\ status' = [status EXCEPT ![t] = "executed"]
  /\ outcome' = [outcome EXCEPT ![t] = o]
  /\ UNCHANGED <<group, unknowns, progress, tempDir, result, returned>>

\* The unknowns labeler, under the lock of the builder: it deletes what is
\* known about some coordinates, appends a text of its own to others, and
\* returns no error.
LabelUnknowns(t, gone, marked, r) ==
  /\ t \in Labelers
  /\ status[t] = "running"
  /\ unknowns' = [c \in Coord |-> (IF c \in gone THEN <<>> ELSE unknowns[c])
                                     \o (IF c \in marked THEN << <<t, r>> >> ELSE <<>>)]
  /\ status' = [status EXCEPT ![t] = "executed"]
  /\ outcome' = [outcome EXCEPT ![t] = NoErrors]
  /\ UNCHANGED <<group, progress, tempDir, result, returned>>

\* Slip: an unknown already there is appended again.
WithUnknownAgain(u, t, e) == [u EXCEPT ![e[1]] = Append(@, <<t, e[2]>>)]

\* appendUnknowns: one turn of its loop, an unknown already there is skipped.
WithUnknown(u, t, e) ==
  LET text == <<t, e[2]>>
  IN  IF Contains(u[e[1]], text) THEN u ELSE [u EXCEPT ![e[1]] = Append(@, text)]

\* appendUnknowns: its loop over the errors.
WithUnknowns(u, t, es) ==
  LET after[n \in 0 .. Len(es)] == IF n = 0 THEN u ELSE WithUnknown(after[n - 1], t, es[n])
  IN  after[Len(es)]

\* ExtractCoordinateErrors and appendUnknowns, under the lock of the builder.
AppendUnknowns(t) ==
  /\ status[t] = "executed"
  /\ unknowns' = WithUnknowns(unknowns, t, outcome[t].coords)
  /\ status' = [status EXCEPT ![t] = "reported"]
  /\ UNCHANGED <<group, outcome, progress, tempDir, result, returned>>

\* Slip: a failed task never gives its slot back.
FinishCleanOnly(t) ==
  /\ status[t] = "reported"
  /\ ~outcome[t].other
  /\ progress' = [progress EXCEPT !.current = @ + 1]
  /\ status' = [status EXCEPT ![t] = "done"]
  /\ UNCHANGED <<group, outcome, unknowns, tempDir, result, returned>>

\* prog.SetError, prog.Increment, return: the slot is free again.
FinishTask(t) ==
  /\ status[t] = "reported"
  /\ progress' = [current |-> progress.current + 1,
                  err     |-> progress.err \/ outcome[t].other]
  /\ status' = [status EXCEPT ![t] = "done"]
  /\ UNCHANGED <<group, outcome, unknowns, tempDir, result, returned>>

-----------------------------------------------------------------------------
(* CreateSBOM                                                              *)

\* Slip: Collect returns when everything was submitted.
GroupStarted == \A t \in Members(group) : status[t] # "waiting"

GroupDone == \A t \in Members(group) : status[t] = "done"

\* Slip: the error of Collect is not looked at.
NextGroupAnyway ==
  /\ result = "none"
  /\ group <= NGroups
  /\ GroupDone
  /\ group' = group + 1
  /\ UNCHANGED <<status, outcome, unknowns, progress, tempDir, result, returned>>

\* Collect returned no error: the loop goes on.
NextGroup ==
  /\ result = "none"
  /\ group <= NGroups
  /\ GroupDone
  /\ \A t \in Members(group) : ~outcome[t].other
  /\ group' = group + 1
  /\ UNCHANGED <<status, outcome, unknowns, progress, tempDir, result, returned>>

\* Collect returned an error: "failed to run tasks", the SBOM is discarded.
FailGroup ==
  /\ result = "none"
  /\ group <= NGroups
  /\ GroupDone
  /\ \E t \in Members(group) : outcome[t].other
  /\ result' = "error"
  /\ UNCHANGED <<group, status, outcome, unknowns, progress, tempDir, returned>>

\* All groups were run: both progress monitors are completed.
Complete ==
  /\ result = "none"
  /\ group = NGroups + 1
  /\ result' = "sbom"
  /\ UNCHANGED <<group, status, outcome, unknowns, progress, tempDir, returned>>

\* Slip: cleanup is not deferred, an error leaves before it.
ReturnCleaningOnSuccess ==
  /\ result # "none"
  /\ ~returned
  /\ tempDir' = IF tempDir = "created" /\ ~CallerOwnsTempDir /\ result = "sbom"
                  THEN "removed" ELSE tempDir
  /\ returned' = TRUE
  /\ UNCHANGED <<group, status, outcome, unknowns, progress, result>>

\* The deferred Cleanup, registered unless the caller brought the temp dir.
Return ==
  /\ result # "none"
  /\ ~returned
  /\ tempDir' = IF tempDir = "created" /\ ~CallerOwnsTempDir THEN "removed" ELSE tempDir
  /\ returned' = TRUE
  /\ UNCHANGED <<group, status, outcome, unknowns, progress, result>>

EndsExecute(t) ==
  /\ status[t] = "running"
  /\ \/ \E o \in Outcome : EndExecute(t, o)
     \/ /\ t \in Labelers
        /\ \E gone, marked \in SUBSET Coord, r \in Reason : LabelUnknowns(t, gone, marked, r)

TaskStep(t) == \/ StartTask(t)
               \/ UseTempDir(t)
               \/ EndsExecute(t)
               \/ AppendUnknowns(t)
               \/ FinishTask(t)

Next == \/ \E t \in Task : TaskStep(t)
        \/ NextGroup
        \/ FailGroup
        \/ Complete
        \/ Return

\* The executor runs what was submitted, a task that runs returns some time
\* (no cataloger waits for another one) and the loop goes on when Collect
\* returned.
Fairness == /\ \A t \in Task : /\ WF_vars(StartTask(t))
                               /\ WF_vars(EndsExecute(t))
                               /\ WF_vars(AppendUnknowns(t))
                               /\ WF_vars(FinishTask(t))
            /\ WF_vars(NextGroup \/ FailGroup \/ Complete)
            /\ WF_vars(Return)

Spec == Init /\ [][Next]_vars /\ Fairness

-----------------------------------------------------------------------------
(* Properties.                                                             *)

TypeOK ==
  /\ group \in 1 .. (NGroups + 1)
  /\ status \in [Task -> {"waiting", "running", "executed", "reported", "done"}]
  /\ outcome \in [Task -> Outcome]
  /\ progress \in [current : Nat, err : BOOLEAN]
  /\ tempDir \in {"absent", "created", "removed"}
  /\ result \in {"none", "error", "sbom"}
  /\ returned \in BOOLEAN

\* "tasks in different groups must be run serially": a task that was started
\* finds every task of every earlier group finished, and without an error
\* (create_sbom.go:95-103, create_sbom_config.go:182-183).
InOrder ==
  \A t, u \in Task : status[t] # "waiting" /\ GroupOf[u] < GroupOf[t] =>
     status[u] = "done" /\ ~outcome[u].other

\* CreateSBOM returns an SBOM only if every planned task ran to its end
\* without an error and was counted; it returns an error only for a task that
\* failed, after the group of that task ended and before any later one began
\* (create_sbom.go:99-108).
ResultJustified ==
  /\ result = "sbom" =>
       /\ \A t \in Task : status[t] = "done" /\ ~outcome[t].other
       /\ ~progress.err
  /\ result = "error" =>
       /\ \E t \in Task : outcome[t].other
       /\ \A t \in Task : status[t] = IF GroupOf[t] <= group THEN "done" ELSE "waiting"

\* Until a labeler edits them: no coordinate error of a task that got past
\* RunTask is lost, however the tasks interleave, none is listed twice, and
\* nothing is listed that no task reported (executor.go:31-48).
UnknownsExact ==
  (\A t \in Labelers : status[t] = "waiting") =>
    \A c \in Coord :
      /\ unknowns[c] \in Seq(Text)
      /\ \A t \in Task, r \in Reason :
           Contains(unknowns[c], <<t, r>>) <=>
             /\ status[t] \in {"reported", "done"}
             /\ Contains(outcome[t].coords, <<c, r>>)
      /\ IsInjective(unknowns[c])

\* The temp dir outlives every task that may use it, and does not outlive the
\* call unless the caller owns it (create_sbom.go:72-89).
TempDirScoped ==
  /\ tempDir = "removed" => Executing = {} /\ ~CallerOwnsTempDir
  /\ returned => Executing = {} /\ (tempDir = "created" => CallerOwnsTempDir)

\* CreateSBOM comes back, whatever its tasks return or panic with.
Returns == <>returned
=============================================================================
