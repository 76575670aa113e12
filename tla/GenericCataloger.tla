------------------------- MODULE GenericCataloger ---------------------------
(***************************************************************************)
(* The catalogers of one group of tasks, while they run:                   *)
(* syft/pkg/cataloger/generic/cataloger.go under syft/create_sbom.go, with *)
(* the dependencies that internal/dependency/resolver.go finds.  The tasks *)
(* are run by an executor of the context, and so are the files of each     *)
(* task: an executor has so many slots, and what runs in a slot of one is  *)
(* given a context with the next (go-sync, Collect).                       *)
(*                                                                         *)
(* The errors of parsers are about places (internal/unknown).  An error is *)
(* a tree: a plain error, one about coordinates with its reason, one that  *)
(* wraps another, or a join of several (errors.Join and multierror look    *)
(* alike from here).  Nil is no error.                                     *)
(***************************************************************************)
EXTENDS Naturals, FiniteSets, Sequences, SequencesExt, Functions

CONSTANTS Task,         \* the catalogers of the group, as numbers in their order
          FilesOf,      \* FilesOf[t]: the files its globs and paths find; a
                        \* file that two of them find is there twice
          Yields,       \* Yields[f]: what may be in it, that is what its parser
                        \* returns: a set of [packages, error]
          Provides,     \* what a package provides, and the sets of what it
          Requires,     \* requires, one set per variant (Specification)
          Parallelism,  \* slots of an executor
          MaxNesting    \* how deep the errors of parsers nest

-----------------------------------------------------------------------------
(* Errors (coordinate_error.go).                                           *)

Nil == [kind |-> "nil"]
Plain(e) == [kind |-> "plain", text |-> e]
At(c, e) == [kind |-> "at", coordinates |-> c, reason |-> e]
Wrapped(e) == [kind |-> "wrapped", inner |-> e]

\* errors.Join; none of the errors that are joined here is nil.
Joined(es) == IF es = <<>> THEN Nil ELSE [kind |-> "joined", errors |-> es]

\* What an error opens to (Unwrap, WrappedErrors), and the reasons, if they are
\* asked for, of those about coordinates.
Beneath(e, reasons) ==
  CASE e.kind = "wrapped" -> {e.inner}
    [] e.kind = "joined"  -> Range(e.errors)
    [] e.kind = "at"      -> IF reasons THEN {e.reason} ELSE {}
    [] OTHER              -> {}

Deeper(es, reasons) == es \cup UNION {Beneath(x, reasons) : x \in es}

InDepth(e, reasons) ==
  LET f[n \in 0..MaxNesting] == IF n = 0 THEN {e} ELSE Deeper(f[n - 1], reasons)
  IN  f[MaxNesting]

Parts(e) == InDepth(e, TRUE)
Opened(e) == InDepth(e, FALSE)

\* The plain errors in an error.
Texts(e) == {x.text : x \in {y \in Parts(e) : y.kind = "plain"}}

\* errors.As, for an error about coordinates: the first there is, given that of
\* what is in it.
FirstIn(x, first) ==
  CASE x.kind = "wrapped" -> first[x.inner]
    [] x.kind = "joined"  ->
         LET found == {i \in DOMAIN x.errors : first[x.errors[i]] # Nil}
         IN  IF found = {} THEN Nil ELSE first[x.errors[Min(found)]]
    [] OTHER -> Nil

FirstAt(e) ==
  LET first[n \in 0..MaxNesting] ==
        [x \in Parts(e) |-> IF x.kind = "at" THEN x
                            ELSE IF n = 0 THEN Nil
                            ELSE FirstIn(x, first[n - 1])]
  IN  first[MaxNesting][e]

New(c, reason) == IF reason = Nil THEN Nil
                  ELSE IF FirstAt(reason) # Nil THEN FirstAt(reason)
                  ELSE At(c, reason)

Flatten(e) ==
  LET flat[n \in 0..MaxNesting] ==
        [x \in Parts(e) |->
           CASE x.kind = "at" /\ n > 0 ->
                  LET parts == flat[n - 1][x.reason]
                  IN  [i \in DOMAIN parts |-> New(x.coordinates, parts[i])]
             [] x.kind = "joined" /\ n > 0 ->
                  FlattenSeq([i \in DOMAIN x.errors |-> flat[n - 1][x.errors[i]]])
             [] x.kind = "nil" -> <<>>
             [] OTHER -> <<x>>]
  IN  flat[MaxNesting][e]

\* Join: errors about coordinates are made anew, so only the others, which are
\* compared by what they are, are found to be there already.
AddOnce(out, e) == IF e.kind # "at" /\ e \in Range(out) THEN out ELSE Append(out, e)

Join(es) ==
  LET out == FoldLeft(AddOnce, <<>>, FlattenSeq([i \in DOMAIN es |-> Flatten(es[i])]))
  IN  IF Len(out) = 1 THEN out[1] ELSE Joined(out)

\* Append(errs, coords, reason)
AppendAt(e, c, reason) == Join(<<e, New(c, reason)>>)

\* ExtractCoordinateErrors: those about coordinates, and the texts of what is left.
Places(e) == {x \in Opened(e) : x.kind = "at"}
Remaining(e) == {x.text : x \in {y \in Opened(e) : y.kind = "plain"}}

-----------------------------------------------------------------------------
\* An error of a parser nests no deeper than that, and whatever is in it says
\* something.
Said(e) == \A x \in Parts(e) : /\ Beneath(x, TRUE) \subseteq Parts(e) /\ Texts(x) # {}
                               /\ x.kind = "joined" => x.errors \in Seq(Parts(e))

ASSUME CatalogerAssumption ==
  /\ Parallelism \in Nat \ {0} /\ MaxNesting \in Nat \ {0}
  /\ \A t \in Task : FilesOf[t] \in Seq(DOMAIN Yields)
  /\ \A f \in DOMAIN Yields : \A y \in Yields[f] :
       /\ y.packages \in Seq(DOMAIN Provides)
       /\ y.error = Nil \/ Said(y.error)

VARIABLES contents,   \* contents[f]: what is in a file
          at,         \* at[t]: "waiting", "collecting" or "over"
          parsing,    \* parsing[t]: indexes of the requests in a slot
          begun,      \* how many of its requests were begun
          packages, errors,   \* what its accumulator has
          cancelled,  \* the context of the scan
          result,     \* what a cataloger returned: packages, dependencies
          unknowns,   \* errors about coordinates, of all tasks
          failures    \* what the group's Collect returns: texts

catVars == <<contents, at, parsing, begun, packages, errors, cancelled, result, unknowns, failures>>

CatInit ==
  /\ contents \in {c \in [DOMAIN Yields -> UNION Range(Yields)] :
                     \A f \in DOMAIN Yields : c[f] \in Yields[f]}
  /\ at = [t \in Task |-> "waiting"]
  /\ parsing = [t \in Task |-> {}]
  /\ begun = [t \in Task |-> 0]
  /\ packages = [t \in Task |-> <<>>]
  /\ errors = [t \in Task |-> <<>>]
  /\ cancelled = FALSE
  /\ result = [t \in Task |-> [packages |-> <<>>, dependencies |-> {}]]
  /\ unknowns = {}
  /\ failures = {}

-----------------------------------------------------------------------------
(* The executors.                                                          *)

\* Each slot in use, by what: a task, or a request.
SlotsOfTasks == {<<t>> : t \in {u \in Task : at[u] = "collecting"}}
SlotsOfFiles == UNION {{<<t, i>> : i \in parsing[t]} : t \in Task}

\* Slip: files are given the slots of their tasks.
OneExecutor(slots) == Cardinality(SlotsOfTasks \cup SlotsOfFiles) < Parallelism

HasRoomFor(slots) == Cardinality(slots) < Parallelism

-----------------------------------------------------------------------------
(* Dependencies (internal/dependency/resolver.go).                         *)

\* Processor, Resolve: who provides what any variant of a package requires, of
\* the packages of this cataloger.  A pair is there once; a package may be its
\* own.
Dependencies(pkgs) ==
  {d \in Range(pkgs) \X Range(pkgs) :
     \E variant \in Requires[d[2]] : variant \cap Provides[d[1]] # {}}

-----------------------------------------------------------------------------
(* A task.                                                                 *)

\* Collect begins the tasks in their order, and none once the scan is cancelled.
BeginTask(t) ==
  /\ at[t] = "waiting" /\ \A u \in Task : u < t => at[u] # "waiting"
  /\ HasRoomFor(SlotsOfTasks)
  /\ ~cancelled
  /\ at' = [at EXCEPT ![t] = "collecting"]
  /\ UNCHANGED <<contents, parsing, begun, packages, errors, cancelled, result, unknowns, failures>>

BeginFile(t) ==
  /\ at[t] = "collecting" /\ begun[t] < Len(FilesOf[t])
  /\ HasRoomFor(SlotsOfFiles)
  /\ ~cancelled
  /\ begun' = [begun EXCEPT ![t] = @ + 1]
  /\ parsing' = [parsing EXCEPT ![t] = @ \cup {begun'[t]}]
  /\ UNCHANGED <<contents, at, packages, errors, cancelled, result, unknowns, failures>>

\* Slip: what a parser returns with an error is dropped.
EndFileStrict(t, i) ==
  LET y == contents[FilesOf[t][i]] IN
  /\ i \in parsing[t]
  /\ parsing' = [parsing EXCEPT ![t] = @ \ {i}]
  /\ packages' = IF y.error # Nil THEN packages
                 ELSE [packages EXCEPT ![t] = @ \o y.packages]
  /\ errors' = IF y.error = Nil THEN errors
               ELSE [errors EXCEPT ![t] = Append(@, New(FilesOf[t][i], y.error))]
  /\ UNCHANGED <<contents, at, begun, cancelled, result, unknowns, failures>>

\* The parser returns and the accumulator runs, one at a time: packages and an
\* error may come together.
EndFile(t, i) ==
  LET y == contents[FilesOf[t][i]] IN
  /\ i \in parsing[t]
  /\ parsing' = [parsing EXCEPT ![t] = @ \ {i}]
  /\ packages' = [packages EXCEPT ![t] = @ \o y.packages]
  /\ errors' = IF y.error = Nil THEN errors
               ELSE [errors EXCEPT ![t] = Append(@, New(FilesOf[t][i], y.error))]
  /\ UNCHANGED <<contents, at, begun, cancelled, result, unknowns, failures>>

\* Collect returns with the errors joined, the processors run, and RunTask
\* files what is about coordinates under them.
EndTask(t) ==
  /\ at[t] = "collecting" /\ parsing[t] = {}
  /\ begun[t] = Len(FilesOf[t]) \/ cancelled
  /\ LET short == begun[t] < Len(FilesOf[t])
         error == Joined(errors[t] \o (IF short THEN <<Plain("cancelled")>> ELSE <<>>))
     IN  /\ unknowns' = unknowns \cup Places(error)
         /\ failures' = failures \cup Remaining(error)
  /\ result' = [result EXCEPT ![t] = [packages |-> packages[t],
                                      dependencies |-> Dependencies(packages[t])]]
  /\ at' = [at EXCEPT ![t] = "over"]
  /\ UNCHANGED <<contents, parsing, begun, packages, errors, cancelled>>

\* The group ends without the tasks it did not begin.
SkipTask(t) ==
  /\ at[t] = "waiting" /\ cancelled
  /\ at' = [at EXCEPT ![t] = "over"]
  /\ failures' = failures \cup {"cancelled"}
  /\ UNCHANGED <<contents, parsing, begun, packages, errors, cancelled, result, unknowns>>

Cancel == /\ ~cancelled /\ \E t \in Task : at[t] # "over"
          /\ cancelled' = TRUE
          /\ UNCHANGED <<contents, at, parsing, begun, packages, errors, result, unknowns, failures>>

Work == \E t \in Task :
          \/ BeginTask(t) \/ BeginFile(t) \/ EndTask(t) \/ SkipTask(t)
          \/ \E i \in parsing[t] : EndFile(t, i)

CatNext == Work \/ Cancel

\* Goroutines go on; that a scan is cancelled is not assumed.
CatSpec == CatInit /\ [][CatNext]_catVars /\ WF_catVars(Work)

-----------------------------------------------------------------------------
(* Properties.                                                             *)

\* Every task ends: none waits with its slot in hand for one that the tasks
\* themselves have taken (create_sbom.go:96, cataloger.go:201).
TasksEnd == <>(\A t \in Task : at[t] = "over")

\* What a task returns when all its files were begun is what its parsers found,
\* with or without errors and whichever came first, as often as they found it;
\* and its dependencies are between packages of any two of the files.
Where(p, s) == {i \in DOMAIN s : s[i] = p}

FoundAt(t, p) ==
  UNION {{<<i, k>> : k \in Where(p, contents[FilesOf[t][i]].packages)} : i \in DOMAIN FilesOf[t]}

AllBegun(t) == at[t] = "over" /\ begun[t] = Len(FilesOf[t])

FoundReturned ==
  \A t \in Task : AllBegun(t) =>
    /\ \A p \in DOMAIN Provides : Cardinality(Where(p, result[t].packages)) = Cardinality(FoundAt(t, p))
    /\ \A p, q \in DOMAIN Provides :
         <<p, q>> \in result[t].dependencies <=>
           FoundAt(t, p) # {} /\ FoundAt(t, q) # {} /\ (UNION Requires[q]) \cap Provides[p] # {}

\* A file whose parser failed is heard of, whatever else failed.
Heard == failures \cup UNION {Texts(u.reason) : u \in unknowns}

FailuresHeard ==
  \A t \in Task : AllBegun(t) =>
    \A f \in Range(FilesOf[t]) : LET e == contents[f].error IN
      e # Nil => Texts(e) \cap Heard # {}

\* Neither does a file get lost in the slots of its task, nor does an error take
\* the packages with it that came with it (cataloger.go:206-227).
ResultsComplete == FoundReturned /\ FailuresHeard

\* New "returns a new CoordinateError unless the reason is a CoordinateError
\* itself, in which case reason will be returned directly"
\* (coordinate_error.go:32-33): so no error of a parser is lost.
ErrorsKept ==
  \A t \in Task : AllBegun(t) =>
    \A f \in Range(FilesOf[t]) : Texts(contents[f].error) \subseteq Heard
=============================================================================
