---------------------------- MODULE ScanCommand ----------------------------
(***************************************************************************)
(* `syft scan` (cmd/syft/internal/commands/scan.go): the writers of the    *)
(* reports (cmd/syft/internal/options/writer.go) are opened before the     *)
(* input is resolved, the SBOM goes to all of them, and what is for the    *)
(* screen is held back until the user interface comes down                 *)
(* (cmd/syft/internal/ui).  An output is a format and a path.              *)
(***************************************************************************)
EXTENDS Sources

CONSTANTS Outputs,      \* sequences of outputs: what may be asked for
          Forbidden,    \* paths at which no file can be created
          Unsupported   \* formats that nobody knows

\* The path of what is for the screen.
Screen == ""

ASSUME OutputsAssumption == \A o \in Outputs : o \in Seq(Range(o))

VARIABLES outputs,
          files,        \* path -> what is in it: pieces of reports
          opened,       \* writers there are
          wrote,        \* of them, those that had their turn
          broken,       \* of these, those whose encoder failed
          reports,      \* published on the bus, not yet on the screen
          screen,
          stage,
          outcome

commandVars == <<outputs, files, opened, wrote, broken, reports, screen, stage, outcome>>

WholeReport(format) == [of |-> format, whole |-> TRUE]
PieceOf(format) == [of |-> format, whole |-> FALSE]
Old == WholeReport("old")

CommandInit ==
  /\ SourcesInit
  /\ outputs \in Outputs
  /\ files = [path \in {outputs[i].path : i \in DOMAIN outputs} \ {Screen} |-> <<Old>>]
  /\ opened = 0 /\ wrote = 0 /\ broken = {}
  /\ reports = <<>> /\ screen = <<>>
  /\ stage = "parsing" /\ outcome = "open"

\* The functions above return; what is deferred follows.
FailCommand == outcome' = "failed" /\ stage' = "closing"

\* parseSBOMOutputFlags looks at all formats before a file is touched.
ParseOutputs ==
  /\ stage = "parsing"
  /\ \/ /\ \E i \in DOMAIN outputs : outputs[i].format \in Unsupported
        /\ FailCommand
     \/ /\ \A i \in DOMAIN outputs : outputs[i].format \notin Unsupported
        /\ stage' = "opening"
        /\ UNCHANGED outcome
  /\ UNCHANGED <<sourceVars, outputs, files, opened, wrote, broken, reports, screen>>

\* newSBOMMultiWriter: a file is emptied as it is opened; those opened before one
\* that cannot be stay as they are.
OpenOutput ==
  /\ stage = "opening" /\ opened < Len(outputs)
  /\ LET path == outputs[opened + 1].path
     IN IF path \in Forbidden
        THEN FailCommand /\ UNCHANGED <<files, opened>>
        ELSE /\ opened' = opened + 1
             /\ files' = IF path = Screen THEN files ELSE [files EXCEPT ![path] = <<>>]
             /\ UNCHANGED <<stage, outcome>>
  /\ UNCHANGED <<sourceVars, outputs, wrote, broken, reports, screen>>

AllOpen ==
  /\ stage = "opening" /\ opened = Len(outputs)
  /\ stage' = "resolving"
  /\ UNCHANGED <<sourceVars, outputs, files, opened, wrote, broken, reports, screen, outcome>>

\* GetSource.
ResolveSource ==
  /\ stage = "resolving"
  /\ RejectDemand \/ TryProvider \/ RefuseInput
  /\ CASE verdict' = "open" -> UNCHANGED <<stage, outcome>>
       [] verdict' = "found" -> stage' = "scanning" /\ UNCHANGED outcome
       [] OTHER -> FailCommand
  /\ UNCHANGED <<outputs, files, opened, wrote, broken, reports, screen>>

\* CreateSBOM asks the source for its files, once, and may fail all the same.
Generate ==
  /\ stage = "scanning"
  /\ AskResolver
  /\ \/ FailCommand
     \/ answers'[1] = "files" /\ stage' = "writing" /\ UNCHANGED outcome
  /\ UNCHANGED <<outputs, files, opened, wrote, broken, reports, screen>>

\* What a file that is written from its beginning keeps of a report that was
\* there: the rest, unless the new one is as long.
Overwrite(old, new) == {<<new>>} \cup
  (IF old # <<>> /\ old[1].of # new.of THEN {<<new, PieceOf(old[1].of)>>} ELSE {})

\* Slip: the first writer that fails ends the round.
WriteUntilFailure ==
  /\ stage = "writing" /\ wrote < opened /\ broken = {}
  /\ LET format == outputs[wrote + 1].format
         path == outputs[wrote + 1].path
     IN /\ \E fails \in BOOLEAN :
             /\ broken' = IF fails THEN broken \cup {wrote + 1} ELSE broken
             /\ files' = IF path = Screen \/ fails THEN files
                         ELSE [files EXCEPT ![path] = <<WholeReport(format)>>]
             /\ reports' = IF path = Screen /\ ~fails THEN Append(reports, format) ELSE reports
             /\ wrote' = IF fails THEN opened ELSE wrote + 1
  /\ UNCHANGED <<sourceVars, outputs, opened, screen, stage, outcome>>

\* sbomMultiWriter.Write goes on after an error; a report for the screen is
\* published only when it is complete, one for a file goes where it goes.
WriteReport ==
  /\ stage = "writing" /\ wrote < opened
  /\ LET format == outputs[wrote + 1].format
         path == outputs[wrote + 1].path
     IN /\ \E fails \in BOOLEAN :
             /\ broken' = IF fails THEN broken \cup {wrote + 1} ELSE broken
             /\ reports' = IF path = Screen /\ ~fails THEN Append(reports, format) ELSE reports
             /\ IF path = Screen THEN UNCHANGED files
                ELSE \E content \in Overwrite(files[path],
                                              IF fails THEN PieceOf(format) ELSE WholeReport(format)) :
                       files' = [files EXCEPT ![path] = content]
        /\ wrote' = wrote + 1
  /\ UNCHANGED <<sourceVars, outputs, opened, screen, stage, outcome>>

AllWritten ==
  /\ stage = "writing" /\ wrote = opened
  /\ IF broken = {} THEN outcome' = "done" /\ stage' = "closing" ELSE FailCommand
  /\ UNCHANGED <<sourceVars, outputs, files, opened, wrote, broken, reports, screen>>

\* The deferred Close, and writeEvents when the user interface comes down.
FinishCommand ==
  /\ stage = "closing"
  /\ stage' = "over"
  /\ IF verdict = "found" THEN CloseSource ELSE UNCHANGED sourceVars
  /\ screen' = reports
  /\ UNCHANGED <<outputs, files, opened, wrote, broken, reports, outcome>>

CommandNext == \/ ParseOutputs \/ OpenOutput \/ AllOpen \/ ResolveSource \/ Generate
               \/ WriteReport \/ AllWritten \/ FinishCommand

CommandSpec == CommandInit /\ [][CommandNext]_<<sourceVars, commandVars>>

-----------------------------------------------------------------------------
(* Properties.                                                             *)

Shared(i) == \E j \in DOMAIN outputs \ {i} : outputs[j].path = outputs[i].path

Served == {i \in 1..wrote : i \notin broken}
ForScreen(n) == {i \in Served : i <= n /\ outputs[i].path = Screen}

\* When a scan is over, whatever failed on the way: each output whose encoder did
\* its work has its report, whole and alone in its file, or on the screen in the
\* order of the command line, unless another output has the same file; without an
\* SBOM there is no report at all; and nothing temporary is left
\* (scan.go:173-216, writer.go:160-247).
OutputsServed ==
  stage = "over" =>
    /\ \A i \in Served : outputs[i].path # Screen /\ ~Shared(i)
                           => files[outputs[i].path] = <<WholeReport(outputs[i].format)>>
    /\ Len(screen) = Cardinality(ForScreen(wrote))
    /\ \A i \in ForScreen(wrote) : screen[Cardinality(ForScreen(i))] = outputs[i].format
    /\ outcome = "done" => Served = DOMAIN outputs
    /\ wrote > 0 => answers # <<>> /\ answers[1] = "files" /\ wrote = Len(outputs)
    /\ wrote = 0 => \A path \in DOMAIN files : files[path] \in {<<>>, <<Old>>}
    /\ OwnedOrKnown
=============================================================================
