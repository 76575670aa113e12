---------------------------- MODULE AttestCommand --------------------------
(***************************************************************************)
(* The last part of `syft attest` (commands/attest.go): cosign runs with   *)
(* its output in a pipe that, if there is a user interface, a goroutine of *)
(* it reads line by line (cli/ui/handle_attestation.go).  The command      *)
(* closes its end of the pipe when cosign is over, and the user interface  *)
(* comes down when the reader is (cmd/syft/internal/ui/ui.go).             *)
(***************************************************************************)
EXTENDS Naturals, Sequences

CONSTANTS Chatter,     \* what cosign may print: sequences of "line" and "long line"
          Capacity,    \* lines that fit in the pipe
          Shown        \* lines the user interface keeps

VARIABLES attached,    \* somebody handles the event that carries the pipe
          toPrint,     \* what cosign has not printed yet
          pipe,        \* what nobody has read yet
          writing,     \* the write end of the pipe is open
          cosign,      \* "running", or whether it "succeeded" or "failed"
          reader,      \* the goroutine
          kept,        \* lines on show
          command      \* "waiting" for cosign, "returned" or "over"

attestVars == <<attached, toPrint, pipe, writing, cosign, reader, kept, command>>

AttestInit ==
  /\ attached \in BOOLEAN
  /\ toPrint \in Chatter
  /\ pipe = <<>> /\ writing = TRUE
  /\ cosign = "running"
  /\ reader = IF attached THEN "reading" ELSE "over"
  /\ kept = 0
  /\ command = "waiting"

\* External: a process blocks when it writes to a full pipe.
CosignPrints ==
  /\ cosign = "running" /\ toPrint # <<>>
  /\ Len(pipe) < Capacity
  /\ pipe' = Append(pipe, Head(toPrint))
  /\ toPrint' = Tail(toPrint)
  /\ UNCHANGED <<attached, writing, cosign, reader, kept, command>>

CosignEnds ==
  /\ cosign = "running" /\ toPrint = <<>>
  /\ cosign' \in {"succeeded", "failed"}
  /\ UNCHANGED <<attached, toPrint, pipe, writing, reader, kept, command>>

\* Run returns, and with it createAttestation; the write end is closed.
CommandReturns ==
  /\ command = "waiting" /\ cosign # "running"
  /\ command' = "returned"
  /\ writing' = FALSE
  /\ UNCHANGED <<attached, toPrint, pipe, cosign, reader, kept>>

\* Slip: the reader has seen enough when it has all the lines that are shown.
ReadUntilFull ==
  /\ reader = "reading" /\ pipe # <<>>
  /\ pipe' = Tail(pipe)
  /\ kept' = kept + 1
  /\ reader' = IF kept' >= Shown THEN "over" ELSE "reading"
  /\ UNCHANGED <<attached, toPrint, writing, cosign, command>>

\* A Scanner stops for good at a line that is too long for its buffer; of
\* the others the last few are kept.
ReadLine ==
  /\ reader = "reading" /\ pipe # <<>>
  /\ pipe' = Tail(pipe)
  /\ IF Head(pipe) = "long line"
     THEN reader' = "over" /\ UNCHANGED kept
     ELSE kept' = (IF kept = Shown THEN Shown ELSE kept + 1) /\ UNCHANGED reader
  /\ UNCHANGED <<attached, toPrint, writing, cosign, command>>

ReadEnd ==
  /\ reader = "reading" /\ pipe = <<>> /\ ~writing
  /\ reader' = "over"
  /\ UNCHANGED <<attached, toPrint, pipe, writing, cosign, kept, command>>

\* Teardown waits for the handlers, and so for the reader.
TearDown ==
  /\ command = "returned" /\ reader = "over"
  /\ command' = "over"
  /\ UNCHANGED <<attached, toPrint, pipe, writing, cosign, reader, kept>>

AttestNext == \/ CosignPrints \/ CosignEnds \/ CommandReturns
              \/ ReadLine \/ ReadEnd \/ TearDown

AttestSpec == /\ AttestInit /\ [][AttestNext]_attestVars
              /\ WF_attestVars(AttestNext)

-----------------------------------------------------------------------------
(* Properties.                                                             *)

\* However much cosign prints, the command ends, if the user interface is there
\* to read it and no line is too long for it (attest.go:164-203,
\* handle_attestation.go:134-161).
AttestEnds ==
  attached /\ (\A i \in DOMAIN toPrint : toPrint[i] = "line") => <>(command = "over")

\* And if it is not there: nobody reads, and cosign waits for ever.
AttestAlwaysEnds == <>(command = "over")
=============================================================================
