-------------------------- MODULE LocationStreams --------------------------
(***************************************************************************)
(* AllLocations of an image: the goroutines behind it and the cataloger of *)
(* file metadata that ranges over their locations.  There is one goroutine *)
(* per resolver, each with an unbuffered channel: the squashed view, and   *)
(* for the deep-squashed scope also the view of all layers and the one     *)
(* that merges the two (syft/internal/fileresolver/                        *)
(* container_image_deep_squash.go); perhaps one that leaves out what is    *)
(* excluded (excluding_file.go).                                           *)
(***************************************************************************)
EXTENDS Naturals, Sequences, SequencesExt, Functions

CONSTANTS Locations,  \* Locations[v]: what view v holds, a sequence
          InSquash,   \* locations whose paths are in the squashed view
          Excluded    \* locations the user excludes

Views == {"squashed", "all"}
None == "none"
ASSUME StreamAssumption ==
  /\ DOMAIN Locations = Views
  /\ \A v \in Views : /\ Locations[v] \in Seq(Range(Locations[v]))
                      /\ IsInjective(Locations[v])
                      /\ None \notin Range(Locations[v])

VARIABLES deep,       \* is the scope deep-squashed
          filtering,  \* is something excluded
          cancelled,  \* the context of the cataloger
          sent,       \* how many locations each view has sent
          running,    \* which goroutines have not returned
          merging,    \* [view it reads, location it sends, whether it gave up]
          coords,     \* what it sent of the squashed view
          passing,    \* the location the filter sends
          got,        \* what the cataloger received
          cataloger   \* "receiving", "working", "failed", "returned", or
                      \* "cut short": the stream ended early, which does not show

streamVars == <<deep, filtering, cancelled, sent, running, merging, coords,
                passing, got, cataloger>>

StreamInit ==
  /\ deep \in BOOLEAN /\ filtering \in BOOLEAN
  /\ cancelled = FALSE
  /\ sent = [v \in Views |-> 0]
  /\ running = {"squashed"} \cup (IF deep THEN {"all", "merge"} ELSE {})
                            \cup (IF filtering THEN {"filter"} ELSE {})
  /\ merging = [view |-> "squashed", location |-> None, done |-> FALSE]
  /\ coords = {}
  /\ passing = None
  /\ got = <<>>
  /\ cataloger = "receiving"

-----------------------------------------------------------------------------
(* The views: select between the context and the channel.                  *)

Ready(v) == v \in running /\ sent[v] < Len(Locations[v])
NextOf(v) == Locations[v][sent[v] + 1]
Take(v) == sent' = [sent EXCEPT ![v] = @ + 1]

\* The channel is closed when the locations are sent or the context is done.
CloseView(v) ==
  /\ v \in running
  /\ sent[v] = Len(Locations[v]) \/ cancelled
  /\ running' = running \ {v}
  /\ UNCHANGED <<deep, filtering, cancelled, sent, merging, coords, passing, got, cataloger>>

-----------------------------------------------------------------------------
(* The merge (mergeLocationStreams).                                       *)

\* Slip: what the squashed view sent is sent again.
RaisedAgain(l) == coords # {} /\ l \in InSquash

\* Of all layers: only what the squashed view has a path for, and did not send.
Raised(l) == coords # {} /\ l \notin coords /\ l \in InSquash

\* It looks at the context before each send, and only then.
MergeReceive ==
  LET v == merging.view
      wanted == ~merging.done /\ (v = "all" => Raised(NextOf(v)))
  IN  /\ "merge" \in running /\ merging.location = None
      /\ Ready(v)
      /\ Take(v)
      /\ merging' = IF ~wanted THEN merging
                    ELSE IF cancelled THEN [merging EXCEPT !.done = TRUE]
                    ELSE [merging EXCEPT !.location = NextOf(v)]
      /\ UNCHANGED <<deep, filtering, cancelled, running, coords, passing, got, cataloger>>

MergeNextView ==
  /\ "merge" \in running /\ merging.location = None
  /\ merging.view \notin running
  /\ IF merging.view = "squashed"
       THEN merging' = [merging EXCEPT !.view = "all"] /\ UNCHANGED running
       ELSE running' = running \ {"merge"} /\ UNCHANGED merging
  /\ UNCHANGED <<deep, filtering, cancelled, sent, coords, passing, got, cataloger>>

-----------------------------------------------------------------------------
(* What is behind the last view or the merge receives from it.             *)

Upstream == IF deep THEN "merge" ELSE "squashed"
Offered == IF deep THEN merging.location
           ELSE IF Ready("squashed") THEN NextOf("squashed") ELSE None

Receive ==
  IF deep
    THEN /\ merging' = [merging EXCEPT !.location = None]
         /\ coords' = IF merging.view = "squashed" THEN coords \cup {Offered} ELSE coords
         /\ UNCHANGED sent
    ELSE Take("squashed") /\ UNCHANGED <<merging, coords>>

\* The excluding decorator: for each location, unless it is excluded, select
\* between the context and the channel.
FilterReceive ==
  /\ "filter" \in running /\ passing = None /\ Offered # None
  /\ Receive
  /\ passing' = IF Offered \in Excluded THEN None ELSE Offered
  /\ UNCHANGED <<deep, filtering, cancelled, running, got, cataloger>>

\* Slip: it returns only when all is sent.
FilterReturnClosed ==
  /\ "filter" \in running
  /\ passing = None /\ Upstream \notin running
  /\ running' = running \ {"filter"}
  /\ UNCHANGED <<deep, filtering, cancelled, sent, merging, coords, passing, got, cataloger>>

FilterReturn ==
  /\ "filter" \in running
  /\ \/ passing = None /\ Upstream \notin running
     \/ passing # None /\ cancelled
  /\ running' = running \ {"filter"}
  /\ passing' = None
  /\ UNCHANGED <<deep, filtering, cancelled, sent, merging, coords, got, cataloger>>

-----------------------------------------------------------------------------
(* The cataloger of metadata (syft/file/cataloger/filemetadata).           *)

CatalogerReceive ==
  /\ cataloger = "receiving"
  /\ IF filtering
       THEN /\ passing # None
            /\ got' = Append(got, passing)
            /\ passing' = None
            /\ UNCHANGED <<sent, merging, coords>>
       ELSE /\ Offered # None
            /\ got' = Append(got, Offered)
            /\ Receive
            /\ UNCHANGED passing
  /\ cataloger' = "working"
  /\ UNCHANGED <<deep, filtering, cancelled, running>>

\* The metadata of the location is there, or it returns; cancel is deferred.
CatalogerWork ==
  /\ cataloger = "working"
  /\ \/ cataloger' = "receiving" /\ UNCHANGED cancelled
     \/ cataloger' = "failed" /\ cancelled' = TRUE
  /\ UNCHANGED <<deep, filtering, sent, running, merging, coords, passing, got>>

CatalogerReturn ==
  /\ cataloger = "receiving"
  /\ (IF filtering THEN "filter" ELSE Upstream) \notin running
  /\ cataloger' = IF cancelled THEN "cut short" ELSE "returned"
  /\ cancelled' = TRUE
  /\ UNCHANGED <<deep, filtering, sent, running, merging, coords, passing, got>>

\* The scan is interrupted.
Interrupt ==
  /\ ~cancelled
  /\ cancelled' = TRUE
  /\ UNCHANGED <<deep, filtering, sent, running, merging, coords, passing, got, cataloger>>

Goroutines == \/ \E v \in Views : CloseView(v)
              \/ MergeReceive \/ MergeNextView
              \/ FilterReceive \/ FilterReturn
              \/ CatalogerReceive \/ CatalogerWork \/ CatalogerReturn

StreamNext == Goroutines \/ Interrupt

\* The Go scheduler runs every goroutine that can go on.
StreamSpec == StreamInit /\ [][StreamNext]_streamVars /\ WF_streamVars(Goroutines)

-----------------------------------------------------------------------------
(* Properties.                                                             *)

\* The order of the views: the squashed one, then what the others have besides.
IndexIn(v, l) == CHOOSE n \in DOMAIN Locations[v] : Locations[v][n] = l
Place(l) == IF l \in Range(Locations["squashed"]) THEN IndexIn("squashed", l)
            ELSE Len(Locations["squashed"]) + IndexIn("all", l)

KeepsOrder(s) == \A i, j \in DOMAIN s : i < j => Place(s[i]) < Place(s[j])

\* Of all layers, only what a squashed view has a path for is raised.
Raisable == IF Locations["squashed"] = <<>> THEN {} ELSE InSquash

Expected == (Range(Locations["squashed"])
               \cup IF deep THEN Range(Locations["all"]) \cap Raisable ELSE {})
            \ IF filtering THEN Excluded ELSE {}

\* What a cataloger that returns without an error has received: each location
\* of the squashed view, then each one the other layers raise, none twice and
\* none that is excluded, if the scan was not interrupted.
EachOnce == cataloger = "returned" => Range(got) = Expected /\ KeepsOrder(got)

\* The cataloger returns, also when it fails or is interrupted; and then for
\* the squashed scope nobody is left: its goroutines select on the context
\* when they send.
StreamsEnd == /\ <>(cataloger \in {"failed", "cut short", "returned"})
              /\ deep \/ <>(running = {})

\* In the end nobody is left, whatever the scope.
NobodyLeft == <>(running = {})
=============================================================================
