------------------------------ MODULE Sources ------------------------------
(***************************************************************************)
(* What a user asks to scan becomes a source: GetSource                    *)
(* (syft/get_source.go) asks one provider after the other, the sources     *)
(* hand out file resolvers, and Close removes what they unpacked           *)
(* (syft/source).  Of an input, only what the providers can make of it; of *)
(* the images and stores far away, only whether they have it.              *)
(***************************************************************************)
EXTENDS Naturals, Sequences, SequencesExt, FiniteSets

CONSTANTS Inputs,    \* what may be there: [path, docker, registry, store]
          Demands,   \* what may be asked for: [platform, pull, from, exclude]
          MaxAsks    \* at most so many calls of FileResolver

ASSUME InputsAssumption ==
  \A i \in Inputs :
    /\ i.path \in {"nothing", "directory", "file", "archive", "torn-archive", "image-archive",
                   "image-layout", "snap", "broken-snap"}
    /\ i.registry \in {"nothing", "image", "model"}
    /\ i.store \in {"nothing", "snap", "broken-snap", "cut-off"}

ASSUME DemandsAssumption == \A d \in Demands : d.from \in Seq(Range(d.from))

VARIABLES input, demand,
          tried,     \* providers asked
          failures,  \* of them, <<provider, "missing" or "other">>
          verdict,   \* of GetSource
          found,     \* the provider whose source was returned
          leftover,      \* <<provider, what>>: temporary files and open handles
          made,      \* the source keeps a resolver
          patterns,  \* the exclusions, which the first use rewrites in place
          answers,   \* of FileResolver
          closed

sourceVars == <<input, demand, tried, failures, verdict, found, leftover, made, patterns,
                answers, closed>>

\* The tags of the providers, among them their names.
TagsOf == [ociArchive |-> {"image", "file"}, ociDir |-> {"image", "dir"},
           localSnap |-> {"snap"}, localFile |-> {"file", "local-file"},
           localDir |-> {"dir", "local-directory"}, docker |-> {"image", "pull", "docker"},
           registry |-> {"image", "pull", "registry"},
           ociModel |-> {"registry", "oci-model"}, remoteSnap |-> {"snap"}]

\* Slip: files are taken for files before they are tried as snaps.
FilesFirst == <<"ociArchive", "ociDir", "localFile", "localDir", "localSnap", "docker",
                "registry", "ociModel", "remoteSnap">>

All == <<"ociArchive", "ociDir", "localSnap", "localFile", "localDir", "docker",
         "registry", "ociModel", "remoteSnap">>

\* The providers of a list that are among some, in the order of the list.
Among(providers, some) ==
  LET first[i \in 0..Len(providers)] ==
        IF i = 0 THEN <<>>
        ELSE IF providers[i] \in some THEN Append(first[i - 1], providers[i])
        ELSE first[i - 1]
  IN  first[Len(providers)]

Bearing(tag) == {p \in DOMAIN TagsOf : tag \in TagsOf[p]}
Tagged(providers, tag) == Among(providers, Bearing(tag))

\* No default pull source is asked for.
Unset == ""

Pulls == Tagged(All, "pull")
Preferred == Tagged(Pulls, demand.pull)

\* Join leaves out what is there already.
JoinProviders(providers, more) ==
  providers \o Among(more, DOMAIN TagsOf \ ToSet(providers))

\* Select takes those with the first tag, then more with the second, and so on.
Selected(providers, tags) ==
  LET chosen[i \in 0..Len(tags)] ==
        IF i = 0 THEN <<>> ELSE JoinProviders(chosen[i - 1], Tagged(providers, tags[i]))
  IN  chosen[Len(tags)]

\* getProviders: the default pull source goes before the other pull sources,
\* and all of them last; the tags asked for select in their order.
Providers ==
  LET others == Among(All, DOMAIN TagsOf \ Bearing("pull"))
      ordered == IF demand.pull = Unset THEN All
                 ELSE JoinProviders(JoinProviders(others, Preferred), Pulls)
  IN IF demand.from = <<>> THEN ordered ELSE Selected(ordered, demand.from)

\* What a provider returns: a source or not, an error, and what it leaves behind.
Made(things) == [source |-> TRUE, error |-> "none", leftover |-> things]
NotMade == [source |-> FALSE, error |-> "other", leftover |-> {}]
NoSuchFile == [NotMade EXCEPT !.error = "missing"]

\* stereoscopeImageSourceProvider, for images of four kinds.
ProvideImage(p) ==
  IF \/ p = "ociArchive" /\ input.path = "image-archive"
     \/ p = "ociDir" /\ input.path = "image-layout"
     \/ p = "docker" /\ input.docker
     \/ p = "registry" /\ input.registry = "image"
  THEN Made({"image"}) ELSE NotMade

\* newFromPath returns the source together with the error of its manifest.
SnapFrom(snap, things) ==
  CASE snap = "snap" -> Made(things \cup {"handle"})
    [] snap = "broken-snap" -> [Made(things \cup {"handle"}) EXCEPT !.error = "other"]
    [] OTHER -> NotMade

\* The temporary directory of a download that fails stays.
ProvideRemoteSnap ==
  IF input.store = "cut-off" THEN [NotMade EXCEPT !.leftover = {"download"}]
  ELSE SnapFrom(input.store, {"download"})

\* An archive is unpacked; the pieces of one that is torn are removed at once.
ProvideFile ==
  CASE input.path = "nothing" -> NoSuchFile
    [] input.path \in {"directory", "image-layout", "torn-archive"} -> NotMade
    [] input.path \in {"archive", "image-archive"} -> Made({"unpacked"})
    [] OTHER -> Made({})

ProvideDir ==
  CASE input.path = "nothing" -> NoSuchFile
    [] input.path \in {"directory", "image-layout"} -> Made({})
    [] OTHER -> NotMade

\* The headers of the layers are stored; if one cannot be had, all go again.
ProvideModel == IF input.registry = "model" THEN Made({"headers"}) ELSE NotMade

Provide(p) ==
  CASE p = "localSnap" -> SnapFrom(input.path, {})
    [] p = "remoteSnap" -> ProvideRemoteSnap
    [] p = "localFile" -> ProvideFile
    [] p = "localDir" -> ProvideDir
    [] p = "ociModel" -> ProvideModel
    [] OTHER -> ProvideImage(p)

SourcesInit ==
  /\ input \in Inputs
  /\ demand \in Demands
  /\ tried = <<>>
  /\ failures = {}
  /\ verdict = "open"
  /\ found = "nobody"
  /\ leftover = {}
  /\ made = FALSE
  /\ patterns = demand.exclude
  /\ answers = <<>>
  /\ closed = FALSE

\* An unknown default pull source.
RejectDemand ==
  /\ verdict = "open" /\ tried = <<>>
  /\ demand.pull # Unset /\ Preferred = <<>>
  /\ verdict' = "invalid"
  /\ UNCHANGED <<input, demand, tried, failures, found, leftover, made, patterns, answers,
                 closed>>

\* validateSourcePlatform: files and directories are for any platform.  The
\* source that was made for one is not closed.
Supported(p) == demand.platform => p \notin {"localFile", "localDir"}

\* One turn of the loop of GetSource: a source is returned with or without error.
TryProvider ==
  /\ verdict = "open" /\ Len(tried) < Len(Providers)
  /\ demand.pull = Unset \/ Preferred # <<>>
  /\ LET p == Providers[Len(tried) + 1]
         o == Provide(p)
     IN /\ tried' = Append(tried, p)
        /\ failures' = IF o.error = "none" THEN failures ELSE failures \cup {<<p, o.error>>}
        /\ leftover' = leftover \cup {<<p, thing>> : thing \in o.leftover}
        /\ verdict' = IF ~o.source THEN "open" ELSE IF Supported(p) THEN "found" ELSE "unsupported"
        /\ found' = IF verdict' = "found" THEN p ELSE "nobody"
        /\ made' = (found' \in {"localSnap", "remoteSnap"} /\ o.error = "none")
  /\ UNCHANGED <<input, demand, patterns, answers, closed>>

\* When all that is wrong is that nothing is there, no error is passed on.
RefuseInput ==
  /\ verdict = "open" /\ Len(tried) = Len(Providers)
  /\ verdict' = IF \E p \in ToSet(tried) : <<p, "other">> \in failures
                THEN "failed" ELSE "unresolved"
  /\ UNCHANGED <<input, demand, tried, failures, found, leftover, made, patterns, answers,
                 closed>>

\* What FileResolver returns: only directories and snaps keep what they returned,
\* and files and directories read the exclusions, which have to be relative.
FileResolver ==
  CASE found \in {"localSnap", "remoteSnap"} -> IF made THEN "files" ELSE "error"
    [] found = "localFile" \/ (found = "localDir" /\ ~made) ->
         IF patterns \in {"none", "relative"} THEN "files" ELSE "error"
    [] OTHER -> "files"

\* GetDirectoryExclusionFunctions makes the patterns absolute in place.
AskResolver ==
  /\ verdict = "found" /\ ~closed
  /\ Len(answers) < MaxAsks
  /\ answers' = Append(answers, FileResolver)
  /\ patterns' = IF /\ found \in {"localFile", "localDir"} /\ ~made
                    /\ patterns = "relative"
                 THEN "absolute" ELSE patterns
  /\ made' = (made \/ (found = "localDir" /\ FileResolver = "files"))
  /\ UNCHANGED <<input, demand, tried, failures, verdict, found, leftover, closed>>

CloseSource ==
  /\ verdict = "found" /\ ~closed
  /\ closed' = TRUE
  /\ leftover' = {l \in leftover : l[1] # found}
  /\ made' = FALSE
  /\ UNCHANGED <<input, demand, tried, failures, verdict, found, patterns, answers>>

SourcesNext == RejectDemand \/ TryProvider \/ RefuseInput \/ AskResolver \/ CloseSource

SourcesSpec == SourcesInit /\ [][SourcesNext]_sourceVars

-----------------------------------------------------------------------------
(* Properties.                                                             *)

Remote == {"docker", "registry", "ociModel", "remoteSnap"}

\* What is here is not looked for elsewhere, unless all that is here is a torn
\* archive; what is specific goes first: an image is not scanned as the file it
\* is stored in, nor a snap (source_providers.go:30-55).
NearestFirst ==
  demand.from = <<>> =>
    /\ Remote \cap ToSet(tried) # {} => input.path \in {"nothing", "torn-archive"}
    /\ found = "localFile" => input.path \in {"archive", "file"}
    /\ found = "localDir" => input.path = "directory"

\* The preferred pull source loses only when it does not have the image.
PreferredWins ==
  found \in ToSet(Pulls) \ ToSet(Preferred) /\ demand.pull # Unset /\ demand.from = <<>> =>
    \A p \in ToSet(Preferred) : ProvideImage(p) = NotMade

\* A refusal has a reason: nobody was to be asked, nothing that was asked for is
\* anywhere, or it is there for no particular platform.
RefusalJustified ==
  /\ verdict = "unsupported" => demand.platform /\ input.path # "nothing"
  /\ verdict = "unresolved" => input.path = "nothing" \/ Providers = <<>>
  /\ verdict \in {"failed", "unresolved"} /\ demand.from = <<>> =>
       /\ input.path \in {"nothing", "torn-archive"}
       /\ ~input.docker /\ input.registry = "nothing"
       /\ input.store \in {"nothing", "cut-off"}

\* All temporary files are those of the source returned, and gone when it is
\* closed, but for an interrupted download (snap.go:81-90) and an archive
\* unpacked for a platform nobody can choose (get_source.go:37-39).
OwnedOrKnown ==
  \A l \in leftover :
    \/ l[1] = found /\ ~closed
    \/ l = <<"remoteSnap", "download">> /\ input.store = "cut-off"
    \/ l = <<"localFile", "unpacked">> /\ verdict = "unsupported"

\* A source answers alike as often as it is asked, but for a file with
\* exclusions, which answers once (file_source.go:136-173 keeps the resolver in a copy).
AnswersAlike ==
  \A i, j \in DOMAIN answers :
    answers[i] = answers[j] \/ (found = "localFile" /\ demand.exclude = "relative")

\* What GetSource promises, and the sources it returns.
SourcesServe == /\ NearestFirst
                /\ PreferredWins
                /\ RefusalJustified
                /\ OwnedOrKnown
                /\ AnswersAlike

\* "this must be placed after the pull provider" (source_providers.go:51).
ModelsAfterPulls ==
  demand.from = <<>> /\ "ociModel" \in ToSet(tried) => ToSet(Pulls) \subseteq ToSet(tried)
=============================================================================
