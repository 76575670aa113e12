------------------------------- MODULE MCFiles ------------------------------
(***************************************************************************)
(* Where a scan gets its files from and what it shares with others and     *)
(* with itself, one thing at a time: the source and the command around it, *)
(* the index of a directory, its paths, the files of an image and their    *)
(* locations, the package collection that tasks read, an entry of the      *)
(* persistent cache, a temporary directory, the pipe of an attestation.    *)
(***************************************************************************)
EXTENDS DirectoryIndex, LocationStreams, CollectionReaders, CacheEntries, TempDirLife,
        ScanCommand, AttestCommand, ImageResolvers, DirectoryResolvers, TLC

CONSTANTS l1, l2, l3, l4, l5,              \* locations
          cataloger1, cataloger2, cleaner, \* tasks that write,
          digests, metadata, labeler,      \* and that read,
          pkg1, pkg2, pkg3,                \* packages
          u1, u2,                          \* processes, or users
          value, failure                   \* answers
VARIABLE turn

\* The directory 1 is scanned; links in it, and in what they lead to, lead on.
Dir == [type |-> "dir", target |-> <<>>]
File == [type |-> "file", target |-> <<>>]
Device == [type |-> "device", target |-> <<>>]
Link(t) == [type |-> "link", target |-> t]

Tree == [path \in {<<>>, <<1>>, <<2>>, <<2, 1>>, <<2, 1, 2>>, <<3>>} |-> Dir]
     @@ [p \in {<<2, 1, 1>>, <<2, 1, 2, 1>>, <<2, 3>>} |-> File]
     @@ (<<2, 4>> :> Device)

\* A directory, a file, another link, through a link, through a loop, through
\* a file, around the root, or nothing.
Targets == {<<2>>, <<2, 1>>, <<2, 2, 1>>, <<1, 1>>, <<3, 1, 1>>, <<3, 1, 2>>,
            <<3, 1>>, <<1>>, <<4>>, <<2, 1, 1>>, <<2, 1, 1, 1, 1>>}

MCFileSystems ==
  {Tree @@ (<<1, 1>> :> Link(a)) @@ (<<1, 2>> :> Link(b))
        @@ (<<2, 2>> :> Link(c)) @@ (<<3, 1>> :> Link(d)) :
     a \in Targets, b \in Targets, c \in {<<2>>, <<1, 1>>, <<3, 1>>, <<2, 1>>},
     d \in {<<2>>, <<2, 1>>, <<2, 2>>, <<2, 1, 1>>}}

MCRoot == <<1>>
MCRefused == {<<2, 1, 2>>}

MCLocations == [squashed |-> <<l1, l2, l5>>, all |-> <<l1, l3, l4, l2, l5>>]

\* One task adds two packages, another a third, one removes the first again;
\* three read, one of them within WriteToSBOM.
MCReader == {digests, metadata, labeler}
MCLabeler == {labeler}
MCWriter == {cataloger1, cataloger2, cleaner}
MCChange == cataloger1 :> {[op |-> "add", pkg |-> pkg1], [op |-> "add", pkg |-> pkg2]}
              @@ cataloger2 :> {[op |-> "add", pkg |-> pkg3]}
              @@ cleaner :> {[op |-> "delete", pkg |-> pkg1]}

MCChunks == (value :> 3) @@ (failure :> 1)

\* Something on the disk, or an image, a model or a snap somewhere else.
MCInputs ==
  [path : {"directory", "file", "archive", "torn-archive", "image-archive", "image-layout",
           "snap", "broken-snap"},
   docker : {FALSE}, registry : {"nothing", "model"}, store : {"nothing"}]
  \cup [path : {"nothing"}, docker : BOOLEAN, registry : {"nothing", "image", "model"},
        store : {"nothing", "snap", "broken-snap", "cut-off"}]

Plain == [platform |-> FALSE, pull |-> "", from |-> <<>>, exclude |-> "none"]

MCDemands ==
  [platform : BOOLEAN, pull : {""}, from : {<<>>}, exclude : {"none", "relative", "absolute"}]
  \cup [platform : {FALSE}, pull : {"", "docker", "registry", "snap"},
        from : {<<>>, <<"registry">>, <<"snap", "dir">>, <<"local-file">>, <<"pull", "file">>,
                <<"anywhere">>},
        exclude : {"none"}]

Output(f, p) == [format |-> f, path |-> p]

MCOutputs == {<<Output("json", ""), Output("spdx", "a"), Output("table", "")>>,
              <<Output("json", "a"), Output("spdx", "b")>>,
              <<Output("json", "a"), Output("spdx", "a")>>,
              <<Output("json", "a"), Output("spdx", "root")>>,
              <<Output("json", "a"), Output("odd", "b")>>}

\* Any input for three outputs, any outputs for a few inputs.
ScanInit ==
  /\ CommandInit
  /\ \/ Len(outputs) = 3
     \/ /\ demand = Plain
        /\ input \in [path : {"archive", "nothing", "directory"}, docker : {FALSE},
                      registry : {"nothing"}, store : {"snap", "cut-off", "nothing"}]

MCChatter == {chatter \in BoundedSeq({"line", "long line"}, 4) : chatter # <<>>}

\* Two layers: the first may link anything to anything, the second removes,
\* replaces or adds.
Missing == [type |-> "none", target |-> <<>>]
Gone == [type |-> "gone", target |-> <<>>]

Layer(one, two, three, within) ==
  (<<1>> :> one) @@ (<<2>> :> two) @@ (<<3>> :> three) @@ (<<3, 1>> :> within)

MCImages ==
  {<<Layer(a, b, d[1], d[2]), Layer(e[1], e[2], g[1], g[2])>> :
     a \in {Link(<<2>>), Link(<<3>>), Link(<<3, 1>>), Link(<<>>)},
     b \in {File, Link(<<1>>)},
     d \in {<<Dir, File>>, <<Dir, Link(<<2>>)>>, <<Link(<<2>>), Missing>>},
     e \in {<<Missing, Missing>>, <<Gone, Missing>>, <<Missing, Gone>>, <<Missing, File>>},
     g \in {<<Missing, Missing>>, <<Gone, Missing>>, <<Dir, File>>, <<Dir, Gone>>}}

MCQueries == {<<p>> : p \in Paths} \cup {<<<<1>>, <<2>>>>, <<<<3, 1>>, <<1>>>>, <<<<2>>, <<3, 1>>>>}
MCExclusions == {{}, {<<1>>}, {<<2>>}}

\* Links in a directory and below it, to all around them.
PathTo(names) == [type |-> "link", target |-> names]
Drive(type) == [type |-> type, target |-> RelativePath(<<>>)]

Ends == {AbsolutePath(<<2>>), AbsolutePath(<<1, 2>>), AbsolutePath(<<2, 1>>), RelativePath(<<2>>),
         RelativePath(<<2, 2>>), RelativePath(<<Up, 2>>), RelativePath(<<1>>)}

MCDrives ==
  {[p \in {<<>>, <<1>>, <<2>>, <<1, 2>>} |-> Drive("dir")] @@ [p \in {<<2, 1>>, <<1, 2, 1>>} |-> Drive("file")]
     @@ (<<1, 1>> :> PathTo(a)) @@ (<<1, 2, 2>> :> PathTo(b)) : a \in Ends, b \in Ends}

MCSettings == {[root |-> <<1>>, base |-> <<>>], [root |-> <<1>>, base |-> <<<<1>>>>],
               [root |-> <<1, 2>>, base |-> <<<<1>>>>], [root |-> <<>>, base |-> <<>>]}

MCAsked ==
  {<<RelativePath(<<1>>)>>, <<AbsolutePath(<<1>>)>>, <<RelativePath(<<2, 2>>)>>, <<AbsolutePath(<<2, 2>>)>>,
   <<RelativePath(<<1, 1>>), RelativePath(<<2, 2, 1>>), AbsolutePath(<<2, 1>>), AbsolutePath(<<1, 2>>)>>}

MCGlobDirs == {<<2>>}
MCMounts == {(<<>> :> "ext4") @@ (<<1, 2>> :> t) : t \in {"tmpfs", "proc"}}
MCRejected == {{}, {<<1>>}}
MCListed == {<<1>>}

\* Mounts and filters for one disk; they matter for nothing else.
PathsInit ==
  /\ DirectoryInit
  /\ \/ refusing = {} /\ mounted[<<1, 2>>] = "proc"
     \/ drive = CHOOSE d \in Drives : TRUE

\* What has no turn stands still where it began.
StillDir == fs = (CHOOSE f \in FileSystems : TRUE) /\ DirInit
StillStreams == deep = FALSE /\ filtering = FALSE /\ StreamInit
StillCache == kind = "json" /\ CacheInit
NoOutput == outputs = (CHOOSE o \in Outputs : TRUE) /\ CommandInit
StillScan == demand = Plain /\ input = (CHOOSE i \in Inputs : TRUE) /\ NoOutput
StillImages == layers = (CHOOSE i \in Images : TRUE) /\ view = "all" /\ excludes = {} /\ ImageInit
StillPaths == /\ drive = (CHOOSE d \in Drives : TRUE) /\ setting = (CHOOSE e \in Settings : TRUE)
              /\ refusing = {} /\ mounted = (CHOOSE m \in MountTables : TRUE) /\ DirectoryInit
StillAttest == attached = TRUE /\ toPrint = <<"line">> /\ AttestInit

MCInit ==
  /\ turn \in {"directory", "streams", "readers", "cache", "temp", "source", "scan", "attest",
             "images", "paths"}
  /\ ReadersInit
  /\ TempInit
  /\ turn = "temp" \/ ~backed
  /\ \/ turn = "directory" /\ DirInit
     \/ turn # "directory" /\ StillDir
  /\ \/ turn = "streams" /\ StreamInit
     \/ turn # "streams" /\ StillStreams
  /\ \/ turn = "cache" /\ CacheInit
     \/ turn # "cache" /\ StillCache
  /\ \/ turn = "source" /\ SourcesInit /\ NoOutput
     \/ turn = "scan" /\ ScanInit
     \/ turn \notin {"source", "scan"} /\ StillScan
  /\ \/ turn = "attest" /\ AttestInit
     \/ turn # "attest" /\ StillAttest
  /\ \/ /\ turn = "images" /\ ImageInit
        /\ excludes = {} \/ layers[2][<<1>>] = Gone \/ layers[2][<<2>>] = File
     \/ turn # "images" /\ StillImages
  /\ \/ turn = "paths" /\ PathsInit
     \/ turn # "paths" /\ StillPaths

AllVars == <<turn, dirVars, streamVars, readersVars, cacheVars, tempVars, sourceVars,
             commandVars, attestVars, imageVars, directoryVars>>

OtherThanStreams == <<turn, dirVars, readersVars, cacheVars, tempVars, sourceVars,
                      commandVars, attestVars, imageVars, directoryVars>>
OtherThanReaders == <<turn, dirVars, streamVars, cacheVars, tempVars, sourceVars,
                      commandVars, attestVars, imageVars, directoryVars>>
OtherThanAttest == <<turn, dirVars, streamVars, readersVars, cacheVars, tempVars,
                     sourceVars, commandVars, imageVars, directoryVars>>

MCNext ==
  \/ /\ turn = "directory" /\ DirNext
     /\ UNCHANGED <<turn, streamVars, readersVars, cacheVars, tempVars, sourceVars,
                    commandVars, attestVars, imageVars, directoryVars>>
  \/ turn = "streams" /\ StreamNext /\ UNCHANGED OtherThanStreams
  \/ turn = "readers" /\ ReadersNext /\ UNCHANGED OtherThanReaders
  \/ /\ turn = "cache" /\ CacheNext
     /\ UNCHANGED <<turn, dirVars, streamVars, readersVars, tempVars, sourceVars,
                    commandVars, attestVars, imageVars, directoryVars>>
  \/ /\ turn = "temp" /\ TempNext
     /\ UNCHANGED <<turn, dirVars, streamVars, readersVars, cacheVars, sourceVars,
                    commandVars, attestVars, imageVars, directoryVars>>
  \/ /\ turn = "source" /\ SourcesNext
     /\ UNCHANGED <<turn, dirVars, streamVars, readersVars, cacheVars, tempVars,
                    commandVars, attestVars, imageVars, directoryVars>>
  \/ /\ turn = "scan" /\ CommandNext
     /\ UNCHANGED <<turn, dirVars, streamVars, readersVars, cacheVars, tempVars, attestVars,
                    imageVars, directoryVars>>
  \/ turn = "attest" /\ AttestNext /\ UNCHANGED OtherThanAttest
  \/ /\ turn = "images" /\ ImageNext
     /\ UNCHANGED <<turn, dirVars, streamVars, readersVars, cacheVars, tempVars, sourceVars,
                    commandVars, attestVars, directoryVars>>
  \/ /\ turn = "paths" /\ DirectoryNext
     /\ UNCHANGED <<turn, dirVars, streamVars, readersVars, cacheVars, tempVars, sourceVars,
                    commandVars, attestVars, imageVars>>

\* The fairness of StreamSpec, ReadersSpec and AttestSpec.
MCFairness ==
  /\ WF_AllVars(turn = "streams" /\ Goroutines /\ UNCHANGED OtherThanStreams)
  /\ \A w \in Writer :
       WF_AllVars(turn = "readers" /\ WriterStep(w) /\ UNCHANGED OtherThanReaders)
  /\ \A t \in Reader :
       /\ WF_AllVars(turn = "readers" /\ ReaderStep(t) /\ UNCHANGED OtherThanReaders)
       /\ WF_AllVars(turn = "readers" /\ WalkerStep(t) /\ UNCHANGED OtherThanReaders)
  /\ WF_AllVars(turn = "attest" /\ AttestNext /\ UNCHANGED OtherThanAttest)

MCSpec == MCInit /\ [][MCNext]_AllVars /\ MCFairness

\* A scan of an image ends: the cataloger returns, and for the squashed scope
\* every goroutine behind it does (container_image_squash.go AllLocations,
\* excluding_file.go:73-88).
CatalogersReturn == turn = "streams" => StreamsEnd

\* "bleed off the rest of the results ... and not leak a goroutine"
\* (container_image_deep_squash.go:202), also for the deep-squashed scope.
NobodyLeaks == turn = "streams" => NobodyLeft

\* No task that uses the collection waits for ever (AllOver of CollectionReaders),
\* nor does a command whose cosign somebody listens to (AttestEnds of AttestCommand).
NobodyWaits == /\ turn = "readers" => AllOver
               /\ turn = "attest" => AttestEnds
=============================================================================
