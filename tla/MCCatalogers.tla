---------------------------- MODULE MCCatalogers ---------------------------
(***************************************************************************)
(* What finds packages, and what becomes of them when the SBOM is written  *)
(* and read again, one thing at a time: the selection of tasks, a cataloger*)
(* of files, the Maven catalogers of poms and of archives, the files other *)
(* catalogers read, conversions.                                           *)
(***************************************************************************)
EXTENDS TaskSelection, GenericCataloger, PomCataloger, JavaArchive, FormatConversion,
        MCEcosystems

CONSTANTS f1, f2, f3,      \* files
          pa, pb, pc       \* packages

-----------------------------------------------------------------------------
(* Tasks of two groups, two of one tag, two of one source.                 *)

TaskOf(n, tags) == [name |-> n, tags |-> tags]

MCGroups == [packages |-> {TaskOf("java", {"package", "image", "language"}),
                           TaskOf("dpkg", {"package", "image", "directory", "os"}),
                           TaskOf("go", {"package", "directory", "language"})},
             files |-> {TaskOf("digest", {"file"}), TaskOf("exec", {"file", "binary"})}]

Token == {"default", "all", "file", "os", "language", "go", "digest", "nosuch"}

Lists(n) == UNION {[1..k -> Token] : k \in 0..n}

\* With lists of three, which have room for a fourth.
MCRequests ==
  {[defaults |-> d, sub |-> MakeList(s), add |-> a, remove |-> MakeList(r)] :
     d \in {{}, {"image"}, {"all"}, {"dpkg"}},
     s \in Lists(1) \cup {<<"os", "default", "language">>},
     a \in {{}, {"go"}, {"digest"}},
     r \in Lists(2) \cup {<<"all", "default", "go">>, <<"default", "default", "os">>,
                          <<"os", "go", "default">>}}

MCSourceTag == [image |-> "image", dir |-> "directory"]

-----------------------------------------------------------------------------
(* Three tasks, two of which read a file together.                         *)

MCTask == 1..3
MCFilesOf == <<<<f1, f2>>, <<f3>>, <<f2, f3, f2>>>>

Ok(s) == [packages |-> s, error |-> Nil]
With(s, e) == [packages |-> s, error |-> e]

\* Errors as parsers make them: wrapped, of elsewhere, or several.
MCYields ==
  (f1 :> {Ok(<<pa>>), With(<<pa>>, Plain("e1")),
          With(<<>>, AppendAt(AppendAt(Nil, "elsewhere", Plain("e2")), "inner", Plain("e3")))})
  @@ (f2 :> {Ok(<<pb, pa>>), With(<<pb>>, Wrapped(Plain("e4"))),
             With(<<>>, Join(<<Plain("e5"), Plain("e6")>>))})
  @@ (f3 :> {Ok(<<pc>>), With(<<>>, At("elsewhere", Plain("e7")))})

MCProvides == (pa :> {"a"}) @@ (pb :> {"b"}) @@ (pc :> {"b", "c"})
MCRequires == (pa :> {{"b"}, {}}) @@ (pb :> {{"x"}, {"a", "c"}}) @@ (pc :> {{"c"}})

-----------------------------------------------------------------------------
(* Poms that inherit, import and depend on each other, in circles too.     *)

Parent(a, v, path) == [artifact |-> a, version |-> v, path |-> path]
NoParent == Parent("", "", "")
Dep(a, v) == [artifact |-> a, version |-> v]
Entry(a, v) == [artifact |-> a, version |-> v, import |-> FALSE]
Import(a, v) == [artifact |-> a, version |-> v, import |-> TRUE]
Project(a, v, parent, props, managed, deps, lic) ==
  [artifact |-> a, version |-> v, parent |-> parent, properties |-> props,
   managed |-> managed, dependencies |-> deps, licenses |-> lic]

MCPoms ==
  { [A |-> Project("a", "", Parent("p", "1", pa_), props, ma,
                   <<Dep("lib", ""), Dep("b", "1")>>, {}),
     B |-> Project("b", "1", Parent(pb_, "1", ""), [v |-> "1"], <<>>, <<Dep("lib", "v")>>, {}),
     P |-> Project("p", vp, pp, pprops, mp, <<Dep("lib", "4")>>, lp),
     Q |-> Project("q", "1", pq, [w |-> "2"], <<Entry("lib", "3")>>, <<>>, {"mit"}),
     R |-> Project("r", "1", NoParent, <<>>, <<Import("r", "1"), Entry("lib", "v")>>, <<>>, {}),
     L |-> Project("lib", "1", NoParent, <<>>, <<>>, <<Dep("b", "1"), Dep("dep", "w")>>, {}),
     D |-> Project("dep", "", Parent("q", "1", ""), <<>>, <<>>, <<Dep("lib", "1")>>, {})] :
   pa_ \in {"P", ""}, props \in {<<>>, [v |-> "w", w |-> "v"]},
   ma \in {<<>>, <<Import("r", "v")>>}, pb_ \in {"p", "q"}, vp \in {"1", "2"},
   pp \in {NoParent, Parent("q", "1", ""), Parent("a", "1", "A")},
   pprops \in {<<>>, [v |-> "w"], [v |-> "1"]},
   mp \in {<<>>, <<Import("r", "1"), Entry("lib", "project.version")>>},
   lp \in {{}, {"apache"}}, pq \in {NoParent, Parent("p", "1", "")} }

MCWorlds ==
  {[poms |-> c, files |-> files, properties |-> {"v", "w"}, texts |-> {"A"},
    repository |-> (Dep("q", "1") :> "Q") @@ (Dep("r", "1") :> "R")
                     @@ (Dep("lib", "1") :> "L") @@ (Dep("dep", "1") :> "D")] :
     c \in MCPoms, files \in {<<"A", "B", "P">>, <<"B", "A">>}}

-----------------------------------------------------------------------------
(* Archives in archives in archives.                                       *)

Both(g, a, v) == [properties |-> Gav(g, a, v), xml |-> Gav(g, a, v)]
Properties(g, a, v) == [properties |-> Gav(g, a, v), xml |-> None]
Xml(g, a, v) == [properties |-> None, xml |-> Gav(g, a, v)]

Jar(file, m, poms, e, w) ==
  [file |-> file, version |-> "0", group |-> "", manifest |-> m, poms |-> poms,
   extractable |-> e, within |-> w]

Innermost == {Jar("b", m, poms, TRUE, <<>>) :
                m \in {"usable", "none"},
                poms \in {<<>>, <<Properties("g", "b", "1")>>, <<Properties("g", "c", "1")>>}}

Middle == {Jar("a", m, poms, e, w) :
             m \in {"usable", "none", "twice"},
             poms \in {<<>>, <<Properties("g", "a", "1"), Properties("h", "b", "1")>>},
             e \in BOOLEAN, w \in {<<>>} \cup {<<x>> : x \in Innermost}}

MCArchives ==
  {Jar("a", m, poms, e, <<x, Jar("b", "usable", <<>>, TRUE, <<>>)>>) :
     m \in {"usable", "none", "twice"},
     poms \in {<<>>, <<Properties("g", "a", "1")>>, <<Xml("g", "a", "1")>>,
               <<Properties("g", "a", "1"), Both("h", "a", "2")>>,
               <<Both("g", "a-x", "1"), Properties("g", "b", "1")>>},
     e \in BOOLEAN, x \in Middle}

MCAlike == {<<"a-x", "a">>, <<"a", "a">>, <<"b", "b">>}
MCWithin == {}

-----------------------------------------------------------------------------
(* SBOMs of three packages and two files.                                  *)

Package(w, purl, typed) == [id |-> Id(<<"hash", w>>), what |-> w, purl |-> purl, typed |-> typed]
End(w) == <<"package", Id(<<"hash", w>>)>>
Edge(a, t, b) == [from |-> a, type |-> t, to |-> b]
Lib == <<"lib", FALSE, "layer">>
App == <<"app", FALSE, "">>

MCScanned ==
  {[source |-> s,
    packages |-> {Package("a", TRUE, TRUE), Package("b", FALSE, y), Package("c", FALSE, TRUE)},
    files |-> files,
    relationships |-> edges \cup {Edge(<<"source">>, "contains", End(w)) : w \in {"a", "b", "c"}}] :
     s \in {"image", "directory", "file", "snap", "other"}, y \in BOOLEAN,
     files \in {(Lib :> {"metadata"}), (Lib :> {"metadata", "digests"}) @@ (App :> {"unknowns"})},
     edges \in SUBSET {Edge(End("a"), "dependency-of", End("b")),
                       Edge(End("b"), "dependency-of", End("c")),
                       Edge(End("a"), "contains", <<"coordinates", Lib>>),
                       Edge(End("b"), "evident-by", <<"coordinates", App>>),
                       Edge(End("a"), "ownership-by-file-overlap", End("c"))}}

-----------------------------------------------------------------------------
(* One at a time.  What has no turn stands still where it could begin.     *)

StillSelection == config = (CHOOSE r \in Requests : TRUE) /\ SelectInit
StillCataloger == contents = [f \in DOMAIN Yields |-> CHOOSE y \in Yields[f] : TRUE] /\ CatInit
StillPoms == world = (CHOOSE w \in Worlds : TRUE) /\ PomInit
StillArchive == archive = (CHOOSE a \in Archives : TRUE) /\ JarInit
StillSbom == sbom = (CHOOSE s \in Scanned : TRUE) /\ ConvInit

StillRest == StillSelection /\ StillCataloger /\ StillPoms /\ StillArchive /\ StillSbom

MCInit ==
  \/ /\ StillFiles
     /\ \/ turn = "selection" /\ StillCataloger /\ StillPoms /\ StillArchive /\ StillSbom /\ SelectInit
        \/ turn = "cataloger" /\ StillSelection /\ StillPoms /\ StillArchive /\ StillSbom /\ CatInit
        \/ turn = "poms" /\ StillSelection /\ StillCataloger /\ StillArchive /\ StillSbom /\ PomInit
        \/ turn = "archive" /\ StillSelection /\ StillCataloger /\ StillPoms /\ StillSbom /\ JarInit
        \/ turn = "sbom" /\ StillSelection /\ StillCataloger /\ StillPoms /\ StillArchive /\ ConvInit
  \/ StillRest /\ FilesInit

restVars == <<selectVars, catVars, pomVars, jarVars, convVars>>

AllVars == <<turn, filesVars, restVars>>

OtherThanCataloger == <<turn, filesVars, selectVars, pomVars, jarVars, convVars>>

MCNext ==
  \/ turn = "selection" /\ SelectNext /\ UNCHANGED <<turn, filesVars, catVars, pomVars, jarVars, convVars>>
  \/ turn = "cataloger" /\ CatNext /\ UNCHANGED OtherThanCataloger
  \/ turn = "poms" /\ PomNext /\ UNCHANGED <<turn, filesVars, selectVars, catVars, jarVars, convVars>>
  \/ turn = "archive" /\ JarNext /\ UNCHANGED <<turn, filesVars, selectVars, catVars, pomVars, convVars>>
  \/ turn = "sbom" /\ ConvNext /\ UNCHANGED <<turn, filesVars, selectVars, catVars, pomVars, jarVars>>
  \/ FilesNext /\ UNCHANGED restVars

\* The fairness of CatSpec.
MCSpec == /\ MCInit /\ [][MCNext]_AllVars
          /\ WF_AllVars(turn = "cataloger" /\ Work /\ UNCHANGED OtherThanCataloger)

\* Catalogers that parse files in parallel, themselves run in parallel, end
\* (TasksEnd of GenericCataloger).
CatalogersEnd == turn = "cataloger" => TasksEnd
=============================================================================
