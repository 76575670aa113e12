--------------------------- MODULE ImageResolvers ---------------------------
(***************************************************************************)
(* What catalogers see of a container image (syft/internal/fileresolver):  *)
(* its squashed view, all of its layers, or the layers under the squashed  *)
(* view, each possibly with paths excluded.  An image is a sequence of     *)
(* layers; a layer brings files, directories and links, and takes away     *)
(* what layers below brought.  A path is a sequence of names, a reference  *)
(* the layer and the path of what is there.                                *)
(***************************************************************************)
EXTENDS Naturals, Sequences, SequencesExt, FiniteSets

CONSTANTS Images,     \* sequences of layers: functions from Paths to entries
          Queries,    \* sequences of paths that are asked for together
          Exclusions, \* sets of paths that are excluded
          MaxHops     \* links followed before a circle is assumed

VARIABLES layers,
          view,       \* "squashed", "all" or "deep"
          excludes,
          squashes,   \* the tree of each layer squashed with those below
          question,   \* the last question: FilesBy..., and of what
          located,    \* a sequence of locations, or Failed
          read        \* <<location, what FileContentsByLocation returned>>

imageVars == <<layers, view, excludes, squashes, question, located, read>>

Paths == DOMAIN (CHOOSE i \in Images : TRUE)[1]
Top == Len(layers)

Brings(layer, p) == layer[p].type \in {"file", "dir", "link"}

IsList(s) == s \in Seq(Range(s))

\* What a layer brings it brings in a directory; stereoscope adds the directories
\* that an archive does not list.
IsImage(image) ==
  /\ IsList(image) /\ image # <<>>
  /\ \A layer \in Range(image), p \in Paths :
       /\ IsList(layer[p].target)
       /\ Brings(layer, p) /\ Len(p) > 1 => Front(p) \in Paths /\ layer[Front(p)].type = "dir"

ASSUME ImagesAssumption ==
  /\ MaxHops \in Nat
  /\ IsFiniteSet(Paths) /\ \A p \in Paths : IsList(p) /\ p # <<>>
  /\ \A image \in Images : IsImage(image)
  /\ \A q \in Queries : IsList(q) /\ \A p \in Range(q) : IsList(p)

\* What a search may end in that is not in any layer.
Slash == <<0, <<>>>>
Nowhere == <<0, <<0>>>>
Circle == <<0, <<0, 0>>>>

EntryOf(ref) == layers[ref[1]][ref[2]]
Is(ref, type) == ref[1] > 0 /\ EntryOf(ref).type = type

\* The tree of one layer.
OwnTree(i) == [p \in Paths |-> IF Brings(layers[i], p) THEN <<i, p>> ELSE Nowhere]

\* Above the tree of the layers below: what the layer removes or replaces by
\* something that is no directory takes along what is in it.
SquashOnto(below, i, layer) ==
  [p \in Paths |->
    IF Brings(layer, p) THEN <<i, p>>
    ELSE IF \E q \in Paths : IsPrefix(q, p) /\ layer[q].type \in {"gone", "file", "link"}
         THEN Nowhere ELSE below[p]]

SquashesOf(image) ==
  LET squash[i \in 0..Len(image)] ==
        IF i = 0 THEN [p \in Paths |-> Nowhere] ELSE SquashOnto(squash[i - 1], i, image[i])
  IN [i \in 1..Len(image) |-> squash[i]]

Squashed == squashes[Top]

\* What links lead to, and what is in a directory or in the root.
LinkTargets == {layers[i][p].target : i \in DOMAIN layers, p \in Paths}
Entered(ref) == ref = Slash \/ Is(ref, "dir")

\* The search of stereoscope, name by name: links are followed on the way and at
\* its end; followed[t] is where a link to t leads.
Descend(tree, parent, name, followed) ==
  LET here == Append(parent[2], name)
  IN IF parent = Circle THEN Circle
     ELSE IF ~Entered(parent) \/ here \notin Paths THEN Nowhere
     ELSE IF Is(tree[here], "link") THEN followed[EntryOf(tree[here]).target]
     ELSE tree[here]

Way(tree, p, followed) ==
  LET way[k \in 0..Len(p)] ==
        IF k = 0 THEN Slash ELSE Descend(tree, way[k - 1], p[k], followed)
  IN way[Len(p)]

Followed(tree, hops) ==
  LET followed[h \in 0..MaxHops] ==
        IF h = 0 THEN [t \in LinkTargets |-> Circle]
        ELSE [t \in LinkTargets |-> Way(tree, t, followed[h - 1])]
  IN followed[hops]

SearchByPath(tree, p) == Way(tree, p, Followed(tree, MaxHops))

\* A link that ends nowhere, or the last of those it leads on to.
LastOf(link, further) == IF further = Nowhere THEN link ELSE further

LivingLink(tree, parent, name, living) ==
  LET here == Append(parent[2], name)
  IN IF Entered(parent) /\ here \in Paths /\ Is(tree[here], "link")
     THEN LastOf(tree[here], living[EntryOf(tree[here]).target])
     ELSE Nowhere

\* The same search, but of a chain of links that ends nowhere the last is returned.
OrLink(tree, p, followed, living) ==
  IF Way(tree, p, followed) = Nowhere /\ p # <<>>
  THEN LivingLink(tree, Way(tree, Front(p), followed), Last(p), living)
  ELSE Way(tree, p, followed)

Living(tree, hops) ==
  LET living[h \in 0..MaxHops] ==
        IF h = 0 THEN [t \in LinkTargets |-> Circle]
        ELSE [t \in LinkTargets |-> OrLink(tree, t, Followed(tree, h - 1), living[h - 1])]
  IN living[hops]

SearchLiving(tree, p) == OrLink(tree, p, Followed(tree, MaxHops), Living(tree, MaxHops))

Location(ref, access) == [ref |-> ref, access |-> access, mark |-> "none"]
Nothing == Location(Nowhere, <<>>)
Failed == <<Location(Circle, <<>>)>>

IsNoFile(ref) == ref \in {Nowhere, Slash} \/ Is(ref, "dir")

\* What a resolver returns of what it found one after the other: each file as it
\* was found first, or an error if a circle was met.
Unique(found) ==
  LET unique[k \in 0..Len(found)] ==
        IF k = 0 THEN <<>>
        ELSE LET before == unique[k - 1]
             IN IF found[k].ref \in {Nowhere, Slash} \cup {l.ref : l \in Range(before)}
                THEN before ELSE Append(before, found[k])
  IN IF \E k \in DOMAIN found : found[k].ref = Circle THEN Failed ELSE unique[Len(found)]

\* Those of a list that are wanted.
Only(list, wanted) ==
  LET only[k \in 0..Len(list)] ==
        IF k = 0 THEN <<>>
        ELSE LET before == only[k - 1]
             IN IF list[k] \in wanted THEN Append(before, list[k]) ELSE before
  IN only[Len(list)]

-----------------------------------------------------------------------------
(* The squashed view.                                                      *)

ShownAt(p) ==
  LET ref == SearchByPath(Squashed, p)
  IN IF IsNoFile(ref) THEN Nothing ELSE Location(ref, p)

SquashByPaths(paths) == Unique([k \in DOMAIN paths |-> ShownAt(paths[k])])

\* What a pattern matches is what is in the tree, in some order, and not a circle.
Ordered(refs) == SetToSeq(refs)
Matched(tree, name) ==
  Ordered({p \in Paths : Last(p) = name /\ tree[p] # Nowhere /\ SearchByPath(tree, p) # Circle})
\* Regular files are indexed by type.
OfType(tree) == Ordered({p \in Paths : Is(tree[p], "file")})

SquashByName(name) == SquashByPaths(Matched(Squashed, name))
SquashByType ==
  LET paths == OfType(Squashed)
  IN Unique([k \in DOMAIN paths |-> Location(Squashed[paths[k]], paths[k])])

HasPath(p) == SearchByPath(Squashed, p) \notin {Nowhere, Circle}

-----------------------------------------------------------------------------
(* All layers.                                                             *)

\* fileByRef: a link is resolved as seen from its layer and from each above.
FileByRef(ref, access) ==
  IF IsNoFile(ref) THEN <<>>
  ELSE IF Is(ref, "link")
       THEN [k \in 1..(Top - ref[1] + 1) |->
               Location(SearchByPath(squashes[ref[1] + k - 1], ref[2]), access)]
       ELSE <<Location(ref, access)>>

\* What is found at a path in one layer after the other.
InLayers(p) == FlattenSeq([i \in 1..Top |-> FileByRef(SearchLiving(OwnTree(i), p), p)])

LayersByPaths(paths) == Unique(FlattenSeq([k \in DOMAIN paths |-> InLayers(paths[k])]))

\* FilesByGlob searches the squashed tree of each layer.
NamedIn(i, name) ==
  LET paths == Matched(squashes[i], name)
  IN FlattenSeq([k \in DOMAIN paths |-> FileByRef(SearchLiving(squashes[i], paths[k]), paths[k])])

LayersByName(name) == Unique(FlattenSeq([i \in 1..Top |-> NamedIn(i, name)]))

TypedIn(i) ==
  LET paths == OfType(OwnTree(i))
  IN FlattenSeq([k \in DOMAIN paths |-> FileByRef(<<i, paths[k]>>, paths[k])])

LayersByType == Unique(FlattenSeq([i \in 1..Top |-> TypedIn(i)]))

\* Slip: only the file is looked for, not the way to it.
AnnotateByFile(l) ==
  [l EXCEPT !.mark = IF SearchLiving(Squashed, l.ref[2]) = l.ref THEN "visible" ELSE "hidden"]

\* annotateLocation: the squashed view has this very file where it is, and
\* where it was asked for.
Annotate(l) ==
  [l EXCEPT !.mark = IF /\ SearchLiving(Squashed, l.ref[2]) = l.ref
                        /\ SearchLiving(Squashed, l.access) = l.ref
                     THEN "visible" ELSE "hidden"]

Annotated(list) == IF list = Failed THEN Failed ELSE [k \in DOMAIN list |-> Annotate(list[k])]

-----------------------------------------------------------------------------
(* All layers, as far as the squashed view has the paths.                  *)

Marked(list, mark) == [k \in DOMAIN list |-> [list[k] EXCEPT !.mark = mark]]

\* mergeLocations.
MergeLocations(squashed, all) ==
  IF squashed = Failed THEN Failed
  ELSE IF squashed = <<>> THEN <<>>
  ELSE IF all = Failed THEN Failed
  ELSE Marked(squashed, "visible")
         \o Marked(Only(all, {l \in Range(all) \ Range(squashed) :
                               HasPath(l.ref[2]) /\ HasPath(l.access)}),
                   "hidden")

-----------------------------------------------------------------------------
(* The resolvers, and the decorator that excludes paths.                   *)

View(v, squashed, all) ==
  CASE v = "squashed" -> squashed
    [] v = "all" -> Annotated(all)
    [] OTHER -> MergeLocations(squashed, all)

\* What the squashed view, and what all layers, hold of what is asked for.
OfSquash(q) ==
  CASE q.by = "path" -> SquashByPaths(q.of)
    [] q.by = "name" -> SquashByName(q.of[1][1])
    [] OTHER -> SquashByType

OfLayers(q) ==
  CASE q.by = "path" -> LayersByPaths(q.of)
    [] q.by = "name" -> LayersByName(q.of[1][1])
    [] OTHER -> LayersByType

Unfiltered(v, q) == View(v, OfSquash(q), OfLayers(q))

IsExcluded(l) == l.ref[2] \in excludes \/ l.access \in excludes

Filter(list) ==
  IF list = Failed THEN Failed ELSE Only(list, {l \in Range(list) : ~IsExcluded(l)})

\* AllLocations resolves no links.
OwnLocations ==
  LET refs == Ordered({ref \in (1..Top) \X Paths : Brings(layers[ref[1]], ref[2])})
  IN  [k \in DOMAIN refs |-> Location(refs[k], refs[k][2])]

EveryLocation(v) ==
  View(v, Only(OwnLocations, {l \in Range(OwnLocations) : Squashed[l.ref[2]] = l.ref}), OwnLocations)

\* RelativeFileByPath.
OneOf(list) == IF list \in {Failed, <<>>} THEN Nothing ELSE list[1]

RelativeToLayer(l, p) ==
  LET ref == SearchByPath(squashes[l.ref[1]], p)
  IN IF ref \in {Nowhere, Slash, Circle} THEN Nothing ELSE Location(ref, p)

Relative(v, l, p) ==
  LET shown == OneOf(SquashByPaths(<<p>>))
      beside == RelativeToLayer(l, p)
      as(found, mark) == IF found = Nothing THEN Nothing ELSE [found EXCEPT !.mark = mark]
  IN IF v = "squashed" THEN shown
     ELSE IF v = "all" THEN IF beside = Nothing THEN Nothing ELSE Annotate(beside)
     ELSE IF ~HasPath(p) THEN Nothing
     ELSE IF shown # Nothing THEN as(shown, "visible") ELSE as(beside, "hidden")

\* FileContentsByLocation: the file that is read.
Contents(v, l) ==
  IF Is(l.ref, "dir") \/ IsExcluded(l) THEN Nowhere
  ELSE IF ~Is(l.ref, "link") THEN l.ref
  ELSE IF v = "squashed" THEN OneOf(SquashByPaths(<<l.ref[2]>>)).ref
  ELSE RelativeToLayer(l, l.access).ref

\* What is asked for, by what, and of the file that was found before.
Question(by, of, from) == [by |-> by, of |-> of, from |-> from]

ImageInit ==
  /\ layers \in Images
  /\ view \in {"squashed", "all", "deep"}
  /\ excludes \in Exclusions
  /\ squashes = SquashesOf(layers)
  /\ question = Question("nothing", <<>>, Nothing)
  /\ located = <<>>
  /\ read = <<>>

Ask(q) ==
  /\ question.by = "nothing"
  /\ question' = q
  /\ located' = Filter(Unfiltered(view, q))
  /\ UNCHANGED <<layers, view, excludes, squashes, read>>

AskPaths == \E q \in Queries : Ask(Question("path", q, Nothing))
AskName == \E p \in Paths : Ask(Question("name", <<<<Last(p)>>>>, Nothing))
AskType == Ask(Question("type", <<>>, Nothing))

AskAll ==
  /\ question.by = "nothing"
  /\ question' = Question("all", <<>>, Nothing)
  /\ located' = Filter(EveryLocation(view))
  /\ UNCHANGED <<layers, view, excludes, squashes, read>>

\* A cataloger looks for a file beside one it found.
AskRelative ==
  /\ question.by \in {"path", "name"} /\ located # Failed
  /\ \E k \in DOMAIN located, p \in Paths :
       LET l == Relative(view, located[k], p)
       IN /\ question' = Question("relative", <<p>>, located[k])
          /\ located' = IF l = Nothing THEN <<>> ELSE IF IsExcluded(l) THEN <<>> ELSE <<l>>
  /\ UNCHANGED <<layers, view, excludes, squashes, read>>

ReadFound ==
  /\ read = <<>> /\ located # Failed
  /\ \E k \in DOMAIN located : read' = <<located[k], Contents(view, located[k])>>
  /\ UNCHANGED <<layers, view, excludes, squashes, question, located>>

ImageNext == AskPaths \/ AskName \/ AskType \/ AskAll \/ AskRelative \/ ReadFound

ImageSpec == ImageInit /\ [][ImageNext]_imageVars

-----------------------------------------------------------------------------
(* Properties.                                                             *)

Found(v) == Range(Filter(Unfiltered(v, question)))
Everybody == OfSquash(question) # Failed /\ OfLayers(question) # Failed
Files(locations) == {l \in locations : ~IsNoFile(l.ref)}
Refs(locations) == {l.ref : l \in locations}
Visible(locations) == {l \in locations : l.mark = "visible"}
Asked(by) == question.by \in by /\ located # Failed

\* A location is reported once, though a file may be reached on several ways and
\* from several layers.
ReportedOnce ==
  located # Failed => \A j, k \in DOMAIN located : located[j] = located[k] => j = k

\* What the squashed view came to on a path that is excluded.
Barred == {l \in Range(OfSquash(question)) : l.access \in excludes}

\* Three resolvers with rules of their own agree about what is visible: the
\* squashed view shows what the deep view calls visible, and all files that all
\* layers call visible, but for those it came to on a path that is excluded
\* (container_image_all_layers.go:276-307, container_image_deep_squash.go:148-189).
VisibleAlike ==
  Asked({"path", "name", "type"}) /\ Everybody =>
    /\ Refs(Visible(Found("deep"))) = Refs(Found("squashed"))
    /\ Refs(Files(Visible(Found("all")))) \subseteq Refs(Found("squashed")) \cup Refs(Barred)

\* What the deep view raises is at a path the squashed view has, though what is
\* there may be of another layer.
RaisedWherePresent ==
  view = "deep" /\ Asked({"path", "name", "type"}) =>
    \A k \in DOMAIN located : HasPath(located[k].ref[2]) /\ HasPath(located[k].access)

\* A file that was found is read as itself, of the layer it was found in; what is
\* beside a file, with all layers, is of no later layer.
ReadAsFound ==
  /\ read # <<>> /\ question.by # "all" =>
       read[2] = read[1].ref \/ IsNoFile(read[1].ref)
  /\ view = "all" /\ question.by = "relative" /\ located # <<>> =>
       located[1].ref[1] <= question.from.ref[1]

ViewsAgree == ReportedOnce /\ VisibleAlike /\ RaisedWherePresent /\ ReadAsFound

-----------------------------------------------------------------------------
(* What comments say, and the code does not do.                            *)

\* "only returns locations to files (NOT directories)" (syft/file/resolver.go:42):
\* a link in one layer to a directory in another is taken for a file.
FilesOnly ==
  Asked({"path", "name", "type"}) => \A k \in DOMAIN located : ~IsNoFile(located[k].ref)

\* "used to filter out entries in the delegate resolver" (excluding_file.go:13-14):
\* a file goes with the path on which it was found first, though it was asked for
\* by another that is not excluded.
FoundDespite ==
  Asked({"path", "name", "type"}) /\ Everybody =>
    Refs(Files(Visible(Found("all")))) \subseteq Refs(Found("squashed"))

\* "we should search all possible resolutions" (container_image_all_layers.go:79):
\* a link whose target is in its own layer too is never resolved in those above.
LayersHaveSquash ==
  Asked({"path"}) /\ Everybody => Refs(Found("squashed")) \subseteq Refs(Found("all"))

\* "we've already ... in the squashed tree results, skip it"
\* (container_image_deep_squash.go:168): not if it was reached on another way.
RaisedIsHidden ==
  view = "deep" /\ Asked({"path", "name", "type"}) =>
    \A l \in Range(located) : l.mark = "hidden" => l.ref \notin Refs(Visible(Range(located)))

\* "relative to the layer squash of the given reference"
\* (container_image_deep_squash.go:87): the squashed view goes first.
BesideIsNotAbove ==
  view = "deep" /\ question.by = "relative" /\ located # <<>> =>
    located[1].ref[1] <= question.from.ref[1]
=============================================================================
