--------------------------- MODULE TaskSelection ---------------------------
(***************************************************************************)
(* Which catalogers a scan runs: syft/create_sbom_config.go selectTasks    *)
(* and internal/task/selection.go.  A configuration is used for several    *)
(* scans, one after the other; the lists of its request are Go slices,     *)
(* which a scan may write to, so a list is its memory and its length.      *)
(*                                                                         *)
(* A task is [name, tags]; a group is a set of tasks.  The order of the    *)
(* tasks of a group is left out: they run concurrently.                    *)
(***************************************************************************)
EXTENDS Naturals, Sequences, SequencesExt, Functions

CONSTANTS Groups,      \* the selectable tasks: packages, files
          Persistent,  \* names of the package tasks that always run
          Requests,    \* requests a configuration may begin with
          SourceTag    \* the default tag of each type of source

\* NewTask adds the name to the tags.
Selectors(t) == t.tags \cup {t.name}

ASSUME SelectionAssumption ==
  /\ DOMAIN Groups = {"packages", "files"}
  /\ Groups["packages"] \cap Groups["files"] = {}
  /\ \A g \in DOMAIN Groups : \A t \in Groups[g] :
       /\ {"all", "default"} \cap Selectors(t) = {}
       /\ \A u \in Groups[g] : t.name \in Selectors(u) => t = u
  /\ \A s \in DOMAIN SourceTag : SourceTag[s] # "default"

ASSUME RequestAssumption ==
  \A r \in Requests :
    /\ r = [defaults |-> r.defaults, sub |-> r.sub, add |-> r.add, remove |-> r.remove]
    /\ \A l \in {r.sub, r.remove} :
         /\ l = [mem |-> l.mem, len |-> l.len]
         /\ l.mem \in Seq(Range(l.mem)) /\ l.len \in 0..Len(l.mem)

VARIABLES config,   \* the request of the configuration
          asked,    \* the same before the first scan
          scans     \* what was selected: sequence of [source, outcome]

selectVars == <<config, asked, scans>>

Failed == [error |-> TRUE, packages |-> {}, files |-> {}]

-----------------------------------------------------------------------------
(* The lists.  A list is [mem, len]; mem may be longer than the list.      *)

List(l) == SubSeq(l.mem, 1, l.len)
Tokens(l) == Range(List(l))

\* append, one by one: the capacity doubles.
Capacity(n) == IF n = 0 THEN 0
               ELSE CHOOSE c \in {2^k : k \in 0..n} : n <= c /\ c < 2 * n

MakeList(s) == [mem |-> s \o [i \in 1..(Capacity(Len(s)) - Len(s)) |-> ""],
                len |-> Len(s)]

\* Overwriting the beginning of a memory.
Over(mem, s) == s \o SubSeq(mem, Len(s) + 1, Len(mem))

\* One turn of the loop of replaceDefaultTagReferences: index i, of the list the
\* loop began with.  "old" is the memory of that list, which the configuration
\* keeps; "new" is the list so far, still in that memory if "same".
ReplaceTag(tags, i, st) ==
  IF st.old[i] # "default" THEN st
  ELSE LET s == SubSeq(st.new, 1, i - 1) \o tags \o SubSeq(st.new, i + 1, Len(st.new))
           fits == st.same /\ Len(s) <= Len(st.old)
       IN  [old |-> IF fits THEN Over(st.old, s) ELSE st.old, new |-> s, same |-> fits]

ReplaceDefault(tags, l) ==
  LET after[i \in 0..l.len] ==
        IF i = 0 THEN [old |-> l.mem, new |-> List(l), same |-> TRUE]
        ELSE ReplaceTag(tags, i, after[i - 1])
  IN  after[l.len]

\* Slip: the defaults of the first scan stay in the configuration.
FinalRequestKept(c, src) ==
  LET tags == <<SourceTag[src], "file">>
      d == IF c.defaults # {} THEN c.defaults ELSE Range(tags)
      r == IF c.defaults # {} THEN Tokens(c.remove) ELSE Range(ReplaceDefault(tags, c.remove).new)
      u == IF c.defaults # {} THEN Tokens(c.sub) ELSE Range(ReplaceDefault(tags, c.sub).new)
  IN  [req |-> [defaults |-> d, sub |-> u, add |-> c.add, remove |-> r],
       left |-> [c EXCEPT !.defaults = d]]

\* finalTaskSelectionRequest: the request of this scan, as sets of tokens, and
\* what it leaves of the configuration.
FinalRequest(c, src) ==
  LET tags == <<SourceTag[src], "file">>
      rem  == ReplaceDefault(tags, c.remove)
      sub  == ReplaceDefault(tags, c.sub)
  IN  IF c.defaults # {}
        THEN [req |-> [defaults |-> c.defaults, sub |-> Tokens(c.sub),
                       add |-> c.add, remove |-> Tokens(c.remove)],
              left |-> c]
        ELSE [req |-> [defaults |-> Range(tags), sub |-> Range(sub.new),
                       add |-> c.add, remove |-> Range(rem.new)],
              left |-> [c EXCEPT !.remove.mem = rem.old, !.sub.mem = sub.old]]

-----------------------------------------------------------------------------
(* The selection in one group.                                             *)

Names(g) == {t.name : t \in g}
GroupTags(g) == UNION {Selectors(t) : t \in g}

Matching(g, tokens) == {t \in g : "all" \in tokens \/ Selectors(t) \cap tokens # {}}

\* tagsOrNamesThatTaskGroupRespondsTo
RespondsTo(g, tokens) ==
  (tokens \cap GroupTags(g)) \cup Names(g) \cup (IF g = {} THEN {} ELSE {"all"})

\* The errors of the expressions (expression.go).
Valid(g, r) ==
  /\ r.defaults \cup r.remove \subseteq GroupTags(g) \cup {"all"}
  /\ r.add \subseteq Names(g)
  /\ r.sub \subseteq GroupTags(g)

IsEmptyRequest(r) == r.defaults \cup r.sub \cup r.add \cup r.remove = {}

\* selectByExpressions
Chosen(g, r) ==
  LET narrowed == Matching(g, r.sub)
      final == IF narrowed = {} THEN Matching(g, r.defaults)
               ELSE Matching(g, r.defaults) \cap narrowed
  IN  (final \ Matching(g, r.remove)) \cup Matching(g, r.add)

\* _select
Select(g, r) == IF IsEmptyRequest(r) THEN {} ELSE Names(Chosen(g, r))

-----------------------------------------------------------------------------
(* The selection in all groups.                                            *)

AllTokens(r) == r.defaults \cup r.sub \cup r.add \cup r.remove

\* ensureDefaultSelectionHasFiles
WithFiles(r) ==
  IF /\ \E g \in DOMAIN Groups : "file" \in RespondsTo(Groups[g], {"file"})
     /\ r.defaults \cap {"file", "all", "default"} = {}
     /\ "file" \notin r.remove
    THEN [r EXCEPT !.defaults = @ \cup {"file"}]
    ELSE r

\* newSelectionWithTags
Narrow(r, tokens) == [defaults |-> r.defaults \cap tokens, sub |-> r.sub \cap tokens,
                      add |-> r.add \cap tokens, remove |-> r.remove \cap tokens]

\* SelectInGroups
SelectInGroups(asked0) ==
  LET r == WithFiles(asked0)
      part == [g \in DOMAIN Groups |-> Narrow(r, RespondsTo(Groups[g], AllTokens(r)))]
      unknown == AllTokens(r) \ ({"all"} \cup
                   UNION {RespondsTo(Groups[g], AllTokens(r)) : g \in DOMAIN Groups})
  IN  IF unknown # {} \/ \E g \in DOMAIN Groups :
                            ~IsEmptyRequest(part[g]) /\ ~Valid(Groups[g], part[g])
        THEN Failed
        ELSE [error |-> FALSE,
              packages |-> Select(Groups["packages"], part["packages"]),
              files |-> Select(Groups["files"], part["files"])]

\* selectTasks
SelectTasks(r) ==
  LET s == SelectInGroups(r)
      all == [s EXCEPT !.packages = @ \cup Persistent]
  IN  IF s.error \/ all.packages \cup all.files = {} THEN Failed ELSE all

-----------------------------------------------------------------------------
SelectInit == /\ config \in Requests
              /\ asked = config
              /\ scans = <<>>

Scan(src) ==
  LET f == FinalRequest(config, src)
  IN  /\ Len(scans) < 2
      /\ config' = f.left
      /\ scans' = Append(scans, [source |-> src, outcome |-> SelectTasks(f.req)])
      /\ UNCHANGED asked

SelectNext == \E src \in DOMAIN SourceTag : Scan(src)

SelectSpec == SelectInit /\ [][SelectNext]_selectVars

-----------------------------------------------------------------------------
(* Properties.                                                             *)

AllTasks == Groups["packages"] \cup Groups["files"]

\* "default" stands for the tags of the source where defaults come from it.
Meaning(tokens, src) ==
  IF asked.defaults = {} /\ "default" \in tokens
    THEN (tokens \ {"default"}) \cup {SourceTag[src], "file"}
    ELSE tokens

\* What a request says, apart from groups and from the order of evaluation: a
\* task runs if it was added by name, or if it is one of the defaults, is not
\* removed, and is one of the sub-selected of its own group, if any of that
\* group is.  Files are cataloged unless they are removed.
Wanted(t, src) ==
  LET tokens  == Selectors(t) \cup {"all"}
      own     == IF t \in Groups["files"] THEN Groups["files"] ELSE Groups["packages"]
      sub     == Meaning(Tokens(asked.sub), src) \ {"all"}
      files   == IF asked.defaults \cap {"file", "all", "default"} = {} THEN {"file"} ELSE {}
      default == IF asked.defaults = {} THEN {SourceTag[src], "file"}
                 ELSE asked.defaults \cup files
  IN  \/ t.name \in asked.add
      \/ /\ tokens \cap default # {}
         /\ tokens \cap Meaning(Tokens(asked.remove), src) = {}
         /\ Matching(own, sub) = {} \/ t \in Matching(own, sub)

\* A scan that does not fail runs what its request says (create_sbom_config.go
\* :264-327, selection.go:80-273): the split into groups, the implied file tag
\* and the order of the expressions do not show.
SelectedAsWritten ==
  Len(scans) > 0 /\ ~scans[1].outcome.error =>
    scans[1].outcome.packages \cup scans[1].outcome.files
      = {t.name : t \in {u \in AllTasks : Wanted(u, scans[1].source)}} \cup Persistent

\* A second scan of the same type of source selects what the first did, unless
\* the first replaced "default" in the memory of the configuration itself: a
\* list that mentions it and has room (create_sbom_config.go:503).
HasRoom(l) == "default" \in Tokens(l) /\ l.len < Len(l.mem)

RepeatsUnlessRoom ==
  /\ Len(scans) = 2 /\ scans[1].source = scans[2].source
  /\ asked.defaults # {} \/ ~(HasRoom(asked.remove) \/ HasRoom(asked.sub))
  => scans[1].outcome = scans[2].outcome

\* Both: what is selected depends on the request alone.
SelectionRepeats == SelectedAsWritten /\ RepeatsUnlessRoom
=============================================================================
