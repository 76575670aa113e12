-------------------------- MODULE FormatConversion --------------------------
(***************************************************************************)
(* What is left of an SBOM that is converted, from format to format (syft  *)
(* convert): the encoders and decoders of syft JSON, SPDX and CycloneDX.   *)
(*                                                                         *)
(* An identifier is a base, such as <<"hash", w>>, and what formats build   *)
(* upon it, one thing after another.  The end of a relationship is the     *)
(* whole value that is there, so it has a kind: <<"package", id>>,         *)
(* <<"coordinates", c>>, <<"location", c>> or <<"source">>, where c is     *)
(* <<path, relative, layer>>.  A package also has "what" it is, which no   *)
(* code reads.                                                             *)
(***************************************************************************)
EXTENDS Naturals, Sequences, FiniteSets, Functions

CONSTANTS Scanned,        \* SBOMs to begin with
          MaxConversions

\* What a scan finds: packages with hashes of their own, of which no two are the
\* same; they belong to, depend on and own one another, and have files.
Linked(s, r) ==
  /\ r = [from |-> r.from, type |-> r.type, to |-> r.to]
  /\ r.from = <<"source">> \/ \E p \in s.packages : r.from = <<"package", p.id>>
  /\ \/ /\ \E p \in s.packages : r.to = <<"package", p.id>>
        /\ r.type \in {"contains", "dependency-of", "ownership-by-file-overlap"}
     \/ /\ r.to[1] = "coordinates" /\ r.to = <<"coordinates", r.to[2]>>
        /\ r.type \in {"contains", "evident-by"}

ASSUME ConversionAssumption ==
  /\ MaxConversions \in Nat
  /\ \A s \in Scanned :
       /\ IsFiniteSet(s.packages)
       /\ \A p \in s.packages :
            /\ p.id = <<<<"hash", p.what>>, <<>>>> /\ p.what # "root"
            /\ \A q \in s.packages : q.what = p.what => q = p
       /\ \A r \in s.relationships : Linked(s, r)

VARIABLES sbom, scanned,  \* the SBOM, and the one that was scanned
          steps           \* what was done: sequence of [format, source]

convVars == <<sbom, scanned, steps>>

ConvInit == sbom \in Scanned /\ scanned = sbom /\ steps = <<>>

-----------------------------------------------------------------------------
(* Common to the formats.                                                  *)

Id(base) == <<base, <<>>>>
Plus(id, tag) == <<id[1], Append(id[2], tag)>>
EndsIn(id, tag) == id[2] # <<>> /\ id[2][Len(id[2])] = tag

\* Coordinates.ID: locations are identified alike.
IdOf(end) == CASE end[1] = "package" -> end[2]
               [] end[1] = "source"  -> Id(<<"source">>)
               [] OTHER              -> Id(<<"file", end[2]>>)

\* sbom.AllCoordinates, extractCoordinates: a location is not looked into.
AllCoordinates(s) ==
  DOMAIN s.files \cup {r.to[2] : r \in {q \in s.relationships : q.to[1] = "coordinates"}}

FileAt(s, c) == IF c \in DOMAIN s.files THEN s.files[c] ELSE {}

-----------------------------------------------------------------------------
(* Syft JSON.                                                              *)

ToJson(s) ==
  [source |-> s.source,
   packages |-> s.packages,
   files |-> [c \in AllCoordinates(s) |-> FileAt(s, c)],
   relationships |-> {[parent |-> IdOf(r.from), type |-> r.type, child |-> IdOf(r.to)] :
                        r \in s.relationships}]

\* Relationships are looked up by what the document has; the others are dropped
\* with a warning.  Files that only a relationship names have no artifact.
JsonEnds(doc) == {<<"package", p.id>> : p \in doc.packages} \cup {<<"source">>}
                 \cup {<<"coordinates", c>> : c \in DOMAIN doc.files}

FromJson(doc) ==
  [source |-> doc.source,
   packages |-> doc.packages,
   files |-> Restrict(doc.files, {c \in DOMAIN doc.files : doc.files[c] # {}}),
   relationships |->
     UNION {{[from |-> f, type |-> r.type, to |-> t] :
               f \in {e \in JsonEnds(doc) : IdOf(e) = r.parent},
               t \in {e \in JsonEnds(doc) : IdOf(e) = r.child}} : r \in doc.relationships}]

-----------------------------------------------------------------------------
(* SPDX.                                                                   *)

\* toSPDXID: a package is given its type and name too, unless it has been; so
\* are coordinates, their path, but no other value.  (Sanitizing leaves the
\* hashes alone that tell identifiers apart.)
ToSpdxId(end) ==
  CASE end[1] = "package"     -> IF EndsIn(end[2], "Package") THEN end[2] ELSE Plus(end[2], "Package")
    [] end[1] = "coordinates" -> Plus(IdOf(end), "File")
    [] OTHER                  -> IdOf(end)

\* toRootPackage; SPDX 2.2 has no purpose.
Purpose(source, version) ==
  IF version = "spdx-2.2" THEN "none"
  ELSE CASE source \in {"image", "oci-model", "snap"} -> "CONTAINER"
         [] source \in {"directory", "file"}          -> "FILE"
         [] OTHER                                     -> "OTHER"

\* lookupRelationship: the type, and the type that begins the comment.
SpdxType(type) == CASE type = "contains"      -> <<"CONTAINS", "none">>
                    [] type = "dependency-of" -> <<"DEPENDENCY_OF", "none">>
                    [] OTHER                  -> <<"OTHER", type>>

Root(s, version) == [id |-> Id(<<"DocumentRoot", s.source>>), what |-> "root", purl |-> FALSE,
                     purpose |-> Purpose(s.source, version)]

SpdxPackages(s) == {[id |-> ToSpdxId(<<"package", p.id>>), what |-> p.what,
                     purl |-> p.purl, purpose |-> "none"] : p \in s.packages}

Document == Id(<<"DOCUMENT">>)

ToSpdx(s, version) ==
  LET root == Root(s, version)
      edge(a, t, b) == [a |-> a, type |-> t, b |-> b]
  IN  [namespace |-> s.source,
       packages |-> SpdxPackages(s) \cup {root},
       files |-> [c \in AllCoordinates(s) |-> FileAt(s, c)],
       relationships |->
         {edge(ToSpdxId(r.from), SpdxType(r.type), ToSpdxId(r.to)) :
            r \in {q \in s.relationships : q.from[1] = "package"}}
         \cup {edge(root.id, <<"CONTAINS", "none">>, p.id) : p \in SpdxPackages(s)}
         \cup {edge(Document, <<"DESCRIBES", "none">>, root.id)}]

\* convertAbsoluteToRelative
Relative(c) == <<c[1], TRUE, c[3]>>

\* Slip: only the root of a container is taken out.
ContainerOnly(p) == p.purpose = "CONTAINER"

\* extractSource: what kind of root becomes the source.
IsSource(p) == p.purpose \in {"CONTAINER", "FILE"}

\* extractSource: the one package the document describes, if it is such a root.
Taken(doc) ==
  LET roots == {p \in doc.packages : \E r \in doc.relationships :
                  r.a = Document /\ r.type[1] = "DESCRIBES" /\ r.b = p.id}
  IN  IF Cardinality(roots) = 1 THEN {p \in roots : IsSource(p)} ELSE {}

SpdxEnds(doc) == {<<"package", p.id>> : p \in doc.packages \ Taken(doc)} \cup
                 {<<"location", c>> : c \in DOMAIN doc.files}

\* Files are known by what they are in the document.
SpdxIdOf(e) == IF e[1] = "package" THEN e[2] ELSE Plus(IdOf(e), "File")

\* What type is found, if any, for an end.
FoundType(type, e) ==
  CASE type[1] = "CONTAINS" -> {"contains"}
    [] type[1] = "DEPENDENCY_OF" /\ e[1] = "package" -> {"dependency-of"}
    [] type[1] = "OTHER" -> {type[2]} \cap (IF e[1] = "package" THEN {"ownership-by-file-overlap"}
                                           ELSE {"evident-by"})
    [] OTHER -> {}

FoundEnd(e) == IF e[1] = "location" THEN <<"location", Relative(e[2])>> ELSE e

FromSpdx(doc) ==
  LET taken == Taken(doc) IN
  [source |-> IF \E p \in taken : p.purpose = "CONTAINER" THEN "image"
              ELSE IF \E p \in taken : p.id[1][2] = "directory" THEN "directory"
              ELSE IF taken # {} THEN "file"
              ELSE IF doc.namespace \in {"image", "directory", "file"} THEN doc.namespace ELSE "other",
   packages |-> {[id |-> p.id, what |-> p.what, purl |-> p.purl, typed |-> p.purl] :
                   p \in doc.packages \ taken},
   files |-> [c \in {Relative(d) : d \in DOMAIN doc.files} |-> {"metadata", "digests"}],
   relationships |->
     UNION {UNION {{[from |-> f, type |-> t, to |-> FoundEnd(e)] :
                      f \in {g \in SpdxEnds(doc) : g[1] = "package" /\ g[2] = r.a},
                      t \in FoundType(r.type, e)} :
                    e \in {g \in SpdxEnds(doc) : SpdxIdOf(g) = r.b}} :
             r \in doc.relationships}]

-----------------------------------------------------------------------------
(* CycloneDX.                                                              *)

\* DeriveBomRef
BomRef(p) == IF p.purl THEN Plus(p.id, "purl") ELSE p.id

\* EncodeComponent, for each package.
Components(s) == s.packages

\* The packages of which p is a dependency.
DependentsOf(s, p) ==
  {q \in s.packages : \E r \in s.relationships :
     r.type = "dependency-of" /\ r.from = <<"package", p.id>> /\ r.to = <<"package", q.id>>}

\* Slip: what a package is a dependency of depends on it.
DependenciesReversed(s) ==
  UNION {{<<BomRef(p), BomRef(q)>> : q \in DependentsOf(s, p)} : p \in s.packages}

\* toDependencies: of <<"a", "b">>, a depends on b.
BomDependencies(s) ==
  UNION {{<<BomRef(q), BomRef(p)>> : q \in DependentsOf(s, p)} : p \in s.packages}

ToCycloneDX(s) ==
  [component |-> CASE s.source = "image" -> "container"
                   [] s.source \in {"directory", "file"} -> "file"
                   [] OTHER -> "none",
   packages |-> {[ref |-> BomRef(p), what |-> p.what, purl |-> p.purl, typed |-> p.typed] :
                   p \in Components(s)},
   dependencies |-> BomDependencies(s)]

\* decodeComponent: a package whose type is known is given a package URL, and
\* the reverse.  Components that are files are not read.
FromCycloneDX(doc) ==
  LET known == {p.ref : p \in doc.packages} IN
  [source |-> CASE doc.component = "container" -> "image"
                [] doc.component = "file" -> "file"
                [] OTHER -> "other",
   packages |-> {[id |-> p.ref, what |-> p.what, purl |-> p.purl \/ p.typed,
                  typed |-> p.purl \/ p.typed] : p \in doc.packages},
   files |-> <<>>,
   relationships |->
     {[from |-> <<"package", d[2]>>, type |-> "dependency-of", to |-> <<"package", d[1]>>] :
        d \in {e \in doc.dependencies : e[1] \in known /\ e[2] \in known}}]

-----------------------------------------------------------------------------
Formats == {"json", "spdx-2.2", "spdx-2.3", "cyclonedx"}
Spdx == {"spdx-2.2", "spdx-2.3"}

Converted(s, f) ==
  CASE f = "json"      -> FromJson(ToJson(s))
    [] f = "cyclonedx" -> FromCycloneDX(ToCycloneDX(s))
    [] OTHER           -> FromSpdx(ToSpdx(s, f))

\* RunConvert, and the next one reads what it wrote.
Convert(f) == /\ Len(steps) < MaxConversions
              /\ sbom' = Converted(sbom, f)
              /\ steps' = Append(steps, [format |-> f, source |-> sbom.source])
              /\ UNCHANGED scanned

ConvNext == \E f \in Formats : Convert(f)

ConvSpec == ConvInit /\ [][ConvNext]_convVars

-----------------------------------------------------------------------------
(* Properties.                                                             *)

Through(fs) == \E i \in DOMAIN steps : steps[i].format \in fs

\* What an SBOM says between packages, or of packages and files, whatever they
\* are called.
What(s, end) == CASE end[1] = "package" -> (CHOOSE p \in s.packages : p.id = end[2]).what
                  [] end[1] = "source"  -> "source"
                  [] OTHER              -> "file"

Says(s, toFile) ==
  {<<What(s, r.from), r.type,
     IF toFile THEN <<r.to[2][1], r.to[2][3]>> ELSE <<What(s, r.to)>>>> :
     r \in {q \in s.relationships : /\ q.from[1] = "package"
                                    /\ What(s, q.from) # "root"
                                    /\ (q.to[1] # "package") = toFile}}

\* Every package is there once however often and through whatever an SBOM is
\* converted, and nothing else is, but for the root of a document that cannot
\* say what kind of source it has (to_syft_model.go:106-132, encoder_test.go
\* :235-248).
RootStays(st) == \/ st.format = "spdx-2.2"
                 \/ st.format = "spdx-2.3" /\ Purpose(st.source, st.format) = "OTHER"

PackagesKept ==
  LET whats == {p.what : p \in sbom.packages}
      own   == {p \in sbom.packages : p.what # "root"}
  IN  /\ whats \ {"root"} = {p.what : p \in scanned.packages}
      /\ Cardinality(own) = Cardinality(scanned.packages)
      /\ "root" \in whats <=> \E i \in DOMAIN steps : RootStays(steps[i])

\* Dependencies survive every format; the rest survives unless CycloneDX was
\* among them; and what packages have to do with files does unless, besides,
\* SPDX was followed by SPDX: its decoder makes locations of files, which its
\* encoder does not name as it names the files (to_syft_model.go:405-415, :480;
\* to_format_model.go:311-357).
TwiceSpdx == \E i \in DOMAIN steps : /\ i + 1 \in DOMAIN steps
                                     /\ steps[i].format \in Spdx
                                     /\ steps[i + 1].format \in Spdx

EdgesKept ==
  LET dependencies(s) == {e \in Says(s, FALSE) : e[2] = "dependency-of"} IN
  /\ dependencies(sbom) = dependencies(scanned)
  /\ ~Through({"cyclonedx"}) => Says(sbom, FALSE) = Says(scanned, FALSE)
  /\ Says(sbom, TRUE) = IF Through({"cyclonedx"}) \/ TwiceSpdx THEN {}
                        ELSE Says(scanned, TRUE)

\* Neither gets lost, nor is anything made up, by up to so many conversions in
\* any order (convert.go).
ConversionsKeep == PackagesKept /\ EdgesKept
=============================================================================
