--------------------------- MODULE BinaryPackages ---------------------------
(***************************************************************************)
(* Packages that are found in executables: by classifiers, in ELF notes,   *)
(* PE resources and native images, PHP interpreters and their extensions,  *)
(* JVMs by their release file; and what is noted of executables.           *)
(* syft/pkg/cataloger/binary, internal/binutils, internal/pe, php, java,   *)
(* syft/file/cataloger/executable.                                         *)
(*                                                                         *)
(* A pattern is a name; what it captures in a file is part of the file.    *)
(* CPEs of classifiers and the texts of notes are left out.                *)
(***************************************************************************)
EXTENDS Integers, SequencesExt

CONSTANTS Binaries,   \* each [kind, ...]: see the actions
          Word,       \* how many addresses there are
          MaxEntries  \* peMaxAllowedDirectoryEntries

VARIABLES bin,        \* what is scanned
          binAt,      \* the next classifier, file, or string of a PE
          binFound    \* [packages, edges, errors, status]; a PE has edges to embedded documents

binVars == <<bin, binAt, binFound>>

NoBinaries == [packages |-> <<>>, edges |-> {}, errors |-> {}, status |-> "reading"]

BinReading(kind) == bin.kind = kind /\ binFound.status = "reading"

-----------------------------------------------------------------------------
(* Classifiers.  The outcome of a matcher is a list of packages, which may *)
(* be empty, none, or an error.                                            *)

NoMatch == [is |-> "none", packages |-> <<>>]
MatchError == [is |-> "error", packages |-> <<>>]
Matched(packages) == [is |-> "match", packages |-> packages]

BinFile(loc) == bin.files[loc]

EarliestAt(s, places, default) == IF places = {} THEN default ELSE s[Min(places)]
LatestAt(s, places, default) == IF places = {} THEN default ELSE s[Max(places)]

\* What several patterns capture: the later ones overwrite.
Captured(file, patterns) ==
  FoldLeft(LAMBDA all, p : file.captures[p] @@ all, <<>>, patterns)

\* FileContentsVersionMatcher composes a version of three numbers.
VersionCaptured(groups) ==
  IF "version" \in DOMAIN groups THEN <<groups["version"]>>
  ELSE IF {"major", "minor", "patch"} \subseteq DOMAIN groups
       THEN <<groups["major"], groups["minor"], groups["patch"]>> ELSE <<>>

\* NewClassifierPackage
ClassifierPackage(cls, loc, version) ==
  [name |-> cls.package, version |-> version, type |-> cls.type,
   evidence |-> (loc :> "primary"), matches |-> <<<<cls.class, loc>>>>]

MatchContents(patterns, cls, loc) ==
  IF ~BinFile(loc).readable THEN MatchError
  ELSE IF ~(ToSet(patterns) \subseteq DOMAIN BinFile(loc).captures) THEN NoMatch
  ELSE IF VersionCaptured(Captured(BinFile(loc), patterns)) = <<>> THEN Matched(<<>>)
  ELSE Matched(<<ClassifierPackage(cls, loc, VersionCaptured(Captured(BinFile(loc), patterns)))>>)

\* FileNameTemplateVersionMatcher: the name first, and a version is needed.
MatchTemplate(names, pattern, cls, loc) ==
  IF loc \notin names THEN NoMatch
  ELSE IF ~BinFile(loc).readable THEN MatchError
  ELSE IF pattern \notin DOMAIN BinFile(loc).captures THEN NoMatch
  ELSE IF "version" \notin DOMAIN BinFile(loc).captures[pattern] THEN NoMatch
  ELSE Matched(<<ClassifierPackage(cls, loc, <<BinFile(loc).captures[pattern]["version"]>>)>>)

\* MatchAny
FirstOutcome(outcomes) == EarliestAt(outcomes, {n \in DOMAIN outcomes : outcomes[n].is # "none"}, NoMatch)

\* BranchingEvidenceMatcher: what has no packages is passed over.
FirstBranch(outcomes) ==
  EarliestAt(outcomes, {n \in DOMAIN outcomes : outcomes[n].is = "error" \/ outcomes[n].packages # <<>>}, NoMatch)

\* MatchAll: the last that has packages.  If none has, nothing matched.
AllOutcomes(outcomes) ==
  LET failing == EarliestAt(outcomes, {n \in DOMAIN outcomes : outcomes[n].is # "match"}, Matched(<<>>))
  IN  IF failing.is # "match" THEN failing
      ELSE LatestAt(outcomes, {n \in DOMAIN outcomes : outcomes[n].packages # <<>>}, NoMatch)

\* makePrimaryLocation
MakePrimary(p, loc) ==
  [p EXCEPT !.evidence = (loc :> "primary") @@ [l \in DOMAIN p.evidence |-> "supporting"]]

\* What one library tells of the binary that imports it.
OfLibrary(outcome, cls, loc) ==
  [outcome EXCEPT !.packages =
     [n \in DOMAIN @ |-> [MakePrimary(@[n], loc) EXCEPT !.matches = <<<<cls.class, loc>>>> \o @]]]

\* SharedLibraryLookup: all that matches, of all libraries.
LibraryOutcome(outcomes) ==
  IF \E n \in DOMAIN outcomes : outcomes[n].is = "error" THEN MatchError
  ELSE IF \A n \in DOMAIN outcomes : outcomes[n].is = "none" THEN NoMatch
  ELSE Matched(FlattenSeq([n \in DOMAIN outcomes |-> outcomes[n].packages]))

\* The files a binary's imports of certain names may be.
LibraryFiles(loc, names) ==
  FlattenSeq([n \in DOMAIN BinFile(loc).imports |->
    IF BinFile(loc).imports[n] \in names THEN bin.named[BinFile(loc).imports[n]] ELSE <<>>])

\* collectSupportingEvidence
Supporting(outcome, loc) ==
  [outcome EXCEPT !.packages = [n \in DOMAIN @ |-> MakePrimary(@[n], loc)]]

RECURSIVE Match(_, _, _)
Match(m, cls, loc) ==
  CASE m.is = "contents" -> MatchContents(m.patterns, cls, loc)
    [] m.is = "template" -> MatchTemplate(m.names, m.pattern, cls, loc)
    [] m.is = "path" -> IF loc \in m.names THEN Matched(<<>>) ELSE NoMatch
    [] m.is = "any" -> FirstOutcome([n \in DOMAIN m.of |-> Match(m.of[n], cls, loc)])
    [] m.is = "all" -> AllOutcomes([n \in DOMAIN m.of |-> Match(m.of[n], cls, loc)])
    [] m.is = "library" ->
         IF ~BinFile(loc).readable THEN MatchError
         ELSE LibraryOutcome([n \in DOMAIN LibraryFiles(loc, m.names) |->
                OfLibrary(Match(m.of, cls, LibraryFiles(loc, m.names)[n]), cls, loc)])
    [] m.is = "beside" ->
         FirstOutcome([n \in DOMAIN bin.beside[loc] |->
           IF BinFile(bin.beside[loc][n]).readable
             THEN Supporting(Match(m.of, cls, bin.beside[loc][n]), loc) ELSE MatchError])
    [] m.is = "branch" ->
         IF ~BinFile(loc).readable THEN MatchError
         ELSE FirstBranch([n \in DOMAIN m.of |-> Match(m.of[n].matcher, m.of[n], loc)])

\* catalog
Outcomes(cls) == [n \in DOMAIN cls.globbed |-> Match(cls.matcher, cls, cls.globbed[n])]

ErrorsOf(cls, outcomes) == {<<cls.class, cls.globbed[n]>> : n \in {n \in DOMAIN outcomes : outcomes[n].is = "error"}}
FoundIn(outcomes) == FlattenSeq([n \in DOMAIN outcomes |-> outcomes[n].packages])

\* Slip: versions are not compared.
SameButVersion(p, q) == p.name = q.name /\ p.type = q.type

\* packagesMatch
SamePackage(p, q) == p.name = q.name /\ p.version = q.version /\ p.type = q.type

\* mergePackages.  The type cannot change: only packages of one type are merged.
MergePackages(p, extra) ==
  IF DOMAIN extra.evidence \subseteq DOMAIN p.evidence THEN p
  ELSE [p EXCEPT !.evidence = @ @@ extra.evidence, !.matches = @ \o extra.matches]

AddPackage1(packages, p) ==
  LET same == {n \in DOMAIN packages : SamePackage(packages[n], p)}
  IN  IF same = {} THEN Append(packages, p)
      ELSE LET n == CHOOSE n \in same : \A m \in same : n <= m
           IN  [packages EXCEPT ![n] = MergePackages(@, p)]

\* One turn of the loop over classifiers.  With an error all that the classifier
\* found is lost.
Classified(cls, outcomes) ==
  binFound' = [binFound EXCEPT
                 !.errors = @ \cup ErrorsOf(cls, outcomes),
                 !.packages = IF ErrorsOf(cls, outcomes) # {} THEN @
                              ELSE FoldLeft(AddPackage1, @, FoundIn(outcomes))]

Classify ==
  /\ BinReading("classifiers")
  /\ binAt <= Len(bin.classifiers)
  /\ Classified(bin.classifiers[binAt], Outcomes(bin.classifiers[binAt]))
  /\ binAt' = binAt + 1
  /\ UNCHANGED bin

EndClassifiers ==
  /\ BinReading("classifiers")
  /\ binAt > Len(bin.classifiers)
  /\ binFound' = [binFound EXCEPT !.status = "read"]
  /\ UNCHANGED <<bin, binAt>>

BinEnd(packages, edges, errors) ==
  /\ binFound' = [packages |-> packages, edges |-> edges, errors |-> errors, status |-> "read"]
  /\ UNCHANGED <<bin, binAt>>

-----------------------------------------------------------------------------
(* PHP interpreters by classifiers that do not share, and extensions.      *)

PhpInterpreters ==
  FlattenSeq([c \in DOMAIN bin.classifiers |-> FoundIn(Outcomes(bin.classifiers[c]))])
PhpErrors == UNION {ErrorsOf(bin.classifiers[c], Outcomes(bin.classifiers[c])) : c \in DOMAIN bin.classifiers}

\* catalogExtension and getClassifier: an extension is named by its file.
PhpExtension(loc) ==
  MatchContents(<<"extension">>, [class |-> "php-ext", package |-> BinFile(loc).name, type |-> "binary"], loc)

CatalogPhp ==
  /\ BinReading("php")
  /\ LET interpreters == PhpInterpreters
         outcomes == [n \in DOMAIN bin.extensions |-> PhpExtension(bin.extensions[n])]
     IN  BinEnd(interpreters \o FoundIn(outcomes),
                {<<e, i>> : e \in ToSet(FoundIn(outcomes)), i \in ToSet(interpreters)},
                PhpErrors \cup {<<"php-ext", bin.extensions[n]>> :
                                  n \in {n \in DOMAIN outcomes : outcomes[n].is = "error"}})

-----------------------------------------------------------------------------
(* ELF notes.                                                              *)

\* parseElfNotes, getELFNotes: a note is read as it is, or behind a header.
NoteOf(f) ==
  IF ~f.readable THEN "error"
  ELSE IF f.note.is \in {"none", "empty"} THEN "none"
  ELSE IF f.note.is \notin {"json", "after header"} THEN "error"
  ELSE IF f.note.name = "" \/ f.note.version = "" THEN "none" ELSE "note"

NoteKey(note) == <<note.name, note.version, note.purl, note.cpe>>

\* osNameAndVersionFromMetadata
NoteOs(note) ==
  LET osCpe == IF note.osCpe = <<>> THEN note.correctOsCpe ELSE note.osCpe
  IN  IF note.os # "" /\ note.osVersion # "" THEN <<note.os, note.osVersion>>
      ELSE IF osCpe = <<>> THEN <<note.os, "">>
      ELSE IF osCpe = <<"bad">> THEN <<"", "">> ELSE osCpe

\* elfPackageURL, purlDistroType, pkgType
Distro == {"rpm", "deb", "apk", "alpm"}
NotePurl(note, os) ==
  [type |-> IF note.type \in Distro THEN note.type ELSE "generic",
   namespace |-> IF note.type \notin Distro \/ os[1] = "" THEN note.system ELSE os[1],
   distro |-> IF os[1] = "" THEN <<>> ELSE SelectSeq(os, LAMBDA x : x # "")]

\* newELFPackage of the first note, at the places of all.
NotePackage(files, note) ==
  [name |-> note.name, version |-> note.version, type |-> IF note.type \in Distro THEN note.type ELSE "binary",
   purl |-> NotePurl(note, NoteOs(note)), locations |-> {f.loc : f \in files}]

Noted == SelectSeq(bin.files, LAMBDA f : NoteOf(f) = "note")

CatalogNotes ==
  /\ BinReading("elf notes")
  /\ LET keys == SetToSeq({NoteKey(Noted[n].note) : n \in DOMAIN Noted})
         having(k) == SelectSeq(Noted, LAMBDA f : NoteKey(f.note) = k)
     IN  BinEnd([k \in DOMAIN keys |-> NotePackage(ToSet(having(keys[k])), having(keys[k])[1].note)], {},
                {f.loc : f \in {f \in ToSet(bin.files) : NoteOf(f) = "error"}})

-----------------------------------------------------------------------------
(* What is noted of executables.                                           *)

Unreadable == <<>>   \* of symbols; others are <<set>>

\* hasAnyDynamicSymbols, checkLLVMControlFlowIntegrity, checkClangFortifySource
AnySymbol(symbols, named) ==
  IF symbols = Unreadable THEN "unknown"
  ELSE IF \E s \in symbols[1] : s.name \in named THEN "yes" ELSE "no"

\* checkElfNXProtection: the first GNU_STACK segment decides.
NoExecutable(f) == f.stacks # <<>> /\ ~f.stacks[1].executable

\* checkElfRelROProtection
RelocationReadOnly(f) == IF ~f.relro THEN "none" ELSE IF f.bindNow THEN "full" ELSE "partial"

\* findELFSecurityFeatures
SecurityFeatures(f) ==
  [symbolTableStripped |-> ~f.symtab,
   stackCanary |-> AnySymbol(f.dynamic, {"stack_chk"}),
   noExecutable |-> NoExecutable(f),
   relocationReadOnly |-> RelocationReadOnly(f),
   positionIndependent |-> f.shared /\ f.pieFlag,
   sharedObject |-> f.shared,
   safeStack |-> AnySymbol(f.dynamic, {"safestack"}),
   controlFlow |-> AnySymbol(f.symbols, {"cfi"}),
   fortified |-> AnySymbol(f.symbols, {"chk"})]

NoFeatures == [imports |-> {}, entrypoint |-> FALSE, exports |-> FALSE, security |-> <<>>, failed |-> FALSE]

\* findELFFeatures: libraries that cannot be read are an error, the rest is noted.
ElfFeatures(f) ==
  IF ~f.parses THEN [NoFeatures EXCEPT !.failed = TRUE]
  ELSE [imports |-> IF f.imports = Unreadable THEN {} ELSE f.imports[1],
        entrypoint |-> f.entry,
        exports |-> f.dynamic # Unreadable /\ \E s \in f.dynamic[1] : s.defined,
        security |-> <<SecurityFeatures(f)>>,
        failed |-> f.imports = Unreadable]

\* findPEFeatures: it is all or nothing.
PeFeatures(f) ==
  IF ~f.parses \/ f.imports = Unreadable THEN [NoFeatures EXCEPT !.failed = TRUE]
  ELSE [NoFeatures EXCEPT !.imports = f.imports[1],
                          !.entrypoint = f.entry /\ "main" \in f.names /\ "DllMain" \notin f.names,
                          !.exports = f.exports]

\* machoHasExports
MachoExports(a) ==
  \E s \in a.symbols : s.external /\ ~s.private /\ s.defined /\ s.name \notin {"_main", "__mh_execute_header"}

\* findMachoFeatures: architecture by architecture; libraries are noted at the end.
MachoFeatures(f) ==
  LET bad == {n \in DOMAIN f.archs : ~f.archs[n].parses \/ f.archs[n].imports = Unreadable}
      seen == {n \in DOMAIN f.archs : \A m \in bad : n < m}
  IN  [NoFeatures EXCEPT
         !.imports = IF bad # {} THEN {} ELSE UNION {f.archs[n].imports[1] : n \in seen},
         !.entrypoint = \E n \in seen : f.archs[n].main,
         !.exports = \E n \in seen : MachoExports(f.archs[n]),
         !.failed = ~f.parses \/ bad # {}]

\* findExecutableFormat: of the first sector.  Less than a sector is an error.
FormatOf(f) ==
  IF ~f.readable \/ f.short THEN "error"
  ELSE IF f.is \in {"elf", "pe", "macho"} THEN f.is ELSE "other"

\* processExecutable gives data beside an error, and Collect keeps both.
FeaturesOf(f) ==
  CASE f.is = "elf" -> ElfFeatures(f) [] f.is = "pe" -> PeFeatures(f) [] OTHER -> MachoFeatures(f)

CatalogExecutables ==
  /\ BinReading("executables")
  /\ LET known == {f \in ToSet(bin.files) : FormatOf(f) \in {"elf", "pe", "macho"}}
     IN  BinEnd(SetToSeq({[loc |-> f.loc, format |-> f.is, features |-> FeaturesOf(f)] :
                            f \in known}), {},
                {f.loc : f \in {g \in ToSet(bin.files) : FormatOf(g) = "error"}}
                \cup {f.loc : f \in {g \in known : FeaturesOf(g).failed}})

-----------------------------------------------------------------------------
(* Native images.  A data section holds the length of an SBOM at one       *)
(* address and the SBOM at another, [base, size, lengthAt, length, sbomAt];*)
(* symbols say where both are.  One unit of an address is eight bytes.     *)

ReadError == [is |-> "error", packages |-> {}]

\* decompressSbom.  A slice out of bounds panics, and fetchPkgs recovers.
DecompressSbom(data, sbomStart, lengthStart, packages) ==
  LET sbomEnd == (sbomStart + data.length) % Word
  IN  IF \/ (lengthStart + 1) % Word > data.size \/ lengthStart > (lengthStart + 1) % Word
         \/ lengthStart # data.lengthAt
         \/ sbomEnd > data.size \/ sbomStart > sbomEnd
         \/ sbomStart # data.sbomAt
      THEN ReadError ELSE [is |-> "match", packages |-> packages]

Less(a, b) == (a - b) % Word

\* The last symbol of a name, or zero.
SymbolValue(symbols, name) ==
  LatestAt(symbols, {n \in DOMAIN symbols : symbols[n].name = name}, [name |-> name, value |-> 0]).value

\* fetchPkgs of nativeImageElf, with getSymbols, and of nativeImageMachO.
FetchBySymbols(image, symbols) ==
  IF \E name \in {"sbom", "sbom_length", "svm_version"} : SymbolValue(symbols, name) = 0 THEN ReadError
  ELSE IF image.data = <<>> THEN ReadError
  ELSE DecompressSbom(image.data[1], Less(SymbolValue(symbols, "sbom"), image.data[1].base),
                      Less(SymbolValue(symbols, "sbom_length"), image.data[1].base), image.packages)

ElfSymbols(image) ==
  (IF image.symtab = Unreadable THEN <<>> ELSE image.symtab[1])
  \o (IF image.dynsym = Unreadable THEN <<>> ELSE image.dynsym[1])

\* fetchSbomSymbols: where in the table of names, counted from zero.  The entry that
\* ends with the exports is not looked at, nor what follows a bad one.
NamesSeen(image) ==
  LET last == IF image.tight THEN Len(image.names) - 1 ELSE Len(image.names)
      bad == {n \in 1..last : image.names[n] = "bad"}
  IN  {n \in 1..last : \A m \in bad : n < m}

NameIndex(image, name) ==
  LET at == {n \in NamesSeen(image) : image.names[n] = name}
  IN  IF at = {} THEN 0 ELSE (CHOOSE n \in at : \A m \in at : n >= m) - 1

\* fetchPkgs of nativeImagePE: index zero stands for a name that is not there.
FetchByExports(image) ==
  IF \E name \in {"sbom", "sbom_length", "svm_version"} : NameIndex(image, name) = 0 THEN ReadError
  ELSE IF image.data = <<>> THEN ReadError
  ELSE DecompressSbom(image.data[1],
                      Less(image.pointers[NameIndex(image, "sbom") + 1], image.data[1].base),
                      Less(image.pointers[NameIndex(image, "sbom_length") + 1], image.data[1].base),
                      image.packages)

\* newElf, newMachO, newPE: a reader is of one format at most.
FetchPkgs(image) ==
  CASE image.is = "elf" -> FetchBySymbols(image, ElfSymbols(image))
    [] image.is = "macho" -> FetchBySymbols(image, image.symbols)
    [] image.is = "pe" -> FetchByExports(image)
    [] OTHER -> ReadError

\* processLocation and fetchPkgs: a file that cannot be opened, or an image without an
\* SBOM, is not mentioned.
ImagePackages(f) ==
  IF ~f.readable THEN {}
  ELSE UNION {{[name |-> n, loc |-> f.loc] : n \in FetchPkgs(f.images[k]).packages} : k \in DOMAIN f.images}

\* Catalog: a file that cannot be buffered spoils all.
CatalogNativeImages ==
  /\ BinReading("native images")
  /\ IF \E n \in DOMAIN bin.files : bin.files[n].readable /\ bin.files[n].torn
       THEN BinEnd(<<>>, {}, {"all"})
       ELSE BinEnd(SetToSeq(UNION {ImagePackages(bin.files[n]) : n \in DOMAIN bin.files}), {}, {})

-----------------------------------------------------------------------------
(* PE files: directories of resources that lead to each other, then the    *)
(* strings of the version resources, one by one.                           *)

\* parseResourceDirectory counts in sixteen bits.
DirectoryEntries(d) == (d.named + d.ids) % 2^16

RememberDirectory(found, d) == [found EXCEPT !.dirs = @ \cup {d}]

NameAdded(found, entry) == IF entry.name = "" THEN found ELSE [found EXCEPT !.names = @ \cup {entry.name}]

\* parseResourceDirectory and processResourceEntry: an entry that cannot be read is
\* passed over.  The root is not remembered.
RECURSIVE ReadDirectory(_, _)
ReadDirectory(found, d) ==
  LET directory == bin.directories[d]
  IN  IF DirectoryEntries(directory) > MaxEntries \/ DirectoryEntries(directory) = 0 THEN found
      ELSE FoldLeft(
             LAMBDA so, entry :
               IF entry.is = "data" THEN [NameAdded(so, entry) EXCEPT !.resources = Append(@, entry.resource)]
               ELSE IF entry.dir \in so.dirs THEN NameAdded(so, entry)
               ELSE ReadDirectory(RememberDirectory(NameAdded(so, entry), entry.dir), entry.dir),
             found, SubSeq(directory.entries, 1, DirectoryEntries(directory)))

NoResources == [dirs |-> {}, names |-> {}, resources |-> <<>>]

\* parsePEFile and the first directory fail for all.
PeBroken ==
  \/ bin.header = "bad"
  \/ bin.root # "none" /\ DirectoryEntries(bin.directories[bin.root]) \notin 1..MaxEntries

ReadPeDirectories ==
  /\ BinReading("pe")
  /\ binAt = <<>>
  /\ IF PeBroken
       THEN BinEnd(<<>>, {}, {"pe"})
       ELSE /\ binAt' = [found |-> IF bin.root = "none" THEN NoResources ELSE ReadDirectory(NoResources, bin.root),
                         resource |-> 1, read |-> 0, fields |-> <<>>]
            /\ UNCHANGED <<bin, binFound>>

PeFieldsRead == BinReading("pe") /\ binAt # <<>>
Resource == binAt.found.resources[binAt.resource]

\* parseVersionResourceSection, string by string, up to the length that the table
\* has by its header; what is torn off ends it.
ReadPeString ==
  /\ PeFieldsRead
  /\ binAt.resource <= Len(binAt.found.resources)
  /\ Resource.is = "version" /\ binAt.read < Resource.claims /\ binAt.read < Len(Resource.strings)
  /\ binAt' = [binAt EXCEPT !.read = @ + 1,
                            !.fields = (Resource.strings[binAt.read + 1][1] :> Resource.strings[binAt.read + 1][2]) @@ @]
  /\ UNCHANGED <<bin, binFound>>

FieldOf(fields, name) == IF name \in DOMAIN fields THEN fields[name] ELSE ""

\* Past the strings there is nothing to read, but the length says there is: as
\* nothing is read, nothing is counted, and the loop never ends.
StringsNeverEnd ==
  /\ PeFieldsRead /\ binAt.resource <= Len(binAt.found.resources)
  /\ Resource.is = "version" /\ binAt.read = Len(Resource.strings)
  /\ binAt.read < Resource.claims /\ ~Resource.torn

\* The file version is derived from the fixed information.
EndPeResource ==
  /\ PeFieldsRead
  /\ binAt.resource <= Len(binAt.found.resources)
  /\ \/ Resource.is # "version"
     \/ binAt.read = Resource.claims
     \/ binAt.read = Len(Resource.strings) /\ Resource.torn
  /\ binAt' = [binAt EXCEPT !.resource = @ + 1, !.read = 0,
                 !.fields = IF Resource.is = "version" /\ FieldOf(@, "FileVersion") = ""
                              THEN ("FileVersion" :> Resource.fixed) @@ @ ELSE @]
  /\ UNCHANGED <<bin, binFound>>

\* HasEvidenceOfCLR
HasClr == (bin.clr[1] # 0 /\ bin.clr[2] # 0) \/ "CLRDEBUGINFO" \in binAt.found.names

\* isMicrosoftVR
OfMicrosoft(fields) == "microsoft" \in {FieldOf(fields, "CompanyName"), FieldOf(fields, "ProductName")}

\* findNameFromVR
PeName(fields) ==
  LET order == IF OfMicrosoft(fields)
                 THEN <<"FileDescription", "InternalName", "OriginalFilename", "ProductName">>
                 ELSE <<"ProductName", "FileDescription", "InternalName", "OriginalFilename">>
      first == EarliestAt(order, {n \in DOMAIN order : FieldOf(fields, order[n]) # ""}, "")
  IN  IF first = "" THEN bin.loc ELSE FieldOf(fields, first)

\* findVersionFromVR
PeVersion(fields) ==
  IF FieldOf(fields, "ProductVersion") # "" THEN FieldOf(fields, "ProductVersion") ELSE FieldOf(fields, "FileVersion")

\* newPEPackage
PePackage(fields) ==
  [name |-> PeName(fields), version |-> PeVersion(fields),
   purl |-> IF PeVersion(fields) # ""
               /\ "ghostscript" = (IF FieldOf(fields, "ProductName") # "" THEN FieldOf(fields, "ProductName")
                                   ELSE FieldOf(fields, "FileDescription"))
            THEN <<"generic", "ghostscript", PeVersion(fields)>> ELSE <<>>]

\* readDepsJSONFromBundleHeader, findDepsJSONInManifest: by the header from version 2
\* on, else the first document of the manifest.
BundledDocument(b) ==
  IF b.offset = 0 THEN ""
  ELSE IF b.major >= 2 /\ b.direct # "" THEN b.direct
  ELSE EarliestAt(b.manifest, {n \in DOMAIN b.manifest : b.manifest[n].is = "deps" /\ b.manifest[n].size > 0},
               [is |-> "none", size |-> 0, holds |-> ""]).holds

\* Read and parsePE: what runs on the CLR is left to other catalogers.
EndPe ==
  /\ PeFieldsRead
  /\ binAt.resource > Len(binAt.found.resources)
  /\ IF bin.bundle.broken THEN BinEnd(<<>>, {}, {"pe"})
     ELSE BinEnd(IF HasClr THEN <<>> ELSE <<PePackage(binAt.fields)>>,
                 {<<bin.loc, d>> : d \in {BundledDocument(bin.bundle)} \ {""}}, {})

-----------------------------------------------------------------------------
(* JVMs.                                                                   *)

\* jvmPackageVersion: the full version only if it is of the same major version.
JvmVersion(r) ==
  IF r.runtime.text # "" THEN r.runtime
  ELSE IF r.full.text # "" /\ r.full.major = r.java.major THEN r.full ELSE r.java

\* jvmProjectByType
ProjectByType(ty) == IF ty = "jre" THEN "jre" ELSE "jdk"

JdkOrJre(r) == IF bin.hasJdk \/ ProjectByType(r.imageType) = "jdk" THEN "jdk" ELSE "jre"

\* jvmPrimaryVendorProduct
VendorProduct(r) ==
  IF r.implementor = "azul" \/ bin.path = "zulu" THEN <<"azul", "zulu">>
  ELSE IF r.implementor = "sun" THEN <<"sun", JdkOrJre(r)>>
  ELSE IF r.implementor = "ibm" \/ bin.path = "ibm" THEN <<"ibm", IF bin.hasJdk THEN "java_sdk" ELSE "java">>
  ELSE IF r.implementor = "oracle" \/ bin.path = "oracle" \/ r.commercial THEN <<"oracle", JdkOrJre(r)>>
  ELSE <<"oracle", "openjdk">>

\* newEnterpriseCandidate
EnterpriseProducts(r) ==
  IF bin.hasJdk \/ ProjectByType(r.imageType) = "jdk" THEN {"jre", "jdk"} ELSE {"jre"}

\* jvmCpes
JvmCandidates(r, vendor, product) ==
  IF vendor = "azul" THEN {<<"azul", "zulu">>, <<"oracle", "openjdk">>}
  ELSE IF vendor = "sun" THEN {<<"sun", x>> : x \in EnterpriseProducts(r)}
  ELSE IF vendor = "oracle" /\ product # "openjdk"
       THEN {<<"oracle", "java_se">>} \cup {<<"oracle", x>> : x \in EnterpriseProducts(r)}
  ELSE {<<vendor, product>>}

\* getJVMVersionAndUpdate, newJvmCpe
ShortVersion(v) ==
  CASE v.style = "legacy" -> <<v.short, v.update>> [] v.style = "jep223" -> <<v.short, "">> [] OTHER -> <<v.text, "">>

\* parseJVMRelease: without a version of Java it is no JVM.
ReadJvmRelease ==
  /\ BinReading("jvm")
  /\ LET r == bin.release
         vp == VendorProduct(r)
     IN  IF r.runtime.text = "" /\ r.java.text = "" THEN BinEnd(<<>>, {}, {})
         ELSE BinEnd(<<[name |-> vp[2], vendor |-> vp[1], version |-> JvmVersion(r),
                        cpes |-> IF ShortVersion(JvmVersion(r))[1] = "" THEN {}
                                 ELSE {c \o ShortVersion(JvmVersion(r)) : c \in JvmCandidates(r, vp[1], vp[2])}]>>,
                     {}, {})

-----------------------------------------------------------------------------
(* Properties.                                                             *)

\* What classifiers find in one binary is one package, whichever of them found it
\* and in whatever order: its evidence is that of all that found it, and no
\* classifier loses its packages but by a file that is reported
\* (classifier_cataloger.go:68, 101).
SoundClassifiers ==
  {c \in ToSet(bin.classifiers) : ErrorsOf(c, Outcomes(c)) = {}}

Identity(p) == <<p.name, p.version, p.type>>

ClassifiersAgree ==
  LET all == UNION {ToSet(FoundIn(Outcomes(c))) : c \in SoundClassifiers}
      found == binFound.packages
  IN  /\ {Identity(found[n]) : n \in DOMAIN found} = {Identity(p) : p \in all}
      /\ \A m, n \in DOMAIN found : Identity(found[m]) = Identity(found[n]) => m = n
      /\ \A n \in DOMAIN found :
           LET alike == {p \in all : Identity(p) = Identity(found[n])}
           IN  /\ DOMAIN found[n].evidence = UNION {DOMAIN p.evidence : p \in alike}
               /\ \A l \in DOMAIN found[n].evidence :
                    \E p \in alike : l \in DOMAIN p.evidence /\ p.evidence[l] = found[n].evidence[l]
      /\ {e[1] : e \in binFound.errors} = {c.class : c \in ToSet(bin.classifiers) \ SoundClassifiers}

\* Every file with a note of a name and a version is in one package, with that name
\* and that version; every other file is reported or has no note
\* (elf_package_cataloger.go:58).
NotesGrouped ==
  \A f \in ToSet(bin.files) :
    LET at == {n \in DOMAIN binFound.packages : f.loc \in binFound.packages[n].locations}
    IN  CASE NoteOf(f) = "note" ->
               /\ Cardinality(at) = 1
               /\ \A n \in at : /\ binFound.packages[n].name = f.note.name
                                 /\ binFound.packages[n].version = f.note.version
          [] NoteOf(f) = "error" -> at = {} /\ f.loc \in binFound.errors
          [] OTHER -> at = {} /\ f.loc \notin binFound.errors

\* A file of a format that is known is noted although something of it cannot be read,
\* and then that is reported; a file that was reported imports nothing
\* (executable/cataloger.go:55, 155).
ExecutablesNoted ==
  LET noted == ToSet(binFound.packages)
  IN  /\ {e.loc : e \in noted} =
           {f.loc : f \in {f \in ToSet(bin.files) : f.readable /\ ~f.short /\ f.is # "text"}}
      /\ \A f \in ToSet(bin.files) : ~f.readable \/ f.short => f.loc \in binFound.errors
      /\ \A e \in noted : e.loc \in binFound.errors => e.features.imports = {}
      /\ \A e \in noted : \A f \in ToSet(bin.files) :
           f.loc = e.loc /\ f.is # "macho" /\ e.loc \notin binFound.errors
             => e.features.imports = f.imports[1]

\* Every extension depends on every interpreter, and one that cannot be read is
\* reported (interpreter_cataloger.go:111).
PhpLinked ==
  LET named(n) == {p \in ToSet(binFound.packages) : (p.matches[1][1] = "php-ext") = n}
  IN  /\ binFound.edges = named(TRUE) \X named(FALSE)
      /\ \A n \in DOMAIN bin.extensions :
           \/ <<"php-ext", bin.extensions[n]>> \in binFound.errors
           \/ \E p \in named(TRUE) : bin.extensions[n] \in DOMAIN p.evidence
           \/ "extension" \in DOMAIN BinFile(bin.extensions[n]).captures
                => VersionCaptured(BinFile(bin.extensions[n]).captures["extension"]) = <<>>

\* An image whose names are all there, once, and lead to its SBOM, gives its packages;
\* one whose names lead elsewhere gives none, whatever the widths of its addresses
\* (graalvm_native_image_cataloger.go:96).
LeadsToSbom(image, sbom, length) ==
  LET data == image.data[1]
  IN  /\ image.data # <<>>
      /\ sbom - data.base = data.sbomAt /\ length - data.base = data.lengthAt
      /\ data.sbomAt + data.length <= data.size /\ data.lengthAt + 1 <= data.size
      /\ data.sbomAt + data.length < Word /\ data.lengthAt + 1 < Word

Once(symbols, name) == {s.value : s \in {s \in ToSet(symbols) : s.name = name}}

SymbolsLead(image, symbols) ==
  /\ \A name \in {"sbom", "sbom_length", "svm_version"} :
       Cardinality(Once(symbols, name)) = 1 /\ 0 \notin Once(symbols, name)
  /\ LeadsToSbom(image, CHOOSE v \in Once(symbols, "sbom") : TRUE,
                  CHOOSE v \in Once(symbols, "sbom_length") : TRUE)

\* But for a name that is the first of all, and for a table that ends with the exports.
ExportsLead(image) ==
  LET at(name) == {n \in DOMAIN image.names : image.names[n] = name}
  IN  /\ ~image.tight /\ at("bad") = {}
      /\ \A name \in {"sbom", "sbom_length", "svm_version"} : Cardinality(at(name)) = 1 /\ 1 \notin at(name)
      /\ LeadsToSbom(image, image.pointers[CHOOSE n \in at("sbom") : TRUE],
                            image.pointers[CHOOSE n \in at("sbom_length") : TRUE])

ImageRead(image, loc) ==
  {[name |-> n, loc |-> loc] : n \in image.packages} \subseteq ToSet(binFound.packages)

NativeImagesRead ==
  binFound.errors = {} =>
    \A f \in ToSet(bin.files) : f.readable =>
      \A n \in DOMAIN f.images :
        /\ f.images[n].is = "elf" /\ SymbolsLead(f.images[n], ElfSymbols(f.images[n]))
             => ImageRead(f.images[n], f.loc)
        /\ f.images[n].is = "macho" /\ SymbolsLead(f.images[n], f.images[n].symbols)
             => ImageRead(f.images[n], f.loc)
        /\ f.images[n].is = "pe" /\ ExportsLead(f.images[n]) => ImageRead(f.images[n], f.loc)
        /\ f.images[n].data = <<>> => ~ImageRead(f.images[n], f.loc)

\* What can be reached from the root of a PE's resources through directories of an
\* allowed size is read, and read once, but for what the root is on the way of; so
\* nothing that runs on the CLR, by its resources, is a package here
\* (pe.go:391, 447).
RECURSIVE ReachedFrom(_)
ReachedFrom(dirs) ==
  LET usable == {d \in dirs : DirectoryEntries(bin.directories[d]) \in 1..MaxEntries}
      next == dirs \cup {e.dir : e \in {e \in UNION {ToSet(bin.directories[d].entries) : d \in usable} : e.is = "dir"}}
  IN  IF next = dirs THEN usable ELSE ReachedFrom(next)

PeResourcesRead ==
  (bin.root # "none" /\ binAt # <<>>) =>
    LET dirs == ReachedFrom({bin.root})
        entries == UNION {ToSet(bin.directories[d].entries) : d \in dirs}
        resources == {e.resource : e \in {e \in entries : e.is = "data"}}
    IN  /\ ToSet(binAt.found.resources) = resources
        /\ binAt.found.names = {e.name : e \in entries} \ {""}
        /\ \A d \in dirs \ {bin.root} : d \in binAt.found.dirs
        /\ \A r \in resources :
             Cardinality({n \in DOMAIN binAt.found.resources : binAt.found.resources[n] = r})
               <= IF bin.root \in binAt.found.dirs THEN 2 ELSE 1

\* A document is looked for where the header says, and in the manifest where it says
\* nothing (bundle.go:120).
DocumentsFound ==
  binFound.errors = {} =>
    LET b == bin.bundle
        holding == {f.holds : f \in {f \in ToSet(b.manifest) : f.is = "deps" /\ f.size > 0}}
    IN  /\ {e[2] : e \in binFound.edges} \subseteq holding \cup ({b.direct} \ {""})
        /\ b.offset # 0 /\ (holding # {} \/ (b.major >= 2 /\ b.direct # "")) => binFound.edges # {}

\* The name a JVM has is one that its CPEs have, of its version
\* (parse_jvm_release.go:162, 191).
JvmsNamed ==
  \A n \in DOMAIN binFound.packages :
    LET p == binFound.packages[n]
    IN  p.cpes # {} => \E c \in p.cpes : c[1] = p.vendor /\ c[2] = p.name /\ c[3] \in {p.version.text, p.version.short}

\* What is read of executables is complete, and of each once.
BinariesRead ==
  /\ bin.kind = "pe" => PeResourcesRead
  /\ binFound.status = "read" =>
       /\ bin.kind = "classifiers" => ClassifiersAgree
       /\ bin.kind = "elf notes" => NotesGrouped
       /\ bin.kind = "executables" => ExecutablesNoted
       /\ bin.kind = "php" => PhpLinked
       /\ bin.kind = "native images" => NativeImagesRead
       /\ bin.kind = "pe" => DocumentsFound
       /\ bin.kind = "jvm" => JvmsNamed

-----------------------------------------------------------------------------
BinInit ==
  /\ bin \in Binaries
  /\ binAt = IF bin.kind = "classifiers" THEN 1 ELSE <<>>
  /\ binFound = NoBinaries

BinNext ==
  \/ Classify \/ EndClassifiers
  \/ CatalogPhp
  \/ CatalogNotes
  \/ CatalogExecutables
  \/ CatalogNativeImages
  \/ ReadPeDirectories \/ ReadPeString \/ EndPeResource \/ EndPe
  \/ ReadJvmRelease
=============================================================================
