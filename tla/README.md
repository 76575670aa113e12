# A TLA+ model of syft

syft scans an image, a directory, a file or a snap and writes an SBOM: packages,
files, relationships between them, and the files nobody understood ("unknowns").
This directory holds TLA+ modules of the program, from the request of a user to the
documents it writes, TLC configurations that check them on small instances, and
proofs, checked by TLAPS, of what holds for every instance.

Line numbers refer to the sources of the repository at the commit the project
stands beside. `PROJECT.json` maps every definition that models code to its lines.

Contents: [inventory](#1-inventory), [what is hard](#2-what-is-hard-to-test),
[modules](#3-the-modules), [runs](#4-the-runs), [where the code differs from its
documentation](#5-where-the-code-and-its-documentation-part), [proofs](#6-the-proofs),
[what is not modelled](#7-what-is-not-modelled), [plan](#8-the-plan).

## 1. Inventory

How a scan goes. The command opens its report files, turns the input into a *source*
(`GetSource`), and calls `CreateSBOM` (`syft/create_sbom.go`), which selects the
catalogers, asks its configuration for *task groups* (`makeTaskGroups`), makes a temp
dir and an *SBOM builder*, and runs the groups one after the other, the tasks of a
group concurrently on a bounded executor, each inside `RunTask`. A cataloger asks the
*resolver* of the source for files, parses them, on an executor of its own, and
returns packages and relationships; compliance rules are applied to those, and the
task hands them to the builder, which is a read-write lock around the SBOM. Later
groups remove, relate and label what was found. The SBOM is then encoded, and maybe
decoded and converted again.

| component | state | operations | what makes it correct | module |
|---|---|---|---|---|
| selection: `selection.go`, `create_sbom_config.go` | the lists of the request, Go slices shared by scans | select, remove, add, replace "default" | the same request selects the same tasks in every scan | `TaskSelection` |
| scheduler: `CreateSBOM`, `RunTask` | group, progress of each task, counters, unknowns | start, end, file errors, next group, return | groups are barriers; no error or unknown is lost; it returns | `TaskGroups` |
| plan and tasks: `internal/task` | what a task carries between two locks | catalog, digest, squash, relate, label | later groups see the whole of earlier ones; nothing dangles | `SbomAssembly` |
| builder: `sbomBuilder` | the SBOM and a read-write lock | six methods under the lock | one call is one step | `SbomBuilder`, `CollectionReaders` |
| package collection: `pkg.Collection` | packages by ID, three indexes, a lock | add or merge, delete, enumerate, query | the indexes say what the map says; nobody waits for ever | `PackageCollection`, `CollectionReaders` |
| relationship index | list, tables by source and target | add, remove, replace | list and tables agree | `RelationshipIndex`, `IndexCalls` |
| compliance | dropped packages, replacements | filter, drop, stub, rewire | relationships mention packages of the result | `Compliance` |
| deep-squashed cleaner | keys seen, packages to remove | examine, delete | duplicates go, evidence does not | `DeepSquash` |
| temp dir | root directory, made or cleaned once | child, file, cleanup | nothing made is left behind | `TempDirLife` |
| unknown errors | none | join, wrap, split | no coordinate error is lost or moved | `GenericCataloger` |
| cache | files on disk with an age | read, resolve, write | a read is a value once written, or a miss | `CacheEntries` |
| directory indexer | roots to do, paths found | index a tree, follow links out of it | each path once; it ends | `DirectoryIndex` |
| resolvers of directories, files and images | a file tree, exclusions | by path, glob, type, relative path; all locations | the queries agree with each other and with the disk | `DirectoryResolvers`, `ImageResolvers`, `LocationStreams` |
| generic cataloger | an accumulator, slots | parse files in parallel, process | every file's packages and errors, once; it ends | `GenericCataloger` |
| catalogers of ecosystems | what is read so far of a file | parse | what the file says, with its relationships | see section 3 |
| Maven resolver | poms known by ID | parents, imports, properties | resolution ends, and says what Maven would | `MavenResolver`, `PomCataloger` |
| Java archives | parent packages | descend | parents and relationships of nested archives | `JavaArchive` |
| binaries | sections, patterns | classify, read notes and resources | what is there, for every size and offset | `BinaryPackages` |
| formats | none | encode, decode | a conversion keeps what both formats can say | `FormatConversion` |
| sources | what was unpacked | open, resolve, close | one that serves is found; what was unpacked goes | `Sources` |
| scan command | writers, a report held back | open, scan, write, close | one bad output does not cost the others | `ScanCommand` |
| attest command | a pipe, a reader, a subprocess | run, read, close | nobody waits for ever | `AttestCommand` |
| event bus, monitors | - | publish progress | - | not modelled |

## 2. What is hard to test

`PROJECT.json` lists the hazards line by line with the properties that watch over
them. In short:

* **interleaving**: tasks of a group share the SBOM through locks that are taken
  once per call, so every task is a sequence of small transactions; packages and
  what relates them arrive in two of them. Processes share cache files with no lock
  at all, a temp dir may be cleaned while it is created, goroutines hand
  locations on until a receiver stops.
* **order without a promise**: overlap edges come out of a Go map, `Enumerate` goes
  by a Go map, catalogers end in any order. The exclusion of binaries, the
  deep-squashed cleaner, the Maven resolver's memory and several lock files take
  decisions in such an order.
* **state read before a write and used after it**: the relationships task reads
  under one lock and writes under the next; a pom's package gets its licenses after
  others referred to its ID; whether a .NET package has a DLL is asked before DLLs are
  attached.
* **hand-kept redundancy**: three indexes of the collection, two tables of the
  relationship index, three views of one image.
* **locks and pipes**: `Enumerate` holds a read lock while its receiver works and takes
  it again for each package; executors within executors; an attestation whose
  subprocess blocks on a pipe.
* **failure**: a task or a parser returns an error, coordinate errors or panics while
  others run on; one of several reports, providers, archives, classifiers or lines of
  a database fails.
* **cycles**: links in directories and images, poms that are their own parents or
  import themselves.
* **boundaries**: tables of sizes and offsets in binaries, counted in 16 bits and cut off
  at the end of the file.

## 3. The modules

```
TaskSelection       which catalogers run               Scan_proofs
RelationshipIndex   operators: the index as a value, its operations as functions
  IndexCalls        any sequence of calls              PackageRules_proofs
  Compliance        applyCompliance on INSTANCE RelationshipIndex
                                                       PackageRules_proofs
TaskGroups          CreateSBOM and RunTask             TaskGroups_proofs
SbomBuilder         operators: the SBOM and the builder's methods
  SbomAssembly      all tasks of a scan: EXTENDS SbomBuilder,
                    INSTANCE TaskGroups as its scheduler
                                                       SbomAssembly_proofs
PackageMap          what a collection promises (abstract)
PackageCollection   the collection and its indexes, refines PackageMap
                                                       PackageCollection_proofs
CollectionReaders   the two read-write locks and Enumerate
                                                       Streaming_proofs
DeepSquash          the scope task                     PackageRules_proofs

Sources, ScanCommand, AttestCommand                    what commands do
                                                       Scan_proofs
DirectoryIndex, DirectoryResolvers, ImageResolvers,
LocationStreams                                        what is seen of a source
CacheEntries, TempDirLife                              what is on disk
                                                       OnDisk_proofs

GenericCataloger    catalogers that run in parallel, and errors as trees
                                                       Catalogers_proofs
MavenResolver       operators: what a pom inherits
  PomCataloger      packages of poms
JavaArchive, JavascriptLocks, PythonPackages, OsDatabases,
DotnetDeps, BinaryPackages                             one step per file or line
OtherLocks, GoModules                                  the same, with proofs
                                                       Catalogers_proofs
FormatConversion    encoders and decoders              Catalogers_proofs

MCPackages          IndexCalls, Compliance, DeepSquash, PackageCollection
MCFiles             commands, sources, views, streams, disk
MCCatalogers        selection, generic cataloger, Maven, archives, formats,
  MCEcosystems      and the files of ecosystems
```

Modules whose name begins with `MC` give constants their values for TLC. Three of them also put
components side by side which share nothing, so that one run checks them all: a variable
`turn` says which of them moves, what has no turn stands still (`Still...`) in a state
in which it could begin, and a property of a component is about the
behaviours in which it has its turn. Components that do interact are composed by
what they share instead: `SbomAssembly` with the scheduler, `PomCataloger` with
its resolver.

A definition that a comment calls a *slip* is not part of a specification: it is a
plausible mistake in the definition that follows it, kept to show that the properties
notice.

### The scan

**TaskSelection.** The lists of a request are slices: memory and a length. A scan that
replaces "default" may write behind the end of the list it was given, and a second scan
of the same configuration reads it (`SelectionRepeats`).

**RelationshipIndex, IndexCalls.** `index.all` is the list, `fromID` and `toID` the
tables; `Add`, `RemoveEnd`, `Replace` are the methods, `RewireOutgoing` and `RewireIncoming`
the two loops of `Replace`. To-lists are bags because `Add` looks for duplicates only
in the from-table, so a to-list can repeat a relationship; a from-list and the list
cannot, which is itself a theorem (`AllIndexed`). `RemoveEnd` leaves the entry of the
other endpoint alone, as the code does; a later `Add` of what was removed with its
target is therefore skipped as a duplicate, and `ExactForUntouched` says how far that
reaches. `removed` is a history variable.

**Compliance.** One cataloger result through `applyCompliance`, one loop turn per step.
A package's ID is its content, so stubbing changes it (`HashedID`). `Init` chooses the
rules, the packages (with blank or given name and version) and the relationships.
`RulesRespected` relates the result to what was given.

**TaskGroups.** `status[t]` is how far `RunTask` has come: `waiting`, `running` (in
`Execute`), `executed` (errors are being split), `reported` (unknowns are filed),
`done` (slot given back). What a task does is open: it may touch the temp dir and
end with any errors. `LabelUnknowns` is there because the unknowns labeler edits what
`AppendUnknowns` writes. `NextGroup`, `FailGroup`, `Complete` and `Return` are the loop
and the deferred cleanup.

**SbomBuilder, SbomAssembly.** `SbomAssembly` gives each task of the plan its steps
between two locks (`step[t]`, and the value carried to the next step in `local[t]`)
and leaves starting, ending, errors and groups to the instance `Sched` of
`TaskGroups`; the property `Scheduled` says that the composition is a behaviour of that
module, fairness included. Package tasks report any subset of what they may find, of which compliance
keeps any; the relationships of what it dropped are handed over with the others. They
may panic or return errors afterwards. Of the files that are selected the digest cataloger passes over those that are
not `Regular`, and returns an error about each it cannot read (at most `MaxErrors` of those in `Suspect`), while the digests
of the others are stored. Files outside of `Ownable` are nobody's overlap. With `Hidden` the scope task may remove
any of the hidden packages (which ones is the subject of `DeepSquash`). The loop that
excludes binaries takes the overlap edges in any order.

**PackageMap, PackageCollection.** `AddPackage`, `PackagesByName` and `PackagesByPath` run
under the lock from begin to end and are one step. `Delete` goes ID by ID and `Enumerate`
type by type; `deleting` and `enumerating` are the lock, and let readers in beside an
enumeration. The refinement mapping is the identity: `PackageMap` has the map, the
paths and the latest query with its answer, and not the indexes.

**CollectionReaders.** Writers and readers of the collection with both locks, in the
steps of Go's `RWMutex`: a writer first shuts out new readers (`Announce`), then waits
for the old ones (`Acquire`). `walker[r]` is the goroutine behind `Enumerate`, which
meets its receiver on an unbuffered channel. The unknowns labeler enumerates while it
holds the builder as a writer.

**DeepSquash.** One step per package enumerated. `Upcoming` is all that Go promises about
the order: the packages of a type come together. The code keeps a type's packages
in the order they were added, which is any order too.

### Files and processes

**Sources.** An input is what the providers can make of it. Providers are asked in
order, one that fails leaves its error; sources hand out resolvers and remember what
they unpacked. Image providers are those of stereoscope.

**ScanCommand, AttestCommand.** The first opens writers before the input is resolved and
has the report for the screen held back until the user interface is gone. The second is
the command, cosign, the pipe and its reader: `NobodyWaits` says that with a user
interface and lines a scanner takes, all of them end.

**CacheEntries.** Processes that truncate, write in chunks, and may be killed at any
step. `AnswersWhole` says that who reads gets nothing but a whole answer although
nothing is locked. It rests on the assumption that the model states: a key names something
immutable, so that there is one long answer.

**TempDirLife.** The root that is created under a `sync.Once` and read by `Cleanup`
without it. `FilesGone` says exactly what may be left behind.

**DirectoryIndex, DirectoryResolvers, ImageResolvers, LocationStreams.** The indexer is
the worklist of roots with the links that lead out of them: `FoundOnce` says that what is below the scanned root, and
below what links lead to, is indexed, under its real path only. The two resolver modules
have, besides the query each action asks, a reference definition of what is there
(the disk, the squashed file tree), and `PathsAgree` and `ViewsAgree` relate one to
the other. The file tree of stereoscope is external: a search goes name by name, and after each number of links
followed so far it is a function of where links led with one fewer. What is visible is the same in all three views
of an image, except that a file goes with the path on which the squashed view found it first (`Barred`). `LocationStreams` has the goroutines of
`AllLocations`, up to four in a row.

### Catalogers

Readers of files are deterministic and sequential; each is a module of operators with
one action that reads one file. What can go wrong in them is state carried through a
loop: a line that is about the package before it, a table keyed by a name that is not
unique, an order of a map. So their properties define what the file says
without the loop, mostly with quantifiers over all entries, and compare.

**GenericCataloger.** The catalogers of a group with their two executors. The processor
that finds dependencies is there, as the one that looks at all packages at once. Errors
are trees: errors about a place, errors that wrap another and errors that join
several. `New`, `Flatten`, `Join`, `Places` and `Remaining` are functions of package
`unknown`; what the code does by recursion goes down a tree level by level, to
a depth of `MaxNesting`.

**MavenResolver, PomCataloger.** `known` is what the resolver remembers; each lookup
returns it changed. A parent named by a relative path is accepted when its artifact ID
fits and is remembered under the ID that was asked for, so the order of the files matters;
`PomsCataloged` is about what does not depend on it. Group IDs, literal coordinates of
poms and the repositories one by one are abstracted, and so is where a dependency that
several poms name is located (in the first of them).

**JavaArchive.** Archives three deep, with poms of their own and of what is shaded into
them. An archive within that has an error loses its own packages, and the error is
only logged; an archive between two others that has no manifest leaves `Parent` set
without a relationship.

**JavascriptLocks, PythonPackages**: lock files, requirements, and what is installed; an error about one installed
package leaves all without relationships (`dependency.go:201-203`), and one `pyvenv.cfg` that cannot be read leaves no
package at all (220-223). **OsDatabases**: dpkg and
apk line by line, the others entry by entry. The three are `ListingsRead`. **OtherLocks**: a dozen other kinds
of lock files; `LocksRead`. **DotnetDeps**: `DotnetRead`, a part of `ExecutablesRead`.
**GoModules**: go.mod and the packages of the go tool, builds, the search for licenses; `GoRead`.
What holds of links between modules holds of a module that is the only one of its path and not replaced
(`Sole`): dependencies are asked for by another path than they are kept under. **BinaryPackages**: classifiers, ELF notes, PE resources, native
images, PHP, JVMs, executables; `BinariesRead`, the other part. In all of them file formats that a
library decodes are the decoded value.

**FormatConversion.** An identifier is what it is made of, so that one that is built on
another in every round can be seen to grow; up to three conversions in a row between syft
JSON, SPDX and CycloneDX. `ConversionsKeep` says which packages, files and relationships
come through.

## 4. The runs

| run | bounds | shows |
|---|---|---|
| `task_groups` | 4 tasks in groups 1, 2, 2, 4 of 4, 2 slots, up to 2 errors each | `InOrder`, `ResultJustified`, `UnknownsExact`, `TempDirScoped`, `Returns` |
| `sbom_assembly` | 2 catalogers, 4 packages, 3 files of which two are regular, everything on, 2 slots | `NothingNewDangles`, `SourceAndEvidence`, `OwnedFilesDigested`, `NothingReplaceable`, `UnknownsReconciled`, `AuthoritySurvives`, `Scheduled` |
| `sbom_all_files` | the same image with the JVM and the ELF package only (`FewFinds`), file tasks beside package tasks | `UnknownsReconciled` |
| `packages` | 3 identities and 5 calls of the index; 3 packages, 1 file, up to 3 relationships under all rules; 3 packages at 5 kinds of locations; a collection of 3 packages, 2 names, 2 types | `ExactForUntouched`, `RulesRespected`, `EvidenceStays`, `IndexesExact`, `IsMap` |
| `files` | see below | `SourcesServe`, `OutputsServed`, `NobodyWaits`, `FoundOnce`, `PathsAgree`, `ViewsAgree`, `EachOnce`, `CatalogersReturn`, `SeesOneState`, `AnswersWhole`, `BrokenIsResolvedAgain`, `FilesGone` |
| `catalogers` | see below | `SelectionRepeats`, `ResultsComplete`, `CatalogersEnd`, `PomsCataloged`, `ArchivesNest`, `ListingsRead`, `LocksRead`, `GoRead`, `ExecutablesRead`, `ConversionsKeep` |

Six more runs, each with one property, are in section 5. Every property of the
table comes with a mutant in `PROJECT.json`: a slip in one definition that makes TLC
find it violated.

*Why these bounds are enough to be interesting.* Damage in the index needs a removal,
something filed under the other end, and a call that trusts it: three identities
and three calls; five leave room for a chain. Compliance needs a chain of two
stubbed packages and a bystander. The scheduler needs two tasks in one group, a
group before, one after, and an empty one; two errors of one task about one
coordinate are what duplicates are made of. The image of `MCSbomAssembly` has an OS
package that owns a file of a JVM, a JVM that owns the file of a classified binary,
and an ELF package at a file of the JVM, so that each rule of exclusion has a
victim that is itself the authority for another one. The collection needs two
packages that share a name and two that share a type; one path, at which a package is
found or not, is enough for its path index, and the theorem covers any number.

In `files`: two readers and a writer between them deadlock an unprotected `Enumerate`;
the third of each kind brings the labeler and a task that deletes. Two processes and
three reads of an entry are a reader in the middle of a writer's entry. Four links in
every combination of targets lead out, back, in circles and to each other. Images of two layers have what
the upper hides, replaces and links to; one path of two that are asked for together, or both ends of a link, may be excluded. 49 disks with two links, each with four pairs of a root and
a base. Five locations of which two are not in the squashed view fill every channel
of the streams. 31 inputs by 29 demands are all combinations of kind, platform, exclusion
and failure that a provider tells apart. In `catalogers`: requests with lists of three in
memory of four, since only a list with room is written behind; three tasks on two
slots; poms whose parents, imports and properties form circles of one to three; archives
three deep; two to five packages per lock file, database, application or binary, which is what a
name with two versions, a dependency and its dependent, and a bystander need.
`Word = 16` in `BinaryPackages` is the value at which counters wrap, in place of 2^16.

*Bounds named in the modules:* `MaxOps`, `MaxRels`, `MaxErrors`, `MaxIDs`, `MaxLinks`, `MaxHops`,
`MaxCalls`, `MaxAsks`, `MaxConversions`, `MaxDepth`, `MaxNesting`; `MaxEntries` and `FollowLimit` are limits of the code made small;
the rest are the sizes of constant sets.

*Deadlock.* All runs stop by design, when calls are used up or a file is read, and do
not check it. That components do not stop before is `Returns`, `Scheduled`
(which includes the scheduler's fairness), `NobodyWaits`, `CatalogersReturn`, `CatalogersEnd`.

*Fairness.* `TaskGroups` assumes weak fairness of each task's steps and of the loop:
goroutines that can go on do, and every cataloger returns some time or panics; a cataloger
that hangs hangs the scan. The temp dir may never be used. `SbomAssembly` assumes weak
fairness of its next-state relation only, which suffices because a scan is finite.
`CollectionReaders`, `LocationStreams` and `GenericCataloger` assume weak fairness of goroutines
and none of a lock: `RWMutex` promises no more to readers while a writer waits, and
each task acquires finitely often. `AttestCommand` assumes it of the command, cosign and the
reader; `CacheEntries` of processes that are not killed. `DirectoryIndex` is sequential code.
The readers of files take one step.

## 5. Where the code and its documentation part

Each is a run of its own in which TLC finds the quoted sentence violated.

* `compliance_dropped_is_gone`: "the package should be dropped due to missing name
  (drop action) and its version should be stubbed"
  (`package_task_factory_test.go:280`). It is dropped from the packages; but its
  relationships are removed under its new ID, and then the replacement moves those
  of the old ID to the new one. With the default rules a package with neither name nor version
  leaves relationships to a package the SBOM does not hold. (In `SbomAssembly` compliance
  keeps any of the packages, and relationships of the others are handed over all the same;
  `NothingNewDangles` says that there is no other way for them to come in. That
  catalogers themselves relate packages they do not report, as `ReferencesAreCataloged` below, is not part of it.)
* `compliance_incoming_survive`: a test expects the target of an incoming
  relationship to be replaced (`index_test.go:370`). The second loop of `Replace`
  looks up `To`, the replaced package itself, where it means `From`; unless that package
  is the source of something, what pointed at it is lost.
* `errors_kept`: `New` returns the reason "in which case reason" is a coordinate error
  itself (`coordinate_error.go:32-33`). It looks anywhere inside (39), so of several errors joined
  only the first about coordinates is kept.
* `directory_never_stops`: "a root that does not exist is not an error case that should
  stop indexing" (`directory_indexer.go:113-114`). A link to a path through a loop of
  links, or through a file, does (129).
* `streams_leak`: "not leak a goroutine" (`container_image_deep_squash.go:202`). The
  goroutine looks at the context, then sends unconditionally (209).
* `dotnet_evidence`: propagation applies to "evidence-on-disk configurations" too
  (`dotnet/config.go:13`). Whether a child has a DLL is computed before
  executables are attached (`deps_json.go:256`).

What follows was found on the way. Each is stated by a definition in the module
that is named, which TLC refutes, and is left out of the properties that hold.

| definition | says | code |
|---|---|---|
| `NoElderID` (Compliance) | a stale relationship is discarded | two stubbed packages that depend on each other bring an old ID back, `index.go:82` |
| `BinaryDependenciesUnique` (SbomAssembly) | "each relationship must be unique", `binary_dependencies.go:18` | added twice, `relationship_tasks.go:60-63` |
| `ReadingNeverFails` (CacheEntries) | a cached answer can be read | half an entry is an error, `maven/resolver.go:450` |
| `CallersDirectoryStays` (TempDirLife) | Cleanup leaves the caller's directory, `tmpdir.go:21-22` | removed, 111-121 |
| `Complete` (DirectoryIndex) | all that is below the root, or that links lead to, is indexed | what lies above an indexed path is not, `directory_indexer.go:66-67` |
| `ReferencesAreCataloged` (PomCataloger) | relationships refer to returned packages | licenses change the ID later, `parse_pom_xml.go:59-69` |
| `PomsRepresented` (JavaArchive) | every pom in an archive is a package or part of the main one | `archive_parser.go:756-757` |
| `EveryRuntimeLinked` (DotnetDeps) | each root is linked to its runtime | runtime packages have no ID yet, `deps_binary_cataloger.go:107-118` |
| `ArchitecturesLinked`, `ReplacedLinked`, `ProxyAnswers` (GoModules) | each architecture's modules are linked; so are replaced ones; a proxy that has a module answers | overwritten, `parse_go_binary.go:78`; looked up by another path, `parse_go_mod.go:220-226`; an old error survives, `licenses.go:265-286` |
| `ModelsAfterPulls` (Sources) | cheap providers come before those that pull, `source_providers.go:51` | order of the list |
| `AttestAlwaysEnds` (AttestCommand) | attest ends | without a user interface nobody reads the pipe, `attest.go:165` |
| `FilesOnly`, `LayersHaveSquash`, `RaisedIsHidden`, `BesideIsNotAbove` (ImageResolvers) | a resolver yields files (`resolver.go:42`); all layers include the squash; what is raised is hidden below; a relative path is beside | `container_image_all_layers.go:79`, `container_image_deep_squash.go:87`, `:168` |
| `FoundDespite` (ImageResolvers) | entries at excluded paths go, `excluding_file.go:13-14` | a file that is asked for by two paths goes from the squashed view with the first, and stays in all layers with the second |
| `NoDirectories`, `GlobsAsPaths` (DirectoryResolvers) | no directories; globs respect the root as paths do | `unindexed_directory.go:109` and `151`, `chroot_context.go:145-196` |
| `StringsNeverEnd` (BinaryPackages) | a string table longer than its data | is read for ever, `pe.go:625-647`, `670-675` |

Further remarks for who works on the code, by component:

* *Formats.* The SPDX decoder makes locations where the encoder wrote coordinates, so what is
  encoded again dangles; paths become relative, zero SHA-1 digests real ones, and a root
  that is unknown, or of version 2.2, stays as a package and grows with each round trip. CycloneDX
  nests package-id in its BOMRef in each round; its decoder dereferences nil Components
  before the guard against it.
* *Images.* With all layers, a relative path that is the root exists but has no reference, if no layer lists it, and
  is dereferenced all the same (`container_image_all_layers.go:187-191`); the model returns nothing there.
* *Sources and commands.* `GetSource` may return a source with an error; failing platform
  validation does not close the source; an interrupted snap download leaves its temp dir (`snap.go:81-90`);
  relative exclusions are rewritten in place, so a second `FileResolver` of a file source fails; a
  local file that does not exist is not `ErrNotExist` to the snap provider. Report files are
  truncated before the input is resolved, and two outputs of one path overwrite each other.
* *Resolvers.* Outside the base a location's path cannot be asked for again; a base is stripped as a
  string ("/ab" of base "/a"); links on the way of a link's target are left to the operating system
  and so can leave the base; the deferred resolver is not synchronised. The case of a path with ".."
  of `unindexed_directory.go:311-314` is not modelled.
* *Go.* The stdlib of a second architecture is skipped (`stdlib_package.go:32`); chained
  replaces lose the middle; `exclude` removes a module of any version (395-399); `strings.Cut` has
  its arguments swapped (`stdlib_package.go:83`).
* *JavaScript.* An unscoped alias is never linked (`dependency.go:28`); a yarn v1 entry that is repeated
  gives its dependencies to the next package (`parse_yarn_lock.go:188-202`).
* *Python.* A pdm group without summary takes the first entry's dependencies; a requirements file that ends in a
  continuation loses its last line; `parse_wheel_egg.go:71,76` loses an error. One unreadable `pyvenv.cfg` loses all
  that is installed, with an error about none of it (`dependency.go:220-223`).
* *Operating systems.* `parse_deb_archive.go:64` drops the error of data.tar; an unreadable dpkg line
  followed by a continuation fails the database, a last line without newline is lost; an empty apk
  `F:` is skipped, so files go to the directory before; `M`, `a` or `Z` without `F` or `R` panics.
* *Others.* NuGet relationships run opposite to their type (`parse_packages_lock.go:103-107`,
  `relationship.go:19`); every brace line of mix.lock is an error.
* *.NET.* An executable attached to an excluded package is reported nowhere; a name
  without version in deps.json never matches.
* *Binaries.* `MatchAll` of patterns that capture no version is no match; one unreadable file costs a classifier
  all its packages (`classifier_cataloger.go:73-78`); a package type that differs in `mergePackages` (105-107) cannot;
  entries of a PE directory are counted in 16 bits (`pe.go:415`); an entry that ends where the image ends
  is refused; a Mach-O error drops libraries and keeps the rest.

## 6. The proofs

Each `_proofs` module proves, for all values of the constants that satisfy the
assumptions of its component, an inductive invariant and what follows from it. TLC
had checked each of them before, on the instances of section 4 or smaller ones. An
assumption is stated, with its name, in the module of the component.

* **PackageRules_proofs** - of the relationship index, `IndexStaysConsistent`: shape, filing, list-in-tables and
  exactness for untouched identities are inductive together. Exactness alone is
  not: that `Add` skips only what the list holds (for untouched identities) rests on
  exactness of the from-table, and that the to-table lists a relationship once
  rests on both. `IndexTypeCorrect`, `IndexAllIndexed` and `IndexExact` are parts of it.
  No assumption about identities, types or the number of calls but that `MaxOps`
  is a number.
  Of the rules, `ComplianceRulesRespected`, for any number of packages and
  relationships. Each operation of the index is first reduced to what it does to
  one relationship (`AddFacts`, `RemoveFacts`, `ReplaceFacts`). The invariant then follows one kept
  package and one untouched target through the three loops: the index has the
  relationship under the ID it has been told of (`Now`) if and only if the cataloger
  reported it, and nothing under an ID that is still to come. That `Replace` moves it
  at all depends on the table by target, which `Remove` leaves incomplete; `Pointed`
  says it is complete for untouched targets. IDs are hashes of two kinds,
  so those of packages are not those of files (`FilesAssumption`).
  Of the cleaner, `SquashEvidenceStays`, from the invariant that each key remembered as seen is evidence of a package
  that is going to stay, and each package listed for removal had only such keys
  (`Covered`); any number of packages in any order of enumeration.
* **TaskGroups_proofs** - the scheduler's invariant relates the group of each task to
  the loop: those of earlier groups are done without an error, those of later ones wait, and once
  there is a result nothing executes. `SchedulerInOrder`, `SchedulerResultJustified` and
  `SchedulerTempDirScoped` follow, for any tasks, groups and slots. `SchedulerUnknownsExact`
  needs what the loop of `appendUnknowns` makes of any list of errors; that is shown by induction over
  its turns (`WithUnknownsContents`), for which the module derives induction over the
  numbers from well-foundedness (`Inductive`).
* **SbomAssembly_proofs** - `AssemblyInvariant` has three layers, each resting on the one before.
  `OrderInv` is what the scheduler promises tasks about each other: those of earlier
  groups are done without an error, those of later ones wait, and a task that ended
  without an error went through all its steps. `ContentInv` is what is in the SBOM by
  then and what a task carries between two of its locks: for instance, the
  relationships task carries overlaps of packages that are still there (`CarriedInv`), what is left to be
  replaced is on its list (`ReplacedInv`), and what the owned-file selection does not hold
  yet is in the hands of a package task (`OwnedInv`). `LabelInv` is what the labeler leaves.
  `AssemblySourceAndEvidence`, `AssemblyNothingReplaceable` and `AssemblyUnknownsReconciled` follow, and
  `AssemblyOwnedFilesDigested`: each regular file of a package is digested or the error of the digest cataloger names it
  (the labeler may take the unknown away again, if it is told to remove those of files that have packages).
  So do the action properties `AssemblyAuthoritySurvives` and `AssemblyNothingNewDangles`. For the latter each write is taken
  by itself (`DanglingStep`): what a task of the derived relationships carries is of packages that are there, what is deleted takes
  its relationships along, and what a cataloger hands over is of packages that it kept or that compliance dropped (`FoundDangles`). `AssemblyScheduled` is the safety part of the
  refinement: each step of the assembly is a step of the scheduler, or changes nothing of it. Assumed:
  IDs of packages, coordinates and the source are different things (`IdentityAssumption`), no package cataloger has the name of another task
  (`TaskNameAssumption`), settings are consistent (`ConfigAssumption`), and there are finitely many catalogers
  and a slot (`ScanAssumption`).
* **PackageCollection_proofs** - `CollectionInvariant`: besides exact indexes, what a running
  `Enumerate` has sent is what the collection holds of the types it has been through
  (`WalkExact`; without it the answer at the end says nothing), and nothing is
  remembered of packages that are gone (`NothingLeft`, without which adding one
  again would bring back its paths in the abstract map). Lemmas about lists without repetition carry the
  steps: inserting, removing the first occurrence, concatenating disjoint
  lists. `CollectionIsMap` is the refinement: every step of the collection is a step of the map, or
  changes nothing the map has.
* **Streaming_proofs** - two things that are handed over while others go on.
  Of the package collection, `ReadersInvariant`: whoever is in the builder holds its
  lock, writers and labelers alone (`BuilderInv`); only writers in the builder go for the lock of the
  collection (`CollectionInv`); and what a reader received, what its goroutine has in hand and
  what it has yet to look up are together the packages of when it began (`WalkInv`).
  `ReadersSeeOneState` follows for any number of tasks of either kind, and `EnumerationsUnhindered`: while
  somebody enumerates no writer holds the lock of the collection or waits for it, so taking it again
  for each package cannot block. Readers are not writers and labelers are readers (`RoleAssumption`, `LabelerAssumption`).
  Of the locations of an image, `StreamInvariant`: while nobody cancelled, what the views have sent and is wanted
  has arrived, in order, but for one location in the hands of the filter and a later one in the
  hands of the merge (`Underway`); the merge goes through the views one after the other and knows all it sent of the first when it
  comes to the second (`MergeInv`); and who closed its channel was through with what is behind it (`ClosedInv`).
  Once the context is done none of this need hold, so the invariant says nothing of it and `EachOnce` speaks of a cataloger that was
  not interrupted. `StreamsEachOnce` follows for views of any length, any exclusions and both scopes. Assumed: a
  view holds no location twice (`StreamAssumption`).
* **Scan_proofs** - of the selection, `SelectionIsRepeated`, for any catalogers, sources and requests. The
  loop that replaces "default" goes through the memory in which the list began while it writes the longer list into
  that memory, as long as it fits, and into another one then. Its invariant (`Loop`, by induction over the turns) has three cases:
  nothing to replace so far; all so far replaced; or one "default" that was moved out of the way of the index and is left
  over. In the last case the scan fails, since no task responds to that word (`NoDefault`); so a scan that does not
  fail saw the request with the tags in the place of "default" (`Requested`). What the split into groups, the implied "file"
  and the order of expressions make of it is then what `Wanted` says of each task (`ChosenRuns`, `FilesImplied`,
  `WantedRuns`), and a list without room is as it was (`LeftAlone`). Assumed: nobody has the name or the tag of another task of
  its group as its name, "all" and "default" are not names or tags (`SelectionAssumption`; the names of syft's own catalogers end
  in "-cataloger", its tags do not), and lists are no longer than their memory (`RequestAssumption`).
  Of the sources, `SourcesInvariant`: who was asked is the beginning of the list of providers, nobody
  but the last of them had a source (`VerdictInv`), the errors kept are those of who was asked (`FailuresInv`), and a
  source answers what it did (`AnswersInv`), whose exclusions may change but once. What makes the list is `InOrder`:
  by induction over lists, `Among`, `JoinProviders` and `Selected` keep who is before whom (`Before`), so that who is
  here stays before who is far away whatever the default pull source is (`OrderedFacts`). `SourcesServeTheirUser` follows.
  Assumed: what may be at a path, in a registry or in the store (`InputsAssumption`), and that tags are a
  list (`DemandsAssumption`; tags of nobody are allowed, and nobody is asked then).
  `CommandUsesSources`: what `syft scan` does to a source are steps of `SourcesSpec`, so `SourcesServe` holds of any scan.
  `CommandInvariant`: of the scan command, for any outputs, what each stage has opened, generated and
  written (`StageInv`), what the file of an output holds before and after its turn (`FilesInv`), that the reports
  for the screen are in the order of the outputs (`ReportsInv`), and that a provider or a source leaves nothing
  unaccounted for (`LeftoverInv`). `CommandServesOutputs` follows. Assumed: a command line
  is a list of outputs (`OutputsAssumption`).
* **OnDisk_proofs** - `CacheInvariant`: any number of processes write their answers chunk by chunk
  into one file; each chunk in the file and in the hands of a reader is of something the function answered and
  in its place, and a reader goes past the first chunk only if that is not all of an
  answer. What decodes is then the whole of one: `CacheAnswersWhole`, and `CacheBrokenIsResolvedAgain`.
  Of the answers for one key only one takes more than one read (`CacheAssumption`): a key names
  something immutable, the others are short errors.
  `TempInvariant`: there is one root, made once, assigned before anybody passes, removed for good, and files are
  in it only while their users hold them; `TempFilesGone` follows for any number of users.
  `IndexInvariant`: of the index of a directory, what is in it is in the file system under the path it has there
  (`IndexTypes`); where its links lead was seen (`LinksSeen`); and what is below one of its directories, or below a root that is no
  longer in the queue, is in it too (`DirsCovered`, `RootsCovered`), but for what is on the way to a root with
  a link in it. `DirsCovered` is why a walk may pass over a directory it finds in the index. Under it are lemmas about
  paths: a path that leads somewhere has a parent that does, because each link that is followed on the way to the parent is followed
  on the way to the child (`EvalParent`, by induction over links); the order of the names is one of the whole
  directory, so a walk comes to everything (`InOrderAll`). `IndexFoundOnce` follows, for every file system, exclusion and limit of
  links. Assumed: what is in a file system is in its directories (`FileSystemAssumption`).
  Of the views of an image, `ImageInvariant`: what was returned is what its own view finds and the exclusions leave (`Answered`);
  none of it is a link (`Readable`), without which what is read of it need not be what was found; and
  nothing is there twice. Under it is what a search ends in, by induction over the links that were followed:
  something of the tree that is no link, the root, nothing or a circle; and that a search which
  shows dead links finds what the other finds, if that finds anything. What is in a
  squashed tree is in a directory of it (`InDirs`), since a layer that takes away a directory takes along what is in it. The lists of each view are
  without repetition before they are marked, merged and filtered, and each of these steps keeps that. `ImageViewsAgree` follows,
  for any images, paths, exclusions and limit of links. Assumed: what a layer brings it brings in a
  directory (`ImagesAssumption`).

* **Catalogers_proofs** - `CatInv`: what a task of a generic cataloger has accumulated is what the requests yielded
  that are over, as often as they yielded it and none of another task (`Accumulated`), and what it returned is that, once all
  requests were begun (`Returned`). That every parser's error is heard of is a matter of trees: `New` keeps at least
  one text of the error it is given, and `Flatten` and `Join` keep every error about
  a place (`NewSays`), by induction over the depth at which it lies. `CatalogersComplete` follows, for any files, parsers,
  slots and processor. Assumed (`CatalogerAssumption`): what parsers return are packages, and errors that nest no deeper than
  `MaxNesting` and say something in each of their parts.
  `ConvInv`: an SBOM that was converted any number of times is well formed, that is, no two packages are the same
  thing and relationships have their ends there, but for the root; it has the packages that were scanned (`WhatsKept`), their
  dependencies (`ToPackagesKept`) and their files (`ToFilesKept`), as far as the formats
  passed can say them; and files are named by locations if the last format was SPDX, and by
  coordinates otherwise (`EndsInTurn`), without which a second round through SPDX could not be told from the first.
  An identifier that is built on another in each round stays one of its package, which is what the induction needs (`Named`).
  `ConversionsKeepAll` follows. Assumed (`ConversionAssumption`): what was scanned has packages whose identifiers are their
  hashes, and relationships between what is there.
  `GoInv`, one part for each kind of file. Of go.mod: all that was visited or waits is what the roots lead to, and what is
  imported by the visited waits (`Visiting`), so that in the end the visited are closed under imports, and no more than that
  (`Loaded`); sources and links are then those of the modules used (`SourcesLinked`), with any choice of the last module of a
  path; every entry is one that is asked for, and if directives do not meet, the entries are what those so far leave
  (`ReplacedSoFar`). Of a binary: what was found are the dependencies and main modules of the builds read so
  far (`BuildsFound`), and in a build no dependency has the name of its main module (`BuiltSays`), which keeps links
  from leading from a module to itself. Of the search: places passed by have no licenses, a proxy
  is asked once and only if none has, and the answers so far are the right one (`SearchInv`). `GoFilesRead` follows, for
  any graph, directives, builds and places. Assumed (`GoFilesAssumption`): imports and roots are packages of
  the graph, a module of a graph is known by its path, no dependency of a build goes by the name of what is
  built unless it is that, and what has no version yet is not replaced and shares its name with no other.
  `LocksInv`: what the loop over the lines of a Gemfile.lock, mix.lock or conaninfo.txt has reported so far is what the
  lines up to here say, each by the section before it (`LinesRead`). The files that are trees take one step: a
  dependency of Cargo leads where all it says leads (`CargoLinks`), whichever of the nodes alike conan visits last
  (`ConanLinks`) and whichever entry of NuGet's is met first (`NuGetLinks`). `LocksAreRead` follows, for any files.
  Assumed (`LocksAssumption`): a source of Cargo is none, a kind and a URL, or git with a commit; what is asked for
  has no commit; and nodes and lines are lists.

What stays with TLC:

* liveness: `Returns`, `CatalogersEnd`, `CatalogersReturn`, `NobodyWaits`, and the fairness that is part of
  `Scheduled`. The prover does not do fairness or ENABLED.
* components whose modules have RECURSIVE operators, or use one that has: links and poms
  form graphs (`PathsAgree`, `PomsCataloged`), archives nest (`ArchivesNest`). The prover loses its arithmetic there.
* the other readers of files of ecosystems: `ListingsRead` and `ExecutablesRead`, some of whose modules have
  RECURSIVE operators.

## 7. What is not modelled

* Text: names, versions, messages, layout of documents, sorting of results. Of a package's
  content only what its ID, the indexes, the rules or a parser's loop tell apart.
* File formats that a library decodes (JSON, XML, ELF, RPM, SQLite ...): the models take the decoded value.
* The processors of a generic cataloger that may replace packages and errors (`generic/cataloger.go:43-49`, 222-227), but
  for Python's, which is `FindInstalled`: in `GenericCataloger` the processor is the one that finds dependencies.
* In `SbomAssembly`: symlinks (so the rule about ownership through a symlink never
  applies), supporting evidence, several files for one library name, file metadata,
  file contents and licenses (stored like digests), the archive rule of the labeler, which
  reads file metadata, and file selection `none`.
* The event bus and how the terminal looks.
* External code is modelled from its use: `sync.Collect` and the executor of
  `github.com/anchore/go-sync`, `sync.RWMutex`, the file tree of stereoscope, cosign.

## 8. The plan

A theorem to add: `PathsAgree`, on top of the lemmas about paths and links of `OnDisk_proofs`.
