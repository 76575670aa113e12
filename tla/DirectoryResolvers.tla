------------------------- MODULE DirectoryResolvers ------------------------
(***************************************************************************)
(* How paths of catalogers become paths of the disk and back, in the       *)
(* resolvers of directories and files (syft/internal/fileresolver): on the *)
(* file tree of the indexer under a root and a base, straight on the disk  *)
(* without an index, for one file and its parent, and which mounts are     *)
(* left out.  A path is a sequence of names, absolute or not; the name Up  *)
(* is "..".                                                                *)
(***************************************************************************)
EXTENDS Naturals, Sequences, SequencesExt, FiniteSets, TLC

CONSTANTS Drives,      \* functions from native paths to directories, files, links
          Settings,   \* records [root, base]: native paths, base a sequence of at most one
          Requests,   \* sequences of paths that are asked for together
          GlobDirs,   \* directories that globs begin with
          MountTables,\* functions from mount points to types
          Rejected,   \* sets of native paths that filters refuse
          Listed,     \* where a tmpfs is ignored
          FollowLimit

VARIABLES drive, setting, mounted, refusing,
          inquiry,    \* the last question: of what resolver, how, and for what
          reply       \* what it returned

directoryVars == <<drive, setting, mounted, refusing, inquiry, reply>>

Up == 0
NoPath == <<Up, Up, Up>>
AbsolutePath(names) == [abs |-> TRUE, names |-> names]
RelativePath(names) == [abs |-> FALSE, names |-> names]

\* path.Clean: ".." takes away a name, or stays at the front of a relative path.
CleanNames(names, abs) ==
  LET with(acc, n) == LET had == acc
                      IN IF n # Up THEN Append(had, n)
                         ELSE IF had # <<>> /\ Last(had) # Up THEN Front(had)
                         ELSE IF abs THEN had ELSE Append(had, Up)
  IN FoldLeft(with, <<>>, names)

Clean(p) == [p EXCEPT !.names = CleanNames(@, p.abs)]
Join(p, q) == Clean([p EXCEPT !.names = @ \o q.names])
DirOf(p) == [p EXCEPT !.names = IF @ = <<>> THEN <<>> ELSE Front(@)]

\* "../" is taken away as often as it is there; a lone ".." has no slash.
StripUps(p) ==
  LET ups == {k \in 0..Len(p.names) - 1 : \A j \in 1..k : p.names[j] = Up}
  IN IF p.names = <<>> THEN RelativePath(<<>>)
     ELSE RelativePath(SubSeq(p.names, 1 + CHOOSE k \in ups : \A j \in ups : j <= k, Len(p.names)))

-----------------------------------------------------------------------------
(* The disk.                                                               *)

At(p) == IF p \in DOMAIN drive THEN drive[p].type ELSE "nothing"
Native(p, here) == CleanNames(IF p.abs THEN p.names ELSE here \o p.names, TRUE)

\* A name in a directory.
Under(parent, name) ==
  IF At(parent) = "dir" /\ At(Append(parent, name)) # "nothing" THEN Append(parent, name) ELSE NoPath

RECURSIVE Resolved(_, _), Onward(_, _)
Resolved(p, hops) ==
  IF p = <<>> THEN <<>> ELSE Onward(Under(Resolved(Front(p), hops), Last(p)), hops)

Onward(here, hops) ==
  IF At(here) # "link" THEN here
  ELSE IF hops = 0 THEN NoPath
  ELSE Resolved(Native(drive[here].target, Front(here)), hops - 1)

Evaluated(p) == Resolved(p, FollowLimit)

\* Links on the way are followed, the last is not.
LstatPath(p) == IF p = <<>> THEN <<>> ELSE Under(Evaluated(Front(p)), Last(p))
LstatType(p) == At(LstatPath(p))

-----------------------------------------------------------------------------
(* The chroot of a root and a base.                                        *)

\* Slip: the base is forgotten on the way in.
ToNativeUnderRoot(p) == CleanNames(setting.root \o p.names, TRUE)

\* An absolute request is one from the base, a relative one from the root.
ToNativePath(p) ==
  IF p.abs /\ setting.base # <<>> THEN CleanNames(setting.base[1] \o p.names, TRUE)
  ELSE CleanNames(setting.root \o p.names, TRUE)

\* The part of a pattern before its first star: from the root in any case.
ToNativeGlob(p) == CleanNames(setting.root \o p.names, TRUE)

\* The base is taken away and leaves the slash; the root, which is no base, does
\* not.  What is outside stays as it is, as does all under the root directory.
ToChrootPath(native) ==
  LET strip(prefix, abs) == IF IsPrefix(prefix, native)
                            THEN [abs |-> abs, names |-> SubSeq(native, Len(prefix) + 1, Len(native))]
                            ELSE AbsolutePath(native)
  IN IF setting.base # <<>> THEN strip(setting.base[1], TRUE)
     ELSE strip(setting.root, setting.root = <<>>)

\* A native path of the tree as a location.
Responding(ref, native) ==
  [ref |-> ref, via |-> native, real |-> ToChrootPath(ref), access |-> ToChrootPath(native)]

NoFileAt(ref) == ref = NoPath \/ At(ref) = "dir"

\* FiletreeResolver.FilesByPath: what cannot be found is left out.
TreeByPaths(paths) ==
  LET native(p) == ToNativePath(p)
      known == SelectSeq(paths, LAMBDA p : ~NoFileAt(Evaluated(native(p))))
  IN [k \in DOMAIN known |-> Responding(Evaluated(native(known[k])), native(known[k]))]

\* FiletreeResolver.FilesByGlob: each file once, by the first way to it.
TreeByGlob(matched) ==
  FoldLeft(LAMBDA acc, native :
             LET ref == Evaluated(native)
                 had == acc
             IN IF NoFileAt(ref) \/ \E k \in DOMAIN had : had[k].ref = ref THEN had
                ELSE Append(had, Responding(ref, native)),
           <<>>, matched)

\* "**/name", or with a directory before it.
MatchedUnder(prefix, name) ==
  SetToSeq({p \in DOMAIN drive : p # <<>> /\ IsPrefix(prefix, p) /\ Last(p) = name})

-----------------------------------------------------------------------------
(* Without an index (UnindexedDirectory); dir is the root.                 *)

HasBase == setting.base # <<>>
BaseDir == IF HasBase THEN setting.base[1] ELSE setting.root

AbsPath(p) ==
  IF HasBase THEN CleanNames(BaseDir \o StripUps(p).names, TRUE)
  ELSE IF p.abs THEN p.names ELSE CleanNames(setting.root \o p.names, TRUE)

ScrubInputPath(p) == Clean(RelativePath(p.names))
ScrubResolutionPath(p) == IF HasBase THEN Clean(StripUps(p)) ELSE Clean(p)

CanLstat(p) == LstatType(AbsPath(p)) # "nothing"
IsRegularFile(p) == LstatType(AbsPath(p)) \notin {"nothing", "dir"}

Unresolvable == [found |-> FALSE, where |-> RelativePath(<<>>), visited |-> {}, ways |-> <<>>]

\* Every place at most once.
Visit(acc, place, ways) ==
  IF ~acc.found \/ AbsPath(place) \in acc.visited \/ ~CanLstat(place) THEN Unresolvable
  ELSE [found |-> TRUE, where |-> place, visited |-> acc.visited \cup {AbsPath(place)}, ways |-> ways]

Turned(from, target) == ScrubResolutionPath(IF target.abs THEN Clean(target) ELSE Join(DirOf(from), target))

\* Links at one place, one after the other.
RECURSIVE FollowLinks(_, _)
FollowLinks(acc, rest) ==
  IF ~acc.found \/ LstatType(AbsPath(acc.where)) # "link" THEN acc
  ELSE FollowLinks(Visit(acc, Turned(acc.where, drive[LstatPath(AbsPath(acc.where))].target),
                         Append(acc.ways, Join(acc.where, RelativePath(rest)))), rest)

\* resolveLinks: name by name.
ResolveLinks(p) ==
  FoldLeft(LAMBDA acc, i :
             LET so == acc
                 place == ScrubResolutionPath(Join(so.where, RelativePath(<<p.names[i]>>)))
             IN FollowLinks(Visit(so, place, so.ways), SubSeq(p.names, i + 1, Len(p.names))),
           [Unresolvable EXCEPT !.found = TRUE], [i \in DOMAIN p.names |-> i])

\* newLocation: the last of the ways is the real one, the first that was asked.
LocationAt(p, end) ==
  [found |-> end.found, real |-> end.where,
   access |-> IF end.ways # <<>> /\ end.where # p THEN end.ways[1] ELSE p]

NewLocation(p) == LocationAt(p, ResolveLinks(p))

\* Slip: the way that was asked for counts, not where it leads.
AddOnceByAccess(list, new) ==
  IF ~new.found \/ \E k \in DOMAIN list : list[k].access = new.access THEN list
  ELSE Append(list, new)

\* Only the first of several ways to a file is kept.
AddOnce(list, new) ==
  IF ~new.found \/ \E k \in DOMAIN list : list[k].real = new.real THEN list
  ELSE Append(list, new)

\* filesByPath.
DiskByPaths(paths) ==
  FoldLeft(LAMBDA acc, asked :
             LET p == ScrubInputPath(asked)
             IN IF CanLstat(p) /\ IsRegularFile(p) THEN AddOnce(acc, NewLocation(p)) ELSE acc,
           <<>>, paths)

\* RelativeFileByPath: below the file itself, as if it were a directory.
DiskRelative(l, p) ==
  LET again(found) == IF found = <<>> \/ ~IsRegularFile(found[1].real) THEN <<>>
                      ELSE <<NewLocation(found[1].real)>>
  IN again(DiskByPaths(<<Join(l.real, p)>>))

\* Write: where the system puts what is written to a path.
WrittenAt(p) ==
  LET abs == AbsPath(RelativePath(p.names))
      file(parent) == IF At(parent) # "dir" THEN NoPath
                      ELSE IF At(Append(parent, Last(abs))) # "link" THEN Append(parent, Last(abs))
                      ELSE Evaluated(abs)
      written(f) == IF At(f) = "dir" THEN NoPath ELSE f
  IN written(file(Evaluated(Front(abs))))

\* FileContentsByLocation.
ReadAt(l) == Evaluated(AbsPath(ScrubInputPath(l.real)))

-----------------------------------------------------------------------------
(* One file, and mounts.                                                   *)

Ignorable == {"proc", "sysfs", "devtmpfs"}

\* pathIndexVisitor: the mounts a path is in, the most specific first, until one
\* decides; a tmpfs that is not listed decides nothing.
IsSkipped(p) ==
  LET within == {m \in DOMAIN mounted : IsPrefix(m, p)}
      decides(m) == mounted[m] # "tmpfs" \/ \E c \in Listed : IsPrefix(c, p)
      first == {m \in within : decides(m) /\ \A n \in within : decides(n) => Len(n) <= Len(m)}
  IN \E m \in first : mounted[m] \in Ignorable \cup {"tmpfs"}

Refuses(p) == p \in refusing \/ IsSkipped(p)

\* indexPath: the directory first, and no file without it.
IndexFile(p) ==
  LET file == Evaluated(p)
  IN IF NoFileAt(file) THEN <<"error", {}>>
     ELSE IF Refuses(Front(file)) THEN <<"error", {}>>
     ELSE IF Refuses(file) THEN <<"error", {Front(file)}>>
     ELSE <<"indexed", {Front(file), file}>>

DirectoryInit ==
  /\ drive \in Drives
  /\ setting \in Settings
  /\ mounted \in MountTables
  /\ refusing \in Rejected
  /\ inquiry = [by |-> "nothing", of |-> <<>>]
  /\ reply = <<>>

Inquire(by, of, answer) ==
  /\ inquiry.by = "nothing"
  /\ inquiry' = [by |-> by, of |-> of]
  /\ reply' = answer
  /\ UNCHANGED <<drive, setting, mounted, refusing>>

FilesByPath == \E r \in Requests : Inquire("path", r, TreeByPaths(r))

FilesByGlob ==
  \E name \in {Last(p) : p \in DOMAIN drive \ {<<>>}} :
    \/ Inquire("glob", <<RelativePath(<<name>>)>>, TreeByGlob(MatchedUnder(<<>>, name)))
    \/ \E prefix \in GlobDirs :
         Inquire("glob", <<AbsolutePath(Append(prefix, name))>>,
                 TreeByGlob(MatchedUnder(ToNativeGlob(AbsolutePath(prefix)), name)))

UnindexedByPath == \E r \in Requests : Inquire("disk", r, DiskByPaths(r))

UnindexedRelative ==
  /\ inquiry.by = "disk"
  /\ \E k \in DOMAIN reply, r \in Requests :
       /\ inquiry' = [by |-> "relative", of |-> <<r[1]>>]
       /\ reply' = DiskRelative(reply[k], r[1])
  /\ UNCHANGED <<drive, setting, mounted, refusing>>

WriteFile ==
  \E r \in Requests :
    LET file == WrittenAt(r[1])
    IN /\ inquiry.by = "nothing" /\ file # NoPath
       /\ inquiry' = [by |-> "write", of |-> <<r[1]>>]
       /\ drive' = (file :> [type |-> "file", target |-> RelativePath(<<>>)]) @@ drive
       /\ UNCHANGED <<setting, mounted, refusing, reply>>

OpenFile ==
  \E p \in DOMAIN drive \ {<<>>} :
    /\ inquiry.by = "nothing"
    /\ inquiry' = [by |-> IndexFile(p)[1], of |-> <<AbsolutePath(p)>>]
    /\ reply' = SetToSeq({Responding(q, q) : q \in IndexFile(p)[2]})
    /\ UNCHANGED <<drive, setting, mounted, refusing>>

DirectoryNext == FilesByPath \/ FilesByGlob \/ UnindexedByPath \/ UnindexedRelative \/ WriteFile
                   \/ OpenFile

DirectorySpec == DirectoryInit /\ [][DirectoryNext]_directoryVars
-----------------------------------------------------------------------------
(* Properties.                                                             *)

\* What a path leads to for somebody whose root directory is the base.
RECURSIVE Chrooted(_, _), Further(_, _)
Chrooted(names, hops) ==
  IF names = <<>> THEN BaseDir ELSE Further(Under(Chrooted(Front(names), hops), Last(names)), hops)

Further(here, hops) ==
  IF At(here) # "link" THEN here
  ELSE IF hops = 0 THEN NoPath
  ELSE Chrooted(Native(drive[here].target, SubSeq(Front(here), Len(BaseDir) + 1, Len(here) - 1)),
                hops - 1)

Meant(p) == Chrooted(p.names, FollowLimit)

Within(native) == IsPrefix(BaseDir, native)

\* Where a link leads within the base, no other link is on the way.
Straight ==
  \A q \in DOMAIN drive :
    Within(q) /\ drive[q].type = "link" =>
      LET target == Native(drive[q].target, SubSeq(Front(q), Len(BaseDir) + 1, Len(q) - 1))
      IN \A k \in 1..Len(target) - 1 : At(BaseDir \o SubSeq(target, 1, k)) # "link"

\* A location is a path that can be asked for again, and it is the same file, unless
\* it was found outside of the base (chroot_context.go:139-220).
AskedAgain ==
  inquiry.by \in {"path", "glob"} =>
    \A k \in DOMAIN reply :
      Within(reply[k].via) =>
        LET again == TreeByPaths(<<reply[k].access>>)
        IN again # <<>> /\ again[1].ref = reply[k].ref

\* Links are followed by hand, so that absolute ones stay within the base
\* (unindexed_directory.go:295-360): who opens what was found reads what was meant, each
\* file that was asked for is found, and found once.  The code says that it does not
\* follow links on the way of links (line 279).
FoundAsMeant ==
  inquiry.by = "disk" /\ HasBase /\ Straight =>
    /\ \A k \in DOMAIN reply : ReadAt(reply[k]) = Meant(reply[k].access)
    /\ \A i \in DOMAIN inquiry.of :
         At(Meant(inquiry.of[i])) = "file" =>
           \E k \in DOMAIN reply : ReadAt(reply[k]) = Meant(inquiry.of[i])
    /\ \A j, k \in DOMAIN reply : ReadAt(reply[j]) = ReadAt(reply[k]) => j = k

\* What was written to a path is found there, where no link leads out of the base.
WrittenIsFound ==
  /\ inquiry.by = "write" /\ HasBase /\ Straight
  /\ Within(WrittenAt(inquiry.of[1])) /\ \A q \in DOMAIN drive : ~drive[q].target.abs
  => LET found == DiskByPaths(inquiry.of)
    IN found # <<>> /\ ReadAt(found[1]) = WrittenAt(inquiry.of[1])

PathsAgree == AskedAgain /\ FoundAsMeant /\ WrittenIsFound

-----------------------------------------------------------------------------
(* What comments say, and the code does not do.                            *)

\* "only returns locations to files (NOT directories)" (unindexed_directory.go:151): a
\* link to a directory is a regular file, by its own type (line 109).
NoDirectories ==
  inquiry.by = "disk" /\ HasBase /\ Straight => \A k \in DOMAIN reply : At(ReadAt(reply[k])) # "dir"

\* "still un-apply any base paths" (chroot_context.go:145): globs do not.
GlobsAsPaths ==
  inquiry.by = "glob" /\ inquiry.of[1].abs =>
    LET there == TreeByPaths(inquiry.of)
    IN \A k \in DOMAIN there : \E j \in DOMAIN reply : reply[j].ref = there[k].ref
=============================================================================
