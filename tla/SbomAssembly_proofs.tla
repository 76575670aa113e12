-------------------------- MODULE SbomAssembly_proofs -------------------------
(***************************************************************************)
(* Proofs about how an SBOM comes together, for any packages, files,       *)
(* catalogers, configuration and parallelism.                              *)
(*                                                                         *)
(* The invariant has three layers.  OrderInv says which tasks are over     *)
(* when a task runs, ContentInv what the SBOM holds and what the tasks     *)
(* carry between two locks, LabelInv what the labeler leaves behind; the   *)
(* step of each layer is proved from the layers before it.                 *)
(***************************************************************************)
EXTENDS SbomAssembly, FiniteSetTheorems, TLAPS

\* What is proved of the scheduler, for the scheduler of these tasks.
SchedProofs == INSTANCE TaskGroups_proofs
                 WITH Task <- Planned, NGroups <- Len(Plan),
                      GroupOf <- [t \in Planned |-> CHOOSE g \in DOMAIN Plan : t \in Plan[g]],
                      Reason <- Reasons,
                      Labelers <- {"unknowns-labeler"},
                      CallerOwnsTempDir <- FALSE

Digester  == "file-digest-cataloger"
Cleaner   == "deep-squashed-cleaner"
Relater   == "relationships-cataloger"
Labeler   == "unknowns-labeler"

Group(t) == CHOOSE g \in DOMAIN Plan : t \in Plan[g]

-----------------------------------------------------------------------------
(* The layers.                                                             *)

\* Groups before the current one are done without an error, those after it
\* have not begun; what has not begun is at its first step, and what has ended
\* went through all of its steps or panicked; what the digest cataloger could not
\* read it has returned an error about.
OrderInv ==
  /\ group \in 1 .. (Len(Plan) + 1)
  /\ status \in [Planned -> {"waiting", "running", "executed", "reported", "done"}]
  /\ outcome \in [Planned -> Sched!Outcome]
  /\ result = "sbom" => group = Len(Plan) + 1
  /\ DOMAIN step = Planned /\ DOMAIN local = Planned
  /\ \A t \in Planned :
       /\ Group(t) < group => status[t] = "done" /\ ~outcome[t].other
       /\ Group(t) > group => status[t] = "waiting"
       /\ status[t] = "waiting" => step[t] = "begin"
       /\ status[t] \in {"executed", "reported", "done"} /\ t # Labeler =>
            step[t] = "over" \/ outcome[t].other
       /\ status[t] \in {"executed", "reported", "done"} /\ t = Digester =>
            outcome[t].other \/ ErrorsAbout(outcome[t]) = local[t]
       /\ t \notin PkgTask \cup FileTask => outcome[t] = Sched!NoErrors

Slice == UNION {[R -> Nat \ {0}] : R \in SUBSET Rel}

Sbom == [packages : SUBSET Pkg, rels : Slice,
         executables : SUBSET Coord, digests : SUBSET Coord]

\* What the SBOM may hold, and what a package task carries into it.
PackagesInv ==
  /\ sbom \in Sbom
  /\ \A t \in PkgTask :
       /\ step[t] \in {"begin", "catalogued", "added", "over"}
       /\ step[t] = "catalogued" => local[t] \subseteq Pkg
       /\ step[t] = "added" => /\ local[t].kept \subseteq sbom.packages
                              /\ local[t].kept \subseteq local[t].related
                              /\ local[t].related \subseteq Pkg
  /\ step[Digester] = "selected" => local[Digester] \subseteq Coord

\* What the relationships task carries between two locks.
CarriedInv ==
  /\ step[Relater] = "prune" => Carried = RepresentedByElf
  /\ step[Relater] \in {"store overlap", "exclude"} =>
       \A r \in Carried : \E q, p \in Pkg :
         r = Overlap(q, p) /\ q # p /\ Claims(q, p)
  /\ step[Relater] \in {"store overlap", "store binaries", "add binaries"} =>
       \A r \in Carried : /\ r \in Rel /\ Endpoints(r) \cap Pkg \subseteq sbom.packages
                          /\ r.type \notin {"contains", "evident-by"}
  /\ step[Relater] = "add source" =>
       Carried = {Contained("source", p) : p \in sbom.packages}
  /\ step[Relater] = "add evidence" =>
       Carried = UNION {{EvidentBy(p, f) : f \in At[p]} : p \in sbom.packages}

\* The source and the evidence are related by the last steps only.
EvidenceInv ==
  \A p \in Pkg :
    /\ Copies(Contained("source", p), sbom.rels) =
         IF step[Relater] \in {"evidence", "add evidence", "over"} /\ p \in sbom.packages
           THEN 1 ELSE 0
    /\ \A f \in Coord : Copies(EvidentBy(p, f), sbom.rels) =
         IF step[Relater] = "over" /\ p \in sbom.packages /\ f \in At[p] THEN 1 ELSE 0

\* q represents p, or owns the binary package p.
Represents(q, p) ==
  Kind[q] = "elf" /\ Kind[p] \in {"jvm", "binary"} /\ At[q] \cap At[p] # {}

Replaces(q, p) ==
  /\ \/ Kind[q] \in {"os", "bitnami"} /\ Kind[p] \in {"jvm", "binary", "elf"}
     \/ Kind[q] = "jvm" /\ Kind[p] \in {"binary", "elf"}
  /\ Claims(q, p)

\* What is left to replace is on the list of edges to walk.
ReplacedInv ==
  \A q, p \in sbom.packages :
    /\ Represents(q, p) => step[Relater] \in {"begin", "prune"}
    /\ Config.excludeBinaries /\ Replaces(q, p) =>
         \/ step[Relater] \in {"begin", "prune", "overlap"}
         \/ /\ step[Relater] \in {"store overlap", "exclude"}
            /\ Overlap(q, p) \in Carried

\* The files that are selected with a package.
FilesOf(p) == At[p] \cup (IF Config.fileOwnership THEN Owned[p] ELSE {})

\* Every owned file is related to its owner, and selected with it.
OwnedInv ==
  Config.selectOwned =>
    /\ (/\ Config.fileOwnership
        /\ step[Relater] = "begin"
        /\ Config.deepSquashed => step[Cleaner] # "over")
         => \A p \in sbom.packages : \A f \in Owned[p] :
              \/ Contained(p, f) \in DOMAIN sbom.rels
              \/ \E t \in PkgTask : step[t] = "added" /\ p \in local[t].kept
    /\ step[Digester] = "selected" =>
         \A p \in sbom.packages : FilesOf(p) \subseteq local[Digester]
    /\ step[Digester] = "over" =>
         \A p \in sbom.packages :
           Regular \cap FilesOf(p) \subseteq sbom.digests \cup local[Digester]

ContentInv == /\ PackagesInv
              /\ CarriedInv
              /\ EvidenceInv
              /\ ReplacedInv
              /\ OwnedInv

\* What the labeler establishes.
Reconciled ==
  /\ Config.removeKnown =>
       \A p \in sbom.packages : \A f \in At[p] \cup Owned[p] : unknowns[f] = <<>>
  /\ Config.labelExecutables =>
       \A f \in sbom.executables :
          \/ unknowns[f] # <<>>
          \/ \E p \in sbom.packages : f \in At[p] \cup Owned[p]
          \/ \E r \in DOMAIN sbom.rels : f \in Endpoints(r)

\* Once the labeler is through, the unknowns stay as it left them.
LabelInv ==
  /\ unknowns \in [Coord -> Seq(Sched!Text)]
  /\ step[Labeler] = "begin"
  /\ status[Labeler] \in {"executed", "reported", "done"} => Reconciled

-----------------------------------------------------------------------------
(* The plan.                                                               *)

\* The groups of the tasks and their order, whatever the configuration.
LEMMA PlanOrder ==
  /\ Len(Plan) \in Nat
  /\ \A t \in Planned : Group(t) \in 1 .. Len(Plan)
  /\ Planned = PkgTask \cup FileTask \cup DistroTask \cup {Relater, Labeler}
                 \cup IF Config.deepSquashed THEN {Cleaner} ELSE {}
  /\ \A t \in PkgTask \cup FileTask :
       /\ Group(t) < Group(Relater)
       /\ Config.deepSquashed => Group(t) < Group(Cleaner)
       /\ Config.selectOwned /\ t \in PkgTask => Group(t) < Group(Digester)
  /\ Config.deepSquashed => Group(Cleaner) < Group(Relater)
  /\ \A t \in Planned \ {Labeler, "os-feature-detection"} : Group(t) < Group(Labeler)
  /\ Group(Labeler) < Group("os-feature-detection")
<1> USE DEF Digester, Cleaner, Relater, Labeler
<1> DEFINE E == "environment-cataloger"
           D == "file-digest-cataloger"
           X == "file-executable-cataloger"
           S == "deep-squashed-cleaner"
           R == "relationships-cataloger"
           U == "unknowns-labeler"
           O == "os-feature-detection"
<1>1. PkgTask \cap {E, D, X, S, R, U, O} = {}
  BY TaskNameAssumption
<1>2. FileTask = {D, X} /\ DistroTask = {E, O}
  BY DEF FileTask, DistroTask
<1>3. Planned = UNION {Plan[g] : g \in DOMAIN Plan}
  BY DEF Planned, Range
<1>4. CASE Config.selectOwned /\ Config.deepSquashed
  <2>1. /\ Len(Plan) = 7 /\ DOMAIN Plan = 1 .. 7
        /\ Plan[1] = {E} /\ Plan[2] = PkgTask /\ Plan[3] = FileTask
        /\ Plan[4] = {S} /\ Plan[5] = {R} /\ Plan[6] = {U} /\ Plan[7] = {O}
    BY <1>4 DEF Plan
  <2>2. \A g : g \in 1 .. 7 <=> g \in {1, 2, 3, 4, 5, 6, 7}
    OBVIOUS
  <2>3. /\ Group(E) = 1 /\ Group(D) = 3 /\ Group(X) = 3 /\ Group(S) = 4 /\ Group(R) = 5 /\ Group(U) = 6 /\ Group(O) = 7
        /\ \A t \in PkgTask : Group(t) = 2
    BY <1>1, <1>2, <2>1, <2>2 DEF Group
  <2>4. Planned = PkgTask \cup {E, D, X, S, R, U, O}
    BY <1>2, <1>3, <2>1, <2>2
  <2>5. \A t \in Planned : Group(t) \in 1 .. Len(Plan)
    BY <1>2, <2>1, <2>3, <2>4
  <2>6. \A t \in Planned \ {U, O} : Group(t) < Group(U)
    BY <1>2, <2>1, <2>3, <2>4
  <2> QED BY <1>1, <1>2, <1>4, <2>1, <2>3, <2>4, <2>5, <2>6
<1>5. CASE Config.selectOwned /\ ~Config.deepSquashed
  <2>1. /\ Len(Plan) = 6 /\ DOMAIN Plan = 1 .. 6
        /\ Plan[1] = {E} /\ Plan[2] = PkgTask /\ Plan[3] = FileTask
        /\ Plan[4] = {R} /\ Plan[5] = {U} /\ Plan[6] = {O}
    BY <1>5 DEF Plan
  <2>2. \A g : g \in 1 .. 6 <=> g \in {1, 2, 3, 4, 5, 6}
    OBVIOUS
  <2>3. /\ Group(E) = 1 /\ Group(D) = 3 /\ Group(X) = 3 /\ Group(R) = 4 /\ Group(U) = 5 /\ Group(O) = 6
        /\ \A t \in PkgTask : Group(t) = 2
    BY <1>1, <1>2, <2>1, <2>2 DEF Group
  <2>4. Planned = PkgTask \cup {E, D, X, R, U, O}
    BY <1>2, <1>3, <2>1, <2>2
  <2>5. \A t \in Planned : Group(t) \in 1 .. Len(Plan)
    BY <1>2, <2>1, <2>3, <2>4
  <2>6. \A t \in Planned \ {U, O} : Group(t) < Group(U)
    BY <1>2, <2>1, <2>3, <2>4
  <2> QED BY <1>1, <1>2, <1>5, <2>1, <2>3, <2>4, <2>5, <2>6
<1>6. CASE ~Config.selectOwned /\ Config.deepSquashed
  <2>1. /\ Len(Plan) = 6 /\ DOMAIN Plan = 1 .. 6
        /\ Plan[1] = {E} /\ Plan[2] = PkgTask \cup FileTask /\ Plan[3] = {S}
        /\ Plan[4] = {R} /\ Plan[5] = {U} /\ Plan[6] = {O}
    BY <1>6 DEF Plan
  <2>2. \A g : g \in 1 .. 6 <=> g \in {1, 2, 3, 4, 5, 6}
    OBVIOUS
  <2>3. /\ Group(E) = 1 /\ Group(D) = 2 /\ Group(X) = 2 /\ Group(S) = 3 /\ Group(R) = 4 /\ Group(U) = 5 /\ Group(O) = 6
        /\ \A t \in PkgTask : Group(t) = 2
    BY <1>1, <1>2, <2>1, <2>2 DEF Group
  <2>4. Planned = PkgTask \cup {E, D, X, S, R, U, O}
    BY <1>2, <1>3, <2>1, <2>2
  <2>5. \A t \in Planned : Group(t) \in 1 .. Len(Plan)
    BY <1>2, <2>1, <2>3, <2>4
  <2>6. \A t \in Planned \ {U, O} : Group(t) < Group(U)
    BY <1>2, <2>1, <2>3, <2>4
  <2> QED BY <1>1, <1>2, <1>6, <2>1, <2>3, <2>4, <2>5, <2>6
<1>7. CASE ~Config.selectOwned /\ ~Config.deepSquashed
  <2>1. /\ Len(Plan) = 5 /\ DOMAIN Plan = 1 .. 5
        /\ Plan[1] = {E} /\ Plan[2] = PkgTask \cup FileTask /\ Plan[3] = {R}
        /\ Plan[4] = {U} /\ Plan[5] = {O}
    BY <1>7 DEF Plan
  <2>2. \A g : g \in 1 .. 5 <=> g \in {1, 2, 3, 4, 5}
    OBVIOUS
  <2>3. /\ Group(E) = 1 /\ Group(D) = 2 /\ Group(X) = 2 /\ Group(R) = 3 /\ Group(U) = 4 /\ Group(O) = 5
        /\ \A t \in PkgTask : Group(t) = 2
    BY <1>1, <1>2, <2>1, <2>2 DEF Group
  <2>4. Planned = PkgTask \cup {E, D, X, R, U, O}
    BY <1>2, <1>3, <2>1, <2>2
  <2>5. \A t \in Planned : Group(t) \in 1 .. Len(Plan)
    BY <1>2, <2>1, <2>3, <2>4
  <2>6. \A t \in Planned \ {U, O} : Group(t) < Group(U)
    BY <1>2, <2>1, <2>3, <2>4
  <2> QED BY <1>1, <1>2, <1>7, <2>1, <2>3, <2>4, <2>5, <2>6
<1> QED BY <1>4, <1>5, <1>6, <1>7

-----------------------------------------------------------------------------
(* The first layer.                                                        *)

\* The outcomes of tasks in this plan are outcomes of the scheduler's tasks.
LEMMA NoErrorsOutcome == Sched!NoErrors \in Sched!Outcome /\ ~Sched!NoErrors.other
<1> DEFINE About == Coord \X Reasons
<1>1. <<>> \in [1 .. 0 -> About]
  OBVIOUS
<1>2. <<>> \in UNION {[1 .. n -> About] : n \in 0 .. MaxErrors}
  BY <1>1, ScanAssumption
<1> QED BY <1>2 DEF Sched!NoErrors, Sched!Outcome

\* A panic is an outcome the scheduler knows.
LEMMA PanicOutcome == [coords |-> <<>>, other |-> TRUE] \in Sched!Outcome
<1>1. Sched!NoErrors.coords = <<>>
  BY DEF Sched!NoErrors
<1> QED BY <1>1, NoErrorsOutcome DEF Sched!Outcome

\* A task that has begun finds every task of an earlier group over.
LEMMA EarlierOver ==
  ASSUME OrderInv, NEW t \in Planned, status[t] # "waiting",
         NEW u \in Planned, Group(u) < Group(t)
  PROVE  /\ status[u] = "done" /\ ~outcome[u].other
         /\ u # Labeler => step[u] = "over"
<1>1. Group(t) \in Nat /\ Group(u) \in Nat /\ group \in Nat
  BY PlanOrder DEF OrderInv
<1>2. Group(u) < group
  BY <1>1 DEF OrderInv
<1> QED BY <1>2 DEF OrderInv

\* A task whose steps have begun was started.
LEMMA BegunRuns ==
  ASSUME OrderInv, NEW t \in Planned, step[t] # "begin"
  PROVE  status[t] # "waiting"
BY DEF OrderInv

\* What the tasks do is to go from step to step, or to end.
LEMMA StepKinds ==
  ASSUME Next
  PROVE  \/ \E t \in Planned \ {Labeler} :
              /\ \E from, to, value : Goto(t, from, to, value)
              /\ t = "os-feature-detection" => UNCHANGED sbom
         \/ \E t \in Planned : Return(t) \/ Panic(t)
         \/ Label
         \/ Schedule
<1> DEFINE Goes(t) == \E from, to, value : Goto(t, from, to, value)
           O == "os-feature-detection"
<1>1. /\ Relater \in Planned /\ FileTask \subseteq Planned /\ (Config.deepSquashed => Cleaner \in Planned)
      /\ {Labeler, O} \cap (PkgTask \cup FileTask \cup {Relater, Cleaner}) = {}
      /\ Labeler \notin DistroTask
  BY PlanOrder, TaskNameAssumption DEF Labeler, Relater, Cleaner, FileTask, DistroTask
<1>2. ASSUME NEW t \in Planned, Work(t)
      PROVE  \/ Return(t)
             \/ Goes(t) /\ t \in PkgTask
             \/ Goes(t) /\ t \in DistroTask /\ UNCHANGED sbom
  BY <1>2 DEF Work, Catalog, AddFound, RelateFound, DetectDistro
<1>3. ASSUME FileStep PROVE \E t \in FileTask : Goes(t)
  BY <1>3 DEF FileStep, SelectFiles, StoreDigests, StoreExecutables, FileTask
<1>4. ASSUME ScopeStep PROVE Config.deepSquashed /\ Goes(Cleaner)
  BY <1>4 DEF ScopeStep, ReadHidden, DeleteHidden, Cleaner
<1>5. ASSUME RelationshipsStep PROVE Goes(Relater)
  BY <1>5 DEF RelationshipsStep, Relationships, Relater, ReadRepresented, DeleteRepresented,
              ReadOverlap, StoreOverlap, ExcludeBinary, ExcludedAll, ReadBinaries,
              StoreBinaries, AddBinaries, ReadSource, AddSource, ReadEvidence, AddEvidence
<1> HIDE DEF Goes
<1>6. \/ \E t \in Planned \ {Labeler} : Goes(t) /\ (t = O => UNCHANGED sbom)
      \/ \E t \in Planned : Return(t) \/ Panic(t)
      \/ Label
      \/ Schedule
  BY <1>1, <1>2, <1>3, <1>4, <1>5 DEF Next
<1> QED BY <1>6 DEF Goes

\* The first layer.
LEMMA OrderInit == Init => OrderInv
<1> SUFFICES ASSUME Init PROVE OrderInv
  OBVIOUS
<1>1. \A t \in Planned : Group(t) \in 1 .. Len(Plan)
  BY PlanOrder
<1> QED BY <1>1, NoErrorsOutcome, PlanOrder DEF Init, Sched!Init, OrderInv

\* Every step keeps the order of the tasks.
LEMMA OrderStep == OrderInv /\ [Next]_vars => OrderInv'
<1> SUFFICES ASSUME OrderInv, [Next]_vars PROVE OrderInv'
  OBVIOUS
<1> USE DEF OrderInv
<1>0. Len(Plan) \in Nat /\ \A t \in Planned : Group(t) \in 1 .. Len(Plan)
  BY PlanOrder
<1>1. ASSUME NEW t \in Planned, NEW from, NEW to, NEW value, Goto(t, from, to, value)
      PROVE  OrderInv'
  BY <1>1 DEF Goto, schedVars
<1>2. ASSUME NEW t \in Planned, NEW o \in Sched!Outcome, Sched!EndExecute(t, o), UNCHANGED content,
             t = Labeler \/ step[t] = "over" \/ o.other,
             t = Digester => o.other \/ ErrorsAbout(o) = local[t],
             t \notin PkgTask \cup FileTask => o = Sched!NoErrors
      PROVE  OrderInv'
  BY <1>2 DEF Sched!EndExecute, content
<1>3. ASSUME NEW t \in Planned, Return(t) PROVE OrderInv'
  BY <1>2, <1>3 DEF Return, Digester
<1>4. ASSUME NEW t \in Planned, Panic(t) PROVE OrderInv'
  BY <1>2, <1>4, PanicOutcome DEF Panic
<1>5. ASSUME Label PROVE OrderInv'
  <2>1. Labeler \in Planned /\ Labeler \notin PkgTask \cup FileTask /\ Labeler # Digester
    BY PlanOrder, TaskNameAssumption DEF Labeler, Digester, FileTask
  <2>2. /\ status[Labeler] = "running"
        /\ status' = [status EXCEPT ![Labeler] = "executed"]
        /\ outcome' = [outcome EXCEPT ![Labeler] = Sched!NoErrors]
        /\ UNCHANGED <<group, result, content>>
    BY <1>5 DEF Label, Labeler, Sched!LabelUnknowns
  <2> QED BY <2>1, <2>2, NoErrorsOutcome DEF content
<1>6. ASSUME NEW t \in Planned, Sched!StartTask(t), UNCHANGED content PROVE OrderInv'
  <2>1. Group(t) = group /\ status' = [status EXCEPT ![t] = "running"]
    BY <1>6 DEF Sched!StartTask, Group
  <2> QED BY <1>6, <2>1 DEF Sched!StartTask, content
<1>7. ASSUME NEW t \in Planned, Sched!AppendUnknowns(t), UNCHANGED content PROVE OrderInv'
  BY <1>7 DEF Sched!AppendUnknowns, content
<1>8. ASSUME NEW t \in Planned, Sched!FinishTask(t), UNCHANGED content PROVE OrderInv'
  BY <1>8 DEF Sched!FinishTask, content
<1>9. ASSUME Sched!NextGroup, UNCHANGED content PROVE OrderInv'
  <2>1. \A t \in Planned : Group(t) = group => status[t] = "done" /\ ~outcome[t].other
    BY <1>9 DEF Sched!NextGroup, Sched!GroupDone, Sched!Members, Group
  <2>2. group <= Len(Plan) /\ group' = group + 1 /\ result = "none" /\ UNCHANGED <<status, outcome, result>>
    BY <1>9 DEF Sched!NextGroup
  <2>3. \A t \in Planned : Group(t) \in Nat
    BY <1>0
  <2>4. \A t \in Planned :
          /\ Group(t) < group' => status[t] = "done" /\ ~outcome[t].other
          /\ Group(t) > group' => status[t] = "waiting"
    BY <1>0, <2>1, <2>2, <2>3
  <2> QED BY <1>0, <1>9, <2>2, <2>4 DEF content
<1>10. ASSUME Sched!FailGroup \/ Sched!Complete \/ Sched!Return, UNCHANGED content PROVE OrderInv'
  BY <1>10 DEF Sched!FailGroup, Sched!Complete, Sched!Return, content
<1>11. CASE UNCHANGED vars
  BY <1>11 DEF vars, schedVars, content
<1> QED BY <1>1, <1>3, <1>4, <1>5, <1>6, <1>7, <1>8, <1>9, <1>10, <1>11, StepKinds DEF Schedule

-----------------------------------------------------------------------------
(* The builder's methods.                                                  *)

\* The SBOM that CreateSBOM begins with.
LEMMA EmptySbomFacts == EmptySbom \in Sbom /\ \A r : Copies(r, EmptySbom.rels) = 0
<1>1. EmptyBag \in Slice /\ DOMAIN EmptyBag = {}
  BY DEF EmptyBag, SetToBag, Slice
<1> QED BY <1>1 DEF EmptySbom, Sbom, Copies

\* Appending relationships leaves the rest alone and adds one copy of each.
LEMMA AddRelationshipsFacts ==
  ASSUME NEW s \in Sbom, NEW R \in SUBSET Rel, NEW n, n = AddRelationships(s, R)
  PROVE  /\ n \in Sbom
         /\ n.packages = s.packages
         /\ n.executables = s.executables
         /\ n.digests = s.digests
         /\ DOMAIN n.rels = DOMAIN s.rels \cup R
         /\ \A r : r \notin R /\ Copies(r, s.rels) = 0 => Copies(r, n.rels) = 0
         /\ \A r \in R : Copies(r, s.rels) = 0 => Copies(r, n.rels) = 1
<1> DEFINE B == s.rels
           C == B (+) SetToBag(R)
<1>1. PICK D \in SUBSET Rel : B \in [D -> Nat \ {0}]
  BY DEF Sbom, Slice
<1>2. n = [s EXCEPT !.rels = C]
  BY DEF AddRelationships
<1>3. C = [e \in D \cup R |-> (IF e \in D THEN B[e] ELSE 0) + (IF e \in R THEN 1 ELSE 0)]
  BY <1>1 DEF (+), SetToBag
<1> HIDE DEF C
<1>4. C \in [D \cup R -> Nat \ {0}]
  BY <1>1, <1>3
<1>5. C \in Slice
  BY <1>4 DEF Slice
<1>6. n \in Sbom /\ n.packages = s.packages /\ n.executables = s.executables
                 /\ n.digests = s.digests /\ n.rels = C
  BY <1>2, <1>5 DEF Sbom
<1>7. ASSUME NEW r, Copies(r, B) = 0 PROVE Copies(r, C) = IF r \in R THEN 1 ELSE 0
  BY <1>1, <1>3, <1>4, <1>7 DEF Copies
<1> QED BY <1>1, <1>4, <1>6, <1>7

\* A relationship that is not appended is there as often as before.
LEMMA OthersKept ==
  ASSUME NEW s \in Sbom, NEW R \in SUBSET Rel, NEW n, n = AddRelationships(s, R),
         NEW r, r \notin R
  PROVE  /\ Copies(r, s.rels) = 0 => Copies(r, n.rels) = 0
         /\ Copies(r, s.rels) = 1 => Copies(r, n.rels) = 1
<1>1. PICK D \in SUBSET Rel : s.rels \in [D -> Nat \ {0}]
  BY DEF Sbom, Slice
<1>2. n.rels = s.rels (+) SetToBag(R)
  BY DEF AddRelationships, Sbom
<1>3. n.rels = [e \in D \cup R |-> (IF e \in D THEN s.rels[e] ELSE 0) + (IF e \in R THEN 1 ELSE 0)]
  BY <1>1, <1>2 DEF (+), SetToBag
<1> QED BY <1>1, <1>3 DEF Copies

\* One that was not there is there once.
LEMMA AddedOnce ==
  ASSUME NEW s \in Sbom, NEW R \in SUBSET Rel, NEW n, n = AddRelationships(s, R),
         NEW r \in R, Copies(r, s.rels) = 0
  PROVE  Copies(r, n.rels) = 1
BY AddRelationshipsFacts

\* Deleting packages takes their relationships along and nothing else.
LEMMA DeletePackagesFacts ==
  ASSUME NEW s \in Sbom, NEW D, NEW n, n = DeletePackages(s, D)
  PROVE  /\ n \in Sbom
         /\ n.packages = s.packages \ D
         /\ n.executables = s.executables
         /\ n.digests = s.digests
         /\ DOMAIN n.rels = {r \in DOMAIN s.rels : Endpoints(r) \cap D = {}}
         /\ \A r : Copies(r, s.rels) = 0 => Copies(r, n.rels) = 0
<1> DEFINE B == s.rels
           C == WithoutEndpoints(B, D)
           K == {r \in DOMAIN B : Endpoints(r) \cap D = {}}
<1>1. PICK R \in SUBSET Rel : B \in [R -> Nat \ {0}]
  BY DEF Sbom, Slice
<1>2. n = [s EXCEPT !.packages = @ \ D, !.rels = C]
  BY DEF DeletePackages
<1>3. C = [r \in K |-> B[r]]
  BY DEF WithoutEndpoints
<1>4. K \subseteq R /\ K \in SUBSET Rel
  BY <1>1
<1> HIDE DEF C, K
<1>5. C \in [K -> Nat \ {0}]
  BY <1>1, <1>3, <1>4
<1>6. C \in Slice
  BY <1>4, <1>5 DEF Slice
<1>7. n \in Sbom /\ n.packages = s.packages \ D /\ n.executables = s.executables
                 /\ n.digests = s.digests /\ n.rels = C
  BY <1>2, <1>6 DEF Sbom
<1>8. ASSUME NEW r, Copies(r, B) = 0 PROVE Copies(r, C) = 0
  BY <1>1, <1>3, <1>8 DEF Copies, K
<1> QED BY <1>3, <1>7, <1>8 DEF K

-----------------------------------------------------------------------------
(* Who runs beside whom.                                                   *)

\* No two tasks of the plan share a name.
LEMMA Names ==
  /\ Relater \in Planned /\ Digester \in Planned
  /\ PkgTask \subseteq Planned /\ FileTask \subseteq Planned
  /\ PkgTask \cap ({Digester, Cleaner, Relater, Labeler} \cup FileTask \cup DistroTask) = {}
  /\ Digester \in FileTask
  /\ Digester # Cleaner /\ Digester # Relater /\ Cleaner # Relater
  /\ Labeler \notin {Digester, Cleaner, Relater} \cup FileTask
BY PlanOrder, TaskNameAssumption DEF Digester, Cleaner, Relater, Labeler, FileTask, DistroTask

\* While a package task runs, nothing that reads all packages has begun.
LEMMA BesidePackages ==
  ASSUME OrderInv, NEW t \in PkgTask, status[t] = "running"
  PROVE  /\ step[Relater] = "begin"
         /\ Config.deepSquashed => step[Cleaner] = "begin"
         /\ Config.selectOwned => step[Digester] = "begin"
<1>1. t \in Planned
  BY Names
<1>2. ASSUME NEW u \in Planned, Group(t) < Group(u) PROVE step[u] = "begin"
  BY <1>1, <1>2, BegunRuns, EarlierOver
<1> QED BY <1>1, <1>2, PlanOrder, Names

\* While the cleaner runs, the packages and files are catalogued.
LEMMA BesideCleaner ==
  ASSUME OrderInv, Config.deepSquashed, status[Cleaner] = "running"
  PROVE  /\ \A t \in PkgTask \cup FileTask : step[t] = "over"
         /\ step[Relater] = "begin"
<1>1. Cleaner \in Planned
  BY PlanOrder
<1>2. ASSUME NEW u \in PkgTask \cup FileTask PROVE step[u] = "over"
  BY <1>1, EarlierOver, PlanOrder, Names
<1>3. step[Relater] = "begin"
  BY <1>1, BegunRuns, EarlierOver, PlanOrder, Names
<1> QED BY <1>2, <1>3

\* While files owned by packages are digested, the packages are catalogued.
LEMMA BesideDigester ==
  ASSUME OrderInv, Config.selectOwned, status[Digester] = "running"
  PROVE  /\ \A t \in PkgTask : step[t] = "over"
         /\ step[Relater] = "begin"
         /\ Config.deepSquashed => step[Cleaner] = "begin"
<1>1. ASSUME NEW u \in PkgTask PROVE step[u] = "over"
  BY EarlierOver, PlanOrder, Names
<1>2. ASSUME NEW u \in Planned, Group(Digester) < Group(u) PROVE step[u] = "begin"
  BY <1>2, BegunRuns, EarlierOver, Names
<1> QED BY <1>1, <1>2, PlanOrder, Names

\* While relationships are derived, nothing else changes the packages.
LEMMA BesideRelater ==
  ASSUME OrderInv, status[Relater] = "running"
  PROVE  /\ \A t \in PkgTask \cup FileTask : step[t] = "over"
         /\ Config.deepSquashed => step[Cleaner] = "over"
<1>1. ASSUME NEW u \in PkgTask \cup FileTask PROVE step[u] = "over"
  BY EarlierOver, PlanOrder, Names
<1>2. Config.deepSquashed => step[Cleaner] = "over"
  BY EarlierOver, PlanOrder, Names
<1> QED BY <1>1, <1>2

\* A step of a task changes where that task is and what it carries.
LEMMA GotoFacts ==
  ASSUME OrderInv, NEW t \in Planned, NEW from, NEW to, NEW value, Goto(t, from, to, value)
  PROVE  /\ status[t] = "running" /\ step[t] = from
         /\ step'[t] = to /\ local'[t] = value
         /\ \A u \in Planned : u # t => step'[u] = step[u] /\ local'[u] = local[u]
BY DEF Goto, OrderInv

-----------------------------------------------------------------------------
(* The second layer: before the relationships task.                        *)

\* The second layer, at the beginning.
LEMMA ContentInit == Init => ContentInv
<1> SUFFICES ASSUME Init PROVE ContentInv
  OBVIOUS
<1>1. sbom = EmptySbom /\ \A t \in Planned : step[t] = "begin"
  BY DEF Init
<1>2. sbom.packages = {} /\ DOMAIN sbom.rels = {}
  BY <1>1 DEF EmptySbom, EmptyBag, SetToBag
<1>3. PackagesInv
  BY <1>1, EmptySbomFacts, Names DEF PackagesInv
<1>5. CarriedInv
  BY <1>1, Names DEF CarriedInv
<1>6. EvidenceInv
  BY <1>1, EmptySbomFacts, Names DEF EvidenceInv
<1>7. ReplacedInv
  BY <1>2 DEF ReplacedInv
<1>8. OwnedInv
  BY <1>1, <1>2, Names DEF OwnedInv
<1> QED BY <1>3, <1>5, <1>6, <1>7, <1>8 DEF ContentInv

\* What the relationships task has achieved stands as long as it does not move
\* and the packages and relationships stay.
LEMMA RelaterKept ==
  ASSUME ContentInv, sbom'.packages = sbom.packages, sbom'.rels = sbom.rels,
         step'[Relater] = step[Relater], local'[Relater] = local[Relater]
  PROVE  CarriedInv' /\ EvidenceInv' /\ ReplacedInv'
<1>2. CarriedInv'
  BY DEF ContentInv, CarriedInv, Carried, RepresentedByElf, Relater
<1>3. EvidenceInv'
  BY DEF ContentInv, EvidenceInv
<1>4. ReplacedInv'
  BY DEF ContentInv, ReplacedInv, Carried, Relater
<1> QED BY <1>2, <1>3, <1>4

\* Until its relationships task begins, nothing is carried or replaced.
LEMMA RelaterWaits ==
  ASSUME step'[Relater] = "begin"
  PROVE  CarriedInv' /\ ReplacedInv'
BY DEF CarriedInv, ReplacedInv

\* A relationship that is neither to the source nor to evidence.
Early(r) == r.type # "evident-by" /\ (r.type = "contains" => r.from # "source")

\* What happens when relationships of present packages are added.
LEMMA EdgesAdded ==
  ASSUME sbom \in Sbom, NEW R \in SUBSET Rel, sbom' = AddRelationships(sbom, R),
         \A r \in R : Endpoints(r) \cap Pkg \subseteq sbom.packages
  PROVE  Dangling' \subseteq Dangling /\ sbom' \in Sbom
           /\ sbom'.packages = sbom.packages /\ sbom'.digests = sbom.digests
BY AddRelationshipsFacts DEF Dangling

\* And when they are added before the evidence is.
LEMMA EarlyEdgesAdded ==
  ASSUME sbom \in Sbom, NEW R \in SUBSET Rel, sbom' = AddRelationships(sbom, R), EvidenceInv,
         \A r \in R : Early(r),
         step[Relater] \notin {"evidence", "add evidence", "over"},
         step'[Relater] \notin {"evidence", "add evidence", "over"}
  PROVE  EvidenceInv'
<1>1. \A r : r \notin R /\ Copies(r, sbom.rels) = 0 => Copies(r, sbom'.rels) = 0
  BY OthersKept
<1>2. \A p \in Pkg : ~Early(Contained("source", p)) /\ \A f \in Coord : ~Early(EvidentBy(p, f))
  BY DEF Early, Contained, EvidentBy
<1> QED BY <1>1, <1>2 DEF EvidenceInv

\* What happens to it when packages are deleted.
LEMMA PackagesDeleted ==
  ASSUME sbom \in Sbom, NEW D, sbom' = DeletePackages(sbom, D)
  PROVE  /\ Dangling' \subseteq Dangling /\ sbom' \in Sbom
         /\ sbom'.packages = sbom.packages \ D
         /\ sbom'.digests = sbom.digests
         /\ EvidenceInv /\ step[Relater] \notin {"evidence", "add evidence", "over"}
                        /\ step'[Relater] \notin {"evidence", "add evidence", "over"} => EvidenceInv'
<1>1. /\ sbom' \in Sbom
      /\ sbom'.packages = sbom.packages \ D
      /\ sbom'.digests = sbom.digests
      /\ DOMAIN sbom'.rels = {r \in DOMAIN sbom.rels : Endpoints(r) \cap D = {}}
      /\ \A r : Copies(r, sbom.rels) = 0 => Copies(r, sbom'.rels) = 0
  BY DeletePackagesFacts
<1>2. ASSUME NEW r \in Dangling' PROVE r \in Dangling
  <2>1. r \in DOMAIN sbom.rels /\ Endpoints(r) \cap D = {}
    BY <1>1, <1>2 DEF Dangling
  <2>2. ~(Endpoints(r) \cap Pkg \subseteq sbom.packages \ D)
    BY <1>1, <1>2 DEF Dangling
  <2> QED BY <2>1, <2>2 DEF Dangling
<1>4. ASSUME EvidenceInv, step[Relater] \notin {"evidence", "add evidence", "over"},
             step'[Relater] \notin {"evidence", "add evidence", "over"}
      PROVE  EvidenceInv'
  BY <1>1, <1>4 DEF EvidenceInv
<1> QED BY <1>1, <1>2, <1>4

\* Relationships of a cataloger are of its packages, and none is the evidence.
LEMMA FoundFacts ==
  ASSUME NEW P \in SUBSET Pkg, NEW D \in SUBSET {d \in Depends : {d[1], d[2]} \subseteq P}
  PROVE  /\ Found(P, D) \subseteq Rel
         /\ \A r \in Found(P, D) : Early(r) /\ Endpoints(r) \cap Pkg \subseteq P
         /\ Config.fileOwnership =>
              \A p \in P : \A f \in Owned[p] : Contained(p, f) \in Found(P, D)
<1>1. ASSUME NEW p \in P, NEW q \in P
      PROVE  LET r == DependencyOf(p, q)
             IN  r \in Rel /\ Early(r) /\ Endpoints(r) \cap Pkg \subseteq P
  BY DEF DependencyOf, Rel, RelType, Entity, Early, Endpoints
<1>2. ASSUME NEW p \in P, NEW f \in Owned[p]
      PROVE  LET r == Contained(p, f)
             IN  r \in Rel /\ Early(r) /\ Endpoints(r) \cap Pkg \subseteq P
  <2>1. f \in Coord /\ f \notin Pkg /\ p # "source"
    BY ScanAssumption, IdentityAssumption
  <2> QED BY <2>1 DEF Contained, Rel, RelType, Entity, Early, Endpoints
<1>3. ASSUME NEW r \in Found(P, D)
      PROVE  \/ \E p, q \in P : r = DependencyOf(p, q)
             \/ \E p \in P : \E f \in Owned[p] : r = Contained(p, f)
  <2>1. \A d \in D : d[1] \in P /\ d[2] \in P
    OBVIOUS
  <2> QED BY <1>3, <2>1 DEF Found
<1>4. Config.fileOwnership =>
        \A p \in P : \A f \in Owned[p] : Contained(p, f) \in Found(P, D)
  BY DEF Found
<1> QED BY <1>1, <1>2, <1>3, <1>4

\* The tasks one after the other: package tasks,
LEMMA PackageTaskSteps ==
  ASSUME OrderInv, ContentInv, NEW t \in PkgTask, Catalog(t) \/ AddFound(t) \/ RelateFound(t)
  PROVE  ContentInv'
<1>1. t \in Planned /\ t # Relater /\ t # Digester /\ t # Cleaner /\ Relater \in Planned
      /\ Digester \in Planned /\ (Config.deepSquashed => Cleaner \in Planned) /\ PkgTask \subseteq Planned
  BY Names, PlanOrder
<1>2. PICK from, to, value : Goto(t, from, to, value)
  BY DEF Catalog, AddFound, RelateFound
<1>3. /\ status[t] = "running"
      /\ step[Relater] = "begin"
      /\ Config.deepSquashed => step[Cleaner] = "begin"
      /\ Config.selectOwned => step[Digester] = "begin"
  BY <1>1, <1>2, GotoFacts, BesidePackages
<1>4. \A u \in Planned : u # t => step'[u] = step[u] /\ local'[u] = local[u]
  BY <1>1, <1>2, GotoFacts
<1>5. CarriedInv' /\ ReplacedInv'
  BY <1>1, <1>3, <1>4, RelaterWaits
<1>6. PackagesInv /\ EvidenceInv /\ OwnedInv /\ sbom \in Sbom
  BY DEF ContentInv, PackagesInv
<1>7. CASE Catalog(t)
  <2>1. PICK P \in SUBSET Finds[t] : Goto(t, "begin", "catalogued", P)
    BY <1>7 DEF Catalog
  <2>2. P \subseteq Pkg /\ sbom' = sbom
    BY <1>7, ScanAssumption DEF Catalog
  <2>3. step[t] = "begin" /\ step'[t] = "catalogued" /\ local'[t] = P
    BY <1>1, <2>1, GotoFacts
  <2>4. PackagesInv'
    BY <1>1, <1>4, <1>6, <2>2, <2>3 DEF PackagesInv
  <2>5. EvidenceInv'
    BY <1>1, <1>4, <2>2, RelaterKept
  <2>6. OwnedInv'
    BY <1>1, <1>3, <1>4, <1>6, <2>2, <2>3 DEF OwnedInv
  <2> QED BY <1>5, <2>4, <2>5, <2>6 DEF ContentInv
<1>8. CASE AddFound(t)
  <2>1. PICK K \in SUBSET local[t] :
          /\ Goto(t, "catalogued", "added", [kept |-> K, related |-> local[t]])
          /\ sbom' = AddPackages(sbom, K)
    BY <1>8 DEF AddFound
  <2>2. /\ step[t] = "catalogued" /\ step'[t] = "added"
        /\ local'[t] = [kept |-> K, related |-> local[t]]
    BY <1>1, <2>1, GotoFacts
  <2>3. local[t] \subseteq Pkg /\ K \subseteq Pkg
    BY <1>6, <2>2 DEF PackagesInv
  <2>4. /\ sbom' \in Sbom /\ sbom'.packages = sbom.packages \cup K
        /\ sbom'.rels = sbom.rels /\ sbom'.digests = sbom.digests
    BY <1>6, <2>1, <2>3 DEF AddPackages, Sbom
  <2>5. PackagesInv'
    BY <1>1, <1>4, <1>6, <2>2, <2>3, <2>4 DEF PackagesInv
  <2>6. EvidenceInv'
    BY <1>1, <1>3, <1>4, <1>6, <2>4 DEF EvidenceInv
  <2>7. OwnedInv'
    BY <1>1, <1>3, <1>4, <1>6, <2>2, <2>4 DEF OwnedInv
  <2> QED BY <1>5, <2>5, <2>6, <2>7 DEF ContentInv
<1>9. CASE RelateFound(t)
  <2>1. /\ Goto(t, "added", "over", {})
        /\ \E D \in SUBSET {d \in Depends : {d[1], d[2]} \subseteq local[t].related} :
             sbom' = AddRelationships(sbom, Found(local[t].related, D))
    BY <1>9 DEF RelateFound
  <2>2. step[t] = "added" /\ step'[t] = "over"
    BY <1>1, <2>1, GotoFacts
  <2>3. /\ local[t].related \in SUBSET Pkg
        /\ local[t].kept \subseteq local[t].related
    BY <1>6, <2>2 DEF PackagesInv
  <2> DEFINE P == local[t].related
  <2>4. PICK R \in SUBSET Rel :
          /\ sbom' = AddRelationships(sbom, R)
          /\ \A r \in R : Early(r)
          /\ Config.fileOwnership => \A p \in P : \A f \in Owned[p] : Contained(p, f) \in R
    <3>1. P \in SUBSET Pkg
      BY <2>3
    <3>2. PICK D \in SUBSET {d \in Depends : {d[1], d[2]} \subseteq P} :
            sbom' = AddRelationships(sbom, Found(P, D))
      BY <2>1
    <3> HIDE DEF P
    <3>3. /\ Found(P, D) \in SUBSET Rel
          /\ \A r \in Found(P, D) : Early(r)
          /\ Config.fileOwnership =>
               \A p \in P : \A f \in Owned[p] : Contained(p, f) \in Found(P, D)
      BY <3>1, FoundFacts
    <3> QED BY <3>2, <3>3
  <2>5. /\ sbom' \in Sbom /\ sbom'.packages = sbom.packages
        /\ sbom'.digests = sbom.digests
        /\ DOMAIN sbom'.rels = DOMAIN sbom.rels \cup R
    BY <1>6, <2>4, AddRelationshipsFacts
  <2>6. EvidenceInv'
    <3>1. step'[Relater] = "begin"
      BY <1>1, <1>3, <1>4
    <3> QED BY <1>3, <1>6, <2>4, <3>1, EarlyEdgesAdded
  <2>7. PackagesInv'
    BY <1>1, <1>4, <1>6, <2>2, <2>5 DEF PackagesInv
  <2>8. OwnedInv'
    <3>1. Config.selectOwned => step'[Digester] = "begin"
      BY <1>1, <1>3, <1>4
    <3>2. ASSUME Config.selectOwned, Config.fileOwnership, NEW p \in sbom.packages,
                 NEW f \in Owned[p]
          PROVE  \/ Contained(p, f) \in DOMAIN sbom'.rels
                 \/ \E u \in PkgTask : step'[u] = "added" /\ p \in local'[u].kept
      <4>1. \/ Contained(p, f) \in DOMAIN sbom.rels
            \/ \E u \in PkgTask : step[u] = "added" /\ p \in local[u].kept
        BY <1>3, <1>6, <3>2 DEF OwnedInv
      <4>2. CASE p \in local[t].kept
        BY <2>3, <2>4, <2>5, <3>2, <4>2
      <4> QED BY <1>1, <1>4, <2>2, <2>5, <4>1, <4>2
    <3> QED BY <2>5, <3>1, <3>2 DEF OwnedInv
  <2> QED BY <1>5, <2>5, <2>6, <2>7, <2>8 DEF ContentInv
<1> QED BY <1>7, <1>8, <1>9

\* file tasks,
LEMMA FileTaskSteps ==
  ASSUME OrderInv, ContentInv, FileStep
  PROVE  ContentInv'
<1>1. /\ Digester \in Planned /\ "file-executable-cataloger" \in Planned /\ Relater \in Planned
      /\ PkgTask \subseteq Planned /\ (Config.deepSquashed => Cleaner \in Planned)
      /\ \A t \in FileTask : t # Relater /\ t # Cleaner /\ t \notin PkgTask
      /\ FileTask = {Digester, "file-executable-cataloger"}
      /\ Digester # "file-executable-cataloger"
  BY Names, PlanOrder DEF FileTask, Digester, Relater, Cleaner
<1>2. PackagesInv /\ OwnedInv /\ sbom \in Sbom
  BY DEF ContentInv, PackagesInv
<1>3. CASE SelectFiles
  <2> DEFINE C  == SelectedCoordinates
             to == IF C = {} THEN "over" ELSE "selected"
  <2>1. Goto(Digester, "begin", to, C) /\ sbom' = sbom
    BY <1>3 DEF SelectFiles, Digester
  <2>2. /\ status[Digester] = "running" /\ step'[Digester] = to /\ local'[Digester] = C
        /\ \A u \in Planned : u # Digester => step'[u] = step[u] /\ local'[u] = local[u]
    BY <1>1, <2>1, GotoFacts
  <2>3. C \subseteq Coord
    BY <1>2, ScanAssumption DEF SelectedCoordinates, Sbom
  <2>4. PackagesInv'
    <3> HIDE DEF C
    <3> QED BY <1>1, <1>2, <2>1, <2>2, <2>3 DEF PackagesInv
  <2>5. CarriedInv' /\ EvidenceInv' /\ ReplacedInv'
    <3> HIDE DEF C
    <3> QED BY <1>1, <2>1, <2>2, RelaterKept
  <2>6. ASSUME Config.selectOwned, NEW p \in sbom.packages
        PROVE  FilesOf(p) \subseteq C
    <3>1. At[p] \subseteq C
      BY <2>6 DEF SelectedCoordinates
    <3>2. ASSUME Config.fileOwnership, NEW f \in Owned[p] PROVE f \in C
      <4>1. /\ \A t \in PkgTask : step[t] = "over"
            /\ step[Relater] = "begin"
            /\ Config.deepSquashed => step[Cleaner] = "begin"
        BY <2>2, <2>6, BesideDigester
      <4>2. Contained(p, f) \in DOMAIN sbom.rels
        BY <1>2, <2>6, <3>2, <4>1 DEF OwnedInv
      <4>3. p \in Pkg /\ f \in Coord
        BY <1>2, ScanAssumption DEF Sbom
      <4> QED BY <2>6, <4>2, <4>3 DEF SelectedCoordinates, Contained
    <3> QED BY <3>1, <3>2 DEF FilesOf
  <2> HIDE DEF C
  <2>7. OwnedInv'
    <3>1. ASSUME Config.selectOwned, Config.fileOwnership, step'[Relater] = "begin",
                 Config.deepSquashed => step'[Cleaner] # "over",
                 NEW p \in sbom.packages, NEW f \in Owned[p]
          PROVE  \/ Contained(p, f) \in DOMAIN sbom.rels
                 \/ \E t \in PkgTask : step'[t] = "added" /\ p \in local'[t].kept
      <4>1. step[Relater] = "begin" /\ (Config.deepSquashed => step[Cleaner] # "over")
        BY <1>1, <2>2, <3>1
      <4>2. \/ Contained(p, f) \in DOMAIN sbom.rels
            \/ \E t \in PkgTask : step[t] = "added" /\ p \in local[t].kept
        BY <1>2, <3>1, <4>1 DEF OwnedInv
      <4> QED BY <1>1, <2>2, <4>2
    <3>2. CASE C = {}
      <4>1. step'[Digester] = "over"
        BY <2>2, <3>2
      <4>2. Config.selectOwned => \A p \in sbom.packages : FilesOf(p) = {}
        BY <2>6, <3>2
      <4> QED BY <2>1, <3>1, <4>1, <4>2 DEF OwnedInv
    <3>3. CASE C # {}
      <4>1. step'[Digester] = "selected" /\ local'[Digester] = C
        BY <2>2, <3>3
      <4> QED BY <2>1, <2>6, <3>1, <4>1 DEF OwnedInv
    <3> QED BY <3>2, <3>3
  <2> QED BY <2>4, <2>5, <2>7 DEF ContentInv
<1>4. CASE StoreDigests
  <2>1. PICK U \in SUBSET (Suspect \cap local[Digester]) :
          /\ Goto(Digester, "selected", "over", U)
          /\ sbom' = [sbom EXCEPT !.digests = (local[Digester] \cap Regular) \ U]
    BY <1>4 DEF StoreDigests, Digester
  <2>2. /\ step[Digester] = "selected" /\ step'[Digester] = "over" /\ local'[Digester] = U
        /\ \A u \in Planned : u # Digester => step'[u] = step[u] /\ local'[u] = local[u]
    BY <1>1, <2>1, GotoFacts
  <2>3. local[Digester] \subseteq Coord
    BY <1>2, <2>2 DEF PackagesInv
  <2>4. /\ sbom' \in Sbom /\ sbom'.packages = sbom.packages /\ sbom'.rels = sbom.rels
        /\ sbom'.digests = (local[Digester] \cap Regular) \ U
    BY <1>2, <2>1, <2>3 DEF Sbom
  <2>5. PackagesInv'
    BY <1>1, <1>2, <2>2, <2>4 DEF PackagesInv
  <2>6. CarriedInv' /\ EvidenceInv' /\ ReplacedInv'
    BY <1>1, <2>2, <2>4, RelaterKept
  <2>7. OwnedInv'
    BY <1>1, <1>2, <2>2, <2>4 DEF OwnedInv
  <2> QED BY <2>5, <2>6, <2>7 DEF ContentInv
<1>5. CASE StoreExecutables
  <2> DEFINE X == "file-executable-cataloger"
  <2>1. Goto(X, "begin", "over", {}) /\ sbom' = [sbom EXCEPT !.executables = Executable]
    BY <1>5 DEF StoreExecutables
  <2>2. \A u \in Planned : u # X => step'[u] = step[u] /\ local'[u] = local[u]
    BY <1>1, <2>1, GotoFacts
  <2>3. /\ sbom' \in Sbom /\ sbom'.packages = sbom.packages /\ sbom'.rels = sbom.rels
        /\ sbom'.digests = sbom.digests
    BY <1>2, <2>1, ScanAssumption DEF Sbom
  <2>4. PackagesInv'
    BY <1>1, <1>2, <2>2, <2>3 DEF PackagesInv, FileTask
  <2>5. CarriedInv' /\ EvidenceInv' /\ ReplacedInv'
    BY <1>1, <2>2, <2>3, RelaterKept DEF FileTask
  <2>6. OwnedInv'
    BY <1>1, <1>2, <2>2, <2>3 DEF OwnedInv, FileTask
  <2> QED BY <2>4, <2>5, <2>6 DEF ContentInv
<1> QED BY <1>3, <1>4, <1>5 DEF FileStep

\* the deep-squashed cleaner,
LEMMA CleanerSteps ==
  ASSUME OrderInv, ContentInv, ScopeStep
  PROVE  ContentInv'
<1>1. /\ Config.deepSquashed /\ Cleaner \in Planned /\ Digester \in Planned /\ Relater \in Planned
      /\ PkgTask \subseteq Planned /\ Cleaner \notin PkgTask
      /\ Cleaner # Digester /\ Cleaner # Relater
  BY Names, PlanOrder DEF ScopeStep
<1>2. PackagesInv /\ OwnedInv /\ EvidenceInv /\ sbom \in Sbom
  BY DEF ContentInv, PackagesInv
<1>3. PICK from, to, value : Goto(Cleaner, from, to, value)
  BY DEF ScopeStep, ReadHidden, DeleteHidden, Cleaner
<1>4. /\ status[Cleaner] = "running" /\ step[Cleaner] = from /\ step'[Cleaner] = to
      /\ \A u \in Planned : u # Cleaner => step'[u] = step[u] /\ local'[u] = local[u]
  BY <1>1, <1>3, GotoFacts
<1>5. /\ \A t \in PkgTask \cup FileTask : step[t] = "over"
      /\ step[Relater] = "begin"
  BY <1>1, <1>4, BesideCleaner
<1>6. CASE ReadHidden
  <2>1. sbom' = sbom /\ step[Cleaner] = "begin"
    BY <1>1, <1>6, GotoFacts DEF ReadHidden, Cleaner
  <2>2. PackagesInv'
    BY <1>1, <1>2, <1>4, <2>1 DEF PackagesInv
  <2>3. CarriedInv' /\ EvidenceInv' /\ ReplacedInv'
    BY <1>1, <1>4, <2>1, RelaterKept
  <2>4. OwnedInv'
    BY <1>1, <1>2, <1>4, <2>1 DEF OwnedInv
  <2> QED BY <2>2, <2>3, <2>4 DEF ContentInv
<1>7. CASE DeleteHidden
  <2>1. Goto(Cleaner, "clean", "over", {}) /\ sbom' = DeletePackages(sbom, local[Cleaner])
    BY <1>7 DEF DeleteHidden, Cleaner
  <2>2. step'[Cleaner] = "over" /\ step'[Relater] = "begin"
    BY <1>1, <1>4, <1>5, <2>1, GotoFacts
  <2>3. /\ sbom' \in Sbom /\ EvidenceInv'
        /\ sbom'.packages = sbom.packages \ local[Cleaner]
        /\ sbom'.digests = sbom.digests
    BY <1>2, <1>5, <2>1, <2>2, PackagesDeleted
  <2>4. PackagesInv'
    BY <1>1, <1>2, <1>4, <1>5, <2>3 DEF PackagesInv
  <2>5. CarriedInv' /\ ReplacedInv'
    BY <2>2, RelaterWaits
  <2>6. OwnedInv'
    BY <1>1, <1>2, <1>4, <1>5, <2>2, <2>3, Names DEF OwnedInv
  <2> QED BY <2>3, <2>4, <2>5, <2>6 DEF ContentInv
<1> QED BY <1>6, <1>7 DEF ScopeStep

\* the environment task,
LEMMA DistroTaskSteps ==
  ASSUME OrderInv, ContentInv, NEW t \in Planned, DetectDistro(t)
  PROVE  ContentInv'
<1>1. /\ t \notin PkgTask /\ t # Relater /\ t # Digester /\ t # Cleaner
      /\ PkgTask \subseteq Planned /\ Relater \in Planned /\ Digester \in Planned
      /\ (Config.deepSquashed => Cleaner \in Planned)
  BY Names, PlanOrder DEF DetectDistro, DistroTask, Relater, Digester, Cleaner
<1>2. sbom' = sbom /\ \A u \in Planned : u # t => step'[u] = step[u] /\ local'[u] = local[u]
  BY GotoFacts DEF DetectDistro
<1>3. PackagesInv'
  BY <1>1, <1>2 DEF ContentInv, PackagesInv
<1>4. CarriedInv' /\ EvidenceInv' /\ ReplacedInv'
  BY <1>1, <1>2, RelaterKept
<1>5. OwnedInv'
  BY <1>1, <1>2 DEF ContentInv, OwnedInv
<1> QED BY <1>3, <1>4, <1>5 DEF ContentInv

-----------------------------------------------------------------------------
(* The second layer: the relationships task.                               *)

\* A step of the relationships task that leaves the digests alone and adds no
\* package disturbs nothing of what the tasks before it left.
LEMMA RelaterFrame ==
  ASSUME OrderInv, ContentInv, NEW from, NEW to, NEW value, Goto(Relater, from, to, value),
         to # "begin", sbom' \in Sbom, sbom'.packages \subseteq sbom.packages,
         sbom'.digests = sbom.digests
  PROVE  /\ PackagesInv' /\ OwnedInv'
         /\ step[Relater] = from /\ step'[Relater] = to /\ Carried' = value
<1>1. /\ Relater \in Planned /\ Digester \in Planned /\ PkgTask \subseteq Planned
      /\ Relater \notin PkgTask /\ Relater # Digester /\ Digester \in FileTask
  BY Names
<1>2. /\ status[Relater] = "running" /\ step[Relater] = from
      /\ step'[Relater] = to /\ local'[Relater] = value
      /\ \A u \in Planned : u # Relater => step'[u] = step[u] /\ local'[u] = local[u]
  BY <1>1, GotoFacts
<1>3. \A t \in PkgTask \cup FileTask : step[t] = "over"
  BY <1>2, BesideRelater
<1>4. PackagesInv'
  BY <1>1, <1>2, <1>3 DEF PackagesInv
<1>5. OwnedInv'
  BY <1>1, <1>2, <1>3 DEF ContentInv, OwnedInv
<1> QED BY <1>2, <1>4, <1>5 DEF Carried, Relater

\* and the relationships task: ELF packages another package represents,
LEMMA ReadRepresentedStep ==
  ASSUME OrderInv, ContentInv, ReadRepresented
  PROVE  ContentInv'
<1>1. Goto(Relater, "begin", "prune", RepresentedByElf) /\ sbom' = sbom
  BY DEF ReadRepresented, Relationships, Relater
<1>2. sbom \in Sbom /\ EvidenceInv
  BY DEF ContentInv, PackagesInv
<1>3. /\ PackagesInv' /\ OwnedInv' /\ step[Relater] = "begin" /\ step'[Relater] = "prune"
      /\ Carried' = RepresentedByElf
  BY <1>1, <1>2, RelaterFrame
<1>4. CarriedInv'
  BY <1>1, <1>3 DEF CarriedInv, RepresentedByElf
<1>5. EvidenceInv'
  BY <1>1, <1>2, <1>3 DEF EvidenceInv
<1>6. ReplacedInv'
  BY <1>3 DEF ReplacedInv
<1> QED BY <1>3, <1>4, <1>5, <1>6 DEF ContentInv

\* The cleaner deletes the packages others stand for.
LEMMA DeleteRepresentedStep ==
  ASSUME OrderInv, ContentInv, DeleteRepresented
  PROVE  ContentInv'
<1> DEFINE to == IF Config.overlap THEN "overlap" ELSE "binaries"
<1>1. Goto(Relater, "prune", to, {}) /\ sbom' = DeletePackages(sbom, Carried)
  BY DEF DeleteRepresented, Relationships, Relater
<1>2. sbom \in Sbom /\ EvidenceInv /\ CarriedInv /\ Relater \in Planned
  BY Names DEF ContentInv, PackagesInv
<1>3. step[Relater] = "prune" /\ step'[Relater] = to
  BY <1>1, <1>2, GotoFacts
<1>4. /\ EvidenceInv' /\ sbom' \in Sbom
      /\ sbom'.packages = sbom.packages \ Carried /\ sbom'.digests = sbom.digests
  BY <1>1, <1>2, <1>3, PackagesDeleted
<1>5. PackagesInv' /\ OwnedInv'
  BY <1>1, <1>4, RelaterFrame
<1>6. CarriedInv'
  BY <1>3 DEF CarriedInv
<1>7. ReplacedInv'
  <2> SUFFICES ASSUME NEW q \in sbom'.packages, NEW p \in sbom'.packages
               PROVE  /\ ~Represents(q, p)
                      /\ Config.excludeBinaries /\ Replaces(q, p) => step'[Relater] = "overlap"
    BY DEF ReplacedInv
  <2>1. Carried = RepresentedByElf
    BY <1>2, <1>3 DEF CarriedInv
  <2>2. p \in sbom.packages /\ q \in sbom.packages /\ p \notin RepresentedByElf
    BY <1>4, <2>1
  <2>3. ~Represents(q, p)
    BY <2>2 DEF RepresentedByElf, Represents, IsBinary
  <2>4. Config.excludeBinaries => Config.overlap
    BY ConfigAssumption
  <2> QED BY <1>3, <2>3, <2>4
<1> QED BY <1>4, <1>5, <1>6, <1>7 DEF ContentInv

\* What replaces a package owns or classifies it by an edge that condemns it.
LEMMA ReplacesCondemns ==
  ASSUME NEW q, NEW p, Replaces(q, p)
  PROVE  Condemned(Overlap(q, p)) = {p} /\ q # p /\ Claims(q, p)
<1>1. Overlap(q, p).from = q /\ Overlap(q, p).to = p
  BY DEF Overlap
<1> QED BY <1>1 DEF Replaces, Condemned, IsBinary

\* overlap by ownership and the exclusion of binaries by it,
LEMMA ReadOverlapStep ==
  ASSUME OrderInv, ContentInv, ReadOverlap
  PROVE  ContentInv'
<1>1. Goto(Relater, "overlap", "store overlap", OverlapEdges) /\ sbom' = sbom
  BY DEF ReadOverlap, Relationships, Relater
<1>2. sbom \in Sbom /\ EvidenceInv /\ ReplacedInv
  BY DEF ContentInv, PackagesInv
<1>3. /\ PackagesInv' /\ OwnedInv' /\ step[Relater] = "overlap"
      /\ step'[Relater] = "store overlap" /\ Carried' = OverlapEdges
  <2>1. sbom' \in Sbom /\ sbom'.packages \subseteq sbom.packages /\ sbom'.digests = sbom.digests
    BY <1>1, <1>2
  <2>2. "store overlap" # "begin"
    OBVIOUS
  <2> QED BY <1>1, <2>1, <2>2, RelaterFrame, Zenon
<1>4. sbom.packages \subseteq Pkg
  BY <1>2 DEF Sbom
<1>5. ASSUME NEW r \in OverlapEdges
      PROVE  \E q, p \in sbom.packages : r = Overlap(q, p) /\ q # p /\ Claims(q, p)
  BY <1>5 DEF OverlapEdges
<1>6. ASSUME NEW q \in sbom.packages, NEW p \in sbom.packages
      PROVE  /\ Overlap(q, p) \in Rel
             /\ Endpoints(Overlap(q, p)) \cap Pkg \subseteq sbom.packages
             /\ Overlap(q, p).type \notin {"contains", "evident-by"}
  BY <1>4 DEF Overlap, Rel, RelType, Entity, Endpoints
<1>7. CarriedInv'
  <2>1. ASSUME NEW r \in OverlapEdges
        PROVE  /\ \E q, p \in Pkg : r = Overlap(q, p) /\ q # p /\ Claims(q, p)
               /\ r \in Rel /\ Endpoints(r) \cap Pkg \subseteq sbom.packages
               /\ r.type \notin {"contains", "evident-by"}
    BY <1>4, <1>5, <1>6
  <2> QED BY <1>1, <1>3, <2>1 DEF CarriedInv
<1>8. EvidenceInv'
  BY <1>1, <1>2, <1>3 DEF EvidenceInv
<1>9. ASSUME NEW q \in sbom.packages, NEW p \in sbom.packages, Replaces(q, p)
      PROVE  Overlap(q, p) \in OverlapEdges
  <2>1. q # p /\ Claims(q, p)
    BY <1>9, ReplacesCondemns
  <2>2. <<q, p>> \in {d \in sbom.packages \X sbom.packages :
                        d[1] # d[2] /\ Claims(d[1], d[2])}
    BY <2>1
  <2> QED BY <2>2 DEF OverlapEdges
<1>10. ReplacedInv'
  BY <1>1, <1>2, <1>3, <1>9 DEF ReplacedInv
<1> QED BY <1>3, <1>7, <1>8, <1>10 DEF ContentInv

\* The overlaps that were carried are stored.
LEMMA StoreOverlapStep ==
  ASSUME OrderInv, ContentInv, StoreOverlap
  PROVE  ContentInv'
<1> DEFINE to == IF Config.excludeBinaries THEN "exclude" ELSE "binaries"
<1>1. Goto(Relater, "store overlap", to, Carried) /\ sbom' = AddRelationships(sbom, Carried)
  BY DEF StoreOverlap, Relationships, Relater
<1>2. sbom \in Sbom /\ EvidenceInv /\ CarriedInv /\ ReplacedInv /\ Relater \in Planned
  BY Names DEF ContentInv, PackagesInv
<1>3. step[Relater] = "store overlap" /\ step'[Relater] = to
  BY <1>1, <1>2, GotoFacts
<1>4. /\ Carried \in SUBSET Rel
      /\ \A r \in Carried : Endpoints(r) \cap Pkg \subseteq sbom.packages /\ Early(r)
  BY <1>2, <1>3 DEF CarriedInv, Early
<1>5. /\ sbom' \in Sbom
      /\ sbom'.packages = sbom.packages /\ sbom'.digests = sbom.digests
  BY <1>1, <1>2, <1>4, EdgesAdded
<1>6. EvidenceInv'
  BY <1>1, <1>2, <1>3, <1>4, EarlyEdgesAdded
<1>7. PackagesInv' /\ OwnedInv' /\ Carried' = Carried
  <2>1. sbom'.packages \subseteq sbom.packages /\ to # "begin"
    BY <1>5
  <2> HIDE DEF to
  <2> QED BY <1>1, <1>5, <2>1, RelaterFrame, Zenon
<1>8. CarriedInv'
  BY <1>2, <1>3, <1>7 DEF CarriedInv
<1>9. ReplacedInv'
  BY <1>2, <1>3, <1>5, <1>7 DEF ReplacedInv
<1> QED BY <1>5, <1>6, <1>7, <1>8, <1>9 DEF ContentInv

\* One binary package that is owned by overlap is deleted.
LEMMA ExcludeBinaryStep ==
  ASSUME OrderInv, ContentInv, ExcludeBinary
  PROVE  ContentInv'
<1>1. PICK r \in Carried :
        /\ Goto(Relater, "exclude", "exclude", Carried \ {r})
        /\ sbom' = IF Endpoints(r) \subseteq sbom.packages
                     THEN DeletePackages(sbom, Condemned(r)) ELSE sbom
  BY DEF ExcludeBinary, Relationships, Relater
<1>2. sbom \in Sbom /\ EvidenceInv /\ CarriedInv /\ ReplacedInv /\ Relater \in Planned
  BY Names DEF ContentInv, PackagesInv
<1>3. step[Relater] = "exclude" /\ step'[Relater] = "exclude"
  BY <1>1, <1>2, GotoFacts
<1> DEFINE gone == IF Endpoints(r) \subseteq sbom.packages THEN Condemned(r) ELSE {}
<1>4. /\ EvidenceInv' /\ sbom' \in Sbom
      /\ sbom'.packages = sbom.packages \ gone /\ sbom'.digests = sbom.digests
  <2>1. CASE Endpoints(r) \subseteq sbom.packages
    BY <1>1, <1>2, <1>3, <2>1, PackagesDeleted
  <2>2. CASE ~(Endpoints(r) \subseteq sbom.packages)
    BY <1>1, <1>2, <1>3, <2>2 DEF EvidenceInv
  <2> QED BY <2>1, <2>2
<1> HIDE DEF gone
<1>5. PackagesInv' /\ OwnedInv' /\ Carried' = Carried \ {r}
  <2>1. sbom'.packages \subseteq sbom.packages
    BY <1>4
  <2> QED BY <1>1, <1>4, <2>1, RelaterFrame
<1>6. CarriedInv'
  BY <1>2, <1>3, <1>5 DEF CarriedInv
<1>7. ReplacedInv'
  <2> SUFFICES ASSUME NEW q \in sbom'.packages, NEW p \in sbom'.packages
               PROVE  /\ ~Represents(q, p)
                      /\ Config.excludeBinaries /\ Replaces(q, p) => Overlap(q, p) \in Carried'
    BY <1>3 DEF ReplacedInv
  <2>1. q \in sbom.packages /\ p \in sbom.packages /\ p \notin gone
    BY <1>4
  <2>2. ~Represents(q, p)
    BY <1>2, <1>3, <2>1 DEF ReplacedInv
  <2>3. ASSUME Config.excludeBinaries, Replaces(q, p) PROVE Overlap(q, p) \in Carried'
    <3>1. Overlap(q, p) \in Carried
      BY <1>2, <1>3, <2>1, <2>3 DEF ReplacedInv
    <3>2. Overlap(q, p) # r
      <4>1. Condemned(Overlap(q, p)) = {p}
        BY <2>3, ReplacesCondemns
      <4>2. Endpoints(Overlap(q, p)) = {q, p}
        BY DEF Endpoints, Overlap
      <4> QED BY <2>1, <4>1, <4>2 DEF gone
    <3> QED BY <1>5, <3>1, <3>2
  <2> QED BY <2>2, <2>3
<1> QED BY <1>4, <1>5, <1>6, <1>7 DEF ContentInv

\* None is left to be deleted.
LEMMA ExcludedAllStep ==
  ASSUME OrderInv, ContentInv, ExcludedAll
  PROVE  ContentInv'
<1>1. Goto(Relater, "exclude", "binaries", {}) /\ sbom' = sbom /\ Carried = {}
  BY DEF ExcludedAll, Relationships, Relater
<1>2. sbom \in Sbom /\ EvidenceInv /\ ReplacedInv
  BY DEF ContentInv, PackagesInv
<1>3. PackagesInv' /\ OwnedInv' /\ step[Relater] = "exclude" /\ step'[Relater] = "binaries"
  BY <1>1, <1>2, RelaterFrame
<1>4. CarriedInv'
  BY <1>3 DEF CarriedInv
<1>5. EvidenceInv' /\ ReplacedInv'
  BY <1>1, <1>2, <1>3 DEF EvidenceInv, ReplacedInv
<1> QED BY <1>3, <1>4, <1>5 DEF ContentInv

\* From here on the packages stay as they are.
Late == {"binaries", "store binaries", "add binaries", "source", "add source",
         "evidence", "add evidence", "over"}

\* the steps after the exclusion, which only add relationships:
LEMMA LateStep ==
  ASSUME OrderInv, ContentInv, NEW from \in Late, NEW to \in Late, NEW value,
         Goto(Relater, from, to, value), sbom' \in Sbom,
         sbom'.packages = sbom.packages, sbom'.digests = sbom.digests
  PROVE  /\ PackagesInv' /\ OwnedInv' /\ ReplacedInv'
         /\ step[Relater] = from /\ step'[Relater] = to /\ Carried' = value
<1>1. to # "begin" /\ sbom'.packages \subseteq sbom.packages
  BY DEF Late
<1>2. /\ PackagesInv' /\ OwnedInv' /\ step[Relater] = from /\ step'[Relater] = to
      /\ Carried' = value
  BY <1>1, RelaterFrame, Zenon
<1>3. ReplacedInv'
  BY <1>2 DEF ContentInv, ReplacedInv, Late
<1> QED BY <1>2, <1>3

\* A step that only reads.
LEMMA LateRead ==
  ASSUME OrderInv, ContentInv, NEW from \in Late, NEW to \in Late, NEW value,
         Goto(Relater, from, to, value), sbom' = sbom,
         from \in {"evidence", "add evidence", "over"} <=> to \in {"evidence", "add evidence", "over"},
         from = "over" <=> to = "over"
  PROVE  /\ PackagesInv' /\ OwnedInv' /\ ReplacedInv' /\ EvidenceInv'
         /\ step'[Relater] = to /\ Carried' = value
<1>1. sbom' \in Sbom /\ EvidenceInv
  BY DEF ContentInv, PackagesInv
<1>2. /\ PackagesInv' /\ OwnedInv' /\ ReplacedInv'
      /\ step[Relater] = from /\ step'[Relater] = to /\ Carried' = value
  BY <1>1, LateStep
<1>3. EvidenceInv'
  BY <1>1, <1>2 DEF EvidenceInv
<1> QED BY <1>2, <1>3

\* dependencies of binaries,
LEMMA BinaryDependencyFacts ==
  ASSUME sbom \in Sbom, NEW r \in BinaryDependencies
  PROVE  /\ r \in Rel /\ Endpoints(r) \cap Pkg \subseteq sbom.packages
         /\ r.type \notin {"contains", "evident-by"}
<1>1. sbom.packages \subseteq Pkg
  BY DEF Sbom
<1>2. PICK e \in sbom.packages, l \in Coord :
        r = DependencyOf(l, e) \/ \E q \in Owners(l) : r = DependencyOf(q, e)
  BY DEF BinaryDependencies
<1>3. Owners(l) \subseteq sbom.packages
  BY DEF Owners
<1>4. PICK q \in sbom.packages \cup Coord : r = DependencyOf(q, e)
  BY <1>2, <1>3
<1>5. r = [from |-> q, type |-> "dependency-of", to |-> e]
  BY <1>4 DEF DependencyOf
<1>6. r.from = q /\ r.to = e /\ r.type = "dependency-of"
  BY <1>5
<1>7. r \in Rel
  BY <1>1, <1>5 DEF Rel, RelType, Entity
<1>8. Endpoints(r) \cap Pkg \subseteq sbom.packages
  BY <1>6, IdentityAssumption DEF Endpoints
<1> QED BY <1>6, <1>7, <1>8

\* The packages of binaries are read.
LEMMA ReadBinariesStep ==
  ASSUME OrderInv, ContentInv, ReadBinaries
  PROVE  ContentInv'
<1>1. Goto(Relater, "binaries", "store binaries", BinaryDependencies) /\ sbom' = sbom
  BY DEF ReadBinaries, Relationships, Relater
<1>2. /\ PackagesInv' /\ OwnedInv' /\ ReplacedInv' /\ EvidenceInv'
      /\ step'[Relater] = "store binaries" /\ Carried' = BinaryDependencies
  BY <1>1, LateRead DEF Late
<1>3. sbom \in Sbom
  BY DEF ContentInv, PackagesInv
<1>4. \A r \in BinaryDependencies : /\ r \in Rel /\ Endpoints(r) \cap Pkg \subseteq sbom.packages
                                    /\ r.type \notin {"contains", "evident-by"}
  BY <1>3, BinaryDependencyFacts
<1>5. CarriedInv'
  BY <1>1, <1>2, <1>4 DEF CarriedInv
<1> QED BY <1>2, <1>5 DEF ContentInv

\* What binaries depend on is stored.
LEMMA StoreBinariesStep ==
  ASSUME OrderInv, ContentInv, StoreBinaries \/ AddBinaries
  PROVE  ContentInv'
<1>0. PICK from \in {"store binaries", "add binaries"}, to \in {"add binaries", "source"} :
        \E value : /\ Goto(Relater, from, to, value)
                   /\ sbom' = AddRelationships(sbom, Carried)
                   /\ to = "add binaries" => value = Carried
  BY DEF StoreBinaries, AddBinaries, Relationships, Relater
<1>1. PICK value : /\ Goto(Relater, from, to, value)
                   /\ sbom' = AddRelationships(sbom, Carried)
                   /\ to = "add binaries" => value = Carried
  BY <1>0
<1>2. sbom \in Sbom /\ EvidenceInv /\ CarriedInv /\ Relater \in Planned
  BY Names DEF ContentInv, PackagesInv
<1>3. step[Relater] = from /\ step'[Relater] = to
  BY <1>1, <1>2, GotoFacts
<1>4. /\ Carried \in SUBSET Rel
      /\ \A r \in Carried : Endpoints(r) \cap Pkg \subseteq sbom.packages /\ Early(r)
                              /\ r.type \notin {"contains", "evident-by"}
  BY <1>2, <1>3 DEF CarriedInv, Early
<1>5. /\ sbom' \in Sbom
      /\ sbom'.packages = sbom.packages /\ sbom'.digests = sbom.digests
  BY <1>1, <1>2, <1>4, EdgesAdded
<1>6. EvidenceInv'
  BY <1>1, <1>2, <1>3, <1>4, EarlyEdgesAdded
<1>7. PackagesInv' /\ OwnedInv' /\ ReplacedInv' /\ Carried' = value
  <2>1. from \in Late /\ to \in Late
    BY DEF Late
  <2> QED BY <1>1, <1>5, <2>1, LateStep
<1>8. CarriedInv'
  BY <1>1, <1>3, <1>4, <1>5, <1>7 DEF CarriedInv
<1> QED BY <1>5, <1>6, <1>7, <1>8 DEF ContentInv

\* the relationships of the source,
LEMMA ReadSourceStep ==
  ASSUME OrderInv, ContentInv, ReadSource
  PROVE  ContentInv'
<1> DEFINE edges == {Contained("source", p) : p \in sbom.packages}
<1>1. Goto(Relater, "source", "add source", edges) /\ sbom' = sbom
  BY DEF ReadSource, Relationships, Relater
<1> HIDE DEF edges
<1>2. /\ PackagesInv' /\ OwnedInv' /\ ReplacedInv' /\ EvidenceInv'
      /\ step'[Relater] = "add source" /\ Carried' = edges
  BY <1>1, LateRead DEF Late
<1>3. CarriedInv'
  BY <1>1, <1>2 DEF CarriedInv, edges
<1> QED BY <1>2, <1>3 DEF ContentInv

\* The source is given the packages it contains.
LEMMA AddSourceStep ==
  ASSUME OrderInv, ContentInv, AddSource
  PROVE  ContentInv'
<1>1. Goto(Relater, "add source", "evidence", {}) /\ sbom' = AddRelationships(sbom, Carried)
  BY DEF AddSource, Relationships, Relater
<1>2. sbom \in Sbom /\ EvidenceInv /\ CarriedInv /\ Relater \in Planned
  BY Names DEF ContentInv, PackagesInv
<1>3. step[Relater] = "add source" /\ step'[Relater] = "evidence"
  BY <1>1, <1>2, GotoFacts
<1>4. Carried = {Contained("source", p) : p \in sbom.packages} /\ sbom.packages \subseteq Pkg
  BY <1>2, <1>3 DEF CarriedInv, Sbom
<1>5. ASSUME NEW p \in sbom.packages
      PROVE  /\ Contained("source", p) \in Rel
             /\ Endpoints(Contained("source", p)) \cap Pkg \subseteq sbom.packages
  BY <1>4, IdentityAssumption DEF Contained, Rel, RelType, Entity, Endpoints
<1>6. /\ Carried \in SUBSET Rel
      /\ \A r \in Carried : Endpoints(r) \cap Pkg \subseteq sbom.packages
  BY <1>4, <1>5
<1>7. /\ sbom' \in Sbom
      /\ sbom'.packages = sbom.packages /\ sbom'.digests = sbom.digests
  BY <1>1, <1>2, <1>6, EdgesAdded
<1>8. PackagesInv' /\ OwnedInv' /\ ReplacedInv'
  BY <1>1, <1>7, LateStep DEF Late
<1>9. CarriedInv'
  BY <1>3 DEF CarriedInv
<1>10. EvidenceInv'
  <2>1. ASSUME NEW p \in Pkg
        PROVE  /\ Contained("source", p) \in Carried <=> p \in sbom.packages
               /\ \A f \in Coord : EvidentBy(p, f) \notin Carried
    BY <1>4 DEF Contained, EvidentBy
  <2>2. ASSUME NEW p \in Pkg
        PROVE  Copies(Contained("source", p), sbom'.rels) = IF p \in sbom.packages THEN 1 ELSE 0
    <3>1. Copies(Contained("source", p), sbom.rels) = 0
      BY <1>2, <1>3 DEF EvidenceInv
    <3>2. CASE p \in sbom.packages
      BY <1>1, <1>2, <1>6, <2>1, <3>1, <3>2, AddedOnce
    <3>3. CASE p \notin sbom.packages
      BY <1>1, <1>2, <1>6, <2>1, <3>1, <3>3, OthersKept
    <3> QED BY <3>2, <3>3
  <2>3. ASSUME NEW p \in Pkg, NEW f \in Coord PROVE Copies(EvidentBy(p, f), sbom'.rels) = 0
    <3>1. Copies(EvidentBy(p, f), sbom.rels) = 0
      BY <1>2, <1>3 DEF EvidenceInv
    <3> QED BY <1>1, <1>2, <1>6, <2>1, <3>1, OthersKept
  <2> QED BY <1>3, <1>7, <2>2, <2>3 DEF EvidenceInv
<1> QED BY <1>7, <1>8, <1>9, <1>10 DEF ContentInv

\* and the evidence.
LEMMA ReadEvidenceStep ==
  ASSUME OrderInv, ContentInv, ReadEvidence
  PROVE  ContentInv'
<1> DEFINE edges == UNION {{EvidentBy(p, f) : f \in At[p]} : p \in sbom.packages}
<1>1. Goto(Relater, "evidence", "add evidence", edges) /\ sbom' = sbom
  BY DEF ReadEvidence, Relationships, Relater
<1> HIDE DEF edges
<1>2. /\ PackagesInv' /\ OwnedInv' /\ ReplacedInv' /\ EvidenceInv'
      /\ step'[Relater] = "add evidence" /\ Carried' = edges
  BY <1>1, LateRead DEF Late
<1>3. CarriedInv'
  BY <1>1, <1>2 DEF CarriedInv, edges
<1> QED BY <1>2, <1>3 DEF ContentInv

\* Packages are given their evidence.
LEMMA AddEvidenceStep ==
  ASSUME OrderInv, ContentInv, AddEvidence
  PROVE  ContentInv'
<1>1. Goto(Relater, "add evidence", "over", {}) /\ sbom' = AddRelationships(sbom, Carried)
  BY DEF AddEvidence, Relationships, Relater
<1>2. sbom \in Sbom /\ EvidenceInv /\ CarriedInv /\ Relater \in Planned
  BY Names DEF ContentInv, PackagesInv
<1>3. step[Relater] = "add evidence" /\ step'[Relater] = "over"
  BY <1>1, <1>2, GotoFacts
<1>4. /\ Carried = UNION {{EvidentBy(p, f) : f \in At[p]} : p \in sbom.packages}
      /\ sbom.packages \subseteq Pkg
  BY <1>2, <1>3 DEF CarriedInv, Sbom
<1>5. ASSUME NEW p \in sbom.packages, NEW f \in At[p]
      PROVE  /\ EvidentBy(p, f) \in Rel
             /\ Endpoints(EvidentBy(p, f)) \cap Pkg \subseteq sbom.packages
  <2>1. f \in Coord /\ f \notin Pkg /\ p \in Pkg
    BY <1>4, ScanAssumption, IdentityAssumption
  <2> QED BY <2>1 DEF EvidentBy, Rel, RelType, Entity, Endpoints
<1>6. /\ Carried \in SUBSET Rel
      /\ \A r \in Carried : Endpoints(r) \cap Pkg \subseteq sbom.packages
  BY <1>4, <1>5
<1>7. /\ sbom' \in Sbom
      /\ sbom'.packages = sbom.packages /\ sbom'.digests = sbom.digests
  BY <1>1, <1>2, <1>6, EdgesAdded
<1>8. PackagesInv' /\ OwnedInv' /\ ReplacedInv'
  BY <1>1, <1>7, LateStep DEF Late
<1>9. CarriedInv'
  BY <1>3 DEF CarriedInv
<1>10. EvidenceInv'
  <2>1. ASSUME NEW p \in Pkg
        PROVE  /\ Contained("source", p) \notin Carried
               /\ \A f \in Coord : EvidentBy(p, f) \in Carried <=> p \in sbom.packages /\ f \in At[p]
    <3>1. ASSUME NEW r \in Carried
          PROVE  /\ r.type = "evident-by"
                 /\ r.from \in sbom.packages /\ r.to \in At[r.from]
      BY <1>4 DEF EvidentBy
    <3>2. Contained("source", p).type = "contains"
      BY DEF Contained
    <3>3. \A f : EvidentBy(p, f).from = p /\ EvidentBy(p, f).to = f
      BY DEF EvidentBy
    <3>4. ASSUME p \in sbom.packages, NEW f \in At[p] PROVE EvidentBy(p, f) \in Carried
      BY <1>4, <3>4
    <3> QED BY <3>1, <3>2, <3>3, <3>4
  <2>2. ASSUME NEW p \in Pkg
        PROVE  Copies(Contained("source", p), sbom'.rels) = IF p \in sbom.packages THEN 1 ELSE 0
    <3>1. Copies(Contained("source", p), sbom.rels) = IF p \in sbom.packages THEN 1 ELSE 0
      BY <1>2, <1>3 DEF EvidenceInv
    <3>2. Contained("source", p) \notin Carried
      BY <2>1
    <3> HIDE DEF Contained
    <3>3. /\ Copies(Contained("source", p), sbom.rels) = 0 =>
               Copies(Contained("source", p), sbom'.rels) = 0
          /\ Copies(Contained("source", p), sbom.rels) = 1 =>
               Copies(Contained("source", p), sbom'.rels) = 1
      BY <1>1, <1>2, <1>6, <3>2, OthersKept
    <3> QED BY <3>1, <3>3
  <2>3. ASSUME NEW p \in Pkg, NEW f \in Coord
        PROVE  Copies(EvidentBy(p, f), sbom'.rels) =
                 IF p \in sbom.packages /\ f \in At[p] THEN 1 ELSE 0
    <3>1. Copies(EvidentBy(p, f), sbom.rels) = 0
      BY <1>2, <1>3 DEF EvidenceInv
    <3>2. CASE p \in sbom.packages /\ f \in At[p]
      BY <1>1, <1>2, <1>6, <2>1, <3>1, <3>2, AddedOnce
    <3>3. CASE ~(p \in sbom.packages /\ f \in At[p])
      BY <1>1, <1>2, <1>6, <2>1, <3>1, <3>3, OthersKept
    <3> QED BY <3>2, <3>3
  <2> QED BY <1>3, <1>7, <2>2, <2>3 DEF EvidenceInv
<1> QED BY <1>7, <1>8, <1>9, <1>10 DEF ContentInv

\* All steps of the relationships task.
LEMMA RelaterSteps ==
  ASSUME OrderInv, ContentInv, RelationshipsStep
  PROVE  ContentInv'
BY ReadRepresentedStep, DeleteRepresentedStep, ReadOverlapStep, StoreOverlapStep,
   ExcludeBinaryStep, ExcludedAllStep, ReadBinariesStep, StoreBinariesStep,
   ReadSourceStep, AddSourceStep, ReadEvidenceStep, AddEvidenceStep
   DEF RelationshipsStep

\* Every step keeps the second layer, given the first.
LEMMA ContentStep == OrderInv /\ ContentInv /\ [Next]_vars => ContentInv'
<1> SUFFICES ASSUME OrderInv, ContentInv, [Next]_vars PROVE ContentInv'
  OBVIOUS
<1>1. ASSUME UNCHANGED content PROVE ContentInv'
  <2>1. sbom' = sbom /\ step' = step /\ local' = local
    BY <1>1 DEF content
  <2>2. PackagesInv'
    BY <2>1 DEF ContentInv, PackagesInv
  <2>3. CarriedInv'
    BY <2>1 DEF ContentInv, CarriedInv, Carried, RepresentedByElf
  <2>4. EvidenceInv'
    BY <2>1 DEF ContentInv, EvidenceInv
  <2>5. ReplacedInv' /\ OwnedInv'
    BY <2>1 DEF ContentInv, ReplacedInv, OwnedInv, Carried
  <2> QED BY <2>2, <2>3, <2>4, <2>5 DEF ContentInv
<1>2. ASSUME NEW t \in Planned, Work(t) \/ Panic(t) PROVE ContentInv'
  <2>1. CASE t \in PkgTask /\ (Catalog(t) \/ AddFound(t) \/ RelateFound(t))
    BY <2>1, PackageTaskSteps
  <2>2. CASE DetectDistro(t)
    BY <2>2, DistroTaskSteps
  <2>3. CASE Return(t) \/ Panic(t)
    BY <1>1, <2>3 DEF Return, Panic
  <2> QED BY <1>2, <2>1, <2>2, <2>3 DEF Work, Catalog, AddFound, RelateFound
<1>3. ASSUME Label \/ Schedule \/ UNCHANGED vars PROVE ContentInv'
  BY <1>1, <1>3 DEF Label, Schedule, vars
<1> QED BY <1>2, <1>3, FileTaskSteps, CleanerSteps, RelaterSteps DEF Next

-----------------------------------------------------------------------------
(* The third layer.                                                        *)

\* The operators of the two instances of the scheduler are the same ones.
LEMMA SameUnknown ==
  ASSUME NEW u, NEW t, NEW e
  PROVE  Sched!WithUnknown(u, t, e) = SchedProofs!WithUnknown(u, t, e)
BY DEF SchedProofs!WithUnknown, Sched!WithUnknown, Sched!Contains, SchedProofs!Contains

\* The operator is the one the proofs about the scheduler speak of.
LEMMA SameUnknowns ==
  ASSUME NEW u, NEW t, NEW es
  PROVE  Sched!WithUnknowns(u, t, es) = SchedProofs!WithUnknowns(u, t, es)
BY SameUnknown, Zenon DEF SchedProofs!WithUnknowns, Sched!WithUnknowns

\* The assumptions of the scheduler hold of this plan.
LEMMA PlanAssumptions ==
  /\ SchedProofs!IsFiniteSet(Planned)
  /\ Len(Plan) \in Nat \ {0} /\ [t \in Planned |-> CHOOSE g \in DOMAIN Plan : t \in Plan[g]] \in [Planned -> 1 .. Len(Plan)]
  /\ Slots \in Nat \ {0}
  /\ MaxErrors \in Nat
  /\ {"unknowns-labeler"} \subseteq Planned
  /\ FALSE \in BOOLEAN
<1>1. IsFiniteSet(Planned)
  <2>1. IsFiniteSet(PkgTask)
    BY ScanAssumption
  <2> DEFINE Named == {"file-digest-cataloger", "file-executable-cataloger",
                       "environment-cataloger", "os-feature-detection",
                       "relationships-cataloger", "unknowns-labeler", "deep-squashed-cleaner"}
  <2>2. IsFiniteSet(Named)
    <3>1. IsFiniteSet({"unknowns-labeler"}) /\ IsFiniteSet({"deep-squashed-cleaner"})
          /\ IsFiniteSet({"relationships-cataloger"}) /\ IsFiniteSet({"os-feature-detection"})
          /\ IsFiniteSet({"environment-cataloger"}) /\ IsFiniteSet({"file-digest-cataloger"})
          /\ IsFiniteSet({"file-executable-cataloger"})
      BY FS_Singleton
    <3>2. Named = {"file-digest-cataloger"} \cup ({"file-executable-cataloger"}
                    \cup ({"environment-cataloger"} \cup ({"os-feature-detection"}
                    \cup ({"relationships-cataloger"} \cup ({"unknowns-labeler"}
                    \cup {"deep-squashed-cleaner"})))))
      OBVIOUS
    <3> HIDE DEF Named
    <3> QED BY <3>1, <3>2, FS_Union
  <2>3. IsFiniteSet(PkgTask \cup Named)
    <3> HIDE DEF Named
    <3> QED BY <2>1, <2>2, FS_Union
  <2>4. Planned \subseteq PkgTask \cup Named
    BY PlanOrder DEF FileTask, DistroTask, Relater, Labeler, Cleaner
  <2> QED BY <2>3, <2>4, FS_Subset
<1>2. "environment-cataloger" \in Planned /\ \A t \in Planned : Group(t) \in 1 .. Len(Plan)
  BY PlanOrder DEF DistroTask
<1>3. Len(Plan) \in Nat /\ Group("environment-cataloger") \in 1 .. Len(Plan)
  BY <1>2, PlanOrder
<1>4. SchedProofs!IsFiniteSet(Planned)
  BY <1>1, Zenon DEF IsFiniteSet, SchedProofs!IsFiniteSet
<1> QED BY <1>2, <1>3, <1>4, PlanOrder, ScanAssumption DEF Group, Labeler

\* What the scheduler files are unknowns.
LEMMA UnknownsTyped ==
  ASSUME unknowns \in [Coord -> Seq(Sched!Text)], NEW t \in Planned,
         NEW es \in Seq(Coord \X Reasons)
  PROVE  Sched!WithUnknowns(unknowns, t, es) \in [Coord -> Seq(Sched!Text)]
<1>1. Sched!Text = SchedProofs!Text
  BY DEF Sched!Text, SchedProofs!Text
<1>2. SchedProofs!WithUnknowns(unknowns, t, es) \in [Coord -> Seq(SchedProofs!Text)]
  <2>1. unknowns \in [Coord -> Seq(SchedProofs!Text)]
    BY <1>1
  <2> QED BY <2>1, PlanAssumptions, SchedProofs!WithUnknownsContents, Zenon
<1> QED BY <1>1, <1>2, SameUnknowns

\* The third layer, at the beginning.
LEMMA LabelInit == Init => LabelInv
<1> SUFFICES ASSUME Init PROVE LabelInv
  OBVIOUS
<1>1. <<>> \in Seq(Sched!Text)
  OBVIOUS
<1>2. unknowns = [c \in Coord |-> <<>>] /\ status = [t \in Planned |-> "waiting"]
  BY DEF Init, Sched!Init
<1>3. Labeler \in Planned
  BY PlanOrder
<1> QED BY <1>1, <1>2, <1>3 DEF Init, LabelInv

\* The tasks that change the SBOM run before the labeler has begun.
LEMMA BeforeLabeler ==
  ASSUME OrderInv, NEW t \in Planned \ {Labeler, "os-feature-detection"},
         status[t] \notin {"waiting", "done"}
  PROVE  status[Labeler] = "waiting"
BY EarlierOver, PlanOrder

\* The labeler leaves a text where it appends one.
LEMMA NeverEmpty ==
  ASSUME NEW T, NEW s \in Seq(T), NEW x \in T
  PROVE  s \o <<x>> # <<>>
<1>1. Len(s \o <<x>>) = Len(s) + 1 /\ Len(s) \in Nat
  OBVIOUS
<1>2. Len(<<>>) = 0
  OBVIOUS
<1>3. Len(s \o <<x>>) # 0
  BY <1>1
<1> QED BY <1>2, <1>3, Zenon

\* Labeling keeps what was unknown, where it removes nothing.
LEMMA LabelContents ==
  ASSUME unknowns \in [Coord -> Seq(Sched!Text)], NEW gone, NEW marked, NEW x \in Sched!Text,
         NEW u, u = [c \in Coord |-> (IF c \in gone THEN <<>> ELSE unknowns[c])
                                       \o (IF c \in marked THEN <<x>> ELSE <<>>)]
  PROVE  /\ u \in [Coord -> Seq(Sched!Text)]
         /\ \A c \in Coord : c \in gone /\ c \notin marked => u[c] = <<>>
         /\ \A c \in Coord : c \in marked => u[c] # <<>>
<1> DEFINE T == Sched!Text
<1>1. <<>> \in Seq(T) /\ <<x>> \in Seq(T)
  OBVIOUS
<1>0. x \in T
  OBVIOUS
<1> HIDE DEF T
<1>2. \A c \in Coord : unknowns[c] \in Seq(T)
  BY DEF T
<1>3. \A c \in Coord : u[c] \in Seq(T)
  BY <1>1, <1>2
<1>4. ASSUME NEW c \in Coord, c \in marked PROVE u[c] # <<>>
  <2> DEFINE s == IF c \in gone THEN <<>> ELSE unknowns[c]
  <2>1. s \in Seq(T)
    BY <1>1, <1>2
  <2>2. u[c] = s \o <<x>>
    BY <1>4
  <2> HIDE DEF s
  <2> QED BY <1>0, <2>1, <2>2, NeverEmpty, Zenon
<1>5. ASSUME NEW c \in Coord, c \in gone, c \notin marked PROVE u[c] = <<>>
  BY <1>5
<1> QED BY <1>3, <1>4, <1>5 DEF T

\* The labeler reconciles whatever it finds.
LEMMA LabelEstablishes ==
  ASSUME OrderInv, ContentInv, LabelInv, Label
  PROVE  Reconciled' /\ unknowns' \in [Coord -> Seq(Sched!Text)]
<1> DEFINE gone == {f \in Coord : Config.removeKnown /\ HasPackageReference(f)}
           marked == {f \in sbom.executables : Config.labelExecutables /\ ~HasPackageReference(f)}
           x == <<"unknowns-labeler", "no package identified in executable file">>
<1>1. sbom \in Sbom /\ sbom' = sbom
  BY DEF ContentInv, PackagesInv, Label, content
<1>2. unknowns' = [c \in Coord |-> (IF c \in gone THEN <<>> ELSE unknowns[c])
                                     \o (IF c \in marked THEN <<x>> ELSE <<>>)]
  BY DEF Label, Sched!LabelUnknowns
<1>3. x \in Sched!Text
  <2>1. "unknowns-labeler" \in Planned
    BY PlanOrder DEF Labeler
  <2> QED BY <2>1, Zenon DEF Sched!Text, Reasons
<1> HIDE DEF gone, marked, x
<1>4. /\ unknowns' \in [Coord -> Seq(Sched!Text)]
      /\ \A c \in Coord : c \in gone /\ c \notin marked => unknowns'[c] = <<>>
      /\ \A c \in Coord : c \in marked => unknowns'[c] # <<>>
  BY <1>2, <1>3, LabelContents DEF LabelInv
<1>5. sbom.packages \subseteq Pkg /\ sbom.executables \subseteq Coord
  BY <1>1 DEF Sbom
<1>6. ASSUME NEW p \in sbom.packages, NEW f \in At[p] \cup Owned[p], Config.removeKnown
      PROVE  unknowns'[f] = <<>>
  <2>1. f \in Coord
    BY <1>5, ScanAssumption
  <2>2. HasPackageReference(f)
    BY DEF HasPackageReference
  <2> QED BY <1>4, <1>6, <2>1, <2>2 DEF gone, marked
<1>7. ASSUME NEW f \in sbom.executables, Config.labelExecutables
      PROVE  \/ unknowns'[f] # <<>>
             \/ \E p \in sbom.packages : f \in At[p] \cup Owned[p]
             \/ \E r \in DOMAIN sbom.rels : f \in Endpoints(r)
  <2>1. HasPackageReference(f) => \/ \E p \in sbom.packages : f \in At[p] \cup Owned[p]
                                  \/ \E r \in DOMAIN sbom.rels : f \in Endpoints(r)
    BY DEF HasPackageReference, BagToSet
  <2>2. CASE ~HasPackageReference(f)
    BY <1>4, <1>5, <1>7, <2>2 DEF marked
  <2> QED BY <2>1, <2>2
<1> QED BY <1>1, <1>4, <1>6, <1>7 DEF Reconciled

\* Every step keeps the third layer, given the other two.
LEMMA LabelStep == OrderInv /\ ContentInv /\ LabelInv /\ [Next]_vars => LabelInv'
<1> SUFFICES ASSUME OrderInv, ContentInv, LabelInv, [Next]_vars PROVE LabelInv'
  OBVIOUS
<1> DEFINE Ended == {"executed", "reported", "done"}
<1>0. Labeler \in Planned /\ Labeler \notin PkgTask \cup FileTask
  BY PlanOrder, Names
<1>1. ASSUME UNCHANGED <<unknowns, sbom>>, step'[Labeler] = step[Labeler],
             status'[Labeler] \in Ended => status[Labeler] \in Ended
      PROVE  LabelInv'
  BY <1>1 DEF LabelInv, Reconciled
<1>2. ASSUME NEW t \in Planned \ {Labeler}, NEW from, NEW to, NEW value, Goto(t, from, to, value),
             t = "os-feature-detection" => UNCHANGED sbom
      PROVE  LabelInv'
  <2>1. /\ UNCHANGED <<unknowns, status>> /\ status[t] = "running"
        /\ step'[Labeler] = step[Labeler]
    BY <1>0, <1>2, GotoFacts DEF Goto, schedVars
  <2>2. CASE t = "os-feature-detection"
    BY <1>1, <1>2, <2>1, <2>2
  <2>3. CASE t # "os-feature-detection"
    <3>1. status[Labeler] = "waiting"
      BY <1>2, <2>1, <2>3, BeforeLabeler
    <3> QED BY <2>1, <3>1 DEF LabelInv
  <2> QED BY <2>2, <2>3
<1>3. ASSUME NEW t \in Planned, NEW o, Sched!EndExecute(t, o), UNCHANGED content, t # Labeler
      PROVE  LabelInv'
  BY <1>0, <1>1, <1>3 DEF Sched!EndExecute, content, OrderInv
<1>4. ASSUME NEW t \in Planned, Return(t) \/ Panic(t) PROVE LabelInv'
  <2>1. t # Labeler
    BY <1>0, <1>4 DEF Return, Panic, LabelInv
  <2> QED BY <1>3, <1>4, <2>1 DEF Return, Panic
<1>5. ASSUME Label PROVE LabelInv'
  <2>1. UNCHANGED content
    BY <1>5 DEF Label
  <2> QED BY <1>5, <2>1, LabelEstablishes DEF LabelInv, content
<1>6. ASSUME NEW t \in Planned, Sched!StartTask(t), UNCHANGED content PROVE LabelInv'
  BY <1>0, <1>1, <1>6 DEF Sched!StartTask, content, OrderInv
<1>7. ASSUME NEW t \in Planned, Sched!AppendUnknowns(t), UNCHANGED content PROVE LabelInv'
  <2>1. /\ status[t] = "executed" /\ status' = [status EXCEPT ![t] = "reported"]
        /\ unknowns' = Sched!WithUnknowns(unknowns, t, outcome[t].coords)
    BY <1>7 DEF Sched!AppendUnknowns
  <2>2. outcome[t].coords \in Seq(Coord \X Reasons)
    <3> DEFINE About == Coord \X Reasons
    <3>1. outcome[t].coords \in UNION {[1 .. n -> About] : n \in 0 .. MaxErrors}
      BY DEF OrderInv, Sched!Outcome
    <3> HIDE DEF About
    <3>2. \A n \in 0 .. MaxErrors : [1 .. n -> About] \subseteq Seq(About)
      BY ScanAssumption
    <3> QED BY <3>1, <3>2 DEF About
  <2>3. unknowns' \in [Coord -> Seq(Sched!Text)]
    BY <2>1, <2>2, UnknownsTyped DEF LabelInv
  <2>4. CASE status[Labeler] = "waiting"
    BY <1>0, <1>7, <2>1, <2>3, <2>4 DEF LabelInv, OrderInv, content
  <2>5. CASE status[Labeler] # "waiting"
    <3>1. t \in {Labeler, "os-feature-detection"}
      BY <2>1, <2>5, BeforeLabeler
    <3>2. t \notin PkgTask \cup FileTask
      BY <3>1, TaskNameAssumption DEF Labeler, FileTask
    <3>3. outcome[t].coords = <<>>
      BY <3>2 DEF OrderInv, Sched!NoErrors
    <3>4. unknowns' = unknowns
      BY <2>1, <3>3, SameUnknowns, PlanAssumptions, SchedProofs!WithoutUnknowns
    <3>5. status'[Labeler] \in Ended => status[Labeler] \in Ended
      BY <1>0, <2>1 DEF OrderInv
    <3> QED BY <1>1, <1>7, <3>4, <3>5 DEF content
  <2> QED BY <2>4, <2>5
<1>8. ASSUME NEW t \in Planned, Sched!FinishTask(t), UNCHANGED content PROVE LabelInv'
  BY <1>0, <1>1, <1>8 DEF Sched!FinishTask, content, OrderInv
<1>9. ASSUME Sched!NextGroup \/ Sched!FailGroup \/ Sched!Complete \/ Sched!Return, UNCHANGED content
      PROVE  LabelInv'
  BY <1>1, <1>9 DEF Sched!NextGroup, Sched!FailGroup, Sched!Complete, Sched!Return, content
<1>10. CASE UNCHANGED vars
  BY <1>1, <1>10 DEF vars, schedVars, content
<1>11. CASE Next
  BY <1>2, <1>4, <1>5, <1>6, <1>7, <1>8, <1>9, <1>11, StepKinds DEF Schedule
<1> QED BY <1>10, <1>11

-----------------------------------------------------------------------------
(* The theorems.                                                           *)

IInv == OrderInv /\ ContentInv /\ LabelInv

\* Whatever catalogers report and whatever the scheduler interleaves, the three
\* layers hold at every moment of CreateSBOM.
THEOREM AssemblyInvariant == Spec => []IInv
<1>1. Init => IInv
  BY OrderInit, ContentInit, LabelInit DEF IInv
<1>2. IInv /\ [Next]_vars => IInv'
  BY OrderStep, ContentStep, LabelStep DEF IInv
<1> QED BY <1>1, <1>2, PTL DEF Spec

\* An SBOM is returned when every task has gone through all of its steps.
LEMMA AllOver ==
  ASSUME OrderInv, result = "sbom"
  PROVE  \A t \in Planned : status[t] = "done" /\ (t # Labeler => step[t] = "over")
<1>1. group = Len(Plan) + 1 /\ Len(Plan) \in Nat
  BY PlanOrder DEF OrderInv
<1>2. \A t \in Planned : Group(t) < group
  BY <1>1, PlanOrder
<1> QED BY <1>2 DEF OrderInv

\* And when none has failed.
LEMMA AllSucceeded ==
  ASSUME OrderInv, result = "sbom"
  PROVE  \A t \in Planned : ~outcome[t].other
<1>1. group = Len(Plan) + 1 /\ Len(Plan) \in Nat
  BY PlanOrder DEF OrderInv
<1>2. \A t \in Planned : Group(t) < group
  BY <1>1, PlanOrder
<1> QED BY <1>2 DEF OrderInv

\* The SBOM that is returned relates the source to every package and every
\* package to its evidence, exactly once (relationship_tasks.go:64-77).
THEOREM AssemblySourceAndEvidence == Spec => []SourceAndEvidence
<1>1. IInv => SourceAndEvidence
  <2> SUFFICES ASSUME IInv, result = "sbom" PROVE SourceAndEvidence
    BY DEF SourceAndEvidence
  <2>1. step[Relater] = "over"
    BY AllOver, Names DEF IInv
  <2>2. EvidenceInv
    BY DEF IInv, ContentInv
  <2>3. ASSUME NEW p \in Pkg
        PROVE  Copies(Contained("source", p), sbom.rels) = IF p \in sbom.packages THEN 1 ELSE 0
    BY <2>1, <2>2 DEF EvidenceInv
  <2>4. ASSUME NEW p \in Pkg, NEW f \in Coord
        PROVE  Copies(EvidentBy(p, f), sbom.rels) =
                 IF p \in sbom.packages /\ f \in At[p] THEN 1 ELSE 0
    BY <2>1, <2>2 DEF EvidenceInv
  <2> QED BY <2>3, <2>4 DEF SourceAndEvidence
<1> QED BY <1>1, AssemblyInvariant, PTL

\* With the owned-by-package selection the regular files of all packages are
\* digested, or the digest cataloger has returned an error about them
\* (create_sbom_config.go:202-204).
THEOREM AssemblyOwnedFilesDigested == Spec => []OwnedFilesDigested
<1>1. IInv => OwnedFilesDigested
  <2> SUFFICES ASSUME IInv, result = "sbom" PROVE OwnedFilesDigested
    BY DEF OwnedFilesDigested
  <2>1. step[Digester] = "over" /\ status[Digester] = "done" /\ Digester # Labeler
    BY AllOver, Names DEF IInv
  <2>2. ~outcome[Digester].other
    BY AllSucceeded, Names DEF IInv
  <2>3. ErrorsAbout(outcome[Digester]) = local[Digester]
    BY <2>1, <2>2, Names DEF IInv, OrderInv
  <2> QED BY <2>1, <2>3 DEF IInv, ContentInv, OwnedInv, OwnedFilesDigested, FilesOf, Digester
<1> QED BY <1>1, AssemblyInvariant, PTL

\* Every binary package that another one replaces is gone from the SBOM that is
\* returned (relationship_tasks.go:43-56).
THEOREM AssemblyNothingReplaceable == Spec => []NothingReplaceable
<1>1. IInv => NothingReplaceable
  <2> SUFFICES ASSUME IInv, result = "sbom", NEW p \in sbom.packages, NEW q \in sbom.packages
               PROVE  /\ ~Represents(q, p)
                      /\ Config.excludeBinaries => ~Replaces(q, p)
    BY DEF NothingReplaceable, Represents, Replaces
  <2>1. step[Relater] = "over"
    BY AllOver, Names DEF IInv
  <2> QED BY <2>1 DEF IInv, ContentInv, ReplacedInv
<1> QED BY <1>1, AssemblyInvariant, PTL

\* What the labeler reconciled stays reconciled until the SBOM is returned
\* (unknowns_tasks.go:35-57).
THEOREM AssemblyUnknownsReconciled == Spec => []UnknownsReconciled
<1>1. IInv => UnknownsReconciled
  <2> SUFFICES ASSUME IInv, result = "sbom" PROVE Reconciled
    BY DEF UnknownsReconciled, Reconciled
  <2>1. Labeler \in Planned
    BY PlanOrder
  <2>2. status[Labeler] = "done"
    BY <2>1, AllOver DEF IInv
  <2> QED BY <2>2 DEF IInv, LabelInv
<1> QED BY <1>1, AssemblyInvariant, PTL

\* What a relationship condemns is condemned by its other end.
LEMMA CondemnedAuthority ==
  ASSUME ContentInv, step[Relater] = "exclude", NEW r \in Carried, NEW p \in Condemned(r)
  PROVE  \E q \in Endpoints(r) \ {p} :
           /\ Condemned(r) = {p}
           /\ Claims(q, p) /\ Condemned(Overlap(q, p)) = {p}
<1>1. PICK q \in Pkg, b \in Pkg : r = Overlap(q, b) /\ q # b /\ Claims(q, b)
  BY DEF ContentInv, CarriedInv
<1>2. r.from = q /\ r.to = b
  BY <1>1 DEF Overlap
<1>3. p = b /\ Condemned(r) = {b}
  BY <1>2 DEF Condemned
<1>4. q \in Endpoints(r) \ {p}
  BY <1>1, <1>2, <1>3 DEF Endpoints
<1> QED BY <1>1, <1>3, <1>4

\* A package goes because of one that is in the SBOM when it goes.
LEMMA AuthorityStep ==
  ASSUME OrderInv, ContentInv, Next, NEW p \in sbom.packages \ sbom'.packages
  PROVE  \/ Config.deepSquashed /\ status["deep-squashed-cleaner"] = "running"
         \/ \E q \in sbom'.packages \ {p} :
               \/ Claims(q, p) /\ Condemned(Overlap(q, p)) = {p}
               \/ Kind[q] = "elf" /\ At[q] \cap At[p] # {} /\ Kind[p] \in {"jvm", "binary"}
<1>1. sbom \in Sbom
  BY DEF ContentInv, PackagesInv
<1>2. \A R : AddRelationships(sbom, R).packages = sbom.packages
  BY <1>1 DEF Sbom, AddRelationships
<1>3. \A P : AddPackages(sbom, P).packages = sbom.packages \cup P
  BY <1>1 DEF Sbom, AddPackages
<1>4. \A D : DeletePackages(sbom, D).packages = sbom.packages \ D
  BY <1>1 DEF Sbom, DeletePackages
<1>5. ASSUME NEW t \in Planned, Work(t) \/ Panic(t) PROVE FALSE
  BY <1>2, <1>3, <1>5 DEF Work, Catalog, AddFound, RelateFound, DetectDistro, Return, Panic, content
<1>6. ASSUME FileStep PROVE FALSE
  BY <1>1, <1>6 DEF FileStep, SelectFiles, StoreDigests, StoreExecutables, Sbom
<1>7. ASSUME Label \/ Schedule PROVE FALSE
  BY <1>7 DEF Label, Schedule, content
<1>8. ASSUME ScopeStep
      PROVE  Config.deepSquashed /\ status["deep-squashed-cleaner"] = "running"
  BY <1>8 DEF ScopeStep, ReadHidden, DeleteHidden, Goto
<1>9. ASSUME DeleteRepresented
      PROVE  \E q \in sbom'.packages \ {p} :
               Kind[q] = "elf" /\ At[q] \cap At[p] # {} /\ Kind[p] \in {"jvm", "binary"}
  <2>1. step[Relater] = "prune" /\ sbom'.packages = sbom.packages \ Carried
    BY <1>4, <1>9 DEF DeleteRepresented, Relationships, Relater, Goto
  <2>2. Carried = RepresentedByElf /\ p \in RepresentedByElf
    BY <2>1 DEF ContentInv, CarriedInv
  <2>3. /\ Kind[p] \in {"jvm", "binary"}
        /\ \E e \in sbom.packages : Kind[e] = "elf" /\ At[e] \cap At[p] # {}
    BY <2>2 DEF RepresentedByElf, IsBinary
  <2>4. \A e \in sbom.packages : Kind[e] = "elf" => e \notin Carried
    BY <2>2 DEF RepresentedByElf
  <2> QED BY <2>1, <2>3, <2>4
<1>10. ASSUME ExcludeBinary
       PROVE  \E q \in sbom'.packages \ {p} :
                Claims(q, p) /\ Condemned(Overlap(q, p)) = {p}
  <2>1. PICK r \in Carried :
          /\ step[Relater] = "exclude"
          /\ sbom' = IF Endpoints(r) \subseteq sbom.packages
                       THEN DeletePackages(sbom, Condemned(r)) ELSE sbom
    BY <1>10 DEF ExcludeBinary, Relationships, Relater, Goto
  <2>2. /\ Endpoints(r) \subseteq sbom.packages /\ p \in Condemned(r)
        /\ sbom'.packages = sbom.packages \ Condemned(r)
    BY <1>4, <2>1
  <2>3. PICK q \in Endpoints(r) \ {p} : /\ Condemned(r) = {p}
                                        /\ Claims(q, p)
                                        /\ Condemned(Overlap(q, p)) = {p}
    BY <2>1, <2>2, CondemnedAuthority
  <2> QED BY <2>2, <2>3
<1>11. ASSUME RelationshipsStep, ~DeleteRepresented, ~ExcludeBinary PROVE FALSE
  BY <1>2, <1>11 DEF RelationshipsStep, ReadRepresented, ReadOverlap, StoreOverlap, ExcludedAll,
                     ReadBinaries, StoreBinaries, AddBinaries, ReadSource, AddSource,
                     ReadEvidence, AddEvidence
<1> QED BY <1>5, <1>6, <1>7, <1>8, <1>9, <1>10, <1>11 DEF Next

\* Nothing is removed on the authority of a package that was removed before
\* (exclude_binaries_by_file_ownership_overlap.go:35-76).
THEOREM AssemblyAuthoritySurvives == Spec => AuthoritySurvives
<1>1. IInv /\ [Next]_vars =>
        [\A p \in sbom.packages \ sbom'.packages :
           \/ Config.deepSquashed /\ status["deep-squashed-cleaner"] = "running"
           \/ \E q \in sbom'.packages \ {p} :
                 \/ Claims(q, p) /\ Condemned(Overlap(q, p)) = {p}
                 \/ Kind[q] = "elf" /\ At[q] \cap At[p] # {} /\ Kind[p] \in {"jvm", "binary"}]_vars
  BY AuthorityStep DEF IInv
<1> QED BY <1>1, AssemblyInvariant, PTL DEF Spec, AuthoritySurvives

\* What a cataloger hands over dangles only where compliance dropped a package.
LEMMA FoundDangles ==
  ASSUME OrderInv, ContentInv, NEW t \in PkgTask, RelateFound(t), NEW r \in Dangling' \ Dangling
  PROVE  /\ step[t] = "added" /\ step'[t] = "over"
         /\ (Endpoints(r) \cap Pkg) \ sbom'.packages
              \subseteq local[t].related \ local[t].kept
<1> DEFINE P == local[t].related
<1>1. /\ Goto(t, "added", "over", {})
      /\ \E D \in SUBSET {d \in Depends : {d[1], d[2]} \subseteq P} :
           sbom' = AddRelationships(sbom, Found(P, D))
  BY DEF RelateFound
<1>2. step[t] = "added" /\ step'[t] = "over"
  BY <1>1, Names, GotoFacts
<1>3. /\ sbom \in Sbom /\ P \in SUBSET Pkg
      /\ local[t].kept \subseteq sbom.packages
  BY <1>2 DEF ContentInv, PackagesInv
<1> HIDE DEF P
<1>4. PICK R \in SUBSET Rel : /\ sbom' = AddRelationships(sbom, R)
                              /\ \A x \in R : Endpoints(x) \cap Pkg \subseteq P
  BY <1>1, <1>3, FoundFacts
<1>5. sbom'.packages = sbom.packages /\ DOMAIN sbom'.rels = DOMAIN sbom.rels \cup R
  BY <1>3, <1>4, AddRelationshipsFacts
<1>6. r \in R
  BY <1>5 DEF Dangling
<1> QED BY <1>2, <1>3, <1>4, <1>5, <1>6 DEF P

\* A step of the relationships task lets nothing dangle.
LEMMA RelaterDangles ==
  ASSUME ContentInv, RelationshipsStep
  PROVE  Dangling' \subseteq Dangling
<1>1. sbom \in Sbom /\ CarriedInv /\ sbom.packages \subseteq Pkg
  BY DEF ContentInv, PackagesInv, Sbom
<1>2. ASSUME sbom' = sbom PROVE Dangling' \subseteq Dangling
  BY <1>2 DEF Dangling
<1>3. ASSUME NEW D, sbom' = DeletePackages(sbom, D) PROVE Dangling' \subseteq Dangling
  BY <1>1, <1>3, PackagesDeleted
<1>4. ASSUME sbom' = AddRelationships(sbom, Carried), Carried \in SUBSET Rel,
             \A r \in Carried : Endpoints(r) \cap Pkg \subseteq sbom.packages
      PROVE  Dangling' \subseteq Dangling
  BY <1>1, <1>4, EdgesAdded
<1>5. CASE StoreOverlap \/ StoreBinaries \/ AddBinaries
  <2>1. /\ step[Relater] \in {"store overlap", "store binaries", "add binaries"}
        /\ sbom' = AddRelationships(sbom, Carried)
    BY <1>5 DEF StoreOverlap, StoreBinaries, AddBinaries, Relationships, Goto, Relater
  <2> QED BY <1>1, <1>4, <2>1 DEF CarriedInv
<1>6. CASE AddSource
  <2>1. step[Relater] = "add source" /\ sbom' = AddRelationships(sbom, Carried)
    BY <1>6 DEF AddSource, Relationships, Goto, Relater
  <2>2. Carried = {Contained("source", p) : p \in sbom.packages}
    BY <1>1, <2>1 DEF CarriedInv
  <2>3. ASSUME NEW p \in sbom.packages
        PROVE  /\ Contained("source", p) \in Rel
               /\ Endpoints(Contained("source", p)) \cap Pkg \subseteq sbom.packages
    BY <1>1, IdentityAssumption DEF Contained, Rel, RelType, Entity, Endpoints
  <2> QED BY <1>4, <2>1, <2>2, <2>3
<1>7. CASE AddEvidence
  <2>1. step[Relater] = "add evidence" /\ sbom' = AddRelationships(sbom, Carried)
    BY <1>7 DEF AddEvidence, Relationships, Goto, Relater
  <2>2. Carried = UNION {{EvidentBy(p, f) : f \in At[p]} : p \in sbom.packages}
    BY <1>1, <2>1 DEF CarriedInv
  <2>3. ASSUME NEW p \in sbom.packages, NEW f \in At[p]
        PROVE  /\ EvidentBy(p, f) \in Rel
               /\ Endpoints(EvidentBy(p, f)) \cap Pkg \subseteq sbom.packages
    <3>1. f \in Coord /\ f \notin Pkg /\ p \in Pkg
      BY <1>1, ScanAssumption, IdentityAssumption
    <3> QED BY <3>1 DEF EvidentBy, Rel, RelType, Entity, Endpoints
  <2>4. /\ Carried \in SUBSET Rel
        /\ \A r \in Carried : Endpoints(r) \cap Pkg \subseteq sbom.packages
    BY <2>2, <2>3
  <2> QED BY <1>4, <2>1, <2>4
<1>8. CASE DeleteRepresented \/ ExcludeBinary
  BY <1>2, <1>3, <1>8 DEF DeleteRepresented, ExcludeBinary
<1>9. CASE ReadRepresented \/ ReadOverlap \/ ExcludedAll \/ ReadBinaries \/ ReadSource \/ ReadEvidence
  BY <1>2, <1>9 DEF ReadRepresented, ReadOverlap, ExcludedAll, ReadBinaries, ReadSource, ReadEvidence
<1> QED BY <1>5, <1>6, <1>7, <1>8, <1>9 DEF RelationshipsStep

\* No step but that of a cataloger lets a relationship dangle.
LEMMA DanglingStep ==
  ASSUME OrderInv, ContentInv, Next, NEW r \in Dangling' \ Dangling
  PROVE  \E t \in PkgTask :
           /\ step[t] = "added" /\ step'[t] = "over"
           /\ (Endpoints(r) \cap Pkg) \ sbom'.packages
                \subseteq local[t].related \ local[t].kept
<1>1. sbom \in Sbom
  BY DEF ContentInv, PackagesInv
<1>2. ASSUME sbom'.rels = sbom.rels, sbom.packages \subseteq sbom'.packages PROVE FALSE
  BY <1>2 DEF Dangling
<1>3. ASSUME NEW t \in Planned, Work(t) \/ Panic(t), ~RelateFound(t) PROVE FALSE
  <2>1. sbom'.rels = sbom.rels /\ sbom.packages \subseteq sbom'.packages
    BY <1>1, <1>3 DEF Work, Catalog, AddFound, DetectDistro, Return, Panic, content,
                      AddPackages, Sbom
  <2> QED BY <1>2, <2>1
<1>4. ASSUME FileStep PROVE FALSE
  BY <1>1, <1>2, <1>4 DEF FileStep, SelectFiles, StoreDigests, StoreExecutables, Sbom
<1>5. ASSUME ScopeStep PROVE FALSE
  BY <1>1, <1>2, <1>5, PackagesDeleted DEF ScopeStep, ReadHidden, DeleteHidden
<1>6. ASSUME Label \/ Schedule PROVE FALSE
  BY <1>2, <1>6 DEF Label, Schedule, content
<1>7. ASSUME RelationshipsStep PROVE FALSE
  BY <1>7, RelaterDangles
<1>8. ASSUME NEW t \in Planned, RelateFound(t)
      PROVE  t \in PkgTask
  BY <1>8 DEF RelateFound
<1> QED BY <1>3, <1>4, <1>5, <1>6, <1>7, <1>8, FoundDangles DEF Next

\* A relationship dangles only where a cataloger hands it over and compliance
\* dropped the package: nothing that the tasks derive, delete or write under a
\* later lock does it (builder.go:83-109).
THEOREM AssemblyNothingNewDangles == Spec => NothingNewDangles
<1>1. IInv /\ [Next]_vars =>
        [\A r \in Dangling' \ Dangling :
           \E t \in PkgTask :
             /\ step[t] = "added" /\ step'[t] = "over"
             /\ (Endpoints(r) \cap Pkg) \ sbom'.packages
                  \subseteq local[t].related \ local[t].kept]_vars
  BY DanglingStep DEF IInv
<1> QED BY <1>1, AssemblyInvariant, PTL DEF Spec, NothingNewDangles

\* Every step is a step of the scheduler, or one within a task.
LEMMA SchedulerSimulates ==
  ASSUME ContentInv, Next
  PROVE  [Sched!Next]_schedVars
<1>1. ASSUME NEW t \in Planned, NEW o \in Sched!Outcome, Sched!EndExecute(t, o) PROVE Sched!Next
  BY <1>1 DEF Sched!Next, Sched!TaskStep, Sched!EndsExecute, Sched!EndExecute
<1>2. ASSUME NEW t \in Planned, Return(t) \/ Panic(t) PROVE Sched!Next
  BY <1>1, <1>2, PanicOutcome DEF Return, Panic
<1>3. ASSUME Label PROVE Sched!Next
  <2> DEFINE gone == {f \in Coord : Config.removeKnown /\ HasPackageReference(f)}
             marked == {f \in sbom.executables : Config.labelExecutables /\ ~HasPackageReference(f)}
             why == "no package identified in executable file"
  <2>1. Sched!LabelUnknowns("unknowns-labeler", gone, marked, why)
    BY <1>3 DEF Label
  <2>2. gone \in SUBSET Coord /\ marked \in SUBSET Coord
    BY DEF ContentInv, PackagesInv, Sbom
  <2>3. why \in Reasons
    BY Zenon DEF Reasons
  <2>4. "unknowns-labeler" \in Planned
    BY PlanOrder DEF Labeler
  <2> HIDE DEF gone, marked, why
  <2>5. Sched!EndsExecute("unknowns-labeler")
    BY <2>1, <2>2, <2>3, Zenon DEF Sched!EndsExecute, Sched!LabelUnknowns
  <2> QED BY <2>4, <2>5 DEF Sched!Next, Sched!TaskStep
<1>4. ASSUME Schedule PROVE Sched!Next
  BY <1>4 DEF Schedule, Sched!Next, Sched!TaskStep
<1>5. ASSUME NEW t \in Planned, NEW from, NEW to, NEW value, Goto(t, from, to, value)
      PROVE  UNCHANGED schedVars
  BY <1>5 DEF Goto
<1> QED BY <1>2, <1>3, <1>4, <1>5, StepKinds

\* The tasks of CreateSBOM run as the scheduler runs any tasks: what is assembled
\* implements the safety part of its specification (create_sbom.go).
THEOREM AssemblyScheduled == Spec => Sched!Init /\ [][Sched!Next]_schedVars
<1>1. Init => Sched!Init
  BY DEF Init
<1>2. IInv /\ [Next]_vars => [Sched!Next]_schedVars
  BY SchedulerSimulates DEF IInv, vars
<1> QED BY <1>1, <1>2, AssemblyInvariant, PTL DEF Spec

=============================================================================
