------------------------- MODULE TaskGroups_proofs -------------------------
(* Proofs about the task scheduler, for any tasks, groups and parallelism. *)
EXTENDS TaskGroups, FiniteSetTheorems, WellFoundedInduction, TLAPS

\* What the loop over the groups maintains: earlier groups are finished and
\* clean, later ones untouched, and a result was drawn from the group the
\* loop stopped at.
LoopInv ==
  /\ \A t \in Task : GroupOf[t] < group => status[t] = "done" /\ ~outcome[t].other
  /\ \A t \in Task : GroupOf[t] > group => status[t] = "waiting"
  /\ result = "sbom" => group = NGroups + 1
  /\ result = "error" => /\ group <= NGroups
                         /\ GroupDone
                         /\ \E t \in Members(group) : outcome[t].other

\* A task that has not returned has no error yet, and the progress monitor
\* holds only errors of tasks that did.
ErrorInv ==
  /\ \A t \in Task : status[t] \in {"waiting", "running"} => ~outcome[t].other
  /\ progress.err => \E t \in Task : status[t] = "done" /\ outcome[t].other

\* The temp dir is removed by Return only.
TempInv ==
  /\ returned => result # "none"
  /\ tempDir = "removed" => returned /\ ~CallerOwnsTempDir
  /\ returned => (tempDir = "created" => CallerOwnsTempDir)

IInv == TypeOK /\ LoopInv /\ ErrorInv /\ TempInv

\* A task may end without errors.
LEMMA NoErrorsOutcome == NoErrors \in Outcome /\ ~NoErrors.other
<1>1. <<>> \in [1 .. 0 -> Coord \X Reason]
  OBVIOUS
<1>2. 0 \in 0 .. MaxErrors
  BY ErrorsAssumption
<1>3. <<>> \in UNION {[1 .. n -> Coord \X Reason] : n \in 0 .. MaxErrors}
  BY <1>1, <1>2
<1> QED BY <1>3 DEF NoErrors, Outcome

\* Once there is a result no task is executing.
LEMMA ResultQuiet ==
  ASSUME IInv, result # "none"
  PROVE  Executing = {}
<1> SUFFICES ASSUME NEW t \in Task PROVE status[t] \in {"waiting", "done"}
  BY DEF Executing
<1>1. GroupOf[t] \in 1 .. NGroups /\ group \in 1 .. (NGroups + 1) /\ NGroups \in Nat
  BY GroupsAssumption DEF IInv, TypeOK
<1>2. CASE GroupOf[t] < group
  BY <1>2 DEF IInv, LoopInv
<1>3. CASE GroupOf[t] > group
  BY <1>3 DEF IInv, LoopInv
<1>4. CASE GroupOf[t] = group
  <2>1. result = "error"
    BY <1>1, <1>4 DEF IInv, LoopInv, TypeOK
  <2> QED BY <2>1, <1>4 DEF IInv, LoopInv, GroupDone, Members
<1> QED BY <1>1, <1>2, <1>3, <1>4

\* The invariant holds at the beginning,
LEMMA SchedulerInit == Init => IInv
<1> USE GroupsAssumption, OwnerAssumption
<1> SUFFICES ASSUME Init PROVE IInv
  OBVIOUS
<1> USE DEF Init
<1>1. TypeOK
  <2>1. outcome \in [Task -> Outcome]
    BY NoErrorsOutcome
  <2>2. group \in 1 .. (NGroups + 1) /\ progress \in [current : Nat, err : BOOLEAN]
    OBVIOUS
  <2> QED BY <2>1, <2>2 DEF TypeOK
<1>2. \A t \in Task : status[t] = "waiting" /\ outcome[t] = NoErrors
  OBVIOUS
<1>3. LoopInv
  BY <1>2 DEF LoopInv
<1>4. ErrorInv
  BY <1>2, NoErrorsOutcome DEF ErrorInv
<1>5. TempInv
  BY DEF TempInv
<1> QED BY <1>1, <1>3, <1>4, <1>5 DEF IInv

\* and every step keeps it.
LEMMA SchedulerStep == IInv /\ [Next]_vars => IInv'
<1> USE GroupsAssumption, OwnerAssumption
<1> SUFFICES ASSUME IInv, [Next]_vars PROVE IInv'
  OBVIOUS
<1> USE DEF IInv
<1>1. ASSUME NEW t \in Task, StartTask(t) PROVE IInv'
  <2>1. TypeOK'
    BY <1>1 DEF StartTask, TypeOK
  <2>2. LoopInv'
    BY <1>1 DEF StartTask, TypeOK, LoopInv, GroupDone, Members
  <2>3. ErrorInv'
    BY <1>1 DEF StartTask, TypeOK, ErrorInv
  <2> QED BY <1>1, <2>1, <2>2, <2>3 DEF StartTask, TempInv
<1>2. ASSUME NEW t \in Task, UseTempDir(t) PROVE IInv'
  <2>1. result = "none" /\ ~returned
    <3>1. t \in Executing
      BY <1>2 DEF UseTempDir, Executing
    <3> QED BY <3>1, ResultQuiet DEF TempInv
  <2> QED BY <1>2, <2>1
       DEF UseTempDir, TypeOK, LoopInv, ErrorInv, TempInv, GroupDone, Members
<1>3. ASSUME NEW t \in Task, NEW o \in Outcome, EndExecute(t, o) PROVE IInv'
  <2>1. TypeOK'
    BY <1>3 DEF EndExecute, TypeOK
  <2>2. LoopInv'
    <3>1. result = "none"
      <4>1. t \in Executing
        BY <1>3 DEF EndExecute, Executing
      <4> QED BY <4>1, ResultQuiet
    <3>2. \A u \in Task : u # t => status'[u] = status[u] /\ outcome'[u] = outcome[u]
      BY <1>3 DEF EndExecute, TypeOK
    <3>3. ~(GroupOf[t] < group) /\ ~(GroupOf[t] > group)
      BY <1>3 DEF EndExecute, LoopInv
    <3> QED BY <1>3, <3>1, <3>2, <3>3 DEF EndExecute, LoopInv
  <2>3. ErrorInv'
    BY <1>3 DEF EndExecute, TypeOK, ErrorInv
  <2> QED BY <1>3, <2>1, <2>2, <2>3 DEF EndExecute, TempInv
<1>11. ASSUME NEW t \in Task, NEW gone, NEW marked, NEW r, LabelUnknowns(t, gone, marked, r)
       PROVE  IInv'
  <2>1. t \in Executing
    BY <1>11 DEF LabelUnknowns, Executing
  <2>2. result = "none"
    BY <2>1, ResultQuiet
  <2>3. \A u \in Task : u # t => status'[u] = status[u] /\ outcome'[u] = outcome[u]
    BY <1>11 DEF LabelUnknowns, TypeOK
  <2>4. ~(GroupOf[t] < group) /\ ~(GroupOf[t] > group)
    BY <1>11 DEF LabelUnknowns, LoopInv
  <2>5. TypeOK'
    BY <1>11, NoErrorsOutcome DEF LabelUnknowns, TypeOK
  <2>6. LoopInv'
    BY <1>11, <2>2, <2>3, <2>4 DEF LabelUnknowns, LoopInv
  <2>7. ErrorInv'
    BY <1>11, NoErrorsOutcome DEF LabelUnknowns, TypeOK, ErrorInv
  <2> QED BY <1>11, <2>5, <2>6, <2>7 DEF LabelUnknowns, TempInv
<1>4. ASSUME NEW t \in Task, AppendUnknowns(t) PROVE IInv'
  BY <1>4 DEF AppendUnknowns, TypeOK, LoopInv, ErrorInv, TempInv, GroupDone, Members
<1>5. ASSUME NEW t \in Task, FinishTask(t) PROVE IInv'
  <2>1. TypeOK'
    BY <1>5 DEF FinishTask, TypeOK
  <2>2. LoopInv'
    BY <1>5 DEF FinishTask, TypeOK, LoopInv, GroupDone, Members
  <2>3. ErrorInv'
    BY <1>5 DEF FinishTask, TypeOK, ErrorInv
  <2> QED BY <1>5, <2>1, <2>2, <2>3 DEF FinishTask, TempInv
<1>6. ASSUME NextGroup PROVE IInv'
  <2>1. TypeOK'
    BY <1>6 DEF NextGroup, TypeOK
  <2>2. LoopInv'
    BY <1>6 DEF NextGroup, TypeOK, LoopInv, GroupDone, Members
  <2> QED BY <1>6, <2>1, <2>2 DEF NextGroup, ErrorInv, TempInv
<1>7. ASSUME FailGroup PROVE IInv'
  BY <1>7 DEF FailGroup, TypeOK, LoopInv, ErrorInv, TempInv, GroupDone, Members
<1>8. ASSUME Complete PROVE IInv'
  BY <1>8 DEF Complete, TypeOK, LoopInv, ErrorInv, TempInv, GroupDone, Members
<1>9. ASSUME Return PROVE IInv'
  BY <1>9 DEF Return, TypeOK, LoopInv, ErrorInv, TempInv, GroupDone, Members
<1>10. CASE UNCHANGED vars
  BY <1>10 DEF vars, TypeOK, LoopInv, ErrorInv, TempInv, GroupDone, Members
<1> QED BY <1>1, <1>2, <1>3, <1>4, <1>5, <1>6, <1>7, <1>8, <1>9, <1>10, <1>11
        DEF Next, TaskStep, EndsExecute

\* So it holds throughout CreateSBOM, for any tasks, groups, slots and errors.
THEOREM SchedulerInvariant == Spec => []IInv
<1> QED BY SchedulerInit, SchedulerStep, PTL DEF Spec

\* The variables keep their types.
THEOREM SchedulerTypeCorrect == Spec => []TypeOK
<1>1. IInv => TypeOK
  BY DEF IInv
<1> QED BY <1>1, SchedulerInvariant, PTL

\* The groups are run in order, whatever the parallelism.
THEOREM SchedulerInOrder == Spec => []InOrder
<1>1. IInv => InOrder
  <2> SUFFICES ASSUME IInv, NEW t \in Task, NEW u \in Task,
                      status[t] # "waiting", GroupOf[u] < GroupOf[t]
               PROVE  status[u] = "done" /\ ~outcome[u].other
    BY DEF InOrder
  <2>1. GroupOf[t] \in Nat /\ GroupOf[u] \in Nat /\ group \in Nat
    BY GroupsAssumption DEF IInv, TypeOK
  <2>2. ~(GroupOf[t] > group)
    BY DEF IInv, LoopInv
  <2>3. GroupOf[u] < group
    BY <2>1, <2>2
  <2> QED BY <2>3 DEF IInv, LoopInv
<1> QED BY <1>1, SchedulerInvariant, PTL

\* An SBOM is returned only after every task succeeded, an error only for the
\* group of a task that failed.
THEOREM SchedulerResultJustified == Spec => []ResultJustified
<1>1. IInv => ResultJustified
  <2> SUFFICES ASSUME IInv PROVE ResultJustified
    OBVIOUS
  <2>1. /\ NGroups \in Nat /\ group \in Nat
        /\ \A t \in Task : GroupOf[t] \in Nat /\ GroupOf[t] <= NGroups
    BY GroupsAssumption DEF IInv, TypeOK
  <2>2. ASSUME result = "sbom"
        PROVE  /\ \A t \in Task : status[t] = "done" /\ ~outcome[t].other
               /\ ~progress.err
    <3>1. \A t \in Task : GroupOf[t] < group
      BY <2>1, <2>2 DEF IInv, LoopInv
    <3>2. \A t \in Task : status[t] = "done" /\ ~outcome[t].other
      BY <3>1 DEF IInv, LoopInv
    <3> QED BY <3>2 DEF IInv, ErrorInv
  <2>3. ASSUME result = "error"
        PROVE  /\ \E t \in Task : outcome[t].other
               /\ \A t \in Task : status[t] = IF GroupOf[t] <= group THEN "done" ELSE "waiting"
    <3>1. \E t \in Task : outcome[t].other
      BY <2>3 DEF IInv, LoopInv, Members
    <3>2. ASSUME NEW t \in Task
          PROVE  status[t] = IF GroupOf[t] <= group THEN "done" ELSE "waiting"
      <4>1. CASE GroupOf[t] < group
        BY <2>1, <4>1 DEF IInv, LoopInv
      <4>2. CASE GroupOf[t] = group
        BY <2>1, <2>3, <4>2 DEF IInv, LoopInv, GroupDone, Members
      <4>3. CASE GroupOf[t] > group
        BY <2>1, <4>3 DEF IInv, LoopInv
      <4> QED BY <2>1, <4>1, <4>2, <4>3
    <3> QED BY <3>1, <3>2
  <2> QED BY <2>2, <2>3 DEF ResultJustified
<1> QED BY <1>1, SchedulerInvariant, PTL

\* No task can find the temp dir removed under its feet.
THEOREM SchedulerTempDirScoped == Spec => []TempDirScoped
<1>1. IInv => TempDirScoped
  BY ResultQuiet DEF IInv, TempInv, TempDirScoped
<1> QED BY <1>1, SchedulerInvariant, PTL
-----------------------------------------------------------------------------
(* What appendUnknowns does to the unknowns, whatever errors it is given.   *)

\* Induction on the natural numbers, for the set of those that have a property.
LEMMA Inductive ==
  ASSUME NEW S, 0 \in S, \A n \in Nat : n \in S => n + 1 \in S
  PROVE  Nat \subseteq S
<1> DEFINE R == OpToRel(<, Nat)
           T == Nat \ S
<1>1. IsWellFoundedOn(R, Nat)
  BY NatLessThanWellFounded
<1>2. ASSUME T # {} PROVE FALSE
  <2>1. PICK x \in T : \A y \in T : ~(<<y, x>> \in R)
    <3> HIDE DEF R
    <3> QED BY <1>1, <1>2, WFMin
  <2>2. x # 0 /\ x - 1 \in Nat /\ x - 1 < x
    OBVIOUS
  <2>3. x - 1 \in T
    BY <2>2
  <2>4. <<x - 1, x>> \in R
    BY <2>2 DEF OpToRel
  <2> QED BY <2>1, <2>3, <2>4
<1> QED BY <1>2

\* f holds what the loop has made of u after each number of turns.
After(f, u, t, es, N) == f = [n \in 0 .. N |-> IF n = 0 THEN u ELSE WithUnknown(f[n - 1], t, es[n])]

\* The loop can be run for any number of turns.
LEMMA AfterExists ==
  ASSUME NEW u, NEW t, NEW es
  PROVE  \A N \in Nat : \E f : After(f, u, t, es, N)
<1> DEFINE S == {N \in Nat : \E f : After(f, u, t, es, N)}
<1>1. 0 \in S
  <2>1. After([n \in 0 .. 0 |-> u], u, t, es, 0)
    BY DEF After
  <2> QED BY <2>1
<1>2. ASSUME NEW N \in Nat, N \in S PROVE N + 1 \in S
  <2>1. PICK f : After(f, u, t, es, N)
    BY <1>2
  <2> DEFINE g == [n \in 0 .. (N + 1) |-> IF n <= N THEN f[n] ELSE WithUnknown(f[N], t, es[N + 1])]
  <2>2. \A n \in 0 .. N : g[n] = f[n] /\ f[n] = IF n = 0 THEN u ELSE WithUnknown(f[n - 1], t, es[n])
    BY <2>1 DEF After
  <2>3. \A n \in 0 .. (N + 1) : g[n] = IF n = 0 THEN u ELSE WithUnknown(g[n - 1], t, es[n])
    <3> SUFFICES ASSUME NEW n \in 0 .. (N + 1) PROVE g[n] = IF n = 0 THEN u ELSE WithUnknown(g[n - 1], t, es[n])
      OBVIOUS
    <3>1. CASE n = N + 1
      BY <3>1, <2>2
    <3>2. CASE n \in 0 .. N
      <4> HIDE DEF g
      <4>1. n # 0 => n - 1 \in 0 .. N
        BY <3>2
      <4> QED BY <3>2, <2>2, <4>1
    <3> QED BY <3>1, <3>2
  <2>4. After(g, u, t, es, N + 1)
    <3>1. g = [n \in 0 .. (N + 1) |-> g[n]]
      OBVIOUS
    <3> HIDE DEF g
    <3> QED BY <2>3, <3>1 DEF After
  <2> QED BY <2>4
<1>3. Nat \subseteq S
  <2> HIDE DEF S
  <2> QED BY <1>1, <1>2, Inductive
<1> QED BY <1>3

\* What it returns is what it has made of u after its last turn.
LEMMA WithUnknownsDef ==
  ASSUME NEW u, NEW t, NEW es \in Seq(Coord \X Reason)
  PROVE  \E f : After(f, u, t, es, Len(es)) /\ WithUnknowns(u, t, es) = f[Len(es)]
<1> DEFINE f == CHOOSE g : After(g, u, t, es, Len(es))
<1>1. After(f, u, t, es, Len(es))
  <2>1. Len(es) \in Nat
    OBVIOUS
  <2>2. \E g : After(g, u, t, es, Len(es))
    BY <2>1, AfterExists
  <2> QED BY <2>2
<1>2. WithUnknowns(u, t, es) = f[Len(es)]
  BY Zenon DEF WithUnknowns, After
<1> QED BY <1>1, <1>2

\* Without errors it changes nothing.
LEMMA WithoutUnknowns ==
  ASSUME NEW u, NEW t
  PROVE  WithUnknowns(u, t, <<>>) = u
<1>1. <<>> \in Seq(Coord \X Reason) /\ Len(<<>>) = 0
  OBVIOUS
<1>2. PICK f : After(f, u, t, <<>>, Len(<<>>)) /\ WithUnknowns(u, t, <<>>) = f[Len(<<>>)]
  BY <1>1, WithUnknownsDef
<1> QED BY <1>1, <1>2 DEF After

\* One turn adds the text of its error and nothing else, and not twice.
LEMMA WithUnknownContents ==
  ASSUME NEW u \in [Coord -> Seq(Text)], NEW t \in Task, NEW e \in Coord \X Reason
  PROVE  /\ WithUnknown(u, t, e) \in [Coord -> Seq(Text)]
         /\ \A c \in Coord, x \in Text :
              Contains(WithUnknown(u, t, e)[c], x) <=>
                Contains(u[c], x) \/ (e[1] = c /\ x = <<t, e[2]>>)
         /\ \A c \in Coord :
              IsInjective(u[c]) => IsInjective(WithUnknown(u, t, e)[c])
<1> DEFINE text == <<t, e[2]>>
           d    == e[1]
<1>1. text \in Text /\ d \in Coord
  BY DEF Text
<1>2. CASE Contains(u[d], text)
  <2>1. WithUnknown(u, t, e) = u
    BY <1>2 DEF WithUnknown
  <2> QED BY <1>2, <2>1
<1>3. CASE ~Contains(u[d], text)
  <2> DEFINE v == [u EXCEPT ![d] = Append(@, text)]
  <2>1. WithUnknown(u, t, e) = v
    BY <1>3 DEF WithUnknown
  <2>2. v \in [Coord -> Seq(Text)]
    BY <1>1
  <2>3. u[d] \in Seq(Text) /\ v[d] = Append(u[d], text) /\ \A c \in Coord : c # d => v[c] = u[c]
    BY <1>1
  <2> HIDE DEF v, text
  <2>4. /\ Len(v[d]) = Len(u[d]) + 1
        /\ v[d][Len(u[d]) + 1] = text
        /\ \A i \in 1 .. Len(u[d]) : v[d][i] = u[d][i]
        /\ Len(u[d]) \in Nat
        /\ DOMAIN v[d] = 1 .. Len(v[d])
        /\ DOMAIN u[d] = 1 .. Len(u[d])
    BY <2>3, <1>1
  <2>5. ASSUME NEW x PROVE Contains(v[d], x) <=> Contains(u[d], x) \/ x = text
    <3>1. \A i : i \in 1 .. Len(v[d]) <=> i \in 1 .. Len(u[d]) \/ i = Len(u[d]) + 1
      BY <2>4
    <3>2. ASSUME NEW i \in 1 .. Len(u[d]) PROVE v[d][i] = x <=> u[d][i] = x
      BY <2>4
    <3>3. v[d][Len(u[d]) + 1] = x <=> x = text
      BY <2>4
    <3> QED BY <3>1, <3>2, <3>3 DEF Contains
  <2>6. ASSUME IsInjective(u[d]) PROVE IsInjective(v[d])
    <3>1. \A i \in 1 .. Len(u[d]) : u[d][i] # text
      BY <1>3 DEF Contains
    <3> QED BY <2>4, <2>6, <3>1 DEF IsInjective
  <2> QED BY <2>1, <2>2, <2>3, <2>5, <2>6 DEF text
<1> QED BY <1>2, <1>3

\* The loop adds the texts of the errors and nothing else, none of them twice.
LEMMA WithUnknownsContents ==
  ASSUME NEW u \in [Coord -> Seq(Text)], NEW t \in Task, NEW es \in Seq(Coord \X Reason)
  PROVE  /\ WithUnknowns(u, t, es) \in [Coord -> Seq(Text)]
         /\ \A c \in Coord, x \in Text :
              Contains(WithUnknowns(u, t, es)[c], x) <=>
                Contains(u[c], x) \/ \E r \in Reason : x = <<t, r>> /\ Contains(es, <<c, r>>)
         /\ \A c \in Coord :
              IsInjective(u[c]) => IsInjective(WithUnknowns(u, t, es)[c])
<1> DEFINE N == Len(es)
<1>0. /\ N \in Nat
      /\ \A i \in 1 .. N : /\ es[i] \in Coord \X Reason
                           /\ es[i] = <<es[i][1], es[i][2]>>
                           /\ es[i][2] \in Reason
  OBVIOUS
<1>1. PICK f : After(f, u, t, es, N) /\ WithUnknowns(u, t, es) = f[N]
  BY WithUnknownsDef
<1> HIDE DEF N
<1>2. \A n \in 0 .. N : f[n] = IF n = 0 THEN u ELSE WithUnknown(f[n - 1], t, es[n])
  BY <1>1 DEF After
<1> DEFINE Upto(n) ==
      /\ f[n] \in [Coord -> Seq(Text)]
      /\ \A c \in Coord, x \in Text :
           Contains(f[n][c], x) <=>
             Contains(u[c], x) \/ \E i \in 1 .. n : x = <<t, es[i][2]>> /\ es[i][1] = c
      /\ \A c \in Coord : IsInjective(u[c]) => IsInjective(f[n][c])
    S == {n \in Nat : n <= N => Upto(n)}
<1>3. 0 \in S
  <2>1. f[0] = u
    BY <1>0, <1>2
  <2> QED BY <2>1
<1>4. ASSUME NEW n \in Nat, n \in S PROVE n + 1 \in S
  <2> SUFFICES ASSUME n + 1 <= N PROVE Upto(n + 1)
    <3> HIDE DEF Upto
    <3> QED OBVIOUS
  <2>1. Upto(n)
    <3> HIDE DEF Upto
    <3> QED BY <1>0, <1>4
  <2>2. f[n + 1] = WithUnknown(f[n], t, es[n + 1])
    BY <1>0, <1>2
  <2>3. es[n + 1] \in Coord \X Reason
    BY <1>0
  <2> HIDE DEF S
  <2>4. f[n] \in [Coord -> Seq(Text)]
    BY <2>1
  <2>6. /\ f[n + 1] \in [Coord -> Seq(Text)]
        /\ \A c \in Coord, x \in Text :
             Contains(f[n + 1][c], x) <=>
               Contains(f[n][c], x) \/ (es[n + 1][1] = c /\ x = <<t, es[n + 1][2]>>)
        /\ \A c \in Coord : IsInjective(f[n][c]) => IsInjective(f[n + 1][c])
    <3> DEFINE v == f[n]
               e == es[n + 1]
               w == f[n + 1]
    <3>1. v \in [Coord -> Seq(Text)] /\ e \in Coord \X Reason /\ w = WithUnknown(v, t, e)
      BY <2>4, <2>2, <2>3
    <3> HIDE DEF v, e, w
    <3>2. /\ w \in [Coord -> Seq(Text)]
          /\ \A c \in Coord, x \in Text :
               Contains(w[c], x) <=> Contains(v[c], x) \/ (e[1] = c /\ x = <<t, e[2]>>)
          /\ \A c \in Coord : IsInjective(v[c]) => IsInjective(w[c])
      <4>1. /\ WithUnknown(v, t, e) \in [Coord -> Seq(Text)]
            /\ \A c \in Coord, x \in Text :
                 Contains(WithUnknown(v, t, e)[c], x) <=>
                   Contains(v[c], x) \/ (e[1] = c /\ x = <<t, e[2]>>)
            /\ \A c \in Coord : IsInjective(v[c]) => IsInjective(WithUnknown(v, t, e)[c])
        BY <3>1, WithUnknownContents
      <4> QED BY <3>1, <4>1
    <3> QED BY <3>2 DEF v, e, w
  <2>5. \A i : i \in 1 .. (n + 1) <=> i \in 1 .. n \/ i = n + 1
    OBVIOUS
  <2> QED BY <2>1, <2>5, <2>6
<1>5. N \in S
  <2>1. Nat \subseteq S
    <3> HIDE DEF S
    <3> QED BY <1>3, <1>4, Inductive
  <2> QED BY <2>1, <1>0
<1>6. Upto(N)
  <2> HIDE DEF Upto
  <2> QED BY <1>5, <1>0
<1>7. ASSUME NEW c \in Coord, NEW x \in Text
      PROVE  (\E i \in 1 .. N : x = <<t, es[i][2]>> /\ es[i][1] = c)
               <=> \E r \in Reason : x = <<t, r>> /\ Contains(es, <<c, r>>)
  <2>1. ASSUME NEW i \in 1 .. N, x = <<t, es[i][2]>>, es[i][1] = c
        PROVE  \E r \in Reason : x = <<t, r>> /\ Contains(es, <<c, r>>)
    <3>1. es[i] = <<c, es[i][2]>> /\ es[i][2] \in Reason
      BY <1>0, <2>1
    <3>2. Contains(es, <<c, es[i][2]>>)
      BY <3>1 DEF Contains, N
    <3> QED BY <2>1, <3>1, <3>2
  <2>2. ASSUME NEW r \in Reason, x = <<t, r>>, Contains(es, <<c, r>>)
        PROVE  \E i \in 1 .. N : x = <<t, es[i][2]>> /\ es[i][1] = c
    BY <2>2 DEF Contains, N
  <2> QED BY <2>1, <2>2
<1> HIDE DEF S
<1> DEFINE w == f[N]
<1>8. /\ WithUnknowns(u, t, es) = w
      /\ w \in [Coord -> Seq(Text)]
      /\ \A c \in Coord : IsInjective(u[c]) => IsInjective(w[c])
      /\ \A c \in Coord, x \in Text :
           Contains(w[c], x) <=>
             Contains(u[c], x) \/ \E i \in 1 .. N : x = <<t, es[i][2]>> /\ es[i][1] = c
  BY <1>1, <1>6
<1> HIDE DEF w
<1>9. ASSUME NEW c \in Coord, NEW x \in Text
      PROVE  Contains(w[c], x) <=>
               Contains(u[c], x) \/ \E r \in Reason : x = <<t, r>> /\ Contains(es, <<c, r>>)
  <2>1. Contains(w[c], x) <=>
          Contains(u[c], x) \/ \E i \in 1 .. N : x = <<t, es[i][2]>> /\ es[i][1] = c
    BY <1>8
  <2>2. (\E i \in 1 .. N : x = <<t, es[i][2]>> /\ es[i][1] = c)
           <=> \E r \in Reason : x = <<t, r>> /\ Contains(es, <<c, r>>)
    BY <1>7
  <2> QED BY <2>1, <2>2
<1> QED BY <1>8, <1>9, Zenon

\* The unknowns have their type and are exact until a labeler runs.
UnknownsInv == unknowns \in [Coord -> Seq(Text)] /\ UnknownsExact

\* Nothing is filed at the beginning.
LEMMA UnknownsInit == Init => UnknownsInv
<1> SUFFICES ASSUME Init PROVE UnknownsInv
  OBVIOUS
<1>1. unknowns \in [Coord -> Seq(Text)] /\ \A c \in Coord : unknowns[c] = <<>>
  BY DEF Init
<1>2. \A x : ~Contains(<<>>, x)
  BY DEF Contains
<1>3. \A t \in Task : status[t] = "waiting"
  BY DEF Init
<1>4. IsInjective(<<>>)
  BY DEF IsInjective
<1> QED BY <1>1, <1>2, <1>3, <1>4 DEF UnknownsInv, UnknownsExact

\* Every other step than AppendUnknowns leaves the unknowns alone as far as
\* UnknownsExact looks at them: before any labeler runs, it reports no task.
LEMMA UnknownsKept ==
  ASSUME UnknownsInv, UNCHANGED unknowns,
         (\A t \in Labelers : status'[t] = "waiting") =>
           /\ \A t \in Labelers : status[t] = "waiting"
           /\ \A t \in Task : /\ status'[t] \in {"reported", "done"} <=>
                                   status[t] \in {"reported", "done"}
                              /\ status[t] \in {"reported", "done"} =>
                                   outcome'[t].coords = outcome[t].coords
  PROVE  UnknownsInv'
<1>1. unknowns' \in [Coord -> Seq(Text)]
  BY DEF UnknownsInv
<1>2. ASSUME \A t \in Labelers : status'[t] = "waiting", NEW c \in Coord
      PROVE  /\ unknowns'[c] \in Seq(Text)
             /\ \A t \in Task, r \in Reason :
                  Contains(unknowns'[c], <<t, r>>) <=>
                    /\ status'[t] \in {"reported", "done"}
                    /\ Contains(outcome'[t].coords, <<c, r>>)
             /\ IsInjective(unknowns'[c])
  <2>1. /\ unknowns[c] \in Seq(Text)
        /\ \A t \in Task, r \in Reason :
             Contains(unknowns[c], <<t, r>>) <=>
               /\ status[t] \in {"reported", "done"}
               /\ Contains(outcome[t].coords, <<c, r>>)
        /\ IsInjective(unknowns[c])
    BY <1>2 DEF UnknownsInv, UnknownsExact
  <2> QED BY <1>2, <2>1
<1> QED BY <1>1, <1>2 DEF UnknownsInv, UnknownsExact

\* What a task files is added, each text once.
LEMMA UnknownsAppended ==
  ASSUME IInv, UnknownsInv, NEW t \in Task, AppendUnknowns(t)
  PROVE  UnknownsInv'
<1> DEFINE es == outcome[t].coords
           v  == WithUnknowns(unknowns, t, es)
<1>1. es \in Seq(Coord \X Reason)
  <2>1. outcome[t] \in Outcome
    BY DEF IInv, TypeOK
  <2>2. PICK n \in 0 .. MaxErrors : es \in [1 .. n -> Coord \X Reason]
    BY <2>1 DEF Outcome
  <2>3. n \in Nat
    BY ErrorsAssumption
  <2> QED BY <2>2, <2>3
<1>2. /\ unknowns' = v
      /\ status[t] = "executed"
      /\ status' = [status EXCEPT ![t] = "reported"]
      /\ outcome' = outcome
  BY DEF AppendUnknowns
<1>3. unknowns \in [Coord -> Seq(Text)]
  BY DEF UnknownsInv
<1> HIDE DEF es
<1>4. /\ v \in [Coord -> Seq(Text)]
      /\ \A c \in Coord, x \in Text :
           Contains(v[c], x) <=>
             Contains(unknowns[c], x) \/ \E r \in Reason : x = <<t, r>> /\ Contains(es, <<c, r>>)
      /\ \A c \in Coord : IsInjective(unknowns[c]) => IsInjective(v[c])
  BY <1>1, <1>3, WithUnknownsContents
<1> HIDE DEF v
<1>5. /\ status'[t] = "reported"
      /\ \A u \in Task : u # t => status'[u] = status[u]
  BY <1>2 DEF IInv, TypeOK
<1>6. ASSUME \A u \in Labelers : status'[u] = "waiting", NEW c \in Coord
      PROVE  /\ v[c] \in Seq(Text)
             /\ \A u \in Task, r \in Reason :
                  Contains(v[c], <<u, r>>) <=>
                    /\ status'[u] \in {"reported", "done"}
                    /\ Contains(outcome[u].coords, <<c, r>>)
             /\ IsInjective(v[c])
  <2>1. \A u \in Labelers : status[u] = "waiting"
    BY <1>5, <1>6, LabelAssumption
  <2>2. /\ \A u \in Task, r \in Reason :
             Contains(unknowns[c], <<u, r>>) <=>
               /\ status[u] \in {"reported", "done"}
               /\ Contains(outcome[u].coords, <<c, r>>)
        /\ IsInjective(unknowns[c])
    BY <2>1 DEF UnknownsInv, UnknownsExact
  <2>3. ASSUME NEW u \in Task, NEW r \in Reason
        PROVE  Contains(v[c], <<u, r>>) <=>
                 /\ status'[u] \in {"reported", "done"}
                 /\ Contains(outcome[u].coords, <<c, r>>)
    <3>1. <<u, r>> \in Text
      BY DEF Text
    <3>2. (\E q \in Reason : <<u, r>> = <<t, q>> /\ Contains(es, <<c, q>>))
             <=> u = t /\ Contains(es, <<c, r>>)
      OBVIOUS
    <3>3. Contains(v[c], <<u, r>>) <=>
            Contains(unknowns[c], <<u, r>>) \/ (u = t /\ Contains(es, <<c, r>>))
      BY <1>4, <3>1, <3>2
    <3>4. Contains(unknowns[c], <<u, r>>) <=>
            /\ status[u] \in {"reported", "done"}
            /\ Contains(outcome[u].coords, <<c, r>>)
      BY <2>2
    <3>5. CASE u = t
      BY <1>2, <1>5, <3>3, <3>4, <3>5 DEF es
    <3>6. CASE u # t
      BY <1>5, <3>3, <3>4, <3>6
    <3> QED BY <3>5, <3>6
  <2> QED BY <1>4, <2>2, <2>3
<1> QED BY <1>2, <1>4, <1>6 DEF UnknownsInv, UnknownsExact

\* Every step files exactly that.
LEMMA UnknownsStep == IInv /\ UnknownsInv /\ [Next]_vars => UnknownsInv'
<1> SUFFICES ASSUME IInv, UnknownsInv, [Next]_vars PROVE UnknownsInv'
  OBVIOUS
<1>0. status \in [Task -> {"waiting", "running", "executed", "reported", "done"}]
      /\ outcome \in [Task -> Outcome] /\ Labelers \subseteq Task
  BY LabelAssumption DEF IInv, TypeOK
<1>1. ASSUME NEW t \in Task, StartTask(t) PROVE UnknownsInv'
  BY <1>0, <1>1, UnknownsKept DEF StartTask
<1>2. ASSUME NEW t \in Task, UseTempDir(t) PROVE UnknownsInv'
  BY <1>2, UnknownsKept DEF UseTempDir
<1>3. ASSUME NEW t \in Task, NEW o \in Outcome, EndExecute(t, o) PROVE UnknownsInv'
  BY <1>0, <1>3, UnknownsKept DEF EndExecute
<1>4. ASSUME NEW t \in Task, NEW gone \in SUBSET Coord, NEW marked \in SUBSET Coord,
             NEW r \in Reason, LabelUnknowns(t, gone, marked, r)
      PROVE  UnknownsInv'
  <2>1. unknowns' \in [Coord -> Seq(Text)]
    <3>1. <<t, r>> \in Text
      BY DEF Text
    <3> QED BY <1>4, <3>1 DEF LabelUnknowns, UnknownsInv
  <2>2. t \in Labelers /\ status'[t] = "executed"
    BY <1>0, <1>4 DEF LabelUnknowns
  <2> QED BY <2>1, <2>2 DEF UnknownsInv, UnknownsExact
<1>5. ASSUME NEW t \in Task, AppendUnknowns(t) PROVE UnknownsInv'
  BY <1>5, UnknownsAppended
<1>6. ASSUME NEW t \in Task, FinishTask(t) PROVE UnknownsInv'
  BY <1>0, <1>6, UnknownsKept DEF FinishTask
<1>7. CASE NextGroup \/ FailGroup \/ Complete \/ Return \/ UNCHANGED vars
  BY <1>7, UnknownsKept DEF NextGroup, FailGroup, Complete, Return, vars
<1> QED BY <1>1, <1>2, <1>3, <1>4, <1>5, <1>6, <1>7 DEF Next, TaskStep, EndsExecute

\* However the tasks of a group interleave, the unknowns are those of the
\* tasks that got past RunTask, each once, until a labeler edits them.
THEOREM SchedulerUnknownsExact == Spec => []UnknownsExact
<1>1. UnknownsInv => UnknownsExact
  BY DEF UnknownsInv
<1> QED BY <1>1, SchedulerInit, SchedulerStep, UnknownsInit, UnknownsStep, PTL DEF Spec
=============================================================================
