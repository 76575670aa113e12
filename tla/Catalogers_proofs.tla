-------------------------- MODULE Catalogers_proofs -------------------------
(***************************************************************************)
(* Proofs about catalogers and what becomes of what they find, for any     *)
(* files, parsers, packages, errors and SBOMs.                             *)
(***************************************************************************)
EXTENDS GenericCataloger, FormatConversion, GoModules, OtherLocks, FiniteSetTheorems, WellFoundedInduction, TLAPS

\* Induction on the natural numbers, for the set of those that have a property.
LEMMA Inductive ==
  ASSUME NEW S, 0 \in S, \A n \in Nat : n \in S => n + 1 \in S
  PROVE  Nat \subseteq S
<1> DEFINE R == OpToRel(<, Nat)
           T == Nat \ S
<1>1. IsWellFoundedOn(R, Nat)
  BY NatLessThanWellFounded
<1>2. ASSUME T # {} PROVE FALSE
  <2>1. PICK x \in T : \A y \in T : ~(<<y, x>> \in R)
    <3> HIDE DEF R
    <3> QED BY <1>1, <1>2, WFMin
  <2>2. x # 0 /\ x - 1 \in Nat /\ x - 1 < x
    OBVIOUS
  <2>3. x - 1 \in T
    BY <2>2
  <2>4. <<x - 1, x>> \in R
    BY <2>2 DEF OpToRel
  <2> QED BY <2>1, <2>3, <2>4
<1> QED BY <1>2

\* A set of numbers that is not empty has a least one.
LEMMA Least ==
  ASSUME NEW T \in SUBSET Nat, T # {}
  PROVE  Min(T) \in T
<1> DEFINE R == OpToRel(<, Nat)
<1>1. IsWellFoundedOn(R, Nat)
  BY NatLessThanWellFounded
<1>2. PICK x \in T : \A y \in T : ~(<<y, x>> \in R)
  <2> HIDE DEF R
  <2> QED BY <1>1, WFMin
<1>3. ASSUME NEW y \in T PROVE x <= y
  <2>0. x \in Nat /\ y \in Nat
    OBVIOUS
  <2>1. y < x => <<y, x>> \in R
    BY <2>0 DEF OpToRel
  <2>2. ~(<<y, x>> \in R)
    BY <1>2
  <2> HIDE DEF R
  <2> QED BY <2>0, <2>1, <2>2
<1> QED BY <1>3 DEF Min

-----------------------------------------------------------------------------
(* Errors.                                                                 *)

\* f holds what is in e down to each depth.
Depths(f, e, w, N) == f = [n \in 0..N |-> IF n = 0 THEN {e} ELSE Deeper(f[n - 1], w)]

LEMMA DepthsExist ==
  ASSUME NEW e, NEW w
  PROVE  \A N \in Nat : \E f : Depths(f, e, w, N)
<1> DEFINE S == {N \in Nat : \E f : Depths(f, e, w, N)}
<1>1. 0 \in S
  <2>1. Depths([n \in 0..0 |-> {e}], e, w, 0)
    BY DEF Depths
  <2> QED BY <2>1
<1>2. ASSUME NEW N \in Nat, N \in S PROVE N + 1 \in S
  <2>1. PICK f : Depths(f, e, w, N)
    BY <1>2
  <2> DEFINE g == [n \in 0..(N + 1) |-> IF n <= N THEN f[n] ELSE Deeper(f[N], w)]
  <2>2. \A n \in 0..N : g[n] = f[n] /\ f[n] = IF n = 0 THEN {e} ELSE Deeper(f[n - 1], w)
    <3>1. \A n \in 0..N : g[n] = f[n]
      OBVIOUS
    <3> HIDE DEF g
    <3> QED BY <2>1, <3>1 DEF Depths
  <2>3. \A n \in 0..(N + 1) : g[n] = IF n = 0 THEN {e} ELSE Deeper(g[n - 1], w)
    <3> SUFFICES ASSUME NEW n \in 0..(N + 1)
                 PROVE  g[n] = IF n = 0 THEN {e} ELSE Deeper(g[n - 1], w)
      OBVIOUS
    <3>1. CASE n = N + 1
      BY <3>1, <2>2
    <3>2. CASE n \in 0..N
      <4> HIDE DEF g
      <4>1. n # 0 => n - 1 \in 0..N
        BY <3>2
      <4> QED BY <3>2, <2>2, <4>1
    <3> QED BY <3>1, <3>2
  <2>4. Depths(g, e, w, N + 1)
    <3>1. g = [n \in 0..(N + 1) |-> g[n]]
      OBVIOUS
    <3> HIDE DEF g
    <3> QED BY <2>3, <3>1 DEF Depths
  <2> QED BY <2>4
<1>3. Nat \subseteq S
  <2> HIDE DEF S
  <2> QED BY <1>1, <1>2, Inductive
<1> QED BY <1>3

\* InDepth has what there is down to MaxNesting.
LEMMA InDepthDef ==
  ASSUME NEW e, NEW w
  PROVE  \E f : Depths(f, e, w, MaxNesting) /\ InDepth(e, w) = f[MaxNesting]
<1> DEFINE f == CHOOSE g : Depths(g, e, w, MaxNesting)
<1>1. Depths(f, e, w, MaxNesting)
  <2>1. \E g : Depths(g, e, w, MaxNesting)
    BY DepthsExist, CatalogerAssumption
  <2> QED BY <2>1
<1>2. InDepth(e, w) = f[MaxNesting]
  BY Zenon DEF InDepth, Depths
<1> QED BY <1>1, <1>2

\* An error is reached, and what is right beneath it; and no set that has it and
\* what is beneath its members leaves out anything that is reached.
LEMMA InDepthClosed ==
  ASSUME NEW e, NEW w
  PROVE  /\ e \in InDepth(e, w) /\ Beneath(e, w) \subseteq InDepth(e, w)
         /\ \A S : e \in S /\ (\A x \in S : Beneath(x, w) \subseteq S) => InDepth(e, w) \subseteq S
<1>1. PICK f : Depths(f, e, w, MaxNesting) /\ InDepth(e, w) = f[MaxNesting]
  BY InDepthDef
<1>2. \A n \in 0..MaxNesting : f[n] = IF n = 0 THEN {e} ELSE Deeper(f[n - 1], w)
  BY <1>1 DEF Depths
<1>3. e \in InDepth(e, w) /\ Beneath(e, w) \subseteq InDepth(e, w)
  <2> DEFINE T == {n \in Nat : n + 1 <= MaxNesting => {e} \cup Beneath(e, w) \subseteq f[n + 1]}
  <2>0. MaxNesting \in Nat \ {0}
    BY CatalogerAssumption
  <2>1. 0 \in T
    <3>1. f[1] = Deeper({e}, w)
      BY <1>2, <2>0
    <3> QED BY <3>1 DEF Deeper
  <2>2. ASSUME NEW n \in Nat, n \in T PROVE n + 1 \in T
    <3> SUFFICES ASSUME n + 1 + 1 <= MaxNesting PROVE {e} \cup Beneath(e, w) \subseteq f[n + 1 + 1]
      OBVIOUS
    <3>1. f[n + 1 + 1] = Deeper(f[n + 1], w)
      BY <1>2, <2>0
    <3> QED BY <3>1, <2>2, <2>0 DEF Deeper
  <2>3. Nat \subseteq T
    <3> HIDE DEF T
    <3> QED BY <2>1, <2>2, Inductive
  <2>4. MaxNesting - 1 \in T /\ MaxNesting - 1 + 1 = MaxNesting
    <3> HIDE DEF T
    <3> QED BY <2>0, <2>3
  <2> QED BY <2>4, <1>1
<1>4. ASSUME NEW S, e \in S, \A x \in S : Beneath(x, w) \subseteq S
      PROVE  InDepth(e, w) \subseteq S
  <2> DEFINE T == {n \in Nat : n <= MaxNesting => f[n] \subseteq S}
  <2>1. 0 \in T
    BY <1>2, <1>4, CatalogerAssumption
  <2>2. ASSUME NEW n \in Nat, n \in T PROVE n + 1 \in T
    <3> SUFFICES ASSUME n + 1 <= MaxNesting PROVE f[n + 1] \subseteq S
      OBVIOUS
    <3>1. f[n + 1] = Deeper(f[n], w)
      BY <1>2, CatalogerAssumption
    <3>2. f[n] \subseteq S
      BY <2>2, CatalogerAssumption
    <3> QED BY <3>1, <3>2, <1>4 DEF Deeper
  <2>3. Nat \subseteq T
    <3> HIDE DEF T
    <3> QED BY <2>1, <2>2, Inductive
  <2> QED BY <2>3, <1>1, CatalogerAssumption
<1> QED BY <1>3, <1>4

\* The texts of a part of an error that nests no deeper are among its own.
LEMMA TextsWithin ==
  ASSUME NEW e, Said(e), NEW x \in Parts(e)
  PROVE  Texts(x) \subseteq Texts(e) /\ Texts(x) # {}
<1>1. Parts(x) \subseteq Parts(e)
  BY InDepthClosed DEF Parts, Said
<1> QED BY <1>1 DEF Texts, Said

\* f holds the first error about coordinates in each part of e, down to each depth.
FirstRow(e, n, above) == [x \in Parts(e) |-> IF x.kind = "at" THEN x
                                            ELSE IF n = 0 THEN Nil
                                            ELSE FirstIn(x, above)]

FirstRows(f, e, N) == f = [n \in 0..N |-> FirstRow(e, n, f[n - 1])]

LEMMA FirstsExist ==
  ASSUME NEW e
  PROVE  \A N \in Nat : \E f : FirstRows(f, e, N)
<1> DEFINE S == {N \in Nat : \E f : FirstRows(f, e, N)}
<1>1. 0 \in S
  <2> DEFINE first == FirstRow(e, 0, Nil)
             g == [n \in 0..0 |-> first]
  <2>1. \A n \in 0..0 : FirstRow(e, n, g[n - 1]) = first
    BY DEF FirstRow
  <2>2. FirstRows(g, e, 0)
    <3> HIDE DEF first
    <3> QED BY <2>1 DEF FirstRows
  <2> HIDE DEF g
  <2> QED BY <2>2
<1>2. ASSUME NEW N \in Nat, N \in S PROVE N + 1 \in S
  <2>1. PICK f : FirstRows(f, e, N)
    BY <1>2
  <2> DEFINE g == [n \in 0..(N + 1) |-> IF n <= N THEN f[n] ELSE FirstRow(e, N + 1, f[N])]
  <2>2. \A n \in 0..N : g[n] = f[n] /\ f[n] = FirstRow(e, n, f[n - 1])
    <3>1. \A n \in 0..N : g[n] = f[n]
      OBVIOUS
    <3> HIDE DEF g
    <3> QED BY <2>1, <3>1 DEF FirstRows
  <2>3. \A n \in 0..(N + 1) : g[n] = FirstRow(e, n, g[n - 1])
    <3> SUFFICES ASSUME NEW n \in 0..(N + 1) PROVE g[n] = FirstRow(e, n, g[n - 1])
      OBVIOUS
    <3>1. CASE n = N + 1
      BY <3>1, <2>2
    <3>2. CASE n = 0
      <4> HIDE DEF g
      <4>1. FirstRow(e, 0, f[0 - 1]) = FirstRow(e, 0, g[0 - 1])
        BY DEF FirstRow
      <4> QED BY <3>2, <2>2, <4>1
    <3>3. CASE n \in 1..N
      <4> HIDE DEF g
      <4>1. n - 1 \in 0..N
        BY <3>3
      <4> QED BY <3>3, <2>2, <4>1
    <3> QED BY <3>1, <3>2, <3>3
  <2>4. FirstRows(g, e, N + 1)
    <3>1. g = [n \in 0..(N + 1) |-> g[n]]
      OBVIOUS
    <3> HIDE DEF g
    <3> QED BY <2>3, <3>1 DEF FirstRows
  <2> HIDE DEF g
  <2> QED BY <2>4
<1>3. Nat \subseteq S
  <2> HIDE DEF S
  <2> QED BY <1>1, <1>2, Inductive
<1> QED BY <1>3

\* What errors.As finds in an error is a part of it that is about coordinates.
LEMMA FirstFound ==
  ASSUME NEW e, Said(e), FirstAt(e) # Nil
  PROVE  FirstAt(e) \in Parts(e) /\ FirstAt(e).kind = "at"
<1> DEFINE N == MaxNesting
           f == CHOOSE g : FirstRows(g, e, N)
           ok(y) == y = Nil \/ (y \in Parts(e) /\ y.kind = "at")
           T == {n \in Nat : n <= N => \A x \in Parts(e) : ok(f[n][x])}
<1>1. FirstRows(f, e, N)
  <2>1. \E g : FirstRows(g, e, N)
    BY FirstsExist, CatalogerAssumption
  <2> QED BY <2>1
<1>2. FirstAt(e) = f[N][e]
  BY Zenon DEF FirstAt, FirstRows, FirstRow
<1> HIDE DEF f
<1>0. N \in Nat
  BY CatalogerAssumption
<1>3. \A n \in 0..N : \A x \in Parts(e) :
        f[n][x] = IF x.kind = "at" THEN x ELSE IF n = 0 THEN Nil ELSE FirstIn(x, f[n - 1])
  <2>1. \A n \in 0..N : f[n] = FirstRow(e, n, f[n - 1])
    BY <1>1 DEF FirstRows
  <2> QED BY <2>1 DEF FirstRow
<1>4. 0 \in T
  <2>1. \A x \in Parts(e) : f[0][x] = IF x.kind = "at" THEN x ELSE Nil
    BY <1>0, <1>3
  <2> QED BY <2>1
<1>5. ASSUME NEW n \in Nat, n \in T PROVE n + 1 \in T
  <2> SUFFICES ASSUME n + 1 <= N, NEW x \in Parts(e) PROVE ok(f[n + 1][x])
    OBVIOUS
  <2>1. \A y \in Parts(e) : ok(f[n][y])
    BY <1>5, CatalogerAssumption
  <2>2. f[n + 1][x] = IF x.kind = "at" THEN x ELSE FirstIn(x, f[n])
    BY <1>3, CatalogerAssumption
  <2>3. Beneath(x, TRUE) \subseteq Parts(e)
    BY DEF Said
  <2>4. CASE x.kind = "at"
    BY <2>2, <2>4
  <2>5. CASE x.kind = "wrapped"
    <3>1. x.inner \in Parts(e)
      BY <2>3, <2>5 DEF Beneath
    <3>2. FirstIn(x, f[n]) = f[n][x.inner]
      BY <2>5 DEF FirstIn
    <3> QED BY <2>1, <2>2, <2>5, <3>1, <3>2
  <2>6. CASE x.kind = "joined"
    <3> DEFINE found == {i \in DOMAIN x.errors : f[n][x.errors[i]] # Nil}
    <3>1. FirstIn(x, f[n]) = IF found = {} THEN Nil ELSE f[n][x.errors[Min(found)]]
      BY <2>6 DEF FirstIn
    <3>2. x.errors \in Seq(Parts(e))
      BY <2>6 DEF Said
    <3> HIDE DEF found
    <3>3. CASE found = {}
      <4>1. f[n + 1][x] = Nil
        BY <2>2, <2>6, <3>1, <3>3
      <4> QED BY <4>1
    <3>4. CASE found # {}
      <4>0. found \in SUBSET Nat /\ found \subseteq DOMAIN x.errors
        BY <3>2 DEF found
      <4>1. Min(found) \in found
        BY <3>4, <4>0, Least
      <4>2. x.errors[Min(found)] \in Parts(e)
        BY <3>2, <4>0, <4>1
      <4> HIDE DEF found, ok
      <4>3. f[n + 1][x] = f[n][x.errors[Min(found)]]
        BY <2>2, <2>6, <3>1, <3>4
      <4> QED BY <2>1, <4>2, <4>3
    <3> QED BY <3>3, <3>4
  <2>7. CASE x.kind # "at" /\ x.kind # "wrapped" /\ x.kind # "joined"
    <3>1. FirstIn(x, f[n]) = Nil
      BY <2>7, Zenon DEF FirstIn
    <3> QED BY <2>2, <2>7, <3>1
  <2> QED BY <2>4, <2>5, <2>6, <2>7
<1>6. Nat \subseteq T
  <2> HIDE DEF T
  <2> QED BY <1>4, <1>5, Inductive
<1>7. ok(f[N][e])
  <2>1. N \in T
    <3> HIDE DEF T
    <3> QED BY <1>0, <1>6
  <2>2. e \in Parts(e)
    BY InDepthClosed DEF Parts
  <2> QED BY <1>0, <2>1, <2>2
<1> QED BY <1>2, <1>7

\* An error of a parser becomes one about coordinates, with something that the
\* parser said.
LEMMA NewSaid ==
  ASSUME NEW c, NEW e, Said(e)
  PROVE  /\ New(c, e).kind = "at"
         /\ Texts(New(c, e).reason) # {} /\ Texts(New(c, e).reason) \subseteq Texts(e)
<1>1. e # Nil
  <2>1. SUFFICES ASSUME e = Nil PROVE FALSE
    OBVIOUS
  <2>2. Parts(e) \subseteq {Nil}
    <3>1. Beneath(Nil, TRUE) = {}
      BY DEF Beneath, Nil
    <3> QED BY <2>1, <3>1, InDepthClosed DEF Parts
  <2>3. Texts(e) = {}
    BY <2>2 DEF Texts, Nil
  <2> QED BY <2>3, InDepthClosed DEF Parts, Said
<1>2. CASE FirstAt(e) = Nil
  <2>1. New(c, e) = At(c, e)
    BY <1>1, <1>2 DEF New
  <2>2. New(c, e).kind = "at" /\ New(c, e).reason = e
    BY <2>1 DEF At
  <2>3. e \in Parts(e)
    BY InDepthClosed DEF Parts
  <2> QED BY <2>2, <2>3, TextsWithin
<1>3. CASE FirstAt(e) # Nil
  <2> DEFINE u == FirstAt(e)
  <2>1. New(c, e) = u
    BY <1>1, <1>3 DEF New
  <2>2. u \in Parts(e) /\ u.kind = "at"
    BY <1>3, FirstFound
  <2>3. u.reason \in Parts(e)
    BY <2>2 DEF Said, Beneath
  <2> QED BY <2>1, <2>2, <2>3, TextsWithin
<1> QED BY <1>2, <1>3

\* What errors about coordinates are joined to has all of them.
LEMMA JoinedPlaces ==
  ASSUME NEW S, NEW es \in Seq(S), \A i \in DOMAIN es : es[i].kind = "at"
  PROVE  Range(es) \subseteq Places(Joined(es))
<1>1. CASE es = <<>>
  BY <1>1 DEF Range
<1>2. CASE es # <<>>
  <2>1. Beneath(Joined(es), FALSE) = Range(es)
    BY <1>2 DEF Beneath, Joined
  <2>2. Range(es) \subseteq Opened(Joined(es))
    BY <2>1, InDepthClosed DEF Opened
  <2> QED BY <2>2 DEF Places, Range
<1> QED BY <1>1, <1>2

-----------------------------------------------------------------------------
(* Counting.                                                               *)

\* What is paired with i, or moved by n, is as many as it was.
LEMMA PairedCount ==
  ASSUME NEW i, NEW K, IsFiniteSet(K)
  PROVE  LET P == {<<i, k>> : k \in K}
         IN  IsFiniteSet(P) /\ Cardinality(P) = Cardinality(K)
<1> DEFINE P == {<<i, k>> : k \in K}
           f == [k \in K |-> <<i, k>>]
<1>1. f \in Bijection(K, P)
  BY DEF Bijection, Injection, Surjection, IsInjective
<1>2. ExistsBijection(K, P)
  BY <1>1 DEF ExistsBijection
<1> QED BY <1>2, FS_Bijection

LEMMA MovedCount ==
  ASSUME NEW n \in Nat, NEW K \in SUBSET Nat, IsFiniteSet(K)
  PROVE  LET P == {n + k : k \in K}
         IN  IsFiniteSet(P) /\ Cardinality(P) = Cardinality(K)
<1> DEFINE P == {n + k : k \in K}
           f == [k \in K |-> n + k]
<1>1. f \in Bijection(K, P)
  BY DEF Bijection, Injection, Surjection, IsInjective
<1>2. ExistsBijection(K, P)
  BY <1>1 DEF ExistsBijection
<1> QED BY <1>2, FS_Bijection

\* Where something is in a sequence are finitely many places.
LEMMA WhereFinite ==
  ASSUME NEW S, NEW s \in Seq(S), NEW p
  PROVE  IsFiniteSet(Where(p, s)) /\ Where(p, s) \in SUBSET (1..Len(s))
<1>1. Where(p, s) \in SUBSET (1..Len(s))
  BY DEF Where
<1>2. IsFiniteSet(1..Len(s))
  BY FS_Interval
<1> QED BY <1>1, <1>2, FS_Subset

\* In two sequences, one after the other, it is as often as in both.
LEMMA WhereBoth ==
  ASSUME NEW S, NEW a \in Seq(S), NEW b \in Seq(S), NEW p
  PROVE  Cardinality(Where(p, a \o b)) = Cardinality(Where(p, a)) + Cardinality(Where(p, b))
<1> DEFINE A == Where(p, a)
           B == Where(p, b)
           M == {Len(a) + k : k \in B}
<1>1. IsFiniteSet(A) /\ A \in SUBSET (1..Len(a)) /\ IsFiniteSet(B) /\ B \in SUBSET (1..Len(b))
  BY WhereFinite
<1>2. IsFiniteSet(M) /\ Cardinality(M) = Cardinality(B)
  <2>1. 1..Len(b) \subseteq Nat /\ Len(a) \in Nat
    OBVIOUS
  <2>2. B \in SUBSET Nat /\ IsFiniteSet(B)
    <3> HIDE DEF B
    <3> QED BY <1>1, <2>1
  <2> HIDE DEF B
  <2> QED BY <2>1, <2>2, MovedCount
<1>3. Where(p, a \o b) = A \cup M
  <2>1. \A i \in A : i \in Where(p, a \o b)
    BY DEF Where
  <2>2. \A k \in B : Len(a) + k \in Where(p, a \o b)
    BY DEF Where
  <2>3. ASSUME NEW i \in Where(p, a \o b) PROVE i \in A \cup M
    <3>1. i \in 1..(Len(a) + Len(b)) /\ (a \o b)[i] = p
      BY DEF Where
    <3>2. CASE i <= Len(a)
      BY <3>1, <3>2 DEF Where
    <3>3. CASE i > Len(a)
      <4>1. i - Len(a) \in B /\ i = Len(a) + (i - Len(a))
        BY <3>1, <3>3 DEF Where
      <4> HIDE DEF B
      <4> QED BY <4>1
    <3> QED BY <3>1, <3>2, <3>3
  <2> HIDE DEF A, B
  <2> QED BY <2>1, <2>2, <2>3
<1>4. A \cap M = {}
  <2> HIDE DEF A, B
  <2> QED BY <1>1
<1>5. Cardinality(A \cap M) = 0
  BY <1>4, FS_EmptySet
<1>6. Cardinality(A) \in Nat /\ Cardinality(B) \in Nat
  BY <1>1, FS_CardinalityType
<1> HIDE DEF A, B, M
<1>7. Cardinality(A \cup M) = Cardinality(A) + Cardinality(M) - Cardinality(A \cap M)
  BY <1>1, <1>2, FS_Union
<1> QED BY <1>2, <1>3, <1>5, <1>6, <1>7 DEF A, B

-----------------------------------------------------------------------------
(* The catalogers of a group.                                              *)

Yield(t, i) == contents[FilesOf[t][i]]

\* The requests of t that were begun and are over, and where p is in their yields.
Ended(t) == (1..begun[t]) \ parsing[t]

Occurs(t, p, S) == UNION {{<<i, k>> : k \in Where(p, Yield(t, i).packages)} : i \in S}

Reports == UNION {{New(f, y.error) : y \in Yields[f]} : f \in DOMAIN Yields}

CatTypeOK ==
  /\ contents \in [DOMAIN Yields -> UNION Range(Yields)]
  /\ \A f \in DOMAIN Yields : contents[f] \in Yields[f]
  /\ at \in [Task -> {"waiting", "collecting", "over"}]
  /\ parsing \in [Task -> SUBSET Nat]
  /\ begun \in [Task -> Nat]
  /\ packages \in [Task -> Seq(DOMAIN Provides)]
  /\ errors \in [Task -> Seq(Reports)]
  /\ result \in [Task -> [packages : Seq(DOMAIN Provides),
                        dependencies : SUBSET ((DOMAIN Provides) \X (DOMAIN Provides))]]

\* Requests are in a slot after they were begun, in turn, while their task runs.
InTurn(t) ==
  /\ begun[t] <= Len(FilesOf[t]) /\ parsing[t] \subseteq 1..begun[t]
  /\ at[t] = "waiting" => begun[t] = 0 /\ packages[t] = <<>> /\ errors[t] = <<>>
                          /\ result[t] = [packages |-> <<>>, dependencies |-> {}]
  /\ at[t] # "collecting" => parsing[t] = {}

\* The accumulator has each package as often as the requests that are over yield it,
\* and an error for each of them that failed.
Counted(t, p) == /\ IsFiniteSet(Occurs(t, p, Ended(t)))
                 /\ Cardinality(Where(p, packages[t])) = Cardinality(Occurs(t, p, Ended(t)))

Accumulated(t) ==
  /\ \A p \in DOMAIN Provides : Counted(t, p)
  /\ \A i \in DOMAIN errors[t] : errors[t][i].kind = "at"
  /\ \A i \in Ended(t) : Yield(t, i).error # Nil =>
       New(FilesOf[t][i], Yield(t, i).error) \in Range(errors[t])

\* What a task returned when all were begun is what its accumulator has.
Returned(t) ==
  AllBegun(t) => /\ result[t] = [packages |-> packages[t], dependencies |-> Dependencies(packages[t])]
                 /\ Range(errors[t]) \subseteq unknowns

CatInv == CatTypeOK /\ \A t \in Task : InTurn(t) /\ Accumulated(t) /\ Returned(t)

LEMMA NewSays ==
  ASSUME NEW f \in DOMAIN Yields, NEW y \in Yields[f], y.error # Nil
  PROVE  /\ New(f, y.error).kind = "at"
         /\ Texts(New(f, y.error).reason) # {}
         /\ Texts(New(f, y.error).reason) \subseteq Texts(y.error)
<1>1. Said(y.error)
  BY CatalogerAssumption
<1> QED BY <1>1, NewSaid

LEMMA CatInitially == CatInit => CatInv
<1> SUFFICES ASSUME CatInit PROVE CatInv
  OBVIOUS
<1>1. CatTypeOK
  BY DEF CatInit, CatTypeOK
<1>2. ASSUME NEW t \in Task PROVE InTurn(t) /\ Accumulated(t) /\ Returned(t)
  <2>1. begun[t] = 0 /\ parsing[t] = {} /\ packages[t] = <<>> /\ errors[t] = <<>> /\ at[t] = "waiting"
        /\ result[t] = [packages |-> <<>>, dependencies |-> {}]
    BY <1>2 DEF CatInit
  <2>2. InTurn(t)
    <3>1. Len(FilesOf[t]) \in Nat
      BY CatalogerAssumption
    <3> QED BY <2>1, <3>1 DEF InTurn
  <2>3. Ended(t) = {}
    BY <2>1 DEF Ended
  <2>4. \A p : Occurs(t, p, Ended(t)) = {} /\ Where(p, packages[t]) = {}
    BY <2>1, <2>3 DEF Occurs, Where
  <2>5. Accumulated(t)
    <3>1. ASSUME NEW p \in DOMAIN Provides PROVE Counted(t, p)
      BY <2>4, FS_EmptySet DEF Counted
    <3>2. DOMAIN errors[t] = {}
      BY <2>1
    <3> QED BY <2>3, <3>1, <3>2 DEF Accumulated
  <2>6. Returned(t)
    BY <2>1 DEF Returned, AllBegun
  <2> QED BY <2>2, <2>5, <2>6
<1> QED BY <1>1, <1>2 DEF CatInv

\* What is about one task is left by a step that leaves what it reads.
Same(t) == /\ at'[t] = at[t] /\ begun'[t] = begun[t] /\ parsing'[t] = parsing[t]
           /\ packages'[t] = packages[t] /\ errors'[t] = errors[t] /\ result'[t] = result[t]

LEMMA SameStep ==
  ASSUME NEW t \in Task, InTurn(t), Accumulated(t), Returned(t),
         Same(t), contents' = contents, unknowns \subseteq unknowns'
  PROVE  InTurn(t)' /\ Accumulated(t)' /\ Returned(t)'
<1>1. InTurn(t)'
  BY DEF InTurn, Same
<1>2. Ended(t)' = Ended(t) /\ \A i : Yield(t, i)' = Yield(t, i)
  BY DEF Ended, Yield, Same
<1>3. \A p : Occurs(t, p, Ended(t))' = Occurs(t, p, Ended(t))
  BY <1>2 DEF Occurs
<1>4. Accumulated(t)'
  BY <1>2, <1>3 DEF Accumulated, Counted, Same
<1>5. Returned(t)'
  BY DEF Returned, AllBegun, Same
<1> QED BY <1>1, <1>4, <1>5

LEMMA BeginTaskStep ==
  ASSUME CatInv, NEW t \in Task, BeginTask(t)
  PROVE  CatInv'
<1>1. CatTypeOK'
  BY DEF CatInv, CatTypeOK, BeginTask
<1>2. ASSUME NEW u \in Task PROVE InTurn(u)' /\ Accumulated(u)' /\ Returned(u)'
  <2>0. InTurn(u) /\ Accumulated(u) /\ Returned(u)
    BY DEF CatInv
  <2>1. CASE u # t
    <3>1. Same(u)
      BY <2>1 DEF BeginTask, Same, CatInv, CatTypeOK
    <3> QED BY <2>0, <3>1, SameStep DEF BeginTask
  <2>2. CASE u = t
    <3>1. at'[t] = "collecting" /\ begun'[t] = begun[t] /\ parsing'[t] = parsing[t]
          /\ packages'[t] = packages[t] /\ errors'[t] = errors[t] /\ contents' = contents
      BY DEF BeginTask, CatInv, CatTypeOK
    <3>2. InTurn(t)'
      BY <2>0, <2>2, <3>1 DEF InTurn
    <3>3. Ended(t)' = Ended(t) /\ \A i : Yield(t, i)' = Yield(t, i)
      BY <3>1 DEF Ended, Yield
    <3>4. \A p : Occurs(t, p, Ended(t))' = Occurs(t, p, Ended(t))
      BY <3>3 DEF Occurs
    <3>5. Accumulated(t)'
      BY <2>0, <2>2, <3>1, <3>3, <3>4 DEF Accumulated, Counted
    <3>6. Returned(t)'
      BY <3>1 DEF Returned, AllBegun
    <3> QED BY <2>2, <3>2, <3>5, <3>6
  <2> QED BY <2>1, <2>2
<1> QED BY <1>1, <1>2 DEF CatInv

LEMMA BeginFileStep ==
  ASSUME CatInv, NEW t \in Task, BeginFile(t)
  PROVE  CatInv'
<1>1. CatTypeOK'
  <2>1. begun' \in [Task -> Nat] /\ begun'[t] \in Nat
    BY DEF CatInv, CatTypeOK, BeginFile
  <2>2. parsing' \in [Task -> SUBSET Nat]
    BY <2>1 DEF CatInv, CatTypeOK, BeginFile
  <2> QED BY <2>1, <2>2 DEF CatInv, CatTypeOK, BeginFile
<1>2. ASSUME NEW u \in Task PROVE InTurn(u)' /\ Accumulated(u)' /\ Returned(u)'
  <2>0. InTurn(u) /\ Accumulated(u) /\ Returned(u)
    BY DEF CatInv
  <2>1. CASE u # t
    <3>1. Same(u)
      BY <2>1 DEF BeginFile, Same, CatInv, CatTypeOK
    <3> QED BY <2>0, <3>1, SameStep DEF BeginFile
  <2>2. CASE u = t
    <3>1. at'[t] = "collecting" /\ begun'[t] = begun[t] + 1 /\ parsing'[t] = parsing[t] \cup {begun[t] + 1}
          /\ packages'[t] = packages[t] /\ errors'[t] = errors[t] /\ contents' = contents
          /\ begun[t] < Len(FilesOf[t]) /\ begun[t] \in Nat /\ Len(FilesOf[t]) \in Nat
      BY CatalogerAssumption DEF BeginFile, CatInv, CatTypeOK
    <3>2. InTurn(t)'
      BY <2>0, <2>2, <3>1 DEF InTurn
    <3>3. Ended(t)' = Ended(t) /\ \A i : Yield(t, i)' = Yield(t, i)
      <4>1. parsing[t] \subseteq 1..begun[t]
        BY <2>0, <2>2 DEF InTurn
      <4> QED BY <3>1, <4>1 DEF Ended, Yield
    <3>4. \A p : Occurs(t, p, Ended(t))' = Occurs(t, p, Ended(t))
      BY <3>3 DEF Occurs
    <3>5. Accumulated(t)'
      BY <2>0, <2>2, <3>1, <3>3, <3>4 DEF Accumulated, Counted
    <3>6. Returned(t)'
      BY <3>1 DEF Returned, AllBegun
    <3> QED BY <2>2, <3>2, <3>5, <3>6
  <2> QED BY <2>1, <2>2
<1> QED BY <1>1, <1>2 DEF CatInv

\* What one more request that is over adds to where p is in the yields.
LEMMA OccursMore ==
  ASSUME CatTypeOK, NEW t \in Task, NEW p, NEW S, NEW i \in DOMAIN FilesOf[t], i \notin S,
         IsFiniteSet(Occurs(t, p, S))
  PROVE  /\ IsFiniteSet(Occurs(t, p, S \cup {i}))
         /\ Cardinality(Occurs(t, p, S \cup {i}))
              = Cardinality(Occurs(t, p, S)) + Cardinality(Where(p, Yield(t, i).packages))
<1> DEFINE K == Where(p, Yield(t, i).packages)
           P == {<<i, k>> : k \in K}
           O == Occurs(t, p, S)
<1>1. Yield(t, i).packages \in Seq(DOMAIN Provides)
  <2>1. FilesOf[t] \in Seq(DOMAIN Yields)
    BY CatalogerAssumption
  <2>2. FilesOf[t][i] \in DOMAIN Yields
    BY <2>1
  <2> QED BY <2>2, CatalogerAssumption DEF Yield, CatTypeOK
<1>2. IsFiniteSet(K)
  BY <1>1, WhereFinite
<1>3. IsFiniteSet(P) /\ Cardinality(P) = Cardinality(K)
  <2> HIDE DEF K
  <2> QED BY <1>2, PairedCount
<1>4. Occurs(t, p, S \cup {i}) = O \cup P
  BY DEF Occurs
<1>5. O \cap P = {}
  BY DEF Occurs
<1>6. Cardinality(O \cap P) = 0
  BY <1>5, FS_EmptySet
<1>7. Cardinality(O) \in Nat /\ Cardinality(K) \in Nat
  BY <1>2, FS_CardinalityType
<1> HIDE DEF O, P, K
<1>8. IsFiniteSet(O)
  BY DEF O
<1>9. IsFiniteSet(O \cup P) /\ Cardinality(O \cup P) = Cardinality(O) + Cardinality(P) - Cardinality(O \cap P)
  BY <1>3, <1>8, FS_Union
<1>10. Cardinality(O \cup P) = Cardinality(O) + Cardinality(K)
  BY <1>3, <1>6, <1>7, <1>9
<1> QED BY <1>4, <1>9, <1>10 DEF O, K

LEMMA EndFileStep ==
  ASSUME CatInv, NEW t \in Task, NEW i, EndFile(t, i)
  PROVE  CatInv'
<1> DEFINE y == Yield(t, i)
<1>0. InTurn(t) /\ Accumulated(t) /\ CatTypeOK
  BY DEF CatInv
<1>1. /\ i \in parsing[t] /\ i \in 1..begun[t] /\ i \in DOMAIN FilesOf[t]
      /\ FilesOf[t] \in Seq(DOMAIN Yields) /\ begun[t] \in Nat
  <2>1. FilesOf[t] \in Seq(DOMAIN Yields)
    BY CatalogerAssumption
  <2>2. i \in parsing[t] /\ i \in 1..begun[t]
    BY <1>0 DEF EndFile, InTurn
  <2>3. begun[t] \in Nat /\ begun[t] <= Len(FilesOf[t])
    BY <1>0 DEF InTurn, CatTypeOK
  <2> QED BY <2>1, <2>2, <2>3
<1>2. /\ FilesOf[t][i] \in DOMAIN Yields /\ y \in Yields[FilesOf[t][i]]
      /\ y.packages \in Seq(DOMAIN Provides)
  <2>1. FilesOf[t][i] \in DOMAIN Yields
    BY <1>1
  <2> QED BY <1>0, <2>1, CatalogerAssumption DEF Yield, CatTypeOK
<1> DEFINE r == New(FilesOf[t][i], y.error)
<1>3. r \in Reports
  BY <1>2 DEF Reports
<1>4. y.error # Nil => r.kind = "at"
  BY <1>2, NewSays
<1>5. /\ parsing' = [parsing EXCEPT ![t] = @ \ {i}]
      /\ packages' = [packages EXCEPT ![t] = @ \o y.packages]
      /\ errors' = IF y.error = Nil THEN errors ELSE [errors EXCEPT ![t] = Append(@, r)]
      /\ UNCHANGED <<contents, at, begun, cancelled, result, unknowns, failures>>
  BY DEF EndFile, Yield
<1> HIDE DEF y, r
<1>6. CatTypeOK'
  <2>1. packages' \in [Task -> Seq(DOMAIN Provides)]
    <3>1. packages[t] \o y.packages \in Seq(DOMAIN Provides)
      BY <1>0, <1>2 DEF CatTypeOK
    <3> QED BY <1>0, <1>5, <3>1 DEF CatTypeOK
  <2>2. errors' \in [Task -> Seq(Reports)]
    <3>1. Append(errors[t], r) \in Seq(Reports)
      BY <1>0, <1>3 DEF CatTypeOK
    <3> QED BY <1>0, <1>5, <3>1 DEF CatTypeOK
  <2>3. parsing' \in [Task -> SUBSET Nat]
    BY <1>0, <1>5 DEF CatTypeOK
  <2> QED BY <1>0, <1>5, <2>1, <2>2, <2>3 DEF CatTypeOK
<1>7. ASSUME NEW u \in Task PROVE InTurn(u)' /\ Accumulated(u)' /\ Returned(u)'
  <2>0. InTurn(u) /\ Accumulated(u) /\ Returned(u)
    BY DEF CatInv
  <2>1. CASE u # t
    <3>1. Same(u)
      BY <1>0, <1>5, <2>1 DEF Same, CatTypeOK
    <3> QED BY <1>5, <2>0, <3>1, SameStep
  <2>2. CASE u = t
    <3>1. at[t] = "collecting"
      BY <1>0, <1>1 DEF InTurn
    <3>2. /\ at'[t] = at[t] /\ begun'[t] = begun[t] /\ parsing'[t] = parsing[t] \ {i}
          /\ packages'[t] = packages[t] \o y.packages /\ contents' = contents
          /\ errors'[t] = IF y.error = Nil THEN errors[t] ELSE Append(errors[t], r)
      BY <1>0, <1>5 DEF CatTypeOK
    <3>3. InTurn(t)'
      BY <1>0, <3>1, <3>2 DEF InTurn
    <3>4. Ended(t)' = Ended(t) \cup {i} /\ i \notin Ended(t) /\ \A j : Yield(t, j)' = Yield(t, j)
      BY <1>1, <3>2 DEF Ended, Yield
    <3>5. ASSUME NEW p \in DOMAIN Provides PROVE Counted(t, p)'
      <4>1. /\ IsFiniteSet(Occurs(t, p, Ended(t)))
            /\ Cardinality(Where(p, packages[t])) = Cardinality(Occurs(t, p, Ended(t)))
        BY <1>0 DEF Accumulated, Counted
      <4>2. /\ IsFiniteSet(Occurs(t, p, Ended(t) \cup {i}))
            /\ Cardinality(Occurs(t, p, Ended(t) \cup {i}))
                 = Cardinality(Occurs(t, p, Ended(t))) + Cardinality(Where(p, y.packages))
        BY <1>0, <1>1, <3>4, <4>1, OccursMore DEF y
      <4>3. Cardinality(Where(p, packages[t] \o y.packages))
              = Cardinality(Where(p, packages[t])) + Cardinality(Where(p, y.packages))
        BY <1>0, <1>2, WhereBoth DEF CatTypeOK
      <4>4. Occurs(t, p, Ended(t))' = Occurs(t, p, Ended(t) \cup {i})
        BY <3>4 DEF Occurs
      <4>5. Where(p, packages[t])' = Where(p, packages[t] \o y.packages)
        BY <3>2 DEF Where
      <4> QED BY <4>1, <4>2, <4>3, <4>4, <4>5 DEF Counted
    <3>6. \A j \in DOMAIN errors'[t] : errors'[t][j].kind = "at"
      <4>1. errors[t] \in Seq(Reports) /\ \A j \in DOMAIN errors[t] : errors[t][j].kind = "at"
        BY <1>0 DEF Accumulated, CatTypeOK
      <4> QED BY <1>3, <1>4, <3>2, <4>1
    <3>7. Range(errors[t]) \subseteq Range(errors'[t]) /\ (y.error # Nil => r \in Range(errors'[t]))
      <4>1. errors[t] \in Seq(Reports)
        BY <1>0 DEF CatTypeOK
      <4>2. CASE y.error = Nil
        BY <3>2, <4>2
      <4>3. CASE y.error # Nil
        <5>1. errors'[t] = Append(errors[t], r)
          BY <3>2, <4>3
        <5>2. /\ Len(errors[t]) + 1 \in DOMAIN errors'[t] /\ errors'[t][Len(errors[t]) + 1] = r
              /\ \A j \in DOMAIN errors[t] : j \in DOMAIN errors'[t] /\ errors'[t][j] = errors[t][j]
          BY <1>3, <4>1, <5>1
        <5> QED BY <5>2 DEF Range
      <4> QED BY <4>2, <4>3
    <3>8. ASSUME NEW j \in Ended(t)', Yield(t, j)'.error # Nil
          PROVE  New(FilesOf[t][j], Yield(t, j)'.error) \in Range(errors'[t])
      <4>1. CASE j = i
        BY <3>4, <3>7, <3>8, <4>1 DEF r, y
      <4>2. CASE j # i
        <5>1. j \in Ended(t) /\ Yield(t, j)' = Yield(t, j)
          BY <3>4, <4>2
        <5> QED BY <1>0, <3>7, <3>8, <5>1 DEF Accumulated
      <4> QED BY <4>1, <4>2
    <3>9. Accumulated(t)'
      BY <3>5, <3>6, <3>8 DEF Accumulated
    <3>10. Returned(t)'
      BY <3>1, <3>2 DEF Returned, AllBegun
    <3> QED BY <2>2, <3>3, <3>9, <3>10
  <2> QED BY <2>1, <2>2
<1> QED BY <1>6, <1>7 DEF CatInv

LEMMA EndTaskStep ==
  ASSUME CatInv, NEW t \in Task, EndTask(t)
  PROVE  CatInv'
<1> DEFINE short == begun[t] < Len(FilesOf[t])
           tail == IF short THEN <<Plain("cancelled")>> ELSE <<>>
           d == Dependencies(packages[t])
<1>0. CatTypeOK /\ InTurn(t) /\ Accumulated(t)
  BY DEF CatInv
<1>1. CatTypeOK'
  <2>1. packages[t] \in Seq(DOMAIN Provides)
    BY <1>0 DEF CatTypeOK
  <2>2. d \subseteq (DOMAIN Provides) \X (DOMAIN Provides)
    BY <2>1 DEF Dependencies, Range
  <2> HIDE DEF d
  <2>3. result' = [result EXCEPT ![t] = [packages |-> packages[t], dependencies |-> d]]
    BY DEF EndTask, d
  <2>4. result' \in [Task -> [packages : Seq(DOMAIN Provides),
                             dependencies : SUBSET ((DOMAIN Provides) \X (DOMAIN Provides))]]
    BY <1>0, <2>1, <2>2, <2>3 DEF CatTypeOK
  <2> QED BY <1>0, <2>4 DEF CatTypeOK, EndTask
<1>2. unknowns \subseteq unknowns'
  BY DEF EndTask
<1>3. ASSUME NEW u \in Task PROVE InTurn(u)' /\ Accumulated(u)' /\ Returned(u)'
  <2>0. InTurn(u) /\ Accumulated(u) /\ Returned(u)
    BY DEF CatInv
  <2>1. CASE u # t
    <3>1. Same(u)
      BY <1>0, <2>1 DEF EndTask, Same, CatTypeOK
    <3> QED BY <1>2, <2>0, <3>1, SameStep DEF EndTask
  <2>2. CASE u = t
    <3>1. at'[t] = "over" /\ begun'[t] = begun[t] /\ parsing'[t] = parsing[t] /\ parsing[t] = {}
          /\ packages'[t] = packages[t] /\ errors'[t] = errors[t] /\ contents' = contents
          /\ result'[t] = [packages |-> packages[t], dependencies |-> d]
      BY <1>0 DEF EndTask, CatTypeOK
    <3>2. InTurn(t)'
      BY <1>0, <3>1 DEF InTurn
    <3>3. Ended(t)' = Ended(t) /\ \A i : Yield(t, i)' = Yield(t, i)
      BY <3>1 DEF Ended, Yield
    <3>4. \A p : Occurs(t, p, Ended(t))' = Occurs(t, p, Ended(t))
      BY <3>3 DEF Occurs
    <3>5. Accumulated(t)'
      BY <1>0, <3>1, <3>3, <3>4 DEF Accumulated, Counted
    <3>6. ASSUME AllBegun(t)' PROVE Range(errors[t]) \subseteq unknowns'
      <4>1. ~short
        BY <3>1, <3>6, CatalogerAssumption, <1>0 DEF AllBegun, CatTypeOK
      <4>2. errors[t] \in Seq(Reports) /\ \A i \in DOMAIN errors[t] : errors[t][i].kind = "at"
        BY <1>0 DEF CatTypeOK, Accumulated
      <4>3. errors[t] \o tail = errors[t]
        BY <4>1, <4>2
      <4>4. unknowns' = unknowns \cup Places(Joined(errors[t] \o tail))
        BY DEF EndTask
      <4> QED BY <4>2, <4>3, <4>4, JoinedPlaces
    <3>7. Dependencies(packages[t])' = d
      BY <3>1 DEF Dependencies
    <3>8. Returned(t)'
      BY <3>1, <3>6, <3>7 DEF Returned
    <3> QED BY <2>2, <3>2, <3>5, <3>8
  <2> QED BY <2>1, <2>2
<1> QED BY <1>1, <1>3 DEF CatInv

LEMMA SkipTaskStep ==
  ASSUME CatInv, NEW t \in Task, SkipTask(t)
  PROVE  CatInv'
<1>0. CatTypeOK
  BY DEF CatInv
<1>1. CatTypeOK'
  BY <1>0 DEF CatTypeOK, SkipTask
<1>2. ASSUME NEW u \in Task PROVE InTurn(u)' /\ Accumulated(u)' /\ Returned(u)'
  <2>0. InTurn(u) /\ Accumulated(u) /\ Returned(u)
    BY DEF CatInv
  <2>1. CASE u # t
    <3>1. Same(u)
      BY <1>0, <2>1 DEF SkipTask, Same, CatTypeOK
    <3> QED BY <2>0, <3>1, SameStep DEF SkipTask
  <2>2. CASE u = t
    <3>1. /\ at[t] = "waiting" /\ at'[t] = "over" /\ begun'[t] = begun[t] /\ parsing'[t] = parsing[t]
          /\ packages'[t] = packages[t] /\ errors'[t] = errors[t] /\ contents' = contents
          /\ result'[t] = result[t] /\ unknowns' = unknowns
      BY <1>0 DEF SkipTask, CatTypeOK
    <3>2. /\ begun[t] = 0 /\ packages[t] = <<>> /\ errors[t] = <<>> /\ parsing[t] = {}
          /\ result[t] = [packages |-> <<>>, dependencies |-> {}]
      BY <2>0, <2>2, <3>1 DEF InTurn
    <3>3. InTurn(t)'
      BY <2>0, <2>2, <3>1, <3>2 DEF InTurn
    <3>4. Ended(t)' = Ended(t) /\ \A i : Yield(t, i)' = Yield(t, i)
      BY <3>1 DEF Ended, Yield
    <3>5. \A p : Occurs(t, p, Ended(t))' = Occurs(t, p, Ended(t))
      BY <3>4 DEF Occurs
    <3>6. Accumulated(t)'
      BY <2>0, <2>2, <3>1, <3>4, <3>5 DEF Accumulated, Counted
    <3>7. Dependencies(packages[t])' = {}
      <4>1. packages'[t] = <<>>
        BY <3>1, <3>2
      <4>2. Range(<<>>) = {}
        BY DEF Range
      <4> QED BY <4>1, <4>2 DEF Dependencies
    <3>8. Range(errors'[t]) = {}
      BY <3>1, <3>2 DEF Range
    <3>9. Returned(t)'
      BY <3>1, <3>2, <3>7, <3>8 DEF Returned, AllBegun
    <3> QED BY <2>2, <3>3, <3>6, <3>9
  <2> QED BY <2>1, <2>2
<1> QED BY <1>1, <1>2 DEF CatInv

LEMMA CatStep == CatInv /\ [CatNext]_catVars => CatInv'
<1> SUFFICES ASSUME CatInv, [CatNext]_catVars PROVE CatInv'
  OBVIOUS
<1>1. ASSUME NEW t \in Task, BeginTask(t) PROVE CatInv'
  BY <1>1, BeginTaskStep
<1>2. ASSUME NEW t \in Task, BeginFile(t) PROVE CatInv'
  BY <1>2, BeginFileStep
<1>3. ASSUME NEW t \in Task, NEW i \in parsing[t], EndFile(t, i) PROVE CatInv'
  BY <1>3, EndFileStep
<1>4. ASSUME NEW t \in Task, EndTask(t) PROVE CatInv'
  BY <1>4, EndTaskStep
<1>5. ASSUME NEW t \in Task, SkipTask(t) PROVE CatInv'
  BY <1>5, SkipTaskStep
<1>6. CASE Cancel \/ UNCHANGED catVars
  <2>1. CatTypeOK'
    BY <1>6 DEF CatInv, CatTypeOK, Cancel, catVars
  <2>2. ASSUME NEW u \in Task PROVE InTurn(u)' /\ Accumulated(u)' /\ Returned(u)'
    <3>1. InTurn(u) /\ Accumulated(u) /\ Returned(u)
      BY DEF CatInv
    <3>2. Same(u) /\ contents' = contents /\ unknowns \subseteq unknowns'
      BY <1>6 DEF Same, Cancel, catVars
    <3> QED BY <3>1, <3>2, SameStep
  <2> QED BY <2>1, <2>2 DEF CatInv
<1> QED BY <1>1, <1>2, <1>3, <1>4, <1>5, <1>6 DEF CatNext, Work

\* The invariant behind ResultsComplete: what the accumulator of a task has is what
\* the requests yielded that are over, and an error about a place for each that
\* failed.
THEOREM AccumulatorsExact == CatSpec => []CatInv
<1> QED BY CatInitially, CatStep, PTL DEF CatSpec

LEMMA AllReturned == CatInv => FoundReturned
<1> SUFFICES ASSUME CatInv, NEW t \in Task, AllBegun(t)
             PROVE  /\ \A p \in DOMAIN Provides :
                         Cardinality(Where(p, result[t].packages)) = Cardinality(FoundAt(t, p))
                    /\ \A p, q \in DOMAIN Provides :
                         <<p, q>> \in result[t].dependencies <=>
                           FoundAt(t, p) # {} /\ FoundAt(t, q) # {} /\ (UNION Requires[q]) \cap Provides[p] # {}
  BY DEF FoundReturned
<1>1. CatTypeOK /\ InTurn(t) /\ Accumulated(t) /\ Returned(t)
  BY DEF CatInv
<1>2. result[t].packages = packages[t] /\ result[t].dependencies = Dependencies(packages[t])
  BY <1>1 DEF Returned
<1>3. packages[t] \in Seq(DOMAIN Provides)
  BY <1>1 DEF CatTypeOK
<1>4. Ended(t) = DOMAIN FilesOf[t]
  <2>1. FilesOf[t] \in Seq(DOMAIN Yields)
    BY CatalogerAssumption
  <2>2. parsing[t] = {} /\ begun[t] = Len(FilesOf[t])
    BY <1>1 DEF AllBegun, InTurn
  <2> QED BY <2>1, <2>2 DEF Ended
<1>5. \A p : FoundAt(t, p) = Occurs(t, p, Ended(t))
  BY <1>4 DEF FoundAt, Occurs, Yield
<1>6. ASSUME NEW p \in DOMAIN Provides
      PROVE  /\ Cardinality(Where(p, packages[t])) = Cardinality(FoundAt(t, p))
             /\ p \in Range(packages[t]) <=> FoundAt(t, p) # {}
  <2>1. /\ IsFiniteSet(FoundAt(t, p))
        /\ Cardinality(Where(p, packages[t])) = Cardinality(FoundAt(t, p))
    BY <1>1, <1>5 DEF Accumulated, Counted
  <2>2. IsFiniteSet(Where(p, packages[t]))
    BY <1>3, WhereFinite
  <2>3. Where(p, packages[t]) = {} <=> FoundAt(t, p) = {}
    BY <2>1, <2>2, FS_EmptySet
  <2>4. p \in Range(packages[t]) <=> Where(p, packages[t]) # {}
    BY DEF Where, Range
  <2> QED BY <2>1, <2>3, <2>4
<1>7. ASSUME NEW p \in DOMAIN Provides, NEW q \in DOMAIN Provides
      PROVE  <<p, q>> \in Dependencies(packages[t]) <=>
               p \in Range(packages[t]) /\ q \in Range(packages[t])
               /\ (UNION Requires[q]) \cap Provides[p] # {}
  BY DEF Dependencies
<1> QED BY <1>2, <1>6, <1>7

LEMMA AllHeard == CatInv => FailuresHeard
<1> SUFFICES ASSUME CatInv, NEW t \in Task, AllBegun(t), NEW f \in Range(FilesOf[t]),
                    contents[f].error # Nil
             PROVE  Texts(contents[f].error) \cap Heard # {}
  BY DEF FailuresHeard
<1>1. CatTypeOK /\ InTurn(t) /\ Accumulated(t) /\ Returned(t)
  BY DEF CatInv
<1>2. FilesOf[t] \in Seq(DOMAIN Yields)
  BY CatalogerAssumption
<1>3. PICK i \in DOMAIN FilesOf[t] : FilesOf[t][i] = f
  BY DEF Range
<1>4. i \in Ended(t)
  <2>1. parsing[t] = {} /\ begun[t] = Len(FilesOf[t])
    BY <1>1 DEF AllBegun, InTurn
  <2> QED BY <1>2, <2>1 DEF Ended
<1>5. f \in DOMAIN Yields /\ contents[f] \in Yields[f]
  BY <1>1, <1>2, <1>3 DEF CatTypeOK
<1> DEFINE u == New(f, contents[f].error)
<1>6. u \in unknowns
  BY <1>1, <1>3, <1>4 DEF Accumulated, Returned, Yield
<1>7. Texts(u.reason) # {} /\ Texts(u.reason) \subseteq Texts(contents[f].error)
  BY <1>5, NewSays
<1> HIDE DEF u
<1>8. Texts(u.reason) \subseteq Heard
  BY <1>6 DEF Heard
<1> QED BY <1>7, <1>8

\* Whatever its files, its parsers, their errors, the slots there are and the order
\* in which things end: what a cataloger returns is what was found, as often as it
\* was found, with the dependencies that are among it, and every file whose parser
\* failed is heard of (cataloger.go:180-253, coordinate_error.go:32-47).
THEOREM CatalogersComplete == CatSpec => []ResultsComplete
<1>1. CatInv => ResultsComplete
  BY AllReturned, AllHeard DEF ResultsComplete
<1> QED BY <1>1, AccumulatorsExact, PTL

-----------------------------------------------------------------------------
(* Conversions.                                                            *)

\* What a package is called tells what it is.
WhatOf(id) == IF id[1][1] = "hash" THEN id[1][2] ELSE "root"

SourceKinds == {"image", "directory", "file", "other"} \cup {s.source : s \in Scanned}

\* Its identifier is the hash it was given by the scan, or that of the root of a
\* document, and what was built upon it.
Named(p) ==
  /\ p.id = <<p.id[1], p.id[2]>> /\ p.id[2] \in Seq({"Package", "purl"})
  /\ \/ p.id[1] = <<"hash", p.what>> /\ p.what # "root"
     \/ p.id[1] = <<"DocumentRoot", p.id[1][2]>> /\ p.what = "root"

IsEnd(s, e) == \E p \in s.packages : e = <<"package", p.id>>

\* Relationships have their ends in the SBOM, and no other types than they had.
Joins(s, r) ==
  /\ r.from = <<"source">> \/ IsEnd(s, r.from)
  /\ \/ IsEnd(s, r.to) /\ r.type \in {"contains", "dependency-of", "ownership-by-file-overlap"}
     \/ r.to = <<"coordinates", r.to[2]>> /\ r.type \in {"contains", "evident-by"}
     \/ /\ r.to = <<"location", r.to[2]>> /\ r.type \in {"contains", "evident-by"}
        /\ r.to[2] \in DOMAIN s.files

WellFormed(s) ==
  /\ s.source \in SourceKinds
  /\ \A p \in s.packages : Named(p)
  /\ \A p, q \in s.packages : p.what = q.what /\ p.what # "root" => p = q
  /\ \A r \in s.relationships : Joins(s, r)

\* There is a relationship of this type from one package to another, or to a file.
ToPackage(s, a, t, b) ==
  \E r \in s.relationships :
    /\ r.from[1] = "package" /\ WhatOf(r.from[2]) = a /\ a # "root"
    /\ r.type = t /\ r.to[1] = "package" /\ WhatOf(r.to[2]) = b

ToFile(s, a, t, path, layer) ==
  \E r \in s.relationships :
    /\ r.from[1] = "package" /\ WhatOf(r.from[2]) = a /\ a # "root"
    /\ r.type = t /\ r.to[1] # "package" /\ r.to[2][1] = path /\ r.to[2][3] = layer

LEMMA NamedWhat ==
  ASSUME NEW p, Named(p)
  PROVE  p.what = WhatOf(p.id)
  BY DEF Named, WhatOf

LEMMA WhatIsOf ==
  ASSUME NEW s, WellFormed(s), NEW e, IsEnd(s, e)
  PROVE  What(s, e) = WhatOf(e[2])
<1>1. PICK p \in s.packages : e = <<"package", p.id>>
  BY DEF IsEnd
<1> DEFINE q == CHOOSE x \in s.packages : x.id = e[2]
<1>2. q \in s.packages /\ q.id = e[2]
  BY <1>1
<1>3. What(s, e) = q.what
  BY <1>1 DEF What
<1> HIDE DEF q
<1>4. q.what = WhatOf(q.id)
  BY <1>2, NamedWhat DEF WellFormed
<1> QED BY <1>2, <1>3, <1>4

\* What an SBOM says, by the names of packages.
LEMMA SaysPackages ==
  ASSUME NEW s, WellFormed(s)
  PROVE  \A x : x \in Says(s, FALSE) <=> \E a, t, b : x = <<a, t, <<b>>>> /\ ToPackage(s, a, t, b)
<1>1. ASSUME NEW r \in s.relationships, r.from[1] = "package"
      PROVE  What(s, r.from) = WhatOf(r.from[2])
  <2>1. IsEnd(s, r.from)
    BY <1>1 DEF WellFormed, Joins
  <2> QED BY <2>1, WhatIsOf
<1>2. ASSUME NEW r \in s.relationships, r.to[1] = "package"
      PROVE  What(s, r.to) = WhatOf(r.to[2])
  <2>1. IsEnd(s, r.to)
    BY <1>2 DEF WellFormed, Joins
  <2> QED BY <2>1, WhatIsOf
<1>3. ASSUME NEW x \in Says(s, FALSE)
      PROVE  \E a, t, b : x = <<a, t, <<b>>>> /\ ToPackage(s, a, t, b)
  <2>1. PICK r \in s.relationships :
          /\ r.from[1] = "package" /\ What(s, r.from) # "root" /\ r.to[1] = "package"
          /\ x = <<What(s, r.from), r.type, <<What(s, r.to)>>>>
    BY DEF Says
  <2>2. ToPackage(s, WhatOf(r.from[2]), r.type, WhatOf(r.to[2]))
    BY <1>1, <2>1 DEF ToPackage
  <2> QED BY <1>1, <1>2, <2>1, <2>2
<1>4. ASSUME NEW x, \E a, t, b : x = <<a, t, <<b>>>> /\ ToPackage(s, a, t, b)
      PROVE  x \in Says(s, FALSE)
  <2>0. PICK a, t, b : x = <<a, t, <<b>>>> /\ ToPackage(s, a, t, b)
    BY <1>4
  <2>1. PICK r \in s.relationships :
          /\ r.from[1] = "package" /\ WhatOf(r.from[2]) = a /\ a # "root"
          /\ r.type = t /\ r.to[1] = "package" /\ WhatOf(r.to[2]) = b
    BY <2>0 DEF ToPackage
  <2>2. What(s, r.from) = a /\ What(s, r.to) = b
    BY <1>1, <1>2, <2>1
  <2> QED BY <2>0, <2>1, <2>2 DEF Says
<1> QED BY <1>3, <1>4

LEMMA SaysFiles ==
  ASSUME NEW s, WellFormed(s)
  PROVE  \A x : x \in Says(s, TRUE) <=>
           \E a, t, path, layer : x = <<a, t, <<path, layer>>>> /\ ToFile(s, a, t, path, layer)
<1>1. ASSUME NEW r \in s.relationships, r.from[1] = "package"
      PROVE  What(s, r.from) = WhatOf(r.from[2])
  <2>1. IsEnd(s, r.from)
    BY <1>1 DEF WellFormed, Joins
  <2> QED BY <2>1, WhatIsOf
<1>3. ASSUME NEW x \in Says(s, TRUE)
      PROVE  \E a, t, path, layer : x = <<a, t, <<path, layer>>>> /\ ToFile(s, a, t, path, layer)
  <2>1. PICK r \in s.relationships :
          /\ r.from[1] = "package" /\ What(s, r.from) # "root" /\ r.to[1] # "package"
          /\ x = <<What(s, r.from), r.type, <<r.to[2][1], r.to[2][3]>>>>
    BY DEF Says
  <2>2. ToFile(s, WhatOf(r.from[2]), r.type, r.to[2][1], r.to[2][3])
    BY <1>1, <2>1 DEF ToFile
  <2> QED BY <1>1, <2>1, <2>2
<1>4. ASSUME NEW x, \E a, t, path, layer : x = <<a, t, <<path, layer>>>> /\ ToFile(s, a, t, path, layer)
      PROVE  x \in Says(s, TRUE)
  <2>0. PICK a, t, path, layer : x = <<a, t, <<path, layer>>>> /\ ToFile(s, a, t, path, layer)
    BY <1>4
  <2>1. PICK r \in s.relationships :
          /\ r.from[1] = "package" /\ WhatOf(r.from[2]) = a /\ a # "root"
          /\ r.type = t /\ r.to[1] # "package" /\ r.to[2][1] = path /\ r.to[2][3] = layer
    BY <2>0 DEF ToFile
  <2>2. What(s, r.from) = a
    BY <1>1, <2>1
  <2> QED BY <2>0, <2>1, <2>2 DEF Says
<1> QED BY <1>3, <1>4

-----------------------------------------------------------------------------
(* Syft JSON.                                                              *)

ThroughJson(s) == FromJson(ToJson(s))

LEMMA JsonIds ==
  ASSUME NEW s, WellFormed(s), NEW e, NEW f \in JsonEnds(ToJson(s)), e = <<"source">> \/ IsEnd(s, e)
  PROVE  e \in JsonEnds(ToJson(s)) /\ (IdOf(f) = IdOf(e) <=> f = e)
<1>1. JsonEnds(ToJson(s)) = {<<"package", p.id>> : p \in s.packages} \cup {<<"source">>}
                 \cup {<<"coordinates", c>> : c \in AllCoordinates(s)}
  BY DEF JsonEnds, ToJson
<1>2. \A x : IsEnd(s, x) => /\ x[1] = "package" /\ x = <<"package", x[2]>>
                            /\ IdOf(x) = x[2] /\ IdOf(x)[1][1] \in {"hash", "DocumentRoot"}
  BY DEF IsEnd, WellFormed, Named, IdOf
<1>3. IdOf(<<"source">>)[1][1] = "source"
  BY DEF IdOf, Id
<1>4. \A c : IdOf(<<"coordinates", c>>)[1][1] = "file"
  BY DEF IdOf, Id
<1>5. IsEnd(s, f) \/ f = <<"source">> \/ \E c : f = <<"coordinates", c>>
  BY <1>1 DEF IsEnd
<1>6. e \in JsonEnds(ToJson(s))
  BY <1>1 DEF IsEnd
<1> QED BY <1>2, <1>3, <1>4, <1>5, <1>6

\* Files are found by their coordinates.
LEMMA JsonFiles ==
  ASSUME NEW s, WellFormed(s), NEW e, NEW f \in JsonEnds(ToJson(s)), NEW c \in AllCoordinates(s),
         e = <<"coordinates", c>> \/ e = <<"location", c>>
  PROVE  <<"coordinates", c>> \in JsonEnds(ToJson(s)) /\ (IdOf(f) = IdOf(e) <=> f = <<"coordinates", c>>)
<1>1. JsonEnds(ToJson(s)) = {<<"package", p.id>> : p \in s.packages} \cup {<<"source">>}
                 \cup {<<"coordinates", d>> : d \in AllCoordinates(s)}
  BY DEF JsonEnds, ToJson
<1>2. IdOf(e) = <<<<"file", c>>, <<>>>>
  BY DEF IdOf, Id
<1>3. ASSUME IsEnd(s, f) PROVE IdOf(f)[1][1] \in {"hash", "DocumentRoot"} /\ f[1] = "package"
  BY <1>3 DEF IsEnd, WellFormed, Named, IdOf
<1>4. IdOf(<<"source">>)[1][1] = "source"
  BY DEF IdOf, Id
<1>5. \A d : IdOf(<<"coordinates", d>>) = <<<<"file", d>>, <<>>>>
  BY DEF IdOf, Id
<1>6. IsEnd(s, f) \/ f = <<"source">> \/ \E d : f = <<"coordinates", d>>
  BY <1>1 DEF IsEnd
<1>7. CASE \E d : f = <<"coordinates", d>>
  BY <1>1, <1>2, <1>5, <1>7
<1>8. CASE IsEnd(s, f) \/ f = <<"source">>
  BY <1>1, <1>2, <1>3, <1>4, <1>8
<1> QED BY <1>6, <1>7, <1>8

JsonEnd(e) == IF e[1] = "location" THEN <<"coordinates", e[2]>> ELSE e

LEMMA JsonRelationships ==
  ASSUME NEW s, WellFormed(s)
  PROVE  ThroughJson(s).relationships
           = {[from |-> r.from, type |-> r.type, to |-> JsonEnd(r.to)] : r \in s.relationships}
<1> DEFINE E == JsonEnds(ToJson(s))
           doc == ToJson(s)
           made(r) == [from |-> r.from, type |-> r.type, to |-> JsonEnd(r.to)]
<1>1. ASSUME NEW r \in s.relationships
      PROVE  /\ r.from \in E /\ JsonEnd(r.to) \in E
             /\ \A f \in E : IdOf(f) = IdOf(r.from) <=> f = r.from
             /\ \A f \in E : IdOf(f) = IdOf(r.to) <=> f = JsonEnd(r.to)
  <2>1. /\ r.from = <<"source">> \/ IsEnd(s, r.from)
        /\ IsEnd(s, r.to) \/ r.to = <<"coordinates", r.to[2]>>
           \/ (r.to = <<"location", r.to[2]>> /\ r.to[2] \in DOMAIN s.files)
    BY DEF WellFormed, Joins
  <2>0. <<"source">> \in E
    BY DEF JsonEnds
  <2>2. r.from \in E /\ \A f \in E : IdOf(f) = IdOf(r.from) <=> f = r.from
    BY <2>0, <2>1, JsonIds
  <2>3. CASE IsEnd(s, r.to)
    <3>1. JsonEnd(r.to) = r.to
      BY <2>3 DEF JsonEnd, IsEnd
    <3>2. r.to \in E /\ \A f \in E : IdOf(f) = IdOf(r.to) <=> f = r.to
      BY <2>0, <2>3, JsonIds
    <3> QED BY <2>2, <3>1, <3>2
  <2>4. CASE ~IsEnd(s, r.to)
    <3>1. r.to[2] \in AllCoordinates(s) /\ (r.to = <<"coordinates", r.to[2]>> \/ r.to = <<"location", r.to[2]>>)
      BY <2>1, <2>4 DEF AllCoordinates
    <3>2. JsonEnd(r.to) = <<"coordinates", r.to[2]>>
      BY <3>1 DEF JsonEnd
    <3>3. JsonEnd(r.to) \in E /\ \A f \in E : IdOf(f) = IdOf(r.to) <=> f = JsonEnd(r.to)
      BY <2>0, <3>1, <3>2, JsonFiles
    <3> QED BY <2>2, <3>3
  <2> QED BY <2>3, <2>4
<1>2. doc.relationships = {[parent |-> IdOf(r.from), type |-> r.type, child |-> IdOf(r.to)] : r \in s.relationships}
  BY DEF ToJson
<1>3. ThroughJson(s).relationships =
        UNION {{[from |-> f, type |-> d.type, to |-> t] :
                 f \in {e \in E : IdOf(e) = d.parent}, t \in {e \in E : IdOf(e) = d.child}} : d \in doc.relationships}
  BY DEF ThroughJson, FromJson
<1> HIDE DEF E, doc
<1>4. ASSUME NEW x \in ThroughJson(s).relationships PROVE \E r \in s.relationships : x = made(r)
  <2>1. PICK d \in doc.relationships : \E f \in E, t \in E :
          IdOf(f) = d.parent /\ IdOf(t) = d.child /\ x = [from |-> f, type |-> d.type, to |-> t]
    BY <1>3, <1>4
  <2>2. PICK f \in E, t \in E : IdOf(f) = d.parent /\ IdOf(t) = d.child /\ x = [from |-> f, type |-> d.type, to |-> t]
    BY <2>1
  <2>3. PICK r \in s.relationships : d = [parent |-> IdOf(r.from), type |-> r.type, child |-> IdOf(r.to)]
    BY <1>2
  <2>4. f = r.from /\ t = JsonEnd(r.to)
    BY <1>1, <2>2, <2>3
  <2> QED BY <2>2, <2>3, <2>4
<1>5. ASSUME NEW r \in s.relationships PROVE made(r) \in ThroughJson(s).relationships
  <2> DEFINE d == [parent |-> IdOf(r.from), type |-> r.type, child |-> IdOf(r.to)]
             f == r.from
             t == JsonEnd(r.to)
  <2>1. d \in doc.relationships
    BY <1>2
  <2>2. f \in E /\ t \in E /\ IdOf(f) = d.parent /\ IdOf(t) = d.child
    BY <1>1
  <2>3. made(r) = [from |-> f, type |-> d.type, to |-> t]
    OBVIOUS
  <2> HIDE DEF d, f, t, made
  <2>4. [from |-> f, type |-> d.type, to |-> t] \in
          {[from |-> g, type |-> d.type, to |-> u] :
             g \in {e \in E : IdOf(e) = d.parent}, u \in {e \in E : IdOf(e) = d.child}}
    BY <2>2
  <2> QED BY <1>3, <2>1, <2>3, <2>4
<1> QED BY <1>4, <1>5

\* Which files relationships name as coordinates, or as locations.
NoLocations(s) == \A r \in s.relationships : r.to[1] # "location"
NoCoordinates(s) == \A r \in s.relationships : r.to[1] # "coordinates"

LEMMA JsonKeeps ==
  ASSUME NEW s, WellFormed(s)
  PROVE  LET u == ThroughJson(s)
         IN  /\ WellFormed(u) /\ NoLocations(u) /\ u.packages = s.packages
             /\ \A a, t, b : ToPackage(u, a, t, b) <=> ToPackage(s, a, t, b)
             /\ \A a, t, path, layer : ToFile(u, a, t, path, layer) <=> ToFile(s, a, t, path, layer)
<1> DEFINE u == ThroughJson(s)
           made(r) == [from |-> r.from, type |-> r.type, to |-> JsonEnd(r.to)]
<1>1. u.packages = s.packages /\ u.source = s.source
  BY DEF ThroughJson, FromJson, ToJson
<1>2. u.relationships = {made(r) : r \in s.relationships}
  BY JsonRelationships
<1> HIDE DEF u
<1>3. \A e : IsEnd(u, e) <=> IsEnd(s, e)
  BY <1>1 DEF IsEnd
<1>4. ASSUME NEW r \in s.relationships
      PROVE  /\ Joins(u, made(r)) /\ made(r).to[1] # "location"
             /\ made(r).from = r.from /\ made(r).type = r.type
             /\ (r.to[1] = "package" => made(r).to = r.to)
             /\ (r.to[1] # "package" => made(r).to[1] # "package" /\ made(r).to[2] = r.to[2])
  <2>1. Joins(s, r)
    BY DEF WellFormed
  <2>2. \A e : IsEnd(s, e) => e[1] = "package"
    BY DEF IsEnd
  <2>3. CASE IsEnd(s, r.to) /\ r.type \in {"contains", "dependency-of", "ownership-by-file-overlap"}
    <3>1. JsonEnd(r.to) = r.to /\ r.to[1] = "package"
      BY <2>2, <2>3 DEF JsonEnd
    <3> QED BY <1>3, <2>1, <2>3, <3>1 DEF Joins
  <2>4. CASE (r.to = <<"coordinates", r.to[2]>> \/ r.to = <<"location", r.to[2]>>)
             /\ r.type \in {"contains", "evident-by"}
    <3>1. JsonEnd(r.to) = <<"coordinates", r.to[2]>> /\ r.to[1] # "package"
      BY <2>4 DEF JsonEnd
    <3> QED BY <1>3, <2>1, <2>4, <3>1 DEF Joins
  <2> QED BY <2>1, <2>3, <2>4 DEF Joins
<1> HIDE DEF made
<1>5. WellFormed(u) /\ NoLocations(u)
  BY <1>1, <1>2, <1>4 DEF WellFormed, NoLocations
<1>6. ASSUME NEW a, NEW t, NEW b PROVE ToPackage(u, a, t, b) <=> ToPackage(s, a, t, b)
  BY <1>2, <1>4 DEF ToPackage
<1>7. ASSUME NEW a, NEW t, NEW path, NEW layer
      PROVE  ToFile(u, a, t, path, layer) <=> ToFile(s, a, t, path, layer)
  BY <1>2, <1>4 DEF ToFile
<1> QED BY <1>1, <1>5, <1>6, <1>7 DEF u

-----------------------------------------------------------------------------
(* CycloneDX.                                                              *)

ThroughCycloneDX(s) == FromCycloneDX(ToCycloneDX(s))

LEMMA PlusKeeps ==
  ASSUME NEW p, Named(p), NEW tag \in {"Package", "purl"}, NEW x, x = Plus(p.id, tag)
  PROVE  x = <<x[1], x[2]>> /\ x[1] = p.id[1] /\ x[2] \in Seq({"Package", "purl"}) /\ x[2] # <<>>
<1>1. p.id[2] \in Seq({"Package", "purl"})
  BY DEF Named
<1> QED BY <1>1 DEF Plus

LEMMA BomRefKeeps ==
  ASSUME NEW p, Named(p)
  PROVE  LET x == BomRef(p)
         IN  x = <<x[1], x[2]>> /\ x[1] = p.id[1] /\ x[2] \in Seq({"Package", "purl"})
<1>1. CASE p.purl
  <2>1. BomRef(p) = Plus(p.id, "purl")
    BY <1>1 DEF BomRef
  <2> QED BY <2>1, PlusKeeps
<1>2. CASE ~p.purl
  BY <1>2 DEF BomRef, Named
<1> QED BY <1>1, <1>2

\* Dependencies are kept, and nothing else.
LEMMA CycloneDXKeeps ==
  ASSUME NEW s, WellFormed(s)
  PROVE  LET u == ThroughCycloneDX(s)
         IN  /\ WellFormed(u) /\ NoLocations(u) /\ NoCoordinates(u)
             /\ {p.what : p \in u.packages} = {p.what : p \in s.packages}
             /\ \A a, t, b : ToPackage(u, a, t, b) <=> t = "dependency-of" /\ ToPackage(s, a, t, b)
             /\ \A a, t, path, layer : ~ToFile(u, a, t, path, layer)
<1> DEFINE u == ThroughCycloneDX(s)
           pack(p) == [id |-> BomRef(p), what |-> p.what, purl |-> p.purl \/ p.typed,
                       typed |-> p.purl \/ p.typed]
           edge(p, q) == [from |-> <<"package", BomRef(p)>>, type |-> "dependency-of",
                          to |-> <<"package", BomRef(q)>>]
           listed(p) == [ref |-> BomRef(p), what |-> p.what, purl |-> p.purl, typed |-> p.typed]
           read(p) == [id |-> p.ref, what |-> p.what, purl |-> p.purl \/ p.typed,
                       typed |-> p.purl \/ p.typed]
           doc == ToCycloneDX(s)
<1>0. doc.packages = {listed(p) : p \in s.packages}
  BY DEF ToCycloneDX, Components
<1>1. u.packages = {pack(p) : p \in s.packages}
  <2>1. u.packages = {read(p) : p \in doc.packages}
    BY DEF ThroughCycloneDX, FromCycloneDX
  <2>2. \A p : read(listed(p)) = pack(p)
    OBVIOUS
  <2> HIDE DEF doc, read, listed, pack
  <2> QED BY <1>0, <2>1, <2>2
<1>2. u.source \in SourceKinds
  BY DEF ThroughCycloneDX, FromCycloneDX, SourceKinds
<1>3. \A r : r \in u.relationships <=> \E p \in s.packages : \E q \in DependentsOf(s, p) : r = edge(p, q)
  <2> DEFINE deps == BomDependencies(s)
             known == {p.ref : p \in ToCycloneDX(s).packages}
             back(d) == [from |-> <<"package", d[2]>>, type |-> "dependency-of", to |-> <<"package", d[1]>>]
  <2>1. u.relationships = {back(d) : d \in {e \in deps : e[1] \in known /\ e[2] \in known}}
    BY DEF ThroughCycloneDX, FromCycloneDX, ToCycloneDX
  <2>2. \A p \in s.packages : BomRef(p) \in known
    <3>1. \A p \in s.packages : listed(p) \in doc.packages /\ listed(p).ref = BomRef(p)
      BY <1>0
    <3> HIDE DEF listed
    <3> QED BY <3>1
  <2>3. \A d : d \in deps <=> \E p \in s.packages : \E q \in DependentsOf(s, p) : d = <<BomRef(q), BomRef(p)>>
    BY DEF BomDependencies
  <2>4. \A p : DependentsOf(s, p) \subseteq s.packages
    BY DEF DependentsOf
  <2> HIDE DEF deps, known, u
  <2>5. \A p \in s.packages : \A q \in DependentsOf(s, p) :
          <<BomRef(q), BomRef(p)>> \in {e \in deps : e[1] \in known /\ e[2] \in known}
    BY <2>2, <2>3, <2>4
  <2>6. \A p, q : back(<<BomRef(q), BomRef(p)>>) = edge(p, q)
    OBVIOUS
  <2> HIDE DEF back, edge
  <2>7. ASSUME NEW r \in u.relationships
        PROVE  \E p \in s.packages : \E q \in DependentsOf(s, p) : r = edge(p, q)
    <3>1. PICK d \in deps : r = back(d)
      BY <2>1
    <3> QED BY <2>3, <2>6, <3>1
  <2>8. ASSUME NEW p \in s.packages, NEW q \in DependentsOf(s, p)
        PROVE  edge(p, q) \in u.relationships
    BY <2>1, <2>5, <2>6
  <2> QED BY <2>7, <2>8
<1> HIDE DEF u, doc, read, listed
<1>4. ASSUME NEW p \in s.packages PROVE Named(pack(p)) /\ pack(p).what = p.what
  BY BomRefKeeps DEF WellFormed, Named
<1>5. ASSUME NEW p \in s.packages PROVE IsEnd(u, <<"package", BomRef(p)>>)
  <2>1. pack(p) \in u.packages /\ pack(p).id = BomRef(p)
    BY <1>1
  <2> HIDE DEF pack
  <2> QED BY <2>1 DEF IsEnd
<1>6. WellFormed(u)
  <2>1. \A p \in u.packages : Named(p)
    <3> HIDE DEF pack
    <3> QED BY <1>1, <1>4
  <2>2. \A p, q \in u.packages : p.what = q.what /\ p.what # "root" => p = q
    <3> HIDE DEF pack
    <3> QED BY <1>1, <1>4 DEF WellFormed
  <2>3. ASSUME NEW r \in u.relationships PROVE Joins(u, r)
    <3>1. PICK p \in s.packages : \E q \in DependentsOf(s, p) : r = edge(p, q)
      BY <1>3
    <3>2. PICK q \in DependentsOf(s, p) : r = edge(p, q)
      BY <3>1
    <3>3. q \in s.packages
      BY DEF DependentsOf
    <3> QED BY <1>5, <3>2, <3>3 DEF Joins
  <2> QED BY <1>2, <2>1, <2>2, <2>3 DEF WellFormed
<1>7. NoLocations(u) /\ NoCoordinates(u) /\ \A r \in u.relationships : r.to[1] = "package"
  BY <1>3 DEF NoLocations, NoCoordinates
<1>8. {p.what : p \in u.packages} = {p.what : p \in s.packages}
  <2> HIDE DEF pack
  <2> QED BY <1>1, <1>4
<1>9. \A a, t, path, layer : ~ToFile(u, a, t, path, layer)
  BY <1>7 DEF ToFile
<1>10. \A p \in s.packages : WhatOf(BomRef(p)) = WhatOf(p.id)
  BY BomRefKeeps DEF WhatOf, WellFormed
<1>11. ASSUME NEW a, NEW t, NEW b, ToPackage(u, a, t, b)
       PROVE  t = "dependency-of" /\ ToPackage(s, a, t, b)
  <2>1. PICK r \in u.relationships :
          /\ r.from[1] = "package" /\ WhatOf(r.from[2]) = a /\ a # "root"
          /\ r.type = t /\ r.to[1] = "package" /\ WhatOf(r.to[2]) = b
    BY <1>11 DEF ToPackage
  <2>0. PICK p \in s.packages : \E q \in DependentsOf(s, p) : r = edge(p, q)
    BY <1>3
  <2>2. PICK q \in DependentsOf(s, p) : r = edge(p, q)
    BY <2>0
  <2>3. PICK o \in s.relationships : /\ o.type = "dependency-of" /\ o.from = <<"package", p.id>>
                                     /\ o.to = <<"package", q.id>>
    BY DEF DependentsOf
  <2>4. q \in s.packages
    BY DEF DependentsOf
  <2>5. t = "dependency-of" /\ a = WhatOf(p.id) /\ b = WhatOf(q.id)
    BY <1>10, <2>1, <2>2, <2>4
  <2> QED BY <2>1, <2>3, <2>5 DEF ToPackage
<1>12. ASSUME NEW a, NEW b, ToPackage(s, a, "dependency-of", b)
       PROVE  ToPackage(u, a, "dependency-of", b)
  <2>1. PICK o \in s.relationships :
          /\ o.from[1] = "package" /\ WhatOf(o.from[2]) = a /\ a # "root"
          /\ o.type = "dependency-of" /\ o.to[1] = "package" /\ WhatOf(o.to[2]) = b
    BY <1>12 DEF ToPackage
  <2>2. IsEnd(s, o.from) /\ IsEnd(s, o.to)
    BY <2>1 DEF WellFormed, Joins
  <2>3. PICK p \in s.packages : o.from = <<"package", p.id>>
    BY <2>2 DEF IsEnd
  <2>4. PICK q \in s.packages : o.to = <<"package", q.id>>
    BY <2>2 DEF IsEnd
  <2>5. q \in DependentsOf(s, p)
    BY <2>1, <2>3, <2>4 DEF DependentsOf
  <2>6. edge(p, q) \in u.relationships
    BY <1>3, <2>5
  <2>7. WhatOf(BomRef(p)) = a /\ WhatOf(BomRef(q)) = b
    BY <1>10, <2>1, <2>3, <2>4
  <2> QED BY <2>1, <2>6, <2>7 DEF ToPackage
<1> QED BY <1>6, <1>7, <1>8, <1>9, <1>11, <1>12 DEF u
-----------------------------------------------------------------------------
(* SPDX.                                                                   *)

ThroughSpdx(s, f) == FromSpdx(ToSpdx(s, f))

SpdxName(p) == ToSpdxId(<<"package", p.id>>)

LEMMA SpdxNames ==
  ASSUME NEW p, Named(p)
  PROVE  LET x == SpdxName(p)
         IN  x = <<x[1], x[2]>> /\ x[1] = p.id[1] /\ x[2] \in Seq({"Package", "purl"}) /\ x[2] # <<>>
<1>1. SpdxName(p) = IF EndsIn(p.id, "Package") THEN p.id ELSE Plus(p.id, "Package")
  BY DEF SpdxName, ToSpdxId
<1>2. CASE EndsIn(p.id, "Package")
  BY <1>1, <1>2 DEF EndsIn, Named
<1>3. CASE ~EndsIn(p.id, "Package")
  BY <1>1, <1>3, PlusKeeps
<1> QED BY <1>2, <1>3

\* The root of a document is told from its packages, and is all that it describes.
LEMMA SpdxTaken ==
  ASSUME NEW s, WellFormed(s), NEW f \in Spdx
  PROVE  Taken(ToSpdx(s, f)) = IF IsSource(Root(s, f)) THEN {Root(s, f)} ELSE {}
<1> DEFINE doc == ToSpdx(s, f)
           root == Root(s, f)
           described == [a |-> Document, type |-> <<"DESCRIBES", "none">>, b |-> root.id]
           roots == {p \in doc.packages : \E r \in doc.relationships :
                       r.a = Document /\ r.type[1] = "DESCRIBES" /\ r.b = p.id}
<1>1. doc.packages = SpdxPackages(s) \cup {root}
  BY DEF ToSpdx
<1>2. described \in doc.relationships
  BY DEF ToSpdx
<1>3. ASSUME NEW r \in doc.relationships, r.type[1] = "DESCRIBES"
      PROVE  r.b = root.id
  <2>1. \/ \E q \in s.relationships : r = [a |-> ToSpdxId(q.from), type |-> SpdxType(q.type), b |-> ToSpdxId(q.to)]
        \/ \E p \in SpdxPackages(s) : r = [a |-> root.id, type |-> <<"CONTAINS", "none">>, b |-> p.id]
        \/ r = described
    BY DEF ToSpdx
  <2>2. \A t : SpdxType(t)[1] # "DESCRIBES"
    BY DEF SpdxType
  <2> QED BY <1>3, <2>1, <2>2
<1>4. ASSUME NEW p \in SpdxPackages(s) PROVE p.id # root.id
  <2>1. PICK q \in s.packages : p.id = SpdxName(q)
    BY DEF SpdxPackages, SpdxName
  <2>2. p.id[2] # <<>>
    BY <2>1, SpdxNames DEF WellFormed
  <2>3. root.id[2] = <<>>
    BY DEF Root, Id
  <2> QED BY <2>2, <2>3
<1>5. roots = {root}
  <2> HIDE DEF doc, root
  <2> QED BY <1>1, <1>2, <1>3, <1>4
<1>6. Cardinality(roots) = 1
  BY <1>5, FS_Singleton
<1>7. Taken(doc) = {p \in roots : IsSource(p)}
  BY <1>6 DEF Taken
<1> HIDE DEF doc, root, roots
<1>8. Taken(doc) = IF IsSource(root) THEN {root} ELSE {}
  BY <1>5, <1>7
<1> QED BY <1>8 DEF doc, root

RootLeft(s, f) == ~IsSource(Root(s, f))

\* What can be the end of a relationship, in the document.
LEMMA SpdxEndsAre ==
  ASSUME NEW s, WellFormed(s), NEW f \in Spdx, NEW g
  PROVE  g \in SpdxEnds(ToSpdx(s, f)) <=>
           \/ \E p \in s.packages : g = <<"package", SpdxName(p)>>
           \/ RootLeft(s, f) /\ g = <<"package", Root(s, f).id>>
           \/ \E c \in AllCoordinates(s) : g = <<"location", c>>
<1> DEFINE doc == ToSpdx(s, f)
           root == Root(s, f)
           left == doc.packages \ Taken(doc)
<1>1. doc.packages = SpdxPackages(s) \cup {root} /\ DOMAIN doc.files = AllCoordinates(s)
  BY DEF ToSpdx
<1>2. \A p : p \in SpdxPackages(s) <=> \E q \in s.packages :
        p = [id |-> SpdxName(q), what |-> q.what, purl |-> q.purl, purpose |-> "none"]
  BY DEF SpdxPackages, SpdxName
<1>3. ASSUME NEW q \in s.packages PROVE \E p \in SpdxPackages(s) : p.id = SpdxName(q)
  <2> DEFINE p == [id |-> SpdxName(q), what |-> q.what, purl |-> q.purl, purpose |-> "none"]
  <2>1. p \in SpdxPackages(s) /\ p.id = SpdxName(q)
    BY <1>2
  <2> QED BY <2>1
<1>4. ASSUME NEW p \in SpdxPackages(s) PROVE p # root /\ \E q \in s.packages : p.id = SpdxName(q)
  <2>1. PICK q \in s.packages : p = [id |-> SpdxName(q), what |-> q.what, purl |-> q.purl, purpose |-> "none"]
    BY <1>2
  <2>2. p.id[2] # <<>>
    BY <2>1, SpdxNames DEF WellFormed
  <2>3. root.id[2] = <<>>
    BY DEF Root, Id
  <2> QED BY <2>1, <2>2, <2>3
<1>5. left = IF RootLeft(s, f) THEN SpdxPackages(s) \cup {root} ELSE SpdxPackages(s)
  <2>1. Taken(doc) = IF RootLeft(s, f) THEN {} ELSE {root}
    BY SpdxTaken DEF RootLeft
  <2> HIDE DEF doc, root
  <2> QED BY <1>1, <1>4, <2>1
<1>6. g \in SpdxEnds(doc) <=> \/ \E p \in left : g = <<"package", p.id>>
                              \/ \E c \in DOMAIN doc.files : g = <<"location", c>>
  BY DEF SpdxEnds
<1> HIDE DEF doc, root, left
<1>7. (\E p \in left : g = <<"package", p.id>>) <=>
        \/ \E p \in s.packages : g = <<"package", SpdxName(p)>>
        \/ RootLeft(s, f) /\ g = <<"package", root.id>>
  BY <1>3, <1>4, <1>5
<1> QED BY <1>1, <1>6, <1>7 DEF doc, root

LEMMA SpdxIds ==
  ASSUME NEW s, WellFormed(s), NEW f \in Spdx, NEW g \in SpdxEnds(ToSpdx(s, f))
  PROVE  /\ \A p \in s.packages : /\ SpdxIdOf(g) = SpdxName(p) <=> g = <<"package", SpdxName(p)>>
                                  /\ g[1] = "package" /\ g[2] = SpdxName(p) <=> g = <<"package", SpdxName(p)>>
         /\ \A c : SpdxIdOf(g) = ToSpdxId(<<"coordinates", c>>) <=> g = <<"location", c>>
         /\ \A c : SpdxIdOf(g) # ToSpdxId(<<"location", c>>)
         /\ g[1] = "package" => g[2] # Document
         /\ g[1] = "package" /\ g[2] = Root(s, f).id <=> RootLeft(s, f) /\ g = <<"package", Root(s, f).id>>
<1> DEFINE root == Root(s, f)
<1>1. \A p \in s.packages : SpdxName(p)[1][1] \in {"hash", "DocumentRoot"} /\ SpdxName(p)[2] # <<>>
  BY SpdxNames DEF WellFormed, Named
<1>2. root.id[1][1] = "DocumentRoot" /\ root.id[2] = <<>>
  BY DEF Root, Id
<1>3. \A c : /\ SpdxIdOf(<<"location", c>>) = <<<<"file", c>>, Append(<<>>, "File")>>
             /\ ToSpdxId(<<"coordinates", c>>) = <<<<"file", c>>, Append(<<>>, "File")>>
             /\ ToSpdxId(<<"location", c>>) = <<<<"file", c>>, <<>>>>
  BY DEF SpdxIdOf, ToSpdxId, IdOf, Id, Plus
<1>4. Append(<<>>, "File") # <<>>
  OBVIOUS
<1>5. \A x : SpdxIdOf(<<"package", x>>) = x
  BY DEF SpdxIdOf
<1>6. Document[1][1] = "DOCUMENT"
  BY DEF Document, Id
<1>7. \/ \E p \in s.packages : g = <<"package", SpdxName(p)>>
      \/ RootLeft(s, f) /\ g = <<"package", root.id>>
      \/ \E c : g = <<"location", c>>
  BY SpdxEndsAre
<1> HIDE DEF root
<1>8. CASE \E p \in s.packages : g = <<"package", SpdxName(p)>>
  <2>1. PICK x : g = <<"package", x>> /\ x[1][1] \in {"hash", "DocumentRoot"} /\ x[2] # <<>>
    BY <1>1, <1>8
  <2>2. SpdxIdOf(g) = x /\ g[1] = "package" /\ g[2] = x
    BY <1>5, <2>1
  <2> QED BY <1>1, <1>2, <1>3, <1>6, <2>1, <2>2 DEF root
<1>9. CASE RootLeft(s, f) /\ g = <<"package", root.id>>
  <2>1. SpdxIdOf(g) = root.id /\ g[1] = "package" /\ g[2] = root.id
    BY <1>5, <1>9
  <2> QED BY <1>1, <1>2, <1>3, <1>6, <1>9, <2>1 DEF root
<1>10. CASE \E c : g = <<"location", c>>
  <2>1. PICK d : g = <<"location", d>>
    BY <1>10
  <2>2. SpdxIdOf(g) = <<<<"file", d>>, Append(<<>>, "File")>> /\ g[1] = "location"
    BY <1>3, <2>1
  <2>3. \A p \in s.packages : SpdxIdOf(g) # SpdxName(p)
    BY <1>1, <2>2
  <2>4. ASSUME NEW c
        PROVE  /\ SpdxIdOf(g) = ToSpdxId(<<"coordinates", c>>) <=> g = <<"location", c>>
               /\ SpdxIdOf(g) # ToSpdxId(<<"location", c>>)
    <3> DEFINE built == Append(<<>>, "File")
    <3>1. /\ ToSpdxId(<<"coordinates", c>>) = <<<<"file", c>>, built>>
          /\ ToSpdxId(<<"location", c>>) = <<<<"file", c>>, <<>>>>
          /\ SpdxIdOf(g) = <<<<"file", d>>, built>> /\ built # <<>>
      BY <1>3, <1>4, <2>2
    <3> HIDE DEF built
    <3>2. SpdxIdOf(g) = ToSpdxId(<<"coordinates", c>>) <=> c = d
      BY <3>1
    <3>3. g = <<"location", c>> <=> c = d
      BY <2>1
    <3>4. SpdxIdOf(g) # ToSpdxId(<<"location", c>>)
      BY <3>1
    <3> QED BY <3>2, <3>3, <3>4
  <2>6. \A x : g # <<"package", x>>
    BY <2>1
  <2> QED BY <2>2, <2>3, <2>4, <2>6 DEF root
<1> QED BY <1>7, <1>8, <1>9, <1>10
\* What relationships are written, and what they are read as.
Written(r) == r.from[1] = "package" /\ r.to[1] # "location"

SpdxEnd(e) == IF e[1] = "coordinates" THEN <<"location", Relative(e[2])>> ELSE <<"package", ToSpdxId(e)>>

SpdxMade(r) == [from |-> <<"package", ToSpdxId(r.from)>>, type |-> r.type, to |-> SpdxEnd(r.to)]

LEMMA SpdxTypes ==
  /\ \A y : FoundType(<<"CONTAINS", "none">>, y) = {"contains"}
  /\ \A y, t : t \in {"contains", "dependency-of", "ownership-by-file-overlap"} =>
       FoundType(SpdxType(t), <<"package", y>>) = {t}
  /\ \A y, t : t \in {"contains", "evident-by"} => FoundType(SpdxType(t), <<"location", y>>) = {t}
<1>1. \A y : FoundType(<<"CONTAINS", "none">>, y) = {"contains"}
  BY DEF FoundType
<1>2. SpdxType("contains") = <<"CONTAINS", "none">> /\ SpdxType("dependency-of") = <<"DEPENDENCY_OF", "none">>
  BY DEF SpdxType
<1>3. /\ SpdxType("ownership-by-file-overlap") = <<"OTHER", "ownership-by-file-overlap">>
      /\ SpdxType("evident-by") = <<"OTHER", "evident-by">>
  BY DEF SpdxType
<1>4. \A y : FoundType(<<"DEPENDENCY_OF", "none">>, <<"package", y>>) = {"dependency-of"}
  BY DEF FoundType
<1>5. \A y : FoundType(<<"OTHER", "ownership-by-file-overlap">>, <<"package", y>>) = {"ownership-by-file-overlap"}
  BY DEF FoundType
<1>6. \A y : FoundType(<<"OTHER", "evident-by">>, <<"location", y>>) = {"evident-by"}
  BY DEF FoundType
<1> QED BY <1>1, <1>2, <1>3, <1>4, <1>5, <1>6

\* From what a relationship is, and where it ends, once it is read.
LEMMA SpdxReads ==
  ASSUME NEW s, WellFormed(s), NEW f \in Spdx, NEW r \in s.relationships, r.from[1] = "package",
         NEW g \in SpdxEnds(ToSpdx(s, f)), NEW e \in SpdxEnds(ToSpdx(s, f))
  PROVE  /\ g[1] = "package" /\ g[2] = ToSpdxId(r.from) <=> g = <<"package", ToSpdxId(r.from)>>
         /\ SpdxIdOf(e) = ToSpdxId(r.to) =>
              Written(r) /\ FoundEnd(e) = SpdxEnd(r.to) /\ FoundType(SpdxType(r.type), e) = {r.type}
<1>1. Joins(s, r) /\ IsEnd(s, r.from)
  BY DEF WellFormed, Joins
<1>2. PICK p \in s.packages : r.from = <<"package", p.id>>
  BY <1>1 DEF IsEnd
<1>3. g[1] = "package" /\ g[2] = ToSpdxId(r.from) <=> g = <<"package", ToSpdxId(r.from)>>
  BY <1>2, SpdxIds DEF SpdxName
<1>4. ASSUME SpdxIdOf(e) = ToSpdxId(r.to), IsEnd(s, r.to),
             r.type \in {"contains", "dependency-of", "ownership-by-file-overlap"}
      PROVE  Written(r) /\ FoundEnd(e) = SpdxEnd(r.to) /\ FoundType(SpdxType(r.type), e) = {r.type}
  <2>1. PICK q \in s.packages : r.to = <<"package", q.id>>
    BY <1>4 DEF IsEnd
  <2>2. e = <<"package", SpdxName(q)>>
    BY <1>4, <2>1, SpdxIds DEF SpdxName
  <2>3. FoundEnd(e) = e /\ SpdxEnd(r.to) = e
    BY <2>1, <2>2 DEF FoundEnd, SpdxEnd, SpdxName
  <2> QED BY <1>4, <2>1, <2>2, <2>3, SpdxTypes DEF Written
<1>5. ASSUME SpdxIdOf(e) = ToSpdxId(r.to), r.to = <<"coordinates", r.to[2]>>, r.type \in {"contains", "evident-by"}
      PROVE  Written(r) /\ FoundEnd(e) = SpdxEnd(r.to) /\ FoundType(SpdxType(r.type), e) = {r.type}
  <2>1. PICK c : r.to = <<"coordinates", c>>
    BY <1>5
  <2>2. e = <<"location", c>>
    BY <1>5, <2>1, SpdxIds
  <2>3. FoundEnd(e) = <<"location", Relative(c)>> /\ SpdxEnd(r.to) = <<"location", Relative(c)>>
    BY <2>1, <2>2 DEF FoundEnd, SpdxEnd
  <2> QED BY <1>5, <2>1, <2>2, <2>3, SpdxTypes DEF Written
<1>6. ASSUME r.to = <<"location", r.to[2]>> PROVE SpdxIdOf(e) # ToSpdxId(r.to)
  <2>1. PICK c : r.to = <<"location", c>>
    BY <1>6
  <2> QED BY <2>1, SpdxIds
<1> QED BY <1>1, <1>3, <1>4, <1>5, <1>6 DEF Joins

\* What is written is in the document where it can be found.
LEMMA SpdxWrites ==
  ASSUME NEW s, WellFormed(s), NEW f \in Spdx, NEW r \in s.relationships, Written(r)
  PROVE  /\ <<"package", ToSpdxId(r.from)>> \in SpdxEnds(ToSpdx(s, f))
         /\ \E e \in SpdxEnds(ToSpdx(s, f)) : SpdxIdOf(e) = ToSpdxId(r.to)
<1>1. Joins(s, r) /\ IsEnd(s, r.from)
  BY DEF WellFormed, Joins, Written
<1>2. ASSUME NEW e, IsEnd(s, e)
      PROVE  /\ <<"package", ToSpdxId(e)>> \in SpdxEnds(ToSpdx(s, f))
             /\ SpdxIdOf(<<"package", ToSpdxId(e)>>) = ToSpdxId(e)
  <2>1. PICK p \in s.packages : e = <<"package", p.id>>
    BY <1>2 DEF IsEnd
  <2>2. ToSpdxId(e) = SpdxName(p)
    BY <2>1 DEF SpdxName
  <2>3. SpdxIdOf(<<"package", SpdxName(p)>>) = SpdxName(p)
    BY DEF SpdxIdOf
  <2> QED BY <2>2, <2>3, SpdxEndsAre
<1>3. CASE IsEnd(s, r.to)
  BY <1>1, <1>2, <1>3
<1>4. CASE r.to = <<"coordinates", r.to[2]>>
  <2>1. PICK c : r.to = <<"coordinates", c>>
    BY <1>4
  <2>2. c \in AllCoordinates(s)
    BY <2>1 DEF AllCoordinates
  <2>3. <<"location", c>> \in SpdxEnds(ToSpdx(s, f))
    BY <2>2, SpdxEndsAre
  <2> QED BY <1>1, <1>2, <2>1, <2>3, SpdxIds
<1> QED BY <1>1, <1>3, <1>4 DEF Joins, Written

\* The relationship of the root of a document to a package.
RootHas(s, f, p) == [from |-> <<"package", Root(s, f).id>>, type |-> "contains", to |-> <<"package", SpdxName(p)>>]

LEMMA SpdxRelationships ==
  ASSUME NEW s, WellFormed(s), NEW f \in Spdx
  PROVE  \A x : x \in ThroughSpdx(s, f).relationships <=>
           \/ \E r \in s.relationships : Written(r) /\ x = SpdxMade(r)
           \/ RootLeft(s, f) /\ \E p \in s.packages : x = RootHas(s, f, p)
<1> DEFINE doc == ToSpdx(s, f)
           E == SpdxEnds(doc)
           root == Root(s, f)
           edge(a, t, b) == [a |-> a, type |-> t, b |-> b]
           own(r) == edge(ToSpdxId(r.from), SpdxType(r.type), ToSpdxId(r.to))
           has(p) == edge(root.id, <<"CONTAINS", "none">>, SpdxName(p))
           found(g, t, e) == [from |-> g, type |-> t, to |-> FoundEnd(e)]
           Found(x, d, g, e) == /\ g[1] = "package" /\ g[2] = d.a /\ SpdxIdOf(e) = d.b
                                /\ \E t \in FoundType(d.type, e) : x = found(g, t, e)
<1>1. \A d : d \in doc.relationships <=>
        \/ \E r \in s.relationships : r.from[1] = "package" /\ d = own(r)
        \/ \E p \in s.packages : d = has(p)
        \/ d = edge(Document, <<"DESCRIBES", "none">>, root.id)
  <2>1. \A d : d \in doc.relationships <=>
          \/ \E r \in s.relationships : r.from[1] = "package" /\ d = own(r)
          \/ \E p \in SpdxPackages(s) : d = edge(root.id, <<"CONTAINS", "none">>, p.id)
          \/ d = edge(Document, <<"DESCRIBES", "none">>, root.id)
    BY DEF ToSpdx
  <2>2. \A i : (\E p \in SpdxPackages(s) : i = p.id) <=> \E p \in s.packages : i = SpdxName(p)
    <3> DEFINE listed(p) == [id |-> SpdxName(p), what |-> p.what, purl |-> p.purl, purpose |-> "none"]
    <3>1. SpdxPackages(s) = {listed(p) : p \in s.packages} /\ \A p : listed(p).id = SpdxName(p)
      BY DEF SpdxPackages, SpdxName
    <3> HIDE DEF listed
    <3> QED BY <3>1
  <2>3. \A d : (\E p \in SpdxPackages(s) : d = edge(root.id, <<"CONTAINS", "none">>, p.id))
                 <=> \E p \in s.packages : d = has(p)
    <3> HIDE DEF root, edge
    <3> QED BY <2>2
  <2> HIDE DEF doc, own, has, edge, root
  <2> QED BY <2>1, <2>3
<1>2. \A x : x \in ThroughSpdx(s, f).relationships <=>
        \E d \in doc.relationships : \E e \in E : \E g \in E : Found(x, d, g, e)
  BY DEF ThroughSpdx, FromSpdx
<1> HIDE DEF doc, E
<1>3. ASSUME NEW d \in doc.relationships, NEW e \in E, NEW g \in E, NEW x, Found(x, d, g, e)
      PROVE  \/ \E r \in s.relationships : Written(r) /\ x = SpdxMade(r)
             \/ RootLeft(s, f) /\ \E p \in s.packages : x = RootHas(s, f, p)
  <2>1. PICK t \in FoundType(d.type, e) : x = found(g, t, e)
    BY <1>3
  <2>2. CASE \E r \in s.relationships : r.from[1] = "package" /\ d = own(r)
    <3>1. PICK r \in s.relationships : r.from[1] = "package" /\ d = own(r)
      BY <2>2
    <3>2. d.a = ToSpdxId(r.from) /\ d.b = ToSpdxId(r.to) /\ d.type = SpdxType(r.type)
      BY <3>1
    <3>3. g = <<"package", ToSpdxId(r.from)>>
      BY <1>3, <3>1, <3>2, SpdxReads DEF E, doc
    <3>4. Written(r) /\ FoundEnd(e) = SpdxEnd(r.to) /\ FoundType(d.type, e) = {r.type}
      BY <1>3, <3>1, <3>2, SpdxReads DEF E, doc
    <3>5. x = SpdxMade(r)
      BY <2>1, <3>3, <3>4 DEF SpdxMade
    <3> QED BY <3>4, <3>5
  <2>3. CASE \E p \in s.packages : d = has(p)
    <3>1. PICK p \in s.packages : d = has(p)
      BY <2>3
    <3>2. d.a = root.id /\ d.b = SpdxName(p) /\ d.type = <<"CONTAINS", "none">>
      BY <3>1
    <3>3. RootLeft(s, f) /\ g = <<"package", root.id>>
      BY <1>3, <3>2, SpdxIds DEF E, doc
    <3>4. e = <<"package", SpdxName(p)>>
      BY <1>3, <3>2, SpdxIds DEF E, doc
    <3>5. FoundEnd(e) = e /\ t = "contains"
      BY <2>1, <3>2, <3>4, SpdxTypes DEF FoundEnd
    <3> QED BY <2>1, <3>3, <3>4, <3>5 DEF RootHas
  <2>4. CASE d = edge(Document, <<"DESCRIBES", "none">>, root.id)
    BY <1>3, <2>4, SpdxIds DEF E, doc
  <2> QED BY <1>1, <2>2, <2>3, <2>4
<1>4. ASSUME NEW r \in s.relationships, Written(r)
      PROVE  SpdxMade(r) \in ThroughSpdx(s, f).relationships
  <2>1. own(r) \in doc.relationships
    BY <1>1, <1>4 DEF Written
  <2>2. <<"package", ToSpdxId(r.from)>> \in E
    BY <1>4, SpdxWrites DEF E, doc
  <2>3. PICK e \in E : SpdxIdOf(e) = ToSpdxId(r.to)
    BY <1>4, SpdxWrites DEF E, doc
  <2>4. FoundEnd(e) = SpdxEnd(r.to) /\ FoundType(SpdxType(r.type), e) = {r.type}
    BY <1>4, <2>2, <2>3, SpdxReads DEF E, doc, Written
  <2>5. Found(SpdxMade(r), own(r), <<"package", ToSpdxId(r.from)>>, e)
    BY <2>3, <2>4 DEF SpdxMade
  <2> HIDE DEF Found, own
  <2> QED BY <1>2, <2>1, <2>2, <2>3, <2>5
<1>5. ASSUME RootLeft(s, f), NEW p \in s.packages
      PROVE  RootHas(s, f, p) \in ThroughSpdx(s, f).relationships
  <2> DEFINE g == <<"package", root.id>>
             e == <<"package", SpdxName(p)>>
  <2>1. has(p) \in doc.relationships
    BY <1>1
  <2>2. g \in E /\ e \in E
    BY <1>5, SpdxEndsAre DEF E, doc
  <2>3. SpdxIdOf(e) = SpdxName(p) /\ FoundEnd(e) = e
    BY DEF SpdxIdOf, FoundEnd
  <2>4. Found(RootHas(s, f, p), has(p), g, e)
    BY <2>3, SpdxTypes DEF RootHas
  <2> HIDE DEF Found, has, g, e
  <2> QED BY <1>2, <2>1, <2>2, <2>4
<1> HIDE DEF Found
<1> QED BY <1>2, <1>3, <1>4, <1>5
\* Everything between packages is kept; of files, what is said by coordinates.
LEMMA SpdxKeeps ==
  ASSUME NEW s, WellFormed(s), NEW f \in Spdx
  PROVE  LET u == ThroughSpdx(s, f)
         IN  /\ WellFormed(u) /\ NoCoordinates(u)
             /\ \A w : w \in {p.what : p \in u.packages} <=>
                  \/ w \in {p.what : p \in s.packages}
                  \/ w = "root" /\ RootStays([format |-> f, source |-> s.source])
             /\ \A a, t, b : ToPackage(u, a, t, b) <=> ToPackage(s, a, t, b)
             /\ NoLocations(s) => \A a, t, path, layer : ToFile(u, a, t, path, layer) <=> ToFile(s, a, t, path, layer)
             /\ NoCoordinates(s) => \A a, t, path, layer : ~ToFile(u, a, t, path, layer)
<1> DEFINE u == ThroughSpdx(s, f)
           doc == ToSpdx(s, f)
           root == Root(s, f)
           listed(p) == [id |-> SpdxName(p), what |-> p.what, purl |-> p.purl, purpose |-> "none"]
           read(p) == [id |-> p.id, what |-> p.what, purl |-> p.purl, typed |-> p.purl]
<1>1. doc.packages = {listed(p) : p \in s.packages} \cup {root} /\ DOMAIN doc.files = AllCoordinates(s)
  BY DEF ToSpdx, SpdxPackages, SpdxName
<1>2. u.packages = {read(p) : p \in doc.packages \ Taken(doc)}
  BY DEF ThroughSpdx, FromSpdx
<1>3. DOMAIN u.files = {Relative(c) : c \in AllCoordinates(s)}
  BY <1>1 DEF ThroughSpdx, FromSpdx
<1>4. u.source \in SourceKinds
  BY DEF ThroughSpdx, FromSpdx, SourceKinds
<1>5. Taken(doc) = IF RootLeft(s, f) THEN {} ELSE {root}
  BY SpdxTaken DEF RootLeft
<1>6. ASSUME NEW p \in s.packages
      PROVE  /\ listed(p) # root /\ read(listed(p)).id = SpdxName(p) /\ read(listed(p)).what = p.what
             /\ Named(read(listed(p)))
  <2>1. LET x == SpdxName(p)
        IN  x = <<x[1], x[2]>> /\ x[1] = p.id[1] /\ x[2] \in Seq({"Package", "purl"}) /\ x[2] # <<>>
    BY SpdxNames DEF WellFormed
  <2>2. root.id[2] = <<>>
    BY DEF Root, Id
  <2>3. listed(p).id = SpdxName(p) /\ read(listed(p)).id = SpdxName(p) /\ read(listed(p)).what = p.what
    OBVIOUS
  <2>4. listed(p) # root
    <3> HIDE DEF listed, root
    <3> QED BY <2>1, <2>2, <2>3
  <2>5. Named(p)
    BY DEF WellFormed
  <2> HIDE DEF listed, read
  <2>6. Named(read(listed(p)))
    BY <2>1, <2>3, <2>5 DEF Named
  <2> QED BY <2>3, <2>4, <2>6
<1>7. Named(read(root)) /\ read(root).id = root.id /\ read(root).what = "root"
  BY DEF Named, Root, Id
<1> HIDE DEF u, doc, listed, read, root
<1>8. \A x : x \in u.packages <=> \/ \E p \in s.packages : x = read(listed(p))
                                  \/ RootLeft(s, f) /\ x = read(root)
  BY <1>1, <1>2, <1>5, <1>6
<1>9. ASSUME NEW p \in s.packages PROVE IsEnd(u, <<"package", SpdxName(p)>>)
  BY <1>6, <1>8 DEF IsEnd
<1>10. RootLeft(s, f) => IsEnd(u, <<"package", Root(s, f).id>>)
  BY <1>7, <1>8 DEF IsEnd, root
<1>11. \A x : x \in u.relationships <=>
         \/ \E r \in s.relationships : Written(r) /\ x = SpdxMade(r)
         \/ RootLeft(s, f) /\ \E p \in s.packages : x = RootHas(s, f, p)
  BY SpdxRelationships DEF u
<1>12. ASSUME NEW r \in s.relationships, Written(r), NEW m, m = SpdxMade(r)
       PROVE  /\ Joins(u, m) /\ m.to[1] # "coordinates" /\ m.type = r.type
              /\ m.from[1] = "package" /\ WhatOf(m.from[2]) = WhatOf(r.from[2])
              /\ r.to[1] = "package" => m.to[1] = "package" /\ WhatOf(m.to[2]) = WhatOf(r.to[2])
              /\ r.to[1] # "package" => /\ r.to[1] = "coordinates" /\ m.to[1] = "location"
                                        /\ m.to[2][1] = r.to[2][1] /\ m.to[2][3] = r.to[2][3]
  <2>1. Joins(s, r) /\ IsEnd(s, r.from)
    BY <1>12 DEF WellFormed, Joins, Written
  <2>2. ASSUME NEW e, IsEnd(s, e)
        PROVE  IsEnd(u, <<"package", ToSpdxId(e)>>) /\ WhatOf(ToSpdxId(e)) = WhatOf(e[2]) /\ e[1] = "package"
    <3>1. PICK p \in s.packages : e = <<"package", p.id>>
      BY <2>2 DEF IsEnd
    <3>2. ToSpdxId(e) = SpdxName(p)
      BY <3>1 DEF SpdxName
    <3>3. SpdxName(p)[1] = p.id[1]
      BY SpdxNames DEF WellFormed
    <3> QED BY <1>9, <3>1, <3>2, <3>3 DEF WhatOf
  <2>3. m.from = <<"package", ToSpdxId(r.from)>> /\ m.type = r.type /\ m.to = SpdxEnd(r.to)
    BY <1>12 DEF SpdxMade
  <2>4. IsEnd(u, m.from) /\ m.from[1] = "package" /\ WhatOf(m.from[2]) = WhatOf(r.from[2])
    BY <2>1, <2>2, <2>3
  <2>5. CASE IsEnd(s, r.to) /\ r.type \in {"contains", "dependency-of", "ownership-by-file-overlap"}
    <3>1. r.to[1] = "package" /\ m.to = <<"package", ToSpdxId(r.to)>>
      BY <2>2, <2>3, <2>5 DEF SpdxEnd
    <3>2. IsEnd(u, m.to) /\ WhatOf(m.to[2]) = WhatOf(r.to[2])
      BY <2>2, <2>5, <3>1
    <3> QED BY <2>3, <2>4, <2>5, <3>1, <3>2 DEF Joins
  <2>6. CASE r.to = <<"coordinates", r.to[2]>> /\ r.type \in {"contains", "evident-by"}
    <3>1. PICK c : r.to = <<"coordinates", c>>
      BY <2>6
    <3>2. c \in AllCoordinates(s)
      BY <3>1 DEF AllCoordinates
    <3>3. m.to = <<"location", Relative(c)>> /\ Relative(c) \in DOMAIN u.files
      BY <1>3, <2>3, <3>1, <3>2 DEF SpdxEnd
    <3>4. Relative(c)[1] = c[1] /\ Relative(c)[3] = c[3]
      BY DEF Relative
    <3> QED BY <2>3, <2>4, <2>6, <3>1, <3>3, <3>4 DEF Joins
  <2> QED BY <1>12, <2>1, <2>5, <2>6 DEF Joins, Written
<1>13. ASSUME RootLeft(s, f), NEW p \in s.packages, NEW m, m = RootHas(s, f, p)
       PROVE  Joins(u, m) /\ m.to[1] = "package" /\ WhatOf(m.from[2]) = "root"
  <2>1. m.from = <<"package", Root(s, f).id>> /\ m.type = "contains" /\ m.to = <<"package", SpdxName(p)>>
    BY <1>13 DEF RootHas
  <2>2. WhatOf(Root(s, f).id) = "root"
    BY DEF WhatOf, Root, Id
  <2> QED BY <1>9, <1>10, <1>13, <2>1, <2>2 DEF Joins
<1>14. WellFormed(u)
  <2>1. \A p \in u.packages : Named(p)
    BY <1>6, <1>7, <1>8
  <2>2. \A p, q \in u.packages : p.what = q.what /\ p.what # "root" => p = q
    BY <1>6, <1>7, <1>8 DEF WellFormed
  <2>3. \A r \in u.relationships : Joins(u, r)
    BY <1>11, <1>12, <1>13
  <2> QED BY <1>4, <2>1, <2>2, <2>3 DEF WellFormed
<1>15. NoCoordinates(u)
  BY <1>11, <1>12, <1>13 DEF NoCoordinates
<1>16. RootLeft(s, f) <=> RootStays([format |-> f, source |-> s.source])
  <2> DEFINE purpose == Purpose(s.source, f)
             st == [format |-> f, source |-> s.source]
  <2>1. RootLeft(s, f) <=> purpose \notin {"CONTAINER", "FILE"}
    BY DEF RootLeft, IsSource, Root
  <2>2. st.format = f /\ st.source = s.source
    OBVIOUS
  <2>3. RootStays(st) <=> f = "spdx-2.2" \/ (f = "spdx-2.3" /\ purpose = "OTHER")
    BY <2>2 DEF RootStays
  <2>4. f = "spdx-2.2" => purpose = "none"
    BY DEF Purpose
  <2>5. f = "spdx-2.3" => purpose \in {"CONTAINER", "FILE", "OTHER"}
    BY DEF Purpose
  <2>6. f = "spdx-2.2" \/ f = "spdx-2.3"
    BY DEF Spdx
  <2> HIDE DEF purpose, st
  <2>7. RootLeft(s, f) <=> RootStays(st)
    BY <2>1, <2>3, <2>4, <2>5, <2>6
  <2> QED BY <2>7 DEF st
<1>17. \A w : w \in {p.what : p \in u.packages} <=>
         \/ w \in {p.what : p \in s.packages}
         \/ w = "root" /\ RootStays([format |-> f, source |-> s.source])
  BY <1>6, <1>7, <1>8, <1>16
<1>18. ASSUME NEW a, NEW t, NEW b PROVE ToPackage(u, a, t, b) <=> ToPackage(s, a, t, b)
  <2>1. ASSUME ToPackage(u, a, t, b) PROVE ToPackage(s, a, t, b)
    <3>1. PICK x \in u.relationships :
            /\ x.from[1] = "package" /\ WhatOf(x.from[2]) = a /\ a # "root"
            /\ x.type = t /\ x.to[1] = "package" /\ WhatOf(x.to[2]) = b
      BY <2>1 DEF ToPackage
    <3>2. PICK r \in s.relationships : Written(r) /\ x = SpdxMade(r)
      BY <1>11, <1>13, <3>1
    <3> QED BY <1>12, <3>1, <3>2 DEF ToPackage, Written
  <2>2. ASSUME ToPackage(s, a, t, b) PROVE ToPackage(u, a, t, b)
    <3>1. PICK r \in s.relationships :
            /\ r.from[1] = "package" /\ WhatOf(r.from[2]) = a /\ a # "root"
            /\ r.type = t /\ r.to[1] = "package" /\ WhatOf(r.to[2]) = b
      BY <2>2 DEF ToPackage
    <3>2. Written(r)
      BY <3>1 DEF Written
    <3>3. SpdxMade(r) \in u.relationships
      BY <1>11, <3>2
    <3> QED BY <1>12, <3>1, <3>2, <3>3 DEF ToPackage
  <2> QED BY <2>1, <2>2
<1>19. ASSUME NEW a, NEW t, NEW path, NEW layer, ToFile(u, a, t, path, layer)
       PROVE  ToFile(s, a, t, path, layer) /\ ~NoCoordinates(s)
  <2>1. PICK x \in u.relationships :
          /\ x.from[1] = "package" /\ WhatOf(x.from[2]) = a /\ a # "root"
          /\ x.type = t /\ x.to[1] # "package" /\ x.to[2][1] = path /\ x.to[2][3] = layer
    BY <1>19 DEF ToFile
  <2>2. PICK r \in s.relationships : Written(r) /\ x = SpdxMade(r)
    BY <1>11, <1>13, <2>1
  <2>3. r.to[1] # "package"
    BY <1>12, <2>1, <2>2
  <2>4. r.to[1] = "coordinates" /\ r.to[2][1] = path /\ r.to[2][3] = layer /\ r.type = t
        /\ WhatOf(r.from[2]) = a /\ r.from[1] = "package"
    BY <1>12, <2>1, <2>2, <2>3 DEF Written
  <2> QED BY <2>1, <2>3, <2>4 DEF ToFile, NoCoordinates
<1>20. ASSUME NoLocations(s), NEW a, NEW t, NEW path, NEW layer, ToFile(s, a, t, path, layer)
       PROVE  ToFile(u, a, t, path, layer)
  <2>1. PICK r \in s.relationships :
          /\ r.from[1] = "package" /\ WhatOf(r.from[2]) = a /\ a # "root"
          /\ r.type = t /\ r.to[1] # "package" /\ r.to[2][1] = path /\ r.to[2][3] = layer
    BY <1>20 DEF ToFile
  <2>2. Written(r)
    BY <1>20, <2>1 DEF Written, NoLocations
  <2>3. SpdxMade(r) \in u.relationships
    BY <1>11, <2>2
  <2> QED BY <1>12, <2>1, <2>2, <2>3 DEF ToFile
<1> QED BY <1>14, <1>15, <1>17, <1>18, <1>19, <1>20 DEF u
-----------------------------------------------------------------------------
(* Any number of conversions.                                              *)

Whats(s) == {p.what : p \in s.packages}

StepType == steps \in Seq([format : Formats, source : SourceKinds])

AfterSpdx == steps # <<>> /\ steps[Len(steps)].format \in Spdx

WhatsKept ==
  /\ \A w : w # "root" => (w \in Whats(sbom) <=> w \in Whats(scanned))
  /\ "root" \in Whats(sbom) <=> \E i \in DOMAIN steps : RootStays(steps[i])

ToPackagesKept ==
  \A a, t, b : t = "dependency-of" \/ ~Through({"cyclonedx"}) =>
    (ToPackage(sbom, a, t, b) <=> ToPackage(scanned, a, t, b))

ToFilesKept ==
  \A a, t, path, layer :
    ToFile(sbom, a, t, path, layer) <=>
      ~(Through({"cyclonedx"}) \/ TwiceSpdx) /\ ToFile(scanned, a, t, path, layer)

\* What SPDX has just made are locations; otherwise files are coordinates.
EndsInTurn == IF AfterSpdx THEN NoCoordinates(sbom) ELSE NoLocations(sbom)

ConvInv ==
  /\ scanned \in Scanned /\ StepType /\ WellFormed(sbom)
  /\ WhatsKept /\ ToPackagesKept /\ ToFilesKept /\ EndsInTurn

LEMMA ScannedWellFormed ==
  ASSUME NEW s \in Scanned
  PROVE  WellFormed(s) /\ NoLocations(s) /\ "root" \notin Whats(s)
<1>1. /\ \A p \in s.packages : p.id = <<<<"hash", p.what>>, <<>>>> /\ p.what # "root"
      /\ \A p, q \in s.packages : q.what = p.what => q = p
      /\ \A r \in s.relationships : Linked(s, r)
  BY ConversionAssumption
<1>2. ASSUME NEW p \in s.packages PROVE Named(p)
  <2>1. p.id = <<<<"hash", p.what>>, <<>>>> /\ p.what # "root"
    BY <1>1
  <2>2. p.id[1] = <<"hash", p.what>> /\ p.id[2] = <<>>
    BY <2>1
  <2>3. <<>> \in Seq({"Package", "purl"})
    OBVIOUS
  <2> QED BY <2>1, <2>2, <2>3 DEF Named
<1>3. \A r \in s.relationships : Joins(s, r) /\ r.to[1] # "location"
  BY <1>1 DEF Linked, Joins, IsEnd
<1>4. s.source \in SourceKinds
  BY DEF SourceKinds
<1> QED BY <1>1, <1>2, <1>3, <1>4 DEF WellFormed, NoLocations, Whats

\* One more step.
LEMMA OneStepMore ==
  ASSUME StepType, NEW st \in [format : Formats, source : SourceKinds], steps' = Append(steps, st)
  PROVE  /\ StepType' /\ (AfterSpdx' <=> st.format \in Spdx)
         /\ \A fs : Through(fs)' <=> Through(fs) \/ st.format \in fs
         /\ (\E i \in DOMAIN steps' : RootStays(steps'[i])) <=>
              RootStays(st) \/ \E i \in DOMAIN steps : RootStays(steps[i])
         /\ TwiceSpdx' <=> TwiceSpdx \/ (AfterSpdx /\ st.format \in Spdx)
<1> DEFINE n == Len(steps)
<1>1. /\ n \in Nat /\ DOMAIN steps = 1..n /\ DOMAIN steps' = 1..(n + 1) /\ Len(steps') = n + 1
      /\ \A i \in 1..n : steps'[i] = steps[i]
      /\ steps'[n + 1] = st /\ StepType' /\ steps' # <<>> /\ (steps = <<>> <=> n = 0)
  BY DEF StepType
<1> HIDE DEF n
<1>2. AfterSpdx <=> n \in DOMAIN steps /\ steps[n].format \in Spdx
  BY <1>1 DEF AfterSpdx, n
<1>3. AfterSpdx' <=> st.format \in Spdx
  BY <1>1 DEF AfterSpdx
<1>4. ASSUME NEW fs PROVE Through(fs)' <=> Through(fs) \/ st.format \in fs
  BY <1>1 DEF Through
<1>5. (\E i \in DOMAIN steps' : RootStays(steps'[i])) <=>
        RootStays(st) \/ \E i \in DOMAIN steps : RootStays(steps[i])
  BY <1>1
<1>6. TwiceSpdx' <=> TwiceSpdx \/ (AfterSpdx /\ st.format \in Spdx)
  <2>1. ASSUME TwiceSpdx' PROVE TwiceSpdx \/ (AfterSpdx /\ st.format \in Spdx)
    <3>1. PICK i \in 1..(n + 1) : /\ i + 1 \in 1..(n + 1) /\ steps'[i].format \in Spdx
                                  /\ steps'[i + 1].format \in Spdx
      BY <1>1, <2>1 DEF TwiceSpdx
    <3>2. CASE i = n
      BY <1>1, <1>2, <3>1, <3>2
    <3>3. CASE i # n
      <4>1. i \in 1..n /\ i + 1 \in 1..n
        BY <1>1, <3>1, <3>3
      <4>2. steps'[i] = steps[i] /\ steps'[i + 1] = steps[i + 1]
        BY <1>1, <4>1
      <4> QED BY <1>1, <3>1, <4>1, <4>2 DEF TwiceSpdx
    <3> QED BY <3>2, <3>3
  <2>2. ASSUME TwiceSpdx PROVE TwiceSpdx'
    BY <1>1, <2>2 DEF TwiceSpdx
  <2>3. ASSUME AfterSpdx, st.format \in Spdx PROVE TwiceSpdx'
    <3>1. n \in 1..n /\ n + 1 \in 1..(n + 1) /\ n \in 1..(n + 1)
      BY <1>1, <1>2, <2>3
    <3>2. steps'[n].format \in Spdx /\ steps'[n + 1].format \in Spdx
      BY <1>1, <1>2, <2>3, <3>1
    <3> QED BY <1>1, <3>1, <3>2 DEF TwiceSpdx
  <2> QED BY <2>1, <2>2, <2>3
<1> QED BY <1>1, <1>3, <1>4, <1>5, <1>6

LEMMA ConvInvInitial == ConvInit => ConvInv
<1> SUFFICES ASSUME ConvInit PROVE ConvInv
  OBVIOUS
<1>1. scanned \in Scanned /\ sbom = scanned /\ steps = <<>>
  BY DEF ConvInit
<1>2. WellFormed(sbom) /\ NoLocations(sbom) /\ "root" \notin Whats(sbom)
  BY <1>1, ScannedWellFormed
<1>3. StepType /\ ~AfterSpdx /\ DOMAIN steps = {}
  BY <1>1 DEF StepType, AfterSpdx
<1>4. ~Through({"cyclonedx"}) /\ ~TwiceSpdx
  BY <1>3 DEF Through, TwiceSpdx
<1> QED BY <1>1, <1>2, <1>3, <1>4 DEF ConvInv, WhatsKept, ToPackagesKept, ToFilesKept, EndsInTurn

LEMMA ConvInvKept == ConvInv /\ [ConvNext]_convVars => ConvInv'
<1> SUFFICES ASSUME ConvInv, [ConvNext]_convVars PROVE ConvInv'
  OBVIOUS
<1> USE DEF ConvInv
<1>1. CASE UNCHANGED convVars
  BY <1>1 DEF convVars, StepType, WhatsKept, ToPackagesKept, ToFilesKept, EndsInTurn, AfterSpdx, Through, TwiceSpdx
<1>2. ASSUME NEW f \in Formats, Convert(f) PROVE ConvInv'
  <2> DEFINE st == [format |-> f, source |-> sbom.source]
  <2>1. sbom' = Converted(sbom, f) /\ steps' = Append(steps, st) /\ scanned' = scanned
    BY <1>2 DEF Convert
  <2>2. st \in [format : Formats, source : SourceKinds] /\ st.format = f
    BY DEF WellFormed
  <2> HIDE DEF st
  <2>3. /\ StepType' /\ (AfterSpdx' <=> f \in Spdx)
        /\ \A fs : Through(fs)' <=> Through(fs) \/ f \in fs
        /\ (\E i \in DOMAIN steps' : RootStays(steps'[i])) <=>
             RootStays(st) \/ \E i \in DOMAIN steps : RootStays(steps[i])
        /\ TwiceSpdx' <=> TwiceSpdx \/ (AfterSpdx /\ f \in Spdx)
    BY <2>1, <2>2, OneStepMore
  <2>4. CASE f = "json"
    <3>1. sbom' = ThroughJson(sbom)
      BY <2>1, <2>4 DEF Converted, ThroughJson
    <3>2. /\ WellFormed(sbom') /\ NoLocations(sbom') /\ Whats(sbom') = Whats(sbom)
          /\ \A a, t, b : ToPackage(sbom', a, t, b) <=> ToPackage(sbom, a, t, b)
          /\ \A a, t, path, layer : ToFile(sbom', a, t, path, layer) <=> ToFile(sbom, a, t, path, layer)
      BY <3>1, JsonKeeps DEF Whats
    <3>3. ~RootStays(st) /\ f \notin Spdx /\ f # "cyclonedx"
      BY <2>2, <2>4 DEF RootStays, Spdx
    <3>4. WhatsKept'
      BY <2>1, <2>3, <3>2, <3>3 DEF WhatsKept
    <3>5. ToPackagesKept'
      BY <2>1, <2>3, <3>2, <3>3 DEF ToPackagesKept
    <3>6. ToFilesKept'
      BY <2>1, <2>3, <3>2, <3>3 DEF ToFilesKept
    <3>7. EndsInTurn'
      BY <2>3, <3>2, <3>3 DEF EndsInTurn
    <3> QED BY <2>1, <2>3, <3>2, <3>4, <3>5, <3>6, <3>7
  <2>5. CASE f = "cyclonedx"
    <3>1. sbom' = ThroughCycloneDX(sbom)
      BY <2>1, <2>5 DEF Converted, ThroughCycloneDX
    <3>2. /\ WellFormed(sbom') /\ NoLocations(sbom') /\ Whats(sbom') = Whats(sbom)
          /\ \A a, t, b : ToPackage(sbom', a, t, b) <=> t = "dependency-of" /\ ToPackage(sbom, a, t, b)
          /\ \A a, t, path, layer : ~ToFile(sbom', a, t, path, layer)
      BY <3>1, CycloneDXKeeps DEF Whats
    <3>3. ~RootStays(st) /\ f \notin Spdx
      BY <2>2, <2>5 DEF RootStays, Spdx
    <3>4. WhatsKept'
      BY <2>1, <2>3, <3>2, <3>3 DEF WhatsKept
    <3>5. ToPackagesKept'
      BY <2>1, <2>3, <2>5, <3>2 DEF ToPackagesKept
    <3>6. ToFilesKept'
      BY <2>1, <2>3, <2>5, <3>2 DEF ToFilesKept
    <3>7. EndsInTurn'
      BY <2>3, <3>2, <3>3 DEF EndsInTurn
    <3> QED BY <2>1, <2>3, <3>2, <3>4, <3>5, <3>6, <3>7
  <2>6. CASE f \in Spdx
    <3>1. sbom' = ThroughSpdx(sbom, f) /\ f # "cyclonedx"
      BY <2>1, <2>6 DEF Converted, ThroughSpdx, Spdx
    <3>2. /\ WellFormed(sbom') /\ NoCoordinates(sbom')
          /\ \A w : w \in Whats(sbom') <=> w \in Whats(sbom) \/ (w = "root" /\ RootStays(st))
          /\ \A a, t, b : ToPackage(sbom', a, t, b) <=> ToPackage(sbom, a, t, b)
          /\ NoLocations(sbom) =>
               \A a, t, path, layer : ToFile(sbom', a, t, path, layer) <=> ToFile(sbom, a, t, path, layer)
          /\ NoCoordinates(sbom) => \A a, t, path, layer : ~ToFile(sbom', a, t, path, layer)
      BY <2>6, <3>1, SpdxKeeps DEF Whats, st
    <3>3. WhatsKept'
      BY <2>1, <2>3, <3>2 DEF WhatsKept
    <3>4. ToPackagesKept'
      BY <2>1, <2>3, <3>1, <3>2 DEF ToPackagesKept
    <3>5. ToFilesKept'
      <4>1. Through({"cyclonedx"})' <=> Through({"cyclonedx"})
        BY <2>3, <3>1
      <4>2. CASE AfterSpdx
        BY <2>1, <2>3, <2>6, <3>2, <4>2 DEF ToFilesKept, EndsInTurn
      <4>3. CASE ~AfterSpdx
        BY <2>1, <2>3, <2>6, <3>2, <4>1, <4>3 DEF ToFilesKept, EndsInTurn
      <4> QED BY <4>2, <4>3
    <3> QED BY <2>1, <2>3, <2>6, <3>2, <3>3, <3>4, <3>5 DEF EndsInTurn
  <2> QED BY <2>4, <2>5, <2>6 DEF Formats, Spdx
<1> QED BY <1>1, <1>2 DEF ConvNext

\* As many packages as ever.
LEMMA AsMany ==
  ASSUME ConvInv
  PROVE  Cardinality({p \in sbom.packages : p.what # "root"}) = Cardinality(scanned.packages)
<1> DEFINE own == {p \in sbom.packages : p.what # "root"}
           T == scanned.packages
           F == [p \in own |-> CHOOSE q \in T : q.what = p.what]
<1>1. WellFormed(sbom) /\ WellFormed(scanned) /\ "root" \notin Whats(scanned) /\ IsFiniteSet(T)
  BY ScannedWellFormed, ConversionAssumption DEF ConvInv
<1>2. \A w : w # "root" => (w \in Whats(sbom) <=> w \in Whats(scanned))
  BY DEF ConvInv, WhatsKept
<1>3. \A p \in own : \E q \in T : q.what = p.what
  BY <1>2 DEF Whats
<1>4. \A q \in T : q.what # "root" /\ \E p \in own : p.what = q.what
  BY <1>1, <1>2 DEF Whats
<1>5. \A p, q \in own : p.what = q.what => p = q
  BY <1>1 DEF WellFormed
<1>6. \A p, q \in T : p.what = q.what => p = q
  BY <1>1, <1>4 DEF WellFormed
<1> HIDE DEF own, T
<1>7. \A p \in own : F[p] \in T /\ F[p].what = p.what
  BY <1>3
<1>8. F \in [own -> T]
  BY <1>7
<1> HIDE DEF F
<1>9. F \in Injection(own, T)
  BY <1>5, <1>7, <1>8 DEF Injection, IsInjective
<1>10. F \in Surjection(own, T)
  BY <1>4, <1>6, <1>7, <1>8 DEF Surjection
<1>11. Cardinality(own) = Cardinality(T)
  BY <1>1, <1>9, <1>10, FS_Injection
<1> QED BY <1>11 DEF own, T

LEMMA ConvInvEnough == ConvInv => ConversionsKeep
<1> SUFFICES ASSUME ConvInv PROVE PackagesKept /\ EdgesKept
  BY DEF ConversionsKeep
<1>1. WellFormed(sbom) /\ WellFormed(scanned) /\ "root" \notin Whats(scanned)
  BY ScannedWellFormed DEF ConvInv
<1>2. PackagesKept
  <2>1. Whats(sbom) \ {"root"} = Whats(scanned)
    BY <1>1 DEF ConvInv, WhatsKept
  <2> QED BY <2>1, AsMany DEF PackagesKept, ConvInv, WhatsKept, Whats
<1>3. EdgesKept
  <2>1. \A x : x \in Says(sbom, FALSE) <=> \E a, t, b : x = <<a, t, <<b>>>> /\ ToPackage(sbom, a, t, b)
    BY <1>1, SaysPackages
  <2>2. \A x : x \in Says(scanned, FALSE) <=> \E a, t, b : x = <<a, t, <<b>>>> /\ ToPackage(scanned, a, t, b)
    BY <1>1, SaysPackages
  <2>3. \A x : x \in Says(sbom, TRUE) <=>
          \E a, t, path, layer : x = <<a, t, <<path, layer>>>> /\ ToFile(sbom, a, t, path, layer)
    BY <1>1, SaysFiles
  <2>4. \A x : x \in Says(scanned, TRUE) <=>
          \E a, t, path, layer : x = <<a, t, <<path, layer>>>> /\ ToFile(scanned, a, t, path, layer)
    BY <1>1, SaysFiles
  <2>5. ToPackagesKept /\ ToFilesKept
    BY DEF ConvInv
  <2>6. {e \in Says(sbom, FALSE) : e[2] = "dependency-of"} = {e \in Says(scanned, FALSE) : e[2] = "dependency-of"}
    <3>1. ASSUME NEW a, NEW t, NEW b, NEW e, e = <<a, t, <<b>>>>, e[2] = "dependency-of"
          PROVE  ToPackage(sbom, a, t, b) <=> ToPackage(scanned, a, t, b)
      <4>1. t = "dependency-of"
        BY <3>1
      <4> QED BY <2>5, <4>1 DEF ToPackagesKept
    <3>2. ASSUME NEW e, e[2] = "dependency-of" PROVE e \in Says(sbom, FALSE) <=> e \in Says(scanned, FALSE)
      BY <2>1, <2>2, <3>1, <3>2
    <3> QED BY <3>2
  <2>7. ~Through({"cyclonedx"}) => Says(sbom, FALSE) = Says(scanned, FALSE)
    BY <2>1, <2>2, <2>5 DEF ToPackagesKept
  <2>8. Says(sbom, TRUE) = IF Through({"cyclonedx"}) \/ TwiceSpdx THEN {} ELSE Says(scanned, TRUE)
    BY <2>3, <2>4, <2>5 DEF ToFilesKept
  <2> QED BY <2>6, <2>7, <2>8 DEF EdgesKept
<1> QED BY <1>2, <1>3

\* The SBOM stays well formed, and what it says of packages and of files follows
\* from what was scanned and the formats passed through, and from whether the last
\* was SPDX, whose decoder names files by location (to_syft_model.go:405-415).
THEOREM ConversionsTracked == ConvSpec => []ConvInv
<1> QED BY ConvInvInitial, ConvInvKept, PTL DEF ConvSpec

\* However often an SBOM is converted and through whatever formats, every package is
\* there once, dependencies stay, and files and other relationships are lost only as
\* the formats lose them (convert.go, to_format_model.go, to_syft_model.go).
THEOREM ConversionsKeepAll == ConvSpec => []ConversionsKeep
<1> QED BY ConversionsTracked, ConvInvEnough, PTL

-----------------------------------------------------------------------------
(* go.mod, and the packages the go tool loads.                             *)

UsedIDs == {SourceID(m) : m \in UsedModules}

\* What was visited and what waits: what the roots lead to, and all of it in the end.
Visiting ==
  /\ go.usesLib /\ goAt = 1
  /\ visited \cup goLeft \subseteq ReachedPackages
  /\ go.roots \subseteq visited \cup goLeft
  /\ \A p \in visited : Enters(p) => go.graph[p].imports \subseteq visited \cup goLeft
  /\ goFound.packages = {} /\ goFound.edges = {}

Loaded == visited = IF go.usesLib THEN ReachedPackages ELSE {}

SourcesLinked ==
  /\ \A m \in UsedModules, n \in {n \in UsedModules : Sole(n)} :
       (<<SourceID(n), SourceID(m)>> \in goFound.edges) <=> (m # n /\ ImportsFrom(m, n))
  /\ \A e \in goFound.edges : {e[1], e[2]} \subseteq UsedIDs

\* Of the directives before the next one: what they put there is there, what they
\* replace is not, and all else is as it is required.
Directives == {i \in DOMAIN go.replaces : i < goAt}
ReplacedSoFar ==
  /\ \A i \in Directives : /\ FinalPath(go.replaces[i]) \in DOMAIN entries
                           /\ entries[FinalPath(go.replaces[i])] = Replacement(go.replaces[i]).version
  /\ \A path \in DOMAIN entries :
       \/ \E i \in Directives : path = FinalPath(go.replaces[i])
       \/ path \notin {go.replaces[i].path : i \in Directives} \cup LoadedPaths
  /\ \A i \in LastRequired :
       go.require[i].path \notin LoadedPaths \cup UNION {{go.replaces[j].path, FinalPath(go.replaces[j])} : j \in Directives} =>
         /\ go.require[i].path \in DOMAIN entries
         /\ entries[go.require[i].path] = go.require[i].version

EntriesKnown ==
  /\ goAt \in 1..(Len(go.replaces) + 1)
  /\ \A path \in DOMAIN entries : EntryID(path, entries[path]) \in EntriesAsked
  /\ Unchained => ReplacedSoFar

ModInv ==
  /\ goPhase \in {"visit", "require", "replace", "end"}
  /\ goPhase = "visit" => Visiting
  /\ goPhase # "visit" => Loaded
  /\ goPhase \in {"require", "replace"} => goFound.packages = UsedIDs /\ SourcesLinked
  /\ goPhase = "require" => goAt = 1
  /\ goPhase = "replace" => EntriesKnown
  /\ goPhase = "end" => ModulesRead

GoFoundOK == goFound = [packages |-> goFound.packages, edges |-> goFound.edges, errors |-> goFound.errors]

\* What go says stays, as go does.
LEMMA GoStays ==
  ASSUME UNCHANGED go
  PROVE  /\ ReachedPackages' = ReachedPackages /\ Used' = Used
         /\ UsedModules' = UsedModules /\ UsedIDs' = UsedIDs
         /\ LastRequired' = LastRequired /\ EntriesAsked' = EntriesAsked /\ Unchained' = Unchained
         /\ Replaced' = Replaced /\ Replacing' = Replacing /\ Required' = Required
         /\ \A m, n : ImportsFrom(m, n)' <=> ImportsFrom(m, n)
         /\ \A n : Sole(n)' <=> Sole(n)
         /\ \A p : (Enters(p)' <=> Enters(p)) /\ ModuleOf(p)' = ModuleOf(p)
<1>1. \A p : (Enters(p)' <=> Enters(p)) /\ ModuleOf(p)' = ModuleOf(p)
  BY DEF Enters, SkipsVisit, ModuleOf
<1>2. \A S : ClosedUnderImports(S)' <=> ClosedUnderImports(S)
  BY <1>1 DEF ClosedUnderImports
<1>3. ReachedPackages' = ReachedPackages
  BY <1>2 DEF ReachedPackages
<1>4. Used' = Used
  BY <1>1, <1>3 DEF Used
<1>5. UsedModules' = UsedModules
  BY <1>1, <1>4 DEF UsedModules, IsReported
<1>6. UsedIDs' = UsedIDs
  BY <1>5 DEF UsedIDs, SourceID
<1>7. LastRequired' = LastRequired
  BY DEF LastRequired
<1>8. EntriesAsked' = EntriesAsked
  BY <1>7 DEF EntriesAsked
<1>9. Unchained' = Unchained /\ Replaced' = Replaced /\ Replacing' = Replacing /\ Required' = Required
  BY DEF Unchained, Replaced, Replacing, Required
<1>10. \A m, n : ImportsFrom(m, n)' <=> ImportsFrom(m, n)
  BY <1>1, <1>4 DEF ImportsFrom
<1>11. \A n : Sole(n)' <=> Sole(n)
  BY <1>5 DEF Sole
<1> QED BY <1>1, <1>3, <1>4, <1>5, <1>6, <1>7, <1>8, <1>9, <1>10, <1>11

\* Packages that were loaded are those that are used.
LEMMA SourcesUsed ==
  ASSUME Loaded
  PROVE  Sources = Used
<1>1. CASE go.usesLib
  BY <1>1 DEF Loaded, Sources, Used
<1>2. CASE ~go.usesLib
  BY <1>2 DEF Loaded, Sources, Used
<1> QED BY <1>1, <1>2

LEMMA ModOf ==
  ASSUME go \in GoFiles, go.kind = "mod", go.readable
  PROVE  ModAssumption(go)
<1> QED BY GoFilesAssumption DEF ModAssumption

LEMMA VisitKeeps ==
  ASSUME ModAssumption(go), go.readable, GoFoundOK, Visiting, Visit
  PROVE  Visiting'
<1> USE DEF Visit
<1>1. visited' \cup goLeft' = visited \cup goLeft \cup UNION {go.graph[p].imports : p \in {p \in goLeft : Enters(p)}}
  OBVIOUS
<1>2. UNION {go.graph[p].imports : p \in {p \in goLeft : Enters(p)}} \subseteq ReachedPackages
  <2> SUFFICES ASSUME NEW p \in goLeft, Enters(p), NEW q \in go.graph[p].imports PROVE q \in ReachedPackages
    OBVIOUS
  <2>1. p \in ReachedPackages
    BY DEF Visiting
  <2>2. p \in DOMAIN go.graph /\ q \in DOMAIN go.graph
    BY <2>1 DEF ReachedPackages, ModAssumption
  <2>3. ASSUME NEW S \in SUBSET DOMAIN go.graph, ClosedUnderImports(S) PROVE q \in S
    <3>1. p \in S
      BY <2>1, <2>3 DEF ReachedPackages
    <3> QED BY <3>1, <2>3 DEF ClosedUnderImports
  <2> QED BY <2>2, <2>3 DEF ReachedPackages
<1>3. (visited \cup goLeft)' \subseteq ReachedPackages'
  BY <1>1, <1>2, GoStays DEF Visiting
<1>4. go.roots' \subseteq visited' \cup goLeft'
  BY <1>1 DEF Visiting
<1>5. ASSUME NEW p \in visited', Enters(p)' PROVE go.graph'[p].imports \subseteq visited' \cup goLeft'
  <2>1. Enters(p)
    BY <1>5, GoStays
  <2>2. CASE p \in visited
    BY <2>1, <2>2, <1>1 DEF Visiting
  <2>3. CASE p \in goLeft
    BY <2>1, <2>3, <1>1
  <2> QED BY <2>2, <2>3
<1>6. goFound'.packages = {} /\ goFound'.edges = {}
  BY DEF Visiting, GoFoundOK
<1>7. go.usesLib' /\ goAt' = 1
  BY DEF Visiting
<1> QED BY <1>3, <1>4, <1>5, <1>6, <1>7 DEF Visiting

LEMMA AllVisited ==
  ASSUME ModAssumption(go), go.readable, Visiting, goLeft = {}
  PROVE  Loaded
<1>1. visited \in SUBSET DOMAIN go.graph
  BY DEF Visiting, ReachedPackages
<1>2. ClosedUnderImports(visited)
  BY DEF Visiting, ClosedUnderImports
<1>3. ReachedPackages \subseteq visited
  BY <1>1, <1>2 DEF ReachedPackages
<1> QED BY <1>3 DEF Visiting, Loaded

\* A module of a package that enters has the path it is known by.
LEMMA PathOfModule ==
  ASSUME ModAssumption(go), go.readable, NEW p \in DOMAIN go.graph, go.graph[p].module # ""
  PROVE  ModuleOf(p).path = go.graph[p].module
<1> QED BY DEF ModAssumption, ModuleOf

LEMMA UsedOfGraph ==
  ASSUME NEW p \in Used
  PROVE  p \in DOMAIN go.graph /\ go.graph[p].module # "" /\ go.usesLib
<1> QED BY DEF Used, ReachedPackages, Enters, SkipsVisit

LEMMA CatalogKeeps ==
  ASSUME ModAssumption(go), go.readable, GoFoundOK, Visiting, CatalogSources
  PROVE  Loaded' /\ (goFound.packages = UsedIDs /\ SourcesLinked)' /\ goAt' = 1 /\ goPhase' = "require"
<1>1. Loaded /\ Sources = Used
  BY AllVisited, SourcesUsed DEF CatalogSources
<1>2. Loaded' /\ goPhase' = "require" /\ goAt' = 1
  BY <1>1, GoStays DEF CatalogSources, Loaded, Visiting
<1>0. Reported = UsedModules
  BY <1>1 DEF Reported, UsedModules
<1> DEFINE paths == {Replacement(m).path : m \in UsedModules}
           To(m) == (paths \cap ModuleDependencies(Replacement(m).path)) \ {Replacement(m).path}
<1>3. PICK last \in [ReportedPaths -> Reported] :
        /\ \A path \in ReportedPaths : Replacement(last[path]).path = path
        /\ goFound' = [goFound EXCEPT !.packages = {SourceID(m) : m \in Reported}, !.edges = SourceEdges(last)]
  BY DEF CatalogSources
<1>31. last \in [paths -> UsedModules] /\ \A path \in paths : Replacement(last[path]).path = path
  BY <1>0, <1>3 DEF ReportedPaths
<1>4. goFound'.packages = UsedIDs
  BY <1>0, <1>3 DEF GoFoundOK, UsedIDs
<1>50. goFound'.edges = SourceEdges(last)
  BY <1>3 DEF GoFoundOK
<1>5. goFound'.edges = UNION {{<<SourceID(last[path]), SourceID(m)>> : path \in To(m)} : m \in UsedModules}
  BY <1>0, <1>50 DEF SourceEdges, ReportedPaths
<1>6. ASSUME NEW e \in goFound'.edges PROVE {e[1], e[2]} \subseteq UsedIDs
  <2>1. PICK m \in UsedModules : \E path \in To(m) : e = <<SourceID(last[path]), SourceID(m)>>
    BY <1>5
  <2>2. PICK path \in To(m) : e = <<SourceID(last[path]), SourceID(m)>>
    BY <2>1
  <2> QED BY <2>2, <1>31 DEF UsedIDs
<1>7. ASSUME NEW path, NEW m PROVE path \in ModuleDependencies(Replacement(m).path) <=>
        \E p \in Used : /\ Replacement(ModuleOf(p)).path = Replacement(m).path
                        /\ \E q \in go.graph[p].imports : go.graph[q].module # "" /\ ModuleOf(q).path = path
  BY <1>1 DEF ModuleDependencies
<1>8. ASSUME NEW m \in UsedModules, NEW n \in UsedModules, Sole(n)
      PROVE  (<<SourceID(n), SourceID(m)>> \in goFound'.edges) <=> (m # n /\ ImportsFrom(m, n))
  <2>0. PICK p0 \in Used : n = ModuleOf(p0)
    BY DEF UsedModules
  <2>00. n.path # "" /\ Replacement(n) = n
    BY <2>0, UsedOfGraph, PathOfModule, <1>8 DEF Sole, Replacement
  <2>1. ASSUME NEW x \in UsedModules, NEW path \in To(x), <<SourceID(n), SourceID(m)>> = <<SourceID(last[path]), SourceID(x)>>
        PROVE  m # n /\ ImportsFrom(m, n)
    <3>1. Replacement(last[path]).path = path /\ path = n.path /\ Replacement(x).path = Replacement(m).path
      BY <1>31, <2>1, <2>00 DEF SourceID
    <3>2. m # n
      BY <3>1, <2>00
    <3>3. PICK p \in Used : /\ Replacement(ModuleOf(p)).path = Replacement(m).path
                            /\ \E q \in go.graph[p].imports : go.graph[q].module # "" /\ ModuleOf(q).path = path
      <4>1. path \in ModuleDependencies(Replacement(m).path)
        BY <3>1, <2>1
      <4> QED BY <4>1, <1>7
    <3>4. PICK q \in go.graph[p].imports : go.graph[q].module # "" /\ ModuleOf(q).path = path
      BY <3>3
    <3>5. q \in DOMAIN go.graph
      BY UsedOfGraph, <3>4 DEF ModAssumption
    <3>6. go.graph[q].module = n.path
      BY <3>5, <3>4, <3>1, PathOfModule
    <3> QED BY <3>2, <3>3, <3>6 DEF ImportsFrom
  <2>2. ASSUME m # n, ImportsFrom(m, n) PROVE <<SourceID(n), SourceID(m)>> \in goFound'.edges
    <3>1. n.path \in paths /\ n.path # Replacement(m).path
      BY <2>00, <2>2, <1>8 DEF Sole
    <3>2. last[n.path] = n
      BY <3>1, <1>31, <1>8 DEF Sole
    <3>3. PICK p \in Used : /\ Replacement(ModuleOf(p)).path = Replacement(m).path
                            /\ \E q \in go.graph[p].imports : go.graph[q].module = n.path
      BY <2>2 DEF ImportsFrom
    <3>4. PICK q \in go.graph[p].imports : go.graph[q].module = n.path
      BY <3>3
    <3>5. q \in DOMAIN go.graph
      BY UsedOfGraph, <3>4 DEF ModAssumption
    <3>6. ModuleOf(q).path = n.path
      BY <3>5, <3>4, <2>00, PathOfModule
    <3>7. n.path \in To(m)
      BY <3>1, <3>3, <3>4, <3>6, <2>00, <1>7
    <3> QED BY <3>7, <3>2, <1>5
  <2>3. ASSUME <<SourceID(n), SourceID(m)>> \in goFound'.edges PROVE m # n /\ ImportsFrom(m, n)
    BY <2>1, <2>3, <1>5
  <2> QED BY <2>2, <2>3
<1>9. UsedIDs' = UsedIDs /\ UsedModules' = UsedModules /\ (\A m, n : ImportsFrom(m, n)' <=> ImportsFrom(m, n))
      /\ (\A n : Sole(n)' <=> Sole(n)) /\ \A m : SourceID(m)' = SourceID(m)
  BY GoStays DEF CatalogSources, SourceID
<1>10. SourcesLinked'
  BY <1>6, <1>8, <1>9 DEF SourcesLinked
<1> QED BY <1>2, <1>4, <1>9, <1>10

\* A set of numbers that is bounded and not empty has a greatest one.
LEMMA Greatest ==
  ASSUME NEW N \in Nat, NEW T \in SUBSET (1..N), T # {}
  PROVE  \E x \in T : \A y \in T : y <= x
<1> DEFINE R == OpToRel(<, Nat)
           U == {n \in Nat : N - n \in T}
<1>1. IsWellFoundedOn(R, Nat)
  BY NatLessThanWellFounded
<1>2. PICK t \in T : TRUE
  OBVIOUS
<1>3. N - t \in U
  OBVIOUS
<1>4. PICK x \in U : \A y \in U : ~(<<y, x>> \in R)
  <2> HIDE DEF R
  <2> QED BY <1>1, <1>3, WFMin
<1>5. ASSUME NEW y \in T PROVE y <= N - x
  <2>1. N - y \in U /\ N - y \in Nat
    OBVIOUS
  <2>2. ~(N - y < x)
    BY <1>4, <2>1 DEF OpToRel
  <2> QED BY <2>1, <2>2
<1> QED BY <1>5

LEMMA ModSequences ==
  ASSUME ModAssumption(go), go.readable
  PROVE  /\ DOMAIN go.require = 1..Len(go.require) /\ Len(go.require) \in Nat
         /\ DOMAIN go.replaces = 1..Len(go.replaces) /\ Len(go.replaces) \in Nat
<1>1. go.require \in Seq(ToSet(go.require)) /\ go.replaces \in Seq(ToSet(go.replaces))
  BY DEF ModAssumption
<1> QED BY <1>1

LEMMA LastOne ==
  ASSUME ModAssumption(go), go.readable, NEW path \in Required
  PROVE  \E i \in LastRequired : go.require[i].path = path
<1> DEFINE T == {i \in DOMAIN go.require : go.require[i].path = path}
<1>1. DOMAIN go.require = 1..Len(go.require) /\ Len(go.require) \in Nat
  BY ModSequences
<1>2. T # {}
  BY DEF Required
<1>3. PICK i \in T : \A j \in T : j <= i
  BY <1>1, <1>2, Greatest
<1> QED BY <1>3 DEF LastRequired

LEMMA LastIsOne ==
  ASSUME ModAssumption(go), go.readable, NEW i \in LastRequired
  PROVE  /\ go.require[i].path \in Required
         /\ (CHOOSE j \in LastRequired : go.require[j].path = go.require[i].path) = i
<1>1. DOMAIN go.require \subseteq Nat
  BY ModSequences
<1>2. ASSUME NEW j \in LastRequired, go.require[j].path = go.require[i].path PROVE j = i
  BY <1>1, <1>2 DEF LastRequired
<1> QED BY <1>2 DEF LastRequired, Required

\* The entries at first.
LEMMA RequireKeeps ==
  ASSUME ModAssumption(go), go.readable, Loaded, goAt = 1, Require
  PROVE  EntriesKnown' /\ goPhase' = "replace" /\ UNCHANGED <<go, goFound, visited>>
<1>1. goPhase' = "replace" /\ UNCHANGED <<go, goFound, visited>> /\ goAt' = 1
  BY DEF Require
<1> DEFINE LastAt(path) == CHOOSE i \in LastRequired : go.require[i].path = path
<1>2. entries' = [path \in Required \ LoadedPaths |-> go.require[LastAt(path)].version]
  BY DEF Require
<1>3. ASSUME NEW path \in Required PROVE LastAt(path) \in LastRequired /\ go.require[LastAt(path)].path = path
  BY LastOne
<1>4. ASSUME NEW path \in DOMAIN entries' PROVE EntryID(path, entries'[path]) \in EntriesAsked
  BY <1>2, <1>3 DEF EntriesAsked
<1>5. Directives' = {}
  BY <1>1, ModSequences DEF Directives
<1>6. LoadedPaths' = LoadedPaths
  BY <1>1 DEF LoadedPaths, Sources, Enters, SkipsVisit, ModuleOf
<1>7. ReplacedSoFar'
  <2>1. ASSUME NEW i \in LastRequired, go.require[i].path \notin LoadedPaths
        PROVE  /\ go.require[i].path \in DOMAIN entries'
               /\ entries'[go.require[i].path] = go.require[i].version
    BY <2>1, <1>2, LastIsOne
  <2>2. ASSUME NEW path \in DOMAIN entries' PROVE path \notin LoadedPaths
    BY <1>2
  <2>3. LastRequired' = LastRequired /\ go' = go
    BY <1>1, GoStays
  <2> QED BY <2>1, <2>2, <2>3, <1>5, <1>6 DEF ReplacedSoFar
<1>8. goAt' \in 1..(Len(go.replaces') + 1)
  BY <1>1, ModSequences
<1>9. EntriesAsked' = EntriesAsked /\ \A path, v : EntryID(path, v)' = EntryID(path, v)
  BY <1>1, GoStays DEF EntryID
<1>10. (\A path \in DOMAIN entries : EntryID(path, entries[path]) \in EntriesAsked)'
  BY <1>4, <1>9
<1> QED BY <1>1, <1>7, <1>8, <1>10 DEF EntriesKnown

LEMMA ReplaceKeeps ==
  ASSUME ModAssumption(go), go.readable, EntriesKnown, Replace
  PROVE  EntriesKnown' /\ goPhase' = "replace" /\ UNCHANGED <<go, goFound, visited>>
<1> DEFINE m == go.replaces[goAt]
           gone == IF FinalPath(m) = m.path THEN {} ELSE {m.path}
<1>1. /\ goPhase' = "replace" /\ UNCHANGED <<go, goFound, visited>> /\ goAt' = goAt + 1
      /\ goAt \in DOMAIN go.replaces
  BY DEF Replace
<1>2. entries' = [path \in (DOMAIN entries \ gone) \cup {FinalPath(m)} |->
                    IF path = FinalPath(m) THEN Replacement(m).version ELSE entries[path]]
  BY DEF Replace
<1>3. DOMAIN go.replaces = 1..Len(go.replaces) /\ Len(go.replaces) \in Nat /\ goAt \in Nat
  BY ModSequences DEF EntriesKnown
<1> HIDE DEF m, gone
<1>4. Directives' = Directives \cup {goAt} /\ Directives \subseteq DOMAIN go.replaces /\ goAt \notin Directives
  BY <1>1, <1>3 DEF Directives
<1>40. m \in {go.replaces[i] : i \in DOMAIN go.replaces}
  BY <1>1 DEF m
<1>5. ASSUME NEW path \in DOMAIN entries' PROVE EntryID(path, entries'[path]) \in EntriesAsked
  <2>1. CASE path = FinalPath(m)
    BY <2>1, <1>2, <1>40 DEF EntriesAsked
  <2>2. CASE path # FinalPath(m)
    BY <2>2, <1>2 DEF EntriesKnown
  <2> QED BY <2>1, <2>2
<1>6. LoadedPaths' = LoadedPaths
  BY <1>1 DEF LoadedPaths, Sources, Enters, SkipsVisit, ModuleOf
<1>7. ASSUME Unchained PROVE ReplacedSoFar'
  <2>0. ReplacedSoFar
    BY <1>7 DEF EntriesKnown
  <2>00. \A i \in Directives : /\ FinalPath(go.replaces[i]) # m.path
                               /\ FinalPath(go.replaces[i]) # FinalPath(m)
                               /\ go.replaces[i].path # FinalPath(m)
    BY <1>7, <1>4, <1>1 DEF Unchained, m
  <2>1. \A i \in Directives' : /\ FinalPath(go.replaces[i]) \in DOMAIN entries'
                               /\ entries'[FinalPath(go.replaces[i])] = Replacement(go.replaces[i]).version
    <3> SUFFICES ASSUME NEW i \in Directives' PROVE /\ FinalPath(go.replaces[i]) \in DOMAIN entries'
                               /\ entries'[FinalPath(go.replaces[i])] = Replacement(go.replaces[i]).version
      OBVIOUS
    <3>1. CASE i = goAt
      BY <3>1, <1>2 DEF m
    <3>2. CASE i \in Directives
      <4>1. FinalPath(go.replaces[i]) \in DOMAIN entries /\ entries[FinalPath(go.replaces[i])] = Replacement(go.replaces[i]).version
        BY <2>0, <3>2 DEF ReplacedSoFar
      <4> QED BY <4>1, <3>2, <1>2, <2>00 DEF gone
    <3> QED BY <3>1, <3>2, <1>4
  <2>2. ASSUME NEW path \in DOMAIN entries'
        PROVE  \/ \E i \in Directives' : path = FinalPath(go.replaces[i])
               \/ path \notin {go.replaces[i].path : i \in Directives'} \cup LoadedPaths
    <3>1. CASE path = FinalPath(m)
      BY <3>1, <1>4 DEF m
    <3>2. CASE path # FinalPath(m)
      <4>1. path \in DOMAIN entries /\ path # m.path
        BY <3>2, <1>2 DEF gone
      <4>2. CASE \E i \in Directives : path = FinalPath(go.replaces[i])
        BY <4>2, <1>4
      <4>3. CASE path \notin {go.replaces[i].path : i \in Directives} \cup LoadedPaths
        BY <4>1, <4>3, <1>4 DEF m
      <4> QED BY <4>1, <4>2, <4>3, <2>0 DEF ReplacedSoFar
    <3> QED BY <3>1, <3>2
  <2>3. ASSUME NEW i \in LastRequired,
               go.require[i].path \notin
                 LoadedPaths \cup UNION {{go.replaces[j].path, FinalPath(go.replaces[j])} : j \in Directives'}
        PROVE  /\ go.require[i].path \in DOMAIN entries'
               /\ entries'[go.require[i].path] = go.require[i].version
    <3>1. go.require[i].path # m.path /\ go.require[i].path # FinalPath(m)
      BY <2>3, <1>4 DEF m
    <3>2. go.require[i].path \notin
                 LoadedPaths \cup UNION {{go.replaces[j].path, FinalPath(go.replaces[j])} : j \in Directives}
      BY <2>3, <1>4
    <3>3. go.require[i].path \in DOMAIN entries /\ entries[go.require[i].path] = go.require[i].version
      BY <3>2, <2>0 DEF ReplacedSoFar
    <3> QED BY <3>1, <3>3, <1>2 DEF gone
  <2>4. /\ \A x : FinalPath(x)' = FinalPath(x) /\ Replacement(x)' = Replacement(x)
        /\ LastRequired' = LastRequired /\ go' = go
    BY <1>1, GoStays DEF FinalPath, Replacement
  <2> QED BY <2>1, <2>2, <2>3, <2>4, <1>6 DEF ReplacedSoFar
<1>8. goAt' \in 1..(Len(go.replaces') + 1)
  BY <1>1, <1>3
<1>9. EntriesAsked' = EntriesAsked /\ (Unchained' <=> Unchained) /\ \A path, v : EntryID(path, v)' = EntryID(path, v)
  BY <1>1, GoStays DEF EntryID
<1>10. (\A path \in DOMAIN entries : EntryID(path, entries[path]) \in EntriesAsked)'
  BY <1>5, <1>9
<1> QED BY <1>1, <1>7, <1>8, <1>9, <1>10 DEF EntriesKnown

\* What is assembled is what go.mod says.
LEMMA AssembleSays ==
  ASSUME ModAssumption(go), go.readable, GoFoundOK, Loaded, EntriesKnown,
         goFound.packages = UsedIDs, SourcesLinked, Assemble
  PROVE  ModulesRead' /\ Loaded' /\ goPhase' = "end"
<1> DEFINE E == {EntryID(path, entries[path]) : path \in DOMAIN entries \ go.excludes}
<1>1. /\ goPhase' = "end" /\ UNCHANGED <<go, visited>> /\ goAt \notin DOMAIN go.replaces
      /\ goFound' = [goFound EXCEPT !.packages = @ \cup E]
  BY DEF Assemble
<1>2. goFound'.packages = UsedIDs \cup E /\ goFound'.edges = goFound.edges
  BY <1>1 DEF GoFoundOK
<1>3. Loaded'
  BY <1>1, GoStays DEF Loaded
<1>4. Directives = DOMAIN go.replaces
  BY <1>1, ModSequences DEF Directives, EntriesKnown
<1>5. LoadedPaths = {ModuleOf(p).path : p \in Used}
  BY SourcesUsed DEF LoadedPaths
<1>6. /\ \A id \in UsedIDs : id[1] = "source"
      /\ \A id \in E : id[1] = "entry"
  BY DEF UsedIDs, SourceID, EntryID
<1>7. {id \in goFound'.packages : id[1] = "source"} = UsedIDs /\ {id \in goFound'.packages : id[1] = "entry"} = E
  BY <1>2, <1>6
<1>8. E \subseteq EntriesAsked
  BY DEF EntriesKnown
<1>9. \A id \in E : id[2] \notin go.excludes
  BY DEF EntryID
<1>10. ASSUME Unchained, NEW id \in EntriesAsked
       PROVE  id \in E <=>
                /\ id[2] \notin go.excludes
                /\ \/ \E i \in DOMAIN go.replaces :
                        id = EntryID(FinalPath(go.replaces[i]), Replacement(go.replaces[i]).version)
                   \/ id[2] \notin Replaced \cup Replacing \cup LoadedPaths
  <2>0. ReplacedSoFar
    BY <1>10 DEF EntriesKnown
  <2>1. ASSUME id \in E
        PROVE  \/ \E i \in DOMAIN go.replaces :
                        id = EntryID(FinalPath(go.replaces[i]), Replacement(go.replaces[i]).version)
               \/ id[2] \notin Replaced \cup Replacing \cup LoadedPaths
    <3>1. PICK path \in DOMAIN entries : id = EntryID(path, entries[path])
      BY <2>1
    <3>2. CASE \E i \in Directives : path = FinalPath(go.replaces[i])
      <4>1. PICK i \in Directives : path = FinalPath(go.replaces[i])
        BY <3>2
      <4>2. entries[path] = Replacement(go.replaces[i]).version
        BY <4>1, <2>0 DEF ReplacedSoFar
      <4> QED BY <4>1, <4>2, <3>1, <1>4
    <3>3. CASE ~\E i \in Directives : path = FinalPath(go.replaces[i])
      <4>1. path \notin {go.replaces[i].path : i \in Directives} \cup LoadedPaths
        BY <3>3, <2>0 DEF ReplacedSoFar
      <4>2. path \notin Replaced /\ path \notin Replacing /\ id[2] = path
        BY <4>1, <3>3, <3>1, <1>4 DEF Replaced, Replacing, EntryID
      <4> QED BY <4>1, <4>2
    <3> QED BY <3>2, <3>3
  <2>2. ASSUME NEW i \in DOMAIN go.replaces, id[2] \notin go.excludes,
               id = EntryID(FinalPath(go.replaces[i]), Replacement(go.replaces[i]).version)
        PROVE  id \in E
    <3>1. FinalPath(go.replaces[i]) \in DOMAIN entries /\ entries[FinalPath(go.replaces[i])] = Replacement(go.replaces[i]).version
      BY <2>0, <1>4 DEF ReplacedSoFar
    <3>2. id[2] = FinalPath(go.replaces[i])
      BY <2>2 DEF EntryID
    <3> QED BY <2>2, <3>1, <3>2
  <2>3. ASSUME id[2] \notin go.excludes, id[2] \notin Replaced \cup Replacing \cup LoadedPaths
        PROVE  id \in E
    <3>1. ~\E i \in DOMAIN go.replaces : id = EntryID(FinalPath(go.replaces[i]), Replacement(go.replaces[i]).version)
      BY <2>3 DEF EntryID, Replacing
    <3>2. PICK i \in LastRequired : id = EntryID(go.require[i].path, go.require[i].version)
      BY <3>1, <1>10 DEF EntriesAsked
    <3>3. id[2] = go.require[i].path
      BY <3>2 DEF EntryID
    <3>4. go.require[i].path \notin LoadedPaths \cup UNION {{go.replaces[j].path, FinalPath(go.replaces[j])} : j \in Directives}
      BY <2>3, <3>3, <1>4 DEF Replaced, Replacing
    <3>5. go.require[i].path \in DOMAIN entries /\ entries[go.require[i].path] = go.require[i].version
      BY <3>4, <2>0 DEF ReplacedSoFar
    <3> QED BY <2>3, <3>2, <3>3, <3>5
  <2>4. id \in E => id[2] \notin go.excludes
    BY <1>9
  <2> QED BY <2>1, <2>2, <2>3, <2>4
<1> HIDE DEF E
<1>11. /\ UsedIDs' = UsedIDs /\ UsedModules' = UsedModules /\ (\A m, n : ImportsFrom(m, n)' <=> ImportsFrom(m, n))
       /\ (\A n : Sole(n)' <=> Sole(n)) /\ (\A m : SourceID(m)' = SourceID(m)) /\ EntriesAsked' = EntriesAsked
       /\ (Unchained' <=> Unchained) /\ Replaced' = Replaced /\ Replacing' = Replacing /\ Used' = Used
       /\ (\A p : ModuleOf(p)' = ModuleOf(p)) /\ go' = go
  BY <1>1, GoStays DEF SourceID
<1>12. GoEntries' = E
  BY <1>7 DEF GoEntries
<1>13. /\ {id \in goFound'.packages : id[1] = "source"} = {SourceID(m) : m \in UsedModules}'
       /\ \A e \in goFound'.edges : {e[1], e[2]} \subseteq goFound'.packages
  BY <1>2, <1>7, <1>11 DEF UsedIDs, SourcesLinked
<1>14. (\A m \in UsedModules, n \in {n \in UsedModules : Sole(n)} :
         (<<SourceID(n), SourceID(m)>> \in goFound.edges) <=> (m # n /\ ImportsFrom(m, n)))'
  BY <1>2, <1>11 DEF SourcesLinked
<1>15. GoEntries' \subseteq EntriesAsked' /\ \A id \in GoEntries' : id[2] \notin go.excludes'
  BY <1>8, <1>9, <1>11, <1>12
<1>16. (Unchained =>
          \A id \in EntriesAsked :
            id \in GoEntries <=>
              /\ id[2] \notin go.excludes
              /\ \/ \E i \in DOMAIN go.replaces :
                      id = EntryID(FinalPath(go.replaces[i]), Replacement(go.replaces[i]).version)
                 \/ id[2] \notin Replaced \cup Replacing \cup {ModuleOf(p).path : p \in Used})'
  BY <1>5, <1>10, <1>11, <1>12 DEF EntryID
<1>17. ModulesRead'
  BY <1>13, <1>14, <1>15, <1>16 DEF ModulesRead
<1> QED BY <1>1, <1>3, <1>17

-----------------------------------------------------------------------------
(* Binaries.                                                               *)

Built(k) == WithMainModule(go.builds[k])
MainOf(b) == IF b.main = EmptyModule THEN {} ELSE {MainID(b)}
BuildsRead == {k \in DOMAIN go.builds : k < goAt /\ go.builds[k].is = "go"}

\* What was found is what the builds say that were read; of one build all links are there.
BuildsFound ==
  /\ goAt \in 1..(Len(go.builds) + 1)
  /\ goFound.packages = UNION {DependencyIDs(Built(k)) \cup MainOf(Built(k)) : k \in BuildsRead}
  /\ \A e \in goFound.edges : \E k \in BuildsRead : e \in DependencyIDs(Built(k)) \X MainOf(Built(k))
  /\ Cardinality(GoBuilds) = 1 => \A k \in BuildsRead : DependencyIDs(Built(k)) \X MainOf(Built(k)) \subseteq goFound.edges

BinaryInv ==
  /\ goPhase \in {"builds", "end"}
  /\ goPhase = "builds" => BuildsFound
  /\ goPhase = "end" => BinaryRead

LEMMA Removed ==
  ASSUME NEW S, NEW s \in Seq(S), NEW i \in DOMAIN s
  PROVE  /\ \A j \in DOMAIN RemoveAt(s, i) : \E k \in DOMAIN s : k # i /\ RemoveAt(s, i)[j] = s[k]
         /\ \A k \in DOMAIN s : k # i => \E j \in DOMAIN RemoveAt(s, i) : RemoveAt(s, i)[j] = s[k]
<1> DEFINE a == SubSeq(s, 1, i - 1)
           b == SubSeq(s, i + 1, Len(s))
<1>1. /\ a \in Seq(S) /\ Len(a) = i - 1 /\ \A j \in 1..(i - 1) : a[j] = s[j]
      /\ b \in Seq(S) /\ Len(b) = Len(s) - i /\ \A j \in 1..(Len(s) - i) : b[j] = s[i + j]
  OBVIOUS
<1>0. DOMAIN s = 1..Len(s) /\ Len(s) \in Nat /\ i \in 1..Len(s)
  OBVIOUS
<1>2. RemoveAt(s, i) = a \o b
  BY DEF RemoveAt
<1> DEFINE c == a \o b
<1>3. DOMAIN c = 1..(Len(a) + Len(b)) /\ \A j \in 1..(Len(a) + Len(b)) : c[j] = IF j <= Len(a) THEN a[j] ELSE b[j - Len(a)]
  <2> HIDE DEF a, b
  <2> QED BY <1>1
<1>30. DOMAIN c = 1..(Len(s) - 1) /\ \A j \in 1..(Len(s) - 1) : c[j] = IF j < i THEN s[j] ELSE s[j + 1]
  <2> HIDE DEF a, b, c
  <2>1. Len(a) + Len(b) = Len(s) - 1
    BY <1>0, <1>1
  <2>2. ASSUME NEW j \in 1..(Len(s) - 1) PROVE c[j] = IF j < i THEN s[j] ELSE s[j + 1]
    <3>1. CASE j < i
      <4>1. j \in 1..(Len(a) + Len(b)) /\ j <= Len(a) /\ j \in 1..(i - 1)
        BY <3>1, <2>1, <1>0, <1>1
      <4>2. c[j] = a[j]
        BY <4>1, <1>3
      <4>3. a[j] = s[j]
        BY <4>1, <1>1
      <4> QED BY <3>1, <4>2, <4>3
    <3>2. CASE ~(j < i)
      <4>1. j - Len(a) \in 1..(Len(s) - i) /\ c[j] = b[j - Len(a)]
        BY <3>2, <2>1, <1>0, <1>1, <1>3
      <4>2. i + (j - Len(a)) = j + 1
        BY <1>0, <1>1
      <4> QED BY <3>2, <4>1, <4>2, <1>1
    <3> QED BY <3>1, <3>2
  <2> QED BY <1>3, <2>1, <2>2
<1> HIDE DEF a, b, c
<1>4. ASSUME NEW j \in DOMAIN c PROVE \E k \in DOMAIN s : k # i /\ c[j] = s[k]
  <2>1. CASE j < i
    BY <2>1, <1>0, <1>30
  <2>2. CASE ~(j < i)
    <3>1. j + 1 \in DOMAIN s /\ j + 1 # i /\ c[j] = s[j + 1]
      BY <2>2, <1>0, <1>30
    <3> QED BY <3>1
  <2> QED BY <2>1, <2>2
<1>5. ASSUME NEW k \in DOMAIN s, k # i PROVE \E j \in DOMAIN c : c[j] = s[k]
  <2>1. CASE k < i
    BY <2>1, <1>0, <1>30
  <2>2. CASE k > i
    <3>1. k - 1 \in DOMAIN c /\ c[k - 1] = s[k]
      BY <2>2, <1>0, <1>30
    <3> QED BY <3>1
  <2> QED BY <1>5, <1>0, <2>1, <2>2
<1> QED BY <1>2, <1>4, <1>5 DEF c

\* A build with its main module: what is there of the build, and that the main
\* module is none of its dependencies.
LEMMA BuiltSays ==
  ASSUME NEW b, BuildAssumption(b), NEW w, w = WithMainModule(b)
  PROVE  /\ IsModule(w.main) /\ w.main.replace = <<>> /\ w.arch = b.arch
         /\ \A d \in ToSet(w.deps) : FinalPath(d) # "" /\ (FinalPath(d) = w.main.path => d = w.main)
         /\ \A d \in ToSet(b.deps) : d = w.main \/ d \in ToSet(w.deps)
         /\ b.main # EmptyModule \/ b.path # "" => w.main # EmptyModule
<1>0. b.deps \in Seq(ToSet(b.deps)) /\ {"main", "deps", "arch"} \subseteq DOMAIN b
  BY DEF BuildAssumption
<1>00. \A d \in ToSet(b.deps) :
         /\ IsModule(d) /\ FinalPath(d) # ""
         /\ FinalPath(d) = b.main.path => d = b.main
         /\ FinalPath(d) = b.path => d.version = Devel
         /\ d.version = Devel => /\ d.replace = <<>>
                                /\ \A e \in ToSet(b.deps) : FinalPath(e) = d.path => e = d
  BY DEF BuildAssumption
<1>000. EmptyModule.path = "" /\ EmptyModule.version = "" /\ Devel # ""
  BY DEF EmptyModule, Devel
<1>1. CASE ~MissingMain(b)
  <2>1. w = b
    BY <1>1 DEF WithMainModule
  <2>2. b.main # EmptyModule \/ b.path # "" => b.main # EmptyModule
    BY <1>1 DEF MissingMain
  <2>3. IsModule(b.main) /\ b.main.replace = <<>>
    BY DEF BuildAssumption
  <2> QED BY <2>1, <2>2, <2>3, <1>00
<1>2. CASE MissingMain(b) /\ Cardinality(MainCandidates(b)) = 1
  <2> DEFINE i == CHOOSE i \in MainCandidates(b) : TRUE
             m == b.deps[i]
  <2>1. MainCandidates(b) = {i}
    <3>1. IsFiniteSet(DOMAIN b.deps)
      BY <1>0, FS_Interval
    <3>2. IsFiniteSet(MainCandidates(b))
      BY <3>1, FS_Subset DEF MainCandidates
    <3>3. \E x : MainCandidates(b) = {x}
      BY <1>2, <3>2, FS_Singleton
    <3> QED BY <3>3
  <2>2. w = [b EXCEPT !.main = m, !.deps = RemoveAt(@, i)]
    BY <1>2 DEF WithMainModule
  <2> HIDE DEF i
  <2>3. i \in DOMAIN b.deps /\ m \in ToSet(b.deps) /\ m.version = Devel
    BY <2>1 DEF MainCandidates, ToSet
  <2>4. w.main = m /\ w.deps = RemoveAt(b.deps, i) /\ w.arch = b.arch
    BY <2>2, <1>0
  <2>5. ASSUME NEW d \in ToSet(w.deps) PROVE d \in ToSet(b.deps) /\ d # m
    <3>1. PICK j \in DOMAIN w.deps : d = w.deps[j]
      BY DEF ToSet
    <3>2. PICK k \in DOMAIN b.deps : k # i /\ w.deps[j] = b.deps[k]
      BY <2>3, <2>4, <1>0, Removed
    <3>3. d = b.deps[k] /\ d.version # Devel
      BY <3>1, <3>2, <2>1 DEF MainCandidates
    <3> QED BY <2>3, <3>3 DEF ToSet
  <2>6. ASSUME NEW d \in ToSet(b.deps), d # m PROVE d \in ToSet(w.deps)
    <3>1. PICK k \in DOMAIN b.deps : d = b.deps[k]
      BY DEF ToSet
    <3>2. PICK j \in DOMAIN w.deps : w.deps[j] = b.deps[k]
      BY <3>1, <2>6, <2>4, <2>3, <1>0, Removed
    <3> QED BY <3>1, <3>2 DEF ToSet
  <2> HIDE DEF m
  <2>7. IsModule(m) /\ m.replace = <<>> /\ m # EmptyModule
    BY <2>3, <1>00, <1>000
  <2>8. ASSUME NEW d \in ToSet(w.deps) PROVE FinalPath(d) # "" /\ FinalPath(d) # m.path
    BY <2>5, <2>3, <1>00
  <2> QED BY <2>4, <2>6, <2>7, <2>8
<1>3. CASE MissingMain(b) /\ Cardinality(MainCandidates(b)) # 1
  <2> DEFINE m == [path |-> b.path, version |-> Devel, replace |-> <<>>]
  <2>1. w = [b EXCEPT !.main = m]
    BY <1>3 DEF WithMainModule
  <2>2. m.path = b.path /\ m.version = Devel /\ m.replace = <<>> /\ IsModule(m)
    BY DEF IsModule
  <2>3. ASSUME NEW d, IsModule(d), d.path = b.path, d.version = Devel, d.replace = <<>> PROVE d = m
    BY <2>3 DEF IsModule
  <2> HIDE DEF m
  <2>4. w.main = m /\ w.deps = b.deps /\ w.arch = b.arch
    BY <2>1, <1>0
  <2>5. m # EmptyModule
    BY <2>2, <1>000
  <2>6. ASSUME NEW d \in ToSet(b.deps), FinalPath(d) = m.path PROVE d = m
    <3>1. IsModule(d) /\ d.version = Devel /\ d.replace = <<>>
      BY <2>6, <2>2, <1>00
    <3>2. FinalPath(d) = d.path
      BY <3>1 DEF FinalPath, Replacement
    <3> QED BY <3>1, <3>2, <2>2, <2>3, <2>6
  <2> QED BY <2>2, <2>4, <2>5, <2>6, <1>00
<1> QED BY <1>1, <1>2, <1>3

LEMMA BuiltAs ==
  ASSUME BinaryAssumption(go), NEW k \in DOMAIN go.builds, go.builds[k].is = "go"
  PROVE  BuildAssumption(go.builds[k])
<1> QED BY DEF BinaryAssumption

LEMMA BuildSequence ==
  ASSUME BinaryAssumption(go)
  PROVE  DOMAIN go.builds = 1..Len(go.builds) /\ Len(go.builds) \in Nat
<1>1. go.builds \in Seq(ToSet(go.builds))
  BY DEF BinaryAssumption
<1> QED BY <1>1

\* One build is the same wherever it is read.
LEMMA OneBuild ==
  ASSUME BinaryAssumption(go), Cardinality(GoBuilds) = 1,
         NEW j \in DOMAIN go.builds, NEW k \in DOMAIN go.builds, go.builds[j].is = "go", go.builds[k].is = "go"
  PROVE  go.builds[j] = go.builds[k]
<1> DEFINE K == {i \in DOMAIN go.builds : go.builds[i].is = "go"}
<1>1. IsFiniteSet(K)
  <2>1. IsFiniteSet(1..Len(go.builds))
    BY BuildSequence, FS_Interval
  <2> QED BY <2>1, BuildSequence, FS_Subset
<1>2. IsFiniteSet(GoBuilds)
  <2> DEFINE f == [i \in K |-> go.builds[i]]
  <2>1. GoBuilds = {go.builds[i] : i \in K}
    BY DEF GoBuilds
  <2> HIDE DEF K
  <2>2. f \in Surjection(K, GoBuilds)
    BY <2>1 DEF Surjection
  <2> QED BY <1>1, <2>2, FS_Surjection
<1>3. PICK x : GoBuilds = {x}
  BY <1>2, FS_Singleton
<1> QED BY <1>3 DEF GoBuilds

LEMMA BinaryStays ==
  ASSUME UNCHANGED go
  PROVE  /\ \A k : Built(k)' = Built(k)
         /\ \A b : DependencyIDs(b)' = DependencyIDs(b) /\ MainOf(b)' = MainOf(b) /\ Firsts(b)' = Firsts(b)
         /\ GoBuilds' = GoBuilds
<1>1. \A b : MainVersion(b)' = MainVersion(b)
  BY DEF MainVersion
<1>2. \A b : MainID(b)' = MainID(b)
  BY <1>1 DEF MainID, BinaryID
<1>3. \A k : Built(k)' = Built(k)
  BY DEF Built
<1>4. \A b : DependencyIDs(b)' = DependencyIDs(b) /\ MainOf(b)' = MainOf(b)
  BY <1>2 DEF DependencyIDs, MainOf
<1>5. \A b : Firsts(b)' = Firsts(b)
  BY <1>2 DEF Firsts
<1>6. GoBuilds' = GoBuilds
  BY DEF GoBuilds
<1> QED BY <1>3, <1>4, <1>5, <1>6

LEMMA ReadBuildKeeps ==
  ASSUME BinaryAssumption(go), GoFoundOK, BuildsFound, ReadBuild
  PROVE  BuildsFound' /\ goPhase' = "builds" /\ UNCHANGED go /\ GoFoundOK'
<1>1. goPhase' = "builds" /\ UNCHANGED go /\ goAt' = goAt + 1 /\ goAt \in DOMAIN go.builds
  BY DEF ReadBuild
<1>2. DOMAIN go.builds = 1..Len(go.builds) /\ Len(go.builds) \in Nat /\ goAt \in Nat
  BY BuildSequence DEF BuildsFound
<1>3. goAt' \in 1..(Len(go.builds') + 1)
  BY <1>1, <1>2
<1> DEFINE w == Built(goAt)
           Found(k) == DependencyIDs(Built(k)) \cup MainOf(Built(k))
           Links(k) == DependencyIDs(Built(k)) \X MainOf(Built(k))
<1>4. CASE go.builds[goAt].is # "go"
  <2>1. BuildsRead' = BuildsRead
    BY <1>1, <1>2, <1>4 DEF BuildsRead
  <2>2. goFound' = goFound
    BY <1>4 DEF ReadBuild
  <2> QED BY <1>1, <1>3, <2>1, <2>2, BinaryStays DEF BuildsFound, GoFoundOK
<1>5. CASE go.builds[goAt].is = "go"
  <2>1. BuildsRead' = BuildsRead \cup {goAt} /\ BuildsRead \subseteq DOMAIN go.builds
    BY <1>1, <1>2, <1>5 DEF BuildsRead
  <2>2. goFound' = [packages |-> goFound.packages \cup DependencyIDs(w) \cup MainOf(w),
                    edges |-> IF MainOf(w) = {} THEN goFound.edges ELSE DependencyIDs(w) \X MainOf(w),
                    errors |-> goFound.errors + Cardinality(w.unknown)]
    BY <1>5 DEF ReadBuild, Built, MainOf
  <2>3. goFound'.packages = goFound.packages \cup DependencyIDs(w) \cup MainOf(w)
        /\ goFound'.edges = (IF MainOf(w) = {} THEN goFound.edges ELSE DependencyIDs(w) \X MainOf(w)) /\ GoFoundOK'
    BY <2>2 DEF GoFoundOK
  <2> HIDE DEF w
  <2>4. goFound'.packages = UNION {Found(k) : k \in BuildsRead'}
    <3>1. goFound.packages = UNION {Found(k) : k \in BuildsRead}
      BY DEF BuildsFound
    <3>2. goFound'.packages = goFound.packages \cup Found(goAt)
      BY <2>3 DEF w
    <3> HIDE DEF Found
    <3> QED BY <2>1, <3>1, <3>2
  <2>5. ASSUME NEW e \in goFound'.edges PROVE \E k \in BuildsRead' : e \in Links(k)
    <3>1. CASE MainOf(w) = {}
      <4>1. \E k \in BuildsRead : e \in Links(k)
        BY <2>3, <3>1, <2>5 DEF BuildsFound
      <4> QED BY <4>1, <2>1
    <3>2. CASE MainOf(w) # {}
      BY <2>1, <2>3, <3>2, <2>5 DEF w
    <3> QED BY <3>1, <3>2
  <2>6. ASSUME Cardinality(GoBuilds) = 1, NEW k \in BuildsRead' PROVE Links(k) \subseteq goFound'.edges
    <3>1. go.builds[k] = go.builds[goAt]
      <4>1. k \in DOMAIN go.builds /\ go.builds[k].is = "go"
        BY <2>1, <1>1, <1>5 DEF BuildsRead
      <4> QED BY <4>1, <1>1, <1>5, <2>6, OneBuild
    <3>2. Links(k) = DependencyIDs(w) \X MainOf(w)
      BY <3>1 DEF Built, w
    <3> QED BY <3>2, <2>3
  <2>7. (goFound.packages = UNION {DependencyIDs(Built(k)) \cup MainOf(Built(k)) : k \in BuildsRead})'
    BY <2>4, <1>1, BinaryStays
  <2>8. (\A e \in goFound.edges : \E k \in BuildsRead : e \in DependencyIDs(Built(k)) \X MainOf(Built(k)))'
    BY <2>5, <1>1, BinaryStays
  <2>9. (Cardinality(GoBuilds) = 1 =>
          \A k \in BuildsRead : DependencyIDs(Built(k)) \X MainOf(Built(k)) \subseteq goFound.edges)'
    BY <2>6, <1>1, BinaryStays
  <2> QED BY <1>1, <1>3, <2>3, <2>7, <2>8, <2>9 DEF BuildsFound
<1> QED BY <1>4, <1>5

\* What a dependency and what a main module is reported as.
LEMMA DependencyIs ==
  ASSUME NEW w, NEW id \in DependencyIDs(w)
  PROVE  /\ id[1] = "binary" /\ id[3] # Devel /\ id[4] = w.main.path /\ id[5] = w.arch
         /\ \E d \in ToSet(w.deps) : d # w.main /\ id[2] = FinalPath(d)
<1>1. PICK i \in DOMAIN w.deps : w.deps[i] # w.main /\ id = BinaryID(w, w.deps[i])
  BY DEF DependencyIDs
<1>2. id[3] = Released(Replacement(w.deps[i]).version)
  BY <1>1 DEF BinaryID
<1> QED BY <1>1, <1>2 DEF BinaryID, Released, Devel, ToSet

LEMMA MainIs ==
  ASSUME NEW w, IsModule(w.main), w.main.replace = <<>>
  PROVE  LET id == MainID(w)
         IN  id[1] = "binary" /\ id[2] = w.main.path /\ id[3] # Devel /\ id[4] = w.main.path /\ id[5] = w.arch
<1> DEFINE m == [w.main EXCEPT !.version = MainVersion(w)]
<1>1. m.path = w.main.path /\ m.replace = <<>>
  BY DEF IsModule
<1> HIDE DEF m
<1>2. FinalPath(m) = w.main.path
  BY <1>1 DEF FinalPath, Replacement
<1>3. MainID(w) = <<"binary", FinalPath(m), Released(Replacement(m).version), w.main.path, w.arch>>
  BY DEF MainID, BinaryID, m
<1>4. \A v : Released(v) # Devel
  BY DEF Released, Devel
<1> QED BY <1>2, <1>3, <1>4

LEMMA EmptyPath == FinalPath(EmptyModule) = ""
<1>1. EmptyModule.path = "" /\ EmptyModule.replace = <<>>
  BY DEF EmptyModule
<1> QED BY <1>1 DEF FinalPath, Replacement

LEMMA MainIsIn ==
  ASSUME NEW w
  PROVE  MainOf(w) \subseteq {MainID(w)} /\ (w.main # EmptyModule => MainOf(w) = {MainID(w)})
<1> QED BY DEF MainOf

\* What the Go library is linked to was found.
LEMMA FirstsFound ==
  ASSUME NEW w, NEW id \in Firsts(w)
  PROVE  id \in DependencyIDs(w) \cup MainOf(w)
<1>1. CASE w.main # EmptyModule
  BY <1>1 DEF Firsts, MainOf
<1>2. CASE w.main = EmptyModule
  <2>1. PICK i \in DOMAIN w.deps : FinalPath(w.deps[i]) # "" /\ id = BinaryID(w, w.deps[i])
    BY <1>2 DEF Firsts
  <2>2. w.deps[i] # w.main
    BY <1>2, <2>1, EmptyPath
  <2> QED BY <2>1, <2>2 DEF DependencyIDs
<1> QED BY <1>1, <1>2

LEMMA FoundInOne ==
  ASSUME NEW b, BuildAssumption(b), NEW w, w = WithMainModule(b), NEW id \in DependencyIDs(w) \cup MainOf(w)
  PROVE  /\ id[1] = "binary" /\ id[3] # Devel /\ id[4] = w.main.path /\ id[5] = w.arch
         /\ id \in DependencyIDs(w) => id[2] # id[4]
         /\ id \in MainOf(w) => id[2] = id[4]
<1>0. /\ IsModule(w.main) /\ w.main.replace = <<>>
  BY BuiltSays
<1>1. \A d \in ToSet(w.deps) : FinalPath(d) = w.main.path => d = w.main
  BY BuiltSays
<1>2. CASE id \in DependencyIDs(w)
  <2>1. PICK d \in ToSet(w.deps) : d # w.main /\ id[2] = FinalPath(d)
    BY <1>2, DependencyIs
  <2>2. id[2] # id[4]
    BY <1>0, <1>1, <1>2, <2>1, DependencyIs
  <2>3. id \notin MainOf(w)
    BY <1>0, <1>1, <2>2, <1>2, DependencyIs, MainIsIn, MainIs
  <2> QED BY <1>2, <2>2, <2>3, DependencyIs
<1>3. CASE id \notin DependencyIDs(w)
  <2>1. id = MainID(w)
    BY <1>3, MainIsIn
  <2> QED BY <1>0, <1>3, <2>1, MainIs
<1> QED BY <1>2, <1>3

\* What one build says is true of all that was found in it.
LEMMA FoundIn ==
  ASSUME BinaryAssumption(go), NEW k \in BuildsRead, NEW id \in DependencyIDs(Built(k)) \cup MainOf(Built(k))
  PROVE  /\ id[1] = "binary" /\ id[3] # Devel /\ id[5] = Built(k).arch
         /\ id \in DependencyIDs(Built(k)) => id[2] # id[4]
         /\ id \in MainOf(Built(k)) => id[2] = id[4]
<1>1. BuildAssumption(go.builds[k])
  BY BuiltAs DEF BuildsRead
<1> QED BY <1>1, FoundInOne DEF Built

\* Every module that is linked in is found, and the main module if a build says which.
LEMMA BuildIs ==
  ASSUME NEW b, BuildAssumption(b), NEW w, w = WithMainModule(b)
  PROVE  /\ \A d \in ToSet(b.deps) : \E id \in DependencyIDs(w) \cup MainOf(w) : id[2] = FinalPath(d) /\ id[5] = b.arch
         /\ b.main # EmptyModule \/ b.path # "" => \E id \in MainOf(w) : id[4] = id[2] /\ id[5] = b.arch
<1>1. /\ IsModule(w.main) /\ w.main.replace = <<>> /\ w.arch = b.arch
      /\ \A d \in ToSet(b.deps) : d = w.main \/ d \in ToSet(w.deps)
      /\ b.main # EmptyModule \/ b.path # "" => w.main # EmptyModule
  BY BuiltSays
<1>2. LET id == MainID(w) IN id[2] = w.main.path /\ id[4] = w.main.path /\ id[5] = w.arch
  BY <1>1, MainIs
<1>3. ASSUME NEW d \in ToSet(b.deps)
      PROVE  \E id \in DependencyIDs(w) \cup MainOf(w) : id[2] = FinalPath(d) /\ id[5] = b.arch
  <2>0. FinalPath(d) # ""
    BY DEF BuildAssumption
  <2>1. CASE d = w.main
    <3>1. w.main # EmptyModule
      BY <2>0, <2>1, EmptyPath
    <3>2. FinalPath(d) = w.main.path
      BY <1>1, <2>1 DEF FinalPath, Replacement
    <3>3. MainID(w) \in MainOf(w)
      BY <3>1, MainIsIn
    <3> QED BY <1>1, <1>2, <3>2, <3>3
  <2>2. CASE d # w.main
    <3>1. PICK i \in DOMAIN w.deps : w.deps[i] = d
      BY <1>1, <2>2 DEF ToSet
    <3>2. BinaryID(w, d) \in DependencyIDs(w)
      BY <3>1, <2>0, <2>2 DEF DependencyIDs
    <3>3. LET id == BinaryID(w, d) IN id[2] = FinalPath(d) /\ id[5] = w.arch
      BY DEF BinaryID
    <3> QED BY <1>1, <3>2, <3>3
  <2> QED BY <2>1, <2>2
<1>4. ASSUME w.main # EmptyModule PROVE \E id \in MainOf(w) : id[4] = id[2] /\ id[5] = b.arch
  <2>1. MainID(w) \in MainOf(w)
    BY <1>4, MainIsIn
  <2> QED BY <2>1, <1>1, <1>2
<1> QED BY <1>1, <1>3, <1>4

\* All builds were read: what was found is what they say.
LEMMA AllFound ==
  ASSUME BinaryAssumption(go), BuildsFound, goAt \notin DOMAIN go.builds
  PROVE  /\ \A id \in goFound.packages : id[1] = "binary" /\ id[3] # Devel
         /\ \A b \in GoBuilds : \A d \in ToSet(b.deps) :
              \E id \in goFound.packages : id[2] = FinalPath(d) /\ id[5] = b.arch
         /\ \A b \in {b \in GoBuilds : b.main # EmptyModule \/ b.path # ""} :
              \E id \in goFound.packages : id[4] = id[2] /\ id[5] = b.arch
         /\ \A e \in goFound.edges : /\ {e[1], e[2]} \subseteq goFound.packages
                                     /\ e[1] # e[2] /\ e[1][5] = e[2][5]
         /\ Cardinality(GoBuilds) = 1 =>
              \A id, d \in goFound.packages : (id[4] = id[2] /\ d # id) => <<d, id>> \in goFound.edges
<1> DEFINE P == goFound.packages
           E == goFound.edges
           Found(k) == DependencyIDs(Built(k)) \cup MainOf(Built(k))
<1>1. BuildsRead = {k \in DOMAIN go.builds : go.builds[k].is = "go"}
  <2>1. \A k \in DOMAIN go.builds : k < goAt
    BY BuildSequence DEF BuildsFound
  <2> QED BY <2>1 DEF BuildsRead
<1>2. P = UNION {Found(k) : k \in BuildsRead}
  BY DEF BuildsFound
<1>3. \A k \in BuildsRead : Found(k) \subseteq P
  BY <1>2
<1>4. ASSUME NEW id \in P PROVE id[1] = "binary" /\ id[3] # Devel
  <2>1. PICK k \in BuildsRead : id \in Found(k)
    BY <1>2
  <2> QED BY <2>1, FoundIn
<1>5. \A b \in GoBuilds : \E k \in BuildsRead : b = go.builds[k]
  BY <1>1 DEF GoBuilds
<1>6. ASSUME NEW b \in GoBuilds, NEW d \in ToSet(b.deps)
      PROVE  \E id \in P : id[2] = FinalPath(d) /\ id[5] = b.arch
  <2>1. PICK k \in BuildsRead : b = go.builds[k]
    BY <1>5
  <2>2. BuildAssumption(b) /\ Built(k) = WithMainModule(b)
    BY <2>1, BuiltAs DEF BuildsRead, Built
  <2>3. \E id \in Found(k) : id[2] = FinalPath(d) /\ id[5] = b.arch
    BY <2>2, BuildIs
  <2> QED BY <2>3, <1>3
<1>7. ASSUME NEW b \in GoBuilds, b.main # EmptyModule \/ b.path # ""
      PROVE  \E id \in P : id[4] = id[2] /\ id[5] = b.arch
  <2>1. PICK k \in BuildsRead : b = go.builds[k]
    BY <1>5
  <2>2. BuildAssumption(b) /\ Built(k) = WithMainModule(b)
    BY <2>1, BuiltAs DEF BuildsRead, Built
  <2>3. \E id \in Found(k) : id[4] = id[2] /\ id[5] = b.arch
    BY <2>2, <1>7, BuildIs
  <2> QED BY <2>3, <1>3
<1>8. ASSUME NEW e \in E PROVE {e[1], e[2]} \subseteq P /\ e[1] # e[2] /\ e[1][5] = e[2][5]
  <2>1. PICK k \in BuildsRead : e \in DependencyIDs(Built(k)) \X MainOf(Built(k))
    BY DEF BuildsFound
  <2>2. e[1] \in DependencyIDs(Built(k)) /\ e[2] \in MainOf(Built(k))
    BY <2>1
  <2>3. e[1][2] # e[1][4] /\ e[2][2] = e[2][4] /\ e[1][5] = e[2][5]
    BY <2>2, FoundIn
  <2> QED BY <2>2, <2>3, <1>3
<1>9. ASSUME Cardinality(GoBuilds) = 1, NEW id \in P, NEW d \in P, id[4] = id[2], d # id
      PROVE  <<d, id>> \in E
  <2>1. PICK k \in BuildsRead : id \in Found(k)
    BY <1>2
  <2>2. PICK j \in BuildsRead : d \in Found(j)
    BY <1>2
  <2>3. Built(j) = Built(k)
    BY <2>1, <2>2, <1>9, OneBuild DEF Built, BuildsRead
  <2>4. id \in MainOf(Built(k))
    BY <2>1, <1>9, FoundIn
  <2>5. d \notin MainOf(Built(k))
    BY <2>4, <1>9, MainIsIn
  <2>6. <<d, id>> \in DependencyIDs(Built(k)) \X MainOf(Built(k))
    BY <2>2, <2>3, <2>4, <2>5
  <2> QED BY <2>6, <1>9 DEF BuildsFound
<1> QED BY <1>4, <1>6, <1>7, <1>8, <1>9

LEMMA StdlibKeeps ==
  ASSUME BinaryAssumption(go), GoFoundOK, BuildsFound, AddStdlib
  PROVE  BinaryRead' /\ goPhase' = "end" /\ UNCHANGED go /\ GoFoundOK'
<1> DEFINE known == {i \in DOMAIN go.builds : /\ go.builds[i].is = "go"
                                              /\ go.builds[i].goVersion \notin OddVersions
                                              /\ Firsts(WithMainModule(go.builds[i])) # {}}
           first == {i \in known : \A j \in known : i <= j}
           T == {StdlibID(go.builds[i].goVersion) : i \in first}
           G == UNION {{StdlibID(go.builds[i].goVersion)} \X Firsts(WithMainModule(go.builds[i])) : i \in first}
           P == goFound.packages
           E == goFound.edges
           modules == {id \in goFound'.packages : id[1] = "binary"}
<1>1. goPhase' = "end" /\ UNCHANGED go /\ goAt \notin DOMAIN go.builds
  BY DEF AddStdlib
<1>2. goFound' = [goFound EXCEPT !.packages = @ \cup T, !.edges = @ \cup G]
  BY DEF AddStdlib
<1>3. first \subseteq DOMAIN go.builds /\ DOMAIN go.builds \subseteq Nat /\ \A i, j \in first : i <= j
  <2>1. known \subseteq DOMAIN go.builds
    OBVIOUS
  <2> HIDE DEF known
  <2>2. first \subseteq known /\ \A i, j \in first : i <= j
    OBVIOUS
  <2> QED BY <2>1, <2>2, BuildSequence
<1>30. \A i \in first : go.builds[i].is = "go"
  OBVIOUS
<1>4. \A g \in G : \E i \in first : g[1] = StdlibID(go.builds[i].goVersion) /\ g[2] \in Firsts(Built(i))
  BY DEF Built
<1>5. \A x \in T : \E i \in first : x = StdlibID(go.builds[i].goVersion)
  OBVIOUS
<1>6. \A i \in first : StdlibID(go.builds[i].goVersion) \in T
  OBVIOUS
<1> HIDE DEF known, first, T, G
<1>7. goFound'.packages = P \cup T /\ goFound'.edges = E \cup G /\ GoFoundOK'
  BY <1>2 DEF GoFoundOK
<1>8. /\ \A id \in P : id[1] = "binary" /\ id[3] # Devel
      /\ \A b \in GoBuilds : \A d \in ToSet(b.deps) :
           \E id \in P : id[2] = FinalPath(d) /\ id[5] = b.arch
      /\ \A b \in {b \in GoBuilds : b.main # EmptyModule \/ b.path # ""} :
           \E id \in P : id[4] = id[2] /\ id[5] = b.arch
      /\ \A e \in E : {e[1], e[2]} \subseteq P /\ e[1] # e[2] /\ e[1][5] = e[2][5]
      /\ Cardinality(GoBuilds) = 1 => \A id, d \in P : (id[4] = id[2] /\ d # id) => <<d, id>> \in E
  BY <1>1, AllFound
<1>9. \A x \in T : x[1] = "stdlib"
  BY <1>5 DEF StdlibID
<1>10. modules = P
  BY <1>7, <1>8, <1>9
<1>11. Cardinality({id \in goFound'.packages : id[1] = "stdlib"}) <= 1
  <2>1. {id \in goFound'.packages : id[1] = "stdlib"} = T
    BY <1>7, <1>8, <1>9
  <2>2. \A i, j \in first : i = j
    BY <1>3
  <2>3. \A x, y \in T : x = y
    BY <1>5, <2>2
  <2>4. CASE T = {}
    BY <2>1, <2>4, FS_EmptySet
  <2>5. CASE T # {}
    <3>1. PICK x : T = {x}
      BY <2>3, <2>5
    <3>2. Cardinality(T) = 1
      BY <3>1, FS_Singleton
    <3> QED BY <2>1, <3>2
  <2> QED BY <2>4, <2>5
<1>12. ASSUME NEW g \in G PROVE g[1] \in T /\ g[2] \in P /\ g[1] # g[2] /\ g[1][1] # "binary"
  <2>1. PICK i \in first : g[1] = StdlibID(go.builds[i].goVersion) /\ g[2] \in Firsts(Built(i))
    BY <1>4
  <2>2. i \in BuildsRead
    BY <1>1, <1>3, <1>30, BuildSequence DEF BuildsFound, BuildsRead
  <2>3. g[2] \in P
    BY <2>1, <2>2, FirstsFound DEF BuildsFound
  <2>4. g[1] \in T
    BY <2>1, <1>6
  <2>5. g[1][1] = "stdlib" /\ g[2][1] = "binary"
    BY <2>3, <2>4, <1>8, <1>9
  <2> QED BY <2>3, <2>4, <2>5
<1>13. \A e \in goFound'.edges : /\ {e[1], e[2]} \subseteq goFound'.packages /\ e[1] # e[2]
                                 /\ e[1][1] = "binary" => e[1][5] = e[2][5]
  <2> SUFFICES ASSUME NEW e \in goFound'.edges
               PROVE  /\ {e[1], e[2]} \subseteq goFound'.packages /\ e[1] # e[2]
                      /\ e[1][1] = "binary" => e[1][5] = e[2][5]
    OBVIOUS
  <2>1. CASE e \in E
    BY <2>1, <1>7, <1>8
  <2>2. CASE e \in G
    BY <2>2, <1>7, <1>12
  <2> QED BY <2>1, <2>2, <1>7
<1> HIDE DEF modules
<1>14. \A b \in GoBuilds : \A d \in ToSet(b.deps) : \E id \in modules : id[2] = FinalPath(d) /\ id[5] = b.arch
  BY <1>8, <1>10
<1>15. GoBuilds' = GoBuilds
  BY <1>1, BinaryStays
<1>16. Cardinality(GoBuilds) = 1 => \A id, d \in modules : (id[4] = id[2] /\ d # id) => <<d, id>> \in goFound'.edges
  BY <1>7, <1>8, <1>10
<1>17. /\ \A id \in modules : id[3] # Devel
       /\ \A b \in {b \in GoBuilds : b.main # EmptyModule \/ b.path # ""} :
            \E id \in modules : id[4] = id[2] /\ id[5] = b.arch
  BY <1>8, <1>10
<1> QED BY <1>1, <1>7, <1>11, <1>13, <1>14, <1>15, <1>16, <1>17 DEF BinaryRead, modules

LEMMA RefuseBinaryKeeps ==
  ASSUME BinaryAssumption(go), GoFoundOK, BuildsFound, RefuseBinary
  PROVE  BinaryRead' /\ goPhase' = "end" /\ UNCHANGED go /\ GoFoundOK'
<1>1. goPhase' = "end" /\ UNCHANGED go /\ go.builds = <<>> /\ goFound' = [goFound EXCEPT !.errors = 1]
  BY DEF RefuseBinary, BinaryAssumption
<1>2. DOMAIN go.builds = {}
  BY <1>1
<1>3. BuildsRead = {} /\ GoBuilds = {}
  BY <1>2 DEF BuildsRead, GoBuilds
<1>4. goFound.packages = {} /\ goFound.edges = {}
  BY <1>3 DEF BuildsFound
<1>5. goFound'.packages = {} /\ goFound'.edges = {} /\ GoFoundOK'
  BY <1>1, <1>4 DEF GoFoundOK
<1>6. GoBuilds' = {}
  BY <1>1, <1>3, BinaryStays
<1>7. Cardinality({}) = 0
  BY FS_EmptySet
<1>8. {id \in goFound'.packages : id[1] = "stdlib"} = {} /\ Cardinality(GoBuilds') = 0
  BY <1>5, <1>6, <1>7
<1>9. BinaryRead'
  BY <1>5, <1>6, <1>7, <1>8 DEF BinaryRead
<1> QED BY <1>1, <1>5, <1>9

-----------------------------------------------------------------------------
(* The search for licenses.                                                *)

GoHas(place) == Enabled(place) /\ go.has[place] # {}

\* The answer there has to be: of the first place, or what was kept of the proxies.
RightAnswer(l) ==
  /\ \A i \in FirstPlace : l = go.has[LicensePlaces[i]]
  /\ FirstPlace = {} => IF Enabled("remote") THEN search.cached = <<l>> ELSE l = {}

SearchOK ==
  search = [fsys |-> search.fsys, failed |-> search.failed, licenses |-> search.licenses, temp |-> search.temp,
            asked |-> search.asked, cached |-> search.cached, answers |-> search.answers]

\* Places before this one have none.
PlacesPassed ==
  /\ goPhase \in {"source", "cache", "vendor", "remote", "proxies", "answer", "end"}
  /\ goPhase \in {"cache", "vendor", "remote", "proxies"} => ~GoHas("source")
  /\ goPhase \in {"vendor", "remote", "proxies"} => ~GoHas("cache")
  /\ goPhase \in {"remote", "proxies"} => ~GoHas("vendor")

\* Proxies are asked once, if no place has any; a temp file is there only after one that has it.
ProxiesAsked ==
  /\ search.asked = IF search.cached # <<>> \/ goPhase = "proxies" THEN 1 ELSE 0
  /\ search.cached = <<>> \/ \E l : search.cached = <<l>>
  /\ search.cached # <<>> \/ goPhase = "proxies" => FirstPlace = {} /\ Enabled("remote")
  /\ goPhase = "proxies" =>
       /\ search.cached = <<>> /\ goAt \in Nat \ {0}
       /\ search.fsys = "zip" => goAt - 1 \in DOMAIN Proxies /\ Proxies[goAt - 1].is = "http"
  /\ search.temp = IF goPhase = "proxies" /\ search.fsys = "zip" THEN 1 ELSE 0

\* The answers are those there have to be.
AnswersAlike ==
  /\ goPhase = "answer" => RightAnswer(search.licenses)
  /\ IF goPhase = "end" THEN \E l : search.answers[1] = l /\ search.answers[2] = l /\ RightAnswer(l)
     ELSE search.answers = <<>> \/ \E l : search.answers = <<l>> /\ RightAnswer(l)

SearchInv == SearchOK /\ PlacesPassed /\ ProxiesAsked /\ AnswersAlike

LEMMA SearchStays ==
  ASSUME UNCHANGED go
  PROVE  /\ \A p : (Enabled(p)' <=> Enabled(p)) /\ (GoHas(p)' <=> GoHas(p))
         /\ FirstPlace' = FirstPlace /\ Proxies' = Proxies
<1>1. \A p : (Enabled(p)' <=> Enabled(p)) /\ (GoHas(p)' <=> GoHas(p))
  BY DEF Enabled, GoHas
<1>2. FirstPlace' = FirstPlace
  BY <1>1 DEF FirstPlace
<1> QED BY <1>1, <1>2 DEF Proxies

\* The first place that has some.
LEMMA FirstPlaceIs ==
  FirstPlace = IF GoHas("source") THEN {1} ELSE IF GoHas("cache") THEN {2} ELSE IF GoHas("vendor") THEN {3} ELSE {}
<1> DEFINE having == {i \in 1..3 : Enabled(LicensePlaces[i]) /\ go.has[LicensePlaces[i]] # {}}
<1>1. having = {i \in 1..3 : GoHas(LicensePlaces[i])}
  BY DEF GoHas
<1>2. LicensePlaces[1] = "source" /\ LicensePlaces[2] = "cache" /\ LicensePlaces[3] = "vendor"
  BY DEF LicensePlaces
<1>3. 1..3 = {1, 2, 3}
  OBVIOUS
<1>4. (1 \in having <=> GoHas("source")) /\ (2 \in having <=> GoHas("cache")) /\ (3 \in having <=> GoHas("vendor"))
      /\ having \subseteq {1, 2, 3}
  BY <1>1, <1>2, <1>3
<1>5. FirstPlace = {i \in having : \A j \in having : i <= j}
  BY DEF FirstPlace
<1> HIDE DEF having
<1>6. \A i \in FirstPlace : i \in having /\ i \in {1, 2, 3} /\ \A j \in having : i <= j
  BY <1>4, <1>5
<1>7. ASSUME GoHas("source") PROVE FirstPlace = {1}
  <2>1. 1 \in having /\ \A j \in having : 1 <= j
    BY <1>4, <1>7
  <2>2. 1 \in FirstPlace
    BY <2>1, <1>5
  <2>3. \A i \in FirstPlace : i = 1
    BY <2>1, <1>6
  <2> QED BY <2>2, <2>3
<1>8. ASSUME ~GoHas("source"), GoHas("cache") PROVE FirstPlace = {2}
  <2>1. 2 \in having /\ \A j \in having : 2 <= j
    BY <1>4, <1>8
  <2>2. 2 \in FirstPlace
    BY <2>1, <1>5
  <2>3. \A i \in FirstPlace : i = 2
    BY <2>1, <1>4, <1>6, <1>8
  <2> QED BY <2>2, <2>3
<1>9. ASSUME ~GoHas("source"), ~GoHas("cache"), GoHas("vendor") PROVE FirstPlace = {3}
  <2>1. 3 \in having /\ \A j \in having : 3 <= j
    BY <1>4, <1>9
  <2>2. 3 \in FirstPlace
    BY <2>1, <1>5
  <2>3. \A i \in FirstPlace : i = 3
    BY <1>4, <1>6, <1>9
  <2> QED BY <2>2, <2>3
<1>10. ASSUME ~GoHas("source"), ~GoHas("cache"), ~GoHas("vendor") PROVE FirstPlace = {}
  BY <1>4, <1>6, <1>10
<1> QED BY <1>7, <1>8, <1>9, <1>10

\* A place that has none is passed by.
LEMMA PlaceKeeps ==
  ASSUME SearchAssumption(go), SearchInv, SearchPlace
  PROVE  SearchInv' /\ UNCHANGED <<go, goFound>>
<1> DEFINE found == IF Enabled(goPhase) THEN go.has[goPhase] ELSE {}
<1>1. UNCHANGED <<go, goFound>> /\ goPhase \in {"source", "cache", "vendor"} /\ search' = [search EXCEPT !.licenses = found]
      /\ goPhase' = IF found # {} THEN "answer" ELSE After(goPhase)
  BY DEF SearchPlace
<1>2. found # {} <=> GoHas(goPhase)
  BY DEF GoHas
<1>3. found # {} => found = go.has[goPhase]
  OBVIOUS
<1> HIDE DEF found
<1>4. search' = [fsys |-> search.fsys, failed |-> search.failed, licenses |-> found, temp |-> search.temp,
                 asked |-> search.asked, cached |-> search.cached, answers |-> search.answers]
  BY <1>1 DEF SearchInv, SearchOK, PlacesPassed, ProxiesAsked, AnswersAlike
<1>5. \A l : RightAnswer(l)' <=> RightAnswer(l)
  BY <1>1, <1>4, SearchStays DEF RightAnswer
<1>6. search.asked = (IF search.cached # <<>> THEN 1 ELSE 0) /\ search.temp = 0
  BY <1>1 DEF SearchInv, SearchOK, PlacesPassed, ProxiesAsked, AnswersAlike
<1>7. search.answers = <<>> \/ \E l : search.answers = <<l>> /\ RightAnswer(l)
  BY <1>1 DEF SearchInv, SearchOK, PlacesPassed, ProxiesAsked, AnswersAlike
<1>8. CASE found # {}
  <2>1. goPhase' = "answer"
    BY <1>1, <1>8
  <2>2. FirstPlace = IF goPhase = "source" THEN {1} ELSE IF goPhase = "cache" THEN {2} ELSE {3}
    BY <1>1, <1>2, <1>8, FirstPlaceIs DEF SearchInv, SearchOK, PlacesPassed, ProxiesAsked, AnswersAlike
  <2>3. RightAnswer(found)
    <3>1. \A i \in FirstPlace : LicensePlaces[i] = goPhase
      BY <1>1, <2>2 DEF LicensePlaces
    <3> QED BY <3>1, <2>2, <1>3, <1>8 DEF RightAnswer
  <2>4. search.cached = <<>>
    BY <2>2 DEF SearchInv, SearchOK, PlacesPassed, ProxiesAsked, AnswersAlike
  <2> QED BY <1>1, <1>4, <1>5, <1>6, <1>7, <2>1, <2>3, <2>4 DEF SearchInv, SearchOK, PlacesPassed, ProxiesAsked, AnswersAlike
<1>9. CASE found = {}
  <2>1. goPhase' = After(goPhase) /\ ~GoHas(goPhase)
    BY <1>1, <1>2, <1>9
  <2>2. goPhase' = (IF goPhase = "source" THEN "cache" ELSE IF goPhase = "cache" THEN "vendor" ELSE "remote")
    BY <1>1, <2>1 DEF After
  <2>3. /\ goPhase' \in {"cache", "vendor", "remote"} => ~GoHas("source")
        /\ goPhase' \in {"vendor", "remote"} => ~GoHas("cache")
        /\ goPhase' \in {"remote"} => ~GoHas("vendor")
    BY <1>1, <2>1, <2>2 DEF SearchInv, SearchOK, PlacesPassed, ProxiesAsked, AnswersAlike
  <2>4. goPhase' \in {"cache", "vendor", "remote"}
    BY <1>1, <2>2
  <2>5. (search.cached = <<>> \/ \E l : search.cached = <<l>>) /\ (search.cached # <<>> => FirstPlace = {} /\ Enabled("remote"))
    BY DEF SearchInv, SearchOK, PlacesPassed, ProxiesAsked, AnswersAlike
  <2> QED BY <1>1, <1>4, <1>5, <1>6, <1>7, <2>3, <2>4, <2>5, SearchStays DEF SearchInv, SearchOK, PlacesPassed, ProxiesAsked, AnswersAlike
<1> QED BY <1>1, <1>8, <1>9

LEMMA RemoteKeeps ==
  ASSUME SearchAssumption(go), SearchInv, SearchRemote
  PROVE  SearchInv' /\ UNCHANGED <<go, goFound>>
<1>1. UNCHANGED <<go, goFound>> /\ goPhase = "remote"
  BY DEF SearchRemote
<1>2. FirstPlace = {}
  BY <1>1, FirstPlaceIs DEF SearchInv, SearchOK, PlacesPassed, ProxiesAsked, AnswersAlike
<1>3. search.temp = 0 /\ search.asked = (IF search.cached # <<>> THEN 1 ELSE 0)
  BY <1>1 DEF SearchInv, SearchOK, PlacesPassed, ProxiesAsked, AnswersAlike
<1>4. search.answers = <<>> \/ \E l : search.answers = <<l>> /\ RightAnswer(l)
  BY <1>1 DEF SearchInv, SearchOK, PlacesPassed, ProxiesAsked, AnswersAlike
<1>5. search.cached = <<>> \/ \E l : search.cached = <<l>>
  BY DEF SearchInv, SearchOK, PlacesPassed, ProxiesAsked, AnswersAlike
<1>6. CASE ~Enabled("remote") \/ search.cached # <<>>
  <2> DEFINE licenses == IF Enabled("remote") THEN search.cached[1] ELSE {}
  <2>1. goPhase' = "answer" /\ search' = [search EXCEPT !.licenses = licenses]
    BY <1>6 DEF SearchRemote
  <2>2. RightAnswer(licenses)
    <3>1. CASE Enabled("remote")
      <4>1. PICK l : search.cached = <<l>>
        BY <1>5, <1>6, <3>1
      <4>2. licenses = l
        BY <3>1, <4>1
      <4> QED BY <1>2, <3>1, <4>1, <4>2 DEF RightAnswer
    <3>2. CASE ~Enabled("remote")
      BY <1>2, <3>2 DEF RightAnswer
    <3> QED BY <3>1, <3>2
  <2> HIDE DEF licenses
  <2>3. search' = [fsys |-> search.fsys, failed |-> search.failed, licenses |-> licenses, temp |-> search.temp,
                   asked |-> search.asked, cached |-> search.cached, answers |-> search.answers]
    BY <2>1 DEF SearchInv, SearchOK, PlacesPassed, ProxiesAsked, AnswersAlike
  <2>4. \A l : RightAnswer(l)' <=> RightAnswer(l)
    BY <1>1, <2>3, SearchStays DEF RightAnswer
  <2>5. search.cached # <<>> => FirstPlace = {} /\ Enabled("remote")
    BY DEF SearchInv, SearchOK, PlacesPassed, ProxiesAsked, AnswersAlike
  <2> QED BY <1>1, <1>3, <1>4, <1>5, <2>1, <2>2, <2>3, <2>4, <2>5, SearchStays DEF SearchInv, SearchOK, PlacesPassed, ProxiesAsked, AnswersAlike
<1>7. CASE Enabled("remote") /\ search.cached = <<>>
  <2>1. goPhase' = "proxies" /\ goAt' = 1 /\ search' = [search EXCEPT !.fsys = "none", !.failed = FALSE, !.asked = @ + 1]
    BY <1>7 DEF SearchRemote
  <2>2. search' = [fsys |-> "none", failed |-> FALSE, licenses |-> search.licenses, temp |-> search.temp,
                   asked |-> search.asked + 1, cached |-> search.cached, answers |-> search.answers]
    BY <2>1 DEF SearchInv, SearchOK, PlacesPassed, ProxiesAsked, AnswersAlike
  <2>3. search'.asked = 1 /\ search'.temp = 0
    BY <1>3, <1>7, <2>2
  <2>4. \A l : RightAnswer(l)' <=> RightAnswer(l)
    BY <1>1, <2>2, SearchStays DEF RightAnswer
  <2>5. ~GoHas("source") /\ ~GoHas("cache") /\ ~GoHas("vendor")
    BY <1>1 DEF SearchInv, SearchOK, PlacesPassed, ProxiesAsked, AnswersAlike
  <2>6. SearchOK' /\ AnswersAlike'
    BY <1>4, <2>1, <2>2, <2>4 DEF SearchOK, AnswersAlike
  <2>7. PlacesPassed'
    BY <1>1, <2>1, <2>5, SearchStays DEF PlacesPassed
  <2>8. search'.cached = <<>> /\ search'.fsys = "none" /\ FirstPlace' = {} /\ Enabled("remote")'
    BY <1>1, <1>2, <1>7, <2>2, SearchStays
  <2>9. ProxiesAsked'
    BY <2>1, <2>3, <2>8 DEF ProxiesAsked
  <2> QED BY <1>1, <2>6, <2>7, <2>9 DEF SearchInv
<1> QED BY <1>6, <1>7

LEMMA ProxyKeeps ==
  ASSUME SearchAssumption(go), SearchInv, AskProxy
  PROVE  SearchInv' /\ UNCHANGED <<go, goFound>>
<1> DEFINE proxy == Proxies[goAt]
           fsys == IF proxy.is = "file" THEN "directory"
                   ELSE IF ~proxy.ok THEN "none" ELSE [direct |-> "repository", http |-> "zip"][proxy.is]
           failed == IF proxy.is = "file" THEN search.failed ELSE ~proxy.ok
           temp == IF proxy.is = "http" /\ proxy.ok THEN search.temp + 1 ELSE search.temp
<1>1. /\ UNCHANGED <<go, goFound, goPhase>> /\ goPhase = "proxies" /\ goAt' = goAt + 1 /\ AsksOn
      /\ search' = [search EXCEPT !.fsys = fsys, !.failed = failed, !.licenses = proxy.licenses, !.temp = temp]
  BY DEF AskProxy
<1>2. proxy.is \in {"file", "http", "direct"} /\ goAt \in DOMAIN Proxies
  <2>1. goAt \in DOMAIN Proxies
    BY <1>1 DEF AsksOn
  <2>2. CASE go.private
    <3>1. Proxies = <<go.repository>>
      BY <2>2 DEF Proxies
    <3>2. proxy = go.repository
      BY <2>1, <3>1
    <3> QED BY <2>1, <3>2 DEF SearchAssumption
  <2>3. CASE ~go.private
    <3>1. Proxies = go.proxies
      BY <2>3 DEF Proxies
    <3> QED BY <2>1, <3>1 DEF SearchAssumption
  <2> QED BY <2>2, <2>3
<1>3. search.fsys # "zip"
  BY <1>1 DEF AsksOn, SearchInv, ProxiesAsked
<1>4. search.temp = 0 /\ search.asked = 1 /\ search.cached = <<>> /\ goAt \in Nat \ {0} /\ FirstPlace = {} /\ Enabled("remote")
  BY <1>1, <1>3 DEF SearchInv, SearchOK, PlacesPassed, ProxiesAsked, AnswersAlike
<1>5. fsys = "zip" <=> proxy.is = "http" /\ proxy.ok
  BY <1>2
<1>6. temp = IF fsys = "zip" THEN 1 ELSE 0
  BY <1>4, <1>5
<1> HIDE DEF fsys, failed, temp
<1>7. search' = [fsys |-> fsys, failed |-> failed, licenses |-> proxy.licenses, temp |-> temp,
                 asked |-> search.asked, cached |-> search.cached, answers |-> search.answers]
  BY <1>1 DEF SearchInv, SearchOK, PlacesPassed, ProxiesAsked, AnswersAlike
<1>8. goAt' - 1 = goAt /\ goAt' \in Nat \ {0}
  BY <1>1, <1>4
<1>9. fsys = "zip" => proxy.is = "http"
  BY <1>5
<1>10. \A l : RightAnswer(l)' <=> RightAnswer(l)
  BY <1>1, <1>7, SearchStays DEF RightAnswer
<1>11. search.answers = <<>> \/ \E l : search.answers = <<l>> /\ RightAnswer(l)
  BY <1>1 DEF SearchInv, SearchOK, PlacesPassed, ProxiesAsked, AnswersAlike
<1>12. ~GoHas("source") /\ ~GoHas("cache") /\ ~GoHas("vendor")
  BY <1>1 DEF SearchInv, SearchOK, PlacesPassed, ProxiesAsked, AnswersAlike
<1>13. fsys = "zip" => goAt' - 1 \in DOMAIN Proxies' /\ Proxies'[goAt' - 1].is = "http"
  BY <1>1, <1>2, <1>8, <1>9, SearchStays
<1> HIDE DEF proxy
<1> QED BY <1>1, <1>4, <1>6, <1>7, <1>8, <1>10, <1>11, <1>12, <1>13, SearchStays DEF SearchInv, SearchOK, PlacesPassed, ProxiesAsked, AnswersAlike

LEMMA EndRemoteKeeps ==
  ASSUME SearchAssumption(go), SearchInv, EndRemote
  PROVE  SearchInv' /\ UNCHANGED <<go, goFound>>
<1> DEFINE licenses == IF search.failed THEN {} ELSE search.licenses
           temp == IF search.fsys = "zip" THEN search.temp - 1 ELSE search.temp
<1>1. /\ UNCHANGED <<go, goFound>> /\ goPhase = "proxies" /\ goPhase' = "answer"
      /\ search' = [search EXCEPT !.licenses = licenses, !.cached = <<licenses>>, !.temp = temp]
  BY DEF EndRemote
<1>2. search.asked = 1 /\ search.cached = <<>> /\ FirstPlace = {} /\ Enabled("remote")
  BY <1>1 DEF SearchInv, SearchOK, PlacesPassed, ProxiesAsked, AnswersAlike
<1>3. temp = 0
  BY <1>1 DEF SearchInv, SearchOK, PlacesPassed, ProxiesAsked, AnswersAlike
<1>4. search.answers = <<>>
  BY <1>1, <1>2 DEF SearchInv, SearchOK, PlacesPassed, ProxiesAsked, AnswersAlike, RightAnswer
<1> HIDE DEF licenses, temp
<1>5. search' = [fsys |-> search.fsys, failed |-> search.failed, licenses |-> licenses, temp |-> temp,
                 asked |-> search.asked, cached |-> <<licenses>>, answers |-> search.answers]
  BY <1>1 DEF SearchInv, SearchOK, PlacesPassed, ProxiesAsked, AnswersAlike
<1>6. FirstPlace' = {} /\ Enabled("remote")'
  BY <1>1, <1>2, SearchStays
<1>7. RightAnswer(search.licenses)'
  BY <1>5, <1>6 DEF RightAnswer
<1>8. search'.cached = <<licenses>> /\ search'.cached # <<>> /\ search'.asked = 1 /\ search'.temp = 0
  BY <1>2, <1>3, <1>5
<1>9. ProxiesAsked'
  BY <1>1, <1>6, <1>8 DEF ProxiesAsked
<1>10. SearchOK' /\ search'.answers = <<>>
  BY <1>4, <1>5 DEF SearchOK
<1>11. AnswersAlike' /\ PlacesPassed'
  BY <1>1, <1>7, <1>10 DEF AnswersAlike, PlacesPassed
<1> QED BY <1>1, <1>9, <1>10, <1>11 DEF SearchInv

LEMMA TwoAnswers ==
  ASSUME NEW x, NEW y
  PROVE  Len(<<x>>) = 1 /\ Append(<<x>>, y)[1] = x /\ Append(<<x>>, y)[2] = y /\ Len(<<>>) = 0 /\ Append(<<>>, y) = <<y>>
<1>1. <<x>> \in Seq({x, y})
  OBVIOUS
<1>2. Len(<<x>>) = 1 /\ Len(<<>>) = 0
  OBVIOUS
<1>3. Append(<<x>>, y)[1] = x /\ Append(<<x>>, y)[2] = y
  BY <1>1, <1>2
<1> QED BY <1>2, <1>3

LEMMA AnswerKeeps ==
  ASSUME SearchAssumption(go), SearchInv, AnswerSearch
  PROVE  SearchInv' /\ UNCHANGED <<go, goFound>>
<1>1. /\ UNCHANGED <<go, goFound>> /\ goPhase = "answer"
      /\ search' = [search EXCEPT !.answers = Append(@, search.licenses)]
      /\ goPhase' = IF Len(search.answers) = 0 THEN "source" ELSE "end"
  BY DEF AnswerSearch
<1> DEFINE answers == Append(search.answers, search.licenses)
<1>2. search' = [fsys |-> search.fsys, failed |-> search.failed, licenses |-> search.licenses, temp |-> search.temp,
                 asked |-> search.asked, cached |-> search.cached, answers |-> answers]
  BY <1>1 DEF SearchInv, SearchOK, PlacesPassed, ProxiesAsked, AnswersAlike
<1>3. RightAnswer(search.licenses) /\ search.temp = 0 /\ search.asked = (IF search.cached # <<>> THEN 1 ELSE 0)
      /\ (search.cached = <<>> \/ \E l : search.cached = <<l>>)
      /\ (search.cached # <<>> => FirstPlace = {} /\ Enabled("remote"))
  BY <1>1 DEF SearchInv, SearchOK, PlacesPassed, ProxiesAsked, AnswersAlike
<1>4. search.answers = <<>> \/ \E l : search.answers = <<l>> /\ RightAnswer(l)
  BY <1>1 DEF SearchInv, SearchOK, PlacesPassed, ProxiesAsked, AnswersAlike
<1> HIDE DEF answers
<1>5. \A l : RightAnswer(l)' <=> RightAnswer(l)
  BY <1>1, <1>2, SearchStays DEF RightAnswer
<1>6. CASE search.answers = <<>>
  <2>1. goPhase' = "source" /\ answers = <<search.licenses>>
    BY <1>1, <1>6 DEF answers
  <2>0. PICK l : l = search.licenses
    OBVIOUS
  <2>2. search'.answers = <<l>> /\ RightAnswer(l)' /\ RightAnswer(l)
    BY <1>2, <1>3, <1>5, <2>0, <2>1
  <2>3. AnswersAlike'
    <3>1. goPhase' # "end" /\ goPhase' # "answer"
      BY <2>1
    <3>2. \E a : search'.answers = <<a>> /\ RightAnswer(a)'
      BY <2>2
    <3> QED BY <3>1, <3>2 DEF AnswersAlike
  <2>4. SearchOK' /\ PlacesPassed' /\ ProxiesAsked'
    BY <1>1, <1>2, <1>3, <2>1, SearchStays DEF SearchOK, PlacesPassed, ProxiesAsked
  <2> QED BY <1>1, <2>3, <2>4 DEF SearchInv
<1>7. CASE search.answers # <<>>
  <2>1. PICK l : search.answers = <<l>> /\ RightAnswer(l)
    BY <1>4, <1>7
  <2>2. goPhase' = "end" /\ answers[1] = l /\ answers[2] = search.licenses
    BY <1>1, <2>1, TwoAnswers DEF answers
  <2>3. l = search.licenses
    <3>1. CASE FirstPlace # {}
      BY <2>1, <1>3, <3>1 DEF RightAnswer
    <3>2. CASE FirstPlace = {} /\ Enabled("remote")
      <4>1. search.cached = <<l>> /\ search.cached = <<search.licenses>>
        BY <2>1, <1>3, <3>2 DEF RightAnswer
      <4>2. <<l>>[1] = <<search.licenses>>[1]
        BY <4>1
      <4> QED BY <4>2
    <3>3. CASE FirstPlace = {} /\ ~Enabled("remote")
      BY <2>1, <1>3, <3>3 DEF RightAnswer
    <3> QED BY <3>1, <3>2, <3>3
  <2>4. search'.answers[1] = l /\ search'.answers[2] = l /\ RightAnswer(l)'
    BY <1>2, <1>3, <1>5, <2>2, <2>3
  <2>5. AnswersAlike'
    BY <2>2, <2>4 DEF AnswersAlike
  <2>6. SearchOK' /\ PlacesPassed' /\ ProxiesAsked'
    BY <1>1, <1>2, <1>3, <2>2, SearchStays DEF SearchOK, PlacesPassed, ProxiesAsked
  <2> QED BY <1>1, <2>5, <2>6 DEF SearchInv
<1> QED BY <1>6, <1>7

\* The invariant says what is asked of the search.
LEMMA SearchEnds ==
  ASSUME SearchInv, goPhase = "end"
  PROVE  LicensesSearched
<1>1. PICK l : search.answers[1] = l /\ search.answers[2] = l /\ RightAnswer(l)
  BY DEF SearchInv, SearchOK, PlacesPassed, ProxiesAsked, AnswersAlike
<1>2. search.temp = 0 /\ search.asked = (IF search.cached # <<>> THEN 1 ELSE 0)
      /\ (search.cached # <<>> => FirstPlace = {} /\ Enabled("remote"))
  BY DEF SearchInv, SearchOK, PlacesPassed, ProxiesAsked, AnswersAlike
<1>30. Len(<<l>>) = 1 /\ Len(<<>>) = 0
  OBVIOUS
<1>3. FirstPlace = {} /\ Enabled("remote") => search.cached # <<>>
  <2> SUFFICES ASSUME FirstPlace = {}, Enabled("remote") PROVE search.cached # <<>>
    OBVIOUS
  <2>1. search.cached = <<l>>
    BY <1>1 DEF RightAnswer
  <2> QED BY <2>1, <1>30
<1>4. \A i \in FirstPlace : search.answers[1] = go.has[LicensePlaces[i]]
  BY <1>1 DEF RightAnswer
<1>5. search.answers[1] = search.answers[2]
  BY <1>1
<1> QED BY <1>2, <1>3, <1>4, <1>5 DEF LicensesSearched

-----------------------------------------------------------------------------
(* All that is read.                                                       *)

GoInv ==
  /\ go \in GoFiles /\ GoFoundOK
  /\ go.kind = "mod" => IF go.readable THEN ModInv ELSE goPhase \in {"unreadable", "end"}
  /\ go.kind = "binary" => BinaryInv
  /\ go.kind = "licenses" => SearchInv

LEMMA GoInitially == GoInit => GoInv
<1> SUFFICES ASSUME GoInit PROVE GoInv
  OBVIOUS
<1> USE DEF GoInit
<1>1. go \in GoFiles /\ goFound.packages = {} /\ goFound.edges = {} /\ goAt = 1 /\ visited = {} /\ GoFoundOK
  BY DEF GoFoundOK
<1>2. ASSUME go.kind = "mod" PROVE IF go.readable THEN ModInv ELSE goPhase \in {"unreadable", "end"}
  <2>1. goPhase = IF ~go.readable THEN "unreadable" ELSE IF go.usesLib THEN "visit" ELSE "require"
    BY <1>2 DEF FirstPhase
  <2>2. CASE ~go.readable
    BY <2>1, <2>2
  <2>3. CASE go.readable /\ go.usesLib
    <3>1. goPhase = "visit" /\ goLeft = go.roots /\ FirstPhase = "visit"
      BY <2>1, <2>3
    <3>2. go.roots \subseteq ReachedPackages
      <4>1. go.roots \subseteq DOMAIN go.graph
        BY <1>2, <2>3, ModOf DEF ModAssumption
      <4> QED BY <4>1 DEF ReachedPackages, ClosedUnderImports
    <3>3. Visiting
      BY <1>1, <2>3, <3>1, <3>2 DEF Visiting
    <3> QED BY <2>3, <3>1, <3>3 DEF ModInv
  <2>4. CASE go.readable /\ ~go.usesLib
    <3>1. goPhase = "require"
      BY <2>1, <2>4
    <3>2. UsedModules = {} /\ UsedIDs = {}
      BY <2>4 DEF Used, UsedModules, UsedIDs
    <3>3. Loaded /\ SourcesLinked
      BY <1>1, <2>4, <3>2 DEF Loaded, SourcesLinked
    <3> QED BY <1>1, <2>4, <3>1, <3>2, <3>3 DEF ModInv
  <2> QED BY <2>2, <2>3, <2>4
<1>3. ASSUME go.kind = "binary" PROVE BinaryInv
  <2>1. goPhase = "builds"
    BY <1>3 DEF FirstPhase
  <2>2. BinaryAssumption(go)
    BY <1>1, <1>3, GoFilesAssumption
  <2>3. BuildsRead = {}
    BY <1>1, <2>2, BuildSequence DEF BuildsRead
  <2>4. BuildsFound
    BY <1>1, <2>2, <2>3, BuildSequence DEF BuildsFound
  <2> QED BY <2>1, <2>4 DEF BinaryInv
<1>4. ASSUME go.kind = "licenses" PROVE SearchInv
  <2>1. goPhase = "source"
    BY <1>4 DEF FirstPhase
  <2>2. search.cached = <<>> /\ search.temp = 0 /\ search.asked = 0 /\ search.answers = <<>> /\ SearchOK
    BY DEF SearchOK
  <2> QED BY <2>1, <2>2 DEF SearchInv, PlacesPassed, ProxiesAsked, AnswersAlike
<1> QED BY <1>1, <1>2, <1>3, <1>4 DEF GoInv

LEMMA ModStep ==
  ASSUME go \in GoFiles, GoFoundOK, go.kind = "mod", go.readable, ModInv, GoNext
  PROVE  UNCHANGED go /\ GoFoundOK' /\ ModInv'
<1>1. ModAssumption(go)
  BY ModOf
<1>2. CASE Visit
  <2>1. Visiting' /\ goPhase' = "visit" /\ UNCHANGED go /\ goFound' = [goFound EXCEPT !.errors = @ + Cardinality({p \in goLeft : go.graph[p].broken})]
    BY <1>1, <1>2, VisitKeeps DEF Visit, ModInv
  <2> QED BY <2>1 DEF ModInv, GoFoundOK
<1>3. CASE CatalogSources
  <2>1. PICK found, links : UNCHANGED go /\ goFound' = [goFound EXCEPT !.packages = found, !.edges = links]
    BY <1>3 DEF CatalogSources
  <2>2. GoFoundOK'
    BY <2>1 DEF GoFoundOK
  <2>3. Loaded' /\ (goFound.packages = UsedIDs /\ SourcesLinked)' /\ goAt' = 1 /\ goPhase' = "require"
    BY <1>1, <1>3, CatalogKeeps DEF CatalogSources, ModInv
  <2> QED BY <2>1, <2>2, <2>3 DEF ModInv
<1>4. CASE Require \/ Replace
  <2>1. goPhase \in {"require", "replace"} /\ Loaded /\ goFound.packages = UsedIDs /\ SourcesLinked
    BY <1>4 DEF ModInv, Require, Replace
  <2>2. EntriesKnown' /\ goPhase' = "replace" /\ UNCHANGED <<go, goFound, visited>>
    BY <1>1, <1>4, <2>1, RequireKeeps, ReplaceKeeps DEF ModInv, Require, Replace
  <2>3. Loaded' /\ (goFound.packages = UsedIDs)' /\ GoFoundOK'
    BY <2>1, <2>2, GoStays DEF Loaded, GoFoundOK
  <2>4. SourcesLinked'
    BY <2>1, <2>2, GoStays DEF SourcesLinked, SourceID
  <2> QED BY <2>2, <2>3, <2>4 DEF ModInv
<1>5. CASE Assemble
  <2>1. PICK found : UNCHANGED go /\ goFound' = [goFound EXCEPT !.packages = found]
    BY <1>5 DEF Assemble
  <2>2. GoFoundOK'
    BY <2>1 DEF GoFoundOK
  <2>3. ModulesRead' /\ Loaded' /\ goPhase' = "end"
    BY <1>1, <1>5, AssembleSays DEF Assemble, ModInv
  <2> QED BY <2>1, <2>2, <2>3 DEF ModInv
<1>6. ~(RefuseMod \/ ReadBuild \/ RefuseBinary \/ AddStdlib \/ SearchPlace \/ SearchRemote \/ AskProxy \/ EndRemote \/ AnswerSearch)
  BY DEF ModInv, RefuseMod, ReadBuild, RefuseBinary, AddStdlib, SearchPlace, SearchRemote, AskProxy, EndRemote, AnswerSearch
<1> QED BY <1>2, <1>3, <1>4, <1>5, <1>6 DEF GoNext

LEMMA RefusedStep ==
  ASSUME GoFoundOK, goPhase \in {"unreadable", "end"}, GoNext
  PROVE  UNCHANGED go /\ GoFoundOK' /\ goPhase' = "end"
<1>1. ~(\/ Visit \/ CatalogSources \/ Require \/ Replace \/ Assemble \/ ReadBuild \/ RefuseBinary \/ AddStdlib
        \/ SearchPlace \/ SearchRemote \/ AskProxy \/ EndRemote \/ AnswerSearch)
  BY DEF Visit, CatalogSources, Require, Replace, Assemble, ReadBuild, RefuseBinary, AddStdlib,
         SearchPlace, SearchRemote, AskProxy, EndRemote, AnswerSearch
<1>2. RefuseMod
  BY <1>1 DEF GoNext
<1> QED BY <1>2 DEF RefuseMod, GoFoundOK

LEMMA BinaryStep ==
  ASSUME go \in GoFiles, GoFoundOK, go.kind = "binary", BinaryInv, GoNext
  PROVE  UNCHANGED go /\ GoFoundOK' /\ BinaryInv'
<1>1. BinaryAssumption(go)
  BY GoFilesAssumption
<1>2. ~(\/ Visit \/ CatalogSources \/ Require \/ Replace \/ Assemble \/ RefuseMod
        \/ SearchPlace \/ SearchRemote \/ AskProxy \/ EndRemote \/ AnswerSearch)
  BY DEF BinaryInv, Visit, CatalogSources, Require, Replace, Assemble, RefuseMod,
         SearchPlace, SearchRemote, AskProxy, EndRemote, AnswerSearch
<1>3. CASE ReadBuild
  <2>1. BuildsFound
    BY <1>3 DEF ReadBuild, BinaryInv
  <2> QED BY <1>1, <1>3, <2>1, ReadBuildKeeps DEF BinaryInv
<1>4. CASE RefuseBinary
  <2>1. BuildsFound
    BY <1>4 DEF RefuseBinary, BinaryInv
  <2> QED BY <1>1, <1>4, <2>1, RefuseBinaryKeeps DEF BinaryInv
<1>5. CASE AddStdlib
  <2>1. BuildsFound
    BY <1>5 DEF AddStdlib, BinaryInv
  <2> QED BY <1>1, <1>5, <2>1, StdlibKeeps DEF BinaryInv
<1> QED BY <1>2, <1>3, <1>4, <1>5 DEF GoNext

LEMMA SearchStep ==
  ASSUME go \in GoFiles, GoFoundOK, go.kind = "licenses", SearchInv, GoNext
  PROVE  UNCHANGED go /\ GoFoundOK' /\ SearchInv'
<1>1. SearchAssumption(go)
  BY GoFilesAssumption
<1>2. ~(\/ Visit \/ CatalogSources \/ Require \/ Replace \/ Assemble \/ RefuseMod
        \/ ReadBuild \/ RefuseBinary \/ AddStdlib)
  BY DEF SearchInv, PlacesPassed, Visit, CatalogSources, Require, Replace, Assemble, RefuseMod, ReadBuild, RefuseBinary, AddStdlib
<1>3. SearchInv' /\ UNCHANGED <<go, goFound>>
  BY <1>1, <1>2, PlaceKeeps, RemoteKeeps, ProxyKeeps, EndRemoteKeeps, AnswerKeeps DEF GoNext
<1> QED BY <1>3 DEF GoFoundOK

LEMMA GoStutters ==
  ASSUME GoInv, UNCHANGED goVars
  PROVE  GoInv'
<1> USE DEF goVars
<1>1. (go \in GoFiles /\ GoFoundOK)' /\ UNCHANGED go
  BY DEF GoInv, GoFoundOK
<1>2. ModInv => ModInv'
  <2>1. (Loaded => Loaded') /\ (Visiting => Visiting') /\ (SourcesLinked => SourcesLinked')
    BY GoStays DEF Loaded, Visiting, SourcesLinked, SourceID
  <2>2. (goFound.packages = UsedIDs => (goFound.packages = UsedIDs)') /\ LoadedPaths' = LoadedPaths
    BY GoStays DEF LoadedPaths, Sources
  <2>3. EntriesKnown => EntriesKnown'
    BY <2>2, GoStays DEF EntriesKnown, ReplacedSoFar, Directives
  <2>4. ModulesRead => ModulesRead'
    BY GoStays DEF ModulesRead, GoEntries, SourceID
  <2> QED BY <2>1, <2>2, <2>3, <2>4 DEF ModInv
<1>3. BinaryInv => BinaryInv'
  <2>1. BuildsRead' = BuildsRead /\ GoBuilds' = GoBuilds
    BY BinaryStays DEF BuildsRead
  <2>2. BuildsFound => BuildsFound'
    BY <2>1, BinaryStays DEF BuildsFound
  <2>3. BinaryRead => BinaryRead'
    BY <2>1 DEF BinaryRead
  <2> QED BY <2>2, <2>3 DEF BinaryInv
<1>4. SearchInv => SearchInv'
  <2>1. \A l : RightAnswer(l)' <=> RightAnswer(l)
    BY SearchStays DEF RightAnswer
  <2>2. AnswersAlike => AnswersAlike'
    <3>1. RightAnswer(search.licenses) => RightAnswer(search.licenses)'
      BY SearchStays DEF RightAnswer
    <3> QED BY <2>1, <3>1 DEF AnswersAlike
  <2>3. (SearchOK => SearchOK') /\ (PlacesPassed => PlacesPassed') /\ (ProxiesAsked => ProxiesAsked')
    BY SearchStays DEF SearchOK, PlacesPassed, ProxiesAsked
  <2> QED BY <2>2, <2>3 DEF SearchInv
<1> QED BY <1>1, <1>2, <1>3, <1>4 DEF GoInv

LEMMA GoStep == GoInv /\ [GoNext]_goVars => GoInv'
<1> SUFFICES ASSUME GoInv, [GoNext]_goVars PROVE GoInv'
  OBVIOUS
<1>1. CASE UNCHANGED goVars
  BY <1>1, GoStutters
<1>2. CASE GoNext
  <2>1. go.kind \in {"mod", "binary", "licenses"}
    BY GoFilesAssumption DEF GoInv
  <2>2. CASE go.kind = "mod" /\ go.readable
    BY <1>2, <2>2, ModStep DEF GoInv
  <2>3. CASE go.kind = "mod" /\ ~go.readable
    BY <1>2, <2>3, RefusedStep DEF GoInv
  <2>4. CASE go.kind = "binary"
    BY <1>2, <2>4, BinaryStep DEF GoInv
  <2>5. CASE go.kind = "licenses"
    BY <1>2, <2>5, SearchStep DEF GoInv
  <2> QED BY <2>1, <2>2, <2>3, <2>4, <2>5
<1> QED BY <1>1, <1>2

LEMMA GoInvEnough == GoInv => GoRead
<1> SUFFICES ASSUME GoInv, goPhase = "end"
             PROVE  /\ go.kind = "mod" /\ go.readable => ModulesRead
                    /\ go.kind = "binary" => BinaryRead
                    /\ go.kind = "licenses" => LicensesSearched
  BY DEF GoRead
<1>1. go.kind = "mod" /\ go.readable => ModulesRead
  BY DEF GoInv, ModInv
<1>2. go.kind = "binary" => BinaryRead
  BY DEF GoInv, BinaryInv
<1>3. go.kind = "licenses" => LicensesSearched
  BY SearchEnds DEF GoInv
<1> QED BY <1>1, <1>2, <1>3

\* Packages that were visited and those that wait are what the roots of the main
\* module lead to; of the entries of go.mod, those the directives so far leave; of
\* the builds, what those say that were read; and of the search, that every place
\* passed by had none (parse_go_mod.go:80-413, parse_go_binary.go:62-271, licenses.go:80-286).
THEOREM GoInvariant == GoSpec => []GoInv
<1> QED BY GoInitially, GoStep, PTL DEF GoSpec

\* Whatever graph of packages, go.mod file, binary and places for licenses there
\* are, what is reported in the end is what they say.
THEOREM GoFilesRead == GoSpec => []GoRead
<1> QED BY GoInvariant, GoInvEnough, PTL

-----------------------------------------------------------------------------
(* Lock files and lists of packages.                                       *)

\* A dependency names what a package provides if and only if it agrees with the
\* package in all it says.
LEMMA ProvidedIfAgreed ==
  ASSUME NEW q, NEW d, IsCargoSource(q.source), IsCargoAsked(d)
  PROVE  d \in CargoProvides(q) <=>
           /\ d[1] = q.name
           /\ Len(d) > 1 => d[2] = q.version
           /\ Len(d) > 2 => q.source # <<>> /\ \A i \in 1..2 : d[3][i] = q.source[i]
<1>1. CASE Len(d) = 1 /\ d = <<d[1]>>
  BY <1>1 DEF CargoProvides
<1>2. CASE Len(d) = 2 /\ d = <<d[1], d[2]>>
  BY <1>2 DEF CargoProvides
<1>3. CASE /\ Len(d) = 3 /\ d = <<d[1], d[2], d[3]>>
           /\ IsCargoSource(d[3]) /\ d[3] # <<>> /\ d[3] = SourceAsked(d[3])
  <2>1. d \in CargoProvides(q) <=>
          d[1] = q.name /\ d[2] = q.version /\ q.source # <<>> /\ d[3] = SourceAsked(q.source)
    <3>1. d # <<q.name>> /\ d # <<q.name, q.version>>
      BY <1>3
    <3>2. ASSUME NEW s
          PROVE  d = <<q.name, q.version, s>> <=> d[1] = q.name /\ d[2] = q.version /\ d[3] = s
      BY <1>3
    <3>3. d \in CargoProvides(q) <=> q.source # <<>> /\ d = <<q.name, q.version, SourceAsked(q.source)>>
      BY <3>1, Zenon DEF CargoProvides
    <3> QED BY <3>2, <3>3, Zenon
  <2>2. ASSUME q.source # <<>>
        PROVE  d[3] = SourceAsked(q.source) <=> \A i \in 1..2 : d[3][i] = q.source[i]
    <3> DEFINE s == q.source
               t == d[3]
    <3>1. \/ Len(s) = 3 /\ s = <<"git", s[2], s[3]>>
          \/ Len(s) = 2 /\ s = <<s[1], s[2]>> /\ s[1] # "git"
      BY <2>2 DEF IsCargoSource
    <3>2. \/ Len(t) = 3 /\ t = <<"git", t[2], "">>
          \/ Len(t) = 2 /\ t = <<t[1], t[2]>> /\ t[1] # "git"
      <4>1. IsCargoSource(t) /\ t # <<>> /\ t = SourceAsked(t)
        BY <1>3
      <4> HIDE DEF t
      <4>2. CASE Len(t) = 3 /\ t = <<"git", t[2], t[3]>>
        <5>1. t[1] = "git"
          BY <4>2
        <5> QED BY <4>1, <4>2, <5>1 DEF SourceAsked
      <4> QED BY <4>1, <4>2 DEF IsCargoSource
    <3> HIDE DEF s, t
    <3>5. t = SourceAsked(s) <=> t[1] = s[1] /\ t[2] = s[2]
      <4>1. (\E u, c : s = <<"git", u, c>>) \/ (\E k, u : k # "git" /\ s = <<k, u>>)
        BY <3>1
      <4>2. (\E v : t = <<"git", v, "">>) \/ (\E k, v : k # "git" /\ t = <<k, v>>)
        BY <3>2
      <4>3. ASSUME NEW u, NEW c, s = <<"git", u, c>>
            PROVE  t = SourceAsked(s) <=> t[1] = s[1] /\ t[2] = s[2]
        <5>1. s[1] = "git" /\ s[2] = u /\ SourceAsked(s) = <<"git", u, "">>
          BY <4>3 DEF SourceAsked
        <5>2. ASSUME NEW v, t = <<"git", v, "">> PROVE t = SourceAsked(s) <=> t[1] = s[1] /\ t[2] = s[2]
          <6>1. t[1] = "git" /\ t[2] = v
            BY <5>2
          <6>2. <<"git", v, "">> = <<"git", u, "">> <=> v = u
            OBVIOUS
          <6> QED BY <5>1, <5>2, <6>1, <6>2
        <5>3. ASSUME NEW k, NEW v, k # "git", t = <<k, v>> PROVE t = SourceAsked(s) <=> t[1] = s[1] /\ t[2] = s[2]
          <6>1. t[1] = k /\ <<"git", u, "">>[1] = "git"
            BY <5>3
          <6> QED BY <5>1, <5>3, <6>1
        <5> QED BY <4>2, <5>2, <5>3
      <4>4. ASSUME NEW k, NEW u, k # "git", s = <<k, u>>
            PROVE  t = SourceAsked(s) <=> t[1] = s[1] /\ t[2] = s[2]
        <5>1. s[1] = k /\ s[2] = u /\ SourceAsked(s) = <<k, u>>
          BY <4>4 DEF SourceAsked
        <5>2. ASSUME NEW v, t = <<"git", v, "">> PROVE t = SourceAsked(s) <=> t[1] = s[1] /\ t[2] = s[2]
          BY <4>4, <5>1, <5>2
        <5>3. ASSUME NEW l, NEW v, l # "git", t = <<l, v>> PROVE t = SourceAsked(s) <=> t[1] = s[1] /\ t[2] = s[2]
          BY <5>1, <5>3
        <5> QED BY <4>2, <5>2, <5>3
      <4> QED BY <4>1, <4>3, <4>4
    <3>6. (\A i \in 1..2 : t[i] = s[i]) <=> t[1] = s[1] /\ t[2] = s[2]
      <4> 1..2 = {1, 2}
        OBVIOUS
      <4> QED OBVIOUS
    <3> QED BY <3>5, <3>6 DEF s, t
  <2> QED BY <1>3, <2>1, <2>2
<1> QED BY <1>1, <1>2, <1>3 DEF IsCargoAsked

\* The links of a Cargo.lock whose packages can be parsed are those its
\* dependencies name, in all they say.
LEMMA CargoLinks ==
  ASSUME lf.format = "cargo", LockAllowed(lf), lfFound.edges = CargoEdges(lf.packages)
  PROVE  CargoExact
<1> SUFFICES ASSUME NEW p \in lf.packages, NEW q \in lf.packages
             PROVE  <<q, p>> \in lfFound.edges <=>
                      \E d \in p.dependencies :
                        /\ d[1] = q.name
                        /\ Len(d) > 1 => d[2] = q.version
                        /\ Len(d) > 2 => q.source # <<>> /\ \A i \in 1..2 : d[3][i] = q.source[i]
  BY DEF CargoExact
<1>1. <<q, p>> \in lfFound.edges <=> \E d \in p.dependencies : d \in CargoProvides(q)
  BY DEF CargoEdges
<1>2. \A d \in p.dependencies : IsCargoSource(q.source) /\ IsCargoAsked(d)
  BY DEF LockAllowed
<1> QED BY <1>1, <1>2, ProvidedIfAgreed

\* Whichever of the nodes alike is visited last, the links of a conan.lock are
\* those its nodes require.
LEMMA ConanLinks ==
  ASSUME lf.format = "conan", LockAllowed(lf),
         NEW last \in LastNode,
         lfFound.packages = Visited \cup lf.requires,
         lfFound.edges = UNION {{<<IF i \in DOMAIN lf.nodes THEN lf.nodes[i].ref ELSE NoPackage, p>> :
                                   i \in lf.nodes[last[p]].requires} : p \in Visited}
  PROVE  ConanKnown
<1> DEFINE refs == {lf.nodes[i].ref : i \in DOMAIN lf.nodes}
           required == UNION {lf.nodes[i].requires : i \in DOMAIN lf.nodes}
<1>0. last \in [Visited -> DOMAIN lf.nodes] /\ \A p \in Visited : lf.nodes[last[p]].ref = p
  BY DEF LastNode
<1>1. ASSUME \A i \in required : i \in DOMAIN lf.nodes /\ lf.nodes[i].ref # NoPackage
      PROVE  lfFound.edges \subseteq lfFound.packages \X lfFound.packages
  <2> SUFFICES ASSUME NEW p \in Visited, NEW i \in lf.nodes[last[p]].requires
               PROVE  <<IF i \in DOMAIN lf.nodes THEN lf.nodes[i].ref ELSE NoPackage, p>>
                        \in lfFound.packages \X lfFound.packages
    OBVIOUS
  <2>1. i \in required
    BY <1>0
  <2>2. i \in DOMAIN lf.nodes /\ lf.nodes[i].ref \in Visited
    BY <1>1, <2>1 DEF Visited
  <2> QED BY <2>2
<1>2. ASSUME Cardinality(refs) = Cardinality(DOMAIN lf.nodes),
             NEW i \in DOMAIN lf.nodes, NEW j \in DOMAIN lf.nodes,
             lf.nodes[j].ref # NoPackage, i \in lf.nodes[j].requires
      PROVE  <<lf.nodes[i].ref, lf.nodes[j].ref>> \in lfFound.edges
  <2> DEFINE ref == [k \in DOMAIN lf.nodes |-> lf.nodes[k].ref]
             p == lf.nodes[j].ref
  <2>1. IsFiniteSet(DOMAIN lf.nodes)
    <3>1. DOMAIN lf.nodes = 1..Len(lf.nodes) /\ Len(lf.nodes) \in Int
      BY DEF LockAllowed
    <3> QED BY <3>1, FS_Interval
  <2>2. ref \in Surjection(DOMAIN lf.nodes, refs)
    BY DEF Surjection
  <2>3. ref \in Injection(DOMAIN lf.nodes, refs)
    <3> HIDE DEF ref, refs
    <3> QED BY <1>2, <2>1, <2>2, FS_SurjSameCardinalityImpliesInj
  <2>4. p \in Visited
    BY <1>2 DEF Visited
  <2>5. last[p] = j
    <3>1. last[p] \in DOMAIN lf.nodes /\ ref[last[p]] = ref[j]
      BY <1>0, <2>4
    <3> HIDE DEF ref, p
    <3> QED BY <2>3, <3>1 DEF Injection, IsInjective
  <2>6. i \in lf.nodes[last[p]].requires
    BY <1>2, <2>5
  <2> HIDE DEF p
  <2>7. <<lf.nodes[i].ref, p>> \in lfFound.edges
    BY <2>4, <2>6
  <2> QED BY <2>7 DEF p
<1> QED BY <1>1, <1>2 DEF ConanKnown

\* Whichever entry a version is first met in, and whichever candidate each of its
\* dependencies leads to, a dependency is linked once.
LEMMA NuGetLinks ==
  ASSUME lf.format = "dotnet",
         NEW met \in FirstMet,
         NEW children, DOMAIN children = Versions,
         \A v \in Versions : children[v] \in ChildrenOf(met[v][2]),
         lfFound.packages = Versions,
         lfFound.edges = UNION {{<<v, children[v][n]>> : n \in DOMAIN children[v]} : v \in Versions}
  PROVE  LinkedOnce
<1> DEFINE entry(v) == met[v][2]
<1>1. ASSUME NEW v \in Versions
      PROVE  <<v[1], entry(v)>> \in EntriesListed /\ entry(v).resolved = v[2]
  <2>1. met[v] \in EntriesListed /\ <<met[v][1], met[v][2].resolved>> = v
    BY DEF FirstMet
  <2>2. met[v] = <<met[v][1], met[v][2]>>
    BY <2>1 DEF EntriesListed
  <2> QED BY <2>1, <2>2
<1>2. ASSUME NEW v \in Versions, NEW n
      PROVE  n \in DOMAIN children[v] <=>
               n \in DOMAIN entry(v).dependencies /\ Candidates(n, entry(v).dependencies[n]) # {}
  BY DEF ChildrenOf
<1>3. ASSUME NEW v \in Versions, NEW n \in DOMAIN children[v]
      PROVE  /\ children[v][n] \in Versions
             /\ children[v][n] \in Candidates(n, entry(v).dependencies[n])
             /\ children[v][n][1] = n
  <2>1. /\ children[v][n] \in Versions
        /\ children[v][n] \in Candidates(n, entry(v).dependencies[n])
    BY DEF ChildrenOf
  <2> QED BY <2>1 DEF Candidates
<1>4. ASSUME NEW v \in Versions, NEW w
      PROVE  <<v, w>> \in lfFound.edges <=> \E n \in DOMAIN children[v] : w = children[v][n]
  OBVIOUS
<1> DEFINE LinkedTo(v, n) == {w \in lfFound.packages : w[1] = n /\ <<v, w>> \in lfFound.edges}
           Entries(v) == {e[2] : e \in {e \in EntriesListed : e[1] = v[1] /\ e[2].resolved = v[2]}}
           Asked(v, n) == {e.dependencies[n] : e \in {e \in Entries(v) : n \in DOMAIN e.dependencies}}
<1>5. ASSUME NEW v \in lfFound.packages, NEW n
      PROVE  /\ Cardinality(LinkedTo(v, n)) <= 1
             /\ (\A e \in Entries(v) : n \in DOMAIN e.dependencies) /\ n \in {w[1] : w \in lfFound.packages} =>
                  LinkedTo(v, n) # {}
             /\ LinkedTo(v, n) # {} /\ {n} \X Asked(v, n) \subseteq lfFound.packages =>
                  LinkedTo(v, n) \subseteq {n} \X Asked(v, n)
  <2>0. v \in Versions
    OBVIOUS
  <2>1. LinkedTo(v, n) = IF n \in DOMAIN children[v] THEN {children[v][n]} ELSE {}
    BY <1>3, <1>4
  <2>2. entry(v) \in Entries(v)
    <3> DEFINE x == <<v[1], entry(v)>>
    <3>1. x \in EntriesListed /\ x[1] = v[1] /\ x[2] = entry(v) /\ x[2].resolved = v[2]
      BY <1>1
    <3> HIDE DEF x, entry
    <3> QED BY <3>1
  <2>3. ASSUME n \in DOMAIN children[v]
        PROVE  entry(v).dependencies[n] \in Asked(v, n)
    <3> HIDE DEF Entries, entry
    <3> QED BY <1>2, <2>0, <2>2, <2>3
  <2> HIDE DEF LinkedTo, Entries, Asked
  <2>4. Cardinality(LinkedTo(v, n)) <= 1
    <3>1. CASE n \in DOMAIN children[v]
      <4>1. Cardinality(LinkedTo(v, n)) = 1
        BY <2>1, <3>1, FS_Singleton, Zenon
      <4> QED BY <4>1
    <3>2. CASE n \notin DOMAIN children[v]
      <4>1. Cardinality(LinkedTo(v, n)) = 0
        BY <2>1, <3>2, FS_EmptySet, Zenon
      <4> QED BY <4>1
    <3> QED BY <3>1, <3>2
  <2>5. ASSUME \A e \in Entries(v) : n \in DOMAIN e.dependencies, NEW w \in Versions, w[1] = n
        PROVE  LinkedTo(v, n) # {}
    <3>1. Candidates(n, entry(v).dependencies[n]) # {}
      BY <2>5 DEF Candidates
    <3> QED BY <1>2, <2>1, <2>2, <2>5, <3>1
  <2>6. ASSUME LinkedTo(v, n) # {}, {n} \X Asked(v, n) \subseteq Versions
        PROVE  LinkedTo(v, n) \subseteq {n} \X Asked(v, n)
    <3>1. n \in DOMAIN children[v] /\ LinkedTo(v, n) = {children[v][n]}
      BY <2>1, <2>6
    <3>2. entry(v).dependencies[n] \in Asked(v, n)
      BY <2>3, <3>1
    <3>3. <<n, entry(v).dependencies[n]>> \in Versions
      BY <2>6, <3>2
    <3>4. children[v][n] = <<n, entry(v).dependencies[n]>>
      BY <1>3, <3>1, <3>3 DEF Candidates
    <3> QED BY <3>1, <3>2, <3>4
  <2> QED BY <2>4, <2>5, <2>6
<1>6. ASSUME NEW e \in lfFound.edges
      PROVE  \E x \in EntriesListed :
               x[1] = e[1][1] /\ x[2].resolved = e[1][2] /\ e[2][1] \in DOMAIN x[2].dependencies
  <2>0. PICK v \in Versions : \E n \in DOMAIN children[v] : e = <<v, children[v][n]>>
    OBVIOUS
  <2>1. PICK n \in DOMAIN children[v] : e = <<v, children[v][n]>>
    BY <2>0
  <2>2. n \in DOMAIN entry(v).dependencies /\ e[2][1] = n /\ e[1] = v
    BY <1>2, <1>3, <2>1
  <2> QED BY <1>1, <2>2
<1>7. ASSUME NEW v \in lfFound.packages, NEW n \in UNION {DOMAIN e.dependencies : e \in Entries(v)}
      PROVE  /\ Cardinality(LinkedTo(v, n)) <= 1
             /\ (\A e \in Entries(v) : n \in DOMAIN e.dependencies) /\ n \in {w[1] : w \in lfFound.packages} =>
                  LinkedTo(v, n) # {}
             /\ LinkedTo(v, n) # {} /\ {n} \X Asked(v, n) \subseteq lfFound.packages =>
                  LinkedTo(v, n) \subseteq {n} \X Asked(v, n)
  <2> HIDE DEF LinkedTo, Entries, Asked
  <2> QED BY <1>5
<1> QED BY <1>6, <1>7, Zenon DEF LinkedOnce

-----------------------------------------------------------------------------
(* Files that are read by the line.                                        *)

SectionIs(i) == lf.lines[i].is = "section"

\* The section a line is in is the one the line before it opens, or is in.
LEMMA NextSection ==
  ASSUME NEW n \in Nat \ {0}
  PROVE  SectionBefore(n + 1) = IF SectionIs(n) THEN lf.lines[n].name ELSE SectionBefore(n)
<1> DEFINE before(i) == {j \in 1..(i - 1) : lf.lines[j].is = "section"}
           latest(i) == CHOOSE j \in before(i) : \A k \in before(i) : k <= j
<1>1. \A i : SectionBefore(i) = IF before(i) = {} THEN "" ELSE lf.lines[latest(i)].name
  BY DEF SectionBefore
<1>2. CASE SectionIs(n)
  <2>1. n \in before(n + 1) /\ \A k \in before(n + 1) : k \in Nat /\ k <= n
    BY <1>2 DEF SectionIs
  <2>2. latest(n + 1) = n
    <3> HIDE DEF before
    <3>1. latest(n + 1) \in before(n + 1) /\ \A k \in before(n + 1) : k <= latest(n + 1)
      BY <2>1
    <3> HIDE DEF latest
    <3> QED BY <2>1, <3>1
  <2> HIDE DEF before, latest
  <2> QED BY <1>1, <1>2, <2>1, <2>2
<1>3. CASE ~SectionIs(n)
  <2>1. before(n + 1) = before(n)
    BY <1>3 DEF SectionIs
  <2>2. latest(n + 1) = latest(n)
    <3> HIDE DEF before
    <3> QED BY <2>1
  <2> HIDE DEF before, latest
  <2> QED BY <1>1, <1>3, <2>1, <2>2
<1> QED BY <1>2, <1>3

\* What the lines up to the one to be read next say.
GemsRead(n) ==
  {[name |-> lf.lines[i].name, version |-> lf.lines[i].version] :
     i \in {i \in 1..n : /\ lf.lines[i].is = "gem" /\ lf.lines[i].version # ""
                       /\ SectionBefore(i) \in SectionsOfInterest}}

MixRead(n) ==
  {[name |-> lf.lines[i].name, version |-> lf.lines[i].version] : i \in {i \in 1..n : lf.lines[i].is = "entry"}}

FoundShape == lfFound = [packages |-> lfFound.packages, edges |-> lfFound.edges,
                         errors |-> lfFound.errors, done |-> lfFound.done]

AtALine == lfAt \in Nat \ {0} /\ (lf.format \in ByLine => lfAt <= LastLine + 1 \/ lfAt = 1)

GemLines ==
  lf.format = "gemfile" => section = SectionBefore(lfAt) /\ lfFound.packages = GemsRead(lfAt - 1)

MixLines ==
  lf.format = "mix" =>
    /\ lfFound.packages = MixRead(lfAt - 1) /\ lfFound.errors \in Nat
    /\ lfFound.errors = 0 => \A i \in 1..(lfAt - 1) : lf.lines[i].is = "entry"

ConanLines ==
  lf.format = "conaninfo" =>
    /\ section = SectionBefore(lfAt) \/ SectionBefore(lfAt) = "recipe_hash"
    /\ \A i \in 1..(lfAt - 1) : lf.lines[i].is = "reference" /\ SectionBefore(i) = "full_requires" =>
         ConanRequires(lf.lines[i].name) \in lfFound.packages

LinesRead == AtALine /\ GemLines /\ MixLines /\ ConanLines

\* The inductive invariant of a lock file that is read, in one step or line by line.
LocksInv ==
  /\ lf \in LockFiles
  /\ FoundShape
  /\ lfFound.done \in BOOLEAN
  /\ ~lfFound.done => LinesRead
  /\ LocksRead

\* A file that is read is one that can be.
LEMMA FilesAllowed ==
  ASSUME lf \in LockFiles
  PROVE  LockAllowed(lf)
BY LocksAssumption

\* A file that is not read to its end has no claim to meet.
LEMMA NotOver ==
  ASSUME ~lfFound.done
  PROVE  LocksRead
BY DEF LocksRead, CargoExact, ConanKnown, LinkedOnce, LinesAccounted

\* Nothing is read of a file at first.
LEMMA LocksStart == LfInit => LocksInv
<1> SUFFICES ASSUME LfInit PROVE LocksInv
  OBVIOUS
<1>0. lfAt = 1 /\ section = "" /\ lfFound = NothingYet
  BY DEF LfInit
<1>1. lf \in LockFiles /\ FoundShape /\ lfFound.done = FALSE
  BY DEF FoundShape, LfInit, NothingYet
<1>2. 1..0 = {} /\ 1 - 1 = 0 /\ 1 \in Nat \ {0} /\ 0 \in Nat
  OBVIOUS
<1>3. SectionBefore(1) = ""
  <2>1. {j \in 1..(1 - 1) : lf.lines[j].is = "section"} = {}
    BY <1>2
  <2> QED BY <2>1 DEF SectionBefore
<1>4. GemsRead(0) = {} /\ MixRead(0) = {}
  BY <1>2 DEF GemsRead, MixRead
<1>5. LinesRead
  <2>1. AtALine
    BY <1>0, <1>2 DEF AtALine
  <2>2. lfFound.packages = {} /\ lfFound.errors = 0
    BY <1>0 DEF NothingYet
  <2>3. GemLines
    BY <1>0, <1>2, <1>3, <1>4, <2>2 DEF GemLines
  <2>4. MixLines
    BY <1>0, <1>2, <1>4, <2>2 DEF MixLines
  <2>5. ConanLines
    BY <1>0, <1>2, <1>3 DEF ConanLines
  <2> QED BY <2>1, <2>3, <2>4, <2>5 DEF LinesRead
<1> QED BY <1>1, <1>5, NotOver DEF LocksInv

\* What one more line adds.
LEMMA OneMoreGem ==
  ASSUME NEW n \in Nat \ {0}
  PROVE  GemsRead(n) = GemsRead(n - 1) \cup
           IF lf.lines[n].is = "gem" /\ lf.lines[n].version # "" /\ SectionBefore(n) \in SectionsOfInterest
             THEN {[name |-> lf.lines[n].name, version |-> lf.lines[n].version]} ELSE {}
<1>1. 1..n = 1..(n - 1) \cup {n}
  OBVIOUS
<1> QED BY <1>1 DEF GemsRead

\* What one more line of a mix.lock adds.
LEMMA OneMoreMix ==
  ASSUME NEW n \in Nat \ {0}
  PROVE  MixRead(n) = MixRead(n - 1) \cup
           IF lf.lines[n].is = "entry" THEN {[name |-> lf.lines[n].name, version |-> lf.lines[n].version]} ELSE {}
<1>1. 1..n = 1..(n - 1) \cup {n}
  OBVIOUS
<1> QED BY <1>1 DEF MixRead

\* A line is read, and nothing is at an end.
LEMMA LineKeeps ==
  ASSUME LocksInv, NewSection \/ ReadGem \/ ReadMixLine \/ ReadConanLine
  PROVE  LocksInv'
<1>1. ~lfFound.done /\ LinesRead /\ lf \in LockFiles /\ FoundShape
  BY DEF LocksInv, NewSection, ReadGem, ReadMixLine, ReadConanLine, AtLine, LfReading
<1>2. lf' = lf /\ lfAt' = lfAt + 1 /\ lf.format \in ByLine /\ lfAt <= LastLine
  BY DEF NewSection, ReadGem, ReadMixLine, ReadConanLine, AtLine, LfReading, NextLine, ByLine
<1>3. lfAt \in Nat \ {0} /\ lfAt' - 1 = lfAt /\ 1..lfAt = 1..(lfAt - 1) \cup {lfAt}
  BY <1>1, <1>2 DEF LinesRead, AtALine
<1>4. SectionBefore(lfAt + 1) = IF SectionIs(lfAt) THEN lf.lines[lfAt].name ELSE SectionBefore(lfAt)
  BY <1>3, NextSection
<1>5. /\ SectionBefore(lfAt)' = SectionBefore(lfAt + 1)
      /\ GemsRead(lfAt - 1)' = GemsRead(lfAt)
      /\ MixRead(lfAt - 1)' = MixRead(lfAt)
      /\ \A i : SectionBefore(i)' = SectionBefore(i)
      /\ LastLine' = LastLine
  <2>1. LastLine' = LastLine
    BY <1>2 DEF LastLine, Unterminated
  <2>2. \A i : SectionBefore(i)' = SectionBefore(i)
    BY <1>2 DEF SectionBefore
  <2>3. SectionBefore(lfAt)' = SectionBefore(lfAt + 1)
    BY <1>2 DEF SectionBefore
  <2>4. GemsRead(lfAt - 1)' = GemsRead(lfAt)
    <3>1. GemsRead(lfAt - 1)' = GemsRead(lfAt' - 1)
      BY <1>2, <2>2 DEF GemsRead
    <3> QED BY <1>3, <3>1
  <2>5. MixRead(lfAt - 1)' = MixRead(lfAt)
    BY <1>2, <1>3 DEF MixRead
  <2> QED BY <2>1, <2>2, <2>3, <2>4, <2>5
<1>6. FoundShape' /\ lfFound'.done = FALSE
  <2>1. lfFound.done = FALSE
    BY <1>1 DEF LocksInv
  <2> QED BY <1>1, <2>1 DEF FoundShape, NewSection, ReadGem, ReadMixLine, ReadConanLine
<1>7. lfAt' \in Nat \ {0} /\ lfAt' <= LastLine' + 1
  <2>1. LastLine \in Int
    <3>1. lf.lines \in Seq(Range(lf.lines))
      BY <1>1, <1>2, FilesAllowed DEF LockAllowed
    <3>2. Len(lf.lines) \in Nat
      BY <3>1
    <3> QED BY <3>2 DEF LastLine
  <2> QED BY <1>2, <1>3, <1>5, <2>1
<1>8. ASSUME lf.format = "gemfile"
      PROVE  section' = SectionBefore(lfAt + 1) /\ lfFound'.packages = GemsRead(lfAt)
  <2>0. GemsRead(lfAt) = GemsRead(lfAt - 1) \cup
          IF lf.lines[lfAt].is = "gem" /\ lf.lines[lfAt].version # "" /\ SectionBefore(lfAt) \in SectionsOfInterest
            THEN {[name |-> lf.lines[lfAt].name, version |-> lf.lines[lfAt].version]} ELSE {}
    BY <1>3, OneMoreGem
  <2>1. section = SectionBefore(lfAt) /\ lfFound.packages = GemsRead(lfAt - 1)
    BY <1>1, <1>8 DEF LinesRead, GemLines
  <2>3. CASE NewSection
    <3>1. section' = lf.lines[lfAt].name /\ lf.lines[lfAt].is = "section" /\ lfFound' = lfFound
      BY <2>3 DEF NewSection, Line
    <3>2. GemsRead(lfAt) = GemsRead(lfAt - 1)
      <4>1. lf.lines[lfAt].is # "gem"
        BY <3>1
      <4> QED BY <2>0, <4>1
    <3> QED BY <1>4, <2>1, <3>1, <3>2 DEF SectionIs
  <2>4. CASE ReadGem
    <3>1. section' = section /\ lf.lines[lfAt].is # "section"
      BY <2>4 DEF ReadGem, Line
    <3>2. lfFound'.packages = lfFound.packages \cup
            IF section \in SectionsOfInterest /\ lf.lines[lfAt].is = "gem" /\ lf.lines[lfAt].version # ""
              THEN {[name |-> lf.lines[lfAt].name, version |-> lf.lines[lfAt].version]} ELSE {}
      BY <1>1, <2>4 DEF ReadGem, Line, FoundShape
    <3>3. GemsRead(lfAt) = lfFound'.packages
      BY <2>0, <2>1, <3>2
    <3> QED BY <1>4, <2>1, <3>1, <3>3 DEF SectionIs
  <2> QED BY <1>8, <2>3, <2>4 DEF ReadMixLine, ReadConanLine, AtLine, LfReading
<1>9. ASSUME lf.format = "mix"
      PROVE  /\ lfFound'.packages = MixRead(lfAt)
             /\ lfFound'.errors \in Nat
             /\ lfFound'.errors = 0 => \A i \in 1..lfAt : lf.lines[i].is = "entry"
  <2>1. /\ lfFound.packages = MixRead(lfAt - 1) /\ lfFound.errors \in Nat
        /\ lfFound.errors = 0 => \A i \in 1..(lfAt - 1) : lf.lines[i].is = "entry"
    BY <1>1, <1>9 DEF LinesRead, MixLines
  <2>2. ReadMixLine
    BY <1>9 DEF NewSection, ReadGem, ReadConanLine, AtLine, LfReading
  <2>3. MixRead(lfAt) = MixRead(lfAt - 1) \cup
          IF lf.lines[lfAt].is = "entry" THEN {[name |-> lf.lines[lfAt].name, version |-> lf.lines[lfAt].version]} ELSE {}
    BY <1>3, OneMoreMix
  <2>4. CASE lf.lines[lfAt].is = "entry"
    <3>1. /\ lfFound'.packages = lfFound.packages \cup {[name |-> lf.lines[lfAt].name, version |-> lf.lines[lfAt].version]}
          /\ lfFound'.errors = lfFound.errors
      BY <1>1, <2>2, <2>4 DEF ReadMixLine, Line, FoundShape
    <3>2. MixRead(lfAt) = lfFound'.packages
      BY <2>1, <2>3, <2>4, <3>1
    <3> QED BY <1>3, <2>1, <2>4, <3>1, <3>2
  <2>5. CASE lf.lines[lfAt].is # "entry"
    <3>1. lfFound'.packages = lfFound.packages /\ lfFound'.errors = lfFound.errors + 1
      BY <1>1, <2>2, <2>5 DEF ReadMixLine, Line, FoundShape
    <3>2. MixRead(lfAt) = lfFound'.packages
      BY <2>1, <2>3, <2>5, <3>1
    <3> QED BY <2>1, <3>1, <3>2
  <2> QED BY <2>4, <2>5
<1>10. ASSUME lf.format = "conaninfo"
       PROVE  /\ section' = SectionBefore(lfAt + 1) \/ SectionBefore(lfAt + 1) = "recipe_hash"
              /\ \A i \in 1..lfAt : lf.lines[i].is = "reference" /\ SectionBefore(i) = "full_requires" =>
                   ConanRequires(lf.lines[i].name) \in lfFound'.packages
  <2>1. /\ section = SectionBefore(lfAt) \/ SectionBefore(lfAt) = "recipe_hash"
        /\ \A i \in 1..(lfAt - 1) : lf.lines[i].is = "reference" /\ SectionBefore(i) = "full_requires" =>
             ConanRequires(lf.lines[i].name) \in lfFound.packages
    BY <1>1, <1>10 DEF LinesRead, ConanLines
  <2>2. CASE NewSection
    <3>1. section' = lf.lines[lfAt].name /\ lf.lines[lfAt].is = "section" /\ lfFound' = lfFound
      BY <2>2 DEF NewSection, Line
    <3> QED BY <1>3, <1>4, <2>1, <3>1 DEF SectionIs
  <2>3. CASE ReadConanLine
    <3>1. /\ lf.lines[lfAt].is # "section"
          /\ section' = IF section = "recipe_hash" THEN "" ELSE section
          /\ lfFound'.packages = lfFound.packages \cup
               IF section = "full_requires" /\ lf.lines[lfAt].is = "reference"
                 THEN {ConanRequires(lf.lines[lfAt].name)} ELSE {}
      BY <1>1, <2>3 DEF ReadConanLine, Line, FoundShape
    <3>2. SectionBefore(lfAt + 1) = SectionBefore(lfAt)
      BY <1>4, <3>1 DEF SectionIs
    <3> QED BY <1>3, <2>1, <3>1, <3>2
  <2> QED BY <1>10, <2>2, <2>3 DEF ReadGem, ReadMixLine, AtLine, LfReading
<1>11. LinesRead'
  <2>1. lf' = lf /\ lfAt' - 1 = lfAt
    BY <1>2, <1>3
  <2>2. GemLines'
    BY <1>5, <1>8, <2>1 DEF GemLines
  <2>3. MixLines'
    BY <1>5, <1>9, <2>1 DEF MixLines
  <2>4. ConanLines'
    BY <1>5, <1>10, <2>1 DEF ConanLines, ConanRequires
  <2>5. AtALine'
    BY <1>7 DEF AtALine
  <2> QED BY <2>2, <2>3, <2>4, <2>5 DEF LinesRead
<1>12. LocksRead'
  BY <1>6 DEF LocksRead, CargoExact, ConanKnown, LinkedOnce, LinesAccounted
<1> QED
  <2>1. lf' \in LockFiles /\ FoundShape' /\ lfFound'.done = FALSE
    BY <1>1, <1>2, <1>6
  <2> QED BY <1>11, <1>12, <2>1 DEF LocksInv

\* What is reported of a file is reported at once, and nothing else changes.
LEMMA ReportedWhole ==
  ASSUME LocksInv, NEW pkgs, NEW edges, NEW errs, LfReport(pkgs, edges, errs)
  PROVE  /\ lf' = lf /\ lfFound'.packages = pkgs /\ lfFound'.edges = edges /\ lfFound'.errors = errs
         /\ lf' \in LockFiles /\ FoundShape' /\ lfFound'.done = TRUE
         /\ LocksRead' => LocksInv'
BY DEF LocksInv, LfReport, FoundShape

CargoDone == lf.format = "cargo" /\ LockAllowed(lf) /\ lfFound.edges = CargoEdges(lf.packages)

ConanDone ==
  /\ lf.format = "conan" /\ LockAllowed(lf)
  /\ \E last \in LastNode :
       /\ lfFound.packages = Visited \cup lf.requires
       /\ lfFound.edges = UNION {{<<IF i \in DOMAIN lf.nodes THEN lf.nodes[i].ref ELSE NoPackage, p>> :
                                    i \in lf.nodes[last[p]].requires} : p \in Visited}

NuGetDone ==
  /\ lf.format = "dotnet"
  /\ \E met \in FirstMet : \E children :
       /\ DOMAIN children = Versions
       /\ \A v \in Versions : children[v] \in ChildrenOf(met[v][2])
       /\ lfFound.packages = Versions
       /\ lfFound.edges = UNION {{<<v, children[v][n]>> : n \in DOMAIN children[v]} : v \in Versions}

\* The lemmas above, for any state of a file that has been read: what an action
\* establishes of its next state is used by way of them.
LEMMA CargoOver == CargoDone => CargoExact
BY CargoLinks DEF CargoDone

\* The same of a conan.lock.
LEMMA ConanOver == ConanDone => ConanKnown
BY ConanLinks DEF ConanDone

\* The same of a packages.lock.json.
LEMMA NuGetOver == NuGetDone => LinkedOnce
BY NuGetLinks DEF NuGetDone

\* A Cargo.lock is read.
LEMMA CargoKeeps ==
  ASSUME LocksInv, ReadCargo
  PROVE  LocksInv'
<1>1. lf.format = "cargo" /\ LfReport(lf.packages, CargoEdges(lf.packages), OneIfEmpty(lf.packages))
  BY DEF ReadCargo, LfReading
<1>2. /\ lf' = lf /\ lf' \in LockFiles /\ lfFound'.edges = CargoEdges(lf.packages)
      /\ LocksRead' => LocksInv'
  BY <1>1, ReportedWhole
<1>3. CargoDone'
  <2>1. LockAllowed(lf)' /\ (lf.format = "cargo")'
    BY <1>1, <1>2, FilesAllowed DEF LocksInv, LockAllowed, ByLine, IsCargoSource, IsCargoAsked, SourceAsked
  <2>2. lfFound'.edges = CargoEdges(lf.packages)'
    BY <1>2 DEF CargoEdges, CargoProvides, SourceAsked
  <2> QED BY <2>1, <2>2 DEF CargoDone
<1>4. CargoExact'
  BY <1>3, CargoOver, PTL
<1>5. LocksRead'
  BY <1>1, <1>2, <1>4 DEF LocksRead, ConanKnown, LinkedOnce, LinesAccounted
<1> QED BY <1>2, <1>5

\* A conan.lock is read.
LEMMA ConanKeeps ==
  ASSUME LocksInv, ReadConan
  PROVE  LocksInv'
<1> DEFINE joined(last) ==
      UNION {{<<IF i \in DOMAIN lf.nodes THEN lf.nodes[i].ref ELSE NoPackage, p>> :
                i \in lf.nodes[last[p]].requires} : p \in Visited}
<1>1. lf.format = "conan" /\ lf' = lf
  BY DEF ReadConan, LfReading, LfReport
<1>2. PICK last \in LastNode :
        LfReport(Visited \cup lf.requires, joined(last), OneIfEmpty(Visited \cup lf.requires))
  BY DEF ReadConan
<1>3. /\ lfFound'.packages = Visited \cup lf.requires /\ lfFound'.edges = joined(last)
      /\ LocksRead' => LocksInv'
  <2> HIDE DEF joined
  <2> QED BY <1>2, ReportedWhole
<1>4. ConanDone'
  <2>1. LockAllowed(lf)' /\ (lf.format = "conan")'
    BY <1>1, FilesAllowed DEF LocksInv, LockAllowed, ByLine, IsCargoSource, IsCargoAsked, SourceAsked
  <2>2. Visited' = Visited /\ LastNode' = LastNode
    BY <1>1 DEF Visited, LastNode
  <2> QED BY <1>1, <1>3, <2>1, <2>2 DEF ConanDone
<1>5. ConanKnown'
  BY <1>4, ConanOver, PTL
<1>6. LocksRead'
  BY <1>1, <1>5 DEF LocksRead, CargoExact, LinkedOnce, LinesAccounted
<1> QED BY <1>3, <1>6

\* A packages.lock.json is read.
LEMMA PackagesLockKeeps ==
  ASSUME LocksInv, ReadPackagesLock
  PROVE  LocksInv'
<1> DEFINE joined(children) == UNION {{<<v, children[v][n]>> : n \in DOMAIN children[v]} : v \in Versions}
<1>1. lf.format = "dotnet" /\ lf' = lf
  BY DEF ReadPackagesLock, LfReading, LfReport
<1>2. PICK met \in FirstMet :
        \E children \in [Versions -> UNION {ChildrenOf(met[v][2]) : v \in Versions}] :
          /\ \A v \in Versions : children[v] \in ChildrenOf(met[v][2])
          /\ LfReport(Versions, joined(children), 0)
  BY DEF ReadPackagesLock
<1>3. PICK children \in [Versions -> UNION {ChildrenOf(met[v][2]) : v \in Versions}] :
        /\ \A v \in Versions : children[v] \in ChildrenOf(met[v][2])
        /\ LfReport(Versions, joined(children), 0)
  BY <1>2
<1>4. /\ lfFound'.packages = Versions /\ lfFound'.edges = joined(children)
      /\ LocksRead' => LocksInv'
  <2> HIDE DEF joined
  <2> QED BY <1>3, ReportedWhole
<1>5. NuGetDone'
  <2>1. /\ Versions' = Versions /\ FirstMet' = FirstMet
        /\ \A e : ChildrenOf(e)' = ChildrenOf(e)
    <3>1. Listed' = Listed
      BY <1>1 DEF Listed
    <3>2. EntriesListed' = EntriesListed
      BY <1>1, <3>1 DEF EntriesListed
    <3>3. Versions' = Versions
      BY <3>2 DEF Versions
    <3>4. FirstMet' = FirstMet
      BY <3>2, <3>3 DEF FirstMet
    <3>5. \A n, v : Candidates(n, v)' = Candidates(n, v)
      BY <3>3 DEF Candidates
    <3>6. \A e : ChildrenOf(e)' = ChildrenOf(e)
      BY <3>3, <3>5 DEF ChildrenOf
    <3> QED BY <3>3, <3>4, <3>6
  <2>2. DOMAIN children = Versions
    BY <1>3
  <2> QED BY <1>1, <1>3, <1>4, <2>1, <2>2 DEF NuGetDone
<1>6. LinkedOnce'
  BY <1>5, NuGetOver, PTL
<1>7. LocksRead'
  BY <1>1, <1>6 DEF LocksRead, CargoExact, ConanKnown, LinesAccounted
<1> QED BY <1>4, <1>7

\* A file is read whose packages have no links.
LEMMA OthersKeep ==
  ASSUME LocksInv,
         \/ ReadPubspec \/ ReadPodfile \/ ReadPackageResolved \/ ReadRebar \/ ReadStackLock \/ ReadWorkflow
  PROVE  LocksInv'
<1>1. lf.format \in {"pubspec", "podfile", "swift", "rebar", "stack", "workflow"}
  BY DEF ReadPubspec, ReadPodfile, ReadPackageResolved, ReadRebar, ReadStackLock, ReadWorkflow, LfReading
<1>2. \E pkgs, errs : LfReport(pkgs, {}, errs)
  <2>1. CASE ReadPubspec
    BY <2>1 DEF ReadPubspec
  <2>2. CASE ReadPodfile
    BY <2>2 DEF ReadPodfile, LfFailed
  <2>3. CASE ReadPackageResolved
    BY <2>3 DEF ReadPackageResolved, LfFailed
  <2>4. CASE ReadRebar
    BY <2>4 DEF ReadRebar
  <2>5. CASE ReadStackLock
    BY <2>5 DEF ReadStackLock
  <2>6. CASE ReadWorkflow
    BY <2>6 DEF ReadWorkflow
  <2> QED BY <2>1, <2>2, <2>3, <2>4, <2>5, <2>6
<1>3. PICK pkgs, errs : LfReport(pkgs, {}, errs)
  BY <1>2
<1>4. lf' = lf /\ (LocksRead' => LocksInv')
  BY <1>3, ReportedWhole
<1>5. LocksRead'
  BY <1>1, <1>4 DEF LocksRead, CargoExact, ConanKnown, LinkedOnce, LinesAccounted
<1> QED BY <1>4, <1>5

\* What has been read when all lines have been.
LinesDone ==
  /\ LockAllowed(lf)
  /\ lf.format = "gemfile" => lfFound.packages = GemsRead(LastLine)
  /\ lf.format = "mix" =>
       /\ lfFound.packages = MixRead(LastLine)
       /\ lfFound.errors = 0 => LastLine \in Nat /\ \A i \in 1..LastLine : lf.lines[i].is = "entry"
  /\ lf.format = "conaninfo" =>
       /\ \E main, others : /\ main.name = "main"
                            /\ lfFound.packages = others \cup {main} /\ lfFound.edges = others \X {main}
       /\ \A i \in 1..LastLine : lf.lines[i].is = "reference" /\ SectionBefore(i) = "full_requires" =>
            ConanRequires(lf.lines[i].name) \in lfFound.packages

\* Lines that have all been read are accounted for.
LEMMA LinesOver == LinesDone => LinesAccounted
<1> SUFFICES ASSUME LinesDone PROVE LinesAccounted
  OBVIOUS
<1>1. ASSUME lf.format = "gemfile"
      PROVE  lfFound.packages = {[name |-> lf.lines[i].name, version |-> lf.lines[i].version] :
                i \in {i \in DOMAIN lf.lines : /\ lf.lines[i].is = "gem" /\ lf.lines[i].version # ""
                                              /\ SectionBefore(i) \in SectionsOfInterest}}
  <2>1. lf.lines \in Seq(Range(lf.lines))
    BY <1>1 DEF LinesDone, LockAllowed, ByLine
  <2>2. LastLine = Len(lf.lines)
    BY <1>1 DEF LastLine, Unterminated
  <2>3. DOMAIN lf.lines = 1..LastLine
    BY <2>1, <2>2
  <2> QED BY <1>1, <2>3 DEF LinesDone, GemsRead
<1>2. ASSUME lf.format = "conaninfo"
      PROVE  /\ \E main \in lfFound.packages : main.name = "main" /\ \A p \in lfFound.packages \ {main} :
                                     <<p, main>> \in lfFound.edges /\ <<main, p>> \notin lfFound.edges
             /\ \A i \in 1..LastLine : lf.lines[i].is = "reference" /\ SectionBefore(i) = "full_requires" =>
                  ConanRequires(lf.lines[i].name) \in lfFound.packages
  <2>1. PICK main, others : /\ main.name = "main"
                            /\ lfFound.packages = others \cup {main} /\ lfFound.edges = others \X {main}
    BY <1>2 DEF LinesDone
  <2>2. main \in lfFound.packages
    BY <2>1
  <2>3. ASSUME NEW p \in lfFound.packages \ {main}
        PROVE  <<p, main>> \in lfFound.edges /\ <<main, p>> \notin lfFound.edges
    BY <2>1
  <2>4. \A i \in 1..LastLine : lf.lines[i].is = "reference" /\ SectionBefore(i) = "full_requires" =>
          ConanRequires(lf.lines[i].name) \in lfFound.packages
    BY <1>2 DEF LinesDone
  <2> QED BY <2>1, <2>2, <2>3, <2>4
<1>3. ASSUME lf.format = "mix", NEW listed, listed = {i \in 1..LastLine : lf.lines[i].is = "entry"}
      PROVE  /\ lfFound.packages = {[name |-> lf.lines[i].name, version |-> lf.lines[i].version] : i \in listed}
             /\ lfFound.errors = 0 => Cardinality(listed) = LastLine
  <2>1. lfFound.packages = {[name |-> lf.lines[i].name, version |-> lf.lines[i].version] : i \in listed}
    BY <1>3 DEF LinesDone, MixRead
  <2>2. ASSUME lfFound.errors = 0
        PROVE  Cardinality(listed) = LastLine
    <3>1. LastLine \in Nat /\ listed = 1..LastLine
      BY <1>3, <2>2 DEF LinesDone
    <3>2. Cardinality(1..LastLine) = IF 1 > LastLine THEN 0 ELSE LastLine - 1 + 1
      BY <3>1, FS_Interval
    <3> QED BY <3>1, <3>2
  <2> QED BY <2>1, <2>2
<1> QED BY <1>1, <1>2, <1>3 DEF LinesAccounted

\* The last line is passed, and what was read is reported.
LEMMA EndKeeps ==
  ASSUME LocksInv, EndOfLines
  PROVE  LocksInv'
<1> DEFINE main == [name |-> "main", hash |-> recipe]
           pkgs == lfFound.packages
<1>1. /\ lf.format \in ByLine /\ lfAt > LastLine /\ LinesRead /\ lf \in LockFiles
      /\ ~lfFound.done
  BY DEF EndOfLines, LfReading, LocksInv
<1>2. /\ lf.format = "conaninfo" => LfReport(pkgs \cup {main}, pkgs \X {main}, 0)
      /\ lf.format = "gemfile" => LfReport(pkgs, {}, OneIfEmpty(pkgs))
      /\ lf.format = "mix" =>
           LfReport(pkgs, {}, IF lfFound.errors > 0 THEN lfFound.errors ELSE OneIfEmpty(pkgs))
  BY <1>1 DEF EndOfLines, ByLine
<1>3. /\ lf' = lf /\ (LocksRead' => LocksInv')
      /\ lf.format = "conaninfo" => lfFound'.packages = pkgs \cup {main} /\ lfFound'.edges = pkgs \X {main}
      /\ lf.format = "gemfile" => lfFound'.packages = pkgs
      /\ lf.format = "mix" =>
           /\ lfFound'.packages = pkgs
           /\ lfFound'.errors = IF lfFound.errors > 0 THEN lfFound.errors ELSE OneIfEmpty(pkgs)
  <2> HIDE DEF main, pkgs
  <2>1. CASE lf.format = "conaninfo"
    BY <1>2, <2>1, ReportedWhole
  <2>2. CASE lf.format = "gemfile"
    BY <1>2, <2>2, ReportedWhole
  <2>3. CASE lf.format = "mix"
    BY <1>2, <2>3, ReportedWhole
  <2> QED BY <1>1, <2>1, <2>2, <2>3 DEF ByLine
<1>4. LockAllowed(lf) /\ LastLine \in Int /\ LastLine >= -1
  <2>1. LockAllowed(lf)
    BY <1>1, FilesAllowed
  <2>2. Len(lf.lines) \in Nat
    BY <1>1, <2>1 DEF LockAllowed
  <2> QED BY <2>1, <2>2 DEF LastLine
<1>5. lfAt \in Nat /\ 1..(lfAt - 1) = 1..LastLine
  <2>1. lfAt \in Nat \ {0} /\ (lfAt <= LastLine + 1 \/ lfAt = 1)
    BY <1>1 DEF LinesRead, AtALine
  <2>2. CASE lfAt <= LastLine + 1
    <3>1. lfAt - 1 = LastLine
      BY <1>1, <1>4, <2>1, <2>2
    <3> QED BY <2>1, <3>1
  <2>3. CASE lfAt = 1
    BY <1>1, <1>4, <2>3
  <2> QED BY <2>1, <2>2, <2>3
<1>6. /\ \A i : SectionBefore(i)' = SectionBefore(i)
      /\ LastLine' = LastLine
      /\ GemsRead(LastLine)' = GemsRead(lfAt - 1)
      /\ MixRead(LastLine)' = MixRead(lfAt - 1)
  <2>1. LastLine' = LastLine
    BY <1>3 DEF LastLine, Unterminated
  <2>2. \A i : SectionBefore(i)' = SectionBefore(i)
    BY <1>3 DEF SectionBefore
  <2>3. GemsRead(LastLine)' = GemsRead(lfAt - 1)
    BY <1>3, <1>5, <2>1, <2>2 DEF GemsRead
  <2>4. MixRead(LastLine)' = MixRead(lfAt - 1)
    BY <1>3, <1>5, <2>1 DEF MixRead
  <2> QED BY <2>1, <2>2, <2>3, <2>4
<1>7. LinesDone'
  <2>1. LockAllowed(lf)'
    BY <1>3, <1>4 DEF LockAllowed, ByLine, IsCargoSource, IsCargoAsked, SourceAsked
  <2>2. (lf.format = "gemfile" => lfFound.packages = GemsRead(LastLine))'
    BY <1>1, <1>3, <1>6 DEF LinesRead, GemLines
  <2>3. ASSUME lf.format = "mix"
        PROVE  /\ lfFound'.packages = MixRead(LastLine)'
               /\ lfFound'.errors = 0 => LastLine \in Nat /\ \A i \in 1..LastLine : lf.lines[i].is = "entry"
    <3>1. /\ lfFound.packages = MixRead(lfAt - 1) /\ lfFound.errors \in Nat
          /\ lfFound.errors = 0 => \A i \in 1..(lfAt - 1) : lf.lines[i].is = "entry"
      BY <1>1, <2>3 DEF LinesRead, MixLines
    <3>2. ASSUME lfFound'.errors = 0
          PROVE  LastLine \in Nat /\ \A i \in 1..LastLine : lf.lines[i].is = "entry"
      <4>1. lfFound.errors = 0 /\ pkgs # {}
        BY <1>3, <2>3, <3>1, <3>2 DEF OneIfEmpty
      <4>2. 1..LastLine # {}
        BY <1>5, <3>1, <4>1 DEF MixRead
      <4> QED BY <1>4, <1>5, <3>1, <4>1, <4>2
    <3> QED BY <1>3, <1>6, <2>3, <3>1, <3>2
  <2>4. ASSUME lf.format = "conaninfo"
        PROVE  \A i \in 1..LastLine : lf.lines[i].is = "reference" /\ SectionBefore(i) = "full_requires" =>
                 ConanRequires(lf.lines[i].name) \in lfFound'.packages
    BY <1>1, <1>3, <1>5, <2>4 DEF LinesRead, ConanLines
  <2>5. lf.format = "conaninfo" =>
          /\ main.name = "main" /\ lfFound'.packages = pkgs \cup {main} /\ lfFound'.edges = pkgs \X {main}
    BY <1>3
  <2>6. (lf.format = "mix" =>
           /\ lfFound.packages = MixRead(LastLine)
           /\ lfFound.errors = 0 => LastLine \in Nat /\ \A i \in 1..LastLine : lf.lines[i].is = "entry")'
    BY <1>3, <1>6, <2>3
  <2> HIDE DEF main, pkgs
  <2>7. (lf.format = "conaninfo" =>
           \E m, others : /\ m.name = "main"
                          /\ lfFound.packages = others \cup {m} /\ lfFound.edges = others \X {m})'
    BY <1>3, <2>5
  <2>8. (lf.format = "conaninfo" =>
           \A i \in 1..LastLine : lf.lines[i].is = "reference" /\ SectionBefore(i) = "full_requires" =>
             ConanRequires(lf.lines[i].name) \in lfFound.packages)'
    BY <1>3, <1>6, <2>4 DEF ConanRequires
  <2> QED BY <2>1, <2>2, <2>6, <2>7, <2>8 DEF LinesDone
<1>8. LinesAccounted'
  BY <1>7, LinesOver, PTL
<1>9. LocksRead'
  BY <1>1, <1>3, <1>8 DEF LocksRead, CargoExact, ConanKnown, LinkedOnce, ByLine
<1> QED BY <1>3, <1>9

\* The invariant is about the variables of the module only.
LEMMA LocksStutter == LocksInv /\ UNCHANGED lfVars => LocksInv'
<1> SUFFICES ASSUME LocksInv, UNCHANGED lfVars PROVE LocksInv'
  OBVIOUS
<1>1. lf' = lf /\ lfAt' = lfAt /\ section' = section /\ recipe' = recipe /\ lfFound' = lfFound
  BY DEF lfVars
<1>2. LastLine' = LastLine /\ \A i : SectionBefore(i)' = SectionBefore(i)
  BY <1>1 DEF LastLine, Unterminated, SectionBefore
<1>3. GemsRead(lfAt - 1)' = GemsRead(lfAt - 1) /\ MixRead(lfAt - 1)' = MixRead(lfAt - 1)
      /\ SectionBefore(lfAt)' = SectionBefore(lfAt)
  BY <1>1, <1>2 DEF GemsRead, MixRead, SectionBefore
<1>4. LinesRead => LinesRead'
  BY <1>1, <1>2, <1>3 DEF LinesRead, AtALine, GemLines, MixLines, ConanLines, ConanRequires
<1>5. LocksRead'
  <2>1. Listed' = Listed
    BY <1>1 DEF Listed
  <2>2. EntriesListed' = EntriesListed
    BY <1>1, <2>1 DEF EntriesListed
  <2>0. CargoExact /\ ConanKnown /\ LinkedOnce
    BY DEF LocksInv, LocksRead
  <2>3. CargoExact'
    BY <1>1, <2>0, Zenon DEF CargoExact
  <2>6. ConanKnown'
    BY <1>1, <2>0, Zenon DEF ConanKnown
  <2> DEFINE P(l, found, listed) ==
        found.done /\ l.format = "dotnet" =>
          /\ \A v \in found.packages :
               LET ofV == {e[2] : e \in {e \in listed : e[1] = v[1] /\ e[2].resolved = v[2]}}
               IN  \A n \in UNION {DOMAIN e.dependencies : e \in ofV} :
                     LET linked == {w \in found.packages : w[1] = n /\ <<v, w>> \in found.edges}
                         asked == {e.dependencies[n] : e \in {e \in ofV : n \in DOMAIN e.dependencies}}
                     IN  /\ Cardinality(linked) <= 1
                         /\ (\A e \in ofV : n \in DOMAIN e.dependencies) /\ n \in {w[1] : w \in found.packages} =>
                              linked # {}
                         /\ linked # {} /\ {n} \X asked \subseteq found.packages => linked \subseteq {n} \X asked
          /\ \A e \in found.edges : \E x \in listed :
               x[1] = e[1][1] /\ x[2].resolved = e[1][2] /\ e[2][1] \in DOMAIN x[2].dependencies
  <2>7. LinkedOnce <=> P(lf, lfFound, EntriesListed)
    BY Zenon DEF LinkedOnce
  <2>8. LinkedOnce' <=> P(lf', lfFound', EntriesListed')
    BY Zenon DEF LinkedOnce
  <2> HIDE DEF P
  <2>4. LinkedOnce'
    BY <1>1, <2>0, <2>2, <2>7, <2>8
  <2>5. LinesAccounted'
    BY <1>1, <1>2 DEF LocksInv, LocksRead, LinesAccounted, ConanRequires
  <2> QED BY <2>3, <2>4, <2>5, <2>6 DEF LocksRead
<1> QED BY <1>1, <1>4, <1>5 DEF LocksInv, FoundShape

\* Every step keeps the invariant.
LEMMA LocksNext == LocksInv /\ [LfNext]_lfVars => LocksInv'
<1> SUFFICES ASSUME LocksInv, LfNext PROVE LocksInv'
  BY LocksStutter
<1> QED BY CargoKeeps, ConanKeeps, PackagesLockKeeps, OthersKeep, LineKeeps, EndKeeps DEF LfNext

\* As long as a file is read by the line, what is reported is what the lines up
\* to the next one say, in the section they are in; and LocksRead holds of every
\* file that has been read, whatever it says.
THEOREM LocksInvariant == LfSpec => []LocksInv
BY LocksStart, LocksNext, PTL DEF LfSpec

\* What is reported of every lock file is what it states: a link for all a
\* dependency says and one for each, and of its lines those of the sections that
\* count (parse_cargo_lock.go:45-86, parse_conanlock.go, parse_packages_lock.go,
\* parse_gemfile_lock.go, parse_mix_lock.go).
THEOREM LocksAreRead == LfSpec => []LocksRead
<1>1. LocksInv => LocksRead
  BY DEF LocksInv
<1> QED BY <1>1, LocksInvariant, PTL
=============================================================================
