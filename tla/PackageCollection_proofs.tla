------------------------ MODULE PackageCollection_proofs -------------------
(***************************************************************************)
(* The indexes of the package collection are exact after any calls, and    *)
(* the collection implements the map of PackageMap.                        *)
(***************************************************************************)
EXTENDS PackageCollection, SequenceTheorems, TLAPS

-----------------------------------------------------------------------------
(* Ordered ID sets.                                                        *)

\* An empty list lists nothing.
LEMMA EmptyLists == <<>> \in Seq(PkgID) /\ Lists(<<>>, {})
  BY DEF Lists, Range, IsInjective

\* Inserting an ID adds it to what is listed and repeats nothing.
LEMMA InsertLists ==
  ASSUME NEW s \in Seq(PkgID), NEW S, Lists(s, S), NEW id \in PkgID
  PROVE  Insert(s, id) \in Seq(PkgID) /\ Lists(Insert(s, id), S \cup {id})
<1>1. CASE id \in Range(s)
  BY <1>1 DEF Insert, Lists
<1>2. CASE id \notin Range(s)
  <2> DEFINE t == Append(s, id)
  <2>1. /\ t \in Seq(PkgID)
        /\ DOMAIN t = 1 .. (Len(s) + 1)
        /\ DOMAIN s = 1 .. Len(s)
        /\ \A n \in 1 .. Len(s) : t[n] = s[n]
        /\ t[Len(s) + 1] = id
        /\ Len(s) \in Nat
    OBVIOUS
  <2>2. Range(t) = Range(s) \cup {id}
    BY <2>1 DEF Range
  <2>3. IsInjective(t)
    BY <1>2, <2>1 DEF IsInjective, Range, Lists
  <2> QED BY <1>2, <2>1, <2>2, <2>3 DEF Insert, Lists
<1> QED BY <1>1, <1>2

\* The first occurrence of a listed ID exists.
LEMMA FirstAtFinds ==
  ASSUME NEW s \in Seq(PkgID), NEW id \in Range(s), IsInjective(s)
  PROVE  FirstAt(s, id) \in 1 .. Len(s) /\ s[FirstAt(s, id)] = id
<1>1. PICK n \in DOMAIN s : s[n] = id
  BY DEF Range
<1>2. DOMAIN s = 1 .. Len(s) /\ Len(s) \in Nat
  OBVIOUS
<1>3. \A m \in 1 .. (n - 1) : s[m] # id
  BY <1>1, <1>2 DEF IsInjective
<1> QED BY <1>1, <1>2, <1>3 DEF FirstAt

\* Removing a position moves what follows it one position down.
LEMMA RemoveAtShifts ==
  ASSUME NEW s \in Seq(PkgID), NEW k \in 1 .. Len(s)
  PROVE  /\ RemoveAt(s, k) \in Seq(PkgID)
         /\ Len(RemoveAt(s, k)) = Len(s) - 1
         /\ \A n \in 1 .. (Len(s) - 1) :
               RemoveAt(s, k)[n] = IF n < k THEN s[n] ELSE s[n + 1]
<1> DEFINE u == SubSeq(s, 1, k - 1)
           v == SubSeq(s, k + 1, Len(s))
<1>1. Len(s) \in Nat /\ k \in Int /\ 1 <= k /\ k <= Len(s)
  OBVIOUS
<1>2. /\ u \in Seq(PkgID)
      /\ Len(u) = k - 1
      /\ \A n \in 1 .. (k - 1) : u[n] = s[n]
  <2>1. \A n \in 1 .. (k - 1) : s[n] \in PkgID
    BY <1>1
  <2> QED BY <1>1, <2>1, SubSeqProperties
<1>3. /\ v \in Seq(PkgID)
      /\ Len(v) = Len(s) - k
      /\ \A n \in 1 .. (Len(s) - k) : v[n] = s[k + n]
  <2>1. \A n \in (k + 1) .. Len(s) : s[n] \in PkgID
    BY <1>1
  <2>2. /\ v \in Seq(PkgID)
        /\ Len(v) = IF k + 1 <= Len(s) THEN Len(s) - (k + 1) + 1 ELSE 0
        /\ \A n \in 1 .. (Len(s) - (k + 1) + 1) : v[n] = s[(k + 1) + n - 1]
    BY <1>1, <2>1, SubSeqProperties
  <2> HIDE DEF v
  <2>3. Len(v) = Len(s) - k
    BY <1>1, <2>2
  <2>4. ASSUME NEW n \in 1 .. (Len(s) - k) PROVE v[n] = s[k + n]
    <3>1. (k + 1) + n - 1 = k + n /\ n \in 1 .. (Len(s) - (k + 1) + 1)
      BY <1>1
    <3> QED BY <3>1, <2>2
  <2> QED BY <2>2, <2>3, <2>4
<1>4. /\ u \o v \in Seq(PkgID)
      /\ Len(u \o v) = Len(u) + Len(v)
      /\ \A n \in 1 .. (Len(u) + Len(v)) :
            (u \o v)[n] = IF n <= Len(u) THEN u[n] ELSE v[n - Len(u)]
  BY <1>2, <1>3, ConcatProperties
<1>5. RemoveAt(s, k) = u \o v
  BY DEF RemoveAt
<1> HIDE DEF u, v
<1>6. ASSUME NEW n \in 1 .. (Len(s) - 1)
      PROVE  (u \o v)[n] = IF n < k THEN s[n] ELSE s[n + 1]
  <2>1. CASE n < k
    BY <1>1, <1>2, <1>3, <1>4, <2>1
  <2>2. CASE ~(n < k)
    <3>1. n \in 1 .. (Len(u) + Len(v)) /\ ~(n <= Len(u))
      BY <1>1, <1>2, <1>3, <2>2
    <3>2. (u \o v)[n] = v[n - (k - 1)]
      BY <1>2, <1>4, <3>1
    <3>3. n \in Int /\ k <= n /\ n <= Len(s) - 1
      BY <1>1, <2>2
    <3>4. n - (k - 1) \in 1 .. (Len(s) - k) /\ k + (n - (k - 1)) = n + 1
      BY <1>1, <3>3
    <3>5. v[n - (k - 1)] = s[k + (n - (k - 1))]
      BY <1>3, <3>4
    <3> QED BY <2>2, <3>2, <3>4, <3>5
  <2> QED BY <2>1, <2>2
<1>7. Len(u \o v) = Len(s) - 1
  BY <1>1, <1>2, <1>3, <1>4
<1> QED BY <1>4, <1>5, <1>6, <1>7

\* Removing an ID takes it from what is listed, and nothing else.
LEMMA WithoutLists ==
  ASSUME NEW s \in Seq(PkgID), NEW S, Lists(s, S), NEW id \in PkgID
  PROVE  Without(s, id) \in Seq(PkgID) /\ Lists(Without(s, id), S \ {id})
<1>1. CASE id \notin Range(s)
  BY <1>1 DEF Without, Lists
<1>2. CASE id \in Range(s)
  <2> DEFINE k == FirstAt(s, id)
             t == RemoveAt(s, k)
  <2>1. k \in 1 .. Len(s) /\ s[k] = id
    BY <1>2, FirstAtFinds DEF Lists
  <2> HIDE DEF k
  <2>2. /\ Len(s) \in Nat /\ DOMAIN s = 1 .. Len(s)
        /\ \A n \in 1 .. Len(s) : s[n] \in PkgID
    OBVIOUS
  <2>5. /\ t \in Seq(PkgID)
        /\ Len(t) = Len(s) - 1
        /\ \A n \in 1 .. (Len(s) - 1) : t[n] = IF n < k THEN s[n] ELSE s[n + 1]
    BY <2>1, RemoveAtShifts
  <2> HIDE DEF t
  <2>6. DOMAIN t = 1 .. (Len(s) - 1)
    BY <2>5, <2>2
  <2>7. IsInjective(t)
    <3> SUFFICES ASSUME NEW a \in DOMAIN t, NEW b \in DOMAIN t, t[a] = t[b]
                 PROVE  a = b
      BY DEF IsInjective
    <3> DEFINE from(n) == IF n < k THEN n ELSE n + 1
    <3>1. /\ from(a) \in DOMAIN s /\ t[a] = s[from(a)]
          /\ from(b) \in DOMAIN s /\ t[b] = s[from(b)]
      BY <2>1, <2>2, <2>5, <2>6
    <3>2. from(a) = from(b)
      BY <3>1 DEF Lists, IsInjective
    <3> QED BY <3>2, <2>1, <2>2, <2>6
  <2>8. Range(t) = Range(s) \ {id}
    <3>1. ASSUME NEW x \in Range(t) PROVE x \in Range(s) \ {id}
      <4>1. PICK n \in 1 .. (Len(s) - 1) : x = t[n]
        BY <2>6 DEF Range
      <4>2. PICK m \in 1 .. Len(s) : m # k /\ x = s[m]
        BY <4>1, <2>1, <2>2, <2>5
      <4> QED BY <4>2, <2>1, <2>2 DEF Range, Lists, IsInjective
    <3>2. ASSUME NEW x \in Range(s) \ {id} PROVE x \in Range(t)
      <4>1. PICK m \in 1 .. Len(s) : x = s[m]
        BY <2>2 DEF Range
      <4>2. m # k
        BY <4>1, <2>1
      <4>3. CASE m < k
        BY <4>1, <4>3, <2>1, <2>2, <2>5, <2>6 DEF Range
      <4>4. CASE m > k
        <5>1. m - 1 \in DOMAIN t /\ t[m - 1] = s[m]
          BY <4>4, <2>1, <2>2, <2>5, <2>6
        <5> QED BY <5>1, <4>1 DEF Range
      <4> QED BY <4>2, <4>3, <4>4, <2>1, <2>2
    <3> QED BY <3>1, <3>2
  <2> QED BY <1>2, <2>5, <2>7, <2>8 DEF Without, Lists, t, k
<1> QED BY <1>1, <1>2

\* Lists of different things concatenate.
LEMMA ConcatLists ==
  ASSUME NEW s \in Seq(PkgID), NEW S, Lists(s, S),
         NEW t \in Seq(PkgID), NEW T, Lists(t, T), S \cap T = {}
  PROVE  s \o t \in Seq(PkgID) /\ Lists(s \o t, S \cup T)
<1> DEFINE u == s \o t
<1>1. /\ u \in Seq(PkgID)
      /\ Len(s) \in Nat /\ DOMAIN s = 1 .. Len(s)
      /\ Len(t) \in Nat /\ DOMAIN t = 1 .. Len(t)
      /\ DOMAIN u = 1 .. (Len(s) + Len(t))
      /\ \A n \in DOMAIN u : u[n] = IF n <= Len(s) THEN s[n] ELSE t[n - Len(s)]
  BY ConcatProperties
<1> HIDE DEF u
<1>2. \A n \in DOMAIN u : /\ n <= Len(s) => n \in DOMAIN s /\ u[n] = s[n] /\ u[n] \in S
                          /\ n > Len(s) => /\ n - Len(s) \in DOMAIN t
                                           /\ u[n] = t[n - Len(s)] /\ u[n] \in T
  BY <1>1 DEF Lists, Range
<1>3. IsInjective(u)
  BY <1>1, <1>2 DEF Lists, IsInjective
<1>4. Range(u) \subseteq S \cup T
  BY <1>1, <1>2 DEF Range
<1>5. S \subseteq Range(u)
  BY <1>1 DEF Range, Lists
<1>6. ASSUME NEW x \in T PROVE x \in Range(u)
  <2>1. PICK n \in DOMAIN t : x = t[n]
    BY DEF Lists, Range
  <2>2. n + Len(s) \in DOMAIN u /\ u[n + Len(s)] = t[n]
    BY <1>1
  <2> QED BY <2>1, <2>2 DEF Range
<1> QED BY <1>1, <1>3, <1>4, <1>5, <1>6 DEF Lists, u

-----------------------------------------------------------------------------
(* The inductive invariant.                                                *)

USE HashAssumption
USE DEF query

\* What can be asked.
LEMMA QueryTyped ==
  /\ \A n \in Name : <<"name", n>> \in Query
  /\ \A q \in PkgPath : <<"path", q>> \in Query
  /\ \A T \in SUBSET PType : <<"types", T>> \in Query
BY DEF Query

\* Inserting into the entries of some paths.
LEMMA WithPathsLists ==
  ASSUME TypeOK, IndexesExact, NEW id \in PkgID, NEW P \in SUBSET PkgPath
  PROVE  /\ WithPaths(id, P) \in [PkgPath -> Seq(PkgID)]
         /\ \A q \in P : Lists(WithPaths(id, P)[q], {i \in held : q \in paths[i]} \cup {id})
         /\ \A q \in PkgPath \ P : Lists(WithPaths(id, P)[q], {i \in held : q \in paths[i]})
<1>1. ASSUME NEW q \in PkgPath
      PROVE  /\ WithPaths(id, P)[q] = IF q \in P THEN Insert(byPath[q], id) ELSE byPath[q]
             /\ byPath[q] \in Seq(PkgID) /\ Insert(byPath[q], id) \in Seq(PkgID)
             /\ Lists(byPath[q], {i \in held : q \in paths[i]})
             /\ Lists(Insert(byPath[q], id), {i \in held : q \in paths[i]} \cup {id})
  BY InsertLists DEF TypeOK, IndexesExact, WithPaths
<1>2. WithPaths(id, P) \in [PkgPath -> Seq(PkgID)]
  BY <1>1 DEF WithPaths
<1> QED BY <1>1, <1>2

\* It holds of the empty collection.
LEMMA InitInv == Init => CollInv
<1> SUFFICES ASSUME Init PROVE CollInv
  OBVIOUS
<1>1. TypeOK
  BY EmptyLists, QueryTyped DEF Init, TypeOK
<1>2. IndexesExact
  BY EmptyLists DEF Init, IndexesExact
<1> QED BY <1>1, <1>2 DEF Init, CollInv, WalkExact, NothingLeft

\* A package that is new.
LEMMA AddNewInv ==
  ASSUME CollInv, NEW id \in PkgID, NEW P \in SUBSET PkgPath, AddNew(id, P)
  PROVE  CollInv'
<1>p. /\ WithPaths(id, P) \in [PkgPath -> Seq(PkgID)]
      /\ \A q \in P : Lists(WithPaths(id, P)[q], {i \in held : q \in paths[i]} \cup {id})
      /\ \A q \in PkgPath \ P : Lists(WithPaths(id, P)[q], {i \in held : q \in paths[i]})
  BY ONLY CollInv, id \in PkgID, P \in SUBSET PkgPath, WithPathsLists DEF CollInv
<1> USE DEF CollInv, AddNew, walk
<1>1. /\ NameOf[id] \in Name /\ TypeOf[id] \in PType
      /\ byName[NameOf[id]] \in Seq(PkgID) /\ byType[TypeOf[id]] \in Seq(PkgID)
  BY DEF TypeOK
<1>2. /\ Insert(byName[NameOf[id]], id) \in Seq(PkgID)
      /\ Lists(Insert(byName[NameOf[id]], id),
               {i \in held : NameOf[i] = NameOf[id]} \cup {id})
  BY <1>1, InsertLists DEF IndexesExact
<1>3. /\ Insert(byType[TypeOf[id]], id) \in Seq(PkgID)
      /\ Lists(Insert(byType[TypeOf[id]], id),
               {i \in held : TypeOf[i] = TypeOf[id]} \cup {id})
  BY <1>1, InsertLists DEF IndexesExact
<1>4. TypeOK'
  BY <1>1, <1>2, <1>3, WithPathsLists DEF TypeOK
<1>5. \A n \in Name : Lists(byName'[n], {i \in held' : NameOf[i] = n})
  <2> SUFFICES ASSUME NEW n \in Name
               PROVE  Lists(byName'[n], {i \in held' : NameOf[i] = n})
    OBVIOUS
  <2>1. CASE n = NameOf[id]
    <3>1. {i \in held' : NameOf[i] = n} = {i \in held : NameOf[i] = n} \cup {id}
      BY <2>1
    <3> QED BY <2>1, <3>1, <1>2 DEF TypeOK
  <2>2. CASE n # NameOf[id]
    <3>1. {i \in held' : NameOf[i] = n} = {i \in held : NameOf[i] = n}
      BY <2>2
    <3> QED BY <2>2, <3>1 DEF TypeOK, IndexesExact
  <2> QED BY <2>1, <2>2
<1>6. \A t \in PType : Lists(byType'[t], {i \in held' : TypeOf[i] = t})
  <2> SUFFICES ASSUME NEW t \in PType
               PROVE  Lists(byType'[t], {i \in held' : TypeOf[i] = t})
    OBVIOUS
  <2>1. CASE t = TypeOf[id]
    <3>1. {i \in held' : TypeOf[i] = t} = {i \in held : TypeOf[i] = t} \cup {id}
      BY <2>1
    <3> QED BY <2>1, <3>1, <1>3 DEF TypeOK
  <2>2. CASE t # TypeOf[id]
    <3>1. {i \in held' : TypeOf[i] = t} = {i \in held : TypeOf[i] = t}
      BY <2>2
    <3> QED BY <2>2, <3>1 DEF TypeOK, IndexesExact
  <2> QED BY <2>1, <2>2
<1>7. \A q \in PkgPath : Lists(byPath'[q], {i \in held' : q \in paths'[i]})
  <2> SUFFICES ASSUME NEW q \in PkgPath
               PROVE  Lists(byPath'[q], {i \in held' : q \in paths'[i]})
    OBVIOUS
  <2>1. CASE q \in P
    <3>1. {i \in held' : q \in paths'[i]} = {i \in held : q \in paths[i]} \cup {id}
      BY <2>1 DEF TypeOK
    <3>2. Lists(WithPaths(id, P)[q], {i \in held : q \in paths[i]} \cup {id})
      BY <2>1, <1>p
    <3>3. byPath' = WithPaths(id, P)
      OBVIOUS
    <3> QED BY ONLY <3>1, <3>2, <3>3
  <2>2. CASE q \notin P
    <3>1. {i \in held' : q \in paths'[i]} = {i \in held : q \in paths[i]}
      BY <2>2 DEF TypeOK
    <3>2. Lists(WithPaths(id, P)[q], {i \in held : q \in paths[i]})
      BY <2>2, <1>p
    <3>3. byPath' = WithPaths(id, P)
      OBVIOUS
    <3> QED BY ONLY <3>1, <3>2, <3>3
  <2> QED BY <2>1, <2>2
<1>8. WalkExact'
  BY DEF Unlocked, WalkExact
<1>9. NothingLeft'
  BY DEF TypeOK, NothingLeft
<1> QED BY <1>4, <1>5, <1>6, <1>7, <1>8, <1>9 DEF IndexesExact

\* A package that is merged into another.
LEMMA MergeInv ==
  ASSUME CollInv, NEW id \in PkgID, NEW P \in SUBSET PkgPath, Merge(id, P)
  PROVE  CollInv'
<1>p. /\ WithPaths(id, P) \in [PkgPath -> Seq(PkgID)]
      /\ \A q \in P : Lists(WithPaths(id, P)[q], {i \in held : q \in paths[i]} \cup {id})
      /\ \A q \in PkgPath \ P : Lists(WithPaths(id, P)[q], {i \in held : q \in paths[i]})
  BY ONLY CollInv, id \in PkgID, P \in SUBSET PkgPath, WithPathsLists DEF CollInv
<1> USE DEF CollInv, Merge, walk
<1>1. TypeOK'
  BY WithPathsLists DEF TypeOK
<1>2. ASSUME NEW q \in PkgPath
      PROVE  Lists(byPath'[q], {i \in held' : q \in paths'[i]})
  <2>1. CASE q \in P
    <3>1. {i \in held' : q \in paths'[i]} = {i \in held : q \in paths[i]} \cup {id}
      BY <2>1 DEF TypeOK
    <3>2. Lists(WithPaths(id, P)[q], {i \in held : q \in paths[i]} \cup {id})
      BY <2>1, <1>p
    <3>3. byPath' = WithPaths(id, P)
      OBVIOUS
    <3> QED BY ONLY <3>1, <3>2, <3>3
  <2>2. CASE q \notin P
    <3>1. {i \in held' : q \in paths'[i]} = {i \in held : q \in paths[i]}
      BY <2>2 DEF TypeOK
    <3>2. Lists(WithPaths(id, P)[q], {i \in held : q \in paths[i]})
      BY <2>2, <1>p
    <3>3. byPath' = WithPaths(id, P)
      OBVIOUS
    <3> QED BY ONLY <3>1, <3>2, <3>3
  <2> QED BY <2>1, <2>2
<1>3. IndexesExact'
  BY <1>2 DEF IndexesExact
<1>4. WalkExact'
  BY DEF Unlocked, WalkExact
<1>5. NothingLeft'
  BY DEF TypeOK, NothingLeft
<1> QED BY <1>1, <1>3, <1>4, <1>5

\* A package that is deleted.
LEMMA DeleteOneInv ==
  ASSUME CollInv, NEW id \in PkgID, DeleteOne(id)
  PROVE  CollInv'
<1> USE DEF CollInv, DeleteOne, walk
<1>1. /\ id \in held
      /\ NameOf[id] \in Name /\ TypeOf[id] \in PType /\ ~enumerating
  BY DEF TypeOK
<1>2. /\ held' = held \ {id}
      /\ paths' = [paths EXCEPT ![id] = {}]
      /\ byName' = [byName EXCEPT ![NameOf[id]] = Without(@, id)]
      /\ byType' = [byType EXCEPT ![TypeOf[id]] = Without(@, id)]
      /\ byPath' = [q \in PkgPath |-> IF q \in paths[id] THEN Without(byPath[q], id)
                                                       ELSE byPath[q]]
      /\ UNCHANGED <<deleting, enumerating, types, visited, sent, asked, answer>>
  OBVIOUS
<1> HIDE DEF DeleteOne
<1>3. /\ Without(byName[NameOf[id]], id) \in Seq(PkgID)
      /\ Lists(Without(byName[NameOf[id]], id),
               {i \in held : NameOf[i] = NameOf[id]} \ {id})
  BY <1>1, WithoutLists DEF TypeOK, IndexesExact
<1>4. /\ Without(byType[TypeOf[id]], id) \in Seq(PkgID)
      /\ Lists(Without(byType[TypeOf[id]], id),
               {i \in held : TypeOf[i] = TypeOf[id]} \ {id})
  BY <1>1, WithoutLists DEF TypeOK, IndexesExact
<1>5. ASSUME NEW q \in PkgPath
      PROVE  /\ Without(byPath[q], id) \in Seq(PkgID)
             /\ Lists(Without(byPath[q], id), {i \in held : q \in paths[i]} \ {id})
  BY <1>1, WithoutLists DEF TypeOK, IndexesExact
<1>6. TypeOK'
  BY <1>1, <1>2, <1>3, <1>4, <1>5 DEF TypeOK
<1>7. ASSUME NEW n \in Name
      PROVE  Lists(byName'[n], {i \in held' : NameOf[i] = n})
  <2>1. CASE n = NameOf[id]
    <3>1. {i \in held' : NameOf[i] = n} = {i \in held : NameOf[i] = n} \ {id}
      BY <1>2
    <3> QED BY <2>1, <3>1, <1>1, <1>2, <1>3 DEF TypeOK
  <2>2. CASE n # NameOf[id]
    <3>1. {i \in held' : NameOf[i] = n} = {i \in held : NameOf[i] = n}
      BY <2>2, <1>2
    <3>2. byName'[n] = byName[n]
      BY <2>2, <1>1, <1>2 DEF TypeOK
    <3> QED BY <3>1, <3>2 DEF IndexesExact
  <2> QED BY <2>1, <2>2
<1>8. ASSUME NEW t \in PType
      PROVE  Lists(byType'[t], {i \in held' : TypeOf[i] = t})
  <2>1. CASE t = TypeOf[id]
    <3>1. {i \in held' : TypeOf[i] = t} = {i \in held : TypeOf[i] = t} \ {id}
      BY <1>2
    <3> QED BY <2>1, <3>1, <1>1, <1>2, <1>4 DEF TypeOK
  <2>2. CASE t # TypeOf[id]
    <3>1. {i \in held' : TypeOf[i] = t} = {i \in held : TypeOf[i] = t}
      BY <2>2, <1>2
    <3>2. byType'[t] = byType[t]
      BY <2>2, <1>1, <1>2 DEF TypeOK
    <3> QED BY <3>1, <3>2 DEF IndexesExact
  <2> QED BY <2>1, <2>2
<1>9. ASSUME NEW q \in PkgPath
      PROVE  Lists(byPath'[q], {i \in held' : q \in paths'[i]})
  <2>1. {i \in held' : q \in paths'[i]} = {i \in held : q \in paths[i]} \ {id}
    BY <1>1, <1>2 DEF TypeOK
  <2>2. CASE q \in paths[id]
    BY <2>1, <2>2, <1>2, <1>5
  <2>3. CASE q \notin paths[id]
    <3>1. {i \in held : q \in paths[i]} \ {id} = {i \in held : q \in paths[i]}
      BY <2>3
    <3> QED BY <2>1, <2>3, <3>1, <1>2 DEF IndexesExact
  <2> QED BY <2>2, <2>3
<1>10. WalkExact'
  BY <1>1, <1>2 DEF WalkExact
<1>11. NothingLeft'
  BY <1>1, <1>2 DEF TypeOK, NothingLeft
<1> QED BY <1>6, <1>7, <1>8, <1>9, <1>10, <1>11 DEF IndexesExact

\* An index entry holds known packages only, so a query filters nothing out.
LEMMA PackagesIsIdentity ==
  ASSUME NEW s, Range(s) \subseteq held
  PROVE  Packages(s) = s
BY DEF Packages

\* A type that an enumeration goes through.
LEMMA EnumerateTypeInv ==
  ASSUME CollInv, NEW t \in PType, EnumerateType(t)
  PROVE  CollInv'
<1> USE DEF CollInv, EnumerateType, indexes
<1> DEFINE S == {id \in held : TypeOf[id] \in visited}
           T == {id \in held : TypeOf[id] = t}
<1>1. byType[t] \in Seq(PkgID) /\ Lists(byType[t], T)
  BY DEF TypeOK, IndexesExact
<1>2. Packages(byType[t]) = byType[t]
  BY <1>1, PackagesIsIdentity DEF Lists
<1>3. sent \in Seq(PkgID) /\ Lists(sent, S) /\ visited \subseteq types /\ t \in types \ visited
  BY DEF TypeOK, WalkExact
<1>4. sent' = sent \o byType[t] /\ visited' = visited \cup {t}
  BY <1>2
<1>5. S \cap T = {}
  BY <1>3
<1>6. sent' \in Seq(PkgID) /\ Lists(sent', S \cup T)
  <2> HIDE DEF S, T
  <2> QED BY ONLY <1>1, <1>3, <1>4, <1>5, ConcatLists
<1>7. {id \in held' : TypeOf[id] \in visited'} = S \cup T
  BY <1>4
<1>8. TypeOK'
  BY <1>4, <1>6 DEF TypeOK
<1>9. IndexesExact'
  BY DEF IndexesExact
<1>10. WalkExact'
  BY <1>3, <1>4, <1>6, <1>7 DEF WalkExact
<1>11. NothingLeft'
  BY DEF NothingLeft
<1> QED BY <1>8, <1>9, <1>10, <1>11

\* Every step keeps the invariant.
LEMMA StepInv == CollInv /\ [Next]_vars => CollInv'
<1> SUFFICES ASSUME CollInv, [Next]_vars PROVE CollInv'
  OBVIOUS
<1>1. ASSUME NEW id \in PkgID, NEW P \in SUBSET PkgPath, AddPackage(id, P) PROVE CollInv'
  BY <1>1, AddNewInv, MergeInv DEF AddPackage
<1>2. CASE BeginDelete
  BY <1>2 DEF BeginDelete, Unlocked, CollInv, TypeOK, IndexesExact, WalkExact, NothingLeft, indexes, walk
<1>3. ASSUME NEW id \in PkgID, DeleteOne(id) PROVE CollInv'
  BY <1>3, DeleteOneInv
<1>4. CASE EndDelete
  BY <1>4 DEF EndDelete, CollInv, TypeOK, IndexesExact, WalkExact, NothingLeft, indexes, walk
<1>5. ASSUME NEW n \in Name, PackagesByName(n) PROVE CollInv'
  <2>1. byName[n] \in Seq(PkgID) /\ Packages(byName[n]) = byName[n]
    BY PackagesIsIdentity DEF CollInv, TypeOK, IndexesExact, Lists
  <2> QED BY <1>5, <2>1, QueryTyped DEF PackagesByName, CollInv, TypeOK, IndexesExact, WalkExact, NothingLeft, indexes, walk
<1>6. ASSUME NEW q \in PkgPath, PackagesByPath(q) PROVE CollInv'
  <2>1. byPath[q] \in Seq(PkgID) /\ Packages(byPath[q]) = byPath[q]
    BY PackagesIsIdentity DEF CollInv, TypeOK, IndexesExact, Lists
  <2> QED BY <1>6, <2>1, QueryTyped DEF PackagesByPath, CollInv, TypeOK, IndexesExact, WalkExact, NothingLeft, indexes, walk
<1>7. ASSUME NEW T \in SUBSET PType, BeginEnumerate(T) PROVE CollInv'
  <2>1. {id \in held' : TypeOf[id] \in visited'} = {} /\ visited' \subseteq types'
    BY <1>7 DEF BeginEnumerate
  <2>2. WalkExact'
    BY <1>7, <2>1, EmptyLists DEF BeginEnumerate, WalkExact
  <2> QED BY <1>7, <2>2, EmptyLists DEF BeginEnumerate, Unlocked, CollInv, TypeOK, IndexesExact, NothingLeft, indexes
<1>8. ASSUME NEW t \in PType, EnumerateType(t) PROVE CollInv'
  BY <1>8, EnumerateTypeInv
<1>9. CASE EndEnumerate
  BY <1>9, EmptyLists, QueryTyped DEF EndEnumerate, CollInv, TypeOK, IndexesExact, WalkExact, NothingLeft, indexes
<1>10. CASE UNCHANGED vars
  BY <1>10 DEF vars, CollInv, TypeOK, IndexesExact, WalkExact, NothingLeft, indexes, walk
<1> QED BY <1>1, <1>2, <1>3, <1>4, <1>5, <1>6, <1>7, <1>8, <1>9, <1>10 DEF Next

\* The inductive invariant holds.
THEOREM CollectionInvariant == Spec => []CollInv
  BY InitInv, StepInv, PTL DEF Spec

\* Index entries are lists of IDs, and Delete and Enumerate exclude each other.
THEOREM CollectionTypeCorrect == Spec => []TypeOK
<1>1. CollInv => TypeOK
  BY DEF CollInv
<1> QED BY <1>1, CollectionInvariant, PTL

\* After any calls each index lists exactly the packages that belong there,
\* each once (collection.go:108-249).
THEOREM CollectionIndexesExact == Spec => []IndexesExact
<1>1. CollInv => IndexesExact
  BY DEF CollInv
<1> QED BY <1>1, CollectionInvariant, PTL

-----------------------------------------------------------------------------
(* The collection implements the map.                                      *)

\* What an index entry lists is what the map is asked for.
LEMMA ListingOfLists ==
  ASSUME NEW s \in Seq(PkgID), NEW S, Lists(s, S)
  PROVE  Map!IsListing(s, S)
BY DEF Lists, Map!IsListing, Range, Map!Range, IsInjective, Map!IsInjective

\* The empty collection is the empty map.
LEMMA InitSimulates == Init => Map!Init
BY DEF Init, Map!Init

\* A step of the collection is a step of the map, or none.
LEMMA StepSimulates == CollInv /\ [Next]_vars => [Map!Next]_(Map!vars)
<1> SUFFICES ASSUME CollInv, [Next]_vars PROVE Map!Next \/ Map!vars' = Map!vars
  OBVIOUS
<1> USE DEF CollInv
<1>1. ASSUME NEW id \in PkgID, NEW P \in SUBSET PkgPath, AddPackage(id, P) PROVE Map!Next
  <2>1. CASE AddNew(id, P)
    <3>1. paths[id] = {}
      BY <2>1 DEF AddNew, NothingLeft
    <3>2. Map!AddPackage(id, P)
      BY <2>1, <3>1 DEF AddNew, Map!AddPackage
    <3> QED BY <3>2 DEF Map!Next
  <2>2. CASE Merge(id, P)
    <3>1. Map!AddPackage(id, P)
      BY <2>2 DEF Merge, Map!AddPackage
    <3> QED BY <3>1 DEF Map!Next
  <2> QED BY <1>1, <2>1, <2>2 DEF AddPackage
<1>2. CASE BeginDelete
  BY <1>2 DEF BeginDelete, Map!vars
<1>3. ASSUME NEW id \in PkgID, DeleteOne(id) PROVE Map!Next
  <2>1. Map!Delete(id)
    BY <1>3 DEF DeleteOne, Map!Delete
  <2> QED BY <2>1 DEF Map!Next
<1>4. CASE EndDelete
  BY <1>4 DEF EndDelete, Map!vars
<1>5. ASSUME NEW n \in Name, PackagesByName(n) PROVE Map!Next
  <2>1. /\ byName[n] \in Seq(PkgID)
        /\ Lists(byName[n], {id \in held : NameOf[id] = n})
        /\ Packages(byName[n]) = byName[n]
    BY PackagesIsIdentity DEF TypeOK, IndexesExact, Lists
  <2>2. Map!AskName(n)
    BY <1>5, <2>1, ListingOfLists DEF PackagesByName, Map!AskName, Map!Ask
  <2> QED BY <2>2 DEF Map!Next
<1>6. ASSUME NEW q \in PkgPath, PackagesByPath(q) PROVE Map!Next
  <2>1. /\ byPath[q] \in Seq(PkgID)
        /\ Lists(byPath[q], {id \in held : q \in paths[id]})
        /\ Packages(byPath[q]) = byPath[q]
    BY PackagesIsIdentity DEF TypeOK, IndexesExact, Lists
  <2>2. Map!AskPath(q)
    BY <1>6, <2>1, ListingOfLists DEF PackagesByPath, Map!AskPath, Map!Ask
  <2> QED BY <2>2 DEF Map!Next
<1>7. ASSUME NEW T \in SUBSET PType, BeginEnumerate(T) PROVE Map!vars' = Map!vars
  BY <1>7 DEF BeginEnumerate, Map!vars
<1>8. ASSUME NEW t \in PType, EnumerateType(t) PROVE Map!vars' = Map!vars
  BY <1>8 DEF EnumerateType, Map!vars
<1>9. CASE EndEnumerate
  <2>1. /\ sent \in Seq(PkgID)
        /\ Lists(sent, {id \in held : TypeOf[id] \in types})
        /\ types \in SUBSET PType
    BY <1>9 DEF EndEnumerate, TypeOK, WalkExact
  <2>2. Map!AskTypes(types)
    BY <1>9, <2>1, ListingOfLists DEF EndEnumerate, Map!AskTypes, Map!Ask
  <2> QED BY <2>1, <2>2 DEF Map!Next
<1>10. CASE UNCHANGED vars
  BY <1>10 DEF vars, Map!vars
<1> QED BY <1>1, <1>2, <1>3, <1>4, <1>5, <1>6, <1>7, <1>8, <1>9, <1>10 DEF Next

\* The collection is a map with queries (collection.go:47-286): every behaviour
\* of it, seen without its indexes, is one of PackageMap.
THEOREM CollectionIsMap == Spec => IsMap
<1>1. CollInv /\ [Next]_vars => [Map!Next]_(Map!vars)
  BY StepSimulates
<1>2. Init => Map!Init
  BY InitSimulates
<1> QED BY <1>1, <1>2, CollectionInvariant, PTL DEF Spec, IsMap, Map!Spec
=============================================================================
