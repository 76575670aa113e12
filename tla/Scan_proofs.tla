----------------------------- MODULE Scan_proofs ----------------------------
(***************************************************************************)
(* Proofs about a scan, for whatever it is asked for: what it runs is what *)
(* its request says, where it looks is where it should, and its reports    *)
(* are where they were to go.                                              *)
(*                                                                         *)
(* The loop that replaces "default" goes through the memory the list was   *)
(* in when it began, and writes to it while the longer list fits.  Its     *)
(* invariant (Loop) has three cases: nothing to replace so far, all so far *)
(* replaced, or one "default" that was moved and will be left over.  That  *)
(* one makes the scan fail, because no task responds to it (NoDefault).    *)
(***************************************************************************)
EXTENDS TaskSelection, ScanCommand, WellFoundedInduction, FiniteSetTheorems, TLAPS

\* Induction on the natural numbers, for the set of those that have a property.
LEMMA Inductive ==
  ASSUME NEW S, 0 \in S, \A n \in Nat : n \in S => n + 1 \in S
  PROVE  Nat \subseteq S
<1> DEFINE R == OpToRel(<, Nat)
           T == Nat \ S
<1>1. IsWellFoundedOn(R, Nat)
  BY NatLessThanWellFounded
<1>2. ASSUME T # {} PROVE FALSE
  <2>1. PICK x \in T : \A y \in T : ~(<<y, x>> \in R)
    <3> HIDE DEF R
    <3> QED BY <1>1, <1>2, WFMin
  <2>2. x # 0 /\ x - 1 \in Nat /\ x - 1 < x
    OBVIOUS
  <2>3. x - 1 \in T
    BY <2>2
  <2>4. <<x - 1, x>> \in R
    BY <2>2 DEF OpToRel
  <2> QED BY <2>1, <2>3, <2>4
<1> QED BY <1>2

-----------------------------------------------------------------------------
(* What the loop of replaceDefaultTagReferences makes of a list.           *)

\* Where the loop begins.
Begun(l) == [old |-> l.mem, new |-> List(l), same |-> TRUE]

\* f holds what the loop has made of l after each number of turns.
Turns(f, tags, l, N) ==
  f = [i \in 0..N |-> IF i = 0 THEN Begun(l) ELSE ReplaceTag(tags, i, f[i - 1])]

\* The loop can be run for any number of turns.
LEMMA TurnsExist ==
  ASSUME NEW tags, NEW l
  PROVE  \A N \in Nat : \E f : Turns(f, tags, l, N)
<1> DEFINE S == {N \in Nat : \E f : Turns(f, tags, l, N)}
<1>1. 0 \in S
  <2>1. Turns([i \in 0..0 |-> Begun(l)], tags, l, 0)
    BY DEF Turns
  <2> QED BY <2>1
<1>2. ASSUME NEW N \in Nat, N \in S PROVE N + 1 \in S
  <2>1. PICK f : Turns(f, tags, l, N)
    BY <1>2
  <2> DEFINE g == [i \in 0..(N + 1) |-> IF i <= N THEN f[i] ELSE ReplaceTag(tags, N + 1, f[N])]
  <2>2. \A i \in 0..N : g[i] = f[i] /\ f[i] = IF i = 0 THEN Begun(l) ELSE ReplaceTag(tags, i, f[i - 1])
    BY <2>1 DEF Turns
  <2>3. \A i \in 0..(N + 1) : g[i] = IF i = 0 THEN Begun(l) ELSE ReplaceTag(tags, i, g[i - 1])
    <3> SUFFICES ASSUME NEW i \in 0..(N + 1)
                 PROVE  g[i] = IF i = 0 THEN Begun(l) ELSE ReplaceTag(tags, i, g[i - 1])
      OBVIOUS
    <3>1. CASE i = N + 1
      BY <3>1, <2>2
    <3>2. CASE i \in 0..N
      <4> HIDE DEF g
      <4>1. i # 0 => i - 1 \in 0..N
        BY <3>2
      <4> QED BY <3>2, <2>2, <4>1
    <3> QED BY <3>1, <3>2
  <2>4. Turns(g, tags, l, N + 1)
    <3>1. g = [i \in 0..(N + 1) |-> g[i]]
      OBVIOUS
    <3> HIDE DEF g
    <3> QED BY <2>3, <3>1 DEF Turns
  <2> QED BY <2>4
<1>3. Nat \subseteq S
  <2> HIDE DEF S
  <2> QED BY <1>1, <1>2, Inductive
<1> QED BY <1>3

\* What it makes of l is what it has made after its last turn.
LEMMA ReplacedDef ==
  ASSUME NEW tags, NEW l, l.len \in Nat
  PROVE  \E f : Turns(f, tags, l, l.len) /\ ReplaceDefault(tags, l) = f[l.len]
<1> DEFINE f == CHOOSE g : Turns(g, tags, l, l.len)
<1>1. Turns(f, tags, l, l.len)
  <2>1. \E g : Turns(g, tags, l, l.len)
    BY TurnsExist
  <2> QED BY <2>1
<1>2. ReplaceDefault(tags, l) = f[l.len]
  BY Zenon DEF ReplaceDefault, Turns, Begun
<1> QED BY <1>1, <1>2

-----------------------------------------------------------------------------
(* One turn.                                                               *)

IsList(l) == /\ l.mem \in Seq(Range(l.mem)) /\ l.len \in 0..Len(l.mem)

\* The tokens of a list are its elements.
LEMMA ListElements ==
  ASSUME NEW l, IsList(l)
  PROVE  /\ List(l) \in Seq(Range(l.mem)) /\ Len(List(l)) = l.len
         /\ \A i \in 1..l.len : List(l)[i] = l.mem[i]
         /\ \A x : x \in Tokens(l) <=> \E i \in 1..l.len : l.mem[i] = x
<1>1. /\ List(l) \in Seq(Range(l.mem)) /\ Len(List(l)) = l.len
      /\ \A i \in 1..l.len : List(l)[i] = l.mem[i]
  BY DEF IsList, List
<1>2. DOMAIN List(l) = 1..l.len
  BY <1>1
<1> QED BY <1>1, <1>2 DEF Tokens, Range

\* The elements of a list that two are put together to.
LEMMA JoinElements ==
  ASSUME NEW X, NEW u \in Seq(X), NEW v \in Seq(X)
  PROVE  /\ u \o v \in Seq(X) /\ Len(u \o v) = Len(u) + Len(v)
         /\ \A k \in 1..Len(u) : (u \o v)[k] = u[k]
         /\ \A k \in 1..Len(v) : (u \o v)[Len(u) + k] = v[k]
OBVIOUS

\* n with the element at i replaced by two others.
Splice(n, i, a, b) == SubSeq(n, 1, i - 1) \o <<a, b>> \o SubSeq(n, i + 1, Len(n))

\* The elements of such a list.
Spliced(s, X, n, i, a, b) ==
  /\ s \in Seq(X) /\ Len(s) = Len(n) + 1
  /\ \A k \in 1..(i - 1) : s[k] = n[k]
  /\ s[i] = a /\ s[i + 1] = b
  /\ \A k \in (i + 1)..Len(n) : s[k + 1] = n[k]

\* Splice does that.
LEMMA SpliceElements ==
  ASSUME NEW X, NEW n \in Seq(X), NEW i \in 1..Len(n), NEW a \in X, NEW b \in X
  PROVE  Spliced(Splice(n, i, a, b), X, n, i, a, b)
<1> DEFINE p == SubSeq(n, 1, i - 1)
           q == SubSeq(n, i + 1, Len(n))
           t == <<a, b>>
<1>1. p \in Seq(X) /\ \A k \in 1..(i - 1) : p[k] = n[k]
  OBVIOUS
<1>2. q \in Seq(X) /\ \A k \in 1..(Len(n) - i) : q[k] = n[k + i]
  OBVIOUS
<1>3. t \in Seq(X) /\ t[1] = a /\ t[2] = b
  OBVIOUS
<1>4. Len(p) = i - 1
  OBVIOUS
<1>5. Len(q) = Len(n) - i
  OBVIOUS
<1>6. Len(t) = 2
  OBVIOUS
<1> HIDE DEF p, q, t
<1> DEFINE m == p \o t
<1>7. /\ m \in Seq(X) /\ \A k \in 1..Len(p) : m[k] = p[k]
      /\ \A k \in 1..Len(t) : m[Len(p) + k] = t[k]
  BY <1>1, <1>3, JoinElements
<1>8. Len(m) = Len(p) + Len(t)
  BY <1>1, <1>3, JoinElements
<1> HIDE DEF m
<1> DEFINE s == m \o q
<1>11. s = Splice(n, i, a, b)
  BY DEF s, m, p, q, t, Splice
<1>9. /\ s \in Seq(X) /\ \A k \in 1..Len(m) : s[k] = m[k]
      /\ \A k \in 1..Len(q) : s[Len(m) + k] = q[k]
  BY <1>2, <1>7, JoinElements
<1>10. Len(s) = Len(m) + Len(q)
  BY <1>2, <1>7, JoinElements
<1> HIDE DEF s
<1>12. Len(m) = i + 1
  BY <1>4, <1>6, <1>8
<1>13. Len(s) = Len(n) + 1
  BY <1>5, <1>10, <1>12
<1>14. ASSUME NEW k \in 1..(i - 1) PROVE s[k] = n[k]
  <2>1. k \in 1..Len(p) /\ k \in 1..Len(m)
    BY <1>4, <1>12
  <2> QED BY <2>1, <1>1, <1>7, <1>9
<1>15. s[i] = a /\ s[i + 1] = b
  <2>1. /\ 1 \in 1..Len(t) /\ 2 \in 1..Len(t)
        /\ Len(p) + 1 = i /\ Len(p) + 2 = i + 1 /\ i \in 1..Len(m) /\ i + 1 \in 1..Len(m)
    BY <1>4, <1>6, <1>12
  <2>2. m[Len(p) + 1] = t[1] /\ m[Len(p) + 2] = t[2]
    BY <2>1, <1>7
  <2> QED BY <2>1, <2>2, <1>3, <1>9
<1>16. ASSUME NEW k \in (i + 1)..Len(n) PROVE s[k + 1] = n[k]
  <2>1. /\ k - i \in 1..Len(q) /\ k - i \in 1..(Len(n) - i)
        /\ Len(m) + (k - i) = k + 1 /\ (k - i) + i = k
    BY <1>5, <1>12
  <2>2. s[Len(m) + (k - i)] = q[k - i]
    BY <2>1, <1>9
  <2>3. q[k - i] = n[(k - i) + i]
    BY <2>1, <1>2
  <2> QED BY <2>1, <2>2, <2>3
<1> QED BY <1>9, <1>11, <1>13, <1>14, <1>15, <1>16 DEF Spliced

\* Where "default" was replaced, the others are still there.
LEMMA SpliceRange ==
  ASSUME NEW X, NEW n \in Seq(X), NEW i \in 1..Len(n), NEW a \in X, NEW b \in X, NEW x,
         x # n[i]
  PROVE  x \in Range(Splice(n, i, a, b)) <=> x \in Range(n) \/ x \in {a, b}
<1> DEFINE s == Splice(n, i, a, b)
<1>0. Spliced(s, X, n, i, a, b)
  BY SpliceElements
<1> HIDE DEF s
<1>1. /\ s \in Seq(X) /\ \A k \in 1..(i - 1) : s[k] = n[k]
      /\ s[i] = a /\ s[i + 1] = b
      /\ \A k \in (i + 1)..Len(n) : s[k + 1] = n[k]
  BY <1>0 DEF Spliced
<1>2. Len(s) = Len(n) + 1
  BY <1>0 DEF Spliced
<1>3. /\ x \in Range(s) <=> \E k \in 1..Len(s) : s[k] = x
      /\ x \in Range(n) <=> \E k \in 1..Len(n) : n[k] = x
  BY <1>1 DEF Range
<1>4. ASSUME NEW k \in 1..Len(s), s[k] = x PROVE x \in Range(n) \/ x \in {a, b}
  <2>1. CASE k < i
    <3>1. k \in 1..(i - 1) /\ k \in 1..Len(n)
      BY <2>1
    <3> QED BY <3>1, <1>1, <1>3, <1>4
  <2>2. CASE k = i \/ k = i + 1
    BY <2>2, <1>1, <1>4
  <2>3. CASE k > i + 1
    <3>1. k - 1 \in (i + 1)..Len(n) /\ k - 1 \in 1..Len(n) /\ (k - 1) + 1 = k
      BY <2>3, <1>2
    <3> QED BY <3>1, <1>1, <1>3, <1>4
  <2> QED BY <2>1, <2>2, <2>3
<1>5. ASSUME NEW k \in 1..Len(n), n[k] = x PROVE x \in Range(s)
  <2>1. CASE k < i
    <3>1. k \in 1..(i - 1) /\ k \in 1..Len(s)
      BY <2>1, <1>2
    <3> QED BY <3>1, <1>1, <1>3, <1>5
  <2>2. CASE k > i
    <3>1. k \in (i + 1)..Len(n) /\ k + 1 \in 1..Len(s)
      BY <2>2, <1>2
    <3> QED BY <3>1, <1>1, <1>3, <1>5
  <2> QED BY <2>1, <2>2, <1>5
<1>6. ASSUME x \in {a, b} PROVE x \in Range(s)
  <2>1. i \in 1..Len(s) /\ i + 1 \in 1..Len(s)
    BY <1>2
  <2> QED BY <2>1, <1>1, <1>3, <1>6
<1> QED BY <1>3, <1>4, <1>5, <1>6 DEF s

\* The beginning of a memory that was written over.
LEMMA OverElements ==
  ASSUME NEW X, NEW m \in Seq(X), NEW s \in Seq(X), Len(s) <= Len(m)
  PROVE  /\ Over(m, s) \in Seq(X) /\ Len(Over(m, s)) = Len(m)
         /\ \A k \in 1..Len(s) : Over(m, s)[k] = s[k]
<1> DEFINE q == SubSeq(m, Len(s) + 1, Len(m))
<1>1. q \in Seq(X)
  OBVIOUS
<1>2. Len(q) = Len(m) - Len(s)
  OBVIOUS
<1>3. Over(m, s) = s \o q
  BY DEF Over
<1> HIDE DEF q
<1>4. /\ s \o q \in Seq(X) /\ \A k \in 1..Len(s) : (s \o q)[k] = s[k]
  BY <1>1, JoinElements
<1>5. Len(s \o q) = Len(s) + Len(q)
  BY <1>1, JoinElements
<1> QED BY <1>2, <1>3, <1>4, <1>5

-----------------------------------------------------------------------------
(* The loop.  A list without "default" is left alone.  Otherwise either    *)
(* every "default" met so far gave way to the tags, in the memory that is  *)
(* gone through or after the last one in it, or one of them will remain.   *)

\* Nothing to replace in the first i.
Left(l, i, st) == st = Begun(l) /\ \A j \in 1..i : l.mem[j] # "default"

\* All in the first i replaced, and none to come if the memory is another.
AllReplaced(l, W, i, st) ==
  /\ "default" \in Tokens(l)
  /\ \A x : x # "default" => (x \in Range(st.new) <=> x \in Tokens(l) \/ x \in W)
  /\ st.same \/ \A j \in (i + 1)..l.len : st.old[j] # "default"

\* The list is in a memory of its own, and each "default" to come in the old one
\* has been moved in it.
OneRemains(l, i, st) ==
  /\ ~st.same
  /\ "default" \in Range(st.new)
  /\ \E h \in Nat \ {0} : \A j \in (i + 1)..l.len :
       st.old[j] = "default" => j + h <= Len(st.new) /\ st.new[j + h] = "default"

Elements(l, W) == Range(l.mem) \cup W

LoopTypes(l, W, st) ==
  /\ st.old \in Seq(Elements(l, W)) /\ Len(st.old) = Len(l.mem)
  /\ st.new \in Seq(Elements(l, W)) /\ l.len <= Len(st.new)
  /\ st.same => /\ Len(st.new) <= Len(st.old)
                /\ \A k \in 1..Len(st.new) : st.old[k] = st.new[k]

Loop(l, W, i, st) ==
  /\ LoopTypes(l, W, st)
  /\ ~HasRoom(l) => st.old = l.mem
  /\ Left(l, i, st) \/ AllReplaced(l, W, i, st) \/ OneRemains(l, i, st)

\* Before the first turn.
LEMMA LoopBegins ==
  ASSUME NEW l, IsList(l), NEW W
  PROVE  Loop(l, W, 0, Begun(l))
<1>1. Begun(l).old = l.mem /\ Begun(l).new = List(l) /\ Begun(l).same
  BY DEF Begun
<1>2. Range(l.mem) \subseteq Elements(l, W) /\ l.mem \in Seq(Elements(l, W)) /\ Len(l.mem) \in Nat
  BY DEF IsList, Elements
<1>3. /\ List(l) \in Seq(Elements(l, W)) /\ Len(List(l)) = l.len /\ l.len <= Len(l.mem)
      /\ \A i \in 1..l.len : List(l)[i] = l.mem[i]
  BY <1>2, ListElements DEF IsList
<1>4. LoopTypes(l, W, Begun(l))
  BY <1>1, <1>2, <1>3 DEF LoopTypes, IsList
<1>5. Left(l, 0, Begun(l))
  BY DEF Left
<1> QED BY <1>1, <1>4, <1>5 DEF Loop

\* A turn at "default" in the memory both lists are in.
LEMMA TurnInPlace ==
  ASSUME NEW l, IsList(l), NEW a, NEW b, a # "default", b # "default",
         NEW i \in 1..l.len, NEW st, Loop(l, {a, b}, i - 1, st),
         st.same, st.old[i] = "default"
  PROVE  Loop(l, {a, b}, i, ReplaceTag(<<a, b>>, i, st))
<1> DEFINE W == {a, b}
           X == Elements(l, W)
           s == Splice(st.new, i, a, b)
           fits == st.same /\ Len(s) <= Len(st.old)
           r == [old |-> IF fits THEN Over(st.old, s) ELSE st.old, new |-> s, same |-> fits]
<1>1. ReplaceTag(<<a, b>>, i, st) = r
  BY DEF ReplaceTag, Splice
<1>2. /\ st.old \in Seq(X) /\ Len(st.old) = Len(l.mem)
      /\ st.new \in Seq(X) /\ l.len <= Len(st.new)
      /\ \A k \in 1..Len(st.new) : st.old[k] = st.new[k]
      /\ Len(st.new) <= Len(st.old)
      /\ ~HasRoom(l) => st.old = l.mem
  BY DEF Loop, LoopTypes
<1>3. a \in X /\ b \in X /\ i \in 1..Len(st.new) /\ l.len \in Nat
  BY <1>2 DEF Elements, IsList
<1>4. st.new[i] = "default"
  BY <1>2, <1>3
<1>s. Spliced(s, X, st.new, i, a, b)
  BY <1>2, <1>3, SpliceElements
<1>9. r.new = s /\ r.same = fits /\ r.old = IF fits THEN Over(st.old, s) ELSE st.old
  OBVIOUS
<1> HIDE DEF r, s, X
<1>5. /\ s \in Seq(X)
      /\ \A k \in (i + 1)..Len(st.new) : s[k + 1] = st.new[k]
  BY <1>s DEF Spliced
<1>6. Len(s) = Len(st.new) + 1
  BY <1>s DEF Spliced
<1>7. "default" \in Tokens(l) /\ \A x : x # "default" => (x \in Range(st.new) <=> x \in Tokens(l) \/ (x \in W /\ x \in Range(st.new)))
  <2>1. CASE Left(l, i - 1, st)
    <3>1. st.old = l.mem /\ st.new = List(l)
      BY <2>1 DEF Left, Begun
    <3>2. Range(st.new) = Tokens(l)
      BY <3>1 DEF Tokens
    <3>3. "default" \in Tokens(l)
      BY <3>1, ListElements
    <3> QED BY <3>2, <3>3
  <2>2. CASE AllReplaced(l, W, i - 1, st)
    BY <2>2 DEF AllReplaced
  <2> QED BY <2>1, <2>2 DEF Loop, OneRemains
<1>8. \A x : x # "default" => (x \in Range(s) <=> x \in Tokens(l) \/ x \in W)
  <2> SUFFICES ASSUME NEW x, x # "default" PROVE x \in Range(s) <=> x \in Tokens(l) \/ x \in W
    OBVIOUS
  <2>1. x \in Range(s) <=> x \in Range(st.new) \/ x \in {a, b}
    BY <1>2, <1>3, <1>4, SpliceRange DEF s
  <2> QED BY <2>1, <1>7
<1>10. CASE Len(s) <= Len(st.old)
  <2>1. /\ Over(st.old, s) \in Seq(X) /\ Len(Over(st.old, s)) = Len(st.old)
        /\ \A k \in 1..Len(s) : Over(st.old, s)[k] = s[k]
    BY <1>2, <1>5, <1>10, OverElements
  <2>2. r.old = Over(st.old, s) /\ r.same
    BY <1>9, <1>10
  <2>3. LoopTypes(l, W, r)
    <3>1. l.len <= Len(s)
      BY <1>2, <1>3, <1>6
    <3> QED BY <1>2, <1>5, <1>9, <1>10, <2>1, <2>2, <3>1 DEF LoopTypes, X
  <2>4. HasRoom(l)
    <3>1. l.len < Len(l.mem)
      BY <1>2, <1>3, <1>6, <1>10 DEF IsList
    <3> QED BY <3>1, <1>7 DEF HasRoom
  <2>5. AllReplaced(l, W, i, r)
    BY <1>7, <1>8, <1>9, <2>2 DEF AllReplaced
  <2> QED BY <1>1, <2>3, <2>4, <2>5 DEF Loop
<1>11. CASE ~(Len(s) <= Len(st.old))
  <2>1. r.old = st.old /\ ~r.same
    BY <1>9, <1>11
  <2>2. LoopTypes(l, W, r)
    <3>1. l.len <= Len(s)
      BY <1>2, <1>3, <1>6
    <3> QED BY <1>2, <1>5, <1>9, <2>1, <3>1 DEF LoopTypes, X
  <2>3. CASE \A j \in (i + 1)..l.len : st.old[j] # "default"
    <3>1. AllReplaced(l, W, i, r)
      BY <1>7, <1>8, <1>9, <2>1, <2>3 DEF AllReplaced
    <3> QED BY <1>1, <1>2, <2>1, <2>2, <3>1 DEF Loop
  <2>4. CASE \E j \in (i + 1)..l.len : st.old[j] = "default"
    <3>1. ASSUME NEW j \in (i + 1)..l.len, st.old[j] = "default"
          PROVE  j + 1 \in 1..Len(s) /\ s[j + 1] = "default"
      <4>1. j \in (i + 1)..Len(st.new) /\ j \in 1..Len(st.new) /\ j + 1 \in 1..Len(s)
        BY <1>2, <1>3, <1>6
      <4> QED BY <4>1, <3>1, <1>2, <1>5
    <3>2. "default" \in Range(s)
      BY <2>4, <3>1, <1>5 DEF Range
    <3>3. 1 \in Nat \ {0} /\ \A j \in (i + 1)..l.len :
            st.old[j] = "default" => j + 1 <= Len(s) /\ s[j + 1] = "default"
      BY <3>1
    <3>4. OneRemains(l, i, r)
      BY <3>2, <3>3, <1>9, <2>1 DEF OneRemains
    <3> QED BY <1>1, <1>2, <2>1, <2>2, <3>4 DEF Loop
  <2> QED BY <2>3, <2>4
<1> QED BY <1>10, <1>11

\* A turn at "default" in the memory that only the list at first is in.
LEMMA TurnApart ==
  ASSUME NEW l, IsList(l), NEW a, NEW b, a # "default", b # "default",
         NEW i \in 1..l.len, NEW st, Loop(l, {a, b}, i - 1, st),
         ~st.same, st.old[i] = "default"
  PROVE  Loop(l, {a, b}, i, ReplaceTag(<<a, b>>, i, st))
<1> DEFINE W == {a, b}
           X == Elements(l, W)
           s == Splice(st.new, i, a, b)
           r == [old |-> st.old, new |-> s, same |-> FALSE]
<1>1. ReplaceTag(<<a, b>>, i, st) = r
  BY DEF ReplaceTag, Splice
<1>2. /\ st.old \in Seq(X) /\ Len(st.old) = Len(l.mem)
      /\ st.new \in Seq(X) /\ l.len <= Len(st.new)
      /\ ~HasRoom(l) => st.old = l.mem
  BY DEF Loop, LoopTypes
<1>3. a \in X /\ b \in X /\ i \in 1..Len(st.new) /\ l.len \in Nat
  BY <1>2 DEF Elements, IsList
<1>4. Spliced(s, X, st.new, i, a, b)
  BY <1>2, <1>3, SpliceElements
<1>5. r.new = s /\ r.same = FALSE /\ r.old = st.old
  OBVIOUS
<1>6. (i - 1) + 1 = i
  OBVIOUS
<1>7. OneRemains(l, i - 1, st)
  <2>1. ~Left(l, i - 1, st)
    BY DEF Left, Begun
  <2>2. ~AllReplaced(l, W, i - 1, st)
    BY <1>6 DEF AllReplaced
  <2> QED BY <2>1, <2>2 DEF Loop
<1> HIDE DEF r, s, X
<1>8. /\ s \in Seq(X)
      /\ \A k \in (i + 1)..Len(st.new) : s[k + 1] = st.new[k]
  BY <1>4 DEF Spliced
<1>9. Len(s) = Len(st.new) + 1
  BY <1>4 DEF Spliced
<1>10. LoopTypes(l, W, r)
  <2>1. l.len <= Len(s)
    BY <1>2, <1>3, <1>9
  <2> QED BY <1>2, <1>5, <1>8, <2>1 DEF LoopTypes, X
<1>11. PICK h \in Nat \ {0} : \A j \in i..l.len :
         st.old[j] = "default" => j + h <= Len(st.new) /\ st.new[j + h] = "default"
  BY <1>6, <1>7 DEF OneRemains
<1>12. ASSUME NEW j \in i..l.len, st.old[j] = "default"
       PROVE  j + (h + 1) \in 1..Len(s) /\ s[j + (h + 1)] = "default"
  <2>1. j + h <= Len(st.new) /\ st.new[j + h] = "default"
    BY <1>11, <1>12
  <2>2. j + h \in (i + 1)..Len(st.new) /\ (j + h) + 1 = j + (h + 1) /\ j + (h + 1) \in 1..Len(s)
    BY <2>1, <1>3, <1>9
  <2> QED BY <2>1, <2>2, <1>8
<1>13. "default" \in Range(s)
  <2>1. i \in i..l.len
    BY <1>3
  <2> QED BY <2>1, <1>8, <1>12 DEF Range
<1>14. h + 1 \in Nat \ {0} /\ \A j \in (i + 1)..l.len :
         st.old[j] = "default" => j + (h + 1) <= Len(s) /\ s[j + (h + 1)] = "default"
  BY <1>12
<1>15. OneRemains(l, i, r)
  BY <1>5, <1>13, <1>14 DEF OneRemains
<1> QED BY <1>1, <1>2, <1>5, <1>10, <1>15 DEF Loop

\* A turn at anything else.
LEMMA TurnSkipped ==
  ASSUME NEW l, IsList(l), NEW W, NEW i \in 1..l.len, NEW st, Loop(l, W, i - 1, st),
         st.old[i] # "default"
  PROVE  Loop(l, W, i, st)
<1>1. (i - 1) + 1 = i /\ l.len \in Nat /\ \A j \in (i + 1)..l.len : j \in i..l.len
  BY DEF IsList
<1>2. CASE Left(l, i - 1, st)
  <2>1. st.old = l.mem
    BY <1>2 DEF Left, Begun
  <2>2. \A j \in 1..i : l.mem[j] # "default"
    <3> TAKE j \in 1..i
    <3>1. CASE j = i
      BY <3>1, <2>1
    <3>2. CASE j \in 1..(i - 1)
      BY <3>2, <1>2 DEF Left
    <3> QED BY <3>1, <3>2
  <2> QED BY <2>2, <1>2 DEF Left, Loop
<1>3. CASE AllReplaced(l, W, i - 1, st)
  <2>1. AllReplaced(l, W, i, st)
    BY <1>1, <1>3 DEF AllReplaced
  <2> QED BY <2>1 DEF Loop
<1>4. CASE OneRemains(l, i - 1, st)
  <2>1. OneRemains(l, i, st)
    BY <1>1, <1>4 DEF OneRemains
  <2> QED BY <2>1 DEF Loop
<1> QED BY <1>2, <1>3, <1>4 DEF Loop

\* What holds after the last turn: unless a "default" remains, the list says what
\* it said with the tags for "default"; and the memory is what it was unless
\* there was room in it.
LEMMA Replaced ==
  ASSUME NEW l, IsList(l), NEW a, NEW b, a # "default", b # "default"
  PROVE  LET r == ReplaceDefault(<<a, b>>, l)
         IN  /\ \/ "default" \in Range(r.new)
                \/ Range(r.new) = IF "default" \in Tokens(l)
                                    THEN (Tokens(l) \ {"default"}) \cup {a, b} ELSE Tokens(l)
             /\ ~HasRoom(l) => r.old = l.mem
<1>1. l.len \in Nat
  BY DEF IsList
<1>2. PICK f : Turns(f, <<a, b>>, l, l.len) /\ ReplaceDefault(<<a, b>>, l) = f[l.len]
  BY <1>1, ReplacedDef
<1> DEFINE S == {i \in Nat : i <= l.len => Loop(l, {a, b}, i, f[i])}
<1>3. 0 \in S
  <2>1. f[0] = Begun(l)
    BY <1>1, <1>2 DEF Turns
  <2> QED BY <2>1, LoopBegins
<1>4. ASSUME NEW n \in Nat, n \in S PROVE n + 1 \in S
  <2>1. SUFFICES ASSUME n + 1 <= l.len PROVE Loop(l, {a, b}, n + 1, f[n + 1])
    OBVIOUS
  <2> DEFINE i == n + 1
  <2>2. i \in 1..l.len /\ i - 1 = n /\ n <= l.len /\ i \in 0..l.len /\ i # 0
    BY <1>1, <2>1
  <2>3. f[i] = ReplaceTag(<<a, b>>, i, f[n])
    BY <1>2, <2>2 DEF Turns
  <2>4. Loop(l, {a, b}, i - 1, f[n])
    BY <1>4, <2>2
  <2> HIDE DEF i, S
  <2>5. CASE f[n].old[i] # "default"
    <3>1. ReplaceTag(<<a, b>>, i, f[n]) = f[n]
      BY <2>5 DEF ReplaceTag
    <3> QED BY <3>1, <2>2, <2>3, <2>4, <2>5, TurnSkipped DEF i
  <2>6. CASE f[n].old[i] = "default"
    BY <2>2, <2>3, <2>4, <2>6, TurnInPlace, TurnApart DEF i
  <2> QED BY <2>5, <2>6
<1>5. Nat \subseteq S
  <2> HIDE DEF S
  <2> QED BY <1>3, <1>4, Inductive
<1> DEFINE r == f[l.len]
<1>6. Loop(l, {a, b}, l.len, r)
  BY <1>1, <1>5
<1> HIDE DEF r
<1>7. CASE Left(l, l.len, r)
  <2>1. r.new = List(l) /\ "default" \notin Tokens(l)
    BY <1>7, ListElements DEF Left, Begun
  <2> QED BY <2>1, <1>2, <1>6 DEF Tokens, Loop, r
<1>8. CASE AllReplaced(l, {a, b}, l.len, r)
  <2>1. "default" \in Tokens(l) /\ \A x : x # "default" => (x \in Range(r.new) <=> x \in Tokens(l) \/ x \in {a, b})
    BY <1>8 DEF AllReplaced
  <2>2. CASE "default" \notin Range(r.new)
    <3>1. Range(r.new) = (Tokens(l) \ {"default"}) \cup {a, b}
      BY <2>1, <2>2
    <3> QED BY <3>1, <2>1, <1>2, <1>6 DEF Loop, r
  <2> QED BY <2>2, <1>2, <1>6 DEF Loop, r
<1>9. CASE OneRemains(l, l.len, r)
  BY <1>2, <1>6, <1>9 DEF OneRemains, Loop, r
<1> QED BY <1>6, <1>7, <1>8, <1>9 DEF Loop

-----------------------------------------------------------------------------
(* The selection, group by group.  G is a group, r what is asked of all of *)
(* them and P what of that is asked of G.                                  *)

Part(G, r) == Narrow(r, RespondsTo(G, AllTokens(r)))

\* Nobody has a name or a tag that is a word of requests, and names are names of
\* one task.
LEMMA GroupFacts ==
  ASSUME NEW g \in DOMAIN Groups, NEW t \in Groups[g]
  PROVE  /\ "all" \notin Selectors(t) /\ "default" \notin Selectors(t)
         /\ t.name \in Selectors(t)
         /\ \A u \in Groups[g] : t.name \in Selectors(u) => t = u
BY SelectionAssumption DEF Selectors

\* The same of a group.
LEMMA GroupWords ==
  ASSUME NEW g \in DOMAIN Groups
  PROVE  /\ "all" \notin GroupTags(Groups[g]) /\ "default" \notin GroupTags(Groups[g])
         /\ Names(Groups[g]) \subseteq GroupTags(Groups[g])
         /\ \A t \in Groups[g] : Selectors(t) \subseteq GroupTags(Groups[g])
BY GroupFacts DEF GroupTags, Names

\* "default" is nothing any group responds to.
LEMMA NoDefault ==
  ASSUME NEW r, ~SelectInGroups(r).error
  PROVE  "default" \notin AllTokens(WithFiles(r))
<1> DEFINE w == WithFiles(r)
           part == [g \in DOMAIN Groups |-> Narrow(w, RespondsTo(Groups[g], AllTokens(w)))]
           unknown == AllTokens(w) \ ({"all"} \cup
                        UNION {RespondsTo(Groups[g], AllTokens(w)) : g \in DOMAIN Groups})
<1>1. unknown = {}
  BY DEF SelectInGroups, Failed
<1>2. ASSUME NEW g \in DOMAIN Groups PROVE "default" \notin RespondsTo(Groups[g], AllTokens(w))
  BY GroupWords DEF RespondsTo
<1> HIDE DEF w
<1>3. "default" \notin AllTokens(w)
  BY <1>1, <1>2
<1> QED BY <1>3 DEF w

\* A group sees all that is asked of its tasks.
LEMMA PartMatches ==
  ASSUME NEW g \in DOMAIN Groups, NEW t \in Groups[g], NEW r
  PROVE  LET P == Part(Groups[g], r)
             asks(X) == (Selectors(t) \cup {"all"}) \cap X # {}
         IN  /\ t \in Matching(Groups[g], P.defaults) <=> asks(r.defaults)
             /\ t \in Matching(Groups[g], P.remove) <=> asks(r.remove)
             /\ "all" \notin P.sub =>
                  \A u \in Groups[g] : u \in Matching(Groups[g], P.sub)
                                         <=> u \in Matching(Groups[g], r.sub \ {"all"})
             /\ P.add \subseteq Names(Groups[g]) =>
                  (t \in Matching(Groups[g], P.add) <=> t.name \in r.add)
<1> DEFINE G == Groups[g]
           P == Part(G, r)
           R == RespondsTo(G, AllTokens(r))
<1>1. /\ P.defaults = r.defaults \cap R /\ P.sub = r.sub \cap R
      /\ P.add = r.add \cap R /\ P.remove = r.remove \cap R
  BY DEF Part, Narrow
<1>2. r.defaults \subseteq AllTokens(r) /\ r.sub \subseteq AllTokens(r)
      /\ r.add \subseteq AllTokens(r) /\ r.remove \subseteq AllTokens(r)
  BY DEF AllTokens
<1>3. /\ "all" \in R /\ Names(G) \subseteq R
      /\ \A u \in G : Selectors(u) \cap AllTokens(r) \subseteq R
  BY GroupWords DEF RespondsTo
<1>4. "all" \notin Names(G) /\ t.name \in Names(G) /\ t.name \in Selectors(t)
      /\ \A u \in G : u.name \in Selectors(t) => t = u
  BY GroupFacts, GroupWords DEF Names
<1> HIDE DEF P, R
<1>5. /\ t \in Matching(G, P.defaults) <=> (Selectors(t) \cup {"all"}) \cap r.defaults # {}
  BY <1>1, <1>2, <1>3 DEF Matching
<1>6. t \in Matching(G, P.remove) <=> (Selectors(t) \cup {"all"}) \cap r.remove # {}
  BY <1>1, <1>2, <1>3 DEF Matching
<1>7. ASSUME "all" \notin P.sub, NEW u \in G
      PROVE  u \in Matching(G, P.sub) <=> u \in Matching(G, r.sub \ {"all"})
  <2>1. "all" \notin Selectors(u)
    BY GroupFacts
  <2> QED BY <2>1, <1>1, <1>2, <1>3, <1>7 DEF Matching
<1>8. ASSUME P.add \subseteq Names(G)
      PROVE  t \in Matching(G, P.add) <=> t.name \in r.add
  <2>1. "all" \notin P.add
    BY <1>4, <1>8
  <2>2. t \in Matching(G, P.add) <=> Selectors(t) \cap P.add # {}
    BY <2>1 DEF Matching
  <2>3. ASSUME NEW x \in Selectors(t) \cap P.add PROVE t.name \in r.add
    <3>1. PICK u \in G : x = u.name
      BY <2>3, <1>8 DEF Names
    <3>2. u = t
      BY <3>1, <2>3, <1>4
    <3> QED BY <3>1, <3>2, <2>3, <1>1
  <2>4. ASSUME t.name \in r.add PROVE t.name \in Selectors(t) \cap P.add
    BY <2>4, <1>1, <1>3, <1>4
  <2> QED BY <2>2, <2>3, <2>4
<1> QED BY <1>5, <1>6, <1>7, <1>8 DEF P

\* What runs of a group, in terms of the request of all groups.
RunsFor(G, t, r) ==
  LET narrowed == Matching(G, r.sub \ {"all"})
      tokens == Selectors(t) \cup {"all"}
  IN  \/ t.name \in r.add
      \/ /\ tokens \cap r.defaults # {} /\ tokens \cap r.remove = {}
         /\ narrowed = {} \/ t \in narrowed

\* What the expressions of a group choose is what runs for it.
LEMMA ChosenRuns ==
  ASSUME NEW g \in DOMAIN Groups, NEW t \in Groups[g], NEW r,
         IsEmptyRequest(Part(Groups[g], r)) \/ Valid(Groups[g], Part(Groups[g], r))
  PROVE  t \in Chosen(Groups[g], Part(Groups[g], r)) <=> RunsFor(Groups[g], t, r)
<1> DEFINE G == Groups[g]
           P == Part(G, r)
           asks(X) == (Selectors(t) \cup {"all"}) \cap X # {}
<1>1. "all" \notin P.sub /\ P.add \subseteq Names(G)
  <2>1. "all" \notin GroupTags(G)
    BY GroupWords
  <2> HIDE DEF P, G
  <2> QED BY <2>1 DEF IsEmptyRequest, Valid, P, G
<1>2. /\ t \in Matching(G, P.defaults) <=> asks(r.defaults)
      /\ t \in Matching(G, P.remove) <=> asks(r.remove)
      /\ \A u \in G : u \in Matching(G, P.sub) <=> u \in Matching(G, r.sub \ {"all"})
      /\ t \in Matching(G, P.add) <=> t.name \in r.add
  BY <1>1, PartMatches
<1>3. Matching(G, P.sub) = Matching(G, r.sub \ {"all"})
  BY <1>2 DEF Matching
<1> HIDE DEF P, G
<1> QED BY <1>2, <1>3 DEF Chosen, RunsFor, P, G

\* An empty request chooses nothing anyway.
LEMMA SelectChosen ==
  ASSUME NEW G, NEW P
  PROVE  Select(G, P) = Names(Chosen(G, P))
<1>1. ASSUME IsEmptyRequest(P) PROVE Chosen(G, P) = {}
  BY <1>1 DEF IsEmptyRequest, Chosen, Matching
<1>2. Names({}) = {}
  BY DEF Names
<1> QED BY <1>1, <1>2 DEF Select

\* A selection that does not fail: what runs, by name.
LEMMA SelectedRuns ==
  ASSUME NEW r, ~SelectInGroups(r).error
  PROVE  SelectInGroups(r).packages \cup SelectInGroups(r).files
           = {t.name : t \in {u \in AllTasks :
                \E g \in DOMAIN Groups : u \in Groups[g] /\ RunsFor(Groups[g], u, WithFiles(r))}}
<1> DEFINE w == WithFiles(r)
           s == SelectInGroups(r)
<1>1. /\ \A g \in DOMAIN Groups : \/ IsEmptyRequest(Part(Groups[g], w))
                                  \/ Valid(Groups[g], Part(Groups[g], w))
      /\ s.packages = Select(Groups["packages"], Part(Groups["packages"], w))
      /\ s.files = Select(Groups["files"], Part(Groups["files"], w))
  BY SelectionAssumption DEF SelectInGroups, Failed, Part
<1> HIDE DEF w, s
<1>2. DOMAIN Groups = {"packages", "files"}
  BY SelectionAssumption
<1>3. ASSUME NEW g \in DOMAIN Groups
      PROVE  \A x : x \in Select(Groups[g], Part(Groups[g], w)) <=>
               \E t \in Groups[g] : x = t.name /\ RunsFor(Groups[g], t, w)
  <2>1. Select(Groups[g], Part(Groups[g], w)) = Names(Chosen(Groups[g], Part(Groups[g], w)))
    BY SelectChosen
  <2>2. \A t \in Groups[g] : t \in Chosen(Groups[g], Part(Groups[g], w)) <=> RunsFor(Groups[g], t, w)
    BY <1>1, ChosenRuns
  <2>3. Chosen(Groups[g], Part(Groups[g], w)) \subseteq Groups[g]
    BY DEF Chosen, Matching
  <2> QED BY <2>1, <2>2, <2>3 DEF Names
<1>4. \A x : x \in s.packages \cup s.files <=>
         \E g \in DOMAIN Groups : \E t \in Groups[g] : x = t.name /\ RunsFor(Groups[g], t, w)
  BY <1>1, <1>2, <1>3
<1>5. \A g \in DOMAIN Groups : Groups[g] \subseteq AllTasks
  BY <1>2 DEF AllTasks
<1> QED BY <1>4, <1>5 DEF w, s

-----------------------------------------------------------------------------
(* From the request of the configuration to the request of a scan.         *)

Tags(src) == <<SourceTag[src], "file">>
TagSet(src) == {SourceTag[src], "file"}

\* The tags that stand for "default" are not that word.
LEMMA TagFacts ==
  ASSUME NEW src \in DOMAIN SourceTag
  PROVE  /\ Range(Tags(src)) = TagSet(src)
         /\ SourceTag[src] # "default" /\ "file" # "default"
<1>1. DOMAIN Tags(src) = {1, 2}
  BY DEF Tags
<1>2. Tags(src)[1] = SourceTag[src] /\ Tags(src)[2] = "file"
  BY DEF Tags
<1>3. Range(Tags(src)) = TagSet(src)
  BY <1>1, <1>2 DEF Range, TagSet
<1> QED BY <1>3, SelectionAssumption

\* What a scan asks for, in the words of Wanted.
LEMMA Requested ==
  ASSUME asked \in Requests, NEW src \in DOMAIN SourceTag,
         ~SelectInGroups(FinalRequest(asked, src).req).error
  PROVE  LET r == FinalRequest(asked, src).req
         IN  /\ r.add = asked.add
             /\ r.sub = Meaning(Tokens(asked.sub), src)
             /\ r.remove = Meaning(Tokens(asked.remove), src)
             /\ r.defaults = IF asked.defaults = {} THEN TagSet(src) ELSE asked.defaults
<1> DEFINE r == FinalRequest(asked, src).req
           rem == ReplaceDefault(Tags(src), asked.remove)
           sub == ReplaceDefault(Tags(src), asked.sub)
<1>1. CASE asked.defaults # {}
  <2>1. r = [defaults |-> asked.defaults, sub |-> Tokens(asked.sub),
             add |-> asked.add, remove |-> Tokens(asked.remove)]
    BY <1>1 DEF FinalRequest
  <2> QED BY <1>1, <2>1 DEF Meaning
<1>2. CASE asked.defaults = {}
  <2>1. r = [defaults |-> Range(Tags(src)), sub |-> Range(sub.new),
             add |-> asked.add, remove |-> Range(rem.new)]
    BY <1>2 DEF FinalRequest, Tags
  <2>2. IsList(asked.sub) /\ IsList(asked.remove)
    BY RequestAssumption DEF IsList
  <2>3. "default" \notin AllTokens(WithFiles(r))
    BY NoDefault
  <2>4. AllTokens(r) \subseteq AllTokens(WithFiles(r))
    BY <2>1 DEF AllTokens, WithFiles
  <2> HIDE DEF r
  <2>5. "default" \notin Range(sub.new) /\ "default" \notin Range(rem.new)
    BY <2>1, <2>3, <2>4 DEF AllTokens
  <2>6. Range(sub.new) = IF "default" \in Tokens(asked.sub)
                           THEN (Tokens(asked.sub) \ {"default"}) \cup TagSet(src)
                           ELSE Tokens(asked.sub)
    BY <2>2, <2>5, Replaced, TagFacts DEF Tags, TagSet
  <2>7. Range(rem.new) = IF "default" \in Tokens(asked.remove)
                           THEN (Tokens(asked.remove) \ {"default"}) \cup TagSet(src)
                           ELSE Tokens(asked.remove)
    BY <2>2, <2>5, Replaced, TagFacts DEF Tags, TagSet
  <2> HIDE DEF sub, rem
  <2> QED BY <1>2, <2>1, <2>6, <2>7, TagFacts DEF Meaning, TagSet, r
<1> QED BY <1>1, <1>2

\* The implied "file" makes no difference where no group has it, nor to what is
\* removed.
LEMMA FilesImplied ==
  ASSUME NEW r, NEW g \in DOMAIN Groups, NEW t \in Groups[g],
         r = [defaults |-> r.defaults, sub |-> r.sub, add |-> r.add, remove |-> r.remove],
         (Selectors(t) \cup {"all"}) \cap r.remove = {}
  PROVE  LET tokens == Selectors(t) \cup {"all"}
             fileTags == IF r.defaults \cap {"file", "all", "default"} = {} THEN {"file"} ELSE {}
         IN  tokens \cap WithFiles(r).defaults # {} <=> tokens \cap (r.defaults \cup fileTags) # {}
<1> DEFINE tokens == Selectors(t) \cup {"all"}
           adds == /\ \E h \in DOMAIN Groups : "file" \in RespondsTo(Groups[h], {"file"})
                   /\ r.defaults \cap {"file", "all", "default"} = {}
                   /\ "file" \notin r.remove
<1>1. CASE adds
  <2>1. WithFiles(r).defaults = r.defaults \cup {"file"}
    <3>1. WithFiles(r) = [r EXCEPT !.defaults = @ \cup {"file"}]
      BY <1>1 DEF WithFiles
    <3> QED BY <3>1
  <2> QED BY <1>1, <2>1
<1>2. CASE ~adds
  <2>1. WithFiles(r) = r
    BY <1>2 DEF WithFiles
  <2>2. CASE r.defaults \cap {"file", "all", "default"} # {}
    BY <2>1, <2>2
  <2>3. CASE "file" \in r.remove
    <3>1. "file" \notin tokens
      BY <2>3
    <3> QED BY <2>1, <3>1
  <2>4. CASE "file" \notin RespondsTo(Groups[g], {"file"})
    <3>1. "file" \notin Selectors(t)
      BY <2>4, GroupWords DEF RespondsTo
    <3> QED BY <2>1, <3>1
  <2> QED BY <1>2, <2>2, <2>3, <2>4
<1> QED BY <1>1, <1>2

\* What is wanted is what runs, group by group.
LEMMA WantedRuns ==
  ASSUME asked \in Requests, NEW src \in DOMAIN SourceTag,
         ~SelectInGroups(FinalRequest(asked, src).req).error,
         NEW g \in DOMAIN Groups, NEW t \in Groups[g]
  PROVE  Wanted(t, src) <=> RunsFor(Groups[g], t, WithFiles(FinalRequest(asked, src).req))
<1> DEFINE r == FinalRequest(asked, src).req
           w == WithFiles(r)
           tokens == Selectors(t) \cup {"all"}
           own == IF t \in Groups["files"] THEN Groups["files"] ELSE Groups["packages"]
           fileTags == IF asked.defaults \cap {"file", "all", "default"} = {} THEN {"file"} ELSE {}
           default == IF asked.defaults = {} THEN {SourceTag[src], "file"}
                      ELSE asked.defaults \cup fileTags
<1>1. own = Groups[g]
  BY SelectionAssumption
<1>2. r = [defaults |-> r.defaults, sub |-> r.sub, add |-> r.add, remove |-> r.remove]
  BY DEF FinalRequest
<1>3. /\ r.add = asked.add
      /\ r.sub = Meaning(Tokens(asked.sub), src)
      /\ r.remove = Meaning(Tokens(asked.remove), src)
      /\ r.defaults = IF asked.defaults = {} THEN TagSet(src) ELSE asked.defaults
  BY Requested
<1> HIDE DEF r
<1>4. w.add = r.add /\ w.sub = r.sub /\ w.remove = r.remove
  BY <1>2 DEF WithFiles
<1>5. ASSUME tokens \cap r.remove = {}
      PROVE  tokens \cap w.defaults # {} <=> tokens \cap default # {}
  <2>1. LET f == IF r.defaults \cap {"file", "all", "default"} = {} THEN {"file"} ELSE {}
        IN  tokens \cap w.defaults # {} <=> tokens \cap (r.defaults \cup f) # {}
    BY <1>2, <1>5, FilesImplied
  <2> HIDE DEF w, tokens
  <2>2. CASE asked.defaults = {}
    <3>1. r.defaults = {SourceTag[src], "file"}
      BY <1>3, <2>2 DEF TagSet
    <3>2. r.defaults \cap {"file", "all", "default"} # {}
      BY <3>1
    <3> QED BY <2>1, <2>2, <3>1, <3>2
  <2>3. CASE asked.defaults # {}
    BY <1>3, <2>1, <2>3
  <2> QED BY <2>2, <2>3
<1>6. RunsFor(Groups[g], t, w) <=>
        \/ t.name \in asked.add
        \/ /\ tokens \cap default # {} /\ tokens \cap r.remove = {}
           /\ Matching(own, r.sub \ {"all"}) = {} \/ t \in Matching(own, r.sub \ {"all"})
  <2>1. RunsFor(Groups[g], t, w) <=>
          \/ t.name \in w.add
          \/ /\ tokens \cap w.defaults # {} /\ tokens \cap w.remove = {}
             /\ \/ Matching(Groups[g], w.sub \ {"all"}) = {}
                \/ t \in Matching(Groups[g], w.sub \ {"all"})
    BY DEF RunsFor
  <2> HIDE DEF w, tokens, own, default
  <2> QED BY <1>1, <1>3, <1>4, <1>5, <2>1
<1>7. Wanted(t, src) <=>
        \/ t.name \in asked.add
        \/ /\ tokens \cap default # {} /\ tokens \cap r.remove = {}
           /\ Matching(own, r.sub \ {"all"}) = {} \/ t \in Matching(own, r.sub \ {"all"})
  BY <1>3, Zenon DEF Wanted
<1> QED BY <1>6, <1>7 DEF r

\* A scan that does not fail runs what its request says.
LEMMA ScanAsWritten ==
  ASSUME asked \in Requests, NEW src \in DOMAIN SourceTag,
         ~SelectTasks(FinalRequest(asked, src).req).error
  PROVE  LET o == SelectTasks(FinalRequest(asked, src).req)
         IN  o.packages \cup o.files
               = {t.name : t \in {u \in AllTasks : Wanted(u, src)}} \cup Persistent
<1> DEFINE r == FinalRequest(asked, src).req
           s == SelectInGroups(r)
           o == SelectTasks(r)
           ran == {u \in AllTasks :
                     \E g \in DOMAIN Groups : u \in Groups[g] /\ RunsFor(Groups[g], u, WithFiles(r))}
<1>1. ~s.error /\ o = [s EXCEPT !.packages = @ \cup Persistent]
  BY DEF SelectTasks, Failed
<1>2. s = [error |-> FALSE, packages |-> s.packages, files |-> s.files]
  BY <1>1 DEF SelectInGroups, Failed
<1>3. o.packages = s.packages \cup Persistent /\ o.files = s.files
  <2> HIDE DEF s, o
  <2> QED BY <1>1, <1>2
<1>4. s.packages \cup s.files = {t.name : t \in ran}
  BY <1>1, SelectedRuns
<1>5. ran = {u \in AllTasks : Wanted(u, src)}
  <2>1. \A u \in AllTasks : \E g \in DOMAIN Groups : u \in Groups[g]
    BY SelectionAssumption DEF AllTasks
  <2>2. \A g \in DOMAIN Groups : \A u \in Groups[g] :
          Wanted(u, src) <=> RunsFor(Groups[g], u, WithFiles(r))
    BY <1>1, WantedRuns
  <2> HIDE DEF r
  <2> QED BY <2>1, <2>2
<1> HIDE DEF ran, s, o
<1> QED BY <1>3, <1>4, <1>5 DEF o, r

-----------------------------------------------------------------------------
(* Two scans of a configuration.                                           *)

\* What a scan of src comes to, and what it leaves.
ScanOf(c, src) == [source |-> src, outcome |-> SelectTasks(FinalRequest(c, src).req)]
LeftBy(src) == FinalRequest(asked, src).left

\* The configuration is as it was asked for until a scan, and then what that left.
SelectionInv ==
  /\ asked \in Requests
  /\ \/ scans = <<>> /\ config = asked
     \/ \E s \in DOMAIN SourceTag : scans = <<ScanOf(asked, s)>> /\ config = LeftBy(s)
     \/ \E s, u \in DOMAIN SourceTag : scans = <<ScanOf(asked, s), ScanOf(LeftBy(s), u)>>

\* Writing to a memory what is there.
LEMMA SameMemory ==
  ASSUME NEW c, NEW d, NEW u, NEW a, NEW v, NEW f, NEW g,
         c = [defaults |-> d, sub |-> u, add |-> a, remove |-> v],
         [v EXCEPT !.mem = f] = v, [u EXCEPT !.mem = g] = u
  PROVE  [c EXCEPT !.remove.mem = f, !.sub.mem = g] = c
<1>1. [c EXCEPT !.remove.mem = f] = c
  OBVIOUS
<1>2. [c EXCEPT !.sub.mem = g] = c
  OBVIOUS
<1>3. [c EXCEPT !.remove.mem = f, !.sub.mem = g]
        = [[c EXCEPT !.remove.mem = f] EXCEPT !.sub.mem = g]
  OBVIOUS
<1> QED BY <1>1, <1>2, <1>3

\* A list of one and another.
LEMMA AppendSecond ==
  ASSUME NEW x, NEW y
  PROVE  Append(<<x>>, y) = <<x, y>>
<1> DEFINE s == Append(<<x>>, y)
<1>1. <<x>> \in Seq({x, y}) /\ Len(<<x>>) = 1
  OBVIOUS
<1>2. s \in Seq({x, y}) /\ Len(s) = 2 /\ s[1] = x /\ s[2] = y
  BY <1>1
<1>3. s = [i \in 1..2 |-> s[i]]
  BY <1>2
<1>4. s = [i \in 1..2 |-> IF i = 1 THEN x ELSE y]
  <2> HIDE DEF s
  <2> QED BY <1>2, <1>3
<1>5. <<x, y>> = [i \in 1..2 |-> IF i = 1 THEN x ELSE y]
  OBVIOUS
<1> QED BY <1>4, <1>5

\* A scan leaves the request alone unless there was room in one of its lists.
LEMMA LeftAlone ==
  ASSUME asked \in Requests, NEW src \in DOMAIN SourceTag,
         asked.defaults # {} \/ ~(HasRoom(asked.remove) \/ HasRoom(asked.sub))
  PROVE  LeftBy(src) = asked
<1>1. CASE asked.defaults # {}
  BY <1>1 DEF LeftBy, FinalRequest
<1>2. CASE asked.defaults = {} /\ ~HasRoom(asked.remove) /\ ~HasRoom(asked.sub)
  <2> DEFINE rem == ReplaceDefault(Tags(src), asked.remove)
             sub == ReplaceDefault(Tags(src), asked.sub)
  <2>1. IsList(asked.sub) /\ IsList(asked.remove)
    BY RequestAssumption DEF IsList
  <2>2. rem.old = asked.remove.mem /\ sub.old = asked.sub.mem
    BY <1>2, <2>1, Replaced, TagFacts DEF Tags
  <2>3. LeftBy(src) = [asked EXCEPT !.remove.mem = rem.old, !.sub.mem = sub.old]
    BY <1>2 DEF LeftBy, FinalRequest, Tags
  <2> HIDE DEF rem, sub
  <2>4. /\ asked = [defaults |-> asked.defaults, sub |-> asked.sub,
                    add |-> asked.add, remove |-> asked.remove]
        /\ asked.sub = [mem |-> asked.sub.mem, len |-> asked.sub.len]
        /\ asked.remove = [mem |-> asked.remove.mem, len |-> asked.remove.len]
    BY RequestAssumption
  <2>5. [asked.remove EXCEPT !.mem = rem.old] = asked.remove
    BY <2>2, <2>4
  <2>6. [asked.sub EXCEPT !.mem = sub.old] = asked.sub
    BY <2>2, <2>4
  <2> QED BY <2>3, <2>4, <2>5, <2>6, SameMemory
<1> QED BY <1>1, <1>2

\* A first scan, or a second.
LEMMA ScanStep ==
  ASSUME SelectionInv, NEW src \in DOMAIN SourceTag, Scan(src)
  PROVE  SelectionInv'
<1>1. /\ config' = FinalRequest(config, src).left
      /\ scans' = Append(scans, ScanOf(config, src))
      /\ asked' = asked /\ Len(scans) < 2
  BY DEF Scan, ScanOf
<1>2. \A s \in DOMAIN SourceTag : LeftBy(s)' = LeftBy(s)
  BY <1>1 DEF LeftBy
<1>3. CASE scans = <<>> /\ config = asked
  <2>1. scans' = <<ScanOf(asked, src)>>
    BY <1>1, <1>3
  <2>2. config' = LeftBy(src)
    BY <1>1, <1>3 DEF LeftBy
  <2>3. ScanOf(asked', src) = ScanOf(asked, src)
    BY <1>1
  <2> QED BY <1>1, <1>2, <2>1, <2>2, <2>3 DEF SelectionInv
<1>4. ASSUME NEW s \in DOMAIN SourceTag, scans = <<ScanOf(asked, s)>>, config = LeftBy(s)
      PROVE  SelectionInv'
  <2> DEFINE first == ScanOf(asked, s)
             second == ScanOf(LeftBy(s), src)
  <2>1. scans = <<first>> /\ scans' = Append(scans, second)
    BY <1>1, <1>4
  <2> HIDE DEF first, second
  <2>2. scans' = <<first, second>>
    BY <2>1, AppendSecond
  <2>3. ScanOf(asked', s) = first /\ ScanOf(LeftBy(s)', src) = second
    BY <1>1, <1>2 DEF first, second
  <2> QED BY <1>1, <2>2, <2>3 DEF SelectionInv
<1>5. CASE \E s, u \in DOMAIN SourceTag : scans = <<ScanOf(asked, s), ScanOf(LeftBy(s), u)>>
  BY <1>1, <1>5
<1> QED BY <1>3, <1>4, <1>5 DEF SelectionInv

\* The configuration between two scans is what was asked for, but for what the
\* first left in its lists (create_sbom_config.go:264-327, :480-503).
THEOREM SelectionInvariant == SelectSpec => []SelectionInv
<1>1. SelectInit => SelectionInv
  BY DEF SelectInit, SelectionInv
<1>2. SelectionInv /\ [SelectNext]_selectVars => SelectionInv'
  <2> SUFFICES ASSUME SelectionInv, [SelectNext]_selectVars PROVE SelectionInv'
    OBVIOUS
  <2>1. CASE SelectNext
    BY <2>1, ScanStep DEF SelectNext
  <2>2. CASE UNCHANGED selectVars
    BY <2>2 DEF selectVars, SelectionInv, LeftBy
  <2> QED BY <2>1, <2>2
<1> QED BY <1>1, <1>2, PTL DEF SelectSpec

\* Whatever catalogers there are and whatever is asked of them, a scan that does
\* not fail runs what the request says, and a second one the same unless there was
\* room in a list (create_sbom_config.go:264-327, selection.go:80-273).
THEOREM SelectionIsRepeated == SelectSpec => []SelectionRepeats
<1>1. SelectionInv => SelectionRepeats
  <2> SUFFICES ASSUME SelectionInv PROVE SelectionRepeats
    OBVIOUS
  <2>1. ASSUME Len(scans) > 0
        PROVE  \E s \in DOMAIN SourceTag : scans[1] = ScanOf(asked, s)
    BY <2>1 DEF SelectionInv
  <2>2. SelectedAsWritten
    <3>1. SUFFICES ASSUME Len(scans) > 0, ~scans[1].outcome.error
                   PROVE  scans[1].outcome.packages \cup scans[1].outcome.files
                            = {t.name : t \in {u \in AllTasks : Wanted(u, scans[1].source)}}
                                \cup Persistent
      BY DEF SelectedAsWritten
    <3>2. PICK s \in DOMAIN SourceTag : scans[1] = ScanOf(asked, s)
      BY <2>1, <3>1
    <3>3. scans[1].source = s /\ scans[1].outcome = SelectTasks(FinalRequest(asked, s).req)
      BY <3>2 DEF ScanOf
    <3> QED BY <3>1, <3>3, ScanAsWritten DEF SelectionInv
  <2>3. RepeatsUnlessRoom
    <3>1. SUFFICES ASSUME Len(scans) = 2, scans[1].source = scans[2].source,
                          asked.defaults # {} \/ ~(HasRoom(asked.remove) \/ HasRoom(asked.sub))
                   PROVE  scans[1].outcome = scans[2].outcome
      BY DEF RepeatsUnlessRoom
    <3>2. PICK s, u \in DOMAIN SourceTag : scans = <<ScanOf(asked, s), ScanOf(LeftBy(s), u)>>
      BY <3>1 DEF SelectionInv
    <3>3. LeftBy(s) = asked
      BY <3>1, LeftAlone DEF SelectionInv
    <3>4. scans[1] = ScanOf(asked, s) /\ scans[2] = ScanOf(asked, u)
      BY <3>2, <3>3
    <3>5. s = u
      BY <3>1, <3>4 DEF ScanOf
    <3> QED BY <3>4, <3>5
  <2> QED BY <2>2, <2>3 DEF SelectionRepeats
<1> QED BY <1>1, SelectionInvariant, PTL

-----------------------------------------------------------------------------
(* Lists of providers.                                                     *)

Everybody == DOMAIN TagsOf

\* Before anybody of R, everybody of L is in the list s.
Before(s, L, R) == \A i \in 1..Len(s) : s[i] \in R => \A l \in L : \E j \in 1..(i - 1) : s[j] = l

\* f holds what Among has of s after each of its providers.
Sifts(f, s, S) ==
  f = [i \in 0..Len(s) |-> IF i = 0 THEN <<>>
                           ELSE IF s[i] \in S THEN Append(f[i - 1], s[i]) ELSE f[i - 1]]

\* What Among has after k of them.
Sifted(t, s, S, k, L, R) ==
  /\ t \in Seq(Everybody)
  /\ \A x : (\E i \in 1..Len(t) : t[i] = x) <=> x \in S /\ \E i \in 1..k : s[i] = x
  /\ Before(t, L, R)

\* At first it has nobody.
LEMMA SiftedInitially ==
  ASSUME NEW s, NEW S, NEW L, NEW R PROVE Sifted(<<>>, s, S, 0, L, R)
BY DEF Sifted, Before

\* One provider more is taken.
LEMMA SiftedTaken ==
  ASSUME NEW s \in Seq(Everybody), NEW S, NEW L \in SUBSET S, NEW R, Before(s, L, R),
         NEW k \in Nat, k + 1 <= Len(s), NEW t, Sifted(t, s, S, k, L, R), s[k + 1] \in S
  PROVE  Sifted(Append(t, s[k + 1]), s, S, k + 1, L, R)
<1> DEFINE p == s[k + 1]
           u == Append(t, p)
<1>1. p \in Everybody /\ t \in Seq(Everybody)
  BY DEF Sifted
<1>2. /\ u \in Seq(Everybody) /\ Len(u) = Len(t) + 1 /\ u[Len(t) + 1] = p
      /\ \A i \in 1..Len(t) : u[i] = t[i]
  <2> HIDE DEF p
  <2> QED BY <1>1
<1>3. Len(t) \in Nat
  BY <1>1
<1> HIDE DEF u
<1>4. ASSUME NEW x
      PROVE  (\E i \in 1..Len(u) : u[i] = x) <=> x = p \/ \E i \in 1..Len(t) : t[i] = x
  BY <1>2, <1>3
<1>5. ASSUME NEW x
      PROVE  (\E i \in 1..(k + 1) : s[i] = x) <=> x = p \/ \E i \in 1..k : s[i] = x
  OBVIOUS
<1>6. \A x : (\E i \in 1..Len(u) : u[i] = x) <=> x \in S /\ \E i \in 1..(k + 1) : s[i] = x
  <2> HIDE DEF p
  <2>1. p \in S
    BY DEF p
  <2> QED BY <1>4, <1>5, <2>1 DEF Sifted
<1>7. ASSUME NEW i \in 1..Len(u), u[i] \in R, NEW l \in L
      PROVE  \E j \in 1..(i - 1) : u[j] = l
  <2>1. CASE i = Len(t) + 1
    <3>1. \E j \in 1..k : s[j] = l
      BY <1>2, <1>7, <2>1 DEF Before
    <3>2. \E j \in 1..Len(t) : t[j] = l
      BY <3>1 DEF Sifted
    <3> QED BY <1>2, <1>3, <2>1, <3>2
  <2>2. CASE i \in 1..Len(t)
    <3>1. \E j \in 1..(i - 1) : t[j] = l
      BY <1>2, <1>7, <2>2 DEF Sifted, Before
    <3> QED BY <1>2, <1>3, <2>2, <3>1
  <2> QED BY <1>2, <1>3, <2>1, <2>2
<1> QED BY <1>2, <1>6, <1>7 DEF Sifted, Before, u

\* Or not.
LEMMA SiftedLeft ==
  ASSUME NEW s \in Seq(Everybody), NEW S, NEW L, NEW R,
         NEW k \in Nat, k + 1 <= Len(s), NEW t, Sifted(t, s, S, k, L, R), s[k + 1] \notin S
  PROVE  Sifted(t, s, S, k + 1, L, R)
<1>1. ASSUME NEW x
      PROVE  (\E i \in 1..(k + 1) : s[i] = x) <=> x = s[k + 1] \/ \E i \in 1..k : s[i] = x
  OBVIOUS
<1> QED BY <1>1 DEF Sifted

\* A list can be gone through to its end.
LEMMA SiftsExist ==
  ASSUME NEW s \in Seq(Everybody), NEW S
  PROVE  \E f : Sifts(f, s, S)
<1> DEFINE upTo(N, f) == f = [i \in 0..N |-> IF i = 0 THEN <<>>
                               ELSE IF s[i] \in S THEN Append(f[i - 1], s[i]) ELSE f[i - 1]]
           T == {N \in Nat : \E f : upTo(N, f)}
<1>1. 0 \in T
  <2>1. upTo(0, [i \in 0..0 |-> <<>>])
    OBVIOUS
  <2> QED BY <2>1
<1>2. ASSUME NEW N \in Nat, N \in T PROVE N + 1 \in T
  <2>1. PICK f : upTo(N, f)
    BY <1>2
  <2> DEFINE next == IF s[N + 1] \in S THEN Append(f[N], s[N + 1]) ELSE f[N]
             g == [i \in 0..(N + 1) |-> IF i <= N THEN f[i] ELSE next]
  <2>2. \A i \in 0..N : g[i] = f[i] /\ f[i] = IF i = 0 THEN <<>>
                               ELSE IF s[i] \in S THEN Append(f[i - 1], s[i]) ELSE f[i - 1]
    <3>1. \A i \in 0..N : g[i] = f[i]
      <4> HIDE DEF next
      <4> QED OBVIOUS
    <3> HIDE DEF g
    <3> QED BY <2>1, <3>1
  <2>3. ASSUME NEW i \in 0..(N + 1)
        PROVE  g[i] = IF i = 0 THEN <<>>
                      ELSE IF s[i] \in S THEN Append(g[i - 1], s[i]) ELSE g[i - 1]
    <3>1. CASE i = N + 1
      <4>1. g[N + 1] = next /\ i # 0 /\ i - 1 = N
        <5> HIDE DEF next
        <5> QED BY <3>1
      <4>2. g[N] = f[N]
        BY <2>2
      <4> HIDE DEF g
      <4> QED BY <3>1, <4>1, <4>2
    <3>2. CASE i \in 0..N
      <4> HIDE DEF g
      <4>1. i # 0 => i - 1 \in 0..N
        BY <3>2
      <4> QED BY <3>2, <2>2, <4>1
    <3> QED BY <3>1, <3>2
  <2>4. g = [i \in 0..(N + 1) |-> g[i]]
    OBVIOUS
  <2> HIDE DEF g
  <2>5. upTo(N + 1, g)
    BY <2>3, <2>4
  <2> HIDE DEF upTo
  <2> QED BY <2>5
<1>3. Nat \subseteq T
  <2> HIDE DEF T
  <2> QED BY <1>1, <1>2, Inductive
<1>4. Len(s) \in T
  <2> HIDE DEF T
  <2> QED BY <1>3
<1> QED BY <1>4 DEF Sifts

\* Among has what it has after the last.
LEMMA AmongDef ==
  ASSUME NEW s \in Seq(Everybody), NEW S
  PROVE  \E f : Sifts(f, s, S) /\ Among(s, S) = f[Len(s)]
<1> DEFINE f == CHOOSE g : Sifts(g, s, S)
<1>1. Sifts(f, s, S)
  <2>1. \E g : Sifts(g, s, S)
    BY SiftsExist
  <2> QED BY <2>1
<1>2. Among(s, S) = f[Len(s)]
  BY Zenon DEF Among, Sifts
<1> QED BY <1>1, <1>2

\* Among keeps those in S, in their order.
LEMMA AmongSifts ==
  ASSUME NEW s \in Seq(Everybody), NEW S, NEW L \in SUBSET S, NEW R, Before(s, L, R)
  PROVE  Sifted(Among(s, S), s, S, Len(s), L, R)
<1>1. PICK f : Sifts(f, s, S) /\ Among(s, S) = f[Len(s)]
  BY AmongDef
<1> DEFINE T == {k \in Nat : k <= Len(s) => Sifted(f[k], s, S, k, L, R)}
<1>2. \A i \in 0..Len(s) : f[i] = IF i = 0 THEN <<>>
                           ELSE IF s[i] \in S THEN Append(f[i - 1], s[i]) ELSE f[i - 1]
  BY <1>1 DEF Sifts
<1>3. 0 \in T
  BY <1>2, SiftedInitially
<1>4. ASSUME NEW k \in Nat, k \in T PROVE k + 1 \in T
  <2> SUFFICES ASSUME k + 1 <= Len(s) PROVE Sifted(f[k + 1], s, S, k + 1, L, R)
    OBVIOUS
  <2>1. Sifted(f[k], s, S, k, L, R)
    BY <1>4
  <2>2. f[k + 1] = IF s[k + 1] \in S THEN Append(f[k], s[k + 1]) ELSE f[k]
    BY <1>2
  <2>3. CASE s[k + 1] \in S
    BY <2>1, <2>2, <2>3, SiftedTaken
  <2>4. CASE s[k + 1] \notin S
    BY <2>1, <2>2, <2>4, SiftedLeft
  <2> QED BY <2>3, <2>4
<1>5. Nat \subseteq T
  <2> HIDE DEF T
  <2> QED BY <1>3, <1>4, Inductive
<1> QED BY <1>1, <1>5

\* The same, with the sets of the lists.
Kept(t, s, S) == t \in Seq(Everybody) /\ ToSet(t) = ToSet(s) \cap S

\* Among keeps those in S, and who is before whom.
LEMMA AmongFacts ==
  ASSUME NEW s \in Seq(Everybody), NEW S
  PROVE  /\ Kept(Among(s, S), s, S)
         /\ \A L \in SUBSET S : \A R : Before(s, L, R) => Before(Among(s, S), L, R)
<1>1. Sifted(Among(s, S), s, S, Len(s), {}, {})
  <2>1. Before(s, {}, {})
    BY DEF Before
  <2> QED BY <2>1, AmongSifts
<1>2. ASSUME NEW t \in Seq(Everybody) PROVE DOMAIN t = 1..Len(t)
  OBVIOUS
<1>3. Among(s, S) \in Seq(Everybody)
  BY <1>1 DEF Sifted
<1>4. ToSet(Among(s, S)) = ToSet(s) \cap S
  <2>1. ASSUME NEW x PROVE x \in ToSet(Among(s, S)) <=> x \in ToSet(s) /\ x \in S
    <3>1. x \in ToSet(s) <=> \E i \in 1..Len(s) : s[i] = x
      BY <1>2 DEF ToSet
    <3>2. x \in ToSet(Among(s, S)) <=> \E i \in 1..Len(Among(s, S)) : Among(s, S)[i] = x
      BY <1>2, <1>3 DEF ToSet
    <3> QED BY <1>1, <3>1, <3>2 DEF Sifted
  <2> QED BY <2>1
<1>5. ASSUME NEW L \in SUBSET S, NEW R, Before(s, L, R)
      PROVE  Before(Among(s, S), L, R)
  BY <1>5, AmongSifts DEF Sifted
<1> QED BY <1>3, <1>4, <1>5 DEF Kept

\* Join adds those that are missing.
LEMMA JoinFacts ==
  ASSUME NEW s \in Seq(Everybody), NEW t \in Seq(Everybody)
  PROVE  /\ JoinProviders(s, t) \in Seq(Everybody)
         /\ ToSet(JoinProviders(s, t)) = ToSet(s) \cup ToSet(t)
         /\ \A L, R : Before(s, L, R) /\ (L \subseteq ToSet(s) \/ Before(t, L, R))
                        => Before(JoinProviders(s, t), L, R)
<1> DEFINE S == Everybody \ ToSet(s)
           u == Among(t, S)
           j == s \o u
<1>1. u \in Seq(Everybody) /\ ToSet(u) = ToSet(t) \cap S
  BY AmongFacts DEF Kept
<1>2. \A L \in SUBSET S : \A R : Before(t, L, R) => Before(u, L, R)
  BY AmongFacts
<1>3. JoinProviders(s, t) = j
  BY DEF JoinProviders, Everybody
<1> HIDE DEF u
<1>4. /\ j \in Seq(Everybody) /\ Len(j) = Len(s) + Len(u)
      /\ \A k \in 1..Len(s) : j[k] = s[k]
      /\ \A k \in 1..Len(u) : j[Len(s) + k] = u[k]
  BY <1>1
<1>5. Len(s) \in Nat /\ Len(u) \in Nat
  BY <1>1
<1> HIDE DEF j
<1>6. \A x : x \in ToSet(s) <=> \E i \in 1..Len(s) : s[i] = x
  BY DEF ToSet
<1>7. \A x : x \in ToSet(u) <=> \E i \in 1..Len(u) : u[i] = x
  BY <1>1 DEF ToSet
<1>8. \A x : x \in ToSet(j) <=> \E i \in 1..Len(j) : j[i] = x
  <2>1. DOMAIN j = 1..Len(j)
    BY <1>4
  <2> QED BY <2>1 DEF ToSet
<1>9. \A i \in 1..Len(j) : i \in 1..Len(s) \/ \E k \in 1..Len(u) : i = Len(s) + k
  <2>1. ASSUME NEW i \in 1..Len(j), i \notin 1..Len(s)
        PROVE  i - Len(s) \in 1..Len(u) /\ i = Len(s) + (i - Len(s))
    BY <1>4, <1>5, <2>1
  <2> QED BY <2>1
<1>10. ToSet(j) = ToSet(s) \cup ToSet(u)
  <2>1. ASSUME NEW x \in ToSet(j) PROVE x \in ToSet(s) \cup ToSet(u)
    <3>1. PICK i \in 1..Len(j) : j[i] = x
      BY <1>8, <2>1
    <3>2. CASE i \in 1..Len(s)
      BY <1>4, <1>6, <3>1, <3>2
    <3>3. CASE i \notin 1..Len(s)
      <4>1. PICK k \in 1..Len(u) : i = Len(s) + k
        BY <1>9, <3>3
      <4>2. j[i] = u[k]
        BY <1>4, <4>1
      <4> QED BY <1>7, <3>1, <4>2
    <3> QED BY <3>2, <3>3
  <2>2. ASSUME NEW x \in ToSet(s) PROVE x \in ToSet(j)
    BY <1>4, <1>5, <1>6, <1>8
  <2>3. ASSUME NEW x \in ToSet(u) PROVE x \in ToSet(j)
    <3>1. PICK k \in 1..Len(u) : u[k] = x
      BY <1>7
    <3>2. Len(s) + k \in 1..Len(j)
      BY <1>4, <1>5
    <3> QED BY <1>4, <1>8, <3>1, <3>2
  <2> QED BY <2>1, <2>2, <2>3
<1>11. ToSet(t) \subseteq Everybody
  BY DEF ToSet
<1>12. ToSet(j) = ToSet(s) \cup ToSet(t)
  BY <1>1, <1>10, <1>11
<1>13. ASSUME NEW L, NEW R, Before(s, L, R), L \subseteq ToSet(s) \/ Before(t, L, R),
              NEW i \in 1..Len(j), j[i] \in R, NEW l \in L
       PROVE  \E m \in 1..(i - 1) : j[m] = l
  <2>1. CASE i \in 1..Len(s)
    <3>1. PICK m \in 1..(i - 1) : s[m] = l
      BY <1>4, <1>13, <2>1 DEF Before
    <3>2. m \in 1..Len(s)
      BY <1>5, <2>1
    <3> QED BY <1>4, <3>1, <3>2
  <2>2. CASE i \notin 1..Len(s)
    <3>1. PICK k \in 1..Len(u) : i = Len(s) + k
      BY <1>9, <2>2
    <3>2. CASE l \in ToSet(s)
      <4>1. PICK m \in 1..Len(s) : s[m] = l
        BY <1>6, <3>2
      <4>2. m \in 1..(i - 1)
        BY <1>5, <3>1
      <4> QED BY <1>4, <4>1, <4>2
    <3>3. CASE l \notin ToSet(s)
      <4> DEFINE M == L \ ToSet(s)
      <4>1. Before(t, L, R) /\ l \in M
        BY <1>13, <3>3
      <4>2. Before(t, M, R)
        BY <4>1 DEF Before
      <4>3. \A x \in L : x \in ToSet(t) \/ x \notin ToSet(t)
        OBVIOUS
      <4>4. Before(t, M \cap S, R)
        BY <4>2 DEF Before
      <4>5. Before(u, M \cap S, R)
        BY <1>2, <4>4
      <4>6. u[k] \in R
        BY <1>4, <1>13, <3>1
      <4>7. u[k] \in ToSet(t)
        BY <1>1, <1>7
      <4>8. l \in S
        <5>1. \A r \in 1..Len(t) : t[r] \in R => \E m \in 1..(r - 1) : t[m] = l
          BY <4>1, <1>13 DEF Before
        <5>2. PICK r \in 1..Len(t) : t[r] = u[k]
          BY <4>7 DEF ToSet
        <5>3. PICK m \in 1..(r - 1) : t[m] = l
          BY <4>6, <5>1, <5>2
        <5>4. t[m] \in Everybody
          BY <5>2, <5>3
        <5> QED BY <3>3, <5>3, <5>4
      <4>9. PICK m \in 1..(k - 1) : u[m] = l
        BY <4>1, <4>5, <4>6, <4>8 DEF Before
      <4>10. Len(s) + m \in 1..(i - 1) /\ m \in 1..Len(u)
        BY <1>5, <3>1, <4>9
      <4> QED BY <1>4, <4>9, <4>10
    <3> QED BY <3>2, <3>3
  <2> QED BY <2>1, <2>2
<1>14. \A L, R : Before(s, L, R) /\ (L \subseteq ToSet(s) \/ Before(t, L, R)) => Before(j, L, R)
  BY <1>13 DEF Before
<1> QED BY <1>3, <1>4, <1>12, <1>14

-----------------------------------------------------------------------------
(* Who is asked.                                                           *)

Local == {"ociArchive", "ociDir", "localSnap", "localFile", "localDir"}
Specific == {"ociArchive", "ociDir", "localSnap"}
General == {"localFile", "localDir"}
Puller == {"docker", "registry"}

\* What is here goes before what is elsewhere, what is specific before what is not.
LEMMA AllFacts ==
  /\ All \in Seq(Everybody) /\ ToSet(All) = Everybody
  /\ Before(All, Local, Remote) /\ Before(All, Specific, General)
<1>1. Everybody = {"ociArchive", "ociDir", "localSnap", "localFile", "localDir", "docker",
               "registry", "ociModel", "remoteSnap"}
  BY DEF Everybody, TagsOf
<1>2. /\ All \in Seq(Everybody) /\ Len(All) = 9
      /\ All[1] = "ociArchive" /\ All[2] = "ociDir" /\ All[3] = "localSnap"
      /\ All[4] = "localFile" /\ All[5] = "localDir" /\ All[6] = "docker"
      /\ All[7] = "registry" /\ All[8] = "ociModel" /\ All[9] = "remoteSnap"
  BY <1>1 DEF All
<1>3. \A i \in 1..9 : i = 1 \/ i = 2 \/ i = 3 \/ i = 4 \/ i = 5 \/ i = 6 \/ i = 7 \/ i = 8 \/ i = 9
  OBVIOUS
<1>4. DOMAIN All = 1..9
  BY <1>2
<1>5. ToSet(All) = Everybody
  <2>1. \A i \in 1..9 : All[i] \in Everybody
    <3>1. ASSUME NEW N, NEW s \in Seq(N), NEW i \in 1..Len(s) PROVE s[i] \in N
      OBVIOUS
    <3> QED BY <1>2, <3>1
  <2>2. ASSUME NEW x \in Everybody PROVE \E i \in 1..9 : All[i] = x
    BY <1>1, <1>2
  <2> QED BY <1>4, <2>1, <2>2 DEF ToSet
<1>6. Before(All, Local, Remote)
  <2> SUFFICES ASSUME NEW i \in 1..9, All[i] \in Remote, NEW l \in Local
               PROVE  \E j \in 1..(i - 1) : All[j] = l
    BY <1>2 DEF Before
  <2>1. i > 5
    BY <1>2, <1>3 DEF Remote
  <2>2. \E j \in 1..5 : All[j] = l
    BY <1>2 DEF Local
  <2> QED BY <2>1, <2>2
<1>7. Before(All, Specific, General)
  <2> SUFFICES ASSUME NEW i \in 1..9, All[i] \in General, NEW l \in Specific
               PROVE  \E j \in 1..(i - 1) : All[j] = l
    BY <1>2 DEF Before
  <2>1. i > 3
    BY <1>2, <1>3 DEF General
  <2>2. \E j \in 1..3 : All[j] = l
    BY <1>2 DEF Specific
  <2> QED BY <2>1, <2>2
<1> QED BY <1>2, <1>5, <1>6, <1>7

\* Two providers pull images.
LEMMA PullsFacts == Pulls \in Seq(Everybody) /\ ToSet(Pulls) = Puller
<1>1. Bearing("pull") = Puller
  BY DEF Bearing, TagsOf, Puller
<1>2. Puller \subseteq Everybody
  BY DEF Puller, Everybody, TagsOf
<1>3. Pulls = Among(All, Puller)
  BY <1>1 DEF Pulls, Tagged
<1>4. Kept(Among(All, Puller), All, Puller)
  BY AllFacts, AmongFacts
<1> QED BY <1>2, <1>3, <1>4, AllFacts DEF Kept

\* One of them may be preferred, or both, or none.
LEMMA PreferredFacts == Preferred \in Seq(Everybody) /\ ToSet(Preferred) \subseteq Puller
BY PullsFacts, AmongFacts DEF Preferred, Tagged, Kept

\* The order in which they are asked when nothing special is asked for.
Ordered ==
  IF demand.pull = Unset THEN All
  ELSE JoinProviders(JoinProviders(Among(All, Everybody \ Bearing("pull")), Preferred), Pulls)

\* The order that GetSource promises.
InOrder(s) ==
  /\ s \in Seq(Everybody) /\ ToSet(s) = Everybody
  /\ Before(s, Local, Remote) /\ Before(s, Specific, General)
  /\ demand.pull # Unset => Before(s, ToSet(Preferred), Puller \ ToSet(Preferred))

\* It keeps its promise, whatever the default pull source is.
LEMMA OrderedFacts == InOrder(Ordered)
<1>1. CASE demand.pull = Unset
  BY <1>1, AllFacts DEF Ordered, InOrder
<1>2. CASE demand.pull # Unset
  <2> DEFINE others == Among(All, Everybody \ Bearing("pull"))
             some == JoinProviders(others, Preferred)
             most == JoinProviders(some, Pulls)
             P == ToSet(Preferred)
             Q == Puller \ P
  <2>1. Everybody \ Bearing("pull") = Everybody \ Puller
    BY DEF Bearing, TagsOf, Puller, Everybody
  <2>2. /\ Local \subseteq Everybody \ Puller /\ Specific \subseteq Everybody \ Puller
        /\ Puller \subseteq Everybody /\ General \cap Puller = {}
    BY DEF Local, Specific, Puller, General, Everybody, TagsOf
  <2>3. /\ others \in Seq(Everybody) /\ ToSet(others) = Everybody \ Puller
        /\ Before(others, Local, Remote) /\ Before(others, Specific, General)
    BY <2>1, <2>2, AllFacts, AmongFacts DEF Kept
  <2>4. \A s, L, R : s \in Seq(Everybody) /\ ToSet(s) \cap R = {} => Before(s, L, R)
    BY DEF Before, ToSet
  <2>5. Ordered = most
    BY <1>2 DEF Ordered
  <2> HIDE DEF others, P
  <2>6. P \subseteq Puller
    BY PreferredFacts DEF P
  <2>7. Before(others, P, Q) /\ Before(Preferred, P, Q)
    BY <2>3, <2>4, PreferredFacts DEF P
  <2>8. /\ some \in Seq(Everybody) /\ ToSet(some) = (Everybody \ Puller) \cup P
        /\ Before(some, Local, Remote) /\ Before(some, Specific, General) /\ Before(some, P, Q)
    <3> HIDE DEF Q
    <3> QED BY <2>2, <2>3, <2>7, PreferredFacts, JoinFacts DEF P
  <2> HIDE DEF some
  <2>9. /\ most \in Seq(Everybody) /\ ToSet(most) = Everybody
        /\ Before(most, Local, Remote) /\ Before(most, Specific, General) /\ Before(most, P, Q)
    <3>1. /\ most \in Seq(Everybody) /\ ToSet(most) = ToSet(some) \cup Puller
      BY <2>8, PullsFacts, JoinFacts
    <3>2. Local \subseteq ToSet(some) /\ Specific \subseteq ToSet(some) /\ P \subseteq ToSet(some)
      BY <2>2, <2>8
    <3>3. Before(most, Local, Remote) /\ Before(most, Specific, General) /\ Before(most, P, Q)
      <4> HIDE DEF Q
      <4> QED BY <2>8, <3>2, PullsFacts, JoinFacts
    <3>4. ToSet(most) = Everybody
      <4> HIDE DEF most
      <4> QED BY <2>2, <2>6, <2>8, <3>1
    <3> QED BY <3>1, <3>3, <3>4
  <2> HIDE DEF most
  <2> QED BY <1>2, <2>5, <2>9 DEF InOrder, P
<1> QED BY <1>1, <1>2

\* c holds what is chosen after each of the tags.
Chooses(c, s, tags, N) ==
  c = [i \in 0..N |-> IF i = 0 THEN <<>>
                      ELSE JoinProviders(c[i - 1], Tagged(s, tags[i]))]

\* Tags can be gone through to their end.
LEMMA ChoosesExist ==
  ASSUME NEW s, NEW tags PROVE \A N \in Nat : \E c : Chooses(c, s, tags, N)
<1> DEFINE T == {N \in Nat : \E c : Chooses(c, s, tags, N)}
           More(t, i) == JoinProviders(t, Tagged(s, tags[i]))
<1>1. 0 \in T
  <2>1. Chooses([i \in 0..0 |-> <<>>], s, tags, 0)
    BY DEF Chooses
  <2> QED BY <2>1
<1>2. ASSUME NEW N \in Nat, N \in T PROVE N + 1 \in T
  <2>1. PICK c : Chooses(c, s, tags, N)
    BY <1>2
  <2> DEFINE d == [i \in 0..(N + 1) |-> IF i <= N THEN c[i] ELSE More(c[N], N + 1)]
  <2> HIDE DEF More
  <2>2. \A i \in 0..N : d[i] = c[i] /\ c[i] = IF i = 0 THEN <<>> ELSE More(c[i - 1], i)
    <3>1. \A i \in 0..N : d[i] = c[i]
      OBVIOUS
    <3>2. c = [i \in 0..N |-> IF i = 0 THEN <<>> ELSE More(c[i - 1], i)]
      BY <2>1 DEF Chooses, More
    <3> HIDE DEF d
    <3> QED BY <3>1, <3>2
  <2>3. ASSUME NEW i \in 0..(N + 1)
        PROVE  d[i] = IF i = 0 THEN <<>> ELSE More(d[i - 1], i)
    <3>1. CASE i = N + 1
      <4>1. d[N + 1] = More(c[N], N + 1) /\ i # 0 /\ i - 1 = N
        BY <3>1
      <4>2. d[N] = c[N]
        BY <2>2
      <4> HIDE DEF d
      <4> QED BY <3>1, <4>1, <4>2
    <3>2. CASE i \in 0..N
      <4> HIDE DEF d
      <4>1. i # 0 => i - 1 \in 0..N
        BY <3>2
      <4> QED BY <3>2, <2>2, <4>1
    <3> QED BY <3>1, <3>2
  <2>4. d = [i \in 0..(N + 1) |-> d[i]]
    OBVIOUS
  <2> HIDE DEF d
  <2>5. d = [i \in 0..(N + 1) |-> IF i = 0 THEN <<>> ELSE More(d[i - 1], i)]
    BY <2>3, <2>4
  <2>6. Chooses(d, s, tags, N + 1)
    BY <2>5 DEF Chooses, More
  <2> QED BY <2>6
<1>3. Nat \subseteq T
  <2> HIDE DEF T
  <2> QED BY <1>1, <1>2, Inductive
<1> QED BY <1>3

\* Tags choose from a list, whatever they are.
LEMMA SelectedFacts ==
  ASSUME NEW s \in Seq(Everybody), NEW tags, Len(tags) \in Nat
  PROVE  Selected(s, tags) \in Seq(Everybody)
<1> DEFINE n == Len(tags)
           c == CHOOSE d : Chooses(d, s, tags, n)
           T == {k \in Nat : k <= n => c[k] \in Seq(Everybody)}
<1>1. Chooses(c, s, tags, n)
  <2>1. \E d : Chooses(d, s, tags, n)
    BY ChoosesExist
  <2> QED BY <2>1
<1>2. Selected(s, tags) = c[n]
  BY Zenon DEF Selected, Chooses
<1>3. n \in Nat
  OBVIOUS
<1> HIDE DEF c, n
<1>4. \A i \in 0..n : c[i] = IF i = 0 THEN <<>> ELSE JoinProviders(c[i - 1], Tagged(s, tags[i]))
  BY <1>1 DEF Chooses
<1>5. 0 \in T
  <2>1. c[0] = <<>>
    <3>1. 0 \in 0..n
      BY <1>3
    <3>2. c[0] = IF 0 = 0 THEN <<>> ELSE JoinProviders(c[0 - 1], Tagged(s, tags[0]))
      BY <1>4, <3>1
    <3> QED BY <3>2
  <2>2. c[0] \in Seq(Everybody)
    BY <2>1
  <2> QED BY <2>2
<1>6. ASSUME NEW k \in Nat, k \in T PROVE k + 1 \in T
  <2> SUFFICES ASSUME k + 1 <= n PROVE c[k + 1] \in Seq(Everybody)
    OBVIOUS
  <2>1. c[k] \in Seq(Everybody)
    BY <1>3, <1>6
  <2>2. c[k + 1] = JoinProviders(c[k], Tagged(s, tags[k + 1]))
    BY <1>3, <1>4
  <2>3. Tagged(s, tags[k + 1]) \in Seq(Everybody)
    BY AmongFacts DEF Tagged, Kept
  <2> QED BY <2>1, <2>2, <2>3, JoinFacts
<1>7. Nat \subseteq T
  <2> HIDE DEF T
  <2> QED BY <1>5, <1>6, Inductive
<1> QED BY <1>2, <1>3, <1>7

\* The order is kept when nobody in particular is asked for.
LEMMA ProvidersFacts ==
  ASSUME demand \in Demands
  PROVE  /\ Providers \in Seq(Everybody)
         /\ demand.from = <<>> => InOrder(Providers)
<1>1. Providers = IF demand.from = <<>> THEN Ordered ELSE Selected(Ordered, demand.from)
  BY Zenon DEF Providers, Ordered, Everybody
<1>2. Len(demand.from) \in Nat
  BY DemandsAssumption
<1> QED BY <1>1, <1>2, OrderedFacts, SelectedFacts DEF InOrder

-----------------------------------------------------------------------------
(* The invariant.                                                          *)

Errors == {"missing", "other"}

\* Who was asked: the first of those to be asked.
TriedInv ==
  /\ input \in Inputs /\ demand \in Demands
  /\ tried \in Seq(Everybody) /\ Len(tried) <= Len(Providers)
  /\ \A i \in 1..Len(tried) : tried[i] = Providers[i]

\* Their errors.
FailuresInv ==
  failures = {<<p, Provide(p).error>> : p \in {q \in ToSet(tried) : Provide(q).error # "none"}}

\* GetSource goes on until one of them has a source.
VerdictInv ==
  /\ \A i \in 1..Len(tried) :
       Provide(tried[i]).source => i = Len(tried) /\ verdict \in {"found", "unsupported"}
  /\ IF verdict = "found"
     THEN found \in ToSet(tried) /\ Provide(found).source /\ Supported(found)
     ELSE found = "nobody"
  /\ verdict = "unsupported" =>
       \E p \in ToSet(tried) : Provide(p).source /\ ~Supported(p)
  /\ verdict \in {"failed", "unresolved"} => Len(tried) = Len(Providers)
  /\ verdict = "unresolved" => \A p \in ToSet(tried) : <<p, "other">> \notin failures

\* It answers as it will, but for a file with exclusions.
AnswersInv ==
  /\ answers \in Seq({"files", "error"})
  /\ verdict # "found" => answers = <<>> /\ ~made
  /\ patterns = demand.exclude \/ (patterns = "absolute" /\ demand.exclude = "relative")
  /\ found # "localFile" \/ demand.exclude # "relative" =>
       /\ \A i \in 1..Len(answers) : ~closed => answers[i] = FileResolver
       /\ \A i, j \in 1..Len(answers) : answers[i] = answers[j]

SourceInv == TriedInv /\ FailuresInv /\ VerdictInv /\ AnswersInv

\* Nobody was asked.
LEMMA SourcesInitially == SourcesInit => SourceInv
<1> SUFFICES ASSUME SourcesInit PROVE SourceInv
  OBVIOUS
<1>1. TriedInv
  <2>1. Providers \in Seq(Everybody)
    BY ProvidersFacts DEF SourcesInit
  <2> QED BY <2>1 DEF SourcesInit, TriedInv
<1>2. FailuresInv
  BY DEF SourcesInit, FailuresInv, ToSet
<1>3. VerdictInv
  BY DEF SourcesInit, VerdictInv
<1>4. AnswersInv
  BY DEF SourcesInit, AnswersInv
<1> QED BY <1>1, <1>2, <1>3, <1>4 DEF SourceInv

\* What a step that asks nobody keeps.
LEMMA Stays ==
  ASSUME UNCHANGED <<input, demand>>
  PROVE  /\ Providers' = Providers /\ Preferred' = Preferred
         /\ \A p : Provide(p)' = Provide(p) /\ (Supported(p)' <=> Supported(p))
<1>1. \A p : Provide(p)' = Provide(p)
  BY DEF Provide, SnapFrom, ProvideRemoteSnap, ProvideFile, ProvideDir, ProvideModel, ProvideImage
<1>2. \A p : Supported(p)' <=> Supported(p)
  BY DEF Supported
<1>3. Preferred' = Preferred
  BY Zenon DEF Preferred, Pulls
<1>4. Providers' = Providers
  BY <1>3, Zenon DEF Providers, Pulls
<1> QED BY <1>1, <1>2, <1>3, <1>4

\* What a provider returns.
LEMMA ProvideFacts ==
  ASSUME NEW p
  PROVE  Provide(p).source \in BOOLEAN /\ Provide(p).error \in {"none", "missing", "other"}
<1>1. \A things : Made(things).source \in BOOLEAN /\ Made(things).error = "none"
  BY DEF Made
<1>2. NotMade.source \in BOOLEAN /\ NotMade.error = "other"
  BY DEF NotMade
<1>3. NoSuchFile.source \in BOOLEAN /\ NoSuchFile.error = "missing"
  BY DEF NoSuchFile, NotMade
<1>4. \A snap, things : /\ SnapFrom(snap, things).source \in BOOLEAN
                        /\ SnapFrom(snap, things).error \in {"none", "other"}
  BY DEF SnapFrom, Made, NotMade
<1>5. ProvideRemoteSnap.source \in BOOLEAN /\ ProvideRemoteSnap.error \in {"none", "other"}
  BY <1>4 DEF ProvideRemoteSnap, NotMade
<1>6. ProvideFile.source \in BOOLEAN /\ ProvideFile.error \in {"none", "missing", "other"}
  BY <1>1, <1>2, <1>3 DEF ProvideFile
<1>7. ProvideDir.source \in BOOLEAN /\ ProvideDir.error \in {"none", "missing", "other"}
  BY <1>1, <1>2, <1>3 DEF ProvideDir
<1>8. ProvideModel.source \in BOOLEAN /\ ProvideModel.error \in {"none", "missing", "other"}
  BY <1>1, <1>2 DEF ProvideModel
<1>9. ProvideImage(p).source \in BOOLEAN /\ ProvideImage(p).error \in {"none", "missing", "other"}
  BY <1>1, <1>2 DEF ProvideImage
<1> QED BY <1>4, <1>5, <1>6, <1>7, <1>8, <1>9 DEF Provide

\* The elements of a list that one is added to.
LEMMA OneMore ==
  ASSUME NEW N, NEW s \in Seq(N), NEW p \in N
  PROVE  /\ Append(s, p) \in Seq(N) /\ Len(Append(s, p)) = Len(s) + 1
         /\ \A i \in 1..Len(s) : Append(s, p)[i] = s[i]
         /\ Append(s, p)[Len(s) + 1] = p
         /\ ToSet(Append(s, p)) = ToSet(s) \cup {p}
<1> DEFINE t == Append(s, p)
<1>1. /\ t \in Seq(N) /\ Len(t) = Len(s) + 1 /\ t[Len(s) + 1] = p
      /\ \A i \in 1..Len(s) : t[i] = s[i]
  OBVIOUS
<1>2. Len(s) \in Nat /\ DOMAIN s = 1..Len(s)
  OBVIOUS
<1>3. DOMAIN t = 1..Len(t)
  BY <1>1
<1> HIDE DEF t
<1>4. ToSet(t) = ToSet(s) \cup {p}
  <2>1. ASSUME NEW x \in ToSet(t) PROVE x \in ToSet(s) \cup {p}
    <3>1. PICK i \in 1..Len(t) : t[i] = x
      BY <1>3 DEF ToSet
    <3>2. i = Len(s) + 1 \/ i \in 1..Len(s)
      BY <1>1, <1>2
    <3> QED BY <1>1, <1>2, <3>1, <3>2 DEF ToSet
  <2>2. ASSUME NEW x \in ToSet(s) PROVE x \in ToSet(t)
    <3>1. PICK i \in 1..Len(s) : s[i] = x
      BY <1>2 DEF ToSet
    <3>2. i \in 1..Len(t)
      BY <1>1, <1>2
    <3> QED BY <1>1, <1>3, <3>1, <3>2 DEF ToSet
  <2>3. p \in ToSet(t)
    <3>1. Len(s) + 1 \in 1..Len(t)
      BY <1>1, <1>2
    <3> QED BY <1>1, <1>3, <3>1 DEF ToSet
  <2> QED BY <2>1, <2>2, <2>3
<1> QED BY <1>1, <1>4 DEF t

\* One more is asked.
LEMMA TryStep == ASSUME SourceInv, TryProvider PROVE SourceInv'
<1> DEFINE p == Providers[Len(tried) + 1]
<1>1. /\ verdict = "open" /\ Len(tried) < Len(Providers)
      /\ tried' = Append(tried, p)
      /\ failures' = IF Provide(p).error = "none" THEN failures
                     ELSE failures \cup {<<p, Provide(p).error>>}
      /\ verdict' = IF ~Provide(p).source THEN "open"
                    ELSE IF Supported(p) THEN "found" ELSE "unsupported"
      /\ found' = IF verdict' = "found" THEN p ELSE "nobody"
      /\ made' = (found' \in {"localSnap", "remoteSnap"} /\ Provide(p).error = "none")
      /\ UNCHANGED <<input, demand, patterns, answers, closed>>
  BY DEF TryProvider
<1>2. Providers \in Seq(Everybody) /\ tried \in Seq(Everybody)
  BY ProvidersFacts DEF SourceInv, TriedInv
<1>3. p \in Everybody /\ Len(tried) \in Nat
  BY <1>1, <1>2
<1> HIDE DEF p
<1>4. /\ tried' \in Seq(Everybody) /\ Len(tried') = Len(tried) + 1
      /\ \A i \in 1..Len(tried) : tried'[i] = tried[i]
      /\ tried'[Len(tried) + 1] = p
      /\ ToSet(tried') = ToSet(tried) \cup {p}
  BY <1>1, <1>2, <1>3, OneMore
<1>5. /\ Providers' = Providers
      /\ \A q : Provide(q)' = Provide(q) /\ (Supported(q)' <=> Supported(q))
  BY <1>1, Stays
<1>6. \A i \in 1..Len(tried') : i = Len(tried) + 1 \/ i \in 1..Len(tried)
  BY <1>3, <1>4
<1>7. TriedInv'
  <2>1. Len(tried') <= Len(Providers)
    BY <1>1, <1>2, <1>3, <1>4
  <2>2. \A i \in 1..Len(tried') : tried'[i] = Providers[i]
    BY <1>4, <1>6 DEF SourceInv, TriedInv, p
  <2> QED BY <1>1, <1>4, <1>5, <2>1, <2>2 DEF SourceInv, TriedInv
<1>8. failures' = {<<q, Provide(q).error>> : q \in {r \in ToSet(tried') : Provide(r).error # "none"}}
  BY <1>1, <1>4 DEF SourceInv, FailuresInv
<1>9. FailuresInv'
  BY <1>5, <1>8 DEF FailuresInv
<1>10. VerdictInv'
  <2>1. \A i \in 1..Len(tried) : ~Provide(tried[i]).source
    BY <1>1 DEF SourceInv, VerdictInv
  <2>2. verdict' \in {"found", "unsupported"} <=> Provide(p).source
    BY <1>1
  <2>3. \A i \in 1..Len(tried') :
          Provide(tried'[i]).source => i = Len(tried') /\ verdict' \in {"found", "unsupported"}
    BY <1>4, <1>6, <2>1, <2>2
  <2>4. verdict' = "found" => found' = p /\ Provide(p).source /\ Supported(p)
    BY <1>1
  <2>5. verdict' = "unsupported" => Provide(p).source /\ ~Supported(p)
    BY <1>1
  <2>6. verdict' \in {"open", "found", "unsupported"}
    BY <1>1
  <2>7. verdict' # "found" => found' = "nobody"
    BY <1>1
  <2> QED BY <1>4, <1>5, <2>3, <2>4, <2>5, <2>6, <2>7 DEF VerdictInv
<1>11. AnswersInv'
  <2>1. answers' = <<>>
    BY <1>1 DEF SourceInv, AnswersInv
  <2>2. verdict' # "found" => ~made'
    BY <1>1
  <2>3. patterns' = demand'.exclude \/ (patterns' = "absolute" /\ demand'.exclude = "relative")
    BY <1>1 DEF SourceInv, AnswersInv
  <2> QED BY <2>1, <2>2, <2>3 DEF AnswersInv
<1> QED BY <1>7, <1>9, <1>10, <1>11 DEF SourceInv

\* Nobody is asked: the demand is invalid, or all were.
LEMMA EndStep == ASSUME SourceInv, RejectDemand \/ RefuseInput PROVE SourceInv'
<1>1. /\ UNCHANGED <<input, demand, tried, failures, found, leftover, made, patterns, answers, closed>>
      /\ verdict = "open"
      /\ verdict' \in {"invalid", "failed", "unresolved"}
      /\ verdict' \in {"failed", "unresolved"} => Len(tried) = Len(Providers)
      /\ verdict' = "unresolved" => \A p \in ToSet(tried) : <<p, "other">> \notin failures
  BY DEF RejectDemand, RefuseInput
<1>2. /\ Providers' = Providers
      /\ \A q : Provide(q)' = Provide(q) /\ (Supported(q)' <=> Supported(q))
  BY <1>1, Stays
<1>3. TriedInv'
  BY <1>1, <1>2 DEF SourceInv, TriedInv
<1>4. FailuresInv'
  BY <1>1, <1>2 DEF SourceInv, FailuresInv
<1>5. VerdictInv'
  BY <1>1, <1>2 DEF SourceInv, VerdictInv
<1>6. AnswersInv'
  <2>1. answers = <<>> /\ ~made
    BY <1>1 DEF SourceInv, AnswersInv
  <2> QED BY <1>1, <2>1 DEF SourceInv, AnswersInv
<1> QED BY <1>3, <1>4, <1>5, <1>6 DEF SourceInv

\* What a step keeps that changes no verdict.
LEMMA Settled ==
  ASSUME SourceInv, UNCHANGED <<input, demand, tried, failures, verdict, found>>
  PROVE  TriedInv' /\ FailuresInv' /\ VerdictInv'
<1>1. /\ Providers' = Providers
      /\ \A q : Provide(q)' = Provide(q) /\ (Supported(q)' <=> Supported(q))
  BY Stays
<1>2. TriedInv'
  BY <1>1 DEF SourceInv, TriedInv
<1>3. FailuresInv'
  BY <1>1 DEF SourceInv, FailuresInv
<1>4. VerdictInv'
  BY <1>1 DEF SourceInv, VerdictInv
<1> QED BY <1>2, <1>3, <1>4

\* The source is asked for its files.
LEMMA AskStep == ASSUME SourceInv, AskResolver PROVE SourceInv'
<1> DEFINE a == FileResolver
<1>1. /\ verdict = "found" /\ ~closed
      /\ answers' = Append(answers, a)
      /\ patterns' = IF /\ found \in {"localFile", "localDir"} /\ ~made /\ patterns = "relative"
                     THEN "absolute" ELSE patterns
      /\ made' = (made \/ (found = "localDir" /\ a = "files"))
      /\ UNCHANGED <<input, demand, tried, failures, verdict, found, leftover, closed>>
  BY DEF AskResolver
<1>2. TriedInv' /\ FailuresInv' /\ VerdictInv'
  BY <1>1, Settled
<1>3. a \in {"files", "error"}
  BY DEF FileResolver
<1>4. found # "localFile" \/ demand.exclude # "relative" => FileResolver' = a
  <2>1. patterns = "relative" => demand.exclude = "relative"
    BY DEF SourceInv, AnswersInv
  <2>2. CASE found \in {"localSnap", "remoteSnap"}
    BY <1>1, <2>2 DEF FileResolver
  <2>3. CASE found = "localFile"
    BY <1>1, <2>1, <2>3 DEF FileResolver
  <2>4. CASE found = "localDir"
    BY <1>1, <2>4 DEF FileResolver
  <2>5. CASE found \notin {"localSnap", "remoteSnap", "localFile", "localDir"}
    BY <1>1, <2>5 DEF FileResolver
  <2> QED BY <2>2, <2>3, <2>4, <2>5
<1> HIDE DEF a
<1>5. answers \in Seq({"files", "error"})
  BY DEF SourceInv, AnswersInv
<1>6. /\ answers' \in Seq({"files", "error"}) /\ Len(answers') = Len(answers) + 1
      /\ \A i \in 1..Len(answers) : answers'[i] = answers[i]
      /\ answers'[Len(answers) + 1] = a
  BY <1>1, <1>3, <1>5, OneMore
<1>7. Len(answers) \in Nat
  BY <1>5
<1>8. \A i \in 1..Len(answers') : i = Len(answers) + 1 \/ i \in 1..Len(answers)
  BY <1>6, <1>7
<1>9. found # "localFile" \/ demand.exclude # "relative" =>
        \A i \in 1..Len(answers') : answers'[i] = a
  BY <1>1, <1>6, <1>8 DEF SourceInv, AnswersInv, a
<1>10. patterns' = demand'.exclude \/ (patterns' = "absolute" /\ demand'.exclude = "relative")
  BY <1>1 DEF SourceInv, AnswersInv
<1>11. AnswersInv'
  BY <1>1, <1>4, <1>6, <1>9, <1>10 DEF AnswersInv
<1> QED BY <1>2, <1>11 DEF SourceInv

\* Every step keeps the invariant.
LEMMA SourcesStep == SourceInv /\ [SourcesNext]_sourceVars => SourceInv'
<1> SUFFICES ASSUME SourceInv, [SourcesNext]_sourceVars PROVE SourceInv'
  OBVIOUS
<1>1. CASE RejectDemand \/ RefuseInput
  BY <1>1, EndStep
<1>2. CASE TryProvider
  BY <1>2, TryStep
<1>3. CASE AskResolver
  BY <1>3, AskStep
<1>4. CASE CloseSource
  <2>1. TriedInv' /\ FailuresInv' /\ VerdictInv'
    BY <1>4, Settled DEF CloseSource
  <2>2. AnswersInv'
    BY <1>4 DEF SourceInv, AnswersInv, CloseSource
  <2> QED BY <2>1, <2>2 DEF SourceInv
<1>5. CASE UNCHANGED sourceVars
  <2>1. TriedInv' /\ FailuresInv' /\ VerdictInv'
    BY <1>5, Settled DEF sourceVars
  <2>2. FileResolver' = FileResolver
    BY <1>5 DEF sourceVars, FileResolver
  <2>3. AnswersInv'
    BY <1>5, <2>2 DEF SourceInv, AnswersInv, sourceVars
  <2> QED BY <2>1, <2>3 DEF SourceInv
<1> QED BY <1>1, <1>2, <1>3, <1>4, <1>5 DEF SourcesNext

\* For any inputs and demands, GetSource asks in its order until one provider has a
\* source, keeps what errors there were, and the source answers as it did.
THEOREM SourcesInvariant == SourcesSpec => []SourceInv
BY SourcesInitially, SourcesStep, PTL DEF SourcesSpec

-----------------------------------------------------------------------------
(* What it comes to.                                                       *)

\* What is not there when a provider has no source of it.
LEMMA NoSource ==
  ASSUME input \in Inputs
  PROVE  /\ ~Provide("ociArchive").source => input.path # "image-archive"
         /\ ~Provide("ociDir").source => input.path # "image-layout"
         /\ ~Provide("localSnap").source => input.path \notin {"snap", "broken-snap"}
         /\ ~Provide("localFile").source =>
              input.path \in {"nothing", "directory", "image-layout", "torn-archive"}
         /\ ~Provide("localDir").source => input.path \notin {"directory", "image-layout"}
         /\ ~Provide("docker").source => ~input.docker
         /\ ~Provide("registry").source => input.registry # "image"
         /\ ~Provide("ociModel").source => input.registry # "model"
         /\ ~Provide("remoteSnap").source => input.store \in {"nothing", "cut-off"}
<1>1. \A things : Made(things).source
  BY DEF Made
<1>2. ~NotMade.source
  BY DEF NotMade
<1>3. \A p \in {"ociArchive", "ociDir", "docker", "registry"} : Provide(p) = ProvideImage(p)
  BY DEF Provide
<1>4. /\ ~Provide("ociArchive").source => input.path # "image-archive"
      /\ ~Provide("ociDir").source => input.path # "image-layout"
      /\ ~Provide("docker").source => ~input.docker
      /\ ~Provide("registry").source => input.registry # "image"
  BY <1>1, <1>3 DEF ProvideImage
<1>5. \A snap, things : snap \in {"snap", "broken-snap"} => SnapFrom(snap, things).source
  BY <1>1 DEF SnapFrom, Made
<1>6. ~Provide("localSnap").source => input.path \notin {"snap", "broken-snap"}
  BY <1>5 DEF Provide
<1>7. ~Provide("remoteSnap").source => input.store \in {"nothing", "cut-off"}
  <2>1. input.store \in {"nothing", "snap", "broken-snap", "cut-off"}
    BY InputsAssumption
  <2>2. Provide("remoteSnap") = ProvideRemoteSnap
    BY DEF Provide
  <2> QED BY <1>5, <2>1, <2>2 DEF ProvideRemoteSnap
<1>8. ~Provide("localFile").source =>
        input.path \in {"nothing", "directory", "image-layout", "torn-archive"}
  <2>1. Provide("localFile") = ProvideFile
    BY DEF Provide
  <2> QED BY <1>1, <2>1 DEF ProvideFile
<1>9. ~Provide("localDir").source => input.path \notin {"directory", "image-layout"}
  <2>1. Provide("localDir") = ProvideDir
    BY DEF Provide
  <2> QED BY <1>1, <2>1 DEF ProvideDir
<1>10. ~Provide("ociModel").source => input.registry # "model"
  <2>1. Provide("ociModel") = ProvideModel
    BY DEF Provide
  <2> QED BY <1>1, <2>1 DEF ProvideModel
<1> QED BY <1>4, <1>6, <1>7, <1>8, <1>9, <1>10

\* Without a source there is an error.
LEMMA ErrorWithoutSource ==
  ASSUME NEW p, ~Provide(p).source PROVE Provide(p).error # "none"
<1>1. \A things : Made(things).source
  BY DEF Made
<1>2. NotMade.error # "none" /\ NoSuchFile.error # "none"
  BY DEF NotMade, NoSuchFile
<1>3. \A snap, things : ~SnapFrom(snap, things).source => SnapFrom(snap, things).error # "none"
  BY <1>2 DEF SnapFrom, Made
<1>4. ~ProvideRemoteSnap.source => ProvideRemoteSnap.error # "none"
  BY <1>3 DEF ProvideRemoteSnap, NotMade
<1>5. ~ProvideFile.source => ProvideFile.error # "none"
  BY <1>1, <1>2 DEF ProvideFile
<1>6. ~ProvideDir.source => ProvideDir.error # "none"
  BY <1>1, <1>2 DEF ProvideDir
<1>7. ~ProvideModel.source => ProvideModel.error # "none"
  BY <1>1, <1>2 DEF ProvideModel
<1>8. ~ProvideImage(p).source => ProvideImage(p).error # "none"
  BY <1>1, <1>2 DEF ProvideImage
<1> QED BY <1>3, <1>4, <1>5, <1>6, <1>7, <1>8 DEF Provide

\* What there is of a file or directory that is a source, or missing.
LEMMA WithSource ==
  ASSUME input \in Inputs
  PROVE  /\ Provide("localFile").source =>
              input.path \in {"file", "archive", "image-archive", "snap", "broken-snap"}
         /\ Provide("localDir").source => input.path \in {"directory", "image-layout"}
         /\ \A p : Provide(p).error = "missing" => input.path = "nothing"
<1>1. ~NotMade.source /\ ~NoSuchFile.source
  BY DEF NotMade, NoSuchFile
<1>2. input.path \in {"nothing", "directory", "file", "archive", "torn-archive",
                      "image-archive", "image-layout", "snap", "broken-snap"}
  BY InputsAssumption
<1>3. Provide("localFile") = ProvideFile /\ Provide("localDir") = ProvideDir
  BY DEF Provide
<1>4. Provide("localFile").source =>
        input.path \in {"file", "archive", "image-archive", "snap", "broken-snap"}
  BY <1>1, <1>2, <1>3 DEF ProvideFile
<1>5. Provide("localDir").source => input.path \in {"directory", "image-layout"}
  BY <1>1, <1>3 DEF ProvideDir
<1>6. ASSUME NEW p, Provide(p).error = "missing" PROVE input.path = "nothing"
  <2>1. \A things : Made(things).error # "missing"
    BY DEF Made
  <2>2. NotMade.error # "missing"
    BY DEF NotMade
  <2>3. \A snap, things : SnapFrom(snap, things).error # "missing"
    BY DEF SnapFrom, Made, NotMade
  <2>4. ProvideRemoteSnap.error # "missing"
    BY <2>3 DEF ProvideRemoteSnap, NotMade
  <2>5. ProvideFile.error = "missing" => input.path = "nothing"
    BY <2>1, <2>2 DEF ProvideFile
  <2>6. ProvideDir.error = "missing" => input.path = "nothing"
    BY <2>1, <2>2 DEF ProvideDir
  <2>7. ProvideModel.error # "missing" /\ ProvideImage(p).error # "missing"
    BY <2>1, <2>2 DEF ProvideModel, ProvideImage
  <2> QED BY <1>6, <2>3, <2>4, <2>5, <2>6, <2>7 DEF Provide
<1> QED BY <1>4, <1>5, <1>6

\* Whoever is before one that was asked has no source, if the order is GetSource's.
LEMMA AskedBefore ==
  ASSUME SourceInv, NEW L, NEW R, Before(Providers, L, R),
         NEW p \in ToSet(tried), p \in R, NEW l \in L
  PROVE  l \in ToSet(tried) /\ (l # p => ~Provide(l).source)
<1>1. tried \in Seq(Everybody) /\ Len(tried) <= Len(Providers) /\ Len(Providers) \in Nat
  BY ProvidersFacts DEF SourceInv, TriedInv
<1>2. DOMAIN tried = 1..Len(tried) /\ Len(tried) \in Nat
  BY <1>1
<1>3. PICK i \in 1..Len(tried) : tried[i] = p
  BY <1>2 DEF ToSet
<1>4. Providers[i] \in R /\ i \in 1..Len(Providers)
  BY <1>1, <1>2, <1>3 DEF SourceInv, TriedInv
<1>5. PICK j \in 1..(i - 1) : Providers[j] = l
  BY <1>4 DEF Before
<1>6. j \in 1..Len(tried) /\ j # Len(tried)
  <2>1. \A n \in Nat : \A m \in 1..n : \A k \in 1..(m - 1) : k \in 1..n /\ k # n
    OBVIOUS
  <2> QED BY <1>2, <2>1
<1>7. tried[j] = l
  BY <1>5, <1>6 DEF SourceInv, TriedInv
<1> QED BY <1>2, <1>6, <1>7 DEF ToSet, SourceInv, VerdictInv

\* The parts of what GetSource promises: where it looks first,
LEMMA IsNearestFirst == SourceInv => NearestFirst
<1> SUFFICES ASSUME SourceInv, demand.from = <<>> 
             PROVE  /\ Remote \cap ToSet(tried) # {} => input.path \in {"nothing", "torn-archive"}
                    /\ found = "localFile" => input.path \in {"archive", "file"}
                    /\ found = "localDir" => input.path = "directory"
  BY DEF NearestFirst
<1>1. InOrder(Providers) /\ input \in Inputs
  BY ProvidersFacts DEF SourceInv, TriedInv
<1>2. ASSUME NEW p \in Remote \cap ToSet(tried) PROVE input.path \in {"nothing", "torn-archive"}
  <2>1. \A l \in Local : l # p
    BY DEF Local, Remote
  <2>2. \A l \in Local : ~Provide(l).source
    BY <1>1, <2>1, AskedBefore DEF InOrder
  <2>3. ~Provide("localFile").source /\ ~Provide("localDir").source
    BY <2>2 DEF Local
  <2> QED BY <1>1, <2>3, NoSource
<1>3. ASSUME NEW p \in General, found = p
      PROVE  /\ \A l \in Specific : ~Provide(l).source
             /\ Provide(p).source
  <2>1. p # "nobody"
    BY DEF General
  <2>2. p \in ToSet(tried) /\ Provide(p).source
    BY <1>3, <2>1 DEF SourceInv, VerdictInv
  <2>3. \A l \in Specific : l # p
    BY DEF Specific, General
  <2> QED BY <1>1, <2>2, <2>3, AskedBefore DEF InOrder
<1>4. found \in General =>
        input.path \notin {"image-archive", "image-layout", "snap", "broken-snap"}
  <2> SUFFICES ASSUME found \in General
               PROVE  input.path \notin {"image-archive", "image-layout", "snap", "broken-snap"}
    OBVIOUS
  <2>1. ~Provide("ociArchive").source /\ ~Provide("ociDir").source /\ ~Provide("localSnap").source
    BY <1>3 DEF Specific
  <2> QED BY <1>1, <2>1, NoSource
<1>5. found = "localFile" => input.path \in {"archive", "file"}
  BY <1>1, <1>3, <1>4, WithSource DEF General
<1>6. found = "localDir" => input.path = "directory"
  BY <1>1, <1>3, <1>4, WithSource DEF General
<1> QED BY <1>2, <1>5, <1>6

\* what becomes of the default pull source,
LEMMA IsPreferred == SourceInv => PreferredWins
<1> SUFFICES ASSUME SourceInv, found \in ToSet(Pulls) \ ToSet(Preferred), demand.pull # Unset,
                    demand.from = <<>>, NEW p \in ToSet(Preferred)
             PROVE  ProvideImage(p) = NotMade
  BY DEF PreferredWins
<1>1. InOrder(Providers) /\ ToSet(Pulls) = Puller /\ ToSet(Preferred) \subseteq Puller
  BY ProvidersFacts, PullsFacts, PreferredFacts DEF SourceInv, TriedInv
<1>2. found # "nobody"
  BY <1>1 DEF Puller
<1>3. found \in ToSet(tried)
  BY <1>2 DEF SourceInv, VerdictInv
<1>4. Before(Providers, ToSet(Preferred), Puller \ ToSet(Preferred))
  BY <1>1 DEF InOrder
<1>5. ~Provide(p).source
  BY <1>1, <1>3, <1>4, AskedBefore
<1>6. Provide(p) = ProvideImage(p)
  BY <1>1 DEF Provide, Puller
<1>7. \A things : Made(things).source
  BY DEF Made
<1> QED BY <1>5, <1>6, <1>7 DEF ProvideImage

\* why it refuses,
LEMMA IsJustified == SourceInv => RefusalJustified
<1> SUFFICES ASSUME SourceInv PROVE RefusalJustified
  OBVIOUS
<1>1. input \in Inputs
  BY DEF SourceInv, TriedInv
<1>2. verdict = "unsupported" => demand.platform /\ input.path # "nothing"
  <2> SUFFICES ASSUME verdict = "unsupported" PROVE demand.platform /\ input.path # "nothing"
    OBVIOUS
  <2>1. PICK p : Provide(p).source /\ ~Supported(p)
    BY DEF SourceInv, VerdictInv
  <2>2. demand.platform /\ p \in {"localFile", "localDir"}
    BY <2>1 DEF Supported
  <2> QED BY <1>1, <2>1, <2>2, WithSource
<1>3. tried \in Seq(Everybody) /\ DOMAIN tried = 1..Len(tried)
      /\ Providers \in Seq(Everybody) /\ DOMAIN Providers = 1..Len(Providers)
  BY ProvidersFacts DEF SourceInv, TriedInv
<1>4. ASSUME verdict \in {"failed", "unresolved"}
      PROVE  ToSet(tried) = ToSet(Providers) /\ \A p \in ToSet(tried) : ~Provide(p).source
  <2>1. Len(tried) = Len(Providers)
    BY <1>4 DEF SourceInv, VerdictInv
  <2>2. ToSet(tried) = ToSet(Providers)
    BY <1>3, <2>1 DEF ToSet, SourceInv, TriedInv
  <2>3. \A i \in 1..Len(tried) : ~Provide(tried[i]).source
    BY <1>4 DEF SourceInv, VerdictInv
  <2> QED BY <1>3, <2>2, <2>3 DEF ToSet
<1>5. verdict = "unresolved" => input.path = "nothing" \/ Providers = <<>>
  <2> SUFFICES ASSUME verdict = "unresolved", Providers # <<>> PROVE input.path = "nothing"
    OBVIOUS
  <2>1. Len(Providers) \in Nat /\ Len(Providers) # 0
    BY <1>3
  <2>2. 1 \in DOMAIN Providers
    BY <1>3, <2>1
  <2>3. PICK p : p \in ToSet(tried)
    BY <1>4, <2>2 DEF ToSet
  <2>4. ~Provide(p).source /\ <<p, "other">> \notin failures
    BY <1>4, <2>3 DEF SourceInv, VerdictInv
  <2>5. Provide(p).error # "other"
    BY <2>3, <2>4 DEF SourceInv, FailuresInv
  <2>6. Provide(p).error # "none"
    BY <2>4, ErrorWithoutSource
  <2> QED BY <1>1, <2>5, <2>6, ProvideFacts, WithSource
<1>6. ASSUME verdict \in {"failed", "unresolved"}, demand.from = <<>>
      PROVE  /\ input.path \in {"nothing", "torn-archive"}
             /\ ~input.docker /\ input.registry = "nothing"
             /\ input.store \in {"nothing", "cut-off"}
  <2>1. ToSet(Providers) = Everybody
    BY <1>6, ProvidersFacts DEF SourceInv, TriedInv, InOrder
  <2>2. \A p \in Everybody : ~Provide(p).source
    BY <1>4, <1>6, <2>1
  <2>3. Everybody = {"ociArchive", "ociDir", "localSnap", "localFile", "localDir", "docker",
                 "registry", "ociModel", "remoteSnap"}
    BY DEF Everybody, TagsOf
  <2>4. /\ ~Provide("localFile").source /\ ~Provide("localDir").source
        /\ ~Provide("docker").source /\ ~Provide("registry").source
        /\ ~Provide("ociModel").source /\ ~Provide("remoteSnap").source
    BY <2>2, <2>3
  <2>5. input.registry \in {"nothing", "image", "model"}
    BY <1>1, InputsAssumption
  <2> QED BY <1>1, <2>4, <2>5, NoSource
<1> QED BY <1>2, <1>5, <1>6 DEF RefusalJustified

\* and that answers are alike.
LEMMA IsAlike == SourceInv => AnswersAlike
<1> SUFFICES ASSUME SourceInv, NEW i \in DOMAIN answers, NEW j \in DOMAIN answers,
                    ~(found = "localFile" /\ demand.exclude = "relative")
             PROVE  answers[i] = answers[j]
  BY DEF AnswersAlike
<1>1. answers \in Seq({"files", "error"})
  BY DEF SourceInv, AnswersInv
<1>2. DOMAIN answers = 1..Len(answers)
  BY <1>1
<1> QED BY <1>2 DEF SourceInv, AnswersInv

-----------------------------------------------------------------------------
(* What is left of the sources.                                            *)

\* What was made for the source that is returned is its own.
LeftoverInv ==
  /\ verdict # "found" => found = "nobody" /\ ~closed
  /\ \A l \in leftover :
       \/ verdict = "found" /\ l[1] = found /\ ~closed
       \/ l = <<"remoteSnap", "download">> /\ input.store = "cut-off"
       \/ l = <<"localFile", "unpacked">> /\ verdict = "unsupported"

\* A provider that finds no source leaves only a download that was cut off; one whose
\* source is not supported, only what it unpacked.
LEMMA ProvidedLeftover ==
  ASSUME NEW p, NEW thing \in Provide(p).leftover
  PROVE  /\ ~Provide(p).source =>
              p = "remoteSnap" /\ thing = "download" /\ input.store = "cut-off"
         /\ Provide(p).source /\ ~Supported(p) => p = "localFile" /\ thing = "unpacked"
<1>1. CASE p = "localFile"
  BY <1>1 DEF Provide, ProvideFile, NotMade, NoSuchFile, Made
<1>2. CASE p = "localDir"
  BY <1>2 DEF Provide, ProvideDir, NotMade, NoSuchFile, Made
<1>3. CASE p \notin {"localFile", "localDir"}
  <2>1. Supported(p)
    BY <1>3 DEF Supported
  <2>2. CASE p = "remoteSnap"
    BY <2>1, <2>2 DEF Provide, ProvideRemoteSnap, SnapFrom, NotMade, Made
  <2>3. CASE p = "localSnap"
    BY <2>1, <2>3 DEF Provide, SnapFrom, NotMade, Made
  <2>4. CASE p = "ociModel"
    BY <2>1, <2>4 DEF Provide, ProvideModel, NotMade, Made
  <2>5. CASE p \notin {"remoteSnap", "localSnap", "ociModel"}
    <3>1. Provide(p) = ProvideImage(p)
      BY <1>3, <2>5 DEF Provide
    <3> QED BY <2>1, <3>1 DEF ProvideImage, NotMade, Made
  <2> QED BY <2>2, <2>3, <2>4, <2>5
<1> QED BY <1>1, <1>2, <1>3

\* Nothing was left before.
LEMMA LeftoverInitially == SourcesInit => LeftoverInv
BY DEF SourcesInit, LeftoverInv

\* Providers, and the end of the source, keep account of what is left.
LEMMA LeftoverStep == LeftoverInv /\ [SourcesNext]_sourceVars => LeftoverInv'
<1> SUFFICES ASSUME LeftoverInv, [SourcesNext]_sourceVars PROVE LeftoverInv'
  OBVIOUS
<1>1. CASE RejectDemand
  BY <1>1 DEF LeftoverInv, RejectDemand
<1>2. CASE TryProvider
  <2>1. PICK p : /\ verdict = "open"
                 /\ leftover' = leftover \cup {<<p, thing>> : thing \in Provide(p).leftover}
                 /\ verdict' = IF ~Provide(p).source THEN "open"
                               ELSE IF Supported(p) THEN "found" ELSE "unsupported"
                 /\ found' = IF verdict' = "found" THEN p ELSE "nobody"
                 /\ input' = input /\ closed' = closed
    BY <1>2 DEF TryProvider
  <2>2. \A l \in leftover : l = <<"remoteSnap", "download">> /\ input.store = "cut-off"
    BY <2>1 DEF LeftoverInv
  <2>3. ASSUME NEW thing \in Provide(p).leftover
        PROVE  \/ verdict' = "found" /\ p = found' /\ ~closed'
               \/ p = "remoteSnap" /\ thing = "download" /\ input'.store = "cut-off"
               \/ p = "localFile" /\ thing = "unpacked" /\ verdict' = "unsupported"
    BY <2>1, ProvidedLeftover DEF LeftoverInv
  <2>4. \A l \in leftover' :
          \/ verdict' = "found" /\ l[1] = found' /\ ~closed'
          \/ l = <<"remoteSnap", "download">> /\ input'.store = "cut-off"
          \/ l = <<"localFile", "unpacked">> /\ verdict' = "unsupported"
    BY <2>1, <2>2, <2>3
  <2> QED BY <2>1, <2>4 DEF LeftoverInv
<1>3. CASE RefuseInput
  BY <1>3 DEF LeftoverInv, RefuseInput
<1>4. CASE AskResolver
  BY <1>4 DEF LeftoverInv, AskResolver
<1>5. CASE CloseSource
  BY <1>5 DEF LeftoverInv, CloseSource
<1>6. CASE UNCHANGED sourceVars
  BY <1>6 DEF LeftoverInv, sourceVars
<1> QED BY <1>1, <1>2, <1>3, <1>4, <1>5, <1>6 DEF SourcesNext

\* At the end nothing is left that is not known to be.
LEMMA LeftoverOwned == LeftoverInv => OwnedOrKnown
BY DEF LeftoverInv, OwnedOrKnown

\* For any inputs, demands and uses of the source: the nearest and most specific
\* provider is the one that serves, the preferred one first; a refusal has its
\* reason; answers repeat; and nothing temporary is left that is not known to be
\* (get_source.go, get_source_config.go, source_providers.go).
THEOREM SourcesServeTheirUser == SourcesSpec => []SourcesServe
<1>1. SourceInv /\ LeftoverInv => SourcesServe
  BY IsNearestFirst, IsPreferred, IsJustified, IsAlike, LeftoverOwned DEF SourcesServe
<1>2. SourcesSpec => []LeftoverInv
  BY LeftoverInitially, LeftoverStep, PTL DEF SourcesSpec
<1> QED BY <1>1, <1>2, SourcesInvariant, PTL

-----------------------------------------------------------------------------
(* The command.                                                            *)

Formats == {outputs[i].format : i \in DOMAIN outputs}
Paths == {outputs[i].path : i \in DOMAIN outputs} \ {Screen}

OutputTypes ==
  /\ outputs \in Seq(Range(outputs))
  /\ opened \in Nat /\ wrote \in Nat
  /\ wrote <= opened /\ opened <= Len(outputs)
  /\ broken \subseteq 1 .. wrote
  /\ reports \in Seq(Formats)
  /\ DOMAIN files = Paths

\* One stage after the other; what ends the command early is before the first
\* report or after the last.
StageInv ==
  /\ stage \in {"parsing", "opening", "resolving"} => verdict = "open" /\ answers = <<>>
  /\ stage = "scanning" => verdict = "found" /\ answers = <<>>
  /\ stage = "writing" \/ wrote > 0 => answers # <<>> /\ answers[1] = "files"
  /\ stage \notin {"parsing", "opening", "closing", "over"} => opened = Len(outputs)
  /\ wrote > 0 => \/ stage = "writing" /\ opened = Len(outputs)
                  \/ stage \in {"closing", "over"} /\ wrote = Len(outputs)
  /\ outcome = "done" => /\ stage \in {"closing", "over"}
                         /\ wrote = Len(outputs) /\ broken = {}

\* A file that is one output's own is empty from when it is opened until that
\* output has its turn.
FilesInv ==
  /\ \A i \in 1 .. opened : outputs[i].path # Screen /\ ~Shared(i) =>
       /\ i > wrote => files[outputs[i].path] = <<>>
       /\ i \in Served => files[outputs[i].path] = <<WholeReport(outputs[i].format)>>
  /\ wrote = 0 => \A path \in DOMAIN files : files[path] \in {<<>>, <<Old>>}

\* r holds the reports for the screen, in the order of the outputs.
InTurn(r) ==
  /\ Len(r) = Cardinality(ForScreen(wrote))
  /\ \A i \in ForScreen(wrote) : r[Cardinality(ForScreen(i))] = outputs[i].format

ReportsInv == InTurn(reports)

CommandInv ==
  /\ LeftoverInv
  /\ OutputTypes
  /\ StageInv
  /\ FilesInv
  /\ ReportsInv
  /\ stage = "over" => screen = reports

\* Before the command line is read nothing is written.
LEMMA CommandInitially == CommandInit => CommandInv
<1> SUFFICES ASSUME CommandInit PROVE CommandInv
  OBVIOUS
<1>1. /\ outputs \in Seq(Range(outputs)) /\ Len(outputs) \in Nat
      /\ opened = 0 /\ wrote = 0 /\ broken = {} /\ reports = <<>> /\ 1 .. 0 = {}
      /\ files = [path \in Paths |-> <<Old>>]
      /\ stage = "parsing" /\ outcome = "open" /\ verdict = "open" /\ answers = <<>>
  BY OutputsAssumption DEF CommandInit, SourcesInit, Paths
<1>2. LeftoverInv
  BY LeftoverInitially DEF CommandInit
<1>3. OutputTypes
  BY <1>1 DEF OutputTypes
<1>4. StageInv
  BY <1>1 DEF StageInv
<1>5. FilesInv
  BY <1>1 DEF FilesInv
<1>6. ForScreen(wrote) = {}
  BY <1>1 DEF ForScreen, Served
<1>7. ReportsInv
  BY <1>1, <1>6, FS_EmptySet DEF ReportsInv, InTurn
<1> QED BY <1>1, <1>2, <1>3, <1>4, <1>5, <1>7 DEF CommandInv

\* What only moves the command on.
LEMMA ContentStays ==
  ASSUME CommandInv, UNCHANGED <<outputs, files, opened, wrote, broken, reports>>
  PROVE  OutputTypes' /\ FilesInv' /\ ReportsInv'
<1>1. OutputTypes'
  BY DEF CommandInv, OutputTypes, Formats, Paths
<1>2. Served' = Served /\ \A i : Shared(i)' <=> Shared(i)
  BY DEF Served, Shared
<1>3. FilesInv'
  BY <1>2 DEF CommandInv, FilesInv
<1>4. \A n : ForScreen(n)' = ForScreen(n)
  BY <1>2 DEF ForScreen
<1>5. ReportsInv'
  BY <1>4 DEF CommandInv, ReportsInv, InTurn
<1> QED BY <1>1, <1>3, <1>5

\* The command line is refused before anything is opened (writer.go:160-180).
LEMMA ParseOutputsStep == ASSUME CommandInv, ParseOutputs PROVE CommandInv'
<1>1. /\ stage = "parsing"
      /\ \/ outcome' = "failed" /\ stage' = "closing"
         \/ stage' = "opening" /\ outcome' = outcome
      /\ UNCHANGED <<sourceVars, outputs, files, opened, wrote, broken, reports, screen>>
  BY DEF ParseOutputs, FailCommand
<1>2. UNCHANGED <<verdict, answers>>
  BY <1>1 DEF sourceVars
<1>3. LeftoverInv'
  BY <1>1, LeftoverStep DEF CommandInv
<1>4. StageInv'
  BY <1>1, <1>2 DEF CommandInv, StageInv
<1> QED BY <1>1, <1>3, <1>4, ContentStays DEF CommandInv

\* All outputs are open: the source comes next (scan.go:173).
LEMMA AllOpenStep == ASSUME CommandInv, AllOpen PROVE CommandInv'
<1>1. /\ stage = "opening" /\ opened = Len(outputs) /\ stage' = "resolving"
      /\ UNCHANGED <<sourceVars, outputs, files, opened, wrote, broken, reports, screen, outcome>>
  BY DEF AllOpen
<1>2. UNCHANGED <<verdict, answers>>
  BY <1>1 DEF sourceVars
<1>3. LeftoverInv'
  BY <1>1, LeftoverStep DEF CommandInv
<1>4. StageInv'
  BY <1>1, <1>2 DEF CommandInv, StageInv
<1> QED BY <1>1, <1>3, <1>4, ContentStays DEF CommandInv

\* A provider is asked; the files are as they were (scan.go:190).
LEMMA ResolveSourceStep == ASSUME CommandInv, ResolveSource PROVE CommandInv'
<1>1. /\ stage = "resolving"
      /\ RejectDemand \/ TryProvider \/ RefuseInput
      /\ UNCHANGED <<outputs, files, opened, wrote, broken, reports, screen>>
  BY DEF ResolveSource
<1>2. /\ verdict' = "open" => stage' = stage /\ outcome' = outcome
      /\ verdict' = "found" => stage' = "scanning" /\ outcome' = outcome
      /\ verdict' \notin {"open", "found"} => stage' = "closing" /\ outcome' = "failed"
  BY DEF ResolveSource, FailCommand
<1>3. answers' = answers
  BY <1>1 DEF RejectDemand, TryProvider, RefuseInput
<1>4. LeftoverInv'
  BY <1>1, LeftoverStep DEF CommandInv, SourcesNext
<1>5. wrote = 0 /\ answers = <<>> /\ outcome # "done" /\ opened = Len(outputs)
  BY <1>1 DEF CommandInv, StageInv, OutputTypes
<1>6. StageInv'
  BY <1>1, <1>2, <1>3, <1>5 DEF StageInv
<1>7. stage' # "over"
  BY <1>1, <1>2
<1> QED BY <1>1, <1>4, <1>6, <1>7, ContentStays DEF CommandInv

\* The SBOM is there, or is not (scan.go:198-216).
LEMMA GenerateStep == ASSUME CommandInv, Generate PROVE CommandInv'
<1>1. /\ stage = "scanning" /\ AskResolver
      /\ \/ outcome' = "failed" /\ stage' = "closing"
         \/ answers'[1] = "files" /\ stage' = "writing" /\ outcome' = outcome
      /\ UNCHANGED <<outputs, files, opened, wrote, broken, reports, screen>>
  BY DEF Generate, FailCommand
<1>2. verdict' = verdict /\ answers' = Append(answers, FileResolver)
  BY <1>1 DEF AskResolver
<1>3. LeftoverInv'
  BY <1>1, LeftoverStep DEF CommandInv, SourcesNext
<1>4. wrote = 0 /\ answers = <<>> /\ outcome # "done" /\ opened = Len(outputs)
  BY <1>1 DEF CommandInv, StageInv, OutputTypes
<1>5. answers' # <<>>
  BY <1>2, <1>4
<1>6. StageInv'
  BY <1>1, <1>4, <1>5 DEF StageInv
<1>7. stage' # "over"
  BY <1>1
<1> QED BY <1>1, <1>3, <1>6, <1>7, ContentStays DEF CommandInv

\* All reports had their turn (writer.go:188).
LEMMA AllWrittenStep == ASSUME CommandInv, AllWritten PROVE CommandInv'
<1>1. /\ stage = "writing" /\ wrote = opened /\ stage' = "closing"
      /\ outcome' = "failed" \/ (outcome' = "done" /\ broken = {})
      /\ UNCHANGED <<sourceVars, outputs, files, opened, wrote, broken, reports, screen>>
  BY DEF AllWritten, FailCommand
<1>2. UNCHANGED <<verdict, answers>>
  BY <1>1 DEF sourceVars
<1>3. LeftoverInv'
  BY <1>1, LeftoverStep DEF CommandInv
<1>4. StageInv'
  BY <1>1, <1>2 DEF CommandInv, StageInv
<1> QED BY <1>1, <1>3, <1>4, ContentStays DEF CommandInv

\* Files are closed and the screen shows what was reported.
LEMMA FinishStep == ASSUME CommandInv, FinishCommand PROVE CommandInv'
<1>1. /\ stage = "closing" /\ stage' = "over" /\ screen' = reports
      /\ CloseSource \/ UNCHANGED sourceVars
      /\ UNCHANGED <<outputs, files, opened, wrote, broken, reports, outcome>>
  BY DEF FinishCommand
<1>2. answers' = answers
  BY <1>1 DEF sourceVars, CloseSource
<1>3. LeftoverInv'
  BY <1>1, LeftoverStep DEF CommandInv, SourcesNext
<1>4. StageInv'
  BY <1>1, <1>2 DEF CommandInv, StageInv
<1> QED BY <1>1, <1>3, <1>4, ContentStays DEF CommandInv

\* One more file is opened, and thereby emptied (writer.go:226-247).
LEMMA OpenOutputStep == ASSUME CommandInv, OpenOutput PROVE CommandInv'
<1> DEFINE n == opened + 1
           path == outputs[n].path
<1>1. /\ stage = "opening" /\ opened < Len(outputs)
      /\ UNCHANGED <<sourceVars, outputs, wrote, broken, reports, screen>>
  BY DEF OpenOutput
<1>2. CASE path \in Forbidden
  <2>1. outcome' = "failed" /\ stage' = "closing" /\ UNCHANGED <<files, opened>>
    BY <1>2 DEF OpenOutput, FailCommand
  <2>2. UNCHANGED <<verdict, answers>>
    BY <1>1 DEF sourceVars
  <2>3. LeftoverInv'
    BY <1>1, LeftoverStep DEF CommandInv
  <2>4. StageInv'
    BY <1>1, <2>1, <2>2 DEF CommandInv, StageInv
  <2> QED BY <1>1, <2>1, <2>3, <2>4, ContentStays DEF CommandInv
<1>3. CASE path \notin Forbidden
  <2>1. /\ opened' = n /\ stage' = stage /\ outcome' = outcome
        /\ files' = IF path = Screen THEN files ELSE [files EXCEPT ![path] = <<>>]
    BY <1>3 DEF OpenOutput
  <2>2. UNCHANGED <<verdict, answers>>
    BY <1>1 DEF sourceVars
  <2>3. LeftoverInv'
    BY <1>1, LeftoverStep DEF CommandInv
  <2>4. /\ opened \in Nat /\ wrote \in Nat /\ wrote <= opened /\ broken \subseteq 1 .. wrote
        /\ reports \in Seq(Formats) /\ DOMAIN files = Paths /\ Len(outputs) \in Nat
        /\ outputs \in Seq(Range(outputs)) /\ wrote = 0
    BY <1>1 DEF CommandInv, OutputTypes, StageInv
  <2>5. DOMAIN files' = DOMAIN files
    BY <2>1
  <2>6. OutputTypes'
    BY <1>1, <2>1, <2>4, <2>5 DEF OutputTypes, Formats, Paths
  <2>7. StageInv'
    BY <1>1, <2>1, <2>2, <2>4 DEF CommandInv, StageInv
  <2>8. \A q \in DOMAIN files' : files'[q] = files[q] \/ files'[q] = <<>>
    BY <2>1, <2>5
  <2>9. path # Screen => files'[path] = <<>>
    <3>1. n \in DOMAIN outputs
      BY <1>1, <2>4
    <3>2. path # Screen => path \in Paths
      BY <3>1 DEF Paths
    <3> HIDE DEF path
    <3> QED BY <2>1, <2>4, <3>2
  <2>10. Served' = {} /\ \A i : Shared(i)' <=> Shared(i)
    BY <1>1, <2>4 DEF Served, Shared
  <2>11. ASSUME NEW i \in 1 .. opened', outputs[i].path # Screen, ~Shared(i)
         PROVE  files'[outputs[i].path] = <<>>
    <3>1. CASE i = n
      BY <2>9, <2>11, <3>1
    <3>2. CASE i # n
      <4>1. i \in 1 .. opened /\ i > wrote /\ i \in DOMAIN outputs
        BY <1>1, <2>1, <2>4, <3>2
      <4>2. files[outputs[i].path] = <<>>
        BY <2>11, <4>1 DEF CommandInv, FilesInv
      <4>3. outputs[i].path \in DOMAIN files'
        BY <2>4, <2>5, <2>11, <4>1 DEF Paths
      <4> QED BY <2>8, <4>2, <4>3
    <3> QED BY <3>1, <3>2
  <2>12. \A q \in DOMAIN files' : files'[q] \in {<<>>, <<Old>>}
    BY <2>4, <2>5, <2>8 DEF CommandInv, FilesInv
  <2>13. FilesInv'
    BY <1>1, <2>10, <2>11, <2>12 DEF FilesInv, Old, WholeReport
  <2>14. ForScreen(wrote) = {} /\ ForScreen(wrote)' = {}
    BY <1>1, <2>4, <2>10 DEF ForScreen, Served
  <2>15. ReportsInv'
    BY <1>1, <2>14 DEF CommandInv, ReportsInv, InTurn
  <2> QED BY <1>1, <2>1, <2>3, <2>6, <2>7, <2>13, <2>15 DEF CommandInv
<1> QED BY <1>2, <1>3

\* One more report, for the screen or not.
LEMMA ReportsStep ==
  ASSUME NEW format, OutputTypes, OutputTypes', ReportsInv, outputs' = outputs,
         wrote' = wrote + 1, wrote + 1 \in DOMAIN outputs,
         format = outputs[wrote + 1].format,
         \/ broken' = broken \cup {wrote + 1} /\ reports' = reports
         \/ /\ broken' = broken
            /\ reports' = IF outputs[wrote + 1].path = Screen THEN Append(reports, format)
                          ELSE reports
  PROVE  ReportsInv'
<1>0. wrote \in Nat
  BY DEF OutputTypes
<1> PICK n \in Nat : n = wrote + 1
  BY <1>0
<1>1. /\ wrote \in Nat /\ n \in Nat /\ broken \subseteq 1 .. wrote
      /\ reports \in Seq(Formats)
  BY DEF OutputTypes
<1>2. \A i \in 1 .. wrote : i \in Served' <=> i \in Served
  BY <1>1 DEF Served
<1>3. Served \subseteq 1 .. wrote /\ Served' \subseteq 1 .. n
  BY <1>1 DEF Served
<1>a. \A i, j : j \in ForScreen(i) <=> j \in Served /\ j <= i /\ outputs[j].path = Screen
  BY DEF ForScreen
<1>b. \A i, j : j \in ForScreen(i)' <=> j \in Served' /\ j <= i /\ outputs[j].path = Screen
  BY DEF ForScreen
<1>c. \A i \in 0 .. wrote : \A j \in 1 .. n : j <= i => j \in 1 .. wrote
  BY <1>1
<1>4. \A i \in 0 .. wrote : ForScreen(i)' = ForScreen(i)
  <2> TAKE i \in 0 .. wrote
  <2>1. \A j : j \in ForScreen(i)' <=> j \in ForScreen(i)
    BY <1>a, <1>b, <1>c, <1>1, <1>2, <1>3
  <2> QED BY <2>1
<1>5. \A i \in 0 .. n : IsFiniteSet(ForScreen(i)) /\ Cardinality(ForScreen(i)) \in Nat
  <2> TAKE i \in 0 .. n
  <2>0. 1 \in Int /\ wrote \in Int
    BY <1>1
  <2>3. IsFiniteSet(1 .. wrote)
    BY <2>0, FS_Interval
  <2>4. ForScreen(i) \subseteq Served
    BY <1>a
  <2>1. ForScreen(i) \subseteq 1 .. wrote /\ IsFiniteSet(1 .. wrote)
    BY <1>3, <2>3, <2>4
  <2>2. IsFiniteSet(ForScreen(i))
    BY <2>1, FS_Subset
  <2> QED BY <2>2, FS_CardinalityType
<1>6. \A i \in ForScreen(wrote) : 1 <= Cardinality(ForScreen(i))
                                    /\ Cardinality(ForScreen(i)) <= Cardinality(ForScreen(wrote))
  <2> TAKE i \in ForScreen(wrote)
  <2>0. i \in Served /\ i \in 1 .. wrote
    BY <1>3, <1>a
  <2>5. i <= i /\ \A j \in 1 .. wrote : j <= wrote
    BY <1>1, <2>0
  <2>1. i \in 1 .. wrote /\ i \in ForScreen(i) /\ ForScreen(i) \subseteq ForScreen(wrote)
    BY <1>3, <1>a, <2>0, <2>5
  <2>2. Cardinality(ForScreen(i)) <= Cardinality(ForScreen(wrote))
    BY <1>1, <1>5, <2>1, FS_Subset
  <2>3. Cardinality(ForScreen(i)) # 0
    BY <1>1, <1>5, <2>1, FS_EmptySet
  <2>4. Cardinality(ForScreen(i)) \in Nat
    BY <1>1, <1>5, <2>1
  <2> QED BY <2>2, <2>3, <2>4
<1>7. /\ Len(reports) = Cardinality(ForScreen(wrote))
      /\ \A i \in ForScreen(wrote) : reports[Cardinality(ForScreen(i))] = outputs[i].format
  BY DEF ReportsInv, InTurn
<1>8. CASE /\ broken' = broken /\ outputs[n].path = Screen
           /\ reports' = Append(reports, format)
  <2>1. n \in Served'
    BY <1>1, <1>8 DEF Served
  <2>2. ForScreen(n)' = ForScreen(wrote) \cup {n} /\ n \notin ForScreen(wrote)
    <3>1. \A j \in 1 .. wrote : j <= n /\ n # j /\ j \in 1 .. n
      BY <1>1
    <3>4. /\ \A j \in 1 .. n : j = n \/ j \in 1 .. wrote
          /\ \A j \in 1 .. wrote : j <= wrote
          /\ n <= n
      BY <1>1
    <3>5. n \in ForScreen(n)'
      BY <1>b, <1>8, <2>1, <3>4
    <3>6. \A j \in 1 .. wrote : j \in ForScreen(n)' <=> j \in ForScreen(wrote)
      BY <1>a, <1>b, <1>2, <3>1, <3>4
    <3>2. \A j : j \in ForScreen(n)' <=> j = n \/ j \in ForScreen(wrote)
      BY <1>a, <1>b, <1>3, <3>4, <3>5, <3>6
    <3> QED BY <1>a, <1>3, <3>1, <3>2
  <2>3. Cardinality(ForScreen(n)') = Cardinality(ForScreen(wrote)) + 1
    <3>1. IsFiniteSet(ForScreen(wrote))
      BY <1>1, <1>5
    <3> QED BY <2>2, <3>1, FS_AddElement
  <2>4. /\ Len(reports') = Len(reports) + 1
        /\ \A k \in 1 .. Len(reports) : reports'[k] = reports[k]
        /\ reports'[Len(reports) + 1] = format
    BY <1>1, <1>8
  <2>5. Len(reports') = Cardinality(ForScreen(n)')
    BY <1>7, <2>3, <2>4
  <2>6. ASSUME NEW i \in ForScreen(n)'
        PROVE  reports'[Cardinality(ForScreen(i)')] = outputs[i].format
    <3>1. CASE i = n
      BY <1>7, <2>3, <2>4, <3>1
    <3>2. CASE i \in ForScreen(wrote)
      <4>1. ForScreen(i)' = ForScreen(i) /\ i \in 1 .. wrote
        BY <1>1, <1>3, <1>4, <3>2 DEF ForScreen
      <4>2. Cardinality(ForScreen(i)) \in 1 .. Len(reports)
        BY <1>1, <1>5, <1>6, <1>7, <3>2, <4>1
      <4> QED BY <1>7, <2>4, <3>2, <4>1, <4>2
    <3> QED BY <2>2, <2>6, <3>1, <3>2
  <2> QED BY <2>5, <2>6 DEF ReportsInv, InTurn
<1>9. CASE reports' = reports /\ n \notin ForScreen(n)'
  <2>1. ForScreen(n)' = ForScreen(wrote)
    <3>1. \A j \in 1 .. n : j <= n /\ (j # n => j \in 1 .. wrote)
      BY <1>1
    <3>2. \A j \in 1 .. wrote : j <= wrote /\ j \in 1 .. n
      BY <1>1
    <3>3. \A j : j \in ForScreen(n)' <=> j \in ForScreen(wrote)
      BY <1>a, <1>b, <1>2, <1>3, <1>9, <3>1, <3>2
    <3> QED BY <3>3
  <2>2. ASSUME NEW i \in ForScreen(n)'
        PROVE  reports'[Cardinality(ForScreen(i)')] = outputs[i].format
    <3>1. i \in 1 .. wrote
      BY <1>3, <2>1 DEF ForScreen
    <3>2. ForScreen(i)' = ForScreen(i)
      BY <1>1, <1>4, <3>1
    <3> QED BY <1>7, <1>9, <2>1, <3>2
  <2> QED BY <1>7, <1>9, <2>1, <2>2 DEF ReportsInv, InTurn
<1>10. \/ broken' = broken /\ outputs[n].path = Screen /\ reports' = Append(reports, format)
       \/ reports' = reports /\ (n \in broken' \/ outputs[n].path # Screen)
  OBVIOUS
<1> QED BY <1>8, <1>9, <1>10 DEF ForScreen, Served

\* One more output has its turn, whether or not it can be encoded (writer.go:188-200).
LEMMA WriteReportStep == ASSUME CommandInv, WriteReport PROVE CommandInv'
<1> DEFINE n == wrote + 1
           format == outputs[n].format
           path == outputs[n].path
<1>1. /\ stage = "writing" /\ wrote < opened /\ wrote' = n
      /\ UNCHANGED <<sourceVars, outputs, opened, screen, stage, outcome>>
  BY DEF WriteReport
<1>2. PICK fails \in BOOLEAN :
        /\ broken' = IF fails THEN broken \cup {n} ELSE broken
        /\ reports' = IF path = Screen /\ ~fails THEN Append(reports, format) ELSE reports
        /\ IF path = Screen THEN UNCHANGED files
           ELSE \E content \in Overwrite(files[path],
                                         IF fails THEN PieceOf(format) ELSE WholeReport(format)) :
                  files' = [files EXCEPT ![path] = content]
  BY DEF WriteReport
<1>3. UNCHANGED <<verdict, answers>>
  BY <1>1 DEF sourceVars
<1>4. LeftoverInv'
  BY <1>1, LeftoverStep DEF CommandInv
<1>5. /\ opened \in Nat /\ wrote \in Nat /\ n \in Nat /\ opened = Len(outputs)
      /\ broken \subseteq 1 .. wrote
      /\ reports \in Seq(Formats) /\ DOMAIN files = Paths
      /\ outputs \in Seq(Range(outputs)) /\ n \in DOMAIN outputs
  BY <1>1 DEF CommandInv, OutputTypes, StageInv
<1>6. format \in Formats /\ (path # Screen => path \in Paths)
  BY <1>5 DEF Formats, Paths
<1>7. DOMAIN files' = DOMAIN files
  BY <1>2
<1>8. reports' \in Seq(Formats)
  <2> HIDE DEF format
  <2> QED BY <1>2, <1>5, <1>6
<1>9. broken' \subseteq 1 .. n
  BY <1>2, <1>5
<1>10. OutputTypes'
  BY <1>1, <1>5, <1>7, <1>8, <1>9 DEF OutputTypes, Formats, Paths
<1>11. StageInv'
  BY <1>1, <1>3, <1>5 DEF CommandInv, StageInv
<1>12. ReportsInv'
  BY <1>1, <1>2, <1>5, <1>10, ReportsStep DEF CommandInv
<1>13. \A i : Shared(i)' <=> Shared(i)
  BY <1>1 DEF Shared
<1>14. \A q \in DOMAIN files : q # path => files'[q] = files[q]
  BY <1>2
<1>15. path # Screen /\ ~Shared(n) /\ ~fails => files'[path] = <<WholeReport(format)>>
  <2> SUFFICES ASSUME path # Screen, ~Shared(n), ~fails
               PROVE  files'[path] = <<WholeReport(format)>>
    OBVIOUS
  <2>1. files[path] = <<>>
    BY <1>1, <1>5 DEF CommandInv, FilesInv
  <2>2. Overwrite(files[path], WholeReport(format)) = {<<WholeReport(format)>>}
    BY <2>1 DEF Overwrite
  <2>3. files' = [files EXCEPT ![path] = <<WholeReport(format)>>]
    BY <1>2, <2>2
  <2> HIDE DEF path, format
  <2> QED BY <1>5, <1>6, <2>3
<1>16. ASSUME NEW i \in 1 .. opened', outputs[i].path # Screen, ~Shared(i)
       PROVE  /\ i > n => files'[outputs[i].path] = <<>>
              /\ i \in Served' => files'[outputs[i].path] = <<WholeReport(outputs[i].format)>>
  <2>1. CASE i = n
    <3>1. i \in Served' => ~fails
      BY <1>2, <2>1 DEF Served
    <3> QED BY <1>5, <1>15, <1>16, <2>1, <3>1
  <2>2. CASE i # n
    <3>1. i \in DOMAIN outputs /\ i \in 1 .. opened
      BY <1>1, <1>5
    <3>2. outputs[i].path # path /\ outputs[i].path \in DOMAIN files
      BY <1>5, <1>16, <2>2, <3>1 DEF Shared, Paths
    <3>3. files'[outputs[i].path] = files[outputs[i].path]
      BY <1>14, <3>2
    <3>4. i \in Served' => i \in Served
      BY <1>1, <1>2, <1>5, <2>2 DEF Served
    <3>5. i > n => i > wrote
      BY <1>5, <3>1
    <3> QED BY <1>16, <3>1, <3>3, <3>4, <3>5 DEF CommandInv, FilesInv
  <2> QED BY <2>1, <2>2
<1>17. FilesInv'
  <2>1. wrote' # 0 /\ outputs' = outputs /\ wrote' = n
    BY <1>1, <1>5
  <2>2. \A i \in 1 .. opened' : outputs'[i].path # Screen /\ ~Shared(i)' =>
          /\ i > wrote' => files'[outputs'[i].path] = <<>>
          /\ i \in Served' => files'[outputs'[i].path] = <<WholeReport(outputs'[i].format)>>
    BY <1>13, <1>16, <2>1
  <2> QED BY <2>1, <2>2 DEF FilesInv
<1> QED BY <1>1, <1>4, <1>10, <1>11, <1>12, <1>17 DEF CommandInv

\* The invariant of the command: whatever stage it ends in, it keeps account of what
\* was opened, written and left (scan.go:173-216, writer.go:160-247).
THEOREM CommandInvariant == CommandSpec => []CommandInv
<1>1. CommandInit => CommandInv
  BY CommandInitially
<1>2. CommandInv /\ [CommandNext]_<<sourceVars, commandVars>> => CommandInv'
  <2> SUFFICES ASSUME CommandInv, [CommandNext]_<<sourceVars, commandVars>>
               PROVE  CommandInv'
    OBVIOUS
  <2>1. CASE ParseOutputs
    BY <2>1, ParseOutputsStep
  <2>2. CASE OpenOutput
    BY <2>2, OpenOutputStep
  <2>3. CASE AllOpen
    BY <2>3, AllOpenStep
  <2>4. CASE ResolveSource
    BY <2>4, ResolveSourceStep
  <2>5. CASE Generate
    BY <2>5, GenerateStep
  <2>6. CASE WriteReport
    BY <2>6, WriteReportStep
  <2>7. CASE AllWritten
    BY <2>7, AllWrittenStep
  <2>8. CASE FinishCommand
    BY <2>8, FinishStep
  <2>9. CASE UNCHANGED <<sourceVars, commandVars>>
    <3>1. /\ UNCHANGED <<sourceVars, outputs, files, opened, wrote, broken, reports, screen>>
          /\ stage' = stage /\ outcome' = outcome
      BY <2>9 DEF commandVars
    <3>2. UNCHANGED <<verdict, answers>>
      BY <3>1 DEF sourceVars
    <3>3. LeftoverInv'
      BY <3>1, LeftoverStep DEF CommandInv
    <3>4. StageInv'
      BY <3>1, <3>2 DEF CommandInv, StageInv
    <3> QED BY <3>1, <3>3, <3>4, ContentStays DEF CommandInv
  <2> QED BY <2>1, <2>2, <2>3, <2>4, <2>5, <2>6, <2>7, <2>8, <2>9 DEF CommandNext
<1> QED BY <1>1, <1>2, PTL DEF CommandSpec

\* The command takes the steps of GetSource and of the source it returns, and no
\* others: what is shown of them is true of any scan (scan.go:173-216).
THEOREM CommandUsesSources == CommandSpec => SourcesSpec
<1>1. CommandInit => SourcesInit
  BY DEF CommandInit
<1>2. [CommandNext]_<<sourceVars, commandVars>> => [SourcesNext]_sourceVars
  <2> SUFFICES ASSUME [CommandNext]_<<sourceVars, commandVars>> PROVE [SourcesNext]_sourceVars
    OBVIOUS
  <2>1. CASE \/ ParseOutputs \/ OpenOutput \/ AllOpen \/ WriteReport \/ AllWritten
             \/ UNCHANGED <<sourceVars, commandVars>>
    <3>1. UNCHANGED sourceVars
      BY <2>1 DEF ParseOutputs, OpenOutput, AllOpen, WriteReport, AllWritten
    <3> QED BY <3>1
  <2>2. CASE ResolveSource
    BY <2>2 DEF ResolveSource, SourcesNext
  <2>3. CASE Generate
    BY <2>3 DEF Generate, SourcesNext
  <2>4. CASE FinishCommand
    <3>1. CloseSource \/ UNCHANGED sourceVars
      BY <2>4 DEF FinishCommand
    <3> QED BY <3>1 DEF SourcesNext
  <2> QED BY <2>1, <2>2, <2>3, <2>4 DEF CommandNext
<1> QED BY <1>1, <1>2, PTL DEF CommandSpec, SourcesSpec

\* So a scan serves its user, too (SourcesServeTheirUser).
THEOREM CommandServesItsUser == CommandSpec => []SourcesServe
BY CommandUsesSources, SourcesServeTheirUser, PTL

\* When a scan is over each output whose encoder did its work has its report, whole
\* and alone in its file or in its turn on the screen, for any outputs
\* (scan.go:173-216, writer.go:160-247).
THEOREM CommandServesOutputs == CommandSpec => []OutputsServed
<1>1. CommandInv => OutputsServed
  <2> SUFFICES ASSUME CommandInv, stage = "over" PROVE OutputsServed
    BY DEF OutputsServed
  <2>1. /\ OutputTypes /\ StageInv /\ FilesInv /\ InTurn(reports) /\ screen = reports
        /\ OwnedOrKnown
    BY LeftoverOwned DEF CommandInv, ReportsInv
  <2>2. \A i \in Served : i \in 1 .. opened
    BY <2>1 DEF OutputTypes, Served
  <2>3. outcome = "done" => Served = DOMAIN outputs
    BY <2>1 DEF OutputTypes, StageInv, Served
  <2>4. wrote > 0 => answers # <<>> /\ answers[1] = "files" /\ wrote = Len(outputs)
    BY <2>1 DEF StageInv
  <2>5. wrote = 0 => \A path \in DOMAIN files : files[path] \in {<<>>, <<Old>>}
    BY <2>1 DEF FilesInv
  <2>6. \A i \in Served : outputs[i].path # Screen /\ ~Shared(i)
                            => files[outputs[i].path] = <<WholeReport(outputs[i].format)>>
    BY <2>1, <2>2 DEF FilesInv
  <2> QED BY <2>1, <2>3, <2>4, <2>5, <2>6 DEF OutputsServed, InTurn
<1> QED BY <1>1, CommandInvariant, PTL
=============================================================================
