-------------------------- MODULE WritePathProofs --------------------------
(***************************************************************************)
(* Proofs about WritePath, for any calls, any device and any numbers of    *)
(* calls and disturbances.                                                 *)
(*                                                                         *)
(* Frames: what a frame does is a fold over its fields, and what a queue   *)
(* of frames does a fold over the frames.  A fold has no value that the    *)
(* provers can compute; that it is the last of a chain of values, one for  *)
(* each step, is proved once (RunSteps, ExecuteSteps), and the rest of the *)
(* module reasons about the chains.                                        *)
(* Landing: what the queue will make of the device is what the call's      *)
(* frames make of the device the call found.                               *)
(* Repeating: the frames of a call that may be repeated are ones that a    *)
(* second run does not add to, whatever the operation and its parameters   *)
(* (Kept, Repeatable).                                                     *)
(* Reading: from the moment a read is asked until it is answered, whatever *)
(* is under way is foreign to it or one of the device's replies to it,     *)
(* because the identifiers under way are of earlier calls (Identified) or  *)
(* nothing of its type was under way (Crossed).                            *)
(***************************************************************************)
EXTENDS WritePath, SequenceTheorems, FiniteSetTheorems, WellFoundedInduction, TLAPS

-----------------------------------------------------------------------------
(***************************************************************************)
(* Folds: frames run one after another, fields one after another           *)
(***************************************************************************)
(* A set of numbers that is not empty has a least one.                     *)
LEMMA Least ==
    ASSUME NEW T, T \subseteq Nat, T # {}
    PROVE  \E n \in T : \A m \in T : n <= m
<1> DEFINE R == OpToRel(<, Nat)
<1>1. IsWellFoundedOn(R, Nat)
  BY NatLessThanWellFounded
<1>2. \A a, b \in Nat : a < b => <<a, b>> \in R
  BY DEF OpToRel
<1> HIDE DEF R
<1>3. PICK n \in T : \A m \in T : ~ (<<m, n>> \in R)
  BY <1>1, WFMin
<1>4. ASSUME NEW m \in T PROVE n <= m
  <2>1. m \in Nat /\ n \in Nat
    OBVIOUS
  <2>2. ~ (m < n)
    BY <1>2, <1>3, <2>1, Zenon
  <2> QED BY <2>1, <2>2
<1> QED BY <1>4

(* A set with zero in it and with every number the one after it has all    *)
(* numbers.                                                                *)
LEMMA NatSet ==
    ASSUME NEW T, 0 \in T, \A n \in Nat : n \in T => n + 1 \in T
    PROVE  Nat \subseteq T
<1> SUFFICES ASSUME Nat \ T # {} PROVE FALSE
  OBVIOUS
<1>1. PICK n \in Nat \ T : \A m \in Nat \ T : n <= m
  <2>1. Nat \ T \subseteq Nat
    OBVIOUS
  <2> QED BY <2>1, Least
<1>2. n # 0 /\ n - 1 \in Nat
  BY <1>1
<1>3. n - 1 \in T
  BY <1>1, <1>2
<1>4. (n - 1) + 1 \in T
  BY <1>2, <1>3
<1> QED BY <1>1, <1>4

(* A sequence, of whatever.                                                *)
IsSeq(s) == \E S : s \in Seq(S)

(* Running frames goes through a chain of devices, each the one before     *)
(* with the next frame executed.                                           *)
LEMMA RunSteps ==
    ASSUME NEW d, NEW s, IsSeq(s)
    PROVE  \E v : /\ v[0] = d
                  /\ \A k \in 1 .. Len(s) : v[k] = Execute(v[k - 1], s[k])
                  /\ Run(d, s) = v[Len(s)]
<1> DEFINE n == Len(s)
           Value(g, x) == IF x = {} THEN d ELSE Execute(g[x \ {Max(x)}], s[Max(x)])
           Folds(g, m) == g = [x \in SUBSET (1 .. m) |-> Value(g, x)]
           iter == CHOOSE g : Folds(g, n)
<1>1. n \in Nat /\ DOMAIN s = 1 .. n
  BY DEF IsSeq
<1>2. Run(d, s) = iter[1 .. n]
  BY <1>1 DEF Run, FoldLeft, MapThenFoldSet
<1>3. ASSUME NEW m \in Nat, NEW x \in SUBSET (1 .. m), m \in x
      PROVE  Max(x) = m
  <2>1. m \in x /\ \A y \in x : m >= y
    BY <1>3
  <2>2. Max(x) \in x /\ \A y \in x : Max(x) >= y
    BY <2>1 DEF Max
  <2> DEFINE a == Max(x)
  <2>3. a \in 1 .. m /\ a >= m
    BY <1>3, <2>2
  <2> HIDE DEF a
  <2>4. a = m
    BY <2>3
  <2> QED BY <2>4 DEF a
<1>4. ASSUME NEW m \in Nat, NEW g, Folds(g, m)
      PROVE  \E h : Folds(h, m + 1)
  <2> DEFINE h == [x \in SUBSET (1 .. m + 1) |->
                     IF m + 1 \in x THEN Execute(g[x \ {m + 1}], s[m + 1]) ELSE g[x]]
  <2>1. ASSUME NEW x \in SUBSET (1 .. m + 1) PROVE h[x] = Value(h, x)
    <3>1. CASE m + 1 \in x
      <4>1. Max(x) = m + 1
        BY <1>3, <3>1
      <4>2. x \ {m + 1} \in SUBSET (1 .. m) /\ x \ {m + 1} \in SUBSET (1 .. m + 1)
        OBVIOUS
      <4>3. h[x \ {m + 1}] = g[x \ {m + 1}]
        BY <4>2
      <4> QED BY <3>1, <4>1, <4>3
    <3>2. CASE m + 1 \notin x
      <4>1. x \in SUBSET (1 .. m)
        BY <3>2
      <4>2. h[x] = g[x] /\ g[x] = Value(g, x)
        BY <3>2, <4>1, <1>4
      <4>3. x \ {Max(x)} \in SUBSET (1 .. m + 1) /\ m + 1 \notin x \ {Max(x)}
        BY <3>2
      <4>4. h[x \ {Max(x)}] = g[x \ {Max(x)}]
        BY <4>3
      <4> QED BY <4>2, <4>4
    <3> QED BY <3>1, <3>2
  <2>2. Folds(h, m + 1)
    BY <2>1
  <2> QED BY <2>2
<1>5. \E g : Folds(g, 0)
  <2> DEFINE g == [x \in SUBSET (1 .. 0) |-> d]
  <2>1. \A x \in SUBSET (1 .. 0) : x = {}
    OBVIOUS
  <2>2. Folds(g, 0)
    BY <2>1
  <2> QED BY <2>2
<1>6. \E g : Folds(g, n)
  <2> DEFINE T == {m \in Nat : \E g : Folds(g, m)}
  <2>1. 0 \in T
    BY <1>5
  <2>2. ASSUME NEW m \in Nat, m \in T PROVE m + 1 \in T
    <3>1. PICK g : Folds(g, m)
      BY <2>2
    <3> HIDE DEF Folds
    <3>2. \E h : Folds(h, m + 1)
      BY <1>4, <3>1
    <3> QED BY <3>2
  <2> HIDE DEF T, Folds
  <2>3. n \in T
    BY <1>1, <2>1, <2>2, NatSet
  <2> QED BY <2>3 DEF T
<1>7. Folds(iter, n)
  BY <1>6
<1> DEFINE v == [k \in 0 .. n |-> iter[1 .. k]]
<1>8. ASSUME NEW k \in 1 .. n PROVE iter[1 .. k] = Execute(iter[1 .. (k - 1)], s[k])
  <2>1. /\ k \in Nat /\ 1 .. k \in SUBSET (1 .. n) /\ k \in 1 .. k
        /\ 1 .. k \in SUBSET (1 .. k)
    <3> HIDE DEF n
    <3> QED BY <1>1
  <2>5. 1 .. k # {}
    BY <2>1
  <2>2. Max(1 .. k) = k
    BY <1>3, <2>1
  <2>3. (1 .. k) \ {k} = 1 .. (k - 1)
    BY <2>1
  <2> HIDE DEF iter
  <2>4. iter[1 .. k] = Value(iter, 1 .. k)
    BY <1>7, <2>1
  <2> QED BY <2>2, <2>3, <2>4, <2>5
<1>9. iter[1 .. 0] = d
  <2>1. 1 .. 0 \in SUBSET (1 .. n) /\ 1 .. 0 = {}
    BY <1>1
  <2> HIDE DEF iter
  <2> QED BY <1>7, <2>1
<1> HIDE DEF iter
<1>10. v[0] = d
  BY <1>1, <1>9
<1>11. ASSUME NEW k \in 1 .. n PROVE v[k] = Execute(v[k - 1], s[k])
  BY <1>1, <1>8
<1>12. Run(d, s) = v[n]
  BY <1>1, <1>2
<1> QED BY <1>10, <1>11, <1>12

(* The path that a field of a frame is put at, and the value that is put   *)
(* there.                                                                  *)
Target(f, path) == IF f.type = 12 THEN [path EXCEPT ![1] = "move"] ELSE path
GivenTo(f, path) ==
    CASE f.action = "Delete" /\ path[1] = "preset" -> {}
      [] f.action = "Delete" /\ f.type \in {4, 20, 54} /\ path[1] # "preset" -> FALSE
      [] OTHER -> f.fields[path]

(* v[x] is the device d when it has executed the fields x of frame f.      *)
ExecutesBy(v, d, f) ==
    /\ v[{}] = d
    /\ \A x \in SUBSET (DOMAIN f.fields) : x # {} =>
          \E path \in x : v[x] = Put(v[x \ {path}], Target(f, path), GivenTo(f, path))
    /\ Execute(d, f) = v[DOMAIN f.fields]

(* Executing a frame goes through a chain of devices too, a field at a     *)
(* time.                                                                   *)
LEMMA ExecuteSteps ==
    ASSUME NEW d, NEW f, f.action # "Read", IsFiniteSet(DOMAIN f.fields)
    PROVE  \E v : ExecutesBy(v, d, f)
<1> DEFINE S == DOMAIN f.fields
           Some(x) == CHOOSE path \in x : TRUE
           After(e, path) == Put(e, Target(f, path), GivenTo(f, path))
           Valued(g, x) == IF x = {} THEN d ELSE After(g[x \ {Some(x)}], Some(x))
           Below(m) == {x \in SUBSET S : Cardinality(x) <= m}
           Folds(g, m) == g = [x \in Below(m) |-> Valued(g, x)]
           Whole(g) == g = [x \in SUBSET S |-> Valued(g, x)]
           iter == CHOOSE g : Whole(g)
<1>1. Execute(d, f) = iter[S]
  BY DEF Execute, FoldSet, MapThenFoldSet, Target, GivenTo
<1>2. \A x \in SUBSET S : IsFiniteSet(x) /\ Cardinality(x) \in Nat
  BY FS_Subset, FS_CardinalityType
<1>3. \A x \in SUBSET S : x # {} =>
          /\ Some(x) \in x /\ x \ {Some(x)} \in SUBSET S
          /\ Cardinality(x \ {Some(x)}) = Cardinality(x) - 1
  BY <1>2, FS_RemoveElement
<1> HIDE DEF Some, After, S
<1>4. ASSUME NEW m \in Nat, NEW g, Folds(g, m)
      PROVE  \E h : Folds(h, m + 1)
  <2> DEFINE h == [x \in Below(m + 1) |-> Valued(g, x)]
  <2>1. ASSUME NEW x \in Below(m) PROVE x \in Below(m + 1) /\ h[x] = g[x]
    <3>1. x \in Below(m + 1)
      BY <1>2
    <3>2. g[x] = Valued(g, x)
      BY <1>4
    <3> QED BY <3>1, <3>2
  <2>2. ASSUME NEW x \in Below(m + 1) PROVE Valued(h, x) = Valued(g, x)
    <3>1. CASE x = {}
      BY <3>1
    <3>2. CASE x # {}
      <4>1. x \ {Some(x)} \in Below(m)
        BY <1>2, <1>3, <2>2, <3>2
      <4>2. h[x \ {Some(x)}] = g[x \ {Some(x)}]
        BY <2>1, <4>1
      <4> QED BY <3>2, <4>2
    <3> QED BY <3>1, <3>2
  <2>3. h = [x \in Below(m + 1) |-> Valued(h, x)]
    BY <2>2
  <2> QED BY <2>3
<1>5. \E g : Folds(g, 0)
  <2> DEFINE g == [x \in Below(0) |-> d]
  <2>1. ASSUME NEW x \in Below(0) PROVE x = {}
    <3>1. x \in SUBSET S /\ Cardinality(x) = 0
      BY <1>2
    <3> QED BY <1>2, <3>1, FS_EmptySet
  <2>2. Folds(g, 0)
    BY <2>1
  <2> QED BY <2>2
<1>6. \E g : Whole(g)
  <2> DEFINE T == {m \in Nat : \E g : Folds(g, m)}
             n == Cardinality(S)
  <2>1. 0 \in T
    BY <1>5
  <2>2. ASSUME NEW m \in Nat, m \in T PROVE m + 1 \in T
    <3>1. PICK g : Folds(g, m)
      BY <2>2
    <3> HIDE DEF Folds
    <3>2. \E h : Folds(h, m + 1)
      BY <1>4, <3>1
    <3> QED BY <3>2
  <2>3. n \in Nat
    BY <1>2
  <2>4. Below(n) = SUBSET S
    BY FS_Subset DEF S
  <2> HIDE DEF T, Folds, n
  <2>5. n \in T
    BY <2>1, <2>2, <2>3, NatSet
  <2>6. PICK g : Folds(g, n)
    BY <2>5 DEF T
  <2>7. Whole(g)
    BY <2>4, <2>6 DEF Folds
  <2> QED BY <2>7
<1>7. Whole(iter)
  BY <1>6
<1> HIDE DEF iter
<1>8. iter[{}] = d
  BY <1>7
<1>9. ASSUME NEW x \in SUBSET S, x # {}
      PROVE  \E path \in x : iter[x] = Put(iter[x \ {path}], Target(f, path), GivenTo(f, path))
  <2>1. iter[x] = After(iter[x \ {Some(x)}], Some(x))
    BY <1>7, <1>9
  <2> QED BY <1>3, <1>9, <2>1 DEF After
<1>10. ExecutesBy(iter, d, f)
  BY <1>1, <1>8, <1>9 DEF S, ExecutesBy
<1> QED BY <1>10

(* A chain of devices that starts with the first and executes each frame   *)
(* ends with what running the frames comes to.                             *)
LEMMA RunBySteps ==
    ASSUME NEW d, NEW s, IsSeq(s), NEW v, v[0] = d,
           \A k \in 1 .. Len(s) : v[k] = Execute(v[k - 1], s[k])
    PROVE  Run(d, s) = v[Len(s)]
<1> DEFINE n == Len(s)
<1>1. n \in Nat
  BY DEF IsSeq
<1>2. PICK w : /\ w[0] = d
               /\ \A k \in 1 .. n : w[k] = Execute(w[k - 1], s[k])
               /\ Run(d, s) = w[n]
  BY RunSteps
<1> HIDE DEF n
<1> DEFINE T == {k \in Nat : k \in 0 .. n => w[k] = v[k]}
<1>3. 0 \in T
  BY <1>2
<1>4. ASSUME NEW k \in Nat, k \in T PROVE k + 1 \in T
  <2>1. CASE k + 1 \in 1 .. n
    <3>1. w[k] = v[k]
      BY <1>1, <1>4, <2>1
    <3>2. PICK j \in 1 .. n : j = k + 1 /\ j - 1 = k
      BY <2>1
    <3>3. w[j] = Execute(w[k], s[j]) /\ v[j] = Execute(v[k], s[j])
      BY <1>2, <3>2 DEF n
    <3> QED BY <3>1, <3>2, <3>3
  <2>2. CASE k + 1 \notin 1 .. n
    BY <1>1, <2>2
  <2> QED BY <2>1, <2>2
<1> HIDE DEF T
<1>5. n \in T
  BY <1>1, <1>3, <1>4, NatSet
<1>6. w[n] = v[n]
  BY <1>1, <1>5 DEF T
<1> QED BY <1>2, <1>6 DEF n

(* Running no frames changes nothing.                                      *)
LEMMA RunNothing ==
    ASSUME NEW d
    PROVE  Run(d, <<>>) = d
<1> DEFINE v == [k \in {0} |-> d]
<1>1. IsSeq(<<>>) /\ Len(<<>>) = 0
  <2>1. <<>> \in Seq(Nat)
    OBVIOUS
  <2> QED BY <2>1 DEF IsSeq
<1>2. v[0] = d /\ \A k \in 1 .. Len(<<>>) : v[k] = Execute(v[k - 1], <<>>[k])
  BY <1>1
<1> HIDE DEF v
<1> QED BY <1>1, <1>2, RunBySteps

(* Running frames and then others is running them all.                     *)
LEMMA RunConcat ==
    ASSUME NEW d, NEW s, IsSeq(s), NEW t, IsSeq(t)
    PROVE  IsSeq(s \o t) /\ Run(d, s \o t) = Run(Run(d, s), t)
<1> DEFINE m == Len(s)
           n == Len(t)
<1>1. PICK S, T : s \in Seq(S) /\ t \in Seq(T)
  BY DEF IsSeq
<1>2. s \in Seq(S \cup T) /\ t \in Seq(S \cup T)
  <2>1. ASSUME NEW A, NEW B, NEW x \in Seq(A) PROVE x \in Seq(A \cup B)
    OBVIOUS
  <2> QED BY <1>1, <2>1
<1>3. /\ s \o t \in Seq(S \cup T) /\ Len(s \o t) = m + n
      /\ \A k \in 1 .. m : (s \o t)[k] = s[k]
      /\ \A k \in 1 .. n : (s \o t)[m + k] = t[k]
  BY <1>2, ConcatProperties
<1>4. m \in Nat /\ n \in Nat
  BY <1>1
<1>5. PICK v : /\ v[0] = d
               /\ \A k \in 1 .. m : v[k] = Execute(v[k - 1], s[k])
               /\ Run(d, s) = v[m]
  BY RunSteps
<1>6. PICK w : /\ w[0] = Run(d, s)
               /\ \A k \in 1 .. n : w[k] = Execute(w[k - 1], t[k])
               /\ Run(Run(d, s), t) = w[n]
  BY RunSteps
<1> DEFINE c == s \o t
           u == [k \in 0 .. m + n |-> IF k <= m THEN v[k] ELSE w[k - m]]
<1>7. Len(c) = m + n /\ IsSeq(c)
  BY <1>3 DEF IsSeq
<1>8. (\A k \in 1 .. m : c[k] = s[k]) /\ (\A k \in 1 .. n : c[m + k] = t[k])
  BY <1>3
<1> HIDE DEF c, m, n
<1>9. u[0] = d
  BY <1>4, <1>5
<1>10. ASSUME NEW k \in 1 .. m + n PROVE u[k] = Execute(u[k - 1], c[k])
  <2>1. CASE k <= m
    BY <1>4, <1>5, <1>8, <2>1
  <2>2. CASE k > m
    <3>1. PICK j \in 1 .. n : k = m + j /\ k - m = j
      BY <1>4, <2>2
    <3>2. u[k] = w[j]
      BY <1>4, <3>1
    <3>3. u[k - 1] = w[j - 1]
      <4>1. CASE j = 1
        <5>1. k - 1 = m /\ j - 1 = 0
          BY <1>4, <3>1, <4>1
        <5>2. u[k - 1] = v[m]
          BY <1>4, <5>1
        <5> QED BY <1>5, <1>6, <5>1, <5>2
      <4>2. CASE j # 1
        BY <1>4, <3>1, <4>2
      <4> QED BY <4>1, <4>2
    <3>4. c[k] = t[j]
      BY <1>8, <3>1
    <3> QED BY <1>6, <3>2, <3>3, <3>4
  <2> QED BY <1>4, <2>1, <2>2
<1>11. u[m + n] = w[n]
  <2>1. CASE n = 0
    BY <1>4, <1>5, <1>6, <2>1
  <2>2. CASE n # 0
    BY <1>4, <2>2
  <2> QED BY <2>1, <2>2
<1> HIDE DEF u
<1>12. Run(d, c) = u[m + n]
  BY <1>7, <1>9, <1>10, RunBySteps
<1> QED BY <1>6, <1>7, <1>11, <1>12 DEF c

(* Running one frame is executing it.                                      *)
LEMMA RunOne ==
    ASSUME NEW d, NEW f
    PROVE  IsSeq(<<f>>) /\ Run(d, <<f>>) = Execute(d, f)
<1> DEFINE v == [k \in 0 .. 1 |-> IF k = 0 THEN d ELSE Execute(d, f)]
           s == <<f>>
<1>1. IsSeq(s) /\ Len(s) = 1 /\ s[1] = f
  <2>1. s \in Seq({f})
    OBVIOUS
  <2> QED BY <2>1 DEF IsSeq
<1>2. v[0] = d /\ v[1] = Execute(d, f)
  OBVIOUS
<1> HIDE DEF s, v
<1>3. \A k \in 1 .. Len(s) : v[k] = Execute(v[k - 1], s[k])
  <2>1. ASSUME NEW k \in 1 .. Len(s) PROVE v[k] = Execute(v[k - 1], s[k])
    <3>1. k = 1 /\ k - 1 = 0
      BY <1>1
    <3> QED BY <1>1, <1>2, <3>1
  <2> QED BY <2>1
<1>4. Run(d, s) = v[1]
  <2>1. IsSeq(s) /\ v[0] = d
    BY <1>1, <1>2
  <2>2. Run(d, s) = v[Len(s)]
    BY <1>3, <2>1, RunBySteps, Zenon
  <2> QED BY <1>1, <2>2
<1> QED BY <1>1, <1>2, <1>4 DEF s

(* Running frames is executing the first and running the rest.             *)
LEMMA RunHead ==
    ASSUME NEW d, NEW s, IsSeq(s), s # <<>>
    PROVE  IsSeq(Tail(s)) /\ Run(d, s) = Run(Execute(d, Head(s)), Tail(s))
<1>1. PICK S : s \in Seq(S)
  BY DEF IsSeq
<1>2. IsSeq(Tail(s)) /\ s = <<Head(s)>> \o Tail(s)
  BY <1>1 DEF IsSeq
<1>3. IsSeq(<<Head(s)>>) /\ Run(d, <<Head(s)>>) = Execute(d, Head(s))
  BY RunOne
<1>4. Run(d, <<Head(s)>> \o Tail(s)) = Run(Run(d, <<Head(s)>>), Tail(s))
  BY <1>2, <1>3, RunConcat
<1> QED BY <1>2, <1>3, <1>4

(* Running reads changes nothing.                                          *)
LEMMA RunReads ==
    ASSUME NEW d, NEW s, IsSeq(s), \A k \in 1 .. Len(s) : s[k].action = "Read"
    PROVE  Run(d, s) = d
<1> DEFINE v == [k \in 0 .. Len(s) |-> d]
<1>1. Len(s) \in Nat
  BY DEF IsSeq
<1>2. \A k \in 1 .. Len(s) : Execute(d, s[k]) = d
  BY DEF Execute
<1>3. v[0] = d /\ \A k \in 1 .. Len(s) : v[k] = Execute(v[k - 1], s[k])
  BY <1>1, <1>2
<1>4. v[Len(s)] = d
  BY <1>1
<1> HIDE DEF v
<1> QED BY <1>3, <1>4, RunBySteps

-----------------------------------------------------------------------------
(***************************************************************************)
(* Frames that write                                                       *)
(***************************************************************************)
(* A frame that writes finitely many fields, with no identifier where      *)
(* replies have one; and a sequence of such frames.                        *)
WriteFrame(f) ==
    /\ f.action # "Read" /\ IsFiniteSet(DOMAIN f.fields)
    /\ f.type \in {4, 20, 25} => <<"id">> \notin DOMAIN f.fields
AreWrites(s) == \E S : s \in Seq(S) /\ \A f \in S : WriteFrame(f)

(* A set of one element at most is finite.                                 *)
LEMMA Singular ==
    ASSUME NEW S, \A v, w \in S : v = w
    PROVE  IsFiniteSet(S)
<1>1. CASE S = {}
  BY <1>1, FS_EmptySet
<1>2. CASE S # {}
  <2>1. PICK x \in S : TRUE
    BY <1>2
  <2>2. S = {x}
    BY <2>1
  <2> QED BY <2>2, FS_Singleton
<1> QED BY <1>1, <1>2

(* The elements of a finite set can be put in a sequence.                  *)
LEMMA Listed ==
    ASSUME NEW S, IsFiniteSet(S)
    PROVE  SetToSeq(S) \in Seq(S) /\ \A i \in 1 .. Len(SetToSeq(S)) : SetToSeq(S)[i] \in S
<1>1. Cardinality(S) \in Nat /\ ExistsBijection(1 .. Cardinality(S), S)
  BY FS_CardinalityType
<1>2. PICK f \in [1 .. Cardinality(S) -> S] : IsInjective(f)
  BY <1>1 DEF ExistsBijection, Bijection, Injection
<1>3. SetToSeq(S) \in [1 .. Cardinality(S) -> S]
  BY <1>2 DEF SetToSeq
<1> DEFINE s == SetToSeq(S)
<1>4. s \in Seq(S)
  BY <1>1, <1>3
<1> HIDE DEF s
<1>5. \A i \in 1 .. Len(s) : s[i] \in S
  BY <1>4
<1> QED BY <1>4, <1>5 DEF s

(* No frames are writes, all of them.                                      *)
LEMMA WritesNone == AreWrites(<<>>)
<1> DEFINE S == {}
<1>1. <<>> \in Seq(S) /\ \A f \in S : WriteFrame(f)
  OBVIOUS
<1> HIDE DEF S
<1> QED BY <1>1 DEF AreWrites

(* One write.                                                              *)
LEMMA WritesOne ==
    ASSUME NEW f, WriteFrame(f)
    PROVE  AreWrites(<<f>>)
<1> DEFINE S == {f}
<1>1. <<f>> \in Seq(S) /\ \A g \in S : WriteFrame(g)
  OBVIOUS
<1> HIDE DEF S
<1> QED BY <1>1 DEF AreWrites

(* Writes after writes.                                                    *)
LEMMA WritesConcat ==
    ASSUME NEW s, NEW t, AreWrites(s), AreWrites(t)
    PROVE  AreWrites(s \o t)
<1>1. PICK S : s \in Seq(S) /\ \A f \in S : WriteFrame(f)
  BY DEF AreWrites
<1>2. PICK T : t \in Seq(T) /\ \A f \in T : WriteFrame(f)
  BY DEF AreWrites
<1>3. s \in Seq(S \cup T) /\ t \in Seq(S \cup T)
  <2>1. ASSUME NEW A, NEW B, NEW x \in Seq(A) PROVE x \in Seq(A \cup B)
    OBVIOUS
  <2> QED BY <1>1, <1>2, <2>1
<1>4. s \o t \in Seq(S \cup T)
  BY <1>3
<1>5. \A f \in S \cup T : WriteFrame(f)
  BY <1>1, <1>2
<1> QED BY <1>4, <1>5 DEF AreWrites

(* A sequence given by its elements, each a write.                         *)
LEMMA WritesEach ==
    ASSUME NEW n \in Nat, NEW s, DOMAIN s = 1 .. n, s = [i \in 1 .. n |-> s[i]],
           \A i \in 1 .. n : WriteFrame(s[i])
    PROVE  AreWrites(s)
<1> DEFINE S == {s[i] : i \in 1 .. n}
<1>1. s \in [1 .. n -> S]
  OBVIOUS
<1>2. \A f \in S : WriteFrame(f)
  OBVIOUS
<1> HIDE DEF S
<1>3. s \in Seq(S)
  BY <1>1
<1> QED BY <1>2, <1>3 DEF AreWrites

(* The one write of a set of one at most.                                  *)
LEMMA WritesListed ==
    ASSUME NEW S, \A v, w \in S : v = w, \A f \in S : WriteFrame(f)
    PROVE  AreWrites(SetToSeq(S))
BY Singular, Listed DEF AreWrites

(* A sequence of sequences of writes, made one.                            *)
LEMMA WritesFlattened ==
    ASSUME NEW n \in Nat, NEW ss, DOMAIN ss = 1 .. n, ss = [i \in 1 .. n |-> ss[i]],
           \A i \in 1 .. n : AreWrites(ss[i])
    PROVE  AreWrites(FlattenSeq(ss))
<1> DEFINE S == {ss[i] : i \in 1 .. n}
<1>1. ss \in [1 .. n -> S]
  OBVIOUS
<1> HIDE DEF S
<1>2. ss \in Seq(S) /\ Len(ss) = n
  BY <1>1
<1> DEFINE Flat(g, m) ==
             g = [i \in 1 .. m |-> IF i = 1 THEN ss[i] ELSE g[i - 1] \o ss[i]]
           flatten == CHOOSE g : Flat(g, n)
<1>3. CASE n = 0
  <2>1. FlattenSeq(ss) = ss /\ ss = <<>>
    BY <1>2, <1>3 DEF FlattenSeq
  <2> QED BY <2>1, WritesNone
<1>4. CASE n # 0
  <2>1. FlattenSeq(ss) = flatten[n]
    BY <1>2, <1>4 DEF FlattenSeq
  <2>2. ASSUME NEW m \in Nat, NEW g, Flat(g, m) PROVE \E h : Flat(h, m + 1)
    <3> DEFINE h == [i \in 1 .. m + 1 |-> IF i = 1 THEN ss[i] ELSE g[i - 1] \o ss[i]]
    <3>1. ASSUME NEW i \in 1 .. m + 1, i # 1 PROVE h[i - 1] = g[i - 1]
      <4>1. i - 1 \in 1 .. m /\ i - 1 \in 1 .. m + 1
        BY <2>2, <3>1
      <4>2. \A j \in 1 .. m : g[j] = IF j = 1 THEN ss[j] ELSE g[j - 1] \o ss[j]
        BY <2>2
      <4> QED BY <4>1, <4>2
    <3>2. h = [i \in 1 .. m + 1 |-> IF i = 1 THEN ss[i] ELSE h[i - 1] \o ss[i]]
      BY <3>1
    <3> QED BY <3>2
  <2>3. \E g : Flat(g, 0)
    <3> DEFINE g == [i \in 1 .. 0 |-> ss]
    <3>1. Flat(g, 0)
      OBVIOUS
    <3> QED BY <3>1
  <2> DEFINE T == {m \in Nat : \E g : Flat(g, m)}
  <2>4. 0 \in T
    BY <2>3
  <2>5. ASSUME NEW m \in Nat, m \in T PROVE m + 1 \in T
    <3>1. PICK g : Flat(g, m)
      BY <2>5
    <3> HIDE DEF Flat
    <3>2. \E h : Flat(h, m + 1)
      BY <2>2, <3>1
    <3> QED BY <3>2
  <2> HIDE DEF T, Flat
  <2>6. n \in T
    BY <2>4, <2>5, NatSet
  <2>7. Flat(flatten, n)
    BY <2>6 DEF T
  <2> HIDE DEF flatten
  <2>8. \A i \in 1 .. n : flatten[i] = IF i = 1 THEN ss[i] ELSE flatten[i - 1] \o ss[i]
    BY <2>7 DEF Flat
  <2> DEFINE U == {m \in Nat : m \in 1 .. n => AreWrites(flatten[m])}
  <2>9. ASSUME NEW m \in Nat, m \in U PROVE m + 1 \in U
    <3>1. SUFFICES ASSUME m + 1 \in 1 .. n PROVE AreWrites(flatten[m + 1])
      OBVIOUS
    <3>2. CASE m = 0
      BY <2>8, <3>1, <3>2
    <3>3. CASE m # 0
      <4>1. AreWrites(flatten[m]) /\ AreWrites(ss[m + 1])
        BY <2>9, <3>1, <3>3
      <4>2. PICK j \in 1 .. n : j = m + 1 /\ j - 1 = m /\ j # 1
        BY <3>1, <3>3
      <4>3. flatten[j] = flatten[m] \o ss[j]
        BY <2>8, <4>2
      <4> QED BY <4>1, <4>2, <4>3, WritesConcat
    <3> QED BY <3>2, <3>3
  <2>10. 0 \in U
    OBVIOUS
  <2> HIDE DEF U
  <2>11. n \in U
    BY <2>9, <2>10, NatSet
  <2> QED BY <1>4, <2>1, <2>11 DEF U
<1> QED BY <1>3, <1>4

(* A frame of one field that is not an identifier is a write.              *)
LEMMA FieldWrite ==
    ASSUME NEW type, NEW action, action # "Read", NEW path, path # <<"id">>, NEW value
    PROVE  WriteFrame(Frame(type, action, Field(path, value)))
<1>1. DOMAIN Field(path, value) = {path}
  BY DEF Field
<1> HIDE DEF Field
<1>2. IsFiniteSet({path})
  BY FS_Singleton
<1> QED BY <1>1, <1>2 DEF WriteFrame, Frame

-----------------------------------------------------------------------------
(***************************************************************************)
(* What each operation is encoded to                                       *)
(***************************************************************************)
(* A path that a value put there has no effect beyond; an update of one    *)
(* such field; and the operations that are encoded to one.                 *)
Plain(path) ==
    /\ path[1] \notin {"move", "copyScene", "splitBypass", "block", "preset", "id"}
    /\ path # <<"tempo", TempoIndex.timeSignature>>
PlainUpdate(frames) ==
    \E type, path, value : /\ type # 12 /\ Plain(path)
                           /\ frames = <<Update(type, path, value)>>
PlainOps ==
    Commands \cup {"SetTuner", "SetGeneralInteger", "SetGeneralToggle", "SetSceneBypassBehavior",
                   "SetMasterVolumeAssignment", "SetMidiThru", "SetGlobalEqBypassed",
                   "SetModeCycle", "SetTempoMode", "SetChainInput", "SetChainOutput",
                   "SetChainSplit", "SetRoutingParameter", "SetLaneControlParameter",
                   "SetLaneControlSceneMode", "SetParameterSceneMode", "SetParameterExpression",
                   "SetStompMomentary", "SetStompLabel", "SetMidiOut", "SetPresetLoadMidiOut",
                   "SetExpressionBypass", "SetSceneLabel", "SetSceneColor", "SetDeviceName"}

(* The operations that are one update of one plain field: every command    *)
(* and most settings (encode in commands.rs).                              *)
LEMMA PlainEncode ==
    ASSUME NEW o, o.op \in PlainOps
    PROVE  PlainUpdate(Encode(o))
<1> USE DEF PlainUpdate, Plain, TempoIndex
<1>1. CASE o.op \in Commands
  BY <1>1 DEF Encode, Commands, EncodeCommand, SelectScene, SetBypass, ParameterUpdate,
              SetTempo, SetMasterVolume, GridUpdate
<1>2. CASE o.op \in {"SetTuner", "SetGeneralInteger", "SetGeneralToggle",
                     "SetSceneBypassBehavior", "SetMasterVolumeAssignment"}
  <2>1. CASE o.op = "SetTuner"
    BY <2>1 DEF Encode, Commands, EncodeOperation, SetTuner
  <2>2. CASE o.op # "SetTuner"
    <3>1. Encode(o) = GeneralFrames(o)
      BY <1>2, <2>2 DEF Encode, Commands, EncodeOperation
    <3>2. PICK path : /\ path[1] = "general"
                      /\ GeneralFrames(o) = <<Update(9, path, o.value)>>
      <4>1. CASE o.op \in {"SetGeneralInteger", "SetGeneralToggle"}
        BY <4>1 DEF GeneralFrames
      <4>2. CASE o.op = "SetSceneBypassBehavior"
        BY <4>2 DEF GeneralFrames
      <4>3. CASE o.op = "SetMasterVolumeAssignment"
        BY <4>3 DEF GeneralFrames
      <4> QED BY <1>2, <2>2, <4>1, <4>2, <4>3
    <3>3. Plain(path)
      BY <3>2
    <3> QED BY <3>1, <3>2, <3>3
  <2> QED BY <2>1, <2>2
<1>3. CASE o.op \in {"SetMidiThru", "SetGlobalEqBypassed", "SetModeCycle", "SetTempoMode"}
  <2>1. CASE o.op = "SetMidiThru"
    BY <2>1 DEF Encode, Commands, EncodeOperation, PortFrames, IoUpdate
  <2>2. CASE o.op = "SetGlobalEqBypassed"
    BY <2>2 DEF Encode, Commands, EncodeOperation, EqFrames
  <2>3. CASE o.op = "SetModeCycle"
    BY <2>3 DEF Encode, Commands, EncodeOperation, EqFrames
  <2>4. CASE o.op = "SetTempoMode"
    BY <2>4 DEF Encode, Commands, EncodeOperation, SetTempoMode
  <2> QED BY <1>3, <2>1, <2>2, <2>3, <2>4
<1>4. CASE o.op \in {"SetChainInput", "SetChainOutput", "SetChainSplit"}
  <2>1. CASE o.op = "SetChainInput"
    BY <2>1 DEF Encode, Commands, EncodeOperation, ChainFrames, GridUpdate
  <2>2. CASE o.op = "SetChainOutput"
    BY <2>2 DEF Encode, Commands, EncodeOperation, ChainFrames, GridUpdate
  <2>3. CASE o.op = "SetChainSplit"
    <3>1. Encode(o) = SetChainSplit(o)
      BY <2>3 DEF Encode, Commands, EncodeOperation, ChainFrames
    <3>2. PICK value : SetChainSplit(o) = <<Update(1, <<"split", o.row>>, value)>>
      BY DEF SetChainSplit, GridUpdate
    <3> QED BY <3>1, <3>2 DEF PlainUpdate, Plain
  <2> QED BY <1>4, <2>1, <2>2, <2>3
<1>5. CASE o.op \in {"SetRoutingParameter", "SetLaneControlParameter", "SetLaneControlSceneMode",
                     "SetParameterSceneMode", "SetParameterExpression"}
  <2>1. CASE o.op = "SetRoutingParameter"
    BY <2>1 DEF Encode, Commands, EncodeOperation, SetRoutingParameter, ParameterUpdate, GridUpdate
  <2>2. CASE o.op = "SetLaneControlParameter"
    BY <2>2 DEF Encode, Commands, EncodeOperation, SetLaneControlParameter, ParameterUpdate,
                GridUpdate
  <2>3. CASE o.op = "SetLaneControlSceneMode"
    BY <2>3 DEF Encode, Commands, EncodeOperation, SetLaneControlSceneMode, GridUpdate
  <2>4. CASE o.op = "SetParameterSceneMode"
    BY <2>4 DEF Encode, Commands, EncodeOperation, AssignmentFrames, GridUpdate
  <2>5. CASE o.op = "SetParameterExpression"
    BY <2>5 DEF Encode, Commands, EncodeOperation, AssignmentFrames, GridUpdate
  <2> QED BY <1>5, <2>1, <2>2, <2>3, <2>4, <2>5
<1>6. CASE o.op \in {"SetStompMomentary", "SetStompLabel", "SetMidiOut", "SetPresetLoadMidiOut",
                     "SetExpressionBypass"}
  <2>1. CASE o.op = "SetStompMomentary"
    BY <2>1 DEF Encode, Commands, EncodeOperation, SetStompMomentary, GridUpdate
  <2>2. CASE o.op = "SetStompLabel"
    BY <2>2 DEF Encode, Commands, EncodeOperation, SetStompLabel, GridUpdate
  <2>3. CASE o.op = "SetMidiOut"
    BY <2>3 DEF Encode, Commands, EncodeOperation, MidiOutFrames
  <2>4. CASE o.op = "SetPresetLoadMidiOut"
    BY <2>4 DEF Encode, Commands, EncodeOperation, MidiOutFrames
  <2>5. CASE o.op = "SetExpressionBypass"
    BY <2>5 DEF Encode, Commands, EncodeOperation, SetExpressionBypass, GridUpdate
  <2> QED BY <1>6, <2>1, <2>2, <2>3, <2>4, <2>5
<1>7. CASE o.op \in {"SetSceneLabel", "SetSceneColor", "SetDeviceName"}
  <2>1. CASE o.op = "SetSceneLabel"
    <3>1. Encode(o) = SceneFrames(o)
      BY <2>1 DEF Encode, Commands, EncodeOperation
    <3>2. PICK value : SceneFrames(o) = <<Update(23, <<"label", o.scene>>, value)>>
      BY <2>1 DEF SceneFrames
    <3> QED BY <3>1, <3>2 DEF PlainUpdate, Plain
  <2>2. CASE o.op = "SetSceneColor"
    BY <2>2 DEF Encode, Commands, EncodeOperation, SceneFrames
  <2>3. CASE o.op = "SetDeviceName"
    BY <2>3 DEF Encode, Commands, EncodeOperation
  <2> QED BY <1>7, <2>1, <2>2, <2>3
<1> QED BY <1>1, <1>2, <1>3, <1>4, <1>5, <1>6, <1>7 DEF PlainOps

(* The operations of one frame with effects or several fields, those of a  *)
(* frame for each field that is given, and what makes the frames of an     *)
(* operation finite.                                                       *)
OneFrameOps ==
    {"SetGlobalBypass", "SetOutputPairing", "SetFavorite", "SetModelPinned", "CreateSetlist",
     "DeleteSetlist", "DeletePreset", "MovePreset", "SavePreset", "AddBlock", "RemoveBlock",
     "MoveBlock", "SetSplitMute", "CopyScene"}
PortOps == {"SetInputPort", "SetOutputPort", "SetUsbPort"}
PortFields(op) ==
    CASE op = "SetInputPort" -> <<"level", "impedance", "inputType", "groundLift">>
      [] op = "SetOutputPort" -> <<"level", "groundLift", "mute">>
      [] op = "SetUsbPort" -> <<"level", "headphonesSource", "dryWet">>
Shaped(o) ==
    \/ o.op \in PlainOps \cup OneFrameOps \cup {"SetFootswitch", "Midi"}
    \/ o.op \in PortOps /\ \A i \in DOMAIN PortFields(o.op) : Single(o[PortFields(o.op)[i]])
    \/ o.op = "SetGlobalEqParameters" /\ IsFiniteSet(o.controls)
    \/ o.op = "SetTempoParameters" /\ IsSeq(o.values)
    \/ o.op \in {"LoadCapture", "LoadIr"} /\ Single(o.modelId)

(* A plain update is a write.                                              *)
LEMMA PlainWrites ==
    ASSUME NEW frames, PlainUpdate(frames)
    PROVE  AreWrites(frames)
<1>1. PICK type, path, value : Plain(path) /\ frames = <<Update(type, path, value)>>
  BY DEF PlainUpdate
<1>2. path # <<"id">>
  BY <1>1 DEF Plain
<1>3. WriteFrame(Update(type, path, value))
  BY <1>2, FieldWrite DEF Update
<1> QED BY <1>1, <1>3, WritesOne

(* The operations of one frame.                                            *)
LEMMA OneFrameEncode ==
    ASSUME NEW o, o.op \in OneFrameOps
    PROVE  AreWrites(Encode(o))
<1>1. CASE o.op = "SetGlobalBypass"
  <2> DEFINE f == Field(<<"general", "cab">>, o.cab) ++ Field(<<"general", "ir">>, o.ir)
  <2>1. Encode(o) = <<Frame(9, "Update", f)>>
    BY <1>1 DEF Encode, Commands, EncodeOperation, GeneralFrames
  <2>2. DOMAIN f = {<<"general", "cab">>} \cup {<<"general", "ir">>}
    BY DEF ++, Field
  <2>3. IsFiniteSet({<<"general", "cab">>} \cup {<<"general", "ir">>})
    BY FS_Singleton, FS_AddElement
  <2> HIDE DEF f
  <2>4. WriteFrame(Frame(9, "Update", f))
    BY <2>2, <2>3 DEF WriteFrame, Frame
  <2> QED BY <2>1, <2>4, WritesOne
<1>2. CASE o.op = "SetOutputPairing"
  <2> DEFINE paths == {<<"linked", f>> : f \in {g \in PairingFields : o[g] # {}}}
             f == [path \in paths |-> CHOOSE v \in o[path[2]] : TRUE]
  <2>1. Encode(o) = <<Frame(3, "Update", f)>>
    BY <1>2 DEF Encode, Commands, EncodeOperation, PortFrames
  <2>2. paths \subseteq {<<"linked", "xlr12Linked">>} \cup {<<"linked", "out34Linked">>}
    BY DEF PairingFields
  <2>3. IsFiniteSet({<<"linked", "xlr12Linked">>} \cup {<<"linked", "out34Linked">>})
    BY FS_Singleton, FS_AddElement
  <2>4. IsFiniteSet(paths)
    BY <2>2, <2>3, FS_Subset
  <2>5. DOMAIN f = paths
    OBVIOUS
  <2> HIDE DEF f, paths
  <2>6. WriteFrame(Frame(3, "Update", f))
    BY <2>4, <2>5 DEF WriteFrame, Frame
  <2> QED BY <2>1, <2>6, WritesOne
<1>3. CASE o.op \in {"SetFavorite", "SetModelPinned"}
  <2>1. CASE o.op = "SetFavorite"
    <3>1. Encode(o) = <<Frame(20, CreateOrDelete(o.favorite), Field(<<"favorite", o.name>>, TRUE))>>
      BY <2>1 DEF Encode, Commands, EncodeOperation, FavoriteFrames
    <3>2. <<"favorite", o.name>> # <<"id">> /\ CreateOrDelete(o.favorite) # "Read"
      BY DEF CreateOrDelete
    <3> QED BY <3>1, <3>2, FieldWrite, WritesOne
  <2>2. CASE o.op = "SetModelPinned"
    <3>1. Encode(o) = <<Frame(54, CreateOrDelete(o.pinned), Field(<<"pin", o.modelId>>, TRUE))>>
      BY <2>2 DEF Encode, Commands, EncodeOperation, FavoriteFrames
    <3>2. <<"pin", o.modelId>> # <<"id">> /\ CreateOrDelete(o.pinned) # "Read"
      BY DEF CreateOrDelete
    <3> QED BY <3>1, <3>2, FieldWrite, WritesOne
  <2> QED BY <1>3, <2>1, <2>2
<1>4. CASE o.op \in {"CreateSetlist", "DeleteSetlist"}
  <2>1. CASE o.op = "CreateSetlist"
    <3>1. Encode(o) = <<Frame(4, "Create", Field(<<"setlist", o.name>>, TRUE))>>
      BY <2>1 DEF Encode, Commands, EncodeOperation, FileFrames
    <3>2. <<"setlist", o.name>> # <<"id">>
      OBVIOUS
    <3> QED BY <3>1, <3>2, FieldWrite, WritesOne
  <2>2. CASE o.op = "DeleteSetlist"
    <3>1. Encode(o) = <<Frame(4, "Delete", Field(<<"setlist", o.name>>, TRUE))>>
      BY <2>2 DEF Encode, Commands, EncodeOperation, FileFrames
    <3>2. <<"setlist", o.name>> # <<"id">>
      OBVIOUS
    <3> QED BY <3>1, <3>2, FieldWrite, WritesOne
  <2> QED BY <1>4, <2>1, <2>2
<1>5. CASE o.op \in {"DeletePreset", "MovePreset", "SavePreset"}
  <2>1. CASE o.op = "DeletePreset"
    <3>1. Encode(o) = <<Frame(4, "Delete", Field(<<"preset", o.setlistKey, o.name>>, {}))>>
      BY <2>1 DEF Encode, Commands, EncodeOperation, FileFrames
    <3>2. <<"preset", o.setlistKey, o.name>> # <<"id">>
      OBVIOUS
    <3> QED BY <3>1, <3>2, FieldWrite, WritesOne
  <2>2. CASE o.op = "MovePreset"
    <3>1. Encode(o) = <<Frame(4, "Move", Field(<<"preset", o.setlistKey, o.name>>, {o.position}))>>
      BY <2>2 DEF Encode, Commands, EncodeOperation, FileFrames
    <3>2. <<"preset", o.setlistKey, o.name>> # <<"id">>
      OBVIOUS
    <3> QED BY <3>1, <3>2, FieldWrite, WritesOne
  <2>3. CASE o.op = "SavePreset"
    <3>1. Encode(o) =
            <<Frame(4, "Create", Field(<<"preset", o.setlistKey, o.name>>, {o.position}))>>
      BY <2>3 DEF Encode, Commands, EncodeOperation, SavePreset
    <3>2. <<"preset", o.setlistKey, o.name>> # <<"id">>
      OBVIOUS
    <3> QED BY <3>1, <3>2, FieldWrite, WritesOne
  <2> QED BY <1>5, <2>1, <2>2, <2>3
<1>6. CASE o.op \in {"AddBlock", "RemoveBlock", "MoveBlock"}
  <2>1. CASE o.op = "AddBlock"
    <3>1. Encode(o) = <<Frame(1, "Update", Field(<<"block", o.row, o.column>>, o.modelId))>>
      BY <2>1 DEF Encode, Commands, EncodeOperation, SetBlock, GridUpdate, Update
    <3>2. <<"block", o.row, o.column>> # <<"id">>
      OBVIOUS
    <3> QED BY <3>1, <3>2, FieldWrite, WritesOne
  <2>2. CASE o.op = "RemoveBlock"
    <3>1. Encode(o) = <<Frame(1, "Delete", Field(<<"block", o.row, o.column>>, NoModel))>>
      BY <2>2 DEF Encode, Commands, EncodeOperation, RemoveBlock
    <3>2. <<"block", o.row, o.column>> # <<"id">>
      OBVIOUS
    <3> QED BY <3>1, <3>2, FieldWrite, WritesOne
  <2>3. CASE o.op = "MoveBlock"
    <3>1. Encode(o) = <<Frame(12, "Update", Field(<<"block", o.fromRow, o.fromColumn>>,
                                              <<o.toRow, o.toColumn>>))>>
      BY <2>3 DEF Encode, Commands, EncodeOperation, MoveBlock
    <3>2. <<"block", o.fromRow, o.fromColumn>> # <<"id">>
      OBVIOUS
    <3> QED BY <3>1, <3>2, FieldWrite, WritesOne
  <2> QED BY <1>6, <2>1, <2>2, <2>3
<1>7. CASE o.op = "SetSplitMute"
  <2>1. Encode(o) = <<Frame(1, "Update", Field(<<"splitBypass", o.row>>, o.value))>>
    BY <1>7 DEF Encode, Commands, EncodeOperation, ChainFrames, GridUpdate, Update
  <2>2. <<"splitBypass", o.row>> # <<"id">>
    OBVIOUS
  <2> QED BY <2>1, <2>2, FieldWrite, WritesOne
<1>8. CASE o.op = "CopyScene"
  <2>1. Encode(o) = <<Frame(22, "Update", Field(<<"copyScene">>, <<o.from, o.to, o.swap>>))>>
    BY <1>8 DEF Encode, Commands, EncodeOperation, SceneFrames, Update
  <2>2. <<"copyScene">> # <<"id">>
    OBVIOUS
  <2> QED BY <2>1, <2>2, FieldWrite, WritesOne
<1> QED BY <1>1, <1>2, <1>3, <1>4, <1>5, <1>6, <1>7, <1>8 DEF OneFrameOps

(* Two sequences of one element make a pair.                               *)
LEMMA Pair ==
    ASSUME NEW a, NEW b
    PROVE  <<a>> \o <<b>> = <<a, b>>
<1> DEFINE S == {a, b}
           s == <<a>>
           c == <<a>> \o <<b>>
<1>1. s \in Seq(S) /\ b \in S /\ Len(s) = 1 /\ s[1] = a
  OBVIOUS
<1>2. c = Append(s, b)
  BY <1>1, AppendIsConcat
<1> HIDE DEF S, s, c
<1>3. /\ c \in Seq(S) /\ Len(c) = Len(s) + 1 /\ c[Len(s) + 1] = b
      /\ \A i \in 1 .. Len(s) : c[i] = s[i]
  <2>1. Len(Append(s, b)) = Len(s) + 1
    BY <1>1, AppendProperties
  <2>2. Append(s, b)[Len(s) + 1] = b
    BY <1>1, AppendProperties
  <2>3. \A i \in 1 .. Len(s) : Append(s, b)[i] = s[i]
    BY <1>1
  <2>4. Append(s, b) \in Seq(S)
    BY <1>1, AppendProperties
  <2> QED BY <1>2, <2>1, <2>2, <2>3, <2>4
<1>4. Len(c) = 2 /\ c[2] = b
  BY <1>1, <1>3
<1>5. c[1] = a
  BY <1>1, <1>3
<1>6. c = [i \in 1 .. 2 |-> c[i]]
  <2>1. c \in Seq(S) /\ Len(c) = 2
    BY <1>3, <1>4
  <2>2. c \in [1 .. 2 -> S]
    BY <2>1
  <2> QED BY <2>2
<1>7. \A i \in 1 .. 2 : c[i] = IF i = 1 THEN a ELSE b
  BY <1>4, <1>5
<1>8. c = [i \in 1 .. 2 |-> IF i = 1 THEN a ELSE b]
  BY <1>6, <1>7
<1>9. <<a, b>> = [i \in 1 .. 2 |-> IF i = 1 THEN a ELSE b]
  OBVIOUS
<1> QED BY <1>8, <1>9 DEF c

(* Nothing before or after one element leaves it alone.                    *)
LEMMA NoneMore ==
    ASSUME NEW a
    PROVE  <<a>> \o <<>> = <<a>> /\ <<>> \o <<a>> = <<a>>
<1> DEFINE S == {a}
           s == <<a>>
<1>1. s \in Seq(S)
  OBVIOUS
<1> HIDE DEF S, s
<1>2. s \o <<>> = s /\ <<>> \o s = s
  BY <1>1
<1> QED BY <1>2 DEF s

(* A port: the fields that are given, each of one value at most.           *)
LEMMA PortEncode ==
    ASSUME NEW o, o.op \in PortOps,
           \A i \in DOMAIN PortFields(o.op) : Single(o[PortFields(o.op)[i]])
    PROVE  AreWrites(Encode(o))
<1> DEFINE fields == PortFields(o.op)
           n == IF o.op = "SetInputPort" THEN 4 ELSE 3
<1>1. n \in Nat /\ DOMAIN fields = 1 .. n
  <2>1. CASE o.op = "SetInputPort"
    BY <2>1 DEF PortFields
  <2>2. CASE o.op = "SetOutputPort"
    BY <2>2 DEF PortFields
  <2>3. CASE o.op = "SetUsbPort"
    BY <2>3 DEF PortFields
  <2> QED BY <2>1, <2>2, <2>3 DEF PortOps
<1>2. ASSUME NEW port, NEW i \in DOMAIN fields, Append(port, fields[i]) # <<"id">>
      PROVE  AreWrites(SetToSeq({IoUpdate(Append(port, fields[i]), v) : v \in o[fields[i]]}))
  <2> DEFINE S == {IoUpdate(Append(port, fields[i]), v) : v \in o[fields[i]]}
  <2>1. \A v, w \in S : v = w
    BY <1>2 DEF Single
  <2>2. \A v : WriteFrame(IoUpdate(Append(port, fields[i]), v))
    BY <1>2, FieldWrite DEF IoUpdate, Update
  <2>3. \A f \in S : WriteFrame(f)
    BY <2>2
  <2> HIDE DEF S
  <2>4. AreWrites(SetToSeq(S))
    BY <2>1, <2>3, WritesListed
  <2> QED BY <2>4 DEF S
<1>3. ASSUME NEW port, \A i \in DOMAIN fields : Append(port, fields[i]) # <<"id">>
      PROVE  AreWrites(PortMessages(o, port, fields))
  <2> DEFINE ss == [i \in DOMAIN fields |->
                      SetToSeq({IoUpdate(Append(port, fields[i]), v) : v \in o[fields[i]]})]
  <2>1. DOMAIN ss = 1 .. n /\ ss = [i \in 1 .. n |-> ss[i]]
    BY <1>1
  <2>2. \A i \in 1 .. n : AreWrites(ss[i])
    BY <1>1, <1>2, <1>3
  <2> HIDE DEF ss, n, fields
  <2>3. AreWrites(FlattenSeq(ss))
    BY <1>1, <2>1, <2>2, WritesFlattened
  <2> QED BY <2>3 DEF PortMessages, ss
<1>4. ASSUME NEW x, NEW y, NEW z PROVE Append(<<x, y>>, z) # <<"id">>
  OBVIOUS
<1>5. ASSUME NEW z PROVE Append(<<"usb">>, z) # <<"id">>
  OBVIOUS
<1>6. CASE o.op = "SetInputPort"
  <2>1. Encode(o) = PortMessages(o, <<"in", o.port>>, fields)
    BY <1>6 DEF Encode, Commands, EncodeOperation, PortFrames, PortFields
  <2> QED BY <1>3, <1>4, <2>1
<1>7. CASE o.op = "SetOutputPort"
  <2>1. Encode(o) = PortMessages(o, <<"out", o.port>>, fields)
    BY <1>7 DEF Encode, Commands, EncodeOperation, PortFrames, PortFields
  <2> QED BY <1>3, <1>4, <2>1
<1>8. CASE o.op = "SetUsbPort"
  <2>1. Encode(o) = PortMessages(o, <<"usb">>, fields)
    BY <1>8 DEF Encode, Commands, EncodeOperation, PortFrames, PortFields
  <2> QED BY <1>3, <1>5, <2>1
<1> QED BY <1>6, <1>7, <1>8 DEF PortOps

(* The equalizer: finitely many controls in one frame.                     *)
LEMMA EqEncode ==
    ASSUME NEW o, o.op = "SetGlobalEqParameters", IsFiniteSet(o.controls)
    PROVE  AreWrites(Encode(o))
<1> DEFINE paths == {<<"eq", c[1]>> : c \in o.controls}
           f == [path \in paths |-> (CHOOSE c \in o.controls : c[1] = path[2])[2]]
           g == [c \in o.controls |-> <<"eq", c[1]>>]
<1>1. Encode(o) = <<Frame(38, "Update", f)>>
  BY DEF Encode, Commands, EncodeOperation, EqFrames
<1>2. g \in Surjection(o.controls, paths)
  BY DEF Surjection
<1>3. DOMAIN f = paths
  OBVIOUS
<1> HIDE DEF f, g, paths
<1>4. IsFiniteSet(paths)
  BY <1>2, FS_Surjection
<1>5. WriteFrame(Frame(38, "Update", f))
  BY <1>3, <1>4 DEF WriteFrame, Frame
<1> QED BY <1>1, <1>5, WritesOne

(* The metronome: a frame for each value.                                  *)
LEMMA TempoEncode ==
    ASSUME NEW o, o.op = "SetTempoParameters", IsSeq(o.values)
    PROVE  AreWrites(Encode(o))
<1> DEFINE n == Len(o.values)
           s == SetTempoParameters(o)
<1>1. n \in Nat /\ DOMAIN o.values = 1 .. n
  BY DEF IsSeq
<1>2. Encode(o) = s
  BY DEF Encode, Commands, EncodeOperation
<1>3. ASSUME NEW i \in 1 .. n PROVE WriteFrame(s[i])
  <2>1. s[i] = Frame(1, "Update", Field(<<"tempo", o.values[i][1]>>, Clamp(o.values[i][2])))
    BY <1>1 DEF SetTempoParameters, GridUpdate, Update
  <2>2. <<"tempo", o.values[i][1]>> # <<"id">>
    OBVIOUS
  <2> HIDE DEF s
  <2> QED BY <2>1, <2>2, FieldWrite
<1>4. DOMAIN s = 1 .. n /\ s = [i \in 1 .. n |-> s[i]]
  BY <1>1 DEF SetTempoParameters
<1> HIDE DEF n, s
<1> QED BY <1>1, <1>2, <1>3, <1>4, WritesEach

(* A capture or an impulse response: the block first, if there is to be    *)
(* one.                                                                    *)
LEMMA LoadEncode ==
    ASSUME NEW o, o.op \in {"LoadCapture", "LoadIr"}, Single(o.modelId)
    PROVE  AreWrites(Encode(o))
<1> DEFINE S == {GridUpdate(<<"block", o.row, o.column>>, m) : m \in o.modelId}
<1>1. AreWrites(SetToSeq(S))
  <2>1. \A v, w \in S : v = w
    BY DEF Single
  <2>2. <<"block", o.row, o.column>> # <<"id">>
    OBVIOUS
  <2>3. \A m : WriteFrame(GridUpdate(<<"block", o.row, o.column>>, m))
    BY <2>2, FieldWrite DEF GridUpdate, Update
  <2>4. \A f \in S : WriteFrame(f)
    BY <2>3
  <2> HIDE DEF S
  <2> QED BY <2>1, <2>4, WritesListed
<1>2. ASSUME NEW n \in Nat, NEW texts, DOMAIN texts = 1 .. n
      PROVE  AreWrites(LoadFile(o, texts))
  <2> DEFINE s == [i \in DOMAIN texts |->
                     ParameterUpdate(o.row, o.column, texts[i][1], texts[i][2])]
  <2>1. ASSUME NEW i \in 1 .. n PROVE WriteFrame(s[i])
    <3>1. s[i] = Frame(1, "Update", Field(<<"param", o.row, o.column, texts[i][1]>>, texts[i][2]))
      BY <1>2 DEF ParameterUpdate, GridUpdate, Update
    <3>2. <<"param", o.row, o.column, texts[i][1]>> # <<"id">>
      OBVIOUS
    <3> HIDE DEF s
    <3> QED BY <3>1, <3>2, FieldWrite
  <2>2. DOMAIN s = 1 .. n /\ s = [i \in 1 .. n |-> s[i]]
    BY <1>2
  <2>3. LoadFile(o, texts) = SetToSeq(S) \o s
    BY DEF LoadFile
  <2> HIDE DEF s, S
  <2>4. AreWrites(s)
    BY <2>1, <2>2, WritesEach
  <2> QED BY <1>1, <2>3, <2>4, WritesConcat
<1> HIDE DEF S
<1>3. CASE o.op = "LoadCapture"
  <2>1. Encode(o) = LoadFile(o, <<<<5, <<"text", o.key, o.name>>>>>>)
    BY <1>3 DEF Encode, Commands, EncodeOperation, LoadFrames
  <2>2. DOMAIN <<<<5, <<"text", o.key, o.name>>>>>> = 1 .. 1
    OBVIOUS
  <2> QED BY <1>2, <2>1, <2>2
<1>4. CASE o.op = "LoadIr"
  <2>1. PICK x, y, a, b : Encode(o) = LoadFile(o, <<<<x, a>>, <<y, b>>>>)
    BY <1>4 DEF Encode, Commands, EncodeOperation, LoadFrames
  <2>2. DOMAIN <<<<x, a>>, <<y, b>>>> = 1 .. 2
    OBVIOUS
  <2> QED BY <1>2, <2>1, <2>2
<1> QED BY <1>3, <1>4

(* A footswitch is unassigned first, then assigned, at the same path.      *)
FootswitchFrames(frames) ==
    \E path, v, w : /\ Plain(path)
                    /\ \/ frames = <<Frame(1, "Delete", Field(path, v))>>
                       \/ frames = <<Frame(1, "Delete", Field(path, v)), Update(1, path, w)>>

(* A footswitch: its deletion and its assignment.                          *)
LEMMA FootswitchEncode ==
    ASSUME NEW o, o.op = "SetFootswitch"
    PROVE  FootswitchFrames(Encode(o)) /\ AreWrites(Encode(o))
<1> DEFINE path == <<"footswitch", o.row, o.column>>
           gone == Frame(1, "Delete", Field(path, {}))
           given == Update(1, path, o.footswitch)
<1>1. Plain(path) /\ path # <<"id">>
  BY DEF Plain
<1>2. Encode(o) = <<gone>> \/ Encode(o) = <<gone, given>>
  <2>1. Encode(o) = SetFootswitch(o)
    BY DEF Encode, Commands, EncodeOperation
  <2>2. SetFootswitch(o) = <<gone>> \o (IF o.footswitch = {} THEN <<>> ELSE <<given>>)
    BY DEF SetFootswitch, GridUpdate
  <2> HIDE DEF gone, given
  <2> QED BY <2>1, <2>2, Pair, NoneMore
<1>3. FootswitchFrames(Encode(o))
  BY <1>1, <1>2 DEF FootswitchFrames
<1>4. WriteFrame(gone) /\ WriteFrame(given)
  BY <1>1, FieldWrite DEF Update
<1> HIDE DEF gone, given, path
<1>5. AreWrites(<<gone>>) /\ AreWrites(<<given>>)
  BY <1>4, WritesOne
<1>6. AreWrites(<<gone>> \o <<given>>)
  BY <1>5, WritesConcat
<1>7. <<gone>> \o <<given>> = <<gone, given>>
  BY Pair
<1> QED BY <1>2, <1>3, <1>5, <1>6, <1>7

(* The frames of an operation, control changes among them.                 *)
Frames(o) == Encode(o) \o ControlChangeFrames(o)

(* Only a MIDI operation has control changes.                              *)
LEMMA FramesEncoded ==
    ASSUME NEW o, o.op # "Midi", AreWrites(Encode(o))
    PROVE  Frames(o) = Encode(o)
<1>1. PICK S : Encode(o) \in Seq(S)
  BY DEF AreWrites
<1> QED BY <1>1 DEF Frames, ControlChangeFrames

(* A control change is a plain update.                                     *)
LEMMA MidiFrames ==
    ASSUME NEW o, o.op = "Midi"
    PROVE  PlainUpdate(Frames(o)) /\ AreWrites(Frames(o))
<1> DEFINE path == <<"controlChange", o.controller>>
<1>1. Plain(path)
  BY DEF Plain
<1>2. Frames(o) = <<Update(0, path, o.value)>>
  <2>1. Encode(o) = <<>>
    BY DEF Encode, Commands
  <2>2. ControlChangeFrames(o) = <<Update(0, path, o.value)>>
    BY DEF ControlChangeFrames
  <2> QED BY <2>1, <2>2, NoneMore DEF Frames
<1>3. PlainUpdate(Frames(o))
  BY <1>1, <1>2 DEF PlainUpdate
<1> QED BY <1>3, PlainWrites

(* The frames of a shaped operation are writes.                            *)
LEMMA ShapedFrames ==
    ASSUME NEW o, Shaped(o)
    PROVE  AreWrites(Frames(o))
<1>1. CASE o.op = "Midi"
  BY <1>1, MidiFrames
<1>2. CASE o.op # "Midi"
  <2>1. AreWrites(Encode(o))
    <3>1. CASE o.op \in PlainOps
      BY <3>1, PlainEncode, PlainWrites
    <3> QED BY <1>2, <3>1, OneFrameEncode, FootswitchEncode, PortEncode, EqEncode, TempoEncode,
               LoadEncode DEF Shaped
  <2> QED BY <1>2, <2>1, FramesEncoded
<1> QED BY <1>1, <1>2

-----------------------------------------------------------------------------
(***************************************************************************)
(* What each method may plan                                               *)
(***************************************************************************)
(* The operations of the methods that may be repeated.                     *)
Kept(o) == o.op \in PlainOps \cup {"SetFootswitch", "SetSplitMute", "Midi"}

(* They are shaped.                                                        *)
LEMMA KeptShaped ==
    ASSUME NEW o, Kept(o)
    PROVE  Shaped(o)
BY DEF Kept, Shaped, OneFrameOps

(* The tuner and the general settings.                                     *)
LEMMA SettingShaped ==
    ASSUME NEW name, NEW p,
           NEW o \in IF name \in TunerNames THEN TunerOperation(name, p)
                     ELSE GeneralOperation(name, p),
           name \in TunerNames \cup GeneralNames
    PROVE  Shaped(o)
<1>1. CASE name \in TunerNames
  <2>1. o.op = "SetTuner"
    BY <1>1 DEF TunerNames, TunerOperation, Accept
  <2> QED BY <2>1 DEF Shaped, PlainOps
<1>2. CASE name \in GeneralNames /\ name \notin TunerNames
  <2>1. o.op \in {"SetGeneralInteger", "SetGeneralToggle", "SetSceneBypassBehavior",
                  "SetMasterVolumeAssignment", "SetGlobalBypass"}
    BY <1>2 DEF GeneralNames, GeneralOperation, Accept
  <2> QED BY <2>1 DEF Shaped, PlainOps, OneFrameOps
<1> QED BY <1>1, <1>2

(* The ports: a field that is given once is encoded once.                  *)
LEMMA PortShaped ==
    ASSUME NEW name \in PortNames, NEW p, WellFormed(name, p), NEW o \in PortOperation(name, p)
    PROVE  Shaped(o)
<1>1. CASE name = "setInputPort"
  <2>1. \A f \in InputFields : Single(Opt(p, f))
    BY <1>1 DEF WellFormed, OptionalFields, FileBlockNames
  <2>2. o = [op |-> "SetInputPort", port |-> p.inputPortId,
             level |-> {Share(q, -12, 60) : q \in Opt(p, "levelDb")},
             impedance |-> Opt(p, "impedance"), inputType |-> Opt(p, "inputType"),
             groundLift |-> Opt(p, "groundLift")]
    BY <1>1 DEF PortOperation, Accept
  <2>3. Single({Share(q, -12, 60) : q \in Opt(p, "levelDb")})
    BY <2>1 DEF InputFields, Single
  <2>4. Single(o.level) /\ Single(o.impedance) /\ Single(o.inputType) /\ Single(o.groundLift)
    BY <2>1, <2>2, <2>3 DEF InputFields
  <2>5. o.op = "SetInputPort"
    BY <2>2
  <2> QED BY <2>4, <2>5 DEF Shaped, PortOps, PortFields
<1>2. CASE name = "setOutputPort"
  <2>1. \A f \in OutputFields : Single(Opt(p, f))
    BY <1>2 DEF WellFormed, OptionalFields, FileBlockNames
  <2>2. o = [op |-> "SetOutputPort", port |-> p.outputPortId, level |-> Opt(p, "level"),
             groundLift |-> Opt(p, "groundLift"), mute |-> Opt(p, "mute")]
    BY <1>2 DEF PortOperation, Accept
  <2>3. Single(o.level) /\ Single(o.groundLift) /\ Single(o.mute) /\ o.op = "SetOutputPort"
    BY <2>1, <2>2 DEF OutputFields
  <2> QED BY <2>3 DEF Shaped, PortOps, PortFields
<1>3. CASE name = "setUsbPort"
  <2>1. \A f \in UsbFields : Single(Opt(p, f))
    BY <1>3 DEF WellFormed, OptionalFields, FileBlockNames
  <2>2. o = [op |-> "SetUsbPort", level |-> Opt(p, "level"),
             headphonesSource |-> Opt(p, "headphonesSource"), dryWet |-> Opt(p, "dryWet")]
    BY <1>3 DEF PortOperation, Accept
  <2>3. Single(o.level) /\ Single(o.headphonesSource) /\ Single(o.dryWet) /\ o.op = "SetUsbPort"
    BY <2>1, <2>2 DEF UsbFields
  <2> QED BY <2>3 DEF Shaped, PortOps, PortFields
<1>4. CASE name \in {"setMidiThru", "setOutputPairing"}
  <2>1. o.op \in {"SetMidiThru", "SetOutputPairing"}
    BY <1>4 DEF PortOperation, Accept
  <2> QED BY <2>1 DEF Shaped, PlainOps, OneFrameOps
<1> QED BY <1>1, <1>2, <1>3, <1>4 DEF PortNames

(* One value at most makes one control at most.                            *)
LEMMA SingleImage ==
    ASSUME NEW S, Single(S), NEW a
    PROVE  IsFiniteSet({<<a, q>> : q \in S})
<1> DEFINE T == {<<a, q>> : q \in S}
<1>1. \A v, w \in T : v = w
  BY DEF Single
<1> HIDE DEF T
<1>2. IsFiniteSet(T)
  BY <1>1, Singular
<1> QED BY <1>2 DEF T

(* The equalizer: as many controls as there are fields given.              *)
LEMMA EqShaped ==
    ASSUME NEW name \in EqNames, NEW p, WellFormed(name, p), NEW o \in EqOperation(name, p)
    PROVE  Shaped(o)
<1>1. CASE name = "setGlobalEqBypassed"
  <2>1. o.op = "SetGlobalEqBypassed"
    BY <1>1 DEF EqOperation, Accept
  <2> QED BY <2>1 DEF Shaped, PlainOps
<1>2. CASE name = "setGlobalEqBand"
  <2>1. \A f \in {"gain", "frequency", "q", "filterType", "enabled"} : Single(Opt(p, f))
    BY <1>2 DEF WellFormed, OptionalFields, FileBlockNames
  <2> DEFINE base == EqBase(p.band)
             types == {<<base + 3, <<t, 4>>>> : t \in Opt(p, "filterType")}
             toggles == EqToggles(p, "enabled", base + 4)
             numbers == EqControls(p, base, BandField)
  <2>2. o = [op |-> "SetGlobalEqParameters", controls |-> (numbers \cup types) \cup toggles]
    BY <1>2 DEF EqOperation, Accept
  <2>3. IsFiniteSet(types)
    <3>1. \A v, w \in types : v = w
      BY <2>1 DEF Single
    <3> HIDE DEF types
    <3> QED BY <3>1, Singular
  <2>4. IsFiniteSet(toggles)
    <3>1. \A v, w \in toggles : v = w
      BY <2>1 DEF Single, EqToggles
    <3> HIDE DEF toggles
    <3> QED BY <3>1, Singular
  <2>5. IsFiniteSet(numbers)
    <3> DEFINE Part(i, f) == {<<base + i - 1, q>> : q \in Opt(p, f)}
    <3>1. numbers = (Part(1, "gain") \cup Part(2, "frequency")) \cup Part(3, "q")
      BY DEF EqControls, BandField
    <3>2. IsFiniteSet(Part(1, "gain")) /\ IsFiniteSet(Part(2, "frequency"))
            /\ IsFiniteSet(Part(3, "q"))
      BY <2>1, SingleImage
    <3> HIDE DEF Part, numbers
    <3> QED BY <3>1, <3>2, FS_Union
  <2>6. o.op = "SetGlobalEqParameters" /\ o.controls = (numbers \cup types) \cup toggles
    BY <2>2
  <2> HIDE DEF numbers, types, toggles
  <2>7. IsFiniteSet((numbers \cup types) \cup toggles)
    BY <2>3, <2>4, <2>5, FS_Union
  <2> QED BY <2>6, <2>7 DEF Shaped
<1>3. CASE name = "setGlobalEqOutput"
  <2>1. \A f \in {"level", "out12", "out34"} : Single(Opt(p, f))
    BY <1>3 DEF WellFormed, OptionalFields, EqOutput, FileBlockNames
  <2> DEFINE numbers == {<<EqOutput.level, q>> : q \in Opt(p, "level")}
             first == EqToggles(p, "out12", EqOutput.out12)
             second == EqToggles(p, "out34", EqOutput.out34)
  <2>2. o = [op |-> "SetGlobalEqParameters", controls |-> (numbers \cup first) \cup second]
    BY <1>3 DEF EqOperation, Accept
  <2>3. IsFiniteSet(numbers)
    BY <2>1, SingleImage
  <2>4. (\A v, w \in first : v = w) /\ (\A v, w \in second : v = w)
    BY <2>1 DEF Single, EqToggles
  <2>5. o.op = "SetGlobalEqParameters" /\ o.controls = (numbers \cup first) \cup second
    BY <2>2
  <2> HIDE DEF numbers, first, second
  <2>6. IsFiniteSet((numbers \cup first) \cup second)
    BY <2>3, <2>4, Singular, FS_Union
  <2> QED BY <2>5, <2>6 DEF Shaped
<1> QED BY <1>1, <1>2, <1>3 DEF EqNames

(* The metronome: as many values as there are fields given, and a beat for *)
(* each accent.                                                            *)
LEMMA MetronomeShaped ==
    ASSUME NEW p, WellFormed("setTempoMetronome", p), NEW o \in MetronomeOperation(p)
    PROVE  Shaped(o)
<1>1. \A f \in DOMAIN TempoIndex : Single(Opt(p, f))
  BY DEF WellFormed, OptionalFields, FileBlockNames
<1>2. o = [op |-> "SetTempoParameters", values |-> TempoValues(p)]
  BY DEF MetronomeOperation, Accept
<1>3. IsSeq(TempoBeats(p))
  <2> DEFINE beats == IF Opt(p, "beats") = {} THEN <<>> ELSE CHOOSE b \in p.beats : TRUE
             S == {<<TempoIndex.beats + i - 1, Choice(Beats, beats[i])>> : i \in DOMAIN beats}
             s == [i \in DOMAIN beats |-> <<TempoIndex.beats + i - 1, Choice(Beats, beats[i])>>]
  <2>1. beats \in Seq(STRING)
    <3>1. CASE Opt(p, "beats") = {}
      BY <3>1
    <3>2. CASE Opt(p, "beats") # {}
      <4>1. Opt(p, "beats") = p.beats
        BY <3>2 DEF Opt
      <4>2. Opt(p, "beats") \subseteq Seq(STRING)
        BY DEF WellFormed
      <4> QED BY <3>2, <4>1, <4>2
    <3> QED BY <3>1, <3>2
  <2>2. TempoBeats(p) = s
    BY DEF TempoBeats
  <2>3. s \in [DOMAIN beats -> S]
    OBVIOUS
  <2> HIDE DEF s, S, beats
  <2>4. DOMAIN beats = 1 .. Len(beats) /\ Len(beats) \in Nat
    BY <2>1
  <2>5. s \in Seq(S)
    BY <2>3, <2>4
  <2> QED BY <2>2, <2>5 DEF IsSeq
<1> DEFINE labels(f) == {<<TempoIndex[f], Choice(TempoLabels[f], v)>> : v \in Opt(p, f)}
           switches(f) == {<<TempoIndex[f], Switched(v)>> : v \in Opt(p, f)}
           volume == {<<TempoIndex["volumeDb"], Share(v, -60, 9)>> : v \in Opt(p, "volumeDb")}
           pan == {<<TempoIndex["pan"], Share(v, -1, 1)>> : v \in Opt(p, "pan")}
<1>4. TempoControls(p) =
        SetToSeq(labels("timeSignature")) \o SetToSeq(switches("ledEnabled")) \o SetToSeq(volume)
          \o SetToSeq(switches("running")) \o SetToSeq(pan)
          \o SetToSeq(labels("subdivision")) \o SetToSeq(labels("sound"))
          \o SetToSeq(labels("routing"))
  BY DEF TempoControls
<1>5. ASSUME NEW S, Single(S) PROVE IsSeq(SetToSeq(S))
  BY <1>5, Singular, Listed DEF Single, IsSeq
<1>6. \A f \in DOMAIN TempoIndex : Single(labels(f)) /\ Single(switches(f))
  BY <1>1 DEF Single
<1>7. Single(volume) /\ Single(pan)
  <2>1. Single(Opt(p, "volumeDb")) /\ Single(Opt(p, "pan"))
    BY <1>1 DEF TempoIndex
  <2> QED BY <2>1 DEF Single
<1>8. {"timeSignature", "ledEnabled", "running", "subdivision", "sound", "routing"}
         \subseteq DOMAIN TempoIndex
  BY DEF TempoIndex
<1> HIDE DEF labels, switches, volume, pan
<1>9. /\ IsSeq(SetToSeq(labels("timeSignature"))) /\ IsSeq(SetToSeq(switches("ledEnabled")))
      /\ IsSeq(SetToSeq(volume)) /\ IsSeq(SetToSeq(switches("running"))) /\ IsSeq(SetToSeq(pan))
      /\ IsSeq(SetToSeq(labels("subdivision"))) /\ IsSeq(SetToSeq(labels("sound")))
      /\ IsSeq(SetToSeq(labels("routing")))
  BY <1>5, <1>6, <1>7, <1>8
<1>10. IsSeq(TempoControls(p))
  BY <1>4, <1>9, RunConcat
<1>11. IsSeq(TempoValues(p))
  BY <1>3, <1>10, RunConcat DEF TempoValues
<1>12. o.op = "SetTempoParameters" /\ o.values = TempoValues(p)
  BY <1>2
<1> QED BY <1>11, <1>12 DEF Shaped

(* Favorites, pins, setlists and preset files.                             *)
LEMMA LibraryShaped ==
    ASSUME NEW name \in LibraryNames \cup PresetFileNames, NEW p,
           NEW o \in IF name \in LibraryNames THEN LibraryOperation(name, p)
                     ELSE PresetFileOperation(name, p)
    PROVE  Shaped(o)
<1>1. CASE name \in LibraryNames
  <2>1. o.op \in {"SetTempoMode", "SetFavorite", "SetModelPinned", "CreateSetlist",
                  "DeleteSetlist"}
    <3>1. CASE name = "setTempoMode"
      <4> DEFINE mode == p.mode = "GLOBAL"
                 valid == Given(p, "mode", {"GLOBAL", "PRESET"})
      <4>1. LibraryOperation(name, p) = Accept(valid, [op |-> "SetTempoMode", value |-> mode])
        BY <3>1 DEF LibraryOperation
      <4> HIDE DEF mode, valid
      <4>2. o = [op |-> "SetTempoMode", value |-> mode]
        BY <1>1, <4>1 DEF Accept
      <4> QED BY <4>2
    <3>2. CASE name = "setFavorite"
      BY <1>1, <3>2 DEF LibraryOperation, Accept
    <3>3. CASE name = "setModelPinned"
      BY <1>1, <3>3 DEF LibraryOperation, Accept
    <3>4. CASE name = "createSetlist"
      <4> DEFINE valid == PathComponent(p, "name", {"My Presets"})
      <4>1. LibraryOperation(name, p) = Accept(valid, [op |-> "CreateSetlist", name |-> p.name])
        BY <3>4 DEF LibraryOperation
      <4> HIDE DEF valid
      <4>2. o = [op |-> "CreateSetlist", name |-> p.name]
        BY <1>1, <4>1 DEF Accept
      <4> QED BY <4>2
    <3>5. CASE name = "deleteSetlist"
      <4> DEFINE valid == PathComponent(p, "name", {"My Presets"})
      <4>1. LibraryOperation(name, p) = Accept(valid, [op |-> "DeleteSetlist", name |-> p.name])
        BY <3>5 DEF LibraryOperation
      <4> HIDE DEF valid
      <4>2. o = [op |-> "DeleteSetlist", name |-> p.name]
        BY <1>1, <4>1 DEF Accept
      <4> QED BY <4>2
    <3> QED BY <1>1, <3>1, <3>2, <3>3, <3>4, <3>5 DEF LibraryNames
  <2> QED BY <2>1 DEF Shaped, PlainOps, OneFrameOps
<1>2. CASE name \in PresetFileNames /\ name \notin LibraryNames
  <2>1. o.op \in {"DeletePreset", "MovePreset"}
    BY <1>2 DEF PresetFileNames, PresetFileOperation, Accept
  <2> QED BY <2>1 DEF Shaped, OneFrameOps
<1> QED BY <1>1, <1>2

(* Captures and impulse responses.                                         *)
LEMMA FileBlockShaped ==
    ASSUME NEW name \in FileBlockNames, NEW p, WellFormed(name, p),
           NEW o \in FileBlockOperation(name, p)
    PROVE  Shaped(o)
<1>1. Single(Opt(p, "modelId"))
  <2>1. OptionalFields(name) = {"modelId"}
    BY DEF OptionalFields, FileBlockNames
  <2> QED BY <2>1 DEF WellFormed
<1>2. CASE name = "loadCapture"
  <2> DEFINE fields == [key |-> p.key, name |-> p.name, modelId |-> Opt(p, "modelId")]
  <2>1. o = At(p, "LoadCapture") ++ fields
    BY <1>2 DEF FileBlockOperation, Accept
  <2>2. o.op = "LoadCapture" /\ o.modelId = Opt(p, "modelId")
    BY <2>1 DEF ++, At
  <2> QED BY <1>1, <2>2 DEF Shaped
<1>3. CASE name = "loadIr"
  <2> DEFINE fields == [key |-> p.key, name |-> p.name, slot |-> p.slot,
                        modelId |-> Opt(p, "modelId")]
  <2>1. o = At(p, "LoadIr") ++ fields
    BY <1>3 DEF FileBlockOperation, Accept
  <2>2. o.op = "LoadIr" /\ o.modelId = Opt(p, "modelId")
    BY <2>1 DEF ++, At
  <2> QED BY <1>1, <2>2 DEF Shaped
<1> QED BY <1>2, <1>3 DEF FileBlockNames

(* The blocks of the grid; a footswitch may be assigned again.             *)
LEMMA BlockShaped ==
    ASSUME NEW name \in BlockNames, NEW p, NEW o \in BlockOperation(name, p)
    PROVE  Shaped(o) /\ (name = "setFootswitch" => Kept(o))
<1>1. CASE name = "addBlock"
  <2>1. o = At(p, "AddBlock") ++ [modelId |-> p.modelId]
    BY <1>1 DEF BlockOperation, Accept
  <2>2. o.op = "AddBlock"
    BY <2>1 DEF ++, At
  <2> QED BY <1>1, <2>2 DEF Shaped, OneFrameOps
<1>2. CASE name \in {"removeBlock", "moveBlock"}
  <2>1. o.op \in {"RemoveBlock", "MoveBlock"}
    BY <1>2 DEF BlockOperation, Accept, At
  <2> QED BY <1>2, <2>1 DEF Shaped, OneFrameOps
<1>3. CASE name = "setFootswitch"
  <2>1. o = At(p, "SetFootswitch") ++ [footswitch |-> Opt(p, "footswitch")]
    BY <1>3 DEF BlockOperation, Accept
  <2>2. o.op = "SetFootswitch"
    BY <2>1 DEF ++, At
  <2> QED BY <2>2 DEF Shaped, Kept
<1> QED BY <1>1, <1>2, <1>3 DEF BlockNames

(* The ends, the split and the mute of a chain.                            *)
LEMMA ChainKept ==
    ASSUME NEW name \in ChainNames, NEW p, NEW o \in ChainOperation(name, p)
    PROVE  Kept(o)
<1>1. o.op \in {"SetChainInput", "SetChainOutput", "SetChainSplit", "SetSplitMute"}
  BY DEF ChainNames, ChainOperation, Accept
<1> QED BY <1>1 DEF Kept, PlainOps

(* The parameters of routing and of lanes, and assignments.                *)
LEMMA ControlKept ==
    ASSUME NEW name \in ControlNames, NEW p, NEW o \in ControlOperation(name, p)
    PROVE  Kept(o)
<1>1. CASE name \in {"setRoutingParameter", "setLaneControlParameter",
                     "setLaneControlSceneMode"}
  <2>1. o.op \in {"SetRoutingParameter", "SetLaneControlParameter", "SetLaneControlSceneMode"}
    BY <1>1 DEF ControlOperation, Accept
  <2> QED BY <2>1 DEF Kept, PlainOps
<1>2. CASE name = "setParameterSceneMode"
  <2>1. o = At(p, "SetParameterSceneMode")
              ++ [parameterIndex |-> p.parameterIndex, value |-> p.enabled]
    BY <1>2 DEF ControlOperation, Accept
  <2>2. o.op = "SetParameterSceneMode"
    BY <2>1 DEF ++, At
  <2> QED BY <2>2 DEF Kept, PlainOps
<1>3. CASE name = "setParameterExpression"
  <2>1. o = At(p, "SetParameterExpression")
              ++ [parameterIndex |-> p.parameterIndex, pedal |-> p.pedal,
                  minimum |-> p.minimum, maximum |-> p.maximum]
    BY <1>3 DEF ControlOperation, Accept
  <2>2. o.op = "SetParameterExpression"
    BY <2>1 DEF ++, At
  <2> QED BY <2>2 DEF Kept, PlainOps
<1> QED BY <1>1, <1>2, <1>3 DEF ControlNames

(* Footswitches, MIDI out and pedals.                                      *)
LEMMA SwitchKept ==
    ASSUME NEW name \in SwitchNames, NEW p, NEW o \in SwitchOperation(name, p)
    PROVE  Kept(o)
<1>1. CASE name \in {"setStompMomentary", "setStompLabel", "setMidiOut", "setPresetLoadMidiOut"}
  <2>1. o.op \in {"SetStompMomentary", "SetStompLabel", "SetMidiOut", "SetPresetLoadMidiOut"}
    <3>1. CASE name = "setStompLabel"
      <4> DEFINE single == Opt(p, "single") = {TRUE}
                 valid == Given(p, "footswitch", Switches) /\ VisibleText(p, "label")
                 label == [op |-> "SetStompLabel", footswitch |-> p.footswitch,
                           value |-> p.label, single |-> single]
      <4>1. SwitchOperation(name, p) = Accept(valid, label)
        BY <3>1 DEF SwitchOperation
      <4> HIDE DEF single, valid
      <4>2. o = label
        BY <4>1 DEF Accept
      <4> QED BY <4>2
    <3>2. CASE name # "setStompLabel"
      BY <1>1, <3>2 DEF SwitchOperation, Accept
    <3> QED BY <3>1, <3>2
  <2> QED BY <2>1 DEF Kept, PlainOps
<1>2. CASE name = "setExpressionBypass"
  <2>1. o = At(p, "SetExpressionBypass")
              ++ [pedal |-> p.pedal, mode |-> p.mode, invert |-> p.invert,
                  delayMs |-> p.delayMs, latchEmulation |-> p.latchEmulation]
    BY <1>2 DEF SwitchOperation, Accept
  <2>2. o.op = "SetExpressionBypass"
    BY <2>1 DEF ++, At
  <2> QED BY <2>2 DEF Kept, PlainOps
<1> QED BY <1>1, <1>2 DEF SwitchNames

(* Scenes: copied, named and colored.                                      *)
LEMMA SceneShaped ==
    ASSUME NEW name \in SceneNames, NEW p, NEW o \in SceneOperation(name, p)
    PROVE  Shaped(o)
<1>1. o.op \in {"CopyScene", "SetSceneLabel", "SetSceneColor"}
  <2>1. CASE name = "copyScene"
    <3> DEFINE swap == Opt(p, "swap") = {TRUE}
               valid == Given(p, "fromScene", Switches) /\ Given(p, "toScene", Switches)
               copy == [op |-> "CopyScene", from |-> p.fromScene, to |-> p.toScene,
                        swap |-> swap]
    <3>1. SceneOperation(name, p) = Accept(valid, copy)
      BY <2>1 DEF SceneOperation
    <3> HIDE DEF swap, valid
    <3>2. o = copy
      BY <3>1 DEF Accept
    <3> QED BY <3>2
  <2>2. CASE name # "copyScene"
    BY <2>2 DEF SceneNames, SceneOperation, Accept
  <2> QED BY <2>1, <2>2
<1> QED BY <1>1 DEF Shaped, PlainOps, OneFrameOps

(* The names of operations of which each may be repeated.                  *)
KeptNames == ChainNames \cup ControlNames \cup SwitchNames \cup {"setFootswitch"}

(* Every operation a caller may name.                                      *)
LEMMA OperationShaped ==
    ASSUME NEW name, NEW p, WellFormed(name, p), NEW o \in Operation(name, p)
    PROVE  Shaped(o) /\ (name \in KeptNames => Kept(o))
<1>1. CASE name \in TunerNames \cup GeneralNames
  <2>1. o \in IF name \in TunerNames THEN TunerOperation(name, p) ELSE GeneralOperation(name, p)
    BY <1>1 DEF Operation, TunerNames, GeneralNames, PortNames, EqNames, LibraryNames,
                PresetFileNames, FileBlockNames, BlockNames, ChainNames, ControlNames,
                SwitchNames, SceneNames
  <2>2. name \notin KeptNames
    BY <1>1 DEF KeptNames, TunerNames, GeneralNames, ChainNames, ControlNames, SwitchNames
  <2> QED BY <1>1, <2>1, <2>2, SettingShaped
<1>2. CASE name \in PortNames \cup EqNames
  <2>1. IF name \in PortNames THEN o \in PortOperation(name, p) ELSE o \in EqOperation(name, p)
    BY <1>2 DEF Operation, TunerNames, GeneralNames, PortNames, EqNames, LibraryNames,
                PresetFileNames, FileBlockNames, BlockNames, ChainNames, ControlNames,
                SwitchNames, SceneNames
  <2>2. name \notin KeptNames
    BY <1>2 DEF KeptNames, PortNames, EqNames, ChainNames, ControlNames, SwitchNames
  <2> QED BY <1>2, <2>1, <2>2, PortShaped, EqShaped
<1>3. CASE name = "setModeCycle"
  <2>1. o.op = "SetModeCycle"
    BY <1>3 DEF Operation, TunerNames, GeneralNames, PortNames, EqNames, LibraryNames,
                PresetFileNames, FileBlockNames, BlockNames, ChainNames, ControlNames,
                SwitchNames, SceneNames, ModeCycleOperation, Accept
  <2>2. name \notin KeptNames
    BY <1>3 DEF KeptNames, ChainNames, ControlNames, SwitchNames
  <2> QED BY <2>1, <2>2 DEF Shaped, PlainOps
<1>4. CASE name = "setTempoMetronome"
  <2>1. o \in MetronomeOperation(p)
    BY <1>4 DEF Operation, TunerNames, GeneralNames, PortNames, EqNames, LibraryNames,
                PresetFileNames, FileBlockNames, BlockNames, ChainNames, ControlNames,
                SwitchNames, SceneNames
  <2>2. name \notin KeptNames
    BY <1>4 DEF KeptNames, ChainNames, ControlNames, SwitchNames
  <2> QED BY <1>4, <2>1, <2>2, MetronomeShaped
<1>5. CASE name \in LibraryNames \cup PresetFileNames
  <2>1. o \in IF name \in LibraryNames THEN LibraryOperation(name, p)
              ELSE PresetFileOperation(name, p)
    BY <1>5 DEF Operation, TunerNames, GeneralNames, PortNames, EqNames, LibraryNames,
                PresetFileNames, FileBlockNames, BlockNames, ChainNames, ControlNames,
                SwitchNames, SceneNames
  <2>2. name \notin KeptNames
    BY <1>5 DEF KeptNames, LibraryNames, PresetFileNames, ChainNames, ControlNames, SwitchNames
  <2> QED BY <1>5, <2>1, <2>2, LibraryShaped
<1>6. CASE name \in FileBlockNames
  <2>1. o \in FileBlockOperation(name, p)
    BY <1>6 DEF Operation, TunerNames, GeneralNames, PortNames, EqNames, LibraryNames,
                PresetFileNames, FileBlockNames, BlockNames, ChainNames, ControlNames,
                SwitchNames, SceneNames
  <2>2. name \notin KeptNames
    BY <1>6 DEF KeptNames, FileBlockNames, ChainNames, ControlNames, SwitchNames
  <2> QED BY <1>6, <2>1, <2>2, FileBlockShaped
<1>7. CASE name \in BlockNames
  <2>1. o \in BlockOperation(name, p)
    BY <1>7 DEF Operation, TunerNames, GeneralNames, PortNames, EqNames, LibraryNames,
                PresetFileNames, FileBlockNames, BlockNames, ChainNames, ControlNames,
                SwitchNames, SceneNames
  <2>2. name \in KeptNames => name = "setFootswitch"
    BY <1>7 DEF KeptNames, BlockNames, ChainNames, ControlNames, SwitchNames
  <2> QED BY <1>7, <2>1, <2>2, BlockShaped
<1>8. CASE name \in ChainNames \cup ControlNames \cup SwitchNames
  <2>1. \/ name \in ChainNames /\ o \in ChainOperation(name, p)
        \/ name \in ControlNames /\ o \in ControlOperation(name, p)
        \/ name \in SwitchNames /\ o \in SwitchOperation(name, p)
    BY <1>8 DEF Operation, TunerNames, GeneralNames, PortNames, EqNames, LibraryNames,
                PresetFileNames, FileBlockNames, BlockNames, ChainNames, ControlNames,
                SwitchNames, SceneNames
  <2>2. Kept(o)
    BY <2>1, ChainKept, ControlKept, SwitchKept
  <2> QED BY <2>2, KeptShaped
<1>9. CASE name \in SceneNames \cup {"savePreset"}
  <2>1. \/ name \in SceneNames /\ o \in SceneOperation(name, p)
        \/ o \in SavePresetOperation(p)
    BY <1>9 DEF Operation, TunerNames, GeneralNames, PortNames, EqNames, LibraryNames,
                PresetFileNames, FileBlockNames, BlockNames, ChainNames, ControlNames,
                SwitchNames, SceneNames
  <2>2. name \notin KeptNames
    BY <1>9 DEF KeptNames, SceneNames, ChainNames, ControlNames, SwitchNames
  <2>3. ASSUME o \in SavePresetOperation(p) PROVE Shaped(o)
    <3>1. o.op = "SavePreset"
      BY <2>3 DEF SavePresetOperation, Accept
    <3> QED BY <3>1 DEF Shaped, OneFrameOps
  <2> QED BY <2>1, <2>2, <2>3, SceneShaped
<1>10. \/ name \in TunerNames \cup GeneralNames \/ name \in PortNames \cup EqNames
       \/ name \in {"setModeCycle", "setTempoMetronome", "savePreset"}
       \/ name \in LibraryNames \cup PresetFileNames \/ name \in FileBlockNames
       \/ name \in BlockNames \/ name \in ChainNames \cup ControlNames \cup SwitchNames
       \/ name \in SceneNames
  BY DEF Operation
<1> QED BY <1>1, <1>2, <1>3, <1>4, <1>5, <1>6, <1>7, <1>8, <1>9, <1>10

(* The commands for scenes, bypass, tempo and volume.                      *)
LEMMA CommandKept ==
    ASSUME NEW method \in {"selectScene", "command.scene", "toggleBypass", "command.bypass",
                           "setTempo", "command.tempo", "setMasterVolume"},
           NEW p, NEW plan \in PlanCommand(method, p)
    PROVE  Kept(plan.write)
<1>1. CASE method \in {"selectScene", "command.scene"}
  <2>1. plan.write.op = "SelectScene"
    BY <1>1 DEF PlanCommand, Planned, Accept
  <2> QED BY <2>1 DEF Kept, PlainOps, Commands
<1>2. CASE method \in {"toggleBypass", "command.bypass"}
  <2> DEFINE field == IF method = "toggleBypass" THEN "desiredBypassed" ELSE "bypassed"
             o == At(p, "SetBypass") ++ [value |-> p[field]]
             valid == Row(p) /\ Column(p, "column") /\ Flag(p, field)
  <2>1. plan.write \in Accept(valid, o)
    BY <1>2 DEF PlanCommand, Planned
  <2>2. o.op = "SetBypass"
    BY DEF ++, At
  <2> HIDE DEF o, valid
  <2>3. plan.write.op = "SetBypass"
    BY <2>1, <2>2 DEF Accept
  <2> QED BY <2>3 DEF Kept, PlainOps, Commands
<1>3. CASE method \in {"setTempo", "command.tempo"}
  <2>1. plan.write.op = "SetTempo"
    BY <1>3 DEF PlanCommand, Planned, Accept
  <2> QED BY <2>1 DEF Kept, PlainOps, Commands
<1>4. CASE method = "setMasterVolume"
  <2>1. plan.write.op = "SetMasterVolume"
    BY <1>4 DEF PlanCommand, Planned, Accept
  <2> QED BY <2>1 DEF Kept, PlainOps, Commands
<1> QED BY <1>1, <1>2, <1>3, <1>4

(* A parameter of a block or of a lane.                                    *)
LEMMA ParameterKept ==
    ASSUME NEW method, NEW p, NEW plan \in PlanParameter(method, p)
    PROVE  Kept(plan.write)
<1> DEFINE node == p.column >= GridColumns
           text == "text" \in DOMAIN p
           routing == [op |-> "SetRoutingParameter", row |-> p.row,
                       node |-> IF p.column = GridColumns THEN "splitter" ELSE "mixer",
                       parameterIndex |-> p.parameterIndex, value |-> p.value]
           texted == At(p, "SetParameterText")
                       ++ [parameterIndex |-> p.parameterIndex, value |-> p.text]
           numeric == At(p, "SetParameterNumeric")
                        ++ [parameterIndex |-> p.parameterIndex, value |-> p.value]
           write == CASE node -> routing [] ~node /\ text -> texted [] ~node /\ ~text -> numeric
           valid == /\ NodeColumn(p) /\ Natural(p, "parameterIndex")
                    /\ node => ~text
                    /\ ~text => Normalized(p, "value")
           Seen(o) == IF method = "previewParameter" THEN None
                      ELSE [kind |-> "Parameter", target |-> <<p.row, p.column, p.parameterIndex>>,
                            value |-> IF "value" \in DOMAIN p THEN p.value ELSE Zero]
           ops == Accept(valid, write)
<1>0. PlanParameter(method, p) = {[write |-> o, verification |-> Seen(o)] : o \in ops}
  BY DEF PlanParameter, Planned
<1>1. plan.write \in ops
  <2> HIDE DEF ops, Seen
  <2> QED BY <1>0
<1>2. routing.op = "SetRoutingParameter" /\ texted.op = "SetParameterText"
        /\ numeric.op = "SetParameterNumeric"
  BY DEF ++, At
<1> HIDE DEF node, text, routing, texted, numeric, valid
<1>3. plan.write = write
  BY <1>1 DEF Accept
<1>4. write \in {routing, texted, numeric}
  OBVIOUS
<1>5. plan.write.op \in {"SetRoutingParameter", "SetParameterText", "SetParameterNumeric"}
  BY <1>2, <1>3, <1>4
<1> QED BY <1>5 DEF Kept, PlainOps, Commands

(* A footswitch that is made momentary or named.                           *)
LEMMA StompKept ==
    ASSUME NEW method \in {"setStompMomentary", "setStompLabel"}, NEW p, NEW snap,
           NEW plan \in PlanStomp(method, p, snap)
    PROVE  Kept(plan.write)
<1> DEFINE labelled == IF method = "setStompLabel" /\ Given(p, "footswitch", Switches)
                       THEN [single |-> {Driven(snap, p.footswitch) = 1}] ++ p ELSE p
           Seen(o) == VerificationFor(o, <<>>, snap)
           Held(o) == method = "setStompMomentary" => Driven(snap, o.footswitch) = 1
           ops == SwitchOperation(method, labelled)
<1>0. PlanStomp(method, p, snap) =
        {[write |-> o, verification |-> Seen(o)] : o \in {q \in ops : Held(q)}}
  BY DEF PlanStomp, Planned
<1> HIDE DEF labelled
<1>1. plan.write \in ops
  <2> HIDE DEF ops, Held, Seen
  <2> QED BY <1>0
<1>2. method \in SwitchNames
  BY DEF SwitchNames
<1> QED BY <1>1, <1>2, SwitchKept

(* The performance controls.                                               *)
LEMMA HostMidiKept ==
    ASSUME NEW method \in HostMidiMethods, NEW p, NEW o \in PlanHostMidi(method, p)
    PROVE  Kept(o)
<1>1. o.op = "Midi"
  BY DEF HostMidiMethods, PlanHostMidi, Accept, ControlChange, Shown
<1> QED BY <1>1 DEF Kept

(* The methods of writes, by what plans them, and the operation that a     *)
(* method names.                                                           *)
Operated == Settings \cup Library \cup Assignments \cup Verified
              \cup {"setLaneControlParameter", "previewLaneControlParameter", "command.operation"}
Commanded == {"selectScene", "command.scene", "toggleBypass", "command.bypass", "setTempo",
              "command.tempo", "setMasterVolume"}
Adjusted == {"setParameter", "previewParameter", "command.parameter"}
Stomped == {"setStompMomentary", "setStompLabel"}
Written == Operated \cup Commanded \cup Adjusted \cup Stomped \cup HostMidiMethods
             \cup {"setDeviceName"}
NameOf(method, p) ==
    CASE method = "setBlockFootswitch" -> "setFootswitch"
      [] method = "previewLaneControlParameter" -> "setLaneControlParameter"
      [] method = "command.operation" -> p.operation
      [] OTHER -> method

(* Whatever a method plans is shaped, and what a method plans that may be  *)
(* repeated is of the operations that may (plan_gateway_write,             *)
(* gateway_write_retryable).                                               *)
LEMMA PlanShaped ==
    ASSUME NEW method \in Written, NEW p, NEW expected, NEW snap,
           WellFormed(IF method = "command.operation" THEN p.operation ELSE method, p),
           NEW plan \in PlanGatewayWrite(method, p, expected, snap)
    PROVE  Shaped(plan.write) /\ (method \in Retryable => Kept(plan.write))
<1> USE DEF Settings, Library, Assignments, Verified, HostMidiMethods, TunerNames, GeneralNames,
            PortNames, EqNames, LibraryNames, PresetFileNames, FileBlockNames
<1>1. CASE method \in Operated
  <2>1. plan.write \in Operation(NameOf(method, p), p)
    BY <1>1 DEF PlanGatewayWrite, Planned, NameOf, Operated
  <2>2. WellFormed(NameOf(method, p), p)
    BY <1>1 DEF NameOf, WellFormed, OptionalFields
  <2>3. method \in Retryable => NameOf(method, p) \in KeptNames
    BY <1>1 DEF NameOf, Operated, Retryable, KeptNames, ChainNames, ControlNames, SwitchNames
  <2> QED BY <2>1, <2>2, <2>3, OperationShaped
<1>2. CASE method \in Commanded
  <2>1. plan \in PlanCommand(method, p)
    BY <1>2 DEF PlanGatewayWrite, Commanded
  <2> QED BY <1>2, <2>1, CommandKept, KeptShaped DEF Commanded
<1>3. CASE method \in Adjusted
  <2>1. plan \in PlanParameter(method, p)
    BY <1>3 DEF PlanGatewayWrite, Adjusted
  <2> QED BY <2>1, ParameterKept, KeptShaped
<1>4. CASE method \in Stomped
  <2>1. plan \in PlanStomp(method, p, snap)
    BY <1>4 DEF PlanGatewayWrite, Stomped
  <2> QED BY <1>4, <2>1, StompKept, KeptShaped DEF Stomped
<1>5. CASE method \in HostMidiMethods
  <2>1. plan.write \in PlanHostMidi(method, p)
    BY <1>5 DEF PlanGatewayWrite, Planned
  <2> QED BY <1>5, <2>1, HostMidiKept, KeptShaped
<1>6. CASE method = "setDeviceName"
  <2>1. plan.write.op = "SetDeviceName"
    BY <1>6 DEF PlanGatewayWrite, Planned, Accept
  <2> QED BY <1>6, <2>1 DEF Shaped, PlainOps, Retryable
<1> QED BY <1>1, <1>2, <1>3, <1>4, <1>5, <1>6 DEF Written

(* The cases above are all the methods of writes.                          *)
LEMMA MethodsWritten == WriteMethods \subseteq Written
BY DEF WriteMethods, Written, Operated, Commanded, Adjusted, Stomped, Realtime, CommandMethods,
       Inspects, HostMidiMethods

(* The frames of a call's plan are writes, and those of a call that may be *)
(* repeated are of the operations that may.                                *)
LEMMA CallFrames ==
    ASSUME NEW i \in DOMAIN Calls, Calls[i].method \notin ReadMethods, NEW expected, NEW snap,
           NEW plan \in Plan(Calls[i].method, Calls[i].p, expected, snap)
    PROVE  /\ AreWrites(Frames(plan.write))
           /\ Calls[i].method \in Retryable => Kept(plan.write)
<1> DEFINE method == Calls[i].method
           p == Calls[i].p
<1>1. method \in Written
  BY CallAssumption, MethodsWritten
<1>2. WellFormed(IF method = "command.operation" THEN p.operation ELSE method, p)
  BY CallAssumption
<1>3. plan \in PlanGatewayWrite(method, p, expected, snap)
  BY DEF Plan
<1> HIDE DEF method, p
<1>4. Shaped(plan.write) /\ (method \in Retryable => Kept(plan.write))
  BY <1>1, <1>2, <1>3, PlanShaped
<1> QED BY <1>4, ShapedFrames DEF method

(* The continuation of a call reads something once at most, and reading is *)
(* all that it does.                                                       *)
LEMMA ContinuationReads ==
    ASSUME NEW i \in DOMAIN Calls, Calls[i].method \notin ReadMethods, NEW plan
    PROVE  LET reads == Continuation(Calls[i].method, plan).reads
           IN  \/ reads = {}
               \/ \E type \in Nat : type \notin {4, 20, 25} /\ reads = {Asking(Read(type), {}, {})}
<1> DEFINE method == Calls[i].method
           reads == Continuation(method, plan).reads
           Plainly(s) == \E type \in Nat : /\ type \notin {4, 20, 25}
                                           /\ s = {Asking(Read(type), {}, {})}
<1>1. ASSUME NEW m \in {"identity", "tunerSettings", "generalSettings", "ioSettings", "modeCycle",
                        "globalEq", "globalTempoSettings"}
      PROVE  Plainly(SettingsRead(m))
  <2> DEFINE type == ReadTypes[m]
  <2>1. type \in Nat /\ type \notin {4, 20, 25} /\ m \in DOMAIN ReadTypes
    BY <1>1 DEF ReadTypes
  <2>2. SettingsRead(m) = {Asking(Read(type), {}, {})}
    BY <2>1 DEF SettingsRead, PlanGatewayRead
  <2> HIDE DEF type
  <2> QED BY <2>1, <2>2
<1>2. Plainly({PresetRead})
  BY DEF PresetRead
<1> HIDE DEF Plainly
<1>3. CASE method \in Assignments \cup Realtime \cup CommandMethods
  BY <1>3 DEF Continuation, Assignments, Realtime, CommandMethods
<1>4. CASE method = "setDeviceName"
  <2>1. reads = SettingsRead("identity")
    BY <1>4 DEF Continuation, Assignments, Realtime, CommandMethods
  <2> QED BY <1>1, <2>1 DEF Plainly
<1>5. CASE method \notin Assignments \cup Realtime \cup CommandMethods \cup {"setDeviceName"}
  <2>1. reads \in {{PresetRead}, {}, UNION {SettingsRead(m) : m \in ReadbackMethod(method)}}
    BY <1>5 DEF Continuation
  <2>2. \/ ReadbackMethod(method) = {}
        \/ \E m \in {"identity", "tunerSettings", "generalSettings", "ioSettings", "modeCycle",
                     "globalEq", "globalTempoSettings"} : ReadbackMethod(method) = {m}
    BY DEF ReadbackMethod
  <2>3. ASSUME NEW m, ReadbackMethod(method) = {m}
        PROVE  UNION {SettingsRead(n) : n \in ReadbackMethod(method)} = SettingsRead(m)
    BY <2>3
  <2>4. UNION {SettingsRead(n) : n \in {}} = {}
    OBVIOUS
  <2> QED BY <1>1, <1>2, <2>1, <2>2, <2>3, <2>4 DEF Plainly
<1> QED BY <1>3, <1>4, <1>5 DEF Plainly

-----------------------------------------------------------------------------
(***************************************************************************)
(* The frames on their way to the device, and the call that goes on        *)
(***************************************************************************)
(* Reads and writes in a sequence, and reads only.                         *)
Queue(s) == \E S : s \in Seq(S) /\ \A f \in S : f.action = "Read" \/ WriteFrame(f)
OnlyReads(s) == \E S : s \in Seq(S) /\ \A f \in S : f.action = "Read"

(* A queue after a queue.                                                  *)
LEMMA QueueConcat ==
    ASSUME NEW s, NEW t, Queue(s), Queue(t)
    PROVE  Queue(s \o t)
<1>1. PICK S : s \in Seq(S) /\ \A f \in S : f.action = "Read" \/ WriteFrame(f)
  BY DEF Queue
<1>2. PICK T : t \in Seq(T) /\ \A f \in T : f.action = "Read" \/ WriteFrame(f)
  BY DEF Queue
<1> DEFINE U == S \cup T
<1>3. s \in Seq(U) /\ t \in Seq(U)
  <2>1. ASSUME NEW A, NEW B, NEW x \in Seq(A) PROVE x \in Seq(A \cup B)
    OBVIOUS
  <2> QED BY <1>1, <1>2, <2>1
<1>4. \A f \in U : f.action = "Read" \/ WriteFrame(f)
  BY <1>1, <1>2
<1> HIDE DEF U
<1>5. s \o t \in Seq(U)
  BY <1>3
<1> QED BY <1>4, <1>5 DEF Queue

(* What is a queue, and what a queue leaves when its first frame is gone.  *)
LEMMA QueueParts ==
    ASSUME NEW s
    PROVE  /\ AreWrites(s) \/ OnlyReads(s) => Queue(s)
           /\ Queue(s) => IsSeq(s)
           /\ Queue(s) /\ s # <<>> =>
                Queue(Tail(s)) /\ (Head(s).action = "Read" \/ WriteFrame(Head(s)))
<1>1. ASSUME AreWrites(s) PROVE Queue(s)
  BY <1>1 DEF AreWrites, Queue
<1>2. ASSUME OnlyReads(s) PROVE Queue(s)
  BY <1>2 DEF OnlyReads, Queue
<1>3. ASSUME Queue(s) PROVE IsSeq(s)
  BY <1>3 DEF Queue, IsSeq
<1>4. ASSUME Queue(s), s # <<>>
      PROVE  Queue(Tail(s)) /\ (Head(s).action = "Read" \/ WriteFrame(Head(s)))
  <2>1. PICK S : s \in Seq(S) /\ \A f \in S : f.action = "Read" \/ WriteFrame(f)
    BY <1>4 DEF Queue
  <2>2. Tail(s) \in Seq(S) /\ Head(s) \in S
    BY <1>4, <2>1
  <2> QED BY <2>1, <2>2 DEF Queue
<1> QED BY <1>1, <1>2, <1>3, <1>4

(* The reads that follow a write only ask.                                 *)
LEMMA ReadsListed ==
    ASSUME NEW reads, \/ reads = {}
                      \/ \E type \in Nat : /\ type \notin {4, 20, 25}
                                           /\ reads = {Asking(Read(type), {}, {})}
    PROVE  OnlyReads(SetToSeq({read.frame : read \in reads}))
<1> DEFINE S == {read.frame : read \in reads}
<1>1. \A v, w \in S : v = w
  OBVIOUS
<1>2. \A f \in S : f.action = "Read"
  BY DEF Asking, Read, Frame
<1> HIDE DEF S
<1>3. SetToSeq(S) \in Seq(S)
  BY <1>1, Singular, Listed
<1> QED BY <1>2, <1>3 DEF OnlyReads, S

(* Running a sequence of reads changes nothing.                            *)
LEMMA RunReading ==
    ASSUME NEW d, NEW s, OnlyReads(s)
    PROVE  IsSeq(s) /\ Run(d, s) = d
<1>1. PICK S : s \in Seq(S) /\ \A f \in S : f.action = "Read"
  BY DEF OnlyReads
<1>2. IsSeq(s) /\ \A k \in 1 .. Len(s) : s[k].action = "Read"
  BY <1>1 DEF IsSeq
<1> QED BY <1>2, RunReads

(* The fields of a call, and those that stay while it goes on.             *)
CallFields == DOMAIN call = DOMAIN NoCall
SameCall ==
    /\ DOMAIN call' = DOMAIN NoCall
    /\ call'.number = call.number /\ call'.frames = call.frames /\ call'.before = call.before
    /\ call'.ignored = call.ignored /\ call'.touched = call.touched
    /\ call'.readback = call.readback /\ call'.crossed = call.crossed

(* A call that goes on, or is answered, is of the same frames.             *)
LEMMA CallGoesOn ==
    ASSUME CallFields,
           DecodePush \/ Verify \/ Confirm \/ CheckAssignment \/ GiveUp \/ RaiseRaw \/ ExecuteFrame
    PROVE  SameCall
<1> USE DEF CallFields, NoCall
<1>0. ASSUME NEW answer PROVE
        LET c == Answered(answer)
        IN  /\ DOMAIN c = DOMAIN NoCall
            /\ c.number = call.number /\ c.frames = call.frames /\ c.before = call.before
            /\ c.ignored = call.ignored /\ c.touched = call.touched
            /\ c.readback = call.readback /\ c.crossed = call.crossed
  BY DEF Answered
<1>1. CASE DecodePush
  <2> DEFINE news == call.news \/ /\ call.phase \in {"preset", "verifying"}
                                  /\ Announced(Head(lane))
  <2>1. call' = [call EXCEPT !.news = news]
    BY <1>1 DEF DecodePush
  <2> HIDE DEF news
  <2> QED BY <2>1 DEF SameCall
<1>2. CASE Verify
  <2>1. \/ call' = [call EXCEPT !.news = FALSE]
        \/ call' = [call EXCEPT !.phase = "confirming", !.news = FALSE]
        \/ call' = Answered("verified")
    BY <1>2 DEF Verify
  <2> QED BY <1>0, <2>1 DEF SameCall
<1>3. CASE Confirm
  <2>1. \E answer : call' = Answered(answer)
    BY <1>3 DEF Confirm
  <2> QED BY <1>0, <2>1 DEF SameCall
<1>4. CASE CheckAssignment
  <2>1. \E answer : call' = Answered(answer)
    BY <1>4 DEF CheckAssignment
  <2> QED BY <1>0, <2>1 DEF SameCall
<1>5. CASE GiveUp
  <2>1. \E answer : call' = Answered(answer)
    BY <1>5 DEF GiveUp
  <2> QED BY <1>0, <2>1 DEF SameCall
<1>6. CASE RaiseRaw
  <2>1. \/ \E answer, found : call' = [Answered(answer) EXCEPT !.reading = found]
        \/ \E answer : call' = Answered(answer)
        \/ call' = [call EXCEPT !.phase = "verifying"]
        \/ call' = call
    BY <1>6 DEF RaiseRaw
  <2>2. ASSUME NEW answer, NEW found, call' = [Answered(answer) EXCEPT !.reading = found]
        PROVE  SameCall
    BY <1>0, <2>2 DEF SameCall
  <2> QED BY <1>0, <2>1, <2>2 DEF SameCall
<1>7. CASE ExecuteFrame
  BY <1>7 DEF ExecuteFrame, SameCall
<1> QED BY <1>1, <1>2, <1>3, <1>4, <1>5, <1>6, <1>7

(* What a call is when it has begun: the frames it has sent land after     *)
(* those that were on their way, and only reads come after them.           *)
LEMMA SendCalls ==
    ASSUME NEW i \in DOMAIN Calls, Calls[i].method \notin ReadMethods, NEW plan, NEW stale,
           Send(i, plan, stale)
    PROVE  LET next == Continuation(Calls[i].method, plan)
           IN  \E reads : /\ toDevice' = toDevice \o Frames(plan.write) \o reads
                          /\ OnlyReads(reads)
                          /\ DOMAIN call' = DOMAIN NoCall
                          /\ call'.number = i /\ call'.frames = Frames(plan.write)
                          /\ call'.before = Run(device, toDevice)
                          /\ call'.phase = next.phase /\ call'.readback = next.reads
<1> DEFINE next == Continuation(Calls[i].method, plan)
           reads == SetToSeq({read.frame : read \in next.reads})
           answer == IF next.phase = "idle" THEN "accepted" ELSE "none"
           crossed == Crossed(next.reads)
<1>1. OnlyReads(reads)
  BY ContinuationReads, ReadsListed
<1>2. toDevice' = toDevice \o Frames(plan.write) \o reads
  BY DEF Send, Frames
<1>3. call' = [NoCall EXCEPT !.phase = next.phase, !.number = i, !.stale = stale,
                             !.answer = answer, !.before = Run(device, toDevice),
                             !.frames = Frames(plan.write), !.verification = plan.verification,
                             !.readback = next.reads, !.crossed = crossed]
  BY DEF Send, Frames
<1> HIDE DEF reads, answer, crossed
<1>4. /\ DOMAIN call' = DOMAIN NoCall
      /\ call'.number = i /\ call'.frames = Frames(plan.write)
      /\ call'.before = Run(device, toDevice)
      /\ call'.phase = next.phase /\ call'.readback = next.reads
  <2> HIDE DEF next
  <2> QED BY <1>3 DEF NoCall
<1> QED BY <1>1, <1>2, <1>4

(* What a call is when it has been refused.                                *)
LEMMA RefuseCalls ==
    ASSUME NEW i, NEW stale, Refuse(i, stale)
    PROVE  /\ toDevice' = toDevice /\ DOMAIN call' = DOMAIN NoCall
           /\ call'.number = i /\ call'.frames = <<>> /\ call'.before = Run(device, toDevice)
           /\ call'.phase = "idle" /\ call'.answer = "refused" /\ call'.readback = {}
BY DEF Refuse, NoCall

(* What a read is when it has begun.                                       *)
LEMMA ReadCalls ==
    ASSUME NEW i, NEW read, BeginRead(i),
           toDevice' = Append(toDevice, read.frame),
           call' = [NoCall EXCEPT !.phase = "settings", !.number = i,
                                  !.before = Run(device, toDevice), !.readback = {read},
                                  !.crossed = Crossed({read})]
    PROVE  /\ DOMAIN call' = DOMAIN NoCall
           /\ call'.number = i /\ call'.frames = <<>> /\ call'.before = Run(device, toDevice)
           /\ call'.phase = "settings" /\ call'.answer = "none" /\ call'.readback = {read}
           /\ call'.crossed = Crossed({read}) /\ ~call'.ignored
<1> DEFINE crossed == Crossed({read})
<1>1. call' = [NoCall EXCEPT !.phase = "settings", !.number = i,
                             !.before = Run(device, toDevice), !.readback = {read},
                             !.crossed = crossed]
  OBVIOUS
<1> HIDE DEF crossed
<1>2. /\ DOMAIN call' = DOMAIN NoCall
      /\ call'.number = i /\ call'.frames = <<>> /\ call'.before = Run(device, toDevice)
      /\ call'.phase = "settings" /\ call'.answer = "none" /\ call'.readback = {read}
      /\ call'.crossed = crossed /\ ~call'.ignored
  BY <1>1 DEF NoCall
<1> QED BY <1>2 DEF crossed

(* A read frame only asks.                                                 *)
LEMMA ReadPlans ==
    ASSUME NEW method \in ReadMethods, NEW p, NEW id, NEW read \in PlanGatewayRead(method, p, id)
    PROVE  read.frame.action = "Read"
<1>1. CASE method \in DOMAIN ReadTypes
  <2>1. method \notin {"recents", "favorites", "captures", "irs", "presetScreenshot"}
    BY <1>1 DEF ReadTypes
  <2>2. read = Asking(Read(ReadTypes[method]), {}, {})
    BY <1>1, <2>1 DEF PlanGatewayRead
  <2> QED BY <2>2 DEF Asking, Read, Frame
<1>2. CASE method \in {"recents", "favorites"}
  <2>1. PICK favorites : read = Asking(ReadRecentsFavorites(favorites, id), {id}, {})
    BY <1>2 DEF PlanGatewayRead, ReadTypes
  <2> QED BY <2>1 DEF Asking, ReadRecentsFavorites, Frame
<1>3. CASE method \in {"captures", "irs"}
  <2>1. read \in PlanLibraryFiles(method, p, id)
    BY <1>3 DEF PlanGatewayRead, ReadTypes
  <2>2. PICK type, ids, target, folder : read = Asking(ReadLibraryFiles(type, ids), target, folder)
    BY <2>1 DEF PlanLibraryFiles, Accept
  <2> QED BY <2>2 DEF Asking, ReadLibraryFiles, Frame
<1>4. CASE method = "presetScreenshot"
  <2>1. read \in PlanScreenshot(p, id)
    BY <1>4 DEF PlanGatewayRead, ReadTypes
  <2>2. PICK target : read = Asking(PresetScreenshot(p.folderName, p.position, p.isFactory, id),
                                    {id}, target)
    BY <2>1 DEF PlanScreenshot, Accept
  <2> QED BY <2>2 DEF Asking, PresetScreenshot, Frame
<1> QED BY <1>1, <1>2, <1>3, <1>4 DEF ReadMethods

-----------------------------------------------------------------------------
(***************************************************************************)
(* What is under way and what the call has sent come to the same           *)
(***************************************************************************)
(* Running what is under way comes to what the call's frames come to on    *)
(* the device the call found, as long as nothing interferes.               *)
Landing ==
    /\ CallFields /\ Queue(toDevice) /\ IsSeq(call.frames)
    /\ call.number # 0 /\ Undisturbed =>
         Run(device, toDevice) = Run(call.before, call.frames)

(* At first no call has been made.                                         *)
LEMMA LandingInit == Init => Landing
<1> SUFFICES ASSUME Init PROVE Landing
  OBVIOUS
<1>1. call = NoCall /\ toDevice = <<>>
  BY DEF Init
<1>2. IsSeq(<<>>) /\ Queue(<<>>)
  BY WritesNone, QueueParts
<1> QED BY <1>1, <1>2 DEF Landing, CallFields, NoCall

(* A call appends its frames to those that were under way, and executing   *)
(* the first of the queue changes neither side.                            *)
LEMMA LandingNext == Landing /\ [Next]_pathVars => Landing'
<1> SUFFICES ASSUME Landing, [Next]_pathVars PROVE Landing'
  OBVIOUS
<1>1. IsSeq(toDevice)
  BY QueueParts DEF Landing
<1>2. ASSUME NEW i \in DOMAIN Calls, NEW stale, Begin(i, stale) PROVE Landing'
  <2>0. Calls[i].method \notin ReadMethods /\ device' = device
    BY <1>2 DEF Begin
  <2>1. CASE Refuse(i, stale)
    <3>1. /\ toDevice' = toDevice /\ DOMAIN call' = DOMAIN NoCall
          /\ call'.frames = <<>> /\ call'.before = Run(device, toDevice)
      BY <2>1, RefuseCalls
    <3>2. IsSeq(<<>>) /\ Run(call'.before, <<>>) = call'.before
      BY WritesNone, QueueParts, RunNothing
    <3>3. Run(device', toDevice') = Run(call'.before, call'.frames)
      BY <2>0, <3>1, <3>2
    <3> QED BY <3>1, <3>2, <3>3 DEF Landing, CallFields
  <2>2. CASE ~Refuse(i, stale)
    <3>1. PICK expected, plan :
            /\ plan \in Plan(Calls[i].method, Calls[i].p, expected, client.snap)
            /\ Send(i, plan, stale)
      BY <1>2, <2>2 DEF Begin
    <3> DEFINE frames == Frames(plan.write)
    <3>2. AreWrites(frames)
      BY <2>0, <3>1, CallFrames
    <3>3. PICK reads : /\ toDevice' = toDevice \o frames \o reads
                       /\ OnlyReads(reads)
                       /\ DOMAIN call' = DOMAIN NoCall /\ call'.frames = frames
                       /\ call'.before = Run(device, toDevice)
      BY <2>0, <3>1, SendCalls
    <3> HIDE DEF frames
    <3>4. Queue(frames) /\ Queue(reads) /\ IsSeq(frames)
      BY <3>2, <3>3, QueueParts
    <3>5. Queue(toDevice \o frames) /\ Queue(toDevice \o frames \o reads)
      BY <3>4, QueueConcat DEF Landing
    <3>6. IsSeq(toDevice \o frames) /\ Run(device, toDevice \o frames) = Run(call'.before, frames)
      BY <1>1, <3>3, <3>4, RunConcat
    <3>7. IsSeq(reads) /\ \A d : Run(d, reads) = d
      BY <3>3, RunReading
    <3>8. Run(device, toDevice \o frames \o reads) = Run(call'.before, frames)
      BY <3>6, <3>7, RunConcat
    <3>9. Run(device', toDevice') = Run(call'.before, call'.frames)
      BY <2>0, <3>3, <3>8
    <3> QED BY <3>3, <3>4, <3>5, <3>9 DEF Landing, CallFields
  <2> QED BY <2>1, <2>2
<1>3. ASSUME NEW i \in DOMAIN Calls, BeginRead(i) PROVE Landing'
  <2>0. Calls[i].method \in ReadMethods /\ device' = device
    BY <1>3 DEF BeginRead
  <2>1. IsSeq(<<>>) /\ \A d : Run(d, <<>>) = d
    BY WritesNone, QueueParts, RunNothing
  <2>2. CASE Refuse(i, FALSE)
    <3>1. /\ toDevice' = toDevice /\ DOMAIN call' = DOMAIN NoCall
          /\ call'.frames = <<>> /\ call'.before = Run(device, toDevice)
      BY <2>2, RefuseCalls
    <3>2. Run(device', toDevice') = Run(call'.before, call'.frames)
      BY <2>0, <2>1, <3>1
    <3> QED BY <2>1, <3>1, <3>2 DEF Landing, CallFields
  <2>3. CASE ~Refuse(i, FALSE)
    <3>1. PICK read \in PlanGatewayRead(Calls[i].method, Calls[i].p, spent.calls + 1) :
            /\ toDevice' = Append(toDevice, read.frame)
            /\ call' = [NoCall EXCEPT !.phase = "settings", !.number = i,
                                      !.before = Run(device, toDevice), !.readback = {read},
                                      !.crossed = Crossed({read})]
      BY <1>3, <2>3 DEF BeginRead
    <3>2. /\ DOMAIN call' = DOMAIN NoCall /\ call'.frames = <<>>
          /\ call'.before = Run(device, toDevice)
      BY <1>3, <3>1, ReadCalls
    <3> DEFINE asked == <<read.frame>>
    <3>3. OnlyReads(asked)
      <4>1. read.frame.action = "Read"
        BY <2>0, ReadPlans
      <4> DEFINE S == {read.frame}
      <4>2. asked \in Seq(S) /\ \A f \in S : f.action = "Read"
        BY <4>1
      <4> HIDE DEF S, asked
      <4> QED BY <4>2 DEF OnlyReads
    <3>4. toDevice' = toDevice \o asked
      <4>1. PICK S : toDevice \in Seq(S)
        BY DEF Landing, Queue
      <4>2. toDevice \in Seq(S \cup {read.frame})
        <5>1. ASSUME NEW A, NEW B, NEW x \in Seq(A) PROVE x \in Seq(A \cup B)
          OBVIOUS
        <5> QED BY <4>1, <5>1
      <4> QED BY <3>1, <4>2, AppendIsConcat
    <3> HIDE DEF asked
    <3>5. Queue(toDevice') /\ IsSeq(asked) /\ \A d : Run(d, asked) = d
      BY <3>3, <3>4, QueueParts, QueueConcat, RunReading DEF Landing
    <3>6. Run(device, toDevice \o asked) = Run(device, toDevice)
      BY <1>1, <3>5, RunConcat
    <3>7. Run(device', toDevice') = Run(call'.before, call'.frames)
      BY <2>0, <2>1, <3>2, <3>4, <3>6
    <3> QED BY <2>1, <3>2, <3>5, <3>7 DEF Landing, CallFields
  <2> QED BY <2>2, <2>3
<1>4. CASE ExecuteFrame
  <2>1. SameCall
    BY <1>4, CallGoesOn DEF Landing
  <2>2. /\ toDevice # <<>> /\ toDevice' = Tail(toDevice)
        /\ device' = Execute(device, Head(toDevice))
    BY <1>4 DEF ExecuteFrame
  <2>3. Run(device', toDevice') = Run(device, toDevice)
    BY <1>1, <2>2, RunHead
  <2>4. Queue(toDevice')
    BY <2>2, QueueParts DEF Landing
  <2> QED BY <2>1, <2>3, <2>4 DEF Landing, CallFields, SameCall, Undisturbed
<1>5. CASE IgnoreFrame
  <2>1. /\ toDevice # <<>> /\ toDevice' = Tail(toDevice)
        /\ call' \in {[call EXCEPT !.touched = TRUE], [call EXCEPT !.ignored = TRUE]}
    BY <1>5 DEF IgnoreFrame
  <2>2. DOMAIN call' = DOMAIN NoCall /\ call'.frames = call.frames /\ ~Undisturbed'
    BY <2>1 DEF Landing, CallFields, NoCall, Undisturbed
  <2>3. Queue(toDevice')
    BY <2>1, QueueParts DEF Landing
  <2> QED BY <2>2, <2>3 DEF Landing, CallFields
<1>6. CASE Touch
  <2>1. toDevice' = toDevice /\ call' = [call EXCEPT !.touched = TRUE]
    BY <1>6 DEF Touch
  <2>2. DOMAIN call' = DOMAIN NoCall /\ call'.frames = call.frames /\ ~Undisturbed'
    BY <2>1 DEF Landing, CallFields, NoCall, Undisturbed
  <2> QED BY <2>1, <2>2 DEF Landing, CallFields
<1>7. CASE RaiseRaw \/ DecodePush \/ Verify \/ Confirm \/ CheckAssignment \/ GiveUp
  <2>1. SameCall
    BY <1>7, CallGoesOn DEF Landing
  <2>2. device' = device /\ toDevice' = toDevice
    BY <1>7 DEF RaiseRaw, DecodePush, Verify, Confirm, CheckAssignment, GiveUp
  <2> QED BY <2>1, <2>2 DEF Landing, CallFields, SameCall, Undisturbed
<1>8. CASE UNCHANGED pathVars
  BY <1>8 DEF pathVars, Landing, CallFields, Undisturbed
<1> QED BY <1>2, <1>3, <1>4, <1>5, <1>6, <1>7, <1>8 DEF Next

(* When nothing interferes the frames of a call run on the device its      *)
(* caller's frames found, in their order and all of them, whatever was     *)
(* still on its way before them.                                           *)
FramesLandInOrder ==
    Done /\ Undisturbed => device = Run(call.before, call.frames)

(* The frames of a call land whole, in their order and after all that was  *)
(* sent before them (gateway_operation, rpc.rs; the worker's queue in      *)
(* worker.rs).                                                             *)
THEOREM FramesAlwaysLandInOrder == Spec => []FramesLandInOrder
<1>1. Landing => FramesLandInOrder
  <2> SUFFICES ASSUME Landing, Done, Undisturbed
               PROVE  device = Run(call.before, call.frames)
    BY DEF FramesLandInOrder
  <2>1. Run(device, toDevice) = Run(call.before, call.frames) /\ toDevice = <<>>
    BY DEF Landing, Done
  <2> QED BY <2>1, RunNothing
<1> QED BY <1>1, LandingInit, LandingNext, PTL DEF Spec

-----------------------------------------------------------------------------
(***************************************************************************)
(* A write that may be repeated                                            *)
(***************************************************************************)
(* One field at a time, and none is added or lost.                         *)
LEMMA PutKeeps ==
    ASSUME NEW d, NEW path, NEW value
    PROVE  DOMAIN Put(d, path, value) = DOMAIN d
<1>1. ASSUME NEW e, NEW r, NEW c, NEW m PROVE DOMAIN Fresh(e, r, c, m) = DOMAIN e
  BY DEF Fresh
<1>2. ASSUME NEW from, NEW to PROVE DOMAIN Move(d, from, to) = DOMAIN d
  <2>1. CASE from = to
    BY <2>1 DEF Move
  <2>2. CASE from # to
    <3> DEFINE moved == [q \in DOMAIN d |->
                           IF InCell(q, to[1], to[2])
                           THEN d[[q EXCEPT ![2] = from[1], ![3] = from[2]]] ELSE d[q]]
    <3>1. Move(d, from, to) = Fresh(moved, from[1], from[2], NoModel)
      BY <2>2 DEF Move
    <3>2. DOMAIN moved = DOMAIN d
      OBVIOUS
    <3> HIDE DEF moved
    <3> QED BY <1>1, <3>1, <3>2
  <2> QED BY <2>1, <2>2
<1>3. ASSUME NEW from, NEW to, NEW swap PROVE DOMAIN CopyScene(d, from, to, swap) = DOMAIN d
  BY DEF CopyScene
<1>4. \/ Put(d, path, value) = Move(d, <<path[2], path[3]>>, value)
      \/ Put(d, path, value) = CopyScene(d, value[1], value[2], value[3])
      \/ Put(d, path, value) = [d EXCEPT ![<<"mixBypass", path[2]>>] = value]
      \/ Put(d, path, value) = Fresh(d, path[2], path[3], value)
      \/ Put(d, path, value) =
           [q \in DOMAIN d |-> IF q = path THEN value
                               ELSE IF q[1] = "tempo" /\ q[2] >= TempoIndex.beats
                                    THEN Choice(Beats, "ON") ELSE d[q]]
      \/ Put(d, path, value) = [d EXCEPT ![path] = Stored(d, path, value)]
      \/ Put(d, path, value) = d
  BY DEF Put
<1> QED BY <1>1, <1>2, <1>3, <1>4

(* Nor by a frame.                                                         *)
LEMMA ExecuteKeeps ==
    ASSUME NEW d, NEW f, f.action = "Read" \/ WriteFrame(f)
    PROVE  DOMAIN Execute(d, f) = DOMAIN d
<1>1. CASE f.action = "Read"
  BY <1>1 DEF Execute
<1>2. CASE f.action # "Read"
  <2> DEFINE S == DOMAIN f.fields
  <2>1. IsFiniteSet(S)
    BY <1>2 DEF WriteFrame
  <2>0. PICK v : ExecutesBy(v, d, f)
    BY <1>2, <2>1, ExecuteSteps
  <2>2. /\ v[{}] = d
        /\ \A x \in SUBSET S : x # {} =>
             \E path \in x : v[x] = Put(v[x \ {path}], Target(f, path), GivenTo(f, path))
        /\ Execute(d, f) = v[S]
    BY <2>0 DEF ExecutesBy
  <2> HIDE DEF S
  <2> DEFINE T == {n \in Nat : \A x \in SUBSET S : Cardinality(x) = n => DOMAIN v[x] = DOMAIN d}
  <2>3. 0 \in T
    <3>1. ASSUME NEW x \in SUBSET S, Cardinality(x) = 0 PROVE x = {}
      BY <2>1, <3>1, FS_Subset, FS_EmptySet
    <3> QED BY <2>2, <3>1
  <2>4. ASSUME NEW n \in Nat, n \in T PROVE n + 1 \in T
    <3>1. ASSUME NEW x \in SUBSET S, Cardinality(x) = n + 1 PROVE DOMAIN v[x] = DOMAIN d
      <4>1. IsFiniteSet(x) /\ x # {}
        BY <2>1, <3>1, FS_Subset, FS_EmptySet
      <4>2. PICK path \in x : v[x] = Put(v[x \ {path}], Target(f, path), GivenTo(f, path))
        BY <2>2, <4>1
      <4>3. Cardinality(x \ {path}) = n /\ x \ {path} \in SUBSET S
        BY <3>1, <4>1, FS_RemoveElement
      <4>4. DOMAIN v[x \ {path}] = DOMAIN d
        BY <2>4, <4>3
      <4> QED BY <4>2, <4>4, PutKeeps
    <3> QED BY <3>1
  <2>5. Cardinality(S) \in Nat
    BY <2>1, FS_CardinalityType
  <2> HIDE DEF T
  <2>6. Cardinality(S) \in T
    BY <2>3, <2>4, <2>5, NatSet
  <2> QED BY <2>2, <2>6 DEF T
<1> QED BY <1>1, <1>2

(* Nor by frames.                                                          *)
LEMMA RunKeeps ==
    ASSUME NEW d, NEW s, Queue(s)
    PROVE  DOMAIN Run(d, s) = DOMAIN d
<1>1. PICK S : s \in Seq(S) /\ \A f \in S : f.action = "Read" \/ WriteFrame(f)
  BY DEF Queue
<1> DEFINE n == Len(s)
<1>2. n \in Nat /\ \A k \in 1 .. n : s[k].action = "Read" \/ WriteFrame(s[k])
  BY <1>1
<1>3. PICK v : /\ v[0] = d
               /\ \A k \in 1 .. n : v[k] = Execute(v[k - 1], s[k])
               /\ Run(d, s) = v[n]
  BY QueueParts, RunSteps
<1> HIDE DEF n
<1> DEFINE T == {k \in Nat : k <= n => DOMAIN v[k] = DOMAIN d}
<1>4. 0 \in T
  BY <1>3
<1>5. ASSUME NEW k \in Nat, k \in T PROVE k + 1 \in T
  <2>1. CASE k + 1 <= n
    <3>1. PICK j \in 1 .. n : j = k + 1 /\ j - 1 = k
      BY <1>2, <2>1
    <3>2. DOMAIN v[k] = DOMAIN d
      BY <1>2, <1>5, <2>1
    <3>3. v[j] = Execute(v[k], s[j])
      BY <1>3, <3>1
    <3>4. DOMAIN v[j] = DOMAIN d
      BY <1>2, <3>2, <3>3, ExecuteKeeps
    <3> QED BY <3>1, <3>4
  <2>2. CASE ~(k + 1 <= n)
    BY <2>2
  <2> QED BY <2>1, <2>2
<1> HIDE DEF T
<1>6. n \in T
  BY <1>2, <1>4, <1>5, NatSet
<1>7. DOMAIN v[n] = DOMAIN d
  BY <1>2, <1>6 DEF T
<1> QED BY <1>3, <1>7

(* The device that a value is stored in, at a path it has.                 *)
Storing(d, path, value) == [d EXCEPT ![path] = Stored(d, path, value)]

(* A field that has no effect but on itself.                               *)
LEMMA PlainPut ==
    ASSUME NEW d, NEW path, Plain(path), NEW value
    PROVE  Put(d, path, value) = IF path \in DOMAIN d THEN Storing(d, path, value) ELSE d
BY DEF Plain, Put, Storing

(* What it stores does not depend on what it stored before.                *)
LEMMA StoredAgain ==
    ASSUME NEW d, DOMAIN d = DOMAIN Factory, NEW path \in DOMAIN d, NEW v, NEW w
    PROVE  Stored(Storing(d, path, v), path, w) = Stored(d, path, w)
<1> DEFINE e == Storing(d, path, v)
<1>0. /\ e[path] = Stored(d, path, v)
      /\ \A q \in DOMAIN d : q # path => e[q] = d[q]
  BY DEF Storing
<1> HIDE DEF e
<1> SUFFICES Stored(e, path, w) = Stored(d, path, w)
  BY DEF e
<1>1. CASE path[1] = "param"
  <2> DEFINE mode == <<"sceneMode", path[2], path[3], path[4]>>
  <2>1. mode # path /\ mode \in DOMAIN d
    BY <1>1, DeviceAssumption
  <2>2. <<"scene">> # path /\ <<"scene">> \in DOMAIN d
    BY <1>1, DeviceAssumption
  <2>3. e[mode] = d[mode] /\ Live(e) = Live(d)
    BY <1>0, <2>1, <2>2 DEF Live
  <2> DEFINE active(s) == d[mode] => s = Live(d)
  <2>4. Stored(d, path, v) = [s \in Scenes |-> IF active(s) THEN v ELSE d[path][s]]
    BY <1>1 DEF Stored
  <2>5. Stored(d, path, w) = [s \in Scenes |-> IF active(s) THEN w ELSE d[path][s]]
    BY <1>1 DEF Stored
  <2>6. Stored(e, path, w) = [s \in Scenes |-> IF active(s) THEN w ELSE e[path][s]]
    BY <1>1, <2>3 DEF Stored
  <2> HIDE DEF active
  <2>7. \A s \in Scenes : e[path][s] = IF active(s) THEN v ELSE d[path][s]
    BY <1>0, <2>4
  <2> QED BY <2>5, <2>6, <2>7
<1>2. CASE path[1] = "bypass"
  <2>1. <<"scene">> # path /\ <<"scene">> \in DOMAIN d
    BY <1>2, DeviceAssumption
  <2>2. Live(e) = Live(d)
    BY <1>0, <2>1 DEF Live
  <2> DEFINE s == Live(d)
  <2>3. Stored(d, path, v) = [d[path] EXCEPT ![s] = v]
    BY <1>2 DEF Stored
  <2>4. Stored(d, path, w) = [d[path] EXCEPT ![s] = w]
    BY <1>2 DEF Stored
  <2>5. Stored(e, path, w) = [e[path] EXCEPT ![s] = w]
    BY <1>2, <2>2 DEF Stored
  <2> HIDE DEF s
  <2>6. e[path] = [d[path] EXCEPT ![s] = v]
    BY <1>0, <2>3
  <2> QED BY <2>4, <2>5, <2>6
<1>3. CASE path[1] \notin {"param", "bypass"}
  BY <1>3 DEF Stored
<1> QED BY <1>1, <1>2, <1>3

(* A second value at a plain path is all that is left of the two.          *)
LEMMA PutAgain ==
    ASSUME NEW d, DOMAIN d = DOMAIN Factory, NEW path, Plain(path), NEW v, NEW w
    PROVE  Put(Put(d, path, v), path, w) = Put(d, path, w)
<1>1. CASE path \in DOMAIN d
  <2> DEFINE e == Storing(d, path, v)
  <2>1. Put(d, path, v) = e /\ Put(d, path, w) = Storing(d, path, w)
    BY <1>1, PlainPut
  <2>2. Stored(e, path, w) = Stored(d, path, w)
    BY <1>1, StoredAgain
  <2>3. DOMAIN e = DOMAIN d
    BY DEF Storing
  <2>4. Put(e, path, w) = Storing(e, path, w)
    <3> HIDE DEF e
    <3> QED BY <1>1, <2>3, PlainPut
  <2>5. Storing(e, path, w) = Storing(d, path, w)
    <3> DEFINE x == Stored(d, path, v)
               y == Stored(d, path, w)
    <3>1. e = [d EXCEPT ![path] = x] /\ Storing(d, path, w) = [d EXCEPT ![path] = y]
      BY DEF Storing
    <3>2. Storing(e, path, w) = [e EXCEPT ![path] = y]
      BY <2>2 DEF Storing
    <3> HIDE DEF e, x, y
    <3> QED BY <3>1, <3>2
  <2> QED BY <2>1, <2>4, <2>5
<1>2. CASE path \notin DOMAIN d
  BY <1>2, PlainPut
<1> QED BY <1>1, <1>2

(* A frame of one field gives it to the device.                            *)
LEMMA ExecuteOne ==
    ASSUME NEW d, NEW f, f.type # 12, f.action # "Read", NEW path, DOMAIN f.fields = {path}
    PROVE  Execute(d, f) = Put(d, path, GivenTo(f, path))
<1>1. IsFiniteSet(DOMAIN f.fields)
  BY FS_Singleton
<1>2. PICK v : ExecutesBy(v, d, f)
  BY <1>1, ExecuteSteps
<1>3. /\ v[{}] = d
      /\ \A x \in SUBSET (DOMAIN f.fields) : x # {} =>
           \E q \in x : v[x] = Put(v[x \ {q}], Target(f, q), GivenTo(f, q))
      /\ Execute(d, f) = v[DOMAIN f.fields]
  BY <1>2 DEF ExecutesBy
<1>4. PICK q \in {path} : v[{path}] = Put(v[{path} \ {q}], Target(f, q), GivenTo(f, q))
  BY <1>3
<1>5. q = path /\ {path} \ {q} = {}
  BY <1>4
<1>6. Target(f, path) = path
  BY DEF Target
<1> QED BY <1>3, <1>4, <1>5, <1>6

(* An update gives it the value it brings, and so does a deletion at a     *)
(* path that has no effect but on itself.                                  *)
LEMMA UpdateOne ==
    ASSUME NEW d, NEW type, type # 12, NEW path, NEW value
    PROVE  Execute(d, Update(type, path, value)) = Put(d, path, value)
<1> DEFINE f == Update(type, path, value)
<1>1. f.action = "Update" /\ f.type = type /\ DOMAIN f.fields = {path} /\ f.fields[path] = value
  BY DEF Update, Frame, Field
<1> HIDE DEF f
<1>2. GivenTo(f, path) = value
  BY <1>1 DEF GivenTo
<1>3. Execute(d, f) = Put(d, path, value)
  BY <1>1, <1>2, ExecuteOne
<1> QED BY <1>3 DEF f

(* The deletion of a field at a plain path.                                *)
LEMMA DeleteOne ==
    ASSUME NEW d, NEW path, Plain(path), NEW value
    PROVE  Execute(d, Frame(1, "Delete", Field(path, value))) = Put(d, path, value)
<1> DEFINE f == Frame(1, "Delete", Field(path, value))
<1>1. f.action = "Delete" /\ f.type = 1 /\ DOMAIN f.fields = {path} /\ f.fields[path] = value
  BY DEF Frame, Field
<1> HIDE DEF f
<1>2. GivenTo(f, path) = value
  BY <1>1 DEF GivenTo, Plain
<1>3. Execute(d, f) = Put(d, path, value)
  BY <1>1, <1>2, ExecuteOne
<1> QED BY <1>3 DEF f

(* Frames that change nothing when they are sent once more.                *)
Repeatable(frames) ==
    \A d : DOMAIN d = DOMAIN Factory => Run(Run(d, frames), frames) = Run(d, frames)

(* No frames.                                                              *)
LEMMA NothingRepeatable == Repeatable(<<>>)
BY RunNothing DEF Repeatable

(* One update of a plain field.                                            *)
LEMMA PlainRepeatable ==
    ASSUME NEW frames, PlainUpdate(frames)
    PROVE  Repeatable(frames)
<1>1. PICK type, path, value : /\ type # 12 /\ Plain(path)
                               /\ frames = <<Update(type, path, value)>>
  BY DEF PlainUpdate
<1>2. ASSUME NEW d PROVE Run(d, frames) = Put(d, path, value)
  <2>1. Execute(d, Update(type, path, value)) = Put(d, path, value)
    BY <1>1, UpdateOne
  <2> QED BY <1>1, <2>1, RunOne
<1>3. ASSUME NEW d, DOMAIN d = DOMAIN Factory
      PROVE  Run(Run(d, frames), frames) = Run(d, frames)
  BY <1>1, <1>2, <1>3, PutAgain
<1> QED BY <1>3 DEF Repeatable

(* A footswitch that is deleted and assigned, at one path.                 *)
LEMMA FootswitchRepeatable ==
    ASSUME NEW frames, FootswitchFrames(frames)
    PROVE  Repeatable(frames)
<1>1. PICK path, v, w :
        /\ Plain(path)
        /\ \/ frames = <<Frame(1, "Delete", Field(path, v))>>
           \/ frames = <<Frame(1, "Delete", Field(path, v)), Update(1, path, w)>>
  BY DEF FootswitchFrames
<1> DEFINE gone == Frame(1, "Delete", Field(path, v))
           given == Update(1, path, w)
<1>2. ASSUME NEW d PROVE /\ Execute(d, gone) = Put(d, path, v)
                         /\ Execute(d, given) = Put(d, path, w)
  BY <1>1, DeleteOne, UpdateOne
<1>3. frames \in {<<gone>>, <<gone, given>>}
  BY <1>1
<1> HIDE DEF gone, given
<1>4. CASE frames = <<gone>>
  <2>1. \A d : Run(d, frames) = Put(d, path, v)
    BY <1>2, <1>4, RunOne
  <2>2. ASSUME NEW d, DOMAIN d = DOMAIN Factory
        PROVE  Run(Run(d, frames), frames) = Run(d, frames)
    BY <1>1, <2>1, <2>2, PutAgain
  <2> QED BY <2>2 DEF Repeatable
<1>5. CASE frames = <<gone, given>>
  <2>1. ASSUME NEW d PROVE Run(d, frames) = Put(Put(d, path, v), path, w)
    <3>1. frames = <<gone>> \o <<given>>
      BY <1>5, Pair
    <3>2. /\ IsSeq(<<gone>>) /\ Run(d, <<gone>>) = Put(d, path, v)
          /\ IsSeq(<<given>>) /\ \A e : Run(e, <<given>>) = Put(e, path, w)
      BY <1>2, RunOne
    <3>3. Run(d, <<gone>> \o <<given>>) = Run(Run(d, <<gone>>), <<given>>)
      BY <3>2, RunConcat
    <3> QED BY <3>1, <3>2, <3>3
  <2>2. ASSUME NEW d, DOMAIN d = DOMAIN Factory PROVE Run(d, frames) = Put(d, path, w)
    BY <1>1, <2>1, <2>2, PutAgain
  <2>3. ASSUME NEW d, DOMAIN d = DOMAIN Factory
        PROVE  Run(Run(d, frames), frames) = Run(d, frames)
    <3>1. DOMAIN Run(d, frames) = DOMAIN Factory
      BY <2>2, <2>3, PutKeeps
    <3> QED BY <1>1, <2>2, <2>3, <3>1, PutAgain
  <2> QED BY <2>3 DEF Repeatable
<1> QED BY <1>3, <1>4, <1>5

(* The mute of a split, which is stored at the path of the mix.            *)
LEMMA MuteRepeatable ==
    ASSUME NEW frames, NEW row, NEW value,
           frames = <<Update(1, <<"splitBypass", row>>, value)>>
    PROVE  Repeatable(frames)
<1> DEFINE mute == Update(1, <<"splitBypass", row>>, value)
           path == <<"mixBypass", row>>
<1>1. ASSUME NEW d PROVE Run(d, frames) = [d EXCEPT ![path] = value]
  <2>1. Execute(d, mute) = Put(d, <<"splitBypass", row>>, value)
    BY UpdateOne
  <2>2. Put(d, <<"splitBypass", row>>, value) = [d EXCEPT ![path] = value]
    BY DEF Put
  <2>3. Run(d, frames) = Execute(d, mute)
    BY RunOne
  <2> QED BY <2>1, <2>2, <2>3
<1>2. ASSUME NEW d PROVE Run(Run(d, frames), frames) = Run(d, frames)
  <2> DEFINE e == Run(d, frames)
  <2>1. e = [d EXCEPT ![path] = value] /\ Run(e, frames) = [e EXCEPT ![path] = value]
    BY <1>1
  <2> HIDE DEF e, path
  <2>2. Run(e, frames) = e
    BY <2>1
  <2> QED BY <2>2 DEF e
<1> QED BY <1>2 DEF Repeatable

(* The frames of every operation that may be repeated.                     *)
LEMMA KeptRepeatable ==
    ASSUME NEW o, Kept(o)
    PROVE  Repeatable(Frames(o))
<1>1. CASE o.op = "Midi"
  BY <1>1, MidiFrames, PlainRepeatable
<1>2. CASE o.op # "Midi"
  <2>1. AreWrites(Encode(o)) /\ Repeatable(Encode(o))
    <3>1. CASE o.op \in PlainOps
      BY <3>1, PlainEncode, PlainWrites, PlainRepeatable
    <3>2. CASE o.op = "SetFootswitch"
      BY <3>2, FootswitchEncode, FootswitchRepeatable
    <3>3. CASE o.op = "SetSplitMute"
      <4>1. Encode(o) = <<Update(1, <<"splitBypass", o.row>>, o.value)>>
        BY <3>3 DEF Encode, Commands, EncodeOperation, ChainFrames, GridUpdate
      <4>2. o.op \in OneFrameOps
        BY <3>3 DEF OneFrameOps
      <4> QED BY <4>1, <4>2, OneFrameEncode, MuteRepeatable
    <3> QED BY <1>2, <3>1, <3>2, <3>3 DEF Kept
  <2>2. Frames(o) = Encode(o)
    BY <1>2, <2>1, FramesEncoded
  <2> QED BY <2>1, <2>2
<1> QED BY <1>1, <1>2

(* The device has the fields it came with, now and when the last call      *)
(* found it; and the frames of a call that may be repeated are repeatable. *)
Repeating ==
    /\ DOMAIN device = DOMAIN Factory
    /\ call.number # 0 => /\ DOMAIN call.before = DOMAIN Factory
                          /\ Calls[call.number].method \in Retryable => Repeatable(call.frames)

(* At first no call has been made.                                         *)
LEMMA RepeatingInit == Init => Repeating
BY DEF Init, Repeating, NoCall

(* A device has the fields it had, and a call is of the frames it planned. *)
LEMMA RepeatingNext == Landing /\ Repeating /\ [Next]_pathVars => Repeating'
<1> SUFFICES ASSUME Landing, Repeating, [Next]_pathVars PROVE Repeating'
  OBVIOUS
<1>1. DOMAIN Run(device, toDevice) = DOMAIN Factory
  BY RunKeeps DEF Landing, Repeating
<1>2. ASSUME NEW i \in DOMAIN Calls, NEW stale, Begin(i, stale) PROVE Repeating'
  <2>0. Calls[i].method \notin ReadMethods /\ device' = device
    BY <1>2 DEF Begin
  <2>1. CASE Refuse(i, stale)
    <3>1. call'.frames = <<>> /\ call'.before = Run(device, toDevice)
      BY <2>1, RefuseCalls
    <3> QED BY <1>1, <2>0, <3>1, NothingRepeatable DEF Repeating
  <2>2. CASE ~Refuse(i, stale)
    <3>1. PICK expected, plan :
            /\ plan \in Plan(Calls[i].method, Calls[i].p, expected, client.snap)
            /\ Send(i, plan, stale)
      BY <1>2, <2>2 DEF Begin
    <3>2. Calls[i].method \in Retryable => Repeatable(Frames(plan.write))
      BY <2>0, <3>1, CallFrames, KeptRepeatable
    <3>3. /\ call'.number = i /\ call'.frames = Frames(plan.write)
          /\ call'.before = Run(device, toDevice)
      BY <2>0, <3>1, SendCalls
    <3> QED BY <1>1, <2>0, <3>2, <3>3 DEF Repeating
  <2> QED BY <2>1, <2>2
<1>3. ASSUME NEW i \in DOMAIN Calls, BeginRead(i) PROVE Repeating'
  <2>0. device' = device
    BY <1>3 DEF BeginRead
  <2>1. call'.frames = <<>> /\ call'.before = Run(device, toDevice)
    <3>1. CASE Refuse(i, FALSE)
      BY <3>1, RefuseCalls
    <3>2. CASE ~Refuse(i, FALSE)
      <4>1. PICK read \in PlanGatewayRead(Calls[i].method, Calls[i].p, spent.calls + 1) :
              /\ toDevice' = Append(toDevice, read.frame)
              /\ call' = [NoCall EXCEPT !.phase = "settings", !.number = i,
                                        !.before = Run(device, toDevice), !.readback = {read},
                                        !.crossed = Crossed({read})]
        BY <1>3, <3>2 DEF BeginRead
      <4> QED BY <1>3, <4>1, ReadCalls
    <3> QED BY <3>1, <3>2
  <2> QED BY <1>1, <2>0, <2>1, NothingRepeatable DEF Repeating
<1>4. CASE ExecuteFrame
  <2>1. SameCall
    BY <1>4, CallGoesOn DEF Landing
  <2>2. DOMAIN device' = DOMAIN device
    <3>1. toDevice # <<>> /\ device' = Execute(device, Head(toDevice))
      BY <1>4 DEF ExecuteFrame
    <3>2. Head(toDevice).action = "Read" \/ WriteFrame(Head(toDevice))
      BY <3>1, QueueParts DEF Landing
    <3> QED BY <3>1, <3>2, ExecuteKeeps
  <2> QED BY <2>1, <2>2 DEF Repeating, SameCall
<1>5. CASE IgnoreFrame
  <2>1. /\ device' = device
        /\ call' \in {[call EXCEPT !.touched = TRUE], [call EXCEPT !.ignored = TRUE]}
    BY <1>5 DEF IgnoreFrame
  <2>2. /\ call'.number = call.number /\ call'.frames = call.frames
        /\ call'.before = call.before
    BY <2>1 DEF Landing, CallFields, NoCall
  <2> QED BY <2>1, <2>2 DEF Repeating
<1>6. CASE Touch
  <2>1. /\ call' = [call EXCEPT !.touched = TRUE]
        /\ device' = device \/ \E s : device' = [device EXCEPT ![<<"scene">>] = s]
    BY <1>6 DEF Touch
  <2>2. /\ call'.number = call.number /\ call'.frames = call.frames
        /\ call'.before = call.before /\ DOMAIN device' = DOMAIN device
    BY <2>1 DEF Landing, CallFields, NoCall
  <2> QED BY <2>2 DEF Repeating
<1>7. CASE RaiseRaw \/ DecodePush \/ Verify \/ Confirm \/ CheckAssignment \/ GiveUp
  <2>1. SameCall
    BY <1>7, CallGoesOn DEF Landing
  <2>2. device' = device
    BY <1>7 DEF RaiseRaw, DecodePush, Verify, Confirm, CheckAssignment, GiveUp
  <2> QED BY <2>1, <2>2 DEF Repeating, SameCall
<1>8. CASE UNCHANGED pathVars
  BY <1>8 DEF pathVars, Repeating
<1> QED BY <1>2, <1>3, <1>4, <1>5, <1>6, <1>7, <1>8 DEF Next

(* A write that may be repeated changes nothing when it is                 *)
(* (gateway_write_retryable, request.rs).                                  *)
THEOREM RetryIsAlwaysIdempotent == Spec => []RetryIsIdempotent
<1>1. Landing /\ Repeating => RetryIsIdempotent
  <2> SUFFICES ASSUME Landing, Repeating, Done, Undisturbed,
                      Calls[call.number].method \in Retryable
               PROVE  Run(device, call.frames) = device
    BY DEF RetryIsIdempotent
  <2>1. device = Run(call.before, call.frames)
    BY RunNothing DEF Landing, Done
  <2>2. DOMAIN call.before = DOMAIN Factory /\ Repeatable(call.frames)
    BY DEF Repeating, Done
  <2> QED BY <2>1, <2>2 DEF Repeatable
<1> QED BY <1>1, LandingInit, LandingNext, RepeatingInit, RepeatingNext, PTL DEF Spec

-----------------------------------------------------------------------------
(***************************************************************************)
(* The members of a sequence                                               *)
(***************************************************************************)
(* The elements of two sequences put together.                             *)
LEMMA RangeConcat ==
    ASSUME NEW s, NEW t, IsSeq(s), IsSeq(t)
    PROVE  /\ IsSeq(s \o t) /\ Len(s \o t) = Len(s) + Len(t)
           /\ Range(s \o t) = Range(s) \cup Range(t)
<1> DEFINE m == Len(s)
           n == Len(t)
           c == s \o t
<1>1. PICK S, T : s \in Seq(S) /\ t \in Seq(T)
  BY DEF IsSeq
<1>2. s \in Seq(S \cup T) /\ t \in Seq(S \cup T)
  <2>1. ASSUME NEW A, NEW B, NEW x \in Seq(A) PROVE x \in Seq(A \cup B)
    OBVIOUS
  <2> QED BY <1>1, <2>1
<1>3. /\ c \in Seq(S \cup T) /\ Len(c) = m + n
      /\ \A k \in 1 .. m : c[k] = s[k]
      /\ \A k \in 1 .. n : c[m + k] = t[k]
  BY <1>2, ConcatProperties
<1>4. m \in Nat /\ n \in Nat /\ DOMAIN s = 1 .. m /\ DOMAIN t = 1 .. n
  BY <1>1
<1>5. DOMAIN c = 1 .. m + n
  BY <1>3
<1>6. IsSeq(c)
  BY <1>3 DEF IsSeq
<1> HIDE DEF c, m, n
<1>7. ASSUME NEW x \in Range(c) PROVE x \in Range(s) \cup Range(t)
  <2>1. PICK k \in 1 .. m + n : x = c[k]
    BY <1>5, <1>7 DEF Range
  <2>2. CASE k <= m
    <3>1. k \in 1 .. m
      BY <1>4, <2>2
    <3> QED BY <1>3, <1>4, <2>1, <3>1 DEF Range
  <2>3. CASE k > m
    <3>1. PICK j \in 1 .. n : m + j = k
      BY <1>4, <2>3
    <3> QED BY <1>3, <1>4, <2>1, <3>1 DEF Range
  <2> QED BY <1>4, <2>2, <2>3
<1>8. ASSUME NEW x \in Range(s) PROVE x \in Range(c)
  <2>1. PICK k \in 1 .. m : x = s[k]
    BY <1>4, <1>8 DEF Range
  <2>2. k \in 1 .. m + n /\ c[k] = x
    BY <1>3, <1>4, <2>1
  <2> QED BY <1>5, <2>2 DEF Range
<1>9. ASSUME NEW x \in Range(t) PROVE x \in Range(c)
  <2>1. PICK k \in 1 .. n : x = t[k]
    BY <1>4, <1>9 DEF Range
  <2>2. m + k \in 1 .. m + n /\ c[m + k] = x
    BY <1>3, <1>4, <2>1
  <2> QED BY <1>5, <2>2 DEF Range
<1>10. Range(c) = Range(s) \cup Range(t)
  BY <1>7, <1>8, <1>9
<1> QED BY <1>3, <1>6, <1>10 DEF c, m, n

(* The element of a sequence of one.                                       *)
LEMMA RangeOne ==
    ASSUME NEW x
    PROVE  IsSeq(<<x>>) /\ Len(<<x>>) = 1 /\ Range(<<x>>) = {x}
<1>1. IsSeq(<<x>>)
  BY RunOne
<1>2. DOMAIN <<x>> = {1} /\ <<x>>[1] = x /\ Len(<<x>>) = 1
  OBVIOUS
<1>3. Range(<<x>>) = {x}
  BY <1>2 DEF Range
<1> QED BY <1>1, <1>2, <1>3

(* The elements of a sequence with one more.                               *)
LEMMA RangeAppend ==
    ASSUME NEW s, IsSeq(s), NEW x
    PROVE  /\ Append(s, x) = s \o <<x>>
           /\ IsSeq(Append(s, x)) /\ Range(Append(s, x)) = Range(s) \cup {x}
<1>1. PICK S : s \in Seq(S)
  BY DEF IsSeq
<1>2. s \in Seq(S \cup {x})
  <2>1. ASSUME NEW A, NEW B, NEW y \in Seq(A) PROVE y \in Seq(A \cup B)
    OBVIOUS
  <2> QED BY <1>1, <2>1
<1>3. Append(s, x) = s \o <<x>>
  BY <1>2, AppendIsConcat
<1> QED BY <1>3, RangeOne, RangeConcat

(* The empty sequence.                                                     *)
LEMMA RangeNone == IsSeq(<<>>) /\ Range(<<>>) = {}
<1>1. IsSeq(<<>>)
  BY WritesNone, QueueParts
<1>2. DOMAIN <<>> = {}
  OBVIOUS
<1> QED BY <1>1, <1>2 DEF Range

(* The first element and the others are elements.                          *)
LEMMA RangeTail ==
    ASSUME NEW s, IsSeq(s), s # <<>>
    PROVE  IsSeq(Tail(s)) /\ Head(s) \in Range(s) /\ Range(Tail(s)) \subseteq Range(s)
<1>1. PICK S : s \in Seq(S)
  BY DEF IsSeq
<1>2. Tail(s) \in Seq(S) /\ Len(s) \in Nat /\ Len(s) # 0 /\ DOMAIN s = 1 .. Len(s)
  BY <1>1
<1>3. Head(s) = s[1] /\ 1 \in DOMAIN s
  BY <1>1, <1>2
<1>4. DOMAIN Tail(s) = 1 .. Len(s) - 1 /\ \A k \in 1 .. Len(s) - 1 : Tail(s)[k] = s[k + 1]
  BY <1>1, <1>2
<1>5. ASSUME NEW x \in Range(Tail(s)) PROVE x \in Range(s)
  <2>1. PICK k \in 1 .. Len(s) - 1 : x = s[k + 1]
    BY <1>4, <1>5 DEF Range
  <2>2. k + 1 \in DOMAIN s
    BY <1>2
  <2> QED BY <2>1, <2>2 DEF Range
<1>6. IsSeq(Tail(s))
  BY <1>2 DEF IsSeq
<1> QED BY <1>3, <1>5, <1>6 DEF Range

(* The elements of a set that is put in a sequence.                        *)
LEMMA RangeListed ==
    ASSUME NEW S, IsFiniteSet(S)
    PROVE  IsSeq(SetToSeq(S)) /\ Range(SetToSeq(S)) \subseteq S
<1>1. SetToSeq(S) \in Seq(S) /\ \A i \in 1 .. Len(SetToSeq(S)) : SetToSeq(S)[i] \in S
  BY Listed
<1> DEFINE s == SetToSeq(S)
<1>2. DOMAIN s = 1 .. Len(s)
  BY <1>1
<1> HIDE DEF s
<1>3. Range(s) \subseteq S
  BY <1>1, <1>2 DEF s, Range
<1> QED BY <1>1, <1>3 DEF s, IsSeq

(* Before the last of a sequence comes the first, unless it is the last.   *)
LEMMA HeadOfMore ==
    ASSUME NEW s, IsSeq(s), NEW x
    PROVE  /\ s \o <<x>> # <<>>
           /\ s = <<>> => Head(s \o <<x>>) = x /\ Tail(s \o <<x>>) = <<>>
           /\ s # <<>> => Head(s \o <<x>>) = Head(s) /\ Tail(s \o <<x>>) = Tail(s) \o <<x>>
<1>1. PICK S : s \in Seq(S)
  BY DEF IsSeq
<1> DEFINE T == S \cup {x}
           t == <<x>>
<1>2. s \in Seq(T) /\ t \in Seq(T)
  <2>1. ASSUME NEW A, NEW B, NEW y \in Seq(A) PROVE y \in Seq(A \cup B)
    OBVIOUS
  <2> QED BY <1>1, <2>1
<1>3. t # <<>> /\ Head(t) = x /\ Tail(t) = <<>> /\ Len(t) = 1
  OBVIOUS
<1> HIDE DEF T, t
<1>4. Len(s) \in Nat /\ Len(s \o t) = Len(s) + 1 /\ s \o t \in Seq(T)
  <2>1. Len(s) \in Nat
    BY <1>2
  <2>2. s \o t \in Seq(T)
    BY <1>2, ConcatProperties
  <2>3. Len(s \o t) = Len(s) + Len(t)
    BY <1>2, ConcatProperties
  <2> QED BY <1>3, <2>1, <2>2, <2>3
<1>5. s \o t # <<>>
  BY <1>4
<1>6. s = <<>> => s \o t = t
  BY <1>2
<1>7. ASSUME s # <<>> PROVE Head(s \o t) = Head(s) /\ Tail(s \o t) = Tail(s) \o t
  <2>1. s = <<Head(s)>> \o Tail(s) /\ Tail(s) \in Seq(T) /\ Head(s) \in T
    BY <1>2, <1>7
  <2> DEFINE u == <<Head(s)>>
             r == Tail(s) \o t
  <2>2. u \in Seq(T) /\ r \in Seq(T) /\ s \o t = u \o r
    <3>1. u \in Seq(T)
      BY <2>1
    <3>2. (u \o Tail(s)) \o t = u \o (Tail(s) \o t)
      BY <1>2, <2>1, <3>1
    <3> QED BY <1>2, <2>1, <3>1, <3>2
  <2>3. Head(u \o r) = Head(s) /\ Tail(u \o r) = r
    <3>1. u \o r # <<>> /\ Head(u \o r) = Head(s)
      BY <2>1, <2>2
    <3>2. Tail(u \o r) = r
      BY <2>1, <2>2
    <3> QED BY <3>1, <3>2
  <2> QED BY <2>2, <2>3
<1> QED BY <1>3, <1>5, <1>6, <1>7 DEF t

-----------------------------------------------------------------------------
(***************************************************************************)
(* Identifiers: what a read asks with and what the device says             *)
(***************************************************************************)
(* The path of an identifier, and the types of the messages that may carry *)
(* one.                                                                    *)
Id == <<"id">>
Numbered == {4, 20, 25}

(* The fields of two functions put together.                               *)
LEMMA TogetherAt ==
    ASSUME NEW f, NEW g, NEW x
    PROVE  /\ x \in DOMAIN f => At1(f ++ g, x) = At1(f, x)
           /\ x \notin DOMAIN f => At1(f ++ g, x) = At1(g, x)
BY DEF At1, ++

(* The fields of both.                                                     *)
LEMMA TogetherDomain ==
    ASSUME NEW f, NEW g
    PROVE  DOMAIN (f ++ g) = DOMAIN f \cup DOMAIN g
BY DEF ++

(* One field.                                                              *)
LEMMA FieldAt ==
    ASSUME NEW x, NEW v
    PROVE  DOMAIN Field(x, v) = {x} /\ At1(Field(x, v), x) = {v}
BY DEF At1, Field

(* What a read asks with: an identifier of its own, or none.               *)
Asks(read, id) ==
    /\ read.frame.action = "Read"
    /\ read.id # {} => read.id = {id} /\ read.frame.type \in Numbered
    /\ At1(read.frame.fields, Id) \subseteq {id}

(* A read asks with the identifier it is planned with, or with none.       *)
LEMMA PlansAsk ==
    ASSUME NEW method \in ReadMethods, NEW p, NEW id, NEW read \in PlanGatewayRead(method, p, id)
    PROVE  Asks(read, id)
<1>0. read.frame.action = "Read"
  BY ReadPlans
<1>1. CASE method \in DOMAIN ReadTypes
  <2>1. method \notin {"recents", "favorites", "captures", "irs", "presetScreenshot"}
    BY <1>1 DEF ReadTypes
  <2>2. read = Asking(Read(ReadTypes[method]), {}, {})
    BY <1>1, <2>1 DEF PlanGatewayRead
  <2>3. read.id = {} /\ read.frame.fields = <<>>
    BY <2>2 DEF Asking, Read, Frame
  <2>4. At1(<<>>, Id) = {}
    <3>1. Id \notin DOMAIN <<>>
      OBVIOUS
    <3> QED BY <3>1 DEF At1
  <2>5. At1(read.frame.fields, Id) \subseteq {id} /\ read.id = {}
    BY <2>3, <2>4
  <2> QED BY <1>0, <2>5 DEF Asks
<1>2. CASE method \in {"recents", "favorites"}
  <2>1. PICK favorites : read = Asking(ReadRecentsFavorites(favorites, id), {id}, {})
    BY <1>2 DEF PlanGatewayRead, ReadTypes
  <2>2. /\ read.id = {id} /\ read.frame.type = 20
        /\ read.frame.fields = Field(<<"favorites">>, favorites) ++ Field(Id, id)
    BY <2>1 DEF Asking, ReadRecentsFavorites, Frame, Id
  <2>3. At1(read.frame.fields, Id) = {id}
    <3>1. Id # <<"favorites">>
      BY DEF Id
    <3>2. Id \notin DOMAIN Field(<<"favorites">>, favorites)
      BY <3>1, FieldAt
    <3>3. At1(read.frame.fields, Id) = At1(Field(Id, id), Id)
      BY <2>2, <3>2, TogetherAt
    <3> QED BY <3>3, FieldAt
  <2> QED BY <1>0, <2>2, <2>3 DEF Asks, Numbered
<1>3. CASE method \in {"captures", "irs"}
  <2>1. read \in PlanLibraryFiles(method, p, id)
    BY <1>3 DEF PlanGatewayRead, ReadTypes
  <2>2. PICK type, ids, target : /\ read = Asking(ReadLibraryFiles(type, ids), ids, target)
                                 /\ ids = {} \/ ids = {id}
    BY <2>1 DEF PlanLibraryFiles, Accept
  <2> DEFINE f == [path \in {<<"type">> : t \in type} |-> CHOOSE t \in type : TRUE]
             g == [path \in {Id : n \in ids} |-> CHOOSE n \in ids : TRUE]
  <2>3. /\ read.id = ids /\ read.frame.type = 4 /\ read.frame.fields = f ++ g
    BY <2>2 DEF Asking, ReadLibraryFiles, Frame, Id
  <2>4. Id \notin DOMAIN f
    <3>1. Id # <<"type">>
      BY DEF Id
    <3> QED BY <3>1
  <2>5. At1(g, Id) \subseteq {id}
    <3>1. \A n \in ids : n = id
      BY <2>2
    <3>2. ids # {} => (CHOOSE n \in ids : TRUE) \in ids
      OBVIOUS
    <3> QED BY <3>1, <3>2 DEF At1
  <2> HIDE DEF f, g
  <2>6. At1(read.frame.fields, Id) \subseteq {id}
    BY <2>3, <2>4, <2>5, TogetherAt
  <2> QED BY <1>0, <2>2, <2>3, <2>6 DEF Asks, Numbered
<1>4. CASE method = "presetScreenshot"
  <2>1. read \in PlanScreenshot(p, id)
    BY <1>4 DEF PlanGatewayRead, ReadTypes
  <2>2. PICK target : read = Asking(PresetScreenshot(p.folderName, p.position, p.isFactory, id),
                                    {id}, target)
    BY <2>1 DEF PlanScreenshot, Accept
  <2> DEFINE f == Field(<<"target">>, <<p.folderName, p.position, p.isFactory>>)
  <2>3. read.id = {id} /\ read.frame.type = 25 /\ read.frame.fields = f ++ Field(Id, id)
    BY <2>2 DEF Asking, PresetScreenshot, Frame, Id
  <2>4. Id \notin DOMAIN f
    <3>1. Id # <<"target">>
      BY DEF Id
    <3> QED BY <3>1, FieldAt
  <2> HIDE DEF f
  <2>5. At1(read.frame.fields, Id) = {id}
    <3>1. At1(read.frame.fields, Id) = At1(Field(Id, id), Id)
      BY <2>3, <2>4, TogetherAt
    <3> QED BY <3>1, FieldAt
  <2> QED BY <1>0, <2>3, <2>5 DEF Asks, Numbered
<1> QED BY <1>1, <1>2, <1>3, <1>4 DEF ReadMethods

(* The values of a function on a finite set.                               *)
LEMMA FiniteImage ==
    ASSUME NEW S, IsFiniteSet(S), NEW T, NEW g, T = {g[x] : x \in S}
    PROVE  IsFiniteSet(T)
<1> DEFINE h == [x \in S |-> g[x]]
<1>1. h \in Surjection(S, T)
  BY DEF Surjection
<1> QED BY <1>1, FS_Surjection

(* What the device says of a frame is of the frame's type and carries its  *)
(* identifier, where it carries one.                                       *)
Says(m, f) == m.type = f.type /\ (f.type \in Numbered => At1(m.fields, Id) = At1(f.fields, Id))

(* A reply keeps the identifier it is asked with.                          *)
LEMMA ReplySays ==
    ASSUME NEW f, NEW fields, f.type \in Numbered => Id \notin DOMAIN fields
    PROVE  Says(Frame(f.type, "Reply",
                      [path \in DOMAIN f.fields \cap {Id, <<"target">>} |-> f.fields[path]]
                        ++ fields), f)
<1> DEFINE g == [path \in DOMAIN f.fields \cap {Id, <<"target">>} |-> f.fields[path]]
           m == Frame(f.type, "Reply", g ++ fields)
<1>1. m.type = f.type /\ m.fields = g ++ fields
  BY DEF Frame
<1>2. At1(g, Id) = At1(f.fields, Id) /\ (Id \in DOMAIN g <=> Id \in DOMAIN f.fields)
  BY DEF At1
<1> HIDE DEF g, m
<1>3. ASSUME f.type \in Numbered PROVE At1(g ++ fields, Id) = At1(f.fields, Id)
  <2>1. CASE Id \in DOMAIN g
    BY <1>2, <2>1, TogetherAt
  <2>2. CASE Id \notin DOMAIN g
    <3>1. At1(g ++ fields, Id) = At1(fields, Id)
      BY <2>2, TogetherAt
    <3>2. At1(fields, Id) = {} /\ At1(f.fields, Id) = {}
      BY <1>2, <1>3, <2>2 DEF At1
    <3> QED BY <3>1, <3>2
  <2> QED BY <2>1, <2>2
<1>4. Says(m, f)
  BY <1>1, <1>3 DEF Says
<1> QED BY <1>4 DEF g, m

(* All replies to a read do.                                               *)
LEMMA RepliesSay ==
    ASSUME NEW d, DOMAIN d = DOMAIN Factory, NEW f
    PROVE  IsSeq(Replies(d, f)) /\ \A m \in Range(Replies(d, f)) : Says(m, f)
<1> DEFINE Reply(fields) ==
              Frame(f.type, "Reply",
                    [path \in DOMAIN f.fields \cap {Id, <<"target">>} |-> f.fields[path]]
                      ++ fields)
           Listed1(name) == {path[2] : path \in {q \in PathsOf(d, name) : d[q]}}
<1>0. Id # <<"items">> /\ Id # <<"folder">> /\ Id # <<"picture">>
  BY DEF Id
<1>1. CASE f.type = 20
  <2> DEFINE items == Listed1(IF f.fields[<<"favorites">>] THEN "favorite" ELSE "recent")
             m == Reply(Field(<<"items">>, items))
  <2>1. Replies(d, f) = <<m>>
    BY <1>1 DEF Replies, Id
  <2>2. Says(m, f)
    <3> HIDE DEF items
    <3>1. Id \notin DOMAIN Field(<<"items">>, items)
      BY <1>0, FieldAt
    <3> QED BY <3>1, ReplySays
  <2> HIDE DEF m
  <2> QED BY <2>1, <2>2, RangeOne
<1>2. CASE f.type = 4
  <2> DEFINE Of(path) == Field(<<"folder">>, path[2]) ++ Field(<<"items">>, d[path])
             S == {Reply(Of(path)) : path \in PathsOf(d, "files")}
  <2>1. Replies(d, f) = SetToSeq(S)
    BY <1>2 DEF Replies, Id
  <2>2. IsFiniteSet(S)
    <3>1. IsFiniteSet(PathsOf(d, "files"))
      <4>1. PathsOf(d, "files") \subseteq DOMAIN Factory /\ IsFiniteSet(DOMAIN Factory)
        BY DeviceAssumption DEF PathsOf
      <4> QED BY <4>1, FS_Subset
    <3> DEFINE g == [path \in PathsOf(d, "files") |-> Reply(Of(path))]
    <3>2. S = {g[path] : path \in PathsOf(d, "files")}
      <4> HIDE DEF Reply, Of
      <4> QED OBVIOUS
    <3> HIDE DEF g, S
    <3> QED BY <3>1, <3>2, FiniteImage
  <2>3. ASSUME NEW m \in S PROVE Says(m, f)
    <3>1. PICK path \in PathsOf(d, "files") : m = Reply(Of(path))
      OBVIOUS
    <3>2. Id \notin DOMAIN Of(path)
      <4> DEFINE g == Field(<<"folder">>, path[2])
                 h == Field(<<"items">>, d[path])
      <4>1. DOMAIN g = {<<"folder">>} /\ DOMAIN h = {<<"items">>}
        BY FieldAt
      <4>2. Of(path) = g ++ h
        OBVIOUS
      <4> HIDE DEF g, h, Of
      <4>3. DOMAIN (g ++ h) = DOMAIN g \cup DOMAIN h
        BY TogetherDomain
      <4> QED BY <1>0, <4>1, <4>2, <4>3
    <3> HIDE DEF Of
    <3> QED BY <3>1, <3>2, ReplySays
  <2> HIDE DEF S
  <2> QED BY <2>1, <2>2, <2>3, RangeListed
<1>3. CASE f.type = 25
  <2>1. PICK v : Replies(d, f) = <<Reply(Field(<<"picture">>, v))>>
    BY <1>3 DEF Replies, Id
  <2> DEFINE m == Reply(Field(<<"picture">>, v))
  <2>2. Says(m, f)
    <3>1. Id \notin DOMAIN Field(<<"picture">>, v)
      <4>1. DOMAIN Field(<<"picture">>, v) = {<<"picture">>}
        BY FieldAt
      <4> QED BY <1>0, <4>1
    <3> QED BY <3>1, ReplySays
  <2> HIDE DEF m
  <2> QED BY <2>1, <2>2, RangeOne DEF m
<1>4. CASE f.type \notin Numbered
  <2> DEFINE m == Reply(Reported(d, f.type))
  <2>1. Replies(d, f) = <<m>>
    BY <1>4 DEF Replies, Id, Numbered
  <2>2. Says(m, f)
    BY <1>4, ReplySays
  <2> HIDE DEF m
  <2> QED BY <2>1, <2>2, RangeOne
<1> QED BY <1>1, <1>2, <1>3, <1>4 DEF Numbered

(* So does all that the device says of a frame.                            *)
LEMMA PushesSay ==
    ASSUME NEW d, DOMAIN d = DOMAIN Factory, NEW f
    PROVE  IsSeq(Pushes(d, f)) /\ \A m \in Range(Pushes(d, f)) : Says(m, f)
<1>1. CASE Pushes(d, f) = Replies(d, f)
  BY <1>1, RepliesSay
<1>2. CASE Pushes(d, f) = <<f>>
  BY <1>2, RangeOne DEF Says
<1>3. CASE Pushes(d, f) = <<>>
  BY <1>3, RangeNone
<1> QED BY <1>1, <1>2, <1>3 DEF Pushes

(* The messages and frames under way carry identifiers of calls made.      *)
Known(m, n) == m.type \in Numbered => At1(m.fields, Id) \subseteq 0 .. n
(* No identifier under way is above the number of calls made.              *)
Identified ==
    /\ DOMAIN spent = {"calls", "disturbed"} /\ spent.calls \in Nat /\ IsSeq(wire)
    /\ \A m \in Range(toDevice) \cup Range(wire) : Known(m, spent.calls)

(* A write carries none.                                                   *)
LEMMA WritesKnown ==
    ASSUME NEW f, WriteFrame(f)
    PROVE  /\ f.type \in Numbered => At1(f.fields, Id) = {}
           /\ \A n : Known(f, n)
BY DEF WriteFrame, Known, Numbered, At1, Id

(* One more call leaves them so.                                           *)
LEMMA KnownLater ==
    ASSUME NEW m, NEW n \in Nat, Known(m, n)
    PROVE  Known(m, n + 1)
<1>1. 0 .. n \subseteq 0 .. n + 1
  OBVIOUS
<1> QED BY <1>1 DEF Known

(* Each of a sequence of writes is one.                                    *)
LEMMA WritesIn ==
    ASSUME NEW s, AreWrites(s)
    PROVE  IsSeq(s) /\ \A f \in Range(s) : WriteFrame(f)
<1>1. PICK S : s \in Seq(S) /\ \A f \in S : WriteFrame(f)
  BY DEF AreWrites
<1>2. \A i \in DOMAIN s : s[i] \in S
  BY <1>1
<1> QED BY <1>1, <1>2 DEF IsSeq, Range

(* A call sends writes and reads that carry no identifier.                 *)
LEMMA SendKnown ==
    ASSUME NEW i \in DOMAIN Calls, Calls[i].method \notin ReadMethods, NEW expected, NEW snap,
           NEW plan \in Plan(Calls[i].method, Calls[i].p, expected, snap), NEW stale,
           Send(i, plan, stale), IsSeq(toDevice)
    PROVE  \A f \in Range(toDevice') : f \in Range(toDevice) \/ \A n : Known(f, n)
<1> DEFINE next == Continuation(Calls[i].method, plan)
           S == {read.frame : read \in next.reads}
           frames == Frames(plan.write)
           reads == SetToSeq(S)
<1>1. toDevice' = toDevice \o frames \o reads
  BY DEF Send, Frames
<1>2. IsSeq(frames) /\ \A f \in Range(frames) : WriteFrame(f)
  BY CallFrames, WritesIn
<1>3. IsSeq(reads) /\ \A f \in Range(reads) : f.type \notin Numbered
  <2>1. \/ next.reads = {}
        \/ \E type \in Nat : /\ type \notin {4, 20, 25}
                             /\ next.reads = {Asking(Read(type), {}, {})}
    BY ContinuationReads
  <2> HIDE DEF next
  <2>2. \A v, w \in S : v = w
    BY <2>1
  <2>3. \A f \in S : f.type \notin Numbered
    BY <2>1 DEF Asking, Read, Frame, Numbered
  <2> HIDE DEF S
  <2>4. IsSeq(reads) /\ Range(reads) \subseteq S
    BY <2>2, Singular, RangeListed
  <2> QED BY <2>3, <2>4
<1> HIDE DEF frames, reads
<1>4. IsSeq(toDevice \o frames) /\ Range(toDevice \o frames) = Range(toDevice) \cup Range(frames)
  BY <1>2, RangeConcat
<1>5. Range(toDevice') = Range(toDevice) \cup Range(frames) \cup Range(reads)
  BY <1>1, <1>3, <1>4, RangeConcat
<1> QED BY <1>2, <1>3, <1>5, WritesKnown DEF Known

(* At first nothing is under way.                                          *)
LEMMA IdentifiedInit == Init => Identified
BY RangeNone DEF Init, Identified

(* An identifier is kept by an answer and sent by the call it is the       *)
(* number of.                                                              *)
LEMMA IdentifiedNext == Landing /\ Repeating /\ Identified /\ [Next]_pathVars => Identified'
<1> SUFFICES ASSUME Landing, Repeating, Identified, [Next]_pathVars PROVE Identified'
  OBVIOUS
<1>1. IsSeq(toDevice)
  BY QueueParts DEF Landing
<1> DEFINE Counted == /\ DOMAIN spent' = {"calls", "disturbed"} /\ spent'.calls \in Nat
                      /\ \A m : Known(m, spent.calls) => Known(m, spent'.calls)
<1>2. ASSUME spent' = [spent EXCEPT !.calls = @ + 1]
      PROVE  Counted /\ spent'.calls = spent.calls + 1
  <2>1. DOMAIN spent' = {"calls", "disturbed"} /\ spent'.calls = spent.calls + 1
    BY <1>2 DEF Identified
  <2>2. \A m : Known(m, spent.calls) => Known(m, spent.calls + 1)
    BY KnownLater DEF Identified
  <2> QED BY <2>1, <2>2 DEF Identified
<1>3. ASSUME spent' = [spent EXCEPT !.disturbed = @ + 1] \/ spent' = spent PROVE Counted
  <2>1. DOMAIN spent' = DOMAIN spent /\ spent'.calls = spent.calls
    BY <1>3 DEF Identified
  <2> QED BY <2>1 DEF Identified
<1> HIDE DEF Counted
<1>4. ASSUME NEW i \in DOMAIN Calls, NEW stale, Begin(i, stale) PROVE Identified'
  <2>1. Calls[i].method \notin ReadMethods /\ wire' = wire /\ Counted
    BY <1>2, <1>4 DEF Begin
  <2>2. \A f \in Range(toDevice') : f \in Range(toDevice) \/ \A n : Known(f, n)
    <3>1. CASE Refuse(i, stale)
      BY <3>1 DEF Refuse
    <3>2. CASE ~Refuse(i, stale)
      <4>1. PICK expected, plan :
              /\ plan \in Plan(Calls[i].method, Calls[i].p, expected, client.snap)
              /\ Send(i, plan, stale)
        BY <1>4, <3>2 DEF Begin
      <4> QED BY <1>1, <2>1, <4>1, SendKnown
    <3> QED BY <3>1, <3>2
  <2> QED BY <2>1, <2>2 DEF Identified, Counted
<1>5. ASSUME NEW i \in DOMAIN Calls, BeginRead(i) PROVE Identified'
  <2>1. Calls[i].method \in ReadMethods /\ wire' = wire /\ Counted
        /\ spent'.calls = spent.calls + 1
    BY <1>2, <1>5 DEF BeginRead
  <2>2. ASSUME NEW f \in Range(toDevice'), f \notin Range(toDevice)
        PROVE  Known(f, spent'.calls)
    <3>1. ~Refuse(i, FALSE)
      BY <2>2 DEF Refuse
    <3>2. PICK read \in PlanGatewayRead(Calls[i].method, Calls[i].p, spent.calls + 1) :
            toDevice' = Append(toDevice, read.frame)
      BY <1>5, <3>1 DEF BeginRead
    <3>3. Asks(read, spent.calls + 1)
      BY <2>1, PlansAsk
    <3>4. f = read.frame
      <4> DEFINE g == read.frame
      <4>1. toDevice' = Append(toDevice, g)
        BY <3>2
      <4> HIDE DEF g
      <4>2. Range(toDevice') = Range(toDevice) \cup {g}
        BY <1>1, <4>1, RangeAppend
      <4>3. f = g
        BY <2>2, <4>2
      <4> QED BY <4>3 DEF g
    <3>5. spent.calls + 1 \in 0 .. spent.calls + 1
      BY DEF Identified
    <3> QED BY <2>1, <3>3, <3>4, <3>5 DEF Known, Asks
  <2> QED BY <2>1, <2>2 DEF Identified, Counted
<1>6. CASE ExecuteFrame
  <2> DEFINE f == Head(toDevice)
  <2>1. /\ toDevice # <<>> /\ toDevice' = Tail(toDevice) /\ device' = Execute(device, f)
        /\ wire' = wire \o Pushes(device', f) /\ Counted
    BY <1>3, <1>6 DEF ExecuteFrame
  <2>2. DOMAIN device' = DOMAIN Factory
    BY <2>1, QueueParts, ExecuteKeeps DEF Landing, Repeating
  <2>3. f \in Range(toDevice) /\ Range(toDevice') \subseteq Range(toDevice)
    BY <1>1, <2>1, RangeTail
  <2> HIDE DEF f
  <2>4. IsSeq(Pushes(device', f)) /\ \A m \in Range(Pushes(device', f)) : Says(m, f)
    BY <2>2, PushesSay
  <2>5. IsSeq(wire') /\ Range(wire') = Range(wire) \cup Range(Pushes(device', f))
    BY <2>1, <2>4, RangeConcat DEF Identified
  <2>6. \A m : Says(m, f) => Known(m, spent.calls)
    BY <2>3 DEF Says, Known, Identified
  <2> QED BY <2>1, <2>3, <2>4, <2>5, <2>6 DEF Identified, Counted
<1>7. CASE IgnoreFrame
  <2>1. toDevice # <<>> /\ toDevice' = Tail(toDevice) /\ wire' = wire /\ Counted
    BY <1>3, <1>7 DEF IgnoreFrame
  <2>2. Range(toDevice') \subseteq Range(toDevice)
    BY <1>1, <2>1, RangeTail
  <2> QED BY <2>1, <2>2 DEF Identified, Counted
<1>8. CASE Touch
  <2>1. toDevice' = toDevice /\ Counted
    BY <1>3, <1>8 DEF Touch
  <2>2. PICK m : wire' = Append(wire, m) /\ m.type \notin Numbered
    <3>1. \/ \E s : wire' = Append(wire, SelectScene(s))
          \/ wire' = Append(wire, IoUpdate(<<"plugged", "input", 1>>, TRUE))
      BY <1>8 DEF Touch
    <3>2. \A s : SelectScene(s).type \notin Numbered
      BY DEF SelectScene, Update, Frame, Numbered
    <3>3. IoUpdate(<<"plugged", "input", 1>>, TRUE).type \notin Numbered
      BY DEF IoUpdate, Update, Frame, Numbered
    <3> DEFINE m == IoUpdate(<<"plugged", "input", 1>>, TRUE)
    <3> HIDE DEF m
    <3> QED BY <3>1, <3>2, <3>3 DEF m
  <2>3. IsSeq(wire') /\ Range(wire') = Range(wire) \cup {m}
    BY <2>2, RangeAppend DEF Identified
  <2> QED BY <2>1, <2>2, <2>3 DEF Identified, Counted, Known
<1>9. CASE RaiseRaw
  <2>1. wire # <<>> /\ wire' = Tail(wire) /\ toDevice' = toDevice /\ Counted
    BY <1>3, <1>9 DEF RaiseRaw
  <2>2. IsSeq(wire') /\ Range(wire') \subseteq Range(wire)
    BY <2>1, RangeTail DEF Identified
  <2> QED BY <2>1, <2>2 DEF Identified, Counted
<1>10. CASE DecodePush \/ Verify \/ Confirm \/ CheckAssignment \/ GiveUp \/ UNCHANGED pathVars
  <2>1. wire' = wire /\ toDevice' = toDevice /\ Counted
    BY <1>3, <1>10 DEF DecodePush, Verify, Confirm, CheckAssignment, GiveUp, pathVars
  <2> QED BY <2>1 DEF Identified, Counted
<1> QED BY <1>4, <1>5, <1>6, <1>7, <1>8, <1>9, <1>10 DEF Next

-----------------------------------------------------------------------------
(***************************************************************************)
(* Reads: nothing under way is taken for an answer that is none            *)
(***************************************************************************)
(* A message of a read's type that is not its answer names another         *)
(* identifier, or none where the read has one.                             *)
Foreign(m, read) ==
    m.type = read.frame.type => read.id # {} /\ At1(m.fields, Id) # read.id

(* The decoder of a read makes nothing of a message that is foreign to it. *)
LEMMA ForeignTellsNothing ==
    ASSUME NEW read, NEW id, Asks(read, id), NEW m, Foreign(m, read), m.type = read.frame.type
    PROVE  Projected(read, m.fields) = {}
<1>1. read.id # {} /\ At1(m.fields, Id) # read.id /\ read.frame.type \in Numbered
  BY DEF Foreign, Asks
<1>2. CASE read.frame.type = 4
  BY <1>1, <1>2 DEF Projected, LibraryFiles, Id
<1>3. CASE read.frame.type = 20
  BY <1>1, <1>3 DEF Projected, RecentsFavorites, Id
<1>4. CASE read.frame.type = 25
  BY <1>1, <1>4 DEF Projected, DecodePresetScreenshot, Id
<1> QED BY <1>1, <1>2, <1>3, <1>4 DEF Numbered

(* What the device says of a frame that is foreign to a read is foreign to *)
(* it.                                                                     *)
LEMMA ForeignSays ==
    ASSUME NEW read, NEW id, Asks(read, id), NEW f, Foreign(f, read), NEW m, Says(m, f)
    PROVE  Foreign(m, read)
BY DEF Foreign, Asks, Says

(* The frame of a read is on its way to the device and nothing under way   *)
(* can be taken for its answer, or it has been executed and what can be    *)
(* taken for it is a reply that the device made when it was asked.         *)
Awaited(read) ==
    \/ \E s : /\ IsSeq(s) /\ toDevice = s \o <<read.frame>>
              /\ \A m \in Range(s) \cup Range(wire) : Foreign(m, read)
    \/ /\ toDevice = <<>>
       /\ \A m \in Range(wire) : Foreign(m, read) \/ m \in Range(Replies(call.before, read.frame))

(* What is claimed of a read that nobody's touch has spoiled and that has  *)
(* an identifier or did not cross a message of its type: it is awaited as  *)
(* above, or its answer is true.                                           *)
Told(read) ==
    ~call.touched /\ (read.id # {} \/ ~call.crossed) =>
      /\ call.phase = "settings" => ~call.ignored /\ Awaited(read)
      /\ call.phase = "idle" /\ call.answer = "verified" => ReadIsTrue(read)

(* The last call is a read; a read sends no writes and has the one plan it *)
(* waits for.                                                              *)
OfRead == call.number # 0 /\ Calls[call.number].method \in ReadMethods
Reading ==
    OfRead =>
      /\ call.phase \in {"settings", "idle"} /\ call.frames = <<>>
      /\ \A read \in call.readback :
            call.readback = {read} /\ (\E id : Asks(read, id)) /\ Told(read)

(* Nothing under way when a read begins can be taken for its answer.       *)
LEMMA ForeignAtFirst ==
    ASSUME Landing, Identified, NEW read, Asks(read, spent.calls + 1),
           read.id # {} \/ ~Crossed({read})
    PROVE  \A m \in Range(toDevice) \cup Range(wire) : Foreign(m, read)
<1> SUFFICES ASSUME NEW m \in Range(toDevice) \cup Range(wire), m.type = read.frame.type
             PROVE  read.id # {} /\ At1(m.fields, Id) # read.id
  BY DEF Foreign
<1>1. CASE read.id # {}
  <2>1. read.id = {spent.calls + 1} /\ read.frame.type \in Numbered
    BY <1>1 DEF Asks
  <2>2. At1(m.fields, Id) \subseteq 0 .. spent.calls
    BY <2>1 DEF Identified, Known
  <2>3. spent.calls + 1 \notin 0 .. spent.calls
    BY DEF Identified
  <2> QED BY <1>1, <2>1, <2>2, <2>3
<1>2. CASE ~Crossed({read})
  <2>1. IsSeq(toDevice) /\ IsSeq(wire)
    BY QueueParts DEF Landing, Identified
  <2>2. Range(toDevice \o wire) = Range(toDevice) \cup Range(wire)
    BY <2>1, RangeConcat
  <2> QED BY <1>2, <2>2 DEF Crossed
<1> QED BY <1>1, <1>2

(* So a read that begins is awaited.                                       *)
LEMMA AwaitedAtFirst ==
    ASSUME Landing, Identified, NEW read, Asks(read, spent.calls + 1),
           read.id # {} \/ ~Crossed({read}), toDevice' = Append(toDevice, read.frame), wire' = wire
    PROVE  Awaited(read)'
<1>1. IsSeq(toDevice)
  BY QueueParts DEF Landing
<1> DEFINE f == read.frame
<1>2. toDevice' = toDevice \o <<f>>
  BY <1>1, RangeAppend
<1>3. \A m \in Range(toDevice) \cup Range(wire') : Foreign(m, read)
  BY ForeignAtFirst
<1> QED BY <1>1, <1>2, <1>3 DEF Awaited

(* At first no call has been made.                                         *)
LEMMA ReadingInit == Init => Reading
BY DEF Init, Reading, OfRead, NoCall

(* A frame that is executed.                                               *)
LEMMA AwaitedOnward ==
    ASSUME Landing, Repeating, Identified, ExecuteFrame, NEW read, NEW id, Asks(read, id),
           Awaited(read), OfRead, Undisturbed, call.frames = <<>>
    PROVE  Awaited(read)'
<1> DEFINE f == Head(toDevice)
<1>1. /\ toDevice # <<>> /\ toDevice' = Tail(toDevice) /\ device' = Execute(device, f)
      /\ wire' = wire \o Pushes(device', f) /\ call' = call
  BY DEF ExecuteFrame
<1>2. DOMAIN device' = DOMAIN Factory
  BY <1>1, QueueParts, ExecuteKeeps DEF Landing, Repeating
<1>3. PICK s : /\ IsSeq(s) /\ toDevice = s \o <<read.frame>>
               /\ \A m \in Range(s) \cup Range(wire) : Foreign(m, read)
  BY <1>1 DEF Awaited
<1>4. IsSeq(wire) /\ IsSeq(toDevice)
  BY QueueParts DEF Identified, Landing
<1> HIDE DEF f
<1>5. IsSeq(Pushes(device', f)) /\ \A m \in Range(Pushes(device', f)) : Says(m, f)
  BY <1>2, PushesSay
<1>6. Range(wire') = Range(wire) \cup Range(Pushes(device', f))
  BY <1>1, <1>4, <1>5, RangeConcat
<1>7. CASE s # <<>>
  <2>1. f = Head(s) /\ toDevice' = Tail(s) \o <<read.frame>>
    BY <1>1, <1>3, <1>7, HeadOfMore DEF f
  <2>2. IsSeq(Tail(s)) /\ f \in Range(s) /\ Range(Tail(s)) \subseteq Range(s)
    BY <1>3, <1>7, <2>1, RangeTail
  <2>3. \A m \in Range(Pushes(device', f)) : Foreign(m, read)
    BY <1>3, <1>5, <2>2, ForeignSays
  <2>4. \A m \in Range(Tail(s)) \cup Range(wire') : Foreign(m, read)
    BY <1>3, <1>6, <2>2, <2>3
  <2> QED BY <2>1, <2>2, <2>4 DEF Awaited
<1>8. CASE s = <<>>
  <2>1. f = read.frame /\ toDevice' = <<>>
    BY <1>1, <1>3, <1>8, HeadOfMore DEF f
  <2>2. device' = call.before
    <3>1. Run(device, toDevice) = Run(call.before, <<>>)
      BY DEF Landing, OfRead
    <3>2. Run(device, toDevice) = Run(device', <<>>)
      BY <1>1, <1>4, <2>1, RunHead DEF f
    <3> QED BY <3>1, <3>2, RunNothing
  <2>3. Pushes(device', f) = Replies(call.before, read.frame)
    BY <2>1, <2>2 DEF Pushes, Asks
  <2> QED BY <1>1, <1>3, <1>6, <2>1, <2>3 DEF Awaited
<1> QED BY <1>7, <1>8

(* What hearing a message makes of a read: nothing, a failure, or what the *)
(* message tells.                                                          *)
LEMMA RaiseReads ==
    ASSUME CallFields, RaiseRaw, OfRead, call.phase \in {"settings", "idle"}, NEW read,
           call.readback = {read}
    PROVE  \/ call' = call
           \/ call'.phase = "idle" /\ call'.answer = "failed"
           \/ /\ call.phase = "settings" /\ Head(wire).type = read.frame.type
              /\ Projected(read, Head(wire).fields) # {}
              /\ call'.phase = "idle"
              /\ call'.reading = Projected(read, Head(wire).fields)
<1> DEFINE message == Head(wire)
           asked == {r \in call.readback :
                       call.phase = "settings" /\ r.frame.type = message.type}
           readings == UNION {Projected(r, message.fields) : r \in asked}
           found == IF Calls[call.number].method \in ReadMethods THEN readings ELSE {}
           answer == ReadbackAnswer(readings)
<1>1. \/ readings # {} /\ call' = [Answered(answer) EXCEPT !.reading = found]
      \/ call' = Answered("failed")
      \/ call.phase = "preset"
      \/ call' = call
  BY DEF RaiseRaw
<1>2. found = readings
  BY DEF OfRead
<1>3. readings # {} => /\ call.phase = "settings" /\ message.type = read.frame.type
                       /\ readings = Projected(read, message.fields)
  <2>1. \A r \in asked : r = read /\ call.phase = "settings" /\ message.type = read.frame.type
    OBVIOUS
  <2> HIDE DEF asked, message
  <2>2. asked # {} => readings = Projected(read, message.fields)
    BY <2>1
  <2>3. asked = {} => readings = {}
    OBVIOUS
  <2> QED BY <2>1, <2>2, <2>3
<1> HIDE DEF readings, found, answer, message
<1>4. ASSUME call' = [Answered(answer) EXCEPT !.reading = found]
      PROVE  call'.phase = "idle" /\ call'.reading = found
  BY <1>4 DEF Answered, CallFields, NoCall
<1>5. ASSUME call' = Answered("failed")
      PROVE  call'.phase = "idle" /\ call'.answer = "failed"
  BY <1>5 DEF Answered, CallFields, NoCall
<1>6. CASE readings # {} /\ call' = [Answered(answer) EXCEPT !.reading = found]
  BY <1>2, <1>3, <1>4, <1>6 DEF message
<1> QED BY <1>1, <1>5, <1>6

(* A read is awaited as long as nothing moves.                             *)
LEMMA AwaitedLater ==
    ASSUME NEW read, Awaited(read), toDevice' = toDevice, wire' = wire, call'.before = call.before
    PROVE  Awaited(read)'
BY DEF Awaited

(* A message that is taken leaves the others as they were.                 *)
LEMMA AwaitedTail ==
    ASSUME NEW read, Awaited(read), IsSeq(wire), wire # <<>>, wire' = Tail(wire),
           toDevice' = toDevice, call'.before = call.before
    PROVE  Awaited(read)'
<1>1. Range(wire') \subseteq Range(wire)
  BY RangeTail
<1> QED BY <1>1 DEF Awaited

(* A read is awaited until it is answered, and its answer stays.           *)
LEMMA ReadingNext ==
    Landing /\ Repeating /\ Identified /\ Reading /\ [Next]_pathVars => Reading'
<1> SUFFICES ASSUME Landing, Repeating, Identified, Reading, [Next]_pathVars PROVE Reading'
  OBVIOUS
<1>1. IsSeq(toDevice)
  BY QueueParts DEF Landing
<1>2. ASSUME NEW i \in DOMAIN Calls, NEW stale, Begin(i, stale) PROVE Reading'
  <2>1. Calls[i].method \notin ReadMethods
    BY <1>2 DEF Begin
  <2>2. call'.number = i
    <3>1. CASE Refuse(i, stale)
      BY <3>1, RefuseCalls
    <3>2. CASE ~Refuse(i, stale)
      <4>1. PICK plan : Send(i, plan, stale)
        BY <1>2, <3>2 DEF Begin
      <4> QED BY <2>1, <4>1, SendCalls
    <3> QED BY <3>1, <3>2
  <2> QED BY <2>1, <2>2 DEF Reading, OfRead
<1>3. ASSUME NEW i \in DOMAIN Calls, BeginRead(i) PROVE Reading'
  <2>1. Calls[i].method \in ReadMethods /\ wire' = wire
    BY <1>3 DEF BeginRead
  <2>2. CASE Refuse(i, FALSE)
    BY <2>2, RefuseCalls DEF Reading
  <2>3. CASE ~Refuse(i, FALSE)
    <3>1. PICK read \in PlanGatewayRead(Calls[i].method, Calls[i].p, spent.calls + 1) :
            /\ toDevice' = Append(toDevice, read.frame)
            /\ call' = [NoCall EXCEPT !.phase = "settings", !.number = i,
                                      !.before = Run(device, toDevice), !.readback = {read},
                                      !.crossed = Crossed({read})]
      BY <1>3, <2>3 DEF BeginRead
    <3>2. /\ call'.frames = <<>> /\ call'.phase = "settings" /\ call'.readback = {read}
          /\ call'.crossed = Crossed({read}) /\ ~call'.ignored
      BY <1>3, <3>1, ReadCalls
    <3>3. Asks(read, spent.calls + 1)
      BY <2>1, <3>1, PlansAsk
    <3>4. read.id # {} \/ ~call'.crossed => Awaited(read)'
      BY <2>1, <3>1, <3>2, <3>3, AwaitedAtFirst
    <3>5. Told(read)'
      BY <3>2, <3>3, <3>4 DEF Told
    <3> QED BY <3>2, <3>3, <3>5 DEF Reading
  <2> QED BY <2>2, <2>3
<1>4. ASSUME ExecuteFrame, OfRead, NEW read \in call.readback
      PROVE  Told(read)'
  <2>1. call' = call /\ call.frames = <<>> /\ Told(read) /\ \E id : Asks(read, id)
    BY <1>4 DEF ExecuteFrame, Reading
  <2>2. ASSUME ~call.touched, read.id # {} \/ ~call.crossed, call.phase = "settings"
        PROVE  Awaited(read)'
    <3>1. Undisturbed /\ Awaited(read)
      BY <2>1, <2>2 DEF Told, Undisturbed
    <3> QED BY <1>4, <2>1, <3>1, AwaitedOnward
  <2> QED BY <2>1, <2>2 DEF Told, ReadIsTrue
<1>5. CASE ExecuteFrame
  <2>1. call' = call
    BY <1>5 DEF ExecuteFrame
  <2> QED BY <1>4, <1>5, <2>1 DEF Reading, OfRead
<1>6. CASE IgnoreFrame \/ Touch
  <2>1. /\ call' \in {[call EXCEPT !.touched = TRUE], [call EXCEPT !.ignored = TRUE]}
    BY <1>6 DEF IgnoreFrame, Touch
  <2>2. /\ call'.number = call.number /\ call'.frames = call.frames
        /\ call'.before = call.before /\ call'.phase = call.phase
        /\ call'.readback = call.readback /\ call'.crossed = call.crossed
        /\ call'.answer = call.answer /\ call'.reading = call.reading
        /\ ~call'.touched => ~call.touched
    BY <2>1 DEF Landing, CallFields, NoCall
  <2>3. ASSUME OfRead, NEW read \in call.readback, ~call'.touched,
               read.id # {} \/ ~call.crossed, call.phase = "settings"
        PROVE  FALSE
    <3>1. Told(read) /\ call.frames = <<>> /\ call.readback = {read} /\ \E id : Asks(read, id)
      BY <2>3 DEF Reading
    <3>2. Awaited(read)
      BY <2>2, <2>3, <3>1 DEF Told
    <3>3. ~Touch /\ toDevice # <<>> /\ Head(toDevice).action # "Read"
      BY <1>6, <2>3 DEF IgnoreFrame, Touch, Landing, CallFields, NoCall
    <3>4. ~(Len(toDevice) > Len(call.frames) + Cardinality(call.readback))
      BY <1>6, <2>3, <3>3 DEF IgnoreFrame, Landing, CallFields, NoCall
    <3>5. Len(call.frames) = 0 /\ Cardinality(call.readback) = 1
      BY <3>1, FS_Singleton
    <3>6. PICK s : IsSeq(s) /\ toDevice = s \o <<read.frame>>
      BY <3>2, <3>3 DEF Awaited
    <3>7. Len(toDevice) = Len(s) + 1 /\ Len(s) \in Nat
      BY <3>6, RangeOne, RangeConcat DEF IsSeq
    <3>8. s # <<>>
      BY <3>1, <3>3, <3>6, HeadOfMore DEF Asks
    <3>9. Len(s) > 0
      BY <3>6, <3>8 DEF IsSeq
    <3> QED BY <3>4, <3>5, <3>7, <3>9
  <2>4. ASSUME OfRead, NEW read \in call.readback PROVE Told(read)'
    BY <2>2, <2>3, <2>4 DEF Told, Reading, ReadIsTrue
  <2> QED BY <2>2, <2>4 DEF Reading, OfRead
<1>7. CASE RaiseRaw
  <2>1. SameCall
    BY <1>7, CallGoesOn DEF Landing
  <2>2. toDevice' = toDevice /\ wire # <<>> /\ wire' = Tail(wire)
    BY <1>7 DEF RaiseRaw
  <2>3. ASSUME OfRead, call.readback = {} PROVE call'.phase \in {"settings", "idle"}
    <3>1. call.phase # "preset"
      BY <2>3 DEF Reading
    <3>2. call' = call
      <4> DEFINE asked == {r \in call.readback :
                             call.phase = "settings" /\ r.frame.type = Head(wire).type}
                 readings == UNION {Projected(r, Head(wire).fields) : r \in asked}
      <4>1. asked = {} /\ readings = {}
        BY <2>3
      <4> QED BY <1>7, <3>1, <4>1 DEF RaiseRaw
    <3> QED BY <2>3, <3>2 DEF Reading
  <2>4. ASSUME OfRead, NEW read \in call.readback
        PROVE  call'.phase \in {"settings", "idle"} /\ Told(read)'
    <3>1. /\ call.phase \in {"settings", "idle"} /\ call.readback = {read} /\ Told(read)
          /\ \E id : Asks(read, id)
      BY <2>4 DEF Reading
    <3>2. CASE call' = call
      <4>1. Awaited(read) => Awaited(read)'
        BY <2>2, <3>2, AwaitedTail DEF Identified
      <4> QED BY <3>1, <3>2, <4>1 DEF Told, ReadIsTrue
    <3>3. CASE call'.phase = "idle" /\ call'.answer = "failed"
      BY <3>3 DEF Told
    <3>4. CASE /\ call.phase = "settings" /\ Head(wire).type = read.frame.type
               /\ Projected(read, Head(wire).fields) # {}
               /\ call'.phase = "idle"
               /\ call'.reading = Projected(read, Head(wire).fields)
      <4>1. ASSUME ~call.touched, read.id # {} \/ ~call.crossed PROVE ReadIsTrue(read)'
        <5>1. Awaited(read)
          BY <3>1, <3>4, <4>1 DEF Told
        <5>2. Head(wire) \in Range(wire)
          BY <2>2, RangeTail DEF Identified
        <5>3. ~Foreign(Head(wire), read)
          BY <3>1, <3>4, ForeignTellsNothing
        <5>4. Head(wire) \in Range(Replies(call.before, read.frame))
          BY <5>1, <5>2, <5>3 DEF Awaited
        <5> QED BY <2>1, <3>4, <5>4 DEF ReadIsTrue, SameCall
      <4> QED BY <2>1, <3>4, <4>1 DEF Told, SameCall
    <3> QED BY <1>7, <2>4, <3>1, <3>2, <3>3, <3>4, RaiseReads DEF Landing
  <2>5. OfRead' => OfRead
    BY <2>1 DEF OfRead, SameCall
  <2>6. ASSUME OfRead PROVE call'.phase \in {"settings", "idle"}
    BY <2>3, <2>4, <2>6
  <2> QED BY <2>1, <2>4, <2>5, <2>6 DEF Reading, SameCall
<1>8. CASE DecodePush \/ GiveUp \/ Verify \/ Confirm \/ CheckAssignment
  <2>1. SameCall
    BY <1>8, CallGoesOn DEF Landing
  <2>2. toDevice' = toDevice /\ wire' = wire
    BY <1>8 DEF DecodePush, GiveUp, Verify, Confirm, CheckAssignment
  <2>3. ASSUME OfRead
        PROVE  \/ call'.phase = "idle" /\ call'.answer = "failed"
               \/ /\ call'.phase = call.phase /\ call'.answer = call.answer
                  /\ call'.reading = call.reading
    <3>1. ~Verify /\ ~Confirm /\ ~CheckAssignment
      BY <2>3 DEF Reading, Verify, Confirm, CheckAssignment
    <3>2. CASE DecodePush
      <4> DEFINE news == call.news \/ /\ call.phase \in {"preset", "verifying"}
                                      /\ Announced(Head(lane))
      <4>1. call' = [call EXCEPT !.news = news]
        BY <3>2 DEF DecodePush
      <4> HIDE DEF news
      <4> QED BY <4>1 DEF Landing, CallFields, NoCall
    <3>3. CASE GiveUp
      BY <3>3 DEF GiveUp, Answered, Landing, CallFields, NoCall
    <3> QED BY <1>8, <3>1, <3>2, <3>3
  <2>4. ASSUME OfRead, NEW read \in call.readback PROVE Told(read)'
    <3>1. Told(read)
      BY <2>4 DEF Reading
    <3>2. Awaited(read) => Awaited(read)'
      BY <2>1, <2>2, AwaitedLater DEF SameCall
    <3> QED BY <2>1, <2>3, <2>4, <3>1, <3>2 DEF Told, ReadIsTrue, SameCall
  <2> QED BY <2>1, <2>3, <2>4 DEF Reading, OfRead, SameCall
<1>9. CASE UNCHANGED pathVars
  BY <1>9 DEF pathVars, Reading, OfRead, Told, Awaited, ReadIsTrue
<1> QED BY <1>2, <1>3, <1>5, <1>6, <1>7, <1>8, <1>9 DEF Next

(* A read that is answered is true: what it found is in a reply of the     *)
(* device as it was when the read was asked (execute_gateway_read).        *)
THEOREM ReadsAreAlwaysTrue == Spec => []ReadsAreTrue
<1>1. Reading => ReadsAreTrue
  <2> SUFFICES ASSUME Reading, Done, ~call.touched, call.answer = "verified",
                      Calls[call.number].method \in ReadMethods, NEW read \in call.readback,
                      read.id # {} \/ ~call.crossed
               PROVE  ReadIsTrue(read)
    BY DEF ReadsAreTrue
  <2>1. Told(read)
    BY DEF Reading, OfRead, Done
  <2> QED BY <2>1 DEF Told, Done
<1> QED BY <1>1, LandingInit, LandingNext, RepeatingInit, RepeatingNext, IdentifiedInit,
           IdentifiedNext, ReadingInit, ReadingNext, PTL DEF Spec
=============================================================================
