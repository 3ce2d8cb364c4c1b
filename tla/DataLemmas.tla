----------------------------- MODULE DataLemmas -----------------------------
(***************************************************************************)
(* Facts about data on which the proofs of several modules rest.           *)
(*                                                                         *)
(* Some need induction. The induction theorems of the library take an      *)
(* operator as a parameter; here they are derived, for sets, from the fact *)
(* that < and the strict subset relation are well founded.                 *)
(***************************************************************************)
EXTENDS LocalStore, FiniteSetsExt, FiniteSetTheorems, SequenceTheorems, TLAPS

LEMMA LessIsWellFounded == IsWellFoundedOn({ss \in Nat \X Nat : ss[1] < ss[2]}, Nat)
BY NatLessThanWellFounded DEF OpToRel

LEMMA Least ==
  ASSUME NEW S \in SUBSET Nat, S # {}
  PROVE  \E m \in S : \A k \in S : m <= k
<1> DEFINE R == {ss \in Nat \X Nat : ss[1] < ss[2]}
<1>1. IsWellFoundedOn(R, Nat) BY LessIsWellFounded
<1>2. \A x, y \in Nat : <<x, y>> \in R <=> x < y OBVIOUS
<1> HIDE DEF R
<1>3. S \subseteq Nat OBVIOUS
<1>4. \E x \in S : \A y \in S : ~ (<<y, x>> \in R) BY <1>1, <1>3, WFMin
<1>5. PICK x \in S : \A y \in S : ~ (<<y, x>> \in R) BY <1>4
<1>6. ASSUME NEW y \in S PROVE x <= y
  <2>1. x \in Nat /\ y \in Nat BY <1>3
  <2>2. ~ (y < x) BY <1>2, <1>5, <2>1
  <2> QED BY <2>1, <2>2
<1> QED BY <1>6

LEMMA Induction ==
  ASSUME NEW S, 0 \in S, \A n \in Nat : n \in S => n + 1 \in S
  PROVE  Nat \subseteq S
<1> SUFFICES ASSUME NEW x \in Nat, x \notin S PROVE FALSE OBVIOUS
<1> DEFINE T == Nat \ S
<1>1. T \in SUBSET Nat /\ T # {} OBVIOUS
<1> HIDE DEF T
<1>2. PICK m \in T : \A k \in T : m <= k BY <1>1, Least
<1>3. m \in Nat /\ m \notin S /\ \A k \in Nat : k < m => k \in S
  BY <1>2 DEF T
<1>4. m # 0 BY <1>3
<1>5. m - 1 \in Nat /\ m - 1 \in S /\ (m - 1) + 1 = m BY <1>3, <1>4
<1> QED BY <1>3, <1>5

\* A set P of subsets of a finite set S that contains {} and, with every T, also
\* T and one element more, contains S and all subsets of S.
LEMMA FiniteInduction ==
  ASSUME NEW S, IsFiniteSet(S), NEW P, {} \in P,
         \A T \in SUBSET S : \A x \in T : T \ {x} \in P => T \in P
  PROVE  SUBSET S \subseteq P
<1> DEFINE Sized == {n \in Nat : \A T \in SUBSET S : Cardinality(T) = n => T \in P}
<1>1. \A T \in SUBSET S : IsFiniteSet(T) /\ Cardinality(T) \in Nat /\ (Cardinality(T) = 0 => T = {})
  BY FS_Subset, FS_CardinalityType, FS_EmptySet
<1>2. 0 \in Sized BY <1>1
<1>3. \A n \in Nat : n \in Sized => n + 1 \in Sized
  <2> SUFFICES ASSUME NEW n \in Nat, n \in Sized, NEW T \in SUBSET S, Cardinality(T) = n + 1
               PROVE  T \in P
    OBVIOUS
  <2>1. T # {} BY FS_EmptySet
  <2>2. PICK x \in T : TRUE BY <2>1
  <2>3. Cardinality(T \ {x}) = n
    <3>1. IsFiniteSet(T) BY <1>1
    <3>2. Cardinality(T \ {x}) = Cardinality(T) - 1 BY <2>2, <3>1, FS_RemoveElement
    <3> QED BY <3>2
  <2>4. T \ {x} \in SUBSET S OBVIOUS
  <2>5. T \ {x} \in P BY <2>3, <2>4
  <2> QED BY <2>2, <2>5
<1> HIDE DEF Sized
<1>4. Nat \subseteq Sized BY <1>2, <1>3, Induction
<1>5. SUFFICES ASSUME NEW T \in SUBSET S PROVE T \in P OBVIOUS
<1>6. Cardinality(T) \in Sized BY <1>1, <1>4
<1> QED BY <1>6 DEF Sized

\* A set P of subsets of S that contains a set whenever it contains all smaller ones.
LEMMA StrongFiniteInduction ==
  ASSUME NEW S, IsFiniteSet(S), NEW P,
         \A T \in SUBSET S : (\A U \in SUBSET T : U # T => U \in P) => T \in P
  PROVE  SUBSET S \subseteq P
<1> SUFFICES ASSUME NEW T0 \in SUBSET S, T0 \notin P PROVE FALSE OBVIOUS
<1> DEFINE R == StrictSubsetOrdering(S)
           Q == {T \in SUBSET S : T \notin P}
<1>1. FiniteSubsetsOf(S) = SUBSET S BY FS_FiniteSubsetsOfFinite
<1>2. IsWellFoundedOn(R, SUBSET S)
  <2>1. IsWellFoundedOn(StrictSubsetOrdering(S), FiniteSubsetsOf(S))
    BY FS_StrictSubsetOrderingWellFounded
  <2> QED BY <1>1, <2>1
<1>3. Q \subseteq SUBSET S /\ Q # {} OBVIOUS
<1>4. \A U, T \in SUBSET S : (U \subseteq T /\ U # T) => <<U, T>> \in R BY DEF StrictSubsetOrdering
<1> HIDE DEF R, Q
<1>5. PICK T \in Q : \A U \in Q : ~ (<<U, T>> \in R) BY <1>2, <1>3, WFMin
<1>6. T \in SUBSET S /\ T \notin P BY <1>5 DEF Q
<1>7. ASSUME NEW U \in SUBSET T, U # T PROVE U \in P
  <2>1. U \in SUBSET S BY <1>6
  <2>2. U \notin Q BY <1>4, <1>5, <1>6, <1>7, <2>1
  <2> QED BY <2>1, <2>2 DEF Q
<1> QED BY <1>6, <1>7

-----------------------------------------------------------------------------
(* The largest element of a finite set, and the image of one. *)

LEMMA ImageFinite ==
  ASSUME NEW S, IsFiniteSet(S), NEW f
  PROVE  IsFiniteSet({f[x] : x \in S})
<1> DEFINE I == {f[x] : x \in S}
           g == [x \in S |-> f[x]]
<1>1. g \in Surjection(S, I) BY DEF Surjection
<1> QED BY <1>1, FS_Surjection

LEMMA MaxExists ==
  ASSUME NEW S \in SUBSET Int, IsFiniteSet(S), S # {}
  PROVE  Max(S) \in S /\ \A y \in S : y <= Max(S)
<1> DEFINE P == {T \in SUBSET S : T # {} => \E x \in T : \A y \in T : x >= y}
<1>1. {} \in P OBVIOUS
<1>2. ASSUME NEW T \in SUBSET S, NEW x \in T, T \ {x} \in P
      PROVE  T \in P
  <2>1. CASE T \ {x} = {}
    <3>1. \A y \in T : y = x BY <2>1
    <3>2. x \in Int /\ x >= x OBVIOUS
    <3>3. \A y \in T : x >= y BY <3>1, <3>2
    <3> QED BY <3>3
  <2>2. CASE T \ {x} # {}
    <3>1. PICK z \in T \ {x} : \A y \in T \ {x} : z >= y BY <1>2, <2>2
    <3>2. x \in Int /\ z \in Int /\ \A y \in T : y \in Int OBVIOUS
    <3>3. CASE z >= x
      <4>1. \A y \in T : z >= y BY <3>1, <3>3
      <4> QED BY <4>1
    <3>4. CASE x > z
      <4>1. \A y \in T : x >= y BY <3>1, <3>2, <3>4
      <4> QED BY <4>1
    <3> QED BY <3>2, <3>3, <3>4
  <2> QED BY <2>1, <2>2
<1> HIDE DEF P
<1>3. SUBSET S \subseteq P BY <1>1, <1>2, FiniteInduction
<1>4. S \in P BY <1>3
<1>5. \E x \in S : \A y \in S : x >= y BY <1>4 DEF P
<1>6. Max(S) \in S /\ \A y \in S : Max(S) >= y BY <1>5 DEF Max
<1> QED BY <1>6

-----------------------------------------------------------------------------
(* Sums over finite sets. *)

\* The equation that SumFunctionOnSet(f, S) solves, and its value there.
Adds(f, S, h) ==
  h = [s \in SUBSET S |-> IF s = {} THEN 0
                          ELSE f[CHOOSE x \in s : TRUE] + h[s \ {CHOOSE x \in s : TRUE}]]

LEMMA SumSolves == \A f, S : SumFunctionOnSet(f, S) = (CHOOSE h : Adds(f, S, h))[S]
BY DEF SumFunctionOnSet, FoldFunctionOnSet, MapThenFoldSet, Adds

LEMMA Chosen == \A s : s # {} => (CHOOSE x \in s : TRUE) \in s
OBVIOUS

\* The equation has a solution: it is built for sets of at most n elements.
LEMMA AddsExists ==
  ASSUME NEW S, IsFiniteSet(S), NEW f
  PROVE  \E h : Adds(f, S, h)
<1> DEFINE UpTo(n) == {s \in SUBSET S : Cardinality(s) <= n}
           Body(h, s) == IF s = {} THEN 0
                         ELSE f[CHOOSE x \in s : TRUE] + h[s \ {CHOOSE x \in s : TRUE}]
           Good == {n \in Nat : \E h : h = [s \in UpTo(n) |-> Body(h, s)]}
<1>1. \A s \in SUBSET S : IsFiniteSet(s) /\ Cardinality(s) \in Nat /\ (Cardinality(s) = 0 <=> s = {})
  BY FS_Subset, FS_CardinalityType, FS_EmptySet
<1>2. 0 \in Good
  <2> DEFINE h == [s \in UpTo(0) |-> 0]
  <2>1. \A s \in UpTo(0) : s = {} BY <1>1
  <2>2. \A s \in UpTo(0) : Body(h, s) = 0 BY <2>1
  <2>3. h = [s \in UpTo(0) |-> Body(h, s)] BY <2>2
  <2> QED BY <2>3
<1>3. \A n \in Nat : n \in Good => n + 1 \in Good
  <2> SUFFICES ASSUME NEW n \in Nat, n \in Good PROVE n + 1 \in Good OBVIOUS
  <2>1. PICK h : h = [s \in UpTo(n) |-> Body(h, s)] OBVIOUS
  <2> DEFINE g == [s \in UpTo(n + 1) |-> IF s \in UpTo(n) THEN h[s] ELSE Body(h, s)]
  <2>2. ASSUME NEW s \in UpTo(n + 1), s # {}
        PROVE  s \ {CHOOSE x \in s : TRUE} \in UpTo(n) /\ s \ {CHOOSE x \in s : TRUE} \in UpTo(n + 1)
    <3>1. (CHOOSE x \in s : TRUE) \in s BY <2>2, Chosen
    <3>2. IsFiniteSet(s) /\ Cardinality(s) \in Nat /\ Cardinality(s) <= n + 1 BY <1>1
    <3>3. Cardinality(s \ {CHOOSE x \in s : TRUE}) = Cardinality(s) - 1 BY <3>1, <3>2, FS_RemoveElement
    <3>4. Cardinality(s \ {CHOOSE x \in s : TRUE}) <= n BY <3>2, <3>3
    <3>5. Cardinality(s \ {CHOOSE x \in s : TRUE}) <= n + 1 BY <3>2, <3>3
    <3> QED BY <3>4, <3>5
  <2>3. ASSUME NEW s \in UpTo(n + 1) PROVE Body(h, s) = Body(g, s)
    <3>1. CASE s = {} BY <3>1
    <3>2. CASE s # {}
      <4>1. s \ {CHOOSE x \in s : TRUE} \in UpTo(n) /\ s \ {CHOOSE x \in s : TRUE} \in UpTo(n + 1)
        BY <2>2, <3>2
      <4>2. g[s \ {CHOOSE x \in s : TRUE}] = h[s \ {CHOOSE x \in s : TRUE}] BY <4>1
      <4> QED BY <4>2
    <3> QED BY <3>1, <3>2
  <2>4. ASSUME NEW s \in UpTo(n + 1) PROVE g[s] = Body(h, s)
    <3>1. CASE s \in UpTo(n)
      <4>1. h[s] = Body(h, s) BY <2>1, <3>1
      <4> QED BY <3>1, <4>1
    <3>2. CASE s \notin UpTo(n) BY <3>2
    <3> QED BY <3>1, <3>2
  <2>5. g = [s \in UpTo(n + 1) |-> g[s]] OBVIOUS
  <2>6. \A s \in UpTo(n + 1) : g[s] = Body(g, s) BY <2>3, <2>4
  <2> HIDE DEF g, Body, UpTo
  <2>7. g = [s \in UpTo(n + 1) |-> Body(g, s)] BY <2>5, <2>6
  <2> QED BY <2>7
<1>4. Cardinality(S) \in Good
  <2> HIDE DEF Good
  <2>1. Nat \subseteq Good BY <1>2, <1>3, Induction
  <2> QED BY <1>1, <2>1
<1>5. UpTo(Cardinality(S)) = SUBSET S BY FS_Subset
<1>6. PICK h : h = [s \in UpTo(Cardinality(S)) |-> Body(h, s)] BY <1>4
<1> QED BY <1>5, <1>6 DEF Adds

\* Sums are integers and the order of the terms does not matter.
LEMMA AddsAnyOrder ==
  ASSUME NEW S, IsFiniteSet(S), NEW f, \A x \in S : f[x] \in Int, NEW h, Adds(f, S, h)
  PROVE  /\ h[{}] = 0
         /\ \A s \in SUBSET S : h[s] \in Int
         /\ \A s \in SUBSET S : \A x \in s : h[s] = f[x] + h[s \ {x}]
<1>1. h[{}] = 0 BY DEF Adds
<1>2. \A s \in SUBSET S : s # {} =>
        \E c \in s : h[s] = f[c] + h[s \ {c}]
  BY Chosen DEF Adds
<1> DEFINE P == {s \in SUBSET S : h[s] \in Int /\ \A x \in s : h[s] = f[x] + h[s \ {x}]}
<1>3. ASSUME NEW T \in SUBSET S, \A U \in SUBSET T : U # T => U \in P
      PROVE  T \in P
  <2>1. CASE T = {} BY <1>1, <2>1
  <2>2. CASE T # {}
    <3>1. PICK c \in T : h[T] = f[c] + h[T \ {c}] BY <1>2, <2>2
    <3>2. \A x \in T : T \ {x} \in P BY <1>3
    <3>3. f[c] \in Int /\ h[T \ {c}] \in Int BY <3>2
    <3>4. ASSUME NEW x \in T, x # c PROVE h[T] = f[x] + h[T \ {x}]
      <4>1. h[T \ {c}] = f[x] + h[(T \ {c}) \ {x}] BY <3>2, <3>4
      <4>2. h[T \ {x}] = f[c] + h[(T \ {x}) \ {c}] BY <3>2, <3>4
      <4>3. (T \ {c}) \ {x} = (T \ {x}) \ {c} OBVIOUS
      <4>4. (T \ {c}) \ {x} \in P
        <5>1. (T \ {c}) \ {x} \in SUBSET T /\ (T \ {c}) \ {x} # T BY <3>4
        <5> QED BY <1>3, <5>1
      <4>5. h[(T \ {c}) \ {x}] \in Int /\ f[x] \in Int /\ f[c] \in Int BY <4>4
      <4> HIDE DEF P
      <4>6. \A a, b, k, hc, hx, ht \in Int : (ht = a + hc /\ hc = b + k /\ hx = a + k) => ht = b + hx
        OBVIOUS
      <4>7. h[T \ {x}] \in Int
        <5>1. h[(T \ {x}) \ {c}] \in Int BY <4>3, <4>5
        <5> QED BY <4>2, <4>5, <5>1
      <4>8. h[T] \in Int BY <3>1, <3>3
      <4> QED BY <3>1, <4>1, <4>2, <4>3, <3>3, <4>5, <4>6, <4>7, <4>8
    <3>5. h[T] \in Int BY <3>1, <3>3
    <3> QED BY <3>1, <3>4, <3>5
  <2> QED BY <2>1, <2>2
<1>4. SUBSET S \subseteq P
  <2> HIDE DEF P
  <2> QED BY <1>3, StrongFiniteInduction
<1> QED BY <1>1, <1>4

\* Two functions that agree on a set have the same sum over it.
LEMMA AddsAgree ==
  ASSUME NEW S, IsFiniteSet(S), NEW T, IsFiniteSet(T), NEW f, NEW g,
         \A x \in S : f[x] \in Int, \A x \in T : g[x] \in Int,
         NEW h, Adds(f, S, h), NEW k, Adds(g, T, k),
         NEW U \in SUBSET (S \cap T), \A x \in U : f[x] = g[x]
  PROVE  h[U] = k[U]
<1> DEFINE P == {s \in SUBSET U : h[s] = k[s]}
<1>1. {} \in P BY AddsAnyOrder
<1>2. ASSUME NEW s \in SUBSET U, NEW x \in s, s \ {x} \in P PROVE s \in P
  <2>1. h[s] = f[x] + h[s \ {x}] BY AddsAnyOrder
  <2>2. k[s] = g[x] + k[s \ {x}] BY AddsAnyOrder
  <2> QED BY <1>2, <2>1, <2>2
<1>3. IsFiniteSet(U) BY FS_Subset
<1> HIDE DEF P
<1>4. SUBSET U \subseteq P BY <1>1, <1>2, <1>3, FiniteInduction
<1>5. U \in P BY <1>4
<1> QED BY <1>5 DEF P

LEMMA SumIs ==
  ASSUME NEW S, IsFiniteSet(S), NEW f
  PROVE  \E h : Adds(f, S, h) /\ SumFunctionOnSet(f, S) = h[S]
<1>1. Adds(f, S, CHOOSE h : Adds(f, S, h)) BY AddsExists
<1> QED BY <1>1, SumSolves

LEMMA SumEmpty == \A f : SumFunctionOnSet(f, {}) = 0
<1> TAKE f
<1>1. IsFiniteSet({}) BY FS_EmptySet
<1>2. PICK h : Adds(f, {}, h) /\ SumFunctionOnSet(f, {}) = h[{}] BY <1>1, SumIs
<1> QED BY <1>1, <1>2, AddsAnyOrder

LEMMA SumSame ==
  ASSUME NEW S, IsFiniteSet(S), NEW f, NEW g, \A x \in S : f[x] \in Int /\ f[x] = g[x]
  PROVE  SumFunctionOnSet(f, S) = SumFunctionOnSet(g, S)
<1>1. PICK h : Adds(f, S, h) /\ SumFunctionOnSet(f, S) = h[S] BY SumIs
<1>2. PICK k : Adds(g, S, k) /\ SumFunctionOnSet(g, S) = k[S] BY SumIs
<1>3. h[S] = k[S] BY <1>1, <1>2, AddsAgree
<1> QED BY <1>1, <1>2, <1>3

\* One term can be taken out.
LEMMA SumSplit ==
  ASSUME NEW S, IsFiniteSet(S), NEW f, \A x \in S : f[x] \in Int
  PROVE  /\ SumFunctionOnSet(f, S) \in Int
         /\ \A x \in S : /\ SumFunctionOnSet(f, S) = f[x] + SumFunctionOnSet(f, S \ {x})
                         /\ SumFunctionOnSet(f, S \ {x}) \in Int
<1>1. PICK h : Adds(f, S, h) /\ SumFunctionOnSet(f, S) = h[S] BY SumIs
<1>2. h[S] \in Int BY <1>1, AddsAnyOrder
<1>3. ASSUME NEW x \in S
      PROVE  /\ SumFunctionOnSet(f, S) = f[x] + SumFunctionOnSet(f, S \ {x})
             /\ SumFunctionOnSet(f, S \ {x}) \in Int
  <2>1. IsFiniteSet(S \ {x}) BY FS_RemoveElement
  <2>2. PICK k : Adds(f, S \ {x}, k) /\ SumFunctionOnSet(f, S \ {x}) = k[S \ {x}] BY <2>1, SumIs
  <2>3. h[S \ {x}] = k[S \ {x}] BY <1>1, <2>1, <2>2, AddsAgree
  <2>4. h[S] = f[x] + h[S \ {x}] BY <1>1, AddsAnyOrder
  <2>5. h[S \ {x}] \in Int BY <1>1, AddsAnyOrder
  <2> QED BY <1>1, <2>2, <2>3, <2>4, <2>5
<1> QED BY <1>1, <1>2, <1>3

\* One term changes.
LEMMA SumChange ==
  ASSUME NEW S, IsFiniteSet(S), NEW f, NEW g, NEW x \in S, g[x] \in Int,
         \A y \in S : f[y] \in Int, \A y \in S \ {x} : g[y] = f[y]
  PROVE  SumFunctionOnSet(g, S) = SumFunctionOnSet(f, S) + g[x] - f[x]
<1>1. \A y \in S : g[y] \in Int OBVIOUS
<1>2. /\ SumFunctionOnSet(f, S) = f[x] + SumFunctionOnSet(f, S \ {x})
      /\ SumFunctionOnSet(f, S \ {x}) \in Int
  BY SumSplit
<1>3. SumFunctionOnSet(g, S) = g[x] + SumFunctionOnSet(g, S \ {x}) BY <1>1, SumSplit
<1>4. IsFiniteSet(S \ {x}) BY FS_RemoveElement
<1>5. SumFunctionOnSet(g, S \ {x}) = SumFunctionOnSet(f, S \ {x}) BY <1>4, SumSame
<1>6. \A a, b, c \in Int : b + c = a + c + b - a OBVIOUS
<1> QED BY <1>2, <1>3, <1>5, <1>6

\* The sum of nothing but zeros.
LEMMA SumZero ==
  ASSUME NEW S, IsFiniteSet(S), NEW f, \A x \in S : f[x] = 0
  PROVE  SumFunctionOnSet(f, S) = 0
<1>1. PICK h : Adds(f, S, h) /\ SumFunctionOnSet(f, S) = h[S] BY SumIs
<1> DEFINE P == {s \in SUBSET S : h[s] = 0}
<1>2. {} \in P BY <1>1, AddsAnyOrder
<1>3. ASSUME NEW s \in SUBSET S, NEW x \in s, s \ {x} \in P PROVE s \in P
  <2>1. h[s] = f[x] + h[s \ {x}] BY <1>1, AddsAnyOrder
  <2> QED BY <1>3, <2>1
<1> HIDE DEF P
<1>4. SUBSET S \subseteq P BY <1>2, <1>3, FiniteInduction
<1>5. S \in P BY <1>4
<1> QED BY <1>1, <1>5 DEF P

-----------------------------------------------------------------------------
(* The stacks of handlers of module Services: what a handler that goes on, *)
(* calls, returns or panics does to the stack of its client. An            *)
(* application gives the frames its handlers can have, the pairs of a      *)
(* handler and the one that waits for it, and the frames a client's        *)
(* request can start with.                                                 *)

\* The stacks whose frames are in F, whose innermost frame is in Heads and
\* whose outermost in Bottoms, with each pair of neighbours in Links.
Stacks(F, Heads, Links, Bottoms) ==
  {s \in Seq(F) : s # <<>> =>
     /\ s[1] \in Heads /\ s[Len(s)] \in Bottoms
     /\ \A i \in 1 .. Len(s) - 1 : <<s[i], s[i + 1]>> \in Links}

LEMMA StackParts ==
  ASSUME NEW F, NEW s \in Seq(F), s # <<>>
  PROVE  /\ Len(s) \in Nat /\ Len(s) >= 1 /\ Head(s) = s[1] /\ Head(s) \in F
         /\ \A i \in 1 .. Len(s) : s[i] \in F
         /\ Tail(s) \in Seq(F) /\ Len(Tail(s)) = Len(s) - 1
         /\ \A i \in 1 .. Len(s) - 1 : Tail(s)[i] = s[i + 1]
BY HeadTailProperties, LenProperties, EmptySeq, ElementOfSeq

LEMMA OneMore ==
  ASSUME NEW F, NEW t \in Seq(F), NEW g \in F
  PROVE  /\ <<g>> \o t \in Seq(F) /\ Len(<<g>> \o t) = Len(t) + 1
         /\ (<<g>> \o t)[1] = g
         /\ \A i \in 1 .. Len(t) : (<<g>> \o t)[i + 1] = t[i]
<1>1. <<g>> \in Seq(F) /\ Len(<<g>>) = 1 /\ <<g>>[1] = g OBVIOUS
<1>2. /\ <<g>> \o t \in Seq(F) /\ Len(<<g>> \o t) = Len(<<g>>) + Len(t)
      /\ \A i \in 1 .. Len(<<g>>) + Len(t) :
           (<<g>> \o t)[i] = IF i <= Len(<<g>>) THEN <<g>>[i] ELSE t[i - Len(<<g>>)]
  BY <1>1, ConcatProperties
<1>3. Len(t) \in Nat BY LenProperties
<1> QED BY <1>1, <1>2, <1>3

LEMMA TwoMore ==
  ASSUME NEW F, NEW t \in Seq(F), NEW g \in F, NEW h \in F
  PROVE  /\ <<h, g>> \o t \in Seq(F) /\ Len(<<h, g>> \o t) = Len(t) + 2
         /\ (<<h, g>> \o t)[1] = h /\ (<<h, g>> \o t)[2] = g
         /\ \A i \in 1 .. Len(t) : (<<h, g>> \o t)[i + 2] = t[i]
<1>1. <<h, g>> \in Seq(F) /\ Len(<<h, g>>) = 2 /\ <<h, g>>[1] = h /\ <<h, g>>[2] = g OBVIOUS
<1>2. /\ <<h, g>> \o t \in Seq(F) /\ Len(<<h, g>> \o t) = Len(<<h, g>>) + Len(t)
      /\ \A i \in 1 .. Len(<<h, g>>) + Len(t) :
           (<<h, g>> \o t)[i] = IF i <= Len(<<h, g>>) THEN <<h, g>>[i] ELSE t[i - Len(<<h, g>>)]
  BY <1>1, ConcatProperties
<1>3. Len(t) \in Nat BY LenProperties
<1> QED BY <1>1, <1>2, <1>3

\* The innermost handler goes on.
LEMMA TopReplaced ==
  ASSUME NEW F, NEW s \in Seq(F), s # <<>>, NEW g \in F
  PROVE  /\ <<g>> \o Tail(s) \in Seq(F) /\ Len(<<g>> \o Tail(s)) = Len(s)
         /\ (<<g>> \o Tail(s))[1] = g
         /\ \A i \in 2 .. Len(s) : (<<g>> \o Tail(s))[i] = s[i]
<1> DEFINE t == Tail(s)  n == <<g>> \o t
<1>1. /\ Len(s) \in Nat /\ Len(s) >= 1 /\ t \in Seq(F) /\ Len(t) = Len(s) - 1
      /\ \A i \in 1 .. Len(s) - 1 : t[i] = s[i + 1]
  BY StackParts
<1>2. /\ n \in Seq(F) /\ Len(n) = Len(t) + 1 /\ n[1] = g
      /\ \A i \in 1 .. Len(t) : n[i + 1] = t[i]
  BY <1>1, OneMore
<1>3. ASSUME NEW i \in 2 .. Len(s) PROVE n[i] = s[i]
  <2>1. i - 1 \in 1 .. Len(t) /\ (i - 1) + 1 = i BY <1>1
  <2> HIDE DEF n, t
  <2> QED BY <1>1, <1>2, <2>1
<1> QED BY <1>1, <1>2, <1>3

\* The innermost handler calls another one.
LEMMA TopCalls ==
  ASSUME NEW F, NEW s \in Seq(F), s # <<>>, NEW g \in F, NEW h \in F
  PROVE  /\ <<h, g>> \o Tail(s) \in Seq(F) /\ Len(<<h, g>> \o Tail(s)) = Len(s) + 1
         /\ (<<h, g>> \o Tail(s))[1] = h /\ (<<h, g>> \o Tail(s))[2] = g
         /\ \A i \in 3 .. Len(s) + 1 : (<<h, g>> \o Tail(s))[i] = s[i - 1]
<1> DEFINE t == Tail(s)  n == <<h, g>> \o t
<1>1. /\ Len(s) \in Nat /\ Len(s) >= 1 /\ t \in Seq(F) /\ Len(t) = Len(s) - 1
      /\ \A i \in 1 .. Len(s) - 1 : t[i] = s[i + 1]
  BY StackParts
<1>2. /\ n \in Seq(F) /\ Len(n) = Len(t) + 2 /\ n[1] = h /\ n[2] = g
      /\ \A i \in 1 .. Len(t) : n[i + 2] = t[i]
  BY <1>1, TwoMore
<1>3. ASSUME NEW i \in 3 .. Len(s) + 1 PROVE n[i] = s[i - 1]
  <2>1. i - 2 \in 1 .. Len(t) /\ (i - 2) + 2 = i /\ (i - 2) + 1 = i - 1 BY <1>1
  <2> HIDE DEF n, t
  <2> QED BY <1>1, <1>2, <2>1
<1> QED BY <1>1, <1>2, <1>3

\* The innermost handler returns to the one that waits for it.
LEMMA TopReturns ==
  ASSUME NEW F, NEW s \in Seq(F), Len(s) > 1, NEW g \in F
  PROVE  /\ <<g>> \o Tail(Tail(s)) \in Seq(F) /\ Len(<<g>> \o Tail(Tail(s))) = Len(s) - 1
         /\ (<<g>> \o Tail(Tail(s)))[1] = g
         /\ \A i \in 2 .. Len(s) - 1 : (<<g>> \o Tail(Tail(s)))[i] = s[i + 1]
<1> DEFINE t == Tail(s)  u == Tail(t)  n == <<g>> \o u
<1>0. s # <<>> /\ Len(s) \in Nat BY LenProperties, EmptySeq
<1>1. /\ t \in Seq(F) /\ Len(t) = Len(s) - 1
      /\ \A i \in 1 .. Len(s) - 1 : t[i] = s[i + 1]
  BY <1>0, StackParts
<1>2. t # <<>> /\ Len(t) \in Nat BY <1>0, <1>1, EmptySeq, LenProperties
<1>3. u \in Seq(F) /\ Len(u) = Len(t) - 1 /\ \A i \in 1 .. Len(t) - 1 : u[i] = t[i + 1]
  <2> HIDE DEF t
  <2> QED BY <1>1, <1>2, StackParts
<1>4. /\ n \in Seq(F) /\ Len(n) = Len(u) + 1 /\ n[1] = g
      /\ \A i \in 1 .. Len(u) : n[i + 1] = u[i]
  <2> HIDE DEF u
  <2> QED BY <1>3, OneMore
<1>5. ASSUME NEW i \in 2 .. Len(s) - 1 PROVE n[i] = s[i + 1]
  <2>1. i - 1 \in 1 .. Len(u) /\ (i - 1) + 1 = i /\ i \in 1 .. Len(s) - 1 BY <1>0, <1>1, <1>3
  <2> HIDE DEF n, u, t
  <2> QED BY <1>1, <1>3, <1>4, <2>1
<1> QED BY <1>0, <1>1, <1>3, <1>4, <1>5

-----------------------------------------------------------------------------
(* The same steps keep a stack well formed. *)

LEMMA StackReplaced ==
  ASSUME NEW F, NEW Heads, NEW Links, NEW Bottoms, NEW s \in Stacks(F, Heads, Links, Bottoms),
         s # <<>>, NEW g \in F, g \in Heads, s[1] \in Bottoms => g \in Bottoms,
         \A x \in F : <<s[1], x>> \in Links => <<g, x>> \in Links
  PROVE  <<g>> \o Tail(s) \in Stacks(F, Heads, Links, Bottoms)
<1> DEFINE n == <<g>> \o Tail(s)
<1>1. /\ s \in Seq(F) /\ s[Len(s)] \in Bottoms
      /\ \A i \in 1 .. Len(s) - 1 : <<s[i], s[i + 1]>> \in Links
  BY DEF Stacks
<1>2. Len(s) \in Nat /\ Len(s) >= 1 /\ \A i \in 1 .. Len(s) : s[i] \in F BY <1>1, StackParts
<1>3. n \in Seq(F) /\ Len(n) = Len(s) /\ n[1] = g /\ \A i \in 2 .. Len(s) : n[i] = s[i]
  BY <1>1, TopReplaced
<1> HIDE DEF n
<1>4. n[Len(n)] \in Bottoms
  <2>1. CASE Len(s) = 1 BY <1>1, <1>3, <2>1
  <2>2. CASE Len(s) # 1 BY <1>1, <1>2, <1>3, <2>2
  <2> QED BY <2>1, <2>2
<1>5. ASSUME NEW i \in 1 .. Len(n) - 1 PROVE <<n[i], n[i + 1]>> \in Links
  <2>1. i \in 1 .. Len(s) - 1 /\ i + 1 \in 2 .. Len(s) /\ n[i + 1] = s[i + 1] /\ s[i + 1] \in F
    BY <1>2, <1>3
  <2>2. <<s[i], s[i + 1]>> \in Links BY <1>1, <2>1
  <2>3. CASE i = 1 BY <1>3, <2>1, <2>2, <2>3
  <2>4. CASE i # 1
    <3>1. n[i] = s[i] BY <1>3, <2>1, <2>4
    <3> QED BY <2>1, <2>2, <3>1
  <2> QED BY <2>3, <2>4
<1>6. n \in Stacks(F, Heads, Links, Bottoms) BY <1>3, <1>4, <1>5 DEF Stacks
<1> QED BY <1>6 DEF n

LEMMA StackCalls ==
  ASSUME NEW F, NEW Heads, NEW Links, NEW Bottoms, NEW s \in Stacks(F, Heads, Links, Bottoms),
         s # <<>>, NEW g \in F, NEW h \in F, h \in Heads, <<h, g>> \in Links,
         s[1] \in Bottoms => g \in Bottoms,
         \A x \in F : <<s[1], x>> \in Links => <<g, x>> \in Links
  PROVE  <<h, g>> \o Tail(s) \in Stacks(F, Heads, Links, Bottoms)
<1> DEFINE n == <<h, g>> \o Tail(s)
<1>1. /\ s \in Seq(F) /\ s[Len(s)] \in Bottoms
      /\ \A i \in 1 .. Len(s) - 1 : <<s[i], s[i + 1]>> \in Links
  BY DEF Stacks
<1>2. Len(s) \in Nat /\ Len(s) >= 1 /\ \A i \in 1 .. Len(s) : s[i] \in F BY <1>1, StackParts
<1>3. /\ n \in Seq(F) /\ Len(n) = Len(s) + 1 /\ n[1] = h /\ n[2] = g
      /\ \A i \in 3 .. Len(s) + 1 : n[i] = s[i - 1]
  BY <1>1, TopCalls
<1> HIDE DEF n
<1>4. n[Len(n)] \in Bottoms
  <2>1. CASE Len(s) = 1 BY <1>1, <1>3, <2>1
  <2>2. CASE Len(s) # 1
    <3>1. Len(s) \in Nat /\ Len(s) # 1 /\ Len(s) >= 1 BY <1>2, <2>2
    <3>2. \A k \in Nat : k # 1 /\ k >= 1 => k + 1 \in 3 .. k + 1 /\ (k + 1) - 1 = k OBVIOUS
    <3>3. Len(s) + 1 \in 3 .. Len(s) + 1 /\ (Len(s) + 1) - 1 = Len(s) BY <3>1, <3>2
    <3> QED BY <1>1, <1>3, <3>3
  <2> QED BY <2>1, <2>2
<1>5. ASSUME NEW i \in 1 .. Len(n) - 1 PROVE <<n[i], n[i + 1]>> \in Links
  <2>1. CASE i = 1 BY <1>3, <2>1
  <2>2. CASE i = 2
    <3>1. Len(s) >= 2 /\ 3 \in 3 .. Len(s) + 1 BY <1>2, <1>3, <2>2
    <3>2. n[3] = s[2] /\ s[2] \in F /\ <<s[1], s[2]>> \in Links BY <1>1, <1>2, <1>3, <3>1
    <3> QED BY <1>3, <2>2, <3>2
  <2>3. CASE i # 1 /\ i # 2
    <3>1. /\ i \in 3 .. Len(s) + 1 /\ i + 1 \in 3 .. Len(s) + 1
          /\ (i + 1) - 1 = (i - 1) + 1 /\ i - 1 \in 1 .. Len(s) - 1
      BY <1>2, <1>3, <2>3
    <3>2. n[i] = s[i - 1] /\ n[i + 1] = s[(i - 1) + 1] BY <1>3, <3>1
    <3> QED BY <1>1, <3>1, <3>2
  <2> QED BY <2>1, <2>2, <2>3
<1>6. n \in Stacks(F, Heads, Links, Bottoms) BY <1>2, <1>3, <1>4, <1>5 DEF Stacks
<1> QED BY <1>6 DEF n

LEMMA StackReturns ==
  ASSUME NEW F, NEW Heads, NEW Links, NEW Bottoms, NEW s \in Stacks(F, Heads, Links, Bottoms),
         Len(s) > 1, NEW g \in F, g \in Heads, s[2] \in Bottoms => g \in Bottoms,
         \A x \in F : <<s[2], x>> \in Links => <<g, x>> \in Links
  PROVE  <<g>> \o Tail(Tail(s)) \in Stacks(F, Heads, Links, Bottoms)
<1> DEFINE n == <<g>> \o Tail(Tail(s))
<1>0. s # <<>> /\ s \in Seq(F) BY EmptySeq DEF Stacks
<1>1. /\ s \in Seq(F) /\ s[Len(s)] \in Bottoms
      /\ \A i \in 1 .. Len(s) - 1 : <<s[i], s[i + 1]>> \in Links
  BY <1>0 DEF Stacks
<1>2. Len(s) \in Nat /\ Len(s) >= 1 /\ \A i \in 1 .. Len(s) : s[i] \in F BY <1>0, StackParts
<1>3. /\ n \in Seq(F) /\ Len(n) = Len(s) - 1 /\ n[1] = g
      /\ \A i \in 2 .. Len(s) - 1 : n[i] = s[i + 1]
  BY <1>1, TopReturns
<1> HIDE DEF n
<1>4. n[Len(n)] \in Bottoms
  <2>1. CASE Len(s) = 2 BY <1>1, <1>3, <2>1
  <2>2. CASE Len(s) # 2
    <3>1. Len(s) \in Nat /\ Len(s) # 2 /\ Len(s) > 1 BY <1>2, <2>2
    <3>2. \A k \in Nat : k # 2 /\ k > 1 => k - 1 \in 2 .. k - 1 /\ (k - 1) + 1 = k OBVIOUS
    <3>3. Len(s) - 1 \in 2 .. Len(s) - 1 /\ (Len(s) - 1) + 1 = Len(s) BY <3>1, <3>2
    <3> QED BY <1>1, <1>3, <3>3
  <2> QED BY <2>1, <2>2
<1>5. ASSUME NEW i \in 1 .. Len(n) - 1 PROVE <<n[i], n[i + 1]>> \in Links
  <2>1. i + 1 \in 2 .. Len(s) - 1 /\ n[i + 1] = s[(i + 1) + 1] /\ s[(i + 1) + 1] \in F
    BY <1>2, <1>3
  <2>2. <<s[i + 1], s[(i + 1) + 1]>> \in Links BY <1>1, <1>2, <2>1
  <2>3. CASE i = 1 BY <1>3, <2>1, <2>2, <2>3
  <2>4. CASE i # 1
    <3>1. n[i] = s[i + 1] BY <1>2, <1>3, <2>4
    <3> QED BY <2>1, <2>2, <3>1
  <2> QED BY <2>3, <2>4
<1>6. n # <<>> /\ Len(n) \in Nat BY <1>2, <1>3, EmptySeq
<1>7. n \in Stacks(F, Heads, Links, Bottoms) BY <1>3, <1>4, <1>5, <1>6 DEF Stacks
<1> QED BY <1>7 DEF n

\* Short sequences grow.
LEMMA AppendSecond ==
  ASSUME NEW x, NEW y
  PROVE  Append(<<x>>, y) = <<x, y>>
<1> DEFINE S == {x, y}
           s == Append(<<x>>, y)
           t == <<x, y>>
<1>1. <<x>> \in Seq(S) /\ Len(<<x>>) = 1 /\ <<x>>[1] = x OBVIOUS
<1>2. s \in Seq(S) /\ Len(s) = 2 /\ s[1] = x /\ s[2] = y
  BY <1>1, AppendProperties
<1>3. t \in Seq(S) /\ Len(t) = 2 /\ t[1] = x /\ t[2] = y OBVIOUS
<1> HIDE DEF s, t, S
<1>4. \A i \in 1 .. Len(s) : s[i] = t[i]
  <2>1. \A i \in 1 .. 2 : i = 1 \/ i = 2 OBVIOUS
  <2> QED BY <1>2, <1>3, <2>1
<1>5. s = t BY <1>2, <1>3, <1>4, SeqEqual
<1> QED BY <1>5 DEF s, t

LEMMA AppendThird ==
  ASSUME NEW x, NEW y, NEW z
  PROVE  Append(<<x, y>>, z) = <<x, y, z>>
<1> DEFINE S == {x, y, z}
           s == Append(<<x, y>>, z)
           t == <<x, y, z>>
<1>1. <<x, y>> \in Seq(S) /\ Len(<<x, y>>) = 2 /\ <<x, y>>[1] = x /\ <<x, y>>[2] = y OBVIOUS
<1>2. s \in Seq(S) /\ Len(s) = 3 /\ s[1] = x /\ s[2] = y /\ s[3] = z
  BY <1>1, AppendProperties
<1>3. t \in Seq(S) /\ Len(t) = 3 /\ t[1] = x /\ t[2] = y /\ t[3] = z OBVIOUS
<1> HIDE DEF s, t, S
<1>4. \A i \in 1 .. Len(s) : s[i] = t[i]
  <2>1. \A i \in 1 .. 3 : i = 1 \/ i = 2 \/ i = 3 OBVIOUS
  <2> QED BY <1>2, <1>3, <2>1
<1>5. s = t BY <1>2, <1>3, <1>4, SeqEqual
<1> QED BY <1>5 DEF s, t

-----------------------------------------------------------------------------
(* Stored values and bounded lists. *)

LEMMA StoredType ==
  ASSUME NEW state, NEW Keys, NEW Values, StateOf(state, Keys, Values),
         NEW key \in Keys, NEW value \in Values
  PROVE  StateOf(SetState(state, key, value), Keys, Values)
BY DEF StateOf, SetState

LEMMA DroppedOldest ==
  ASSUME NEW S, NEW list \in Seq(S), NEW bound \in Nat \ {0}, Len(list) <= bound
  PROVE  /\ DropOldest(list, bound) \in Seq(S) /\ Len(DropOldest(list, bound)) < bound
         /\ \/ DropOldest(list, bound) = list
            \/ /\ Len(list) = bound /\ Len(DropOldest(list, bound)) = Len(list) - 1
               /\ \A i \in 1 .. Len(list) - 1 : DropOldest(list, bound)[i] = list[i + 1]
<1>1. Len(list) \in Nat BY LenProperties
<1>2. CASE Len(list) >= bound
  <2>1. list # <<>> BY <1>2, EmptySeq
  <2>2. /\ Tail(list) \in Seq(S) /\ Len(Tail(list)) = Len(list) - 1
        /\ \A i \in 1 .. Len(list) - 1 : Tail(list)[i] = list[i + 1]
    BY <2>1, StackParts
  <2>3. DropOldest(list, bound) = Tail(list) BY <1>2 DEF DropOldest
  <2>4. Len(list) = bound BY <1>1, <1>2
  <2>5. bound - 1 < bound OBVIOUS
  <2> QED BY <2>2, <2>3, <2>4, <2>5
<1>3. CASE ~ (Len(list) >= bound) BY <1>1, <1>3 DEF DropOldest
<1> QED BY <1>2, <1>3

\* The list after an element was appended: d is how many were dropped.
LEMMA KeptList ==
  ASSUME NEW S, NEW list \in Seq(S), NEW bound \in Nat \ {0}, Len(list) <= bound, NEW x \in S
  PROVE  \E d \in {0, 1} :
           /\ Append(DropOldest(list, bound), x) \in Seq(S)
           /\ Len(Append(DropOldest(list, bound), x)) = Len(list) - d + 1
           /\ Len(list) - d + 1 <= bound /\ Len(list) - d \in Nat
           /\ \A i \in 1 .. Len(list) - d : Append(DropOldest(list, bound), x)[i] = list[i + d]
           /\ Append(DropOldest(list, bound), x)[Len(list) - d + 1] = x
<1> DEFINE k == DropOldest(list, bound)  n == Append(k, x)
<1>1. /\ k \in Seq(S) /\ Len(k) < bound
      /\ \/ k = list
         \/ /\ Len(list) = bound /\ Len(k) = Len(list) - 1
            /\ \A i \in 1 .. Len(list) - 1 : k[i] = list[i + 1]
  BY DroppedOldest
<1> HIDE DEF k
<1>2. /\ n \in Seq(S) /\ Len(n) = Len(k) + 1 /\ n[Len(k) + 1] = x
      /\ \A i \in 1 .. Len(k) : n[i] = k[i]
  BY <1>1, AppendProperties
<1>3. Len(list) \in Nat /\ Len(k) \in Nat BY <1>1, LenProperties
<1> HIDE DEF n
<1>4. CASE k = list
  <2>1. /\ Len(n) = Len(list) - 0 + 1 /\ Len(list) - 0 + 1 <= bound /\ Len(list) - 0 \in Nat
        /\ n[Len(list) - 0 + 1] = x
    BY <1>1, <1>2, <1>3, <1>4
  <2>2. \A i \in 1 .. Len(list) - 0 : n[i] = list[i + 0] BY <1>2, <1>3, <1>4
  <2> QED BY <1>2, <2>1, <2>2 DEF n, k
<1>5. CASE /\ Len(list) = bound /\ Len(k) = Len(list) - 1
           /\ \A i \in 1 .. Len(list) - 1 : k[i] = list[i + 1]
  <2>1. /\ Len(n) = Len(list) - 1 + 1 /\ Len(list) - 1 + 1 <= bound /\ Len(list) - 1 \in Nat
        /\ n[Len(list) - 1 + 1] = x
    BY <1>1, <1>2, <1>3, <1>5
  <2>2. \A i \in 1 .. Len(list) - 1 : n[i] = list[i + 1] BY <1>2, <1>3, <1>5
  <2> QED BY <1>2, <2>1, <2>2 DEF n, k
<1> QED BY <1>1, <1>4, <1>5

LEMMA NewestParts ==
  ASSUME NEW S, NEW list \in Seq(S), NEW bound \in Nat
  PROVE  /\ Newest(list, bound) \in Seq(S)
         /\ Len(Newest(list, bound)) = IF Len(list) > bound THEN bound ELSE Len(list)
         /\ \A i \in 1 .. Len(Newest(list, bound)) :
              Newest(list, bound)[i] = list[Len(list) - Len(Newest(list, bound)) + i]
<1>1. Len(list) \in Nat BY LenProperties
<1>2. CASE Len(list) > bound
  <2> DEFINE m == Len(list) - bound + 1
  <2>1. m \in Int /\ \A i \in m .. Len(list) : i \in 1 .. Len(list) BY <1>1, <1>2
  <2>2. \A i \in m .. Len(list) : list[i] \in S BY <2>1, ElementOfSeq
  <2>3. Newest(list, bound) = SubSeq(list, m, Len(list)) BY <1>2 DEF Newest
  <2> HIDE DEF m
  <2>4. /\ SubSeq(list, m, Len(list)) \in Seq(S)
        /\ Len(SubSeq(list, m, Len(list))) = IF m <= Len(list) THEN Len(list) - m + 1 ELSE 0
        /\ \A i \in 1 .. Len(list) - m + 1 : SubSeq(list, m, Len(list))[i] = list[m + i - 1]
    BY <1>1, <2>1, <2>2, SubSeqProperties
  <2>5. Len(SubSeq(list, m, Len(list))) = bound
        /\ \A i \in 1 .. bound : i \in 1 .. Len(list) - m + 1 /\ m + i - 1 = Len(list) - bound + i
    BY <1>1, <1>2, <2>4 DEF m
  <2> QED BY <1>2, <2>3, <2>4, <2>5
<1>3. CASE ~ (Len(list) > bound)
  <2>1. Newest(list, bound) = list BY <1>3 DEF Newest
  <2>2. \A i \in 1 .. Len(list) : Len(list) - Len(list) + i = i BY <1>1
  <2> QED BY <1>3, <2>1, <2>2
<1> QED BY <1>2, <1>3

\* Dropping the oldest element before each append keeps the newest ones.
LEMMA NewestAppended ==
  ASSUME NEW S, NEW list \in Seq(S), NEW bound \in Nat \ {0}, NEW x \in S
  PROVE  Newest(Append(list, x), bound) = Append(DropOldest(Newest(list, bound), bound), x)
<1> DEFINE o == Newest(list, bound)
           l == Append(list, x)  n == Newest(l, bound)  k == Append(DropOldest(o, bound), x)
<1>1. /\ o \in Seq(S) /\ Len(o) = IF Len(list) > bound THEN bound ELSE Len(list)
      /\ \A i \in 1 .. Len(o) : o[i] = list[Len(list) - Len(o) + i]
  BY NewestParts
<1>2. Len(list) \in Nat BY LenProperties
<1>3. /\ l \in Seq(S) /\ Len(l) = Len(list) + 1 /\ l[Len(list) + 1] = x
      /\ \A i \in 1 .. Len(list) : l[i] = list[i]
  BY AppendProperties
<1> HIDE DEF l
<1>4. /\ n \in Seq(S) /\ Len(n) = IF Len(l) > bound THEN bound ELSE Len(l)
      /\ \A i \in 1 .. Len(n) : n[i] = l[Len(l) - Len(n) + i]
  BY <1>3, NewestParts
<1> HIDE DEF o, n
<1>5. PICK d \in {0, 1} :
        /\ k \in Seq(S) /\ Len(k) = Len(o) - d + 1 /\ Len(o) - d + 1 <= bound /\ Len(o) - d \in Nat
        /\ \A i \in 1 .. Len(o) - d : k[i] = o[i + d]
        /\ k[Len(o) - d + 1] = x
  BY <1>1, <1>2, KeptList
<1>6. /\ Len(o) \in Nat
      /\ \/ d = 1 /\ Len(o) = bound /\ Len(list) >= bound
         \/ d = 0 /\ Len(o) = Len(list) /\ Len(list) < bound
  <2>1. Len(o) \in Nat BY <1>1, <1>2
  <2>2. DropOldest(o, bound) \in Seq(S) /\ Len(DropOldest(o, bound)) < bound
        /\ (DropOldest(o, bound) = o
            \/ (Len(o) = bound /\ Len(DropOldest(o, bound)) = Len(o) - 1))
    BY <1>1, <1>2, DroppedOldest
  <2>3. Len(k) = Len(DropOldest(o, bound)) + 1 BY <2>2, AppendProperties
  <2> HIDE DEF k
  <2> QED BY <1>1, <1>2, <1>5, <2>1, <2>2, <2>3
<1> HIDE DEF k
<1>7. Len(n) = Len(k) BY <1>2, <1>3, <1>4, <1>5, <1>6
<1>8. ASSUME NEW i \in 1 .. Len(n) PROVE n[i] = k[i]
  <2>1. CASE i = Len(n)
    <3>1. i = Len(o) - d + 1 BY <1>5, <1>7, <2>1
    <3>2. Len(l) - Len(n) + i = Len(list) + 1
      <4>1. \A a, b \in Nat : (a + 1) - b + b = a + 1 OBVIOUS
      <4>2. Len(n) \in Nat BY <1>4, LenProperties
      <4> QED BY <1>2, <1>3, <2>1, <4>1, <4>2
    <3> QED BY <1>3, <1>4, <1>5, <3>1, <3>2
  <2>2. CASE i # Len(n)
    <3>1. /\ i \in 1 .. Len(o) - d /\ i + d \in 1 .. Len(o)
          /\ Len(l) - Len(n) + i = Len(list) - Len(o) + (i + d)
          /\ Len(list) - Len(o) + (i + d) \in 1 .. Len(list)
      <4>1. \A a, b, m, j \in Nat :
              b <= a /\ m = b - d + 1 /\ j \in 1 .. m /\ j # m
                => /\ j \in 1 .. b - d /\ j + d \in 1 .. b
                   /\ (a + 1) - m + j = a - b + (j + d) /\ a - b + (j + d) \in 1 .. a
        OBVIOUS
      <4>2. Len(n) \in Nat /\ i \in Nat BY <1>4, LenProperties
      <4>3. Len(o) <= Len(list) BY <1>2, <1>6
      <4> QED BY <1>2, <1>3, <1>5, <1>6, <1>7, <2>2, <4>1, <4>2, <4>3
    <3>2. k[i] = o[i + d] /\ o[i + d] = list[Len(list) - Len(o) + (i + d)] BY <1>1, <1>5, <3>1
    <3>3. n[i] = l[Len(list) - Len(o) + (i + d)] BY <1>4, <3>1
    <3> QED BY <1>3, <3>1, <3>2, <3>3
  <2> QED BY <2>1, <2>2
<1>9. n = k BY <1>4, <1>5, <1>7, <1>8, SeqEqual
<1> QED BY <1>9 DEF n, k, l, o

-----------------------------------------------------------------------------
(* Recursive functions on 0..n. *)

\* f has values in V, is b at 0, and G[<<i, its value at i - 1>>] at i.
Recursive(f, n, V, b, G) ==
  /\ f = [i \in 0 .. n |-> f[i]] /\ f[0] = b /\ \A i \in 0 .. n : f[i] \in V
  /\ \A i \in 1 .. n : f[i - 1] \in V /\ f[i] = G[<<i, f[i - 1]>>]
Steps(n, V) == [(1 .. n) \X V -> V]

LEMMA Recursion ==
  ASSUME NEW n \in Nat, NEW V, NEW b \in V, NEW G \in Steps(n, V)
  PROVE  \E f : Recursive(f, n, V, b, G)
<1> DEFINE Good == {k \in Nat : k <= n => \E f : Recursive(f, k, V, b, G)}
<1>1. 0 \in Good
  <2> DEFINE f == [i \in 0 .. 0 |-> b]
  <2>1. Recursive(f, 0, V, b, G)
    <3>1. (\A i : i \notin 1 .. 0) /\ 0 \in 0 .. 0 OBVIOUS
    <3>2. f[0] = b /\ \A i \in 0 .. 0 : f[i] \in V BY <3>1
    <3>3. f = [i \in 0 .. 0 |-> f[i]] OBVIOUS
    <3> QED BY <3>1, <3>2, <3>3 DEF Recursive
  <2> HIDE DEF f
  <2> QED BY <2>1
<1>2. ASSUME NEW k \in Nat, k \in Good, k + 1 <= n PROVE k + 1 \in Good
  <2>1. k <= n BY <1>2
  <2>2. PICK f : Recursive(f, k, V, b, G) BY <1>2, <2>1
  <2>3. /\ f[0] = b /\ \A i \in 0 .. k : f[i] \in V
        /\ \A i \in 1 .. k : f[i] = G[<<i, f[i - 1]>>]
    BY <2>2 DEF Recursive
  <2> DEFINE v == G[<<k + 1, f[k]>>]
             g == [i \in 0 .. k + 1 |-> IF i = k + 1 THEN v ELSE f[i]]
  <2>4. v \in V
    <3>1. <<k + 1, f[k]>> \in (1 .. n) \X V BY <1>2, <2>3
    <3> QED BY <3>1 DEF Steps
  <2>5. g = [i \in 0 .. k + 1 |-> g[i]] OBVIOUS
  <2>6. g[0] = b /\ g[k + 1] = v /\ \A i \in 0 .. k : g[i] = f[i] BY <2>3
  <2> HIDE DEF g
  <2>7. \A i \in 0 .. k + 1 : g[i] \in V
    <3> HIDE DEF v
    <3>1. \A i \in 0 .. k + 1 : i = k + 1 \/ i \in 0 .. k OBVIOUS
    <3> QED BY <2>3, <2>4, <2>6, <3>1
  <2>8. ASSUME NEW i \in 1 .. k + 1 PROVE g[i - 1] \in V /\ g[i] = G[<<i, g[i - 1]>>]
    <3>1. i - 1 \in 0 .. k /\ i - 1 \in 0 .. k + 1 /\ k \in 0 .. k OBVIOUS
    <3>2. g[i - 1] = f[i - 1] /\ g[i - 1] \in V BY <2>6, <2>7, <3>1
    <3>3. CASE i = k + 1
      <4>1. i - 1 = k BY <3>3
      <4>2. <<i, g[i - 1]>> = <<k + 1, f[k]>> BY <3>2, <3>3, <4>1
      <4> QED BY <2>6, <3>2, <3>3, <4>2
    <3>4. CASE i # k + 1
      <4>1. i \in 1 .. k /\ i \in 0 .. k BY <3>4
      <4> QED BY <2>3, <2>6, <3>2, <4>1
    <3> QED BY <3>3, <3>4
  <2>9. Recursive(g, k + 1, V, b, G)
    <3>1. 0 \in 0 .. k + 1 OBVIOUS
    <3> QED BY <2>5, <2>6, <2>7, <2>8 DEF Recursive
  <2> QED BY <2>9
<1>3. \A k \in Nat : k \in Good => k + 1 \in Good BY <1>2
<1> HIDE DEF Good
<1>4. Nat \subseteq Good BY <1>1, <1>3, Induction
<1>5. n \in Good BY <1>4
<1> QED BY <1>5 DEF Good

\* What holds of the first value and is kept by each step holds up to n.
LEMMA UpTo ==
  ASSUME NEW n \in Nat, NEW S, 0 \in S, \A i \in 1 .. n : i - 1 \in S => i \in S
  PROVE  \A i \in 0 .. n : i \in S
<1> DEFINE T == {k \in Nat : k <= n => k \in S}
<1>1. 0 \in T OBVIOUS
<1>2. ASSUME NEW k \in Nat, k \in T PROVE k + 1 \in T
  <2>1. k + 1 <= n => k + 1 \in 1 .. n /\ (k + 1) - 1 = k /\ k \in S BY <1>2
  <2> QED BY <2>1
<1> HIDE DEF T
<1>3. Nat \subseteq T BY <1>1, <1>2, Induction
<1> QED BY <1>3 DEF T
=============================================================================
