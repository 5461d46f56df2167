----------------------------- MODULE TextProofs -----------------------------
(***************************************************************************)
(* What the operators on texts return, for every text: folds from left to  *)
(* right, flattened sequences, pieces between separators.                  *)
(*                                                                         *)
(* An induction is an argument about the least index at which it fails,    *)
(* and stated of a set of indices (Induction).  A fold is a function of    *)
(* sets of indices; that there is one (FoldExists) is what its equation    *)
(* rests on.                                                               *)
(***************************************************************************)
EXTENDS Texts, FiniteSetsExt, SequenceTheorems, WellFoundedInduction, TLAPS

(***************************************************************************)
(* Sequences                                                               *)
(***************************************************************************)
LEMMA SeqGrows ==
    ASSUME NEW S, NEW T, S \subseteq T, NEW s \in Seq(S)
    PROVE  s \in Seq(T)
  BY ElementOfSeq

LEMMA OneIsASequence ==
    ASSUME NEW S, NEW a \in S
    PROVE  <<a>> \in Seq(S) /\ Len(<<a>>) = 1 /\ <<a>>[1] = a /\ <<a>> # <<>>
  OBVIOUS

LEMMA LedBy ==
    ASSUME NEW S, NEW a \in S, NEW s \in Seq(S)
    PROVE  /\ <<a>> \o s \in Seq(S) /\ Len(<<a>> \o s) = Len(s) + 1 /\ Len(s) \in Nat
           /\ (<<a>> \o s)[1] = a
           /\ \A i \in 1..Len(s) : (<<a>> \o s)[i + 1] = s[i]
  <1>1. <<a>> \in Seq(S) /\ Len(<<a>>) = 1 /\ <<a>>[1] = a
    OBVIOUS
  <1> QED
    BY <1>1, ConcatProperties

LEMMA FrontAndLast ==
    ASSUME NEW S, NEW s \in Seq(S), s # <<>>
    PROVE  /\ Front(s) \in Seq(S) /\ Last(s) \in S
           /\ s = Append(Front(s), Last(s))
           /\ \A t \in Seq(S), e \in S : s = Append(t, e) => Front(s) = t /\ Last(s) = e
  <1>1. ASSUME NEW t \in Seq(S), NEW e \in S, s = Append(t, e) PROVE Front(s) = t /\ Last(s) = e
    <2>1. /\ Len(t) \in Nat /\ Len(s) = Len(t) + 1 /\ s[Len(t) + 1] = e
          /\ \A i \in 1..Len(t) : s[i] = t[i]
      BY <1>1, AppendProperties
    <2>2. Front(s) = SubSeq(s, 1, Len(t))
      BY <2>1 DEF Front
    <2>3. /\ SubSeq(s, 1, Len(t)) \in Seq(S) /\ Len(SubSeq(s, 1, Len(t))) = Len(t)
          /\ \A i \in 1..Len(t) : SubSeq(s, 1, Len(t))[i] = s[i]
      BY <2>1, SubSeqProperties
    <2>4. Front(s) = t
      BY <2>1, <2>2, <2>3, SeqEqual
    <2> QED
      BY <2>1, <2>4 DEF Last
  <1>2. PICK t \in Seq(S), e \in S : s = Append(t, e)
    BY SequenceEmptyOrAppend
  <1> QED
    BY <1>1, <1>2

LEMMA BehindOf ==
    ASSUME NEW S, NEW s \in Seq(S), NEW t \in Seq(S)
    PROVE  /\ s \o t \in Seq(S) /\ Len(s \o t) = Len(s) + Len(t)
           /\ Len(s) \in Nat /\ Len(t) \in Nat
           /\ \A i \in 1..Len(s) : (s \o t)[i] = s[i]
           /\ \A i \in 1..Len(t) : (s \o t)[Len(s) + i] = t[i]
  BY ConcatProperties

(***************************************************************************)
(* Induction                                                               *)
(***************************************************************************)
LEMMA SomeLeast ==
    ASSUME NEW T \in SUBSET Nat, T # {}
    PROVE  \E n \in T : \A m \in T : n <= m
  <1>1. PICK n \in T : \A m \in T : ~(<<m, n>> \in OpToRel(<, Nat))
    BY NatLessThanWellFounded, WFMin
  <1>2. ASSUME NEW m \in T PROVE n <= m
    <2>1. n \in Nat /\ m \in Nat
      OBVIOUS
    <2>2. ~(m < n)
      BY <1>1, <2>1 DEF OpToRel
    <2> QED
      BY <2>1, <2>2
  <1> QED
    BY <1>2

\* A set that holds zero, and with a number the next one up to n, holds all up to n.
LEMMA Induction ==
    ASSUME NEW n \in Nat, NEW T, 0 \in T, \A i \in 0..(n - 1) : i \in T => i + 1 \in T
    PROVE  \A i \in 0..n : i \in T
  <1> DEFINE missed == {i \in 0..n : i \notin T}
  <1> SUFFICES ASSUME missed # {} PROVE FALSE
    OBVIOUS
  <1>1. PICK i \in missed : \A j \in missed : i <= j
    <2>1. missed \in SUBSET Nat
      OBVIOUS
    <2> HIDE DEF missed
    <2> QED
      BY <2>1, SomeLeast
  <1>2. i \in 0..n /\ i # 0
    OBVIOUS
  <1>3. i - 1 \in 0..(n - 1) /\ i - 1 \notin missed
    <2> HIDE DEF missed
    <2> QED
      BY <1>1, <1>2
  <1>4. i - 1 \in T
    BY <1>2, <1>3
  <1>5. (i - 1) + 1 \in T
    BY <1>3, <1>4
  <1> QED
    BY <1>2, <1>5

LEMMA SomeGreatest ==
    ASSUME NEW n \in Nat, NEW s \in SUBSET (1..n), s # {}
    PROVE  Max(s) \in s /\ \A y \in s : Max(s) >= y
  <1> DEFINE above == {n - y : y \in s}
  <1>1. above \in SUBSET Nat /\ above # {}
    <2>1. \A y \in s : n - y \in Nat
      OBVIOUS
    <2>2. PICK y \in s : TRUE
      OBVIOUS
    <2> QED
      BY <2>1, <2>2
  <1>2. PICK k \in above : \A m \in above : k <= m
    <2> HIDE DEF above
    <2> QED
      BY <1>1, SomeLeast
  <1>3. PICK x \in s : k = n - x
    OBVIOUS
  <1>4. \A y \in s : n - y \in above
    OBVIOUS
  <1> HIDE DEF above
  <1>5. \A y \in s : x >= y
    <2> SUFFICES ASSUME NEW y \in s PROVE x >= y
      OBVIOUS
    <2>1. n - x <= n - y
      BY <1>2, <1>3, <1>4
    <2>2. x \in 1..n /\ y \in 1..n
      OBVIOUS
    <2> QED
      BY <2>1, <2>2
  <1> QED
    BY <1>5 DEF Max

LEMMA InitialSegment ==
    ASSUME NEW n \in Nat, NEW i \in 1..n
    PROVE  /\ 1..i \in SUBSET (1..n) /\ 1..i # {}
           /\ Max(1..i) = i /\ (1..i) \ {i} = 1..(i - 1)
  <1>1. (1..i) \in SUBSET (1..n) /\ 1..i # {} /\ i \in 1..i
    OBVIOUS
  <1>2. Max(1..i) \in 1..i /\ \A y \in 1..i : Max(1..i) >= y
    BY <1>1, SomeGreatest
  <1>3. Max(1..i) = i
    BY <1>1, <1>2
  <1> QED
    BY <1>1, <1>3

LEMMA MinIsLeast ==
    ASSUME NEW s \in SUBSET Nat, s # {}
    PROVE  Min(s) \in s /\ \A y \in s : Min(s) <= y
  BY SomeLeast DEF Min

\* What holds of the empty sequence, and with a sequence of any longer one.
LEMMA SequenceInduction ==
    ASSUME NEW S, NEW T, <<>> \in T, \A s \in Seq(S), e \in S : s \in T => Append(s, e) \in T
    PROVE  \A s \in Seq(S) : s \in T
  <1> DEFINE long == {n \in Nat : \A s \in Seq(S) : Len(s) = n => s \in T}
  <1>1. 0 \in long
    <2>1. \A s \in Seq(S) : Len(s) = 0 => s = <<>>
      BY EmptySeq
    <2> QED
      BY <2>1
  <1>2. ASSUME NEW n \in Nat, n \in long PROVE n + 1 \in long
    <2>1. ASSUME NEW s \in Seq(S), Len(s) = n + 1 PROVE s \in T
      <3>1. s # <<>>
        BY <2>1
      <3>2. PICK r \in Seq(S), e \in S : s = Append(r, e)
        BY <3>1, SequenceEmptyOrAppend
      <3>3. Len(s) = Len(r) + 1 /\ Len(r) \in Nat
        BY <3>2, AppendProperties, LenProperties
      <3>4. Len(r) = n
        BY <2>1, <3>3
      <3> QED
        BY <1>2, <3>2, <3>4
    <2> QED
      BY <2>1
  <1>3. ASSUME NEW s \in Seq(S) PROVE s \in T
    <2>1. Len(s) \in Nat
      BY LenProperties
    <2> HIDE DEF long
    <2>2. \A i \in 0..Len(s) : i \in long
      BY <1>1, <1>2, <2>1, Induction
    <2>3. Len(s) \in long
      BY <2>1, <2>2
    <2> QED
      BY <2>3 DEF long
  <1> QED
    BY <1>3

(***************************************************************************)
(* Folds                                                                   *)
(***************************************************************************)
\* What a fold by the function F is made of, F taking what there is and an index.
FoldStep(F, base, g, s) == IF s = {} THEN base ELSE F[<<g[s \ {Max(s)}], Max(s)>>]

IsFold(n, V, F, base, g) ==
    /\ g \in [SUBSET (1..n) -> V]
    /\ \A s \in SUBSET (1..n) : g[s] = FoldStep(F, base, g, s)

HasFold(n, V, F, base) == \E g : IsFold(n, V, F, base, g)

LEMMA FoldExists ==
    ASSUME NEW n \in Nat, NEW V, NEW base \in V, NEW F \in [V \X (1..n) -> V]
    PROVE  HasFold(n, V, F, base)
  <1> DEFINE Upto(k) == HasFold(k, V, F, base)
             T == {k \in 0..n : Upto(k)}
  <1>1. 0 \in T
    <2> DEFINE g == [s \in SUBSET (1..0) |-> base]
    <2>1. 1..0 = {}
      OBVIOUS
    <2>2. \A s \in SUBSET (1..0) : g[s] = FoldStep(F, base, g, s)
      BY <2>1 DEF FoldStep
    <2>3. g \in [SUBSET (1..0) -> V]
      OBVIOUS
    <2> HIDE DEF g
    <2>4. Upto(0)
      BY <2>2, <2>3 DEF HasFold, IsFold
    <2> HIDE DEF Upto
    <2> QED
      BY <2>4
  <1>2. ASSUME NEW k \in 0..(n - 1), k \in T PROVE k + 1 \in T
    <2>1. PICK g \in [SUBSET (1..k) -> V] : \A s \in SUBSET (1..k) : g[s] = FoldStep(F, base, g, s)
      BY <1>2 DEF HasFold, IsFold
    <2> DEFINE h == [s \in SUBSET (1..(k + 1)) |-> FoldStep(F, base, g, s)]
    <2>2. \A s \in SUBSET (1..(k + 1)) :
              s # {} => /\ Max(s) \in s
                        /\ Max(s) \in 1..n
                        /\ s \ {Max(s)} \in SUBSET (1..k)
      <3> SUFFICES ASSUME NEW s \in SUBSET (1..(k + 1)), s # {}
                   PROVE  Max(s) \in s /\ Max(s) \in 1..n /\ s \ {Max(s)} \in SUBSET (1..k)
        OBVIOUS
      <3>1. Max(s) \in s /\ \A y \in s : Max(s) >= y
        <4>1. k + 1 \in Nat
          OBVIOUS
        <4> QED
          BY <4>1, SomeGreatest
      <3>2. Max(s) \in 1..n
        <4>1. Max(s) \in 1..(k + 1) /\ k \in 0..(n - 1)
          BY <3>1
        <4> HIDE DEF T
        <4> QED
          BY <4>1
      <3>3. ASSUME NEW y \in s \ {Max(s)} PROVE y \in 1..k
        <4>1. y \in 1..(k + 1) /\ Max(s) \in 1..(k + 1) /\ Max(s) >= y /\ y # Max(s)
          BY <3>1
        <4> QED
          BY <4>1
      <3> QED
        BY <3>1, <3>2, <3>3
    <2>3. h \in [SUBSET (1..(k + 1)) -> V]
      <3> SUFFICES ASSUME NEW s \in SUBSET (1..(k + 1)) PROVE FoldStep(F, base, g, s) \in V
        OBVIOUS
      <3>1. s # {} => <<g[s \ {Max(s)}], Max(s)>> \in V \X (1..n)
        BY <2>2
      <3> QED
        BY <3>1 DEF FoldStep
    <2>4. \A s \in SUBSET (1..k) : s \in SUBSET (1..(k + 1)) /\ h[s] = g[s]
      BY <2>1
    <2>5. \A s \in SUBSET (1..(k + 1)) : h[s] = FoldStep(F, base, h, s)
      <3> SUFFICES ASSUME NEW s \in SUBSET (1..(k + 1)) PROVE h[s] = FoldStep(F, base, h, s)
        OBVIOUS
      <3>1. h[s] = FoldStep(F, base, g, s)
        OBVIOUS
      <3>2. s # {} => h[s \ {Max(s)}] = g[s \ {Max(s)}]
        BY <2>2, <2>4
      <3> HIDE DEF h
      <3> QED
        BY <3>1, <3>2 DEF FoldStep
    <2> HIDE DEF h
    <2>6. Upto(k + 1)
      BY <2>3, <2>5 DEF HasFold, IsFold
    <2> HIDE DEF Upto
    <2> QED
      BY <2>6
  <1> HIDE DEF T
  <1>3. n \in T
    BY <1>1, <1>2, Induction
  <1> QED
    BY <1>3 DEF T

LEMMA FoldUnfolds ==
    ASSUME NEW n \in Nat, NEW V, NEW base, NEW F, NEW g, IsFold(n, V, F, base, g),
           NEW s \in SUBSET (1..n), s # {}
    PROVE  /\ <<g[s \ {Max(s)}], Max(s)>> \in V \X (1..n)
           /\ g[s] = F[<<g[s \ {Max(s)}], Max(s)>>]
  <1>1. Max(s) \in s
    BY SomeGreatest
  <1> QED
    BY <1>1 DEF FoldStep, IsFold

\* What a run over the initial segments never leaves.
LEMMA RunStays ==
    ASSUME NEW n \in Nat, NEW V, NEW g, g[0] \in V,
           \A i \in 1..n : g[i - 1] \in V => g[i] \in V
    PROVE  \A i \in 0..n : g[i] \in V
  <1> DEFINE T == {i \in 0..n : g[i] \in V}
  <1>1. 0 \in T
    OBVIOUS
  <1>2. ASSUME NEW i \in 0..(n - 1), i \in T PROVE i + 1 \in T
    <2>1. i + 1 \in 1..n /\ (i + 1) - 1 = i
      OBVIOUS
    <2>2. g[i] \in V
      BY <1>2
    <2>3. g[i + 1] \in V
      BY <2>1, <2>2
    <2> QED
      BY <2>1, <2>3
  <1>3. \A i \in 0..n : i \in T
    <2> HIDE DEF T
    <2> QED
      BY <1>1, <1>2, Induction
  <1> QED
    BY <1>3

\* Two runs that begin alike and go on alike.
LEMMA RunsAgree ==
    ASSUME NEW n \in Nat, NEW g, NEW h, g[0] = h[0],
           \A i \in 1..n : g[i - 1] = h[i - 1] => g[i] = h[i]
    PROVE  g[n] = h[n]
  <1> DEFINE T == {i \in 0..n : g[i] = h[i]}
  <1>1. 0 \in T
    OBVIOUS
  <1>2. ASSUME NEW i \in 0..(n - 1), i \in T PROVE i + 1 \in T
    <2>1. i + 1 \in 1..n /\ (i + 1) - 1 = i
      OBVIOUS
    <2>2. g[i + 1] = h[i + 1]
      BY <1>2, <2>1
    <2> QED
      BY <2>1, <2>2
  <1>3. n \in T
    <2> HIDE DEF T
    <2> QED
      BY <1>1, <1>2, Induction
  <1> QED
    BY <1>3

IsRun(n, V, F, base, g) ==
    /\ g \in [0..n -> V]
    /\ g[0] = base
    /\ \A i \in 1..n : g[i] = F[<<g[i - 1], i>>]

HasRun(n, V, F, base) == \E g : IsRun(n, V, F, base, g)

LEMMA RunExists ==
    ASSUME NEW n \in Nat, NEW V, NEW base \in V, NEW F \in [V \X (1..n) -> V]
    PROVE  HasRun(n, V, F, base)
  <1>1. PICK h : IsFold(n, V, F, base, h)
    BY FoldExists DEF HasFold
  <1> DEFINE run == [i \in 0..n |-> h[1..i]]
  <1>2. ASSUME NEW i \in 0..n PROVE run[i] \in V
    <2>1. 1..i \in SUBSET (1..n)
      OBVIOUS
    <2> QED
      BY <1>1, <2>1 DEF IsFold
  <1>3. run[0] = base
    <2>1. 1..0 = {} /\ 0 \in 0..n
      OBVIOUS
    <2>2. h[{}] = base
      BY <1>1 DEF IsFold, FoldStep
    <2> QED
      BY <2>1, <2>2
  <1>4. ASSUME NEW i \in 1..n PROVE run[i] = F[<<run[i - 1], i>>]
    <2> DEFINE s == 1..i
    <2>1. s \in SUBSET (1..n) /\ s # {} /\ Max(s) = i /\ s \ {i} = 1..(i - 1)
      BY InitialSegment
    <2>2. run[i] = h[s] /\ run[i - 1] = h[1..(i - 1)]
      OBVIOUS
    <2> HIDE DEF s, run
    <2>3. IsFold(n, V, F, base, h) /\ s \in SUBSET (1..n) /\ s # {}
      BY <1>1, <2>1
    <2>4. h[s] = F[<<h[s \ {Max(s)}], Max(s)>>]
      BY ONLY <2>3, n \in Nat, FoldUnfolds
    <2> QED
      BY <2>1, <2>2, <2>4
  <1>5. IsRun(n, V, F, base, run)
    BY <1>2, <1>3, <1>4 DEF IsRun
  <1> QED
    BY <1>5 DEF HasRun

(***************************************************************************)
(* FoldLeft                                                                *)
(***************************************************************************)
\* That G is a step from one of V to the next, with one of S.
Acts(G, V, S) == G \in [V \X S -> V]

\* That r is what G makes of a text from left to right.
Folded(V, G, base, text, r) ==
    \E run : /\ run \in [0..Len(text) -> V]
             /\ run[0] = base
             /\ \A i \in 1..Len(text) : run[i] = G[<<run[i - 1], text[i]>>]
             /\ r = run[Len(text)]

\* The equation of MapThenFoldSet, as far as it stays in V.
Iterates(V, G, base, text, iter) ==
    /\ iter[{}] = base
    /\ \A s \in SUBSET (1..Len(text)) :
          s # {} /\ iter[s \ {Max(s)}] \in V => iter[s] = G[<<iter[s \ {Max(s)}], text[Max(s)]>>]

\* One that stays in V everywhere.
Iterator(V, G, base, text, iter) ==
    /\ iter \in [SUBSET (1..Len(text)) -> V]
    /\ Iterates(V, G, base, text, iter)

HasIterator(V, G, base, text) == \E iter : Iterator(V, G, base, text, iter)

LEMMA GreatestOf ==
    ASSUME NEW S, NEW text \in Seq(S), NEW s \in SUBSET (1..Len(text)), s # {}
    PROVE  /\ Max(s) \in 1..Len(text) /\ text[Max(s)] \in S
           /\ s \ {Max(s)} \in SUBSET (1..Len(text))
  <1> DEFINE n == Len(text)
  <1>1. n \in Nat /\ \A i \in 1..n : text[i] \in S
    BY ElementOfSeq
  <1>2. Max(s) \in s
    <2>1. n \in Nat /\ s \in SUBSET (1..n)
      BY <1>1
    <2> HIDE DEF n
    <2> QED
      BY <2>1, SomeGreatest
  <1> QED
    BY <1>1, <1>2

LEMMA IteratorExists ==
    ASSUME NEW V, NEW S, NEW G, Acts(G, V, S), NEW base \in V, NEW text \in Seq(S)
    PROVE  HasIterator(V, G, base, text)
  <1> DEFINE n == Len(text)
             F == [x \in V \X (1..n) |-> G[<<x[1], text[x[2]]>>]]
  <1>1. n \in Nat /\ \A i \in 1..n : text[i] \in S
    BY ElementOfSeq
  <1>2. F \in [V \X (1..n) -> V]
    BY <1>1 DEF Acts
  <1>3. PICK h : IsFold(n, V, F, base, h)
    <2> HIDE DEF F, n
    <2> QED
      BY <1>1, <1>2, FoldExists DEF HasFold
  <1>4. h[{}] = base
    BY <1>3 DEF IsFold, FoldStep
  <1>5. ASSUME NEW s \in SUBSET (1..n), s # {}
        PROVE  h[s] = G[<<h[s \ {Max(s)}], text[Max(s)]>>]
    <2>1. Max(s) \in 1..n /\ s \ {Max(s)} \in SUBSET (1..n)
      BY <1>1, <1>5, SomeGreatest
    <2>2. h[s \ {Max(s)}] \in V /\ h[s] = F[<<h[s \ {Max(s)}], Max(s)>>]
      <3> HIDE DEF F
      <3> QED
        BY <1>3, <1>5, <2>1 DEF IsFold, FoldStep
    <2> QED
      BY <2>1, <2>2
  <1>6. Iterator(V, G, base, text, h)
    BY <1>3, <1>4, <1>5 DEF IsFold, Iterator, Iterates
  <1> QED
    BY <1>6 DEF HasIterator

LEMMA IteratesFolds ==
    ASSUME NEW V, NEW S, NEW G, Acts(G, V, S), NEW base \in V, NEW text \in Seq(S),
           NEW iter, Iterates(V, G, base, text, iter)
    PROVE  Folded(V, G, base, text, iter[1..Len(text)])
  <1> DEFINE n == Len(text)
             run == [i \in 0..n |-> iter[1..i]]
  <1>1. n \in Nat /\ \A i \in 1..n : text[i] \in S
    BY ElementOfSeq
  <1>2. run[0] = base
    <2>1. 1..0 = {} /\ 0 \in 0..n
      BY <1>1
    <2> QED
      BY <2>1 DEF Iterates
  <1>3. ASSUME NEW i \in 1..n, run[i - 1] \in V
        PROVE  run[i] = G[<<run[i - 1], text[i]>>] /\ run[i] \in V
    <2>1. /\ 1..i \in SUBSET (1..n) /\ 1..i # {}
          /\ Max(1..i) = i /\ (1..i) \ {i} = 1..(i - 1)
      BY <1>1, InitialSegment
    <2>2. run[i - 1] = iter[1..(i - 1)] /\ run[i] = iter[1..i]
      BY <1>1
    <2> HIDE DEF run
    <2>3. run[i] = G[<<run[i - 1], text[i]>>]
      BY <1>3, <2>1, <2>2 DEF Iterates
    <2> QED
      BY <1>1, <1>3, <2>3 DEF Acts
  <1>4. \A i \in 0..n : run[i] \in V
    <2>1. \A i \in 1..n : run[i - 1] \in V => run[i] \in V
      BY <1>3
    <2> HIDE DEF run, n
    <2> QED
      BY <1>1, <1>2, <2>1, RunStays
  <1>5. run \in [0..n -> V] /\ run[n] = iter[1..n]
    BY <1>1, <1>4
  <1> HIDE DEF run
  <1>6. ASSUME NEW i \in 1..n PROVE run[i] = G[<<run[i - 1], text[i]>>]
    <2>1. i - 1 \in 0..n
      BY <1>1
    <2> QED
      BY <1>3, <1>4, <2>1
  <1> QED
    BY <1>2, <1>5, <1>6 DEF Folded

\* That s is t and, behind it, e.
EndsIn(S, s, t, e) == t \in Seq(S) /\ e \in S /\ s = Append(t, e)

LEMMA FoldedGrows ==
    ASSUME NEW V, NEW S, NEW G, Acts(G, V, S), NEW base, NEW text, NEW c, NEW longer,
           EndsIn(S, longer, text, c), NEW r, NEW q,
           Folded(V, G, base, text, r), Folded(V, G, base, longer, q)
    PROVE  r \in V /\ q = G[<<r, c>>]
  <1> DEFINE n == Len(text)
  <1>1. PICK g : /\ g \in [0..n -> V] /\ g[0] = base /\ r = g[n]
                 /\ \A i \in 1..n : g[i] = G[<<g[i - 1], text[i]>>]
    BY DEF Folded
  <1>2. /\ longer \in Seq(S) /\ Len(longer) = n + 1 /\ n \in Nat
        /\ \A i \in 1..n : longer[i] = text[i]
        /\ longer[n + 1] = c
    BY AppendProperties, LenProperties DEF EndsIn
  <1>3. PICK h : /\ h[0] = base /\ q = h[n + 1]
                 /\ \A i \in 1..(n + 1) : h[i] = G[<<h[i - 1], longer[i]>>]
    BY <1>2 DEF Folded
  <1>4. g[n] = h[n]
    <2>1. ASSUME NEW i \in 1..n, g[i - 1] = h[i - 1] PROVE g[i] = h[i]
      <3>1. i \in 1..(n + 1) /\ longer[i] = text[i]
        BY <1>2
      <3> QED
        BY <1>1, <1>3, <2>1, <3>1
    <2>2. n \in Nat /\ g[0] = h[0]
      BY <1>1, <1>2, <1>3
    <2> HIDE DEF n
    <2> QED
      BY <2>1, <2>2, RunsAgree
  <1>5. h[n + 1] = G[<<h[n], c>>]
    BY <1>2, <1>3
  <1> QED
    BY <1>1, <1>2, <1>3, <1>4, <1>5

LEMMA FoldedNothing ==
    ASSUME NEW V, NEW G, NEW base, NEW r, Folded(V, G, base, <<>>, r)
    PROVE  r = base
  BY DEF Folded

(***************************************************************************)
(* Split                                                                   *)
(***************************************************************************)
Pieced(S) == {p \in Seq(Seq(S)) : Len(p) > 0}

SplitStep(pieces, c, separator) ==
    IF c = separator THEN Append(pieces, <<>>)
    ELSE ReplaceAt(pieces, Len(pieces), Append(Last(pieces), c))

LEMMA SplitStepType ==
    ASSUME NEW S, NEW p \in Pieced(S), NEW c \in S, NEW separator
    PROVE  SplitStep(p, c, separator) \in Pieced(S)
  <1>1. p \in Seq(Seq(S)) /\ Len(p) \in 1..Len(p)
    BY DEF Pieced
  <1>2. CASE c = separator
    <2>1. <<>> \in Seq(S)
      OBVIOUS
    <2>2. Append(p, <<>>) \in Seq(Seq(S)) /\ Len(Append(p, <<>>)) = Len(p) + 1
      BY <1>1, <2>1, AppendProperties
    <2> QED
      BY <1>1, <1>2, <2>2 DEF Pieced, SplitStep
  <1>3. CASE c # separator
    <2>1. Append(Last(p), c) \in Seq(S)
      BY <1>1, ElementOfSeq DEF Last
    <2>2. /\ [p EXCEPT ![Len(p)] = Append(Last(p), c)] \in Seq(Seq(S))
          /\ Len([p EXCEPT ![Len(p)] = Append(Last(p), c)]) = Len(p)
      BY <1>1, <2>1, ExceptSeq
    <2> QED
      BY <1>1, <1>3, <2>2 DEF Pieced, SplitStep, ReplaceAt
  <1> QED
    BY <1>2, <1>3

SplitRun(S, text, separator, g) ==
    /\ g \in [0..Len(text) -> Pieced(S)]
    /\ g[0] = << <<>> >>
    /\ \A i \in 1..Len(text) : g[i] = SplitStep(g[i - 1], text[i], separator)
    /\ Split(text, separator) = g[Len(text)]

LEMMA SplitRuns ==
    ASSUME NEW S, NEW text \in Seq(S), NEW separator
    PROVE  \E g : SplitRun(S, text, separator, g)
  <1> DEFINE n == Len(text)
             V == Pieced(S)
             base == << <<>> >>
             F == [x \in V \X (1..n) |-> SplitStep(x[1], text[x[2]], separator)]
             Folds(g) == g = [s \in SUBSET (1..n) |->
                                 IF s = {} THEN base
                                 ELSE SplitStep(g[s \ {Max(s)}], text[Max(s)], separator)]
             iter == CHOOSE g : Folds(g)
             run == [i \in 0..n |-> iter[1..i]]
  <1>1. n \in Nat /\ DOMAIN text = 1..n
    OBVIOUS
  <1>2. base \in V
    BY DEF Pieced
  <1>3. F \in [V \X (1..n) -> V]
    BY SplitStepType
  <1>4. PICK h : IsFold(n, V, F, base, h)
    <2> HIDE DEF F, V, base, n
    <2> QED
      BY <1>1, <1>2, <1>3, FoldExists DEF HasFold
  <1>5. Folds(h)
    <2>1. ASSUME NEW s \in SUBSET (1..n)
          PROVE  h[s] = IF s = {} THEN base
                        ELSE SplitStep(h[s \ {Max(s)}], text[Max(s)], separator)
      <3>1. CASE s = {}
        BY <1>4, <3>1 DEF FoldStep, IsFold
      <3>2. CASE s # {}
        <4>1. /\ <<h[s \ {Max(s)}], Max(s)>> \in V \X (1..n)
              /\ h[s] = F[<<h[s \ {Max(s)}], Max(s)>>]
          <5> HIDE DEF F, V, base, n
          <5> QED
            BY <1>1, <1>4, <3>2, FoldUnfolds
        <4> HIDE DEF V, base
        <4> QED
          BY <3>2, <4>1
      <3> QED
        BY <3>1, <3>2
    <2>2. h = [s \in SUBSET (1..n) |-> h[s]]
      BY <1>4 DEF IsFold
    <2> HIDE DEF V, base
    <2> QED
      BY <2>1, <2>2
  <1>6. Folds(iter)
    BY <1>5
  <1>7. Split(text, separator) = iter[1..n]
    BY <1>1 DEF Split, FoldLeft, MapThenFoldSet, SplitStep
  <1> HIDE DEF iter, F
  <1>8. run[0] = base
    <2>1. 1..0 = {}
      OBVIOUS
    <2> QED
      BY <1>6, <2>1
  <1>9. ASSUME NEW i \in 1..n PROVE run[i] = SplitStep(run[i - 1], text[i], separator)
    <2>1. /\ 1..i \in SUBSET (1..n) /\ 1..i # {}
          /\ Max(1..i) = i /\ (1..i) \ {i} = 1..(i - 1)
      BY InitialSegment
    <2>2. iter[1..i] = SplitStep(iter[1..(i - 1)], text[i], separator)
      BY <1>6, <2>1
    <2> QED
      BY <2>2
  <1>10. \A i \in 0..n : run[i] \in V
    <2>1. ASSUME NEW i \in 1..n, run[i - 1] \in V PROVE run[i] \in V
      <3>1. text[i] \in S
        BY ElementOfSeq
      <3> HIDE DEF run
      <3> QED
        BY <1>9, <2>1, <3>1, SplitStepType
    <2> HIDE DEF run, V, n
    <2> QED
      BY <1>1, <1>2, <1>8, <2>1, RunStays
  <1>11. run \in [0..n -> V] /\ run[n] = iter[1..n]
    BY <1>10
  <1> HIDE DEF run
  <1> QED
    BY <1>7, <1>8, <1>9, <1>11 DEF SplitRun

LEMMA SplitGrows ==
    ASSUME NEW S, NEW text \in Seq(S), NEW c \in S, NEW separator
    PROVE  /\ Split(<<>>, separator) = << <<>> >>
           /\ Split(text, separator) \in Pieced(S)
           /\ Split(Append(text, c), separator) = SplitStep(Split(text, separator), c, separator)
  <1> DEFINE n == Len(text)
             longer == Append(text, c)
  <1>1. PICK g : SplitRun(S, text, separator, g)
    BY SplitRuns
  <1>2. /\ longer \in Seq(S) /\ Len(longer) = n + 1 /\ n \in Nat
        /\ \A i \in 1..n : longer[i] = text[i]
        /\ longer[n + 1] = c
    BY AppendProperties, LenProperties
  <1> HIDE DEF longer
  <1>3. PICK h : SplitRun(S, longer, separator, h)
    BY <1>2, SplitRuns
  <1>4. g[n] = h[n]
    <2>1. g[0] = h[0]
      BY <1>1, <1>3 DEF SplitRun
    <2>2. ASSUME NEW i \in 1..n, g[i - 1] = h[i - 1] PROVE g[i] = h[i]
      <3>1. i \in 1..Len(longer) /\ longer[i] = text[i]
        BY <1>2
      <3> QED
        BY <1>1, <1>3, <2>2, <3>1 DEF SplitRun
    <2> QED
      BY <1>2, <2>1, <2>2, RunsAgree
  <1>5. h[n + 1] = SplitStep(h[n], c, separator)
    <2>1. n + 1 \in 1..Len(longer) /\ (n + 1) - 1 = n
      BY <1>2
    <2> QED
      BY <1>2, <1>3, <2>1 DEF SplitRun
  <1>6. PICK e : SplitRun(S, <<>>, separator, e)
    <2>1. <<>> \in Seq(S)
      OBVIOUS
    <2> QED
      BY <2>1, SplitRuns
  <1>7. Split(<<>>, separator) = << <<>> >>
    BY <1>6 DEF SplitRun
  <1>8. Split(text, separator) \in Pieced(S)
    <2>1. n \in 0..n
      BY <1>2
    <2> QED
      BY <1>1, <2>1 DEF SplitRun
  <1> QED
    BY <1>1, <1>2, <1>3, <1>4, <1>5, <1>7, <1>8 DEF SplitRun, longer

\* What is done to the last piece leaves those before it alone.
LEMMA SplitStepBehind ==
    ASSUME NEW S, NEW p \in Pieced(S), NEW q \in Pieced(S), NEW c \in S, NEW separator
    PROVE  SplitStep(p \o q, c, separator) = p \o SplitStep(q, c, separator)
  <1> DEFINE P == Seq(S)
  <1>1. p \in Seq(P) /\ q \in Seq(P) /\ Len(p) \in Nat \ {0} /\ Len(q) \in Nat \ {0}
    BY DEF Pieced
  <1>2. /\ p \o q \in Seq(P) /\ Len(p \o q) = Len(p) + Len(q)
        /\ \A i \in 1..(Len(p) + Len(q)) : (p \o q)[i] = IF i <= Len(p) THEN p[i] ELSE q[i - Len(p)]
    BY <1>1, ConcatProperties
  <1>3. CASE c = separator
    <2>1. <<>> \in P
      OBVIOUS
    <2> HIDE DEF P
    <2>2. /\ Append(p \o q, <<>>) = (p \o q) \o << <<>> >>
          /\ Append(q, <<>>) = q \o << <<>> >>
      BY <1>1, <1>2, <2>1, AppendIsConcat
    <2>3. << <<>> >> \in Seq(P)
      BY <2>1
    <2>4. (p \o q) \o << <<>> >> = p \o (q \o << <<>> >>)
      BY <1>1, <2>3, ConcatAssociative
    <2> QED
      BY <1>3, <2>2, <2>4 DEF SplitStep
  <1>4. CASE c # separator
    <2> DEFINE k == Len(p) + Len(q)
               e == Append(Last(q), c)
    <2>1. Last(p \o q) = Last(q)
      BY <1>1, <1>2 DEF Last
    <2>2. e \in P
      BY <1>1, ElementOfSeq DEF Last
    <2> HIDE DEF P, e
    <2>3. Len(q) \in 1..Len(q) /\ k \in 1..Len(p \o q) /\ k = Len(p \o q)
      BY <1>1, <1>2
    <2>4. /\ [q EXCEPT ![Len(q)] = e] \in Seq(P)
          /\ Len([q EXCEPT ![Len(q)] = e]) = Len(q)
          /\ \A j \in 1..Len(q) : [q EXCEPT ![Len(q)] = e][j] = IF j = Len(q) THEN e ELSE q[j]
      BY <1>1, <2>2, <2>3, ExceptSeq
    <2> DEFINE w == p \o q
    <2>5. /\ [w EXCEPT ![k] = e] \in Seq(P)
          /\ Len([w EXCEPT ![k] = e]) = Len(w)
          /\ \A j \in 1..Len(w) : [w EXCEPT ![k] = e][j] = IF j = k THEN e ELSE w[j]
      <3>1. w \in Seq(P) /\ k \in 1..Len(w)
        BY <1>2, <2>3
      <3> HIDE DEF w, k
      <3> QED
        BY <2>2, <3>1, ExceptSeq
    <2> DEFINE r == [q EXCEPT ![Len(q)] = e]
               l == [w EXCEPT ![k] = e]
    <2>6. /\ p \o r \in Seq(P) /\ Len(p \o r) = Len(p) + Len(q)
          /\ \A i \in 1..(Len(p) + Len(q)) : (p \o r)[i] = IF i <= Len(p) THEN p[i] ELSE r[i - Len(p)]
      BY <1>1, <2>4, ConcatProperties
    <2> HIDE DEF r, l
    <2>7. ASSUME NEW i \in 1..(Len(p) + Len(q)) PROVE l[i] = (p \o r)[i]
      <3>1. CASE i <= Len(p)
        BY <1>1, <1>2, <2>3, <2>5, <2>6, <3>1 DEF l
      <3>2. CASE i > Len(p)
        <4>1. i - Len(p) \in 1..Len(q) /\ (i = k <=> i - Len(p) = Len(q))
          BY <1>1, <3>2
        <4> QED
          BY <1>1, <1>2, <2>3, <2>4, <2>5, <2>6, <3>2, <4>1 DEF l, r
      <3>3. i <= Len(p) \/ i > Len(p)
        BY <1>1
      <3> QED
        BY <3>1, <3>2, <3>3
    <2>8. l = p \o r
      BY <1>2, <2>5, <2>6, <2>7, SeqEqual DEF l
    <2> QED
      BY <1>4, <2>1, <2>3, <2>8 DEF SplitStep, ReplaceAt, l, r, e
  <1> QED
    BY <1>3, <1>4

LEMMA SplitType ==
    ASSUME NEW S, NEW text \in Seq(S), NEW separator
    PROVE  /\ Split(text, separator) \in Seq(Seq(S))
           /\ Len(Split(text, separator)) \in Nat \ {0}
  <1>1. PICK g : SplitRun(S, text, separator, g)
    BY SplitRuns
  <1>2. Split(text, separator) \in Pieced(S)
    BY <1>1 DEF SplitRun
  <1> QED
    BY <1>2 DEF Pieced

\* Nothing to separate.
LEMMA SplitOne ==
    ASSUME NEW S, NEW text \in Seq(S), NEW separator, separator \notin ToSet(text)
    PROVE  Split(text, separator) = <<text>>
  <1> DEFINE T == {t \in Seq(S) : separator \notin ToSet(t) => Split(t, separator) = <<t>>}
  <1>1. <<>> \in T
    BY SplitGrows
  <1>2. ASSUME NEW t \in Seq(S), NEW c \in S, t \in T PROVE Append(t, c) \in T
    <2>1. /\ Append(t, c) \in Seq(S) /\ Len(Append(t, c)) = Len(t) + 1 /\ Len(t) \in Nat
          /\ \A i \in 1..Len(t) : Append(t, c)[i] = t[i]
          /\ Append(t, c)[Len(t) + 1] = c
      BY AppendProperties
    <2> SUFFICES ASSUME separator \notin ToSet(Append(t, c))
                 PROVE  Split(Append(t, c), separator) = <<Append(t, c)>>
      BY <2>1
    <2>2. separator \notin ToSet(t) /\ c # separator
      BY <2>1 DEF ToSet
    <2>3. Split(t, separator) = <<t>>
      BY <1>2, <2>2
    <2>4. Split(Append(t, c), separator) = SplitStep(<<t>>, c, separator)
      BY <2>3, SplitGrows
    <2> QED
      BY <2>2, <2>4 DEF SplitStep, ReplaceAt, Last
  <1> HIDE DEF T
  <1>3. text \in T
    BY <1>1, <1>2, SequenceInduction
  <1> QED
    BY <1>3 DEF T

\* What is in front of a separator is split by itself.
LEMMA SplitConcat ==
    ASSUME NEW S, NEW s \in Seq(S), NEW t \in Seq(S), NEW separator \in S
    PROVE  Split(Append(s, separator) \o t, separator) = Split(s, separator) \o Split(t, separator)
  <1> DEFINE T == {u \in Seq(S) : Split(Append(s, separator) \o u, separator) =
                                      Split(s, separator) \o Split(u, separator)}
             front == Append(s, separator)
             p == Split(s, separator)
  <1>1. front \in Seq(S)
    BY AppendProperties
  <1>2. p \in Pieced(S) /\ Split(front, separator) = SplitStep(p, separator, separator)
    BY SplitGrows
  <1>3. <<>> \in T
    <2>1. Split(<<>>, separator) = << <<>> >>
      BY SplitGrows
    <2>2. SplitStep(p, separator, separator) = p \o << <<>> >>
      <3>1. <<>> \in Seq(S) /\ p \in Seq(Seq(S))
        BY <1>2 DEF Pieced
      <3> HIDE DEF p
      <3> QED
        BY <3>1, AppendIsConcat DEF SplitStep
    <2>3. front \o <<>> = front
      BY <1>1, ConcatEmptySeq
    <2> HIDE DEF front, p
    <2>4. Split(front \o <<>>, separator) = p \o Split(<<>>, separator)
      BY <1>2, <2>1, <2>2, <2>3
    <2> QED
      BY <2>4 DEF front, p
  <1>4. ASSUME NEW u \in Seq(S), NEW c \in S, u \in T PROVE Append(u, c) \in T
    <2>1. Append(u, c) \in Seq(S)
      BY AppendProperties
    <2>2. front \o Append(u, c) = Append(front \o u, c) /\ front \o u \in Seq(S)
      <3>1. front \o u \in Seq(S) /\ <<c>> \in Seq(S)
        BY <1>1, ConcatProperties
      <3>2. Append(u, c) = u \o <<c>> /\ Append(front \o u, c) = (front \o u) \o <<c>>
        BY <1>1, <3>1, AppendIsConcat
      <3> HIDE DEF front
      <3> QED
        BY <1>1, <3>1, <3>2, ConcatAssociative
    <2>3. Split(front \o u, separator) = p \o Split(u, separator)
      BY <1>4
    <2>4. Split(u, separator) \in Pieced(S)
      BY SplitGrows
    <2> HIDE DEF front, p
    <2>5. Split(Append(front \o u, c), separator) = SplitStep(p \o Split(u, separator), c, separator)
      <3> DEFINE w == front \o u
      <3>1. w \in Seq(S) /\ Split(w, separator) = p \o Split(u, separator)
        BY <2>2, <2>3 DEF front, p
      <3> HIDE DEF w
      <3>2. ASSUME NEW v \in Seq(S)
            PROVE  Split(Append(v, c), separator) = SplitStep(Split(v, separator), c, separator)
        BY ONLY v \in Seq(S), c \in S, SplitGrows, Zenon
      <3>3. Split(Append(w, c), separator) = SplitStep(Split(w, separator), c, separator)
        BY ONLY <3>1, <3>2, Zenon
      <3> QED
        BY <3>1, <3>3 DEF w
    <2>6. SplitStep(p \o Split(u, separator), c, separator) = p \o SplitStep(Split(u, separator), c, separator)
      BY <1>2, <2>4, SplitStepBehind
    <2>7. Split(Append(u, c), separator) = SplitStep(Split(u, separator), c, separator)
      BY SplitGrows
    <2> QED
      BY <2>1, <2>2, <2>5, <2>6, <2>7 DEF front, p
  <1> HIDE DEF T
  <1>5. t \in T
    BY <1>3, <1>4, SequenceInduction
  <1> QED
    BY <1>5 DEF T

(***************************************************************************)
(* Flattened sequences                                                     *)
(***************************************************************************)
FlattenRun(S, seqs, g) ==
    /\ g \in [0..Len(seqs) -> Seq(S)]
    /\ g[0] = <<>>
    /\ \A i \in 1..Len(seqs) : g[i] = g[i - 1] \o seqs[i]
    /\ FlattenSeq(seqs) = g[Len(seqs)]

LEMMA FlattenRuns ==
    ASSUME NEW S, NEW seqs \in Seq(Seq(S))
    PROVE  \E g : FlattenRun(S, seqs, g)
  <1> DEFINE n == Len(seqs)
             V == Seq(S)
             F == [x \in V \X (1..n) |-> x[1] \o seqs[x[2]]]
             Flattens(g) == g = [i \in 1..n |-> IF i = 1 THEN seqs[i] ELSE g[i - 1] \o seqs[i]]
             flatten == CHOOSE g : Flattens(g)
             run == [i \in 0..n |-> IF i = 0 THEN <<>> ELSE flatten[i]]
  <1>1. n \in Nat /\ <<>> \in V
    OBVIOUS
  <1>2. \A i \in 1..n : seqs[i] \in V
    BY ElementOfSeq
  <1>3. F \in [V \X (1..n) -> V]
    BY <1>2, ConcatProperties
  <1>4. PICK h : IsRun(n, V, F, <<>>, h)
    <2> HIDE DEF F, V, n
    <2> QED
      BY <1>1, <1>3, RunExists DEF HasRun
  <1>5. ASSUME NEW i \in 1..n PROVE h[i] \in V /\ h[i - 1] \in V /\ h[i] = h[i - 1] \o seqs[i]
    <2>1. i - 1 \in 0..n /\ i \in 0..n
      OBVIOUS
    <2>2. h[i] \in V /\ h[i - 1] \in V /\ h[i] = F[<<h[i - 1], i>>]
      BY <1>4, <2>1 DEF IsRun
    <2> HIDE DEF V
    <2> QED
      BY <2>2
  <1>6. Flattens([i \in 1..n |-> h[i]])
    <2> DEFINE g == [i \in 1..n |-> h[i]]
    <2>1. ASSUME NEW i \in 1..n PROVE g[i] = IF i = 1 THEN seqs[i] ELSE g[i - 1] \o seqs[i]
      <3>1. CASE i = 1
        <4>1. h[0] = <<>>
          BY <1>4 DEF IsRun
        <4>2. <<>> \o seqs[i] = seqs[i]
          BY <1>2, ConcatEmptySeq
        <4>3. h[i] = h[i - 1] \o seqs[i]
          BY <1>5
        <4>4. i - 1 = 0
          BY <3>1
        <4>5. h[i] = seqs[i]
          BY <4>1, <4>2, <4>3, <4>4
        <4> QED
          BY <3>1, <4>5
      <3>2. CASE i # 1
        <4>1. i - 1 \in 1..n
          BY <3>2
        <4> QED
          BY <1>5, <3>2, <4>1
      <3> QED
        BY <3>1, <3>2
    <2> QED
      BY <2>1
  <1>7. Flattens(flatten)
    BY <1>6
  <1>8. n # 0 => FlattenSeq(seqs) = flatten[n]
    BY DEF FlattenSeq
  <1>9. n = 0 => FlattenSeq(seqs) = <<>>
    <2>1. n = 0 => seqs = <<>>
      BY EmptySeq
    <2> QED
      BY <2>1 DEF FlattenSeq
  <1> HIDE DEF flatten
  <1>10. ASSUME NEW i \in 1..n PROVE run[i] = run[i - 1] \o seqs[i]
    <2>1. run[i] = flatten[i] /\ i - 1 \in 0..n
      OBVIOUS
    <2>2. flatten[i] = IF i = 1 THEN seqs[i] ELSE flatten[i - 1] \o seqs[i]
      BY <1>7
    <2>3. CASE i = 1
      <3>1. <<>> \o seqs[i] = seqs[i]
        BY <1>2, ConcatEmptySeq
      <3>2. run[i - 1] = <<>>
        BY <2>3
      <3> QED
        BY <2>1, <2>2, <2>3, <3>1, <3>2
    <2>4. CASE i # 1
      <3>1. run[i - 1] = flatten[i - 1]
        BY <2>4
      <3> QED
        BY <2>1, <2>2, <2>4, <3>1
    <2> QED
      BY <2>3, <2>4
  <1>11. \A i \in 0..n : run[i] \in V
    <2>1. ASSUME NEW i \in 1..n, run[i - 1] \in V PROVE run[i] \in V
      <3> HIDE DEF run
      <3> QED
        BY <1>2, <1>10, <2>1, ConcatProperties
    <2>2. run[0] \in V
      OBVIOUS
    <2> HIDE DEF run, V, n
    <2> QED
      BY <1>1, <2>1, <2>2, RunStays
  <1>12. run \in [0..n -> V] /\ run[0] = <<>> /\ FlattenSeq(seqs) = run[n]
    BY <1>1, <1>8, <1>9, <1>11
  <1> HIDE DEF run
  <1> QED
    BY <1>10, <1>12 DEF FlattenRun

LEMMA FlattenGrows ==
    ASSUME NEW S, NEW seqs \in Seq(Seq(S)), NEW s \in Seq(S)
    PROVE  /\ FlattenSeq(<<>>) = <<>>
           /\ FlattenSeq(seqs) \in Seq(S)
           /\ FlattenSeq(Append(seqs, s)) = FlattenSeq(seqs) \o s
  <1> DEFINE n == Len(seqs)
             longer == Append(seqs, s)
  <1>1. PICK g : FlattenRun(S, seqs, g)
    BY FlattenRuns
  <1>2. /\ longer \in Seq(Seq(S)) /\ Len(longer) = n + 1 /\ n \in Nat
        /\ \A i \in 1..n : longer[i] = seqs[i]
        /\ longer[n + 1] = s
    BY AppendProperties, LenProperties
  <1> HIDE DEF longer
  <1>3. PICK h : FlattenRun(S, longer, h)
    BY <1>2, FlattenRuns
  <1>4. g[n] = h[n]
    <2>1. g[0] = h[0]
      BY <1>1, <1>3 DEF FlattenRun
    <2>2. ASSUME NEW i \in 1..n, g[i - 1] = h[i - 1] PROVE g[i] = h[i]
      <3>1. i \in 1..Len(longer) /\ longer[i] = seqs[i]
        <4> HIDE DEF n
        <4>1. n \in Nat /\ Len(longer) = n + 1 /\ i \in 1..n
          BY <1>2
        <4>2. i \in 1..Len(longer)
          BY ONLY <4>1
        <4> QED
          BY <1>2, <4>2
      <3> QED
        BY <1>1, <1>3, <2>2, <3>1 DEF FlattenRun
    <2> QED
      BY <1>2, <2>1, <2>2, RunsAgree
  <1>5. h[n + 1] = h[n] \o s
    <2>1. n + 1 \in 1..Len(longer) /\ (n + 1) - 1 = n
      BY <1>2
    <2> QED
      BY <1>2, <1>3, <2>1 DEF FlattenRun
  <1>6. FlattenSeq(<<>>) = <<>>
    BY DEF FlattenSeq
  <1>7. FlattenSeq(seqs) \in Seq(S)
    <2>1. n \in 0..n
      BY <1>2
    <2> QED
      BY <1>1, <2>1 DEF FlattenRun
  <1> QED
    BY <1>1, <1>2, <1>3, <1>4, <1>5, <1>6, <1>7 DEF FlattenRun, longer

LEMMA FlattenOne ==
    ASSUME NEW S, NEW s \in Seq(S)
    PROVE  FlattenSeq(<<s>>) = s
  <1>1. <<>> \in Seq(Seq(S)) /\ Append(<<>>, s) = <<s>>
    OBVIOUS
  <1>2. FlattenSeq(<<>>) = <<>> /\ FlattenSeq(Append(<<>>, s)) = FlattenSeq(<<>>) \o s
    BY <1>1, FlattenGrows
  <1> QED
    BY <1>1, <1>2, ConcatEmptySeq

\* Appending behind a concatenation.
LEMMA ConcatAppend ==
    ASSUME NEW S, NEW s \in Seq(S), NEW t \in Seq(S), NEW e \in S
    PROVE  /\ s \o t \in Seq(S)
           /\ s \o Append(t, e) = Append(s \o t, e)
  <1>1. s \o t \in Seq(S) /\ <<e>> \in Seq(S)
    BY ConcatProperties
  <1>2. Append(t, e) = t \o <<e>> /\ Append(s \o t, e) = (s \o t) \o <<e>>
    BY <1>1, AppendIsConcat
  <1> QED
    BY <1>1, <1>2, ConcatAssociative

LEMMA FlattenConcat ==
    ASSUME NEW S, NEW ss \in Seq(Seq(S)), NEW tt \in Seq(Seq(S))
    PROVE  /\ FlattenSeq(ss \o tt) = FlattenSeq(ss) \o FlattenSeq(tt)
           /\ FlattenSeq(ss) \in Seq(S) /\ FlattenSeq(tt) \in Seq(S)
  <1> DEFINE V == Seq(S)
             T == {uu \in Seq(V) : FlattenSeq(ss \o uu) = FlattenSeq(ss) \o FlattenSeq(uu)}
  <1>1. ASSUME NEW uu \in Seq(V) PROVE FlattenSeq(uu) \in Seq(S)
    <2>1. <<>> \in Seq(S)
      OBVIOUS
    <2> QED
      BY <2>1, FlattenGrows
  <1>2. <<>> \in T
    <2>1. FlattenSeq(<<>>) = <<>>
      BY DEF FlattenSeq
    <2>2. ss \o <<>> = ss /\ FlattenSeq(ss) \o <<>> = FlattenSeq(ss)
      BY <1>1, ConcatEmptySeq
    <2>3. <<>> \in Seq(V)
      OBVIOUS
    <2>4. FlattenSeq(ss \o <<>>) = FlattenSeq(ss) \o FlattenSeq(<<>>)
      BY <2>1, <2>2
    <2> HIDE DEF V
    <2> QED
      BY <2>3, <2>4
  <1>3. ASSUME NEW uu \in Seq(V), NEW u \in V, uu \in T PROVE Append(uu, u) \in T
    <2> DEFINE w == ss \o uu
    <2>1. w \in Seq(V) /\ ss \o Append(uu, u) = Append(w, u) /\ Append(uu, u) \in Seq(V)
      <3> HIDE DEF V
      <3> QED
        BY ConcatAppend, AppendProperties DEF V
    <2>2. FlattenSeq(w) = FlattenSeq(ss) \o FlattenSeq(uu)
      BY <1>3
    <2> HIDE DEF w
    <2>3. FlattenSeq(Append(w, u)) = FlattenSeq(w) \o u
      BY <2>1, FlattenGrows
    <2>4. FlattenSeq(Append(uu, u)) = FlattenSeq(uu) \o u
      BY FlattenGrows
    <2>5. (FlattenSeq(ss) \o FlattenSeq(uu)) \o u = FlattenSeq(ss) \o (FlattenSeq(uu) \o u)
      BY <1>1, ConcatAssociative
    <2> QED
      BY <2>1, <2>2, <2>3, <2>4, <2>5
  <1>4. tt \in T
    <2> HIDE DEF T, V
    <2> QED
      BY <1>2, <1>3, SequenceInduction DEF V
  <1> QED
    BY <1>1, <1>4

\* Each element of a text written as f has it.
Spread(text, f) == FlattenSeq([i \in DOMAIN text |-> f[text[i]]])

\* What f makes of each element of S are sequences over R.
Spells(f, S, R) == f \in [S -> Seq(R)]

LEMMA SpreadGrows ==
    ASSUME NEW S, NEW R, NEW f, Spells(f, S, R), NEW text \in Seq(S), NEW c \in S
    PROVE  /\ f[c] \in Seq(R)
           /\ Spread(<<>>, f) = <<>>
           /\ Spread(text, f) \in Seq(R)
           /\ Spread(Append(text, c), f) = Spread(text, f) \o f[c]
  <1> USE DEF Spells
  <1> DEFINE n == Len(text)
             longer == Append(text, c)
             short == [i \in DOMAIN text |-> f[text[i]]]
             long == [i \in DOMAIN longer |-> f[longer[i]]]
  <1>1. n \in Nat /\ DOMAIN text = 1..n /\ \A i \in 1..n : text[i] \in S
    BY LenProperties, ElementOfSeq
  <1>2. /\ longer \in Seq(S) /\ Len(longer) = n + 1 /\ DOMAIN longer = 1..(n + 1)
        /\ \A i \in 1..n : longer[i] = text[i]
        /\ longer[n + 1] = c
    BY <1>1, AppendProperties, LenProperties
  <1>3. short \in Seq(Seq(R)) /\ Len(short) = n
    BY <1>1
  <1>4. \A i \in 1..(n + 1) : longer[i] \in S
    BY <1>2, ElementOfSeq
  <1> HIDE DEF longer, n
  <1>5. long \in Seq(Seq(R)) /\ Len(long) = n + 1
    BY <1>1, <1>2, <1>4
  <1>6. Append(short, f[c]) \in Seq(Seq(R)) /\ Len(Append(short, f[c])) = n + 1
        /\ \A i \in 1..n : Append(short, f[c])[i] = short[i]
        /\ Append(short, f[c])[n + 1] = f[c]
    <2> HIDE DEF short
    <2> QED
      BY <1>3, AppendProperties
  <1>7. \A i \in 1..(n + 1) : long[i] = Append(short, f[c])[i]
    <2> SUFFICES ASSUME NEW i \in 1..(n + 1) PROVE long[i] = Append(short, f[c])[i]
      OBVIOUS
    <2>1. long[i] = f[longer[i]]
      BY <1>2
    <2>2. CASE i = n + 1
      BY <1>2, <1>6, <2>1, <2>2
    <2>3. CASE i \in 1..n
      <3>1. short[i] = f[text[i]]
        BY <1>1, <2>3
      <3> HIDE DEF short, long
      <3> QED
        BY <1>2, <1>6, <2>1, <2>3, <3>1
    <2>4. i = n + 1 \/ i \in 1..n
      BY <1>1
    <2> QED
      BY <2>2, <2>3, <2>4
  <1>8. long = Append(short, f[c])
    <2> HIDE DEF long, short
    <2> QED
      BY <1>5, <1>6, <1>7, SeqEqual
  <1> HIDE DEF short
  <1>9. FlattenSeq(short) \in Seq(R) /\ FlattenSeq(Append(short, f[c])) = FlattenSeq(short) \o f[c]
    BY <1>3, FlattenGrows
  <1>10. Spread(<<>>, f) = <<>>
    <2>1. [i \in DOMAIN <<>> |-> f[<<>>[i]]] = <<>>
      OBVIOUS
    <2> QED
      BY <2>1 DEF Spread, FlattenSeq
  <1> QED
    BY <1>8, <1>9, <1>10 DEF Spread, longer, short

LEMMA SpreadConcat ==
    ASSUME NEW S, NEW R, NEW f, Spells(f, S, R), NEW s \in Seq(S), NEW t \in Seq(S)
    PROVE  /\ Spread(s \o t, f) = Spread(s, f) \o Spread(t, f)
           /\ Spread(s, f) \in Seq(R) /\ Spread(t, f) \in Seq(R)
  <1> DEFINE T == {u \in Seq(S) : /\ Spread(u, f) \in Seq(R)
                                  /\ Spread(s \o u, f) = Spread(s, f) \o Spread(u, f)}
             U == {u \in Seq(S) : Spread(u, f) \in Seq(R)}
  <1>1. Spread(<<>>, f) = <<>>
    <2>1. [i \in DOMAIN <<>> |-> f[<<>>[i]]] = <<>>
      OBVIOUS
    <2> QED
      BY <2>1 DEF Spread, FlattenSeq
  <1>2. \A u \in Seq(S) : u \in U
    <2>1. <<>> \in U
      <3>1. <<>> \in Seq(S) /\ <<>> \in Seq(R)
        OBVIOUS
      <3> QED
        BY <1>1, <3>1
    <2>2. ASSUME NEW u \in Seq(S), NEW c \in S, u \in U PROVE Append(u, c) \in U
      BY <2>2, SpreadGrows, ConcatProperties, AppendProperties
    <2> HIDE DEF U
    <2> QED
      BY <2>1, <2>2, SequenceInduction
  <1>3. <<>> \in T
    <2>1. s \o <<>> = s /\ Spread(s, f) \o <<>> = Spread(s, f)
      BY <1>2, ConcatEmptySeq
    <2>2. <<>> \in Seq(S) /\ Spread(<<>>, f) \in Seq(R)
      <3>1. <<>> \in Seq(S) /\ <<>> \in Seq(R)
        OBVIOUS
      <3> QED
        BY <1>1, <3>1
    <2>3. Spread(s \o <<>>, f) = Spread(s, f) \o Spread(<<>>, f)
      BY <1>1, <2>1
    <2> QED
      BY <2>2, <2>3
  <1>4. ASSUME NEW u \in Seq(S), NEW c \in S, u \in T PROVE Append(u, c) \in T
    <2> DEFINE w == s \o u
    <2>1. w \in Seq(S) /\ s \o Append(u, c) = Append(w, c) /\ Append(u, c) \in Seq(S)
      BY ConcatAppend, AppendProperties
    <2>2. Spread(w, f) = Spread(s, f) \o Spread(u, f)
      BY <1>4
    <2> HIDE DEF w, T, U
    <2>3. Spread(Append(w, c), f) = Spread(w, f) \o f[c]
      BY <2>1, SpreadGrows
    <2>4. Spread(Append(u, c), f) = Spread(u, f) \o f[c] /\ f[c] \in Seq(R)
      BY SpreadGrows
    <2>5. Spread(s, f) \in Seq(R) /\ Spread(u, f) \in Seq(R) /\ Spread(Append(u, c), f) \in Seq(R)
      BY <1>2, <2>1 DEF U
    <2>6. (Spread(s, f) \o Spread(u, f)) \o f[c] = Spread(s, f) \o (Spread(u, f) \o f[c])
      <3> DEFINE a == Spread(s, f)
                 b == Spread(u, f)
                 d == f[c]
      <3>1. a \in Seq(R) /\ b \in Seq(R) /\ d \in Seq(R)
        BY <2>4, <2>5
      <3> HIDE DEF a, b, d
      <3>2. (a \o b) \o d = a \o (b \o d)
        BY <3>1, ConcatAssociative
      <3> QED
        BY <3>2 DEF a, b, d
    <2>7. Spread(s \o Append(u, c), f) = Spread(s, f) \o Spread(Append(u, c), f)
      BY <2>1, <2>2, <2>3, <2>4, <2>6
    <2> QED
      BY <2>1, <2>5, <2>7 DEF T
  <1>5. t \in T
    <2> HIDE DEF T
    <2> QED
      BY <1>3, <1>4, SequenceInduction
  <1> QED
    BY <1>2, <1>5

LEMMA SpreadOne ==
    ASSUME NEW S, NEW R, NEW f, Spells(f, S, R), NEW c \in S
    PROVE  Spread(<<c>>, f) = f[c] /\ f[c] \in Seq(R)
  <1>1. <<>> \in Seq(S) /\ Append(<<>>, c) = <<c>>
    OBVIOUS
  <1>2. /\ f[c] \in Seq(R)
        /\ Spread(<<>>, f) = <<>>
        /\ Spread(Append(<<>>, c), f) = Spread(<<>>, f) \o f[c]
    <2> DEFINE e == <<>>
    <2>1. e \in Seq(S)
      OBVIOUS
    <2> HIDE DEF e
    <2>2. /\ f[c] \in Seq(R)
          /\ Spread(<<>>, f) = <<>>
          /\ Spread(Append(e, c), f) = Spread(e, f) \o f[c]
      BY <2>1, SpreadGrows
    <2> QED
      BY <2>2 DEF e
  <1>3. <<>> \o f[c] = f[c]
    BY <1>2, ConcatEmptySeq
  <1> QED
    BY <1>1, <1>2, <1>3

LEMMA HeadAndTail ==
    ASSUME NEW S, NEW s \in Seq(S), s # <<>>
    PROVE  /\ Head(s) \in S /\ Tail(s) \in Seq(S)
           /\ s = <<Head(s)>> \o Tail(s)
           /\ Len(s) \in Nat \ {0} /\ Len(Tail(s)) = Len(s) - 1
  <1>1. /\ Head(s) \in S /\ Tail(s) \in Seq(S)
        /\ Len(Tail(s)) = Len(s) - 1
        /\ \A i \in 1..Len(Tail(s)) : Tail(s)[i] = s[i + 1]
    BY HeadTailProperties
  <1>2. Len(s) \in Nat \ {0}
    BY EmptySeq
  <1>3. <<Head(s)>> \in Seq(S) /\ Len(<<Head(s)>>) = 1 /\ <<Head(s)>>[1] = s[1]
    BY <1>1
  <1>4. /\ <<Head(s)>> \o Tail(s) \in Seq(S)
        /\ Len(<<Head(s)>> \o Tail(s)) = Len(s)
        /\ \A i \in 1..Len(s) :
              (<<Head(s)>> \o Tail(s))[i] = IF i <= 1 THEN <<Head(s)>>[i] ELSE Tail(s)[i - 1]
    <2> DEFINE h == <<Head(s)>>
    <2>1. h \in Seq(S) /\ Len(h) = 1
      BY <1>3
    <2> HIDE DEF h
    <2> QED
      BY <1>1, <1>2, <2>1, ConcatProperties DEF h
  <1>5. ASSUME NEW i \in 1..Len(s) PROVE s[i] = (<<Head(s)>> \o Tail(s))[i]
    <2>1. CASE i = 1
      BY <1>3, <1>4, <2>1
    <2>2. CASE i # 1
      <3>1. i - 1 \in 1..Len(Tail(s)) /\ (i - 1) + 1 = i /\ ~(i <= 1)
        BY <1>1, <1>2, <2>2
      <3>2. Tail(s)[i - 1] = s[i]
        BY <1>1, <3>1
      <3> QED
        BY <1>4, <3>1, <3>2
    <2> QED
      BY <2>1, <2>2
  <1>6. s = <<Head(s)>> \o Tail(s)
    BY <1>4, <1>5, SeqEqual
  <1> QED
    BY <1>1, <1>2, <1>6

LEMMA SpreadFirst ==
    ASSUME NEW S, NEW R, NEW f, Spells(f, S, R), NEW u \in Seq(S), u # <<>>
    PROVE  /\ Head(u) \in S /\ Tail(u) \in Seq(S) /\ u = <<Head(u)>> \o Tail(u)
           /\ Spread(u, f) = f[Head(u)] \o Spread(Tail(u), f)
           /\ f[Head(u)] \in Seq(R)
           /\ Spread(Tail(u), f) \in Seq(R)
  <1> DEFINE h == <<Head(u)>>
             r == Tail(u)
  <1>1. Head(u) \in S /\ Tail(u) \in Seq(S) /\ u = <<Head(u)>> \o Tail(u)
    BY HeadAndTail
  <1>2. Spread(h, f) = f[Head(u)] /\ f[Head(u)] \in Seq(R)
    BY <1>1, SpreadOne
  <1>3. h \in Seq(S) /\ r \in Seq(S)
    BY <1>1
  <1>4. u = h \o r
    BY <1>1
  <1> HIDE DEF h, r
  <1>5. Spread(h \o r, f) = Spread(h, f) \o Spread(r, f) /\ Spread(r, f) \in Seq(R)
    BY <1>3, SpreadConcat
  <1> QED
    BY <1>1, <1>2, <1>4, <1>5 DEF r

\* Whatever follows, what is written first tells what it was written for.
Tells(f, S, R) ==
    /\ Spells(f, S, R)
    /\ \A c \in S : f[c] # <<>>
    /\ \A c, d \in S : \A a, b \in Seq(R) : f[c] \o a = f[d] \o b => c = d

LEMMA SpreadTells ==
    ASSUME NEW S, NEW R, NEW f, Tells(f, S, R), NEW s \in Seq(S), NEW t \in Seq(S),
           Spread(s, f) = Spread(t, f)
    PROVE  s = t
  <1> DEFINE T == {n \in Nat : \A u \in Seq(S), v \in Seq(S) :
                                 Len(u) = n /\ Spread(u, f) = Spread(v, f) => u = v}
  <1>1. Spells(f, S, R)
    BY DEF Tells
  <1>2. ASSUME NEW u \in Seq(S), u # <<>>
        PROVE  /\ Head(u) \in S /\ Tail(u) \in Seq(S) /\ u = <<Head(u)>> \o Tail(u)
               /\ Spread(u, f) = f[Head(u)] \o Spread(Tail(u), f)
               /\ f[Head(u)] \in Seq(R)
               /\ Spread(Tail(u), f) \in Seq(R)
               /\ Spread(u, f) # <<>>
    <2> HIDE DEF T
    <2>1. /\ Head(u) \in S /\ Tail(u) \in Seq(S) /\ u = <<Head(u)>> \o Tail(u)
          /\ Spread(u, f) = f[Head(u)] \o Spread(Tail(u), f)
          /\ f[Head(u)] \in Seq(R)
          /\ Spread(Tail(u), f) \in Seq(R)
      BY <1>1, <1>2, SpreadFirst
    <2> DEFINE a == f[Head(u)]
               b == Spread(Tail(u), f)
    <2>2. a \in Seq(R) /\ b \in Seq(R) /\ a # <<>>
      BY <2>1 DEF Tells
    <2> HIDE DEF a, b
    <2>3. a \o b # <<>>
      BY <2>2, ConcatEqualIffEmpty
    <2> QED
      BY <2>1, <2>3 DEF a, b
  <1>3. Spread(<<>>, f) = <<>>
    BY DEF Spread, FlattenSeq
  <1>4. 0 \in T
    <2>1. \A u \in Seq(S) : Len(u) = 0 => u = <<>>
      BY EmptySeq
    <2> QED
      BY <1>2, <1>3, <2>1
  <1>5. ASSUME NEW n \in Nat, n \in T PROVE n + 1 \in T
    <2> SUFFICES ASSUME NEW u \in Seq(S), NEW v \in Seq(S), Len(u) = n + 1, Spread(u, f) = Spread(v, f)
                 PROVE  u = v
      OBVIOUS
    <2>1. u # <<>>
      OBVIOUS
    <2>2. v # <<>>
      BY <1>2, <1>3, <2>1
    <2>3. f[Head(u)] \o Spread(Tail(u), f) = f[Head(v)] \o Spread(Tail(v), f)
      BY <1>2, <2>1, <2>2
    <2>4. /\ Head(u) \in S /\ Head(v) \in S /\ Tail(u) \in Seq(S) /\ Tail(v) \in Seq(S)
          /\ Spread(Tail(u), f) \in Seq(R) /\ Spread(Tail(v), f) \in Seq(R) /\ f[Head(v)] \in Seq(R)
      BY <1>2, <2>1, <2>2
    <2>5. Head(u) = Head(v)
      BY <2>3, <2>4 DEF Tells
    <2>6. Spread(Tail(u), f) = Spread(Tail(v), f)
      <3> DEFINE a == Spread(Tail(u), f)
                 b == Spread(Tail(v), f)
                 h == f[Head(v)]
      <3>1. h \o a = h \o b /\ a \in Seq(R) /\ b \in Seq(R) /\ h \in Seq(R)
        BY <2>3, <2>4, <2>5
      <3> HIDE DEF a, b, h
      <3>2. a = b
        BY <3>1, ConcatSimplifications
      <3> QED
        BY <3>2 DEF a, b
    <2>7. Len(Tail(u)) = n
      BY <2>1, HeadAndTail
    <2>8. Tail(u) = Tail(v)
      BY <1>5, <2>4, <2>6, <2>7
    <2> QED
      BY <1>2, <2>1, <2>2, <2>5, <2>8
  <1>6. Len(s) \in T
    <2>1. Len(s) \in Nat
      OBVIOUS
    <2> HIDE DEF T
    <2>2. \A i \in 0..Len(s) : i \in T
      BY <1>4, <1>5, <2>1, Induction
    <2> QED
      BY <2>1, <2>2
  <1> QED
    BY <1>6

(***************************************************************************)
(* What is in a sequence, and without some of it                           *)
(***************************************************************************)
LEMMA ToSetIs ==
    ASSUME NEW S, NEW s \in Seq(S)
    PROVE  ToSet(s) = {s[i] : i \in 1..Len(s)} /\ ToSet(s) \subseteq S
  <1>1. DOMAIN s = 1..Len(s)
    BY LenProperties
  <1> QED
    BY <1>1, ElementOfSeq DEF ToSet

LEMMA ToSetGrows ==
    ASSUME NEW S, NEW s \in Seq(S), NEW e \in S
    PROVE  ToSet(Append(s, e)) = ToSet(s) \cup {e} /\ ToSet(<<>>) = {}
  <1> DEFINE w == Append(s, e)
  <1>1. /\ w \in Seq(S) /\ Len(w) = Len(s) + 1 /\ Len(s) \in Nat
        /\ \A i \in 1..Len(s) : w[i] = s[i]
        /\ w[Len(s) + 1] = e
    BY AppendProperties
  <1> HIDE DEF w
  <1>2. ToSet(w) = {w[i] : i \in 1..Len(w)} /\ ToSet(s) = {s[i] : i \in 1..Len(s)}
    BY <1>1, ToSetIs
  <1>3. 1..Len(w) = (1..Len(s)) \cup {Len(s) + 1}
    BY <1>1
  <1>4. ToSet(w) = ToSet(s) \cup {e}
    BY <1>1, <1>2, <1>3
  <1>5. ToSet(<<>>) = {}
    BY DEF ToSet
  <1> QED
    BY <1>4, <1>5 DEF w

LEMMA ToSetConcat ==
    ASSUME NEW S, NEW s \in Seq(S), NEW t \in Seq(S)
    PROVE  ToSet(s \o t) = ToSet(s) \cup ToSet(t)
  <1> DEFINE w == s \o t
  <1>1. /\ w \in Seq(S) /\ Len(w) = Len(s) + Len(t) /\ Len(s) \in Nat /\ Len(t) \in Nat
        /\ \A i \in 1..Len(s) : w[i] = s[i]
        /\ \A i \in 1..Len(t) : w[Len(s) + i] = t[i]
    BY BehindOf
  <1> HIDE DEF w
  <1>2. /\ ToSet(w) = {w[i] : i \in 1..Len(w)} /\ ToSet(s) = {s[i] : i \in 1..Len(s)}
        /\ ToSet(t) = {t[i] : i \in 1..Len(t)}
    BY <1>1, ToSetIs
  <1>3. ASSUME NEW i \in 1..Len(w) PROVE w[i] \in ToSet(s) \cup ToSet(t)
    <2>1. CASE i <= Len(s)
      BY <1>1, <1>2, <2>1
    <2>2. CASE ~(i <= Len(s))
      <3>1. i - Len(s) \in 1..Len(t) /\ Len(s) + (i - Len(s)) = i
        BY <1>1, <2>2
      <3> QED
        BY <1>1, <1>2, <3>1
    <2> QED
      BY <2>1, <2>2
  <1>4. ASSUME NEW i \in 1..Len(s) PROVE s[i] \in ToSet(w)
    <2>1. i \in 1..Len(w)
      BY <1>1
    <2> QED
      BY <1>1, <1>2, <2>1
  <1>5. ASSUME NEW i \in 1..Len(t) PROVE t[i] \in ToSet(w)
    <2>1. Len(s) + i \in 1..Len(w)
      BY <1>1
    <2> QED
      BY <1>1, <1>2, <2>1
  <1>6. ToSet(w) = ToSet(s) \cup ToSet(t)
    BY <1>2, <1>3, <1>4, <1>5
  <1> QED
    BY <1>6 DEF w

\* What becomes of one element.
Kept(S, rejected) == [c \in S |-> IF c \in rejected THEN <<>> ELSE <<c>>]

LEMMA DroppingSpreads ==
    ASSUME NEW S, NEW rejected, NEW text \in Seq(S)
    PROVE  /\ Spells(Kept(S, rejected), S, S)
           /\ Dropping(text, rejected) = Spread(text, Kept(S, rejected))
  <1>1. ASSUME NEW c \in S PROVE (IF c \in rejected THEN <<>> ELSE <<c>>) \in Seq(S)
    OBVIOUS
  <1>2. Spells(Kept(S, rejected), S, S)
    BY <1>1 DEF Spells, Kept
  <1>3. DOMAIN text = 1..Len(text) /\ \A i \in 1..Len(text) : text[i] \in S
    BY LenProperties, ElementOfSeq
  <1>4. [i \in DOMAIN text |-> IF text[i] \in rejected THEN <<>> ELSE <<text[i]>>]
            = [i \in DOMAIN text |-> Kept(S, rejected)[text[i]]]
    BY <1>3 DEF Kept
  <1> QED
    BY <1>2, <1>4 DEF Dropping, Spread

LEMMA DroppingGrows ==
    ASSUME NEW S, NEW rejected, NEW s \in Seq(S), NEW c \in S
    PROVE  /\ Dropping(<<>>, rejected) = <<>>
           /\ Dropping(s, rejected) \in Seq(S)
           /\ Dropping(Append(s, c), rejected) =
                 IF c \in rejected THEN Dropping(s, rejected) ELSE Append(Dropping(s, rejected), c)
  <1> DEFINE f == Kept(S, rejected)
             R == S
             none == <<>>
             longer == Append(s, c)
  <1>1. none \in Seq(S) /\ longer \in Seq(S)
    BY AppendProperties
  <1>2. f[c] = IF c \in rejected THEN <<>> ELSE <<c>>
    BY DEF Kept
  <1>3. Spells(f, S, R) /\ Dropping(s, rejected) = Spread(s, f)
    BY DroppingSpreads
  <1> HIDE DEF longer, none
  <1>4. Dropping(longer, rejected) = Spread(longer, f) /\ Dropping(none, rejected) = Spread(none, f)
    BY <1>1, DroppingSpreads
  <1> HIDE DEF R, f
  <1>5. /\ Spread(<<>>, f) = <<>> /\ Spread(s, f) \in Seq(R)
        /\ Spread(Append(s, c), f) = Spread(s, f) \o f[c]
    <2>1. Spells(f, S, R) /\ s \in Seq(S) /\ c \in S
      BY <1>3
    <2> QED
      BY ONLY <2>1, SpreadGrows
  <1> DEFINE d == Spread(s, f)
  <1>6. d \in Seq(S)
    BY <1>5 DEF R
  <1> HIDE DEF d
  <1>7. d \o <<>> = d /\ Append(d, c) = d \o <<c>>
    BY <1>6, ConcatEmptySeq, AppendIsConcat
  <1>8. Dropping(longer, rejected) = d \o f[c]
    BY <1>4, <1>5 DEF d, longer
  <1>9. Dropping(none, rejected) = none
    BY <1>4, <1>5 DEF none
  <1>10. Dropping(s, rejected) = d
    BY <1>3 DEF d
  <1>11. Dropping(longer, rejected) = IF c \in rejected THEN d ELSE Append(d, c)
    BY <1>2, <1>7, <1>8
  <1> QED
    BY <1>6, <1>9, <1>10, <1>11 DEF longer, none

LEMMA DroppingConcat ==
    ASSUME NEW S, NEW rejected, NEW s \in Seq(S), NEW t \in Seq(S)
    PROVE  /\ Dropping(s \o t, rejected) = Dropping(s, rejected) \o Dropping(t, rejected)
           /\ Dropping(s, rejected) \in Seq(S) /\ Dropping(t, rejected) \in Seq(S)
  <1> DEFINE f == Kept(S, rejected)
             R == S
             w == s \o t
  <1>1. w \in Seq(S)
    BY ConcatProperties
  <1>2. /\ Spells(f, S, R) /\ Dropping(s, rejected) = Spread(s, f) /\ Dropping(t, rejected) = Spread(t, f)
    BY DroppingSpreads
  <1> HIDE DEF w
  <1>3. Dropping(w, rejected) = Spread(w, f)
    BY <1>1, DroppingSpreads
  <1> HIDE DEF R, f
  <1>4. /\ Spread(s \o t, f) = Spread(s, f) \o Spread(t, f)
        /\ Spread(s, f) \in Seq(R) /\ Spread(t, f) \in Seq(R)
    BY <1>2, SpreadConcat
  <1> QED
    BY <1>2, <1>3, <1>4 DEF w, R

LEMMA DroppingType ==
    ASSUME NEW S, NEW rejected, NEW s \in Seq(S)
    PROVE  Dropping(s, rejected) \in Seq(S)
  BY DroppingConcat

LEMMA DroppingNothing ==
    ASSUME NEW rejected
    PROVE  Dropping(<<>>, rejected) = <<>>
  <1>1. \E S : S # {}
    <2>1. {0} # {}
      OBVIOUS
    <2> QED
      BY <2>1
  <1>2. PICK S : S # {}
    BY <1>1
  <1>3. PICK c \in S : TRUE
    BY <1>2
  <1> DEFINE none == <<>>
  <1>4. none \in Seq(S)
    OBVIOUS
  <1> HIDE DEF none
  <1> QED
    BY <1>3, <1>4, DroppingGrows

LEMMA DroppingLeaves ==
    ASSUME NEW S, NEW rejected, NEW s \in Seq(S)
    PROVE  ToSet(Dropping(s, rejected)) = ToSet(s) \ rejected
  <1> DEFINE T == {t \in Seq(S) : ToSet(Dropping(t, rejected)) = ToSet(t) \ rejected}
             none == <<>>
  <1>1. <<>> \in T
    <2>1. none \in Seq(S) /\ Dropping(none, rejected) = none /\ ToSet(none) = {}
      BY ToSetGrows, DroppingNothing
    <2> QED
      BY <2>1
  <1>2. ASSUME NEW t \in Seq(S), NEW c \in S, t \in T PROVE Append(t, c) \in T
    <2> DEFINE w == Append(t, c)
               d == Dropping(t, rejected)
    <2>1. w \in Seq(S)
      BY AppendProperties
    <2>2. d \in Seq(S) /\ Dropping(w, rejected) = IF c \in rejected THEN d ELSE Append(d, c)
      BY DroppingGrows
    <2>3. ToSet(d) = ToSet(t) \ rejected
      BY <1>2
    <2>4. ToSet(w) = ToSet(t) \cup {c}
      BY ToSetGrows
    <2> HIDE DEF w, d
    <2>5. ToSet(Append(d, c)) = ToSet(d) \cup {c}
      BY <2>2, ToSetGrows
    <2>6. ToSet(Dropping(w, rejected)) = ToSet(w) \ rejected
      <3>1. CASE c \in rejected
        BY <2>2, <2>3, <2>4, <3>1
      <3>2. CASE c \notin rejected
        <4>1. ToSet(Dropping(w, rejected)) = (ToSet(t) \ rejected) \cup {c}
          BY <2>2, <2>3, <2>5, <3>2
        <4> QED
          BY <2>4, <3>2, <4>1
      <3> QED
        BY <3>1, <3>2
    <2> QED
      BY <2>1, <2>6 DEF w
  <1>3. s \in T
    <2> HIDE DEF T
    <2> QED
      BY <1>1, <1>2, SequenceInduction
  <1> QED
    BY <1>3

LEMMA DroppingAll ==
    ASSUME NEW S, NEW rejected, NEW s \in Seq(S), ToSet(s) \subseteq rejected
    PROVE  Dropping(s, rejected) = <<>>
  <1> DEFINE d == Dropping(s, rejected)
  <1>1. ToSet(d) = {}
    BY DroppingLeaves
  <1>2. d \in Seq(S)
    BY DroppingType
  <1> HIDE DEF d
  <1>3. ASSUME d # <<>> PROVE FALSE
    <2>1. Len(d) \in Nat \ {0} /\ ToSet(d) = {d[i] : i \in 1..Len(d)}
      BY <1>2, <1>3, EmptySeq, ToSetIs
    <2>2. d[1] \in ToSet(d)
      BY <2>1
    <2> QED
      BY <1>1, <2>2
  <1> QED
    BY <1>3 DEF d

LEMMA DroppingNone ==
    ASSUME NEW S, NEW rejected, NEW s \in Seq(S), ToSet(s) \cap rejected = {}
    PROVE  Dropping(s, rejected) = s
  <1> DEFINE T == {t \in Seq(S) : ToSet(t) \cap rejected = {} => Dropping(t, rejected) = t}
             none == <<>>
  <1>1. <<>> \in T
    <2>1. none \in Seq(S) /\ Dropping(none, rejected) = none
      BY DroppingNothing
    <2> QED
      BY <2>1
  <1>2. ASSUME NEW t \in Seq(S), NEW c \in S, t \in T PROVE Append(t, c) \in T
    <2> DEFINE w == Append(t, c)
               d == Dropping(t, rejected)
    <2>1. w \in Seq(S)
      BY AppendProperties
    <2>2. Dropping(w, rejected) = IF c \in rejected THEN d ELSE Append(d, c)
      BY DroppingGrows
    <2>3. ToSet(t) \cap rejected = {} => d = t
      BY <1>2
    <2>4. ToSet(w) = ToSet(t) \cup {c}
      BY ToSetGrows
    <2> HIDE DEF d
    <2>5. ASSUME ToSet(w) \cap rejected = {} PROVE Dropping(w, rejected) = w
      <3> HIDE DEF w
      <3>1. ToSet(t) \cap rejected = {} /\ c \notin rejected
        BY <2>4, <2>5
      <3> QED
        BY <2>2, <2>3, <3>1 DEF w
    <2> QED
      BY <2>1, <2>5
  <1>3. s \in T
    <2> HIDE DEF T
    <2> QED
      BY <1>1, <1>2, SequenceInduction
  <1> QED
    BY <1>3

LEMMA DroppingSame ==
    ASSUME NEW S, NEW s \in Seq(S), NEW A, NEW B, \A c \in ToSet(s) : c \in A <=> c \in B
    PROVE  Dropping(s, A) = Dropping(s, B)
  <1>1. ASSUME NEW i \in DOMAIN s PROVE s[i] \in A <=> s[i] \in B
    BY DEF ToSet
  <1>2. [i \in DOMAIN s |-> IF s[i] \in A THEN <<>> ELSE <<s[i]>>]
            = [i \in DOMAIN s |-> IF s[i] \in B THEN <<>> ELSE <<s[i]>>]
    BY <1>1
  <1> QED
    BY <1>2 DEF Dropping

LEMMA DroppingCommutes ==
    ASSUME NEW S, NEW s \in Seq(S), NEW A, NEW B
    PROVE  Dropping(Dropping(s, A), B) = Dropping(Dropping(s, B), A)
  <1> DEFINE T == {t \in Seq(S) : Dropping(Dropping(t, A), B) = Dropping(Dropping(t, B), A)}
             none == <<>>
  <1>1. <<>> \in T
    <2>1. none \in Seq(S) /\ Dropping(none, A) = none /\ Dropping(none, B) = none
      BY DroppingNothing
    <2> QED
      BY <2>1
  <1>2. ASSUME NEW t \in Seq(S), NEW c \in S, t \in T PROVE Append(t, c) \in T
    <2> DEFINE w == Append(t, c)
               a == Dropping(t, A)
               b == Dropping(t, B)
    <2>1. w \in Seq(S)
      BY AppendProperties
    <2>2. a \in Seq(S) /\ Dropping(w, A) = IF c \in A THEN a ELSE Append(a, c)
      BY DroppingGrows
    <2>3. b \in Seq(S) /\ Dropping(w, B) = IF c \in B THEN b ELSE Append(b, c)
      BY DroppingGrows
    <2>4. Dropping(a, B) = Dropping(b, A)
      BY <1>2
    <2> HIDE DEF w, a, b
    <2>5. Dropping(Append(a, c), B) = IF c \in B THEN Dropping(a, B) ELSE Append(Dropping(a, B), c)
      BY <2>2, DroppingGrows
    <2>6. Dropping(Append(b, c), A) = IF c \in A THEN Dropping(b, A) ELSE Append(Dropping(b, A), c)
      BY <2>3, DroppingGrows
    <2>7. Dropping(Dropping(w, A), B) = Dropping(Dropping(w, B), A)
      BY <2>2, <2>3, <2>4, <2>5, <2>6
    <2> QED
      BY <2>1, <2>7 DEF w
  <1>3. s \in T
    <2> HIDE DEF T
    <2> QED
      BY <1>1, <1>2, SequenceInduction
  <1> QED
    BY <1>3

(***************************************************************************)
(* Texts cut up and put together                                           *)
(***************************************************************************)
\* Another element in the last place.
LEMMA ReplaceLast ==
    ASSUME NEW S, NEW p \in Seq(S), p # <<>>, NEW e \in S
    PROVE  /\ Front(p) \in Seq(S) /\ Last(p) \in S
           /\ p = Append(Front(p), Last(p))
           /\ ReplaceAt(p, Len(p), e) = Append(Front(p), e)
  <1> DEFINE f == Front(p)
             n == Len(p)
             w == [p EXCEPT ![n] = e]
             v == Append(f, e)
  <1>1. f \in Seq(S) /\ Last(p) \in S /\ p = Append(f, Last(p))
    BY FrontAndLast
  <1> HIDE DEF f
  <1>2. /\ n = Len(f) + 1 /\ Len(f) \in Nat
        /\ \A i \in 1..Len(f) : p[i] = f[i]
    BY <1>1, AppendProperties
  <1>3. n \in 1..Len(p)
    BY <1>2
  <1>4. /\ w \in Seq(S) /\ Len(w) = n
        /\ \A j \in 1..n : w[j] = IF j = n THEN e ELSE p[j]
    <2>1. n \in 1..Len(p) /\ n = Len(p)
      BY <1>3
    <2> HIDE DEF n
    <2> QED
      BY <2>1, ExceptSeq
  <1>5. /\ v \in Seq(S) /\ Len(v) = Len(f) + 1
        /\ \A i \in 1..Len(f) : v[i] = f[i]
        /\ v[Len(f) + 1] = e
    BY <1>1, AppendProperties
  <1> HIDE DEF w, v, n
  <1>6. ASSUME NEW i \in 1..Len(w) PROVE w[i] = v[i]
    <2>1. i = n \/ i \in 1..Len(f)
      BY <1>2, <1>4
    <2> QED
      BY <1>2, <1>4, <1>5, <2>1
  <1>7. w = v
    BY <1>2, <1>4, <1>5, <1>6, SeqEqual
  <1> QED
    BY <1>1, <1>7 DEF ReplaceAt, w, v, f, n

\* All that is in them is in what they make together.
LEMMA FlattenHolds ==
    ASSUME NEW S, NEW seqs \in Seq(Seq(S))
    PROVE  ToSet(FlattenSeq(seqs)) = UNION {ToSet(seqs[i]) : i \in 1..Len(seqs)}
  <1> DEFINE V == Seq(S)
             T == {p \in Seq(V) : ToSet(FlattenSeq(p)) = UNION {ToSet(p[i]) : i \in 1..Len(p)}}
             none == <<>>
  <1>1. <<>> \in T
    <2>1. none \in Seq(V) /\ FlattenSeq(none) = none /\ ToSet(none) = {} /\ Len(none) = 0
      <3>1. FlattenSeq(<<>>) = <<>>
        BY DEF FlattenSeq
      <3> QED
        BY <3>1 DEF ToSet
    <2> QED
      BY <2>1
  <1>2. ASSUME NEW p \in Seq(V), NEW s \in V, p \in T PROVE Append(p, s) \in T
    <2> DEFINE w == Append(p, s)
    <2>1. /\ w \in Seq(V) /\ Len(w) = Len(p) + 1 /\ Len(p) \in Nat
          /\ \A i \in 1..Len(p) : w[i] = p[i]
          /\ w[Len(p) + 1] = s
      BY AppendProperties
    <2>2. FlattenSeq(p) \in V /\ FlattenSeq(w) = FlattenSeq(p) \o s
      BY FlattenGrows
    <2> HIDE DEF w
    <2>3. ToSet(FlattenSeq(w)) = ToSet(FlattenSeq(p)) \cup ToSet(s)
      BY <2>2, ToSetConcat
    <2>4. ToSet(FlattenSeq(p)) = UNION {ToSet(p[i]) : i \in 1..Len(p)}
      BY <1>2
    <2>5. 1..Len(w) = (1..Len(p)) \cup {Len(p) + 1}
      BY <2>1
    <2>6. {ToSet(w[i]) : i \in 1..Len(w)} = {ToSet(p[i]) : i \in 1..Len(p)} \cup {ToSet(s)}
      BY <2>1, <2>5
    <2>7. ToSet(FlattenSeq(w)) = UNION {ToSet(w[i]) : i \in 1..Len(w)}
      BY <2>3, <2>4, <2>6
    <2> QED
      BY <2>1, <2>7 DEF w
  <1>3. seqs \in T
    <2> HIDE DEF T, V
    <2>1. seqs \in Seq(V)
      BY DEF V
    <2> QED
      BY <1>1, <1>2, <2>1, SequenceInduction
  <1> QED
    BY <1>3

\* Splitting loses nothing but separators.
LEMMA SplitLoses ==
    ASSUME NEW S, NEW text \in Seq(S), NEW separator, NEW rejected, separator \in rejected
    PROVE  Dropping(FlattenSeq(Split(text, separator)), rejected) = Dropping(text, rejected)
  <1> DEFINE V == Seq(S)
             All(t) == FlattenSeq(Split(t, separator))
             T == {t \in Seq(S) : Dropping(All(t), rejected) = Dropping(t, rejected)}
             none == <<>>
  <1>1. <<>> \in T
    <2>1. none \in Seq(S) /\ none \in V
      OBVIOUS
    <2>2. Split(none, separator) = <<none>>
      <3>1. separator \notin ToSet(none)
        BY DEF ToSet
      <3> HIDE DEF none
      <3> QED
        BY <2>1, <3>1, SplitOne
    <2>3. FlattenSeq(<<none>>) = none
      <3> HIDE DEF none
      <3> QED
        BY <2>1, FlattenOne
    <2> QED
      BY <2>1, <2>2, <2>3
  <1>2. ASSUME NEW t \in Seq(S), NEW c \in S, t \in T PROVE Append(t, c) \in T
    <2> DEFINE w == Append(t, c)
               p == Split(t, separator)
               d == Dropping(t, rejected)
    <2>1. w \in Seq(S)
      BY AppendProperties
    <2>2. p \in Seq(V) /\ p # <<>> /\ Split(w, separator) = SplitStep(p, c, separator)
      <3>1. p \in Pieced(S) /\ Split(w, separator) = SplitStep(p, c, separator)
        BY SplitGrows
      <3> HIDE DEF p, w
      <3>2. p # <<>>
        BY <3>1 DEF Pieced
      <3> QED
        BY <3>1, <3>2 DEF Pieced
    <2>3. Dropping(w, rejected) = IF c \in rejected THEN d ELSE Append(d, c)
      BY DroppingGrows
    <2>4. Dropping(FlattenSeq(p), rejected) = d
      BY <1>2
    <2> HIDE DEF w, p, d
    <2>5. FlattenSeq(p) \in V
      BY <2>2, FlattenConcat DEF V
    <2>6. CASE c = separator
      <3>1. none \in V
        OBVIOUS
      <3>2. FlattenSeq(Append(p, none)) = FlattenSeq(p) \o none
        <4> HIDE DEF none
        <4> QED
          BY <2>2, <3>1, FlattenGrows DEF V
      <3>3. FlattenSeq(p) \o none = FlattenSeq(p)
        BY <2>5, ConcatEmptySeq
      <3>4. Split(w, separator) = Append(p, none)
        BY <2>2, <2>6 DEF SplitStep
      <3> HIDE DEF none
      <3>5. Dropping(All(w), rejected) = d
        BY <2>4, <3>2, <3>3, <3>4
      <3> QED
        BY <2>1, <2>3, <2>6, <3>5 DEF w
    <2>7. CASE c # separator
      <3> DEFINE l == Last(p)
                 f == Front(p)
                 lc == Append(l, c)
      <3>1. l \in V
        BY <2>2, FrontAndLast
      <3>2. lc \in V /\ lc = l \o <<c>>
        BY <3>1, AppendProperties, AppendIsConcat
      <3> HIDE DEF lc
      <3>3. f \in Seq(V) /\ p = Append(f, l) /\ ReplaceAt(p, Len(p), lc) = Append(f, lc)
        <4> HIDE DEF V
        <4> QED
          BY <2>2, <3>2, ReplaceLast
      <3> HIDE DEF l, f
      <3>4. /\ FlattenSeq(p) = FlattenSeq(f) \o l
            /\ FlattenSeq(Append(f, lc)) = FlattenSeq(f) \o lc
            /\ FlattenSeq(f) \in V
        BY <3>1, <3>2, <3>3, FlattenGrows
      <3>5. FlattenSeq(f) \o lc = Append(FlattenSeq(p), c)
        <4>1. FlattenSeq(f) \o Append(l, c) = Append(FlattenSeq(f) \o l, c)
          BY <3>1, <3>4, ConcatAppend
        <4> QED
          BY <3>4, <4>1 DEF lc
      <3>6. Split(w, separator) = Append(f, lc)
        BY <2>2, <2>7, <3>3 DEF SplitStep, lc, l
      <3>7. All(w) = Append(FlattenSeq(p), c)
        BY <3>4, <3>5, <3>6
      <3>8. Dropping(Append(FlattenSeq(p), c), rejected) =
                IF c \in rejected THEN d ELSE Append(d, c)
        BY <2>4, <2>5, DroppingGrows
      <3>9. Dropping(All(w), rejected) = Dropping(w, rejected)
        BY <2>3, <3>7, <3>8
      <3> QED
        BY <2>1, <3>9 DEF w
    <2> QED
      BY <2>6, <2>7
  <1>3. text \in T
    <2> HIDE DEF T
    <2> QED
      BY <1>1, <1>2, SequenceInduction
  <1> QED
    BY <1>3

\* What is no separator is in one of the pieces.
LEMMA SplitHolds ==
    ASSUME NEW S, NEW text \in Seq(S), NEW separator, NEW c \in ToSet(text), c # separator
    PROVE  LET lines == Split(text, separator)
           IN  \E i \in 1..Len(lines) : c \in ToSet(lines[i])
  <1> DEFINE lines == Split(text, separator)
             all == FlattenSeq(lines)
             gone == {separator}
  <1>1. lines \in Seq(Seq(S))
    BY SplitType
  <1>2. Dropping(all, gone) = Dropping(text, gone)
    <2>1. separator \in gone
      OBVIOUS
    <2> HIDE DEF gone
    <2> QED
      BY <2>1, SplitLoses
  <1> HIDE DEF lines
  <1>3. all \in Seq(S) /\ ToSet(all) = UNION {ToSet(lines[i]) : i \in 1..Len(lines)}
    BY <1>1, FlattenHolds, FlattenConcat
  <1> HIDE DEF all, gone
  <1>4. ToSet(all) \ gone = ToSet(text) \ gone
    BY <1>2, <1>3, DroppingLeaves
  <1>5. c \in ToSet(all)
    BY <1>4 DEF gone
  <1> QED
    BY <1>3, <1>5 DEF lines

LEMMA JoinHolds ==
    ASSUME NEW S, NEW texts \in Seq(Seq(S)), NEW separator \in S
    PROVE  /\ Join(texts, separator) \in Seq(S)
           /\ \A i \in 1..Len(texts) : ToSet(texts[i]) \subseteq ToSet(Join(texts, separator))
           /\ \A c \in ToSet(Join(texts, separator)) :
                 c = separator \/ \E i \in 1..Len(texts) : c \in ToSet(texts[i])
  <1> DEFINE gap == <<separator>>
             led == [i \in DOMAIN texts |-> IF i = 1 THEN texts[i] ELSE gap \o texts[i]]
  <1>1. /\ DOMAIN texts = 1..Len(texts) /\ Len(texts) \in Nat
        /\ \A i \in 1..Len(texts) : texts[i] \in Seq(S)
    BY LenProperties, ElementOfSeq
  <1>2. gap \in Seq(S) /\ ToSet(gap) = {separator}
    BY DEF ToSet
  <1> HIDE DEF gap
  <1>3. ASSUME NEW i \in 1..Len(texts)
        PROVE  /\ gap \o texts[i] \in Seq(S)
               /\ ToSet(gap \o texts[i]) = {separator} \cup ToSet(texts[i])
    BY <1>1, <1>2, ConcatProperties, ToSetConcat
  <1>4. /\ led \in Seq(Seq(S)) /\ Len(led) = Len(texts)
        /\ \A i \in 1..Len(texts) : led[i] = IF i = 1 THEN texts[i] ELSE gap \o texts[i]
    BY <1>1, <1>3
  <1>5. Join(texts, separator) = FlattenSeq(led)
    BY DEF Join, gap
  <1> HIDE DEF led
  <1>6. /\ FlattenSeq(led) \in Seq(S)
        /\ ToSet(FlattenSeq(led)) = UNION {ToSet(led[i]) : i \in 1..Len(led)}
    BY <1>4, FlattenHolds, FlattenConcat
  <1>7. ASSUME NEW i \in 1..Len(texts)
        PROVE  ToSet(texts[i]) \subseteq ToSet(led[i]) /\ ToSet(led[i]) \subseteq {separator} \cup ToSet(texts[i])
    BY <1>3, <1>4
  <1>8. ASSUME NEW i \in 1..Len(texts) PROVE ToSet(texts[i]) \subseteq ToSet(FlattenSeq(led))
    BY <1>4, <1>6, <1>7
  <1>9. ASSUME NEW c \in ToSet(FlattenSeq(led))
        PROVE  c = separator \/ \E i \in 1..Len(texts) : c \in ToSet(texts[i])
    <2>1. PICK i \in 1..Len(led) : c \in ToSet(led[i])
      BY <1>6
    <2> QED
      BY <1>4, <1>7, <2>1
  <1> QED
    BY <1>5, <1>6, <1>8, <1>9
=============================================================================
