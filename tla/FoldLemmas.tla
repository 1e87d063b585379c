----------------------------- MODULE FoldLemmas -----------------------------
(***************************************************************************)
(* Folds over sequences, for proofs.  FoldLeft is defined by a function on *)
(* the sets of positions of a sequence; here it is shown that this         *)
(* function exists, and that it is determined step by step.  An operation  *)
(* is given as a function op on pairs of a value in A and an element in C. *)
(***************************************************************************)
EXTENDS Naturals, Sequences, SequencesExt, FiniteSetTheorems, SequenceTheorems, TLAPS

\* Every non-empty set of natural numbers has a least element.
LEMMA LeastNatural ==
  ASSUME NEW T \in SUBSET Nat, T # {}
  PROVE  \E x \in T : \A y \in T : x <= y
<1> DEFINE F == {0..n : n \in T}
           R == StrictSubsetOrdering(Nat)
           Fin == FiniteSubsetsOf(Nat)
<1>1. IsWellFoundedOn(R, Fin)
  BY FS_StrictSubsetOrderingWellFounded
<1>2. F \subseteq Fin /\ F # {}
  <2>1. ASSUME NEW n \in T
        PROVE  0..n \in Fin
    <3>1. IsFiniteSet(0..n)
      BY FS_Interval
    <3> QED
      BY <3>1 DEF FiniteSubsetsOf
  <2> HIDE DEF Fin
  <2> QED
    BY <2>1
<1> HIDE DEF R, Fin, F
<1>3. PICK I \in F : \A J \in F : ~ (<<J, I>> \in R)
  BY <1>1, <1>2, WFMin
<1>4. PICK x \in T : I = 0..x
  BY <1>3 DEF F
<1>5. ASSUME NEW y \in T, y < x
      PROVE  FALSE
  <2>1. 0..y \in F
    BY DEF F
  <2>2. 0..y \subseteq 0..x /\ 0..y # 0..x
    BY <1>5
  <2>3. <<0..y, I>> \in R
    BY <2>2, <1>4 DEF R, StrictSubsetOrdering
  <2> QED
    BY <1>3, <2>1, <2>3
<1> QED
  BY <1>5

\* Induction on the natural numbers, for a set that holds them all.
LEMMA NatSetInduction ==
  ASSUME NEW T \in SUBSET Nat, 0 \in T, \A n \in T : n + 1 \in T
  PROVE  T = Nat
<1> SUFFICES ASSUME Nat \ T # {} PROVE FALSE
  OBVIOUS
<1>1. PICK x \in Nat \ T : \A y \in Nat \ T : x <= y
  BY LeastNatural
<1>2. x # 0
  OBVIOUS
<1>3. x - 1 \in Nat /\ x - 1 < x
  BY <1>2
<1>4. x - 1 \in T
  BY <1>1, <1>3
<1> QED
  BY <1>4

\* The largest position of a set of positions.
LEMMA MaxPosition ==
  ASSUME NEW N \in Nat, NEW S \in SUBSET (1..N), S # {}
  PROVE  Max(S) \in S /\ \A n \in S : n <= Max(S)
<1> DEFINE T == {N - n : n \in S}
<1>0. \A n \in S : n \in Nat /\ N - n \in Nat
  OBVIOUS
<1>1. T \in SUBSET Nat /\ T # {}
  BY <1>0
<1>2. PICK x \in T : \A y \in T : x <= y
  BY <1>1, LeastNatural
<1>3. PICK m \in S : x = N - m
  BY <1>2
<1>4. \A n \in S : n <= m
  BY <1>0, <1>2, <1>3
<1> QED
  BY <1>4, <1>0 DEF Max

LEMMA MaxInterval ==
  ASSUME NEW n \in Nat \ {0}
  PROVE  Max(1..n) = n /\ (1..n) \ {n} = 1..(n - 1)
<1>1. 1..n \in SUBSET (1..n) /\ 1..n # {} /\ n \in 1..n
  OBVIOUS
<1>2. Max(1..n) \in 1..n /\ \A k \in 1..n : k <= Max(1..n)
  BY <1>1, MaxPosition
<1> QED
  BY <1>1, <1>2

(***************************************************************************)
(* The function by which FoldLeft is defined.                              *)
(***************************************************************************)
IsFold(it, op, b, N, s) ==
    \A S \in SUBSET (1..N) :
       it[S] = IF S = {} THEN b ELSE op[<<it[S \ {Max(S)}], s[Max(S)]>>]

LEMMA FoldExists ==
  ASSUME NEW A, NEW C, NEW op \in [A \X C -> A], NEW b \in A,
         NEW N \in Nat, NEW s, \A n \in 1..N : s[n] \in C
  PROVE  \E it \in [SUBSET (1..N) -> A] : IsFold(it, op, b, N, s)
<1> DEFINE Is(it, n) ==
             \A S \in SUBSET (1..n) :
                it[S] = IF S = {} THEN b ELSE op[<<it[S \ {Max(S)}], s[Max(S)]>>]
           T == {n \in Nat : n <= N => \E it \in [SUBSET (1..n) -> A] : Is(it, n)}
<1>1. N \in Nat /\ \A n \in 1..N : s[n] \in C
  OBVIOUS
<1>2. 0 \in T
  <2> DEFINE it == [S \in SUBSET (1..0) |-> b]
  <2>1. 1..0 = {}
    OBVIOUS
  <2>2. it \in [SUBSET (1..0) -> A] /\ Is(it, 0)
    BY <2>1
  <2> QED
    BY <2>2
<1>3. ASSUME NEW n \in T, n + 1 <= N
      PROVE  \E it \in [SUBSET (1..(n + 1)) -> A] : Is(it, n + 1)
  <2>0. n \in Nat /\ (n <= N => \E it \in [SUBSET (1..n) -> A] : Is(it, n))
    <3> HIDE DEF Is
    <3> QED
      OBVIOUS
  <2>2. n \in Nat /\ n + 1 \in Nat /\ n <= N /\ s[n + 1] \in C
    <3>1. n \in Nat
      BY <2>0
    <3>2. n + 1 \in 1..N
      BY <1>1, <1>3, <3>1
    <3> QED
      BY <1>1, <3>1, <3>2
  <2>1. PICK g \in [SUBSET (1..n) -> A] : Is(g, n)
    <3> HIDE DEF Is
    <3> QED
      BY <2>0, <2>2
  <2> HIDE DEF T
  <2> DEFINE it == [S \in SUBSET (1..(n + 1)) |->
                      IF n + 1 \in S THEN op[<<g[S \ {n + 1}], s[n + 1]>>] ELSE g[S]]
  <2>3. ASSUME NEW S \in SUBSET (1..(n + 1)), n + 1 \in S
        PROVE  /\ S \ {n + 1} \in SUBSET (1..n) /\ Max(S) = n + 1
               /\ it[S \ {n + 1}] = g[S \ {n + 1}]
    <3>1. S \ {n + 1} \in SUBSET (1..n) /\ S \ {n + 1} \in SUBSET (1..(n + 1))
      BY <2>2
    <3>2. Max(S) \in S /\ \A k \in S : k <= Max(S)
      BY <2>2, <2>3, MaxPosition
    <3>3. Max(S) \in 1..(n + 1) /\ n + 1 <= Max(S)
      BY <2>3, <3>2
    <3>4. Max(S) = n + 1
      BY <2>2, <3>3
    <3>5. n + 1 \notin S \ {n + 1}
      OBVIOUS
    <3> QED
      BY <3>1, <3>4, <3>5
  <2>4. ASSUME NEW S \in SUBSET (1..(n + 1)), n + 1 \notin S
        PROVE  S \in SUBSET (1..n)
    BY <2>2, <2>4
  <2>5. it \in [SUBSET (1..(n + 1)) -> A]
    <3> SUFFICES ASSUME NEW S \in SUBSET (1..(n + 1)) PROVE it[S] \in A
      OBVIOUS
    <3>1. CASE n + 1 \in S
      BY <2>1, <2>2, <2>3, <3>1
    <3>2. CASE n + 1 \notin S
      BY <2>1, <2>4, <3>2
    <3> QED
      BY <3>1, <3>2
  <2>6. ASSUME NEW S \in SUBSET (1..(n + 1))
        PROVE  it[S] = IF S = {} THEN b ELSE op[<<it[S \ {Max(S)}], s[Max(S)]>>]
    <3>1. CASE n + 1 \in S
      BY <2>3, <3>1
    <3>2. CASE n + 1 \notin S
      <4>1. S \in SUBSET (1..n) /\ it[S] = g[S]
        BY <2>4, <3>2
      <4>2. g[S] = IF S = {} THEN b ELSE op[<<g[S \ {Max(S)}], s[Max(S)]>>]
        BY <2>1, <4>1
      <4>3. S # {} => Max(S) \in S
        BY <2>2, <4>1, MaxPosition
      <4>4. S \ {Max(S)} \in SUBSET (1..(n + 1)) /\ n + 1 \notin S \ {Max(S)}
        BY <3>2
      <4>5. it[S \ {Max(S)}] = g[S \ {Max(S)}]
        BY <4>4
      <4> QED
        BY <4>1, <4>2, <4>5
    <3> QED
      BY <3>1, <3>2
  <2>7. Is(it, n + 1)
    BY <2>6
  <2> QED
    BY <2>5, <2>7
<1>4. T = Nat
  <2> HIDE DEF Is
  <2>1. T \in SUBSET Nat
    OBVIOUS
  <2>2. ASSUME NEW n \in T
        PROVE  n + 1 \in T
    <3>1. n \in Nat /\ n + 1 \in Nat
      BY <2>1
    <3>2. n + 1 <= N => \E it \in [SUBSET (1..(n + 1)) -> A] : Is(it, n + 1)
      BY <1>3
    <3> QED
      BY <3>1, <3>2
  <2> HIDE DEF T
  <2> QED
    BY <1>2, <2>1, <2>2, NatSetInduction
<1>5. \E it \in [SUBSET (1..N) -> A] : Is(it, N)
  <2> HIDE DEF Is
  <2>1. N \in T
    BY <1>1, <1>4
  <2>2. N <= N => \E it \in [SUBSET (1..N) -> A] : Is(it, N)
    BY <2>1
  <2>3. N <= N
    BY <1>1
  <2> QED
    BY <2>2, <2>3
<1> QED
  BY <1>5 DEF IsFold

(***************************************************************************)
(* Two such functions, of sequences that begin alike, are alike there.     *)
(***************************************************************************)
IsChain(g, A, op, b, m, s) ==
    /\ g[{}] = b
    /\ \A n \in 1..m : g[1..(n - 1)] \in A => g[1..n] = op[<<g[1..(n - 1)], s[n]>>]

Meet(g, h, m) == h[1..m] = g[1..m]

LEMMA FoldsAgree ==
  ASSUME NEW A, NEW C, NEW op \in [A \X C -> A], NEW b \in A,
         NEW m \in Nat, NEW s, \A n \in 1..m : s[n] \in C,
         NEW g, IsChain(g, A, op, b, m, s),
         NEW h, IsChain(h, A, op, b, m, s)
  PROVE  g[1..m] \in A /\ Meet(g, h, m)
<1> USE DEF IsChain, Meet
<1> DEFINE Same(n) == g[1..n] \in A /\ h[1..n] = g[1..n]
           T == {n \in Nat : n <= m => Same(n)}
<1>1. 0 \in T
  <2>1. 1..0 = {}
    OBVIOUS
  <2>2. Same(0)
    BY <2>1
  <2> QED
    BY <2>2
<1>2. ASSUME NEW n \in T
      PROVE  n + 1 \in T
  <2>1. n \in Nat /\ n + 1 \in Nat /\ (n <= m => Same(n))
    OBVIOUS
  <2>2. ASSUME n + 1 <= m
        PROVE  Same(n + 1)
    <3>1. n + 1 \in 1..m /\ n <= m /\ (n + 1) - 1 = n
      BY <2>1, <2>2
    <3>2. Same(n)
      BY <2>1, <3>1
    <3>3. g[1..(n + 1)] = op[<<g[1..n], s[n + 1]>>]
      BY <3>1, <3>2
    <3>4. h[1..(n + 1)] = op[<<h[1..n], s[n + 1]>>]
      BY <3>1, <3>2
    <3>5. s[n + 1] \in C
      BY <3>1
    <3> QED
      BY <3>2, <3>3, <3>4, <3>5
  <2> QED
    BY <2>1, <2>2
<1>3. T = Nat
  <2>1. T \in SUBSET Nat
    OBVIOUS
  <2> HIDE DEF T
  <2> QED
    BY <1>1, <1>2, <2>1, NatSetInduction
<1>4. m <= m => Same(m)
  BY <1>3
<1> QED
  BY <1>4

(***************************************************************************)
(* Prefixes of a sequence.                                                 *)
(***************************************************************************)
Prefix(s, n) == SubSeq(s, 1, n)

LEMMA PrefixFacts ==
  ASSUME NEW C, NEW s \in Seq(C)
  PROVE  /\ Prefix(s, 0) = <<>> /\ Prefix(s, Len(s)) = s
         /\ \A n \in 0..Len(s) :
               /\ Prefix(s, n) \in Seq(C) /\ Len(Prefix(s, n)) = n
               /\ \A i \in 1..n : Prefix(s, n)[i] = s[i]
<1> USE DEF Prefix
<1>1. ASSUME NEW n \in 0..Len(s)
      PROVE  /\ Prefix(s, n) \in Seq(C) /\ Len(Prefix(s, n)) = n
             /\ \A i \in 1..n : Prefix(s, n)[i] = s[i]
  <2>1. Len(s) \in Nat /\ n \in Nat /\ n <= Len(s) /\ \A i \in 1..n : s[i] \in C
    BY LenProperties, ElementOfSeq
  <2>2. Prefix(s, n) = [i \in 1..n |-> s[i]]
    BY <2>1 DEF SubSeq
  <2> QED
    BY <2>1, <2>2
<1>2. Prefix(s, 0) = <<>>
  BY <1>1, LenProperties, EmptySeq
<1>3. Prefix(s, Len(s)) = s
  BY <1>1, LenProperties, SeqEqual
<1> QED
  BY <1>1, <1>2, <1>3

LEMMA PrefixStep ==
  ASSUME NEW C, NEW s \in Seq(C), NEW n \in Nat, n < Len(s)
  PROVE  /\ s[n + 1] \in C
         /\ Prefix(s, n + 1) = Append(Prefix(s, n), s[n + 1])
<1>1. Len(s) \in Nat /\ n \in 0..Len(s) /\ n + 1 \in 0..Len(s) /\ n + 1 \in 1..Len(s)
  BY LenProperties
<1>2. s[n + 1] \in C
  BY <1>1, ElementOfSeq
<1> DEFINE a == Prefix(s, n + 1)
           p == Prefix(s, n)
           b == Append(p, s[n + 1])
<1>3. /\ a \in Seq(C) /\ Len(a) = n + 1 /\ \A i \in 1..(n + 1) : a[i] = s[i]
      /\ p \in Seq(C) /\ Len(p) = n /\ \A i \in 1..n : p[i] = s[i]
  BY <1>1, PrefixFacts
<1> HIDE DEF a, p
<1>4. b \in Seq(C) /\ Len(b) = n + 1 /\ b[n + 1] = s[n + 1] /\ \A i \in 1..n : b[i] = p[i]
  BY <1>2, <1>3, AppendProperties
<1> HIDE DEF b
<1>5. \A i \in 1..Len(a) : a[i] = b[i]
  BY <1>1, <1>3, <1>4
<1>6. a = b
  BY <1>3, <1>4, <1>5, SeqEqual
<1> QED
  BY <1>2, <1>6 DEF a, b, p

LEMMA PrefixOfAppend ==
  ASSUME NEW C, NEW s \in Seq(C), NEW e \in C, NEW n \in 0..Len(s)
  PROVE  Prefix(Append(s, e), n) = Prefix(s, n)
<1> DEFINE t == Append(s, e)
           a == Prefix(t, n)
           b == Prefix(s, n)
<1>1. Len(s) \in Nat /\ t \in Seq(C) /\ Len(t) = Len(s) + 1 /\ \A i \in 1..Len(s) : t[i] = s[i]
  BY LenProperties, AppendProperties
<1> HIDE DEF t
<1>2. /\ b \in Seq(C) /\ Len(b) = n /\ \A i \in 1..n : b[i] = s[i]
  BY PrefixFacts
<1>3. /\ a \in Seq(C) /\ Len(a) = n /\ \A i \in 1..n : a[i] = t[i]
  BY <1>1, PrefixFacts
<1> HIDE DEF a, b
<1>4. \A i \in 1..Len(a) : a[i] = b[i]
  BY <1>1, <1>2, <1>3
<1>5. a = b
  BY <1>2, <1>3, <1>4, SeqEqual
<1> QED
  BY <1>5 DEF a, b, t

\* A prefix of a prefix.
LEMMA PrefixOfPrefix ==
  ASSUME NEW C, NEW s \in Seq(C), NEW m \in 0..Len(s), NEW n \in 0..m
  PROVE  Prefix(Prefix(s, m), n) = Prefix(s, n)
<1> DEFINE t == Prefix(s, m)
           a == Prefix(t, n)
           b == Prefix(s, n)
<1>1. Len(s) \in Nat /\ t \in Seq(C) /\ Len(t) = m /\ \A i \in 1..m : t[i] = s[i]
  BY LenProperties, PrefixFacts
<1> HIDE DEF t
<1>2. n \in 0..Len(s) /\ n \in 0..Len(t)
  BY <1>1
<1>3. /\ b \in Seq(C) /\ Len(b) = n /\ \A i \in 1..n : b[i] = s[i]
  BY <1>2, PrefixFacts
<1>4. /\ a \in Seq(C) /\ Len(a) = n /\ \A i \in 1..n : a[i] = t[i]
  BY <1>1, <1>2, PrefixFacts
<1> HIDE DEF a, b
<1>5. \A i \in 1..Len(a) : a[i] = b[i]
  BY <1>1, <1>3, <1>4
<1>6. a = b
  BY <1>3, <1>4, <1>5, SeqEqual
<1> QED
  BY <1>6 DEF a, b, t

-----------------------------------------------------------------------------
(***************************************************************************)
(* Repetition of an operation.                                             *)
(***************************************************************************)
\* f[n] is what op makes of b in n steps.
IsIteration(f, op, b, N) ==
  \A n \in 0..N : f[n] = IF n = 0 THEN b ELSE op[f[n - 1]]

\* A function that repeats op exists.
LEMMA IterationExists ==
  ASSUME NEW A, NEW op \in [A -> A], NEW b \in A, NEW N \in Nat
  PROVE  \E f \in [0..N -> A] : IsIteration(f, op, b, N)
<1> DEFINE Is(f, n) == \A k \in 0..n : f[k] = IF k = 0 THEN b ELSE op[f[k - 1]]
           T == {n \in Nat : \E f \in [0..n -> A] : Is(f, n)}
<1>1. 0 \in T
  <2> DEFINE f == [k \in 0..0 |-> b]
  <2>1. f \in [0..0 -> A] /\ Is(f, 0)
    OBVIOUS
  <2> QED
    BY <2>1
<1>2. ASSUME NEW n \in T
      PROVE  n + 1 \in T
  <2>1. n \in Nat /\ n + 1 \in Nat
    OBVIOUS
  <2>2. PICK g \in [0..n -> A] : Is(g, n)
    OBVIOUS
  <2> DEFINE f == [k \in 0..(n + 1) |-> IF k = n + 1 THEN op[g[n]] ELSE g[k]]
  <2>3. f \in [0..(n + 1) -> A]
    <3> SUFFICES ASSUME NEW k \in 0..(n + 1) PROVE f[k] \in A
      OBVIOUS
    <3>1. g[n] \in A /\ op[g[n]] \in A
      BY <2>1, <2>2
    <3>2. k # n + 1 => k \in 0..n
      BY <2>1
    <3> QED
      BY <2>2, <3>1, <3>2
  <2>4. Is(f, n + 1)
    <3> SUFFICES ASSUME NEW k \in 0..(n + 1)
                 PROVE  f[k] = IF k = 0 THEN b ELSE op[f[k - 1]]
      OBVIOUS
    <3>1. CASE k = n + 1
      <4>1. k # 0 /\ k - 1 = n /\ n \in 0..(n + 1) /\ n # n + 1
        BY <2>1, <3>1
      <4> QED
        BY <3>1, <4>1
    <3>2. CASE k # n + 1
      <4>1. k \in 0..n /\ (k # 0 => k - 1 \in 0..(n + 1) /\ k - 1 # n + 1)
        BY <2>1, <3>2
      <4>2. f[k] = g[k] /\ (k # 0 => f[k - 1] = g[k - 1])
        BY <3>2, <4>1
      <4> QED
        BY <2>2, <4>1, <4>2
    <3> QED
      BY <3>1, <3>2
  <2> HIDE DEF f
  <2> QED
    BY <2>1, <2>3, <2>4
<1>3. T \in SUBSET Nat
  OBVIOUS
<1> HIDE DEF T
<1>4. T = Nat
  BY <1>1, <1>2, <1>3, NatSetInduction
<1>5. PICK f \in [0..N -> A] : Is(f, N)
  BY <1>4 DEF T
<1> QED
  BY <1>5 DEF IsIteration
=============================================================================
