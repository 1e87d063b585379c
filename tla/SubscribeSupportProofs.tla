------------------------ MODULE SubscribeSupportProofs ------------------------
(***************************************************************************)
(* Proofs about SubscribeSupport, for any answer of an app: a client that  *)
(* follows the responses gets each info once, in a mode that it supports.  *)
(***************************************************************************)
EXTENDS SubscribeSupport, FoldLemmas

(***************************************************************************)
(* Paths.                                                                  *)
(***************************************************************************)
IsPath(p) == p \in Seq(Range(p))

\* What is below a path is below all that is above that path.
LEMMA MatchesTransitive ==
  ASSUME NEW p, NEW q, NEW r, IsPath(p), IsPath(q), IsPath(r),
         Matches(p, q), Matches(q, r)
  PROVE  Matches(p, r)
<1>1. Len(p) \in Nat /\ Len(q) \in Nat /\ Len(r) \in Nat
  BY DEF IsPath
<1>2. p # <<>> /\ Len(r) <= Len(p)
  BY <1>1 DEF Matches
<1>3. ASSUME NEW n \in 1..Len(r)
      PROVE  /\ p[n][1] = r[n][1]
             /\ (p[n][2] = NoKey) = (r[n][2] = NoKey)
             /\ r[n][2] \in {Wildcard, p[n][2]}
  <2>1. n \in 1..Len(q)
    BY <1>1 DEF Matches
  <2> QED
    BY <2>1 DEF Matches
<1> QED
  BY <1>2, <1>3 DEF Matches

\* A path that is not empty is below itself.
LEMMA MatchesItself ==
  ASSUME NEW p, IsPath(p), p # <<>>
  PROVE  Matches(p, p)
<1>1. Len(p) \in Nat
  BY DEF IsPath
<1> QED
  BY <1>1 DEF Matches

(***************************************************************************)
(* Sequences.                                                              *)
(***************************************************************************)
Distinct(s) == \A m, n \in DOMAIN s : m # n => s[m] # s[n]

\* The elements of a sequence.
LEMMA RangeFacts ==
  ASSUME NEW C, NEW s \in Seq(C)
  PROVE  /\ Len(s) \in Nat /\ DOMAIN s = 1..Len(s)
         /\ Range(s) = {s[n] : n \in 1..Len(s)} /\ Range(s) \subseteq C
<1>1. Len(s) \in Nat /\ DOMAIN s = 1..Len(s)
  BY LenProperties
<1>2. \A n \in 1..Len(s) : s[n] \in C
  BY ElementOfSeq
<1>3. Range(s) = {s[n] : n \in 1..Len(s)}
  BY <1>1 DEF Range
<1>4. Range(s) \subseteq C
  BY <1>2, <1>3
<1> QED
  BY <1>1, <1>3, <1>4

\* An element at the end of a sequence.
LEMMA RangeOfAppend ==
  ASSUME NEW C, NEW s \in Seq(C), NEW e \in C
  PROVE  /\ Append(s, e) \in Seq(C) /\ Len(Append(s, e)) = Len(s) + 1
         /\ Range(Append(s, e)) = Range(s) \cup {e}
         /\ Append(s, e)[Len(s) + 1] = e
         /\ \A n \in 1..Len(s) : Append(s, e)[n] = s[n]
<1> DEFINE t == Append(s, e)
<1>1. /\ t \in Seq(C) /\ Len(t) = Len(s) + 1 /\ Len(s) \in Nat
      /\ t[Len(s) + 1] = e /\ \A n \in 1..Len(s) : t[n] = s[n]
  BY AppendProperties, LenProperties
<1> HIDE DEF t
<1>2. Range(t) = {t[n] : n \in 1..Len(t)} /\ Range(s) = {s[n] : n \in 1..Len(s)}
  BY <1>1, LenProperties DEF Range
<1>3. 1..Len(t) = (1..Len(s)) \cup {Len(s) + 1}
  BY <1>1
<1>4. Range(t) = Range(s) \cup {e}
  BY <1>1, <1>2, <1>3
<1> QED
  BY <1>1, <1>4 DEF t

\* A new element at the end of a sequence without repetitions.
LEMMA DistinctAppend ==
  ASSUME NEW C, NEW s \in Seq(C), NEW e \in C, Distinct(s), e \notin Range(s)
  PROVE  Distinct(Append(s, e))
<1> DEFINE t == Append(s, e)
<1>1. /\ t \in Seq(C) /\ Len(t) = Len(s) + 1 /\ Len(s) \in Nat
      /\ t[Len(s) + 1] = e /\ \A n \in 1..Len(s) : t[n] = s[n]
  BY AppendProperties, LenProperties
<1>2. DOMAIN t = 1..(Len(s) + 1) /\ DOMAIN s = 1..Len(s)
  BY <1>1, LenProperties
<1> HIDE DEF t
<1>3. \A n \in 1..Len(s) : s[n] \in Range(s)
  BY <1>2 DEF Range
<1>4. ASSUME NEW m \in 1..(Len(s) + 1), NEW n \in 1..(Len(s) + 1), m # n
      PROVE  t[m] # t[n]
  <2>1. CASE m \in 1..Len(s) /\ n \in 1..Len(s)
    BY <1>1, <1>2, <1>4, <2>1 DEF Distinct
  <2>2. CASE m = Len(s) + 1 /\ n \in 1..Len(s)
    BY <1>1, <1>3, <2>2
  <2>3. CASE n = Len(s) + 1 /\ m \in 1..Len(s)
    BY <1>1, <1>3, <2>3
  <2> QED
    BY <1>1, <1>4, <2>1, <2>2, <2>3
<1> QED
  BY <1>2, <1>4 DEF Distinct, t

-----------------------------------------------------------------------------
(***************************************************************************)
(* The sample parts, while infos are added to them.                        *)
(***************************************************************************)
IsInfos(X) == \A info \in X : IsPath(info.path) /\ info.path # <<>>
PartSet(X) ==
  [path : {info.path : info \in X} \cup {RequestPath}, targets : Seq(X), children : Seq(X)]

\* The parts have the infos Y: each below the path of its part and in no other
\* part, and no two parts have a path in common.
IsBelow(part) == \A info \in InfosOf(part) : Matches(info.path, part.path)
HasTop(part) == \E t \in Range(part.targets) : t.path = part.path
Apart(p, q) == InfosOf(p) \cap InfosOf(q) = {} /\ p.path # q.path
Grouped(parts, Y) ==
  /\ \A n \in 1..Len(parts) : IsBelow(parts[n]) /\ HasTop(parts[n])
  /\ \A m, n \in 1..Len(parts) : m # n => Apart(parts[m], parts[n])
  /\ UNION {InfosOf(parts[n]) : n \in 1..Len(parts)} = Y

\* Part n gets x.
Gets(p, q, x) ==
  /\ q.path = p.path /\ InfosOf(q) = InfosOf(p) \cup {x}
  /\ Range(p.targets) \subseteq Range(q.targets)
Grown(parts, n, x, new) ==
  /\ Len(new) = Len(parts)
  /\ \A m \in 1..Len(parts) : m # n => new[m] = parts[m]
  /\ Gets(parts[n], new[n], x)

\* There is a first one among some parts.
LEMMA FirstIsOne ==
  ASSUME NEW N \in Nat, NEW S \in SUBSET (1..N), S # {}
  PROVE  First(S) \in S
<1>1. S \in SUBSET Nat
  OBVIOUS
<1>2. \E n \in S : \A o \in S : n <= o
  BY <1>1, LeastNatural
<1> QED
  BY <1>2 DEF First

\* Both ways to add an info put it into the first part above it, or begin a
\* part for it.
LEMMA AddTargetCases ==
  ASSUME NEW X, NEW parts \in Seq(PartSet(X)), NEW x \in X
  PROVE  /\ AddTarget(parts, x) \in Seq(PartSet(X))
         /\ \/ \E n \in ParentsOf(parts, x.path) : Grown(parts, n, x, AddTarget(parts, x))
            \/ /\ ParentsOf(parts, x.path) = {}
               /\ AddTarget(parts, x) = Append(parts, Part(x.path, <<x>>, <<>>))
<1> DEFINE S == ParentsOf(parts, x.path)
           new == AddTarget(parts, x)
           begun == Part(x.path, <<x>>, <<>>)
<1>1. Len(parts) \in Nat /\ DOMAIN parts = 1..Len(parts) /\ S \in SUBSET (1..Len(parts))
  BY LenProperties DEF ParentsOf
<1>2. CASE S = {}
  <2>1. new = Append(parts, begun)
    BY <1>2 DEF AddTarget
  <2>2. <<x>> \in Seq(X) /\ <<>> \in Seq(X)
    OBVIOUS
  <2>3. begun \in PartSet(X)
    BY <2>2 DEF Part, PartSet
  <2>4. new \in Seq(PartSet(X))
    <3> HIDE DEF begun
    <3> QED
      BY <2>1, <2>3, AppendProperties
  <2> QED
    BY <1>2, <2>1, <2>4
<1>3. CASE S # {}
  <2> DEFINE n == First(S)
             p == parts[n]
             q == [p EXCEPT !.targets = Append(@, x)]
  <2>1. n \in S /\ n \in 1..Len(parts)
    <3> HIDE DEF S
    <3> QED
      BY <1>1, <1>3, FirstIsOne
  <2>2. new = [parts EXCEPT ![n] = q]
    BY <1>3 DEF AddTarget
  <2>3. p \in PartSet(X)
    <3> HIDE DEF n
    <3> QED
      BY <2>1, ElementOfSeq
  <2> HIDE DEF n, p, S
  <2>4. p.targets \in Seq(X) /\ p.children \in Seq(X)
    BY <2>3 DEF PartSet
  <2>5. Append(p.targets, x) \in Seq(X)
          /\ Range(Append(p.targets, x)) = Range(p.targets) \cup {x}
    BY <2>4, RangeOfAppend
  <2>6. /\ q \in PartSet(X) /\ q.path = p.path /\ q.children = p.children
        /\ q.targets = Append(p.targets, x)
    BY <2>3, <2>5 DEF PartSet
  <2> HIDE DEF q
  <2>7. Gets(p, q, x)
    BY <2>5, <2>6 DEF Gets, InfosOf
  <2> HIDE DEF new
  <2>8. new \in Seq(PartSet(X)) /\ Len(new) = Len(parts)
    BY <2>1, <2>2, <2>6, ExceptSeq
  <2>9. \A m \in 1..Len(parts) : new[m] = IF m = n THEN q ELSE parts[m]
    BY <1>1, <2>1, <2>2
  <2>10. Grown(parts, n, x, new)
    BY <2>1, <2>7, <2>8, <2>9 DEF Grown, p
  <2> QED
    BY <2>1, <2>8, <2>10 DEF new, S
<1> QED
  BY <1>2, <1>3

\* The same for a child.
LEMMA AddChildCases ==
  ASSUME NEW X, NEW parts \in Seq(PartSet(X)), NEW x \in X
  PROVE  /\ AddChild(parts, x) \in Seq(PartSet(X))
         /\ \/ \E n \in ParentsOf(parts, x.path) : Grown(parts, n, x, AddChild(parts, x))
            \/ /\ ParentsOf(parts, x.path) = {}
               /\ AddChild(parts, x) = Append(parts, Part(x.path, <<x>>, <<>>))
<1> DEFINE S == ParentsOf(parts, x.path)
           new == AddChild(parts, x)
           begun == Part(x.path, <<x>>, <<>>)
<1>1. Len(parts) \in Nat /\ DOMAIN parts = 1..Len(parts) /\ S \in SUBSET (1..Len(parts))
  BY LenProperties DEF ParentsOf
<1>2. CASE S = {}
  <2>1. new = Append(parts, begun)
    BY <1>2 DEF AddChild
  <2>2. <<x>> \in Seq(X) /\ <<>> \in Seq(X)
    OBVIOUS
  <2>3. begun \in PartSet(X)
    BY <2>2 DEF Part, PartSet
  <2>4. new \in Seq(PartSet(X))
    <3> HIDE DEF begun
    <3> QED
      BY <2>1, <2>3, AppendProperties
  <2> QED
    BY <1>2, <2>1, <2>4
<1>3. CASE S # {}
  <2> DEFINE n == First(S)
             p == parts[n]
             q == [p EXCEPT !.children = Append(@, x)]
  <2>1. n \in S /\ n \in 1..Len(parts)
    <3> HIDE DEF S
    <3> QED
      BY <1>1, <1>3, FirstIsOne
  <2>2. new = [parts EXCEPT ![n] = q]
    BY <1>3 DEF AddChild
  <2>3. p \in PartSet(X)
    <3> HIDE DEF n
    <3> QED
      BY <2>1, ElementOfSeq
  <2> HIDE DEF n, p, S
  <2>4. p.children \in Seq(X) /\ p.targets \in Seq(X)
    BY <2>3 DEF PartSet
  <2>5. Append(p.children, x) \in Seq(X)
          /\ Range(Append(p.children, x)) = Range(p.children) \cup {x}
    BY <2>4, RangeOfAppend
  <2>6. /\ q \in PartSet(X) /\ q.path = p.path /\ q.targets = p.targets
        /\ q.children = Append(p.children, x)
    BY <2>3, <2>5 DEF PartSet
  <2> HIDE DEF q
  <2>7. Gets(p, q, x)
    BY <2>5, <2>6 DEF Gets, InfosOf
  <2> HIDE DEF new
  <2>8. new \in Seq(PartSet(X)) /\ Len(new) = Len(parts)
    BY <2>1, <2>2, <2>6, ExceptSeq
  <2>9. \A m \in 1..Len(parts) : new[m] = IF m = n THEN q ELSE parts[m]
    BY <1>1, <2>1, <2>2
  <2>10. Grown(parts, n, x, new)
    BY <2>1, <2>7, <2>8, <2>9 DEF Grown, p
  <2> QED
    BY <2>1, <2>8, <2>10 DEF new, S
<1> QED
  BY <1>2, <1>3

\* A part that gets an info from below one of its targets.
LEMMA GrownKeeps ==
  ASSUME NEW X, IsInfos(X), NEW parts \in Seq(PartSet(X)), NEW Y \in SUBSET X,
         Grouped(parts, Y), NEW x \in X, x \notin Y,
         NEW n \in ParentsOf(parts, x.path), NEW new, Grown(parts, n, x, new)
  PROVE  Grouped(new, Y \cup {x})
<1> DEFINE N == Len(parts)
           p == parts[n]
           q == new[n]
<1>1. N \in Nat /\ Len(new) = N /\ n \in 1..N
  BY LenProperties DEF Grown, ParentsOf
<1>2. /\ q.path = p.path /\ InfosOf(q) = InfosOf(p) \cup {x}
      /\ Range(p.targets) \subseteq Range(q.targets)
      /\ \A m \in 1..N : m # n => new[m] = parts[m]
  BY DEF Grown, Gets
<1>3. IsBelow(p) /\ HasTop(p)
  BY <1>1 DEF Grouped
<1>4. \A m \in 1..N : InfosOf(parts[m]) \subseteq Y
  BY DEF Grouped
<1>5. IsBelow(q)
  <2>1. PICK t \in Range(p.targets) : Matches(x.path, t.path)
    BY DEF ParentsOf
  <2>2. t \in InfosOf(p) /\ InfosOf(p) \subseteq Y
    BY <1>1, <1>4 DEF InfosOf
  <2>3. Matches(t.path, p.path) /\ t \in X
    BY <1>3, <2>2 DEF IsBelow
  <2>4. PICK u \in Range(p.targets) : u.path = p.path
    BY <1>3 DEF HasTop
  <2>5. u \in X
    BY <2>2, <2>4 DEF InfosOf
  <2>6. Matches(x.path, p.path)
    BY <2>1, <2>3, <2>4, <2>5, MatchesTransitive DEF IsInfos
  <2> QED
    BY <1>2, <1>3, <2>6 DEF IsBelow
<1>6. HasTop(q)
  BY <1>2, <1>3 DEF HasTop
<1>7. ASSUME NEW m \in 1..N, m # n
      PROVE  Apart(new[m], q) /\ Apart(q, new[m])
  <2>1. Apart(parts[m], p) /\ new[m] = parts[m] /\ x \notin InfosOf(parts[m])
    BY <1>1, <1>2, <1>4, <1>7 DEF Grouped
  <2> QED
    BY <1>2, <2>1 DEF Apart
<1>8. ASSUME NEW m \in 1..N, NEW k \in 1..N, m # k, m # n, k # n
      PROVE  Apart(new[m], new[k])
  BY <1>2, <1>8 DEF Grouped
<1>9. \A m \in 1..N : IsBelow(new[m]) /\ HasTop(new[m])
  BY <1>2, <1>5, <1>6 DEF Grouped
<1>10. UNION {InfosOf(new[m]) : m \in 1..N} = Y \cup {x}
  <2> DEFINE U(z) == UNION {InfosOf(z[m]) : m \in 1..N}
  <2>1. U(parts) = Y
    BY DEF Grouped
  <2>2. \A m \in 1..N : InfosOf(new[m]) = InfosOf(parts[m]) \cup (IF m = n THEN {x} ELSE {})
    BY <1>2
  <2>3. U(new) \subseteq Y \cup {x}
    BY <2>1, <2>2
  <2>4. \A m \in 1..N : InfosOf(new[m]) \subseteq U(new)
    OBVIOUS
  <2>5. x \in U(new)
    BY <1>1, <1>2, <2>4
  <2>6. U(parts) \subseteq U(new)
    BY <2>2, <2>4
  <2> QED
    BY <2>1, <2>3, <2>5, <2>6
<1> QED
  BY <1>1, <1>7, <1>8, <1>9, <1>10 DEF Grouped

\* A new part.
LEMMA BegunKeeps ==
  ASSUME NEW X, IsInfos(X), NEW parts \in Seq(PartSet(X)), NEW Y \in SUBSET X,
         Grouped(parts, Y), NEW x \in X, x \notin Y, ParentsOf(parts, x.path) = {}
  PROVE  Grouped(Append(parts, Part(x.path, <<x>>, <<>>)), Y \cup {x})
<1> DEFINE N == Len(parts)
           q == Part(x.path, <<x>>, <<>>)
           new == Append(parts, q)
<1>1. q \in PartSet(X) /\ q.path = x.path /\ q.targets = <<x>> /\ InfosOf(q) = {x}
  <2>1. <<x>> \in Seq(X) /\ <<>> \in Seq(X) /\ Range(<<x>>) = {x} /\ Range(<<>>) = {}
    BY DEF Range
  <2> QED
    BY <2>1 DEF Part, PartSet, InfosOf
<1> HIDE DEF q
<1>2. /\ N \in Nat /\ Len(new) = N + 1 /\ new[N + 1] = q
      /\ \A m \in 1..N : new[m] = parts[m]
  BY <1>1, LenProperties, AppendProperties
<1> HIDE DEF new
<1>3. \A m \in 1..N : InfosOf(parts[m]) \subseteq Y
  BY DEF Grouped
<1>4. Matches(x.path, x.path)
  BY MatchesItself DEF IsInfos
<1>5. IsBelow(q) /\ HasTop(q)
  <2>1. x \in Range(q.targets)
    BY <1>1 DEF Range
  <2> QED
    BY <1>1, <1>4, <2>1 DEF IsBelow, HasTop
<1>6. ASSUME NEW m \in 1..N
      PROVE  Apart(parts[m], q) /\ Apart(q, parts[m])
  <2>1. x \notin InfosOf(parts[m])
    BY <1>3
  <2>2. PICK t \in Range(parts[m].targets) : t.path = parts[m].path
    BY DEF Grouped, HasTop
  <2>3. ~ Matches(x.path, t.path)
    BY <2>2 DEF ParentsOf
  <2>4. parts[m].path # x.path
    BY <1>4, <2>2, <2>3
  <2> QED
    BY <1>1, <2>1, <2>4 DEF Apart
<1>7. 1..(N + 1) = (1..N) \cup {N + 1} /\ N + 1 \notin 1..N
  BY <1>2
<1>8. \A m \in 1..(N + 1) : IsBelow(new[m]) /\ HasTop(new[m])
  BY <1>2, <1>5, <1>7 DEF Grouped
<1>9. ASSUME NEW m \in 1..(N + 1), NEW k \in 1..(N + 1), m # k
      PROVE  Apart(new[m], new[k])
  BY <1>2, <1>6, <1>7, <1>9 DEF Grouped
<1>10. UNION {InfosOf(new[m]) : m \in 1..(N + 1)} = Y \cup {x}
  <2>1. UNION {InfosOf(parts[m]) : m \in 1..N} = Y
    BY DEF Grouped
  <2>2. /\ \A m \in 1..N : InfosOf(new[m]) = InfosOf(parts[m])
        /\ InfosOf(new[N + 1]) = {x}
    BY <1>1, <1>2
  <2> QED
    BY <1>7, <2>1, <2>2
<1>11. Grouped(new, Y \cup {x})
  BY <1>2, <1>8, <1>9, <1>10 DEF Grouped
<1> QED
  BY <1>11 DEF new, q

\* An info that is new is added.
LEMMA AddingKeeps ==
  ASSUME NEW X, IsInfos(X), NEW parts \in Seq(PartSet(X)), NEW Y \in SUBSET X,
         Grouped(parts, Y), NEW x \in X, x \notin Y
  PROVE  /\ Grouped(AddTarget(parts, x), Y \cup {x})
         /\ Grouped(AddChild(parts, x), Y \cup {x})
<1>1. Grouped(AddTarget(parts, x), Y \cup {x})
  <2>1. CASE \E n \in ParentsOf(parts, x.path) : Grown(parts, n, x, AddTarget(parts, x))
    BY <2>1, GrownKeeps
  <2>2. CASE /\ ParentsOf(parts, x.path) = {}
             /\ AddTarget(parts, x) = Append(parts, Part(x.path, <<x>>, <<>>))
    <3>1. Grouped(Append(parts, Part(x.path, <<x>>, <<>>)), Y \cup {x})
      BY <2>2, BegunKeeps
    <3> QED
      BY <2>2, <3>1
  <2> QED
    BY <2>1, <2>2, AddTargetCases
<1>2. Grouped(AddChild(parts, x), Y \cup {x})
  <2>1. CASE \E n \in ParentsOf(parts, x.path) : Grown(parts, n, x, AddChild(parts, x))
    BY <2>1, GrownKeeps
  <2>2. CASE /\ ParentsOf(parts, x.path) = {}
             /\ AddChild(parts, x) = Append(parts, Part(x.path, <<x>>, <<>>))
    <3>1. Grouped(Append(parts, Part(x.path, <<x>>, <<>>)), Y \cup {x})
      BY <2>2, BegunKeeps
    <3> QED
      BY <2>2, <3>1
  <2> QED
    BY <2>1, <2>2, AddChildCases
<1> QED
  BY <1>1, <1>2

-----------------------------------------------------------------------------
(***************************************************************************)
(* The loops over infos and parts, step by step.                           *)
(***************************************************************************)
\* What is left of the first infos in either list.
SegregateStates(h, b, s) ==
  /\ h[0] = b /\ \A n \in 1..Len(s) : h[n] = Segregate(h[n - 1], s[n])
  /\ FoldLeft(Segregate, b, s) = h[Len(s)]

\* There are such states of the first loop.
LEMMA SegregateSteps ==
  ASSUME NEW A, NEW C, NEW b \in A, NEW s \in Seq(C),
         \A a \in A, c \in C : Segregate(a, c) \in A
  PROVE  \E h \in [0..Len(s) -> A] : SegregateStates(h, b, s)
<1> DEFINE op == [p \in A \X C |-> Segregate(p[1], p[2])]
           Is(it) == it = [S \in SUBSET DOMAIN s |->
                             IF S = {} THEN b ELSE Segregate(it[S \ {Max(S)}], s[Max(S)])]
           N == Len(s)
           g == CHOOSE it : Is(it)
           h == [n \in 0..N |-> g[1..n]]
<1>1. N \in Nat /\ DOMAIN s = 1..N /\ \A n \in 1..N : s[n] \in C
  BY LenProperties, ElementOfSeq
<1>2. op \in [A \X C -> A] /\ \A a \in A, c \in C : op[<<a, c>>] = Segregate(a, c)
  OBVIOUS
<1> HIDE DEF op
<1>3. PICK it \in [SUBSET (1..N) -> A] : IsFold(it, op, b, N, s)
  <2> HIDE DEF N
  <2> QED
    BY <1>1, <1>2, FoldExists
<1>4. Is(it)
  <2>1. ASSUME NEW S \in SUBSET DOMAIN s, S # {}
        PROVE  op[<<it[S \ {Max(S)}], s[Max(S)]>>] = Segregate(it[S \ {Max(S)}], s[Max(S)])
    <3>1. Max(S) \in DOMAIN s /\ S \ {Max(S)} \in SUBSET DOMAIN s
      BY <1>1, <2>1, MaxPosition
    <3>2. it[S \ {Max(S)}] \in A /\ s[Max(S)] \in C
      BY <1>1, <1>3, <3>1
    <3> QED
      BY <1>2, <3>2
  <2> QED
    BY <1>1, <1>3, <2>1 DEF IsFold
<1>5. Is(g)
  BY <1>4
<1>6. FoldLeft(Segregate, b, s) = g[1..N]
  BY <1>1 DEF FoldLeft, MapThenFoldSet
<1>7. g[{}] = b
  BY <1>5
<1>8. ASSUME NEW n \in 1..N
      PROVE  g[1..n] = Segregate(g[1..(n - 1)], s[n])
  <2>0. N \in Nat /\ n \in 1..N
    BY <1>1
  <2> HIDE DEF N
  <2>1. n \in Nat \ {0} /\ 1..n \in SUBSET (1..N) /\ 1..n # {}
    <3>1. n \in Nat \ {0} /\ n <= N
      BY <2>0
    <3>2. 1 \in 1..n /\ \A k \in 1..n : k \in 1..N
      BY <2>0, <3>1
    <3> QED
      BY <3>1, <3>2
  <2>2. Max(1..n) = n /\ (1..n) \ {n} = 1..(n - 1)
    BY <2>1, MaxInterval
  <2> QED
    BY <1>1, <1>5, <2>1, <2>2
<1> HIDE DEF g
<1>9. ASSUME NEW n \in 0..N
      PROVE  g[1..n] \in A
  <2>1. n \in Nat /\ \A k \in 1..n : s[k] \in C
    BY <1>1
  <2>2. \A k \in 1..n : g[1..(k - 1)] \in A => g[1..k] = op[<<g[1..(k - 1)], s[k]>>]
    BY <1>1, <1>2, <1>8
  <2>3. IsChain(g, A, op, b, n, s)
    BY <1>7, <2>2 DEF IsChain
  <2> QED
    BY <1>2, <2>1, <2>3, FoldsAgree
<1>10. h \in [0..N -> A] /\ h[0] = b /\ h[N] = g[1..N]
  <2>1. 1..0 = {} /\ 0 \in 0..N /\ N \in 0..N
    BY <1>1
  <2> QED
    BY <1>7, <1>9, <2>1
<1>11. \A n \in 1..N : h[n] = Segregate(h[n - 1], s[n])
  BY <1>1, <1>8
<1> QED
  BY <1>6, <1>10, <1>11 DEF SegregateStates

\* The parts after the first targets.
AddTargetStates(h, b, s) ==
  /\ h[0] = b /\ \A n \in 1..Len(s) : h[n] = AddTarget(h[n - 1], s[n])
  /\ FoldLeft(AddTarget, b, s) = h[Len(s)]

\* There are such states of the loop over the sample targets.
LEMMA AddTargetSteps ==
  ASSUME NEW A, NEW C, NEW b \in A, NEW s \in Seq(C),
         \A a \in A, c \in C : AddTarget(a, c) \in A
  PROVE  \E h \in [0..Len(s) -> A] : AddTargetStates(h, b, s)
<1> DEFINE op == [p \in A \X C |-> AddTarget(p[1], p[2])]
           Is(it) == it = [S \in SUBSET DOMAIN s |->
                             IF S = {} THEN b ELSE AddTarget(it[S \ {Max(S)}], s[Max(S)])]
           N == Len(s)
           g == CHOOSE it : Is(it)
           h == [n \in 0..N |-> g[1..n]]
<1>1. N \in Nat /\ DOMAIN s = 1..N /\ \A n \in 1..N : s[n] \in C
  BY LenProperties, ElementOfSeq
<1>2. op \in [A \X C -> A] /\ \A a \in A, c \in C : op[<<a, c>>] = AddTarget(a, c)
  OBVIOUS
<1> HIDE DEF op
<1>3. PICK it \in [SUBSET (1..N) -> A] : IsFold(it, op, b, N, s)
  <2> HIDE DEF N
  <2> QED
    BY <1>1, <1>2, FoldExists
<1>4. Is(it)
  <2>1. ASSUME NEW S \in SUBSET DOMAIN s, S # {}
        PROVE  op[<<it[S \ {Max(S)}], s[Max(S)]>>] = AddTarget(it[S \ {Max(S)}], s[Max(S)])
    <3>1. Max(S) \in DOMAIN s /\ S \ {Max(S)} \in SUBSET DOMAIN s
      BY <1>1, <2>1, MaxPosition
    <3>2. it[S \ {Max(S)}] \in A /\ s[Max(S)] \in C
      BY <1>1, <1>3, <3>1
    <3> QED
      BY <1>2, <3>2
  <2> QED
    BY <1>1, <1>3, <2>1 DEF IsFold
<1>5. Is(g)
  BY <1>4
<1>6. FoldLeft(AddTarget, b, s) = g[1..N]
  BY <1>1 DEF FoldLeft, MapThenFoldSet
<1>7. g[{}] = b
  BY <1>5
<1>8. ASSUME NEW n \in 1..N
      PROVE  g[1..n] = AddTarget(g[1..(n - 1)], s[n])
  <2>0. N \in Nat /\ n \in 1..N
    BY <1>1
  <2> HIDE DEF N
  <2>1. n \in Nat \ {0} /\ 1..n \in SUBSET (1..N) /\ 1..n # {}
    <3>1. n \in Nat \ {0} /\ n <= N
      BY <2>0
    <3>2. 1 \in 1..n /\ \A k \in 1..n : k \in 1..N
      BY <2>0, <3>1
    <3> QED
      BY <3>1, <3>2
  <2>2. Max(1..n) = n /\ (1..n) \ {n} = 1..(n - 1)
    BY <2>1, MaxInterval
  <2> QED
    BY <1>1, <1>5, <2>1, <2>2
<1> HIDE DEF g
<1>9. ASSUME NEW n \in 0..N
      PROVE  g[1..n] \in A
  <2>1. n \in Nat /\ \A k \in 1..n : s[k] \in C
    BY <1>1
  <2>2. \A k \in 1..n : g[1..(k - 1)] \in A => g[1..k] = op[<<g[1..(k - 1)], s[k]>>]
    BY <1>1, <1>2, <1>8
  <2>3. IsChain(g, A, op, b, n, s)
    BY <1>7, <2>2 DEF IsChain
  <2> QED
    BY <1>2, <2>1, <2>3, FoldsAgree
<1>10. h \in [0..N -> A] /\ h[0] = b /\ h[N] = g[1..N]
  <2>1. 1..0 = {} /\ 0 \in 0..N /\ N \in 0..N
    BY <1>1
  <2> QED
    BY <1>7, <1>9, <2>1
<1>11. \A n \in 1..N : h[n] = AddTarget(h[n - 1], s[n])
  BY <1>1, <1>8
<1> QED
  BY <1>6, <1>10, <1>11 DEF AddTargetStates

\* The parts after the first children.
AddChildStates(h, b, s) ==
  /\ h[0] = b /\ \A n \in 1..Len(s) : h[n] = AddChild(h[n - 1], s[n])
  /\ FoldLeft(AddChild, b, s) = h[Len(s)]

\* There are such states of the loop over the children.
LEMMA AddChildSteps ==
  ASSUME NEW A, NEW C, NEW b \in A, NEW s \in Seq(C),
         \A a \in A, c \in C : AddChild(a, c) \in A
  PROVE  \E h \in [0..Len(s) -> A] : AddChildStates(h, b, s)
<1> DEFINE op == [p \in A \X C |-> AddChild(p[1], p[2])]
           Is(it) == it = [S \in SUBSET DOMAIN s |->
                             IF S = {} THEN b ELSE AddChild(it[S \ {Max(S)}], s[Max(S)])]
           N == Len(s)
           g == CHOOSE it : Is(it)
           h == [n \in 0..N |-> g[1..n]]
<1>1. N \in Nat /\ DOMAIN s = 1..N /\ \A n \in 1..N : s[n] \in C
  BY LenProperties, ElementOfSeq
<1>2. op \in [A \X C -> A] /\ \A a \in A, c \in C : op[<<a, c>>] = AddChild(a, c)
  OBVIOUS
<1> HIDE DEF op
<1>3. PICK it \in [SUBSET (1..N) -> A] : IsFold(it, op, b, N, s)
  <2> HIDE DEF N
  <2> QED
    BY <1>1, <1>2, FoldExists
<1>4. Is(it)
  <2>1. ASSUME NEW S \in SUBSET DOMAIN s, S # {}
        PROVE  op[<<it[S \ {Max(S)}], s[Max(S)]>>] = AddChild(it[S \ {Max(S)}], s[Max(S)])
    <3>1. Max(S) \in DOMAIN s /\ S \ {Max(S)} \in SUBSET DOMAIN s
      BY <1>1, <2>1, MaxPosition
    <3>2. it[S \ {Max(S)}] \in A /\ s[Max(S)] \in C
      BY <1>1, <1>3, <3>1
    <3> QED
      BY <1>2, <3>2
  <2> QED
    BY <1>1, <1>3, <2>1 DEF IsFold
<1>5. Is(g)
  BY <1>4
<1>6. FoldLeft(AddChild, b, s) = g[1..N]
  BY <1>1 DEF FoldLeft, MapThenFoldSet
<1>7. g[{}] = b
  BY <1>5
<1>8. ASSUME NEW n \in 1..N
      PROVE  g[1..n] = AddChild(g[1..(n - 1)], s[n])
  <2>0. N \in Nat /\ n \in 1..N
    BY <1>1
  <2> HIDE DEF N
  <2>1. n \in Nat \ {0} /\ 1..n \in SUBSET (1..N) /\ 1..n # {}
    <3>1. n \in Nat \ {0} /\ n <= N
      BY <2>0
    <3>2. 1 \in 1..n /\ \A k \in 1..n : k \in 1..N
      BY <2>0, <3>1
    <3> QED
      BY <3>1, <3>2
  <2>2. Max(1..n) = n /\ (1..n) \ {n} = 1..(n - 1)
    BY <2>1, MaxInterval
  <2> QED
    BY <1>1, <1>5, <2>1, <2>2
<1> HIDE DEF g
<1>9. ASSUME NEW n \in 0..N
      PROVE  g[1..n] \in A
  <2>1. n \in Nat /\ \A k \in 1..n : s[k] \in C
    BY <1>1
  <2>2. \A k \in 1..n : g[1..(k - 1)] \in A => g[1..k] = op[<<g[1..(k - 1)], s[k]>>]
    BY <1>1, <1>2, <1>8
  <2>3. IsChain(g, A, op, b, n, s)
    BY <1>7, <2>2 DEF IsChain
  <2> QED
    BY <1>2, <2>1, <2>3, FoldsAgree
<1>10. h \in [0..N -> A] /\ h[0] = b /\ h[N] = g[1..N]
  <2>1. 1..0 = {} /\ 0 \in 0..N /\ N \in 0..N
    BY <1>1
  <2> QED
    BY <1>7, <1>9, <2>1
<1>11. \A n \in 1..N : h[n] = AddChild(h[n - 1], s[n])
  BY <1>1, <1>8
<1> QED
  BY <1>6, <1>10, <1>11 DEF AddChildStates

\* The session after the first parts.
PutStates(h, b, s) ==
  /\ h[0] = b /\ \A n \in 1..Len(s) : h[n] = Put(h[n - 1], s[n])
  /\ FoldLeft(Put, b, s) = h[Len(s)]

\* There are such states of the session.
LEMMA PutSteps ==
  ASSUME NEW A, NEW C, NEW b \in A, NEW s \in Seq(C),
         \A a \in A, c \in C : Put(a, c) \in A
  PROVE  \E h \in [0..Len(s) -> A] : PutStates(h, b, s)
<1> DEFINE op == [p \in A \X C |-> Put(p[1], p[2])]
           Is(it) == it = [S \in SUBSET DOMAIN s |->
                             IF S = {} THEN b ELSE Put(it[S \ {Max(S)}], s[Max(S)])]
           N == Len(s)
           g == CHOOSE it : Is(it)
           h == [n \in 0..N |-> g[1..n]]
<1>1. N \in Nat /\ DOMAIN s = 1..N /\ \A n \in 1..N : s[n] \in C
  BY LenProperties, ElementOfSeq
<1>2. op \in [A \X C -> A] /\ \A a \in A, c \in C : op[<<a, c>>] = Put(a, c)
  OBVIOUS
<1> HIDE DEF op
<1>3. PICK it \in [SUBSET (1..N) -> A] : IsFold(it, op, b, N, s)
  <2> HIDE DEF N
  <2> QED
    BY <1>1, <1>2, FoldExists
<1>4. Is(it)
  <2>1. ASSUME NEW S \in SUBSET DOMAIN s, S # {}
        PROVE  op[<<it[S \ {Max(S)}], s[Max(S)]>>] = Put(it[S \ {Max(S)}], s[Max(S)])
    <3>1. Max(S) \in DOMAIN s /\ S \ {Max(S)} \in SUBSET DOMAIN s
      BY <1>1, <2>1, MaxPosition
    <3>2. it[S \ {Max(S)}] \in A /\ s[Max(S)] \in C
      BY <1>1, <1>3, <3>1
    <3> QED
      BY <1>2, <3>2
  <2> QED
    BY <1>1, <1>3, <2>1 DEF IsFold
<1>5. Is(g)
  BY <1>4
<1>6. FoldLeft(Put, b, s) = g[1..N]
  BY <1>1 DEF FoldLeft, MapThenFoldSet
<1>7. g[{}] = b
  BY <1>5
<1>8. ASSUME NEW n \in 1..N
      PROVE  g[1..n] = Put(g[1..(n - 1)], s[n])
  <2>0. N \in Nat /\ n \in 1..N
    BY <1>1
  <2> HIDE DEF N
  <2>1. n \in Nat \ {0} /\ 1..n \in SUBSET (1..N) /\ 1..n # {}
    <3>1. n \in Nat \ {0} /\ n <= N
      BY <2>0
    <3>2. 1 \in 1..n /\ \A k \in 1..n : k \in 1..N
      BY <2>0, <3>1
    <3> QED
      BY <3>1, <3>2
  <2>2. Max(1..n) = n /\ (1..n) \ {n} = 1..(n - 1)
    BY <2>1, MaxInterval
  <2> QED
    BY <1>1, <1>5, <2>1, <2>2
<1> HIDE DEF g
<1>9. ASSUME NEW n \in 0..N
      PROVE  g[1..n] \in A
  <2>1. n \in Nat /\ \A k \in 1..n : s[k] \in C
    BY <1>1
  <2>2. \A k \in 1..n : g[1..(k - 1)] \in A => g[1..k] = op[<<g[1..(k - 1)], s[k]>>]
    BY <1>1, <1>2, <1>8
  <2>3. IsChain(g, A, op, b, n, s)
    BY <1>7, <2>2 DEF IsChain
  <2> QED
    BY <1>2, <2>1, <2>3, FoldsAgree
<1>10. h \in [0..N -> A] /\ h[0] = b /\ h[N] = g[1..N]
  <2>1. 1..0 = {} /\ 0 \in 0..N /\ N \in 0..N
    BY <1>1
  <2> QED
    BY <1>7, <1>9, <2>1
<1>11. \A n \in 1..N : h[n] = Put(h[n - 1], s[n])
  BY <1>1, <1>8
<1> QED
  BY <1>6, <1>10, <1>11 DEF PutStates

-----------------------------------------------------------------------------
(***************************************************************************)
(* What the loops make of an answer.                                       *)
(***************************************************************************)

\* Induction on the steps of a loop, for a set that holds them all.
LEMMA StepInduction ==
  ASSUME NEW N \in Nat, NEW T \in SUBSET (0..N), 0 \in T,
         \A n \in T : n < N => n + 1 \in T
  PROVE  N \in T
<1> DEFINE U == {n \in Nat : n <= N => n \in T}
<1>1. U \in SUBSET Nat /\ 0 \in U
  OBVIOUS
<1>2. \A n \in U : n + 1 \in U
  OBVIOUS
<1> HIDE DEF U
<1>3. U = Nat
  BY <1>1, <1>2, NatSetInduction
<1> QED
  BY <1>3 DEF U

\* The elements of a sequence up to n.
Before(s, n) == {s[k] : k \in 1..n}

\* Step by step, they are all elements.
LEMMA BeforeFacts ==
  ASSUME NEW C, NEW s \in Seq(C)
  PROVE  /\ Before(s, 0) = {} /\ Before(s, Len(s)) = Range(s)
         /\ \A n \in 1..Len(s) : Before(s, n) = Before(s, n - 1) \cup {s[n]}
<1>1. Len(s) \in Nat /\ Range(s) = {s[n] : n \in 1..Len(s)}
  BY RangeFacts
<1>2. ASSUME NEW n \in 1..Len(s)
      PROVE  Before(s, n) = Before(s, n - 1) \cup {s[n]}
  <2>1. 1..n = (1..(n - 1)) \cup {n}
    BY <1>1
  <2> QED
    BY <2>1 DEF Before
<1>3. Before(s, 0) = {}
  BY DEF Before
<1> QED
  BY <1>1, <1>2, <1>3 DEF Before

\* What comes later in a sequence without repetitions is new.
LEMMA BeforeDistinct ==
  ASSUME NEW C, NEW s \in Seq(C), Distinct(s), NEW n \in 1..Len(s)
  PROVE  s[n] \in C /\ s[n] \notin Before(s, n - 1)
<1>1. Len(s) \in Nat /\ DOMAIN s = 1..Len(s) /\ s[n] \in C
  BY LenProperties, ElementOfSeq
<1>2. ASSUME NEW k \in 1..(n - 1)
      PROVE  s[k] # s[n]
  <2>1. k \in 1..Len(s) /\ k # n
    BY <1>1
  <2> QED
    BY <1>1, <2>1 DEF Distinct
<1> QED
  BY <1>1, <1>2 DEF Before

\* segregateSampleSubpaths sorts the infos into two lists.
Sorted(lists, Y) ==
  /\ Range(lists.onChange) = {i \in Y : ~PrefersSample(i)}
  /\ Range(lists.sample) = {i \in Y : PrefersSample(i)}
  /\ Distinct(lists.sample)

\* A new info keeps the lists sorted.
LEMMA SegregateKeeps ==
  ASSUME NEW X, NEW lists \in [onChange : Seq(X), sample : Seq(X)], NEW Y,
         Sorted(lists, Y), NEW x \in X, x \notin Y
  PROVE  Sorted(Segregate(lists, x), Y \cup {x})
<1> DEFINE new == Segregate(lists, x)
<1>1. lists.onChange \in Seq(X) /\ lists.sample \in Seq(X)
  OBVIOUS
<1>2. CASE PrefersSample(x)
  <2>1. new = [lists EXCEPT !.sample = Append(@, x)]
    BY <1>2 DEF Segregate
  <2>2. /\ Append(lists.sample, x) \in Seq(X)
        /\ Range(Append(lists.sample, x)) = Range(lists.sample) \cup {x}
        /\ Distinct(Append(lists.sample, x))
    BY <1>1, RangeOfAppend, DistinctAppend DEF Sorted
  <2>3. /\ new \in [onChange : Seq(X), sample : Seq(X)]
        /\ new.onChange = lists.onChange /\ new.sample = Append(lists.sample, x)
    BY <2>1, <2>2
  <2> HIDE DEF new
  <2> QED
    BY <1>2, <2>2, <2>3 DEF Sorted, new
<1>3. CASE ~PrefersSample(x)
  <2>1. new = [lists EXCEPT !.onChange = Append(@, x)]
    BY <1>3 DEF Segregate
  <2>2. /\ Append(lists.onChange, x) \in Seq(X)
        /\ Range(Append(lists.onChange, x)) = Range(lists.onChange) \cup {x}
    BY <1>1, RangeOfAppend
  <2>3. /\ new \in [onChange : Seq(X), sample : Seq(X)]
        /\ new.sample = lists.sample /\ new.onChange = Append(lists.onChange, x)
    BY <2>1, <2>2
  <2> HIDE DEF new
  <2> QED
    BY <1>3, <2>2, <2>3 DEF Sorted, new
<1> QED
  BY <1>2, <1>3

\* The lists stay lists of infos.
LEMMA SegregateType ==
  ASSUME NEW X, NEW lists \in [onChange : Seq(X), sample : Seq(X)], NEW x \in X
  PROVE  Segregate(lists, x) \in [onChange : Seq(X), sample : Seq(X)]
<1>1. lists.onChange \in Seq(X) /\ lists.sample \in Seq(X)
  OBVIOUS
<1>2. Append(lists.onChange, x) \in Seq(X) /\ Append(lists.sample, x) \in Seq(X)
  BY <1>1, AppendProperties
<1> QED
  BY <1>2 DEF Segregate

\* An answer is sorted into the two lists.
LEMMA SegregatedFacts ==
  ASSUME NEW X, NEW infos \in Seq(X), Distinct(infos)
  PROVE  /\ Segregated(infos) \in [onChange : Seq(X), sample : Seq(X)]
         /\ Sorted(Segregated(infos), Range(infos))
<1> DEFINE A == [onChange : Seq(X), sample : Seq(X)]
           b == [onChange |-> <<>>, sample |-> <<>>]
           N == Len(infos)
<1>1. b \in A /\ Sorted(b, {})
  BY DEF Sorted, Distinct, Range
<1>2. N \in Nat
  BY LenProperties
<1>3. PICK h \in [0..N -> A] : SegregateStates(h, b, infos)
  <2>1. \A a \in A, x \in X : Segregate(a, x) \in A
    BY SegregateType
  <2> HIDE DEF A, b
  <2> QED
    BY <1>1, <2>1, SegregateSteps
<1> HIDE DEF A, b
<1> DEFINE T == {n \in 0..N : Sorted(h[n], Before(infos, n))}
<1>4. 0 \in T
  BY <1>1, <1>2, <1>3, BeforeFacts DEF SegregateStates
<1>5. ASSUME NEW n \in T, n < N
      PROVE  n + 1 \in T
  <2>1. n + 1 \in 1..N /\ n + 1 \in 0..N /\ (n + 1) - 1 = n /\ n \in 0..N
    BY <1>2, <1>5
  <2>2. /\ infos[n + 1] \in X /\ infos[n + 1] \notin Before(infos, n)
        /\ Before(infos, n + 1) = Before(infos, n) \cup {infos[n + 1]}
    BY <2>1, BeforeFacts, BeforeDistinct
  <2>3. h[n + 1] = Segregate(h[n], infos[n + 1]) /\ h[n] \in A
    BY <1>3, <2>1 DEF SegregateStates
  <2>4. Sorted(h[n + 1], Before(infos, n) \cup {infos[n + 1]})
    BY <2>2, <2>3, SegregateKeeps DEF A
  <2> QED
    BY <2>1, <2>2, <2>4
<1>6. N \in T
  <2>1. T \in SUBSET (0..N)
    OBVIOUS
  <2> HIDE DEF T
  <2> QED
    BY <1>2, <1>4, <1>5, <2>1, StepInduction
<1>7. Segregated(infos) = h[N] /\ h[N] \in A
  BY <1>2, <1>3 DEF SegregateStates, Segregated, b
<1> QED
  BY <1>6, <1>7, BeforeFacts DEF A

\* The loops add the infos of a list, one after the other.
LEMMA AddTargetType ==
  ASSUME NEW X, NEW parts \in Seq(PartSet(X)), NEW x \in X
  PROVE  AddTarget(parts, x) \in Seq(PartSet(X))
BY AddTargetCases

\* All sample targets are put into parts.
LEMMA TargetPartsFacts ==
  ASSUME NEW X, IsInfos(X), NEW parts \in Seq(PartSet(X)), NEW Y \in SUBSET X,
         Grouped(parts, Y), NEW s \in Seq(X), Distinct(s), Range(s) \cap Y = {}
  PROVE  /\ FoldLeft(AddTarget, parts, s) \in Seq(PartSet(X))
         /\ Grouped(FoldLeft(AddTarget, parts, s), Y \cup Range(s))
<1> DEFINE A == Seq(PartSet(X))
           N == Len(s)
<1>1. N \in Nat /\ DOMAIN s = 1..N /\ Range(s) = {s[n] : n \in 1..N}
  BY RangeFacts
<1>2. PICK h \in [0..N -> A] : AddTargetStates(h, parts, s)
  <2>1. \A a \in A, x \in X : AddTarget(a, x) \in A
    BY AddTargetType
  <2>2. parts \in A
    OBVIOUS
  <2> HIDE DEF A
  <2> QED
    BY <2>1, <2>2, AddTargetSteps
<1> HIDE DEF A
<1> DEFINE T == {n \in 0..N : Grouped(h[n], Y \cup Before(s, n))}
<1>3. 0 \in T
  <2>1. h[0] = parts /\ Y \cup Before(s, 0) = Y /\ 0 \in 0..N
    BY <1>1, <1>2, BeforeFacts DEF AddTargetStates
  <2> QED
    BY <2>1
<1>4. ASSUME NEW n \in T, n < N
      PROVE  n + 1 \in T
  <2>1. n + 1 \in 1..N /\ n + 1 \in 0..N /\ (n + 1) - 1 = n /\ n \in 0..N
    BY <1>1, <1>4
  <2>2. /\ s[n + 1] \in X /\ s[n + 1] \notin Before(s, n) /\ s[n + 1] \notin Y
        /\ Before(s, n + 1) = Before(s, n) \cup {s[n + 1]}
    BY <1>1, <2>1, BeforeFacts, BeforeDistinct
  <2>3. Before(s, n) \subseteq X
    <3>1. \A k \in 1..n : k \in 1..N
      BY <1>1, <2>1
    <3> QED
      BY <3>1, ElementOfSeq DEF Before
  <2>4. h[n + 1] = AddTarget(h[n], s[n + 1]) /\ h[n] \in Seq(PartSet(X))
    BY <1>2, <2>1 DEF AddTargetStates, A
  <2>5. Grouped(h[n], Y \cup Before(s, n)) /\ Y \cup Before(s, n) \in SUBSET X
    BY <2>3
  <2> DEFINE Z == Y \cup Before(s, n)
  <2>6. Grouped(h[n + 1], Z \cup {s[n + 1]})
    <3>1. s[n + 1] \notin Z /\ Z \in SUBSET X /\ Grouped(h[n], Z)
      BY <2>2, <2>5
    <3> DEFINE x == s[n + 1]
               a == h[n]
    <3>2. x \in X /\ x \notin Z /\ a \in Seq(PartSet(X)) /\ h[n + 1] = AddTarget(a, x)
      BY <2>2, <2>4, <3>1
    <3> HIDE DEF Z, x, a
    <3>3. Grouped(AddTarget(a, x), Z \cup {x})
      BY <3>1, <3>2, AddingKeeps DEF a
    <3> QED
      BY <3>2, <3>3 DEF x
  <2>7. Y \cup Before(s, n + 1) = (Y \cup Before(s, n)) \cup {s[n + 1]}
    BY <2>2
  <2> QED
    BY <2>1, <2>6, <2>7
<1>5. N \in T
  <2>1. T \in SUBSET (0..N)
    OBVIOUS
  <2> HIDE DEF T
  <2> QED
    BY <1>1, <1>3, <1>4, <2>1, StepInduction
<1>6. FoldLeft(AddTarget, parts, s) = h[N] /\ h[N] \in A
  BY <1>1, <1>2 DEF AddTargetStates
<1> QED
  BY <1>5, <1>6, BeforeFacts DEF A

\* The same type for children.
LEMMA AddChildType ==
  ASSUME NEW X, NEW parts \in Seq(PartSet(X)), NEW x \in X
  PROVE  AddChild(parts, x) \in Seq(PartSet(X))
BY AddChildCases

\* And then all sample children.
LEMMA ChildPartsFacts ==
  ASSUME NEW X, IsInfos(X), NEW parts \in Seq(PartSet(X)), NEW Y \in SUBSET X,
         Grouped(parts, Y), NEW s \in Seq(X), Distinct(s), Range(s) \cap Y = {}
  PROVE  /\ FoldLeft(AddChild, parts, s) \in Seq(PartSet(X))
         /\ Grouped(FoldLeft(AddChild, parts, s), Y \cup Range(s))
<1> DEFINE A == Seq(PartSet(X))
           N == Len(s)
<1>1. N \in Nat /\ DOMAIN s = 1..N /\ Range(s) = {s[n] : n \in 1..N}
  BY RangeFacts
<1>2. PICK h \in [0..N -> A] : AddChildStates(h, parts, s)
  <2>1. \A a \in A, x \in X : AddChild(a, x) \in A
    BY AddChildType
  <2>2. parts \in A
    OBVIOUS
  <2> HIDE DEF A
  <2> QED
    BY <2>1, <2>2, AddChildSteps
<1> HIDE DEF A
<1> DEFINE T == {n \in 0..N : Grouped(h[n], Y \cup Before(s, n))}
<1>3. 0 \in T
  <2>1. h[0] = parts /\ Y \cup Before(s, 0) = Y /\ 0 \in 0..N
    BY <1>1, <1>2, BeforeFacts DEF AddChildStates
  <2> QED
    BY <2>1
<1>4. ASSUME NEW n \in T, n < N
      PROVE  n + 1 \in T
  <2>1. n + 1 \in 1..N /\ n + 1 \in 0..N /\ (n + 1) - 1 = n /\ n \in 0..N
    BY <1>1, <1>4
  <2>2. /\ s[n + 1] \in X /\ s[n + 1] \notin Before(s, n) /\ s[n + 1] \notin Y
        /\ Before(s, n + 1) = Before(s, n) \cup {s[n + 1]}
    BY <1>1, <2>1, BeforeFacts, BeforeDistinct
  <2>3. Before(s, n) \subseteq X
    <3>1. \A k \in 1..n : k \in 1..N
      BY <1>1, <2>1
    <3> QED
      BY <3>1, ElementOfSeq DEF Before
  <2>4. h[n + 1] = AddChild(h[n], s[n + 1]) /\ h[n] \in Seq(PartSet(X))
    BY <1>2, <2>1 DEF AddChildStates, A
  <2>5. Grouped(h[n], Y \cup Before(s, n)) /\ Y \cup Before(s, n) \in SUBSET X
    BY <2>3
  <2> DEFINE Z == Y \cup Before(s, n)
  <2>6. Grouped(h[n + 1], Z \cup {s[n + 1]})
    <3>1. s[n + 1] \notin Z /\ Z \in SUBSET X /\ Grouped(h[n], Z)
      BY <2>2, <2>5
    <3> DEFINE x == s[n + 1]
               a == h[n]
    <3>2. x \in X /\ x \notin Z /\ a \in Seq(PartSet(X)) /\ h[n + 1] = AddChild(a, x)
      BY <2>2, <2>4, <3>1
    <3> HIDE DEF Z, x, a
    <3>3. Grouped(AddChild(a, x), Z \cup {x})
      BY <3>1, <3>2, AddingKeeps DEF a
    <3> QED
      BY <3>2, <3>3 DEF x
  <2>7. Y \cup Before(s, n + 1) = (Y \cup Before(s, n)) \cup {s[n + 1]}
    BY <2>2
  <2> QED
    BY <2>1, <2>6, <2>7
<1>5. N \in T
  <2>1. T \in SUBSET (0..N)
    OBVIOUS
  <2> HIDE DEF T
  <2> QED
    BY <1>1, <1>3, <1>4, <2>1, StepInduction
<1>6. FoldLeft(AddChild, parts, s) = h[N] /\ h[N] \in A
  BY <1>1, <1>2 DEF AddChildStates
<1> QED
  BY <1>5, <1>6, BeforeFacts DEF A

\* segregateSampleSubpaths takes the samples out of a part and groups them.
Separate(p) ==
  /\ Distinct(p.targets) /\ Distinct(p.children)
  /\ Range(p.targets) \cap Range(p.children) = {}

\* The sample parts have the sample infos, and the part keeps the others.
LEMMA SegregationFacts ==
  ASSUME NEW X, IsInfos(X), NEW p \in PartSet(X), Separate(p), Splits(p)
  PROVE  /\ SampleParts(p) \in Seq(PartSet(X))
         /\ Grouped(SampleParts(p), {i \in InfosOf(p) : PrefersSample(i)})
         /\ OnChangePart(p) \in PartSet(X) /\ OnChangePart(p).path = p.path
         /\ InfosOf(OnChangePart(p)) = {i \in InfosOf(p) : ~PrefersSample(i)}
<1> DEFINE lists(s) == Segregated(s)
           S == SamplesOf(p.targets)
           C == SamplesOf(p.children)
           first == FoldLeft(AddTarget, <<>>, S)
<1>1. p.targets \in Seq(X) /\ p.children \in Seq(X)
  BY DEF PartSet
<1>2. ASSUME NEW s \in Seq(X), Distinct(s)
      PROVE  /\ OnChangeOf(s) \in Seq(X) /\ SamplesOf(s) \in Seq(X)
             /\ Range(OnChangeOf(s)) = {i \in Range(s) : ~PrefersSample(i)}
             /\ Range(SamplesOf(s)) = {i \in Range(s) : PrefersSample(i)}
             /\ Distinct(SamplesOf(s))
  BY <1>2, SegregatedFacts DEF OnChangeOf, SamplesOf, Sorted
<1>3. /\ S \in Seq(X) /\ C \in Seq(X) /\ Distinct(S) /\ Distinct(C)
      /\ Range(S) = {i \in Range(p.targets) : PrefersSample(i)}
      /\ Range(C) = {i \in Range(p.children) : PrefersSample(i)}
  BY <1>1, <1>2 DEF Separate
<1> HIDE DEF S, C
<1>4. <<>> \in Seq(PartSet(X)) /\ Grouped(<<>>, {})
  BY DEF Grouped
<1>5. first \in Seq(PartSet(X)) /\ Grouped(first, Range(S))
  <2>1. /\ first \in Seq(PartSet(X)) /\ Grouped(first, {} \cup Range(S))
    BY <1>3, <1>4, TargetPartsFacts
  <2>2. {} \cup Range(S) = Range(S)
    OBVIOUS
  <2> QED
    BY <2>1, <2>2
<1>6. SampleParts(p) = FoldLeft(AddChild, first, C)
  BY DEF SampleParts, S, C
<1> HIDE DEF first
<1>7. Range(S) \in SUBSET X /\ Range(C) \cap Range(S) = {}
  BY <1>3, RangeFacts DEF Separate
<1>8. /\ SampleParts(p) \in Seq(PartSet(X))
      /\ Grouped(SampleParts(p), Range(S) \cup Range(C))
  <2> DEFINE Y == Range(S)
  <2>1. /\ Y \in SUBSET X /\ Range(C) \cap Y = {} /\ Grouped(first, Y)
        /\ first \in Seq(PartSet(X)) /\ C \in Seq(X) /\ Distinct(C)
    BY <1>3, <1>5, <1>7
  <2> HIDE DEF Y
  <2>2. /\ FoldLeft(AddChild, first, C) \in Seq(PartSet(X))
        /\ Grouped(FoldLeft(AddChild, first, C), Y \cup Range(C))
    BY <2>1, ChildPartsFacts
  <2> QED
    BY <1>6, <2>2 DEF Y
<1>9. Range(S) \cup Range(C) = {i \in InfosOf(p) : PrefersSample(i)}
  BY <1>3 DEF InfosOf
<1> DEFINE q == OnChangePart(p)
<1>10. /\ q.path = p.path /\ q.targets = OnChangeOf(p.targets)
       /\ q.children = OnChangeOf(p.children) /\ q \in PartSet(X)
  <2>1. q = Part(p.path, OnChangeOf(p.targets), OnChangeOf(p.children))
    BY DEF OnChangePart
  <2>2. OnChangeOf(p.targets) \in Seq(X) /\ OnChangeOf(p.children) \in Seq(X)
    BY <1>1, <1>2 DEF Separate
  <2> QED
    BY <2>1, <2>2 DEF Part, PartSet
<1> HIDE DEF q
<1>11. InfosOf(q) = {i \in InfosOf(p) : ~PrefersSample(i)}
  BY <1>1, <1>2, <1>10 DEF InfosOf, Separate
<1> QED
  BY <1>8, <1>9, <1>10, <1>11 DEF q

-----------------------------------------------------------------------------
(***************************************************************************)
(* The session has the last part of each path.                             *)
(***************************************************************************)
Holds(data, p) == {d[2] : d \in {e \in data : e[1] = p}}
LastOf(s, n, p) ==
  {k \in 1..n : s[k].path = p /\ \A j \in 1..n : s[j].path = p => j <= k}
PartsAt(s, K) == {s[k] : k \in K}

\* put replaces the part of a path, and touches no other path.
LEMMA PutHolds ==
  ASSUME NEW data, NEW part, NEW p
  PROVE  Holds(Put(data, part), p) = IF p = part.path THEN {part} ELSE Holds(data, p)
<1>1. CASE p = part.path
  <2>1. {e \in Put(data, part) : e[1] = p} = {<<p, part>>}
    BY <1>1 DEF Put
  <2>2. {d[2] : d \in {<<p, part>>}} = {part}
    <3>1. <<p, part>>[2] = part
      OBVIOUS
    <3> QED
      BY <3>1
  <2> QED
    BY <1>1, <2>1, <2>2 DEF Holds
<1>2. CASE p # part.path
  <2>1. {e \in Put(data, part) : e[1] = p} = {e \in data : e[1] = p}
    BY <1>2 DEF Put
  <2> QED
    BY <1>2, <2>1 DEF Holds
<1> QED
  BY <1>1, <1>2

\* The last part of a path, one part later.
LEMMA LastOfStep ==
  ASSUME NEW s, NEW n \in Nat, NEW p
  PROVE  LastOf(s, n + 1, p) = IF p = s[n + 1].path THEN {n + 1} ELSE LastOf(s, n, p)
<1>1. 1..(n + 1) = (1..n) \cup {n + 1} /\ \A k \in 1..n : k < n + 1
  OBVIOUS
<1>2. CASE p = s[n + 1].path
  <2>1. n + 1 \in LastOf(s, n + 1, p)
    BY <1>1, <1>2 DEF LastOf
  <2>2. ASSUME NEW k \in LastOf(s, n + 1, p)
        PROVE  k = n + 1
    <3>1. k \in 1..(n + 1) /\ n + 1 <= k
      BY <1>1, <1>2 DEF LastOf
    <3> QED
      BY <3>1
  <2> QED
    BY <1>2, <2>1, <2>2
<1>3. CASE p # s[n + 1].path
  BY <1>1, <1>3 DEF LastOf
<1> QED
  BY <1>2, <1>3

\* After all parts were put, a path has the last part with that path.
LEMMA SessionFacts ==
  ASSUME NEW C, NEW s \in Seq(C), NEW p
  PROVE  Holds(FoldLeft(Put, {}, s), p) = PartsAt(s, LastOf(s, Len(s), p))
<1> DEFINE A == SUBSET {<<q.path, q>> : q \in C}
           N == Len(s)
<1>1. N \in Nat
  BY LenProperties
<1>2. PICK h \in [0..N -> A] : PutStates(h, {}, s)
  <2>1. \A a \in A, q \in C : Put(a, q) \in A
    BY DEF Put
  <2>2. {} \in A
    OBVIOUS
  <2> HIDE DEF A
  <2> QED
    BY <2>1, <2>2, PutSteps
<1> HIDE DEF A
<1> DEFINE T == {n \in 0..N : Holds(h[n], p) = PartsAt(s, LastOf(s, n, p))}
<1>3. 0 \in T
  <2>1. h[0] = {} /\ 0 \in 0..N
    BY <1>1, <1>2 DEF PutStates
  <2> QED
    BY <2>1 DEF Holds, LastOf, PartsAt
<1>4. ASSUME NEW n \in T, n < N
      PROVE  n + 1 \in T
  <2>1. n + 1 \in 1..N /\ n + 1 \in 0..N /\ (n + 1) - 1 = n /\ n \in Nat
    BY <1>1, <1>4
  <2>2. h[n + 1] = Put(h[n], s[n + 1])
    BY <1>2, <2>1 DEF PutStates
  <2>3. Holds(h[n + 1], p) = IF p = s[n + 1].path THEN {s[n + 1]} ELSE Holds(h[n], p)
    BY <2>2, PutHolds
  <2>4. LastOf(s, n + 1, p) = IF p = s[n + 1].path THEN {n + 1} ELSE LastOf(s, n, p)
    BY <2>1, LastOfStep
  <2>5. Holds(h[n + 1], p) = PartsAt(s, LastOf(s, n + 1, p))
    BY <2>3, <2>4 DEF PartsAt
  <2> QED
    BY <2>1, <2>5
<1>5. N \in T
  <2>1. T \in SUBSET (0..N)
    OBVIOUS
  <2> HIDE DEF T
  <2> QED
    BY <1>1, <1>3, <1>4, <2>1, StepInduction
<1>6. FoldLeft(Put, {}, s) = h[N]
  BY <1>1, <1>2 DEF PutStates
<1> QED
  BY <1>5, <1>6

-----------------------------------------------------------------------------
(***************************************************************************)
(* What IsSubscribeSupported makes of a request.                           *)
(***************************************************************************)
RequestOK == request \in NotificationType \X TargetInfos \X ChildInfos
Whole == Part(RequestPath, Translated(request[2]), Translated(request[3]))
Samples == IF request[1] = "TargetDefined" THEN SampleParts(Whole) ELSE <<>>
Rest == IF request[1] = "TargetDefined" THEN OnChangePart(Whole) ELSE Whole
Plan == Append(Samples, Rest)
Wanted == WantsOnChange(Response(Rest))

\* Validation leaves an info as the app made it, or makes it a sample.
LEMMA ForceSampleFacts ==
  ASSUME NEW info, IsAppInfo(info)
  PROVE  /\ ForceSample(info).id = info.id /\ IsAppInfo(ForceSample(info))
         /\ ~(ForceSample(info).nonDB /\ ForceSample(info).onChange)
<1> DEFINE forced == [info EXCEPT !.onChange = FALSE, !.pType = "Sample"]
<1>1. /\ info \in [id : {info.id}, path : {info.path}, onChange : BOOLEAN,
                   pType : NotificationType, nonDB : BOOLEAN, interval : Nat]
      /\ info.path \in Seq(Range(info.path)) /\ Matches(info.path, RequestPath)
  BY DEF IsAppInfo
<1>2. /\ forced \in [id : {info.id}, path : {info.path}, onChange : BOOLEAN,
                     pType : NotificationType, nonDB : BOOLEAN, interval : Nat]
      /\ forced.id = info.id /\ forced.path = info.path /\ forced.onChange = FALSE
  BY <1>1 DEF NotificationType
<1> HIDE DEF forced
<1>3. CASE info.nonDB /\ info.onChange
  <2>1. ForceSample(info) = forced
    BY <1>3 DEF ForceSample, forced
  <2> QED
    BY <1>1, <1>2, <2>1 DEF IsAppInfo
<1>4. CASE ~(info.nonDB /\ info.onChange)
  <2>1. ForceSample(info) = info
    BY <1>4 DEF ForceSample
  <2> QED
    BY <1>4, <2>1
<1> QED
  BY <1>3, <1>4

\* The infos stay different from each other.
LEMMA TranslatedFacts ==
  ASSUME NEW infos, IsAnswer(infos)
  PROVE  /\ Translated(infos) \in Seq(Range(Translated(infos)))
         /\ Range(Translated(infos)) = {ForceSample(info) : info \in Range(infos)}
         /\ Distinct(Translated(infos))
<1> DEFINE t == Translated(infos)
<1>1. /\ Len(infos) \in Nat /\ DOMAIN infos = 1..Len(infos)
      /\ Range(infos) = {infos[n] : n \in 1..Len(infos)}
  BY RangeFacts DEF IsAnswer
<1>2. t = [n \in 1..Len(infos) |-> ForceSample(infos[n])]
  BY DEF Translated
<1> HIDE DEF t
<1>3. t \in Seq(Range(t)) /\ DOMAIN t = 1..Len(infos)
  BY <1>1, <1>2 DEF Range
<1>4. Range(t) = {ForceSample(info) : info \in Range(infos)}
  BY <1>1, <1>2 DEF Range
<1>5. ASSUME NEW m \in 1..Len(infos), NEW n \in 1..Len(infos), m # n
      PROVE  t[m] # t[n]
  <2>1. infos[m].id # infos[n].id /\ IsAppInfo(infos[m]) /\ IsAppInfo(infos[n])
    BY <1>1, <1>5 DEF IsAnswer
  <2>2. t[m].id = infos[m].id /\ t[n].id = infos[n].id
    BY <1>2, <2>1, ForceSampleFacts
  <2> QED
    BY <2>1, <2>2
<1> QED
  BY <1>3, <1>4, <1>5 DEF Distinct, t

\* The infos of a request.
Answers(X) == \A i \in X : IsAppInfo(i) /\ ~(i.nonDB /\ i.onChange)

\* They are below the path of the request.
LEMMA AnswersFacts ==
  ASSUME NEW X, Answers(X)
  PROVE  /\ IsInfos(X)
         /\ \A i \in X : Matches(i.path, RequestPath) /\ i.onChange \in BOOLEAN
BY DEF Answers, IsAppInfo, IsInfos, IsPath, Matches

\* The translation of a request has its infos, each once.
LEMMA RequestFacts ==
  ASSUME RequestOK
  PROVE  /\ Answers(AllInfos) /\ Whole \in PartSet(AllInfos) /\ Separate(Whole)
         /\ Whole.path = RequestPath /\ InfosOf(Whole) = AllInfos
<1> DEFINE ts == Translated(request[2])
           cs == Translated(request[3])
<1>1. /\ request[2] \in TargetInfos /\ request[3] \in ChildInfos
  BY DEF RequestOK
<1>2. /\ IsAnswer(request[2]) /\ IsAnswer(request[3])
      /\ \A t \in Range(request[2]), c \in Range(request[3]) : t.id # c.id
  BY <1>1, InfosAssumption
<1>3. /\ ts \in Seq(Range(ts)) /\ cs \in Seq(Range(cs)) /\ Distinct(ts) /\ Distinct(cs)
      /\ Range(ts) = {ForceSample(info) : info \in Range(request[2])}
      /\ Range(cs) = {ForceSample(info) : info \in Range(request[3])}
  BY <1>2, TranslatedFacts
<1>4. AllInfos = Range(ts) \cup Range(cs)
  BY DEF AllInfos
<1>5. Whole.path = RequestPath /\ Whole.targets = ts /\ Whole.children = cs
  BY DEF Whole, Part
<1>6. Whole = [path |-> RequestPath, targets |-> ts, children |-> cs]
  BY DEF Whole, Part
<1> HIDE DEF ts, cs
<1>7. ASSUME NEW t \in Range(ts), NEW c \in Range(cs)
      PROVE  t # c
  <2>1. PICK i \in Range(request[2]) : t = ForceSample(i)
    BY <1>3
  <2>2. PICK j \in Range(request[3]) : c = ForceSample(j)
    BY <1>3
  <2>3. IsAppInfo(i) /\ IsAppInfo(j) /\ i.id # j.id
    BY <1>2 DEF IsAnswer
  <2>4. t.id = i.id /\ c.id = j.id
    BY <2>1, <2>2, <2>3, ForceSampleFacts
  <2> QED
    BY <2>3, <2>4
<1>8. Answers(AllInfos)
  <2>1. ASSUME NEW info, IsAppInfo(info)
        PROVE  /\ IsAppInfo(ForceSample(info))
               /\ ~(ForceSample(info).nonDB /\ ForceSample(info).onChange)
    BY <2>1, ForceSampleFacts
  <2>2. /\ \A i \in Range(request[2]) : IsAppInfo(i)
        /\ \A i \in Range(request[3]) : IsAppInfo(i)
    BY <1>2 DEF IsAnswer
  <2> QED
    BY <1>3, <1>4, <2>1, <2>2 DEF Answers
<1>9. ts \in Seq(AllInfos) /\ cs \in Seq(AllInfos)
  BY <1>3, <1>4
<1>10. Whole \in PartSet(AllInfos)
  BY <1>6, <1>9 DEF PartSet
<1> QED
  BY <1>3, <1>4, <1>5, <1>7, <1>8, <1>10 DEF Separate, InfosOf

\* The sample parts and the rest share the infos of the request.  A sample part
\* has the path of a sample info; next to sample parts the rest has none.
IsSampleOf(part, i) == PrefersSample(i) /\ i.path = part.path
PlanTypes ==
  /\ Samples \in Seq(PartSet(AllInfos)) /\ Len(Samples) \in Nat
  /\ Rest \in PartSet(AllInfos) /\ Rest.path = RequestPath
SamplesOK ==
  /\ \A n \in 1..Len(Samples) : IsBelow(Samples[n])
  /\ \A m, n \in 1..Len(Samples) : m # n => Apart(Samples[m], Samples[n])
  /\ \A n \in 1..Len(Samples) : \E i \in InfosOf(Samples[n]) : IsSampleOf(Samples[n], i)
RestOK ==
  /\ IsBelow(Rest)
  /\ \A n \in 1..Len(Samples) : InfosOf(Samples[n]) \cap InfosOf(Rest) = {}
  /\ Samples # <<>> =>
       request[1] = "TargetDefined" /\ \A i \in InfosOf(Rest) : ~PrefersSample(i)
InfosToSample == UNION {InfosOf(Samples[n]) : n \in 1..Len(Samples)}
IsShared == InfosToSample \cup InfosOf(Rest) = AllInfos

\* The parts of any request are such parts.
LEMMA PlanFacts ==
  ASSUME RequestOK
  PROVE  PlanTypes /\ SamplesOK /\ RestOK /\ IsShared
<1> DEFINE X == AllInfos
<1>1. /\ Answers(X) /\ Whole \in PartSet(X) /\ Separate(Whole)
      /\ Whole.path = RequestPath /\ InfosOf(Whole) = X
  BY RequestFacts
<1>2. IsInfos(X) /\ \A i \in X : Matches(i.path, RequestPath)
  BY <1>1, AnswersFacts
<1> HIDE DEF X
<1>3. CASE request[1] = "TargetDefined" /\ Splits(Whole)
  <2>1. Samples = SampleParts(Whole) /\ Rest = OnChangePart(Whole)
    BY <1>3 DEF Samples, Rest
  <2>2. /\ Samples \in Seq(PartSet(X))
        /\ Grouped(Samples, {i \in X : PrefersSample(i)})
        /\ Rest \in PartSet(X) /\ Rest.path = RequestPath
        /\ InfosOf(Rest) = {i \in X : ~PrefersSample(i)}
    BY <1>1, <1>2, <1>3, <2>1, SegregationFacts
  <2>3. UNION {InfosOf(Samples[n]) : n \in 1..Len(Samples)} = {i \in X : PrefersSample(i)}
    BY <2>2 DEF Grouped
  <2>4. \A n \in 1..Len(Samples) : InfosOf(Samples[n]) \subseteq {i \in X : PrefersSample(i)}
    BY <2>3
  <2>5. ASSUME NEW n \in 1..Len(Samples)
        PROVE  \E i \in InfosOf(Samples[n]) : IsSampleOf(Samples[n], i)
    <3>1. PICK t \in Range(Samples[n].targets) : t.path = Samples[n].path
      BY <2>2 DEF Grouped, HasTop
    <3>2. t \in InfosOf(Samples[n])
      BY DEF InfosOf
    <3> QED
      BY <2>4, <3>1, <3>2 DEF IsSampleOf
  <2>6. SamplesOK
    BY <2>2, <2>5 DEF SamplesOK, Grouped
  <2>7. RestOK
    BY <1>2, <1>3, <2>2, <2>4 DEF RestOK, IsBelow
  <2>8. IsShared
    <3>1. InfosToSample = {i \in X : PrefersSample(i)}
      BY <2>3 DEF InfosToSample
    <3>2. InfosToSample \cup InfosOf(Rest) = X
      BY <2>2, <3>1
    <3> QED
      BY <3>2 DEF IsShared, X
  <2>9. PlanTypes
    BY <2>2, LenProperties DEF PlanTypes, X
  <2> QED
    BY <2>6, <2>7, <2>8, <2>9
<1>4. CASE ~(request[1] = "TargetDefined" /\ Splits(Whole))
  <2>1. Samples = <<>> /\ Rest = Whole
    BY <1>4 DEF Samples, Rest, SampleParts, OnChangePart
  <2>2. Len(Samples) = 0 /\ 1..0 = {} /\ Samples \in Seq(PartSet(X))
    BY <2>1
  <2>3. PlanTypes
    BY <1>1, <2>1, <2>2 DEF PlanTypes, X
  <2>4. SamplesOK /\ RestOK
    BY <1>1, <1>2, <2>1, <2>2 DEF SamplesOK, RestOK, IsBelow
  <2>5. IsShared
    <3>1. InfosToSample = {}
      BY <2>2 DEF InfosToSample
    <3>2. InfosToSample \cup InfosOf(Rest) = X
      BY <1>1, <2>1, <3>1
    <3> QED
      BY <3>2 DEF IsShared, X
  <2> QED
    BY <2>3, <2>4, <2>5
<1> QED
  BY <1>3, <1>4

\* The client subscribes to the rest next to sample parts, and to no sample
\* part; and what it subscribes to has on-change support.
WantsRestOnly ==
  /\ \A n \in 1..Len(Samples) : ~WantsOnChange(Response(Samples[n]))
  /\ Samples # <<>> => Wanted

\* A response promises on-change support of all infos of its part.
LEMMA WantedIsSupported ==
  ASSUME NEW part, WantsOnChange(Response(part)), NEW i \in InfosOf(part)
  PROVE  i.onChange /\ ~i.nonDB
BY DEF WantsOnChange, Response

\* So it is for any request.
LEMMA WantsFacts ==
  ASSUME RequestOK
  PROVE  WantsRestOnly
<1>1. PlanTypes /\ SamplesOK /\ RestOK /\ IsShared /\ Answers(AllInfos)
  BY PlanFacts, RequestFacts
<1>2. ASSUME NEW n \in 1..Len(Samples)
      PROVE  ~WantsOnChange(Response(Samples[n]))
  <2>1. PICK i \in InfosOf(Samples[n]) : PrefersSample(i)
    BY <1>1 DEF SamplesOK, IsSampleOf
  <2>2. request[1] = "TargetDefined"
    BY <1>1 DEF RestOK, PlanTypes
  <2>3. CASE ~i.onChange
    BY <2>3, WantedIsSupported
  <2>4. CASE i.pType = "Sample"
    <3>1. Response(Samples[n]).preferred = "Sample"
      BY <2>4 DEF Response
    <3> QED
      BY <2>2, <3>1 DEF WantsOnChange
  <2> QED
    BY <2>1, <2>3, <2>4 DEF PrefersSample
<1>3. ASSUME Samples # <<>>
      PROVE  Wanted
  <2>1. request[1] = "TargetDefined" /\ \A i \in InfosOf(Rest) : ~PrefersSample(i)
    BY <1>1, <1>3 DEF RestOK
  <2>2. InfosOf(Rest) \subseteq AllInfos
    BY <1>1 DEF IsShared
  <2>3. \A i \in InfosOf(Rest) : i.onChange /\ i.pType # "Sample" /\ ~i.nonDB
    BY <1>1, <2>1, <2>2 DEF PrefersSample, Answers
  <2>4. Response(Rest).onChange /\ Response(Rest).preferred = "OnChange"
    BY <2>3 DEF Response
  <2> QED
    BY <2>1, <2>4 DEF Wanted, WantsOnChange
<1> QED
  BY <1>2, <1>3 DEF WantsRestOnly

\* The n-th response is about PartAt(n); for its path the session has SentAt(n).
Total == Len(Samples) + 1
PartAt(n) == IF n = Total THEN Rest ELSE Samples[n]
SentAt(n) == IF PartAt(n).path = RequestPath THEN Rest ELSE Samples[n]

\* The parts are put into the session in this order.
LEMMA PlanPositions ==
  ASSUME RequestOK
  PROVE  /\ Total \in Nat /\ Plan \in Seq(PartSet(AllInfos)) /\ Len(Plan) = Total
         /\ \A n \in 1..Total : Plan[n] = PartAt(n) /\ PartAt(n) \in PartSet(AllInfos)
<1>1. PlanTypes
  BY PlanFacts
<1>2. /\ Plan \in Seq(PartSet(AllInfos)) /\ Len(Plan) = Len(Samples) + 1
      /\ Plan[Len(Samples) + 1] = Rest
      /\ \A n \in 1..Len(Samples) : Plan[n] = Samples[n]
  BY <1>1, AppendProperties DEF Plan, PlanTypes
<1> HIDE DEF Plan
<1>3. ASSUME NEW n \in 1..Total
      PROVE  Plan[n] = PartAt(n) /\ PartAt(n) \in PartSet(AllInfos)
  <2>1. CASE n = Total
    BY <1>1, <1>2, <2>1 DEF PartAt, Total, PlanTypes
  <2>2. CASE n # Total
    <3>1. n \in 1..Len(Samples)
      BY <1>1, <2>2 DEF Total, PlanTypes
    <3>2. Samples[n] \in PartSet(AllInfos)
      BY <1>1, <3>1, ElementOfSeq DEF PlanTypes
    <3> QED
      BY <1>2, <2>2, <3>1, <3>2 DEF PartAt
  <2> QED
    BY <2>1, <2>2
<1> QED
  BY <1>1, <1>2, <1>3 DEF Total, PlanTypes

\* What Subscribe and Stream find for the path of a response.
LEMMA FoundFacts ==
  ASSUME RequestOK, session = FoldLeft(Put, {}, Plan), NEW n \in 1..Total
  PROVE  Found(PartAt(n).path) = {SentAt(n)}
<1> DEFINE p == PartAt(n).path
           K == LastOf(Plan, Total, p)
<1>1. PlanTypes /\ SamplesOK
  BY PlanFacts
<1>2. /\ Total \in Nat /\ Plan \in Seq(PartSet(AllInfos)) /\ Len(Plan) = Total
      /\ \A m \in 1..Total : Plan[m] = PartAt(m)
  BY PlanPositions
<1>3. Found(p) = PartsAt(Plan, K)
  <2>1. Found(p) = Holds(FoldLeft(Put, {}, Plan), p)
    BY DEF Found, Holds
  <2> HIDE DEF p
  <2> QED
    BY <1>2, <2>1, SessionFacts
<1>4. CASE p = RequestPath
  <2>1. Total \in 1..Total /\ PartAt(Total) = Rest /\ Rest.path = RequestPath
    BY <1>1, <1>2 DEF PartAt, PlanTypes, Total
  <2>2. K = {Total}
    BY <1>2, <1>4, <2>1 DEF LastOf
  <2>3. PartsAt(Plan, {Total}) = {Rest}
    BY <1>2, <2>1 DEF PartsAt
  <2> QED
    BY <1>3, <1>4, <2>2, <2>3 DEF SentAt
<1>5. CASE p # RequestPath
  <2>1. n # Total /\ PartAt(n) = Samples[n]
    BY <1>1, <1>5 DEF PartAt, PlanTypes
  <2>2. n \in 1..Len(Samples)
    BY <1>1, <1>2, <2>1 DEF PlanTypes, Total
  <2>3. ASSUME NEW m \in 1..Total, PartAt(m).path = p
        PROVE  m = n
    <3>1. m # Total /\ PartAt(m) = Samples[m]
      BY <1>1, <1>5, <2>3 DEF PartAt, PlanTypes
    <3>2. m \in 1..Len(Samples)
      BY <1>1, <1>2, <3>1 DEF PlanTypes, Total
    <3> QED
      BY <1>1, <2>1, <2>2, <2>3, <3>1, <3>2 DEF SamplesOK, Apart
  <2>4. K = {n}
    BY <1>2, <2>3 DEF LastOf
  <2>5. PartsAt(Plan, {n}) = {Samples[n]}
    BY <1>2, <2>1 DEF PartsAt
  <2> QED
    BY <1>3, <1>5, <2>4, <2>5 DEF SentAt
<1> QED
  BY <1>4, <1>5

\* What is sent has its infos below its path, and shares none with what else
\* is sent, as long as the rest is not sent next to sample parts.
LEMMA SentFacts ==
  ASSUME RequestOK, NEW j \in 0..Total, j = Total => Samples = <<>>
  PROVE  /\ \A n \in 1..j : IsBelow(SentAt(n)) /\ SentAt(n) \in PartSet(AllInfos)
         /\ \A m, n \in 1..j : m # n => InfosOf(SentAt(m)) \cap InfosOf(SentAt(n)) = {}
<1>1. PlanTypes /\ SamplesOK /\ RestOK
  BY PlanFacts
<1>2. CASE j = Total
  <2>1. Total = 1 /\ j = 1
    BY <1>2 DEF Total
  <2>2. SentAt(1) = Rest
    BY <1>1, <2>1 DEF SentAt, PartAt, PlanTypes
  <2>3. \A n \in 1..j : n = 1
    BY <2>1
  <2> QED
    BY <1>1, <2>2, <2>3 DEF RestOK, PlanTypes
<1>3. CASE j # Total
  <2>1. j \in 0..Len(Samples) /\ \A n \in 1..j : n \in 1..Len(Samples)
    BY <1>1, <1>3 DEF Total, PlanTypes
  <2>2. ASSUME NEW n \in 1..j
        PROVE  /\ SentAt(n) = IF Samples[n].path = RequestPath THEN Rest ELSE Samples[n]
               /\ Samples[n] \in PartSet(AllInfos)
    <3>1. n # Total
      BY <1>1, <2>1 DEF Total, PlanTypes
    <3>2. Samples[n] \in PartSet(AllInfos)
      BY <1>1, <2>1, ElementOfSeq DEF PlanTypes
    <3> QED
      BY <3>1, <3>2 DEF SentAt, PartAt
  <2>3. ASSUME NEW n \in 1..j
        PROVE  IsBelow(SentAt(n)) /\ SentAt(n) \in PartSet(AllInfos)
    BY <1>1, <2>1, <2>2 DEF SamplesOK, RestOK, PlanTypes
  <2>4. ASSUME NEW m \in 1..j, NEW n \in 1..j, m # n
        PROVE  InfosOf(SentAt(m)) \cap InfosOf(SentAt(n)) = {}
    <3>1. m \in 1..Len(Samples) /\ n \in 1..Len(Samples)
      BY <2>1
    <3>2. /\ Apart(Samples[m], Samples[n])
          /\ InfosOf(Samples[m]) \cap InfosOf(Rest) = {}
          /\ InfosOf(Samples[n]) \cap InfosOf(Rest) = {}
      BY <1>1, <2>4, <3>1 DEF SamplesOK, RestOK
    <3> QED
      BY <2>2, <3>2 DEF Apart
  <2> QED
    BY <2>3, <2>4
<1> QED
  BY <1>2, <1>3

-----------------------------------------------------------------------------
(***************************************************************************)
(* The inductive invariant: after k responses the client has what these    *)
(* responses are about.                                                    *)
(***************************************************************************)
ResponseSet == {Response(q) : q \in PartSet(AllInfos)}
ToCome(k) ==
  /\ responses \in Seq(ResponseSet) /\ Len(responses) = Total - k
  /\ \A n \in 1..(Total - k) : responses[n] = Response(PartAt(k + n))
SentUpTo(j) ==
  /\ sampled \in Seq(PartSet(AllInfos)) /\ Len(sampled) = j
  /\ \A n \in 1..j : sampled[n] = SentAt(n)
Progress(k) ==
  /\ ToCome(k)
  /\ IF k = Total /\ Wanted THEN onChanged = InfosOf(Rest) /\ SentUpTo(Total - 1)
                            ELSE onChanged = {} /\ SentUpTo(k)

Nothing == responses = <<>> /\ onChanged = {} /\ sampled = <<>>
Supported == "IsSubscribeSupported" \in calls
SupportInv ==
  /\ RequestOK
  /\ ~Supported \/ "GiveUp" \in calls => Nothing
  /\ Supported => session = FoldLeft(Put, {}, Plan)
  /\ Supported /\ "GiveUp" \notin calls => \E k \in 0..Total : Progress(k)

\* What is derived from the request stays.
SamePlan ==
  /\ AllInfos' = AllInfos /\ Samples' = Samples /\ Rest' = Rest /\ Wanted' = Wanted
  /\ Plan' = Plan /\ Total' = Total

\* The request decides it.
LEMMA RequestStays ==
  ASSUME request' = request
  PROVE  SamePlan
BY DEF SamePlan, AllInfos, Samples, Rest, Whole, Wanted, WantsOnChange, Plan, Total

\* At first no call was made.
LEMMA InitSupportInv == Init => SupportInv
BY DEF Init, SupportInv, RequestOK, Nothing, Supported

\* The same for the parts by number.
LEMMA SameSent ==
  ASSUME SamePlan, NEW n
  PROVE  PartAt(n)' = PartAt(n) /\ SentAt(n)' = SentAt(n) /\ ResponseSet' = ResponseSet
BY DEF SamePlan, PartAt, SentAt, ResponseSet

\* IsSubscribeSupported returns all responses.
LEMMA IsSubscribeSupportedKeeps ==
  ASSUME SupportInv, IsSubscribeSupported
  PROVE  SupportInv'
<1>1. RequestOK /\ request' = request /\ RequestOK'
  BY DEF SupportInv, IsSubscribeSupported, RequestOK
<1>2. SamePlan
  BY <1>1, RequestStays
<1>3. Nothing /\ UNCHANGED <<onChanged, sampled>> /\ calls' = {"IsSubscribeSupported"}
  BY DEF SupportInv, IsSubscribeSupported, Supported
<1> DEFINE lead == [n \in 1..Len(Samples) |-> Response(Samples[n])]
<1>4. /\ responses' = lead \o <<Response(Rest)>>
      /\ session' = FoldLeft(Put, {}, Plan)
  BY DEF IsSubscribeSupported, Samples, Rest, Whole, Plan
<1>5. PlanTypes
  BY <1>1, PlanFacts
<1>6. /\ lead \in Seq(ResponseSet) /\ Len(lead) = Len(Samples)
      /\ \A n \in 1..Len(Samples) : lead[n] = Response(Samples[n])
  <2>1. \A n \in 1..Len(Samples) : Response(Samples[n]) \in ResponseSet
    BY <1>5, ElementOfSeq DEF PlanTypes, ResponseSet
  <2>2. Len(Samples) \in Nat
    BY <1>5 DEF PlanTypes
  <2> QED
    BY <2>1, <2>2
<1>7. Response(Rest) \in ResponseSet
  BY <1>5 DEF PlanTypes, ResponseSet
<1> HIDE DEF lead
<1> DEFINE tail == <<Response(Rest)>>
<1>8. /\ responses' \in Seq(ResponseSet) /\ Len(responses') = Total
      /\ \A n \in 1..Total : responses'[n] = Response(PartAt(n))
  <2>1. tail \in Seq(ResponseSet) /\ Len(tail) = 1 /\ tail[1] = Response(Rest)
    BY <1>7
  <2> HIDE DEF tail
  <2>2. /\ lead \o tail \in Seq(ResponseSet) /\ Len(lead \o tail) = Len(Samples) + 1
        /\ \A n \in 1..(Len(Samples) + 1) : (lead \o tail)[n] =
              IF n <= Len(lead) THEN lead[n] ELSE tail[n - Len(lead)]
    BY <1>6, <2>1, ConcatProperties
  <2>3. ASSUME NEW n \in 1..Total
        PROVE  (lead \o tail)[n] = Response(PartAt(n))
    <3>1. Len(Samples) \in Nat /\ Total = Len(Samples) + 1
      BY <1>5 DEF PlanTypes, Total
    <3>2. CASE n = Total
      BY <1>6, <2>1, <2>2, <3>1, <3>2 DEF PartAt
    <3>3. CASE n # Total
      <4>1. n \in 1..Len(Samples) /\ n <= Len(lead)
        BY <1>6, <3>1, <3>3
      <4> QED
        BY <1>6, <2>2, <3>1, <3>3, <4>1 DEF PartAt
    <3> QED
      BY <3>2, <3>3
  <2>4. responses' = lead \o tail
    BY <1>4 DEF tail
  <2> QED
    BY <2>2, <2>3, <2>4 DEF Total
<1>9. Total \in Nat /\ Total # 0
  BY <1>5 DEF Total, PlanTypes
<1>10. ToCome(0)'
  <2>1. \A n \in 1..Total : PartAt(0 + n)' = PartAt(n)
    BY <1>2, SameSent
  <2>2. ResponseSet' = ResponseSet /\ Total' = Total /\ Total - 0 = Total
    BY <1>2, <1>9, SameSent DEF SamePlan
  <2> QED
    BY <1>8, <2>1, <2>2 DEF ToCome
<1>11. onChanged' = {} /\ SentUpTo(0)'
  <2>1. sampled' = <<>> /\ onChanged' = {}
    BY <1>3 DEF Nothing
  <2> QED
    BY <2>1 DEF SentUpTo
<1>12. Progress(0)'
  BY <1>2, <1>9, <1>10, <1>11 DEF Progress, SamePlan
<1>13. \E k \in 0..Total' : Progress(k)'
  BY <1>2, <1>9, <1>12 DEF SamePlan
<1>14. Supported' /\ "GiveUp" \notin calls'
  BY <1>3 DEF Supported
<1>15. session' = FoldLeft(Put, {}, Plan)'
  BY <1>2, <1>4 DEF SamePlan
<1> QED
  BY <1>1, <1>13, <1>14, <1>15 DEF SupportInv

\* Before a response is used.
LEMMA NextResponse ==
  ASSUME SupportInv, responses # <<>>
  PROVE  /\ RequestOK /\ Supported /\ "GiveUp" \notin calls
         /\ session = FoldLeft(Put, {}, Plan)
         /\ \E k \in 0..Total : /\ Progress(k) /\ k + 1 \in 1..Total /\ k # Total
                                /\ Head(responses) = Response(PartAt(k + 1))
<1>1. /\ RequestOK /\ Supported /\ "GiveUp" \notin calls
      /\ session = FoldLeft(Put, {}, Plan)
  BY DEF SupportInv, Nothing
<1>2. PICK k \in 0..Total : Progress(k)
  BY <1>1 DEF SupportInv
<1>3. Total \in Nat
  BY <1>1, PlanPositions
<1>4. Len(responses) # 0 /\ Len(responses) \in Nat
  BY <1>2, LenProperties, EmptySeq DEF Progress, ToCome
<1>5. k + 1 \in 1..Total /\ k # Total /\ 1 \in 1..(Total - k)
  BY <1>2, <1>3, <1>4 DEF Progress, ToCome
<1>6. responses[1] = Response(PartAt(k + 1))
  BY <1>2, <1>5 DEF Progress, ToCome
<1> QED
  BY <1>1, <1>2, <1>5, <1>6

\* One response fewer is to come.
LEMMA ToComeStep ==
  ASSUME RequestOK, NEW k \in 0..Total, k # Total, ToCome(k), SamePlan,
         responses # <<>>, responses' = Tail(responses)
  PROVE  ToCome(k + 1)'
<1>1. Total \in Nat /\ Total' = Total /\ ResponseSet' = ResponseSet
  BY PlanPositions, SameSent DEF SamePlan
<1>2. /\ responses \in Seq(ResponseSet) /\ Len(responses) = Total - k
      /\ \A n \in 1..(Total - k) : responses[n] = Response(PartAt(k + n))
  BY DEF ToCome
<1>3. /\ responses' \in Seq(ResponseSet) /\ Len(responses') = Total - (k + 1)
      /\ \A n \in 1..(Total - (k + 1)) : responses'[n] = responses[n + 1]
  BY <1>1, <1>2, HeadTailProperties
<1>4. ASSUME NEW n \in 1..(Total - (k + 1))
      PROVE  responses'[n] = Response(PartAt((k + 1) + n)')
  <2>1. n + 1 \in 1..(Total - k) /\ k + (n + 1) = (k + 1) + n
    BY <1>1
  <2>2. responses'[n] = Response(PartAt(k + (n + 1)))
    BY <1>2, <1>3, <2>1
  <2> QED
    BY <2>1, <2>2, SameSent
<1> QED
  BY <1>1, <1>3, <1>4 DEF ToCome

\* Subscribe takes the rest, which is last.
LEMMA SubscribeKeeps ==
  ASSUME SupportInv, Subscribe
  PROVE  SupportInv'
<1>1. /\ responses # <<>> /\ WantsOnChange(Head(responses))
      /\ onChanged' = onChanged \cup UNION {InfosOf(p) : p \in Found(Head(responses).part.path)}
      /\ responses' = Tail(responses) /\ calls' = calls \cup {"Subscribe"}
      /\ UNCHANGED <<request, session, sampled>>
  BY DEF Subscribe
<1>2. RequestOK /\ Supported /\ "GiveUp" \notin calls /\ session = FoldLeft(Put, {}, Plan)
  BY <1>1, NextResponse
<1>3. PICK k \in 0..Total : /\ Progress(k) /\ k + 1 \in 1..Total /\ k # Total
                            /\ Head(responses) = Response(PartAt(k + 1))
  BY <1>1, NextResponse
<1>4. SamePlan /\ RequestOK'
  BY <1>1, <1>2, RequestStays DEF RequestOK
<1>5. PlanTypes /\ WantsRestOnly /\ Total \in Nat
  BY <1>2, PlanFacts, WantsFacts, PlanPositions
<1>6. k + 1 = Total
  <2>1. k + 1 \in 1..Len(Samples) => PartAt(k + 1) = Samples[k + 1]
    BY <1>5 DEF PartAt, Total, PlanTypes
  <2>2. k + 1 \notin 1..Len(Samples)
    BY <1>1, <1>3, <1>5, <2>1 DEF WantsRestOnly
  <2> QED
    BY <1>3, <1>5, <2>2 DEF Total, PlanTypes
<1>7. PartAt(k + 1) = Rest /\ SentAt(k + 1) = Rest /\ Wanted
  <2>1. PartAt(k + 1) = Rest /\ Rest.path = RequestPath
    BY <1>5, <1>6 DEF PartAt, PlanTypes
  <2> QED
    BY <1>1, <1>3, <2>1 DEF SentAt, Wanted
<1>8. onChanged' = InfosOf(Rest)
  <2>1. Head(responses).part = Rest
    BY <1>3, <1>7 DEF Response
  <2>2. Found(Rest.path) = {Rest}
    BY <1>2, <1>3, <1>7, FoundFacts
  <2>3. onChanged = {}
    BY <1>3 DEF Progress
  <2> QED
    BY <1>1, <2>1, <2>2, <2>3
<1>9. ToCome(k + 1)'
  BY <1>1, <1>2, <1>3, <1>4, ToComeStep DEF Progress
<1>10. SentUpTo(Total - 1)'
  <2>1. SentUpTo(k) /\ k = Total - 1
    BY <1>3, <1>5, <1>6 DEF Progress
  <2>2. AllInfos' = AllInfos /\ \A n \in 1..k : SentAt(n)' = SentAt(n)
    BY <1>4, SameSent DEF SamePlan
  <2> QED
    BY <1>1, <1>4, <2>1, <2>2 DEF SentUpTo, SamePlan
<1>11. Progress(Total)' /\ Total \in 0..Total
  BY <1>4, <1>5, <1>6, <1>7, <1>8, <1>9, <1>10 DEF Progress, SamePlan
<1>12. \E i \in 0..Total' : Progress(i)'
  BY <1>4, <1>11 DEF SamePlan
<1>13. Supported' /\ "GiveUp" \notin calls' /\ session' = FoldLeft(Put, {}, Plan)'
  BY <1>1, <1>2, <1>4 DEF Supported, SamePlan
<1> QED
  BY <1>4, <1>12, <1>13 DEF SupportInv

\* One element makes one sequence.
LEMMA SetToSeqOne ==
  ASSUME NEW x
  PROVE  SetToSeq({x}) = <<x>>
<1>1. Cardinality({x}) = 1
  BY FS_Singleton
<1>2. <<x>> \in [1..1 -> {x}] /\ IsInjective(<<x>>)
  BY DEF IsInjective
<1>3. \A f \in [1..1 -> {x}] : f = <<x>>
  <2> SUFFICES ASSUME NEW f \in [1..1 -> {x}] PROVE f = <<x>>
    OBVIOUS
  <2>1. f \in Seq({x}) /\ Len(f) = 1 /\ f[1] = x
    OBVIOUS
  <2> QED
    BY <2>1
<1> QED
  BY <1>1, <1>2, <1>3 DEF SetToSeq

\* Stream sends one more part.
LEMMA StreamKeeps ==
  ASSUME SupportInv, Stream
  PROVE  SupportInv'
<1>1. /\ responses # <<>> /\ ~WantsOnChange(Head(responses))
      /\ sampled' = sampled \o SetToSeq(Found(Head(responses).part.path))
      /\ responses' = Tail(responses) /\ calls' = calls \cup {"Stream"}
      /\ UNCHANGED <<request, session, onChanged>>
  BY DEF Stream
<1>2. RequestOK /\ Supported /\ "GiveUp" \notin calls /\ session = FoldLeft(Put, {}, Plan)
  BY <1>1, NextResponse
<1>3. PICK k \in 0..Total : /\ Progress(k) /\ k + 1 \in 1..Total /\ k # Total
                            /\ Head(responses) = Response(PartAt(k + 1))
  BY <1>1, NextResponse
<1>4. SamePlan /\ RequestOK'
  BY <1>1, <1>2, RequestStays DEF RequestOK
<1>5. PlanTypes /\ Total \in Nat
  BY <1>2, PlanFacts, PlanPositions
<1>6. ~(k + 1 = Total /\ Wanted)
  BY <1>1, <1>3 DEF PartAt, Wanted
<1> DEFINE x == SentAt(k + 1)
<1>7. x \in PartSet(AllInfos)
  <2>1. PartAt(k + 1) \in PartSet(AllInfos)
    BY <1>2, <1>3, PlanPositions
  <2>2. CASE k + 1 = Total
    BY <1>5, <2>2 DEF SentAt, PartAt, PlanTypes
  <2>3. CASE k + 1 # Total
    BY <1>5, <2>1, <2>3 DEF SentAt, PartAt, PlanTypes
  <2> QED
    BY <2>2, <2>3
<1>8. sampled' = Append(sampled, x)
  <2>1. Head(responses).part = PartAt(k + 1)
    BY <1>3 DEF Response
  <2>2. Found(PartAt(k + 1).path) = {x}
    BY <1>2, <1>3, FoundFacts
  <2>3. sampled' = sampled \o <<x>>
    <3> HIDE DEF x
    <3> QED
      BY <1>1, <2>1, <2>2, SetToSeqOne
  <2>4. sampled \in Seq(PartSet(AllInfos))
    BY <1>3 DEF Progress, SentUpTo
  <2> HIDE DEF x
  <2>5. sampled \o <<x>> = Append(sampled, x)
    BY <1>7, <2>4, AppendIsConcat
  <2> QED
    BY <2>3, <2>5
<1> HIDE DEF x
<1>9. ToCome(k + 1)'
  BY <1>1, <1>2, <1>3, <1>4, ToComeStep DEF Progress
<1>10. SentUpTo(k + 1)'
  <2>1. SentUpTo(k) /\ k \in Nat
    BY <1>3, <1>5 DEF Progress
  <2>2. AllInfos' = AllInfos /\ \A n \in 1..(k + 1) : SentAt(n)' = SentAt(n)
    BY <1>4, SameSent DEF SamePlan
  <2>3. /\ sampled' \in Seq(PartSet(AllInfos)) /\ Len(sampled') = k + 1
        /\ sampled'[k + 1] = x /\ \A n \in 1..k : sampled'[n] = sampled[n]
    BY <1>7, <1>8, <2>1, AppendProperties DEF SentUpTo
  <2>4. ASSUME NEW n \in 1..(k + 1)
        PROVE  sampled'[n] = SentAt(n)
    <3>1. CASE n = k + 1
      BY <2>3, <3>1 DEF x
    <3>2. CASE n # k + 1
      <4>1. n \in 1..k
        BY <2>1, <3>2
      <4> QED
        BY <2>1, <2>3, <4>1 DEF SentUpTo
    <3> QED
      BY <3>1, <3>2
  <2> QED
    BY <2>2, <2>3, <2>4 DEF SentUpTo
<1>11. onChanged' = {}
  BY <1>1, <1>3 DEF Progress
<1>12. Progress(k + 1)' /\ k + 1 \in 0..Total
  BY <1>3, <1>4, <1>5, <1>6, <1>9, <1>10, <1>11 DEF Progress, SamePlan
<1>13. \E i \in 0..Total' : Progress(i)'
  BY <1>4, <1>12 DEF SamePlan
<1>14. Supported' /\ "GiveUp" \notin calls' /\ session' = FoldLeft(Put, {}, Plan)'
  BY <1>1, <1>2, <1>4 DEF Supported, SamePlan
<1> QED
  BY <1>4, <1>13, <1>14 DEF SupportInv

\* An ON_CHANGE request has one response, and gets nothing without it.
LEMMA GiveUpKeeps ==
  ASSUME SupportInv, GiveUp
  PROVE  SupportInv'
<1>1. /\ responses # <<>> /\ request[1] = "OnChange"
      /\ calls' = calls \cup {"GiveUp"} /\ responses' = <<>>
      /\ UNCHANGED <<request, session, onChanged, sampled>>
  BY DEF GiveUp
<1>2. RequestOK /\ Supported /\ "GiveUp" \notin calls /\ session = FoldLeft(Put, {}, Plan)
  BY <1>1, NextResponse
<1>3. PICK k \in 0..Total : Progress(k) /\ k + 1 \in 1..Total /\ k # Total
  BY <1>1, NextResponse
<1>4. SamePlan /\ RequestOK'
  BY <1>1, <1>2, RequestStays DEF RequestOK
<1>5. Samples = <<>>
  BY <1>1, <1>2, PlanFacts DEF RestOK
<1>6. k = 0
  BY <1>3, <1>5 DEF Total
<1>7. onChanged = {} /\ sampled = <<>>
  BY <1>3, <1>6, EmptySeq DEF Progress, SentUpTo
<1>8. Nothing'
  BY <1>1, <1>7 DEF Nothing
<1>9. "GiveUp" \in calls' /\ session' = FoldLeft(Put, {}, Plan)'
  BY <1>1, <1>2, <1>4 DEF SamePlan
<1> QED
  BY <1>4, <1>8, <1>9 DEF SupportInv

\* A step that changes nothing.
LEMMA UnchangedKeeps ==
  ASSUME SupportInv, UNCHANGED supportVars
  PROVE  SupportInv'
<1>1. /\ request' = request /\ responses' = responses /\ session' = session
      /\ onChanged' = onChanged /\ sampled' = sampled /\ calls' = calls
  BY DEF supportVars
<1>2. SamePlan
  BY <1>1, RequestStays
<1>3. ASSUME NEW k, Progress(k)
      PROVE  Progress(k)'
  <2>1. ASSUME NEW n
        PROVE  PartAt(n)' = PartAt(n) /\ SentAt(n)' = SentAt(n)
    BY <1>2, SameSent
  <2>2. ResponseSet' = ResponseSet
    BY <1>2, SameSent
  <2> QED
    BY <1>1, <1>2, <1>3, <2>1, <2>2 DEF Progress, ToCome, SentUpTo, SamePlan
<1> QED
  BY <1>1, <1>2, <1>3 DEF SupportInv, SamePlan, RequestOK, Nothing, Supported

\* Every call keeps the invariant.
LEMMA SupportInvStep == SupportInv /\ [Next]_supportVars => SupportInv'
<1> SUFFICES ASSUME SupportInv, [Next]_supportVars PROVE SupportInv'
  OBVIOUS
<1>1. CASE IsSubscribeSupported
  BY <1>1, IsSubscribeSupportedKeeps
<1>2. CASE Refused
  BY <1>2 DEF Refused, SupportInv, RequestOK, Nothing, Supported
<1>3. CASE Subscribe
  BY <1>3, SubscribeKeeps
<1>4. CASE Stream
  BY <1>4, StreamKeeps
<1>5. CASE GiveUp
  BY <1>5, GiveUpKeeps
<1>6. CASE SupportDone
  BY <1>6, UnchangedKeeps DEF SupportDone
<1>7. CASE UNCHANGED supportVars
  BY <1>7, UnchangedKeeps
<1> QED
  BY <1>1, <1>2, <1>3, <1>4, <1>5, <1>6, <1>7 DEF Next

-----------------------------------------------------------------------------
(***************************************************************************)
(* Each info once.                                                         *)
(***************************************************************************)
LEMMA ProgressIsOnce ==
  ASSUME SupportInv, NEW k \in 0..Total, Progress(k), RequestOK
  PROVE  OnChangeIsSupported /\ SampledOnce
<1>1. WantsRestOnly /\ Total \in Nat /\ Total # 0
  BY WantsFacts, PlanPositions, PlanFacts DEF Total, PlanTypes
<1>2. OnChangeIsSupported
  <2>1. CASE k = Total /\ Wanted
    <3>1. \A i \in InfosOf(Rest) : i.onChange /\ ~i.nonDB
      BY <2>1, WantedIsSupported DEF Wanted
    <3> QED
      BY <2>1, <3>1 DEF Progress, OnChangeIsSupported
  <2>2. CASE ~(k = Total /\ Wanted)
    BY <2>2 DEF Progress, OnChangeIsSupported
  <2> QED
    BY <2>1, <2>2
<1>3. PICK j \in 0..Total : SentUpTo(j) /\ (j = Total => Samples = <<>>)
  <2>1. CASE k = Total /\ Wanted
    <3>1. SentUpTo(Total - 1) /\ Total - 1 \in 0..Total /\ Total - 1 # Total
      BY <1>1, <2>1 DEF Progress
    <3> QED
      BY <3>1
  <2>2. CASE ~(k = Total /\ Wanted)
    BY <1>1, <2>2 DEF Progress, WantsRestOnly
  <2> QED
    BY <2>1, <2>2
<1>4. /\ Len(sampled) = j /\ \A n \in 1..j : sampled[n] = SentAt(n)
  BY <1>3 DEF SentUpTo
<1>5. /\ \A n \in 1..j : IsBelow(SentAt(n))
      /\ \A m, n \in 1..j : m # n => InfosOf(SentAt(m)) \cap InfosOf(SentAt(n)) = {}
  BY <1>3, SentFacts
<1>6. \A n \in 1..j : \A info \in InfosOf(sampled[n]) : Matches(info.path, sampled[n].path)
  BY <1>4, <1>5 DEF IsBelow
<1>7. SampledOnce
  BY <1>4, <1>5, <1>6 DEF SampledOnce
<1> QED
  BY <1>2, <1>7

\* After the last response nothing is left out, or is there twice.
LEMMA ProgressIsAll ==
  ASSUME SupportInv, RequestOK, Progress(Total), ~Ambiguous
  PROVE  onChanged \cup SampledInfos = AllInfos /\ onChanged \cap SampledInfos = {}
<1>1. PlanTypes /\ SamplesOK /\ RestOK /\ IsShared /\ WantsRestOnly /\ Total \in Nat
  BY WantsFacts, PlanPositions, PlanFacts
<1>2. CASE Wanted
  <2>1. onChanged = InfosOf(Rest) /\ SentUpTo(Len(Samples))
    <3>1. Total - 1 = Len(Samples)
      BY <1>1 DEF Total, PlanTypes
    <3> QED
      BY <1>2, <3>1 DEF Progress
  <2>2. ASSUME NEW n \in 1..Len(Samples)
        PROVE  sampled[n] = Samples[n]
    <3>1. PICK i \in InfosOf(Samples[n]) : IsSampleOf(Samples[n], i)
      BY <1>1 DEF SamplesOK
    <3>2. i \in AllInfos
      BY <1>1, <3>1 DEF IsShared, InfosToSample
    <3>3. Samples[n].path # RequestPath
      BY <3>1, <3>2 DEF Ambiguous, IsSampleOf
    <3>4. PartAt(n) = Samples[n]
      BY <1>1 DEF PartAt, Total, PlanTypes
    <3> QED
      BY <2>1, <3>3, <3>4 DEF SentUpTo, SentAt
  <2>3. SampledInfos = InfosToSample
    BY <2>1, <2>2 DEF SampledInfos, InfosToSample, SentUpTo
  <2>4. InfosToSample \cap InfosOf(Rest) = {}
    BY <1>1 DEF RestOK, InfosToSample
  <2> QED
    BY <1>1, <2>1, <2>3, <2>4 DEF IsShared
<1>3. CASE ~Wanted
  <2>1. Samples = <<>> /\ Total = 1 /\ onChanged = {} /\ SentUpTo(1)
    BY <1>1, <1>3 DEF WantsRestOnly, Progress, Total
  <2>2. SentAt(1) = Rest
    BY <1>1, <2>1 DEF SentAt, PartAt, PlanTypes
  <2>3. Len(sampled) = 1 /\ sampled[1] = Rest
    BY <2>1, <2>2 DEF SentUpTo
  <2>4. SampledInfos = InfosOf(Rest)
    BY <2>3 DEF SampledInfos
  <2>5. InfosToSample = {}
    BY <2>1 DEF InfosToSample
  <2> QED
    BY <1>1, <2>1, <2>4, <2>5 DEF IsShared
<1> QED
  BY <1>2, <1>3

\* The invariant says what is promised.
LEMMA SupportInvImplies == SupportInv => EachInfoOnce
<1> SUFFICES ASSUME SupportInv PROVE EachInfoOnce
  OBVIOUS
<1>1. CASE Nothing /\ ~(Supported /\ "GiveUp" \notin calls)
  <2>1. OnChangeIsSupported /\ SampledOnce
    BY <1>1 DEF Nothing, OnChangeIsSupported, SampledOnce
  <2>2. ~Answered
    BY <1>1 DEF Answered, Supported
  <2> QED
    BY <2>1, <2>2 DEF EachInfoOnce
<1>2. CASE Supported /\ "GiveUp" \notin calls
  <2>1. PICK k \in 0..Total : Progress(k)
    BY <1>2 DEF SupportInv
  <2>2. RequestOK /\ Total \in Nat
    BY PlanPositions DEF SupportInv
  <2>3. OnChangeIsSupported /\ SampledOnce
    BY <2>1, <2>2, ProgressIsOnce
  <2>4. Answered => k = Total
    BY <2>1, <2>2, EmptySeq DEF Answered, Progress, ToCome
  <2>5. Answered /\ ~Ambiguous => /\ onChanged \cup SampledInfos = AllInfos
                                  /\ onChanged \cap SampledInfos = {}
    BY <2>1, <2>2, <2>4, ProgressIsAll
  <2> QED
    BY <2>3, <2>5 DEF EachInfoOnce
<1> QED
  BY <1>1, <1>2 DEF SupportInv

\* A client that follows the responses of IsSubscribeSupported gets each info
\* of the path from one of Subscribe and Stream, once, and from Subscribe only
\* with on-change support: for every answer of an app (subscribe.go).
THEOREM EachInfoOnceAlways == Spec => []EachInfoOnce
<1>1. Init => SupportInv
  BY InitSupportInv
<1>2. SupportInv /\ [Next]_supportVars => SupportInv'
  BY SupportInvStep
<1>3. SupportInv => EachInfoOnce
  BY SupportInvImplies
<1> QED
  BY <1>1, <1>2, <1>3, PTL DEF Spec
=============================================================================
