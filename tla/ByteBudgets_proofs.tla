-------------------------- MODULE ByteBudgets_proofs --------------------------
(***************************************************************************)
(* The two parts that keep to a number of bytes: the content store, for    *)
(* any keys, sizes, receipts, ticks and bound, and the Halo display, for   *)
(* any cells, frames, sizes and budget.                                    *)
(*                                                                         *)
(* Both work along sequences: filtering the eviction order, adding up      *)
(* sizes, making room and a sweep in the store, the pass over the changed  *)
(* cells, what it commits and draws, and the samples of a kind in the      *)
(* display session.  Each is a fold that is taken apart once; the rest is  *)
(* induction along the sequence.                                           *)
(***************************************************************************)
EXTENDS ContentStore, HaloSession, FiniteSetTheorems, WellFoundedInduction, TLAPS

-----------------------------------------------------------------------------
(* Induction and folds                                                     *)

\* Induction over the natural numbers, for the members of a set.
LEMMA Induction ==
  ASSUME NEW G, 0 \in G, \A k \in Nat : k \in G => k + 1 \in G
  PROVE  Nat \subseteq G
<1> DEFINE Below == OpToRel(<, Nat)
           Bad == Nat \ G
<1>1. \A i, j \in Nat : <<i, j>> \in Below <=> i < j
  BY DEF OpToRel
<1>2. IsWellFoundedOn(Below, Nat)
  BY NatLessThanWellFounded
<1>3. Bad \in SUBSET Nat
  OBVIOUS
<1>4. SUFFICES ASSUME Bad # {} PROVE FALSE
  OBVIOUS
<1>5. PICK m \in Bad : \A k \in Bad : <<k, m>> \notin Below
  <2> HIDE DEF Below, Bad
  <2> QED BY <1>2, <1>3, <1>4, WFMin
<1> HIDE DEF Below
<1>6. m \in Nat /\ m \notin G /\ m # 0
  BY <1>5
<1>7. m - 1 \in Nat /\ m - 1 < m /\ (m - 1) + 1 = m
  BY <1>6
<1>8. m - 1 \notin Bad
  BY <1>1, <1>5, <1>6, <1>7
<1> QED BY <1>6, <1>7, <1>8

\* The largest member of a set of numbers up to m that has m.
LEMMA MaxOfAll ==
  ASSUME NEW m \in Nat, NEW T \in SUBSET (1 .. m), m \in T
  PROVE  Max(T) = m
<1>1. \A x \in T : m >= x
  OBVIOUS
<1>2. \A x \in T : (\A y \in T : x >= y) => x = m
  OBVIOUS
<1> QED BY <1>1, <1>2 DEF Max

\* The largest member of a set of numbers up to m.
LEMMA MaxAmong ==
  ASSUME NEW n \in Nat, NEW T \in SUBSET (1 .. n), T # {}
  PROVE  Max(T) \in T /\ \A x \in T : x <= Max(T)
<1> DEFINE Good == {m \in Nat : \A U \in SUBSET (1 .. m) : U # {} =>
                                  \E x \in U : \A y \in U : x >= y}
<1>1. 0 \in Good
  <2>1. 1 .. 0 = {}
    OBVIOUS
  <2>2. \A U \in SUBSET (1 .. 0) : U = {}
    BY <2>1
  <2> QED BY <2>2
<1>2. ASSUME NEW k \in Nat, k \in Good PROVE k + 1 \in Good
  <2> SUFFICES ASSUME NEW U \in SUBSET (1 .. (k + 1)), U # {}
               PROVE  \E x \in U : \A y \in U : x >= y
    OBVIOUS
  <2>1. CASE k + 1 \in U
    BY <2>1
  <2>2. CASE k + 1 \notin U
    <3>1. U \in SUBSET (1 .. k)
      BY <2>2
    <3> QED BY <1>2, <3>1
  <2> QED BY <2>1, <2>2
<1>3. n \in Good
  <2> HIDE DEF Good
  <2> QED BY <1>1, <1>2, Induction
<1>4. \E x \in T : \A y \in T : x >= y
  BY <1>3
<1>5. Max(T) \in T /\ \A y \in T : Max(T) >= y
  BY <1>4, Zenon DEF Max
<1> QED BY <1>5

\* The first of some positions.
LEMMA MinAmong ==
  ASSUME NEW P \in SUBSET Nat, P # {}
  PROVE  Min(P) \in P /\ \A y \in P : Min(P) <= y
<1> DEFINE Below == OpToRel(<, Nat)
<1>1. \A i, j \in Nat : <<i, j>> \in Below <=> i < j
  BY DEF OpToRel
<1>2. IsWellFoundedOn(Below, Nat)
  BY NatLessThanWellFounded
<1>3. PICK m \in P : \A k \in P : <<k, m>> \notin Below
  <2> HIDE DEF Below
  <2> QED BY <1>2, WFMin
<1> HIDE DEF Below
<1>4. \A k \in P : m <= k
  <2>1. m \in Nat /\ \A k \in P : k \in Nat
    OBVIOUS
  <2>2. \A k \in P : ~(k < m)
    BY <1>1, <1>3, <2>1
  <2> QED BY <2>1, <2>2
<1>5. \E x \in P : \A y \in P : x =< y
  BY <1>4
<1> QED BY <1>5, Zenon DEF Min

\* The numbers up to i + 1, taken apart.
LEMMA UpTo ==
  ASSUME NEW n \in Nat, NEW i \in Nat, i + 1 <= n
  PROVE  /\ i <= n /\ i + 1 \in 1 .. n
         /\ 1 .. (i + 1) \in SUBSET (1 .. n) /\ 1 .. (i + 1) # {}
         /\ Max(1 .. (i + 1)) = i + 1
         /\ (1 .. (i + 1)) \ {i + 1} = 1 .. i
<1>1. i <= n /\ i + 1 \in 1 .. n /\ i + 1 \in Nat /\ i + 1 \in 1 .. (i + 1)
  OBVIOUS
<1>2. 1 .. (i + 1) \in SUBSET (1 .. n) /\ 1 .. (i + 1) # {}
  <2>1. \A x \in 1 .. (i + 1) : x \in 1 .. n
    OBVIOUS
  <2> QED BY <1>1, <2>1
<1>3. Max(1 .. (i + 1)) = i + 1
  <2> DEFINE m == i + 1
  <2>1. m \in Nat /\ m \in 1 .. m /\ 1 .. m \in SUBSET (1 .. m)
    OBVIOUS
  <2>2. Max(1 .. m) = m
    BY <2>1, MaxOfAll
  <2> QED BY <2>2
<1>4. (1 .. (i + 1)) \ {i + 1} = 1 .. i
  OBVIOUS
<1> QED BY <1>1, <1>2, <1>3, <1>4

\* iter folds the steps f over each set of numbers up to n, largest last.
FoldsUp(A, b, n, f, iter) ==
  /\ iter \in [SUBSET (1 .. n) -> A]
  /\ \A T \in SUBSET (1 .. n) :
       iter[T] = IF T = {} THEN b ELSE f[Max(T)][iter[T \ {Max(T)}]]

\* Steps on every number up to n can be folded.
LEMMA FoldExists ==
  ASSUME NEW A, NEW b \in A, NEW n \in Nat, NEW f \in [1 .. n -> [A -> A]]
  PROVE  \E iter : FoldsUp(A, b, n, f, iter)
<1> DEFINE Folded(m, iter) ==
             \A T \in SUBSET (1 .. m) :
               iter[T] = IF T = {} THEN b ELSE f[Max(T)][iter[T \ {Max(T)}]]
           Can(m) == \E iter \in [SUBSET (1 .. m) -> A] : Folded(m, iter)
           Good == {m \in Nat : m <= n => Can(m)}
<1>1. Can(0)
  <2> DEFINE iter == [T \in SUBSET (1 .. 0) |-> b]
  <2>1. iter \in [SUBSET (1 .. 0) -> A] /\ Folded(0, iter)
    OBVIOUS
  <2> QED BY <2>1
<1>2. ASSUME NEW k \in Nat, k + 1 <= n, Can(k) PROVE Can(k + 1)
  <2> DEFINE m == k + 1
  <2>1. m \in Nat /\ m \in 1 .. n /\ k = m - 1
    BY <1>2
  <2>2. PICK old \in [SUBSET (1 .. k) -> A] : Folded(k, old)
    BY <1>2
  <2> DEFINE new == [T \in SUBSET (1 .. m) |-> IF m \in T THEN f[m][old[T \ {m}]] ELSE old[T]]
  <2>3. \A T \in SUBSET (1 .. m) : /\ m \in T => T \ {m} \in SUBSET (1 .. k)
                                  /\ m \notin T => T \in SUBSET (1 .. k)
    BY <2>1
  <2>4. f[m] \in [A -> A]
    BY <2>1
  <2>5. new \in [SUBSET (1 .. m) -> A]
    BY <2>2, <2>3, <2>4
  <2>6. ASSUME NEW T \in SUBSET (1 .. m)
        PROVE  new[T] = IF T = {} THEN b ELSE f[Max(T)][new[T \ {Max(T)}]]
    <3>1. CASE m \in T
      <4>1. Max(T) = m
        BY <2>1, <3>1, MaxOfAll
      <4>2. T \ {m} \in SUBSET (1 .. m) /\ m \notin T \ {m}
        OBVIOUS
      <4>3. new[T \ {m}] = old[T \ {m}] /\ new[T] = f[m][old[T \ {m}]]
        BY <3>1, <4>2
      <4> QED BY <3>1, <4>1, <4>3
    <3>2. CASE m \notin T
      <4>1. T \in SUBSET (1 .. k) /\ new[T] = old[T]
        BY <2>3, <3>2
      <4>2. CASE T = {}
        BY <2>2, <4>1, <4>2
      <4>3. CASE T # {}
        <5>1. T \ {Max(T)} \in SUBSET (1 .. m) /\ m \notin T \ {Max(T)}
          BY <3>2
        <5>2. new[T \ {Max(T)}] = old[T \ {Max(T)}]
          BY <5>1
        <5> QED BY <2>2, <4>1, <4>3, <5>2
      <4> QED BY <4>2, <4>3
    <3> QED BY <3>1, <3>2
  <2>7. Folded(m, new)
    BY <2>6
  <2> QED BY <2>5, <2>7
<1>3. 0 \in Good /\ \A k \in Nat : k \in Good => k + 1 \in Good
  <2>1. \A k \in Nat : k + 1 <= n => k <= n
    OBVIOUS
  <2> HIDE DEF Can
  <2> QED BY <1>1, <1>2, <2>1
<1>4. n \in Good
  <2> HIDE DEF Good
  <2> QED BY <1>3, Induction
<1>5. Can(n)
  <2> HIDE DEF Can
  <2> QED BY <1>4
<1> QED BY <1>5 DEF FoldsUp

-----------------------------------------------------------------------------
(* Sequences                                                               *)

Distinct(s) == \A i, j \in DOMAIN s : s[i] = s[j] => i = j

\* Induction along sequences, one element at the end at a time.
LEMMA SeqInduction ==
  ASSUME NEW S, NEW G, <<>> \in G,
         \A s \in Seq(S), x \in S : s \in G => Append(s, x) \in G
  PROVE  Seq(S) \subseteq G
<1> DEFINE Good == {n \in Nat : \A s \in Seq(S) : Len(s) = n => s \in G}
<1>1. 0 \in Good
  <2>1. \A s \in Seq(S) : Len(s) = 0 => s = <<>>
    OBVIOUS
  <2> QED BY <2>1
<1>2. ASSUME NEW n \in Nat, n \in Good PROVE n + 1 \in Good
  <2> SUFFICES ASSUME NEW s \in Seq(S), Len(s) = n + 1 PROVE s \in G
    OBVIOUS
  <2> DEFINE t == SubSeq(s, 1, n)
             x == s[n + 1]
  <2>1. t \in Seq(S) /\ Len(t) = n /\ x \in S
    OBVIOUS
  <2>2. s = Append(t, x)
    OBVIOUS
  <2>3. t \in G
    BY <1>2, <2>1
  <2> HIDE DEF t, x
  <2> QED BY <2>1, <2>2, <2>3
<1>3. \A n \in Nat : n \in Good
  <2> HIDE DEF Good
  <2>1. Nat \subseteq Good
    BY <1>1, <1>2, Induction
  <2> QED BY <2>1
<1>4. \A s \in Seq(S) : Len(s) \in Nat
  OBVIOUS
<1> QED BY <1>3, <1>4

\* A sequence with one element more.
LEMMA AppendedSet ==
  ASSUME NEW S, NEW s \in Seq(S), NEW x \in S
  PROVE  /\ ToSet(Append(s, x)) = ToSet(s) \cup {x}
         /\ Distinct(Append(s, x)) <=> Distinct(s) /\ x \notin ToSet(s)
<1> DEFINE t == Append(s, x)
<1>1. /\ Len(s) \in Nat /\ DOMAIN t = 1 .. (Len(s) + 1) /\ DOMAIN s = 1 .. Len(s)
      /\ t[Len(s) + 1] = x /\ \A i \in 1 .. Len(s) : t[i] = s[i]
  OBVIOUS
<1> HIDE DEF t
<1>2. /\ \A i \in 1 .. (Len(s) + 1) : i \in 1 .. Len(s) \/ i = Len(s) + 1
      /\ \A i \in 1 .. Len(s) : i \in 1 .. (Len(s) + 1) /\ i # Len(s) + 1
      /\ Len(s) + 1 \in 1 .. (Len(s) + 1)
  BY <1>1
<1>3. ToSet(t) = ToSet(s) \cup {x}
  BY <1>1, <1>2 DEF ToSet
<1>4. Distinct(t) => Distinct(s)
  BY <1>1, <1>2 DEF Distinct
<1>5. Distinct(t) => x \notin ToSet(s)
  BY <1>1, <1>2 DEF Distinct, ToSet
<1>6. Distinct(s) /\ x \notin ToSet(s) => Distinct(t)
  BY <1>1, <1>2 DEF Distinct, ToSet
<1> QED BY <1>3, <1>4, <1>5, <1>6 DEF t

-----------------------------------------------------------------------------
(* Folds, one element at a time                                            *)

\* g holds what the steps f have made of b after each of the elements of s.
Walks(b, s, f, g) == g[0] = b /\ \A i \in 1 .. Len(s) : g[i] = f[s[i]][g[i - 1]]

\* iter folds those steps over the sets of positions of s, largest last.
Steps(A, b, s, f, iter) ==
  /\ iter \in [SUBSET DOMAIN s -> A]
  /\ \A T \in SUBSET DOMAIN s :
       iter[T] = IF T = {} THEN b ELSE f[s[Max(T)]][iter[T \ {Max(T)}]]

\* The function a fold is defined by exists.
LEMMA StepsExist ==
  ASSUME NEW S, NEW A, NEW b \in A, NEW s \in Seq(S), NEW f \in [S -> [A -> A]]
  PROVE  \E iter : Steps(A, b, s, f, iter)
<1> DEFINE n == Len(s)
           h == [i \in 1 .. n |-> f[s[i]]]
<1>1. n \in Nat /\ DOMAIN s = 1 .. n /\ h \in [1 .. n -> [A -> A]]
  OBVIOUS
<1> HIDE DEF h, n
<1>2. PICK iter : FoldsUp(A, b, n, h, iter)
  BY <1>1, FoldExists, Zenon
<1>3. ASSUME NEW T \in SUBSET (1 .. n)
      PROVE  iter[T] = IF T = {} THEN b ELSE f[s[Max(T)]][iter[T \ {Max(T)}]]
  <2>1. CASE T = {}
    BY <1>2, <2>1 DEF FoldsUp
  <2>2. CASE T # {}
    <3>1. Max(T) \in 1 .. n
      BY <1>1, <2>2, MaxAmong
    <3> QED BY <1>2, <2>2, <3>1 DEF FoldsUp, h
  <2> QED BY <2>1, <2>2
<1>4. Steps(A, b, s, f, iter)
  BY <1>1, <1>2, <1>3 DEF FoldsUp, Steps
<1> QED BY <1>4

\* c folds steps that are f on what has been reached so far.
Reaches(A, b, s, f, c) ==
  /\ c[{}] = b
  /\ \A T \in SUBSET DOMAIN s :
       T # {} /\ c[T \ {Max(T)}] \in A => c[T] = f[s[Max(T)]][c[T \ {Max(T)}]]

\* r is what a walk along s ends with.
Ends(A, b, s, f, r) ==
  \E g \in [0 .. Len(s) -> A] : Walks(b, s, f, g) /\ r = g[Len(s)]

\* What the fold returns is where the walk along the sequence ends.
LEMMA StepsWalk ==
  ASSUME NEW S, NEW A, NEW b \in A, NEW s \in Seq(S), NEW f \in [S -> [A -> A]],
         NEW c, Reaches(A, b, s, f, c)
  PROVE  Ends(A, b, s, f, c[DOMAIN s])
<1> DEFINE n == Len(s)
           g == [i \in 0 .. n |-> c[1 .. i]]
           Good == {i \in Nat : i <= n => c[1 .. i] \in A}
<1>1. n \in Nat /\ DOMAIN s = 1 .. n /\ 1 .. 0 = {} /\ \A i \in 1 .. n : s[i] \in S
  OBVIOUS
<1> USE DEF Reaches
<1> HIDE DEF n
<1>2. ASSUME NEW i \in Nat, i + 1 <= n, c[1 .. i] \in A
      PROVE  c[1 .. (i + 1)] = f[s[i + 1]][c[1 .. i]] /\ f[s[i + 1]][c[1 .. i]] \in A
  <2> DEFINE T == 1 .. (i + 1)
  <2>1. /\ T \in SUBSET (1 .. n) /\ T # {} /\ Max(T) = i + 1 /\ T \ {i + 1} = 1 .. i
        /\ i + 1 \in 1 .. n
    BY <1>1, <1>2, UpTo
  <2> HIDE DEF T
  <2>2. c[T] = f[s[i + 1]][c[1 .. i]]
    BY <1>1, <1>2, <2>1
  <2>3. f[s[i + 1]] \in [A -> A]
    BY <1>1, <2>1
  <2> QED BY <1>2, <2>2, <2>3 DEF T
<1>3. Nat \subseteq Good
  <2>1. 0 \in Good
    BY <1>1
  <2>2. ASSUME NEW i \in Nat, i \in Good PROVE i + 1 \in Good
    <3> SUFFICES ASSUME i + 1 <= n PROVE c[1 .. (i + 1)] \in A
      OBVIOUS
    <3>1. i <= n
      BY <1>1
    <3> QED BY <1>2, <2>2, <3>1
  <2> HIDE DEF Good
  <2> QED BY <2>1, <2>2, Induction
<1>4. \A i \in 0 .. n : g[i] = c[1 .. i] /\ c[1 .. i] \in A
  BY <1>1, <1>3
<1>5. g \in [0 .. n -> A] /\ c[DOMAIN s] = g[n] /\ g[0] = b
  BY <1>1, <1>4
<1>6. ASSUME NEW i \in 1 .. n PROVE g[i] = f[s[i]][g[i - 1]]
  <2> DEFINE j == i - 1
  <2>1. j \in Nat /\ j + 1 = i /\ j + 1 <= n /\ j \in 0 .. n /\ i \in 0 .. n
    BY <1>1
  <2> HIDE DEF g
  <2>2. c[1 .. j] \in A /\ g[j] = c[1 .. j] /\ g[i] = c[1 .. i]
    BY <1>4, <2>1
  <2> HIDE DEF j
  <2>3. c[1 .. (j + 1)] = f[s[j + 1]][c[1 .. j]]
    BY <1>2, <2>1, <2>2
  <2>4. g[i] = f[s[i]][g[j]]
    BY <2>1, <2>2, <2>3
  <2> QED BY <2>4 DEF j
<1> HIDE DEF g
<1>7. Walks(b, s, f, g)
  BY <1>5, <1>6 DEF Walks, n
<1> QED BY <1>5, <1>7 DEF n, Ends

\* What is computed by walking along each sequence is computed step by step.
LEMMA WalksAppend ==
  ASSUME NEW S, NEW A, NEW b \in A, NEW f \in [S -> [A -> A]], NEW F,
         \A s \in Seq(S) : Ends(A, b, s, f, F[s])
  PROVE  /\ F[<<>>] = b
         /\ \A s \in Seq(S) : /\ F[s] \in A
                              /\ \A x \in S : F[Append(s, x)] = f[x][F[s]]
<1> USE DEF Ends
<1>1. F[<<>>] = b
  <2>1. <<>> \in Seq(S) /\ Len(<<>>) = 0
    OBVIOUS
  <2> QED BY <2>1 DEF Walks
<1>2. ASSUME NEW s \in Seq(S) PROVE F[s] \in A
  <2>1. Len(s) \in 0 .. Len(s)
    OBVIOUS
  <2> QED BY <2>1
<1>3. ASSUME NEW s \in Seq(S), NEW x \in S PROVE F[Append(s, x)] = f[x][F[s]]
  <2> DEFINE n == Len(s)
             t == Append(s, x)
  <2>1. /\ n \in Nat /\ t \in Seq(S) /\ Len(t) = n + 1 /\ t[n + 1] = x
        /\ \A i \in 1 .. n : t[i] = s[i]
    OBVIOUS
  <2> HIDE DEF n, t
  <2>2. PICK g : g \in [0 .. n -> A] /\ Walks(b, s, f, g) /\ F[s] = g[n]
    BY DEF n
  <2>3. PICK h : h \in [0 .. (n + 1) -> A] /\ Walks(b, t, f, h) /\ F[t] = h[n + 1]
    BY <2>1
  <2> DEFINE Good == {i \in Nat : i <= n => h[i] = g[i]}
  <2>4. Nat \subseteq Good
    <3>1. 0 \in Good
      BY <2>2, <2>3 DEF Walks
    <3>2. ASSUME NEW i \in Nat, i \in Good PROVE i + 1 \in Good
      <4> SUFFICES ASSUME i + 1 <= n PROVE h[i + 1] = g[i + 1]
        OBVIOUS
      <4>1. /\ i + 1 \in 1 .. n /\ i + 1 \in 1 .. (n + 1) /\ (i + 1) - 1 = i /\ i <= n
        BY <2>1
      <4>2. h[i + 1] = f[t[i + 1]][h[i]] /\ g[i + 1] = f[s[i + 1]][g[i]]
        BY <2>1, <2>2, <2>3, <4>1 DEF Walks, n
      <4> QED BY <2>1, <3>2, <4>1, <4>2
    <3> HIDE DEF Good
    <3> QED BY <3>1, <3>2, Induction
  <2>5. h[n] = g[n]
    BY <2>1, <2>4
  <2>6. n + 1 \in 1 .. (n + 1) /\ (n + 1) - 1 = n
    BY <2>1
  <2>7. h[n + 1] = f[t[n + 1]][h[n]]
    BY <2>1, <2>3, <2>6 DEF Walks
  <2> QED BY <2>1, <2>2, <2>3, <2>5, <2>7 DEF t
<1> QED BY <1>1, <1>2, <1>3

-----------------------------------------------------------------------------
(* Sequences of keys                                                       *)

\* An empty order.
LEMMA NoKeys ==
  ASSUME NEW e, e = <<>>
  PROVE  e \in Seq(Key) /\ DOMAIN e = {} /\ ToSet(e) = {} /\ Distinct(e)
<1>1. e \in Seq(Key)
  OBVIOUS
<1>2. DOMAIN e = {}
  OBVIOUS
<1>3. ToSet(e) = {}
  BY <1>2 DEF ToSet
<1>4. Distinct(e)
  BY <1>2 DEF Distinct
<1> QED BY <1>1, <1>2, <1>3, <1>4

-----------------------------------------------------------------------------
(* Filtering                                                               *)

\* What filtering makes of a sequence, key by key.
LEMMA WithoutSteps ==
  ASSUME NEW K
  PROVE  /\ Without(<<>>, K) = <<>>
         /\ \A s \in Seq(Key) :
              /\ Without(s, K) \in Seq(Key)
              /\ \A x \in Key : Without(Append(s, x), K) =
                                   IF x \in K THEN Without(s, K) ELSE Append(Without(s, K), x)
<1> DEFINE S == Key
           A == Seq(Key)
           b == <<>>
           Op(kept, x) == IF x \in K THEN kept ELSE Append(kept, x)
           f == [x \in S |-> [a \in A |-> Op(a, x)]]
           F == [s \in Seq(S) |-> Without(s, K)]
<1>1. b \in A
  OBVIOUS
<1>2. f \in [S -> [A -> A]]
  <2>1. \A x \in S, a \in A : Op(a, x) \in A
    OBVIOUS
  <2> HIDE DEF Op, S, A
  <2> QED BY <2>1
<1>3. ASSUME NEW s \in Seq(S)
      PROVE  Ends(A, b, s, f, F[s])
  <2> DEFINE Folded(iter) ==
               iter = [T \in SUBSET DOMAIN s |->
                         IF T = {} THEN b ELSE Op(iter[T \ {Max(T)}], s[Max(T)])]
             c == CHOOSE iter : Folded(iter)
  <2>1. Without(s, K) = c[DOMAIN s]
    BY DEF Without, FoldLeft, MapThenFoldSet
  <2>2. \A T \in SUBSET DOMAIN s : T # {} => s[Max(T)] \in S
    <3>1. DOMAIN s = 1 .. Len(s) /\ Len(s) \in Nat /\ \A i \in 1 .. Len(s) : s[i] \in S
      OBVIOUS
    <3> HIDE DEF S
    <3>2. \A T \in SUBSET (1 .. Len(s)) : T # {} => Max(T) \in 1 .. Len(s)
      BY <3>1, MaxAmong
    <3> QED BY <3>1, <3>2
  <2> HIDE DEF Op, S, A, b
  <2>3. Folded(c)
    <3> HIDE DEF f
    <3>1. PICK iter : Steps(A, b, s, f, iter)
      BY <1>1, <1>2, StepsExist, Zenon
    <3> USE DEF f, Steps
    <3>2. \A T \in SUBSET DOMAIN s :
            T # {} => iter[T] = Op(iter[T \ {Max(T)}], s[Max(T)])
      BY <2>2, <3>1
    <3>3. Folded(iter)
      BY <3>1, <3>2
    <3> HIDE DEF Folded
    <3> QED BY <3>3
  <2> HIDE DEF c
  <2>4. Reaches(A, b, s, f, c)
    BY <2>2, <2>3 DEF Reaches
  <2>5. F[s] = c[DOMAIN s]
    BY <2>1
  <2> HIDE DEF f, F, Folded
  <2> QED BY <1>1, <1>2, <2>4, <2>5, StepsWalk
<1>4. /\ F[<<>>] = b
      /\ \A s \in Seq(S) : F[s] \in A /\ \A x \in S : F[Append(s, x)] = f[x][F[s]]
  <2> HIDE DEF f, F, S, A, b
  <2> QED BY <1>1, <1>2, <1>3, WalksAppend
<1>5. <<>> \in Seq(S) /\ \A s \in Seq(S), x \in S : Append(s, x) \in Seq(S)
  OBVIOUS
<1> QED BY <1>4, <1>5

\* Nothing is filtered out of nothing.
LEMMA WithoutNone ==
  ASSUME NEW K
  PROVE  Without(<<>>, K) = <<>>
BY WithoutSteps

\* The filter decides on an appended key by itself.
LEMMA WithoutAppended ==
  ASSUME NEW s \in Seq(Key), NEW x \in Key, NEW K
  PROVE  Without(Append(s, x), K) =
           IF x \in K THEN Without(s, K) ELSE Append(Without(s, K), x)
BY WithoutSteps

\* What is kept: the keys outside the set, all of them, in place.
LEMMA WithoutKeeps ==
  ASSUME NEW s \in Seq(Key), NEW K
  PROVE  /\ Without(s, K) \in Seq(Key)
         /\ ToSet(Without(s, K)) = ToSet(s) \ K
         /\ Distinct(s) => Distinct(Without(s, K))
         /\ ToSet(s) \cap K = {} => Without(s, K) = s
<1> DEFINE Kept(t) == /\ Without(t, K) \in Seq(Key)
                      /\ ToSet(Without(t, K)) = ToSet(t) \ K
                      /\ Distinct(t) => Distinct(Without(t, K))
                      /\ ToSet(t) \cap K = {} => Without(t, K) = t
           G == {t \in Seq(Key) : Kept(t)}
<1>1. <<>> \in G
  <2> DEFINE e == <<>>
  <2>1. Without(e, K) = e
    BY WithoutNone
  <2>2. e \in Seq(Key) /\ ToSet(e) = {} /\ Distinct(e)
    BY NoKeys
  <2> HIDE DEF e
  <2>3. e \in G
    BY <2>1, <2>2
  <2> QED BY <2>3 DEF e
<1>2. ASSUME NEW t \in Seq(Key), NEW x \in Key, t \in G PROVE Append(t, x) \in G
  <2> DEFINE tx == Append(t, x)
             w == Without(t, K)
  <2>1. w \in Seq(Key) /\ ToSet(w) = ToSet(t) \ K /\ (Distinct(t) => Distinct(w))
        /\ (ToSet(t) \cap K = {} => w = t)
    BY <1>2
  <2>2. tx \in Seq(Key) /\ ToSet(tx) = ToSet(t) \cup {x}
        /\ (Distinct(tx) <=> Distinct(t) /\ x \notin ToSet(t))
    BY AppendedSet
  <2>3. Without(tx, K) = IF x \in K THEN w ELSE Append(w, x)
    BY WithoutAppended
  <2> HIDE DEF tx, w
  <2>4. CASE x \in K
    BY <2>1, <2>2, <2>3, <2>4 DEF tx
  <2>5. CASE x \notin K
    <3>1. /\ Append(w, x) \in Seq(Key) /\ ToSet(Append(w, x)) = ToSet(w) \cup {x}
          /\ (Distinct(Append(w, x)) <=> Distinct(w) /\ x \notin ToSet(w))
      BY <2>1, AppendedSet
    <3>2. Without(tx, K) = Append(w, x)
      BY <2>3, <2>5
    <3>3. ToSet(tx) \cap K = {} => Append(w, x) = tx
      BY <2>1, <2>2 DEF tx
    <3> QED BY <2>1, <2>2, <2>5, <3>1, <3>2, <3>3 DEF tx
  <2> QED BY <2>4, <2>5
<1>3. s \in G
  <2> HIDE DEF G
  <2> QED BY <1>1, <1>2, SeqInduction
<1> QED BY <1>3

\* Filtering twice is filtering once.
LEMMA WithoutTwice ==
  ASSUME NEW s \in Seq(Key), NEW K, NEW L
  PROVE  Without(Without(s, K), L) = Without(s, K \cup L)
<1> DEFINE G == {t \in Seq(Key) : Without(Without(t, K), L) = Without(t, K \cup L)}
<1>1. <<>> \in G
  <2>1. Without(<<>>, K) = <<>> /\ Without(<<>>, L) = <<>> /\ Without(<<>>, K \cup L) = <<>>
    BY WithoutNone
  <2>2. <<>> \in Seq(Key)
    OBVIOUS
  <2> QED BY <2>1, <2>2
<1>2. ASSUME NEW t \in Seq(Key), NEW x \in Key, t \in G PROVE Append(t, x) \in G
  <2> DEFINE w == Without(t, K)
  <2>1. w \in Seq(Key) /\ Without(w, L) = Without(t, K \cup L)
    BY <1>2, WithoutKeeps
  <2>2. Without(Append(t, x), K) = IF x \in K THEN w ELSE Append(w, x)
    BY WithoutAppended
  <2>3. Without(Append(t, x), K \cup L) =
          IF x \in K \cup L THEN Without(t, K \cup L) ELSE Append(Without(t, K \cup L), x)
    BY WithoutAppended
  <2> HIDE DEF w
  <2>4. Without(Append(w, x), L) = IF x \in L THEN Without(w, L) ELSE Append(Without(w, L), x)
    BY <2>1, WithoutAppended
  <2>5. Append(t, x) \in Seq(Key)
    OBVIOUS
  <2> QED BY <2>1, <2>2, <2>3, <2>4, <2>5
<1>3. s \in G
  <2> HIDE DEF G
  <2> QED BY <1>1, <1>2, SeqInduction
<1> QED BY <1>3

-----------------------------------------------------------------------------
(* Adding up                                                               *)

Sized(s, size) == \A i \in 1 .. Len(s) : size[s[i]] \in Nat

\* g holds the bytes of the first i keys.
Sums(s, size, g) ==
  /\ g[0] = 0
  /\ \A i \in 1 .. Len(s) : g[i] = g[i - 1] + size[s[i]]
  /\ Bytes(s, size) = g[Len(s)]

\* The sum of sizes has its partial sums.
LEMMA Summed ==
  ASSUME NEW s \in Seq(Key), NEW size, Sized(s, size)
  PROVE  \E g : Sums(s, size, g)
<1> DEFINE n == Len(s)
           Folded(iter) ==
             iter = [T \in SUBSET DOMAIN s |->
                       IF T = {} THEN 0 ELSE iter[T \ {Max(T)}] + size[s[Max(T)]]]
           c == CHOOSE iter : Folded(iter)
<1>1. Bytes(s, size) = c[DOMAIN s]
  BY DEF Bytes, FoldLeft, MapThenFoldSet
<1>2. n \in Nat /\ DOMAIN s = 1 .. n
  OBVIOUS
<1>3. \E iter : Folded(iter)
  <2> DEFINE A == Nat
             b == 0
             f == [i \in 1 .. n |-> [sum \in A |-> sum + size[s[i]]]]
  <2>1. f \in [1 .. n -> [A -> A]]
    BY DEF Sized
  <2>2. b \in A
    OBVIOUS
  <2> HIDE DEF f, n, b, A
  <2>3. PICK iter : FoldsUp(A, b, n, f, iter)
    BY <1>2, <2>1, <2>2, FoldExists, Zenon
  <2> USE DEF f, FoldsUp
  <2>4. ASSUME NEW T \in SUBSET (1 .. n), T # {}
        PROVE  iter[T] = iter[T \ {Max(T)}] + size[s[Max(T)]]
    <3>1. Max(T) \in 1 .. n
      BY <1>2, <2>4, MaxAmong
    <3>2. iter[T \ {Max(T)}] \in A
      BY <2>3
    <3> QED BY <2>3, <2>4, <3>1, <3>2
  <2>5. iter = [T \in SUBSET (1 .. n) |->
                  IF T = {} THEN b ELSE iter[T \ {Max(T)}] + size[s[Max(T)]]]
    BY <2>3, <2>4
  <2> QED BY <1>2, <2>5 DEF b
<1>4. Folded(c)
  <2> HIDE DEF Folded
  <2> QED BY <1>3, Zenon
<1> HIDE DEF c
<1> DEFINE g == [i \in 0 .. n |-> c[1 .. i]]
<1>5. g[0] = 0
  <2>1. 1 .. 0 = {} /\ {} \in SUBSET (1 .. n) /\ 0 \in 0 .. n
    BY <1>2
  <2> QED BY <1>2, <1>4, <2>1
<1>6. ASSUME NEW i \in 1 .. n PROVE g[i] = g[i - 1] + size[s[i]]
  <2> DEFINE j == i - 1
             T == 1 .. i
  <2>1. j \in Nat /\ j + 1 = i /\ j + 1 <= n /\ i \in 0 .. n /\ j \in 0 .. n
    BY <1>2
  <2>2. T \in SUBSET (1 .. n) /\ T # {} /\ Max(T) = i /\ T \ {i} = 1 .. j
    <3> HIDE DEF j
    <3> QED BY <1>2, <2>1, UpTo
  <2> HIDE DEF T, n
  <2>3. c[T] = c[T \ {Max(T)}] + size[s[Max(T)]]
    BY <1>2, <1>4, <2>2
  <2> QED BY <2>1, <2>2, <2>3 DEF T
<1>7. Bytes(s, size) = g[n]
  BY <1>1, <1>2
<1> HIDE DEF g
<1>8. Sums(s, size, g)
  BY <1>5, <1>6, <1>7 DEF Sums
<1> QED BY <1>8, Zenon

\* No keys, no bytes.
LEMMA BytesNone ==
  ASSUME NEW size
  PROVE  Bytes(<<>>, size) = 0
<1>1. <<>> \in Seq(Key) /\ Len(<<>>) = 0 /\ Sized(<<>>, size)
  BY DEF Sized
<1>2. PICK g : Sums(<<>>, size, g)
  BY <1>1, Summed
<1> QED BY <1>1, <1>2 DEF Sums

\* Two sequences with the same first n keys of the same sizes, summed.
LEMMA SumsAgree ==
  ASSUME NEW s \in Seq(Key), NEW t \in Seq(Key), NEW n \in Nat, n <= Len(s), n <= Len(t),
         NEW size, NEW other, NEW g, NEW h, Sums(s, size, g), Sums(t, other, h),
         \A i \in 1 .. n : size[s[i]] = other[t[i]]
  PROVE  h[n] = g[n]
<1> DEFINE Good == {i \in Nat : i <= n => h[i] = g[i]}
<1>1. 0 \in Good
  BY DEF Sums
<1>2. ASSUME NEW i \in Nat, i \in Good PROVE i + 1 \in Good
  <2> SUFFICES ASSUME i + 1 <= n PROVE h[i + 1] = g[i + 1]
    OBVIOUS
  <2>1. /\ i + 1 \in 1 .. n /\ i + 1 \in 1 .. Len(s) /\ i + 1 \in 1 .. Len(t)
        /\ (i + 1) - 1 = i /\ h[i] = g[i]
    BY <1>2
  <2>2. h[i + 1] = h[i] + other[t[i + 1]] /\ g[i + 1] = g[i] + size[s[i + 1]]
    BY <2>1 DEF Sums
  <2> QED BY <2>1, <2>2
<1>3. n \in Good
  <2> HIDE DEF Good
  <2> QED BY <1>1, <1>2, Induction
<1> QED BY <1>3

\* An appended key adds the bytes of its frame.
LEMMA BytesAppended ==
  ASSUME NEW s \in Seq(Key), NEW x \in Key, NEW size, Sized(s, size), size[x] \in Nat
  PROVE  Bytes(Append(s, x), size) = Bytes(s, size) + size[x]
<1> DEFINE t == Append(s, x)
           n == Len(s)
<1>1. /\ t \in Seq(Key) /\ n \in Nat /\ Len(t) = n + 1 /\ t[n + 1] = x
      /\ \A i \in 1 .. n : t[i] = s[i]
  OBVIOUS
<1> HIDE DEF t
<1>2. Sized(t, size)
  BY <1>1 DEF Sized
<1>3. PICK g : Sums(s, size, g)
  BY Summed
<1>4. PICK h : Sums(t, size, h)
  BY <1>1, <1>2, Summed
<1>5. h[n] = g[n]
  <2>1. n <= Len(s) /\ n <= Len(t) /\ \A i \in 1 .. n : size[s[i]] = size[t[i]]
    BY <1>1
  <2> QED BY <1>1, <1>3, <1>4, <2>1, SumsAgree
<1>6. n + 1 \in 1 .. Len(t) /\ (n + 1) - 1 = n
  BY <1>1
<1>7. h[n + 1] = h[n] + size[x]
  BY <1>1, <1>4, <1>6 DEF Sums
<1> QED BY <1>1, <1>3, <1>4, <1>5, <1>7 DEF Sums, t

\* Only the sizes of the keys in the sequence count.
LEMMA BytesAgree ==
  ASSUME NEW s \in Seq(Key), NEW size, NEW other, Sized(s, size),
         \A k \in ToSet(s) : size[k] = other[k]
  PROVE  Sized(s, other) /\ Bytes(s, other) = Bytes(s, size)
<1>1. Len(s) \in Nat /\ \A i \in 1 .. Len(s) : size[s[i]] = other[s[i]]
  BY DEF ToSet
<1>2. Sized(s, other)
  BY <1>1 DEF Sized
<1>3. PICK g : Sums(s, size, g)
  BY Summed
<1>4. PICK h : Sums(s, other, h)
  BY <1>2, Summed
<1>5. h[Len(s)] = g[Len(s)]
  BY <1>1, <1>3, <1>4, SumsAgree
<1> QED BY <1>2, <1>3, <1>4, <1>5 DEF Sums

\* The keys of an appended sequence have sizes if its parts do.
LEMMA SizedAppended ==
  ASSUME NEW s \in Seq(Key), NEW x \in Key, NEW size
  PROVE  Sized(Append(s, x), size) <=> Sized(s, size) /\ size[x] \in Nat
<1> DEFINE t == Append(s, x)
<1>1. /\ Len(t) = Len(s) + 1 /\ Len(s) \in Nat
      /\ t[Len(s) + 1] = x /\ \A i \in 1 .. Len(s) : t[i] = s[i]
  OBVIOUS
<1> HIDE DEF t
<1>2. /\ \A i \in 1 .. (Len(s) + 1) : i \in 1 .. Len(s) \/ i = Len(s) + 1
      /\ \A i \in 1 .. Len(s) : i \in 1 .. (Len(s) + 1)
      /\ Len(s) + 1 \in 1 .. (Len(s) + 1)
  BY <1>1
<1>3. Sized(t, size) => Sized(s, size) /\ size[x] \in Nat
  BY <1>1, <1>2 DEF Sized
<1>4. Sized(s, size) /\ size[x] \in Nat => Sized(t, size)
  BY <1>1, <1>2 DEF Sized
<1> QED BY <1>3, <1>4 DEF t

\* A sum of sizes is a size.
LEMMA BytesNat ==
  ASSUME NEW s \in Seq(Key), NEW size, Sized(s, size)
  PROVE  Bytes(s, size) \in Nat
<1> DEFINE G == {t \in Seq(Key) : Sized(t, size) => Bytes(t, size) \in Nat}
<1>1. <<>> \in G
  BY BytesNone
<1>2. ASSUME NEW t \in Seq(Key), NEW x \in Key, t \in G PROVE Append(t, x) \in G
  <2> SUFFICES ASSUME Sized(Append(t, x), size) PROVE Bytes(Append(t, x), size) \in Nat
    OBVIOUS
  <2>1. Sized(t, size) /\ size[x] \in Nat
    BY SizedAppended
  <2>2. Bytes(t, size) \in Nat
    BY <1>2, <2>1
  <2>3. Bytes(Append(t, x), size) = Bytes(t, size) + size[x]
    BY <2>1, BytesAppended
  <2> QED BY <2>1, <2>2, <2>3
<1>3. s \in G
  <2> HIDE DEF G
  <2> QED BY <1>1, <1>2, SeqInduction
<1> QED BY <1>3

\* The first key counts like the last.
LEMMA BytesTail ==
  ASSUME NEW s \in Seq(Key), s # <<>>, NEW size, Sized(s, size)
  PROVE  /\ Sized(Tail(s), size) /\ size[Head(s)] \in Nat
         /\ Bytes(s, size) = size[Head(s)] + Bytes(Tail(s), size)
<1> DEFINE Adds(t) == /\ Sized(Tail(t), size) /\ size[Head(t)] \in Nat
                      /\ Bytes(t, size) = size[Head(t)] + Bytes(Tail(t), size)
           G == {t \in Seq(Key) : t # <<>> /\ Sized(t, size) => Adds(t)}
<1>1. <<>> \in G
  OBVIOUS
<1>2. ASSUME NEW t \in Seq(Key), NEW x \in Key, t \in G PROVE Append(t, x) \in G
  <2> DEFINE tx == Append(t, x)
  <2>0. tx \in Seq(Key)
    OBVIOUS
  <2> SUFFICES ASSUME Sized(tx, size) PROVE Adds(tx)
    <3> HIDE DEF Adds, tx
    <3> QED BY <2>0 DEF tx
  <2>1. Sized(t, size) /\ size[x] \in Nat /\ Bytes(tx, size) = Bytes(t, size) + size[x]
    <3>1. Sized(t, size) /\ size[x] \in Nat
      BY SizedAppended
    <3> QED BY <3>1, BytesAppended
  <2>2. Bytes(t, size) \in Nat
    BY <2>1, BytesNat
  <2>3. CASE t = <<>>
    <3>1. Head(tx) = x /\ Tail(tx) = <<>>
      BY <2>3
    <3>2. Bytes(<<>>, size) = 0
      BY BytesNone
    <3>3. Sized(<<>>, size)
      BY DEF Sized
    <3> QED BY <2>1, <2>3, <3>1, <3>2, <3>3
  <2>4. CASE t # <<>>
    <3>1. Head(tx) = Head(t) /\ Tail(tx) = Append(Tail(t), x) /\ Tail(t) \in Seq(Key)
      BY <2>4
    <3>2. Adds(t)
      BY <1>2, <2>1, <2>4
    <3>3. Bytes(Tail(t), size) \in Nat
      BY <3>1, <3>2, BytesNat
    <3>4. /\ Bytes(Append(Tail(t), x), size) = Bytes(Tail(t), size) + size[x]
          /\ Sized(Append(Tail(t), x), size)
      BY <2>1, <3>1, <3>2, BytesAppended, SizedAppended
    <3>5. Bytes(tx, size) = size[Head(tx)] + Bytes(Tail(tx), size)
      <4> DEFINE a == Bytes(t, size)
                 b == Bytes(Tail(t), size)
                 c == Bytes(Tail(tx), size)
                 d == Bytes(tx, size)
      <4>1. a \in Nat /\ b \in Nat /\ size[x] \in Nat /\ size[Head(t)] \in Nat
        BY <2>1, <2>2, <3>2, <3>3
      <4>2. c = b + size[x]
        BY <3>1, <3>4
      <4>3. a = size[Head(t)] + b
        BY <3>2
      <4>4. d = a + size[x]
        BY <2>1
      <4> HIDE DEF a, b, c, d
      <4>5. d = size[Head(t)] + c
        BY <4>1, <4>2, <4>3, <4>4
      <4> QED BY <3>1, <4>5 DEF c, d
    <3>6. Sized(Tail(tx), size) /\ size[Head(tx)] \in Nat
      BY <3>1, <3>2, <3>4
    <3> QED BY <3>5, <3>6
  <2> QED BY <2>3, <2>4
<1>3. s \in G
  <2> HIDE DEF G
  <2> QED BY <1>1, <1>2, SeqInduction
<1> QED BY <1>3

\* Which keys have a size does not depend on their order.
LEMMA SizedSet ==
  ASSUME NEW s \in Seq(Key), NEW size
  PROVE  Sized(s, size) <=> \A k \in ToSet(s) : size[k] \in Nat
BY DEF Sized, ToSet

\* A key that is dropped takes its size along.
LEMMA BytesWithout ==
  ASSUME NEW s \in Seq(Key), Distinct(s), NEW k \in ToSet(s), NEW size, Sized(s, size)
  PROVE  Bytes(s, size) = size[k] + Bytes(Without(s, {k}), size)
<1> DEFINE W(t) == Without(t, {k})
           Drops(t) == Bytes(t, size) = size[k] + Bytes(W(t), size)
           G == {t \in Seq(Key) : Distinct(t) /\ k \in ToSet(t) /\ Sized(t, size) => Drops(t)}
<1>1. <<>> \in G
  <2> DEFINE e == <<>>
  <2>1. e \in Seq(Key) /\ ToSet(e) = {}
    BY NoKeys
  <2> HIDE DEF e
  <2>2. e \in G
    BY <2>1
  <2> QED BY <2>2 DEF e
<1>2. ASSUME NEW t \in Seq(Key), NEW x \in Key, t \in G PROVE Append(t, x) \in G
  <2> DEFINE tx == Append(t, x)
  <2>0. tx \in Seq(Key)
    OBVIOUS
  <2> SUFFICES ASSUME Distinct(tx), k \in ToSet(tx), Sized(tx, size) PROVE Drops(tx)
    <3> HIDE DEF Drops, tx
    <3> QED BY <2>0 DEF tx
  <2>1. Sized(t, size) /\ size[x] \in Nat
    BY SizedAppended
  <2>2. Bytes(tx, size) = Bytes(t, size) + size[x] /\ Bytes(t, size) \in Nat
    BY <2>1, BytesAppended, BytesNat
  <2>3. Distinct(t) /\ x \notin ToSet(t) /\ ToSet(tx) = ToSet(t) \cup {x}
    BY AppendedSet
  <2>4. W(tx) = IF x \in {k} THEN W(t) ELSE Append(W(t), x)
    BY WithoutAppended
  <2>5. W(t) \in Seq(Key) /\ ToSet(W(t)) = ToSet(t) \ {k} /\ (ToSet(t) \cap {k} = {} => W(t) = t)
    BY WithoutKeeps
  <2> HIDE DEF tx, W
  <2>6. CASE x = k
    <3>1. W(tx) = t
      BY <2>3, <2>4, <2>5, <2>6
    <3> QED BY <2>1, <2>2, <2>6, <3>1
  <2>7. CASE x # k
    <3>1. k \in ToSet(t)
      BY <2>3, <2>7
    <3>2. Drops(t)
      BY <1>2, <2>1, <2>3, <3>1
    <3>3. W(tx) = Append(W(t), x)
      BY <2>4, <2>7
    <3>4. Sized(W(t), size)
      BY <2>1, <2>5, SizedSet
    <3>5. Bytes(W(tx), size) = Bytes(W(t), size) + size[x] /\ Bytes(W(t), size) \in Nat
      BY <2>1, <2>5, <3>3, <3>4, BytesAppended, BytesNat
    <3>6. size[k] \in Nat
      BY <2>1, <3>1, SizedSet
    <3> DEFINE a == Bytes(tx, size)
               b == Bytes(t, size)
               c == Bytes(W(t), size)
               d == Bytes(W(tx), size)
    <3>7. a = b + size[x] /\ b = size[k] + c /\ d = c + size[x] /\ b \in Nat /\ c \in Nat
      BY <2>2, <3>2, <3>5
    <3> HIDE DEF a, b, c, d
    <3>8. a = size[k] + d
      BY <2>1, <3>6, <3>7
    <3> QED BY <3>8 DEF a, d
  <2> QED BY <2>6, <2>7
<1>3. s \in G
  <2> HIDE DEF G
  <2> QED BY <1>1, <1>2, SeqInduction
<1> QED BY <1>3

-----------------------------------------------------------------------------
(* The store                                                               *)

Frame == [session : Session, seq : Nat, tick : Nat, size : Nat]
Maps == UNION {[K -> Frame] : K \in SUBSET Key}
StoreType == [used : Nat, entries : Maps, order : Seq(Key)]

\* Counter, map and order of a store agree.
Balanced(s) ==
  /\ s \in StoreType
  /\ Distinct(s.order)
  /\ ToSet(s.order) = DOMAIN s.entries
  /\ s.used = Bytes(s.order, SizeOf(s.entries))

\* A part of a map is a map, and its frames have sizes.
LEMMA MapPart ==
  ASSUME NEW e \in Maps, NEW D
  PROVE  /\ [k \in DOMAIN e \ D |-> e[k]] \in Maps
         /\ DOMAIN e \in SUBSET Key
         /\ DOMAIN SizeOf(e) = DOMAIN e
         /\ \A k \in DOMAIN e : e[k] \in Frame /\ SizeOf(e)[k] = e[k].size /\ e[k].size \in Nat
<1>1. PICK K \in SUBSET Key : e \in [K -> Frame]
  BY DEF Maps
<1>2. [k \in DOMAIN e \ D |-> e[k]] \in [K \ D -> Frame]
  BY <1>1
<1>3. [k \in DOMAIN e \ D |-> e[k]] \in Maps
  BY <1>2 DEF Maps
<1>4. \A k \in DOMAIN e : e[k] \in Frame /\ SizeOf(e)[k] = e[k].size
  BY <1>1 DEF SizeOf
<1>5. DOMAIN SizeOf(e) = DOMAIN e
  BY DEF SizeOf
<1> QED BY <1>1, <1>3, <1>4, <1>5 DEF Frame

\* The keys of a balanced store have sizes.
LEMMA BalancedSized ==
  ASSUME NEW s, Balanced(s)
  PROVE  /\ Sized(s.order, SizeOf(s.entries))
         /\ s.order \in Seq(Key) /\ s.entries \in Maps /\ s.used \in Nat
         /\ DOMAIN s.entries \in SUBSET Key
         /\ \A k \in DOMAIN s.entries : /\ s.entries[k] \in Frame
                                        /\ SizeOf(s.entries)[k] = s.entries[k].size
                                        /\ s.entries[k].size \in Nat
<1>1. s.order \in Seq(Key) /\ s.entries \in Maps /\ s.used \in Nat
  BY DEF Balanced, StoreType
<1>2. /\ DOMAIN s.entries \in SUBSET Key
      /\ \A k \in DOMAIN s.entries : /\ s.entries[k] \in Frame
                                     /\ SizeOf(s.entries)[k] = s.entries[k].size
                                     /\ s.entries[k].size \in Nat
  BY <1>1, MapPart
<1>3. \A k \in ToSet(s.order) : SizeOf(s.entries)[k] \in Nat
  BY <1>2 DEF Balanced
<1> QED BY <1>1, <1>2, <1>3, SizedSet

\* A held key leaves the map, the order and, with its size, the counter.
LEMMA Shrunk ==
  ASSUME NEW s, Balanced(s), NEW key \in DOMAIN s.entries,
         NEW w \in Seq(Key), Distinct(w), ToSet(w) = DOMAIN s.entries \ {key},
         Bytes(s.order, SizeOf(s.entries))
           = SizeOf(s.entries)[key] + Bytes(w, SizeOf(s.entries))
  PROVE  Balanced([used |-> Monus(s.used, s.entries[key].size),
                   entries |-> [k \in DOMAIN s.entries \ {key} |-> s.entries[k]],
                   order |-> w])
<1> DEFINE rest == [k \in DOMAIN s.entries \ {key} |-> s.entries[k]]
           r == [used |-> Monus(s.used, s.entries[key].size), entries |-> rest, order |-> w]
<1>1. /\ s.order \in Seq(Key) /\ s.entries \in Maps /\ s.used \in Nat
      /\ Sized(s.order, SizeOf(s.entries)) /\ ToSet(s.order) = DOMAIN s.entries
      /\ s.used = Bytes(s.order, SizeOf(s.entries)) /\ Distinct(s.order)
  BY BalancedSized DEF Balanced
<1>2. SizeOf(s.entries)[key] = s.entries[key].size /\ s.entries[key].size \in Nat
  BY <1>1, MapPart
<1>3. rest \in Maps /\ DOMAIN rest = DOMAIN s.entries \ {key}
  BY <1>1, MapPart
<1>4. \A k \in ToSet(w) : SizeOf(s.entries)[k] = SizeOf(rest)[k] /\ SizeOf(s.entries)[k] \in Nat
  <2> SUFFICES ASSUME NEW k \in ToSet(w)
               PROVE  SizeOf(s.entries)[k] = SizeOf(rest)[k] /\ SizeOf(s.entries)[k] \in Nat
    OBVIOUS
  <2>1. k \in DOMAIN s.entries /\ k \in DOMAIN rest
    BY <1>3
  <2>2. SizeOf(s.entries)[k] = s.entries[k].size /\ s.entries[k].size \in Nat
    BY <1>1, <2>1, MapPart
  <2>3. rest[k] = s.entries[k]
    BY <2>1
  <2> HIDE DEF rest
  <2>4. SizeOf(rest)[k] = rest[k].size
    BY <2>1 DEF SizeOf
  <2> QED BY <2>2, <2>3, <2>4
<1> DEFINE y == SizeOf(s.entries)
           z == SizeOf(rest)
<1>5. Sized(w, y) /\ \A k \in ToSet(w) : y[k] = z[k]
  BY <1>4, SizedSet
<1>6. Bytes(w, z) = Bytes(w, y) /\ Bytes(w, y) \in Nat
  <2> HIDE DEF y, z
  <2>1. Bytes(w, z) = Bytes(w, y)
    BY <1>5, BytesAgree
  <2> QED BY <1>5, <2>1, BytesNat
<1>7. Monus(s.used, s.entries[key].size) = Bytes(w, z)
  <2> DEFINE a == Bytes(w, y)
  <2>1. a \in Nat /\ s.used = s.entries[key].size + a /\ Bytes(w, z) = a
    BY <1>1, <1>2, <1>6
  <2> HIDE DEF a, z
  <2> QED BY <1>2, <2>1 DEF Monus
<1>8. Bytes(w, z) \in Nat
  BY <1>6
<1>9. /\ r.order = w /\ r.entries = rest /\ r.used = Bytes(w, z) /\ r \in StoreType
  <2> HIDE DEF rest, z
  <2> QED BY <1>3, <1>7, <1>8 DEF StoreType
<1> HIDE DEF r, rest
<1>10. Balanced(r)
  BY <1>3, <1>9 DEF Balanced
<1> QED BY <1>10 DEF r, rest

\* remove_existing takes a key out of all three books.
LEMMA RemoveBalanced ==
  ASSUME NEW s, Balanced(s), NEW key
  PROVE  LET r == RemoveExisting(s, key)
         IN  /\ Balanced(r)
             /\ r.order = Without(s.order, {key})
             /\ r.entries = [k \in DOMAIN s.entries \ {key} |-> s.entries[k]]
<1> DEFINE r == RemoveExisting(s, key)
           w == Without(s.order, {key})
           rest == [k \in DOMAIN s.entries \ {key} |-> s.entries[k]]
<1>1. /\ s.order \in Seq(Key) /\ s.entries \in Maps
      /\ Sized(s.order, SizeOf(s.entries)) /\ ToSet(s.order) = DOMAIN s.entries
      /\ Distinct(s.order)
  BY BalancedSized DEF Balanced
<1>2. /\ w \in Seq(Key) /\ ToSet(w) = ToSet(s.order) \ {key} /\ Distinct(w)
      /\ (ToSet(s.order) \cap {key} = {} => w = s.order)
  BY <1>1, WithoutKeeps
<1>3. CASE key \notin DOMAIN s.entries
  <2>1. r = s
    BY <1>3 DEF RemoveExisting
  <2>2. w = s.order
    BY <1>1, <1>2, <1>3
  <2>3. rest = s.entries
    <3>1. DOMAIN s.entries \ {key} = DOMAIN s.entries
      BY <1>3
    <3>2. s.entries = [k \in DOMAIN s.entries |-> s.entries[k]]
      BY <1>1 DEF Maps
    <3> QED BY <3>1, <3>2
  <2> HIDE DEF r, w, rest
  <2>4. Balanced(r) /\ r.order = w /\ r.entries = rest
    BY <2>1, <2>2, <2>3
  <2> QED BY <2>4 DEF r, w, rest
<1>4. CASE key \in DOMAIN s.entries
  <2>1. r = [used |-> Monus(s.used, s.entries[key].size), entries |-> rest, order |-> w]
    BY <1>4 DEF RemoveExisting
  <2>2. Bytes(s.order, SizeOf(s.entries)) = SizeOf(s.entries)[key] + Bytes(w, SizeOf(s.entries))
    BY <1>1, <1>4, BytesWithout
  <2>3. r.order = w /\ r.entries = rest
    <3> HIDE DEF r, w, rest
    <3> QED BY <2>1
  <2>4. Balanced([used |-> Monus(s.used, s.entries[key].size), entries |-> rest, order |-> w])
    <3> HIDE DEF w
    <3> QED BY <1>1, <1>2, <1>4, <2>2, Shrunk
  <2> HIDE DEF r, w, rest
  <2>5. Balanced(r) /\ r.order = w /\ r.entries = rest
    BY <2>1, <2>3, <2>4
  <2> QED BY <2>5 DEF r, w, rest
<1> QED BY <1>3, <1>4

\* The first key of a sequence without repetitions, and the others.
LEMMA Shortened ==
  ASSUME NEW s \in Seq(Key), s # <<>>, Distinct(s)
  PROVE  /\ Head(s) \in ToSet(s) /\ Tail(s) \in Seq(Key) /\ Distinct(Tail(s))
         /\ ToSet(Tail(s)) = ToSet(s) \ {Head(s)}
<1> DEFINE t == Tail(s)
           n == Len(s)
<1>1. /\ n \in Nat \ {0} /\ t \in Seq(Key) /\ Len(t) = n - 1 /\ Head(s) = s[1]
      /\ \A i \in 1 .. (n - 1) : t[i] = s[i + 1]
      /\ DOMAIN s = 1 .. n /\ DOMAIN t = 1 .. (n - 1)
  OBVIOUS
<1> HIDE DEF t, n
<1>2. /\ 1 \in 1 .. n
      /\ \A i \in 1 .. (n - 1) : i \in 1 .. n /\ i + 1 \in 1 .. n /\ i + 1 # 1
      /\ \A i \in 1 .. n : i = 1 \/ (i - 1 \in 1 .. (n - 1) /\ (i - 1) + 1 = i)
      /\ \A i, j \in 1 .. (n - 1) : i + 1 = j + 1 => i = j
  BY <1>1
<1>3. Head(s) \in ToSet(s)
  BY <1>1, <1>2 DEF ToSet
<1>4. Distinct(t)
  <2> SUFFICES ASSUME NEW i \in 1 .. (n - 1), NEW j \in 1 .. (n - 1), t[i] = t[j]
               PROVE  i = j
    BY <1>1 DEF Distinct
  <2>1. s[i + 1] = s[j + 1] /\ i + 1 \in 1 .. n /\ j + 1 \in 1 .. n
    BY <1>1, <1>2
  <2>2. i + 1 = j + 1
    BY <1>1, <2>1 DEF Distinct
  <2> QED BY <1>2, <2>2
<1>5. ToSet(t) \subseteq ToSet(s) \ {Head(s)}
  BY <1>1, <1>2 DEF ToSet, Distinct
<1>6. ToSet(s) \ {Head(s)} \subseteq ToSet(t)
  <2> SUFFICES ASSUME NEW i \in 1 .. n, s[i] # s[1] PROVE s[i] \in ToSet(t)
    BY <1>1 DEF ToSet
  <2>1. i - 1 \in 1 .. (n - 1) /\ (i - 1) + 1 = i
    BY <1>2
  <2>2. t[i - 1] = s[i]
    BY <1>1, <2>1
  <2> QED BY <1>1, <2>1, <2>2 DEF ToSet
<1> QED BY <1>1, <1>3, <1>4, <1>5, <1>6 DEF t

\* A store, and the keys reported as gone from it.
Machine == {m \in [s : StoreType, evicted : SUBSET Key] : Balanced(m.s)}

\* One turn of evict_oldest: the oldest key leaves, and is reported.
LEMMA EvictBalanced ==
  ASSUME NEW m \in Machine, m.s.order # <<>>
  PROVE  LET n == EvictOldest(m)
         IN  /\ n \in Machine
             /\ n.s.order = Tail(m.s.order)
             /\ n.s.entries = [k \in DOMAIN m.s.entries \ {Head(m.s.order)} |-> m.s.entries[k]]
             /\ n.evicted = m.evicted \cup {Head(m.s.order)}
<1> DEFINE s == m.s
           key == Head(s.order)
           w == Tail(s.order)
           rest == [k \in DOMAIN s.entries \ {key} |-> s.entries[k]]
           popped == [s EXCEPT !.order = Tail(@)]
           r == RemoveExisting(popped, key)
           n == EvictOldest(m)
<1>1. /\ Balanced(s) /\ s.order \in Seq(Key) /\ s.order # <<>> /\ Distinct(s.order)
      /\ Sized(s.order, SizeOf(s.entries)) /\ ToSet(s.order) = DOMAIN s.entries
      /\ DOMAIN s.entries \in SUBSET Key /\ m.evicted \in SUBSET Key /\ s \in StoreType
  <2>1. Balanced(s) /\ m.evicted \in SUBSET Key /\ s.order # <<>>
    BY DEF Machine
  <2> HIDE DEF s
  <2> QED BY <2>1, BalancedSized DEF Balanced
<1>2. n.s = r /\ n.evicted = m.evicted \cup (DOMAIN s.entries \cap {key})
      /\ n = [s |-> n.s, evicted |-> n.evicted]
  BY DEF EvictOldest
<1> HIDE DEF s, n
<1>3. key \in DOMAIN s.entries /\ w \in Seq(Key) /\ Distinct(w)
      /\ ToSet(w) = DOMAIN s.entries \ {key}
  BY <1>1, Shortened
<1>4. Without(w, {key}) = w
  <2>1. ToSet(w) \cap {key} = {}
    BY <1>3
  <2> HIDE DEF w, key
  <2> QED BY <1>3, <2>1, WithoutKeeps
<1>5. popped.used = s.used /\ popped.entries = s.entries /\ popped.order = w
  BY <1>1 DEF StoreType
<1>6. r = [used |-> Monus(s.used, s.entries[key].size), entries |-> rest, order |-> w]
  <2> HIDE DEF popped, w, key
  <2> QED BY <1>3, <1>4, <1>5 DEF RemoveExisting
<1>7. Bytes(s.order, SizeOf(s.entries)) = SizeOf(s.entries)[key] + Bytes(w, SizeOf(s.entries))
  BY <1>1, BytesTail
<1>8. Balanced([used |-> Monus(s.used, s.entries[key].size), entries |-> rest, order |-> w])
  <2> HIDE DEF w, key
  <2> QED BY <1>1, <1>3, <1>7, Shrunk
<1> HIDE DEF r, rest, w, key
<1>9. Balanced(r) /\ r.order = w /\ r.entries = rest
  BY <1>6, <1>8
<1>10. r \in StoreType
  BY <1>9 DEF Balanced
<1>11. n.evicted = m.evicted \cup {key} /\ n.evicted \in SUBSET Key
  BY <1>1, <1>2, <1>3
<1>12. n \in Machine
  <2>1. n \in [s : StoreType, evicted : SUBSET Key]
    BY <1>2, <1>10, <1>11
  <2> QED BY <1>2, <1>9, <2>1 DEF Machine
<1> QED BY <1>2, <1>9, <1>11, <1>12 DEF w, key, rest, s, n

-----------------------------------------------------------------------------
(* Making room                                                             *)

\* One turn of the loop of insert.
Turn(m, bytes) == IF m.s.used + bytes > MaxBytes THEN EvictOldest(m) ELSE m

\* g holds the machine after the first i turns.
Turns(m, bytes, g) ==
  /\ g[0] = m
  /\ \A i \in 1 .. Len(m.s.order) : g[i] = Turn(g[i - 1], bytes)
  /\ \A i \in 0 .. Len(m.s.order) : g[i] \in Machine
  /\ MakeRoom(m, bytes) = g[Len(m.s.order)]

\* A store over its bound has a key to let go of.
LEMMA TurnTypes ==
  ASSUME NEW m \in Machine, NEW bytes \in 0 .. MaxBytes
  PROVE  /\ m.s.used + bytes > MaxBytes => m.s.order # <<>>
         /\ Turn(m, bytes) \in Machine
<1>1. MaxBytes \in Nat /\ Balanced(m.s)
  BY StoreAssumption DEF Machine
<1>2. m.s.order = <<>> => m.s.used = 0
  <2>1. m.s.used = Bytes(m.s.order, SizeOf(m.s.entries))
    BY <1>1 DEF Balanced
  <2> QED BY <2>1, BytesNone
<1>3. m.s.used + bytes > MaxBytes => m.s.order # <<>>
  BY <1>1, <1>2
<1>4. m.s.order # <<>> => EvictOldest(m) \in Machine
  BY EvictBalanced
<1> QED BY <1>3, <1>4 DEF Turn

\* The loop of insert has a machine after each of its turns.
LEMMA Turned ==
  ASSUME NEW m \in Machine, NEW bytes \in 0 .. MaxBytes
  PROVE  \E g : Turns(m, bytes, g)
<1> DEFINE s == m.s.order
           n == Len(s)
           Turn1(x, k) == IF x.s.used + bytes > MaxBytes THEN EvictOldest(x) ELSE x
           Folded(iter) ==
             iter = [T \in SUBSET DOMAIN s |->
                       IF T = {} THEN m ELSE Turn1(iter[T \ {Max(T)}], s[Max(T)])]
           c == CHOOSE iter : Folded(iter)
<1>1. MakeRoom(m, bytes) = c[DOMAIN s]
  BY DEF MakeRoom, FoldLeft, MapThenFoldSet
<1>2. n \in Nat /\ DOMAIN s = 1 .. n
  <2>1. s \in Seq(Key)
    BY DEF Machine, StoreType
  <2> HIDE DEF s
  <2> QED BY <2>1
<1>3. \A x, k : Turn1(x, k) = Turn(x, bytes)
  BY DEF Turn
<1>4. \A x \in Machine : \A k : Turn1(x, k) \in Machine
  <2> HIDE DEF Turn1
  <2> QED BY <1>3, TurnTypes
<1> HIDE DEF Turn1, s
<1>5. \E iter : iter \in [SUBSET DOMAIN s -> Machine] /\ Folded(iter)
  <2> DEFINE A == Machine
             f == [i \in 1 .. n |-> [x \in A |-> Turn1(x, s[i])]]
  <2>1. f \in [1 .. n -> [A -> A]]
    BY <1>4
  <2>2. m \in A
    OBVIOUS
  <2> HIDE DEF f, n, A
  <2>3. PICK iter : FoldsUp(A, m, n, f, iter)
    BY <1>2, <2>1, <2>2, FoldExists, Zenon
  <2> USE DEF f, FoldsUp
  <2>4. ASSUME NEW T \in SUBSET (1 .. n), T # {}
        PROVE  iter[T] = Turn1(iter[T \ {Max(T)}], s[Max(T)])
    <3>1. Max(T) \in 1 .. n
      BY <1>2, <2>4, MaxAmong
    <3>2. iter[T \ {Max(T)}] \in A
      BY <2>3
    <3> QED BY <2>3, <2>4, <3>1, <3>2
  <2>5. iter = [T \in SUBSET (1 .. n) |->
                  IF T = {} THEN m ELSE Turn1(iter[T \ {Max(T)}], s[Max(T)])]
    BY <2>3, <2>4
  <2>6. iter \in [SUBSET (1 .. n) -> A]
    BY <2>3
  <2> QED BY <1>2, <2>5, <2>6 DEF A
<1>6. Folded(c)
  <2> HIDE DEF Folded
  <2> QED BY <1>5, Zenon
<1> HIDE DEF c
<1> DEFINE g == [i \in 0 .. n |-> c[1 .. i]]
<1>7. g[0] = m
  <2>1. 1 .. 0 = {} /\ {} \in SUBSET (1 .. n) /\ 0 \in 0 .. n
    BY <1>2
  <2> QED BY <1>2, <1>6, <2>1
<1>8. ASSUME NEW i \in 1 .. n PROVE g[i] = Turn(g[i - 1], bytes)
  <2> DEFINE j == i - 1
             T == 1 .. i
  <2>1. j \in Nat /\ j + 1 = i /\ j + 1 <= n /\ i \in 0 .. n /\ j \in 0 .. n
    BY <1>2
  <2>2. T \in SUBSET (1 .. n) /\ T # {} /\ Max(T) = i /\ T \ {i} = 1 .. j
    <3> HIDE DEF j
    <3> QED BY <1>2, <2>1, UpTo
  <2> HIDE DEF T, n
  <2>3. c[T] = Turn1(c[T \ {Max(T)}], s[Max(T)])
    BY <1>2, <1>6, <2>2
  <2>4. g[i] = Turn1(g[j], s[i])
    BY <2>1, <2>2, <2>3 DEF T
  <2> QED BY <1>3, <2>4
<1>9. MakeRoom(m, bytes) = g[n]
  BY <1>1, <1>2
<1> HIDE DEF g
<1>10. \A i \in 0 .. n : g[i] \in Machine
  <2> DEFINE Good == {i \in Nat : i <= n => g[i] \in Machine}
  <2>1. 0 \in Good
    BY <1>7
  <2>2. ASSUME NEW i \in Nat, i \in Good PROVE i + 1 \in Good
    <3> SUFFICES ASSUME i + 1 <= n PROVE g[i + 1] \in Machine
      OBVIOUS
    <3>1. i + 1 \in 1 .. n /\ (i + 1) - 1 = i /\ g[i] \in Machine
      BY <1>2, <2>2
    <3>2. g[i + 1] = Turn(g[i], bytes)
      BY <1>8, <3>1
    <3> QED BY <3>1, <3>2, TurnTypes
  <2>3. Nat \subseteq Good
    <3> HIDE DEF Good
    <3> QED BY <2>1, <2>2, Induction
  <2> QED BY <1>2, <2>3
<1>11. Turns(m, bytes, g)
  <2> HIDE DEF n
  <2>1. \A i \in 1 .. n : g[i] = Turn(g[i - 1], bytes)
    BY <1>8
  <2> QED BY <1>7, <1>9, <1>10, <2>1 DEF Turns, n, s
<1> QED BY <1>11, Zenon

Rest(s, n) == SubSeq(s, n + 1, Len(s))

\* How many of the oldest keys may go for the others to leave this room.
RoomFor(m, bytes) ==
  {n \in 0 .. Len(m.s.order) :
     Bytes(Rest(m.s.order, n), SizeOf(m.s.entries)) + bytes <= MaxBytes}

\* x is what is left of m when its n oldest keys are gone.
Left(m, x, n) ==
  /\ x \in Machine /\ n \in 0 .. Len(m.s.order)
  /\ x.s.order = Rest(m.s.order, n)
  /\ x.s.entries = [k \in ToSet(x.s.order) |-> m.s.entries[k]]
  /\ x.evicted = m.evicted \cup (DOMAIN m.s.entries \ ToSet(x.s.order))

\* Letting the oldest key go, one after the other.
LEMMA RestSteps ==
  ASSUME NEW s \in Seq(Key), NEW n \in 0 .. Len(s)
  PROVE  /\ Rest(s, n) \in Seq(Key)
         /\ Rest(s, 0) = s
         /\ Rest(s, n) # <<>> <=> n < Len(s)
         /\ n < Len(s) => Rest(s, n + 1) = Tail(Rest(s, n))
<1>1. Rest(s, n) \in Seq(Key) /\ Len(Rest(s, n)) = Len(s) - n /\ Len(s) \in Nat
      /\ \A i \in 1 .. (Len(s) - n) : Rest(s, n)[i] = s[i + n]
  BY DEF Rest
<1>2. Rest(s, 0) = s
  BY DEF Rest
<1>3. Rest(s, n) # <<>> <=> n < Len(s)
  <2> DEFINE r == Rest(s, n)
  <2>1. r \in Seq(Key) /\ Len(r) = Len(s) - n
    BY <1>1
  <2> HIDE DEF r
  <2>2. r = <<>> <=> Len(r) = 0
    BY <2>1
  <2>3. r # <<>> <=> n < Len(s)
    BY <1>1, <2>1, <2>2
  <2> QED BY <2>3 DEF r
<1>4. ASSUME n < Len(s) PROVE Rest(s, n + 1) = Tail(Rest(s, n))
  <2>1. n + 1 \in 0 .. Len(s) /\ Len(s) - (n + 1) = (Len(s) - n) - 1
    BY <1>1, <1>4
  <2>2. /\ Rest(s, n + 1) \in Seq(Key) /\ Len(Rest(s, n + 1)) = (Len(s) - n) - 1
        /\ \A i \in 1 .. ((Len(s) - n) - 1) : Rest(s, n + 1)[i] = s[i + (n + 1)]
    BY <2>1 DEF Rest
  <2> DEFINE r == Rest(s, n)
             t == Tail(r)
             q == Rest(s, n + 1)
             l == Len(s) - n
  <2>3. r \in Seq(Key) /\ r # <<>> /\ Len(r) = l /\ l \in Nat \ {0}
    BY <1>1, <1>3, <1>4
  <2>4. t \in Seq(Key) /\ Len(t) = l - 1 /\ \A i \in 1 .. (l - 1) : t[i] = r[i + 1]
    <3> HIDE DEF r, l
    <3> QED BY <2>3
  <2>5. \A i \in 1 .. (l - 1) : q[i] = t[i]
    <3> SUFFICES ASSUME NEW i \in 1 .. (l - 1) PROVE q[i] = t[i]
      OBVIOUS
    <3>1. i + 1 \in 1 .. l /\ (i + 1) + n = i + (n + 1)
      BY <2>3
    <3>2. r[i + 1] = s[(i + 1) + n]
      BY <1>1, <3>1
    <3> QED BY <2>2, <2>4, <3>1, <3>2
  <2>6. q \in Seq(Key) /\ Len(q) = l - 1
    BY <2>2
  <2> HIDE DEF q, t, l
  <2>7. q = t
    BY <2>3, <2>4, <2>5, <2>6
  <2> QED BY <2>7 DEF q, t
<1> QED BY <1>1, <1>2, <1>3, <1>4

\* What is left of an order is part of it.
LEMMA RestPart ==
  ASSUME NEW s \in Seq(Key), NEW n \in 0 .. Len(s)
  PROVE  Rest(s, n) \in Seq(Key) /\ ToSet(Rest(s, n)) \subseteq ToSet(s)
<1> DEFINE r == Rest(s, n)
<1>1. /\ r \in Seq(Key)
      /\ \A i \in DOMAIN r : r[i] = s[i + n] /\ i + n \in DOMAIN s
  BY DEF Rest
<1> HIDE DEF r
<1>2. \A i \in DOMAIN r : r[i] \in ToSet(s)
  BY <1>1 DEF ToSet
<1>3. ToSet(r) \subseteq ToSet(s)
  BY <1>2 DEF ToSet
<1> QED BY <1>1, <1>3 DEF r

\* The counter of what is left counts the keys that are left.
LEMMA LeftFits ==
  ASSUME NEW m \in Machine, NEW x, NEW n, Left(m, x, n), NEW bytes
  PROVE  n \in RoomFor(m, bytes) <=> x.s.used + bytes <= MaxBytes
<1> DEFINE s == x.s.order
           y == SizeOf(x.s.entries)
           z == SizeOf(m.s.entries)
<1>1. /\ Balanced(x.s) /\ Balanced(m.s) /\ n \in 0 .. Len(m.s.order)
      /\ s = Rest(m.s.order, n) /\ x.s.used = Bytes(s, y)
  BY DEF Left, Machine, Balanced
<1>2. s \in Seq(Key) /\ Sized(s, y)
  BY <1>1, BalancedSized
<1>3. ToSet(s) \subseteq DOMAIN m.s.entries
  <2>1. ToSet(m.s.order) = DOMAIN m.s.entries /\ m.s.order \in Seq(Key)
    BY <1>1, BalancedSized DEF Balanced
  <2> DEFINE o == m.s.order
  <2>2. o \in Seq(Key) /\ n \in 0 .. Len(o) /\ s = Rest(o, n)
    BY <1>1, <2>1
  <2>3. ToSet(s) \subseteq ToSet(o)
    <3> HIDE DEF o, s
    <3> QED BY <2>2, RestPart
  <2> QED BY <2>1, <2>3
<1>4. \A k \in ToSet(s) : y[k] = z[k]
  <2> SUFFICES ASSUME NEW k \in ToSet(s) PROVE y[k] = z[k]
    OBVIOUS
  <2>1. k \in DOMAIN m.s.entries /\ k \in DOMAIN x.s.entries
    BY <1>1, <1>3 DEF Balanced
  <2>2. x.s.entries[k] = m.s.entries[k]
    BY DEF Left
  <2> QED BY <2>1, <2>2 DEF SizeOf
<1>5. Bytes(s, z) = Bytes(s, y)
  <2> HIDE DEF s, y, z
  <2> QED BY <1>2, <1>4, BytesAgree
<1> QED BY <1>1, <1>5 DEF RoomFor

\* Letting go of the oldest key of what is left.
LEMMA LeftEvict ==
  ASSUME NEW m \in Machine, NEW x, NEW n, Left(m, x, n), x.s.order # <<>>
  PROVE  n < Len(m.s.order) /\ Left(m, EvictOldest(x), n + 1)
<1> DEFINE o == m.s.order
           s == x.s.order
           y == EvictOldest(x)
<1>1. /\ x \in Machine /\ n \in 0 .. Len(o) /\ s = Rest(o, n) /\ s # <<>>
      /\ x.s.entries = [k \in ToSet(s) |-> m.s.entries[k]]
      /\ x.evicted = m.evicted \cup (DOMAIN m.s.entries \ ToSet(s))
  BY DEF Left
<1>2. o \in Seq(Key) /\ s \in Seq(Key) /\ Distinct(s) /\ ToSet(o) = DOMAIN m.s.entries
  BY <1>1 DEF Machine, Balanced, StoreType
<1>3. /\ y \in Machine /\ y.s.order = Tail(s) /\ y.evicted = x.evicted \cup {Head(s)}
      /\ y.s.entries = [k \in DOMAIN x.s.entries \ {Head(s)} |-> x.s.entries[k]]
  BY <1>1, EvictBalanced
<1> HIDE DEF o, s, y
<1>4. Head(s) \in ToSet(s) /\ ToSet(Tail(s)) = ToSet(s) \ {Head(s)}
  BY <1>1, <1>2, Shortened
<1>5. n < Len(o) /\ n + 1 \in 0 .. Len(o) /\ Rest(o, n + 1) = Tail(s)
  <2>1. n < Len(o) /\ Rest(o, n + 1) = Tail(s)
    BY <1>1, <1>2, RestSteps
  <2> QED BY <1>1, <1>2, <2>1
<1>6. Head(s) \in DOMAIN m.s.entries
  <2>1. ToSet(s) \subseteq ToSet(o)
    BY <1>1, <1>2, RestPart
  <2> QED BY <1>2, <1>4, <2>1
<1>7. y.s.entries = [k \in ToSet(y.s.order) |-> m.s.entries[k]]
  BY <1>1, <1>3, <1>4
<1>8. y.evicted = m.evicted \cup (DOMAIN m.s.entries \ ToSet(y.s.order))
  BY <1>1, <1>3, <1>4, <1>6
<1>9. y \in Machine /\ n + 1 \in 0 .. Len(o) /\ y.s.order = Rest(o, n + 1)
  BY <1>3, <1>5
<1>10. Left(m, y, n + 1)
  BY <1>7, <1>8, <1>9 DEF Left, o
<1> QED BY <1>5, <1>10 DEF o, y

\* As many of the oldest keys have gone as needed, and not one more.
RoomAt(m, bytes, x, n) ==
  /\ Left(m, x, n)
  /\ \A j \in RoomFor(m, bytes) : n <= j

\* The loop of insert stops at the first store the new frame fits into.
LEMMA RoomMade ==
  ASSUME NEW m \in Machine, NEW bytes \in 0 .. MaxBytes
  PROVE  \E n \in RoomFor(m, bytes) : RoomAt(m, bytes, MakeRoom(m, bytes), n)
<1> DEFINE R == RoomFor(m, bytes)
           o == m.s.order
<1>1. PICK g : Turns(m, bytes, g)
  BY Turned
<1>2. /\ MaxBytes \in Nat /\ bytes \in Nat /\ o \in Seq(Key) /\ Len(o) \in Nat
      /\ ToSet(o) = DOMAIN m.s.entries /\ m.s.entries \in Maps /\ m.evicted \in SUBSET Key
  BY StoreAssumption DEF Machine, Balanced, StoreType
<1>3. R \subseteq 0 .. Len(o)
  BY DEF RoomFor
<1> DEFINE Reached(i, n) == /\ n <= i /\ RoomAt(m, bytes, g[i], n)
                            /\ n = i \/ n \in R
           Good == {i \in Nat : i <= Len(o) => \E n \in Nat : Reached(i, n)}
<1>4. 0 \in Good
  <2>1. g[0] = m
    BY <1>1 DEF Turns
  <2>2. Left(m, m, 0)
    <3>1. 0 \in 0 .. Len(o) /\ o = Rest(o, 0)
      BY <1>2, RestSteps
    <3>2. m.s.entries = [k \in ToSet(o) |-> m.s.entries[k]]
      BY <1>2 DEF Maps
    <3>3. m.evicted = m.evicted \cup (DOMAIN m.s.entries \ ToSet(o))
      BY <1>2
    <3> QED BY <3>1, <3>2, <3>3 DEF Left
  <2>3. \A j \in R : 0 <= j
    BY <1>3
  <2>4. Reached(0, 0)
    BY <2>1, <2>2, <2>3 DEF RoomAt
  <2> QED BY <2>4
<1>5. ASSUME NEW i \in Nat, i \in Good PROVE i + 1 \in Good
  <2> SUFFICES ASSUME i + 1 <= Len(o) PROVE \E n \in Nat : Reached(i + 1, n)
    OBVIOUS
  <2>1. i + 1 \in 1 .. Len(o) /\ i \in 0 .. Len(o) /\ (i + 1) - 1 = i
    BY <1>2
  <2>2. g[i + 1] = Turn(g[i], bytes) /\ g[i] \in Machine
    BY <1>1, <2>1 DEF Turns
  <2>3. PICK n \in Nat : Reached(i, n)
    BY <1>2, <1>5
  <2>4. Left(m, g[i], n)
    BY <2>3 DEF RoomAt
  <2>5. n \in R <=> g[i].s.used + bytes <= MaxBytes
    BY <2>4, LeftFits
  <2>6. g[i].s.used \in Nat
    BY <2>2 DEF Machine, StoreType
  <2>7. CASE g[i].s.used + bytes > MaxBytes
    <3>1. g[i + 1] = EvictOldest(g[i]) /\ g[i].s.order # <<>>
      BY <2>2, <2>7, TurnTypes DEF Turn
    <3>2. Left(m, g[i + 1], n + 1)
      BY <2>4, <3>1, LeftEvict
    <3>3. n \notin R
      BY <1>2, <2>5, <2>6, <2>7
    <3>4. n = i
      BY <2>3, <3>3
    <3>5. \A j \in R : n + 1 <= j
      BY <1>3, <2>3, <3>3 DEF RoomAt
    <3>6. Reached(i + 1, n + 1)
      BY <3>2, <3>4, <3>5 DEF RoomAt
    <3> HIDE DEF Reached
    <3> QED BY <3>6
  <2>8. CASE ~(g[i].s.used + bytes > MaxBytes)
    <3>1. g[i + 1] = g[i]
      BY <2>2, <2>8 DEF Turn
    <3>2. n \in R
      BY <1>2, <2>5, <2>6, <2>8
    <3>3. Reached(i + 1, n)
      BY <2>3, <3>1, <3>2
    <3> HIDE DEF Reached
    <3> QED BY <3>3
  <2> QED BY <2>7, <2>8
<1>6. Len(o) \in Good
  <2> HIDE DEF Good
  <2> QED BY <1>2, <1>4, <1>5, Induction
<1>7. PICK n \in Nat : Reached(Len(o), n)
  BY <1>2, <1>6
<1>8. RoomAt(m, bytes, MakeRoom(m, bytes), n)
  BY <1>1, <1>7 DEF Turns
<1>9. Len(o) \in R
  <2>1. Rest(o, Len(o)) = <<>>
    BY <1>2, RestSteps
  <2>2. Bytes(Rest(o, Len(o)), SizeOf(m.s.entries)) = 0
    BY <2>1, BytesNone
  <2> HIDE DEF o
  <2> QED BY <1>2, <2>2 DEF RoomFor, o
<1>10. n \in R
  BY <1>7, <1>9
<1> QED BY <1>8, <1>10

-----------------------------------------------------------------------------
(* Storing a frame                                                         *)

\* What insert makes of a balanced store: n of the oldest other keys are gone.
Stored(s, key, frame, n, r, gone) ==
  /\ Balanced(r) /\ r.used <= MaxBytes
  /\ r.order = Append(Rest(Without(s.order, {key}), n), key)
  /\ r.entries = [k \in ToSet(r.order) |-> IF k = key THEN frame ELSE s.entries[k]]
  /\ key \in DOMAIN r.entries /\ DOMAIN r.entries \subseteq DOMAIN s.entries \cup {key}
  /\ (DOMAIN s.entries \ gone) \cup {key} = DOMAIN r.entries

\* The machine insert starts its loop with.
Cleared(s, key) == [s |-> RemoveExisting(s, key), evicted |-> DOMAIN s.entries \cap {key}]

\* The loop of insert starts without the key that is stored again.
LEMMA ClearedMachine ==
  ASSUME NEW s, Balanced(s), NEW key \in Key
  PROVE  /\ Cleared(s, key) \in Machine
         /\ Cleared(s, key).s.order = Without(s.order, {key})
         /\ Cleared(s, key).s.entries = [k \in DOMAIN s.entries \ {key} |-> s.entries[k]]
<1> DEFINE r == RemoveExisting(s, key)
<1>1. /\ Balanced(r) /\ r.order = Without(s.order, {key})
      /\ r.entries = [k \in DOMAIN s.entries \ {key} |-> s.entries[k]]
  BY RemoveBalanced
<1>2. r \in StoreType
  BY <1>1 DEF Balanced
<1> QED BY <1>1, <1>2 DEF Machine, Cleared

\* A frame with a new key joins a balanced store.
LEMMA Joined ==
  ASSUME NEW s, Balanced(s), NEW key \in Key, key \notin DOMAIN s.entries,
         NEW frame \in Frame
  PROVE  Balanced([used |-> s.used + frame.size,
                   entries |-> [k \in DOMAIN s.entries \cup {key} |->
                                  IF k = key THEN frame ELSE s.entries[k]],
                   order |-> Append(s.order, key)])
<1> DEFINE e == [k \in DOMAIN s.entries \cup {key} |-> IF k = key THEN frame ELSE s.entries[k]]
           o == s.order
           ok == Append(o, key)
           r == [used |-> s.used + frame.size, entries |-> e, order |-> ok]
           y == SizeOf(s.entries)
           z == SizeOf(e)
<1>1. /\ o \in Seq(Key) /\ Distinct(o) /\ ToSet(o) = DOMAIN s.entries /\ s.used \in Nat
      /\ s.used = Bytes(o, y) /\ Sized(o, y) /\ DOMAIN s.entries \in SUBSET Key
      /\ \A k \in DOMAIN s.entries : s.entries[k] \in Frame /\ y[k] = s.entries[k].size
  BY BalancedSized DEF Balanced
<1>2. ok \in Seq(Key) /\ ToSet(ok) = ToSet(o) \cup {key} /\ Distinct(ok)
  <2> HIDE DEF o
  <2> QED BY <1>1, AppendedSet
<1>3. e \in Maps /\ DOMAIN e = DOMAIN s.entries \cup {key}
  <2>1. e \in [DOMAIN s.entries \cup {key} -> Frame]
    BY <1>1
  <2>2. DOMAIN s.entries \cup {key} \in SUBSET Key
    BY <1>1
  <2> HIDE DEF e
  <2> QED BY <2>1, <2>2 DEF Maps
<1>4. \A k \in ToSet(o) : y[k] = z[k]
  <2> SUFFICES ASSUME NEW k \in ToSet(o) PROVE y[k] = z[k]
    OBVIOUS
  <2>1. k \in DOMAIN e /\ e[k] = s.entries[k]
    BY <1>1
  <2>2. z[k] = e[k].size
    <3> HIDE DEF e
    <3> QED BY <2>1 DEF SizeOf
  <2> QED BY <1>1, <2>1, <2>2
<1>5. z[key] = frame.size /\ frame.size \in Nat
  BY DEF SizeOf, Frame
<1> HIDE DEF e, y, z, o
<1>6. Sized(o, z) /\ Bytes(o, z) = Bytes(o, y)
  BY <1>1, <1>4, BytesAgree
<1>7. Bytes(ok, z) = Bytes(o, z) + z[key]
  BY <1>1, <1>5, <1>6, BytesAppended
<1>8. r.used = Bytes(ok, z) /\ r.used \in Nat
  BY <1>1, <1>5, <1>6, <1>7
<1>9. r \in StoreType
  BY <1>2, <1>3, <1>8 DEF StoreType
<1>10. r.order = ok /\ r.entries = e
  OBVIOUS
<1> HIDE DEF r, ok
<1>11. Balanced(r)
  BY <1>1, <1>2, <1>3, <1>8, <1>9, <1>10 DEF Balanced, z
<1> QED BY <1>11 DEF r, e, o, ok

\* insert lets go of as few of the oldest frames as make room.
LEMMA InsertStores ==
  ASSUME NEW key \in Key, NEW frame \in Frame, frame.size <= MaxBytes, Balanced(store)
  PROVE  \E n \in RoomFor(Cleared(store, key), frame.size) :
            /\ \A j \in RoomFor(Cleared(store, key), frame.size) : n <= j
            /\ Stored(store, key, frame, n,
                      Insert(key, frame).s, Insert(key, frame).evicted)
<1> DEFINE b == frame.size
           c == Cleared(store, key)
           m == MakeRoom(c, b)
           w == Without(store.order, {key})
           e == [k \in DOMAIN m.s.entries \cup {key} |->
                   IF k = key THEN frame ELSE m.s.entries[k]]
           r == [used |-> m.s.used + b, entries |-> e, order |-> Append(m.s.order, key)]
           next == Insert(key, frame)
<1>1. b \in 0 .. MaxBytes /\ MaxBytes \in Nat
  BY StoreAssumption DEF Frame
<1>2. /\ c \in Machine /\ c.s.order = w /\ c.evicted = Held \cap {key}
      /\ c.s.entries = [k \in DOMAIN store.entries \ {key} |-> store.entries[k]]
  BY ClearedMachine DEF Cleared, Held
<1>3. next.s = r /\ next.evicted = m.evicted
  BY DEF Insert, Cleared, Held
<1>4. store.order \in Seq(Key) /\ ToSet(store.order) = Held
  BY BalancedSized DEF Balanced, Held
<1> HIDE DEF next, w, c
<1>5. PICK n \in RoomFor(c, b) : RoomAt(c, b, m, n)
  BY <1>1, <1>2, RoomMade
<1>6. /\ m \in Machine /\ m.s.order = Rest(w, n)
      /\ m.s.entries = [k \in ToSet(m.s.order) |-> c.s.entries[k]]
      /\ m.evicted = c.evicted \cup (DOMAIN c.s.entries \ ToSet(m.s.order))
      /\ Left(c, m, n) /\ \A j \in RoomFor(c, b) : n <= j
  BY <1>2, <1>5 DEF RoomAt, Left
<1>7. m.s.used + b <= MaxBytes
  BY <1>2, <1>5, <1>6, LeftFits
<1> HIDE DEF m
<1>8. /\ Balanced(m.s) /\ ToSet(m.s.order) = DOMAIN m.s.entries /\ m.s.order \in Seq(Key)
  BY <1>6 DEF Machine, Balanced, StoreType
<1>9. DOMAIN m.s.entries \subseteq Held \ {key}
  <2>1. m.s.order = Rest(w, n) /\ n \in 0 .. Len(w) /\ w \in Seq(Key)
        /\ ToSet(w) = Held \ {key}
    <3>1. w \in Seq(Key) /\ ToSet(w) = Held \ {key}
      BY <1>4, WithoutKeeps DEF w
    <3>2. n \in 0 .. Len(w)
      BY <1>2, <1>6 DEF Left
    <3> QED BY <1>6, <3>1, <3>2
  <2>2. ToSet(Rest(w, n)) \subseteq ToSet(w)
    BY <2>1, RestPart
  <2> QED BY <1>8, <2>1, <2>2
<1>10. Balanced(r)
  <2>1. key \notin DOMAIN m.s.entries
    BY <1>9
  <2> DEFINE z == m.s
  <2>2. Balanced(z) /\ key \notin DOMAIN z.entries
    BY <1>8, <2>1
  <2> HIDE DEF z
  <2>3. Balanced([used |-> z.used + frame.size,
                  entries |-> [k \in DOMAIN z.entries \cup {key} |->
                                 IF k = key THEN frame ELSE z.entries[k]],
                  order |-> Append(z.order, key)])
    BY <2>2, Joined
  <2> QED BY <2>3 DEF z
<1>11. r.used <= MaxBytes
  BY <1>7
<1>12. r.order = Append(Rest(w, n), key)
  BY <1>6
<1>13. ToSet(r.order) = DOMAIN m.s.entries \cup {key}
  BY <1>8, AppendedSet
<1>14. r.entries = [k \in ToSet(r.order) |-> IF k = key THEN frame ELSE store.entries[k]]
  <2>1. \A k \in DOMAIN m.s.entries : m.s.entries[k] = store.entries[k] /\ k # key
    BY <1>2, <1>6, <1>8, <1>9 DEF Held
  <2>2. e = [k \in DOMAIN m.s.entries \cup {key} |-> IF k = key THEN frame ELSE store.entries[k]]
    BY <2>1
  <2> QED BY <1>13, <2>2
<1>15. /\ key \in DOMAIN r.entries /\ DOMAIN r.entries \subseteq Held \cup {key}
       /\ DOMAIN r.entries = DOMAIN m.s.entries \cup {key}
  BY <1>9
<1>16. (Held \ m.evicted) \cup {key} = DOMAIN r.entries
  <2>1. m.evicted = (Held \cap {key}) \cup ((Held \ {key}) \ DOMAIN m.s.entries)
    BY <1>2, <1>6, <1>8 DEF Held
  <2> QED BY <1>9, <1>15, <2>1
<1> HIDE DEF r, b
<1>17. Stored(store, key, frame, n, r, m.evicted)
  BY <1>10, <1>11, <1>12, <1>14, <1>15, <1>16 DEF Stored, w, Held
<1> QED BY <1>3, <1>5, <1>6, <1>17 DEF next, c, b

-----------------------------------------------------------------------------
(* Sweeping                                                                *)

\* A sequence without repetitions is as long as it has elements.
LEMMA DistinctCounts ==
  ASSUME NEW s \in Seq(Key), Distinct(s)
  PROVE  IsFiniteSet(ToSet(s)) /\ Len(s) = Cardinality(ToSet(s))
<1> DEFINE Counts(t) == IsFiniteSet(ToSet(t)) /\ Len(t) = Cardinality(ToSet(t))
           G == {t \in Seq(Key) : Distinct(t) => Counts(t)}
<1>1. <<>> \in G
  <2> DEFINE e == <<>>
  <2>1. e \in Seq(Key) /\ ToSet(e) = {} /\ Len(e) = 0
    BY NoKeys
  <2> HIDE DEF e
  <2>2. Counts(e)
    BY <2>1, FS_EmptySet
  <2>3. e \in G
    BY <2>1, <2>2
  <2> QED BY <2>3 DEF e
<1>2. ASSUME NEW t \in Seq(Key), NEW x \in Key, t \in G PROVE Append(t, x) \in G
  <2> DEFINE tx == Append(t, x)
  <2>1. /\ tx \in Seq(Key) /\ Len(tx) = Len(t) + 1 /\ ToSet(tx) = ToSet(t) \cup {x}
        /\ Distinct(tx) <=> Distinct(t) /\ x \notin ToSet(t)
    <3>1. tx \in Seq(Key) /\ Len(tx) = Len(t) + 1
      OBVIOUS
    <3> QED BY <3>1, AppendedSet
  <2> HIDE DEF tx
  <2> SUFFICES ASSUME Distinct(tx) PROVE Counts(tx)
    BY <2>1 DEF tx
  <2>2. Counts(t) /\ x \notin ToSet(t)
    BY <1>2, <2>1
  <2>3. IsFiniteSet(ToSet(t) \cup {x}) /\ Cardinality(ToSet(t) \cup {x}) = Cardinality(ToSet(t)) + 1
    BY <2>2, FS_AddElement
  <2> QED BY <2>1, <2>2, <2>3
<1>3. s \in G
  <2> HIDE DEF G
  <2> QED BY <1>1, <1>2, SeqInduction
<1> QED BY <1>3

\* A finite set of keys, as a sequence.
LEMMA Listed ==
  ASSUME NEW S \in SUBSET Key, IsFiniteSet(S)
  PROVE  SetToSeq(S) \in Seq(Key) /\ ToSet(SetToSeq(S)) = S
<1> DEFINE n == Cardinality(S)
           f == SetToSeq(S)
<1>1. n \in Nat /\ ExistsBijection(1 .. n, S)
  BY FS_CardinalityType
<1> HIDE DEF n
<1>2. PICK h : h \in [1 .. n -> S] /\ IsInjective(h)
  BY <1>1 DEF ExistsBijection, Bijection, Injection
<1>3. f = CHOOSE k : k \in [1 .. n -> S] /\ IsInjective(k)
  BY DEF SetToSeq, n
<1>4. f \in [1 .. n -> S] /\ IsInjective(f)
  BY <1>2, <1>3, Zenon
<1> HIDE DEF f
<1>5. Cardinality(1 .. n) = n
  BY <1>1, FS_Interval
<1>6. IsFiniteSet(1 .. n)
  BY <1>1, FS_Interval
<1>7. f \in Injection(1 .. n, S)
  BY <1>4 DEF Injection
<1>8. f \in Surjection(1 .. n, S)
  BY <1>5, <1>7, FS_Injection DEF n
<1>9. \A x \in S : \E i \in 1 .. n : f[i] = x
  BY <1>8 DEF Surjection
<1>10. ToSet(f) = S
  BY <1>4, <1>9 DEF ToSet
<1>11. f \in Seq(Key)
  <2>1. f \in [1 .. n -> Key]
    BY <1>4
  <2> QED BY <1>1, <2>1
<1> QED BY <1>10, <1>11 DEF f

Stores == {s \in StoreType : Balanced(s)}

\* g holds the store when the first i keys of q are forgotten.
Removes(s, q, g) ==
  /\ g[0] = s
  /\ \A i \in 1 .. Len(q) : g[i] = RemoveExisting(g[i - 1], q[i])
  /\ FoldLeft(RemoveExisting, s, q) = g[Len(q)]

\* The loop of a sweep has a store after each key it forgets.
LEMMA Removed ==
  ASSUME NEW s \in Stores, NEW q \in Seq(Key)
  PROVE  \E g : Removes(s, q, g)
<1> DEFINE n == Len(q)
           Folded(iter) ==
             iter = [T \in SUBSET DOMAIN q |->
                       IF T = {} THEN s ELSE RemoveExisting(iter[T \ {Max(T)}], q[Max(T)])]
           c == CHOOSE iter : Folded(iter)
<1>1. FoldLeft(RemoveExisting, s, q) = c[DOMAIN q]
  BY DEF FoldLeft, MapThenFoldSet
<1>2. n \in Nat /\ DOMAIN q = 1 .. n
  OBVIOUS
<1>3. \A x \in Stores : \A k : RemoveExisting(x, k) \in Stores
  <2> SUFFICES ASSUME NEW x \in Stores, NEW k PROVE RemoveExisting(x, k) \in Stores
    OBVIOUS
  <2>1. Balanced(x)
    BY DEF Stores
  <2>2. Balanced(RemoveExisting(x, k))
    BY <2>1, RemoveBalanced
  <2> QED BY <2>2 DEF Stores, Balanced
<1>4. \E iter : Folded(iter)
  <2> DEFINE A == Stores
             f == [i \in 1 .. n |-> [x \in A |-> RemoveExisting(x, q[i])]]
  <2>1. f \in [1 .. n -> [A -> A]]
    BY <1>3
  <2>2. s \in A
    OBVIOUS
  <2> HIDE DEF f, n, A
  <2>3. PICK iter : FoldsUp(A, s, n, f, iter)
    BY <1>2, <2>1, <2>2, FoldExists, Zenon
  <2> USE DEF f, FoldsUp
  <2>4. ASSUME NEW T \in SUBSET (1 .. n), T # {}
        PROVE  iter[T] = RemoveExisting(iter[T \ {Max(T)}], q[Max(T)])
    <3>1. Max(T) \in 1 .. n
      BY <1>2, <2>4, MaxAmong
    <3>2. iter[T \ {Max(T)}] \in A
      BY <2>3
    <3> QED BY <2>3, <2>4, <3>1, <3>2
  <2>5. iter = [T \in SUBSET (1 .. n) |->
                  IF T = {} THEN s ELSE RemoveExisting(iter[T \ {Max(T)}], q[Max(T)])]
    BY <2>3, <2>4
  <2> QED BY <1>2, <2>5
<1>5. Folded(c)
  <2> HIDE DEF Folded
  <2> QED BY <1>4, Zenon
<1> HIDE DEF c
<1> DEFINE g == [i \in 0 .. n |-> c[1 .. i]]
<1>6. g[0] = s
  <2>1. 1 .. 0 = {} /\ {} \in SUBSET (1 .. n) /\ 0 \in 0 .. n
    BY <1>2
  <2> QED BY <1>2, <1>5, <2>1
<1>7. ASSUME NEW i \in 1 .. n PROVE g[i] = RemoveExisting(g[i - 1], q[i])
  <2> DEFINE j == i - 1
             T == 1 .. i
  <2>1. j \in Nat /\ j + 1 = i /\ j + 1 <= n /\ i \in 0 .. n /\ j \in 0 .. n
    BY <1>2
  <2>2. T \in SUBSET (1 .. n) /\ T # {} /\ Max(T) = i /\ T \ {i} = 1 .. j
    <3> HIDE DEF j
    <3> QED BY <1>2, <2>1, UpTo
  <2> HIDE DEF T, n
  <2>3. c[T] = RemoveExisting(c[T \ {Max(T)}], q[Max(T)])
    BY <1>2, <1>5, <2>2
  <2> QED BY <2>1, <2>2, <2>3 DEF T
<1>8. FoldLeft(RemoveExisting, s, q) = g[n]
  BY <1>1, <1>2
<1> HIDE DEF g
<1>9. Removes(s, q, g)
  BY <1>6, <1>7, <1>8 DEF Removes
<1> QED BY <1>9, Zenon

\* What is left of a store without these keys.
Swept(s, K, r) ==
  /\ Balanced(r) /\ r.used <= s.used
  /\ r.order = Without(s.order, K)
  /\ r.entries = [k \in DOMAIN s.entries \ K |-> s.entries[k]]

\* Forgetting one key more.
LEMMA SweptMore ==
  ASSUME NEW s, Balanced(s), NEW K, NEW r, Swept(s, K, r), NEW key
  PROVE  Swept(s, K \cup {key}, RemoveExisting(r, key))
<1> DEFINE t == RemoveExisting(r, key)
<1>1. /\ Balanced(r) /\ r.used <= s.used /\ r.order = Without(s.order, K)
      /\ r.entries = [k \in DOMAIN s.entries \ K |-> s.entries[k]]
      /\ s.order \in Seq(Key) /\ s.used \in Nat
  BY BalancedSized DEF Swept
<1>2. /\ Balanced(t) /\ t.order = Without(r.order, {key})
      /\ t.entries = [k \in DOMAIN r.entries \ {key} |-> r.entries[k]]
  BY <1>1, RemoveBalanced
<1>3. t.used <= s.used
  <2>1. r.used \in Nat /\ (key \in DOMAIN r.entries => r.entries[key].size \in Nat)
    BY <1>1, BalancedSized
  <2>2. CASE key \notin DOMAIN r.entries
    BY <1>1, <2>1, <2>2 DEF RemoveExisting
  <2>3. CASE key \in DOMAIN r.entries
    <3> DEFINE a == r.used
               b == r.entries[key].size
    <3>1. t.used = Monus(a, b) /\ a \in Nat /\ b \in Nat /\ a <= s.used
      BY <1>1, <2>1, <2>3 DEF RemoveExisting
    <3> HIDE DEF a, b, t
    <3> QED BY <1>1, <3>1 DEF Monus
  <2> QED BY <2>2, <2>3
<1> HIDE DEF t
<1>4. t.order = Without(s.order, K \cup {key})
  BY <1>1, <1>2, WithoutTwice
<1>5. t.entries = [k \in DOMAIN s.entries \ (K \cup {key}) |-> s.entries[k]]
  BY <1>1, <1>2
<1>6. Swept(s, K \cup {key}, t)
  BY <1>2, <1>3, <1>4, <1>5 DEF Swept
<1> QED BY <1>6 DEF t

\* The loop of sweep_retention forgets the keys it is given.
LEMMA SweepRemoves ==
  ASSUME NEW s, Balanced(s), NEW q \in Seq(Key)
  PROVE  Swept(s, ToSet(q), FoldLeft(RemoveExisting, s, q))
<1> DEFINE Upto(i) == {q[j] : j \in 1 .. i}
           n == Len(q)
<1>1. s \in Stores /\ n \in Nat
  BY DEF Stores, Balanced
<1>2. PICK g : Removes(s, q, g)
  BY <1>1, Removed
<1> DEFINE Good == {i \in Nat : i <= n => Swept(s, Upto(i), g[i])}
<1>3. 0 \in Good
  <2>1. Upto(0) = {} /\ g[0] = s
    BY <1>2 DEF Removes
  <2>2. s.order \in Seq(Key) /\ s.entries \in Maps /\ s.used \in Nat
    BY BalancedSized
  <2>3. Without(s.order, {}) = s.order
    BY <2>2, WithoutKeeps
  <2>4. s.entries = [k \in DOMAIN s.entries \ {} |-> s.entries[k]]
    <3>1. DOMAIN s.entries \ {} = DOMAIN s.entries
      OBVIOUS
    <3>2. s.entries = [k \in DOMAIN s.entries |-> s.entries[k]]
      BY <2>2 DEF Maps
    <3> QED BY <3>1, <3>2
  <2>5. Swept(s, {}, s)
    BY <2>2, <2>3, <2>4 DEF Swept
  <2> QED BY <2>1, <2>5
<1>4. ASSUME NEW i \in Nat, i \in Good PROVE i + 1 \in Good
  <2> SUFFICES ASSUME i + 1 <= n PROVE Swept(s, Upto(i + 1), g[i + 1])
    OBVIOUS
  <2>1. i + 1 \in 1 .. n /\ (i + 1) - 1 = i
    BY <1>1
  <2>2. Swept(s, Upto(i), g[i])
    BY <1>1, <1>4
  <2>3. g[i + 1] = RemoveExisting(g[i], q[i + 1])
    BY <1>2, <2>1 DEF Removes
  <2>4. Upto(i + 1) = Upto(i) \cup {q[i + 1]}
    <3>1. 1 .. (i + 1) = (1 .. i) \cup {i + 1}
      OBVIOUS
    <3> QED BY <3>1
  <2> HIDE DEF Upto
  <2>5. Swept(s, Upto(i) \cup {q[i + 1]}, RemoveExisting(g[i], q[i + 1]))
    BY <2>2, SweptMore
  <2> QED BY <2>3, <2>4, <2>5
<1>5. n \in Good
  <2> HIDE DEF Good
  <2> QED BY <1>1, <1>3, <1>4, Induction
<1>6. Upto(n) = ToSet(q)
  BY DEF ToSet
<1> HIDE DEF Upto
<1> QED BY <1>1, <1>2, <1>5, <1>6 DEF Removes

\* Held keys that a sweep forgets leave the map, the order and the counter.
LEMMA SweepStores ==
  ASSUME NEW s, Balanced(s), NEW gone \in SUBSET DOMAIN s.entries
  PROVE  Swept(s, gone, FoldLeft(RemoveExisting, s, SetToSeq(gone)))
<1>1. s.order \in Seq(Key) /\ ToSet(s.order) = DOMAIN s.entries /\ Distinct(s.order)
      /\ DOMAIN s.entries \in SUBSET Key
  BY BalancedSized DEF Balanced
<1>2. IsFiniteSet(DOMAIN s.entries)
  BY <1>1, DistinctCounts
<1>3. gone \in SUBSET Key /\ IsFiniteSet(gone)
  BY <1>1, <1>2, FS_Subset
<1>4. SetToSeq(gone) \in Seq(Key) /\ ToSet(SetToSeq(gone)) = gone
  BY <1>3, Listed
<1> DEFINE q == SetToSeq(gone)
<1>5. q \in Seq(Key) /\ ToSet(q) = gone
  BY <1>4
<1> HIDE DEF q
<1>6. Swept(s, gone, FoldLeft(RemoveExisting, s, q))
  BY <1>5, SweepRemoves
<1> QED BY <1>6 DEF q

-----------------------------------------------------------------------------
(* The inductive invariant                                                 *)

\* The books agree and stay within the bound, the observer's keys are the
\* keys held, and every held key has its puller and the receipt it was
\* stored under.
Consistent ==
  /\ Balanced(store)
  /\ store.used <= MaxBytes
  /\ mirror = DOMAIN store.entries
  /\ authority \in BOOLEAN
  /\ HeldUnderConsent

\* The frame a pull stores.
PulledFrame(receipt, size, tick) ==
  [session |-> receipt.session, seq |-> receipt.seq, tick |-> tick, size |-> size]

\* The two outcomes of a pull.
LEMMA PullSteps ==
  ASSUME NEW session \in Session, NEW receipt \in Receipts, NEW key \in Key,
         NEW size \in Sizes, NEW tick \in Ticks,
         PullFrame(session, receipt, key, size, tick), Balanced(store)
  PROVE  LET f == PulledFrame(receipt, size, tick)
         IN  /\ UNCHANGED authority
             /\ f \in Frame
             /\ \/ UNCHANGED <<store, mirror, puller>>
                \/ /\ Consented(session, receipt)
                   /\ size \in 1 .. MaxBytes
                   /\ \E gone : \E n \in RoomFor(Cleared(store, key), size) :
                        /\ \A j \in RoomFor(Cleared(store, key), size) : n <= j
                        /\ Stored(store, key, f, n, store', gone)
                        /\ mirror' = (mirror \ gone) \cup {key}
                        /\ puller' = [k \in DOMAIN store'.entries |->
                                        IF k = key THEN session ELSE puller[k]]
<1> DEFINE f == PulledFrame(receipt, size, tick)
           next == Insert(key, f)
<1>1. f \in Frame /\ f.size = size
  BY StoreAssumption DEF PulledFrame, Frame
<1>2. UNCHANGED authority
  BY DEF PullFrame
<1>3. CASE ~(Consented(session, receipt) /\ size \in 1 .. MaxBytes)
  <2>1. UNCHANGED <<store, mirror, puller>>
    BY <1>3 DEF PullFrame
  <2> HIDE DEF f
  <2> QED BY <1>1, <1>2, <2>1 DEF f
<1>4. CASE Consented(session, receipt) /\ size \in 1 .. MaxBytes
  <2>1. /\ store' = next.s
        /\ mirror' = (mirror \ next.evicted) \cup {key}
        /\ puller' = [k \in DOMAIN next.s.entries |-> IF k = key THEN session ELSE puller[k]]
    BY <1>4 DEF PullFrame, PulledFrame
  <2>2. f.size <= MaxBytes
    BY <1>1, <1>4, StoreAssumption
  <2> HIDE DEF f
  <2>3. PICK n \in RoomFor(Cleared(store, key), f.size) :
            /\ \A j \in RoomFor(Cleared(store, key), f.size) : n <= j
            /\ Stored(store, key, f, n, Insert(key, f).s, Insert(key, f).evicted)
    BY <1>1, <2>2, InsertStores
  <2> HIDE DEF next
  <2>4. Stored(store, key, f, n, store', next.evicted)
    BY <2>1, <2>3 DEF next
  <2>5. /\ n \in RoomFor(Cleared(store, key), size)
        /\ \A j \in RoomFor(Cleared(store, key), size) : n <= j
    BY <1>1, <2>3
  <2> QED BY <1>1, <1>2, <1>4, <2>1, <2>4, <2>5 DEF f
<1> QED BY <1>3, <1>4

\* The frames a sweep finds expired.
Elapsed(receipts, now, hz) ==
  {k \in Held : Expired(store.entries[k], receipts, now, hz)}

\* sweep_retention forgets the frames that have expired, and says so.
LEMMA SweepIs ==
  ASSUME NEW receipts, NEW now, NEW hz, Balanced(store)
  PROVE  LET next == SweepRetention(receipts, now, hz)
         IN  /\ next.evicted = Elapsed(receipts, now, hz)
             /\ Swept(store, Elapsed(receipts, now, hz), next.s)
<1> DEFINE gone == Elapsed(receipts, now, hz)
<1>1. SweepRetention(receipts, now, hz) =
        [s |-> FoldLeft(RemoveExisting, store, SetToSeq(gone)), evicted |-> gone]
  BY DEF SweepRetention, Elapsed
<1>2. gone \in SUBSET DOMAIN store.entries
  BY DEF Held, Elapsed
<1> HIDE DEF gone
<1>3. Swept(store, gone, FoldLeft(RemoveExisting, store, SetToSeq(gone)))
  BY <1>2, SweepStores
<1> QED BY <1>1, <1>3 DEF gone

\* So does the call of it, and nothing else changes.
LEMMA SweepSteps ==
  ASSUME NEW receipts, NEW now, NEW hz, Sweep(receipts, now, hz), Balanced(store)
  PROVE  LET gone == Elapsed(receipts, now, hz)
         IN  /\ Swept(store, gone, store')
             /\ mirror' = mirror \ gone
             /\ puller' = [k \in Held \ gone |-> puller[k]]
             /\ UNCHANGED authority
<1> DEFINE next == SweepRetention(receipts, now, hz)
           gone == Elapsed(receipts, now, hz)
<1>1. /\ store' = next.s /\ mirror' = mirror \ next.evicted
      /\ puller' = [k \in DOMAIN next.s.entries |-> puller[k]]
      /\ UNCHANGED authority
  BY DEF Sweep
<1>2. next.evicted = gone /\ Swept(store, gone, next.s)
  BY SweepIs
<1> HIDE DEF next, gone
<1>3. DOMAIN next.s.entries = Held \ gone
  BY <1>2 DEF Swept, Held
<1> QED BY <1>1, <1>2, <1>3 DEF gone

\* An empty store is consistent.
LEMMA ConsistentInit == Init => Consistent
<1> SUFFICES ASSUME Init PROVE Consistent
  OBVIOUS
<1> DEFINE e == store.entries
           o == store.order
<1>1. /\ store = [used |-> 0, entries |-> <<>>, order |-> <<>>]
      /\ authority \in BOOLEAN /\ mirror = {} /\ puller = <<>>
  BY DEF Init
<1>2. e = <<>> /\ o = <<>> /\ store.used = 0
  BY <1>1
<1>3. DOMAIN e = {} /\ e \in Maps
  <2>1. DOMAIN e = {} /\ e \in [{} -> Frame]
    BY <1>2
  <2> QED BY <2>1 DEF Maps
<1>4. o \in Seq(Key) /\ ToSet(o) = {} /\ Distinct(o)
  BY <1>2, NoKeys
<1>5. Bytes(o, SizeOf(e)) = 0
  BY <1>2, BytesNone
<1>6. store \in StoreType
  BY <1>1, <1>2, <1>3, <1>4 DEF StoreType
<1>7. Balanced(store)
  BY <1>2, <1>3, <1>4, <1>5, <1>6 DEF Balanced
<1>8. HeldUnderConsent
  BY <1>3 DEF HeldUnderConsent, Held
<1> QED BY <1>1, <1>2, <1>3, <1>7, <1>8, StoreAssumption DEF Consistent

\* Pulling a frame, stored, refused or too large, keeps the store consistent.
LEMMA ConsistentPull ==
  ASSUME NEW session \in Session, NEW receipt \in Receipts, NEW key \in Key,
         NEW size \in Sizes, NEW tick \in Ticks,
         PullFrame(session, receipt, key, size, tick), Consistent
  PROVE  Consistent'
<1> DEFINE f == PulledFrame(receipt, size, tick)
<1>1. UNCHANGED authority /\ Balanced(store)
  BY DEF PullFrame, Consistent
<1>2. CASE UNCHANGED <<store, mirror, puller>>
  BY <1>1, <1>2 DEF Consistent, HeldUnderConsent, Held
<1>3. CASE ~UNCHANGED <<store, mirror, puller>>
  <2>1. PICK n, gone :
          /\ Consented(session, receipt)
          /\ Stored(store, key, f, n, store', gone)
          /\ mirror' = (mirror \ gone) \cup {key}
          /\ puller' = [k \in DOMAIN store'.entries |->
                          IF k = key THEN session ELSE puller[k]]
    <3> HIDE DEF f
    <3> QED BY <1>1, <1>3, PullSteps DEF f
  <2>2. f.session = receipt.session /\ f.seq = receipt.seq
    BY DEF PulledFrame
  <2> HIDE DEF f
  <2>3. /\ Balanced(store') /\ store'.used <= MaxBytes
        /\ store'.entries = [k \in ToSet(store'.order) |->
                               IF k = key THEN f ELSE store.entries[k]]
        /\ DOMAIN store'.entries \subseteq DOMAIN store.entries \cup {key}
        /\ (DOMAIN store.entries \ gone) \cup {key} = DOMAIN store'.entries
    BY <2>1 DEF Stored
  <2>4. mirror' = DOMAIN store'.entries
    BY <2>1, <2>3 DEF Consistent
  <2>5. HeldUnderConsent'
    <3> SUFFICES ASSUME NEW k \in DOMAIN store'.entries
                 PROVE  /\ authority'
                        /\ puller'[k] = store'.entries[k].session
                        /\ \E r \in Receipts : /\ r.session = puller'[k]
                                                /\ r.seq = store'.entries[k].seq
                                                /\ "camera" \in r.grants
      BY DEF HeldUnderConsent, Held
    <3>1. authority' /\ "camera" \in receipt.grants /\ receipt.session = session
      BY <1>1, <2>1 DEF Consented
    <3>2. puller'[k] = IF k = key THEN session ELSE puller[k]
      BY <2>1
    <3>3. store'.entries[k] = IF k = key THEN f ELSE store.entries[k]
      BY <2>3
    <3>4. CASE k = key
      BY <2>2, <3>1, <3>2, <3>3, <3>4
    <3>5. CASE k # key
      <4>1. k \in DOMAIN store.entries
        BY <2>3, <3>5
      <4> QED BY <3>1, <3>2, <3>3, <3>5, <4>1 DEF Consistent, HeldUnderConsent, Held
    <3> QED BY <3>4, <3>5
  <2> QED BY <1>1, <2>3, <2>4, <2>5 DEF Consistent, Balanced, Distinct, SizeOf
<1> QED BY <1>2, <1>3

\* And so does a sweep.
LEMMA ConsistentSweep ==
  ASSUME NEW receipts, NEW now, NEW hz, Sweep(receipts, now, hz), Consistent
  PROVE  Consistent'
<1> DEFINE gone == Elapsed(receipts, now, hz)
<1>1. /\ Swept(store, gone, store') /\ mirror' = mirror \ gone
      /\ puller' = [k \in Held \ gone |-> puller[k]] /\ UNCHANGED authority
  BY SweepSteps DEF Consistent
<1> HIDE DEF gone
<1>2. /\ Balanced(store') /\ store'.used <= store.used
      /\ store'.entries = [k \in DOMAIN store.entries \ gone |-> store.entries[k]]
  BY <1>1 DEF Swept
<1>3. store'.used <= MaxBytes
  <2>1. store'.used \in Nat /\ store.used \in Nat /\ store.used <= MaxBytes /\ MaxBytes \in Nat
    BY <1>2, StoreAssumption DEF Consistent, Balanced, StoreType
  <2> QED BY <1>2, <2>1
<1>4. mirror' = DOMAIN store'.entries
  BY <1>1, <1>2 DEF Consistent
<1>5. HeldUnderConsent'
  BY <1>1, <1>2 DEF Consistent, HeldUnderConsent, Held
<1> QED BY <1>1, <1>2, <1>3, <1>4, <1>5 DEF Consistent, Balanced, Distinct, SizeOf

\* And so does every step.
LEMMA ConsistentNext == Consistent /\ [Next]_vars => Consistent'
<1> SUFFICES ASSUME Consistent, [Next]_vars PROVE Consistent'
  OBVIOUS
<1>1. ASSUME UNCHANGED <<store, authority, mirror, puller>> PROVE Consistent'
  BY <1>1 DEF Consistent, Balanced, Distinct, SizeOf, HeldUnderConsent, Held
<1>2. ASSUME NEW session \in Session, NEW receipt \in Receipts, NEW key \in Key,
             NEW size \in Sizes, NEW tick \in Ticks,
             PullFrame(session, receipt, key, size, tick)
      PROVE  Consistent'
  BY <1>2, ConsistentPull
<1>3. ASSUME NEW receipts \in BoundedSeq(Receipts, MaxVisible), NEW now \in Ticks,
             NEW hz \in Rates, Sweep(receipts, now, hz)
      PROVE  Consistent'
  BY <1>3, ConsistentSweep
<1>4. ASSUME GrantAuthority PROVE Consistent'
  <2>1. UNCHANGED <<store, mirror, puller>> /\ authority' = TRUE
    BY <1>4 DEF GrantAuthority
  <2> QED BY <2>1 DEF Consistent, Balanced, Distinct, SizeOf, HeldUnderConsent, Held
<1>5. CASE UNCHANGED vars
  BY <1>1, <1>5 DEF vars
<1> QED BY <1>2, <1>3, <1>4, <1>5 DEF Next

\* The invariant holds in every state of every behaviour of the store, the
\* ledger and their callers.
THEOREM StoreIsConsistent == Spec => []Consistent
<1>1. Init => Consistent
  BY ConsistentInit
<1>2. Consistent /\ [Next]_vars => Consistent'
  BY ConsistentNext
<1> QED BY <1>1, <1>2, PTL DEF Spec

-----------------------------------------------------------------------------
(* What follows                                                            *)

\* Counter, map and eviction order of BoundedContentStore agree whatever was
\* inserted, replaced, evicted and swept, for any bound and any frame sizes.
THEOREM BooksAlwaysBalance == Spec => []BooksBalance
<1>1. Consistent => BooksBalance
  <2> SUFFICES ASSUME Consistent PROVE BooksBalance
    OBVIOUS
  <2>1. store.order \in Seq(Key) /\ Distinct(store.order) /\ ToSet(store.order) = Held
        /\ store.used = Bytes(store.order, SizeOf(store.entries)) /\ store.used <= MaxBytes
    BY DEF Consistent, Balanced, StoreType, Held
  <2>2. Len(store.order) = Cardinality(ToSet(store.order))
    BY <2>1, DistinctCounts
  <2> QED BY <2>1, <2>2 DEF BooksBalance
<1> QED BY <1>1, StoreIsConsistent, PTL

\* The keys insert and sweep_retention return tell exactly what is held.
THEOREM EveryLossIsReported == Spec => []MirrorExact
<1>1. Consistent => MirrorExact
  BY DEF Consistent, MirrorExact, Held
<1> QED BY <1>1, StoreIsConsistent, PTL

\* Every frame held was stored by a call of its own session, under a receipt
\* of that session that granted the camera.
THEOREM FramesAreConsented == Spec => []HeldUnderConsent
<1>1. Consistent => HeldUnderConsent
  BY DEF Consistent
<1> QED BY <1>1, StoreIsConsistent, PTL

\* Whole division, as a comparison of products.
LEMMA DivAbove ==
  ASSUME NEW a \in Nat, NEW d \in Nat \ {0}, NEW r \in Nat
  PROVE  a \div d > r <=> a >= (r + 1) * d
<1> DEFINE q == a \div d
<1>1. q \in Nat /\ q * d <= a /\ a < (q + 1) * d
  OBVIOUS
<1> HIDE DEF q
<1>2. ASSUME q > r PROVE a >= (r + 1) * d
  <2>1. (r + 1) * d <= q * d
    BY <1>1, <1>2
  <2>2. (r + 1) * d \in Nat /\ q * d \in Nat
    BY <1>1
  <2> QED BY <1>1, <2>1, <2>2
<1>3. ASSUME ~(q > r) PROVE ~(a >= (r + 1) * d)
  <2>1. (q + 1) * d <= (r + 1) * d
    BY <1>1, <1>3
  <2>2. (r + 1) * d \in Nat /\ (q + 1) * d \in Nat
    BY <1>1
  <2> QED BY <1>1, <2>1, <2>2
<1> QED BY <1>2, <1>3 DEF q

\* The milliseconds sweep_retention counts exceed a window exactly when the
\* window plus one has passed, unless the word they are counted in ends before.
LEMMA ElapsedExact ==
  ASSUME NEW now \in Nat, NEW tick \in Nat, NEW hz \in Nat, NEW retain \in Nat
  PROVE  LET passed == (retain + 1) * (IF hz = 0 THEN 1 ELSE hz)
         IN  ElapsedMs(now, tick, hz) > retain
               <=> ~((now - tick) * 1000 < passed \/ WordMax < passed)
<1> DEFINE d == IF hz = 0 THEN 1 ELSE hz
           a == Monus(now, tick) * 1000
           w == SaturatingProduct(Monus(now, tick), 1000)
           b == (now - tick) * 1000
           c == (retain + 1) * d
<1>1. d \in Nat \ {0}
  OBVIOUS
<1>2. a \in Nat /\ b \in Int /\ (now >= tick => a = b) /\ (now < tick => a = 0 /\ b < 0)
  BY DEF Monus
<1>3. ElapsedMs(now, tick, hz) = w \div d
  BY DEF ElapsedMs
<1>4. w = IF a > WordMax THEN WordMax ELSE a
  BY DEF SaturatingProduct
<1> HIDE DEF a, d, b, w
<1>5. w \in Nat
  BY <1>2, <1>4, StoreAssumption
<1>6. c \in Nat /\ c > 0
  BY <1>1
<1>7. w \div d > retain <=> w >= c
  BY <1>1, <1>5, DivAbove
<1> HIDE DEF c
<1>8. w >= c <=> ~(b < c \/ WordMax < c)
  BY <1>2, <1>4, <1>6, StoreAssumption
<1> QED BY <1>3, <1>7, <1>8 DEF b, c, d

\* A slice of receipts is a sequence of them.
LEMMA SliceTyped ==
  ASSUME NEW receipts \in BoundedSeq(Receipts, MaxVisible)
  PROVE  DOMAIN receipts \in SUBSET Nat /\ \A i \in DOMAIN receipts : receipts[i] \in Receipts
<1>1. PICK m \in 0 .. MaxVisible : receipts \in [1 .. m -> Receipts]
  BY DEF BoundedSeq, SeqOf
<1>2. 1 .. m \in SUBSET Nat
  OBVIOUS
<1> QED BY <1>1, <1>2

\* The filter of sweep_retention says which frames may not stay.
LEMMA ExpiredExact ==
  ASSUME NEW frame \in Frame, NEW now \in Nat, NEW hz \in Nat,
         NEW receipts \in BoundedSeq(Receipts, MaxVisible)
  PROVE  Expired(frame, receipts, now, hz) <=> ~MayStay(receipts, frame, now, hz)
<1> DEFINE d == IF hz = 0 THEN 1 ELSE hz
           Long(r) == ElapsedMs(now, frame.tick, hz) > r.retain
           Short(r) == \/ (now - frame.tick) * 1000 < (r.retain + 1) * d
                       \/ WordMax < (r.retain + 1) * d
           ours == {i \in DOMAIN receipts : Governs(receipts[i], frame)}
           First(i) == \A j \in DOMAIN receipts : Governs(receipts[j], frame) => i <= j
<1>1. \A r \in Receipts : Long(r) <=> ~Short(r)
  <2> SUFFICES ASSUME NEW r \in Receipts PROVE Long(r) <=> ~Short(r)
    OBVIOUS
  <2> DEFINE t == frame.tick
             w == r.retain
  <2>1. w \in Nat /\ t \in Nat
    BY StoreAssumption DEF Frame
  <2> HIDE DEF t, w
  <2>2. ElapsedMs(now, t, hz) > w
          <=> ~(\/ (now - t) * 1000 < (w + 1) * (IF hz = 0 THEN 1 ELSE hz)
                \/ WordMax < (w + 1) * (IF hz = 0 THEN 1 ELSE hz))
    BY <2>1, ElapsedExact
  <2> QED BY <2>2 DEF t, w
<1>2. ours = {i \in Windows(receipts) : /\ receipts[i].session = frame.session
                                        /\ receipts[i].seq = frame.seq}
  BY DEF Windows, Governs, GlassesGrants
<1>3. Expired(frame, receipts, now, hz) <=> (ours # {} => Long(receipts[Min(ours)]))
  <2> HIDE DEF ours
  <2> QED BY <1>2 DEF Expired
<1>4. MayStay(receipts, frame, now, hz)
        <=> \E i \in ours : First(i) /\ Short(receipts[i])
  BY DEF MayStay
<1>5. DOMAIN receipts \in SUBSET Nat /\ \A i \in DOMAIN receipts : receipts[i] \in Receipts
  BY SliceTyped
<1>6. ours \in SUBSET Nat /\ \A i \in ours : receipts[i] \in Receipts
  BY <1>5
<1>7. \A i \in ours : First(i) <=> \A j \in ours : i <= j
  OBVIOUS
<1> HIDE DEF ours, First, Long, Short
<1>8. CASE ours = {}
  BY <1>3, <1>4, <1>8
<1>9. CASE ours # {}
  <2>1. Min(ours) \in ours /\ First(Min(ours))
    BY <1>6, <1>7, <1>9, MinAmong
  <2>2. \A i \in ours : First(i) => i = Min(ours)
    <3>1. \A i \in ours : First(i) => i <= Min(ours) /\ Min(ours) <= i
      BY <1>6, <1>7, <2>1, <1>9, MinAmong
    <3>2. Min(ours) \in Nat /\ \A i \in ours : i \in Nat
      BY <1>6, <2>1
    <3>3. \A i, j \in Nat : i <= j /\ j <= i => i = j
      OBVIOUS
    <3> QED BY <3>1, <3>2, <3>3, Zenon
  <2>3. MayStay(receipts, frame, now, hz) <=> Short(receipts[Min(ours)])
    BY <1>4, <2>1, <2>2
  <2> QED BY <1>1, <1>3, <1>6, <1>9, <2>1, <2>3
<1> QED BY <1>8, <1>9

\* Whenever a sweep comes, it forgets the frames that may not stay, all of them
\* and no other, and reports those; the others keep their places, for any slice
\* of receipts, ticks and rates.
THEOREM SweepsAreExact == Spec => []SweepExact
<1>1. ASSUME Consistent, NEW receipts \in BoundedSeq(Receipts, MaxVisible),
             NEW now \in Ticks, NEW hz \in Rates
      PROVE  LET next == SweepRetention(receipts, now, hz)
                 late == {k \in Held : ~MayStay(receipts, store.entries[k], now, hz)}
             IN  next.s.order = Without(store.order, late) /\ next.evicted = late
  <2> DEFINE next == SweepRetention(receipts, now, hz)
             gone == Elapsed(receipts, now, hz)
             late == {k \in Held : ~MayStay(receipts, store.entries[k], now, hz)}
  <2>1. Balanced(store) /\ now \in Nat /\ hz \in Nat
    BY <1>1, StoreAssumption DEF Consistent
  <2>2. next.evicted = gone /\ Swept(store, gone, next.s)
    BY <2>1, SweepIs
  <2>3. gone = late
    <3>1. \A k \in Held : store.entries[k] \in Frame
      BY <2>1, BalancedSized DEF Held
    <3>2. \A k \in Held : Expired(store.entries[k], receipts, now, hz)
                            <=> ~MayStay(receipts, store.entries[k], now, hz)
      BY <2>1, <3>1, ExpiredExact
    <3> QED BY <3>2 DEF Elapsed
  <2> HIDE DEF gone, late, next
  <2>4. next.s.order = Without(store.order, late) /\ next.evicted = late
    BY <2>2, <2>3 DEF Swept
  <2> QED BY <2>4 DEF late, next
<1>2. Consistent => SweepExact
  BY <1>1 DEF SweepExact
<1> QED BY <1>2, StoreIsConsistent, PTL

-----------------------------------------------------------------------------
(* The age-bounded store                                                   *)

\* The specification's words mean what the store's do.
LEMMA SameWords ==
  ASSUME NEW s, NEW K, NEW S
  PROVE  /\ AgeStore!Without(s, K) = Without(s, K)
         /\ AgeStore!Bytes(s, S) = Bytes(s, S)
         /\ AgeStore!Min(K) = Min(K)
         /\ AgeStore!ToSet(s) = ToSet(s)
<1>1. AgeStore!Without(s, K) = Without(s, K)
  BY DEF Without, FoldLeft, MapThenFoldSet, Max, AgeStore!Without, AgeStore!FoldLeft,
         AgeStore!MapThenFoldSet, AgeStore!Max
<1>2. AgeStore!Bytes(s, S) = Bytes(s, S)
  BY DEF Bytes, FoldLeft, MapThenFoldSet, Max, AgeStore!Bytes, AgeStore!FoldLeft,
         AgeStore!MapThenFoldSet, AgeStore!Max
<1>3. AgeStore!Min(K) = Min(K)
  BY DEF Min, AgeStore!Min
<1>4. AgeStore!ToSet(s) = ToSet(s)
  BY DEF ToSet, AgeStore!ToSet
<1> QED BY <1>1, <1>2, <1>3, <1>4

\* The room a frame needs, in the specification's words.
LEMMA FittingIs ==
  ASSUME Balanced(store), NEW key \in Key, NEW bytes \in Nat
  PROVE  AgeStore!Fitting(Without(store.order, {key}), bytes)
           = RoomFor(Cleared(store, key), bytes)
<1> DEFINE c == Cleared(store, key)
           w == Without(store.order, {key})
           y == SizeOf(store.entries)
           z == SizeOf(c.s.entries)
<1>1. /\ c \in Machine /\ c.s.order = w
      /\ c.s.entries = [k \in DOMAIN store.entries \ {key} |-> store.entries[k]]
  BY ClearedMachine
<1>2. Balanced(c.s) /\ w \in Seq(Key) /\ ToSet(w) = DOMAIN store.entries \ {key}
  <2>1. store.order \in Seq(Key) /\ ToSet(store.order) = DOMAIN store.entries
    BY BalancedSized DEF Balanced
  <2> QED BY <1>1, <2>1, WithoutKeeps DEF Machine
<1>3. Sized(w, z)
  <2>1. Sized(c.s.order, SizeOf(c.s.entries))
    BY <1>2, BalancedSized
  <2> QED BY <1>1, <2>1
<1>4. \A k \in ToSet(w) : z[k] = y[k]
  <2> SUFFICES ASSUME NEW k \in ToSet(w) PROVE z[k] = y[k]
    OBVIOUS
  <2> HIDE DEF c
  <2>1. k \in DOMAIN store.entries /\ k \in DOMAIN c.s.entries
        /\ c.s.entries[k] = store.entries[k]
    BY <1>1, <1>2
  <2> QED BY <2>1 DEF SizeOf
<1> HIDE DEF c, w, y, z
<1>5. ASSUME NEW n \in 0 .. Len(w) PROVE Bytes(Rest(w, n), y) = Bytes(Rest(w, n), z)
  <2> DEFINE r == Rest(w, n)
  <2>1. r \in Seq(Key)
    BY <1>2, RestPart
  <2>2. ToSet(r) \subseteq ToSet(w)
    BY <1>2, RestPart
  <2> HIDE DEF r
  <2>3. Sized(r, z)
    BY <1>2, <1>3, <2>1, <2>2, SizedSet
  <2>4. Bytes(r, y) = Bytes(r, z)
    BY <1>4, <2>1, <2>2, <2>3, BytesAgree
  <2> QED BY <2>4 DEF r
<1>6. RoomFor(c, bytes) = {n \in 0 .. Len(w) : Bytes(Rest(w, n), z) + bytes <= MaxBytes}
  BY <1>1 DEF RoomFor, z
<1>7. AgeStore!Fitting(w, bytes)
        = {n \in 0 .. Len(w) : Bytes(Rest(w, n), y) + bytes <= MaxBytes}
  <2>1. \A s : AgeStore!Bytes(s, y) = Bytes(s, y)
    BY SameWords
  <2>2. AgeStore!Fitting(w, bytes)
          = {n \in 0 .. Len(w) : AgeStore!Bytes(SubSeq(w, n + 1, Len(w)), y) + bytes <= MaxBytes}
    BY DEF AgeStore!Fitting, y
  <2> QED BY <2>1, <2>2 DEF Rest
<1> QED BY <1>5, <1>6, <1>7 DEF c, w

\* A frame that is stored is admitted: the oldest others leave, as few as can.
LEMMA PullAdmits ==
  ASSUME Balanced(store), NEW key \in Key, NEW receipt, NEW tick, NEW size \in 1 .. MaxBytes,
         NEW n \in RoomFor(Cleared(store, key), size), NEW gone,
         \A j \in RoomFor(Cleared(store, key), size) : n <= j,
         Stored(store, key, PulledFrame(receipt, size, tick), n, store', gone)
  PROVE  AgeStore!Admit(key, size)
<1> DEFINE f == PulledFrame(receipt, size, tick)
           w == Without(store.order, {key})
           R == RoomFor(Cleared(store, key), size)
           o == store'.order
<1>1. MaxBytes \in Nat /\ size \in Nat /\ size <= MaxBytes
  BY StoreAssumption
<1>2. AgeStore!Fitting(w, size) = R
  BY <1>1, FittingIs
<1>3. Min(R) = n
  <2>1. R \subseteq Nat
    BY DEF RoomFor
  <2> HIDE DEF R
  <2>2. \A x \in R : (\A j \in R : x <= j) => x = n
    BY <2>1 DEF R
  <2>3. n \in R /\ \A j \in R : n <= j
    BY DEF R
  <2> QED BY <2>2, <2>3, Zenon DEF Min
<1>4. /\ o = Append(Rest(w, n), key)
      /\ store'.entries = [k \in ToSet(o) |-> IF k = key THEN f ELSE store.entries[k]]
      /\ DOMAIN store'.entries \subseteq DOMAIN store.entries \cup {key}
  BY DEF Stored
<1>5. f.size = size
  BY DEF PulledFrame
<1> HIDE DEF f, w, R, o
<1>6. AgeStore!Without(store.order, {key}) = w
  BY SameWords DEF w
<1>7. AgeStore!Min(AgeStore!Fitting(w, size)) = n
  BY <1>2, <1>3, SameWords
<1>8. AgeStore!ToSet(o) = ToSet(o)
  BY SameWords
<1>9. SizeOf(store'.entries)
        = [k \in ToSet(o) |-> IF k = key THEN size ELSE SizeOf(store.entries)[k]]
  <2>1. DOMAIN store'.entries = ToSet(o)
    BY <1>4
  <2>2. ASSUME NEW k \in ToSet(o)
        PROVE  store'.entries[k].size = IF k = key THEN size ELSE SizeOf(store.entries)[k]
    <3>1. CASE k = key
      BY <1>4, <1>5, <3>1
    <3>2. CASE k # key
      <4>1. k \in DOMAIN store.entries
        BY <1>4, <2>1, <3>2
      <4> QED BY <1>4, <3>2, <4>1 DEF SizeOf
    <3> QED BY <3>1, <3>2
  <2>3. SizeOf(store'.entries) = [k \in ToSet(o) |-> store'.entries[k].size]
    BY <2>1 DEF SizeOf
  <2> QED BY <2>2, <2>3
<1>10. o = Append(SubSeq(w, n + 1, Len(w)), key)
  BY <1>4 DEF Rest
<1> QED BY <1>1, <1>6, <1>7, <1>8, <1>9, <1>10 DEF AgeStore!Admit, SizeOf, o

\* A sweep is an expiry of the frames it forgets.
LEMMA SweepExpires ==
  ASSUME Balanced(store), NEW gone \in SUBSET Held, Swept(store, gone, store')
  PROVE  gone \in SUBSET Key /\ AgeStore!Expire(gone)
<1> DEFINE o == store'.order
<1>1. /\ o = Without(store.order, gone) /\ Balanced(store')
      /\ store'.entries = [k \in DOMAIN store.entries \ gone |-> store.entries[k]]
      /\ DOMAIN store.entries \in SUBSET Key
  BY BalancedSized DEF Swept
<1>2. ToSet(o) = DOMAIN store'.entries
  BY <1>1 DEF Balanced
<1>3. AgeStore!Without(store.order, gone) = o
  BY <1>1, SameWords
<1>4. AgeStore!ToSet(o) = ToSet(o)
  BY SameWords
<1>5. SizeOf(store'.entries) = [k \in ToSet(o) |-> SizeOf(store.entries)[k]]
  <2>1. DOMAIN store'.entries = DOMAIN store.entries \ gone
    BY <1>1
  <2>2. \A k \in ToSet(o) : store'.entries[k].size = SizeOf(store.entries)[k]
    BY <1>1, <1>2, <2>1 DEF SizeOf
  <2>3. SizeOf(store'.entries) = [k \in ToSet(o) |-> store'.entries[k].size]
    BY <1>2 DEF SizeOf
  <2> QED BY <2>2, <2>3
<1> HIDE DEF o
<1>6. gone \in SUBSET Key
  BY <1>1 DEF Held
<1> QED BY <1>3, <1>4, <1>5, <1>6 DEF AgeStore!Expire, SizeOf, o

\* An empty store is an empty age-bounded store.
LEMMA AgeInitially == Init => AgeStore!AgeInit
<1> SUFFICES ASSUME Init PROVE store.order = <<>> /\ SizeOf(store.entries) = <<>>
  BY DEF AgeStore!AgeInit, SizeOf
<1>1. store.order = <<>> /\ store.entries = <<>>
  BY DEF Init
<1>2. DOMAIN store.entries = {}
  BY <1>1
<1>3. SizeOf(store.entries) = <<>>
  BY <1>2 DEF SizeOf
<1> QED BY <1>1, <1>3

\* Every step of the store is one of the age-bounded store, or changes nothing there.
LEMMA AgeSteps ==
  Consistent /\ [Next]_vars => [AgeStore!AgeNext]_(AgeStore!heldVars)
<1> SUFFICES ASSUME Consistent, [Next]_vars PROVE [AgeStore!AgeNext]_(AgeStore!heldVars)
  OBVIOUS
<1>1. ASSUME UNCHANGED store PROVE UNCHANGED AgeStore!heldVars
  BY <1>1 DEF AgeStore!heldVars, SizeOf
<1>2. ASSUME NEW session \in Session, NEW receipt \in Receipts, NEW key \in Key,
             NEW size \in Sizes, NEW tick \in Ticks,
             PullFrame(session, receipt, key, size, tick)
      PROVE  [AgeStore!AgeNext]_(AgeStore!heldVars)
  <2>1. CASE UNCHANGED store
    BY <1>1, <2>1
  <2>2. CASE ~UNCHANGED store
    <3>1. Balanced(store)
      BY DEF Consistent
    <3>2. PICK n, gone :
             /\ n \in RoomFor(Cleared(store, key), size)
             /\ size \in 1 .. MaxBytes
             /\ \A j \in RoomFor(Cleared(store, key), size) : n <= j
             /\ Stored(store, key, PulledFrame(receipt, size, tick), n, store', gone)
      BY <1>2, <2>2, <3>1, PullSteps
    <3>3. AgeStore!Admit(key, size)
      BY <3>1, <3>2, PullAdmits
    <3>4. size \in 0 .. MaxBytes
      BY <3>2, StoreAssumption
    <3> QED BY <3>3, <3>4 DEF AgeStore!AgeNext
  <2> QED BY <2>1, <2>2
<1>3. ASSUME NEW receipts \in BoundedSeq(Receipts, MaxVisible), NEW now \in Ticks,
             NEW hz \in Rates, Sweep(receipts, now, hz)
      PROVE  [AgeStore!AgeNext]_(AgeStore!heldVars)
  <2> DEFINE gone == Elapsed(receipts, now, hz)
  <2>1. Balanced(store) /\ Swept(store, gone, store')
    BY <1>3, SweepSteps DEF Consistent
  <2>2. gone \in SUBSET Held
    BY DEF Elapsed
  <2> HIDE DEF gone
  <2>3. gone \in SUBSET Key /\ AgeStore!Expire(gone)
    BY <2>1, <2>2, SweepExpires
  <2> QED BY <2>3 DEF AgeStore!AgeNext
<1>4. ASSUME GrantAuthority PROVE UNCHANGED store
  BY <1>4 DEF GrantAuthority
<1>5. CASE UNCHANGED vars
  BY <1>1, <1>5 DEF vars
<1> HIDE DEF Consistent
<1> QED BY <1>1, <1>2, <1>3, <1>4, <1>5 DEF Next

\* The code's store implements the age-bounded store: every insert, replacement,
\* eviction loop and retention sweep is one of its steps, and nothing else
\* moves a frame.
THEOREM StoreIsAgeBounded == Spec => ImplementsAgeStore
<1>1. Init => AgeStore!AgeInit
  BY AgeInitially
<1>2. Consistent /\ [Next]_vars => [AgeStore!AgeNext]_(AgeStore!heldVars)
  BY AgeSteps
<1> QED BY <1>1, <1>2, StoreIsConsistent, PTL DEF Spec, ImplementsAgeStore, AgeStore!AgeSpec

-----------------------------------------------------------------------------
(* The folds of the Halo session                                           *)

Sample == [kind : STRING, seq : Nat]

\* Picking out the samples of a kind, one sample at a time.
LEMMA OnlySteps ==
  ASSUME NEW kind
  PROVE  /\ Only(<<>>, kind) = <<>>
         /\ \A s \in Seq(Sample) :
              /\ Only(s, kind) \in Seq(Sample)
              /\ \A x \in Sample :
                   Only(Append(s, x), kind) =
                     IF x.kind = kind THEN Append(Only(s, kind), x) ELSE Only(s, kind)
<1> DEFINE S == Sample
           A == Seq(Sample)
           b == <<>>
           Op(kept, x) == IF x.kind = kind THEN Append(kept, x) ELSE kept
           f == [x \in S |-> [a \in A |-> Op(a, x)]]
           F == [s \in Seq(S) |-> Only(s, kind)]
<1>1. b \in A
  OBVIOUS
<1>2. f \in [S -> [A -> A]]
  <2>1. \A x \in S, a \in A : Op(a, x) \in A
    OBVIOUS
  <2> HIDE DEF Op, S, A
  <2> QED BY <2>1
<1>3. ASSUME NEW s \in Seq(S)
      PROVE  Ends(A, b, s, f, F[s])
  <2> DEFINE Folded(iter) ==
               iter = [T \in SUBSET DOMAIN s |->
                         IF T = {} THEN b ELSE Op(iter[T \ {Max(T)}], s[Max(T)])]
             c == CHOOSE iter : Folded(iter)
  <2>1. Only(s, kind) = c[DOMAIN s]
    BY DEF Only, FoldLeft, MapThenFoldSet
  <2>2. \A T \in SUBSET DOMAIN s : T # {} => s[Max(T)] \in S
    <3>1. DOMAIN s = 1 .. Len(s) /\ Len(s) \in Nat /\ \A i \in 1 .. Len(s) : s[i] \in S
      OBVIOUS
    <3> HIDE DEF S
    <3>2. \A T \in SUBSET (1 .. Len(s)) : T # {} => Max(T) \in 1 .. Len(s)
      BY <3>1, MaxAmong
    <3> QED BY <3>1, <3>2
  <2> HIDE DEF Op, S, A, b
  <2>3. Folded(c)
    <3> HIDE DEF f
    <3>1. PICK iter : Steps(A, b, s, f, iter)
      BY <1>1, <1>2, StepsExist, Zenon
    <3> USE DEF f, Steps
    <3>2. \A T \in SUBSET DOMAIN s :
            T # {} => iter[T] = Op(iter[T \ {Max(T)}], s[Max(T)])
      BY <2>2, <3>1
    <3>3. Folded(iter)
      BY <3>1, <3>2
    <3> HIDE DEF Folded
    <3> QED BY <3>3
  <2> HIDE DEF c
  <2>4. Reaches(A, b, s, f, c)
    BY <2>2, <2>3 DEF Reaches
  <2>5. F[s] = c[DOMAIN s]
    BY <2>1
  <2> HIDE DEF f, F, Folded
  <2> QED BY <1>1, <1>2, <2>4, <2>5, StepsWalk
<1>4. /\ F[<<>>] = b
      /\ \A s \in Seq(S) : F[s] \in A /\ \A x \in S : F[Append(s, x)] = f[x][F[s]]
  <2> HIDE DEF f, F, S, A, b
  <2> QED BY <1>1, <1>2, <1>3, WalksAppend
<1>5. <<>> \in Seq(S) /\ \A s \in Seq(S), x \in S : Append(s, x) \in Seq(S)
  OBVIOUS
<1> QED BY <1>4, <1>5

\* A changed cell, as changed_cells describes it.
Change == [cell : Cell, glyph : Glyph \cup {Blank}, priority : Priority]

\* The primitive of a cell has bytes.
LEMMA BytesAbove ==
  ASSUME NEW x \in Change
  PROVE  CellBytes(x) \in Nat /\ CellBytes(x) > 0
<1>1. Size \in [Cell -> [Glyph \cup {Blank} -> Nat \ {0}]]
  BY HaloAssumption
<1>2. x.cell \in Cell /\ x.glyph \in Glyph \cup {Blank}
  BY DEF Change
<1>3. Size[x.cell][x.glyph] \in Nat \ {0}
  BY <1>1, <1>2
<1> QED BY <1>3 DEF CellBytes

\* Adding up the bytes of some cells.
LEMMA SumSteps ==
  /\ SumBytes(<<>>) = 0
  /\ \A s \in Seq(Change) :
       /\ SumBytes(s) \in Nat
       /\ \A x \in Change : SumBytes(Append(s, x)) = SumBytes(s) + CellBytes(x)
<1> DEFINE S == Change
           A == Nat
           b == 0
           Op(a, x) == a + CellBytes(x)
           f == [x \in S |-> [a \in A |-> Op(a, x)]]
           F == [s \in Seq(S) |-> SumBytes(s)]
<1>1. b \in A
  OBVIOUS
<1>2. f \in [S -> [A -> A]]
  <2>1. \A x \in S, a \in A : Op(a, x) \in A
    <3>1. \A x \in Change : CellBytes(x) \in Nat
      BY BytesAbove
    <3> QED BY <3>1
  <2> HIDE DEF Op, S, A
  <2> QED BY <2>1
<1>3. ASSUME NEW s \in Seq(S)
      PROVE  Ends(A, b, s, f, F[s])
  <2> DEFINE Folded(iter) ==
               iter = [T \in SUBSET DOMAIN s |->
                         IF T = {} THEN b ELSE Op(iter[T \ {Max(T)}], s[Max(T)])]
             c == CHOOSE iter : Folded(iter)
  <2>1. SumBytes(s) = c[DOMAIN s]
    BY DEF SumBytes, FoldLeft, MapThenFoldSet
  <2>2. \A T \in SUBSET DOMAIN s : T # {} => s[Max(T)] \in S
    <3>1. DOMAIN s = 1 .. Len(s) /\ Len(s) \in Nat /\ \A i \in 1 .. Len(s) : s[i] \in S
      OBVIOUS
    <3> HIDE DEF S
    <3>2. \A T \in SUBSET (1 .. Len(s)) : T # {} => Max(T) \in 1 .. Len(s)
      BY <3>1, MaxAmong
    <3> QED BY <3>1, <3>2
  <2> HIDE DEF Op, S, A, b
  <2>3. Folded(c)
    <3> HIDE DEF f
    <3>1. PICK iter : Steps(A, b, s, f, iter)
      BY <1>1, <1>2, StepsExist, Zenon
    <3> USE DEF f, Steps
    <3>2. \A T \in SUBSET DOMAIN s :
            T # {} => iter[T] = Op(iter[T \ {Max(T)}], s[Max(T)])
      BY <2>2, <3>1
    <3>3. Folded(iter)
      BY <3>1, <3>2
    <3> HIDE DEF Folded
    <3> QED BY <3>3
  <2> HIDE DEF c
  <2>4. Reaches(A, b, s, f, c)
    BY <2>2, <2>3 DEF Reaches
  <2>5. F[s] = c[DOMAIN s]
    BY <2>1
  <2> HIDE DEF f, F, Folded
  <2> QED BY <1>1, <1>2, <2>4, <2>5, StepsWalk
<1>4. /\ F[<<>>] = b
      /\ \A s \in Seq(S) : F[s] \in A /\ \A x \in S : F[Append(s, x)] = f[x][F[s]]
  <2> HIDE DEF f, F, S, A, b
  <2> QED BY <1>1, <1>2, <1>3, WalksAppend
<1>5. <<>> \in Seq(S) /\ \A s \in Seq(S), x \in S : Append(s, x) \in Seq(S)
  OBVIOUS
<1> HIDE DEF S, A, b, Op
<1> QED BY <1>4, <1>5 DEF S, A, b, Op

\* What schedule returns.
PacketType == [cells : Seq(Change), bytes : Nat, deferred : Seq(Change)]

\* One turn of its pass.
Offer(p, x) ==
  IF Fits(p.bytes, x)
  THEN [p EXCEPT !.bytes = @ + CellBytes(x), !.cells = Append(@, x)]
  ELSE [p EXCEPT !.deferred = Append(@, x)]

\* A turn of the pass leaves a packet.
LEMMA OfferType ==
  ASSUME NEW p \in PacketType, NEW x \in Change
  PROVE  Offer(p, x) \in PacketType
<1>1. CellBytes(x) \in Nat
  BY BytesAbove
<1>2. Append(p.cells, x) \in Seq(Change) /\ Append(p.deferred, x) \in Seq(Change)
      /\ p.bytes + CellBytes(x) \in Nat
  BY <1>1 DEF PacketType
<1>3. CASE Fits(p.bytes, x)
  BY <1>2, <1>3 DEF Offer, PacketType
<1>4. CASE ~Fits(p.bytes, x)
  BY <1>2, <1>4 DEF Offer, PacketType
<1> QED BY <1>3, <1>4

\* The pass over the changed cells, one cell at a time.
LEMMA PackSteps ==
  /\ Pack(<<>>) = NoPacket
  /\ \A s \in Seq(Change) :
       /\ Pack(s) \in PacketType
       /\ \A x \in Change : Pack(Append(s, x)) = Offer(Pack(s), x)
<1> DEFINE S == Change
           A == PacketType
           b == NoPacket
           Op(a, x) == Offer(a, x)
           f == [x \in S |-> [a \in A |-> Op(a, x)]]
           F == [s \in Seq(S) |-> Pack(s)]
<1>1. b \in A
  BY DEF PacketType, NoPacket
<1>2. f \in [S -> [A -> A]]
  <2>1. \A x \in S, a \in A : Op(a, x) \in A
    BY OfferType
  <2> HIDE DEF Op, S, A
  <2> QED BY <2>1
<1>3. ASSUME NEW s \in Seq(S)
      PROVE  Ends(A, b, s, f, F[s])
  <2> DEFINE Folded(iter) ==
               iter = [T \in SUBSET DOMAIN s |->
                         IF T = {} THEN b ELSE Op(iter[T \ {Max(T)}], s[Max(T)])]
             c == CHOOSE iter : Folded(iter)
  <2>1. Pack(s) = c[DOMAIN s]
    BY DEF Pack, Offer, FoldLeft, MapThenFoldSet
  <2>2. \A T \in SUBSET DOMAIN s : T # {} => s[Max(T)] \in S
    <3>1. DOMAIN s = 1 .. Len(s) /\ Len(s) \in Nat /\ \A i \in 1 .. Len(s) : s[i] \in S
      OBVIOUS
    <3> HIDE DEF S
    <3>2. \A T \in SUBSET (1 .. Len(s)) : T # {} => Max(T) \in 1 .. Len(s)
      BY <3>1, MaxAmong
    <3> QED BY <3>1, <3>2
  <2> HIDE DEF Op, S, A, b
  <2>3. Folded(c)
    <3> HIDE DEF f
    <3>1. PICK iter : Steps(A, b, s, f, iter)
      BY <1>1, <1>2, StepsExist, Zenon
    <3> USE DEF f, Steps
    <3>2. \A T \in SUBSET DOMAIN s :
            T # {} => iter[T] = Op(iter[T \ {Max(T)}], s[Max(T)])
      BY <2>2, <3>1
    <3>3. Folded(iter)
      BY <3>1, <3>2
    <3> HIDE DEF Folded
    <3> QED BY <3>3
  <2> HIDE DEF c
  <2>4. Reaches(A, b, s, f, c)
    BY <2>2, <2>3 DEF Reaches
  <2>5. F[s] = c[DOMAIN s]
    BY <2>1
  <2> HIDE DEF f, F, Folded
  <2> QED BY <1>1, <1>2, <2>4, <2>5, StepsWalk
<1>4. /\ F[<<>>] = b
      /\ \A s \in Seq(S) : F[s] \in A /\ \A x \in S : F[Append(s, x)] = f[x][F[s]]
  <2> HIDE DEF f, F, S, A, b
  <2> QED BY <1>1, <1>2, <1>3, WalksAppend
<1>5. <<>> \in Seq(S) /\ \A s \in Seq(S), x \in S : Append(s, x) \in Seq(S)
  OBVIOUS
<1> HIDE DEF S, A, b, Op
<1> QED BY <1>4, <1>5 DEF S, A, b, Op

\* What a LuaFrameState may hold.
States == UNION {[D -> Looks] : D \in SUBSET Cell}

\* Committing a cell leaves a frame state.
LEMMA ApplyType ==
  ASSUME NEW x \in Change, NEW st \in States
  PROVE  ApplyCell(x, st) \in States
<1>1. PICK D \in SUBSET Cell : st \in [D -> Looks]
  BY DEF States
<1>2. x.cell \in Cell /\ (x.glyph # Blank => x.glyph \in Glyph) /\ x.priority \in Priority
  BY DEF Change
<1>3. CASE x.glyph = Blank
  <2>1. ApplyCell(x, st) \in [D \ {x.cell} -> Looks]
    BY <1>1, <1>3 DEF ApplyCell
  <2>2. D \ {x.cell} \in SUBSET Cell
    OBVIOUS
  <2> QED BY <2>1, <2>2 DEF States
<1>4. CASE x.glyph # Blank
  <2>1. [glyph |-> x.glyph, priority |-> x.priority] \in Looks
    BY <1>2, <1>4 DEF Looks
  <2>2. ApplyCell(x, st) \in [D \cup {x.cell} -> Looks]
    BY <1>1, <1>4, <2>1 DEF ApplyCell
  <2>3. D \cup {x.cell} \in SUBSET Cell
    BY <1>2
  <2> QED BY <2>2, <2>3 DEF States
<1> QED BY <1>3, <1>4

\* Committing the cells that were sent, one at a time.
LEMMA AppliedSteps ==
  ASSUME NEW st \in States
  PROVE  /\ Applied(<<>>, st) = st
         /\ \A s \in Seq(Change) :
              /\ Applied(s, st) \in States
              /\ \A x \in Change : Applied(Append(s, x), st) = ApplyCell(x, Applied(s, st))
<1> DEFINE S == Change
           A == States
           b == st
           Op(a, x) == ApplyCell(x, a)
           f == [x \in S |-> [a \in A |-> Op(a, x)]]
           F == [s \in Seq(S) |-> Applied(s, st)]
<1>1. b \in A
  OBVIOUS
<1>2. f \in [S -> [A -> A]]
  <2>1. \A x \in S, a \in A : Op(a, x) \in A
    BY ApplyType
  <2> HIDE DEF Op, S, A
  <2> QED BY <2>1
<1>3. ASSUME NEW s \in Seq(S)
      PROVE  Ends(A, b, s, f, F[s])
  <2> DEFINE Folded(iter) ==
               iter = [T \in SUBSET DOMAIN s |->
                         IF T = {} THEN b ELSE Op(iter[T \ {Max(T)}], s[Max(T)])]
             c == CHOOSE iter : Folded(iter)
  <2>1. Applied(s, st) = c[DOMAIN s]
    BY DEF Applied, FoldLeft, MapThenFoldSet
  <2>2. \A T \in SUBSET DOMAIN s : T # {} => s[Max(T)] \in S
    <3>1. DOMAIN s = 1 .. Len(s) /\ Len(s) \in Nat /\ \A i \in 1 .. Len(s) : s[i] \in S
      OBVIOUS
    <3> HIDE DEF S
    <3>2. \A T \in SUBSET (1 .. Len(s)) : T # {} => Max(T) \in 1 .. Len(s)
      BY <3>1, MaxAmong
    <3> QED BY <3>1, <3>2
  <2> HIDE DEF Op, S, A, b
  <2>3. Folded(c)
    <3> HIDE DEF f
    <3>1. PICK iter : Steps(A, b, s, f, iter)
      BY <1>1, <1>2, StepsExist, Zenon
    <3> USE DEF f, Steps
    <3>2. \A T \in SUBSET DOMAIN s :
            T # {} => iter[T] = Op(iter[T \ {Max(T)}], s[Max(T)])
      BY <2>2, <3>1
    <3>3. Folded(iter)
      BY <3>1, <3>2
    <3> HIDE DEF Folded
    <3> QED BY <3>3
  <2> HIDE DEF c
  <2>4. Reaches(A, b, s, f, c)
    BY <2>2, <2>3 DEF Reaches
  <2>5. F[s] = c[DOMAIN s]
    BY <2>1
  <2> HIDE DEF f, F, Folded
  <2> QED BY <1>1, <1>2, <2>4, <2>5, StepsWalk
<1>4. /\ F[<<>>] = b
      /\ \A s \in Seq(S) : F[s] \in A /\ \A x \in S : F[Append(s, x)] = f[x][F[s]]
  <2> HIDE DEF f, F, S, A, b
  <2> QED BY <1>1, <1>2, <1>3, WalksAppend
<1>5. <<>> \in Seq(S) /\ \A s \in Seq(S), x \in S : Append(s, x) \in Seq(S)
  OBVIOUS
<1> HIDE DEF S, A, b, Op
<1> QED BY <1>4, <1>5 DEF S, A, b, Op

\* What the glasses may show.
Displays == [Cell -> Glyph \cup {Blank}]

\* Drawing the cells that were sent, one at a time.
LEMMA DrawnSteps ==
  ASSUME NEW shown \in Displays
  PROVE  /\ Drawn(<<>>, shown) = shown
         /\ \A s \in Seq(Change) :
              /\ Drawn(s, shown) \in Displays
              /\ \A x \in Change : Drawn(Append(s, x), shown) = SetCell(Drawn(s, shown), x)
<1> DEFINE S == Change
           A == Displays
           b == shown
           Op(a, x) == SetCell(a, x)
           f == [x \in S |-> [a \in A |-> Op(a, x)]]
           F == [s \in Seq(S) |-> Drawn(s, shown)]
<1>1. b \in A
  OBVIOUS
<1>2. f \in [S -> [A -> A]]
  <2>1. \A x \in S, a \in A : Op(a, x) \in A
    BY DEF Displays, Change, SetCell
  <2> HIDE DEF Op, S, A
  <2> QED BY <2>1
<1>3. ASSUME NEW s \in Seq(S)
      PROVE  Ends(A, b, s, f, F[s])
  <2> DEFINE Folded(iter) ==
               iter = [T \in SUBSET DOMAIN s |->
                         IF T = {} THEN b ELSE Op(iter[T \ {Max(T)}], s[Max(T)])]
             c == CHOOSE iter : Folded(iter)
  <2>1. Drawn(s, shown) = c[DOMAIN s]
    BY DEF Drawn, FoldLeft, MapThenFoldSet
  <2>2. \A T \in SUBSET DOMAIN s : T # {} => s[Max(T)] \in S
    <3>1. DOMAIN s = 1 .. Len(s) /\ Len(s) \in Nat /\ \A i \in 1 .. Len(s) : s[i] \in S
      OBVIOUS
    <3> HIDE DEF S
    <3>2. \A T \in SUBSET (1 .. Len(s)) : T # {} => Max(T) \in 1 .. Len(s)
      BY <3>1, MaxAmong
    <3> QED BY <3>1, <3>2
  <2> HIDE DEF Op, S, A, b
  <2>3. Folded(c)
    <3> HIDE DEF f
    <3>1. PICK iter : Steps(A, b, s, f, iter)
      BY <1>1, <1>2, StepsExist, Zenon
    <3> USE DEF f, Steps
    <3>2. \A T \in SUBSET DOMAIN s :
            T # {} => iter[T] = Op(iter[T \ {Max(T)}], s[Max(T)])
      BY <2>2, <3>1
    <3>3. Folded(iter)
      BY <3>1, <3>2
    <3> HIDE DEF Folded
    <3> QED BY <3>3
  <2> HIDE DEF c
  <2>4. Reaches(A, b, s, f, c)
    BY <2>2, <2>3 DEF Reaches
  <2>5. F[s] = c[DOMAIN s]
    BY <2>1
  <2> HIDE DEF f, F, Folded
  <2> QED BY <1>1, <1>2, <2>4, <2>5, StepsWalk
<1>4. /\ F[<<>>] = b
      /\ \A s \in Seq(S) : F[s] \in A /\ \A x \in S : F[Append(s, x)] = f[x][F[s]]
  <2> HIDE DEF f, F, S, A, b
  <2> QED BY <1>1, <1>2, <1>3, WalksAppend
<1>5. <<>> \in Seq(S) /\ \A s \in Seq(S), x \in S : Append(s, x) \in Seq(S)
  OBVIOUS
<1> HIDE DEF S, A, b, Op
<1> QED BY <1>4, <1>5 DEF S, A, b, Op

-----------------------------------------------------------------------------
(* Samples polled by kind                                                  *)

\* Picking out a kind goes through concatenation.
LEMMA OnlyJoined ==
  ASSUME NEW s \in Seq(Sample), NEW t \in Seq(Sample), NEW kind
  PROVE  Only(s \o t, kind) = Only(s, kind) \o Only(t, kind)
<1> DEFINE O(q) == Only(q, kind)
           G == {q \in Seq(Sample) : O(s \o q) = O(s) \o O(q)}
<1>1. /\ O(<<>>) = <<>>
      /\ \A q \in Seq(Sample) :
           /\ O(q) \in Seq(Sample)
           /\ \A x \in Sample : O(Append(q, x)) = IF x.kind = kind THEN Append(O(q), x) ELSE O(q)
  BY OnlySteps
<1> HIDE DEF O
<1>2. <<>> \in G
  <2>1. <<>> \in Seq(Sample) /\ s \o <<>> = s
    OBVIOUS
  <2>2. O(s) \o <<>> = O(s)
    BY <1>1
  <2> QED BY <1>1, <2>1, <2>2
<1>3. ASSUME NEW q \in Seq(Sample), NEW x \in Sample, q \in G PROVE Append(q, x) \in G
  <2>1. s \o Append(q, x) = Append(s \o q, x) /\ s \o q \in Seq(Sample)
    OBVIOUS
  <2>2. O(s) \o Append(O(q), x) = Append(O(s) \o O(q), x)
    BY <1>1
  <2>3. O(Append(s \o q, x)) = IF x.kind = kind THEN Append(O(s \o q), x) ELSE O(s \o q)
    BY <1>1, <2>1
  <2>4. O(s \o q) = O(s) \o O(q)
    BY <1>3
  <2>5. O(Append(q, x)) = IF x.kind = kind THEN Append(O(q), x) ELSE O(q)
    BY <1>1
  <2>6. Append(q, x) \in Seq(Sample)
    OBVIOUS
  <2> QED BY <2>1, <2>2, <2>3, <2>4, <2>5, <2>6
<1>4. Seq(Sample) \subseteq G
  <2> HIDE DEF G
  <2> QED BY <1>2, <1>3, SeqInduction
<1> QED BY <1>4 DEF O

\* The sequences of this kind do not go back along s.
Rising(s, kind) ==
  \A i, j \in DOMAIN s : i < j /\ s[i].kind = kind /\ s[j].kind = kind => s[i].seq <= s[j].seq

\* What is left are samples of s of the kind, in the order of s.
Sifted(s, kind, o) ==
  /\ \A i \in DOMAIN o : o[i].kind = kind /\ \E j \in DOMAIN s : s[j] = o[i]
  /\ Rising(s, kind) => \A i, j \in DOMAIN o : i < j => o[i].seq <= o[j].seq

\* What is picked out are samples of the kind in their order.
LEMMA OnlySifted ==
  ASSUME NEW s \in Seq(Sample), NEW kind
  PROVE  Sifted(s, kind, Only(s, kind))
<1> DEFINE O(q) == Only(q, kind)
           G == {q \in Seq(Sample) : Sifted(q, kind, O(q))}
<1>1. /\ O(<<>>) = <<>>
      /\ \A q \in Seq(Sample) :
           /\ O(q) \in Seq(Sample)
           /\ \A x \in Sample : O(Append(q, x)) = IF x.kind = kind THEN Append(O(q), x) ELSE O(q)
  BY OnlySteps
<1> HIDE DEF O
<1>2. <<>> \in G
  <2>1. <<>> \in Seq(Sample) /\ \A i \in DOMAIN <<>> : FALSE
    OBVIOUS
  <2>2. Sifted(<<>>, kind, <<>>)
    BY <2>1 DEF Sifted
  <2> QED BY <1>1, <2>1, <2>2
<1>3. ASSUME NEW q \in Seq(Sample), NEW x \in Sample, q \in G PROVE Append(q, x) \in G
  <2> DEFINE t == Append(q, x)
             o == O(q)
             m == Len(q)
             n == Len(o)
  <2>1. /\ t \in Seq(Sample) /\ m \in Nat /\ DOMAIN q = 1 .. m /\ DOMAIN t = 1 .. (m + 1)
        /\ t[m + 1] = x /\ \A i \in 1 .. m : t[i] = q[i]
    OBVIOUS
  <2>2. o \in Seq(Sample) /\ O(t) = IF x.kind = kind THEN Append(o, x) ELSE o
    BY <1>1
  <2>3. n \in Nat /\ DOMAIN o = 1 .. n
    BY <2>2
  <2>4. Sifted(q, kind, o)
    BY <1>3
  <2> HIDE DEF t, o, m, n
  <2>5. \A i \in 1 .. m : i \in 1 .. (m + 1) /\ i < m + 1
    BY <2>1
  <2>6. Rising(t, kind) => Rising(q, kind)
    BY <2>1, <2>5 DEF Rising
  <2>7. \A i \in 1 .. n : o[i].kind = kind /\ \E j \in 1 .. m : q[j] = o[i]
    BY <2>1, <2>3, <2>4 DEF Sifted
  <2>8. CASE x.kind # kind
    <3>1. \A i \in DOMAIN o : o[i].kind = kind /\ \E j \in DOMAIN t : t[j] = o[i]
      BY <2>1, <2>3, <2>5, <2>7
    <3>2. Sifted(t, kind, o)
      BY <2>4, <2>6, <3>1 DEF Sifted
    <3> QED BY <2>1, <2>2, <2>8, <3>2 DEF t
  <2>9. CASE x.kind = kind
    <3> DEFINE w == Append(o, x)
    <3>1. DOMAIN w = 1 .. (n + 1) /\ w[n + 1] = x /\ \A i \in 1 .. n : w[i] = o[i]
      BY <2>2, <2>3 DEF n
    <3> HIDE DEF w
    <3>2. \A i \in 1 .. (n + 1) : (i \in 1 .. n \/ i = n + 1)
      BY <2>3
    <3>3. \A i \in DOMAIN w : w[i].kind = kind /\ \E j \in DOMAIN t : t[j] = w[i]
      <4>1. m + 1 \in DOMAIN t
        BY <2>1
      <4> QED BY <2>1, <2>5, <2>7, <2>9, <3>1, <3>2, <4>1
    <3>4. ASSUME Rising(t, kind), NEW i \in DOMAIN w, NEW j \in DOMAIN w, i < j
          PROVE  w[i].seq <= w[j].seq
      <4>1. i \in 1 .. n
        BY <2>3, <3>1, <3>2, <3>4
      <4>2. CASE j \in 1 .. n
        BY <2>3, <2>4, <2>6, <3>1, <3>4, <4>1, <4>2 DEF Sifted
      <4>3. CASE j = n + 1
        <5>1. PICK k \in 1 .. m : q[k] = o[i]
          BY <2>7, <4>1
        <5>2. t[k] = o[i] /\ k \in DOMAIN t /\ m + 1 \in DOMAIN t /\ k < m + 1
          BY <2>1, <2>5, <5>1
        <5>3. t[k].kind = kind /\ t[m + 1].kind = kind
          BY <2>1, <2>7, <2>9, <4>1, <5>2
        <5>4. t[k].seq <= t[m + 1].seq
          BY <3>4, <5>2, <5>3 DEF Rising
        <5> QED BY <2>1, <3>1, <4>1, <4>3, <5>2, <5>4
      <4> QED BY <3>1, <3>2, <4>2, <4>3
    <3>5. Sifted(t, kind, w)
      BY <3>3, <3>4 DEF Sifted
    <3> QED BY <2>1, <2>2, <2>9, <3>5 DEF t, w
  <2> QED BY <2>8, <2>9
<1>4. Seq(Sample) \subseteq G
  <2> HIDE DEF G
  <2> QED BY <1>2, <1>3, SeqInduction
<1> QED BY <1>4 DEF O

\* Concatenation and subsequences, position by position.
Joins(S, a, b, c) ==
  /\ c \in Seq(S) /\ Len(c) = Len(a) + Len(b)
  /\ \A i \in 1 .. Len(a) : c[i] = a[i]
  /\ \A i \in 1 .. Len(b) : c[Len(a) + i] = b[i]

\* Concatenation puts one sequence behind the other.
LEMMA JoinedIs ==
  ASSUME NEW S, NEW a \in Seq(S), NEW b \in Seq(S)
  PROVE  Joins(S, a, b, a \o b)
BY DEF Joins

\* A subsequence, position by position.
LEMMA Parted ==
  ASSUME NEW S, NEW s \in Seq(S), NEW m \in 1 .. (Len(s) + 1), NEW n \in (m - 1) .. Len(s)
  PROVE  /\ SubSeq(s, m, n) \in Seq(S) /\ Len(SubSeq(s, m, n)) = n - m + 1
         /\ \A i \in 1 .. (n - m + 1) : SubSeq(s, m, n)[i] = s[m + i - 1]
OBVIOUS

\* Sequences with the same elements.
LEMMA SameElements ==
  ASSUME NEW S, NEW a \in Seq(S), NEW b \in Seq(S), Len(a) = Len(b),
         \A i \in 1 .. Len(a) : a[i] = b[i]
  PROVE  a = b
OBVIOUS

\* A sequence taken apart at a position.
LEMMA TakenApart ==
  ASSUME NEW S, NEW s \in Seq(S), NEW p \in 1 .. Len(s)
  PROVE  s = SubSeq(s, 1, p - 1) \o (<<s[p]>> \o SubSeq(s, p + 1, Len(s)))
<1> DEFINE n == Len(s)
           u == SubSeq(s, 1, p - 1)
           v == SubSeq(s, p + 1, n)
           e == <<s[p]>>
           w == e \o v
           z == u \o w
<1>1. n \in Nat /\ p \in 1 .. n /\ DOMAIN s = 1 .. n
  OBVIOUS
<1>2. u \in Seq(S) /\ Len(u) = p - 1 /\ \A i \in 1 .. (p - 1) : u[i] = s[i]
  <2>1. 1 \in 1 .. (Len(s) + 1) /\ p - 1 \in (1 - 1) .. Len(s)
    BY <1>1
  <2>2. u \in Seq(S) /\ Len(u) = (p - 1) - 1 + 1
        /\ \A i \in 1 .. ((p - 1) - 1 + 1) : u[i] = s[1 + i - 1]
    BY <2>1, Parted
  <2> HIDE DEF u
  <2>3. (p - 1) - 1 + 1 = p - 1 /\ \A i \in 1 .. (p - 1) : 1 + i - 1 = i
    BY <1>1
  <2> QED BY <2>2, <2>3
<1>3. v \in Seq(S) /\ Len(v) = n - p /\ \A i \in 1 .. (n - p) : v[i] = s[p + i]
  <2>1. p + 1 \in 1 .. (Len(s) + 1) /\ n \in ((p + 1) - 1) .. Len(s)
    BY <1>1
  <2>2. v \in Seq(S) /\ Len(v) = n - (p + 1) + 1
        /\ \A i \in 1 .. (n - (p + 1) + 1) : v[i] = s[(p + 1) + i - 1]
    BY <2>1, Parted
  <2> HIDE DEF v
  <2>3. n - (p + 1) + 1 = n - p /\ \A i \in 1 .. (n - p) : (p + 1) + i - 1 = p + i
    BY <1>1
  <2> QED BY <2>2, <2>3
<1>4. e \in Seq(S) /\ Len(e) = 1 /\ e[1] = s[p]
  BY <1>1
<1> HIDE DEF n, u, v, e
<1>5. /\ w \in Seq(S) /\ Len(w) = n - p + 1 /\ w[1] = s[p]
      /\ \A i \in 1 .. (n - p) : w[1 + i] = s[p + i]
  <2>1. Joins(S, e, v, w)
    BY <1>3, <1>4, JoinedIs
  <2> HIDE DEF w
  <2> USE DEF Joins
  <2>2. 1 \in 1 .. Len(e) /\ Len(e) + Len(v) = n - p + 1
    BY <1>1, <1>3, <1>4
  <2>3. w[1] = s[p]
    BY <1>4, <2>1, <2>2
  <2>4. \A i \in 1 .. (n - p) : w[1 + i] = s[p + i]
    BY <1>3, <1>4, <2>1
  <2> QED BY <2>1, <2>2, <2>3, <2>4
<1> HIDE DEF w
<1>6. /\ z \in Seq(S) /\ Len(z) = n
      /\ \A i \in 1 .. (p - 1) : z[i] = s[i]
      /\ \A i \in 1 .. (n - p + 1) : z[(p - 1) + i] = w[i]
  <2>1. Joins(S, u, w, z)
    BY <1>2, <1>5, JoinedIs
  <2> HIDE DEF z
  <2> USE DEF Joins
  <2> QED BY <1>1, <1>2, <1>5, <2>1
<1> HIDE DEF z
<1>7. \A i \in 1 .. n : s[i] = z[i]
  <2> SUFFICES ASSUME NEW i \in 1 .. n PROVE z[i] = s[i]
    OBVIOUS
  <2>1. CASE i \in 1 .. (p - 1)
    BY <1>6, <2>1
  <2>2. CASE i = p
    <3>1. 1 \in 1 .. (n - p + 1)
      BY <1>1
    <3>2. z[(p - 1) + 1] = w[1]
      BY <1>6, <3>1
    <3>3. (p - 1) + 1 = p
      BY <1>1
    <3>4. z[p] = s[p]
      BY <1>5, <3>2, <3>3
    <3> QED BY <2>2, <3>4
  <2>3. CASE i > p
    <3> DEFINE j == i - p
    <3>1. /\ j \in 1 .. (n - p) /\ 1 + j \in 1 .. (n - p + 1)
          /\ (p - 1) + (1 + j) = i /\ p + j = i
      BY <1>1, <2>3
    <3> HIDE DEF j
    <3>2. w[1 + j] = s[p + j] /\ z[(p - 1) + (1 + j)] = w[1 + j]
      BY <1>5, <1>6, <3>1
    <3> QED BY <3>1, <3>2
  <2> QED BY <1>1, <2>1, <2>2, <2>3
<1>8. s = z
  BY <1>6, <1>7, SameElements DEF n
<1> QED BY <1>8 DEF z, w, u, v, e, n

\* Taking the first sample of a kind out of the queue.
Takes(s, kind, x, r) ==
  /\ r \in Seq(Sample)
  /\ Only(s, kind) = <<x>> \o Only(r, kind)
  /\ \A k : k # kind => Only(r, k) = Only(s, k)

\* Removing the first sample of a kind takes it off the front of its kind and
\* leaves the other kinds alone.
LEMMA FirstTaken ==
  ASSUME NEW s \in Seq(Sample), NEW kind, NEW p \in DOMAIN s, s[p].kind = kind,
         \A i \in DOMAIN s : s[i].kind = kind => p <= i
  PROVE  Takes(s, kind, s[p], RemoveAt(s, p))
<1> DEFINE u == SubSeq(s, 1, p - 1)
           v == SubSeq(s, p + 1, Len(s))
           x == s[p]
           r == RemoveAt(s, p)
           e == <<x>>
<1>1. /\ Len(s) \in Nat /\ DOMAIN s = 1 .. Len(s) /\ p \in 1 .. Len(s) /\ x \in Sample
      /\ u \in Seq(Sample) /\ v \in Seq(Sample) /\ e \in Seq(Sample)
  OBVIOUS
<1>2. Len(u) = p - 1 /\ \A i \in 1 .. p - 1 : u[i] = s[i]
  BY <1>1
<1>3. s = u \o (e \o v)
  BY <1>1, TakenApart
<1>4. r = u \o v
  BY DEF RemoveAt
<1>5. <<>> \in Seq(Sample) /\ e = Append(<<>>, x)
  OBVIOUS
<1>6. e \o v \in Seq(Sample) /\ u \o v \in Seq(Sample)
  BY <1>1
<1>7. ASSUME NEW i \in DOMAIN u PROVE u[i].kind # kind
  <2>1. i \in 1 .. p - 1 /\ i \in DOMAIN s /\ i < p
    BY <1>1, <1>2
  <2> QED BY <1>1, <1>2, <2>1
<1> HIDE DEF u, v, r, e
<1>8. Only(u, kind) = <<>>
  <2> DEFINE o == Only(u, kind)
  <2>1. o \in Seq(Sample)
    BY <1>1, OnlySteps
  <2>2. Sifted(u, kind, o)
    BY <1>1, OnlySifted
  <2> HIDE DEF o
  <2>3. SUFFICES ASSUME o # <<>> PROVE FALSE
    BY DEF o
  <2>4. 1 \in DOMAIN o
    BY <2>1, <2>3
  <2>5. PICK j \in DOMAIN u : u[j] = o[1]
    BY <2>2, <2>4 DEF Sifted
  <2> QED BY <1>7, <2>2, <2>4, <2>5 DEF Sifted
<1>9. ASSUME NEW k
      PROVE  /\ Only(s, k) = Only(u, k) \o (Only(e, k) \o Only(v, k))
             /\ Only(r, k) = Only(u, k) \o Only(v, k)
             /\ Only(e, k) = IF x.kind = k THEN e ELSE <<>>
             /\ Only(u, k) \in Seq(Sample) /\ Only(v, k) \in Seq(Sample)
  <2>1. \A a, b \in Seq(Sample) : Only(a \o b, k) = Only(a, k) \o Only(b, k)
    BY OnlyJoined
  <2>2. Only(s, k) = Only(u, k) \o (Only(e, k) \o Only(v, k))
    <3> DEFINE w == e \o v
    <3>1. w \in Seq(Sample) /\ s = u \o w
      BY <1>3, <1>6
    <3>2. Only(w, k) = Only(e, k) \o Only(v, k)
      BY <1>1, <2>1
    <3> HIDE DEF w
    <3>3. Only(u \o w, k) = Only(u, k) \o Only(w, k)
      BY <1>1, <2>1, <3>1
    <3> QED BY <3>1, <3>2, <3>3
  <2>3. Only(r, k) = Only(u, k) \o Only(v, k)
    BY <1>1, <1>4, <2>1
  <2>4. Only(e, k) = IF x.kind = k THEN e ELSE <<>>
    BY <1>1, <1>5, OnlySteps
  <2>5. Only(u, k) \in Seq(Sample) /\ Only(v, k) \in Seq(Sample)
    BY <1>1, OnlySteps
  <2> QED BY <2>2, <2>3, <2>4, <2>5
<1>10. \A q \in Seq(Sample) : <<>> \o q = q
  OBVIOUS
<1>11. Only(s, kind) = e \o Only(r, kind)
  <2> DEFINE ov == Only(v, kind)
  <2>1. Only(r, kind) = <<>> \o ov /\ Only(s, kind) = <<>> \o (e \o ov)
        /\ ov \in Seq(Sample)
    BY <1>8, <1>9
  <2> HIDE DEF ov
  <2>2. e \o ov \in Seq(Sample)
    BY <1>1, <2>1
  <2> QED BY <1>10, <2>1, <2>2
<1>12. ASSUME NEW k, k # kind PROVE Only(r, k) = Only(s, k)
  <2>1. Only(e, k) = <<>>
    BY <1>9, <1>12
  <2>2. Only(e, k) \o Only(v, k) = Only(v, k)
    BY <1>9, <1>10, <2>1
  <2> QED BY <1>9, <2>2
<1>13. r \in Seq(Sample)
  BY <1>4, <1>6
<1> QED BY <1>11, <1>12, <1>13 DEF r, e, Takes

Kinds == {"camera", "motion", "tap"}

\* Nothing is polled before a session is open; then what has been polled of a
\* kind and what is still queued of it are together what was recorded of it.
Polls ==
  /\ script \in Seq(Sample) /\ samples \in Seq(Sample) /\ polled \in Seq(Sample)
  /\ ~opened => samples = <<>> /\ polled = <<>>
  /\ opened =>
       /\ Valid(script)
       /\ \A kind \in Kinds :
            Only(polled, kind) \o Only(samples, kind) = Only(script, kind)

\* Nothing is polled at first.
LEMMA PollsInit == ASSUME HaloInit PROVE Polls
<1>1. script \in Scripts /\ samples = <<>> /\ polled = <<>> /\ opened = FALSE
  BY DEF HaloInit
<1>2. \A s \in Scripts : s \in Seq(Sample)
  BY HaloAssumption DEF Sample
<1>3. <<>> \in Seq(Sample)
  OBVIOUS
<1> QED BY <1>1, <1>2, <1>3 DEF Polls

\* A poll moves the first sample of its kind.
LEMMA PollTakes ==
  ASSUME Polls, NEW kind \in Kinds, Poll(kind)
  PROVE  Polls'
<1> DEFINE p == Pick(kind)
           x == samples[p]
           r == RemoveAt(samples, p)
<1>1. /\ OfKind(kind) # {} /\ polled' = Append(polled, x) /\ samples' = r
      /\ opened' = opened /\ script' = script
  BY DEF Poll
<1>2. samples \in Seq(Sample) /\ DOMAIN samples = 1 .. Len(samples) /\ Len(samples) \in Nat
  BY DEF Polls
<1>3. OfKind(kind) \in SUBSET Nat
  BY <1>2 DEF OfKind
<1>4. p \in OfKind(kind) /\ \A y \in OfKind(kind) : p <= y
  BY <1>1, <1>3, MinAmong DEF Pick
<1> HIDE DEF p
<1>5. p \in DOMAIN samples /\ x.kind = kind
      /\ \A i \in DOMAIN samples : samples[i].kind = kind => p <= i
  BY <1>4 DEF OfKind
<1>6. /\ r \in Seq(Sample) /\ Only(samples, kind) = <<x>> \o Only(r, kind)
      /\ \A k : k # kind => Only(r, k) = Only(samples, k)
  <2>1. Takes(samples, kind, x, r)
    BY <1>2, <1>5, FirstTaken
  <2> QED BY <2>1 DEF Takes
<1>7. x \in Sample /\ samples # <<>>
  BY <1>2, <1>5
<1>8. opened
  BY <1>7 DEF Polls
<1> HIDE DEF x, r
<1>9. polled \in Seq(Sample) /\ Append(polled, x) \in Seq(Sample)
  BY <1>7 DEF Polls
<1>10. ASSUME NEW k \in Kinds
       PROVE  Only(Append(polled, x), k) \o Only(r, k) = Only(script, k)
  <2> DEFINE a == Only(polled, k)
             b == Only(r, k)
  <2>1. /\ a \in Seq(Sample) /\ b \in Seq(Sample)
        /\ Only(Append(polled, x), k) = IF x.kind = k THEN Append(a, x) ELSE a
    BY <1>6, <1>7, <1>9, OnlySteps
  <2>2. a \o Only(samples, k) = Only(script, k)
    BY <1>8 DEF Polls
  <2>3. CASE k = kind
    <3>1. Only(samples, k) = <<x>> \o b /\ x.kind = k
      BY <1>5, <1>6, <2>3 DEF x
    <3> HIDE DEF a, b
    <3>2. Append(a, x) \o b = a \o (<<x>> \o b)
      BY <1>7, <2>1
    <3>3. Only(Append(polled, x), k) = Append(a, x)
      BY <2>1, <3>1
    <3> QED BY <2>2, <3>1, <3>2, <3>3 DEF b
  <2>4. CASE k # kind
    BY <1>5, <1>6, <2>1, <2>2, <2>4 DEF x
  <2> QED BY <2>3, <2>4
<1> QED BY <1>1, <1>6, <1>8, <1>9, <1>10 DEF Polls

\* No other step touches what is queued or was polled.
LEMMA PollsNext ==
  ASSUME Polls, [HaloNext]_haloVars
  PROVE  Polls'
<1>1. CASE OpenSession
  <2>1. /\ ~opened /\ Valid(script) /\ opened' = TRUE /\ samples' = script
        /\ script' = script /\ polled' = polled
    BY <1>1 DEF OpenSession
  <2>2. polled = <<>> /\ script \in Seq(Sample)
    BY <2>1 DEF Polls
  <2>3. ASSUME NEW kind PROVE Only(<<>>, kind) \o Only(script, kind) = Only(script, kind)
    <3>1. Only(<<>>, kind) = <<>> /\ Only(script, kind) \in Seq(Sample)
      BY <2>2, OnlySteps
    <3>2. \A q \in Seq(Sample) : <<>> \o q = q
      OBVIOUS
    <3> QED BY <3>1, <3>2
  <2>4. Valid(script)'
    BY <2>1 DEF Valid
  <2> QED BY <2>1, <2>2, <2>3, <2>4 DEF Polls
<1>2. ASSUME NEW kind \in Kinds, Poll(kind) PROVE Polls'
  BY <1>2, PollTakes
<1>3. ASSUME UNCHANGED <<opened, samples, polled, script>> PROVE Polls'
  <2>1. Valid(script)' = Valid(script)
    BY <1>3 DEF Valid
  <2> QED BY <1>3, <2>1 DEF Polls
<1>4. Start \/ Stop \/ Tick \/ (\E frame \in Frames : ChangeFrame(frame))
        \/ UNCHANGED haloVars
        => UNCHANGED <<opened, samples, polled, script>>
  BY DEF Start, Stop, Tick, ChangeFrame, haloVars, pollVars
<1> QED BY <1>1, <1>2, <1>3, <1>4 DEF HaloNext, Kinds

\* What was polled is in the recorded order.
LEMMA PollsOrdered == ASSUME Polls PROVE PolledInOrder
<1> SUFFICES ASSUME NEW kind \in Kinds
             PROVE  LET a == Only(polled, kind)
                    IN  /\ IsPrefix(a, Only(script, kind))
                        /\ \A i, j \in DOMAIN a : i < j => a[i].seq <= a[j].seq
  BY DEF PolledInOrder, Kinds
<1> DEFINE a == Only(polled, kind)
           b == Only(samples, kind)
           c == Only(script, kind)
<1>1. a \in Seq(Sample) /\ b \in Seq(Sample) /\ c \in Seq(Sample)
  BY OnlySteps DEF Polls
<1>2. CASE ~opened
  <2>1. a = <<>>
    BY <1>2, OnlySteps DEF Polls
  <2> HIDE DEF a, c
  <2>2. Len(a) = 0 /\ DOMAIN a = {} /\ Len(c) \in Nat
    BY <1>1, <2>1
  <2>3. SubSeq(a, 1, 0) = SubSeq(c, 1, 0)
    BY <1>1
  <2>4. IsPrefix(a, c)
    BY <2>2, <2>3 DEF IsPrefix
  <2> QED BY <2>2, <2>4 DEF a, c
<1>3. CASE opened
  <2>1. c = a \o b /\ Valid(script) /\ script \in Seq(Sample)
    BY <1>3 DEF Polls
  <2>2. Sifted(script, kind, c)
    BY <2>1, OnlySifted
  <2>3. Rising(script, kind)
    BY <2>1 DEF Rising, Valid
  <2> HIDE DEF a, b, c
  <2>4. \A i, j \in DOMAIN c : i < j => c[i].seq <= c[j].seq
    BY <2>2, <2>3 DEF Sifted
  <2>5. Joins(Sample, a, b, c)
    BY <1>1, <2>1, JoinedIs
  <2>6. Len(a) \in Nat /\ Len(b) \in Nat /\ DOMAIN a = 1 .. Len(a) /\ DOMAIN c = 1 .. (Len(a) + Len(b))
    BY <1>1, <2>5 DEF Joins
  <2>7. \A i \in DOMAIN a : i \in DOMAIN c /\ c[i] = a[i]
    BY <2>5, <2>6 DEF Joins
  <2>8. \A i, j \in DOMAIN a : i < j => a[i].seq <= a[j].seq
    BY <2>4, <2>7
  <2>9. IsPrefix(a, c)
    <3>1. Len(a) <= Len(c)
      BY <2>5, <2>6 DEF Joins
    <3> DEFINE u == SubSeq(a, 1, Len(a))
               v == SubSeq(c, 1, Len(a))
    <3>2. u \in Seq(Sample) /\ v \in Seq(Sample) /\ Len(u) = Len(a) /\ Len(v) = Len(a)
          /\ \A i \in 1 .. Len(a) : u[i] = a[i] /\ v[i] = c[i]
      BY <1>1, <2>6, <3>1
    <3> HIDE DEF u, v
    <3>3. u = v
      <4>1. \A i \in 1 .. Len(u) : u[i] = v[i]
        BY <2>6, <2>7, <3>2
      <4> QED BY <3>2, <4>1, SameElements
    <3> QED BY <3>1, <3>3 DEF IsPrefix, u, v
  <2> QED BY <2>8, <2>9 DEF a, c
<1> QED BY <1>2, <1>3

\* Whatever order the kinds of sample are polled in, across stops and
\* restarts, each kind's samples arrive in recorded order.
THEOREM SamplesInOrder == HaloSpec => []PolledInOrder
<1>1. HaloInit => Polls
  BY PollsInit
<1>2. Polls /\ [HaloNext]_haloVars => Polls'
  BY PollsNext
<1>3. Polls => PolledInOrder
  BY PollsOrdered
<1> QED BY <1>1, <1>2, <1>3, PTL DEF HaloSpec

-----------------------------------------------------------------------------
(* The order of scheduling                                                 *)

\* A set of changed cells, one for each cell of the display.
OnePerCell(X) ==
  /\ X \in SUBSET Change /\ IsFiniteSet(X)
  /\ \A x, y \in X : x.cell = y.cell => x = y

Sorted(t) == \A i, j \in DOMAIN t : i < j => Before(t[i], t[j])

\* Scheduling order is a strict total order on the changes of different cells,
\* and puts urgent ones first.
LEMMA BeforeOrders ==
  /\ \A x \in Change : ~Before(x, x)
  /\ \A x, y \in Change : Before(x, y) => ~Before(y, x)
  /\ \A x, y, z \in Change : Before(x, y) /\ Before(y, z) => Before(x, z)
  /\ \A x, y \in Change : x.cell # y.cell => Before(x, y) \/ Before(y, x)
  /\ \A x, y \in Change : Before(x, y) => x.priority <= y.priority
<1>1. \A x \in Change : x.cell \in Nat /\ x.priority \in Nat
  <2>1. Cell \subseteq Nat
    BY HaloAssumption
  <2>2. \A x \in Change : x.cell \in Cell
    BY DEF Change
  <2>3. \A x \in Change : x.priority \in 1 .. 3
    BY DEF Change, Priority
  <2>4. \A x \in Change : x.priority \in Nat
    BY <2>3
  <2> QED BY <2>1, <2>2, <2>4
<1> QED BY <1>1 DEF Before

\* The cells of X that are sent before x.
Earlier(X, x) == {y \in X : Before(y, x)}

\* The number of changes sent before one tells its place.
LEMMA EarlierCounts ==
  ASSUME NEW X, OnePerCell(X)
  PROVE  /\ \A x \in X : Cardinality(Earlier(X, x)) \in 0 .. (Cardinality(X) - 1)
         /\ \A x, y \in X : Before(x, y) =>
                              Cardinality(Earlier(X, x)) < Cardinality(Earlier(X, y))
<1>1. IsFiniteSet(X) /\ Cardinality(X) \in Nat /\ X \in SUBSET Change
  BY FS_CardinalityType DEF OnePerCell
<1>2. ASSUME NEW x \in X
      PROVE  /\ Earlier(X, x) \in SUBSET X /\ x \notin Earlier(X, x)
             /\ IsFiniteSet(Earlier(X, x)) /\ Cardinality(Earlier(X, x)) \in Nat
  <2>1. Earlier(X, x) \in SUBSET X /\ x \notin Earlier(X, x)
    BY <1>1, BeforeOrders DEF Earlier
  <2>2. IsFiniteSet(Earlier(X, x))
    BY <1>1, <2>1, FS_Subset
  <2> QED BY <2>1, <2>2, FS_CardinalityType
<1>3. ASSUME NEW x \in X PROVE Cardinality(Earlier(X, x)) \in 0 .. (Cardinality(X) - 1)
  <2>1. /\ Cardinality(Earlier(X, x)) <= Cardinality(X)
        /\ Cardinality(X) = Cardinality(Earlier(X, x)) => X = Earlier(X, x)
    BY <1>1, <1>2, FS_Subset
  <2> QED BY <1>1, <1>2, <2>1
<1>4. ASSUME NEW x \in X, NEW y \in X, Before(x, y)
      PROVE  Cardinality(Earlier(X, x)) < Cardinality(Earlier(X, y))
  <2>1. Earlier(X, x) \in SUBSET Earlier(X, y)
    BY <1>1, <1>4, BeforeOrders DEF Earlier
  <2>2. x \in Earlier(X, y) /\ x \notin Earlier(X, x)
    BY <1>2, <1>4 DEF Earlier
  <2>3. /\ Cardinality(Earlier(X, x)) <= Cardinality(Earlier(X, y))
        /\ Cardinality(Earlier(X, y)) = Cardinality(Earlier(X, x))
             => Earlier(X, y) = Earlier(X, x)
    BY <1>2, <2>1, FS_Subset
  <2>4. Earlier(X, y) # Earlier(X, x)
    BY <2>2
  <2> QED BY <1>2, <2>3, <2>4
<1> QED BY <1>3, <1>4

\* Each number of cells before is that of exactly one cell.
LEMMA EarlierOnto ==
  ASSUME NEW X, OnePerCell(X),
         NEW i \in 0 .. (Cardinality(X) - 1)
  PROVE  \E x \in X : Cardinality(Earlier(X, x)) = i
<1> DEFINE n == Cardinality(X)
           rank == [x \in X |-> Cardinality(Earlier(X, x))]
           R == 0 .. (n - 1)
<1>1. IsFiniteSet(X) /\ n \in Nat /\ X \in SUBSET Change
  BY FS_CardinalityType DEF OnePerCell
<1>2. rank \in [X -> R]
  BY EarlierCounts
<1>3. \A x, y \in X : rank[x] = rank[y] => x = y
  <2> SUFFICES ASSUME NEW x \in X, NEW y \in X, x # y PROVE rank[x] # rank[y]
    OBVIOUS
  <2>1. x.cell # y.cell
    BY DEF OnePerCell
  <2>2. Before(x, y) \/ Before(y, x)
    BY <1>1, <2>1, BeforeOrders
  <2>3. rank[x] \in R /\ rank[y] \in R
    BY <1>2
  <2>4. rank[x] < rank[y] \/ rank[y] < rank[x]
    BY <2>2, EarlierCounts
  <2> HIDE DEF rank
  <2> QED BY <1>1, <2>3, <2>4
<1>4. rank \in Injection(X, R)
  BY <1>2, <1>3 DEF Injection, IsInjective
<1>5. IsFiniteSet(R) /\ Cardinality(R) = n
  BY <1>1, FS_Interval
<1>6. rank \in Surjection(X, R)
  <2> HIDE DEF rank, R, n
  <2> QED BY <1>4, <1>5, FS_Injection DEF n
<1>7. \E x \in X : rank[x] = i
  BY <1>6 DEF Surjection
<1> QED BY <1>7

\* Sorting keeps the changes and puts them in scheduling order.
LEMMA ScheduledIs ==
  ASSUME NEW X, OnePerCell(X)
  PROVE  /\ Scheduled(X) \in Seq(X) /\ Sorted(Scheduled(X))
         /\ ToSet(Scheduled(X)) = X
<1> DEFINE n == Cardinality(X)
           t == Scheduled(X)
           h == [i \in 1 .. n |-> CHOOSE x \in X : Cardinality(Earlier(X, x)) = i - 1]
<1>1. n \in Nat /\ X \in SUBSET Change
  BY FS_CardinalityType DEF OnePerCell
<1>2. t = h
  BY DEF Scheduled, Earlier, Cardinality, Cardinality
<1>3. ASSUME NEW i \in 1 .. n PROVE h[i] \in X /\ Cardinality(Earlier(X, h[i])) = i - 1
  <2>1. i - 1 \in 0 .. (Cardinality(X) - 1)
    BY <1>1
  <2>2. \E x \in X : Cardinality(Earlier(X, x)) = i - 1
    BY <2>1, EarlierOnto
  <2>3. h[i] = CHOOSE x \in X : Cardinality(Earlier(X, x)) = i - 1
    OBVIOUS
  <2> QED BY <2>2, <2>3
<1>4. h = [i \in 1 .. n |-> h[i]]
  OBVIOUS
<1> HIDE DEF t, h
<1>5. t \in Seq(X) /\ DOMAIN t = 1 .. n
  BY <1>1, <1>2, <1>3, <1>4
<1>6. ASSUME NEW i \in 1 .. n, NEW j \in 1 .. n, i < j PROVE Before(t[i], t[j])
  <2>1. t[i] \in X /\ t[j] \in X
        /\ Cardinality(Earlier(X, t[i])) = i - 1 /\ Cardinality(Earlier(X, t[j])) = j - 1
    BY <1>2, <1>3
  <2>2. ~Before(t[j], t[i])
    <3>1. \A x, y \in X : Before(x, y) =>
             Cardinality(Earlier(X, x)) < Cardinality(Earlier(X, y))
      BY EarlierCounts
    <3>2. Before(t[j], t[i]) => j - 1 < i - 1
      BY <2>1, <3>1
    <3> QED BY <1>1, <1>6, <3>2
  <2>3. t[i] # t[j]
    BY <1>1, <1>6, <2>1
  <2>4. t[i].cell # t[j].cell
    BY <2>1, <2>3 DEF OnePerCell
  <2> QED BY <1>1, <2>1, <2>2, <2>4, BeforeOrders
<1>7. Sorted(t)
  BY <1>5, <1>6 DEF Sorted
<1>8. ToSet(t) = X
  <2>1. ToSet(t) \subseteq X
    BY <1>2, <1>3, <1>5 DEF ToSet
  <2>2. ASSUME NEW x \in X PROVE x \in ToSet(t)
    <3> DEFINE i == Cardinality(Earlier(X, x)) + 1
    <3>1. Cardinality(Earlier(X, x)) \in 0 .. (n - 1)
      BY EarlierCounts
    <3>2. i \in 1 .. n /\ i - 1 = Cardinality(Earlier(X, x))
      BY <1>1, <3>1
    <3> HIDE DEF i
    <3>3. t[i] \in X /\ Cardinality(Earlier(X, t[i])) = Cardinality(Earlier(X, x))
      BY <1>2, <1>3, <3>2
    <3>4. t[i] = x
      <4> SUFFICES ASSUME t[i] # x PROVE FALSE
        OBVIOUS
      <4>1. t[i].cell # x.cell
        BY <3>3 DEF OnePerCell
      <4>2. Before(t[i], x) \/ Before(x, t[i])
        BY <1>1, <3>3, <4>1, BeforeOrders
      <4>3. \/ Cardinality(Earlier(X, t[i])) < Cardinality(Earlier(X, x))
            \/ Cardinality(Earlier(X, x)) < Cardinality(Earlier(X, t[i]))
        BY <3>3, <4>2, EarlierCounts
      <4> QED BY <1>1, <3>1, <3>3, <4>3
    <3> QED BY <1>5, <3>2, <3>4 DEF ToSet
  <2> QED BY <2>1, <2>2
<1> QED BY <1>5, <1>7, <1>8 DEF t

-----------------------------------------------------------------------------
(* One pass over the scheduled cells                                       *)

\* No cell that would fit into a pass of its own is put off for less urgent
\* ones alone.
Urgent(p) ==
  \A d \in ToSet(p.deferred) :
    CellBytes(d) <= Budget => \E c \in ToSet(p.cells) : c.priority <= d.priority

\* p is what the pass may make of the cells t.
Packs(t, p) ==
  /\ p \in PacketType
  /\ p.bytes = SumBytes(p.cells) /\ p.bytes <= Budget
  /\ ToSet(p.cells) \cup ToSet(p.deferred) = ToSet(t)
  /\ Sorted(t) => /\ ToSet(p.cells) \cap ToSet(p.deferred) = {}
                  /\ Urgent(p)

\* A pass over no cells.
LEMMA NothingPacked ==
  Packs(<<>>, NoPacket)
<1> DEFINE e == <<>>
           p == NoPacket
<1>1. p.cells = e /\ p.bytes = 0 /\ p.deferred = e /\ e \in Seq(Change) /\ DOMAIN e = {}
  BY DEF NoPacket
<1>2. p \in PacketType
  BY <1>1 DEF PacketType, NoPacket
<1>3. SumBytes(e) = 0 /\ Budget \in Nat
  BY SumSteps, HaloAssumption
<1> HIDE DEF e, p
<1>4. ToSet(e) = {}
  BY <1>1 DEF ToSet
<1>5. Packs(e, p)
  BY <1>1, <1>2, <1>3, <1>4 DEF Packs, Urgent
<1> QED BY <1>5 DEF e, p

\* A cell at the end of a sorted sequence comes after all of the others.
LEMMA LastSorted ==
  ASSUME NEW t \in Seq(Change), NEW x \in Change, Sorted(Append(t, x))
  PROVE  /\ Sorted(t)
         /\ \A c \in ToSet(t) : c \in Change /\ c # x /\ c.priority <= x.priority
<1> DEFINE n == Len(t)
           w == Append(t, x)
<1>1. /\ n \in Nat /\ DOMAIN t = 1 .. n /\ DOMAIN w = 1 .. (n + 1) /\ w[n + 1] = x
      /\ \A i \in 1 .. n : w[i] = t[i] /\ t[i] \in Change
  OBVIOUS
<1> HIDE DEF n, w
<1>2. \A i \in 1 .. n : i \in 1 .. (n + 1) /\ n + 1 \in 1 .. (n + 1) /\ i < n + 1
  BY <1>1
<1>3. Sorted(w)
  BY DEF w
<1>4. Sorted(t)
  BY <1>1, <1>2, <1>3 DEF Sorted
<1>5. ASSUME NEW i \in 1 .. n PROVE Before(t[i], x)
  <2>1. Before(w[i], w[n + 1])
    BY <1>1, <1>2, <1>3 DEF Sorted
  <2> QED BY <1>1, <2>1
<1>6. ASSUME NEW c \in ToSet(t) PROVE c \in Change /\ c # x /\ c.priority <= x.priority
  <2>1. PICK i \in 1 .. n : t[i] = c
    BY <1>1 DEF ToSet
  <2>2. c \in Change /\ Before(c, x)
    BY <1>1, <1>5, <2>1
  <2> QED BY <2>2, BeforeOrders
<1> QED BY <1>4, <1>6

\* A pass over one cell more.
LEMMA PackedMore ==
  ASSUME NEW t \in Seq(Change), NEW x \in Change, NEW p, Packs(t, p)
  PROVE  Packs(Append(t, x), Offer(p, x))
<1> DEFINE w == Append(t, x)
           q == Offer(p, x)
           b == CellBytes(x)
<1>1. b \in Nat /\ b > 0 /\ Budget \in Nat
  BY BytesAbove, HaloAssumption
<1>2. /\ p \in PacketType /\ p.bytes \in Nat
      /\ p.cells \in Seq(Change) /\ p.deferred \in Seq(Change)
  BY DEF Packs, PacketType
<1>3. q \in PacketType
  BY <1>2, OfferType
<1>4. ToSet(w) = ToSet(t) \cup {x}
  BY AppendedSet
<1>5. Sorted(w) => /\ Sorted(t)
                   /\ \A c \in ToSet(t) : c \in Change /\ c # x /\ c.priority <= x.priority
  BY LastSorted
<1>6. /\ p.bytes = SumBytes(p.cells) /\ p.bytes <= Budget
      /\ ToSet(p.cells) \cup ToSet(p.deferred) = ToSet(t)
      /\ Sorted(t) => ToSet(p.cells) \cap ToSet(p.deferred) = {} /\ Urgent(p)
  BY DEF Packs
<1>7. CASE Fits(p.bytes, x)
  <2>1. q.cells = Append(p.cells, x) /\ q.bytes = p.bytes + b /\ q.deferred = p.deferred
    BY <1>2, <1>7 DEF Offer, PacketType
  <2> HIDE DEF w, q
  <2>2. ToSet(q.cells) = ToSet(p.cells) \cup {x}
    BY <1>2, <2>1, AppendedSet
  <2>3. q.bytes = SumBytes(q.cells)
    <3>1. SumBytes(Append(p.cells, x)) = SumBytes(p.cells) + b
      BY <1>2, SumSteps
    <3> QED BY <1>6, <2>1, <3>1
  <2>4. q.bytes <= Budget
    BY <1>7, <2>1 DEF Fits
  <2>5. ToSet(q.cells) \cup ToSet(q.deferred) = ToSet(w)
    BY <1>4, <1>6, <2>1, <2>2
  <2>6. ASSUME Sorted(w)
        PROVE  ToSet(q.cells) \cap ToSet(q.deferred) = {} /\ Urgent(q)
    <3>1. x \notin ToSet(p.deferred) /\ Sorted(t)
      BY <1>5, <1>6, <2>6
    <3>2. ToSet(q.cells) \cap ToSet(q.deferred) = {}
      BY <1>6, <2>1, <2>2, <3>1
    <3>3. Urgent(q)
      BY <1>6, <2>1, <2>2, <3>1 DEF Urgent
    <3> QED BY <3>2, <3>3
  <2> QED BY <1>3, <2>3, <2>4, <2>5, <2>6 DEF Packs, w, q
<1>8. CASE ~Fits(p.bytes, x)
  <2>1. q.cells = p.cells /\ q.bytes = p.bytes /\ q.deferred = Append(p.deferred, x)
    BY <1>2, <1>8 DEF Offer, PacketType
  <2> HIDE DEF w, q
  <2>2. ToSet(q.deferred) = ToSet(p.deferred) \cup {x}
    BY <1>2, <2>1, AppendedSet
  <2>3. ToSet(q.cells) \cup ToSet(q.deferred) = ToSet(w)
    BY <1>4, <1>6, <2>1, <2>2
  <2>4. ASSUME Sorted(w)
        PROVE  ToSet(q.cells) \cap ToSet(q.deferred) = {} /\ Urgent(q)
    <3>1. x \notin ToSet(p.cells) /\ Sorted(t)
      BY <1>5, <1>6, <2>4
    <3>2. ToSet(q.cells) \cap ToSet(q.deferred) = {}
      BY <1>6, <2>1, <2>2, <3>1
    <3>3. ASSUME b <= Budget PROVE \E c \in ToSet(p.cells) : c.priority <= x.priority
      <4>1. p.bytes > 0
        BY <1>1, <1>2, <1>8, <3>3 DEF Fits
      <4>2. p.cells # <<>>
        <5>1. SumBytes(<<>>) = 0
          BY SumSteps
        <5> QED BY <1>2, <1>6, <4>1, <5>1
      <4>3. 1 \in DOMAIN p.cells
        BY <1>2, <4>2
      <4>4. p.cells[1] \in ToSet(p.cells)
        BY <4>3 DEF ToSet
      <4>5. p.cells[1].priority <= x.priority
        BY <1>5, <1>6, <2>4, <4>4
      <4> QED BY <4>4, <4>5
    <3>4. Urgent(q)
      BY <1>6, <2>1, <2>2, <3>1, <3>3 DEF Urgent
    <3> QED BY <3>2, <3>4
  <2> QED BY <1>3, <1>6, <2>1, <2>3, <2>4 DEF Packs, w, q
<1> QED BY <1>7, <1>8

\* What the pass makes of cells in any number.
LEMMA Packed ==
  ASSUME NEW t \in Seq(Change)
  PROVE  Packs(t, Pack(t))
<1> DEFINE G == {s \in Seq(Change) : Packs(s, Pack(s))}
<1>1. <<>> \in G
  <2>1. Pack(<<>>) = NoPacket
    BY PackSteps
  <2>2. <<>> \in Seq(Change)
    OBVIOUS
  <2>3. Packs(<<>>, Pack(<<>>))
    BY <2>1, NothingPacked
  <2> QED BY <2>2, <2>3
<1>2. ASSUME NEW s \in Seq(Change), NEW x \in Change, s \in G PROVE Append(s, x) \in G
  <2>1. Packs(s, Pack(s)) /\ Append(s, x) \in Seq(Change)
    BY <1>2
  <2>2. Pack(Append(s, x)) = Offer(Pack(s), x)
    BY PackSteps
  <2>3. Packs(Append(s, x), Offer(Pack(s), x))
    BY <2>1, PackedMore
  <2> QED BY <2>1, <2>2, <2>3
<1>3. Seq(Change) \subseteq G
  <2> HIDE DEF G
  <2> QED BY <1>1, <1>2, SeqInduction
<1> QED BY <1>3

-----------------------------------------------------------------------------
(* What a tick leaves to do                                                *)

IsFrame(f) == DOMAIN f \subseteq Cell /\ \A c \in DOMAIN f : f[c] \in Looks

\* The cells in which a display that holds st differs from the frame f, and
\* how each has to change.
Differ(f, st) ==
  {d \in DOMAIN f \cup DOMAIN st :
     \/ d \notin DOMAIN f
     \/ d \notin DOMAIN st
     \/ f[d] # st[d]}

ChangeOf(f, st, d) ==
  [cell |-> d, glyph |-> At(f, d),
   priority |-> IF d \in DOMAIN f THEN f[d].priority ELSE st[d].priority]

Changed(f, st) == {ChangeOf(f, st, d) : d \in Differ(f, st)}

\* The changed cells, of any two frames and not only of the committed one.
LEMMA ChangedIs == \A f : ChangedCells(f) = Changed(f, committed)
BY DEF ChangedCells, Changed, Differ, ChangeOf

\* A frame state is a frame.
LEMMA StateCells ==
  ASSUME NEW st \in States
  PROVE  IsFrame(st) /\ st = [c \in DOMAIN st |-> st[c]]
<1>1. PICK D \in SUBSET Cell : st \in [D -> Looks]
  BY DEF States
<1> QED BY <1>1 DEF IsFrame

\* A cell that differs has a change, which is about that cell.
LEMMA ChangeTyped ==
  ASSUME NEW f, IsFrame(f), NEW st, IsFrame(st), NEW d \in Differ(f, st)
  PROVE  ChangeOf(f, st, d) \in Change /\ ChangeOf(f, st, d).cell = d
<1>1. d \in Cell /\ (d \notin DOMAIN f => d \in DOMAIN st)
  BY DEF Differ, IsFrame
<1>2. d \in DOMAIN f => f[d].glyph \in Glyph /\ f[d].priority \in Priority
  BY DEF IsFrame, Looks
<1>3. d \in DOMAIN st => st[d].priority \in Priority
  BY DEF IsFrame, Looks
<1>4. At(f, d) \in Glyph \cup {Blank}
  BY <1>2 DEF At
<1> QED BY <1>1, <1>2, <1>3, <1>4 DEF ChangeOf, Change

\* No cell has two changes, and there are finitely many.
LEMMA ChangedOnce ==
  ASSUME NEW f, IsFrame(f), NEW st, IsFrame(st)
  PROVE  OnePerCell(Changed(f, st))
<1> DEFINE X == Changed(f, st)
           cellOf == [x \in X |-> x.cell]
<1>1. \A x \in X : x \in Change /\ x.cell \in Differ(f, st) /\ x = ChangeOf(f, st, x.cell)
  <2> SUFFICES ASSUME NEW x \in X
               PROVE  x \in Change /\ x.cell \in Differ(f, st) /\ x = ChangeOf(f, st, x.cell)
    OBVIOUS
  <2>1. PICK d \in Differ(f, st) : x = ChangeOf(f, st, d)
    BY DEF Changed
  <2>2. x \in Change /\ x.cell = d
    BY <2>1, ChangeTyped
  <2> QED BY <2>1, <2>2
<1>2. \A x, y \in X : x.cell = y.cell => x = y
  BY <1>1
<1>3. \A x \in X : x.cell \in Cell
  BY <1>1 DEF Change
<1> HIDE DEF X
<1>4. cellOf \in Injection(X, Cell)
  BY <1>2, <1>3 DEF Injection, IsInjective
<1>5. IsFiniteSet(Cell)
  BY HaloAssumption
<1>6. IsFiniteSet(X)
  BY <1>4, <1>5, FS_Injection
<1>7. X \in SUBSET Change
  BY <1>1
<1> QED BY <1>2, <1>6, <1>7 DEF OnePerCell, X

\* The cells a sequence of changes sets or clears.
CellsOf(s) == {x.cell : x \in ToSet(s)}

\* Sending some of the changes brings exactly their cells to the frame: in
\* what the session holds as committed and on the glasses.
After(f, st, K) ==
  [c \in (DOMAIN st \ K) \cup (DOMAIN f \cap K) |-> IF c \in K THEN f[c] ELSE st[c]]

Shows(f, shown, K) == [c \in Cell |-> IF c \in K THEN At(f, c) ELSE shown[c]]

\* Committing one more of the changed cells.
LEMMA CellApplied ==
  ASSUME NEW f, IsFrame(f), NEW st \in States,
         NEW x \in Changed(f, st), NEW K
  PROVE  ApplyCell(x, After(f, st, K)) = After(f, st, K \cup {x.cell})
<1>1. PICK d \in Differ(f, st) : x = ChangeOf(f, st, d)
  BY DEF Changed
<1>2. x.cell = d /\ x.glyph = At(f, d)
      /\ x.priority = IF d \in DOMAIN f THEN f[d].priority ELSE st[d].priority
  BY <1>1 DEF ChangeOf
<1> DEFINE a == After(f, st, K)
           L == K \cup {d}
<1>3. /\ DOMAIN a = (DOMAIN st \ K) \cup (DOMAIN f \cap K)
      /\ \A c \in DOMAIN a : a[c] = IF c \in K THEN f[c] ELSE st[c]
  BY DEF After
<1> HIDE DEF a
<1>4. CASE d \in DOMAIN f
  <2>1. f[d] \in Looks
    BY <1>4 DEF IsFrame
  <2>2. x.glyph # Blank /\ [glyph |-> x.glyph, priority |-> x.priority] = f[d]
    BY <1>2, <1>4, <2>1, HaloAssumption DEF At, Looks
  <2>3. ApplyCell(x, a) = [c \in DOMAIN a \cup {d} |-> IF c = d THEN f[d] ELSE a[c]]
    BY <1>2, <2>2 DEF ApplyCell
  <2>4. DOMAIN a \cup {d} = (DOMAIN st \ L) \cup (DOMAIN f \cap L)
    BY <1>3, <1>4
  <2>5. \A c \in DOMAIN a \cup {d} :
          (IF c = d THEN f[d] ELSE a[c]) = IF c \in L THEN f[c] ELSE st[c]
    BY <1>3
  <2>6. ApplyCell(x, a) = After(f, st, L)
    BY <2>3, <2>4, <2>5 DEF After
  <2> QED BY <1>2, <2>6 DEF a
<1>5. CASE d \notin DOMAIN f
  <2>1. x.glyph = Blank
    BY <1>2, <1>5 DEF At
  <2>2. ApplyCell(x, a) = [c \in DOMAIN a \ {d} |-> a[c]]
    BY <1>2, <2>1 DEF ApplyCell
  <2>3. DOMAIN a \ {d} = (DOMAIN st \ L) \cup (DOMAIN f \cap L)
    BY <1>3, <1>5
  <2>4. \A c \in DOMAIN a \ {d} : a[c] = IF c \in L THEN f[c] ELSE st[c]
    BY <1>3
  <2>5. ApplyCell(x, a) = After(f, st, L)
    BY <2>2, <2>3, <2>4 DEF After
  <2> QED BY <1>2, <2>5 DEF a
<1> QED BY <1>4, <1>5

\* Drawing one more of the changed cells.
LEMMA CellShown ==
  ASSUME NEW f, NEW st, NEW x \in Changed(f, st), NEW shown, NEW K
  PROVE  SetCell(Shows(f, shown, K), x) = Shows(f, shown, K \cup {x.cell})
<1>1. x.glyph = At(f, x.cell)
  BY DEF Changed, ChangeOf
<1> DEFINE a == Shows(f, shown, K)
<1>2. a = [c \in Cell |-> IF c \in K THEN At(f, c) ELSE shown[c]]
  BY DEF Shows
<1> HIDE DEF a
<1>3. SetCell(a, x) = [c \in Cell |-> IF c = x.cell THEN x.glyph ELSE a[c]]
  BY <1>2 DEF SetCell
<1>4. \A c \in Cell : (IF c = x.cell THEN x.glyph ELSE a[c])
                        = IF c \in K \cup {x.cell} THEN At(f, c) ELSE shown[c]
  BY <1>1, <1>2
<1>5. SetCell(a, x) = Shows(f, shown, K \cup {x.cell})
  BY <1>3, <1>4 DEF Shows
<1> QED BY <1>5 DEF a

\* Committing and drawing some of the changed cells brings just these to the frame.
LEMMA SomeSent ==
  ASSUME NEW f, IsFrame(f), NEW st \in States, NEW shown \in Displays,
         NEW s \in Seq(Changed(f, st))
  PROVE  /\ Applied(s, st) = After(f, st, CellsOf(s))
         /\ Drawn(s, shown) = Shows(f, shown, CellsOf(s))
<1> DEFINE X == Changed(f, st)
           G == {q \in Seq(X) : /\ Applied(q, st) = After(f, st, CellsOf(q))
                                /\ Drawn(q, shown) = Shows(f, shown, CellsOf(q))}
<1>1. IsFrame(st) /\ st = [c \in DOMAIN st |-> st[c]]
  BY StateCells
<1>2. X \in SUBSET Change
  BY <1>1, ChangedOnce DEF OnePerCell
<1>3. <<>> \in G
  <2> DEFINE e == <<>>
  <2>1. e \in Seq(X) /\ DOMAIN e = {}
    OBVIOUS
  <2>2. Applied(e, st) = st /\ Drawn(e, shown) = shown
    BY AppliedSteps, DrawnSteps
  <2> HIDE DEF e
  <2>3. CellsOf(e) = {}
    BY <2>1 DEF CellsOf, ToSet
  <2>4. After(f, st, {}) = st
    BY <1>1 DEF After
  <2>5. Shows(f, shown, {}) = shown
    BY DEF Shows, Displays
  <2>6. e \in G
    BY <2>1, <2>2, <2>3, <2>4, <2>5
  <2> QED BY <2>6 DEF e
<1>4. ASSUME NEW q \in Seq(X), NEW x \in X, q \in G PROVE Append(q, x) \in G
  <2>1. q \in Seq(Change) /\ x \in Change /\ Append(q, x) \in Seq(X)
    BY <1>2
  <2>2. CellsOf(Append(q, x)) = CellsOf(q) \cup {x.cell}
    <3>1. ToSet(Append(q, x)) = ToSet(q) \cup {x}
      BY <2>1, AppendedSet
    <3> QED BY <3>1 DEF CellsOf
  <2>3. Applied(Append(q, x), st) = ApplyCell(x, Applied(q, st))
    <3> HIDE DEF X, G
    <3>1. \A t \in Seq(Change), y \in Change :
            Applied(Append(t, y), st) = ApplyCell(y, Applied(t, st))
      BY AppliedSteps
    <3> QED BY <2>1, <3>1
  <2>4. Drawn(Append(q, x), shown) = SetCell(Drawn(q, shown), x)
    <3> HIDE DEF X, G
    <3>1. \A t \in Seq(Change), y \in Change :
            Drawn(Append(t, y), shown) = SetCell(Drawn(t, shown), y)
      BY DrawnSteps
    <3> QED BY <2>1, <3>1
  <2>5. ApplyCell(x, After(f, st, CellsOf(q))) = After(f, st, CellsOf(q) \cup {x.cell})
    <3>1. x \in Changed(f, st)
      OBVIOUS
    <3> HIDE DEF X, G
    <3>2. \A K : ApplyCell(x, After(f, st, K)) = After(f, st, K \cup {x.cell})
      BY <3>1, CellApplied
    <3> QED BY <3>2
  <2>6. SetCell(Shows(f, shown, CellsOf(q)), x) = Shows(f, shown, CellsOf(q) \cup {x.cell})
    <3>1. x \in Changed(f, st)
      OBVIOUS
    <3> HIDE DEF X, G
    <3>2. \A K : SetCell(Shows(f, shown, K), x) = Shows(f, shown, K \cup {x.cell})
      BY <3>1, CellShown
    <3> QED BY <3>2
  <2> HIDE DEF X
  <2>7. /\ Applied(q, st) = After(f, st, CellsOf(q))
        /\ Drawn(q, shown) = Shows(f, shown, CellsOf(q))
    BY <1>4
  <2> QED BY <2>1, <2>2, <2>3, <2>4, <2>5, <2>6, <2>7
<1>5. Seq(X) \subseteq G
  <2> HIDE DEF G, X
  <2> QED BY <1>3, <1>4, SeqInduction
<1> QED BY <1>5

\* What then is left to change: the changes not sent.
LEMMA RestRemains ==
  ASSUME NEW f, NEW st, NEW K
  PROVE  Changed(f, After(f, st, K)) = {x \in Changed(f, st) : x.cell \notin K}
<1> DEFINE a == After(f, st, K)
<1>1. /\ DOMAIN a = (DOMAIN st \ K) \cup (DOMAIN f \cap K)
      /\ \A c \in DOMAIN a : a[c] = IF c \in K THEN f[c] ELSE st[c]
  BY DEF After
<1> HIDE DEF a
<1>2. Differ(f, a) = Differ(f, st) \ K
  <2>1. \A d : d \in Differ(f, a) => d \in Differ(f, st) \ K
    BY <1>1 DEF Differ
  <2>2. \A d : d \in Differ(f, st) \ K => d \in Differ(f, a)
    BY <1>1 DEF Differ
  <2> QED BY <2>1, <2>2
<1>3. \A d \in Differ(f, st) \ K : ChangeOf(f, a, d) = ChangeOf(f, st, d)
  BY <1>1 DEF Differ, ChangeOf
<1>4. \A d : ChangeOf(f, st, d).cell = d
  BY DEF ChangeOf
<1>5. Changed(f, a) \subseteq {x \in Changed(f, st) : x.cell \notin K}
  BY <1>2, <1>3, <1>4 DEF Changed
<1>6. {x \in Changed(f, st) : x.cell \notin K} \subseteq Changed(f, a)
  BY <1>2, <1>3, <1>4 DEF Changed
<1> QED BY <1>5, <1>6 DEF a

-----------------------------------------------------------------------------
(* The display over time                                                   *)

\* The glasses show what the session has committed, and the last packet is
\* one pass over cells in scheduling order.
Scene ==
  /\ target \in Frames
  /\ committed \in States /\ display \in Displays
  /\ \A c \in Cell : display[c] = At(committed, c)
  /\ \E t \in Seq(Change) : Sorted(t) /\ Packs(t, sent)

\* The host's frames are frames.
LEMMA FramesTyped ==
  ASSUME NEW f \in Frames
  PROVE  IsFrame(f)
BY HaloAssumption DEF IsFrame

\* Nothing was sent at first, and nothing shows.
LEMMA SceneInit == ASSUME HaloInit PROVE Scene
<1> DEFINE e == <<>>
<1>1. /\ committed = e /\ sent = NoPacket /\ target \in Frames
      /\ display = [c \in Cell |-> Blank]
  BY DEF HaloInit, Empty
<1>2. e \in Seq(Change) /\ DOMAIN e = {} /\ e \in [{} -> Looks]
  OBVIOUS
<1> HIDE DEF e
<1>3. e \in States
  BY <1>2 DEF States
<1>4. display \in Displays /\ \A c \in Cell : display[c] = At(e, c)
  BY <1>1, <1>2 DEF Displays, At
<1>5. Sorted(e) /\ Packs(e, sent)
  BY <1>1, <1>2, NothingPacked DEF Sorted, e
<1> QED BY <1>1, <1>2, <1>3, <1>4, <1>5 DEF Scene

\* A tick sends some of the changes, in one pass over all of them, and applies
\* what it sends to the session's record and to the glasses.
Sends(X, p) ==
  /\ p.cells \in Seq(X) /\ ToSet(p.deferred) = X \ ToSet(p.cells)
  /\ \E t \in Seq(Change) : Sorted(t) /\ Packs(t, p)

\* A tick is a pass over what differs, and commits and draws what it sent.
LEMMA TickSends ==
  ASSUME Scene, Tick
  PROVE  /\ Sends(Changed(target, committed), sent') /\ target' = target
         /\ committed' = After(target, committed, CellsOf(sent'.cells))
         /\ display' = Shows(target, display, CellsOf(sent'.cells))
<1> DEFINE X == Changed(target, committed)
           t == Scheduled(X)
           p == Pack(t)
<1>1. /\ sent' = p /\ target' = target
      /\ committed' = Applied(p.cells, committed)
      /\ display' = Drawn(p.cells, display)
  BY ChangedIs DEF Tick, Packet
<1>2. IsFrame(target) /\ committed \in States /\ IsFrame(committed) /\ display \in Displays
  BY FramesTyped, StateCells DEF Scene
<1>3. OnePerCell(X) /\ X \in SUBSET Change
  BY <1>2, ChangedOnce DEF OnePerCell
<1> HIDE DEF X
<1>4. t \in Seq(X) /\ Sorted(t) /\ ToSet(t) = X
  BY <1>3, ScheduledIs
<1>5. t \in Seq(Change)
  BY <1>3, <1>4
<1> HIDE DEF t
<1>6. Packs(t, p)
  BY <1>5, Packed
<1> HIDE DEF p
<1>7. /\ p.cells \in Seq(Change)
      /\ ToSet(p.cells) \cup ToSet(p.deferred) = X
      /\ ToSet(p.cells) \cap ToSet(p.deferred) = {}
  BY <1>4, <1>6 DEF Packs, PacketType
<1>8. p.cells \in Seq(X)
  <2> DEFINE cs == p.cells
  <2>1. cs \in Seq(Change) /\ ToSet(cs) \subseteq X
    BY <1>7
  <2> HIDE DEF cs
  <2>2. Len(cs) \in Nat /\ DOMAIN cs = 1 .. Len(cs) /\ \A i \in 1 .. Len(cs) : cs[i] \in X
    BY <2>1 DEF ToSet
  <2>3. cs \in Seq(X)
    BY <2>1, <2>2
  <2> QED BY <2>3 DEF cs
<1>9. Sends(X, p)
  BY <1>4, <1>5, <1>6, <1>7, <1>8 DEF Sends
<1>10. /\ Applied(p.cells, committed) = After(target, committed, CellsOf(p.cells))
       /\ Drawn(p.cells, display) = Shows(target, display, CellsOf(p.cells))
  BY <1>2, <1>8, SomeSent DEF X
<1> QED BY <1>1, <1>9, <1>10 DEF X

\* What is committed stays a frame state.
LEMMA AfterTyped ==
  ASSUME NEW f, IsFrame(f), NEW st, IsFrame(st), NEW K
  PROVE  After(f, st, K) \in States
<1> DEFINE D == (DOMAIN st \ K) \cup (DOMAIN f \cap K)
<1>1. D \in SUBSET Cell
  BY DEF IsFrame
<1>2. After(f, st, K) \in [D -> Looks]
  BY DEF After, IsFrame
<1> HIDE DEF D
<1> QED BY <1>1, <1>2 DEF States

\* The glasses show what is committed, after the same cells were drawn.
LEMMA ShowsAfter ==
  ASSUME NEW f, NEW st, NEW shown, NEW K,
         \A c \in Cell : shown[c] = At(st, c)
  PROVE  \A c \in Cell : Shows(f, shown, K)[c] = At(After(f, st, K), c)
<1> SUFFICES ASSUME NEW c \in Cell
             PROVE  Shows(f, shown, K)[c] = At(After(f, st, K), c)
  OBVIOUS
<1> DEFINE a == After(f, st, K)
<1>1. /\ DOMAIN a = (DOMAIN st \ K) \cup (DOMAIN f \cap K)
      /\ \A d \in DOMAIN a : a[d] = IF d \in K THEN f[d] ELSE st[d]
  BY DEF After
<1>2. Shows(f, shown, K)[c] = IF c \in K THEN At(f, c) ELSE shown[c]
  BY DEF Shows
<1> HIDE DEF a
<1>3. At(a, c) = IF c \in K THEN At(f, c) ELSE At(st, c)
  BY <1>1 DEF At
<1> QED BY <1>2, <1>3 DEF a

\* The host's frame, the state and the glasses change together or not at all.
LEMMA SceneNext ==
  ASSUME Scene, [HaloNext]_haloVars
  PROVE  Scene'
<1>1. CASE Tick
  <2> DEFINE K == CellsOf(sent'.cells)
  <2>1. /\ Sends(Changed(target, committed), sent') /\ target' = target
        /\ committed' = After(target, committed, K)
        /\ display' = Shows(target, display, K)
    BY <1>1, TickSends
  <2> HIDE DEF K
  <2>2. IsFrame(target) /\ IsFrame(committed)
    BY FramesTyped, StateCells DEF Scene
  <2>3. committed' \in States
    BY <2>1, <2>2, AfterTyped
  <2>4. display' \in Displays
    <3>1. \A c \in Cell : At(target, c) \in Glyph \cup {Blank}
      BY <2>2 DEF IsFrame, At, Looks
    <3>2. \A c \in Cell : display[c] \in Glyph \cup {Blank}
      BY DEF Scene, Displays
    <3> QED BY <2>1, <3>1, <3>2 DEF Shows, Displays
  <2>5. \A c \in Cell : display'[c] = At(committed', c)
    <3>1. \A c \in Cell : display[c] = At(committed, c)
      BY DEF Scene
    <3> QED BY <2>1, <3>1, ShowsAfter
  <2>6. target' \in Frames /\ \E t \in Seq(Change) : Sorted(t) /\ Packs(t, sent')
    BY <2>1 DEF Scene, Sends
  <2> QED BY <2>3, <2>4, <2>5, <2>6 DEF Scene, At, Sorted, Packs
<1>2. ASSUME NEW frame \in Frames, ChangeFrame(frame) PROVE Scene'
  <2>1. target' = frame /\ UNCHANGED <<committed, sent, display>>
    BY <1>2 DEF ChangeFrame, displayVars
  <2> QED BY <2>1 DEF Scene, At, Sorted, Packs
<1>3. ASSUME UNCHANGED <<target, committed, sent, display>> PROVE Scene'
  BY <1>3 DEF Scene, At, Sorted, Packs
<1>4. OpenSession \/ (\E kind \in Kinds : Poll(kind)) \/ Start \/ Stop
        \/ UNCHANGED haloVars
        => UNCHANGED <<target, committed, sent, display>>
  BY DEF OpenSession, Poll, Start, Stop, haloVars, displayVars
<1> QED BY <1>1, <1>2, <1>3, <1>4 DEF HaloNext, Kinds

\* The packets of every tick stay within the budget and carry the true number
\* of their bytes.
THEOREM PacketsFit == HaloSpec => []WithinBudget
<1>1. HaloInit => Scene
  BY SceneInit
<1>2. Scene /\ [HaloNext]_haloVars => Scene'
  BY SceneNext
<1>3. Scene => WithinBudget
  BY DEF Scene, Packs, WithinBudget
<1> QED BY <1>1, <1>2, <1>3, PTL DEF HaloSpec

\* A cell that would fit into a tick of its own is put off only in a tick that
\* sends a cell at least as urgent.
THEOREM UrgentGoesFirst == HaloSpec => []UrgentFirst
<1>1. HaloInit => Scene
  BY SceneInit
<1>2. Scene /\ [HaloNext]_haloVars => Scene'
  BY SceneNext
<1>3. Scene => UrgentFirst
  <2> SUFFICES ASSUME Scene, NEW i \in DOMAIN sent.deferred,
                      CellBytes(sent.deferred[i]) <= Budget
               PROVE  \E j \in DOMAIN sent.cells :
                        sent.cells[j].priority <= sent.deferred[i].priority
    BY DEF UrgentFirst
  <2>1. Urgent(sent)
    BY DEF Scene, Packs
  <2>2. sent.deferred[i] \in ToSet(sent.deferred)
    BY DEF ToSet
  <2>3. PICK c \in ToSet(sent.cells) : c.priority <= sent.deferred[i].priority
    BY <2>1, <2>2 DEF Urgent
  <2> QED BY <2>3 DEF ToSet
<1> QED BY <1>1, <1>2, <1>3, PTL DEF HaloSpec

\* What a tick reports as deferred is exactly what still separates the wanted
\* frame from the display.
THEOREM NothingIsLost ==
  HaloSpec => DeferredIsRemaining
<1>1. HaloInit => Scene
  BY SceneInit
<1>2. Scene /\ [HaloNext]_haloVars => Scene'
  BY SceneNext
<1>3. ASSUME Scene, Tick
      PROVE  /\ ToSet(sent'.deferred) = ChangedCells(target)'
             /\ \A c \in Cell : display'[c] # At(target, c) =>
                                  \E d \in ToSet(sent'.deferred) : d.cell = c
  <2> DEFINE X == Changed(target, committed)
             cs == sent'.cells
             K == CellsOf(cs)
  <2>1. /\ Sends(X, sent') /\ target' = target
        /\ committed' = After(target, committed, K)
        /\ display' = Shows(target, display, K)
    BY <1>3, TickSends
  <2>2. IsFrame(target) /\ IsFrame(committed)
    BY <1>3, FramesTyped, StateCells DEF Scene
  <2>3. OnePerCell(X)
    BY <2>2, ChangedOnce
  <2>4. ToSet(sent'.deferred) = X \ ToSet(cs) /\ ToSet(cs) \subseteq X
    <3>1. cs \in Seq(X)
      BY <2>1 DEF Sends
    <3> HIDE DEF X, cs
    <3>2. ToSet(cs) \subseteq X
      BY <3>1 DEF ToSet
    <3> QED BY <2>1, <3>2 DEF Sends, ToSet, ToSet, cs
  <2>5. ChangedCells(target)' = Changed(target, After(target, committed, K))
    BY <2>1 DEF ChangedCells, Changed, Differ, ChangeOf, At
  <2>6. Changed(target, After(target, committed, K)) = {x \in X : x.cell \notin K}
    BY RestRemains
  <2>7. {x \in X : x.cell \notin K} = X \ ToSet(cs)
    <3> HIDE DEF X, cs
    <3> QED BY <2>3, <2>4 DEF OnePerCell, CellsOf
  <2>8. ASSUME NEW c \in Cell, display'[c] # At(target, c)
        PROVE  \E d \in X \ ToSet(cs) : d.cell = c
    <3>1. c \notin K /\ display[c] # At(target, c)
      BY <2>1, <2>8 DEF Shows
    <3>2. At(committed, c) # At(target, c)
      BY <1>3, <3>1 DEF Scene
    <3>3. c \in Differ(target, committed)
      BY <3>2 DEF Differ, At
    <3> DEFINE d == ChangeOf(target, committed, c)
    <3>4. d \in X /\ d.cell = c
      BY <3>3 DEF Changed, ChangeOf
    <3>5. d \notin ToSet(cs)
      BY <3>1, <3>4 DEF CellsOf
    <3> QED BY <3>4, <3>5
  <2> HIDE DEF X, cs, K
  <2> QED BY <2>4, <2>5, <2>6, <2>7, <2>8
<1>4. Scene /\ [HaloNext]_haloVars
        => [Tick => LET deferred == ToSet(sent'.deferred)
                         IN  /\ deferred = ChangedCells(target)'
                             /\ \A c \in Cell : display'[c] # At(target, c) =>
                                               \E d \in deferred : d.cell = c]_haloVars
  BY <1>3
<1> QED BY <1>1, <1>2, <1>4, PTL DEF HaloSpec, DeferredIsRemaining

===============================================================================
