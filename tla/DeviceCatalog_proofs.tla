------------------------ MODULE DeviceCatalog_proofs ------------------------
(***************************************************************************)
(* The audio router and the device catalog, for any number of providers,   *)
(* keys, loads and devices.                                                *)
(*                                                                         *)
(* A load, a listing and the order of a map are folds.  A fold is taken    *)
(* apart once, into the accumulator after each element; what it computes   *)
(* is then an induction over the elements.                                 *)
(***************************************************************************)
EXTENDS DeviceCatalog, WellFoundedInduction, TLAPS

-----------------------------------------------------------------------------
(* Induction and folds                                                     *)

\* Induction over the natural numbers, for the members of a set.
LEMMA Induction ==
  ASSUME NEW G, 0 \in G, \A k \in Nat : k \in G => k + 1 \in G
  PROVE  Nat \subseteq G
<1> DEFINE Below == OpToRel(<, Nat)
           Bad == Nat \ G
<1>1. \A i, j \in Nat : <<i, j>> \in Below <=> i < j
  BY DEF OpToRel
<1>2. IsWellFoundedOn(Below, Nat)
  BY NatLessThanWellFounded
<1>3. Bad \in SUBSET Nat
  OBVIOUS
<1>4. SUFFICES ASSUME Bad # {} PROVE FALSE
  OBVIOUS
<1>5. PICK m \in Bad : \A k \in Bad : <<k, m>> \notin Below
  <2> HIDE DEF Below, Bad
  <2> QED BY <1>2, <1>3, <1>4, WFMin
<1> HIDE DEF Below
<1>6. m \in Nat /\ m \notin G /\ m # 0
  BY <1>5
<1>7. m - 1 \in Nat /\ m - 1 < m /\ (m - 1) + 1 = m
  BY <1>6
<1>8. m - 1 \notin Bad
  BY <1>1, <1>5, <1>6, <1>7
<1> QED BY <1>6, <1>7, <1>8

\* The largest member of a set of numbers up to m that has m.
LEMMA MaxOfAll ==
  ASSUME NEW m \in Nat, NEW T \in SUBSET (1 .. m), m \in T
  PROVE  Max(T) = m
<1>1. \A x \in T : m >= x
  OBVIOUS
<1>2. \A x \in T : (\A y \in T : x >= y) => x = m
  OBVIOUS
<1> QED BY <1>1, <1>2 DEF Max

\* The largest member of a set of numbers up to m.
LEMMA MaxAmong ==
  ASSUME NEW n \in Nat, NEW T \in SUBSET (1 .. n), T # {}
  PROVE  Max(T) \in T /\ \A x \in T : x <= Max(T)
<1> DEFINE Good == {m \in Nat : \A U \in SUBSET (1 .. m) : U # {} =>
                                  \E x \in U : \A y \in U : x >= y}
<1>1. 0 \in Good
  <2>1. 1 .. 0 = {}
    OBVIOUS
  <2>2. \A U \in SUBSET (1 .. 0) : U = {}
    BY <2>1
  <2> QED BY <2>2
<1>2. ASSUME NEW k \in Nat, k \in Good PROVE k + 1 \in Good
  <2> SUFFICES ASSUME NEW U \in SUBSET (1 .. (k + 1)), U # {}
               PROVE  \E x \in U : \A y \in U : x >= y
    OBVIOUS
  <2>1. CASE k + 1 \in U
    BY <2>1
  <2>2. CASE k + 1 \notin U
    <3>1. U \in SUBSET (1 .. k)
      BY <2>2
    <3> QED BY <1>2, <3>1
  <2> QED BY <2>1, <2>2
<1>3. n \in Good
  <2> HIDE DEF Good
  <2> QED BY <1>1, <1>2, Induction
<1>4. \E x \in T : \A y \in T : x >= y
  BY <1>3
<1>5. Max(T) \in T /\ \A y \in T : Max(T) >= y
  BY <1>4, Zenon DEF Max
<1> QED BY <1>5

\* The numbers up to i + 1, taken apart.
LEMMA UpTo ==
  ASSUME NEW n \in Nat, NEW i \in Nat, i + 1 <= n
  PROVE  /\ i <= n /\ i + 1 \in 1 .. n
         /\ 1 .. (i + 1) \in SUBSET (1 .. n) /\ 1 .. (i + 1) # {}
         /\ Max(1 .. (i + 1)) = i + 1
         /\ (1 .. (i + 1)) \ {i + 1} = 1 .. i
<1>1. i <= n /\ i + 1 \in 1 .. n /\ i + 1 \in Nat /\ i + 1 \in 1 .. (i + 1)
  OBVIOUS
<1>2. 1 .. (i + 1) \in SUBSET (1 .. n) /\ 1 .. (i + 1) # {}
  <2>1. \A x \in 1 .. (i + 1) : x \in 1 .. n
    OBVIOUS
  <2> QED BY <1>1, <2>1
<1>3. Max(1 .. (i + 1)) = i + 1
  <2> DEFINE m == i + 1
  <2>1. m \in Nat /\ m \in 1 .. m /\ 1 .. m \in SUBSET (1 .. m)
    OBVIOUS
  <2>2. Max(1 .. m) = m
    BY <2>1, MaxOfAll
  <2> QED BY <2>2
<1>4. (1 .. (i + 1)) \ {i + 1} = 1 .. i
  OBVIOUS
<1> QED BY <1>1, <1>2, <1>3, <1>4

\* iter folds the steps f over each set of numbers up to n, largest last.
FoldsUp(A, b, n, f, iter) ==
  /\ iter \in [SUBSET (1 .. n) -> A]
  /\ \A T \in SUBSET (1 .. n) :
       iter[T] = IF T = {} THEN b ELSE f[Max(T)][iter[T \ {Max(T)}]]

\* Steps on every number up to n can be folded.
LEMMA FoldExists ==
  ASSUME NEW A, NEW b \in A, NEW n \in Nat, NEW f \in [1 .. n -> [A -> A]]
  PROVE  \E iter : FoldsUp(A, b, n, f, iter)
<1> DEFINE Folded(m, iter) ==
             \A T \in SUBSET (1 .. m) :
               iter[T] = IF T = {} THEN b ELSE f[Max(T)][iter[T \ {Max(T)}]]
           Can(m) == \E iter \in [SUBSET (1 .. m) -> A] : Folded(m, iter)
           Good == {m \in Nat : m <= n => Can(m)}
<1>1. Can(0)
  <2> DEFINE iter == [T \in SUBSET (1 .. 0) |-> b]
  <2>1. iter \in [SUBSET (1 .. 0) -> A] /\ Folded(0, iter)
    OBVIOUS
  <2> QED BY <2>1
<1>2. ASSUME NEW k \in Nat, k + 1 <= n, Can(k) PROVE Can(k + 1)
  <2> DEFINE m == k + 1
  <2>1. m \in Nat /\ m \in 1 .. n /\ k = m - 1
    BY <1>2
  <2>2. PICK old \in [SUBSET (1 .. k) -> A] : Folded(k, old)
    BY <1>2
  <2> DEFINE new == [T \in SUBSET (1 .. m) |-> IF m \in T THEN f[m][old[T \ {m}]] ELSE old[T]]
  <2>3. \A T \in SUBSET (1 .. m) : /\ m \in T => T \ {m} \in SUBSET (1 .. k)
                                  /\ m \notin T => T \in SUBSET (1 .. k)
    BY <2>1
  <2>4. f[m] \in [A -> A]
    BY <2>1
  <2>5. new \in [SUBSET (1 .. m) -> A]
    BY <2>2, <2>3, <2>4
  <2>6. ASSUME NEW T \in SUBSET (1 .. m)
        PROVE  new[T] = IF T = {} THEN b ELSE f[Max(T)][new[T \ {Max(T)}]]
    <3>1. CASE m \in T
      <4>1. Max(T) = m
        BY <2>1, <3>1, MaxOfAll
      <4>2. T \ {m} \in SUBSET (1 .. m) /\ m \notin T \ {m}
        OBVIOUS
      <4>3. new[T \ {m}] = old[T \ {m}] /\ new[T] = f[m][old[T \ {m}]]
        BY <3>1, <4>2
      <4> QED BY <3>1, <4>1, <4>3
    <3>2. CASE m \notin T
      <4>1. T \in SUBSET (1 .. k) /\ new[T] = old[T]
        BY <2>3, <3>2
      <4>2. CASE T = {}
        BY <2>2, <4>1, <4>2
      <4>3. CASE T # {}
        <5>1. T \ {Max(T)} \in SUBSET (1 .. m) /\ m \notin T \ {Max(T)}
          BY <3>2
        <5>2. new[T \ {Max(T)}] = old[T \ {Max(T)}]
          BY <5>1
        <5> QED BY <2>2, <4>1, <4>3, <5>2
      <4> QED BY <4>2, <4>3
    <3> QED BY <3>1, <3>2
  <2>7. Folded(m, new)
    BY <2>6
  <2> QED BY <2>5, <2>7
<1>3. 0 \in Good /\ \A k \in Nat : k \in Good => k + 1 \in Good
  <2>1. \A k \in Nat : k + 1 <= n => k <= n
    OBVIOUS
  <2> HIDE DEF Can
  <2> QED BY <1>1, <1>2, <2>1
<1>4. n \in Good
  <2> HIDE DEF Good
  <2> QED BY <1>3, Induction
<1>5. Can(n)
  <2> HIDE DEF Can
  <2> QED BY <1>4
<1> QED BY <1>5 DEF FoldsUp

-----------------------------------------------------------------------------
(* Loading a provider                                                      *)

Row == [owner : Owner, build : 0 .. MaxBuilds - 1]
Tables == UNION {[K -> Row] : K \in SUBSET Key}
Loading == [sites : Tables, error : BOOLEAN]

RouterTyped == sites \in Tables /\ builds \in 0 .. MaxBuilds

\* One registration keeps the table a table.
LEMMA RegisterTyped ==
  ASSUME NEW p \in Provider, NEW a \in Loading, NEW key, builds \in 0 .. MaxBuilds - 1
  PROVE  RegisterSite(p, a, key) \in Loading
<1>1. CASE a.error \/ key \notin Declared[p] \/ Occupied(a.sites, key)
  BY <1>1 DEF RegisterSite, Loading
<1>2. CASE ~a.error /\ key \in Declared[p] /\ ~Occupied(a.sites, key)
  <2> DEFINE row == [owner |-> p, build |-> builds]
             t == With(a.sites, key, row)
  <2>1. RegisterSite(p, a, key) = [a EXCEPT !.sites = t]
    BY <1>2 DEF RegisterSite
  <2>2. row \in Row
    BY DEF Row, Owner
  <2>3. PICK K \in SUBSET Key : a.sites \in [K -> Row]
    BY DEF Loading, Tables
  <2>4. key \in Key
    BY <1>2, RouterAssumption
  <2>5. t \in [K \cup {key} -> Row]
    BY <2>2, <2>3 DEF With
  <2>6. t \in Tables
    BY <2>3, <2>4, <2>5 DEF Tables
  <2> HIDE DEF t
  <2> QED BY <2>1, <2>6 DEF Loading
<1> QED BY <1>1, <1>2

\* What load_into does with an entry's offer.
Offered(p, entry) ==
  FoldLeft(LAMBDA a, key : RegisterSite(p, a, key), [sites |-> sites, error |-> FALSE], entry)

\* g holds the table after each site of the entry.
LoadTrace(p, entry, g) ==
  /\ g[0] = [sites |-> sites, error |-> FALSE]
  /\ \A i \in 1 .. Len(entry) : g[i] = RegisterSite(p, g[i - 1], entry[i])
  /\ Offered(p, entry) = g[Len(entry)]

\* A load has a table after each site of the offer.
LEMMA LoadTraced ==
  ASSUME RouterTyped, builds < MaxBuilds, NEW p \in Provider, NEW entry \in Entries
  PROVE  \E g : LoadTrace(p, entry, g)
<1> DEFINE n == Len(entry)
           b == [sites |-> sites, error |-> FALSE]
           Folded(iter) ==
             iter = [T \in SUBSET DOMAIN entry |->
                       IF T = {} THEN b
                       ELSE RegisterSite(p, iter[T \ {Max(T)}], entry[Max(T)])]
           c == CHOOSE iter : Folded(iter)
<1>1. Offered(p, entry) = c[DOMAIN entry]
  BY DEF Offered, FoldLeft, MapThenFoldSet
<1>2. n \in Nat /\ DOMAIN entry = 1 .. n
  BY RouterAssumption
<1>3. \E iter : Folded(iter)
  <2> DEFINE f == [i \in 1 .. n |-> [a \in Loading |-> RegisterSite(p, a, entry[i])]]
  <2>1. builds \in 0 .. MaxBuilds - 1
    BY RouterAssumption DEF RouterTyped
  <2>2. f \in [1 .. n -> [Loading -> Loading]]
    BY <2>1, RegisterTyped
  <2>3. b \in Loading
    BY DEF RouterTyped, Loading
  <2> HIDE DEF f, n, b
  <2>4. PICK iter : FoldsUp(Loading, b, n, f, iter)
    BY <1>2, <2>2, <2>3, FoldExists, Zenon
  <2> USE DEF f, FoldsUp
  <2>5. ASSUME NEW T \in SUBSET (1 .. n), T # {}
        PROVE  iter[T] = RegisterSite(p, iter[T \ {Max(T)}], entry[Max(T)])
    <3>1. Max(T) \in 1 .. n
      BY <1>2, <2>5, MaxAmong
    <3>2. iter[T \ {Max(T)}] \in Loading
      BY <2>4
    <3> QED BY <2>4, <2>5, <3>1, <3>2
  <2>6. iter = [T \in SUBSET (1 .. n) |->
                  IF T = {} THEN b ELSE RegisterSite(p, iter[T \ {Max(T)}], entry[Max(T)])]
    BY <2>4, <2>5
  <2> QED BY <1>2, <2>6
<1>4. Folded(c)
  <2> HIDE DEF Folded
  <2> QED BY <1>3, Zenon
<1> DEFINE g == [i \in 0 .. n |-> c[1 .. i]]
<1> HIDE DEF c
<1>5. g[0] = b
  BY <1>2, <1>4
<1>6. ASSUME NEW i \in 1 .. n
      PROVE  g[i] = RegisterSite(p, g[i - 1], entry[i])
  <2>1. 1 .. i \in SUBSET (1 .. n) /\ 1 .. i # {} /\ i \in 1 .. i /\ i \in Nat
    BY <1>2
  <2>2. Max(1 .. i) = i
    BY <2>1, MaxOfAll
  <2>3. (1 .. i) \ {i} = 1 .. (i - 1)
    BY <2>1
  <2>4. c[1 .. i] = RegisterSite(p, c[1 .. (i - 1)], entry[i])
    BY <1>2, <1>4, <2>1, <2>2, <2>3
  <2> QED BY <1>2, <2>1, <2>4
<1>7. Offered(p, entry) = g[n]
  BY <1>1, <1>2
<1> QED BY <1>5, <1>6, <1>7 DEF LoadTrace

\* After i sites of the entry: the first n of them are registered, all of them
\* or those before the one the load failed on.
Registered(p, entry, i, a, n) ==
  /\ n \in 0 .. i
  /\ DOMAIN a.sites = DOMAIN sites \cup {entry[j] : j \in 1 .. n}
  /\ \A j \in 1 .. n : entry[j] \notin DOMAIN sites /\ entry[j] \in Declared[p]
  /\ \A k \in DOMAIN sites : a.sites[k] = sites[k]
  /\ \A j \in 1 .. n : a.sites[entry[j]] = [owner |-> p, build |-> builds]
  /\ ~a.error => n = i
  /\ a.error => /\ n < i
                /\ \/ entry[n + 1] \notin Declared[p]
                   \/ entry[n + 1] \in DOMAIN a.sites
  /\ a \in Loading

\* What is registered of an offer, one site further.
LEMMA RegisteredNext ==
  ASSUME builds \in 0 .. MaxBuilds - 1, NEW p \in Provider, NEW entry \in Entries,
         NEW i \in Nat, i < Len(entry), NEW a, NEW n, Registered(p, entry, i, a, n)
  PROVE  \E m : Registered(p, entry, i + 1, RegisterSite(p, a, entry[i + 1]), m)
<1> DEFINE key == entry[i + 1]
           next == RegisterSite(p, a, key)
<1>1. next \in Loading
  BY RegisterTyped DEF Registered
<1>2. n \in Nat /\ n <= i /\ a \in Loading
  BY DEF Registered
<1>3. CASE a.error
  <2>1. next = a
    BY <1>3 DEF RegisterSite
  <2>2. n \in 0 .. (i + 1) /\ n < i + 1
    BY <1>2
  <2>3. Registered(p, entry, i + 1, a, n)
    BY <1>3, <2>2 DEF Registered
  <2> QED BY <2>1, <2>3
<1>4. CASE ~a.error /\ (key \notin Declared[p] \/ Occupied(a.sites, key))
  <2>1. next = [a EXCEPT !.error = TRUE]
    BY <1>4 DEF RegisterSite
  <2>2. next.sites = a.sites /\ next.error
    BY <1>2, <2>1 DEF Loading
  <2>3. n = i /\ n \in 0 .. (i + 1) /\ n < i + 1
    BY <1>2, <1>4 DEF Registered
  <2> HIDE DEF next
  <2>4. Registered(p, entry, i + 1, next, n)
    BY <1>1, <1>4, <2>2, <2>3 DEF Registered, Occupied
  <2> QED BY <2>4 DEF next
<1>5. CASE ~a.error /\ key \in Declared[p] /\ ~Occupied(a.sites, key)
  <2> DEFINE row == [owner |-> p, build |-> builds]
  <2>1. next = [a EXCEPT !.sites = With(a.sites, key, row)]
    BY <1>5 DEF RegisterSite
  <2>2. next.sites = With(a.sites, key, row) /\ ~next.error
    BY <1>2, <1>5, <2>1 DEF Loading
  <2>3. n = i
    BY <1>5 DEF Registered
  <2>4. /\ DOMAIN next.sites = DOMAIN a.sites \cup {key}
        /\ next.sites[key] = row
        /\ \A k \in DOMAIN a.sites : k # key /\ next.sites[k] = a.sites[k]
    BY <1>5, <2>2 DEF With, Occupied
  <2> HIDE DEF next, row
  <2>5. \A j \in 1 .. (i + 1) : j \in 1 .. i \/ j = i + 1
    OBVIOUS
  <2>6. DOMAIN next.sites = DOMAIN sites \cup {entry[j] : j \in 1 .. (i + 1)}
    BY <2>3, <2>4, <2>5 DEF Registered
  <2>7. \A j \in 1 .. (i + 1) : entry[j] \notin DOMAIN sites /\ entry[j] \in Declared[p]
    BY <1>5, <2>3, <2>5 DEF Registered, Occupied
  <2>8. \A k \in DOMAIN sites : next.sites[k] = sites[k]
    BY <2>4 DEF Registered
  <2>9. \A j \in 1 .. (i + 1) : next.sites[entry[j]] = row
    BY <2>3, <2>4, <2>5 DEF Registered, row
  <2>10. i + 1 \in 0 .. (i + 1)
    OBVIOUS
  <2>11. Registered(p, entry, i + 1, next, i + 1)
    BY <1>1, <2>2, <2>6, <2>7, <2>8, <2>9, <2>10 DEF Registered, row
  <2> QED BY <2>11 DEF next
<1> QED BY <1>3, <1>4, <1>5

\* What a load did to the table.
LEMMA LoadRegisters ==
  ASSUME RouterTyped, builds < MaxBuilds, NEW p \in Provider, NEW entry \in Entries
  PROVE  \E n : Registered(p, entry, Len(entry), Offered(p, entry), n)
<1>1. PICK g : LoadTrace(p, entry, g)
  BY LoadTraced
<1> DEFINE Good == {i \in Nat : i <= Len(entry) => \E n : Registered(p, entry, i, g[i], n)}
<1>2. builds \in 0 .. MaxBuilds - 1 /\ Len(entry) \in Nat
  BY RouterAssumption DEF RouterTyped
<1>3. 0 \in Good
  <2>1. g[0] = [sites |-> sites, error |-> FALSE] /\ 1 .. 0 = {} /\ 0 \in 0 .. 0
    BY <1>1 DEF LoadTrace
  <2>2. g[0] \in Loading
    BY <2>1 DEF RouterTyped, Loading
  <2>3. Registered(p, entry, 0, g[0], 0)
    BY <2>1, <2>2 DEF Registered
  <2> QED BY <2>3
<1>4. ASSUME NEW i \in Nat, i \in Good PROVE i + 1 \in Good
  <2> SUFFICES ASSUME i + 1 <= Len(entry)
               PROVE  \E n : Registered(p, entry, i + 1, g[i + 1], n)
    OBVIOUS
  <2>1. i < Len(entry) /\ i + 1 \in 1 .. Len(entry) /\ (i + 1) - 1 = i
    BY <1>2
  <2>2. PICK n : Registered(p, entry, i, g[i], n)
    BY <1>2, <1>4, <2>1
  <2>3. g[i + 1] = RegisterSite(p, g[i], entry[i + 1])
    BY <1>1, <2>1 DEF LoadTrace
  <2> QED BY <1>2, <2>1, <2>2, <2>3, RegisteredNext
<1>5. Len(entry) \in Good
  <2> HIDE DEF Good
  <2> QED BY <1>2, <1>3, <1>4, Induction
<1> QED BY <1>1, <1>2, <1>5 DEF LoadTrace

-----------------------------------------------------------------------------
(* What a step of the router does                                          *)

\* What a load does to the table, and its report.
LEMMA LoadStep ==
  ASSUME RouterTyped, NEW p \in Provider, NEW entry \in Entries, NEW ok \in BOOLEAN,
         Load(p, entry, ok)
  PROVE  \E n : /\ Registered(p, entry, Len(entry), Offered(p, entry), n)
                /\ sites' = Offered(p, entry).sites
                /\ builds' = builds + 1 /\ builds < MaxBuilds
                /\ load'.provider = p /\ load'.offered = entry /\ load'.build = builds
                /\ load'.result = IF ok /\ ~Offered(p, entry).error THEN "ok" ELSE "error"
<1>1. builds < MaxBuilds /\ builds' = builds + 1
  BY DEF Load, NewBuild
<1>2. sites' = Offered(p, entry).sites
  BY DEF Load, Offered
<1>3. /\ load'.provider = p /\ load'.offered = entry /\ load'.build = builds
      /\ load'.result = IF ok /\ ~Offered(p, entry).error THEN "ok" ELSE "error"
  BY DEF Load, Offered
<1>4. \E n : Registered(p, entry, Len(entry), Offered(p, entry), n)
  BY <1>1, LoadRegisters
<1> QED BY <1>1, <1>2, <1>3, <1>4

\* Another row in a table leaves a table.
LEMMA WithTable ==
  ASSUME NEW t \in Tables, NEW key \in Key, NEW row \in Row
  PROVE  With(t, key, row) \in Tables
<1>1. PICK K \in SUBSET Key : t \in [K -> Row]
  BY DEF Tables
<1>2. With(t, key, row) \in [K \cup {key} -> Row]
  BY <1>1 DEF With
<1> QED BY <1>1, <1>2 DEF Tables

\* An empty table is a table.
LEMMA RouterInit == Init => RouterTyped
<1>1. <<>> \in [{} -> Row]
  OBVIOUS
<1> QED BY <1>1, RouterAssumption DEF Init, RouterTyped, Tables

\* Every step of the router keeps the table a table.
LEMMA RouterTypedNext == RouterTyped /\ Next => RouterTyped'
<1> SUFFICES ASSUME RouterTyped, Next PROVE RouterTyped'
  OBVIOUS
<1> USE DEF RouterTyped
<1>1. ASSUME NEW owner \in Owner, NEW key \in Key, NewBuild,
             sites' = With(sites, key, [owner |-> owner, build |-> builds])
      PROVE  RouterTyped'
  <2>1. builds \in 0 .. MaxBuilds - 1 /\ builds' \in 0 .. MaxBuilds
    BY <1>1, RouterAssumption DEF NewBuild
  <2>2. [owner |-> owner, build |-> builds] \in Row
    BY <2>1 DEF Row
  <2> QED BY <1>1, <2>1, <2>2, WithTable
<1>2. ASSUME NEW key \in Key, Register(key) PROVE RouterTyped'
  BY <1>1, <1>2 DEF Register, Owner
<1>3. ASSUME NEW owner \in Owner, NEW key \in Key, Reload(owner, key) PROVE RouterTyped'
  BY <1>1, <1>3 DEF Reload
<1>4. ASSUME NEW owner \in Owner, Unregister(owner) PROVE RouterTyped'
  <2>1. PICK K \in SUBSET Key : sites \in [K -> Row]
    BY DEF Tables
  <2>2. sites' \in [K \ OwnedBy(owner) -> Row]
    BY <1>4, <2>1 DEF Unregister, Others
  <2>3. sites' \in Tables
    BY <2>2 DEF Tables
  <2> QED BY <1>4, <2>3 DEF Unregister
<1>5. ASSUME NEW p \in Provider, LoadRefused(p) PROVE RouterTyped'
  BY <1>5 DEF LoadRefused
<1>6. ASSUME NEW p \in Provider, NEW entry \in Entries, NEW ok \in BOOLEAN, Load(p, entry, ok)
      PROVE  RouterTyped'
  <2>0. PICK n : /\ Registered(p, entry, Len(entry), Offered(p, entry), n)
                 /\ sites' = Offered(p, entry).sites
                 /\ builds' = builds + 1 /\ builds < MaxBuilds
    BY <1>6, LoadStep
  <2>1. Offered(p, entry) \in Loading
    BY <2>0 DEF Registered
  <2> QED BY <2>0, <2>1, RouterAssumption DEF Loading
<1>7. GrantNative => RouterTyped'
  BY DEF GrantNative
<1> QED BY <1>2, <1>3, <1>4, <1>5, <1>6, <1>7 DEF Next

\* A step of the catalog takes a step of the router or leaves it alone.
LEMMA CatalogOnRouter == CatalogNext => Next \/ RouterIdle
BY DEF CatalogNext, RouterStep, RegisterProviderSites, RegisterRegistryDevices,
       RegisterNativeMidi, AddProvider, OpenSite, OpenLive, OpenChecked, CloseHandle,
       ResolveOrModeled, SelectByCapability, OpenPlacement

\* The router holds a table of its keys and counts the site values made.
THEOREM RouterTypes == CatalogSpec => []RouterTyped
<1>1. CatalogInit => RouterTyped
  BY RouterInit DEF CatalogInit
<1>2. RouterTyped /\ [CatalogNext]_allVars => RouterTyped'
  BY CatalogOnRouter, RouterTypedNext DEF RouterIdle, allVars, vars, RouterTyped
<1> QED BY <1>1, <1>2, PTL DEF CatalogSpec

-----------------------------------------------------------------------------
(* Who owns a key, and what a load leaves behind                           *)

\* What OwnerStable and LoadLeavesPrefix say of one step.
OwnersKept ==
  \A k \in DOMAIN sites \cap DOMAIN sites' :
    /\ sites'[k].owner = sites[k].owner
    /\ load'.result # "none" => sites'[k] = sites[k]

NewSites == DOMAIN sites' \ DOMAIN sites

\* The new sites are the first n of the offer.
PrefixLeft(n) ==
  /\ n \in 0 .. Len(load'.offered)
  /\ NewSites = ToSet(SubSeq(load'.offered, 1, n))
  /\ load'.result = "ok" => n = Len(load'.offered)
  /\ n < Len(load'.offered) => \/ load'.offered[n + 1] \notin Declared[load'.provider]
                               \/ load'.offered[n + 1] \in DOMAIN sites'

PrefixIsLeft ==
  load'.result # "none" =>
    /\ \A k \in NewSites : /\ sites'[k] = [owner |-> load'.provider, build |-> load'.build]
                           /\ k \in Declared[load'.provider]
    /\ \E n \in 0 .. Len(load'.offered) : PrefixLeft(n)

\* No step gives a row that stays to another owner.
LEMMA RouterKeeps == RouterTyped /\ Next => OwnersKept
<1> SUFFICES ASSUME RouterTyped, Next PROVE OwnersKept
  OBVIOUS
<1>1. ASSUME NEW key \in Key, Register(key) PROVE OwnersKept
  <2>1. load'.result = "none"
    BY <1>1 DEF Register, NoLoad
  <2>2. \A k \in DOMAIN sites : sites'[k] = sites[k]
    BY <1>1 DEF Register, Occupied, With
  <2> QED BY <2>1, <2>2 DEF OwnersKept
<1>2. ASSUME NEW owner \in Owner, NEW key \in Key, Reload(owner, key) PROVE OwnersKept
  <2>1. load'.result = "none"
    BY <1>2 DEF Reload, NoLoad
  <2>2. \A k \in DOMAIN sites : sites'[k].owner = sites[k].owner
    BY <1>2 DEF Reload, MayReload, With
  <2> QED BY <2>1, <2>2 DEF OwnersKept
<1>3. ASSUME NEW owner \in Owner, Unregister(owner) PROVE OwnersKept
  BY <1>3 DEF Unregister, Others, OwnersKept
<1>4. ASSUME NEW p \in Provider, LoadRefused(p) PROVE OwnersKept
  BY <1>4 DEF LoadRefused, OwnersKept
<1>5. ASSUME NEW p \in Provider, NEW entry \in Entries, NEW ok \in BOOLEAN, Load(p, entry, ok)
      PROVE  OwnersKept
  <2>1. PICK n : /\ Registered(p, entry, Len(entry), Offered(p, entry), n)
                 /\ sites' = Offered(p, entry).sites
    BY <1>5, LoadStep
  <2>2. \A k \in DOMAIN sites : sites'[k] = sites[k]
    BY <2>1 DEF Registered
  <2> QED BY <2>2 DEF OwnersKept
<1>6. GrantNative => OwnersKept
  BY DEF GrantNative, OwnersKept
<1> QED BY <1>1, <1>2, <1>3, <1>4, <1>5, <1>6 DEF Next

\* What a load leaves behind is a prefix of its offer.
LEMMA RouterLeaves == RouterTyped /\ Next => PrefixIsLeft
<1> SUFFICES ASSUME RouterTyped, Next PROVE PrefixIsLeft
  OBVIOUS
<1>1. CASE load' = NoLoad
  BY <1>1 DEF NoLoad, PrefixIsLeft
<1>2. ASSUME NEW p \in Provider, LoadRefused(p) PROVE PrefixIsLeft
  <2>1. /\ load'.offered = <<>> /\ load'.result = "error" /\ sites' = sites
    BY <1>2 DEF LoadRefused
  <2>2. NewSites = {} /\ Len(load'.offered) = 0 /\ ToSet(SubSeq(<<>>, 1, 0)) = {}
    BY <2>1 DEF NewSites, ToSet
  <2>3. 0 \in 0 .. Len(load'.offered) /\ PrefixLeft(0)
    BY <2>1, <2>2 DEF PrefixLeft
  <2> QED BY <2>2, <2>3 DEF PrefixIsLeft
<1>3. ASSUME NEW p \in Provider, NEW entry \in Entries, NEW ok \in BOOLEAN, Load(p, entry, ok)
      PROVE  PrefixIsLeft
  <2> DEFINE a == Offered(p, entry)
  <2>1. PICK n : /\ Registered(p, entry, Len(entry), a, n)
                 /\ sites' = a.sites
                 /\ load'.provider = p /\ load'.offered = entry /\ load'.build = builds
                 /\ load'.result = IF ok /\ ~a.error THEN "ok" ELSE "error"
    BY <1>3, LoadStep
  <2> HIDE DEF a
  <2>2. Len(entry) \in Nat /\ entry \in Seq(Key)
    BY RouterAssumption
  <2>3. n \in 0 .. Len(entry)
    BY <2>1 DEF Registered
  <2>4. NewSites = {entry[j] : j \in 1 .. n}
    BY <2>1 DEF Registered, NewSites
  <2>5. ToSet(SubSeq(entry, 1, n)) = {entry[j] : j \in 1 .. n}
    <3>1. /\ DOMAIN SubSeq(entry, 1, n) = 1 .. n
          /\ \A j \in 1 .. n : SubSeq(entry, 1, n)[j] = entry[j]
      BY <2>2, <2>3
    <3> QED BY <3>1 DEF ToSet
  <2>6. \A j \in 1 .. n : /\ sites'[entry[j]] = [owner |-> p, build |-> builds]
                          /\ entry[j] \in Declared[p]
    BY <2>1 DEF Registered
  <2>7. a.error \in BOOLEAN
    BY <2>1 DEF Registered, Loading
  <2>8. load'.result = "ok" => n = Len(entry)
    BY <2>1, <2>7 DEF Registered
  <2>9. n < Len(entry) => entry[n + 1] \notin Declared[p] \/ entry[n + 1] \in DOMAIN sites'
    BY <2>1, <2>2, <2>3, <2>7 DEF Registered
  <2>10. PrefixLeft(n)
    BY <2>1, <2>3, <2>4, <2>5, <2>8, <2>9 DEF PrefixLeft
  <2> QED BY <2>1, <2>3, <2>4, <2>6, <2>10 DEF PrefixIsLeft
<1> QED BY <1>1, <1>2, <1>3
        DEF Next, Register, Reload, Unregister, GrantNative

\* Through every order of registrations, loads, reloads and unloads, the key of
\* a row changes hands only by being unregistered, and no load, also one that
\* fails half-way, touches a row that was there before.
THEOREM OwnersAreStable == CatalogSpec => OwnerStable
<1>1. RouterTyped /\ [CatalogNext]_allVars => [OwnersKept]_vars
  BY CatalogOnRouter, RouterKeeps DEF RouterIdle, OwnersKept, NoLoad, allVars, vars
<1>2. CatalogSpec => [][OwnersKept]_vars
  BY <1>1, RouterTypes, PTL DEF CatalogSpec
<1> QED BY <1>2, PTL DEF OwnerStable, OwnersKept

\* A load leaves its whole offer if it returned Ok, otherwise the sites before
\* the one it failed on, each declared and owned by the provider that loaded.
THEOREM LoadsLeavePrefix == CatalogSpec => LoadLeavesPrefix
<1> DEFINE Left == load'.result # "none" =>
             LET new == DOMAIN sites' \ DOMAIN sites
                 offered == load'.offered
             IN  /\ \A k \in new : /\ sites'[k] = [owner |-> load'.provider, build |-> load'.build]
                                   /\ k \in Declared[load'.provider]
                 /\ \E n \in 0 .. Len(offered) :
                      /\ new = ToSet(SubSeq(offered, 1, n))
                      /\ load'.result = "ok" => n = Len(offered)
                      /\ n < Len(offered) =>
                           offered[n + 1] \notin Declared[load'.provider]
                             \/ offered[n + 1] \in DOMAIN sites'
<1>1. RouterTyped /\ [CatalogNext]_allVars => [PrefixIsLeft]_vars
  BY CatalogOnRouter, RouterLeaves DEF RouterIdle, PrefixIsLeft, NoLoad, allVars, vars
<1>2. PrefixIsLeft => Left
  BY DEF PrefixIsLeft, PrefixLeft, NewSites
<1>3. RouterTyped /\ [CatalogNext]_allVars => [Left]_vars
  BY <1>1, <1>2
<1>4. CatalogSpec => [][Left]_vars
  BY <1>3, RouterTypes, PTL DEF CatalogSpec
<1> QED BY <1>4, PTL DEF LoadLeavesPrefix

\* The load on record still tells the rows other owners have.
OthersOnRecord == load.result # "none" => load.others = Others(load.provider)

\* A load leaves the rows of other owners as it finds them.
LEMMA LoadSparesOthers ==
  ASSUME RouterTyped, NEW p \in Provider, NEW entry \in Entries, NEW ok \in BOOLEAN,
         Load(p, entry, ok)
  PROVE  /\ load'.provider = p /\ load'.others = Others(p)
         /\ Others(p) = [k \in DOMAIN sites' \ {l \in DOMAIN sites' : sites'[l].owner = p} |->
                           sites'[k]]
<1>1. load'.others = Others(p) /\ load'.provider = p
  BY DEF Load
<1>2. PICK n : /\ Registered(p, entry, Len(entry), Offered(p, entry), n)
               /\ sites' = Offered(p, entry).sites
  BY LoadStep
<1>3. /\ DOMAIN sites' = DOMAIN sites \cup {entry[j] : j \in 1 .. n}
      /\ \A k \in DOMAIN sites : sites'[k] = sites[k]
      /\ \A j \in 1 .. n : sites'[entry[j]].owner = p
  BY <1>2 DEF Registered
<1>4. DOMAIN sites' \ {l \in DOMAIN sites' : sites'[l].owner = p}
        = DOMAIN sites \ OwnedBy(p)
  BY <1>3 DEF OwnedBy
<1>5. \A k \in DOMAIN sites \ OwnedBy(p) : sites'[k] = sites[k]
  BY <1>3
<1> QED BY <1>1, <1>4, <1>5 DEF Others

\* Every step of the router keeps the record, or makes it void.
LEMMA OthersStay == RouterTyped /\ OthersOnRecord /\ [Next \/ RouterIdle]_vars => OthersOnRecord'
<1> SUFFICES ASSUME RouterTyped, OthersOnRecord, [Next \/ RouterIdle]_vars
             PROVE  OthersOnRecord'
  OBVIOUS
<1>1. CASE load' = NoLoad
  BY <1>1 DEF NoLoad, OthersOnRecord
<1>2. ASSUME NEW p \in Provider, LoadRefused(p) PROVE OthersOnRecord'
  <2>1. sites' = sites /\ load'.provider = p /\ load'.others = Others(p)
    BY <1>2 DEF LoadRefused
  <2> QED BY <2>1 DEF OthersOnRecord, Others, OwnedBy
<1>3. ASSUME NEW p \in Provider, NEW entry \in Entries, NEW ok \in BOOLEAN, Load(p, entry, ok)
      PROVE  OthersOnRecord'
  <2>1. /\ load'.provider = p /\ load'.others = Others(p)
        /\ Others(p) = [k \in DOMAIN sites' \ {l \in DOMAIN sites' : sites'[l].owner = p} |->
                          sites'[k]]
    BY <1>3, LoadSparesOthers
  <2> QED BY <2>1 DEF OthersOnRecord, Others, OwnedBy
<1>4. CASE UNCHANGED vars
  BY <1>4 DEF vars, OthersOnRecord, Others, OwnedBy
<1> QED BY <1>1, <1>2, <1>3, <1>4
        DEF Next, Register, Reload, Unregister, GrantNative, RouterIdle

\* An unload right after a load, however far the load came before it failed,
\* gives back the rows the load found, but for those the provider had already.
THEOREM UnloadsUndoLoads == CatalogSpec => UnloadUndoesLoad
<1> DEFINE Undone == load.result # "none" /\ Unregister(load.provider) => sites' = load.others
<1>1. CatalogInit => OthersOnRecord
  BY DEF CatalogInit, Init, NoLoad, OthersOnRecord
<1>2. RouterTyped /\ OthersOnRecord /\ [CatalogNext]_allVars => OthersOnRecord'
  BY CatalogOnRouter, OthersStay DEF allVars
<1>3. OthersOnRecord => Undone
  BY DEF OthersOnRecord, Unregister
<1>4. CatalogSpec => [][Undone]_vars
  BY <1>1, <1>2, <1>3, RouterTypes, PTL DEF CatalogSpec
<1> QED BY <1>4, PTL DEF UnloadUndoesLoad

-----------------------------------------------------------------------------
(* From the selection of a key to the open                                 *)

\* Every site value was made before now.
RowsMade == \A k \in DOMAIN sites : sites[k].build < builds

\* What becomes of a row in a step: it stays with its owner and may be made
\* anew, or it goes; a row on a free key is new.
RowsRenewed ==
  /\ builds <= builds'
  /\ \A k \in DOMAIN sites' :
       IF k \in DOMAIN sites
       THEN sites'[k].owner = sites[k].owner /\ sites'[k].build >= sites[k].build
       ELSE sites'[k].build >= builds

\* The rows of a table, and what they hold.
LEMMA RowsTyped ==
  ASSUME RouterTyped, NEW k \in DOMAIN sites
  PROVE  k \in Key /\ sites[k].owner \in Owner /\ sites[k].build \in Nat /\ builds \in Nat
<1>1. PICK K \in SUBSET Key : sites \in [K -> Row]
  BY DEF RouterTyped, Tables
<1>2. builds \in Nat /\ 0 .. MaxBuilds - 1 \subseteq Nat
  BY RouterAssumption DEF RouterTyped
<1> QED BY <1>1, <1>2 DEF Row

\* One row put on a key by its owner, or on a free key.
LEMMA RowPut ==
  ASSUME RouterTyped, RowsMade, NewBuild, NEW owner, NEW key,
         key \in DOMAIN sites => sites[key].owner = owner,
         sites' = With(sites, key, [owner |-> owner, build |-> builds])
  PROVE  RowsMade' /\ RowsRenewed
<1>1. builds \in Nat /\ builds' = builds + 1
  BY RouterAssumption DEF RouterTyped, NewBuild
<1>2. /\ DOMAIN sites' = DOMAIN sites \cup {key}
      /\ sites'[key].owner = owner /\ sites'[key].build = builds
      /\ \A k \in DOMAIN sites \ {key} : sites'[k] = sites[k]
  BY DEF With
<1>3. \A k \in DOMAIN sites : sites[k].build \in Nat /\ sites[k].build < builds
  BY RowsTyped DEF RowsMade
<1>4. RowsMade'
  BY <1>1, <1>2, <1>3 DEF RowsMade
<1>5. RowsRenewed
  BY <1>1, <1>2, <1>3 DEF RowsRenewed
<1> QED BY <1>4, <1>5

\* Every step of the router renews rows in that way.
LEMMA RouterRenews == RouterTyped /\ RowsMade /\ Next => RowsMade' /\ RowsRenewed
<1> SUFFICES ASSUME RouterTyped, RowsMade, Next PROVE RowsMade' /\ RowsRenewed
  OBVIOUS
<1>1. builds \in Nat /\ \A k \in DOMAIN sites : sites[k].build \in Nat /\ sites[k].build < builds
  BY RowsTyped, RouterAssumption DEF RowsMade, RouterTyped
<1>2. ASSUME builds' = builds, DOMAIN sites' \subseteq DOMAIN sites,
             \A k \in DOMAIN sites' : sites'[k] = sites[k]
      PROVE  RowsMade' /\ RowsRenewed
  BY <1>1, <1>2 DEF RowsMade, RowsRenewed
<1>3. ASSUME NEW key \in Key, Register(key) PROVE RowsMade' /\ RowsRenewed
  BY <1>3, RowPut DEF Register, Occupied
<1>4. ASSUME NEW owner \in Owner, NEW key \in Key, Reload(owner, key)
      PROVE  RowsMade' /\ RowsRenewed
  BY <1>4, RowPut DEF Reload, MayReload
<1>5. ASSUME NEW owner \in Owner, Unregister(owner) PROVE RowsMade' /\ RowsRenewed
  BY <1>2, <1>5 DEF Unregister, Others
<1>6. ASSUME NEW p \in Provider, LoadRefused(p) PROVE RowsMade' /\ RowsRenewed
  BY <1>2, <1>6 DEF LoadRefused
<1>7. ASSUME NEW p \in Provider, NEW entry \in Entries, NEW ok \in BOOLEAN, Load(p, entry, ok)
      PROVE  RowsMade' /\ RowsRenewed
  <2>1. PICK n : /\ Registered(p, entry, Len(entry), Offered(p, entry), n)
                 /\ sites' = Offered(p, entry).sites
                 /\ builds' = builds + 1
    BY <1>7, LoadStep
  <2>2. /\ \A k \in DOMAIN sites : sites'[k] = sites[k]
        /\ \A k \in DOMAIN sites' \ DOMAIN sites : sites'[k].build = builds
    BY <2>1 DEF Registered
  <2> QED BY <1>1, <2>1, <2>2 DEF RowsMade, RowsRenewed
<1>8. GrantNative => RowsMade' /\ RowsRenewed
  BY <1>2 DEF GrantNative
<1> QED BY <1>3, <1>4, <1>5, <1>6, <1>7, <1>8 DEF Next

Selections == [key : Key, owner : Owner, build : Nat, freed : BOOLEAN]

\* A choice whose key was never free names a row of the owner it was made from,
\* and no row on its key is older than the one chosen.
ChoiceStands(choice) ==
  /\ choice.build < builds
  /\ ~choice.freed => choice.key \in DOMAIN sites /\ sites[choice.key].owner = choice.owner
  /\ choice.key \in DOMAIN sites => sites[choice.key].build >= choice.build

PlacementInv ==
  /\ RouterTyped
  /\ RowsMade
  /\ selected \subseteq Selections
  /\ \A choice \in selected : ChoiceStands(choice)
  /\ PlacedAsChosen

\* A choice stands when it is made.
LEMMA ChoiceMade ==
  ASSUME RouterTyped, RowsMade, NEW key \in DOMAIN sites
  PROVE  Choice(key) \in Selections /\ ChoiceStands(Choice(key))
<1>1. key \in Key /\ sites[key].owner \in Owner /\ sites[key].build \in Nat
  BY RowsTyped
<1>2. sites[key].build < builds
  BY DEF RowsMade
<1> QED BY <1>1, <1>2 DEF Choice, Selections, ChoiceStands

\* Every step of the router leaves the choices standing.
LEMMA ChoicesStand == PlacementInv /\ RouterStep => PlacementInv'
<1> SUFFICES ASSUME PlacementInv, RouterStep PROVE PlacementInv'
  OBVIOUS
<1>1. RouterTyped' /\ RowsMade' /\ RowsRenewed /\ builds \in Nat /\ builds' \in Nat
  BY RouterTypedNext, RouterRenews, RouterAssumption DEF PlacementInv, RouterStep, RouterTyped
<1>2. PlacedAsChosen'
  BY DEF PlacementInv, PlacedAsChosen, RouterStep
<1>3. ASSUME NEW next \in selected' PROVE next \in Selections /\ ChoiceStands(next)'
  <2>1. PICK choice \in selected :
          next = [choice EXCEPT !.freed = @ \/ choice.key \notin DOMAIN sites']
    BY <1>3 DEF RouterStep
  <2>2. choice \in Selections /\ ChoiceStands(choice)
    BY DEF PlacementInv
  <2>3. /\ next \in Selections
        /\ next.key = choice.key /\ next.owner = choice.owner /\ next.build = choice.build
        /\ ~next.freed => ~choice.freed /\ choice.key \in DOMAIN sites'
    BY <2>1, <2>2 DEF Selections
  <2>4. choice.build \in Nat /\ choice.build < builds /\ builds <= builds'
    BY <1>1, <2>2 DEF Selections, ChoiceStands, RowsRenewed
  <2>5. next.build < builds'
    BY <1>1, <2>3, <2>4
  <2>6. ~next.freed => next.key \in DOMAIN sites' /\ sites'[next.key].owner = next.owner
    BY <1>1, <2>2, <2>3 DEF ChoiceStands, RowsRenewed
  <2>7. ASSUME next.key \in DOMAIN sites' PROVE sites'[next.key].build >= next.build
    <3>1. sites'[next.key].build \in Nat
      <4>1. PICK K \in SUBSET Key : sites' \in [K -> Row]
        BY <1>1 DEF RouterTyped, Tables
      <4>2. 0 .. MaxBuilds - 1 \subseteq Nat
        BY RouterAssumption
      <4> QED BY <2>7, <4>1, <4>2 DEF Row
    <3>2. CASE next.key \in DOMAIN sites
      <4>1. sites[next.key].build \in Nat /\ sites[next.key].build >= choice.build
        BY <2>2, <2>3, <3>2, RowsTyped DEF ChoiceStands, PlacementInv
      <4>2. sites'[next.key].build >= sites[next.key].build
        BY <1>1, <2>7, <3>2 DEF RowsRenewed
      <4> QED BY <2>3, <2>4, <3>1, <4>1, <4>2
    <3>3. CASE next.key \notin DOMAIN sites
      <4>1. sites'[next.key].build >= builds
        BY <1>1, <2>7, <3>3 DEF RowsRenewed
      <4> QED BY <1>1, <2>3, <2>4, <3>1, <4>1
    <3> QED BY <3>2, <3>3
  <2> QED BY <2>3, <2>5, <2>6, <2>7 DEF ChoiceStands
<1> QED BY <1>1, <1>2, <1>3 DEF PlacementInv

\* Whatever the router does between the selection of a key and the open, a
\* placement reaches a site of the owner it was selected from unless the key was
\* free in between, and never an older site than the one selected.
THEOREM PlacementsAreAsChosen == CatalogSpec => []PlacedAsChosen
<1>1. CatalogInit => PlacementInv
  <2> SUFFICES ASSUME CatalogInit PROVE PlacementInv
    OBVIOUS
  <2>1. RouterTyped
    BY RouterInit DEF CatalogInit
  <2>2. DOMAIN sites = {} /\ selected = {} /\ placed = {}
    BY DEF CatalogInit, Init
  <2> QED BY <2>1, <2>2 DEF PlacementInv, RowsMade, PlacedAsChosen
<1>2. PlacementInv /\ [CatalogNext]_allVars => PlacementInv'
  <2> SUFFICES ASSUME PlacementInv, [CatalogNext]_allVars PROVE PlacementInv'
    OBVIOUS
  <2>1. ASSUME UNCHANGED <<sites, builds, placed>>,
               \A choice \in selected' : \/ choice \in selected
                                         \/ \E key \in DOMAIN sites : choice = Choice(key)
        PROVE  PlacementInv'
    <3>1. RouterTyped' /\ RowsMade' /\ PlacedAsChosen'
      BY <2>1 DEF PlacementInv, RouterTyped, RowsMade, PlacedAsChosen
    <3>2. \A choice \in selected' : choice \in Selections /\ ChoiceStands(choice)
      BY <2>1, ChoiceMade DEF PlacementInv
    <3>3. \A choice \in selected' : ChoiceStands(choice)'
      BY <2>1, <3>2 DEF ChoiceStands
    <3> QED BY <3>1, <3>2, <3>3 DEF PlacementInv
  <2>2. ASSUME UNCHANGED <<sites, builds, selected, placed>> PROVE PlacementInv'
    BY <2>1, <2>2
  <2>3. ASSUME NEW key \in Key, NEW modeled \in Key, ResolveOrModeled(key, modeled)
        PROVE  PlacementInv'
    BY <2>1, <2>3 DEF ResolveOrModeled, RouterIdle
  <2>4. ASSUME NEW n \in 0 .. 1, SelectByCapability(n)
        PROVE  PlacementInv'
    BY <2>1, <2>4 DEF SelectByCapability, RouterIdle
  <2>5. ASSUME NEW choice \in selected, OpenPlacement(choice) PROVE PlacementInv'
    <3> DEFINE new == [chosen |-> choice, row |-> sites[choice.key]]
    <3>1. /\ placed' = placed \cup {new} /\ selected' = {}
          /\ UNCHANGED <<sites, builds>> /\ choice.key \in DOMAIN sites
      BY <2>5 DEF OpenPlacement, RouterIdle
    <3>2. choice \in Selections /\ ChoiceStands(choice)
      BY DEF PlacementInv
    <3>3. /\ new.row.owner = new.chosen.owner \/ new.chosen.freed
          /\ new.row.build >= new.chosen.build
      BY <3>1, <3>2 DEF ChoiceStands
    <3> HIDE DEF new
    <3>4. PlacedAsChosen'
      BY <3>1, <3>3 DEF PlacementInv, PlacedAsChosen
    <3>5. RouterTyped' /\ RowsMade'
      BY <3>1 DEF PlacementInv, RouterTyped, RowsMade
    <3> QED BY <3>1, <3>4, <3>5 DEF PlacementInv
  <2>6. CatalogNext => \/ RouterStep
                       \/ UNCHANGED <<sites, builds, selected, placed>>
                       \/ \E key, modeled \in Key : ResolveOrModeled(key, modeled)
                       \/ \E n \in 0 .. 1 : SelectByCapability(n)
                       \/ \E choice \in selected : OpenPlacement(choice)
    BY DEF CatalogNext, RegisterProviderSites, RegisterRegistryDevices, RouterIdle,
           RegisterNativeMidi, AddProvider, OpenSite, OpenLive, OpenChecked, CloseHandle
  <2>7. UNCHANGED allVars => UNCHANGED <<sites, builds, selected, placed>>
    BY DEF allVars, vars
  <2> QED BY <2>2, <2>3, <2>4, <2>5, <2>6, <2>7, ChoicesStand
<1>3. PlacementInv => PlacedAsChosen
  BY DEF PlacementInv
<1> QED BY <1>1, <1>2, <1>3, PTL DEF CatalogSpec

-----------------------------------------------------------------------------
(* The rows of the catalog                                                 *)

\* sort_by_key keeps the ids, as a sequence.
LEMMA OrderedSeq ==
  ASSUME NEW ids \in SUBSET Id
  PROVE  Ordered(ids) \in Seq(ids)
<1> DEFINE n == Len(IdOrder)
           Next1(acc, id) == IF id \in ids THEN Append(acc, id) ELSE acc
           Folded(iter) ==
             iter = [T \in SUBSET DOMAIN IdOrder |->
                       IF T = {} THEN <<>>
                       ELSE Next1(iter[T \ {Max(T)}], IdOrder[Max(T)])]
           c == CHOOSE iter : Folded(iter)
<1>1. Ordered(ids) = c[DOMAIN IdOrder]
  BY DEF Ordered, FoldLeft, MapThenFoldSet
<1>2. n \in Nat /\ DOMAIN IdOrder = 1 .. n
  BY CatalogAssumption
<1>3. <<>> \in Seq(ids)
  OBVIOUS
<1>4. \A acc \in Seq(ids), id \in Id : Next1(acc, id) \in Seq(ids)
  OBVIOUS
<1>5. \A i \in 1 .. n : IdOrder[i] \in Id
  BY CatalogAssumption
<1> HIDE DEF Next1
<1>6. \E iter : Folded(iter)
  <2> DEFINE A == Seq(ids)
             b == <<>>
             f == [i \in 1 .. n |-> [acc \in A |-> Next1(acc, IdOrder[i])]]
  <2>1. f \in [1 .. n -> [A -> A]]
    BY <1>4, <1>5
  <2>2. b \in A
    BY <1>3
  <2> HIDE DEF f, n, b, A
  <2>3. PICK iter : FoldsUp(A, b, n, f, iter)
    BY <1>2, <2>1, <2>2, FoldExists, Zenon
  <2> USE DEF f, FoldsUp
  <2>4. ASSUME NEW T \in SUBSET (1 .. n), T # {}
        PROVE  iter[T] = Next1(iter[T \ {Max(T)}], IdOrder[Max(T)])
    <3>1. Max(T) \in 1 .. n
      BY <1>2, <2>4, MaxAmong
    <3>2. iter[T \ {Max(T)}] \in A
      BY <2>3
    <3> QED BY <2>3, <2>4, <3>1, <3>2
  <2>5. iter = [T \in SUBSET (1 .. n) |->
                  IF T = {} THEN b ELSE Next1(iter[T \ {Max(T)}], IdOrder[Max(T)])]
    BY <2>3, <2>4
  <2> QED BY <1>2, <2>5 DEF b
<1>7. Folded(c)
  <2> HIDE DEF Folded
  <2> QED BY <1>6, Zenon
<1> HIDE DEF c
<1> DEFINE Good == {i \in Nat : i <= n => c[1 .. i] \in Seq(ids)}
<1>8. 0 \in Good
  <2>1. 1 .. 0 = {} /\ {} \in SUBSET (1 .. n)
    OBVIOUS
  <2> QED BY <1>2, <1>3, <1>7, <2>1
<1>9. ASSUME NEW i \in Nat, i \in Good PROVE i + 1 \in Good
  <2> SUFFICES ASSUME i + 1 <= n PROVE c[1 .. (i + 1)] \in Seq(ids)
    OBVIOUS
  <2>1. i <= n /\ i + 1 \in 1 .. n
    BY <1>2, UpTo
  <2>2. c[1 .. (i + 1)] = Next1(c[1 .. i], IdOrder[i + 1])
    <3> DEFINE T == 1 .. (i + 1)
    <3>1. T \in SUBSET (1 .. n) /\ T # {} /\ Max(T) = i + 1 /\ T \ {i + 1} = 1 .. i
      BY <1>2, UpTo
    <3> HIDE DEF T, n
    <3>2. c[T] = Next1(c[T \ {Max(T)}], IdOrder[Max(T)])
      BY <1>2, <1>7, <3>1
    <3> QED BY <3>1, <3>2 DEF T
  <2> QED BY <1>4, <1>5, <1>9, <2>1, <2>2
<1>10. n \in Good
  <2> HIDE DEF Good
  <2> QED BY <1>2, <1>8, <1>9, Induction
<1> QED BY <1>1, <1>2, <1>10

\* A card makes a record.
LEMMA RowTyped ==
  ASSUME NEW id \in Id, NEW card, NEW transport \in DOMAIN NameOf \cup {Modeled}
  PROVE  AudioFromCard(id, card, transport) \in Record
BY DEF AudioFromCard, CardDirection, Record, Direction

\* The router's rows are records.
LEMMA FromRouterTyped ==
  ASSUME RouterTyped
  PROVE  FromRouter \in Seq(Record)
<1> DEFINE ids == Ordered(DOMAIN sites)
<1>1. DOMAIN sites \subseteq Key /\ \A k \in DOMAIN sites : sites[k] \in Row
  BY DEF RouterTyped, Tables
<1>2. ids \in Seq(DOMAIN sites)
  BY <1>1, OrderedSeq, CatalogAssumption
<1>3. FromRouter = [i \in DOMAIN ids |->
                      AudioFromCard(ids[i], CardOf[sites[ids[i]].build],
                                    IF CardOf[sites[ids[i]].build].hardware
                                    THEN sites[ids[i]].owner ELSE Modeled)]
  BY DEF FromRouter
<1> HIDE DEF ids
<1>4. ASSUME NEW i \in DOMAIN ids PROVE FromRouter[i] \in Record
  <2>1. ids[i] \in DOMAIN sites
    BY <1>2
  <2>2. ids[i] \in Id /\ sites[ids[i]].owner \in Owner
    BY <1>1, <2>1, CatalogAssumption DEF Row
  <2>3. sites[ids[i]].owner \in DOMAIN NameOf
    BY <2>2, CatalogAssumption
  <2> QED BY <1>3, <2>2, <2>3, RowTyped
<1> QED BY <1>2, <1>3, <1>4

\* So are a registry's.
LEMMA FromRegistryTyped ==
  ASSUME NEW registry \in Registries
  PROVE  FromRegistry(registry) \in Seq(Record)
<1> DEFINE exported == {export.symbol : export \in {e \in registry : AudioSiteExport(e)}}
           ids == Ordered(exported)
<1>1. exported \subseteq Key
  BY CatalogAssumption
<1>2. ids \in Seq(exported)
  BY <1>1, OrderedSeq, CatalogAssumption
<1>3. FromRegistry(registry)
        = [i \in DOMAIN ids |-> [id |-> ids[i], kind |-> "audio", direction |-> "duplex",
                                 transport |-> ids[i]]]
  BY DEF FromRegistry
<1> HIDE DEF ids, exported
<1>4. ASSUME NEW i \in DOMAIN ids PROVE FromRegistry(registry)[i] \in Record
  <2>1. ids[i] \in Key
    BY <1>1, <1>2
  <2>2. ids[i] \in Id /\ ids[i] \in DOMAIN NameOf
    BY <2>1, CatalogAssumption
  <2> QED BY <1>3, <2>2 DEF Record, Direction
<1> QED BY <1>2, <1>3, <1>4

\* And the modeled ones.
LEMMA ModeledTyped == ModeledMidiRows \in Seq(Record) /\ ModeledAudioRows \in Seq(Record)
<1>1. {"midi-in-0", "midi-out-0", "stereo-0"} \subseteq Id
  BY CatalogAssumption
<1>2. \A r1, r2 \in Record : <<r1, r2>> \in Seq(Record) /\ <<r1>> \in Seq(Record)
  OBVIOUS
<1>3. /\ [id |-> "midi-in-0", kind |-> "midi", direction |-> "input",
          transport |-> Modeled] \in Record
      /\ [id |-> "midi-out-0", kind |-> "midi", direction |-> "output",
          transport |-> Modeled] \in Record
  BY <1>1 DEF Record, Direction
<1>4. ModeledMidiRows \in Seq(Record)
  BY <1>2, <1>3, Zenon DEF ModeledMidiRows
<1>5. "stereo-0" \in Id
  BY <1>1
<1>6. ModeledAudioRows \in Seq(Record)
  <2> DEFINE r == AudioFromCard("stereo-0", [channels_in |-> 2, channels_out |-> 2,
                                             hardware |-> FALSE], Modeled)
  <2>1. r \in Record
    BY <1>5, RowTyped
  <2> QED BY <1>2, <2>1, Zenon DEF ModeledAudioRows
<1> QED BY <1>4, <1>6

-----------------------------------------------------------------------------
(* Looking an id up                                                        *)

\* The index first holds the first row of the sequence with the id.
FirstAt(rows, id, first) ==
  /\ first \in 1 .. Len(rows) /\ rows[first].id = id
  /\ \A i \in 1 .. Len(rows) : rows[i].id = id => first <= i

\* The smallest member of a set of numbers.
LEMMA MinAmong ==
  ASSUME NEW S \in SUBSET Nat, S # {}
  PROVE  \E m \in S : \A x \in S : m <= x
<1> DEFINE G == {m \in Nat : (\E x \in S : x <= m) => \E l \in S : \A x \in S : l <= x}
<1>1. 0 \in G
  OBVIOUS
<1>2. ASSUME NEW k \in Nat, k \in G PROVE k + 1 \in G
  <2> SUFFICES ASSUME NEW x \in S, x <= k + 1
               PROVE  \E l \in S : \A y \in S : l <= y
    OBVIOUS
  <2>1. CASE \E y \in S : y <= k
    BY <1>2, <2>1
  <2>2. CASE \A y \in S : ~(y <= k)
    <3>1. \A y \in S : x <= y
      BY <2>2
    <3> QED BY <3>1
  <2> QED BY <2>1, <2>2
<1>3. PICK x \in S : TRUE
  OBVIOUS
<1>4. x \in G
  <2> HIDE DEF G
  <2> QED BY <1>1, <1>2, Induction
<1> QED BY <1>4

\* First returns it.
LEMMA FirstIs ==
  ASSUME NEW rows \in Seq(Record), NEW id, Lists(rows, id)
  PROVE  \E i : FirstAt(rows, id, i) /\ First(rows, id) = rows[i]
<1> DEFINE I == {i \in 1 .. Len(rows) : rows[i].id = id}
<1>1. I # {} /\ I \in SUBSET Nat
  BY DEF Lists
<1>2. PICK m \in I : \A x \in I : m <= x
  <2> HIDE DEF I
  <2> QED BY <1>1, MinAmong
<1>3. \A m2 \in I : (\A x \in I : m2 <= x) => m2 = m
  BY <1>2
<1>4. Min(I) = m
  <2> HIDE DEF I
  <2> QED BY <1>2, <1>3 DEF Min
<1>5. First(rows, id) = rows[Min(I)]
  BY <1>1 DEF First, SelectInSeq
<1> QED BY <1>2, <1>4, <1>5 DEF FirstAt

\* The first row with an id is the one First returns.
LEMMA FirstUnique ==
  ASSUME NEW rows \in Seq(Record), NEW id, NEW i, FirstAt(rows, id, i)
  PROVE  Lists(rows, id) /\ First(rows, id) = rows[i]
<1>1. Lists(rows, id)
  BY DEF FirstAt, Lists
<1>2. PICK j : FirstAt(rows, id, j) /\ First(rows, id) = rows[j]
  BY <1>1, FirstIs
<1>3. i = j
  BY <1>2 DEF FirstAt
<1> QED BY <1>1, <1>2, <1>3

\* Of two sequences in a row, the first that lists the id is asked.
LEMMA FirstOfTwo ==
  ASSUME NEW s \in Seq(Record), NEW t \in Seq(Record), NEW id
  PROVE  /\ s \o t \in Seq(Record)
         /\ Lists(s \o t, id) <=> Lists(s, id) \/ Lists(t, id)
         /\ Lists(s, id) => First(s \o t, id) = First(s, id)
         /\ ~Lists(s, id) /\ Lists(t, id) => First(s \o t, id) = First(t, id)
<1> DEFINE st == s \o t
<1>1. /\ st \in Seq(Record) /\ Len(st) = Len(s) + Len(t)
      /\ Len(s) \in Nat /\ Len(t) \in Nat
      /\ \A i \in 1 .. Len(s) : st[i] = s[i]
      /\ \A i \in 1 .. Len(t) : st[Len(s) + i] = t[i]
  OBVIOUS
<1>2. \A i \in 1 .. Len(st) : i \in 1 .. Len(s) \/ i - Len(s) \in 1 .. Len(t)
  BY <1>1
<1>3. \A i \in 1 .. Len(st) : i \notin 1 .. Len(s) => st[i] = t[i - Len(s)]
  BY <1>1, <1>2
<1>4. /\ DOMAIN s = 1 .. Len(s) /\ DOMAIN t = 1 .. Len(t) /\ DOMAIN st = 1 .. Len(st)
      /\ \A i \in 1 .. Len(s) : i \in 1 .. Len(st)
      /\ \A i \in 1 .. Len(t) : Len(s) + i \in 1 .. Len(st)
  BY <1>1
<1> HIDE DEF st
<1>5. Lists(st, id) <=> Lists(s, id) \/ Lists(t, id)
  <2>1. ASSUME NEW i \in 1 .. Len(st), st[i].id = id PROVE Lists(s, id) \/ Lists(t, id)
    <3>1. CASE i \in 1 .. Len(s)
      BY <1>1, <1>4, <2>1, <3>1 DEF Lists
    <3>2. CASE i \notin 1 .. Len(s)
      BY <1>2, <1>3, <1>4, <2>1, <3>2 DEF Lists
    <3> QED BY <3>1, <3>2
  <2>2. Lists(s, id) => Lists(st, id)
    BY <1>1, <1>4 DEF Lists
  <2>3. Lists(t, id) => Lists(st, id)
    BY <1>1, <1>4 DEF Lists
  <2>4. Lists(st, id) => \E i \in 1 .. Len(st) : st[i].id = id
    BY <1>4 DEF Lists
  <2> QED BY <2>1, <2>2, <2>3, <2>4
<1>6. ASSUME Lists(s, id) PROVE First(st, id) = First(s, id)
  <2>1. PICK i : FirstAt(s, id, i) /\ First(s, id) = s[i]
    BY <1>6, FirstIs
  <2>2. FirstAt(st, id, i)
    <3>1. i \in 1 .. Len(st) /\ st[i].id = id
      BY <1>1, <1>4, <2>1 DEF FirstAt
    <3>2. ASSUME NEW j \in 1 .. Len(st), st[j].id = id PROVE i <= j
      <4>1. CASE j \in 1 .. Len(s)
        <5>1. s[j].id = id
          BY <1>1, <3>2, <4>1
        <5> QED BY <2>1, <4>1, <5>1 DEF FirstAt
      <4>2. CASE j \notin 1 .. Len(s)
        <5>1. i \in 1 .. Len(s) /\ j \in Nat /\ j > Len(s)
          BY <1>1, <2>1, <4>2 DEF FirstAt
        <5> QED BY <1>1, <5>1
      <4> QED BY <4>1, <4>2
    <3> QED BY <3>1, <3>2 DEF FirstAt
  <2>3. First(st, id) = st[i]
    BY <1>1, <2>2, FirstUnique
  <2>4. st[i] = s[i]
    BY <1>1, <2>1 DEF FirstAt
  <2> QED BY <2>1, <2>3, <2>4
<1>7. ASSUME ~Lists(s, id), Lists(t, id) PROVE First(st, id) = First(t, id)
  <2>1. PICK i : FirstAt(t, id, i) /\ First(t, id) = t[i]
    BY <1>7, FirstIs
  <2>2. i \in 1 .. Len(t) /\ st[Len(s) + i] = t[i]
    BY <1>1, <2>1 DEF FirstAt
  <2>3. FirstAt(st, id, Len(s) + i)
    <3>1. Len(s) + i \in 1 .. Len(st) /\ st[Len(s) + i].id = id
      BY <1>4, <2>1, <2>2 DEF FirstAt
    <3>2. ASSUME NEW j \in 1 .. Len(st), st[j].id = id PROVE Len(s) + i <= j
      <4>1. j \notin 1 .. Len(s)
        BY <1>1, <1>4, <1>7, <3>2 DEF Lists
      <4>2. j - Len(s) \in 1 .. Len(t) /\ t[j - Len(s)].id = id
        BY <1>2, <1>3, <3>2, <4>1
      <4>3. i <= j - Len(s)
        BY <2>1, <4>2 DEF FirstAt
      <4> QED BY <1>1, <2>2, <4>3
    <3> QED BY <3>1, <3>2 DEF FirstAt
  <2> QED BY <1>1, <2>1, <2>2, <2>3, FirstUnique
<1> QED BY <1>1, <1>5, <1>6, <1>7 DEF st

CatalogTyped == catalog \in Seq(Seq(Record))

\* f concatenates what the providers list.
Flattens(f) ==
  /\ f[1] = catalog[1]
  /\ \A i \in 1 .. Len(catalog) : i > 1 => f[i] = f[i - 1] \o catalog[i]
  /\ Enumerate = f[Len(catalog)]

\* Listing the providers has a list after each of them.
LEMMA Flattened ==
  ASSUME CatalogTyped, catalog # <<>>
  PROVE  \E f : Flattens(f)
<1> DEFINE n == Len(catalog)
           Is(flatten) ==
             flatten = [i \in 1 .. Len(catalog) |->
                          IF i = 1 THEN catalog[i] ELSE flatten[i - 1] \o catalog[i]]
           f == CHOOSE flatten : Is(flatten)
<1>1. n \in Nat /\ n # 0
  BY DEF CatalogTyped
<1>2. Enumerate = f[n]
  BY <1>1 DEF Enumerate, FlattenSeq
<1>3. \E flatten : Is(flatten)
  <2> DEFINE Can(m) == \E h : h = [i \in 1 .. m |->
                                     IF i = 1 THEN catalog[i] ELSE h[i - 1] \o catalog[i]]
             Good == {m \in Nat : Can(m)}
  <2>1. Can(0)
    <3> DEFINE h == [i \in 1 .. 0 |-> <<>>]
    <3>1. 1 .. 0 = {}
      OBVIOUS
    <3>2. h = [i \in 1 .. 0 |-> IF i = 1 THEN catalog[i] ELSE h[i - 1] \o catalog[i]]
      BY <3>1
    <3> QED BY <3>2, Zenon
  <2>2. ASSUME NEW m \in Nat, Can(m) PROVE Can(m + 1)
    <3>1. PICK h : h = [i \in 1 .. m |->
                          IF i = 1 THEN catalog[i] ELSE h[i - 1] \o catalog[i]]
      BY <2>2, Zenon
    <3> DEFINE next == IF m = 0 THEN catalog[1] ELSE h[m] \o catalog[m + 1]
               g == [i \in 1 .. (m + 1) |-> IF i = m + 1 THEN next ELSE h[i]]
    <3>2. ASSUME NEW i \in 1 .. (m + 1)
          PROVE  g[i] = IF i = 1 THEN catalog[i] ELSE g[i - 1] \o catalog[i]
      <4>1. CASE i = m + 1 /\ m = 0
        BY <4>1
      <4>2. CASE i = m + 1 /\ m # 0
        <5>1. i # 1 /\ m \in 1 .. (m + 1) /\ m # m + 1 /\ i - 1 = m
          BY <4>2
        <5>2. g[m] = h[m] /\ g[i] = h[m] \o catalog[m + 1]
          BY <4>2, <5>1
        <5> QED BY <4>2, <5>1, <5>2
      <4>3. CASE i \in 1 .. m /\ i = 1
        <5>1. g[i] = h[i]
          BY <4>3
        <5> QED BY <3>1, <4>3, <5>1
      <4>4. CASE i \in 1 .. m /\ i # 1
        <5>1. g[i] = h[i] /\ i - 1 \in 1 .. (m + 1) /\ i - 1 # m + 1
          BY <4>4
        <5>2. g[i - 1] = h[i - 1]
          BY <5>1
        <5>3. h[i] = h[i - 1] \o catalog[i]
          BY <3>1, <4>4
        <5> QED BY <4>4, <5>1, <5>2, <5>3
      <4> QED BY <4>1, <4>2, <4>3, <4>4
    <3>3. g = [i \in 1 .. (m + 1) |-> g[i]]
      OBVIOUS
    <3> HIDE DEF g
    <3>4. g = [i \in 1 .. (m + 1) |-> IF i = 1 THEN catalog[i] ELSE g[i - 1] \o catalog[i]]
      BY <3>2, <3>3
    <3> QED BY <3>4, Zenon
  <2>3. 0 \in Good /\ \A m \in Nat : m \in Good => m + 1 \in Good
    <3> HIDE DEF Can
    <3> QED BY <2>1, <2>2
  <2>4. n \in Good
    <3> HIDE DEF Good
    <3> QED BY <1>1, <2>3, Induction
  <2>5. Can(Len(catalog))
    <3> HIDE DEF Can
    <3> QED BY <2>4
  <2> QED BY <2>5, Zenon
<1>4. Is(f)
  <2> HIDE DEF Is
  <2> QED BY <1>3, Zenon
<1> HIDE DEF f
<1>5. f[1] = catalog[1]
  BY <1>1, <1>4
<1>6. ASSUME NEW i \in 1 .. Len(catalog), i > 1 PROVE f[i] = f[i - 1] \o catalog[i]
  <2>1. i # 1
    BY <1>1, <1>6
  <2>2. f[i] = IF i = 1 THEN catalog[i] ELSE f[i - 1] \o catalog[i]
    BY <1>4
  <2> QED BY <2>1, <2>2
<1>7. Flattens(f)
  BY <1>2, <1>5, <1>6 DEF Flattens
<1> QED BY <1>7, Zenon

\* rows are those of the first i providers, and the first provider that lists
\* an id answers for it.
FoundIn(i, rows) ==
  /\ rows \in Seq(Record)
  /\ ToSet(rows) = UNION {ToSet(catalog[j]) : j \in 1 .. i}
  /\ \A id : Lists(rows, id) => \E j \in 1 .. i : Lists(catalog[j], id)
  /\ \A id : \A j \in 1 .. i :
       Lists(catalog[j], id) =>
         /\ Lists(rows, id)
         /\ (\A k \in 1 .. i : Lists(catalog[k], id) => j <= k)
              => First(rows, id) = First(catalog[j], id)

\* Concatenation joins the elements.
LEMMA ConcatSet ==
  ASSUME NEW s \in Seq(Record), NEW t \in Seq(Record)
  PROVE  ToSet(s \o t) = ToSet(s) \cup ToSet(t)
<1> DEFINE st == s \o t
<1>1. /\ Len(st) = Len(s) + Len(t) /\ Len(s) \in Nat /\ Len(t) \in Nat
      /\ \A i \in 1 .. Len(s) : st[i] = s[i]
      /\ \A i \in 1 .. Len(t) : st[Len(s) + i] = t[i]
      /\ DOMAIN s = 1 .. Len(s) /\ DOMAIN t = 1 .. Len(t) /\ DOMAIN st = 1 .. Len(st)
  OBVIOUS
<1> HIDE DEF st
<1>2. \A i \in 1 .. Len(st) : \/ i \in 1 .. Len(s)
                              \/ i - Len(s) \in 1 .. Len(t) /\ i = Len(s) + (i - Len(s))
  BY <1>1
<1>3. /\ \A i \in 1 .. Len(s) : i \in 1 .. Len(st)
      /\ \A i \in 1 .. Len(t) : Len(s) + i \in 1 .. Len(st)
  BY <1>1
<1>4. ToSet(st) \subseteq ToSet(s) \cup ToSet(t)
  <2> SUFFICES ASSUME NEW i \in 1 .. Len(st) PROVE st[i] \in ToSet(s) \cup ToSet(t)
    BY <1>1 DEF ToSet
  <2>1. CASE i \in 1 .. Len(s)
    BY <1>1, <2>1 DEF ToSet
  <2>2. CASE i - Len(s) \in 1 .. Len(t) /\ i = Len(s) + (i - Len(s))
    <3>1. st[Len(s) + (i - Len(s))] = t[i - Len(s)]
      BY <1>1, <2>2
    <3> QED BY <1>1, <2>2, <3>1 DEF ToSet
  <2> QED BY <1>2, <2>1, <2>2
<1>5. ToSet(s) \cup ToSet(t) \subseteq ToSet(st)
  BY <1>1, <1>3 DEF ToSet
<1> QED BY <1>4, <1>5 DEF st

\* Looking an id up in one provider more.
LEMMA FoundNext ==
  ASSUME CatalogTyped, NEW i \in Nat, i + 1 <= Len(catalog), NEW rows, FoundIn(i, rows)
  PROVE  FoundIn(i + 1, rows \o catalog[i + 1])
<1> DEFINE more == catalog[i + 1]
           all == rows \o more
<1>1. rows \in Seq(Record) /\ more \in Seq(Record)
  BY DEF FoundIn, CatalogTyped
<1> HIDE DEF more
<1>2. /\ all \in Seq(Record)
      /\ ToSet(all) = ToSet(rows) \cup ToSet(more)
      /\ \A id : /\ Lists(all, id) <=> Lists(rows, id) \/ Lists(more, id)
                 /\ Lists(rows, id) => First(all, id) = First(rows, id)
                 /\ ~Lists(rows, id) /\ Lists(more, id) => First(all, id) = First(more, id)
  <2>1. ToSet(all) = ToSet(rows) \cup ToSet(more)
    BY <1>1, ConcatSet
  <2> QED BY <1>1, <2>1, FirstOfTwo
<1> HIDE DEF all
<1>3. \A j \in 1 .. (i + 1) : j \in 1 .. i \/ j = i + 1
  OBVIOUS
<1>4. ToSet(all) = UNION {ToSet(catalog[j]) : j \in 1 .. (i + 1)}
  <2>1. ToSet(rows) = UNION {ToSet(catalog[j]) : j \in 1 .. i}
    BY DEF FoundIn
  <2>2. i + 1 \in 1 .. (i + 1) /\ \A j \in 1 .. i : j \in 1 .. (i + 1)
    OBVIOUS
  <2> QED BY <1>2, <1>3, <2>1, <2>2 DEF more
<1>5. ASSUME NEW id, Lists(all, id) PROVE \E j \in 1 .. (i + 1) : Lists(catalog[j], id)
  <2>1. CASE Lists(rows, id)
    BY <2>1 DEF FoundIn
  <2>2. CASE Lists(more, id)
    BY <2>2 DEF more
  <2> QED BY <1>2, <1>5, <2>1, <2>2
<1>6. ASSUME NEW id, NEW j \in 1 .. (i + 1), Lists(catalog[j], id)
      PROVE  /\ Lists(all, id)
             /\ (\A k \in 1 .. (i + 1) : Lists(catalog[k], id) => j <= k)
                  => First(all, id) = First(catalog[j], id)
  <2>1. CASE j \in 1 .. i
    <3>1. Lists(rows, id)
      BY <1>6, <2>1 DEF FoundIn
    <3>2. ASSUME \A k \in 1 .. (i + 1) : Lists(catalog[k], id) => j <= k
          PROVE  First(rows, id) = First(catalog[j], id)
      <4>1. \A k \in 1 .. i : Lists(catalog[k], id) => j <= k
        BY <3>2
      <4> QED BY <1>6, <2>1, <4>1 DEF FoundIn
    <3> QED BY <1>2, <3>1, <3>2
  <2>2. CASE j = i + 1
    <3>1. Lists(more, id)
      BY <1>6, <2>2 DEF more
    <3>2. ASSUME \A k \in 1 .. (i + 1) : Lists(catalog[k], id) => j <= k
          PROVE  ~Lists(rows, id)
      <4>1. \A k \in 1 .. i : ~Lists(catalog[k], id)
        BY <2>2, <3>2
      <4> QED BY <4>1 DEF FoundIn
    <3> QED BY <1>2, <2>2, <3>1, <3>2 DEF more
  <2> QED BY <1>3, <2>1, <2>2
<1>7. FoundIn(i + 1, all)
  BY <1>2, <1>4, <1>5, <1>6 DEF FoundIn
<1> QED BY <1>7 DEF all, more

\* Looking an id up in the whole listing.
LEMMA EnumerateFound ==
  ASSUME CatalogTyped
  PROVE  FoundIn(Len(catalog), Enumerate)
<1>1. Len(catalog) \in Nat /\ DOMAIN catalog = 1 .. Len(catalog)
  BY DEF CatalogTyped
<1>2. CASE catalog = <<>>
  <2>1. Enumerate = <<>> /\ Len(catalog) = 0 /\ 1 .. 0 = {}
    BY <1>2 DEF Enumerate, FlattenSeq
  <2>2. ToSet(<<>>) = {} /\ \A id : ~Lists(<<>>, id)
    BY DEF ToSet, Lists
  <2>3. <<>> \in Seq(Record)
    OBVIOUS
  <2> QED BY <2>1, <2>2, <2>3 DEF FoundIn
<1>3. CASE catalog # <<>>
  <2>1. PICK f : Flattens(f)
    BY <1>3, Flattened
  <2> DEFINE Good == {i \in Nat : i \in 1 .. Len(catalog) => FoundIn(i, f[i])}
  <2>2. 0 \in Good
    OBVIOUS
  <2>3. ASSUME NEW i \in Nat, i \in Good PROVE i + 1 \in Good
    <3> SUFFICES ASSUME i + 1 \in 1 .. Len(catalog) PROVE FoundIn(i + 1, f[i + 1])
      OBVIOUS
    <3>1. CASE i = 0
      <4>1. i + 1 = 1 /\ 1 .. 1 = {1} /\ f[1] = catalog[1] /\ catalog[1] \in Seq(Record)
        BY <2>1, <3>1 DEF Flattens, CatalogTyped
      <4> QED BY <4>1 DEF FoundIn
    <3>2. CASE i # 0
      <4>1. i \in 1 .. Len(catalog) /\ i + 1 > 1 /\ (i + 1) - 1 = i /\ i + 1 <= Len(catalog)
        BY <1>1, <3>2
      <4>2. FoundIn(i, f[i])
        BY <2>3, <4>1
      <4>3. f[i + 1] = f[i] \o catalog[i + 1]
        BY <2>1, <4>1 DEF Flattens
      <4> QED BY <4>1, <4>2, <4>3, FoundNext
    <3> QED BY <3>1, <3>2
  <2>4. Len(catalog) \in Good
    <3> HIDE DEF Good
    <3> QED BY <1>1, <2>2, <2>3, Induction
  <2>5. Len(catalog) # 0
    BY <1>3 DEF CatalogTyped
  <2>6. FoundIn(Len(catalog), f[Len(catalog)])
    BY <1>1, <2>4, <2>5
  <2> QED BY <2>1, <2>6 DEF Flattens
<1> QED BY <1>2, <1>3

\* What open finds is the row that open_checked planned.
LEMMA OpenedIsFirst ==
  ASSUME CatalogTyped, NEW id, Lists(Enumerate, id)
  PROVE  /\ First(Enumerate, id) = Opened(id)
         /\ Opened(id) \in Record /\ Opened(id).id = id
<1> DEFINE S == {j \in 1 .. Len(catalog) : Lists(catalog[j], id)}
<1>1. FoundIn(Len(catalog), Enumerate) /\ DOMAIN catalog = 1 .. Len(catalog)
  BY EnumerateFound DEF CatalogTyped
<1>2. S \in SUBSET Nat /\ S # {}
  BY <1>1 DEF FoundIn
<1>3. PICK j \in S : \A k \in S : j <= k
  <2> HIDE DEF S
  <2> QED BY <1>2, MinAmong
<1>4. \E i \in DOMAIN catalog :
        Lists(catalog[i], id) /\ \A k \in DOMAIN catalog : Lists(catalog[k], id) => i <= k
  BY <1>1, <1>3
<1> DEFINE o == Opener(id)
<1>5. /\ o \in DOMAIN catalog /\ Lists(catalog[o], id)
      /\ \A k \in DOMAIN catalog : Lists(catalog[k], id) => o <= k
  BY <1>4, Zenon DEF Opener
<1> HIDE DEF o
<1>6. First(Enumerate, id) = First(catalog[o], id)
  BY <1>1, <1>5 DEF FoundIn
<1>7. catalog[o] \in Seq(Record)
  BY <1>5 DEF CatalogTyped
<1>8. PICK i : FirstAt(catalog[o], id, i) /\ First(catalog[o], id) = catalog[o][i]
  BY <1>5, <1>7, FirstIs
<1>9. catalog[o][i] \in Record /\ catalog[o][i].id = id
  BY <1>7, <1>8 DEF FirstAt
<1> QED BY <1>6, <1>8, <1>9 DEF Opened, o

-----------------------------------------------------------------------------
(* Sites opened through the catalog                                        *)

Fate == [session : Session \cup {"none", "dropped", "closed", "failed"},
         site : {"open", "closed", "failed", "dropped"},
         held : BOOLEAN, broken : BOOLEAN]

Handles == [record : Record, plan : [backend : DOMAIN NameOf \cup {Modeled}, device : Id,
                                     kinds : SUBSET {"read", "write"}],
            live : BOOLEAN, session : Session \cup {"none", "dropped", "closed", "failed"},
            site : {"open", "closed", "failed", "dropped"},
            held : BOOLEAN, broken : BOOLEAN]

\* What OpenedIsPlanned and SitesReleased say of one handle.
Planned(h) ==
  h.plan = [backend |-> h.record.transport, device |-> h.record.id,
            kinds |-> Performs(h.record.direction)]

Released(h) ==
  /\ ~h.held => \/ h.site \in {"closed", "failed"}
                \/ h.site = "dropped" /\ h.broken
  /\ h.held => /\ h.site = "open"
               /\ h.live => /\ h.record.kind = "midi"
                            /\ (h.session = "source") = (Performs(h.record.direction) = {"read"})
                            /\ (h.session = "sink") = (Performs(h.record.direction) = {"write"})

HandlesInv ==
  /\ handles \in Seq(Handles)
  /\ \A n \in DOMAIN handles : Planned(handles[n]) /\ Released(handles[n])

CatalogInv == RouterTyped /\ CatalogTyped /\ HandlesInv

\* effect_kinds names exactly what a device of the direction does.
LEMMA EffectsPerformed ==
  ASSUME NEW d \in Direction
  PROVE  /\ EffectKinds(d) = Performs(d) /\ Performs(d) \in SUBSET {"read", "write"}
         /\ LiveDirection(d) \in Session
         /\ (LiveDirection(d) = "source") = (Performs(d) = {"read"})
         /\ (LiveDirection(d) = "sink") = (Performs(d) = {"write"})
<1>1. CASE d = "input"
  <2>1. Performs(d) = {"read"} /\ EffectKinds(d) = {"read"} /\ LiveDirection(d) = "source"
    BY <1>1 DEF Performs, EffectKinds, LiveDirection
  <2> QED BY <2>1 DEF Session
<1>2. CASE d = "output"
  <2>1. Performs(d) = {"write"} /\ EffectKinds(d) = {"write"} /\ LiveDirection(d) = "sink"
    BY <1>2 DEF Performs, EffectKinds, LiveDirection
  <2> QED BY <2>1 DEF Session
<1>3. CASE d = "duplex"
  <2>1. /\ Performs(d) = {"read", "write"} /\ EffectKinds(d) = {"read", "write"}
        /\ LiveDirection(d) = "duplex"
    BY <1>3 DEF Performs, EffectKinds, LiveDirection
  <2>2. Performs(d) # {"read"} /\ Performs(d) # {"write"}
    BY <2>1
  <2> QED BY <2>1, <2>2 DEF Session
<1> QED BY <1>1, <1>2, <1>3 DEF Direction

\* from_eval_site: whatever it refuses, the site is closed or dropped broken,
\* and what it hands out is a session of the direction the catalog lists.
LEMMA AdoptReleases ==
  ASSUME NEW record \in Record, NEW offered, NEW ok \in BOOLEAN
  PROVE  LET a == Adopt(record, offered, ok)
         IN  /\ a \in Fate
             /\ ~a.held => \/ a.site \in {"closed", "failed"}
                           \/ a.site = "dropped" /\ a.broken
             /\ a.held => /\ a.site = "open" /\ record.kind = "midi"
                          /\ a.session = LiveDirection(record.direction)
<1>1. LiveDirection(record.direction) \in Session
  BY EffectsPerformed DEF Record
<1> QED BY <1>1 DEF Adopt, Fate

\* The handle of an id that is listed carries the row that was planned.
LEMMA HandlePlanned ==
  ASSUME CatalogTyped, NEW id, Lists(Enumerate, id), NEW live \in BOOLEAN, NEW fate \in Fate
  PROVE  LET h == Handle(id, live, fate)
         IN  /\ h \in Handles /\ Planned(h)
             /\ h.record = Opened(id) /\ h.live = live /\ h.session = fate.session
             /\ h.site = fate.site /\ h.held = fate.held /\ h.broken = fate.broken
<1> DEFINE r == Opened(id)
           h == Handle(id, live, fate)
<1>1. First(Enumerate, id) = r /\ r \in Record
  BY OpenedIsFirst
<1> HIDE DEF r
<1>2. r.direction \in Direction /\ r.transport \in DOMAIN NameOf \cup {Modeled} /\ r.id \in Id
  BY <1>1 DEF Record
<1>3. OpenPlan(r) = [backend |-> r.transport, device |-> r.id, kinds |-> Performs(r.direction)]
  BY <1>2, EffectsPerformed DEF OpenPlan
<1>4. Performs(r.direction) \in SUBSET {"read", "write"}
  BY <1>2, EffectsPerformed
<1>5. h = [record |-> r, plan |-> OpenPlan(r), live |-> live, session |-> fate.session,
           site |-> fate.site, held |-> fate.held, broken |-> fate.broken]
  BY <1>1 DEF Handle, r
<1> HIDE DEF h
<1>6. h \in Handles
  BY <1>1, <1>2, <1>3, <1>4, <1>5 DEF Handles, Fate
<1>7. Planned(h)
  BY <1>3, <1>5 DEF Planned
<1> QED BY <1>5, <1>6, <1>7 DEF h, r

\* Another handle, or one changed, keeps the invariant of the others.
LEMMA HandleAdded ==
  ASSUME HandlesInv, NEW h \in Handles, Planned(h), Released(h), handles' = Append(handles, h)
  PROVE  HandlesInv'
<1>1. /\ handles' \in Seq(Handles) /\ DOMAIN handles' = 1 .. Len(handles) + 1
      /\ DOMAIN handles = 1 .. Len(handles) /\ Len(handles) \in Nat
      /\ handles'[Len(handles) + 1] = h
      /\ \A n \in 1 .. Len(handles) : handles'[n] = handles[n]
  BY DEF HandlesInv
<1>2. ASSUME NEW n \in DOMAIN handles' PROVE Planned(handles'[n]) /\ Released(handles'[n])
  <2>1. CASE n = Len(handles) + 1
    BY <1>1, <2>1
  <2>2. CASE n \in 1 .. Len(handles)
    BY <1>1, <2>2 DEF HandlesInv
  <2> QED BY <1>1, <2>1, <2>2
<1>3. HandlesInv' = (/\ handles' \in Seq(Handles)
                     /\ \A n \in DOMAIN handles' : Planned(handles'[n]) /\ Released(handles'[n]))
  BY DEF HandlesInv, Planned, Released
<1> QED BY <1>1, <1>2, <1>3

\* Closing a handle releases it.
LEMMA HandleClosed ==
  ASSUME HandlesInv, NEW n \in DOMAIN handles, NEW sessionOk \in BOOLEAN, NEW siteOk \in BOOLEAN,
         CloseHandle(n, sessionOk, siteOk)
  PROVE  HandlesInv'
<1> DEFINE old == handles[n]
           new == Closed(old, sessionOk, siteOk)
<1>1. old \in Handles /\ Planned(old)
  BY DEF HandlesInv
<1>2. handles' = [handles EXCEPT ![n] = new]
  BY DEF CloseHandle
<1> HIDE DEF old
<1>3. /\ new \in Handles /\ new.plan = old.plan /\ new.record = old.record /\ new.held = FALSE
      /\ \/ new.site \in {"closed", "failed"}
         \/ new.site = "dropped" /\ new.broken
  <2>1. CASE old.live /\ ~sessionOk
    <3>1. new = [old EXCEPT !.session = "failed", !.site = "dropped", !.held = FALSE,
                            !.broken = TRUE]
      BY <2>1 DEF Closed
    <3> HIDE DEF new
    <3> QED BY <1>1, <3>1 DEF Handles
  <2>2. CASE ~(old.live /\ ~sessionOk)
    <3> DEFINE session == IF old.session = "none" THEN "none" ELSE "closed"
               site == IF siteOk THEN "closed" ELSE "failed"
    <3>1. new = [old EXCEPT !.session = session, !.site = site, !.held = FALSE]
      BY <1>1, <2>2 DEF Closed, Handles
    <3>2. session \in {"none", "closed"} /\ site \in {"closed", "failed"}
      OBVIOUS
    <3> HIDE DEF new, session, site
    <3> QED BY <1>1, <3>1, <3>2 DEF Handles
  <2> QED BY <2>1, <2>2
<1> HIDE DEF new
<1>5. Planned(new) /\ Released(new)
  BY <1>1, <1>3 DEF Planned, Released
<1>6. /\ handles' \in Seq(Handles) /\ DOMAIN handles' = DOMAIN handles
      /\ handles'[n] = new /\ \A m \in DOMAIN handles : m # n => handles'[m] = handles[m]
  BY <1>2, <1>3 DEF HandlesInv
<1>7. \A m \in DOMAIN handles' : Planned(handles'[m]) /\ Released(handles'[m])
  BY <1>5, <1>6 DEF HandlesInv
<1>8. HandlesInv' = (/\ handles' \in Seq(Handles)
                     /\ \A m \in DOMAIN handles' : Planned(handles'[m]) /\ Released(handles'[m]))
  BY DEF HandlesInv, Planned, Released
<1> QED BY <1>6, <1>7, <1>8

\* Opening a site adds a handle that is planned and not released in silence.
LEMMA HandleOpened ==
  ASSUME CatalogTyped, HandlesInv, NEW id, NEW live \in BOOLEAN, NEW fate \in Fate,
         \A h \in Handles : /\ h.record = Opened(id) /\ h.live = live
                            /\ h.session = fate.session /\ h.site = fate.site
                            /\ h.held = fate.held /\ h.broken = fate.broken
                            => Released(h),
         OpenChecked(id, Handle(id, live, fate))
  PROVE  HandlesInv'
<1> DEFINE h == Handle(id, live, fate)
<1>1. Lists(Enumerate, id) /\ handles' = Append(handles, h)
  BY DEF OpenChecked
<1>2. /\ h \in Handles /\ Planned(h)
      /\ h.record = Opened(id) /\ h.live = live /\ h.session = fate.session
      /\ h.site = fate.site /\ h.held = fate.held /\ h.broken = fate.broken
  BY <1>1, HandlePlanned
<1> HIDE DEF h
<1>3. Released(h)
  BY <1>2
<1> QED BY <1>1, <1>2, <1>3, HandleAdded

\* Nothing is opened at first.
LEMMA CatalogInvInit == CatalogInit => CatalogInv
<1> SUFFICES ASSUME CatalogInit PROVE CatalogInv
  OBVIOUS
<1>1. RouterTyped
  BY RouterInit DEF CatalogInit
<1>2. CatalogTyped
  <2>1. \A a, b \in Seq(Record) : <<a, b>> \in Seq(Seq(Record)) /\ <<>> \in Seq(Seq(Record))
    OBVIOUS
  <2> QED BY <2>1, ModeledTyped, Zenon DEF CatalogInit, CatalogTyped
<1>3. HandlesInv
  <2>1. handles = <<>>
    BY DEF CatalogInit
  <2> QED BY <2>1 DEF HandlesInv
<1> QED BY <1>1, <1>2, <1>3 DEF CatalogInv

\* Every step keeps the rows typed, the handles planned and released.
LEMMA CatalogInvNext == CatalogInv /\ [CatalogNext]_allVars => CatalogInv'
<1> SUFFICES ASSUME CatalogInv, [CatalogNext]_allVars PROVE CatalogInv'
  OBVIOUS
<1> USE DEF CatalogInv
<1>1. RouterTyped'
  BY CatalogOnRouter, RouterTypedNext DEF RouterIdle, allVars, vars, RouterTyped
<1>2. ASSUME UNCHANGED catalog PROVE CatalogTyped'
  BY <1>2 DEF CatalogTyped
<1>3. ASSUME UNCHANGED handles PROVE HandlesInv'
  BY <1>3 DEF HandlesInv, Planned, Released
<1>4. ASSUME NEW rows \in Seq(Record), AddProvider(rows) PROVE CatalogTyped' /\ HandlesInv'
  <2>1. catalog' = Append(catalog, rows) /\ UNCHANGED handles
    BY <1>4 DEF AddProvider
  <2> QED BY <1>3, <1>4, <2>1 DEF CatalogTyped
<1>5. CASE RegisterProviderSites
  <2>1. AddProvider(FromRouter) /\ FromRouter \in Seq(Record)
    BY <1>5, FromRouterTyped DEF RegisterProviderSites
  <2> QED BY <1>1, <1>4, <2>1
<1>6. ASSUME NEW registry \in Registries, RegisterRegistryDevices(registry)
      PROVE  CatalogTyped' /\ HandlesInv'
  <2>1. AddProvider(FromRegistry(registry)) /\ FromRegistry(registry) \in Seq(Record)
    BY <1>6, FromRegistryTyped DEF RegisterRegistryDevices
  <2> QED BY <1>4, <2>1
<1>7. CASE RegisterNativeMidi
  <2>1. AddProvider(NativeMidi) /\ NativeMidi \in Seq(Record)
    BY <1>7, CatalogAssumption DEF RegisterNativeMidi
  <2> QED BY <1>1, <1>4, <2>1
<1>8. ASSUME NEW id \in Id, OpenSite(id) PROVE CatalogTyped' /\ HandlesInv'
  <2> DEFINE fate == [session |-> "none", site |-> "open", held |-> TRUE, broken |-> FALSE]
  <2>1. OpenChecked(id, Handle(id, FALSE, fate))
    BY <1>8 DEF OpenSite
  <2>2. fate \in Fate
    BY DEF Fate
  <2>3. fate.site = "open" /\ fate.held
    OBVIOUS
  <2> HIDE DEF fate
  <2>4. \A h : h.live = FALSE /\ h.site = fate.site /\ h.held = fate.held => Released(h)
    BY <2>3 DEF Released
  <2>5. HandlesInv'
    BY <2>1, <2>2, <2>4, HandleOpened
  <2> QED BY <1>2, <2>1, <2>5 DEF OpenChecked
<1>9. ASSUME NEW id \in Id, NEW ok \in BOOLEAN, OpenLive(id, ok)
      PROVE  CatalogTyped' /\ HandlesInv'
  <2>1. PICK offered \in Offers(Opened(id)) :
          OpenChecked(id, Handle(id, TRUE, Adopt(Opened(id), offered, ok)))
    BY <1>9 DEF OpenLive
  <2>2. Opened(id) \in Record
    BY <2>1, OpenedIsFirst DEF OpenChecked
  <2> DEFINE r == Opened(id)
             fate == Adopt(r, offered, ok)
  <2>3. /\ fate \in Fate
        /\ ~fate.held => \/ fate.site \in {"closed", "failed"}
                         \/ fate.site = "dropped" /\ fate.broken
        /\ fate.held => /\ fate.site = "open" /\ r.kind = "midi"
                        /\ fate.session = LiveDirection(r.direction)
    BY <2>2, AdoptReleases
  <2>4. /\ (LiveDirection(r.direction) = "source") = (Performs(r.direction) = {"read"})
        /\ (LiveDirection(r.direction) = "sink") = (Performs(r.direction) = {"write"})
    BY <2>2, EffectsPerformed DEF Record
  <2>5. OpenChecked(id, Handle(id, TRUE, fate))
    BY <2>1
  <2> HIDE DEF fate
  <2>6. ASSUME NEW h, h.record = r, h.session = fate.session, h.site = fate.site,
               h.held = fate.held, h.broken = fate.broken
        PROVE  Released(h)
    BY <2>3, <2>4, <2>6 DEF Released
  <2>7. HandlesInv'
    BY <2>3, <2>5, <2>6, HandleOpened
  <2> QED BY <1>2, <2>1, <2>7 DEF OpenChecked
<1>10. ASSUME NEW n \in DOMAIN handles, NEW sessionOk \in BOOLEAN, NEW siteOk \in BOOLEAN,
              CloseHandle(n, sessionOk, siteOk)
       PROVE  CatalogTyped' /\ HandlesInv'
  <2>1. UNCHANGED catalog
    BY <1>10 DEF CloseHandle
  <2> QED BY <1>2, <1>10, <2>1, HandleClosed
<1>11. CASE RouterStep
  <2>1. UNCHANGED catalog /\ UNCHANGED handles
    BY <1>11 DEF RouterStep
  <2> QED BY <1>1, <1>2, <1>3, <2>1
<1>12. ASSUME NEW key \in Key, NEW modeled \in Key, ResolveOrModeled(key, modeled)
       PROVE  CatalogTyped' /\ HandlesInv'
  BY <1>2, <1>3, <1>12 DEF ResolveOrModeled
<1>13. ASSUME NEW n \in 0 .. 1, SelectByCapability(n) PROVE CatalogTyped' /\ HandlesInv'
  BY <1>2, <1>3, <1>13 DEF SelectByCapability
<1>14. ASSUME NEW choice \in selected, OpenPlacement(choice) PROVE CatalogTyped' /\ HandlesInv'
  BY <1>2, <1>3, <1>14 DEF OpenPlacement
<1>15. CASE UNCHANGED allVars
  <2>1. UNCHANGED catalog /\ UNCHANGED handles
    BY <1>15 DEF allVars
  <2> QED BY <1>1, <1>2, <1>3, <2>1
<1> QED BY <1>1, <1>5, <1>6, <1>7, <1>8, <1>9, <1>10, <1>11, <1>12, <1>13, <1>14, <1>15
        DEF CatalogNext

\* The handles are as planned and released, always.
LEMMA CatalogInvariant == CatalogSpec => []CatalogInv
BY CatalogInvInit, CatalogInvNext, PTL DEF CatalogSpec

\* Whichever providers list an id, the site that comes back is the row whose
\* backend and effects the plan authorized.
THEOREM SitesArePlanned == CatalogSpec => []OpenedIsPlanned
<1>1. CatalogInv => OpenedIsPlanned
  BY DEF CatalogInv, HandlesInv, Planned, OpenedIsPlanned
<1> QED BY <1>1, CatalogInvariant, PTL

\* Through every refusal and failure, a site nobody holds was told to close or
\* could not be, and a live site that is held has the session of its direction.
THEOREM SitesAreReleased == CatalogSpec => []SitesReleased
<1>1. CatalogInv => SitesReleased
  BY DEF CatalogInv, HandlesInv, Released, SitesReleased
<1> QED BY <1>1, CatalogInvariant, PTL

-----------------------------------------------------------------------------
(* Backend names                                                           *)

HardwareName == {NameOf[t] : t \in DOMAIN NameOf}
NamesSoFar == [names : Seq(HardwareName \cup {Modeled}), modeled : BOOLEAN]

Distinct(names) == \A i, j \in DOMAIN names : names[i] = names[j] => i = j

\* push_unique adds a name once, at the end.
LEMMA PushedOnce ==
  ASSUME NEW S, NEW names \in Seq(S), NEW name \in S, Distinct(names)
  PROVE  LET more == PushUnique(names, name)
         IN  /\ more \in Seq(S) /\ Distinct(more) /\ ToSet(more) = ToSet(names) \cup {name}
             /\ name \notin ToSet(names) =>
                  /\ Len(more) = Len(names) + 1 /\ more[Len(names) + 1] = name
                  /\ \A i \in 1 .. Len(names) : more[i] = names[i]
<1>1. CASE name \in ToSet(names)
  BY <1>1 DEF PushUnique
<1>2. CASE name \notin ToSet(names)
  <2> DEFINE more == Append(names, name)
  <2>1. /\ more \in Seq(S) /\ Len(names) \in Nat /\ Len(more) = Len(names) + 1
        /\ DOMAIN names = 1 .. Len(names) /\ DOMAIN more = 1 .. (Len(names) + 1)
        /\ more[Len(names) + 1] = name
        /\ \A i \in 1 .. Len(names) : more[i] = names[i]
    OBVIOUS
  <2>2. PushUnique(names, name) = more
    BY <1>2 DEF PushUnique
  <2> HIDE DEF more
  <2>3. \A i \in 1 .. (Len(names) + 1) : i = Len(names) + 1 \/ i \in 1 .. Len(names)
    BY <2>1
  <2>4. \A i \in 1 .. Len(names) : i \in 1 .. (Len(names) + 1)
    BY <2>1
  <2>5. Len(names) + 1 \in 1 .. (Len(names) + 1)
    BY <2>1
  <2>6. ToSet(more) = ToSet(names) \cup {name}
    BY <2>1, <2>3, <2>4, <2>5 DEF ToSet
  <2>7. ASSUME NEW i \in DOMAIN more, NEW j \in DOMAIN more, more[i] = more[j] PROVE i = j
    BY <1>2, <2>1, <2>3, <2>7 DEF ToSet, Distinct
  <2> QED BY <2>1, <2>2, <2>6, <2>7 DEF Distinct
<1> QED BY <1>1, <1>2

\* The names of the first i rows of the kind, each once.
Listed(kind, i, acc) ==
  /\ acc \in NamesSoFar
  /\ Distinct(acc.names)
  /\ ToSet(acc.names) = {NameOf[Enumerate[j].transport] :
       j \in {k \in 1 .. i : Enumerate[k].kind = kind /\ Enumerate[k].transport # Modeled}}

\* One row more leaves a list of names.
LEMMA ListedTyped ==
  ASSUME NEW kind, NEW acc \in NamesSoFar, NEW record \in Record
  PROVE  ListName(kind, acc, record) \in NamesSoFar
<1>1. CASE record.kind # kind
  BY <1>1 DEF ListName
<1>2. CASE record.kind = kind /\ record.transport = Modeled
  BY <1>2 DEF ListName, NamesSoFar
<1>3. CASE record.kind = kind /\ record.transport # Modeled
  <2> DEFINE more == PushUnique(acc.names, NameOf[record.transport])
  <2>1. NameOf[record.transport] \in HardwareName
    BY <1>3 DEF Record, HardwareName
  <2>2. more \in Seq(HardwareName \cup {Modeled})
    BY <2>1 DEF PushUnique, NamesSoFar
  <2>3. ListName(kind, acc, record) = [acc EXCEPT !.names = more]
    BY <1>3 DEF ListName
  <2> HIDE DEF more
  <2> QED BY <2>2, <2>3 DEF NamesSoFar
<1> QED BY <1>1, <1>2, <1>3

\* The names listed, one row further.
LEMMA ListedNext ==
  ASSUME NEW kind, NEW i \in Nat, Enumerate[i + 1] \in Record, NEW acc, Listed(kind, i, acc)
  PROVE  Listed(kind, i + 1, ListName(kind, acc, Enumerate[i + 1]))
<1> DEFINE record == Enumerate[i + 1]
           next == ListName(kind, acc, record)
           Rows(n) == {k \in 1 .. n : Enumerate[k].kind = kind /\ Enumerate[k].transport # Modeled}
           Names(n) == {NameOf[Enumerate[j].transport] : j \in Rows(n)}
<1>1. acc \in NamesSoFar /\ Distinct(acc.names) /\ ToSet(acc.names) = Names(i)
  BY DEF Listed
<1>2. next \in NamesSoFar
  BY <1>1, ListedTyped
<1>3. \A k : k \in 1 .. (i + 1) <=> k \in 1 .. i \/ k = i + 1
  OBVIOUS
<1>4. CASE record.kind # kind \/ record.transport = Modeled
  <2>1. Rows(i + 1) = Rows(i)
    BY <1>3, <1>4
  <2>2. next.names = acc.names
    BY <1>1, <1>4 DEF ListName, NamesSoFar
  <2> QED BY <1>1, <1>2, <2>1, <2>2 DEF Listed
<1>5. CASE record.kind = kind /\ record.transport # Modeled
  <2> DEFINE name == NameOf[record.transport]
             more == PushUnique(acc.names, name)
  <2>1. Rows(i + 1) = Rows(i) \cup {i + 1}
    BY <1>3, <1>5
  <2>2. Names(i + 1) = Names(i) \cup {name}
    <3> HIDE DEF Rows
    <3>1. \A j \in Rows(i) : j \in Rows(i + 1) /\ i + 1 \in Rows(i + 1)
      BY <2>1
    <3>2. \A j \in Rows(i + 1) : j \in Rows(i) \/ j = i + 1
      BY <2>1
    <3>3. i + 1 \in Rows(i + 1)
      BY <2>1
    <3> QED BY <3>1, <3>2, <3>3
  <2>3. name \in HardwareName \cup {Modeled}
    BY <1>5 DEF Record, HardwareName
  <2>4. Distinct(more) /\ ToSet(more) = ToSet(acc.names) \cup {name}
    <3>1. acc.names \in Seq(HardwareName \cup {Modeled})
      BY <1>1 DEF NamesSoFar
    <3> HIDE DEF name
    <3> QED BY <1>1, <2>3, <3>1, PushedOnce
  <2>5. next = [acc EXCEPT !.names = more]
    BY <1>5 DEF ListName
  <2> HIDE DEF more
  <2>6. next.names = more
    BY <1>1, <2>5 DEF NamesSoFar
  <2> QED BY <1>1, <1>2, <2>2, <2>4, <2>6 DEF Listed
<1> QED BY <1>4, <1>5

\* The listing of a kind holds each hardware name of the catalog's rows once.
LEMMA ListingIs ==
  ASSUME NEW kind, Enumerate \in Seq(Record)
  PROVE  Listed(kind, Len(Enumerate), Listing(kind))
<1> DEFINE n == Len(Enumerate)
           b == [names |-> <<>>, modeled |-> FALSE]
           Folded(iter) ==
             iter = [T \in SUBSET DOMAIN Enumerate |->
                       IF T = {} THEN b
                       ELSE ListName(kind, iter[T \ {Max(T)}], Enumerate[Max(T)])]
           c == CHOOSE iter : Folded(iter)
<1>1. Listing(kind) = c[DOMAIN Enumerate]
  BY DEF Listing, FoldLeft, MapThenFoldSet
<1>2. n \in Nat /\ DOMAIN Enumerate = 1 .. n
  OBVIOUS
<1>3. \A i \in 1 .. n : Enumerate[i] \in Record
  OBVIOUS
<1>4. b \in NamesSoFar
  <2>1. <<>> \in Seq(HardwareName \cup {Modeled})
    OBVIOUS
  <2> QED BY <2>1 DEF NamesSoFar
<1>5. \E iter : Folded(iter)
  <2> DEFINE f == [i \in 1 .. n |-> [acc \in NamesSoFar |-> ListName(kind, acc, Enumerate[i])]]
  <2>1. f \in [1 .. n -> [NamesSoFar -> NamesSoFar]]
    BY <1>3, ListedTyped
  <2> HIDE DEF f, n, b
  <2>2. PICK iter : FoldsUp(NamesSoFar, b, n, f, iter)
    BY <1>2, <1>4, <2>1, FoldExists, Zenon
  <2> USE DEF f, FoldsUp
  <2>3. ASSUME NEW T \in SUBSET (1 .. n), T # {}
        PROVE  iter[T] = ListName(kind, iter[T \ {Max(T)}], Enumerate[Max(T)])
    <3>1. Max(T) \in 1 .. n
      BY <1>2, <2>3, MaxAmong
    <3>2. iter[T \ {Max(T)}] \in NamesSoFar
      BY <2>2
    <3> QED BY <2>2, <2>3, <3>1, <3>2
  <2>4. iter = [T \in SUBSET (1 .. n) |->
                  IF T = {} THEN b ELSE ListName(kind, iter[T \ {Max(T)}], Enumerate[Max(T)])]
    BY <2>2, <2>3
  <2> QED BY <1>2, <2>4
<1>6. Folded(c)
  <2> HIDE DEF Folded
  <2> QED BY <1>5, Zenon
<1> HIDE DEF c
<1> DEFINE Good == {i \in Nat : i <= n => Listed(kind, i, c[1 .. i])}
<1>7. 0 \in Good
  <2>1. 1 .. 0 = {} /\ {} \in SUBSET (1 .. n)
    OBVIOUS
  <2>2. c[{}] = b
    BY <1>2, <1>6, <2>1
  <2>3. Listed(kind, 0, b)
    <3>1. Distinct(<<>>) /\ ToSet(<<>>) = {}
      BY DEF Distinct, ToSet
    <3> QED BY <1>4, <2>1, <3>1 DEF Listed
  <2> QED BY <2>1, <2>2, <2>3
<1>8. ASSUME NEW i \in Nat, i \in Good PROVE i + 1 \in Good
  <2> SUFFICES ASSUME i + 1 <= n PROVE Listed(kind, i + 1, c[1 .. (i + 1)])
    OBVIOUS
  <2>1. i <= n /\ i + 1 \in 1 .. n
    BY <1>2, UpTo
  <2>2. c[1 .. (i + 1)] = ListName(kind, c[1 .. i], Enumerate[i + 1])
    <3> DEFINE T == 1 .. (i + 1)
    <3>1. T \in SUBSET (1 .. n) /\ T # {} /\ Max(T) = i + 1 /\ T \ {i + 1} = 1 .. i
      BY <1>2, UpTo
    <3> HIDE DEF T, n
    <3>2. c[T] = ListName(kind, c[T \ {Max(T)}], Enumerate[Max(T)])
      BY <1>2, <1>6, <3>1
    <3> QED BY <3>1, <3>2 DEF T
  <2> QED BY <1>3, <1>8, <2>1, <2>2, ListedNext
<1>9. n \in Good
  <2> HIDE DEF Good
  <2> QED BY <1>2, <1>7, <1>8, Induction
<1> QED BY <1>1, <1>2, <1>9

\* What backend_names returns with and without the fallback.
LEMMA NamesExact ==
  ASSUME CatalogTyped, NEW kind
  PROVE  /\ ToSet(BackendNames(kind, FALSE)) = HardwareNames(kind)
         /\ LET names == BackendNames(kind, TRUE)
            IN  /\ names # <<>> /\ Distinct(names)
                /\ ToSet(names) \ {Modeled} = HardwareNames(kind)
                /\ \A i \in DOMAIN names : names[i] = Modeled => i = Len(names)
<1> DEFINE S == HardwareName \cup {Modeled}
           listing == Listing(kind)
           hw == listing.names
           names == BackendNames(kind, TRUE)
<1>1. /\ Enumerate \in Seq(Record)
      /\ ToSet(Enumerate) = UNION {ToSet(catalog[j]) : j \in DOMAIN catalog}
  <2>1. FoundIn(Len(catalog), Enumerate) /\ DOMAIN catalog = 1 .. Len(catalog)
    BY EnumerateFound DEF CatalogTyped
  <2> QED BY <2>1 DEF FoundIn
<1>2. Listed(kind, Len(Enumerate), listing)
  BY <1>1, ListingIs
<1>3. hw \in Seq(S) /\ Distinct(hw) /\ listing.modeled \in BOOLEAN
  BY <1>2 DEF Listed, NamesSoFar
<1>4. ToSet(hw) = HardwareNames(kind)
  <2>1. ToSet(hw) = {NameOf[Enumerate[j].transport] :
          j \in {k \in 1 .. Len(Enumerate) : /\ Enumerate[k].kind = kind
                                            /\ Enumerate[k].transport # Modeled}}
    BY <1>2 DEF Listed
  <2>2. ToSet(Enumerate) = {Enumerate[j] : j \in 1 .. Len(Enumerate)}
    BY <1>1 DEF ToSet
  <2>3. HardwareNames(kind) = {NameOf[record.transport] :
          record \in {r \in ToSet(Enumerate) : r.kind = kind /\ r.transport # Modeled}}
    BY <1>1 DEF HardwareNames
  <2> QED BY <2>1, <2>2, <2>3
<1>5. Modeled \notin ToSet(hw)
  <2>1. \A r \in Record : r.transport # Modeled => NameOf[r.transport] # Modeled
    BY CatalogAssumption DEF Record
  <2>2. \A r \in ToSet(Enumerate) : r \in Record
    BY <1>1 DEF ToSet
  <2> QED BY <1>1, <1>4, <2>1, <2>2 DEF HardwareNames
<1>6. BackendNames(kind, FALSE) = hw
  BY DEF BackendNames
<1>7. names = IF listing.modeled \/ hw = <<>> THEN PushUnique(hw, Modeled) ELSE hw
  BY DEF BackendNames
<1> HIDE DEF listing, hw, names
<1>8. CASE listing.modeled \/ hw = <<>>
  <2>1. names = PushUnique(hw, Modeled)
    BY <1>7, <1>8
  <2>2. /\ names \in Seq(S) /\ Distinct(names) /\ ToSet(names) = ToSet(hw) \cup {Modeled}
        /\ Len(names) = Len(hw) + 1 /\ names[Len(hw) + 1] = Modeled
        /\ \A i \in 1 .. Len(hw) : names[i] = hw[i]
    <3>1. Modeled \in S
      OBVIOUS
    <3> HIDE DEF S
    <3> DEFINE more == PushUnique(hw, Modeled)
    <3>2. /\ more \in Seq(S) /\ Distinct(more) /\ ToSet(more) = ToSet(hw) \cup {Modeled}
          /\ Modeled \notin ToSet(hw) =>
               /\ Len(more) = Len(hw) + 1 /\ more[Len(hw) + 1] = Modeled
               /\ \A i \in 1 .. Len(hw) : more[i] = hw[i]
      BY <1>3, <3>1, PushedOnce
    <3> HIDE DEF more
    <3>3. names = more
      BY <2>1 DEF more
    <3> QED BY <1>5, <3>2, <3>3
  <2>3. Len(hw) \in Nat /\ DOMAIN hw = 1 .. Len(hw) /\ DOMAIN names = 1 .. (Len(hw) + 1)
    BY <1>3, <2>2
  <2>4. names # <<>>
    BY <2>2, <2>3
  <2>5. \A i \in 1 .. Len(hw) : names[i] # Modeled
    BY <1>5, <2>2, <2>3 DEF ToSet
  <2>6. \A i \in DOMAIN names : names[i] = Modeled => i = Len(names)
    BY <2>2, <2>3, <2>5
  <2>7. ToSet(names) \ {Modeled} = HardwareNames(kind)
    BY <1>4, <1>5, <2>2
  <2> QED BY <1>4, <1>6, <2>2, <2>4, <2>6, <2>7 DEF names
<1>9. CASE ~listing.modeled /\ hw # <<>>
  <2>1. names = hw
    BY <1>7, <1>9
  <2>2. \A i \in DOMAIN names : names[i] # Modeled
    BY <1>5, <2>1 DEF ToSet
  <2>3. ToSet(names) \ {Modeled} = HardwareNames(kind)
    BY <1>4, <1>5, <2>1
  <2> QED BY <1>3, <1>4, <1>6, <1>9, <2>1, <2>2, <2>3 DEF names
<1> QED BY <1>8, <1>9

\* However many providers list a transport, a listing offers each hardware name
\* once and the fallback last, and a probe accepts exactly the names its caller
\* may learn.
THEOREM CandidatesAreExact == CatalogSpec => []CandidatesExact
<1>1. ASSUME CatalogTyped PROVE CandidatesExact
  <2>1. ASSUME NEW kind
        PROVE  LET names == BackendNames(kind, TRUE)
               IN  /\ names # <<>>
                   /\ \A i, j \in DOMAIN names : names[i] = names[j] => i = j
                   /\ ToSet(names) \ {Modeled} = HardwareNames(kind)
                   /\ \A i \in DOMAIN names : names[i] = Modeled => i = Len(names)
    BY <1>1, NamesExact DEF Distinct
  <2>2. ASSUME NEW request \in ProbeRequest, NEW kind \in DOMAIN Probe(request)
        PROVE  Probe(request)[kind] =
                 IF request.mode = "real" /\ request.hardware_inventory
                 THEN HardwareNames(kind) ELSE {Modeled}
    <3>1. Probe(request)[kind] =
            Accepts(IF request.mode = "modeled" THEN <<Modeled>> ELSE BackendNames(kind, FALSE))
      BY <2>2 DEF Probe
    <3>2. ProbeStatus(request) = "applied"
      BY <2>2 DEF Probe
    <3>3. \/ request.mode = "modeled"
          \/ request.mode = "real" /\ request.hardware_inventory
      BY <3>2 DEF ProbeStatus, ProbeRequest
    <3>4. CASE request.mode = "modeled"
      BY <3>1, <3>4 DEF Accepts, ToSet
    <3>5. CASE request.mode = "real" /\ request.hardware_inventory
      BY <1>1, <3>1, <3>5, NamesExact DEF Accepts
    <3> QED BY <3>3, <3>4, <3>5
  <2> QED BY <2>1, <2>2 DEF CandidatesExact
<1> QED BY <1>1, CatalogInvariant, PTL DEF CatalogInv

=============================================================================
