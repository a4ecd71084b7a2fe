---------------------------- MODULE QueueLemmas ----------------------------
(***************************************************************************)
(* Queues that hold each entry at most once: what the operations of the    *)
(* scheduler's hint, waiter and nudge queues do to the entries.  Then      *)
(* induction over the numbers, and with it what the loops of QueueOrder    *)
(* compute for every set of facts: an arrangement of the turns, the only   *)
(* one there is, which later turns leave alone.                            *)
(***************************************************************************)
EXTENDS QueueOrder, WellFoundedInduction, FiniteSetTheorems, SequenceTheorems,
        TLAPS

(* A new entry joins at the back ...                                       *)
LEMMA AppendToQueue ==
  ASSUME NEW S, NEW q \in Seq(S), IsInjective(q), NEW x \in S, x \notin ToSet(q)
  PROVE  /\ Append(q, x) \in Seq(S)
         /\ IsInjective(Append(q, x))
         /\ ToSet(Append(q, x)) = ToSet(q) \cup {x}
<1> DEFINE r == Append(q, x)
<1>1. /\ r \in Seq(S)
      /\ DOMAIN q = 1 .. Len(q) /\ DOMAIN r = 1 .. Len(q) + 1
      /\ \A i \in 1 .. Len(q) : r[i] = q[i]
      /\ r[Len(q) + 1] = x
      /\ Len(q) \in Nat
  OBVIOUS
<1> HIDE DEF r
<1>2. \A i \in 1 .. Len(q) + 1 : i = Len(q) + 1 \/ i \in 1 .. Len(q)
  BY <1>1
<1>3. IsInjective(r)
  <2> SUFFICES ASSUME NEW i \in DOMAIN r, NEW j \in DOMAIN r, r[i] = r[j]
               PROVE  i = j
    BY DEF IsInjective
  <2>1. \A k \in 1 .. Len(q) : q[k] # x
    BY <1>1 DEF ToSet
  <2>2. QED
    BY <1>1, <1>2, <2>1 DEF IsInjective
<1>4. ToSet(r) = ToSet(q) \cup {x}
  <2>1. ASSUME NEW i \in DOMAIN r PROVE r[i] \in ToSet(q) \cup {x}
    BY <1>1, <1>2 DEF ToSet
  <2>2. ToSet(q) \subseteq ToSet(r)
    BY <1>1 DEF ToSet
  <2>3. x \in ToSet(r)
    BY <1>1 DEF ToSet
  <2>4. QED
    BY <2>1, <2>2, <2>3 DEF ToSet
<1>5. QED
  BY <1>1, <1>3, <1>4 DEF r

(* ... or is put back at the front.                                        *)
LEMMA PutBackAtFront ==
  ASSUME NEW S, NEW q \in Seq(S), IsInjective(q), NEW x \in S, x \notin ToSet(q)
  PROVE  /\ <<x>> \o q \in Seq(S)
         /\ IsInjective(<<x>> \o q)
         /\ ToSet(<<x>> \o q) = ToSet(q) \cup {x}
<1> DEFINE r == <<x>> \o q
<1>1. /\ r \in Seq(S)
      /\ DOMAIN q = 1 .. Len(q) /\ DOMAIN r = 1 .. Len(q) + 1
      /\ \A i \in 1 .. Len(q) : r[i + 1] = q[i]
      /\ r[1] = x
      /\ Len(q) \in Nat
  OBVIOUS
<1> HIDE DEF r
<1>2. \A i \in 1 .. Len(q) + 1 : i = 1 \/ (i - 1 \in 1 .. Len(q) /\ r[i] = q[i - 1])
  BY <1>1
<1>3. IsInjective(r)
  <2> SUFFICES ASSUME NEW i \in DOMAIN r, NEW j \in DOMAIN r, r[i] = r[j]
               PROVE  i = j
    BY DEF IsInjective
  <2>1. \A k \in 1 .. Len(q) : q[k] # x
    BY <1>1 DEF ToSet
  <2>2. CASE i = 1
    BY <1>1, <1>2, <2>1, <2>2
  <2>3. CASE j = 1
    BY <1>1, <1>2, <2>1, <2>3
  <2>4. CASE i # 1 /\ j # 1
    <3>1. i - 1 \in DOMAIN q /\ j - 1 \in DOMAIN q /\ q[i - 1] = q[j - 1]
      BY <1>1, <1>2, <2>4
    <3>2. i - 1 = j - 1
      BY <3>1 DEF IsInjective
    <3>3. QED
      BY <3>2, <1>1
  <2>5. QED
    BY <2>2, <2>3, <2>4
<1>4. ToSet(r) = ToSet(q) \cup {x}
  <2>1. ASSUME NEW i \in DOMAIN r PROVE r[i] \in ToSet(q) \cup {x}
    BY <1>1, <1>2 DEF ToSet
  <2>2. ToSet(q) \subseteq ToSet(r)
    BY <1>1 DEF ToSet
  <2>3. x \in ToSet(r)
    BY <1>1 DEF ToSet
  <2>4. QED
    BY <2>1, <2>2, <2>3 DEF ToSet
<1>5. QED
  BY <1>1, <1>3, <1>4 DEF r

(* The front leaves ...                                                    *)
LEMMA TakeFront ==
  ASSUME NEW S, NEW q \in Seq(S), IsInjective(q), q # << >>
  PROVE  /\ Head(q) = q[1] /\ Head(q) \in S /\ Head(q) \in ToSet(q)
         /\ Tail(q) \in Seq(S)
         /\ IsInjective(Tail(q))
         /\ ToSet(Tail(q)) = ToSet(q) \ {Head(q)}
<1> DEFINE r == Tail(q)
<1>1. /\ r \in Seq(S) /\ Head(q) = q[1] /\ Head(q) \in S
      /\ DOMAIN q = 1 .. Len(q) /\ DOMAIN r = 1 .. Len(q) - 1
      /\ \A i \in 1 .. Len(q) - 1 : r[i] = q[i + 1]
      /\ Len(q) \in Nat /\ Len(q) >= 1
  OBVIOUS
<1> HIDE DEF r
<1>2. \A i \in 1 .. Len(q) : i = 1 \/ (i - 1 \in 1 .. Len(q) - 1 /\ q[i] = r[i - 1])
  BY <1>1
<1>3. IsInjective(r)
  <2> SUFFICES ASSUME NEW i \in DOMAIN r, NEW j \in DOMAIN r, r[i] = r[j]
               PROVE  i = j
    BY DEF IsInjective
  <2>1. /\ i \in Int /\ j \in Int /\ q[i + 1] = q[j + 1]
        /\ i + 1 \in DOMAIN q /\ j + 1 \in DOMAIN q
    BY <1>1
  <2>2. i + 1 = j + 1
    BY <2>1 DEF IsInjective
  <2>3. QED
    BY <2>1, <2>2
<1>4. ToSet(r) = ToSet(q) \ {Head(q)}
  <2>1. ToSet(r) \subseteq ToSet(q) \ {Head(q)}
    BY <1>1 DEF ToSet, IsInjective
  <2>2. ToSet(q) \ {Head(q)} \subseteq ToSet(r)
    BY <1>1, <1>2 DEF ToSet
  <2>3. QED
    BY <2>1, <2>2
<1>5. Head(q) \in ToSet(q)
  BY <1>1 DEF ToSet
<1>6. QED
  BY <1>1, <1>3, <1>4, <1>5 DEF r

(* ... or any entry does.                                                  *)
LEMMA EntryRemoved ==
  ASSUME NEW S, NEW q \in Seq(S), NEW n \in Nat, n = Len(q), NEW k \in 1 .. n
  PROVE  /\ RemoveAt(q, k) \in Seq(S)
         /\ DOMAIN RemoveAt(q, k) = 1 .. n - 1
         /\ \A j \in 1 .. n - 1 :
              RemoveAt(q, k)[j] = IF j < k THEN q[j] ELSE q[j + 1]
<1> DEFINE a == SubSeq(q, 1, k - 1)
           b == SubSeq(q, k + 1, n)
<1>1. \A j \in 1 .. n : q[j] \in S
  BY ElementOfSeq
<1>2. /\ a \in Seq(S) /\ Len(a) = k - 1
      /\ \A j \in 1 .. k - 1 : a[j] = q[j]
  <2>1. /\ a \in Seq(S)
        /\ Len(a) = IF 1 <= k - 1 THEN k - 1 - 1 + 1 ELSE 0
        /\ \A j \in 1 .. k - 1 - 1 + 1 : a[j] = q[1 + j - 1]
    <3>1. 1 \in Int /\ k - 1 \in Int /\ \A j \in 1 .. k - 1 : q[j] \in S
      BY <1>1
    <3>2. QED
      BY <3>1, SubSeqProperties
  <2> HIDE DEF a
  <2>2. k - 1 - 1 + 1 = k - 1 /\ \A j \in Int : 1 + j - 1 = j
    OBVIOUS
  <2>3. ~ (1 <= k - 1) => k - 1 = 0
    OBVIOUS
  <2>4. QED
    BY <2>1, <2>2, <2>3
<1>3. /\ b \in Seq(S) /\ Len(b) = n - k
      /\ \A j \in 1 .. n - k : b[j] = q[j + k]
  <2>1. /\ b \in Seq(S)
        /\ Len(b) = IF k + 1 <= n THEN n - (k + 1) + 1 ELSE 0
        /\ \A j \in 1 .. n - (k + 1) + 1 : b[j] = q[k + 1 + j - 1]
    <3>1. k + 1 \in Int /\ n \in Int /\ \A j \in k + 1 .. n : q[j] \in S
      BY <1>1
    <3>2. QED
      BY <3>1, SubSeqProperties
  <2> HIDE DEF b
  <2>2. n - (k + 1) + 1 = n - k /\ \A j \in Int : k + 1 + j - 1 = j + k
    OBVIOUS
  <2>3. ~ (k + 1 <= n) => n - k = 0
    OBVIOUS
  <2>4. QED
    BY <2>1, <2>2, <2>3
<1>4. RemoveAt(q, k) = a \o b
  BY DEF RemoveAt
<1> HIDE DEF a, b
<1>5. Len(a) + Len(b) = n - 1
  BY <1>2, <1>3
<1>6. /\ a \o b \in Seq(S) /\ Len(a \o b) = n - 1
      /\ \A j \in 1 .. n - 1 : (a \o b)[j] = IF j <= k - 1 THEN a[j] ELSE b[j - (k - 1)]
  <2>1. /\ a \o b \in Seq(S) /\ Len(a \o b) = Len(a) + Len(b)
        /\ \A j \in 1 .. Len(a) + Len(b) :
             (a \o b)[j] = IF j <= Len(a) THEN a[j] ELSE b[j - Len(a)]
    BY <1>2, <1>3, ConcatProperties
  <2>2. QED
    BY <1>2, <1>5, <2>1
<1>7. DOMAIN (a \o b) = 1 .. n - 1
  BY <1>6, LenProperties
<1>8. ASSUME NEW j \in 1 .. n - 1
      PROVE  (a \o b)[j] = IF j < k THEN q[j] ELSE q[j + 1]
  <2>1. CASE j < k
    <3>1. j \in 1 .. k - 1
      BY <2>1
    <3>2. QED
      BY <1>2, <1>6, <2>1, <3>1
  <2>2. CASE ~ (j < k)
    <3>1. j - (k - 1) \in 1 .. n - k /\ (j - (k - 1)) + k = j + 1
      BY <2>2
    <3>2. b[j - (k - 1)] = q[j + 1]
      BY <1>3, <3>1
    <3>3. QED
      BY <1>6, <2>2, <3>2
  <2>3. QED
    BY <2>1, <2>2
<1>9. QED
  BY <1>4, <1>6, <1>7, <1>8

(* A cancelled waiter or a withdrawn hint leaves the rest as it was.       *)
LEMMA EntryLeaves ==
  ASSUME NEW S, NEW q \in Seq(S), IsInjective(q), NEW x
  PROVE  /\ RemoveFirst(q, x) \in Seq(S)
         /\ IsInjective(RemoveFirst(q, x))
         /\ ToSet(RemoveFirst(q, x)) = ToSet(q) \ {x}
<1>1. CASE x \notin ToSet(q)
  <2>1. RemoveFirst(q, x) = q
    BY <1>1 DEF RemoveFirst, ToSet
  <2>2. QED
    BY <1>1, <2>1
<1>2. CASE x \in ToSet(q)
  <2>1. DOMAIN q = 1 .. Len(q) /\ Len(q) \in Nat
    OBVIOUS
  <2>2. PICK i \in 1 .. Len(q) : q[i] = x
    BY <1>2, <2>1 DEF ToSet
  <2>3. PICK k \in 1 .. Len(q) : q[k] = x /\ RemoveFirst(q, x) = RemoveAt(q, k)
    <3> DEFINE I == {j \in 1 .. Len(q) : q[j] = x}
    <3>1. I \in SUBSET Nat /\ I # {}
      BY <2>1, <2>2
    <3>2. PICK m \in I : \A j \in I : <<j, m>> \notin OpToRel(<, Nat)
      BY <3>1, NatLessThanWellFounded, WFMin
    <3>3. \A j \in I : m <= j
      <4> SUFFICES ASSUME NEW j \in I, j < m PROVE FALSE
        BY <3>1
      <4>1. <<j, m>> \in Nat \X Nat
        BY <3>1
      <4>2. <<j, m>> \in OpToRel(<, Nat)
        BY <4>1 DEF OpToRel
      <4>3. QED
        BY <3>2, <4>2
    <3>4. Min(I) \in I
      BY <3>3 DEF Min
    <3>5. RemoveFirst(q, x) = RemoveAt(q, Min(I))
      BY <2>2, <3>1 DEF RemoveFirst, SelectInSeq
    <3>6. QED
      BY <3>4, <3>5
  <2> DEFINE r == RemoveAt(q, k)
  <2>4. RemoveFirst(q, x) = r
    BY <2>3
  <2>5. /\ r \in Seq(S)
        /\ DOMAIN r = 1 .. Len(q) - 1
        /\ \A j \in 1 .. Len(q) - 1 : r[j] = IF j < k THEN q[j] ELSE q[j + 1]
    BY <2>1, <2>3, EntryRemoved
  <2> HIDE DEF r
  <2>6. IsInjective(r)
    <3> SUFFICES ASSUME NEW i1 \in DOMAIN r, NEW j1 \in DOMAIN r, r[i1] = r[j1]
                 PROVE  i1 = j1
      BY DEF IsInjective
    <3> DEFINE At(j) == IF j < k THEN j ELSE j + 1
    <3>1. /\ At(i1) \in DOMAIN q /\ At(j1) \in DOMAIN q
          /\ r[i1] = q[At(i1)] /\ r[j1] = q[At(j1)]
      BY <2>1, <2>3, <2>5
    <3>2. At(i1) = At(j1)
      BY <3>1 DEF IsInjective
    <3>3. QED
      BY <3>2, <2>1, <2>3, <2>5
  <2>7. ASSUME NEW j \in DOMAIN r PROVE r[j] \in ToSet(q) \ {x}
    <3>0. j \in 1 .. Len(q) - 1
      BY <2>5
    <3>1. PICK m \in DOMAIN q : r[j] = q[m] /\ m # k
      <4>1. CASE j < k
        BY <2>1, <2>3, <2>5, <3>0, <4>1
      <4>2. CASE ~ (j < k)
        <5>1. r[j] = q[j + 1] /\ j + 1 \in DOMAIN q /\ j + 1 # k
          BY <2>1, <2>3, <2>5, <3>0, <4>2
        <5>2. QED
          BY <5>1
      <4>3. QED
        BY <4>1, <4>2
    <3>2. QED
      BY <3>1, <2>1, <2>3 DEF IsInjective, ToSet
  <2>8. ASSUME NEW y \in ToSet(q) \ {x} PROVE y \in ToSet(r)
    <3>1. PICK j \in 1 .. Len(q) : q[j] = y
      BY <2>1 DEF ToSet
    <3>2. CASE j < k
      <4>1. j \in DOMAIN r /\ r[j] = y
        BY <3>1, <3>2, <2>1, <2>3, <2>5
      <4>2. QED
        BY <4>1 DEF ToSet
    <3>3. CASE j > k
      <4>1. j - 1 \in DOMAIN r /\ r[j - 1] = y
        BY <3>1, <3>3, <2>1, <2>3, <2>5
      <4>2. QED
        BY <4>1 DEF ToSet
    <3>4. QED
      BY <3>1, <3>2, <3>3, <2>3
  <2>9. ToSet(r) = ToSet(q) \ {x}
    BY <2>7, <2>8 DEF ToSet
  <2>10. QED
    BY <2>4, <2>5, <2>6, <2>9
<1>3. QED
  BY <1>1, <1>2

(* A queue without repetitions is as long as its set of entries.           *)
LEMMA QueueLength ==
  ASSUME NEW S, NEW q \in Seq(S), IsInjective(q)
  PROVE  /\ IsFiniteSet(ToSet(q)) /\ Cardinality(ToSet(q)) = Len(q)
<1>1. q \in [1 .. Len(q) -> ToSet(q)] /\ Len(q) \in Nat /\ DOMAIN q = 1 .. Len(q)
  BY DEF ToSet
<1>2. q \in Bijection(1 .. Len(q), ToSet(q))
  BY <1>1 DEF Bijection, Injection, Surjection, IsInjective, ToSet
<1>3. ExistsBijection(1 .. Len(q), ToSet(q))
  BY <1>2 DEF ExistsBijection
<1>4. QED
  BY <1>1, <1>3, FS_CountingElements, FS_NatBijection

(* A queue that shares no entry with another is put behind it.             *)
LEMMA JoinQueues ==
  ASSUME NEW S, NEW q \in Seq(S), NEW r \in Seq(S), IsInjective(q), IsInjective(r),
         ToSet(q) \cap ToSet(r) = {}
  PROVE  /\ q \o r \in Seq(S)
         /\ IsInjective(q \o r)
         /\ ToSet(q \o r) = ToSet(q) \cup ToSet(r)
<1> DEFINE t == q \o r
<1>1. PICK m \in Nat, n \in Nat :
        /\ m = Len(q) /\ n = Len(r) /\ DOMAIN q = 1 .. m /\ DOMAIN r = 1 .. n
  BY LenProperties
<1>2. /\ t \in Seq(S) /\ Len(t) = m + n
      /\ \A i \in 1 .. m + n : t[i] = IF i <= m THEN q[i] ELSE r[i - m]
  BY <1>1, ConcatProperties
<1>3. DOMAIN t = 1 .. m + n
  BY <1>2, LenProperties
<1> HIDE DEF t
<1>4. \A i \in 1 .. m + n : \/ i \in DOMAIN q /\ t[i] = q[i]
                            \/ i - m \in DOMAIN r /\ t[i] = r[i - m] /\ i > m
  BY <1>1, <1>2
<1>5. IsInjective(t)
  <2> SUFFICES ASSUME NEW i \in DOMAIN t, NEW j \in DOMAIN t, t[i] = t[j]
               PROVE  i = j
    BY DEF IsInjective
  <2>1. \A a \in DOMAIN q, b \in DOMAIN r : q[a] # r[b]
    BY DEF ToSet
  <2>2. CASE i \in DOMAIN q /\ t[i] = q[i]
    BY <1>3, <1>4, <2>1, <2>2 DEF IsInjective
  <2>3. CASE i - m \in DOMAIN r /\ t[i] = r[i - m] /\ i > m
    <3>1. j - m \in DOMAIN r /\ t[j] = r[j - m]
      BY <1>3, <1>4, <2>1, <2>3
    <3>2. i - m = j - m
      BY <2>3, <3>1 DEF IsInjective
    <3>3. QED
      BY <1>3, <3>2
  <2>4. QED
    BY <1>3, <1>4, <2>2, <2>3
<1>6. \A i \in DOMAIN t : t[i] \in ToSet(q) \cup ToSet(r)
  BY <1>3, <1>4 DEF ToSet
<1>7. \A i \in DOMAIN q : q[i] \in ToSet(t)
  <2> TAKE i \in DOMAIN q
  <2>1. i \in DOMAIN t /\ t[i] = q[i]
    BY <1>1, <1>2, <1>3
  <2>2. QED
    BY <2>1 DEF ToSet
<1>8. \A i \in DOMAIN r : r[i] \in ToSet(t)
  <2> TAKE i \in DOMAIN r
  <2>1. i + m \in DOMAIN t /\ t[i + m] = r[i]
    <3>1. i + m \in 1 .. m + n /\ ~ (i + m <= m) /\ i + m - m = i
      BY <1>1
    <3>2. QED
      BY <1>2, <1>3, <3>1
  <2>2. QED
    BY <2>1 DEF ToSet
<1>9. ToSet(t) = ToSet(q) \cup ToSet(r)
  BY <1>6, <1>7, <1>8 DEF ToSet
<1>10. QED
  BY <1>2, <1>5, <1>9 DEF t

(* A finite set of numbers has a greatest one.                             *)
LEMMA GreatestExists ==
  ASSUME NEW S, S \subseteq Nat, IsFiniteSet(S), S # {}
  PROVE  Max(S) \in S /\ \A y \in S : Max(S) >= y
<1> DEFINE HasMax(T) == \E x \in T : \A y \in T : x >= y
           Bad == {n \in Nat : \E T \in SUBSET S :
                      T # {} /\ Cardinality(T) = n /\ ~ HasMax(T)}
<1>1. Bad = {}
  <2> SUFFICES ASSUME Bad # {} PROVE FALSE
    OBVIOUS
  <2>0. Bad \subseteq Nat
    OBVIOUS
  <2> HIDE DEF Bad
  <2>1. PICK n \in Bad : \A m \in Bad : ~ (<<m, n>> \in OpToRel(<, Nat))
    BY <2>0, NatLessThanWellFounded, WFMin, Zenon
  <2>2. PICK T \in SUBSET S : T # {} /\ Cardinality(T) = n /\ ~ HasMax(T)
    BY <2>1 DEF Bad
  <2>3. PICK x \in T : TRUE
    BY <2>2
  <2> DEFINE R == T \ {x}
  <2>4. /\ IsFiniteSet(T) /\ IsFiniteSet(R) /\ Cardinality(R) = n - 1
        /\ Cardinality(R) \in Nat
    BY <2>2, <2>3, FS_Subset, FS_RemoveElement, FS_CardinalityType
  <2>5. CASE R = {}
    BY <2>2, <2>3, <2>5
  <2>6. CASE R # {}
    <3>1. Cardinality(R) \notin Bad
      <4>1. <<n - 1, n>> \in OpToRel(<, Nat)
        BY <2>0, <2>4 DEF OpToRel
      <4>2. QED
        BY <2>1, <2>4, <4>1
    <3>2. HasMax(R)
      BY <2>4, <2>6, <3>1 DEF Bad
    <3>3. HasMax(T)
      BY <2>3, <3>2
    <3>4. QED
      BY <2>2, <3>3
  <2>7. QED
    BY <2>5, <2>6
<1>2. Cardinality(S) \in Nat
  BY FS_CardinalityType
<1>3. HasMax(S)
  BY <1>1, <1>2
<1>4. QED
  BY <1>3 DEF Max

---------------------------------------------------------------------------
(* Induction over numbers. *)

(* A set of numbers that is not empty has a least element: the intervals   *)
(* 0 .. k are finite, and no chain of finite sets descends for ever.       *)
LEMMA Least ==
  ASSUME NEW T \in SUBSET Nat, T # {}
  PROVE  \E m \in T : \A k \in T : m <= k
<1> DEFINE F == {0 .. k : k \in T}
<1>1. F # {}
  OBVIOUS
<1>2. F \subseteq FiniteSubsetsOf(Nat)
  <2>1. \A k \in T : IsFiniteSet(0 .. k)
    BY FS_Interval
  <2> QED BY <2>1 DEF FiniteSubsetsOf
<1>3. IsWellFoundedOn(StrictSubsetOrdering(Nat), FiniteSubsetsOf(Nat))
  BY FS_StrictSubsetOrderingWellFounded
<1> HIDE DEF F
<1>4. PICK X \in F : \A Y \in F : ~(<<Y, X>> \in StrictSubsetOrdering(Nat))
  BY <1>1, <1>2, <1>3, WFMin
<1>5. PICK m \in T : X = 0 .. m
  BY DEF F
<1>6. ASSUME NEW k \in T, k < m PROVE FALSE
  <2>1. 0 .. k \in F /\ 0 .. k \in SUBSET Nat /\ 0 .. m \in SUBSET Nat
    BY DEF F
  <2>2. 0 .. k \subseteq 0 .. m
    BY <1>6
  <2>4. m \in 0 .. m /\ m \notin 0 .. k
    BY <1>6
  <2>3. 0 .. k # 0 .. m
    BY <2>4
  <2>5. <<0 .. k, 0 .. m>> \in StrictSubsetOrdering(Nat)
    BY <2>1, <2>2, <2>3 DEF StrictSubsetOrdering
  <2> QED BY <1>4, <1>5, <2>1, <2>5
<1>7. QED
  BY <1>6

(* A set that contains zero and is closed under successor contains every   *)
(* number.                                                                 *)
LEMMA Induction ==
  ASSUME NEW S, 0 \in S, \A n \in Nat : n \in S => n + 1 \in S
  PROVE  Nat \subseteq S
<1> SUFFICES ASSUME Nat \ S # {} PROVE FALSE
  OBVIOUS
<1>1. PICK m \in Nat \ S : \A k \in Nat \ S : m <= k
  BY Least
<1>2. m # 0 /\ m - 1 \in Nat /\ m - 1 \in S
  BY <1>1
<1>3. QED
  BY <1>1, <1>2

---------------------------------------------------------------------------
(* The derived order of accepted work (QueueOrder). *)

\* p solves the recursion of Ordered up to N.
IsPushed(p, work, N) == p = [n \in 0 .. N |-> IF n = 0 THEN << >> ELSE Push(work, p[n - 1])]

(* The recursion of Ordered has a solution for every bound.                *)
LEMMA Exists ==
  ASSUME NEW work, NEW N \in Nat
  PROVE  \E p : IsPushed(p, work, N)
<1> DEFINE S == {n \in Nat : \E p : IsPushed(p, work, n)}
<1>1. 0 \in S
  <2> DEFINE p == [n \in 0 .. 0 |-> << >>]
  <2>1. p = [n \in 0 .. 0 |-> IF n = 0 THEN << >> ELSE Push(work, p[n - 1])]
    OBVIOUS
  <2>2. IsPushed(p, work, 0)
    BY <2>1 DEF IsPushed
  <2> QED BY <2>2
<1>2. ASSUME NEW n \in Nat, n \in S PROVE n + 1 \in S
  <2>1. PICK f : IsPushed(f, work, n)
     BY <1>2
  <2> DEFINE g == [i \in 0 .. n+1 |-> IF i = 0 THEN << >> ELSE Push(work, f[i - 1])]
  <2>2. ASSUME NEW i \in 0 .. n PROVE g[i] = f[i]
    BY <2>1 DEF IsPushed
  <2>3. ASSUME NEW i \in 0 .. n + 1, i # 0 PROVE g[i] = Push(work, g[i-1])
    <3>1. i - 1 \in 0 .. n
      BY <2>3
    <3>2. g[i-1] = f[i-1]
      BY <2>2, <3>1
    <3>3. g[i] = Push(work, f[i-1])
      BY <2>3
    <3> QED BY <3>2, <3>3
  <2>4. g[0] = << >> /\ DOMAIN g = 0 .. n + 1
    OBVIOUS
  <2>5. g = [i \in 0 .. n + 1 |-> g[i]]
    OBVIOUS
  <2> HIDE DEF g
  <2>6. g = [i \in 0 .. n + 1 |-> IF i = 0 THEN << >> ELSE Push(work, g[i - 1])]
    BY <2>3, <2>4, <2>5
  <2> QED BY <2>6 DEF IsPushed
<1> HIDE DEF S
<1>3. Nat \subseteq S
  BY <1>1, <1>2, Induction
<1>4. N \in S
  BY <1>3
<1> QED BY <1>4 DEF S


(* Ordered is the last element of such a solution.                         *)
LEMMA OrderedDef ==
  ASSUME NEW work, IsFiniteSet(TurnsOf(work))
  PROVE  \E p : /\ IsPushed(p, work, Cardinality(TurnsOf(work)))
                /\ Ordered(work) = p[Cardinality(TurnsOf(work))]
<1> DEFINE N == Cardinality(TurnsOf(work))
<1>0. N \in Nat
  BY FS_CardinalityType
<1> DEFINE p == CHOOSE p : p = [n \in 0 .. N |-> IF n = 0 THEN << >> ELSE Push(work, p[n - 1])]
<1>1. \E q : q = [n \in 0 .. N |-> IF n = 0 THEN << >> ELSE Push(work, q[n - 1])]
  <2> HIDE DEF N
  <2> QED BY <1>0, Exists DEF IsPushed
<1>2. p = [n \in 0 .. N |-> IF n = 0 THEN << >> ELSE Push(work, p[n - 1])]
  BY <1>1
<1>3. Ordered(work) = p[N]
  BY DEF Ordered
<1> QED BY <1>2, <1>3 DEF IsPushed

\* Facts as the callers build them: turn identities and positions are
\* numbers, NoPred is no identity.
Wellformed(work) ==
  /\ IsFiniteSet(DOMAIN work)
  /\ \A i \in DOMAIN work :
       work[i].turn \in Nat \ {0} /\ work[i].pos \in Nat /\ work[i].pred \in Nat

\* No two turns at one position, and every interrupt the only one of a turn
\* accepted before it.
DistinctPositions(work) ==
  \A t, u \in TurnsOf(work) : Pos(work, t) = Pos(work, u) => t = u

Linked(work) ==
  \A t \in Interrupts(work) :
    /\ Pred(work, t) \in TurnsOf(work)
    /\ Pos(work, Pred(work, t)) < Pos(work, t)
    /\ \A u \in Interrupts(work) : Pred(work, u) = Pred(work, t) => u = t

(* A function of a finite domain has no more values than arguments, and as *)
(* many exactly when it is injective.                                      *)
LEMMA ImageSize ==
  ASSUME NEW f, IsFiniteSet(DOMAIN f)
  PROVE  LET T == {f[i] : i \in DOMAIN f}
         IN  /\ IsFiniteSet(T)
             /\ Cardinality(T) <= Cardinality(DOMAIN f)
             /\ Cardinality(T) = Cardinality(DOMAIN f)
                  <=> \A i, j \in DOMAIN f : f[i] = f[j] => i = j
<1> DEFINE S == DOMAIN f
           T == {f[i] : i \in S}
           g == [i \in S |-> f[i]]
<1>1. g \in Surjection(S, T)
  BY DEF Surjection
<1>2. g \in Injection(S, T) <=> \A i, j \in S : f[i] = f[j] => i = j
  BY <1>1 DEF Injection, IsInjective, Surjection
<1> HIDE DEF g, T
<1>3. /\ IsFiniteSet(T) /\ Cardinality(T) <= Cardinality(S)
      /\ Cardinality(T) = Cardinality(S) <=> g \in Injection(S, T)
  BY <1>1, FS_Surjection
<1> QED BY <1>2, <1>3 DEF T

(* There are as many turns as facts exactly when no turn has two facts.    *)
LEMMA TurnsSize ==
  ASSUME NEW work, IsFiniteSet(DOMAIN work)
  PROVE  /\ IsFiniteSet(TurnsOf(work))
         /\ Cardinality(TurnsOf(work)) <= Cardinality(DOMAIN work)
         /\ Cardinality(TurnsOf(work)) = Cardinality(DOMAIN work)
              <=> \A i, j \in DOMAIN work : work[i].turn = work[j].turn => i = j
<1> DEFINE f == [i \in DOMAIN work |-> work[i].turn]
<1>1. DOMAIN f = DOMAIN work /\ (\A i \in DOMAIN work : f[i] = work[i].turn)
      /\ TurnsOf(work) = {f[i] : i \in DOMAIN f}
  BY DEF TurnsOf
<1> HIDE DEF f
<1> QED BY <1>1, ImageSize

(* There are as many positions as facts exactly when no two facts share one. *)
LEMMA PositionsSize ==
  ASSUME NEW work, IsFiniteSet(DOMAIN work)
  PROVE  /\ IsFiniteSet(PositionsOf(work))
         /\ Cardinality(PositionsOf(work)) <= Cardinality(DOMAIN work)
         /\ Cardinality(PositionsOf(work)) = Cardinality(DOMAIN work)
              <=> \A i, j \in DOMAIN work : work[i].pos = work[j].pos => i = j
<1> DEFINE f == [i \in DOMAIN work |-> work[i].pos]
<1>1. DOMAIN f = DOMAIN work /\ (\A i \in DOMAIN work : f[i] = work[i].pos)
      /\ PositionsOf(work) = {f[i] : i \in DOMAIN f}
  BY DEF PositionsOf
<1> HIDE DEF f
<1> QED BY <1>1, ImageSize

(* The turns of well-formed facts are finitely many positive numbers, and  *)
(* so are their positions and targets.                                     *)
LEMMA FactShapes ==
  ASSUME NEW work, Wellformed(work)
  PROVE  /\ IsFiniteSet(TurnsOf(work))
         /\ \A t \in TurnsOf(work) : /\ t \in Nat \ {0}
                                    /\ Pos(work, t) \in Nat
                                    /\ Pred(work, t) \in Nat
<1>1. IsFiniteSet(TurnsOf(work))
  BY TurnsSize DEF Wellformed
<1>2. ASSUME NEW t \in TurnsOf(work)
      PROVE  t \in Nat \ {0} /\ Pos(work, t) \in Nat /\ Pred(work, t) \in Nat
  <2>1. PICK i \in DOMAIN work : work[i].turn = t
    BY DEF TurnsOf
  <2> DEFINE c == CHOOSE j \in DOMAIN work : work[j].turn = t
  <2>2. c \in DOMAIN work /\ work[c].turn = t
    BY <2>1
  <2>3. Fact(work, t) = work[c]
    BY DEF Fact
  <2> QED BY <2>2, <2>3 DEF Wellformed, Pos, Pred
<1> QED BY <1>1, <1>2

\* What the loops have pushed so far.
PushedWell(work, o) ==
  /\ o \in Seq(TurnsOf(work))
  /\ \A i, j \in 1 .. Len(o) : o[i] = o[j] => i = j
  /\ \A i \in 1 .. Len(o) :
       o[i] \in Interrupts(work) => i > 1 /\ o[i - 1] = Pred(work, o[i])
  /\ \A i \in 1 .. Len(o) - 1 :
       Successors(work, o[i]) # {} => o[i + 1] \in Successors(work, o[i])
  /\ \A i \in 1 .. Len(o), r \in Roots(work) :
       o[i] \in Roots(work) /\ Pos(work, r) < Pos(work, o[i])
         => \E j \in 1 .. i - 1 : o[j] = r

(* Nothing pushed is well pushed.                                          *)
LEMMA PushedStart == ASSUME NEW work PROVE PushedWell(work, << >>)
BY DEF PushedWell

(* One push of the loops of derive_accepted_input_total_order keeps what   *)
(* was pushed well ordered: the successor follows its target, the next     *)
(* ordinary turn is the earliest left.                                     *)
LEMMA PushStep ==
  ASSUME NEW work, Wellformed(work), DistinctPositions(work), Linked(work), NEW o, PushedWell(work, o),
         NextPushed(work, o) # {}
  PROVE  /\ PushedWell(work, Push(work, o))
         /\ Len(Push(work, o)) = Len(o) + 1
<1> DEFINE x == CHOOSE t \in NextPushed(work, o) : TRUE
           T == TurnsOf(work)
<1>1. x \in NextPushed(work, o) /\ Push(work, o) = Append(o, x)
  BY DEF Push
<1>2. /\ Roots(work) \subseteq T /\ Interrupts(work) \subseteq T
      /\ Roots(work) \cap Interrupts(work) = {}
  BY DEF Roots, Interrupts
<1>3. o \in Seq(T) /\ Len(o) \in Nat
  BY DEF PushedWell
<1>4. o # << >> => Len(o) # 0 /\ Last(o) = o[Len(o)]
  BY <1>3 DEF Last
<1>5. ToSet(o) = {o[i] : i \in 1 .. Len(o)}
  BY <1>3 DEF ToSet
<1>6. \/ /\ x \in Interrupts(work) /\ Len(o) # 0 /\ Pred(work, x) = o[Len(o)]
         /\ x \in Successors(work, o[Len(o)])
      \/ /\ x \in Roots(work) /\ \A i \in 1 .. Len(o) : o[i] # x
         /\ \A r \in Roots(work) : Pos(work, r) < Pos(work, x)
               => \E j \in 1 .. Len(o) : o[j] = r
         /\ Len(o) # 0 => Successors(work, o[Len(o)]) = {}
  <2>1. CASE o # << >> /\ Successors(work, Last(o)) # {}
    <3>1. x \in Successors(work, Last(o))
      BY <1>1, <2>1 DEF NextPushed
    <3> QED BY <3>1, <2>1, <1>4 DEF Successors
  <2>2. CASE ~(o # << >> /\ Successors(work, Last(o)) # {})
    <3>1. x \in Earliest(work, Roots(work) \ ToSet(o))
      BY <1>1, <2>2 DEF NextPushed
    <3>2. x \in Roots(work) /\ x \notin ToSet(o)
      BY <3>1 DEF Earliest
    <3>3. ASSUME NEW r \in Roots(work), Pos(work, r) < Pos(work, x)
          PROVE  r \in ToSet(o)
      <4>1. Pos(work, r) \in Nat /\ Pos(work, x) \in Nat
        BY <1>2, <3>2, FactShapes
      <4>2. r \notin ToSet(o) => Pos(work, x) <= Pos(work, r)
        BY <3>1, <3>3 DEF Earliest
      <4> QED BY <4>1, <4>2, <3>3
    <3>4. Len(o) # 0 => o # << >>
      OBVIOUS
    <3> QED BY <3>2, <3>3, <3>4, <1>5, <1>4, <2>2
  <2> QED BY <2>1, <2>2
<1> HIDE DEF x
<1>7. x \in T
  BY <1>2, <1>6
<1> DEFINE q == Append(o, x)
<1>8. /\ q \in Seq(T) /\ Len(q) = Len(o) + 1 /\ q[Len(o) + 1] = x
      /\ \A i \in 1 .. Len(o) : q[i] = o[i]
  BY <1>3, <1>7
<1> HIDE DEF q
<1>9. \A i \in 1 .. Len(o) : o[i] # x
  <2> SUFFICES ASSUME NEW i \in 1 .. Len(o), o[i] = x, x \in Interrupts(work),
                      Pred(work, x) = o[Len(o)], Len(o) # 0
               PROVE  FALSE
    BY <1>6
  <2>1. i > 1 /\ o[i - 1] = o[Len(o)]
    BY DEF PushedWell
  <2>2. i - 1 \in 1 .. Len(o) /\ Len(o) \in 1 .. Len(o)
    BY <2>1, <1>3
  <2>3. i - 1 = Len(o)
    BY <2>1, <2>2 DEF PushedWell
  <2> QED BY <2>3, <1>3
<1>10. \A i, j \in 1 .. Len(q) : q[i] = q[j] => i = j
  <2> SUFFICES ASSUME NEW i \in 1 .. Len(q), NEW j \in 1 .. Len(q), q[i] = q[j] PROVE i = j
    OBVIOUS
  <2>1. (i \in 1 .. Len(o) \/ i = Len(o) + 1) /\ (j \in 1 .. Len(o) \/ j = Len(o) + 1)
    BY <1>8, <1>3
  <2>2. CASE i \in 1 .. Len(o) /\ j \in 1 .. Len(o)
    BY <2>2, <1>8 DEF PushedWell
  <2> QED BY <2>1, <2>2, <1>8, <1>9
<1>11. ASSUME NEW i \in 1 .. Len(q), q[i] \in Interrupts(work)
       PROVE  i > 1 /\ q[i - 1] = Pred(work, q[i])
  <2>1. CASE i \in 1 .. Len(o)
    <3>1. i > 1 /\ o[i - 1] = Pred(work, o[i]) /\ q[i] = o[i]
      BY <2>1, <1>8, <1>11 DEF PushedWell
    <3>2. i - 1 \in 1 .. Len(o)
      BY <3>1, <2>1
    <3> QED BY <3>1, <3>2, <1>8
  <2>2. CASE i = Len(o) + 1
    <3>1. x \in Interrupts(work) /\ Len(o) # 0 /\ Pred(work, x) = o[Len(o)]
      BY <2>2, <1>8, <1>11, <1>6, <1>2
    <3>2. Len(o) \in 1 .. Len(o) /\ i - 1 = Len(o)
      BY <3>1, <1>3, <2>2
    <3> QED BY <3>1, <3>2, <2>2, <1>3, <1>8
  <2> QED BY <2>1, <2>2, <1>8, <1>3
<1>12. ASSUME NEW i \in 1 .. Len(q) - 1, Successors(work, q[i]) # {}
       PROVE  q[i + 1] \in Successors(work, q[i])
  <2>0. i \in 1 .. Len(o) /\ q[i] = o[i]
    BY <1>8, <1>3
  <2>1. CASE i = Len(o)
    BY <2>1, <2>0, <1>12, <1>6, <1>8
  <2>2. CASE i # Len(o)
    <3>1. i \in 1 .. Len(o) - 1 /\ i + 1 \in 1 .. Len(o)
      BY <2>2, <2>0, <1>3
    <3>2. o[i + 1] \in Successors(work, o[i])
      BY <3>1, <2>0, <1>12 DEF PushedWell
    <3> QED BY <3>1, <3>2, <2>0, <1>8
  <2> QED BY <2>1, <2>2
<1>13. ASSUME NEW i \in 1 .. Len(q), NEW r \in Roots(work),
              q[i] \in Roots(work), Pos(work, r) < Pos(work, q[i])
       PROVE  \E j \in 1 .. i - 1 : q[j] = r
  <2>1. CASE i \in 1 .. Len(o)
    <3>1. PICK j \in 1 .. i - 1 : o[j] = r
      BY <2>1, <1>8, <1>13 DEF PushedWell
    <3>2. j \in 1 .. Len(o)
      BY <2>1, <1>3
    <3> QED BY <3>1, <3>2, <1>8
  <2>2. CASE i = Len(o) + 1
    <3>1. PICK j \in 1 .. Len(o) : o[j] = r
      BY <2>2, <1>8, <1>13, <1>6, <1>2
    <3>2. j \in 1 .. i - 1
      BY <2>2, <1>3
    <3> QED BY <3>1, <3>2, <1>8
  <2> QED BY <2>1, <2>2, <1>8, <1>3
<1>14. PushedWell(work, q)
  BY <1>8, <1>10, <1>11, <1>12, <1>13 DEF PushedWell
<1> QED BY <1>1, <1>8, <1>14 DEF q

(* There is an earliest turn among any turns left.                         *)
LEMMA EarliestExists ==
  ASSUME NEW work, Wellformed(work), NEW roots \in SUBSET TurnsOf(work), roots # {}
  PROVE  Earliest(work, roots) # {}
<1> DEFINE P == {Pos(work, t) : t \in roots}
<1>1. P \in SUBSET Nat /\ P # {}
  BY FactShapes
<1>2. PICK m \in P : \A k \in P : m <= k
  <2> HIDE DEF P
  <2> QED BY <1>1, Least
<1>3. PICK t \in roots : m = Pos(work, t)
  OBVIOUS
<1>4. t \in Earliest(work, roots)
  BY <1>2, <1>3 DEF Earliest
<1> QED BY <1>4

(* The loops end only when every turn was pushed: the earliest turn left   *)
(* would be the next root or the successor of a turn already pushed.       *)
LEMMA NothingLeft ==
  ASSUME NEW work, Wellformed(work), Linked(work), NEW o, PushedWell(work, o),
         NextPushed(work, o) = {}
  PROVE  \A t \in TurnsOf(work) : \E i \in 1 .. Len(o) : o[i] = t
<1> DEFINE T    == TurnsOf(work)
           Left == {t \in T : ~\E i \in 1 .. Len(o) : o[i] = t}
<1> SUFFICES ASSUME Left # {} PROVE FALSE
  OBVIOUS
<1>0. o \in Seq(T) /\ Len(o) \in Nat
  BY DEF PushedWell
<1>1. PICK t \in Left : \A u \in Left : Pos(work, t) <= Pos(work, u)
  <2>1. Left \in SUBSET TurnsOf(work)
    OBVIOUS
  <2> HIDE DEF Left
  <2> QED BY <2>1, EarliestExists DEF Earliest
<1>2. Len(o) # 0 => Successors(work, o[Len(o)]) = {}
  BY <1>0 DEF NextPushed, Last
<1>3. Roots(work) \subseteq ToSet(o)
  <2> SUFFICES ASSUME Roots(work) \ ToSet(o) # {} PROVE FALSE
    OBVIOUS
  <2>1. Roots(work) \ ToSet(o) \in SUBSET TurnsOf(work)
    BY DEF Roots
  <2>2. Earliest(work, Roots(work) \ ToSet(o)) # {}
    BY <2>1, EarliestExists
  <2>3. ~(o # << >> /\ Successors(work, Last(o)) # {})
    BY <1>2, <1>0 DEF Last
  <2> QED BY <2>2, <2>3 DEF NextPushed
<1>4. \A r \in Roots(work) : \E i \in 1 .. Len(o) : o[i] = r
  BY <1>0, <1>3 DEF ToSet
<1>5. t \in Interrupts(work)
  BY <1>4 DEF Roots
<1>6. Pred(work, t) \in T /\ Pos(work, Pred(work, t)) < Pos(work, t)
  BY <1>5 DEF Linked
<1>7. Pos(work, t) \in Nat /\ Pos(work, Pred(work, t)) \in Nat
  BY <1>6, FactShapes
<1>8. Pred(work, t) \notin Left
  BY <1>1, <1>6, <1>7
<1>9. PICK i \in 1 .. Len(o) : o[i] = Pred(work, t)
  BY <1>6, <1>8
<1>10. t \in Successors(work, o[i])
  BY <1>5, <1>9 DEF Successors
<1>11. i \in 1 .. Len(o) - 1 /\ i + 1 \in 1 .. Len(o)
  BY <1>2, <1>10, <1>0
<1>12. o[i + 1] \in Successors(work, o[i])
  BY <1>10, <1>11 DEF PushedWell
<1>13. o[i + 1] = t
  BY <1>12, <1>10, <1>9, <1>5 DEF Successors, Linked
<1> QED BY <1>11, <1>13

(* A sequence without repetition is no longer than the set of its values,  *)
(* and as long exactly when it covers it.                                  *)
LEMMA FullLength ==
  ASSUME NEW T, IsFiniteSet(T), NEW o \in Seq(T),
         \A i, j \in 1 .. Len(o) : o[i] = o[j] => i = j
  PROVE  /\ Len(o) <= Cardinality(T)
         /\ Len(o) = Cardinality(T) <=> \A t \in T : \E i \in 1 .. Len(o) : o[i] = t
<1>1. Len(o) \in Nat /\ DOMAIN o = 1 .. Len(o) /\ o \in [1 .. Len(o) -> T]
  OBVIOUS
<1>2. o \in Injection(1 .. Len(o), T)
  BY <1>1 DEF Injection, IsInjective
<1>3. o \in Surjection(1 .. Len(o), T) <=> \A t \in T : \E i \in 1 .. Len(o) : o[i] = t
  BY <1>1 DEF Surjection
<1>4. Cardinality(1 .. Len(o)) = Len(o)
  BY <1>1, FS_Interval
<1>5. Cardinality(1 .. Len(o)) <= Cardinality(T)
      /\ (Cardinality(1 .. Len(o)) = Cardinality(T) <=> o \in Surjection(1 .. Len(o), T))
  BY <1>2, FS_Injection
<1> QED BY <1>3, <1>4, <1>5

\* After k pushes, k turns are pushed or nothing is left.
PushedBy(work, p, k) ==
  /\ PushedWell(work, p[k])
  /\ Len(p[k]) = k \/ NextPushed(work, p[k]) = {}

(* What was pushed is well ordered after any number of pushes.             *)
LEMMA PushedAll ==
  ASSUME NEW work, Wellformed(work), DistinctPositions(work), Linked(work),
         NEW N \in Nat, NEW p, IsPushed(p, work, N)
  PROVE  \A k \in 0 .. N : PushedBy(work, p, k)
<1> DEFINE S == {k \in Nat : k <= N => PushedBy(work, p, k)}
<1>0. p[0] = << >> /\ \A k \in 0 .. N : k # 0 => p[k] = Push(work, p[k - 1])
  BY DEF IsPushed
<1>1. 0 \in S
  BY <1>0, PushedStart DEF PushedBy
<1>2. ASSUME NEW k \in Nat, k \in S PROVE k + 1 \in S
  <2> SUFFICES ASSUME k + 1 <= N PROVE PushedBy(work, p, k + 1)
    OBVIOUS
  <2>1. PushedBy(work, p, k)
    BY <1>2
  <2>2. k + 1 \in 0 .. N /\ k + 1 # 0 /\ (k + 1) - 1 = k
    OBVIOUS
  <2>3. p[k + 1] = Push(work, p[k])
    BY <1>0, <2>2
  <2>4. CASE NextPushed(work, p[k]) = {}
    BY <2>4, <2>1, <2>3 DEF Push, PushedBy
  <2>5. CASE NextPushed(work, p[k]) # {}
    BY <2>5, <2>1, <2>3, PushStep DEF PushedBy
  <2> QED BY <2>4, <2>5
<1> HIDE DEF S
<1>3. Nat \subseteq S
  BY <1>1, <1>2, Induction
<1> QED BY <1>3 DEF S

(* The loops push every turn: no interrupt cycle is left out.              *)
LEMMA OrderedCovers ==
  ASSUME NEW work, Wellformed(work), DistinctPositions(work), Linked(work)
  PROVE  /\ PushedWell(work, Ordered(work))
         /\ Len(Ordered(work)) = Cardinality(TurnsOf(work))
         /\ \A t \in TurnsOf(work) : \E i \in 1 .. Len(Ordered(work)) : Ordered(work)[i] = t
<1> DEFINE N == Cardinality(TurnsOf(work))
           o == Ordered(work)
<1>1. IsFiniteSet(TurnsOf(work)) /\ N \in Nat
  BY FactShapes, FS_CardinalityType
<1>2. PICK p : IsPushed(p, work, N) /\ o = p[N]
  BY <1>1, OrderedDef
<1>3. PushedBy(work, p, N)
  <2> HIDE DEF N
  <2> QED BY <1>1, <1>2, PushedAll
<1>4. PushedWell(work, o) /\ (Len(o) = N \/ NextPushed(work, o) = {})
  BY <1>2, <1>3 DEF PushedBy
<1> HIDE DEF o
<1>5. /\ Len(o) <= N
      /\ Len(o) = N <=> \A t \in TurnsOf(work) : \E i \in 1 .. Len(o) : o[i] = t
  BY <1>1, <1>4, FullLength DEF PushedWell
<1> QED BY <1>4, <1>5, NothingLeft DEF o

(* Well pushed turns, all of them, are arranged as the facts say.          *)
LEMMA PushedArranges ==
  ASSUME NEW work, Wellformed(work), NEW o, PushedWell(work, o),
         \A t \in TurnsOf(work) : \E i \in 1 .. Len(o) : o[i] = t
  PROVE  Arranges(work, o)
<1>1. o \in Seq(TurnsOf(work)) /\ DOMAIN o = 1 .. Len(o) /\ Len(o) \in Nat
  BY DEF PushedWell
<1>2. IsInjective(o)
  BY <1>1 DEF PushedWell, IsInjective
<1>3. ToSet(o) = TurnsOf(work)
  BY <1>1 DEF ToSet
<1>4. ASSUME NEW i \in DOMAIN o, NEW j \in DOMAIN o, o[i] \in Roots(work), o[j] \in Roots(work),
             Pos(work, o[i]) < Pos(work, o[j])
      PROVE  i < j
  <2>1. PICK m \in 1 .. j - 1 : o[m] = o[i]
    BY <1>1, <1>4 DEF PushedWell
  <2>2. m \in 1 .. Len(o)
    BY <1>1
  <2>3. m = i
    BY <1>1, <2>1, <2>2 DEF PushedWell
  <2> QED BY <1>1, <2>3
<1>5. \A i \in DOMAIN o : o[i] \in Interrupts(work) => i > 1 /\ o[i - 1] = Pred(work, o[i])
  BY <1>1 DEF PushedWell
<1> QED BY <1>1, <1>2, <1>3, <1>4, <1>5 DEF Arranges

(* The loops arrange the turns as the facts say.                           *)
LEMMA OrderedArranges ==
  ASSUME NEW work, Wellformed(work), DistinctPositions(work), Linked(work)
  PROVE  Arranges(work, Ordered(work))
BY OrderedCovers, PushedArranges

(* The parts of Arranges, by index.                                        *)
LEMMA ArrangedParts ==
  ASSUME NEW work, NEW o, Arranges(work, o)
  PROVE  /\ o \in Seq(TurnsOf(work)) /\ Len(o) \in Nat /\ DOMAIN o = 1 .. Len(o)
         /\ \A i \in 1 .. Len(o) : o[i] \in TurnsOf(work)
         /\ \A i, j \in 1 .. Len(o) : o[i] = o[j] => i = j
         /\ \A t \in TurnsOf(work) : \E i \in 1 .. Len(o) : o[i] = t
         /\ \A i, j \in 1 .. Len(o) :
              /\ o[i] \in Roots(work) /\ o[j] \in Roots(work)
              /\ Pos(work, o[i]) < Pos(work, o[j])
              => i < j
         /\ \A i \in 1 .. Len(o) :
              o[i] \in Interrupts(work) => i > 1 /\ o[i - 1] = Pred(work, o[i])
<1>1. o \in Seq(TurnsOf(work)) /\ Len(o) \in Nat /\ DOMAIN o = 1 .. Len(o)
  BY DEF Arranges
<1>2. \A i, j \in 1 .. Len(o) : o[i] = o[j] => i = j
  BY <1>1 DEF Arranges, IsInjective
<1>3. \A t \in TurnsOf(work) : \E i \in 1 .. Len(o) : o[i] = t
  BY <1>1 DEF Arranges, ToSet
<1>4. \A i \in 1 .. Len(o) : o[i] \in TurnsOf(work)
  BY <1>1
<1> QED BY <1>1, <1>2, <1>3, <1>4 DEF Arranges

\* What new facts may be added to `old' so that the first k turns of o stay:
\* new ordinary turns are accepted after the ordinary ones among them, new
\* interrupts target none of them but the last.
Extends(old, new, o, k) ==
  /\ TurnsOf(old) \subseteq TurnsOf(new)
  /\ \A t \in TurnsOf(old) : Pos(new, t) = Pos(old, t) /\ Pred(new, t) = Pred(old, t)
  /\ \A x \in TurnsOf(new) \ TurnsOf(old) :
       /\ x \in Roots(new) =>
            \A i \in 1 .. k : o[i] \in Roots(old) => Pos(old, o[i]) < Pos(new, x)
       /\ x \in Interrupts(new) => \A i \in 1 .. k - 1 : o[i] # Pred(new, x)

\* q starts with the first i turns of o.
Agree(o, q, i) == i <= Len(q) /\ \A j \in 1 .. i : q[j] = o[j]

(* New facts leave the first k turns of the order where they are, when     *)
(* they are ordinary turns accepted later than those or interrupts of the  *)
(* last of them: the core of why recorded lineage stays true.              *)
LEMMA PrefixStays ==
  ASSUME NEW old, NEW new, Wellformed(old), Wellformed(new), DistinctPositions(new),
         NEW o, NEW q, Arranges(old, o), Arranges(new, q),
         NEW k \in 0 .. Len(o), Extends(old, new, o, k)
  PROVE  Agree(o, q, k)
<1> DEFINE T == TurnsOf(old)
           U == TurnsOf(new)
<1>1. /\ o \in Seq(T) /\ Len(o) \in Nat
      /\ \A i \in 1 .. Len(o) : o[i] \in T
      /\ \A i, j \in 1 .. Len(o) : o[i] = o[j] => i = j
      /\ \A t \in T : \E i \in 1 .. Len(o) : o[i] = t
      /\ \A i, j \in 1 .. Len(o) :
           /\ o[i] \in Roots(old) /\ o[j] \in Roots(old)
           /\ Pos(old, o[i]) < Pos(old, o[j])
           => i < j
      /\ \A i \in 1 .. Len(o) :
           o[i] \in Interrupts(old) => i > 1 /\ o[i - 1] = Pred(old, o[i])
  BY ArrangedParts
<1>2. /\ q \in Seq(U) /\ Len(q) \in Nat
      /\ \A i \in 1 .. Len(q) : q[i] \in U
      /\ \A i, j \in 1 .. Len(q) : q[i] = q[j] => i = j
      /\ \A t \in U : \E i \in 1 .. Len(q) : q[i] = t
      /\ \A i, j \in 1 .. Len(q) :
           /\ q[i] \in Roots(new) /\ q[j] \in Roots(new)
           /\ Pos(new, q[i]) < Pos(new, q[j])
           => i < j
      /\ \A i \in 1 .. Len(q) :
           q[i] \in Interrupts(new) => i > 1 /\ q[i - 1] = Pred(new, q[i])
  BY ArrangedParts
<1>3. \A t \in T : /\ t \in U
                   /\ t \in Roots(new) <=> t \in Roots(old)
                   /\ t \in Interrupts(new) <=> t \in Interrupts(old)
                   /\ t \in Interrupts(old) <=> t \notin Roots(old)
  BY DEF Extends, Roots, Interrupts
<1>4. \A t \in U : (t \in Interrupts(new) <=> t \notin Roots(new)) /\ Pos(new, t) \in Nat
  BY FactShapes DEF Roots, Interrupts
<1> DEFINE S == {i \in Nat : i <= k => Agree(o, q, i)}
<1>5. 0 \in S
  BY <1>2 DEF Agree
<1>6. ASSUME NEW n \in Nat, n \in S PROVE n + 1 \in S
  <2> SUFFICES ASSUME n + 1 <= k PROVE Agree(o, q, n + 1)
    OBVIOUS
  <2> DEFINE i == n + 1
             t == o[i]
  <2>1. n <= Len(q) /\ \A j \in 1 .. n : q[j] = o[j]
    BY <1>6 DEF Agree
  <2>2. i \in 1 .. Len(o) /\ i \in 1 .. k /\ t \in T /\ t \in U
    BY <1>1, <1>3
  <2>3. PICK m \in 1 .. Len(q) : q[m] = t
    BY <1>2, <2>2
  <2>4. m > n
    <3> SUFFICES ASSUME m <= n PROVE FALSE
      OBVIOUS
    <3>1. m \in 1 .. n /\ m \in 1 .. Len(o) /\ m # i
      BY <2>2
    <3> QED BY <3>1, <2>1, <2>2, <2>3, <1>1
  <2>5. CASE t \in Interrupts(old)
    <3>1. i > 1 /\ o[i - 1] = Pred(old, t)
      BY <2>2, <2>5, <1>1
    <3>2. t \in Interrupts(new) /\ Pred(new, t) = Pred(old, t)
      BY <2>2, <2>5, <1>3 DEF Extends
    <3>3. m > 1 /\ q[m - 1] = Pred(old, t)
      BY <3>2, <2>3, <1>2
    <3>4. n \in 1 .. n /\ n \in 1 .. Len(q) /\ i - 1 = n /\ m - 1 \in 1 .. Len(q)
      BY <3>1, <3>3, <2>1, <1>2
    <3>5. q[n] = q[m - 1]
      BY <3>1, <3>3, <3>4, <2>1
    <3>6. m = i
      BY <3>4, <3>5, <1>2
    <3> QED BY <3>6, <2>1, <2>3, <1>2 DEF Agree
  <2>6. CASE t \in Roots(old)
    <3>0. m = i => Agree(o, q, i)
      BY <2>1, <2>3, <1>2 DEF Agree
    <3>1. SUFFICES ASSUME m # i PROVE FALSE
      BY <3>0
    <3>2. i < m /\ i \in 1 .. Len(q)
      BY <3>1, <2>4, <1>2
    <3> DEFINE y == q[i]
    <3>3. y \in U /\ y # t
      BY <3>1, <3>2, <2>3, <1>2
    <3>4. ASSUME NEW j \in 1 .. n PROVE y # o[j]
      <4>1. j \in 1 .. Len(q) /\ j # i /\ q[j] = o[j]
        BY <2>1, <1>2
      <4> QED BY <4>1, <3>2, <1>2
    <3>5. CASE y \in Interrupts(new)
      <4>0. i > 1 /\ q[i - 1] = Pred(new, y)
        BY <3>2, <3>5, <1>2
      <4>1. i > 1 /\ q[i - 1] = Pred(new, y) /\ i - 1 = n /\ n \in 1 .. n
        BY <4>0
      <4>2. o[n] = Pred(new, y)
        BY <4>1, <2>1
      <4>3. y \in T
        <5>1. n \in 1 .. k - 1
          BY <4>1
        <5> QED BY <5>1, <4>2, <3>3, <3>5 DEF Extends
      <4>4. PICK l \in 1 .. Len(o) : o[l] = y
        BY <4>3, <1>1
      <4>5. l > 1 /\ o[l - 1] = Pred(old, y) /\ Pred(old, y) = Pred(new, y)
        BY <4>3, <4>4, <3>5, <1>3, <1>1 DEF Extends
      <4>a. Len(o) \in Nat /\ i \in 1 .. Len(o) /\ i > 1 /\ l > 1
        BY <4>1, <4>5, <2>2, <1>1
      <4>6. l - 1 \in 1 .. Len(o) /\ n \in 1 .. Len(o)
        BY <4>a
      <4>7. l - 1 = n
        BY <4>2, <4>5, <4>6, <1>1
      <4>8. y = t
        BY <4>4, <4>7
      <4> QED BY <4>8, <3>3
    <3>6. CASE y \in Roots(new)
      <4>1. t \in Roots(new) /\ Pos(new, t) = Pos(old, t)
        BY <2>2, <2>6, <1>3 DEF Extends
      <4>2. Pos(new, y) \in Nat /\ Pos(new, t) \in Nat /\ Pos(new, y) # Pos(new, t)
        BY <3>3, <2>2, <1>4 DEF DistinctPositions
      <4>3. ~(Pos(new, t) < Pos(new, y))
        <5>1. q[m] \in Roots(new) /\ q[i] \in Roots(new) /\ ~(m < i)
          BY <4>1, <3>2, <3>6, <2>3
        <5>2. ~(Pos(new, q[m]) < Pos(new, q[i]))
          BY <5>1, <3>2, <1>2
        <5> QED BY <5>2, <2>3
      <4>4. Pos(new, y) < Pos(new, t)
        BY <4>2, <4>3
      <4>5. y \in T
        BY <4>1, <4>2, <4>4, <3>3, <3>6, <2>2, <2>6 DEF Extends
      <4>6. PICK l \in 1 .. Len(o) : o[l] = y
        BY <4>5, <1>1
      <4>7. y \in Roots(old) /\ Pos(new, y) = Pos(old, y)
        BY <4>5, <3>6, <1>3 DEF Extends
      <4>8. l < i
        BY <4>1, <4>4, <4>6, <4>7, <2>2, <2>6, <1>1
      <4>9. l \in 1 .. n
        BY <4>8
      <4> QED BY <4>6, <4>9, <3>4
    <3> QED BY <3>3, <3>5, <3>6, <1>4
  <2> QED BY <2>2, <2>5, <2>6, <1>3
<1> HIDE DEF S
<1>7. Nat \subseteq S
  BY <1>5, <1>6, Induction
<1> QED BY <1>1, <1>7 DEF S

(* There is only one arrangement of the same facts.                        *)
LEMMA OrderUnique ==
  ASSUME NEW work, Wellformed(work), DistinctPositions(work),
         NEW o, NEW q, Arranges(work, o), Arranges(work, q)
  PROVE  q = o
<1>1. /\ o \in Seq(TurnsOf(work)) /\ Len(o) \in Nat
      /\ q \in Seq(TurnsOf(work)) /\ Len(q) \in Nat
  BY ArrangedParts
<1>2. Len(o) \in 0 .. Len(o) /\ Len(q) \in 0 .. Len(q)
  BY <1>1
<1>3. Extends(work, work, o, Len(o)) /\ Extends(work, work, q, Len(q))
  BY DEF Extends
<1>4. Agree(o, q, Len(o)) /\ Agree(q, o, Len(q))
  BY <1>2, <1>3, PrefixStays
<1>5. Len(o) = Len(q) /\ \A j \in 1 .. Len(o) : q[j] = o[j]
  BY <1>1, <1>4 DEF Agree
<1> QED BY <1>1, <1>5

(* An ordinary turn was accepted no later than any turn it is ahead of.    *)
LEMMA RootsBelow ==
  ASSUME NEW work, Wellformed(work), DistinctPositions(work), Linked(work),
         NEW o, Arranges(work, o)
  PROVE  \A i \in 1 .. Len(o), j \in 1 .. Len(o) :
           j <= i /\ o[j] \in Roots(work) => Pos(work, o[j]) <= Pos(work, o[i])
<1> DEFINE T == TurnsOf(work)
<1>1. /\ o \in Seq(T) /\ Len(o) \in Nat
      /\ \A i \in 1 .. Len(o) : o[i] \in T
      /\ \A i, j \in 1 .. Len(o) : o[i] = o[j] => i = j
      /\ \A i, j \in 1 .. Len(o) :
           /\ o[i] \in Roots(work) /\ o[j] \in Roots(work)
           /\ Pos(work, o[i]) < Pos(work, o[j])
           => i < j
      /\ \A i \in 1 .. Len(o) :
           o[i] \in Interrupts(work) => i > 1 /\ o[i - 1] = Pred(work, o[i])
  BY ArrangedParts
<1>2. \A t \in T : (t \in Interrupts(work) <=> t \notin Roots(work)) /\ Pos(work, t) \in Nat
  BY FactShapes DEF Roots, Interrupts
<1> DEFINE S == {i \in Nat : i \in 1 .. Len(o) =>
                   \A j \in 1 .. i : o[j] \in Roots(work) => Pos(work, o[j]) <= Pos(work, o[i])}
<1>3. 0 \in S
  OBVIOUS
<1>4. ASSUME NEW n \in Nat, n \in S PROVE n + 1 \in S
  <2> SUFFICES ASSUME n + 1 \in 1 .. Len(o), NEW j \in 1 .. n + 1, o[j] \in Roots(work)
               PROVE  Pos(work, o[j]) <= Pos(work, o[n + 1])
    OBVIOUS
  <2>1. j \in 1 .. Len(o) /\ Pos(work, o[j]) \in Nat /\ Pos(work, o[n + 1]) \in Nat
    BY <1>1, <1>2
  <2>2. CASE o[n + 1] \in Roots(work)
    <3>1. ~(Pos(work, o[n + 1]) < Pos(work, o[j]))
      BY <2>1, <2>2, <1>1
    <3> QED BY <3>1, <2>1
  <2>3. CASE o[n + 1] \in Interrupts(work)
    <3>1. n + 1 > 1 /\ o[n] = Pred(work, o[n + 1])
      BY <2>3, <1>1
    <3>2. n \in 1 .. Len(o) /\ j # n + 1
      BY <3>1, <2>3, <1>1, <1>2
    <3>3. j \in 1 .. n
      BY <3>2
    <3>4. Pos(work, o[j]) <= Pos(work, o[n])
      BY <3>2, <3>3, <1>4
    <3>5. Pos(work, o[n]) < Pos(work, o[n + 1])
      BY <3>1, <2>3 DEF Linked
    <3>6. Pos(work, o[n]) \in Nat
      BY <3>2, <1>1, <1>2
    <3> QED BY <3>4, <3>5, <3>6, <2>1
  <2> QED BY <2>2, <2>3, <1>1, <1>2
<1> HIDE DEF S
<1>5. Nat \subseteq S
  BY <1>3, <1>4, Induction
<1> QED
  <2> SUFFICES ASSUME NEW i \in 1 .. Len(o), NEW j \in 1 .. Len(o), j <= i, o[j] \in Roots(work)
               PROVE  Pos(work, o[j]) <= Pos(work, o[i])
    OBVIOUS
  <2>1. i \in S /\ j \in 1 .. i
    BY <1>5, <1>1
  <2> QED BY <2>1 DEF S

(* The fact of a turn is one of the facts.                                 *)
LEMMA FactOfTurn ==
  ASSUME NEW work, NEW t \in TurnsOf(work)
  PROVE  \E i \in DOMAIN work : /\ work[i].turn = t
                                /\ Pos(work, t) = work[i].pos
                                /\ Pred(work, t) = work[i].pred
<1>1. \E i \in DOMAIN work : work[i].turn = t
  BY DEF TurnsOf
<1> DEFINE c == CHOOSE i \in DOMAIN work : work[i].turn = t
<1>2. c \in DOMAIN work /\ work[c].turn = t
  BY <1>1
<1>3. Fact(work, t) = work[c]
  BY DEF Fact
<1> QED BY <1>2, <1>3 DEF Pos, Pred

(* A finite set has more than one element exactly when two differ.         *)
LEMMA AtMostOne ==
  ASSUME NEW S, IsFiniteSet(S)
  PROVE  Cardinality(S) > 1 <=> \E x, y \in S : x # y
<1>1. Cardinality(S) \in Nat
  BY FS_CardinalityType
<1>2. ASSUME NEW x \in S, NEW y \in S, x # y PROVE Cardinality(S) > 1
  <2>1. IsFiniteSet({x}) /\ Cardinality({x}) = 1
    BY FS_Singleton
  <2>2. Cardinality({x}) <= Cardinality(S) /\ (Cardinality(S) = Cardinality({x}) => S = {x})
    BY FS_Subset
  <2> QED BY <2>1, <2>2, <1>1, <1>2
<1>3. ASSUME Cardinality(S) > 1, \A x, y \in S : x = y PROVE FALSE
  <2>1. CASE S = {}
    BY <2>1, <1>3, FS_EmptySet
  <2>2. CASE S # {}
    <3>1. PICK x \in S : S = {x}
      BY <2>2, <1>3
    <3>2. Cardinality(S) = 1
      BY <3>1, FS_Singleton
    <3> QED BY <3>2, <1>3
  <2> QED BY <2>1, <2>2
<1> QED BY <1>2, <1>3

(* The first three checks of the derivation refuse exactly the facts of    *)
(* several sessions and the facts that share a turn or a position.         *)
LEMMA OneFactChecked ==
  ASSUME NEW work, IsFiniteSet(DOMAIN work)
  PROVE  OneFactPerTurn(work)
           <=> /\ ~(Cardinality({work[i].session : i \in DOMAIN work}) > 1)
               /\ ~(Cardinality(TurnsOf(work)) < Cardinality(DOMAIN work))
               /\ ~(Cardinality(PositionsOf(work)) < Cardinality(DOMAIN work))
<1> DEFINE S == {work[i].session : i \in DOMAIN work}
           f == [i \in DOMAIN work |-> work[i].session]
<1>1. IsFiniteSet(S)
  <2>1. DOMAIN f = DOMAIN work /\ S = {f[i] : i \in DOMAIN f}
    OBVIOUS
  <2> HIDE DEF f
  <2> QED BY <2>1, ImageSize
<1>2. Cardinality(S) > 1 <=> \E i, j \in DOMAIN work : work[i].session # work[j].session
  <2>1. (\E x, y \in S : x # y)
          <=> \E i, j \in DOMAIN work : work[i].session # work[j].session
    OBVIOUS
  <2> HIDE DEF S
  <2> QED BY <1>1, <2>1, AtMostOne
<1>3. ~(Cardinality(TurnsOf(work)) < Cardinality(DOMAIN work))
        <=> \A i, j \in DOMAIN work : work[i].turn = work[j].turn => i = j
  <2>1. Cardinality(TurnsOf(work)) \in Nat /\ Cardinality(DOMAIN work) \in Nat
    BY TurnsSize, FS_CardinalityType
  <2> QED BY <2>1, TurnsSize
<1>4. ~(Cardinality(PositionsOf(work)) < Cardinality(DOMAIN work))
        <=> \A i, j \in DOMAIN work : work[i].pos = work[j].pos => i = j
  <2>1. Cardinality(PositionsOf(work)) \in Nat /\ Cardinality(DOMAIN work) \in Nat
    BY PositionsSize, FS_CardinalityType
  <2> QED BY <2>1, PositionsSize
<1> HIDE DEF S
<1>5. OneFactPerTurn(work)
        <=> /\ ~\E i, j \in DOMAIN work : work[i].session # work[j].session
            /\ \A i, j \in DOMAIN work : work[i].turn = work[j].turn => i = j
            /\ \A i, j \in DOMAIN work : work[i].pos = work[j].pos => i = j
  BY DEF OneFactPerTurn
<1> QED BY <1>2, <1>3, <1>4, <1>5 DEF S

(* Distinct positions of facts are distinct positions of turns.            *)
LEMMA OneFactDistinct ==
  ASSUME NEW work, OneFactPerTurn(work)
  PROVE  DistinctPositions(work)
<1> SUFFICES ASSUME NEW t \in TurnsOf(work), NEW u \in TurnsOf(work),
                    Pos(work, t) = Pos(work, u)
             PROVE  t = u
  BY DEF DistinctPositions
<1>1. PICK i \in DOMAIN work : work[i].turn = t /\ Pos(work, t) = work[i].pos
  BY FactOfTurn
<1>2. PICK j \in DOMAIN work : work[j].turn = u /\ Pos(work, u) = work[j].pos
  BY FactOfTurn
<1>3. work[i].pos = work[j].pos
  BY <1>1, <1>2
<1>4. \A m, n \in DOMAIN work : work[m].pos = work[n].pos => m = n
  BY DEF OneFactPerTurn
<1> QED BY <1>1, <1>2, <1>3, <1>4

\* Some interrupt was accepted before its target.
Late(work) == \E t \in Interrupts(work) : Pos(work, t) <= Pos(work, Pred(work, t))

(* The checks on interrupts refuse exactly the links that do not lead back *)
(* to an earlier turn nobody else interrupts.                              *)
LEMMA LinksChecked ==
  ASSUME NEW work, Wellformed(work)
  PROVE  Linked(work) <=> LinkErrors(work) = {} /\ ~Late(work)
<1>0. \A t \in Interrupts(work) : t \in TurnsOf(work) /\ t \in Nat /\ Pos(work, t) \in Nat
  BY FactShapes DEF Interrupts
<1>1. ASSUME Linked(work) PROVE LinkErrors(work) = {} /\ ~Late(work)
  <2>1. ASSUME NEW t \in Interrupts(work) PROVE LinkError(work, t) = "none"
    <3>1. /\ Pred(work, t) \in TurnsOf(work)
          /\ Pos(work, Pred(work, t)) < Pos(work, t)
          /\ \A u \in Interrupts(work) : Pred(work, u) = Pred(work, t) => u = t
      BY <1>1 DEF Linked
    <3>2. Pred(work, t) # t
      BY <3>1, <1>0
    <3>3. ~\E u \in Interrupts(work) : u < t /\ Pred(work, u) = Pred(work, t)
      BY <3>1, <1>0
    <3> QED BY <3>1, <3>2, <3>3 DEF LinkError
  <2>2. ~Late(work)
    <3> SUFFICES ASSUME NEW t \in Interrupts(work), Pos(work, t) <= Pos(work, Pred(work, t))
                 PROVE  FALSE
      BY DEF Late
    <3>1. Pred(work, t) \in TurnsOf(work) /\ Pos(work, Pred(work, t)) < Pos(work, t)
      BY <1>1 DEF Linked
    <3>2. Pos(work, Pred(work, t)) \in Nat /\ Pos(work, t) \in Nat
      BY <3>1, <1>0, FactShapes
    <3> QED BY <3>1, <3>2
  <2> QED BY <2>1, <2>2 DEF LinkErrors
<1>2. ASSUME LinkErrors(work) = {}, ~Late(work) PROVE Linked(work)
  <2>1. ASSUME NEW t \in Interrupts(work)
        PROVE  /\ Pred(work, t) \in TurnsOf(work)
               /\ ~\E u \in Interrupts(work) : u < t /\ Pred(work, u) = Pred(work, t)
    <3>1. LinkError(work, t) = "none"
      BY <1>2 DEF LinkErrors
    <3> QED BY <3>1 DEF LinkError
  <2>2. ASSUME NEW t \in Interrupts(work) PROVE Pos(work, Pred(work, t)) < Pos(work, t)
    <3>1. Pos(work, Pred(work, t)) \in Nat /\ Pos(work, t) \in Nat
      BY <2>1, <1>0, FactShapes
    <3> QED BY <3>1, <1>2 DEF Late
  <2>3. ASSUME NEW t \in Interrupts(work), NEW u \in Interrupts(work),
               Pred(work, u) = Pred(work, t)
        PROVE  u = t
    <3>1. ~(u < t) /\ ~(t < u)
      BY <2>1, <2>3
    <3> QED BY <3>1, <1>0
  <2> QED BY <2>1, <2>2, <2>3 DEF Linked
<1> QED BY <1>1, <1>2

\* Targets are in chronological order when every two are, not only the
\* neighbours that the code compares.
TargetsAscend(work, o) ==
  \A t, u \in Interrupts(work) :
    Pos(work, u) < Pos(work, t) => IndexIn(o, Pred(work, u)) < IndexIn(o, Pred(work, t))

(* Comparing each interrupt with the one accepted just before it, as the   *)
(* code does, compares every two of them.                                  *)
LEMMA ChronologyPairs ==
  ASSUME NEW work, Wellformed(work), NEW o,
         \A t \in Interrupts(work) : IndexIn(o, Pred(work, t)) \in Nat
  PROVE  ~ChronologyReversed(work, o) <=> TargetsAscend(work, o)
<1>0. \A t \in Interrupts(work) : Pos(work, t) \in Nat
  BY FactShapes DEF Interrupts
<1> DEFINE I(t) == IndexIn(o, Pred(work, t))
           P(t) == Pos(work, t)
<1>1. ASSUME TargetsAscend(work, o), ChronologyReversed(work, o) PROVE FALSE
  <2>1. PICK t \in Interrupts(work), u \in Interrupts(work) : P(u) < P(t) /\ I(t) <= I(u)
    BY <1>1 DEF ChronologyReversed
  <2>2. I(u) < I(t)
    BY <2>1, <1>1 DEF TargetsAscend
  <2>3. I(u) \in Nat /\ I(t) \in Nat
    OBVIOUS
  <2> HIDE DEF I
  <2> QED BY <2>1, <2>2, <2>3
<1>2. ASSUME ~TargetsAscend(work, o) PROVE ChronologyReversed(work, o)
  <2> DEFINE D == {d \in Nat : \E t, u \in Interrupts(work) :
                                 P(u) < P(t) /\ I(t) <= I(u) /\ d = P(t) - P(u)}
  <2>1. PICK t0 \in Interrupts(work), u0 \in Interrupts(work) : P(u0) < P(t0) /\ ~(I(u0) < I(t0))
    BY <1>2 DEF TargetsAscend
  <2>2. I(u0) \in Nat /\ I(t0) \in Nat /\ P(t0) \in Nat /\ P(u0) \in Nat
    BY <1>0
  <2>3. I(t0) <= I(u0) /\ P(t0) - P(u0) \in Nat
    <3> HIDE DEF I, P
    <3> QED BY <2>1, <2>2
  <2>4. P(t0) - P(u0) \in D
    BY <2>1, <2>3
  <2>5. PICK d \in D : \A e \in D : d <= e
    <3>1. D \in SUBSET Nat /\ D # {}
      BY <2>4
    <3> HIDE DEF D
    <3> QED BY <3>1, Least
  <2>6. PICK t \in Interrupts(work), u \in Interrupts(work) :
          P(u) < P(t) /\ I(t) <= I(u) /\ d = P(t) - P(u)
    OBVIOUS
  <2>7. I(u) \in Nat /\ I(t) \in Nat /\ P(t) \in Nat /\ P(u) \in Nat
    BY <1>0
  <2>8. ASSUME NEW v \in Interrupts(work), P(u) < P(v), P(v) < P(t) PROVE FALSE
    <3>1. I(v) \in Nat /\ P(v) \in Nat
      BY <1>0
    <3>2. CASE I(v) <= I(u)
      <4>1. P(v) - P(u) \in Nat /\ P(v) - P(u) < d
        <5> HIDE DEF I, P, D
        <5> QED BY <2>6, <2>7, <2>8, <3>1
      <4>2. P(v) - P(u) \in D
        BY <3>2, <2>8, <4>1
      <4>3. d <= P(v) - P(u)
        BY <4>2, <2>5
      <4>4. d \in Nat
        OBVIOUS
      <4> HIDE DEF I, P, D
      <4> QED BY <4>1, <4>3, <4>4
    <3>3. CASE I(u) < I(v)
      <4>1. P(t) - P(v) \in Nat /\ P(t) - P(v) < d /\ I(t) <= I(v)
        <5> HIDE DEF I, P, D
        <5> QED BY <2>6, <2>7, <2>8, <3>1, <3>3
      <4>2. P(t) - P(v) \in D
        BY <2>8, <4>1
      <4>3. d <= P(t) - P(v)
        BY <4>2, <2>5
      <4>4. d \in Nat
        OBVIOUS
      <4> HIDE DEF I, P, D
      <4> QED BY <4>1, <4>3, <4>4
    <3> QED
      <4> HIDE DEF I, P, D
      <4> QED BY <3>1, <3>2, <3>3, <2>7
  <2> QED BY <2>6, <2>8 DEF ChronologyReversed
<1> QED BY <1>1, <1>2

(* In an arrangement every turn has one index.                             *)
LEMMA TargetIndex ==
  ASSUME NEW work, NEW o, Arranges(work, o), NEW i \in 1 .. Len(o)
  PROVE  IndexIn(o, o[i]) = i
<1>1. DOMAIN o = 1 .. Len(o) /\ \A m, n \in 1 .. Len(o) : o[m] = o[n] => m = n
  BY ArrangedParts
<1>2. \E m \in DOMAIN o : o[m] = o[i]
  BY <1>1
<1>3. IndexIn(o, o[i]) \in 1 .. Len(o) /\ o[IndexIn(o, o[i])] = o[i]
  BY <1>1, <1>2 DEF IndexIn
<1> QED BY <1>1, <1>3

(* In an arrangement interrupts are in chronological order exactly when    *)
(* their targets are.                                                      *)
LEMMA InterruptsAscend ==
  ASSUME NEW work, Wellformed(work), Linked(work), NEW o, Arranges(work, o)
  PROVE  /\ \A t \in Interrupts(work) : IndexIn(o, Pred(work, t)) \in Nat
         /\ TargetsAscend(work, o)
              <=> \A i, j \in DOMAIN o :
                    /\ o[i] \in Interrupts(work) /\ o[j] \in Interrupts(work)
                    /\ Pos(work, o[i]) < Pos(work, o[j])
                    => i < j
<1>1. /\ Len(o) \in Nat /\ DOMAIN o = 1 .. Len(o)
      /\ \A t \in TurnsOf(work) : \E i \in 1 .. Len(o) : o[i] = t
      /\ \A i \in 1 .. Len(o) :
           o[i] \in Interrupts(work) => i > 1 /\ o[i - 1] = Pred(work, o[i])
  BY ArrangedParts
<1>2. ASSUME NEW i \in 1 .. Len(o), o[i] \in Interrupts(work)
      PROVE  IndexIn(o, Pred(work, o[i])) = i - 1 /\ i - 1 \in Nat
  <2>1. i > 1 /\ o[i - 1] = Pred(work, o[i])
    BY <1>1, <1>2
  <2>2. i - 1 \in 1 .. Len(o)
    BY <1>1, <2>1
  <2>3. IndexIn(o, o[i - 1]) = i - 1
    BY <2>2, TargetIndex
  <2> QED BY <2>1, <2>2, <2>3
<1>3. \A t \in Interrupts(work) : \E i \in 1 .. Len(o) : o[i] = t
  BY <1>1 DEF Interrupts
<1>4. \A t \in Interrupts(work) : IndexIn(o, Pred(work, t)) \in Nat
  BY <1>2, <1>3
<1>5. ASSUME TargetsAscend(work, o), NEW i \in DOMAIN o, NEW j \in DOMAIN o,
             o[i] \in Interrupts(work), o[j] \in Interrupts(work),
             Pos(work, o[i]) < Pos(work, o[j])
      PROVE  i < j
  <2>1. IndexIn(o, Pred(work, o[i])) < IndexIn(o, Pred(work, o[j]))
    BY <1>5 DEF TargetsAscend
  <2>2. IndexIn(o, Pred(work, o[i])) = i - 1 /\ IndexIn(o, Pred(work, o[j])) = j - 1
    BY <1>1, <1>2, <1>5
  <2> QED BY <1>1, <2>1, <2>2
<1>6. ASSUME \A i, j \in DOMAIN o :
                    /\ o[i] \in Interrupts(work) /\ o[j] \in Interrupts(work)
                    /\ Pos(work, o[i]) < Pos(work, o[j])
                    => i < j
      PROVE  TargetsAscend(work, o)
  <2> SUFFICES ASSUME NEW t \in Interrupts(work), NEW u \in Interrupts(work),
                      Pos(work, u) < Pos(work, t)
               PROVE  IndexIn(o, Pred(work, u)) < IndexIn(o, Pred(work, t))
    BY DEF TargetsAscend
  <2>1. PICK i \in 1 .. Len(o), j \in 1 .. Len(o) : o[i] = u /\ o[j] = t
    BY <1>3
  <2>2. i < j
    BY <1>1, <1>6, <2>1
  <2>3. IndexIn(o, Pred(work, u)) = i - 1 /\ IndexIn(o, Pred(work, t)) = j - 1
    BY <1>2, <2>1
  <2> QED BY <2>2, <2>3
<1> QED BY <1>4, <1>5, <1>6

(* An arrangement leaves no interrupt without a target of its own.         *)
LEMMA ArrangedLinks ==
  ASSUME NEW work, Wellformed(work), NEW o, Arranges(work, o),
         \A t \in Interrupts(work) : Pos(work, Pred(work, t)) < Pos(work, t)
  PROVE  Linked(work)
<1>1. /\ Len(o) \in Nat
      /\ \A i \in 1 .. Len(o) : o[i] \in TurnsOf(work)
      /\ \A i, j \in 1 .. Len(o) : o[i] = o[j] => i = j
      /\ \A t \in TurnsOf(work) : \E i \in 1 .. Len(o) : o[i] = t
      /\ \A i \in 1 .. Len(o) :
           o[i] \in Interrupts(work) => i > 1 /\ o[i - 1] = Pred(work, o[i])
  BY ArrangedParts
<1>2. ASSUME NEW t \in Interrupts(work)
      PROVE  \E i \in 1 .. Len(o) : o[i] = t /\ i - 1 \in 1 .. Len(o) /\ o[i - 1] = Pred(work, t)
  <2>1. PICK i \in 1 .. Len(o) : o[i] = t
    BY <1>1 DEF Interrupts
  <2>2. i > 1 /\ o[i - 1] = Pred(work, t)
    BY <1>1, <2>1
  <2>3. i - 1 \in 1 .. Len(o)
    BY <1>1, <2>2
  <2> QED BY <2>1, <2>2, <2>3
<1>3. \A t \in Interrupts(work) : Pred(work, t) \in TurnsOf(work)
  BY <1>1, <1>2
<1>4. ASSUME NEW t \in Interrupts(work), NEW u \in Interrupts(work),
             Pred(work, u) = Pred(work, t)
      PROVE  u = t
  <2>1. PICK i \in 1 .. Len(o) : o[i] = t /\ i - 1 \in 1 .. Len(o) /\ o[i - 1] = Pred(work, t)
    BY <1>2
  <2>2. PICK j \in 1 .. Len(o) : o[j] = u /\ j - 1 \in 1 .. Len(o) /\ o[j - 1] = Pred(work, u)
    BY <1>2
  <2>3. i - 1 = j - 1
    BY <1>1, <1>4, <2>1, <2>2
  <2>4. i = j
    BY <2>3
  <2> QED BY <2>1, <2>2, <2>4
<1> QED BY <1>3, <1>4 DEF Linked

(* What derive_accepted_input_total_order accepts, and that it returns no  *)
(* order with an error.                                                    *)
LEMMA DeriveAccepts ==
  ASSUME NEW work, Wellformed(work)
  PROVE  LET good == /\ OneFactPerTurn(work)
                     /\ Linked(work)
                     /\ ~ChronologyReversed(work, Ordered(work))
         IN  /\ good => Derive(work) = [error |-> "none", order |-> Ordered(work)]
             /\ ~good => Derive(work).error # "none" /\ Derive(work).order = << >>
<1> DEFINE n  == Cardinality(DOMAIN work)
           o  == Ordered(work)
           C1 == Cardinality({work[i].session : i \in DOMAIN work}) > 1
           C2 == Cardinality(TurnsOf(work)) < n
           C3 == Cardinality(PositionsOf(work)) < n
           C4 == LinkErrors(work) # {}
           C5 == Len(o) # n
           C6 == Late(work)
           C7 == ChronologyReversed(work, o)
           E4 == LinkError(work, Min(LinkErrors(work)))
<1>1. OneFactPerTurn(work) <=> ~C1 /\ ~C2 /\ ~C3
  BY OneFactChecked DEF Wellformed
<1>2. Linked(work) <=> ~C4 /\ ~C6
  BY LinksChecked
<1>3. OneFactPerTurn(work) /\ Linked(work) => ~C5
  <2> SUFFICES ASSUME OneFactPerTurn(work), Linked(work) PROVE Len(o) = n
    OBVIOUS
  <2>1. DistinctPositions(work)
    BY OneFactDistinct
  <2>2. Len(o) = Cardinality(TurnsOf(work))
    BY <2>1, OrderedCovers
  <2>3. Cardinality(TurnsOf(work)) = n
    BY TurnsSize DEF OneFactPerTurn, Wellformed
  <2> QED BY <2>2, <2>3
<1>4. C4 => E4 # "none"
  <2> SUFFICES ASSUME LinkErrors(work) # {} PROVE E4 # "none"
    OBVIOUS
  <2>1. LinkErrors(work) \in SUBSET Nat
    BY FactShapes DEF LinkErrors, Interrupts
  <2>2. \E m \in LinkErrors(work) : \A k \in LinkErrors(work) : m <= k
    BY <2>1, Least
  <2>3. Min(LinkErrors(work)) \in LinkErrors(work)
    BY <2>2 DEF Min
  <2> QED BY <2>3 DEF LinkErrors
<1>5. Derive(work) =
        IF C1 THEN Failure("MixedSessions")
        ELSE IF C2 THEN Failure("DuplicateTurn")
        ELSE IF C3 THEN Failure("DuplicateAcceptancePosition")
        ELSE IF C4 THEN Failure(E4)
        ELSE IF C5 THEN Failure("InterruptCycle")
        ELSE IF C6 THEN Failure("InterruptPositionNotAfterPredecessor")
        ELSE IF C7 THEN Failure("InterruptPredecessorChronologyReversed")
        ELSE [error |-> "none", order |-> o]
  BY DEF Derive, Late
<1> HIDE DEF C1, C2, C3, C4, C5, C6, C7, E4, o, n
<1>6. ASSUME OneFactPerTurn(work), Linked(work), ~C7
      PROVE  Derive(work) = [error |-> "none", order |-> o]
  BY <1>1, <1>2, <1>3, <1>5, <1>6
<1>7. ASSUME ~(OneFactPerTurn(work) /\ Linked(work) /\ ~C7)
      PROVE  \E kind : kind # "none" /\ Derive(work) = Failure(kind)
  <2>1. C1 \/ C2 \/ C3 \/ C4 \/ C6 \/ C7
    BY <1>1, <1>2, <1>7
  <2> QED BY <1>4, <1>5, <2>1
<1>8. ASSUME ~(OneFactPerTurn(work) /\ Linked(work) /\ ~C7)
      PROVE  Derive(work).error # "none" /\ Derive(work).order = << >>
  <2>1. PICK kind : kind # "none" /\ Derive(work) = Failure(kind)
    BY <1>7, <1>8
  <2> QED BY <2>1 DEF Failure
<1> QED BY <1>6, <1>8 DEF C7, o

(* One more fact leaves the other turns in the order they were in: without *)
(* the new turn, the new order arranges the old facts.                     *)
LEMMA OneMoreTurn ==
  ASSUME NEW old, NEW new, Wellformed(old), DistinctPositions(old), Linked(old),
         NEW x, x \in TurnsOf(new), x \notin TurnsOf(old),
         TurnsOf(old) \subseteq TurnsOf(new),
         \A t \in TurnsOf(new) : t \in TurnsOf(old) \/ t = x,
         \A t \in TurnsOf(old) : Pos(new, t) = Pos(old, t) /\ Pred(new, t) = Pred(old, t),
         NEW o, NEW q, Arranges(old, o), Arranges(new, q)
  PROVE  \A i, j \in 1 .. Len(o), a, b \in 1 .. Len(q) :
           i < j /\ q[a] = o[i] /\ q[b] = o[j] => a < b
<1> DEFINE T == TurnsOf(old)
<1>1. /\ Len(q) \in Nat
      /\ \A i \in 1 .. Len(q) : q[i] \in T \cup {x}
      /\ \A i, j \in 1 .. Len(q) : q[i] = q[j] => i = j
      /\ \A t \in T \cup {x} : \E i \in 1 .. Len(q) : q[i] = t
      /\ \A i, j \in 1 .. Len(q) :
           /\ q[i] \in Roots(new) /\ q[j] \in Roots(new)
           /\ Pos(new, q[i]) < Pos(new, q[j])
           => i < j
      /\ \A i \in 1 .. Len(q) :
           q[i] \in Interrupts(new) => i > 1 /\ q[i - 1] = Pred(new, q[i])
  <2>1. /\ Len(q) \in Nat
        /\ \A i \in 1 .. Len(q) : q[i] \in TurnsOf(new)
        /\ \A i, j \in 1 .. Len(q) : q[i] = q[j] => i = j
        /\ \A t \in TurnsOf(new) : \E i \in 1 .. Len(q) : q[i] = t
    BY ArrangedParts
  <2>2. /\ \A i, j \in 1 .. Len(q) :
             /\ q[i] \in Roots(new) /\ q[j] \in Roots(new)
             /\ Pos(new, q[i]) < Pos(new, q[j])
             => i < j
        /\ \A i \in 1 .. Len(q) :
             q[i] \in Interrupts(new) => i > 1 /\ q[i - 1] = Pred(new, q[i])
    BY ArrangedParts
  <2> QED BY <2>1, <2>2
<1>2. PICK m \in 1 .. Len(q) : q[m] = x
  BY <1>1
<1>3. \A t \in T : /\ t \in Roots(old) <=> t \in Roots(new)
                   /\ t \in Interrupts(old) <=> t \in Interrupts(new)
                   /\ Pos(new, t) = Pos(old, t) /\ Pred(new, t) = Pred(old, t)
  BY DEF Roots, Interrupts
<1> DEFINE N    == Len(q) - 1
           s(i) == IF i < m THEN i ELSE i + 1
           r    == [i \in 1 .. N |-> q[s(i)]]
<1>4. N \in Nat /\ r \in [1 .. N -> T]
  <2>1. N \in Nat
    BY <1>1, <1>2
  <2>2. ASSUME NEW i \in 1 .. N PROVE q[s(i)] \in T
    <3>1. s(i) \in 1 .. Len(q) /\ s(i) # m
      BY <1>1, <1>2
    <3> QED BY <3>1, <1>1, <1>2
  <2> QED BY <2>1, <2>2
<1>5. r \in Seq(T) /\ Len(r) = N /\ DOMAIN r = 1 .. N
  <2> HIDE DEF r, N
  <2> QED BY <1>4
<1>6. \A i \in 1 .. N : r[i] = q[s(i)] /\ s(i) \in 1 .. Len(q) /\ r[i] \in T
  BY <1>1, <1>2, <1>4
<1>7. \A i, j \in 1 .. N : s(i) < s(j) <=> i < j
  BY <1>1, <1>2
<1> HIDE DEF r
<1>8. IsInjective(r)
  <2> SUFFICES ASSUME NEW i \in 1 .. N, NEW j \in 1 .. N, r[i] = r[j] PROVE i = j
    BY <1>5 DEF IsInjective
  <2>1. /\ s(i) \in 1 .. Len(q) /\ s(j) \in 1 .. Len(q)
        /\ q[s(i)] = q[s(j)]
    BY <1>6
  <2> HIDE DEF s
  <2>2. s(i) = s(j)
    BY <2>1, <1>1
  <2>3. ~(s(i) < s(j)) /\ ~(s(j) < s(i))
    BY <2>1, <2>2
  <2>4. i \in Int /\ j \in Int /\ ~(i < j) /\ ~(j < i)
    BY <2>3, <1>4, <1>7
  <2> QED BY <2>4
<1>9. ToSet(r) = T
  <2>1. ASSUME NEW t \in T PROVE \E i \in 1 .. N : r[i] = t
    <3>1. PICK a \in 1 .. Len(q) : q[a] = t
      BY <1>1
    <3>2. a # m
      BY <3>1, <1>2
    <3>3. CASE a < m
      <4>1. a \in 1 .. N /\ s(a) = a
        BY <3>3, <1>1, <1>2
      <4> QED BY <4>1, <3>1, <1>6
    <3>4. CASE a > m
      <4>1. a - 1 \in 1 .. N /\ s(a - 1) = a
        BY <3>4, <1>1, <1>2
      <4> QED BY <4>1, <3>1, <1>6
    <3> QED BY <3>2, <3>3, <3>4
  <2> QED BY <2>1, <1>5, <1>6 DEF ToSet
<1>10. ASSUME NEW i \in 1 .. N, NEW j \in 1 .. N, r[i] \in Roots(old), r[j] \in Roots(old),
              Pos(old, r[i]) < Pos(old, r[j])
       PROVE  i < j
  <2>1. r[i] \in T /\ r[j] \in T /\ r[i] = q[s(i)] /\ r[j] = q[s(j)]
        /\ s(i) \in 1 .. Len(q) /\ s(j) \in 1 .. Len(q)
    BY <1>6
  <2>2. r[i] \in Roots(new) /\ r[j] \in Roots(new) /\ Pos(new, r[i]) < Pos(new, r[j])
    BY <2>1, <1>3, <1>10
  <2>3. s(i) < s(j)
    BY <2>1, <2>2, <1>1
  <2> QED BY <2>3, <1>7
<1>11. ASSUME NEW i \in 1 .. N, r[i] \in Interrupts(old)
       PROVE  i > 1 /\ r[i - 1] = Pred(old, r[i])
  <2>1. r[i] \in T /\ r[i] = q[s(i)] /\ s(i) \in 1 .. Len(q)
    BY <1>6
  <2>2. q[s(i)] \in Interrupts(new) /\ Pred(new, r[i]) = Pred(old, r[i])
    BY <2>1, <1>3, <1>11
  <2>3. s(i) > 1 /\ q[s(i) - 1] = Pred(old, r[i])
    BY <2>1, <2>2, <1>1
  <2>4. q[s(i) - 1] \in T
    BY <2>3, <1>11 DEF Linked
  <2>5. s(i) - 1 # m
    BY <2>4, <1>2
  <2>6. i > 1 /\ i - 1 \in 1 .. N /\ s(i - 1) = s(i) - 1
    BY <2>3, <2>5, <1>2, <1>4
  <2>7. r[i - 1] = q[s(i - 1)]
    BY <2>6, <1>6
  <2> QED BY <2>3, <2>6, <2>7
<1>12. Arranges(old, r)
  BY <1>5, <1>8, <1>9, <1>10, <1>11 DEF Arranges
<1>13. r = o
  BY <1>12, OrderUnique
<1> QED
  <2> SUFFICES ASSUME NEW i \in 1 .. Len(o), NEW j \in 1 .. Len(o),
                      NEW a \in 1 .. Len(q), NEW b \in 1 .. Len(q),
                      i < j, q[a] = o[i], q[b] = o[j]
               PROVE  a < b
    OBVIOUS
  <2>1. i \in 1 .. N /\ j \in 1 .. N
    BY <1>5, <1>13
  <2>2. q[a] = q[s(i)] /\ q[b] = q[s(j)] /\ s(i) \in 1 .. Len(q) /\ s(j) \in 1 .. Len(q)
    BY <2>1, <1>6, <1>13
  <2>3. a = s(i) /\ b = s(j)
    BY <2>2, <1>1
  <2>4. s(i) < s(j)
    BY <2>1, <1>7
  <2> QED BY <2>3, <2>4

(* derive_accepted_input_total_order returns an order exactly when some    *)
(* order respects the facts, and then the only one that does, for any      *)
(* number of facts: ordinary turns by position, every interrupt immediately *)
(* after its target, interrupts and targets in acceptance order.           *)
THEOREM DeriveFindsTheOrder ==
  ASSUME NEW work, Wellformed(work), NEW o
  PROVE  IsTheOrder(work, o) <=> Derive(work) = [error |-> "none", order |-> o]
<1> DEFINE q    == Ordered(work)
           good == /\ OneFactPerTurn(work)
                   /\ Linked(work)
                   /\ ~ChronologyReversed(work, q)
<1>1. /\ good => Derive(work) = [error |-> "none", order |-> q]
      /\ ~good => Derive(work).error # "none"
  BY DeriveAccepts
<1>2. ASSUME OneFactPerTurn(work), Linked(work)
      PROVE  /\ Arranges(work, q)
             /\ ~ChronologyReversed(work, q)
                  <=> \A i, j \in DOMAIN q :
                        /\ q[i] \in Interrupts(work) /\ q[j] \in Interrupts(work)
                        /\ Pos(work, q[i]) < Pos(work, q[j])
                        => i < j
  <2>1. DistinctPositions(work)
    BY <1>2, OneFactDistinct
  <2>2. Arranges(work, q)
    BY <1>2, <2>1, OrderedArranges
  <2> HIDE DEF q
  <2> QED BY <1>2, <2>2, InterruptsAscend, ChronologyPairs
<1>3. ASSUME IsTheOrder(work, o) PROVE Derive(work) = [error |-> "none", order |-> o]
  <2>1. OneFactPerTurn(work) /\ Arranges(work, o)
    BY <1>3 DEF IsTheOrder
  <2>2. Linked(work)
    BY <1>3, <2>1, ArrangedLinks DEF IsTheOrder
  <2>3. DistinctPositions(work)
    BY <2>1, OneFactDistinct
  <2>4. q = o
    BY <1>2, <2>1, <2>2, <2>3, OrderUnique
  <2>5. ~ChronologyReversed(work, q)
    BY <1>2, <1>3, <2>1, <2>2, <2>4 DEF IsTheOrder
  <2> QED BY <1>1, <2>1, <2>2, <2>4, <2>5
<1>4. ASSUME Derive(work) = [error |-> "none", order |-> o] PROVE IsTheOrder(work, o)
  <2>1. good
    BY <1>1, <1>4
  <2>2. o = q
    <3>1. [error |-> "none", order |-> o] = [error |-> "none", order |-> q]
      BY <1>1, <1>4, <2>1
    <3>2. [error |-> "none", order |-> o].order = o /\ [error |-> "none", order |-> q].order = q
      OBVIOUS
    <3> HIDE DEF q
    <3> QED BY <3>1, <3>2
  <2>3. \A t \in Interrupts(work) : Pos(work, Pred(work, t)) < Pos(work, t)
    BY <2>1 DEF Linked
  <2> QED BY <1>2, <2>1, <2>2, <2>3 DEF IsTheOrder
<1> QED BY <1>3, <1>4
=============================================================================
