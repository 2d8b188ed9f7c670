---------------------------- MODULE KernelProofs ----------------------------
(***************************************************************************)
(* What the operators of Kernel preserve and return, for every number of   *)
(* tasks and wait lists: first the lists, then the scheduling decisions,   *)
(* then the operations built from both.                                    *)
(***************************************************************************)
EXTENDS Kernel, FiniteSetTheorems, SequenceTheorems, WellFoundedInduction, TLAPS

(* sched_start has chosen a first task.                                    *)
HasThreads(K) == K.g_current_task \in Thread /\ K.g_next_task \in Thread

OnlyNext(K) == \A t \in Thread : K.state[t] = "RUNNING" => t = K.g_next_task

IdleAlive(K) == K.state[IdleTask] \in {"READY", "RUNNING"}

NextMostUrgent(K) ==
    K.state[K.g_next_task] = "RUNNING" =>
        \A t \in Ready(K) \ K.late :
            /\ K.g_next_task # IdleTask
            /\ K.priority[K.g_next_task] <= K.priority[t]

(* What every decision needs, and what holds again after it.               *)
KernelCore(K) == KernelTypeOK(K) /\ HasThreads(K) /\ OnlyNext(K) /\ IdleAlive(K)

KernelInv(K) ==
    /\ KernelCore(K)
    /\ K.state[K.g_next_task] # "BLOCKED"
    /\ NextMostUrgent(K)

(* A decision changes nothing that a wait depends on.                      *)
SameWaits(K, R) ==
    /\ R.priority = K.priority
    /\ R.delay_ticks = K.delay_ticks
    /\ R.wait_list_head = K.wait_list_head
    /\ R.timed_out = K.timed_out
    /\ R.waiters = K.waiters
    /\ R.s_task_count = K.s_task_count
    /\ R.g_current_task = K.g_current_task
    /\ \A t \in Thread : R.state[t] = "BLOCKED" <=> K.state[t] = "BLOCKED"

(* No task twice; most urgent first.                                       *)
Once(s) == \A i, j \in DOMAIN s : s[i] = s[j] => i = j
Sorted(s, p) == \A i, j \in DOMAIN s : i < j => p[s[i]] <= p[s[j]]

(* r is s with some members left out.                                      *)
SubList(r, s) ==
    \E f \in [DOMAIN r -> DOMAIN s] :
        /\ \A i, j \in DOMAIN r : i < j => f[i] < f[j]
        /\ \A i \in DOMAIN r : r[i] = s[f[i]]
-----------------------------------------------------------------------------
(* A set of natural numbers that is not empty has a least member.          *)
LEMMA LeastNat ==
    ASSUME NEW S \in SUBSET Nat, S # {}
    PROVE  \E m \in S : \A n \in S : m <= n
<1>1. PICK m \in S : \A n \in S : <<n, m>> \notin OpToRel(<, Nat)
  BY NatLessThanWellFounded, WFMin
<1>2. \A n \in S : ~(n < m)
  BY <1>1 DEF OpToRel
<1> QED
  BY <1>2

(* The remainder is the only number below M that differs from x by a       *)
(* multiple of M, and so multiples do not change it.                       *)
LEMMA ModUnique ==
    ASSUME NEW M \in Nat, M > 0, NEW x \in Int, NEW q \in Int, NEW r \in 0 .. M - 1, x = q * M + r
    PROVE  x % M = r
<1> DEFINE d == x \div M
           m == x % M
<1>1. d \in Int /\ m \in 0 .. M - 1 /\ x = M * d + m
  OBVIOUS
<1> HIDE DEF d, m
<1>2. CASE d = q
  <2>1. M * d = q * M /\ q * M \in Int
    BY <1>2
  <2>2. m = r
    BY <1>1, <2>1
  <2> QED BY <2>2 DEF m
<1>3. CASE d > q
  <2>1. PICK e \in Nat : d = q + 1 + e
    BY <1>1, <1>3
  <2>2. M * d = q * M + M + M * e /\ M * e \in Nat /\ q * M \in Int
    BY <2>1
  <2> QED BY <1>1, <2>2
<1>4. CASE d < q
  <2>1. PICK e \in Nat : q = d + 1 + e
    BY <1>1, <1>4
  <2>2. q * M = M * d + M + M * e /\ M * e \in Nat /\ M * d \in Int
    BY <1>1, <2>1
  <2> QED BY <1>1, <2>2
<1> QED BY <1>1, <1>2, <1>3, <1>4 DEF m

(* Multiples of the modulus do not change the remainder.                   *)
LEMMA ModShift ==
    ASSUME NEW M \in Nat, M > 0, NEW x \in Int, NEW q \in Int
    PROVE  (x + q * M) % M = x % M
<1> DEFINE d == x \div M
           m == x % M
<1>1. d \in Int /\ m \in 0 .. M - 1 /\ x = M * d + m
  OBVIOUS
<1> HIDE DEF d, m
<1>2. x + q * M = (d + q) * M + m /\ d + q \in Int /\ x + q * M \in Int
  BY <1>1
<1>3. (x + q * M) % M = m
  BY <1>1, <1>2, ModUnique
<1> QED BY <1>3 DEF m

(* Reducing before or after adding is the same.                            *)
LEMMA SumWraps ==
    ASSUME NEW M \in Nat, M > 0, NEW x \in Int, NEW a \in Int
    PROVE  ((x % M) + a) % M = (x + a) % M
<1> DEFINE d == x \div M
           m == x % M
<1>1. d \in Int /\ m \in 0 .. M - 1 /\ x = M * d + m
  OBVIOUS
<1> HIDE DEF d, m
<1> DEFINE y == m + a
<1>2. x + a = y + d * M /\ y \in Int
  BY <1>1
<1> HIDE DEF y
<1>3. (y + d * M) % M = y % M
  BY <1>1, <1>2, ModShift
<1> QED BY <1>2, <1>3 DEF m, y

(* ... and so it does not matter which of two numbers is reduced before    *)
(* their difference is.                                                    *)
LEMMA DifferenceWraps ==
    ASSUME NEW M \in Nat, M > 0, NEW x \in Int, NEW a \in Int
    PROVE  (a - (x % M)) % M = (a - x) % M /\ ((x % M) - a) % M = (x - a) % M
<1> DEFINE d == x \div M
           m == x % M
<1>1. d \in Int /\ m \in 0 .. M - 1 /\ x = M * d + m
  OBVIOUS
<1> HIDE DEF d, m
<1> DEFINE y == a - x
<1>2. a - m = y + d * M /\ y \in Int
  BY <1>1
<1> HIDE DEF y
<1>3. (y + d * M) % M = y % M
  BY <1>1, <1>2, ModShift
<1>4. ((x % M) + (-a)) % M = (x + (-a)) % M
  <2>1. \A b \in Int : ((x % M) + b) % M = (x + b) % M
    BY SumWraps
  <2>2. -a \in Int
    OBVIOUS
  <2> QED BY <2>1, <2>2, Zenon
<1>5. m + (-a) = m - a /\ x + (-a) = x - a
  BY <1>1
<1> QED BY <1>2, <1>3, <1>4, <1>5 DEF m, y
-----------------------------------------------------------------------------
(* Wait lists.                                                             *)

(* Leaving members out keeps a list free of duplicates and sorted.         *)
LEMMA SubListKeeps ==
    ASSUME NEW s \in Seq(Task), NEW r \in Seq(Task), SubList(r, s), NEW p \in [Task -> Priority]
    PROVE  /\ ToSet(r) \subseteq ToSet(s)
           /\ Once(s) => Once(r)
           /\ Sorted(s, p) => Sorted(r, p)
<1>1. PICK f \in [DOMAIN r -> DOMAIN s] :
        /\ \A i, j \in DOMAIN r : i < j => f[i] < f[j]
        /\ \A i \in DOMAIN r : r[i] = s[f[i]]
  BY DEF SubList
<1>2. DOMAIN r = 1 .. Len(r) /\ DOMAIN s = 1 .. Len(s)
  OBVIOUS
<1>3. ToSet(r) \subseteq ToSet(s)
  BY <1>1 DEF ToSet
<1>4. Sorted(s, p) => Sorted(r, p)
  BY <1>1 DEF Sorted
<1>5. ASSUME Once(s), NEW i \in DOMAIN r, NEW j \in DOMAIN r, r[i] = r[j]
      PROVE  i = j
  <2>1. f[i] = f[j]
    BY <1>1, <1>5 DEF Once
  <2>2. ~(i < j) /\ ~(j < i)
    BY <1>1, <1>2, <2>1
  <2> QED
    BY <1>2, <2>2
<1> QED
  BY <1>3, <1>4, <1>5 DEF Once

(* What wq_pop leaves.                                                     *)
LEMMA TailDropsHead ==
    ASSUME NEW s \in Seq(Task), s # << >>
    PROVE  /\ Head(s) \in Task /\ Tail(s) \in Seq(Task)
           /\ SubList(Tail(s), s)
           /\ ToSet(s) = ToSet(Tail(s)) \cup {Head(s)}
           /\ Once(s) => Head(s) \notin ToSet(Tail(s))
<1> DEFINE r == Tail(s)
           f == [i \in DOMAIN r |-> i + 1]
<1>1. /\ Head(s) \in Task /\ r \in Seq(Task) /\ Len(r) = Len(s) - 1
      /\ \A i \in 1 .. Len(r) : r[i] = s[i + 1]
      /\ Head(s) = s[1]
  BY HeadTailProperties
<1>2. DOMAIN r = 1 .. Len(r) /\ DOMAIN s = 1 .. Len(s) /\ Len(s) \in Nat \ {0} /\ Len(r) \in Nat
  BY <1>1
<1> HIDE DEF r
<1>3. f \in [DOMAIN r -> DOMAIN s]
  BY <1>1, <1>2
<1>4. SubList(r, s)
  <2>1. \A i, j \in DOMAIN r : i < j => f[i] < f[j]
    BY <1>2
  <2>2. \A i \in DOMAIN r : r[i] = s[f[i]]
    BY <1>1, <1>2
  <2> HIDE DEF f
  <2> QED
    BY <1>3, <2>1, <2>2 DEF SubList
<1>5. ToSet(s) = ToSet(r) \cup {Head(s)}
  <2>1. ASSUME NEW i \in DOMAIN s PROVE s[i] \in ToSet(r) \cup {Head(s)}
    <3>1. CASE i = 1
      BY <1>1, <3>1
    <3>2. CASE i # 1
      <4>1. i - 1 \in DOMAIN r /\ r[i - 1] = s[i]
        BY <1>1, <1>2, <3>2
      <4> QED
        BY <4>1 DEF ToSet
    <3> QED
      BY <3>1, <3>2
  <2>2. ASSUME NEW i \in DOMAIN r PROVE r[i] \in ToSet(s)
    <3>1. r[i] = s[i + 1] /\ i + 1 \in DOMAIN s
      BY <1>1, <1>2
    <3> QED
      BY <3>1 DEF ToSet
  <2>3. Head(s) \in ToSet(s)
    BY <1>1, <1>2 DEF ToSet
  <2> QED
    BY <2>1, <2>2, <2>3 DEF ToSet
<1>6. ASSUME Once(s) PROVE Head(s) \notin ToSet(r)
  <2> SUFFICES ASSUME NEW i \in DOMAIN r, r[i] = Head(s) PROVE FALSE
    BY DEF ToSet
  <2>1. s[i + 1] = s[1] /\ i + 1 \in DOMAIN s /\ 1 \in DOMAIN s /\ i + 1 # 1
    BY <1>1, <1>2
  <2> QED
    BY <1>6, <2>1 DEF Once
<1> QED
  BY <1>1, <1>4, <1>5, <1>6 DEF r

(* Unlinking the tasks ts leaves the others, in their order.               *)
LEMMA WithoutSelects ==
    ASSUME NEW s \in Seq(Task), NEW ts
    PROVE  LET r == Without(s, ts) IN
           /\ r \in Seq(Task)
           /\ SubList(r, s)
           /\ ToSet(r) = ToSet(s) \ ts
<1> DEFINE kept == {i \in DOMAIN s : s[i] \notin ts}
           upTo(i) == {p \in kept : p <= i}
           rank == [i \in kept |-> Cardinality(upTo(i))]
           n == Cardinality(kept)
<1>1. kept \in SUBSET (1 .. Len(s)) /\ IsFiniteSet(1 .. Len(s))
  BY FS_Interval
<1>2. IsFiniteSet(kept) /\ n \in Nat
  BY <1>1, FS_Subset, FS_CardinalityType
<1>3. \A i \in kept : upTo(i) \in SUBSET kept /\ i \in upTo(i)
  BY <1>1
<1>4. \A i \in kept : rank[i] \in 1 .. n
  <2> SUFFICES ASSUME NEW i \in kept
               PROVE  Cardinality(upTo(i)) \in 1 .. n
    OBVIOUS
  <2>1. /\ IsFiniteSet(upTo(i))
        /\ Cardinality(upTo(i)) <= n
    BY <1>2, <1>3, FS_Subset
  <2>2. Cardinality(upTo(i)) \in Nat
    BY <2>1, FS_CardinalityType
  <2>3. Cardinality(upTo(i)) # 0
    BY <1>3, <2>1, FS_EmptySet
  <2> QED
    BY <1>2, <2>1, <2>2, <2>3
<1>5. \A i, j \in kept : rank[i] = rank[j] => i = j
  <2>1. \A i, j \in kept : i < j => rank[i] # rank[j]
    <3> SUFFICES ASSUME NEW i \in kept, NEW j \in kept, i < j
                 PROVE  Cardinality(upTo(i)) # Cardinality(upTo(j))
      OBVIOUS
    <3>1. IsFiniteSet(upTo(j))
      BY <1>2, <1>3, FS_Subset
    <3>2. upTo(i) \in SUBSET upTo(j) /\ j \in upTo(j) /\ j \notin upTo(i)
      BY <1>1
    <3> QED
      BY <3>1, <3>2, FS_Subset
  <2> QED
    BY <1>1, <2>1
<1>6. rank \in Surjection(kept, 1 .. n)
  <2>1. rank \in Injection(kept, 1 .. n)
    BY <1>4, <1>5 DEF Injection, IsInjective
  <2>2. IsFiniteSet(1 .. n) /\ Cardinality(1 .. n) = n
    BY <1>2, FS_Interval
  <2> QED
    BY <2>1, <2>2, FS_Injection
<1>7. \A j \in 1 .. n : \E i \in kept : Cardinality(upTo(i)) = j
  BY <1>6 DEF Surjection
<1> DEFINE Place(j) == CHOOSE i \in kept : Cardinality(upTo(i)) = j
<1>8. \A j \in 1 .. n : s[Place(j)] \in Task
  BY <1>1, <1>7
<1> DEFINE q == [j \in 1 .. n |-> s[Place(j)]]
<1>9. q \in [1 .. n -> Task]
  BY <1>8
<1>10. q \in Seq(Task)
  <2> HIDE DEF q, n
  <2> QED
    BY <1>2, <1>9
<1> DEFINE f == [j \in 1 .. n |-> Place(j)]
<1>11. \A j \in 1 .. n : Place(j) \in kept /\ rank[Place(j)] = j
  BY <1>7
<1>12. \A i, j \in kept : i <= j => rank[i] <= rank[j]
  <2> SUFFICES ASSUME NEW i \in kept, NEW j \in kept, i <= j
               PROVE  Cardinality(upTo(i)) <= Cardinality(upTo(j))
    OBVIOUS
  <2>1. IsFiniteSet(upTo(j))
    BY <1>2, <1>3, FS_Subset
  <2>2. upTo(i) \in SUBSET upTo(j)
    BY <1>1
  <2> QED
    BY <2>1, <2>2, FS_Subset
<1>13. \A i \in kept : Place(rank[i]) = i
  BY <1>4, <1>5, <1>11
<1>14. q \in Seq(Task) /\ DOMAIN q = 1 .. n /\ \A j \in 1 .. n : q[j] = s[f[j]]
  BY <1>10
<1>15. f \in [1 .. n -> DOMAIN s]
  BY <1>11
<1>16. \A j \in 1 .. n : f[j] \in kept /\ rank[f[j]] = j
  BY <1>11
<1>17. \A i \in kept : rank[i] \in 1 .. n /\ f[rank[i]] = i
  BY <1>4, <1>13
<1>18. q = Without(s, ts)
  BY DEF Without
<1>19. \A i \in DOMAIN s : i \in kept <=> s[i] \notin ts
  OBVIOUS
<1>20. kept \in SUBSET DOMAIN s /\ DOMAIN s = 1 .. Len(s)
  OBVIOUS
<1> HIDE DEF q, f, rank, kept, n
<1>21. \A i, j \in 1 .. n : i < j => f[i] < f[j]
  <2> SUFFICES ASSUME NEW i \in 1 .. n, NEW j \in 1 .. n, i < j, ~(f[i] < f[j])
               PROVE  FALSE
    OBVIOUS
  <2>1. f[j] <= f[i]
    BY <1>16, <1>20
  <2>2. rank[f[j]] <= rank[f[i]]
    BY <1>12, <1>16, <2>1
  <2> QED
    BY <1>2, <1>16, <2>2
<1>22. SubList(q, s)
  BY <1>14, <1>15, <1>21 DEF SubList
<1>23. ToSet(q) = ToSet(s) \ ts
  <2>1. ASSUME NEW j \in DOMAIN q PROVE q[j] \in ToSet(s) \ ts
    BY <1>14, <1>16, <1>19, <1>20 DEF ToSet
  <2>2. ASSUME NEW i \in DOMAIN s, s[i] \notin ts PROVE s[i] \in ToSet(q)
    <3>1. i \in kept
      BY <1>19, <2>2
    <3>2. rank[i] \in DOMAIN q /\ q[rank[i]] = s[i]
      BY <1>14, <1>17, <3>1
    <3> QED
      BY <3>2 DEF ToSet
  <2> QED
    BY <2>1, <2>2 DEF ToSet
<1> QED
  BY <1>14, <1>18, <1>22, <1>23

(* The members of a list with an element inserted.                         *)
LEMMA Inserted ==
    ASSUME NEW s \in Seq(Task), NEW t \in Task, NEW i \in 1 .. Len(s) + 1
    PROVE  LET r == InsertAt(s, i, t) IN
           /\ r \in Seq(Task) /\ Len(r) = Len(s) + 1
           /\ \A j \in 1 .. Len(s) + 1 :
                 r[j] = IF j < i THEN s[j] ELSE IF j = i THEN t ELSE s[j - 1]
<1> DEFINE a == SubSeq(s, 1, i - 1)
           b == SubSeq(s, i, Len(s))
<1>0. Len(s) \in Nat /\ i \in Nat
  OBVIOUS
<1>1. a \in Seq(Task) /\ Len(a) = i - 1 /\ \A j \in 1 .. i - 1 : a[j] = s[j]
  BY SubSeqProperties
<1>2. b \in Seq(Task) /\ Len(b) = Len(s) - i + 1 /\ \A j \in 1 .. Len(s) - i + 1 : b[j] = s[i + j - 1]
  BY SubSeqProperties
<1>3. <<t>> \in Seq(Task) /\ Len(<<t>>) = 1 /\ <<t>>[1] = t
  OBVIOUS
<1> HIDE DEF a, b
<1> DEFINE c == a \o <<t>>
<1>4. c \in Seq(Task) /\ Len(c) = i /\ \A j \in 1 .. i : c[j] = IF j < i THEN s[j] ELSE t
  BY <1>1, <1>3, ConcatProperties
<1> HIDE DEF c
<1>5. c \o b \in Seq(Task) /\ Len(c \o b) = Len(s) + 1
  <2>1. c \o b \in Seq(Task) /\ Len(c \o b) = Len(c) + Len(b)
    BY <1>2, <1>4, ConcatProperties
  <2> QED
    BY <1>0, <1>2, <1>4, <2>1
<1>6. ASSUME NEW j \in 1 .. Len(s) + 1
      PROVE (c \o b)[j] = IF j < i THEN s[j] ELSE IF j = i THEN t ELSE s[j - 1]
  <2>1. (c \o b)[j] = IF j <= i THEN c[j] ELSE b[j - i]
    BY <1>2, <1>4, ConcatProperties
  <2> QED
    BY <2>1, <1>2, <1>4
<1> QED
  BY <1>5, <1>6 DEF InsertAt, a, b, c

(* Inserted where wq_insert looks for, it keeps the list sorted.           *)
LEMMA InsertedKeeps ==
    ASSUME NEW s \in Seq(Task), NEW t \in Task, NEW i \in 1 .. Len(s) + 1, NEW p \in [Task -> Int],
           \A j \in 1 .. Len(s) : j < i => p[s[j]] <= p[t],
           i <= Len(s) => p[t] <= p[s[i]]
    PROVE  LET r == InsertAt(s, i, t) IN
           /\ r \in Seq(Task)
           /\ ToSet(r) = ToSet(s) \cup {t}
           /\ Once(s) /\ t \notin ToSet(s) => Once(r)
           /\ Sorted(s, p) => Sorted(r, p)
<1> DEFINE r == InsertAt(s, i, t)
<1>1. Len(s) \in Nat /\ i \in Nat /\ DOMAIN s = 1 .. Len(s)
  OBVIOUS
<1>2. /\ r \in Seq(Task) /\ Len(r) = Len(s) + 1
      /\ \A j \in 1 .. Len(s) + 1 :
            r[j] = IF j < i THEN s[j] ELSE IF j = i THEN t ELSE s[j - 1]
  BY Inserted
<1> HIDE DEF r
<1>3. DOMAIN r = 1 .. Len(s) + 1
  BY <1>2
<1>4. \A j \in DOMAIN r : \/ j < i /\ j \in DOMAIN s /\ r[j] = s[j]
                          \/ j = i /\ r[j] = t
                          \/ j > i /\ j - 1 \in DOMAIN s /\ r[j] = s[j - 1]
  <2> SUFFICES ASSUME NEW j \in 1 .. Len(s) + 1
               PROVE  \/ j < i /\ j \in DOMAIN s /\ r[j] = s[j]
                      \/ j = i /\ r[j] = t
                      \/ j > i /\ j - 1 \in DOMAIN s /\ r[j] = s[j - 1]
    BY <1>3
  <2>1. j < i \/ j = i \/ j > i
    BY <1>1
  <2> QED
    BY <1>1, <1>2, <2>1
<1>5. ToSet(r) = ToSet(s) \cup {t}
  <2>1. ASSUME NEW j \in DOMAIN r PROVE r[j] \in ToSet(s) \cup {t}
    BY <1>4 DEF ToSet
  <2>2. ASSUME NEW j \in DOMAIN s PROVE s[j] \in ToSet(r)
    <3>1. \/ j \in DOMAIN r /\ r[j] = s[j]
          \/ j + 1 \in DOMAIN r /\ r[j + 1] = s[j]
      <4>1. /\ j \in Int /\ j \in 1 .. Len(s) + 1 /\ j + 1 \in 1 .. Len(s) + 1
            /\ (j + 1) - 1 = j /\ i \in Int
        BY <1>1
      <4>2. CASE j < i
        BY <4>1, <4>2, <1>2, <1>3
      <4>3. CASE ~(j < i)
        <5>1. ~(j + 1 < i) /\ j + 1 # i
          BY <4>1, <4>3
        <5> QED BY <4>1, <5>1, <1>2, <1>3
      <4> QED BY <4>2, <4>3
    <3> QED
      BY <3>1 DEF ToSet
  <2>3. t \in ToSet(r)
    <3>1. i \in DOMAIN r /\ r[i] = t
      BY <1>1, <1>2, <1>3
    <3> QED
      BY <3>1 DEF ToSet
  <2> QED
    BY <2>1, <2>2, <2>3 DEF ToSet
<1>6. ASSUME Once(s), t \notin ToSet(s), NEW j \in DOMAIN r, NEW l \in DOMAIN r, r[j] = r[l]
      PROVE  j = l
  <2>1. \A x \in DOMAIN s : s[x] # t
    BY <1>6 DEF ToSet
  <2>2. \A x, y \in DOMAIN s : s[x] = s[y] => x = y
    BY <1>6 DEF Once
  <2>3. j \in Int /\ l \in Int
    BY <1>3
  <2>7. \/ j < i /\ j \in DOMAIN s /\ r[j] = s[j]
        \/ j = i /\ r[j] = t
        \/ j > i /\ j - 1 \in DOMAIN s /\ r[j] = s[j - 1]
    BY <1>4
  <2>8. \/ l < i /\ l \in DOMAIN s /\ r[l] = s[l]
        \/ l = i /\ r[l] = t
        \/ l > i /\ l - 1 \in DOMAIN s /\ r[l] = s[l - 1]
    BY <1>4
  <2>9. i \in Int /\ r[j] = r[l]
    BY <1>1, <1>6
  <2>4. CASE j < i
    BY <2>1, <2>2, <2>3, <2>4, <2>7, <2>8, <2>9
  <2>5. CASE j = i
    BY <2>1, <2>2, <2>3, <2>5, <2>7, <2>8, <2>9
  <2>6. CASE j > i
    <3>1. j - 1 \in DOMAIN s /\ r[j] = s[j - 1]
      BY <2>3, <2>6, <2>7, <2>9
    <3>2. CASE l > i
      <4>1. l - 1 \in DOMAIN s /\ r[l] = s[l - 1]
        BY <2>3, <3>2, <2>8, <2>9
      <4>2. j - 1 = l - 1
        BY <2>2, <2>9, <3>1, <4>1
      <4> QED BY <2>3, <4>2
    <3>3. CASE ~(l > i)
      BY <2>1, <2>2, <2>3, <2>6, <2>8, <2>9, <3>1, <3>3
    <3> QED BY <3>2, <3>3
  <2> QED
    BY <1>1, <2>3, <2>4, <2>5, <2>6
<1>7. ASSUME Sorted(s, p), NEW j \in DOMAIN r, NEW l \in DOMAIN r, j < l
      PROVE  p[r[j]] <= p[r[l]]
  <2>1. \A x, y \in DOMAIN s : x < y => p[s[x]] <= p[s[y]]
    BY <1>7 DEF Sorted
  <2>2. p[t] \in Int /\ \A x \in DOMAIN s : s[x] \in Task /\ p[s[x]] \in Int
    BY <1>1
  <2>3. j \in Int /\ l \in Int
    BY <1>3
  <2>4. CASE l < i
    <3>1. j < i /\ j < l
      BY <1>1, <1>7, <2>3, <2>4
    <3>2. r[j] = s[j] /\ j \in DOMAIN s
      BY <1>1, <1>4, <2>3, <3>1
    <3>3. r[l] = s[l] /\ l \in DOMAIN s
      BY <1>1, <1>4, <2>3, <2>4
    <3> QED BY <2>1, <3>1, <3>2, <3>3
  <2>5. CASE l = i
    BY <1>1, <1>4, <1>7, <2>3, <2>5
  <2>6. CASE j < i /\ i < l
    <3>1. r[j] = s[j] /\ r[l] = s[l - 1] /\ j \in DOMAIN s /\ l - 1 \in DOMAIN s
      BY <1>4, <2>3, <2>6, <1>1
    <3>2. j < l - 1 \/ j = l - 1
      BY <1>1, <2>3, <2>6
    <3> QED
      BY <2>1, <2>2, <3>1, <3>2
  <2>7. CASE j = i
    <3>1. r[j] = t /\ r[l] = s[l - 1] /\ l - 1 \in DOMAIN s
      BY <1>4, <1>7, <2>3, <2>7, <1>1
    <3>2. i <= Len(s) /\ i \in DOMAIN s /\ (i < l - 1 \/ i = l - 1)
      BY <1>1, <1>3, <1>7, <2>3, <2>7
    <3>3. p[t] <= p[s[i]] /\ p[s[i]] <= p[s[l - 1]]
      BY <2>1, <2>2, <3>1, <3>2
    <3> QED
      BY <2>2, <3>1, <3>2, <3>3
  <2>8. CASE i < j
    <3>0. i < l
      BY <1>1, <1>7, <2>3, <2>8
    <3>3. r[j] = s[j - 1] /\ j - 1 \in DOMAIN s
      BY <1>1, <1>4, <2>3, <2>8
    <3>4. r[l] = s[l - 1] /\ l - 1 \in DOMAIN s
      BY <1>1, <1>4, <2>3, <3>0
    <3>1. r[j] = s[j - 1] /\ r[l] = s[l - 1] /\ j - 1 \in DOMAIN s /\ l - 1 \in DOMAIN s
      BY <3>3, <3>4
    <3>2. j - 1 < l - 1
      BY <1>7, <2>3
    <3> QED
      BY <2>1, <3>1, <3>2
  <2> QED
    BY <1>1, <1>7, <2>3, <2>4, <2>5, <2>6, <2>7, <2>8
<1> QED
  BY <1>2, <1>5, <1>6, <1>7 DEF Once, Sorted, r

(* wq_insert adds the waiter, keeps the others, and keeps the list sorted. *)
LEMMA InsertWaiter ==
    ASSUME NEW K, KernelTypeOK(K), NEW h \in WaitList, NEW t \in Task
    PROVE  LET R == wq_insert(K, h, t)
               s == K.waiters[h]
               r == R.waiters[h]
           IN
           /\ R = [K EXCEPT !.waiters = R.waiters]
           /\ R.waiters \in [WaitList -> Seq(Task)]
           /\ \A g \in WaitList : g # h => R.waiters[g] = K.waiters[g]
           /\ ToSet(r) = ToSet(s) \cup {t}
           /\ Once(s) /\ t \notin ToSet(s) => Once(r)
           /\ Sorted(s, K.priority) => Sorted(r, K.priority)
<1> DEFINE s == K.waiters[h]
           p == K.priority
           places == {j \in 1 .. Len(s) : p[s[j]] > p[t]} \cup {Len(s) + 1}
           i == Min(places)
           r == InsertAt(s, i, t)
           R == wq_insert(K, h, t)
<1>1. /\ K.waiters \in [WaitList -> Seq(Task)] /\ s \in Seq(Task)
      /\ p \in [Task -> Int]
  <2>1. /\ K.waiters \in [WaitList -> Seq(Task)] /\ K.priority \in [Task -> Priority]
    BY DEF KernelTypeOK
  <2>2. Priority \subseteq Int
    BY DEF Priority, NoPriority
  <2> QED
    BY <2>1, <2>2
<1>2. R = [K EXCEPT !.waiters[h] = r]
  BY DEF wq_insert
<1> HIDE DEF s, p
<1>3. Len(s) \in Nat /\ p[t] \in Int /\ \A j \in 1 .. Len(s) : p[s[j]] \in Int
  BY <1>1
<1>4. /\ places \in SUBSET (1 .. Len(s) + 1) /\ Len(s) + 1 \in places
      /\ \A j \in 1 .. Len(s) : j \in places <=> p[s[j]] > p[t]
  BY <1>3
<1> HIDE DEF places
<1>5. i \in places /\ \A j \in places : i <= j
  <2>1. places \in SUBSET Nat /\ places # {}
    BY <1>3, <1>4
  <2>2. PICK m \in places : \A j \in places : m <= j
    BY <2>1, LeastNat
  <2> QED
    BY <2>2 DEF Min
<1> HIDE DEF i
<1>6. i \in 1 .. Len(s) + 1
  BY <1>4, <1>5
<1>7. \A j \in 1 .. Len(s) : j < i => p[s[j]] <= p[t]
  BY <1>3, <1>4, <1>5, <1>6
<1>8. i <= Len(s) => p[t] <= p[s[i]]
  BY <1>3, <1>4, <1>5, <1>6
<1>9. /\ r \in Seq(Task)
      /\ ToSet(r) = ToSet(s) \cup {t}
      /\ Once(s) /\ t \notin ToSet(s) => Once(r)
      /\ Sorted(s, p) => Sorted(r, p)
  BY <1>1, <1>6, <1>7, <1>8, InsertedKeeps
<1> HIDE DEF r
<1>10. /\ R.waiters = [K.waiters EXCEPT ![h] = r]
       /\ R = [K EXCEPT !.waiters = R.waiters]
  BY <1>2 DEF KernelTypeOK
<1> HIDE DEF R
<1>11. /\ R.waiters[h] = r /\ R.waiters \in [WaitList -> Seq(Task)]
       /\ \A g \in WaitList : g # h => R.waiters[g] = K.waiters[g]
  BY <1>1, <1>9, <1>10
<1> QED
  BY <1>9, <1>10, <1>11 DEF R, s, p
-----------------------------------------------------------------------------
(* Scheduling decisions.                                                   *)

(* The created tasks are an initial segment of s_tasks.                    *)
LEMMA CreatedTasks ==
    ASSUME NEW K, KernelTypeOK(K)
    PROVE  Created(K) \subseteq Task /\ Ready(K) \subseteq Task
BY KernelAssumption DEF Ready, Created, Task, KernelTypeOK

(* Among the ready tasks there is a most urgent one, so sched_select_next  *)
(* never falls through its first loop when a task is ready.                *)
LEMMA BestExists ==
    ASSUME NEW K, KernelTypeOK(K), Ready(K) # {}
    PROVE  Best(K) # {}
<1> DEFINE S == {K.priority[t] : t \in Ready(K)}
<1>1. K.priority \in [Task -> Priority] /\ Priority \subseteq Nat
  BY DEF KernelTypeOK, Priority, NoPriority
<1>2. \A t \in Ready(K) : K.priority[t] \in Nat
  BY <1>1, CreatedTasks
<1>3. PICK m \in S : \A n \in S : m <= n
  <2>1. S \in SUBSET Nat /\ S # {}
    BY <1>2
  <2> QED
    BY <2>1, LeastNat
<1>4. PICK t \in Ready(K) : K.priority[t] = m
  OBVIOUS
<1> QED
  BY <1>3, <1>4 DEF Best

(* sched_select_next returns the idle task when no task is ready, and      *)
(* otherwise a most urgent ready task.                                     *)
LEMMA SelectNext ==
    ASSUME NEW K, KernelTypeOK(K)
    PROVE  /\ Ready(K) = {} => sched_select_next(K) = IdleTask
           /\ Ready(K) # {} => sched_select_next(K) \in Best(K)
<1>1. CASE Ready(K) = {}
  BY <1>1 DEF sched_select_next
<1>2. CASE Ready(K) # {}
  <2> DEFINE T == {Turn(K, t) : t \in Best(K)}
  <2>1. Best(K) # {}
    BY <1>2, BestExists
  <2>2. K.s_task_count \in Nat \ {0}
    BY <1>2 DEF KernelTypeOK, Ready, Created
  <2>3. \A t \in Best(K) : Turn(K, t) \in Nat
    <3> SUFFICES ASSUME NEW t \in Best(K)
                 PROVE  Turn(K, t) \in Nat
      OBVIOUS
    <3>1. t \in Int
      BY DEF Best, Ready, Created
    <3>2. SearchStart(K) \in Int
      BY <2>2 DEF SearchStart, Created
    <3> QED
      BY <2>2, <3>1, <3>2 DEF Turn
  <2>4. PICK m \in T : \A x \in T : m <= x
    BY <2>1, <2>3, LeastNat
  <2>5. PICK t \in Best(K) : Turn(K, t) = m
    OBVIOUS
  <2>6. \A u \in Best(K) : Turn(K, t) <= Turn(K, u)
    BY <2>4, <2>5
  <2> QED
    BY <1>2, <2>6 DEF sched_select_next
<1> QED
  BY <1>1, <1>2
-----------------------------------------------------------------------------
(* Uncommit puts a committed task that never ran back to READY, so that    *)
(* nobody is RUNNING when the next choice is made.                         *)
LEMMA UncommitClears ==
    ASSUME NEW K, KernelTypeOK(K), HasThreads(K), OnlyNext(K),
           K.state[K.g_current_task] # "RUNNING"
    PROVE  /\ KernelTypeOK(Uncommit(K))
           /\ \A t \in Thread : Uncommit(K).state[t] # "RUNNING"
           /\ \A t \in Thread : K.state[t] # "RUNNING" => Uncommit(K).state[t] = K.state[t]
           /\ \A t \in Thread : K.state[t] = "RUNNING" => Uncommit(K).state[t] = "READY"
           /\ SameWaits(K, Uncommit(K))
           /\ Uncommit(K).pendsv = K.pendsv
BY KernelAssumption
DEF Uncommit, OnlyNext, HasThreads, KernelTypeOK, TaskState, Thread, SameWaits

(* After sched_commit_next exactly the chosen thread is RUNNING, and no    *)
(* ready task is more urgent than it.  Nothing but g_next_task and states  *)
(* changes.                                                                *)
LEMMA CommitNext ==
    ASSUME NEW K, KernelCore(K), K.state[K.g_current_task] # "RUNNING"
    PROVE  LET R == sched_commit_next(K) IN
           KernelInv(R) /\ SameWaits(K, R) /\ R.pendsv = K.pendsv
<1> DEFINE U == Uncommit(K)
           n == sched_select_next(U)
           R == Commit(U, n)
<1>0. KernelTypeOK(K) /\ HasThreads(K) /\ OnlyNext(K) /\ IdleAlive(K)
  BY DEF KernelCore
<1>1. /\ KernelTypeOK(U)
      /\ \A t \in Thread : U.state[t] # "RUNNING"
      /\ SameWaits(K, U)
      /\ U.pendsv = K.pendsv
      /\ U.state[IdleTask] = "READY"
  BY <1>0, UncommitClears DEF IdleAlive, Thread
<1>2. /\ Ready(U) = {} => n = IdleTask
      /\ Ready(U) # {} => n \in Best(U)
  BY <1>1, SelectNext
<1>3. Ready(U) \subseteq Task
  BY <1>1, CreatedTasks
<1>4. n \in Thread /\ U.state[n] = "READY"
  BY <1>1, <1>2, <1>3 DEF Best, Ready, Thread
<1> HIDE DEF U, n
<1>5. /\ KernelTypeOK(R)
      /\ R.state = [U.state EXCEPT ![n] = "RUNNING"]
      /\ R.g_next_task = n
      /\ R.pendsv = U.pendsv
      /\ R.late = {}
      /\ R.priority = U.priority /\ R.delay_ticks = U.delay_ticks
      /\ R.wait_list_head = U.wait_list_head /\ R.timed_out = U.timed_out
      /\ R.waiters = U.waiters /\ R.s_task_count = U.s_task_count
      /\ R.g_current_task = U.g_current_task
  BY <1>1, <1>4 DEF Commit, KernelTypeOK, TaskState
<1> HIDE DEF R
<1>6. HasThreads(R)
  BY <1>0, <1>1, <1>4, <1>5 DEF HasThreads, SameWaits
<1>7. /\ R.state[n] = "RUNNING"
      /\ \A t \in Thread : t # n => R.state[t] = U.state[t]
  BY <1>1, <1>4, <1>5 DEF KernelTypeOK
<1>8. OnlyNext(R) /\ IdleAlive(R)
  BY <1>1, <1>5, <1>7 DEF OnlyNext, IdleAlive, Thread
<1>9. NextMostUrgent(R)
  <2>1. Ready(R) \subseteq Ready(U)
    <3>1. Ready(R) \subseteq Thread
      BY <1>5, CreatedTasks DEF Thread
    <3> QED
      BY <1>5, <1>7, <3>1 DEF Ready, Created
  <2> SUFFICES ASSUME NEW t \in Ready(R)
               PROVE  n # IdleTask /\ R.priority[n] <= R.priority[t]
    BY <1>5 DEF NextMostUrgent
  <2>2. n \in Best(U)
    BY <1>2, <2>1
  <2>3. n \in Task
    BY <1>3, <2>2 DEF Best
  <2>4. n # IdleTask
    BY <2>3, KernelAssumption DEF Task
  <2>5. U.priority[n] <= U.priority[t]
    BY <2>1, <2>2 DEF Best
  <2> QED
    BY <1>5, <2>4, <2>5
<1>10. SameWaits(K, R)
  BY <1>1, <1>4, <1>5, <1>7 DEF SameWaits
<1>11. KernelInv(R)
  BY <1>5, <1>6, <1>7, <1>8, <1>9 DEF KernelInv, KernelCore
<1> QED
  BY <1>1, <1>5, <1>10, <1>11 DEF sched_commit_next, U, n, R

(* Preempt takes RUNNING from the running task and leaves the rest alone.  *)
LEMMA PreemptClears ==
    ASSUME NEW K, KernelCore(K)
    PROVE  LET R == Preempt(K) IN
           /\ KernelCore(R)
           /\ R.state[R.g_current_task] # "RUNNING"
           /\ SameWaits(K, R)
           /\ R.pendsv = K.pendsv
<1> DEFINE R == Preempt(K)
<1>0. KernelTypeOK(K) /\ HasThreads(K) /\ OnlyNext(K) /\ IdleAlive(K)
  BY DEF KernelCore
<1>1. KernelTypeOK(R) /\ SameWaits(K, R) /\ R.pendsv = K.pendsv
  BY <1>0, KernelAssumption DEF Preempt, KernelTypeOK, HasThreads, TaskState, Thread, SameWaits
<1>2. HasThreads(R) /\ OnlyNext(R) /\ IdleAlive(R) /\ R.state[R.g_current_task] # "RUNNING"
  BY <1>0, KernelAssumption
  DEF Preempt, KernelTypeOK, HasThreads, OnlyNext, IdleAlive, TaskState, Thread
<1> QED
  BY <1>1, <1>2 DEF KernelCore

(* What one decision after another leaves alone.                           *)
LEMMA SameWaitsTrans ==
    ASSUME NEW K, NEW L, NEW R, SameWaits(K, L), SameWaits(L, R)
    PROVE  SameWaits(K, R)
BY DEF SameWaits

(* sched_pick_and_mark: the running task competes with the others.         *)
LEMMA PickDecides ==
    ASSUME NEW K, KernelCore(K)
    PROVE  LET R == sched_pick_and_mark(K) IN
           KernelInv(R) /\ SameWaits(K, R) /\ R.pendsv = K.pendsv
<1> DEFINE P == Preempt(K)
<1>1. /\ KernelCore(P) /\ P.state[P.g_current_task] # "RUNNING"
      /\ SameWaits(K, P) /\ P.pendsv = K.pendsv
  BY PreemptClears
<1> HIDE DEF P
<1>2. LET R == sched_commit_next(P) IN
      KernelInv(R) /\ SameWaits(P, R) /\ R.pendsv = P.pendsv
  BY <1>1, CommitNext
<1> QED
  BY <1>1, <1>2, SameWaitsTrans DEF sched_pick_and_mark, P

(* trigger_pendsv, by itself or if the choice is not on the CPU.           *)
LEMMA TriggerKeeps ==
    ASSUME NEW K, KernelInv(K)
    PROVE  /\ LET R == trigger_pendsv(K) IN
              KernelInv(R) /\ SameWaits(K, R) /\ R.state = K.state /\ R.pendsv
                /\ R.g_next_task = K.g_next_task
           /\ LET R == TriggerIfSwitch(K) IN
              /\ KernelInv(R) /\ SameWaits(K, R) /\ R.state = K.state
              /\ R.g_next_task = K.g_next_task
              /\ R.g_next_task # R.g_current_task => R.pendsv
              /\ K.pendsv => R.pendsv
<1> DEFINE R == trigger_pendsv(K)
<1>1. /\ KernelTypeOK(R) /\ R.pendsv
      /\ R.state = K.state /\ R.late = K.late /\ R.g_next_task = K.g_next_task
      /\ R.priority = K.priority /\ R.delay_ticks = K.delay_ticks
      /\ R.wait_list_head = K.wait_list_head /\ R.timed_out = K.timed_out
      /\ R.waiters = K.waiters /\ R.s_task_count = K.s_task_count
      /\ R.g_current_task = K.g_current_task
  BY DEF trigger_pendsv, KernelInv, KernelCore, KernelTypeOK
<1> HIDE DEF R
<1>2. KernelInv(R) /\ SameWaits(K, R)
  BY <1>1
  DEF KernelInv, KernelCore, HasThreads, OnlyNext, IdleAlive, NextMostUrgent, Ready, Created,
      SameWaits
<1>3. SameWaits(K, K)
  BY DEF SameWaits
<1> QED
  BY <1>1, <1>2, <1>3 DEF TriggerIfSwitch, R
-----------------------------------------------------------------------------
(* The operations.                                                         *)

(* The countdown changes only blocked tasks: it readies them when their    *)
(* time is up.                                                             *)
LEMMA CountDownReadies ==
    ASSUME NEW K, KernelTypeOK(K), NEW n \in Nat
    PROVE  LET R == CountDown(K, n) IN
           /\ KernelTypeOK(R)
           /\ R.g_current_task = K.g_current_task
           /\ R.g_next_task = K.g_next_task
           /\ R.pendsv = K.pendsv
           /\ \A t \in Thread : \/ R.state[t] = K.state[t]
                                \/ K.state[t] = "BLOCKED" /\ R.state[t] = "READY"
<1> DEFINE out == Expired(K, n)
           timedOut == {t \in out : K.wait_list_head[t] # NULL}
           delays == [t \in Task |->
               IF t \in out THEN 0
               ELSE IF t \in Created(K) /\ K.state[t] = "BLOCKED" /\ K.delay_ticks[t] > n
                    THEN K.delay_ticks[t] - n ELSE K.delay_ticks[t]]
           lists == sched_wait_list_remove(K.waiters, K.wait_list_head, timedOut)
           heads == [t \in Task |-> IF t \in timedOut THEN NULL ELSE K.wait_list_head[t]]
           flags == [t \in Task |-> t \in timedOut \/ K.timed_out[t]]
           states == [t \in Thread |-> IF t \in out THEN "READY" ELSE K.state[t]]
<1>1. /\ K.delay_ticks \in [Task -> Nat]
      /\ K.waiters \in [WaitList -> Seq(Task)]
      /\ K.wait_list_head \in [Task -> WaitList \cup {NULL}]
      /\ K.state \in [Thread -> TaskState]
  BY DEF KernelTypeOK
<1>2. delays \in [Task -> Nat]
  BY <1>1
<1>3. lists \in [WaitList -> Seq(Task)]
  BY <1>1, WithoutSelects DEF sched_wait_list_remove
<1>4. heads \in [Task -> WaitList \cup {NULL}]
  BY <1>1
<1>5. flags \in [Task -> BOOLEAN]
  OBVIOUS
<1>6. states \in [Thread -> TaskState]
  BY <1>1 DEF TaskState
<1>7. \A t \in out : K.state[t] = "BLOCKED"
  BY DEF Expired
<1>8. CountDown(K, n) = [K EXCEPT !.delay_ticks = delays, !.waiters = lists,
                                 !.wait_list_head = heads, !.timed_out = flags,
                                 !.state = states]
  BY DEF CountDown
<1>9. \A t \in Thread : \/ states[t] = K.state[t]
                        \/ K.state[t] = "BLOCKED" /\ states[t] = "READY"
  BY <1>7
<1> HIDE DEF delays, lists, heads, flags, states
<1>10. KernelTypeOK(CountDown(K, n))
  BY <1>2, <1>3, <1>4, <1>5, <1>6, <1>8 DEF KernelTypeOK
<1>11. /\ CountDown(K, n).g_current_task = K.g_current_task
       /\ CountDown(K, n).g_next_task = K.g_next_task
       /\ CountDown(K, n).pendsv = K.pendsv
       /\ CountDown(K, n).state = states
  BY <1>8 DEF KernelTypeOK
<1> QED
  BY <1>9, <1>10, <1>11

(* Task by task and list by list: a delay that runs out readies its task   *)
(* and takes it off the list it named, in whatever place; the other delays *)
(* are counted down.                                                       *)
LEMMA CountDownWaits ==
    ASSUME NEW K, KernelTypeOK(K), NEW n \in Nat
    PROVE  LET R == CountDown(K, n) IN
           /\ R.s_task_count = K.s_task_count /\ R.priority = K.priority
           /\ R.g_current_task = K.g_current_task
           /\ \A t \in Task :
                 IF t \in Expired(K, n)
                 THEN /\ R.state[t] = "READY" /\ R.delay_ticks[t] = 0
                      /\ R.wait_list_head[t] = NULL
                 ELSE /\ R.state[t] = K.state[t]
                      /\ R.delay_ticks[t] =
                           IF t \in Created(K) /\ K.state[t] = "BLOCKED" /\ K.delay_ticks[t] > n
                           THEN K.delay_ticks[t] - n ELSE K.delay_ticks[t]
                      /\ R.wait_list_head[t] = K.wait_list_head[t]
                      /\ R.timed_out[t] <=> K.timed_out[t]
           /\ \A h \in WaitList :
                 /\ R.waiters[h] \in Seq(Task)
                 /\ SubList(R.waiters[h], K.waiters[h])
                 /\ ToSet(R.waiters[h]) =
                      ToSet(K.waiters[h]) \ {t \in Expired(K, n) : K.wait_list_head[t] = h}
<1> DEFINE out == Expired(K, n)
           timedOut == {t \in out : K.wait_list_head[t] # NULL}
           delays == [t \in Task |->
               IF t \in out THEN 0
               ELSE IF t \in Created(K) /\ K.state[t] = "BLOCKED" /\ K.delay_ticks[t] > n
                    THEN K.delay_ticks[t] - n ELSE K.delay_ticks[t]]
           lists == sched_wait_list_remove(K.waiters, K.wait_list_head, timedOut)
           heads == [t \in Task |-> IF t \in timedOut THEN NULL ELSE K.wait_list_head[t]]
           flags == [t \in Task |-> t \in timedOut \/ K.timed_out[t]]
           states == [t \in Thread |-> IF t \in out THEN "READY" ELSE K.state[t]]
           R == CountDown(K, n)
<1>1. R = [K EXCEPT !.delay_ticks = delays, !.waiters = lists,
                    !.wait_list_head = heads, !.timed_out = flags,
                    !.state = states]
  BY DEF CountDown
<1>2. \A t \in Task : heads[t] = IF t \in out THEN NULL ELSE K.wait_list_head[t]
  OBVIOUS
<1>3. \A t \in Task : states[t] = IF t \in out THEN "READY" ELSE K.state[t]
  BY DEF Thread
<1>4. \A t \in Task : delays[t] =
          IF t \in out THEN 0
          ELSE IF t \in Created(K) /\ K.state[t] = "BLOCKED" /\ K.delay_ticks[t] > n
               THEN K.delay_ticks[t] - n ELSE K.delay_ticks[t]
  OBVIOUS
<1>5. ASSUME NEW h \in WaitList
      PROVE  /\ lists[h] \in Seq(Task)
             /\ SubList(lists[h], K.waiters[h])
             /\ ToSet(lists[h]) = ToSet(K.waiters[h]) \ {t \in out : K.wait_list_head[t] = h}
  <2>1. lists[h] = Without(K.waiters[h], {t \in timedOut : K.wait_list_head[t] = h})
    BY DEF sched_wait_list_remove
  <2>2. {t \in timedOut : K.wait_list_head[t] = h} = {t \in out : K.wait_list_head[t] = h}
    BY KernelAssumption
  <2>3. K.waiters[h] \in Seq(Task)
    BY DEF KernelTypeOK
  <2> HIDE DEF lists, timedOut, out
  <2> QED
    BY <2>1, <2>2, <2>3, WithoutSelects
<1>6. \A t \in Task : t \notin out => (flags[t] <=> K.timed_out[t])
  OBVIOUS
<1> HIDE DEF delays, lists, heads, flags, states
<1>7. /\ R.timed_out = flags
      /\ R.delay_ticks = delays /\ R.waiters = lists /\ R.wait_list_head = heads
      /\ R.state = states /\ R.s_task_count = K.s_task_count /\ R.priority = K.priority
      /\ R.g_current_task = K.g_current_task
  BY <1>1 DEF KernelTypeOK
<1> HIDE DEF R, out
<1> QED
  BY <1>2, <1>3, <1>4, <1>5, <1>6, <1>7 DEF R, out

(* sched_tick_n: afterwards the most urgent ready task is the only RUNNING *)
(* one, and PendSV is pending if it is not on the CPU.  Of the waits only  *)
(* the countdown has changed anything.                                     *)
LEMMA TickDecides ==
    ASSUME NEW K, KernelCore(K), NEW n \in Nat
    PROVE  LET R == sched_tick_n(K, n) IN
           /\ KernelInv(R)
           /\ SameWaits(CountDown(K, n), R)
           /\ R.g_current_task = K.g_current_task
           /\ R.g_next_task # R.g_current_task => R.pendsv
<1> DEFINE C == CountDown(K, n)
           D == sched_pick_and_mark(C)
<1>1. KernelCore(C) /\ C.g_current_task = K.g_current_task
  BY CountDownReadies DEF KernelCore, HasThreads, OnlyNext, IdleAlive, Thread
<1> HIDE DEF C
<1>2. KernelInv(D) /\ SameWaits(C, D)
  BY <1>1, PickDecides
<1>3. sched_tick_n(K, n) = TriggerIfSwitch(D)
  BY DEF sched_tick_n, sched_pick_and_mark, C
<1> HIDE DEF D
<1>4. LET R == TriggerIfSwitch(D) IN
      /\ KernelInv(R) /\ SameWaits(D, R)
      /\ R.g_next_task # R.g_current_task => R.pendsv
  BY <1>2, TriggerKeeps
<1>5. SameWaits(C, TriggerIfSwitch(D))
  BY <1>2, <1>4, SameWaitsTrans
<1> QED
  BY <1>1, <1>3, <1>4, <1>5 DEF SameWaits, C

(* BlockOn, from a state in which the caller may still be RUNNING: the     *)
(* caller is blocked and on the list, somebody else is chosen and PendSV   *)
(* is pending.                                                             *)
LEMMA BlockOnDecides ==
    ASSUME NEW K, KernelCore(K), NEW t \in Task, NEW h \in WaitList
    PROVE  LET R == BlockOn(K, t, h)
               s == K.waiters[h]
               r == R.waiters[h]
           IN
           /\ KernelInv(R) /\ R.pendsv
           /\ R.priority = K.priority /\ R.delay_ticks = K.delay_ticks
           /\ R.wait_list_head = K.wait_list_head /\ R.timed_out = K.timed_out
           /\ R.g_current_task = K.g_current_task /\ R.s_task_count = K.s_task_count
           /\ \A u \in Thread : R.state[u] = "BLOCKED" <=> u = t \/ K.state[u] = "BLOCKED"
           /\ \A g \in WaitList : g # h => R.waiters[g] = K.waiters[g]
           /\ ToSet(r) = ToSet(s) \cup {t}
           /\ Once(s) /\ t \notin ToSet(s) => Once(r)
           /\ Sorted(s, K.priority) => Sorted(r, K.priority)
<1> DEFINE B == [K EXCEPT !.state[t] = "BLOCKED"]
           I == wq_insert(B, h, t)
           D == sched_pick_and_mark(I)
           R == trigger_pendsv(D)
<1>1. /\ KernelTypeOK(B) /\ B.state = [K.state EXCEPT ![t] = "BLOCKED"]
      /\ B.g_next_task = K.g_next_task
      /\ B.priority = K.priority /\ B.delay_ticks = K.delay_ticks
      /\ B.wait_list_head = K.wait_list_head /\ B.timed_out = K.timed_out
      /\ B.waiters = K.waiters
      /\ B.g_current_task = K.g_current_task /\ B.s_task_count = K.s_task_count
  BY DEF KernelCore, KernelTypeOK, TaskState, Thread
<1> HIDE DEF B
<1>2. \A u \in Thread : B.state[u] = IF u = t THEN "BLOCKED" ELSE K.state[u]
  BY <1>1 DEF KernelCore, KernelTypeOK
<1>3. KernelCore(B)
  BY <1>1, <1>2, KernelAssumption
  DEF KernelCore, HasThreads, OnlyNext, IdleAlive, Thread, Task
<1>4. /\ I = [B EXCEPT !.waiters = I.waiters]
      /\ I.waiters \in [WaitList -> Seq(Task)]
      /\ \A g \in WaitList : g # h => I.waiters[g] = B.waiters[g]
      /\ ToSet(I.waiters[h]) = ToSet(B.waiters[h]) \cup {t}
      /\ Once(B.waiters[h]) /\ t \notin ToSet(B.waiters[h]) => Once(I.waiters[h])
      /\ Sorted(B.waiters[h], B.priority) => Sorted(I.waiters[h], B.priority)
  BY <1>1, InsertWaiter
<1> HIDE DEF I
<1>5. /\ KernelTypeOK(I)
      /\ I.state = B.state /\ I.g_next_task = B.g_next_task
      /\ I.priority = B.priority /\ I.delay_ticks = B.delay_ticks
      /\ I.wait_list_head = B.wait_list_head /\ I.timed_out = B.timed_out
      /\ I.g_current_task = B.g_current_task /\ I.s_task_count = B.s_task_count
  BY <1>1, <1>4 DEF KernelTypeOK
<1>6. KernelCore(I)
  BY <1>3, <1>5 DEF KernelCore, HasThreads, OnlyNext, IdleAlive
<1>7. KernelInv(D) /\ SameWaits(I, D)
  BY <1>6, PickDecides
<1> HIDE DEF D
<1>8. KernelInv(R) /\ SameWaits(D, R) /\ R.pendsv
  BY <1>7, TriggerKeeps
<1> HIDE DEF R
<1>9. SameWaits(I, R)
  BY <1>7, <1>8, SameWaitsTrans
<1>10. R = BlockOn(K, t, h)
  BY DEF BlockOn, sched_block_locked, B, I, D, R
<1>11. \A u \in Thread : R.state[u] = "BLOCKED" <=> u = t \/ K.state[u] = "BLOCKED"
  BY <1>2, <1>5, <1>9 DEF SameWaits
<1> QED
  BY <1>1, <1>4, <1>5, <1>8, <1>9, <1>10, <1>11 DEF SameWaits

(* wq_pop on a list that is not empty: the first waiter is taken off.      *)
LEMMA PopKeeps ==
    ASSUME NEW K, KernelCore(K), NEW h \in WaitList, K.waiters[h] # << >>, Once(K.waiters[h])
    PROVE  LET R == wq_pop(K, h)
               w == FirstWaiter(K, h)
           IN
           /\ KernelCore(R)
           /\ w \in Task /\ w # NULL /\ w \in ToSet(K.waiters[h])
           /\ R = [K EXCEPT !.waiters = R.waiters]
           /\ R.state = K.state
           /\ R.priority = K.priority /\ R.delay_ticks = K.delay_ticks
           /\ R.wait_list_head = K.wait_list_head /\ R.timed_out = K.timed_out
           /\ R.s_task_count = K.s_task_count /\ R.g_current_task = K.g_current_task
           /\ R.pendsv = K.pendsv
           /\ R.waiters[h] \in Seq(Task)
           /\ SubList(R.waiters[h], K.waiters[h])
           /\ ToSet(R.waiters[h]) = ToSet(K.waiters[h]) \ {w}
           /\ \A g \in WaitList : g # h => R.waiters[g] = K.waiters[g]
<1> DEFINE s == K.waiters[h]
           R == wq_pop(K, h)
           w == FirstWaiter(K, h)
<1>1. KernelTypeOK(K) /\ s \in Seq(Task) /\ s # << >> /\ w = Head(s)
  BY DEF KernelCore, KernelTypeOK, FirstWaiter
<1>2. /\ Tail(s) \in Seq(Task) /\ SubList(Tail(s), s)
      /\ ToSet(Tail(s)) = ToSet(s) \ {Head(s)}
      /\ Head(s) \in Task /\ Head(s) \in ToSet(s)
  BY <1>1, TailDropsHead
<1>3. w # NULL
  BY <1>1, <1>2, KernelAssumption DEF Thread
<1>4. R = [K EXCEPT !.waiters = [K.waiters EXCEPT ![h] = Tail(s)]]
  BY <1>1 DEF wq_pop
<1>5. [K.waiters EXCEPT ![h] = Tail(s)] \in [WaitList -> Seq(Task)]
  BY <1>1, <1>2 DEF KernelTypeOK
<1> HIDE DEF R, s, w
<1>6. /\ KernelTypeOK(R)
      /\ R.waiters = [K.waiters EXCEPT ![h] = Tail(s)]
      /\ R.state = K.state /\ R.g_next_task = K.g_next_task
      /\ R.priority = K.priority /\ R.delay_ticks = K.delay_ticks
      /\ R.wait_list_head = K.wait_list_head /\ R.timed_out = K.timed_out
      /\ R.s_task_count = K.s_task_count /\ R.g_current_task = K.g_current_task
      /\ R.pendsv = K.pendsv
  BY <1>1, <1>4, <1>5 DEF KernelTypeOK
<1>7. R.waiters[h] = Tail(s) /\ \A g \in WaitList : g # h => R.waiters[g] = K.waiters[g]
  BY <1>1, <1>6 DEF KernelTypeOK
<1>8. KernelCore(R)
  BY <1>6 DEF KernelCore, HasThreads, OnlyNext, IdleAlive
<1>9. R = [K EXCEPT !.waiters = R.waiters]
  BY <1>4, <1>6
<1> QED
  BY <1>1, <1>2, <1>3, <1>6, <1>7, <1>8, <1>9 DEF R, s, w

(* wq_pop and new priorities, as far as the decisions are concerned.       *)
LEMMA PopCore ==
    ASSUME NEW K, KernelCore(K), NEW h \in WaitList
    PROVE  LET R == wq_pop(K, h) IN
           /\ KernelCore(R)
           /\ R.g_current_task = K.g_current_task /\ R.s_task_count = K.s_task_count
           /\ R.pendsv = K.pendsv /\ R.g_next_task = K.g_next_task
           /\ R.state = K.state /\ R.late = K.late /\ R.priority = K.priority
           /\ FirstWaiter(K, h) \in Task \cup {NULL}
           /\ FirstWaiter(K, h) = NULL => R = K
<1> DEFINE s == K.waiters[h]
           r == IF s = << >> THEN s ELSE Tail(s)
           R == wq_pop(K, h)
<1>1. s \in Seq(Task) /\ r \in Seq(Task) /\ FirstWaiter(K, h) \in Task \cup {NULL}
  BY HeadTailProperties DEF KernelCore, KernelTypeOK, FirstWaiter
<1>2. R = [K EXCEPT !.waiters[h] = r]
  BY DEF wq_pop
<1>3. FirstWaiter(K, h) = NULL => r = s
  <2>1. s # << >> => Head(s) \in Task
    BY <1>1
  <2> QED
    BY <2>1, KernelAssumption DEF FirstWaiter, Thread
<1> HIDE DEF R, r
<1>4. /\ KernelTypeOK(R)
      /\ R.g_current_task = K.g_current_task /\ R.s_task_count = K.s_task_count
      /\ R.pendsv = K.pendsv /\ R.g_next_task = K.g_next_task
      /\ R.state = K.state /\ R.late = K.late /\ R.priority = K.priority
      /\ r = s => R = K
  BY <1>1, <1>2 DEF KernelCore, KernelTypeOK
<1> QED
  BY <1>1, <1>3, <1>4 DEF R, KernelCore, HasThreads, OnlyNext, IdleAlive

(* Writing priorities, as the mutex does when it elevates an owner and     *)
(* when it restores it, changes nothing else of the kernel.                *)
LEMMA PrioritySet ==
    ASSUME NEW K, KernelCore(K), NEW p \in [Task -> Priority]
    PROVE  LET R == [K EXCEPT !.priority = p] IN
           /\ KernelCore(R) /\ R.priority = p
           /\ R.state = K.state /\ R.delay_ticks = K.delay_ticks
           /\ R.wait_list_head = K.wait_list_head /\ R.timed_out = K.timed_out
           /\ R.waiters = K.waiters /\ R.s_task_count = K.s_task_count
           /\ R.g_current_task = K.g_current_task /\ R.g_next_task = K.g_next_task
           /\ R.pendsv = K.pendsv /\ R.late = K.late
<1> DEFINE R == [K EXCEPT !.priority = p]
<1>1. /\ KernelTypeOK(R) /\ R.priority = p
      /\ R.state = K.state /\ R.delay_ticks = K.delay_ticks
      /\ R.wait_list_head = K.wait_list_head /\ R.timed_out = K.timed_out
      /\ R.waiters = K.waiters /\ R.s_task_count = K.s_task_count
      /\ R.g_current_task = K.g_current_task /\ R.g_next_task = K.g_next_task
      /\ R.pendsv = K.pendsv /\ R.late = K.late
  BY DEF KernelCore, KernelTypeOK
<1> HIDE DEF R
<1> QED
  BY <1>1 DEF KernelCore, HasThreads, OnlyNext, IdleAlive, R

(* sched_wake_task of any task, on a list or not: a decision is taken.     *)
LEMMA WakeRuns ==
    ASSUME NEW K, KernelCore(K), NEW t \in Task
    PROVE  LET R == sched_wake_task(K, t) IN
           /\ KernelInv(R) /\ (R.g_next_task # R.g_current_task => R.pendsv)
           /\ R.priority = K.priority
           /\ R.s_task_count = K.s_task_count /\ R.g_current_task = K.g_current_task
<1> DEFINE cutted == [h \in WaitList |-> CutAfter(K.waiters[h], t)]
           W == [K EXCEPT !.waiters = cutted, !.delay_ticks[t] = 0, !.state[t] = "READY"]
           D == sched_pick_and_mark(W)
           R == TriggerIfSwitch(D)
<1>1. cutted \in [WaitList -> Seq(Task)]
  <2> SUFFICES ASSUME NEW s \in Seq(Task)
               PROVE  CutAfter(s, t) \in Seq(Task)
    BY DEF KernelCore, KernelTypeOK
  <2> DEFINE i == CHOOSE i \in DOMAIN s : s[i] = t
  <2>1. CASE \E j \in DOMAIN s : s[j] = t
    <3>1. i \in DOMAIN s /\ CutAfter(s, t) = SubSeq(s, 1, i)
      BY <2>1 DEF CutAfter
    <3> HIDE DEF i
    <3>2. i \in 1 .. Len(s) /\ Len(s) \in Nat
      BY <3>1
    <3> QED
      BY <3>1, <3>2, SubSeqProperties
  <2>2. CASE ~\E j \in DOMAIN s : s[j] = t
    BY <2>2 DEF CutAfter
  <2> QED
    BY <2>1, <2>2
<1> HIDE DEF cutted
<1>2. /\ KernelTypeOK(W) /\ W.state = [K.state EXCEPT ![t] = "READY"]
      /\ W.g_next_task = K.g_next_task /\ W.priority = K.priority
      /\ W.g_current_task = K.g_current_task /\ W.s_task_count = K.s_task_count
  BY <1>1 DEF KernelCore, KernelTypeOK, TaskState, Thread
<1>3. sched_wake_task(K, t) = R
  BY DEF sched_wake_task, WakeLocked, sched_pick_and_mark, cutted
<1> HIDE DEF W
<1>4. \A u \in Thread : W.state[u] = IF u = t THEN "READY" ELSE K.state[u]
  BY <1>2 DEF KernelCore, KernelTypeOK
<1>5. KernelCore(W)
  BY <1>2, <1>4, KernelAssumption
  DEF KernelCore, HasThreads, OnlyNext, IdleAlive, Thread, Task
<1>6. KernelInv(D) /\ SameWaits(W, D)
  BY <1>5, PickDecides
<1> HIDE DEF D
<1>7. KernelInv(R) /\ SameWaits(D, R) /\ (R.g_next_task # R.g_current_task => R.pendsv)
  BY <1>6, TriggerKeeps
<1> HIDE DEF R
<1> QED
  BY <1>2, <1>3, <1>6, <1>7 DEF SameWaits

(* The same for the critical section alone: the caller adds the trigger.   *)
LEMMA WakeLockedRuns ==
    ASSUME NEW K, KernelCore(K), NEW t \in Task, NEW R, R = WakeLocked(K, t)
    PROVE  /\ KernelInv(R) /\ R.pendsv = K.pendsv
           /\ R.priority = K.priority
           /\ R.s_task_count = K.s_task_count /\ R.g_current_task = K.g_current_task
           /\ \A u \in Task : u # t => R.delay_ticks[u] = K.delay_ticks[u]
           /\ \A u \in Task : R.state[u] = "BLOCKED" <=> u # t /\ K.state[u] = "BLOCKED"
           /\ R.wait_list_head = K.wait_list_head /\ R.timed_out = K.timed_out
<1> DEFINE cutted == [h \in WaitList |-> CutAfter(K.waiters[h], t)]
           W == [K EXCEPT !.waiters = cutted, !.delay_ticks[t] = 0, !.state[t] = "READY"]
           D == sched_pick_and_mark(W)
<1>1. cutted \in [WaitList -> Seq(Task)]
  <2> SUFFICES ASSUME NEW s \in Seq(Task)
               PROVE  CutAfter(s, t) \in Seq(Task)
    BY DEF KernelCore, KernelTypeOK
  <2> DEFINE i == CHOOSE i \in DOMAIN s : s[i] = t
  <2>1. CASE \E j \in DOMAIN s : s[j] = t
    <3>1. i \in DOMAIN s /\ CutAfter(s, t) = SubSeq(s, 1, i)
      BY <2>1 DEF CutAfter
    <3> HIDE DEF i
    <3>2. i \in 1 .. Len(s) /\ Len(s) \in Nat
      BY <3>1
    <3> QED
      BY <3>1, <3>2, SubSeqProperties
  <2>2. CASE ~\E j \in DOMAIN s : s[j] = t
    BY <2>2 DEF CutAfter
  <2> QED
    BY <2>1, <2>2
<1> HIDE DEF cutted
<1>2. /\ KernelTypeOK(W) /\ W.state = [K.state EXCEPT ![t] = "READY"]
      /\ W.g_next_task = K.g_next_task /\ W.priority = K.priority
      /\ W.g_current_task = K.g_current_task /\ W.s_task_count = K.s_task_count
      /\ W.wait_list_head = K.wait_list_head /\ W.timed_out = K.timed_out
      /\ W.pendsv = K.pendsv /\ W.delay_ticks = [K.delay_ticks EXCEPT ![t] = 0]
  BY <1>1 DEF KernelCore, KernelTypeOK, TaskState, Thread
<1>3. WakeLocked(K, t) = D
  BY DEF WakeLocked, sched_pick_and_mark, cutted
<1> HIDE DEF W
<1>4. \A u \in Thread : W.state[u] = IF u = t THEN "READY" ELSE K.state[u]
  BY <1>2 DEF KernelCore, KernelTypeOK
<1>5. KernelCore(W)
  BY <1>2, <1>4, KernelAssumption
  DEF KernelCore, HasThreads, OnlyNext, IdleAlive, Thread, Task
<1>6. KernelInv(D) /\ SameWaits(W, D) /\ D.pendsv = W.pendsv
  BY <1>5, PickDecides
<1> HIDE DEF D
<1>7. /\ R = D /\ Task \subseteq Thread
      /\ \A u \in Task : u # t => W.delay_ticks[u] = K.delay_ticks[u]
  BY <1>2, <1>3 DEF KernelCore, KernelTypeOK, Thread
<1>8. \A u \in Task : R.state[u] = "BLOCKED" <=> u # t /\ K.state[u] = "BLOCKED"
  BY <1>4, <1>6, <1>7 DEF SameWaits
<1>9. \A u \in Task : u # t => R.delay_ticks[u] = K.delay_ticks[u]
  BY <1>6, <1>7 DEF SameWaits
<1> QED
  BY <1>2, <1>6, <1>7, <1>8, <1>9 DEF SameWaits

(* sched_wake_task readies the task.  One that is on no list takes nobody  *)
(* off a list with it.                                                     *)
LEMMA WakeDecides ==
    ASSUME NEW K, KernelCore(K), NEW t \in Task,
           \A h \in WaitList : t \notin ToSet(K.waiters[h])
    PROVE  /\ LET R == WakeLocked(K, t) IN
              /\ KernelInv(R) /\ R.pendsv = K.pendsv
              /\ R.priority = K.priority /\ R.wait_list_head = K.wait_list_head
              /\ R.timed_out = K.timed_out /\ R.waiters = K.waiters
              /\ R.s_task_count = K.s_task_count /\ R.g_current_task = K.g_current_task
              /\ R.delay_ticks = [K.delay_ticks EXCEPT ![t] = 0]
              /\ \A u \in Thread : R.state[u] = "BLOCKED" <=> u # t /\ K.state[u] = "BLOCKED"
           /\ LET R == sched_wake_task(K, t) IN
              /\ KernelInv(R) /\ (R.g_next_task # R.g_current_task => R.pendsv)
              /\ R.priority = K.priority /\ R.wait_list_head = K.wait_list_head
              /\ R.timed_out = K.timed_out /\ R.waiters = K.waiters
              /\ R.s_task_count = K.s_task_count /\ R.g_current_task = K.g_current_task
              /\ R.delay_ticks = [K.delay_ticks EXCEPT ![t] = 0]
              /\ \A u \in Thread : R.state[u] = "BLOCKED" <=> u # t /\ K.state[u] = "BLOCKED"
<1> DEFINE cutted == [h \in WaitList |-> CutAfter(K.waiters[h], t)]
           W == [K EXCEPT !.waiters = cutted, !.delay_ticks[t] = 0, !.state[t] = "READY"]
           D == sched_pick_and_mark(W)
           R == TriggerIfSwitch(D)
<1>1. cutted = K.waiters
  <2>1. \A h \in WaitList : ~\E i \in DOMAIN K.waiters[h] : K.waiters[h][i] = t
    BY DEF ToSet
  <2> QED
    BY <2>1 DEF CutAfter, KernelCore, KernelTypeOK
<1> HIDE DEF cutted
<1>2. /\ KernelTypeOK(W) /\ W.state = [K.state EXCEPT ![t] = "READY"]
      /\ W.g_next_task = K.g_next_task
      /\ W.priority = K.priority /\ W.delay_ticks = [K.delay_ticks EXCEPT ![t] = 0]
      /\ W.wait_list_head = K.wait_list_head /\ W.timed_out = K.timed_out
      /\ W.waiters = K.waiters /\ W.pendsv = K.pendsv
      /\ W.g_current_task = K.g_current_task /\ W.s_task_count = K.s_task_count
  BY <1>1 DEF KernelCore, KernelTypeOK, TaskState, Thread
<1>3. WakeLocked(K, t) = D
  BY DEF WakeLocked, sched_pick_and_mark, cutted
<1> HIDE DEF W
<1>4. \A u \in Thread : W.state[u] = IF u = t THEN "READY" ELSE K.state[u]
  BY <1>2 DEF KernelCore, KernelTypeOK
<1>5. KernelCore(W)
  BY <1>2, <1>4, KernelAssumption
  DEF KernelCore, HasThreads, OnlyNext, IdleAlive, Thread, Task
<1>6. KernelInv(D) /\ SameWaits(W, D) /\ D.pendsv = W.pendsv
  BY <1>5, PickDecides
<1> HIDE DEF D
<1>7. KernelInv(R) /\ SameWaits(D, R) /\ (R.g_next_task # R.g_current_task => R.pendsv)
  BY <1>6, TriggerKeeps
<1>8. sched_wake_task(K, t) = R
  BY <1>3 DEF sched_wake_task
<1> HIDE DEF R
<1>9. SameWaits(W, R)
  BY <1>6, <1>7, SameWaitsTrans
<1>10. ASSUME NEW Q, SameWaits(W, Q)
       PROVE  /\ Q.priority = K.priority /\ Q.wait_list_head = K.wait_list_head
              /\ Q.timed_out = K.timed_out /\ Q.waiters = K.waiters
              /\ Q.g_current_task = K.g_current_task /\ Q.s_task_count = K.s_task_count
              /\ Q.delay_ticks = [K.delay_ticks EXCEPT ![t] = 0]
              /\ \A u \in Thread : Q.state[u] = "BLOCKED" <=> u # t /\ K.state[u] = "BLOCKED"
  BY <1>2, <1>4, <1>10 DEF SameWaits
<1> QED
  BY <1>2, <1>3, <1>6, <1>7, <1>8, <1>9, <1>10
-----------------------------------------------------------------------------
(* Decisions while nobody is paused.                                       *)

NobodyPaused(K) == \A t \in Thread : K.state[t] # "PAUSED"

(* The committed thread is RUNNING, and no task was readied or lowered     *)
(* since the choice was made.                                              *)
Decided(K) == NobodyPaused(K) /\ K.state[K.g_next_task] = "RUNNING" /\ K.late = {}

(* sched_commit_next finds its choice READY and marks it RUNNING.          *)
LEMMA CommitDecided ==
    ASSUME NEW K, KernelCore(K), K.state[K.g_current_task] # "RUNNING", NobodyPaused(K)
    PROVE  Decided(sched_commit_next(K))
<1> DEFINE U == Uncommit(K)
           n == sched_select_next(U)
           R == Commit(U, n)
<1>0. KernelTypeOK(K) /\ HasThreads(K) /\ OnlyNext(K) /\ IdleAlive(K)
  BY DEF KernelCore
<1>1. /\ KernelTypeOK(U)
      /\ \A t \in Thread : U.state[t] # "RUNNING"
      /\ \A t \in Thread : K.state[t] # "RUNNING" => U.state[t] = K.state[t]
      /\ \A t \in Thread : K.state[t] = "RUNNING" => U.state[t] = "READY"
  BY <1>0, UncommitClears
<1>2. NobodyPaused(U) /\ U.state[IdleTask] = "READY"
  BY <1>0, <1>1 DEF NobodyPaused, IdleAlive, Thread
<1>3. /\ Ready(U) = {} => n = IdleTask
      /\ Ready(U) # {} => n \in Best(U)
  BY <1>1, SelectNext
<1>4. Ready(U) \subseteq Task
  BY <1>1, CreatedTasks
<1>5. n \in Thread /\ U.state[n] = "READY"
  BY <1>2, <1>3, <1>4 DEF Best, Ready, Thread
<1>6. R = sched_commit_next(K)
  BY DEF sched_commit_next
<1> HIDE DEF U, n
<1>7. R.state = [U.state EXCEPT ![n] = "RUNNING"] /\ R.g_next_task = n /\ R.late = {}
  BY <1>1, <1>5 DEF Commit, KernelTypeOK, TaskState
<1> HIDE DEF R
<1>8. /\ R.state[n] = "RUNNING"
      /\ \A t \in Thread : t # n => R.state[t] = U.state[t]
  BY <1>1, <1>5, <1>7 DEF KernelTypeOK
<1> QED
  BY <1>2, <1>6, <1>7, <1>8 DEF Decided, NobodyPaused

(* ... and so do the calls that end in it.                                 *)
LEMMA PickDecided ==
    ASSUME NEW K, KernelCore(K), NobodyPaused(K)
    PROVE  Decided(sched_pick_and_mark(K))
<1> DEFINE P == Preempt(K)
<1>1. /\ KernelCore(P) /\ P.state[P.g_current_task] # "RUNNING"
      /\ SameWaits(K, P) /\ P.pendsv = K.pendsv
  BY PreemptClears
<1>2. NobodyPaused(P)
  BY DEF NobodyPaused, Preempt, KernelCore, KernelTypeOK, HasThreads
<1> HIDE DEF P
<1>3. Decided(sched_commit_next(P))
  BY <1>1, <1>2, CommitDecided
<1> QED
  BY <1>3 DEF sched_pick_and_mark, P

(* Setting the PendSV bit leaves the decision as it was.                   *)
LEMMA TriggerDecided ==
    ASSUME NEW K, KernelTypeOK(K), Decided(K)
    PROVE  Decided(trigger_pendsv(K)) /\ Decided(TriggerIfSwitch(K))
<1>1. Decided(trigger_pendsv(K))
  BY DEF Decided, NobodyPaused, trigger_pendsv, KernelTypeOK
<1> QED
  BY <1>1 DEF TriggerIfSwitch

(* sched_tick_n ends in sched_pick_and_mark: a decision was made.          *)
LEMMA TickDecided ==
    ASSUME NEW K, KernelCore(K), NobodyPaused(K), NEW n \in Nat
    PROVE  Decided(sched_tick_n(K, n))
<1> DEFINE C == CountDown(K, n)
           D == sched_pick_and_mark(C)
<1>0. KernelTypeOK(K)
  BY DEF KernelCore
<1>1. /\ KernelTypeOK(C)
      /\ C.g_current_task = K.g_current_task
      /\ C.g_next_task = K.g_next_task
      /\ C.pendsv = K.pendsv
      /\ \A t \in Thread : \/ C.state[t] = K.state[t]
                           \/ K.state[t] = "BLOCKED" /\ C.state[t] = "READY"
  BY <1>0, CountDownReadies
<1> HIDE DEF C
<1>2. KernelCore(C)
  BY <1>1 DEF KernelCore, HasThreads, OnlyNext, IdleAlive, Thread
<1>3. NobodyPaused(C)
  BY <1>1 DEF NobodyPaused
<1>4. Decided(D) /\ KernelInv(D)
  BY <1>2, <1>3, PickDecided, PickDecides
<1>5. sched_tick_n(K, n) = TriggerIfSwitch(D)
  BY DEF sched_tick_n, sched_pick_and_mark, C
<1> HIDE DEF D
<1>6. KernelTypeOK(D)
  BY <1>4 DEF KernelInv, KernelCore
<1> QED
  BY <1>4, <1>5, <1>6, TriggerDecided

(* A task that blocks picks its successor in the same critical section.    *)
LEMMA BlockOnDecided ==
    ASSUME NEW K, KernelCore(K), NobodyPaused(K), NEW t \in Task, NEW h \in WaitList
    PROVE  Decided(BlockOn(K, t, h))
<1> DEFINE B == [K EXCEPT !.state[t] = "BLOCKED"]
           I == wq_insert(B, h, t)
           D == sched_pick_and_mark(I)
<1>1. /\ KernelTypeOK(B) /\ B.state = [K.state EXCEPT ![t] = "BLOCKED"]
      /\ B.g_next_task = K.g_next_task /\ B.g_current_task = K.g_current_task
  BY DEF KernelCore, KernelTypeOK, TaskState, Thread
<1> HIDE DEF B
<1>2. \A u \in Thread : B.state[u] = IF u = t THEN "BLOCKED" ELSE K.state[u]
  BY <1>1 DEF KernelCore, KernelTypeOK
<1>3. KernelCore(B) /\ NobodyPaused(B)
  BY <1>1, <1>2, KernelAssumption
  DEF KernelCore, HasThreads, OnlyNext, IdleAlive, Thread, Task, NobodyPaused
<1>4. I = [B EXCEPT !.waiters = I.waiters] /\ I.waiters \in [WaitList -> Seq(Task)]
  BY <1>1, InsertWaiter
<1> HIDE DEF I
<1>5. /\ KernelTypeOK(I) /\ I.state = B.state /\ I.g_next_task = B.g_next_task
      /\ I.g_current_task = B.g_current_task
  BY <1>1, <1>4 DEF KernelTypeOK
<1>6. KernelCore(I) /\ NobodyPaused(I)
  BY <1>3, <1>5 DEF KernelCore, HasThreads, OnlyNext, IdleAlive, NobodyPaused
<1>7. Decided(D) /\ KernelInv(D)
  BY <1>6, PickDecided, PickDecides
<1>8. BlockOn(K, t, h) = trigger_pendsv(D)
  BY DEF BlockOn, sched_block_locked, B, I, D
<1> HIDE DEF D
<1>9. KernelTypeOK(D)
  BY <1>7 DEF KernelInv, KernelCore
<1> QED
  BY <1>7, <1>8, <1>9, TriggerDecided

(* sched_wake_task of a task in no list picks again.                       *)
LEMMA WakeDecided ==
    ASSUME NEW K, KernelCore(K), NobodyPaused(K), NEW t \in Task,
           \A h \in WaitList : t \notin ToSet(K.waiters[h])
    PROVE  Decided(sched_wake_task(K, t))
<1> DEFINE cutted == [h \in WaitList |-> CutAfter(K.waiters[h], t)]
           W == [K EXCEPT !.waiters = cutted, !.delay_ticks[t] = 0, !.state[t] = "READY"]
           D == sched_pick_and_mark(W)
<1>1. cutted = K.waiters
  <2>1. \A h \in WaitList : ~\E i \in DOMAIN K.waiters[h] : K.waiters[h][i] = t
    BY DEF ToSet
  <2> QED
    BY <2>1 DEF CutAfter, KernelCore, KernelTypeOK
<1> HIDE DEF cutted
<1>2. /\ KernelTypeOK(W) /\ W.state = [K.state EXCEPT ![t] = "READY"]
      /\ W.g_next_task = K.g_next_task /\ W.g_current_task = K.g_current_task
  BY <1>1 DEF KernelCore, KernelTypeOK, TaskState, Thread
<1>3. sched_wake_task(K, t) = TriggerIfSwitch(D)
  BY DEF sched_wake_task, WakeLocked, sched_pick_and_mark, cutted
<1> HIDE DEF W
<1>4. \A u \in Thread : W.state[u] = IF u = t THEN "READY" ELSE K.state[u]
  BY <1>2 DEF KernelCore, KernelTypeOK
<1>5. KernelCore(W) /\ NobodyPaused(W)
  BY <1>2, <1>4, KernelAssumption
  DEF KernelCore, HasThreads, OnlyNext, IdleAlive, Thread, Task, NobodyPaused
<1>6. Decided(D) /\ KernelInv(D)
  BY <1>5, PickDecided, PickDecides
<1> HIDE DEF D
<1>7. KernelTypeOK(D)
  BY <1>6 DEF KernelInv, KernelCore
<1> QED
  BY <1>3, <1>6, <1>7, TriggerDecided
-----------------------------------------------------------------------------
(* Memory in which only the waiting fields of tasks have changed.          *)
SameButWaits(K, R) ==
    /\ KernelTypeOK(R)
    /\ R.state = K.state /\ R.delay_ticks = K.delay_ticks
    /\ R.priority = K.priority /\ R.late = K.late
    /\ R.waiters = K.waiters /\ R.s_task_count = K.s_task_count
    /\ R.g_current_task = K.g_current_task /\ R.g_next_task = K.g_next_task
    /\ R.pendsv = K.pendsv

(* No decision depends on them.                                            *)
LEMMA WaitFieldsKept ==
    ASSUME NEW K, KernelInv(K), NEW R, SameButWaits(K, R)
    PROVE  KernelInv(R)
BY DEF SameButWaits, KernelInv, KernelCore, HasThreads, OnlyNext, IdleAlive, NextMostUrgent,
       Ready, Created

(* BlockOnDecides, for a result that has a name.                           *)
LEMMA BlockOnResult ==
    ASSUME NEW K, KernelCore(K), NEW t \in Task, NEW h \in WaitList,
           NEW R, R = BlockOn(K, t, h)
    PROVE  /\ KernelInv(R) /\ R.pendsv
           /\ R.priority = K.priority /\ R.delay_ticks = K.delay_ticks
           /\ R.wait_list_head = K.wait_list_head /\ R.timed_out = K.timed_out
           /\ R.g_current_task = K.g_current_task /\ R.s_task_count = K.s_task_count
           /\ \A u \in Thread : R.state[u] = "BLOCKED" <=> u = t \/ K.state[u] = "BLOCKED"
           /\ \A g \in WaitList : g # h => R.waiters[g] = K.waiters[g]
           /\ ToSet(R.waiters[h]) = ToSet(K.waiters[h]) \cup {t}
           /\ Once(K.waiters[h]) /\ t \notin ToSet(K.waiters[h]) => Once(R.waiters[h])
           /\ Sorted(K.waiters[h], K.priority) => Sorted(R.waiters[h], K.priority)
<1> DEFINE B == BlockOn(K, t, h)
<1>1. /\ KernelInv(B) /\ B.pendsv
      /\ B.priority = K.priority /\ B.delay_ticks = K.delay_ticks
      /\ B.wait_list_head = K.wait_list_head /\ B.timed_out = K.timed_out
      /\ B.g_current_task = K.g_current_task /\ B.s_task_count = K.s_task_count
      /\ \A u \in Thread : B.state[u] = "BLOCKED" <=> u = t \/ K.state[u] = "BLOCKED"
      /\ \A g \in WaitList : g # h => B.waiters[g] = K.waiters[g]
      /\ ToSet(B.waiters[h]) = ToSet(K.waiters[h]) \cup {t}
      /\ Once(K.waiters[h]) /\ t \notin ToSet(K.waiters[h]) => Once(B.waiters[h])
      /\ Sorted(K.waiters[h], K.priority) => Sorted(B.waiters[h], K.priority)
  BY BlockOnDecides
<1> HIDE DEF B
<1>2. R = B
  BY DEF B
<1> QED
  BY <1>1, <1>2
=============================================================================
