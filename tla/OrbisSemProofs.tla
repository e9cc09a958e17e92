--------------------------- MODULE OrbisSemProofs ---------------------------
(***************************************************************************)
(* Theorems about OrbisSem, for any set of threads and priorities, both    *)
(* queueing orders, and any init_count, max_count and counts.              *)
(***************************************************************************)
EXTENDS OrbisSem, FiniteSetTheorems, SequenceTheorems, TLAPS

Unique(s) == \A i, j \in DOMAIN s : s[i] = s[j] => i = j

\* Who holds the mutex is in the loop of Signal.
MutexInv == \A t \in Threads : pc[t] = "signal" <=> mutex = t

\* A thread outside Wait has no WaitingThread.
IdleInv ==
    \A t \in Threads : ~InWait(t) => flags[t] = {} /\ need_count[t] = 0

\* A host semaphore is released once, with the decision about its waiter.
SemInv == \A t \in Threads : flags[t] = {} => sem[t] = 0

\* A waiter waits for a count the guest passed.
NeedInv == \A t \in Threads : need_count[t] <= MaxCount

\* The list and the order of arrival have no repetitions and hold the same threads.
ListInv ==
    /\ Unique(wait_list) /\ Unique(arrivals)
    /\ Elems(arrivals) = Elems(wait_list)

\* The loop of Signal leaves behind it only waiters that need more than is left.
LoopInv ==
    mutex # None =>
        /\ it \in 1..(Len(wait_list) + 1)
        /\ \A i \in DOMAIN wait_list : i < it => need_count[wait_list[i]] > token_count

\* What holds as long as the semaphore is in its slot.
SlotInv ==
    /\ MutexInv /\ IdleInv /\ SemInv /\ NeedInv /\ ListInv /\ LoopInv
    /\ NoIdleWaiter /\ ListedExact
    /\ IsFiniteSet(Granted) /\ TokensConserved

\* The inductive invariant.
IInv == TypeOK /\ OrderKept /\ (slot => SlotInv)

-----------------------------------------------------------------------------
(* Lists                                                                   *)

\* A set of natural numbers has a least one.
LEMMA LeastNat ==
  ASSUME NEW T, T \subseteq Nat, T # {}
  PROVE  \E x \in T : \A y \in T : x <= y
<1> DEFINE R == OpToRel(<, Nat)
<1>1. IsWellFoundedOn(R, Nat)
  BY NatLessThanWellFounded
<1>2. R = {ss \in Nat \X Nat : ss[1] < ss[2]}
  BY DEF OpToRel
<1> HIDE DEF R
<1>3. PICK x \in T : \A y \in T : ~(<<y, x>> \in R)
  BY <1>1, WFMin
<1>4. ASSUME NEW y \in T PROVE x <= y
  <2>1. x \in Nat /\ y \in Nat
    OBVIOUS
  <2>2. CASE y < x
    <3>1. <<y, x>> \in R
      BY <1>2, <2>1, <2>2
    <3> QED
      BY <1>3, <3>1
  <2> QED
    BY <2>1, <2>2
<1> QED
  BY <1>4

\* A list without its k-th element.
LEMMA WithoutProps ==
  ASSUME NEW S, NEW s \in Seq(S), Unique(s), NEW k \in DOMAIN s
  PROVE  /\ Without(s, s[k]) \in Seq(S)
         /\ Len(Without(s, s[k])) = Len(s) - 1
         /\ DOMAIN Without(s, s[k]) = 1..(Len(s) - 1)
         /\ \A j \in 1..(Len(s) - 1) :
               Without(s, s[k])[j] = IF j < k THEN s[j] ELSE s[j + 1]
<1> DEFINE m == CHOOSE i \in DOMAIN s : s[i] = s[k]
           e == [j \in 1..(Len(s) - 1) |-> IF j < k THEN s[j] ELSE s[j + 1]]
<1>1. Len(s) \in Nat /\ DOMAIN s = 1..Len(s) /\ \A i \in 1..Len(s) : s[i] \in S
  BY ElementOfSeq, LenProperties
<1>2. m \in DOMAIN s /\ s[m] = s[k]
  OBVIOUS
<1>3. m = k
  BY <1>2 DEF Unique
<1>4. Without(s, s[k]) = e
  BY <1>3 DEF Without
<1>5. Len(s) - 1 \in Nat
  BY <1>1
<1>6. e \in [1..(Len(s) - 1) -> S]
  BY <1>1
<1>7. e \in Seq(S) /\ Len(e) = Len(s) - 1 /\ DOMAIN e = 1..(Len(s) - 1)
  BY <1>5, <1>6, SeqDef, LenProperties
<1>8. \A j \in 1..(Len(s) - 1) : e[j] = IF j < k THEN s[j] ELSE s[j + 1]
  OBVIOUS
<1> HIDE DEF e
<1> QED
  BY <1>4, <1>7, <1>8

\* Each element of the shorter list was in the longer one, in the same order.
LEMMA WithoutOrder ==
  ASSUME NEW S, NEW s \in Seq(S), Unique(s), NEW x \in Elems(s)
  PROVE  /\ Without(s, x) \in Seq(S)
         /\ Unique(Without(s, x))
         /\ Elems(Without(s, x)) = Elems(s) \ {x}
         /\ \A t, u : t # x /\ u # x /\ Before(s, t, u) => Before(Without(s, x), t, u)
         /\ \A t, u : Before(Without(s, x), t, u) => Before(s, t, u)
<1>1. PICK k \in DOMAIN s : s[k] = x
  BY DEF Elems
<1> DEFINE e == Without(s, x)
<1>2. /\ e \in Seq(S) /\ DOMAIN e = 1..(Len(s) - 1)
      /\ \A j \in 1..(Len(s) - 1) : e[j] = IF j < k THEN s[j] ELSE s[j + 1]
  BY <1>1, WithoutProps
<1>3. Len(s) \in Nat /\ DOMAIN s = 1..Len(s) /\ k \in 1..Len(s)
  BY LenProperties
<1> HIDE DEF e
<1> DEFINE up(j) == IF j < k THEN j ELSE j + 1
           down(i) == IF i < k THEN i ELSE i - 1
<1>4. ASSUME NEW j \in DOMAIN e
      PROVE  up(j) \in DOMAIN s /\ e[j] = s[up(j)] /\ up(j) # k
  BY <1>2, <1>3
<1>5. ASSUME NEW i \in DOMAIN s, i # k
      PROVE  down(i) \in DOMAIN e /\ s[i] = e[down(i)]
  BY <1>2, <1>3, <1>5
<1>6. Unique(e)
  <2> SUFFICES ASSUME NEW i \in DOMAIN e, NEW j \in DOMAIN e, e[i] = e[j] PROVE i = j
    BY DEF Unique
  <2>1. up(i) = up(j)
    BY <1>4 DEF Unique
  <2> QED
    BY <2>1, <1>2, <1>3
<1>7. ASSUME NEW y PROVE y \in Elems(e) <=> y \in Elems(s) /\ y # x
  <2>1. ASSUME NEW j \in DOMAIN e, e[j] = y PROVE y \in Elems(s) /\ y # x
    BY <1>1, <1>4, <2>1 DEF Elems, Unique
  <2>2. ASSUME NEW i \in DOMAIN s, s[i] = y, y # x PROVE y \in Elems(e)
    BY <1>1, <1>5, <2>2 DEF Elems
  <2> QED
    BY <2>1, <2>2 DEF Elems
<1>8. ASSUME NEW t, NEW u, t # x, u # x, Before(s, t, u) PROVE Before(e, t, u)
  <2>1. PICK i, j \in DOMAIN s : i < j /\ s[i] = t /\ s[j] = u
    BY <1>8 DEF Before
  <2>2. i # k /\ j # k
    BY <1>1, <1>8, <2>1
  <2>3. down(i) < down(j)
    BY <1>3, <2>1, <2>2
  <2> HIDE DEF down
  <2> QED
    BY <1>5, <2>1, <2>2, <2>3 DEF Before
<1>9. ASSUME NEW t, NEW u, Before(e, t, u) PROVE Before(s, t, u)
  <2>1. PICK i, j \in DOMAIN e : i < j /\ e[i] = t /\ e[j] = u
    BY <1>9 DEF Before
  <2>2. up(i) < up(j)
    BY <1>2, <1>3, <2>1
  <2> HIDE DEF up
  <2> QED
    BY <1>4, <2>1, <2>2 DEF Before
<1> QED
  BY <1>2, <1>6, <1>7, <1>8, <1>9 DEF e

\* The elements of a list of threads are threads.
LEMMA ElemsType ==
  ASSUME NEW S, NEW s \in Seq(S)
  PROVE  Elems(s) \subseteq S
  BY ElementOfSeq, LenProperties DEF Elems

\* A list with a new element at place k.
Insert(s, k, x) == SubSeq(s, 1, k - 1) \o <<x>> \o SubSeq(s, k, Len(s))

\* The elements of such a list.
LEMMA InsertProps ==
  ASSUME NEW S, NEW s \in Seq(S), NEW x \in S, NEW k \in 1..(Len(s) + 1)
  PROVE  /\ Insert(s, k, x) \in Seq(S)
         /\ DOMAIN Insert(s, k, x) = 1..(Len(s) + 1)
         /\ \A j \in 1..(Len(s) + 1) :
               Insert(s, k, x)[j] = IF j < k THEN s[j] ELSE IF j = k THEN x ELSE s[j - 1]
<1> DEFINE a == SubSeq(s, 1, k - 1)
           b == <<x>>
           c == SubSeq(s, k, Len(s))
           ab == a \o b
           e == ab \o c
<1>1. Len(s) \in Nat /\ \A i \in 1..Len(s) : s[i] \in S
  BY ElementOfSeq, LenProperties
<1>2. a \in Seq(S) /\ Len(a) = k - 1 /\ \A i \in 1..(k - 1) : a[i] = s[i]
  <2>1. k - 1 \in Int /\ \A i \in 1..(k - 1) : s[i] \in S
    BY <1>1
  <2> QED
    BY <1>1, <2>1, SubSeqProperties
<1>3. b \in Seq(S) /\ Len(b) = 1 /\ b[1] = x
  OBVIOUS
<1>4. /\ c \in Seq(S) /\ Len(c) = Len(s) - k + 1
      /\ \A i \in 1..(Len(s) - k + 1) : c[i] = s[k + i - 1]
  <2>1. \A i \in k..Len(s) : s[i] \in S
    BY <1>1
  <2> QED
    BY <1>1, <2>1, SubSeqProperties
<1> HIDE DEF a, b, c
<1>5. /\ ab \in Seq(S) /\ Len(ab) = k
      /\ \A i \in 1..k : ab[i] = IF i <= k - 1 THEN a[i] ELSE b[i - (k - 1)]
  <2>0. a \in Seq(S) /\ b \in Seq(S)
    BY <1>2, <1>3
  <2>1. /\ a \o b \in Seq(S) /\ Len(a \o b) = Len(a) + Len(b)
        /\ \A i \in 1 .. Len(a) + Len(b) :
              (a \o b)[i] = IF i <= Len(a) THEN a[i] ELSE b[i - Len(a)]
    BY <2>0, ConcatProperties, Z3
  <2> QED
    BY <1>1, <1>2, <1>3, <2>1
<1> HIDE DEF ab
<1>6. /\ e \in Seq(S) /\ Len(e) = Len(s) + 1
      /\ \A i \in 1..(Len(s) + 1) : e[i] = IF i <= k THEN ab[i] ELSE c[i - k]
  <2>1. /\ ab \o c \in Seq(S) /\ Len(ab \o c) = Len(ab) + Len(c)
        /\ \A i \in 1 .. Len(ab) + Len(c) :
              (ab \o c)[i] = IF i <= Len(ab) THEN ab[i] ELSE c[i - Len(ab)]
    BY <1>4, <1>5, ConcatProperties, Z3
  <2> QED
    BY <1>1, <1>4, <1>5, <2>1
<1>7. DOMAIN e = 1..(Len(s) + 1)
  BY <1>6, LenProperties
<1> HIDE DEF e
<1>8. ASSUME NEW j \in 1..(Len(s) + 1)
      PROVE  e[j] = IF j < k THEN s[j] ELSE IF j = k THEN x ELSE s[j - 1]
  <2>1. CASE j < k
    <3>1. e[j] = ab[j] /\ ab[j] = a[j] /\ a[j] = s[j]
      BY <1>1, <1>2, <1>5, <1>6, <2>1
    <3> QED
      BY <2>1, <3>1
  <2>2. CASE j = k
    <3>1. e[j] = ab[j] /\ ab[j] = b[1]
      BY <1>1, <1>2, <1>5, <1>6, <2>2
    <3> QED
      BY <1>3, <2>2, <3>1
  <2>3. CASE j > k
    <3>1. e[j] = c[j - k] /\ c[j - k] = s[j - 1]
      BY <1>1, <1>4, <1>6, <2>3
    <3> QED
      BY <2>3, <3>1
  <2> QED
    BY <2>1, <2>2, <2>3
<1>9. Insert(s, k, x) = e
  BY DEF Insert, e, ab, a, b, c
<1> QED
  BY <1>6, <1>7, <1>8, <1>9

-----------------------------------------------------------------------------
(* Tokens                                                                  *)

\* The tokens of one waiter.
LEMMA TokenSet ==
  ASSUME NEW t, NEW n \in Nat
  PROVE  IsFiniteSet({t} \X (1..n)) /\ Cardinality({t} \X (1..n)) = n
<1>1. IsFiniteSet({t}) /\ Cardinality({t}) = 1
  BY FS_Singleton
<1>2. IsFiniteSet(1..n) /\ Cardinality(1..n) = n
  BY FS_Interval
<1>3. /\ IsFiniteSet({t} \X (1..n))
      /\ Cardinality({t} \X (1..n)) = Cardinality({t}) * Cardinality(1..n)
  BY <1>1, <1>2, FS_Product
<1> QED
  BY <1>1, <1>2, <1>3

\* Sets without a common element add up.
LEMMA DisjointUnion ==
  ASSUME NEW A, IsFiniteSet(A), NEW B, IsFiniteSet(B), A \cap B = {}
  PROVE  IsFiniteSet(A \cup B) /\ Cardinality(A \cup B) = Cardinality(A) + Cardinality(B)
<1>1. Cardinality(A) \in Nat /\ Cardinality(B) \in Nat
  BY FS_CardinalityType
<1>2. /\ IsFiniteSet(A \cup B)
      /\ Cardinality(A \cup B) = Cardinality(A) + Cardinality(B) - Cardinality(A \cap B)
  BY FS_Union
<1>3. Cardinality(A \cap B) = 0
  BY FS_EmptySet
<1> QED
  BY <1>1, <1>2, <1>3

\* Nobody gets tokens and nobody returns with them.
LEMMA GrantedSame ==
  ASSUME \A t \in Threads :
            /\ (InWait(t) /\ "signaled" \in flags[t])' <=> InWait(t) /\ "signaled" \in flags[t]
            /\ InWait(t) /\ "signaled" \in flags[t] => need_count'[t] = need_count[t]
  PROVE  Granted' = Granted
  BY DEF Granted

-----------------------------------------------------------------------------
(* The inductive invariant                                                 *)

\* A new semaphore has init_count tokens and no waiters.
LEMMA InitIInv == Init => IInv
<1> SUFFICES ASSUME Init PROVE IInv
  OBVIOUS
<1> USE CreateAssumption, NoneAssumption DEF Init
<1>1. TypeOK
  BY DEF TypeOK, PCs
<1>2. OrderKept
  BY DEF OrderKept
<1>3. MutexInv /\ IdleInv /\ SemInv /\ NeedInv /\ LoopInv
  BY DEF MutexInv, IdleInv, SemInv, NeedInv, LoopInv
<1>4. ListInv /\ NoIdleWaiter /\ ListedExact
  BY DEF ListInv, Unique, Elems, NoIdleWaiter, ListedExact, InWait
<1>5. Granted = {}
  BY DEF Granted, InWait
<1>6. IsFiniteSet(Granted) /\ TokensConserved
  BY <1>5, FS_EmptySet DEF TokensConserved
<1> QED
  BY <1>1, <1>2, <1>3, <1>4, <1>6 DEF IInv, SlotInv

\* A Wait that takes tokens leaves less for those who wait.
LEMMA WaitTakeKeeps ==
  ASSUME IInv, NEW t \in Threads, NEW n \in Counts, WaitTake(t, n)
  PROVE  IInv'
<1> USE CountAssumption DEF WaitTake, waiterVars, IInv, SlotInv
<1>1. TypeOK'
  BY CreateAssumption DEF TypeOK
<1>2. OrderKept'
  BY DEF OrderKept, Before, Priority
<1>3. MutexInv' /\ IdleInv' /\ SemInv' /\ NeedInv' /\ ListInv' /\ LoopInv'
  BY DEF MutexInv, IdleInv, InWait, SemInv, NeedInv, ListInv, LoopInv, Unique, Elems
<1>4. ListedExact'
  BY DEF ListedExact, InWait
<1>5. NoIdleWaiter'
  <2>1. Elems(wait_list) \subseteq Threads
    BY ElemsType DEF TypeOK
  <2>2. n \in Nat /\ token_count' \in Nat /\ token_count' <= token_count
    BY CreateAssumption DEF TypeOK
  <2> SUFFICES ASSUME NEW u \in Elems(wait_list) PROVE need_count[u] > token_count'
    BY DEF NoIdleWaiter
  <2>3. need_count[u] \in Nat /\ need_count[u] > token_count
    BY <2>1 DEF NoIdleWaiter, TypeOK
  <2> QED
    BY <2>2, <2>3 DEF TypeOK
<1>6. Granted' = Granted
  BY DEF Granted, InWait
<1>7. IsFiniteSet(Granted)' /\ TokensConserved'
  <2>1. Cardinality(Granted) \in Nat
    BY FS_CardinalityType
  <2> QED
    BY <1>6, <2>1 DEF TokensConserved, TypeOK
<1> QED
  BY <1>1, <1>2, <1>3, <1>4, <1>5, <1>7

\* AddWaiter puts a thread behind the waiters that are not after it by priority and in
\* front of the others.
LEMMA AddWaiterPlace ==
  ASSUME TypeOK, OrderKept, NEW t \in Threads
  PROVE  \E k \in 1..(Len(wait_list) + 1) :
            /\ AddWaiter(t) = Insert(wait_list, k, t)
            /\ \A j \in 1..Len(wait_list) :
                  /\ j < k => Priority(wait_list[j]) <= Priority(t)
                  /\ j >= k => Priority(wait_list[j]) > Priority(t)
<1> DEFINE n == Len(wait_list)
           behind == {i \in DOMAIN wait_list : Priority(wait_list[i]) > Priority(t)}
           i == IF IsFifo \/ behind = {} THEN n + 1
                ELSE CHOOSE i \in behind : \A j \in behind : i <= j
<1>1. n \in Nat /\ DOMAIN wait_list = 1..n /\ \A j \in 1..n : wait_list[j] \in Threads
  BY ElementOfSeq, LenProperties DEF TypeOK
<1>2. \A u \in Threads : Priority(u) \in Nat
  BY PrioAssumption DEF Priority
<1>3. AddWaiter(t) = Insert(wait_list, i, t)
  BY DEF AddWaiter, Insert
<1>4. CASE behind = {}
  <2>1. i = n + 1
    BY <1>4
  <2>2. \A j \in 1..n : Priority(wait_list[j]) <= Priority(t)
    BY <1>1, <1>2, <1>4
  <2> HIDE DEF i, behind
  <2>3. i \in 1..(n + 1) /\ \A j \in 1..n : /\ j < i => Priority(wait_list[j]) <= Priority(t)
                                            /\ j >= i => Priority(wait_list[j]) > Priority(t)
    BY <1>1, <2>1, <2>2
  <2> QED
    BY <1>3, <2>3, Zenon
<1>5. CASE behind # {}
  <2>1. ~IsFifo
    BY <1>5 DEF Priority
  <2>2. \E x \in behind : \A y \in behind : x <= y
    <3>1. behind \subseteq Nat
      BY <1>1
    <3> QED
      BY <1>5, <3>1, LeastNat
  <2>3. i \in behind /\ \A y \in behind : i <= y
    BY <1>5, <2>1, <2>2
  <2>4. i \in 1..n /\ Priority(wait_list[i]) > Priority(t)
    BY <1>1, <2>3
  <2> HIDE DEF i
  <2>5. ASSUME NEW j \in 1..n, j < i PROVE Priority(wait_list[j]) <= Priority(t)
    BY <1>1, <1>2, <2>3, <2>4, <2>5
  <2>6. ASSUME NEW j \in 1..n, j >= i PROVE Priority(wait_list[j]) > Priority(t)
    <3>1. CASE j = i
      BY <2>4, <3>1
    <3>2. CASE i < j
      <4>1. Priority(wait_list[i]) <= Priority(wait_list[j])
        BY <1>1, <1>2, <2>4, <3>2 DEF OrderKept
      <4> QED
        BY <1>1, <1>2, <2>4, <4>1
    <3> QED
      BY <2>4, <2>6, <3>1, <3>2
  <2> HIDE DEF behind
  <2>7. i \in 1..(n + 1)
    BY <1>1, <2>4
  <2> QED
    BY <1>3, <2>5, <2>6, <2>7, Zenon
<1> QED
  BY <1>4, <1>5

\* A list without repetitions has none with a new element either.
LEMMA InsertNew ==
  ASSUME NEW S, NEW s \in Seq(S), Unique(s), NEW x, x \notin Elems(s),
         NEW k \in 1..(Len(s) + 1), NEW e, DOMAIN e = 1..(Len(s) + 1),
         \A j \in 1..(Len(s) + 1) :
            e[j] = IF j < k THEN s[j] ELSE IF j = k THEN x ELSE s[j - 1]
  PROVE  Unique(e) /\ Elems(e) = Elems(s) \cup {x}
<1>1. Len(s) \in Nat /\ DOMAIN s = 1..Len(s)
  BY LenProperties
<1>2. \A j \in DOMAIN s : s[j] # x
  BY DEF Elems
<1>3. Unique(e)
  <2> DEFINE old(j) == IF j < k THEN j ELSE j - 1
  <2>1. ASSUME NEW j \in DOMAIN e, j # k
        PROVE  old(j) \in DOMAIN s /\ e[j] = s[old(j)] /\ e[j] # x
    BY <1>1, <1>2, <2>1
  <2>2. e[k] = x
    BY <1>1
  <2> SUFFICES ASSUME NEW i \in DOMAIN e, NEW j \in DOMAIN e, e[i] = e[j] PROVE i = j
    BY DEF Unique
  <2>3. CASE i # k /\ j # k
    <3>1. old(i) = old(j)
      BY <2>1, <2>3 DEF Unique
    <3> QED
      BY <1>1, <2>3, <3>1
  <2> QED
    BY <2>1, <2>2, <2>3
<1>4. ASSUME NEW y PROVE y \in Elems(e) <=> y \in Elems(s) \/ y = x
  <2>1. ASSUME NEW j \in DOMAIN e, e[j] = y PROVE y \in Elems(s) \/ y = x
    <3>1. CASE j < k
      <4>1. j \in DOMAIN s /\ s[j] = y
        BY <1>1, <2>1, <3>1
      <4> QED
        BY <4>1 DEF Elems
    <3>2. CASE j = k
      BY <2>1, <3>2
    <3>3. CASE j > k
      <4>1. j - 1 \in DOMAIN s /\ s[j - 1] = y
        BY <1>1, <2>1, <3>3
      <4> QED
        BY <4>1 DEF Elems
    <3> QED
      BY <1>1, <3>1, <3>2, <3>3
  <2>2. ASSUME NEW j \in DOMAIN s, s[j] = y PROVE y \in Elems(e)
    <3>1. CASE j < k
      <4>1. j \in DOMAIN e /\ e[j] = y
        BY <1>1, <2>2, <3>1
      <4> QED
        BY <4>1 DEF Elems
    <3>2. CASE j >= k
      <4>1. j + 1 \in DOMAIN e /\ e[j + 1] = y
        BY <1>1, <2>2, <3>2
      <4> QED
        BY <4>1 DEF Elems
    <3> QED
      BY <1>1, <3>1, <3>2
  <2>3. k \in DOMAIN e /\ e[k] = x
    BY <1>1
  <2> QED
    BY <2>1, <2>2, <2>3 DEF Elems
<1> QED
  BY <1>3, <1>4

\* The newest arrival comes after all others, whose order stays.
LEMMA AppendNew ==
  ASSUME NEW S, NEW s \in Seq(S), Unique(s), NEW x \in S, x \notin Elems(s)
  PROVE  /\ Append(s, x) \in Seq(S)
         /\ Unique(Append(s, x)) /\ Elems(Append(s, x)) = Elems(s) \cup {x}
         /\ \A t, u : Before(s, t, u) => Before(Append(s, x), t, u)
         /\ \A u \in Elems(s) : Before(Append(s, x), u, x)
<1> DEFINE e == Append(s, x)
<1>1. Len(s) \in Nat /\ DOMAIN s = 1..Len(s)
  BY LenProperties
<1>2. e \in Seq(S) /\ Len(e) = Len(s) + 1 /\ \A i \in 1..Len(s) : e[i] = s[i]
  BY AppendProperties
<1>3. e[Len(s) + 1] = x
  BY AppendProperties
<1>4. DOMAIN e = 1..(Len(s) + 1)
  BY <1>2, LenProperties
<1> HIDE DEF e
<1>5. Unique(e) /\ Elems(e) = Elems(s) \cup {x}
  <2>1. \A j \in 1..(Len(s) + 1) :
           e[j] = IF j < Len(s) + 1 THEN s[j] ELSE IF j = Len(s) + 1 THEN x ELSE s[j - 1]
    BY <1>1, <1>2, <1>3
  <2>2. Len(s) + 1 \in 1..(Len(s) + 1)
    BY <1>1
  <2> QED
    BY <1>4, <2>1, <2>2, InsertNew
<1>6. ASSUME NEW t, NEW u, Before(s, t, u) PROVE Before(e, t, u)
  <2>1. PICK i, j \in DOMAIN s : i < j /\ s[i] = t /\ s[j] = u
    BY <1>6 DEF Before
  <2>2. i \in DOMAIN e /\ j \in DOMAIN e /\ e[i] = t /\ e[j] = u
    BY <1>1, <1>2, <1>4, <2>1
  <2> QED
    BY <2>1, <2>2 DEF Before
<1>7. ASSUME NEW u \in Elems(s) PROVE Before(e, u, x)
  <2>1. PICK i \in DOMAIN s : s[i] = u
    BY DEF Elems
  <2>2. i \in DOMAIN e /\ e[i] = u /\ i < Len(s) + 1 /\ Len(s) + 1 \in DOMAIN e
    BY <1>1, <1>2, <1>4, <2>1
  <2> QED
    BY <1>3, <2>2 DEF Before
<1> QED
  BY <1>2, <1>5, <1>6, <1>7 DEF e

\* A new waiter is put in its place.
LEMMA EnqueueOrder ==
  ASSUME TypeOK, OrderKept, ListInv, NEW t \in Threads, t \notin Elems(wait_list),
         wait_list' = AddWaiter(t), arrivals' = Append(arrivals, t)
  PROVE  /\ wait_list' \in Seq(Threads) /\ arrivals' \in Seq(Threads)
         /\ OrderKept' /\ ListInv' /\ Elems(wait_list)' = Elems(wait_list) \cup {t}
<1> DEFINE n == Len(wait_list)
<1>1. PICK k \in 1..(n + 1) :
         /\ AddWaiter(t) = Insert(wait_list, k, t)
         /\ \A j \in 1..n : /\ j < k => Priority(wait_list[j]) <= Priority(t)
                            /\ j >= k => Priority(wait_list[j]) > Priority(t)
  BY AddWaiterPlace
<1>2. /\ wait_list' \in Seq(Threads) /\ DOMAIN wait_list' = 1..(n + 1)
      /\ \A j \in 1..(n + 1) :
            wait_list'[j] = IF j < k THEN wait_list[j] ELSE IF j = k THEN t ELSE wait_list[j - 1]
  <2>1. wait_list \in Seq(Threads)
    BY DEF TypeOK
  <2>2. wait_list' = Insert(wait_list, k, t)
    BY <1>1
  <2>3. /\ Insert(wait_list, k, t) \in Seq(Threads)
        /\ DOMAIN Insert(wait_list, k, t) = 1..(n + 1)
        /\ \A j \in 1..(n + 1) :
              Insert(wait_list, k, t)[j] =
                IF j < k THEN wait_list[j] ELSE IF j = k THEN t ELSE wait_list[j - 1]
    BY <2>1, InsertProps
  <2> QED
    BY <2>2, <2>3, Zenon
<1>3. n \in Nat /\ DOMAIN wait_list = 1..n /\ \A j \in 1..n : wait_list[j] \in Threads
  BY ElementOfSeq, LenProperties DEF TypeOK
<1>4. Unique(wait_list') /\ Elems(wait_list') = Elems(wait_list) \cup {t}
  <2>1. wait_list \in Seq(Threads) /\ Unique(wait_list)
    BY DEF TypeOK, ListInv
  <2> DEFINE e == wait_list'
  <2>2. /\ DOMAIN e = 1..(Len(wait_list) + 1)
        /\ \A j \in 1..(Len(wait_list) + 1) :
              e[j] = IF j < k THEN wait_list[j] ELSE IF j = k THEN t ELSE wait_list[j - 1]
    BY <1>2
  <2> HIDE DEF e
  <2>3. Unique(e) /\ Elems(e) = Elems(wait_list) \cup {t}
    BY <2>1, <2>2, InsertNew
  <2> QED
    BY <2>3 DEF e
<1>5. /\ arrivals' \in Seq(Threads)
      /\ Unique(arrivals') /\ Elems(arrivals') = Elems(arrivals) \cup {t}
      /\ \A v, u : Before(arrivals, v, u) => Before(arrivals', v, u)
      /\ \A u \in Elems(wait_list) : Before(arrivals', u, t)
  BY AppendNew DEF TypeOK, ListInv
<1>6. OrderKept'
  <2> SUFFICES ASSUME NEW i \in DOMAIN wait_list', NEW j \in DOMAIN wait_list', i < j
               PROVE  \/ Priority(wait_list'[i]) < Priority(wait_list'[j])
                      \/ /\ Priority(wait_list'[i]) = Priority(wait_list'[j])
                         /\ Before(arrivals', wait_list'[i], wait_list'[j])
    BY DEF OrderKept, Priority
  <2>1. \A u \in Threads : Priority(u) \in Nat
    BY PrioAssumption DEF Priority
  <2>2. ASSUME NEW a \in 1..n, NEW b \in 1..n, a < b
        PROVE  \/ Priority(wait_list[a]) < Priority(wait_list[b])
               \/ /\ Priority(wait_list[a]) = Priority(wait_list[b])
                  /\ Before(arrivals', wait_list[a], wait_list[b])
    BY <1>3, <1>5, <2>2 DEF OrderKept
  <2>3. \A a \in 1..n : wait_list[a] \in Elems(wait_list)
    BY <1>3 DEF Elems
  <2>4. CASE j < k
    BY <1>2, <1>3, <2>2, <2>4
  <2>5. CASE j = k
    <3>1. i \in 1..n /\ i < k /\ wait_list'[i] = wait_list[i] /\ wait_list'[j] = t
      BY <1>2, <1>3, <2>5
    <3>2. Priority(wait_list[i]) <= Priority(t) /\ Before(arrivals', wait_list[i], t)
      BY <1>1, <1>5, <2>3, <3>1
    <3> QED
      BY <1>3, <2>1, <3>1, <3>2
  <2>6. CASE i = k
    <3>1. j - 1 \in 1..n /\ j - 1 >= k /\ wait_list'[j] = wait_list[j - 1] /\ wait_list'[i] = t
      BY <1>2, <1>3, <2>6
    <3>2. Priority(wait_list[j - 1]) > Priority(t)
      BY <1>1, <3>1
    <3> QED
      BY <1>3, <2>1, <3>1, <3>2
  <2>7. CASE i < k /\ k < j
    <3>1. /\ i \in 1..n /\ j - 1 \in 1..n /\ i < j - 1
          /\ wait_list'[i] = wait_list[i] /\ wait_list'[j] = wait_list[j - 1]
      BY <1>2, <1>3, <2>7
    <3> QED
      BY <2>2, <3>1
  <2>8. CASE k < i
    <3>1. /\ i - 1 \in 1..n /\ j - 1 \in 1..n /\ i - 1 < j - 1
          /\ wait_list'[i] = wait_list[i - 1] /\ wait_list'[j] = wait_list[j - 1]
      BY <1>2, <1>3, <2>8
    <3> QED
      BY <2>2, <3>1
  <2> QED
    BY <1>2, <1>3, <2>4, <2>5, <2>6, <2>7, <2>8
<1> QED
  BY <1>2, <1>4, <1>5, <1>6 DEF ListInv, Unique, Elems

\* A waiter is taken off the list.
LEMMA RemoveOrder ==
  ASSUME TypeOK, OrderKept, ListInv, NEW x \in Elems(wait_list),
         wait_list' = Without(wait_list, x), arrivals' = Without(arrivals, x)
  PROVE  /\ wait_list' \in Seq(Threads) /\ arrivals' \in Seq(Threads)
         /\ OrderKept' /\ ListInv' /\ Elems(wait_list)' = Elems(wait_list) \ {x}
<1>1. /\ wait_list' \in Seq(Threads) /\ Unique(wait_list')
      /\ Elems(wait_list') = Elems(wait_list) \ {x}
      /\ \A t, u : Before(wait_list', t, u) => Before(wait_list, t, u)
  BY WithoutOrder DEF TypeOK, ListInv
<1>2. /\ arrivals' \in Seq(Threads) /\ Unique(arrivals')
      /\ Elems(arrivals') = Elems(arrivals) \ {x}
      /\ \A t, u : t # x /\ u # x /\ Before(arrivals, t, u) => Before(arrivals', t, u)
  BY WithoutOrder DEF TypeOK, ListInv
<1>3. OrderKept'
  <2> SUFFICES ASSUME NEW i \in DOMAIN wait_list', NEW j \in DOMAIN wait_list', i < j
               PROVE  \/ Priority(wait_list'[i]) < Priority(wait_list'[j])
                      \/ /\ Priority(wait_list'[i]) = Priority(wait_list'[j])
                         /\ Before(arrivals', wait_list'[i], wait_list'[j])
    BY DEF OrderKept, Priority
  <2> DEFINE t == wait_list'[i]
             u == wait_list'[j]
  <2>1. Before(wait_list', t, u) /\ t \in Elems(wait_list') /\ u \in Elems(wait_list')
    BY DEF Before, Elems
  <2> HIDE DEF t, u
  <2>2. Before(wait_list, t, u) /\ t # x /\ u # x
    BY <1>1, <2>1
  <2>3. \/ Priority(t) < Priority(u)
        \/ Priority(t) = Priority(u) /\ Before(arrivals, t, u)
    BY <2>2 DEF OrderKept, Before
  <2> QED
    BY <1>2, <2>2, <2>3 DEF t, u
<1> QED
  BY <1>1, <1>2, <1>3 DEF ListInv, Unique, Elems

\* The list and the arrivals stay as they are.
LEMMA ListSame ==
  ASSUME OrderKept, wait_list' = wait_list, arrivals' = arrivals
  PROVE  OrderKept' /\ (ListInv => ListInv') /\ Elems(wait_list)' = Elems(wait_list)
<1>1. OrderKept'
  BY DEF OrderKept, Before, Priority
<1>2. Elems(wait_list)' = Elems(wait_list) /\ Elems(arrivals)' = Elems(arrivals)
  BY DEF Elems
<1>3. ListInv => ListInv'
  BY <1>2 DEF ListInv, Unique
<1> QED
  BY <1>1, <1>2, <1>3

\* A pair is a token of t if it is one of the first n pairs of t.
LEMMA TokenOf ==
  ASSUME NEW t \in Threads, NEW n \in Nat, n <= MaxCount, NEW p \in Threads \X (1..MaxCount)
  PROVE  p \in {t} \X (1..n) <=> p[1] = t /\ p[2] <= n
  BY CreateAssumption

\* A Wait without enough tokens joins the list.
LEMMA WaitEnqueueKeeps ==
  ASSUME IInv, NEW t \in Threads, NEW n \in Counts, NEW hasTimeout \in BOOLEAN,
         WaitEnqueue(t, n, hasTimeout)
  PROVE  IInv'
<1> USE CountAssumption, CreateAssumption DEF WaitEnqueue, Goto, IInv, SlotInv
<1>1. t \notin Elems(wait_list)
  BY DEF ListedExact, InWait
<1>2. /\ wait_list' \in Seq(Threads) /\ arrivals' \in Seq(Threads)
      /\ OrderKept' /\ ListInv' /\ Elems(wait_list)' = Elems(wait_list) \cup {t}
  BY <1>1, EnqueueOrder
<1>3. TypeOK'
  BY <1>2 DEF TypeOK, PCs
<1>4. MutexInv' /\ NeedInv' /\ LoopInv'
  BY DEF MutexInv, NeedInv, LoopInv, TypeOK
<1>5. IdleInv' /\ SemInv'
  BY DEF IdleInv, SemInv, InWait, TypeOK
<1>6. ListedExact'
  BY <1>2 DEF ListedExact, IdleInv, InWait, TypeOK
<1>7. NoIdleWaiter'
  BY <1>1, <1>2 DEF NoIdleWaiter, TypeOK
<1>8. Granted' = Granted
  <2>1. \A u \in Threads :
           /\ (InWait(u) /\ "signaled" \in flags[u])' <=> InWait(u) /\ "signaled" \in flags[u]
           /\ InWait(u) /\ "signaled" \in flags[u] => need_count'[u] = need_count[u]
    BY DEF InWait, IdleInv, TypeOK
  <2> QED
    BY <2>1, GrantedSame
<1>9. IsFiniteSet(Granted)' /\ TokensConserved'
  BY <1>8 DEF TokensConserved
<1> QED
  BY <1>2, <1>3, <1>4, <1>5, <1>6, <1>7, <1>9

\* A waiter leaves its host semaphore, released or not.
LEMMA SleepKeeps ==
  ASSUME IInv, NEW t \in Threads, SemAcquire(t) \/ SemTimeout(t)
  PROVE  IInv'
<1> USE DEF IInv, SlotInv
<1>1. /\ pc[t] = "sleep" /\ pc' = [pc EXCEPT ![t] = "relock"]
      /\ UNCHANGED <<token_count, wait_list, mutex, it, need_count, flags, timed, slot,
                     arrivals, owed>>
      /\ sem' = sem \/ (sem[t] > 0 /\ sem' = [sem EXCEPT ![t] = @ - 1])
  BY DEF SemAcquire, SemTimeout, Goto, waiterVars
<1>2. sem' \in [Threads -> {0, 1}] /\ \A u \in Threads : sem[u] = 0 => sem'[u] = 0
  <2>1. CASE sem' = sem
    BY <2>1 DEF TypeOK
  <2>2. CASE sem[t] > 0 /\ sem' = [sem EXCEPT ![t] = @ - 1]
    <3>1. sem \in [Threads -> {0, 1}] /\ sem[t] = 1
      BY <2>2 DEF TypeOK
    <3> QED
      BY <2>2, <3>1
  <2> QED
    BY <1>1, <2>1, <2>2
<1>3. TypeOK'
  BY <1>1, <1>2 DEF TypeOK, PCs
<1>4. OrderKept' /\ (ListInv => ListInv') /\ Elems(wait_list)' = Elems(wait_list)
  BY <1>1, ListSame
<1>5. ASSUME slot PROVE SlotInv'
  <2> USE <1>5
  <2>1. \A u \in Threads : InWait(u)' <=> InWait(u)
    BY <1>1 DEF InWait, TypeOK
  <2>2. MutexInv' /\ NeedInv' /\ LoopInv' /\ NoIdleWaiter'
    BY <1>1, <1>4 DEF MutexInv, NeedInv, LoopInv, NoIdleWaiter, TypeOK
  <2>3. IdleInv' /\ SemInv' /\ ListedExact'
    BY <1>1, <1>2, <1>4, <2>1 DEF IdleInv, SemInv, ListedExact
  <2>4. Granted' = Granted
    BY <1>1, <2>1, GrantedSame
  <2>5. IsFiniteSet(Granted)' /\ TokensConserved'
    BY <1>1, <2>4 DEF TokensConserved
  <2> QED
    BY <1>4, <2>2, <2>3, <2>5
<1> QED
  BY <1>1, <1>3, <1>4, <1>5

\* The end of a Wait: with its tokens, with an error, or off the list after a timeout.
LEMMA RelockKeeps ==
  ASSUME IInv, NEW t \in Threads, Relock(t)
  PROVE  IInv'
<1> USE DEF Relock, Goto, IInv, SlotInv
<1>1. GetResult(t) = "ETIMEDOUT" <=> flags[t] = {}
  BY DEF GetResult, TypeOK, Flags
<1>2. GetResult(t) = "OK" <=> "signaled" \in flags[t]
  BY DEF GetResult
<1>3. t \in Elems(wait_list) <=> flags[t] = {}
  BY DEF ListedExact, InWait
<1>4. /\ wait_list' \in Seq(Threads) /\ arrivals' \in Seq(Threads)
      /\ OrderKept' /\ ListInv' /\ Elems(wait_list)' = Elems(wait_list) \ {t}
  <2>1. CASE flags[t] = {}
    BY <1>1, <1>3, <2>1, RemoveOrder
  <2>2. CASE flags[t] # {}
    <3>1. wait_list' = wait_list /\ arrivals' = arrivals
      BY <1>1, <2>2
    <3> QED
      BY <1>3, <2>2, <3>1, ListSame DEF TypeOK
  <2> QED
    BY <2>1, <2>2
<1>5. Granted = Granted' \cup (IF "signaled" \in flags[t] THEN {t} \X (1..need_count[t]) ELSE {})
  <2>1. Granted' = {p \in Granted : p[1] # t}
    BY DEF Granted, InWait, TypeOK
  <2>2. ASSUME NEW p \in Granted, p[1] = t
        PROVE  "signaled" \in flags[t] /\ p \in {t} \X (1..need_count[t])
    BY <2>2, TokenOf DEF Granted, NeedInv, TypeOK
  <2>3. ASSUME "signaled" \in flags[t], NEW p \in {t} \X (1..need_count[t])
        PROVE  p \in Granted
    <3>1. p \in Threads \X (1..MaxCount) /\ p[1] = t /\ p[2] <= need_count[t]
      BY CreateAssumption DEF NeedInv, TypeOK
    <3> QED
      BY <2>3, <3>1 DEF Granted, InWait
  <2> QED
    BY <2>1, <2>2, <2>3
<1>6. \A p \in Granted' : p[1] # t
  BY DEF Granted, InWait, TypeOK
<1>7. IsFiniteSet(Granted)'
  BY <1>5, FS_Subset
<1>8. TokensConserved'
  <2>1. Cardinality(Granted') \in Nat
    BY <1>7, FS_CardinalityType
  <2>2. CASE "signaled" \in flags[t]
    <3> DEFINE own == {t} \X (1..need_count[t])
    <3>1. IsFiniteSet(own) /\ Cardinality(own) = need_count[t]
      BY TokenSet DEF TypeOK
    <3>2. Granted' \cap own = {}
      BY <1>6
    <3>3. Granted = Granted' \cup own
      BY <1>5, <2>2
    <3> HIDE DEF own
    <3>4. Cardinality(Granted) = Cardinality(Granted') + need_count[t]
      BY <1>7, <3>1, <3>2, <3>3, DisjointUnion
    <3> QED
      BY <1>2, <2>1, <2>2, <3>4 DEF TokensConserved, TypeOK
  <2>3. CASE "signaled" \notin flags[t]
    <3>1. Granted' = Granted
      BY <1>5, <2>3
    <3> QED
      BY <1>2, <2>3, <3>1 DEF TokensConserved
  <2> QED
    BY <2>2, <2>3
<1>9. TypeOK'
  BY <1>4 DEF TypeOK, PCs
<1>10. MutexInv' /\ NeedInv' /\ LoopInv'
  BY NoneAssumption, CreateAssumption DEF MutexInv, NeedInv, LoopInv, TypeOK
<1>11. IdleInv' /\ SemInv' /\ ListedExact'
  BY <1>4 DEF IdleInv, SemInv, ListedExact, InWait, TypeOK
<1>12. NoIdleWaiter'
  BY <1>4, ElemsType DEF NoIdleWaiter, TypeOK
<1> QED
  BY <1>4, <1>7, <1>8, <1>9, <1>10, <1>11, <1>12

\* Signal adds tokens and begins with the first waiter.
LEMMA SignalKeeps ==
  ASSUME IInv, NEW t \in Threads, NEW n \in Counts, Signal(t, n)
  PROVE  IInv'
<1> USE CountAssumption, CreateAssumption, NoneAssumption DEF Signal, Goto, waiterVars, IInv, SlotInv
<1>1. TypeOK'
  BY DEF TypeOK, PCs
<1>2. OrderKept' /\ ListInv'
  BY ListSame
<1>3. MutexInv' /\ NeedInv'
  BY DEF MutexInv, NeedInv, TypeOK
<1>4. LoopInv' /\ NoIdleWaiter'
  <2>1. Len(wait_list) \in Nat /\ DOMAIN wait_list = 1..Len(wait_list)
    BY LenProperties DEF TypeOK
  <2> QED
    BY <2>1 DEF LoopInv, NoIdleWaiter
<1>5. \A u \in Threads : InWait(u)' <=> InWait(u)
  BY DEF InWait, TypeOK
<1>6. IdleInv' /\ SemInv' /\ ListedExact'
  BY <1>5 DEF IdleInv, SemInv, ListedExact
<1>7. Granted' = Granted
  BY <1>5, GrantedSame
<1>8. IsFiniteSet(Granted)' /\ TokensConserved'
  <2>1. Cardinality(Granted) \in Nat
    BY FS_CardinalityType
  <2> QED
    BY <1>7, <2>1 DEF TokensConserved, TypeOK
<1> QED
  BY <1>1, <1>2, <1>3, <1>4, <1>6, <1>8

\* Signal passes over a waiter that needs more.
LEMMA SignalSkipKeeps ==
  ASSUME IInv, NEW t \in Threads, SignalSkip(t)
  PROVE  IInv'
<1> USE DEF SignalSkip, waiterVars, IInv, SlotInv
<1>1. TypeOK'
  BY DEF TypeOK
<1>2. OrderKept' /\ ListInv'
  BY ListSame
<1>3. MutexInv' /\ IdleInv' /\ SemInv' /\ NeedInv' /\ ListedExact' /\ NoIdleWaiter'
  BY DEF MutexInv, IdleInv, SemInv, NeedInv, ListedExact, NoIdleWaiter, InWait, Elems
<1>4. LoopInv'
  <2>1. Len(wait_list) \in Nat /\ DOMAIN wait_list = 1..Len(wait_list)
    BY LenProperties DEF TypeOK
  <2>2. \A i \in DOMAIN wait_list : i < it + 1 => i < it \/ i = it
    BY <2>1 DEF TypeOK
  <2> QED
    BY <2>1, <2>2 DEF LoopInv, TypeOK
<1>5. Granted' = Granted
  BY DEF Granted, InWait
<1>6. IsFiniteSet(Granted)' /\ TokensConserved'
  BY <1>5 DEF TokensConserved
<1> QED
  BY <1>1, <1>2, <1>3, <1>4, <1>6

\* Signal gives a waiter its tokens.
LEMMA SignalWakeKeeps ==
  ASSUME IInv, NEW t \in Threads, SignalWake(t)
  PROVE  IInv'
<1> DEFINE w == wait_list[it]
<1> USE DEF SignalWake, IInv, SlotInv
<1>1. mutex = t /\ mutex # None
  BY NoneAssumption DEF MutexInv
<1>2. Len(wait_list) \in Nat /\ DOMAIN wait_list = 1..Len(wait_list) /\ it \in DOMAIN wait_list
  BY <1>1, LenProperties DEF TypeOK, LoopInv
<1>3. w \in Elems(wait_list) /\ w \in Threads
  BY <1>2, ElementOfSeq DEF Elems, TypeOK
<1>4. InWait(w) /\ flags[w] = {} /\ sem[w] = 0
  BY <1>3 DEF ListedExact, SemInv
<1>5. /\ wait_list' = Without(wait_list, w) /\ arrivals' = Without(arrivals, w)
      /\ need_count[w] <= token_count /\ token_count' = token_count - need_count[w]
      /\ flags' = [flags EXCEPT ![w] = @ \cup {"signaled"}] /\ sem' = [sem EXCEPT ![w] = @ + 1]
      /\ UNCHANGED <<mutex, it, need_count, timed, pc, slot, owed>>
      /\ slot
  OBVIOUS
<1>6. /\ Len(Without(wait_list, w)) = Len(wait_list) - 1
      /\ DOMAIN Without(wait_list, w) = 1..(Len(wait_list) - 1)
      /\ \A i \in 1..(Len(wait_list) - 1) :
            Without(wait_list, w)[i] = IF i < it THEN wait_list[i] ELSE wait_list[i + 1]
  <2>1. wait_list \in Seq(Threads) /\ Unique(wait_list)
    BY <1>5 DEF TypeOK, ListInv
  <2> HIDE DEF SignalWake
  <2> QED
    BY <1>2, <2>1, WithoutProps
<1> HIDE DEF w, SignalWake
<1>7. /\ Len(wait_list') = Len(wait_list) - 1 /\ DOMAIN wait_list' = 1..(Len(wait_list) - 1)
      /\ \A i \in 1..(Len(wait_list) - 1) : i < it => wait_list'[i] = wait_list[i]
  BY <1>5, <1>6
<1>8. /\ wait_list' \in Seq(Threads) /\ arrivals' \in Seq(Threads)
      /\ OrderKept' /\ ListInv' /\ Elems(wait_list)' = Elems(wait_list) \ {w}
  BY <1>3, <1>5, RemoveOrder
<1>9. TypeOK'
  <2>1. token_count' \in 0..MaxCount
    BY <1>3, <1>5, CreateAssumption DEF TypeOK
  <2>2. flags' \in [Threads -> SUBSET Flags]
    BY <1>3, <1>5 DEF TypeOK, Flags
  <2>3. sem' \in [Threads -> {0, 1}]
    BY <1>3, <1>4, <1>5 DEF TypeOK
  <2> QED
    BY <1>5, <1>8, <2>1, <2>2, <2>3 DEF TypeOK
<1>10. MutexInv' /\ NeedInv' /\ NoIdleWaiter'
  BY <1>1, <1>5 DEF MutexInv, NeedInv, NoIdleWaiter
<1>11. \A u \in Threads : InWait(u)' <=> InWait(u)
  BY <1>5 DEF InWait
<1>12. IdleInv' /\ SemInv'
  BY <1>3, <1>4, <1>5, <1>11 DEF IdleInv, SemInv, TypeOK
<1>13. ListedExact'
  BY <1>3, <1>4, <1>5, <1>8, <1>11 DEF ListedExact, TypeOK
<1>14. LoopInv'
  <2>1. it \in 1..(Len(wait_list') + 1)
    BY <1>2, <1>7
  <2>2. ASSUME NEW i \in DOMAIN wait_list', i < it
        PROVE  need_count[wait_list'[i]] > token_count'
    <3>1. i \in DOMAIN wait_list /\ wait_list'[i] = wait_list[i]
      BY <1>2, <1>7, <2>2
    <3>2. need_count[wait_list[i]] > token_count
      BY <1>1, <1>5, <2>2, <3>1 DEF LoopInv
    <3>3. wait_list[i] \in Threads
      BY <1>2, <3>1, ElementOfSeq DEF TypeOK
    <3>4. need_count[wait_list[i]] \in Nat /\ need_count[w] \in Nat /\ token_count \in Nat
      BY <1>3, <3>3, CreateAssumption DEF TypeOK
    <3> QED
      BY <1>5, <3>1, <3>2, <3>4
  <2> QED
    BY <1>5, <2>1, <2>2 DEF LoopInv
<1> DEFINE own == {w} \X (1..need_count[w])
<1>15. Granted' = Granted \cup own
  <2>1. Granted = {p \in Granted' : p[1] # w}
    BY <1>3, <1>4, <1>5, <1>11 DEF Granted, TypeOK
  <2>2. ASSUME NEW p \in Granted', p[1] = w PROVE p \in own
    BY <1>3, <1>5, <2>2, TokenOf DEF Granted, NeedInv, TypeOK
  <2>3. ASSUME NEW p \in own PROVE p \in Granted'
    <3>1. p \in Threads \X (1..MaxCount) /\ p[1] = w /\ p[2] <= need_count[w]
      BY <1>3, <1>5, CreateAssumption DEF NeedInv, TypeOK
    <3>2. /\ pc'[w] \in {"sleep", "relock"} /\ "signaled" \in flags'[w]
          /\ need_count' = need_count
      BY <1>3, <1>4, <1>5 DEF TypeOK, InWait
    <3> QED
      BY <3>1, <3>2 DEF Granted, InWait
  <2> QED
    BY <2>1, <2>2, <2>3
<1>16. Granted \cap own = {}
  BY <1>4 DEF Granted
<1>17. IsFiniteSet(own) /\ Cardinality(own) = need_count[w]
  BY <1>3, TokenSet DEF TypeOK
<1> HIDE DEF own
<1>18. IsFiniteSet(Granted)' /\ TokensConserved'
  <2>1. /\ IsFiniteSet(Granted')
        /\ Cardinality(Granted') = Cardinality(Granted) + need_count[w]
    BY <1>5, <1>15, <1>16, <1>17, DisjointUnion
  <2>2. Cardinality(Granted) \in Nat
    BY <1>5, FS_CardinalityType
  <2>3. need_count[w] \in Nat /\ token_count \in Int /\ owed \in Int
    BY <1>3 DEF TypeOK
  <2> QED
    BY <1>5, <2>1, <2>2, <2>3 DEF TokensConserved
<1> QED
  BY <1>8, <1>9, <1>10, <1>12, <1>13, <1>14, <1>18

\* At the end of its loop Signal has looked at every waiter.
LEMMA SignalDoneKeeps ==
  ASSUME IInv, NEW t \in Threads, SignalDone(t)
  PROVE  IInv'
<1> USE NoneAssumption DEF SignalDone, Goto, waiterVars, IInv, SlotInv
<1>1. TypeOK'
  BY DEF TypeOK, PCs
<1>2. OrderKept' /\ ListInv' /\ Elems(wait_list)' = Elems(wait_list)
  BY ListSame
<1>3. mutex = t /\ mutex # None
  BY DEF MutexInv
<1>4. MutexInv' /\ NeedInv' /\ LoopInv'
  BY <1>3 DEF MutexInv, NeedInv, LoopInv, TypeOK
<1>5. NoIdleWaiter'
  <2>1. Len(wait_list) \in Nat /\ DOMAIN wait_list = 1..Len(wait_list)
    BY LenProperties DEF TypeOK
  <2>2. \A i \in DOMAIN wait_list : need_count[wait_list[i]] > token_count
    BY <1>3, <2>1 DEF LoopInv, TypeOK
  <2> QED
    BY <2>2 DEF NoIdleWaiter, Elems
<1>6. \A u \in Threads : InWait(u)' <=> InWait(u)
  BY DEF InWait, TypeOK
<1>7. IdleInv' /\ SemInv' /\ ListedExact'
  BY <1>2, <1>6 DEF IdleInv, SemInv, ListedExact
<1>8. Granted' = Granted
  BY <1>6, GrantedSame
<1>9. IsFiniteSet(Granted)' /\ TokensConserved'
  BY <1>8 DEF TokensConserved
<1> QED
  BY <1>1, <1>2, <1>4, <1>5, <1>7, <1>9

\* Cancel and Delete decide for all waiters and empty the list.
LEMMA WakeListProps ==
  ASSUME IInv, slot, NEW flag \in {"canceled", "deleted"}, WakeList(flag),
         need_count' = need_count,
         \A u \in Threads : InWait(u)' <=> InWait(u)
  PROVE  /\ wait_list' \in Seq(Threads) /\ arrivals' \in Seq(Threads)
         /\ flags' \in [Threads -> SUBSET Flags] /\ sem' \in [Threads -> {0, 1}]
         /\ OrderKept' /\ ListInv' /\ IdleInv' /\ SemInv' /\ NoIdleWaiter' /\ ListedExact'
         /\ Granted' = Granted
<1> USE DEF IInv, SlotInv, WakeList
<1>1. wait_list' \in Seq(Threads) /\ arrivals' \in Seq(Threads)
  OBVIOUS
<1>2. \A u \in Elems(wait_list) : u \in Threads => InWait(u) /\ flags[u] = {} /\ sem[u] = 0
  BY DEF ListedExact, SemInv
<1>3. flags' \in [Threads -> SUBSET Flags]
  BY DEF TypeOK, Flags
<1>4. sem' \in [Threads -> {0, 1}]
  BY <1>2 DEF TypeOK
<1>5. OrderKept' /\ ListInv' /\ NoIdleWaiter'
  BY DEF OrderKept, ListInv, Unique, Elems, NoIdleWaiter
<1>6. IdleInv'
  BY <1>2 DEF IdleInv
<1>7. SemInv'
  BY DEF SemInv
<1>8. ListedExact'
  <2>1. Elems(wait_list)' = {}
    BY DEF Elems
  <2> QED
    BY <2>1 DEF ListedExact
<1>9. Granted' = Granted
  <2>1. \A u \in Threads : "signaled" \in flags'[u] <=> "signaled" \in flags[u]
    BY DEF TypeOK
  <2> QED
    BY <2>1, GrantedSame
<1> QED
  BY <1>1, <1>3, <1>4, <1>5, <1>6, <1>7, <1>8, <1>9

\* Cancel sets the count.
LEMMA CancelKeeps ==
  ASSUME IInv, NEW t \in Threads, NEW n \in Counts \cup {0, InitCount}, Cancel(t, n)
  PROVE  IInv'
<1> USE CountAssumption, CreateAssumption DEF Cancel, IInv, SlotInv
<1>1. n \in 0..MaxCount
  OBVIOUS
<1>2. \A u \in Threads : InWait(u)' <=> InWait(u)
  BY DEF InWait
<1>3. /\ wait_list' \in Seq(Threads) /\ arrivals' \in Seq(Threads)
      /\ flags' \in [Threads -> SUBSET Flags] /\ sem' \in [Threads -> {0, 1}]
      /\ OrderKept' /\ ListInv' /\ IdleInv' /\ SemInv' /\ NoIdleWaiter' /\ ListedExact'
      /\ Granted' = Granted
  BY <1>2, WakeListProps
<1>4. TypeOK'
  BY <1>1, <1>3 DEF TypeOK
<1>5. MutexInv' /\ NeedInv' /\ LoopInv'
  BY DEF MutexInv, NeedInv, LoopInv
<1>6. IsFiniteSet(Granted)' /\ TokensConserved'
  <2>1. Cardinality(Granted) \in Nat
    BY FS_CardinalityType
  <2> QED
    BY <1>1, <1>3, <2>1 DEF TokensConserved, TypeOK
<1> QED
  BY <1>3, <1>4, <1>5, <1>6

\* OrbisSem::Delete wakes everybody; the semaphore stays until erase.
LEMMA DeleteKeeps ==
  ASSUME IInv, NEW t \in Threads, Delete(t)
  PROVE  IInv'
<1> USE DEF Delete, Goto, IInv, SlotInv
<1>1. \A u \in Threads : InWait(u)' <=> InWait(u)
  BY DEF InWait, TypeOK
<1>2. /\ wait_list' \in Seq(Threads) /\ arrivals' \in Seq(Threads)
      /\ flags' \in [Threads -> SUBSET Flags] /\ sem' \in [Threads -> {0, 1}]
      /\ OrderKept' /\ ListInv' /\ IdleInv' /\ SemInv' /\ NoIdleWaiter' /\ ListedExact'
      /\ Granted' = Granted
  BY <1>1, WakeListProps
<1>3. TypeOK'
  BY <1>2 DEF TypeOK, PCs
<1>4. MutexInv' /\ NeedInv' /\ LoopInv'
  BY NoneAssumption DEF MutexInv, NeedInv, LoopInv, TypeOK
<1>5. IsFiniteSet(Granted)' /\ TokensConserved'
  BY <1>2 DEF TokensConserved
<1> QED
  BY <1>2, <1>3, <1>4, <1>5

\* Once the semaphore is erased only the types and the order of the list are left.
LEMMA ErasedKeeps ==
  ASSUME IInv, NEW t \in Threads, DeleteErase(t) \/ UseFreed(t)
  PROVE  IInv'
<1>1. TypeOK' /\ ~slot'
  <2>1. CASE DeleteErase(t)
    <3>1. TypeOK'
      BY <2>1 DEF DeleteErase, Goto, waiterVars, IInv, TypeOK, PCs
    <3>2. ~slot'
      BY <2>1 DEF DeleteErase
    <3> QED
      BY <3>1, <3>2
  <2>2. CASE UseFreed(t)
    <3>1. TypeOK'
      BY <2>2 DEF UseFreed, Goto, waiterVars, IInv, TypeOK, PCs
    <3>2. ~slot'
      BY <2>2 DEF UseFreed
    <3> QED
      BY <3>1, <3>2
  <2> QED
    BY <2>1, <2>2
<1>2. OrderKept'
  BY ListSame DEF DeleteErase, UseFreed, IInv
<1> QED
  BY <1>1, <1>2 DEF IInv

\* Nothing happens.
LEMMA StutterKeeps ==
  ASSUME IInv, UNCHANGED vars
  PROVE  IInv'
<1> USE DEF vars, IInv, SlotInv
<1>1. TypeOK'
  BY DEF TypeOK
<1>2. OrderKept' /\ (ListInv => ListInv') /\ Elems(wait_list)' = Elems(wait_list)
  BY ListSame
<1>3. ASSUME slot PROVE SlotInv'
  <2>1. \A u \in Threads : InWait(u)' <=> InWait(u)
    BY DEF InWait
  <2>2. MutexInv' /\ IdleInv' /\ SemInv' /\ NeedInv' /\ LoopInv'
    BY <1>3, <2>1 DEF MutexInv, IdleInv, SemInv, NeedInv, LoopInv
  <2>3. ListedExact' /\ NoIdleWaiter'
    BY <1>2, <1>3, <2>1 DEF ListedExact, NoIdleWaiter
  <2>4. Granted' = Granted
    BY <2>1, GrantedSame
  <2> QED
    BY <1>2, <1>3, <2>2, <2>3, <2>4 DEF TokensConserved
<1> QED
  BY <1>1, <1>2, <1>3

\* Every step keeps the invariant.
LEMMA NextKeeps == IInv /\ [Next]_vars => IInv'
<1> SUFFICES ASSUME IInv, [Next]_vars PROVE IInv'
  OBVIOUS
<1>1. ASSUME NEW t \in Threads, GuestCall(t) PROVE IInv'
  BY <1>1, WaitTakeKeeps, SignalKeeps, WaitEnqueueKeeps, CancelKeeps, DeleteKeeps DEF GuestCall
<1>2. ASSUME NEW t \in Threads, Step(t) PROVE IInv'
  BY <1>2, SleepKeeps, RelockKeeps, SignalSkipKeeps, SignalWakeKeeps, SignalDoneKeeps,
     ErasedKeeps DEF Step
<1>3. CASE UNCHANGED vars
  BY <1>3, StutterKeeps
<1> QED
  BY <1>1, <1>2, <1>3 DEF Next

\* The inductive invariant holds always.
THEOREM InductiveInvariant == Spec => []IInv
  BY InitIInv, NextKeeps, PTL DEF Spec

-----------------------------------------------------------------------------
(* Safety of the semaphore                                                 *)

\* The count stays within 0 .. max_count whatever Wait, Signal and Cancel do, and a host
\* semaphore is released at most once for each Wait.
THEOREM TypeCorrect == Spec => []TypeOK
<1>1. IInv => TypeOK
  BY DEF IInv
<1> QED
  BY <1>1, InductiveInvariant, PTL

\* One pass of Signal over the list, with a token count that falls under way, wakes every
\* waiter it has tokens for.
THEOREM NobodyForgotten == Spec => []NoIdleWaiter
<1>1. IInv => NoIdleWaiter
  BY DEF IInv, SlotInv, NoIdleWaiter
<1> QED
  BY <1>1, InductiveInvariant, PTL

\* The iterator that a timeout erases is valid, and a waiter is decided about once.
THEOREM ListExact == Spec => []ListedExact
<1>1. IInv => ListedExact
  BY DEF IInv, SlotInv, ListedExact
<1> QED
  BY <1>1, InductiveInvariant, PTL

\* No token is lost or made in a race of Signal, Cancel, Delete and timeouts.
THEOREM TokensSafe == Spec => []TokensConserved
<1>1. IInv => TokensConserved
  BY DEF IInv, SlotInv, TokensConserved
<1> QED
  BY <1>1, InductiveInvariant, PTL

\* AddWaiter keeps the list sorted by priority and arrival, in both queueing modes.
THEOREM ListOrdered == Spec => []OrderKept
<1>1. IInv => OrderKept
  BY DEF IInv
<1> QED
  BY <1>1, InductiveInvariant, PTL

\* Only SignalWake signals a waiter, and the ones in front of it need more than it does.
LEMMA StepDoesNotOvertake ==
  ASSUME IInv, [Next]_vars, NEW t \in Threads, NEW u \in Threads,
         Before(wait_list, t, u), Signaled(u), ~Signaled(t)
  PROVE  need_count[t] > need_count[u]
<1>1. PICK h \in Threads : SignalWake(h)
  <2>1. flags' # flags
    BY DEF Signaled
  <2>2. ASSUME NEW v \in Threads, Relock(v) PROVE FALSE
    BY <2>2 DEF Relock, Signaled, IInv, TypeOK
  <2>3. ASSUME NEW v \in Threads, NEW f \in {"canceled", "deleted"}, WakeList(f) PROVE FALSE
    BY <2>3 DEF WakeList, Signaled
  <2> QED
    BY <2>1, <2>2, <2>3 DEF Next, GuestCall, Step, vars, waiterVars, WaitTake, WaitEnqueue,
       SemAcquire, SemTimeout, Signal, SignalSkip, SignalDone, Cancel, Delete, DeleteErase,
       UseFreed
<1> DEFINE w == wait_list[it]
<1>2. slot /\ mutex # None
  BY <1>1, NoneAssumption DEF SignalWake, IInv, SlotInv, MutexInv
<1>3. /\ Len(wait_list) \in Nat /\ DOMAIN wait_list = 1..Len(wait_list)
      /\ it \in DOMAIN wait_list /\ w \in Threads
  BY <1>1, <1>2, ElementOfSeq, LenProperties DEF SignalWake, IInv, SlotInv, LoopInv, TypeOK
<1>4. u = w
  BY <1>1, <1>3 DEF SignalWake, Signaled, IInv, TypeOK
<1>5. PICK i, j \in DOMAIN wait_list : i < j /\ wait_list[i] = t /\ wait_list[j] = u
  BY DEF Before
<1>6. j = it
  BY <1>2, <1>3, <1>4, <1>5 DEF IInv, SlotInv, ListInv, Unique
<1>7. need_count[t] > token_count
  BY <1>2, <1>5, <1>6 DEF IInv, SlotInv, LoopInv
<1>8. need_count[u] <= token_count
  BY <1>1, <1>4 DEF SignalWake
<1>9. need_count[t] \in Nat /\ need_count[u] \in Nat /\ token_count \in Int
  BY DEF IInv, TypeOK
<1> QED
  BY <1>7, <1>8, <1>9

\* Signal passes over a waiter only for one that needs fewer tokens.
THEOREM Overtaking == Spec => NoOvertaking
<1>1. IInv /\ [Next]_vars =>
        [\A t, u \in Threads : Before(wait_list, t, u) /\ Signaled(u) /\ ~Signaled(t)
                                  => need_count[t] > need_count[u]]_vars
  BY StepDoesNotOvertake
<1> QED
  BY <1>1, InductiveInvariant, PTL DEF Spec, NoOvertaking
=============================================================================
