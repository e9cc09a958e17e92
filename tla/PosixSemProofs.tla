--------------------------- MODULE PosixSemProofs ---------------------------
(***************************************************************************)
(* The two counts of a POSIX semaphore agree for any number of threads and *)
(* any limit.                                                              *)
(***************************************************************************)
EXTENDS PosixSem, FiniteSetTheorems, TLAPS

\* The inductive invariant; TypeOK keeps what sem_post has read within the limit.
IInv == TypeOK /\ CountsAgree

\* The calls in flight can be counted.
LEMMA InFlightFinite ==
  IsFiniteSet(InFlight) /\ Cardinality(InFlight) \in Nat
<1>1. InFlight \subseteq Threads
  BY DEF InFlight
<1>2. IsFiniteSet(InFlight)
  BY <1>1, ThreadAssumption, FS_Subset
<1> QED
  BY <1>2, FS_CardinalityType

\* One more call in flight.
LEMMA Begins ==
  ASSUME NEW t \in Threads, t \notin InFlight, InFlight' = InFlight \cup {t}
  PROVE  Cardinality(InFlight') = Cardinality(InFlight) + 1
  BY InFlightFinite, FS_AddElement

\* One call less in flight; there was one.
LEMMA Ends ==
  ASSUME NEW t \in Threads, t \in InFlight, InFlight' = InFlight \ {t}
  PROVE  /\ Cardinality(InFlight') = Cardinality(InFlight) - 1
         /\ Cardinality(InFlight) > 0
<1>1. Cardinality(InFlight') = Cardinality(InFlight) - 1
  BY InFlightFinite, FS_RemoveElement
<1>2. IsFiniteSet(InFlight \ {t}) /\ Cardinality(InFlight \ {t}) \in Nat
  BY InFlightFinite, FS_RemoveElement, FS_CardinalityType
<1> QED
  BY <1>1, <1>2, InFlightFinite

\* No call is in flight at first.
LEMMA InitIInv == Init => IInv
<1> SUFFICES ASSUME Init PROVE IInv
  OBVIOUS
<1> USE MaxAssumption DEF Init
<1>1. TypeOK
  BY DEF TypeOK, PCs
<1>2. InFlight = {}
  BY DEF InFlight
<1>3. Cardinality(InFlight) = 0
  BY <1>2, FS_EmptySet
<1>4. CountsAgree
  BY <1>3 DEF CountsAgree
<1> QED
  BY <1>1, <1>4 DEF IInv

\* Every step of sem_wait and sem_post keeps the counts together.
LEMMA NextKeeps == IInv /\ [Next]_vars => IInv'
<1> SUFFICES ASSUME IInv, [Next]_vars PROVE IInv'
  OBVIOUS
<1> USE MaxAssumption DEF IInv
<1> DEFINE n == Cardinality(InFlight)
<1>n. n \in Nat
  BY InFlightFinite
<1>1. ASSUME NEW t \in Threads, Acquire(t) PROVE IInv'
  <2>1. t \notin InFlight /\ InFlight' = InFlight \cup {t}
    BY <1>1 DEF Acquire, InFlight, TypeOK
  <2>2. Cardinality(InFlight') = n + 1
    BY <2>1, Begins
  <2>3. TypeOK'
    BY <1>1 DEF Acquire, TypeOK, PCs
  <2>4. CountsAgree'
    BY <1>1, <1>n, <2>2 DEF Acquire, CountsAgree, TypeOK
  <2> QED
    BY <2>3, <2>4
<1>2. ASSUME NEW t \in Threads, Decrement(t) PROVE IInv'
  <2>1. t \in InFlight /\ InFlight' = InFlight \ {t}
    BY <1>2 DEF Decrement, InFlight, TypeOK
  <2>2. Cardinality(InFlight') = n - 1 /\ n > 0
    BY <2>1, Ends
  <2>3. TypeOK'
    BY <1>2 DEF Decrement, TypeOK, PCs
  <2>4. CountsAgree'
    BY <1>2, <1>n, <2>2 DEF Decrement, CountsAgree, TypeOK
  <2> QED
    BY <2>3, <2>4
<1>3. ASSUME NEW t \in Threads, Load(t) \/ Overflow(t) \/ ExchangeFails(t) PROVE IInv'
  <2>1. InFlight' = InFlight
    BY <1>3 DEF Load, Overflow, ExchangeFails, InFlight, TypeOK
  <2>2. TypeOK'
    BY <1>3 DEF Load, Overflow, ExchangeFails, TypeOK, PCs, CountsAgree
  <2>3. CountsAgree'
    BY <1>3, <2>1 DEF Load, Overflow, ExchangeFails, CountsAgree
  <2> QED
    BY <2>2, <2>3
<1>4. ASSUME NEW t \in Threads, Exchange(t) PROVE IInv'
  <2>1. t \notin InFlight /\ InFlight' = InFlight \cup {t}
    BY <1>4 DEF Exchange, InFlight, TypeOK
  <2>2. Cardinality(InFlight') = n + 1
    BY <2>1, Begins
  <2>3. TypeOK'
    BY <1>4 DEF Exchange, TypeOK, PCs
  <2>4. CountsAgree'
    BY <1>4, <1>n, <2>2 DEF Exchange, CountsAgree, TypeOK
  <2> QED
    BY <2>3, <2>4
<1>5. ASSUME NEW t \in Threads, Release(t) PROVE IInv'
  <2>1. t \in InFlight /\ InFlight' = InFlight \ {t}
    BY <1>5 DEF Release, InFlight, TypeOK
  <2>2. Cardinality(InFlight') = n - 1 /\ n > 0
    BY <2>1, Ends
  <2>3. TypeOK'
    BY <1>5 DEF Release, TypeOK, PCs
  <2>4. CountsAgree'
    BY <1>5, <1>n, <2>2 DEF Release, CountsAgree, TypeOK
  <2> QED
    BY <2>3, <2>4
<1>6. CASE UNCHANGED vars
  <2>1. InFlight' = InFlight
    BY <1>6 DEF vars, InFlight
  <2> QED
    BY <1>6, <2>1 DEF vars, TypeOK, CountsAgree
<1> QED
  BY <1>1, <1>2, <1>3, <1>4, <1>5, <1>6 DEF Next

\* The count that sem_getvalue reports and sem_post checks never lags behind the
\* host semaphore, and both stay within the limit, for any number of threads.
THEOREM CountsAlwaysAgree == Spec => []CountsAgree
<1>1. Spec => []IInv
  BY InitIInv, NextKeeps, PTL DEF Spec
<1>2. IInv => CountsAgree
  BY DEF IInv
<1> QED
  BY <1>1, <1>2, PTL
=============================================================================
