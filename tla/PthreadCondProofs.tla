------------------------- MODULE PthreadCondProofs -------------------------
(***************************************************************************)
(* Theorems about PthreadCond, for every number of threads, mutexes and    *)
(* condition variables, every MaxDeferWaiters, and with or without timed   *)
(* waits.  IInv is inductive; one lemma per action shows that it is kept.  *)
(***************************************************************************)
EXTENDS PthreadCond, TLAPS, SequenceTheorems

\* push_front of a list.
LEMMA PushFront ==
  ASSUME NEW S, NEW s \in Seq(S), NEW x \in S
  PROVE  /\ <<x>> \o s \in Seq(S)
         /\ DOMAIN (<<x>> \o s) = 1..(Len(s) + 1)
         /\ \A i \in 1..(Len(s) + 1) : (<<x>> \o s)[i] = IF i = 1 THEN x ELSE s[i - 1]
<1> DEFINE p == <<x>>
<1>1. p \in Seq(S) /\ Len(p) = 1 /\ p[1] = x
  OBVIOUS
<1>2. /\ p \o s \in Seq(S)
      /\ Len(p \o s) = Len(p) + Len(s)
      /\ \A i \in 1 .. Len(p) + Len(s) : (p \o s)[i] = IF i <= Len(p) THEN p[i] ELSE s[i - Len(p)]
  BY <1>1, ConcatProperties, Z3
<1>3. Len(s) \in Nat
  OBVIOUS
<1> HIDE DEF p
<1> QED
  BY <1>1, <1>2, <1>3, LenProperties DEF p

\* std::erase of an element that a list without repetitions holds.
LEMMA EraseProps ==
  ASSUME NEW S, NEW s \in Seq(S), NEW x \in Elems(s),
         \A i, j \in DOMAIN s : s[i] = s[j] => i = j
  PROVE  /\ Erase(s, x) \in Seq(S)
         /\ Elems(Erase(s, x)) = Elems(s) \ {x}
         /\ \A i, j \in DOMAIN Erase(s, x) : Erase(s, x)[i] = Erase(s, x)[j] => i = j
<1> DEFINE k == CHOOSE i \in DOMAIN s : s[i] = x
           e == [j \in 1..(Len(s) - 1) |-> IF j < k THEN s[j] ELSE s[j + 1]]
<1>1. Len(s) \in Nat /\ DOMAIN s = 1..Len(s) /\ \A i \in 1..Len(s) : s[i] \in S
  BY ElementOfSeq, LenProperties
<1>2. k \in 1..Len(s) /\ s[k] = x
  BY <1>1 DEF Elems
<1>3. Erase(s, x) = e
  BY DEF Erase
<1> HIDE DEF k
<1>4. Len(s) - 1 \in Nat
  BY <1>1, <1>2
<1>5. e \in [1..(Len(s) - 1) -> S] 
  BY <1>1, <1>2
<1>6. e \in Seq(S)
  BY <1>4, <1>5, SeqDef
<1>7. /\ DOMAIN e = 1..(Len(s) - 1)
       /\ \A j \in 1..(Len(s) - 1) : e[j] = IF j < k THEN s[j] ELSE s[j + 1]
  OBVIOUS
<1>8. \A i, j \in DOMAIN e : e[i] = e[j] => i = j
  BY <1>1, <1>2
<1> HIDE DEF e
<1>9. ASSUME NEW y PROVE y \in Elems(e) <=> y \in Elems(s) /\ y # x
  <2>1. ASSUME NEW i \in DOMAIN e, e[i] = y PROVE y \in Elems(s) /\ y # x
    <3>1. PICK l \in DOMAIN s : s[l] = y /\ l # k
      <4>1. CASE i < k
        BY <1>1, <1>2, <1>7, <2>1, <4>1
      <4>2. CASE ~(i < k)
        <5>1. i + 1 \in DOMAIN s /\ s[i + 1] = y /\ i + 1 # k
          BY <1>1, <1>2, <1>7, <2>1, <4>2
        <5> QED BY <5>1
      <4> QED BY <4>1, <4>2
    <3> QED
      BY <1>1, <1>2, <3>1 DEF Elems
  <2>2. ASSUME NEW i \in DOMAIN s, s[i] = y, y # x PROVE y \in Elems(e)
    <3>1. CASE i < k
      <4>1. i \in DOMAIN e /\ e[i] = y
        BY <1>1, <1>2, <1>7, <2>2, <3>1
      <4> QED BY <4>1 DEF Elems
    <3>2. CASE i > k
      <4>1. i - 1 \in DOMAIN e /\ e[i - 1] = y
        BY <1>1, <1>2, <1>7, <2>2, <3>2
      <4> QED BY <4>1 DEF Elems
    <3> QED
      BY <1>1, <1>2, <1>7, <2>2, <3>1, <3>2
  <2> QED
    BY <2>1, <2>2 DEF Elems
<1> QED
  BY <1>3, <1>6, <1>8, <1>9

\* Writing the local `error` leaves a frame a frame.
LEMMA ErrorFrame ==
  ASSUME NEW f \in Frames, NEW e \in {"ok", "timedout"}
  PROVE  [f EXCEPT !.error = e] \in Frames
  BY DEF Frames

-----------------------------------------------------------------------------
(* The inductive invariant                                                 *)

\* The inductive invariant holds when no call has been made yet.
LEMMA InitIInv == Init => IInv
<1> SUFFICES ASSUME Init PROVE IInv
  OBVIOUS
<1> USE DEF Init
<1>1. TypeOK
  BY BoundAssumption DEF TypeOK, PCs, FaultPCs, Frames, Frame, NoFrame
<1>2. FrameInv /\ OwnerInv /\ ChainInv
  BY DEF FrameInv, OwnerInv, ChainInv, CvPCs
<1>3. DepthInv
  BY NoneAssumption DEF DepthInv, GaveUp, CvPCs
<1>4. QueueInv
  BY NoneAssumption DEF QueueInv, Elems
<1>5. WaiterInv /\ FlagInv
  BY DEF WaiterInv, FlagInv
<1>6. WakeNotLost /\ DeferredIsFlushed
  BY DEF WakeNotLost, DeferredIsFlushed
<1> QED
  BY <1>1, <1>2, <1>3, <1>4, <1>5, <1>6 DEF IInv

\* PthreadMutex::Lock up to the wait for m_lock: the invariant is kept.
LEMMA LockKeeps ==
  ASSUME IInv, NEW t \in Threads, NEW m \in Mutexes, Lock(t, m)
  PROVE IInv'
<1> USE NoneAssumption, BoundAssumption DEF Lock, Goto, mutexVars, queueVars, wakeVars, Frame, NoFrame, IInv
<1>1. TypeOK'
  BY DEF TypeOK, PCs, FaultPCs, Frames
<1>2. FrameInv'
  BY DEF FrameInv, CvPCs, TypeOK, Frames
<1>3. OwnerInv'
  BY DEF OwnerInv, FrameInv, CvPCs, TypeOK, Frames
<1>4. DepthInv'
  BY DEF DepthInv, FrameInv, OwnerInv, GaveUp, CvPCs, TypeOK, Frames
<1>5. ChainInv'
  BY DEF ChainInv, FlagInv, FrameInv, CvPCs, TypeOK, Frames
<1>6. QueueInv'
  BY DEF QueueInv, WaiterInv, FrameInv, CvPCs, SleepPCs, Elems, TypeOK
<1>7. WaiterInv'
  BY DEF WaiterInv, SleepPCs, TypeOK
<1>8. FlagInv'
  BY DEF FlagInv, TypeOK
<1>9. WakeNotLost'
  BY DEF WakeNotLost, FlagInv, TypeOK
<1>10. DeferredIsFlushed'
  BY DEF DeferredIsFlushed, TypeOK
<1> QED
  BY <1>1, <1>2, <1>3, <1>4, <1>5, <1>6, <1>7, <1>8, <1>9, <1>10

\* PthreadMutex::Lock whose time runs out: the invariant is kept.
LEMMA LockGiveUpKeeps ==
  ASSUME IInv, NEW t \in Threads, LockGiveUp(t)
  PROVE IInv'
<1> USE NoneAssumption, BoundAssumption DEF LockGiveUp, Goto, Return, mutexVars, queueVars, wakeVars, Frame, NoFrame, IInv
<1>1. TypeOK'
  BY DEF TypeOK, PCs, FaultPCs, Frames
<1>2. FrameInv'
  BY DEF FrameInv, CvPCs, TypeOK, Frames
<1>3. OwnerInv'
  BY DEF OwnerInv, FrameInv, CvPCs, TypeOK, Frames
<1>4. DepthInv'
  BY DEF DepthInv, FrameInv, OwnerInv, GaveUp, CvPCs, TypeOK, Frames
<1>5. ChainInv'
  BY DEF ChainInv, FlagInv, FrameInv, CvPCs, TypeOK, Frames
<1>6. QueueInv'
  BY DEF QueueInv, WaiterInv, FrameInv, CvPCs, SleepPCs, Elems, TypeOK
<1>7. WaiterInv'
  BY DEF WaiterInv, SleepPCs, TypeOK
<1>8. FlagInv'
  BY DEF FlagInv, TypeOK
<1>9. WakeNotLost'
  BY DEF WakeNotLost, FlagInv, TypeOK
<1>10. DeferredIsFlushed'
  BY DEF DeferredIsFlushed, TypeOK
<1> QED
  BY <1>1, <1>2, <1>3, <1>4, <1>5, <1>6, <1>7, <1>8, <1>9, <1>10

\* PthreadMutex::Lock gets m_lock; m_owner is still the old one: the invariant is kept.
LEMMA LockAcquireKeeps ==
  ASSUME IInv, NEW t \in Threads, LockAcquire(t)
  PROVE IInv'
<1> USE NoneAssumption, BoundAssumption DEF LockAcquire, Goto, mutexVars, queueVars, wakeVars, Frame, NoFrame, IInv
<1>1. TypeOK'
  BY DEF TypeOK, PCs, FaultPCs, Frames, FrameInv, CvPCs
<1>2. FrameInv'
  BY DEF FrameInv, CvPCs, TypeOK, Frames
<1>3. OwnerInv'
  BY DEF OwnerInv, FrameInv, CvPCs, TypeOK, Frames
<1>4. DepthInv'
  BY DEF DepthInv, FrameInv, OwnerInv, GaveUp, CvPCs, TypeOK, Frames
<1>5. ChainInv'
  BY DEF ChainInv, FlagInv, FrameInv, CvPCs, TypeOK, Frames
<1>6. QueueInv'
  BY DEF QueueInv, WaiterInv, FrameInv, CvPCs, SleepPCs, Elems, TypeOK
<1>7. WaiterInv'
  BY DEF WaiterInv, SleepPCs, TypeOK
<1>8. FlagInv'
  BY DEF FlagInv, TypeOK
<1>9. WakeNotLost'
  BY DEF WakeNotLost, FlagInv, TypeOK
<1>10. DeferredIsFlushed'
  BY DEF DeferredIsFlushed, TypeOK
<1> QED
  BY <1>1, <1>2, <1>3, <1>4, <1>5, <1>6, <1>7, <1>8, <1>9, <1>10

\* PthreadMutex::Lock stores m_owner; CvLock restores m_count: the invariant is kept.
LEMMA LockOwnKeeps ==
  ASSUME IInv, NEW t \in Threads, LockOwn(t)
  PROVE IInv'
<1> USE NoneAssumption, BoundAssumption DEF LockOwn, Goto, Return, mutexVars, queueVars, wakeVars, Frame, NoFrame, IInv
<1>1. TypeOK'
  BY DEF TypeOK, PCs, FaultPCs, Frames, FrameInv, CvPCs
<1>2. FrameInv'
  BY DEF FrameInv, CvPCs, TypeOK, Frames
<1>3. OwnerInv'
  BY DEF OwnerInv, FrameInv, CvPCs, TypeOK, Frames
<1>4. DepthInv'
  BY DEF DepthInv, FrameInv, OwnerInv, GaveUp, CvPCs, TypeOK, Frames
<1>5. ChainInv'
  BY DEF ChainInv, FlagInv, FrameInv, CvPCs, TypeOK, Frames
<1>6. QueueInv'
  BY DEF QueueInv, WaiterInv, FrameInv, CvPCs, SleepPCs, Elems, TypeOK
<1>7. WaiterInv'
  BY DEF WaiterInv, SleepPCs, TypeOK
<1>8. FlagInv'
  BY DEF FlagInv, TypeOK
<1>9. WakeNotLost'
  BY DEF WakeNotLost, FlagInv, TypeOK
<1>10. DeferredIsFlushed'
  <2>1. \A u \in Threads, m \in Mutexes : m_owner[m] = u => m_owner'[m] = u
    BY DEF OwnerInv, FrameInv, Frames, TypeOK
  <2>2. /\ m_deferred' = m_deferred /\ defer_waiters' = defer_waiters
        /\ pc[t] = "own"
        /\ \A u \in Threads : u # t => pc'[u] = pc[u] /\ frame'[u] = frame[u]
    BY DEF TypeOK
  <2>3. m_deferred \subseteq Mutexes
    BY DEF TypeOK
  <2>4. DeferredIsFlushed
    OBVIOUS
  <2> HIDE DEF LockOwn, IInv
  <2> QED
    BY <2>1, <2>2, <2>3, <2>4 DEF DeferredIsFlushed
<1> QED
  BY <1>1, <1>2, <1>3, <1>4, <1>5, <1>6, <1>7, <1>8, <1>9, <1>10

\* SelfLock of a recursive mutex: the invariant is kept.
LEMMA SelfLockRecursiveKeeps ==
  ASSUME IInv, NEW t \in Threads, NEW m \in Mutexes, SelfLockRecursive(t, m)
  PROVE IInv'
<1> USE NoneAssumption, BoundAssumption DEF SelfLockRecursive, Goto, mutexVars, queueVars, wakeVars, Frame, NoFrame, IInv
<1>1. TypeOK'
  BY DEF TypeOK, PCs, FaultPCs, Frames
<1>2. FrameInv'
  BY DEF FrameInv, CvPCs, TypeOK, Frames
<1>3. OwnerInv'
  BY DEF OwnerInv, FrameInv, CvPCs, TypeOK, Frames
<1>4. DepthInv'
  BY DEF DepthInv, FrameInv, OwnerInv, GaveUp, CvPCs, TypeOK, Frames
<1>5. ChainInv'
  BY DEF ChainInv, FlagInv, FrameInv, CvPCs, TypeOK, Frames
<1>6. QueueInv'
  BY DEF QueueInv, WaiterInv, FrameInv, CvPCs, SleepPCs, Elems, TypeOK
<1>7. WaiterInv'
  BY DEF WaiterInv, SleepPCs, TypeOK
<1>8. FlagInv'
  BY DEF FlagInv, TypeOK
<1>9. WakeNotLost'
  BY DEF WakeNotLost, FlagInv, TypeOK
<1>10. DeferredIsFlushed'
  BY DEF DeferredIsFlushed, TypeOK
<1> QED
  BY <1>1, <1>2, <1>3, <1>4, <1>5, <1>6, <1>7, <1>8, <1>9, <1>10

\* SelfLock of a normal mutex: the thread sleeps for ever: the invariant is kept.
LEMMA SelfLockNormalKeeps ==
  ASSUME IInv, NEW t \in Threads, NEW m \in Mutexes, SelfLockNormal(t, m)
  PROVE IInv'
<1> USE NoneAssumption, BoundAssumption DEF SelfLockNormal, Goto, mutexVars, queueVars, wakeVars, Frame, NoFrame, IInv
<1>1. TypeOK'
  BY DEF TypeOK, PCs, FaultPCs, Frames
<1>2. FrameInv'
  BY DEF FrameInv, CvPCs, TypeOK, Frames
<1>3. OwnerInv'
  BY DEF OwnerInv, FrameInv, CvPCs, TypeOK, Frames
<1>4. DepthInv'
  BY DEF DepthInv, FrameInv, OwnerInv, GaveUp, CvPCs, TypeOK, Frames
<1>5. ChainInv'
  BY DEF ChainInv, FlagInv, FrameInv, CvPCs, TypeOK, Frames
<1>6. QueueInv'
  BY DEF QueueInv, WaiterInv, FrameInv, CvPCs, SleepPCs, Elems, TypeOK
<1>7. WaiterInv'
  BY DEF WaiterInv, SleepPCs, TypeOK
<1>8. FlagInv'
  BY DEF FlagInv, TypeOK
<1>9. WakeNotLost'
  BY DEF WakeNotLost, FlagInv, TypeOK
<1>10. DeferredIsFlushed'
  BY DEF DeferredIsFlushed, TypeOK
<1> QED
  BY <1>1, <1>2, <1>3, <1>4, <1>5, <1>6, <1>7, <1>8, <1>9, <1>10

\* Unlock of a recursive mutex locked more than once: the invariant is kept.
LEMMA UnlockNestedKeeps ==
  ASSUME IInv, NEW t \in Threads, NEW m \in Mutexes, UnlockNested(t, m)
  PROVE IInv'
<1> USE NoneAssumption, BoundAssumption DEF UnlockNested, Goto, Nested, mutexVars, queueVars, wakeVars, Frame, NoFrame, IInv
<1>1. TypeOK'
  BY DEF TypeOK, PCs, FaultPCs, Frames, DepthInv
<1>2. FrameInv'
  BY DEF FrameInv, CvPCs, TypeOK, Frames
<1>3. OwnerInv'
  BY DEF OwnerInv, FrameInv, CvPCs, TypeOK, Frames
<1>4. DepthInv'
  BY DEF DepthInv, FrameInv, OwnerInv, GaveUp, CvPCs, TypeOK, Frames
<1>5. ChainInv'
  BY DEF ChainInv, FlagInv, FrameInv, CvPCs, TypeOK, Frames
<1>6. QueueInv'
  BY DEF QueueInv, WaiterInv, FrameInv, CvPCs, SleepPCs, Elems, TypeOK
<1>7. WaiterInv'
  BY DEF WaiterInv, SleepPCs, TypeOK
<1>8. FlagInv'
  BY DEF FlagInv, TypeOK
<1>9. WakeNotLost'
  BY DEF WakeNotLost, FlagInv, TypeOK
<1>10. DeferredIsFlushed'
  BY DEF DeferredIsFlushed, TypeOK
<1> QED
  BY <1>1, <1>2, <1>3, <1>4, <1>5, <1>6, <1>7, <1>8, <1>9, <1>10

\* Unlock, or CvUnlock, clears m_owner and the Deferred flag: the invariant is kept.
LEMMA UnlockKeeps ==
  ASSUME IInv, NEW t \in Threads, NEW m \in Mutexes, Unlock(t, m)
  PROVE IInv'
<1> USE NoneAssumption, BoundAssumption DEF Unlock, Goto, Nested, DropOwner, mutexVars, queueVars, wakeVars, Frame, NoFrame, IInv
<1>1. TypeOK'
  BY DEF TypeOK, PCs, FaultPCs, Frames, DepthInv
<1>2. FrameInv'
  BY DEF FrameInv, CvPCs, TypeOK, Frames
<1>3. OwnerInv'
  BY DEF OwnerInv, FrameInv, CvPCs, TypeOK, Frames
<1>4. DepthInv'
  BY DEF DepthInv, FrameInv, OwnerInv, GaveUp, CvPCs, TypeOK, Frames
<1>5. ChainInv'
  BY DEF ChainInv, FlagInv, FrameInv, CvPCs, TypeOK, Frames
<1>6. QueueInv'
  <2>1. sq_blocked' = sq_blocked /\ wchan' = wchan /\ QueueInv
    OBVIOUS
  <2> HIDE DEF Unlock, IInv
  <2> QED
    BY <2>1 DEF QueueInv, Elems
<1>7. WaiterInv'
  BY DEF WaiterInv, SleepPCs, TypeOK
<1>8. FlagInv'
  BY DEF FlagInv, TypeOK
<1>9. WakeNotLost'
  BY DEF WakeNotLost, FlagInv, TypeOK
<1>10. DeferredIsFlushed'
  <2>1. /\ m_deferred' = m_deferred \ {m} /\ defer_waiters' = defer_waiters
        /\ m_owner[m] = t
        /\ \A n \in Mutexes : n # m => m_owner'[n] = m_owner[n]
        /\ pc[t] = "run" /\ pc'[t] = "unlock" /\ frame'[t].deferred = (m \in m_deferred)
        /\ \A u \in Threads : u # t => pc'[u] = pc[u] /\ frame'[u] = frame[u]
    BY DEF TypeOK
  <2>2. m_deferred \subseteq Mutexes
    BY DEF TypeOK
  <2>3. DeferredIsFlushed
    OBVIOUS
  <2> HIDE DEF Unlock, IInv
  <2>4. ASSUME NEW u \in Threads, defer_waiters'[u] # {}
        PROVE  \/ \E n \in m_deferred' : m_owner'[n] = u
               \/ pc'[u] = "unlock" /\ frame'[u].deferred
               \/ pc'[u] \in {"wakeall", "cvadd", "cvflush", "cvwake"}
    <3>1. CASE u = t
      <4>1. PICK n \in m_deferred : m_owner[n] = t
        BY <2>1, <2>3, <2>4, <3>1 DEF DeferredIsFlushed
      <4> QED
        BY <2>1, <2>2, <3>1, <4>1
    <3>2. CASE u # t
      BY <2>1, <2>2, <2>3, <2>4, <3>2 DEF DeferredIsFlushed
    <3> QED
      BY <3>1, <3>2
  <2> QED
    BY <2>4 DEF DeferredIsFlushed
<1> QED
  BY <1>1, <1>2, <1>3, <1>4, <1>5, <1>6, <1>7, <1>8, <1>9, <1>10

\* Unlock gives m_lock back: the invariant is kept.
LEMMA UnlockReleaseKeeps ==
  ASSUME IInv, NEW t \in Threads, UnlockRelease(t)
  PROVE IInv'
<1> USE NoneAssumption, BoundAssumption DEF UnlockRelease, Goto, Return, mutexVars, queueVars, wakeVars, Frame, NoFrame, IInv
<1>1. TypeOK'
  BY DEF TypeOK, PCs, FaultPCs, Frames, FrameInv, CvPCs
<1>2. FrameInv'
  BY DEF FrameInv, CvPCs, TypeOK, Frames
<1>3. OwnerInv'
  BY DEF OwnerInv, FrameInv, CvPCs, TypeOK, Frames
<1>4. DepthInv'
  <2>1. UNCHANGED <<m_owner, m_count, depth>> /\ DepthInv
    OBVIOUS
  <2>2. \A u \in Threads : GaveUp(u)' <=> GaveUp(u)
    BY DEF GaveUp, FrameInv, FlagInv, CvPCs, TypeOK, Frames
  <2>3. \A u \in Threads : GaveUp(u) => frame'[u].m = frame[u].m /\ frame'[u].recurse = frame[u].recurse
    BY DEF GaveUp, FrameInv, FlagInv, CvPCs, TypeOK, Frames
  <2> HIDE DEF UnlockRelease, IInv
  <2> QED
    BY <2>1, <2>2, <2>3 DEF DepthInv
<1>5. ChainInv'
  BY DEF ChainInv, FlagInv, FrameInv, CvPCs, TypeOK, Frames
<1>6. QueueInv'
  BY DEF QueueInv, WaiterInv, FrameInv, CvPCs, SleepPCs, Elems, TypeOK
<1>7. WaiterInv'
  BY DEF WaiterInv, SleepPCs, TypeOK
<1>8. FlagInv'
  BY DEF FlagInv, TypeOK
<1>9. WakeNotLost'
  BY DEF WakeNotLost, FlagInv, TypeOK
<1>10. DeferredIsFlushed'
  <2>1. frame[t].deferred => pc'[t] \in {"wakeall", "cvadd"}
    BY DEF FlagInv, TypeOK
  <2>2. \A u \in Threads \ {t} : pc'[u] = pc[u] /\ frame'[u] = frame[u]
    BY DEF TypeOK
  <2> QED
    BY <2>1, <2>2 DEF DeferredIsFlushed
<1> QED
  BY <1>1, <1>2, <1>3, <1>4, <1>5, <1>6, <1>7, <1>8, <1>9, <1>10

\* WakeAll releases the deferred waiters: the invariant is kept.
LEMMA WakeAllKeeps ==
  ASSUME IInv, NEW t \in Threads, WakeAll(t)
  PROVE IInv'
<1> USE NoneAssumption, BoundAssumption DEF WakeAll, Goto, Released, mutexVars, queueVars, wakeVars, Frame, NoFrame, IInv
<1>1. TypeOK'
  BY DEF TypeOK, PCs, FaultPCs, Frames
<1>2. FrameInv'
  BY DEF FrameInv, CvPCs, TypeOK, Frames
<1>3. OwnerInv'
  BY DEF OwnerInv, FrameInv, CvPCs, TypeOK, Frames
<1>4. DepthInv'
  BY DEF DepthInv, FrameInv, OwnerInv, GaveUp, CvPCs, TypeOK, Frames
<1>5. ChainInv'
  BY DEF ChainInv, FlagInv, FrameInv, CvPCs, TypeOK, Frames
<1>6. QueueInv'
  BY DEF QueueInv, WaiterInv, FrameInv, CvPCs, SleepPCs, Elems, TypeOK
<1>7. WaiterInv'
  BY DEF WaiterInv, SleepPCs, TypeOK
<1>8. FlagInv'
  BY DEF FlagInv, TypeOK
<1>9. WakeNotLost'
  BY DEF WakeNotLost, FlagInv, TypeOK
<1>10. DeferredIsFlushed'
  <2>1. \A u \in Threads : defer_waiters'[u] # {} => defer_waiters[u] # {}
    BY DEF TypeOK
  <2> QED
    BY <2>1 DEF DeferredIsFlushed
<1> QED
  BY <1>1, <1>2, <1>3, <1>4, <1>5, <1>6, <1>7, <1>8, <1>9, <1>10

\* Unlock returns with nothing to wake: the invariant is kept.
LEMMA UnlockReturnKeeps ==
  ASSUME IInv, NEW t \in Threads, UnlockReturn(t)
  PROVE IInv'
<1> USE NoneAssumption, BoundAssumption DEF UnlockReturn, Goto, Return, mutexVars, queueVars, wakeVars, Frame, NoFrame, IInv
<1>1. TypeOK'
  BY DEF TypeOK, PCs, FaultPCs, Frames
<1>2. FrameInv'
  BY DEF FrameInv, CvPCs, TypeOK, Frames
<1>3. OwnerInv'
  BY DEF OwnerInv, FrameInv, CvPCs, TypeOK, Frames
<1>4. DepthInv'
  BY DEF DepthInv, FrameInv, OwnerInv, GaveUp, CvPCs, TypeOK, Frames
<1>5. ChainInv'
  BY DEF ChainInv, FlagInv, FrameInv, CvPCs, TypeOK, Frames
<1>6. QueueInv'
  BY DEF QueueInv, WaiterInv, FrameInv, CvPCs, SleepPCs, Elems, TypeOK
<1>7. WaiterInv'
  BY DEF WaiterInv, SleepPCs, TypeOK
<1>8. FlagInv'
  BY DEF FlagInv, TypeOK
<1>9. WakeNotLost'
  BY DEF WakeNotLost, FlagInv, TypeOK
<1>10. DeferredIsFlushed'
  BY DEF DeferredIsFlushed, TypeOK
<1> QED
  BY <1>1, <1>2, <1>3, <1>4, <1>5, <1>6, <1>7, <1>8, <1>9, <1>10

\* PthreadCond::Wait up to the lock of the chain: the invariant is kept.
LEMMA WaitKeeps ==
  ASSUME IInv, NEW t \in Threads, NEW c \in Conds, NEW m \in Mutexes, NEW timed \in BOOLEAN, Wait(t, c, m, timed)
  PROVE IInv'
<1> USE NoneAssumption, BoundAssumption DEF Wait, Goto, DropOwner, mutexVars, queueVars, wakeVars, Frame, NoFrame, IInv
<1>1. TypeOK'
  BY DEF TypeOK, PCs, FaultPCs, Frames
<1>2. FrameInv'
  BY DEF FrameInv, CvPCs, TypeOK, Frames
<1>3. OwnerInv'
  BY DEF OwnerInv, FrameInv, CvPCs, TypeOK, Frames
<1>4. DepthInv'
  BY DEF DepthInv, FrameInv, OwnerInv, GaveUp, CvPCs, TypeOK
<1>5. ChainInv'
  BY DEF ChainInv, FlagInv, FrameInv, CvPCs, TypeOK, Frames
<1>6. QueueInv'
  BY DEF QueueInv, WaiterInv, FrameInv, CvPCs, SleepPCs, Elems, TypeOK
<1>7. WaiterInv'
  BY DEF WaiterInv, SleepPCs, TypeOK
<1>8. FlagInv'
  BY DEF FlagInv, TypeOK
<1>9. WakeNotLost'
  BY DEF WakeNotLost, FlagInv, TypeOK
<1>10. DeferredIsFlushed'
  <2>1. /\ m_deferred' = m_deferred \ {m} /\ defer_waiters' = defer_waiters
        /\ m_owner[m] = t
        /\ \A n \in Mutexes : n # m => m_owner'[n] = m_owner[n]
        /\ pc[t] = "run" /\ pc'[t] = "unlock" /\ frame'[t].deferred = (m \in m_deferred)
        /\ \A u \in Threads : u # t => pc'[u] = pc[u] /\ frame'[u] = frame[u]
    BY DEF TypeOK
  <2>2. m_deferred \subseteq Mutexes
    BY DEF TypeOK
  <2>3. DeferredIsFlushed
    OBVIOUS
  <2> HIDE DEF Wait, IInv
  <2>4. ASSUME NEW u \in Threads, defer_waiters'[u] # {}
        PROVE  \/ \E n \in m_deferred' : m_owner'[n] = u
               \/ pc'[u] = "unlock" /\ frame'[u].deferred
               \/ pc'[u] \in {"wakeall", "cvadd", "cvflush", "cvwake"}
    <3>1. CASE u = t
      <4>1. PICK n \in m_deferred : m_owner[n] = t
        BY <2>1, <2>3, <2>4, <3>1 DEF DeferredIsFlushed
      <4> QED
        BY <2>1, <2>2, <3>1, <4>1
    <3>2. CASE u # t
      BY <2>1, <2>2, <2>3, <2>4, <3>2 DEF DeferredIsFlushed
    <3> QED
      BY <3>1, <3>2
  <2> QED
    BY <2>4 DEF DeferredIsFlushed
<1> QED
  BY <1>1, <1>2, <1>3, <1>4, <1>5, <1>6, <1>7, <1>8, <1>9, <1>10

\* Wait enqueues the thread and gives the mutex up: the invariant is kept.
LEMMA WaitEnqueueKeeps ==
  ASSUME IInv, NEW t \in Threads, WaitEnqueue(t)
  PROVE IInv'
<1> USE NoneAssumption, BoundAssumption DEF WaitEnqueue, Goto, mutexVars, queueVars, wakeVars, Frame, NoFrame, IInv
<1>1. TypeOK'
  <2>1. <<t>> \o sq_blocked[frame[t].c] \in Seq(Threads)
    BY PushFront DEF TypeOK, FrameInv, CvPCs, Frames
  <2> QED
    BY <2>1 DEF TypeOK, PCs, FaultPCs, Frames, FrameInv, CvPCs
<1>2. FrameInv'
  BY DEF FrameInv, CvPCs, TypeOK, Frames
<1>3. OwnerInv'
  BY DEF OwnerInv, FrameInv, CvPCs, TypeOK, Frames
<1>4. DepthInv'
  <2>1. UNCHANGED <<m_owner, m_count, depth>> /\ DepthInv
    OBVIOUS
  <2>2. \A u \in Threads : GaveUp(u)' <=> GaveUp(u)
    BY DEF GaveUp, FrameInv, FlagInv, CvPCs, TypeOK, Frames
  <2>3. \A u \in Threads : GaveUp(u) => frame'[u].m = frame[u].m /\ frame'[u].recurse = frame[u].recurse
    BY DEF GaveUp, FrameInv, FlagInv, CvPCs, TypeOK, Frames
  <2> HIDE DEF WaitEnqueue, IInv
  <2> QED
    BY <2>1, <2>2, <2>3 DEF DepthInv
<1>5. ChainInv'
  BY DEF ChainInv, FlagInv, FrameInv, CvPCs, TypeOK, Frames
<1>6. QueueInv'
  <2> DEFINE c == frame[t].c
             q == sq_blocked[c]
             q2 == <<t>> \o q
  <2>1. c \in Conds /\ q \in Seq(Threads)
    BY DEF TypeOK, FrameInv, CvPCs, Frames
  <2>2. t \notin Elems(q)
    <3>1. wchan[t] # c
      BY <2>1 DEF WaiterInv, SleepPCs
    <3> QED
      BY <2>1, <3>1 DEF QueueInv
  <2>3. /\ Len(q) \in Nat /\ DOMAIN q = 1..Len(q)
        /\ DOMAIN q2 = 1..(Len(q) + 1)
        /\ \A i \in 1..(Len(q) + 1) : q2[i] = IF i = 1 THEN t ELSE q[i - 1]
    BY <2>1, PushFront, LenProperties
  <2>4. sq_blocked' = [sq_blocked EXCEPT ![c] = q2] /\ wchan' = [wchan EXCEPT ![t] = c]
    OBVIOUS
  <2>5. \A i, j \in 1..Len(q) : q[i] = q[j] => i = j
    BY <2>1, <2>3 DEF QueueInv
  <2>6. \A i \in 1..Len(q) : q[i] # t
    BY <2>2, <2>3 DEF Elems
  <2>7. \A d \in Conds \ {c} : sq_blocked'[d] = sq_blocked[d]
    BY <2>4 DEF TypeOK
  <2>8. sq_blocked'[c] = q2
    BY <2>1, <2>4 DEF TypeOK
  <2>9. wchan'[t] = c /\ \A u \in Threads \ {t} : wchan'[u] = wchan[u]
    BY <2>4 DEF TypeOK
  <2>10. \A u \in Threads : wchan[u] = c <=> u \in Elems(q)
    BY <2>1 DEF QueueInv
  <2>11. wchan[t] # c
    BY <2>2, <2>10
  <2> HIDE DEF q2, q
  <2>12. \A i, j \in DOMAIN q2 : q2[i] = q2[j] => i = j
    <3>1. ASSUME NEW i \in DOMAIN q2, NEW j \in DOMAIN q2, q2[i] = q2[j], i # 1, j # 1
          PROVE  i = j
      <4>1. i - 1 \in 1..Len(q) /\ j - 1 \in 1..Len(q) /\ q[i - 1] = q[j - 1]
        BY <2>3, <3>1
      <4> QED
        BY <2>3, <2>5, <4>1
    <3>2. ASSUME NEW i \in DOMAIN q2, i # 1 PROVE q2[i] # q2[1]
      <4>1. i - 1 \in 1..Len(q) /\ q2[i] = q[i - 1] /\ q2[1] = t
        BY <2>3, <3>2
      <4> QED
        BY <2>6, <4>1
    <3> QED
      BY <3>1, <3>2
  <2>13. \A u \in Threads : u \in Elems(q2) <=> u = t \/ u \in Elems(q)
    <3>1. ASSUME NEW i \in DOMAIN q2, q2[i] # t PROVE q2[i] \in Elems(q)
      <4>1. i - 1 \in DOMAIN q /\ q[i - 1] = q2[i]
        BY <2>3, <3>1
      <4> QED
        BY <4>1 DEF Elems
    <3>2. t \in Elems(q2)
      BY <2>3 DEF Elems
    <3>3. ASSUME NEW i \in DOMAIN q PROVE q[i] \in Elems(q2)
      <4>1. i + 1 \in DOMAIN q2 /\ q2[i + 1] = q[i]
        BY <2>3
      <4> QED
        BY <4>1 DEF Elems
    <3> QED
      BY <3>1, <3>2, <3>3 DEF Elems
  <2> HIDE DEF c
  <2>14. ASSUME NEW d \in Conds
         PROVE  /\ \A i, j \in DOMAIN sq_blocked'[d] : sq_blocked'[d][i] = sq_blocked'[d][j] => i = j
                /\ \A u \in Threads : wchan'[u] = d <=> u \in Elems(sq_blocked'[d])
    <3>1. CASE d = c
      <4>1. sq_blocked'[d] = q2
        BY <2>8, <3>1
      <4>2. \A u \in Threads : wchan'[u] = d <=> u = t \/ u \in Elems(q)
        BY <2>9, <2>10, <3>1
      <4> HIDE DEF WaitEnqueue, IInv
      <4> QED
        BY <2>12, <2>13, <4>1, <4>2
    <3>2. CASE d # c
      <4>1. wchan[t] # d
        BY DEF WaiterInv, SleepPCs
      <4>2. sq_blocked'[d] = sq_blocked[d]
        BY <2>7, <3>2
      <4>3. \A u \in Threads : wchan'[u] = d <=> wchan[u] = d
        BY <2>9, <3>2, <4>1
      <4>4. /\ \A i, j \in DOMAIN sq_blocked[d] : sq_blocked[d][i] = sq_blocked[d][j] => i = j
            /\ \A u \in Threads : wchan[u] = d <=> u \in Elems(sq_blocked[d])
        BY DEF QueueInv
      <4> HIDE DEF WaitEnqueue, IInv
      <4> QED
        BY <4>2, <4>3, <4>4
    <3> QED
      BY <3>1, <3>2
  <2> QED
    BY <2>14 DEF QueueInv
<1>7. WaiterInv'
  BY DEF WaiterInv, SleepPCs, TypeOK
<1>8. FlagInv'
  BY DEF FlagInv, TypeOK
<1>9. WakeNotLost'
  BY DEF WakeNotLost, FrameInv, CvPCs, TypeOK
<1>10. DeferredIsFlushed'
  BY DEF DeferredIsFlushed, TypeOK
<1> QED
  BY <1>1, <1>2, <1>3, <1>4, <1>5, <1>6, <1>7, <1>8, <1>9, <1>10

\* Sleep finds deferred waiters to flush: the invariant is kept.
LEMMA SleepFlushKeeps ==
  ASSUME IInv, NEW t \in Threads, SleepFlush(t)
  PROVE IInv'
<1> USE NoneAssumption, BoundAssumption DEF SleepFlush, Goto, mutexVars, queueVars, wakeVars, Frame, NoFrame, IInv
<1>1. TypeOK'
  BY DEF TypeOK, PCs, FaultPCs, Frames
<1>2. FrameInv'
  BY DEF FrameInv, CvPCs, TypeOK, Frames
<1>3. OwnerInv'
  BY DEF OwnerInv, FrameInv, CvPCs, TypeOK, Frames
<1>4. DepthInv'
  BY DEF DepthInv, FrameInv, OwnerInv, GaveUp, CvPCs, TypeOK, Frames
<1>5. ChainInv'
  BY DEF ChainInv, FlagInv, FrameInv, CvPCs, TypeOK, Frames
<1>6. QueueInv'
  BY DEF QueueInv, WaiterInv, FrameInv, CvPCs, SleepPCs, Elems, TypeOK
<1>7. WaiterInv'
  BY DEF WaiterInv, SleepPCs, TypeOK
<1>8. FlagInv'
  BY DEF FlagInv, TypeOK
<1>9. WakeNotLost'
  BY DEF WakeNotLost, FlagInv, TypeOK
<1>10. DeferredIsFlushed'
  BY DEF DeferredIsFlushed, TypeOK
<1> QED
  BY <1>1, <1>2, <1>3, <1>4, <1>5, <1>6, <1>7, <1>8, <1>9, <1>10

\* Sleep finds none: the invariant is kept.
LEMMA SleepBlockKeeps ==
  ASSUME IInv, NEW t \in Threads, SleepBlock(t)
  PROVE IInv'
<1> USE NoneAssumption, BoundAssumption DEF SleepBlock, Goto, mutexVars, queueVars, wakeVars, Frame, NoFrame, IInv
<1>1. TypeOK'
  BY DEF TypeOK, PCs, FaultPCs, Frames
<1>2. FrameInv'
  BY DEF FrameInv, CvPCs, TypeOK, Frames
<1>3. OwnerInv'
  BY DEF OwnerInv, FrameInv, CvPCs, TypeOK, Frames
<1>4. DepthInv'
  BY DEF DepthInv, FrameInv, OwnerInv, GaveUp, CvPCs, TypeOK, Frames
<1>5. ChainInv'
  BY DEF ChainInv, FlagInv, FrameInv, CvPCs, TypeOK, Frames
<1>6. QueueInv'
  BY DEF QueueInv, WaiterInv, FrameInv, CvPCs, SleepPCs, Elems, TypeOK
<1>7. WaiterInv'
  BY DEF WaiterInv, SleepPCs, TypeOK
<1>8. FlagInv'
  BY DEF FlagInv, TypeOK
<1>9. WakeNotLost'
  BY DEF WakeNotLost, FlagInv, TypeOK
<1>10. DeferredIsFlushed'
  BY DEF DeferredIsFlushed, TypeOK
<1> QED
  BY <1>1, <1>2, <1>3, <1>4, <1>5, <1>6, <1>7, <1>8, <1>9, <1>10

\* Sleep takes a token: the invariant is kept.
LEMMA SleepAcquireKeeps ==
  ASSUME IInv, NEW t \in Threads, SleepAcquire(t)
  PROVE IInv'
<1> USE NoneAssumption, BoundAssumption DEF SleepAcquire, Goto, mutexVars, queueVars, wakeVars, Frame, NoFrame, IInv
<1>1. TypeOK'
  <2>1. [frame[t] EXCEPT !.error = "ok"] \in Frames
    BY ErrorFrame DEF TypeOK
  <2> QED
    BY <2>1 DEF TypeOK, PCs, FaultPCs
<1>2. FrameInv'
  BY DEF FrameInv, CvPCs, TypeOK, Frames
<1>3. OwnerInv'
  BY DEF OwnerInv, FrameInv, CvPCs, TypeOK, Frames
<1>4. DepthInv'
  <2>1. UNCHANGED <<m_owner, m_count, depth>> /\ DepthInv
    OBVIOUS
  <2>2. \A u \in Threads : frame'[u].m = frame[u].m /\ frame'[u].c = frame[u].c /\ frame'[u].recurse = frame[u].recurse
    BY DEF TypeOK, Frames
  <2>3. \A u \in Threads : GaveUp(u)' <=> GaveUp(u)
    BY <2>2 DEF GaveUp, CvPCs, TypeOK
  <2> HIDE DEF SleepAcquire, IInv
  <2> QED
    BY <2>1, <2>2, <2>3 DEF DepthInv
<1>5. ChainInv'
  BY DEF ChainInv, FlagInv, FrameInv, CvPCs, TypeOK, Frames
<1>6. QueueInv'
  BY DEF QueueInv, WaiterInv, FrameInv, CvPCs, SleepPCs, Elems, TypeOK
<1>7. WaiterInv'
  BY DEF WaiterInv, SleepPCs, TypeOK
<1>8. FlagInv'
  BY DEF FlagInv, TypeOK
<1>9. WakeNotLost'
  BY DEF WakeNotLost, FlagInv, TypeOK
<1>10. DeferredIsFlushed'
  BY DEF DeferredIsFlushed, TypeOK
<1> QED
  BY <1>1, <1>2, <1>3, <1>4, <1>5, <1>6, <1>7, <1>8, <1>9, <1>10

\* Sleep times out: the invariant is kept.
LEMMA SleepTimeoutKeeps ==
  ASSUME IInv, NEW t \in Threads, SleepTimeout(t)
  PROVE IInv'
<1> USE NoneAssumption, BoundAssumption DEF SleepTimeout, Goto, mutexVars, queueVars, wakeVars, Frame, NoFrame, IInv
<1>1. TypeOK'
  <2>1. [frame[t] EXCEPT !.error = "timedout"] \in Frames
    BY ErrorFrame DEF TypeOK
  <2> QED
    BY <2>1 DEF TypeOK, PCs, FaultPCs
<1>2. FrameInv'
  BY DEF FrameInv, CvPCs, TypeOK, Frames
<1>3. OwnerInv'
  BY DEF OwnerInv, FrameInv, CvPCs, TypeOK, Frames
<1>4. DepthInv'
  <2>1. UNCHANGED <<m_owner, m_count, depth>> /\ DepthInv
    OBVIOUS
  <2>2. \A u \in Threads : frame'[u].m = frame[u].m /\ frame'[u].c = frame[u].c /\ frame'[u].recurse = frame[u].recurse
    BY DEF TypeOK, Frames
  <2>3. \A u \in Threads : GaveUp(u)' <=> GaveUp(u)
    BY <2>2 DEF GaveUp, CvPCs, TypeOK
  <2> HIDE DEF SleepTimeout, IInv
  <2> QED
    BY <2>1, <2>2, <2>3 DEF DepthInv
<1>5. ChainInv'
  BY DEF ChainInv, FlagInv, FrameInv, CvPCs, TypeOK, Frames
<1>6. QueueInv'
  BY DEF QueueInv, WaiterInv, FrameInv, CvPCs, SleepPCs, Elems, TypeOK
<1>7. WaiterInv'
  BY DEF WaiterInv, SleepPCs, TypeOK
<1>8. FlagInv'
  BY DEF FlagInv, TypeOK
<1>9. WakeNotLost'
  BY DEF WakeNotLost, FlagInv, TypeOK
<1>10. DeferredIsFlushed'
  BY DEF DeferredIsFlushed, TypeOK
<1> QED
  BY <1>1, <1>2, <1>3, <1>4, <1>5, <1>6, <1>7, <1>8, <1>9, <1>10

\* Wait has the chain again and looks at wchan: the invariant is kept.
LEMMA WaitCheckKeeps ==
  ASSUME IInv, NEW t \in Threads, WaitCheck(t)
  PROVE IInv'
<1> USE NoneAssumption, BoundAssumption DEF WaitCheck, Goto, mutexVars, queueVars, wakeVars, Frame, NoFrame, IInv
<1>1. TypeOK'
  <2>1. [frame[t] EXCEPT !.error = "ok"] \in Frames
    BY ErrorFrame DEF TypeOK
  <2>2. frame[t].c \in Conds
    BY DEF TypeOK, FrameInv, CvPCs, Frames
  <2>3. wchan[t] # None => Erase(sq_blocked[frame[t].c], t) \in Seq(Threads)
    BY <2>2, EraseProps DEF TypeOK, QueueInv, WaiterInv
  <2> QED
    BY <2>1, <2>2, <2>3 DEF TypeOK, PCs, FaultPCs
<1>2. FrameInv'
  BY DEF FrameInv, CvPCs, TypeOK, Frames
<1>3. OwnerInv'
  BY DEF OwnerInv, FrameInv, CvPCs, TypeOK, Frames
<1>4. DepthInv'
  BY DEF DepthInv, FrameInv, OwnerInv, GaveUp, CvPCs, TypeOK
<1>5. ChainInv'
  BY DEF ChainInv, FlagInv, FrameInv, CvPCs, TypeOK, Frames
<1>6. QueueInv'
  <2> DEFINE c == frame[t].c
             q2 == Erase(sq_blocked[c], t)
  <2>1. c \in Conds
    BY DEF TypeOK, FrameInv, CvPCs, Frames
  <2>2. CASE wchan[t] # None /\ frame[t].error = "timedout"
    <3>1. wchan[t] = c /\ t \in Elems(sq_blocked[c])
      BY <2>1, <2>2 DEF WaiterInv, QueueInv
    <3>2. Elems(q2) = Elems(sq_blocked[c]) \ {t} /\ \A i, j \in DOMAIN q2 : q2[i] = q2[j] => i = j
      <4>1. sq_blocked[c] \in Seq(Threads) /\ \A i, j \in DOMAIN sq_blocked[c] :
                sq_blocked[c][i] = sq_blocked[c][j] => i = j
        BY <2>1 DEF TypeOK, QueueInv
      <4> HIDE DEF c
      <4> QED
        BY <3>1, <4>1, EraseProps
    <3>3. sq_blocked' = [sq_blocked EXCEPT ![c] = q2] /\ wchan' = [wchan EXCEPT ![t] = None]
      BY <2>2
    <3> HIDE DEF q2, c
    <3> QED
      BY <2>1, <3>1, <3>2, <3>3 DEF QueueInv, TypeOK
  <2>3. CASE ~(wchan[t] # None /\ frame[t].error = "timedout")
    BY <2>3 DEF QueueInv
  <2> QED
    BY <2>2, <2>3
<1>7. WaiterInv'
  BY DEF WaiterInv, SleepPCs, TypeOK
<1>8. FlagInv'
  BY DEF FlagInv, TypeOK
<1>9. WakeNotLost'
  BY DEF WakeNotLost, FlagInv, TypeOK
<1>10. DeferredIsFlushed'
  BY DEF DeferredIsFlushed, TypeOK
<1> QED
  BY <1>1, <1>2, <1>3, <1>4, <1>5, <1>6, <1>7, <1>8, <1>9, <1>10

\* The call of Signal: the invariant is kept.
LEMMA SignalCallKeeps ==
  ASSUME IInv, NEW t \in Threads, NEW c \in Conds, NEW td \in Threads \cup {None}, SignalCall(t, c, td)
  PROVE IInv'
<1> USE NoneAssumption, BoundAssumption DEF SignalCall, Goto, mutexVars, queueVars, wakeVars, Frame, NoFrame, IInv
<1>1. TypeOK'
  BY DEF TypeOK, PCs, FaultPCs, Frames
<1>2. FrameInv'
  BY DEF FrameInv, CvPCs, TypeOK, Frames
<1>3. OwnerInv'
  BY DEF OwnerInv, FrameInv, CvPCs, TypeOK, Frames
<1>4. DepthInv'
  BY DEF DepthInv, FrameInv, OwnerInv, GaveUp, CvPCs, TypeOK, Frames
<1>5. ChainInv'
  BY DEF ChainInv, FlagInv, FrameInv, CvPCs, TypeOK, Frames
<1>6. QueueInv'
  BY DEF QueueInv, WaiterInv, FrameInv, CvPCs, SleepPCs, Elems, TypeOK
<1>7. WaiterInv'
  BY DEF WaiterInv, SleepPCs, TypeOK
<1>8. FlagInv'
  BY DEF FlagInv, TypeOK
<1>9. WakeNotLost'
  BY DEF WakeNotLost, FlagInv, TypeOK
<1>10. DeferredIsFlushed'
  BY DEF DeferredIsFlushed, TypeOK
<1> QED
  BY <1>1, <1>2, <1>3, <1>4, <1>5, <1>6, <1>7, <1>8, <1>9, <1>10

\* The call of Broadcast: the invariant is kept.
LEMMA BroadcastCallKeeps ==
  ASSUME IInv, NEW t \in Threads, NEW c \in Conds, BroadcastCall(t, c)
  PROVE IInv'
<1> USE NoneAssumption, BoundAssumption DEF BroadcastCall, Goto, mutexVars, queueVars, wakeVars, Frame, NoFrame, IInv
<1>1. TypeOK'
  BY DEF TypeOK, PCs, FaultPCs, Frames
<1>2. FrameInv'
  BY DEF FrameInv, CvPCs, TypeOK, Frames
<1>3. OwnerInv'
  BY DEF OwnerInv, FrameInv, CvPCs, TypeOK, Frames
<1>4. DepthInv'
  BY DEF DepthInv, FrameInv, OwnerInv, GaveUp, CvPCs, TypeOK, Frames
<1>5. ChainInv'
  BY DEF ChainInv, FlagInv, FrameInv, CvPCs, TypeOK, Frames
<1>6. QueueInv'
  BY DEF QueueInv, WaiterInv, FrameInv, CvPCs, SleepPCs, Elems, TypeOK
<1>7. WaiterInv'
  BY DEF WaiterInv, SleepPCs, TypeOK
<1>8. FlagInv'
  BY DEF FlagInv, TypeOK
<1>9. WakeNotLost'
  BY DEF WakeNotLost, FlagInv, TypeOK
<1>10. DeferredIsFlushed'
  BY DEF DeferredIsFlushed, TypeOK
<1> QED
  BY <1>1, <1>2, <1>3, <1>4, <1>5, <1>6, <1>7, <1>8, <1>9, <1>10

\* A release() made after the chain is unlocked: the invariant is kept.
LEMMA ReleaseKeeps ==
  ASSUME IInv, NEW t \in Threads, Release(t)
  PROVE IInv'
<1> USE NoneAssumption, BoundAssumption DEF Release, Goto, Released, mutexVars, queueVars, wakeVars, Frame, NoFrame, IInv
<1>1. TypeOK'
  BY DEF TypeOK, PCs, FaultPCs, Frames
<1>2. FrameInv'
  BY DEF FrameInv, CvPCs, TypeOK, Frames
<1>3. OwnerInv'
  BY DEF OwnerInv, FrameInv, CvPCs, TypeOK, Frames
<1>4. DepthInv'
  BY DEF DepthInv, FrameInv, OwnerInv, GaveUp, CvPCs, TypeOK, Frames
<1>5. ChainInv'
  BY DEF ChainInv, FlagInv, FrameInv, CvPCs, TypeOK, Frames
<1>6. QueueInv'
  BY DEF QueueInv, WaiterInv, FrameInv, CvPCs, SleepPCs, Elems, TypeOK
<1>7. WaiterInv'
  BY DEF WaiterInv, SleepPCs, TypeOK
<1>8. FlagInv'
  BY DEF FlagInv, TypeOK
<1>9. WakeNotLost'
  BY DEF WakeNotLost, FlagInv, TypeOK
<1>10. DeferredIsFlushed'
  BY DEF DeferredIsFlushed, TypeOK
<1> QED
  BY <1>1, <1>2, <1>3, <1>4, <1>5, <1>6, <1>7, <1>8, <1>9, <1>10

\* Signal or Broadcast returns: the invariant is kept.
LEMMA ReleaseDoneKeeps ==
  ASSUME IInv, NEW t \in Threads, ReleaseDone(t)
  PROVE IInv'
<1> USE NoneAssumption, BoundAssumption DEF ReleaseDone, Goto, Return, mutexVars, queueVars, wakeVars, Frame, NoFrame, IInv
<1>1. TypeOK'
  BY DEF TypeOK, PCs, FaultPCs, Frames
<1>2. FrameInv'
  BY DEF FrameInv, CvPCs, TypeOK, Frames
<1>3. OwnerInv'
  BY DEF OwnerInv, FrameInv, CvPCs, TypeOK, Frames
<1>4. DepthInv'
  BY DEF DepthInv, FrameInv, OwnerInv, GaveUp, CvPCs, TypeOK, Frames
<1>5. ChainInv'
  BY DEF ChainInv, FlagInv, FrameInv, CvPCs, TypeOK, Frames
<1>6. QueueInv'
  BY DEF QueueInv, WaiterInv, FrameInv, CvPCs, SleepPCs, Elems, TypeOK
<1>7. WaiterInv'
  BY DEF WaiterInv, SleepPCs, TypeOK
<1>8. FlagInv'
  BY DEF FlagInv, TypeOK
<1>9. WakeNotLost'
  BY DEF WakeNotLost, FlagInv, TypeOK
<1>10. DeferredIsFlushed'
  BY DEF DeferredIsFlushed, TypeOK
<1> QED
  BY <1>1, <1>2, <1>3, <1>4, <1>5, <1>6, <1>7, <1>8, <1>9, <1>10

\* What Signal and Broadcast do to the waiters S they take off the queue of c.
LEMMA WakeKeeps ==
  ASSUME IInv, NEW t \in Threads, pc[t] \in {"signal", "broadcast"},
         NEW c \in Conds, NEW S \in SUBSET Elems(sq_blocked[c]),
         NEW rest \in Seq(Threads),
         \A i, j \in DOMAIN rest : rest[i] = rest[j] => i = j,
         Elems(rest) = Elems(sq_blocked[c]) \ S,
         Wake(t, c, S, rest)
  PROVE  IInv'
<1> DEFINE mine == {u \in S : m_owner[mutex_obj[u]] = t}
           deferred == defer_waiters[t] \cup mine
           others == S \ mine
<1> USE NoneAssumption, BoundAssumption
<1>1. S \subseteq Threads /\ mine \subseteq S
  BY DEF Elems, IInv, TypeOK
<1>2. \A u \in S : wchan[u] = c /\ pc[u] \in SleepPCs /\ mutex_obj[u] \in Mutexes
  BY <1>1 DEF IInv, QueueInv, WaiterInv, FrameInv, CvPCs, SleepPCs, TypeOK, Frames
<1>3. PICK keptD \in SUBSET deferred, keptO \in SUBSET others :
         /\ defer_waiters' = [defer_waiters EXCEPT ![t] = keptD]
         /\ waddrs' = [waddrs EXCEPT ![t] = keptO]
         /\ wake_sema' = Released((deferred \ keptD) \cup (others \ keptO))
  BY DEF Wake, KeptSets, Overflow
<1>4. /\ sq_blocked' = [sq_blocked EXCEPT ![c] = rest]
      /\ wchan' = [u \in Threads |-> IF u \in S THEN None ELSE wchan[u]]
      /\ m_deferred' = m_deferred \cup {mutex_obj[u] : u \in mine}
      /\ pc' = [pc EXCEPT ![t] = "release"]
      /\ UNCHANGED <<m_lock, m_owner, m_count, sc_lock, mutex_obj, will_sleep, frame, depth>>
  BY DEF Wake, Goto, Unqueued
<1>5. deferred \subseteq Threads /\ others \subseteq Threads
  BY <1>1 DEF IInv, TypeOK
<1>6. /\ wake_sema' \in [Threads -> Nat]
      /\ \A u \in Threads : wake_sema[u] > 0 => wake_sema'[u] > 0
      /\ \A u \in deferred : wake_sema'[u] = 0 => u \in keptD
      /\ \A u \in others : wake_sema'[u] = 0 => u \in keptO
  BY <1>3, <1>5 DEF Released, IInv, TypeOK
<1> HIDE DEF mine, deferred, others
<1>7. TypeOK'
  <2>1. defer_waiters' \in [Threads -> SUBSET Threads] /\ waddrs' \in [Threads -> SUBSET Threads]
    BY <1>3, <1>5 DEF IInv, TypeOK
  <2>2. m_deferred' \in SUBSET Mutexes
    BY <1>1, <1>2, <1>4 DEF IInv, TypeOK
  <2> QED
    BY <1>4, <1>6, <2>1, <2>2 DEF IInv, TypeOK, PCs, FaultPCs
<1>8. FrameInv' /\ OwnerInv' /\ ChainInv'
  BY <1>4 DEF IInv, FrameInv, OwnerInv, ChainInv, CvPCs, TypeOK
<1>9. DepthInv'
  BY <1>4 DEF IInv, DepthInv, GaveUp, CvPCs, TypeOK
<1>10. QueueInv'
  BY <1>1, <1>2, <1>4 DEF IInv, QueueInv, TypeOK
<1>11. WaiterInv'
  BY <1>4 DEF IInv, WaiterInv, SleepPCs, TypeOK
<1>12. FlagInv'
  BY <1>3, <1>4 DEF IInv, FlagInv, TypeOK
<1>13. WakeNotLost'
  <2> SUFFICES ASSUME NEW u \in Threads, pc'[u] \in {"cvflush", "cvwake", "cvsleep"},
                      wchan'[u] = None, wake_sema'[u] = 0
               PROVE  \E w \in Threads : u \in defer_waiters'[w] \cup waddrs'[w]
    BY <1>6 DEF WakeNotLost
  <2>1. CASE u \in S
    <3>1. u \in keptD \cup keptO
      <4>1. u \in deferred \/ u \in others
        BY <2>1 DEF deferred, others
      <4> QED
        BY <1>6, <4>1
    <3> QED
      BY <1>3, <3>1 DEF IInv, TypeOK
  <2>2. CASE u \notin S
    <3>1. PICK w \in Threads : u \in defer_waiters[w] \cup waddrs[w]
      <4>1. ~(wake_sema[u] > 0)
        BY <1>6
      <4>2. wchan[u] = None /\ pc[u] \in {"cvflush", "cvwake", "cvsleep"}
        BY <1>4, <2>2 DEF IInv, TypeOK
      <4> QED
        BY <4>1, <4>2 DEF IInv, WakeNotLost
    <3>2. waddrs[t] = {}
      BY DEF IInv, FlagInv
    <3>3. CASE w = t
      <4>1. u \in keptD
        <5>1. u \in deferred
          BY <3>1, <3>2, <3>3 DEF deferred
        <5> QED
          BY <1>6, <5>1
      <4> QED
        BY <1>3, <4>1 DEF IInv, TypeOK
    <3>4. CASE w # t
      BY <1>3, <3>1, <3>4 DEF IInv, TypeOK
    <3> QED
      BY <3>3, <3>4
  <2> QED
    BY <2>1, <2>2
<1>14. DeferredIsFlushed'
  <2>1. mine # {} => \E m \in m_deferred' : m_owner'[m] = t
    BY <1>4 DEF mine
  <2>2. defer_waiters[t] # {} => \E m \in m_deferred' : m_owner'[m] = t
    BY <1>4 DEF IInv, DeferredIsFlushed
  <2>3. defer_waiters'[t] # {} => \E m \in m_deferred' : m_owner'[m] = t
    BY <1>3, <2>1, <2>2 DEF deferred, IInv, TypeOK
  <2>4. \A u \in Threads \ {t} : /\ defer_waiters'[u] = defer_waiters[u]
                                 /\ pc'[u] = pc[u] /\ frame'[u] = frame[u]
    BY <1>3, <1>4 DEF IInv, TypeOK
  <2>5. m_owner' = m_owner /\ m_deferred \subseteq m_deferred'
    BY <1>4
  <2> QED
    BY <2>3, <2>4, <2>5 DEF IInv, DeferredIsFlushed
<1> QED
  BY <1>7, <1>8, <1>9, <1>10, <1>11, <1>12, <1>13, <1>14 DEF IInv

\* Signal or Broadcast finds no waiter: the invariant is kept.
LEMMA WakeNobodyKeeps ==
  ASSUME IInv, NEW t \in Threads, pc[t] \in {"signal", "broadcast"}, WakeNobody(t)
  PROVE  IInv'
<1> USE NoneAssumption, BoundAssumption
      DEF WakeNobody, Return, Goto, mutexVars, queueVars, wakeVars, Frame, NoFrame, IInv
<1>1. TypeOK'
  BY DEF TypeOK, PCs, FaultPCs, Frames
<1>2. FrameInv' /\ OwnerInv' /\ ChainInv'
  BY DEF FrameInv, OwnerInv, ChainInv, CvPCs, TypeOK
<1>3. DepthInv'
  BY DEF DepthInv, GaveUp, CvPCs, TypeOK
<1>4. QueueInv' /\ WaiterInv'
  BY DEF QueueInv, WaiterInv, SleepPCs, TypeOK
<1>5. FlagInv'
  BY DEF FlagInv, TypeOK
<1>6. WakeNotLost' /\ DeferredIsFlushed'
  BY DEF WakeNotLost, DeferredIsFlushed, TypeOK
<1> QED
  BY <1>1, <1>2, <1>3, <1>4, <1>5, <1>6

\* Signal of a thread that is not on the queue: the process ends.
LEMMA BadTargetKeeps ==
  ASSUME IInv, NEW t \in Threads, pc[t] = "signal", Goto(t, "badtarget"),
         UNCHANGED <<mutexVars, queueVars, wakeVars, frame, depth>>
  PROVE  IInv'
<1> USE NoneAssumption, BoundAssumption DEF Goto, mutexVars, queueVars, wakeVars, IInv
<1>1. TypeOK'
  BY DEF TypeOK, PCs, FaultPCs
<1>2. FrameInv' /\ OwnerInv' /\ ChainInv'
  BY DEF FrameInv, OwnerInv, ChainInv, CvPCs, TypeOK
<1>3. DepthInv'
  BY DEF DepthInv, GaveUp, CvPCs, TypeOK
<1>4. QueueInv' /\ WaiterInv'
  BY DEF QueueInv, WaiterInv, SleepPCs, TypeOK
<1>5. FlagInv'
  BY DEF FlagInv, TypeOK
<1>6. WakeNotLost' /\ DeferredIsFlushed'
  BY DEF WakeNotLost, DeferredIsFlushed, TypeOK
<1> QED
  BY <1>1, <1>2, <1>3, <1>4, <1>5, <1>6

\* The queue of the condition variable a thread signals is a list of threads
\* without repetitions.
LEMMA SignalQueue ==
  ASSUME IInv, NEW t \in Threads, pc[t] \in {"signal", "broadcast"}
  PROVE  LET q == sq_blocked[frame[t].c]
         IN  /\ frame[t].c \in Conds /\ q \in Seq(Threads)
             /\ \A i, j \in DOMAIN q : q[i] = q[j] => i = j
             /\ q # <<>> => q[1] \in Elems(q)
<1>1. frame[t].c \in Conds
  BY DEF IInv, FrameInv, Frames, TypeOK
<1>2. sq_blocked[frame[t].c] \in Seq(Threads)
  BY <1>1 DEF IInv, TypeOK
<1>3. sq_blocked[frame[t].c] # <<>> => 1 \in DOMAIN sq_blocked[frame[t].c]
  BY <1>2
<1> QED
  BY <1>1, <1>2, <1>3 DEF IInv, QueueInv, Elems

\* The section of Signal under the chain lock: the invariant is kept.
LEMMA SignalKeeps ==
  ASSUME IInv, NEW t \in Threads, Signal(t)
  PROVE  IInv'
<1> DEFINE c == frame[t].c
           q == sq_blocked[c]
           td == IF frame[t].td = None THEN q[1] ELSE frame[t].td
<1>1. pc[t] = "signal"
  BY DEF Signal
<1>2. /\ c \in Conds /\ q \in Seq(Threads)
      /\ \A i, j \in DOMAIN q : q[i] = q[j] => i = j
  BY <1>1, SignalQueue
<1>3. \/ WakeNobody(t)
      \/ td \in Elems(q) /\ Wake(t, c, {td}, Erase(q, td))
      \/ Goto(t, "badtarget") /\ UNCHANGED <<mutexVars, queueVars, wakeVars, frame, depth>>
  BY DEF Signal
<1> HIDE DEF c, q, td
<1>4. CASE td \in Elems(q) /\ Wake(t, c, {td}, Erase(q, td))
  <2>1. /\ Erase(q, td) \in Seq(Threads)
        /\ Elems(Erase(q, td)) = Elems(q) \ {td}
        /\ \A i, j \in DOMAIN Erase(q, td) : Erase(q, td)[i] = Erase(q, td)[j] => i = j
    BY <1>2, <1>4, EraseProps
  <2> QED
    BY <1>1, <1>2, <1>4, <2>1, WakeKeeps DEF q
<1> QED
  BY <1>1, <1>3, <1>4, WakeNobodyKeeps, BadTargetKeeps

\* The section of Broadcast under the chain lock: the invariant is kept.
LEMMA BroadcastKeeps ==
  ASSUME IInv, NEW t \in Threads, Broadcast(t)
  PROVE  IInv'
<1> DEFINE c == frame[t].c
           q == sq_blocked[c]
           none == <<>>
<1>1. pc[t] = "broadcast"
  BY DEF Broadcast
<1>2. c \in Conds
  BY <1>1, SignalQueue
<1>3. WakeNobody(t) \/ Wake(t, c, Elems(q), none)
  BY DEF Broadcast
<1>4. /\ none \in Seq(Threads) /\ Elems(none) = {}
      /\ \A i, j \in DOMAIN none : none[i] = none[j] => i = j
  BY DEF Elems
<1> HIDE DEF c, none
<1>5. CASE Wake(t, c, Elems(q), none)
  <2>1. Elems(none) = Elems(sq_blocked[c]) \ Elems(q)
    BY <1>4
  <2> QED
    BY <1>1, <1>2, <1>4, <1>5, <2>1, WakeKeeps
<1> QED
  BY <1>1, <1>3, <1>5, WakeNobodyKeeps

\* Every step of the specification keeps the inductive invariant.
LEMMA NextKeeps == IInv /\ [Next]_vars => IInv'
<1> SUFFICES ASSUME IInv, [Next]_vars PROVE IInv'
  OBVIOUS
<1>1. CASE UNCHANGED vars
  <2> USE <1>1 DEF vars
  <2>1. TypeOK' /\ FrameInv' /\ OwnerInv'
    BY DEF IInv, TypeOK, FrameInv, OwnerInv
  <2>2. DepthInv'
    BY DEF IInv, DepthInv, GaveUp
  <2>3. ChainInv' /\ QueueInv' /\ WaiterInv'
    BY DEF IInv, ChainInv, QueueInv, WaiterInv
  <2>4. FlagInv' /\ WakeNotLost' /\ DeferredIsFlushed'
    BY DEF IInv, FlagInv, WakeNotLost, DeferredIsFlushed
  <2> QED
    BY <2>1, <2>2, <2>3, <2>4 DEF IInv
<1>2. ASSUME NEW t \in Threads, GuestCall(t) PROVE IInv'
  BY <1>2, LockKeeps, SelfLockRecursiveKeeps, SelfLockNormalKeeps, UnlockNestedKeeps,
     UnlockKeeps, WaitKeeps, SignalCallKeeps, BroadcastCallKeeps, GuestAssumption DEF GuestCall
<1>3. ASSUME NEW t \in Threads, Step(t) PROVE IInv'
  BY <1>3, LockGiveUpKeeps, LockAcquireKeeps, LockOwnKeeps, UnlockReleaseKeeps, WakeAllKeeps,
     UnlockReturnKeeps, WaitEnqueueKeeps, SleepFlushKeeps, SleepBlockKeeps, SleepAcquireKeeps,
     SleepTimeoutKeeps, WaitCheckKeeps, SignalKeeps, BroadcastKeeps, ReleaseKeeps,
     ReleaseDoneKeeps DEF Step
<1> QED
  BY <1>1, <1>2, <1>3 DEF Next

\* The inductive invariant holds in every reachable state of the mutex and
\* condition variable code.
THEOREM InductiveInvariant == Spec => []IInv
  BY InitIInv, NextKeeps, PTL DEF Spec

\* Type correctness.
THEOREM TypeCorrect == Spec => []TypeOK
<1>1. IInv => TypeOK
  BY DEF IInv
<1> QED
  BY <1>1, InductiveInvariant, PTL

\* What the guest knows of its nesting when it is not in a call.
LEMMA RunDepth ==
  ASSUME IInv, NEW t \in Threads, NEW m \in Mutexes, pc[t] = "run"
  PROVE  /\ depth[t][m] = IF m_owner[m] = t THEN m_count[m] + 1 ELSE 0
         /\ depth[t][m] > 0 => m_owner[m] = t
<1>1. ~GaveUp(t)
  BY DEF GaveUp, CvPCs
<1>2. depth[t][m] = IF m_owner[m] = t THEN m_count[m] + 1 ELSE 0
  BY <1>1 DEF IInv, DepthInv
<1> QED
  BY <1>2

\* Lock, Unlock and the hand-over of the mutex in Wait exclude: m_owner never
\* lies about who holds m_lock and no two threads are in the critical section.
THEOREM MutexSafe == Spec => []MutualExclusion
<1>1. IInv => MutualExclusion
  <2> SUFFICES ASSUME IInv, NEW m \in Mutexes
               PROVE  MutualExclusion!(m)
    BY DEF MutualExclusion
  <2>1. \A t \in Threads : pc[t] = "run" /\ depth[t][m] > 0 => m_owner[m] = t
    BY RunDepth
  <2> QED
    BY <2>1 DEF IInv, OwnerInv
<1> QED
  BY <1>1, InductiveInvariant, PTL

\* A wait gives back the nesting of a recursive mutex it took.
THEOREM NestingSafe == Spec => []RecursionRestored
<1>1. IInv => RecursionRestored
  BY RunDepth DEF RecursionRestored
<1> QED
  BY <1>1, InductiveInvariant, PTL

\* No wake-up is lost between Signal or Broadcast and the end of Sleep, and every
\* deferred one has an unlock or a sleep that will make it.
THEOREM NoLostWakeup == Spec => [](WakeNotLost /\ DeferredIsFlushed)
<1>1. IInv => WakeNotLost /\ DeferredIsFlushed
  BY DEF IInv
<1> QED
  BY <1>1, InductiveInvariant, PTL


\* A thread keeps deferred wake-ups only while some unlock or sleep will make them.
THEOREM NoLostFlush == Spec => []DeferredIsFlushed
<1>1. IInv => DeferredIsFlushed
  BY DEF IInv
<1> QED
  BY <1>1, InductiveInvariant, PTL

-----------------------------------------------------------------------------
(* No thread is deferred twice                                             *)

\* The thread is on its way to making the wake-ups it deferred.
Flushing(t) ==
    \/ pc[t] \in {"wakeall", "cvadd", "cvflush", "cvwake"}
    \/ pc[t] = "unlock" /\ frame[t].deferred

\* A thread whose wake-up is deferred is off the queue, still inside its wait, and can
\* not leave it: the thread that defers owns its mutex, which is marked.
DeferInv ==
    \A t, u \in Threads :
        u \in defer_waiters[t] /\ ~Flushing(t) =>
            /\ wchan[u] = None
            /\ pc[u] \in SleepPCs \/ (pc[u] = "lock" /\ frame[u].c # None)
            /\ frame[u].m \in m_deferred /\ m_owner[frame[u].m] = t

\* A step of t that defers nothing, that takes no marked mutex from a thread that does
\* not flush, and that leaves t inside its wait if its wake-up is deferred.
LEMMA DeferKept ==
  ASSUME IInv, DeferInv, NEW t \in Threads,
         \A u \in Threads \ {t} : pc'[u] = pc[u] /\ frame'[u] = frame[u] /\ wchan'[u] = wchan[u],
         \A x \in Threads : defer_waiters'[x] \subseteq defer_waiters[x],
         Flushing(t) => Flushing(t)' \/ defer_waiters'[t] = {},
         \A m \in m_deferred, x \in Threads :
           m_owner[m] = x => (m \in m_deferred' /\ m_owner'[m] = x) \/ Flushing(x)',
         \A x \in Threads : t \in defer_waiters[x] /\ ~Flushing(x) =>
           /\ wchan'[t] = None /\ frame'[t].m = frame[t].m
           /\ pc'[t] \in SleepPCs \/ (pc'[t] = "lock" /\ frame'[t].c # None)
  PROVE  DeferInv'
<1> SUFFICES ASSUME NEW x \in Threads, NEW u \in Threads, u \in defer_waiters'[x], ~Flushing(x)'
             PROVE  /\ wchan'[u] = None
                    /\ pc'[u] \in SleepPCs \/ (pc'[u] = "lock" /\ frame'[u].c # None)
                    /\ frame'[u].m \in m_deferred' /\ m_owner'[frame'[u].m] = x
  BY DEF DeferInv, SleepPCs
<1>1. u \in defer_waiters[x] /\ ~Flushing(x)
  <2>1. CASE x = t
    BY <2>1
  <2>2. CASE x # t
    BY <2>2 DEF Flushing
  <2> QED
    BY <2>1, <2>2
<1>2. /\ wchan[u] = None
      /\ pc[u] \in SleepPCs \/ (pc[u] = "lock" /\ frame[u].c # None)
      /\ frame[u].m \in m_deferred /\ m_owner[frame[u].m] = x
  BY <1>1 DEF DeferInv
<1>3. /\ wchan'[u] = None /\ frame'[u].m = frame[u].m
      /\ pc'[u] \in SleepPCs \/ (pc'[u] = "lock" /\ frame'[u].c # None)
  BY <1>1, <1>2
<1>4. frame[u].m \in m_deferred' /\ m_owner'[frame[u].m] = x
  BY <1>2
<1> QED
  BY <1>3, <1>4

\* The wake-up of a thread in guest code, or in a call other than a wait, is not deferred.
LEMMA NotDeferred ==
  ASSUME DeferInv, NEW t \in Threads, pc[t] \notin SleepPCs, pc[t] = "lock" => frame[t].c = None
  PROVE  \A x \in Threads : ~(t \in defer_waiters[x] /\ ~Flushing(x))
BY DEF DeferInv

\* Calls that begin or end, and the parts of a call before any wait.
LEMMA DeferLock ==
  ASSUME IInv, DeferInv, NEW t \in Threads,
         \/ \E m \in Mutexes : Lock(t, m) \/ SelfLockRecursive(t, m) \/ SelfLockNormal(t, m)
                               \/ UnlockNested(t, m)
         \/ \E c \in Conds, td \in Targets \cup {None} : SignalCall(t, c, td)
         \/ \E c \in Conds : BroadcastCall(t, c)
         \/ LockGiveUp(t) \/ ReleaseDone(t) \/ Release(t) \/ UnlockReturn(t)
  PROVE  DeferInv'
<1>1. TypeOK
  BY DEF IInv
<1>2. /\ pc[t] \in {"run", "lock", "release", "wakeall"} /\ (pc[t] = "lock" => frame[t].c = None)
      /\ pc[t] = "wakeall" => defer_waiters[t] = {}
      /\ UNCHANGED <<m_owner, m_deferred, wchan, defer_waiters>>
  BY DEF Lock, SelfLockRecursive, SelfLockNormal, UnlockNested, SignalCall, BroadcastCall,
     LockGiveUp, ReleaseDone, Release, UnlockReturn, mutexVars, queueVars, wakeVars
<1>3. \A u \in Threads \ {t} : pc'[u] = pc[u] /\ frame'[u] = frame[u]
  BY <1>1 DEF Lock, SelfLockRecursive, SelfLockNormal, UnlockNested, SignalCall, BroadcastCall,
     LockGiveUp, ReleaseDone, Release, UnlockReturn, Goto, Return, TypeOK
<1>4. \A x \in Threads : ~(t \in defer_waiters[x] /\ ~Flushing(x))
  BY <1>2, NotDeferred DEF SleepPCs
<1>5. Flushing(t) => defer_waiters'[t] = {}
  BY <1>2 DEF Flushing
<1> QED
  BY <1>2, <1>3, <1>4, <1>5, DeferKept

\* A thread whose wake-up is deferred cannot get its mutex, and one that gets a mutex
\* takes it from nobody.
LEMMA DeferAcquire ==
  ASSUME IInv, DeferInv, NEW t \in Threads, LockAcquire(t) \/ LockOwn(t)
  PROVE  DeferInv'
<1>1. TypeOK /\ OwnerInv /\ FrameInv
  BY DEF IInv
<1>2. /\ pc[t] \in {"lock", "own"} /\ m_deferred' = m_deferred /\ wchan' = wchan
      /\ defer_waiters' = defer_waiters
  BY DEF LockAcquire, LockOwn, queueVars, wakeVars
<1>3. \A u \in Threads \ {t} : pc'[u] = pc[u] /\ frame'[u] = frame[u]
  BY <1>1 DEF LockAcquire, LockOwn, Goto, Return, TypeOK
<1>4. frame[t].m \in Mutexes
  BY <1>1, <1>2 DEF FrameInv, TypeOK, Frames
<1>5. \A x \in Threads : ~(t \in defer_waiters[x] /\ ~Flushing(x))
  <2>1. CASE pc[t] = "own"
    BY <2>1, NotDeferred DEF SleepPCs
  <2>2. CASE pc[t] = "lock"
    <3> SUFFICES ASSUME NEW x \in Threads, t \in defer_waiters[x], ~Flushing(x) PROVE FALSE
      OBVIOUS
    <3>1. m_owner[frame[t].m] = x
      BY DEF DeferInv
    <3>2. m_lock[frame[t].m] = None
      BY <2>2 DEF LockAcquire, LockOwn
    <3> QED
      BY <1>1, <1>4, <3>1, <3>2, NoneAssumption DEF OwnerInv
  <2> QED
    BY <1>2, <2>1, <2>2
<1>6. ASSUME NEW m \in m_deferred, NEW x \in Threads, m_owner[m] = x
      PROVE  m_owner'[m] = x
  <2>1. CASE LockAcquire(t)
    BY <1>6, <2>1 DEF LockAcquire
  <2>2. CASE LockOwn(t)
    <3>1. m_owner[frame[t].m] = None
      BY <1>1, <2>2 DEF OwnerInv, LockOwn
    <3> QED
      BY <1>1, <1>6, <2>2, <3>1, NoneAssumption DEF LockOwn, TypeOK
  <2> QED
    BY <2>1, <2>2
<1>7. ~Flushing(t)
  BY <1>2 DEF Flushing
<1> QED
  BY <1>2, <1>3, <1>5, <1>6, <1>7, DeferKept

\* Unlock and Wait of a marked mutex are the beginning of a flush.
LEMMA DeferDrop ==
  ASSUME IInv, DeferInv, NEW t \in Threads, NEW m \in Mutexes,
         Unlock(t, m) \/ \E c \in Conds, timed \in BOOLEAN : Wait(t, c, m, timed)
  PROVE  DeferInv'
<1>1. TypeOK
  BY DEF IInv
<1>2. /\ pc[t] = "run" /\ m_owner[m] = t /\ DropOwner(m) /\ wchan' = wchan
      /\ defer_waiters' = defer_waiters /\ Goto(t, "unlock")
  BY DEF Unlock, Wait, queueVars, wakeVars
<1>3. /\ \A u \in Threads \ {t} : frame'[u] = frame[u]
      /\ frame'[t].deferred = (m \in m_deferred)
  BY <1>1 DEF Unlock, Wait, TypeOK, Frame
<1>4. pc'[t] = "unlock" /\ \A u \in Threads \ {t} : pc'[u] = pc[u]
  BY <1>1, <1>2 DEF Goto, TypeOK
<1>5. \A x \in Threads : ~(t \in defer_waiters[x] /\ ~Flushing(x))
  BY <1>2, NotDeferred DEF SleepPCs
<1>6. ASSUME NEW n \in m_deferred, NEW x \in Threads, m_owner[n] = x
      PROVE  (n \in m_deferred' /\ m_owner'[n] = x) \/ Flushing(x)'
  <2>1. CASE n = m
    <3>1. x = t /\ frame'[t].deferred
      BY <1>2, <1>3, <1>6, <2>1
    <3> QED
      BY <1>4, <3>1 DEF Flushing
  <2>2. CASE n # m
    BY <1>1, <1>2, <1>6, <2>2 DEF DropOwner, TypeOK
  <2> QED
    BY <2>1, <2>2
<1>7. ~Flushing(t)
  BY <1>2 DEF Flushing
<1> QED
  BY <1>2, <1>3, <1>4, <1>5, <1>6, <1>7, DeferKept

\* A flush goes on until nothing is deferred.
LEMMA DeferFlush ==
  ASSUME IInv, DeferInv, NEW t \in Threads,
         UnlockRelease(t) \/ WakeAll(t) \/ WaitEnqueue(t) \/ SleepFlush(t) \/ SleepBlock(t)
  PROVE  DeferInv'
<1>1. TypeOK /\ FlagInv
  BY DEF IInv
<1>2. /\ UNCHANGED <<m_owner, m_deferred>>
      /\ pc[t] \in {"unlock", "wakeall", "cvadd", "cvflush", "cvwake"}
  BY DEF UnlockRelease, WakeAll, WaitEnqueue, SleepFlush, SleepBlock, mutexVars
<1>3. \A u \in Threads \ {t} : pc'[u] = pc[u] /\ frame'[u] = frame[u] /\ wchan'[u] = wchan[u]
  BY <1>1 DEF UnlockRelease, WakeAll, WaitEnqueue, SleepFlush, SleepBlock, Goto, queueVars, TypeOK
<1>4. \A x \in Threads : defer_waiters'[x] \subseteq defer_waiters[x]
  <2>1. CASE WakeAll(t)
    <3>1. PICK u : defer_waiters' = [defer_waiters EXCEPT ![t] = @ \ {u}]
      BY <2>1 DEF WakeAll
    <3> QED
      BY <1>1, <3>1 DEF TypeOK
  <2>2. CASE ~WakeAll(t)
    BY <2>2 DEF UnlockRelease, WaitEnqueue, SleepFlush, SleepBlock, wakeVars
  <2> QED
    BY <2>1, <2>2
<1>5. Flushing(t) => Flushing(t)' \/ defer_waiters'[t] = {}
  <2>1. CASE UnlockRelease(t)
    <3>1. pc[t] = "unlock" /\ will_sleep[t] = (frame[t].c # None)
      BY <1>1, <2>1 DEF UnlockRelease, FlagInv, TypeOK
    <3>2. ASSUME frame[t].deferred PROVE pc'[t] \in {"wakeall", "cvadd"}
      BY <1>1, <2>1, <3>1, <3>2 DEF UnlockRelease, Goto, TypeOK
    <3> QED
      BY <3>1, <3>2 DEF Flushing
  <2>2. CASE WakeAll(t)
    BY <2>2 DEF WakeAll, Flushing
  <2>3. CASE WaitEnqueue(t)
    BY <1>1, <2>3 DEF WaitEnqueue, Flushing, Goto, TypeOK
  <2>4. CASE SleepFlush(t)
    BY <1>1, <2>4 DEF SleepFlush, Flushing, Goto, TypeOK
  <2>5. CASE SleepBlock(t)
    BY <2>5 DEF SleepBlock, wakeVars
  <2> QED
    BY <2>1, <2>2, <2>3, <2>4, <2>5
<1>6. ASSUME NEW x \in Threads, t \in defer_waiters[x], ~Flushing(x)
      PROVE  /\ wchan'[t] = None /\ frame'[t].m = frame[t].m
             /\ pc'[t] \in SleepPCs \/ (pc'[t] = "lock" /\ frame'[t].c # None)
  <2>1. wchan[t] = None /\ pc[t] \in {"cvflush", "cvwake"}
    BY <1>2, <1>6 DEF DeferInv, SleepPCs
  <2>2. CASE SleepFlush(t)
    BY <1>1, <2>1, <2>2 DEF SleepFlush, SleepPCs, Goto, queueVars, TypeOK
  <2>3. CASE SleepBlock(t)
    BY <1>1, <2>1, <2>3 DEF SleepBlock, SleepPCs, Goto, queueVars, TypeOK
  <2>4. CASE WakeAll(t)
    BY <2>1, <2>4 DEF WakeAll, SleepPCs, queueVars
  <2> QED
    BY <2>1, <2>2, <2>3, <2>4 DEF UnlockRelease, WaitEnqueue
<1> QED
  BY <1>2, <1>3, <1>4, <1>5, <1>6, DeferKept

\* A thread that sleeps or ends its sleep stays inside its wait.
LEMMA DeferSleep ==
  ASSUME IInv, DeferInv, NEW t \in Threads, SleepAcquire(t) \/ SleepTimeout(t) \/ WaitCheck(t)
  PROVE  DeferInv'
<1>1. TypeOK /\ FrameInv
  BY DEF IInv
<1>2. /\ UNCHANGED <<m_owner, m_deferred, defer_waiters>>
      /\ pc[t] \in {"cvsleep", "cvcheck"}
  BY DEF SleepAcquire, SleepTimeout, WaitCheck, mutexVars, wakeVars
<1>3. \A u \in Threads \ {t} : pc'[u] = pc[u] /\ frame'[u] = frame[u] /\ wchan'[u] = wchan[u]
  BY <1>1 DEF SleepAcquire, SleepTimeout, WaitCheck, Goto, queueVars, TypeOK
<1>4. frame'[t].m = frame[t].m /\ frame'[t].c = frame[t].c
  BY <1>1 DEF SleepAcquire, SleepTimeout, WaitCheck, queueVars, TypeOK, Frames
<1>5. frame[t].c # None
  BY <1>1, <1>2 DEF FrameInv, CvPCs
<1>6. ASSUME NEW x \in Threads, t \in defer_waiters[x], ~Flushing(x)
      PROVE  /\ wchan'[t] = None
             /\ pc'[t] \in SleepPCs \/ (pc'[t] = "lock" /\ frame'[t].c # None)
  <2>1. wchan[t] = None
    BY <1>6 DEF DeferInv
  <2>2. wchan'[t] = None
    BY <1>1, <2>1 DEF SleepAcquire, SleepTimeout, WaitCheck, queueVars, TypeOK
  <2>3. pc'[t] \in {"cvcheck", "lock"}
    BY <1>1, <2>1 DEF SleepAcquire, SleepTimeout, WaitCheck, Goto, TypeOK
  <2> QED
    BY <1>4, <1>5, <2>2, <2>3 DEF SleepPCs
<1>7. ~Flushing(t)
  BY <1>2 DEF Flushing
<1> QED
  BY <1>2, <1>3, <1>4, <1>6, <1>7, DeferKept

\* A wake-up that is deferred is that of a thread whose mutex the caller owns and marks.
LEMMA DeferWake ==
  ASSUME IInv, DeferInv, NEW t \in Threads, pc[t] \in {"signal", "broadcast"},
         NEW c \in Conds, NEW S \in SUBSET Elems(sq_blocked[c]), NEW rest, Wake(t, c, S, rest)
  PROVE  DeferInv'
<1> DEFINE mine == {u \in S : m_owner[mutex_obj[u]] = t}
<1>1. TypeOK /\ WaiterInv /\ QueueInv
  BY DEF IInv
<1>2. S \subseteq Threads /\ \A u \in S : wchan[u] = c
  <2>1. \A i \in DOMAIN sq_blocked[c] : sq_blocked[c][i] \in Threads
    BY <1>1, ElementOfSeq, LenProperties DEF TypeOK
  <2>2. S \subseteq Threads
    BY <2>1 DEF Elems
  <2> QED
    BY <1>1, <2>2 DEF QueueInv
<1>3. \A u \in S : pc[u] \in SleepPCs /\ mutex_obj[u] = frame[u].m
  BY <1>1, <1>2, NoneAssumption DEF WaiterInv
<1>4. /\ \A u \in Threads : wchan'[u] = IF u \in S THEN None ELSE wchan[u]
      /\ m_deferred' = m_deferred \cup {mutex_obj[u] : u \in mine}
      /\ frame' = frame /\ m_owner' = m_owner /\ Goto(t, "release")
  BY DEF Wake, Unqueued
<1>5. pc'[t] = "release" /\ \A u \in Threads \ {t} : pc'[u] = pc[u]
  BY <1>1, <1>4 DEF Goto, TypeOK
<1>6. PICK keptD : defer_waiters' = [defer_waiters EXCEPT ![t] = keptD]
                   /\ keptD \subseteq defer_waiters[t] \cup mine
  BY DEF Wake, KeptSets
<1>7. /\ defer_waiters'[t] \subseteq defer_waiters[t] \cup mine
      /\ \A x \in Threads \ {t} : defer_waiters'[x] = defer_waiters[x]
  BY <1>1, <1>6 DEF TypeOK
<1> HIDE DEF mine
<1> SUFFICES ASSUME NEW x \in Threads, NEW u \in Threads, u \in defer_waiters'[x], ~Flushing(x)'
             PROVE  /\ wchan'[u] = None
                    /\ pc'[u] \in SleepPCs \/ (pc'[u] = "lock" /\ frame'[u].c # None)
                    /\ frame'[u].m \in m_deferred' /\ m_owner'[frame'[u].m] = x
  BY DEF DeferInv, SleepPCs
<1>8. CASE x = t /\ u \in mine
  <2>1. u \in S /\ m_owner[mutex_obj[u]] = t
    BY <1>8 DEF mine
  <2>2. pc[u] \in SleepPCs /\ mutex_obj[u] = frame[u].m
    BY <1>3, <2>1
  <2>3. u # t
    BY <2>2 DEF SleepPCs
  <2>4. pc'[u] \in SleepPCs /\ wchan'[u] = None
    BY <1>4, <1>5, <2>1, <2>2, <2>3
  <2>5. frame'[u].m = mutex_obj[u]
    BY <1>4, <2>2
  <2>6. mutex_obj[u] \in m_deferred' /\ m_owner'[mutex_obj[u]] = x
    BY <1>4, <1>8, <2>1
  <2> QED
    BY <2>4, <2>5, <2>6
<1>9. CASE ~(x = t /\ u \in mine)
  <2>1. u \in defer_waiters[x]
    BY <1>7, <1>9
  <2>2. ~Flushing(x)
    BY <1>4, <1>5 DEF Flushing
  <2>3. /\ wchan[u] = None
        /\ pc[u] \in SleepPCs \/ (pc[u] = "lock" /\ frame[u].c # None)
        /\ frame[u].m \in m_deferred /\ m_owner[frame[u].m] = x
    BY <2>1, <2>2 DEF DeferInv
  <2>4. u # t
    BY <2>3 DEF SleepPCs
  <2> QED
    BY <1>4, <1>5, <2>3, <2>4
<1> QED
  BY <1>8, <1>9

\* Signal and Broadcast.
LEMMA DeferSignal ==
  ASSUME IInv, DeferInv, NEW t \in Threads, Signal(t) \/ Broadcast(t)
  PROVE  DeferInv'
<1> DEFINE c == frame[t].c
<1>1. TypeOK /\ FrameInv
  BY DEF IInv
<1>2. pc[t] \in {"signal", "broadcast"} /\ c \in Conds
  BY <1>1 DEF Signal, Broadcast, FrameInv, TypeOK, Frames
<1>3. CASE WakeNobody(t) \/ (Goto(t, "badtarget") /\ UNCHANGED <<mutexVars, queueVars, wakeVars, frame, depth>>)
  <2>1. UNCHANGED <<m_owner, m_deferred, wchan, defer_waiters>>
    BY <1>3 DEF WakeNobody, mutexVars, queueVars, wakeVars
  <2>2. \A u \in Threads \ {t} : pc'[u] = pc[u] /\ frame'[u] = frame[u]
    BY <1>1, <1>3 DEF WakeNobody, Goto, Return, TypeOK
  <2>3. \A x \in Threads : ~(t \in defer_waiters[x] /\ ~Flushing(x))
    BY <1>2, NotDeferred DEF SleepPCs
  <2>4. ~Flushing(t)
    BY <1>2 DEF Flushing
  <2> QED
    BY <2>1, <2>2, <2>3, <2>4, DeferKept
<1>4. ASSUME NEW S \in SUBSET Elems(sq_blocked[c]), NEW rest, Wake(t, c, S, rest)
      PROVE  DeferInv'
  <2> HIDE DEF c
  <2> QED
    BY <1>2, <1>4, DeferWake
<1>5. CASE Signal(t)
  <2> DEFINE q == sq_blocked[c]
             td == IF frame[t].td = None THEN q[1] ELSE frame[t].td
  <2>1. \/ WakeNobody(t)
        \/ td \in Elems(q) /\ Wake(t, c, {td}, Erase(q, td))
        \/ Goto(t, "badtarget") /\ UNCHANGED <<mutexVars, queueVars, wakeVars, frame, depth>>
    BY <1>5 DEF Signal
  <2>2. CASE td \in Elems(q) /\ Wake(t, c, {td}, Erase(q, td))
    <3> HIDE DEF td, c
    <3>1. {td} \in SUBSET Elems(sq_blocked[c])
      BY <2>2
    <3> QED
      BY <1>4, <2>2, <3>1
  <2> QED
    BY <1>3, <2>1, <2>2
<1>6. CASE Broadcast(t)
  BY <1>3, <1>4, <1>6 DEF Broadcast
<1> QED
  BY <1>5, <1>6

\* defer_waiters holds no thread twice: what a caller of Signal or Broadcast has deferred is
\* on no queue, with any number of mutexes and condition variables and with timed waits.
THEOREM DeferredOnce == Spec => []NoDoubleDefer
<1>1. Init => DeferInv
  BY DEF Init, DeferInv
<1>2. IInv /\ DeferInv /\ [Next]_vars => DeferInv'
  <2> SUFFICES ASSUME IInv, DeferInv, [Next]_vars PROVE DeferInv'
    OBVIOUS
  <2>1. CASE UNCHANGED vars
    BY <2>1 DEF vars, DeferInv, Flushing, SleepPCs
  <2>2. ASSUME NEW t \in Threads, GuestCall(t) PROVE DeferInv'
    <3>1. CASE \E m \in Mutexes : Unlock(t, m)
                 \/ \E c \in Conds, timed \in BOOLEAN : Wait(t, c, m, timed)
      BY <3>1, DeferDrop
    <3>2. CASE ~\E m \in Mutexes : Unlock(t, m)
                 \/ \E c \in Conds, timed \in BOOLEAN : Wait(t, c, m, timed)
      BY <2>2, <3>2, DeferLock DEF GuestCall
    <3> QED
      BY <3>1, <3>2
  <2>3. ASSUME NEW t \in Threads, Step(t) PROVE DeferInv'
    BY <2>3, DeferLock, DeferAcquire, DeferFlush, DeferSleep, DeferSignal DEF Step
  <2> QED
    BY <2>1, <2>2, <2>3 DEF Next
<1>3. DeferInv => NoDoubleDefer
  BY DEF DeferInv, NoDoubleDefer, Flushing
<1> QED
  BY <1>1, <1>2, <1>3, InductiveInvariant, PTL DEF Spec

-----------------------------------------------------------------------------
(* PthreadCond implements Monitor                                          *)

\* A thread that Monitor knows nothing of: not in a wait, with no request.
Quiet(t) == ~InWait(t) /\ pc[t] \notin {"signal", "broadcast", "badtarget"}

\* A thread that stays where it is looks the same to Monitor.
LEMMA SameView ==
  ASSUME NEW u, pc'[u] = pc[u], frame'[u] = frame[u], wchan'[u] = wchan[u]
  PROVE  /\ WaitStatus(u)' = WaitStatus(u) /\ WaitOf(u)' = WaitOf(u)
         /\ RequestOf(u)' = RequestOf(u)
BY DEF WaitStatus, WaitOf, RequestOf, InWait

\* What Monitor sees of a quiet thread.
LEMMA QuietView ==
  ASSUME NEW t
  PROVE  /\ Quiet(t) => /\ WaitStatus(t) = "idle"
                        /\ WaitOf(t) = [c |-> None, m |-> None]
                        /\ RequestOf(t) = [all |-> FALSE, c |-> None, td |-> None]
         /\ Quiet(t)' => /\ WaitStatus(t)' = "idle"
                         /\ WaitOf(t)' = [c |-> None, m |-> None]
                         /\ RequestOf(t)' = [all |-> FALSE, c |-> None, td |-> None]
BY DEF Quiet, WaitStatus, WaitOf, RequestOf

\* What Monitor sees of a thread in a wait, and of one with a request.
LEMMA WaitView ==
  ASSUME NEW t
  PROVE  /\ pc[t] \in CvPCs =>
              /\ WaitStatus(t) = IF pc[t] = "cvadd" \/ wchan[t] # None THEN "waiting" ELSE "signalled"
              /\ WaitOf(t) = [c |-> frame[t].c, m |-> frame[t].m]
              /\ RequestOf(t) = [all |-> FALSE, c |-> None, td |-> None]
         /\ pc'[t] \in CvPCs =>
              /\ WaitStatus(t)' = IF pc'[t] = "cvadd" \/ wchan'[t] # None THEN "waiting" ELSE "signalled"
              /\ WaitOf(t)' = [c |-> frame'[t].c, m |-> frame'[t].m]
              /\ RequestOf(t)' = [all |-> FALSE, c |-> None, td |-> None]
<1>1. pc[t] \in CvPCs =>
        /\ WaitStatus(t) = IF pc[t] = "cvadd" \/ wchan[t] # None THEN "waiting" ELSE "signalled"
        /\ WaitOf(t) = [c |-> frame[t].c, m |-> frame[t].m]
        /\ RequestOf(t) = [all |-> FALSE, c |-> None, td |-> None]
  BY DEF CvPCs, WaitStatus, WaitOf, RequestOf, InWait
<1>2. pc'[t] \in CvPCs =>
        /\ WaitStatus(t)' = IF pc'[t] = "cvadd" \/ wchan'[t] # None THEN "waiting" ELSE "signalled"
        /\ WaitOf(t)' = [c |-> frame'[t].c, m |-> frame'[t].m]
        /\ RequestOf(t)' = [all |-> FALSE, c |-> None, td |-> None]
  BY DEF CvPCs, WaitStatus, WaitOf, RequestOf, InWait
<1> QED
  BY <1>1, <1>2

\* What Monitor sees of a thread that waits for the mutex at the end of its wait.
LEMMA LockView ==
  ASSUME NEW t
  PROVE  /\ pc[t] = "lock" /\ frame[t].c # None =>
              /\ WaitStatus(t) = IF frame[t].error = "ok" THEN "signalled" ELSE "timedout"
              /\ WaitOf(t) = [c |-> frame[t].c, m |-> frame[t].m]
              /\ RequestOf(t) = [all |-> FALSE, c |-> None, td |-> None]
         /\ pc'[t] = "lock" /\ frame'[t].c # None =>
              /\ WaitStatus(t)' = IF frame'[t].error = "ok" THEN "signalled" ELSE "timedout"
              /\ WaitOf(t)' = [c |-> frame'[t].c, m |-> frame'[t].m]
              /\ RequestOf(t)' = [all |-> FALSE, c |-> None, td |-> None]
<1>1. pc[t] = "lock" /\ frame[t].c # None =>
        /\ WaitStatus(t) = IF frame[t].error = "ok" THEN "signalled" ELSE "timedout"
        /\ WaitOf(t) = [c |-> frame[t].c, m |-> frame[t].m]
        /\ RequestOf(t) = [all |-> FALSE, c |-> None, td |-> None]
  BY DEF WaitStatus, WaitOf, RequestOf, InWait
<1>2. pc'[t] = "lock" /\ frame'[t].c # None =>
        /\ WaitStatus(t)' = IF frame'[t].error = "ok" THEN "signalled" ELSE "timedout"
        /\ WaitOf(t)' = [c |-> frame'[t].c, m |-> frame'[t].m]
        /\ RequestOf(t)' = [all |-> FALSE, c |-> None, td |-> None]
  BY DEF WaitStatus, WaitOf, RequestOf, InWait
<1> QED
  BY <1>1, <1>2

\* What Monitor sees of a thread with a request.
LEMMA RequestView ==
  ASSUME NEW t
  PROVE  /\ pc[t] \in {"signal", "broadcast", "badtarget"} =>
              /\ WaitStatus(t) = "idle" /\ WaitOf(t) = [c |-> None, m |-> None]
              /\ RequestOf(t) = [all |-> pc[t] = "broadcast", c |-> frame[t].c, td |-> frame[t].td]
         /\ pc'[t] \in {"signal", "broadcast", "badtarget"} =>
              /\ WaitStatus(t)' = "idle" /\ WaitOf(t)' = [c |-> None, m |-> None]
              /\ RequestOf(t)' = [all |-> pc'[t] = "broadcast", c |-> frame'[t].c, td |-> frame'[t].td]
<1>1. pc[t] \in {"signal", "broadcast", "badtarget"} =>
        /\ WaitStatus(t) = "idle" /\ WaitOf(t) = [c |-> None, m |-> None]
        /\ RequestOf(t) = [all |-> pc[t] = "broadcast", c |-> frame[t].c, td |-> frame[t].td]
  BY DEF WaitStatus, WaitOf, RequestOf, InWait
<1>2. pc'[t] \in {"signal", "broadcast", "badtarget"} =>
        /\ WaitStatus(t)' = "idle" /\ WaitOf(t)' = [c |-> None, m |-> None]
        /\ RequestOf(t)' = [all |-> pc'[t] = "broadcast", c |-> frame'[t].c, td |-> frame'[t].td]
  BY DEF WaitStatus, WaitOf, RequestOf, InWait
<1> QED
  BY <1>1, <1>2

\* The step changes nothing that Monitor sees.
LEMMA Stutters ==
  ASSUME NEW t \in Threads, m_lock' = m_lock,
         \A u \in Threads \ {t} : pc'[u] = pc[u] /\ frame'[u] = frame[u] /\ wchan'[u] = wchan[u],
         WaitStatus(t)' = WaitStatus(t), WaitOf(t)' = WaitOf(t), RequestOf(t)' = RequestOf(t)
  PROVE  UNCHANGED Promise!mvars
<1>1. \A u \in Threads : /\ WaitStatus(u)' = WaitStatus(u) /\ WaitOf(u)' = WaitOf(u)
                         /\ RequestOf(u)' = RequestOf(u)
  BY SameView
<1>2. [u \in Threads |-> WaitStatus(u)'] = [u \in Threads |-> WaitStatus(u)]
  BY <1>1
<1>3. [u \in Threads |-> WaitOf(u)'] = [u \in Threads |-> WaitOf(u)]
  BY <1>1
<1>4. [u \in Threads |-> RequestOf(u)'] = [u \in Threads |-> RequestOf(u)]
  BY <1>1
<1> QED
  BY <1>2, <1>3, <1>4 DEF Promise!mvars

\* Steps of a thread that is quiet before and after, or of one in a wait that goes on.
LEMMA QuietSteps ==
  ASSUME IInv, NEW t \in Threads,
         \/ \E m \in Mutexes : Lock(t, m) \/ SelfLockRecursive(t, m) \/ SelfLockNormal(t, m)
                               \/ UnlockNested(t, m) \/ Unlock(t, m)
         \/ \E c \in Conds, m \in Mutexes, timed \in BOOLEAN : Wait(t, c, m, timed)
         \/ LockGiveUp(t) \/ LockOwn(t) \/ UnlockReturn(t) \/ Release(t) \/ ReleaseDone(t)
  PROVE  UNCHANGED Promise!mvars
<1>1. TypeOK
  BY DEF IInv
<1>2. /\ m_lock' = m_lock /\ wchan' = wchan
      /\ pc[t] \in {"run", "own", "wakeall", "release"} \/ (pc[t] = "lock" /\ frame[t].c = None)
  BY DEF Lock, SelfLockRecursive, SelfLockNormal, UnlockNested, Unlock, Wait, LockGiveUp, LockOwn,
     UnlockReturn, Release, ReleaseDone, mutexVars, queueVars
<1>3. \A u \in Threads \ {t} : pc'[u] = pc[u] /\ frame'[u] = frame[u]
  BY <1>1 DEF Lock, SelfLockRecursive, SelfLockNormal, UnlockNested, Unlock, Wait, LockGiveUp,
     LockOwn, UnlockReturn, Release, ReleaseDone, Goto, Return, TypeOK
<1>4. \/ pc'[t] \in {"run", "selfdeadlock", "unlock", "release"}
      \/ pc'[t] = "lock" /\ frame'[t].c = None
  BY <1>1 DEF Lock, SelfLockRecursive, SelfLockNormal, UnlockNested, Unlock, Wait, LockGiveUp,
     LockOwn, UnlockReturn, Release, ReleaseDone, Goto, Return, Frame, NoFrame, TypeOK
<1>5. Quiet(t) /\ Quiet(t)'
  <2>1. Quiet(t)
    BY <1>2 DEF Quiet, InWait
  <2>2. Quiet(t)'
    BY <1>4 DEF Quiet, InWait
  <2> QED
    BY <2>1, <2>2
<1>6. WaitStatus(t)' = WaitStatus(t) /\ WaitOf(t)' = WaitOf(t) /\ RequestOf(t)' = RequestOf(t)
  BY <1>5, QuietView
<1> QED
  BY <1>2, <1>3, <1>6, Stutters

\* A loop of WakeAll, and the steps from SleepqAdd to the end of Sleep.
LEMMA SleepSteps ==
  ASSUME IInv, NEW t \in Threads,
         \/ WakeAll(t) \/ WaitEnqueue(t) \/ SleepFlush(t) \/ SleepBlock(t)
         \/ SleepAcquire(t) \/ SleepTimeout(t)
  PROVE  UNCHANGED Promise!mvars
<1>1. TypeOK /\ FrameInv
  BY DEF IInv
<1>2. m_lock' = m_lock
  BY DEF WakeAll, WaitEnqueue, SleepFlush, SleepBlock, SleepAcquire, SleepTimeout, mutexVars
<1>3. \A u \in Threads \ {t} : pc'[u] = pc[u] /\ frame'[u] = frame[u] /\ wchan'[u] = wchan[u]
  BY <1>1 DEF WakeAll, WaitEnqueue, SleepFlush, SleepBlock, SleepAcquire, SleepTimeout, Goto,
     queueVars, TypeOK
<1>4. CASE WakeAll(t)
  BY <1>2, <1>3, <1>4, SameView, Stutters DEF WakeAll, queueVars
<1>5. CASE ~WakeAll(t)
  <2>1. pc[t] \in CvPCs /\ pc'[t] \in CvPCs \ {"cvadd"}
    BY <1>1, <1>5 DEF WaitEnqueue, SleepFlush, SleepBlock, SleepAcquire, SleepTimeout, CvPCs, Goto,
       TypeOK
  <2>2. frame'[t].c = frame[t].c /\ frame'[t].m = frame[t].m
    BY <1>1, <1>5 DEF WaitEnqueue, SleepFlush, SleepBlock, SleepAcquire, SleepTimeout, TypeOK, Frames
  <2>3. (pc[t] = "cvadd" \/ wchan[t] # None) <=> wchan'[t] # None
    <3>1. CASE WaitEnqueue(t)
      <4>1. frame[t].c # None /\ wchan'[t] = frame[t].c /\ pc[t] = "cvadd"
        BY <1>1, <3>1 DEF WaitEnqueue, FrameInv, CvPCs, TypeOK
      <4> QED
        BY <4>1
    <3>2. CASE ~WaitEnqueue(t)
      BY <1>5, <3>2 DEF SleepFlush, SleepBlock, SleepAcquire, SleepTimeout, queueVars
    <3> QED
      BY <3>1, <3>2
  <2>4. WaitStatus(t)' = WaitStatus(t) /\ WaitOf(t)' = WaitOf(t) /\ RequestOf(t)' = RequestOf(t)
    BY <2>1, <2>2, <2>3, WaitView
  <2> QED
    BY <1>2, <1>3, <2>4, Stutters
<1> QED
  BY <1>4, <1>5

\* The functions that Monitor sees, when only t changes.
LEMMA OneChanges ==
  ASSUME NEW t \in Threads,
         \A u \in Threads \ {t} : pc'[u] = pc[u] /\ frame'[u] = frame[u] /\ wchan'[u] = wchan[u]
  PROVE  /\ [u \in Threads |-> WaitStatus(u)'] =
              [[u \in Threads |-> WaitStatus(u)] EXCEPT ![t] = WaitStatus(t)']
         /\ [u \in Threads |-> WaitOf(u)'] =
              [[u \in Threads |-> WaitOf(u)] EXCEPT ![t] = WaitOf(t)']
         /\ [u \in Threads |-> RequestOf(u)'] =
              [[u \in Threads |-> RequestOf(u)] EXCEPT ![t] = RequestOf(t)']
<1>1. \A u \in Threads \ {t} : /\ WaitStatus(u)' = WaitStatus(u) /\ WaitOf(u)' = WaitOf(u)
                               /\ RequestOf(u)' = RequestOf(u)
  BY SameView
<1>2. [u \in Threads |-> WaitStatus(u)'] =
        [[u \in Threads |-> WaitStatus(u)] EXCEPT ![t] = WaitStatus(t)']
  BY <1>1
<1>3. [u \in Threads |-> WaitOf(u)'] = [[u \in Threads |-> WaitOf(u)] EXCEPT ![t] = WaitOf(t)']
  BY <1>1
<1>4. [u \in Threads |-> RequestOf(u)'] =
        [[u \in Threads |-> RequestOf(u)] EXCEPT ![t] = RequestOf(t)']
  BY <1>1
<1> QED
  BY <1>2, <1>3, <1>4

\* LockAcquire is Acquire, or the end of a wait.
LEMMA AcquireSteps ==
  ASSUME IInv, NEW t \in Threads, LockAcquire(t)
  PROVE  Promise!Next
<1> DEFINE m == frame[t].m
           st == [u \in Threads |-> WaitStatus(u)]
           wt == [u \in Threads |-> WaitOf(u)]
           rq == [u \in Threads |-> RequestOf(u)]
<1>1. TypeOK /\ FrameInv
  BY DEF IInv
<1>2. /\ pc[t] = "lock" /\ m_lock[m] = None /\ m_lock' = [m_lock EXCEPT ![m] = t]
      /\ frame' = frame /\ wchan' = wchan /\ Goto(t, "own")
  BY DEF LockAcquire, queueVars
<1>3. pc'[t] = "own" /\ \A u \in Threads \ {t} : pc'[u] = pc[u]
  BY <1>1, <1>2 DEF Goto, TypeOK
<1>4. m \in Mutexes
  BY <1>1, <1>2 DEF FrameInv, TypeOK, Frames
<1>5. Quiet(t)'
  BY <1>3 DEF Quiet, InWait
<1>6. /\ WaitStatus(t)' = "idle" /\ WaitOf(t)' = [c |-> None, m |-> None]
      /\ RequestOf(t)' = [all |-> FALSE, c |-> None, td |-> None]
  BY <1>5, QuietView
<1>7. /\ st' = [st EXCEPT ![t] = WaitStatus(t)'] /\ wt' = [wt EXCEPT ![t] = WaitOf(t)']
      /\ rq' = [rq EXCEPT ![t] = RequestOf(t)']
  BY <1>2, <1>3, OneChanges
<1>8. CASE frame[t].c = None
  <2>1. Quiet(t)
    BY <1>2, <1>8 DEF Quiet, InWait
  <2>2. /\ WaitStatus(t) = "idle" /\ WaitStatus(t)' = WaitStatus(t) /\ WaitOf(t)' = WaitOf(t)
        /\ RequestOf(t)' = RequestOf(t)
    BY <1>6, <2>1, QuietView
  <2>3. st[t] = "idle" /\ st' = st /\ wt' = wt /\ rq' = rq
    BY <1>7, <2>2
  <2>4. Promise!Acquire(t, m)
    BY <1>2, <2>3 DEF Promise!Acquire
  <2> QED
    BY <1>4, <2>4 DEF Promise!Next
<1>9. CASE frame[t].c # None
  <2>1. /\ WaitStatus(t) \in {"signalled", "timedout"} /\ WaitOf(t).m = m
        /\ RequestOf(t) = RequestOf(t)'
    BY <1>2, <1>6, <1>9, LockView
  <2>2. st[t] \in {"signalled", "timedout"} /\ wt[t].m = m /\ rq' = rq
    BY <1>7, <2>1
  <2>3. Promise!EndWait(t)
    BY <1>2, <1>6, <1>7, <2>2 DEF Promise!EndWait, Promise!NoWait
  <2> QED
    BY <2>3 DEF Promise!Next
<1> QED
  BY <1>8, <1>9

\* UnlockRelease is Relinquish, or the beginning of a wait.
LEMMA ReleaseSteps ==
  ASSUME IInv, NEW t \in Threads, UnlockRelease(t)
  PROVE  Promise!Next
<1> DEFINE m == frame[t].m
           st == [u \in Threads |-> WaitStatus(u)]
           wt == [u \in Threads |-> WaitOf(u)]
           rq == [u \in Threads |-> RequestOf(u)]
<1>1. TypeOK /\ FrameInv /\ OwnerInv /\ FlagInv
  BY DEF IInv
<1>2. /\ pc[t] = "unlock" /\ m_lock' = [m_lock EXCEPT ![m] = None] /\ wchan' = wchan
  BY DEF UnlockRelease, queueVars
<1>3. m_lock[m] = t /\ m \in Mutexes /\ frame[t].c \in Conds \cup {None}
  BY <1>1, <1>2 DEF FrameInv, OwnerInv, TypeOK, Frames
<1>4. \A u \in Threads \ {t} : pc'[u] = pc[u] /\ frame'[u] = frame[u]
  BY <1>1 DEF UnlockRelease, Goto, TypeOK
<1>5. Quiet(t)
  BY <1>2 DEF Quiet, InWait
<1>6. /\ WaitStatus(t) = "idle" /\ WaitOf(t) = [c |-> None, m |-> None]
      /\ RequestOf(t) = [all |-> FALSE, c |-> None, td |-> None]
  BY <1>5, QuietView
<1>7. /\ st' = [st EXCEPT ![t] = WaitStatus(t)'] /\ wt' = [wt EXCEPT ![t] = WaitOf(t)']
      /\ rq' = [rq EXCEPT ![t] = RequestOf(t)'] /\ st[t] = "idle"
  BY <1>2, <1>4, <1>6, OneChanges
<1>8. will_sleep[t] <=> frame[t].c # None
  BY <1>1, <1>2 DEF FlagInv
<1>9. CASE frame[t].c = None
  <2>1. pc'[t] \in {"wakeall", "run"}
    BY <1>1, <1>8, <1>9 DEF UnlockRelease, Goto, TypeOK
  <2>2. Quiet(t)'
    BY <2>1 DEF Quiet, InWait
  <2>3. WaitStatus(t)' = WaitStatus(t) /\ WaitOf(t)' = WaitOf(t) /\ RequestOf(t)' = RequestOf(t)
    BY <1>6, <2>2, QuietView
  <2>4. st' = st /\ wt' = wt /\ rq' = rq
    BY <1>7, <2>3
  <2>5. Promise!Relinquish(t, m)
    BY <1>2, <1>3, <1>7, <2>4 DEF Promise!Relinquish
  <2> QED
    BY <1>3, <2>5 DEF Promise!Next
<1>10. CASE frame[t].c # None
  <2>1. pc'[t] = "cvadd" /\ frame'[t] = frame[t]
    BY <1>1, <1>8, <1>10 DEF UnlockRelease, Goto, TypeOK
  <2>2. /\ WaitStatus(t)' = "waiting" /\ WaitOf(t)' = [c |-> frame[t].c, m |-> m]
        /\ RequestOf(t)' = [all |-> FALSE, c |-> None, td |-> None]
    BY <2>1, WaitView DEF CvPCs
  <2>3. rq' = rq
    BY <1>6, <1>7, <2>2
  <2>4. Promise!BeginWait(t, frame[t].c, m)
    BY <1>2, <1>3, <1>7, <2>2, <2>3 DEF Promise!BeginWait
  <2> QED
    BY <1>3, <1>10, <2>4 DEF Promise!Next
<1> QED
  BY <1>9, <1>10

\* WaitCheck is Timeout, if no signal took the thread off the queue.
LEMMA CheckSteps ==
  ASSUME IInv, NEW t \in Threads, WaitCheck(t)
  PROVE  Promise!Next \/ UNCHANGED Promise!mvars
<1> DEFINE st == [u \in Threads |-> WaitStatus(u)]
           wt == [u \in Threads |-> WaitOf(u)]
           rq == [u \in Threads |-> RequestOf(u)]
<1>1. TypeOK /\ FrameInv
  BY DEF IInv
<1>2. m_lock' = m_lock /\ pc[t] = "cvcheck"
  BY DEF WaitCheck, mutexVars
<1>3. \A u \in Threads \ {t} : pc'[u] = pc[u] /\ frame'[u] = frame[u] /\ wchan'[u] = wchan[u]
  BY <1>1 DEF WaitCheck, Goto, TypeOK
<1>4. frame'[t].c = frame[t].c /\ frame'[t].m = frame[t].m /\ frame[t].c # None
  BY <1>1 DEF WaitCheck, FrameInv, CvPCs, TypeOK, Frames
<1>5. /\ WaitStatus(t) = IF wchan[t] # None THEN "waiting" ELSE "signalled"
      /\ WaitOf(t) = [c |-> frame[t].c, m |-> frame[t].m]
      /\ RequestOf(t) = [all |-> FALSE, c |-> None, td |-> None]
  BY <1>2, WaitView DEF CvPCs
<1>6. CASE wchan[t] = None
  <2>1. pc'[t] = "lock" /\ frame'[t].error = "ok"
    BY <1>1, <1>6 DEF WaitCheck, Goto, TypeOK, Frames
  <2>2. /\ WaitStatus(t)' = "signalled" /\ WaitOf(t)' = [c |-> frame[t].c, m |-> frame[t].m]
        /\ RequestOf(t)' = [all |-> FALSE, c |-> None, td |-> None]
    BY <1>4, <2>1, LockView
  <2> QED
    BY <1>2, <1>3, <1>5, <1>6, <2>2, Stutters
<1>7. CASE wchan[t] # None /\ frame[t].error = "timedout"
  <2>1. pc'[t] = "lock" /\ frame'[t].error = "timedout"
    BY <1>1, <1>7 DEF WaitCheck, Goto, TypeOK
  <2>2. /\ WaitStatus(t)' = "timedout" /\ WaitOf(t)' = [c |-> frame[t].c, m |-> frame[t].m]
        /\ RequestOf(t)' = [all |-> FALSE, c |-> None, td |-> None]
    BY <1>4, <2>1, LockView
  <2>3. /\ st' = [st EXCEPT ![t] = WaitStatus(t)'] /\ wt' = [wt EXCEPT ![t] = WaitOf(t)']
        /\ rq' = [rq EXCEPT ![t] = RequestOf(t)']
    BY <1>3, OneChanges
  <2>4. st[t] = "waiting" /\ st' = [st EXCEPT ![t] = "timedout"] /\ wt' = wt /\ rq' = rq
    BY <1>5, <1>7, <2>2, <2>3
  <2>5. Promise!Timeout(t)
    BY <1>2, <2>4 DEF Promise!Timeout
  <2> QED
    BY <2>5 DEF Promise!Next
<1>8. CASE wchan[t] # None /\ frame[t].error # "timedout"
  <2>1. pc'[t] = "unreachable" /\ wchan'[t] = wchan[t]
    BY <1>1, <1>8 DEF WaitCheck, Goto, TypeOK
  <2>2. /\ WaitStatus(t)' = "waiting" /\ WaitOf(t)' = [c |-> frame[t].c, m |-> frame[t].m]
        /\ RequestOf(t)' = [all |-> FALSE, c |-> None, td |-> None]
    BY <1>4, <1>8, <2>1, WaitView DEF CvPCs
  <2> QED
    BY <1>2, <1>3, <1>5, <1>8, <2>2, Stutters
<1> QED
  BY <1>6, <1>7, <1>8

\* SignalCall and BroadcastCall are Ask.
LEMMA AskSteps ==
  ASSUME IInv, NEW t \in Threads, NEW c \in Conds,
         \/ \E td \in Targets \cup {None} : SignalCall(t, c, td)
         \/ BroadcastCall(t, c)
  PROVE  Promise!Next
<1> DEFINE st == [u \in Threads |-> WaitStatus(u)]
           wt == [u \in Threads |-> WaitOf(u)]
           rq == [u \in Threads |-> RequestOf(u)]
<1>1. TypeOK
  BY DEF IInv
<1>2. PICK td \in Threads \cup {None} :
        /\ pc[t] = "run" /\ m_lock' = m_lock /\ wchan' = wchan
        /\ frame' = [frame EXCEPT ![t] = Frame(None, c, td, FALSE, FALSE, 0)]
        /\ Goto(t, "signal") \/ Goto(t, "broadcast")
  BY GuestAssumption DEF SignalCall, BroadcastCall, mutexVars, queueVars
<1>3. /\ pc'[t] \in {"signal", "broadcast"} /\ frame'[t].c = c /\ frame'[t].td = td
      /\ \A u \in Threads \ {t} : pc'[u] = pc[u] /\ frame'[u] = frame[u]
  BY <1>1, <1>2 DEF Goto, Frame, TypeOK
<1>4. Quiet(t)
  BY <1>2 DEF Quiet, InWait
<1>5. /\ WaitStatus(t) = "idle" /\ WaitOf(t) = [c |-> None, m |-> None]
      /\ RequestOf(t) = [all |-> FALSE, c |-> None, td |-> None]
  BY <1>4, QuietView
<1> DEFINE r == [all |-> pc'[t] = "broadcast", c |-> c, td |-> td]
<1>6. WaitStatus(t)' = "idle" /\ WaitOf(t)' = [c |-> None, m |-> None] /\ RequestOf(t)' = r
  BY <1>3, RequestView
<1>7. r \in Promise!Requests
  BY DEF Promise!Requests
<1> HIDE DEF r
<1>8. /\ st' = [st EXCEPT ![t] = WaitStatus(t)'] /\ wt' = [wt EXCEPT ![t] = WaitOf(t)']
      /\ rq' = [rq EXCEPT ![t] = RequestOf(t)']
  BY <1>2, <1>3, OneChanges
<1>9. st[t] = "idle" /\ st' = st /\ wt' = wt /\ rq' = [rq EXCEPT ![t] = r]
      /\ rq[t] = Promise!NoRequest
  BY <1>5, <1>6, <1>8 DEF Promise!NoRequest
<1>10. Promise!Ask(t)
  BY <1>2, <1>7, <1>9 DEF Promise!Ask
<1> QED
  BY <1>10 DEF Promise!Next

\* The threads that wait for a condition variable whose chain is not locked are the ones on
\* its queue: a thread that has given up its mutex and is not on the queue yet has the lock.
LEMMA QueueIsWaiters ==
  ASSUME IInv, NEW c \in Conds, sc_lock[c] = None
  PROVE  /\ Promise!Waiters(c) = Elems(sq_blocked[c])
         /\ \A u \in Elems(sq_blocked[c]) : /\ u \in Threads /\ wchan[u] = c
                                            /\ pc[u] \in SleepPCs
<1>1. TypeOK /\ FrameInv /\ ChainInv /\ QueueInv /\ WaiterInv
  BY DEF IInv
<1>2. ASSUME NEW u \in Elems(sq_blocked[c])
      PROVE  u \in Threads /\ wchan[u] = c /\ pc[u] \in SleepPCs /\ frame[u].c = c
  <2>1. \A i \in DOMAIN sq_blocked[c] : sq_blocked[c][i] \in Threads
    BY <1>1, ElementOfSeq, LenProperties DEF TypeOK
  <2>2. u \in Threads
    BY <2>1 DEF Elems
  <2>3. wchan[u] = c
    BY <1>1, <2>2 DEF QueueInv
  <2>4. pc[u] \in SleepPCs /\ wchan[u] = frame[u].c
    BY <1>1, <2>2, <2>3, NoneAssumption DEF WaiterInv
  <2> QED
    BY <2>2, <2>3, <2>4
<1>3. ASSUME NEW u \in Elems(sq_blocked[c])
      PROVE  u \in Threads /\ WaitStatus(u) = "waiting" /\ WaitOf(u).c = c
  <2>1. pc[u] \in CvPCs /\ wchan[u] # None /\ frame[u].c = c
    BY <1>2, NoneAssumption DEF CvPCs, SleepPCs
  <2>2. WaitStatus(u) = "waiting" /\ WaitOf(u) = [c |-> frame[u].c, m |-> frame[u].m]
    BY <2>1, WaitView
  <2> QED
    BY <1>2, <2>1, <2>2
<1>4. ASSUME NEW u \in Threads, WaitStatus(u) = "waiting", WaitOf(u).c = c
      PROVE  u \in Elems(sq_blocked[c])
  <2>1. InWait(u) /\ pc[u] # "lock" /\ (pc[u] = "cvadd" \/ wchan[u] # None)
    BY <1>4 DEF WaitStatus
  <2>2. frame[u].c = c
    BY <1>4, <2>1 DEF WaitOf
  <2>3. pc[u] # "cvadd"
    BY <1>1, <2>2, NoneAssumption DEF ChainInv
  <2>4. wchan[u] = c
    BY <1>1, <2>1, <2>2, <2>3 DEF WaiterInv
  <2> QED
    BY <1>1, <2>4 DEF QueueInv
<1>5. Promise!Waiters(c) = Elems(sq_blocked[c])
  BY <1>3, <1>4 DEF Promise!Waiters
<1> QED
  BY <1>2, <1>5

\* Signal and Broadcast release the threads S of the queue and no other, and their request
\* is done.
LEMMA PerformSteps ==
  ASSUME IInv, NEW t \in Threads, pc[t] \in {"signal", "broadcast"}, sc_lock[frame[t].c] = None,
         NEW S \in SUBSET Elems(sq_blocked[frame[t].c]), m_lock' = m_lock,
         \A u \in Threads : wchan'[u] = IF u \in S THEN None ELSE wchan[u],
         \A u \in Threads \ {t} : pc'[u] = pc[u] /\ frame'[u] = frame[u],
         pc'[t] \in {"release", "run"}, S \in Promise!Releases(RequestOf(t))
  PROVE  Promise!Next
<1> DEFINE c == frame[t].c
           st == [u \in Threads |-> WaitStatus(u)]
           wt == [u \in Threads |-> WaitOf(u)]
           rq == [u \in Threads |-> RequestOf(u)]
<1>1. c \in Conds
  BY DEF IInv, FrameInv, TypeOK, Frames
<1>2. \A u \in S : u \in Threads /\ wchan[u] = c /\ pc[u] \in SleepPCs
  BY <1>1, QueueIsWaiters
<1>3. Quiet(t)'
  BY DEF Quiet, InWait
<1>4. /\ WaitStatus(t)' = "idle" /\ WaitOf(t)' = [c |-> None, m |-> None]
      /\ RequestOf(t)' = [all |-> FALSE, c |-> None, td |-> None]
  BY <1>3, QuietView
<1>5. /\ WaitStatus(t) = "idle" /\ WaitOf(t) = [c |-> None, m |-> None]
      /\ RequestOf(t).c = c /\ t \notin S
  BY <1>2, RequestView DEF SleepPCs
<1>6. ASSUME NEW u \in Threads
      PROVE  /\ WaitStatus(u)' = IF u \in S THEN "signalled" ELSE WaitStatus(u)
             /\ WaitOf(u)' = WaitOf(u) /\ (u # t => RequestOf(u)' = RequestOf(u))
  <2>1. CASE u = t
    BY <1>4, <1>5, <2>1
  <2>2. CASE u # t /\ u \notin S
    BY <2>2, SameView
  <2>3. CASE u \in S
    <3>1. u # t /\ pc'[u] = pc[u] /\ frame'[u] = frame[u] /\ wchan'[u] = None
      BY <1>5, <2>3
    <3>2. pc[u] \in CvPCs /\ pc[u] # "cvadd"
      BY <1>2, <2>3 DEF CvPCs, SleepPCs
    <3> QED
      BY <2>3, <3>1, <3>2, WaitView
  <2> QED
    BY <2>1, <2>2, <2>3
<1>7. st' = [u \in Threads |-> IF u \in S THEN "signalled" ELSE st[u]]
  BY <1>6
<1>8. wt' = wt
  BY <1>6
<1>9. rq' = [rq EXCEPT ![t] = [all |-> FALSE, c |-> None, td |-> None]]
  BY <1>4, <1>6
<1>10. rq[t] # Promise!NoRequest /\ S \in Promise!Releases(rq[t])
  <2>1. c # None /\ RequestOf(t).c # None
    BY <1>1, <1>5, NoneAssumption
  <2> QED
    BY <2>1 DEF Promise!NoRequest
<1> HIDE DEF st, wt, rq
<1>11. Promise!Perform(t)
  BY <1>7, <1>8, <1>9, <1>10 DEF Promise!Perform, Promise!NoRequest, st, wt, rq
<1> QED
  BY <1>11 DEF Promise!Next

\* The locked section of Signal and Broadcast is Perform.
LEMMA SignalSteps ==
  ASSUME IInv, NEW t \in Threads, Signal(t) \/ Broadcast(t)
  PROVE  Promise!Next \/ UNCHANGED Promise!mvars
<1> DEFINE c == frame[t].c
           q == sq_blocked[c]
           r == RequestOf(t)
<1>1. TypeOK /\ FrameInv
  BY DEF IInv
<1>2. pc[t] \in {"signal", "broadcast"} /\ sc_lock[c] = None /\ c \in Conds
  BY <1>1 DEF Signal, Broadcast, FrameInv, TypeOK, Frames
<1>3. r = [all |-> pc[t] = "broadcast", c |-> c, td |-> frame[t].td]
  BY <1>2, RequestView
<1>4. Promise!Waiters(c) = Elems(q)
  BY <1>2, QueueIsWaiters
<1>5. q \in Seq(Threads)
  BY <1>1, <1>2 DEF TypeOK
<1>6. CASE q = <<>> /\ WakeNobody(t)
  <2>1. {} \in Promise!Releases(r)
    <3>1. Elems(q) = {}
      BY <1>6 DEF Elems
    <3> QED
      BY <1>3, <1>4, <3>1 DEF Promise!Releases
  <2>2. m_lock' = m_lock /\ wchan' = wchan
    BY <1>6 DEF WakeNobody, mutexVars, queueVars
  <2>3. pc'[t] = "run" /\ \A u \in Threads \ {t} : pc'[u] = pc[u] /\ frame'[u] = frame[u]
    BY <1>1, <1>6 DEF WakeNobody, Return, Goto, TypeOK
  <2> QED
    BY <1>2, <2>1, <2>2, <2>3, PerformSteps
<1>7. ASSUME NEW S \in SUBSET Elems(q), NEW rest, Wake(t, c, S, rest), S \in Promise!Releases(r)
      PROVE  Promise!Next
  <2>1. m_lock' = m_lock /\ \A u \in Threads : wchan'[u] = IF u \in S THEN None ELSE wchan[u]
    BY <1>7 DEF Wake, Unqueued
  <2>2. pc'[t] = "release" /\ \A u \in Threads \ {t} : pc'[u] = pc[u] /\ frame'[u] = frame[u]
    BY <1>1, <1>7 DEF Wake, Goto, TypeOK
  <2> QED
    BY <1>2, <1>7, <2>1, <2>2, PerformSteps
<1>8. CASE Signal(t)
  <2> DEFINE td == IF frame[t].td = None THEN q[1] ELSE frame[t].td
  <2>1. /\ pc[t] = "signal"
        /\ \/ q = <<>> /\ WakeNobody(t)
           \/ td \in Elems(q) /\ Wake(t, c, {td}, Erase(q, td))
           \/ Goto(t, "badtarget") /\ UNCHANGED <<mutexVars, queueVars, wakeVars, frame, depth>>
    BY <1>8 DEF Signal
  <2>2. CASE td \in Elems(q) /\ Wake(t, c, {td}, Erase(q, td))
    <3>1. frame[t].td # None => td = frame[t].td
      OBVIOUS
    <3> HIDE DEF td, q
    <3>2. r.c = c /\ ~r.all /\ r.td = frame[t].td
      <4>1. (pc[t] = "broadcast") = FALSE
        BY <2>1
      <4>2. r = [all |-> FALSE, c |-> c, td |-> frame[t].td]
        BY <1>3, <4>1, Zenon
      <4> HIDE DEF r, c
      <4>3. r.c = c /\ r.td = frame[t].td /\ r.all = FALSE
        BY <4>2, Zenon
      <4> QED
        BY <4>3
    <3>3. /\ Promise!Waiters(r.c) # {} /\ ~r.all
          /\ td \in IF r.td = None THEN Promise!Waiters(r.c) ELSE Promise!Waiters(r.c) \cap {r.td}
      BY <1>4, <2>2, <3>1, <3>2
    <3> HIDE DEF r
    <3>4. {td} \in Promise!Releases(r)
      BY <3>3, Zenon DEF Promise!Releases
    <3> QED
      BY <1>7, <2>2, <3>4 DEF q, r
  <2>3. CASE Goto(t, "badtarget") /\ UNCHANGED <<mutexVars, queueVars, wakeVars, frame, depth>>
    <3>1. /\ m_lock' = m_lock /\ wchan' = wchan /\ frame' = frame /\ pc'[t] = "badtarget"
          /\ \A u \in Threads \ {t} : pc'[u] = pc[u]
      BY <1>1, <2>3 DEF Goto, mutexVars, queueVars, TypeOK
    <3>2. WaitStatus(t)' = WaitStatus(t) /\ WaitOf(t)' = WaitOf(t) /\ RequestOf(t)' = RequestOf(t)
      BY <2>1, <3>1, RequestView
    <3> QED
      BY <3>1, <3>2, Stutters
  <2> QED
    BY <1>6, <2>1, <2>2, <2>3
<1>9. CASE Broadcast(t)
  <2>1. /\ pc[t] = "broadcast"
        /\ (q = <<>> /\ WakeNobody(t)) \/ (q # <<>> /\ Wake(t, c, Elems(q), <<>>))
    BY <1>9 DEF Broadcast
  <2>2. CASE q # <<>> /\ Wake(t, c, Elems(q), <<>>)
    <3>1. r.c = c /\ r.all
      <4>1. (pc[t] = "broadcast") = TRUE
        BY <2>1
      <4>2. r = [all |-> TRUE, c |-> c, td |-> frame[t].td]
        BY <1>3, <4>1, Zenon
      <4> HIDE DEF r, c
      <4>3. r.c = c /\ r.all = TRUE
        BY <4>2, Zenon
      <4> QED
        BY <4>3
    <3>2. Promise!Waiters(r.c) = Elems(q) /\ r.all
      BY <1>4, <3>1
    <3> HIDE DEF r, q
    <3>3. Elems(q) \in Promise!Releases(r)
      BY <3>2, Zenon DEF Promise!Releases
    <3> QED
      BY <1>7, <2>2, <3>3 DEF q, r
  <2> QED
    BY <1>6, <2>1, <2>2
<1> QED
  BY <1>8, <1>9

\* Wait, Signal and Broadcast keep the promises of Monitor, for any threads, mutexes and
\* condition variables: giving up the mutex and joining the waiters is one step to the
\* guest, a signal sent while somebody waits releases one waiter, a broadcast all of them,
\* and no timeout hides a signal.
THEOREM ImplementsMonitor == Spec => RefinesMonitor
<1>1. Init => Promise!Init
  <2> SUFFICES ASSUME Init PROVE Promise!Init
    OBVIOUS
  <2>1. m_lock = [m \in Mutexes |-> None]
    BY DEF Init
  <2>2. ASSUME NEW t \in Threads
        PROVE  /\ WaitStatus(t) = "idle" /\ WaitOf(t) = [c |-> None, m |-> None]
               /\ RequestOf(t) = [all |-> FALSE, c |-> None, td |-> None]
    <3>1. pc[t] = "run"
      BY DEF Init
    <3> QED
      BY <3>1, QuietView DEF Quiet, InWait
  <2> QED
    BY <2>1, <2>2 DEF Promise!Init, Promise!NoWait, Promise!NoRequest
<1>2. IInv /\ [Next]_vars => [Promise!Next]_(Promise!mvars)
  <2> SUFFICES ASSUME IInv, [Next]_vars PROVE Promise!Next \/ UNCHANGED Promise!mvars
    OBVIOUS
  <2>1. CASE UNCHANGED vars
    <3>1. m_lock' = m_lock /\ pc' = pc /\ frame' = frame /\ wchan' = wchan
      BY <2>1 DEF vars
    <3>2. \A u \in Threads : /\ WaitStatus(u)' = WaitStatus(u) /\ WaitOf(u)' = WaitOf(u)
                             /\ RequestOf(u)' = RequestOf(u)
      BY <3>1, SameView
    <3> QED
      BY <3>1, <3>2 DEF Promise!mvars
  <2>2. ASSUME NEW t \in Threads, GuestCall(t)
        PROVE  Promise!Next \/ UNCHANGED Promise!mvars
    <3>1. CASE \E c \in Conds : \/ \E td \in Targets \cup {None} : SignalCall(t, c, td)
                                \/ BroadcastCall(t, c)
      BY <3>1, AskSteps
    <3>2. CASE ~\E c \in Conds : \/ \E td \in Targets \cup {None} : SignalCall(t, c, td)
                                 \/ BroadcastCall(t, c)
      BY <2>2, <3>2, QuietSteps DEF GuestCall
    <3> QED
      BY <3>1, <3>2
  <2>3. ASSUME NEW t \in Threads, Step(t)
        PROVE  Promise!Next \/ UNCHANGED Promise!mvars
    BY <2>3, QuietSteps, SleepSteps, AcquireSteps, ReleaseSteps, CheckSteps, SignalSteps DEF Step
  <2> QED
    BY <2>1, <2>2, <2>3 DEF Next
<1> QED
  BY <1>1, <1>2, InductiveInvariant, PTL DEF Spec, RefinesMonitor, Promise!Spec


-----------------------------------------------------------------------------
(* UNREACHABLE of Wait without timeouts                                    *)

\* The places where a thread may be woken: it blocks on wake_sema, or is about to.
BlockPCs == {"cvflush", "cvwake", "cvsleep"}

\* u has yet to make a release of t.
Owes(u, t) == t \in defer_waiters[u] \cup waddrs[u]

\* Without timeouts there is at most one wake-up of a thread, in its semaphore or owed by
\* one thread in one of its arrays, and only for a thread that was taken off a queue and
\* has not left Sleep since.
OneWakeInv ==
    /\ \A t \in Threads : ~frame[t].timed /\ pc[t] # "unreachable"
    /\ \A t \in Threads : pc[t] = "cvcheck" => wchan[t] = None
    /\ \A t \in Threads : wake_sema[t] <= 1 /\ defer_waiters[t] \cap waddrs[t] = {}
    /\ \A t \in Threads : wake_sema[t] > 0 => wchan[t] = None /\ pc[t] \in BlockPCs
    /\ \A t, u \in Threads : Owes(u, t) => /\ wchan[t] = None /\ pc[t] \in BlockPCs
                                           /\ wake_sema[t] = 0
    /\ \A t, u, v \in Threads : Owes(u, t) /\ Owes(v, t) => u = v

\* A step of t that makes, owes and takes no wake-up.
LEMMA OneWakeKept ==
  ASSUME OneWakeInv, NEW t \in Threads,
         wake_sema' = wake_sema, defer_waiters' = defer_waiters, waddrs' = waddrs,
         \A u \in Threads \ {t} : pc'[u] = pc[u] /\ frame'[u] = frame[u] /\ wchan'[u] = wchan[u],
         ~frame'[t].timed, pc'[t] # "unreachable", pc'[t] = "cvcheck" => wchan'[t] = None,
         pc[t] \in BlockPCs /\ wchan[t] = None => wchan'[t] = None /\ pc'[t] \in BlockPCs
  PROVE  OneWakeInv'
<1>1. \A u \in Threads : /\ ~frame'[u].timed /\ pc'[u] # "unreachable"
                         /\ pc'[u] = "cvcheck" => wchan'[u] = None
  BY DEF OneWakeInv
<1>2. \A u \in Threads : wchan[u] = None /\ pc[u] \in BlockPCs =>
                         wchan'[u] = None /\ pc'[u] \in BlockPCs
  OBVIOUS
<1>3. \A u, v \in Threads : Owes(u, v)' = Owes(u, v)
  BY DEF Owes
<1> QED
  BY <1>1, <1>2, <1>3 DEF OneWakeInv, BlockPCs

\* Everything but the releases, Signal and Broadcast, and the sleep itself.
LEMMA OneWakeQuiet ==
  ASSUME IInv, OneWakeInv, TimedWaits = FALSE, NEW t \in Threads,
         \/ \E m \in Mutexes : \/ Lock(t, m) \/ SelfLockRecursive(t, m) \/ SelfLockNormal(t, m)
                               \/ UnlockNested(t, m) \/ Unlock(t, m)
                               \/ \E c \in Conds, timed \in BOOLEAN : Wait(t, c, m, timed)
         \/ \E c \in Conds, td \in Targets \cup {None} : SignalCall(t, c, td)
         \/ \E c \in Conds : BroadcastCall(t, c)
         \/ LockGiveUp(t) \/ LockAcquire(t) \/ LockOwn(t) \/ UnlockRelease(t) \/ UnlockReturn(t)
         \/ ReleaseDone(t)
  PROVE  OneWakeInv'
<1>1. TypeOK /\ \A u \in Threads : frame[u].timed = FALSE
  BY DEF IInv, OneWakeInv, TypeOK, Frames
<1>2. /\ pc[t] \in {"run", "lock", "own", "unlock", "wakeall", "release"}
      /\ wake_sema' = wake_sema /\ defer_waiters' = defer_waiters /\ waddrs' = waddrs
      /\ wchan' = wchan
  BY DEF Lock, SelfLockRecursive, SelfLockNormal, UnlockNested, Unlock, Wait, SignalCall,
     BroadcastCall, LockGiveUp, LockAcquire, LockOwn, UnlockRelease, UnlockReturn, ReleaseDone,
     queueVars, wakeVars
<1>3. \A u \in Threads \ {t} : pc'[u] = pc[u] /\ frame'[u] = frame[u]
  BY <1>1 DEF Lock, SelfLockRecursive, SelfLockNormal, UnlockNested, Unlock, Wait, SignalCall,
     BroadcastCall, LockGiveUp, LockAcquire, LockOwn, UnlockRelease, UnlockReturn, ReleaseDone,
     Goto, Return, TypeOK
<1>4. pc'[t] # "unreachable" /\ pc'[t] # "cvcheck"
  BY <1>1, <1>2 DEF Lock, SelfLockRecursive, SelfLockNormal, UnlockNested, Unlock, Wait, SignalCall,
     BroadcastCall, LockGiveUp, LockAcquire, LockOwn, UnlockRelease, UnlockReturn, ReleaseDone,
     Goto, Return, TypeOK
<1>5. ~frame'[t].timed
  <2> SUFFICES frame'[t].timed = FALSE
    OBVIOUS
  <2>1. ASSUME NEW m, NEW c, NEW td, NEW d, NEW r,
               frame' = [frame EXCEPT ![t] = Frame(m, c, td, FALSE, d, r)]
        PROVE  frame'[t].timed = FALSE
    <3>1. frame'[t] = Frame(m, c, td, FALSE, d, r)
      BY <1>1, <2>1 DEF TypeOK
    <3> QED
      BY <3>1 DEF Frame
  <2>2. CASE \E m \in Mutexes, c \in Conds, timed \in BOOLEAN : Wait(t, c, m, timed)
    <3>1. PICK m \in Mutexes, c \in Conds, timed \in BOOLEAN : Wait(t, c, m, timed)
      BY <2>2
    <3>2. timed = FALSE
      BY <3>1 DEF Wait
    <3>3. frame' = [frame EXCEPT ![t] = Frame(m, c, None, timed, m \in m_deferred, m_count[m])]
      BY <3>1 DEF Wait
    <3>4. frame' = [frame EXCEPT ![t] = Frame(m, c, None, FALSE, m \in m_deferred, m_count[m])]
      BY <3>2, <3>3, Zenon
    <3> QED
      BY <2>1, <3>4
  <2>3. CASE \E m \in Mutexes : Unlock(t, m)
    <3>1. PICK m \in Mutexes : Unlock(t, m)
      BY <2>3
    <3>2. frame' = [frame EXCEPT ![t] = Frame(m, None, None, FALSE, m \in m_deferred, 0)]
      BY <3>1 DEF Unlock
    <3> QED
      BY <2>1, <3>2
  <2>4. CASE \/ \E m \in Mutexes : Lock(t, m)
             \/ \E c \in Conds, td \in Targets \cup {None} : SignalCall(t, c, td)
             \/ \E c \in Conds : BroadcastCall(t, c)
    BY <2>1, <2>4, Zenon DEF Lock, SignalCall, BroadcastCall
  <2>5. CASE LockGiveUp(t) \/ LockOwn(t) \/ UnlockReturn(t) \/ ReleaseDone(t)
    BY <2>1, <2>5, Zenon DEF LockGiveUp, LockOwn, UnlockReturn, ReleaseDone, Return, NoFrame
  <2>6. CASE UnlockRelease(t)
    <3>1. frame' = frame \/ frame' = [frame EXCEPT ![t] = NoFrame]
      BY <2>6 DEF UnlockRelease
    <3>2. CASE frame' = [frame EXCEPT ![t] = NoFrame]
      BY <2>1, <3>2, Zenon DEF NoFrame
    <3> QED
      BY <1>1, <3>1, <3>2
  <2>7. CASE LockAcquire(t) \/ \E m \in Mutexes : \/ SelfLockRecursive(t, m) \/ SelfLockNormal(t, m)
                                                \/ UnlockNested(t, m)
    BY <1>1, <2>7 DEF LockAcquire, SelfLockRecursive, SelfLockNormal, UnlockNested
  <2> QED
    BY <2>2, <2>3, <2>4, <2>5, <2>6, <2>7
<1>6. pc[t] \notin BlockPCs
  BY <1>2 DEF BlockPCs
<1> QED
  BY <1>2, <1>3, <1>4, <1>5, <1>6, OneWakeKept

\* The way into Sleep: ClearWake finds no token, and nobody owes the thread one.
LEMMA OneWakeSleep ==
  ASSUME IInv, OneWakeInv, NEW t \in Threads, WaitEnqueue(t) \/ SleepFlush(t) \/ SleepBlock(t)
  PROVE  OneWakeInv'
<1>1. TypeOK /\ ~frame[t].timed
  BY DEF IInv, OneWakeInv
<1>2. /\ defer_waiters' = defer_waiters /\ waddrs' = waddrs /\ frame' = frame
      /\ pc[t] \in {"cvadd", "cvflush", "cvwake"}
  BY DEF WaitEnqueue, SleepFlush, SleepBlock, wakeVars
<1>3. /\ \A u \in Threads \ {t} : pc'[u] = pc[u] /\ wchan'[u] = wchan[u]
      /\ pc'[t] \in BlockPCs
  BY <1>1 DEF WaitEnqueue, SleepFlush, SleepBlock, queueVars, Goto, TypeOK, BlockPCs
<1>4. wake_sema' = wake_sema
  <2>1. CASE WaitEnqueue(t)
    <3>1. pc[t] \notin BlockPCs
      BY <2>1 DEF WaitEnqueue, BlockPCs
    <3>2. wake_sema[t] = 0
      BY <1>1, <3>1 DEF OneWakeInv, TypeOK
    <3> QED
      BY <1>1, <2>1, <3>2 DEF WaitEnqueue, TypeOK
  <2> QED
    BY <2>1 DEF SleepFlush, SleepBlock, wakeVars
<1>5. pc[t] \in BlockPCs => wchan'[t] = wchan[t]
  BY DEF WaitEnqueue, SleepFlush, SleepBlock, queueVars, BlockPCs
<1>6. pc'[t] # "unreachable" /\ pc'[t] # "cvcheck"
  BY <1>3 DEF BlockPCs
<1> QED
  BY <1>1, <1>2, <1>3, <1>4, <1>5, <1>6, OneWakeKept

\* A thread leaves Sleep with its only wake-up, off the queue, and Wait finds it there.
LEMMA OneWakeEnds ==
  ASSUME IInv, OneWakeInv, NEW t \in Threads, SleepAcquire(t) \/ SleepTimeout(t) \/ WaitCheck(t)
  PROVE  OneWakeInv'
<1>1. TypeOK /\ ~frame[t].timed
  BY DEF IInv, OneWakeInv
<1>2. CASE SleepAcquire(t)
  <2>1. /\ pc[t] = "cvsleep" /\ wake_sema[t] > 0 /\ wchan' = wchan
        /\ defer_waiters' = defer_waiters /\ waddrs' = waddrs
    BY <1>2 DEF SleepAcquire, queueVars
  <2>2. /\ \A u \in Threads \ {t} : /\ pc'[u] = pc[u] /\ frame'[u] = frame[u]
                                    /\ wake_sema'[u] = wake_sema[u]
        /\ pc'[t] = "cvcheck" /\ wake_sema'[t] = wake_sema[t] - 1
    BY <1>1, <1>2 DEF SleepAcquire, Goto, TypeOK
  <2>3. frame'[t].timed = frame[t].timed
    BY <1>1, <1>2 DEF SleepAcquire, TypeOK, Frames
  <2>4. wchan[t] = None /\ wake_sema'[t] = 0 /\ \A u \in Threads : ~Owes(u, t)
    BY <1>1, <2>1, <2>2 DEF OneWakeInv, TypeOK
  <2>5. \A u, v \in Threads : Owes(u, v)' = Owes(u, v)
    BY <2>1 DEF Owes
  <2>6. \A u \in Threads : /\ ~frame'[u].timed /\ pc'[u] # "unreachable"
                           /\ pc'[u] = "cvcheck" => wchan'[u] = None
    BY <1>1, <2>1, <2>2, <2>3, <2>4 DEF OneWakeInv
  <2>7. \A u \in Threads : /\ wake_sema'[u] <= 1
                           /\ wake_sema'[u] > 0 => wchan'[u] = None /\ pc'[u] \in BlockPCs
    BY <1>1, <2>1, <2>2, <2>4 DEF OneWakeInv
  <2>8. \A u, v \in Threads : Owes(v, u)' => /\ wchan'[u] = None /\ pc'[u] \in BlockPCs
                                             /\ wake_sema'[u] = 0
    BY <2>1, <2>2, <2>4, <2>5 DEF OneWakeInv
  <2> QED
    BY <2>1, <2>5, <2>6, <2>7, <2>8 DEF OneWakeInv, BlockPCs
<1>3. CASE WaitCheck(t)
  <2>1. pc[t] = "cvcheck" /\ wchan[t] = None
    BY <1>3 DEF WaitCheck, OneWakeInv
  <2>2. wake_sema' = wake_sema /\ defer_waiters' = defer_waiters /\ waddrs' = waddrs
    BY <1>3 DEF WaitCheck, wakeVars
  <2>3. /\ \A u \in Threads \ {t} : /\ pc'[u] = pc[u] /\ frame'[u] = frame[u]
                                    /\ wchan'[u] = wchan[u]
        /\ pc'[t] = "lock"
    BY <1>1, <1>3, <2>1 DEF WaitCheck, Goto, TypeOK
  <2>4. frame'[t].timed = frame[t].timed
    BY <1>1, <1>3, <2>1 DEF WaitCheck, TypeOK, Frames
  <2>5. pc[t] \notin BlockPCs
    BY <2>1 DEF BlockPCs
  <2> QED
    BY <1>1, <2>2, <2>3, <2>4, <2>5, OneWakeKept
<1>4. ~SleepTimeout(t)
  BY <1>1 DEF SleepTimeout
<1> QED
  BY <1>2, <1>3, <1>4

\* A release() turns what was owed into a token.
LEMMA OneWakeRelease ==
  ASSUME IInv, OneWakeInv, NEW t \in Threads, WakeAll(t) \/ Release(t)
  PROVE  OneWakeInv'
<1>1. TypeOK
  BY DEF IInv
<1>2. pc' = pc /\ frame' = frame /\ wchan' = wchan
  BY DEF WakeAll, Release, queueVars
<1>3. PICK u \in Threads : /\ Owes(t, u) /\ wake_sema' = Released({u})
                           /\ \A x, v \in Threads : Owes(x, v)' <=> Owes(x, v) /\ ~(x = t /\ v = u)
                           /\ \A x \in Threads : defer_waiters'[x] \subseteq defer_waiters[x]
                                              /\ waddrs'[x] \subseteq waddrs[x]
  <2>1. CASE WakeAll(t)
    <3>1. PICK u \in defer_waiters[t] :
               wake_sema' = Released({u}) /\ defer_waiters' = [defer_waiters EXCEPT ![t] = @ \ {u}]
      BY <2>1 DEF WakeAll
    <3>2. waddrs' = waddrs /\ u \in Threads /\ u \notin waddrs[t]
      BY <1>1, <2>1, <3>1 DEF WakeAll, TypeOK, OneWakeInv
    <3>3. \A x \in Threads : defer_waiters'[x] = IF x = t THEN defer_waiters[t] \ {u} ELSE defer_waiters[x]
      BY <1>1, <3>1 DEF TypeOK
    <3>4. \A x, v \in Threads : Owes(x, v)' <=> Owes(x, v) /\ ~(x = t /\ v = u)
      BY <3>2, <3>3 DEF Owes
    <3>5. /\ Owes(t, u)
          /\ \A x \in Threads : defer_waiters'[x] \subseteq defer_waiters[x] /\ waddrs'[x] \subseteq waddrs[x]
      BY <3>1, <3>2, <3>3 DEF Owes
    <3> QED
      BY <3>1, <3>2, <3>4, <3>5, Zenon
  <2>2. CASE Release(t)
    <3>1. PICK u \in waddrs[t] :
               wake_sema' = Released({u}) /\ waddrs' = [waddrs EXCEPT ![t] = @ \ {u}]
      BY <2>2 DEF Release
    <3>2. defer_waiters' = defer_waiters /\ u \in Threads /\ u \notin defer_waiters[t]
      BY <1>1, <2>2, <3>1 DEF Release, TypeOK, OneWakeInv
    <3>3. \A x \in Threads : waddrs'[x] = IF x = t THEN waddrs[t] \ {u} ELSE waddrs[x]
      BY <1>1, <3>1 DEF TypeOK
    <3>4. \A x, v \in Threads : Owes(x, v)' <=> Owes(x, v) /\ ~(x = t /\ v = u)
      BY <3>2, <3>3 DEF Owes
    <3>5. /\ Owes(t, u)
          /\ \A x \in Threads : defer_waiters'[x] \subseteq defer_waiters[x] /\ waddrs'[x] \subseteq waddrs[x]
      BY <3>1, <3>2, <3>3 DEF Owes
    <3> QED
      BY <3>1, <3>2, <3>4, <3>5, Zenon
  <2> QED
    BY <2>1, <2>2
<1>4. wchan[u] = None /\ pc[u] \in BlockPCs /\ wake_sema[u] = 0
  BY <1>3 DEF OneWakeInv
<1>5. \A v \in Threads : wake_sema'[v] = IF v = u THEN 1 ELSE wake_sema[v]
  BY <1>1, <1>3, <1>4, BoundAssumption DEF Released, TypeOK
<1>6. \A v \in Threads : /\ wake_sema'[v] <= 1
                         /\ wake_sema'[v] > 0 => wchan[v] = None /\ pc[v] \in BlockPCs
  BY <1>4, <1>5 DEF OneWakeInv
<1>7. \A v, x \in Threads : Owes(x, v)' => Owes(x, v) /\ v # u
  BY <1>3 DEF OneWakeInv
<1>8. \A v, x \in Threads : Owes(x, v)' => /\ wchan[v] = None /\ pc[v] \in BlockPCs
                                           /\ wake_sema'[v] = 0
  BY <1>5, <1>7 DEF OneWakeInv
<1>9. \A v \in Threads : defer_waiters'[v] \cap waddrs'[v] = {}
  BY <1>3 DEF OneWakeInv
<1> QED
  BY <1>2, <1>6, <1>7, <1>8, <1>9 DEF OneWakeInv, BlockPCs

\* Signal and Broadcast take threads off a queue, of which nobody owes anything, and put each
\* into one place.
LEMMA OneWakeWake ==
  ASSUME IInv, OneWakeInv, NEW t \in Threads, pc[t] \in {"signal", "broadcast"},
         NEW c \in Conds, NEW S \in SUBSET Elems(sq_blocked[c]), NEW rest, Wake(t, c, S, rest)
  PROVE  OneWakeInv'
<1> DEFINE mine == {u \in S : m_owner[mutex_obj[u]] = t}
<1>1. TypeOK /\ QueueInv /\ WaiterInv /\ waddrs[t] = {}
  BY DEF IInv, FlagInv
<1>2. S \subseteq Threads /\ \A u \in S : wchan[u] = c
  <2>1. \A i \in DOMAIN sq_blocked[c] : sq_blocked[c][i] \in Threads
    BY <1>1, ElementOfSeq, LenProperties DEF TypeOK
  <2>2. S \subseteq Threads
    BY <2>1 DEF Elems
  <2> QED
    BY <1>1, <2>2 DEF QueueInv
<1>3. \A u \in S : /\ pc[u] \in BlockPCs /\ u # t /\ wake_sema[u] = 0
                   /\ \A x \in Threads : ~Owes(x, u)
  <2> SUFFICES ASSUME NEW u \in S
               PROVE  /\ pc[u] \in BlockPCs /\ u # t /\ wake_sema[u] = 0
                      /\ \A x \in Threads : ~Owes(x, u)
    OBVIOUS
  <2>1. u \in Threads /\ wchan[u] # None
    BY <1>2, NoneAssumption
  <2>2. pc[u] \in SleepPCs
    BY <1>1, <2>1 DEF WaiterInv
  <2>3. pc[u] \in BlockPCs
    BY <2>1, <2>2 DEF OneWakeInv, SleepPCs, BlockPCs
  <2>4. wake_sema[u] = 0 /\ \A x \in Threads : ~Owes(x, u)
    BY <1>1, <2>1 DEF OneWakeInv, TypeOK
  <2> QED
    BY <2>3, <2>4 DEF BlockPCs
<1>4. /\ \A u \in Threads : wchan'[u] = IF u \in S THEN None ELSE wchan[u]
      /\ frame' = frame /\ Goto(t, "release")
  BY DEF Wake, Unqueued
<1>5. pc'[t] = "release" /\ \A u \in Threads \ {t} : pc'[u] = pc[u]
  BY <1>1, <1>4 DEF Goto, TypeOK
<1>6. PICK keptD, keptO :
        /\ keptD \subseteq defer_waiters[t] \cup mine /\ keptO \subseteq S \ mine
        /\ defer_waiters' = [defer_waiters EXCEPT ![t] = keptD]
        /\ waddrs' = [waddrs EXCEPT ![t] = keptO]
        /\ wake_sema' = Released(((defer_waiters[t] \cup mine) \ keptD) \cup ((S \ mine) \ keptO))
  BY DEF Wake, KeptSets, Overflow
<1> DEFINE given == ((defer_waiters[t] \cup mine) \ keptD) \cup ((S \ mine) \ keptO)
<1>7. mine \subseteq S
  OBVIOUS
<1> HIDE DEF mine
<1>8. /\ \A x \in Threads \ {t} : defer_waiters'[x] = defer_waiters[x] /\ waddrs'[x] = waddrs[x]
      /\ defer_waiters'[t] = keptD /\ waddrs'[t] = keptO
  BY <1>1, <1>6 DEF TypeOK
<1>9. \A u \in given : /\ u \in Threads /\ wake_sema[u] = 0 /\ (u \in S \/ Owes(t, u))
  <2> SUFFICES ASSUME NEW u \in given
               PROVE  u \in Threads /\ wake_sema[u] = 0 /\ (u \in S \/ Owes(t, u))
    OBVIOUS
  <2>1. CASE u \in S
    BY <1>2, <1>3, <2>1
  <2>2. CASE u \in defer_waiters[t]
    BY <1>1, <2>2 DEF OneWakeInv, Owes, TypeOK
  <2> QED
    BY <1>7, <2>1, <2>2
<1>10. \A u \in Threads : wake_sema'[u] = IF u \in given THEN 1 ELSE wake_sema[u]
  BY <1>1, <1>6, <1>9, BoundAssumption DEF Released, TypeOK
<1>11. \A u, x \in Threads : Owes(x, u)' => \/ Owes(x, u) /\ u \notin S /\ u \notin given
                                            \/ x = t /\ u \in S /\ u \notin given
  <2> SUFFICES ASSUME NEW u \in Threads, NEW x \in Threads, Owes(x, u)'
               PROVE  \/ Owes(x, u) /\ u \notin S /\ u \notin given
                      \/ x = t /\ u \in S /\ u \notin given
    OBVIOUS
  <2>1. CASE x = t
    <3>1. u \in keptD \cup keptO
      BY <1>8, <2>1 DEF Owes
    <3>2. CASE u \in keptD
      <4>1. u \notin (S \ mine) \ keptO
        BY <1>3, <1>6, <3>2 DEF Owes
      <4> QED
        BY <1>3, <1>6, <1>7, <2>1, <3>2, <4>1 DEF Owes
    <3>3. CASE u \in keptO
      <4>1. u \in S /\ u \notin mine /\ u \notin defer_waiters[t]
        BY <1>3, <1>6, <3>3 DEF Owes
      <4> QED
        BY <2>1, <3>3, <4>1
    <3> QED
      BY <3>1, <3>2, <3>3
  <2>2. CASE x # t
    <3>1. Owes(x, u)
      BY <1>8, <2>2 DEF Owes
    <3>2. u \notin S /\ ~Owes(t, u)
      BY <1>3, <2>2, <3>1 DEF OneWakeInv
    <3> QED
      BY <1>9, <3>1, <3>2
  <2> QED
    BY <2>1, <2>2
<1>12. \A u \in given : wchan'[u] = None /\ pc'[u] \in BlockPCs
  <2> SUFFICES ASSUME NEW u \in given PROVE wchan'[u] = None /\ pc'[u] \in BlockPCs
    OBVIOUS
  <2>1. CASE u \in S
    BY <1>2, <1>3, <1>4, <1>5, <2>1
  <2>2. CASE u \notin S
    <3>1. u \in Threads /\ wchan[u] = None /\ pc[u] \in BlockPCs
      BY <1>9, <2>2 DEF OneWakeInv
    <3> QED
      BY <1>4, <1>5, <2>2, <3>1 DEF BlockPCs
  <2> QED
    BY <2>1, <2>2
<1> HIDE DEF given
<1>13. \A u \in Threads : /\ ~frame'[u].timed /\ pc'[u] # "unreachable"
                          /\ pc'[u] = "cvcheck" => wchan'[u] = None
  BY <1>4, <1>5 DEF OneWakeInv
<1>14. \A u \in Threads : /\ wake_sema'[u] <= 1
                          /\ wake_sema'[u] > 0 => wchan'[u] = None /\ pc'[u] \in BlockPCs
  <2> SUFFICES ASSUME NEW u \in Threads
               PROVE  /\ wake_sema'[u] <= 1
                      /\ wake_sema'[u] > 0 => wchan'[u] = None /\ pc'[u] \in BlockPCs
    OBVIOUS
  <2>1. CASE u \in given
    BY <1>10, <1>12, <2>1
  <2>2. CASE u \notin given
    BY <1>4, <1>5, <1>10, <2>2 DEF OneWakeInv, BlockPCs
  <2> QED
    BY <2>1, <2>2
<1>15. \A u, x \in Threads : Owes(x, u)' => /\ wchan'[u] = None /\ pc'[u] \in BlockPCs
                                            /\ wake_sema'[u] = 0
  <2> SUFFICES ASSUME NEW u \in Threads, NEW x \in Threads, Owes(x, u)'
               PROVE  wchan'[u] = None /\ pc'[u] \in BlockPCs /\ wake_sema'[u] = 0
    OBVIOUS
  <2>1. CASE Owes(x, u) /\ u \notin S /\ u \notin given
    BY <1>4, <1>5, <1>10, <2>1 DEF OneWakeInv, BlockPCs
  <2>2. CASE u \in S /\ u \notin given
    BY <1>3, <1>4, <1>5, <1>10, <2>2
  <2> QED
    BY <1>11, <2>1, <2>2
<1>16. \A u, x, y \in Threads : Owes(x, u)' /\ Owes(y, u)' => x = y
  BY <1>11 DEF OneWakeInv
<1>17. \A x \in Threads : defer_waiters'[x] \cap waddrs'[x] = {}
  <2>1. keptD \cap keptO = {}
    BY <1>3, <1>6 DEF Owes
  <2> QED
    BY <1>8, <2>1 DEF OneWakeInv
<1> QED
  BY <1>13, <1>14, <1>15, <1>16, <1>17 DEF OneWakeInv, BlockPCs

\* Signal and Broadcast.
LEMMA OneWakeSignal ==
  ASSUME IInv, OneWakeInv, NEW t \in Threads, Signal(t) \/ Broadcast(t)
  PROVE  OneWakeInv'
<1> DEFINE c == frame[t].c
<1>1. TypeOK /\ FrameInv /\ ~frame[t].timed
  BY DEF IInv, OneWakeInv
<1>2. pc[t] \in {"signal", "broadcast"} /\ c \in Conds
  BY <1>1 DEF Signal, Broadcast, FrameInv, TypeOK, Frames
<1>3. CASE WakeNobody(t) \/ (Goto(t, "badtarget") /\ UNCHANGED <<mutexVars, queueVars, wakeVars, frame, depth>>)
  <2>1. UNCHANGED <<wake_sema, wchan, defer_waiters, waddrs>>
    BY <1>3 DEF WakeNobody, queueVars, wakeVars
  <2>2. /\ \A u \in Threads \ {t} : pc'[u] = pc[u] /\ frame'[u] = frame[u]
        /\ pc'[t] \in {"run", "badtarget"}
    BY <1>1, <1>3 DEF WakeNobody, Goto, Return, TypeOK
  <2>3. frame'[t] = frame[t] \/ frame'[t] = NoFrame
    BY <1>1, <1>3 DEF WakeNobody, Return, TypeOK
  <2>4. ~frame'[t].timed
    BY <1>1, <2>3 DEF NoFrame, Frame
  <2>5. pc[t] \notin BlockPCs
    BY <1>2 DEF BlockPCs
  <2> QED
    BY <2>1, <2>2, <2>4, <2>5, OneWakeKept
<1>4. ASSUME NEW S \in SUBSET Elems(sq_blocked[c]), NEW rest, Wake(t, c, S, rest)
      PROVE  OneWakeInv'
  <2> HIDE DEF c
  <2> QED
    BY <1>2, <1>4, OneWakeWake
<1>5. CASE Signal(t)
  <2> DEFINE q == sq_blocked[c]
             td == IF frame[t].td = None THEN q[1] ELSE frame[t].td
  <2>1. \/ WakeNobody(t)
        \/ td \in Elems(q) /\ Wake(t, c, {td}, Erase(q, td))
        \/ Goto(t, "badtarget") /\ UNCHANGED <<mutexVars, queueVars, wakeVars, frame, depth>>
    BY <1>5 DEF Signal
  <2>2. CASE td \in Elems(q) /\ Wake(t, c, {td}, Erase(q, td))
    <3> HIDE DEF td, c
    <3>1. {td} \in SUBSET Elems(sq_blocked[c])
      BY <2>2
    <3> QED
      BY <1>4, <2>2, <3>1
  <2> QED
    BY <1>3, <2>1, <2>2
<1>6. CASE Broadcast(t)
  BY <1>3, <1>4, <1>6 DEF Broadcast
<1> QED
  BY <1>5, <1>6

\* Without timed waits UNREACHABLE of PthreadCond::Wait is not reached, for any threads,
\* mutexes, condition variables, array sizes and host semaphores.  With timed waits it is.
THEOREM UntimedWaitReturns ==
  ASSUME TimedWaits = FALSE
  PROVE  Spec => []WaitNeverUnreachable
<1>1. Init => OneWakeInv
  <2> SUFFICES ASSUME Init PROVE OneWakeInv
    OBVIOUS
  <2>1. \A t \in Threads : /\ frame[t] = NoFrame /\ pc[t] = "run" /\ wake_sema[t] = 0
                           /\ defer_waiters[t] = {} /\ waddrs[t] = {}
    BY DEF Init
  <2>2. NoFrame.timed = FALSE
    BY DEF NoFrame, Frame
  <2> QED
    BY <2>1, <2>2 DEF OneWakeInv, Owes
<1>2. IInv /\ OneWakeInv /\ [Next]_vars => OneWakeInv'
  <2> SUFFICES ASSUME IInv, OneWakeInv, [Next]_vars PROVE OneWakeInv'
    OBVIOUS
  <2>1. CASE UNCHANGED vars
    BY <2>1 DEF vars, OneWakeInv, Owes, BlockPCs
  <2>2. ASSUME NEW t \in Threads, GuestCall(t) PROVE OneWakeInv'
    BY <2>2, OneWakeQuiet DEF GuestCall
  <2>3. ASSUME NEW t \in Threads, Step(t) PROVE OneWakeInv'
    BY <2>3, OneWakeQuiet, OneWakeSleep, OneWakeEnds, OneWakeRelease, OneWakeSignal DEF Step
  <2> QED
    BY <2>1, <2>2, <2>3 DEF Next
<1>3. OneWakeInv => WaitNeverUnreachable
  BY DEF OneWakeInv, WaitNeverUnreachable
<1> QED
  BY <1>1, <1>2, <1>3, InductiveInvariant, PTL DEF Spec

=============================================================================
