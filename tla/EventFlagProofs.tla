-------------------------- MODULE EventFlagProofs --------------------------
(***************************************************************************)
(* Theorems about EventFlag, for any set of threads, also an infinite one, *)
(* any set of bits and any calls of the guest.                             *)
(***************************************************************************)
EXTENDS EventFlag, FiniteSetTheorems, TLAPS

\* The inductive invariant.  The threads in Wait can be counted because they came one
\* after the other.
IInv ==
    /\ TypeOK
    /\ IsFiniteSet(Waiting)
    /\ CountExact
    /\ NoMissedWakeup
    /\ CancelReachesAll

-----------------------------------------------------------------------------
(* Waiting threads and notifications                                       *)

\* A thread enters Wait.
LEMMA WaitingGrows ==
  ASSUME IInv, NEW t \in Threads \ Waiting, Waiting' = Waiting \cup {t},
         m_waiting_threads' = m_waiting_threads + 1
  PROVE  IsFiniteSet(Waiting)' /\ CountExact'
<1>1. /\ IsFiniteSet(Waiting \cup {t})
      /\ Cardinality(Waiting \cup {t}) = Cardinality(Waiting) + 1
  BY FS_AddElement DEF IInv
<1> QED
  BY <1>1 DEF IInv, CountExact

\* A thread leaves Wait; the count was not 0.
LEMMA WaitingShrinks ==
  ASSUME IInv, NEW t \in Waiting, Waiting' = Waiting \ {t},
         m_waiting_threads' = m_waiting_threads - 1
  PROVE  IsFiniteSet(Waiting)' /\ CountExact' /\ m_waiting_threads' \in Nat
<1>1. /\ IsFiniteSet(Waiting \ {t})
      /\ Cardinality(Waiting \ {t}) = Cardinality(Waiting) - 1
  BY FS_RemoveElement DEF IInv
<1>2. Cardinality(Waiting \ {t}) \in Nat
  BY <1>1, FS_CardinalityType
<1> QED
  BY <1>1, <1>2 DEF IInv, CountExact

\* notify_all moves threads inside Wait and blocks nobody.
LEMMA NotifiedProps ==
  ASSUME TypeOK
  PROVE  /\ Notified(pc) \in [Threads -> PCs]
         /\ \A t \in Threads : Notified(pc)[t] # "blocked"
         /\ \A t \in Threads : Notified(pc)[t] \in {"blocked", "awake", "expired"} <=> t \in Waiting
         /\ \A t \in Threads : pc[t] = "run" => Notified(pc)[t] = "run"
  BY DEF TypeOK, Notified, PCs, Waiting

\* The bits at the end of a Wait are bits that were there.
LEMMA ClearedSubset ==
  ASSUME NEW c PROVE Cleared(c) \subseteq m_bits
  BY DEF Cleared

\* Nothing is known of a call when none is made.
LEMMA NoCallType == NoCall \in Calls
  BY DEF NoCall, Call, Calls, WaitModes, ClearModes

-----------------------------------------------------------------------------
(* The inductive invariant                                                 *)

\* A new event flag has no waiters.
LEMMA InitIInv == Init => IInv
<1> SUFFICES ASSUME Init PROVE IInv
  OBVIOUS
<1>1. TypeOK
  BY FlagAssumption, NoCallType DEF Init, TypeOK, PCs
<1>2. Waiting = {}
  BY DEF Init, Waiting
<1>3. IsFiniteSet(Waiting) /\ CountExact
  BY <1>2, FS_EmptySet DEF Init, CountExact
<1>4. NoMissedWakeup /\ CancelReachesAll
  BY DEF Init, NoMissedWakeup, CancelReachesAll
<1> QED
  BY <1>1, <1>3, <1>4 DEF IInv

\* A Wait that finds its bits, or a Clear: only m_bits changes, and it shrinks.
LEMMA BitsShrinkKeeps ==
  ASSUME IInv, m_bits' \subseteq m_bits,
         UNCHANGED <<m_thread_mode, m_status, m_waiting_threads, pc, call, doomed>>
  PROVE  IInv'
<1> USE DEF IInv
<1>1. TypeOK'
  BY DEF TypeOK
<1>2. Waiting' = Waiting
  BY DEF Waiting
<1>3. IsFiniteSet(Waiting)' /\ CountExact' /\ CancelReachesAll'
  BY <1>2 DEF CountExact, CancelReachesAll
<1>4. NoMissedWakeup'
  <2> SUFFICES ASSUME NEW t \in Threads, pc[t] = "blocked" PROVE ~WaitFunc(call[t])'
    BY DEF NoMissedWakeup
  <2>1. ~WaitFunc(call[t])
    BY DEF NoMissedWakeup
  <2> QED
    BY <2>1 DEF WaitFunc
<1> QED
  BY <1>1, <1>3, <1>4

\* A Wait whose bits are not there: the thread is counted and blocks.
LEMMA WaitBlockKeeps ==
  ASSUME IInv, NEW t \in Threads, NEW c \in GuestWaits, WaitBlock(t, c)
  PROVE  IInv'
<1> USE DEF IInv
<1>1. TypeOK'
  BY FlagAssumption DEF WaitBlock, TypeOK, PCs
<1>2. t \in Threads \ Waiting /\ Waiting' = Waiting \cup {t}
  BY DEF WaitBlock, Waiting, TypeOK
<1>3. IsFiniteSet(Waiting)' /\ CountExact'
  BY <1>2, WaitingGrows DEF WaitBlock
<1>4. NoMissedWakeup'
  BY DEF WaitBlock, NoMissedWakeup, WaitFunc, TypeOK
<1>5. CancelReachesAll'
  BY <1>2 DEF WaitBlock, CancelReachesAll
<1> QED
  BY <1>1, <1>3, <1>4, <1>5

\* A thread goes from one place inside Wait to another and does not block on bits it has.
LEMMA MoveKeeps ==
  ASSUME IInv, NEW t \in Waiting, NEW l \in {"blocked", "awake", "expired"},
         l = "blocked" => ~WaitFunc(call[t]),
         pc' = [pc EXCEPT ![t] = l],
         UNCHANGED <<m_thread_mode, m_bits, m_status, m_waiting_threads, call, doomed>>
  PROVE  IInv'
<1> USE DEF IInv
<1>1. TypeOK'
  BY DEF TypeOK, PCs
<1>2. Waiting' = Waiting
  BY DEF Waiting, TypeOK
<1>3. IsFiniteSet(Waiting)' /\ CountExact' /\ CancelReachesAll'
  BY <1>2 DEF CountExact, CancelReachesAll
<1>4. NoMissedWakeup'
  BY DEF NoMissedWakeup, WaitFunc, TypeOK
<1> QED
  BY <1>1, <1>3, <1>4

\* The end of a Wait that has what it waited for or is canceled.
LEMMA WaitEndKeeps ==
  ASSUME IInv, NEW t \in Threads, WaitEnd(t)
  PROVE  IInv'
<1> USE DEF IInv
<1>1. t \in Waiting /\ Waiting' = Waiting \ {t}
  BY DEF WaitEnd, Waiting, TypeOK
<1>2. IsFiniteSet(Waiting)' /\ CountExact' /\ m_waiting_threads' \in Nat
  BY <1>1, WaitingShrinks DEF WaitEnd
<1>3. m_bits' \subseteq m_bits
  BY ClearedSubset DEF WaitEnd
<1>4. TypeOK'
  BY <1>2, <1>3, NoCallType DEF WaitEnd, TypeOK, PCs
<1>5. NoMissedWakeup'
  BY <1>3 DEF WaitEnd, NoMissedWakeup, WaitFunc, TypeOK
<1>6. CancelReachesAll'
  BY <1>1 DEF WaitEnd, CancelReachesAll
<1> QED
  BY <1>2, <1>4, <1>5, <1>6

\* The end of a Wait whose time is over: nothing is canceled, so nobody is doomed.
LEMMA WaitTimedOutKeeps ==
  ASSUME IInv, NEW t \in Threads, WaitTimedOut(t)
  PROVE  IInv'
<1> USE DEF IInv
<1>1. t \in Waiting /\ Waiting' = Waiting \ {t}
  BY DEF WaitTimedOut, Waiting, TypeOK
<1>2. IsFiniteSet(Waiting)' /\ CountExact' /\ m_waiting_threads' \in Nat
  BY <1>1, WaitingShrinks DEF WaitTimedOut
<1>3. TypeOK'
  BY <1>2, NoCallType DEF WaitTimedOut, TypeOK, PCs
<1>4. NoMissedWakeup'
  BY DEF WaitTimedOut, NoMissedWakeup, WaitFunc, TypeOK
<1>5. doomed' = {}
  BY DEF WaitTimedOut, CancelReachesAll, WaitFunc
<1>6. CancelReachesAll'
  BY <1>5 DEF CancelReachesAll
<1> QED
  BY <1>2, <1>3, <1>4, <1>6

\* Set adds bits and wakes everybody.
LEMMA SetKeeps ==
  ASSUME IInv, NEW t \in Threads, NEW b \in SUBSET Bits, Set(t, b)
  PROVE  IInv'
<1> USE DEF IInv
<1>1. TypeOK'
  BY NotifiedProps DEF Set, TypeOK
<1>2. Waiting' = Waiting
  BY NotifiedProps DEF Set, Waiting
<1>3. IsFiniteSet(Waiting)' /\ CountExact' /\ CancelReachesAll'
  BY <1>2 DEF Set, CountExact, CancelReachesAll
<1>4. NoMissedWakeup'
  BY NotifiedProps DEF Set, NoMissedWakeup
<1> QED
  BY <1>1, <1>3, <1>4

\* Cancel wakes everybody; who waits now is doomed.
LEMMA CancelBeginKeeps ==
  ASSUME IInv, NEW t \in Threads, NEW b \in SUBSET Bits, CancelBegin(t, b)
  PROVE  IInv'
<1> USE DEF IInv
<1> DEFINE f == Notified(pc)
<1>1. /\ f \in [Threads -> PCs] /\ pc' = [f EXCEPT ![t] = "cancel"]
      /\ \A u \in Threads : f[u] # "blocked"
      /\ \A u \in Threads : f[u] \in {"blocked", "awake", "expired"} <=> u \in Waiting
      /\ f[t] = "run"
  BY NotifiedProps DEF CancelBegin
<1> HIDE DEF f
<1>2. TypeOK'
  BY <1>1 DEF CancelBegin, TypeOK, PCs, Waiting
<1>3. Waiting' = Waiting
  BY <1>1 DEF Waiting
<1>4. IsFiniteSet(Waiting)' /\ CountExact' /\ CancelReachesAll'
  BY <1>3 DEF CancelBegin, CountExact, CancelReachesAll
<1>5. NoMissedWakeup'
  BY <1>1 DEF NoMissedWakeup
<1> QED
  BY <1>2, <1>4, <1>5

\* Cancel ends when nobody waits any more: then the doomed have all returned.
LEMMA CancelEndKeeps ==
  ASSUME IInv, NEW t \in Threads, CancelEnd(t)
  PROVE  IInv'
<1> USE DEF IInv
<1>1. TypeOK'
  BY DEF CancelEnd, TypeOK, PCs
<1>2. Waiting = {} /\ Waiting' = Waiting
  <2>1. Waiting = {}
    BY FS_EmptySet DEF CancelEnd, CountExact
  <2>2. Waiting' = Waiting
    BY DEF CancelEnd, Waiting, TypeOK
  <2> QED
    BY <2>1, <2>2
<1>3. IsFiniteSet(Waiting)' /\ CountExact'
  BY <1>2 DEF CancelEnd, CountExact
<1>4. CancelReachesAll'
  BY <1>2 DEF CancelEnd, CancelReachesAll
<1>5. NoMissedWakeup'
  BY <1>2 DEF NoMissedWakeup, Waiting
<1> QED
  BY <1>1, <1>3, <1>4, <1>5

\* Every step keeps the invariant.
LEMMA NextKeeps == IInv /\ [Next]_vars => IInv'
<1> SUFFICES ASSUME IInv, [Next]_vars PROVE IInv'
  OBVIOUS
<1>1. ASSUME NEW t \in Threads, NEW c \in GuestWaits, WaitNow(t, c) PROVE IInv'
  BY <1>1, ClearedSubset, BitsShrinkKeeps DEF WaitNow
<1>2. ASSUME NEW t \in Threads, NEW c \in GuestWaits, WaitBlock(t, c) PROVE IInv'
  BY <1>2, WaitBlockKeeps
<1>3. ASSUME NEW t \in Threads, NEW b \in SUBSET Bits, Set(t, b) PROVE IInv'
  BY <1>3, SetKeeps
<1>4. ASSUME NEW t \in Threads, NEW b \in SUBSET Bits, Clear(t, b) PROVE IInv'
  BY <1>4, BitsShrinkKeeps DEF Clear
<1>5. ASSUME NEW t \in Threads, NEW b \in SUBSET Bits, CancelBegin(t, b) PROVE IInv'
  BY <1>5, CancelBeginKeeps
<1>6. ASSUME NEW t \in Threads, WaitEnd(t) PROVE IInv'
  BY <1>6, WaitEndKeeps
<1>7. ASSUME NEW t \in Threads, WaitTimedOut(t) PROVE IInv'
  BY <1>7, WaitTimedOutKeeps
<1>8. ASSUME NEW t \in Threads, WaitAgain(t) \/ Spurious(t) \/ Timeout(t) PROVE IInv'
  <2>1. t \in Waiting
    BY <1>8 DEF WaitAgain, Spurious, Timeout, Waiting
  <2> QED
    BY <1>8, <2>1, MoveKeeps DEF WaitAgain, Spurious, Timeout
<1>9. ASSUME NEW t \in Threads, CancelEnd(t) PROVE IInv'
  BY <1>9, CancelEndKeeps
<1>10. CASE UNCHANGED vars
  BY <1>10, BitsShrinkKeeps DEF vars
<1> QED
  BY <1>1, <1>2, <1>3, <1>4, <1>5, <1>6, <1>7, <1>8, <1>9, <1>10 DEF Next, GuestCall, Step

\* The inductive invariant holds always.
THEOREM InductiveInvariant == Spec => []IInv
  BY InitIInv, NextKeeps, PTL DEF Spec

-----------------------------------------------------------------------------
(* Safety of the event flag                                                *)

\* Every change of m_bits or m_status that satisfies a thread in m_cond_var takes it out
\* of there: notify_all of Set and Cancel is enough, for any bits and waiting modes.
THEOREM WakeupsReach == Spec => []NoMissedWakeup
<1>1. IInv => NoMissedWakeup
  BY DEF IInv
<1> QED
  BY <1>1, InductiveInvariant, PTL

\* m_waiting_threads is the number of threads in Wait at every unlock of m_mutex, early
\* returns included.
THEOREM WaitersCounted == Spec => []CountExact
<1>1. IInv => CountExact
  BY DEF IInv
<1> QED
  BY <1>1, InductiveInvariant, PTL

\* Cancel returns only after every thread that waited when it was called has returned
\* ECANCELED.
THEOREM CancelComplete == Spec => []CancelReachesAll
<1>1. IInv => CancelReachesAll
  BY DEF IInv
<1> QED
  BY <1>1, InductiveInvariant, PTL
=============================================================================
