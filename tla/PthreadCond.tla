---------------------------- MODULE PthreadCond ----------------------------
(***************************************************************************)
(* The guest pthread mutex and condition variable of the emulated kernel:  *)
(* PthreadMutex (threads/mutex.cpp), PthreadCond (threads/condvar.cpp),    *)
(* the wake-up machinery of Pthread (threads/pthread.h) and the hashed     *)
(* sleep queues (threads/sleepq.cpp), seen here as one waiter list per     *)
(* condition variable: that a hash chain is shared by several of them, and *)
(* the pool of SleepQueue objects, are left out.                           *)
(*                                                                         *)
(* A thread in guest code has pc "run".  Every other pc is a point inside  *)
(* a call where another thread can observe or change shared state.  Calls  *)
(* that return an error and change nothing (EPERM of Unlock and of Wait,   *)
(* EDEADLK, EAGAIN, EBUSY of SelfTryLock, EINVAL) are stuttering steps.    *)
(***************************************************************************)
EXTENDS Integers, Sequences, FiniteSets

CONSTANTS
    Threads,          \* guest threads (Pthread objects)
    Mutexes,          \* initialised PthreadMutex objects
    Conds,            \* initialised PthreadCond objects
    None,             \* nullptr
    MutexType,        \* m_flags & TypeMask of every mutex
    MaxDeferWaiters,  \* Pthread::MaxDeferWaiters (50)
    MaxCount,         \* largest m_count (INT_MAX: m_count + 1 > 0)
    SemaMax,          \* tokens the host semaphore of wake_sema can hold: 1 on
                      \* Windows; no practical bound on Apple and Linux
    TimedWaits,       \* whether the guest uses timedwait / reltimedwait_np
    Targets           \* the threads the guest names in signalto_np

Types == {"ErrorCheck", "Recursive", "Normal", "AdaptiveNp"}

ASSUME NoneAssumption == None \notin Threads /\ None \notin Conds /\ None \notin Mutexes
ASSUME TypeAssumption == MutexType \in [Mutexes -> Types]
ASSUME BoundAssumption ==
    MaxDeferWaiters \in Nat \ {0} /\ SemaMax \in Nat \ {0} /\ MaxCount \in Nat
ASSUME GuestAssumption == TimedWaits \in BOOLEAN /\ Targets \subseteq Threads

VARIABLES
    m_lock,         \* holder of TimedMutex m_lock
    m_owner,        \* m_owner, a field of its own beside m_lock
    m_count,        \* m_count
    m_deferred,     \* the mutexes whose m_flags hold Deferred
    sc_lock,        \* holder of the spin lock of a condition variable's chain
    sq_blocked,     \* waiter list of a condition variable, latest first
    wchan,          \* Pthread::wchan
    mutex_obj,      \* Pthread::mutex_obj
    wake_sema,      \* tokens in Pthread::wake_sema
    will_sleep,     \* Pthread::will_sleep
    defer_waiters,  \* Pthread::defer_waiters[0 .. nwaiter_defer)
    waddrs,         \* wake-ups Signal / Broadcast make after SleepqUnlock
    pc,             \* where each thread is
    frame,          \* arguments and locals of the call a thread is in
    depth           \* ghost: the guest's locks minus its unlocks

mutexVars == <<m_lock, m_owner, m_count, m_deferred>>
queueVars == <<sc_lock, sq_blocked, wchan, mutex_obj>>
wakeVars == <<wake_sema, will_sleep, defer_waiters, waddrs>>
vars == <<m_lock, m_owner, m_count, m_deferred, sc_lock, sq_blocked, wchan,
          mutex_obj, wake_sema, will_sleep, defer_waiters, waddrs, pc, frame,
          depth>>

\* The model ends at a fault.  UNREACHABLE of PthreadCond::Wait and the one of
\* SelfLock ("Mutex deadlock occured") end the process.  Signal of a thread that
\* is not on the queue reads its null mutex_obj or hands it a SleepQueue that is
\* not there or not its own; what happens after that is not modelled.
FaultPCs == {"unreachable", "selfdeadlock", "badtarget"}
PCs == {"run", "lock", "own", "unlock", "wakeall", "cvadd", "cvflush",
        "cvwake", "cvsleep", "cvcheck", "signal", "broadcast", "release"}
       \cup FaultPCs

\* m, c, td, timed: arguments of the call (td: the target of Signal; a lock has
\* c = None and a wait a condition variable); deferred, recurse, error: locals.
Frames == [m : Mutexes \cup {None}, c : Conds \cup {None},
           td : Threads \cup {None}, timed : BOOLEAN, deferred : BOOLEAN,
           recurse : Nat, error : {"ok", "timedout"}]
Frame(m, c, td, timed, deferred, recurse) ==
    [m |-> m, c |-> c, td |-> td, timed |-> timed, deferred |-> deferred,
     recurse |-> recurse, error |-> "ok"]
NoFrame == Frame(None, None, None, FALSE, FALSE, 0)

\* Nothing runs after a fault.
Halted == \E t \in Threads : pc[t] \in FaultPCs

\* wake_sema after one release() for each thread of S: dispatch semaphores count
\* past 1, ReleaseSemaphore leaves a full semaphore as it is.
Released(S) ==
    [t \in Threads |->
        IF t \in S /\ wake_sema[t] < SemaMax THEN wake_sema[t] + 1 ELSE wake_sema[t]]

\* The arrays defer_waiters and waddrs are modelled as sets: the order of their
\* entries shows only in which of them a full array releases, and no thread is
\* ever stored twice (NoDoubleDefer).  A full array of MaxDeferWaiters entries is
\* released and emptied before one more is stored; once S has been stored, what
\* is left in the array is Kept.
KeptLen(n) == IF n = 0 THEN 0 ELSE ((n - 1) % MaxDeferWaiters) + 1
KeptSets(S) == {K \in SUBSET S : Cardinality(K) = KeptLen(Cardinality(S))}

Elems(s) == {s[i] : i \in DOMAIN s}

Goto(t, l) == pc' = [pc EXCEPT ![t] = l]
Return(t) == Goto(t, "run") /\ frame' = [frame EXCEPT ![t] = NoFrame]

Init ==
    /\ m_lock = [m \in Mutexes |-> None]
    /\ m_owner = [m \in Mutexes |-> None]
    /\ m_count = [m \in Mutexes |-> 0]
    /\ m_deferred = {}
    /\ sc_lock = [c \in Conds |-> None]
    /\ sq_blocked = [c \in Conds |-> <<>>]
    /\ wchan = [t \in Threads |-> None]
    /\ mutex_obj = [t \in Threads |-> None]
    /\ wake_sema = [t \in Threads |-> 0]
    /\ will_sleep = [t \in Threads |-> FALSE]
    /\ defer_waiters = [t \in Threads |-> {}]
    /\ waddrs = [t \in Threads |-> {}]
    /\ pc = [t \in Threads |-> "run"]
    /\ frame = [t \in Threads |-> NoFrame]
    /\ depth = [t \in Threads |-> [m \in Mutexes |-> 0]]

-----------------------------------------------------------------------------
(* PthreadMutex::Lock, TryLock, SelfLock and SelfTryLock                   *)

\* Lock, TryLock or a timed lock of a mutex the caller does not own.
Lock(t, m) ==
    /\ pc[t] = "run" /\ m_owner[m] # t
    /\ frame' = [frame EXCEPT ![t] = Frame(m, None, None, FALSE, FALSE, 0)]
    /\ Goto(t, "lock")
    /\ UNCHANGED <<mutexVars, queueVars, wakeVars, depth>>

\* try_lock, try_lock_for or try_lock_until gives up on a held m_lock: EBUSY or
\* ETIMEDOUT.  CvLock passes no timeout and never gives up.
LockGiveUp(t) ==
    /\ pc[t] = "lock" /\ frame[t].c = None
    /\ m_lock[frame[t].m] # None
    /\ Return(t)
    /\ UNCHANGED <<mutexVars, queueVars, wakeVars, depth>>

LockAcquire(t) ==
    /\ pc[t] = "lock" /\ m_lock[frame[t].m] = None
    /\ m_lock' = [m_lock EXCEPT ![frame[t].m] = t]
    /\ Goto(t, "own")
    /\ UNCHANGED <<m_owner, m_count, m_deferred, queueVars, wakeVars, frame, depth>>

\* A CvLock that does not restore m_count.
LockOwnNoRestore(t) ==
    LET m == frame[t].m
    IN  /\ pc[t] = "own"
        /\ m_owner' = [m_owner EXCEPT ![m] = t]
        /\ depth' = IF frame[t].c # None THEN depth ELSE [depth EXCEPT ![t][m] = @ + 1]
        /\ Return(t)
        /\ UNCHANGED <<m_lock, m_count, m_deferred, queueVars, wakeVars>>

\* m_owner = curthread.  CvLock also restores m_count, and the wait returns.
LockOwn(t) ==
    LET m == frame[t].m
        cvLock == frame[t].c # None
    IN  /\ pc[t] = "own"
        /\ m_owner' = [m_owner EXCEPT ![m] = t]
        /\ m_count' = IF cvLock THEN [m_count EXCEPT ![m] = frame[t].recurse]
                                ELSE m_count
        /\ depth' = IF cvLock THEN depth ELSE [depth EXCEPT ![t][m] = @ + 1]
        /\ Return(t)
        /\ UNCHANGED <<m_lock, m_deferred, queueVars, wakeVars>>

SelfLockRecursive(t, m) ==
    /\ pc[t] = "run" /\ m_owner[m] = t
    /\ MutexType[m] = "Recursive" /\ m_count[m] < MaxCount
    /\ m_count' = [m_count EXCEPT ![m] = @ + 1]
    /\ depth' = [depth EXCEPT ![t][m] = @ + 1]
    /\ UNCHANGED <<m_lock, m_owner, m_deferred, queueVars, wakeVars, pc, frame>>

\* SelfLock of a normal mutex without a timeout: UNREACHABLE_MSG.
SelfLockNormal(t, m) ==
    /\ pc[t] = "run" /\ m_owner[m] = t
    /\ MutexType[m] = "Normal"
    /\ Goto(t, "selfdeadlock")
    /\ UNCHANGED <<mutexVars, queueVars, wakeVars, frame, depth>>

-----------------------------------------------------------------------------
(* PthreadMutex::Unlock                                                    *)

\* A Nested that does not look at m_count.
NestedAnyCount(m) == MutexType[m] = "Recursive"

Nested(m) == MutexType[m] = "Recursive" /\ m_count[m] > 0

UnlockNested(t, m) ==
    /\ pc[t] = "run" /\ m_owner[m] = t /\ Nested(m)
    /\ m_count' = [m_count EXCEPT ![m] = @ - 1]
    /\ depth' = [depth EXCEPT ![t][m] = @ - 1]
    /\ UNCHANGED <<m_lock, m_owner, m_deferred, queueVars, wakeVars, pc, frame>>

\* An unlock that leaves m_owner set.
DropOwnerKept(m) == m_deferred' = m_deferred \ {m} /\ UNCHANGED m_owner

\* Up to m_owner = nullptr: Deferred is saved in a local and cleared.
DropOwner(m) ==
    /\ m_deferred' = m_deferred \ {m}
    /\ m_owner' = [m_owner EXCEPT ![m] = None]

\* An unlock that clears Deferred before it reads it.
UnlockClearsFirst(t, m) ==
    /\ pc[t] = "run" /\ m_owner[m] = t /\ ~Nested(m)
    /\ DropOwner(m)
    /\ frame' = [frame EXCEPT ![t] = Frame(m, None, None, FALSE, FALSE, 0)]
    /\ depth' = [depth EXCEPT ![t][m] = @ - 1]
    /\ Goto(t, "unlock")
    /\ UNCHANGED <<m_lock, m_count, queueVars, wakeVars>>

Unlock(t, m) ==
    /\ pc[t] = "run" /\ m_owner[m] = t /\ ~Nested(m)
    /\ DropOwner(m)
    /\ frame' = [frame EXCEPT ![t] = Frame(m, None, None, FALSE, m \in m_deferred, 0)]
    /\ depth' = [depth EXCEPT ![t][m] = @ - 1]
    /\ Goto(t, "unlock")
    /\ UNCHANGED <<m_lock, m_count, queueVars, wakeVars>>

\* m_lock.unlock(); then WakeAll, unless the caller is about to sleep.
UnlockRelease(t) ==
    LET wake == ~will_sleep[t] /\ frame[t].deferred
        inWait == frame[t].c # None
    IN  /\ pc[t] = "unlock"
        /\ m_lock' = [m_lock EXCEPT ![frame[t].m] = None]
        /\ Goto(t, IF wake THEN "wakeall" ELSE IF inWait THEN "cvadd" ELSE "run")
        /\ frame' = IF wake \/ inWait THEN frame ELSE [frame EXCEPT ![t] = NoFrame]
        /\ UNCHANGED <<m_owner, m_count, m_deferred, queueVars, wakeVars, depth>>

\* One turn of the loop of Pthread::WakeAll, called by Unlock or by Sleep.
WakeAll(t) ==
    /\ pc[t] \in {"wakeall", "cvwake"}
    /\ \E u \in defer_waiters[t] :
          /\ wake_sema' = Released({u})
          /\ defer_waiters' = [defer_waiters EXCEPT ![t] = @ \ {u}]
    /\ UNCHANGED <<mutexVars, queueVars, will_sleep, waddrs, pc, frame, depth>>

\* WakeAll is done: Unlock returns.
UnlockReturn(t) ==
    /\ pc[t] = "wakeall" /\ defer_waiters[t] = {}
    /\ Return(t)
    /\ UNCHANGED <<mutexVars, queueVars, wakeVars, depth>>

-----------------------------------------------------------------------------
(* PthreadCond::Wait                                                       *)

\* SleepqLock, will_sleep = true and CvUnlock up to m_owner = nullptr.  IsOwned
\* makes Wait fail for a thread that does not own m.
Wait(t, c, m, timed) ==
    /\ pc[t] = "run" /\ m_owner[m] = t
    /\ timed => TimedWaits
    /\ sc_lock[c] = None
    /\ sc_lock' = [sc_lock EXCEPT ![c] = t]
    /\ will_sleep' = [will_sleep EXCEPT ![t] = TRUE]
    /\ DropOwner(m)
    /\ m_count' = [m_count EXCEPT ![m] = 0]
    /\ frame' = [frame EXCEPT ![t] = Frame(m, c, None, timed, m \in m_deferred, m_count[m])]
    /\ Goto(t, "unlock")
    /\ UNCHANGED <<m_lock, sq_blocked, wchan, mutex_obj, wake_sema,
                   defer_waiters, waddrs, depth>>

\* SleepqAdd, ClearWake (one try_acquire) and SleepqUnlock.
WaitEnqueue(t) ==
    LET c == frame[t].c
    IN  /\ pc[t] = "cvadd"
        /\ mutex_obj' = [mutex_obj EXCEPT ![t] = frame[t].m]
        /\ sq_blocked' = [sq_blocked EXCEPT ![c] = <<t>> \o @]
        /\ wchan' = [wchan EXCEPT ![t] = c]
        /\ wake_sema' = [wake_sema EXCEPT ![t] = IF @ > 0 THEN @ - 1 ELSE 0]
        /\ sc_lock' = [sc_lock EXCEPT ![c] = None]
        /\ Goto(t, "cvflush")
        /\ UNCHANGED <<mutexVars, will_sleep, defer_waiters, waddrs, frame, depth>>

\* Pthread::Sleep: will_sleep = false, and WakeAll if nwaiter_defer > 0.
SleepFlush(t) ==
    /\ pc[t] = "cvflush"
    /\ will_sleep' = [will_sleep EXCEPT ![t] = FALSE]
    /\ Goto(t, "cvwake")
    /\ UNCHANGED <<mutexVars, queueVars, wake_sema, defer_waiters, waddrs, frame, depth>>

\* WakeAll is done: Sleep blocks on wake_sema.
SleepBlock(t) ==
    /\ pc[t] = "cvwake" /\ defer_waiters[t] = {}
    /\ Goto(t, "cvsleep")
    /\ UNCHANGED <<mutexVars, queueVars, wakeVars, frame, depth>>

SleepAcquire(t) ==
    /\ pc[t] = "cvsleep" /\ wake_sema[t] > 0
    /\ wake_sema' = [wake_sema EXCEPT ![t] = @ - 1]
    /\ frame' = [frame EXCEPT ![t] = [@ EXCEPT !.error = "ok"]]
    /\ Goto(t, "cvcheck")
    /\ UNCHANGED <<mutexVars, queueVars, will_sleep, defer_waiters, waddrs, depth>>

SleepTimeout(t) ==
    /\ pc[t] = "cvsleep" /\ frame[t].timed /\ wake_sema[t] = 0
    /\ frame' = [frame EXCEPT ![t] = [@ EXCEPT !.error = "timedout"]]
    /\ Goto(t, "cvcheck")
    /\ UNCHANGED <<mutexVars, queueVars, wakeVars, depth>>

\* std::erase of a thread that is in the list once.
Erase(s, t) ==
    LET i == CHOOSE i \in DOMAIN s : s[i] = t
    IN  [j \in 1..(Len(s) - 1) |-> IF j < i THEN s[j] ELSE s[j + 1]]

\* A WaitCheck that looks at the timeout before it looks at wchan.
WaitCheckTimeoutFirst(t) ==
    LET c == frame[t].c
        queued == wchan[t] # None
        timedout == frame[t].error = "timedout"
    IN  /\ pc[t] = "cvcheck" /\ sc_lock[c] = None
        /\ sq_blocked' = IF timedout /\ queued THEN [sq_blocked EXCEPT ![c] = Erase(@, t)]
                                              ELSE sq_blocked
        /\ wchan' = IF timedout THEN [wchan EXCEPT ![t] = None] ELSE wchan
        /\ mutex_obj' = [mutex_obj EXCEPT ![t] = None]
        /\ Goto(t, IF queued /\ ~timedout THEN "unreachable" ELSE "lock")
        /\ UNCHANGED <<mutexVars, sc_lock, wakeVars, frame, depth>>

\* The locked section after Sleep.  Nothing in the kernel sets cancel_pending,
\* so the ShouldCancel branch cannot be taken.
WaitCheck(t) ==
    LET c == frame[t].c
        timedout == wchan[t] # None /\ frame[t].error = "timedout"
        woken == wchan[t] = None
    IN  /\ pc[t] = "cvcheck" /\ sc_lock[c] = None
        /\ sq_blocked' = IF timedout THEN [sq_blocked EXCEPT ![c] = Erase(@, t)]
                                     ELSE sq_blocked
        /\ wchan' = IF timedout THEN [wchan EXCEPT ![t] = None] ELSE wchan
        /\ mutex_obj' = IF woken \/ timedout THEN [mutex_obj EXCEPT ![t] = None]
                                             ELSE mutex_obj
        /\ frame' = IF woken THEN [frame EXCEPT ![t] = [@ EXCEPT !.error = "ok"]]
                    ELSE frame
        /\ Goto(t, IF woken \/ timedout THEN "lock" ELSE "unreachable")
        /\ UNCHANGED <<mutexVars, sc_lock, wakeVars, depth>>

-----------------------------------------------------------------------------
(* PthreadCond::Signal and Broadcast                                       *)

SignalCall(t, c, td) ==
    /\ pc[t] = "run"
    /\ frame' = [frame EXCEPT ![t] = Frame(None, c, td, FALSE, FALSE, 0)]
    /\ Goto(t, "signal")
    /\ UNCHANGED <<mutexVars, queueVars, wakeVars, depth>>

BroadcastCall(t, c) ==
    /\ pc[t] = "run"
    /\ frame' = [frame EXCEPT ![t] = Frame(None, c, None, FALSE, FALSE, 0)]
    /\ Goto(t, "broadcast")
    /\ UNCHANGED <<mutexVars, queueVars, wakeVars, depth>>

\* A SleepqRemove that leaves wchan set.
UnqueuedKept(S) == wchan

\* td->wchan = nullptr for every thread of S.
Unqueued(S) == [u \in Threads |-> IF u \in S THEN None ELSE wchan[u]]

\* A full array that is emptied and not released.
OverflowDropped(all, kept) == {}

\* What a full array released before the entries kept were stored.
Overflow(all, kept) == all \ kept

\* Takes the threads S off the queue of c, whose list becomes rest.  The wake-up
\* of a waiter whose mutex the caller owns is deferred and that mutex marked; any
\* other is made after SleepqUnlock.  Either array is flushed when it is full.
Wake(t, c, S, rest) ==
    LET mine == {u \in S : m_owner[mutex_obj[u]] = t}
        deferred == defer_waiters[t] \cup mine
        others == S \ mine
    IN  /\ sq_blocked' = [sq_blocked EXCEPT ![c] = rest]
        /\ wchan' = Unqueued(S)
        /\ m_deferred' = m_deferred \cup {mutex_obj[u] : u \in mine}
        /\ \E keptD \in KeptSets(deferred), keptO \in KeptSets(others) :
              /\ defer_waiters' = [defer_waiters EXCEPT ![t] = keptD]
              /\ waddrs' = [waddrs EXCEPT ![t] = keptO]
              /\ wake_sema' = Released(Overflow(deferred, keptD) \cup Overflow(others, keptO))
        /\ Goto(t, "release")
        /\ UNCHANGED <<m_lock, m_owner, m_count, sc_lock, mutex_obj, will_sleep,
                       frame, depth>>

\* The locked section of Signal with no waiter to wake.
WakeNobody(t) ==
    /\ Return(t)
    /\ UNCHANGED <<mutexVars, queueVars, wakeVars, depth>>

Signal(t) ==
    LET c == frame[t].c
        q == sq_blocked[c]
        td == IF frame[t].td = None THEN q[1] ELSE frame[t].td
    IN  /\ pc[t] = "signal" /\ sc_lock[c] = None
        /\ \/ q = <<>> /\ WakeNobody(t)
           \/ /\ q # <<>> /\ td \in Elems(q)
              /\ Wake(t, c, {td}, Erase(q, td))
           \/ /\ q # <<>> /\ td \notin Elems(q)
              /\ Goto(t, "badtarget")
              /\ UNCHANGED <<mutexVars, queueVars, wakeVars, frame, depth>>

Broadcast(t) ==
    LET c == frame[t].c
        q == sq_blocked[c]
    IN  /\ pc[t] = "broadcast" /\ sc_lock[c] = None
        /\ \/ q = <<>> /\ WakeNobody(t)
           \/ q # <<>> /\ Wake(t, c, Elems(q), <<>>)

\* A release() made after SleepqUnlock.
Release(t) ==
    /\ pc[t] = "release"
    /\ \E u \in waddrs[t] :
          /\ wake_sema' = Released({u})
          /\ waddrs' = [waddrs EXCEPT ![t] = @ \ {u}]
    /\ UNCHANGED <<mutexVars, queueVars, will_sleep, defer_waiters, pc, frame, depth>>

\* A broadcast that returns before it has made all its releases.
ReleaseDoneEarly(t) ==
    /\ pc[t] = "release"
    /\ Return(t)
    /\ UNCHANGED <<mutexVars, queueVars, wakeVars, depth>>

ReleaseDone(t) ==
    /\ pc[t] = "release" /\ waddrs[t] = {}
    /\ Return(t)
    /\ UNCHANGED <<mutexVars, queueVars, wakeVars, depth>>

-----------------------------------------------------------------------------
\* What the guest chooses to call.
GuestCall(t) ==
    \/ \E m \in Mutexes : \/ Lock(t, m) \/ SelfLockRecursive(t, m)
                          \/ SelfLockNormal(t, m)
                          \/ UnlockNested(t, m) \/ Unlock(t, m)
    \/ \E c \in Conds, m \in Mutexes, timed \in BOOLEAN : Wait(t, c, m, timed)
    \/ \E c \in Conds, td \in Targets \cup {None} : SignalCall(t, c, td)
    \/ \E c \in Conds : BroadcastCall(t, c)

\* The rest of a call that has started.
Step(t) ==
    \/ LockGiveUp(t) \/ LockAcquire(t) \/ LockOwn(t)
    \/ UnlockRelease(t) \/ WakeAll(t) \/ UnlockReturn(t)
    \/ WaitEnqueue(t) \/ SleepFlush(t) \/ SleepBlock(t)
    \/ SleepAcquire(t) \/ SleepTimeout(t)
    \/ WaitCheck(t)
    \/ Signal(t) \/ Broadcast(t) \/ Release(t) \/ ReleaseDone(t)

Next == ~Halted /\ \E t \in Threads : GuestCall(t) \/ Step(t)

Spec == Init /\ [][Next]_vars

\* The host scheduler runs every thread that can run; it owes the guest no call.
Fairness == \A t \in Threads : WF_vars(~Halted /\ Step(t))
FairSpec == Spec /\ Fairness

-----------------------------------------------------------------------------
(* Properties                                                              *)

\* Every variable stays in its type.
TypeOK ==
    /\ m_lock \in [Mutexes -> Threads \cup {None}]
    /\ m_owner \in [Mutexes -> Threads \cup {None}]
    /\ m_count \in [Mutexes -> Nat]
    /\ m_deferred \in SUBSET Mutexes
    /\ sc_lock \in [Conds -> Threads \cup {None}]
    /\ sq_blocked \in [Conds -> Seq(Threads)]
    /\ wchan \in [Threads -> Conds \cup {None}]
    /\ mutex_obj \in [Threads -> Mutexes \cup {None}]
    /\ wake_sema \in [Threads -> Nat]
    /\ will_sleep \in [Threads -> BOOLEAN]
    /\ defer_waiters \in [Threads -> SUBSET Threads]
    /\ waddrs \in [Threads -> SUBSET Threads]
    /\ pc \in [Threads -> PCs]
    /\ frame \in [Threads -> Frames]
    /\ depth \in [Threads -> [Mutexes -> Nat]]

\* m_owner, which Unlock, Wait and Signal trust without holding m_lock, never
\* names a thread that does not hold m_lock, and two threads never both believe
\* that they own a mutex (depth counts the locks the guest was granted).
MutualExclusion ==
    \A m \in Mutexes :
        /\ m_owner[m] # None => m_lock[m] = m_owner[m]
        /\ \A t, u \in Threads :
              (pc[t] = "run" /\ pc[u] = "run" /\ depth[t][m] > 0 /\ depth[u][m] > 0)
                  => t = u

\* The guest unlocks a mutex exactly as often as it locked it: m_count agrees with
\* the guest's own nesting, also after a wait that gave up a nested lock.
RecursionRestored ==
    \A t \in Threads, m \in Mutexes :
        pc[t] = "run" => depth[t][m] = IF m_owner[m] = t THEN m_count[m] + 1 ELSE 0

\* A waiter taken off the queue is woken: until it leaves Sleep there is a token
\* in its semaphore, or a release of it that some thread still has to make.
WakeNotLost ==
    \A t \in Threads :
        (pc[t] \in {"cvflush", "cvwake", "cvsleep"} /\ wchan[t] = None)
            => \/ wake_sema[t] > 0
               \/ \E u \in Threads : t \in defer_waiters[u] \cup waddrs[u]

\* A thread keeps deferred wake-ups only while it owns a mutex whose unlock will
\* make them, or while it is on its way to making them.
DeferredIsFlushed ==
    \A t \in Threads :
        defer_waiters[t] # {} =>
            \/ \E m \in m_deferred : m_owner[m] = t
            \/ pc[t] = "unlock" /\ frame[t].deferred
            \/ pc[t] \in {"wakeall", "cvadd", "cvflush", "cvwake"}

\* defer_waiters never holds a thread twice: a thread whose wake-up a caller of
\* Signal still defers cannot be on a queue again, because it first needs the mutex
\* whose unlock makes that wake-up.
NoDoubleDefer ==
    \A t, u \in Threads :
        (pc[t] \in {"run", "signal", "broadcast"} /\ u \in defer_waiters[t])
            => wchan[u] = None

\* UNREACHABLE() in PthreadCond::Wait: a thread woken from Sleep without a timeout
\* is no longer on the queue.
WaitNeverUnreachable == \A t \in Threads : pc[t] # "unreachable"

\* Wait, Signal and Broadcast keep the promises of Monitor: a signal that comes
\* after the waiter's mutex was given up is never lost, although the mutex is
\* unlocked before the waiter is on the queue, and no timeout hides a signal.
\* A thread waits from the moment m_lock is unlocked until it leaves the queue.
InWait(t) == pc[t] \in {"cvadd", "cvflush", "cvwake", "cvsleep", "cvcheck", "unreachable"}
             \/ (pc[t] = "lock" /\ frame[t].c # None)
WaitStatus(t) ==
    IF ~InWait(t) THEN "idle"
    ELSE IF pc[t] = "lock" THEN IF frame[t].error = "ok" THEN "signalled" ELSE "timedout"
    ELSE IF pc[t] = "cvadd" \/ wchan[t] # None THEN "waiting" ELSE "signalled"
WaitOf(t) == [c |-> IF InWait(t) THEN frame[t].c ELSE None,
              m |-> IF InWait(t) THEN frame[t].m ELSE None]
RequestOf(t) ==
    LET asked == pc[t] \in {"signal", "broadcast", "badtarget"}
    IN  [all |-> pc[t] = "broadcast", c |-> IF asked THEN frame[t].c ELSE None,
         td |-> IF asked THEN frame[t].td ELSE None]

Promise == INSTANCE Monitor WITH
    holder <- m_lock,
    status <- [t \in Threads |-> WaitStatus(t)],
    wait <- [t \in Threads |-> WaitOf(t)],
    request <- [t \in Threads |-> RequestOf(t)]
RefinesMonitor == Promise!Spec

\* A wake-up that the guest no longer holds back arrives: once Signal or Broadcast
\* was called without the waiter's mutex, or that mutex is being unlocked or given
\* up in a wait, the waiter's sleep ends.
Delivering(t) ==
    /\ pc[t] = "cvsleep" /\ wchan[t] = None
    /\ \/ wake_sema[t] > 0
       \/ \E u \in Threads :
             \/ t \in waddrs[u]
             \/ /\ t \in defer_waiters[u]
                /\ \/ pc[u] \in {"wakeall", "cvadd", "cvflush", "cvwake"}
                   \/ pc[u] = "unlock" /\ frame[u].deferred
SignalDelivered == \A t \in Threads : Delivering(t) ~> (pc[t] # "cvsleep" \/ Halted)

-----------------------------------------------------------------------------
(* The inductive invariant                                                 *)

CvPCs == {"cvadd", "cvflush", "cvwake", "cvsleep", "cvcheck", "unreachable"}
SleepPCs == {"cvflush", "cvwake", "cvsleep", "cvcheck", "unreachable"}

\* A thread inside PthreadCond::Wait whose m_owner is given up.
GaveUp(t) == pc[t] \in CvPCs \/ (pc[t] \in {"unlock", "lock", "own"} /\ frame[t].c # None)

\* The arguments a call in progress needs are there.
FrameInv ==
    \A t \in Threads :
        /\ pc[t] \in {"lock", "own", "unlock"} \cup CvPCs => frame[t].m # None
        /\ pc[t] \in {"signal", "broadcast"} \cup CvPCs => frame[t].c # None

\* m_owner is set while m_lock is held, and cleared first.
OwnerInv ==
    /\ \A m \in Mutexes : m_owner[m] # None => m_lock[m] = m_owner[m]
    /\ \A t \in Threads : pc[t] \in {"own", "unlock"} =>
          m_lock[frame[t].m] = t /\ m_owner[frame[t].m] = None

\* The nesting the guest knows of is in m_count, or saved by a wait.
DepthInv ==
    /\ \A m \in Mutexes : m_owner[m] = None => m_count[m] = 0
    /\ \A m \in Mutexes : MutexType[m] # "Recursive" => m_count[m] = 0
    /\ \A t \in Threads : GaveUp(t) /\ MutexType[frame[t].m] # "Recursive" =>
          frame[t].recurse = 0
    /\ \A t \in Threads, m \in Mutexes :
          depth[t][m] = IF m_owner[m] = t THEN m_count[m] + 1
                        ELSE IF GaveUp(t) /\ frame[t].m = m THEN frame[t].recurse + 1
                        ELSE 0

\* The sleep queue's lock is held from before m_lock is unlocked until the waiter
\* is on the queue.
ChainInv ==
    \A t \in Threads :
        pc[t] = "cvadd" \/ (pc[t] = "unlock" /\ frame[t].c # None)
            => sc_lock[frame[t].c] = t

\* The queue of c holds, once each, the threads whose wchan is c.
QueueInv ==
    \A c \in Conds :
        /\ \A i, j \in DOMAIN sq_blocked[c] : sq_blocked[c][i] = sq_blocked[c][j] => i = j
        /\ \A t \in Threads : wchan[t] = c <=> t \in Elems(sq_blocked[c])

\* A thread on a queue is in Wait, on the queue and with the mutex of that wait.
WaiterInv ==
    \A t \in Threads :
        wchan[t] # None => pc[t] \in SleepPCs /\ wchan[t] = frame[t].c /\ mutex_obj[t] = frame[t].m

\* will_sleep is set exactly from the start of Wait to the start of Sleep, and the
\* releases after SleepqUnlock are made by the call that found them.
FlagInv ==
    \A t \in Threads :
        /\ will_sleep[t] <=> (pc[t] \in {"cvadd", "cvflush"}
                                \/ (pc[t] = "unlock" /\ frame[t].c # None))
        /\ pc[t] # "release" => waddrs[t] = {}

IInv == /\ TypeOK /\ FrameInv /\ OwnerInv /\ DepthInv /\ ChainInv
        /\ QueueInv /\ WaiterInv /\ FlagInv /\ WakeNotLost /\ DeferredIsFlushed
=============================================================================
