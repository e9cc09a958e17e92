---------------------------- MODULE ThreadState ----------------------------
(***************************************************************************)
(* Life and death of guest threads: pthread_create, exit, join and detach  *)
(* (threads/pthread.cpp) over the thread lists, reference counts and       *)
(* garbage collection of ThreadState (threads/thread_state.cpp).           *)
(*                                                                         *)
(* A Pthread object is a slot: it is allocated, linked, unlinked, freed    *)
(* and used again for another thread while host threads still hold         *)
(* pointers to it.  Every pc other than "run" is a point inside a call;    *)
(* calls that return an error and change nothing are stuttering steps.     *)
(* The main thread does not call pthread_exit.                             *)
(***************************************************************************)
EXTENDS Integers, FiniteSets

CONSTANTS
    Hosts,             \* host threads
    Main,              \* the host thread that runs the guest's main thread
    Slots,             \* Pthread objects of thread_heap
    MainSlot,          \* g_curthread of Main
    None,              \* nullptr
    GcThreshold,       \* ThreadState::GcThreshold (5)
    MaxCachedThreads,  \* ThreadState::MaxCachedThreads (100)
    MaxThreads         \* ThreadState::MaxThreads (100000)

ASSUME HostAssumption == Main \in Hosts /\ None \notin Hosts
ASSUME SlotAssumption == MainSlot \in Slots /\ None \notin Slots
ASSUME BoundAssumption ==
    GcThreshold \in Nat /\ MaxCachedThreads \in Nat /\ MaxThreads \in Nat \ {0}

VARIABLES
    pc,             \* where each host thread is; "off": it does not run
    cur,            \* g_curthread of each host thread
    arg,            \* the Pthread* the call in progress works on
    work_list,      \* work_list of Collect
    list_lock,      \* holder of thread_list_lock
    threads, gc_list, free_threads, heap,  \* the lists of ThreadState
    total_threads,  \* total_threads
    tid,            \* Pthread::tid: "live" or "terminated" (TidTerminated)
    dead,           \* slots whose state is PthreadState::Dead
    refcount,       \* Pthread::refcount
    detached,       \* slots whose flags hold Detached
    joiner,         \* Pthread::joiner
    lock,           \* holder of Pthread::lock
    native,         \* slots whose native_thr.native_handle is set
    stale           \* ghost: host threads using a Pthread that was freed

hostVars == <<pc, cur, arg, work_list>>
listVars == <<threads, gc_list, free_threads, heap, total_threads>>
slotVars == <<tid, dead, refcount, detached, joiner, lock, native>>
vars == <<pc, cur, arg, work_list, list_lock, threads, gc_list, free_threads,
          heap, total_threads, tid, dead, refcount, detached, joiner, lock,
          native, stale>>

PCs == {"off", "run", "create_free", "create_alloc", "create_link",
        "create_native", "find_join", "find_detach", "find_ref", "join_wait",
        "ref_held", "collect_list", "collect_thread", "collect_unlock",
        "exit_term", "exit_native", "unreachable"}

\* UNREACHABLE after NativeThread::Exit ends the process.
Halted == \E h \in Hosts : pc[h] = "unreachable"

Goto(h, l) == pc' = [pc EXCEPT ![h] = l]
Return(h) == Goto(h, "run") /\ arg' = [arg EXCEPT ![h] = None]

Init ==
    /\ pc = [h \in Hosts |-> IF h = Main THEN "run" ELSE "off"]
    /\ cur = [h \in Hosts |-> IF h = Main THEN MainSlot ELSE None]
    /\ arg = [h \in Hosts |-> None]
    /\ work_list = [h \in Hosts |-> {}]
    /\ list_lock = None
    /\ threads = {MainSlot}
    /\ gc_list = {} /\ free_threads = {}
    /\ heap = Slots \ {MainSlot}
    /\ total_threads = 1
    /\ tid = [p \in Slots |-> "live"]
    /\ dead = {}
    /\ refcount = [p \in Slots |-> IF p = MainSlot THEN 1 ELSE 0]
    /\ detached = {}
    /\ joiner = [p \in Slots |-> None]
    /\ lock = [p \in Slots |-> None]
    /\ native = {MainSlot}
    /\ stale = {}

-----------------------------------------------------------------------------
(* pthread_create: Alloc with Collect and Free, Link, NativeThread::Create *)

GcNeeded == Cardinality(gc_list) >= GcThreshold

\* A Collect that does not wait for TidTerminated.
CreateCollectAll(h) ==
    /\ pc[h] = "run" /\ GcNeeded
    /\ list_lock = None
    /\ gc_list' = {}
    /\ work_list' = [work_list EXCEPT ![h] = gc_list]
    /\ Goto(h, "create_free")
    /\ UNCHANGED <<cur, arg, list_lock, threads, free_threads, heap,
                   total_threads, slotVars, stale>>

\* Collect, up to the release of thread_list_lock.
CreateCollect(h) ==
    LET terminated == {p \in gc_list : tid[p] = "terminated"}
    IN  /\ pc[h] = "run" /\ GcNeeded
        /\ list_lock = None
        /\ gc_list' = gc_list \ terminated
        /\ work_list' = [work_list EXCEPT ![h] = terminated]
        /\ Goto(h, "create_free")
        /\ UNCHANGED <<cur, arg, list_lock, threads, free_threads, heap,
                       total_threads, slotVars, stale>>

\* A Free that also counts down for a spare thread.
FreeCountsSpare(h, p) ==
    LET cached == Cardinality(free_threads) < MaxCachedThreads
    IN  /\ pc[h] = "create_free" /\ p \in work_list[h]
        /\ work_list' = [work_list EXCEPT ![h] = @ \ {p}]
        /\ free_threads' = IF cached THEN free_threads \cup {p} ELSE free_threads
        /\ heap' = IF cached THEN heap ELSE heap \cup {p}
        /\ total_threads' = total_threads - 1
        /\ stale' = stale \cup {g \in Hosts : p \in {cur[g], arg[g]}}
        /\ UNCHANGED <<pc, cur, arg, list_lock, threads, gc_list, slotVars>>

\* Free: destroy_at leaves the memory as it was.
Free(h, p) ==
    LET cached == Cardinality(free_threads) < MaxCachedThreads
    IN  /\ pc[h] = "create_free" /\ p \in work_list[h]
        /\ work_list' = [work_list EXCEPT ![h] = @ \ {p}]
        /\ free_threads' = IF cached THEN free_threads \cup {p} ELSE free_threads
        /\ heap' = IF cached THEN heap ELSE heap \cup {p}
        /\ total_threads' = IF cached THEN total_threads ELSE total_threads - 1
        /\ stale' = stale \cup {g \in Hosts : p \in {cur[g], arg[g]}}
        /\ UNCHANGED <<pc, cur, arg, list_lock, threads, gc_list, slotVars>>

\* Where Alloc begins.
AtAlloc(h) ==
    \/ pc[h] = "run" /\ ~GcNeeded
    \/ pc[h] = "create_free" /\ work_list[h] = {}

\* Alloc finds no spare thread and compares total_threads, without a lock.
AllocTest(h) ==
    /\ AtAlloc(h)
    /\ free_threads = {} /\ total_threads <= MaxThreads
    /\ Goto(h, "create_alloc")
    /\ UNCHANGED <<cur, arg, work_list, list_lock, listVars, slotVars, stale>>

\* Alloc: the spare thread, or one from the heap; then memset and construct_at,
\* and the fields that pthread_create fills in.  TcbCtor (malloc) and CreateStack
\* (which asserts on an error of MapMemory) are taken to succeed.
Alloc(h, p, isDetached) ==
    LET spare == p \in free_threads
    IN  /\ \/ AtAlloc(h) /\ spare
           \/ pc[h] = "create_alloc" /\ p \in heap
        /\ free_threads' = free_threads \ {p}
        /\ heap' = heap \ {p}
        /\ total_threads' = IF spare THEN total_threads ELSE total_threads + 1
        /\ tid' = [tid EXCEPT ![p] = "live"]
        /\ dead' = dead \ {p}
        /\ refcount' = [refcount EXCEPT ![p] = 1]
        /\ detached' = IF isDetached THEN detached \cup {p} ELSE detached \ {p}
        /\ joiner' = [joiner EXCEPT ![p] = None]
        /\ lock' = [lock EXCEPT ![p] = None]
        /\ native' = native \ {p}
        /\ arg' = [arg EXCEPT ![h] = p]
        /\ Goto(h, "create_link")
        /\ UNCHANGED <<cur, work_list, list_lock, threads, gc_list, stale>>

\* EAGAIN: there is no Pthread to be had.
AllocFails(h) ==
    /\ \/ /\ pc[h] = "create_free" /\ work_list[h] = {}
          /\ free_threads = {} /\ total_threads > MaxThreads
       \/ pc[h] = "create_alloc" /\ heap = {}
    /\ Return(h)
    /\ UNCHANGED <<cur, work_list, list_lock, listVars, slotVars, stale>>

Link(h) ==
    /\ pc[h] = "create_link" /\ list_lock = None
    /\ threads' = threads \cup {arg[h]}
    /\ Goto(h, "create_native")
    /\ UNCHANGED <<cur, arg, work_list, list_lock, gc_list, free_threads, heap,
                   total_threads, slotVars, stale>>

\* native_thr.Create: g starts in RunThread.
CreateNative(h, g) ==
    /\ pc[h] = "create_native" /\ pc[g] = "off"
    /\ native' = native \cup {arg[h]}
    /\ pc' = [pc EXCEPT ![h] = "run", ![g] = "run"]
    /\ cur' = [cur EXCEPT ![g] = arg[h]]
    /\ arg' = [arg EXCEPT ![h] = None]
    /\ stale' = stale \ {g}
    /\ UNCHANGED <<work_list, list_lock, listVars, tid, dead, refcount,
                   detached, joiner, lock>>

-----------------------------------------------------------------------------
(* TryCollect                                                              *)

\* A TryCollect that takes no reference before it lets go of the lock.
TryCollectNoRef(h, p, refs, isDead, isDetached) ==
    LET collect == refs = 0 /\ isDead /\ isDetached
    IN  /\ refcount' = [refcount EXCEPT ![p] = refs]
        /\ Goto(h, IF collect THEN "collect_list"
                   ELSE IF p = cur[h] /\ isDead THEN "exit_term" ELSE "run")
        /\ arg' = [arg EXCEPT ![h] = IF collect THEN p ELSE None]

\* TryCollect entered with the lock of p held and the new fields as given.  Ends
\* the call, or goes on without the lock but with one more reference.
TryCollect(h, p, refs, isDead, isDetached) ==
    LET collect == refs = 0 /\ isDead /\ isDetached
        l == IF collect THEN "collect_list"
             ELSE IF p = cur[h] /\ isDead THEN "exit_term" ELSE "run"
    IN  /\ refcount' = [refcount EXCEPT ![p] = IF collect THEN 1 ELSE refs]
        /\ Goto(h, l)
        /\ arg' = [arg EXCEPT ![h] = IF collect THEN p ELSE None]

CollectList(h) ==
    /\ pc[h] = "collect_list" /\ list_lock = None
    /\ list_lock' = h
    /\ Goto(h, "collect_thread")
    /\ UNCHANGED <<cur, arg, work_list, listVars, slotVars, stale>>

\* A TryCollect that leaves the thread linked.
CollectThreadKept(h) ==
    LET p == arg[h]
    IN  /\ pc[h] = "collect_thread" /\ lock[p] = None
        /\ lock' = [lock EXCEPT ![p] = h]
        /\ refcount' = [refcount EXCEPT ![p] = @ - 1]
        /\ gc_list' = gc_list \cup {p}
        /\ list_lock' = None
        /\ Goto(h, "collect_unlock")
        /\ UNCHANGED <<cur, arg, work_list, threads, free_threads, heap,
                       total_threads, tid, dead, detached, joiner, native, stale>>

\* thread_list_lock is released at the end of the scope, before thread->lock.
CollectThread(h) ==
    LET p == arg[h]
        collect == refcount[p] = 1 /\ p \in dead /\ p \in detached
    IN  /\ pc[h] = "collect_thread" /\ lock[p] = None
        /\ lock' = [lock EXCEPT ![p] = h]
        /\ refcount' = [refcount EXCEPT ![p] = @ - 1]
        /\ threads' = IF collect THEN threads \ {p} ELSE threads
        /\ gc_list' = IF collect THEN gc_list \cup {p} ELSE gc_list
        /\ list_lock' = None
        /\ Goto(h, "collect_unlock")
        /\ UNCHANGED <<cur, arg, work_list, free_threads, heap, total_threads,
                       tid, dead, detached, joiner, native, stale>>

CollectUnlock(h) ==
    /\ pc[h] = "collect_unlock"
    /\ lock' = [lock EXCEPT ![arg[h]] = None]
    /\ Goto(h, IF arg[h] = cur[h] THEN "exit_term" ELSE "run")
    /\ arg' = [arg EXCEPT ![h] = None]
    /\ stale' = stale \ {h}
    /\ UNCHANGED <<cur, work_list, list_lock, listVars, tid, dead, refcount,
                   detached, joiner, native>>

-----------------------------------------------------------------------------
(* ExitThread                                                              *)

Exit(h) ==
    LET p == cur[h]
    IN  /\ pc[h] = "run" /\ h # Main
        /\ lock[p] = None
        /\ dead' = dead \cup {p}
        /\ TryCollect(h, p, refcount[p] - 1, TRUE, p \in detached)
        /\ UNCHANGED <<cur, work_list, list_lock, listVars, tid, detached,
                       joiner, lock, native, stale>>

ExitTerm(h) ==
    /\ pc[h] = "exit_term"
    /\ tid' = [tid EXCEPT ![cur[h]] = "terminated"]
    /\ Goto(h, "exit_native")
    /\ UNCHANGED <<cur, arg, work_list, list_lock, listVars, dead, refcount,
                   detached, joiner, lock, native, stale>>

\* NativeThread::Exit returns if there is no native_handle.
ExitNative(h) ==
    /\ pc[h] = "exit_native"
    /\ \/ /\ cur[h] \in native
          /\ Goto(h, "off")
          /\ cur' = [cur EXCEPT ![h] = None]
          /\ stale' = stale \ {h}
       \/ /\ cur[h] \notin native
          /\ Goto(h, "unreachable")
          /\ UNCHANGED <<cur, stale>>
    /\ UNCHANGED <<arg, work_list, list_lock, listVars, slotVars>>

-----------------------------------------------------------------------------
(* FindThread and the calls that start with it                             *)

\* FindThread, up to thread->lock.lock(), which waits with thread_list_lock held.
Find(h, p, call) ==
    /\ pc[h] = "run" /\ list_lock = None
    /\ p \in threads
    /\ list_lock' = h
    /\ arg' = [arg EXCEPT ![h] = p]
    /\ Goto(h, call)
    /\ UNCHANGED <<cur, work_list, listVars, slotVars, stale>>

\* JoinThread, up to tid.wait.
FindJoin(h) ==
    LET p == arg[h]
    IN  /\ pc[h] = "find_join" /\ lock[p] = None
        /\ list_lock' = None
        /\ \/ /\ p \in detached \/ joiner[p] # None
              /\ Return(h)
              /\ UNCHANGED joiner
           \/ /\ p \notin detached /\ joiner[p] = None
              /\ joiner' = [joiner EXCEPT ![p] = cur[h]]
              /\ Goto(h, "join_wait")
              /\ UNCHANGED arg
        /\ UNCHANGED <<cur, work_list, listVars, tid, dead, refcount, detached,
                       lock, native, stale>>

\* A join that does not collect the thread.
JoinDoneNoCollect(h) ==
    LET p == arg[h]
    IN  /\ pc[h] = "join_wait" /\ tid[p] = "terminated"
        /\ lock[p] = None
        /\ detached' = detached \cup {p}
        /\ joiner' = [joiner EXCEPT ![p] = None]
        /\ Return(h)
        /\ UNCHANGED <<cur, work_list, list_lock, listVars, tid, dead, refcount,
                       lock, native, stale>>

\* The rest of JoinThread.
JoinDone(h) ==
    LET p == arg[h]
    IN  /\ pc[h] = "join_wait" /\ tid[p] = "terminated"
        /\ lock[p] = None
        /\ detached' = detached \cup {p}
        /\ joiner' = [joiner EXCEPT ![p] = None]
        /\ TryCollect(h, p, refcount[p], p \in dead, TRUE)
        /\ UNCHANGED <<cur, work_list, list_lock, listVars, tid, dead, lock,
                       native, stale>>

\* A detach that does not look for a joiner.
FindDetachJoined(h) ==
    LET p == arg[h]
    IN  /\ pc[h] = "find_detach" /\ lock[p] = None
        /\ list_lock' = None
        /\ detached' = detached \cup {p}
        /\ TryCollect(h, p, refcount[p], p \in dead, TRUE)
        /\ UNCHANGED <<cur, work_list, listVars, tid, dead, joiner, lock,
                       native, stale>>

FindDetach(h) ==
    LET p == arg[h]
    IN  /\ pc[h] = "find_detach" /\ lock[p] = None
        /\ list_lock' = None
        /\ \/ /\ p \in detached \/ joiner[p] # None
              /\ Return(h)
              /\ UNCHANGED <<detached, refcount>>
           \/ /\ p \notin detached /\ joiner[p] = None
              /\ detached' = detached \cup {p}
              /\ TryCollect(h, p, refcount[p], p \in dead, TRUE)
        /\ UNCHANGED <<cur, work_list, listVars, tid, dead, joiner, lock,
                       native, stale>>

\* RefAdd, without dead threads.
FindRef(h) ==
    LET p == arg[h]
    IN  /\ pc[h] = "find_ref" /\ lock[p] = None
        /\ list_lock' = None
        /\ \/ p \in dead /\ Return(h) /\ UNCHANGED refcount
           \/ /\ p \notin dead
              /\ refcount' = [refcount EXCEPT ![p] = @ + 1]
              /\ Goto(h, "ref_held") /\ UNCHANGED arg
        /\ UNCHANGED <<cur, work_list, listVars, tid, dead, detached, joiner,
                       lock, native, stale>>

RefDelete(h) ==
    LET p == arg[h]
    IN  /\ pc[h] = "ref_held" /\ lock[p] = None
        /\ TryCollect(h, p, refcount[p] - 1, p \in dead, p \in detached)
        /\ UNCHANGED <<cur, work_list, list_lock, listVars, tid, dead, detached,
                       joiner, lock, native, stale>>

-----------------------------------------------------------------------------
\* What the guest chooses to call.  JoinThread refuses the caller itself, and the
\* callers of RefAdd treat the caller itself without a reference.
GuestCall(h) ==
    \/ CreateCollect(h)
    \/ pc[h] = "run" /\ (AllocTest(h) \/ \E p \in Slots, d \in BOOLEAN : Alloc(h, p, d))
    \/ Exit(h)
    \/ \E p \in Slots \ {cur[h]} : Find(h, p, "find_join") \/ Find(h, p, "find_ref")
    \/ \E p \in Slots : Find(h, p, "find_detach")

\* The rest of a call that has started.
Step(h) ==
    \/ \E p \in Slots : Free(h, p)
    \/ pc[h] # "run" /\ (AllocTest(h) \/ \E p \in Slots, d \in BOOLEAN : Alloc(h, p, d))
    \/ AllocFails(h) \/ Link(h)
    \/ \E g \in Hosts : CreateNative(h, g)
    \/ CollectList(h) \/ CollectThread(h) \/ CollectUnlock(h)
    \/ ExitTerm(h) \/ ExitNative(h)
    \/ FindJoin(h) \/ JoinDone(h) \/ FindDetach(h) \/ FindRef(h) \/ RefDelete(h)

Next == ~Halted /\ \E h \in Hosts : GuestCall(h) \/ Step(h)

Spec == Init /\ [][Next]_vars

\* The host scheduler runs every host thread that can run.
Fairness == \A h \in Hosts : WF_vars(~Halted /\ Step(h))
FairSpec == Spec /\ Fairness

-----------------------------------------------------------------------------
(* Properties                                                              *)

\* Every variable stays in its type.
TypeOK ==
    /\ pc \in [Hosts -> PCs]
    /\ cur \in [Hosts -> Slots \cup {None}]
    /\ arg \in [Hosts -> Slots \cup {None}]
    /\ work_list \in [Hosts -> SUBSET Slots]
    /\ list_lock \in Hosts \cup {None}
    /\ threads \in SUBSET Slots /\ gc_list \in SUBSET Slots
    /\ free_threads \in SUBSET Slots /\ heap \in SUBSET Slots
    /\ total_threads \in Nat
    /\ tid \in [Slots -> {"live", "terminated"}]
    /\ dead \in SUBSET Slots
    /\ refcount \in [Slots -> Nat]
    /\ detached \in SUBSET Slots
    /\ joiner \in [Slots -> Slots \cup {None}]
    /\ lock \in [Slots -> Hosts \cup {None}]
    /\ native \in SUBSET Slots
    /\ stale \in SUBSET Hosts

\* A Pthread is in one place only: linked, waiting for the collector, in the work
\* list of one collector, a spare, in the heap, or private to its creator.  So it
\* is collected once, freed once and never handed to two creators.
OwnedOnce ==
    \A p \in Slots :
        LET lists == {i \in 1..4 : p \in <<threads, gc_list, free_threads, heap>>[i]}
            collectors == {h \in Hosts : p \in work_list[h]}
            creators == {h \in Hosts : pc[h] = "create_link" /\ arg[h] = p}
        IN  Cardinality(lists) + Cardinality(collectors) + Cardinality(creators) = 1

\* The references TryCollect decides by are the ones that exist: one of the running
\* thread, one of each RefAdd, one of each TryCollect that let go of the lock.
Referrers(p) ==
    {h \in Hosts : arg[h] = p /\ pc[h] \in {"ref_held", "collect_list", "collect_thread"}}
RefCountExact ==
    \A p \in threads :
        refcount[p] = Cardinality(Referrers(p)) + (IF p \in dead THEN 0 ELSE 1)

\* A Pthread is not freed under a host thread that runs on it, waits to join it,
\* or holds a reference to it.  Left out are the two places where the code gives
\* up its protection early: the end of ExitThread, after tid is TidTerminated, and
\* the unlock at the end of TryCollect of another thread.
NoUseAfterFree ==
    \A h \in stale :
        \/ pc[h] \in {"exit_native", "unreachable"}
        \/ pc[h] = "collect_unlock" /\ arg[h] # cur[h]

\* A thread has at most one joiner, and until that joiner has seen it terminate it
\* can be neither detached nor collected.
JoinProtects ==
    \A h \in Hosts :
        pc[h] = "join_wait" =>
            /\ joiner[arg[h]] = cur[h]
            /\ arg[h] \in threads \ detached

\* UNREACHABLE() at the end of ExitThread ("Never reach!"): native_thr.Exit ends
\* the host thread.
NeverReach == \A h \in Hosts : pc[h] # "unreachable"

\* A dead, detached thread is unlinked once the guest makes no more calls: no
\* interleaving of exit, join, detach and references leaves it behind.
GuestIsQuiet == <>[][~\E h \in Hosts : GuestCall(h)]_vars
Reclaimed ==
    GuestIsQuiet =>
        \A p \in Slots : p \in threads \cap dead \cap detached ~> (p \notin threads \/ Halted)
=============================================================================
