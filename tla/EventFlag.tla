----------------------------- MODULE EventFlag -----------------------------
(***************************************************************************)
(* The kernel event flag (class EventFlagInternal, threads/event_flag.cpp) *)
(* on a host mutex and condition variable.  A section under m_mutex is one *)
(* step.  Set, Clear and Cancel poll until m_status is Set, and Cancel     *)
(* polls until no thread waits; a poll that finds nothing is a stuttering  *)
(* step.  Status::Deleted is never stored by the code.  Wait that returns  *)
(* EPERM changes nothing.                                                  *)
(***************************************************************************)
EXTENDS Integers, FiniteSets

CONSTANTS
    Threads,     \* guest threads
    Bits,        \* the bits of m_bits
    InitBits,    \* initPattern
    GuestWaits   \* the Wait and Poll calls the guest makes

VARIABLES
    m_bits,             \* m_bits
    m_status,           \* m_status
    m_thread_mode,      \* m_thread_mode, from the attribute given to the creation
    m_waiting_threads,  \* m_waiting_threads
    pc,                 \* where each thread is, see PCs
    call,               \* the arguments of Wait of each thread
    doomed              \* ghost: threads that waited when Cancel began

vars == <<m_bits, m_status, m_thread_mode, m_waiting_threads, pc, call, doomed>>

WaitModes == {"And", "Or"}
ClearModes == {"None", "All", "Bits"}

\* In m_cond_var a thread is blocked; it leaves it awake (notified or spuriously) or
\* expired (its timeout is over), and then needs m_mutex to go on.
PCs == {"run", "blocked", "awake", "expired", "cancel"}

\* timed: ptr_micros is not null (Poll waits for 0 microseconds).
Calls == [bits : SUBSET Bits, wait_mode : WaitModes, clear_mode : ClearModes,
          timed : BOOLEAN]
Call(bits, wait_mode, clear_mode, timed) ==
    [bits |-> bits, wait_mode |-> wait_mode, clear_mode |-> clear_mode, timed |-> timed]
NoCall == Call({}, "And", "None", FALSE)

\* sceKernelWaitEventFlag and sceKernelPollEventFlag refuse an empty pattern.
ASSUME FlagAssumption ==
    /\ InitBits \subseteq Bits
    /\ GuestWaits \subseteq {c \in Calls : c.bits # {}}

Init ==
    /\ m_bits = InitBits
    /\ m_status = "Set"
    /\ m_thread_mode \in {"Single", "Multi"}
    /\ m_waiting_threads = 0
    /\ pc = [t \in Threads |-> "run"]
    /\ call = [t \in Threads |-> NoCall]
    /\ doomed = {}

-----------------------------------------------------------------------------
(* Wait and Poll                                                           *)

\* Mutant of WaitFunc: the status is not looked at.
WaitFuncBitsOnly(c) ==
    \/ c.wait_mode = "And" /\ c.bits \subseteq m_bits
    \/ c.wait_mode = "Or" /\ c.bits \cap m_bits # {}

\* waitFunc of Wait.
WaitFunc(c) ==
    \/ m_status = "Canceled"
    \/ c.wait_mode = "And" /\ c.bits \subseteq m_bits
    \/ c.wait_mode = "Or" /\ c.bits \cap m_bits # {}

\* m_bits at the end of a Wait whose waitFunc holds.
Cleared(c) ==
    IF m_status = "Canceled" \/ c.clear_mode = "None" THEN m_bits
    ELSE IF c.clear_mode = "All" THEN {} ELSE m_bits \ c.bits

\* EPERM otherwise.
MayWait == m_thread_mode = "Multi" \/ m_waiting_threads = 0

\* waitFunc holds at once.
WaitNow(t, c) ==
    /\ pc[t] = "run" /\ MayWait
    /\ WaitFunc(c)
    /\ m_bits' = Cleared(c)
    /\ UNCHANGED <<m_thread_mode, m_status, m_waiting_threads, pc, call, doomed>>

WaitBlock(t, c) ==
    /\ pc[t] = "run" /\ MayWait
    /\ ~WaitFunc(c)
    /\ m_waiting_threads' = m_waiting_threads + 1
    /\ call' = [call EXCEPT ![t] = c]
    /\ pc' = [pc EXCEPT ![t] = "blocked"]
    /\ UNCHANGED <<m_thread_mode, m_bits, m_status, doomed>>

\* The condition variable wakes a thread without a notification, ...
Spurious(t) ==
    /\ pc[t] = "blocked"
    /\ pc' = [pc EXCEPT ![t] = "awake"]
    /\ UNCHANGED <<m_thread_mode, m_bits, m_status, m_waiting_threads, call, doomed>>

\* ... or because its time is over.
Timeout(t) ==
    /\ pc[t] = "blocked" /\ call[t].timed
    /\ pc' = [pc EXCEPT ![t] = "expired"]
    /\ UNCHANGED <<m_thread_mode, m_bits, m_status, m_waiting_threads, call, doomed>>

\* A thread that left the condition variable has m_mutex again: it finds waitFunc
\* true (looked at once more after a timeout), ...
WaitEnd(t) ==
    /\ pc[t] \in {"awake", "expired"} /\ WaitFunc(call[t])
    /\ m_waiting_threads' = m_waiting_threads - 1
    /\ m_bits' = Cleared(call[t])
    /\ doomed' = IF m_status = "Canceled" THEN doomed \ {t} ELSE doomed
    /\ pc' = [pc EXCEPT ![t] = "run"]
    /\ call' = [call EXCEPT ![t] = NoCall]
    /\ UNCHANGED <<m_status, m_thread_mode>>

\* Mutant of WaitTimedOut: the early return forgets --m_waiting_threads.
WaitTimedOutCounted(t) ==
    /\ pc[t] = "expired" /\ ~WaitFunc(call[t])
    /\ pc' = [pc EXCEPT ![t] = "run"]
    /\ call' = [call EXCEPT ![t] = NoCall]
    /\ UNCHANGED <<m_thread_mode, m_waiting_threads, m_bits, m_status, doomed>>

\* ... or returns ETIMEDOUT, ...
WaitTimedOut(t) ==
    /\ pc[t] = "expired" /\ ~WaitFunc(call[t])
    /\ m_waiting_threads' = m_waiting_threads - 1
    /\ pc' = [pc EXCEPT ![t] = "run"]
    /\ call' = [call EXCEPT ![t] = NoCall]
    /\ UNCHANGED <<m_thread_mode, m_bits, m_status, doomed>>

\* ... or waits on.
WaitAgain(t) ==
    /\ pc[t] = "awake" /\ ~WaitFunc(call[t])
    /\ pc' = [pc EXCEPT ![t] = "blocked"]
    /\ UNCHANGED <<m_thread_mode, m_bits, m_status, m_waiting_threads, call, doomed>>

-----------------------------------------------------------------------------
(* Set, Clear and Cancel                                                   *)

\* Mutant of Notified: notify_one.
NotifiedOne(f) ==
    IF \A t \in Threads : f[t] # "blocked" THEN f
    ELSE [f EXCEPT ![CHOOSE t \in Threads : f[t] = "blocked"] = "awake"]

\* notify_all.
Notified(f) == [t \in Threads |-> IF f[t] = "blocked" THEN "awake" ELSE f[t]]

Set(t, bits) ==
    /\ pc[t] = "run" /\ m_status = "Set"
    /\ m_bits' = m_bits \cup bits
    /\ pc' = Notified(pc)
    /\ UNCHANGED <<m_thread_mode, m_status, m_waiting_threads, call, doomed>>

\* Clear keeps the bits it is given.
Clear(t, bits) ==
    /\ pc[t] = "run" /\ m_status = "Set"
    /\ m_bits' = m_bits \cap bits
    /\ UNCHANGED <<m_thread_mode, m_status, m_waiting_threads, pc, call, doomed>>

Waiting == {t \in Threads : pc[t] \in {"blocked", "awake", "expired"}}

CancelBegin(t, pattern) ==
    /\ pc[t] = "run" /\ m_status = "Set"
    /\ m_status' = "Canceled"
    /\ m_bits' = pattern
    /\ pc' = [Notified(pc) EXCEPT ![t] = "cancel"]
    /\ doomed' = Waiting
    /\ UNCHANGED <<m_thread_mode, m_waiting_threads, call>>

\* Mutant of CancelEnd: it does not wait for the threads that wait.
CancelEndAtOnce(t) ==
    /\ pc[t] = "cancel"
    /\ m_status' = "Set"
    /\ pc' = [pc EXCEPT ![t] = "run"]
    /\ UNCHANGED <<m_thread_mode, m_bits, m_waiting_threads, call, doomed>>

CancelEnd(t) ==
    /\ pc[t] = "cancel" /\ m_waiting_threads = 0
    /\ m_status' = "Set"
    /\ pc' = [pc EXCEPT ![t] = "run"]
    /\ UNCHANGED <<m_thread_mode, m_bits, m_waiting_threads, call, doomed>>

-----------------------------------------------------------------------------
GuestCall(t) ==
    \/ \E c \in GuestWaits : WaitNow(t, c) \/ WaitBlock(t, c)
    \/ \E b \in SUBSET Bits : Set(t, b) \/ Clear(t, b) \/ CancelBegin(t, b)

Step(t) == WaitEnd(t) \/ WaitTimedOut(t) \/ WaitAgain(t) \/ CancelEnd(t)

Next == \E t \in Threads : GuestCall(t) \/ Step(t) \/ Spurious(t) \/ Timeout(t)

Spec == Init /\ [][Next]_vars

\* The host scheduler runs every thread that can run.
FairSpec == Spec /\ \A t \in Threads : WF_vars(Step(t))

-----------------------------------------------------------------------------
(* Properties                                                              *)

\* Every variable stays in its type.
TypeOK ==
    /\ m_bits \in SUBSET Bits
    /\ m_status \in {"Set", "Canceled"}
    /\ m_thread_mode \in {"Single", "Multi"}
    /\ m_waiting_threads \in Nat
    /\ pc \in [Threads -> PCs]
    /\ call \in [Threads -> Calls]
    /\ doomed \in SUBSET Threads

\* No thread stays in the condition variable while what it waits for holds: every
\* change of m_bits or m_status that can make waitFunc true notifies.
NoMissedWakeup == \A t \in Threads : pc[t] = "blocked" => ~WaitFunc(call[t])

\* m_waiting_threads, by which Cancel knows that it is done and Wait that it is
\* alone, is the number of threads in Wait.
CountExact == m_waiting_threads = Cardinality(Waiting)

\* Every thread that waits when Cancel is called returns ECANCELED, even if its
\* bits were set or its timeout ran out before it had the mutex again, and m_status
\* stays Canceled until the last of them has seen it.
CancelReachesAll == doomed # {} => m_status = "Canceled" /\ doomed \subseteq Waiting

\* Cancel returns: the threads that keep calling Wait meanwhile do not hold it up.
CancelReturns == \A t \in Threads : pc[t] = "cancel" ~> pc[t] = "run"
=============================================================================
