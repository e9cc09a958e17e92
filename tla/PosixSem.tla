------------------------------ MODULE PosixSem ------------------------------
(***************************************************************************)
(* The POSIX semaphore of libkernel (PthreadSem and posix_sem_*,           *)
(* threads/semaphore.cpp): a host semaphore to block on and, beside it, an *)
(* atomic count that sem_getvalue returns and sem_post checks for          *)
(* overflow.  The two are never changed together: the count goes up before *)
(* the host semaphore and down after it.                                   *)
(*                                                                         *)
(* Calls that fail (EAGAIN, ETIMEDOUT, EOVERFLOW) and sem_getvalue change  *)
(* nothing.  sem_destroy is the guest's last call and is left out.         *)
(***************************************************************************)
EXTENDS Integers, FiniteSets

CONSTANTS
    Threads,   \* guest threads
    MaxValue   \* ORBIS_KERNEL_SEM_VALUE_MAX, also the limit of CountingSemaphore

ASSUME ThreadAssumption == IsFiniteSet(Threads)
ASSUME MaxAssumption == MaxValue \in Nat \ {0}

VARIABLES
    semaphore,  \* tokens of PthreadSem::semaphore
    value,      \* PthreadSem::value
    current,    \* the local of sem_post in each thread
    pc          \* "run", "taken" (before --value), "cas", "posted" (before release)

vars == <<semaphore, value, current, pc>>

PCs == {"run", "taken", "cas", "posted"}

\* posix_sem_init refuses a larger value.
Init ==
    /\ semaphore \in 0..MaxValue
    /\ value = semaphore
    /\ current = [t \in Threads |-> 0]
    /\ pc = [t \in Threads |-> "run"]

\* acquire, try_acquire or try_acquire_until takes a token, ...
Acquire(t) ==
    /\ pc[t] = "run" /\ semaphore > 0
    /\ semaphore' = semaphore - 1
    /\ pc' = [pc EXCEPT ![t] = "taken"]
    /\ UNCHANGED <<value, current>>

\* ... then --value.
Decrement(t) ==
    /\ pc[t] = "taken"
    /\ value' = value - 1
    /\ pc' = [pc EXCEPT ![t] = "run"]
    /\ UNCHANGED <<semaphore, current>>

\* sem_post: value.load().
Load(t) ==
    /\ pc[t] = "run"
    /\ current' = [current EXCEPT ![t] = value]
    /\ pc' = [pc EXCEPT ![t] = "cas"]
    /\ UNCHANGED <<semaphore, value>>

Overflow(t) ==
    /\ pc[t] = "cas" /\ current[t] = MaxValue
    /\ pc' = [pc EXCEPT ![t] = "run"]
    /\ UNCHANGED <<semaphore, value, current>>

\* Mutant of Exchange: a store in place of the compare-exchange.
ExchangeBlind(t) ==
    /\ pc[t] = "cas" /\ current[t] # MaxValue
    /\ value' = current[t] + 1
    /\ pc' = [pc EXCEPT ![t] = "posted"]
    /\ UNCHANGED <<semaphore, current>>

\* compare_exchange_weak succeeds ...
Exchange(t) ==
    /\ pc[t] = "cas" /\ current[t] # MaxValue
    /\ value = current[t]
    /\ value' = current[t] + 1
    /\ pc' = [pc EXCEPT ![t] = "posted"]
    /\ UNCHANGED <<semaphore, current>>

\* ... or fails, without a reason too, and loads value again.
ExchangeFails(t) ==
    /\ pc[t] = "cas" /\ current[t] # MaxValue
    /\ current' = [current EXCEPT ![t] = value]
    /\ UNCHANGED <<semaphore, value, pc>>

Release(t) ==
    /\ pc[t] = "posted"
    /\ semaphore' = semaphore + 1
    /\ pc' = [pc EXCEPT ![t] = "run"]
    /\ UNCHANGED <<value, current>>

Next ==
    \E t \in Threads :
        \/ Acquire(t) \/ Decrement(t)
        \/ Load(t) \/ Overflow(t) \/ Exchange(t) \/ ExchangeFails(t) \/ Release(t)

Spec == Init /\ [][Next]_vars

-----------------------------------------------------------------------------
(* Properties                                                              *)

\* Every variable stays in its type.
TypeOK ==
    /\ semaphore \in Nat
    /\ value \in Int
    /\ current \in [Threads -> 0..MaxValue]
    /\ pc \in [Threads -> PCs]

\* Threads between their change of one count and of the other.
InFlight == {t \in Threads : pc[t] \in {"taken", "posted"}}

\* value runs ahead of the host semaphore by exactly the calls in flight, so what
\* sem_getvalue returns is never negative and never less than the tokens there are,
\* and the check in sem_post, which looks at value only, also keeps the host
\* semaphore within its limit, beyond which a release is lost on Windows.
CountsAgree ==
    /\ value = semaphore + Cardinality(InFlight)
    /\ value \in 0..MaxValue
    /\ semaphore \in 0..MaxValue
=============================================================================
