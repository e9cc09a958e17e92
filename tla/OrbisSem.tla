------------------------------ MODULE OrbisSem ------------------------------
(***************************************************************************)
(* The kernel semaphore of libkernel (class OrbisSem and sceKernel*Sema,   *)
(* threads/semaphore.cpp): a token count, a list of waiters in FIFO or     *)
(* priority order, and for each waiter a host semaphore it sleeps on after *)
(* it let go of the mutex.                                                 *)
(*                                                                         *)
(* A section under the mutex is one step, except the loop of Signal, which *)
(* wakes waiters that run on while it goes through the rest of the list.   *)
(* Wait that fails at once (EBUSY of a poll, a timeout of 0) and Signal    *)
(* beyond max_count change nothing and are stuttering steps.               *)
(***************************************************************************)
EXTENDS Integers, Sequences, FiniteSets

CONSTANTS
    Threads,    \* guest threads
    None,       \* no thread
    Prio,       \* attr.prio of each thread; a smaller number goes first
    IsFifo,     \* is_fifo
    InitCount,  \* init_count
    MaxCount,   \* max_count
    Counts      \* the counts the guest passes to Wait, Signal and Cancel

ASSUME NoneAssumption == None \notin Threads
ASSUME PrioAssumption == Prio \in [Threads -> Nat] /\ IsFifo \in BOOLEAN
\* sceKernelCreateSema refuses anything else.
ASSUME CreateAssumption == InitCount \in Nat /\ MaxCount \in Nat \ {0} /\ InitCount <= MaxCount
\* The guest passes counts that make sense: the code does not check them.
ASSUME CountAssumption == Counts \subseteq 1..MaxCount

VARIABLES
    token_count,  \* token_count
    wait_list,    \* wait_list
    mutex,        \* the thread in the loop of Signal, which holds the mutex
    it,           \* the iterator of that loop
    need_count,   \* WaitingThread::need_count of each thread that waits
    flags,        \* its was_signaled, was_deleted, was_canceled
    sem,          \* its BinarySemaphore
    timed,        \* whether its Wait has a timeout
    pc,           \* "run", "sleep", "relock", "signal", "erase", "freed"
    slot,         \* whether orbis_sems still holds the semaphore
    arrivals,     \* ghost: the listed threads in the order they came
    owed          \* ghost: tokens supplied and not yet received by an OK Wait

vars == <<token_count, wait_list, mutex, it, need_count, flags, sem, timed, pc,
          slot, arrivals, owed>>
waiterVars == <<need_count, flags, sem, timed>>

Flags == {"signaled", "deleted", "canceled"}
PCs == {"run", "sleep", "relock", "signal", "erase", "freed"}

Elems(s) == {s[i] : i \in DOMAIN s}
Priority(t) == IF IsFifo THEN 0 ELSE Prio[t]

Init ==
    /\ token_count = InitCount
    /\ wait_list = <<>>
    /\ mutex = None /\ it = 1
    /\ need_count = [t \in Threads |-> 0]
    /\ flags = [t \in Threads |-> {}]
    /\ sem = [t \in Threads |-> 0]
    /\ timed = [t \in Threads |-> FALSE]
    /\ pc = [t \in Threads |-> "run"]
    /\ slot = TRUE
    /\ arrivals = <<>>
    /\ owed = InitCount

Goto(t, l) == pc' = [pc EXCEPT ![t] = l]

\* A list without the thread t, which is in it once.
Without(s, t) ==
    LET i == CHOOSE i \in DOMAIN s : s[i] = t
    IN  [j \in 1..(Len(s) - 1) |-> IF j < i THEN s[j] ELSE s[j + 1]]

-----------------------------------------------------------------------------
(* Wait                                                                    *)

\* There are enough tokens.
WaitTake(t, n) ==
    /\ pc[t] = "run" /\ slot /\ mutex = None
    /\ token_count >= n
    /\ token_count' = token_count - n
    /\ owed' = owed - n
    /\ UNCHANGED <<wait_list, mutex, it, waiterVars, pc, slot, arrivals>>

\* An AddWaiter that goes before waiters of the same priority.
AddWaiterBefore(t) ==
    LET behind == {i \in DOMAIN wait_list : Priority(wait_list[i]) >= Priority(t)}
        i == IF IsFifo \/ behind = {} THEN Len(wait_list) + 1
             ELSE CHOOSE i \in behind : \A j \in behind : i <= j
    IN  SubSeq(wait_list, 1, i - 1) \o <<t>> \o SubSeq(wait_list, i, Len(wait_list))

\* The place of a new waiter: the end of the list, or right before the first with
\* a greater priority number.
AddWaiter(t) ==
    LET behind == {i \in DOMAIN wait_list : Priority(wait_list[i]) > Priority(t)}
        i == IF IsFifo \/ behind = {} THEN Len(wait_list) + 1
             ELSE CHOOSE i \in behind : \A j \in behind : i <= j
    IN  SubSeq(wait_list, 1, i - 1) \o <<t>> \o SubSeq(wait_list, i, Len(wait_list))

WaitEnqueue(t, n, hasTimeout) ==
    /\ pc[t] = "run" /\ slot /\ mutex = None
    /\ token_count < n
    /\ wait_list' = AddWaiter(t)
    /\ need_count' = [need_count EXCEPT ![t] = n]
    /\ timed' = [timed EXCEPT ![t] = hasTimeout]
    /\ Goto(t, "sleep")
    /\ arrivals' = Append(arrivals, t)
    /\ UNCHANGED <<token_count, mutex, it, flags, sem, slot, owed>>

SemAcquire(t) ==
    /\ pc[t] = "sleep" /\ sem[t] > 0
    /\ sem' = [sem EXCEPT ![t] = @ - 1]
    /\ Goto(t, "relock")
    /\ UNCHANGED <<token_count, wait_list, mutex, it, need_count, flags, timed,
                   slot, arrivals, owed>>

SemTimeout(t) ==
    /\ pc[t] = "sleep" /\ timed[t] /\ sem[t] = 0
    /\ Goto(t, "relock")
    /\ UNCHANGED <<token_count, wait_list, mutex, it, waiterVars, slot, arrivals, owed>>

GetResult(t) ==
    IF "signaled" \in flags[t] THEN "OK"
    ELSE IF "deleted" \in flags[t] THEN "EACCES"
    ELSE IF "canceled" \in flags[t] THEN "ECANCELED" ELSE "ETIMEDOUT"

\* lk.lock() and the rest of Wait, which ends the life of its WaitingThread.
Relock(t) ==
    /\ pc[t] = "relock" /\ slot /\ mutex = None
    /\ wait_list' = IF GetResult(t) = "ETIMEDOUT" THEN Without(wait_list, t) ELSE wait_list
    /\ arrivals' = IF GetResult(t) = "ETIMEDOUT" THEN Without(arrivals, t) ELSE arrivals
    /\ owed' = IF GetResult(t) = "OK" THEN owed - need_count[t] ELSE owed
    /\ need_count' = [need_count EXCEPT ![t] = 0]
    /\ flags' = [flags EXCEPT ![t] = {}]
    /\ sem' = [sem EXCEPT ![t] = 0]
    /\ timed' = [timed EXCEPT ![t] = FALSE]
    /\ Goto(t, "run")
    /\ UNCHANGED <<token_count, mutex, it, slot>>

-----------------------------------------------------------------------------
(* Signal                                                                  *)

\* A Signal that begins with the last waiter.
SignalFromLast(t, n) ==
    /\ pc[t] = "run" /\ slot /\ mutex = None
    /\ token_count + n <= MaxCount
    /\ token_count' = token_count + n
    /\ owed' = owed + n
    /\ mutex' = t /\ it' = IF wait_list = <<>> THEN 1 ELSE Len(wait_list)
    /\ Goto(t, "signal")
    /\ UNCHANGED <<wait_list, waiterVars, slot, arrivals>>

\* A Signal that does not look at max_count.
SignalNoMax(t, n) ==
    /\ pc[t] = "run" /\ slot /\ mutex = None
    /\ token_count' = token_count + n
    /\ owed' = owed + n
    /\ mutex' = t /\ it' = 1
    /\ Goto(t, "signal")
    /\ UNCHANGED <<wait_list, waiterVars, slot, arrivals>>

Signal(t, n) ==
    /\ pc[t] = "run" /\ slot /\ mutex = None
    /\ token_count + n <= MaxCount
    /\ token_count' = token_count + n
    /\ owed' = owed + n
    /\ mutex' = t /\ it' = 1
    /\ Goto(t, "signal")
    /\ UNCHANGED <<wait_list, waiterVars, slot, arrivals>>

SignalSkip(t) ==
    /\ pc[t] = "signal" /\ slot /\ it <= Len(wait_list)
    /\ need_count[wait_list[it]] > token_count
    /\ it' = it + 1
    /\ UNCHANGED <<token_count, wait_list, mutex, waiterVars, pc, slot, arrivals, owed>>

\* A Signal that wakes a waiter and keeps its tokens.
SignalWakeKeepsTokens(t) ==
    LET w == wait_list[it]
    IN  /\ pc[t] = "signal" /\ slot /\ it <= Len(wait_list)
        /\ need_count[w] <= token_count
        /\ wait_list' = Without(wait_list, w)
        /\ flags' = [flags EXCEPT ![w] = @ \cup {"signaled"}]
        /\ sem' = [sem EXCEPT ![w] = @ + 1]
        /\ arrivals' = Without(arrivals, w)
        /\ UNCHANGED <<token_count, mutex, it, need_count, timed, pc, slot, owed>>

SignalWake(t) ==
    LET w == wait_list[it]
    IN  /\ pc[t] = "signal" /\ slot /\ it <= Len(wait_list)
        /\ need_count[w] <= token_count
        /\ wait_list' = Without(wait_list, w)
        /\ token_count' = token_count - need_count[w]
        /\ flags' = [flags EXCEPT ![w] = @ \cup {"signaled"}]
        /\ sem' = [sem EXCEPT ![w] = @ + 1]
        /\ arrivals' = Without(arrivals, w)
        /\ UNCHANGED <<mutex, it, need_count, timed, pc, slot, owed>>

\* A Signal that stops at the first waiter that needs more.
SignalDoneAtFirst(t) ==
    /\ pc[t] = "signal" /\ slot
    /\ it <= Len(wait_list) => need_count[wait_list[it]] > token_count
    /\ mutex' = None /\ it' = 1
    /\ Goto(t, "run")
    /\ UNCHANGED <<token_count, wait_list, waiterVars, slot, arrivals, owed>>

SignalDone(t) ==
    /\ pc[t] = "signal" /\ slot /\ it > Len(wait_list)
    /\ mutex' = None /\ it' = 1
    /\ Goto(t, "run")
    /\ UNCHANGED <<token_count, wait_list, waiterVars, slot, arrivals, owed>>

-----------------------------------------------------------------------------
(* Cancel and Delete                                                       *)

\* A Cancel that wakes the waiters and forgets to mark them.
WakeListUnmarked(flag) ==
    /\ sem' = [t \in Threads |-> IF t \in Elems(wait_list) THEN sem[t] + 1 ELSE sem[t]]
    /\ wait_list' = <<>>
    /\ arrivals' = <<>>
    /\ UNCHANGED flags

\* was_canceled or was_deleted and a release for every waiter; the list is cleared.
WakeList(flag) ==
    /\ flags' = [t \in Threads |-> IF t \in Elems(wait_list) THEN flags[t] \cup {flag}
                                                           ELSE flags[t]]
    /\ sem' = [t \in Threads |-> IF t \in Elems(wait_list) THEN sem[t] + 1 ELSE sem[t]]
    /\ wait_list' = <<>>
    /\ arrivals' = <<>>

\* set is the new count: set_count, or init_count if set_count is negative.
Cancel(t, set) ==
    /\ pc[t] = "run" /\ slot /\ mutex = None
    /\ WakeList("canceled")
    /\ token_count' = set
    /\ owed' = owed + set - token_count
    /\ UNCHANGED <<mutex, it, need_count, timed, pc, slot>>

\* sceKernelDeleteSema: OrbisSem::Delete, then erase.
Delete(t) ==
    /\ pc[t] = "run" /\ slot /\ mutex = None
    /\ WakeList("deleted")
    /\ Goto(t, "erase")
    /\ UNCHANGED <<token_count, mutex, it, need_count, timed, slot, owed>>

DeleteErase(t) ==
    /\ pc[t] = "erase" /\ slot
    /\ slot' = FALSE
    /\ Goto(t, "run")
    /\ UNCHANGED <<token_count, wait_list, mutex, it, waiterVars, arrivals, owed>>

\* A call that goes on after another thread erased the semaphore works on freed
\* memory; what follows is not modelled.
UseFreed(t) ==
    /\ pc[t] \in {"relock", "signal", "erase"} /\ ~slot
    /\ Goto(t, "freed")
    /\ UNCHANGED <<token_count, wait_list, mutex, it, waiterVars, slot, arrivals, owed>>

-----------------------------------------------------------------------------
GuestCall(t) ==
    \/ \E n \in Counts : WaitTake(t, n) \/ Signal(t, n)
    \/ \E n \in Counts, hasTimeout \in BOOLEAN : WaitEnqueue(t, n, hasTimeout)
    \/ \E n \in Counts \cup {0, InitCount} : Cancel(t, n)
    \/ Delete(t)

Step(t) ==
    \/ SemAcquire(t) \/ SemTimeout(t) \/ Relock(t)
    \/ SignalSkip(t) \/ SignalWake(t) \/ SignalDone(t)
    \/ DeleteErase(t) \/ UseFreed(t)

Next == \E t \in Threads : GuestCall(t) \/ Step(t)

Spec == Init /\ [][Next]_vars

-----------------------------------------------------------------------------
(* Properties                                                              *)

\* Every variable stays in its type; the count stays within 0 .. max_count as long
\* as the guest passes counts in that range.
TypeOK ==
    /\ token_count \in 0..MaxCount
    /\ wait_list \in Seq(Threads) /\ arrivals \in Seq(Threads)
    /\ mutex \in Threads \cup {None} /\ it \in Nat
    /\ need_count \in [Threads -> Nat]
    /\ flags \in [Threads -> SUBSET Flags]
    /\ sem \in [Threads -> {0, 1}]
    /\ timed \in [Threads -> BOOLEAN]
    /\ pc \in [Threads -> PCs]
    /\ slot \in BOOLEAN /\ owed \in Int

\* No waiter sleeps while the tokens it needs are there: one pass of Signal over
\* the list, with a token count that changes under way, reaches all of them.
NoIdleWaiter ==
    (slot /\ mutex = None) => \A t \in Elems(wait_list) : need_count[t] > token_count

\* A thread in Wait is on the list exactly as long as nobody has decided how its
\* wait ends.  So the iterator that a timeout erases is still valid, and a decision
\* that races with the timeout is the result.
InWait(t) == pc[t] \in {"sleep", "relock"}
ListedExact ==
    slot => \A t \in Threads : t \in Elems(wait_list) <=> (InWait(t) /\ flags[t] = {})

\* Tokens are neither lost nor made: what is not in token_count was given to a
\* waiter that will return OK with it, also if its timeout ran out meanwhile.  The
\* k-th token of a waiter t is <<t, k>>.
Granted ==
    {p \in Threads \X (1..MaxCount) :
        InWait(p[1]) /\ "signaled" \in flags[p[1]] /\ p[2] <= need_count[p[1]]}
TokensConserved == slot => owed = token_count + Cardinality(Granted)

\* The list is in order of priority and, within a priority, of arrival.
Before(s, t, u) == \E i, j \in DOMAIN s : i < j /\ s[i] = t /\ s[j] = u
OrderKept ==
    \A i, j \in DOMAIN wait_list :
        i < j => LET t == wait_list[i]
                     u == wait_list[j]
                 IN  \/ Priority(t) < Priority(u)
                     \/ Priority(t) = Priority(u) /\ Before(arrivals, t, u)

\* Signal passes over a waiter only for one that needs fewer tokens.
Signaled(t) == "signaled" \in flags'[t] \ flags[t]
NoOvertaking ==
    [][\A t, u \in Threads :
          Before(wait_list, t, u) /\ Signaled(u) /\ ~Signaled(t)
              => need_count[t] > need_count[u]]_vars
=============================================================================
