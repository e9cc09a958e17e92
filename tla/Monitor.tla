------------------------------ MODULE Monitor ------------------------------
(***************************************************************************)
(* What the guest is promised by a mutex and condition variable: a wait    *)
(* gives up the mutex and joins the waiters in ONE step, a signal sent     *)
(* while somebody waits always releases exactly one waiter, a broadcast    *)
(* releases them all, a timeout only ever takes effect on a thread that no *)
(* signal has released, and a waiter returns holding its mutex again.      *)
(***************************************************************************)
CONSTANTS Threads, Mutexes, Conds, None

VARIABLES
    holder,   \* the thread in the critical section of each mutex
    status,   \* "idle", "waiting", or how a wait ended: "signalled", "timedout"
    wait,     \* the condition variable and mutex of a thread's wait
    request   \* a signal or broadcast that has been called but not performed

mvars == <<holder, status, wait, request>>

Statuses == {"idle", "waiting", "signalled", "timedout"}
Waits == [c : Conds, m : Mutexes]
NoWait == [c |-> None, m |-> None]
Requests == [all : BOOLEAN, c : Conds, td : Threads \cup {None}]
NoRequest == [all |-> FALSE, c |-> None, td |-> None]

Init ==
    /\ holder = [m \in Mutexes |-> None]
    /\ status = [t \in Threads |-> "idle"]
    /\ wait = [t \in Threads |-> NoWait]
    /\ request = [t \in Threads |-> NoRequest]

Waiters(c) == {t \in Threads : status[t] = "waiting" /\ wait[t].c = c}

Acquire(t, m) ==
    /\ status[t] = "idle" /\ holder[m] = None
    /\ holder' = [holder EXCEPT ![m] = t]
    /\ UNCHANGED <<status, wait, request>>

Relinquish(t, m) ==
    /\ status[t] = "idle" /\ holder[m] = t
    /\ holder' = [holder EXCEPT ![m] = None]
    /\ UNCHANGED <<status, wait, request>>

BeginWait(t, c, m) ==
    /\ status[t] = "idle" /\ holder[m] = t
    /\ holder' = [holder EXCEPT ![m] = None]
    /\ status' = [status EXCEPT ![t] = "waiting"]
    /\ wait' = [wait EXCEPT ![t] = [c |-> c, m |-> m]]
    /\ UNCHANGED request

Timeout(t) ==
    /\ status[t] = "waiting"
    /\ status' = [status EXCEPT ![t] = "timedout"]
    /\ UNCHANGED <<holder, wait, request>>

EndWait(t) ==
    /\ status[t] \in {"signalled", "timedout"} /\ holder[wait[t].m] = None
    /\ holder' = [holder EXCEPT ![wait[t].m] = t]
    /\ status' = [status EXCEPT ![t] = "idle"]
    /\ wait' = [wait EXCEPT ![t] = NoWait]
    /\ UNCHANGED request

Ask(t) ==
    /\ status[t] = "idle" /\ request[t] = NoRequest
    /\ UNCHANGED <<holder, status, wait>>
    /\ \E r \in Requests : request' = [request EXCEPT ![t] = r]

\* The waiters a request may release: none only if there is no waiter.
Releases(r) ==
    IF Waiters(r.c) = {} THEN {{}}
    ELSE IF r.all THEN {Waiters(r.c)}
    ELSE {{u} : u \in IF r.td = None THEN Waiters(r.c) ELSE Waiters(r.c) \cap {r.td}}

Perform(t) ==
    /\ request[t] # NoRequest
    /\ \E S \in Releases(request[t]) :
          status' = [u \in Threads |-> IF u \in S THEN "signalled" ELSE status[u]]
    /\ request' = [request EXCEPT ![t] = NoRequest]
    /\ UNCHANGED <<holder, wait>>

Next ==
    \E t \in Threads :
        \/ \E m \in Mutexes : Acquire(t, m) \/ Relinquish(t, m)
        \/ \E c \in Conds, m \in Mutexes : BeginWait(t, c, m)
        \/ Timeout(t) \/ EndWait(t)
        \/ Ask(t)
        \/ Perform(t)

Spec == Init /\ [][Next]_mvars
=============================================================================
