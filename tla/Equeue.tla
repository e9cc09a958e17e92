------------------------------- MODULE Equeue -------------------------------
(***************************************************************************)
(* One event queue (class EqueueInternal, kernel/equeue.cpp), the guest    *)
(* threads that register, trigger and wait for events, and the kernel      *)
(* service thread (kernel/kernel.cpp), which runs the asio timers behind   *)
(* the Timer and HrTimer events.  A section under m_mutex is one step.     *)
(* Time is a choice: a pending wait may end whenever the service thread is *)
(* inside io_context.run().  An event's payload (data, udata, interval) is *)
(* left out, so registering an event that exists changes nothing.          *)
(***************************************************************************)
EXTENDS Integers, Sequences, FiniteSets

CONSTANTS
    Threads,     \* guest threads
    Timers,      \* idents with filter Timer: periodic
    HrTimers,    \* idents with filter HrTimer: one shot
    Users,       \* idents with filter User
    Levels,      \* those of Users added without the Clear flag
    Nums,        \* the num given to WaitForEvents
    MaxHandlers  \* bound: completed waits queued in io_context

ASSUME EqueueAssumption ==
    /\ Levels \subseteq Users
    /\ Timers \cap HrTimers = {} /\ Users \cap (Timers \cup HrTimers) = {}
    /\ Nums \subseteq Nat \ {0} /\ MaxHandlers \in Nat \ {0}

VARIABLES
    m_events,        \* m_events: [id, triggered, armed], armed: its timer has a wait
    m_small_timers,  \* m_small_timers: is the timer absent, running or due
    th,              \* each guest thread: where it is and the arguments it is there with
    handlers,        \* io_context: completed waits, in the order they will be called
    svc,             \* the service thread: where it is and the ident of the handler
    asio_requests    \* asio_requests # 0

vars == <<m_events, m_small_timers, th, handlers, svc, asio_requests>>

Timed == Timers \cup HrTimers
Ids == Timed \cup Users
Clear(id) == id \notin Levels
OneShot(id) == id \in HrTimers

Idle == [pc |-> "idle"]
Registered(id) == \E i \in DOMAIN m_events : m_events[i].id = id
Triggered == {m_events[i].id : i \in {j \in DOMAIN m_events : m_events[j].triggered}}
Armed == {m_events[i].id : i \in {j \in DOMAIN m_events : m_events[j].armed}}
At(pc) == {t \in Threads : th[t].pc = pc}
HasSmallTimer == \E id \in HrTimers : m_small_timers[id] # "none"

Init ==
    /\ m_events = <<>>
    /\ m_small_timers = [id \in HrTimers |-> "none"]
    /\ th = [t \in Threads |-> Idle]
    /\ handlers = <<>>
    /\ svc = [pc |-> "sleep"]
    /\ asio_requests = FALSE

\* A guest call begins.  The poll of WaitForEvents reads and writes m_events without
\* m_mutex: the guest is taken to poll only while it makes no other call on the queue.
Calls(t) == th[t] = Idle /\ At("poll") = {}

-----------------------------------------------------------------------------
(* The operations of EqueueInternal, as sections under m_mutex             *)

\* Mutant of Enqueued: an event that exists is not looked for.
EnqueuedTwice(id) == Append(m_events, [id |-> id, triggered |-> FALSE, armed |-> FALSE])

\* AddEvent's first section.
Enqueued(id) ==
    IF Registered(id) THEN m_events
    ELSE Append(m_events, [id |-> id, triggered |-> FALSE, armed |-> FALSE])

\* m_events.erase of the events with these idents: the others close up in their order.
Erased(ids) ==
    LET kept == {i \in DOMAIN m_events : m_events[i].id \notin ids}
        Nth(n) == CHOOSE i \in kept : Cardinality({k \in kept : k <= i}) = n
    IN  IF kept = DOMAIN m_events THEN m_events
        ELSE [n \in 1 .. Cardinality(kept) |-> m_events[Nth(n)]]

\* RemoveEvent.  Destroying the timer cancels its wait, unless it is complete.
Removed(id) == Erased({id})

\* Mutant of ScheduleEvent: the service thread is not told.
ScheduleEventSilent(id) ==
    /\ m_events' = [i \in DOMAIN m_events |->
                      [m_events[i] EXCEPT !.armed = @ \/ m_events[i].id = id]]
    /\ UNCHANGED asio_requests

\* ScheduleEvent.  A new expiry cancels the wait in progress; one wait begins.
\* KernelSignalRequest is called under m_mutex.
ScheduleEvent(id) ==
    /\ m_events' = [i \in DOMAIN m_events |->
                      [m_events[i] EXCEPT !.armed = @ \/ m_events[i].id = id]]
    /\ asio_requests' = (asio_requests \/ Registered(id))

\* TriggerEvent up to the unlock; NotifyOne follows in a step of its own.
TriggerEvent(id) ==
    m_events' = [i \in DOMAIN m_events |->
                   [m_events[i] EXCEPT !.triggered = @ \/ m_events[i].id = id]]

\* Mutant of NotifyOne: nobody is woken while some thread is about to look for events.
NotifyOneAtATime(s) ==
    LET blocked == {t \in Threads : s[t].pc = "blocked"}
    IN  IF blocked = {} \/ \E t \in Threads : s[t].pc = "awake" THEN {s}
        ELSE {[s EXCEPT ![t].pc = "awake"] : t \in blocked}

\* m_cond.notify_one(), after the unlock: the threads' states it may leave, from s.
NotifyOne(s) ==
    LET blocked == {t \in Threads : s[t].pc = "blocked"}
    IN  IF blocked = {} THEN {s} ELSE {[s EXCEPT ![t].pc = "awake"] : t \in blocked}

\* GetTriggeredEvents: the events it returns, the first num of the triggered ones ...
Taken(num) ==
    {m_events[i].id : i \in {j \in DOMAIN m_events :
        /\ m_events[j].triggered
        /\ Cardinality({k \in 1 .. j : m_events[k].triggered}) <= num}}

\* ... and what it leaves in m_events.
GetTriggeredEvents(taken) ==
    LET left == Erased(taken \cap HrTimers)
    IN  [i \in DOMAIN left |->
           [left[i] EXCEPT !.triggered = @ /\ ~(left[i].id \in taken /\ Clear(left[i].id))]]

-----------------------------------------------------------------------------
(* Guest calls that register, remove and trigger                           *)

Guest == <<handlers, svc>>

\* AddEvent; timers are scheduled in a second section.
AddEvent(t, id) ==
    /\ m_events' = Enqueued(id)
    /\ th' = IF id \in Timed /\ ~Registered(id)
             THEN [th EXCEPT ![t] = [pc |-> "schedule", id |-> id]] ELSE th
    /\ UNCHANGED <<m_small_timers, asio_requests, Guest>>

AddTimerEvent(t) == Calls(t) /\ \E id \in Timers : AddEvent(t, id)
AddUserEvent(t) == Calls(t) /\ \E id \in Users : AddEvent(t, id)

\* AddSmallTimer.  It notifies nobody, and starts again a timer that exists.
AddSmallTimer(id) ==
    /\ m_small_timers' = [m_small_timers EXCEPT ![id] = "running"]
    /\ UNCHANGED <<m_events, th, asio_requests, Guest>>

\* sceKernelAddHRTimerEvent: the interval chooses between the two kinds of timers.
AddHRTimerEvent(t) ==
    /\ Calls(t)
    /\ \E id \in HrTimers : AddSmallTimer(id) \/ AddEvent(t, id)

AddSchedules(t) ==
    /\ th[t].pc = "schedule"
    /\ ScheduleEvent(th[t].id)
    /\ th' = [th EXCEPT ![t] = Idle]
    /\ UNCHANGED <<m_small_timers, Guest>>

DeleteEvent(t) ==
    /\ Calls(t)
    /\ \E id \in Timers \cup Users : Registered(id) /\ m_events' = Removed(id)
    /\ UNCHANGED <<m_small_timers, th, asio_requests, Guest>>

\* sceKernelDeleteHRTimerEvent asks once whether there is any small timer, then removes
\* only from the kind it chose.
DeleteHRTimerEvent(t) ==
    /\ Calls(t)
    /\ \E id \in HrTimers :
         th' = [th EXCEPT ![t] = [pc |-> IF HasSmallTimer THEN "delsmall" ELSE "delhr",
                                  id |-> id]]
    /\ UNCHANGED <<m_events, m_small_timers, asio_requests, Guest>>

DeleteHRTimerRemoves(t) ==
    /\ th' = [th EXCEPT ![t] = Idle]
    /\ \/ /\ th[t].pc = "delsmall"
          /\ m_small_timers' = [m_small_timers EXCEPT ![th[t].id] = "none"]
          /\ UNCHANGED m_events
       \/ /\ th[t].pc = "delhr"
          /\ m_events' = Removed(th[t].id)
          /\ UNCHANGED m_small_timers
    /\ UNCHANGED <<asio_requests, Guest>>

TriggerUserEvent(t) ==
    /\ Calls(t)
    /\ \E id \in Users : TriggerEvent(id)
    /\ th' = [th EXCEPT ![t] = [pc |-> "notify"]]
    /\ UNCHANGED <<m_small_timers, asio_requests, Guest>>

TriggerNotifies(t) ==
    /\ th[t].pc = "notify"
    /\ th' \in NotifyOne([th EXCEPT ![t] = Idle])
    /\ UNCHANGED <<m_events, m_small_timers, asio_requests, Guest>>

-----------------------------------------------------------------------------
(* WaitForEvents                                                           *)

\* A wait with a timeout or without one; HasSmallTimer is asked under its own lock.
WaitForEvents(t) ==
    /\ Calls(t)
    /\ \E num \in Nums, timed \in BOOLEAN :
         th' = [th EXCEPT ![t] = [pc |-> IF HasSmallTimer THEN "spin" ELSE "awake",
                                  num |-> num, timed |-> timed]]
    /\ UNCHANGED <<m_events, m_small_timers, asio_requests, Guest>>

\* With m_mutex, at first and whenever it was notified, the wait asks its predicate.
WaitWakes(t) ==
    /\ th[t].pc = "awake"
    /\ IF Triggered = {}
       THEN /\ th' = [th EXCEPT ![t].pc = "blocked"]
            /\ UNCHANGED m_events
       ELSE /\ th' = [th EXCEPT ![t] = Idle]
            /\ m_events' = GetTriggeredEvents(Taken(th[t].num))
    /\ UNCHANGED <<m_small_timers, asio_requests, Guest>>

\* The timeout ends the wait; with m_mutex the predicate is asked once more.
WaitExpires(t) ==
    /\ th[t].pc = "blocked" /\ th[t].timed
    /\ th' = [th EXCEPT ![t] = Idle]
    /\ m_events' = GetTriggeredEvents(Taken(th[t].num))
    /\ UNCHANGED <<m_small_timers, asio_requests, Guest>>

\* One round of WaitForSmallTimer: up to num due timers are erased.  The wait returns
\* with them, or at its end if it has one; ordinary events do not matter to it.
WaitForSmallTimer(t) ==
    /\ th[t].pc = "spin"
    /\ LET due == {id \in HrTimers : m_small_timers[id] = "due"}
       IN  \/ /\ due = {} /\ th[t].timed
              /\ UNCHANGED m_small_timers
           \/ \E gone \in SUBSET due :
                /\ gone # {}
                /\ Cardinality(gone) <= th[t].num
                /\ gone = due \/ Cardinality(gone) = th[t].num
                /\ m_small_timers' = [id \in HrTimers |->
                                        IF id \in gone THEN "none" ELSE m_small_timers[id]]
    /\ th' = [th EXCEPT ![t] = Idle]
    /\ UNCHANGED <<m_events, asio_requests, Guest>>

SmallTimerDue ==
    /\ \E id \in HrTimers :
         /\ m_small_timers[id] = "running"
         /\ m_small_timers' = [m_small_timers EXCEPT ![id] = "due"]
    /\ UNCHANGED <<m_events, th, asio_requests, Guest>>

\* A poll: GetTriggeredEvents without m_mutex.  It copies the events first and clears
\* them afterwards; a trigger between the two is cleared too.
Poll(t) ==
    /\ \A u \in Threads : th[u] = Idle
    /\ \E num \in Nums : th' = [th EXCEPT ![t] = [pc |-> "poll", taken |-> Taken(num)]]
    /\ UNCHANGED <<m_events, m_small_timers, asio_requests, Guest>>

PollClears(t) ==
    /\ th[t].pc = "poll"
    /\ th' = [th EXCEPT ![t] = Idle]
    /\ m_events' = GetTriggeredEvents(th[t].taken)
    /\ UNCHANGED <<m_small_timers, asio_requests, Guest>>

-----------------------------------------------------------------------------
(* The kernel service thread                                               *)

Work == Armed # {} \/ handlers # <<>>

\* The request count is not 0: io_context.run() is entered.
ServiceWakes ==
    /\ svc.pc = "sleep" /\ asio_requests
    /\ svc' = [pc |-> "run"]
    /\ UNCHANGED <<m_events, m_small_timers, th, handlers, asio_requests>>

\* Inside run() a wait whose time has come completes.
Expire(id) ==
    /\ svc.pc = "run" /\ id \in Armed /\ Len(handlers) < MaxHandlers
    /\ m_events' = [i \in DOMAIN m_events |->
                      [m_events[i] EXCEPT !.armed = @ /\ m_events[i].id # id]]
    /\ handlers' = Append(handlers, id)
    /\ UNCHANGED <<m_small_timers, th, svc, asio_requests>>

\* run() calls a handler.  HrTimerCallback triggers at once; TimerCallback first asks
\* EventExists, in a section of its own.
CallHandler ==
    /\ svc.pc = "run" /\ handlers # <<>>
    /\ LET id == Head(handlers)
       IN  svc' = IF OneShot(id) \/ Registered(id)
                  THEN [pc |-> "trigger", id |-> id] ELSE [pc |-> "run"]
    /\ handlers' = Tail(handlers)
    /\ UNCHANGED <<m_events, m_small_timers, th, asio_requests>>

CallbackTriggers ==
    /\ svc.pc = "trigger"
    /\ TriggerEvent(svc.id)
    /\ svc' = [svc EXCEPT !.pc = "notify"]
    /\ UNCHANGED <<m_small_timers, th, handlers, asio_requests>>

CallbackNotifies ==
    /\ svc.pc = "notify"
    /\ th' \in NotifyOne(th)
    /\ svc' = IF OneShot(svc.id) THEN [pc |-> "run"] ELSE [svc EXCEPT !.pc = "reschedule"]
    /\ UNCHANGED <<m_events, m_small_timers, handlers, asio_requests>>

\* Mutant of CallbackReschedules: only a timer somebody has already waited for goes on.
CallbackReschedulesSeen ==
    /\ svc.pc = "reschedule"
    /\ IF svc.id \in Triggered THEN UNCHANGED <<m_events, asio_requests>>
       ELSE ScheduleEvent(svc.id)
    /\ svc' = [pc |-> "run"]
    /\ UNCHANGED <<m_small_timers, th, handlers>>

CallbackReschedules ==
    /\ svc.pc = "reschedule"
    /\ ScheduleEvent(svc.id)
    /\ svc' = [pc |-> "run"]
    /\ UNCHANGED <<m_small_timers, th, handlers>>

\* run() returns for want of work ...
RunReturns ==
    /\ svc.pc = "run" /\ ~Work
    /\ svc' = [pc |-> "returned"]
    /\ UNCHANGED <<m_events, m_small_timers, th, handlers, asio_requests>>

\* ... and only then are the requests set to 0, those that came meanwhile too.
ResetRequests ==
    /\ svc.pc = "returned"
    /\ asio_requests' = FALSE
    /\ svc' = [pc |-> "sleep"]
    /\ UNCHANGED <<m_events, m_small_timers, th, handlers>>

-----------------------------------------------------------------------------
GuestCall(t) ==
    \/ AddTimerEvent(t) \/ AddUserEvent(t) \/ AddHRTimerEvent(t)
    \/ DeleteEvent(t) \/ DeleteHRTimerEvent(t) \/ TriggerUserEvent(t)
    \/ WaitForEvents(t) \/ Poll(t)

GuestStep(t) ==
    \/ AddSchedules(t) \/ DeleteHRTimerRemoves(t) \/ TriggerNotifies(t)
    \/ WaitWakes(t) \/ WaitExpires(t) \/ WaitForSmallTimer(t) \/ PollClears(t)

Service ==
    \/ ServiceWakes \/ CallHandler \/ CallbackTriggers \/ CallbackNotifies
    \/ CallbackReschedules \/ RunReturns \/ ResetRequests

Next ==
    \/ \E t \in Threads : GuestCall(t) \/ GuestStep(t)
    \/ SmallTimerDue
    \/ \E id \in Timed : Expire(id)
    \/ Service

Spec == Init /\ [][Next]_vars

\* The host runs every thread that can go on.
Fairness == (\A t \in Threads : WF_vars(GuestStep(t))) /\ WF_vars(Service)

FairSpec == Spec /\ Fairness

-----------------------------------------------------------------------------
(* Properties                                                              *)

\* Where a guest thread is, with what it is there with; where the service thread is.
ThreadStates ==
    [pc : {"idle", "notify"}] \cup [pc : {"schedule", "delsmall", "delhr"}, id : Ids]
    \cup [pc : {"spin", "awake", "blocked"}, num : Nums, timed : BOOLEAN]
    \cup [pc : {"poll"}, taken : SUBSET Ids]
ServiceStates ==
    [pc : {"sleep", "run", "returned"}]
    \cup [pc : {"trigger", "notify", "reschedule"}, id : Timed]

\* The states have their types, and an event is in m_events once, as the comment before
\* AddEvent says.
TypeOK ==
    /\ m_events \in Seq([id : Ids, triggered : BOOLEAN, armed : BOOLEAN])
    /\ \A i, j \in DOMAIN m_events : m_events[i].id = m_events[j].id => i = j
    /\ m_small_timers \in [HrTimers -> {"none", "running", "due"}]
    /\ th \in [Threads -> ThreadStates]
    /\ handlers \in Seq(Timed)
    /\ svc \in ServiceStates
    /\ asio_requests \in BOOLEAN

\* No wakeup is lost (TriggerEvent, WaitForEvents): while a thread is blocked, every
\* triggered event has a thread of its own that will look for events, or a notification
\* on its way.  Only for events with the Clear flag.
NoTriggerUnseen ==
    At("blocked") # {} =>
        Cardinality(Triggered) <=
            Cardinality(At("awake") \cup At("notify"))
            + (IF svc.pc = "notify" THEN 1 ELSE 0)

\* A registered timer never dies (ScheduleEvent, TimerCallback): a one-shot timer has
\* fired or has a wait, a periodic one has a wait, and if not, then its handler is
\* queued or running, or the thread that adds it is about to schedule it.
TimerAlive ==
    \A i \in DOMAIN m_events :
        LET id == m_events[i].id
        IN  id \in Timed =>
              \/ m_events[i].armed
              \/ OneShot(id) /\ m_events[i].triggered
              \/ \E k \in DOMAIN handlers : handlers[k] = id
              \/ svc.pc \in {"trigger", "notify", "reschedule"} /\ svc.id = id
              \/ \E t \in At("schedule") : th[t].id = id

\* Work waits and nobody will run it: the service thread sleeps and no request is counted.
Stranded == svc.pc = "sleep" /\ ~asio_requests /\ Work

\* The only step that leaves a scheduled timer to a sleeping service thread is the
\* reset of asio_requests after run() (kernel.cpp:79), which forgets the requests made
\* since run() returned; every other order of ScheduleEvent and the service thread's
\* loop is served.
OnlyResetStrands == [][~Stranded /\ Stranded' => svc.pc = "returned"]_vars

\* A blocked thread does not sleep on triggered events: it is woken, or the other
\* threads take them all.
Delivered ==
    \A t \in Threads :
        (th[t].pc = "blocked" /\ Triggered # {}) ~> (th[t].pc # "blocked" \/ Triggered = {})
=============================================================================
