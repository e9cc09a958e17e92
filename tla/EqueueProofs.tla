---------------------------- MODULE EqueueProofs ----------------------------
(***************************************************************************)
(* Proofs about Equeue, for any threads, events and numbers of events: the *)
(* timers that are registered stay alive, only one step of the service     *)
(* thread strands them, and no trigger is lost on a blocked thread.        *)
(***************************************************************************)
EXTENDS Equeue, FiniteSetTheorems, SequenceTheorems, NaturalsInduction, WellFoundedInduction,
        TLAPS

Event == [id : Ids, triggered : BOOLEAN, armed : BOOLEAN]

\* The service thread has the handler of a timer in hand and will still trigger it or
\* schedule it again.  A one-shot timer is done once it is triggered.
InHand(id) ==
    /\ svc.pc \in {"trigger", "notify", "reschedule"} /\ svc.id = id
    /\ OneShot(id) => svc.pc = "trigger"
Queued(id) == \E k \in DOMAIN handlers : handlers[k] = id
BeingAdded(id) == \E t \in At("schedule") : th[t].id = id
Cared(id) == Queued(id) \/ InHand(id) \/ BeingAdded(id)

TimerInv ==
    \A i \in DOMAIN m_events :
        m_events[i].id \in Timed =>
            \/ m_events[i].armed
            \/ OneShot(m_events[i].id) /\ m_events[i].triggered
            \/ Cared(m_events[i].id)

IInv == TypeOK /\ TimerInv

\* The threads that will look for events, and those about to wake one.
Seekers == At("awake") \cup At("notify")
UnseenInv ==
    /\ IsFiniteSet(Triggered) /\ IsFiniteSet(Seekers)
    /\ NoTriggerUnseen

\* A list of events in which each event is once.
Distinct(s) ==
    /\ s \in Seq(Event)
    /\ \A i, j \in DOMAIN s : s[i].id = s[j].id => i = j

-----------------------------------------------------------------------------
(* The lists of events the operations make                                 *)

\* The positions kept by an erase can be numbered in their order.
LEMMA Numbered ==
  ASSUME NEW n \in Nat, NEW kept \in SUBSET (1 .. n)
  PROVE  /\ IsFiniteSet(kept) /\ Cardinality(kept) \in Nat
         /\ \A m \in 1 .. Cardinality(kept) :
              \E i \in kept : Cardinality({k \in kept : k <= i}) = m
<1> DEFINE C == Cardinality(kept)
           Upto(i) == {k \in kept : k <= i}
           g == [i \in kept |-> Cardinality(Upto(i))]
<1>1. IsFiniteSet(1 .. n)
  BY FS_Interval
<1>2. IsFiniteSet(kept) /\ C \in Nat
  BY <1>1, FS_Subset, FS_CardinalityType
<1>3. ASSUME NEW i \in kept
      PROVE  /\ IsFiniteSet(Upto(i)) /\ Cardinality(Upto(i)) \in 1 .. C
             /\ i \in Upto(i)
  <2>1. Upto(i) \in SUBSET kept /\ i \in Upto(i)
    OBVIOUS
  <2>2. IsFiniteSet(Upto(i)) /\ Cardinality(Upto(i)) <= C
    BY <1>2, <2>1, FS_Subset
  <2>3. Cardinality(Upto(i)) \in Nat /\ Cardinality(Upto(i)) # 0
    BY <2>1, <2>2, FS_CardinalityType, FS_EmptySet
  <2> HIDE DEF C, Upto
  <2> QED
    BY <1>2, <2>1, <2>2, <2>3
<1>4. ASSUME NEW i \in kept, NEW j \in kept, i < j
      PROVE  Cardinality(Upto(i)) # Cardinality(Upto(j))
  <2>1. i \in Int /\ j \in Int /\ \A k \in kept : k \in Int
    OBVIOUS
  <2>2. j \in Upto(j)
    BY <2>1
  <2>3. j \notin Upto(i)
    BY <1>4, <2>1
  <2>4. Upto(i) \in SUBSET Upto(j)
    <3> SUFFICES ASSUME NEW k \in kept, k <= i PROVE k <= j
      OBVIOUS
    <3>1. k \in Int
      BY <2>1
    <3> QED
      BY <1>4, <2>1, <3>1
  <2> HIDE DEF Upto
  <2> QED
    BY <1>3, <2>2, <2>3, <2>4, FS_Subset
<1>5. g \in Injection(kept, 1 .. C)
  <2>1. g \in [kept -> 1 .. C]
    BY <1>3
  <2>2. \A i, j \in kept : g[i] = g[j] => i = j
    <3> SUFFICES ASSUME NEW i \in kept, NEW j \in kept, g[i] = g[j] PROVE i = j
      OBVIOUS
    <3>1. i \in Int /\ j \in Int /\ Cardinality(Upto(i)) = Cardinality(Upto(j))
      OBVIOUS
    <3> HIDE DEF Upto
    <3> QED
      BY <1>4, <3>1
  <2> HIDE DEF g, C
  <2> QED
    BY <2>1, <2>2 DEF Injection, IsInjective
<1>6. IsFiniteSet(1 .. C) /\ Cardinality(1 .. C) = C
  <2> HIDE DEF C
  <2> QED
    BY <1>2, FS_Interval
<1>7. g \in Surjection(kept, 1 .. C)
  BY <1>5, <1>6, FS_Injection
<1> QED
  BY <1>2, <1>7 DEF Surjection

\* Events are a list of their type.
LEMMA EventsType ==
  ASSUME TypeOK
  PROVE  /\ Distinct(m_events) /\ Len(m_events) \in Nat
         /\ DOMAIN m_events = 1 .. Len(m_events)
         /\ \A i \in DOMAIN m_events : m_events[i] \in Event
<1>1. m_events \in Seq(Event)
  BY DEF TypeOK, Event
<1>2. Len(m_events) \in Nat /\ DOMAIN m_events = 1 .. Len(m_events)
  BY <1>1, LenProperties
<1>3. \A i \in DOMAIN m_events : m_events[i] \in Event
  BY <1>1, <1>2, ElementOfSeq
<1> QED
  BY <1>1, <1>2, <1>3 DEF TypeOK, Distinct

\* A list whose events are, one by one, other events of m_events has each event once.
LEMMA StillDistinct ==
  ASSUME TypeOK, NEW n \in Nat, NEW s, NEW f \in [1 .. n -> DOMAIN m_events],
         s = [i \in 1 .. n |-> s[i]],
         \A i \in 1 .. n : s[i] \in Event /\ s[i].id = m_events[f[i]].id,
         \A i, j \in 1 .. n : f[i] = f[j] => i = j
  PROVE  Distinct(s) /\ DOMAIN s = 1 .. n
<1>1. s \in [1 .. n -> Event] /\ DOMAIN s = 1 .. n
  OBVIOUS
<1>2. s \in Seq(Event)
  BY <1>1, SeqDef
<1>3. ASSUME NEW i \in 1 .. n, NEW j \in 1 .. n, s[i].id = s[j].id
      PROVE  i = j
  <2>1. m_events[f[i]].id = m_events[f[j]].id
    BY <1>3
  <2>2. f[i] \in DOMAIN m_events /\ f[j] \in DOMAIN m_events
    OBVIOUS
  <2>3. f[i] = f[j]
    BY <2>1, <2>2, EventsType DEF Distinct
  <2> QED
    BY <2>3
<1> QED
  BY <1>1, <1>2, <1>3 DEF Distinct

\* An erase keeps the events that it is not about, each once.
LEMMA ErasedIs ==
  ASSUME TypeOK, NEW ids
  PROVE  /\ Distinct(Erased(ids))
         /\ \A n \in DOMAIN Erased(ids) :
              \E i \in DOMAIN m_events :
                /\ Erased(ids)[n] = m_events[i] /\ m_events[i].id \notin ids
<1> DEFINE kept == {i \in DOMAIN m_events : m_events[i].id \notin ids}
           C == Cardinality(kept)
           f == [n \in 1 .. C |-> CHOOSE i \in kept : Cardinality({k \in kept : k <= i}) = n]
           E == [n \in 1 .. C |-> m_events[f[n]]]
<1>1. kept \in SUBSET (1 .. Len(m_events)) /\ Len(m_events) \in Nat
  BY EventsType
<1>2. CASE kept = DOMAIN m_events
  <2>1. Erased(ids) = m_events
    BY <1>2 DEF Erased
  <2> QED
    BY <1>2, <2>1, EventsType
<1>3. CASE kept # DOMAIN m_events
  <2>1. C \in Nat /\ \A m \in 1 .. C : \E i \in kept : Cardinality({k \in kept : k <= i}) = m
    BY <1>1, Numbered
  <2>2. \A m \in 1 .. C : f[m] \in kept /\ Cardinality({k \in kept : k <= f[m]}) = m
    BY <2>1
  <2>3. Erased(ids) = E
    BY <1>3 DEF Erased
  <2>4. f \in [1 .. C -> DOMAIN m_events]
    BY <2>2
  <2> HIDE DEF C, f
  <2>5. \A i, j \in 1 .. C : f[i] = f[j] => i = j
    BY <2>2
  <2>6. \A m \in 1 .. C : E[m] = m_events[f[m]] /\ E[m] \in Event
    BY <2>4, EventsType
  <2>7. E = [m \in 1 .. C |-> E[m]]
    OBVIOUS
  <2> HIDE DEF E
  <2>8. Distinct(E) /\ DOMAIN E = 1 .. C
    BY <2>1, <2>4, <2>5, <2>6, <2>7, StillDistinct
  <2>9. ASSUME NEW m \in DOMAIN E
        PROVE  \E i \in DOMAIN m_events : E[m] = m_events[i] /\ m_events[i].id \notin ids
    <3>1. m \in 1 .. C
      BY <2>8
    <3>2. f[m] \in DOMAIN m_events /\ m_events[f[m]].id \notin ids
      BY <2>2, <3>1
    <3>3. E[m] = m_events[f[m]]
      BY <2>6, <3>1
    <3> QED
      BY <3>2, <3>3, Zenon
  <2> QED
    BY <2>3, <2>8, <2>9
<1> QED
  BY <1>2, <1>3

\* A change of fields in place.
LEMMA InPlace ==
  ASSUME TypeOK, NEW s, DOMAIN s = DOMAIN m_events, s = [i \in DOMAIN m_events |-> s[i]],
         \A i \in DOMAIN m_events : s[i] \in Event /\ s[i].id = m_events[i].id
  PROVE  Distinct(s)
<1> DEFINE n == Len(m_events)
           f == [i \in 1 .. n |-> i]
<1>1. n \in Nat /\ DOMAIN m_events = 1 .. n
  BY EventsType
<1>2. f \in [1 .. n -> DOMAIN m_events] /\ \A i \in 1 .. n : f[i] = i
  BY <1>1
<1> HIDE DEF n, f
<1> QED
  BY <1>1, <1>2, StillDistinct

\* ScheduleEvent arms the event of an ident.
LEMMA ScheduledIs ==
  ASSUME TypeOK, NEW id, ScheduleEvent(id)
  PROVE  /\ Distinct(m_events') /\ DOMAIN m_events' = DOMAIN m_events
         /\ \A i \in DOMAIN m_events :
              /\ m_events'[i].id = m_events[i].id
              /\ m_events'[i].triggered = m_events[i].triggered
              /\ m_events'[i].armed = (m_events[i].armed \/ m_events[i].id = id)
<1>1. \A i \in DOMAIN m_events : m_events[i] \in Event
  BY EventsType
<1>2. /\ DOMAIN m_events' = DOMAIN m_events
      /\ m_events' = [i \in DOMAIN m_events |-> m_events'[i]]
      /\ \A i \in DOMAIN m_events :
           m_events'[i] = [m_events[i] EXCEPT !.armed = @ \/ m_events[i].id = id]
  BY DEF ScheduleEvent
<1>3. ASSUME NEW i \in DOMAIN m_events
      PROVE  /\ m_events'[i] \in Event
             /\ m_events'[i].id = m_events[i].id
             /\ m_events'[i].triggered = m_events[i].triggered
             /\ m_events'[i].armed = (m_events[i].armed \/ m_events[i].id = id)
  BY <1>1, <1>2 DEF Event
<1>4. Distinct(m_events')
  BY <1>2, <1>3, InPlace
<1> QED
  BY <1>2, <1>3, <1>4

\* TriggerEvent triggers the event of an ident.
LEMMA TriggeredIs ==
  ASSUME TypeOK, NEW id, TriggerEvent(id)
  PROVE  /\ Distinct(m_events') /\ DOMAIN m_events' = DOMAIN m_events
         /\ \A i \in DOMAIN m_events :
              /\ m_events'[i].id = m_events[i].id
              /\ m_events'[i].armed = m_events[i].armed
              /\ m_events'[i].triggered = (m_events[i].triggered \/ m_events[i].id = id)
<1>1. \A i \in DOMAIN m_events : m_events[i] \in Event
  BY EventsType
<1>2. /\ DOMAIN m_events' = DOMAIN m_events
      /\ m_events' = [i \in DOMAIN m_events |-> m_events'[i]]
      /\ \A i \in DOMAIN m_events :
           m_events'[i] = [m_events[i] EXCEPT !.triggered = @ \/ m_events[i].id = id]
  BY DEF TriggerEvent
<1>3. ASSUME NEW i \in DOMAIN m_events
      PROVE  /\ m_events'[i] \in Event
             /\ m_events'[i].id = m_events[i].id
             /\ m_events'[i].armed = m_events[i].armed
             /\ m_events'[i].triggered = (m_events[i].triggered \/ m_events[i].id = id)
  BY <1>1, <1>2 DEF Event
<1>4. Distinct(m_events')
  BY <1>2, <1>3, InPlace
<1> QED
  BY <1>2, <1>3, <1>4

\* The wait of an event is complete.
LEMMA ExpiredIs ==
  ASSUME TypeOK, NEW id, Expire(id)
  PROVE  /\ Distinct(m_events') /\ DOMAIN m_events' = DOMAIN m_events
         /\ \A i \in DOMAIN m_events :
              /\ m_events'[i].id = m_events[i].id
              /\ m_events'[i].triggered = m_events[i].triggered
              /\ m_events'[i].armed = (m_events[i].armed /\ m_events[i].id # id)
<1>1. \A i \in DOMAIN m_events : m_events[i] \in Event
  BY EventsType
<1>2. /\ DOMAIN m_events' = DOMAIN m_events
      /\ m_events' = [i \in DOMAIN m_events |-> m_events'[i]]
      /\ \A i \in DOMAIN m_events :
           m_events'[i] = [m_events[i] EXCEPT !.armed = @ /\ m_events[i].id # id]
  BY DEF Expire
<1>3. ASSUME NEW i \in DOMAIN m_events
      PROVE  /\ m_events'[i] \in Event
             /\ m_events'[i].id = m_events[i].id
             /\ m_events'[i].triggered = m_events[i].triggered
             /\ m_events'[i].armed = (m_events[i].armed /\ m_events[i].id # id)
  BY <1>1, <1>2 DEF Event
<1>4. Distinct(m_events')
  BY <1>2, <1>3, InPlace
<1> QED
  BY <1>2, <1>3, <1>4

\* AddEvent appends an event that is not there.
LEMMA EnqueuedIs ==
  ASSUME TypeOK, NEW id \in Ids
  PROVE  /\ Distinct(Enqueued(id))
         /\ \A n \in DOMAIN Enqueued(id) :
              \/ \E i \in DOMAIN m_events : Enqueued(id)[n] = m_events[i]
              \/ /\ ~Registered(id)
                 /\ Enqueued(id)[n] = [id |-> id, triggered |-> FALSE, armed |-> FALSE]
<1> DEFINE e == [id |-> id, triggered |-> FALSE, armed |-> FALSE]
           Q == Append(m_events, e)
<1>1. CASE Registered(id)
  BY <1>1, EventsType DEF Enqueued
<1>2. CASE ~Registered(id)
  <2>1. e \in Event /\ m_events \in Seq(Event)
    BY EventsType DEF Event, Distinct
  <2> HIDE DEF e
  <2>2. /\ Q \in Seq(Event) /\ DOMAIN Q = 1 .. (Len(m_events) + 1)
        /\ \A n \in 1 .. (Len(m_events) + 1) :
             Q[n] = IF n <= Len(m_events) THEN m_events[n] ELSE e
    BY <2>1
  <2>3. Enqueued(id) = Q
    BY <1>2 DEF Enqueued, e
  <2> HIDE DEF Q
  <2>4. e.id = id /\ \A i \in DOMAIN m_events : m_events[i].id # id
    BY <1>2 DEF Registered, e
  <2>5. ASSUME NEW n \in DOMAIN Q
        PROVE  \/ n \in DOMAIN m_events /\ Q[n] = m_events[n]
               \/ n = Len(m_events) + 1 /\ Q[n] = e
    BY <2>2, EventsType
  <2>6. ASSUME NEW i \in DOMAIN Q, NEW j \in DOMAIN Q, Q[i].id = Q[j].id
        PROVE  i = j
    BY <2>4, <2>5, <2>6, EventsType DEF Distinct
  <2>7. Distinct(Q)
    BY <2>2, <2>6 DEF Distinct
  <2>8. \A n \in DOMAIN Q : (\E i \in DOMAIN m_events : Q[n] = m_events[i]) \/ Q[n] = e
    BY <2>5
  <2> QED
    BY <1>2, <2>3, <2>7, <2>8 DEF e
<1> QED
  BY <1>1, <1>2

\* GetTriggeredEvents erases the one-shot events it returns and clears the others.
LEMMA GotIs ==
  ASSUME TypeOK, NEW taken
  PROVE  LET G == GetTriggeredEvents(taken)
         IN  /\ Distinct(G)
             /\ \A n \in DOMAIN G : \E i \in DOMAIN m_events :
                  /\ G[n].id = m_events[i].id /\ G[n].armed = m_events[i].armed
                  /\ G[n].triggered =
                       (m_events[i].triggered /\ ~(m_events[i].id \in taken
                                                   /\ Clear(m_events[i].id)))
                  /\ ~(m_events[i].id \in taken /\ OneShot(m_events[i].id))
<1> DEFINE left == Erased(taken \cap HrTimers)
           G == [i \in DOMAIN left |->
                   [left[i] EXCEPT !.triggered =
                      @ /\ ~(left[i].id \in taken /\ Clear(left[i].id))]]
<1>1. GetTriggeredEvents(taken) = G
  BY DEF GetTriggeredEvents
<1>2. /\ Distinct(left)
      /\ \A n \in DOMAIN left : \E i \in DOMAIN m_events :
           left[n] = m_events[i] /\ m_events[i].id \notin taken \cap HrTimers
  BY ErasedIs
<1> HIDE DEF left
<1>3. \A n \in DOMAIN left : left[n] \in Event
  BY <1>2, ElementOfSeq, LenProperties DEF Distinct
<1>4. ASSUME NEW n \in DOMAIN left
      PROVE  /\ G[n] \in Event /\ G[n].id = left[n].id /\ G[n].armed = left[n].armed
             /\ G[n].triggered =
                  (left[n].triggered /\ ~(left[n].id \in taken /\ Clear(left[n].id)))
  BY <1>3 DEF Event
<1>5. DOMAIN G = DOMAIN left /\ G \in [DOMAIN left -> Event]
  BY <1>4
<1> HIDE DEF G
<1>6. Len(left) \in Nat /\ DOMAIN left = 1 .. Len(left)
  BY <1>2, LenProperties DEF Distinct
<1>7. Distinct(G)
  <2>1. G \in Seq(Event)
    BY <1>5, <1>6, SeqDef
  <2>2. \A i, j \in DOMAIN G : G[i].id = G[j].id => i = j
    BY <1>2, <1>4, <1>5 DEF Distinct
  <2> QED
    BY <2>1, <2>2 DEF Distinct
<1>8. ASSUME NEW n \in DOMAIN G
      PROVE  \E i \in DOMAIN m_events :
                  /\ G[n].id = m_events[i].id /\ G[n].armed = m_events[i].armed
                  /\ G[n].triggered =
                       (m_events[i].triggered /\ ~(m_events[i].id \in taken
                                                   /\ Clear(m_events[i].id)))
                  /\ ~(m_events[i].id \in taken /\ OneShot(m_events[i].id))
  <2>1. PICK i \in DOMAIN m_events :
               left[n] = m_events[i] /\ m_events[i].id \notin taken \cap HrTimers
    BY <1>2, <1>5
  <2> QED
    BY <1>4, <1>5, <2>1 DEF OneShot
<1> QED
  BY <1>1, <1>7, <1>8

-----------------------------------------------------------------------------
(* Threads and the service thread                                          *)

\* The states a step may leave a guest thread in.
LEMMA States ==
  /\ Idle \in ThreadStates /\ [pc |-> "notify"] \in ThreadStates
  /\ \A p \in {"schedule", "delsmall", "delhr"}, id \in Ids :
       [pc |-> p, id |-> id] \in ThreadStates
  /\ \A p \in {"spin", "awake", "blocked"}, num \in Nums, timed \in BOOLEAN :
       [pc |-> p, num |-> num, timed |-> timed] \in ThreadStates
  /\ \A taken \in SUBSET Ids : [pc |-> "poll", taken |-> taken] \in ThreadStates
<1>1. Idle \in ThreadStates /\ [pc |-> "notify"] \in ThreadStates
  BY DEF Idle, ThreadStates
<1>2. \A p \in {"schedule", "delsmall", "delhr"}, id \in Ids :
        [pc |-> p, id |-> id] \in ThreadStates
  BY DEF ThreadStates
<1>3. \A p \in {"spin", "awake", "blocked"}, num \in Nums, timed \in BOOLEAN :
        [pc |-> p, num |-> num, timed |-> timed] \in ThreadStates
  BY DEF ThreadStates
<1>4. \A taken \in SUBSET Ids : [pc |-> "poll", taken |-> taken] \in ThreadStates
  BY DEF ThreadStates
<1> QED
  BY <1>1, <1>2, <1>3, <1>4

\* What a guest thread is where it is with.
LEMMA Fields ==
  ASSUME NEW r \in ThreadStates
  PROVE  /\ r.pc \in {"schedule", "delsmall", "delhr"} => r.id \in Ids
         /\ r.pc \in {"spin", "awake", "blocked"} =>
              /\ r.num \in Nums
              /\ \A p \in {"awake", "blocked"} : [r EXCEPT !.pc = p] \in ThreadStates
              /\ \A p \in {"awake", "blocked"} : [r EXCEPT !.pc = p].pc = p
         /\ r.pc = "poll" => r.taken \in SUBSET Ids
<1>1. CASE r \in [pc : {"idle", "notify"}]
  BY <1>1
<1>2. CASE r \in [pc : {"schedule", "delsmall", "delhr"}, id : Ids]
  BY <1>2
<1>3. CASE r \in [pc : {"spin", "awake", "blocked"}, num : Nums, timed : BOOLEAN]
  <2>1. r.pc \in {"spin", "awake", "blocked"} /\ r.num \in Nums
    BY <1>3
  <2>2. ASSUME NEW p \in {"awake", "blocked"}
        PROVE  [r EXCEPT !.pc = p] \in ThreadStates /\ [r EXCEPT !.pc = p].pc = p
    BY <1>3 DEF ThreadStates
  <2> QED
    BY <2>1, <2>2
<1>4. CASE r \in [pc : {"poll"}, taken : SUBSET Ids]
  BY <1>4
<1> QED
  BY <1>1, <1>2, <1>3, <1>4 DEF ThreadStates

\* A guest thread goes to another state; those that add a timer stay where they are.
LEMMA ThreadGoes ==
  ASSUME TypeOK, NEW t \in Threads, NEW r \in ThreadStates, th' = [th EXCEPT ![t] = r]
  PROVE  /\ th' \in [Threads -> ThreadStates] /\ th'[t] = r
         /\ \A u \in Threads \ {t} : th'[u] = th[u]
BY DEF TypeOK

\* A notification wakes one of the blocked threads, if there is one.
LEMMA NotifyIs ==
  ASSUME NEW s \in [Threads -> ThreadStates], NEW r \in NotifyOne(s)
  PROVE  /\ r \in [Threads -> ThreadStates]
         /\ \/ r = s /\ \A u \in Threads : s[u].pc # "blocked"
            \/ \E u \in Threads : /\ s[u].pc = "blocked" /\ r[u].pc = "awake"
                                  /\ \A v \in Threads \ {u} : r[v] = s[v]
<1>1. CASE \A u \in Threads : s[u].pc # "blocked"
  BY <1>1 DEF NotifyOne
<1>2. CASE \E u \in Threads : s[u].pc = "blocked"
  <2>1. PICK u \in Threads : s[u].pc = "blocked" /\ r = [s EXCEPT ![u].pc = "awake"]
    BY <1>2 DEF NotifyOne
  <2>2. s[u] \in ThreadStates
    OBVIOUS
  <2>3. [s[u] EXCEPT !.pc = "awake"] \in ThreadStates /\ [s[u] EXCEPT !.pc = "awake"].pc = "awake"
    BY <2>1, <2>2, Fields
  <2>4. r = [s EXCEPT ![u] = [s[u] EXCEPT !.pc = "awake"]]
    BY <2>1
  <2>5. r \in [Threads -> ThreadStates] /\ r[u].pc = "awake" /\ \A v \in Threads \ {u} : r[v] = s[v]
    BY <2>3, <2>4
  <2> QED
    BY <2>1, <2>5
<1> QED
  BY <1>1, <1>2

\* The states of the service thread.
LEMMA ServiceFields ==
  ASSUME TypeOK
  PROVE  svc.pc \in {"trigger", "notify", "reschedule"} =>
           /\ svc.id \in Timed
           /\ \A p \in {"notify", "reschedule"} :
                /\ [svc EXCEPT !.pc = p] \in ServiceStates
                /\ [svc EXCEPT !.pc = p].pc = p /\ [svc EXCEPT !.pc = p].id = svc.id
<1>1. CASE svc \in [pc : {"sleep", "run", "returned"}]
  BY <1>1
<1>2. CASE svc \in [pc : {"trigger", "notify", "reschedule"}, id : Timed]
  BY <1>2 DEF ServiceStates
<1> QED
  BY <1>1, <1>2 DEF TypeOK, ServiceStates

-----------------------------------------------------------------------------
(* What keeps the timers alive                                             *)

\* The parts of the type invariant in the next state.
LEMMA TypeFrom ==
  ASSUME Distinct(m_events'), m_small_timers' \in [HrTimers -> {"none", "running", "due"}],
         th' \in [Threads -> ThreadStates], handlers' \in Seq(Timed),
         svc' \in ServiceStates, asio_requests' \in BOOLEAN
  PROVE  TypeOK'
BY DEF TypeOK, Distinct, Event

\* The handler of a timer is still queued or in hand, and a thread still adds it, when
\* only threads that add no timer move.
LEMMA CaredKept ==
  ASSUME UNCHANGED <<handlers, svc>>, NEW id, Cared(id),
         \A u \in Threads : th[u].pc = "schedule" => th'[u] = th[u]
  PROVE  Cared(id)'
BY DEF Cared, Queued, InHand, BeingAdded, At

\* A list whose events are old ones, with their waits and their one-shot triggers, or
\* new ones that some thread adds, keeps the timers alive.
LEMMA TimersKept ==
  ASSUME TimerInv, \A id \in Timed : Cared(id) => Cared(id)',
         \A n \in DOMAIN m_events' :
           \/ m_events'[n].id \notin Timed
           \/ Cared(m_events[n].id)'
           \/ \E i \in DOMAIN m_events :
                /\ m_events'[n].id = m_events[i].id
                /\ m_events[i].armed => m_events'[n].armed
                /\ OneShot(m_events[i].id) /\ m_events[i].triggered => m_events'[n].triggered
  PROVE  TimerInv'
<1> SUFFICES ASSUME NEW n \in DOMAIN m_events', m_events'[n].id \in Timed,
                    ~Cared(m_events[n].id)'
             PROVE  \/ m_events'[n].armed
                    \/ OneShot(m_events'[n].id) /\ m_events'[n].triggered
  BY DEF TimerInv, OneShot
<1>1. PICK i \in DOMAIN m_events :
        /\ m_events'[n].id = m_events[i].id
        /\ m_events[i].armed => m_events'[n].armed
        /\ OneShot(m_events[i].id) /\ m_events[i].triggered => m_events'[n].triggered
  OBVIOUS
<1>2. PICK id \in Timed : id = m_events[i].id
  BY <1>1
<1>3. ~Cared(id)
  <2>1. ~Cared(id)'
    BY <1>1, <1>2 DEF Cared, Queued, InHand, BeingAdded, OneShot
  <2> QED
    BY <2>1
<1>4. m_events[i].armed \/ (OneShot(m_events[i].id) /\ m_events[i].triggered)
  BY <1>2, <1>3 DEF TimerInv
<1> QED
  BY <1>1, <1>4

\* A step of a guest thread that schedules nothing.
LEMMA GuestKeeps ==
  ASSUME IInv, UNCHANGED Guest, asio_requests' = asio_requests,
         Distinct(m_events'), m_small_timers' \in [HrTimers -> {"none", "running", "due"}],
         th' \in [Threads -> ThreadStates],
         \A u \in Threads : th[u].pc = "schedule" => th'[u] = th[u],
         \A n \in DOMAIN m_events' :
           \/ m_events'[n].id \notin Timed
           \/ Cared(m_events[n].id)'
           \/ \E i \in DOMAIN m_events :
                /\ m_events'[n].id = m_events[i].id
                /\ m_events[i].armed => m_events'[n].armed
                /\ OneShot(m_events[i].id) /\ m_events[i].triggered => m_events'[n].triggered
  PROVE  IInv'
<1>1. handlers' = handlers /\ svc' = svc
  BY DEF Guest
<1>2. TypeOK'
  BY <1>1, TypeFrom DEF IInv, TypeOK
<1>3. \A id \in Timed : Cared(id) => Cared(id)'
  BY <1>1, CaredKept
<1>4. TimerInv'
  BY <1>3, TimersKept DEF IInv
<1> QED
  BY <1>2, <1>4 DEF IInv

\* The same, of a step that leaves the events alone.
LEMMA GuestMoves ==
  ASSUME IInv, UNCHANGED <<m_events, asio_requests, Guest>>,
         m_small_timers' \in [HrTimers -> {"none", "running", "due"}],
         th' \in [Threads -> ThreadStates],
         \A u \in Threads : th[u].pc = "schedule" => th'[u] = th[u]
  PROVE  IInv'
<1>1. Distinct(m_events')
  BY EventsType DEF IInv
<1>2. \A n \in DOMAIN m_events' : \E i \in DOMAIN m_events :
        /\ m_events'[n].id = m_events[i].id
        /\ m_events[i].armed => m_events'[n].armed
        /\ OneShot(m_events[i].id) /\ m_events[i].triggered => m_events'[n].triggered
  OBVIOUS
<1> QED
  BY <1>1, <1>2, GuestKeeps

-----------------------------------------------------------------------------
(* Guest calls                                                             *)

\* AddEvent: a new timer is being added by the thread that will schedule it.
LEMMA AddEventKeeps ==
  ASSUME IInv, NEW t \in Threads, NEW id \in Ids, Calls(t), AddEvent(t, id)
  PROVE  IInv'
<1>1. TypeOK /\ m_events' = Enqueued(id) /\ th[t].pc = "idle"
  BY DEF IInv, AddEvent, Calls, Idle
<1>2. /\ Distinct(m_events')
      /\ \A n \in DOMAIN m_events' :
           \/ \E i \in DOMAIN m_events : m_events'[n] = m_events[i]
           \/ ~Registered(id) /\ m_events'[n] = [id |-> id, triggered |-> FALSE, armed |-> FALSE]
  BY <1>1, EnqueuedIs
<1>3. CASE id \in Timed /\ ~Registered(id)
  <2>1. th' = [th EXCEPT ![t] = [pc |-> "schedule", id |-> id]]
    BY <1>3 DEF AddEvent
  <2>2. /\ th' \in [Threads -> ThreadStates] /\ th'[t] = [pc |-> "schedule", id |-> id]
        /\ \A u \in Threads \ {t} : th'[u] = th[u]
    BY <1>1, <2>1, States, ThreadGoes
  <2>3. Cared(id)'
    BY <2>2 DEF Cared, BeingAdded, At
  <2>4. ASSUME NEW n \in DOMAIN m_events'
        PROVE  \/ m_events'[n].id \notin Timed
               \/ Cared(m_events[n].id)'
               \/ \E i \in DOMAIN m_events :
                    /\ m_events'[n].id = m_events[i].id
                    /\ m_events[i].armed => m_events'[n].armed
                    /\ OneShot(m_events[i].id) /\ m_events[i].triggered => m_events'[n].triggered
    <3>1. CASE \E i \in DOMAIN m_events : m_events'[n] = m_events[i]
      BY <3>1
    <3>2. CASE m_events'[n] = [id |-> id, triggered |-> FALSE, armed |-> FALSE]
      <4>1. m_events'[n].id = id
        BY <3>2
      <4>2. Cared(m_events[n].id)'
        BY <2>3, <4>1 DEF Cared, Queued, InHand, BeingAdded, OneShot
      <4> QED
        BY <4>2
    <3> QED
      BY <1>2, <3>1, <3>2
  <2> QED
    BY <1>1, <1>2, <2>2, <2>4, GuestKeeps DEF AddEvent, TypeOK
<1>4. CASE ~(id \in Timed /\ ~Registered(id))
  <2>1. th' = th
    BY <1>4 DEF AddEvent
  <2>2. ASSUME NEW n \in DOMAIN m_events'
        PROVE  \/ m_events'[n].id \notin Timed
               \/ \E i \in DOMAIN m_events : m_events'[n] = m_events[i]
    <3>1. CASE ~Registered(id) /\ m_events'[n] = [id |-> id, triggered |-> FALSE, armed |-> FALSE]
      BY <1>4, <3>1
    <3> QED
      BY <1>2, <3>1
  <2>3. th' \in [Threads -> ThreadStates]
    BY <1>1, <2>1 DEF TypeOK
  <2> QED
    BY <1>1, <1>2, <2>1, <2>2, <2>3, GuestKeeps DEF AddEvent, TypeOK
<1> QED
  BY <1>3, <1>4

\* AddSmallTimer touches only the small timers.
LEMMA AddSmallTimerKeeps ==
  ASSUME IInv, NEW id \in HrTimers, AddSmallTimer(id)
  PROVE  IInv'
<1>1. m_small_timers' \in [HrTimers -> {"none", "running", "due"}]
  BY DEF IInv, TypeOK, AddSmallTimer
<1>2. th' \in [Threads -> ThreadStates]
  BY DEF IInv, TypeOK, AddSmallTimer
<1> QED
  BY <1>1, <1>2, GuestMoves DEF AddSmallTimer

\* A timer that is scheduled has a wait.
LEMMA AddSchedulesKeeps ==
  ASSUME IInv, NEW t \in Threads, AddSchedules(t)
  PROVE  IInv'
<1> DEFINE id == th[t].id
<1>1. TypeOK /\ th[t].pc = "schedule" /\ ScheduleEvent(id) /\ handlers' = handlers /\ svc' = svc
  BY DEF IInv, AddSchedules, Guest
<1>2. /\ Distinct(m_events') /\ DOMAIN m_events' = DOMAIN m_events
      /\ \A i \in DOMAIN m_events :
           /\ m_events'[i].id = m_events[i].id
           /\ m_events'[i].triggered = m_events[i].triggered
           /\ m_events'[i].armed = (m_events[i].armed \/ m_events[i].id = id)
  BY <1>1, ScheduledIs
<1>3. /\ th' \in [Threads -> ThreadStates] /\ \A u \in Threads \ {t} : th'[u] = th[u]
  BY <1>1, States, ThreadGoes DEF AddSchedules
<1>4. TypeOK'
  <2>1. asio_requests' \in BOOLEAN
    BY <1>1 DEF ScheduleEvent
  <2>2. m_small_timers' = m_small_timers
    BY DEF AddSchedules
  <2> QED
    BY <1>1, <1>2, <1>3, <2>1, <2>2, TypeFrom DEF TypeOK
<1>5. ASSUME NEW x, Cared(x), x # id
      PROVE  Cared(x)'
  BY <1>1, <1>3, <1>5 DEF Cared, Queued, InHand, BeingAdded, At
<1>6. TimerInv'
  <2> SUFFICES ASSUME NEW i \in DOMAIN m_events, m_events[i].id \in Timed, m_events[i].id # id,
                      ~m_events[i].armed, ~(OneShot(m_events[i].id) /\ m_events[i].triggered)
               PROVE  Cared(m_events[i].id)'
    BY <1>2 DEF TimerInv, OneShot
  <2>1. PICK x : x = m_events[i].id
    OBVIOUS
  <2>2. Cared(x)
    BY <2>1 DEF IInv, TimerInv
  <2>3. Cared(x)'
    BY <1>5, <2>1, <2>2
  <2>4. x = m_events'[i].id
    BY <1>2, <2>1
  <2> QED
    BY <2>3, <2>4 DEF Cared, Queued, InHand, BeingAdded, OneShot
<1> QED
  BY <1>4, <1>6 DEF IInv

\* DeleteEvent removes one event.
LEMMA DeleteEventKeeps ==
  ASSUME IInv, NEW t \in Threads, DeleteEvent(t)
  PROVE  IInv'
<1>1. PICK ids : m_events' = Erased(ids)
  BY DEF DeleteEvent, Removed
<1>2. TypeOK
  BY DEF IInv
<1>3. /\ Distinct(m_events')
      /\ \A n \in DOMAIN m_events' : \E i \in DOMAIN m_events : m_events'[n] = m_events[i]
  BY <1>1, <1>2, ErasedIs
<1>4. th' \in [Threads -> ThreadStates] /\ th' = th
  BY <1>2 DEF TypeOK, DeleteEvent
<1> QED
  BY <1>2, <1>3, <1>4, GuestKeeps DEF DeleteEvent, TypeOK

\* The two steps of sceKernelDeleteHRTimerEvent.
LEMMA DeleteHRKeeps ==
  ASSUME IInv, NEW t \in Threads, DeleteHRTimerEvent(t) \/ DeleteHRTimerRemoves(t)
  PROVE  IInv'
<1>1. TypeOK
  BY DEF IInv
<1>2. CASE DeleteHRTimerEvent(t)
  <2>1. PICK id \in HrTimers :
          th' = [th EXCEPT ![t] = [pc |-> IF HasSmallTimer THEN "delsmall" ELSE "delhr",
                                   id |-> id]]
    BY <1>2 DEF DeleteHRTimerEvent
  <2>2. [pc |-> IF HasSmallTimer THEN "delsmall" ELSE "delhr", id |-> id] \in ThreadStates
    BY States DEF Ids, Timed
  <2>3. th[t].pc = "idle"
    BY <1>2 DEF DeleteHRTimerEvent, Calls, Idle
  <2>4. th' \in [Threads -> ThreadStates] /\ \A u \in Threads \ {t} : th'[u] = th[u]
    BY <1>1, <2>1, <2>2, ThreadGoes
  <2> QED
    BY <1>1, <1>2, <2>3, <2>4, GuestMoves DEF DeleteHRTimerEvent, TypeOK
<1>3. CASE DeleteHRTimerRemoves(t)
  <2>1. th[t].pc \in {"delsmall", "delhr"} /\ th' = [th EXCEPT ![t] = Idle]
    BY <1>3 DEF DeleteHRTimerRemoves
  <2>2. th' \in [Threads -> ThreadStates] /\ \A u \in Threads \ {t} : th'[u] = th[u]
    BY <1>1, <2>1, States, ThreadGoes
  <2>3. CASE th[t].pc = "delsmall"
    <3>1. m_small_timers' \in [HrTimers -> {"none", "running", "due"}] /\ m_events' = m_events
      BY <1>1, <1>3, <2>3 DEF DeleteHRTimerRemoves, TypeOK
    <3> QED
      BY <1>3, <2>1, <2>2, <3>1, GuestMoves DEF DeleteHRTimerRemoves
  <2>4. CASE th[t].pc = "delhr"
    <3>1. m_events' = Erased({th[t].id}) /\ m_small_timers' = m_small_timers
      BY <1>3, <2>4 DEF DeleteHRTimerRemoves, Removed
    <3>2. /\ Distinct(m_events')
          /\ \A n \in DOMAIN m_events' : \E i \in DOMAIN m_events : m_events'[n] = m_events[i]
      BY <1>1, <3>1, ErasedIs
    <3> QED
      BY <1>1, <1>3, <2>1, <2>2, <3>1, <3>2, GuestKeeps DEF DeleteHRTimerRemoves, TypeOK
  <2> QED
    BY <2>1, <2>3, <2>4
<1> QED
  BY <1>2, <1>3

\* A trigger by a guest thread, and its notification.
LEMMA TriggerKeeps ==
  ASSUME IInv, NEW t \in Threads, TriggerUserEvent(t) \/ TriggerNotifies(t)
  PROVE  IInv'
<1>1. TypeOK
  BY DEF IInv
<1>2. CASE TriggerUserEvent(t)
  <2>1. PICK id \in Users : TriggerEvent(id)
    BY <1>2 DEF TriggerUserEvent
  <2>2. /\ Distinct(m_events') /\ DOMAIN m_events' = DOMAIN m_events
        /\ \A i \in DOMAIN m_events :
             /\ m_events'[i].id = m_events[i].id
             /\ m_events'[i].armed = m_events[i].armed
             /\ m_events'[i].triggered = (m_events[i].triggered \/ m_events[i].id = id)
    BY <1>1, <2>1, TriggeredIs
  <2>3. th[t].pc = "idle"
    BY <1>2 DEF TriggerUserEvent, Calls, Idle
  <2>4. th' \in [Threads -> ThreadStates] /\ \A u \in Threads \ {t} : th'[u] = th[u]
    BY <1>1, <1>2, States, ThreadGoes DEF TriggerUserEvent
  <2>5. \A n \in DOMAIN m_events' : \E i \in DOMAIN m_events :
          /\ m_events'[n].id = m_events[i].id
          /\ m_events[i].armed => m_events'[n].armed
          /\ OneShot(m_events[i].id) /\ m_events[i].triggered => m_events'[n].triggered
    BY <2>2
  <2> QED
    BY <1>1, <1>2, <2>2, <2>3, <2>4, <2>5, GuestKeeps DEF TriggerUserEvent, TypeOK
<1>3. CASE TriggerNotifies(t)
  <2> DEFINE s == [th EXCEPT ![t] = Idle]
  <2>1. s \in [Threads -> ThreadStates] /\ \A u \in Threads : th[u].pc = "schedule" => s[u] = th[u]
    BY <1>1, <1>3, States DEF TypeOK, TriggerNotifies
  <2>2. th' \in NotifyOne(s)
    BY <1>3 DEF TriggerNotifies
  <2> HIDE DEF s
  <2>3. /\ th' \in [Threads -> ThreadStates]
        /\ \A u \in Threads : s[u].pc = "schedule" => th'[u] = s[u]
    BY <2>1, <2>2, NotifyIs
  <2> QED
    BY <1>1, <1>3, <2>1, <2>3, GuestMoves DEF TriggerNotifies, TypeOK
<1> QED
  BY <1>2, <1>3

\* What GetTriggeredEvents leaves is alive.
LEMMA GotKeeps ==
  ASSUME IInv, NEW t \in Threads, NEW taken, m_events' = GetTriggeredEvents(taken),
         th' = [th EXCEPT ![t] = Idle], th[t].pc # "schedule",
         UNCHANGED <<m_small_timers, asio_requests, Guest>>
  PROVE  IInv'
<1>1. TypeOK
  BY DEF IInv
<1>2. /\ Distinct(m_events')
      /\ \A n \in DOMAIN m_events' : \E i \in DOMAIN m_events :
           /\ m_events'[n].id = m_events[i].id /\ m_events'[n].armed = m_events[i].armed
           /\ m_events'[n].triggered =
                (m_events[i].triggered /\ ~(m_events[i].id \in taken /\ Clear(m_events[i].id)))
           /\ ~(m_events[i].id \in taken /\ OneShot(m_events[i].id))
  BY <1>1, GotIs
<1>3. ASSUME NEW n \in DOMAIN m_events'
      PROVE  \E i \in DOMAIN m_events :
               /\ m_events'[n].id = m_events[i].id
               /\ m_events[i].armed => m_events'[n].armed
               /\ OneShot(m_events[i].id) /\ m_events[i].triggered => m_events'[n].triggered
  <2>1. PICK i \in DOMAIN m_events :
          /\ m_events'[n].id = m_events[i].id /\ m_events'[n].armed = m_events[i].armed
          /\ m_events'[n].triggered =
               (m_events[i].triggered /\ ~(m_events[i].id \in taken /\ Clear(m_events[i].id)))
          /\ ~(m_events[i].id \in taken /\ OneShot(m_events[i].id))
    BY <1>2
  <2> QED
    BY <2>1
<1>4. th' \in [Threads -> ThreadStates] /\ \A u \in Threads \ {t} : th'[u] = th[u]
  BY <1>1, States, ThreadGoes
<1> QED
  BY <1>1, <1>2, <1>3, <1>4, GuestKeeps DEF TypeOK

\* The waits and the poll.
LEMMA WaitKeeps ==
  ASSUME IInv, NEW t \in Threads,
         \/ WaitForEvents(t) \/ WaitWakes(t) \/ WaitExpires(t) \/ WaitForSmallTimer(t)
         \/ Poll(t) \/ PollClears(t)
  PROVE  IInv'
<1>1. TypeOK
  BY DEF IInv
<1>2. CASE WaitForEvents(t)
  <2>1. PICK num \in Nums, timed \in BOOLEAN :
          th' = [th EXCEPT ![t] = [pc |-> IF HasSmallTimer THEN "spin" ELSE "awake",
                                   num |-> num, timed |-> timed]]
    BY <1>2 DEF WaitForEvents
  <2>2. [pc |-> IF HasSmallTimer THEN "spin" ELSE "awake", num |-> num, timed |-> timed]
          \in ThreadStates
    BY States
  <2>3. th[t].pc = "idle"
    BY <1>2 DEF WaitForEvents, Calls, Idle
  <2>4. th' \in [Threads -> ThreadStates] /\ \A u \in Threads \ {t} : th'[u] = th[u]
    BY <1>1, <2>1, <2>2, ThreadGoes
  <2> QED
    BY <1>1, <1>2, <2>3, <2>4, GuestMoves DEF WaitForEvents, TypeOK
<1>3. CASE WaitWakes(t)
  <2>1. th[t].pc = "awake" /\ th[t] \in ThreadStates
    BY <1>1, <1>3 DEF WaitWakes, TypeOK
  <2>2. CASE Triggered = {}
    <3> DEFINE r == [th[t] EXCEPT !.pc = "blocked"]
    <3>1. th' = [th EXCEPT ![t] = r] /\ m_events' = m_events
      BY <1>3, <2>2 DEF WaitWakes
    <3>2. r \in ThreadStates
      BY <2>1, Fields
    <3> HIDE DEF r
    <3>3. th' \in [Threads -> ThreadStates] /\ \A u \in Threads \ {t} : th'[u] = th[u]
      BY <1>1, <3>1, <3>2, ThreadGoes
    <3> QED
      BY <1>1, <1>3, <2>1, <3>1, <3>3, GuestMoves DEF WaitWakes, TypeOK
  <2>3. CASE Triggered # {}
    BY <1>3, <2>1, <2>3, GotKeeps DEF WaitWakes
  <2> QED
    BY <2>2, <2>3
<1>4. CASE WaitExpires(t)
  BY <1>4, GotKeeps DEF WaitExpires
<1>5. CASE WaitForSmallTimer(t)
  <2>1. th[t].pc = "spin" /\ th' = [th EXCEPT ![t] = Idle]
    BY <1>5 DEF WaitForSmallTimer
  <2>2. th' \in [Threads -> ThreadStates] /\ \A u \in Threads \ {t} : th'[u] = th[u]
    BY <1>1, <2>1, States, ThreadGoes
  <2>3. m_small_timers' \in [HrTimers -> {"none", "running", "due"}]
    <3>1. \/ m_small_timers' = m_small_timers
          \/ \E gone : m_small_timers' =
               [id \in HrTimers |-> IF id \in gone THEN "none" ELSE m_small_timers[id]]
      BY <1>5, Zenon DEF WaitForSmallTimer
    <3> QED
      BY <1>1, <3>1 DEF TypeOK
  <2> QED
    BY <1>5, <2>1, <2>2, <2>3, GuestMoves DEF WaitForSmallTimer
<1>6. CASE Poll(t)
  <2>1. PICK num \in Nums : th' = [th EXCEPT ![t] = [pc |-> "poll", taken |-> Taken(num)]]
    BY <1>6 DEF Poll
  <2>2. Taken(num) \in SUBSET Ids
    BY <1>1, EventsType DEF Taken, Event
  <2>3. [pc |-> "poll", taken |-> Taken(num)] \in ThreadStates
    BY <2>2, States
  <2>4. th[t].pc = "idle"
    BY <1>6 DEF Poll, Idle
  <2>5. th' \in [Threads -> ThreadStates] /\ \A u \in Threads \ {t} : th'[u] = th[u]
    BY <1>1, <2>1, <2>3, ThreadGoes
  <2> QED
    BY <1>1, <1>6, <2>4, <2>5, GuestMoves DEF Poll, TypeOK
<1>7. CASE PollClears(t)
  BY <1>7, GotKeeps DEF PollClears
<1> QED
  BY <1>2, <1>3, <1>4, <1>5, <1>6, <1>7

\* The clock.
LEMMA SmallTimerKeeps ==
  ASSUME IInv, SmallTimerDue
  PROVE  IInv'
<1>1. m_small_timers' \in [HrTimers -> {"none", "running", "due"}]
  BY DEF SmallTimerDue, IInv, TypeOK
<1>2. th' \in [Threads -> ThreadStates] /\ th' = th
  BY DEF SmallTimerDue, IInv, TypeOK
<1> QED
  BY <1>1, <1>2, GuestMoves DEF SmallTimerDue

-----------------------------------------------------------------------------
(* The service thread                                                      *)

\* A step of the service thread that leaves alone the events and the threads that add.
LEMMA ServiceKeeps ==
  ASSUME IInv, UNCHANGED <<m_events, m_small_timers>>, th' \in [Threads -> ThreadStates],
         handlers' \in Seq(Timed), svc' \in ServiceStates, asio_requests' \in BOOLEAN,
         \A i \in DOMAIN m_events : \A id \in Timed :
           id = m_events[i].id /\ Cared(id) => Cared(id)'
  PROVE  IInv'
<1>1. TypeOK'
  <2>1. Distinct(m_events')
    BY EventsType DEF IInv
  <2> QED
    BY <2>1, TypeFrom DEF IInv, TypeOK
<1>2. TimerInv'
  <2> SUFFICES ASSUME NEW i \in DOMAIN m_events, NEW id \in Timed, id = m_events[i].id,
                      ~m_events[i].armed, ~(OneShot(m_events[i].id) /\ m_events[i].triggered)
               PROVE  Cared(id)'
    <3>1. DOMAIN m_events' = DOMAIN m_events /\ m_events' = m_events
      OBVIOUS
    <3> QED
      BY <3>1 DEF TimerInv, OneShot, Cared, Queued, InHand, BeingAdded
  <2> QED
    BY DEF IInv, TimerInv
<1> QED
  BY <1>1, <1>2 DEF IInv

\* ServiceWakes, RunReturns and ResetRequests: the service thread has no handler in hand.
LEMMA LoopKeeps ==
  ASSUME IInv, ServiceWakes \/ RunReturns \/ ResetRequests
  PROVE  IInv'
<1>1. /\ UNCHANGED <<m_events, m_small_timers, th, handlers>>
      /\ svc.pc \in {"sleep", "run", "returned"}
  BY DEF ServiceWakes, RunReturns, ResetRequests
<1>4. svc' \in ServiceStates
  <2>1. PICK p \in {"sleep", "run", "returned"} : svc' = [pc |-> p]
    BY DEF ServiceWakes, RunReturns, ResetRequests
  <2> QED
    BY <2>1 DEF ServiceStates
<1>5. asio_requests' \in BOOLEAN
  BY DEF IInv, TypeOK, ServiceWakes, RunReturns, ResetRequests
<1>2. \A id \in Timed : Cared(id) => Cared(id)'
  BY <1>1 DEF Cared, Queued, InHand, BeingAdded, At
<1>3. th' \in [Threads -> ThreadStates] /\ handlers' \in Seq(Timed)
  BY <1>1 DEF IInv, TypeOK
<1> QED
  BY <1>1, <1>2, <1>3, <1>4, <1>5, ServiceKeeps

\* A wait that completes puts its handler in the queue.
LEMMA ExpireKeeps ==
  ASSUME IInv, NEW id \in Timed, Expire(id)
  PROVE  IInv'
<1>1. TypeOK /\ UNCHANGED <<m_small_timers, th, svc, asio_requests>>
  BY DEF IInv, Expire
<1>2. handlers \in Seq(Timed) /\ handlers' = Append(handlers, id)
  BY <1>1 DEF TypeOK, Expire
<1>3. /\ handlers' \in Seq(Timed) /\ Queued(id)'
      /\ \A k \in DOMAIN handlers : k \in DOMAIN handlers' /\ handlers'[k] = handlers[k]
  BY <1>2 DEF Queued
<1>4. /\ Distinct(m_events') /\ DOMAIN m_events' = DOMAIN m_events
      /\ \A i \in DOMAIN m_events :
           /\ m_events'[i].id = m_events[i].id
           /\ m_events'[i].triggered = m_events[i].triggered
           /\ m_events'[i].armed = (m_events[i].armed /\ m_events[i].id # id)
  BY <1>1, ExpiredIs
<1>5. TypeOK'
  BY <1>1, <1>3, <1>4, TypeFrom DEF TypeOK
<1>6. \A x : (Cared(x) => Cared(x)') /\ Cared(id)'
  BY <1>1, <1>3 DEF Cared, Queued, InHand, BeingAdded, At
<1>7. TimerInv'
  <2> SUFFICES ASSUME NEW i \in DOMAIN m_events, NEW x \in Timed, x = m_events[i].id,
                      ~m_events'[i].armed, ~(OneShot(x) /\ m_events[i].triggered)
               PROVE  Cared(x)'
    BY <1>4 DEF TimerInv, OneShot, Cared, Queued, InHand, BeingAdded
  <2>1. Cared(x) \/ x = id
    BY <1>4 DEF IInv, TimerInv
  <2> QED
    BY <1>6, <2>1
<1> QED
  BY <1>5, <1>7 DEF IInv

\* A handler that is called is in hand, if its event is still there or it is one shot.
LEMMA CallKeeps ==
  ASSUME IInv, CallHandler
  PROVE  IInv'
<1> DEFINE id == Head(handlers)
<1>1. TypeOK /\ UNCHANGED <<m_events, m_small_timers, th, asio_requests>>
  BY DEF IInv, CallHandler
<1>2. handlers \in Seq(Timed) /\ handlers # <<>> /\ handlers' = Tail(handlers) /\ svc.pc = "run"
  BY <1>1 DEF TypeOK, CallHandler
<1>3. /\ id \in Timed /\ handlers' \in Seq(Timed)
      /\ \A k \in DOMAIN handlers :
           handlers[k] = id \/ (k - 1 \in DOMAIN handlers' /\ handlers'[k - 1] = handlers[k])
  <2>1. /\ id \in Timed /\ handlers' \in Seq(Timed) /\ id = handlers[1]
        /\ Len(handlers') = Len(handlers) - 1
        /\ \A k \in 1 .. Len(handlers') : handlers'[k] = handlers[k + 1]
    BY <1>2, HeadTailProperties
  <2>2. /\ Len(handlers) \in Nat /\ DOMAIN handlers = 1 .. Len(handlers)
        /\ DOMAIN handlers' = 1 .. Len(handlers')
    BY <1>2, <2>1, LenProperties
  <2>3. ASSUME NEW k \in DOMAIN handlers, k # 1
        PROVE  k - 1 \in 1 .. Len(handlers') /\ handlers'[k - 1] = handlers[k]
    <3>1. k - 1 \in 1 .. Len(handlers') /\ (k - 1) + 1 = k
      BY <2>1, <2>2, <2>3
    <3> QED
      BY <2>1, <3>1
  <2> HIDE DEF id
  <2>4. ASSUME NEW k \in DOMAIN handlers
        PROVE  handlers[k] = id \/ (k - 1 \in DOMAIN handlers' /\ handlers'[k - 1] = handlers[k])
    <3>1. CASE k = 1
      BY <2>1, <3>1
    <3>2. CASE k # 1
      BY <2>2, <2>3, <3>2
    <3> QED
      BY <3>1, <3>2
  <2> QED
    BY <2>1, <2>4
<1>4. svc' = IF OneShot(id) \/ Registered(id) THEN [pc |-> "trigger", id |-> id]
             ELSE [pc |-> "run"]
  BY DEF CallHandler
<1> HIDE DEF id
<1>5. svc' \in ServiceStates
  BY <1>3, <1>4 DEF ServiceStates
<1>6. ASSUME NEW i \in DOMAIN m_events, NEW x \in Timed, x = m_events[i].id, Cared(x)
      PROVE  Cared(x)'
  <2>1. CASE x = id
    <3>1. svc' = [pc |-> "trigger", id |-> id]
      BY <1>4, <1>6, <2>1 DEF Registered
    <3> QED
      BY <2>1, <3>1 DEF Cared, InHand, OneShot
  <2>2. CASE x # id
    BY <1>1, <1>2, <1>3, <1>6, <2>2 DEF Cared, Queued, InHand, BeingAdded, At
  <2> QED
    BY <2>1, <2>2
<1>7. th' \in [Threads -> ThreadStates] /\ asio_requests' \in BOOLEAN
  BY <1>1 DEF TypeOK
<1> QED
  BY <1>1, <1>3, <1>5, <1>6, <1>7, ServiceKeeps

\* The handler triggers its event.
LEMMA CallbackTriggersKeeps ==
  ASSUME IInv, CallbackTriggers
  PROVE  IInv'
<1> DEFINE id == svc.id
<1>1. /\ TypeOK /\ UNCHANGED <<m_small_timers, th, handlers, asio_requests>>
      /\ svc.pc = "trigger" /\ TriggerEvent(id) /\ svc' = [svc EXCEPT !.pc = "notify"]
  BY DEF IInv, CallbackTriggers
<1>2. id \in Timed /\ svc' \in ServiceStates /\ svc'.pc = "notify" /\ svc'.id = id
  BY <1>1, ServiceFields
<1>3. /\ Distinct(m_events') /\ DOMAIN m_events' = DOMAIN m_events
      /\ \A i \in DOMAIN m_events :
           /\ m_events'[i].id = m_events[i].id
           /\ m_events'[i].armed = m_events[i].armed
           /\ m_events'[i].triggered = (m_events[i].triggered \/ m_events[i].id = id)
  BY <1>1, TriggeredIs
<1>4. TypeOK'
  BY <1>1, <1>2, <1>3, TypeFrom DEF TypeOK
<1>5. ASSUME NEW x, Cared(x), x # id \/ ~OneShot(x)
      PROVE  Cared(x)'
  BY <1>1, <1>2, <1>5 DEF Cared, Queued, InHand, BeingAdded, At, OneShot
<1>6. TimerInv'
  <2> SUFFICES ASSUME NEW i \in DOMAIN m_events, NEW x \in Timed, x = m_events[i].id,
                      ~m_events[i].armed, ~(OneShot(x) /\ (m_events[i].triggered \/ x = id))
               PROVE  Cared(x)'
    BY <1>3 DEF TimerInv, OneShot, Cared, Queued, InHand, BeingAdded
  <2>1. Cared(x)
    BY DEF IInv, TimerInv
  <2> QED
    BY <1>5, <2>1
<1> QED
  BY <1>4, <1>6 DEF IInv

\* The handler notifies; that of a periodic timer stays in hand.
LEMMA CallbackNotifiesKeeps ==
  ASSUME IInv, CallbackNotifies
  PROVE  IInv'
<1>1. /\ TypeOK /\ UNCHANGED <<m_events, m_small_timers, handlers, asio_requests>>
      /\ svc.pc = "notify" /\ th' \in NotifyOne(th) /\ th \in [Threads -> ThreadStates]
  BY DEF IInv, CallbackNotifies, TypeOK
<1>2. /\ th' \in [Threads -> ThreadStates]
      /\ \A u \in Threads : th[u].pc = "schedule" => th'[u] = th[u]
  BY <1>1, NotifyIs
<1>3. svc' \in ServiceStates
  <2>1. svc' = [pc |-> "run"] \/ svc' = [svc EXCEPT !.pc = "reschedule"]
    BY DEF CallbackNotifies
  <2> QED
    BY <1>1, <2>1, ServiceFields DEF ServiceStates
<1>4. ASSUME NEW x, Cared(x)
      PROVE  Cared(x)'
  <2>1. CASE InHand(x)
    <3>1. svc.id = x /\ ~OneShot(x)
      BY <1>1, <2>1 DEF InHand
    <3>2. svc' = [svc EXCEPT !.pc = "reschedule"]
      BY <3>1 DEF CallbackNotifies
    <3>3. svc'.pc = "reschedule" /\ svc'.id = x
      BY <1>1, <3>1, <3>2, ServiceFields
    <3> QED
      BY <3>1, <3>3 DEF Cared, InHand, OneShot
  <2>2. CASE Queued(x)
    BY <1>1, <2>2 DEF Cared, Queued
  <2>3. CASE BeingAdded(x)
    BY <1>2, <2>3 DEF Cared, BeingAdded, At
  <2> QED
    BY <1>4, <2>1, <2>2, <2>3 DEF Cared
<1>5. handlers' \in Seq(Timed) /\ asio_requests' \in BOOLEAN
  BY <1>1 DEF TypeOK
<1> QED
  BY <1>1, <1>2, <1>3, <1>4, <1>5, ServiceKeeps

\* The handler of a periodic timer schedules it again.
LEMMA ReschedulesKeeps ==
  ASSUME IInv, CallbackReschedules
  PROVE  IInv'
<1> DEFINE id == svc.id
<1>1. /\ TypeOK /\ UNCHANGED <<m_small_timers, th, handlers>>
      /\ svc.pc = "reschedule" /\ ScheduleEvent(id) /\ svc' = [pc |-> "run"]
  BY DEF IInv, CallbackReschedules
<1>2. /\ Distinct(m_events') /\ DOMAIN m_events' = DOMAIN m_events
      /\ \A i \in DOMAIN m_events :
           /\ m_events'[i].id = m_events[i].id
           /\ m_events'[i].triggered = m_events[i].triggered
           /\ m_events'[i].armed = (m_events[i].armed \/ m_events[i].id = id)
  BY <1>1, ScheduledIs
<1>3. svc' \in ServiceStates /\ asio_requests' \in BOOLEAN
  BY <1>1 DEF ServiceStates, ScheduleEvent
<1>4. TypeOK'
  BY <1>1, <1>2, <1>3, TypeFrom DEF TypeOK
<1>5. ASSUME NEW x, Cared(x), x # id
      PROVE  Cared(x)'
  BY <1>1, <1>5 DEF Cared, Queued, InHand, BeingAdded, At
<1>6. TimerInv'
  <2> SUFFICES ASSUME NEW i \in DOMAIN m_events, NEW x \in Timed, x = m_events[i].id, x # id,
                      ~m_events[i].armed, ~(OneShot(x) /\ m_events[i].triggered)
               PROVE  Cared(x)'
    BY <1>2 DEF TimerInv, OneShot, Cared, Queued, InHand, BeingAdded
  <2>1. Cared(x)
    BY DEF IInv, TimerInv
  <2> QED
    BY <1>5, <2>1
<1> QED
  BY <1>4, <1>6 DEF IInv

-----------------------------------------------------------------------------
(* The inductive invariant                                                 *)

\* Every step keeps the invariant.
LEMMA StepKeeps ==
  ASSUME IInv, [Next]_vars
  PROVE  IInv'
<1>1. ASSUME NEW t \in Threads, GuestCall(t)
      PROVE  IInv'
  <2>1. CASE AddTimerEvent(t)
    BY <2>1, AddEventKeeps DEF AddTimerEvent, Ids, Timed
  <2>2. CASE AddUserEvent(t)
    BY <2>2, AddEventKeeps DEF AddUserEvent, Ids
  <2>3. CASE AddHRTimerEvent(t)
    BY <2>3, AddEventKeeps, AddSmallTimerKeeps DEF AddHRTimerEvent, Ids, Timed
  <2>4. CASE DeleteEvent(t)
    BY <2>4, DeleteEventKeeps
  <2>5. CASE DeleteHRTimerEvent(t)
    BY <2>5, DeleteHRKeeps
  <2>6. CASE TriggerUserEvent(t)
    BY <2>6, TriggerKeeps
  <2>7. CASE WaitForEvents(t) \/ Poll(t)
    BY <2>7, WaitKeeps
  <2> QED
    BY <1>1, <2>1, <2>2, <2>3, <2>4, <2>5, <2>6, <2>7 DEF GuestCall
<1>2. ASSUME NEW t \in Threads, GuestStep(t)
      PROVE  IInv'
  BY <1>2, AddSchedulesKeeps, DeleteHRKeeps, TriggerKeeps, WaitKeeps DEF GuestStep
<1>3. CASE Service
  BY <1>3, LoopKeeps, CallKeeps, CallbackTriggersKeeps, CallbackNotifiesKeeps, ReschedulesKeeps
  DEF Service
<1>4. CASE UNCHANGED vars
  BY <1>4 DEF vars, IInv, TypeOK, TimerInv, OneShot, Cared, Queued, InHand, BeingAdded, At
<1> QED
  BY <1>1, <1>2, <1>3, <1>4, SmallTimerKeeps, ExpireKeeps DEF Next

\* In every reachable state of the event queue, for any threads, events and numbers of
\* events, the states have their types and the timers are cared for.
THEOREM InductiveInvariant == Spec => []IInv
<1>1. Init => IInv
  <2> SUFFICES ASSUME Init PROVE IInv
    OBVIOUS
  <2>1. TypeOK
    <3>1. m_events = <<>> /\ handlers = <<>> /\ svc = [pc |-> "sleep"] /\ asio_requests = FALSE
      BY DEF Init
    <3>2. svc \in ServiceStates
      BY <3>1 DEF ServiceStates
    <3>3. th \in [Threads -> ThreadStates]
      BY States DEF Init
    <3>4. m_small_timers \in [HrTimers -> {"none", "running", "due"}]
      BY DEF Init
    <3>5. m_events \in Seq(Event) /\ DOMAIN m_events = {} /\ handlers \in Seq(Timed)
      BY <3>1
    <3>6. asio_requests \in BOOLEAN
      BY <3>1
    <3> QED
      BY <3>2, <3>3, <3>4, <3>5, <3>6 DEF TypeOK, Event
  <2>2. TimerInv
    BY DEF Init, TimerInv
  <2> QED
    BY <2>1, <2>2 DEF IInv
<1>2. IInv /\ [Next]_vars => IInv'
  BY StepKeeps
<1> QED
  BY <1>1, <1>2, PTL DEF Spec

\* The states have their types and an event is in m_events once (AddEvent, TriggerEvent,
\* GetTriggeredEvents, RemoveEvent).
THEOREM TypeCorrect == Spec => []TypeOK
<1>1. IInv => TypeOK
  BY DEF IInv
<1> QED
  BY <1>1, InductiveInvariant, PTL

\* A registered timer never dies: TimerCallback, HrTimerCallback and ScheduleEvent hand
\* it on to each other and never drop it, whatever guest threads add, trigger, wait for
\* and delete meanwhile.
THEOREM TimersStayAlive == Spec => []TimerAlive
<1>1. IInv => TimerAlive
  BY DEF IInv, TimerInv, TimerAlive, Cared, Queued, InHand, BeingAdded
<1> QED
  BY <1>1, InductiveInvariant, PTL

-----------------------------------------------------------------------------
(* The service thread sleeps on no work                                    *)

\* A list whose events with a wait are old events with a wait has none if there was none.
LEMMA NoneArmed ==
  ASSUME Armed = {},
         \A n \in DOMAIN m_events' :
           m_events'[n].armed => \E i \in DOMAIN m_events : m_events[i].armed
  PROVE  Armed' = {}
BY DEF Armed

\* A wait begins nowhere but in ScheduleEvent, which counts a request.
LEMMA GuestArms ==
  ASSUME TypeOK, Armed = {}, ~asio_requests',
         (\E t \in Threads : GuestCall(t) \/ GuestStep(t)) \/ SmallTimerDue
  PROVE  Armed' = {}
<1>1. ASSUME NEW t \in Threads, NEW id \in Ids, AddEvent(t, id)
      PROVE  Armed' = {}
  <2>1. m_events' = Enqueued(id)
    BY <1>1 DEF AddEvent
  <2>2. \A n \in DOMAIN m_events' :
          \/ \E i \in DOMAIN m_events : m_events'[n] = m_events[i]
          \/ m_events'[n] = [id |-> id, triggered |-> FALSE, armed |-> FALSE]
    BY <2>1, EnqueuedIs
  <2>3. ASSUME NEW n \in DOMAIN m_events', m_events'[n].armed
        PROVE  \E i \in DOMAIN m_events : m_events[i].armed
    BY <2>2, <2>3
  <2> QED
    BY <2>3, NoneArmed
<1>2. ASSUME NEW ids, m_events' = Erased(ids)
      PROVE  Armed' = {}
  <2>1. \A n \in DOMAIN m_events' : \E i \in DOMAIN m_events : m_events'[n] = m_events[i]
    BY <1>2, ErasedIs
  <2>2. ASSUME NEW n \in DOMAIN m_events', m_events'[n].armed
        PROVE  \E i \in DOMAIN m_events : m_events[i].armed
    BY <2>1, <2>2
  <2> QED
    BY <2>2, NoneArmed
<1>3. ASSUME NEW taken, m_events' = GetTriggeredEvents(taken)
      PROVE  Armed' = {}
  <2>1. \A n \in DOMAIN m_events' : \E i \in DOMAIN m_events : m_events'[n].armed = m_events[i].armed
    BY <1>3, GotIs
  <2>2. ASSUME NEW n \in DOMAIN m_events', m_events'[n].armed
        PROVE  \E i \in DOMAIN m_events : m_events[i].armed
    BY <2>1, <2>2
  <2> QED
    BY <2>2, NoneArmed
<1>4. ASSUME NEW id, TriggerEvent(id)
      PROVE  Armed' = {}
  <2>1. /\ DOMAIN m_events' = DOMAIN m_events
        /\ \A i \in DOMAIN m_events : m_events'[i].armed = m_events[i].armed
    BY <1>4, TriggeredIs
  <2> QED
    BY <2>1, NoneArmed
<1>5. ASSUME NEW id, ScheduleEvent(id)
      PROVE  Armed' = {}
  <2>1. \A i \in DOMAIN m_events : m_events[i].id # id
    BY <1>5 DEF ScheduleEvent, Registered
  <2>2. /\ DOMAIN m_events' = DOMAIN m_events
        /\ \A i \in DOMAIN m_events :
             m_events'[i].armed = (m_events[i].armed \/ m_events[i].id = id)
    BY <1>5, ScheduledIs
  <2>3. \A i \in DOMAIN m_events : m_events'[i].armed => m_events[i].armed
    BY <2>1, <2>2
  <2> QED
    BY <2>2, <2>3, NoneArmed
<1>6. ASSUME m_events' = m_events
      PROVE  Armed' = {}
  BY <1>6 DEF Armed
<1>7. ASSUME NEW t \in Threads, GuestCall(t)
      PROVE  Armed' = {}
  <2>1. CASE AddTimerEvent(t)
    BY <1>1, <2>1 DEF AddTimerEvent, Ids, Timed
  <2>2. CASE AddUserEvent(t)
    BY <1>1, <2>2 DEF AddUserEvent, Ids
  <2>3. CASE AddHRTimerEvent(t)
    BY <1>1, <1>6, <2>3 DEF AddHRTimerEvent, AddSmallTimer, Ids, Timed
  <2>4. CASE DeleteEvent(t)
    BY <1>2, <2>4 DEF DeleteEvent, Removed
  <2>5. CASE TriggerUserEvent(t)
    BY <1>4, <2>5 DEF TriggerUserEvent
  <2>6. CASE DeleteHRTimerEvent(t) \/ WaitForEvents(t) \/ Poll(t)
    BY <1>6, <2>6 DEF DeleteHRTimerEvent, WaitForEvents, Poll
  <2> QED
    BY <1>7, <2>1, <2>2, <2>3, <2>4, <2>5, <2>6 DEF GuestCall
<1>8. ASSUME NEW t \in Threads, GuestStep(t)
      PROVE  Armed' = {}
  <2>1. CASE AddSchedules(t)
    BY <1>5, <2>1 DEF AddSchedules
  <2>2. CASE DeleteHRTimerRemoves(t)
    BY <1>2, <1>6, <2>2 DEF DeleteHRTimerRemoves, Removed
  <2>3. CASE WaitWakes(t)
    BY <1>3, <1>6, <2>3 DEF WaitWakes
  <2>4. CASE WaitExpires(t) \/ PollClears(t)
    BY <1>3, <2>4 DEF WaitExpires, PollClears
  <2>5. CASE TriggerNotifies(t) \/ WaitForSmallTimer(t)
    BY <1>6, <2>5 DEF TriggerNotifies, WaitForSmallTimer
  <2> QED
    BY <1>8, <2>1, <2>2, <2>3, <2>4, <2>5 DEF GuestStep
<1>9. CASE SmallTimerDue
  BY <1>6, <1>9 DEF SmallTimerDue
<1> QED
  BY <1>7, <1>8, <1>9

\* Guest steps and the clock leave the service thread and its handlers alone, and a
\* request that is counted stays counted.
LEMMA GuestLeaves ==
  ASSUME TypeOK, (\E t \in Threads : GuestCall(t) \/ GuestStep(t)) \/ SmallTimerDue
  PROVE  handlers' = handlers /\ svc' = svc /\ (asio_requests => asio_requests')
<1>1. ASSUME NEW t \in Threads, GuestCall(t)
      PROVE  UNCHANGED Guest /\ asio_requests' = asio_requests
  BY <1>1 DEF GuestCall, AddTimerEvent, AddUserEvent, AddHRTimerEvent, AddEvent, AddSmallTimer,
     DeleteEvent, DeleteHRTimerEvent, TriggerUserEvent, WaitForEvents, Poll
<1>2. ASSUME NEW t \in Threads, GuestStep(t)
      PROVE  UNCHANGED Guest /\ (asio_requests => asio_requests')
  <2>1. CASE AddSchedules(t)
    <3>1. asio_requests' = (asio_requests \/ Registered(th[t].id)) /\ UNCHANGED Guest
      BY <2>1 DEF AddSchedules, ScheduleEvent
    <3> QED
      BY <3>1
  <2>2. CASE ~AddSchedules(t)
    BY <1>2, <2>2 DEF GuestStep, DeleteHRTimerRemoves, TriggerNotifies, WaitWakes, WaitExpires,
       WaitForSmallTimer, PollClears
  <2> QED
    BY <2>1, <2>2
<1>3. CASE SmallTimerDue
  BY <1>3 DEF SmallTimerDue, Guest
<1> QED
  BY <1>1, <1>2, <1>3 DEF Guest

\* Only the reset of asio_requests leaves work to a sleeping service thread: a request is
\* counted with every wait that begins, and the service thread goes to sleep nowhere else.
THEOREM ResetStrands == Spec => OnlyResetStrands
<1>1. TypeOK /\ [Next]_vars => [~Stranded /\ Stranded' => svc.pc = "returned"]_vars
  <2> SUFFICES ASSUME TypeOK, Next, ~Stranded, Stranded', svc.pc # "returned"
               PROVE  FALSE
    OBVIOUS
  <2>1. svc'.pc = "sleep" /\ ~asio_requests' /\ Work'
    BY DEF Stranded
  <2>2. ~Service
    <3>1. ~ServiceWakes /\ ~CallHandler /\ ~CallbackReschedules /\ ~RunReturns /\ ~ResetRequests
      BY <2>1 DEF ServiceWakes, CallHandler, CallbackReschedules, RunReturns, ResetRequests
    <3>2. ~CallbackTriggers
      BY <2>1, ServiceFields DEF CallbackTriggers
    <3>3. ~CallbackNotifies
      <4> SUFFICES ASSUME CallbackNotifies PROVE FALSE
        OBVIOUS
      <4>1. svc' = [pc |-> "run"] \/ svc' = [svc EXCEPT !.pc = "reschedule"]
        BY DEF CallbackNotifies
      <4>2. svc.pc = "notify"
        BY DEF CallbackNotifies
      <4>3. [svc EXCEPT !.pc = "reschedule"].pc = "reschedule"
        BY <4>2, ServiceFields
      <4>4. CASE svc' = [pc |-> "run"]
        BY <2>1, <4>4
      <4>5. CASE svc' = [svc EXCEPT !.pc = "reschedule"]
        <5>1. svc'.pc = "reschedule"
          BY <4>3, <4>5, Zenon
        <5> QED
          BY <2>1, <5>1
      <4> QED
        BY <4>1, <4>4, <4>5
    <3> QED
      BY <3>1, <3>2, <3>3 DEF Service
  <2>3. ASSUME NEW id \in Timed PROVE ~Expire(id)
    BY <2>1 DEF Expire
  <2>4. (\E t \in Threads : GuestCall(t) \/ GuestStep(t)) \/ SmallTimerDue
    BY <2>2, <2>3 DEF Next
  <2>5. handlers' = handlers /\ svc' = svc /\ ~asio_requests
    BY <2>1, <2>4, GuestLeaves
  <2>6. Armed = {} /\ handlers = <<>>
    BY <2>1, <2>5 DEF Stranded, Work
  <2>7. Armed' = {}
    BY <2>1, <2>4, <2>6, GuestArms
  <2> QED
    BY <2>1, <2>5, <2>6, <2>7 DEF Work
<1> QED
  BY <1>1, TypeCorrect, PTL DEF Spec, OnlyResetStrands

-----------------------------------------------------------------------------
(* No trigger is lost on a blocked thread                                  *)

\* A set of naturals that is not empty has a least member.
LEMMA LeastNat ==
  ASSUME NEW T, T \subseteq Nat, T # {}
  PROVE  \E x \in T : \A y \in T : x <= y
<1> DEFINE R == OpToRel(<, Nat)
<1>1. IsWellFoundedOn(R, Nat)
  BY NatLessThanWellFounded
<1>2. R = {ss \in Nat \X Nat : ss[1] < ss[2]}
  BY DEF OpToRel
<1> HIDE DEF R
<1>3. PICK x \in T : \A y \in T : ~(<<y, x>> \in R)
  BY <1>1, WFMin
<1>4. ASSUME NEW y \in T PROVE x <= y
  <2>1. x \in Nat /\ y \in Nat
    OBVIOUS
  <2>2. CASE y < x
    <3>1. <<y, x>> \in R
      BY <1>2, <2>1, <2>2
    <3> QED
      BY <1>3, <3>1
  <2> QED
    BY <2>1, <2>2
<1> QED
  BY <1>4

\* GetTriggeredEvents takes one triggered event at least, the first.
LEMMA FirstTaken ==
  ASSUME TypeOK, Triggered # {}, NEW num \in Nat \ {0}
  PROVE  \E x \in Triggered : x \in Taken(num)
<1> DEFINE T == {j \in DOMAIN m_events : m_events[j].triggered}
<1>1. Len(m_events) \in Nat /\ DOMAIN m_events = 1 .. Len(m_events)
  BY EventsType
<1>2. T \subseteq Nat /\ T # {}
  BY <1>1 DEF Triggered
<1>3. PICK j \in T : \A k \in T : j <= k
  BY <1>2, LeastNat
<1>4. {k \in 1 .. j : m_events[k].triggered} = {j}
  <2>1. \A k \in 1 .. j : k \in DOMAIN m_events /\ k \in Nat /\ j \in Nat
    BY <1>1, <1>3
  <2>2. j \in 1 .. j
    BY <1>1, <1>3
  <2>3. ASSUME NEW k \in 1 .. j, m_events[k].triggered
        PROVE  k = j
    <3>1. k \in T
      BY <2>1, <2>3
    <3>2. j <= k /\ k <= j
      BY <1>3, <3>1
    <3> QED
      BY <2>1, <3>2
  <2> QED
    BY <1>3, <2>2, <2>3
<1>5. Cardinality({k \in 1 .. j : m_events[k].triggered}) = 1
  BY <1>4, FS_Singleton
<1>6. m_events[j].id \in Triggered
  BY <1>3 DEF Triggered
<1>7. m_events[j].id \in Taken(num)
  <2>1. 1 <= num
    OBVIOUS
  <2> QED
    BY <1>3, <1>5, <2>1 DEF Taken
<1> QED
  BY <1>6, <1>7

\* The triggered events of a list come from triggered events.
LEMMA TriggeredShrinks ==
  ASSUME \A n \in DOMAIN m_events' : m_events'[n].triggered =>
           \E i \in DOMAIN m_events : m_events'[n].id = m_events[i].id /\ m_events[i].triggered
  PROVE  Triggered' \subseteq Triggered
BY DEF Triggered

\* The events that GetTriggeredEvents returns are triggered no more.
LEMMA GotShrinks ==
  ASSUME TypeOK, Levels = {}, NEW taken, m_events' = GetTriggeredEvents(taken)
  PROVE  Triggered' \subseteq Triggered /\ \A x \in Triggered' : x \notin taken
<1>1. ASSUME NEW n \in DOMAIN m_events', m_events'[n].triggered
      PROVE  /\ m_events'[n].id \notin taken
             /\ \E i \in DOMAIN m_events : m_events'[n].id = m_events[i].id /\ m_events[i].triggered
  <2>1. PICK i \in DOMAIN m_events :
          /\ m_events'[n].id = m_events[i].id
          /\ m_events'[n].triggered =
               (m_events[i].triggered /\ ~(m_events[i].id \in taken /\ Clear(m_events[i].id)))
    BY GotIs
  <2> QED
    BY <1>1, <2>1 DEF Clear
<1>2. Triggered' \subseteq Triggered
  BY <1>1, TriggeredShrinks
<1>3. \A x \in Triggered' : x \notin taken
  BY <1>1 DEF Triggered
<1> QED
  BY <1>2, <1>3

\* A trigger adds one triggered event at most.
LEMMA TriggerGrows ==
  ASSUME TypeOK, NEW id, TriggerEvent(id)
  PROVE  Triggered' \subseteq Triggered \cup {id}
<1>1. /\ DOMAIN m_events' = DOMAIN m_events
      /\ \A i \in DOMAIN m_events :
           /\ m_events'[i].id = m_events[i].id
           /\ m_events'[i].triggered = (m_events[i].triggered \/ m_events[i].id = id)
  BY TriggeredIs
<1>2. ASSUME NEW i \in DOMAIN m_events, m_events'[i].triggered
      PROVE  m_events'[i].id \in Triggered \cup {id}
  BY <1>1, <1>2 DEF Triggered
<1> QED
  BY <1>1, <1>2 DEF Triggered

\* Fewer triggered events, no fewer threads that look for them, no new blocked thread.
LEMMA UnseenKept ==
  ASSUME UnseenInv, Triggered' \subseteq Triggered, Seekers \subseteq Seekers',
         IsFiniteSet(Seekers'), svc'.pc = "notify" <=> svc.pc = "notify",
         At("blocked")' \subseteq At("blocked")
  PROVE  UnseenInv'
<1>1. IsFiniteSet(Triggered) /\ IsFiniteSet(Seekers)
  BY DEF UnseenInv
<1>2. IsFiniteSet(Triggered') /\ Cardinality(Triggered') <= Cardinality(Triggered)
  BY <1>1, FS_Subset
<1>3. Cardinality(Seekers) <= Cardinality(Seekers')
  BY FS_Subset
<1>4. /\ Cardinality(Triggered) \in Nat /\ Cardinality(Triggered') \in Nat
      /\ Cardinality(Seekers) \in Nat /\ Cardinality(Seekers') \in Nat
  BY <1>1, <1>2, FS_CardinalityType
<1>5. ASSUME At("blocked")' # {}
      PROVE  Cardinality(Triggered') <= Cardinality(Seekers') + (IF svc'.pc = "notify" THEN 1 ELSE 0)
  <2>1. Cardinality(Triggered) <= Cardinality(Seekers) + (IF svc.pc = "notify" THEN 1 ELSE 0)
    BY <1>5 DEF UnseenInv, NoTriggerUnseen, Seekers
  <2> QED
    BY <1>2, <1>3, <1>4, <2>1
<1> QED
  BY <1>2, <1>5 DEF UnseenInv, NoTriggerUnseen, Seekers

\* A guest thread that neither looks for events nor is to block moves.
LEMMA QuietGuest ==
  ASSUME UnseenInv, NEW t \in Threads, th[t].pc \notin {"awake", "notify"},
         th'[t].pc # "blocked", \A u \in Threads \ {t} : th'[u] = th[u],
         svc'.pc = "notify" <=> svc.pc = "notify", Triggered' \subseteq Triggered
  PROVE  UnseenInv'
<1>1. Seekers \subseteq Seekers' /\ At("blocked")' \subseteq At("blocked")
  BY DEF Seekers, At
<1>2. Seekers' \subseteq Seekers \cup {t}
  BY DEF Seekers, At
<1>3. IsFiniteSet(Seekers')
  <2>1. IsFiniteSet(Seekers \cup {t})
    BY FS_AddElement DEF UnseenInv
  <2> QED
    BY <1>2, <2>1, FS_Subset
<1> QED
  BY <1>1, <1>3, UnseenKept

\* No guest thread moves.
LEMMA QuietStill ==
  ASSUME UnseenInv, th' = th, svc'.pc = "notify" <=> svc.pc = "notify",
         Triggered' \subseteq Triggered
  PROVE  UnseenInv'
<1>1. Seekers' = Seekers /\ At("blocked")' = At("blocked")
  BY DEF Seekers, At
<1> QED
  BY <1>1, UnseenKept DEF UnseenInv

\* One event is triggered, and one thread more is about to notify: a guest thread or the
\* service thread.
LEMMA TriggerCounted ==
  ASSUME UnseenInv, NEW id, Triggered' \subseteq Triggered \cup {id},
         At("blocked")' \subseteq At("blocked"),
         \/ /\ svc'.pc = svc.pc
            /\ \E t : t \notin Seekers /\ Seekers' = Seekers \cup {t}
         \/ svc.pc # "notify" /\ svc'.pc = "notify" /\ Seekers' = Seekers
  PROVE  UnseenInv'
<1>1. IsFiniteSet(Triggered) /\ IsFiniteSet(Seekers)
  BY DEF UnseenInv
<1>2. /\ IsFiniteSet(Triggered \cup {id})
      /\ Cardinality(Triggered \cup {id}) =
           IF id \in Triggered THEN Cardinality(Triggered) ELSE Cardinality(Triggered) + 1
  BY <1>1, FS_AddElement
<1>3. IsFiniteSet(Triggered') /\ Cardinality(Triggered') <= Cardinality(Triggered \cup {id})
  BY <1>2, FS_Subset
<1>4. /\ IsFiniteSet(Seekers')
      /\ \/ svc'.pc = svc.pc /\ Cardinality(Seekers') = Cardinality(Seekers) + 1
         \/ svc.pc # "notify" /\ svc'.pc = "notify" /\ Cardinality(Seekers') = Cardinality(Seekers)
  BY <1>1, FS_AddElement
<1>5. /\ Cardinality(Triggered) \in Nat /\ Cardinality(Triggered') \in Nat
      /\ Cardinality(Triggered \cup {id}) \in Nat
      /\ Cardinality(Seekers) \in Nat /\ Cardinality(Seekers') \in Nat
  BY <1>1, <1>2, <1>3, <1>4, FS_CardinalityType
<1>6. ASSUME At("blocked")' # {}
      PROVE  Cardinality(Triggered') <= Cardinality(Seekers') + (IF svc'.pc = "notify" THEN 1 ELSE 0)
  <2>1. Cardinality(Triggered) <= Cardinality(Seekers) + (IF svc.pc = "notify" THEN 1 ELSE 0)
    BY <1>6 DEF UnseenInv, NoTriggerUnseen, Seekers
  <2>2. Cardinality(Triggered') <= Cardinality(Triggered) + 1
    BY <1>2, <1>3, <1>5
  <2> QED
    BY <1>4, <1>5, <2>1, <2>2
<1> QED
  BY <1>3, <1>4, <1>6 DEF UnseenInv, NoTriggerUnseen, Seekers

\* A thread that looked for events took one: the first.
LEMMA SeekerTook ==
  ASSUME UnseenInv, NEW x \in Triggered, Triggered' \subseteq Triggered \ {x},
         NEW t \in Seekers, Seekers' = Seekers \ {t}, svc' = svc,
         At("blocked")' \subseteq At("blocked")
  PROVE  UnseenInv'
<1>1. IsFiniteSet(Triggered) /\ IsFiniteSet(Seekers)
  BY DEF UnseenInv
<1>2. IsFiniteSet(Triggered \ {x}) /\ Cardinality(Triggered \ {x}) = Cardinality(Triggered) - 1
  BY <1>1, FS_RemoveElement
<1>3. IsFiniteSet(Triggered') /\ Cardinality(Triggered') <= Cardinality(Triggered \ {x})
  BY <1>2, FS_Subset
<1>4. IsFiniteSet(Seekers') /\ Cardinality(Seekers') = Cardinality(Seekers) - 1
  BY <1>1, FS_RemoveElement
<1>5. /\ Cardinality(Triggered) \in Nat /\ Cardinality(Triggered') \in Nat
      /\ Cardinality(Seekers) \in Nat /\ Cardinality(Seekers') \in Nat
  BY <1>1, <1>3, <1>4, FS_CardinalityType
<1>6. ASSUME At("blocked")' # {}
      PROVE  Cardinality(Triggered') <= Cardinality(Seekers') + (IF svc'.pc = "notify" THEN 1 ELSE 0)
  <2>1. Cardinality(Triggered) <= Cardinality(Seekers) + (IF svc.pc = "notify" THEN 1 ELSE 0)
    BY <1>6 DEF UnseenInv, NoTriggerUnseen, Seekers
  <2>2. Cardinality(Triggered') <= Cardinality(Triggered) - 1
    BY <1>2, <1>3
  <2> QED
    BY <1>4, <1>5, <2>1, <2>2
<1> QED
  BY <1>3, <1>4, <1>6 DEF UnseenInv, NoTriggerUnseen, Seekers

\* A notification comes to its end: no thread is blocked, or one more looks for events.
LEMMA NotifyCounted ==
  ASSUME UnseenInv, Triggered' = Triggered, At("blocked")' \subseteq At("blocked"),
         IsFiniteSet(Seekers'),
         \/ At("blocked")' = {}
         \/ svc'.pc = svc.pc /\ Cardinality(Seekers') = Cardinality(Seekers)
         \/ svc.pc = "notify" /\ svc'.pc # "notify" /\ Cardinality(Seekers') = Cardinality(Seekers) + 1
  PROVE  UnseenInv'
<1>1. /\ IsFiniteSet(Triggered) /\ Cardinality(Seekers) \in Nat
      /\ Cardinality(Triggered) \in Nat
  BY FS_CardinalityType DEF UnseenInv
<1>2. ASSUME At("blocked")' # {}
      PROVE  Cardinality(Triggered') <= Cardinality(Seekers') + (IF svc'.pc = "notify" THEN 1 ELSE 0)
  <2>1. Cardinality(Triggered) <= Cardinality(Seekers) + (IF svc.pc = "notify" THEN 1 ELSE 0)
    BY <1>2 DEF UnseenInv, NoTriggerUnseen, Seekers
  <2> QED
    BY <1>1, <1>2, <2>1
<1> QED
  BY <1>1, <1>2 DEF UnseenInv, NoTriggerUnseen, Seekers


\* A guest call keeps the triggers seen.
LEMMA CallUnseen ==
  ASSUME IInv, UnseenInv, NEW t \in Threads, GuestCall(t)
  PROVE  UnseenInv'
<1>1. TypeOK /\ svc' = svc
  BY GuestLeaves DEF IInv
<1>2. th[t].pc = "idle"
  BY DEF GuestCall, AddTimerEvent, AddUserEvent, AddHRTimerEvent, DeleteEvent, DeleteHRTimerEvent,
     TriggerUserEvent, WaitForEvents, Poll, Calls, Idle
<1>3. ASSUME m_events' = m_events
      PROVE  Triggered' \subseteq Triggered
  BY <1>3 DEF Triggered
<1>4. ASSUME NEW r \in ThreadStates, th' = [th EXCEPT ![t] = r], r.pc # "blocked",
             Triggered' \subseteq Triggered
      PROVE  UnseenInv'
  <2>1. th'[t] = r /\ \A u \in Threads \ {t} : th'[u] = th[u]
    BY <1>1, <1>4, ThreadGoes
  <2>2. th'[t].pc # "blocked"
    BY <1>4, <2>1
  <2> QED
    BY <1>1, <1>2, <1>4, <2>1, <2>2, QuietGuest
<1>5. ASSUME NEW id \in Ids, AddEvent(t, id)
      PROVE  UnseenInv'
  <2>1. Triggered' \subseteq Triggered
    <3>1. m_events' = Enqueued(id)
      BY <1>5 DEF AddEvent
    <3>2. ASSUME NEW n \in DOMAIN m_events', m_events'[n].triggered
          PROVE  \E i \in DOMAIN m_events :
                   m_events'[n].id = m_events[i].id /\ m_events[i].triggered
      <4>1. \/ \E i \in DOMAIN m_events : m_events'[n] = m_events[i]
            \/ m_events'[n] = [id |-> id, triggered |-> FALSE, armed |-> FALSE]
        BY <1>1, <3>1, EnqueuedIs
      <4> QED
        BY <3>2, <4>1
    <3> QED
      BY <3>2, TriggeredShrinks
  <2>2. CASE th' = th
    BY <1>1, <2>1, <2>2, QuietStill
  <2>3. CASE th' # th
    <3>1. th' = [th EXCEPT ![t] = [pc |-> "schedule", id |-> id]]
      BY <1>5, <2>3 DEF AddEvent
    <3>2. [pc |-> "schedule", id |-> id] \in ThreadStates
      BY States
    <3> QED
      BY <1>4, <2>1, <3>1, <3>2
  <2> QED
    BY <2>2, <2>3
<1>6. CASE AddTimerEvent(t)
  BY <1>5, <1>6 DEF AddTimerEvent, Ids, Timed
<1>7. CASE AddUserEvent(t)
  BY <1>5, <1>7 DEF AddUserEvent, Ids
<1>8. CASE AddHRTimerEvent(t)
  <2>1. ASSUME NEW id \in HrTimers, AddSmallTimer(id)
        PROVE  UnseenInv'
    <3>1. th' = th /\ m_events' = m_events
      BY <2>1 DEF AddSmallTimer
    <3> QED
      BY <1>1, <1>3, <3>1, QuietStill
  <2> QED
    BY <1>5, <1>8, <2>1 DEF AddHRTimerEvent, Ids, Timed
<1>9. CASE DeleteEvent(t)
  <2>1. PICK ids : m_events' = Erased(ids)
    BY <1>9 DEF DeleteEvent, Removed
  <2>2. \A n \in DOMAIN m_events' : \E i \in DOMAIN m_events : m_events'[n] = m_events[i]
    BY <1>1, <2>1, ErasedIs
  <2>3. Triggered' \subseteq Triggered
    BY <2>2, TriggeredShrinks
  <2>4. th' = th
    BY <1>9 DEF DeleteEvent
  <2> QED
    BY <1>1, <2>3, <2>4, QuietStill
<1>10. CASE DeleteHRTimerEvent(t)
  <2>1. PICK p \in {"delsmall", "delhr"}, id \in HrTimers : th' = [th EXCEPT ![t] = [pc |-> p, id |-> id]]
    BY <1>10 DEF DeleteHRTimerEvent
  <2>2. [pc |-> p, id |-> id] \in ThreadStates
    BY States DEF Ids, Timed
  <2>3. m_events' = m_events
    BY <1>10 DEF DeleteHRTimerEvent
  <2> QED
    BY <1>3, <1>4, <2>1, <2>2, <2>3
<1>11. CASE TriggerUserEvent(t)
  <2>1. PICK id \in Users : TriggerEvent(id)
    BY <1>11 DEF TriggerUserEvent
  <2>2. th' = [th EXCEPT ![t] = [pc |-> "notify"]]
    BY <1>11 DEF TriggerUserEvent
  <2>3. th'[t].pc = "notify" /\ \A u \in Threads \ {t} : th'[u] = th[u]
    BY <1>1, <2>2, States, ThreadGoes
  <2>4. t \notin Seekers /\ Seekers' = Seekers \cup {t} /\ At("blocked")' \subseteq At("blocked")
    BY <1>2, <2>3 DEF Seekers, At
  <2>5. Triggered' \subseteq Triggered \cup {id}
    BY <1>1, <2>1, TriggerGrows
  <2> QED
    BY <1>1, <2>4, <2>5, TriggerCounted
<1>12. CASE WaitForEvents(t)
  <2>1. PICK p \in {"spin", "awake"}, num \in Nums, timed \in BOOLEAN :
          th' = [th EXCEPT ![t] = [pc |-> p, num |-> num, timed |-> timed]]
    BY <1>12 DEF WaitForEvents
  <2>2. [pc |-> p, num |-> num, timed |-> timed] \in ThreadStates
    BY States
  <2>3. m_events' = m_events
    BY <1>12 DEF WaitForEvents
  <2> QED
    BY <1>3, <1>4, <2>1, <2>2, <2>3
<1>13. CASE Poll(t)
  <2>1. PICK num \in Nums : th' = [th EXCEPT ![t] = [pc |-> "poll", taken |-> Taken(num)]]
    BY <1>13 DEF Poll
  <2>2. Taken(num) \in SUBSET Ids
    BY <1>1, EventsType DEF Taken, Event
  <2>3. [pc |-> "poll", taken |-> Taken(num)] \in ThreadStates
    BY <2>2, States
  <2>4. m_events' = m_events
    BY <1>13 DEF Poll
  <2> QED
    BY <1>3, <1>4, <2>1, <2>3, <2>4
<1> QED
  BY <1>6, <1>7, <1>8, <1>9, <1>10, <1>11, <1>12, <1>13 DEF GuestCall

\* The steps of a guest thread keep the triggers seen: one that looked for events and found
\* some took one, one that notifies has woken another.
LEMMA StepUnseen ==
  ASSUME IInv, UnseenInv, Levels = {}, NEW t \in Threads, GuestStep(t)
  PROVE  UnseenInv'
<1>1. TypeOK /\ svc' = svc /\ th[t] \in ThreadStates /\ th \in [Threads -> ThreadStates]
  BY GuestLeaves DEF IInv, TypeOK
<1>2. ASSUME m_events' = m_events
      PROVE  Triggered' \subseteq Triggered
  BY <1>2 DEF Triggered
<1>3. ASSUME th' = [th EXCEPT ![t] = Idle], th[t].pc \notin {"awake", "notify"},
             Triggered' \subseteq Triggered
      PROVE  UnseenInv'
  <2>1. th'[t] = Idle /\ \A u \in Threads \ {t} : th'[u] = th[u]
    BY <1>1, <1>3, States, ThreadGoes
  <2>2. th'[t].pc # "blocked"
    BY <2>1 DEF Idle
  <2> QED
    BY <1>1, <1>3, <2>1, <2>2, QuietGuest
<1>4. CASE AddSchedules(t)
  <2>1. /\ DOMAIN m_events' = DOMAIN m_events
        /\ \A i \in DOMAIN m_events :
             m_events'[i].id = m_events[i].id /\ m_events'[i].triggered = m_events[i].triggered
    BY <1>1, <1>4, ScheduledIs DEF AddSchedules
  <2>2. Triggered' \subseteq Triggered
    BY <2>1, TriggeredShrinks
  <2> QED
    BY <1>3, <1>4, <2>2 DEF AddSchedules
<1>5. CASE DeleteHRTimerRemoves(t)
  <2>1. m_events' = m_events \/ \E ids : m_events' = Erased(ids)
    BY <1>5 DEF DeleteHRTimerRemoves, Removed
  <2>2. ASSUME NEW ids, m_events' = Erased(ids)
        PROVE  Triggered' \subseteq Triggered
    <3>1. \A n \in DOMAIN m_events' : \E i \in DOMAIN m_events : m_events'[n] = m_events[i]
      BY <1>1, <2>2, ErasedIs
    <3> QED
      BY <3>1, TriggeredShrinks
  <2>3. Triggered' \subseteq Triggered
    BY <1>2, <2>1, <2>2
  <2>4. th' = [th EXCEPT ![t] = Idle] /\ th[t].pc \in {"delsmall", "delhr"}
    BY <1>5 DEF DeleteHRTimerRemoves
  <2> QED
    BY <1>3, <2>3, <2>4
<1>6. CASE TriggerNotifies(t)
  <2> DEFINE s == [th EXCEPT ![t] = Idle]
  <2>1. /\ s \in [Threads -> ThreadStates] /\ s[t].pc = "idle" /\ th[t].pc = "notify"
        /\ \A u \in Threads \ {t} : s[u] = th[u]
    BY <1>1, <1>6, States DEF TriggerNotifies, Idle
  <2>2. th' \in NotifyOne(s)
    BY <1>6 DEF TriggerNotifies
  <2> HIDE DEF s
  <2>3. Triggered' = Triggered
    BY <1>6 DEF TriggerNotifies, Triggered
  <2>4. t \in Seekers
    BY <2>1 DEF Seekers, At
  <2>5. /\ IsFiniteSet(Seekers \ {t}) /\ Cardinality(Seekers \ {t}) = Cardinality(Seekers) - 1
        /\ Cardinality(Seekers) \in Nat /\ Cardinality(Seekers \ {t}) \in Nat
    BY <2>4, FS_RemoveElement, FS_CardinalityType DEF UnseenInv
  <2>6. CASE th' = s /\ \A u \in Threads : s[u].pc # "blocked"
    <3>1. At("blocked")' = {} /\ Seekers' = Seekers \ {t}
      BY <2>1, <2>6 DEF Seekers, At
    <3> QED
      BY <2>3, <2>5, <3>1, NotifyCounted
  <2>7. CASE \E u \in Threads : /\ s[u].pc = "blocked" /\ th'[u].pc = "awake"
                                /\ \A v \in Threads \ {u} : th'[v] = s[v]
    <3>1. PICK u \in Threads : /\ s[u].pc = "blocked" /\ th'[u].pc = "awake"
                               /\ \A v \in Threads \ {u} : th'[v] = s[v]
      BY <2>7
    <3>2. u # t /\ th[u].pc = "blocked" /\ th'[t].pc = "idle"
      BY <2>1, <3>1
    <3>3. Seekers' = (Seekers \ {t}) \cup {u} /\ u \notin Seekers \ {t}
      BY <2>1, <3>1, <3>2 DEF Seekers, At
    <3>4. IsFiniteSet(Seekers') /\ Cardinality(Seekers') = Cardinality(Seekers \ {t}) + 1
      BY <2>5, <3>3, FS_AddElement
    <3>5. At("blocked")' \subseteq At("blocked")
      BY <2>1, <3>1, <3>2 DEF At
    <3>6. Cardinality(Seekers') = Cardinality(Seekers)
      BY <2>5, <3>4
    <3> QED
      BY <1>1, <2>3, <3>4, <3>5, <3>6, NotifyCounted
  <2> QED
    BY <2>1, <2>2, <2>6, <2>7, NotifyIs
<1>7. CASE WaitWakes(t)
  <2>1. th[t].pc = "awake" /\ t \in Seekers /\ th[t].num \in Nums
    BY <1>1, <1>7, Fields DEF WaitWakes, Seekers, At
  <2>2. CASE Triggered = {}
    <3>1. m_events' = m_events
      BY <1>7, <2>2 DEF WaitWakes
    <3>2. Triggered' = {}
      BY <2>2, <3>1 DEF Triggered
    <3> DEFINE r == [th[t] EXCEPT !.pc = "blocked"]
    <3>3. r \in ThreadStates /\ th' = [th EXCEPT ![t] = r]
      BY <1>1, <1>7, <2>1, <2>2, Fields DEF WaitWakes
    <3> HIDE DEF r
    <3>4. \A u \in Threads \ {t} : th'[u] = th[u]
      BY <1>1, <3>3, ThreadGoes
    <3>5. Seekers' \subseteq Seekers
      BY <2>1, <3>4 DEF Seekers, At
    <3>6. IsFiniteSet(Seekers') /\ Cardinality(Seekers') \in Nat
      BY <3>5, FS_Subset, FS_CardinalityType DEF UnseenInv
    <3>7. IsFiniteSet(Triggered') /\ Cardinality(Triggered') = 0
      BY <3>2, FS_EmptySet
    <3>8. Cardinality(Triggered') <= Cardinality(Seekers') + (IF svc'.pc = "notify" THEN 1 ELSE 0)
      BY <3>6, <3>7
    <3> QED
      BY <3>6, <3>7, <3>8 DEF UnseenInv, NoTriggerUnseen, Seekers
  <2>3. CASE Triggered # {}
    <3> DEFINE num == th[t].num
    <3>1. th' = [th EXCEPT ![t] = Idle] /\ m_events' = GetTriggeredEvents(Taken(num))
      BY <1>7, <2>3 DEF WaitWakes
    <3>2. num \in Nat \ {0}
      BY <2>1, EqueueAssumption
    <3> HIDE DEF num
    <3>3. PICK x \in Triggered : x \in Taken(num)
      BY <1>1, <2>3, <3>2, FirstTaken
    <3>4. Triggered' \subseteq Triggered \ {x}
      BY <1>1, <3>1, <3>3, GotShrinks
    <3>5. th'[t] = Idle /\ \A u \in Threads \ {t} : th'[u] = th[u]
      BY <1>1, <3>1, States, ThreadGoes
    <3>6. Seekers' = Seekers \ {t} /\ At("blocked")' \subseteq At("blocked")
      BY <3>5 DEF Seekers, At, Idle
    <3> QED
      BY <1>1, <2>1, <3>4, <3>6, SeekerTook
  <2> QED
    BY <2>2, <2>3
<1>8. CASE WaitExpires(t)
  <2>1. Triggered' \subseteq Triggered
    BY <1>1, <1>8, GotShrinks DEF WaitExpires
  <2> QED
    BY <1>3, <1>8, <2>1 DEF WaitExpires
<1>9. CASE WaitForSmallTimer(t)
  BY <1>2, <1>3, <1>9 DEF WaitForSmallTimer
<1>10. CASE PollClears(t)
  <2>1. Triggered' \subseteq Triggered
    BY <1>1, <1>10, GotShrinks DEF PollClears
  <2> QED
    BY <1>3, <1>10, <2>1 DEF PollClears
<1> QED
  BY <1>4, <1>5, <1>6, <1>7, <1>8, <1>9, <1>10 DEF GuestStep

\* The service thread keeps the triggers seen: its own notification counts until it wakes
\* a thread.
LEMMA ServiceUnseen ==
  ASSUME IInv, UnseenInv, Service
  PROVE  UnseenInv'
<1>1. TypeOK /\ th \in [Threads -> ThreadStates]
  BY DEF IInv, TypeOK
<1>2. CASE ServiceWakes \/ CallHandler \/ RunReturns \/ ResetRequests
  <2>1. th' = th /\ m_events' = m_events
    BY <1>2 DEF ServiceWakes, CallHandler, RunReturns, ResetRequests
  <2>2. svc.pc # "notify"
    BY <1>2 DEF ServiceWakes, CallHandler, RunReturns, ResetRequests
  <2>3. svc'.pc # "notify"
    <3>1. \/ \E p \in {"sleep", "run", "returned"} : svc' = [pc |-> p]
          \/ \E id : svc' = [pc |-> "trigger", id |-> id]
      BY <1>2 DEF ServiceWakes, CallHandler, RunReturns, ResetRequests
    <3> QED
      BY <3>1
  <2>4. Triggered' \subseteq Triggered
    BY <2>1 DEF Triggered
  <2> QED
    BY <2>1, <2>2, <2>3, <2>4, QuietStill
<1>3. CASE CallbackTriggers
  <2>1. svc.pc = "trigger" /\ th' = th /\ TriggerEvent(svc.id) /\ svc' = [svc EXCEPT !.pc = "notify"]
    BY <1>3 DEF CallbackTriggers
  <2>2. svc'.pc = "notify"
    BY <1>1, <2>1, ServiceFields
  <2>3. Triggered' \subseteq Triggered \cup {svc.id}
    BY <1>1, <2>1, TriggerGrows
  <2>4. Seekers' = Seekers /\ At("blocked")' = At("blocked")
    BY <2>1 DEF Seekers, At
  <2> QED
    BY <2>1, <2>2, <2>3, <2>4, TriggerCounted
<1>4. CASE CallbackNotifies
  <2>1. svc.pc = "notify" /\ th' \in NotifyOne(th) /\ m_events' = m_events
    BY <1>4 DEF CallbackNotifies
  <2>2. svc'.pc # "notify"
    <3>1. svc' = [pc |-> "run"] \/ svc' = [svc EXCEPT !.pc = "reschedule"]
      BY <1>4 DEF CallbackNotifies
    <3>2. [svc EXCEPT !.pc = "reschedule"].pc = "reschedule"
      BY <1>1, <2>1, ServiceFields
    <3>3. CASE svc' = [pc |-> "run"]
      BY <3>3
    <3>4. CASE svc' = [svc EXCEPT !.pc = "reschedule"]
      <4>1. svc'.pc = "reschedule"
        BY <3>2, <3>4, Zenon
      <4> QED
        BY <4>1
    <3> QED
      BY <3>1, <3>3, <3>4
  <2>3. Triggered' = Triggered
    BY <2>1 DEF Triggered
  <2>4. CASE th' = th /\ \A u \in Threads : th[u].pc # "blocked"
    <3>1. At("blocked")' = {} /\ Seekers' = Seekers
      BY <2>4 DEF Seekers, At
    <3>2. IsFiniteSet(Seekers')
      BY <3>1 DEF UnseenInv
    <3> QED
      BY <2>3, <3>1, <3>2, NotifyCounted
  <2>5. CASE \E u \in Threads : /\ th[u].pc = "blocked" /\ th'[u].pc = "awake"
                                /\ \A v \in Threads \ {u} : th'[v] = th[v]
    <3>1. PICK u \in Threads : /\ th[u].pc = "blocked" /\ th'[u].pc = "awake"
                               /\ \A v \in Threads \ {u} : th'[v] = th[v]
      BY <2>5
    <3>2. Seekers' = Seekers \cup {u} /\ u \notin Seekers /\ At("blocked")' \subseteq At("blocked")
      BY <3>1 DEF Seekers, At
    <3>3. IsFiniteSet(Seekers') /\ Cardinality(Seekers') = Cardinality(Seekers) + 1
      BY <3>2, FS_AddElement DEF UnseenInv
    <3> QED
      BY <2>1, <2>2, <2>3, <3>2, <3>3, NotifyCounted
  <2> QED
    BY <1>1, <2>1, <2>4, <2>5, NotifyIs
<1>5. CASE CallbackReschedules
  <2>1. svc.pc = "reschedule" /\ svc' = [pc |-> "run"] /\ th' = th /\ ScheduleEvent(svc.id)
    BY <1>5 DEF CallbackReschedules
  <2>2. /\ DOMAIN m_events' = DOMAIN m_events
        /\ \A i \in DOMAIN m_events :
             m_events'[i].id = m_events[i].id /\ m_events'[i].triggered = m_events[i].triggered
    BY <1>1, <2>1, ScheduledIs
  <2>3. Triggered' \subseteq Triggered
    BY <2>2, TriggeredShrinks
  <2> QED
    BY <2>1, <2>3, QuietStill
<1> QED
  BY <1>2, <1>3, <1>4, <1>5 DEF Service

\* No wakeup is lost when every event has the Clear flag: while a thread is blocked, the
\* triggered events are no more than the threads that will look for events and the
\* notifications on their way (TriggerEvent's unlock before notify_one, WaitForEvents'
\* predicate, the timeout that races them), for any number of threads and events.
THEOREM WakeupsReach ==
  ASSUME Levels = {}
  PROVE  Spec => []NoTriggerUnseen
<1>1. Init => UnseenInv
  <2> SUFFICES ASSUME Init PROVE UnseenInv
    OBVIOUS
  <2>1. Triggered = {}
    BY DEF Init, Triggered
  <2>2. Seekers = {} /\ At("blocked") = {}
    BY DEF Init, Seekers, At, Idle
  <2> QED
    BY <2>1, <2>2, FS_EmptySet DEF UnseenInv, NoTriggerUnseen
<1>2. IInv /\ UnseenInv /\ [Next]_vars => UnseenInv'
  <2> SUFFICES ASSUME IInv, UnseenInv, [Next]_vars PROVE UnseenInv'
    OBVIOUS
  <2>1. CASE SmallTimerDue
    <3>1. th' = th /\ svc' = svc /\ Triggered' = Triggered
      BY <2>1 DEF SmallTimerDue, Guest, Triggered
    <3> QED
      BY <3>1, QuietStill
  <2>2. ASSUME NEW id \in Timed, Expire(id)
        PROVE  UnseenInv'
    <3>1. /\ DOMAIN m_events' = DOMAIN m_events
          /\ \A i \in DOMAIN m_events :
               m_events'[i].id = m_events[i].id /\ m_events'[i].triggered = m_events[i].triggered
      BY <2>2, ExpiredIs DEF IInv
    <3>2. Triggered' \subseteq Triggered
      BY <3>1, TriggeredShrinks
    <3>3. th' = th /\ svc' = svc
      BY <2>2 DEF Expire
    <3> QED
      BY <3>2, <3>3, QuietStill
  <2>3. CASE UNCHANGED vars
    <3>1. th' = th /\ svc' = svc /\ Triggered' = Triggered
      BY <2>3 DEF vars, Triggered
    <3> QED
      BY <3>1, QuietStill
  <2> QED
    BY <2>1, <2>2, <2>3, CallUnseen, StepUnseen, ServiceUnseen DEF Next
<1>3. UnseenInv => NoTriggerUnseen
  BY DEF UnseenInv
<1> QED
  BY <1>1, <1>2, <1>3, InductiveInvariant, PTL DEF Spec

=============================================================================
