--------------------------- MODULE VideoOutProofs ---------------------------
(***************************************************************************)
(* Proofs about VideoOut, for any threads, buffers, frames, flip rates and *)
(* limits.  Every action is first reduced to what it does to the fields of *)
(* the state (the lemmas ...Is); the invariants are then about those.      *)
(***************************************************************************)
EXTENDS VideoOut, FiniteSetTheorems, FunctionTheorems, SequenceTheorems, NaturalsInduction,
        WellFoundedInduction, TLAPS

-----------------------------------------------------------------------------
(* Types and sequences                                                     *)

\* The sets that TypeOK is made of.
Tasks == [buf : Buffers, next : {"wait", "poll", "write", "flip", "done"}]
GpuType == [at : {"run", "sleep", "woken", "frame", "push"} \cup Crashes,
            req : Flips, in_task : BOOLEAN]
PresType == [at : {"top", "present", "status", "label", "blank"}, req : Flips]
GuestType == [at : [Guests -> {"idle", "send", "queue", "count"}],
              arg : [Guests -> Indices], calls : 0 .. MaxCalls]

\* t is s with e behind it; t is s without its first entry.
Pushed(s, t, e) ==
    /\ Len(s) \in Nat /\ Len(t) = Len(s) + 1
    /\ DOMAIN s = 1 .. Len(s) /\ DOMAIN t = 1 .. Len(t)
    /\ \A i \in 1 .. Len(s) : t[i] = s[i]
    /\ t[Len(t)] = e

Popped(s, t) ==
    /\ Len(s) \in Nat \ {0} /\ Len(t) = Len(s) - 1
    /\ DOMAIN s = 1 .. Len(s) /\ DOMAIN t = 1 .. Len(t)
    /\ \A i \in 1 .. Len(t) : t[i] = s[i + 1]
    /\ Head(s) = s[1]

\* The constants.
LEMMA Constants ==
  /\ Buffers \subseteq Nat /\ EopBuffers \cap CpuBuffers = {} /\ EopBuffers \subseteq Buffers
  /\ CpuBuffers \subseteq Buffers /\ \A bs \in Ranges : bs \subseteq Buffers
  /\ Groups \subseteq Nat /\ Rates \subseteq {0, 1} /\ IsFiniteSet(Frames)
  /\ FlipLimit \in Nat /\ MaxQueue \in Nat /\ MaxCalls \in Nat /\ Modulus \in Nat /\ Modulus > 0
  /\ Blank \notin Buffers /\ Settled \in BOOLEAN
<1>1. Buffers \subseteq Nat /\ Blank \notin Nat
  BY VideoAssumption DEF Blank
<1>2. MaxQueue \in Nat /\ Modulus \in Nat /\ Modulus > 2 * MaxQueue + 1
  BY VideoAssumption
<1> QED
  BY <1>1, <1>2, VideoAssumption DEF Buffers

\* TypeOK, one variable at a time.
LEMMA TypeIs ==
  TypeOK <=> port \in Port /\ queue \in Queue /\ gpu \in GpuType /\ pres \in PresType /\ guest \in GuestType
BY DEF TypeOK, GpuType, PresType, GuestType

\* The same of the next state.
LEMMA TypeIsNext ==
  TypeOK' <=> port' \in Port /\ queue' \in Queue /\ gpu' \in GpuType /\ pres' \in PresType /\ guest' \in GuestType
BY DEF TypeOK, GpuType, PresType, GuestType

\* The fields of the state have their types.
LEMMA Fields ==
  ASSUME TypeOK
  PROVE  /\ port.is_open \in BOOLEAN /\ port.flip_rate \in Rates \cup {0} /\ port.prev_index \in Indices
         /\ port.slots \in [Buffers -> Groups \cup {-1}] /\ port.groups \subseteq Groups
         /\ port.labels \in [Buffers -> 0 .. 1] /\ port.pending \in Int /\ port.gc \in Int
         /\ port.vblank \in 0 .. 1
         /\ queue.requests \in Seq(Flips) /\ queue.free \in Seq(Frames)
         /\ queue.commands \in Seq(Indices) /\ queue.irq \in Seq(Buffers)
         /\ queue.gfx \in Seq(Tasks) /\ queue.asc \in 0 .. MaxQueue
         /\ queue.num_submits \in 0 .. (Modulus - 1)
         /\ gpu.req \in Flips /\ gpu.in_task \in BOOLEAN
         /\ gpu.at \in {"run", "sleep", "woken", "frame", "push"} \cup Crashes
         /\ pres.req \in Flips /\ pres.at \in {"top", "present", "status", "label", "blank"}
         /\ guest.at \in [Guests -> {"idle", "send", "queue", "count"}]
         /\ guest.arg \in [Guests -> Indices] /\ guest.calls \in 0 .. MaxCalls
<1>1. /\ port.is_open \in BOOLEAN /\ port.flip_rate \in Rates \cup {0} /\ port.prev_index \in Indices
      /\ port.slots \in [Buffers -> Groups \cup {-1}] /\ port.groups \subseteq Groups
      /\ port.labels \in [Buffers -> 0 .. 1] /\ port.pending \in Int /\ port.gc \in Int
      /\ port.vblank \in 0 .. 1
  BY DEF TypeOK, Port
<1>2. /\ queue.requests \in Seq(Flips) /\ queue.free \in Seq(Frames)
      /\ queue.commands \in Seq(Indices) /\ queue.irq \in Seq(Buffers)
      /\ queue.gfx \in Seq(Tasks) /\ queue.asc \in 0 .. MaxQueue
      /\ queue.num_submits \in 0 .. (Modulus - 1)
  BY DEF TypeOK, Queue, Tasks
<1>3. /\ gpu.req \in Flips /\ gpu.in_task \in BOOLEAN
      /\ gpu.at \in {"run", "sleep", "woken", "frame", "push"} \cup Crashes
      /\ pres.req \in Flips /\ pres.at \in {"top", "present", "status", "label", "blank"}
      /\ guest.at \in [Guests -> {"idle", "send", "queue", "count"}]
      /\ guest.arg \in [Guests -> Indices] /\ guest.calls \in 0 .. MaxCalls
  BY DEF TypeOK
<1> QED
  BY <1>1, <1>2, <1>3

\* The fields of a flip and of a task have their types.
LEMMA FlipFields ==
  /\ \A r \in Flips : r.index \in Indices /\ r.eop \in BOOLEAN /\ r.frame \in Frames \cup {NoFrame}
  /\ \A x \in Tasks : x.buf \in Buffers /\ x.next \in {"wait", "poll", "write", "flip", "done"}
  /\ \A i \in Indices, e \in BOOLEAN, f \in Frames \cup {NoFrame} :
       [index |-> i, eop |-> e, frame |-> f] \in Flips
  /\ NoFlip \in Flips /\ NoFlip.index = Blank /\ NoFlip.eop = FALSE
BY DEF Flips, Tasks, NoFlip, Indices

\* Append.
LEMMA PushIs ==
  ASSUME NEW S, NEW s \in Seq(S), NEW e \in S
  PROVE  Append(s, e) \in Seq(S) /\ Pushed(s, Append(s, e), e)
<1>1. Len(s) \in Nat /\ DOMAIN s = 1 .. Len(s)
  BY LenProperties
<1>2. /\ Append(s, e) \in Seq(S) /\ Len(Append(s, e)) = Len(s) + 1
      /\ \A i \in 1 .. Len(s) : Append(s, e)[i] = s[i]
      /\ Append(s, e)[Len(s) + 1] = e
  BY AppendProperties
<1>3. DOMAIN Append(s, e) = 1 .. Len(Append(s, e))
  BY <1>2, LenProperties
<1> QED
  BY <1>1, <1>2, <1>3 DEF Pushed

\* Tail.
LEMMA PopIs ==
  ASSUME NEW S, NEW s \in Seq(S), s # <<>>
  PROVE  Tail(s) \in Seq(S) /\ Popped(s, Tail(s)) /\ Head(s) \in S
<1>1. Len(s) \in Nat \ {0} /\ DOMAIN s = 1 .. Len(s)
  BY LenProperties, EmptySeq
<1>2. /\ Head(s) \in S /\ Tail(s) \in Seq(S) /\ Len(Tail(s)) = Len(s) - 1
      /\ \A i \in 1 .. Len(Tail(s)) : Tail(s)[i] = s[i + 1]
  BY HeadTailProperties
<1>3. DOMAIN Tail(s) = 1 .. Len(Tail(s))
  BY <1>2, LenProperties
<1>4. Head(s) = s[1]
  OBVIOUS
<1> QED
  BY <1>1, <1>2, <1>3, <1>4 DEF Popped

\* A sequence is empty exactly if its length is 0.
LEMMA EmptyIs ==
  ASSUME NEW S, NEW s \in Seq(S)
  PROVE  /\ Len(s) \in Nat /\ DOMAIN s = 1 .. Len(s) /\ (s = <<>> <=> Len(s) = 0)
         /\ \A i \in 1 .. Len(s) : s[i] \in S
         /\ s # <<>> => 1 \in 1 .. Len(s) /\ Head(s) = s[1] /\ Head(s) \in S
<1>1. Len(s) \in Nat /\ DOMAIN s = 1 .. Len(s) /\ \A i \in 1 .. Len(s) : s[i] \in S
  BY LenProperties, ElementOfSeq
<1>2. s = <<>> <=> Len(s) = 0
  BY EmptySeq
<1>3. s # <<>> => 1 \in 1 .. Len(s) /\ Head(s) = s[1]
  BY <1>1, <1>2
<1> QED
  BY <1>1, <1>2, <1>3

\* The tasks s become t: the first one goes on to another packet.
Advanced(s, t, next) ==
    /\ Len(s) \in Nat \ {0} /\ Len(t) = Len(s)
    /\ DOMAIN s = 1 .. Len(s) /\ DOMAIN t = 1 .. Len(t)
    /\ t[1].next = next /\ Head(t) = t[1] /\ Head(s) = s[1] /\ t[1].buf = s[1].buf
    /\ \A i \in 2 .. Len(s) : t[i] = s[i]

\* The assignment to the first task.
LEMMA AdvanceIs ==
  ASSUME NEW s \in Seq(Tasks), s # <<>>, NEW x \in {"wait", "poll", "write", "flip", "done"}
  PROVE  [s EXCEPT ![1].next = x] \in Seq(Tasks) /\ Advanced(s, [s EXCEPT ![1].next = x], x)
<1>1. /\ Len(s) \in Nat \ {0} /\ DOMAIN s = 1 .. Len(s) /\ 1 \in 1 .. Len(s)
      /\ s[1] \in Tasks /\ Head(s) = s[1]
  BY EmptyIs
<1> DEFINE e == [s[1] EXCEPT !.next = x]
           t == [s EXCEPT ![1] = e]
<1>2. e \in Tasks /\ e.next = x /\ e.buf = s[1].buf
  BY <1>1 DEF Tasks
<1>3. [s EXCEPT ![1].next = x] = t
  OBVIOUS
<1> HIDE DEF e
<1>4. t \in Seq(Tasks) /\ Len(t) = Len(s) /\ \A j \in 1 .. Len(s) : t[j] = IF j = 1 THEN e ELSE s[j]
  BY <1>1, <1>2, ExceptSeq
<1> HIDE DEF t
<1>5. t # <<>> /\ DOMAIN t = 1 .. Len(t) /\ Head(t) = t[1]
  BY <1>1, <1>4, EmptyIs
<1>6. Advanced(s, t, x)
  BY <1>1, <1>2, <1>4, <1>5 DEF Advanced
<1> QED
  BY <1>3, <1>4, <1>6

-----------------------------------------------------------------------------
(* What the actions do                                                     *)

\* The fields of the port and of the queues that the invariants speak of do not change.
SamePort ==
    /\ port'.prev_index = port.prev_index /\ port'.slots = port.slots /\ port'.labels = port.labels
    /\ port'.pending = port.pending /\ port'.gc = port.gc
SameQueues ==
    /\ queue'.requests = queue.requests /\ queue'.free = queue.free
    /\ queue'.commands = queue.commands /\ queue'.irq = queue.irq /\ queue'.gfx = queue.gfx

\* Calls that only change is_open, flip_rate, vblank, the compute queue or num_submits.
LEMMA QuietIs ==
  ASSUME TypeOK, Open \/ SubmitAsc \/ RunAsc \/ EndOfFrame \/ \E rate \in Rates : SetFlipRate(rate)
  PROVE  TypeOK' /\ SamePort /\ SameQueues /\ UNCHANGED <<gpu, pres, guest>>
<1>1. port \in Port /\ queue \in Queue /\ gpu \in GpuType /\ pres \in PresType /\ guest \in GuestType
  BY TypeIs
<1>2. Modulus \in Nat /\ Modulus > 0 /\ MaxQueue \in Nat
  BY Constants
<1>3. CASE Open
  <2>1. port' \in Port /\ SamePort
    BY <1>1, <1>3 DEF Open, Port, SamePort
  <2> QED
    BY <1>1, <1>3, <2>1, TypeIsNext DEF Open, SameQueues
<1>4. ASSUME NEW rate \in Rates, SetFlipRate(rate)
      PROVE  TypeOK' /\ SamePort /\ SameQueues /\ UNCHANGED <<gpu, pres, guest>>
  <2>1. port' \in Port /\ SamePort
    BY <1>1, <1>4 DEF SetFlipRate, Port, SamePort
  <2> QED
    BY <1>1, <1>4, <2>1, TypeIsNext DEF SetFlipRate, SameQueues
<1>5. CASE EndOfFrame
  <2>1. NextVblank \in 0 .. 1
    BY <1>1 DEF Port, NextVblank
  <2>2. port' = [port EXCEPT !.vblank = NextVblank]
    BY <1>5 DEF EndOfFrame
  <2> HIDE DEF NextVblank
  <2>3. port' \in Port /\ SamePort
    BY <1>1, <2>1, <2>2 DEF Port, SamePort
  <2> QED
    BY <1>1, <1>5, <2>3, TypeIsNext DEF EndOfFrame, SameQueues
<1>6. CASE SubmitAsc \/ RunAsc
  <2>1. PICK n \in 0 .. MaxQueue, k \in 0 .. (Modulus - 1) : queue' = [queue EXCEPT !.asc = n, !.num_submits = k]
    <3>1. queue.asc \in 0 .. MaxQueue /\ queue.num_submits \in 0 .. (Modulus - 1)
      BY Fields
    <3>2. u32(queue.num_submits + 1) \in 0 .. (Modulus - 1) /\ u32(queue.num_submits - 1) \in 0 .. (Modulus - 1)
      BY <1>2, <3>1 DEF u32
    <3>3. SubmitAsc => queue.asc + 1 \in 0 .. MaxQueue
      BY <1>2, <3>1 DEF SubmitAsc
    <3>4. RunAsc => queue.asc - 1 \in 0 .. MaxQueue
      BY <1>2, <3>1 DEF RunAsc
    <3> QED
      BY <1>6, <3>2, <3>3, <3>4 DEF SubmitAsc, RunAsc
  <2>2. queue' \in Queue /\ SameQueues
    BY <1>1, <2>1 DEF Queue, SameQueues
  <2> QED
    BY <1>1, <1>6, <2>2, TypeIsNext DEF SubmitAsc, RunAsc, SamePort
<1> QED
  BY <1>3, <1>4, <1>5, <1>6

\* A port that was closed.
LEMMA CloseIs ==
  ASSUME TypeOK, Close
  PROVE  /\ TypeOK' /\ UNCHANGED <<queue, gpu, pres>>
         /\ guest'.at = guest.at /\ guest'.arg = guest.arg
         /\ port'.prev_index = Blank /\ port'.pending = 0 /\ port'.gc = 0
         /\ Settled => InFlight = {} /\ Awaited = {} /\ queue.gfx = <<>>
<1>1. port \in Port /\ queue \in Queue /\ gpu \in GpuType /\ pres \in PresType /\ guest \in GuestType
  BY TypeIs
<1>2. ClosedPort \in Port /\ ClosedPort.prev_index = Blank /\ ClosedPort.pending = 0 /\ ClosedPort.gc = 0
  BY DEF ClosedPort, Port, Indices, Blank
<1>3. guest' \in GuestType /\ guest'.at = guest.at /\ guest'.arg = guest.arg
  BY <1>1, Constants DEF Close, GuestType
<1> QED
  BY <1>1, <1>2, <1>3, TypeIsNext DEF Close

\* The thread that sleeps in WaitVoLabel is woken, or nothing happens to it.
Nudged ==
    /\ gpu'.req = gpu.req /\ gpu'.in_task = gpu.in_task
    /\ \/ gpu'.at = gpu.at
       \/ gpu.at = "sleep" /\ gpu'.at = "woken"

\* SignalVoLabel.
LEMMA NudgeIs ==
  ASSUME gpu \in GpuType, SignalVoLabel \/ gpu' = gpu
  PROVE  gpu' \in GpuType /\ Nudged
BY DEF SignalVoLabel, Nudged, GpuType

\* A set of natural numbers has a least one.
LEMMA LeastNat ==
  ASSUME NEW T, T \subseteq Nat, T # {}
  PROVE  \E x \in T : \A y \in T : x <= y
<1> DEFINE R == OpToRel(<, Nat)
<1>1. IsWellFoundedOn(R, Nat)
  BY NatLessThanWellFounded
<1>2. R = {ss \in Nat \X Nat : ss[1] < ss[2]}
  BY DEF OpToRel
<1> HIDE DEF R
<1>3. PICK x \in T : \A y \in T : ~(<<y, x>> \in R)
  BY <1>1, WFMin
<1>4. ASSUME NEW y \in T PROVE x <= y
  <2>1. x \in Nat /\ y \in Nat
    OBVIOUS
  <2>2. CASE y < x
    <3>1. <<y, x>> \in R
      BY <1>2, <2>1, <2>2
    <3> QED
      BY <1>3, <3>1
  <2> QED
    BY <2>1, <2>2
<1> QED
  BY <1>4

\* A group is registered; the labels of its buffers are 0.
LEMMA RegisterIs ==
  ASSUME TypeOK, NEW bs \in Ranges, RegisterBuffers(bs)
  PROVE  /\ TypeOK' /\ UNCHANGED <<queue, pres, guest>> /\ Nudged
         /\ port'.prev_index = port.prev_index /\ port'.pending = port.pending /\ port'.gc = port.gc
         /\ \A b \in bs : port.slots[b] = -1
         /\ \A b \in Buffers : port.slots[b] >= 0 => port'.slots[b] >= 0 /\ port'.labels[b] = port.labels[b]
         /\ \A b \in Buffers : port'.labels[b] \in {0, port.labels[b]}
<1>1. port \in Port /\ queue \in Queue /\ gpu \in GpuType /\ pres \in PresType /\ guest \in GuestType
  BY TypeIs
<1>2. PICK g \in Groups : port' = [port EXCEPT
           !.groups = @ \cup {g},
           !.slots = [b \in Buffers |-> IF b \in bs THEN g ELSE @[b]],
           !.labels = [b \in Buffers |-> IF b \in bs THEN 0 ELSE @[b]]]
  <2> DEFINE h == CHOOSE g \in FreeGroups : \A k \in FreeGroups : g <= k
  <2>1. FreeGroups \subseteq Groups /\ FreeGroups \subseteq Nat /\ FreeGroups # {}
    BY Constants DEF RegisterBuffers, FreeGroups
  <2>2. \E g \in FreeGroups : \A k \in FreeGroups : g <= k
    BY <2>1, LeastNat
  <2>3. h \in FreeGroups
    BY <2>2
  <2> QED
    BY <2>1, <2>3 DEF RegisterBuffers
<1> DEFINE S1 == [b \in Buffers |-> IF b \in bs THEN g ELSE port.slots[b]]
           L1 == [b \in Buffers |-> IF b \in bs THEN 0 ELSE port.labels[b]]
           G1 == port.groups \cup {g}
<1>3. /\ port.slots \in [Buffers -> Groups \cup {-1}] /\ port.labels \in [Buffers -> 0 .. 1]
      /\ port.groups \subseteq Groups
  BY Fields
<1>4. S1 \in [Buffers -> Groups \cup {-1}] /\ L1 \in [Buffers -> 0 .. 1] /\ G1 \in SUBSET Groups
  BY <1>3
<1>5. port' = [port EXCEPT !.groups = G1, !.slots = S1, !.labels = L1]
  BY <1>2
<1>6. g \in Nat
  BY Constants
<1> HIDE DEF S1, L1, G1
<1>7. /\ port' \in Port /\ port'.prev_index = port.prev_index /\ port'.pending = port.pending
      /\ port'.gc = port.gc /\ port'.slots = S1 /\ port'.labels = L1
  BY <1>1, <1>4, <1>5 DEF Port
<1>8. \A b \in bs : port.slots[b] = -1
  BY DEF RegisterBuffers
<1>9. \A b \in Buffers : port.slots[b] >= 0 => S1[b] >= 0 /\ L1[b] = port.labels[b]
  BY <1>3, <1>6, <1>8 DEF S1, L1
<1>10. \A b \in Buffers : L1[b] \in {0, port.labels[b]}
  BY DEF L1
<1>11. gpu' \in GpuType /\ Nudged
  BY <1>1, NudgeIs DEF RegisterBuffers
<1> QED
  BY <1>1, <1>7, <1>8, <1>9, <1>10, <1>11, TypeIsNext DEF RegisterBuffers

\* A group is unregistered.
LEMMA UnregisterIs ==
  ASSUME TypeOK, NEW g \in Groups, UnregisterBuffers(g)
  PROVE  /\ TypeOK' /\ UNCHANGED <<queue, gpu, pres>>
         /\ guest'.at = guest.at /\ guest'.arg = guest.arg
         /\ port'.prev_index = port.prev_index /\ port'.pending = port.pending /\ port'.gc = port.gc
         /\ port'.labels = port.labels
         /\ \A b \in Buffers : port'.slots[b] = port.slots[b] \/ (Settled => ~Used(b) /\ b \notin Awaited)
<1>1. port \in Port /\ queue \in Queue /\ gpu \in GpuType /\ pres \in PresType /\ guest \in GuestType
  BY TypeIs
<1> DEFINE S1 == [b \in Buffers |-> IF port.slots[b] = g THEN -1 ELSE port.slots[b]]
           G1 == port.groups \ {g}
<1>2. /\ port.slots \in [Buffers -> Groups \cup {-1}] /\ port.groups \subseteq Groups
  BY Fields
<1>3. S1 \in [Buffers -> Groups \cup {-1}] /\ G1 \in SUBSET Groups
  BY <1>2
<1>4. port' = [port EXCEPT !.groups = G1, !.slots = S1]
  BY DEF UnregisterBuffers
<1>5. \A b \in Buffers : S1[b] = port.slots[b] \/ (Settled => ~Used(b) /\ b \notin Awaited)
  BY DEF UnregisterBuffers
<1> HIDE DEF S1, G1
<1>6. /\ port' \in Port /\ port'.prev_index = port.prev_index /\ port'.pending = port.pending
      /\ port'.gc = port.gc /\ port'.slots = S1 /\ port'.labels = port.labels
  BY <1>1, <1>3, <1>4 DEF Port
<1>7. guest' \in GuestType /\ guest'.at = guest.at /\ guest'.arg = guest.arg
  BY <1>1, Constants DEF UnregisterBuffers, GuestType
<1> QED
  BY <1>1, <1>5, <1>6, <1>7, TypeIsNext DEF UnregisterBuffers

\* Guest thread t goes on; the others stay where they are.
Moved(t, at, arg) ==
    /\ guest'.at[t] = at /\ guest'.arg[t] = arg
    /\ \A u \in Guests \ {t} : guest'.at[u] = guest.at[u] /\ guest'.arg[u] = guest.arg[u]

\* Goto and Begin.
LEMMA MoveIs ==
  ASSUME guest \in GuestType, NEW t \in Guests, NEW at \in {"idle", "send", "queue", "count"}
  PROVE  /\ Goto(t, at) => guest' \in GuestType /\ Moved(t, at, guest.arg[t])
         /\ \A b \in Indices : Begin(t, at, b) => guest' \in GuestType /\ Moved(t, at, b)
<1>1. Goto(t, at) => guest' \in GuestType /\ Moved(t, at, guest.arg[t])
  BY DEF Goto, GuestType, Moved
<1>2. ASSUME NEW b \in Indices, Begin(t, at, b) PROVE guest' \in GuestType /\ Moved(t, at, b)
  BY <1>2 DEF Begin, GuestType, Moved
<1> QED
  BY <1>1, <1>2

\* A flip of the CPU is accepted.
LEMMA SubmitFlipIs ==
  ASSUME TypeOK, NEW t \in Flippers, NEW index \in CpuBuffers \cup {Blank}, SubmitFlip(t, index)
  PROVE  /\ TypeOK' /\ UNCHANGED <<queue, gpu, pres>>
         /\ t \in Guests /\ guest.at[t] = "idle" /\ Moved(t, "send", index)
         /\ index # Blank => port.slots[index] >= 0
         /\ port'.prev_index = port.prev_index /\ port'.slots = port.slots /\ port'.labels = port.labels
         /\ port'.pending = port.pending + 1 /\ port'.gc = port.gc
<1>1. port \in Port /\ queue \in Queue /\ gpu \in GpuType /\ pres \in PresType /\ guest \in GuestType
  BY TypeIs
<1>2. t \in Guests /\ index \in Indices
  BY DEF Guests, Indices, Buffers
<1>3. guest' \in GuestType /\ Moved(t, "send", index)
  BY <1>1, <1>2, MoveIs DEF SubmitFlip
<1>4. /\ port' \in Port /\ port'.prev_index = port.prev_index /\ port'.slots = port.slots
      /\ port'.labels = port.labels /\ port'.pending = port.pending + 1 /\ port'.gc = port.gc
  BY <1>1 DEF SubmitFlip, Port
<1> QED
  BY <1>1, <1>2, <1>3, <1>4, TypeIsNext DEF SubmitFlip

\* The command with the flip is sent.
LEMMA SendCommandIs ==
  ASSUME TypeOK, NEW t \in Guests, SendCommand(t)
  PROVE  /\ TypeOK' /\ UNCHANGED <<port, gpu, pres>>
         /\ guest.at[t] = "send" /\ Moved(t, "idle", guest.arg[t])
         /\ Pushed(queue.commands, queue'.commands, guest.arg[t])
         /\ queue'.requests = queue.requests /\ queue'.free = queue.free
         /\ queue'.irq = queue.irq /\ queue'.gfx = queue.gfx
<1>1. port \in Port /\ queue \in Queue /\ gpu \in GpuType /\ pres \in PresType /\ guest \in GuestType
  BY TypeIs
<1>2. guest' \in GuestType /\ Moved(t, "idle", guest.arg[t])
  BY <1>1, MoveIs DEF SendCommand
<1> DEFINE s == Append(queue.commands, guest.arg[t])
<1>3. queue.commands \in Seq(Indices) /\ guest.arg[t] \in Indices
  BY Fields
<1>4. s \in Seq(Indices) /\ Pushed(queue.commands, s, guest.arg[t])
  BY <1>3, PushIs
<1>5. queue' = [queue EXCEPT !.commands = s]
  BY DEF SendCommand
<1> HIDE DEF s
<1>6. /\ queue' \in Queue /\ queue'.requests = queue.requests /\ queue'.free = queue.free
      /\ queue'.irq = queue.irq /\ queue'.gfx = queue.gfx /\ queue'.commands = s
  BY <1>1, <1>4, <1>5 DEF Queue
<1> QED
  BY <1>1, <1>2, <1>4, <1>6, TypeIsNext DEF SendCommand

\* The callback of a flip from a command buffer is registered.
LEMMA SubmitEopFlipIs ==
  ASSUME TypeOK, NEW t \in Renderers, NEW b \in EopBuffers, SubmitEopFlip(t, b)
  PROVE  /\ TypeOK' /\ UNCHANGED <<port, gpu, pres>>
         /\ t \in Guests /\ guest.at[t] = "idle" /\ Moved(t, "queue", b) /\ port.slots[b] >= 0
         /\ Pushed(queue.irq, queue'.irq, b)
         /\ queue'.requests = queue.requests /\ queue'.free = queue.free
         /\ queue'.commands = queue.commands /\ queue'.gfx = queue.gfx
<1>1. port \in Port /\ queue \in Queue /\ gpu \in GpuType /\ pres \in PresType /\ guest \in GuestType
  BY TypeIs
<1>2. t \in Guests /\ b \in Indices /\ b \in Buffers
  BY DEF Guests, Indices, Buffers
<1>3. guest' \in GuestType /\ Moved(t, "queue", b)
  BY <1>1, <1>2, MoveIs DEF SubmitEopFlip
<1> DEFINE s == Append(queue.irq, b)
<1>4. s \in Seq(Buffers) /\ Pushed(queue.irq, s, b)
  BY <1>2, Fields, PushIs
<1>5. queue' = [queue EXCEPT !.irq = s]
  BY DEF SubmitEopFlip
<1> HIDE DEF s
<1>6. /\ queue' \in Queue /\ queue'.requests = queue.requests /\ queue'.free = queue.free
      /\ queue'.commands = queue.commands /\ queue'.gfx = queue.gfx /\ queue'.irq = s
  BY <1>1, <1>4, <1>5 DEF Queue
<1> QED
  BY <1>1, <1>2, <1>3, <1>4, <1>6, TypeIsNext DEF SubmitEopFlip

\* The command buffer is queued.
LEMMA SubmitGfxIs ==
  ASSUME TypeOK, NEW t \in Guests, SubmitGfx(t), guest.arg[t] \in Buffers
  PROVE  /\ TypeOK' /\ UNCHANGED <<port, gpu, pres>>
         /\ guest.at[t] = "queue" /\ Moved(t, "count", guest.arg[t])
         /\ Pushed(queue.gfx, queue'.gfx, [buf |-> guest.arg[t], next |-> "wait"])
         /\ queue'.requests = queue.requests /\ queue'.free = queue.free
         /\ queue'.commands = queue.commands /\ queue'.irq = queue.irq
<1>1. port \in Port /\ queue \in Queue /\ gpu \in GpuType /\ pres \in PresType /\ guest \in GuestType
  BY TypeIs
<1>2. guest' \in GuestType /\ Moved(t, "count", guest.arg[t])
  BY <1>1, MoveIs DEF SubmitGfx
<1> DEFINE e == [buf |-> guest.arg[t], next |-> "wait"]
           s == Append(queue.gfx, e)
<1>3. e \in Tasks
  BY DEF Tasks
<1>4. queue' = [queue EXCEPT !.gfx = s]
  BY DEF SubmitGfx
<1> HIDE DEF e
<1>5. s \in Seq(Tasks) /\ Pushed(queue.gfx, s, e)
  BY <1>3, Fields, PushIs
<1> HIDE DEF s
<1>6. /\ queue' \in Queue /\ queue'.requests = queue.requests /\ queue'.free = queue.free
      /\ queue'.commands = queue.commands /\ queue'.irq = queue.irq /\ queue'.gfx = s
  BY <1>1, <1>4, <1>5 DEF Queue, Tasks
<1> QED
  BY <1>1, <1>2, <1>5, <1>6, TypeIsNext DEF SubmitGfx, e

\* The command buffer is counted.
LEMMA SubmitCountIs ==
  ASSUME TypeOK, NEW t \in Guests, SubmitCount(t)
  PROVE  /\ TypeOK' /\ UNCHANGED <<port, gpu, pres>> /\ SameQueues
         /\ guest.at[t] = "count" /\ Moved(t, "idle", guest.arg[t])
<1>1. port \in Port /\ queue \in Queue /\ gpu \in GpuType /\ pres \in PresType /\ guest \in GuestType
  BY TypeIs
<1>2. guest' \in GuestType /\ Moved(t, "idle", guest.arg[t])
  BY <1>1, MoveIs DEF SubmitCount
<1>3. PICK k \in 0 .. (Modulus - 1) : queue' = [queue EXCEPT !.num_submits = k]
  <2>1. queue.num_submits \in 0 .. (Modulus - 1) /\ Modulus \in Nat /\ Modulus > 0
    BY Fields, Constants
  <2>2. u32(queue.num_submits + 1) \in 0 .. (Modulus - 1)
    BY <2>1 DEF u32
  <2> QED
    BY <2>2 DEF SubmitCount
<1>4. queue' \in Queue /\ SameQueues
  BY <1>1, <1>3 DEF Queue, SameQueues
<1> QED
  BY <1>1, <1>2, <1>4, TypeIsNext DEF SubmitCount

\* The GPU thread has a task while it is inside one, and sleeps only there, in its wait.
TaskInv ==
    /\ gpu.in_task => queue.gfx # <<>>
    /\ gpu.at \in {"sleep", "woken"} => gpu.in_task /\ queue.gfx[1].next = "wait"

\* Prepare.
LEMMA PrepareIs ==
  ASSUME gpu \in GpuType, NEW index \in Indices, NEW eop \in BOOLEAN, Prepare(index, eop)
  PROVE  /\ gpu' \in GpuType /\ gpu'.in_task = gpu.in_task
         /\ gpu'.req.index = index /\ gpu'.req.eop = eop
         /\ \/ gpu'.at = "frame"
            \/ gpu'.at = "unregistered" /\ index # Blank /\ port.slots[index] < 0
<1> DEFINE r == [index |-> index, eop |-> eop, frame |-> NoFrame]
           a == IF index # Blank /\ port.slots[index] < 0 THEN "unregistered" ELSE "frame"
<1>1. r \in Flips /\ r.index = index /\ r.eop = eop
  BY DEF Flips
<1>2. a \in {"unregistered", "frame"} /\ (a = "unregistered" => index # Blank /\ port.slots[index] < 0)
  OBVIOUS
<1>3. gpu' = [gpu EXCEPT !.at = a, !.req = r]
  BY DEF Prepare
<1> HIDE DEF r, a
<1> QED
  BY <1>1, <1>2, <1>3 DEF GpuType, Crashes

\* A command is taken.
LEMMA ProcessCommandsIs ==
  ASSUME TypeOK, ProcessCommands
  PROVE  /\ TypeOK' /\ UNCHANGED <<port, pres, guest>>
         /\ Popped(queue.commands, queue'.commands)
         /\ queue'.requests = queue.requests /\ queue'.free = queue.free
         /\ queue'.irq = queue.irq /\ queue'.gfx = queue.gfx
         /\ gpu.at = "run" /\ gpu'.in_task = gpu.in_task
         /\ gpu'.req.index = queue.commands[1] /\ gpu'.req.eop = FALSE
         /\ \/ gpu'.at = "frame"
            \/ gpu'.at = "unregistered" /\ queue.commands[1] # Blank /\ port.slots[queue.commands[1]] < 0
<1>1. port \in Port /\ queue \in Queue /\ gpu \in GpuType /\ pres \in PresType /\ guest \in GuestType
  BY TypeIs
<1> DEFINE s == Tail(queue.commands)
           h == Head(queue.commands)
<1>2. queue.commands # <<>> /\ queue.commands \in Seq(Indices)
  BY Fields DEF ProcessCommands
<1>3. s \in Seq(Indices) /\ Popped(queue.commands, s) /\ h \in Indices
  BY <1>2, PopIs
<1>4. h = queue.commands[1]
  BY <1>3 DEF Popped
<1>5. queue' = [queue EXCEPT !.commands = s] /\ Prepare(h, FALSE)
  BY DEF ProcessCommands
<1> HIDE DEF s, h
<1>6. /\ queue' \in Queue /\ queue'.requests = queue.requests /\ queue'.free = queue.free
      /\ queue'.irq = queue.irq /\ queue'.gfx = queue.gfx /\ queue'.commands = s
  BY <1>1, <1>3, <1>5 DEF Queue
<1>7. /\ gpu' \in GpuType /\ gpu'.in_task = gpu.in_task
      /\ gpu'.req.index = h /\ gpu'.req.eop = FALSE
      /\ \/ gpu'.at = "frame"
         \/ gpu'.at = "unregistered" /\ h # Blank /\ port.slots[h] < 0
  BY <1>1, <1>3, <1>5, PrepareIs
<1> QED
  BY <1>1, <1>3, <1>4, <1>6, <1>7, TypeIsNext DEF ProcessCommands

\* A frame is taken for the flip.
LEMMA GetRenderFrameIs ==
  ASSUME TypeOK, GetRenderFrame
  PROVE  /\ TypeOK' /\ UNCHANGED <<port, pres, guest>>
         /\ Popped(queue.free, queue'.free)
         /\ queue'.requests = queue.requests /\ queue'.commands = queue.commands
         /\ queue'.irq = queue.irq /\ queue'.gfx = queue.gfx
         /\ gpu.at = "frame" /\ gpu'.at = "push" /\ gpu'.in_task = gpu.in_task
         /\ gpu'.req.index = gpu.req.index /\ gpu'.req.eop = gpu.req.eop
         /\ gpu'.req.frame = queue.free[1]
<1>1. port \in Port /\ queue \in Queue /\ gpu \in GpuType /\ pres \in PresType /\ guest \in GuestType
  BY TypeIs
<1> DEFINE s == Tail(queue.free)
           h == Head(queue.free)
<1>2. queue.free # <<>> /\ queue.free \in Seq(Frames)
  BY Fields DEF GetRenderFrame
<1>3. s \in Seq(Frames) /\ Popped(queue.free, s) /\ h \in Frames
  BY <1>2, PopIs
<1>4. h = queue.free[1]
  BY <1>3 DEF Popped
<1>5. queue' = [queue EXCEPT !.free = s] /\ gpu' = [gpu EXCEPT !.at = "push", !.req.frame = h]
  BY DEF GetRenderFrame
<1> HIDE DEF s, h
<1>6. /\ queue' \in Queue /\ queue'.requests = queue.requests /\ queue'.commands = queue.commands
      /\ queue'.irq = queue.irq /\ queue'.gfx = queue.gfx /\ queue'.free = s
  BY <1>1, <1>3, <1>5 DEF Queue
<1>7. /\ gpu' \in GpuType /\ gpu'.at = "push" /\ gpu'.in_task = gpu.in_task
      /\ gpu'.req.index = gpu.req.index /\ gpu'.req.eop = gpu.req.eop /\ gpu'.req.frame = h
  <2> DEFINE r == [gpu.req EXCEPT !.frame = h]
  <2>1. gpu.req \in Flips
    BY Fields
  <2>2. r \in Flips /\ r.index = gpu.req.index /\ r.eop = gpu.req.eop /\ r.frame = h
    BY <1>3, <2>1 DEF Flips
  <2>3. gpu' = [gpu EXCEPT !.at = "push", !.req = r]
    BY <1>1, <1>5 DEF GpuType
  <2> HIDE DEF r
  <2> QED
    BY <1>1, <2>2, <2>3 DEF GpuType
<1> QED
  BY <1>1, <1>3, <1>4, <1>6, <1>7, TypeIsNext DEF GetRenderFrame

\* The request is queued.
LEMMA PushRequestIs ==
  ASSUME TypeOK, PushRequest
  PROVE  /\ TypeOK' /\ UNCHANGED <<port, pres, guest>>
         /\ Pushed(queue.requests, queue'.requests, gpu.req)
         /\ queue'.free = queue.free /\ queue'.commands = queue.commands
         /\ queue'.irq = queue.irq /\ queue'.gfx = queue.gfx
         /\ gpu.at = "push" /\ gpu'.at = "run" /\ gpu'.req = NoFlip
         /\ gpu'.in_task => gpu.in_task \/ queue.gfx # <<>>
<1>1. port \in Port /\ queue \in Queue /\ gpu \in GpuType /\ pres \in PresType /\ guest \in GuestType
  BY TypeIs
<1> DEFINE s == Append(queue.requests, gpu.req)
<1>2. s \in Seq(Flips) /\ Pushed(queue.requests, s, gpu.req)
  BY Fields, PushIs
<1>3. queue' = [queue EXCEPT !.requests = s]
  BY DEF PushRequest
<1> HIDE DEF s
<1>4. /\ queue' \in Queue /\ queue'.free = queue.free /\ queue'.commands = queue.commands
      /\ queue'.irq = queue.irq /\ queue'.gfx = queue.gfx /\ queue'.requests = s
  BY <1>1, <1>2, <1>3 DEF Queue
<1>5. PICK k \in BOOLEAN : /\ gpu' = [at |-> "run", req |-> NoFlip, in_task |-> k]
                           /\ k => gpu.in_task \/ queue.gfx # <<>>
  BY DEF PushRequest
<1>6. gpu' \in GpuType /\ gpu'.at = "run" /\ gpu'.req = NoFlip /\ gpu'.in_task = k
  BY <1>5, FlipFields DEF GpuType
<1> QED
  BY <1>1, <1>2, <1>4, <1>5, <1>6, TypeIsNext DEF PushRequest

\* The GPU thread takes a task, sleeps, wakes, or leaves the task; the queues stay.
LEMMA GpuTurnIs ==
  ASSUME TypeOK, TaskInv, ResumeGfx \/ WaitRegMemSleep \/ Spurious
  PROVE  /\ TypeOK' /\ UNCHANGED <<port, queue, pres, guest>>
         /\ gpu'.req = gpu.req /\ gpu.at \in {"run", "sleep"} /\ gpu'.at \in {"run", "sleep", "woken"}
         /\ TaskInv'
<1>1. port \in Port /\ queue \in Queue /\ gpu \in GpuType /\ pres \in PresType /\ guest \in GuestType
  BY TypeIs
<1>2. CASE ResumeGfx
  <2>1. gpu' \in GpuType /\ gpu'.req = gpu.req /\ gpu.at = "run" /\ gpu'.at = "run"
    BY <1>1, <1>2 DEF ResumeGfx, InProcess, GpuType
  <2> QED
    BY <1>1, <1>2, <2>1, TypeIsNext DEF ResumeGfx, TaskInv
<1>3. CASE WaitRegMemSleep
  <2>1. gpu' \in GpuType /\ gpu'.req = gpu.req /\ gpu.at = "run" /\ gpu'.at = "sleep"
        /\ gpu.in_task /\ gpu'.in_task = gpu.in_task /\ Head(queue.gfx).next = "wait"
    BY <1>1, <1>3 DEF WaitRegMemSleep, AtPacket, GpuType
  <2>2. Head(queue.gfx) = queue.gfx[1]
    BY <2>1, Fields, EmptyIs DEF TaskInv
  <2> QED
    BY <1>1, <1>3, <2>1, <2>2, TypeIsNext DEF WaitRegMemSleep, TaskInv
<1>4. CASE Spurious
  <2>1. gpu' \in GpuType /\ gpu'.req = gpu.req /\ gpu.at = "sleep" /\ gpu'.at = "woken" /\ gpu'.in_task = gpu.in_task
    BY <1>1, <1>4 DEF Spurious, GpuType
  <2> QED
    BY <1>1, <1>4, <2>1, TypeIsNext DEF Spurious, TaskInv
<1> QED
  BY <1>2, <1>3, <1>4

\* The task at the head of the graphics queue goes on to another packet.
LEMMA GfxIs ==
  ASSUME queue \in Queue, queue.gfx # <<>>, NEW x \in {"wait", "poll", "write", "flip", "done"},
         queue' = [queue EXCEPT !.gfx[1].next = x]
  PROVE  /\ queue' \in Queue /\ Advanced(queue.gfx, queue'.gfx, x)
         /\ queue'.requests = queue.requests /\ queue'.free = queue.free
         /\ queue'.commands = queue.commands /\ queue'.irq = queue.irq
<1> DEFINE s == [queue.gfx EXCEPT ![1].next = x]
<1>1. queue.gfx \in Seq(Tasks)
  BY DEF Queue, Tasks
<1>2. s \in Seq(Tasks) /\ Advanced(queue.gfx, s, x)
  BY <1>1, AdvanceIs
<1>3. queue' = [queue EXCEPT !.gfx = s]
  BY DEF Queue
<1> HIDE DEF s
<1> QED
  BY <1>2, <1>3 DEF Queue, Tasks

\* The wait for a label: it is 0 and the task goes on to its write, or it is not.
LEMMA WaitIs ==
  ASSUME TypeOK, TaskInv, WaitRegMemPass \/ WaitRegMemYield \/ WaitVoLabel
  PROVE  /\ TypeOK' /\ TaskInv' /\ UNCHANGED <<port, pres, guest>>
         /\ queue'.requests = queue.requests /\ queue'.free = queue.free
         /\ queue'.commands = queue.commands /\ queue'.irq = queue.irq
         /\ gpu'.req = gpu.req /\ gpu.at \in {"run", "woken"} /\ gpu'.at \in {"run", "sleep"}
         /\ queue.gfx # <<>> /\ queue.gfx[1].next \in {"wait", "poll"}
         /\ \/ queue'.gfx = queue.gfx
            \/ Advanced(queue.gfx, queue'.gfx, "poll")
            \/ Advanced(queue.gfx, queue'.gfx, "write") /\ port.labels[queue.gfx[1].buf] = 0
<1>1. port \in Port /\ queue \in Queue /\ gpu \in GpuType /\ pres \in PresType /\ guest \in GuestType
  BY TypeIs
<1>2. queue.gfx # <<>>
  BY DEF WaitRegMemPass, WaitRegMemYield, WaitVoLabel, AtPacket, TaskInv
<1>3. queue.gfx \in Seq(Tasks) /\ Head(queue.gfx) = queue.gfx[1]
  BY <1>2, Fields, EmptyIs
<1>4. LabelFree <=> port.labels[queue.gfx[1].buf] = 0
  BY <1>3 DEF LabelFree
<1> DEFINE Changed(x) == /\ queue' \in Queue /\ Advanced(queue.gfx, queue'.gfx, x)
                         /\ queue'.requests = queue.requests /\ queue'.free = queue.free
                         /\ queue'.commands = queue.commands /\ queue'.irq = queue.irq
<1>5. CASE WaitRegMemPass
  <2>1. Changed("write")
    BY <1>1, <1>2, <1>5, GfxIs DEF WaitRegMemPass
  <2>2. queue'.gfx # <<>>
    BY <2>1, EmptyIs DEF Advanced
  <2>3. /\ gpu' = gpu /\ gpu.at = "run" /\ gpu.in_task /\ LabelFree /\ UNCHANGED <<port, pres, guest>>
        /\ queue.gfx[1].next \in {"wait", "poll"}
    BY <1>3, <1>5 DEF WaitRegMemPass, AtPacket
  <2>4. TaskInv'
    BY <2>2, <2>3 DEF TaskInv
  <2>5. TypeOK'
    BY <1>1, <2>1, <2>3, TypeIsNext
  <2> HIDE DEF Changed
  <2> QED
    BY <1>2, <1>4, <2>1, <2>3, <2>4, <2>5 DEF Changed
<1>6. CASE WaitRegMemYield
  <2>1. Changed("poll")
    BY <1>1, <1>2, <1>6, GfxIs DEF WaitRegMemYield
  <2>2. /\ gpu.at = "run" /\ UNCHANGED <<port, pres, guest>> /\ gpu' = [gpu EXCEPT !.in_task = FALSE]
        /\ queue.gfx[1].next \in {"wait", "poll"}
    BY <1>3, <1>6 DEF WaitRegMemYield, AtPacket
  <2>3. gpu' \in GpuType /\ gpu'.at = "run" /\ gpu'.in_task = FALSE /\ gpu'.req = gpu.req
    BY <1>1, <2>2 DEF GpuType
  <2>4. TaskInv'
    BY <2>3 DEF TaskInv
  <2>5. TypeOK'
    BY <1>1, <2>1, <2>2, <2>3, TypeIsNext
  <2> HIDE DEF Changed
  <2> QED
    BY <1>2, <2>1, <2>2, <2>3, <2>4, <2>5 DEF Changed
<1>7. CASE WaitVoLabel /\ LabelFree
  <2>1. queue' = [queue EXCEPT !.gfx[1].next = "write"]
    BY <1>7 DEF WaitVoLabel
  <2>2. Changed("write")
    BY <1>1, <1>2, <2>1, GfxIs
  <2>3. queue'.gfx # <<>>
    BY <2>2, EmptyIs DEF Advanced
  <2>4. /\ gpu.at = "woken" /\ UNCHANGED <<port, pres, guest>> /\ gpu' = [gpu EXCEPT !.at = "run"]
        /\ queue.gfx[1].next = "wait"
    BY <1>7 DEF WaitVoLabel, TaskInv
  <2>5. gpu' \in GpuType /\ gpu'.at = "run" /\ gpu'.in_task = gpu.in_task /\ gpu'.req = gpu.req
    BY <1>1, <2>4 DEF GpuType
  <2>6. TaskInv'
    BY <2>3, <2>5 DEF TaskInv
  <2>7. TypeOK'
    BY <1>1, <2>2, <2>4, <2>5, TypeIsNext
  <2> HIDE DEF Changed
  <2> QED
    BY <1>2, <1>4, <1>7, <2>2, <2>4, <2>5, <2>6, <2>7 DEF Changed
<1>8. CASE WaitVoLabel /\ ~LabelFree
  <2>1. /\ gpu.at = "woken" /\ UNCHANGED <<port, pres, guest>> /\ gpu' = [gpu EXCEPT !.at = "sleep"]
        /\ queue' = queue
    BY <1>8 DEF WaitVoLabel
  <2>2. gpu' \in GpuType /\ gpu'.at = "sleep" /\ gpu'.in_task = gpu.in_task /\ gpu'.req = gpu.req
    BY <1>1, <2>1 DEF GpuType
  <2>3. TaskInv' /\ queue.gfx[1].next = "wait"
    BY <2>1, <2>2 DEF TaskInv
  <2>4. TypeOK'
    BY <1>1, <2>1, <2>2, TypeIsNext
  <2> QED
    BY <1>2, <2>1, <2>2, <2>3, <2>4
<1> QED
  BY <1>5, <1>6, <1>7, <1>8

\* The label of the buffer is locked.
LEMMA WriteDataIs ==
  ASSUME TypeOK, TaskInv, WriteData
  PROVE  /\ TypeOK' /\ TaskInv' /\ UNCHANGED <<gpu, pres, guest>> /\ gpu.at = "run"
         /\ queue'.requests = queue.requests /\ queue'.free = queue.free
         /\ queue'.commands = queue.commands /\ queue'.irq = queue.irq
         /\ queue.gfx # <<>> /\ queue.gfx[1].next = "write" /\ Advanced(queue.gfx, queue'.gfx, "flip")
         /\ port'.prev_index = port.prev_index /\ port'.slots = port.slots
         /\ port'.pending = port.pending /\ port'.gc = port.gc
         /\ port'.labels[queue.gfx[1].buf] = 1
         /\ \A b \in Buffers : b # queue.gfx[1].buf => port'.labels[b] = port.labels[b]
<1>1. port \in Port /\ queue \in Queue /\ gpu \in GpuType /\ pres \in PresType /\ guest \in GuestType
  BY TypeIs
<1>2. queue.gfx # <<>> /\ gpu.at = "run" /\ Head(queue.gfx).next = "write" /\ UNCHANGED <<gpu, pres, guest>>
  BY DEF WriteData, AtPacket, TaskInv
<1>3. /\ queue.gfx \in Seq(Tasks) /\ Head(queue.gfx) = queue.gfx[1] /\ queue.gfx[1].buf \in Buffers
      /\ port.labels \in [Buffers -> 0 .. 1]
  BY <1>2, Fields, EmptyIs, FlipFields
<1>4. /\ queue' \in Queue /\ Advanced(queue.gfx, queue'.gfx, "flip")
      /\ queue'.requests = queue.requests /\ queue'.free = queue.free
      /\ queue'.commands = queue.commands /\ queue'.irq = queue.irq
  BY <1>1, <1>2, GfxIs DEF WriteData
<1>5. queue'.gfx # <<>>
  BY <1>4, EmptyIs DEF Advanced
<1>6. TaskInv'
  BY <1>2, <1>5 DEF TaskInv
<1> DEFINE L1 == [port.labels EXCEPT ![queue.gfx[1].buf] = 1]
<1>7. /\ L1 \in [Buffers -> 0 .. 1] /\ L1[queue.gfx[1].buf] = 1
      /\ \A b \in Buffers : b # queue.gfx[1].buf => L1[b] = port.labels[b]
  BY <1>3
<1>8. port' = [port EXCEPT !.labels = L1]
  BY <1>1, <1>3 DEF WriteData, Port
<1> HIDE DEF L1
<1>9. /\ port' \in Port /\ port'.prev_index = port.prev_index /\ port'.slots = port.slots
      /\ port'.pending = port.pending /\ port'.gc = port.gc /\ port'.labels = L1
  BY <1>1, <1>7, <1>8 DEF Port
<1>10. TypeOK'
  BY <1>1, <1>2, <1>4, <1>9, TypeIsNext
<1> QED
  BY <1>2, <1>3, <1>4, <1>6, <1>7, <1>9, <1>10

\* The oldest callback runs: it submits its flip, or one of its ASSERTs fails.
LEMMA SignalFlipIs ==
  ASSUME TypeOK, TaskInv, SignalFlip
  PROVE  /\ TypeOK' /\ TaskInv' /\ UNCHANGED <<pres, guest>> /\ gpu.at = "run"
         /\ queue'.requests = queue.requests /\ queue'.free = queue.free
         /\ queue'.commands = queue.commands /\ Popped(queue.irq, queue'.irq)
         /\ queue.gfx # <<>> /\ queue.gfx[1].next = "flip" /\ Advanced(queue.gfx, queue'.gfx, "done")
         /\ port'.prev_index = port.prev_index /\ port'.slots = port.slots /\ port'.labels = port.labels
         /\ \/ /\ port.labels[queue.irq[1]] = 1
               /\ port'.pending = port.pending + 1 /\ port'.gc = port.gc + 1
               /\ gpu'.req.index = queue.irq[1] /\ gpu'.req.eop = TRUE
               /\ \/ gpu'.at = "frame"
                  \/ gpu'.at = "unregistered" /\ port.slots[queue.irq[1]] < 0
            \/ /\ port' = port /\ gpu'.req = gpu.req
               /\ \/ gpu'.at = "queue_full"
                  \/ gpu'.at = "out_of_order" /\ port.labels[queue.irq[1]] # 1
<1>1. port \in Port /\ queue \in Queue /\ gpu \in GpuType /\ pres \in PresType /\ guest \in GuestType
  BY TypeIs
<1>2. /\ queue.gfx # <<>> /\ gpu.at = "run" /\ gpu.in_task /\ Head(queue.gfx).next = "flip"
      /\ queue.irq # <<>> /\ UNCHANGED <<pres, guest>>
  BY DEF SignalFlip, AtPacket, TaskInv
<1>3. queue.gfx \in Seq(Tasks) /\ Head(queue.gfx) = queue.gfx[1] /\ queue.irq \in Seq(Buffers)
  BY <1>2, Fields, EmptyIs
<1> DEFINE s == Tail(queue.irq)
           g == [queue.gfx EXCEPT ![1].next = "done"]
           b == Head(queue.irq)
<1>4. s \in Seq(Buffers) /\ Popped(queue.irq, s) /\ b \in Buffers /\ b \in Indices
  BY <1>2, <1>3, PopIs DEF Indices
<1>5. b = queue.irq[1]
  BY <1>4 DEF Popped
<1>6. g \in Seq(Tasks) /\ Advanced(queue.gfx, g, "done")
  BY <1>2, <1>3, AdvanceIs
<1>7. queue' = [queue EXCEPT !.irq = s, !.gfx = g]
  BY <1>1 DEF SignalFlip, Queue
<1>8. IF port.labels[b] = 1 /\ port.pending <= FlipLimit
         THEN /\ port' = [port EXCEPT !.pending = @ + 1, !.gc = @ + 1]
              /\ Prepare(b, TRUE)
         ELSE /\ port' = port
              /\ gpu' = [gpu EXCEPT !.at = IF port.labels[b] = 1 THEN "queue_full"
                                                                 ELSE "out_of_order"]
  BY DEF SignalFlip
<1> HIDE DEF s, g, b
<1>9. /\ queue' \in Queue /\ queue'.requests = queue.requests /\ queue'.free = queue.free
      /\ queue'.commands = queue.commands /\ queue'.irq = s /\ queue'.gfx = g
  BY <1>1, <1>4, <1>6, <1>7 DEF Queue, Tasks
<1>10. g # <<>>
  BY <1>6, EmptyIs DEF Advanced
<1> DEFINE Ran == /\ port.labels[b] = 1
                  /\ port'.pending = port.pending + 1 /\ port'.gc = port.gc + 1
                  /\ gpu'.req.index = b /\ gpu'.req.eop = TRUE
                  /\ \/ gpu'.at = "frame"
                     \/ gpu'.at = "unregistered" /\ port.slots[b] < 0
           Stop == /\ port' = port /\ gpu'.req = gpu.req
                   /\ \/ gpu'.at = "queue_full"
                      \/ gpu'.at = "out_of_order" /\ port.labels[b] # 1
<1>11. /\ port' \in Port /\ gpu' \in GpuType
       /\ port'.prev_index = port.prev_index /\ port'.slots = port.slots /\ port'.labels = port.labels
       /\ gpu'.in_task = gpu.in_task /\ (Ran \/ Stop)
  <2>1. CASE port.labels[b] = 1 /\ port.pending <= FlipLimit
    <3>1. Prepare(b, TRUE) /\ port' = [port EXCEPT !.pending = @ + 1, !.gc = @ + 1]
      BY <1>8, <2>1
    <3>2. /\ gpu' \in GpuType /\ gpu'.in_task = gpu.in_task
          /\ gpu'.req.index = b /\ gpu'.req.eop = TRUE
          /\ \/ gpu'.at = "frame"
             \/ gpu'.at = "unregistered" /\ port.slots[b] < 0
      BY <1>1, <1>4, <3>1, PrepareIs
    <3>3. /\ port' \in Port /\ port'.pending = port.pending + 1 /\ port'.gc = port.gc + 1
          /\ port'.prev_index = port.prev_index /\ port'.slots = port.slots /\ port'.labels = port.labels
      <4> DEFINE p == port.pending + 1
                 c == port.gc + 1
      <4>1. p \in Int /\ c \in Int
        BY Fields
      <4>2. port' = [port EXCEPT !.pending = p, !.gc = c]
        BY <3>1
      <4> HIDE DEF p, c
      <4>3. /\ port' \in Port /\ port'.pending = p /\ port'.gc = c
            /\ port'.prev_index = port.prev_index /\ port'.slots = port.slots /\ port'.labels = port.labels
        BY <1>1, <4>1, <4>2 DEF Port
      <4> QED
        BY <4>3 DEF p, c
    <3> QED
      BY <2>1, <3>2, <3>3
  <2>2. CASE ~(port.labels[b] = 1 /\ port.pending <= FlipLimit)
    <3>1. port' = port /\ gpu' = [gpu EXCEPT !.at = IF port.labels[b] = 1 THEN "queue_full" ELSE "out_of_order"]
      BY <1>8, <2>2
    <3>2. /\ gpu' \in GpuType /\ gpu'.in_task = gpu.in_task /\ gpu'.req = gpu.req
          /\ \/ gpu'.at = "queue_full"
             \/ gpu'.at = "out_of_order" /\ port.labels[b] # 1
      BY <1>1, <3>1 DEF GpuType, Crashes
    <3> QED
      BY <1>1, <3>1, <3>2
  <2> QED
    BY <2>1, <2>2
<1>12. TypeOK'
  BY <1>1, <1>2, <1>9, <1>11, TypeIsNext
<1>13. gpu'.at \notin {"sleep", "woken"}
  BY <1>11
<1>14. TaskInv'
  BY <1>9, <1>10, <1>13 DEF TaskInv
<1> QED
  BY <1>2, <1>3, <1>4, <1>5, <1>6, <1>9, <1>11, <1>12, <1>14

\* The task at the head of the graphics queue ends.
LEMMA FinishGfxIs ==
  ASSUME TypeOK, TaskInv, FinishGfx
  PROVE  /\ TypeOK' /\ TaskInv' /\ UNCHANGED <<port, pres, guest>>
         /\ queue'.requests = queue.requests /\ queue'.free = queue.free
         /\ queue'.commands = queue.commands /\ queue'.irq = queue.irq
         /\ queue.gfx # <<>> /\ queue.gfx[1].next = "done" /\ Popped(queue.gfx, queue'.gfx)
         /\ gpu'.req = gpu.req /\ gpu.at = "run" /\ gpu'.at = "run"
<1>1. port \in Port /\ queue \in Queue /\ gpu \in GpuType /\ pres \in PresType /\ guest \in GuestType
  BY TypeIs
<1>2. /\ queue.gfx # <<>> /\ gpu.at = "run" /\ Head(queue.gfx).next = "done" /\ UNCHANGED <<port, pres, guest>>
      /\ gpu' = [gpu EXCEPT !.in_task = FALSE]
  BY DEF FinishGfx, AtPacket, TaskInv
<1>3. queue.gfx \in Seq(Tasks) /\ Head(queue.gfx) = queue.gfx[1]
  BY <1>2, Fields, EmptyIs
<1> DEFINE s == Tail(queue.gfx)
<1>4. s \in Seq(Tasks) /\ Popped(queue.gfx, s)
  BY <1>2, <1>3, PopIs
<1>5. PICK k \in 0 .. (Modulus - 1) : queue' = [queue EXCEPT !.gfx = s, !.num_submits = k]
  <2>1. queue.num_submits \in 0 .. (Modulus - 1) /\ Modulus \in Nat /\ Modulus > 0
    BY Fields, Constants
  <2>2. u32(queue.num_submits - 1) \in 0 .. (Modulus - 1)
    BY <2>1 DEF u32
  <2> QED
    BY <2>2 DEF FinishGfx
<1> HIDE DEF s
<1>6. /\ queue' \in Queue /\ queue'.requests = queue.requests /\ queue'.free = queue.free
      /\ queue'.commands = queue.commands /\ queue'.irq = queue.irq /\ queue'.gfx = s
  BY <1>1, <1>4, <1>5 DEF Queue, Tasks
<1>7. gpu' \in GpuType /\ gpu'.at = "run" /\ gpu'.in_task = FALSE /\ gpu'.req = gpu.req
  BY <1>1, <1>2 DEF GpuType
<1>8. TaskInv'
  BY <1>7 DEF TaskInv
<1>9. TypeOK'
  BY <1>1, <1>2, <1>6, <1>7, TypeIsNext
<1> QED
  BY <1>2, <1>3, <1>4, <1>6, <1>7, <1>8, <1>9

\* The present thread takes the oldest request.
LEMMA ReceiveRequestIs ==
  ASSUME TypeOK, ReceiveRequest
  PROVE  /\ TypeOK' /\ UNCHANGED <<port, gpu, guest>>
         /\ Popped(queue.requests, queue'.requests)
         /\ queue'.free = queue.free /\ queue'.commands = queue.commands
         /\ queue'.irq = queue.irq /\ queue'.gfx = queue.gfx
         /\ pres.at = "top" /\ pres'.at = "present" /\ pres'.req = queue.requests[1]
<1>1. port \in Port /\ queue \in Queue /\ gpu \in GpuType /\ pres \in PresType /\ guest \in GuestType
  BY TypeIs
<1> DEFINE s == Tail(queue.requests)
           h == Head(queue.requests)
<1>2. queue.requests # <<>> /\ queue.requests \in Seq(Flips)
  BY Fields DEF ReceiveRequest, NoRequest
<1>3. s \in Seq(Flips) /\ Popped(queue.requests, s) /\ h \in Flips
  BY <1>2, PopIs
<1>4. h = queue.requests[1]
  BY <1>3 DEF Popped
<1>5. /\ queue' = [queue EXCEPT !.requests = s] /\ pres' = [at |-> "present", req |-> h]
      /\ pres.at = "top" /\ UNCHANGED <<port, gpu, guest>>
  BY DEF ReceiveRequest
<1> HIDE DEF s, h
<1>6. /\ queue' \in Queue /\ queue'.free = queue.free /\ queue'.commands = queue.commands
      /\ queue'.irq = queue.irq /\ queue'.gfx = queue.gfx /\ queue'.requests = s
  BY <1>1, <1>3, <1>5 DEF Queue
<1>7. pres' \in PresType /\ pres'.at = "present" /\ pres'.req = h
  BY <1>3, <1>5 DEF PresType
<1> QED
  BY <1>1, <1>3, <1>4, <1>5, <1>6, <1>7, TypeIsNext

\* A blank frame is due.
LEMMA DrawBlankFrameIs ==
  ASSUME TypeOK, DrawBlankFrame
  PROVE  /\ TypeOK' /\ UNCHANGED <<port, queue, gpu, guest>>
         /\ pres.at = "top" /\ pres'.at = "blank" /\ pres'.req = pres.req
<1>1. port \in Port /\ queue \in Queue /\ gpu \in GpuType /\ pres \in PresType /\ guest \in GuestType
  BY TypeIs
<1>2. pres' \in PresType /\ pres'.at = "blank" /\ pres'.req = pres.req
  BY <1>1 DEF DrawBlankFrame, PresType
<1> QED
  BY <1>1, <1>2, TypeIsNext DEF DrawBlankFrame

\* The blank frame goes through the free ones.
LEMMA PresentBlankIs ==
  ASSUME TypeOK, PresentBlank
  PROVE  /\ TypeOK' /\ SamePort /\ UNCHANGED <<gpu, guest>>
         /\ queue.free # <<>> /\ \E s \in Seq(Frames) : Popped(queue.free, s) /\ Pushed(s, queue'.free, queue.free[1])
         /\ queue'.requests = queue.requests /\ queue'.commands = queue.commands
         /\ queue'.irq = queue.irq /\ queue'.gfx = queue.gfx
         /\ pres.at = "blank" /\ pres'.at = "top" /\ pres'.req = pres.req
<1>1. port \in Port /\ queue \in Queue /\ gpu \in GpuType /\ pres \in PresType /\ guest \in GuestType
  BY TypeIs
<1> DEFINE s == Tail(queue.free)
           h == Head(queue.free)
           t == Append(s, h)
<1>2. queue.free # <<>> /\ queue.free \in Seq(Frames)
  BY Fields DEF PresentBlank
<1>3. s \in Seq(Frames) /\ Popped(queue.free, s) /\ h \in Frames
  BY <1>2, PopIs
<1>4. h = queue.free[1]
  BY <1>3 DEF Popped
<1>5. queue' = [queue EXCEPT !.free = t]
  BY DEF PresentBlank
<1> HIDE DEF s, h
<1>6. t \in Seq(Frames) /\ Pushed(s, t, h)
  BY <1>3, PushIs
<1> HIDE DEF t
<1>7. /\ queue' \in Queue /\ queue'.requests = queue.requests /\ queue'.commands = queue.commands
      /\ queue'.irq = queue.irq /\ queue'.gfx = queue.gfx /\ queue'.free = t
  BY <1>1, <1>5, <1>6 DEF Queue
<1>8. pres' \in PresType /\ pres'.at = "top" /\ pres'.req = pres.req /\ pres.at = "blank"
  BY <1>1 DEF PresentBlank, PresType
<1>9. NextVblank \in 0 .. 1 /\ port' = [port EXCEPT !.vblank = NextVblank]
  BY <1>1 DEF Port, NextVblank, PresentBlank
<1> HIDE DEF NextVblank
<1>10. port' \in Port /\ SamePort
  BY <1>1, <1>9 DEF Port, SamePort
<1>11. UNCHANGED <<gpu, guest>>
  BY DEF PresentBlank
<1>12. TypeOK'
  BY <1>1, <1>7, <1>8, <1>10, <1>11, TypeIsNext
<1> QED
  BY <1>2, <1>3, <1>4, <1>6, <1>7, <1>8, <1>10, <1>11, <1>12

\* The frame of the flip is shown and freed.
LEMMA PresentIs ==
  ASSUME TypeOK, Present, pres.req.frame \in Frames
  PROVE  /\ TypeOK' /\ UNCHANGED <<port, gpu, guest>>
         /\ Pushed(queue.free, queue'.free, pres.req.frame)
         /\ queue'.requests = queue.requests /\ queue'.commands = queue.commands
         /\ queue'.irq = queue.irq /\ queue'.gfx = queue.gfx
         /\ pres.at = "present" /\ pres'.at = "status" /\ pres'.req = pres.req
<1>1. port \in Port /\ queue \in Queue /\ gpu \in GpuType /\ pres \in PresType /\ guest \in GuestType
  BY TypeIs
<1> DEFINE s == Append(queue.free, pres.req.frame)
<1>2. s \in Seq(Frames) /\ Pushed(queue.free, s, pres.req.frame)
  BY Fields, PushIs
<1>3. queue' = [queue EXCEPT !.free = s]
  BY DEF Present
<1> HIDE DEF s
<1>4. /\ queue' \in Queue /\ queue'.requests = queue.requests /\ queue'.commands = queue.commands
      /\ queue'.irq = queue.irq /\ queue'.gfx = queue.gfx /\ queue'.free = s
  BY <1>1, <1>2, <1>3 DEF Queue
<1>5. pres' \in PresType /\ pres'.at = "status" /\ pres'.req = pres.req
  BY <1>1 DEF Present, PresType
<1> QED
  BY <1>1, <1>2, <1>4, <1>5, TypeIsNext DEF Present

\* The flip is no longer pending.
LEMMA FlipStatusIs ==
  ASSUME TypeOK, FlipStatus
  PROVE  /\ TypeOK' /\ UNCHANGED <<queue, gpu, guest>>
         /\ port'.prev_index = port.prev_index /\ port'.slots = port.slots /\ port'.labels = port.labels
         /\ port'.pending = port.pending - 1 /\ port'.gc = port.gc - One(pres.req.eop)
         /\ pres.at = "status" /\ pres'.at = "label" /\ pres'.req = pres.req
<1>1. port \in Port /\ queue \in Queue /\ gpu \in GpuType /\ pres \in PresType /\ guest \in GuestType
  BY TypeIs
<1> DEFINE p == port.pending - 1
           c == port.gc - One(pres.req.eop)
<1>2. port.pending \in Int /\ port.gc \in Int
  BY Fields
<1>3. p \in Int /\ c \in Int /\ c = IF pres.req.eop THEN port.gc - 1 ELSE port.gc
  BY <1>2 DEF One
<1>4. port' = [port EXCEPT !.pending = p, !.gc = c]
  BY <1>3 DEF FlipStatus
<1> HIDE DEF p, c
<1>5. /\ port' \in Port /\ port'.prev_index = port.prev_index /\ port'.slots = port.slots
      /\ port'.labels = port.labels /\ port'.pending = p /\ port'.gc = c
  BY <1>1, <1>3, <1>4 DEF Port
<1>6. pres' \in PresType /\ pres'.at = "label" /\ pres'.req = pres.req
  BY <1>1 DEF FlipStatus, PresType
<1>7. p = port.pending - 1 /\ c = port.gc - One(pres.req.eop)
  BY DEF p, c
<1> QED
  BY <1>1, <1>5, <1>6, <1>7, TypeIsNext DEF FlipStatus

\* The buffer shown before is released.
LEMMA ReleaseLabelIs ==
  ASSUME TypeOK, ReleaseLabel
  PROVE  /\ TypeOK' /\ UNCHANGED <<queue, guest>> /\ Nudged
         /\ port'.prev_index = pres.req.index /\ port'.slots = port.slots
         /\ port'.pending = port.pending /\ port'.gc = port.gc
         /\ \A b \in Buffers : port'.labels[b] = IF b = port.prev_index THEN 0 ELSE port.labels[b]
         /\ pres.at = "label" /\ pres'.at = "top" /\ pres'.req = NoFlip
<1>1. port \in Port /\ queue \in Queue /\ gpu \in GpuType /\ pres \in PresType /\ guest \in GuestType
  BY TypeIs
<1> DEFINE L1 == [b \in Buffers |-> IF b \in {port.prev_index} \ {-1} THEN 0 ELSE port.labels[b]]
           i == pres.req.index
<1>2. port.labels \in [Buffers -> 0 .. 1] /\ i \in Indices /\ Buffers \subseteq Nat
  BY Fields, FlipFields, Constants
<1>3. L1 \in [Buffers -> 0 .. 1]
  BY <1>2
<1>4. \A b \in Buffers : L1[b] = IF b = port.prev_index THEN 0 ELSE port.labels[b]
  BY <1>2
<1>5. NextVblank \in 0 .. 1 /\ port' = [port EXCEPT !.labels = L1, !.prev_index = i, !.vblank = NextVblank]
  BY <1>1 DEF Port, NextVblank, ReleaseLabel, Release
<1> HIDE DEF NextVblank, L1, i
<1>6. /\ port' \in Port /\ port'.prev_index = i /\ port'.slots = port.slots
      /\ port'.labels = L1 /\ port'.pending = port.pending /\ port'.gc = port.gc
  BY <1>1, <1>2, <1>3, <1>5 DEF Port
<1>7. gpu' \in GpuType /\ Nudged
  BY <1>1, NudgeIs DEF ReleaseLabel, Release
<1>8. pres' \in PresType /\ pres'.at = "top" /\ pres'.req = NoFlip
  BY FlipFields DEF ReleaseLabel, Release, PresType
<1>9. i = pres.req.index
  BY DEF i
<1> QED
  BY <1>1, <1>4, <1>6, <1>7, <1>8, <1>9, TypeIsNext DEF ReleaseLabel, Release

-----------------------------------------------------------------------------
(* Entries of a sequence in a set                                          *)

\* All entries of s are in E; one is; at most one is.
All(s, E) == \A i \in DOMAIN s : s[i] \in E
Has(s, E) == \E i \in DOMAIN s : s[i] \in E
OnceIn(s, E) == \A i, j \in DOMAIN s : s[i] \in E /\ s[j] \in E => i = j

\* What an entry behind a sequence changes.
LEMMA PushedHas ==
  ASSUME NEW s, NEW t, NEW e, Pushed(s, t, e), NEW E
  PROVE  /\ Has(t, E) <=> Has(s, E) \/ e \in E
         /\ OnceIn(s, E) /\ ~(Has(s, E) /\ e \in E) => OnceIn(t, E)
         /\ All(s, E) /\ e \in E => All(t, E)
<1>1. /\ Len(s) \in Nat /\ Len(t) = Len(s) + 1 /\ DOMAIN s = 1 .. Len(s) /\ DOMAIN t = 1 .. Len(t)
      /\ \A i \in 1 .. Len(s) : t[i] = s[i]
      /\ t[Len(t)] = e
  BY DEF Pushed
<1>2. \A i \in DOMAIN t : (i \in DOMAIN s /\ t[i] = s[i]) \/ (i = Len(t) /\ t[i] = e)
  BY <1>1
<1>3. \A i \in DOMAIN s : i \in DOMAIN t /\ t[i] = s[i]
  BY <1>1
<1>4. Len(t) \in DOMAIN t /\ t[Len(t)] = e
  BY <1>1
<1>5. Has(t, E) <=> Has(s, E) \/ e \in E
  BY <1>2, <1>3, <1>4 DEF Has
<1>6. OnceIn(s, E) /\ ~(Has(s, E) /\ e \in E) => OnceIn(t, E)
  BY <1>2 DEF Has, OnceIn
<1>7. All(s, E) /\ e \in E => All(t, E)
  BY <1>2 DEF All
<1> QED
  BY <1>5, <1>6, <1>7

\* What is left of a sequence without its first entry.
LEMMA PoppedHas ==
  ASSUME NEW s, NEW t, Popped(s, t), NEW E
  PROVE  /\ Has(s, E) <=> Has(t, E) \/ s[1] \in E
         /\ OnceIn(s, E) => OnceIn(t, E) /\ (s[1] \in E => ~Has(t, E))
         /\ All(s, E) => All(t, E) /\ s[1] \in E
<1>1. /\ Len(s) \in Nat \ {0} /\ Len(t) = Len(s) - 1 /\ DOMAIN s = 1 .. Len(s) /\ DOMAIN t = 1 .. Len(t)
      /\ \A i \in 1 .. Len(t) : t[i] = s[i + 1]
  BY DEF Popped
<1>2. \A i \in DOMAIN t : i \in Int /\ i + 1 \in DOMAIN s /\ i + 1 # 1 /\ t[i] = s[i + 1]
  BY <1>1
<1>3. \A i \in DOMAIN s : i = 1 \/ (i - 1 \in DOMAIN t /\ t[i - 1] = s[i])
  <2> TAKE i \in DOMAIN s
  <2>1. i = 1 \/ (i - 1 \in DOMAIN t /\ (i - 1) + 1 = i)
    BY <1>1
  <2> QED
    BY <1>1, <2>1
<1>4. 1 \in DOMAIN s
  BY <1>1
<1>5. Has(s, E) <=> Has(t, E) \/ s[1] \in E
  BY <1>2, <1>3, <1>4 DEF Has
<1>6. ASSUME OnceIn(s, E) PROVE OnceIn(t, E)
  <2> SUFFICES ASSUME NEW i \in DOMAIN t, NEW j \in DOMAIN t, t[i] \in E, t[j] \in E PROVE i = j
    BY DEF OnceIn
  <2>1. i + 1 = j + 1
    BY <1>2, <1>6 DEF OnceIn
  <2> QED
    BY <1>2, <2>1
<1>7. ASSUME OnceIn(s, E), s[1] \in E PROVE ~Has(t, E)
  BY <1>2, <1>4, <1>7 DEF OnceIn, Has
<1>8. All(s, E) => All(t, E) /\ s[1] \in E
  BY <1>2, <1>4 DEF All
<1> QED
  BY <1>5, <1>6, <1>7, <1>8

-----------------------------------------------------------------------------
(* Types and tasks                                                         *)

\* What the commands and the command buffers may flip.
Commands == CpuBuffers \cup {Blank}
EopTasks == {x \in Tasks : x.buf \in EopBuffers}

\* CPU flips go through the commands, flips of command buffers through irq and gfx, and
\* only the first command buffer has begun.
GuestKind(t) ==
    /\ guest.at[t] = "send" => guest.arg[t] \in Commands
    /\ guest.at[t] \in {"queue", "count"} => t \in Renderers /\ guest.arg[t] \in EopBuffers
KindInv ==
    /\ All(queue.commands, Commands) /\ All(queue.irq, EopBuffers) /\ All(queue.gfx, EopTasks)
    /\ \A i \in DOMAIN queue.gfx : i # 1 => queue.gfx[i].next = "wait"
    /\ \A t \in Guests : GuestKind(t)

\* Requests have frames, and the present thread has a flip only inside Flip.
FrameInv ==
    /\ \A i \in DOMAIN queue.requests : queue.requests[i].frame \in Frames
    /\ gpu.at = "push" => gpu.req.frame \in Frames
    /\ pres.at = "present" => pres.req.frame \in Frames
    /\ pres.at \in {"top", "blank"} => pres.req = NoFlip

ProgramInv == TypeOK /\ TaskInv /\ KindInv /\ FrameInv

\* The kinds, if the queues with kinds do not change.
LEMMA KindSame ==
  ASSUME KindInv, queue'.commands = queue.commands, queue'.irq = queue.irq, queue'.gfx = queue.gfx,
         guest'.at = guest.at, guest'.arg = guest.arg
  PROVE  KindInv'
BY DEF KindInv, GuestKind

\* The kind of the calls, if one thread goes on.
LEMMA GuestKindMoved ==
  ASSUME \A u \in Guests : GuestKind(u), NEW t \in Guests, NEW at, NEW arg, Moved(t, at, arg),
         at = "send" => arg \in Commands,
         at \in {"queue", "count"} => t \in Renderers /\ arg \in EopBuffers
  PROVE  (\A u \in Guests : GuestKind(u))'
<1> SUFFICES ASSUME NEW u \in Guests PROVE GuestKind(u)'
  OBVIOUS
<1>1. CASE u = t
  BY <1>1 DEF Moved, GuestKind
<1>2. CASE u # t
  BY <1>2 DEF Moved, GuestKind
<1> QED
  BY <1>1, <1>2

\* A step of the first command buffer keeps the kinds of the graphics queue.
LEMMA GfxAdvanced ==
  ASSUME queue.gfx \in Seq(Tasks), queue'.gfx \in Seq(Tasks), NEW x, Advanced(queue.gfx, queue'.gfx, x),
         All(queue.gfx, EopTasks), \A i \in DOMAIN queue.gfx : i # 1 => queue.gfx[i].next = "wait"
  PROVE  /\ All(queue'.gfx, EopTasks)
         /\ \A i \in DOMAIN queue'.gfx : i # 1 => queue'.gfx[i].next = "wait"
<1>1. /\ Len(queue.gfx) \in Nat \ {0} /\ DOMAIN queue'.gfx = DOMAIN queue.gfx
      /\ DOMAIN queue.gfx = 1 .. Len(queue.gfx) /\ queue'.gfx[1].buf = queue.gfx[1].buf
      /\ \A i \in 2 .. Len(queue.gfx) : queue'.gfx[i] = queue.gfx[i]
  BY DEF Advanced
<1>2. \A i \in DOMAIN queue'.gfx : i = 1 \/ (i \in DOMAIN queue.gfx /\ queue'.gfx[i] = queue.gfx[i])
  BY <1>1
<1>3. \A i \in DOMAIN queue'.gfx : queue'.gfx[i] \in Tasks
  BY EmptyIs
<1>4. 1 \in DOMAIN queue.gfx
  BY <1>1
<1>5. All(queue'.gfx, EopTasks)
  BY <1>1, <1>2, <1>3, <1>4 DEF All, EopTasks
<1> QED
  BY <1>2, <1>5

\* Every step keeps the types, the tasks and the kinds.
LEMMA KindStep ==
  ASSUME ProgramInv, Next
  PROVE  TypeOK' /\ TaskInv' /\ KindInv'
<1>0. TypeOK /\ TaskInv /\ KindInv /\ FrameInv
  BY DEF ProgramInv
<1>01. queue.gfx \in Seq(Tasks) /\ (queue.gfx # <<>> => 1 \in DOMAIN queue.gfx)
  BY <1>0, Fields, EmptyIs
<1>1. CASE Open \/ SubmitAsc \/ RunAsc \/ EndOfFrame \/ \E rate \in Rates : SetFlipRate(rate)
  <2>1. TypeOK' /\ SameQueues /\ UNCHANGED <<gpu, pres, guest>>
    BY <1>0, <1>1, QuietIs
  <2>2. KindInv'
    BY <1>0, <2>1, KindSame DEF SameQueues
  <2>3. TaskInv'
    BY <1>0, <2>1 DEF SameQueues, TaskInv
  <2> QED
    BY <2>1, <2>2, <2>3
<1>2. CASE Close
  <2>1. TypeOK' /\ UNCHANGED <<queue, gpu, pres>> /\ guest'.at = guest.at /\ guest'.arg = guest.arg
    BY <1>0, <1>2, CloseIs
  <2> QED
    BY <1>0, <2>1, KindSame DEF TaskInv
<1>3. ASSUME NEW bs \in Ranges, RegisterBuffers(bs) PROVE TypeOK' /\ TaskInv' /\ KindInv'
  <2>1. TypeOK' /\ UNCHANGED <<queue, pres, guest>> /\ Nudged
    BY <1>0, <1>3, RegisterIs
  <2> QED
    BY <1>0, <2>1, KindSame DEF TaskInv, Nudged
<1>4. ASSUME NEW g \in Groups, UnregisterBuffers(g) PROVE TypeOK' /\ TaskInv' /\ KindInv'
  <2>1. TypeOK' /\ UNCHANGED <<queue, gpu, pres>> /\ guest'.at = guest.at /\ guest'.arg = guest.arg
    BY <1>0, <1>4, UnregisterIs
  <2> QED
    BY <1>0, <2>1, KindSame DEF TaskInv
<1>5. ASSUME NEW t \in Flippers, NEW index \in CpuBuffers \cup {Blank}, SubmitFlip(t, index)
      PROVE TypeOK' /\ TaskInv' /\ KindInv'
  <2>1. TypeOK' /\ UNCHANGED <<queue, gpu, pres>> /\ t \in Guests /\ Moved(t, "send", index)
    BY <1>0, <1>5, SubmitFlipIs
  <2>2. (\A u \in Guests : GuestKind(u))'
    BY <1>0, <2>1, GuestKindMoved DEF KindInv, Commands
  <2> QED
    BY <1>0, <2>1, <2>2 DEF TaskInv, KindInv
<1>6. ASSUME NEW t \in Guests, SendCommand(t) PROVE TypeOK' /\ TaskInv' /\ KindInv'
  <2>1. /\ TypeOK' /\ UNCHANGED <<port, gpu, pres>>
        /\ guest.at[t] = "send" /\ Moved(t, "idle", guest.arg[t])
        /\ Pushed(queue.commands, queue'.commands, guest.arg[t])
        /\ queue'.irq = queue.irq /\ queue'.gfx = queue.gfx
    BY <1>0, <1>6, SendCommandIs
  <2>2. (\A u \in Guests : GuestKind(u))'
    BY <1>0, <2>1, GuestKindMoved DEF KindInv
  <2>3. All(queue'.commands, Commands)
    BY <1>0, <2>1, PushedHas DEF KindInv, GuestKind
  <2> QED
    BY <1>0, <2>1, <2>2, <2>3 DEF TaskInv, KindInv
<1>7. ASSUME NEW t \in Renderers, NEW b \in EopBuffers, SubmitEopFlip(t, b) PROVE TypeOK' /\ TaskInv' /\ KindInv'
  <2>1. /\ TypeOK' /\ UNCHANGED <<port, gpu, pres>> /\ t \in Guests /\ Moved(t, "queue", b)
        /\ Pushed(queue.irq, queue'.irq, b)
        /\ queue'.commands = queue.commands /\ queue'.gfx = queue.gfx
    BY <1>0, <1>7, SubmitEopFlipIs
  <2>2. (\A u \in Guests : GuestKind(u))'
    BY <1>0, <2>1, GuestKindMoved DEF KindInv
  <2>3. All(queue'.irq, EopBuffers)
    BY <1>0, <2>1, PushedHas DEF KindInv
  <2> QED
    BY <1>0, <2>1, <2>2, <2>3 DEF TaskInv, KindInv
<1>8. ASSUME NEW t \in Guests, SubmitGfx(t) PROVE TypeOK' /\ TaskInv' /\ KindInv'
  <2> DEFINE e == [buf |-> guest.arg[t], next |-> "wait"]
  <2>1. guest.arg[t] \in EopBuffers /\ t \in Renderers /\ guest.arg[t] \in Buffers
    BY <1>0, <1>8, Constants DEF KindInv, GuestKind, SubmitGfx
  <2>2. e \in EopTasks /\ e.next = "wait"
    BY <2>1 DEF EopTasks, Tasks
  <2>3. /\ TypeOK' /\ UNCHANGED <<port, gpu, pres>> /\ Moved(t, "count", guest.arg[t])
        /\ Pushed(queue.gfx, queue'.gfx, e)
        /\ queue'.commands = queue.commands /\ queue'.irq = queue.irq
    BY <1>0, <1>8, <2>1, SubmitGfxIs
  <2> HIDE DEF e
  <2>4. (\A u \in Guests : GuestKind(u))'
    BY <1>0, <2>1, <2>3, GuestKindMoved DEF KindInv
  <2>5. All(queue'.gfx, EopTasks)
    BY <1>0, <2>2, <2>3, PushedHas DEF KindInv
  <2>6. \A i \in DOMAIN queue'.gfx : i # 1 => queue'.gfx[i].next = "wait"
    BY <1>0, <2>2, <2>3 DEF Pushed, KindInv
  <2>7. queue'.gfx # <<>> /\ (queue.gfx # <<>> => queue'.gfx[1] = queue.gfx[1])
    BY <1>01, <2>3, EmptyIs DEF Pushed
  <2>8. TaskInv'
    BY <1>0, <2>3, <2>7 DEF TaskInv
  <2> QED
    BY <1>0, <2>3, <2>4, <2>5, <2>6, <2>8 DEF KindInv
<1>9. ASSUME NEW t \in Guests, SubmitCount(t) PROVE TypeOK' /\ TaskInv' /\ KindInv'
  <2>1. TypeOK' /\ UNCHANGED <<port, gpu, pres>> /\ SameQueues /\ Moved(t, "idle", guest.arg[t])
    BY <1>0, <1>9, SubmitCountIs
  <2>2. (\A u \in Guests : GuestKind(u))'
    BY <1>0, <2>1, GuestKindMoved DEF KindInv
  <2> QED
    BY <1>0, <2>1, <2>2 DEF TaskInv, KindInv, SameQueues
<1>10. CASE ProcessCommands
  <2>1. /\ TypeOK' /\ UNCHANGED <<port, pres, guest>>
        /\ Popped(queue.commands, queue'.commands)
        /\ queue'.irq = queue.irq /\ queue'.gfx = queue.gfx
        /\ gpu'.in_task = gpu.in_task /\ gpu'.at \in {"frame", "unregistered"}
    BY <1>0, <1>10, ProcessCommandsIs
  <2>2. All(queue'.commands, Commands)
    BY <1>0, <2>1, PoppedHas DEF KindInv
  <2>3. KindInv'
    BY <1>0, <2>1, <2>2 DEF KindInv, GuestKind
  <2> QED
    BY <1>0, <2>1, <2>3 DEF TaskInv
<1>11. CASE GetRenderFrame
  <2>1. /\ TypeOK' /\ UNCHANGED <<port, pres, guest>>
        /\ queue'.commands = queue.commands /\ queue'.irq = queue.irq /\ queue'.gfx = queue.gfx
        /\ gpu'.at = "push" /\ gpu'.in_task = gpu.in_task
    BY <1>0, <1>11, GetRenderFrameIs
  <2> QED
    BY <1>0, <2>1, KindSame DEF TaskInv
<1>12. CASE PushRequest
  <2>1. /\ TypeOK' /\ UNCHANGED <<port, pres, guest>>
        /\ queue'.commands = queue.commands /\ queue'.irq = queue.irq /\ queue'.gfx = queue.gfx
        /\ gpu'.at = "run" /\ (gpu'.in_task => gpu.in_task \/ queue.gfx # <<>>)
    BY <1>0, <1>12, PushRequestIs
  <2> QED
    BY <1>0, <2>1, KindSame DEF TaskInv
<1>13. CASE ResumeGfx \/ WaitRegMemSleep \/ Spurious
  BY <1>0, <1>13, GpuTurnIs, KindSame
<1>14. CASE WaitRegMemPass \/ WaitRegMemYield \/ WaitVoLabel
  <2>1. /\ TypeOK' /\ TaskInv' /\ UNCHANGED <<port, pres, guest>>
        /\ queue'.commands = queue.commands /\ queue'.irq = queue.irq
        /\ \/ queue'.gfx = queue.gfx
           \/ Advanced(queue.gfx, queue'.gfx, "poll")
           \/ Advanced(queue.gfx, queue'.gfx, "write")
    BY <1>0, <1>14, WaitIs
  <2>2. queue'.gfx \in Seq(Tasks)
    BY <2>1, TypeIsNext DEF Queue, Tasks
  <2>3. /\ All(queue'.gfx, EopTasks)
        /\ \A i \in DOMAIN queue'.gfx : i # 1 => queue'.gfx[i].next = "wait"
    BY <1>0, <1>01, <2>1, <2>2, GfxAdvanced DEF KindInv
  <2> QED
    BY <1>0, <2>1, <2>3 DEF KindInv, GuestKind
<1>15. CASE WriteData
  <2>1. /\ TypeOK' /\ TaskInv' /\ UNCHANGED <<gpu, pres, guest>>
        /\ queue'.commands = queue.commands /\ queue'.irq = queue.irq
        /\ Advanced(queue.gfx, queue'.gfx, "flip")
    BY <1>0, <1>15, WriteDataIs
  <2>2. queue'.gfx \in Seq(Tasks)
    BY <2>1, TypeIsNext DEF Queue, Tasks
  <2>3. /\ All(queue'.gfx, EopTasks)
        /\ \A i \in DOMAIN queue'.gfx : i # 1 => queue'.gfx[i].next = "wait"
    BY <1>0, <1>01, <2>1, <2>2, GfxAdvanced DEF KindInv
  <2> QED
    BY <1>0, <2>1, <2>3 DEF KindInv, GuestKind
<1>16. CASE SignalFlip
  <2>1. /\ TypeOK' /\ TaskInv' /\ UNCHANGED <<pres, guest>>
        /\ queue'.commands = queue.commands /\ Popped(queue.irq, queue'.irq)
        /\ Advanced(queue.gfx, queue'.gfx, "done")
    BY <1>0, <1>16, SignalFlipIs
  <2>2. queue'.gfx \in Seq(Tasks)
    BY <2>1, TypeIsNext DEF Queue, Tasks
  <2>3. /\ All(queue'.gfx, EopTasks)
        /\ \A i \in DOMAIN queue'.gfx : i # 1 => queue'.gfx[i].next = "wait"
    BY <1>0, <1>01, <2>1, <2>2, GfxAdvanced DEF KindInv
  <2>4. All(queue'.irq, EopBuffers)
    BY <1>0, <2>1, PoppedHas DEF KindInv
  <2> QED
    BY <1>0, <2>1, <2>3, <2>4 DEF KindInv, GuestKind
<1>17. CASE FinishGfx
  <2>1. /\ TypeOK' /\ TaskInv' /\ UNCHANGED <<port, pres, guest>>
        /\ queue'.commands = queue.commands /\ queue'.irq = queue.irq
        /\ Popped(queue.gfx, queue'.gfx)
    BY <1>0, <1>17, FinishGfxIs
  <2>2. All(queue'.gfx, EopTasks)
    BY <1>0, <2>1, PoppedHas DEF KindInv
  <2>3. \A i \in DOMAIN queue'.gfx : i # 1 => queue'.gfx[i].next = "wait"
    <3>1. \A i \in DOMAIN queue'.gfx : i + 1 \in DOMAIN queue.gfx /\ i + 1 # 1 /\ queue'.gfx[i] = queue.gfx[i + 1]
      BY <2>1 DEF Popped
    <3> QED
      BY <1>0, <3>1 DEF KindInv
  <2> QED
    BY <1>0, <2>1, <2>2, <2>3 DEF KindInv, GuestKind
<1>18. CASE ReceiveRequest
  BY <1>0, <1>18, ReceiveRequestIs, KindSame DEF TaskInv
<1>19. CASE DrawBlankFrame
  BY <1>0, <1>19, DrawBlankFrameIs, KindSame DEF TaskInv
<1>20. CASE PresentBlank
  BY <1>0, <1>20, PresentBlankIs, KindSame DEF TaskInv
<1>21. CASE Present
  <2>1. pres.req.frame \in Frames
    BY <1>0, <1>21 DEF FrameInv, Present
  <2> QED
    BY <1>0, <1>21, <2>1, PresentIs, KindSame DEF TaskInv
<1>22. CASE FlipStatus
  BY <1>0, <1>22, FlipStatusIs, KindSame DEF TaskInv
<1>23. CASE ReleaseLabel
  BY <1>0, <1>23, ReleaseLabelIs, KindSame DEF TaskInv, Nudged
<1> QED
  BY <1>1, <1>2, <1>3, <1>4, <1>5, <1>6, <1>7, <1>8, <1>9, <1>10, <1>11, <1>12, <1>13, <1>14, <1>15,
     <1>16, <1>17, <1>18, <1>19, <1>20, <1>21, <1>22, <1>23 DEF Next, Gpu, PresentThread, Guest

-----------------------------------------------------------------------------
(* Frames                                                                  *)

\* Frame f is in exactly one of its four places, and there once.
FlipsWith(f) == {r \in Flips : r.frame = f}
GpuHolds(f) == gpu.at = "push" /\ gpu.req.frame = f
PresHolds(f) == pres.at = "present" /\ pres.req.frame = f
Held(f) ==
    /\ OnceIn(queue.free, {f}) /\ OnceIn(queue.requests, FlipsWith(f))
    /\ Has(queue.free, {f}) \/ Has(queue.requests, FlipsWith(f)) \/ GpuHolds(f) \/ PresHolds(f)
    /\ Has(queue.free, {f}) => ~Has(queue.requests, FlipsWith(f)) /\ ~GpuHolds(f) /\ ~PresHolds(f)
    /\ Has(queue.requests, FlipsWith(f)) => ~GpuHolds(f) /\ ~PresHolds(f)
    /\ ~(GpuHolds(f) /\ PresHolds(f))
HeldInv == \A f \in Frames : Held(f)

\* The frames, if neither the queues of frames nor what the threads hold changes.
LEMMA FramesSame ==
  ASSUME FrameInv, HeldInv, queue'.free = queue.free, queue'.requests = queue.requests,
         gpu'.at = "push" <=> gpu.at = "push", gpu.at = "push" => gpu'.req = gpu.req,
         pres'.at = "present" <=> pres.at = "present", pres.at = "present" => pres'.req = pres.req,
         pres'.at \in {"top", "blank"} => pres'.req = NoFlip
  PROVE  FrameInv' /\ HeldInv'
<1>1. FrameInv'
  BY DEF FrameInv
<1>2. \A f \in Frames : (GpuHolds(f))' = GpuHolds(f) /\ (PresHolds(f))' = PresHolds(f)
  BY DEF GpuHolds, PresHolds
<1>3. ASSUME NEW f \in Frames PROVE Held(f)'
  BY <1>2 DEF HeldInv, Held
<1> QED
  BY <1>1, <1>3 DEF HeldInv

\* Every step keeps the frames.
LEMMA FrameStep ==
  ASSUME ProgramInv, HeldInv, TypeOK', Next
  PROVE  FrameInv' /\ HeldInv'
<1>0. TypeOK /\ TaskInv /\ KindInv /\ FrameInv
  BY DEF ProgramInv
<1>01. gpu.req \in Flips /\ pres.req \in Flips /\ \A i \in DOMAIN queue.requests : queue.requests[i] \in Flips
  BY <1>0, Fields, EmptyIs
<1>02. pres.at \in {"top", "blank"} => pres.req = NoFlip
  BY <1>0 DEF FrameInv
<1>1. CASE Open \/ SubmitAsc \/ RunAsc \/ EndOfFrame \/ \E rate \in Rates : SetFlipRate(rate)
  BY <1>0, <1>02, <1>1, QuietIs, FramesSame DEF SameQueues
<1>2. CASE Close
  BY <1>0, <1>02, <1>2, CloseIs, FramesSame
<1>3. ASSUME NEW bs \in Ranges, RegisterBuffers(bs) PROVE FrameInv' /\ HeldInv'
  BY <1>0, <1>02, <1>3, RegisterIs, FramesSame DEF Nudged
<1>4. ASSUME NEW g \in Groups, UnregisterBuffers(g) PROVE FrameInv' /\ HeldInv'
  BY <1>0, <1>02, <1>4, UnregisterIs, FramesSame
<1>5. ASSUME NEW t \in Flippers, NEW index \in CpuBuffers \cup {Blank}, SubmitFlip(t, index)
      PROVE FrameInv' /\ HeldInv'
  BY <1>0, <1>02, <1>5, SubmitFlipIs, FramesSame
<1>6. ASSUME NEW t \in Guests, SendCommand(t) PROVE FrameInv' /\ HeldInv'
  BY <1>0, <1>02, <1>6, SendCommandIs, FramesSame
<1>7. ASSUME NEW t \in Renderers, NEW b \in EopBuffers, SubmitEopFlip(t, b) PROVE FrameInv' /\ HeldInv'
  BY <1>0, <1>02, <1>7, SubmitEopFlipIs, FramesSame
<1>8. ASSUME NEW t \in Guests, SubmitGfx(t) PROVE FrameInv' /\ HeldInv'
  <2>1. guest.arg[t] \in Buffers
    BY <1>0, <1>8, Constants DEF KindInv, GuestKind, SubmitGfx
  <2> QED
    BY <1>0, <1>02, <1>8, <2>1, SubmitGfxIs, FramesSame
<1>9. ASSUME NEW t \in Guests, SubmitCount(t) PROVE FrameInv' /\ HeldInv'
  BY <1>0, <1>02, <1>9, SubmitCountIs, FramesSame DEF SameQueues
<1>10. CASE ProcessCommands
  BY <1>0, <1>02, <1>10, ProcessCommandsIs, FramesSame
<1>11. CASE GetRenderFrame
  <2>1. /\ UNCHANGED <<port, pres, guest>> /\ Popped(queue.free, queue'.free)
        /\ queue'.requests = queue.requests
        /\ gpu.at = "frame" /\ gpu'.at = "push" /\ gpu'.req.frame = queue.free[1]
    BY <1>0, <1>11, GetRenderFrameIs
  <2>2. queue.free[1] \in Frames
    BY <1>0, <2>1, Fields, EmptyIs DEF Popped
  <2>3. FrameInv'
    BY <1>0, <2>1, <2>2 DEF FrameInv
  <2>4. ASSUME NEW f \in Frames PROVE Held(f)'
    <3>1. /\ Has(queue.free, {f}) <=> Has(queue'.free, {f}) \/ queue.free[1] = f
          /\ OnceIn(queue.free, {f}) => OnceIn(queue'.free, {f}) /\ (queue.free[1] = f => ~Has(queue'.free, {f}))
      BY <2>1, PoppedHas
    <3>2. ~GpuHolds(f) /\ (GpuHolds(f)' <=> queue.free[1] = f) /\ PresHolds(f)' = PresHolds(f)
      BY <2>1 DEF GpuHolds, PresHolds
    <3> QED
      BY <2>1, <3>1, <3>2 DEF HeldInv, Held
  <2> QED
    BY <2>3, <2>4 DEF HeldInv
<1>12. CASE PushRequest
  <2>1. /\ UNCHANGED <<port, pres, guest>> /\ Pushed(queue.requests, queue'.requests, gpu.req)
        /\ queue'.free = queue.free /\ gpu.at = "push" /\ gpu'.at = "run"
    BY <1>0, <1>12, PushRequestIs
  <2>2. gpu.req.frame \in Frames
    BY <1>0, <2>1 DEF FrameInv
  <2>3. \A i \in DOMAIN queue'.requests : queue'.requests[i].frame \in Frames
    BY <1>0, <2>1, <2>2 DEF FrameInv, Pushed
  <2>4. FrameInv'
    BY <1>0, <2>1, <2>3 DEF FrameInv
  <2>5. ASSUME NEW f \in Frames PROVE Held(f)'
    <3>1. gpu.req \in FlipsWith(f) <=> GpuHolds(f)
      BY <1>01, <2>1 DEF FlipsWith, GpuHolds
    <3>2. /\ Has(queue'.requests, FlipsWith(f)) <=> Has(queue.requests, FlipsWith(f)) \/ GpuHolds(f)
          /\ OnceIn(queue.requests, FlipsWith(f)) /\ ~(Has(queue.requests, FlipsWith(f)) /\ GpuHolds(f))
             => OnceIn(queue'.requests, FlipsWith(f))
      BY <2>1, <3>1, PushedHas
    <3>3. ~GpuHolds(f)' /\ PresHolds(f)' = PresHolds(f)
      BY <2>1 DEF GpuHolds, PresHolds
    <3>4. FlipsWith(f)' = FlipsWith(f)
      BY DEF FlipsWith
    <3> QED
      BY <2>1, <3>2, <3>3, <3>4 DEF HeldInv, Held
  <2> QED
    BY <2>4, <2>5 DEF HeldInv
<1>13. CASE ResumeGfx \/ WaitRegMemSleep \/ Spurious
  BY <1>0, <1>02, <1>13, GpuTurnIs, FramesSame
<1>14. CASE WaitRegMemPass \/ WaitRegMemYield \/ WaitVoLabel
  BY <1>0, <1>02, <1>14, WaitIs, FramesSame
<1>15. CASE WriteData
  BY <1>0, <1>02, <1>15, WriteDataIs, FramesSame
<1>16. CASE SignalFlip
  BY <1>0, <1>02, <1>16, SignalFlipIs, FramesSame
<1>17. CASE FinishGfx
  BY <1>0, <1>02, <1>17, FinishGfxIs, FramesSame
<1>18. CASE ReceiveRequest
  <2>1. /\ UNCHANGED <<port, gpu, guest>> /\ Popped(queue.requests, queue'.requests)
        /\ queue'.free = queue.free
        /\ pres.at = "top" /\ pres'.at = "present" /\ pres'.req = queue.requests[1]
    BY <1>0, <1>18, ReceiveRequestIs
  <2>2. /\ 1 \in DOMAIN queue.requests
        /\ \A i \in DOMAIN queue'.requests :
             i + 1 \in DOMAIN queue.requests /\ queue'.requests[i] = queue.requests[i + 1]
    BY <2>1 DEF Popped
  <2>3. FrameInv'
    BY <1>0, <2>1, <2>2 DEF FrameInv
  <2>4. ASSUME NEW f \in Frames PROVE Held(f)'
    <3>1. queue.requests[1] \in FlipsWith(f) <=> queue.requests[1].frame = f
      BY <1>01, <2>2 DEF FlipsWith
    <3>2. /\ Has(queue.requests, FlipsWith(f)) <=> Has(queue'.requests, FlipsWith(f)) \/ queue.requests[1].frame = f
          /\ OnceIn(queue.requests, FlipsWith(f)) =>
               /\ OnceIn(queue'.requests, FlipsWith(f))
               /\ (queue.requests[1].frame = f => ~Has(queue'.requests, FlipsWith(f)))
      BY <2>1, <3>1, PoppedHas
    <3>3. ~PresHolds(f) /\ (PresHolds(f)' <=> queue.requests[1].frame = f) /\ GpuHolds(f)' = GpuHolds(f)
      BY <2>1 DEF GpuHolds, PresHolds
    <3>4. FlipsWith(f)' = FlipsWith(f)
      BY DEF FlipsWith
    <3> QED
      BY <2>1, <3>2, <3>3, <3>4 DEF HeldInv, Held
  <2> QED
    BY <2>3, <2>4 DEF HeldInv
<1>19. CASE DrawBlankFrame
  BY <1>0, <1>02, <1>19, DrawBlankFrameIs, FramesSame
<1>20. CASE PresentBlank
  <2>1. /\ queue'.requests = queue.requests /\ UNCHANGED gpu
        /\ pres.at = "blank" /\ pres'.at = "top" /\ pres'.req = pres.req
    BY <1>0, <1>20, PresentBlankIs
  <2>2. PICK s \in Seq(Frames) : Popped(queue.free, s) /\ Pushed(s, queue'.free, queue.free[1])
    BY <1>0, <1>20, PresentBlankIs
  <2>3. FrameInv'
    BY <1>0, <1>02, <2>1 DEF FrameInv
  <2>4. ASSUME NEW f \in Frames PROVE Held(f)'
    <3>1. /\ Has(queue.free, {f}) <=> Has(s, {f}) \/ queue.free[1] = f
          /\ OnceIn(queue.free, {f}) => OnceIn(s, {f}) /\ (queue.free[1] = f => ~Has(s, {f}))
      BY <2>2, PoppedHas
    <3>2. /\ Has(queue'.free, {f}) <=> Has(s, {f}) \/ queue.free[1] = f
          /\ OnceIn(s, {f}) /\ ~(Has(s, {f}) /\ queue.free[1] = f) => OnceIn(queue'.free, {f})
      BY <2>2, PushedHas
    <3>3. ~PresHolds(f) /\ ~PresHolds(f)' /\ GpuHolds(f)' = GpuHolds(f) /\ FlipsWith(f)' = FlipsWith(f)
      BY <2>1 DEF GpuHolds, PresHolds, FlipsWith
    <3> QED
      BY <2>1, <3>1, <3>2, <3>3 DEF HeldInv, Held
  <2> QED
    BY <2>3, <2>4 DEF HeldInv
<1>21. CASE Present
  <2>1. pres.req.frame \in Frames
    BY <1>0, <1>21 DEF FrameInv, Present
  <2>2. /\ UNCHANGED <<port, gpu, guest>> /\ Pushed(queue.free, queue'.free, pres.req.frame)
        /\ queue'.requests = queue.requests
        /\ pres.at = "present" /\ pres'.at = "status" /\ pres'.req = pres.req
    BY <1>0, <1>21, <2>1, PresentIs
  <2>3. FrameInv'
    BY <1>0, <2>2 DEF FrameInv
  <2>4. ASSUME NEW f \in Frames PROVE Held(f)'
    <3>1. pres.req.frame \in {f} <=> PresHolds(f)
      BY <2>2 DEF PresHolds
    <3>2. /\ Has(queue'.free, {f}) <=> Has(queue.free, {f}) \/ PresHolds(f)
          /\ OnceIn(queue.free, {f}) /\ ~(Has(queue.free, {f}) /\ PresHolds(f)) => OnceIn(queue'.free, {f})
      BY <2>2, <3>1, PushedHas
    <3>3. ~PresHolds(f)' /\ GpuHolds(f)' = GpuHolds(f) /\ FlipsWith(f)' = FlipsWith(f)
      BY <2>2 DEF GpuHolds, PresHolds, FlipsWith
    <3> QED
      BY <2>2, <3>2, <3>3 DEF HeldInv, Held
  <2> QED
    BY <2>3, <2>4 DEF HeldInv
<1>22. CASE FlipStatus
  BY <1>0, <1>02, <1>22, FlipStatusIs, FramesSame
<1>23. CASE ReleaseLabel
  BY <1>0, <1>02, <1>23, ReleaseLabelIs, FramesSame DEF Nudged
<1> QED
  BY <1>1, <1>2, <1>3, <1>4, <1>5, <1>6, <1>7, <1>8, <1>9, <1>10, <1>11, <1>12, <1>13, <1>14, <1>15,
     <1>16, <1>17, <1>18, <1>19, <1>20, <1>21, <1>22, <1>23 DEF Next, Gpu, PresentThread, Guest

\* The first state: all frames are free.
LEMMA FrameInit ==
  ASSUME Init
  PROVE  ProgramInv /\ HeldInv
<1> DEFINE s == CHOOSE x \in Bijection(1 .. Cardinality(Frames), Frames) : TRUE
           n == Cardinality(Frames)
<1>1. n \in Nat /\ ExistsBijection(1 .. n, Frames)
  BY Constants, FS_CardinalityType
<1>2. Bijection(1 .. n, Frames) # {}
  BY <1>1 DEF ExistsBijection
<1>3. s \in Bijection(1 .. n, Frames)
  BY <1>2
<1>4. queue = [requests |-> <<>>, commands |-> <<>>, irq |-> <<>>, free |-> s,
                asc |-> 0, num_submits |-> 0, gfx |-> <<>>]
  BY DEF Init
<1> HIDE DEF s, n
<1>5. /\ s \in [1 .. n -> Frames] /\ DOMAIN s = 1 .. n
      /\ \A i, j \in 1 .. n : s[i] = s[j] => i = j
      /\ \A f \in Frames : \E i \in 1 .. n : s[i] = f
  BY <1>3 DEF Bijection, Injection, Surjection, IsInjective
<1>6. s \in Seq(Frames)
  BY <1>1, <1>5, SeqDef
<1>7. /\ queue.requests = <<>> /\ queue.commands = <<>> /\ queue.irq = <<>> /\ queue.free = s
      /\ queue.gfx = <<>>
  BY <1>4
<1>8. <<>> \in Seq(Flips) /\ <<>> \in Seq(Indices) /\ <<>> \in Seq(Buffers) /\ <<>> \in Seq(Tasks)
      /\ DOMAIN <<>> = {}
  OBVIOUS
<1>9. queue \in Queue
  BY <1>4, <1>6, <1>8, Constants DEF Queue, Tasks
<1>10. port \in Port
  BY DEF Init, ClosedPort, Port, Indices, Blank
<1>11. /\ gpu \in GpuType /\ pres \in PresType /\ gpu.at = "run" /\ gpu.in_task = FALSE
       /\ pres.at = "top" /\ pres.req = NoFlip
  BY FlipFields DEF Init, GpuType, PresType
<1>12. guest \in GuestType /\ \A t \in Guests : guest.at[t] = "idle"
  BY Constants DEF Init, GuestType, Indices
<1>13. TypeOK
  BY <1>9, <1>10, <1>11, <1>12, TypeIs
<1>14. TaskInv /\ KindInv /\ FrameInv
  BY <1>7, <1>8, <1>11, <1>12 DEF TaskInv, KindInv, FrameInv, All, GuestKind
<1>15. ASSUME NEW f \in Frames PROVE Held(f)
  <2>1. ~Has(queue.requests, FlipsWith(f)) /\ OnceIn(queue.requests, FlipsWith(f))
    BY <1>7, <1>8 DEF Has, OnceIn
  <2>2. Has(queue.free, {f}) /\ OnceIn(queue.free, {f})
    BY <1>5, <1>7 DEF Has, OnceIn
  <2> QED
    BY <1>11, <2>1, <2>2 DEF Held, GpuHolds, PresHolds
<1> QED
  BY <1>13, <1>14, <1>15 DEF ProgramInv, HeldInv

\* P is empty, or one place of an entry of s in E.
OnePlace(s, E, P) ==
    /\ P # {} => Has(s, E) /\ \E x : P = {x}
    /\ Has(s, E) => P # {}

\* The places of the entries of a sequence, if at most one of them is in the set.
LEMMA OncePlace ==
  ASSUME NEW s, NEW E, OnceIn(s, E), NEW k, NEW S,
         \A i : i \in S <=> i \in DOMAIN s /\ s[i] \in E
  PROVE  OnePlace(s, E, {k} \X S)
<1>1. ASSUME NEW i \in S PROVE Has(s, E) /\ {k} \X S = {<<k, i>>}
  <2>1. S = {i}
    BY DEF OnceIn
  <2>2. Has(s, E)
    BY DEF Has
  <2> QED
    BY <2>1, <2>2
<1>2. ASSUME Has(s, E) PROVE \E i : i \in S
  BY <1>2 DEF Has
<1>3. ASSUME {k} \X S # {} PROVE \E i : i \in S
  BY <1>3
<1>4. ASSUME NEW i \in S PROVE <<k, i>> \in {k} \X S
  OBVIOUS
<1> QED
  BY <1>1, <1>2, <1>3, <1>4 DEF OnePlace

\* A frame that is held has one place.
LEMMA HeldPlace ==
  ASSUME TypeOK, NEW f \in Frames, Held(f)
  PROVE  Cardinality(Places(f)) = 1
<1> DEFINE A == {"free"} \X {i \in DOMAIN queue.free : queue.free[i] = f}
           B == {"requests"} \X {i \in DOMAIN queue.requests : queue.requests[i].frame = f}
           C == {x \in {<<"gpu", 0>>} : gpu.at = "push" /\ gpu.req.frame = f}
           D == {x \in {<<"present", 0>>} : pres.at = "present" /\ pres.req.frame = f}
<1>1. Places(f) = A \cup B \cup C \cup D
  BY DEF Places
<1>2. \A i \in DOMAIN queue.requests : queue.requests[i] \in FlipsWith(f) <=> queue.requests[i].frame = f
  BY Fields, EmptyIs DEF FlipsWith
<1>3. /\ A # {} => Has(queue.free, {f}) /\ \E x : A = {x}
      /\ Has(queue.free, {f}) => A # {}
  <2> DEFINE S == {i \in DOMAIN queue.free : queue.free[i] = f}
  <2>1. /\ \A i : i \in S <=> i \in DOMAIN queue.free /\ queue.free[i] \in {f}
        /\ OnceIn(queue.free, {f})
    BY DEF Held
  <2> HIDE DEF S
  <2>2. OnePlace(queue.free, {f}, {"free"} \X S)
    BY <2>1, OncePlace
  <2> QED
    BY <2>2 DEF S, OnePlace
<1>4. /\ B # {} => Has(queue.requests, FlipsWith(f)) /\ \E x : B = {x}
      /\ Has(queue.requests, FlipsWith(f)) => B # {}
  <2> DEFINE S == {i \in DOMAIN queue.requests : queue.requests[i].frame = f}
  <2>1. /\ \A i : i \in S <=> i \in DOMAIN queue.requests /\ queue.requests[i] \in FlipsWith(f)
        /\ OnceIn(queue.requests, FlipsWith(f))
    BY <1>2 DEF Held
  <2> HIDE DEF S
  <2>2. OnePlace(queue.requests, FlipsWith(f), {"requests"} \X S)
    BY <2>1, OncePlace
  <2> QED
    BY <2>2 DEF S, OnePlace
<1>5. /\ C # {} => GpuHolds(f) /\ \E x : C = {x}
      /\ GpuHolds(f) => C # {}
  BY DEF GpuHolds
<1>6. /\ D # {} => PresHolds(f) /\ \E x : D = {x}
      /\ PresHolds(f) => D # {}
  BY DEF PresHolds
<1> HIDE DEF A, B, C, D
<1>7. \E x : A \cup B \cup C \cup D = {x}
  <2>1. CASE Has(queue.free, {f})
    <3>1. B = {} /\ C = {} /\ D = {} /\ A # {}
      BY <1>3, <1>4, <1>5, <1>6, <2>1 DEF Held
    <3> QED
      BY <1>3, <3>1
  <2>2. CASE Has(queue.requests, FlipsWith(f))
    <3>1. A = {} /\ C = {} /\ D = {} /\ B # {}
      BY <1>3, <1>4, <1>5, <1>6, <2>2 DEF Held
    <3> QED
      BY <1>4, <3>1
  <2>3. CASE GpuHolds(f)
    <3>1. A = {} /\ B = {} /\ D = {} /\ C # {}
      BY <1>3, <1>4, <1>5, <1>6, <2>3 DEF Held
    <3> QED
      BY <1>5, <3>1
  <2>4. CASE PresHolds(f)
    <3>1. A = {} /\ B = {} /\ C = {} /\ D # {}
      BY <1>3, <1>4, <1>5, <1>6, <2>4 DEF Held
    <3> QED
      BY <1>6, <3>1
  <2> QED
    BY <2>1, <2>2, <2>3, <2>4 DEF Held
<1> QED
  BY <1>1, <1>7, FS_Singleton

\* What holds whatever the guest does.
BaseInv == ProgramInv /\ HeldInv

\* BaseInv is inductive.
LEMMA BaseStep ==
  ASSUME BaseInv, [Next]_vars
  PROVE  BaseInv'
<1>1. CASE Next
  BY <1>1, KindStep, FrameStep DEF BaseInv, ProgramInv
<1>2. CASE UNCHANGED vars
  <2>1. TypeOK' /\ TaskInv' /\ KindInv'
    BY <1>2, KindSame, TypeIsNext, TypeIs DEF BaseInv, ProgramInv, vars, TaskInv
  <2>2. FrameInv' /\ HeldInv'
    BY <1>2, FramesSame DEF BaseInv, ProgramInv, vars, FrameInv
  <2> QED
    BY <2>1, <2>2 DEF BaseInv, ProgramInv
<1> QED
  BY <1>1, <1>2

\* BaseInv holds in every state.
THEOREM BaseCorrect == Spec => []BaseInv
<1>1. Init => BaseInv
  BY FrameInit DEF BaseInv
<1>2. BaseInv /\ [Next]_vars => BaseInv'
  BY BaseStep
<1> QED
  BY <1>1, <1>2, PTL DEF Spec

\* The state of the port, the queues and the threads has its type, for any calls of the
\* guest.
THEOREM TypeCorrect == Spec => []TypeOK
<1>1. BaseInv => TypeOK
  BY DEF BaseInv, ProgramInv
<1> QED
  BY <1>1, BaseCorrect, PTL

\* Each frame of the presenter is in one place, whatever the guest, the GPU thread and
\* the present thread do: GetRenderFrame takes a frame that nobody else has, and each
\* frame it takes comes back with Present.
THEOREM FramesAreConserved == Spec => []FramesConserved
<1>1. BaseInv => FramesConserved
  BY HeldPlace DEF BaseInv, ProgramInv, HeldInv, FramesConserved
<1> QED
  BY <1>1, BaseCorrect, PTL

-----------------------------------------------------------------------------
(* Registered buffers.  The guest closes and unregisters only what no flip *)
(* uses any more: Settled.                                                 *)

\* The flips with a record and the flips without one that use buffer b.
FlipsOf(b) == {r \in Flips : r.index = b}
GpuUses(b) == gpu.at \in {"frame", "push"} /\ gpu.req.index = b
PresUses(b) == pres.at # "top" /\ pres.req.index = b
InUse(b) == port.prev_index = b \/ Has(queue.requests, FlipsOf(b)) \/ GpuUses(b) \/ PresUses(b)
GuestUses(b) == \E t \in Guests : guest.at[t] # "idle" /\ guest.arg[t] = b
IsAwaited(b) == Has(queue.commands, {b}) \/ Has(queue.irq, {b}) \/ GuestUses(b)

\* A buffer that a flip uses is registered, so SubmitFlipInternal finds its group.
RegInv ==
    /\ \A b \in Buffers : InUse(b) \/ IsAwaited(b) => port.slots[b] >= 0
    /\ gpu.at # "unregistered"

\* InUse is Used, and IsAwaited is membership in Awaited.
LEMMA UsedIs ==
  ASSUME TypeOK, NEW b \in Buffers
  PROVE  (Used(b) <=> InUse(b)) /\ (b \in Awaited <=> IsAwaited(b))
<1>1. \A i \in DOMAIN queue.requests : queue.requests[i] \in FlipsOf(b) <=> queue.requests[i].index = b
  BY Fields, EmptyIs DEF FlipsOf
<1>2. (\E r \in Range(queue.requests) : r.index = b) <=> Has(queue.requests, FlipsOf(b))
  BY <1>1 DEF Range, Has
<1>3. Used(b) <=> InUse(b)
  BY <1>2 DEF Used, InFlight, InUse, GpuUses, PresUses
<1>4. (b \in Range(queue.commands) <=> Has(queue.commands, {b})) /\ (b \in Range(queue.irq) <=> Has(queue.irq, {b}))
  BY DEF Range, Has
<1>5. b \in {guest.arg[t] : t \in {u \in Guests : guest.at[u] # "idle"}} <=> GuestUses(b)
  BY DEF GuestUses
<1>6. b \in Awaited <=> IsAwaited(b)
  BY <1>4, <1>5 DEF Awaited, IsAwaited
<1> QED
  BY <1>3, <1>6

\* A step that uses only what is used or registered already.
LEMMA RegKept ==
  ASSUME RegInv, port'.slots = port.slots, gpu'.at # "unregistered",
         \A b \in Buffers : InUse(b)' \/ IsAwaited(b)' => InUse(b) \/ IsAwaited(b) \/ port.slots[b] >= 0
  PROVE  RegInv'
BY DEF RegInv

\* The call of a thread that goes on uses the buffer it has now.
LEMMA GuestUsesMoved ==
  ASSUME NEW t \in Guests, NEW at, NEW arg, Moved(t, at, arg), NEW b
  PROVE  GuestUses(b)' => GuestUses(b) \/ (at # "idle" /\ arg = b)
BY DEF GuestUses, Moved

\* The flips with a record stay, if neither the port, the requests nor the threads change.
LEMMA InUseSame ==
  ASSUME port'.prev_index = port.prev_index, queue'.requests = queue.requests,
         gpu'.req.index = gpu.req.index, gpu'.at \in {"frame", "push"} => gpu.at \in {"frame", "push"},
         pres'.req.index = pres.req.index, pres'.at # "top" => pres.at # "top"
  PROVE  \A b \in Buffers : InUse(b)' => InUse(b)
<1> SUFFICES ASSUME NEW b \in Buffers PROVE InUse(b)' => InUse(b)
  OBVIOUS
<1>1. GpuUses(b)' => GpuUses(b)
  BY DEF GpuUses
<1>2. PresUses(b)' => PresUses(b)
  BY DEF PresUses
<1>3. FlipsOf(b)' = FlipsOf(b)
  BY DEF FlipsOf
<1> QED
  BY <1>1, <1>2, <1>3 DEF InUse

\* The flips without a record stay.
LEMMA AwaitedSame ==
  ASSUME queue'.commands = queue.commands, queue'.irq = queue.irq,
         guest'.at = guest.at, guest'.arg = guest.arg
  PROVE  \A b \in Buffers : IsAwaited(b)' => IsAwaited(b)
BY DEF IsAwaited, GuestUses

\* What the guest does keeps the buffers registered.
LEMMA RegGuestStep ==
  ASSUME TypeOK, RegInv, Settled,
         \/ Close
         \/ \E bs \in Ranges : RegisterBuffers(bs)
         \/ \E g \in Groups : UnregisterBuffers(g)
         \/ \E t \in Flippers, index \in CpuBuffers \cup {Blank} : SubmitFlip(t, index)
         \/ \E t \in Renderers, b \in EopBuffers : SubmitEopFlip(t, b)
         \/ \E t \in Guests : SendCommand(t) \/ (SubmitGfx(t) /\ guest.arg[t] \in Buffers) \/ SubmitCount(t)
  PROVE  RegInv'
<1>0. Blank \notin Buffers /\ Buffers \subseteq Nat
  BY Constants
<1>1. CASE Close
  <2>1. /\ UNCHANGED <<queue, gpu, pres>> /\ guest'.at = guest.at /\ guest'.arg = guest.arg
        /\ port'.prev_index = Blank /\ InFlight = {} /\ Awaited = {}
    BY <1>1, CloseIs
  <2>2. ASSUME NEW b \in Buffers PROVE ~InUse(b)' /\ ~IsAwaited(b)'
    <3>1. ~IsAwaited(b) /\ (InUse(b) => port.prev_index = b)
      BY <2>1, UsedIs DEF Used
    <3>2. ~IsAwaited(b)'
      BY <2>1, <3>1, AwaitedSame
    <3>3. InUse(b)' => Has(queue.requests, FlipsOf(b)) \/ GpuUses(b) \/ PresUses(b)
      BY <1>0, <2>1 DEF InUse, GpuUses, PresUses, FlipsOf
    <3>4. ~(Has(queue.requests, FlipsOf(b)) \/ GpuUses(b) \/ PresUses(b))
      BY <2>1 DEF InFlight, Has, FlipsOf, GpuUses, PresUses, Range
    <3> QED
      BY <3>2, <3>3, <3>4
  <2> QED
    BY <2>1, <2>2 DEF RegInv
<1>2. ASSUME NEW bs \in Ranges, RegisterBuffers(bs) PROVE RegInv'
  <2>1. /\ UNCHANGED <<queue, pres, guest>> /\ Nudged /\ port'.prev_index = port.prev_index
        /\ \A b \in Buffers : port.slots[b] >= 0 => port'.slots[b] >= 0
    BY <1>2, RegisterIs
  <2>2. \A b \in Buffers : (InUse(b)' => InUse(b)) /\ (IsAwaited(b)' => IsAwaited(b))
    BY <2>1, InUseSame, AwaitedSame DEF Nudged
  <2> QED
    BY <2>1, <2>2 DEF RegInv, Nudged
<1>3. ASSUME NEW g \in Groups, UnregisterBuffers(g) PROVE RegInv'
  <2>1. /\ UNCHANGED <<queue, gpu, pres>> /\ port'.prev_index = port.prev_index
        /\ guest'.at = guest.at /\ guest'.arg = guest.arg
        /\ \A b \in Buffers : port'.slots[b] = port.slots[b] \/ (~Used(b) /\ b \notin Awaited)
    BY <1>3, UnregisterIs
  <2>2. \A b \in Buffers : (InUse(b)' => InUse(b)) /\ (IsAwaited(b)' => IsAwaited(b))
    BY <2>1, InUseSame, AwaitedSame
  <2>3. \A b \in Buffers : (Used(b) <=> InUse(b)) /\ (b \in Awaited <=> IsAwaited(b))
    BY UsedIs
  <2> QED
    BY <2>1, <2>2, <2>3 DEF RegInv
<1>4. ASSUME NEW t \in Flippers, NEW index \in CpuBuffers \cup {Blank}, SubmitFlip(t, index) PROVE RegInv'
  <2>1. /\ UNCHANGED <<queue, gpu, pres>> /\ t \in Guests /\ Moved(t, "send", index)
        /\ index # Blank => port.slots[index] >= 0
        /\ port'.prev_index = port.prev_index /\ port'.slots = port.slots
    BY <1>4, SubmitFlipIs
  <2>2. \A b \in Buffers : InUse(b)' => InUse(b)
    BY <2>1, InUseSame
  <2>3. \A b \in Buffers : IsAwaited(b)' => IsAwaited(b) \/ b = index
    BY <2>1, GuestUsesMoved DEF IsAwaited
  <2> QED
    BY <1>0, <2>1, <2>2, <2>3, RegKept DEF RegInv
<1>5. ASSUME NEW t \in Renderers, NEW b \in EopBuffers, SubmitEopFlip(t, b) PROVE RegInv'
  <2>1. /\ UNCHANGED <<port, gpu, pres>> /\ t \in Guests /\ Moved(t, "queue", b) /\ port.slots[b] >= 0
        /\ Pushed(queue.irq, queue'.irq, b)
        /\ queue'.requests = queue.requests /\ queue'.commands = queue.commands
    BY <1>5, SubmitEopFlipIs
  <2>2. \A c \in Buffers : InUse(c)' => InUse(c)
    BY <2>1, InUseSame
  <2>3. \A c \in Buffers : IsAwaited(c)' => IsAwaited(c) \/ c = b
    <3>1. \A c \in Buffers : Has(queue'.irq, {c}) => Has(queue.irq, {c}) \/ b = c
      BY <2>1, PushedHas
    <3>2. \A c \in Buffers : GuestUses(c)' => GuestUses(c) \/ b = c
      BY <2>1, GuestUsesMoved
    <3> QED
      BY <2>1, <3>1, <3>2 DEF IsAwaited
  <2> QED
    BY <2>1, <2>2, <2>3, RegKept DEF RegInv
<1>6. ASSUME NEW t \in Guests, SendCommand(t) PROVE RegInv'
  <2>1. /\ UNCHANGED <<port, gpu, pres>> /\ guest.at[t] = "send" /\ Moved(t, "idle", guest.arg[t])
        /\ Pushed(queue.commands, queue'.commands, guest.arg[t])
        /\ queue'.requests = queue.requests /\ queue'.irq = queue.irq
    BY <1>6, SendCommandIs
  <2>2. \A c \in Buffers : InUse(c)' => InUse(c)
    BY <2>1, InUseSame
  <2>3. \A c \in Buffers : IsAwaited(c)' => IsAwaited(c)
    <3>1. \A c \in Buffers : Has(queue'.commands, {c}) => Has(queue.commands, {c}) \/ guest.arg[t] = c
      BY <2>1, PushedHas
    <3>2. \A c \in Buffers : guest.arg[t] = c => GuestUses(c)
      BY <2>1 DEF GuestUses
    <3>3. \A c \in Buffers : GuestUses(c)' => GuestUses(c)
      BY <2>1, GuestUsesMoved
    <3> QED
      BY <2>1, <3>1, <3>2, <3>3 DEF IsAwaited
  <2> QED
    BY <2>1, <2>2, <2>3, RegKept DEF RegInv
<1>7. ASSUME NEW t \in Guests, SubmitGfx(t), guest.arg[t] \in Buffers PROVE RegInv'
  <2>1. /\ UNCHANGED <<port, gpu, pres>> /\ guest.at[t] = "queue" /\ Moved(t, "count", guest.arg[t])
        /\ queue'.requests = queue.requests /\ queue'.irq = queue.irq /\ queue'.commands = queue.commands
    BY <1>7, SubmitGfxIs
  <2>2. \A c \in Buffers : InUse(c)' => InUse(c)
    BY <2>1, InUseSame
  <2>3. \A c \in Buffers : GuestUses(c)' => GuestUses(c)
    BY <2>1, GuestUsesMoved DEF GuestUses
  <2> QED
    BY <2>1, <2>2, <2>3, RegKept DEF RegInv, IsAwaited
<1>8. ASSUME NEW t \in Guests, SubmitCount(t) PROVE RegInv'
  <2>1. UNCHANGED <<port, gpu, pres>> /\ SameQueues /\ Moved(t, "idle", guest.arg[t])
    BY <1>8, SubmitCountIs
  <2>2. \A c \in Buffers : InUse(c)' => InUse(c)
    BY <2>1, InUseSame DEF SameQueues
  <2>3. \A c \in Buffers : GuestUses(c)' => GuestUses(c)
    BY <2>1, GuestUsesMoved
  <2> QED
    BY <2>1, <2>2, <2>3, RegKept DEF RegInv, IsAwaited, SameQueues
<1> QED
  BY <1>1, <1>2, <1>3, <1>4, <1>5, <1>6, <1>7, <1>8

\* The group of a buffer is a number.
LEMMA SlotIs ==
  ASSUME NEW x \in Groups \cup {-1}
  PROVE  x \in Int
BY Constants

\* What the GPU thread and the present thread do keeps the buffers registered.
LEMMA RegThreadStep ==
  ASSUME ProgramInv, RegInv,
         \/ Gpu \/ Spurious \/ PresentThread \/ Open \/ SubmitAsc \/ \E rate \in Rates : SetFlipRate(rate)
  PROVE  RegInv'
<1>0. TypeOK /\ TaskInv /\ KindInv /\ FrameInv /\ gpu.at # "unregistered"
  BY DEF ProgramInv, RegInv
<1>01. gpu.req \in Flips /\ pres.req \in Flips /\ \A i \in DOMAIN queue.requests : queue.requests[i] \in Flips
  BY <1>0, Fields, EmptyIs
<1>02. Blank \notin Buffers /\ NoFlip.index = Blank /\ Buffers \subseteq Nat
  BY Constants, FlipFields
<1>04. ASSUME NEW b \in Buffers, port.slots[b] < 0 PROVE ~IsAwaited(b)
  <2>1. port.slots[b] \in Groups \cup {-1} /\ Groups \subseteq Nat
    BY <1>0, Fields, Constants
  <2>2. ~(port.slots[b] >= 0)
    <3>1. port.slots[b] \in Int
      BY <2>1, SlotIs
    <3> QED
      BY <1>04, <3>1
  <2> QED
    BY <2>2 DEF RegInv
<1>1. CASE Open \/ SubmitAsc \/ RunAsc \/ EndOfFrame \/ \E rate \in Rates : SetFlipRate(rate)
  <2>1. SamePort /\ SameQueues /\ UNCHANGED <<gpu, pres, guest>>
    BY <1>0, <1>1, QuietIs
  <2>2. \A b \in Buffers : (InUse(b)' => InUse(b)) /\ (IsAwaited(b)' => IsAwaited(b))
    BY <2>1, InUseSame, AwaitedSame DEF SamePort, SameQueues
  <2> QED
    BY <1>0, <2>1, <2>2, RegKept DEF SamePort
<1>2. CASE ProcessCommands
  <2>1. /\ UNCHANGED <<port, pres, guest>> /\ Popped(queue.commands, queue'.commands)
        /\ queue'.requests = queue.requests /\ queue'.irq = queue.irq
        /\ gpu.at = "run" /\ gpu'.req.index = queue.commands[1]
        /\ \/ gpu'.at = "frame"
           \/ gpu'.at = "unregistered" /\ queue.commands[1] # Blank /\ port.slots[queue.commands[1]] < 0
    BY <1>0, <1>2, ProcessCommandsIs
  <2>2. \A b \in Buffers : Has(queue'.commands, {b}) \/ queue.commands[1] = b <=> Has(queue.commands, {b})
    BY <2>1, PoppedHas
  <2>3. \A b \in Buffers : InUse(b)' => InUse(b) \/ Has(queue.commands, {b})
    BY <2>1, <2>2 DEF InUse, GpuUses, PresUses, FlipsOf
  <2>4. \A b \in Buffers : IsAwaited(b)' => IsAwaited(b)
    BY <2>1, <2>2 DEF IsAwaited, GuestUses
  <2>5. gpu'.at # "unregistered"
    <3>1. queue.commands[1] \in Indices
      BY <1>0, <2>1, Fields, EmptyIs DEF Popped
    <3>2. queue.commands[1] \in Buffers => IsAwaited(queue.commands[1])
      BY <2>2 DEF IsAwaited
    <3> QED
      BY <1>04, <2>1, <3>1, <3>2 DEF Indices
  <2> QED
    BY <2>1, <2>3, <2>4, <2>5, RegKept DEF IsAwaited
<1>3. CASE GetRenderFrame
  <2>1. /\ UNCHANGED <<port, pres, guest>> /\ queue'.requests = queue.requests
        /\ queue'.commands = queue.commands /\ queue'.irq = queue.irq
        /\ gpu.at = "frame" /\ gpu'.at = "push" /\ gpu'.req.index = gpu.req.index
    BY <1>0, <1>3, GetRenderFrameIs
  <2>2. \A b \in Buffers : (InUse(b)' => InUse(b)) /\ (IsAwaited(b)' => IsAwaited(b))
    BY <2>1, InUseSame, AwaitedSame
  <2> QED
    BY <2>1, <2>2, RegKept
<1>4. CASE PushRequest
  <2>1. /\ UNCHANGED <<port, pres, guest>> /\ Pushed(queue.requests, queue'.requests, gpu.req)
        /\ queue'.commands = queue.commands /\ queue'.irq = queue.irq
        /\ gpu.at = "push" /\ gpu'.at = "run"
    BY <1>0, <1>4, PushRequestIs
  <2>2. \A b \in Buffers :
          Has(queue'.requests, FlipsOf(b)) => Has(queue.requests, FlipsOf(b)) \/ gpu.req \in FlipsOf(b)
    BY <2>1, PushedHas
  <2>3. \A b \in Buffers : gpu.req \in FlipsOf(b) => GpuUses(b)
    BY <2>1 DEF FlipsOf, GpuUses
  <2>4. \A b \in Buffers : InUse(b)' => InUse(b)
    BY <2>1, <2>2, <2>3 DEF InUse, GpuUses, PresUses, FlipsOf
  <2>5. \A b \in Buffers : IsAwaited(b)' => IsAwaited(b)
    BY <2>1, AwaitedSame
  <2> QED
    BY <2>1, <2>4, <2>5, RegKept
<1>5. CASE ResumeGfx \/ WaitRegMemSleep \/ Spurious
  <2>1. /\ UNCHANGED <<port, queue, pres, guest>> /\ gpu'.req = gpu.req /\ gpu'.at \in {"run", "sleep", "woken"}
    BY <1>0, <1>5, GpuTurnIs
  <2>2. \A b \in Buffers : (InUse(b)' => InUse(b)) /\ (IsAwaited(b)' => IsAwaited(b))
    BY <2>1, InUseSame, AwaitedSame
  <2> QED
    BY <2>1, <2>2, RegKept
<1>6. CASE WaitRegMemPass \/ WaitRegMemYield \/ WaitVoLabel
  <2>1. /\ UNCHANGED <<port, pres, guest>> /\ gpu'.req = gpu.req /\ gpu'.at \in {"run", "sleep"}
        /\ queue'.requests = queue.requests /\ queue'.commands = queue.commands /\ queue'.irq = queue.irq
    BY <1>0, <1>6, WaitIs
  <2>2. \A b \in Buffers : (InUse(b)' => InUse(b)) /\ (IsAwaited(b)' => IsAwaited(b))
    BY <2>1, InUseSame, AwaitedSame
  <2> QED
    BY <2>1, <2>2, RegKept
<1>7. CASE WriteData
  <2>1. /\ UNCHANGED <<gpu, pres, guest>>
        /\ queue'.requests = queue.requests /\ queue'.commands = queue.commands /\ queue'.irq = queue.irq
        /\ port'.prev_index = port.prev_index /\ port'.slots = port.slots
    BY <1>0, <1>7, WriteDataIs
  <2>2. \A b \in Buffers : (InUse(b)' => InUse(b)) /\ (IsAwaited(b)' => IsAwaited(b))
    BY <2>1, InUseSame, AwaitedSame
  <2> QED
    BY <1>0, <2>1, <2>2, RegKept
<1>8. CASE SignalFlip
  <2>1. /\ UNCHANGED <<pres, guest>> /\ Popped(queue.irq, queue'.irq) /\ gpu.at = "run"
        /\ queue'.requests = queue.requests /\ queue'.commands = queue.commands
        /\ port'.prev_index = port.prev_index /\ port'.slots = port.slots
    BY <1>0, <1>8, SignalFlipIs
  <2>11. \/ gpu'.req.index = queue.irq[1] /\ gpu'.at = "frame"
         \/ gpu'.at = "unregistered" /\ port.slots[queue.irq[1]] < 0
         \/ gpu'.at = "queue_full"
         \/ gpu'.at = "out_of_order"
    BY <1>0, <1>8, SignalFlipIs
  <2>2. \A b \in Buffers : Has(queue'.irq, {b}) \/ queue.irq[1] = b <=> Has(queue.irq, {b})
    BY <2>1, PoppedHas
  <2>3. \A b \in Buffers : InUse(b)' => InUse(b) \/ Has(queue.irq, {b})
    BY <2>1, <2>11, <2>2 DEF InUse, GpuUses, PresUses, FlipsOf
  <2>4. \A b \in Buffers : IsAwaited(b)' => IsAwaited(b)
    BY <2>1, <2>2 DEF IsAwaited, GuestUses
  <2>5. gpu'.at # "unregistered"
    <3>1. queue.irq[1] \in Buffers
      BY <1>0, <2>1, Fields, EmptyIs DEF Popped
    <3>2. IsAwaited(queue.irq[1])
      BY <2>2, <3>1 DEF IsAwaited
    <3> QED
      BY <1>04, <2>11, <3>1, <3>2
  <2> QED
    BY <2>1, <2>3, <2>4, <2>5, RegKept DEF IsAwaited
<1>9. CASE FinishGfx
  <2>1. /\ UNCHANGED <<port, pres, guest>> /\ gpu'.req = gpu.req /\ gpu'.at = "run"
        /\ queue'.requests = queue.requests /\ queue'.commands = queue.commands /\ queue'.irq = queue.irq
    BY <1>0, <1>9, FinishGfxIs
  <2>2. \A b \in Buffers : (InUse(b)' => InUse(b)) /\ (IsAwaited(b)' => IsAwaited(b))
    BY <2>1, InUseSame, AwaitedSame
  <2> QED
    BY <2>1, <2>2, RegKept
<1>10. CASE ReceiveRequest
  <2>1. /\ UNCHANGED <<port, gpu, guest>> /\ Popped(queue.requests, queue'.requests)
        /\ queue'.commands = queue.commands /\ queue'.irq = queue.irq
        /\ pres.at = "top" /\ pres'.at = "present" /\ pres'.req = queue.requests[1]
    BY <1>0, <1>10, ReceiveRequestIs
  <2>2. \A b \in Buffers :
          Has(queue'.requests, FlipsOf(b)) \/ queue.requests[1] \in FlipsOf(b) <=> Has(queue.requests, FlipsOf(b))
    BY <2>1, PoppedHas
  <2>3. 1 \in DOMAIN queue.requests
    BY <2>1 DEF Popped
  <2>4. \A b \in Buffers : InUse(b)' => InUse(b)
    BY <1>01, <2>1, <2>2, <2>3 DEF InUse, GpuUses, PresUses, FlipsOf
  <2>5. \A b \in Buffers : IsAwaited(b)' => IsAwaited(b)
    BY <2>1, AwaitedSame
  <2> QED
    BY <1>0, <2>1, <2>4, <2>5, RegKept
<1>11. CASE DrawBlankFrame
  <2>1. UNCHANGED <<port, queue, gpu, guest>> /\ pres.at = "top" /\ pres'.req = pres.req
    BY <1>0, <1>11, DrawBlankFrameIs
  <2>2. pres.req.index = Blank
    BY <1>0, <1>02, <2>1 DEF FrameInv
  <2>3. \A b \in Buffers : InUse(b)' => InUse(b)
    BY <1>02, <2>1, <2>2 DEF InUse, GpuUses, PresUses, FlipsOf
  <2>4. \A b \in Buffers : IsAwaited(b)' => IsAwaited(b)
    BY <2>1, AwaitedSame
  <2> QED
    BY <1>0, <2>1, <2>3, <2>4, RegKept
<1>12. CASE PresentBlank
  <2>1. /\ SamePort /\ UNCHANGED <<gpu, guest>> /\ queue'.requests = queue.requests
        /\ queue'.commands = queue.commands /\ queue'.irq = queue.irq /\ pres'.at = "top" /\ pres'.req = pres.req
    BY <1>0, <1>12, PresentBlankIs
  <2>2. \A b \in Buffers : (InUse(b)' => InUse(b)) /\ (IsAwaited(b)' => IsAwaited(b))
    BY <2>1, InUseSame, AwaitedSame DEF SamePort
  <2> QED
    BY <1>0, <2>1, <2>2, RegKept DEF SamePort
<1>13. CASE Present
  <2>1. pres.req.frame \in Frames
    BY <1>0, <1>13 DEF FrameInv, Present
  <2>2. /\ UNCHANGED <<port, gpu, guest>> /\ queue'.requests = queue.requests
        /\ queue'.commands = queue.commands /\ queue'.irq = queue.irq
        /\ pres.at = "present" /\ pres'.at = "status" /\ pres'.req = pres.req
    BY <1>0, <1>13, <2>1, PresentIs
  <2>3. \A b \in Buffers : (InUse(b)' => InUse(b)) /\ (IsAwaited(b)' => IsAwaited(b))
    BY <2>2, InUseSame, AwaitedSame
  <2> QED
    BY <1>0, <2>2, <2>3, RegKept
<1>14. CASE FlipStatus
  <2>1. /\ UNCHANGED <<queue, gpu, guest>> /\ port'.prev_index = port.prev_index /\ port'.slots = port.slots
        /\ pres.at = "status" /\ pres'.at = "label" /\ pres'.req = pres.req
    BY <1>0, <1>14, FlipStatusIs
  <2>2. \A b \in Buffers : (InUse(b)' => InUse(b)) /\ (IsAwaited(b)' => IsAwaited(b))
    BY <2>1, InUseSame, AwaitedSame
  <2> QED
    BY <1>0, <2>1, <2>2, RegKept
<1>15. CASE ReleaseLabel
  <2>1. /\ UNCHANGED <<queue, guest>> /\ Nudged /\ port'.prev_index = pres.req.index /\ port'.slots = port.slots
        /\ pres.at = "label" /\ pres'.at = "top" /\ pres'.req = NoFlip
    BY <1>0, <1>15, ReleaseLabelIs
  <2>2. \A b \in Buffers : InUse(b)' => InUse(b)
    BY <2>1 DEF InUse, GpuUses, PresUses, FlipsOf, Nudged
  <2>3. \A b \in Buffers : IsAwaited(b)' => IsAwaited(b)
    BY <2>1, AwaitedSame
  <2> QED
    BY <1>0, <2>1, <2>2, <2>3, RegKept DEF Nudged
<1> QED
  BY <1>1, <1>2, <1>3, <1>4, <1>5, <1>6, <1>7, <1>8, <1>9, <1>10, <1>11, <1>12, <1>13, <1>14, <1>15
     DEF Gpu, PresentThread

\* Every step keeps the buffers registered.
LEMMA RegStep ==
  ASSUME ProgramInv, RegInv, Settled, [Next]_vars
  PROVE  RegInv'
<1>1. CASE Next
  <2>1. TypeOK
    BY DEF ProgramInv
  <2>2. CASE \/ Close
             \/ \E bs \in Ranges : RegisterBuffers(bs)
             \/ \E g \in Groups : UnregisterBuffers(g)
             \/ \E t \in Flippers, index \in CpuBuffers \cup {Blank} : SubmitFlip(t, index)
             \/ \E t \in Renderers, b \in EopBuffers : SubmitEopFlip(t, b)
             \/ \E t \in Guests : SendCommand(t) \/ (SubmitGfx(t) /\ guest.arg[t] \in Buffers) \/ SubmitCount(t)
    BY <2>1, <2>2, RegGuestStep
  <2>3. CASE \/ Gpu \/ Spurious \/ PresentThread \/ Open \/ SubmitAsc
             \/ \E rate \in Rates : SetFlipRate(rate)
    BY <2>3, RegThreadStep
  <2>4. ASSUME NEW t \in Guests, Guest(t) PROVE RegInv'
    <3>0. SubmitGfx(t) => guest.arg[t] \in Buffers
      BY Constants DEF ProgramInv, KindInv, GuestKind, SubmitGfx
    <3>1. SendCommand(t) \/ (SubmitGfx(t) /\ guest.arg[t] \in Buffers) \/ SubmitCount(t)
      BY <2>4, <3>0 DEF Guest
    <3>2. \E u \in Guests : SendCommand(u) \/ (SubmitGfx(u) /\ guest.arg[u] \in Buffers) \/ SubmitCount(u)
      BY <3>1
    <3> QED
      BY <2>2, <3>2
  <2> QED
    BY <1>1, <2>2, <2>3, <2>4 DEF Next
<1>2. CASE UNCHANGED vars
  <2>1. \A b \in Buffers : (InUse(b)' => InUse(b)) /\ (IsAwaited(b)' => IsAwaited(b))
    BY <1>2, InUseSame, AwaitedSame DEF vars
  <2> QED
    BY <1>2, <2>1, RegKept DEF vars, RegInv
<1> QED
  BY <1>1, <1>2

\* No buffer is used in the first state.
LEMMA RegInit ==
  ASSUME Init
  PROVE  RegInv
<1>1. /\ port.prev_index = Blank /\ queue.requests = <<>> /\ queue.commands = <<>> /\ queue.irq = <<>>
      /\ gpu.at = "run" /\ pres.at = "top" /\ \A t \in Guests : guest.at[t] = "idle"
  BY DEF Init, ClosedPort, Blank
<1>2. ASSUME NEW b \in Buffers PROVE ~InUse(b) /\ ~IsAwaited(b)
  <2>1. b # Blank
    BY Constants
  <2> QED
    BY <1>1, <2>1 DEF InUse, IsAwaited, Has, GpuUses, PresUses, GuestUses
<1> QED
  BY <1>1, <1>2 DEF RegInv

-----------------------------------------------------------------------------
(* Pending flips                                                           *)

\* The number of entries of s in E.
Positions(s, E) == {i \in DOMAIN s : s[i] \in E}
Count(s, E) == Cardinality(Positions(s, E))

\* Positions in a sequence are finitely many.
LEMMA CountType ==
  ASSUME NEW s, NEW E, Len(s) \in Nat, DOMAIN s = 1 .. Len(s)
  PROVE  IsFiniteSet(Positions(s, E)) /\ Count(s, E) \in Nat
<1>1. IsFiniteSet(1 .. Len(s)) /\ Positions(s, E) \in SUBSET (1 .. Len(s))
  BY FS_Interval DEF Positions
<1>2. IsFiniteSet(Positions(s, E))
  BY <1>1, FS_Subset
<1> QED
  BY <1>2, FS_CardinalityType DEF Count

\* An entry behind the sequence counts once if it is in E.
LEMMA CountPushed ==
  ASSUME NEW s, NEW t, NEW e, Pushed(s, t, e), NEW E
  PROVE  Count(s, E) \in Nat /\ Count(t, E) = IF e \in E THEN Count(s, E) + 1 ELSE Count(s, E)
<1>1. /\ Len(s) \in Nat /\ Len(t) = Len(s) + 1 /\ DOMAIN s = 1 .. Len(s) /\ DOMAIN t = 1 .. Len(t)
      /\ \A i \in 1 .. Len(s) : t[i] = s[i]
      /\ t[Len(t)] = e
  BY DEF Pushed
<1>2. IsFiniteSet(Positions(s, E)) /\ Count(s, E) \in Nat
  BY <1>1, CountType
<1>3. CASE e \in E
  <2>1. Positions(t, E) = Positions(s, E) \cup {Len(t)} /\ Len(t) \notin Positions(s, E)
    BY <1>1, <1>3 DEF Positions
  <2> QED
    BY <1>2, <1>3, <2>1, FS_AddElement DEF Count
<1>4. CASE e \notin E
  <2>1. Positions(t, E) = Positions(s, E)
    BY <1>1, <1>4 DEF Positions
  <2> QED
    BY <1>2, <1>4, <2>1 DEF Count
<1> QED
  BY <1>3, <1>4

\* The first entry counted once if it was in E.
LEMMA CountPopped ==
  ASSUME NEW s, NEW t, Popped(s, t), NEW E
  PROVE  Count(t, E) \in Nat /\ Count(s, E) = IF s[1] \in E THEN Count(t, E) + 1 ELSE Count(t, E)
<1>1. /\ Len(s) \in Nat \ {0} /\ Len(t) = Len(s) - 1 /\ DOMAIN s = 1 .. Len(s) /\ DOMAIN t = 1 .. Len(t)
      /\ \A i \in 1 .. Len(t) : t[i] = s[i + 1]
  BY DEF Popped
<1>2. IsFiniteSet(Positions(t, E)) /\ Count(t, E) \in Nat
  <2>1. Len(t) \in Nat
    BY <1>1
  <2> QED
    BY <1>1, <2>1, CountType
<1> DEFINE P == Positions(t, E)
           Q == Positions(s, E) \ {1}
           f == [i \in P |-> i + 1]
<1>3. P \subseteq Int /\ Q \subseteq Int
  BY <1>1 DEF Positions
<1>4. \A i \in P : i + 1 \in Q
  BY <1>1 DEF Positions
<1>5. \A j \in Q : j - 1 \in P /\ (j - 1) + 1 = j
  <2> TAKE j \in Q
  <2>1. j \in 1 .. Len(s) /\ j # 1 /\ s[j] \in E
    BY <1>1 DEF Positions
  <2>2. j - 1 \in 1 .. Len(t) /\ (j - 1) + 1 = j
    BY <1>1, <2>1
  <2>3. t[j - 1] = s[(j - 1) + 1]
    BY <1>1, <2>2
  <2> QED
    BY <1>1, <2>1, <2>2, <2>3 DEF Positions
<1> HIDE DEF P, Q
<1>6. f \in [P -> Q] /\ \A i \in P : f[i] = i + 1
  BY <1>4
<1>7. \A i, j \in P : f[i] = f[j] => i = j
  BY <1>3, <1>6
<1>8. \A j \in Q : \E i \in P : f[i] = j
  BY <1>5, <1>6
<1> HIDE DEF f
<1>9. f \in Bijection(P, Q)
  BY <1>6, <1>7, <1>8 DEF Bijection, Injection, Surjection, IsInjective
<1>10. IsFiniteSet(Q) /\ Cardinality(Q) = Count(t, E)
  <2>1. ExistsBijection(P, Q)
    BY <1>9 DEF ExistsBijection
  <2> QED
    BY <1>2, <2>1, FS_Bijection DEF P, Count
<1>11. CASE s[1] \in E
  <2>1. Positions(s, E) = Q \cup {1} /\ 1 \notin Q
    BY <1>1, <1>11 DEF Q, Positions
  <2> QED
    BY <1>2, <1>10, <1>11, <2>1, FS_AddElement DEF Count
<1>12. CASE s[1] \notin E
  <2>1. Positions(s, E) = Q
    BY <1>1, <1>12 DEF Q, Positions
  <2> QED
    BY <1>2, <1>10, <1>12, <2>1 DEF Count
<1> QED
  BY <1>11, <1>12

\* The threads between counting a flip and SendCommand; the flips of command buffers.
Senders == {t \in Guests : guest.at[t] = "send"}
EopFlips == {r \in Flips : r.eop}

\* PendingExact, and calls that have counted a flip and not sent it are finitely many.
CountInv ==
    /\ IsFiniteSet(Senders)
    /\ port.pending = Len(queue.requests) + One(GpuPending) + One(PresentPending)
                      + Len(queue.commands) + Cardinality(Senders)
    /\ port.gc = Count(queue.requests, EopFlips)
                 + One(GpuPending /\ gpu.req.eop) + One(PresentPending /\ pres.req.eop)

\* CountInv is PendingExact.
LEMMA CountIs ==
  ASSUME TypeOK, CountInv
  PROVE  PendingExact
<1>1. \A i \in DOMAIN queue.requests : queue.requests[i] \in EopFlips <=> queue.requests[i].eop
  BY Fields, EmptyIs DEF EopFlips
<1>2. {i \in DOMAIN queue.requests : queue.requests[i].eop} = Positions(queue.requests, EopFlips)
  BY <1>1 DEF Positions
<1> QED
  BY <1>2 DEF CountInv, PendingExact, Senders, Count

\* The senders, if one thread goes on.
LEMMA SendersMoved ==
  ASSUME NEW t \in Guests, NEW at, NEW arg, Moved(t, at, arg), IsFiniteSet(Senders)
  PROVE  /\ IsFiniteSet(Senders') /\ Cardinality(Senders) \in Nat
         /\ guest.at[t] # "send" /\ at = "send" => Cardinality(Senders') = Cardinality(Senders) + 1
         /\ guest.at[t] = "send" /\ at # "send" => Cardinality(Senders') = Cardinality(Senders) - 1
         /\ guest.at[t] # "send" /\ at # "send" => Senders' = Senders
<1>1. Cardinality(Senders) \in Nat
  BY FS_CardinalityType
<1>2. CASE at = "send"
  <2>1. Senders' = Senders \cup {t}
    BY <1>2 DEF Senders, Moved
  <2>2. t \in Senders <=> guest.at[t] = "send"
    BY DEF Senders
  <2> QED
    BY <1>1, <1>2, <2>1, <2>2, FS_AddElement
<1>3. CASE at # "send"
  <2>1. Senders' = Senders \ {t}
    BY <1>3 DEF Senders, Moved
  <2>2. t \in Senders <=> guest.at[t] = "send"
    BY DEF Senders
  <2>3. t \notin Senders => Senders \ {t} = Senders
    OBVIOUS
  <2> QED
    BY <1>1, <1>3, <2>1, <2>2, <2>3, FS_RemoveElement
<1> QED
  BY <1>2, <1>3

\* The numbers, if no flip begins, ends or moves between the places that count.
LEMMA CountSame ==
  ASSUME CountInv, port'.pending = port.pending, port'.gc = port.gc,
         queue'.requests = queue.requests, queue'.commands = queue.commands, Senders' = Senders,
         GpuPending' <=> GpuPending, GpuPending => gpu'.req.eop = gpu.req.eop,
         PresentPending' <=> PresentPending, PresentPending => pres'.req.eop = pres.req.eop
  PROVE  CountInv'
<1>1. One(GpuPending)' = One(GpuPending) /\ One(GpuPending /\ gpu.req.eop)' = One(GpuPending /\ gpu.req.eop)
  BY DEF One
<1>2. One(PresentPending)' = One(PresentPending)
      /\ One(PresentPending /\ pres.req.eop)' = One(PresentPending /\ pres.req.eop)
  BY DEF One
<1>3. Count(queue'.requests, EopFlips) = Count(queue.requests, EopFlips)
  BY DEF EopFlips, Count, Positions
<1> QED
  BY <1>1, <1>2, <1>3 DEF CountInv

\* What One counts is 0 or 1.
LEMMA OneIs ==
  /\ One(TRUE) = 1 /\ One(FALSE) = 0
  /\ \A b \in BOOLEAN : One(b) \in Nat
BY DEF One

\* The numbers the counters are compared with are numbers.
LEMMA CountNat ==
  ASSUME TypeOK, CountInv
  PROVE  /\ Len(queue.requests) \in Nat /\ Len(queue.commands) \in Nat /\ Cardinality(Senders) \in Nat
         /\ Count(queue.requests, EopFlips) \in Nat
         /\ One(GpuPending) \in Nat /\ One(GpuPending /\ gpu.req.eop) \in Nat
         /\ One(PresentPending) \in Nat /\ One(PresentPending /\ pres.req.eop) \in Nat
<1>1. /\ Len(queue.requests) \in Nat /\ Len(queue.commands) \in Nat
      /\ DOMAIN queue.requests = 1 .. Len(queue.requests)
  BY Fields, EmptyIs
<1>2. Count(queue.requests, EopFlips) \in Nat
  BY <1>1, CountType
<1>3. Cardinality(Senders) \in Nat
  BY FS_CardinalityType DEF CountInv
<1>4. One(GpuPending) \in Nat /\ One(GpuPending /\ gpu.req.eop) \in Nat
      /\ One(PresentPending) \in Nat /\ One(PresentPending /\ pres.req.eop) \in Nat
  BY DEF One
<1> QED
  BY <1>1, <1>2, <1>3, <1>4

\* Every step keeps the numbers.
LEMMA CountStep ==
  ASSUME ProgramInv, RegInv, CountInv, Settled, Next
  PROVE  CountInv'
<1>0. TypeOK /\ TaskInv /\ KindInv /\ FrameInv /\ gpu.at # "unregistered"
  BY DEF ProgramInv, RegInv
<1>01. gpu.req \in Flips /\ pres.req \in Flips /\ \A i \in DOMAIN queue.requests : queue.requests[i] \in Flips
  BY <1>0, Fields, EmptyIs
<1>02. /\ Len(queue.requests) \in Nat /\ Len(queue.commands) \in Nat /\ Cardinality(Senders) \in Nat
       /\ Count(queue.requests, EopFlips) \in Nat
       /\ One(GpuPending) \in Nat /\ One(GpuPending /\ gpu.req.eop) \in Nat
       /\ One(PresentPending) \in Nat /\ One(PresentPending /\ pres.req.eop) \in Nat
  BY <1>0, CountNat
<1>03. guest'.at = guest.at => Senders' = Senders
  BY DEF Senders
<1>04. EopFlips' = EopFlips
  BY DEF EopFlips
<1>05. IsFiniteSet(Senders)
  BY DEF CountInv
<1>06. /\ port.pending = Len(queue.requests) + One(GpuPending) + One(PresentPending)
                      + Len(queue.commands) + Cardinality(Senders)
       /\ port.gc = Count(queue.requests, EopFlips)
                 + One(GpuPending /\ gpu.req.eop) + One(PresentPending /\ pres.req.eop)
  BY DEF CountInv
<1>07. queue'.requests = queue.requests =>
         /\ Len(queue.requests)' = Len(queue.requests)
         /\ Count(queue'.requests, EopFlips) = Count(queue.requests, EopFlips)
  BY <1>04
<1>08. queue'.commands = queue.commands => Len(queue.commands)' = Len(queue.commands)
  OBVIOUS
<1>1. CASE Open \/ SubmitAsc \/ RunAsc \/ EndOfFrame \/ \E rate \in Rates : SetFlipRate(rate)
  <2>1. SamePort /\ SameQueues /\ UNCHANGED <<gpu, pres, guest>>
    BY <1>0, <1>1, QuietIs
  <2> QED
    BY <1>03, <2>1, CountSame DEF SamePort, SameQueues, GpuPending, PresentPending
<1>2. CASE Close
  <2>1. /\ UNCHANGED <<queue, gpu, pres>> /\ guest'.at = guest.at
        /\ port'.pending = 0 /\ port'.gc = 0 /\ InFlight = {} /\ Awaited = {}
    BY <1>0, <1>2, CloseIs
  <2>2. DOMAIN queue.requests = {} /\ gpu.at \notin {"frame", "push"} /\ pres.at = "top"
    BY <2>1 DEF InFlight, Range
  <2>3. DOMAIN queue.commands = {} /\ Senders = {}
    BY <2>1 DEF Awaited, Range, Senders
  <2>4. Len(queue.requests) = 0 /\ Len(queue.commands) = 0
    <3>1. DOMAIN queue.requests = 1 .. Len(queue.requests) /\ DOMAIN queue.commands = 1 .. Len(queue.commands)
      BY <1>0, Fields, EmptyIs
    <3>2. \A n \in Nat : n # 0 => 1 \in 1 .. n
      OBVIOUS
    <3> QED
      BY <1>02, <2>2, <2>3, <3>1, <3>2
  <2>5. Count(queue.requests, EopFlips) = 0
    <3>1. Positions(queue.requests, EopFlips) = {}
      BY <2>2 DEF Positions
    <3> QED
      BY <3>1, FS_EmptySet DEF Count
  <2>6. /\ One(GpuPending)' = 0 /\ One(PresentPending)' = 0
        /\ One(GpuPending /\ gpu.req.eop)' = 0 /\ One(PresentPending /\ pres.req.eop)' = 0
    BY <1>0, <2>1, <2>2 DEF One, GpuPending, PresentPending
  <2>7. IsFiniteSet(Senders') /\ Cardinality(Senders') = 0
    BY <1>03, <2>1, <2>3, FS_EmptySet
  <2> QED
    BY <1>04, <2>1, <2>4, <2>5, <2>6, <2>7 DEF CountInv
<1>3. ASSUME NEW bs \in Ranges, RegisterBuffers(bs) PROVE CountInv'
  <2>1. /\ UNCHANGED <<queue, pres, guest>> /\ Nudged
        /\ port'.pending = port.pending /\ port'.gc = port.gc
    BY <1>0, <1>3, RegisterIs
  <2> QED
    BY <1>03, <2>1, CountSame DEF Nudged, GpuPending, PresentPending
<1>4. ASSUME NEW g \in Groups, UnregisterBuffers(g) PROVE CountInv'
  <2>1. /\ UNCHANGED <<queue, gpu, pres>> /\ guest'.at = guest.at
        /\ port'.pending = port.pending /\ port'.gc = port.gc
    BY <1>0, <1>4, UnregisterIs
  <2> QED
    BY <1>03, <2>1, CountSame DEF GpuPending, PresentPending
<1>5. ASSUME NEW t \in Flippers, NEW index \in CpuBuffers \cup {Blank}, SubmitFlip(t, index) PROVE CountInv'
  <2>1. /\ UNCHANGED <<queue, gpu, pres>> /\ t \in Guests /\ guest.at[t] = "idle" /\ Moved(t, "send", index)
        /\ port'.pending = port.pending + 1 /\ port'.gc = port.gc
    BY <1>0, <1>5, SubmitFlipIs
  <2>2. IsFiniteSet(Senders') /\ Cardinality(Senders') = Cardinality(Senders) + 1
    BY <1>05, <2>1, SendersMoved
  <2>3. /\ One(GpuPending)' = One(GpuPending) /\ One(PresentPending)' = One(PresentPending)
        /\ One(GpuPending /\ gpu.req.eop)' = One(GpuPending /\ gpu.req.eop)
        /\ One(PresentPending /\ pres.req.eop)' = One(PresentPending /\ pres.req.eop)
    BY <2>1 DEF GpuPending, PresentPending
  <2>8. port'.pending = Len(queue.requests)' + One(GpuPending)' + One(PresentPending)'
                        + Len(queue.commands)' + Cardinality(Senders)'
    <3> DEFINE n == Len(queue.requests) + One(GpuPending) + One(PresentPending) + Len(queue.commands)
    <3>1. n \in Int /\ port.pending = n + Cardinality(Senders)
      BY <1>02, <1>06
    <3>2. Len(queue.requests)' + One(GpuPending)' + One(PresentPending)' + Len(queue.commands)' = n
      BY <2>1, <2>3
    <3> HIDE DEF n
    <3>3. port'.pending = port.pending + 1 /\ Cardinality(Senders') = Cardinality(Senders) + 1
      BY <2>1, <2>2
    <3>4. Cardinality(Senders) \in Int
      BY <1>02
    <3>5. port'.pending = n + Cardinality(Senders')
      BY <3>1, <3>3, <3>4
    <3> QED
      BY <3>2, <3>5
  <2>9. port'.gc = Count(queue.requests, EopFlips)'
                   + One(GpuPending /\ gpu.req.eop)' + One(PresentPending /\ pres.req.eop)'
    BY <1>02, <1>04, <1>06, <1>07, <1>08, <2>1, <2>2, <2>3
  <2>10. IsFiniteSet(Senders)'
    BY <1>02, <1>04, <1>06, <1>07, <1>08, <2>1, <2>2, <2>3
  <2> QED
    BY <2>8, <2>9, <2>10 DEF CountInv
<1>6. ASSUME NEW t \in Guests, SendCommand(t) PROVE CountInv'
  <2>1. /\ UNCHANGED <<port, gpu, pres>> /\ guest.at[t] = "send" /\ Moved(t, "idle", guest.arg[t])
        /\ Pushed(queue.commands, queue'.commands, guest.arg[t]) /\ queue'.requests = queue.requests
    BY <1>0, <1>6, SendCommandIs
  <2>2. IsFiniteSet(Senders') /\ Cardinality(Senders') = Cardinality(Senders) - 1
    BY <1>05, <2>1, SendersMoved
  <2>3. Len(queue'.commands) = Len(queue.commands) + 1
    BY <2>1 DEF Pushed
  <2>4. /\ One(GpuPending)' = One(GpuPending) /\ One(PresentPending)' = One(PresentPending)
        /\ One(GpuPending /\ gpu.req.eop)' = One(GpuPending /\ gpu.req.eop)
        /\ One(PresentPending /\ pres.req.eop)' = One(PresentPending /\ pres.req.eop)
    BY <2>1 DEF GpuPending, PresentPending
  <2>8. port'.pending = Len(queue.requests)' + One(GpuPending)' + One(PresentPending)'
                        + Len(queue.commands)' + Cardinality(Senders)'
    <3> DEFINE n == Len(queue.requests) + One(GpuPending) + One(PresentPending)
    <3>1. n \in Int /\ port.pending = n + Len(queue.commands) + Cardinality(Senders)
      BY <1>02, <1>06
    <3>2. Len(queue.requests)' + One(GpuPending)' + One(PresentPending)' = n
      BY <2>1, <2>4
    <3> HIDE DEF n
    <3>3. /\ port'.pending = port.pending /\ Len(queue'.commands) = Len(queue.commands) + 1
          /\ Cardinality(Senders') = Cardinality(Senders) - 1
      BY <2>1, <2>2, <2>3
    <3>4. Cardinality(Senders) \in Int /\ Len(queue.commands) \in Int
      BY <1>02
    <3>5. port'.pending = n + Len(queue'.commands) + Cardinality(Senders')
      BY <3>1, <3>3, <3>4
    <3> QED
      BY <3>2, <3>5
  <2>9. port'.gc = Count(queue.requests, EopFlips)'
                   + One(GpuPending /\ gpu.req.eop)' + One(PresentPending /\ pres.req.eop)'
    BY <1>02, <1>04, <1>06, <1>07, <2>1, <2>2, <2>3, <2>4
  <2>10. IsFiniteSet(Senders)'
    BY <1>02, <1>04, <1>06, <1>07, <2>1, <2>2, <2>3, <2>4
  <2> QED
    BY <2>8, <2>9, <2>10 DEF CountInv
<1>7. ASSUME NEW t \in Renderers, NEW b \in EopBuffers, SubmitEopFlip(t, b) PROVE CountInv'
  <2>1. /\ UNCHANGED <<port, gpu, pres>> /\ t \in Guests /\ guest.at[t] = "idle" /\ Moved(t, "queue", b)
        /\ queue'.requests = queue.requests /\ queue'.commands = queue.commands
    BY <1>0, <1>7, SubmitEopFlipIs
  <2>2. Senders' = Senders
    BY <1>05, <2>1, SendersMoved
  <2> QED
    BY <2>1, <2>2, CountSame DEF GpuPending, PresentPending
<1>8. ASSUME NEW t \in Guests, SubmitGfx(t) PROVE CountInv'
  <2>0. guest.arg[t] \in Buffers
    BY <1>0, <1>8, Constants DEF KindInv, GuestKind, SubmitGfx
  <2>1. /\ UNCHANGED <<port, gpu, pres>> /\ guest.at[t] = "queue" /\ Moved(t, "count", guest.arg[t])
        /\ queue'.requests = queue.requests /\ queue'.commands = queue.commands
    BY <1>0, <1>8, <2>0, SubmitGfxIs
  <2>2. Senders' = Senders
    BY <1>05, <2>1, SendersMoved
  <2> QED
    BY <2>1, <2>2, CountSame DEF GpuPending, PresentPending
<1>9. ASSUME NEW t \in Guests, SubmitCount(t) PROVE CountInv'
  <2>1. /\ UNCHANGED <<port, gpu, pres>> /\ guest.at[t] = "count" /\ Moved(t, "idle", guest.arg[t])
        /\ SameQueues
    BY <1>0, <1>9, SubmitCountIs
  <2>2. Senders' = Senders
    BY <1>05, <2>1, SendersMoved
  <2> QED
    BY <2>1, <2>2, CountSame DEF GpuPending, PresentPending, SameQueues
<1>10. CASE ProcessCommands
  <2>1. /\ UNCHANGED <<port, pres, guest>> /\ Popped(queue.commands, queue'.commands)
        /\ queue'.requests = queue.requests /\ gpu.at = "run" /\ gpu'.req.eop = FALSE
        /\ gpu'.at = "frame" \/ gpu'.at = "unregistered"
    BY <1>0, <1>10, ProcessCommandsIs
  <2>2. Len(queue'.commands) = Len(queue.commands) - 1
    BY <2>1 DEF Popped
  <2>3. /\ One(GpuPending) = 0 /\ One(GpuPending)' = 1 /\ One(PresentPending)' = One(PresentPending)
        /\ One(GpuPending /\ gpu.req.eop) = 0 /\ One(GpuPending /\ gpu.req.eop)' = 0
        /\ One(PresentPending /\ pres.req.eop)' = One(PresentPending /\ pres.req.eop)
    BY <2>1 DEF GpuPending, PresentPending, One
  <2>8. port'.pending = Len(queue.requests)' + One(GpuPending)' + One(PresentPending)'
                        + Len(queue.commands)' + Cardinality(Senders)'
    BY <1>02, <1>03, <1>05, <1>04, <1>06, <1>07, <2>1, <2>2, <2>3
  <2>9. port'.gc = Count(queue.requests, EopFlips)'
                   + One(GpuPending /\ gpu.req.eop)' + One(PresentPending /\ pres.req.eop)'
    BY <1>02, <1>03, <1>05, <1>04, <1>06, <1>07, <2>1, <2>2, <2>3
  <2>10. IsFiniteSet(Senders)'
    BY <1>02, <1>03, <1>05, <1>04, <1>06, <1>07, <2>1, <2>2, <2>3
  <2> QED
    BY <2>8, <2>9, <2>10 DEF CountInv
<1>11. CASE GetRenderFrame
  <2>1. /\ UNCHANGED <<port, pres, guest>> /\ queue'.requests = queue.requests
        /\ queue'.commands = queue.commands
        /\ gpu.at = "frame" /\ gpu'.at = "push" /\ gpu'.req.eop = gpu.req.eop
    BY <1>0, <1>11, GetRenderFrameIs
  <2> QED
    BY <1>03, <2>1, CountSame DEF GpuPending, PresentPending
<1>12. CASE PushRequest
  <2>1. /\ UNCHANGED <<port, pres, guest>> /\ Pushed(queue.requests, queue'.requests, gpu.req)
        /\ queue'.commands = queue.commands /\ gpu.at = "push" /\ gpu'.at = "run"
    BY <1>0, <1>12, PushRequestIs
  <2>2. Len(queue'.requests) = Len(queue.requests) + 1
    BY <2>1 DEF Pushed
  <2>3. gpu.req \in EopFlips <=> gpu.req.eop
    BY <1>01 DEF EopFlips
  <2>4. Count(queue'.requests, EopFlips) = IF gpu.req.eop THEN Count(queue.requests, EopFlips) + 1
                                                          ELSE Count(queue.requests, EopFlips)
    BY <2>1, <2>3, CountPushed
  <2>5. /\ One(GpuPending) = 1 /\ One(GpuPending)' = 0 /\ One(PresentPending)' = One(PresentPending)
        /\ One(GpuPending /\ gpu.req.eop) = IF gpu.req.eop THEN 1 ELSE 0
        /\ One(GpuPending /\ gpu.req.eop)' = 0
        /\ One(PresentPending /\ pres.req.eop)' = One(PresentPending /\ pres.req.eop)
    BY <2>1 DEF GpuPending, PresentPending, One
  <2> QED
    BY <1>02, <1>03, <1>04, <1>05, <1>06, <2>1, <2>2, <2>4, <2>5 DEF CountInv
<1>13. CASE ResumeGfx \/ WaitRegMemSleep \/ Spurious
  <2>1. UNCHANGED <<port, queue, pres, guest>> /\ gpu.at \in {"run", "sleep"} /\ gpu'.at \in {"run", "sleep", "woken"}
    BY <1>0, <1>13, GpuTurnIs
  <2> QED
    BY <1>03, <2>1, CountSame DEF GpuPending, PresentPending
<1>14. CASE WaitRegMemPass \/ WaitRegMemYield \/ WaitVoLabel
  <2>1. /\ UNCHANGED <<port, pres, guest>> /\ gpu.at \in {"run", "woken"} /\ gpu'.at \in {"run", "sleep"}
        /\ queue'.requests = queue.requests /\ queue'.commands = queue.commands
    BY <1>0, <1>14, WaitIs
  <2> QED
    BY <1>03, <2>1, CountSame DEF GpuPending, PresentPending
<1>15. CASE WriteData
  <2>1. /\ UNCHANGED <<gpu, pres, guest>> /\ port'.pending = port.pending /\ port'.gc = port.gc
        /\ queue'.requests = queue.requests /\ queue'.commands = queue.commands
    BY <1>0, <1>15, WriteDataIs
  <2> QED
    BY <1>03, <2>1, CountSame DEF GpuPending, PresentPending
<1>16. CASE SignalFlip
  <2>1. /\ UNCHANGED <<pres, guest>> /\ gpu.at = "run"
        /\ queue'.requests = queue.requests /\ queue'.commands = queue.commands
    BY <1>0, <1>16, SignalFlipIs
  <2>2. \/ /\ port'.pending = port.pending + 1 /\ port'.gc = port.gc + 1 /\ gpu'.req.eop = TRUE
           /\ gpu'.at \in {"frame", "unregistered"}
        \/ port' = port /\ gpu'.at \in {"queue_full", "out_of_order"}
    BY <1>0, <1>16, SignalFlipIs
  <2>3. CASE port' = port /\ gpu'.at \in {"queue_full", "out_of_order"}
    BY <1>03, <2>1, <2>3, CountSame DEF GpuPending, PresentPending
  <2>4. CASE /\ port'.pending = port.pending + 1 /\ port'.gc = port.gc + 1 /\ gpu'.req.eop = TRUE
             /\ gpu'.at \in {"frame", "unregistered"}
    <3>1. /\ One(GpuPending) = 0 /\ One(GpuPending)' = 1 /\ One(PresentPending)' = One(PresentPending)
          /\ One(GpuPending /\ gpu.req.eop) = 0 /\ One(GpuPending /\ gpu.req.eop)' = 1
          /\ One(PresentPending /\ pres.req.eop)' = One(PresentPending /\ pres.req.eop)
      BY <2>1, <2>4 DEF GpuPending, PresentPending, One
    <3> QED
      BY <1>02, <1>03, <1>04, <1>05, <1>06, <2>1, <2>4, <3>1 DEF CountInv
  <2> QED
    BY <2>2, <2>3, <2>4
<1>17. CASE FinishGfx
  <2>1. /\ UNCHANGED <<port, pres, guest>> /\ gpu.at = "run" /\ gpu'.at = "run"
        /\ queue'.requests = queue.requests /\ queue'.commands = queue.commands
    BY <1>0, <1>17, FinishGfxIs
  <2> QED
    BY <1>03, <2>1, CountSame DEF GpuPending, PresentPending
<1>18. CASE ReceiveRequest
  <2>1. /\ UNCHANGED <<port, gpu, guest>> /\ Popped(queue.requests, queue'.requests)
        /\ queue'.commands = queue.commands
        /\ pres.at = "top" /\ pres'.at = "present" /\ pres'.req = queue.requests[1]
    BY <1>0, <1>18, ReceiveRequestIs
  <2>2. Len(queue'.requests) = Len(queue.requests) - 1 /\ 1 \in DOMAIN queue.requests
    BY <2>1 DEF Popped
  <2>3. queue.requests[1] \in EopFlips <=> pres'.req.eop
    BY <1>01, <2>1, <2>2 DEF EopFlips
  <2>4. /\ Count(queue'.requests, EopFlips) \in Nat
        /\ Count(queue.requests, EopFlips) = IF pres'.req.eop THEN Count(queue'.requests, EopFlips) + 1
                                                              ELSE Count(queue'.requests, EopFlips)
    BY <2>1, <2>3, CountPopped
  <2>5. /\ One(PresentPending) = 0 /\ One(PresentPending)' = 1 /\ One(GpuPending)' = One(GpuPending)
        /\ One(PresentPending /\ pres.req.eop) = 0
        /\ One(PresentPending /\ pres.req.eop)' = IF pres'.req.eop THEN 1 ELSE 0
        /\ One(GpuPending /\ gpu.req.eop)' = One(GpuPending /\ gpu.req.eop)
    BY <2>1 DEF GpuPending, PresentPending, One
  <2> QED
    BY <1>02, <1>03, <1>04, <1>05, <1>06, <2>1, <2>2, <2>4, <2>5 DEF CountInv
<1>19. CASE DrawBlankFrame
  <2>1. UNCHANGED <<port, queue, gpu, guest>> /\ pres.at = "top" /\ pres'.at = "blank"
    BY <1>0, <1>19, DrawBlankFrameIs
  <2> QED
    BY <1>03, <2>1, CountSame DEF GpuPending, PresentPending
<1>20. CASE PresentBlank
  <2>1. /\ SamePort /\ UNCHANGED <<gpu, guest>> /\ queue'.requests = queue.requests
        /\ queue'.commands = queue.commands /\ pres.at = "blank" /\ pres'.at = "top"
    BY <1>0, <1>20, PresentBlankIs
  <2> QED
    BY <1>03, <2>1, CountSame DEF GpuPending, PresentPending, SamePort
<1>21. CASE Present
  <2>0. pres.req.frame \in Frames
    BY <1>0, <1>21 DEF FrameInv, Present
  <2>1. /\ UNCHANGED <<port, gpu, guest>> /\ queue'.requests = queue.requests
        /\ queue'.commands = queue.commands
        /\ pres.at = "present" /\ pres'.at = "status" /\ pres'.req = pres.req
    BY <1>0, <1>21, <2>0, PresentIs
  <2> QED
    BY <1>03, <2>1, CountSame DEF GpuPending, PresentPending
<1>22. CASE FlipStatus
  <2>1. /\ UNCHANGED <<queue, gpu, guest>>
        /\ port'.pending = port.pending - 1 /\ port'.gc = port.gc - One(pres.req.eop)
        /\ pres.at = "status" /\ pres'.at = "label"
    BY <1>0, <1>22, FlipStatusIs
  <2>2. /\ One(PresentPending) = 1 /\ One(PresentPending)' = 0 /\ One(GpuPending)' = One(GpuPending)
        /\ One(PresentPending /\ pres.req.eop) = One(pres.req.eop)
        /\ One(PresentPending /\ pres.req.eop)' = 0
        /\ One(GpuPending /\ gpu.req.eop)' = One(GpuPending /\ gpu.req.eop)
    BY <2>1 DEF GpuPending, PresentPending, One
  <2> QED
    BY <1>02, <1>03, <1>04, <1>05, <1>06, <2>1, <2>2 DEF CountInv
<1>23. CASE ReleaseLabel
  <2>1. /\ UNCHANGED <<queue, guest>> /\ Nudged
        /\ port'.pending = port.pending /\ port'.gc = port.gc
        /\ pres.at = "label" /\ pres'.at = "top"
    BY <1>0, <1>23, ReleaseLabelIs
  <2> QED
    BY <1>03, <2>1, CountSame DEF Nudged, GpuPending, PresentPending
<1> QED
  BY <1>1, <1>2, <1>3, <1>4, <1>5, <1>6, <1>7, <1>8, <1>9, <1>10, <1>11, <1>12, <1>13, <1>14, <1>15,
     <1>16, <1>17, <1>18, <1>19, <1>20, <1>21, <1>22, <1>23 DEF Next, Gpu, PresentThread, Guest

\* All counters are 0 in the first state.
LEMMA CountInit ==
  ASSUME Init
  PROVE  CountInv
<1>1. /\ port.pending = 0 /\ port.gc = 0 /\ queue.requests = <<>> /\ queue.commands = <<>>
      /\ gpu.at = "run" /\ pres.at = "top" /\ \A t \in Guests : guest.at[t] = "idle"
  BY DEF Init, ClosedPort
<1>2. Senders = {} /\ Positions(queue.requests, EopFlips) = {}
  BY <1>1 DEF Senders, Positions
<1>3. IsFiniteSet(Senders) /\ Cardinality(Senders) = 0 /\ Count(queue.requests, EopFlips) = 0
  BY <1>2, FS_EmptySet DEF Count
<1>4. Len(queue.requests) = 0 /\ Len(queue.commands) = 0
  BY <1>1
<1>5. /\ One(GpuPending) = 0 /\ One(PresentPending) = 0
      /\ One(GpuPending /\ gpu.req.eop) = 0 /\ One(PresentPending /\ pres.req.eop) = 0
  BY <1>1 DEF One, GpuPending, PresentPending
<1> QED
  BY <1>1, <1>3, <1>4, <1>5 DEF CountInv

\* The counters, if the guest closes and unregisters only what no flip uses any more.
SettledInv == BaseInv /\ RegInv /\ CountInv

\* SettledInv is inductive.
LEMMA SettledStep ==
  ASSUME Settled, SettledInv, [Next]_vars
  PROVE  SettledInv'
<1>1. BaseInv' /\ RegInv'
  BY BaseStep, RegStep DEF SettledInv, BaseInv
<1>2. CASE Next
  BY <1>1, <1>2, CountStep DEF SettledInv, BaseInv
<1>3. CASE UNCHANGED vars
  BY <1>1, <1>3, CountSame DEF SettledInv, vars, Senders, GpuPending, PresentPending
<1> QED
  BY <1>2, <1>3 DEF SettledInv, BaseInv

\* SettledInv holds in every state.
THEOREM SettledCorrect ==
  ASSUME Settled
  PROVE  Spec => []SettledInv
<1>1. Init => SettledInv
  BY FrameInit, RegInit, CountInit DEF SettledInv, BaseInv
<1>2. SettledInv /\ [Next]_vars => SettledInv'
  BY SettledStep
<1> QED
  BY <1>1, <1>2, PTL DEF Spec

\* flip_pending_num and gc_queue_num count the flips on their way, for any number of
\* guest threads, buffers, frames and queue entries, if the guest closes the port only
\* when no flip is on its way: Close resets the counters and leaves the requests alone.
THEOREM PendingIsExact ==
  ASSUME Settled
  PROVE  Spec => []PendingExact
<1>1. SettledInv => PendingExact
  BY CountIs DEF SettledInv, BaseInv, ProgramInv
<1> QED
  BY <1>1, SettledCorrect, PTL

\* SubmitFlipInternal finds a group for the buffer of every flip, under the same condition.
THEOREM FlipsAreRegistered ==
  ASSUME Settled
  PROVE  Spec => [](gpu.at # "unregistered")
<1>1. SettledInv => gpu.at # "unregistered"
  BY DEF SettledInv, RegInv
<1> QED
  BY <1>1, SettledCorrect, PTL

-----------------------------------------------------------------------------
(* The order of callbacks.  Command buffers with a flip come from one      *)
(* thread: OneRenderer.                                                    *)

\* The registration of a callback and the submission of its command buffer are separate,
\* unlocked steps, so two threads may leave the two queues in different orders.
OneRenderer == \A t, u \in Renderers : t = u

\* A callback is registered and its command buffer not yet queued; the first one is over.
Queueing == \E t \in Guests : guest.at[t] = "queue"
HeadDone == queue.gfx # <<>> /\ queue.gfx[1].next = "done"

\* Behind its first k entries the graphics queue has the buffers of the callbacks, and
\* the last callback is the one of the call that has not queued its command buffer yet.
OrderFrom(k) ==
    /\ Len(queue.irq) = Len(queue.gfx) - k + (IF Queueing THEN 1 ELSE 0)
    /\ \A i \in DOMAIN queue.gfx : i > k => queue.irq[i - k] = queue.gfx[i].buf
    /\ \A t \in Guests : guest.at[t] = "queue" => queue.irq[Len(queue.irq)] = guest.arg[t]

\* The callback of a command buffer that is done has run.
OrderInv == (HeadDone => OrderFrom(1)) /\ (~HeadDone => OrderFrom(0))

\* The order, if no call queues or registers.
LEMMA OrderSame ==
  ASSUME OrderInv, queue'.irq = queue.irq, queue'.gfx = queue.gfx,
         \A t \in Guests : /\ guest'.at[t] = "queue" <=> guest.at[t] = "queue"
                           /\ guest.at[t] = "queue" => guest'.arg[t] = guest.arg[t]
  PROVE  OrderInv'
<1>1. Queueing' <=> Queueing
  BY DEF Queueing
<1>2. HeadDone' <=> HeadDone
  BY DEF HeadDone
<1>3. OrderFrom(0) => OrderFrom(0)'
  BY <1>1 DEF OrderFrom
<1>4. OrderFrom(1) => OrderFrom(1)'
  BY <1>1 DEF OrderFrom
<1> QED
  BY <1>2, <1>3, <1>4 DEF OrderInv

\* The order, if a thread goes on to or from a place other than "queue".
LEMMA OrderMoved ==
  ASSUME OrderInv, queue'.irq = queue.irq, queue'.gfx = queue.gfx,
         NEW t \in Guests, NEW at, NEW arg, Moved(t, at, arg), guest.at[t] # "queue", at # "queue"
  PROVE  OrderInv'
<1>1. \A u \in Guests : /\ guest'.at[u] = "queue" <=> guest.at[u] = "queue"
                        /\ guest.at[u] = "queue" => guest'.arg[u] = guest.arg[u]
  BY DEF Moved
<1> QED
  BY <1>1, OrderSame

\* The order, if the first command buffer goes on and is not done.
LEMMA OrderAdvanced ==
  ASSUME OrderInv, queue'.irq = queue.irq, NEW x, Advanced(queue.gfx, queue'.gfx, x), x # "done",
         queue.gfx[1].next # "done", guest' = guest
  PROVE  OrderInv'
<1>1. Queueing' <=> Queueing
  BY DEF Queueing
<1>2. ~HeadDone /\ ~HeadDone'
  BY DEF HeadDone, Advanced
<1>3. OrderFrom(0)
  BY <1>2 DEF OrderInv
<1>4. /\ Len(queue'.gfx) = Len(queue.gfx) /\ DOMAIN queue'.gfx = DOMAIN queue.gfx
      /\ \A i \in DOMAIN queue.gfx : queue'.gfx[i].buf = queue.gfx[i].buf
  BY DEF Advanced
<1>5. OrderFrom(0)'
  BY <1>1, <1>3, <1>4 DEF OrderFrom
<1> QED
  BY <1>2, <1>5 DEF OrderInv

\* Every step keeps the order of the callbacks.
LEMMA OrderStep ==
  ASSUME ProgramInv, OrderInv, OneRenderer, Next
  PROVE  OrderInv'
<1>0. TypeOK /\ TaskInv /\ KindInv /\ FrameInv
  BY DEF ProgramInv
<1>01. /\ Len(queue.irq) \in Nat /\ DOMAIN queue.irq = 1 .. Len(queue.irq)
       /\ Len(queue.gfx) \in Nat /\ DOMAIN queue.gfx = 1 .. Len(queue.gfx)
       /\ (queue.gfx = <<>> <=> Len(queue.gfx) = 0)
  BY <1>0, Fields, EmptyIs
<1>02. \A t, u \in Guests : guest.at[t] \in {"queue", "count"} /\ u \in Renderers => t = u
  BY <1>0 DEF OneRenderer, KindInv, GuestKind
<1>1. CASE Open \/ SubmitAsc \/ RunAsc \/ EndOfFrame \/ \E rate \in Rates : SetFlipRate(rate)
  BY <1>0, <1>1, QuietIs, OrderSame DEF SameQueues
<1>2. CASE Close
  BY <1>0, <1>2, CloseIs, OrderSame
<1>3. ASSUME NEW bs \in Ranges, RegisterBuffers(bs) PROVE OrderInv'
  BY <1>0, <1>3, RegisterIs, OrderSame
<1>4. ASSUME NEW g \in Groups, UnregisterBuffers(g) PROVE OrderInv'
  BY <1>0, <1>4, UnregisterIs, OrderSame
<1>5. ASSUME NEW t \in Flippers, NEW index \in CpuBuffers \cup {Blank}, SubmitFlip(t, index) PROVE OrderInv'
  <2>1. UNCHANGED queue /\ t \in Guests /\ guest.at[t] = "idle" /\ Moved(t, "send", index)
    BY <1>0, <1>5, SubmitFlipIs
  <2> QED
    BY <2>1, OrderMoved
<1>6. ASSUME NEW t \in Guests, SendCommand(t) PROVE OrderInv'
  <2>1. /\ queue'.irq = queue.irq /\ queue'.gfx = queue.gfx
        /\ guest.at[t] = "send" /\ Moved(t, "idle", guest.arg[t])
    BY <1>0, <1>6, SendCommandIs
  <2> QED
    BY <2>1, OrderMoved
<1>7. ASSUME NEW t \in Renderers, NEW b \in EopBuffers, SubmitEopFlip(t, b) PROVE OrderInv'
  <2>1. /\ t \in Guests /\ guest.at[t] = "idle" /\ Moved(t, "queue", b)
        /\ Pushed(queue.irq, queue'.irq, b) /\ queue'.gfx = queue.gfx
    BY <1>0, <1>7, SubmitEopFlipIs
  <2>2. ~Queueing
    BY <1>02, <2>1 DEF Queueing
  <2>3. Queueing' /\ \A u \in Guests : guest'.at[u] = "queue" => guest'.arg[u] = b
    BY <2>1, <2>2 DEF Queueing, Moved
  <2>4. Len(queue'.irq) = Len(queue.irq) + 1 /\ queue'.irq[Len(queue'.irq)] = b
        /\ \A i \in 1 .. Len(queue.irq) : queue'.irq[i] = queue.irq[i]
    BY <2>1 DEF Pushed
  <2>5. HeadDone' <=> HeadDone
    BY <2>1 DEF HeadDone
  <2>6. ASSUME NEW k \in {0, 1}, OrderFrom(k), Len(queue.gfx) >= k PROVE OrderFrom(k)'
    <3>1. Len(queue.irq) = Len(queue.gfx) - k
      BY <1>01, <2>2, <2>6 DEF OrderFrom
    <3>2. Len(queue'.irq) = Len(queue'.gfx) - k + 1
      BY <1>01, <2>1, <2>4, <3>1
    <3>3. ASSUME NEW i \in DOMAIN queue'.gfx, i > k PROVE queue'.irq[i - k] = queue'.gfx[i].buf
      <4>1. i - k \in 1 .. Len(queue.irq)
        BY <1>01, <2>1, <3>1, <3>3
      <4> QED
        BY <2>1, <2>4, <2>6, <3>3, <4>1 DEF OrderFrom
    <3> QED
      BY <2>3, <2>4, <3>2, <3>3 DEF OrderFrom
  <2>7. HeadDone => Len(queue.gfx) >= 1
    BY <1>01 DEF HeadDone
  <2> QED
    BY <1>01, <2>5, <2>6, <2>7 DEF OrderInv
<1>8. ASSUME NEW t \in Guests, SubmitGfx(t) PROVE OrderInv'
  <2> DEFINE e == [buf |-> guest.arg[t], next |-> "wait"]
  <2>1. guest.arg[t] \in Buffers /\ t \in Renderers
    BY <1>0, <1>8, Constants DEF KindInv, GuestKind, SubmitGfx
  <2>2. /\ guest.at[t] = "queue" /\ Moved(t, "count", guest.arg[t])
        /\ Pushed(queue.gfx, queue'.gfx, e) /\ queue'.irq = queue.irq
    BY <1>0, <1>8, <2>1, SubmitGfxIs
  <2>3. e.buf = guest.arg[t] /\ e.next = "wait"
    OBVIOUS
  <2> HIDE DEF e
  <2>4. Queueing /\ ~Queueing'
    BY <1>02, <2>1, <2>2 DEF Queueing, Moved
  <2>5. /\ Len(queue'.gfx) = Len(queue.gfx) + 1 /\ queue'.gfx[Len(queue'.gfx)] = e
        /\ DOMAIN queue'.gfx = 1 .. Len(queue'.gfx)
        /\ \A i \in 1 .. Len(queue.gfx) : queue'.gfx[i] = queue.gfx[i]
    BY <2>2 DEF Pushed
  <2>6. queue'.gfx # <<>>
    BY <1>01, <2>5
  <2>7. HeadDone' <=> HeadDone
    <3>1. CASE queue.gfx = <<>>
      BY <1>01, <2>3, <2>5, <3>1 DEF HeadDone
    <3>2. CASE queue.gfx # <<>>
      <4>1. queue'.gfx[1] = queue.gfx[1]
        BY <1>01, <2>5, <3>2
      <4> QED
        BY <2>6, <3>2, <4>1 DEF HeadDone
    <3> QED
      BY <3>1, <3>2
  <2>8. ASSUME NEW k \in {0, 1}, OrderFrom(k), Len(queue.gfx) >= k PROVE OrderFrom(k)'
    <3>1. Len(queue.irq) = Len(queue.gfx) - k + 1
      BY <2>4, <2>8 DEF OrderFrom
    <3>2. Len(queue'.irq) = Len(queue'.gfx) - k
      BY <1>01, <2>2, <2>5, <3>1
    <3>3. ASSUME NEW i \in DOMAIN queue'.gfx, i > k PROVE queue'.irq[i - k] = queue'.gfx[i].buf
      <4>1. CASE i = Len(queue'.gfx)
        <5>1. i - k = Len(queue.irq)
          BY <1>01, <2>2, <3>2, <4>1
        <5> QED
          BY <2>2, <2>3, <2>5, <2>8, <4>1, <5>1 DEF OrderFrom
      <4>2. CASE i # Len(queue'.gfx)
        <5>1. i \in 1 .. Len(queue.gfx)
          BY <1>01, <2>5, <4>2
        <5> QED
          BY <1>01, <2>2, <2>5, <2>8, <3>3, <5>1 DEF OrderFrom
      <4> QED
        BY <4>1, <4>2
    <3>4. Len(queue'.gfx) - k + 0 = Len(queue'.gfx) - k
      BY <1>01, <2>5
    <3> QED
      BY <2>4, <3>2, <3>3, <3>4 DEF OrderFrom, Queueing
  <2>9. HeadDone => Len(queue.gfx) >= 1
    BY <1>01 DEF HeadDone
  <2> QED
    BY <1>01, <2>7, <2>8, <2>9 DEF OrderInv
<1>9. ASSUME NEW t \in Guests, SubmitCount(t) PROVE OrderInv'
  <2>1. SameQueues /\ guest.at[t] = "count" /\ Moved(t, "idle", guest.arg[t])
    BY <1>0, <1>9, SubmitCountIs
  <2> QED
    BY <2>1, OrderMoved DEF SameQueues
<1>10. CASE ProcessCommands
  BY <1>0, <1>10, ProcessCommandsIs, OrderSame
<1>11. CASE GetRenderFrame
  BY <1>0, <1>11, GetRenderFrameIs, OrderSame
<1>12. CASE PushRequest
  BY <1>0, <1>12, PushRequestIs, OrderSame
<1>13. CASE ResumeGfx \/ WaitRegMemSleep \/ Spurious
  BY <1>0, <1>13, GpuTurnIs, OrderSame
<1>14. CASE WaitRegMemPass \/ WaitRegMemYield \/ WaitVoLabel
  <2>1. /\ queue'.irq = queue.irq /\ guest' = guest /\ queue.gfx[1].next \in {"wait", "poll"}
        /\ \/ queue'.gfx = queue.gfx
           \/ Advanced(queue.gfx, queue'.gfx, "poll")
           \/ Advanced(queue.gfx, queue'.gfx, "write")
    BY <1>0, <1>14, WaitIs
  <2> QED
    BY <2>1, OrderSame, OrderAdvanced
<1>15. CASE WriteData
  BY <1>0, <1>15, WriteDataIs, OrderAdvanced
<1>16. CASE SignalFlip
  <2>1. /\ guest' = guest /\ Popped(queue.irq, queue'.irq) /\ queue.gfx[1].next = "flip"
        /\ Advanced(queue.gfx, queue'.gfx, "done") /\ queue.gfx # <<>>
    BY <1>0, <1>16, SignalFlipIs
  <2>2. ~HeadDone /\ OrderFrom(0)
    BY <2>1 DEF HeadDone, OrderInv
  <2>3. queue'.gfx # <<>> /\ HeadDone'
    <3>1. Len(queue'.gfx) # 0
      BY <2>1 DEF Advanced
    <3> QED
      BY <2>1, <3>1 DEF HeadDone, Advanced
  <2>4. Queueing' <=> Queueing
    BY <2>1 DEF Queueing
  <2>5. /\ Len(queue'.gfx) = Len(queue.gfx) /\ DOMAIN queue'.gfx = DOMAIN queue.gfx /\ Len(queue.gfx) >= 1
        /\ \A i \in DOMAIN queue.gfx : queue'.gfx[i].buf = queue.gfx[i].buf
    BY <2>1 DEF Advanced
  <2>6. Len(queue'.irq) = Len(queue.irq) - 1 /\ \A i \in 1 .. Len(queue'.irq) : queue'.irq[i] = queue.irq[i + 1]
    BY <2>1 DEF Popped
  <2>7. Len(queue.irq) = Len(queue.gfx) + (IF Queueing THEN 1 ELSE 0)
    BY <1>01, <2>2 DEF OrderFrom
  <2>8. Len(queue'.irq) = Len(queue'.gfx) - 1 + (IF Queueing THEN 1 ELSE 0)
    BY <1>01, <2>5, <2>6, <2>7
  <2>9. ASSUME NEW i \in DOMAIN queue'.gfx, i > 1 PROVE queue'.irq[i - 1] = queue'.gfx[i].buf
    <3>0. Len(queue'.irq) \in Int /\ Len(queue'.irq) >= Len(queue.gfx) - 1 /\ i \in 1 .. Len(queue.gfx)
      <4>1. CASE Queueing
        BY <1>01, <2>5, <2>8, <4>1
      <4>2. CASE ~Queueing
        BY <1>01, <2>5, <2>8, <4>2
      <4> QED
        BY <4>1, <4>2
    <3>1. i - 1 \in 1 .. Len(queue'.irq) /\ (i - 1) + 1 = i
      BY <1>01, <2>9, <3>0
    <3>2. queue'.irq[i - 1] = queue.irq[i]
      BY <2>6, <3>1
    <3>3. i \in DOMAIN queue.gfx /\ i > 0 /\ i - 0 = i
      BY <1>01, <2>5
    <3>4. queue.irq[i] = queue.gfx[i].buf
      BY <2>2, <3>3 DEF OrderFrom
    <3> QED
      BY <2>5, <3>2, <3>3, <3>4
  <2>10. ASSUME NEW u \in Guests, guest'.at[u] = "queue" PROVE queue'.irq[Len(queue'.irq)] = guest'.arg[u]
    <3>1. Queueing
      BY <2>1, <2>10 DEF Queueing
    <3>2. Len(queue'.irq) \in 1 .. Len(queue'.irq) /\ Len(queue'.irq) + 1 = Len(queue.irq)
      BY <1>01, <2>5, <2>6, <2>7, <3>1
    <3>3. queue'.irq[Len(queue'.irq)] = queue.irq[Len(queue.irq)]
      BY <2>6, <3>2
    <3> QED
      BY <2>1, <2>2, <2>10, <3>3 DEF OrderFrom
  <2>11. OrderFrom(1)'
    BY <2>4, <2>8, <2>9, <2>10 DEF OrderFrom
  <2> QED
    BY <2>3, <2>11 DEF OrderInv
<1>17. CASE FinishGfx
  <2>1. /\ guest' = guest /\ queue'.irq = queue.irq /\ queue.gfx # <<>> /\ queue.gfx[1].next = "done"
        /\ Popped(queue.gfx, queue'.gfx)
    BY <1>0, <1>17, FinishGfxIs
  <2>2. OrderFrom(1)
    BY <2>1 DEF HeadDone, OrderInv
  <2>3. /\ Len(queue'.gfx) = Len(queue.gfx) - 1 /\ DOMAIN queue'.gfx = 1 .. Len(queue'.gfx)
        /\ \A i \in 1 .. Len(queue'.gfx) : queue'.gfx[i] = queue.gfx[i + 1]
    BY <2>1 DEF Popped
  <2>4. TypeOK'
    BY <1>0, <1>17, FinishGfxIs
  <2>5. ~HeadDone'
    <3>1. queue'.gfx # <<>> => 1 \in 1 .. Len(queue'.gfx) /\ 2 \in DOMAIN queue.gfx
      <4>1. queue'.gfx \in Seq(Tasks)
        BY <2>4, TypeIsNext DEF Queue, Tasks
      <4>2. queue'.gfx # <<>> => 1 \in 1 .. Len(queue'.gfx)
        BY <4>1, EmptyIs
      <4> QED
        BY <1>01, <2>3, <4>2
    <3>2. queue'.gfx # <<>> => queue'.gfx[1] = queue.gfx[2] /\ queue.gfx[2].next = "wait"
      BY <1>0, <2>3, <3>1 DEF KindInv
    <3> QED
      BY <3>2 DEF HeadDone
  <2>6. Queueing' <=> Queueing
    BY <2>1 DEF Queueing
  <2>7. Len(queue'.irq) = Len(queue'.gfx) - 0 + (IF Queueing THEN 1 ELSE 0)
    BY <1>01, <2>1, <2>2, <2>3 DEF OrderFrom
  <2>8. ASSUME NEW i \in DOMAIN queue'.gfx, i > 0 PROVE queue'.irq[i - 0] = queue'.gfx[i].buf
    <3>1. i + 1 \in DOMAIN queue.gfx /\ i + 1 > 1 /\ (i + 1) - 1 = i /\ i - 0 = i
      BY <1>01, <2>3
    <3>2. queue.irq[(i + 1) - 1] = queue.gfx[i + 1].buf
      BY <2>2, <3>1 DEF OrderFrom
    <3> QED
      BY <2>1, <2>3, <3>1, <3>2
  <2>9. OrderFrom(0)'
    BY <2>1, <2>2, <2>6, <2>7, <2>8 DEF OrderFrom
  <2> QED
    BY <2>5, <2>9 DEF OrderInv
<1>18. CASE ReceiveRequest
  BY <1>0, <1>18, ReceiveRequestIs, OrderSame
<1>19. CASE DrawBlankFrame
  BY <1>0, <1>19, DrawBlankFrameIs, OrderSame
<1>20. CASE PresentBlank
  BY <1>0, <1>20, PresentBlankIs, OrderSame
<1>21. CASE Present
  <2>1. pres.req.frame \in Frames
    BY <1>0, <1>21 DEF FrameInv, Present
  <2> QED
    BY <1>0, <1>21, <2>1, PresentIs, OrderSame
<1>22. CASE FlipStatus
  BY <1>0, <1>22, FlipStatusIs, OrderSame
<1>23. CASE ReleaseLabel
  BY <1>0, <1>23, ReleaseLabelIs, OrderSame
<1> QED
  BY <1>1, <1>2, <1>3, <1>4, <1>5, <1>6, <1>7, <1>8, <1>9, <1>10, <1>11, <1>12, <1>13, <1>14, <1>15,
     <1>16, <1>17, <1>18, <1>19, <1>20, <1>21, <1>22, <1>23 DEF Next, Gpu, PresentThread, Guest

-----------------------------------------------------------------------------
(* Labels                                                                  *)

\* A buffer of command buffers is used by at most one flip, and is locked while it is.
Unique(b) ==
    /\ OnceIn(queue.requests, FlipsOf(b))
    /\ Has(queue.requests, FlipsOf(b)) => ~GpuUses(b) /\ ~PresUses(b) /\ port.prev_index # b
    /\ GpuUses(b) => ~PresUses(b) /\ port.prev_index # b
    /\ PresUses(b) => port.prev_index # b
SurfaceInv == \A b \in EopBuffers : Unique(b) /\ (InUse(b) => port.labels[b] = 1)

\* The first command buffer found its label free before its write, and has it locked
\* before its flip, when its buffer is not used by another flip.
HeadInv ==
    queue.gfx # <<>> =>
      /\ queue.gfx[1].next = "write" => port.labels[queue.gfx[1].buf] = 0
      /\ queue.gfx[1].next = "flip" => port.labels[queue.gfx[1].buf] = 1 /\ ~InUse(queue.gfx[1].buf)

LabelInv == SurfaceInv /\ HeadInv /\ gpu.at # "out_of_order"

\* The same flips use the buffers of command buffers.
SameUses ==
    \A b \in EopBuffers :
      /\ Has(queue.requests, FlipsOf(b))' = Has(queue.requests, FlipsOf(b))
      /\ OnceIn(queue.requests, FlipsOf(b))' = OnceIn(queue.requests, FlipsOf(b))
      /\ GpuUses(b)' = GpuUses(b) /\ PresUses(b)' = PresUses(b)
      /\ (port'.prev_index = b) = (port.prev_index = b)

\* Flips that stay where they are.
LEMMA UsesSame ==
  ASSUME port'.prev_index = port.prev_index, queue'.requests = queue.requests,
         \A b \in EopBuffers : GpuUses(b)' = GpuUses(b) /\ PresUses(b)' = PresUses(b)
  PROVE  SameUses
BY DEF SameUses, FlipsOf

\* The surfaces, if the same flips use them.
LEMMA SurfaceSame ==
  ASSUME SurfaceInv, SameUses, \A b \in EopBuffers : InUse(b) => port'.labels[b] = port.labels[b]
  PROVE  SurfaceInv' /\ \A b \in EopBuffers : InUse(b)' = InUse(b)
<1>1. ASSUME NEW b \in EopBuffers PROVE InUse(b)' = InUse(b)
  BY DEF SameUses, InUse
<1>2. ASSUME NEW b \in EopBuffers PROVE Unique(b)'
  BY DEF SurfaceInv, Unique, SameUses
<1> QED
  BY <1>1, <1>2 DEF SurfaceInv

\* The first command buffer, if the same flips use the buffers and it stays.
LEMMA HeadSame ==
  ASSUME HeadInv, queue'.gfx = queue.gfx, queue.gfx # <<>> => queue.gfx[1].buf \in EopBuffers,
         \A b \in EopBuffers : InUse(b)' = InUse(b),
         queue.gfx # <<>> /\ queue.gfx[1].next = "write" => port'.labels[queue.gfx[1].buf] = 0,
         queue.gfx # <<>> /\ queue.gfx[1].next = "flip" =>
            port'.labels[queue.gfx[1].buf] = port.labels[queue.gfx[1].buf]
  PROVE  HeadInv'
BY DEF HeadInv

\* Labels, if the same flips use the buffers, the first command buffer stays and no label
\* changes.
LEMMA LabelSame ==
  ASSUME LabelInv, SameUses, port'.labels = port.labels, queue'.gfx = queue.gfx,
         queue.gfx # <<>> => queue.gfx[1].buf \in EopBuffers, gpu'.at # "out_of_order"
  PROVE  LabelInv'
<1>1. SurfaceInv' /\ \A b \in EopBuffers : InUse(b)' = InUse(b)
  BY SurfaceSame DEF LabelInv
<1>2. HeadInv'
  BY <1>1, HeadSame DEF LabelInv, HeadInv
<1> QED
  BY <1>1, <1>2 DEF LabelInv

\* Labels, if the same flips use the buffers, no label changes, and the first command
\* buffer changes to one that is before its write or done with its flip.
LEMMA LabelNewHead ==
  ASSUME LabelInv, SameUses, port'.labels = port.labels, gpu'.at # "out_of_order",
         queue'.gfx # <<>> =>
           \/ queue'.gfx[1].next \in {"wait", "poll", "done"}
           \/ queue'.gfx[1].next = "write" /\ port.labels[queue'.gfx[1].buf] = 0
  PROVE  LabelInv'
<1>1. SurfaceInv'
  BY SurfaceSame DEF LabelInv
<1>2. HeadInv'
  BY DEF HeadInv
<1> QED
  BY <1>1, <1>2 DEF LabelInv

\* What the guest does keeps the labels.
LEMMA LabelGuestStep ==
  ASSUME ProgramInv, RegInv, OrderInv, LabelInv, Settled,
         \/ Close
         \/ \E bs \in Ranges : RegisterBuffers(bs)
         \/ \E g \in Groups : UnregisterBuffers(g)
         \/ \E t \in Flippers, index \in CpuBuffers \cup {Blank} : SubmitFlip(t, index)
         \/ \E t \in Renderers, b \in EopBuffers : SubmitEopFlip(t, b)
         \/ \E t \in Guests : SendCommand(t) \/ SubmitGfx(t) \/ SubmitCount(t)
  PROVE  LabelInv'
<1>0. TypeOK /\ TaskInv /\ KindInv /\ FrameInv /\ gpu.at # "out_of_order" /\ SurfaceInv /\ HeadInv
  BY DEF ProgramInv, LabelInv
<1>01. Blank \notin Buffers /\ EopBuffers \subseteq Buffers
  BY Constants
<1>02. /\ Len(queue.gfx) \in Nat /\ DOMAIN queue.gfx = 1 .. Len(queue.gfx)
       /\ (queue.gfx = <<>> <=> Len(queue.gfx) = 0)
  BY <1>0, Fields, EmptyIs
<1>03. queue.gfx # <<>> => queue.gfx[1].buf \in EopBuffers /\ 1 \in DOMAIN queue.gfx
  BY <1>0, <1>02 DEF KindInv, All, EopTasks
<1>1. CASE Close
  <2>1. /\ UNCHANGED <<queue, gpu, pres>> /\ port'.prev_index = Blank
        /\ InFlight = {} /\ queue.gfx = <<>>
    BY <1>0, <1>1, CloseIs
  <2>2. ASSUME NEW b \in EopBuffers PROVE Unique(b)' /\ ~InUse(b)'
    <3>1. ~Has(queue.requests, FlipsOf(b)) /\ ~GpuUses(b) /\ ~PresUses(b)
      BY <2>1 DEF InFlight, Has, FlipsOf, GpuUses, PresUses, Range
    <3>2. port'.prev_index # b
      BY <1>01, <2>1
    <3>3. ~Has(queue.requests, FlipsOf(b))' /\ ~GpuUses(b)' /\ ~PresUses(b)'
      BY <2>1, <3>1 DEF FlipsOf, GpuUses, PresUses
    <3>4. OnceIn(queue.requests, FlipsOf(b))'
      BY <3>3 DEF Has, OnceIn
    <3> QED
      BY <3>2, <3>3, <3>4 DEF Unique, InUse
  <2> QED
    BY <1>0, <2>1, <2>2 DEF LabelInv, SurfaceInv, HeadInv
<1>2. ASSUME NEW bs \in Ranges, RegisterBuffers(bs) PROVE LabelInv'
  <2>1. /\ UNCHANGED <<queue, pres, guest>> /\ Nudged /\ port'.prev_index = port.prev_index
        /\ \A b \in Buffers : port.slots[b] >= 0 => port'.labels[b] = port.labels[b]
        /\ \A b \in Buffers : port'.labels[b] \in {0, port.labels[b]}
    BY <1>0, <1>2, RegisterIs
  <2>2. SameUses
    BY <2>1, UsesSame DEF GpuUses, PresUses, Nudged
  <2>3. \A b \in EopBuffers : InUse(b) \/ IsAwaited(b) => port'.labels[b] = port.labels[b]
    BY <1>01, <2>1 DEF RegInv
  <2>4. SurfaceInv' /\ \A b \in EopBuffers : InUse(b)' = InUse(b)
    BY <1>0, <2>2, <2>3, SurfaceSame
  <2>5. ASSUME queue.gfx # <<>>, queue.gfx[1].next = "flip" PROVE IsAwaited(queue.gfx[1].buf)
    <3>1. OrderFrom(0)
      BY <2>5 DEF OrderInv, HeadDone
    <3>2. queue.irq[1] = queue.gfx[1].buf
      <4>1. 1 \in DOMAIN queue.gfx /\ 1 > 0 /\ 1 - 0 = 1
        BY <1>03, <2>5
      <4> QED
        BY <3>1, <4>1 DEF OrderFrom
    <3>3. 1 \in DOMAIN queue.irq
      <4>1. Len(queue.irq) \in Nat /\ DOMAIN queue.irq = 1 .. Len(queue.irq)
        BY <1>0, Fields, EmptyIs
      <4>2. Len(queue.irq) >= 1
        <5>1. CASE Queueing
          BY <1>02, <2>5, <3>1, <5>1 DEF OrderFrom
        <5>2. CASE ~Queueing
          BY <1>02, <2>5, <3>1, <5>2 DEF OrderFrom
        <5> QED
          BY <5>1, <5>2
      <4> QED
        BY <4>1, <4>2
    <3> QED
      BY <3>2, <3>3 DEF IsAwaited, Has
  <2>6. HeadInv'
    <3>1. queue.gfx # <<>> /\ queue.gfx[1].next = "write" => port'.labels[queue.gfx[1].buf] = 0
      BY <1>0, <1>01, <1>03, <2>1 DEF HeadInv
    <3>2. queue.gfx # <<>> /\ queue.gfx[1].next = "flip" =>
            port'.labels[queue.gfx[1].buf] = port.labels[queue.gfx[1].buf]
      BY <1>03, <2>3, <2>5
    <3> QED
      BY <1>0, <1>03, <2>1, <2>4, <3>1, <3>2, HeadSame
  <2> QED
    BY <1>0, <2>1, <2>4, <2>6 DEF LabelInv, Nudged
<1>3. ASSUME NEW g \in Groups, UnregisterBuffers(g) PROVE LabelInv'
  <2>1. /\ UNCHANGED <<queue, gpu, pres>> /\ port'.prev_index = port.prev_index /\ port'.labels = port.labels
    BY <1>0, <1>3, UnregisterIs
  <2>2. SameUses
    BY <2>1, UsesSame DEF GpuUses, PresUses
  <2> QED
    BY <1>0, <1>03, <2>1, <2>2, LabelSame
<1>4. ASSUME NEW t \in Flippers, NEW index \in CpuBuffers \cup {Blank}, SubmitFlip(t, index) PROVE LabelInv'
  <2>1. /\ UNCHANGED <<queue, gpu, pres>> /\ port'.prev_index = port.prev_index /\ port'.labels = port.labels
    BY <1>0, <1>4, SubmitFlipIs
  <2>2. SameUses
    BY <2>1, UsesSame DEF GpuUses, PresUses
  <2> QED
    BY <1>0, <1>03, <2>1, <2>2, LabelSame
<1>5. ASSUME NEW t \in Renderers, NEW b \in EopBuffers, SubmitEopFlip(t, b) PROVE LabelInv'
  <2>1. UNCHANGED <<port, gpu, pres>> /\ queue'.requests = queue.requests /\ queue'.gfx = queue.gfx
    BY <1>0, <1>5, SubmitEopFlipIs
  <2>2. SameUses
    BY <2>1, UsesSame DEF GpuUses, PresUses
  <2> QED
    BY <1>0, <1>03, <2>1, <2>2, LabelSame
<1>6. ASSUME NEW t \in Guests, SendCommand(t) PROVE LabelInv'
  <2>1. UNCHANGED <<port, gpu, pres>> /\ queue'.requests = queue.requests /\ queue'.gfx = queue.gfx
    BY <1>0, <1>6, SendCommandIs
  <2>2. SameUses
    BY <2>1, UsesSame DEF GpuUses, PresUses
  <2> QED
    BY <1>0, <1>03, <2>1, <2>2, LabelSame
<1>7. ASSUME NEW t \in Guests, SubmitGfx(t) PROVE LabelInv'
  <2> DEFINE e == [buf |-> guest.arg[t], next |-> "wait"]
  <2>1. guest.arg[t] \in Buffers
    BY <1>0, <1>01, <1>7 DEF KindInv, GuestKind, SubmitGfx
  <2>2. /\ UNCHANGED <<port, gpu, pres>> /\ queue'.requests = queue.requests
        /\ Pushed(queue.gfx, queue'.gfx, e)
    BY <1>0, <1>7, <2>1, SubmitGfxIs
  <2>3. e.next = "wait"
    OBVIOUS
  <2> HIDE DEF e
  <2>4. SameUses
    BY <2>2, UsesSame DEF GpuUses, PresUses
  <2>5. CASE queue.gfx = <<>>
    <3>1. queue'.gfx[1].next = "wait"
      BY <1>02, <2>2, <2>3, <2>5 DEF Pushed
    <3> QED
      BY <1>0, <2>2, <2>4, <3>1, LabelNewHead
  <2>6. CASE queue.gfx # <<>>
    <3>1. queue'.gfx[1] = queue.gfx[1] /\ queue'.gfx # <<>>
      BY <1>02, <2>2, <2>6 DEF Pushed
    <3>2. SurfaceInv' /\ \A b \in EopBuffers : InUse(b)' = InUse(b)
      BY <1>0, <2>2, <2>4, SurfaceSame
    <3>3. HeadInv'
      BY <1>0, <1>03, <2>2, <2>6, <3>1, <3>2 DEF HeadInv
    <3> QED
      BY <1>0, <2>2, <3>2, <3>3 DEF LabelInv
  <2> QED
    BY <2>5, <2>6
<1>8. ASSUME NEW t \in Guests, SubmitCount(t) PROVE LabelInv'
  <2>1. UNCHANGED <<port, gpu, pres>> /\ SameQueues
    BY <1>0, <1>8, SubmitCountIs
  <2>2. SameUses
    BY <2>1, UsesSame DEF GpuUses, PresUses, SameQueues
  <2> QED
    BY <1>0, <1>03, <2>1, <2>2, LabelSame DEF SameQueues
<1> QED
  BY <1>1, <1>2, <1>3, <1>4, <1>5, <1>6, <1>7, <1>8

\* What the GPU thread and the present thread do keeps the labels, and the callback finds
\* the label of its buffer locked.
LEMMA LabelThreadStep ==
  ASSUME ProgramInv, RegInv, OrderInv, LabelInv,
         \/ Gpu \/ Spurious \/ PresentThread \/ Open \/ SubmitAsc \/ \E rate \in Rates : SetFlipRate(rate)
  PROVE  LabelInv'
<1>0. TypeOK /\ TaskInv /\ KindInv /\ FrameInv /\ gpu.at # "out_of_order" /\ SurfaceInv /\ HeadInv
  BY DEF ProgramInv, LabelInv
<1>01. /\ Blank \notin Buffers /\ EopBuffers \subseteq Buffers /\ EopBuffers \cap CpuBuffers = {}
       /\ NoFlip.index = Blank
  BY Constants, FlipFields
<1>02. /\ Len(queue.gfx) \in Nat /\ DOMAIN queue.gfx = 1 .. Len(queue.gfx)
       /\ (queue.gfx = <<>> <=> Len(queue.gfx) = 0)
  BY <1>0, Fields, EmptyIs
<1>03. queue.gfx # <<>> => queue.gfx[1].buf \in EopBuffers /\ 1 \in DOMAIN queue.gfx
  BY <1>0, <1>02 DEF KindInv, All, EopTasks
<1>04. gpu.req \in Flips /\ pres.req \in Flips /\ \A i \in DOMAIN queue.requests : queue.requests[i] \in Flips
  BY <1>0, Fields, EmptyIs
<1>05. pres.at \in {"top", "blank"} => \A b \in EopBuffers : ~PresUses(b)
  BY <1>0, <1>01 DEF FrameInv, PresUses
<1>1. CASE Open \/ SubmitAsc \/ RunAsc \/ EndOfFrame \/ \E rate \in Rates : SetFlipRate(rate)
  <2>1. SamePort /\ SameQueues /\ UNCHANGED <<gpu, pres, guest>>
    BY <1>0, <1>1, QuietIs
  <2>2. SameUses
    BY <2>1, UsesSame DEF GpuUses, PresUses, SamePort, SameQueues
  <2> QED
    BY <1>0, <1>03, <2>1, <2>2, LabelSame DEF SamePort, SameQueues
<1>2. CASE ProcessCommands
  <2>1. /\ UNCHANGED <<port, pres, guest>> /\ Popped(queue.commands, queue'.commands)
        /\ queue'.requests = queue.requests /\ queue'.gfx = queue.gfx
        /\ gpu.at = "run" /\ gpu'.req.index = queue.commands[1]
        /\ gpu'.at \in {"frame", "unregistered"}
    BY <1>0, <1>2, ProcessCommandsIs
  <2>2. queue.commands[1] \in Commands
    BY <1>0, <2>1, PoppedHas DEF KindInv
  <2>3. SameUses
    BY <1>01, <2>1, <2>2, UsesSame DEF GpuUses, PresUses, Commands
  <2> QED
    BY <1>0, <1>03, <2>1, <2>3, LabelSame
<1>3. CASE GetRenderFrame
  <2>1. /\ UNCHANGED <<port, pres, guest>> /\ queue'.requests = queue.requests /\ queue'.gfx = queue.gfx
        /\ gpu.at = "frame" /\ gpu'.at = "push" /\ gpu'.req.index = gpu.req.index
    BY <1>0, <1>3, GetRenderFrameIs
  <2>2. SameUses
    BY <2>1, UsesSame DEF GpuUses, PresUses
  <2> QED
    BY <1>0, <1>03, <2>1, <2>2, LabelSame
<1>4. CASE PushRequest
  <2>1. /\ UNCHANGED <<port, pres, guest>> /\ Pushed(queue.requests, queue'.requests, gpu.req)
        /\ queue'.gfx = queue.gfx /\ gpu.at = "push" /\ gpu'.at = "run"
    BY <1>0, <1>4, PushRequestIs
  <2>2. ASSUME NEW b \in EopBuffers PROVE Unique(b)' /\ InUse(b)' = InUse(b)
    <3>1. gpu.req \in FlipsOf(b) <=> GpuUses(b)
      BY <1>04, <2>1 DEF FlipsOf, GpuUses
    <3>2. /\ Has(queue'.requests, FlipsOf(b)) <=> Has(queue.requests, FlipsOf(b)) \/ GpuUses(b)
          /\ OnceIn(queue.requests, FlipsOf(b)) /\ ~(Has(queue.requests, FlipsOf(b)) /\ GpuUses(b))
             => OnceIn(queue'.requests, FlipsOf(b))
      BY <2>1, <3>1, PushedHas
    <3>3. ~GpuUses(b)' /\ PresUses(b)' = PresUses(b) /\ FlipsOf(b)' = FlipsOf(b) /\ port' = port
      BY <2>1 DEF GpuUses, PresUses, FlipsOf
    <3>4. Unique(b)
      BY <1>0 DEF SurfaceInv
    <3>5. Unique(b)'
      BY <3>2, <3>3, <3>4 DEF Unique
    <3>6. InUse(b)' = InUse(b)
      BY <3>2, <3>3 DEF InUse
    <3> QED
      BY <3>5, <3>6
  <2>3. SurfaceInv'
    BY <1>0, <2>1, <2>2 DEF SurfaceInv
  <2>4. HeadInv'
    BY <1>0, <1>03, <2>1, <2>2, HeadSame DEF HeadInv
  <2> QED
    BY <2>1, <2>3, <2>4 DEF LabelInv
<1>5. CASE ResumeGfx \/ WaitRegMemSleep \/ Spurious
  <2>1. UNCHANGED <<port, queue, pres, guest>> /\ gpu.at \in {"run", "sleep"} /\ gpu'.at \in {"run", "sleep", "woken"}
    BY <1>0, <1>5, GpuTurnIs
  <2>2. SameUses
    BY <2>1, UsesSame DEF GpuUses, PresUses
  <2> QED
    BY <1>0, <1>03, <2>1, <2>2, LabelSame
<1>6. CASE WaitRegMemPass \/ WaitRegMemYield \/ WaitVoLabel
  <2>1. /\ UNCHANGED <<port, pres, guest>> /\ gpu.at \in {"run", "woken"} /\ gpu'.at \in {"run", "sleep"}
        /\ queue'.requests = queue.requests /\ queue.gfx # <<>>
        /\ queue.gfx[1].next \in {"wait", "poll"}
        /\ \/ queue'.gfx = queue.gfx
           \/ Advanced(queue.gfx, queue'.gfx, "poll")
           \/ Advanced(queue.gfx, queue'.gfx, "write") /\ port.labels[queue.gfx[1].buf] = 0
    BY <1>0, <1>6, WaitIs
  <2>2. SameUses
    BY <2>1, UsesSame DEF GpuUses, PresUses
  <2>3. \/ queue'.gfx[1].next \in {"wait", "poll", "done"}
        \/ queue'.gfx[1].next = "write" /\ port.labels[queue'.gfx[1].buf] = 0
    BY <2>1 DEF Advanced
  <2> QED
    BY <1>0, <2>1, <2>2, <2>3, LabelNewHead
<1>7. CASE WriteData
  <2>1. /\ UNCHANGED <<gpu, pres, guest>> /\ queue'.requests = queue.requests
        /\ port'.prev_index = port.prev_index
        /\ queue.gfx # <<>> /\ queue.gfx[1].next = "write" /\ Advanced(queue.gfx, queue'.gfx, "flip")
        /\ port'.labels[queue.gfx[1].buf] = 1
        /\ \A b \in Buffers : b # queue.gfx[1].buf => port'.labels[b] = port.labels[b]
    BY <1>0, <1>7, WriteDataIs
  <2>2. SameUses
    BY <2>1, UsesSame DEF GpuUses, PresUses
  <2>3. port.labels[queue.gfx[1].buf] = 0 /\ queue.gfx[1].buf \in EopBuffers
    BY <1>0, <1>03, <2>1 DEF HeadInv
  <2>4. ~InUse(queue.gfx[1].buf)
    BY <1>0, <2>3 DEF SurfaceInv
  <2>5. SurfaceInv' /\ \A b \in EopBuffers : InUse(b)' = InUse(b)
    BY <1>0, <1>01, <2>1, <2>2, <2>4, SurfaceSame
  <2>6. queue'.gfx[1].next = "flip" /\ queue'.gfx[1].buf = queue.gfx[1].buf
    BY <2>1 DEF Advanced
  <2>7. HeadInv'
    BY <2>1, <2>3, <2>4, <2>5, <2>6 DEF HeadInv
  <2> QED
    BY <1>0, <2>1, <2>5, <2>7 DEF LabelInv
<1>8. CASE SignalFlip
  <2>1. /\ UNCHANGED <<pres, guest>> /\ gpu.at = "run" /\ queue'.requests = queue.requests
        /\ port'.prev_index = port.prev_index /\ port'.labels = port.labels
        /\ queue.gfx # <<>> /\ queue.gfx[1].next = "flip" /\ Advanced(queue.gfx, queue'.gfx, "done")
    BY <1>0, <1>8, SignalFlipIs
  <2>2. \/ gpu'.req.index = queue.irq[1] /\ gpu'.at = "frame"
        \/ gpu'.at = "unregistered"
        \/ gpu'.at = "queue_full"
        \/ gpu'.at = "out_of_order" /\ port.labels[queue.irq[1]] # 1
    BY <1>0, <1>8, SignalFlipIs
  <2> DEFINE c == queue.gfx[1].buf
  <2>3. c \in EopBuffers /\ port.labels[c] = 1 /\ ~InUse(c)
    BY <1>0, <1>03, <2>1 DEF HeadInv
  <2>4. queue.irq[1] = c
    <3>1. OrderFrom(0)
      BY <2>1 DEF OrderInv, HeadDone
    <3>2. 1 \in DOMAIN queue.gfx /\ 1 > 0 /\ 1 - 0 = 1
      BY <1>03, <2>1
    <3> QED
      BY <3>1, <3>2 DEF OrderFrom
  <2> HIDE DEF c
  <2>5. gpu'.at # "out_of_order"
    BY <2>2, <2>3, <2>4
  <2>6. ASSUME NEW b \in EopBuffers PROVE Unique(b)' /\ (InUse(b)' => InUse(b) \/ b = c)
    <3>1. ~GpuUses(b) /\ (GpuUses(b)' => b = c) /\ PresUses(b)' = PresUses(b) /\ FlipsOf(b)' = FlipsOf(b)
      BY <2>1, <2>2, <2>4 DEF GpuUses, PresUses, FlipsOf
    <3>2. Unique(b)
      BY <1>0 DEF SurfaceInv
    <3>3. CASE b = c
      <4>1. ~Has(queue.requests, FlipsOf(b)) /\ ~PresUses(b) /\ port.prev_index # b
        BY <2>3, <3>3 DEF InUse
      <4> QED
        BY <2>1, <3>1, <3>2, <3>3, <4>1 DEF Unique
    <3>4. CASE b # c
      BY <2>1, <3>1, <3>2, <3>4 DEF Unique, InUse
    <3> QED
      BY <3>3, <3>4
  <2>7. SurfaceInv'
    BY <1>0, <2>1, <2>3, <2>6 DEF SurfaceInv
  <2>8. HeadInv'
    BY <2>1 DEF HeadInv, Advanced
  <2> QED
    BY <2>5, <2>7, <2>8 DEF LabelInv
<1>9. CASE FinishGfx
  <2>1. /\ UNCHANGED <<port, pres, guest>> /\ gpu.at = "run" /\ gpu'.at = "run" /\ TypeOK'
        /\ queue'.requests = queue.requests /\ Popped(queue.gfx, queue'.gfx)
    BY <1>0, <1>9, FinishGfxIs
  <2>2. SameUses
    BY <2>1, UsesSame DEF GpuUses, PresUses
  <2>3. queue'.gfx # <<>> => queue'.gfx[1].next = "wait"
    <3>1. queue'.gfx \in Seq(Tasks)
      BY <2>1, TypeIsNext DEF Queue, Tasks
    <3>2. queue'.gfx # <<>> => 1 \in 1 .. Len(queue'.gfx)
      BY <3>1, EmptyIs
    <3>3. queue'.gfx # <<>> => 2 \in DOMAIN queue.gfx /\ queue'.gfx[1] = queue.gfx[2]
      BY <1>02, <2>1, <3>2 DEF Popped
    <3> QED
      BY <1>0, <3>3 DEF KindInv
  <2> QED
    BY <1>0, <2>1, <2>2, <2>3, LabelNewHead
<1>10. CASE ReceiveRequest
  <2>1. /\ UNCHANGED <<port, gpu, guest>> /\ Popped(queue.requests, queue'.requests)
        /\ queue'.gfx = queue.gfx
        /\ pres.at = "top" /\ pres'.at = "present" /\ pres'.req = queue.requests[1]
    BY <1>0, <1>10, ReceiveRequestIs
  <2>2. 1 \in DOMAIN queue.requests
    BY <2>1 DEF Popped
  <2>3. ASSUME NEW b \in EopBuffers PROVE Unique(b)' /\ InUse(b)' = InUse(b)
    <3>1. ~PresUses(b) /\ (PresUses(b)' <=> queue.requests[1] \in FlipsOf(b))
      BY <1>04, <2>1, <2>2 DEF FlipsOf, PresUses
    <3>2. /\ Has(queue.requests, FlipsOf(b)) <=> Has(queue'.requests, FlipsOf(b)) \/ PresUses(b)'
          /\ OnceIn(queue.requests, FlipsOf(b)) =>
               OnceIn(queue'.requests, FlipsOf(b)) /\ (PresUses(b)' => ~Has(queue'.requests, FlipsOf(b)))
      BY <2>1, <3>1, PoppedHas
    <3>3. GpuUses(b)' = GpuUses(b) /\ FlipsOf(b)' = FlipsOf(b) /\ port' = port
      BY <2>1 DEF GpuUses, FlipsOf
    <3>4. Unique(b)
      BY <1>0 DEF SurfaceInv
    <3>5. Unique(b)'
      BY <3>1, <3>2, <3>3, <3>4 DEF Unique
    <3>6. InUse(b)' = InUse(b)
      BY <3>1, <3>2, <3>3 DEF InUse
    <3> QED
      BY <3>5, <3>6
  <2>4. SurfaceInv'
    BY <1>0, <2>1, <2>3 DEF SurfaceInv
  <2>5. HeadInv'
    BY <1>0, <1>03, <2>1, <2>3, HeadSame DEF HeadInv
  <2> QED
    BY <1>0, <2>1, <2>4, <2>5 DEF LabelInv
<1>11. CASE DrawBlankFrame
  <2>1. UNCHANGED <<port, queue, gpu, guest>> /\ pres.at = "top" /\ pres'.req = pres.req
    BY <1>0, <1>11, DrawBlankFrameIs
  <2>2. pres.req.index = Blank
    BY <1>0, <1>01, <2>1 DEF FrameInv
  <2>3. SameUses
    BY <1>01, <2>1, <2>2, UsesSame DEF GpuUses, PresUses
  <2> QED
    BY <1>0, <1>03, <2>1, <2>3, LabelSame
<1>12. CASE PresentBlank
  <2>1. /\ SamePort /\ UNCHANGED <<gpu, guest>> /\ queue'.requests = queue.requests
        /\ queue'.gfx = queue.gfx /\ pres.at = "blank" /\ pres'.req = pres.req
    BY <1>0, <1>12, PresentBlankIs
  <2>2. pres.req.index = Blank
    BY <1>0, <1>01, <2>1 DEF FrameInv
  <2>3. SameUses
    BY <1>01, <2>1, <2>2, UsesSame DEF GpuUses, PresUses, SamePort
  <2> QED
    BY <1>0, <1>03, <2>1, <2>3, LabelSame DEF SamePort
<1>13. CASE Present
  <2>0. pres.req.frame \in Frames
    BY <1>0, <1>13 DEF FrameInv, Present
  <2>1. /\ UNCHANGED <<port, gpu, guest>> /\ queue'.requests = queue.requests /\ queue'.gfx = queue.gfx
        /\ pres.at = "present" /\ pres'.at = "status" /\ pres'.req = pres.req
    BY <1>0, <1>13, <2>0, PresentIs
  <2>2. SameUses
    BY <2>1, UsesSame DEF GpuUses, PresUses
  <2> QED
    BY <1>0, <1>03, <2>1, <2>2, LabelSame
<1>14. CASE FlipStatus
  <2>1. /\ UNCHANGED <<queue, gpu, guest>> /\ port'.prev_index = port.prev_index /\ port'.labels = port.labels
        /\ pres.at = "status" /\ pres'.at = "label" /\ pres'.req = pres.req
    BY <1>0, <1>14, FlipStatusIs
  <2>2. SameUses
    BY <2>1, UsesSame DEF GpuUses, PresUses
  <2> QED
    BY <1>0, <1>03, <2>1, <2>2, LabelSame
<1>15. CASE ReleaseLabel
  <2>1. /\ UNCHANGED <<queue, guest>> /\ Nudged /\ port'.prev_index = pres.req.index
        /\ \A b \in Buffers : port'.labels[b] = IF b = port.prev_index THEN 0 ELSE port.labels[b]
        /\ pres.at = "label" /\ pres'.at = "top" /\ pres'.req = NoFlip
    BY <1>0, <1>15, ReleaseLabelIs
  <2>2. ASSUME NEW b \in EopBuffers
        PROVE  /\ Unique(b)' /\ (InUse(b)' => InUse(b) /\ port.prev_index # b)
               /\ ~InUse(b) => port'.labels[b] = port.labels[b]
    <3>1. /\ GpuUses(b)' = GpuUses(b) /\ ~PresUses(b)' /\ FlipsOf(b)' = FlipsOf(b)
          /\ port'.prev_index = b <=> PresUses(b)
      BY <2>1 DEF GpuUses, PresUses, FlipsOf, Nudged
    <3>2. Unique(b)
      BY <1>0 DEF SurfaceInv
    <3>3. Unique(b)'
      BY <2>1, <3>1, <3>2 DEF Unique
    <3>4. InUse(b)' => InUse(b) /\ port.prev_index # b
      BY <2>1, <3>1, <3>2 DEF InUse, Unique
    <3>5. ~InUse(b) => port'.labels[b] = port.labels[b]
      BY <1>01, <2>1 DEF InUse
    <3> QED
      BY <3>3, <3>4, <3>5
  <2>3. SurfaceInv'
    BY <1>0, <1>01, <2>1, <2>2 DEF SurfaceInv
  <2>4. \A b \in Buffers : port.labels[b] = 0 => port'.labels[b] = 0
    BY <2>1
  <2>5. HeadInv'
    <3>1. queue' = queue
      BY <2>1
    <3>2. ASSUME queue.gfx # <<>>, queue.gfx[1].next = "write" PROVE port'.labels[queue.gfx[1].buf] = 0
      BY <1>0, <1>01, <1>03, <2>4, <3>2 DEF HeadInv
    <3>3. ASSUME queue.gfx # <<>>, queue.gfx[1].next = "flip"
          PROVE  port'.labels[queue.gfx[1].buf] = 1 /\ ~InUse(queue.gfx[1].buf)'
      BY <1>0, <1>03, <2>2, <3>1, <3>3 DEF HeadInv
    <3> QED
      BY <3>1, <3>2, <3>3 DEF HeadInv
  <2> QED
    BY <1>0, <2>1, <2>3, <2>5 DEF LabelInv, Nudged
<1> QED
  BY <1>1, <1>2, <1>3, <1>4, <1>5, <1>6, <1>7, <1>8, <1>9, <1>10, <1>11, <1>12, <1>13, <1>14, <1>15
     DEF Gpu, PresentThread

\* No buffer is used and no command buffer is queued in the first state.
LEMMA LabelInit ==
  ASSUME Init
  PROVE  OrderInv /\ LabelInv
<1>1. /\ port.prev_index = Blank /\ queue.requests = <<>> /\ queue.irq = <<>> /\ queue.gfx = <<>>
      /\ gpu.at = "run" /\ pres.at = "top" /\ \A t \in Guests : guest.at[t] = "idle"
  BY DEF Init, ClosedPort, Blank
<1>2. OrderInv
  <2>1. ~HeadDone /\ ~Queueing
    BY <1>1 DEF HeadDone, Queueing
  <2>2. Len(queue.irq) = 0 /\ Len(queue.gfx) = 0 /\ DOMAIN queue.gfx = {}
    BY <1>1
  <2>3. OrderFrom(0)
    BY <1>1, <2>1, <2>2 DEF OrderFrom
  <2> QED
    BY <2>1, <2>3 DEF OrderInv
<1>3. ASSUME NEW b \in EopBuffers PROVE Unique(b) /\ ~InUse(b)
  <2>1. b # Blank
    BY Constants
  <2> QED
    BY <1>1, <2>1 DEF Unique, InUse, Has, OnceIn, GpuUses, PresUses
<1> QED
  BY <1>1, <1>2, <1>3 DEF LabelInv, SurfaceInv, HeadInv

\* The invariant of labels, with those it rests on.
FlipInv == SettledInv /\ OrderInv /\ LabelInv

\* FlipInv is inductive.
LEMMA FlipStep ==
  ASSUME Settled, OneRenderer, FlipInv, [Next]_vars
  PROVE  FlipInv'
<1>0. ProgramInv /\ RegInv /\ OrderInv /\ LabelInv /\ SettledInv
  BY DEF FlipInv, SettledInv, BaseInv
<1>1. SettledInv'
  BY <1>0, SettledStep
<1>2. CASE Next
  <2>1. OrderInv'
    BY <1>0, <1>2, OrderStep
  <2>2. CASE \/ Close
             \/ \E bs \in Ranges : RegisterBuffers(bs)
             \/ \E g \in Groups : UnregisterBuffers(g)
             \/ \E t \in Flippers, index \in CpuBuffers \cup {Blank} : SubmitFlip(t, index)
             \/ \E t \in Renderers, b \in EopBuffers : SubmitEopFlip(t, b)
             \/ \E t \in Guests : SendCommand(t) \/ SubmitGfx(t) \/ SubmitCount(t)
    BY <1>0, <1>1, <2>1, <2>2, LabelGuestStep DEF FlipInv
  <2>3. CASE \/ Gpu \/ Spurious \/ PresentThread \/ Open \/ SubmitAsc
             \/ \E rate \in Rates : SetFlipRate(rate)
    BY <1>0, <1>1, <2>1, <2>3, LabelThreadStep DEF FlipInv
  <2> QED
    BY <1>2, <2>2, <2>3 DEF Next, Guest
<1>3. CASE UNCHANGED vars
  <2>1. OrderInv'
    BY <1>0, <1>3, OrderSame DEF vars
  <2>2. SameUses
    BY <1>3, UsesSame DEF vars, GpuUses, PresUses
  <2>3. queue.gfx # <<>> => queue.gfx[1].buf \in EopBuffers
    <3>1. queue.gfx # <<>> => 1 \in DOMAIN queue.gfx
      BY <1>0, Fields, EmptyIs DEF ProgramInv
    <3> QED
      BY <1>0, <3>1 DEF ProgramInv, KindInv, All, EopTasks
  <2>4. LabelInv'
    BY <1>0, <1>3, <2>2, <2>3, LabelSame DEF vars, LabelInv
  <2> QED
    BY <1>1, <2>1, <2>4 DEF FlipInv
<1> QED
  BY <1>2, <1>3

\* FlipInv holds in every state.
THEOREM FlipCorrect ==
  ASSUME Settled, OneRenderer
  PROVE  Spec => []FlipInv
<1>1. Init => FlipInv
  BY FrameInit, RegInit, CountInit, LabelInit DEF FlipInv, SettledInv, BaseInv
<1>2. FlipInv /\ [Next]_vars => FlipInv'
  BY FlipStep
<1> QED
  BY <1>1, <1>2, PTL DEF Spec

\* A command buffer that has passed the wait for its label draws into a buffer that is
\* neither shown nor queued to be shown: a used buffer has its label locked, and the wait
\* found the label free.  The command buffers with a flip come from one thread, and the
\* guest unregisters only buffers that no flip uses.
THEOREM NothingTears ==
  ASSUME Settled, OneRenderer
  PROVE  Spec => []NoTearing
<1>1. ASSUME FlipInv PROVE NoTearing
  <2>1. TypeOK /\ KindInv /\ SurfaceInv /\ HeadInv
    BY <1>1 DEF FlipInv, SettledInv, BaseInv, ProgramInv, LabelInv
  <2>2. SUFFICES ASSUME queue.gfx # <<>>, Head(queue.gfx).next = "write" PROVE ~Used(Head(queue.gfx).buf)
    BY DEF NoTearing
  <2>3. Head(queue.gfx) = queue.gfx[1] /\ 1 \in DOMAIN queue.gfx
    BY <2>1, <2>2, Fields, EmptyIs
  <2>4. queue.gfx[1].buf \in EopBuffers /\ queue.gfx[1].buf \in Buffers
    BY <2>1, <2>3, Constants DEF KindInv, All, EopTasks
  <2>5. port.labels[queue.gfx[1].buf] = 0
    BY <2>1, <2>2, <2>3 DEF HeadInv
  <2>6. ~InUse(queue.gfx[1].buf)
    BY <2>1, <2>4, <2>5 DEF SurfaceInv
  <2> QED
    BY <2>1, <2>3, <2>4, <2>6, UsedIs
<1> QED
  BY <1>1, FlipCorrect, PTL

\* The label that the write of a command buffer locked is still locked when its flip
\* packet runs, and the callback that runs is the one of that command buffer: no flip is
\* out of order, under the conditions of NothingTears.
THEOREM FlipsAreInOrder ==
  ASSUME Settled, OneRenderer
  PROVE  Spec => []FlipInOrder
<1>1. FlipInv => FlipInOrder
  BY DEF FlipInv, LabelInv, FlipInOrder
<1> QED
  BY <1>1, FlipCorrect, PTL

=============================================================================
