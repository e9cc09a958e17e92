------------------------------ MODULE VideoOut ------------------------------
(***************************************************************************)
(* The flip path of the emulated video output: guest threads that submit   *)
(* flips (videoout/video_out.cpp, gnmdriver.cpp), the GPU command          *)
(* processor that turns them into requests (amdgpu/liverpool.cpp), the     *)
(* presenter's pool of frames (vk_presenter.cpp) and the present thread    *)
(* that shows one request per vertical blank (videoout/driver.cpp).        *)
(*                                                                         *)
(* A command buffer is the wait for the label of its buffer, the write     *)
(* that locks it and the flip packet; what is drawn is left out.  A failed *)
(* ASSERT leaves the GPU thread in a state of its own and stops it.        *)
(***************************************************************************)
EXTENDS Integers, Sequences, FiniteSets, Functions

CONSTANTS
    Renderers,      \* guest threads that submit command buffers with a flip
    Flippers,       \* guest threads that call sceVideoOutSubmitFlip
    EopBuffers,     \* buffers flipped by command buffers
    CpuBuffers,     \* buffers flipped by sceVideoOutSubmitFlip
    Ranges,         \* the ranges of buffers the guest registers
    Groups,         \* indices of groups, MaxDisplayBufferGroups of them
    Frames,         \* present_frames
    Rates,          \* values of flip_rate
    FlipLimit,      \* 16: a flip is refused when more are pending
    MaxQueue,       \* bound: commands, command buffers and compute tasks in a queue
    MaxCalls,       \* bound: calls of Close and UnregisterBuffers
    Modulus,        \* 2^32, the range of num_submits
    Settled         \* the guest closes and unregisters only what no flip uses any more

Buffers == EopBuffers \cup CpuBuffers
Blank == -1
NoFrame == "none"

ASSUME VideoAssumption ==
    /\ Buffers \subseteq Nat /\ EopBuffers \cap CpuBuffers = {}
    /\ Ranges \subseteq SUBSET Buffers
    /\ Groups \subseteq Nat /\ Rates \subseteq {0, 1}
    /\ {FlipLimit, MaxQueue, MaxCalls, Modulus} \subseteq Nat
    /\ Modulus > 2 * MaxQueue + 1 /\ Settled \in BOOLEAN /\ IsFiniteSet(Frames)

VARIABLES
    port,   \* VideoOutDriver::main_port, see Port
    queue,  \* the queues between the threads, see Queue
    gpu,    \* the GPU thread: the flip it submits, and whether it is inside a task
    pres,   \* the present thread and the flip it shows
    guest   \* the guest threads: the buffer of a call under way, and a count of calls

vars == <<port, queue, gpu, pres, guest>>

Guests == Renderers \cup Flippers
Indices == Buffers \cup {Blank}
Crashes == {"out_of_order", "queue_full", "unregistered"}
Flips == [index : Indices, eop : BOOLEAN, frame : Frames \cup {NoFrame}]
NoFlip == [index |-> Blank, eop |-> FALSE, frame |-> NoFrame]

\* vblank is vblank_status.count modulo 2, all that Rates can tell apart; pending and gc
\* are flip_pending_num and gc_queue_num of flip_status.
Port == [is_open : BOOLEAN, flip_rate : Rates \cup {0}, prev_index : Indices,
         slots : [Buffers -> Groups \cup {-1}], groups : SUBSET Groups,
         labels : [Buffers -> 0 .. 1], pending : Int, gc : Int, vblank : 0 .. 1]

ClosedPort == [is_open |-> FALSE, flip_rate |-> 0, prev_index |-> -1,
               slots |-> [b \in Buffers |-> -1], groups |-> {},
               labels |-> [b \in Buffers |-> 0], pending |-> 0, gc |-> 0, vblank |-> 0]

\* requests of the driver, free_queue of the presenter, command_queue of Liverpool (the
\* indices of CPU flips), the one-time subscribers of GfxFlip (the buffers of their
\* callbacks), the graphics queue (each task with its next packet), the number of tasks
\* in the compute queues, and num_submits.
Queue == [requests : Seq(Flips), free : Seq(Frames), commands : Seq(Indices),
          irq : Seq(Buffers), asc : 0 .. MaxQueue, num_submits : 0 .. (Modulus - 1),
          gfx : Seq([buf : Buffers, next : {"wait", "poll", "write", "flip", "done"}])]

Init ==
    /\ port = ClosedPort
    /\ queue = [requests |-> <<>>, commands |-> <<>>, irq |-> <<>>,
                free |-> CHOOSE s \in Bijection(1 .. Cardinality(Frames), Frames) : TRUE,
                asc |-> 0, num_submits |-> 0, gfx |-> <<>>]
    /\ gpu = [at |-> "run", req |-> NoFlip, in_task |-> FALSE]
    /\ pres = [at |-> "top", req |-> NoFlip]
    /\ guest = [at |-> [t \in Guests |-> "idle"], arg |-> [t \in Guests |-> Blank],
                calls |-> 0]

\* The arithmetic of num_submits, a std::atomic<u32>.
u32(n) == n % Modulus

-----------------------------------------------------------------------------
(* Flips on their way                                                      *)

\* The flips that have a record: in the queue, in the GPU thread, in the present thread.
InFlight == Range(queue.requests)
            \cup {r \in {gpu.req} : gpu.at \in {"frame", "push"}}
            \cup {r \in {pres.req} : pres.at # "top"}

Used(b) == port.prev_index = b \/ \E r \in InFlight : r.index = b

\* The flips without one: in a command, a callback, or a call under way.
Awaited == Range(queue.commands) \cup Range(queue.irq)
           \cup {guest.arg[t] : t \in {u \in Guests : guest.at[u] # "idle"}}

-----------------------------------------------------------------------------
(* The port                                                                *)

Open ==
    /\ ~port.is_open
    /\ port' = [port EXCEPT !.is_open = TRUE]
    /\ UNCHANGED <<queue, gpu, pres, guest>>

\* Close resets the port under mutex; it leaves requests alone.
Close ==
    /\ guest.calls < MaxCalls
    /\ Settled => InFlight = {} /\ Awaited = {} /\ queue.gfx = <<>>
    /\ port' = ClosedPort
    /\ guest' = [guest EXCEPT !.calls = @ + 1]
    /\ UNCHANGED <<queue, gpu, pres>>

\* SignalVoLabel: the thread that sleeps in WaitVoLabel looks at its label again.
SignalVoLabel == gpu' = [gpu EXCEPT !.at = IF @ = "sleep" THEN "woken" ELSE @]

FreeGroups == Groups \ port.groups

\* Buffers startIndex .. startIndex + bufferNum - 1 become the first free group.
RegisterBuffers(bs) ==
    /\ port.is_open /\ FreeGroups # {}
    /\ \A b \in bs : port.slots[b] = -1
    /\ LET group_index == CHOOSE g \in FreeGroups : \A h \in FreeGroups : g <= h IN
         port' = [port EXCEPT
           !.groups = @ \cup {group_index},
           !.slots = [b \in Buffers |-> IF b \in bs THEN group_index ELSE @[b]],
           !.labels = [b \in Buffers |-> IF b \in bs THEN 0 ELSE @[b]]]
    /\ SignalVoLabel
    /\ UNCHANGED <<queue, pres, guest>>

UnregisterBuffers(g) ==
    /\ port.is_open /\ g \in port.groups /\ guest.calls < MaxCalls
    /\ Settled => \A b \in Buffers : port.slots[b] = g => ~Used(b) /\ b \notin Awaited
    /\ port' = [port EXCEPT
         !.groups = @ \ {g},
         !.slots = [b \in Buffers |-> IF @[b] = g THEN -1 ELSE @[b]]]
    /\ guest' = [guest EXCEPT !.calls = @ + 1]
    /\ UNCHANGED <<queue, gpu, pres>>

SetFlipRate(rate) ==
    /\ port' = [port EXCEPT !.flip_rate = rate]
    /\ UNCHANGED <<queue, gpu, pres, guest>>

-----------------------------------------------------------------------------
(* Guest threads                                                           *)

Goto(t, at) == guest' = [guest EXCEPT !.at[t] = at]
Begin(t, at, b) == guest' = [guest EXCEPT !.at[t] = at, !.arg[t] = b]

\* sceVideoOutSubmitFlip and the section of SubmitFlip under port_mutex.  A blank flip
\* is never refused.
SubmitFlip(t, index) ==
    /\ guest.at[t] = "idle" /\ Len(queue.commands) < MaxQueue
    /\ index # Blank => (port.slots[index] >= 0 /\ port.pending <= FlipLimit)
    /\ port' = [port EXCEPT !.pending = @ + 1]
    /\ Begin(t, "send", index)
    /\ UNCHANGED <<queue, gpu, pres>>

\* Liverpool::SendCommand from a thread that is not the GPU thread.
SendCommand(t) ==
    /\ guest.at[t] = "send"
    /\ queue' = [queue EXCEPT !.commands = Append(@, guest.arg[t])]
    /\ Goto(t, "idle")
    /\ UNCHANGED <<port, gpu, pres>>

\* sceGnmSubmitAndFlipCommandBuffers: sceVideoOutSubmitEopFlip registers the callback
\* (the GPU thread holds the lock of the subscribers while it runs one), ...
SubmitEopFlip(t, b) ==
    /\ guest.at[t] = "idle" /\ port.slots[b] >= 0 /\ Len(queue.gfx) < MaxQueue
    /\ ~(gpu.at \in {"frame", "push"} /\ gpu.req.eop)
    /\ queue' = [queue EXCEPT !.irq = Append(@, b)]
    /\ Begin(t, "queue", b)
    /\ UNCHANGED <<port, gpu, pres>>

\* ... SubmitGfx puts the command buffer in its queue ...
SubmitGfx(t) ==
    /\ guest.at[t] = "queue"
    /\ queue' = [queue EXCEPT !.gfx = Append(@, [buf |-> guest.arg[t], next |-> "wait"])]
    /\ Goto(t, "count")
    /\ UNCHANGED <<port, gpu, pres>>

\* ... and then counts it under submit_mutex.
SubmitCount(t) ==
    /\ guest.at[t] = "count"
    /\ queue' = [queue EXCEPT !.num_submits = u32(@ + 1)]
    /\ Goto(t, "idle")
    /\ UNCHANGED <<port, gpu, pres>>

\* SubmitAsc of a task without flips, queued and counted.
SubmitAsc ==
    /\ queue.asc < MaxQueue
    /\ queue' = [queue EXCEPT !.asc = @ + 1, !.num_submits = u32(@ + 1)]
    /\ UNCHANGED <<port, gpu, pres, guest>>

-----------------------------------------------------------------------------
(* The GPU thread.  ProcessCommands runs before each packet and each task. *)

\* SubmitFlipInternal up to GetRenderFrame, with its ASSERT on the group of the buffer.
Prepare(index, eop) ==
    gpu' = [gpu EXCEPT
      !.at = IF index # Blank /\ port.slots[index] < 0 THEN "unregistered" ELSE "frame",
      !.req = [index |-> index, eop |-> eop, frame |-> NoFrame]]

ProcessCommands ==
    /\ gpu.at = "run" /\ queue.commands # <<>>
    /\ queue' = [queue EXCEPT !.commands = Tail(@)]
    /\ Prepare(Head(queue.commands), FALSE)
    /\ UNCHANGED <<port, pres, guest>>

\* GetRenderFrame waits until there is a free frame.
GetRenderFrame ==
    /\ gpu.at = "frame" /\ queue.free # <<>>
    /\ queue' = [queue EXCEPT !.free = Tail(@)]
    /\ gpu' = [gpu EXCEPT !.at = "push", !.req.frame = Head(queue.free)]
    /\ UNCHANGED <<port, pres, guest>>

\* The request is queued under mutex.  After commands outside of a task Process goes on
\* to one of the queues without a look at num_submits.
PushRequest ==
    /\ gpu.at = "push"
    /\ queue' = [queue EXCEPT !.requests = Append(@, gpu.req)]
    /\ \E in_task \in IF gpu.in_task THEN {TRUE} ELSE {FALSE, queue.gfx # <<>>} :
         gpu' = [at |-> "run", req |-> NoFlip, in_task |-> in_task]
    /\ UNCHANGED <<port, pres, guest>>

\* Process takes the task at the head of a queue.
InProcess == gpu.at = "run" /\ ~gpu.in_task /\ queue.commands = <<>> /\ queue.num_submits # 0

ResumeGfx ==
    /\ InProcess /\ queue.gfx # <<>>
    /\ gpu' = [gpu EXCEPT !.in_task = TRUE]
    /\ UNCHANGED <<port, queue, pres, guest>>

\* A compute task runs to its end.
RunAsc ==
    /\ InProcess /\ queue.asc > 0
    /\ queue' = [queue EXCEPT !.asc = @ - 1, !.num_submits = u32(@ - 1)]
    /\ UNCHANGED <<port, gpu, pres, guest>>

\* The task is inside ProcessGraphics, before the given packet.
AtPacket(packet) ==
    /\ gpu.at = "run" /\ gpu.in_task /\ queue.commands = <<>>
    /\ Head(queue.gfx).next = packet

\* WaitRegMem on the label of a buffer: the label is 0, ...
LabelFree == port.labels[Head(queue.gfx).buf] = 0

WaitRegMemPass ==
    /\ (AtPacket("wait") \/ AtPacket("poll")) /\ LabelFree
    /\ queue' = [queue EXCEPT !.gfx[1].next = "write"]
    /\ UNCHANGED <<port, gpu, pres, guest>>

\* ... or the thread sleeps in WaitVoLabel if all submits are graphics, ...
WaitRegMemSleep ==
    /\ AtPacket("wait") /\ ~LabelFree /\ queue.num_submits = Len(queue.gfx)
    /\ gpu' = [gpu EXCEPT !.at = "sleep"]
    /\ UNCHANGED <<port, queue, pres, guest>>

\* ... or else it leaves the task, to poll the label whenever the task is resumed.
WaitRegMemYield ==
    /\ \/ AtPacket("wait") /\ queue.num_submits # Len(queue.gfx)
       \/ AtPacket("poll")
    /\ ~LabelFree
    /\ queue' = [queue EXCEPT !.gfx[1].next = "poll"]
    /\ gpu' = [gpu EXCEPT !.in_task = FALSE]
    /\ UNCHANGED <<port, pres, guest>>

\* The condition variable wakes the thread without a signal.
Spurious ==
    /\ gpu.at = "sleep"
    /\ gpu' = [gpu EXCEPT !.at = "woken"]
    /\ UNCHANGED <<port, queue, pres, guest>>

\* A thread that woke looks at the label again.
WaitVoLabel ==
    /\ gpu.at = "woken"
    /\ gpu' = [gpu EXCEPT !.at = IF LabelFree THEN "run" ELSE "sleep"]
    /\ queue' = IF LabelFree THEN [queue EXCEPT !.gfx[1].next = "write"] ELSE queue
    /\ UNCHANGED <<port, pres, guest>>

\* The command buffer locks the surface it is going to flip.
WriteData ==
    /\ AtPacket("write")
    /\ port' = [port EXCEPT !.labels[Head(queue.gfx).buf] = 1]
    /\ queue' = [queue EXCEPT !.gfx[1].next = "flip"]
    /\ UNCHANGED <<gpu, pres, guest>>

\* The patched NOP signals GfxFlip: the oldest callback, with its two ASSERTs, submits
\* its flip.
SignalFlip ==
    /\ AtPacket("flip") /\ queue.irq # <<>>
    /\ queue' = [queue EXCEPT !.irq = Tail(@), !.gfx[1].next = "done"]
    /\ LET b == Head(queue.irq) IN
         IF port.labels[b] = 1 /\ port.pending <= FlipLimit
         THEN /\ port' = [port EXCEPT !.pending = @ + 1, !.gc = @ + 1]
              /\ Prepare(b, TRUE)
         ELSE /\ port' = port
              /\ gpu' = [gpu EXCEPT !.at = IF port.labels[b] = 1 THEN "queue_full"
                                                                 ELSE "out_of_order"]
    /\ UNCHANGED <<pres, guest>>

FinishGfx ==
    /\ AtPacket("done")
    /\ queue' = [queue EXCEPT !.gfx = Tail(@), !.num_submits = u32(@ - 1)]
    /\ gpu' = [gpu EXCEPT !.in_task = FALSE]
    /\ UNCHANGED <<port, pres, guest>>

-----------------------------------------------------------------------------
(* The present thread                                                      *)

NextVblank == (port.vblank + 1) % 2
IsFlipTime == port.vblank % (port.flip_rate + 1) = 0
NoRequest == IsFlipTime => queue.requests = <<>>

\* The oldest request, if it is time to take one.
ReceiveRequest ==
    /\ pres.at = "top" /\ ~NoRequest
    /\ queue' = [queue EXCEPT !.requests = Tail(@)]
    /\ pres' = [at |-> "present", req |-> Head(queue.requests)]
    /\ UNCHANGED <<port, gpu, guest>>

\* Without one a blank frame is drawn while the port is closed, ...
DrawBlankFrame ==
    /\ pres.at = "top" /\ NoRequest /\ IsFlipTime /\ ~port.is_open
    /\ pres' = [pres EXCEPT !.at = "blank"]
    /\ UNCHANGED <<port, queue, gpu, guest>>

\* Mutant of PresentBlank: the frame is not given back.
PresentBlankKept ==
    /\ pres.at = "blank" /\ queue.free # <<>>
    /\ queue' = [queue EXCEPT !.free = Tail(@)]
    /\ pres' = [pres EXCEPT !.at = "top"]
    /\ port' = [port EXCEPT !.vblank = NextVblank]
    /\ UNCHANGED <<gpu, guest>>

\* ... which takes a frame, when there is one, and gives it back, ...
PresentBlank ==
    /\ pres.at = "blank" /\ queue.free # <<>>
    /\ queue' = [queue EXCEPT !.free = Append(Tail(@), Head(@))]
    /\ pres' = [pres EXCEPT !.at = "top"]
    /\ port' = [port EXCEPT !.vblank = NextVblank]
    /\ UNCHANGED <<gpu, guest>>

\* ... or only the count of vertical blanks changes.
EndOfFrame ==
    /\ pres.at = "top" /\ NoRequest
    /\ port' = [port EXCEPT !.vblank = NextVblank]
    /\ UNCHANGED <<queue, gpu, pres, guest>>

\* Flip: Present shows the frame and frees it, ...
Present ==
    /\ pres.at = "present"
    /\ queue' = [queue EXCEPT !.free = Append(@, pres.req.frame)]
    /\ pres' = [pres EXCEPT !.at = "status"]
    /\ UNCHANGED <<port, gpu, guest>>

\* Mutant of FlipStatus: every flip counts as a flip of the GPU.
FlipStatusAllGc ==
    /\ pres.at = "status"
    /\ port' = [port EXCEPT !.pending = @ - 1, !.gc = @ - 1]
    /\ pres' = [pres EXCEPT !.at = "label"]
    /\ UNCHANGED <<queue, gpu, guest>>

\* ... the flip is no longer pending, ...
FlipStatus ==
    /\ pres.at = "status"
    /\ port' = [port EXCEPT !.pending = @ - 1, !.gc = IF pres.req.eop THEN @ - 1 ELSE @]
    /\ pres' = [pres EXCEPT !.at = "label"]
    /\ UNCHANGED <<queue, gpu, guest>>

\* The rest of Flip and of the frame, with the labels that it resets.
Release(bs) ==
    /\ pres.at = "label"
    /\ port' = [port EXCEPT
         !.labels = [b \in Buffers |-> IF b \in bs THEN 0 ELSE @[b]],
         !.prev_index = pres.req.index,
         !.vblank = NextVblank]
    /\ IF bs = {} THEN gpu' = gpu ELSE SignalVoLabel
    /\ pres' = [at |-> "top", req |-> NoFlip]
    /\ UNCHANGED <<queue, guest>>

\* Mutants of ReleaseLabel: all labels are reset, or prev_index is stored too early.
ReleaseLabelAll == Release(Buffers)
ReleaseLabelLate == Release({pres.req.index} \ {Blank})

\* ... and the buffer shown before it is released.
ReleaseLabel == Release({port.prev_index} \ {-1})

-----------------------------------------------------------------------------
Gpu == \/ ProcessCommands \/ GetRenderFrame \/ PushRequest \/ ResumeGfx \/ RunAsc
       \/ WaitRegMemPass \/ WaitRegMemSleep \/ WaitRegMemYield \/ WaitVoLabel
       \/ WriteData \/ SignalFlip \/ FinishGfx
PresentThread == \/ ReceiveRequest \/ DrawBlankFrame \/ PresentBlank \/ EndOfFrame
                 \/ Present \/ FlipStatus \/ ReleaseLabel
Guest(t) == SendCommand(t) \/ SubmitGfx(t) \/ SubmitCount(t)

Next ==
    \/ Gpu \/ Spurious \/ PresentThread
    \/ \E t \in Guests : Guest(t)
    \/ \E t \in Flippers, index \in CpuBuffers \cup {Blank} : SubmitFlip(t, index)
    \/ \E t \in Renderers, b \in EopBuffers : SubmitEopFlip(t, b)
    \/ Open \/ Close \/ SubmitAsc
    \/ \E bs \in Ranges : RegisterBuffers(bs)
    \/ \E g \in Groups : UnregisterBuffers(g)
    \/ \E rate \in Rates : SetFlipRate(rate)

Spec == Init /\ [][Next]_vars

\* The GPU thread and the present thread run, and calls under way go on.
FairSpec ==
    /\ Spec
    /\ WF_vars(Gpu) /\ WF_vars(PresentThread)
    /\ \A t \in Guests : WF_vars(Guest(t))

-----------------------------------------------------------------------------
(* Properties                                                              *)

\* The state of the port, the queues and the threads has its type.
TypeOK ==
    /\ port \in Port /\ queue \in Queue
    /\ gpu \in [at : {"run", "sleep", "woken", "frame", "push"} \cup Crashes,
                req : Flips, in_task : BOOLEAN]
    /\ pres \in [at : {"top", "present", "status", "label", "blank"}, req : Flips]
    /\ guest \in [at : [Guests -> {"idle", "send", "queue", "count"}],
                  arg : [Guests -> Indices], calls : 0 .. MaxCalls]

\* The flips that count as pending inside the GPU thread and the present thread.
GpuPending == gpu.at \in {"frame", "push", "unregistered"}
PresentPending == pres.at \in {"present", "status"}
One(b) == IF b THEN 1 ELSE 0

\* flip_pending_num and gc_queue_num, which sceVideoOutIsFlipPending and the limit of
\* the flip queue read, count each accepted flip once from SubmitFlip to Flip, wherever
\* it is between the guest, the command queue, the GPU thread, requests and Flip.
PendingExact ==
    /\ port.pending = Len(queue.requests) + One(GpuPending) + One(PresentPending)
                      + Len(queue.commands) + Cardinality({t \in Guests : guest.at[t] = "send"})
    /\ port.gc = Cardinality({i \in DOMAIN queue.requests : queue.requests[i].eop})
                 + One(GpuPending /\ gpu.req.eop) + One(PresentPending /\ pres.req.eop)

\* A command buffer that has passed the wait for its label and has not locked the buffer
\* yet draws into a buffer that is neither shown nor queued to be shown.
NoTearing ==
    queue.gfx # <<>> /\ Head(queue.gfx).next = "write" => ~Used(Head(queue.gfx).buf)

\* "Out of order flip IRQ": the label that the write of a command buffer locked is still
\* locked when its flip packet runs, whatever the present thread releases in between.
FlipInOrder == gpu.at # "out_of_order"

\* Where a frame is.
Places(f) ==
    ({"free"} \X {i \in DOMAIN queue.free : queue.free[i] = f})
    \cup ({"requests"} \X {i \in DOMAIN queue.requests : queue.requests[i].frame = f})
    \cup {x \in {<<"gpu", 0>>} : gpu.at = "push" /\ gpu.req.frame = f}
    \cup {x \in {<<"present", 0>>} : pres.at = "present" /\ pres.req.frame = f}

\* Each frame of the presenter is in one place: free, in a request, or in the hands of
\* the GPU thread or the present thread.  One that got lost would block GetRenderFrame.
FramesConserved == \A f \in Frames : Cardinality(Places(f)) = 1

\* "the emulator will write to the label when presentation is finished": the GPU thread
\* does not sleep for ever on a label while a flip that would release it is queued.
SleepEnds == (gpu.at = "sleep" /\ queue.commands # <<>>) ~> (gpu.at # "sleep")
=============================================================================
