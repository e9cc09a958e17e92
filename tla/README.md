# Specifications of the Orbit Console core

Orbit Console runs PS4 programs on other hosts. This directory holds TLA+
specifications of the parts of it where a mistake is hardest to see in a test: the
emulation of the guest kernel's threads and of the objects they synchronise with, the
event queues, the path of a flip from the guest to the screen, and the guest's memory.
Every definition is a translation of code; `PROJECT.json` maps each one to its lines. The modules are checked with TLC on small
instances, and eight of them have theorems, which TLAPS proves for every value of their constants.

## The system and its parts

| Part | State | Operations | Hard parts | What makes it correct |
|---|---|---|---|---|
| pthread mutexes and condition variables (`threads/mutex.cpp`, `condvar.cpp`, `sleepq.cpp`, `pthread.h`, `sync/semaphore.h`) | `m_lock`, `m_owner`, `m_count`, the Deferred flag; the hashed sleep queues; `wchan`, `wake_sema`, `defer_waiters` of each thread | lock, trylock, timed lock, unlock, wait, timed wait, signal, signalto_np, broadcast | wake-ups are deferred to an unlock or made after the queue is unlocked; `m_owner` is read without a lock; timeouts race with signals | exclusion, nesting restored, no wake-up lost, the promise of a monitor |
| thread life cycle (`threads/thread_state.cpp`, `pthread.cpp`, `core/thread.cpp`) | thread list, `gc_list`, spare threads, heap; reference count, flags, joiner and tid of each `Pthread` | create, exit, join, detach, references, collection | a `Pthread` is freed and used again while other host threads hold pointers to it; locks are taken in two orders | one owner, exact references, nothing freed in use, everything collected |
| kernel semaphores (`threads/semaphore.cpp`, `OrbisSem`) | token count, ordered list of waiters, a host semaphore for each waiter | create, wait, poll, signal, cancel, delete | a waiter decides by its own flags after it timed out | tokens conserved, no waiter forgotten or overtaken |
| POSIX semaphores (`threads/semaphore.cpp`, `PthreadSem`) | host semaphore and an atomic count beside it | init, wait, trywait, timedwait, post, getvalue | two counts changed one after the other | the counts agree, no overflow |
| event flags (`threads/event_flag.cpp`) | bits, status, number of waiting threads | create, wait, poll, set, clear, cancel, delete | Cancel waits for its waiters by polling | no missed wake-up, Cancel reaches all and returns |
| read-write locks (`threads/rwlock.cpp`) | host shared mutex and an owner | lock, unlock | unlock decides by `owner` only | exclusion for a guest that unlocks what it locked |
| event queues (`kernel/equeue.cpp`, `kernel/kernel.cpp`) | events, small timers, condition variable; asio timers and the count of requests | add, delete, trigger, wait, poll | one waiter is woken for each trigger; timer callbacks on the service thread, which sleeps when it has no requests; polls without the lock | a triggered event reaches a waiter, a registered timer goes on |
| video output (`videoout/driver.cpp`, `video_out.cpp`, `vk_presenter.cpp`) | port, flip status, request queue, labels, frames | open, close, register buffers, submit flip, present thread | GPU thread, present thread and guest threads; close with flips pending | every accepted flip is shown once and counted once, no buffer is drawn while it is shown |
| guest memory (`core/memory.cpp`) | map of virtual areas, maps of direct and flexible memory, two counters | map, unmap, protect, allocate, free, pool commit and decommit, set type | splitting and merging at the borders, physical areas remembered by virtual ones | the maps, the counters and the host agree, the ASSERTs fail in known cases only |
| GPU command processor (`video_core/amdgpu/liverpool.cpp`) | queues, submit counters | submit, process, commands from other threads | hand-over between threads, waits for idle | every submission is processed, nobody waits for ever |
| Vulkan scheduler (`vk_scheduler`, `vk_master_semaphore`, `vk_resource_pool`) | ticks, pending operations, pooled resources | submit, wait, refresh, commit | results of the GPU arrive late | a resource is used again only when its tick has passed |
| shader recompiler, caches, linker, file system, media, network and UI libraries | | | mostly sequential translation or host I/O | not modelled |

The parts interact by calls. Guest code calls the functions of libkernel on its own
host threads; there is no scheduler, a guest thread is a host thread. A condition
variable uses the mutex of the waiter and the wake semaphore in the waiter's
`Pthread`, which the thread life cycle allocates and frees. Event queues are triggered
by video output, timers and the GPU. A flip crosses three threads: the guest's call, the
GPU thread, which takes it from the command queue or from a callback of a patched
packet and prepares a frame, and the present thread, which shows it and resets the label
that command buffers wait for.

## Modules

| Module | Models | Notes |
|---|---|---|
| `PthreadCond` | mutex, condition variable, sleep queue, wake semaphores | the core; refines `Monitor` |
| `Monitor` | what a mutex and a condition variable promise the guest | abstract specification |
| `ThreadState` | create, exit, join, detach, references, collection | |
| `OrbisSem` | kernel semaphore | |
| `PosixSem` | POSIX semaphore | |
| `EventFlag` | event flag | |
| `Equeue` | one event queue with the kernel service thread and its timers | |
| `VideoOut` | flips: guest threads, GPU thread, frames, present thread | composes `videoout`, `liverpool`, `gnmdriver` and `vk_presenter` |
| `Memory` | virtual areas, direct and flexible memory, memory pools | |
| `...Proofs` | theorems about the module of that name | `PthreadCond`, `ThreadState`, `OrbisSem`, `PosixSem`, `EventFlag`, `Equeue`, `VideoOut`, `Memory` |
| `MC...` | the instances TLC checks | model values and constants only |

In every module a variable has the name of the field it stands for. `pc` says where a
thread is: `"run"` is guest code, every other value is a point inside a call between
two accesses to shared state. Code under one lock that nobody can observe half done is
one step; where the code lets go of a lock, or touches a field without one, the step
ends. `GuestCall` is what the guest may choose to do, `Step` the rest of a call that
has started. A call that returns an error and changes nothing is a stuttering step.
Definitions whose comment starts with "A ... that ..." or "Mutant of", just before the
definition they vary, are faulty versions of it: each property is violated by one of
them, so none of the properties holds by the shape of the model.

**PthreadCond.** `m_owner` and `m_lock` are separate, as in the code: between
`m_lock.lock()` and `m_owner = curthread` (`LockAcquire`, `LockOwn`) and between
`m_owner = nullptr` and `m_lock.unlock()` (`Unlock`, `UnlockRelease`) other threads
run. `Wait` takes the chain lock, gives the mutex up, enqueues (`WaitEnqueue`), flushes
its deferred wake-ups and sleeps (`SleepFlush`, `WakeAll`, `SleepBlock`), and looks at
`wchan` under the chain lock again (`WaitCheck`). `Signal` and `Broadcast` take threads
off the queue and defer their wake-ups or make them after the chain is unlocked
(`Release`). The two arrays of wake-ups are sets; a full one releases what does not
fit (`KeptSets`, `Overflow`). The spin lock of a hash chain is one lock for each
condition variable: sharing a chain only adds exclusion. `depth` is a ghost, the nesting
the guest believes in. Three pcs end the process: `"unreachable"` (UNREACHABLE in
Wait), `"selfdeadlock"` (UNREACHABLE_MSG of a normal mutex locked twice) and
`"badtarget"` (signalto_np of a thread that is not on the queue, which damages it).
The cancellation branch of Wait is left out: nothing sets `cancel_pending`.

**ThreadState.** A `Pthread` object is a slot. Freeing it leaves the memory as it is;
allocating it again clears it. `stale` records the host threads that use a slot
which was freed. `TryCollect` is three steps, because it releases the thread lock to
take the list lock first, and releases the list lock before the thread lock.
`Alloc` compares `total_threads` without a lock, in a step before it (`AllocTest`). A
`memset` and construction of a slot in `Alloc`, with the fields `pthread_create` sets,
is one step; `TcbCtor` and `CreateStack` are taken to succeed; the main thread does not
exit.

**OrbisSem.** `Signal` goes through the list step by step, because the waiters it has
woken run on. A waiter that timed out is at `"relock"`; what it returns is decided by
its flags when it has the mutex. After `DeleteErase` the semaphore is gone and a call
that was in it goes to `"freed"`. Counts are between 1 and `max_count`; the code
checks nothing else about them.

**PosixSem.** One step for each atomic operation, with the load and the
compare-exchange of `sem_post` apart.

**EventFlag.** A section under `m_mutex` is one step. A thread leaves the condition
variable notified, spuriously or with its time over, and then needs the mutex. Set, Clear
and Cancel that find the wrong status poll again, which changes nothing.

**Equeue.** A section under `m_mutex` is one step, and `notify_one`, which comes after the
unlock, another. `m_events` is the vector in its order, since a wait takes the first `num`
triggered events; `Erased` numbers the events that are kept anew. `armed` says that the event's asio timer has a wait; `Expire` ends it
inside `io_context.run()` and queues its handler, which then runs in up to four
sections. The service thread sleeps, runs, and sets `asio_requests` to 0 after `run()` has
returned (`ResetRequests`). Small timers are spun for. The guest polls only while
it makes no other call, because the poll takes no lock.

**VideoOut.** A command buffer is three packets: the wait for the label of its buffer
(`WaitRegMem...`), the write that locks it (`WriteData`) and the patched flip (`SignalFlip`).
`gpu.at` is where the GPU thread is, with `"queue_full"`, `"out_of_order"` and
`"unregistered"` for its ASSERTs. A graphics task is queued and counted in two steps
(`SubmitGfx`, `SubmitCount`), as in the code, so `num_submits` may be one less than zero
for a moment, modulo 2^32. `Flip` of the present thread is three steps: the frame is
freed, the flip is no longer pending, the label of the buffer shown before is reset.

**Memory.** Addresses are pages. A map of areas is a function on pages with the set of pages
at which an area begins, so a split adds a page to the set and a merge takes one away.
`acut` are the borders of the `phys_areas` inside VMAs, which a merge of VMAs keeps. `host`
is what `impl.Map` and `impl.Unmap` have done. An operation holds `unmap_mutex`
throughout and is one step, but for flexible mappings: `MapMemory` compares `flexible_usage`
before it locks (`CheckFlexible`), and maps later (`MapFlexible`) or gives up (`MapRefused`).
Several threads map flexible memory (`Mappers`), so the check of one may be overtaken by the
mapping of another; `stale` remembers that, and `CallsAfter` also lets a thread look while
a fixed mapping has unmapped its range and not yet taken its pages. `MapDirect` has both
values of `validate_dmem`: without it (the default below SDK 2.50 and for stacks, and always after
`sceKernelEnableDmemAliasing`) direct memory that is mapped is mapped again, which
`aliased` remembers. A failed ASSERT ends the process: `torn` is the one of `CarvePhysArea`,
`"aborted"` the one for flexible memory in a call, `abort` any other; the maps are gone
then (`Outcome`). `aliased` and `stale` are read by the properties alone.

With `Careful` the guest releases only direct memory that is allocated or mapped, decommits only
ranges of the pool, and maps nothing over committed pool memory. The code checks none of
this (see the list under Findings). With `Careful = FALSE` TLC finds `TypeOK`, `NoAbort`, `PhysExact`
and `BudgetsExact` violated; the runs and the theorems have it.

## Runs

| Run | Instance | What it shows |
|---|---|---|
| `cond_untimed` | 3 threads, 1 recursive mutex nested up to 2, 1 condition variable, arrays of 1 entry, host semaphores that count to 2; `FairSpec` | `MutualExclusion`, `RecursionRestored`, `DeferredIsFlushed`; without timeouts UNREACHABLE is not reached (`WaitNeverUnreachable`); every wake-up sent ends a sleep (`SignalDelivered`) |
| `cond_timed` | the same with a normal mutex, timed waits and semaphores that hold one token, threads symmetric | `WakeNotLost`, `NoDoubleDefer`, and `RefinesMonitor`: the code implements `Monitor` |
| `cond_unreachable` | as `cond_timed` | **violated**: UNREACHABLE in `PthreadCond::Wait` is reached, see Findings |
| `thread_state` | 3 host threads, 3 slots, collection from 1 dead thread on, 1 spare, at most 3 threads; `FairSpec` | `OwnedOnce`, `RefCountExact`, `NoUseAfterFree`, `JoinProtects`, `Reclaimed` |
| `thread_never_reach` | the same | **violated**: UNREACHABLE at the end of `ExitThread` is reached, see Findings |
| `orbis_sem` | 3 threads of 2 priorities, counts 1 to 3, limit 3, 1 token at first | `NoIdleWaiter`, `ListedExact`, `TokensConserved`, `OrderKept`, `NoOvertaking` |
| `posix_sem` | 3 threads, limit 2, any initial value, threads symmetric | `CountsAgree` |
| `event_flag` | 3 threads, 2 bits, 8 kinds of wait (all, any or one of the bits, each clear mode, with and without timeout), both thread modes; `FairSpec` | `NoMissedWakeup`, `CountExact`, `CancelReachesAll`, `CancelReturns` |
| `video_out` | 1 renderer with 2 buffers, 1 thread that flips a third buffer or a blank one, 2 frames, flip rates 0 and 1, at most 2 flips accepted before one is refused, 1 call of close or unregister | `PendingExact`, `NoTearing`, `FlipInOrder`, `FramesConserved` |
| `video_stall` | the same with blank flips only; `FairSpec` | **violated**: `SleepEnds`, see Findings |
| `equeue` | 2 threads, 1 periodic timer, 1 high resolution timer (large or small), 1 user event, waits for 1 event; `FairSpec` | `NoTriggerUnseen`, `TimerAlive`, `OnlyResetStrands`, `Delivered` |
| `memory` | 3 virtual, 2 direct and 2 flexible pages, 2 memory types, requests of 1 or 2 pages, 2 symmetric threads that map flexible memory, `validate_dmem` true and false, `Careful` | `NoAbort`: the ASSERTs fail in the two known ways only; `HostAgrees`, `PhysExact`, `BudgetsExact` |

The runs of `PthreadCond` (untimed), `ThreadState`, `OrbisSem`, `Equeue` and `Memory` also
check the module's `TypeOK`, which is also proved, as are those of `PosixSem`, `EventFlag`
and `VideoOut`.

*Bounds.* Three threads are the least that give a waiter, a thread that wakes it and
one that interferes (a second waiter, a second signaller, a thread that takes the mutex
in between). The sizes of arrays and thresholds (`MaxDeferWaiters` 50, `GcThreshold` 5,
`MaxCachedThreads` 100, `MaxThreads` 100000) are 1 or 2, so that three threads exceed
them. `MaxCount` stands for `INT_MAX`, `SemaMax` for the limit of the host's
semaphore: 1 on Windows, none that matters elsewhere; both kinds are checked. In
`cond_untimed` only one thread is ever named in signalto_np, which keeps the run short.
Thread symmetry is used in safety runs only. In `video_out` two buffers, one shown and one
drawn, are the least with which a renderer goes on, and two frames the least with which
the GPU thread can be ahead of the present thread; a queue of one entry lets every
thread be at any point of its work on a different flip. In `equeue` two waiters with
three events exceed what one wake-up can take. In `memory` three pages give an area with
neighbours on both sides, and two pages in one request an area that is split. Its constraint
`Explored` leaves out two kinds of states: calls of two threads under way at once while direct
memory is in use, and flexible memory beside direct memory that was mapped twice. Both known
failures are inside it: an ASSERT of `CarvePhysArea` fails after four steps (allocate two pages, map
the first, map both, unmap all), the one for flexible memory after three (a check, its mapping with
another check in between, and the other mapping). The proofs
below need none of these bounds.

*Deadlock* is not checked in the runs of `PthreadCond`, `ThreadState`, `OrbisSem`, `Equeue`,
`VideoOut` and `Memory`: there the process may end at a fault or a failed ASSERT, every thread may wait on an empty
condition variable, semaphore or event queue, and a deleted semaphore admits no more
calls. It is checked in the other two.

*Fairness.* `FairSpec` asks weak fairness of `Step(t)` for each thread: the host
scheduler runs every thread that can run, and a host mutex that stays free is taken. It
asks nothing of the guest: no call has to be made, no mutex to be unlocked, and no
timeout to come first. So `SignalDelivered` speaks of wake-ups whose deferral has ended,
and `Reclaimed` of a guest that makes no further calls. A timeout (`SleepTimeout`) is
among the steps, but the run that uses fairness has none; `Timeout` and `Spurious` of
`EventFlag` are outside `Step`. In `Equeue` the guest's calls under way and the service
thread are fair, while `Expire` is not: nobody owes a timer its end, and a wait without
events may last for ever. In `VideoOut` the GPU thread, the present thread and the
guest's calls under way are fair, and spurious wake-ups are not.

## Findings

1. `PthreadCond::Wait`, UNREACHABLE at `condvar.cpp:145`. T1's timed wait runs out. Before
   T1 has the chain lock, T2's Signal takes T1 off the queue and is preempted between
   `SleepqUnlock` and `waddr->release()`. T1 sees `wchan == nullptr`, returns 0 and
   waits again; its `ClearWake` finds no token yet. T2's release then ends T1's new sleep
   without a timeout while T1 is on the queue. FreeBSD's loop sleeps again at this
   place; the emulator aborts.
2. `ExitThread`, UNREACHABLE at `pthread.cpp:62` ("Never reach!"). A detached thread has put
   itself on `gc_list` and stored `TidTerminated`. Another thread's `pthread_create`
   collects it and allocates the same `Pthread`, whose `native_handle` the memset clears.
   `native_thr.Exit()` of the exiting thread then returns at once. In the same window
   the exiting thread uses a stack and a signal stack that are no longer its own.

3. The GPU thread sleeps for ever, `liverpool.cpp:816`. It waits for the label of the buffer
   that is shown, finds that all submits are graphics and sleeps in `WaitVoLabel`. A
   guest thread calls `sceVideoOutSubmitFlip`; its flip, once shown, would reset the
   label, but `SendCommand` only queues it for the sleeping thread. The comment expects
   the label to be written "when presentation is finished"; the test looks at
   `num_submits` and not at `num_commands`, and `SendCommand` does not wake `vo_cv`.

Seen while modelling, without a run of their own (the run named keeps to the guests for
which the code works, or states what holds in spite of it):

* `kernel.cpp:79`: `asio_requests = 0` after `io_context.run()` forgets a request made since
  `run()` returned, and the timer it was for waits until something else makes a request.
  `OnlyResetStrands` of `equeue` says that no other step does this.
* `equeue.cpp:179`: a poll reads and clears `m_events` without the lock. A level-triggered
  user event (without Clear) with two waiters leaves one blocked although the event stays
  triggered; the run has none (`Levels`). `sceKernelDeleteHRTimerEvent` looks among
  the small timers only if there is any. A queue deleted in use frees what its waiters
  and queued handlers use.
* `video_out.cpp:365`: more than 16 pending flips end the process at an ASSERT of the
  callback. Close with flips on their way counts `flip_pending_num` below zero
  (`Settled`). `DrawBlankFrame` waits for a frame on the thread that frees frames.
  Without a presenter a flip stays counted (`driver.cpp:359`).
* `memory.cpp:526`: `flexible_usage` is compared before the lock, and of two threads that pass
  together one fails the ASSERT at line 647. Line 1555: direct memory mapped twice
  (`validate_dmem` false) and unmapped in parts fails the ASSERT of `CarvePhysArea`, and the first to
  unmap it lets it look Allocated under the other mapping. `NoAbort` and `PhysExact` of `memory`
  say that nothing else goes wrong.
* `memory.cpp:318`: an unchecked release of a range with free parts releases as much behind
  it. Line 407: a commit that needs exactly the budget is refused. Line 803: the validation
  of PoolDecommit stops at an area that reaches beyond the range. Line 344: a release may
  unmap more of a mapping than the range covers. Line 498: a fixed mapping over committed
  pool memory fails an ASSERT. Line 1070: `vma_base` is read after a merge may have
  erased it. Releasing pool memory with Free leaves `pool_budget` as it was.
* Threads: `signalto_np` of a thread that is not on the queue (`condvar.cpp:199`);
  `MaxThreads` compared with `>` (`thread_state.cpp:88`); the affinity set on a thread
  that may be gone (`pthread.cpp:311`); a set count above the limit in Cancel
  (`semaphore.cpp:97`); deletion of an event flag in use; an unlock of a read-write lock by
  a thread that does not hold it (`rwlock.cpp:199`).

## Proofs

`PthreadCondProofs` proves, for all sets of threads, mutexes and condition variables, all
mutex types, array sizes, semaphore limits and nesting limits, with and without timed
waits:

* `InductiveInvariant`: `Spec => []IInv`;
* `TypeCorrect` (`TypeOK`), `MutexSafe` (`MutualExclusion`), `NestingSafe`
  (`RecursionRestored`), `NoLostWakeup` (`WakeNotLost` and `DeferredIsFlushed`),
  `NoLostFlush` (`DeferredIsFlushed`);
* `DeferredOnce` (`NoDoubleDefer`);
* `UntimedWaitReturns` (`WaitNeverUnreachable`) for a guest without timed waits, the
  hypothesis `TimedWaits = FALSE`; with them the property is violated, see Findings;
* `ImplementsMonitor` (`RefinesMonitor`): the code implements `Monitor`.

The assumptions are the ones `PthreadCond` states about its constants: `None` is no
thread, mutex or condition variable, and the bounds are natural numbers, the sizes at
least one. None of the safety properties is inductive by itself. `IInv` adds

* `FrameInv`: a thread inside a call knows its mutex or condition variable;
* `OwnerInv`: who is between the two halves of Lock or of Unlock holds `m_lock`, and
  `m_owner` is null or that of the holder;
* `DepthInv`: what the guest believes of its nesting, at every point of a call; for a
  thread in a wait it is the saved `recurse`;
* `ChainInv`: a thread between `Wait` and `WaitEnqueue` holds the chain of its condition variable;
* `QueueInv`, `WaiterInv`: a queue has no repetitions and holds exactly the threads with
  that `wchan`, which are in the wait and have `mutex_obj` set;
* `FlagInv`: `will_sleep` is set exactly between `Wait` and `SleepFlush`.

`WakeNotLost` then follows action by action: what `Wake` takes off a queue it puts into
`defer_waiters`, into `waddrs` or into a semaphore, `Released` never takes a token away,
and `ClearWake` runs only before a thread is visible on the queue. There is one lemma
for each action, with a step for each conjunct, and a lemma for what `std::erase` and
`push_front` do to a list.

`DeferredOnce` needs a second invariant, `DeferInv`: as long as the thread that deferred a
wake-up is not flushing, it owns the mutex of the waiter, which is marked Deferred, so the
waiter cannot get through the end of its wait and back onto a queue.
`UntimedWaitReturns` needs the converse of `WakeNotLost`, `OneWakeInv`: without
timeouts there is at most one wake-up of a thread, in its semaphore or owed by one thread
in one array, and only for a thread that is off the queue and has not left Sleep. A thread
therefore never leaves Sleep with an old wake-up. Timed waits break exactly this.

`ImplementsMonitor` is the step-by-step part of the refinement. The lemmas `...View` say
what `Promise` shows of a thread at each point of a call. `QuietSteps` and
`SleepSteps` are the steps the guest does not see, `AcquireSteps` is `Acquire` or `EndWait`,
`ReleaseSteps` is `Relinquish` or, inside a wait, `BeginWait`, `CheckSteps` is `Timeout` or nothing,
`AskSteps` is `Ask`, and `SignalSteps` is `Perform`. The point of the proof is
`QueueIsWaiters`: while nobody holds the chain, the threads that wait in `Monitor` are those
on the queue, because a thread that has given up its mutex and is not yet on the queue
holds the chain (`ChainInv`).

`ThreadStateProofs` proves, for any host threads, slots, threshold and limits, `TypeCorrect`
(`TypeOK`), `OneOwner` (`OwnedOnce`), `ReferencesCounted` (`RefCountExact`), `JoinSafe`
(`JoinProtects`) and `NotFreedInUse` (`NoUseAfterFree`). Its `IInv` says that the lists, the
work lists of collectors and the threads under construction are pairwise disjoint and cover
all slots (`OwnerInv`), that a host in a section of the list lock holds it (`ListLockInv`),
what a host thread may assume of the thread it runs on or has found (`ArgInv`, `CurInv`,
`CurOnce`), that the referrers of a slot are finite and as many as its count (`RefInv`),
and that `total_threads` counts the slots that are not in the heap (`TotalInv`).

`OrbisSemProofs` proves, for any threads, priorities and counts and both orders of the
list, `TypeCorrect` (`TypeOK`), `NobodyForgotten` (`NoIdleWaiter`), `ListExact`
(`ListedExact`), `TokensSafe` (`TokensConserved`), `ListOrdered` (`OrderKept`) and the action
property `Overtaking` (`NoOvertaking`). The invariant follows the loop of Signal (`LoopInv`:
what lies before the iterator needs more tokens than there are) and ties the list to the
flags of the waiters (`ListInv`). It is required only while the semaphore exists.
Tokens are counted as a set: each waiter that was granted n tokens contributes n pairs, so
a grant adds pairs as it lowers the count.

`EventFlagProofs` proves `WakeupsReach` (`NoMissedWakeup`), `WaitersCounted` (`CountExact`) and
`CancelComplete` (`CancelReachesAll`) for any threads, bits and modes. The invariant is
their conjunction with the types and the finiteness of the set of waiting threads.

`EqueueProofs` proves, for any threads, events and `num`, `TypeCorrect` (`TypeOK`),
`TimersStayAlive` (`TimerAlive`) and the action property `ResetStrands`
(`OnlyResetStrands`). `TimerInv` strengthens `TimerAlive` for the handler the service
thread has in hand, and for a guest between `AddEvent` and `ScheduleEvent`.
`WakeupsReach` (`NoTriggerUnseen`) has the hypothesis `Levels = {}`, as its run does: every
event has the Clear flag. A level-triggered event with two waiters violates the property,
see Findings. Its invariant (`UnseenInv`) counts: the triggered events are finite
and no more than the threads awake and the notifications under way, as long as somebody is
blocked; a thread that looks takes at least one triggered event, the first (`LeastNat`), or
stops because there are none. `Erased` is shown to number the
kept events one to one and in their order.

`MemoryProofs` proves, for any numbers of virtual, direct and flexible pages, any memory types,
sizes of requests and threads that map, `TypeCorrect` (`TypeOK`), `AssertsHold` (`NoAbort`),
`HostIsExact` (`HostAgrees`), `PhysIsExact` (`PhysExact`) and `BudgetsAreExact` (`BudgetsExact`), each
under the hypothesis `Careful`. Direct memory mapped twice and overlapping calls are
not excluded: `NoAbort` names the two ways in which an ASSERT fails, and `PhysExact` says
what is left of the physical maps once memory was mapped twice. What the properties say of pages is
nearly inductive (`KindInv`, `HostInv`, `UseInv`, `BudgetInv`, the first of which says which
kinds of pages have which backing). A call that has passed its check has room as long as
nobody mapped since (`CallInv`): with `BudgetInv` the free pages are as many as it needs, so the
ASSERT fails in `stale` calls only. The ASSERTs about areas need to know where areas begin:

* `VcutInv`: a VMA has one type, and free VMAs that meet are merged. So an address that
  SearchFree has found, or a range that was just unmapped, is inside one free VMA;
* `PcutInv`: an area of dmem_map or fmem_map has one state;
* `AcutInv`: one of the `phys_areas` of a VMA is contiguous and of one kind and memory type, and,
  unless direct memory was mapped twice, no area of the physical maps begins inside it. This
  is what `CarvePhysArea` asserts.

`AcutInv` is the delicate one, since Free, SetDirectMemoryType and the pool operations cut the
physical maps at other VMAs' pages, and nothing updates the `phys_areas` there. Its last part holds
because a physical page backs only one virtual page (`UseInv`): the ends of what one VMA gives up
cannot lie inside what another one keeps (`PhysEndsIs`, `PhysEndsInside`). Direct memory mapped
twice breaks exactly this, see Findings. The operations are functions on
states, and so are the lemmas: `VcutKept`, `PcutKept`, `AcutKept` and `UseKept` say for any
change of a set of pages what it must satisfy to keep a part of the invariant, and each
operation has one lemma (`...Keeps`) that shows its change to be such a one. `FirstIs` and
`Numbered` are about the pages the allocators take, `Run` about areas as intervals without cuts.

`PosixSemProofs` proves `CountsAlwaysAgree` (`Spec => []CountsAgree`) for any finite set of
threads and any limit. The invariant is `TypeOK /\ CountsAgree`; the argument counts the
calls in flight, one more or one less at each step.

`VideoOutProofs` proves, for any guest threads, buffers, ranges, frames, flip rates and limits
of the queues, `TypeCorrect` (`TypeOK`) and `FramesAreConserved` (`FramesConserved`), whatever the
guest does. `PendingIsExact` (`PendingExact`) and `FlipsAreRegistered` (the group of a buffer is found)
have the hypothesis `Settled`, as their run does: the guest closes the port and unregisters
buffers only when no flip uses them. `Close` resets the counters and `prev_index` and leaves
the requests alone, so with `Settled = FALSE` TLC finds `PendingExact` and `NoTearing`
violated. `NothingTears` (`NoTearing`) and `FlipsAreInOrder` (`FlipInOrder`) also need
`OneRenderer`: one thread submits the command buffers with flips.
`sceGnmSubmitAndFlipCommandBuffers` registers the callback and submits the command buffer in two steps
without a lock, so two such threads may leave callbacks and command buffers in different
orders, and TLC finds both properties violated with two renderers. There are three
inductive invariants, each on top of the one before:

* `BaseInv`: the types; `TaskInv` (the GPU thread sleeps only in the wait of its task);
  `KindInv` (commands are flips of the CPU, callbacks and tasks those of command buffers, and
  only the first task has begun); `FrameInv` (requests have frames); `HeldInv` (a frame is
  in one of four places, and there once);
* `SettledInv` adds `RegInv` (a buffer that a flip uses is registered) and `CountInv`
  (the counters are the numbers of flips in the commands, in the requests and in the
  hands of the threads);
* `FlipInv` adds `OrderInv` (the callbacks are those of the queued command buffers, in
  their order, with one more while a call is between its two steps) and `LabelInv`.

`LabelInv` is the reason for `NoTearing`, which is not inductive. A buffer of command buffers
is used by at most one flip, from its flip packet until the flip after it has been shown, and its
label is locked all that time (`SurfaceInv`); a task that has passed its wait has found the label
free, and one that is past its write has it locked (`HeadInv`). The delicate step is
`ReleaseLabel`, which frees the label of the buffer shown before: because each buffer is used
once, no other flip uses it. The sequences are described by positions and membership
(`All`, `Has`, `OnceIn`, `Count`), with a lemma for what `Append`, `Tail` and the
assignment to the first task do to each; every action is first reduced to what it does
to the fields (the lemmas `...Is`).

Every theorem has the assumptions that its module states about its constants and no other,
but for the hypotheses named above: `TimedWaits = FALSE`, `Levels = {}`, `Settled`,
`OneRenderer` and `Careful`. Each is met by the instance of its run, and TLC shows a violation without it
(of `HostAgrees` without `Careful` it has found none).

Only model-checked: the liveness properties (`SignalDelivered`, `Reclaimed`,
`CancelReturns`, `Delivered`), which are outside the prover's reach. All other properties of
the passing runs are theorems.

## Not modelled

Initialisation and destruction of mutexes and condition variables; the pool of
`SleepQueue` objects; stacks and TLS blocks; scheduling attributes and affinity; guest
signals and exceptions; deletion of an event flag or an event queue in use; the table of
semaphores; time as a quantity (a timeout may come at any moment); `posix_kevent` as a
batch; events of video output and waits for vertical blanks; a missing presenter;
`submit_done`; GPU packets other than the ones of a flip; file, stack and code mappings, the
GPU's copy of the mappings, names, queries and PRT areas of guest memory; its alignment, and the
rule that direct mappings do not merge below SDK 2.00 (`memory.cpp:680`). The present thread writes
a label and wakes the GPU thread for it in one step (`driver.cpp:307-308`; the wait tests the
label under the lock that the wake-up takes, so none is lost in between). `fetch_add` of
`total_threads` and the allocation from the heap are one step; the comparison with
`MaxThreads` is another. The parts of the table above that have
no module: the shader recompiler, linker, file system and media libraries are sequential
translation or host I/O, the others are the plan.

## Plan

1. Model: the Vulkan scheduler and resource pool (no resource used again before its
   tick, deferred operations once and in order); `submit_done` and the waits for idle of
   the GPU command processor; the events of video output, as a composition of `VideoOut`
   and `Equeue`; read-write locks; the pool of sleep queue objects.
2. Abstract specifications worth stating: an event queue as a set of pending events with
   level and edge triggers; the flip queue as a FIFO.
