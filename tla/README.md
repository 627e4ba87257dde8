# Specifications of frameworks/native

This directory holds TLA+ specifications of parts of `frameworks/native`, the
TLC configurations that check them, and TLAPS proofs about them. They follow
what a frame and a key press go through:

* the **BufferQueue** of `libs/gui`, through which everything that is drawn
  passes from a producer to a consumer;
* the **vsync pipeline** of SurfaceFlinger, which tells producers and the
  compositor when to draw;
* the **transactions** of SurfaceFlinger, which put frames and changes of
  layers on the screen together;
* the **InputDispatcher**, which takes keys to the focused window and waits
  for the application to finish them.

Contents

1. [Inventory](#1-inventory) of the repository and what can go wrong in it
2. [Plan](#2-plan)
3. [The models](#3-the-models): state, actions, abstractions
4. [Properties and runs](#4-properties-and-runs)
5. [Where the code and its comments
   disagree](#5-where-the-code-and-its-comments-disagree)
6. [Proofs](#6-proofs)
7. [Not modelled](#7-not-modelled)

To check a run: `tlc -workers 2 -config MCExchange.cfg MCBufferQueue`. To
check the proofs: `tlapm M.tla` for `BufferQueueProofs`,
`BufferQueueSlotProofs`, `BufferQueueLimitProofs`, `VsyncProofs`,
`TransactionsProofs` and `InputProofs`.

## 1. Inventory

| Component | State | Operations | Interacts with | Hard behaviour |
|---|---|---|---|---|
| **BufferQueueCore** `libs/gui` | 64 slots; four slot lists; the queue of items; limits; modes; connection; `mMutex` and two condition variables | helpers that run with `mMutex` held | shared by producer and consumer | every caller changes several of these and must leave them consistent at unlock |
| **BufferQueueProducer** `libs/gui` | callback tickets, dequeue timeout | connect, disconnect, dequeue/request/queue/cancel, attach/detach, limits and modes, allocateBuffers | calls from several threads of an app; calls the consumer's listener | releases `mMutex` to allocate, to wait, and to call back; process death |
| **BufferQueueConsumer** `libs/gui` | none of its own | connect, disconnect, acquire/release, attach/detach, limits, discard | calls from the compositor; calls the producer's listener | drop loop, late releases, waiting for an allocation in mid-call |
| ConsumerBase, GLConsumer, CpuConsumer `libs/gui` | per-slot cache of buffers, abandoned flag | onFrameAvailable, onBuffersReleased, acquire, release | listener and client of a BufferQueueConsumer | the cache has to follow the slots although notifications come late |
| Surface `libs/gui` | per-slot cache, sticky state, frame timestamps | ANativeWindow hooks | client of a BufferQueueProducer | the producer-side cache, same problem |
| StreamSplitter `libs/gui` | outstanding buffers of several outputs | onFrameAvailable, onBufferReleasedByOutput | one input queue, many output queues | a buffer is returned when the last output lets go |
| **SurfaceFlinger** `services` | layer trees (current and drawing), pending states and sync points, transaction flags, displays and their power mode | setTransactionState, handleTransaction, invalidate/refresh, latchBuffer, setPowerModeInternal | consumer of every layer's queue; HWC; vsync | two-phase transactions, deferred transactions that wait for frames of other layers, main thread against binder threads |
| **EventThread**, **DispSync**, **EventControlThread**, **MessageQueue** | connections with pending counts, vsync model, the enable flag on its way to the hardware, messages | requestNextVsync, onVSyncEvent, waitForEventLocked, beginResync, addResyncSample, addPresentFence | hardware vsync, apps through BitTube, the main thread | lost wake-ups, timeouts against a late vsync, a control thread that lags behind |
| **InputTransport** `libs/input` | socket, sequence chains, batches | publish, consume, sendFinishedSignal | InputDispatcher and apps | full sockets, signals out of order, batching |
| **InputDispatcher** `services/inputflinger` | inbound queue, per-connection outbound and wait queues, keys known to be down, focus, ANR timers, injections | notify*, injectInputEvent, dispatchOnce, handleReceiveCallback, setInputWindows | policy, window manager, apps | policy calls without the lock, timeouts against late answers, focus change in mid-key |
| SensorService, SensorDevice | event connections, ack counts, wake lock, batch parameters | enable, disable, threadLoop, sendEvents, ack | HAL, apps over BitTube | wake-lock accounting, full sockets, death of an app |
| libbinder | thread pool, command buffers, references, death recipients | transact, joinThreadPool, linkToDeath | kernel driver | order of reference commands, death against unlink |
| BufferHub, BufferHubQueue, broadcast ring `libs/vr` | shared atomics | post, acquire, release, import | several processes | lock-free state bits, memory order |
| MemoryDealer, Region, VelocityTracker, BlobCache, FrameTracker | sequential data | | | algorithms rather than protocols |
| installd, dumpstate, dumpsys, atrace, lshal, servicemanager `cmds` | files, pipes, a registry | | | I/O |
| EGL/GLES wrappers, Vulkan loader | dispatch tables, objects | | drivers | mostly generated |

The parts in bold are modelled. `PROJECT.json` lists each part with its
sources and what became of it, and under `hazards` every place in the modelled
code that is hard to test, with the properties that are about it.

What makes a BufferQueue correct:

* a slot is in exactly one list, and the list agrees with the slot's state;
* a buffer has one owner, unless it is the shared buffer;
* an item of the queue refers to the slot and the buffer it was queued for, or
  is known to be stale;
* frames come out in the order they went in, and only a droppable newest
  frame, a late frame or a consumer that leaves makes one disappear;
* listeners are called in that order too;
* a producer never sleeps while it could go on, and the buffers the limits
  promise are enough to keep both sides going;
* the number of slots in play is the one the limits say.

What makes the vsync pipeline correct: every request is answered, screen on or
off and with hardware that works or not; nobody sleeps through work; the
hardware interrupts only while someone needs it, and does so when someone
needs it.

What makes transactions correct: a change is drawn, once, in order, not before
the frame it was deferred to; frames and changes that wait for each other do
not wait for ever; a synchronous caller returns when its change is committed.

What makes the dispatcher correct: a window that loses the focus is left with
no key down; an event that was sent is finished once; a window that is blocked
can be released; an injector learns what became of its event, and when.

## 2. Plan

Done: the BufferQueue with its abstract specification, the vsync pipeline, the
transactions and the key path of the InputDispatcher; the proofs of every
safety property that a passing run checks, those of the BufferQueue for the
clients that section 6 names.

Proofs to add next: the slots of the BufferQueue in shared buffer mode (section
6.7 says what is missing).

Parts to model next: `ConsumerBase` and `Surface`, the two buffer caches
composed with `BufferQueue`; `StreamSplitter`; the motion path of the
InputDispatcher (touch targets, split touches, `InputConsumer` batches);
`SensorEventConnection` (wake-lock accounting under full sockets and death);
the state bits of `BufferHub`.

## 3. The models

    BufferSlot > BufferQueueCore > BufferQueueProducer, BufferQueueConsumer
               > BufferQueue > MCBufferQueue,                          FrameStream
                               BufferQueueProofs > BufferQueueSlotProofs
                                                 > BufferQueueLimitProofs
    DispSync > EventThread, HardwareVsync > Vsync > MCVsync, VsyncProofs
    Layer > Transactions > MCTransactions, TransactionsProofs
    InputChannel > InputDispatcher > MCInput, InputProofs

(`A > B`: B extends A.) In all of them a variable whose name starts with `m`
or `s` is the member of that name. One action is one stretch of code that no
other thread can see the middle of: a critical section, or the code between
two of them. Every counter that only exists to keep the instances finite is
named as a bound in its `CONSTANTS`.

**Faulty variants.** Next to some definitions is one marked "Faulty variant":
the same definition with a mistake that is easily made there. No action uses
it. Each property is checked to fail when its variant takes the place of the
original.

### 3.1 BufferQueue

    BufferSlot            BufferState and BufferSlot (BufferSlot.h)
      BufferQueueCore     state, locks, limits, slot lists (BufferQueueCore.cpp)
        BufferQueueProducer   (BufferQueueProducer.cpp)
        BufferQueueConsumer   (BufferQueueConsumer.cpp)
          BufferQueue     the clients; Spec, FairSpec, all properties
            MCBufferQueue       symmetry, for TLC
            BufferQueueProofs   types, order of frames and callbacks, refinement
              BufferQueueSlotProofs    slots, queue, ownership
                BufferQueueLimitProofs   limits and wake-ups
    FrameStream           what a BufferQueue promises about frames

**State.** Every variable whose name starts with `m` is the member of that
name of `BufferQueueCore` (or `BufferQueueProducer` for the tickets and the
dequeue timeout). `mFreeBuffers` and `mQueue` are sequences because their
order matters, the other lists are sets. `mUnusedSlots` is a list in the code,
used at the front; its slots are all cleared, so which of them is taken makes
no difference. `pc`, `outSlot`, `callbackTicket` and `currentFrameNumber` are
where each producer thread is and the locals it carries across an unlock;
`cpc` and `acquireArgs` are the same for the consumer, of which there is one
thread.

**Atomicity.** One action is one critical section of `mMutex`. The calls that
let go of it are cut there:

* `dequeueBuffer`: the connection check; then the loop of
  `waitForFreeSlotThenRelock`, with its two kinds of sleep; then the
  allocation without the lock; then the last section. `dequeueTakesSlot` is
  the path that finds a slot, with and without a new buffer.
* `attachBuffer` and `detachNextBuffer` may first wait for an allocation, and
  go on with what they checked before the wait.
* `allocateBuffers` allocates one buffer at a time without the lock.
* `queueBuffer` leaves `mMutex` with a ticket; the listener is called in the
  critical section of `mCallbackMutex`, when the ticket's turn comes.
* `acquireBuffer` of the shared buffer waits for an allocation in the middle.

Two loops keep the lock but are several steps here, so that TLC shows each
turn: the drop loop of `acquireBuffer` and the `continue` of `dequeueBuffer`.
`MutexFree` keeps everyone else out during those.

`mDequeueCondition.broadcast()` is `Woken`: every sleeper returns to the head
of its loop. `waitTimesOut` is a timed wait that ends, `spuriousWakeup` one
that ends for no reason. `mIsAllocatingCondition` needs no variable: its
waiters are enabled exactly when `mIsAllocating` is false.

A call that fails without effect is not a step. A failing call that leaves
something behind is one: a failed allocation, a rejected crop rectangle, a
rejected buffer when allocation is forbidden. A NULL buffer that is
dereferenced (`dequeueDereferencesNull`, `queueBufferDereferencesNull` for
`BufferQueueProducer.cpp:835`) or a read of `mSlots[-1]`
(`acquireSharedOutOfRange`) is a step to `"crash"`, after which nothing is
promised.

**Data.** A `GraphicBuffer` is an identity; `needsReallocation` is a
nondeterministic choice, so it covers every request a client can make. Fences,
EGL handles, crops, sizes and formats are left out. `Time` is a small set of
time stamps, 0 among them. `mDequeueTimeout` is whether there is one. The
allocator is external: it returns a buffer the queue does not refer to, or
none.

**Clients.** `Ops` is the set of calls the clients make; a run chooses it. The
producer is any number of threads. A call may come whenever the code accepts
it: the guard of `requestBuffer`, `queueBuffer`, `cancelBuffer` and
`detachBuffer` is the code's, `isDequeued` and no more (`OwnedByProducer`).
That includes a late or wrong `releaseBuffer`, a `queueBuffer` of a slot that
another thread dequeued, and disconnects in the middle of a dequeue.

One thing is asked of clients and is visible in `BufferQueue`, not in the
calls: `Named`. A producer names a slot only after some call has returned it,
so never one whose buffer is still being allocated. A producer that guesses
slot numbers can cancel such a slot into `mFreeBuffers` without a buffer, or
queue it and make the server dereference NULL. The pseudo-call `"anySlot"` in
`Ops` lifts the restriction; the run `auto_refresh` has it, and the theorems
of section 6.1 hold with it.

**Bounds.** `MaxFrames` bounds `mFrameCounter`, `MaxShared` how often the
shared buffer is owned at a time; both are guards named in the actions.
Neither appears in an assumption stronger than "a natural number".

### 3.2 Vsync

    DispSync        the model of the display's vsync and its listener (DispSync.cpp)
      EventThread     connections, events and the loop (EventThread.cpp)
      HardwareVsync   enabling, disabling and resyncing, power modes,
                      EventControlThread, HWComposer's flag
        Vsync         the threads; Spec, FairSpec, all properties
          VsyncProofs   theorems

**State and actions.** Six threads meet here. The *main thread* takes a
message (`setPowerModeInternal`, `postComposition`, `updateVrFlinger`, a
hotplug) and works through `todo`, the calls the message makes in the order of
the code, one step each, because each takes a lock of its own (`mHWVsyncLock`,
`EventThread::mMutex`, the lock of EventControlThread). The *hwbinder thread*
brings an interrupt: `onVsyncSampled` is the section of `mHWVsyncLock` that
adds the sample, `onVsyncReturns` is what it does with the answer afterwards.
*EventControlThread* wakes, reads `requested` and calls (`eventControlWakes`,
`eventControlCalls`), under `mStateLock` in the second step. The *DispSync
thread* gathers its callbacks with its mutex and fires them without it.
*EventThread* does one turn of `waitForEventLocked` and `threadMain` per step
(`DispatchVSync`, `DispatchOther`), and sleeps in `"wait"` or `"timedWait"`.
*Clients* make a connection, set a rate, request, read, close their tube and
drop their reference.

**Abstractions.** The device has the sync framework. Phases, periods and the
error are not computed: whether a period is known, how many samples there are
and which of three ranges the error is in is all that decides anything, and a
present fence moves the error anywhere. There is one EventThread, the
applications'; the other two are the same code with fewer clients. A tube is a
bounded sequence. `vsync.count` is kept modulo a common multiple of the rates.
`asked` records for `RequestAnswered` who has a request open. The rate limit
of `resyncWithRateLimit` either lets the call through or not.

**Bounds.** `MaxCalls`, `MaxHotplugs`, `MaxPowerChanges`, `MaxPresents`,
`MaxComposers` count the inputs; interrupts, timeouts and callbacks are not
bounded.

### 3.3 Transactions

    Layer             states, sync points, frames (Layer.cpp, BufferLayer.cpp)
      Transactions    binder threads, MessageQueue, main thread (SurfaceFlinger.cpp)
        TransactionsProofs   theorems

**State and actions.** A binder thread is in `setTransactionState`: it may
wait for an animation transaction (`animWait`), applies its change to the
current state and pushes it, sets the flags, and may wait until
`mTransactionPending` is cleared (`wait`). The main thread receives a vsync
event, then an INVALIDATE: `frameMissed` or `invalidate`, `handleTransaction`,
one `traverseLayer` per layer (`doTransaction` with `applyPendingStates`),
`commitTransaction`, `gatherLayers`, and per layer with a frame `latchBuffer`
and `updateTexImage` or `presentLater`; then a REFRESH. `mStateLock` is held
from `handleTransaction` to `commitTransaction`; binder threads run between
all other steps. Producers queue frames, fences signal and destroyed layers
are destructed at any time.

A layer has **two queues**. `mQueue` is the queue inside its BufferQueue,
`mQueueItems` the shadow copy that BufferLayer makes of it in its callbacks.
`onFrameAvailable` puts a frame at the end of both, `onFrameReplaced` replaces
a droppable last frame in both. `updateTexImage` acquires a frame of `mQueue`,
having dropped any number of frames before it: `latchFrame` then removes items
from the copy up to that frame (`BufferLayer.cpp:484`), `rejectFrame` removes
just one (`BufferLayer.cpp:448`), however many frames were dropped, so that
the copy may hold items that the queue has lost. When the queue has run empty
in this way, `latchNothing` is the NO_BUFFER_AVAILABLE of `acquireBuffer`,
which `updateTexImage` passes on as success. `signaled` says up to which frame
fences have signalled; `droppable` are the frames queued in asynchronous mode,
which `headFenceHasSignaled` calls signalled whatever their fence says.

A **sync point** is one object that two lists name: `mRemoteSyncPoints` of the
layer that waits and `mLocalSyncPoints` of the one that is waited for.
`available` and `applied` are its two flags. Here the objects live in
`syncPoint`, and the lists name their indices: `mRemoteSyncPoints` is a
sequence, `mLocalSyncPoints` a set, whose order of arrival is the order of the
indices. The layers a traversal still has to visit are the set `todo`; the
lowest comes next (`NextLayer`).

**Abstractions.** A state is the number of changes that led to it and whether
it hides the layer. Children, geometry, resizing, displays, sideband streams,
auto refresh and EGL failures are left out;
`latchUnsignaledBuffers` is false. Every queued buffer is due
(`shouldPresentNow` is true), and `PRESENT_LATER` of `updateTexImage` is a
choice. `mLayersWithQueuedFrames` is a set. `queueBuffer`, the callback that
copies the frame and the `signalLayerUpdate` after it are one step:
`updateTexImage` asks for frames up to `mLastFrameNumberReceived`, which the
callback sets, so that a frame which is not yet copied is not acquired
(PRESENT_LATER, which is a choice anyway), and one that is copied can only be
seen earlier than the server was told of it. The
EventThread's answer and `eventReceiver` are one step, which is what
`RequestAnswered` of Vsync is for. A wait may end without reason or by its
timeout of five seconds.

**Bounds.** `MaxFrame` frames per layer and `MaxCalls` calls.

### 3.4 Input

    InputChannel        the sockets and the applications (InputTransport.cpp)
      InputDispatcher   the rest; Spec, FairSpec, all properties
        InputProofs       theorems

**State and actions.** The dispatcher thread is in `pollOnce`, running
commands, or in a call to the policy without `mLock`. `dispatchOnce` is one
turn of `dispatchOnceInnerLocked` with everything it calls under the lock:
taking the next event, asking for the interception, finding the focused
window, the check that the window is ready, the ANR command, enqueueing,
tracking, and publishing until the socket is full. `runCommand` starts the
next command; `policyAnswers` is the code after the policy's return, which
meets whatever has happened meanwhile. `pollCallback` is
`handleReceiveCallback`, with the finished signals or a hangup. Other threads
notify keys, inject (in the three modes, with both waits, spurious ones and
the timeout), set windows, application and mode, and register and unregister
channels. Applications read, finish in any order with either answer, or close.

A connection is a record of its two queues, the state, the blocked flag, and
the `InputState` (mementos of keys that are down, fallback keys). What the
calls under `mLock` change together, the connections, the commands, the
injections, `sNextSeq` and the sockets, is one value, the `World`, so that such
a call is a function from worlds to worlds and calls compose as they do in the
code. `mConnectionsByFd` is in the order of file descriptors, which is no order
of windows: a loop over it takes any (`order`). The loop of
`drainDispatchQueueLocked` is given by its result: each injection loses as many
pending dispatches as the queues held.

**Abstractions.** Keys only: no motions, touch targets, key repeats, monitors,
device resets or configuration changes. The reasons to drop a key that depend
on time or on the user (app switch, stale event, a touch outside) are one
choice. Time is not counted: a timer that is set may be due at any later look.
A publisher loop is one step, since it keeps the lock. `Looper::wake` is part
of the step of the caller. A window has one connection in its life. The
direction of the socket that carries finished signals never fills. An event
that the input filter consumes is no step, since the dispatcher does nothing
with it.

**Bounds.** `MaxKeys` keys of devices, `MaxCalls` calls of the window manager,
`MaxDelays` delays by the policy; `PipeSize` is the room in a socket.

## 4. Properties and runs

| Property | Says |
|---|---|
| **BufferQueue** | |
| `TypeOK` | types, and limits between 1 and their maxima |
| `SlotsConsistent` | `SlotPartition`: every slot in exactly one list, once; `ListsMatchStates`: the list agrees with the slot's state and buffer; `FreeSlotsAreEmpty`: a slot in `mFreeSlots` or `mUnusedSlots` keeps no buffer alive; `OneOwner`: the table of BufferSlot.h |
| `QueueConsistent` | `QueueMatchesSlots`: counts of queued buffers and frame numbers agree with the items that are not stale; `QueuedBufferInSlot`: an item shows the buffer that is in its slot |
| `AllocatedSlotCount` | as many slots in play as `getMaxBufferCountLocked`, while nothing clips the sum of the limits |
| `FramesInOrder` | frame numbers increase along the queue |
| `AcquiredWithinLimit` | at most one acquired buffer over the maximum |
| `NoMissedWakeup` | whoever sleeps would have to go back to sleep |
| `CallbacksInOrder` | tickets in use are consecutive, distinct and in frame order |
| `FoundSlotHasBuffer` | with allocation forbidden, the slot that `dequeueBuffer` finds has a buffer (in no run: it fails, section 5) |
| `ConsumerOwnsAcquired` | no step changes what the consumer holds (an action property) |
| `DequeueReturns` | `dequeueBuffer` returns, whatever the consumer is entitled to keep |
| `QueueReturns` | every `queueBuffer` gets its turn to call back |
| `ImplementsFrameStream` | the queue implements `FrameStream` |
| **Vsync** | |
| `TypeOK` | types; in particular a connection's count is a rate, 0 or -1 |
| `SleepsOnlyWhenIdle` | `threadMain` sleeps without a timeout only when there is no event and nobody waits for vsync |
| `WaitsForARealVsync` | with the screen on, it waits with its listener registered |
| `ScreenStateAgrees` | power mode, `mHWVsyncAvailable` and `mUseSoftwareVSync` agree between messages |
| `EnabledOnlyWhenAvailable` | hardware vsync is not enabled for a display that is off |
| `RequestAnswered` | every `requestNextVsync` is answered, with hardware that works or not |
| `StopsWhenUnwanted` | the listener is removed when nobody is interested |
| `InterruptEnds` | the interrupt does not stay on |
| `ResyncReachesHardware` | what was enabled reaches the hardware (in no run: it fails, section 5) |
| **Transactions** | |
| `TypeOK` | types, and at most one message of each kind |
| `WorkWakesServer` | `FlagsWakeServer`, `FramesWakeServer`, `ChangesAreRevisited`: flags and frames have an INVALIDATE on its way, undrawn changes have their flags |
| `PointsMatchStates` | pending states with a barrier and remote sync points are in step, so that the two error branches of `applyPendingStates` are not reached |
| `NotEarly` | a deferred state waits until its frame is at the head with its fence signalled or droppable, is latched, or will not be shown |
| `ShadowHoldsQueue` | what is in the BufferQueue is the end of the shadow copy, so that latching finds its item and `onFrameReplaced` the right one |
| `ShadowMatchesQueue` | the shadow copy holds nothing else (in no run: it fails, section 5) |
| `DrawnInOrder` | states are drawn in the order they were set, deferred or not (an action property) |
| `UndeferredAtOnce` | a state without barrier is drawn by the next commit (in no run: it fails, section 5) |
| `ReturnsCommitted` | a synchronous caller finds its change drawn, or behind a barrier (an action property) |
| `CallReturns` | every call returns without its timeout |
| `FramesLatched` | every frame leaves the BufferQueue, latched, rejected or dropped, though frames and transactions wait for each other |
| `ChangesDrawn` | every change is drawn |
| **Input** | |
| `TypeOK` | types; the socket holds what fits, no count goes below 0 |
| `NoKeyLeftDown` | a window without focus has no key down once it has read what is on its way |
| `WaitQueueMatchesApp` | each entry of a wait queue is in exactly one place between the socket and the end of its dispatch cycle |
| `BlockedIsReleased` | a blocked window has something left to finish |
| `IdleHasNoWork` | the thread does not sleep on work |
| `DispatchesCounted` | `pendingForegroundDispatches` is exact |
| `ResultKnown` | every injected event gets a result, though no application responds |
| `InjectionReturns` | every `injectInputEvent` returns if the applications respond |
| `FallbacksReleased` | no fallback key stays down (violated, section 5) |

`SlotsConsistent` and `AllocatedSlotCount` are the checks that
`BufferQueueCore::validateConsistencyLocked` makes at run time in debug
builds; here they hold at every unlock of every interleaving, not at the few
of a test.

Runs that pass:

| Run | Instance | What happens in it | Properties |
|---|---|---|---|
| `exchange` | 3 slots, 2 threads, 4 buffers, 2 frames, times 0, 2, 3 | cancel, reallocation, attach and detach on both sides, detachNext, discard, allocateBuffers, present times, dequeue timeouts, spurious wake-ups | `SlotsConsistent`, `QueueConsistent`, `NoMissedWakeup`, `CallbacksInOrder`, `ConsumerOwnsAcquired` |
| `sessions` | 3 slots, 1 thread, 3 buffers, 2 frames | disconnect, consumer disconnect, asynchronous mode, entering and leaving shared mode, setMaxBufferCount, allowAllocation | `SlotsConsistent`, `QueueConsistent`, `FramesInOrder` |
| `limits` | 4 slots, 1 thread, 4 buffers, 1 frame | both limits, async mode, dequeue timeouts, attach on both sides | `TypeOK`, `AllocatedSlotCount`, `AcquiredWithinLimit` |
| `auto_refresh` | 3 slots, 2 threads, 2 buffers, 2 frames | shared mode entered and left, auto refresh, rejected crops, slots named that nobody was given, all three crashes | `ImplementsFrameStream` |
| `liveness` | 3 slots, 2 threads, 2 buffers, 2 frames | connections that may and may not block, an allocator that fails | `DequeueReturns`, `QueueReturns` |
| `vsync_events` | 1 connection, rate 2, tube of 2, 2 calls, modes OFF and NORMAL, 2 power changes, no interrupts | requests, rates and reconnection against screen on and off and timeouts | `TypeOK`, `SleepsOnlyWhenIdle`, `WaitsForARealVsync`, `RequestAnswered`, `StopsWhenUnwanted` |
| `vsync_hardware` | no connection, four modes, 2 power changes, 1 present, 1 composer, 1 hotplug, interrupts | resyncs against power changes, a new composer and a slow EventControlThread | `ScreenStateAgrees`, `EnabledOnlyWhenAvailable`, `InterruptEnds` |
| `deferred_transactions` | 2 layers, one with 2 frames, 1 thread, 2 calls | changes deferred to any frame, destruction, fences, frames that are dropped, replaced, rejected (also after a drop) or late | `WorkWakesServer`, `PointsMatchStates`, `NotEarly`, `ShadowHoldsQueue`, `FramesLatched`, `ChangesDrawn` |
| `synchronous_transactions` | 1 layer, 1 frame, 2 threads, 2 calls | empty and deferring calls, changes without barrier (hiding) behind a barrier, all three modes, timeouts | `TypeOK`, `ReturnsCommitted`, `CallReturns`, `DrawnInOrder` |
| `input_keys` | 2 windows, 1 key, 1 fallback, socket of 1, 2 key events, 2 calls | focus changes, channels that come and go, unhandled keys | `NoKeyLeftDown`, `WaitQueueMatchesApp`, `BlockedIsReleased`, `IdleHasNoWork` |
| `input_injection` | 1 window, 1 injected key, 2 calls, 1 delay | three modes, interception, ANR, freezing, closing | `TypeOK`, `DispatchesCounted`, `ResultKnown`, `InjectionReturns` |

The BufferQueue runs make, beside those listed, the calls connect,
dequeueBuffer, requestBuffer, queueBuffer, acquireBuffer and releaseBuffer.
One run, `fallback_left_down`, looks for a violation; section 5 has it.

**Why these bounds are enough.** BufferQueue: two threads suffice for every
race between two producers; the third party of each race is the consumer.
Three slots let the producer hold one buffer, the consumer one, and one wait
in the queue; the four of `limits` let both limits move up and down. Two frames put two items
in the queue, so that a replacement hits the last of two and a drop the first.
One thread is enough in `sessions`: the second actor there is whoever
disconnects or changes the mode between its critical sections. The times 0, 2
and 3 with a "second" of 1 give timestamps before, inside, on the edge of and
after the window of the drop loop. Vsync: a connection's history does not
depend on other connections; two power changes are off and on again, the
shortest sequence that a control thread can miss. The two runs split the
pipeline at the listener: with interrupts the EventThread sees no more than
with DispSync's callbacks alone. Transactions: two frames let a barrier name
the head frame, a later one, or one that is gone, and a frame be replaced, or
dropped for one that is then rejected; two calls give two states of
one layer or two layers that wait for each other or for themselves. Two
threads with one call each, or one with two, meet at both conditions. Input:
two windows are the old and the new focus. Two key events are a press and a
release, or two presses with the second behind the first in a full socket; a
fallback adds the third entry. Buffers, threads and windows are
interchangeable, so they are symmetric, except where a liveness property is
checked.

**Deadlock** is checked in `exchange`, `limits` and `liveness`. The other runs may
really stop: a consumer that is gone, a crash, or inputs that are used up.

**Choice of calls.** A passing run leaves out the calls with which its
property is known to fail; those are in section 5 or, with a note, among the
hazards: allocation failure with `SlotsConsistent`; overlapping allocations
with a disconnect; a clipped number of slots with `setMaxDequeuedBufferCount`;
detaching after shared mode; auto refresh with `QueueConsistent`. What each
passing run shows therefore holds for producers and consumers that keep to its
calls.

**Fairness.** Each `FairSpec` asks for what the scheduler and the peers give.

* BufferQueue: a thread which is in a call goes on with it (`mMutex` is held
  for short stretches), the consumer acquires what is queued (its listener is
  told of every frame), and it gives one buffer back when it holds more than
  its maximum, which is the contract of `acquireBuffer`. Nothing is assumed
  about the producer between calls, and the consumer may keep its maximum for
  ever.
* Vsync: weak fairness of each thread of SurfaceFlinger. Strong fairness of
  EventControlThread (interrupts take and release `mStateLock` again and
  again, and do not starve it), of a notified or timed-out wait (wake-ups do
  not come faster than 16 ms for ever), and of a sample that is accepted (not
  every interrupt is rejected). Nothing of clients or users. The hardware
  interrupts only if `HardwareWorks`.
* Transactions: the main thread and notified callers run (callers strongly:
  they compete for `mStateLock`), the EventThread answers, fences signal,
  producers queue the frames that were promised, and a frame is not put off
  with `PRESENT_LATER` for ever. The 5 s timeouts are not fair: no property
  needs them.
* Input: the dispatcher's thread, its timers and the policy; a caller of
  `injectInputEvent` that is not asleep. Nothing of the applications:
  `InjectionReturns` names `ApplicationsRespond` as its premise, `ResultKnown`
  does without.

## 5. Where the code and its comments disagree

One run shows a behaviour that a comment rules out. `PROJECT.json` quotes the
lines under `findings`.

| Run | What happens |
|---|---|
| `fallback_left_down` | an unhandled key is restarted as its fallback without going through the tracking of keys; when the focus leaves, nothing cancels it |

The following were found with the model too. Each can be reproduced by
changing the instance as described.

BufferQueue:

* `AllocMayFail = TRUE` and `SlotPartition`: after a failed allocation the
  slot is in `mFreeSlots` and still in `mActiveBuffers`
  (`BufferQueueProducer.cpp:519`).
* `setMaxBufferCount` with `setMaxDequeuedBufferCount` and
  `AllocatedSlotCount`: the first clips the slot count, the second then
  removes slots that were never there (`BufferQueueConsumer.cpp:599`). Limits
  that add up to `NUM_BUFFER_SLOTS` before a non-blocking producer connects
  are clipped too.
* `setMaxAcquiredBufferCount`, 4 slots, and `NoMissedWakeup`: it adds a slot
  and does not wake the producer that waits for one
  (`BufferQueueConsumer.cpp:664`).
* `disconnect`, 2 threads, and `FreeSlotsAreEmpty`: the first of two
  allocations to end clears `mIsAllocating` for both
  (`BufferQueueProducer.cpp:515`).
* `setSharedBufferMode` and `setAutoRefresh`, 2 threads, and
  `QueueMatchesSlots`: `acquireBuffer` counts down a queued buffer that it did
  not take (`BufferQueueConsumer.cpp:246`).
* `BufferQueueConsumer.cpp:82` says "In asynchronous mode the list is
  guaranteed to be one buffer deep"; frames queued before `setAsyncMode(true)`
  are not droppable and make it longer.
* Leaving shared mode while nobody owns the shared buffer forgets
  `mSharedBufferSlot`; the slot stays in `mActiveBuffers`, free, until the
  next disconnect, while `BufferSlot.h:58` calls a FREE buffer "available to
  be dequeued".
* `IGraphicBufferProducer.h:188` promises `NO_INIT` when the producer is not
  connected; `dequeueBuffer` checks this in its first critical section only,
  so a disconnect after it lets a buffer be handed out. Nothing in the queue
  breaks by it, as `sessions` shows.
* `BufferQueueProducer.cpp:414`: "If we are not allowed to allocate new
  buffers, waitForFreeSlotThenRelock must have returned a slot containing a
  buffer." In shared mode a `dequeueBuffer` that allocates makes its slot the
  shared one and lets go of `mMutex` while it has no buffer;
  `allowAllocation(false)` and a `dequeueBuffer` of another thread come in
  between, line 297 returns the shared slot without looking at its buffer, and
  line 419 dereferences a NULL `sp`. With allocation allowed line 434 does the
  same. Checking `FoundSlotHasBuffer` in `auto_refresh` with
  `"allowAllocation"` among `Ops` shows the first, the fired
  `dequeueDereferencesNull` of `auto_refresh` the second. One thread alone
  cannot meet it.

Vsync:

* `DispSync.h:83` says of a resynchronization that it "should be performed
  whenever the display is turned on". When the display is switched off and on
  before EventControlThread looks, that thread sees no change of its flag,
  while `HWComposer::setPowerMode` (`HWComposer.cpp:611`) has disabled the
  interrupt with the display; `mPrimaryHWVsyncEnabled` stays true, so that no
  later `resyncToHardwareVsync` tries again, and no sample comes. Checking
  `ResyncReachesHardware` in the run `vsync_hardware` shows it.
* `DispSync.h:111`: "Once this method returns that callback will no longer be
  called by the DispSync object" of `removeEventListener`. The thread may have
  gathered the call before and make it after. EventThread copes with it.
* `SurfaceFlinger.cpp:1384`: "No explicit locking is needed here" for
  `sLastResyncAttempted`, since EventThread holds a lock; but there are up to
  three EventThreads, each with its own.
* `updateVrFlinger` calls `enableHardwareVsync` (line 1518), which does
  nothing: `resetDisplayState` has made it unavailable just before.
* `DispSync.h:91` says of `setPeriod` that it primes the model "when a display
  is first turned on. It should NOT be used after that."; every resync uses
  it.
* A full tube loses a one-shot request together with the event, as the FIXME
  at `EventThread.cpp:187` fears.

Transactions:

* `SFFakeHwc_test.cpp:875` says of a change without barrier, made while an
  older change of the same layer is deferred, that it "should show up
  immediately since it's not deferred", and lines 881 and 882 expect it on the
  screen; the comment at `Transaction_test.cpp:1760` has the same words.
  `doTransaction` pushes the change behind the deferred state, and
  `applyPendingStates` (`Layer.cpp:943`) stops at the first state whose frame
  is not available, so that the change waits with it. This is what
  `DrawnInOrder` says of the code and `UndeferredAtOnce` of the tests; checking
  the second with `What = {"change", "deferChange"}` shows the difference. `Transaction_test`
  looks at the screen only after the deferred change was triggered.
* `BufferLayer.cpp:446`: "If the buffer has been rejected, remove it from the
  shadow queue". When `acquireBuffer` has dropped frames before the one that is
  rejected (`BufferLayerConsumer.cpp:174` and `:198`), line 451 removes the
  item of the first dropped frame and one count of `mQueuedFrames`; the
  rejected frame's item stays although the BufferQueue is empty. Until the next
  frame is latched every vsync finds a queued frame, acquires nothing and
  composes the old frame again. Checking `ShadowMatchesQueue` in
  `deferred_transactions` shows it; `ShadowHoldsQueue` is what remains true.
* A transaction that is deferred to a droppable frame is applied although the
  frame's fence has not signalled: `headFenceHasSignaled`
  (`BufferLayer.cpp:937`) calls it signalled. `NotEarly` says so.
* `mLocalSyncPoints` is in the order of arrival, and `latchBuffer` looks only
  up to the first later frame: a point for the head frame behind one for a
  later frame is not seen, and its transaction comes one frame late.
* A rejected frame leaves `mCurrentFrameNumber` where it was, so that states
  which wait for it wait for the next frame.
* The fence check is made for the head of the queue, and the drop loop of
  `updateTexImage` may latch a later item whose fence has not signalled.
* After the 5 s timeout one caller clears `mTransactionPending` for all; the
  others return at their next wake-up as if committed.

Input:

* `InputDispatcher.h:213`: the policy is told "that an input channel is
  unrecoverably broken". The command that does so runs after the connection
  has become a zombie and returns at once (`InputDispatcher.cpp:3562`).
* Line 3757 says that the fallback key "cannot change at any other point in
  the lifecycle"; when the policy answers with a fallback on the UP of a key
  for which `AKEYCODE_UNKNOWN` was latched, the event is restarted with that
  code (3815 to 3821).
* A key waits until the focused window has finished its events; after a focus
  change the previous window may still be working on an earlier key, so that
  keys are serialised per window and not, as a reader might expect,
  altogether.

## 6. Proofs

What follows holds for every value of the constants: any number of slots (at
least 3), threads, buffers, frames, connections, layers, windows and calls.
The proofs assume what is named in the modules and nothing else:
`BufferAssumption` (NULL is not a buffer), `CoreAssumption` (at least three
slots, times are naturals and include 0, the bounds are naturals, no API is
called "not connected"), `OpsAssumption`, `DispSyncAssumption`,
`EventThreadAssumption`, `HardwareVsyncAssumption`, `LayerAssumption`,
`TransactionsAssumption` (the parameters have their types),
`ChannelAssumption` and `DispatcherAssumption` (section 6.6). TLC evaluates
them in every run of their models. Every inductive invariant below was an
invariant of TLC runs before it was proved.

All proofs but those about Input have the same plan. A lemma first sorts the
steps by what they do to the state in question, so that the forty or so
actions become a handful of kinds of step; then one lemma per part of the
invariant goes through the kinds.

### 6.1 BufferQueue, for every set of calls (`BufferQueueProofs`)

* `TypeCorrect`: `Spec => []TypeOK`. `TypeOK` is inductive as it stands: it
  includes that a thread which allocates has a slot number in `outSlot`, and
  that the drop loop has a queue to look at. The interesting part is
  arithmetic: `adjustAvailableSlotsLocked` keeps the lists inside `Slot`, and
  the setters' checks keep the limits in range.
* `FramesStayInOrder`: `Spec => []FramesInOrder`.
* `CallbacksStayInOrder`: `Spec => []CallbacksInOrder`. The inductive
  invariant `CallbackInv` adds that the current ticket is not beyond the next
  one and that no frame in a callback is newer than `mFrameCounter`. Without
  the second a new ticket could go to an older frame; without distinct tickets
  two threads would have the turn.
* `BufferQueueImplementsFrameStream`: `Spec => ImplementsFrameStream`.

The last three share the lemma `StepKinds`: a step is a `queueBuffer`, a
callback, or it is quiet, meaning that it touches no ticket and does to
`mQueue` no more than take its first item, mark its items stale, or empty it.
`QueueBufferEffect` says what `queueBuffer` does to the queue; the rest is
about sequences.

### 6.2 BufferQueue, the slots (`BufferQueueSlotProofs`)

These properties fail for some clients (section 5), so each theorem names the
calls for which it holds. `PrivateCalls` says that

* allocations succeed (a failed one leaves its slot in two lists);
* nobody calls `setSharedBufferMode`;
* nobody names a slot that no call returned (`"anySlot"`, section 3.1);
* if the producer disconnects, it has one thread: otherwise the end of one
  allocation hides another (`BufferQueueProducer.cpp:515`);
* a consumer that disconnects does not also attach buffers
  (`consumerAttachBuffer` does not look at `mIsAbandoned`, and the lists of an
  abandoned queue mean nothing).

It leaves everything else free: attach and detach on both sides, all limits,
asynchronous mode, `allocateBuffers`, `discardFreeBuffers`, timeouts, rejected
crops, late and wrong `releaseBuffer` calls. The run `exchange` satisfies it
with two threads, `limits` with all limits.

* `SlotsStayConsistent`: `[]SlotsConsistent`, what
  `validateConsistencyLocked` asserts.
* `QueueStaysConsistent`: `[]QueueConsistent`.
* `AcquiredStaysOwned`: the action property `ConsumerOwnsAcquired`.

The inductive invariant is `SlotInv`, proved in `SlotInvHolds`. Its parts need
each other. `Lists` (the four lists are a partition) is kept because a slot
that moves was where the code believes it to be, which is what `Contents`
says: a slot without an owner is in a free list, and whether it has a buffer
says in which. A slot with an owner and without a buffer is the exception that
dequeueing makes while `mMutex` is free; `Allocations` ties each such slot to
exactly one thread that allocates for it, and `AllocationKnown` says that
`mIsAllocating` is set meanwhile, which is what makes `disconnect` wait.
`QueuedOnce` makes the items that are not stale and the slots in state QUEUED
one and the same. `LeftEmpty` is what remains true of an abandoned queue.
`SlotStep` is the list of the sixteen things a step may do to the slots.

### 6.3 BufferQueue, limits and wake-ups (`BufferQueueLimitProofs`)

* `ConsumerHoldsFew`, under `PrivateCalls`: `[]AcquiredWithinLimit`. The
  invariant `AcquiredBound` adds that inside the drop loop there is still room
  for the buffer that will be returned: the check was made once, before the
  loop, and no turn of it acquires anything.
* `SlotsCounted`, under `PrivateCalls` and `CheckedLimits`:
  `[]AllocatedSlotCount`. `CheckedLimits` says that whoever uses the two
  setters that rely on the sum of the limits uses neither of the two calls
  that clip that sum (section 5). The invariant `Fits` says that then it is
  not clipped. That `adjustAvailableSlotsLocked` moves as many slots as it was
  asked for is a counting argument: the slots it takes are the lowest of a
  list, those of rank at most `delta`, and `LowestCount` counts them.
* `SleepersAreWoken`, under `PrivateCalls` and `AnnouncedCalls`:
  `[]NoMissedWakeup`. `AnnouncedCalls` excludes the changes that the code does
  not announce (hazard at `BufferQueueConsumer.cpp:664`): `allowAllocation`,
  `setMaxAcquiredBufferCount`, and, with a producer that may disconnect in the
  middle of its own call, `setMaxBufferCount` and the connection of a producer
  that must not block. The invariant `WakeInv` says that while a thread sleeps
  it has to (`MustSleep`: what `waitForFreeSlotThenRelock` would find, in
  terms of lists and counts), or `acquireBuffer` is in its drop loop and will
  return a frame (`WillWake`). The second case is needed: the loop frees slots
  in its turns and broadcasts only at its end. `WaitsConnected` and
  `BlocksUnlessAsync` say whose limits can change under a sleeper.

### 6.4 Vsync (`VsyncProofs`)

`TypeCorrect`, `SleepsOnlyWhenNothingToDo`, `TimedWaitHasListener`,
`RecordsOfTheScreenAgree` and `NeverEnabledUnavailable` state the five
invariants of section 4. The inductive invariant is

    IInv == TypeOK /\ Agenda /\ EnabledOnlyWhenAvailable /\ WaitInv

`ScreenStateAgrees` speaks about the moments between two messages of the main
thread. `Agenda` is its generalisation to the moments inside one: for each
list of calls that may still be left, what the finished ones have established.
It is also what bounds the composer's sequence number, which `newComposer`
does not check. `WaitInv` adds `ListenerAgrees` to the two properties about
waiting: EventThread calls its source only when its own record changes, so
that the record has to be right.

### 6.5 Transactions (`TransactionsProofs`)

`TypeCorrect`, `PointsStayMatched`, `DeferredNeverEarly`,
`ShadowEndsWithQueue`, `WorkIsNotForgotten` and the action properties `StatesDrawnInOrder` and `WaitersFindTheirChange`
state all safety properties of section 4. `IInv` has, beside types:

* `LayerInv` and `Owned`: the pending states of a layer are in the order of
  their versions between the drawn and the current one, those with a barrier
  and the remote sync points are in step, and each list names points of its
  own layer. `DrawnInOrder` needs the order of the versions, `NotEarly` the
  owner of a point.
* `FramesInOrder`: in both queues frames are in the order of their numbers and
  after the latched one, and the BufferQueue is the end of the shadow copy
  (`AtTheEnd`), which is `ShadowHoldsQueue`. `NotEarly` needs the order, since
  a point is made available by a comparison with the head of the copy, whose
  fence, or its being droppable, then vouches for every earlier frame. The
  order needs the end: `latchFrame` removes items of the copy until it meets
  the frame it acquired from the queue, and has to meet it.
* `FlagsWakeServer`, `FramesWakeServer`, `FramesAreSeen` and `Revisited`: what
  `WorkWakesServer` becomes in the middle of an INVALIDATE. A layer that was
  visited and is not drawn stands at a barrier; one that is not visited yet is
  still in `todo`; frames that came while others are latched have asked for a
  vsync.
* `WaitersKept`: a caller that waits is answered already, or the flag it waits
  for is still set, or a timeout has cleared it for everyone.

`applyPendingStates` is a loop, a recursive function over its turns in the
model. `AppliedStates` says what the loop computes: it pops the states up to
the first one whose frame is not available, and disposes of their points. The
induction over the turns is made with a set: `Least` says that a set of
numbers that is not empty has a least member, and the turns at which the claim
fails have none.

### 6.6 Input (`InputProofs`)

`InputTypeOK`, `CountedDispatches`, `WaitQueueMatches`, `BlockedReleased`,
`KeysReleased` and `IdleThread` state the six invariants of section 4, for any
finite set of windows, any keys, fallbacks, injectors, socket sizes and numbers
of calls. They assume `ChannelAssumption` and `DispatcherAssumption`: keys,
fallback keys and `AKEYCODE_UNKNOWN` are different codes, a socket has room for
an event, the names for "no window", "no application", "no injector" and "no
fallback" are not names of one, and the bounds are naturals. They follow from `InputInvariant`:

    IInv == TypeOK /\ ThreadOK /\ IdleHasNoWork
               /\ Good(World, Peers, dispatcher.command, {mFocusedWindowHandle}, {})

`Good(s, p, cmd, Q, U)` is a statement about any world `s` and not only about
the variables, so that one lemma per function of the code
(`startDispatchCycle`, `enqueueDispatchEntry`, the cancelations,
`abortBrokenDispatchCycle`, `finishEntry` and so on) says that it takes good
worlds to good worlds, and the proof of an action strings them together. `Q`
are the windows that may have keys down, in `IInv` the focused one: once a
change of focus has cancelled the keys of the old window, it has no mementos
left and the new one takes its place (`Refocus`). `U` are the windows whose
next dispatch cycle is about to start, which are the only ones that may have
an event to send and nothing to wait for. `Good` says:

* `QueuesOK`: the two queues of a connection hold different entries, each older
  than `sNextSeq`. Without it a sequence number would not name an entry, and
  `Dispatches`, which counts numbers, would not count dispatches.
* `PlacesOK`: `WaitQueueMatchesApp`, and no number occurs twice in one place:
  taking the first of two equal ones out of a place would leave the number
  there as well as in the next place.
* `HandOK`: while `doDispatchCycleFinished` is in its call to the policy, the
  entry that it looks up again afterwards is the one it had, if it is there at
  all. This is what the second `findWaitQueueEntry` in the code relies on.
* `BlockedOK` is stronger than `BlockedIsReleased`: a blocked connection has an
  event or a signal outside the dispatcher. An entry of the wait queue alone
  would not do, since its signal may have been taken already, and the callback
  that takes it is what clears the flag.
* `StartedOK`: nothing stays in an outbound queue with an empty wait queue.
* `KeysOK` and `MementosOK`: a key that is down at the application, or will be
  after what is on its way, has a memento, and a window without the focus has no
  mementos. The first speaks of `Key` only and is false for fallback keys,
  which are sent without a memento (section 5); it survives those because
  fallback codes are not in `Key`.
* `UnusedOK`: nothing is on its way to a window before it is registered.
* `Counted`: `DispatchesCounted`, with the sets finite.

`ThreadOK` ties the thread's program counter to its command and its timeout, and
says that a command which waits for the policy is about a key and not about a
fallback. `IdleHasNoWork` is inductive together with it.

The loops over cancelations and over connections are recursive functions of the
number of turns. That they take good worlds to good worlds is proved as in
Transactions, with the least turn at which the claim fails. `KeysAfter` says
which keys are down after a sequence of events without a recursion (the last
event of a key decides); `KeysConcat` and `KeysOne` show that it agrees with
applying the events one by one, as `consume` does.

### 6.7 Only model-checked

* Liveness, since the proof system does not handle fairness:
  `DequeueReturns`, `QueueReturns`, `RequestAnswered`, `StopsWhenUnwanted`,
  `InterruptEnds`, `CallReturns`, `FramesLatched`, `ChangesDrawn`,
  `ResultKnown` and `InjectionReturns`.
* `SlotsConsistent` and `QueueConsistent` in shared buffer mode,
  which the run `sessions` checks and `PrivateCalls` excludes: there a slot
  can have several owners and leave the lists, and the invariant would have to
  follow `mSharedBufferSlot` through every call.
* That `FallbacksReleased` fails (section 5), which is TLC's counterexample.

## 7. Not modelled

Of the BufferQueue: `query`, the sideband stream, generation numbers, frame
timestamps and the occupancy tracker (they read, or keep data that decides
nothing here); `getLastQueuedBuffer` and `getReleasedBuffers` (they read; the
second belongs to the caches of ConsumerBase); `binderDied` beyond the
disconnect that it makes; the process check of `disconnect` with
`DisconnectMode::AllLocal`; the overflow of the 32-bit tickets and of the
64-bit frame counter, which no execution reaches.

Of Vsync: devices without the sync framework, `setRefreshSkipCount`, phase
offsets, the injector's and SurfaceFlinger's own EventThread, and the numbers
of the model. `HWComposer::setVsyncEnabled` does not fail (`HWComposer.cpp:384`
returns without recording the new value when the hardware refuses), and no
SurfaceInterceptor looks for the display of a power change
(`SurfaceFlinger.cpp:3827` to 3832 return when it does not find it).

Of Transactions: displays, layer creation, children and reparenting, geometry
and resizing, sideband streams, auto refresh, screenshots, and composition
itself. `updateTexImage` of a live layer fails only by rejecting the frame: the
EGL errors of `BufferLayer.cpp:455` to `474`, which empty the shadow copy, are
left out. The branch of `onFrameReplaced` that reports an empty queue is left
out because `ShadowHoldsQueue` shows that it is not reached. Every frame is due
(`shouldPresentNow`, `SurfaceFlinger.cpp:2916`).

Of Input: motions (touch targets, split touches, hover, batches and
resampling), key repeat, monitors, the app-switch and stale-event clocks,
device resets, configuration changes and the input filter. The window manager
does not release the channel of a focused window's handle before it takes the
focus away (`InputDispatcher.cpp:2949` finds NULL then, and cancels nothing).
An application sends the finished signal of each event once, for numbers that
it was sent, and the send does not fail (`InputTransport.cpp:266`, 943 to 990).

Of the repository: everything the plan lists for later; `Parcel` and the
interface classes, which marshal; `InputReader`, `EventHub`, sensor fusion and
the velocity tracker, which are numeric or decode; the commands and
`installd`, which are I/O; EGL and Vulkan, which are dispatch to drivers;
headers, feature files and documentation.

The repository has about 264 000 lines of implementation. Most of them are of
these kinds (API headers, generated wrappers, marshalling, parsing, file and
device I/O, numeric code, tests' helpers), so that the models cover a small
share of the lines; they cover the parts in which several threads or processes
have to agree.
