# A verification project for the NT kernel core

The repository holds the sources of an NT kernel (`src/ntos`), a copy of the NTFS
driver and a vendored copy of WebKit. This project is about the kernel, and in it
about the parts everything else waits on: the **dispatcher** of `src/ntos/ke` with the
queue object under I/O completion ports and worker threads, its timers and device
queues, and three services built on them: executive resources, the starting and
cancelling of IRPs, and local procedure calls. TLC checks the modules on small
instances; TLAPS proves their safety properties for any number of threads, objects and
messages. In one place the code does not do what its comments demand, and in another it
does less than they suggest: see "Findings".

## 1. Inventory

| Component | State | Operations | Interacts through |
|---|---|---|---|
| Queue object (`ke/queueobj.c`) | entry list, SignalState, CurrentCount, MaximumCount, wait list, member list | insert, remove, rundown, activate a waiter | called by every wait routine and by thread exit; entries go straight to a waiting thread |
| Dispatcher waits (`ke/wait.c`, `waitsup.c`) | wait blocks, wait status, wait mode, WaitNext | wait for one / several objects, delay, KiWaitTest, KiUnwaitThread | shared object headers, the dispatcher lock |
| Events, semaphores, mutants (`ke/eventobj.c`, `semphobj.c`, `mutntobj.c`) | SignalState, wait list, owner, Abandoned, ApcDisable | set, pulse, reset, clear, release | KiWaitTest; KeClearEvent without the lock |
| Threads (`ke/thredobj.c`) | Alerted, mutant list, Queue, WaitReason, State | initialise, alert, test alert, rundown, terminate, suspend, resume | APCs, reaper |
| APCs (`ke/apcsup.c`, `i386/ctxswap.asm`) | two lists per thread, pending flags, KernelApcDisable | queue, deliver | interrupt; breaking a wait |
| Timers and DPCs (`ke/timersup.c`, `timerobj.c`, `dpcsup.c`) | timer table, DPC queues | set, cancel, expire | unwaits threads; drops the lock for DPCs |
| Reaper (`ps/psdelete.c`) | PsReaperListHead, PsReaperActive | PspReaper | one work item in a worker queue |
| Worker threads (`ex/worker.c`) | worker queues, dynamic thread counts | loop, create dynamic threads, deadlock detection | queue object |
| Device queues (`ke/devquobj.c`), packets of the I/O manager (`io/iosubs.c`) | Busy, list, CurrentIrp; Cancel and CancelRoutine of an IRP | insert, remove; start, start next, cancel | StartIo, DPC and cancel routines of drivers; the cancel spin lock |
| Scheduler (`ke/thredsup.c`, `balmgr.c`) | ready lists, priorities, quantum, stack residency | ready, preempt, swap | every wakeup |
| Resources (`ex/resource.c`) | owner table, counts, waiters | acquire, convert, release | events and semaphores of the dispatcher |
| Object manager (`ob/`, `ex/handle.c`) | reference and handle counts, handle entries | look up, reference, dereference | deferred deletion |
| LPC (`lpc/`) | ports, message queues, reply ids | request, reply, listen, close | semaphores, thread exit |
| Run-time for file systems, log file service (`fsrtl/`, `lfs/`) | oplock states, lock trees, log pages | grant, break; write, flush, restart | IRP completion; crash recovery |

The remaining directories (memory and cache manager, the rest of the I/O manager, PnP,
registry, security, run-time library, file systems) are listed in `PROJECT.json` as not
modelled; section 6 says why.

What makes it hard: several processors and interrupts enter these routines at any
moment; a wait can end in five ways (object, timer, alert, user APC, kernel APC), and
a kernel APC makes it *start again*; locks are dropped inside loops (to let an APC in);
`KeClearEvent` takes no lock, nor does the clock interrupt when it looks at the timer
table; a queue counts its active threads in one routine and un-counts them in four
others; resources and LPC decide under their own lock and signal after it, and a
waiter may give up, exit or be answered in between; an IRP can be cancelled while it
is queued, being started or nearly complete. The components are correct if no wakeup is lost, no
object is taken twice or halfway, lists and counters agree with what the threads do,
nothing is left undelivered, and everything that waits is served. `PROJECT.json`
("hazards") gives each danger at its line with the property that covers it.

## 2. Modules

| Module | What it is |
|---|---|
| `KeQueue` | the queue object with those parts of the dispatcher, APC delivery, thread exit and reaper that change its state |
| `WorkQueue` | what a set of queues promises to those who queue work; `KeQueue` implements it |
| `KeQueueProofs` | theorems about `KeQueue`: types, counts, no stranded work |
| `KeQueueWorkProofs` | theorems about the entries of `KeQueue`: lists, signal state, reaper, the refinement of `WorkQueue` |
| `KeWait` | waits, KiWaitTest, events, semaphores, mutants, alerts, APCs that end waits, rundown |
| `ExResource` | executive resources: acquire, convert, release, owner pointers, waits that time out and boost |
| `RWLock` | what a resource promises its callers; `ExResource` implements it |
| `KeTimer` | timer objects, the timer table, the clock interrupt, the expiration DPC and its batches, changes of the system time |
| `KeDeviceQueue` | device queues and the IRPs that IoStartPacket, IoStartNextPacket and IoCancelIrp pass through them |
| `Lpc` | requests, datagrams, callbacks, replies, thread exit, and the closing and deletion of the three ports of an LPC connection |
| `KeWaitProofs`, `ExResourceProofs`, `KeTimerProofs`, `KeDeviceQueueProofs`, `LpcProofs` | theorems about these components |
| `ListProofs` | lemmas about lists that name each element once: insertion and removal at a position, at the head and the tail |
| `MCKeQueue`, `MCKeWait`, `MCExResource`, `MCKeTimer`, `MCKeDeviceQueue`, `MCLpc` | constants for TLC |

### KeQueue

Variables are the fields of `KQUEUE` (`entries`, `signal`, `count`, `maximum`,
`waiters`, `members`), those of `KTHREAD` that the code reads (`queue`, `reason` =
WaitReason is WrQueue, `status`, `timer`, `kernelApc`, `userApc`) and `pc`, the place
of the thread. Every routine runs under the dispatcher lock, so a locked section is one
action; where the lock is held across two actions (`loop`, `term`) `Unlocked` keeps
the others out.

* `KeRemoveQueue` is cut where the code is: joining the queue (`KeRemoveQueue`); the
  loop, with one action per way out of a locked section (`...Take`, `...Apc`,
  `...Return`, `...Wait`); the return from KiSwapThread (`KiSwapThreadApc`,
  `...Woken`); the relock of lines 553-555 (`...Relock`). APC routines run at `apc`,
  where they may wait (`KeWait`) and insert; they come back to `retry` or `ready`.
* `KeInsertQueue(c, ...)` names the *current* thread `c`, because KiInsertQueue declines
  the hand-off when that thread is coming back from a wait on the same queue. A DPC
  may interrupt any running thread, or the idle thread.
* `KeWait`/`KeWaitDone` are waits on any other object, seen from the queue.
* `KeTerminateThread` enters the reaper list and queues the reaper's work item;
  `PspReaper` runs in whichever thread removed it. A reaped thread object can be used
  again (`KeInitializeThread`, in zeroed memory as its comment demands). Terminating
  does not clear Thread->Queue; the model keeps that, and the properties show it is
  harmless.
* `KeRundownQueue` is enabled only when no thread is inside KeRemoveQueue on the queue:
  it runs from IopDeleteIoCompletion, when the last reference is gone.

Left out: priorities and boosts, quantum, the choice of processor, what a time-out
interval is (a timer may expire at any moment, or have expired on insertion), the
signalling of the thread object at exit.

### KeWait

`signal`, `waitList`, `owner`, `abandoned` are the objects; `call` is the wait of a
thread, `result` its WaitStatus. The routines are again locked sections, with one
exception: because `KeClearEvent` stores SignalState with no lock, the scan of
KiWaitTest is one action per wait block (`KiWaitTestStep`, the lock being held while
`scan.obj # NoObject`). A signal with Wait = TRUE leaves the thread at `next` with the
lock held, until its wait. The three wait routines are one loop (`KeWait...`): a delay
is a wait for no object with a timeout. LONG is `MINLONG..MAXLONG` with MINLONG a
constant, so that overflow of a semaphore and the recursion limit of a mutant are
reached with two or three bits.

Assumed, as by the callers: the objects of one wait are distinct; KeRundownThread is
not called with a kernel mutex held (the code stops the system); a kernel mutex is
not released with Abandoned = TRUE; KeSetEventBoostPriority is used on events whose waiters
wait for them alone (its own comment). APC routines run in one step here; APCs that
themselves wait are in `KeQueue`. KernelApcInProgress is not modelled.

### ExResource

`active`, `exclusive`, `owners` (OwnerThreads and the owner table), the two waiter
counts, the semaphore and the event are the fields of `ERESOURCE`. A section under the
resource's spin lock is one action. The code signals *after* dropping that lock, so a
grant and its signal are separate actions, and so are the two places where a granted
thread writes its owner entry late: `StoreOwner` (an exclusive grant leaves the owner
pointer at 1, `Granted`, until the thread runs) and `Relock`
(ExAcquireSharedWaitForExclusive). Waits time out (`Timeout`); the thread then takes the
dispatcher lock and walks the owner table, one action per entry
(`ExpBoostOwnerThread`), into its next wait, while the others release, exit and hand
ownership to a pointer.

Assumed, as by the callers: a thread with shared access does not wait for exclusive
access (it would wait for itself), and a thread releases what it holds before it exits.
Left out: contention counters, the list of all resources and the query routines.
ResourceIndex is a hint for the search of the owner table and does not change its
result. ActiveCount is a SHORT and the counts of waiters are USHORTs (`inc/ex.h:2289`,
`2295-2296`); the model has natural numbers, which are the same as long as a resource has
no more than 32767 owners or waiters.

### KeTimer

`table` is the wheel of lists in due-time order, `expireDpc` the hand that the clock
passes to the expiration DPC. The clock interrupt looks at the table without a lock: it
reads the first entry of a list (`ReadFirst`), then the high half of that timer's due
time (`CompareHigh`) and, if the halves are equal, the low half (`CompareLow`), and
other processors may change the timer before each of them; `look` is what it has read. A time has
two halves, of `LowSize` values the lower. Likewise an insertion is three actions (read the
time, link, read the time again), and
`KiTimerExpiration` one to read the time, one to read the tick count (`HandLimit`) and one
for each timer or list of its scan, as is `KeSetSystemTime` (`RemoveAbsolute`,
`ReinsertAbsolute`): the interrupt may come between any two. `KiTimerListExpire` drops
the lock after each batch of DPCs with expired timers still in its local list, where
other processors may find and cancel them. Processor 0 takes the interrupt, runs the
expiration DPC and sets the time, as the code arranges it; the others set and cancel timers.
In the uniprocessor build (`Multiprocessor` FALSE) nothing else happens inside the clock
interrupt (`Interruptible`). Memory is sequentially consistent, and the memory of a
cancelled timer is not freed while the interrupt looks at it. The two halves of a due
time are stored at once; the order in which the code stores them and the interrupt reads
them has no other outcome.

Left out: SignalState and the waiters of a timer (KiWaitTest is in `KeWait`),
KiAdjustInterruptTime, DPC importance, the DPC queue of another processor beyond the
fact that a DPC waits there.

### KeDeviceQueue

The device queue is `Busy`, `list` and each entry's `Inserted`; each of its routines
holds its spin lock and is one action or part of one. Around it, `disp`, `io`, `canc` and
`next` say how far IoStartPacket, the driver's StartIo, its cancel routine and
IoStartNextPacket are for each IRP, because all may run at once on different
processors. The cancel spin lock is held across actions, and only where the code
takes it. The driver is external and follows the protocol that the comments in
`iosubs.c` demand: StartIo takes the cancel lock, looks at Cancel, clears the cancel
routine; a cancel routine removes the entry of an IRP that is not current, or starts
the next packet. Whether it uses keys, and which IRPs it can cancel, is chosen in Init.

Each IRP is sent once. (A driver that calls IoStartNextPacketByKey and is sent new
IRPs for ever can leave those with low keys waiting; `IrpCompletes` does not speak of
that case.) IoAllocateController, which uses device queues the same way, is not
modelled.

### Lpc

One connection: the client port, the server port it is connected to, and the connection
port. `Handles` says which of them each thread can use. A message over the client port or
the connection port goes to the queue of the connection port, one over the server port
to the queue of the client port (`QueuePort`); its sender waits on the chain of the port
at the other end or, over the connection port, of that port itself (`RundownPort`).
Sections under LpcpLock are actions; every KeReleaseSemaphore follows its section as an
action of its own, so a thread that was answered may meanwhile exit, be torn out of its
wait or see the port deleted. A thread may answer any thread and any message id, whether
it received that message or not: nothing but the code's own comparison protects a
waiting thread.

A call references its port (`LpcpReferencePortObject`) until it returns, and
NtRequestPort references the port it queues at; the other pointers between ports are not
references, except those to the connection port. A port goes through the stages of `port`:
the connection port's last handle is closed (`LpcpClosePort`); the last reference goes and
PORT_DELETED is set, under LpcpLock (`ObDereferenceObject`); the client port tells the
server (`SendPortClosed`, `SignalPortClosed`); LpcpDestroyPortQueue disconnects the other
end, wakes the threads on the chain and frees messages and semaphore (`LpcpDeletePort`).
A semaphore that is released after it was freed is only counted; what its memory has become is
not modelled, `SignalExists` says that it happens.

Left out: connecting, unconnected ports, data information, the zone messages are allocated
from, impersonation, the event of a waitable port. Assumed: a thread whose wait is broken by
termination makes no further request (no debug port, see below). `MaxId` bounds the
message ids, which wrap after 2^32 requests in the code; a wrapped id that meets an old
reply is not modelled.

## 3. Runs

| Run (cfg) | Instance | Properties |
|---|---|---|
| `queue_two` (`MCKeQueue.cfg`) | 2 threads (one a worker), 2 queues, maximum 1, waits with and without timeout, in both modes, polls at APC_LEVEL | TypeOK, CountExact, ListsExact, TimerOnlyInWait, ExitBreaksWait, NoStrandedWork, ReaperScheduled, EntriesDelivered, DispatchWithinMaximum |
| `queue_live` (`MCKeQueueLive.cfg`) | 2 threads, 1 queue, maximum 1, fair | EntryServed, ThreadReaped |
| `wait_signal` (`MCKeWaitSignal.cfg`) | 3 threads, two kinds of event and a semaphore, WaitAny and WaitAll, 3-bit LONG | TypeOK, NoLostWakeup, WaitBlocksExact, AllOrNothing |
| `wait_mutant` (`MCKeWaitMutant.cfg`) | 2 threads, semaphore, mutant, mutex, special and normal kernel APCs, 2-bit LONG | NoLostWakeup, MutantOwned, ApcDisableExact, ApcNotLost, AbandonReported |
| `wait_alert` (`MCKeWaitAlert.cfg`) | 2 threads, one event and delays, alerts in both modes, special, user and exit APCs | AlertNotLost |
| `wait_live` (`MCKeWaitLive.cfg`) | 3 threads, one mutex, fair | MutantGranted |
| `resource` (`MCExResource.cfg`) | 3 threads, 1 owner pointer, recursion up to 2, every kind of acquisition | TypeOK, OwnersExact, GrantsExact, BoostSafe, ImplementsRWLock |
| `resource_live` (`MCExResourceLive.cfg`) | 3 threads, no recursion, no ExAcquireSharedStarveExclusive, fair | WaiterServed |
| `timer` (`MCKeTimer.cfg`) | 2 timers with DPCs, one of them targeted, each set to a relative time, an absolute one and an absolute one that has passed, with and without a period; a table of 2 lists, batches of 1, interrupt time up to 6, several processors | TypeOK, TimersExact, DpcNotLost, MissedOnlyByReset |
| `device_queue` (`MCKeDeviceQueue.cfg`) | 3 IRPs, two of them with the same key, any of them cancelable, fair | TypeOK, OneOwner, CompletedGone, IrpCompletes |
| `lpc` (`MCLpc.cfg`) | 1 client thread, 1 server thread with the server port and the connection port, 4 message ids | TypeOK, ReplyMatches, NobodyStranded, NotDeletedInUse |
| `lpc_signal` (`MCLpcSignal.cfg`) | as `lpc`, 2 message ids | SignalExists, **violated** |

Why the bounds are enough for the cases that matter: two queues let a thread change
queues and a queue be run down and reused under a blocked member; a maximum of 1 with
two threads makes the limit bite and leaves a waiter over; the
reaper's item is queued, taken and queued again; three waiters of different kinds on
the same objects give a scan a satisfied, an unsatisfied and a later block; two and
three bits put the overflow and recursion limits within reach. In these two modules no
counter needs a further bound: counts are bounded by the threads, SignalState by Limit and
MINLONG.

In the others: three threads on a resource give an owner, a waiter of each sort and one
that comes in between grant and signal, and make the owner table grow; `MaxCount` bounds
recursion only. A table of two lists makes the hand of the clock wrap and two timers
share a list, a clock increment smaller than the tick gives interrupts within a tick,
`BatchSize` 1 makes the lock drop between any two timers; `MaxTime` ends the clock after
three interrupts, which is more than a turn of the wheel; `LowSize` 4 puts the due times on
both sides of a carry between the halves. Three IRPs are one current, one queued and one
arriving. In `Lpc` four ids, which bound the requests of both threads together, are an
old request and a new one with callbacks or datagrams over the three ports in between, and
the message by which a client port announces its end. More threads, maximum counts above 1,
larger batches and longer times are left to the theorems of section 5, which have no
such bounds.

Deadlock checking is off where a system may really stop: `wait_mutant`, `wait_live`,
`resource`, `resource_live` (all threads may have exited) and the runs of `Lpc` (threads exit, or the
ids are used up).

All runs pass but `lpc_signal`, which shows a finding. Every property of a passing run has a
mutant of the model, a plausible slip in one routine, that violates it.

### Findings

* **A semaphore is released after it was freed** (`lpc_signal`). A server thread calls
  NtRequestWaitReplyPort over its communication port: the message is queued at the client
  port, LpcpLock is dropped (`lpcsend.c:995`), and the semaphore of that queue is released
  at `1024`. NtRequestPort references the queue's port over the same stretch, "to prevent this
  port evaporating under us" (`lpcsend.c:295-298`); NtRequestWaitReplyPort does not, so
  the client port may be deleted and its semaphore freed in between. For a queue that is the
  connection port's the connected ports keep it in being; what holds for datagrams is
  `NotDeletedInUse`.

* **A due timer can be passed over on a multiprocessor.** Timers x1 and x2
  are in one list and due. The clock interrupt reads x1 as the first of the list
  (`clockint.asm:230`); another processor sets x1 again, which takes it from the list and
  gives it a later due time; the interrupt then reads that due time (`233`, `236`), finds x1
  not expired and moves on. x2 waits until the hand has come round, or until a later DPC
  covers its list. The "N.B." at `timersup.c:235` says that the order of an insertion avoids
  the race with the clock interrupt: it does for the timer that is inserted. The run
  `timer` and the theorem `RaceCorrect` show that nothing else goes wrong: this stale look is the
  only way a list comes to hold a missed timer (`MissedOnlyByReset`). `NoMissedExpiry`, which says
  that no timer is missed, is a theorem for the uniprocessor build (`ExpiryCorrect`); made
  an invariant of `MCKeTimer.cfg` it is violated within seconds by the steps above.

### What the checks taught us

None of the following violates anything the code or its comments promise.

* KiInsertQueue can leave an entry queued beside an idle waiter although the count is
  below the maximum (the current thread's WaitReason is still WrQueue until line
  531). `NoStrandedWork` says what holds instead: some thread of the queue is then
  active, and it will either look at the queue or activate a waiter when it blocks.
  An entry inserted later may be handed over directly and overtake the queued one, so
  a queue is not first-in first-out across its threads.
* With a maximum of 1 and an endless supply of kernel APCs, two waiters can be broken
  out of their waits in turn, each going back to wait because the other counts as
  active, with an entry queued all the time. `EntryServed` therefore assumes that
  kernel APCs are finite in the end.
* A kernel APC makes a thread that waits for a mutant queue again, at the tail.
  `MutantGranted` is checked without APCs for that reason.
* ExAcquireSharedStarveExclusive earns its name, and a thread that acquires recursively may
  hold a resource for ever: `WaiterServed` is checked without both.
* An LPC port that is deleted wakes the threads on its reply chain, but a thread in
  NtReplyWaitReplyPort is put on no chain: it is not woken and waits until it is
  answered or terminated. `NobodyStranded` speaks of the threads that are on a chain.
* A server thread that requests or calls back over the *connection* port is on that port's own
  chain. The deletion of the client port does not wake it: a reply, termination, or
  the close of the connection port's last handle does. If it referenced the port before
  that close and sends after it, no close is left to wake it, and its own
  reference keeps the port from being deleted; it waits for a reply or termination.
* A thread that is answered and torn out of its wait at the same moment leaves a unit in
  its LPC semaphore, whose limit is 1. It is harmless when the thread exits at once. With a debug
  port DbgkExitThread (`ps/psdelete.c:796-803`) sends one more request before
  LpcExitThread (`ps/psdelete.c:1106`); the model assumes there is none.
* Two remarks in `lpc/` name other status codes than the code returns: threads woken by
  LpcpDestroyPortQueue get STATUS_LPC_REPLY_LOST, not STATUS_PORT_DISCONNECTED; a
  reply that matches no waiting thread is refused with STATUS_REPLY_MESSAGE_MISMATCH, not
  queued as LPC_LOST_REPLY. Status codes are not in the model.

## 4. Fairness

`KeQueue!FairSpec`: a thread that can go on does so in the end (its processor is not
taken from it for ever, its APC routines and its other waits return, it gets the spin
lock it asks for). Strong fairness, because the lock, APCs and waits disable a step
for a while. A worker thread comes back to its queue, as the loop of ExpWorkerThread
does. Assumed of the environment: kernel APCs stop in the end. Insertion at the head,
which no code in the tree uses, is left out there, since it can starve the rest.

`KeWait!FairSpec`: as above for the wait loop and the scan; and the owner of a mutant
gives it up in the end, which is up to the callers and is stated as an assumption.

`ExResource!FairSpec`: a thread inside a routine goes on, and an owner releases in the
end (which is up to the callers). Weak fairness is enough: TLC finds no behaviour in
which such a step is switched on and off for ever. `WaiterServed` further assumes that a wait
does not time out for ever.

`KeDeviceQueue!FairSpec`: a processor that is inside IoStartPacket, StartIo, a cancel
routine or IoStartNextPacket goes on, and the device finishes the IRP it was given.
Nothing is assumed of those who send or cancel IRPs.

`KeTimer` and `Lpc` state safety only. What their liveness would rest on (a clock that
ticks for ever; programs that answer) is bounded in one and not promised in the other.

## 5. Proofs

The theorems hold for every value of the constants that satisfies the ASSUMEs of the
component's module: finite sets of threads, objects, IRPs and owner pointers of any size, and
values that stand for "none" that are none of the others. They cover every safety
property of the passing runs.

| Module | Theorem | Statement |
|---|---|---|
| `KeQueueProofs` | `TypeCorrect`, `CountCorrect`, `NoWorkStranded`, `TimerCancelled` | `Spec => []` TypeOK, CountExact, NoStrandedWork, TimerOnlyInWait |
| `KeQueueWorkProofs` | `ListsCorrect`, `ReaperCorrect`, `ExitCorrect` | `Spec => []` ListsExact, ReaperScheduled, ExitBreaksWait |
| | `WithinMaximum` | `Spec => DispatchWithinMaximum` (an action property) |
| | `Delivered` | `Spec => EntriesDelivered` (`KeQueue` implements `WorkQueue`) |
| `KeWaitProofs` | `TypeCorrect`, `NoneOverslept`, `WaitBlocksCorrect`, `OwnersCorrect` | `Spec => []` TypeOK, NoLostWakeup, WaitBlocksExact, MutantOwned |
| | `ApcDisableCorrect`, `ApcsDelivered`, `AlertsHeeded` | `Spec => []` ApcDisableExact, ApcNotLost, AlertNotLost |
| | `AllTaken`, `AbandonCorrect` | `Spec =>` AllOrNothing, AbandonReported (action properties) |
| `ExResourceProofs` | `TypeCorrect`, `OwnersCorrect`, `GrantsCorrect`, `BoostCorrect` | `Spec => []` TypeOK, OwnersExact, GrantsExact, BoostSafe |
| | `Refinement` | `Spec => ImplementsRWLock` (`ExResource` implements `RWLock`) |
| `KeTimerProofs` | `TypeCorrect`, `TimersCorrect`, `DpcCorrect` | `Spec => []` TypeOK, TimersExact, DpcNotLost |
| | `RaceCorrect` | `Spec => MissedOnlyByReset` (an action property) |
| | `ExpiryCorrect` | `~Multiprocessor => (Spec => []NoMissedExpiry)` |
| `KeDeviceQueueProofs` | `TypeCorrect`, `OwnerUnique`, `CompletedUnused` | `Spec => []` TypeOK, OneOwner, CompletedGone |
| `LpcProofs` | `TypeCorrect`, `RepliesMatch`, `NoneStranded`, `PortsHeld` | `Spec => []` TypeOK, ReplyMatches, NobodyStranded, NotDeletedInUse |

Each module also states its inductive invariant as a theorem (`Invariance`,
`WorkInvariance`), from which the others follow. There is one lemma per action and,
under it, one step per conjunct of the invariant that the action can disturb.

### KeQueue

Assumed: finitely many threads; maximum counts positive; the reaper's queue exists;
entries are not status codes. The inductive invariant of `KeQueueProofs` is
`Inv == TypeOK /\ Shape /\ CountExact /\ NotStranded`.

* `Shape` ties the lists to the threads: a thread inside KeRemoveQueue belongs to a
  queue, and only one that runs an APC, or waits in one, has somewhere to return to
  (`Located`); the member lists match Thread->Queue, and no live thread refers to a
  queue that was run down (`Associated`); wait lists name each waiter once, and only
  threads that wait there (`WaitListsOK`); timers run only in waits
  (`TimerOnlyInWait`); the reaper's list holds terminating or dead threads, once each
  (`ReaperListOK`), so reaping never touches a counted thread.
* `CountExact` is not inductive without it: KiActivateWaiterQueue and KiInsertQueue
  raise the count for the thread at the end of a wait list, which must be one that was
  not counted and belongs to that very queue.
* `NotStranded` strengthens `NoStrandedWork`: the lock-free states are not enough,
  since one thread's locked section may leave *another* queue unsettled. It therefore
  speaks of each queue that no thread at `loop` or `term` is about to leave or look at
  (`Settled`), whoever holds the lock.

`KeQueueWorkProofs` adds where the work is. Every entry is in one place (`OnePlace`),
the reaper's item is queued to its own queue only, and nothing is in a queue that was
run down (`QueuesLive`), the item is in use exactly while the reaper is active (`ReaperExact`),
a thread has an entry in its wait status only where KeRemoveQueue put it (`HandsOK`),
whoever dies is in the reaper's list (`ReaperListed`), and whoever waits is in a wait
list (`WaitersListed`, the half of ListsExact that `Shape` did not need). Every action
is shown to be one of six kinds of step on the work - nothing, queue, hand over, take,
finish, discard a queue - each of which keeps the invariant and *is* a step of
`WorkQueue` or a stutter. `DispatchWithinMaximum` falls out of the same cases: only a
hand-over and a removal give a thread an entry, and both look at the count first.

### KeWait

Assumed: finitely many threads and objects, objects that are no status codes, distinct
objects in one wait, and a LONG of at least two bits (`MINLONG < -1`). Calls, alerts,
APCs, mutexes and limits are arbitrary. The invariant `Inv`:

* `LockOK`: the dispatcher lock is held by one thread (at `loop`, at `next` after a signal
  with Wait = TRUE, or in rundown) or by a scan of KiWaitTest, which may be made on behalf
  of a thread in rundown and then returns to it.
* `BlocksOK`: WaitBlocksExact, with "one wait block" said as "the list names each thread
  once"; `StatusOK`: the status of a wait that is not over is no object, so that a change of
  it to an object is a satisfied wait.
* `NoneOver` is NoLostWakeup while the lock is held. In the middle of a scan, a wait may be
  over if the scan is still to reach its wait block (`Unreached`, over the `Rest` of the
  list); whatever else a thread waits for is judged without the scanned object, since its
  SignalState may change under the scan (KeClearEvent takes no lock). For the scan to find
  every such thread, the scan must test what the wait needs; for a mutant that is so because
  no waiter owns the scanned mutant (`ScanOwner`).
* `OwnersOK`: MutantOwned, and in addition that no thread waits for a mutant which it owns at
  MINLONG. KiWaitTest does not test the recursion limit when it satisfies a WaitAll; the wait
  routine has raised STATUS_MUTANT_LIMIT_EXCEEDED before, and the count cannot change while
  its owner waits. This is what keeps SignalState within its width. A thread in rundown owns
  no mutex, so that what it abandons does not touch KernelApcDisable.
* `ApcDisableExact`, `ApcNotLost` and `AlertNotLost` are inductive together with these.

Each action has a lemma whose conclusion `StepOK` holds the invariant after the step and
what AllOrNothing and AbandonReported say of the step. The common shapes of a step are lemmas of
their own: one that touches a thread outside its wait (`LocalStep`), one that ends a wait
(`UnwaitStep`), one that changes a SignalState and starts or avoids a scan (`ChangeStep`),
one that satisfies a wait (`SatisfyStep`).

### ExResource

Assumed: finitely many threads and owner pointers, disjoint; 0 and 1 (`NoOwner`,
`Granted`) are no owners. The invariant has ten parts, because a resource spreads one
fact over several places and writes them at different times:

* `TableOK` (the shape of the table), `EntriesOK`, `EntriesOnce` and `EntriesListed`
  say that entries and owners match one to one; `FirstOK` that entry 0 is the exclusive
  owner's, or still `Granted`, and never a shared waiter's. Without it `StoreOwner`,
  which writes entry 0 without the lock, could overwrite somebody's entry.
* `CountsOK`: ActiveCount is the number of those who have access plus the grants on
  their way; the waiters that are not counted any more are those with a grant on its
  way; exclusive access excludes shared grants on their way; if nobody is active,
  nobody waits; and shared waiters of a shared resource wait behind an exclusive one.
  The grants on their way are in the semaphore, in the event, and with threads about to
  signal, which is what `Placed` and `ListsOK` describe.
* `WalkOK`: the boost walk holds the dispatcher lock, without which the table is
  not replaced, and reads threads that cannot have exited, because an owner
  has an entry exactly while it owns.

The refinement maps the resource to `held` and the writer: each action admits readers,
admits the writer, releases, converts, transfers, or leaves both alone. What makes it
go through is that an exclusive owner is alone (`ExclusiveAlone`), that nobody has
access when ActiveCount is zero (`Nobody`), and that a shared grant is in flight only
while the access is shared (`FlightShared`).

### KeTimer

Assumed: a table, a tick, a batch and a half of the time of positive size; the clock adds at
most a tick at a time. The bound on the interrupt time is arbitrary. The invariant `Inv`:

* `ClockOK`: the interrupt time lies in the current tick, which ends after the tick
  offset, and the interrupt looks at the list of the tick it is in and, if a tick has just
  ended, of the one before. From this follows that a timer which becomes due is in a list
  that is looked at. `HandsOK`: the hand of the expiration DPC is never ahead of the hand
  at which the clock looks, so that a DPC queued earlier covers what is found later.
* `TableOK`: the lists are in order and hold the timers of their own ticks. Order is what
  makes it enough for the clock, and for the scan, to look at the first timer, and for an
  insertion to look at the time again only if the timer is the first: the one before it is
  due no later, and somebody will look at it (`LinkInv`).
* `LockOK`, `ListsOK`, `LocalOK`, `InsertedOK`, `LinkingOK`: who holds the dispatcher lock
  and inserts under it; no timer is in two lists; the local lists are empty when an
  expiration begins and ends; Inserted means in a list or about to be linked.
* `NoneLost` is DpcNotLost.

That no expiry is missed is *not* part of it, since other processors can break it.
`NoneMissed(b)` says it of one list, with the hands that are to come (`Coming`) apart from
the scan that has already read the time (`Scanning`). Every action that is not the
interrupt's look keeps it for every list (`Keeps`); the look keeps it unless it passes the list
on a timer that is not its first. `LookOK` makes that precise: if the high halves were equal
when they were read, they still are, or the due time has been rewritten since and is then
later than the time (`Rewritten`), so that the two separate comparisons are worth one
comparison of the due time at the end. This gives `RaceCorrect`. In the uniprocessor build
`LookOK` also says that the timer read is still the first, hence `ExpiryCorrect`.

### KeDeviceQueue

Assumed: finitely many IRPs; `Null`, the IRPs and the contexts in which the next packet
is started are different things. `OneOwner` is not inductive: that nobody else starts
the next packet needs to know where each IRP is (`NotYet`, `QueuedOK`, `StartedOK`,
`NextOK`) and who holds the cancel spin lock (`LockOK`), since that lock alone keeps a
cancel routine from completing an IRP that is being dequeued (`CancelOK`). `OwnerOK` is
then the property itself, stated over those who act rather than as a cardinality.

### Lpc

Assumed: finitely many threads, each with handles of any of the three ports. `ReplyMatches` and
the first half of `NobodyStranded` need (`WaitInv`): a thread that still waits for a reply
has not been woken and waits for its own last request (`Unanswered`); it is woken by one
thread at most (`WokenOnce`, hence the semaphore limit); a thread that expects nothing is
not woken and is given no message (`AtRest`, `MessageDue`); the reply chains hold unanswered
threads of NtRequestWaitReplyPort only, each in the chain of its RundownPort, and all that
nobody wakes, while that port exists (`Chained`, `Awaited`). `PortInv` is
`NotDeletedInUse` with `PortsPaired`: a port whose other end is gone is disconnected before
that end goes, and the connection port outlives both. Together they show that a sender
never joins the chain of a port that is gone. `QueuesCovered`, the second half, counts the
units of each queue's semaphore against the messages. The theorems hold for any
bound on the message ids.

### Only model-checked

* Liveness (EntryServed, ThreadReaped, MutantGranted, WaiterServed, IrpCompletes): the
  prover handles neither fairness nor ENABLED.

## 6. Not modelled

* **Scheduler** (ready lists, priority decay, quantum, stack swapping): every module lets a
  ready thread run at any moment, so none of the safety results depends on it.
* **Suspension, freezing, the APC lists, attached processes**: the other modules see of
  them only the pending flags and that a wait is broken, which is modelled.
* **Dynamic worker threads and their deadlock detection** (`ex/worker.c`): a heuristic
  driven by a one-second timer; the queue under it is modelled.
* **Object manager**: reference counts are interlocked arithmetic spread over every caller,
  and what they protect lies in the callers. The references of LPC ports, whose last one
  goes under LpcpLock, are in `Lpc`.
* **Oplocks, byte-range locks, the log file service**: they depend on the IRP handling of
  the file systems and on the write ordering of the cache manager.
* **Memory and cache manager**: too large for a faithful model of a useful size.
* **Registry, security, run-time library, file systems, drivers, PnP, power**: outside the
  kernel core, mostly sequential work on data structures.
* **WebKit and the second copy of NTFS**: third-party code and duplicates.

The code mapped in `PROJECT.json` is a small part of the repository, and the README claims
nothing about the rest.

## 7. Plan

Every safety property of the passing runs, the action properties and both refinements are
proved. What stays model-checked is liveness, which is out of the prover's reach. Once
the code of the findings is corrected, `lpc_signal` becomes a passing run and
`ExpiryCorrect` loses its hypothesis. An extension would begin with a new component of section 6;
the next in line are the reference counts and handle tables of the object manager.
