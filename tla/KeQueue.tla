------------------------------ MODULE KeQueue ------------------------------
(* The kernel queue object (KQUEUE) of ntos/ke/queueobj.c, the work queue     *)
(* under I/O completion ports and the executive worker threads, with the      *)
(* parts of the dispatcher that keep its count of active threads: waits on    *)
(* other objects (wait.c), KiUnwaitThread (waitsup.c), kernel APCs            *)
(* (apcsup.c, i386/ctxswap.asm), wait timers (dpcsup.c), thread termination   *)
(* (thredobj.c) and the thread reaper (ps/psdelete.c).                        *)
(*                                                                            *)
(* Every operation runs under the dispatcher database lock, so a locked       *)
(* section is one action; the two that are split (KeRemoveQueue, which first  *)
(* joins the queue and then enters its loop, and KeTerminateThread) hold the  *)
(* lock in between.  The lock is held exactly while some thread is at "loop"  *)
(* or "term".  Thread locations (pc):                                         *)
(*   run    outside KeRemoveQueue            loop   top of its loop, locked   *)
(*   wait   waiting on the queue             ready  unwaited, in KiSwapThread *)
(*   apc    running a kernel APC             retry  before the relock of 553  *)
(*   block  waiting on another object        term   in KeTerminateThread      *)
(*   dead   Terminated, on the reaper list   none   not created / reaped      *)
EXTENDS Integers, Sequences, FiniteSets, SequencesExt

CONSTANTS
  Threads,         \* threads of the system
  Workers,         \* the static executive worker threads, which serve one
                   \* queue and never terminate (ExpWorkerThread)
  Queues,          \* memory in which queue objects are initialised
  Entries,         \* list entries that are queued (IRPs, work items)
  MaximumCounts,   \* values given as Count to KeInitializeQueue
  WaitArgs,        \* argument combinations of KeRemoveQueue
  ReaperQueue,     \* &ExWorkerQueue[HyperCriticalWorkQueue].WorkerQueue
  ReaperItem,      \* &PsReaperWorkItem.List
  NoQueue,         \* Thread->Queue == NULL
  Idle             \* the idle thread, current when a DPC interrupts it

(* WaitIrql of the caller is 0 or not (a kernel APC can interrupt it or not), *)
(* the wait mode, and the kind of Timeout: absent, zero, or a time.           *)
AllWaitArgs == [irql0: BOOLEAN, mode: {"KernelMode", "UserMode"},
                timeout: {"absent", "zero", "time"}]

(* A static worker thread of the hyper critical queue.                        *)
ExpWorkerThread == [irql0 |-> TRUE, mode |-> "KernelMode", timeout |-> "absent"]

(* The thread is not in KeRemoveQueue.                                        *)
NoArgs == [irql0 |-> FALSE, mode |-> "KernelMode", timeout |-> "absent"]

ASSUME ConstantsAssumption ==
  /\ IsFiniteSet(Threads) /\ Workers \subseteq Threads
  /\ MaximumCounts \subseteq Nat \ {0}
  /\ WaitArgs \subseteq AllWaitArgs /\ ExpWorkerThread \in WaitArgs
  /\ ReaperQueue \in Queues /\ NoQueue \notin Queues
  /\ ReaperItem \in Entries /\ Idle \notin Threads

ASSUME StatusAssumption ==
  Entries \cap {"none", "TIMEOUT", "KERNEL_APC", "USER_APC"} = {}

VARIABLES
  live,        \* queue memory holds an initialised queue object
  entries,     \* EntryListHead
  signal,      \* Header.SignalState
  count,       \* CurrentCount
  maximum,     \* MaximumCount
  waiters,     \* Header.WaitListHead: waiting threads, oldest first
  members,     \* ThreadListHead: associated threads
  queue,       \* Thread->Queue
  pc,          \* where the thread is
  resume,      \* where a nested APC or wait returns to
  reason,      \* Thread->WaitReason is WrQueue
  status,      \* Thread->WaitStatus / the value KeRemoveQueue returned
  args,        \* arguments of the thread's KeRemoveQueue call
  timer,       \* Thread->Timer.Header.Inserted
  kernelApc,   \* ApcState.KernelApcPending
  userApc,     \* ApcState.UserApcPending
  reaperList,  \* PsReaperListHead
  reaperActive \* PsReaperActive

queueVars  == <<live, entries, signal, count, maximum, waiters, members>>
apcVars    == <<kernelApc, userApc>>
reaperVars == <<reaperList, reaperActive>>
vars == <<live, entries, signal, count, maximum, waiters, members, queue, pc,
          resume, reason, status, args, timer, kernelApc, userApc, reaperList,
          reaperActive>>

Statuses  == {"none", "TIMEOUT", "KERNEL_APC", "USER_APC"} \cup Entries
Locations == {"run", "loop", "wait", "ready", "apc", "retry", "block", "term",
              "dead", "none"}

(* The thread occupies (or is about to get) a processor: it counts as active  *)
(* in its queue.                                                              *)
Active(t) == pc[t] \in {"run", "ready", "apc", "retry", "term"}

(* The thread has called KeRemoveQueue and not returned.                      *)
InRemove(t) == \/ pc[t] \in {"loop", "wait", "ready", "retry"}
               \/ pc[t] \in {"apc", "block"} /\ resume[t] # "run"

Unlocked == \A t \in Threads : pc[t] \notin {"loop", "term"}

(* No list and no thread refers to the entry: its owner may insert it.        *)
Free(e) == /\ \A q \in Queues : \A i \in 1..Len(entries[q]) : entries[q][i] # e
           /\ \A t \in Threads : status[t] # e

(* Mutant: the wait block stays in its list.                                  *)
WithoutNone(s, u) == s

(* RemoveEntryList of the wait block of u.                                    *)
Without(s, u) == IF \E i \in 1..Len(s) : s[i] = u
                 THEN RemoveAt(s, CHOOSE i \in 1..Len(s) : s[i] = u)
                 ELSE s

-----------------------------------------------------------------------------
(* Services of the dispatcher.  at is the value of pc before the wakeup and   *)
(* cnt that of count: the caller's own changes in the same locked section.    *)

(* Mutant: the timer is not cancelled.                                        *)
KiUnwaitThreadTimer(at, cnt, u, s) ==
  /\ status' = [status EXCEPT ![u] = s]
  /\ waiters' = [q \in Queues |-> Without(waiters[q], u)]
  /\ count' = IF queue[u] = NoQueue THEN cnt
              ELSE [cnt EXCEPT ![queue[u]] = @ + 1]
  /\ pc' = [at EXCEPT ![u] = "ready"]
  /\ UNCHANGED timer

(* KiUnwaitThread: status |= over a status of 0, the wait block leaves the    *)
(* queue's wait list, the timer is cancelled and the active count of the      *)
(* thread's queue rises.                                                      *)
KiUnwaitThread(at, cnt, u, s) ==
  /\ status' = [status EXCEPT ![u] = s]
  /\ waiters' = [q \in Queues |-> Without(waiters[q], u)]
  /\ timer' = [timer EXCEPT ![u] = FALSE]
  /\ count' = IF queue[u] = NoQueue THEN cnt
              ELSE [cnt EXCEPT ![queue[u]] = @ + 1]
  /\ pc' = [at EXCEPT ![u] = "ready"]

(* Mutants: no waiter is activated; SignalState is not adjusted.              *)
KiActivateNoWaiter(at, q) ==
  /\ count' = [count EXCEPT ![q] = @ - 1]
  /\ pc' = at
  /\ UNCHANGED <<entries, signal, waiters, status, timer>>

KiActivateWaiterQueueSignal(at, q) ==
  LET cnt == [count EXCEPT ![q] = @ - 1] IN
  IF cnt[q] < maximum[q] /\ entries[q] # <<>> /\ waiters[q] # <<>>
  THEN /\ entries' = [entries EXCEPT ![q] = Tail(@)]
       /\ UNCHANGED signal
       /\ KiUnwaitThread(at, cnt, Last(waiters[q]), Head(entries[q]))
  ELSE KiActivateNoWaiter(at, q)

(* KiActivateWaiterQueue: an active thread of q stops; if that leaves room,   *)
(* the newest waiter gets the oldest entry.                                   *)
KiActivateWaiterQueue(at, q) ==
  LET cnt == [count EXCEPT ![q] = @ - 1] IN
  IF cnt[q] < maximum[q] /\ entries[q] # <<>> /\ waiters[q] # <<>>
  THEN /\ entries' = [entries EXCEPT ![q] = Tail(@)]
       /\ signal' = [signal EXCEPT ![q] = @ - 1]
       /\ KiUnwaitThread(at, cnt, Last(waiters[q]), Head(entries[q]))
  ELSE /\ count' = cnt
       /\ pc' = at
       /\ UNCHANGED <<entries, signal, waiters, status, timer>>

(* KiInsertQueue, with c the current thread: the newest waiter is handed the  *)
(* entry if a thread may still become active, unless the current thread is    *)
(* itself coming back from a wait on this queue.                              *)
KiInsertQueue(at, c, q, e, head) ==
  IF /\ waiters[q] # <<>>
     /\ count[q] < maximum[q]
     /\ IF c = Idle THEN TRUE ELSE queue[c] # q \/ ~reason[c]
  THEN LET u == Last(waiters[q]) IN
       /\ waiters' = [waiters EXCEPT ![q] = Front(@)]
       /\ status' = [status EXCEPT ![u] = e]
       /\ count' = [count EXCEPT ![q] = @ + 1]
       /\ reason' = [reason EXCEPT ![u] = FALSE]
       /\ timer' = [timer EXCEPT ![u] = FALSE]
       /\ pc' = [at EXCEPT ![u] = "ready"]
       /\ UNCHANGED <<entries, signal>>
  ELSE /\ signal' = [signal EXCEPT ![q] = @ + 1]
       /\ entries' = [entries EXCEPT ![q] = IF head THEN <<e>> \o @ ELSE Append(@, e)]
       /\ pc' = at
       /\ UNCHANGED <<waiters, status, count, reason, timer>>

-----------------------------------------------------------------------------
(* The queue object.                                                          *)

(* Mutant: MaximumCount is one too small.                                     *)
KeInitializeQueueLess(q, max) ==
  /\ Unlocked /\ ~live[q]
  /\ live' = [live EXCEPT ![q] = TRUE]
  /\ maximum' = [maximum EXCEPT ![q] = max - 1]
  /\ count' = [count EXCEPT ![q] = 0]
  /\ UNCHANGED <<signal, waiters, entries, members, queue, pc, resume, reason,
                 status, args, timer, apcVars, reaperVars>>

KeInitializeQueue(q, max) ==
  /\ Unlocked /\ ~live[q]
  /\ live' = [live EXCEPT ![q] = TRUE]
  /\ signal' = [signal EXCEPT ![q] = 0]
  /\ waiters' = [waiters EXCEPT ![q] = <<>>]
  /\ entries' = [entries EXCEPT ![q] = <<>>]
  /\ members' = [members EXCEPT ![q] = {}]
  /\ count' = [count EXCEPT ![q] = 0]
  /\ maximum' = [maximum EXCEPT ![q] = max]
  /\ UNCHANGED <<queue, pc, resume, reason, status, args, timer, apcVars, reaperVars>>

(* KeInsertQueue and KeInsertHeadQueue.  The caller is a thread, an APC in    *)
(* its context, or a DPC that interrupted thread c (idle or any running one,  *)
(* even inside KiSwapThread or KeRemoveQueue).                                *)
KeInsertQueue(c, q, e, head) ==
  /\ Unlocked /\ live[q]
  /\ c = Idle \/ c \in Threads
  /\ c \in Threads => pc[c] \in {"run", "ready", "apc", "retry"}
  /\ e # ReaperItem /\ Free(e)
  /\ KiInsertQueue(pc, c, q, e, head)
  /\ UNCHANGED <<live, maximum, members, queue, resume, args, apcVars, reaperVars>>

(* KeRemoveQueue up to its loop: join the queue, leaving and activating the   *)
(* old one, or (same queue) stop being counted as active.                     *)
KeRemoveQueue(t, q, a) ==
  /\ Unlocked /\ live[q]
  /\ pc[t] = "run" /\ status[t] \notin Entries
  /\ t \in Workers => q = ReaperQueue /\ a = ExpWorkerThread
  /\ args' = [args EXCEPT ![t] = a]
  /\ queue' = [queue EXCEPT ![t] = q]
  /\ LET old == queue[t]
         at == [pc EXCEPT ![t] = "loop"]
     IN \/ /\ old = q
           /\ count' = [count EXCEPT ![q] = @ - 1]
           /\ pc' = at
           /\ UNCHANGED <<entries, signal, waiters, members, status, timer>>
        \/ /\ old = NoQueue
           /\ members' = [members EXCEPT ![q] = @ \cup {t}]
           /\ pc' = at
           /\ UNCHANGED <<entries, signal, count, waiters, status, timer>>
        \/ /\ old \notin {q, NoQueue}
           /\ members' = [members EXCEPT ![old] = @ \ {t}, ![q] = @ \cup {t}]
           /\ KiActivateWaiterQueue(at, old)
  /\ UNCHANGED <<live, maximum, resume, reason, apcVars, reaperVars>>

(* The loop of KeRemoveQueue, entered with the lock held and t not counted.   *)
(* Each case ends the locked section.                                         *)
(* Mutant: one thread too many may become active.                             *)
CanTakeOneMore(q) == entries[q] # <<>> /\ count[q] <= maximum[q]

CanTake(q) == entries[q] # <<>> /\ count[q] < maximum[q]

MustRetry(t) == kernelApc[t] /\ args[t].irql0

(* Mutant: a queue wait ignores the exit APC.                                 *)
UserApcIgnored(t) == FALSE

UserApcReady(t) == args[t].mode = "UserMode" /\ userApc[t]

(* An entry is there and a thread may become active: return the entry.        *)
KeRemoveQueueTake(t) ==
  LET q == queue[t] IN
  /\ pc[t] = "loop" /\ CanTake(q)
  /\ signal' = [signal EXCEPT ![q] = @ - 1]
  /\ count' = [count EXCEPT ![q] = @ + 1]
  /\ entries' = [entries EXCEPT ![q] = Tail(@)]
  /\ status' = [status EXCEPT ![t] = Head(entries[q])]
  /\ args' = [args EXCEPT ![t] = NoArgs]
  /\ pc' = [pc EXCEPT ![t] = "run"]
  /\ UNCHANGED <<live, maximum, waiters, members, queue, resume, reason, timer,
                 apcVars, reaperVars>>

(* A kernel APC is pending: count again as active and unlock, upon which the  *)
(* APC interrupt delivers it.                                                 *)
KeRemoveQueueApc(t) ==
  LET q == queue[t] IN
  /\ pc[t] = "loop" /\ ~CanTake(q) /\ MustRetry(t)
  /\ count' = [count EXCEPT ![q] = @ + 1]
  /\ kernelApc' = [kernelApc EXCEPT ![t] = FALSE]
  /\ pc' = [pc EXCEPT ![t] = "apc"]
  /\ resume' = [resume EXCEPT ![t] = "retry"]
  /\ UNCHANGED <<live, entries, signal, maximum, waiters, members, queue, reason,
                 status, args, timer, userApc, reaperVars>>

(* Mutant: the caller that returns is not counted again.                      *)
KeRemoveQueueReturnUncounted(t) ==
  LET q == queue[t] IN
  /\ pc[t] = "loop" /\ ~CanTake(q) /\ ~MustRetry(t)
  /\ UserApcReady(t) \/ args[t].timeout # "absent"
  /\ status' = [status EXCEPT ![t] = IF UserApcReady(t) THEN "USER_APC" ELSE "TIMEOUT"]
  /\ args' = [args EXCEPT ![t] = NoArgs]
  /\ pc' = [pc EXCEPT ![t] = "run"]
  /\ UNCHANGED <<live, entries, signal, count, maximum, waiters, members, queue,
                 resume, reason, timer, apcVars, reaperVars>>

(* Return without an entry: a user APC is pending for a user mode wait, the   *)
(* timeout is zero, or the time given has already passed.                     *)
KeRemoveQueueReturn(t) ==
  LET q == queue[t] IN
  /\ pc[t] = "loop" /\ ~CanTake(q) /\ ~MustRetry(t)
  /\ UserApcReady(t) \/ args[t].timeout # "absent"
  /\ status' = [status EXCEPT ![t] = IF UserApcReady(t) THEN "USER_APC" ELSE "TIMEOUT"]
  /\ count' = [count EXCEPT ![q] = @ + 1]
  /\ args' = [args EXCEPT ![t] = NoArgs]
  /\ pc' = [pc EXCEPT ![t] = "run"]
  /\ UNCHANGED <<live, entries, signal, maximum, waiters, members, queue, resume,
                 reason, timer, apcVars, reaperVars>>

(* Start the timer if there is one and wait.                                  *)
KeRemoveQueueWait(t) ==
  LET q == queue[t] IN
  /\ pc[t] = "loop" /\ ~CanTake(q) /\ ~MustRetry(t)
  /\ ~UserApcReady(t)
  /\ args[t].timeout # "zero"
  /\ status' = [status EXCEPT ![t] = "none"]
  /\ timer' = [timer EXCEPT ![t] = args[t].timeout = "time"]
  /\ waiters' = [waiters EXCEPT ![q] = Append(@, t)]
  /\ reason' = [reason EXCEPT ![t] = TRUE]
  /\ pc' = [pc EXCEPT ![t] = "wait"]
  /\ UNCHANGED <<live, entries, signal, count, maximum, members, queue, resume,
                 args, apcVars, reaperVars>>

(* KiSwapThread: which ready thread runs next, and when, is left open.  In    *)
(* the thread it comes back to, SwapContext reports a pending kernel APC,     *)
(* which is delivered before the return with the wait status saved.           *)
KiSwapThreadApc(t) ==
  /\ pc[t] = "ready" /\ MustRetry(t)
  /\ kernelApc' = [kernelApc EXCEPT ![t] = FALSE]
  /\ pc' = [pc EXCEPT ![t] = "apc"]
  /\ resume' = [resume EXCEPT ![t] = "ready"]
  /\ UNCHANGED <<queueVars, queue, reason, status, args, timer, userApc, reaperVars>>

(* The code after KiSwapThread: forget the wait reason; return the status, or *)
(* go round the loop if the wait was broken by a kernel APC.                  *)
KeRemoveQueueWoken(t) ==
  /\ pc[t] = "ready" /\ ~MustRetry(t)
  /\ reason' = [reason EXCEPT ![t] = FALSE]
  /\ IF status[t] = "KERNEL_APC"
     THEN pc' = [pc EXCEPT ![t] = "retry"] /\ UNCHANGED args
     ELSE pc' = [pc EXCEPT ![t] = "run"] /\ args' = [args EXCEPT ![t] = NoArgs]
  /\ UNCHANGED <<queueVars, queue, resume, status, timer, apcVars, reaperVars>>

(* Lock the database again and stop being counted (lines 553-555).            *)
KeRemoveQueueRelock(t) ==
  /\ Unlocked /\ pc[t] = "retry"
  /\ count' = [count EXCEPT ![queue[t]] = @ - 1]
  /\ pc' = [pc EXCEPT ![t] = "loop"]
  /\ UNCHANGED <<live, entries, signal, maximum, waiters, members, queue, resume,
                 reason, status, args, timer, apcVars, reaperVars>>

(* The last reference to the queue is gone (IopDeleteIoCompletion), so no     *)
(* thread is inside KeRemoveQueue.  The entries are returned for freeing and  *)
(* the threads lose their association.                                        *)
KeRundownQueue(q) ==
  /\ Unlocked /\ live[q] /\ q # ReaperQueue
  /\ \A t \in Threads : queue[t] = q => ~InRemove(t)
  /\ live' = [live EXCEPT ![q] = FALSE]
  /\ entries' = [entries EXCEPT ![q] = <<>>]
  /\ members' = [members EXCEPT ![q] = {}]
  /\ queue' = [t \in Threads |-> IF t \in members[q] THEN NoQueue ELSE queue[t]]
  /\ UNCHANGED <<signal, count, maximum, waiters, pc, resume, reason, status, args,
                 timer, apcVars, reaperVars>>

-----------------------------------------------------------------------------
(* The rest of the dispatcher, as far as a queue sees it.                     *)

(* A wait on another object (KeWaitForSingleObject, KeWaitForMultipleObjects, *)
(* KeDelayExecutionThread), from the thread itself or from an APC in it: the  *)
(* thread's queue may activate another thread in its place.                   *)
KeWait(t) ==
  /\ Unlocked /\ pc[t] \in {"run", "apc"}
  /\ reason' = [reason EXCEPT ![t] = FALSE]
  /\ LET at == [pc EXCEPT ![t] = "block"] IN
     IF queue[t] # NoQueue
     THEN KiActivateWaiterQueue(at, queue[t])
     ELSE pc' = at /\ UNCHANGED <<entries, signal, count, waiters, status, timer>>
  /\ UNCHANGED <<live, maximum, members, queue, resume, args, apcVars, reaperVars>>

(* The other wait ends, for whatever reason: KiUnwaitThread counts the thread *)
(* as active in the queue it is associated with now.                          *)
KeWaitDone(t) ==
  /\ Unlocked /\ pc[t] = "block"
  /\ count' = IF queue[t] = NoQueue THEN count
              ELSE [count EXCEPT ![queue[t]] = @ + 1]
  /\ pc' = [pc EXCEPT ![t] = IF resume[t] = "run" THEN "run" ELSE "apc"]
  /\ UNCHANGED <<live, entries, signal, maximum, waiters, members, queue, resume,
                 reason, status, args, timer, apcVars, reaperVars>>

(* The thread's timer expires (KiTimerListExpire, KiWaitTest).                *)
KiTimerExpire(t) ==
  /\ Unlocked /\ timer[t]
  /\ KiUnwaitThread(pc, count, t, "TIMEOUT")
  /\ UNCHANGED <<live, entries, signal, maximum, members, queue, resume, reason,
                 args, apcVars, reaperVars>>

(* A kernel APC is queued to t.  special: it has no normal routine, or normal *)
(* kernel APCs are neither disabled nor in progress in t.                     *)
KiInsertQueueApc(t, special) ==
  /\ Unlocked /\ pc[t] \notin {"dead", "none"}
  /\ kernelApc' = [kernelApc EXCEPT ![t] = TRUE]
  /\ IF pc[t] = "wait" /\ args[t].irql0 /\ special
     THEN KiUnwaitThread(pc, count, t, "KERNEL_APC")
     ELSE UNCHANGED <<status, waiters, timer, count, pc>>
  /\ UNCHANGED <<live, entries, signal, maximum, members, queue, resume, reason,
                 args, userApc, reaperVars>>

(* The exit APC makes UserApcPending TRUE.  A thread queues it to itself, in  *)
(* the kernel APC of PspTerminateThreadByPointer; a worker, a system thread,  *)
(* is never asked to.                                                         *)
KiInsertQueueApcExit(t) ==
  /\ Unlocked /\ pc[t] \in {"run", "apc"} /\ t \notin Workers /\ ~userApc[t]
  /\ userApc' = [userApc EXCEPT ![t] = TRUE]
  /\ UNCHANGED <<queueVars, queue, pc, resume, reason, status, args, timer,
                 kernelApc, reaperVars>>

(* KiDeliverApc at an APC interrupt, or before the return to user mode, when  *)
(* the exit APC is delivered too.  In a thread outside KeRemoveQueue the APC  *)
(* routine does nothing a running thread may not do, so only the flags        *)
(* change; inside, the routine runs at "apc" and then returns.                *)
KiDeliverApc(t) ==
  /\ \/ pc[t] = "run" /\ kernelApc[t] /\ UNCHANGED <<pc, resume, userApc>>
     \/ /\ pc[t] = "run" /\ userApc[t]
        /\ userApc' = [userApc EXCEPT ![t] = FALSE]
        /\ UNCHANGED <<pc, resume>>
     \/ /\ pc[t] = "retry" /\ MustRetry(t)
        /\ pc' = [pc EXCEPT ![t] = "apc"]
        /\ resume' = [resume EXCEPT ![t] = "retry"]
        /\ UNCHANGED userApc
  /\ kernelApc' = [kernelApc EXCEPT ![t] = FALSE]
  /\ UNCHANGED <<queueVars, queue, reason, status, args, timer, reaperVars>>

KiDeliverApcReturn(t) ==
  /\ pc[t] = "apc"
  /\ pc' = [pc EXCEPT ![t] = resume[t]]
  /\ resume' = [resume EXCEPT ![t] = "run"]
  /\ UNCHANGED <<queueVars, queue, reason, status, args, timer, apcVars, reaperVars>>

(* The thread is done with the entry it removed.                              *)
FinishEntry(t) ==
  /\ pc[t] = "run" /\ status[t] \in Entries \ {ReaperItem}
  /\ status' = [status EXCEPT ![t] = "none"]
  /\ UNCHANGED <<queueVars, queue, pc, resume, reason, args, timer, apcVars, reaperVars>>

-----------------------------------------------------------------------------
(* Thread termination and the reaper.                                         *)

(* Mutant: PsReaperActive is not tested.                                      *)
KeTerminateThreadQueues(t) ==
  /\ Unlocked /\ live[ReaperQueue]
  /\ pc[t] = "run" /\ status[t] \notin Entries /\ t \notin Workers
  /\ reaperList' = Append(reaperList, t)
  /\ reaperActive' = TRUE
  /\ KiInsertQueue([pc EXCEPT ![t] = "term"], t, ReaperQueue, ReaperItem, FALSE)
  /\ UNCHANGED <<live, maximum, members, queue, resume, args, apcVars>>

(* The thread enters the reaper list; the reaper's work item is queued unless *)
(* the reaper is active.                                                      *)
KeTerminateThread(t) ==
  /\ Unlocked /\ live[ReaperQueue]
  /\ pc[t] = "run" /\ status[t] \notin Entries /\ t \notin Workers
  /\ reaperList' = Append(reaperList, t)
  /\ reaperActive' = TRUE
  /\ LET at == [pc EXCEPT ![t] = "term"] IN
     IF reaperActive
     THEN pc' = at /\ UNCHANGED <<entries, signal, waiters, status, count, reason, timer>>
     ELSE KiInsertQueue(at, t, ReaperQueue, ReaperItem, FALSE)
  /\ UNCHANGED <<live, maximum, members, queue, resume, args, apcVars>>

(* Still locked, the thread leaves its queue, which may activate another, and *)
(* leaves the processor for the last time.                                    *)
KeTerminateThreadLeave(t) ==
  /\ pc[t] = "term"
  /\ LET at == [pc EXCEPT ![t] = "dead"] IN
     IF queue[t] # NoQueue
     THEN /\ members' = [members EXCEPT ![queue[t]] = @ \ {t}]
          /\ KiActivateWaiterQueue(at, queue[t])
     ELSE /\ pc' = at
          /\ UNCHANGED <<members, entries, signal, count, waiters, status, timer>>
  /\ UNCHANGED <<live, maximum, queue, resume, reason, args, apcVars, reaperVars>>

(* PspReaper, run by the thread that removed the reaper's work item: delete   *)
(* the threads of the list one locked iteration each ...                      *)
PspReaper(t) ==
  /\ Unlocked /\ pc[t] = "run" /\ status[t] = ReaperItem
  /\ reaperList # <<>>
  /\ reaperList' = Tail(reaperList)
  /\ pc' = [pc EXCEPT ![Head(reaperList)] = "none"]
  /\ UNCHANGED <<queueVars, queue, resume, reason, status, args, timer, apcVars,
                 reaperActive>>

(* Mutant: PsReaperActive stays TRUE.                                         *)
PspReaperStaysActive(t) ==
  /\ Unlocked /\ pc[t] = "run" /\ status[t] = ReaperItem
  /\ reaperList = <<>>
  /\ status' = [status EXCEPT ![t] = "none"]
  /\ UNCHANGED <<queueVars, queue, pc, resume, reason, args, timer, apcVars, reaperVars>>

(* ... and become inactive when it is empty.                                  *)
PspReaperDone(t) ==
  /\ Unlocked /\ pc[t] = "run" /\ status[t] = ReaperItem
  /\ reaperList = <<>>
  /\ reaperActive' = FALSE
  /\ status' = [status EXCEPT ![t] = "none"]
  /\ UNCHANGED <<queueVars, queue, pc, resume, reason, args, timer, apcVars, reaperList>>

(* A thread is created in zeroed memory.                                      *)
KeInitializeThread(t) ==
  /\ Unlocked /\ pc[t] = "none"
  /\ pc' = [pc EXCEPT ![t] = "run"]
  /\ queue' = [queue EXCEPT ![t] = NoQueue]
  /\ status' = [status EXCEPT ![t] = "none"]
  /\ kernelApc' = [kernelApc EXCEPT ![t] = FALSE]
  /\ userApc' = [userApc EXCEPT ![t] = FALSE]
  /\ UNCHANGED <<queueVars, resume, reason, args, timer, reaperVars>>

-----------------------------------------------------------------------------
(* The worker queue of the reaper exists before any thread can terminate.     *)
Init ==
  /\ live = [q \in Queues |-> q = ReaperQueue]
  /\ entries = [q \in Queues |-> <<>>]
  /\ signal = [q \in Queues |-> 0]
  /\ count = [q \in Queues |-> 0]
  /\ maximum \in [Queues -> MaximumCounts]
  /\ waiters = [q \in Queues |-> <<>>]
  /\ members = [q \in Queues |-> {}]
  /\ queue = [t \in Threads |-> NoQueue]
  /\ pc = [t \in Threads |-> "run"]
  /\ resume = [t \in Threads |-> "run"]
  /\ reason = [t \in Threads |-> FALSE]
  /\ status = [t \in Threads |-> "none"]
  /\ args = [t \in Threads |-> NoArgs]
  /\ timer = [t \in Threads |-> FALSE]
  /\ kernelApc = [t \in Threads |-> FALSE]
  /\ userApc = [t \in Threads |-> FALSE]
  /\ reaperList = <<>>
  /\ reaperActive = FALSE

ThreadStep(t) ==
  \/ \E q \in Queues, a \in WaitArgs : KeRemoveQueue(t, q, a)
  \/ KeRemoveQueueTake(t) \/ KeRemoveQueueApc(t) \/ KeRemoveQueueReturn(t)
  \/ KeRemoveQueueWait(t) \/ KiSwapThreadApc(t) \/ KeRemoveQueueWoken(t)
  \/ KeRemoveQueueRelock(t) \/ KeWait(t) \/ KeWaitDone(t) \/ KiTimerExpire(t)
  \/ KiDeliverApc(t) \/ KiDeliverApcReturn(t) \/ FinishEntry(t)
  \/ KeTerminateThread(t) \/ KeTerminateThreadLeave(t)
  \/ PspReaper(t) \/ PspReaperDone(t) \/ KeInitializeThread(t)
  \/ \E special \in BOOLEAN : KiInsertQueueApc(t, special)
  \/ KiInsertQueueApcExit(t)

Insert == \E c \in Threads \cup {Idle}, q \in Queues, e \in Entries, head \in BOOLEAN :
            KeInsertQueue(c, q, e, head)

QueueStep(q) == KeRundownQueue(q) \/ \E max \in MaximumCounts : KeInitializeQueue(q, max)

Next == \/ \E t \in Threads : ThreadStep(t)
        \/ Insert
        \/ \E q \in Queues : QueueStep(q)

Spec == Init /\ [][Next]_vars

(* Scheduling.  A thread that can go on does so in the end: waits on other    *)
(* objects and APC routines end, a spinning processor gets the lock, and a    *)
(* thread of the worker queue comes back for more work (the loop of           *)
(* ExpWorkerThread).  SF, because APCs, waits and the lock disable a step for *)
(* a while.  The threads do not exit faster than they are reaped, and kernel  *)
(* APCs do not come for ever: they could break the queue waits of two threads *)
(* in turn, each going back to wait because the other one counts as active.   *)
(* Queueing at the head, which lets new work overtake the rest for ever, has  *)
(* no caller in the system and is left out here.                              *)
GoOn(t) ==
  \/ \E a \in WaitArgs : KeRemoveQueue(t, ReaperQueue, a)
  \/ KeRemoveQueueTake(t) \/ KeRemoveQueueApc(t) \/ KeRemoveQueueReturn(t)
  \/ KeRemoveQueueWait(t) \/ KeRemoveQueueWoken(t) \/ KeRemoveQueueRelock(t)
  \/ FinishEntry(t) \/ KeTerminateThreadLeave(t) \/ PspReaper(t)

TailInsert == \E c \in Threads \cup {Idle}, q \in Queues, e \in Entries :
                KeInsertQueue(c, q, e, FALSE)

FairSpec ==
  /\ Init /\ [][(\E t \in Threads : ThreadStep(t)) \/ TailInsert]_vars
  /\ \A t \in Threads : /\ SF_vars(GoOn(t))
                         /\ SF_vars(KeWaitDone(t))
                         /\ SF_vars(PspReaperDone(t))
                         /\ SF_vars(KiDeliverApcReturn(t))
                         /\ WF_vars(KiSwapThreadApc(t))
  /\ <>[][\A t \in Threads : ~(~kernelApc[t] /\ kernelApc'[t])]_vars

-----------------------------------------------------------------------------
TypeOK ==
  /\ live \in [Queues -> BOOLEAN]
  /\ entries \in [Queues -> Seq(Entries)]
  /\ signal \in [Queues -> Int]
  /\ count \in [Queues -> Int]
  /\ maximum \in [Queues -> Nat \ {0}]
  /\ waiters \in [Queues -> Seq(Threads)]
  /\ members \in [Queues -> SUBSET Threads]
  /\ queue \in [Threads -> Queues \cup {NoQueue}]
  /\ pc \in [Threads -> Locations]
  /\ resume \in [Threads -> {"run", "ready", "retry"}]
  /\ reason \in [Threads -> BOOLEAN]
  /\ status \in [Threads -> Statuses]
  /\ args \in [Threads -> AllWaitArgs]
  /\ timer \in [Threads -> BOOLEAN]
  /\ kernelApc \in [Threads -> BOOLEAN]
  /\ userApc \in [Threads -> BOOLEAN]
  /\ reaperList \in Seq(Threads)
  /\ reaperActive \in BOOLEAN

(* CurrentCount of a queue is the number of its threads that run or are ready *)
(* to run: every wait, wakeup, retry, switch and exit adjusts it exactly once *)
(* (queueobj.c 340-555, waitsup.c 95, thredobj.c 2064).                       *)
ActiveIn(q) == {t \in Threads : queue[t] = q /\ Active(t)}
CountExact == \A q \in Queues : live[q] => count[q] = Cardinality(ActiveIn(q))

(* SignalState, which KeReadStateQueue reports, is the number of entries.     *)
SignalExact == \A q \in Queues : live[q] => signal[q] = Len(entries[q])

(* A thread is in the wait list of a queue exactly while it waits there, once *)
(* only, as a member of the queue; the member list names the live threads     *)
(* whose Thread->Queue is the queue; SignalState counts the list of entries.  *)
ListsExact ==
  /\ SignalExact
  /\ \A q \in Queues : live[q] =>
       /\ \A i \in 1..Len(waiters[q]) : pc[waiters[q][i]] = "wait" /\ queue[waiters[q][i]] = q
       /\ \A t \in Threads : pc[t] = "wait" /\ queue[t] = q =>
            \E i \in 1..Len(waiters[q]) : waiters[q][i] = t
       /\ \A i, j \in 1..Len(waiters[q]) : waiters[q][i] = waiters[q][j] => i = j
       /\ members[q] = {t \in Threads : queue[t] = q /\ pc[t] \notin {"dead", "none"}}

(* No stranded work: an entry and a waiting thread are never left together in *)
(* a queue in which no thread is active.  KiInsertQueue may leave the entry   *)
(* queued when its own thread is coming back from the queue, but that thread  *)
(* is active, and will look at the queue or activate a waiter.                *)
NoStrandedWork ==
  \A q \in Queues :
    live[q] /\ Unlocked /\ entries[q] # <<>> /\ waiters[q] # <<>> => count[q] > 0

(* The timer of a queue wait is never left running past the wait, where its   *)
(* expiry would unwait a thread that is not waiting.                          *)
TimerOnlyInWait == \A t \in Threads : timer[t] => pc[t] = "wait"

(* The reaper is active exactly while its work item is queued or being        *)
(* processed, and a dead thread always has an active reaper: none is lost     *)
(* between KeTerminateThread's test of PsReaperActive and PspReaper's reset.  *)
ReaperScheduled ==
  /\ reaperActive <=> ~Free(ReaperItem)
  /\ \A t \in Threads : pc[t] = "dead" => reaperActive

(* Handing out an entry never takes a queue above its maximum: only wakeups   *)
(* from other waits, timeouts and APCs do.                                    *)
DispatchWithinMaximum ==
  [][\A q \in Queues : \A t \in Threads :
       status'[t] # status[t] /\ status'[t] \in Entries /\ queue[t] = q
         => count'[q] <= maximum[q]]_vars

(* A user mode wait never goes on in a thread that is to exit: the kernel APC *)
(* that queues the exit APC breaks the wait, and the retry sees the APC.      *)
ExitBreaksWait ==
  \A t \in Threads : pc[t] = "wait" /\ args[t].mode = "UserMode" => ~userApc[t]

(* Every step is one that WorkQueue allows: an entry is delivered to exactly  *)
(* one thread, or is returned by KeRundownQueue, and is never queued twice,   *)
(* not even the reaper's, which is queued again and again.                    *)
Holder == [t \in Threads |-> IF status[t] \in Entries THEN status[t] ELSE "none"]
Work == INSTANCE WorkQueue WITH list <- entries, holder <- Holder
EntriesDelivered == Work!Spec

(* Every queued entry is removed in the end, though threads block in the      *)
(* middle of their work, are interrupted by APCs and exit, and though         *)
(* KiInsertQueue may leave an entry queued beside a waiting thread.           *)
Queued(e) == \E i \in 1..Len(entries[ReaperQueue]) : entries[ReaperQueue][i] = e
EntryServed == \A e \in Entries : Queued(e) ~> ~Queued(e)

(* Every terminated thread is reaped: its kernel stack is freed.              *)
ThreadReaped == \A t \in Threads : pc[t] = "dead" ~> pc[t] = "none"
=============================================================================
