------------------------------ MODULE KeWait -------------------------------
(* Waiting on kernel dispatcher objects: ntos/ke/wait.c and waitsup.c with    *)
(* events (eventobj.c), semaphores (semphobj.c) and mutants (mutntobj.c),     *)
(* thread alerts and rundown (thredobj.c), the APCs that break a wait         *)
(* (apcsup.c) and the thread's wait timer (dpcsup.c).                         *)
(*                                                                            *)
(* All of it runs under the dispatcher database lock, except KeClearEvent,    *)
(* which stores SignalState with no lock at all.  So the scan of a wait list  *)
(* by KiWaitTest is one action per wait block, with the lock held in between  *)
(* (scan.obj # NoObject), and KeClearEvent may come between two of them.  The *)
(* lock is also held by a thread at "loop" (in the loop of a wait routine)    *)
(* at "next" (between a signal made with Wait = TRUE and the wait that must   *)
(* follow it) and at "rundown".  Other locations: run; wait (State is         *)
(* Waiting); ready (unwaited, in KiSwapThread); retry (unlocked, about to go  *)
(* round the loop); dead.                                                     *)
EXTENDS Integers, Sequences, FiniteSets, SequencesExt

CONSTANTS
  Threads,
  Objects,      \* dispatcher objects
  Kind,         \* their type
  Limit,        \* Limit of a semaphore
  Mutexes,      \* the mutants with ApcDisable 1 (KeInitializeMutex)
  Calls,        \* argument combinations of the wait routines
  Adjustments,  \* Adjustment of KeReleaseSemaphore
  AlertModes,   \* modes in which threads are alerted
  Apcs,         \* kinds of APC that are queued
  MINLONG,      \* the least LONG
  NoObject, NoThread

Modes == {"KernelMode", "UserMode"}
Kinds == {"NotificationEvent", "SynchronizationEvent", "Semaphore", "Mutant"}
Mutants == {o \in Objects : Kind[o] = "Mutant"}
Events == {o \in Objects : Kind[o] \in {"NotificationEvent", "SynchronizationEvent"}}
Semaphores == {o \in Objects : Kind[o] = "Semaphore"}
AllApcs == {"special", "normal", "user", "exit"}
Statuses == {"none", "TIMEOUT", "ALERTED", "USER_APC", "KERNEL_APC", "LIMIT"}

(* One wait.  KeWaitForSingleObject has one object and WaitAny;               *)
(* KeDelayExecutionThread has no object and always a timeout.                 *)
AllCalls == [objs: Seq(Objects), type: {"WaitAny", "WaitAll"}, mode: Modes,
             alertable: BOOLEAN, timeout: {"absent", "zero", "time"}, irql0: BOOLEAN]

MAXLONG == -MINLONG - 1

(* The sum of two LONGs that are not negative, as the machine computes it.    *)
Wrap(n) == IF n > MAXLONG THEN n + 2 * MINLONG ELSE n

ASSUME KindAssumption ==
  /\ MINLONG \in Int /\ MINLONG < -1
  /\ Kind \in [Objects -> Kinds] /\ Limit \in [Objects -> 1..MAXLONG]
  /\ Mutexes \subseteq Mutants
  /\ NoObject \notin Objects /\ Objects \cap Statuses = {} /\ NoThread \notin Threads
  /\ IsFiniteSet(Threads) /\ IsFiniteSet(Objects)

ASSUME CallsAssumption ==
  /\ Calls \subseteq AllCalls
  /\ \A c \in Calls :
       /\ \A i, j \in 1..Len(c.objs) : c.objs[i] = c.objs[j] => i = j
       /\ c.objs = <<>> => c.timeout = "time" /\ c.type = "WaitAny"
  /\ AlertModes \subseteq Modes /\ Apcs \subseteq AllApcs
  /\ Adjustments \subseteq MINLONG..MAXLONG

VARIABLES
  signal,     \* Header.SignalState
  waitList,   \* Header.WaitListHead, oldest wait block first
  owner,      \* Mutant->OwnerThread; the owner's mutant list is its inverse
  abandoned,  \* Mutant->Abandoned
  pc, call,   \* where each thread is, and its wait
  result,     \* Thread->WaitStatus: the key, and the ABANDONED bit
  timer,      \* Thread->Timer.Header.Inserted
  alerted,    \* Thread->Alerted: the modes in which it is set
  apcDisable, \* Thread->KernelApcDisable
  pending,    \* ApcState.KernelApcPending
  normalApc,  \* a normal kernel APC is queued
  userApc,    \* the user APC queue is not empty
  userPending,\* ApcState.UserApcPending
  scan        \* KiWaitTest in progress

objectVars == <<signal, waitList, owner, abandoned>>
apcVars == <<alerted, pending, normalApc, userApc, userPending>>
vars == <<signal, waitList, owner, abandoned, pc, call, result, timer, alerted,
          apcDisable, pending, normalApc, userApc, userPending, scan>>

NoCall == [objs |-> <<>>, type |-> "WaitAny", mode |-> "KernelMode",
           alertable |-> FALSE, timeout |-> "time", irql0 |-> FALSE]
Status(k, ab) == [key |-> k, abandoned |-> ab]
NoStatus == Status("none", FALSE)

(* obj: the object whose wait list is scanned; pos: the wait entry; by: the   *)
(* thread that keeps the lock after the scan, if any; then: what it does.     *)
NoScan == [obj |-> NoObject, pos |-> 1, by |-> NoThread, then |-> "unlock"]

Objs(t) == {call[t].objs[i] : i \in 1..Len(call[t].objs)}
Unlocked == /\ scan.obj = NoObject
            /\ \A t \in Threads : pc[t] \notin {"loop", "next", "rundown"}

(* Who makes a signal.  NoThread: a thread, or a DPC, with Wait = FALSE; a    *)
(* thread: that thread with Wait = TRUE, which returns with the lock held.    *)
Signaller(c) == Unlocked /\ (c \in Threads => pc[c] = "run")
KeepLock(c) == IF c = NoThread THEN pc ELSE [pc EXCEPT ![c] = "next"]

-----------------------------------------------------------------------------
(* Satisfying waits.                                                          *)

Satisfiable(t, o) == signal[o] > 0 \/ (o \in Mutants /\ owner[o] = t)

(* Mutants: a recursive acquisition counts as a first one; the ABANDONED bit  *)
(* is lost.                                                                   *)
AcquiredAgain(S) == S \cap Mutants
AcquiresAbandonedLost(S) == FALSE

(* The mutants of S that change hands when a wait on S is satisfied.          *)
Acquired(S) == {o \in S \cap Mutants : signal[o] = 1}
AcquiresAbandoned(S) == \E o \in Acquired(S) : abandoned[o]

(* KiWaitSatisfyAny, KiWaitSatisfyMutant, KiWaitSatisfyOther and              *)
(* KiWaitSatisfyAll: what a satisfied wait of t on S does to the objects.     *)
KiWaitSatisfy(S, t) ==
  /\ signal' = [o \in Objects |->
       CASE o \in S /\ Kind[o] = "SynchronizationEvent" -> 0
         [] o \in S /\ Kind[o] \in {"Semaphore", "Mutant"} -> signal[o] - 1
         [] OTHER -> signal[o]]
  /\ owner' = [o \in Objects |-> IF o \in Acquired(S) THEN t ELSE owner[o]]
  /\ abandoned' = [o \in Objects |-> abandoned[o] /\ o \notin Acquired(S)]
  /\ apcDisable' = [apcDisable EXCEPT ![t] = @ - Cardinality(Acquired(S) \cap Mutexes)]

(* RemoveEntryList, if the thread has a wait block in the list.               *)
RemoveEntryList(list, t) ==
  IF \E i \in 1..Len(list) : list[i] = t
  THEN RemoveAt(list, CHOOSE i \in 1..Len(list) : list[i] = t) ELSE list

(* Mutant: only the wait block of the signalled object is removed.            *)
KiUnwaitThreadOneBlock(at, t, key, ab) ==
  /\ result' = [result EXCEPT ![t] = Status(key, ab)]
  /\ waitList' = [o \in Objects |->
                   IF o = key THEN RemoveEntryList(waitList[o], t) ELSE waitList[o]]
  /\ timer' = [timer EXCEPT ![t] = FALSE]
  /\ pc' = [at EXCEPT ![t] = "ready"]

(* KiUnwaitThread: the key is added to the status, every wait block leaves    *)
(* its list and the timer is cancelled.  at is pc before the wakeup.          *)
KiUnwaitThread(at, t, key, ab) ==
  /\ result' = [result EXCEPT ![t] = Status(key, ab)]
  /\ waitList' = [o \in Objects |-> RemoveEntryList(waitList[o], t)]
  /\ timer' = [timer EXCEPT ![t] = FALSE]
  /\ pc' = [at EXCEPT ![t] = "ready"]

(* Begin a scan of o's wait list.                                             *)
KiWaitTest(o, c, then) == scan' = [obj |-> o, pos |-> 1, by |-> c, then |-> then]

(* Mutants: the other objects of a WaitAll are not tested; a mutant that the  *)
(* thread owns already is taken for one that is missing.                      *)
CanSatisfyUntested(t, o) == TRUE
CanSatisfyUnowned(t, o) == \/ call[t].type = "WaitAny"
                           \/ \A p \in Objs(t) \ {o} : signal[p] > 0

(* A wait block of the list: a WaitAny is satisfied, a WaitAll if every other *)
(* object of the thread is there too.                                         *)
CanSatisfy(t, o) == \/ call[t].type = "WaitAny"
                    \/ \A p \in Objs(t) \ {o} : Satisfiable(t, p)

(* Mutant: the scan stops at a wait block that cannot be satisfied.           *)
ScanStops == signal[scan.obj] > 0 /\ scan.pos = 1 /\ waitList[scan.obj] # <<>>

ScanGoesOn == signal[scan.obj] > 0 /\ scan.pos <= Len(waitList[scan.obj])

KiWaitTestStep ==
  /\ scan.obj # NoObject /\ ScanGoesOn
  /\ LET o == scan.obj
         t == waitList[o][scan.pos]
         S == IF call[t].type = "WaitAny" THEN {o} ELSE Objs(t)
     IN \/ /\ CanSatisfy(t, o)
           /\ KiWaitSatisfy(S, t)
           /\ KiUnwaitThread(pc, t, o, AcquiresAbandoned(S))
           /\ UNCHANGED scan
        \/ /\ ~CanSatisfy(t, o)
           /\ scan' = [scan EXCEPT !.pos = @ + 1]
           /\ UNCHANGED <<objectVars, apcDisable, pc, result, timer>>
  /\ UNCHANGED <<call, apcVars>>

(* The scan is over.  KePulseEvent resets the event; the lock is released, or *)
(* kept by a thread that goes on to its wait or its next mutant.              *)
KiWaitTestEnd ==
  /\ scan.obj # NoObject /\ ~ScanGoesOn
  /\ pc' = IF scan.then = "rundown" THEN pc ELSE KeepLock(scan.by)
  /\ signal' = [signal EXCEPT ![scan.obj] = IF scan.then = "pulse" THEN 0 ELSE @]
  /\ scan' = NoScan
  /\ UNCHANGED <<waitList, owner, abandoned, call, result, timer, apcDisable, apcVars>>

-----------------------------------------------------------------------------
(* Events.                                                                    *)

KeSetEvent(c, o) ==
  /\ Signaller(c)
  /\ \/ /\ waitList[o] = <<>>
        /\ signal' = [signal EXCEPT ![o] = 1]
        /\ pc' = KeepLock(c)
        /\ UNCHANGED <<waitList, result, timer, scan>>
     \/ /\ waitList[o] # <<>>
        /\ Kind[o] = "NotificationEvent" \/ call[Head(waitList[o])].type = "WaitAll"
        /\ IF signal[o] = 0
           THEN /\ signal' = [signal EXCEPT ![o] = 1]
                /\ KiWaitTest(o, c, "unlock") /\ UNCHANGED pc
           ELSE pc' = KeepLock(c) /\ UNCHANGED <<signal, scan>>
        /\ UNCHANGED <<waitList, result, timer>>
     \/ /\ waitList[o] # <<>>
        /\ Kind[o] = "SynchronizationEvent" /\ call[Head(waitList[o])].type = "WaitAny"
        /\ KiUnwaitThread(KeepLock(c), Head(waitList[o]), o, FALSE)
        /\ UNCHANGED <<signal, scan>>
  /\ UNCHANGED <<owner, abandoned, call, apcDisable, apcVars>>

(* For fast mutexes and resources: every waiter waits for this event alone.   *)
KeSetEventBoostPriority(o) ==
  /\ Unlocked /\ Kind[o] = "SynchronizationEvent"
  /\ \A i \in 1..Len(waitList[o]) : call[waitList[o][i]].objs = <<o>>
  /\ IF waitList[o] = <<>>
     THEN /\ signal' = [signal EXCEPT ![o] = 1]
          /\ UNCHANGED <<waitList, result, timer, pc>>
     ELSE KiUnwaitThread(pc, Head(waitList[o]), o, FALSE) /\ UNCHANGED signal
  /\ UNCHANGED <<owner, abandoned, call, apcDisable, apcVars, scan>>

KePulseEvent(c, o) ==
  /\ Signaller(c)
  /\ IF signal[o] = 0 /\ waitList[o] # <<>>
     THEN /\ signal' = [signal EXCEPT ![o] = 1]
          /\ KiWaitTest(o, c, "pulse") /\ UNCHANGED pc
     ELSE /\ signal' = [signal EXCEPT ![o] = 0]
          /\ pc' = KeepLock(c) /\ UNCHANGED scan
  /\ UNCHANGED <<waitList, owner, abandoned, call, result, timer, apcDisable, apcVars>>

KeResetEvent(o) ==
  /\ Unlocked
  /\ signal' = [signal EXCEPT ![o] = 0]
  /\ UNCHANGED <<waitList, owner, abandoned, pc, call, result, timer, apcDisable,
                 apcVars, scan>>

(* No lock: on another processor, in the middle of anything.                  *)
KeClearEvent(o) ==
  /\ signal' = [signal EXCEPT ![o] = 0]
  /\ UNCHANGED <<waitList, owner, abandoned, pc, call, result, timer, apcDisable,
                 apcVars, scan>>

-----------------------------------------------------------------------------
(* Semaphores and mutants.                                                    *)

(* Mutant: the carry is not tested.                                           *)
LimitExceededNoCarry(o, n) == Wrap(signal[o] + n) > Limit[o]

(* A new state beyond the limit, or a carry, raises an exception.             *)
LimitExceeded(o, n) == Wrap(signal[o] + n) > Limit[o] \/ Wrap(signal[o] + n) < signal[o]

KeReleaseSemaphore(c, o, n) ==
  /\ Signaller(c)
  /\ ~LimitExceeded(o, n)
  /\ signal' = [signal EXCEPT ![o] = Wrap(@ + n)]
  /\ IF signal[o] = 0 /\ waitList[o] # <<>>
     THEN KiWaitTest(o, c, "unlock") /\ UNCHANGED pc
     ELSE pc' = KeepLock(c) /\ UNCHANGED scan
  /\ UNCHANGED <<waitList, owner, abandoned, call, result, timer, apcDisable, apcVars>>

(* By thread t, the owner (else an exception is raised) unless the mutant is  *)
(* being abandoned; c = t with Wait = TRUE.  Leaving the last mutex enables   *)
(* normal kernel APCs again, and one that is queued becomes pending.          *)
KeReleaseMutant(t, c, o, abandon) ==
  LET new == IF abandon THEN 1 ELSE signal[o] + 1
      leaves == new = 1 /\ signal[o] <= 0 /\ o \in Mutexes
  IN
  /\ Signaller(t) /\ c \in {t, NoThread}
  /\ IF abandon THEN o \notin Mutexes ELSE owner[o] = t
  /\ signal' = [signal EXCEPT ![o] = new]
  /\ abandoned' = [abandoned EXCEPT ![o] = @ \/ abandon]
  /\ apcDisable' = [apcDisable EXCEPT ![t] = IF leaves THEN @ + 1 ELSE @]
  /\ pending' = [pending EXCEPT ![t] =
                   @ \/ (new = 1 /\ signal[o] <= 0 /\ apcDisable'[t] = 0 /\ normalApc[t])]
  /\ owner' = [owner EXCEPT ![o] = IF new = 1 THEN NoThread ELSE @]
  /\ IF new = 1 /\ waitList[o] # <<>>
     THEN KiWaitTest(o, c, "unlock") /\ UNCHANGED pc
     ELSE pc' = KeepLock(c) /\ UNCHANGED scan
  /\ UNCHANGED <<waitList, call, result, timer, alerted, normalApc, userApc, userPending>>

(* Thread exit: every mutant it owns is abandoned (a mutex would stop the     *)
(* system), each with its own scan, all in one locked section.                *)
KeRundownThread(t) ==
  /\ Signaller(t) /\ pc[t] = "run"
  /\ \A o \in Mutexes : owner[o] # t
  /\ pc' = [pc EXCEPT ![t] = "rundown"]
  /\ UNCHANGED <<objectVars, call, result, timer, apcDisable, apcVars, scan>>

KeRundownThreadMutant(t, o) ==
  /\ pc[t] = "rundown" /\ scan.obj = NoObject /\ owner[o] = t
  /\ signal' = [signal EXCEPT ![o] = 1]
  /\ abandoned' = [abandoned EXCEPT ![o] = TRUE]
  /\ owner' = [owner EXCEPT ![o] = NoThread]
  /\ IF waitList[o] # <<>> THEN KiWaitTest(o, t, "rundown") ELSE UNCHANGED scan
  /\ UNCHANGED <<waitList, pc, call, result, timer, apcDisable, apcVars>>

KeRundownThreadEnd(t) ==
  /\ pc[t] = "rundown" /\ scan.obj = NoObject
  /\ \A o \in Mutants : owner[o] # t
  /\ pc' = [pc EXCEPT ![t] = "dead"]
  /\ UNCHANGED <<objectVars, call, result, timer, apcDisable, apcVars, scan>>

-----------------------------------------------------------------------------
(* Waiting: KeWaitForSingleObject, KeWaitForMultipleObjects and               *)
(* KeDelayExecutionThread.                                                    *)

(* KiDeliverApc of kernel APCs: a normal one waits while they are disabled.   *)
DeliverKernel(t) ==
  /\ pending' = [pending EXCEPT ![t] = FALSE]
  /\ normalApc' = [normalApc EXCEPT ![t] = @ /\ apcDisable[t] # 0]

(* Enter the wait, taking the lock unless it is held since the signal.        *)
KeWait(t, c) ==
  /\ pc[t] = "next" \/ (pc[t] = "run" /\ Unlocked)
  /\ call' = [call EXCEPT ![t] = c]
  /\ pc' = [pc EXCEPT ![t] = "loop"]
  /\ result' = [result EXCEPT ![t] = NoStatus]
  /\ UNCHANGED <<objectVars, timer, apcDisable, apcVars, scan>>

(* Mutant: the wait begins without a look at KernelApcPending.                *)
MustRetryNever(t) == FALSE

(* Once round the loop.  First, a pending kernel APC: unlock, so that the     *)
(* interrupt delivers it, and start again.                                    *)
MustRetry(t) == pending[t] /\ call[t].irql0

KeWaitApc(t) ==
  /\ pc[t] = "loop" /\ MustRetry(t)
  /\ DeliverKernel(t)
  /\ pc' = [pc EXCEPT ![t] = "retry"]
  /\ UNCHANGED <<objectVars, call, result, timer, alerted, apcDisable, userApc,
                 userPending, scan>>

(* The objects that satisfy the wait at once: for WaitAny the first in the    *)
(* order of the call, for WaitAll all of them or none.                        *)
Ready(t) ==
  LET objs == call[t].objs IN
  IF call[t].type = "WaitAll"
  THEN IF \A o \in Objs(t) : Satisfiable(t, o) THEN Objs(t) ELSE {}
  ELSE {objs[i] : i \in {k \in 1..Len(objs) :
          Satisfiable(t, objs[k]) /\ \A j \in 1..(k - 1) : ~Satisfiable(t, objs[j])}}

(* Mutant: the recursion limit is not tested.                                 *)
RaisesNever(t) == FALSE

(* A mutant that its owner cannot take once more.                             *)
AtLimit(t, o) == o \in Mutants /\ owner[o] = t /\ signal[o] = MINLONG
Raises(t) == \E o \in (IF call[t].type = "WaitAll" THEN Objs(t) ELSE Ready(t)) : AtLimit(t, o)

Return(t, status) ==
  /\ pc' = [pc EXCEPT ![t] = "run"]
  /\ call' = [call EXCEPT ![t] = NoCall]
  /\ result' = [result EXCEPT ![t] = status]

KeWaitRaise(t) ==
  /\ pc[t] = "loop" /\ ~MustRetry(t) /\ Raises(t)
  /\ Return(t, Status("LIMIT", FALSE))
  /\ UNCHANGED <<objectVars, timer, apcDisable, apcVars, scan>>

KeWaitSatisfied(t) ==
  /\ pc[t] = "loop" /\ ~MustRetry(t) /\ ~Raises(t) /\ Ready(t) # {}
  /\ KiWaitSatisfy(Ready(t), t)
  /\ \E o \in Ready(t) :
       /\ call[t].type = "WaitAll" => o = call[t].objs[1]
       /\ Return(t, Status(o, AcquiresAbandoned(Ready(t))))
  /\ UNCHANGED <<waitList, timer, apcVars, scan>>

NotReady(t) == pc[t] = "loop" /\ ~MustRetry(t) /\ ~Raises(t) /\ Ready(t) = {}

(* TestForAlertPending: an alert in the mode of the wait, a user APC, then an *)
(* alert in kernel mode; a wait that is not alertable only ends for a user    *)
(* APC that is already pending.                                               *)
UserApcReady(t) == call[t].mode = "UserMode" /\
                   IF call[t].alertable THEN userApc[t] ELSE userPending[t]
AlertReady(t) == call[t].alertable /\ alerted[t] \cap {call[t].mode, "KernelMode"} # {}

KeWaitAlerted(t) ==
  /\ NotReady(t)
  /\ \/ /\ AlertReady(t) /\ (call[t].mode \in alerted[t] \/ ~UserApcReady(t))
        /\ alerted' = [alerted EXCEPT ![t] =
                         @ \ {IF call[t].mode \in @ THEN call[t].mode ELSE "KernelMode"}]
        /\ Return(t, Status("ALERTED", FALSE))
        /\ UNCHANGED userPending
     \/ /\ UserApcReady(t) /\ ~(call[t].alertable /\ call[t].mode \in alerted[t])
        /\ userPending' = [userPending EXCEPT ![t] = TRUE]
        /\ Return(t, Status("USER_APC", FALSE))
        /\ UNCHANGED alerted
  /\ UNCHANGED <<objectVars, timer, apcDisable, pending, normalApc, userApc, scan>>

(* The timeout is zero or the time has passed (KiInsertTreeTimer is FALSE).   *)
KeWaitTimeout(t) ==
  /\ NotReady(t) /\ ~AlertReady(t) /\ ~UserApcReady(t)
  /\ call[t].timeout # "absent"
  /\ Return(t, Status("TIMEOUT", FALSE))
  /\ UNCHANGED <<objectVars, timer, apcDisable, apcVars, scan>>

(* Mutant: wait blocks are queued at the head.                                *)
InsertHeadList(list, t) == <<t>> \o list

InsertTailList(list, t) == Append(list, t)

(* Queue a wait block on every object, start the timer, and wait.             *)
KeWaitBlock(t) ==
  /\ NotReady(t) /\ ~AlertReady(t) /\ ~UserApcReady(t)
  /\ call[t].timeout # "zero"
  /\ waitList' = [o \in Objects |-> IF o \in Objs(t) THEN InsertTailList(waitList[o], t)
                                   ELSE waitList[o]]
  /\ timer' = [timer EXCEPT ![t] = call[t].timeout = "time"]
  /\ pc' = [pc EXCEPT ![t] = "wait"]
  /\ result' = [result EXCEPT ![t] = NoStatus]
  /\ UNCHANGED <<signal, owner, abandoned, call, apcDisable, apcVars, scan>>

(* KiSwapThread returns, having delivered a pending kernel APC.  The status   *)
(* KERNEL_APC sends the thread round the loop; any other is returned.         *)
KeWaitResume(t) ==
  /\ pc[t] = "ready"
  /\ IF MustRetry(t) THEN DeliverKernel(t) ELSE UNCHANGED <<pending, normalApc>>
  /\ IF result[t].key = "KERNEL_APC"
     THEN pc' = [pc EXCEPT ![t] = "retry"] /\ UNCHANGED <<call, result>>
     ELSE Return(t, result[t])
  /\ UNCHANGED <<objectVars, timer, alerted, apcDisable, userApc, userPending, scan>>

KeWaitRelock(t) ==
  /\ pc[t] = "retry" /\ Unlocked
  /\ pc' = [pc EXCEPT ![t] = "loop"]
  /\ UNCHANGED <<objectVars, call, result, timer, apcDisable, apcVars, scan>>

-----------------------------------------------------------------------------
(* What else ends a wait.                                                     *)

KiTimerExpire(t) ==
  /\ Unlocked /\ timer[t]
  /\ KiUnwaitThread(pc, t, "TIMEOUT", FALSE)
  /\ UNCHANGED <<signal, owner, abandoned, call, apcDisable, apcVars, scan>>

(* Mutant: only an alert in the very mode of the wait ends it.                *)
KeAlertThreadSameMode(t, mode) ==
  /\ Unlocked /\ pc[t] # "dead" /\ mode \notin alerted[t]
  /\ IF pc[t] = "wait" /\ call[t].alertable /\ mode = call[t].mode
     THEN KiUnwaitThread(pc, t, "ALERTED", FALSE) /\ UNCHANGED alerted
     ELSE /\ alerted' = [alerted EXCEPT ![t] = @ \cup {mode}]
          /\ UNCHANGED <<result, waitList, timer, pc>>
  /\ UNCHANGED <<signal, owner, abandoned, call, apcDisable, pending, normalApc,
                 userApc, userPending, scan>>

(* AlertMode <= WaitMode, KernelMode being 0.                                 *)
KeAlertThread(t, mode) ==
  /\ Unlocked /\ pc[t] # "dead" /\ mode \notin alerted[t]
  /\ IF pc[t] = "wait" /\ call[t].alertable /\ mode \in {"KernelMode", call[t].mode}
     THEN KiUnwaitThread(pc, t, "ALERTED", FALSE) /\ UNCHANGED alerted
     ELSE /\ alerted' = [alerted EXCEPT ![t] = @ \cup {mode}]
          /\ UNCHANGED <<result, waitList, timer, pc>>
  /\ UNCHANGED <<signal, owner, abandoned, call, apcDisable, pending, normalApc,
                 userApc, userPending, scan>>

KeTestAlertThread(t, mode) ==
  /\ Signaller(t) /\ pc[t] = "run"
  /\ IF mode \in alerted[t]
     THEN alerted' = [alerted EXCEPT ![t] = @ \ {mode}] /\ UNCHANGED userPending
     ELSE /\ userPending' = [userPending EXCEPT ![t] = @ \/ (mode = "UserMode" /\ userApc[t])]
          /\ UNCHANGED alerted
  /\ UNCHANGED <<objectVars, pc, call, result, timer, apcDisable, pending, normalApc,
                 userApc, scan>>

(* A special or normal kernel APC is queued to t.                             *)
KiInsertQueueApcKernel(t, kind) ==
  /\ Unlocked /\ pc[t] # "dead" /\ kind \in {"special", "normal"}
  /\ pending' = [pending EXCEPT ![t] = TRUE]
  /\ normalApc' = [normalApc EXCEPT ![t] = @ \/ kind = "normal"]
  /\ IF /\ pc[t] = "wait" /\ call[t].irql0
        /\ kind = "special" \/ apcDisable[t] = 0
     THEN KiUnwaitThread(pc, t, "KERNEL_APC", FALSE)
     ELSE UNCHANGED <<result, waitList, timer, pc>>
  /\ UNCHANGED <<signal, owner, abandoned, call, alerted, apcDisable, userApc,
                 userPending, scan>>

(* A user APC is queued to t; the exit APC is queued by t itself, from a      *)
(* kernel APC (PspExitNormalApc), and is pending at once.                     *)
KiInsertQueueApcUser(t, kind) ==
  /\ Unlocked /\ pc[t] # "dead" /\ kind \in {"user", "exit"}
  /\ kind = "exit" => pc[t] \in {"run", "retry"}
  /\ userApc' = [userApc EXCEPT ![t] = TRUE]
  /\ LET wake == pc[t] = "wait" /\ call[t].mode = "UserMode" /\ call[t].alertable IN
     /\ userPending' = [userPending EXCEPT ![t] = @ \/ kind = "exit" \/ wake]
     /\ IF wake THEN KiUnwaitThread(pc, t, "USER_APC", FALSE)
        ELSE UNCHANGED <<result, waitList, timer, pc>>
  /\ UNCHANGED <<signal, owner, abandoned, call, alerted, apcDisable, pending,
                 normalApc, scan>>

(* An APC interrupt, or the return to user mode with user APCs pending: one   *)
(* is delivered, and more may be queued, unless a kernel APC has to wait.     *)
KiDeliverApc(t) ==
  /\ pc[t] = "run" \/ (pc[t] = "retry" /\ call[t].irql0)
  /\ \/ pending[t] /\ DeliverKernel(t) /\ UNCHANGED <<userApc, userPending>>
     \/ /\ pc[t] = "run" /\ userPending[t] /\ ~(normalApc[t] /\ apcDisable[t] # 0)
        /\ DeliverKernel(t)
        /\ userPending' = [userPending EXCEPT ![t] = FALSE]
        /\ \E more \in BOOLEAN : userApc' = [userApc EXCEPT ![t] = more]
  /\ UNCHANGED <<objectVars, pc, call, result, timer, alerted, apcDisable, scan>>

-----------------------------------------------------------------------------
(* The objects as they are initialised: an event in either state, a semaphore *)
(* with any count up to its limit, a mutant free or owned by its creator      *)
(* (KeInitializeMutex leaves a mutex free).                                   *)
KeInitializeEvent(o) == signal[o] \in {0, 1} /\ owner[o] = NoThread

KeInitializeSemaphore(o) == signal[o] \in 0..Limit[o] /\ owner[o] = NoThread

KeInitializeMutant(o) == /\ signal[o] = IF owner[o] = NoThread THEN 1 ELSE 0
                         /\ o \in Mutexes => owner[o] = NoThread

Init ==
  /\ owner \in [Objects -> Threads \cup {NoThread}]
  /\ signal \in [Objects -> 0..MAXLONG]
  /\ \A o \in Events : KeInitializeEvent(o)
  /\ \A o \in Semaphores : KeInitializeSemaphore(o)
  /\ \A o \in Mutants : KeInitializeMutant(o)
  /\ waitList = [o \in Objects |-> <<>>]
  /\ abandoned = [o \in Objects |-> FALSE]
  /\ pc = [t \in Threads |-> "run"]
  /\ call = [t \in Threads |-> NoCall]
  /\ result = [t \in Threads |-> NoStatus]
  /\ timer = [t \in Threads |-> FALSE]
  /\ alerted = [t \in Threads |-> {}]
  /\ apcDisable = [t \in Threads |-> 0]
  /\ pending = [t \in Threads |-> FALSE]
  /\ normalApc = [t \in Threads |-> FALSE]
  /\ userApc = [t \in Threads |-> FALSE]
  /\ userPending = [t \in Threads |-> FALSE]
  /\ scan = NoScan

SignalStep(c) ==
  \/ \E o \in Events : KeSetEvent(c, o) \/ KePulseEvent(c, o)
  \/ \E o \in Semaphores, n \in Adjustments : KeReleaseSemaphore(c, o, n)

ThreadStep(t) ==
  \/ \E o \in Mutants, c \in {t, NoThread}, abandon \in BOOLEAN :
       KeReleaseMutant(t, c, o, abandon)
  \/ KeRundownThread(t) \/ KeRundownThreadEnd(t)
  \/ \E o \in Mutants : KeRundownThreadMutant(t, o)
  \/ \E c \in Calls : KeWait(t, c)
  \/ KeWaitApc(t) \/ KeWaitRaise(t) \/ KeWaitSatisfied(t) \/ KeWaitAlerted(t)
  \/ KeWaitTimeout(t) \/ KeWaitBlock(t) \/ KeWaitResume(t) \/ KeWaitRelock(t)
  \/ KiTimerExpire(t) \/ KiDeliverApc(t)
  \/ \E mode \in AlertModes : KeAlertThread(t, mode) \/ KeTestAlertThread(t, mode)
  \/ \E kind \in Apcs : KiInsertQueueApcKernel(t, kind) \/ KiInsertQueueApcUser(t, kind)

Next == \/ \E t \in Threads : ThreadStep(t)
        \/ \E c \in Threads \cup {NoThread} : SignalStep(c)
        \/ \E o \in Events : KeSetEventBoostPriority(o) \/ KeResetEvent(o) \/ KeClearEvent(o)
        \/ KiWaitTestStep \/ KiWaitTestEnd

Spec == Init /\ [][Next]_vars

(* Scheduling.  A thread that has the lock, or is ready, goes on; one that    *)
(* spins for the lock gets it in the end (SF, the lock comes and goes); the   *)
(* owner of a mutant gives it up in the end.  (Kernel APCs, each of which     *)
(* makes a waiting thread queue again behind the others, could starve it.)    *)
GoOn(t) ==
  \/ KeWaitApc(t) \/ KeWaitRaise(t) \/ KeWaitSatisfied(t) \/ KeWaitAlerted(t)
  \/ KeWaitTimeout(t) \/ KeWaitBlock(t) \/ KeWaitResume(t) \/ KeWaitRelock(t)
  \/ KeRundownThreadEnd(t) \/ \E o \in Mutants : KeRundownThreadMutant(t, o)
  \/ pc[t] = "next" /\ \E c \in Calls : KeWait(t, c)

FairSpec ==
  /\ Spec
  /\ WF_vars(KiWaitTestStep) /\ WF_vars(KiWaitTestEnd)
  /\ \A t \in Threads : /\ SF_vars(GoOn(t))
                         /\ \A o \in Mutants : owner[o] = t ~> owner[o] # t

-----------------------------------------------------------------------------
(* The types; with them the ranges of SignalState that overflow, limits and   *)
(* decrements must respect.                                                   *)
TypeOK ==
  /\ signal \in [Objects -> MINLONG..MAXLONG]
  /\ \A o \in Events : signal[o] \in {0, 1}
  /\ \A o \in Semaphores : signal[o] \in 0..Limit[o]
  /\ waitList \in [Objects -> Seq(Threads)]
  /\ owner \in [Objects -> Threads \cup {NoThread}]
  /\ abandoned \in [Objects -> BOOLEAN]
  /\ pc \in [Threads -> {"run", "next", "loop", "retry", "wait", "ready", "rundown", "dead"}]
  /\ call \in [Threads -> Calls \cup {NoCall}]
  /\ result \in [Threads -> [key: Objects \cup Statuses, abandoned: BOOLEAN]]
  /\ timer \in [Threads -> BOOLEAN]
  /\ alerted \in [Threads -> SUBSET Modes]
  /\ apcDisable \in [Threads -> Int]
  /\ pending \in [Threads -> BOOLEAN]
  /\ normalApc \in [Threads -> BOOLEAN]
  /\ userApc \in [Threads -> BOOLEAN]
  /\ userPending \in [Threads -> BOOLEAN]
  /\ scan \in [obj: Objects \cup {NoObject}, pos: Nat \ {0},
               by: Threads \cup {NoThread}, then: {"unlock", "pulse", "rundown"}]

(* No lost wakeup: whenever the lock is free, no waiting thread has what it   *)
(* waits for, whatever mixture of WaitAny and WaitAll waits, direct unwaits   *)
(* (KeSetEvent), scans (KiWaitTest) and unlocked clears (KeClearEvent) led    *)
(* there.                                                                     *)
WaitOver(t) == IF call[t].type = "WaitAll"
               THEN \A o \in Objs(t) : Satisfiable(t, o)
               ELSE \E o \in Objs(t) : Satisfiable(t, o)
NoLostWakeup == Unlocked => \A t \in Threads : pc[t] = "wait" => ~WaitOver(t)

(* A thread has one wait block on each object of its wait, exactly while it   *)
(* waits; its timer runs only then.                                           *)
WaitBlocksExact ==
  /\ \A t \in Threads : timer[t] => pc[t] = "wait"
  /\ \A o \in Objects, t \in Threads :
       Cardinality({i \in 1..Len(waitList[o]) : waitList[o][i] = t})
         = IF pc[t] = "wait" /\ o \in Objs(t) THEN 1 ELSE 0

(* A mutant is owned exactly while its SignalState is not positive, by a live *)
(* thread, and its recursion count never passes MINLONG, also when a wait for *)
(* several objects is satisfied by KiWaitTest, which does not test for it.    *)
MutantOwned ==
  \A o \in Mutants : /\ signal[o] <= 0 <=> owner[o] # NoThread
                     /\ signal[o] \in MINLONG..1
                     /\ owner[o] \in Threads => pc[owner[o]] # "dead"

(* Normal kernel APCs are disabled in a thread once for each mutex it owns,   *)
(* however it acquired them (KernelApcDisable counts down).                   *)
ApcDisableExact ==
  \A t \in Threads : apcDisable[t] = -Cardinality({o \in Mutexes : owner[o] = t})

(* No kernel APC is forgotten: a normal APC that may be delivered is pending, *)
(* and a thread that waits below APC_LEVEL with an APC pending has them       *)
(* disabled.                                                                  *)
ApcNotLost ==
  \A t \in Threads :
    /\ normalApc[t] /\ apcDisable[t] = 0 /\ pc[t] # "dead" => pending[t]
    /\ pc[t] = "wait" /\ call[t].irql0 /\ pending[t] => apcDisable[t] # 0

(* No alertable wait goes on with an alert or a user APC that should end it,  *)
(* and no user mode wait at all with a user APC pending: the test before the  *)
(* wait (TestForAlertPending) and the wakers agree.                           *)
AlertNotLost ==
  \A t \in Threads : pc[t] = "wait" => ~AlertReady(t) /\ ~UserApcReady(t)

(* A step in which t's wait is satisfied by objects, and which objects.       *)
Completes(t) == result'[t] # result[t] /\ result'[t].key \in Objects
TakenBy(t) == IF call[t].type = "WaitAll" THEN Objs(t) ELSE {result'[t].key}

(* A satisfied wait takes all that it waited for, once, and nothing is taken  *)
(* but by a satisfied wait: no semaphore count or mutant is lost, shared, or  *)
(* held by a WaitAll that goes on waiting.                                    *)
TakesAll ==
  \A t \in Threads : Completes(t) => \A o \in TakenBy(t) :
    /\ Kind[o] = "Semaphore" => signal[o] > 0 /\ signal'[o] = signal[o] - 1
    /\ Kind[o] = "SynchronizationEvent" => signal'[o] = 0
    /\ Kind[o] = "Mutant" => owner'[o] = t /\ owner[o] \in {t, NoThread}
TakesNothingElse ==
  \A o \in Objects :
    \/ Kind[o] = "Semaphore" /\ signal'[o] < signal[o]
    \/ Kind[o] = "Mutant" /\ owner'[o] \notin {owner[o], NoThread}
    => \E t \in Threads : Completes(t) /\ o \in TakenBy(t)
AllOrNothing == [][TakesAll /\ TakesNothingElse]_vars

(* STATUS_ABANDONED is reported exactly once, to the thread that acquires the *)
(* abandoned mutant, also through a WaitAll and the OR of KiUnwaitThread.     *)
ReportsAbandoned ==
  \A t \in Threads : Completes(t) =>
    (result'[t].abandoned <=> \E o \in Mutants : abandoned[o] /\ ~abandoned'[o])
AbandonReported == [][ReportsAbandoned]_vars

(* No thread that waits for a mutant alone is starved: a release passes the   *)
(* mutant to the oldest waiter under the lock, and neither a running thread   *)
(* nor one that asks again and again can take it first.                       *)
MutantGranted ==
  \A t \in Threads, o \in Mutants :
    pc[t] = "wait" /\ Objs(t) = {o} ~> pc[t] \in {"run", "dead"}
=============================================================================
