----------------------------- MODULE MCKeWait ------------------------------
(* KeWait for TLC: one set of objects and calls per question.                 *)
EXTENDS KeWait, TLC
CONSTANTS t1, t2, t3, ne, se, sm, mu, mx

Call(objs, type, timeout) ==
  [objs |-> objs, type |-> type, mode |-> "KernelMode", alertable |-> FALSE,
   timeout |-> timeout, irql0 |-> TRUE]

KindOf == [o \in Objects |->
  CASE o = ne -> "NotificationEvent" [] o = se -> "SynchronizationEvent"
    [] o = sm -> "Semaphore" [] OTHER -> "Mutant"]
LimitOf == [o \in Objects |-> MAXLONG]
TwoBits == -2
ThreeBits == -4
ThreadSymmetry == Permutations(Threads)

(* Events and a semaphore, alone, in any and in all.                          *)
SignalCalls == {Call(<<sm, se>>, "WaitAny", "absent"), Call(<<se>>, "WaitAny", "absent"), Call(<<sm, ne>>, "WaitAny", "zero"),
                Call(<<se, sm>>, "WaitAll", "absent"), Call(<<ne, sm>>, "WaitAll", "time")}

(* A mutant, a mutex and a semaphore, with kernel APCs.                       *)
MutantCalls == {Call(<<mu>>, "WaitAny", "absent"), Call(<<mx, sm>>, "WaitAny", "time"),
                Call(<<mu, mx>>, "WaitAll", "absent")}

(* One mutex.                                                                 *)
MutexCalls == {Call(<<mx>>, "WaitAny", "absent")}

(* Modes and alertability of a wait for one event, and of a delay.            *)
AlertCalls == [objs: {<<se>>}, type: {"WaitAny"}, mode: Modes, alertable: BOOLEAN,
               timeout: {"absent"}, irql0: {TRUE}]
              \cup {[Call(<<>>, "WaitAny", "time") EXCEPT !.alertable = TRUE, !.irql0 = FALSE]}
=============================================================================
