------------------------------ MODULE RWLock -------------------------------
(* What an executive resource promises its callers: a lock that one owner     *)
(* holds exclusively or several hold shared, each as often as it acquired it. *)
(* An owner is a thread, or the pointer a thread handed its ownership to.     *)
EXTENDS Naturals

CONSTANTS Owners, Nobody

VARIABLES
  hold,   \* how often each owner holds the lock
  writer  \* the exclusive owner, or Nobody

RWInit == hold = [o \in Owners |-> 0] /\ writer = Nobody

Acquire(R) == hold' = [o \in Owners |-> IF o \in R THEN hold[o] + 1 ELSE hold[o]]

AcquireExclusive(o) ==
  /\ writer = o \/ \A p \in Owners : hold[p] = 0
  /\ Acquire({o})
  /\ writer' = o

(* Several waiting readers may be admitted at once.                           *)
AcquireShared(R) ==
  /\ R # {} /\ writer = Nobody
  /\ Acquire(R)
  /\ UNCHANGED writer

Release(o) ==
  /\ hold[o] > 0
  /\ hold' = [hold EXCEPT ![o] = @ - 1]
  /\ writer' = IF hold[o] = 1 THEN Nobody ELSE writer

Convert(o) == writer = o /\ writer' = Nobody /\ UNCHANGED hold

(* Ownership of o, with its count, passes to p.                               *)
Transfer(o, p) ==
  /\ hold[o] > 0 /\ hold[p] = 0 /\ o # p
  /\ hold' = [hold EXCEPT ![o] = 0, ![p] = hold[o]]
  /\ writer' = IF writer = o THEN p ELSE writer

RWNext ==
  \/ \E o \in Owners : AcquireExclusive(o) \/ Release(o) \/ Convert(o)
  \/ \E R \in SUBSET Owners : AcquireShared(R)
  \/ \E o, p \in Owners : Transfer(o, p)

RWSpec == RWInit /\ [][RWNext]_<<hold, writer>>
=============================================================================
