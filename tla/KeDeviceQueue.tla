--------------------------- MODULE KeDeviceQueue ---------------------------
(* Device queues (ntos/ke/devquobj.c) and the IRPs that the I/O manager       *)
(* passes through them (ntos/io/iosubs.c: IoStartPacket, IoStartNextPacket,   *)
(* IoStartNextPacketByKey, IoCancelIrp).                                      *)
(*                                                                            *)
(* Nobody owns a device but through its Busy flag: whoever finds it FALSE     *)
(* starts the device, and goes on starting it, IRP after IRP, until the queue *)
(* is empty.  IRPs are dispatched, started and cancelled on any processor.    *)
(* The queue's own spin lock makes each queue operation one action; the       *)
(* global cancel spin lock is held over several, but only by those that deal  *)
(* with cancelable IRPs.                                                      *)
(*                                                                            *)
(* The driver is external: its StartIo routine, its DPC and its cancel        *)
(* routine follow the protocol that the comments of iosubs.c ask of them.     *)
EXTENDS Naturals, Sequences, FiniteSets, SequencesExt

CONSTANTS
  Irps,
  Key,          \* the sort key of each IRP
  SortKeys,     \* the keys IoStartNextPacketByKey is called with
  Null

(* Where an IRP can be cancelled or completed, and the next one started from. *)
Contexts == {"io", "cancel"} \X Irps

ASSUME DeviceAssumption ==
  /\ IsFiniteSet(Irps) /\ Null \notin Irps \cup Contexts /\ Irps \cap Contexts = {}
  /\ Key \in [Irps -> Nat] /\ SortKeys \subseteq Nat

VARIABLES
  Busy, list,      \* the device queue
  Inserted,        \* of each IRP's queue entry
  CurrentIrp,      \* of the device object
  Cancel,          \* of each IRP
  CancelRoutine,   \* of each IRP: is it set?
  cancelLock,      \* who holds IopCancelSpinLock: a context, an IRP being dispatched, Null
  keyed,           \* does the driver use sort keys?
  cancelable,      \* the IRPs for which it has a cancel routine
  disp,            \* IoStartPacket of each IRP
  io,              \* DriverStartIo and the device, for each IRP
  canc,            \* the cancel routine of each IRP
  next,            \* IoStartNextPacket, in each context
  completed        \* how often each IRP was completed

queue == <<Busy, list, Inserted>>
driver == <<keyed, cancelable>>
vars == <<Busy, list, Inserted, CurrentIrp, Cancel, CancelRoutine, cancelLock, keyed,
          cancelable, disp, io, canc, next, completed>>

NotNext == [pc |-> "none", irp |-> Null]

(* IoCreateDevice initialises the queue, KeInitializeDeviceQueue.             *)
Init ==
  /\ Busy = FALSE /\ list = <<>> /\ Inserted = [i \in Irps |-> FALSE]
  /\ CurrentIrp = Null
  /\ Cancel = [i \in Irps |-> FALSE] /\ CancelRoutine = [i \in Irps |-> FALSE]
  /\ cancelLock = Null /\ keyed \in BOOLEAN /\ cancelable \in SUBSET Irps
  /\ disp = [i \in Irps |-> "idle"] /\ io = [i \in Irps |-> "none"]
  /\ canc = [i \in Irps |-> "none"] /\ next = [c \in Contexts |-> NotNext]
  /\ completed = [i \in Irps |-> 0]

-----------------------------------------------------------------------------
(* The queue, devquobj.c.                                                     *)

(* The first of the positions, if there is one.                               *)
First(positions, default) ==
  IF positions = {} THEN default ELSE CHOOSE p \in positions : \A q \in positions : p <= q

(* KeInsertDeviceQueue and KeInsertByKeyDeviceQueue put an entry at the tail, *)
(* or before the first with a greater key.                                    *)
InsertPosition(i) ==
  IF keyed THEN First({p \in 1..Len(list) : Key[i] < Key[list[p]]}, Len(list) + 1)
  ELSE Len(list) + 1

KeInsertDeviceQueue(i) ==
  /\ Busy' = TRUE
  /\ list' = IF Busy THEN InsertAt(list, InsertPosition(i), i) ELSE list
  /\ Inserted' = [Inserted EXCEPT ![i] = Busy]

(* Mutant: the device stays busy when the queue is empty.                     *)
KeRemoveDeviceQueueKeepsBusy(positions) ==
  LET p == First(positions, 1) IN
  /\ UNCHANGED Busy
  /\ list' = IF list = <<>> THEN list ELSE RemoveAt(list, p)
  /\ Inserted' = IF list = <<>> THEN Inserted ELSE [Inserted EXCEPT ![list[p]] = FALSE]

(* KeRemoveDeviceQueue and KeRemoveByKeyDeviceQueue take the first of the     *)
(* positions asked for, or the head; an empty queue makes the device free.    *)
KeRemoveDeviceQueue(positions) ==
  LET p == First(positions, 1) IN
  /\ Busy' = (Busy /\ list # <<>>)
  /\ list' = IF list = <<>> THEN list ELSE RemoveAt(list, p)
  /\ Inserted' = IF list = <<>> THEN Inserted ELSE [Inserted EXCEPT ![list[p]] = FALSE]

(* KeRemoveEntryDeviceQueue.                                                  *)
KeRemoveEntryDeviceQueue(i) ==
  /\ list' = IF Inserted[i] THEN RemoveAt(list, First({p \in 1..Len(list) : list[p] = i}, 1)) ELSE list
  /\ Inserted' = [Inserted EXCEPT ![i] = FALSE]
  /\ UNCHANGED Busy

-----------------------------------------------------------------------------
(* IoStartPacket, called by the driver's dispatch routine.                    *)

(* For a cancelable IRP: take the cancel spin lock and set the routine.       *)
IoStartPacket(i) ==
  /\ disp[i] = "idle"
  /\ disp' = [disp EXCEPT ![i] = "insert"]
  /\ \/ i \notin cancelable /\ UNCHANGED <<cancelLock, CancelRoutine>>
     \/ /\ i \in cancelable /\ cancelLock = Null
        /\ cancelLock' = i /\ CancelRoutine' = [CancelRoutine EXCEPT ![i] = TRUE]
  /\ UNCHANGED <<queue, CurrentIrp, Cancel, driver, io, canc, next, completed>>

(* Insert the IRP, by key if the driver uses keys.                            *)
Insert(i) ==
  /\ disp[i] = "insert"
  /\ KeInsertDeviceQueue(i)
  /\ disp' = [disp EXCEPT ![i] = IF Busy THEN "check" ELSE "current"]
  /\ UNCHANGED <<CurrentIrp, Cancel, CancelRoutine, cancelLock, driver, io, canc, next, completed>>

Unlock(holder) == cancelLock' = IF cancelLock = holder THEN Null ELSE cancelLock

(* The device was free: the IRP is the current one, and is started.           *)
MakeCurrent(i) ==
  /\ disp[i] = "current"
  /\ CurrentIrp' = i /\ Unlock(i)
  /\ disp' = [disp EXCEPT ![i] = "done"] /\ io' = [io EXCEPT ![i] = "start"]
  /\ UNCHANGED <<queue, Cancel, CancelRoutine, driver, canc, next, completed>>

(* It was queued: if it has been cancelled already, the cancel routine is     *)
(* called, with the cancel spin lock.                                         *)
CheckCancel(i) ==
  /\ disp[i] = "check"
  /\ disp' = [disp EXCEPT ![i] = "done"]
  /\ \/ /\ i \in cancelable /\ Cancel[i]
        /\ CancelRoutine' = [CancelRoutine EXCEPT ![i] = FALSE]
        /\ canc' = [canc EXCEPT ![i] = "routine"] /\ cancelLock' = <<"cancel", i>>
     \/ /\ ~(i \in cancelable /\ Cancel[i])
        /\ Unlock(i) /\ UNCHANGED <<CancelRoutine, canc>>
  /\ UNCHANGED <<queue, CurrentIrp, Cancel, driver, io, next, completed>>

-----------------------------------------------------------------------------
(* IoStartNextPacket and IoStartNextPacketByKey, in any context.              *)

(* Mutant: the driver's IRPs are cancelable, but the lock is not taken.       *)
IoStartNextPacketUnlocked(c) ==
  /\ next[c].pc = "next"
  /\ UNCHANGED cancelLock
  /\ CurrentIrp' = Null
  /\ next' = [next EXCEPT ![c].pc = "remove"]
  /\ UNCHANGED <<queue, Cancel, CancelRoutine, driver, disp, io, canc, completed>>

(* Cancelable: take the cancel spin lock; no IRP is current.                  *)
IoStartNextPacket(c) ==
  /\ next[c].pc = "next"
  /\ \/ cancelable = {} /\ UNCHANGED cancelLock
     \/ cancelable # {} /\ cancelLock = Null /\ cancelLock' = c
  /\ CurrentIrp' = Null
  /\ next' = [next EXCEPT ![c].pc = "remove"]
  /\ UNCHANGED <<queue, Cancel, CancelRoutine, driver, disp, io, canc, completed>>

(* Mutant: the lock is not released if the queue is empty.                    *)
RemoveNextKeepsLock(c, positions) ==
  LET p == First(positions, 1) IN
  /\ next[c].pc = "remove"
  /\ KeRemoveDeviceQueue(positions)
  /\ next' = [next EXCEPT ![c] = IF list = <<>> THEN NotNext ELSE [pc |-> "make", irp |-> list[p]]]
  /\ UNCHANGED <<CurrentIrp, Cancel, CancelRoutine, cancelLock, driver, disp, io, canc, completed>>

(* Take the next IRP from the queue; if there is none the device is free.     *)
RemoveNext(c, positions) ==
  LET p == First(positions, 1) IN
  /\ next[c].pc = "remove"
  /\ KeRemoveDeviceQueue(positions)
  /\ \/ /\ list = <<>>
        /\ next' = [next EXCEPT ![c] = NotNext] /\ Unlock(c)
     \/ /\ list # <<>>
        /\ next' = [next EXCEPT ![c] = [pc |-> "make", irp |-> list[p]]] /\ UNCHANGED cancelLock
  /\ UNCHANGED <<CurrentIrp, Cancel, CancelRoutine, driver, disp, io, canc, completed>>

(* The IRP that was taken is the current one, and is started.                 *)
MakeNext(c) ==
  LET i == next[c].irp IN
  /\ next[c].pc = "make"
  /\ CurrentIrp' = i /\ Unlock(c)
  /\ next' = [next EXCEPT ![c] = NotNext] /\ io' = [io EXCEPT ![i] = "start"]
  /\ UNCHANGED <<queue, Cancel, CancelRoutine, driver, disp, canc, completed>>

-----------------------------------------------------------------------------
(* Cancelling, and the driver's routines.                                     *)

(* Mutant: the routine is read, but not cleared.                              *)
IoCancelIrpKeepsRoutine(i) ==
  /\ completed[i] = 0 /\ cancelLock = Null
  /\ Cancel' = [Cancel EXCEPT ![i] = TRUE]
  /\ IF CancelRoutine[i] THEN canc' = [canc EXCEPT ![i] = "routine"] /\ cancelLock' = <<"cancel", i>>
     ELSE UNCHANGED <<canc, cancelLock>>
  /\ UNCHANGED <<queue, CurrentIrp, CancelRoutine, driver, disp, io, next, completed>>

(* IoCancelIrp, which is only called for an IRP that is not yet completed.    *)
IoCancelIrp(i) ==
  /\ completed[i] = 0 /\ cancelLock = Null
  /\ Cancel' = [Cancel EXCEPT ![i] = TRUE]
  /\ CancelRoutine' = [CancelRoutine EXCEPT ![i] = FALSE]
  /\ \/ /\ CancelRoutine[i]
        /\ canc' = [canc EXCEPT ![i] = "routine"] /\ cancelLock' = <<"cancel", i>>
     \/ ~CancelRoutine[i] /\ UNCHANGED <<canc, cancelLock>>
  /\ UNCHANGED <<queue, CurrentIrp, driver, disp, io, next, completed>>

Complete(i) == completed' = [completed EXCEPT ![i] = @ + 1]

StartNext(c) == next' = [next EXCEPT ![c].pc = "next"]

(* The cancel routine, entered with the cancel spin lock: it releases the     *)
(* lock, takes the IRP from the queue, or starts the next if it is the        *)
(* current one, and completes it.                                             *)
CancelFunction(i) ==
  /\ canc[i] = "routine"
  /\ canc' = [canc EXCEPT ![i] = "none"] /\ Unlock(<<"cancel", i>>)
  /\ Complete(i)
  /\ \/ CurrentIrp = i /\ StartNext(<<"cancel", i>>) /\ UNCHANGED queue
     \/ CurrentIrp # i /\ KeRemoveEntryDeviceQueue(i) /\ UNCHANGED next
  /\ UNCHANGED <<CurrentIrp, Cancel, CancelRoutine, driver, disp, io>>

(* DriverStartIo: under the cancel spin lock, see whether the IRP has been    *)
(* cancelled.  Unless its cancel routine has been called it is the caller's:  *)
(* it goes to the device, or is completed as cancelled.                       *)
DriverStartIo(i) ==
  LET taken == i \in cancelable /\ ~CancelRoutine[i] IN
  /\ io[i] = "start" /\ (i \in cancelable => cancelLock = Null)
  /\ CancelRoutine' = [CancelRoutine EXCEPT ![i] = FALSE]
  /\ \/ taken /\ io' = [io EXCEPT ![i] = "none"] /\ UNCHANGED <<next, completed>>
     \/ /\ ~taken /\ i \in cancelable /\ Cancel[i]
        /\ io' = [io EXCEPT ![i] = "none"] /\ Complete(i) /\ StartNext(<<"io", i>>)
     \/ /\ ~taken /\ ~(i \in cancelable /\ Cancel[i])
        /\ io' = [io EXCEPT ![i] = "device"] /\ UNCHANGED <<next, completed>>
  /\ UNCHANGED <<queue, CurrentIrp, Cancel, cancelLock, driver, disp, canc>>

(* The device has finished; the driver's DPC completes the IRP.               *)
DpcForIsr(i) ==
  /\ io[i] = "device"
  /\ io' = [io EXCEPT ![i] = "none"]
  /\ Complete(i) /\ StartNext(<<"io", i>>)
  /\ UNCHANGED <<queue, CurrentIrp, Cancel, CancelRoutine, cancelLock, driver, disp, canc>>

-----------------------------------------------------------------------------
ByKey(k) == {p \in 1..Len(list) : k <= Key[list[p]]}

Dispatch(i) == IoStartPacket(i) \/ Insert(i) \/ MakeCurrent(i) \/ CheckCancel(i)
Driver(i) == CancelFunction(i) \/ DriverStartIo(i) \/ DpcForIsr(i)
GoOn(c) ==
  \/ IoStartNextPacket(c) \/ RemoveNext(c, {}) \/ MakeNext(c)
  \/ keyed /\ \E k \in SortKeys : RemoveNext(c, ByKey(k))

(* All IRPs have been completed and nothing is under way.                     *)
Finished ==
  /\ \A i \in Irps : completed[i] > 0 /\ io[i] = "none" /\ canc[i] = "none" /\ disp[i] = "done"
  /\ \A c \in Contexts : next[c] = NotNext
  /\ UNCHANGED vars

Next ==
  \/ \E i \in Irps : Dispatch(i) \/ Driver(i) \/ IoCancelIrp(i)
  \/ \E c \in Contexts : GoOn(c)
  \/ Finished

Spec == Init /\ [][Next]_vars

(* Processors go on with what they are doing, the device finishes what was    *)
(* started.  Nobody has to dispatch or to cancel an IRP.                      *)
FairSpec ==
  /\ Spec
  /\ \A i \in Irps : WF_vars(disp[i] # "idle" /\ Dispatch(i)) /\ WF_vars(Driver(i))
  /\ \A c \in Contexts : WF_vars(GoOn(c))
-----------------------------------------------------------------------------
(* Properties.                                                                *)

TypeOK ==
  /\ Busy \in BOOLEAN /\ list \in Seq(Irps) /\ Inserted \in [Irps -> BOOLEAN]
  /\ CurrentIrp \in Irps \cup {Null} /\ keyed \in BOOLEAN /\ cancelable \subseteq Irps
  /\ Cancel \in [Irps -> BOOLEAN] /\ CancelRoutine \in [Irps -> BOOLEAN]
  /\ cancelLock \in Contexts \cup Irps \cup {Null}
  /\ disp \in [Irps -> {"idle", "insert", "current", "check", "done"}]
  /\ io \in [Irps -> {"none", "start", "device"}] /\ canc \in [Irps -> {"none", "routine"}]
  /\ next \in [Contexts -> [pc: {"none", "next", "remove", "make"}, irp: Irps \cup {Null}]]
  /\ completed \in [Irps -> 0..1]

(* Those who act for the device: an IRP that found it free, an IRP at or on   *)
(* its way to the device, a cancel routine that was called for the current    *)
(* IRP, and IoStartNextPacket.                                                *)
Owners ==
  {<<"start", i>> : i \in {j \in Irps : disp[j] = "current"}}
  \cup {<<"io", i>> : i \in {j \in Irps :
          io[j] = "device" \/ (io[j] = "start" /\ (j \in cancelable => CancelRoutine[j]))}}
  \cup {<<"cancel", i>> : i \in {j \in Irps : canc[j] = "routine" /\ CurrentIrp = j}}
  \cup {<<"next", c>> : c \in {d \in Contexts : next[d] # NotNext}}

(* The device is busy exactly while one, and only one, acts for it: no IRP is *)
(* queued to an idle device, where nobody would start it, and no two IRPs     *)
(* are started at once, however dispatching, completing and cancelling        *)
(* interleave around the Busy flag of devquobj.c.                             *)
OneOwner ==
  /\ Cardinality(Owners) = IF Busy THEN 1 ELSE 0
  /\ list # <<>> => Busy
  /\ \A i \in Irps : io[i] = "device" => CurrentIrp = i

(* An entry says Inserted exactly if it is in the queue, once; the IRPs there *)
(* are in the order of their keys; and a completed IRP, which its issuer may  *)
(* free, is neither queued nor at the device nor about to be made current.    *)
CompletedGone ==
  /\ \A i \in Irps : Cardinality({p \in 1..Len(list) : list[p] = i}) = IF Inserted[i] THEN 1 ELSE 0
  /\ keyed => \A p \in 1..(Len(list) - 1) : Key[list[p]] <= Key[list[p + 1]]
  /\ \A i \in Irps : completed[i] > 0 =>
       ~Inserted[i] /\ io[i] # "device" /\ \A c \in Contexts : next[c].irp # i

(* An IRP that is dispatched is completed, by the device or by its cancel     *)
(* routine; one that is cancelled before it is queued is not forgotten.       *)
IrpCompletes == \A i \in Irps : disp[i] # "idle" ~> completed[i] > 0
=============================================================================
