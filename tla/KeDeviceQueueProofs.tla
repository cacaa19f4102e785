------------------------ MODULE KeDeviceQueueProofs ------------------------
(* Theorems about KeDeviceQueue for any number of IRPs, any sort keys, and    *)
(* drivers that make any of the IRPs cancelable.                              *)
EXTENDS KeDeviceQueue, ListProofs, FiniteSetTheorems

-----------------------------------------------------------------------------
(* The inductive invariant.                                                   *)

(* The IRP is with DriverStartIo or the device, and no cancel routine has it. *)
Started(i) == io[i] = "device" \/ (io[i] = "start" /\ (i \in cancelable => CancelRoutine[i]))

(* IoStartPacket of the IRP holds the cancel spin lock.                       *)
Dispatching(i) == i \in cancelable /\ disp[i] \in {"insert", "current", "check"}

(* IoStartNextPacket is between its lock and its unlock.                      *)
Removing(c) == next[c].pc \in {"remove", "make"}

(* A list in the order of the keys.                                           *)
Sorted(s) == \A p, q \in 1..Len(s) : p < q => Key[s[p]] <= Key[s[q]]

(* Inserted is TRUE for the entries in the list, each linked once, and the    *)
(* list is in the order of the keys.                                          *)
ListOK ==
  /\ Once(list) /\ \A i \in Irps : Inserted[i] <=> i \in Items(list)
  /\ keyed => Sorted(list)

(* Who holds the cancel spin lock.                                            *)
LockOK ==
  /\ \A i \in Irps : Dispatching(i) => cancelLock = i /\ CancelRoutine[i]
  /\ \A i \in Irps : canc[i] = "routine" => cancelLock = <<"cancel", i>>
  /\ cancelable # {} => \A c \in Contexts : Removing(c) => cancelLock = c

(* An IRP that is not yet queued or started is nowhere else.                  *)
NotYet ==
  \A i \in Irps : disp[i] \in {"idle", "insert", "current"} =>
    ~Inserted[i] /\ io[i] = "none" /\ canc[i] = "none" /\ completed[i] = 0 /\ CurrentIrp # i

(* The IRP has been taken from the queue and is not yet started.              *)
Held(i) ==
  /\ disp[i] \in {"check", "done"} /\ ~Inserted[i] /\ io[i] = "none" /\ completed[i] = 0
  /\ i \in cancelable => CancelRoutine[i]

(* IoStartNextPacket holds the IRP.                                           *)
Taken(i) == \E c \in Contexts : next[c].irp = i

(* IoStartNextPacket acts for the device.                                     *)
Going(c) == next[c].pc # "none"

(* IoStartNextPacket holds an IRP exactly between taking and starting it;     *)
(* an IRP's context starts the next only after the IRP was completed.         *)
NextOK ==
  \A c \in Contexts :
    /\ next[c].pc = "make" <=> next[c].irp # Null
    /\ Going(c) => completed[c[2]] = 1
    /\ next[c].irp # Null => Held(next[c].irp)

(* A queued IRP is only queued, and can be cancelled if it is cancelable.     *)
QueuedOK ==
  \A i \in Irps :
    /\ Inserted[i] =>
         /\ disp[i] \in {"check", "done"} /\ io[i] = "none" /\ completed[i] = 0 /\ CurrentIrp # i
         /\ i \in cancelable => CancelRoutine[i] \/ canc[i] = "routine"
    /\ disp[i] = "check" /\ i \in cancelable => Inserted[i]

(* An IRP that was started is current and not completed, until its cancel     *)
(* routine has completed it.                                                  *)
StartedOK ==
  \A i \in Irps :
    /\ Started(i) => CurrentIrp = i /\ completed[i] = 0
    /\ io[i] = "device" => ~CancelRoutine[i]
    /\ io[i] = "start" /\ i \in cancelable /\ ~CancelRoutine[i] =>
         canc[i] = "routine" \/ completed[i] = 1

(* The cancel routine has an IRP that is queued, or current and not yet seen  *)
(* by DriverStartIo.                                                          *)
InRoutine(i) ==
  canc[i] = "routine" =>
    /\ disp[i] = "done" /\ i \in cancelable /\ ~CancelRoutine[i] /\ completed[i] = 0
    /\ Inserted[i] \/ (CurrentIrp = i /\ io[i] = "start")

(* Where an IRP is while its cancel routine is set.                           *)
HasRoutine(i) ==
  CancelRoutine[i] =>
    /\ i \in cancelable /\ disp[i] # "idle" /\ completed[i] = 0
    /\ disp[i] \in {"insert", "current"} \/ Inserted[i] \/ io[i] = "start" \/ Taken(i)

CancelOK == \A i \in Irps : InRoutine(i) /\ HasRoutine(i)

(* The IRP acts for the device: it found the device free, is with             *)
(* DriverStartIo or the device, or is current and with its cancel routine.    *)
Acting(i) == disp[i] = "current" \/ Started(i) \/ (canc[i] = "routine" /\ CurrentIrp = i)

(* The device is busy exactly while somebody acts for it, and nobody else     *)
(* does.                                                                      *)
OwnerOK ==
  /\ \A i \in Irps : Acting(i) =>
       Busy /\ (\A j \in Irps : Acting(j) => j = i) /\ \A c \in Contexts : ~Going(c)
  /\ \A c \in Contexts : Going(c) => Busy /\ \A d \in Contexts : Going(d) => d = c
  /\ Busy => (\E i \in Irps : Acting(i)) \/ (\E c \in Contexts : Going(c))
  /\ list # <<>> => Busy

Inv == /\ TypeOK /\ ListOK /\ LockOK /\ NotYet /\ NextOK
       /\ QueuedOK /\ StartedOK /\ CancelOK /\ OwnerOK

-----------------------------------------------------------------------------
(* Contexts are neither IRPs nor Null.                                        *)
LEMMA ContextFacts ==
  /\ Null \notin Irps
  /\ \A i \in Irps : <<"io", i>> \in Contexts /\ <<"cancel", i>> \in Contexts
  /\ \A i, j \in Irps : <<"cancel", i>> # j /\ <<"cancel", i>> # Null
  /\ \A c \in Contexts : c \notin Irps /\ c # Null /\ c[2] \in Irps
BY DeviceAssumption DEF Contexts

(* Setting the place of IoStartNextPacket in one context.                     *)
LEMMA NextPc ==
  ASSUME TypeOK, NEW c \in Contexts, NEW v \in {"next", "remove"},
         next' = [next EXCEPT ![c].pc = v]
  PROVE  /\ next' \in [Contexts -> [pc: {"none", "next", "remove", "make"}, irp: Irps \cup {Null}]]
         /\ next'[c].pc = v /\ next'[c].irp = next[c].irp
         /\ \A d \in Contexts : d # c => next'[d] = next[d]
BY DEF TypeOK

-----------------------------------------------------------------------------
(* What the operations of devquobj.c do to the list.                          *)

(* The first position at which something holds is the least one.              *)
LEMMA FirstPosition ==
  ASSUME NEW P \in SUBSET Nat, NEW default
  PROVE  /\ P = {} => First(P, default) = default
         /\ P # {} => First(P, default) \in P /\ \A q \in P : First(P, default) <= q
<1>1. CASE P = {}
  BY <1>1 DEF First
<1>2. CASE P # {}
  <2>1. \E p \in P : \A q \in P : p <= q
    BY <1>2, LeastNatural
  <2> QED BY <1>2, <2>1 DEF First
<1> QED BY <1>1, <1>2

(* Unlinking keeps the order.                                                 *)
LEMMA RemoveSorted ==
  ASSUME NEW s \in Seq(Irps), NEW k \in 1..Len(s), Sorted(s)
  PROVE  Sorted(RemoveAt(s, k))
<1> DEFINE r == RemoveAt(s, k)
           at(j) == IF j < k THEN j ELSE j + 1
<1>1. Len(s) \in Nat /\ k \in Int /\ 1 <= k /\ k <= Len(s)
  BY LenProperties
<1>2. Len(r) = Len(s) - 1 /\ \A j \in 1..Len(r) : r[j] = s[at(j)]
  BY RemoveAtSeq
<1> HIDE DEF r
<1>3. ASSUME NEW p \in 1..Len(r), NEW q \in 1..Len(r), p < q
      PROVE  at(p) \in 1..Len(s) /\ at(q) \in 1..Len(s) /\ at(p) < at(q)
  BY <1>1, <1>2, <1>3
<1> HIDE DEF at
<1>4. Sorted(r)
  BY <1>2, <1>3 DEF Sorted
<1> QED BY <1>4 DEF r

(* KeInsertByKeyDeviceQueue keeps the order.                                  *)
LEMMA InsertSorted ==
  ASSUME NEW s \in Seq(Irps), NEW i \in Irps, Sorted(s), NEW k \in 1..(Len(s) + 1),
         \A p \in 1..Len(s) : p < k => Key[s[p]] <= Key[i],
         \A p \in 1..Len(s) : p >= k => Key[i] <= Key[s[p]]
  PROVE  Sorted(InsertAt(s, k, i))
<1> DEFINE r == InsertAt(s, k, i)
           at(j) == IF j < k THEN j ELSE j - 1
<1>1. Len(s) \in Nat /\ k \in Int /\ 1 <= k /\ k <= Len(s) + 1
  BY LenProperties
<1>2. /\ Len(r) = Len(s) + 1
      /\ \A j \in 1..Len(r) : r[j] = IF j < k THEN s[j] ELSE IF j = k THEN i ELSE s[j - 1]
  BY InsertAtSeq
<1> HIDE DEF r
<1>3. r[k] = i /\ \A j \in 1..Len(r) : j # k => r[j] = s[at(j)]
  BY <1>1, <1>2
<1>4. ASSUME NEW p \in 1..Len(r), p # k
      PROVE  at(p) \in 1..Len(s) /\ (p < k => at(p) < k) /\ (p > k => at(p) >= k)
  BY <1>1, <1>2, <1>4
<1>5. ASSUME NEW p \in 1..Len(r), NEW q \in 1..Len(r), p < q, p # k, q # k PROVE at(p) < at(q)
  BY <1>1, <1>2, <1>5
<1> HIDE DEF at
<1>6. ASSUME NEW p \in 1..Len(r), NEW q \in 1..Len(r), p < q PROVE Key[r[p]] <= Key[r[q]]
  <2>1. CASE p = k
    <3>1. q # k /\ q > k
      BY <1>1, <1>2, <1>6, <2>1
    <3> QED BY <1>3, <1>4, <2>1, <3>1
  <2>2. CASE q = k
    <3>1. p # k /\ p < k
      BY <1>1, <1>2, <1>6, <2>2
    <3> QED BY <1>3, <1>4, <2>2, <3>1
  <2>3. CASE p # k /\ q # k
    BY <1>3, <1>4, <1>5, <1>6, <2>3 DEF Sorted
  <2> QED BY <2>1, <2>2, <2>3
<1> QED BY <1>6 DEF Sorted, r

(* The device queue after a new packet was linked in it.                      *)
LEMMA InsertList ==
  ASSUME TypeOK, ListOK, NEW i \in Irps, ~Inserted[i], Busy, KeInsertDeviceQueue(i), UNCHANGED keyed
  PROVE  list' \in Seq(Irps) /\ list' # <<>> /\ ListOK'
<1> DEFINE k == InsertPosition(i)
           P == {p \in 1..Len(list) : Key[i] < Key[list[p]]}
<1>1. Len(list) \in Nat /\ list \in [1..Len(list) -> Irps]
  BY LenProperties DEF TypeOK
<1>2. P \in SUBSET Nat /\ P \subseteq 1..Len(list)
  BY <1>1
<1>3. k = IF keyed THEN First(P, Len(list) + 1) ELSE Len(list) + 1
  BY DEF InsertPosition
<1>4. k \in 1..(Len(list) + 1)
  <2> HIDE DEF k, P
  <2>1. P # {} => First(P, Len(list) + 1) \in 1..Len(list)
    BY <1>2, FirstPosition
  <2>2. P = {} => First(P, Len(list) + 1) = Len(list) + 1
    BY <1>2, FirstPosition
  <2> QED BY <1>1, <1>3, <2>1, <2>2
<1>5. i \notin Items(list) /\ list \in Seq(Irps) /\ Once(list) /\ list' = InsertAt(list, k, i)
  BY DEF TypeOK, ListOK, KeInsertDeviceQueue
<1>6. /\ list' \in Seq(Irps) /\ Once(list') /\ Items(list') = Items(list) \cup {i}
      /\ Len(list') = Len(list) + 1
  BY <1>4, <1>5, InsertAtItems, InsertAtSeq
<1>7. \A j \in Irps : Inserted'[j] <=> j \in Items(list')
  BY <1>6 DEF TypeOK, ListOK, KeInsertDeviceQueue
<1>8. ASSUME keyed PROVE Sorted(list')
  <2>1. Sorted(list) /\ Key \in [Irps -> Nat]
    BY <1>8, DeviceAssumption DEF ListOK
  <2>2. CASE P = {}
    <3>1. k = Len(list) + 1
      BY <1>2, <1>3, <1>8, <2>2, FirstPosition
    <3>2. \A p \in 1..Len(list) : Key[list[p]] <= Key[i] /\ ~(p >= k)
      BY <1>1, <2>1, <2>2, <3>1
    <3> HIDE DEF k, P
    <3> QED BY <1>4, <1>5, <2>1, <3>2, InsertSorted
  <2>3. CASE P # {}
    <3>1. k \in P /\ \A q \in P : k <= q
      <4> HIDE DEF k, P
      <4> QED BY <1>2, <1>3, <1>8, <2>3, FirstPosition
    <3>2. ASSUME NEW p \in 1..Len(list)
          PROVE  /\ p < k => Key[list[p]] <= Key[i]
                 /\ p >= k => Key[i] <= Key[list[p]]
      <4>1. Key[i] \in Nat /\ Key[list[p]] \in Nat /\ Key[list[k]] \in Nat /\ Key[i] < Key[list[k]]
        BY <1>1, <2>1, <3>1
      <4>2. p < k => p \notin P
        BY <1>1, <3>1
      <4>3. p > k => Key[list[k]] <= Key[list[p]]
        BY <1>1, <2>1, <3>1 DEF Sorted
      <4> HIDE DEF k
      <4> QED BY <1>1, <1>4, <4>1, <4>2, <4>3
    <3> HIDE DEF k, P
    <3> QED BY <1>4, <1>5, <2>1, <3>2, InsertSorted
  <2> QED BY <2>2, <2>3
<1>9. list' # <<>>
  BY <1>1, <1>6
<1> QED BY <1>6, <1>7, <1>8, <1>9 DEF ListOK

(* Unlinking the entry at position k, as all three removals do.               *)
LEMMA UnlinkList ==
  ASSUME TypeOK, ListOK, NEW k \in 1..Len(list), list' = RemoveAt(list, k),
         Inserted' = [Inserted EXCEPT ![list[k]] = FALSE], UNCHANGED keyed
  PROVE  list' \in Seq(Irps) /\ ListOK' /\ list[k] \in Irps /\ Inserted[list[k]]
<1>1. list \in Seq(Irps) /\ list[k] \in Irps /\ list[k] \in Items(list) /\ Once(list)
  BY LenProperties DEF TypeOK, ListOK, Items
<1>2. list' \in Seq(Irps) /\ Once(list') /\ Items(list') = Items(list) \ {list[k]}
  BY <1>1, RemoveAtItems
<1>3. \A j \in Irps : Inserted'[j] <=> j \in Items(list')
  BY <1>1, <1>2 DEF TypeOK, ListOK
<1>4. keyed => Sorted(list')
  BY <1>1, RemoveSorted DEF ListOK
<1> QED BY <1>1, <1>2, <1>3, <1>4 DEF ListOK

(* The device queue after the packet at a position was unlinked.              *)
LEMMA RemoveList ==
  ASSUME TypeOK, ListOK, NEW P \in SUBSET (1..Len(list)), list # <<>>,
         KeRemoveDeviceQueue(P), UNCHANGED keyed
  PROVE  /\ list' \in Seq(Irps) /\ ListOK'
         /\ list[First(P, 1)] \in Irps /\ Inserted[list[First(P, 1)]]
         /\ Inserted' = [Inserted EXCEPT ![list[First(P, 1)]] = FALSE]
<1>1. Len(list) \in Nat /\ Len(list) # 0
  BY EmptySeq, LenProperties DEF TypeOK
<1>2. First(P, 1) \in 1..Len(list)
  <2>1. P \in SUBSET Nat
    BY <1>1
  <2>2. P # {} => First(P, 1) \in 1..Len(list)
    BY <2>1, FirstPosition
  <2>3. P = {} => First(P, 1) = 1
    BY <2>1, FirstPosition
  <2>4. 1 \in 1..Len(list)
    BY <1>1
  <2> QED BY <2>2, <2>3, <2>4
<1>3. /\ list' = RemoveAt(list, First(P, 1))
      /\ Inserted' = [Inserted EXCEPT ![list[First(P, 1)]] = FALSE]
  BY DEF KeRemoveDeviceQueue
<1> QED BY <1>2, <1>3, UnlinkList

(* The device queue after a given packet was unlinked.                        *)
LEMMA RemoveEntryList ==
  ASSUME TypeOK, ListOK, NEW i \in Irps, KeRemoveEntryDeviceQueue(i), UNCHANGED keyed
  PROVE  list' \in Seq(Irps) /\ ListOK' /\ (list' # <<>> => list # <<>>)
<1>1. CASE Inserted[i]
  <2> DEFINE P == {p \in 1..Len(list) : list[p] = i}
  <2>1. P # {} /\ P \in SUBSET Nat
    BY <1>1 DEF ListOK, Items
  <2>2. First(P, 1) \in P
    BY <2>1, FirstPosition
  <2>3. list' = RemoveAt(list, First(P, 1)) /\ Inserted' = [Inserted EXCEPT ![i] = FALSE]
    BY <1>1 DEF KeRemoveEntryDeviceQueue
  <2>4. PICK k \in 1..Len(list) : list[k] = i /\ k = First(P, 1)
    BY <2>2
  <2> HIDE DEF P
  <2>5. list' \in Seq(Irps) /\ ListOK'
    BY <2>3, <2>4, UnlinkList
  <2>6. list # <<>>
    BY <2>4
  <2> QED BY <2>5, <2>6
<1>2. CASE ~Inserted[i]
  BY <1>2 DEF KeRemoveEntryDeviceQueue, TypeOK, ListOK
<1> QED BY <1>1, <1>2

-----------------------------------------------------------------------------
(* One lemma for each action: it preserves the invariant.                     *)

(* The IRP is not yet anywhere.                                               *)
LEMMA IoStartPacketInv ==
  ASSUME Inv, NEW i \in Irps, IoStartPacket(i)
  PROVE  Inv'
<1> USE DEF Inv
<1>1. disp[i] = "idle" /\ (i \in cancelable => cancelLock = Null)
  BY DEF IoStartPacket
<1>2. io[i] = "none" /\ canc[i] = "none" /\ completed[i] = 0 /\ CurrentIrp # i /\ ~Inserted[i]
  BY <1>1 DEF NotYet
<1>3. i \in cancelable => \A j \in Irps : ~Dispatching(j) /\ canc[j] # "routine"
  BY <1>1, ContextFacts DEF LockOK
<1>4. i \in cancelable => \A c \in Contexts : ~Removing(c)
  BY <1>1, ContextFacts DEF LockOK
<1>5. <<"io", i>> \in Contexts /\ <<"cancel", i>> \in Contexts
  BY ContextFacts
<1>6. list' \in Seq(Irps) /\ ListOK' /\ (list' # <<>> => list # <<>>)
  BY DEF TypeOK, ListOK, IoStartPacket, queue, driver
<1> USE DEF IoStartPacket, queue, driver
<1>7. TypeOK'
  <2>1. cancelLock' \in Contexts \cup Irps \cup {Null}
    BY DEF TypeOK
  <2>2. completed' \in [Irps -> 0..1]
    BY DEF TypeOK
  <2>3. io' \in [Irps -> {"none", "start", "device"}]
    BY DEF TypeOK
  <2> QED BY <2>1, <2>2, <2>3, <1>1, <1>2, <1>3, <1>4, <1>5, <1>6 DEF TypeOK
<1>8. ASSUME NEW u \in Irps PROVE Acting(u)' <=> Acting(u)
  BY <1>2 DEF TypeOK, Acting, Started
<1>9. ASSUME NEW d \in Contexts PROVE Going(d)' <=> Going(d)
  BY DEF Going
<1>10. LockOK'
  <2>1. \A u \in Irps : Dispatching(u)' => cancelLock' = u /\ CancelRoutine'[u]
    BY ContextFacts DEF TypeOK, LockOK, Dispatching
  <2>2. \A u \in Irps : canc'[u] = "routine" => cancelLock' = <<"cancel", u>>
    BY ContextFacts DEF LockOK
  <2>3. cancelable' # {} => \A d \in Contexts : Removing(d)' => cancelLock' = d
    BY ContextFacts DEF LockOK, Removing
  <2> QED BY <2>1, <2>2, <2>3 DEF LockOK
<1>11. NotYet'
  BY DEF NotYet
<1>12. NextOK'
  BY <1>5, <1>6 DEF TypeOK, NextOK, Going, Held
<1>13. QueuedOK'
  BY DEF TypeOK, QueuedOK
<1>14. StartedOK'
  BY <1>2 DEF TypeOK, StartedOK, Started
<1>15. CancelOK'
  <2>1. ASSUME NEW u \in Irps PROVE Taken(u)' <=> Taken(u)
    BY DEF Taken
  <2> SUFFICES ASSUME NEW u \in Irps PROVE InRoutine(u)' /\ HasRoutine(u)'
    BY DEF CancelOK
  <2>2. InRoutine(u)'
    BY DEF TypeOK, CancelOK, InRoutine
  <2>3. HasRoutine(u)'
    BY <2>1, <1>2 DEF TypeOK, CancelOK, HasRoutine
  <2> QED BY <2>2, <2>3
<1>16. OwnerOK'
  BY <1>8, <1>9 DEF OwnerOK
<1> QED BY <1>6, <1>7, <1>10, <1>11, <1>12, <1>13, <1>14, <1>15, <1>16

(* The IRP that finds the device free acts for it.                            *)
LEMMA InsertInv ==
  ASSUME Inv, NEW i \in Irps, Insert(i)
  PROVE  Inv'
<1> USE DEF Inv
<1>1. disp[i] = "insert" /\ KeInsertDeviceQueue(i)
  BY DEF Insert
<1>2. io[i] = "none" /\ canc[i] = "none" /\ completed[i] = 0 /\ CurrentIrp # i /\ ~Inserted[i]
  BY <1>1 DEF NotYet
<1>3. i \in cancelable => cancelLock = i /\ CancelRoutine[i]
  BY <1>1 DEF LockOK, Dispatching
<1>4. <<"io", i>> \in Contexts /\ <<"cancel", i>> \in Contexts
  BY ContextFacts
<1>5. list' \in Seq(Irps) /\ ListOK' /\ (list' # <<>> => Busy')
  <2>1. CASE Busy
    BY <1>1, <1>2, <2>1, InsertList DEF Insert, driver, KeInsertDeviceQueue
  <2>2. CASE ~Busy
    BY <1>2, <2>2 DEF TypeOK, ListOK, Insert, driver, KeInsertDeviceQueue
  <2> QED BY <2>1, <2>2
<1> USE DEF Insert, KeInsertDeviceQueue, queue, driver
<1>6. TypeOK'
  <2>1. cancelLock' \in Contexts \cup Irps \cup {Null}
    BY <1>1, <1>2, <1>3, <1>4, <1>5 DEF TypeOK
  <2>2. completed' \in [Irps -> 0..1]
    BY <1>1, <1>2, <1>3, <1>4, <1>5 DEF TypeOK
  <2>3. io' \in [Irps -> {"none", "start", "device"}]
    BY <1>1, <1>2, <1>3, <1>4, <1>5 DEF TypeOK
  <2> QED BY <1>5 DEF TypeOK
<1>7. ASSUME NEW u \in Irps PROVE Acting(u)' <=> Acting(u) \/ (u = i /\ ~Busy)
  BY DEF TypeOK, Acting, Started
<1>8. ASSUME NEW d \in Contexts PROVE Going(d)' <=> Going(d)
  BY DEF Going
<1>9. LockOK'
  <2>1. \A u \in Irps : Dispatching(u)' => cancelLock' = u /\ CancelRoutine'[u]
    BY DEF LockOK, Dispatching
  <2>2. \A u \in Irps : canc'[u] = "routine" => cancelLock' = <<"cancel", u>>
    BY DEF LockOK
  <2>3. cancelable' # {} => \A d \in Contexts : Removing(d)' => cancelLock' = d
    BY DEF LockOK, Removing
  <2> QED BY <2>1, <2>2, <2>3 DEF LockOK
<1>10. NotYet'
  BY DEF TypeOK, NotYet
<1>11. NextOK'
  BY DEF NextOK, Going, Held
<1>12. QueuedOK'
  BY <1>2, <1>3 DEF TypeOK, QueuedOK
<1>13. StartedOK'
  BY DEF StartedOK, Started
<1>14. CancelOK'
  <2>1. ASSUME NEW u \in Irps PROVE Taken(u)' <=> Taken(u)
    BY DEF Taken
  <2> SUFFICES ASSUME NEW u \in Irps PROVE InRoutine(u)' /\ HasRoutine(u)'
    BY DEF CancelOK
  <2>2. InRoutine(u)'
    BY DEF CancelOK, InRoutine
  <2>3. HasRoutine(u)'
    BY <2>1 DEF TypeOK, CancelOK, HasRoutine
  <2> QED BY <2>2, <2>3
<1>15. OwnerOK'
  BY <1>7, <1>8 DEF OwnerOK
<1> QED BY <1>5, <1>6, <1>9, <1>10, <1>11, <1>12, <1>13, <1>14, <1>15

(* It goes on acting for the device, as the current IRP.                      *)
LEMMA MakeCurrentInv ==
  ASSUME Inv, NEW i \in Irps, MakeCurrent(i)
  PROVE  Inv'
<1> USE DEF Inv
<1>1. disp[i] = "current"
  BY DEF MakeCurrent
<1>2. (\A j \in Irps : Acting(j) => j = i) /\ (\A c \in Contexts : ~Going(c)) /\ Busy
  BY <1>1 DEF OwnerOK, Acting
<1>3. canc[i] = "none" /\ completed[i] = 0 /\ io[i] = "none" /\ ~Inserted[i]
  BY <1>1 DEF NotYet
<1>4. i \in cancelable => cancelLock = i /\ CancelRoutine[i]
  BY <1>1 DEF LockOK, Dispatching
<1>5. <<"io", i>> \in Contexts /\ <<"cancel", i>> \in Contexts
  BY ContextFacts
<1>6. list' \in Seq(Irps) /\ ListOK' /\ (list' # <<>> => list # <<>>)
  BY DEF TypeOK, ListOK, MakeCurrent, queue, driver
<1> USE DEF MakeCurrent, Unlock, queue, driver
<1>7. TypeOK'
  <2>1. cancelLock' \in Contexts \cup Irps \cup {Null}
    BY DEF TypeOK
  <2>2. completed' \in [Irps -> 0..1]
    BY DEF TypeOK
  <2>3. io' \in [Irps -> {"none", "start", "device"}]
    BY DEF TypeOK
  <2> QED BY DEF TypeOK
<1>8. ASSUME NEW u \in Irps PROVE Acting(u)' <=> u = i
  BY <1>2, <1>4 DEF TypeOK, Acting, Started
<1>9. ASSUME NEW d \in Contexts PROVE Going(d)' <=> Going(d)
  BY DEF Going
<1>10. LockOK'
  <2>1. \A u \in Irps : Dispatching(u)' => cancelLock' = u /\ CancelRoutine'[u]
    BY DEF TypeOK, LockOK, Dispatching
  <2>2. \A u \in Irps : canc'[u] = "routine" => cancelLock' = <<"cancel", u>>
    BY ContextFacts DEF LockOK
  <2>3. cancelable' # {} => \A d \in Contexts : Removing(d)' => cancelLock' = d
    BY ContextFacts DEF LockOK, Removing
  <2> QED BY <2>1, <2>2, <2>3 DEF LockOK
<1>11. NotYet'
  BY DEF TypeOK, NotYet
<1>12. NextOK'
  BY DEF NextOK, Going, Held
<1>13. QueuedOK'
  BY DEF QueuedOK
<1>14. StartedOK'
  BY <1>2, <1>3, <1>4 DEF StartedOK, Started, Acting
<1>15. CancelOK'
  <2>1. ASSUME NEW u \in Irps PROVE Taken(u)' <=> Taken(u)
    BY DEF Taken
  <2> SUFFICES ASSUME NEW u \in Irps PROVE InRoutine(u)' /\ HasRoutine(u)'
    BY DEF CancelOK
  <2>2. InRoutine(u)'
    BY <1>2 DEF CancelOK, InRoutine, Acting
  <2>3. HasRoutine(u)'
    BY <2>1 DEF TypeOK, CancelOK, HasRoutine
  <2> QED BY <2>2, <2>3
<1>16. OwnerOK'
  BY <1>2, <1>8, <1>9 DEF OwnerOK
<1> QED BY <1>6, <1>7, <1>10, <1>11, <1>12, <1>13, <1>14, <1>15, <1>16

(* A queued IRP is not current, so its cancel routine does not act.           *)
LEMMA CheckCancelInv ==
  ASSUME Inv, NEW i \in Irps, CheckCancel(i)
  PROVE  Inv'
<1> USE DEF Inv
<1>1. disp[i] = "check"
  BY DEF CheckCancel
<1>2. i \in cancelable
        => Inserted[i] /\ CurrentIrp # i /\ cancelLock = i /\ CancelRoutine[i] /\ canc[i] # "routine"
  BY <1>1 DEF QueuedOK, LockOK, Dispatching, CancelOK, InRoutine
<1>3. Inserted[i] => io[i] = "none" /\ completed[i] = 0
  BY DEF QueuedOK
<1>4. <<"io", i>> \in Contexts /\ <<"cancel", i>> \in Contexts
  BY ContextFacts
<1>5. list' \in Seq(Irps) /\ ListOK' /\ (list' # <<>> => list # <<>>)
  BY DEF TypeOK, ListOK, CheckCancel, queue, driver
<1> USE DEF CheckCancel, Unlock, queue, driver
<1>6. TypeOK'
  <2>1. cancelLock' \in Contexts \cup Irps \cup {Null}
    BY <1>1, <1>2, <1>3, <1>4, <1>5 DEF TypeOK
  <2>2. completed' \in [Irps -> 0..1]
    BY <1>1, <1>2, <1>3, <1>4, <1>5 DEF TypeOK
  <2>3. io' \in [Irps -> {"none", "start", "device"}]
    BY <1>1, <1>2, <1>3, <1>4, <1>5 DEF TypeOK
  <2> QED BY <2>1, <2>2, <2>3, <1>1, <1>2, <1>3, <1>4, <1>5 DEF TypeOK
<1>7. ASSUME NEW u \in Irps PROVE Acting(u)' <=> Acting(u)
  BY <1>2, <1>3 DEF TypeOK, Acting, Started
<1>8. ASSUME NEW d \in Contexts PROVE Going(d)' <=> Going(d)
  BY DEF Going
<1>9. LockOK'
  <2>1. \A u \in Irps : Dispatching(u)' => cancelLock' = u /\ CancelRoutine'[u]
    BY DEF TypeOK, LockOK, Dispatching
  <2>2. \A u \in Irps : canc'[u] = "routine" => cancelLock' = <<"cancel", u>>
    BY <1>2, ContextFacts DEF TypeOK, LockOK
  <2>3. cancelable' # {} => \A d \in Contexts : Removing(d)' => cancelLock' = d
    BY <1>2, ContextFacts DEF LockOK, Removing
  <2> QED BY <2>1, <2>2, <2>3 DEF LockOK
<1>10. NotYet'
  BY DEF TypeOK, NotYet
<1>11. NextOK'
  BY <1>1, <1>2 DEF TypeOK, NextOK, Going, Held
<1>12. QueuedOK'
  BY DEF TypeOK, QueuedOK
<1>13. StartedOK'
  BY DEF TypeOK, StartedOK, Started
<1>14. CancelOK'
  <2>1. ASSUME NEW u \in Irps PROVE Taken(u)' <=> Taken(u)
    BY DEF Taken
  <2> SUFFICES ASSUME NEW u \in Irps PROVE InRoutine(u)' /\ HasRoutine(u)'
    BY DEF CancelOK
  <2>2. InRoutine(u)'
    BY <1>2 DEF TypeOK, CancelOK, InRoutine, HasRoutine
  <2>3. HasRoutine(u)'
    BY <2>1 DEF TypeOK, CancelOK, HasRoutine
  <2> QED BY <2>2, <2>3
<1>15. OwnerOK'
  BY <1>7, <1>8 DEF OwnerOK
<1> QED BY <1>5, <1>6, <1>9, <1>10, <1>11, <1>12, <1>13, <1>14, <1>15

(* Nobody else acts for the device: there is no current IRP to lose.          *)
LEMMA IoStartNextPacketInv ==
  ASSUME Inv, NEW c \in Contexts, IoStartNextPacket(c)
  PROVE  Inv'
<1> USE DEF Inv
<1>1. /\ next[c].pc = "next" /\ next' = [next EXCEPT ![c].pc = "remove"]
      /\ (cancelable # {} => cancelLock = Null)
  BY DEF IoStartNextPacket
<1>2. Going(c) /\ Busy /\ (\A j \in Irps : ~Acting(j)) /\ \A d \in Contexts : Going(d) => d = c
  BY <1>1 DEF OwnerOK, Going
<1>3. cancelable # {} => \A j \in Irps : ~Dispatching(j) /\ canc[j] # "routine"
  BY <1>1, ContextFacts DEF LockOK
<1>4. next[c].irp = Null /\ completed[c[2]] = 1
  BY <1>1, <1>2 DEF NextOK
<1>5. /\ next' \in [Contexts -> [pc: {"none", "next", "remove", "make"}, irp: Irps \cup {Null}]]
      /\ next'[c].pc = "remove" /\ next'[c].irp = Null
      /\ \A d \in Contexts : d # c => next'[d] = next[d]
  BY <1>1, <1>4, NextPc
<1>6. list' \in Seq(Irps) /\ ListOK' /\ (list' # <<>> => list # <<>>)
  BY DEF TypeOK, ListOK, IoStartNextPacket, queue, driver
<1> USE DEF IoStartNextPacket, queue, driver
<1>7. TypeOK'
  <2>1. cancelLock' \in Contexts \cup Irps \cup {Null}
    BY DEF TypeOK
  <2>2. completed' \in [Irps -> 0..1]
    BY DEF TypeOK
  <2>3. io' \in [Irps -> {"none", "start", "device"}]
    BY DEF TypeOK
  <2> QED BY <1>5 DEF TypeOK
<1>8. ASSUME NEW u \in Irps PROVE Acting(u)' <=> FALSE
  BY <1>2, ContextFacts DEF Acting, Started
<1>9. ASSUME NEW d \in Contexts PROVE Going(d)' <=> Going(d)
  BY DEF Going
<1>10. LockOK'
  <2>1. \A u \in Irps : Dispatching(u)' => cancelLock' = u /\ CancelRoutine'[u]
    BY ContextFacts DEF LockOK, Dispatching
  <2>2. \A u \in Irps : canc'[u] = "routine" => cancelLock' = <<"cancel", u>>
    BY ContextFacts DEF LockOK
  <2>3. cancelable' # {} => \A d \in Contexts : Removing(d)' => cancelLock' = d
    BY ContextFacts DEF LockOK, Removing
  <2> QED BY <2>1, <2>2, <2>3 DEF LockOK
<1>11. NotYet'
  BY ContextFacts DEF NotYet
<1>12. NextOK'
  BY DEF NextOK, Going, Held
<1>13. QueuedOK'
  BY ContextFacts DEF QueuedOK
<1>14. StartedOK'
  BY <1>2 DEF StartedOK, Started, Acting
<1>15. CancelOK'
  <2>1. ASSUME NEW u \in Irps PROVE Taken(u)' <=> Taken(u)
    BY DEF Taken
  <2> SUFFICES ASSUME NEW u \in Irps PROVE InRoutine(u)' /\ HasRoutine(u)'
    BY DEF CancelOK
  <2>2. InRoutine(u)'
    BY <1>3 DEF CancelOK, InRoutine
  <2>3. HasRoutine(u)'
    BY <2>1 DEF CancelOK, HasRoutine
  <2> QED BY <2>2, <2>3
<1>16. OwnerOK'
  BY <1>2, <1>8, <1>9 DEF OwnerOK
<1> QED BY <1>6, <1>7, <1>10, <1>11, <1>12, <1>13, <1>14, <1>15, <1>16

(* The IRP that was taken acts in place of IoStartNextPacket.                 *)
LEMMA MakeNextInv ==
  ASSUME Inv, NEW c \in Contexts, MakeNext(c)
  PROVE  Inv'
<1> USE DEF Inv
<1>1. next[c].pc = "make"
  BY DEF MakeNext
<1>2. Going(c) /\ Busy /\ (\A j \in Irps : ~Acting(j)) /\ \A d \in Contexts : Going(d) => d = c
  BY <1>1 DEF OwnerOK, Going
<1>3. next[c].irp \in Irps /\ next[c].irp # Null
  BY <1>1 DEF TypeOK, NextOK
<1>4. Held(next[c].irp)
  BY <1>3 DEF NextOK
<1>5. cancelable # {} => cancelLock = c
  BY <1>1 DEF LockOK, Removing
<1>6. \A u \in Irps : canc[u] # "routine"
  BY <1>2, <1>5 DEF LockOK, CancelOK, InRoutine, NextOK
<1>7. \A u \in Irps : Taken(u) => u = next[c].irp
  BY <1>2, ContextFacts DEF TypeOK, Taken, NextOK, Going
<1>8. /\ next' \in [Contexts -> [pc: {"none", "next", "remove", "make"}, irp: Irps \cup {Null}]]
      /\ next'[c].pc = "none" /\ next'[c].irp = Null
      /\ \A d \in Contexts : d # c => next'[d] = next[d]
  BY DEF MakeNext, NotNext, TypeOK
<1>9. list' \in Seq(Irps) /\ ListOK' /\ (list' # <<>> => list # <<>>)
  BY DEF TypeOK, ListOK, MakeNext, queue, driver
<1> USE DEF MakeNext, Unlock, queue, driver
<1>10. TypeOK'
  <2>1. cancelLock' \in Contexts \cup Irps \cup {Null}
    BY DEF TypeOK
  <2>2. completed' \in [Irps -> 0..1]
    BY DEF TypeOK
  <2>3. io' \in [Irps -> {"none", "start", "device"}]
    BY <1>3 DEF TypeOK
  <2> QED BY <1>3, <1>8 DEF TypeOK
<1>11. ASSUME NEW u \in Irps PROVE Acting(u)' <=> u = next[c].irp
  BY <1>2, <1>4 DEF TypeOK, Acting, Started, Held
<1>12. ASSUME NEW d \in Contexts PROVE Going(d)' <=> FALSE
  BY <1>2, <1>8 DEF Going
<1>13. LockOK'
  <2>1. \A u \in Irps : Dispatching(u)' => cancelLock' = u /\ CancelRoutine'[u]
    BY ContextFacts DEF LockOK, Dispatching
  <2>2. \A u \in Irps : canc'[u] = "routine" => cancelLock' = <<"cancel", u>>
    BY <1>6
  <2>3. cancelable' # {} => \A d \in Contexts : Removing(d)' => cancelLock' = d
    BY <1>8 DEF LockOK, Removing
  <2> QED BY <2>1, <2>2, <2>3 DEF LockOK
<1>14. NotYet'
  BY <1>4 DEF NotYet, Held
<1>15. NextOK'
  BY <1>2, <1>8 DEF NextOK, Going
<1>16. QueuedOK'
  BY <1>4 DEF QueuedOK, Held
<1>17. StartedOK'
  BY <1>2, <1>4 DEF StartedOK, Started, Acting, Held
<1>18. CancelOK'
  <2>1. ASSUME NEW u \in Irps PROVE Taken(u)' <=> FALSE
    BY <1>2, <1>8, ContextFacts DEF Taken, Going, NextOK
  <2> SUFFICES ASSUME NEW u \in Irps PROVE InRoutine(u)' /\ HasRoutine(u)'
    BY DEF CancelOK
  <2>2. InRoutine(u)'
    BY <1>6 DEF InRoutine
  <2>3. HasRoutine(u)'
    BY <1>7 DEF TypeOK, CancelOK, HasRoutine
  <2> QED BY <2>2, <2>3
<1>19. OwnerOK'
  BY <1>2, <1>3, <1>11, <1>12 DEF OwnerOK
<1> QED BY <1>9, <1>10, <1>13, <1>14, <1>15, <1>16, <1>17, <1>18, <1>19

(* The cancel routine takes the place of the IRP that it is called for.       *)
LEMMA IoCancelIrpInv ==
  ASSUME Inv, NEW i \in Irps, IoCancelIrp(i)
  PROVE  Inv'
<1> USE DEF Inv
<1>1. cancelLock = Null /\ completed[i] = 0
  BY DEF IoCancelIrp
<1>2. \A j \in Irps : ~Dispatching(j) /\ canc[j] # "routine"
  BY <1>1, ContextFacts DEF LockOK
<1>3. cancelable # {} => \A c \in Contexts : ~Removing(c)
  BY <1>1, ContextFacts DEF LockOK
<1>4. \A c \in Contexts : next[c].irp # Null => Removing(c)
  BY DEF NextOK, Removing
<1>5. CancelRoutine[i]
        => i \in cancelable /\ disp[i] \in {"check", "done"} /\ (Inserted[i] \/ io[i] = "start")
  BY <1>2, <1>3, <1>4, ContextFacts DEF TypeOK, CancelOK, HasRoutine, Taken, Dispatching
<1>6. CancelRoutine[i] => disp[i] = "done"
  BY <1>2, <1>5 DEF Dispatching
<1>7. CancelRoutine[i]
        => \/ Inserted[i] /\ CurrentIrp # i /\ io[i] = "none"
           \/ (io[i] = "start" /\ CurrentIrp = i /\ ~Inserted[i])
  BY <1>5 DEF QueuedOK, StartedOK, Started
<1>8. \A c \in Contexts : CancelRoutine[i] => next[c].irp # i
  BY <1>3, <1>4, <1>5, ContextFacts
<1>9. <<"io", i>> \in Contexts /\ <<"cancel", i>> \in Contexts
  BY ContextFacts
<1>10. list' \in Seq(Irps) /\ ListOK' /\ (list' # <<>> => list # <<>>)
  BY DEF TypeOK, ListOK, IoCancelIrp, queue, driver
<1> USE DEF IoCancelIrp, queue, driver
<1>11. TypeOK'
  <2>1. cancelLock' \in Contexts \cup Irps \cup {Null}
    BY <1>6, <1>7, <1>8, <1>9, <1>10
  <2>2. completed' \in [Irps -> 0..1]
    BY DEF TypeOK
  <2>3. io' \in [Irps -> {"none", "start", "device"}]
    BY DEF TypeOK
  <2> QED BY <2>1 DEF TypeOK
<1>12. ASSUME NEW u \in Irps PROVE Acting(u)' <=> Acting(u)
  <2>1. CASE u = i
    BY <1>7 DEF TypeOK, Acting, Started
  <2>2. CASE ~(u = i)
    BY <1>7 DEF TypeOK, Acting, Started
  <2> QED BY <2>1, <2>2
<1>13. ASSUME NEW d \in Contexts PROVE Going(d)' <=> Going(d)
  BY DEF Going
<1>14. LockOK'
  <2>1. \A u \in Irps : Dispatching(u)' => cancelLock' = u /\ CancelRoutine'[u]
    BY ContextFacts DEF LockOK, Dispatching
  <2>2. \A u \in Irps : canc'[u] = "routine" => cancelLock' = <<"cancel", u>>
    BY ContextFacts DEF TypeOK, LockOK
  <2>3. cancelable' # {} => \A d \in Contexts : Removing(d)' => cancelLock' = d
    BY ContextFacts DEF LockOK, Removing
  <2> QED BY <2>1, <2>2, <2>3 DEF LockOK
<1>15. NotYet'
  BY <1>7 DEF TypeOK, NotYet
<1>16. NextOK'
  BY <1>8 DEF NextOK, Going, Held
<1>17. QueuedOK'
  BY DEF TypeOK, QueuedOK
<1>18. StartedOK'
  BY DEF TypeOK, StartedOK, Started
<1>19. CancelOK'
  <2>1. ASSUME NEW u \in Irps PROVE Taken(u)' <=> Taken(u)
    BY DEF Taken
  <2> SUFFICES ASSUME NEW u \in Irps PROVE InRoutine(u)' /\ HasRoutine(u)'
    BY DEF CancelOK
  <2>2. InRoutine(u)'
    BY <1>6, <1>7 DEF TypeOK, CancelOK, InRoutine, HasRoutine
  <2>3. HasRoutine(u)'
    BY <2>1 DEF CancelOK, HasRoutine
  <2> QED BY <2>2, <2>3
<1>20. OwnerOK'
  BY <1>12, <1>13 DEF OwnerOK
<1> QED BY <1>10, <1>11, <1>14, <1>15, <1>16, <1>17, <1>18, <1>19, <1>20

(* The cancel routine of the current IRP hands the device on.                 *)
LEMMA CancelFunctionInv ==
  ASSUME Inv, NEW i \in Irps, CancelFunction(i)
  PROVE  Inv'
<1> USE DEF Inv
<1>1. /\ canc[i] = "routine"
      /\ ((CurrentIrp = i /\ StartNext(<<"cancel", i>>) /\ UNCHANGED queue)
           \/ (CurrentIrp # i /\ KeRemoveEntryDeviceQueue(i) /\ UNCHANGED next))
  BY DEF CancelFunction
<1>2. /\ cancelLock = <<"cancel", i>> /\ completed[i] = 0 /\ i \in cancelable
      /\ disp[i] = "done" /\ ~CancelRoutine[i]
  BY <1>1 DEF LockOK, CancelOK, InRoutine
<1>3. (Inserted[i] /\ CurrentIrp # i /\ io[i] = "none")
        \/ (CurrentIrp = i /\ io[i] = "start" /\ ~Inserted[i])
  BY <1>1 DEF CancelOK, InRoutine, QueuedOK
<1>4. CurrentIrp = i => Acting(i) /\ ~Inserted[i]
  BY <1>1 DEF Acting, QueuedOK
<1>5. \A c \in Contexts : c[2] = i => ~Going(c)
  BY <1>2 DEF NextOK
<1>6. \A c \in Contexts : next[c].irp # i
  BY <1>2, ContextFacts DEF NextOK, Held
<1>7. <<"io", i>> \in Contexts /\ <<"cancel", i>> \in Contexts
  BY ContextFacts
<1>8. /\ next' \in [Contexts -> [pc: {"none", "next", "remove", "make"}, irp: Irps \cup {Null}]]
      /\ \A d \in Contexts :
           IF d = <<"cancel", i>> /\ CurrentIrp = i
           THEN next'[d].pc = "next" /\ next'[d].irp = next[d].irp
           ELSE next'[d] = next[d]
  BY <1>1, <1>2, <1>3, <1>4, <1>5, <1>6, <1>7, NextPc DEF StartNext, TypeOK
<1>9. list' \in Seq(Irps) /\ ListOK' /\ (list' # <<>> => list # <<>>)
  <2>1. CASE CurrentIrp = i
    BY <2>1 DEF TypeOK, ListOK, CancelFunction, driver, queue
  <2>2. CASE CurrentIrp # i
    BY <1>1, <2>2, RemoveEntryList DEF CancelFunction, driver
  <2> QED BY <2>1, <2>2
<1> USE DEF CancelFunction, Unlock, Complete, KeRemoveEntryDeviceQueue, queue, driver
<1>10. TypeOK'
  <2>1. cancelLock' \in Contexts \cup Irps \cup {Null}
    BY DEF TypeOK
  <2>2. completed' \in [Irps -> 0..1]
    BY <1>2 DEF TypeOK
  <2>3. io' \in [Irps -> {"none", "start", "device"}]
    BY DEF TypeOK
  <2> QED BY <2>1, <2>2, <2>3, <1>1, <1>2, <1>3, <1>4, <1>5, <1>6, <1>7, <1>8, <1>9 DEF TypeOK
<1>11. ASSUME NEW u \in Irps PROVE Acting(u)' <=> Acting(u) /\ u # i
  <2>1. CASE u = i
    BY <1>2, <1>3 DEF TypeOK, Acting, Started
  <2>2. CASE ~(u = i)
    BY <2>2 DEF Acting, Started
  <2> QED BY <2>1, <2>2
<1>12. ASSUME NEW d \in Contexts
       PROVE Going(d)' <=> Going(d) \/ (d = <<"cancel", i>> /\ CurrentIrp = i)
  BY <1>8 DEF Going
<1>13. LockOK'
  <2>1. \A u \in Irps : Dispatching(u)' => cancelLock' = u /\ CancelRoutine'[u]
    BY ContextFacts DEF LockOK, Dispatching
  <2>2. \A u \in Irps : canc'[u] = "routine" => cancelLock' = <<"cancel", u>>
    BY DEF TypeOK, LockOK
  <2>3. cancelable' # {} => \A d \in Contexts : Removing(d)' => cancelLock' = d
    BY <1>4, <1>5, <1>8 DEF LockOK, Removing, Going
  <2> QED BY <2>1, <2>2, <2>3 DEF LockOK
<1>14. NotYet'
  BY DEF TypeOK, NotYet
<1>15. NextOK'
  BY <1>2, <1>6, <1>8 DEF TypeOK, NextOK, Going, Held
<1>16. QueuedOK'
  BY <1>2 DEF TypeOK, QueuedOK
<1>17. StartedOK'
  BY <1>2, <1>3 DEF TypeOK, StartedOK, Started
<1>18. CancelOK'
  <2>1. ASSUME NEW u \in Irps PROVE Taken(u)' <=> Taken(u)
    BY <1>1, <1>2, <1>3, <1>4, <1>5, <1>6, <1>7, <1>8, <1>9, ContextFacts DEF Taken, Going, NextOK
  <2> SUFFICES ASSUME NEW u \in Irps PROVE InRoutine(u)' /\ HasRoutine(u)'
    BY DEF CancelOK
  <2>2. InRoutine(u)'
    BY DEF TypeOK, CancelOK, InRoutine
  <2>3. HasRoutine(u)'
    BY <2>1 DEF TypeOK, CancelOK, HasRoutine, InRoutine
  <2> QED BY <2>2, <2>3
<1>19. OwnerOK'
  <2>1. CASE CurrentIrp = i
    BY <2>1, <1>1, <1>2, <1>4, <1>5, <1>6, <1>7, <1>8, <1>11, <1>12 DEF OwnerOK
  <2>2. CASE ~(CurrentIrp = i)
    <3>1. ~Acting(i) /\ UNCHANGED Busy
      BY <1>1, <1>2, <1>3, <2>2 DEF Acting, Started
    <3>2. \A u \in Irps : Acting(u)' <=> Acting(u)
      BY <1>11, <3>1
    <3>3. \A d \in Contexts : Going(d)' <=> Going(d)
      BY <1>12, <2>2
    <3> QED BY <1>9, <3>1, <3>2, <3>3 DEF OwnerOK
  <2> QED BY <2>1, <2>2
<1> QED BY <1>9, <1>10, <1>13, <1>14, <1>15, <1>16, <1>17, <1>18, <1>19

(* DriverStartIo keeps the device, or hands it on with a cancelled IRP.       *)
LEMMA DriverStartIoInv ==
  ASSUME Inv, NEW i \in Irps, DriverStartIo(i)
  PROVE  Inv'
<1> USE DEF Inv
<1>1. /\ io[i] = "start" /\ (i \in cancelable => cancelLock = Null)
      /\ IF i \in cancelable /\ CancelRoutine[i] /\ Cancel[i]
         THEN StartNext(<<"io", i>>) ELSE UNCHANGED next
  BY DEF DriverStartIo
<1>2. (i \in cancelable /\ ~CancelRoutine[i]) \/ (Acting(i) /\ completed[i] = 0 /\ CurrentIrp = i)
  BY <1>1 DEF Acting, Started, StartedOK
<1>3. i \in cancelable => \A j \in Irps : ~Dispatching(j) /\ canc[j] # "routine"
  BY <1>1, ContextFacts DEF LockOK
<1>4. canc[i] # "routine"
  BY <1>3 DEF CancelOK, InRoutine
<1>5. i \in cancelable => \A c \in Contexts : ~Removing(c)
  BY <1>1, ContextFacts DEF LockOK
<1>6. disp[i] \in {"check", "done"} /\ (i \in cancelable => disp[i] = "done")
  BY <1>1, <1>3 DEF TypeOK, NotYet, Dispatching
<1>7. ~Inserted[i]
  BY <1>1 DEF QueuedOK
<1>8. completed[i] = 0 => \A c \in Contexts : c[2] = i => ~Going(c)
  BY DEF NextOK
<1>9. \A c \in Contexts : next[c].irp # i
  BY <1>1, ContextFacts DEF NextOK, Held
<1>10. <<"io", i>> \in Contexts /\ <<"cancel", i>> \in Contexts
  BY ContextFacts
<1>11. /\ next' \in [Contexts -> [pc: {"none", "next", "remove", "make"}, irp: Irps \cup {Null}]]
       /\ \A d \in Contexts :
            IF d = <<"io", i>> /\ i \in cancelable /\ CancelRoutine[i] /\ Cancel[i]
            THEN next'[d].pc = "next" /\ next'[d].irp = next[d].irp
            ELSE next'[d] = next[d]
  <2>1. CASE i \in cancelable /\ CancelRoutine[i] /\ Cancel[i]
    <3>1. next' = [next EXCEPT ![<<"io", i>>].pc = "next"]
      BY <1>1, <2>1 DEF StartNext
    <3>2. /\ next' \in [Contexts -> [pc: {"none", "next", "remove", "make"}, irp: Irps \cup {Null}]]
          /\ next'[<<"io", i>>].pc = "next" /\ next'[<<"io", i>>].irp = next[<<"io", i>>].irp
          /\ \A d \in Contexts : d # <<"io", i>> => next'[d] = next[d]
      BY <1>10, <3>1, NextPc
    <3> QED BY <2>1, <3>2
  <2>2. CASE ~(i \in cancelable /\ CancelRoutine[i] /\ Cancel[i])
    BY <1>1, <2>2 DEF TypeOK
  <2> QED BY <2>1, <2>2
<1>12. list' \in Seq(Irps) /\ ListOK' /\ (list' # <<>> => list # <<>>)
  BY DEF TypeOK, ListOK, DriverStartIo, queue, driver
<1> USE DEF DriverStartIo, Complete, queue, driver
<1>13. TypeOK'
  <2>1. cancelLock' \in Contexts \cup Irps \cup {Null}
    BY DEF TypeOK
  <2>2. completed' \in [Irps -> 0..1]
    <3>1. CASE i \in cancelable /\ CancelRoutine[i] /\ Cancel[i]
      BY <1>2 DEF TypeOK
    <3>2. CASE ~(i \in cancelable /\ CancelRoutine[i] /\ Cancel[i])
      BY <1>2 DEF TypeOK
    <3> QED BY <3>1, <3>2
  <2>3. io' \in [Irps -> {"none", "start", "device"}]
    BY <1>1, <1>2, <1>3, <1>4, <1>10, <1>11, <1>12 DEF TypeOK
  <2> QED BY <2>2, <2>3, <1>11 DEF TypeOK
<1>14. ASSUME NEW u \in Irps PROVE Acting(u)' <=> Acting(u) /\ (u = i
         => ~(i \in cancelable /\ CancelRoutine[i] /\ Cancel[i]))
  BY <1>4, <1>6 DEF TypeOK, Acting, Started
<1>15. ASSUME NEW d \in Contexts
       PROVE Going(d)' <=>
               Going(d) \/ (d = <<"io", i>> /\ i \in cancelable /\ CancelRoutine[i] /\ Cancel[i])
  BY <1>11 DEF Going
<1>16. LockOK'
  <2>1. \A u \in Irps : Dispatching(u)' => cancelLock' = u /\ CancelRoutine'[u]
    BY ContextFacts DEF LockOK, Dispatching
  <2>2. \A u \in Irps : canc'[u] = "routine" => cancelLock' = <<"cancel", u>>
    BY DEF LockOK
  <2>3. cancelable' # {} => \A d \in Contexts : Removing(d)' => cancelLock' = d
    BY <1>11 DEF LockOK, Removing
  <2> QED BY <2>1, <2>2, <2>3 DEF LockOK
<1>17. NotYet'
  BY DEF TypeOK, NotYet
<1>18. NextOK'
  BY <1>2, <1>11, ContextFacts DEF TypeOK, NextOK, Going, Held
<1>19. QueuedOK'
  BY DEF TypeOK, QueuedOK
<1>20. StartedOK'
  BY DEF TypeOK, StartedOK, Started
<1>21. CancelOK'
  <2>1. ASSUME NEW u \in Irps PROVE Taken(u)' <=> Taken(u)
    <3>1. CASE i \in cancelable /\ CancelRoutine[i] /\ Cancel[i]
      <4>1. \A d \in Contexts : next'[d].irp = next[d].irp
        BY <1>11, <3>1
      <4> QED BY <4>1 DEF Taken
    <3>2. CASE ~(i \in cancelable /\ CancelRoutine[i] /\ Cancel[i])
      BY <3>2 DEF Taken
    <3> QED BY <3>1, <3>2
  <2> SUFFICES ASSUME NEW u \in Irps PROVE InRoutine(u)' /\ HasRoutine(u)'
    BY DEF CancelOK
  <2>2. InRoutine(u)'
    BY <1>4 DEF TypeOK, CancelOK, InRoutine
  <2>3. HasRoutine(u)'
    BY <2>1 DEF TypeOK, CancelOK, HasRoutine
  <2> QED BY <2>2, <2>3
<1>22. OwnerOK'
  <2>1. CASE i \in cancelable /\ CancelRoutine[i] /\ Cancel[i]
    <3>1. Acting(i) /\ Busy /\ Busy' /\ <<"io", i>> \in Contexts
      BY <1>2, <1>10, <2>1 DEF OwnerOK
    <3>2. \A u \in Irps : ~Acting(u)'
      BY <1>14, <2>1, <3>1 DEF OwnerOK
    <3>3. \A d \in Contexts : Going(d)' <=> d = <<"io", i>>
      BY <1>15, <2>1, <3>1 DEF OwnerOK
    <3> QED BY <3>1, <3>2, <3>3 DEF OwnerOK
  <2>2. CASE ~(i \in cancelable /\ CancelRoutine[i] /\ Cancel[i])
    BY <2>2, <1>14, <1>15 DEF OwnerOK
  <2> QED BY <2>1, <2>2
<1> QED BY <1>12, <1>13, <1>16, <1>17, <1>18, <1>19, <1>20, <1>21, <1>22

(* The DPC hands the device on.                                               *)
LEMMA DpcForIsrInv ==
  ASSUME Inv, NEW i \in Irps, DpcForIsr(i)
  PROVE  Inv'
<1> USE DEF Inv
<1>1. io[i] = "device" /\ StartNext(<<"io", i>>)
  BY DEF DpcForIsr
<1>2. Acting(i) /\ completed[i] = 0 /\ CurrentIrp = i /\ ~CancelRoutine[i]
  BY <1>1 DEF Acting, StartedOK, Started
<1>3. canc[i] # "routine" /\ ~Inserted[i]
  BY <1>1, <1>2 DEF QueuedOK, CancelOK, InRoutine
<1>4. (\A j \in Irps : Acting(j) => j = i) /\ (\A c \in Contexts : ~Going(c)) /\ Busy
  BY <1>2 DEF OwnerOK
<1>5. \A c \in Contexts : next[c].irp # i
  BY <1>1, ContextFacts DEF NextOK, Held
<1>6. disp[i] \in {"check", "done"}
  BY <1>1 DEF TypeOK, NotYet
<1>7. <<"io", i>> \in Contexts /\ <<"cancel", i>> \in Contexts
  BY ContextFacts
<1>8. /\ next' \in [Contexts -> [pc: {"none", "next", "remove", "make"}, irp: Irps \cup {Null}]]
      /\ \A d \in Contexts :
           IF d = <<"io", i>>
           THEN next'[d].pc = "next" /\ next'[d].irp = next[d].irp
           ELSE next'[d] = next[d]
  BY <1>1, <1>2, <1>3, <1>4, <1>5, <1>6, <1>7, NextPc DEF StartNext, TypeOK
<1>9. list' \in Seq(Irps) /\ ListOK' /\ (list' # <<>> => list # <<>>)
  BY DEF TypeOK, ListOK, DpcForIsr, queue, driver
<1> USE DEF DpcForIsr, Complete, queue, driver
<1>10. TypeOK'
  <2>1. cancelLock' \in Contexts \cup Irps \cup {Null}
    BY DEF TypeOK
  <2>2. completed' \in [Irps -> 0..1]
    BY <1>2 DEF TypeOK
  <2>3. io' \in [Irps -> {"none", "start", "device"}]
    BY DEF TypeOK
  <2> QED BY <1>2, <1>8 DEF TypeOK
<1>11. ASSUME NEW u \in Irps PROVE Acting(u)' <=> FALSE
  BY <1>3, <1>4, <1>6 DEF TypeOK, Acting, Started
<1>12. ASSUME NEW d \in Contexts PROVE Going(d)' <=> d = <<"io", i>>
  BY <1>4, <1>8 DEF Going
<1>13. LockOK'
  <2>1. \A u \in Irps : Dispatching(u)' => cancelLock' = u /\ CancelRoutine'[u]
    BY DEF LockOK, Dispatching
  <2>2. \A u \in Irps : canc'[u] = "routine" => cancelLock' = <<"cancel", u>>
    BY DEF LockOK
  <2>3. cancelable' # {} => \A d \in Contexts : Removing(d)' => cancelLock' = d
    BY <1>4, <1>8 DEF Removing, Going
  <2> QED BY <2>1, <2>2, <2>3 DEF LockOK
<1>14. NotYet'
  BY DEF NotYet
<1>15. NextOK'
  BY <1>1, <1>2, <1>5, <1>8 DEF TypeOK, NextOK, Going, Held
<1>16. QueuedOK'
  BY DEF QueuedOK
<1>17. StartedOK'
  BY DEF TypeOK, StartedOK, Started
<1>18. CancelOK'
  <2>1. ASSUME NEW u \in Irps PROVE Taken(u)' <=> Taken(u)
    BY <1>1, <1>2, <1>3, <1>4, <1>5, <1>6, <1>7, <1>8, <1>9, ContextFacts DEF Taken
  <2> SUFFICES ASSUME NEW u \in Irps PROVE InRoutine(u)' /\ HasRoutine(u)'
    BY DEF CancelOK
  <2>2. InRoutine(u)'
    BY <1>3 DEF CancelOK, InRoutine
  <2>3. HasRoutine(u)'
    BY <2>1, <1>2 DEF CancelOK, HasRoutine
  <2> QED BY <2>2, <2>3
<1>19. OwnerOK'
  BY <1>1, <1>2, <1>3, <1>4, <1>5, <1>7, <1>8, <1>9, <1>11, <1>12 DEF TypeOK, OwnerOK
<1> QED BY <1>9, <1>10, <1>13, <1>14, <1>15, <1>16, <1>17, <1>18, <1>19

(* IoStartNextPacket goes on with the IRP that it takes, or frees the device. *)
LEMMA RemoveNextInv ==
  ASSUME Inv, NEW c \in Contexts, NEW P \in SUBSET (1..Len(list)), RemoveNext(c, P)
  PROVE  Inv'
<1> USE DEF Inv
<1>1. next[c].pc = "remove" /\ KeRemoveDeviceQueue(P)
  BY DEF RemoveNext
<1>2. Going(c) /\ Busy /\ (\A j \in Irps : ~Acting(j)) /\ \A d \in Contexts : Going(d) => d = c
  BY <1>1 DEF OwnerOK, Going
<1>3. cancelable # {} => cancelLock = c
  BY <1>1 DEF LockOK, Removing
<1>4. \A u \in Irps : canc[u] # "routine"
  BY <1>2, <1>3 DEF LockOK, CancelOK, InRoutine, NextOK
<1>5. completed[c[2]] = 1 /\ \A d \in Contexts : next[d].irp = Null
  BY <1>1, <1>2 DEF TypeOK, NextOK, Going
<1>6. \A u \in Irps : ~Taken(u)
  BY <1>5, ContextFacts DEF Taken
<1>7. CASE list = <<>>
  <2>1. list' = list /\ Inserted' = Inserted /\ Busy' = FALSE
    BY <1>1, <1>7 DEF KeRemoveDeviceQueue
  <2>2. \A d \in Contexts : next'[d].pc = "none" /\ next'[d].irp = Null
    BY <1>2, <1>5, <1>7 DEF RemoveNext, TypeOK, NotNext, Going
  <2>3. next' \in [Contexts -> [pc: {"none", "next", "remove", "make"}, irp: Irps \cup {Null}]]
    BY <1>7 DEF RemoveNext, TypeOK, NotNext
  <2>4. cancelLock' = IF cancelLock = c THEN Null ELSE cancelLock
    BY <1>7 DEF RemoveNext, Unlock
  <2> USE DEF RemoveNext, driver
  <2>5. TypeOK' /\ ListOK'
    BY <2>1, <2>3, <2>4 DEF TypeOK, ListOK
  <2>6. \A u \in Irps : ~Acting(u)'
    BY <1>2, <2>1 DEF Acting, Started
  <2>7. LockOK'
    BY <1>4, <2>2, ContextFacts DEF LockOK, Dispatching, Removing
  <2>8. NotYet' /\ QueuedOK' /\ StartedOK'
    BY <2>1 DEF NotYet, QueuedOK, StartedOK, Started
  <2>9. NextOK'
    BY <2>2 DEF NextOK, Going
  <2>10. CancelOK'
    BY <1>4, <1>6, <2>1 DEF CancelOK, InRoutine, HasRoutine
  <2>11. OwnerOK'
    BY <1>7, <2>1, <2>2, <2>6 DEF OwnerOK, Going
  <2> QED BY <2>5, <2>7, <2>8, <2>9, <2>10, <2>11
<1>8. CASE list # <<>>
  <2>1. PICK j \in Irps :
          /\ j = list[First(P, 1)] /\ Inserted[j] /\ Inserted' = [Inserted EXCEPT ![j] = FALSE]
          /\ list' \in Seq(Irps) /\ ListOK'
    BY <1>1, <1>8, RemoveList DEF RemoveNext, driver
  <2>2. next' = [next EXCEPT ![c] = [pc |-> "make", irp |-> j]] /\ UNCHANGED cancelLock /\ Busy'
    BY <1>1, <1>2, <1>8, <2>1 DEF RemoveNext, KeRemoveDeviceQueue
  <2>3. /\ disp[j] \in {"check", "done"} /\ io[j] = "none" /\ completed[j] = 0
        /\ j \in cancelable => CancelRoutine[j]
    BY <1>4, <2>1 DEF QueuedOK
  <2>4. \A d \in Contexts :
          IF d = c THEN next'[d].pc = "make" /\ next'[d].irp = j ELSE next'[d] = next[d]
    BY <2>2 DEF TypeOK
  <2> USE DEF RemoveNext, driver
  <2>5. TypeOK'
    BY <2>1, <2>2 DEF TypeOK
  <2>6. \A u \in Irps : ~Acting(u)'
    BY <1>2 DEF Acting, Started
  <2>7. \A d \in Contexts : Going(d)' <=> d = c
    BY <1>2, <2>4 DEF Going
  <2>8. LockOK'
    BY <1>1, <2>2, <2>4 DEF LockOK, Dispatching, Removing
  <2>9. NotYet' /\ StartedOK'
    BY <2>1 DEF TypeOK, NotYet, StartedOK, Started
  <2>10. disp[j] = "check" => j \notin cancelable
    BY <1>3, <2>1, ContextFacts DEF LockOK, Dispatching
  <2>11. QueuedOK'
    BY <2>1, <2>10 DEF TypeOK, QueuedOK
  <2>12. NextOK'
    <3>1. Held(j)'
      BY <2>1, <2>3 DEF TypeOK, Held
    <3>2. ASSUME NEW d \in Contexts, d # c PROVE next'[d].pc = "none" /\ next'[d].irp = Null
      BY <1>2, <1>5, <2>4, <3>2 DEF Going
    <3> QED BY <2>4, <3>1, <3>2, ContextFacts DEF NextOK, Going
  <2>13. CancelOK'
    <3>1. Taken(j)'
      BY <2>4 DEF Taken
    <3> QED BY <1>4, <1>6, <2>1, <3>1 DEF CancelOK, InRoutine, HasRoutine
  <2>14. OwnerOK'
    BY <2>2, <2>6, <2>7 DEF OwnerOK
  <2> QED BY <2>1, <2>5, <2>8, <2>9, <2>11, <2>12, <2>13, <2>14
<1> QED BY <1>7, <1>8

-----------------------------------------------------------------------------
(* The theorems.                                                              *)

(* The invariant holds before the first request.                              *)
LEMMA InitInv == Init => Inv
<1> SUFFICES ASSUME Init PROVE Inv
  OBVIOUS
<1> USE DEF Init
<1>1. TypeOK
  <2>1. next \in [Contexts -> [pc: {"none", "next", "remove", "make"}, irp: Irps \cup {Null}]]
    BY DEF NotNext
  <2>2. /\ completed \in [Irps -> 0..1] /\ list \in Seq(Irps) /\ cancelLock \in {Null}
        /\ CurrentIrp \in {Null}
    OBVIOUS
  <2>3. /\ disp \in [Irps -> {"idle", "insert", "current", "check", "done"}]
        /\ io \in [Irps -> {"none", "start", "device"}] /\ canc \in [Irps -> {"none", "routine"}]
    OBVIOUS
  <2>4. /\ Inserted \in [Irps -> BOOLEAN] /\ Cancel \in [Irps -> BOOLEAN]
        /\ CancelRoutine \in [Irps -> BOOLEAN] /\ Busy \in BOOLEAN /\ cancelable \subseteq Irps
    OBVIOUS
  <2> QED BY <2>1, <2>2, <2>3, <2>4 DEF TypeOK
<1>2. ListOK
  BY DEF ListOK, Once, Items, Sorted
<1>3. \A c \in Contexts : next[c].pc = "none" /\ next[c].irp = Null
  BY DEF NotNext
<1>4. LockOK /\ NotYet /\ NextOK /\ QueuedOK /\ StartedOK /\ CancelOK
   BY <1>3, ContextFacts DEF LockOK, NotYet, NextOK, QueuedOK, StartedOK, CancelOK, Dispatching,
     Removing, Going, Started, InRoutine, HasRoutine
<1>5. OwnerOK
  BY <1>3 DEF OwnerOK, Acting, Going, Started
<1> QED BY <1>1, <1>2, <1>4, <1>5 DEF Inv

(* A step that changes nothing.                                               *)
LEMMA StutterInv == Inv /\ UNCHANGED vars => Inv'
BY DEF vars, Inv, TypeOK, ListOK, LockOK, NotYet, NextOK, QueuedOK, StartedOK, CancelOK, OwnerOK,
   Dispatching, Removing, Going, Held, Taken, Started, InRoutine, HasRoutine, Acting

(* Every step of the device queue, the I/O manager and the driver preserves   *)
(* the invariant.                                                             *)
THEOREM Invariance == Spec => []Inv
<1>1. Inv /\ [Next]_vars => Inv'
  <2> SUFFICES ASSUME Inv, [Next]_vars PROVE Inv'
    OBVIOUS
  <2>1. ASSUME NEW i \in Irps, Dispatch(i) PROVE Inv'
    BY <2>1, IoStartPacketInv, InsertInv, MakeCurrentInv, CheckCancelInv DEF Dispatch
  <2>2. ASSUME NEW i \in Irps, Driver(i) PROVE Inv'
    BY <2>2, CancelFunctionInv, DriverStartIoInv, DpcForIsrInv DEF Driver
  <2>3. ASSUME NEW i \in Irps, IoCancelIrp(i) PROVE Inv'
    BY <2>3, IoCancelIrpInv
  <2>4. ASSUME NEW c \in Contexts, GoOn(c) PROVE Inv'
    <3>1. {} \in SUBSET (1..Len(list)) /\ \A k \in SortKeys : ByKey(k) \in SUBSET (1..Len(list))
      BY DEF ByKey
    <3> QED BY <2>4, <3>1, IoStartNextPacketInv, RemoveNextInv, MakeNextInv DEF GoOn
  <2>5. CASE Finished \/ UNCHANGED vars
    BY <2>5, StutterInv DEF Finished
  <2> QED BY <2>1, <2>2, <2>3, <2>4, <2>5 DEF Next
<1> QED BY <1>1, InitInv, PTL DEF Spec

(* The types, for any IRPs: in particular no IRP is ever completed twice,     *)
(* however IoCancelIrp, DriverStartIo and the DPC race for it.                *)
THEOREM TypeCorrect == Spec => []TypeOK
<1>1. Inv => TypeOK
  BY DEF Inv
<1> QED BY <1>1, Invariance, PTL

(* The device is busy exactly while one, and only one, acts for it.           *)
THEOREM OwnerUnique == Spec => []OneOwner
<1>1. ASSUME Inv PROVE OneOwner
  <2> USE <1>1 DEF Inv
  <2>1. \A x \in Owners : (\E i \in Irps : Acting(i) /\ x = <<"start", i>> /\ disp[i] = "current")
                       \/ (\E i \in Irps : Acting(i) /\ x = <<"io", i>> /\ Started(i))
                       \/ (\E i \in Irps : Acting(i) /\ x = <<"cancel", i>>
                                                /\ canc[i] = "routine" /\ CurrentIrp = i)
                       \/ (\E c \in Contexts : Going(c) /\ x = <<"next", c>>)
    BY DEF Owners, Acting, Started, Going, TypeOK, NotNext, NextOK
  <2>2. \A i \in Irps : Acting(i) => \E x \in Owners : TRUE
    BY DEF Owners, Acting, Started
  <2>3. \A c \in Contexts : Going(c) => <<"next", c>> \in Owners
    BY DEF Owners, Going, NotNext
  <2>4. ASSUME NEW i \in Irps
        PROVE  /\ disp[i] = "current" => ~Started(i) /\ canc[i] # "routine"
               /\ Started(i) => ~(canc[i] = "routine" /\ CurrentIrp = i)
    BY DEF NotYet, Started, CancelOK, InRoutine, QueuedOK
  <2>5. ASSUME NEW x \in Owners, NEW y \in Owners PROVE x = y
    <3>1. CASE \E c \in Contexts : Going(c) /\ x = <<"next", c>>
      BY <2>1, <3>1 DEF OwnerOK
    <3>2. CASE \E c \in Contexts : Going(c) /\ y = <<"next", c>>
      BY <2>1, <3>2 DEF OwnerOK
    <3>3. CASE \E i \in Irps : Acting(i) /\ x = <<"start", i>> /\ disp[i] = "current"
      BY <2>1, <2>4, <3>2, <3>3 DEF OwnerOK
    <3>4. CASE \E i \in Irps : Acting(i) /\ x = <<"io", i>> /\ Started(i)
      BY <2>1, <2>4, <3>2, <3>4 DEF OwnerOK
    <3>5. CASE \E i \in Irps :
                 Acting(i) /\ x = <<"cancel", i>> /\ canc[i] = "routine" /\ CurrentIrp = i
      BY <2>1, <2>4, <3>2, <3>5 DEF OwnerOK
    <3> QED BY <2>1, <3>1, <3>3, <3>4, <3>5
  <2>6. Cardinality(Owners) = IF Busy THEN 1 ELSE 0
    <3>1. CASE Busy
      <4>1. PICK x \in Owners : TRUE
        BY <2>2, <2>3, <3>1 DEF OwnerOK
      <4>2. Owners = {x}
        BY <2>5, <4>1
      <4> QED BY <3>1, <4>2, FS_Singleton
    <3>2. CASE ~Busy
      <4>1. Owners = {}
        BY <2>1, <3>2 DEF OwnerOK
      <4> QED BY <3>2, <4>1, FS_EmptySet
    <3> QED BY <3>1, <3>2 DEF TypeOK
  <2>7. \A i \in Irps : io[i] = "device" => CurrentIrp = i
    BY DEF StartedOK, Started
  <2> QED BY <2>6, <2>7 DEF OneOwner, OwnerOK
<1> QED BY <1>1, Invariance, PTL

(* A completed IRP, which its issuer may free, is no longer used, and the     *)
(* list is exact and sorted.                                                  *)
THEOREM CompletedUnused == Spec => []CompletedGone
<1>1. ASSUME Inv PROVE CompletedGone
  <2> USE <1>1 DEF Inv
  <2>1. ASSUME NEW i \in Irps
        PROVE  Cardinality({p \in 1..Len(list) : list[p] = i}) = IF Inserted[i] THEN 1 ELSE 0
    <3> DEFINE P == {p \in 1..Len(list) : list[p] = i}
    <3>1. CASE Inserted[i]
      <4>1. PICK p \in 1..Len(list) : list[p] = i
        BY <3>1 DEF ListOK, Items
      <4>2. P = {p}
        BY <4>1 DEF ListOK, Once
      <4> QED BY <3>1, <4>2, FS_Singleton
    <3>2. CASE ~Inserted[i]
      <4>1. P = {}
        BY <3>2 DEF ListOK, Items
      <4> QED BY <3>2, <4>1, FS_EmptySet
    <3> QED BY <3>1, <3>2 DEF TypeOK
  <2>2. keyed => \A p \in 1..(Len(list) - 1) : Key[list[p]] <= Key[list[p + 1]]
    <3>1. Len(list) \in Nat
      BY LenProperties DEF TypeOK
    <3>2. \A p \in 1..(Len(list) - 1) : p \in 1..Len(list) /\ p + 1 \in 1..Len(list) /\ p < p + 1
      BY <3>1
    <3> QED BY <3>2 DEF ListOK, Sorted
  <2>3. ASSUME NEW i \in Irps, completed[i] > 0
        PROVE  ~Inserted[i] /\ io[i] # "device" /\ \A c \in Contexts : next[c].irp # i
    <3>1. completed[i] # 0
      BY <2>3 DEF TypeOK
    <3> QED BY <3>1, ContextFacts DEF QueuedOK, StartedOK, Started, NextOK, Held
  <2> QED BY <2>1, <2>2, <2>3 DEF CompletedGone
<1> QED BY <1>1, Invariance, PTL
=============================================================================
