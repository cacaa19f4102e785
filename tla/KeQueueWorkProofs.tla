------------------------- MODULE KeQueueWorkProofs -------------------------
(* Theorems about the work in the queues of KeQueue: that the lists and       *)
(* SignalState are exact, that the reaper is scheduled, that a step hands out *)
(* at most one entry and stays within the maximum, and that KeQueue           *)
(* implements WorkQueue.                                                      *)
EXTENDS KeQueueProofs, ListProofs

-----------------------------------------------------------------------------
(* The invariant, beyond that of KeQueueProofs.                               *)

(* An entry is in one place: once in one queue, or with one thread.           *)
OnePlace ==
  /\ \A q \in Queues : Once(entries[q])
  /\ \A q, r \in Queues : \A e \in Entries :
       e \in Items(entries[q]) /\ e \in Items(entries[r]) => q = r
  /\ \A t, u \in Threads : status[t] \in Entries /\ status[t] = status[u] => t = u
  /\ \A q \in Queues : \A t \in Threads : status[t] \notin Items(entries[q])

(* The reaper's work item is only queued to the reaper's queue, which always  *)
(* exists; memory that holds no queue object has no entries.                  *)
QueuesLive ==
  /\ live[ReaperQueue]
  /\ \A q \in Queues : ReaperItem \in Items(entries[q]) => q = ReaperQueue
  /\ \A q \in Queues : ~live[q] => entries[q] = <<>>

(* The reaper is active exactly while its work item is not free.              *)
ReaperExact == reaperActive <=> ~Free(ReaperItem)

(* Places at which a thread cannot have an entry in its wait status.          *)
EmptyHanded(t) ==
  \/ pc[t] \in {"loop", "wait", "retry", "term", "dead", "none"}
  \/ pc[t] \in {"apc", "block"} /\ resume[t] = "retry"
HandsOK == \A t \in Threads : EmptyHanded(t) => status[t] \notin Entries

(* A thread that is dead or dying is in the reaper's list, and the reaper is  *)
(* active while the list is not empty.                                        *)
ReaperListed ==
  /\ \A t \in Threads : pc[t] \in {"term", "dead"} => t \in Items(reaperList)
  /\ reaperList # <<>> => reaperActive

(* A thread that waits is in the wait list of its queue.                      *)
WaitersListed == \A t \in Threads : pc[t] = "wait" => t \in Items(waiters[queue[t]])

WorkInv == OnePlace /\ QueuesLive /\ ReaperExact /\ SignalExact
ThreadInv == HandsOK /\ ReaperListed /\ WaitersListed /\ ExitBreaksWait

-----------------------------------------------------------------------------
(* What a step can do to the work.                                            *)

SameHolders == \A t \in Threads : \A e \in Entries : status'[t] = e <=> status[t] = e

(* Nothing is queued, removed or finished.                                    *)
Quiet == UNCHANGED <<live, entries, signal, reaperActive>> /\ SameHolders

(* A free entry is queued ...                                                 *)
Post(q, e) ==
  /\ Free(e) /\ live[q] /\ (e = ReaperItem => q = ReaperQueue)
  /\ \/ entries' = [entries EXCEPT ![q] = Append(@, e)]
     \/ entries' = [entries EXCEPT ![q] = <<e>> \o @]
  /\ signal' = [signal EXCEPT ![q] = @ + 1]
  /\ UNCHANGED live /\ SameHolders
  /\ reaperActive' <=> reaperActive \/ e = ReaperItem

(* ... or goes straight to a thread, within the maximum of its queue.         *)
Hand(u, e) ==
  /\ Free(e) /\ status[u] \notin Entries
  /\ status' = [status EXCEPT ![u] = e]
  /\ count'[queue[u]] <= maximum[queue[u]]
  /\ UNCHANGED <<live, entries, signal>>
  /\ reaperActive' <=> reaperActive \/ e = ReaperItem

(* A thread gets the oldest entry of its queue, within the maximum.           *)
Take(u, q) ==
  /\ entries[q] # <<>> /\ status[u] \notin Entries /\ queue[u] = q
  /\ status' = [status EXCEPT ![u] = Head(entries[q])]
  /\ entries' = [entries EXCEPT ![q] = Tail(@)]
  /\ signal' = [signal EXCEPT ![q] = @ - 1]
  /\ count'[q] <= maximum[q]
  /\ UNCHANGED <<live, reaperActive>>

(* A thread is done with its entry.                                           *)
Finish(t) ==
  /\ status[t] \in Entries
  /\ status' = [status EXCEPT ![t] = "none"]
  /\ UNCHANGED <<live, entries, signal>>
  /\ reaperActive' <=> reaperActive /\ status[t] # ReaperItem

(* A queue object is deleted or initialised.                                  *)
Discard(q) ==
  /\ q # ReaperQueue
  /\ entries' = [entries EXCEPT ![q] = <<>>]
  /\ SameHolders /\ UNCHANGED reaperActive
  /\ live'[q] => signal'[q] = 0
  /\ \A r \in Queues : r # q => live'[r] = live[r] /\ signal'[r] = signal[r]

WorkStep ==
  \/ Quiet
  \/ \E q \in Queues, e \in Entries : Post(q, e)
  \/ \E u \in Threads, e \in Entries : Hand(u, e)
  \/ \E u \in Threads, q \in Queues : Take(u, q)
  \/ \E t \in Threads : Finish(t)
  \/ \E q \in Queues : Discard(q)

-----------------------------------------------------------------------------
(* A thread leaves a wait list.                                               *)

(* Without its newest element a list names everybody else.                    *)
LEMMA FrontItems ==
  ASSUME NEW T, NEW s \in Seq(T), s # <<>>, Once(s)
  PROVE  Items(Front(s)) = Items(s) \ {Last(s)}
<1> DEFINE r == Front(s)
<1>1. /\ Len(s) \in Nat \ {0} /\ Last(s) = s[Len(s)] /\ Len(r) = Len(s) - 1
      /\ \A i \in 1..Len(r) : r[i] = s[i]
  BY FrontLast
<1> HIDE DEF r
<1>2. Len(s) \in 1..Len(s) /\ \A i \in 1..Len(s) : i \in 1..Len(r) <=> i # Len(s)
  BY <1>1
<1>3. \A i \in 1..Len(r) : i \in 1..Len(s)
  BY <1>1
<1>4. Items(r) = Items(s) \ {Last(s)}
  BY <1>1, <1>2, <1>3 DEF Items, Once
<1> QED BY <1>4 DEF r

(* RemoveEntryList of the wait block of u leaves the other waiters.           *)
LEMMA WithoutItems ==
  ASSUME NEW T, NEW s \in Seq(T), NEW u, Once(s)
  PROVE  Items(Without(s, u)) = Items(s) \ {u}
<1>1. CASE \E i \in 1..Len(s) : s[i] = u
  <2> DEFINE k == CHOOSE i \in 1..Len(s) : s[i] = u
  <2>1. k \in 1..Len(s) /\ s[k] = u /\ Without(s, u) = RemoveAt(s, k)
    BY <1>1 DEF Without
  <2> HIDE DEF k
  <2> QED BY <2>1, RemoveAtItems
<1>2. CASE ~\E i \in 1..Len(s) : s[i] = u
  BY <1>2 DEF Without, Items
<1> QED BY <1>1, <1>2

-----------------------------------------------------------------------------
(* Every such step keeps the work in order.                                   *)

(* Free, in terms of the elements of the queues.                              *)
LEMMA FreeItems ==
  ASSUME NEW e \in Entries
  PROVE  Free(e) <=>
           (\A q \in Queues : e \notin Items(entries[q])) /\ \A t \in Threads : status[t] # e
BY DEF Free, Items

(* What TypeOK says of the entries of one queue.                              *)
LEMMA EntriesTyped ==
  ASSUME TypeOK, NEW q \in Queues
  PROVE  /\ entries[q] \in Seq(Entries) /\ Len(entries[q]) \in Nat
         /\ Items(entries[q]) \subseteq Entries /\ "none" \notin Entries
BY LenProperties, StatusAssumption DEF TypeOK, Items

(* A step that moves no entry.                                                *)
LEMMA QuietWork == ASSUME TypeOK, TypeOK', WorkInv, Quiet PROVE WorkInv'
<1> USE DEF WorkInv, Quiet
<1>1. OnePlace'
  BY EntriesTyped DEF OnePlace, SameHolders, Once, Items
<1>2. QueuesLive' /\ SignalExact'
  BY DEF QueuesLive, SignalExact, Items
<1>3. ReaperExact'
  BY ConstantsAssumption DEF ReaperExact, Free, SameHolders
<1> QED BY <1>1, <1>2, <1>3

(* A free entry that is queued is in one place only.                          *)
LEMMA PostWork ==
  ASSUME TypeOK, TypeOK', WorkInv, NEW q \in Queues, NEW e \in Entries, Post(q, e)
  PROVE  WorkInv'
<1> USE DEF WorkInv, Post
<1>1. entries[q] \in Seq(Entries) /\ Once(entries[q]) /\ e \notin Items(entries[q])
  BY FreeItems, EntriesTyped DEF OnePlace
<1>2. /\ Once(entries'[q]) /\ Items(entries'[q]) = Items(entries[q]) \cup {e}
      /\ Len(entries'[q]) = Len(entries[q]) + 1
  <2>1. entries'[q] = Append(entries[q], e) \/ entries'[q] = <<e>> \o entries[q]
    BY DEF TypeOK
  <2>2. CASE entries'[q] = Append(entries[q], e)
    BY <1>1, <2>2, AppendItems
  <2>3. CASE entries'[q] = <<e>> \o entries[q]
    BY <1>1, <2>3, PrependItems
  <2> QED BY <2>1, <2>2, <2>3
<1>3. \A r \in Queues \ {q} : entries'[r] = entries[r]
  BY DEF TypeOK
<1> DEFINE In(r) == Items(entries[r])
           In2(r) == Items(entries'[r])
<1>4. In2(q) = In(q) \cup {e} /\ \A r \in Queues \ {q} : In2(r) = In(r)
  BY <1>2, <1>3
<1>5. (\A r \in Queues : e \notin In(r)) /\ \A t \in Threads : status[t] # e
  BY FreeItems
<1>6. \A r \in Queues : In2(r) \subseteq Entries /\ In(r) \subseteq Entries
  BY EntriesTyped, <1>4
<1>7. \A r \in Queues : Once(entries'[r])
  BY <1>2, <1>3 DEF OnePlace
<1> HIDE DEF In, In2
<1>8. OnePlace'
  <2>1. \A r, p \in Queues : \A f \in Entries : f \in In2(r) /\ f \in In2(p) => r = p
    BY <1>4, <1>5 DEF OnePlace, In
  <2>2. \A t, u \in Threads : status'[t] \in Entries /\ status'[t] = status'[u] => t = u
    BY DEF OnePlace, SameHolders
  <2>3. \A r \in Queues : \A t \in Threads : status'[t] \notin In2(r)
    BY <1>4, <1>5, <1>6 DEF OnePlace, SameHolders, In
  <2> QED BY <1>7, <2>1, <2>2, <2>3 DEF OnePlace, In2
<1>9. QueuesLive'
  <2>1. \A r \in Queues : ReaperItem \in In2(r) => r = ReaperQueue
    BY <1>4 DEF QueuesLive, In
  <2> QED BY <1>3, <2>1 DEF QueuesLive, In2
<1>10. SignalExact'
  BY <1>1, <1>2, <1>3, EntriesTyped DEF SignalExact, TypeOK
<1>11. ReaperExact'
  <2>1. Free(ReaperItem)' <=>
          (\A r \in Queues : ReaperItem \notin In2(r)) /\ \A t \in Threads : status'[t] # ReaperItem
    BY DEF Free, In2, Items
  <2>2. Free(ReaperItem) <=>
          (\A r \in Queues : ReaperItem \notin In(r)) /\ \A t \in Threads : status[t] # ReaperItem
    BY DEF Free, In, Items
  <2> QED BY <1>4, <2>1, <2>2, ConstantsAssumption DEF ReaperExact, SameHolders
<1> QED BY <1>8, <1>9, <1>10, <1>11

(* A free entry that is handed over is in one place only.                     *)
LEMMA HandWork ==
  ASSUME TypeOK, TypeOK', WorkInv, NEW u \in Threads, NEW e \in Entries, Hand(u, e)
  PROVE  WorkInv'
<1> USE DEF WorkInv, Hand
<1>1. (\A r \in Queues : e \notin Items(entries[r])) /\ \A t \in Threads : status[t] # e
  BY FreeItems
<1>2. status'[u] = e /\ \A t \in Threads \ {u} : status'[t] = status[t]
  BY DEF TypeOK
<1>3. OnePlace'
  BY <1>1, <1>2 DEF OnePlace, Items, Once
<1>4. QueuesLive' /\ SignalExact'
  BY DEF QueuesLive, SignalExact, Items
<1>5. ReaperExact'
  BY <1>2, ConstantsAssumption, StatusAssumption DEF ReaperExact, Free
<1> QED BY <1>3, <1>4, <1>5

(* The oldest entry leaves its queue for a thread.                            *)
LEMMA TakeWork ==
  ASSUME TypeOK, TypeOK', WorkInv, NEW u \in Threads, NEW q \in Queues, Take(u, q)
  PROVE  WorkInv'
<1> USE DEF WorkInv, Take
<1>1. PICK e \in Entries : e = Head(entries[q]) /\ e \in Items(entries[q])
  BY EntriesTyped, TailItems DEF OnePlace
<1>2. /\ Once(entries'[q]) /\ Items(entries'[q]) = Items(entries[q]) \ {e}
      /\ Len(entries'[q]) = Len(entries[q]) - 1
  BY <1>1, EntriesTyped, TailItems DEF OnePlace, TypeOK
<1>3. \A r \in Queues \ {q} : entries'[r] = entries[r]
  BY DEF TypeOK
<1>4. status'[u] = e /\ \A t \in Threads \ {u} : status'[t] = status[t]
  BY <1>1 DEF TypeOK
<1> DEFINE In(r) == Items(entries[r])
           In2(r) == Items(entries'[r])
<1>5. In2(q) = In(q) \ {e} /\ e \in In(q) /\ \A r \in Queues \ {q} : In2(r) = In(r)
  BY <1>1, <1>2, <1>3
<1>6. \A r \in Queues : Once(entries'[r])
  BY <1>2, <1>3 DEF OnePlace
<1> HIDE DEF In, In2
<1>7. OnePlace'
  <2>1. \A r, p \in Queues : \A f \in Entries : f \in In2(r) /\ f \in In2(p) => r = p
    BY <1>5 DEF OnePlace, In
  <2>2. \A t \in Threads : status[t] # e
    BY <1>5 DEF OnePlace, In
  <2>3. \A t, v \in Threads : status'[t] \in Entries /\ status'[t] = status'[v] => t = v
    BY <1>4, <2>2 DEF OnePlace
  <2>4. \A r \in Queues : e \notin In2(r)
    BY <1>5 DEF OnePlace, In
  <2>5. \A r \in Queues : \A t \in Threads : status'[t] \notin In2(r)
    BY <1>4, <1>5, <2>4 DEF OnePlace, In
  <2> QED BY <1>6, <2>1, <2>3, <2>5 DEF OnePlace, In2
<1>8. QueuesLive'
  <2>1. \A r \in Queues : ReaperItem \in In2(r) => r = ReaperQueue
    BY <1>5 DEF QueuesLive, In
  <2>2. live[q]
    BY DEF QueuesLive
  <2> QED BY <1>3, <2>1, <2>2 DEF QueuesLive, In2
<1>9. SignalExact'
  BY <1>2, <1>3, EntriesTyped DEF SignalExact, TypeOK
<1>10. ReaperExact'
  <2>1. Free(ReaperItem)' <=>
          (\A r \in Queues : ReaperItem \notin In2(r)) /\ \A t \in Threads : status'[t] # ReaperItem
    BY DEF Free, In2, Items
  <2>2. Free(ReaperItem) <=>
          (\A r \in Queues : ReaperItem \notin In(r)) /\ \A t \in Threads : status[t] # ReaperItem
    BY DEF Free, In, Items
  <2> QED BY <1>4, <1>5, <2>1, <2>2, ConstantsAssumption DEF ReaperExact
<1> QED BY <1>7, <1>8, <1>9, <1>10

(* The entry becomes free; if it is the reaper's, the reaper is inactive.     *)
LEMMA FinishWork ==
  ASSUME TypeOK, TypeOK', WorkInv, NEW t \in Threads, Finish(t)
  PROVE  WorkInv'
<1> USE DEF WorkInv, Finish
<1>1. /\ "none" \notin Entries /\ status'[t] = "none"
      /\ \A v \in Threads \ {t} : status'[v] = status[v]
  BY StatusAssumption DEF TypeOK
<1>2. \A q \in Queues : "none" \notin Items(entries[q])
  BY <1>1, EntriesTyped
<1>3. OnePlace'
  BY <1>1, <1>2 DEF OnePlace, Items, Once
<1>4. QueuesLive' /\ SignalExact'
  BY DEF QueuesLive, SignalExact, Items
<1>5. Free(ReaperItem)' <=> Free(ReaperItem) \/ status[t] = ReaperItem
  <2>1. status[t] = ReaperItem =>
          /\ \A q \in Queues : ReaperItem \notin Items(entries[q])
          /\ \A v \in Threads \ {t} : status[v] # ReaperItem
    BY ConstantsAssumption DEF OnePlace
  <2>2. Free(ReaperItem) <=>
          /\ \A q \in Queues : ReaperItem \notin Items(entries[q])
          /\ \A v \in Threads : status[v] # ReaperItem
    BY ConstantsAssumption, FreeItems
  <2>3. Free(ReaperItem)' <=>
          /\ \A q \in Queues : ReaperItem \notin Items(entries[q])
          /\ \A v \in Threads : status'[v] # ReaperItem
    BY DEF Free, Items
  <2> QED BY <1>1, <2>1, <2>2, <2>3, ConstantsAssumption
<1>6. ReaperExact'
  BY <1>5 DEF ReaperExact
<1> QED BY <1>3, <1>4, <1>6

(* The entries of a queue other than the reaper's become free.                *)
LEMMA DiscardWork ==
  ASSUME TypeOK, TypeOK', WorkInv, NEW q \in Queues, Discard(q)
  PROVE  WorkInv'
<1> USE DEF WorkInv, Discard
<1>1. entries'[q] = <<>> /\ \A r \in Queues \ {q} : entries'[r] = entries[r]
  BY DEF TypeOK
<1>2. Once(entries'[q]) /\ Items(entries'[q]) = {} /\ Len(entries'[q]) = 0
  BY <1>1 DEF Once, Items
<1>3. \A r \in Queues \ {q} : Items(entries'[r]) = Items(entries[r]) /\ Once(entries'[r])
  BY <1>1 DEF OnePlace
<1>4. \A r \in Queues : Items(entries[r]) \subseteq Entries
  BY EntriesTyped
<1>5. OnePlace'
  <2>1. \A r, p \in Queues : \A f \in Entries :
          f \in Items(entries'[r]) /\ f \in Items(entries'[p]) => r = p
    BY <1>2, <1>3 DEF OnePlace
  <2>2. \A t, u \in Threads : status'[t] \in Entries /\ status'[t] = status'[u] => t = u
    BY DEF OnePlace, SameHolders
  <2>3. \A r \in Queues : \A t \in Threads : status'[t] \notin Items(entries'[r])
    BY <1>2, <1>3, <1>4 DEF OnePlace, SameHolders
  <2> QED BY <1>2, <1>3, <2>1, <2>2, <2>3 DEF OnePlace
<1>6. QueuesLive'
  BY <1>1, <1>2, <1>3, ConstantsAssumption DEF QueuesLive
<1>7. SignalExact'
  BY <1>1, <1>2 DEF SignalExact
<1>8. Free(ReaperItem)' <=> Free(ReaperItem)
  <2>1. ReaperItem \notin Items(entries[q])
    BY DEF QueuesLive
  <2>2. Free(ReaperItem) <=>
          /\ \A r \in Queues : ReaperItem \notin Items(entries[r])
          /\ \A v \in Threads : status[v] # ReaperItem
    BY ConstantsAssumption, FreeItems
  <2>3. Free(ReaperItem)' <=>
          /\ \A r \in Queues : ReaperItem \notin Items(entries'[r])
          /\ \A v \in Threads : status'[v] # ReaperItem
    BY DEF Free, Items
  <2> QED BY <1>2, <1>3, <2>1, <2>2, <2>3, ConstantsAssumption DEF SameHolders
<1>9. ReaperExact'
  BY <1>8 DEF ReaperExact
<1> QED BY <1>5, <1>6, <1>7, <1>9

(* Whatever kind of step it is, the work stays in order.                      *)
LEMMA WorkKept == ASSUME TypeOK, TypeOK', WorkInv, WorkStep PROVE WorkInv'
BY QuietWork, PostWork, HandWork, TakeWork, FinishWork, DiscardWork DEF WorkStep

-----------------------------------------------------------------------------
(* What the services of the dispatcher do to the work and to the wait lists.  *)

(* u is taken out of the wait lists, and nobody else is.                      *)
Unlisted(u) == \A q \in Queues : Items(waiters'[q]) = Items(waiters[q]) \ {u}

(* KiUnwaitThread removes the wait block of u from whatever list it is in.    *)
LEMMA WithoutUnlisted ==
  ASSUME TypeOK, WaitListsOK, NEW u \in Threads,
         waiters' = [q \in Queues |-> Without(waiters[q], u)]
  PROVE  Unlisted(u)
<1> SUFFICES ASSUME NEW q \in Queues PROVE Items(waiters'[q]) = Items(waiters[q]) \ {u}
  BY DEF Unlisted
<1>1. waiters[q] \in Seq(Threads) /\ Once(waiters[q]) /\ waiters'[q] = Without(waiters[q], u)
  BY DEF TypeOK, WaitListsOK, Injective, Once
<1> QED BY <1>1, WithoutItems

(* KiInsertQueue removes the newest waiter of its queue.                      *)
LEMMA FrontUnlisted ==
  ASSUME TypeOK, WaitListsOK, NEW p \in Queues, waiters[p] # <<>>,
         waiters' = [waiters EXCEPT ![p] = Front(@)]
  PROVE  Unlisted(Last(waiters[p]))
<1> SUFFICES ASSUME NEW q \in Queues
             PROVE  Items(waiters'[q]) = Items(waiters[q]) \ {Last(waiters[p])}
  BY DEF Unlisted
<1>1. CASE q = p
  <2>1. waiters[p] \in Seq(Threads) /\ Once(waiters[p]) /\ waiters'[p] = Front(waiters[p])
    BY DEF TypeOK, WaitListsOK, Injective, Once
  <2> QED BY <1>1, <2>1, FrontItems
<1>2. CASE q # p
  <2>1. queue[Last(waiters[p])] = p /\ waiters'[q] = waiters[q]
    BY <1>2, NewestWaiter DEF TypeOK
  <2>2. \A i \in 1..Len(waiters[q]) : queue[waiters[q][i]] = q
    BY DEF WaitListsOK
  <2> QED BY <1>2, <2>1, <2>2 DEF Items
<1> QED BY <1>1, <1>2

(* A thread that waits on q is woken.                                         *)
Wakes(at, u, q) ==
  pc[u] = "wait" /\ queue[u] = q /\ pc' = [at EXCEPT ![u] = "ready"] /\ Unlisted(u)

(* KiActivateWaiterQueue gives the oldest entry to the newest waiter, within  *)
(* the maximum, or changes nothing.                                           *)
LEMMA ActivateWork ==
  ASSUME Inv, HandsOK, NEW at, NEW q \in Queues, KiActivateWaiterQueue(at, q),
         UNCHANGED <<live, reaperActive>>
  PROVE  \/ \E u \in Threads : Take(u, q) /\ Wakes(at, u, q)
         \/ Quiet /\ pc' = at /\ UNCHANGED <<waiters, status>>
<1> DEFINE cnt == [count EXCEPT ![q] = @ - 1]
<1> USE DEF Inv, Shape
<1>1. CASE cnt[q] < maximum[q] /\ entries[q] # <<>> /\ waiters[q] # <<>>
  <2>1. PICK u \in Threads : u = Last(waiters[q]) /\ pc[u] = "wait" /\ queue[u] = q
    BY <1>1, NewestWaiter
  <2>2. /\ entries' = [entries EXCEPT ![q] = Tail(@)] /\ signal' = [signal EXCEPT ![q] = @ - 1]
        /\ status' = [status EXCEPT ![u] = Head(entries[q])]
        /\ waiters' = [p \in Queues |-> Without(waiters[p], u)]
        /\ count' = [cnt EXCEPT ![q] = @ + 1] /\ pc' = [at EXCEPT ![u] = "ready"]
    BY <1>1, <2>1, ConstantsAssumption DEF KiActivateWaiterQueue, KiUnwaitThread
  <2>3. count'[q] <= maximum[q]
    BY <1>1, <2>2 DEF TypeOK
  <2>4. status[u] \notin Entries
    BY <2>1 DEF HandsOK, EmptyHanded
  <2>5. Take(u, q) /\ Wakes(at, u, q)
    BY <1>1, <2>1, <2>2, <2>3, <2>4, WithoutUnlisted DEF Take, Wakes
  <2> QED BY <2>5
<1>2. CASE ~(cnt[q] < maximum[q] /\ entries[q] # <<>> /\ waiters[q] # <<>>)
  BY <1>2 DEF KiActivateWaiterQueue, Quiet, SameHolders
<1> QED BY <1>1, <1>2

(* KiInsertQueue gives the entry to the newest waiter, within the maximum, or *)
(* queues it.                                                                 *)
LEMMA InsertWork ==
  ASSUME Inv, HandsOK, NEW at, NEW c, NEW q \in Queues, NEW e \in Entries, NEW head,
         KiInsertQueue(at, c, q, e, head), Free(e), live[q], e = ReaperItem => q = ReaperQueue,
         UNCHANGED live, reaperActive' <=> reaperActive \/ e = ReaperItem
  PROVE  \/ \E u \in Threads : Hand(u, e) /\ Wakes(at, u, q)
         \/ Post(q, e) /\ pc' = at /\ UNCHANGED <<waiters, status>>
<1> DEFINE hand == /\ waiters[q] # <<>>
                   /\ count[q] < maximum[q]
                   /\ IF c = Idle THEN TRUE ELSE queue[c] # q \/ ~reason[c]
<1> USE DEF Inv, Shape
<1>1. CASE hand
  <2>1. PICK u \in Threads : u = Last(waiters[q]) /\ pc[u] = "wait" /\ queue[u] = q
    BY <1>1, NewestWaiter
  <2>2. /\ waiters' = [waiters EXCEPT ![q] = Front(@)] /\ status' = [status EXCEPT ![u] = e]
        /\ count' = [count EXCEPT ![q] = @ + 1] /\ pc' = [at EXCEPT ![u] = "ready"]
        /\ UNCHANGED <<entries, signal>>
    BY <1>1, <2>1 DEF KiInsertQueue
  <2>3. count'[q] <= maximum[q]
    BY <1>1, <2>2 DEF TypeOK
  <2>4. status[u] \notin Entries
    BY <2>1 DEF HandsOK, EmptyHanded
  <2>5. Unlisted(u)
    BY <1>1, <2>1, <2>2, FrontUnlisted
  <2>6. Hand(u, e) /\ Wakes(at, u, q)
    BY <2>1, <2>2, <2>3, <2>4, <2>5 DEF Hand, Wakes
  <2> QED BY <2>6
<1>2. CASE ~hand
  BY <1>2 DEF KiInsertQueue, Post, SameHolders
<1> QED BY <1>1, <1>2

-----------------------------------------------------------------------------
(* Steps that leave the places of the threads alone, as far as a part of the  *)
(* invariant can see.                                                         *)

(* Nobody begins to wait, and a wait list loses only a thread that does not   *)
(* wait any more.                                                             *)
LEMMA WaitersKept ==
  ASSUME Inv, WaitersListed,
         \A v \in Threads : pc'[v] = "wait" => pc[v] = "wait" /\ queue'[v] = queue[v],
         UNCHANGED waiters \/ \E u \in Threads : Unlisted(u) /\ pc'[u] # "wait"
  PROVE  WaitersListed'
<1> SUFFICES ASSUME NEW v \in Threads, pc'[v] = "wait" PROVE v \in Items(waiters'[queue[v]])
  BY DEF WaitersListed
<1>1. pc[v] = "wait" /\ queue[v] \in Queues /\ v \in Items(waiters[queue[v]])
  BY Inside DEF Inv, Shape, WaitersListed
<1> QED BY <1>1 DEF Unlisted

(* Nobody dies.                                                               *)
LEMMA ReaperKept ==
  ASSUME ReaperListed, UNCHANGED reaperList, reaperActive => reaperActive',
         \A v \in Threads : pc'[v] \in {"term", "dead"} => pc[v] \in {"term", "dead"}
  PROVE  ReaperListed'
BY DEF ReaperListed

(* Nobody begins to wait, and no exit APC is queued to one that waits.        *)
LEMMA ExitKept ==
  ASSUME ExitBreaksWait,
         \A v \in Threads : pc'[v] = "wait" =>
           pc[v] = "wait" /\ args'[v] = args[v] /\ (userApc'[v] => userApc[v])
  PROVE  ExitBreaksWait'
BY DEF ExitBreaksWait

(* Nobody becomes empty-handed.                                               *)
LEMMA HandsKept ==
  ASSUME HandsOK, \A v \in Threads : EmptyHanded(v)' => EmptyHanded(v) /\ status'[v] = status[v]
  PROVE  HandsOK'
BY DEF HandsOK

-----------------------------------------------------------------------------
(* One lemma for each action: what it does to the work, and that it keeps     *)
(* the invariant of the threads.                                              *)

(* An entry that may be taken is taken.                                       *)
LEMMA KeRemoveQueueTakeWork ==
  ASSUME Inv, WorkInv, ThreadInv, NEW t \in Threads, KeRemoveQueueTake(t)
  PROVE  WorkStep /\ ThreadInv'
<1> USE DEF Inv, Shape, ThreadInv, KeRemoveQueueTake, queueVars, apcVars, reaperVars
<1>1. queue[t] \in Queues /\ count'[queue[t]] <= maximum[queue[t]]
  BY Inside DEF TypeOK, CanTake
<1>2. Take(t, queue[t])
  BY <1>1 DEF Take, CanTake, HandsOK, EmptyHanded, KeRemoveQueueTake
<1>3. HandsOK'
  BY <1>1, StatusAssumption DEF HandsOK, EmptyHanded, TypeOK, Located
<1>4. ReaperListed'
  BY <1>1, ReaperKept DEF TypeOK, Located
<1>5. WaitersListed'
  BY <1>1, WaitersKept DEF TypeOK
<1>6. ExitBreaksWait'
  BY <1>1, ExitKept DEF TypeOK
<1> QED BY <1>1, <1>2, <1>3, <1>4, <1>5, <1>6 DEF WorkStep

(* The APC interrupt.                                                         *)
LEMMA KeRemoveQueueApcWork ==
  ASSUME Inv, WorkInv, ThreadInv, NEW t \in Threads, KeRemoveQueueApc(t)
  PROVE  WorkStep /\ ThreadInv'
<1> USE DEF Inv, Shape, ThreadInv, KeRemoveQueueApc, queueVars, apcVars, reaperVars
<1>1. Quiet
  BY DEF Quiet, SameHolders
<1>2. HandsOK'
  BY StatusAssumption DEF HandsOK, EmptyHanded, TypeOK, Located
<1>3. ReaperListed'
  BY ReaperKept DEF TypeOK, Located
<1>4. WaitersListed'
  BY WaitersKept DEF TypeOK
<1>5. ExitBreaksWait'
  BY ExitKept DEF TypeOK
<1> QED BY <1>1, <1>2, <1>3, <1>4, <1>5 DEF WorkStep

(* A return without an entry.                                                 *)
LEMMA KeRemoveQueueReturnWork ==
  ASSUME Inv, WorkInv, ThreadInv, NEW t \in Threads, KeRemoveQueueReturn(t)
  PROVE  WorkStep /\ ThreadInv'
<1> USE DEF Inv, Shape, ThreadInv, KeRemoveQueueReturn, queueVars, apcVars, reaperVars
<1>1. Quiet
  BY StatusAssumption DEF Quiet, SameHolders, HandsOK, EmptyHanded, TypeOK
<1>2. HandsOK'
  BY StatusAssumption DEF HandsOK, EmptyHanded, TypeOK, Located
<1>3. ReaperListed'
  BY ReaperKept DEF TypeOK, Located
<1>4. WaitersListed'
  BY WaitersKept DEF TypeOK
<1>5. ExitBreaksWait'
  BY ExitKept DEF TypeOK
<1> QED BY <1>1, <1>2, <1>3, <1>4, <1>5 DEF WorkStep

(* The thread joins the wait list; no user APC is pending for it.             *)
LEMMA KeRemoveQueueWaitWork ==
  ASSUME Inv, WorkInv, ThreadInv, NEW t \in Threads, KeRemoveQueueWait(t)
  PROVE  WorkStep /\ ThreadInv'
<1> USE DEF Inv, Shape, ThreadInv, KeRemoveQueueWait, queueVars, apcVars, reaperVars
<1>1. queue[t] \in Queues
  BY Inside
<1>2. Quiet
  BY <1>1, StatusAssumption DEF Quiet, SameHolders, HandsOK, EmptyHanded, TypeOK
<1>3. HandsOK'
  BY <1>1, StatusAssumption DEF HandsOK, EmptyHanded, TypeOK, Located
<1>4. ReaperListed'
  BY <1>1, ReaperKept DEF TypeOK, Located
<1>5. WaitersListed'
  <2>1. waiters[queue[t]] \in Seq(Threads) /\ waiters'[queue[t]] = Append(waiters[queue[t]], t)
    BY <1>1 DEF TypeOK
  <2>2. t \notin Items(waiters[queue[t]])
    BY <1>1 DEF WaitListsOK, Items
  <2>3. Items(waiters'[queue[t]]) = Items(waiters[queue[t]]) \cup {t}
    BY <1>1, <2>1, <2>2, AppendItems DEF WaitListsOK, Injective, Once
  <2>4. ASSUME NEW v \in Threads, pc'[v] = "wait" PROVE v \in Items(waiters'[queue'[v]])
    <3>1. CASE v = t
      BY <2>3, <3>1
    <3>2. CASE v # t
      <4>1. pc[v] = "wait" /\ queue[v] \in Queues /\ v \in Items(waiters[queue[v]])
        BY <2>4, <3>2, Inside DEF TypeOK, WaitersListed
      <4> QED BY <1>1, <2>3, <4>1 DEF TypeOK
    <3> QED BY <3>1, <3>2
  <2> QED BY <2>4 DEF WaitersListed
<1>6. ExitBreaksWait'
  BY DEF ExitBreaksWait, UserApcReady, TypeOK
<1> QED BY <1>2, <1>3, <1>4, <1>5, <1>6 DEF WorkStep

(* An APC before the return from the wait.                                    *)
LEMMA KiSwapThreadApcWork ==
  ASSUME Inv, WorkInv, ThreadInv, NEW t \in Threads, KiSwapThreadApc(t)
  PROVE  WorkStep /\ ThreadInv'
<1> USE DEF Inv, Shape, ThreadInv, KiSwapThreadApc, queueVars, apcVars, reaperVars
<1>1. Quiet
  BY DEF Quiet, SameHolders, queueVars, reaperVars
<1>2. HandsOK'
  BY StatusAssumption DEF HandsOK, EmptyHanded, TypeOK, Located
<1>3. ReaperListed'
  BY ReaperKept DEF TypeOK, Located
<1>4. WaitersListed'
  BY WaitersKept DEF TypeOK
<1>5. ExitBreaksWait'
  BY ExitKept DEF TypeOK
<1> QED BY <1>1, <1>2, <1>3, <1>4, <1>5 DEF WorkStep

(* Only a thread whose wait was broken goes round the loop.                   *)
LEMMA KeRemoveQueueWokenWork ==
  ASSUME Inv, WorkInv, ThreadInv, NEW t \in Threads, KeRemoveQueueWoken(t)
  PROVE  WorkStep /\ ThreadInv'
<1> USE DEF Inv, Shape, ThreadInv, KeRemoveQueueWoken, queueVars, apcVars, reaperVars
<1>1. Quiet
  BY DEF Quiet, SameHolders, queueVars, reaperVars
<1>2. HandsOK'
  BY StatusAssumption DEF HandsOK, EmptyHanded, TypeOK, Located
<1>3. ReaperListed'
  BY ReaperKept DEF TypeOK, Located
<1>4. WaitersListed'
  BY WaitersKept DEF TypeOK
<1>5. ExitBreaksWait'
  BY ExitKept DEF TypeOK
<1> QED BY <1>1, <1>2, <1>3, <1>4, <1>5 DEF WorkStep

(* The retry.                                                                 *)
LEMMA KeRemoveQueueRelockWork ==
  ASSUME Inv, WorkInv, ThreadInv, NEW t \in Threads, KeRemoveQueueRelock(t)
  PROVE  WorkStep /\ ThreadInv'
<1> USE DEF Inv, Shape, ThreadInv, KeRemoveQueueRelock, queueVars, apcVars, reaperVars
<1>1. Quiet
  BY DEF Quiet, SameHolders, reaperVars
<1>2. HandsOK'
  BY StatusAssumption DEF HandsOK, EmptyHanded, TypeOK, Located
<1>3. ReaperListed'
  BY ReaperKept DEF TypeOK, Located
<1>4. WaitersListed'
  BY WaitersKept DEF TypeOK
<1>5. ExitBreaksWait'
  BY ExitKept DEF TypeOK
<1> QED BY <1>1, <1>2, <1>3, <1>4, <1>5 DEF WorkStep

(* Another wait ends.                                                         *)
LEMMA KeWaitDoneWork ==
  ASSUME Inv, WorkInv, ThreadInv, NEW t \in Threads, KeWaitDone(t)
  PROVE  WorkStep /\ ThreadInv'
<1> USE DEF Inv, Shape, ThreadInv, KeWaitDone, queueVars, apcVars, reaperVars
<1>1. Quiet
  BY DEF Quiet, SameHolders, reaperVars
<1>2. HandsOK'
  BY StatusAssumption DEF HandsOK, EmptyHanded, TypeOK, Located
<1>3. ReaperListed'
  BY ReaperKept DEF TypeOK, Located
<1>4. WaitersListed'
  BY WaitersKept DEF TypeOK
<1>5. ExitBreaksWait'
  BY ExitKept DEF TypeOK
<1> QED BY <1>1, <1>2, <1>3, <1>4, <1>5 DEF WorkStep

(* APCs are delivered.                                                        *)
LEMMA KiDeliverApcWork ==
  ASSUME Inv, WorkInv, ThreadInv, NEW t \in Threads, KiDeliverApc(t)
  PROVE  WorkStep /\ ThreadInv'
<1> USE DEF Inv, Shape, ThreadInv, KiDeliverApc, queueVars, apcVars, reaperVars
<1>1. Quiet
  BY DEF Quiet, SameHolders, queueVars, reaperVars
<1>2. HandsOK'
  BY StatusAssumption DEF HandsOK, EmptyHanded, TypeOK, Located
<1>3. ReaperListed'
  BY ReaperKept DEF TypeOK, Located
<1>4. WaitersListed'
  BY WaitersKept DEF TypeOK
<1>5. ExitBreaksWait'
  BY ExitKept DEF TypeOK
<1> QED BY <1>1, <1>2, <1>3, <1>4, <1>5 DEF WorkStep

(* The APC routine returns to where the thread was.                           *)
LEMMA KiDeliverApcReturnWork ==
  ASSUME Inv, WorkInv, ThreadInv, NEW t \in Threads, KiDeliverApcReturn(t)
  PROVE  WorkStep /\ ThreadInv'
<1> USE DEF Inv, Shape, ThreadInv, KiDeliverApcReturn, queueVars, apcVars, reaperVars
<1>1. Quiet
  BY DEF Quiet, SameHolders, queueVars, reaperVars
<1>2. HandsOK'
  BY StatusAssumption DEF HandsOK, EmptyHanded, TypeOK, Located
<1>3. ReaperListed'
  BY ReaperKept DEF TypeOK, Located
<1>4. WaitersListed'
  BY WaitersKept DEF TypeOK
<1>5. ExitBreaksWait'
  BY ExitKept DEF TypeOK
<1> QED BY <1>1, <1>2, <1>3, <1>4, <1>5 DEF WorkStep

(* The thread is done with its entry.                                         *)
LEMMA FinishEntryWork ==
  ASSUME Inv, WorkInv, ThreadInv, NEW t \in Threads, FinishEntry(t)
  PROVE  WorkStep /\ ThreadInv'
<1> USE DEF Inv, Shape, ThreadInv, FinishEntry, queueVars, apcVars, reaperVars
<1>1. Finish(t)
  BY DEF Finish, queueVars, reaperVars
<1>2. HandsOK'
  BY StatusAssumption DEF HandsOK, EmptyHanded, TypeOK, Located
<1>3. ReaperListed'
  BY ReaperKept DEF TypeOK, Located
<1>4. WaitersListed'
  BY WaitersKept DEF TypeOK
<1>5. ExitBreaksWait'
  BY ExitKept DEF TypeOK
<1> QED BY <1>1, <1>2, <1>3, <1>4, <1>5 DEF WorkStep

(* The reaper becomes inactive with its work item free.                       *)
LEMMA PspReaperDoneWork ==
  ASSUME Inv, WorkInv, ThreadInv, NEW t \in Threads, PspReaperDone(t)
  PROVE  WorkStep /\ ThreadInv'
<1> USE DEF Inv, Shape, ThreadInv, PspReaperDone, queueVars, apcVars, reaperVars
<1>1. Finish(t)
  BY ConstantsAssumption DEF Finish, queueVars
<1>2. HandsOK'
  BY StatusAssumption DEF HandsOK, EmptyHanded, TypeOK, Located
<1>3. ReaperListed'
  BY DEF ReaperListed, Items
<1>4. WaitersListed'
  BY WaitersKept DEF TypeOK
<1>5. ExitBreaksWait'
  BY ExitKept DEF TypeOK
<1> QED BY <1>1, <1>2, <1>3, <1>4, <1>5 DEF WorkStep

(* A new thread has no entry.                                                 *)
LEMMA KeInitializeThreadWork ==
  ASSUME Inv, WorkInv, ThreadInv, NEW t \in Threads, KeInitializeThread(t)
  PROVE  WorkStep /\ ThreadInv'
<1> USE DEF Inv, Shape, ThreadInv, KeInitializeThread, queueVars, apcVars, reaperVars
<1>1. Quiet
  BY StatusAssumption DEF Quiet, SameHolders, HandsOK, EmptyHanded, TypeOK, queueVars, reaperVars
<1>2. HandsOK'
  BY StatusAssumption DEF HandsOK, EmptyHanded, TypeOK, Located
<1>3. ReaperListed'
  BY ReaperKept DEF TypeOK, Located
<1>4. WaitersListed'
  BY WaitersKept DEF TypeOK
<1>5. ExitBreaksWait'
  BY ExitKept DEF TypeOK
<1> QED BY <1>1, <1>2, <1>3, <1>4, <1>5 DEF WorkStep

(* The exit APC is queued to a thread that does not wait.                     *)
LEMMA KiInsertQueueApcExitWork ==
  ASSUME Inv, WorkInv, ThreadInv, NEW t \in Threads, KiInsertQueueApcExit(t)
  PROVE  WorkStep /\ ThreadInv'
<1> USE DEF Inv, Shape, ThreadInv, KiInsertQueueApcExit, queueVars, apcVars, reaperVars
<1>1. Quiet
  BY DEF Quiet, SameHolders, queueVars, reaperVars
<1>2. HandsOK'
  BY StatusAssumption DEF HandsOK, EmptyHanded, TypeOK, Located
<1>3. ReaperListed'
  BY ReaperKept DEF TypeOK, Located
<1>4. WaitersListed'
  BY WaitersKept DEF TypeOK
<1>5. ExitBreaksWait'
  BY ExitKept DEF TypeOK
<1> QED BY <1>1, <1>2, <1>3, <1>4, <1>5 DEF WorkStep

-----------------------------------------------------------------------------
(* The actions that may wake a waiting thread, and those of the reaper's      *)
(* list.  S holds the caller, which has moved from pc to at.                  *)

(* All threads but the caller stay where they are, with their status, or are  *)
(* made ready.                                                                *)
Stays(S, at) ==
  /\ \A v \in S : pc'[v] = at[v] /\ status'[v] = status[v]
  /\ \A v \in Threads \ S : \/ pc'[v] = "ready"
                            \/ pc'[v] = pc[v] /\ status'[v] = status[v]
  /\ UNCHANGED waiters \/ \E u \in Threads : Unlisted(u) /\ pc'[u] # "wait"

(* The service wakes one waiting thread or none.                              *)
LEMMA WakesStays ==
  ASSUME TypeOK, NEW S \in SUBSET Threads, NEW at \in [Threads -> Locations], NEW q,
         \A v \in S : pc[v] # "wait", \A v \in Threads \ S : at[v] = pc[v],
         \/ \E u \in Threads : \E s : Wakes(at, u, q) /\ status' = [status EXCEPT ![u] = s]
         \/ pc' = at /\ UNCHANGED <<waiters, status>>
  PROVE  Stays(S, at)
<1>1. CASE \E u \in Threads : \E s : Wakes(at, u, q) /\ status' = [status EXCEPT ![u] = s]
  <2>1. PICK u \in Threads : \E s : Wakes(at, u, q) /\ status' = [status EXCEPT ![u] = s]
    BY <1>1
  <2>2. pc'[u] = "ready" /\ u \notin S /\ Unlisted(u)
    BY <2>1 DEF Wakes
  <2>3. \A v \in Threads \ {u} : pc'[v] = at[v] /\ status'[v] = status[v]
    BY <2>1 DEF Wakes, TypeOK
  <2> QED BY <2>2, <2>3 DEF Stays
<1>2. CASE pc' = at /\ UNCHANGED <<waiters, status>>
  BY <1>2 DEF Stays
<1> QED BY <1>1, <1>2

(* The lock is free or with t, which leaves the processor: the queue of t may *)
(* activate another thread.                                                   *)
LEMMA ActivateStays ==
  ASSUME Inv, HandsOK, NEW t \in Threads, NEW x \in Locations, NEW q \in Queues,
         pc[t] # "wait", KiActivateWaiterQueue([pc EXCEPT ![t] = x], q),
         UNCHANGED <<live, reaperActive>>
  PROVE  WorkStep /\ Stays({t}, [pc EXCEPT ![t] = x])
<1> DEFINE at == [pc EXCEPT ![t] = x]
<1>1. PICK S \in SUBSET Threads : S = {t}
  OBVIOUS
<1>2. /\ at \in [Threads -> Locations] /\ \A v \in Threads \ S : at[v] = pc[v]
      /\ \A v \in S : pc[v] # "wait"
  BY <1>1 DEF Inv, TypeOK
<1> HIDE DEF at
<1>3. \/ \E u \in Threads : Take(u, q) /\ Wakes(at, u, q)
      \/ Quiet /\ pc' = at /\ UNCHANGED <<waiters, status>>
  BY ActivateWork DEF at
<1>4. \/ \E u \in Threads : \E s : Wakes(at, u, q) /\ status' = [status EXCEPT ![u] = s]
      \/ pc' = at /\ UNCHANGED <<waiters, status>>
  BY <1>3 DEF Take
<1>5. Stays(S, at)
  BY <1>2, <1>4, WakesStays DEF Inv
<1> QED BY <1>1, <1>3, <1>5 DEF WorkStep, at

(* An entry is queued or handed over: at most one waiting thread is woken.    *)
LEMMA InsertStays ==
  ASSUME Inv, HandsOK, NEW S \in SUBSET Threads, NEW at \in [Threads -> Locations],
         \A v \in S : pc[v] # "wait", \A v \in Threads \ S : at[v] = pc[v],
         NEW c, NEW q \in Queues, NEW e \in Entries, NEW head,
         KiInsertQueue(at, c, q, e, head), Free(e), live[q], e = ReaperItem => q = ReaperQueue,
         UNCHANGED live, reaperActive' <=> reaperActive \/ e = ReaperItem
  PROVE  WorkStep /\ Stays(S, at)
<1>1. \/ \E u \in Threads : Hand(u, e) /\ Wakes(at, u, q)
      \/ Post(q, e) /\ pc' = at /\ UNCHANGED <<waiters, status>>
  BY InsertWork
<1>2. \/ \E u \in Threads : \E s : Wakes(at, u, q) /\ status' = [status EXCEPT ![u] = s]
      \/ pc' = at /\ UNCHANGED <<waiters, status>>
  BY <1>1 DEF Hand
<1>3. Stays(S, at)
  BY <1>2, WakesStays DEF Inv
<1> QED BY <1>1, <1>3 DEF WorkStep

(* KiUnwaitThread with a status that is no entry.                             *)
LEMMA UnwaitStays ==
  ASSUME Inv, HandsOK, NEW u \in Threads, pc[u] = "wait", NEW s, s \notin Entries,
         KiUnwaitThread(pc, count, u, s), UNCHANGED <<live, entries, signal, reaperActive>>
  PROVE  Quiet /\ Stays({}, pc)
<1> USE DEF Inv, Shape
<1>1. status[u] \notin Entries
  BY DEF HandsOK, EmptyHanded
<1>2. Quiet
  BY <1>1 DEF KiUnwaitThread, Quiet, SameHolders, TypeOK
<1>3. Unlisted(u)
  BY WithoutUnlisted DEF KiUnwaitThread
<1>4. Stays({}, pc)
  BY <1>3 DEF Stays, KiUnwaitThread, TypeOK
<1> QED BY <1>2, <1>4

(* What such a step does to the invariant of the threads: only the caller     *)
(* has to be looked at.                                                       *)
LEMMA StaysKept ==
  ASSUME Inv, ThreadInv, NEW S \in SUBSET Threads, NEW at, Stays(S, at),
         \A v \in S : at[v] # "wait",
         \A v \in S : EmptyHanded(v)' => status[v] \notin Entries,
         \A v \in Threads \ S : queue'[v] = queue[v] /\ args'[v] = args[v],
         UNCHANGED <<resume, userApc>>
  PROVE  HandsOK' /\ WaitersListed' /\ ExitBreaksWait'
<1> USE DEF ThreadInv
<1>1. \A v \in Threads : pc'[v] = "wait" =>
        pc[v] = "wait" /\ queue'[v] = queue[v] /\ args'[v] = args[v]
  BY DEF Stays
<1>2. HandsOK'
  BY DEF HandsOK, EmptyHanded, Stays
<1>3. WaitersListed'
  BY <1>1, WaitersKept DEF Stays
<1>4. ExitBreaksWait'
  BY <1>1, ExitKept
<1> QED BY <1>2, <1>3, <1>4

(* The reaper's list as well, if the caller is not one of the dead.           *)
LEMMA StaysThread ==
  ASSUME Inv, ThreadInv, NEW S \in SUBSET Threads, NEW at, Stays(S, at),
         \A v \in S : at[v] # "wait" /\ (at[v] \in {"term", "dead"} => pc[v] \in {"term", "dead"}),
         \A v \in S : EmptyHanded(v)' => status[v] \notin Entries,
         \A v \in Threads \ S : queue'[v] = queue[v] /\ args'[v] = args[v],
         UNCHANGED <<resume, userApc, reaperList, reaperActive>>
  PROVE  ThreadInv'
<1>1. HandsOK' /\ WaitersListed' /\ ExitBreaksWait'
  BY StaysKept
<1>2. ReaperListed'
  BY ReaperKept DEF ThreadInv, Stays
<1> QED BY <1>1, <1>2 DEF ThreadInv

(* KeRemoveQueue joins the queue; the one it leaves may activate a thread.    *)
LEMMA KeRemoveQueueWork ==
  ASSUME Inv, WorkInv, ThreadInv, NEW t \in Threads, NEW q \in Queues, NEW a \in WaitArgs,
         KeRemoveQueue(t, q, a)
  PROVE  WorkStep /\ ThreadInv'
<1> DEFINE at == [pc EXCEPT ![t] = "loop"]
<1>1. /\ pc[t] = "run" /\ status[t] \notin Entries /\ at[t] = "loop"
      /\ UNCHANGED <<live, resume, userApc, reaperList, reaperActive>>
      /\ \A v \in Threads \ {t} : queue'[v] = queue[v] /\ args'[v] = args[v]
  BY DEF KeRemoveQueue, Inv, TypeOK, apcVars, reaperVars
<1>2. WorkStep /\ Stays({t}, at)
  <2>1. CASE queue[t] \in {q, NoQueue}
    <3>1. pc' = at /\ UNCHANGED <<entries, signal, waiters, status>>
      BY <2>1 DEF KeRemoveQueue
    <3>2. Quiet
      BY <1>1, <3>1 DEF Quiet, SameHolders
    <3>3. Stays({t}, at)
      BY <3>1 DEF Stays, Inv, TypeOK
    <3> QED BY <3>2, <3>3 DEF WorkStep
  <2>2. CASE queue[t] \notin {q, NoQueue}
    <3>1. queue[t] \in Queues /\ "loop" \in Locations /\ KiActivateWaiterQueue(at, queue[t])
      BY <2>2 DEF KeRemoveQueue, Inv, TypeOK, Locations
    <3> QED BY <1>1, <3>1, ActivateStays DEF ThreadInv
  <2> QED BY <2>1, <2>2
<1> HIDE DEF at
<1>3. ThreadInv'
  BY <1>1, <1>2, StaysThread
<1> QED BY <1>2, <1>3

(* A wait on another object gives up the processor.                           *)
LEMMA KeWaitWork ==
  ASSUME Inv, WorkInv, ThreadInv, NEW t \in Threads, KeWait(t)
  PROVE  WorkStep /\ ThreadInv'
<1> DEFINE at == [pc EXCEPT ![t] = "block"]
<1>1. /\ pc[t] \in {"run", "apc"} /\ at[t] = "block"
      /\ UNCHANGED <<live, queue, args, resume, userApc, reaperList, reaperActive>>
  BY DEF KeWait, Inv, TypeOK, apcVars, reaperVars
<1>2. WorkStep /\ Stays({t}, at)
  <2>1. CASE queue[t] = NoQueue
    <3>1. pc' = at /\ UNCHANGED <<entries, signal, waiters, status>>
      BY <2>1 DEF KeWait
    <3>2. Quiet
      BY <1>1, <3>1 DEF Quiet, SameHolders
    <3>3. Stays({t}, at)
      BY <3>1 DEF Stays, Inv, TypeOK
    <3> QED BY <3>2, <3>3 DEF WorkStep
  <2>2. CASE queue[t] # NoQueue
    <3>1. queue[t] \in Queues /\ "block" \in Locations /\ KiActivateWaiterQueue(at, queue[t])
      BY <2>2 DEF KeWait, Inv, TypeOK, Locations
    <3> QED BY <1>1, <3>1, ActivateStays DEF ThreadInv
  <2> QED BY <2>1, <2>2
<1> HIDE DEF at
<1>3. EmptyHanded(t)' => status[t] \notin Entries
  BY <1>1, <1>2 DEF EmptyHanded, Stays, ThreadInv, HandsOK, Inv, Shape, Located
<1>4. ThreadInv'
  BY <1>1, <1>2, <1>3, StaysThread
<1> QED BY <1>2, <1>4

(* An entry is queued or handed over.                                         *)
LEMMA KeInsertQueueWork ==
  ASSUME Inv, WorkInv, ThreadInv, NEW c \in Threads \cup {Idle}, NEW q \in Queues,
         NEW e \in Entries, NEW head \in BOOLEAN, KeInsertQueue(c, q, e, head)
  PROVE  WorkStep /\ ThreadInv'
<1>1. /\ KiInsertQueue(pc, c, q, e, head) /\ Free(e) /\ live[q] /\ e # ReaperItem
      /\ UNCHANGED <<live, queue, args, resume, userApc, reaperList, reaperActive>>
  BY DEF KeInsertQueue, apcVars, reaperVars
<1>2. WorkStep /\ Stays({}, pc)
  BY <1>1, InsertStays DEF ThreadInv, Inv, TypeOK
<1>3. ThreadInv'
  BY <1>1, <1>2, StaysThread
<1> QED BY <1>2, <1>3

(* The timer of a wait expires.                                               *)
LEMMA KiTimerExpireWork ==
  ASSUME Inv, WorkInv, ThreadInv, NEW t \in Threads, KiTimerExpire(t)
  PROVE  WorkStep /\ ThreadInv'
<1>1. /\ pc[t] = "wait" /\ KiUnwaitThread(pc, count, t, "TIMEOUT")
      /\ UNCHANGED <<live, entries, signal, queue, args, resume, userApc, reaperList, reaperActive>>
  BY DEF KiTimerExpire, Inv, Shape, TimerOnlyInWait, apcVars, reaperVars
<1>2. Quiet /\ Stays({}, pc)
  BY <1>1, UnwaitStays, StatusAssumption DEF ThreadInv
<1>3. ThreadInv'
  BY <1>1, <1>2, StaysThread
<1> QED BY <1>2, <1>3 DEF WorkStep

(* A kernel APC may break a wait.                                             *)
LEMMA KiInsertQueueApcWork ==
  ASSUME Inv, WorkInv, ThreadInv, NEW t \in Threads, NEW special \in BOOLEAN,
         KiInsertQueueApc(t, special)
  PROVE  WorkStep /\ ThreadInv'
<1>1. /\ \/ pc[t] = "wait" /\ KiUnwaitThread(pc, count, t, "KERNEL_APC")
         \/ UNCHANGED <<status, waiters, pc>>
      /\ UNCHANGED <<live, entries, signal, queue, args, resume, userApc, reaperList, reaperActive>>
  BY DEF KiInsertQueueApc, reaperVars
<1>2. Quiet /\ Stays({}, pc)
  <2>1. CASE pc[t] = "wait" /\ KiUnwaitThread(pc, count, t, "KERNEL_APC")
    BY <1>1, <2>1, UnwaitStays, StatusAssumption DEF ThreadInv
  <2>2. CASE UNCHANGED <<status, waiters, pc>>
    BY <1>1, <2>2 DEF Quiet, SameHolders, Stays
  <2> QED BY <1>1, <2>1, <2>2
<1>3. ThreadInv'
  BY <1>1, <1>2, StaysThread
<1> QED BY <1>2, <1>3 DEF WorkStep

(* A thread terminates: it joins the reaper's list, and the reaper's work     *)
(* item, which is free if the reaper is inactive, is queued.                  *)
LEMMA KeTerminateThreadWork ==
  ASSUME Inv, WorkInv, ThreadInv, NEW t \in Threads, KeTerminateThread(t)
  PROVE  WorkStep /\ ThreadInv'
<1> DEFINE at == [pc EXCEPT ![t] = "term"]
<1>1. /\ pc[t] = "run" /\ status[t] \notin Entries /\ at[t] = "term"
      /\ at \in [Threads -> Locations] /\ \A v \in Threads \ {t} : at[v] = pc[v]
      /\ reaperActive' = TRUE /\ reaperList' = Append(reaperList, t)
      /\ UNCHANGED <<live, queue, args, resume, userApc>>
  BY DEF KeTerminateThread, Inv, TypeOK, Locations, apcVars
<1>2. WorkStep /\ Stays({t}, at)
  <2>1. CASE reaperActive
    <3>1. pc' = at /\ UNCHANGED <<entries, signal, waiters, status, reaperActive>>
      BY <2>1 DEF KeTerminateThread
    <3>2. Quiet
      BY <1>1, <3>1 DEF Quiet, SameHolders
    <3>3. Stays({t}, at)
      BY <3>1 DEF Stays, Inv, TypeOK
    <3> QED BY <3>2, <3>3 DEF WorkStep
  <2>2. CASE ~reaperActive
    <3>1. /\ KiInsertQueue(at, t, ReaperQueue, ReaperItem, FALSE)
          /\ Free(ReaperItem) /\ live[ReaperQueue]
      BY <2>2 DEF KeTerminateThread, WorkInv, ReaperExact
    <3> QED BY <1>1, <3>1, InsertStays, ConstantsAssumption DEF ThreadInv
  <2> QED BY <2>1, <2>2
<1> HIDE DEF at
<1>3. HandsOK' /\ WaitersListed' /\ ExitBreaksWait'
  BY <1>1, <1>2, StaysKept
<1>4. ReaperListed'
  <2>1. reaperList \in Seq(Threads) /\ Once(reaperList) /\ t \notin Items(reaperList)
    BY <1>1 DEF Inv, Shape, TypeOK, ReaperListOK, Injective, Once, Items
  <2>2. Items(reaperList') = Items(reaperList) \cup {t}
    BY <1>1, <2>1, AppendItems
  <2> QED BY <1>1, <1>2, <2>2 DEF ReaperListed, ThreadInv, Stays
<1> QED BY <1>2, <1>3, <1>4 DEF ThreadInv

(* The dying thread leaves its queue and the processor.                       *)
LEMMA KeTerminateThreadLeaveWork ==
  ASSUME Inv, WorkInv, ThreadInv, NEW t \in Threads, KeTerminateThreadLeave(t)
  PROVE  WorkStep /\ ThreadInv'
<1> DEFINE at == [pc EXCEPT ![t] = "dead"]
<1>1. /\ pc[t] = "term" /\ at[t] = "dead"
      /\ UNCHANGED <<live, queue, args, resume, userApc, reaperList, reaperActive>>
  BY DEF KeTerminateThreadLeave, Inv, TypeOK, apcVars, reaperVars
<1>2. WorkStep /\ Stays({t}, at)
  <2>1. CASE queue[t] = NoQueue
    <3>1. pc' = at /\ UNCHANGED <<entries, signal, waiters, status>>
      BY <2>1 DEF KeTerminateThreadLeave
    <3>2. Quiet
      BY <1>1, <3>1 DEF Quiet, SameHolders
    <3>3. Stays({t}, at)
      BY <3>1 DEF Stays, Inv, TypeOK
    <3> QED BY <3>2, <3>3 DEF WorkStep
  <2>2. CASE queue[t] # NoQueue
    <3>1. queue[t] \in Queues /\ "dead" \in Locations /\ KiActivateWaiterQueue(at, queue[t])
      BY <2>2 DEF KeTerminateThreadLeave, Inv, TypeOK, Locations
    <3> QED BY <1>1, <3>1, ActivateStays DEF ThreadInv
  <2> QED BY <2>1, <2>2
<1> HIDE DEF at
<1>3. status[t] \notin Entries
  BY <1>1 DEF ThreadInv, HandsOK, EmptyHanded
<1>4. ThreadInv'
  BY <1>1, <1>2, <1>3, StaysThread
<1> QED BY <1>2, <1>4

(* A dead thread is reaped: it is the oldest of the list.                     *)
LEMMA PspReaperWork ==
  ASSUME Inv, WorkInv, ThreadInv, NEW t \in Threads, PspReaper(t)
  PROVE  WorkStep /\ ThreadInv'
<1> USE DEF Inv, Shape, ThreadInv
<1>1. /\ reaperList \in Seq(Threads) /\ reaperList # <<>> /\ Once(reaperList)
      /\ reaperList' = Tail(reaperList) /\ pc' = [pc EXCEPT ![Head(reaperList)] = "none"]
      /\ UNCHANGED <<live, entries, signal, waiters, queue, resume, status, args, userApc,
                     reaperActive>>
  BY DEF PspReaper, TypeOK, ReaperListOK, Injective, Once, queueVars, apcVars
<1>2. PICK u \in Threads : u = Head(reaperList) /\ u \in Items(reaperList)
  BY <1>1, TailItems
<1>3. Items(reaperList') = Items(reaperList) \ {u}
  BY <1>1, <1>2, TailItems
<1>4. status[u] \notin Entries /\ pc'[u] = "none" /\ \A v \in Threads \ {u} : pc'[v] = pc[v]
  BY <1>1, <1>2 DEF ReaperListOK, Items, HandsOK, EmptyHanded, TypeOK
<1>5. Quiet
  BY <1>1 DEF Quiet, SameHolders
<1>6. HandsOK'
  BY <1>1, <1>4 DEF HandsOK, EmptyHanded
<1>7. ReaperListed'
  BY <1>1, <1>3, <1>4 DEF ReaperListed
<1>8. WaitersListed'
  BY <1>1, <1>4 DEF WaitersListed
<1>9. ExitBreaksWait'
  BY <1>1, <1>4 DEF ExitBreaksWait
<1> QED BY <1>5, <1>6, <1>7, <1>8, <1>9 DEF WorkStep

(* A queue is run down: nobody waits on it, and it is not the reaper's.       *)
LEMMA KeRundownQueueWork ==
  ASSUME Inv, WorkInv, ThreadInv, NEW q \in Queues, KeRundownQueue(q)
  PROVE  WorkStep /\ ThreadInv'
<1> USE DEF Inv, Shape, ThreadInv
<1>1. /\ q # ReaperQueue /\ live' = [live EXCEPT ![q] = FALSE]
      /\ entries' = [entries EXCEPT ![q] = <<>>]
      /\ queue' = [t \in Threads |-> IF t \in members[q] THEN NoQueue ELSE queue[t]]
      /\ \A t \in Threads : pc[t] = "wait" => queue[t] # q
      /\ UNCHANGED <<signal, waiters, pc, resume, status, args, userApc, reaperList, reaperActive>>
  BY DEF KeRundownQueue, InRemove, apcVars, reaperVars
<1>2. Discard(q)
  BY <1>1 DEF Discard, SameHolders, TypeOK
<1>3. HandsOK' /\ ReaperListed' /\ ExitBreaksWait'
  BY <1>1 DEF HandsOK, EmptyHanded, ReaperListed, ExitBreaksWait
<1>4. \A t \in Threads : pc[t] = "wait" => queue'[t] = queue[t]
  BY <1>1 DEF Associated, TypeOK
<1>5. WaitersListed'
  BY <1>1, <1>4 DEF WaitersListed
<1> QED BY <1>2, <1>3, <1>5 DEF WorkStep

(* A queue is initialised in memory that no thread waits on.                  *)
LEMMA KeInitializeQueueWork ==
  ASSUME Inv, WorkInv, ThreadInv, NEW q \in Queues, NEW max \in MaximumCounts,
         KeInitializeQueue(q, max)
  PROVE  WorkStep /\ ThreadInv'
<1> USE DEF Inv, Shape, ThreadInv
<1>1. /\ ~live[q] /\ live' = [live EXCEPT ![q] = TRUE] /\ signal' = [signal EXCEPT ![q] = 0]
      /\ entries' = [entries EXCEPT ![q] = <<>>] /\ waiters' = [waiters EXCEPT ![q] = <<>>]
      /\ UNCHANGED <<queue, pc, resume, status, args, userApc, reaperList, reaperActive>>
  BY DEF KeInitializeQueue, apcVars, reaperVars
<1>2. Discard(q)
  BY <1>1 DEF Discard, SameHolders, TypeOK, WorkInv, QueuesLive
<1>3. HandsOK' /\ ReaperListed' /\ ExitBreaksWait'
  BY <1>1 DEF HandsOK, EmptyHanded, ReaperListed, ExitBreaksWait
<1>4. \A t \in Threads : pc[t] = "wait" => queue[t] \in Queues /\ queue[t] # q
  BY <1>1, Inside
<1>5. WaitersListed'
  BY <1>1, <1>4 DEF WaitersListed, TypeOK
<1> QED BY <1>2, <1>3, <1>5 DEF WorkStep

-----------------------------------------------------------------------------
(* All steps together.                                                        *)

(* The steps of a thread.                                                     *)
LEMMA ThreadStepWork ==
  ASSUME Inv, WorkInv, ThreadInv, NEW t \in Threads, ThreadStep(t)
  PROVE  WorkStep /\ ThreadInv'
<1>1. CASE \E q \in Queues, a \in WaitArgs : KeRemoveQueue(t, q, a)
  BY <1>1, KeRemoveQueueWork
<1>2. CASE KeRemoveQueueTake(t)
  BY <1>2, KeRemoveQueueTakeWork
<1>3. CASE KeRemoveQueueApc(t)
  BY <1>3, KeRemoveQueueApcWork
<1>4. CASE KeRemoveQueueReturn(t)
  BY <1>4, KeRemoveQueueReturnWork
<1>5. CASE KeRemoveQueueWait(t)
  BY <1>5, KeRemoveQueueWaitWork
<1>6. CASE KiSwapThreadApc(t)
  BY <1>6, KiSwapThreadApcWork
<1>7. CASE KeRemoveQueueWoken(t)
  BY <1>7, KeRemoveQueueWokenWork
<1>8. CASE KeRemoveQueueRelock(t)
  BY <1>8, KeRemoveQueueRelockWork
<1>9. CASE KeWait(t)
  BY <1>9, KeWaitWork
<1>10. CASE KeWaitDone(t)
  BY <1>10, KeWaitDoneWork
<1>11. CASE KiTimerExpire(t)
  BY <1>11, KiTimerExpireWork
<1>12. CASE KiDeliverApc(t)
  BY <1>12, KiDeliverApcWork
<1>13. CASE KiDeliverApcReturn(t)
  BY <1>13, KiDeliverApcReturnWork
<1>14. CASE FinishEntry(t)
  BY <1>14, FinishEntryWork
<1>15. CASE KeTerminateThread(t)
  BY <1>15, KeTerminateThreadWork
<1>16. CASE KeTerminateThreadLeave(t)
  BY <1>16, KeTerminateThreadLeaveWork
<1>17. CASE PspReaper(t)
  BY <1>17, PspReaperWork
<1>18. CASE PspReaperDone(t)
  BY <1>18, PspReaperDoneWork
<1>19. CASE KeInitializeThread(t)
  BY <1>19, KeInitializeThreadWork
<1>20. CASE \E special \in BOOLEAN : KiInsertQueueApc(t, special)
  BY <1>20, KiInsertQueueApcWork
<1>21. CASE KiInsertQueueApcExit(t)
  BY <1>21, KiInsertQueueApcExitWork
<1> QED BY <1>1, <1>2, <1>3, <1>4, <1>5, <1>6, <1>7, <1>8, <1>9, <1>10, <1>11, <1>12, <1>13,
           <1>14, <1>15, <1>16, <1>17, <1>18, <1>19, <1>20, <1>21 DEF ThreadStep

(* Every step is of one of the kinds above and keeps the invariant of the     *)
(* threads.                                                                   *)
LEMMA NextWork ==
  ASSUME Inv, WorkInv, ThreadInv, [Next]_vars
  PROVE  WorkStep /\ ThreadInv'
<1>1. CASE \E t \in Threads : ThreadStep(t)
  BY <1>1, ThreadStepWork
<1>2. CASE Insert
  BY <1>2, KeInsertQueueWork DEF Insert
<1>3. ASSUME NEW q \in Queues, QueueStep(q) PROVE WorkStep /\ ThreadInv'
  <2>1. CASE KeRundownQueue(q)
    BY <2>1, KeRundownQueueWork
  <2>2. CASE \E max \in MaximumCounts : KeInitializeQueue(q, max)
    BY <2>2, KeInitializeQueueWork
  <2> QED BY <1>3, <2>1, <2>2 DEF QueueStep
<1>4. CASE UNCHANGED vars
  <2>1. Quiet
    BY <1>4 DEF Quiet, SameHolders, vars
  <2>2. HandsOK' /\ ReaperListed'
    BY <1>4 DEF ThreadInv, HandsOK, EmptyHanded, ReaperListed, vars
  <2>3. WaitersListed' /\ ExitBreaksWait'
    BY <1>4 DEF ThreadInv, WaitersListed, ExitBreaksWait, vars
  <2> QED BY <2>1, <2>2, <2>3 DEF WorkStep, ThreadInv
<1> QED BY <1>1, <1>2, <1>3, <1>4 DEF Next

(* At the start no entry is queued and no thread waits.                       *)
LEMMA InitWork == ASSUME Init PROVE WorkInv /\ ThreadInv
<1> USE DEF Init
<1>1. \A q \in Queues : Items(entries[q]) = {} /\ Once(entries[q])
  BY DEF Items, Once
<1>2. "none" \notin Entries
  BY StatusAssumption
<1>3. OnePlace /\ QueuesLive
  BY <1>1, <1>2, ConstantsAssumption DEF OnePlace, QueuesLive
<1>4. Free(ReaperItem)
  BY <1>2, ConstantsAssumption DEF Free
<1>5. ReaperExact /\ SignalExact
  BY <1>4 DEF ReaperExact, SignalExact
<1>6. ThreadInv
  BY <1>2 DEF ThreadInv, HandsOK, EmptyHanded, ReaperListed, WaitersListed, ExitBreaksWait
<1> QED BY <1>3, <1>5, <1>6 DEF WorkInv

(* The work is in order throughout every execution: every entry is in one     *)
(* place, the reaper's work item is where reaperActive says, and the threads  *)
(* hold entries only where KeRemoveQueue gave them one.                       *)
THEOREM WorkInvariance == Spec => [](Inv /\ WorkInv /\ ThreadInv)
<1>1. Init => Inv /\ WorkInv /\ ThreadInv
  BY InitInv, InitWork
<1>2. Inv /\ WorkInv /\ ThreadInv /\ [Next]_vars => (Inv /\ WorkInv /\ ThreadInv)'
  <2> SUFFICES ASSUME Inv, WorkInv, ThreadInv, [Next]_vars PROVE (Inv /\ WorkInv /\ ThreadInv)'
    OBVIOUS
  <2>1. Inv' /\ WorkStep /\ ThreadInv'
    BY NextInv, NextWork
  <2>2. TypeOK /\ TypeOK'
    BY <2>1 DEF Inv
  <2> QED BY <2>1, <2>2, WorkKept
<1> QED BY <1>1, <1>2, PTL DEF Spec

(* The wait list of a queue names exactly the threads that wait there, once   *)
(* each, the member list its live threads, and SignalState is the number of   *)
(* its entries, through insertions, hand-overs, removals, rundown and         *)
(* reinitialisation (ListsExact).                                             *)
THEOREM ListsCorrect == Spec => []ListsExact
<1>1. ASSUME Inv, WorkInv, ThreadInv PROVE ListsExact
  <2> SUFFICES ASSUME NEW q \in Queues, live[q]
      PROVE /\ \A i \in 1..Len(waiters[q]) : pc[waiters[q][i]] = "wait" /\ queue[waiters[q][i]] = q
            /\ \A t \in Threads : pc[t] = "wait" /\ queue[t] = q =>
                 \E i \in 1..Len(waiters[q]) : waiters[q][i] = t
            /\ \A i, j \in 1..Len(waiters[q]) : waiters[q][i] = waiters[q][j] => i = j
            /\ members[q] = {t \in Threads : queue[t] = q /\ pc[t] \notin {"dead", "none"}}
    BY <1>1 DEF ListsExact, WorkInv
  <2> USE <1>1 DEF Inv, Shape, ThreadInv
  <2>1. \A t \in Threads : pc[t] = "wait" /\ queue[t] = q =>
          \E i \in 1..Len(waiters[q]) : waiters[q][i] = t
    BY DEF WaitersListed, Items
  <2>2. members[q] = {t \in Threads : queue[t] = q /\ pc[t] \notin {"dead", "none"}}
    BY ConstantsAssumption DEF Associated, TypeOK
  <2> QED BY <2>1, <2>2 DEF WaitListsOK, Injective
<1>2. Inv /\ WorkInv /\ ThreadInv => ListsExact
  BY <1>1
<1> QED BY <1>2, WorkInvariance, PTL

(* The reaper is scheduled exactly while there is something to reap: no       *)
(* thread terminates between the reaper's last look at its list and its reset *)
(* of PsReaperActive without being reaped.                                    *)
THEOREM ReaperCorrect == Spec => []ReaperScheduled
<1>1. ASSUME WorkInv, ThreadInv PROVE ReaperScheduled
  <2>1. \A t \in Threads : pc[t] = "dead" => reaperActive
    BY <1>1 DEF ThreadInv, ReaperListed, Items
  <2> QED BY <1>1, <2>1 DEF WorkInv, ReaperExact, ReaperScheduled
<1>2. Inv /\ WorkInv /\ ThreadInv => ReaperScheduled
  BY <1>1
<1> QED BY <1>2, WorkInvariance, PTL

(* No user mode wait on a queue goes on in a thread whose exit APC is         *)
(* pending.                                                                   *)
THEOREM ExitCorrect == Spec => []ExitBreaksWait
<1>1. Inv /\ WorkInv /\ ThreadInv => ExitBreaksWait
  BY DEF ThreadInv
<1> QED BY <1>1, WorkInvariance, PTL

(* KiInsertQueue, KiActivateWaiterQueue and KeRemoveQueue hand out an entry   *)
(* only while the queue stays within MaximumCount.                            *)
THEOREM WithinMaximum == Spec => DispatchWithinMaximum
<1> DEFINE Within == \A q \in Queues : \A t \in Threads :
                       status'[t] # status[t] /\ status'[t] \in Entries /\ queue[t] = q
                         => count'[q] <= maximum[q]
<1>1. ASSUME Inv, WorkStep PROVE Within
  <2> SUFFICES ASSUME NEW t \in Threads, status'[t] # status[t], status'[t] \in Entries,
                      queue[t] \in Queues
               PROVE  count'[queue[t]] <= maximum[queue[t]]
    OBVIOUS
  <2>1. ~SameHolders
    BY DEF SameHolders
  <2>2. ASSUME NEW u \in Threads, NEW e, status' = [status EXCEPT ![u] = e]
        PROVE  u = t /\ e \in Entries
    BY <1>1, <2>2 DEF Inv, TypeOK
  <2>3. ASSUME NEW u \in Threads, NEW e \in Entries, Hand(u, e)
        PROVE  count'[queue[t]] <= maximum[queue[t]]
    BY <2>2, <2>3 DEF Hand
  <2>4. ASSUME NEW u \in Threads, NEW q \in Queues, Take(u, q)
        PROVE  count'[queue[t]] <= maximum[queue[t]]
    BY <2>2, <2>4 DEF Take
  <2>5. ASSUME NEW u \in Threads, Finish(u) PROVE FALSE
    BY <2>2, <2>5, StatusAssumption DEF Finish
  <2> QED BY <1>1, <2>1, <2>3, <2>4, <2>5 DEF WorkStep, Quiet, Post, Discard
<1>2. Inv /\ WorkInv /\ ThreadInv /\ [Next]_vars => [Within]_vars
  BY <1>1, NextWork
<1> QED BY <1>2, WorkInvariance, PTL DEF Spec, DispatchWithinMaximum

(* The refinement: Holder is the entry in the wait status of a thread, and    *)
(* every kind of step is one of WorkQueue or a stutter.                       *)
LEMMA HolderSame == ASSUME TypeOK, TypeOK', SameHolders PROVE Holder' = Holder
BY DEF Holder, SameHolders, TypeOK

(* ... one that stores a status does, if it is an entry ...                   *)
LEMMA HolderSet ==
  ASSUME TypeOK, NEW u \in Threads, NEW x, status' = [status EXCEPT ![u] = x]
  PROVE  Holder' = [Holder EXCEPT ![u] = IF x \in Entries THEN x ELSE "none"]
BY DEF Holder, TypeOK

(* ... and a thread holds what its status says.                               *)
LEMMA HolderIs ==
  ASSUME NEW t \in Threads
  PROVE  /\ status[t] \in Entries => Holder[t] = status[t]
         /\ status[t] \notin Entries => Holder[t] = "none"
BY DEF Holder

(* An entry that is free in KeQueue is free in WorkQueue.                     *)
LEMMA FreeMapped == ASSUME NEW e \in Entries, Free(e) PROVE Work!Free(e)
BY StatusAssumption DEF Free, Work!Free, Holder

(* Every kind of step is a step of WorkQueue or leaves it unchanged.          *)
LEMMA StepMapped ==
  ASSUME TypeOK, TypeOK', WorkInv, WorkStep
  PROVE  [Work!Next]_Work!workVars
<1>1. CASE Quiet
  BY <1>1, HolderSame DEF Quiet, Work!workVars
<1>2. ASSUME NEW q \in Queues, NEW e \in Entries, Post(q, e) PROVE Work!Post(q, e)
  BY <1>2, HolderSame, FreeMapped DEF Post, Work!Post
<1>3. ASSUME NEW u \in Threads, NEW e \in Entries, Hand(u, e) PROVE Work!Handoff(u, e)
  BY <1>3, HolderSet, HolderIs, FreeMapped DEF Hand, Work!Handoff
<1>4. ASSUME NEW u \in Threads, NEW q \in Queues, Take(u, q) PROVE Work!Take(u, q)
  <2>1. Head(entries[q]) \in Entries
    BY <1>4, EntriesTyped, TailItems DEF Take, WorkInv, OnePlace
  <2> QED BY <1>4, <2>1, HolderSet, HolderIs DEF Take, Work!Take
<1>5. ASSUME NEW t \in Threads, Finish(t) PROVE Work!Finish(t)
  BY <1>5, HolderSet, HolderIs, StatusAssumption DEF Finish, Work!Finish
<1>6. ASSUME NEW q \in Queues, Discard(q) PROVE Work!Discard(q)
  BY <1>6, HolderSame DEF Discard, Work!Discard
<1> QED BY <1>1, <1>2, <1>3, <1>4, <1>5, <1>6 DEF WorkStep, Work!Next

(* KeQueue implements WorkQueue: no interleaving of inserts, removals,        *)
(* timeouts, APCs, exits and rundowns loses an entry, gives it to two threads *)
(* or queues it twice.                                                        *)
THEOREM Delivered == Spec => EntriesDelivered
<1>1. Init => Work!Init
  BY StatusAssumption DEF Init, Work!Init, Holder
<1>2. Inv /\ WorkInv /\ ThreadInv /\ Inv' /\ [Next]_vars => [Work!Next]_Work!workVars
  BY NextWork, StepMapped DEF Inv
<1>3. Spec => Init /\ [][Next]_vars
  BY DEF Spec
<1> QED BY <1>1, <1>2, <1>3, WorkInvariance, PTL DEF EntriesDelivered, Work!Spec
=============================================================================
