----------------------------- MODULE ExResource ----------------------------
(* Executive resources, ntos/ex/resource.c: a reader/writer lock with an      *)
(* owner table, recursion, conversion, ownership by pointer, and waits that   *)
(* time out to boost the owners.                                              *)
(*                                                                            *)
(* A section under the resource's spin lock is one action.  The semaphore     *)
(* and the event are signalled after that lock is dropped, so a grant and its *)
(* signal are separate actions.  Waits, signals and thread exit need the      *)
(* dispatcher database lock (dlock), which a boosting thread holds from its   *)
(* first look at the owner table into its next wait.                          *)
(*                                                                            *)
(* Locations: idle (between calls); call (about to wait); blocked; timeout;   *)
(* boost (walking the owner table under dlock); store (granted exclusive, the *)
(* owner not stored yet); relock (granted by ExAcquireSharedWaitForExclusive, *)
(* no owner entry yet); semaphore, event (about to signal); dead.             *)
(*                                                                            *)
(* A call with Wait = FALSE that is refused changes nothing but, possibly,    *)
(* the size of the owner table.  ActiveCount is a SHORT and the two counts of *)
(* waiters are USHORTs in the code; here they are natural numbers, which are  *)
(* the same up to 32767 owners or waiters of one resource.                    *)
EXTENDS Integers, Sequences, FiniteSets, SequencesExt

CONSTANTS
  Threads,
  Pointers,    \* owner addresses of ExSetResourceOwnerPointer
  Waits,       \* values of the argument Wait
  Kinds,       \* shared acquisitions in use: Lite, Starve, WaitForExclusive
  MaxCount,    \* bound on the recursion count
  NoOwner,     \* an owner pointer of 0
  Granted      \* an owner pointer of 1: granted to an unknown waiter

Owners == Threads \cup Pointers
AllKinds == {"Lite", "Starve", "WaitForExclusive"}

ASSUME ResourceAssumption ==
  /\ IsFiniteSet(Threads) /\ IsFiniteSet(Pointers) /\ Threads \cap Pointers = {}
  /\ NoOwner \notin Owners \cup {Granted} /\ Granted \notin Owners
  /\ Waits \subseteq BOOLEAN /\ Kinds \subseteq AllKinds
  /\ MaxCount \in Nat \ {0}

VARIABLES
  exists,           \* the resource is initialized and not deleted
  active,           \* ActiveCount
  exclusive,        \* Flag & ResourceOwnedExclusive
  boostAllowed,     \* ~(Flag & DisablePriorityBoost)
  owners,           \* 0, 1: OwnerThreads; i > 1: OwnerTable[i - 1]
  sharedWaiters,    \* NumberOfSharedWaiters
  exclusiveWaiters, \* NumberOfExclusiveWaiters
  semaphore,        \* SharedWaiters->Header.SignalState
  event,            \* ExclusiveWaiters->Header.SignalState
  waitList,         \* threads blocked on the semaphore and on the event
  dlock,            \* holder of the dispatcher lock across actions
  pc, request,      \* where each thread is, and what it waits for
  number,           \* the local Number: how much it adds to the semaphore
  walk,             \* the owner entry ExpWaitForResource looks at
  held              \* what each owner acquired and has not released

resource == <<active, exclusive, owners, sharedWaiters, exclusiveWaiters>>
objects == <<semaphore, event, waitList>>
vars == <<exists, active, exclusive, boostAllowed, owners, sharedWaiters, exclusiveWaiters,
          semaphore, event, waitList, dlock, pc, request, number, walk, held>>

Requests == {"none", "shared", "late", "exclusive"}
ListOf(r) == IF r = "exclusive" THEN "event" ELSE "semaphore"
Entry(o, n) == [thread |-> o, count |-> n]
Free == Entry(NoOwner, 0)
NoWalk == [entry |-> 0, thread |-> NoOwner, size |-> 0]
IsSharedWaiting == sharedWaiters # 0

(* Mutant: the test is off by one.                                            *)
IsExclusiveWaitingOff == exclusiveWaiters >= 0
IsExclusiveWaiting == exclusiveWaiters # 0
OwnedBy(o) == exclusive /\ owners[0].thread = o

(* OwnerTable->TableSize, 0 if no table is allocated.                         *)
LastEntry == Cardinality(DOMAIN owners) - 1
TableSize == IF LastEntry = 1 THEN 0 ELSE LastEntry

Init ==
  /\ exists = TRUE /\ active = 0 /\ exclusive = FALSE /\ boostAllowed = TRUE
  /\ owners = [i \in 0..1 |-> Free]
  /\ sharedWaiters = 0 /\ exclusiveWaiters = 0
  /\ semaphore = 0 /\ event = FALSE
  /\ waitList = [l \in {"semaphore", "event"} |-> <<>>]
  /\ dlock = NoOwner
  /\ pc = [t \in Threads |-> "idle"] /\ request = [t \in Threads |-> "none"]
  /\ number = [t \in Threads |-> 0] /\ walk = [t \in Threads |-> NoWalk]
  /\ held = [o \in Owners |-> 0]

-----------------------------------------------------------------------------
(* The owner table.                                                           *)

Least(S) == CHOOSE i \in S : \A j \in S : i <= j
With(o) == {i \in DOMAIN owners : owners[i].thread = o}
FreeEntries == With(NoOwner) \ {0}

Expanded == [i \in 0..(IF TableSize = 0 THEN 3 ELSE TableSize + 4) |->
               IF i \in DOMAIN owners THEN owners[i] ELSE Free]

(* ExpFindCurrentThread: Slot(o) is the entry of o or else a free one, in the *)
(* table TableFor(o).  A full table is replaced by a larger one, under the    *)
(* dispatcher lock.                                                           *)
Full(o) == With(o) = {} /\ FreeEntries = {}
Slot(o) == CASE With(o) # {} -> Least(With(o))
             [] Full(o) -> IF TableSize = 0 THEN 2 ELSE TableSize + 1
             [] OTHER -> Least(FreeEntries)
TableFor(o) == IF Full(o) THEN Expanded ELSE owners

(* Mutant: the table is replaced without the dispatcher lock.                 *)
ExpandUnlocked(o) == TRUE
ExpFindCurrentThread(o) == Full(o) => dlock = NoOwner

-----------------------------------------------------------------------------
(* Acquiring.                                                                 *)

Caller(t) == exists /\ pc[t] = "idle" /\ held[t] < MaxCount
Returns == UNCHANGED <<exists, boostAllowed, semaphore, event, waitList, dlock, pc, request,
                       number, walk>>
Acquired(t) == held' = [held EXCEPT ![t] = @ + 1]
Recursive(i) == owners' = [owners EXCEPT ![i].count = @ + 1]

(* To ExpWaitForResource.                                                     *)
WaitFor(t, r) ==
  /\ pc' = [pc EXCEPT ![t] = "call"] /\ request' = [request EXCEPT ![t] = r]
  /\ UNCHANGED <<exists, active, exclusive, boostAllowed, semaphore, event, waitList, dlock,
                 number, walk, held>>

(* ExAcquireResourceExclusiveLite, ExpAcquireResourceExclusiveLite and        *)
(* ExTryToAcquireResourceExclusiveLite.  A caller with shared access does not *)
(* ask to wait: it would wait for itself.                                     *)
ExAcquireResourceExclusiveLite(t, Wait) ==
  /\ Caller(t)
  /\ \/ /\ active = 0
        /\ exclusive' = TRUE /\ active' = 1
        /\ owners' = [owners EXCEPT ![0] = Entry(t, 1)]
        /\ Acquired(t) /\ Returns
        /\ UNCHANGED <<sharedWaiters, exclusiveWaiters>>
     \/ /\ active # 0 /\ OwnedBy(t)
        /\ Recursive(0) /\ Acquired(t) /\ Returns
        /\ UNCHANGED <<active, exclusive, sharedWaiters, exclusiveWaiters>>
     \/ /\ active # 0 /\ ~OwnedBy(t) /\ Wait /\ held[t] = 0
        /\ exclusiveWaiters' = exclusiveWaiters + 1
        /\ WaitFor(t, "exclusive")
        /\ UNCHANGED <<owners, sharedWaiters>>

(* The paths that the three shared acquisitions have in common.               *)
SharedUnowned(t) ==
  /\ active = 0
  /\ owners' = [owners EXCEPT ![1] = Entry(t, 1)] /\ active' = 1
  /\ Acquired(t) /\ Returns
  /\ UNCHANGED <<exclusive, sharedWaiters, exclusiveWaiters>>

SharedByExclusiveOwner(t) ==
  /\ active # 0 /\ OwnedBy(t)
  /\ Recursive(0) /\ Acquired(t) /\ Returns
  /\ UNCHANGED <<active, exclusive, sharedWaiters, exclusiveWaiters>>

SharedRecursive(t) ==
  /\ With(t) # {}
  /\ Recursive(Slot(t)) /\ Acquired(t) /\ Returns
  /\ UNCHANGED <<active, exclusive, sharedWaiters, exclusiveWaiters>>

SharedGranted(t) ==
  /\ With(t) = {}
  /\ ExpFindCurrentThread(t)
  /\ owners' = [TableFor(t) EXCEPT ![Slot(t)] = Entry(t, 1)]
  /\ active' = active + 1
  /\ Acquired(t) /\ Returns
  /\ UNCHANGED <<exclusive, sharedWaiters, exclusiveWaiters>>

(* The waiter's owner entry is written before it waits; o is what             *)
(* ExpFindCurrentThread was asked for.                                        *)
SharedWait(t, o, Wait) ==
  /\ ExpFindCurrentThread(o)
  /\ \/ /\ ~Wait
        /\ owners' = TableFor(o)
        /\ Returns /\ UNCHANGED <<active, exclusive, sharedWaiters, exclusiveWaiters, held>>
     \/ /\ Wait
        /\ owners' = [TableFor(o) EXCEPT ![Slot(o)] = Entry(t, 1)]
        /\ sharedWaiters' = sharedWaiters + 1
        /\ WaitFor(t, "shared") /\ UNCHANGED exclusiveWaiters

SharedBehindExclusive(t, Wait) ==
  /\ active # 0 /\ exclusive /\ ~OwnedBy(t)
  /\ SharedWait(t, NoOwner, Wait)

OwnedShared == active # 0 /\ ~exclusive

(* ExAcquireResourceSharedLite                                                *)
ExAcquireResourceSharedLite(t, Wait) ==
  /\ "Lite" \in Kinds /\ Caller(t)
  /\ \/ SharedUnowned(t)
     \/ SharedByExclusiveOwner(t)
     \/ SharedBehindExclusive(t, Wait)
     \/ OwnedShared /\ SharedRecursive(t)
     \/ OwnedShared /\ ~IsExclusiveWaiting /\ SharedGranted(t)
     \/ OwnedShared /\ IsExclusiveWaiting /\ With(t) = {} /\ SharedWait(t, t, Wait)

(* ExAcquireSharedStarveExclusive                                             *)
ExAcquireSharedStarveExclusive(t, Wait) ==
  /\ "Starve" \in Kinds /\ Caller(t)
  /\ \/ SharedUnowned(t)
     \/ SharedByExclusiveOwner(t)
     \/ SharedBehindExclusive(t, Wait)
     \/ OwnedShared /\ (SharedRecursive(t) \/ SharedGranted(t))

(* ExAcquireSharedWaitForExclusive.  Behind an exclusive waiter it waits      *)
(* without an owner entry, even if it has access already: a caller with       *)
(* shared access does not ask to wait.                                        *)
ExAcquireSharedWaitForExclusive(t, Wait) ==
  /\ "WaitForExclusive" \in Kinds /\ Caller(t)
  /\ OwnedShared /\ Wait => held[t] = 0
  /\ \/ SharedUnowned(t)
     \/ SharedByExclusiveOwner(t)
     \/ SharedBehindExclusive(t, Wait)
     \/ OwnedShared /\ ~IsExclusiveWaiting /\ (SharedRecursive(t) \/ SharedGranted(t))
     \/ /\ OwnedShared /\ IsExclusiveWaiting /\ Wait
        /\ sharedWaiters' = sharedWaiters + 1
        /\ WaitFor(t, "late")
        /\ UNCHANGED <<owners, exclusiveWaiters>>

-----------------------------------------------------------------------------
(* Releasing.  t is the caller, o the owner whose access is released.         *)

Proceeds == UNCHANGED <<exists, boostAllowed, semaphore, event, waitList, dlock, request, walk>>

(* All shared waiters are granted access; t still has to signal them.         *)
GrantShared(t, n) ==
  /\ active' = n + sharedWaiters /\ sharedWaiters' = 0
  /\ number' = [number EXCEPT ![t] = sharedWaiters]
  /\ pc' = [pc EXCEPT ![t] = "semaphore"]
  /\ exclusive' = FALSE /\ UNCHANGED exclusiveWaiters

(* One exclusive waiter is granted access; t still has to signal it.          *)
GrantExclusive(t, table) ==
  /\ owners' = [table EXCEPT ![0] = Entry(Granted, 1)]
  /\ active' = 1 /\ exclusive' = TRUE
  /\ exclusiveWaiters' = exclusiveWaiters - 1
  /\ pc' = [pc EXCEPT ![t] = "event"]
  /\ UNCHANGED <<sharedWaiters, number>>

(* The count of entry i reaches zero; this may leave the resource unowned.    *)
Cleared(i) == [owners EXCEPT ![i] = Free]
Decremented(i) == [owners EXCEPT ![i].count = @ - 1]

ReleaseRecursive(i) ==
  /\ owners[i].count # 1
  /\ owners' = Decremented(i)
  /\ UNCHANGED <<active, exclusive, sharedWaiters, exclusiveWaiters, pc, number>>

(* Mutant: exclusive waiters are served although shared ones wait.            *)
ReleaseExclusiveUnfair(t) ==
  /\ exclusive
  /\ \/ ReleaseRecursive(0)
     \/ /\ owners[0].count = 1 /\ IsSharedWaiting /\ ~IsExclusiveWaiting
        /\ owners' = Cleared(0) /\ GrantShared(t, 0)
     \/ /\ owners[0].count = 1 /\ IsExclusiveWaiting
        /\ GrantExclusive(t, owners)
     \/ /\ owners[0].count = 1 /\ ~IsSharedWaiting /\ ~IsExclusiveWaiting
        /\ owners' = Cleared(0) /\ active' = 0 /\ exclusive' = FALSE
        /\ UNCHANGED <<sharedWaiters, exclusiveWaiters, pc, number>>

(* Exclusive access: ActiveCount is one and goes to zero with the count.      *)
ReleaseExclusive(t) ==
  /\ exclusive
  /\ \/ ReleaseRecursive(0)
     \/ /\ owners[0].count = 1 /\ IsSharedWaiting
        /\ owners' = Cleared(0) /\ GrantShared(t, 0)
     \/ /\ owners[0].count = 1 /\ ~IsSharedWaiting /\ IsExclusiveWaiting
        /\ GrantExclusive(t, owners)
     \/ /\ owners[0].count = 1 /\ ~IsSharedWaiting /\ ~IsExclusiveWaiting
        /\ owners' = Cleared(0) /\ active' = 0 /\ exclusive' = FALSE
        /\ UNCHANGED <<sharedWaiters, exclusiveWaiters, pc, number>>

(* Mutants: the owner thread is left in its entry; an exclusive waiter is     *)
(* granted access although other shared owners remain.                        *)
ReleaseSharedKeepsOwner(t, o) ==
  /\ ~exclusive
  /\ LET i == Slot(o) IN
     \/ ReleaseRecursive(i)
     \/ /\ owners[i].count = 1 /\ active = 1 /\ IsExclusiveWaiting
        /\ GrantExclusive(t, Decremented(i))
     \/ /\ owners[i].count = 1 /\ ~(active = 1 /\ IsExclusiveWaiting)
        /\ owners' = Decremented(i) /\ active' = active - 1
        /\ UNCHANGED <<exclusive, sharedWaiters, exclusiveWaiters, pc, number>>
ReleaseSharedEarly(t, o) ==
  /\ ~exclusive
  /\ LET i == Slot(o) IN
     \/ ReleaseRecursive(i)
     \/ /\ owners[i].count = 1 /\ IsExclusiveWaiting
        /\ GrantExclusive(t, Cleared(i))
     \/ /\ owners[i].count = 1 /\ ~IsExclusiveWaiting
        /\ owners' = Cleared(i) /\ active' = active - 1
        /\ UNCHANGED <<exclusive, sharedWaiters, exclusiveWaiters, pc, number>>

(* Shared access.                                                             *)
ReleaseShared(t, o) ==
  /\ ~exclusive
  /\ LET i == Slot(o) IN
     \/ ReleaseRecursive(i)
     \/ /\ owners[i].count = 1 /\ active = 1 /\ IsExclusiveWaiting
        /\ GrantExclusive(t, Cleared(i))
     \/ /\ owners[i].count = 1 /\ ~(active = 1 /\ IsExclusiveWaiting)
        /\ owners' = Cleared(i) /\ active' = active - 1
        /\ UNCHANGED <<exclusive, sharedWaiters, exclusiveWaiters, pc, number>>

(* ExReleaseResourceLite(Resource)                                            *)
ExReleaseResourceLite(t) ==
  /\ pc[t] = "idle" /\ held[t] > 0
  /\ held' = [held EXCEPT ![t] = @ - 1]
  /\ ReleaseExclusive(t) \/ ReleaseShared(t, t)
  /\ Proceeds

(* ExReleaseResourceForThreadLite(Resource, o): o is another thread, or an    *)
(* owner address, that has access.                                            *)
ExReleaseResourceForThreadLite(t, o) ==
  /\ pc[t] = "idle" /\ o # t /\ held[o] > 0
  /\ held' = [held EXCEPT ![o] = @ - 1]
  /\ ReleaseExclusive(t) \/ ReleaseShared(t, o)
  /\ Proceeds

(* ExSetResourceOwnerPointer: only the owner entry changes.                   *)
ExSetResourceOwnerPointer(t, p) ==
  /\ pc[t] = "idle" /\ held[t] > 0 /\ held[p] = 0
  /\ owners' = [owners EXCEPT ![IF exclusive THEN 0 ELSE Slot(t)].thread = p]
  /\ held' = [held EXCEPT ![t] = 0, ![p] = held[t]]
  /\ Returns /\ UNCHANGED <<active, exclusive, sharedWaiters, exclusiveWaiters>>

(* Mutant: the converting owner is not counted any more.                      *)
ConvertLosesOwner(t) ==
  /\ exists /\ pc[t] = "idle" /\ OwnedBy(t)
  /\ \/ IsSharedWaiting /\ GrantShared(t, 0)
     \/ /\ ~IsSharedWaiting /\ exclusive' = FALSE
        /\ UNCHANGED <<active, sharedWaiters, exclusiveWaiters, pc, number>>
  /\ Proceeds /\ UNCHANGED <<owners, held>>

(* ExConvertExclusiveToSharedLite: the owner keeps entry 0.                   *)
ExConvertExclusiveToSharedLite(t) ==
  /\ exists /\ pc[t] = "idle" /\ OwnedBy(t)
  /\ \/ IsSharedWaiting /\ GrantShared(t, active)
     \/ /\ ~IsSharedWaiting /\ exclusive' = FALSE
        /\ UNCHANGED <<active, sharedWaiters, exclusiveWaiters, pc, number>>
  /\ Proceeds /\ UNCHANGED <<owners, held>>

-----------------------------------------------------------------------------
(* Waiting: ExpWaitForResource on the semaphore or the event.                 *)

Untouched == UNCHANGED <<exists, active, exclusive, boostAllowed, sharedWaiters, exclusiveWaiters>>

(* The threads of W have been unwaited: a shared waiter returns to its caller *)
(* with access, the others have something left to do.                         *)
Satisfied(W, at) ==
  /\ pc' = [t \in Threads |->
       IF t \notin W THEN at[t]
       ELSE CASE request[t] = "shared" -> "idle"
              [] request[t] = "late" -> "relock"
              [] request[t] = "exclusive" -> "store"]
  /\ LET R == {t \in W : request[t] = "shared"} IN
     /\ held' = [o \in Owners |-> IF o \in R THEN held[o] + 1 ELSE held[o]]
     /\ request' = [t \in Threads |-> IF t \in R THEN "none" ELSE request[t]]

(* KeWaitForSingleObject, which releases the dispatcher lock if WaitNext is   *)
(* set.                                                                       *)
KeWaitForSingleObject(t) ==
  LET shared == request[t] # "exclusive" IN
  /\ pc[t] = "call" /\ dlock \in {NoOwner, t}
  /\ dlock' = NoOwner
  /\ \/ /\ IF shared THEN semaphore > 0 ELSE event
        /\ IF shared THEN semaphore' = semaphore - 1 /\ UNCHANGED event
                     ELSE event' = FALSE /\ UNCHANGED semaphore
        /\ Satisfied({t}, pc) /\ UNCHANGED waitList
     \/ /\ IF shared THEN semaphore = 0 ELSE ~event
        /\ waitList' = [waitList EXCEPT ![ListOf(request[t])] = Append(@, t)]
        /\ pc' = [pc EXCEPT ![t] = "blocked"]
        /\ UNCHANGED <<semaphore, event, request, held>>
  /\ Untouched /\ UNCHANGED <<owners, number, walk>>

(* The wait ends with STATUS_TIMEOUT.                                         *)
Timeout(t) ==
  /\ pc[t] = "blocked" /\ dlock = NoOwner
  /\ waitList' = [waitList EXCEPT ![ListOf(request[t])] =
                    RemoveAt(@, CHOOSE i \in 1..Len(@) : @[i] = t)]
  /\ pc' = [pc EXCEPT ![t] = "timeout"]
  /\ Untouched /\ UNCHANGED <<owners, semaphore, event, dlock, request, number, walk, held>>

(* After a timeout: lock the dispatcher database and read the first owner, or *)
(* wait again if boosts are disabled.                                         *)
BoostOwners(t) ==
  /\ pc[t] = "timeout"
  /\ \/ /\ boostAllowed /\ dlock = NoOwner /\ dlock' = t
        /\ walk' = [walk EXCEPT ![t] = [NoWalk EXCEPT !.thread = owners[0].thread]]
        /\ pc' = [pc EXCEPT ![t] = "boost"]
     \/ ~boostAllowed /\ pc' = [pc EXCEPT ![t] = "call"] /\ UNCHANGED <<dlock, walk>>
  /\ Untouched /\ UNCHANGED <<owners, semaphore, event, waitList, request, number, held>>

(* ExpBoostOwnerThread on the thread just read, then on to the next entry or  *)
(* to the wait, the dispatcher lock held.  The size of the table is read once.*)
ExpBoostOwnerThread(t) ==
  LET w == walk[t]
      size == IF w.entry <= 1 THEN TableSize ELSE w.size
      next == w.entry + 1
      more == IF w.entry = 0 THEN ~exclusive ELSE next <= size IN
  /\ pc[t] = "boost"
  /\ \/ /\ more
        /\ walk' = [walk EXCEPT ![t] = [entry |-> next, thread |-> owners[next].thread,
                                        size |-> IF next = 1 THEN 0 ELSE size]]
        /\ UNCHANGED pc
     \/ /\ ~more
        /\ walk' = [walk EXCEPT ![t] = NoWalk]
        /\ pc' = [pc EXCEPT ![t] = "call"]
  /\ Untouched /\ UNCHANGED <<owners, semaphore, event, waitList, dlock, request, number, held>>

(* KeReleaseSemaphore(SharedWaiters, 0, Number, FALSE)                        *)
KeReleaseSemaphore(t) ==
  LET list == waitList["semaphore"]
      count == semaphore + number[t]
      n == IF count < Len(list) THEN count ELSE Len(list) IN
  /\ pc[t] = "semaphore" /\ dlock = NoOwner
  /\ semaphore' = count - n
  /\ waitList' = [waitList EXCEPT !["semaphore"] = SubSeq(list, n + 1, Len(list))]
  /\ number' = [number EXCEPT ![t] = 0]
  /\ Satisfied({list[i] : i \in 1..n}, [pc EXCEPT ![t] = "idle"])
  /\ Untouched /\ UNCHANGED <<owners, event, dlock, walk>>

(* KeSetEventBoostPriority(ExclusiveWaiters, &OwnerThreads[0].OwnerThread)    *)
KeSetEventBoostPriority(t) ==
  LET list == waitList["event"] IN
  /\ pc[t] = "event" /\ dlock = NoOwner
  /\ \/ /\ list = <<>>
        /\ event' = TRUE /\ pc' = [pc EXCEPT ![t] = "idle"]
        /\ UNCHANGED <<owners, waitList, request, held>>
     \/ /\ list # <<>>
        /\ owners' = [owners EXCEPT ![0].thread = Head(list)]
        /\ waitList' = [waitList EXCEPT !["event"] = Tail(list)]
        /\ Satisfied({Head(list)}, [pc EXCEPT ![t] = "idle"]) /\ UNCHANGED event
  /\ Untouched /\ UNCHANGED <<semaphore, dlock, number, walk>>

(* The end of ExpAcquireResourceExclusiveLite: the owner is stored without    *)
(* any lock.                                                                  *)
StoreOwner(t) ==
  /\ pc[t] = "store"
  /\ owners' = [owners EXCEPT ![0].thread = t]
  /\ pc' = [pc EXCEPT ![t] = "idle"] /\ request' = [request EXCEPT ![t] = "none"]
  /\ Acquired(t)
  /\ Untouched /\ UNCHANGED <<semaphore, event, waitList, dlock, number, walk>>

(* The end of ExAcquireSharedWaitForExclusive: an owner entry for the access  *)
(* that is already counted.                                                   *)
Relock(t) ==
  /\ pc[t] = "relock"
  /\ ExpFindCurrentThread(t)
  /\ owners' = [TableFor(t) EXCEPT ![Slot(t)] = Entry(t, 1)]
  /\ pc' = [pc EXCEPT ![t] = "idle"] /\ request' = [request EXCEPT ![t] = "none"]
  /\ Acquired(t)
  /\ Untouched /\ UNCHANGED <<semaphore, event, waitList, dlock, number, walk>>

(* KeTerminateThread of a thread that has no access.                          *)
KeTerminateThread(t) ==
  /\ pc[t] = "idle" /\ held[t] = 0 /\ dlock = NoOwner
  /\ pc' = [pc EXCEPT ![t] = "dead"]
  /\ Untouched /\ UNCHANGED <<owners, semaphore, event, waitList, dlock, request, number, walk, held>>

-----------------------------------------------------------------------------
(* The life of a resource.                                                    *)

ExDisableResourceBoostLite ==
  /\ exists /\ boostAllowed
  /\ boostAllowed' = FALSE
  /\ UNCHANGED <<exists, resource, objects, dlock, pc, request, number, walk, held>>

Unused == exists /\ active = 0 /\ ~IsSharedWaiting /\ ~IsExclusiveWaiting

(* ExDeleteResourceLite, when the resource's own fields say it is unused.     *)
ExDeleteResourceLite ==
  /\ Unused
  /\ exists' = FALSE
  /\ UNCHANGED <<resource, boostAllowed, objects, dlock, pc, request, number, walk, held>>

Reset(entries) ==
  /\ exists' = TRUE /\ boostAllowed' = TRUE
  /\ active' = 0 /\ exclusive' = FALSE /\ sharedWaiters' = 0 /\ exclusiveWaiters' = 0
  /\ owners' = [i \in entries |-> Free]
  /\ semaphore' = 0 /\ event' = FALSE /\ waitList' = [l \in DOMAIN waitList |-> <<>>]
  /\ UNCHANGED <<dlock, pc, request, number, walk, held>>

(* ExInitializeResourceLite                                                   *)
ExInitializeResourceLite == ~exists /\ Reset(0..1)

(* ExReinitializeResourceLite: the owner table is cleared and kept.           *)
ExReinitializeResourceLite == Unused /\ Reset(DOMAIN owners)

-----------------------------------------------------------------------------
Next ==
  \/ \E t \in Threads :
       \/ \E Wait \in Waits : \/ ExAcquireResourceExclusiveLite(t, Wait)
                              \/ ExAcquireResourceSharedLite(t, Wait)
                              \/ ExAcquireSharedStarveExclusive(t, Wait)
                              \/ ExAcquireSharedWaitForExclusive(t, Wait)
       \/ ExReleaseResourceLite(t)
       \/ \E o \in Owners : ExReleaseResourceForThreadLite(t, o)
       \/ \E p \in Pointers : ExSetResourceOwnerPointer(t, p)
       \/ ExConvertExclusiveToSharedLite(t)
       \/ KeWaitForSingleObject(t) \/ Timeout(t) \/ BoostOwners(t) \/ ExpBoostOwnerThread(t)
       \/ KeReleaseSemaphore(t) \/ KeSetEventBoostPriority(t)
       \/ StoreOwner(t) \/ Relock(t) \/ KeTerminateThread(t)
  \/ ExDisableResourceBoostLite
  \/ ExDeleteResourceLite \/ ExInitializeResourceLite \/ ExReinitializeResourceLite

Spec == Init /\ [][Next]_vars

(* Every thread that is inside a routine goes on, and every owner releases in *)
(* the end.  Nothing makes a thread ask for the resource.                     *)
Fairness == \A t \in Threads :
  /\ WF_vars(ExReleaseResourceLite(t))
  /\ WF_vars(KeWaitForSingleObject(t))
  /\ WF_vars(BoostOwners(t)) /\ WF_vars(ExpBoostOwnerThread(t))
  /\ WF_vars(KeReleaseSemaphore(t)) /\ WF_vars(KeSetEventBoostPriority(t))
  /\ WF_vars(StoreOwner(t)) /\ WF_vars(Relock(t))

FairSpec == Spec /\ Fairness

-----------------------------------------------------------------------------
(* Properties.                                                                *)

Pcs == {"idle", "call", "blocked", "timeout", "boost", "store", "relock", "semaphore",
        "event", "dead"}

(* Types: the counts of ActiveCount, NumberOfSharedWaiters and                *)
(* NumberOfExclusiveWaiters never go below zero, and every owner entry holds  *)
(* a thread, an owner address, the mark of a grant, or nothing.               *)
TypeOK ==
  /\ exists \in BOOLEAN /\ exclusive \in BOOLEAN /\ boostAllowed \in BOOLEAN /\ event \in BOOLEAN
  /\ active \in Nat /\ sharedWaiters \in Nat /\ exclusiveWaiters \in Nat /\ semaphore \in Nat
  /\ \A i \in DOMAIN owners : owners[i] \in [thread: Owners \cup {NoOwner, Granted}, count: Nat]
  /\ waitList \in [{"semaphore", "event"} -> Seq(Threads)]
  /\ dlock \in Threads \cup {NoOwner}
  /\ pc \in [Threads -> Pcs] /\ request \in [Threads -> Requests]
  /\ number \in [Threads -> Nat] /\ held \in [Owners -> Nat]
  /\ walk \in [Threads -> [entry: Nat, thread: Owners \cup {NoOwner, Granted}, size: Nat]]

At(places) == {t \in Threads : pc[t] \in places}
Waiting(r) == {t \in At({"call", "blocked", "timeout", "boost"}) : request[t] \in r}

(* How often o should be counted in the owner table: a shared waiter has its  *)
(* entry before it has access.                                                *)
Due(o) == CASE held[o] > 0 -> held[o]
            [] held[o] = 0 /\ o \in Waiting({"shared"}) -> 1
            [] OTHER -> 0

(* The owner table of ExpFindCurrentThread is exact: every owner and every    *)
(* shared waiter has one entry with its own count, nobody else has one, an    *)
(* exclusive owner has entry 0, and no entry is ever overwritten by another   *)
(* thread (entry 1 is written without a search when ActiveCount is zero, and  *)
(* entry 0 without a lock by a granted waiter).                               *)
OwnersExact == exists =>
  /\ \A o \in Owners :
       /\ Due(o) = 0 => With(o) \subseteq (IF o \in At({"store"}) THEN {0} ELSE {})
       /\ Due(o) > 0 => \E i \in DOMAIN owners :
            With(o) = {i} /\ owners[i].count = Due(o) /\ (exclusive /\ held[o] > 0 => i = 0)
  /\ \A i \in DOMAIN owners : (owners[i].count = 0) = (owners[i].thread = NoOwner)
  /\ \A t \in At({"store"}) : exclusive /\ owners[0] \in {Entry(t, 1), Entry(Granted, 1)}

(* Grants under the spin lock whose signal or wakeup is still to come.        *)
Signals == {s \in Threads \X (1..Cardinality(Threads)) : s[2] <= number[s[1]]}
InFlightShared == semaphore + Cardinality(Signals)
InFlightExclusive == (IF event THEN 1 ELSE 0) + Cardinality(At({"event"}))

(* Every grant is counted once from the release that makes it until the owner *)
(* gives it up, whichever waiter picks the signal up (a thread that comes     *)
(* late may take the semaphore count meant for one that timed out); every     *)
(* waiter is counted or has its grant on the way; and a waiter never waits    *)
(* for nobody: an unowned resource has no waiters, and a shared one has       *)
(* shared waiters only behind an exclusive one.  So a resource that looks     *)
(* unused can be deleted: no thread is left in any routine that touches it.   *)
GrantsExact == exists =>
  /\ active = Cardinality({o \in Owners : held[o] > 0}) + Cardinality(At({"relock", "store"}))
              + InFlightShared + InFlightExclusive
  /\ Cardinality(Waiting({"shared", "late"})) = sharedWaiters + InFlightShared
  /\ Cardinality(Waiting({"exclusive"})) = exclusiveWaiters + InFlightExclusive
  /\ exclusive => active = 1
  /\ active = 0 => ~IsSharedWaiting /\ ~IsExclusiveWaiting
  /\ IsSharedWaiting /\ ~exclusive => IsExclusiveWaiting

(* The comment in ExpWaitForResource: what it reads of the owners may be      *)
(* stale, but it never follows the pointer of a thread that has been          *)
(* terminated, nor walks a table that has been replaced and freed.            *)
BoostSafe == \A t \in At({"boost"}) :
  /\ dlock = t
  /\ walk[t].thread \in Threads => pc[walk[t].thread] # "dead"
  /\ walk[t].entry > 1 => walk[t].size = TableSize

Writer == LET W == {o \in Owners : held[o] > 0}
          IN IF exclusive /\ W # {} THEN CHOOSE o \in W : TRUE ELSE NoOwner

RW == INSTANCE RWLock WITH hold <- held, writer <- Writer, Nobody <- NoOwner

(* Whatever is in flight, the callers of the acquire, release, convert and    *)
(* transfer routines see a reader/writer lock: the resource implements        *)
(* RWLock.                                                                    *)
ImplementsRWLock == RW!RWSpec

(* A thread that waits for the resource gets it, if owners release it, no     *)
(* owner acquires it again and again, and the waits time out only finitely    *)
(* often: the release routines serve the two kinds of waiters in turn.        *)
WaiterServed ==
  <>[][\A t \in Threads : ~Timeout(t)]_vars =>
    \A t \in Threads : request[t] # "none" ~> held[t] > 0
=============================================================================
