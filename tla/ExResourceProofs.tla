-------------------------- MODULE ExResourceProofs --------------------------
(* Theorems about ExResource for any number of threads, owner pointers and    *)
(* recursive acquisitions: the owner table and the grants are exact, the      *)
(* boost walk is safe, and the resource implements RWLock.                    *)
EXTENDS ExResource, ListProofs, FiniteSetTheorems

-----------------------------------------------------------------------------
(* The inductive invariant.                                                   *)

EntryType == [thread: Owners \cup {NoOwner, Granted}, count: Nat]

(* The owner table is OwnerThreads and the entries of OwnerTable.             *)
TableOK == \E n \in Nat \ {0} : owners \in [0..n -> EntryType]

(* Where a thread is agrees with what it asked for and what it has.           *)
Resting == {"idle", "semaphore", "event", "dead"}
Placed == \A t \in Threads :
  /\ request[t] = "none" <=> pc[t] \in Resting
  /\ pc[t] = "store" => request[t] = "exclusive"
  /\ pc[t] = "relock" => request[t] = "late"
  /\ pc[t] \notin {"idle", "semaphore", "event"} => held[t] = 0
  /\ number[t] > 0 <=> pc[t] = "semaphore"
  /\ number[t] <= Cardinality(Threads)
  /\ pc[t] = "boost" => dlock = t
  /\ dlock = t => pc[t] \in {"boost", "call"}

(* The threads in the wait list of the semaphore or of the event are those    *)
(* that are blocked on it, each once.                                         *)
ListsOK == \A l \in {"semaphore", "event"} :
  /\ Once(waitList[l])
  /\ \A t \in Threads : t \in Items(waitList[l]) <=> pc[t] = "blocked" /\ ListOf(request[t]) = l

(* Each owner entry is that of an owner or a shared waiter, with its count,   *)
(* or entry 0 is that of an exclusive grant on its way.                       *)
EntriesOK == \A i \in DOMAIN owners :
  /\ owners[i].thread \in Owners =>
       \/ Due(owners[i].thread) > 0 /\ owners[i].count = Due(owners[i].thread)
       \/ owners[i].thread \in At({"store"}) /\ i = 0 /\ owners[i].count = 1
  /\ owners[i].thread = Granted => i = 0 /\ owners[i].count = 1 /\ exclusive
  /\ owners[i].count = 0 <=> owners[i].thread = NoOwner

(* ... no owner has two entries, and all have one.                            *)
EntriesOnce == \A i, j \in DOMAIN owners :
  owners[i].thread = owners[j].thread /\ owners[i].thread \in Owners => i = j
EntriesListed == \A o \in Owners : Due(o) > 0 => \E i \in DOMAIN owners : owners[i].thread = o

(* Entry 0 is that of the exclusive owner, whose grant may be on its way, and *)
(* never that of a shared waiter.                                             *)
FirstOK ==
  /\ exclusive => owners[0].thread # NoOwner
  /\ \A o \in Owners : exclusive /\ held[o] > 0 => owners[0].thread = o
  /\ \A t \in Waiting({"shared"}) : owners[0].thread # t
  /\ \A t \in At({"store"}) : exclusive /\ owners[0].thread \in {t, Granted}
  /\ event \/ At({"event"}) # {} => exclusive /\ owners[0].thread = Granted

(* Who has access: the owners, and the waiters that have picked their grant   *)
(* up.                                                                        *)
Counted == {o \in Owners : held[o] > 0} \cup At({"relock", "store"})

(* The counters of the resource are exact; a resource that is not there has   *)
(* no users.                                                                  *)
CountsOK ==
  /\ active = Cardinality(Counted) + InFlightShared + InFlightExclusive
  /\ Cardinality(Waiting({"shared", "late"})) = sharedWaiters + InFlightShared
  /\ Cardinality(Waiting({"exclusive"})) = exclusiveWaiters + InFlightExclusive
  /\ exclusive => active = 1 /\ InFlightShared = 0 /\ At({"relock"}) = {}
  /\ active = 0 => sharedWaiters = 0 /\ exclusiveWaiters = 0
  /\ sharedWaiters # 0 /\ ~exclusive => exclusiveWaiters # 0
  /\ ~exists => active = 0

(* The walk over the owner table.                                             *)
WalkOK == \A t \in At({"boost"}) :
  /\ walk[t].entry \in DOMAIN owners
  /\ walk[t].thread \in Threads => pc[walk[t].thread] # "dead"
  /\ walk[t].entry > 1 => walk[t].size = TableSize

Inv == /\ TypeOK /\ TableOK /\ Placed /\ ListsOK
       /\ EntriesOK /\ EntriesOnce /\ EntriesListed /\ FirstOK
       /\ CountsOK /\ WalkOK

-----------------------------------------------------------------------------
(* The owner table.                                                           *)

(* The shape of the table, and of an entry.                                   *)
LEMMA TableFacts ==
  ASSUME TableOK
  PROVE  /\ LastEntry \in Nat \ {0} /\ DOMAIN owners = 0..LastEntry
         /\ TableSize = IF LastEntry = 1 THEN 0 ELSE LastEntry
         /\ owners \in [0..LastEntry -> EntryType]
<1>1. PICK n \in Nat \ {0} : owners \in [0..n -> EntryType]
  BY DEF TableOK
<1>2. Cardinality(0..n) = n + 1
  BY <1>1, FS_Interval
<1>3. DOMAIN owners = 0..n /\ LastEntry = n
  BY <1>1, <1>2 DEF LastEntry
<1> QED BY <1>1, <1>3 DEF TableSize

(* ExpFindCurrentThread finds the one entry of an owner that has one.         *)
LEMMA Found ==
  ASSUME TableOK, EntriesOnce, NEW o \in Owners, NEW i \in DOMAIN owners, owners[i].thread = o
  PROVE  With(o) = {i} /\ Slot(o) = i /\ ~Full(o) /\ TableFor(o) = owners
<1>1. With(o) = {i}
  BY DEF With, EntriesOnce
<1>2. Least({i}) = i
  <2>1. i \in Nat
    BY TableFacts
  <2> QED BY <2>1 DEF Least
<1> QED BY <1>1, <1>2 DEF Slot, Full, TableFor

(* The least of a set of entries is one of them.                              *)
LEMMA LeastEntry ==
  ASSUME TableOK, NEW S \in SUBSET DOMAIN owners, S # {}
  PROVE  Least(S) \in S
<1>1. S \in SUBSET Nat
  BY TableFacts
<1>2. PICK i \in S : \A j \in S : i <= j
  BY <1>1, LeastNatural
<1> QED BY <1>2 DEF Least

(* Entry k of the new table is that of t; the others are as before, or new    *)
(* and free.                                                                  *)
Extends(k) ==
  /\ TableOK'
  /\ \A i \in DOMAIN owners : i \in DOMAIN owners' /\ (i # k => owners'[i] = owners[i])
  /\ \A i \in DOMAIN owners' : i # k /\ i \notin DOMAIN owners => owners'[i] = Free
  /\ DOMAIN owners' # DOMAIN owners => dlock = NoOwner

Adds(t, k) ==
  /\ Extends(k)
  /\ k \in DOMAIN owners' /\ owners'[k] = Entry(t, 1)
  /\ k \in DOMAIN owners => owners[k].thread = NoOwner

(* A table that is replaced keeps its entries.                                *)
LEMMA TableForFacts ==
  ASSUME TableOK, NEW o, ExpFindCurrentThread(o)
  PROVE  \E n \in Nat \ {0} :
           /\ TableFor(o) \in [0..n -> EntryType]
           /\ \A i \in DOMAIN owners : i \in 0..n /\ TableFor(o)[i] = owners[i]
           /\ \A i \in 0..n : i \notin DOMAIN owners => TableFor(o)[i] = Free
           /\ 0..n # DOMAIN owners => dlock = NoOwner
           /\ Full(o) => Slot(o) \in 0..n /\ Slot(o) \notin DOMAIN owners
<1>1. /\ LastEntry \in Nat \ {0} /\ DOMAIN owners = 0..LastEntry
      /\ TableSize = IF LastEntry = 1 THEN 0 ELSE LastEntry
      /\ owners \in [0..LastEntry -> EntryType]
  BY TableFacts
<1>2. CASE ~Full(o)
  <2>1. TableFor(o) = owners
    BY <1>2 DEF TableFor
  <2> QED BY <1>1, <1>2, <2>1
<1>3. CASE Full(o)
  <2> DEFINE n == IF TableSize = 0 THEN 3 ELSE TableSize + 4
  <2>1. n \in Nat \ {0} /\ \A i \in 0..LastEntry : i \in 0..n
    BY <1>1
  <2>2. Free \in EntryType
    BY DEF Free, Entry, EntryType
  <2>3. TableFor(o) = [i \in 0..n |-> IF i \in DOMAIN owners THEN owners[i] ELSE Free]
    BY <1>3 DEF TableFor, Expanded
  <2>4. dlock = NoOwner
    BY <1>3 DEF ExpFindCurrentThread
  <2>5. Slot(o) = IF TableSize = 0 THEN 2 ELSE TableSize + 1
    BY <1>3 DEF Slot, Full
  <2>6. Slot(o) \in 0..n /\ Slot(o) \notin DOMAIN owners
    BY <1>1, <2>5
  <2> HIDE DEF n
  <2>7. /\ TableFor(o) \in [0..n -> EntryType]
        /\ \A i \in DOMAIN owners : i \in 0..n /\ TableFor(o)[i] = owners[i]
        /\ \A i \in 0..n : i \notin DOMAIN owners => TableFor(o)[i] = Free
    BY <1>1, <2>1, <2>2, <2>3
  <2> QED BY <2>1, <2>4, <2>6, <2>7
<1> QED BY <1>2, <1>3

(* A search that is refused afterwards.                                       *)
LEMMA TableOnly ==
  ASSUME TableOK, NEW o, ExpFindCurrentThread(o), owners' = TableFor(o)
  PROVE  Extends(0) /\ owners'[0] = owners[0]
<1>1. PICK n \in Nat \ {0} :
           /\ TableFor(o) \in [0..n -> EntryType]
           /\ \A i \in DOMAIN owners : i \in 0..n /\ TableFor(o)[i] = owners[i]
           /\ \A i \in 0..n : i \notin DOMAIN owners => TableFor(o)[i] = Free
           /\ 0..n # DOMAIN owners => dlock = NoOwner
  BY TableForFacts
<1>2. DOMAIN owners' = 0..n /\ TableOK'
  BY <1>1 DEF TableOK
<1>3. 0 \in DOMAIN owners
  BY TableFacts
<1> QED BY <1>1, <1>2, <1>3 DEF Extends

(* ExpFindCurrentThread for somebody without an entry: a free one, never      *)
(* entry 0, which a search for the owner 0 may not find free.                 *)
LEMMA AddsEntry ==
  ASSUME TableOK, NEW t \in Threads, NEW o, ExpFindCurrentThread(o),
         \/ o \in Owners /\ With(o) = {}
         \/ o = NoOwner /\ owners[0].thread # NoOwner,
         owners' = [TableFor(o) EXCEPT ![Slot(o)] = Entry(t, 1)]
  PROVE  Adds(t, Slot(o)) /\ Slot(o) # 0
<1>1. PICK n \in Nat \ {0} :
           /\ TableFor(o) \in [0..n -> EntryType]
           /\ \A i \in DOMAIN owners : i \in 0..n /\ TableFor(o)[i] = owners[i]
           /\ \A i \in 0..n : i \notin DOMAIN owners => TableFor(o)[i] = Free
           /\ 0..n # DOMAIN owners => dlock = NoOwner
           /\ Full(o) => Slot(o) \in 0..n /\ Slot(o) \notin DOMAIN owners
  BY TableForFacts
<1>2. 0 \in DOMAIN owners
  BY TableFacts
<1>3. /\ Slot(o) \in 0..n /\ Slot(o) # 0
      /\ Slot(o) \in DOMAIN owners => owners[Slot(o)].thread = NoOwner
  <2>1. CASE Full(o)
    BY <1>1, <1>2, <2>1
  <2>2. CASE ~Full(o) /\ With(o) = {}
    <3>1. Slot(o) = Least(FreeEntries) /\ FreeEntries # {} /\ FreeEntries \in SUBSET DOMAIN owners
      BY <2>2 DEF Slot, Full, FreeEntries, With
    <3>2. Slot(o) \in FreeEntries
      BY <3>1, LeastEntry
    <3> QED BY <1>1, <3>2 DEF FreeEntries, With
  <2>3. CASE ~Full(o) /\ With(o) # {}
    <3>1. o = NoOwner /\ owners[0].thread # NoOwner
      BY <2>3
    <3>2. Slot(o) = Least(With(o)) /\ With(o) \in SUBSET DOMAIN owners
      BY <2>3 DEF Slot, With
    <3>3. Slot(o) \in With(o)
      BY <2>3, <3>2, LeastEntry
    <3> QED BY <1>1, <3>1, <3>3 DEF With
  <2> QED BY <2>1, <2>2, <2>3
<1>4. Entry(t, 1) \in EntryType
  BY DEF Entry, EntryType, Owners
<1>5. DOMAIN owners' = 0..n /\ TableOK' /\ owners'[Slot(o)] = Entry(t, 1)
  BY <1>1, <1>3, <1>4 DEF TableOK
<1>6. \A i \in 0..n : i # Slot(o) => owners'[i] = TableFor(o)[i]
  BY <1>1
<1> QED BY <1>1, <1>3, <1>5, <1>6 DEF Adds, Extends

(* An entry of the table as it is.                                            *)
LEMMA PutsEntry ==
  ASSUME TableOK, NEW t \in Threads, NEW k \in DOMAIN owners, owners[k].thread = NoOwner,
         owners' = [owners EXCEPT ![k] = Entry(t, 1)]
  PROVE  Adds(t, k)
<1>1. /\ LastEntry \in Nat \ {0} /\ DOMAIN owners = 0..LastEntry
      /\ owners \in [0..LastEntry -> EntryType]
  BY TableFacts
<1>2. Entry(t, 1) \in EntryType
  BY DEF Entry, EntryType, Owners
<1>3. owners' \in [0..LastEntry -> EntryType] /\ DOMAIN owners' = DOMAIN owners
  BY <1>1, <1>2
<1>4. TableOK'
  BY <1>1, <1>3 DEF TableOK
<1> QED BY <1>1, <1>3, <1>4 DEF Adds, Extends

-----------------------------------------------------------------------------
(* The counters.                                                              *)

(* All sets that are counted are finite.                                      *)
LEMMA Finite ==
  ASSUME NEW S, S \subseteq Owners
  PROVE  IsFiniteSet(S) /\ Cardinality(S) \in Nat
<1>1. IsFiniteSet(Owners)
  BY ResourceAssumption, FS_Union DEF Owners
<1> QED BY <1>1, FS_Subset, FS_CardinalityType

(* So are the signals that are still to be made.                              *)
LEMMA FiniteSignals == IsFiniteSet(Signals) /\ Cardinality(Signals) \in Nat
<1>1. Cardinality(Threads) \in Nat /\ IsFiniteSet(Threads)
  BY ResourceAssumption, FS_CardinalityType
<1>2. IsFiniteSet(1..Cardinality(Threads))
  BY <1>1, FS_Interval
<1>3. IsFiniteSet(Threads \X (1..Cardinality(Threads)))
  BY <1>1, <1>2, FS_Product
<1>4. Signals \in SUBSET (Threads \X (1..Cardinality(Threads)))
  BY DEF Signals
<1> QED BY <1>3, <1>4, FS_Subset, FS_CardinalityType

(* The sizes that the counters are compared with are natural numbers ...      *)
LEMMA CountTypes ==
  /\ Cardinality(Counted) \in Nat /\ Cardinality(Waiting({"shared", "late"})) \in Nat
  /\ Cardinality(Waiting({"exclusive"})) \in Nat /\ Cardinality(At({"event"})) \in Nat
  /\ Cardinality(Signals) \in Nat
<1>1. /\ Counted \subseteq Owners /\ At({"event"}) \subseteq Owners
      /\ Waiting({"shared", "late"}) \subseteq Owners /\ Waiting({"exclusive"}) \subseteq Owners
  BY DEF Counted, At, Waiting, Owners
<1> QED BY <1>1, Finite, FiniteSignals

(* ... and so are the numbers of grants on their way.                         *)
LEMMA FlightTypes ==
  ASSUME TypeOK
  PROVE  InFlightShared \in Nat /\ InFlightExclusive \in Nat
<1>1. semaphore \in Nat /\ event \in BOOLEAN
  BY DEF TypeOK
<1> QED BY <1>1, CountTypes DEF InFlightShared, InFlightExclusive

(* A member more, a member less.                                              *)
LEMMA OneMore ==
  ASSUME NEW S, S \subseteq Owners, NEW x \in Owners
  PROVE  /\ x \notin S => Cardinality(S \cup {x}) = Cardinality(S) + 1
         /\ x \in S => Cardinality(S \ {x}) = Cardinality(S) - 1
BY Finite, FS_AddElement, FS_RemoveElement

(* A set of no owners is empty.                                               *)
LEMMA Empty ==
  ASSUME NEW S, S \subseteq Owners, Cardinality(S) = 0
  PROVE  S = {}
BY Finite, FS_EmptySet

(* Nothing is in flight.                                                      *)
NoGrants ==
  /\ semaphore = 0 /\ ~event /\ At({"event"}) = {} /\ Signals = {}
  /\ \A t \in Threads : number[t] = 0 /\ pc[t] \notin {"semaphore", "event"}

(* With no grants counted, no grant is in the semaphore, in the event or with *)
(* a thread that is to signal one of them.                                    *)
LEMMA NoneInFlight ==
  ASSUME TypeOK, Placed, InFlightShared = 0, InFlightExclusive = 0
  PROVE  NoGrants
<1>1. Cardinality(Signals) = 0 /\ semaphore = 0 /\ Cardinality(At({"event"})) = 0 /\ ~event
  BY CountTypes DEF InFlightShared, InFlightExclusive, TypeOK
<1>2. At({"event"}) \subseteq Owners
  BY DEF At, Owners
<1>3. At({"event"}) = {} /\ Signals = {}
  BY <1>1, <1>2, Empty, FiniteSignals, FS_EmptySet
<1>4. Cardinality(Threads) \in Nat
  BY ResourceAssumption, FS_CardinalityType
<1>5. ASSUME NEW t \in Threads, number[t] # 0 PROVE FALSE
  <2>1. number[t] \in Nat /\ 1 <= number[t] /\ number[t] <= Cardinality(Threads)
    BY <1>5 DEF TypeOK, Placed
  <2>2. 1 \in 1..Cardinality(Threads)
    BY <1>4, <2>1
  <2>3. <<t, 1>> \in Signals
    BY <2>1, <2>2 DEF Signals
  <2> QED BY <1>3, <2>3
<1>6. \A t \in Threads : pc[t] \notin {"semaphore", "event"}
  BY <1>3, <1>5 DEF Placed, At, TypeOK
<1> QED BY <1>1, <1>3, <1>5, <1>6 DEF NoGrants

(* A resource whose ActiveCount is zero has no users and no waiters at all.   *)
LEMMA Nobody ==
  ASSUME Inv, active = 0
  PROVE  /\ NoGrants /\ ~exclusive /\ \A o \in Owners : held[o] = 0
         /\ \A t \in Threads : pc[t] \in {"idle", "dead"}
         /\ \A i \in DOMAIN owners : owners[i] = Free
<1> USE DEF Inv
<1>1. /\ InFlightShared = 0 /\ InFlightExclusive = 0 /\ Cardinality(Counted) = 0
      /\ Cardinality(Waiting({"shared", "late"})) = 0 /\ Cardinality(Waiting({"exclusive"})) = 0
      /\ ~exclusive
  <2>1. /\ active = Cardinality(Counted) + InFlightShared + InFlightExclusive
        /\ Cardinality(Waiting({"shared", "late"})) = sharedWaiters + InFlightShared
        /\ Cardinality(Waiting({"exclusive"})) = exclusiveWaiters + InFlightExclusive
        /\ sharedWaiters = 0 /\ exclusiveWaiters = 0 /\ (exclusive => active = 1)
    BY DEF CountsOK
  <2>2. /\ InFlightShared \in Nat /\ InFlightExclusive \in Nat /\ Cardinality(Counted) \in Nat
    BY CountTypes, FlightTypes
  <2>3. InFlightShared = 0 /\ InFlightExclusive = 0 /\ Cardinality(Counted) = 0
    BY <2>1, <2>2
  <2>4. ~(active = 1)
    OBVIOUS
  <2> QED BY <2>1, <2>3, <2>4
<1>2. NoGrants
  BY <1>1, NoneInFlight
<1>3. Counted = {} /\ Waiting({"shared", "late"}) = {} /\ Waiting({"exclusive"}) = {}
  <2>1. /\ Counted \subseteq Owners
        /\ Waiting({"shared", "late"}) \subseteq Owners /\ Waiting({"exclusive"}) \subseteq Owners
    BY DEF Counted, At, Waiting, Owners
  <2> QED BY <1>1, <2>1, Empty
<1>4. \A o \in Owners : held[o] = 0
  BY <1>3 DEF Counted, TypeOK
<1>5. \A t \in Threads : pc[t] \in {"idle", "dead"}
  <2> SUFFICES ASSUME NEW t \in Threads PROVE pc[t] \in {"idle", "dead"}
    OBVIOUS
  <2>1. pc[t] \in Pcs /\ request[t] \in Requests
    BY DEF TypeOK
  <2>2. pc[t] \notin {"relock", "store", "semaphore", "event"}
    BY <1>2, <1>3 DEF Counted, At, NoGrants
  <2>3. pc[t] \notin {"call", "blocked", "timeout", "boost"}
    BY <1>3, <2>1 DEF Waiting, At, Placed, Resting, Requests
  <2> QED BY <2>1, <2>2, <2>3 DEF Pcs
<1>6. \A o \in Owners : Due(o) = 0
  BY <1>4, <1>5 DEF Due, Waiting, At
<1>7. ASSUME NEW i \in DOMAIN owners PROVE owners[i] = Free
  <2>1. owners[i] \in EntryType
    BY DEF TypeOK, EntryType
  <2>2. owners[i].thread = NoOwner
    BY <1>1, <1>5, <1>6, <2>1 DEF EntriesOK, EntryType, At
  <2>3. owners[i].count = 0
    BY <2>2 DEF EntriesOK
  <2> QED BY <2>1, <2>2, <2>3 DEF Free, Entry, EntryType
<1> QED BY <1>1, <1>2, <1>4, <1>5, <1>7

(* With an ActiveCount of one and an owner there is nobody else.              *)
LEMMA Alone ==
  ASSUME Inv, active = 1, NEW o \in Counted
  PROVE  NoGrants /\ Counted = {o}
<1>1. o \in Owners /\ Counted \subseteq Owners
  BY DEF Counted, At, Owners
<1>2. Counted \ {o} \subseteq Owners /\ Cardinality(Counted \ {o}) = Cardinality(Counted) - 1
  BY <1>1, OneMore
<1>3. Cardinality(Counted \ {o}) \in Nat
  BY <1>2, Finite
<1>4. Cardinality(Counted \ {o}) = 0 /\ InFlightShared = 0 /\ InFlightExclusive = 0
  <2>1. active = Cardinality(Counted) + InFlightShared + InFlightExclusive
    BY DEF Inv, CountsOK
  <2>2. InFlightShared \in Nat /\ InFlightExclusive \in Nat /\ Cardinality(Counted) \in Nat
    BY CountTypes, FlightTypes DEF Inv
  <2> QED BY <1>2, <1>3, <2>1, <2>2
<1>5. Counted \ {o} = {}
  BY <1>2, <1>4, Empty
<1> QED BY <1>4, <1>5, NoneInFlight DEF Inv

(* An exclusive owner is alone.                                               *)
LEMMA ExclusiveAlone ==
  ASSUME Inv, exclusive, NEW o \in Owners, held[o] > 0
  PROVE  /\ NoGrants /\ active = 1 /\ \A p \in Owners : held[p] > 0 => p = o
         /\ \A t \in Threads : pc[t] \notin {"relock", "store"}
         /\ owners[0].thread = o /\ owners[0].count = held[o]
<1> USE DEF Inv
<1>1. active = 1 /\ o \in Counted
  BY DEF CountsOK, Counted
<1>2. NoGrants /\ Counted = {o}
  BY <1>1, Alone
<1>3. \A p \in Owners : held[p] > 0 => p = o
  BY <1>2 DEF Counted
<1>4. \A t \in Threads : pc[t] \notin {"relock", "store"}
  <2> SUFFICES ASSUME NEW t \in Threads, pc[t] \in {"relock", "store"} PROVE FALSE
    OBVIOUS
  <2>1. t \in Counted /\ held[t] = 0
    BY DEF Counted, At, Placed
  <2> QED BY <1>2, <2>1
<1>5. owners[0].thread = o
  BY DEF FirstOK
<1>6. 0 \in DOMAIN owners /\ Due(o) = held[o]
  BY TableFacts DEF Due
<1>7. owners[0].count = held[o]
  BY <1>4, <1>5, <1>6 DEF EntriesOK, At, TypeOK
<1> QED BY <1>1, <1>2, <1>3, <1>4, <1>5, <1>7

-----------------------------------------------------------------------------
(* Steps that leave the resource alone.                                       *)

WaitPcs == {"call", "blocked", "timeout", "boost"}

(* t moves without anybody noticing who looks at the resource.                *)
Moves(t, x) ==
  /\ pc' = [pc EXCEPT ![t] = x]
  /\ x \in Pcs \ {"store", "relock", "semaphore", "event"}
  /\ pc[t] \notin {"store", "relock", "semaphore", "event"}
  /\ x \in WaitPcs <=> pc[t] \in WaitPcs

(* Such a step keeps what the invariant says of the table and of the          *)
(* counters.                                                                  *)
LEMMA MovesKeeps ==
  ASSUME Inv, NEW t \in Threads, NEW x, Moves(t, x),
         UNCHANGED <<exists, active, exclusive, owners, sharedWaiters, exclusiveWaiters,
                     semaphore, event, request, number, held>>
  PROVE  /\ TableOK' /\ EntriesOK' /\ EntriesOnce' /\ EntriesListed' /\ FirstOK' /\ CountsOK'
<1> USE DEF Inv
<1>1. pc'[t] = x /\ \A v \in Threads \ {t} : pc'[v] = pc[v]
  BY DEF Moves, TypeOK
<1>2. /\ At({"store"})' = At({"store"}) /\ At({"event"})' = At({"event"})
      /\ At({"relock"})' = At({"relock"}) /\ At({"relock", "store"})' = At({"relock", "store"})
  BY <1>1 DEF At, Moves
<1>3. At(WaitPcs)' = At(WaitPcs)
  BY <1>1 DEF At, Moves, WaitPcs
<1>4. \A r : Waiting(r)' = Waiting(r)
  BY <1>3 DEF Waiting, WaitPcs
<1>5. \A o \in Owners : Due(o)' = Due(o)
  BY <1>4 DEF Due
<1>6. Counted' = Counted /\ Signals' = Signals
  BY <1>2 DEF Counted, Signals
<1>7. CountsOK'
  BY <1>2, <1>4, <1>6 DEF CountsOK, InFlightShared, InFlightExclusive
<1>8. TableOK' /\ EntriesOnce'
  BY DEF TableOK, EntriesOnce
<1>9. EntriesOK' /\ EntriesListed'
  BY <1>2, <1>5 DEF EntriesOK, EntriesListed
<1>10. FirstOK'
  BY <1>2, <1>4 DEF FirstOK
<1> QED BY <1>7, <1>8, <1>9, <1>10

(* The wait lists and the walks of the others, when a thread moves.           *)
LEMMA ListsKept ==
  ASSUME TypeOK, ListsOK, UNCHANGED waitList,
         \A v \in Threads : \/ pc'[v] = pc[v] /\ request'[v] = request[v]
                            \/ pc[v] # "blocked" /\ pc'[v] # "blocked"
  PROVE  ListsOK'
BY DEF ListsOK, TypeOK

(* A walk goes on over the same table.                                        *)
LEMMA WalkKept ==
  ASSUME TypeOK, TableOK, WalkOK, UNCHANGED <<walk, owners>>,
         \A v \in Threads : pc'[v] = pc[v] \/ pc'[v] \notin {"boost", "dead"}
  PROVE  WalkOK'
<1>1. TableSize' = TableSize
  BY DEF TableSize, LastEntry
<1> QED BY <1>1 DEF WalkOK, At, TypeOK

(* A blocked waiter leaves the wait list it is in, and only that one.         *)
LEMMA TimeoutInv ==
  ASSUME Inv, NEW t \in Threads, Timeout(t)
  PROVE  Inv'
<1> USE DEF Inv
<1> DEFINE l == ListOf(request[t])
           k == CHOOSE i \in 1..Len(waitList[l]) : waitList[l][i] = t
<1>1. /\ pc[t] = "blocked" /\ pc' = [pc EXCEPT ![t] = "timeout"] /\ dlock = NoOwner
      /\ waitList' = [waitList EXCEPT ![l] = RemoveAt(@, k)]
      /\ UNCHANGED <<exists, boostAllowed, active, exclusive, owners, sharedWaiters,
                     exclusiveWaiters, semaphore, event, dlock, request, number, walk, held>>
  BY DEF Timeout, Untouched, TypeOK
<1>2. Moves(t, "timeout")
  BY <1>1 DEF Moves, WaitPcs, Pcs
<1>3. TableOK' /\ EntriesOK' /\ EntriesOnce' /\ EntriesListed' /\ FirstOK' /\ CountsOK'
  BY <1>1, <1>2, MovesKeeps
<1>4. l \in {"semaphore", "event"} /\ waitList[l] \in Seq(Threads) /\ Once(waitList[l])
  BY DEF ListOf, TypeOK, ListsOK
<1>5. k \in 1..Len(waitList[l]) /\ waitList[l][k] = t
  BY <1>1, <1>4 DEF ListsOK, Items
<1> HIDE DEF l, k
<1>6. /\ waitList'[l] \in Seq(Threads) /\ Once(waitList'[l])
      /\ Items(waitList'[l]) = Items(waitList[l]) \ {t}
  BY <1>1, <1>4, <1>5, RemoveAtItems DEF TypeOK
<1>7. \A m \in {"semaphore", "event"} \ {l} : waitList'[m] = waitList[m]
  BY <1>1 DEF TypeOK
<1>8. TypeOK'
  BY <1>1, <1>6 DEF TypeOK, Pcs
<1>9. Placed'
  BY <1>1 DEF Placed, TypeOK, Resting
<1>10. ListsOK'
  BY <1>1, <1>6, <1>7 DEF ListsOK, TypeOK, l
<1>11. WalkOK'
  BY <1>1, WalkKept DEF TypeOK
<1> QED BY <1>3, <1>8, <1>9, <1>10, <1>11

(* Somebody who has an owner entry is alive.                                  *)
LEMMA OwnerAlive ==
  ASSUME Inv, NEW i \in DOMAIN owners, owners[i].thread \in Threads
  PROVE  pc[owners[i].thread] # "dead"
<1> DEFINE u == owners[i].thread
<1>1. u \in Owners /\ (Due(u) > 0 \/ u \in At({"store"}))
  BY DEF Inv, EntriesOK, Owners
<1>2. CASE u \in At({"store"})
  BY <1>2 DEF At
<1>3. CASE Due(u) > 0 /\ pc[u] = "dead"
  <2>1. held[u] = 0 /\ u \notin Waiting({"shared"})
    BY <1>3 DEF Inv, Placed, Waiting, At
  <2> QED BY <1>3, <2>1 DEF Due
<1> QED BY <1>1, <1>2, <1>3

(* The walk starts only under the dispatcher lock, with the table as it is.   *)
LEMMA BoostOwnersInv ==
  ASSUME Inv, NEW t \in Threads, BoostOwners(t)
  PROVE  Inv'
<1> USE DEF Inv
<1>1. /\ pc[t] = "timeout"
      /\ UNCHANGED <<exists, boostAllowed, active, exclusive, owners, sharedWaiters,
                     exclusiveWaiters, semaphore, event, waitList, request, number, held>>
  BY DEF BoostOwners, Untouched
<1>2. /\ LastEntry \in Nat \ {0} /\ DOMAIN owners = 0..LastEntry
      /\ owners[0].thread \in Owners \cup {NoOwner, Granted}
  BY TableFacts DEF EntryType
<1>3. CASE boostAllowed /\ pc' = [pc EXCEPT ![t] = "boost"]
  <2>1. /\ dlock = NoOwner /\ dlock' = t
        /\ walk' = [walk EXCEPT ![t] = [NoWalk EXCEPT !.thread = owners[0].thread]]
    BY <1>1, <1>3 DEF BoostOwners, TypeOK
  <2>2. Moves(t, "boost")
    BY <1>1, <1>3 DEF Moves, WaitPcs, Pcs
  <2>3. TableOK' /\ EntriesOK' /\ EntriesOnce' /\ EntriesListed' /\ FirstOK' /\ CountsOK'
    BY <1>1, <2>2, MovesKeeps
  <2>4. /\ walk'[t].entry = 0 /\ walk'[t].thread = owners[0].thread
        /\ walk'[t] \in [entry: Nat, thread: Owners \cup {NoOwner, Granted}, size: Nat]
        /\ \A v \in Threads \ {t} : walk'[v] = walk[v]
    BY <1>2, <2>1 DEF NoWalk, TypeOK
  <2>5. walk' \in [Threads -> [entry: Nat, thread: Owners \cup {NoOwner, Granted}, size: Nat]]
    BY <2>1, <2>4 DEF TypeOK
  <2>6. TypeOK'
    BY <1>1, <1>3, <2>1, <2>5 DEF TypeOK, Pcs
  <2>7. Placed'
    BY <1>1, <1>3, <2>1, ResourceAssumption DEF Placed, TypeOK, Resting, Owners
  <2>8. ListsOK'
    BY <1>1, <1>3, ListsKept DEF TypeOK
  <2>9. pc'[t] = "boost" /\ \A v \in Threads \ {t} : pc'[v] = pc[v] /\ pc[v] # "boost"
    BY <1>3, <2>1, ResourceAssumption DEF TypeOK, Placed, Owners
  <2>10. owners[0].thread \in Threads => pc[owners[0].thread] # "dead"
    BY <1>2, OwnerAlive
  <2>11. WalkOK'
    BY <1>1, <1>2, <2>4, <2>9, <2>10 DEF WalkOK, At
  <2> QED BY <2>3, <2>6, <2>7, <2>8, <2>11
<1>4. CASE ~boostAllowed /\ pc' = [pc EXCEPT ![t] = "call"] /\ UNCHANGED <<dlock, walk>>
  <2>1. Moves(t, "call")
    BY <1>1, <1>4 DEF Moves, WaitPcs, Pcs
  <2>2. TableOK' /\ EntriesOK' /\ EntriesOnce' /\ EntriesListed' /\ FirstOK' /\ CountsOK'
    BY <1>1, <2>1, MovesKeeps
  <2>3. TypeOK'
    BY <1>1, <1>4 DEF TypeOK, Pcs
  <2>4. Placed'
    BY <1>1, <1>4 DEF Placed, TypeOK, Resting
  <2>5. ListsOK'
    BY <1>1, <1>4, ListsKept DEF TypeOK
  <2>6. WalkOK'
    BY <1>1, <1>4, WalkKept DEF TypeOK
  <2> QED BY <2>2, <2>3, <2>4, <2>5, <2>6
<1> QED BY <1>3, <1>4 DEF BoostOwners

(* The walk visits an entry: the thread in it is alive.                       *)
LEMMA ExpBoostOwnerThreadInv ==
  ASSUME Inv, NEW t \in Threads, ExpBoostOwnerThread(t)
  PROVE  Inv'
<1> USE DEF Inv
<1> DEFINE w == walk[t]
           size == IF w.entry <= 1 THEN TableSize ELSE w.size
           next == w.entry + 1
           more == IF w.entry = 0 THEN ~exclusive ELSE next <= size
           W == [entry: Nat, thread: Owners \cup {NoOwner, Granted}, size: Nat]
<1>1. /\ pc[t] = "boost" /\ dlock = t
      /\ UNCHANGED <<exists, boostAllowed, active, exclusive, owners, sharedWaiters,
                     exclusiveWaiters, semaphore, event, waitList, dlock, request, number, held>>
  BY DEF ExpBoostOwnerThread, Untouched, Placed
<1>2. /\ LastEntry \in Nat \ {0} /\ DOMAIN owners = 0..LastEntry
      /\ TableSize = IF LastEntry = 1 THEN 0 ELSE LastEntry
      /\ \A i \in 0..LastEntry : owners[i].thread \in Owners \cup {NoOwner, Granted}
  BY TableFacts DEF EntryType
<1>3. w \in W /\ w.entry \in 0..LastEntry /\ (w.entry > 1 => w.size = TableSize)
  BY <1>1, <1>2 DEF TypeOK, WalkOK, At
<1>4. size \in Nat /\ (w.entry # 0 => size = TableSize)
  BY <1>2, <1>3
<1>5. CASE /\ more /\ UNCHANGED pc
           /\ walk' = [walk EXCEPT ![t] = [entry |-> next, thread |-> owners[next].thread,
                                           size |-> IF next = 1 THEN 0 ELSE size]]
  <2>1. next \in 0..LastEntry /\ next \in Nat /\ (next > 1 => w.entry # 0 /\ next # 1)
    BY <1>2, <1>3, <1>4, <1>5
  <2> HIDE DEF next, size, more, w
  <2>2. /\ walk'[t] = [entry |-> next, thread |-> owners[next].thread,
                       size |-> IF next = 1 THEN 0 ELSE size]
        /\ \A v \in Threads \ {t} : walk'[v] = walk[v]
    BY <1>5 DEF TypeOK
  <2>3. walk' \in [Threads -> W]
    BY <1>2, <1>4, <1>5, <2>1, <2>2 DEF TypeOK
  <2>4. TypeOK'
    BY <1>1, <1>5, <2>3 DEF TypeOK
  <2>5. Placed'
    BY <1>1, <1>5 DEF Placed, Resting
  <2>6. ListsOK'
    BY <1>1, <1>5 DEF ListsOK
  <2>7. TableOK' /\ EntriesOK' /\ EntriesOnce' /\ EntriesListed'
    BY <1>1, <1>5 DEF TableOK, EntriesOK, EntriesOnce, EntriesListed, Due, At, Waiting
  <2>8. FirstOK'
    BY <1>1, <1>5 DEF FirstOK, At, Waiting
  <2>9. CountsOK'
    BY <1>1, <1>5 DEF CountsOK, Counted, InFlightShared, InFlightExclusive, Signals, At, Waiting
  <2>10. owners[next].thread \in Threads => pc[owners[next].thread] # "dead"
    BY <1>2, <2>1, OwnerAlive
  <2>11. \A v \in Threads \ {t} : pc[v] # "boost"
    BY <1>1 DEF Placed
  <2>12. TableSize' = TableSize
    BY <1>1 DEF TableSize, LastEntry
  <2>13. next > 1 => size = TableSize
    BY <1>4, <2>1
  <2>14. WalkOK'
    BY <1>1, <1>2, <1>5, <2>1, <2>2, <2>10, <2>11, <2>12, <2>13 DEF WalkOK, At
  <2> QED BY <2>4, <2>5, <2>6, <2>7, <2>8, <2>9, <2>14
<1>6. CASE walk' = [walk EXCEPT ![t] = NoWalk] /\ pc' = [pc EXCEPT ![t] = "call"]
  <2>1. Moves(t, "call")
    BY <1>1, <1>6 DEF Moves, WaitPcs, Pcs
  <2>2. TableOK' /\ EntriesOK' /\ EntriesOnce' /\ EntriesListed' /\ FirstOK' /\ CountsOK'
    BY <1>1, <2>1, MovesKeeps
  <2>3. NoWalk \in W
    BY DEF NoWalk
  <2>4. TypeOK'
    BY <1>1, <1>6, <2>3 DEF TypeOK, Pcs
  <2>5. Placed'
    BY <1>1, <1>6 DEF Placed, TypeOK, Resting
  <2>6. ListsOK'
    BY <1>1, <1>6, ListsKept DEF TypeOK
  <2>7. WalkOK'
    BY <1>1, <1>6 DEF WalkOK, At, TypeOK, Placed
  <2> QED BY <2>2, <2>4, <2>5, <2>6, <2>7
<1> QED BY <1>5, <1>6 DEF ExpBoostOwnerThread

(* A thread with access has an owner entry; the one that exits has none.      *)
LEMMA KeTerminateThreadInv ==
  ASSUME Inv, NEW t \in Threads, KeTerminateThread(t)
  PROVE  Inv'
<1> USE DEF Inv
<1>1. /\ pc[t] = "idle" /\ held[t] = 0 /\ dlock = NoOwner /\ pc' = [pc EXCEPT ![t] = "dead"]
      /\ UNCHANGED <<exists, boostAllowed, active, exclusive, owners, sharedWaiters,
                     exclusiveWaiters, semaphore, event, waitList, dlock, request, number, walk, held>>
  BY DEF KeTerminateThread, Untouched
<1>2. Moves(t, "dead")
  BY <1>1 DEF Moves, WaitPcs, Pcs
<1>3. TableOK' /\ EntriesOK' /\ EntriesOnce' /\ EntriesListed' /\ FirstOK' /\ CountsOK'
  BY <1>1, <1>2, MovesKeeps
<1>4. TypeOK'
  BY <1>1 DEF TypeOK, Pcs
<1>5. Placed'
  BY <1>1 DEF Placed, TypeOK, Resting
<1>6. ListsOK'
  BY <1>1, ListsKept DEF TypeOK
<1>7. \A v \in Threads : pc'[v] # "boost"
  BY <1>1, ResourceAssumption DEF Placed, TypeOK, Owners
<1>8. WalkOK'
  BY <1>7 DEF WalkOK, At
<1> QED BY <1>3, <1>4, <1>5, <1>6, <1>8

(* The life of a resource.  It is only deleted or initialised without users.  *)
LEMMA ExDisableResourceBoostLiteInv ==
  ASSUME Inv, ExDisableResourceBoostLite
  PROVE  Inv'
<1> USE DEF Inv, ExDisableResourceBoostLite, resource, objects
<1>1. TypeOK' /\ Placed' /\ ListsOK'
  BY DEF TypeOK, Placed, ListsOK, Resting
<1>2. TableOK' /\ EntriesOK' /\ EntriesOnce' /\ EntriesListed'
  BY DEF TableOK, EntriesOK, EntriesOnce, EntriesListed, Due, At, Waiting
<1>3. FirstOK' /\ WalkOK'
  BY DEF FirstOK, WalkOK, At, Waiting, TableSize, LastEntry
<1>4. CountsOK'
  BY DEF CountsOK, Counted, InFlightShared, InFlightExclusive, Signals, At, Waiting
<1> QED BY <1>1, <1>2, <1>3, <1>4

(* A resource that is deleted has no users.                                   *)
LEMMA ExDeleteResourceLiteInv ==
  ASSUME Inv, ExDeleteResourceLite
  PROVE  Inv'
<1> USE DEF Inv, ExDeleteResourceLite, resource, objects
<1>1. TypeOK' /\ Placed' /\ ListsOK'
  BY DEF TypeOK, Placed, ListsOK, Resting
<1>2. TableOK' /\ EntriesOK' /\ EntriesOnce' /\ EntriesListed'
  BY DEF TableOK, EntriesOK, EntriesOnce, EntriesListed, Due, At, Waiting
<1>3. FirstOK' /\ WalkOK'
  BY DEF FirstOK, WalkOK, At, Waiting, TableSize, LastEntry
<1>4. CountsOK'
  BY DEF CountsOK, Counted, InFlightShared, InFlightExclusive, Signals, At, Waiting, Unused
<1> QED BY <1>1, <1>2, <1>3, <1>4

(* A resource nobody uses is emptied.                                         *)
LEMMA ResetInv ==
  ASSUME Inv, active = 0, NEW D, \E n \in Nat \ {0} : D = 0..n, Reset(D)
  PROVE  Inv'
<1> USE DEF Inv
<1>1. /\ NoGrants /\ ~exclusive /\ \A o \in Owners : held[o] = 0
      /\ \A t \in Threads : pc[t] \in {"idle", "dead"}
  BY Nobody
<1>2. /\ exists' = TRUE /\ boostAllowed' = TRUE
      /\ active' = 0 /\ exclusive' = FALSE /\ sharedWaiters' = 0 /\ exclusiveWaiters' = 0
      /\ owners' = [i \in D |-> Free] /\ semaphore' = 0 /\ event' = FALSE
      /\ waitList' = [l \in {"semaphore", "event"} |-> <<>>]
      /\ UNCHANGED <<dlock, pc, request, number, walk, held>>
  BY DEF Reset, TypeOK
<1>3. Free \in EntryType /\ Free.thread = NoOwner /\ Free.count = 0
  BY DEF Free, Entry, EntryType
<1>4. TableOK'
  BY <1>2, <1>3 DEF TableOK
<1>5. DOMAIN owners' = D /\ 0 \in D /\ \A i \in D : owners'[i] = Free
  BY <1>2
<1>6. TypeOK'
  <2>1. <<>> \in Seq(Threads)
    OBVIOUS
  <2>2. waitList' \in [{"semaphore", "event"} -> Seq(Threads)]
    BY <1>2, <2>1
  <2>3. \A i \in DOMAIN owners' :
          owners'[i] \in [thread: Owners \cup {NoOwner, Granted}, count: Nat]
    BY <1>3, <1>5 DEF EntryType
  <2> QED BY <1>2, <2>2, <2>3 DEF TypeOK
<1>7. Placed'
  BY <1>2 DEF Placed, Resting
<1>8. ListsOK'
  BY <1>1, <1>2 DEF ListsOK, Items, Once
<1>9. \A o \in Owners : Due(o)' = 0
  BY <1>1, <1>2 DEF Due, Waiting, At
<1>10. EntriesOK' /\ EntriesOnce' /\ EntriesListed'
  BY <1>3, <1>5, <1>9, ResourceAssumption DEF EntriesOK, EntriesOnce, EntriesListed
<1>11. FirstOK' /\ WalkOK'
  BY <1>1, <1>2, <1>3, <1>5, ResourceAssumption DEF FirstOK, WalkOK, At, Waiting, Owners
<1>12. CountsOK'
  <2>1. /\ Counted' = Counted /\ Waiting({"shared", "late"})' = Waiting({"shared", "late"})
        /\ Waiting({"exclusive"})' = Waiting({"exclusive"}) /\ At({"event"})' = At({"event"})
        /\ Signals' = Signals /\ At({"relock"})' = At({"relock"})
    BY <1>2 DEF Counted, Waiting, At, Signals
  <2>2. semaphore = 0 /\ ~event /\ sharedWaiters = 0 /\ exclusiveWaiters = 0
    BY <1>1 DEF NoGrants, CountsOK
  <2>3. InFlightShared' = InFlightShared /\ InFlightExclusive' = InFlightExclusive
    BY <1>2, <2>1, <2>2 DEF InFlightShared, InFlightExclusive
  <2> QED BY <1>2, <2>1, <2>2, <2>3 DEF CountsOK
<1> QED BY <1>4, <1>6, <1>7, <1>8, <1>10, <1>11, <1>12

(* The new resource has the two entries of the structure itself.              *)
LEMMA ExInitializeResourceLiteInv ==
  ASSUME Inv, ExInitializeResourceLite
  PROVE  Inv'
<1>1. active = 0 /\ Reset(0..1)
  BY DEF Inv, CountsOK, ExInitializeResourceLite
<1>2. 0..1 = 0..1 /\ 1 \in Nat \ {0}
  OBVIOUS
<1> QED BY <1>1, <1>2, ResetInv

(* The resource keeps its table.                                              *)
LEMMA ExReinitializeResourceLiteInv ==
  ASSUME Inv, ExReinitializeResourceLite
  PROVE  Inv'
<1>1. active = 0 /\ Reset(DOMAIN owners)
  BY DEF ExReinitializeResourceLite, Unused
<1> QED BY <1>1, ResetInv, TableFacts DEF Inv

-----------------------------------------------------------------------------
(* Acquiring.                                                                 *)

(* Recursion: entry i is that of t, and its count rises.                      *)
LEMMA RecursiveInv ==
  ASSUME Inv, NEW t \in Threads, pc[t] = "idle", NEW i \in DOMAIN owners, owners[i].thread = t,
         Recursive(i), Acquired(t), Returns,
         UNCHANGED <<active, exclusive, sharedWaiters, exclusiveWaiters>>
  PROVE  Inv'
<1> USE DEF Inv
<1>1. /\ owners' = [owners EXCEPT ![i].count = @ + 1] /\ held' = [held EXCEPT ![t] = @ + 1]
      /\ UNCHANGED <<exists, boostAllowed, semaphore, event, waitList, dlock, pc, request, number,
                     walk, active, exclusive, sharedWaiters, exclusiveWaiters>>
  BY DEF Recursive, Acquired, Returns
<1>2. t \in Owners /\ held[t] \in Nat /\ held'[t] = held[t] + 1 /\ held' \in [Owners -> Nat]
      /\ \A o \in Owners \ {t} : held'[o] = held[o]
  BY <1>1 DEF TypeOK, Owners
<1>3. held[t] > 0 /\ owners[i].count = held[t]
  <2>1. t \notin At({"store"}) /\ t \notin Waiting({"shared"})
    BY DEF At, Waiting
  <2>2. Due(t) > 0 /\ owners[i].count = Due(t)
    BY <1>2, <2>1 DEF EntriesOK
  <2> QED BY <1>2, <2>1, <2>2 DEF Due
<1>4. /\ LastEntry \in Nat \ {0} /\ DOMAIN owners = 0..LastEntry
      /\ owners \in [0..LastEntry -> EntryType]
  BY TableFacts
<1>5. /\ DOMAIN owners' = DOMAIN owners /\ owners'[i].thread = t /\ owners'[i].count = held'[t]
      /\ owners'[i] \in EntryType /\ \A j \in DOMAIN owners \ {i} : owners'[j] = owners[j]
  BY <1>1, <1>2, <1>3, <1>4 DEF EntryType
<1>6. TableOK'
  BY <1>1, <1>4, <1>5 DEF TableOK
<1>7. TypeOK'
  BY <1>1, <1>2, <1>5 DEF TypeOK, EntryType
<1>8. Placed' /\ ListsOK'
  <2>1. Placed'
    BY <1>1, <1>2 DEF Placed, Resting, Owners
  <2>2. ListsOK'
    BY <1>1 DEF ListsOK
  <2> QED BY <2>1, <2>2
<1>9. \A o \in Owners : Due(o)' = IF o = t THEN held'[t] ELSE Due(o)
  BY <1>1, <1>2 DEF Due, Waiting, At
<1>10. At({"store"})' = At({"store"})
  BY <1>1 DEF At
<1>11. EntriesOnce'
  BY <1>5 DEF EntriesOnce
<1>12. EntriesListed'
  BY <1>2, <1>5, <1>9 DEF EntriesListed
<1>13. EntriesOK'
  BY <1>1, <1>2, <1>3, <1>5, <1>9, <1>10, ResourceAssumption DEF EntriesOK, EntriesOnce
<1>14. FirstOK'
  BY <1>1, <1>2, <1>3, <1>4, <1>5 DEF FirstOK, At, Waiting
<1>15. Counted' = Counted
  BY <1>1, <1>2, <1>3 DEF Counted, At, TypeOK
<1>16. CountsOK'
  BY <1>1, <1>15 DEF CountsOK, InFlightShared, InFlightExclusive, Signals, At, Waiting
<1>17. WalkOK'
  BY <1>1, <1>5 DEF WalkOK, At, TableSize, LastEntry
<1> QED BY <1>6, <1>7, <1>8, <1>11, <1>12, <1>13, <1>14, <1>16, <1>17

(* Who has access has an entry, and only who has access or waits for it.      *)
LEMMA HasEntry ==
  ASSUME Inv, NEW o \in Owners, held[o] > 0
  PROVE  \E i \in DOMAIN owners : owners[i].thread = o /\ owners[i].count = held[o]
<1>1. Due(o) = held[o] /\ o \notin At({"store"})
  BY DEF Due, Inv, Placed, At
<1> QED BY <1>1 DEF Inv, EntriesListed, EntriesOK

(* An idle thread without access has no entry that a search could find.       *)
LEMMA HasNoEntry ==
  ASSUME Inv, NEW t \in Threads, pc[t] = "idle", held[t] = 0
  PROVE  \A i \in DOMAIN owners : owners[i].thread # t
<1>1. t \in Owners /\ t \notin At({"store"}) /\ t \notin Waiting({"shared"})
  BY DEF At, Waiting, Owners
<1>2. Due(t) = 0
  BY <1>1 DEF Due
<1> QED BY <1>1, <1>2 DEF Inv, EntriesOK

(* A new entry for t, which is to be counted once.                            *)
LEMMA AddsKeeps ==
  ASSUME Inv, NEW t \in Threads, NEW k, Adds(t, k), \A i \in DOMAIN owners : owners[i].thread # t,
         \A o \in Owners : Due(o)' = IF o = t THEN 1 ELSE Due(o),
         At({"store"})' = At({"store"}), exclusive => exclusive'
  PROVE  TableOK' /\ EntriesOK' /\ EntriesOnce' /\ EntriesListed'
<1> USE DEF Inv
<1>1. /\ TableOK' /\ k \in DOMAIN owners' /\ owners'[k].thread = t /\ owners'[k].count = 1
      /\ t \in Owners /\ t # NoOwner /\ t # Granted
  BY ResourceAssumption DEF Adds, Extends, Entry, Owners
<1>2. \A i \in DOMAIN owners' : \/ i = k
                                \/ i \in DOMAIN owners /\ owners'[i] = owners[i]
                                \/ owners'[i].thread = NoOwner /\ owners'[i].count = 0
  BY DEF Adds, Extends, Free, Entry
<1>3. \A i \in DOMAIN owners : i # k => i \in DOMAIN owners' /\ owners'[i] = owners[i]
  BY DEF Adds, Extends
<1>4. k \in DOMAIN owners => owners[k].thread = NoOwner
  BY DEF Adds
<1>5. NoOwner \notin Owners /\ NoOwner # Granted
  BY ResourceAssumption
<1>6. EntriesOK'
  BY <1>1, <1>2, <1>5 DEF EntriesOK
<1>7. EntriesOnce'
  BY <1>1, <1>2, <1>5 DEF EntriesOnce
<1>8. EntriesListed'
  <2> SUFFICES ASSUME NEW o \in Owners, Due(o)' > 0
               PROVE  \E i \in DOMAIN owners' : owners'[i].thread = o
    BY DEF EntriesListed
  <2>1. CASE o = t
    BY <1>1, <2>1
  <2>2. CASE o # t
    <3>1. PICK i \in DOMAIN owners : owners[i].thread = o
      BY <2>2 DEF EntriesListed
    <3> QED BY <1>3, <1>4, <1>5, <3>1
  <2> QED BY <2>1, <2>2
<1> QED BY <1>1, <1>6, <1>7, <1>8

(* The table is not replaced while somebody walks over it.                    *)
LEMMA WalkExtends ==
  ASSUME Inv, NEW k, Extends(k), UNCHANGED walk,
         \A v \in Threads : pc'[v] = pc[v] \/ pc'[v] \notin {"boost", "dead"}
  PROVE  WalkOK'
<1>1. ASSUME NEW t \in Threads, pc[t] = "boost" PROVE DOMAIN owners' = DOMAIN owners
  <2>1. dlock # NoOwner
    BY <1>1, ResourceAssumption DEF Inv, Placed, Owners
  <2> QED BY <2>1 DEF Extends
<1>2. DOMAIN owners' = DOMAIN owners => TableSize' = TableSize
  BY DEF TableSize, LastEntry
<1> QED BY <1>1, <1>2 DEF Inv, WalkOK, At, TypeOK

(* Fresh access: shared, or exclusive to a resource nobody uses.              *)
LEMMA AcquireNewInv ==
  ASSUME Inv, NEW t \in Threads, Caller(t), held[t] = 0, ~exclusive, NEW k, Adds(t, k),
         \/ ~exclusive' /\ k # 0
         \/ exclusive' = TRUE /\ k = 0 /\ active = 0,
         exclusive' \in BOOLEAN, active' = active + 1, Acquired(t), Returns,
         UNCHANGED <<sharedWaiters, exclusiveWaiters>>
  PROVE  Inv'
<1> USE DEF Inv
<1>1. /\ held' = [held EXCEPT ![t] = @ + 1] /\ pc[t] = "idle" /\ exists
      /\ UNCHANGED <<exists, boostAllowed, semaphore, event, waitList, dlock, pc, request, number,
                     walk, sharedWaiters, exclusiveWaiters>>
  BY DEF Acquired, Returns, Caller
<1>2. /\ t \in Owners /\ held'[t] = 1 /\ held' \in [Owners -> Nat]
      /\ \A o \in Owners \ {t} : held'[o] = held[o]
  BY <1>1 DEF TypeOK, Owners
<1>3. \A i \in DOMAIN owners : owners[i].thread # t
  BY <1>1, HasNoEntry
<1>4. At({"store"})' = At({"store"})
  BY <1>1 DEF At
<1>5. \A o \in Owners : Due(o)' = IF o = t THEN 1 ELSE Due(o)
  BY <1>1, <1>2 DEF Due, Waiting, At
<1>6. TableOK' /\ EntriesOK' /\ EntriesOnce' /\ EntriesListed'
  BY <1>3, <1>4, <1>5, AddsKeeps
<1>7. TypeOK'
  <2>1. \A i \in DOMAIN owners' :
          owners'[i] \in [thread: Owners \cup {NoOwner, Granted}, count: Nat]
    BY <1>6 DEF TableOK, EntryType
  <2> QED BY <1>1, <1>2, <2>1 DEF TypeOK
<1>8. Placed'
  BY <1>1, <1>2 DEF Placed, Resting, Owners
<1>9. ListsOK'
  BY <1>1 DEF ListsOK
<1>10. WalkOK'
  BY <1>1, WalkExtends DEF Adds
<1>11. 0 \in DOMAIN owners /\ (k # 0 => owners'[0] = owners[0]) /\ owners'[k].thread = t
  BY TableFacts DEF Adds, Extends, Entry
<1>12. FirstOK'
  <2>1. CASE ~exclusive'
    BY <1>1, <1>4, <1>11, <2>1 DEF FirstOK, Waiting, At
  <2>2. CASE exclusive' = TRUE /\ k = 0 /\ active = 0
    <3>1. NoGrants /\ (\A o \in Owners : held[o] = 0) /\ \A u \in Threads : pc[u] \in {"idle", "dead"}
      BY <2>2, Nobody
    <3>2. t # NoOwner
      BY ResourceAssumption DEF Owners
    <3> QED BY <1>1, <1>2, <1>11, <2>2, <3>1, <3>2 DEF FirstOK, Waiting, At, NoGrants
  <2> QED BY <2>1, <2>2
<1>13. CountsOK'
  <2>1. t \notin Counted /\ Counted \subseteq Owners
    BY <1>1 DEF Counted, At, Owners
  <2>2. Counted' = Counted \cup {t}
    BY <1>1, <1>2 DEF Counted, At
  <2>3. Cardinality(Counted') = Cardinality(Counted) + 1
    BY <1>2, <2>1, <2>2, OneMore
  <2>4. /\ InFlightShared' = InFlightShared /\ InFlightExclusive' = InFlightExclusive
        /\ Waiting({"shared", "late"})' = Waiting({"shared", "late"})
        /\ Waiting({"exclusive"})' = Waiting({"exclusive"}) /\ At({"relock"})' = At({"relock"})
    BY <1>1 DEF InFlightShared, InFlightExclusive, Signals, At, Waiting
  <2>5. active' = Cardinality(Counted') + InFlightShared' + InFlightExclusive' /\ active' # 0
    <3>1. active = Cardinality(Counted) + InFlightShared + InFlightExclusive
      BY DEF CountsOK
    <3>2. InFlightShared \in Nat /\ InFlightExclusive \in Nat /\ Cardinality(Counted) \in Nat
      BY CountTypes, FlightTypes
    <3> QED BY <2>3, <2>4, <3>1, <3>2
  <2>6. exclusive' => active' = 1 /\ InFlightShared = 0 /\ At({"relock"}) = {}
    <3>1. CASE active = 0
      <4>1. NoGrants /\ \A u \in Threads : pc[u] \in {"idle", "dead"}
        BY <3>1, Nobody
      <4>2. InFlightShared = 0
        BY <4>1, FS_EmptySet DEF NoGrants, InFlightShared
      <4> QED BY <3>1, <4>1, <4>2 DEF At
    <3> QED BY <3>1
  <2> QED BY <1>1, <2>4, <2>5, <2>6 DEF CountsOK
<1> QED BY <1>6, <1>7, <1>8, <1>9, <1>10, <1>12, <1>13

(* A call that is refused has only replaced the owner table.                  *)
LEMMA RefusedInv ==
  ASSUME Inv, NEW o, ExpFindCurrentThread(o), owners' = TableFor(o), Returns,
         UNCHANGED <<active, exclusive, sharedWaiters, exclusiveWaiters, held>>
  PROVE  Inv'
<1> USE DEF Inv
<1>1. UNCHANGED <<exists, boostAllowed, semaphore, event, waitList, dlock, pc, request, number,
                  walk, active, exclusive, sharedWaiters, exclusiveWaiters, held>>
  BY DEF Returns
<1>2. Extends(0) /\ owners'[0] = owners[0] /\ 0 \in DOMAIN owners
  BY TableOnly, TableFacts
<1>3. /\ TableOK'
      /\ \A i \in DOMAIN owners : i \in DOMAIN owners' /\ owners'[i] = owners[i]
      /\ \A i \in DOMAIN owners' : i \in DOMAIN owners \/ owners'[i] = Free
  BY <1>2 DEF Extends
<1>4. Free.thread = NoOwner /\ Free.count = 0 /\ NoOwner \notin Owners /\ NoOwner # Granted
  BY ResourceAssumption DEF Free, Entry
<1>5. TypeOK'
  <2>1. \A i \in DOMAIN owners' :
          owners'[i] \in [thread: Owners \cup {NoOwner, Granted}, count: Nat]
    BY <1>3 DEF TableOK, EntryType
  <2> QED BY <1>1, <2>1 DEF TypeOK
<1>6. Placed' /\ ListsOK'
  BY <1>1 DEF Placed, ListsOK, Resting
<1>7. (\A p \in Owners : Due(p)' = Due(p)) /\ At({"store"})' = At({"store"})
  BY <1>1 DEF Due, Waiting, At
<1>8. EntriesOK'
  BY <1>1, <1>3, <1>4, <1>7 DEF EntriesOK
<1>9. EntriesOnce' /\ EntriesListed'
  BY <1>3, <1>4, <1>7 DEF EntriesOnce, EntriesListed
<1>10. FirstOK'
  BY <1>1, <1>2 DEF FirstOK, At, Waiting
<1>11. CountsOK'
  BY <1>1 DEF CountsOK, Counted, InFlightShared, InFlightExclusive, Signals, At, Waiting
<1>12. WalkOK'
  BY <1>1, <1>2, WalkExtends
<1> QED BY <1>3, <1>5, <1>6, <1>8, <1>9, <1>10, <1>11, <1>12

(* A thread that starts to wait, with r asked for.                            *)
LEMMA WaitForFacts ==
  ASSUME Inv, NEW t \in Threads, Caller(t), held[t] = 0, NEW r \in Requests \ {"none"},
         WaitFor(t, r)
  PROVE  /\ pc[t] = "idle" /\ exists /\ request[t] = "none"
         /\ pc'[t] = "call" /\ request'[t] = r /\ pc' \in [Threads -> Pcs]
         /\ request' \in [Threads -> Requests]
         /\ \A v \in Threads \ {t} : pc'[v] = pc[v] /\ request'[v] = request[v]
         /\ UNCHANGED <<exists, active, exclusive, boostAllowed, semaphore, event, waitList, dlock,
                        number, walk, held>>
         /\ Placed' /\ ListsOK'
         /\ At({"store"})' = At({"store"}) /\ At({"event"})' = At({"event"})
         /\ At({"relock"})' = At({"relock"}) /\ Counted' = Counted
         /\ InFlightShared' = InFlightShared /\ InFlightExclusive' = InFlightExclusive
         /\ \A S : Waiting(S)' = IF r \in S THEN Waiting(S) \cup {t} ELSE Waiting(S)
         /\ \A S : t \notin Waiting(S)
<1> USE DEF Inv
<1>1. /\ pc[t] = "idle" /\ exists /\ request[t] = "none"
      /\ pc' = [pc EXCEPT ![t] = "call"] /\ request' = [request EXCEPT ![t] = r]
      /\ UNCHANGED <<exists, active, exclusive, boostAllowed, semaphore, event, waitList, dlock,
                     number, walk, held>>
  BY DEF WaitFor, Caller, Placed, Resting
<1>2. /\ pc'[t] = "call" /\ request'[t] = r /\ pc' \in [Threads -> Pcs]
      /\ request' \in [Threads -> Requests]
      /\ \A v \in Threads \ {t} : pc'[v] = pc[v] /\ request'[v] = request[v]
  BY <1>1 DEF TypeOK, Pcs
<1>3. Placed'
  BY <1>1, <1>2 DEF Placed, Resting
<1>4. ListsOK'
  BY <1>1, <1>2, ListsKept
<1>5. /\ At({"store"})' = At({"store"}) /\ At({"event"})' = At({"event"})
      /\ At({"relock"})' = At({"relock"}) /\ At({"relock", "store"})' = At({"relock", "store"})
  BY <1>1, <1>2 DEF At
<1>6. /\ Counted' = Counted /\ Signals' = Signals
      /\ InFlightShared' = InFlightShared /\ InFlightExclusive' = InFlightExclusive
  BY <1>1, <1>5 DEF Counted, Signals, InFlightShared, InFlightExclusive
<1>7. \A S : /\ Waiting(S)' = IF r \in S THEN Waiting(S) \cup {t} ELSE Waiting(S)
             /\ t \notin Waiting(S)
  BY <1>1, <1>2 DEF Waiting, At
<1> QED BY <1>1, <1>2, <1>3, <1>4, <1>5, <1>6, <1>7

(* To wait for shared access, with the owner entry already written.           *)
LEMMA SharedWaitInv ==
  ASSUME Inv, NEW t \in Threads, Caller(t), held[t] = 0, NEW k, Adds(t, k), k # 0,
         active # 0, exclusive \/ IsExclusiveWaiting,
         sharedWaiters' = sharedWaiters + 1, WaitFor(t, "shared"), UNCHANGED exclusiveWaiters
  PROVE  Inv'
<1> USE DEF Inv
<1>0. "shared" \in Requests \ {"none"}
  BY DEF Requests
<1>1. /\ pc[t] = "idle" /\ exists /\ request[t] = "none"
      /\ pc'[t] = "call" /\ request'[t] = "shared" /\ pc' \in [Threads -> Pcs]
      /\ request' \in [Threads -> Requests]
      /\ \A v \in Threads \ {t} : pc'[v] = pc[v] /\ request'[v] = request[v]
      /\ UNCHANGED <<exists, active, exclusive, boostAllowed, semaphore, event, waitList, dlock,
                     number, walk, held>>
      /\ Placed' /\ ListsOK'
      /\ At({"store"})' = At({"store"}) /\ At({"event"})' = At({"event"})
      /\ At({"relock"})' = At({"relock"}) /\ Counted' = Counted
      /\ InFlightShared' = InFlightShared /\ InFlightExclusive' = InFlightExclusive
      /\ \A S : Waiting(S)' = IF "shared" \in S THEN Waiting(S) \cup {t} ELSE Waiting(S)
      /\ \A S : t \notin Waiting(S)
  BY <1>0, WaitForFacts
<1>2. \A i \in DOMAIN owners : owners[i].thread # t
  BY <1>1, HasNoEntry
<1>3. t \in Owners /\ (t \in Waiting({"shared"}))'
      /\ \A o \in Owners \ {t} : (o \in Waiting({"shared"}))' <=> o \in Waiting({"shared"})
  BY <1>1 DEF Owners
<1>4. \A o \in Owners : Due(o)' = IF o = t THEN 1 ELSE Due(o)
  BY <1>1, <1>3 DEF Due
<1>5. TableOK' /\ EntriesOK' /\ EntriesOnce' /\ EntriesListed'
  BY <1>1, <1>2, <1>4, AddsKeeps
<1>6. TypeOK'
  <2>1. \A i \in DOMAIN owners' :
          owners'[i] \in [thread: Owners \cup {NoOwner, Granted}, count: Nat]
    BY <1>5 DEF TableOK, EntryType
  <2> QED BY <1>1, <2>1 DEF TypeOK
<1>7. WalkOK'
  BY <1>1, WalkExtends DEF Adds
<1>8. 0 \in DOMAIN owners /\ owners'[0] = owners[0]
  BY TableFacts DEF Adds, Extends
<1>9. FirstOK'
  BY <1>1, <1>2, <1>8 DEF FirstOK
<1>10. CountsOK'
  <2>1. Waiting({"shared", "late"}) \subseteq Owners
    BY DEF Waiting, At, Owners
  <2>2. Cardinality(Waiting({"shared", "late"})') = Cardinality(Waiting({"shared", "late"})) + 1
    BY <1>1, <1>3, <2>1, OneMore
  <2>3. Waiting({"exclusive"})' = Waiting({"exclusive"})
    BY <1>1
  <2>4. Cardinality(Waiting({"shared", "late"})) = sharedWaiters + InFlightShared
    BY DEF CountsOK
  <2>5. sharedWaiters \in Nat /\ InFlightShared \in Nat
    BY FlightTypes DEF TypeOK
  <2>6. Cardinality(Waiting({"shared", "late"})') = sharedWaiters' + InFlightShared'
    BY <1>1, <2>2, <2>4, <2>5
  <2> QED BY <1>1, <2>3, <2>6 DEF CountsOK, IsExclusiveWaiting
<1> QED BY <1>1, <1>5, <1>6, <1>7, <1>9, <1>10

(* To wait without an owner entry.                                            *)
LEMMA PlainWaitInv ==
  ASSUME Inv, NEW t \in Threads, Caller(t), held[t] = 0, active # 0,
         NEW r \in {"late", "exclusive"}, WaitFor(t, r), UNCHANGED owners,
         \/ /\ r = "late" /\ IsExclusiveWaiting
            /\ sharedWaiters' = sharedWaiters + 1 /\ UNCHANGED exclusiveWaiters
         \/ /\ r = "exclusive" /\ exclusiveWaiters' = exclusiveWaiters + 1
            /\ UNCHANGED sharedWaiters
  PROVE  Inv'
<1> USE DEF Inv
<1>0. r \in Requests \ {"none"} /\ r # "shared"
  BY DEF Requests
<1>1. /\ pc[t] = "idle" /\ exists /\ request[t] = "none"
      /\ pc'[t] = "call" /\ request'[t] = r /\ pc' \in [Threads -> Pcs]
      /\ request' \in [Threads -> Requests]
      /\ \A v \in Threads \ {t} : pc'[v] = pc[v] /\ request'[v] = request[v]
      /\ UNCHANGED <<exists, active, exclusive, boostAllowed, semaphore, event, waitList, dlock,
                     number, walk, held>>
      /\ Placed' /\ ListsOK'
      /\ At({"store"})' = At({"store"}) /\ At({"event"})' = At({"event"})
      /\ At({"relock"})' = At({"relock"}) /\ Counted' = Counted
      /\ InFlightShared' = InFlightShared /\ InFlightExclusive' = InFlightExclusive
      /\ \A S : Waiting(S)' = IF r \in S THEN Waiting(S) \cup {t} ELSE Waiting(S)
      /\ \A S : t \notin Waiting(S)
  BY <1>0, WaitForFacts
<1>2. t \in Owners /\ Waiting({"shared"})' = Waiting({"shared"})
  BY <1>0, <1>1 DEF Owners
<1>3. \A o \in Owners : Due(o)' = Due(o)
  BY <1>1, <1>2 DEF Due
<1>4. TableOK' /\ EntriesOK' /\ EntriesOnce' /\ EntriesListed'
  BY <1>1, <1>3 DEF TableOK, EntriesOK, EntriesOnce, EntriesListed
<1>5. TypeOK'
  <2>1. sharedWaiters \in Nat /\ exclusiveWaiters \in Nat
    BY DEF TypeOK
  <2>2. sharedWaiters' \in Nat /\ exclusiveWaiters' \in Nat
    BY <2>1
  <2> QED BY <1>1, <2>2 DEF TypeOK
<1>6. WalkOK'
  BY <1>1, WalkKept
<1>7. FirstOK'
  BY <1>1, <1>2 DEF FirstOK
<1>8. sharedWaiters \in Nat /\ InFlightShared \in Nat /\ exclusiveWaiters \in Nat
      /\ InFlightExclusive \in Nat
  BY FlightTypes DEF TypeOK
<1>9. Waiting({"shared", "late"}) \subseteq Owners /\ Waiting({"exclusive"}) \subseteq Owners
  BY DEF Waiting, At, Owners
<1>10. CASE r = "late"
  <2>1. Waiting({"shared", "late"})' = Waiting({"shared", "late"}) \cup {t}
        /\ Waiting({"exclusive"})' = Waiting({"exclusive"})
    BY <1>1, <1>10
  <2>2. Cardinality(Waiting({"shared", "late"})') = Cardinality(Waiting({"shared", "late"})) + 1
    BY <1>1, <1>2, <1>9, <2>1, OneMore
  <2>3. Cardinality(Waiting({"shared", "late"})) = sharedWaiters + InFlightShared
    BY DEF CountsOK
  <2>4. sharedWaiters' = sharedWaiters + 1 /\ exclusiveWaiters' = exclusiveWaiters
    BY <1>10
  <2>5. Cardinality(Waiting({"shared", "late"})') = sharedWaiters' + InFlightShared'
    BY <1>1, <1>8, <2>2, <2>3, <2>4
  <2>6. CountsOK'
    BY <1>1, <1>10, <2>1, <2>4, <2>5 DEF CountsOK, IsExclusiveWaiting
  <2> QED BY <1>1, <1>4, <1>5, <1>6, <1>7, <2>6
<1>11. CASE r = "exclusive"
  <2>1. Waiting({"exclusive"})' = Waiting({"exclusive"}) \cup {t}
        /\ Waiting({"shared", "late"})' = Waiting({"shared", "late"})
    BY <1>1, <1>11
  <2>2. Cardinality(Waiting({"exclusive"})') = Cardinality(Waiting({"exclusive"})) + 1
    BY <1>1, <1>2, <1>9, <2>1, OneMore
  <2>3. Cardinality(Waiting({"exclusive"})) = exclusiveWaiters + InFlightExclusive
    BY DEF CountsOK
  <2>4. exclusiveWaiters' = exclusiveWaiters + 1 /\ sharedWaiters' = sharedWaiters
    BY <1>11
  <2>5. Cardinality(Waiting({"exclusive"})') = exclusiveWaiters' + InFlightExclusive'
    BY <1>1, <1>8, <2>2, <2>3, <2>4
  <2>6. exclusiveWaiters' # 0
    BY <1>8, <2>4
  <2>7. CountsOK'
    BY <1>1, <2>1, <2>4, <2>5, <2>6 DEF CountsOK
  <2> QED BY <1>1, <1>4, <1>5, <1>6, <1>7, <2>7
<1> QED BY <1>10, <1>11

(* The common paths of the acquisitions.                                      *)
LEMMA NoAccess ==
  ASSUME Inv, NEW t \in Threads, pc[t] = "idle",
         With(t) = {} \/ (exclusive /\ ~OwnedBy(t)) \/ active = 0
  PROVE  held[t] = 0
<1>1. t \in Owners /\ held[t] \in Nat
  BY DEF Inv, TypeOK, Owners
<1>2. CASE With(t) = {}
  BY <1>1, <1>2, HasEntry DEF With
<1>3. CASE exclusive /\ ~OwnedBy(t)
  BY <1>1, <1>3 DEF Inv, FirstOK, OwnedBy
<1>4. CASE active = 0
  BY <1>1, <1>4, Nobody
<1> QED BY <1>2, <1>3, <1>4

(* Access to a resource nobody uses, in entry 1 when it is shared and in      *)
(* entry 0 when it is exclusive.                                              *)
LEMMA UnownedInv ==
  ASSUME Inv, NEW t \in Threads, Caller(t), active = 0, NEW k \in {0, 1},
         owners' = [owners EXCEPT ![k] = Entry(t, 1)], active' = 1,
         \/ k = 1 /\ UNCHANGED exclusive
         \/ k = 0 /\ exclusive' = TRUE,
         Acquired(t), Returns, UNCHANGED <<sharedWaiters, exclusiveWaiters>>
  PROVE  Inv'
<1>1. ~exclusive /\ \A i \in DOMAIN owners : owners[i] = Free
  BY Nobody
<1>2. k \in DOMAIN owners /\ TableOK
  <2>1. TableOK
    BY DEF Inv
  <2> QED BY <2>1, TableFacts
<1>3. owners[k].thread = NoOwner
  BY <1>1, <1>2 DEF Free, Entry
<1>4. Adds(t, k)
  BY <1>2, <1>3, PutsEntry
<1>5. held[t] = 0
  BY NoAccess DEF Caller
<1>6. active' = active + 1
  OBVIOUS
<1>7. exclusive' \in BOOLEAN
  BY DEF Inv, TypeOK
<1>8. \/ ~exclusive' /\ k # 0
      \/ exclusive' = TRUE /\ k = 0 /\ active = 0
  BY <1>1
<1> QED BY <1>1, <1>4, <1>5, <1>6, <1>7, <1>8, AcquireNewInv

(* The exclusive owner asks for shared access.                                *)
LEMMA ByExclusiveOwnerInv ==
  ASSUME Inv, NEW t \in Threads, Caller(t), SharedByExclusiveOwner(t)
  PROVE  Inv'
<1>1. 0 \in DOMAIN owners
  BY TableFacts DEF Inv
<1> QED BY <1>1, RecursiveInv DEF SharedByExclusiveOwner, OwnedBy, Caller

(* A shared owner asks again.                                                 *)
LEMMA SharedRecursiveInv ==
  ASSUME Inv, NEW t \in Threads, Caller(t), SharedRecursive(t)
  PROVE  Inv'
<1>1. PICK i \in DOMAIN owners : owners[i].thread = t
  BY DEF SharedRecursive, With
<1>2. t \in Owners /\ TableOK /\ EntriesOnce
  BY DEF Owners, Inv
<1>3. Slot(t) = i
  BY <1>1, <1>2, Found
<1> QED BY <1>1, <1>3, RecursiveInv DEF SharedRecursive, Caller

(* Shared access is free to be had.                                           *)
LEMMA SharedGrantedInv ==
  ASSUME Inv, NEW t \in Threads, Caller(t), OwnedShared, SharedGranted(t)
  PROVE  Inv'
<1>1. t \in Owners /\ With(t) = {} /\ TableOK
  BY DEF Owners, SharedGranted, Inv
<1>2. Adds(t, Slot(t)) /\ Slot(t) # 0
  BY <1>1, AddsEntry DEF SharedGranted
<1>3. held[t] = 0
  BY <1>1, NoAccess DEF Caller
<1>4. PICK k : k = Slot(t)
  OBVIOUS
<1>5. ~exclusive /\ ~exclusive' /\ exclusive' \in BOOLEAN
  BY DEF OwnedShared, SharedGranted, Inv, TypeOK
<1> QED BY <1>2, <1>3, <1>4, <1>5, AcquireNewInv DEF SharedGranted

(* Shared access is not to be had: the call is refused or waits.              *)
LEMMA SharedWaitsInv ==
  ASSUME Inv, NEW t \in Threads, Caller(t), active # 0, NEW o, NEW Wait, SharedWait(t, o, Wait),
         \/ o = t /\ With(t) = {} /\ IsExclusiveWaiting
         \/ o = NoOwner /\ exclusive /\ ~OwnedBy(t)
  PROVE  Inv'
<1>1. CASE ~Wait /\ owners' = TableFor(o) /\ Returns
           /\ UNCHANGED <<active, exclusive, sharedWaiters, exclusiveWaiters, held>>
  BY <1>1, RefusedInv DEF SharedWait
<1>2. CASE /\ owners' = [TableFor(o) EXCEPT ![Slot(o)] = Entry(t, 1)]
           /\ sharedWaiters' = sharedWaiters + 1
           /\ WaitFor(t, "shared") /\ UNCHANGED exclusiveWaiters
  <2>1. TableOK /\ t \in Owners /\ ExpFindCurrentThread(o)
    BY DEF Inv, SharedWait, Owners
  <2>2. exclusive => owners[0].thread # NoOwner
    BY DEF Inv, FirstOK
  <2>3. Adds(t, Slot(o)) /\ Slot(o) # 0
    BY <1>2, <2>1, <2>2, AddsEntry
  <2>4. held[t] = 0
    BY NoAccess DEF Caller
  <2>5. PICK k : k = Slot(o)
    OBVIOUS
  <2> QED BY <1>2, <2>3, <2>4, <2>5, SharedWaitInv
<1> QED BY <1>1, <1>2 DEF SharedWait

(* Every acquisition.                                                         *)
LEMMA CommonSharedInv ==
  ASSUME Inv, NEW t \in Threads, Caller(t), NEW Wait,
         SharedUnowned(t) \/ SharedByExclusiveOwner(t) \/ SharedBehindExclusive(t, Wait)
  PROVE  Inv'
<1>1. CASE SharedUnowned(t)
  <2>1. 1 \in {0, 1}
    OBVIOUS
  <2> QED BY <1>1, <2>1, UnownedInv DEF SharedUnowned
<1>2. CASE SharedByExclusiveOwner(t)
  BY <1>2, ByExclusiveOwnerInv
<1>3. CASE SharedBehindExclusive(t, Wait)
  BY <1>3, SharedWaitsInv DEF SharedBehindExclusive
<1> QED BY <1>1, <1>2, <1>3

(* Exclusive access.                                                          *)
LEMMA ExAcquireResourceExclusiveLiteInv ==
  ASSUME Inv, NEW t \in Threads, NEW Wait, ExAcquireResourceExclusiveLite(t, Wait)
  PROVE  Inv'
<1>1. Caller(t)
  BY DEF ExAcquireResourceExclusiveLite
<1>2. CASE /\ active = 0
           /\ exclusive' = TRUE /\ active' = 1
           /\ owners' = [owners EXCEPT ![0] = Entry(t, 1)]
           /\ Acquired(t) /\ Returns
           /\ UNCHANGED <<sharedWaiters, exclusiveWaiters>>
  <2>1. 0 \in {0, 1}
    OBVIOUS
  <2> QED BY <1>1, <1>2, <2>1, UnownedInv
<1>3. CASE SharedByExclusiveOwner(t)
  BY <1>1, <1>3, ByExclusiveOwnerInv
<1>4. CASE /\ active # 0 /\ ~OwnedBy(t) /\ Wait /\ held[t] = 0
           /\ exclusiveWaiters' = exclusiveWaiters + 1
           /\ WaitFor(t, "exclusive")
           /\ UNCHANGED <<owners, sharedWaiters>>
  BY <1>1, <1>4, PlainWaitInv
<1> QED BY <1>2, <1>3, <1>4 DEF ExAcquireResourceExclusiveLite, SharedByExclusiveOwner

(* Shared access, behind the exclusive waiters.                               *)
LEMMA ExAcquireResourceSharedLiteInv ==
  ASSUME Inv, NEW t \in Threads, NEW Wait, ExAcquireResourceSharedLite(t, Wait)
  PROVE  Inv'
<1>1. Caller(t)
  BY DEF ExAcquireResourceSharedLite
<1>2. CASE SharedUnowned(t) \/ SharedByExclusiveOwner(t) \/ SharedBehindExclusive(t, Wait)
  BY <1>1, <1>2, CommonSharedInv
<1>3. CASE OwnedShared /\ SharedRecursive(t)
  BY <1>1, <1>3, SharedRecursiveInv
<1>4. CASE OwnedShared /\ SharedGranted(t)
  BY <1>1, <1>4, SharedGrantedInv
<1>5. CASE OwnedShared /\ IsExclusiveWaiting /\ With(t) = {} /\ SharedWait(t, t, Wait)
  BY <1>1, <1>5, SharedWaitsInv DEF OwnedShared
<1> QED BY <1>2, <1>3, <1>4, <1>5 DEF ExAcquireResourceSharedLite

(* Shared access, past the exclusive waiters.                                 *)
LEMMA ExAcquireSharedStarveExclusiveInv ==
  ASSUME Inv, NEW t \in Threads, NEW Wait, ExAcquireSharedStarveExclusive(t, Wait)
  PROVE  Inv'
<1>1. Caller(t)
  BY DEF ExAcquireSharedStarveExclusive
<1>2. CASE SharedUnowned(t) \/ SharedByExclusiveOwner(t) \/ SharedBehindExclusive(t, Wait)
  BY <1>1, <1>2, CommonSharedInv
<1>3. CASE OwnedShared /\ SharedRecursive(t)
  BY <1>1, <1>3, SharedRecursiveInv
<1>4. CASE OwnedShared /\ SharedGranted(t)
  BY <1>1, <1>4, SharedGrantedInv
<1> QED BY <1>2, <1>3, <1>4 DEF ExAcquireSharedStarveExclusive

(* Shared access, behind the exclusive waiters even for an owner.             *)
LEMMA ExAcquireSharedWaitForExclusiveInv ==
  ASSUME Inv, NEW t \in Threads, NEW Wait, ExAcquireSharedWaitForExclusive(t, Wait)
  PROVE  Inv'
<1>1. Caller(t)
  BY DEF ExAcquireSharedWaitForExclusive
<1>2. CASE SharedUnowned(t) \/ SharedByExclusiveOwner(t) \/ SharedBehindExclusive(t, Wait)
  BY <1>1, <1>2, CommonSharedInv
<1>3. CASE OwnedShared /\ SharedRecursive(t)
  BY <1>1, <1>3, SharedRecursiveInv
<1>4. CASE OwnedShared /\ SharedGranted(t)
  BY <1>1, <1>4, SharedGrantedInv
<1>5. CASE /\ OwnedShared /\ IsExclusiveWaiting /\ Wait
           /\ sharedWaiters' = sharedWaiters + 1
           /\ WaitFor(t, "late")
           /\ UNCHANGED <<owners, exclusiveWaiters>>
  <2>1. active # 0 /\ held[t] = 0
    BY <1>5 DEF ExAcquireSharedWaitForExclusive, OwnedShared
  <2> QED BY <1>1, <1>5, <2>1, PlainWaitInv
<1> QED BY <1>2, <1>3, <1>4, <1>5 DEF ExAcquireSharedWaitForExclusive

-----------------------------------------------------------------------------
(* Releasing.                                                                 *)

(* The signals that are still to be made, by the numbers the threads have.    *)
SignalsIn(f) == {s \in Threads \X (1..Cardinality(Threads)) : s[2] <= f[s[1]]}

(* They change by what one thread is to signal.                               *)
LEMMA SignalsOf ==
  ASSUME NEW f \in [Threads -> Nat], NEW g \in [Threads -> Nat], NEW t \in Threads, f[t] = 0,
         g[t] <= Cardinality(Threads), \A v \in Threads \ {t} : g[v] = f[v]
  PROVE  Cardinality(SignalsIn(g)) = Cardinality(SignalsIn(f)) + g[t]
<1> DEFINE n == g[t]
           M == {t} \X (1..n)
<1>1. Cardinality(Threads) \in Nat /\ IsFiniteSet(Threads)
  BY ResourceAssumption, FS_CardinalityType
<1>2. IsFiniteSet(M) /\ Cardinality(M) = n
  <2>1. IsFiniteSet({t}) /\ Cardinality({t}) = 1
    BY FS_Singleton
  <2>2. IsFiniteSet(1..n) /\ Cardinality(1..n) = n
    BY FS_Interval
  <2>3. IsFiniteSet(M) /\ Cardinality(M) = 1 * n
    BY <2>1, <2>2, FS_Product
  <2> QED BY <2>3
<1>3. SignalsIn(g) = SignalsIn(f) \cup M
  <2>1. ASSUME NEW s PROVE s \in SignalsIn(g) <=> s \in SignalsIn(f) \cup M
    <3>1. s \in SignalsIn(g) <=> s \in Threads \X (1..Cardinality(Threads)) /\ s[2] <= g[s[1]]
      BY DEF SignalsIn
    <3>2. s \in SignalsIn(f) <=> s \in Threads \X (1..Cardinality(Threads)) /\ s[2] <= f[s[1]]
      BY DEF SignalsIn
    <3>3. s \in M <=> s \in Threads \X (1..Cardinality(Threads)) /\ s[1] = t /\ s[2] <= n
      BY <1>1
    <3>4. s \in Threads \X (1..Cardinality(Threads)) => s[1] \in Threads /\ s[2] \in Nat \ {0}
      BY <1>1
    <3> QED BY <3>1, <3>2, <3>3, <3>4
  <2> QED BY <2>1
<1>4. SignalsIn(f) \cap M = {}
  BY <1>1 DEF SignalsIn
<1>5. IsFiniteSet(SignalsIn(f)) /\ Cardinality(SignalsIn(f)) \in Nat
  <2>1. IsFiniteSet(1..Cardinality(Threads))
    BY <1>1, FS_Interval
  <2>2. IsFiniteSet(Threads \X (1..Cardinality(Threads)))
    BY <1>1, <2>1, FS_Product
  <2>3. SignalsIn(f) \in SUBSET (Threads \X (1..Cardinality(Threads)))
    BY DEF SignalsIn
  <2> QED BY <2>2, <2>3, FS_Subset, FS_CardinalityType
<1> HIDE DEF M
<1>6. Cardinality(SignalsIn(f) \cup M) =
        Cardinality(SignalsIn(f)) + Cardinality(M) - Cardinality({})
  BY <1>2, <1>4, <1>5, FS_Union
<1>7. Cardinality({}) = 0
  BY FS_EmptySet
<1> QED BY <1>2, <1>3, <1>5, <1>6, <1>7

(* The count of an owner entry goes down.                                     *)
LEMMA ReleaseRecursiveInv ==
  ASSUME Inv, NEW o \in Owners, held[o] > 0, NEW i \in DOMAIN owners, owners[i].thread = o,
         owners[i].count = held[o], held' = [held EXCEPT ![o] = @ - 1],
         ReleaseRecursive(i), Proceeds
  PROVE  Inv'
<1> USE DEF Inv
<1>1. /\ owners' = [owners EXCEPT ![i].count = @ - 1] /\ held[o] # 1
      /\ UNCHANGED <<exists, boostAllowed, semaphore, event, waitList, dlock, pc, request, number,
                     walk, active, exclusive, sharedWaiters, exclusiveWaiters>>
  BY DEF ReleaseRecursive, Decremented, Proceeds
<1>2. /\ held[o] \in Nat /\ held'[o] = held[o] - 1 /\ held' \in [Owners -> Nat] /\ held'[o] > 0
      /\ \A p \in Owners \ {o} : held'[p] = held[p]
  BY <1>1 DEF TypeOK
<1>3. /\ LastEntry \in Nat \ {0} /\ DOMAIN owners = 0..LastEntry
      /\ owners \in [0..LastEntry -> EntryType]
  BY TableFacts
<1>4. /\ DOMAIN owners' = DOMAIN owners /\ owners'[i].thread = o /\ owners'[i].count = held'[o]
      /\ owners'[i] \in EntryType /\ \A j \in DOMAIN owners \ {i} : owners'[j] = owners[j]
  BY <1>1, <1>2, <1>3 DEF EntryType
<1>5. TableOK'
  BY <1>1, <1>3, <1>4 DEF TableOK
<1>6. TypeOK'
  BY <1>1, <1>2, <1>4 DEF TypeOK, EntryType
<1>7. Placed'
  BY <1>1, <1>2 DEF Placed, Resting, Owners
<1>8. ListsOK'
  BY <1>1 DEF ListsOK
<1>9. \A p \in Owners : Due(p)' = IF p = o THEN held'[o] ELSE Due(p)
  BY <1>1, <1>2 DEF Due, Waiting, At
<1>10. At({"store"})' = At({"store"})
  BY <1>1 DEF At
<1>11. EntriesOnce'
  BY <1>4 DEF EntriesOnce
<1>12. EntriesListed'
  BY <1>2, <1>4, <1>9 DEF EntriesListed
<1>13. EntriesOK'
  BY <1>1, <1>2, <1>4, <1>9, <1>10, ResourceAssumption DEF EntriesOK, EntriesOnce
<1>14. FirstOK'
  BY <1>1, <1>2, <1>3, <1>4 DEF FirstOK, At, Waiting
<1>15. Counted' = Counted
  BY <1>1, <1>2 DEF Counted, At, TypeOK
<1>16. CountsOK'
  BY <1>1, <1>15 DEF CountsOK, InFlightShared, InFlightExclusive, Signals, At, Waiting
<1>17. WalkOK'
  BY <1>1, <1>4 DEF WalkOK, At, TableSize, LastEntry
<1> QED BY <1>5, <1>6, <1>7, <1>8, <1>11, <1>12, <1>13, <1>14, <1>16, <1>17

(* The owner o gives its access up, and t goes on to x.                       *)
GivesUp(t, o, x) ==
  /\ pc[t] = "idle" /\ held[o] = 1
  /\ held' = [held EXCEPT ![o] = @ - 1]
  /\ x \in {"idle", "semaphore", "event"} /\ pc' = [pc EXCEPT ![t] = x]
  /\ UNCHANGED <<exists, boostAllowed, semaphore, event, waitList, dlock, request, walk>>

(* What such a step leaves as it was.                                         *)
LEMMA GivesUpFacts ==
  ASSUME Inv, NEW t \in Threads, NEW o \in Owners, NEW x, GivesUp(t, o, x)
  PROVE  /\ held' \in [Owners -> Nat] /\ held'[o] = 0 /\ \A p \in Owners \ {o} : held'[p] = held[p]
         /\ pc' \in [Threads -> Pcs] /\ pc'[t] = x /\ \A v \in Threads \ {t} : pc'[v] = pc[v]
         /\ ListsOK' /\ At({"store"})' = At({"store"}) /\ At({"relock"})' = At({"relock"})
         /\ \A S : Waiting(S)' = Waiting(S)
         /\ (x = "event" => At({"event"})' = At({"event"}) \cup {t})
         /\ (x # "event" => At({"event"})' = At({"event"}))
         /\ Counted' = Counted \ {o} /\ o \in Counted
         /\ \A p \in Owners : Due(p)' = IF p = o THEN 0 ELSE Due(p)
<1> USE DEF Inv
<1>1. /\ held' \in [Owners -> Nat] /\ held'[o] = 0 /\ \A p \in Owners \ {o} : held'[p] = held[p]
      /\ pc' \in [Threads -> Pcs] /\ pc'[t] = x /\ \A v \in Threads \ {t} : pc'[v] = pc[v]
  BY DEF GivesUp, TypeOK, Pcs
<1>2. ListsOK'
  BY <1>1, ListsKept DEF GivesUp
<1>3. /\ At({"store"})' = At({"store"}) /\ At({"relock"})' = At({"relock"})
      /\ At({"relock", "store"})' = At({"relock", "store"})
      /\ At({"call", "blocked", "timeout", "boost"})' = At({"call", "blocked", "timeout", "boost"})
      /\ (x = "event" => At({"event"})' = At({"event"}) \cup {t})
      /\ (x # "event" => At({"event"})' = At({"event"}))
  BY <1>1 DEF GivesUp, At
<1>4. \A S : Waiting(S)' = Waiting(S)
  BY <1>3 DEF Waiting, GivesUp
<1>5. o \notin At({"relock", "store"}) /\ \A S : o \notin Waiting(S)
  <2>1. held[o] # 0
    BY DEF GivesUp
  <2>2. o \in Threads => pc[o] \in {"idle", "semaphore", "event"}
    BY <2>1 DEF Placed
  <2> QED BY <2>2 DEF At, Waiting
<1>6. Counted' = Counted \ {o} /\ o \in Counted
  BY <1>1, <1>3, <1>5 DEF Counted, GivesUp
<1>7. \A p \in Owners : Due(p)' = IF p = o THEN 0 ELSE Due(p)
  BY <1>1, <1>4, <1>5 DEF Due
<1> QED BY <1>1, <1>2, <1>3, <1>4, <1>6, <1>7

(* The entry of o is cleared, and entry 0 may be that of a grant.             *)
Clears(i) ==
  /\ DOMAIN owners' = DOMAIN owners
  /\ \A j \in DOMAIN owners :
       \/ j # i /\ owners'[j] = owners[j] /\ (owners[j].thread # Granted \/ exclusive')
       \/ j = i /\ owners'[j] = Free
       \/ /\ j = 0 /\ owners'[j] = Entry(Granted, 1) /\ exclusive'
          /\ j = i \/ owners[j].thread = NoOwner
  /\ TableOK'

(* The table keeps one entry for each of the others.                          *)
LEMMA ClearsKeeps ==
  ASSUME Inv, NEW i \in DOMAIN owners, NEW o \in Owners, owners[i].thread = o, Clears(i),
         \A p \in Owners : Due(p)' = IF p = o THEN 0 ELSE Due(p),
         At({"store"})' = At({"store"})
  PROVE  EntriesOK' /\ EntriesOnce' /\ EntriesListed'
<1> USE DEF Inv
<1>1. /\ DOMAIN owners' = DOMAIN owners
      /\ \A j \in DOMAIN owners :
           \/ j # i /\ owners'[j] = owners[j] /\ (owners[j].thread # Granted \/ exclusive')
           \/ j = i /\ owners'[j].thread = NoOwner /\ owners'[j].count = 0
           \/ /\ j = 0 /\ owners'[j].thread = Granted /\ owners'[j].count = 1 /\ exclusive'
              /\ j = i \/ owners[j].thread = NoOwner
  BY DEF Clears, Free, Entry
<1>2. NoOwner \notin Owners /\ Granted \notin Owners /\ NoOwner # Granted
  BY ResourceAssumption
<1>3. \A j \in DOMAIN owners : owners[j].thread = o => j = i
  BY DEF EntriesOnce
<1>4. EntriesOK'
  BY <1>1, <1>2, <1>3 DEF EntriesOK
<1>5. EntriesOnce'
  BY <1>1, <1>2 DEF EntriesOnce
<1>6. EntriesListed'
  BY <1>1, <1>2 DEF EntriesListed
<1> QED BY <1>4, <1>5, <1>6

(* A walk goes on over a table of the same size.                              *)
LEMMA WalkDomain ==
  ASSUME TypeOK, WalkOK, DOMAIN owners' = DOMAIN owners, UNCHANGED walk,
         \A v \in Threads : pc'[v] = pc[v] \/ pc'[v] \notin {"boost", "dead"}
  PROVE  WalkOK'
<1>1. TableSize' = TableSize
  BY DEF TableSize, LastEntry
<1> QED BY <1>1 DEF WalkOK, At, TypeOK

(* The table without the entry of o.                                          *)
LEMMA ClearedFacts ==
  ASSUME TableOK, NEW i \in DOMAIN owners
  PROVE  /\ DOMAIN Cleared(i) = DOMAIN owners /\ Cleared(i)[i] = Free
         /\ \A j \in DOMAIN owners \ {i} : Cleared(i)[j] = owners[j]
         /\ owners' = Cleared(i) => TableOK'
         /\ owners' = [Cleared(i) EXCEPT ![0] = Entry(Granted, 1)] =>
              /\ TableOK' /\ DOMAIN owners' = DOMAIN owners /\ owners'[0] = Entry(Granted, 1)
              /\ \A j \in DOMAIN owners \ {0} : owners'[j] = Cleared(i)[j]
<1>1. /\ LastEntry \in Nat \ {0} /\ DOMAIN owners = 0..LastEntry
      /\ owners \in [0..LastEntry -> EntryType]
  BY TableFacts
<1>2. Free \in EntryType /\ Entry(Granted, 1) \in EntryType
  BY DEF Free, Entry, EntryType
<1>3. /\ Cleared(i) \in [0..LastEntry -> EntryType] /\ DOMAIN Cleared(i) = DOMAIN owners
      /\ Cleared(i)[i] = Free /\ \A j \in DOMAIN owners \ {i} : Cleared(i)[j] = owners[j]
  BY <1>1, <1>2 DEF Cleared
<1>4. owners' = Cleared(i) => TableOK'
  BY <1>1, <1>3 DEF TableOK
<1>5. ASSUME owners' = [Cleared(i) EXCEPT ![0] = Entry(Granted, 1)]
      PROVE  /\ TableOK' /\ DOMAIN owners' = DOMAIN owners /\ owners'[0] = Entry(Granted, 1)
             /\ \A j \in DOMAIN owners \ {0} : owners'[j] = Cleared(i)[j]
  <2>1. owners' \in [0..LastEntry -> EntryType]
    BY <1>2, <1>3, <1>5
  <2>2. TableOK'
    BY <1>1, <2>1 DEF TableOK
  <2> QED BY <1>1, <1>3, <1>5, <2>2
<1> QED BY <1>3, <1>4, <1>5

(* The last owner, or one of several, goes; nobody is granted access.         *)
LEMMA ReleasePlainInv ==
  ASSUME Inv, NEW t \in Threads, pc[t] = "idle", NEW o \in Owners, held[o] = 1,
         held' = [held EXCEPT ![o] = @ - 1], Proceeds,
         NEW i \in DOMAIN owners, owners[i].thread = o, owners' = Cleared(i),
         active' = active - 1, exclusive' = FALSE,
         active = 1 => exclusiveWaiters = 0 /\ sharedWaiters = 0,
         sharedWaiters # 0 => exclusiveWaiters # 0,
         UNCHANGED <<sharedWaiters, exclusiveWaiters, pc, number>>
  PROVE  Inv'
<1> USE DEF Inv
<1>1. GivesUp(t, o, "idle")
  BY DEF GivesUp, Proceeds, TypeOK
<1>2. /\ held' \in [Owners -> Nat] /\ held'[o] = 0 /\ \A p \in Owners \ {o} : held'[p] = held[p]
      /\ ListsOK' /\ At({"store"})' = At({"store"}) /\ At({"relock"})' = At({"relock"})
      /\ (\A S : Waiting(S)' = Waiting(S)) /\ At({"event"})' = At({"event"})
      /\ Counted' = Counted \ {o} /\ o \in Counted
      /\ \A p \in Owners : Due(p)' = IF p = o THEN 0 ELSE Due(p)
  BY <1>1, GivesUpFacts
<1>3. UNCHANGED <<exists, boostAllowed, semaphore, event, waitList, dlock, request, walk>>
  BY DEF Proceeds
<1>4. o # Granted /\ o # NoOwner /\ 0 \in DOMAIN owners
  BY ResourceAssumption, TableFacts
<1>5. ~event /\ At({"event"}) = {} /\ At({"store"}) = {} /\ owners[0].thread # Granted
  <2>1. CASE exclusive
    <3>1. NoGrants /\ owners[0].thread = o /\ \A u \in Threads : pc[u] \notin {"relock", "store"}
      BY <2>1, ExclusiveAlone
    <3> QED BY <1>4, <3>1 DEF NoGrants, At
  <2>2. CASE ~exclusive
    BY <1>4, <2>2 DEF FirstOK, EntriesOK
  <2> QED BY <2>1, <2>2
<1>6. \A j \in DOMAIN owners : owners[j].thread # Granted
  BY <1>5 DEF EntriesOK
<1>7. Clears(i)
  BY <1>6, ClearedFacts DEF Clears
<1>8. TableOK' /\ EntriesOK' /\ EntriesOnce' /\ EntriesListed'
  BY <1>2, <1>7, ClearsKeeps DEF Clears
<1>9. /\ 0 <= active' /\ active' \in Nat
      /\ active' = Cardinality(Counted') + InFlightShared' + InFlightExclusive'
  <2>1. InFlightShared' = InFlightShared /\ InFlightExclusive' = InFlightExclusive
    BY <1>2, <1>3 DEF InFlightShared, InFlightExclusive, Signals
  <2>2. active = Cardinality(Counted) + InFlightShared + InFlightExclusive
    BY DEF CountsOK
  <2>3. InFlightShared \in Nat /\ InFlightExclusive \in Nat /\ Cardinality(Counted) \in Nat
    BY CountTypes, FlightTypes
  <2>4. Counted \subseteq Owners /\ Counted' \subseteq Owners
    BY <1>2 DEF Counted, At, Owners
  <2>5. Cardinality(Counted') = Cardinality(Counted) - 1 /\ Cardinality(Counted') \in Nat
    BY <1>2, <2>4, OneMore, Finite
  <2> QED BY <2>1, <2>2, <2>3, <2>5
<1>10. TypeOK'
  <2>1. \A j \in DOMAIN owners' :
          owners'[j] \in [thread: Owners \cup {NoOwner, Granted}, count: Nat]
    BY <1>8 DEF TableOK, EntryType
  <2> QED BY <1>2, <1>3, <1>9, <2>1 DEF TypeOK
<1>11. Placed'
  BY <1>2, <1>3 DEF Placed, Resting, Owners
<1>12. WalkOK'
  BY <1>3, <1>7, WalkDomain DEF Clears
<1>13. FirstOK'
  <2>1. \A u \in Waiting({"shared"}) : owners'[0].thread # u
    <3>1. owners'[0] = owners[0] \/ owners'[0] = Free
      BY <1>4, ClearedFacts
    <3>2. \A u \in Waiting({"shared"}) : u # NoOwner
      BY ResourceAssumption DEF Waiting, At, Owners
    <3> QED BY <3>1, <3>2 DEF FirstOK, Free, Entry
  <2> QED BY <1>2, <1>3, <1>5, <2>1 DEF FirstOK
<1>14. CountsOK'
  <2>1. InFlightShared' = InFlightShared /\ InFlightExclusive' = InFlightExclusive
    BY <1>2, <1>3 DEF InFlightShared, InFlightExclusive, Signals
  <2>2. active' = 0 => active = 1
    BY DEF TypeOK
  <2>3. exists => exists'
    BY <1>3
  <2>4. exists
    <3>1. active # 0
      BY Nobody
    <3> QED BY <3>1 DEF CountsOK
  <2>5. active' = 0 => sharedWaiters' = 0 /\ exclusiveWaiters' = 0
    BY <2>2
  <2> QED BY <1>2, <1>9, <2>1, <2>3, <2>4, <2>5 DEF CountsOK
<1> QED BY <1>2, <1>8, <1>10, <1>11, <1>12, <1>13, <1>14

(* The only owner goes, and one exclusive waiter is granted access.           *)
LEMMA GrantExclusiveInv ==
  ASSUME Inv, NEW t \in Threads, pc[t] = "idle", NEW o \in Owners, held[o] = 1,
         held' = [held EXCEPT ![o] = @ - 1], Proceeds, active = 1,
         NEW i \in DOMAIN owners, owners[i].thread = o, i = 0 \/ owners[0].thread = NoOwner,
         IsExclusiveWaiting, GrantExclusive(t, Cleared(i))
  PROVE  Inv'
<1> USE DEF Inv
<1>1. /\ owners' = [Cleared(i) EXCEPT ![0] = Entry(Granted, 1)]
      /\ active' = 1 /\ exclusive' = TRUE /\ exclusiveWaiters' = exclusiveWaiters - 1
      /\ pc' = [pc EXCEPT ![t] = "event"]
      /\ UNCHANGED <<sharedWaiters, number, exists, boostAllowed, semaphore, event, waitList, dlock,
                     request, walk>>
  BY DEF GrantExclusive, Proceeds
<1>2. GivesUp(t, o, "event")
  BY <1>1 DEF GivesUp
<1>3. /\ held' \in [Owners -> Nat] /\ held'[o] = 0 /\ \A p \in Owners \ {o} : held'[p] = held[p]
      /\ pc' \in [Threads -> Pcs] /\ pc'[t] = "event" /\ \A v \in Threads \ {t} : pc'[v] = pc[v]
      /\ ListsOK' /\ At({"store"})' = At({"store"}) /\ At({"relock"})' = At({"relock"})
      /\ (\A S : Waiting(S)' = Waiting(S)) /\ At({"event"})' = At({"event"}) \cup {t}
      /\ Counted' = Counted \ {o} /\ o \in Counted
      /\ \A p \in Owners : Due(p)' = IF p = o THEN 0 ELSE Due(p)
  BY <1>2, GivesUpFacts
<1>4. NoGrants /\ Counted = {o}
  BY <1>3, Alone
<1>5. Counted' = {} /\ At({"event"})' = {t}
  BY <1>3, <1>4 DEF NoGrants
<1>6. At({"store"})' = {} /\ At({"relock"})' = {} /\ \A p \in Owners : held'[p] = 0
  BY <1>3, <1>5 DEF Counted, At, TypeOK
<1>7. 0 \in DOMAIN owners /\ Granted # NoOwner /\ Granted \notin Owners
  BY ResourceAssumption, TableFacts
<1>8. /\ TableOK' /\ DOMAIN owners' = DOMAIN owners /\ owners'[0] = Entry(Granted, 1)
      /\ \A j \in DOMAIN owners \ {0} : owners'[j] = Cleared(i)[j]
      /\ Cleared(i)[i] = Free /\ \A j \in DOMAIN owners \ {i} : Cleared(i)[j] = owners[j]
  BY <1>1, ClearedFacts
<1>9. Clears(i)
  BY <1>1, <1>8 DEF Clears
<1>10. EntriesOK' /\ EntriesOnce' /\ EntriesListed'
  BY <1>3, <1>9, ClearsKeeps
<1>11. /\ exclusiveWaiters \in Nat /\ exclusiveWaiters' \in Nat
       /\ exclusiveWaiters' + 1 = exclusiveWaiters
  <2>1. exclusiveWaiters \in Nat /\ exclusiveWaiters # 0
    BY DEF TypeOK, IsExclusiveWaiting
  <2>2. exclusiveWaiters' = exclusiveWaiters - 1
    BY <1>1
  <2> QED BY <2>1, <2>2
<1>12. TypeOK'
  <2>1. \A j \in DOMAIN owners' :
          owners'[j] \in [thread: Owners \cup {NoOwner, Granted}, count: Nat]
    BY <1>8 DEF TableOK, EntryType
  <2> QED BY <1>1, <1>3, <1>11, <2>1 DEF TypeOK
<1>13. Placed'
  BY <1>1, <1>3 DEF Placed, Resting, Owners
<1>14. WalkOK'
  BY <1>1, <1>3, <1>8, WalkDomain
<1>15. FirstOK'
  <2>1. owners'[0].thread = Granted
    BY <1>8 DEF Entry
  <2>2. \A u \in Waiting({"shared"}) : u # Granted
    BY <1>7 DEF Waiting, At, Owners
  <2>3. \A u \in Waiting({"shared"})' : owners'[0].thread # u
    BY <1>3, <2>1, <2>2
  <2>4. \A p \in Owners : ~(held'[p] > 0)
    BY <1>6
  <2> QED BY <1>1, <1>6, <1>7, <2>1, <2>3, <2>4 DEF FirstOK
<1>16. CountsOK'
  <2>1. InFlightShared' = 0 /\ InFlightShared = 0 /\ InFlightExclusive = 0 /\ InFlightExclusive' = 1
        /\ Cardinality(Counted') = 0
    <3>1. Cardinality({}) = 0 /\ Cardinality({t}) = 1
      BY FS_EmptySet, FS_Singleton
    <3>2. Signals' = {} /\ Signals = {} /\ semaphore = 0 /\ semaphore' = 0 /\ ~event /\ ~event'
          /\ At({"event"}) = {}
      BY <1>1, <1>4 DEF NoGrants, Signals
    <3> QED BY <1>5, <3>1, <3>2 DEF InFlightShared, InFlightExclusive
  <2>2. Cardinality(Waiting({"exclusive"})') = exclusiveWaiters' + InFlightExclusive'
    <3>1. Cardinality(Waiting({"exclusive"})) = exclusiveWaiters + InFlightExclusive
      BY DEF CountsOK
    <3>2. Waiting({"exclusive"})' = Waiting({"exclusive"})
      BY <1>3
    <3>3. exclusiveWaiters + InFlightExclusive = exclusiveWaiters' + InFlightExclusive'
      <4>1. \A a, b \in Nat : a + 1 = b => b + 0 = a + 1
        OBVIOUS
      <4> QED BY <1>11, <2>1, <4>1
    <3> QED BY <3>1, <3>2, <3>3
  <2>3. Cardinality(Waiting({"shared", "late"})') = sharedWaiters' + InFlightShared'
    BY <1>1, <1>3, <2>1 DEF CountsOK
  <2>4. active' = Cardinality(Counted') + InFlightShared' + InFlightExclusive' /\ active' # 0
    BY <1>1, <2>1
  <2>5. exists'
    BY <1>1 DEF CountsOK
  <2> QED BY <1>1, <1>6, <2>1, <2>2, <2>3, <2>4, <2>5 DEF CountsOK
<1> QED BY <1>3, <1>8, <1>10, <1>12, <1>13, <1>14, <1>15, <1>16

(* With nothing in flight, all shared waiters are granted access, and t is to *)
(* signal them.                                                               *)
LEMMA GrantSharedFacts ==
  ASSUME Inv, NoGrants, NEW t \in Threads, pc[t] = "idle", IsSharedWaiting,
         number' = [number EXCEPT ![t] = sharedWaiters], UNCHANGED semaphore
  PROVE  /\ sharedWaiters \in Nat /\ sharedWaiters > 0 /\ sharedWaiters <= Cardinality(Threads)
         /\ number' \in [Threads -> Nat] /\ number'[t] = sharedWaiters
         /\ \A v \in Threads \ {t} : number'[v] = 0
         /\ InFlightShared' = sharedWaiters /\ InFlightShared = 0 /\ InFlightExclusive = 0
<1> USE DEF Inv
<1>1. Cardinality({}) = 0
  BY FS_EmptySet
<1>2. InFlightShared = 0 /\ InFlightExclusive = 0 /\ Cardinality(Signals) = 0 /\ semaphore = 0
  BY <1>1 DEF NoGrants, InFlightShared, InFlightExclusive
<1>3. sharedWaiters \in Nat /\ sharedWaiters > 0
  BY DEF TypeOK, IsSharedWaiting
<1>4. sharedWaiters <= Cardinality(Threads)
  <2>1. Cardinality(Waiting({"shared", "late"})) = sharedWaiters + InFlightShared
    BY DEF CountsOK
  <2>2. Waiting({"shared", "late"}) \in SUBSET Threads
    BY DEF Waiting, At
  <2>3. Cardinality(Waiting({"shared", "late"})) <= Cardinality(Threads)
    BY <2>2, FS_Subset, ResourceAssumption
  <2> QED BY <1>2, <1>3, <2>1, <2>3
<1>5. /\ number' \in [Threads -> Nat] /\ number'[t] = sharedWaiters
      /\ \A v \in Threads \ {t} : number'[v] = 0
  BY <1>3 DEF TypeOK, NoGrants
<1>6. number[t] = 0
  BY DEF NoGrants
<1>7. Cardinality(Signals') = Cardinality(Signals) + sharedWaiters
  <2>1. Signals' = SignalsIn(number') /\ Signals = SignalsIn(number)
    BY DEF Signals, SignalsIn
  <2>2. \A v \in Threads \ {t} : number'[v] = number[v]
    BY DEF TypeOK
  <2>3. number \in [Threads -> Nat]
    BY DEF TypeOK
  <2> QED BY <1>4, <1>5, <1>6, <2>1, <2>2, <2>3, SignalsOf
<1>8. InFlightShared' = sharedWaiters
  BY <1>2, <1>3, <1>7 DEF InFlightShared
<1> QED BY <1>2, <1>3, <1>4, <1>5, <1>8

(* The exclusive owner goes, and all shared waiters are granted access.       *)
LEMMA ReleaseGrantSharedInv ==
  ASSUME Inv, NEW t \in Threads, pc[t] = "idle", NEW o \in Owners, held[o] = 1,
         held' = [held EXCEPT ![o] = @ - 1], Proceeds, exclusive,
         IsSharedWaiting, owners' = Cleared(0), GrantShared(t, 0)
  PROVE  Inv'
<1> USE DEF Inv
<1>1. /\ active' = 0 + sharedWaiters /\ sharedWaiters' = 0 /\ exclusive' = FALSE
      /\ number' = [number EXCEPT ![t] = sharedWaiters]
      /\ pc' = [pc EXCEPT ![t] = "semaphore"]
      /\ UNCHANGED <<exclusiveWaiters, exists, boostAllowed, semaphore, event, waitList, dlock,
                     request, walk>>
  BY DEF GrantShared, Proceeds
<1>2. GivesUp(t, o, "semaphore")
  BY <1>1 DEF GivesUp
<1>3. /\ held' \in [Owners -> Nat] /\ held'[o] = 0 /\ \A p \in Owners \ {o} : held'[p] = held[p]
      /\ pc' \in [Threads -> Pcs] /\ pc'[t] = "semaphore" /\ \A v \in Threads \ {t} : pc'[v] = pc[v]
      /\ ListsOK' /\ At({"store"})' = At({"store"}) /\ At({"relock"})' = At({"relock"})
      /\ (\A S : Waiting(S)' = Waiting(S)) /\ At({"event"})' = At({"event"})
      /\ Counted' = Counted \ {o} /\ o \in Counted
      /\ \A p \in Owners : Due(p)' = IF p = o THEN 0 ELSE Due(p)
  BY <1>2, GivesUpFacts
<1>4. NoGrants /\ owners[0].thread = o /\ active = 1 /\ Counted = {o}
  <2>1. NoGrants /\ owners[0].thread = o /\ active = 1
    BY ExclusiveAlone
  <2> QED BY <1>3, <2>1, Alone
<1>5. /\ sharedWaiters \in Nat /\ sharedWaiters > 0 /\ sharedWaiters <= Cardinality(Threads)
      /\ number' \in [Threads -> Nat] /\ number'[t] = sharedWaiters
      /\ \A v \in Threads \ {t} : number'[v] = 0
      /\ InFlightShared' = sharedWaiters /\ InFlightShared = 0 /\ InFlightExclusive = 0
  BY <1>1, <1>4, GrantSharedFacts
<1>6. 0 \in DOMAIN owners /\ o # Granted /\ NoOwner \notin Owners
  BY ResourceAssumption, TableFacts
<1>7. /\ DOMAIN owners' = DOMAIN owners /\ owners'[0] = Free /\ TableOK'
      /\ \A j \in DOMAIN owners \ {0} : owners'[j] = owners[j]
  BY <1>6, ClearedFacts
<1>8. \A j \in DOMAIN owners : owners[j].thread # Granted
  BY <1>4, <1>6 DEF EntriesOK
<1>9. Clears(0)
  BY <1>7, <1>8 DEF Clears
<1>10. EntriesOK' /\ EntriesOnce' /\ EntriesListed'
  BY <1>3, <1>4, <1>6, <1>9, ClearsKeeps
<1>11. active' = sharedWaiters
  BY <1>1, <1>5
<1>12. TypeOK'
  <2>1. \A j \in DOMAIN owners' :
          owners'[j] \in [thread: Owners \cup {NoOwner, Granted}, count: Nat]
    BY <1>7 DEF TableOK, EntryType
  <2> QED BY <1>1, <1>3, <1>5, <1>11, <2>1 DEF TypeOK
<1>13. Placed'
  <2>1. \A v \in Threads \ {t} : number[v] = 0
    BY <1>4 DEF NoGrants
  <2> QED BY <1>1, <1>3, <1>5, <2>1 DEF Placed, Resting, Owners
<1>14. WalkOK'
  BY <1>1, <1>3, <1>7, WalkDomain
<1>15. At({"store"})' = {} /\ At({"event"})' = {} /\ ~event'
  <2>1. At({"store"}) = {}
    <3>1. \A u \in Threads : pc[u] # "store"
      BY ExclusiveAlone
    <3> QED BY <3>1 DEF At
  <2> QED BY <1>1, <1>3, <1>4, <2>1 DEF NoGrants
<1>16. FirstOK'
  <2>1. owners'[0].thread = NoOwner
    BY <1>7 DEF Free, Entry
  <2>2. \A u \in Waiting({"shared"})' : u # NoOwner
    BY <1>6 DEF Waiting, At, Owners
  <2> QED BY <1>1, <1>15, <2>1, <2>2 DEF FirstOK
<1>17. CountsOK'
  <2>1. Cardinality(Counted') = 0 /\ InFlightExclusive' = 0
    <3>1. Cardinality({}) = 0
      BY FS_EmptySet
    <3>2. Counted' = {}
      BY <1>3, <1>4
    <3> QED BY <1>15, <3>1, <3>2 DEF InFlightExclusive
  <2>2. Cardinality(Waiting({"exclusive"})') = exclusiveWaiters' + InFlightExclusive'
    BY <1>1, <1>3, <1>5, <2>1 DEF CountsOK
  <2>3. Cardinality(Waiting({"shared", "late"})') = sharedWaiters' + InFlightShared'
    <3>1. Cardinality(Waiting({"shared", "late"})) = sharedWaiters + InFlightShared
      BY DEF CountsOK
    <3>2. Waiting({"shared", "late"})' = Waiting({"shared", "late"})
      BY <1>3
    <3>3. sharedWaiters + InFlightShared = sharedWaiters' + InFlightShared'
      <4>1. \A a \in Nat : a + 0 = 0 + a
        OBVIOUS
      <4> QED BY <1>1, <1>5, <4>1
    <3> QED BY <3>1, <3>2, <3>3
  <2>4. active' = Cardinality(Counted') + InFlightShared' + InFlightExclusive' /\ active' # 0
    BY <1>5, <1>11, <2>1
  <2>5. exists'
    BY <1>1, <1>4 DEF CountsOK
  <2> QED BY <1>1, <2>2, <2>3, <2>4, <2>5 DEF CountsOK
<1> QED BY <1>3, <1>7, <1>10, <1>12, <1>13, <1>14, <1>16, <1>17

(* A release of exclusive access ...                                          *)
LEMMA ReleaseExclusiveInv ==
  ASSUME Inv, NEW t \in Threads, pc[t] = "idle", NEW o \in Owners, held[o] > 0,
         held' = [held EXCEPT ![o] = @ - 1], Proceeds, ReleaseExclusive(t)
  PROVE  Inv'
<1>1. exclusive
  BY DEF ReleaseExclusive
<1>2. active = 1 /\ owners[0].thread = o /\ owners[0].count = held[o] /\ TableOK
  BY <1>1, ExclusiveAlone DEF Inv
<1>3. 0 \in DOMAIN owners
  BY <1>2, TableFacts
<1>4. CASE ReleaseRecursive(0)
  BY <1>2, <1>3, <1>4, ReleaseRecursiveInv
<1>5. CASE owners[0].count = 1 /\ IsSharedWaiting /\ owners' = Cleared(0) /\ GrantShared(t, 0)
  BY <1>1, <1>2, <1>5, ReleaseGrantSharedInv
<1>6. CASE owners[0].count = 1 /\ IsExclusiveWaiting /\ GrantExclusive(t, owners)
  <2>1. [Cleared(0) EXCEPT ![0] = Entry(Granted, 1)] = [owners EXCEPT ![0] = Entry(Granted, 1)]
    BY <1>2, TableFacts DEF Cleared
  <2>2. GrantExclusive(t, Cleared(0))
    BY <1>6, <2>1 DEF GrantExclusive
  <2> QED BY <1>2, <1>3, <1>6, <2>2, GrantExclusiveInv
<1>7. CASE /\ owners[0].count = 1 /\ ~IsSharedWaiting /\ ~IsExclusiveWaiting
           /\ owners' = Cleared(0) /\ active' = 0 /\ exclusive' = FALSE
           /\ UNCHANGED <<sharedWaiters, exclusiveWaiters, pc, number>>
  <2>1. active' = active - 1 /\ held[o] = 1
    BY <1>2, <1>7
  <2>2. sharedWaiters = 0 /\ exclusiveWaiters = 0
    BY <1>7 DEF IsSharedWaiting, IsExclusiveWaiting
  <2> QED BY <1>2, <1>3, <1>7, <2>1, <2>2, ReleasePlainInv
<1> QED BY <1>4, <1>5, <1>6, <1>7 DEF ReleaseExclusive

(* ... of shared access, which its owner may not be the one to give up.       *)
LEMMA ReleaseSharedInv ==
  ASSUME Inv, NEW t \in Threads, pc[t] = "idle", NEW o \in Owners, held[o] > 0,
         held' = [held EXCEPT ![o] = @ - 1], Proceeds, ReleaseShared(t, o)
  PROVE  Inv'
<1>1. ~exclusive /\ exclusive \in BOOLEAN /\ TableOK /\ EntriesOnce
  BY DEF ReleaseShared, Inv, TypeOK
<1>2. PICK i \in DOMAIN owners : owners[i].thread = o /\ owners[i].count = held[o]
  BY HasEntry
<1>3. Slot(o) = i
  BY <1>1, <1>2, Found
<1>4. CASE ReleaseRecursive(i)
  BY <1>2, <1>4, ReleaseRecursiveInv
<1>5. CASE owners[i].count = 1 /\ active = 1 /\ IsExclusiveWaiting /\ GrantExclusive(t, Cleared(i))
  <2>1. o \in Counted
    BY DEF Counted
  <2>2. Counted = {o}
    BY <1>5, <2>1, Alone
  <2>3. 0 \in DOMAIN owners
    BY <1>1, TableFacts
  <2>4. i = 0 \/ owners[0].thread = NoOwner
    <3>1. owners[0].thread \in Owners \cup {NoOwner, Granted}
      BY <1>1, <2>3, TableFacts DEF EntryType
    <3>2. owners[0].thread # Granted /\ At({"store"}) = {}
      BY <1>1, <2>3 DEF Inv, EntriesOK, FirstOK
    <3>3. ASSUME owners[0].thread \in Owners PROVE i = 0
      <4> DEFINE p == owners[0].thread
      <4>1. Due(p) > 0 /\ p \notin Waiting({"shared"})
        BY <2>3, <3>2, <3>3 DEF Inv, EntriesOK, FirstOK
      <4>2. p \in Counted
        BY <3>3, <4>1 DEF Due, Counted
      <4> QED BY <1>1, <1>2, <2>2, <2>3, <4>2 DEF EntriesOnce
    <3> QED BY <3>1, <3>2, <3>3
  <2> QED BY <1>2, <1>5, <2>4, GrantExclusiveInv
<1>6. CASE /\ owners[i].count = 1 /\ ~(active = 1 /\ IsExclusiveWaiting)
           /\ owners' = Cleared(i) /\ active' = active - 1
           /\ UNCHANGED <<exclusive, sharedWaiters, exclusiveWaiters, pc, number>>
  <2>1. sharedWaiters # 0 => exclusiveWaiters # 0
    BY <1>1 DEF Inv, CountsOK
  <2>2. active = 1 => exclusiveWaiters = 0 /\ sharedWaiters = 0
    BY <1>6, <2>1 DEF IsExclusiveWaiting
  <2>3. exclusive' = FALSE /\ held[o] = 1
    BY <1>1, <1>2, <1>6
  <2> QED BY <1>2, <1>6, <2>1, <2>2, <2>3, ReleasePlainInv
<1> QED BY <1>3, <1>4, <1>5, <1>6 DEF ReleaseShared

(* Every release.                                                             *)
LEMMA ReleasesInv ==
  ASSUME Inv, NEW t \in Threads, NEW o \in Owners,
         ExReleaseResourceLite(t) \/ ExReleaseResourceForThreadLite(t, o)
  PROVE  Inv'
<1>1. CASE ExReleaseResourceLite(t)
  <2>1. t \in Owners
    BY DEF Owners
  <2> QED BY <1>1, <2>1, ReleaseExclusiveInv, ReleaseSharedInv DEF ExReleaseResourceLite
<1>2. CASE ExReleaseResourceForThreadLite(t, o)
  BY <1>2, ReleaseExclusiveInv, ReleaseSharedInv DEF ExReleaseResourceForThreadLite
<1> QED BY <1>1, <1>2

(* Ownership passes to a pointer: its entry takes the place of the owner's.   *)
LEMMA ExSetResourceOwnerPointerInv ==
  ASSUME Inv, NEW t \in Threads, NEW p \in Pointers, ExSetResourceOwnerPointer(t, p)
  PROVE  Inv'
<1> USE DEF Inv
<1>1. /\ pc[t] = "idle" /\ held[t] > 0 /\ held[p] = 0
      /\ owners' = [owners EXCEPT ![IF exclusive THEN 0 ELSE Slot(t)].thread = p]
      /\ held' = [held EXCEPT ![t] = 0, ![p] = held[t]]
      /\ UNCHANGED <<exists, boostAllowed, semaphore, event, waitList, dlock, pc, request, number,
                     walk, active, exclusive, sharedWaiters, exclusiveWaiters>>
  BY DEF ExSetResourceOwnerPointer, Returns
<1>2. t \in Owners /\ p \in Owners /\ t # p /\ p \notin Threads /\ p # NoOwner /\ p # Granted
      /\ t # Granted
  BY ResourceAssumption DEF Owners
<1>3. /\ held[t] \in Nat /\ held' \in [Owners -> Nat] /\ held'[t] = 0 /\ held'[p] = held[t]
      /\ \A o \in Owners \ {t, p} : held'[o] = held[o]
  BY <1>1, <1>2 DEF TypeOK
<1>4. /\ LastEntry \in Nat \ {0} /\ DOMAIN owners = 0..LastEntry /\ 0 \in DOMAIN owners
      /\ owners \in [0..LastEntry -> EntryType]
  BY TableFacts
<1>5. PICK i \in DOMAIN owners : owners[i].thread = t /\ owners[i].count = held[t]
                                 /\ (exclusive => i = 0) /\ (~exclusive => i = Slot(t))
  <2>1. PICK i \in DOMAIN owners : owners[i].thread = t /\ owners[i].count = held[t]
    BY <1>1, <1>2, HasEntry
  <2>2. i = Slot(t)
    BY <1>2, <2>1, Found
  <2>3. exclusive => owners[0].thread = t
    BY <1>1, <1>2 DEF FirstOK
  <2>4. exclusive => i = 0
    BY <1>2, <1>4, <2>1, <2>3 DEF EntriesOnce
  <2> QED BY <2>1, <2>2, <2>4
<1>6. owners' = [owners EXCEPT ![i].thread = p]
  BY <1>1, <1>5
<1>7. /\ DOMAIN owners' = DOMAIN owners /\ owners'[i].thread = p /\ owners'[i].count = held[t]
      /\ owners'[i] \in EntryType /\ \A j \in DOMAIN owners \ {i} : owners'[j] = owners[j]
  BY <1>2, <1>4, <1>5, <1>6 DEF EntryType
<1>8. TableOK'
  BY <1>4, <1>6, <1>7 DEF TableOK
<1>9. TypeOK'
  BY <1>1, <1>3, <1>7 DEF TypeOK, EntryType
<1>10. Placed'
  BY <1>1, <1>2, <1>3 DEF Placed, Resting, Owners
<1>11. ListsOK'
  BY <1>1 DEF ListsOK
<1>12. \A S : Waiting(S)' = Waiting(S) /\ t \notin Waiting(S) /\ p \notin Waiting(S)
  BY <1>1, <1>2 DEF Waiting, At
<1>13. /\ Due(t)' = 0 /\ Due(p)' = held[t] /\ Due(p) = 0 /\ Due(t) = held[t]
       /\ \A o \in Owners \ {t, p} : Due(o)' = Due(o)
  BY <1>1, <1>2, <1>3, <1>12 DEF Due
<1>14. /\ At({"store"})' = At({"store"}) /\ At({"event"})' = At({"event"}) /\ p \notin At({"store"})
       /\ At({"relock"})' = At({"relock"}) /\ At({"relock", "store"})' = At({"relock", "store"})
       /\ t \notin At({"relock", "store"}) /\ t \notin At({"store"})
  BY <1>1, <1>2 DEF At
<1>15. \A j \in DOMAIN owners : owners[j].thread # p /\ (owners[j].thread = t => j = i)
  BY <1>2, <1>5, <1>13, <1>14 DEF EntriesOK, EntriesOnce
<1>16. EntriesOnce'
  BY <1>7, <1>15 DEF EntriesOnce
<1>17. EntriesListed'
  <2> SUFFICES ASSUME NEW o \in Owners, Due(o)' > 0
               PROVE  \E j \in DOMAIN owners' : owners'[j].thread = o
    BY DEF EntriesListed
  <2>1. CASE o = p
    BY <1>7, <2>1
  <2>2. CASE o # p
    <3>1. o # t
      BY <1>13
    <3>2. PICK j \in DOMAIN owners : owners[j].thread = o
      BY <1>13, <2>2, <3>1 DEF EntriesListed
    <3> QED BY <1>5, <1>7, <3>1, <3>2
  <2> QED BY <2>1, <2>2
<1>18. EntriesOK'
  <2> SUFFICES ASSUME NEW j \in DOMAIN owners'
               PROVE  /\ owners'[j].thread \in Owners =>
                           \/ Due(owners[j].thread)' > 0 /\ owners'[j].count = Due(owners[j].thread)'
                           \/ owners'[j].thread \in At({"store"})' /\ j = 0 /\ owners'[j].count = 1
                      /\ owners'[j].thread = Granted => j = 0 /\ owners'[j].count = 1 /\ exclusive'
                      /\ owners'[j].count = 0 <=> owners'[j].thread = NoOwner
    BY DEF EntriesOK
  <2>1. CASE j = i
    BY <1>1, <1>2, <1>7, <1>13, <2>1
  <2>2. CASE j # i
    <3>1. owners'[j] = owners[j] /\ owners[j].thread \notin {t, p} /\ j \in DOMAIN owners
      BY <1>7, <1>15, <2>2
    <3>2. /\ owners[j].thread \in Owners =>
               \/ Due(owners[j].thread) > 0 /\ owners[j].count = Due(owners[j].thread)
               \/ owners[j].thread \in At({"store"}) /\ j = 0 /\ owners[j].count = 1
          /\ owners[j].thread = Granted => j = 0 /\ owners[j].count = 1 /\ exclusive
          /\ owners[j].count = 0 <=> owners[j].thread = NoOwner
      BY <3>1 DEF EntriesOK
    <3>3. PICK q : q = owners[j].thread
      OBVIOUS
    <3>4. q \in Owners => Due(q)' = Due(q)
      BY <1>13, <3>1, <3>3
    <3>5. q = owners'[j].thread
      BY <3>1, <3>3
    <3>6. Due(owners[j].thread)' = Due(q)'
      BY <3>5
    <3> QED BY <1>1, <1>14, <3>1, <3>2, <3>3, <3>4, <3>5, <3>6
  <2> QED BY <2>1, <2>2
<1>19. FirstOK'
  <2>1. CASE exclusive
    <3>1. /\ NoGrants /\ \A o \in Owners : held[o] > 0 => o = t
          /\ \A u \in Threads : pc[u] \notin {"relock", "store"}
      BY <1>1, <1>2, <2>1, ExclusiveAlone
    <3>2. owners'[0].thread = p /\ At({"store"})' = {} /\ ~event' /\ At({"event"})' = {}
      BY <1>1, <1>5, <1>7, <1>14, <2>1, <3>1 DEF NoGrants, At
    <3>3. \A o \in Owners : held'[o] > 0 => o = p
      BY <1>3, <3>1
    <3> QED BY <1>2, <1>12, <3>2, <3>3 DEF FirstOK
  <2>2. CASE ~exclusive
    <3>1. \A u \in Waiting({"shared"}) : owners'[0].thread # u
      BY <1>4, <1>7, <1>12 DEF FirstOK
    <3> QED BY <1>1, <1>12, <1>14, <2>2, <3>1 DEF FirstOK
  <2> QED BY <2>1, <2>2
<1>20. Cardinality(Counted') = Cardinality(Counted)
  <2>1. t \in Counted /\ p \notin Counted /\ Counted \subseteq Owners
    BY <1>1, <1>2, <1>14 DEF Counted, At, Owners
  <2>2. PICK C : C = Counted \ {t}
    OBVIOUS
  <2>3. Counted' = C \cup {p} /\ p \notin C /\ C \subseteq Owners
    BY <1>2, <1>1, <1>3, <1>14, <2>1, <2>2 DEF Counted
  <2>4. Cardinality(C) = Cardinality(Counted) - 1 /\ Cardinality(Counted) \in Nat
    BY <1>2, <2>1, <2>2, OneMore, Finite
  <2>5. Cardinality(Counted') = Cardinality(C) + 1
    BY <1>2, <2>3, OneMore
  <2> QED BY <2>4, <2>5
<1>21. CountsOK'
  <2>1. InFlightShared' = InFlightShared /\ InFlightExclusive' = InFlightExclusive
    BY <1>1, <1>14 DEF InFlightShared, InFlightExclusive, Signals
  <2> QED BY <1>1, <1>12, <1>14, <1>20, <2>1 DEF CountsOK
<1>22. WalkOK'
  BY <1>1, <1>7, WalkDomain
<1> QED BY <1>8, <1>9, <1>10, <1>11, <1>16, <1>17, <1>18, <1>19, <1>21, <1>22

(* The exclusive owner becomes a shared one and lets the shared waiters in.   *)
LEMMA ExConvertExclusiveToSharedLiteInv ==
  ASSUME Inv, NEW t \in Threads, ExConvertExclusiveToSharedLite(t)
  PROVE  Inv'
<1> USE DEF Inv
<1>1. /\ exists /\ pc[t] = "idle" /\ exclusive /\ owners[0].thread = t /\ exclusive' = FALSE
      /\ UNCHANGED <<exists, boostAllowed, semaphore, event, waitList, dlock, request, walk, owners,
                     held, exclusiveWaiters>>
  BY DEF ExConvertExclusiveToSharedLite, GrantShared, Proceeds, OwnedBy
<1>2. t \in Owners /\ t # Granted /\ 0 \in DOMAIN owners
  BY ResourceAssumption, TableFacts DEF Owners
<1>3. held[t] > 0
  <2>1. t \notin Waiting({"shared"}) /\ t \notin At({"store"})
    BY <1>1 DEF Waiting, At
  <2>2. Due(t) > 0
    BY <1>1, <1>2, <2>1 DEF EntriesOK
  <2> QED BY <2>1, <2>2 DEF Due
<1>4. NoGrants /\ active = 1 /\ \A u \in Threads : pc[u] \notin {"relock", "store"}
  BY <1>1, <1>2, <1>3, ExclusiveAlone
<1>5. PICK x \in {"idle", "semaphore"} :
        /\ pc' = [pc EXCEPT ![t] = x]
        /\ \/ /\ x = "idle" /\ ~IsSharedWaiting
              /\ UNCHANGED <<active, sharedWaiters, number>>
           \/ x = "semaphore" /\ IsSharedWaiting /\ GrantShared(t, active)
  <2>1. CASE IsSharedWaiting /\ GrantShared(t, active)
    BY <2>1 DEF GrantShared
  <2>2. CASE ~IsSharedWaiting /\ UNCHANGED <<active, sharedWaiters, exclusiveWaiters, pc, number>>
    <3>1. pc' = [pc EXCEPT ![t] = "idle"]
      BY <1>1, <2>2 DEF TypeOK
    <3> QED BY <2>2, <3>1
  <2> QED BY <2>1, <2>2 DEF ExConvertExclusiveToSharedLite
<1>6. pc' \in [Threads -> Pcs] /\ pc'[t] = x /\ \A v \in Threads \ {t} : pc'[v] = pc[v]
  BY <1>5 DEF TypeOK, Pcs
<1>7. /\ At({"store"})' = {} /\ At({"event"})' = {} /\ At({"relock"})' = At({"relock"})
      /\ At({"relock", "store"})' = At({"relock", "store"}) /\ \A S : Waiting(S)' = Waiting(S)
  BY <1>1, <1>4, <1>6 DEF At, Waiting, NoGrants
<1>8. At({"store"}) = {} /\ ~event
  BY <1>4 DEF At, NoGrants
<1>9. \A o \in Owners : Due(o)' = Due(o)
  BY <1>1, <1>7 DEF Due
<1>10. TableOK' /\ EntriesOnce' /\ EntriesListed'
  BY <1>1, <1>9 DEF TableOK, EntriesOnce, EntriesListed
<1>11. EntriesOK'
  <2>1. \A j \in DOMAIN owners : owners[j].thread # Granted
    BY <1>1, <1>2 DEF EntriesOK
  <2> QED BY <1>1, <1>7, <1>8, <1>9, <2>1 DEF EntriesOK
<1>12. FirstOK'
  BY <1>1, <1>7, <1>8 DEF FirstOK
<1>13. ListsOK'
  BY <1>1, <1>6, ListsKept
<1>14. WalkOK'
  BY <1>1, <1>6, WalkKept
<1>15. Counted' = Counted
  BY <1>1, <1>7 DEF Counted
<1>16. InFlightExclusive' = 0 /\ InFlightExclusive = 0
  <2>1. Cardinality({}) = 0
    BY FS_EmptySet
  <2> QED BY <1>1, <1>4, <1>7, <2>1 DEF InFlightExclusive, NoGrants
<1>17. CASE x = "idle"
  <2>1. UNCHANGED <<active, sharedWaiters, number>> /\ sharedWaiters = 0
    BY <1>5, <1>17 DEF IsSharedWaiting
  <2>2. TypeOK'
    BY <1>1, <1>6, <2>1 DEF TypeOK
  <2>3. Placed'
    BY <1>1, <1>6, <1>17, <2>1 DEF Placed, Resting
  <2>4. InFlightShared' = InFlightShared
    BY <1>1, <2>1 DEF InFlightShared, Signals
  <2>5. CountsOK'
    BY <1>1, <1>4, <1>7, <1>15, <1>16, <2>1, <2>4 DEF CountsOK
  <2> QED BY <1>10, <1>11, <1>12, <1>13, <1>14, <2>2, <2>3, <2>5
<1>18. CASE x = "semaphore"
  <2>1. /\ IsSharedWaiting /\ active' = active + sharedWaiters /\ sharedWaiters' = 0
        /\ number' = [number EXCEPT ![t] = sharedWaiters]
    BY <1>5, <1>18 DEF GrantShared
  <2>2. /\ sharedWaiters \in Nat /\ sharedWaiters > 0 /\ sharedWaiters <= Cardinality(Threads)
        /\ number' \in [Threads -> Nat] /\ number'[t] = sharedWaiters
        /\ \A v \in Threads \ {t} : number'[v] = 0
        /\ InFlightShared' = sharedWaiters /\ InFlightShared = 0 /\ InFlightExclusive = 0
    BY <1>1, <1>4, <2>1, GrantSharedFacts
  <2>3. active' = 1 + sharedWaiters /\ active' \in Nat /\ active' # 0
    BY <1>4, <2>1, <2>2
  <2>4. TypeOK'
    BY <1>1, <1>6, <2>1, <2>2, <2>3 DEF TypeOK
  <2>5. Placed'
    <3>1. \A v \in Threads \ {t} : number[v] = 0
      BY <1>4 DEF NoGrants
    <3> QED BY <1>1, <1>6, <1>18, <2>2, <3>1 DEF Placed, Resting
  <2>6. active' = Cardinality(Counted') + InFlightShared' + InFlightExclusive'
    <3>1. active = Cardinality(Counted) + InFlightShared + InFlightExclusive
      BY DEF CountsOK
    <3>2. Cardinality(Counted) \in Nat
      BY CountTypes
    <3>3. Cardinality(Counted') = 1
      BY <1>4, <1>15, <2>2, <3>1, <3>2
    <3> QED BY <1>16, <2>2, <2>3, <3>3
  <2>7. Cardinality(Waiting({"exclusive"})') = exclusiveWaiters' + InFlightExclusive'
    BY <1>1, <1>7, <1>16 DEF CountsOK
  <2>8. Cardinality(Waiting({"shared", "late"})') = sharedWaiters' + InFlightShared'
    <3>1. Cardinality(Waiting({"shared", "late"})) = sharedWaiters + InFlightShared
      BY DEF CountsOK
    <3>2. Waiting({"shared", "late"})' = Waiting({"shared", "late"})
      BY <1>7
    <3>3. sharedWaiters + InFlightShared = sharedWaiters' + InFlightShared'
      <4>1. \A a \in Nat : a + 0 = 0 + a
        OBVIOUS
      <4> QED BY <2>1, <2>2, <4>1
    <3> QED BY <3>1, <3>2, <3>3
  <2>9. CountsOK'
    BY <1>1, <2>1, <2>3, <2>6, <2>7, <2>8 DEF CountsOK
  <2> QED BY <1>10, <1>11, <1>12, <1>13, <1>14, <2>4, <2>5, <2>9
<1> QED BY <1>5, <1>17, <1>18

-----------------------------------------------------------------------------
(* Waiting.                                                                   *)

(* An exclusive waiter that was granted access enters itself.                 *)
LEMMA StoreOwnerInv ==
  ASSUME Inv, NEW t \in Threads, StoreOwner(t)
  PROVE  Inv'
<1> USE DEF Inv
<1>1. /\ pc[t] = "store" /\ owners' = [owners EXCEPT ![0].thread = t]
      /\ pc' = [pc EXCEPT ![t] = "idle"] /\ request' = [request EXCEPT ![t] = "none"]
      /\ held' = [held EXCEPT ![t] = @ + 1]
      /\ UNCHANGED <<exists, active, exclusive, boostAllowed, sharedWaiters, exclusiveWaiters,
                     semaphore, event, waitList, dlock, number, walk>>
  BY DEF StoreOwner, Acquired, Untouched
<1>2. /\ t \in Owners /\ t # NoOwner /\ t # Granted /\ t \in At({"store"}) /\ t \in Counted
  BY <1>1, ResourceAssumption DEF Owners, At, Counted
<1>3. exclusive /\ active = 1 /\ owners[0].thread \in {t, Granted} /\ held[t] = 0
      /\ request[t] = "exclusive"
  BY <1>1, <1>2 DEF FirstOK, CountsOK, Placed
<1>4. NoGrants /\ Counted = {t}
  BY <1>2, <1>3, Alone
<1>5. /\ held' \in [Owners -> Nat] /\ held'[t] = 1 /\ \A o \in Owners \ {t} : held'[o] = held[o]
      /\ pc' \in [Threads -> Pcs] /\ pc'[t] = "idle" /\ \A v \in Threads \ {t} : pc'[v] = pc[v]
      /\ request' \in [Threads -> Requests] /\ request'[t] = "none"
      /\ \A v \in Threads \ {t} : request'[v] = request[v]
  BY <1>1, <1>2, <1>3 DEF TypeOK, Pcs, Requests
<1>6. \A o \in Owners \ {t} : held[o] = 0
  BY <1>4 DEF Counted, TypeOK
<1>7. /\ \A S : Waiting(S)' = Waiting(S) /\ t \notin Waiting(S)
      /\ At({"relock"})' = At({"relock"}) /\ At({"event"})' = At({"event"}) /\ At({"store"})' = {}
  BY <1>1, <1>4, <1>5 DEF Waiting, At, Counted
<1>8. Due(t) = 0 /\ Due(t)' = 1 /\ \A o \in Owners \ {t} : Due(o)' = Due(o)
  BY <1>3, <1>5, <1>7 DEF Due
<1>9. /\ LastEntry \in Nat \ {0} /\ DOMAIN owners = 0..LastEntry /\ 0 \in DOMAIN owners
      /\ owners \in [0..LastEntry -> EntryType]
  BY TableFacts
<1>10. owners[0].count = 1 /\ \A j \in DOMAIN owners \ {0} : owners[j].thread # t
  BY <1>2, <1>3, <1>8, <1>9 DEF EntriesOK
<1>11. /\ DOMAIN owners' = DOMAIN owners /\ owners'[0].thread = t /\ owners'[0].count = 1
       /\ owners'[0] \in EntryType /\ \A j \in DOMAIN owners \ {0} : owners'[j] = owners[j]
  BY <1>1, <1>2, <1>9, <1>10 DEF EntryType
<1>12. TableOK'
  BY <1>1, <1>9, <1>11 DEF TableOK
<1>13. TypeOK'
  BY <1>1, <1>5, <1>11 DEF TypeOK, EntryType
<1>14. Placed'
  BY <1>1, <1>2, <1>5 DEF Placed, Resting, Owners
<1>15. ListsOK'
  BY <1>1, <1>5, ListsKept
<1>16. \A j \in DOMAIN owners :
         owners[j].thread \in Owners \ {t} => owners[j].thread \notin At({"store"})
  BY <1>4 DEF Counted, At
<1>17. EntriesOK'
  BY <1>1, <1>2, <1>8, <1>10, <1>11, <1>16 DEF EntriesOK
<1>18. EntriesOnce'
  BY <1>10, <1>11 DEF EntriesOnce
<1>19. EntriesListed'
  <2> SUFFICES ASSUME NEW o \in Owners, Due(o)' > 0
               PROVE  \E j \in DOMAIN owners' : owners'[j].thread = o
    BY DEF EntriesListed
  <2>1. CASE o = t
    BY <1>9, <1>11, <2>1
  <2>2. CASE o # t
    <3>1. PICK j \in DOMAIN owners : owners[j].thread = o
      BY <1>8, <2>2 DEF EntriesListed
    <3>2. j # 0
      BY <1>3, <2>2, <3>1, ResourceAssumption
    <3> QED BY <1>11, <3>1, <3>2
  <2> QED BY <2>1, <2>2
<1>20. FirstOK'
  <2>1. ~event' /\ At({"event"})' = {} /\ \A o \in Owners : held'[o] > 0 => o = t
    BY <1>1, <1>4, <1>5, <1>6, <1>7 DEF NoGrants
  <2> QED BY <1>2, <1>7, <1>11, <2>1 DEF FirstOK
<1>21. Counted' = Counted
  <2>1. At({"relock", "store"})' = {}
    BY <1>4, <1>5 DEF At, Counted
  <2> QED BY <1>2, <1>4, <1>5, <1>6, <2>1 DEF Counted
<1>22. CountsOK'
  BY <1>1, <1>7, <1>21 DEF CountsOK, InFlightShared, InFlightExclusive, Signals
<1>23. WalkOK'
  BY <1>1, <1>5, <1>11, WalkDomain
<1> QED BY <1>12, <1>13, <1>14, <1>15, <1>17, <1>18, <1>19, <1>20, <1>22, <1>23

(* A shared waiter without an entry gets one.                                 *)
LEMMA RelockInv ==
  ASSUME Inv, NEW t \in Threads, Relock(t)
  PROVE  Inv'
<1> USE DEF Inv
<1>1. /\ pc[t] = "relock" /\ ExpFindCurrentThread(t)
      /\ owners' = [TableFor(t) EXCEPT ![Slot(t)] = Entry(t, 1)]
      /\ pc' = [pc EXCEPT ![t] = "idle"] /\ request' = [request EXCEPT ![t] = "none"]
      /\ held' = [held EXCEPT ![t] = @ + 1]
      /\ UNCHANGED <<exists, active, exclusive, boostAllowed, sharedWaiters, exclusiveWaiters,
                     semaphore, event, waitList, dlock, number, walk>>
  BY DEF Relock, Acquired, Untouched
<1>2. t \in Owners /\ t \in At({"relock"}) /\ t \notin At({"store"}) /\ held[t] = 0
      /\ request[t] = "late"
  BY <1>1 DEF Owners, At, Placed
<1>3. ~exclusive
  BY <1>2 DEF CountsOK
<1>4. /\ held' \in [Owners -> Nat] /\ held'[t] = 1 /\ \A o \in Owners \ {t} : held'[o] = held[o]
      /\ pc' \in [Threads -> Pcs] /\ pc'[t] = "idle" /\ \A v \in Threads \ {t} : pc'[v] = pc[v]
      /\ request' \in [Threads -> Requests] /\ request'[t] = "none"
      /\ \A v \in Threads \ {t} : request'[v] = request[v]
  BY <1>1, <1>2 DEF TypeOK, Pcs, Requests
<1>5. /\ \A S : Waiting(S)' = Waiting(S) /\ t \notin Waiting(S)
      /\ At({"store"})' = At({"store"}) /\ At({"event"})' = At({"event"})
  BY <1>1, <1>4 DEF Waiting, At
<1>6. Due(t) = 0 /\ \A o \in Owners : Due(o)' = IF o = t THEN 1 ELSE Due(o)
  BY <1>2, <1>4, <1>5 DEF Due
<1>7. \A i \in DOMAIN owners : owners[i].thread # t
  BY <1>2, <1>6 DEF EntriesOK
<1>8. With(t) = {}
  BY <1>7 DEF With
<1>9. Adds(t, Slot(t)) /\ Slot(t) # 0
  BY <1>1, <1>2, <1>8, AddsEntry
<1>10. PICK k : k = Slot(t) /\ Adds(t, k)
  BY <1>9
<1>11. TableOK' /\ EntriesOK' /\ EntriesOnce' /\ EntriesListed'
  BY <1>3, <1>5, <1>6, <1>7, <1>10, AddsKeeps
<1>12. TypeOK'
  <2>1. \A i \in DOMAIN owners' :
          owners'[i] \in [thread: Owners \cup {NoOwner, Granted}, count: Nat]
    BY <1>11 DEF TableOK, EntryType
  <2> QED BY <1>1, <1>4, <2>1 DEF TypeOK
<1>13. Placed'
  BY <1>1, <1>2, <1>4 DEF Placed, Resting, Owners
<1>14. ListsOK'
  BY <1>1, <1>4, ListsKept
<1>15. WalkOK'
  BY <1>1, <1>4, <1>10, WalkExtends DEF Adds
<1>16. 0 \in DOMAIN owners /\ owners'[0] = owners[0]
  BY <1>9, <1>10, TableFacts DEF Adds, Extends
<1>17. FirstOK'
  BY <1>1, <1>3, <1>5, <1>16 DEF FirstOK
<1>18. Counted' = Counted
  BY <1>1, <1>2, <1>4 DEF Counted, At
<1>19. CountsOK'
  BY <1>1, <1>3, <1>5, <1>18 DEF CountsOK, InFlightShared, InFlightExclusive, Signals
<1> QED BY <1>11, <1>12, <1>13, <1>14, <1>15, <1>17, <1>19

(* The waiters of W, which wait for shared access, pick their grants up; some *)
(* of the others may be through with signalling.                              *)
PicksUp(W) ==
  /\ \A v \in Threads :
       /\ pc'[v] = IF v \in W THEN (IF request[v] = "shared" THEN "idle" ELSE "relock")
                   ELSE IF pc[v] = "semaphore" /\ number'[v] = 0 THEN "idle" ELSE pc[v]
       /\ request'[v] = IF v \in W /\ request[v] = "shared" THEN "none" ELSE request[v]
  /\ \A o \in Owners : held'[o] = IF o \in W /\ request[o] = "shared" THEN 1 ELSE held[o]

(* The grants that are picked up were counted before and are counted after.   *)
LEMMA PicksUpKeeps ==
  ASSUME Inv, ~exclusive, NEW W \in SUBSET Waiting({"shared", "late"}), PicksUp(W),
         InFlightShared' \in Nat, InFlightShared' + Cardinality(W) = InFlightShared,
         UNCHANGED <<exists, active, exclusive, owners, sharedWaiters, exclusiveWaiters, event>>
  PROVE  /\ TableOK' /\ EntriesOK' /\ EntriesOnce' /\ EntriesListed' /\ FirstOK' /\ CountsOK'
<1> USE DEF Inv
<1>1. \A v \in W : /\ v \in Threads /\ v \in Owners /\ held[v] = 0
                   /\ pc[v] \in {"call", "blocked", "timeout", "boost"}
                   /\ request[v] \in {"shared", "late"}
  BY DEF Waiting, At, Placed, Owners
<1>2. /\ At({"store"})' = At({"store"}) /\ At({"event"})' = At({"event"})
      /\ Waiting({"exclusive"})' = Waiting({"exclusive"})
      /\ Waiting({"shared", "late"})' = Waiting({"shared", "late"}) \ W
      /\ Waiting({"shared"})' = Waiting({"shared"}) \ W
  <2>1. ASSUME NEW v \in Threads
        PROVE  /\ pc'[v] = "store" <=> pc[v] = "store"
               /\ pc'[v] = "event" <=> pc[v] = "event"
               /\ v \notin W /\ pc[v] \in {"call", "blocked", "timeout", "boost"} =>
                    pc'[v] = pc[v] /\ request'[v] = request[v]
               /\ pc'[v] \in {"call", "blocked", "timeout", "boost"} =>
                    v \notin W /\ pc'[v] = pc[v] /\ request'[v] = request[v]
    <3>1. CASE v \in W
      BY <1>1, <3>1 DEF PicksUp
    <3>2. CASE v \notin W /\ pc[v] = "semaphore"
      BY <3>2 DEF PicksUp
    <3>3. CASE v \notin W /\ pc[v] # "semaphore"
      BY <3>3 DEF PicksUp
    <3> QED BY <3>1, <3>2, <3>3
  <2>2. At({"store"})' = At({"store"}) /\ At({"event"})' = At({"event"})
    BY <2>1 DEF At
  <2>3. \A r : Waiting(r)' = {v \in Waiting(r) : v \notin W}
    BY <2>1 DEF Waiting, At
  <2>4. \A v \in W : v \notin Waiting({"exclusive"})
    BY <1>1 DEF Waiting
  <2> QED BY <2>2, <2>3, <2>4
<1>3. \A o \in Owners : Due(o)' = Due(o)
  <2> SUFFICES ASSUME NEW o \in Owners PROVE Due(o)' = Due(o)
    OBVIOUS
  <2>1. CASE o \in W /\ request[o] = "shared"
    <3>1. held'[o] = 1 /\ held[o] = 0 /\ o \in Waiting({"shared"})
      BY <1>1, <2>1 DEF PicksUp, Waiting, At
    <3> QED BY <3>1 DEF Due
  <2>2. CASE o \in W /\ request[o] # "shared"
    <3>1. held'[o] = held[o] /\ o \notin Waiting({"shared"}) /\ (o \notin Waiting({"shared"}))'
      BY <1>2, <2>2 DEF PicksUp, Waiting
    <3> QED BY <3>1 DEF Due
  <2>3. CASE o \notin W
    <3>1. held'[o] = held[o] /\ ((o \in Waiting({"shared"}))' <=> o \in Waiting({"shared"}))
      BY <1>2, <2>3 DEF PicksUp
    <3> QED BY <3>1 DEF Due
  <2> QED BY <2>1, <2>2, <2>3
<1>4. TableOK' /\ EntriesOnce' /\ EntriesListed' /\ EntriesOK'
  BY <1>2, <1>3 DEF TableOK, EntriesOnce, EntriesListed, EntriesOK
<1>5. FirstOK'
  BY <1>2 DEF FirstOK
<1>6. Counted' = Counted \cup W /\ Counted \cap W = {}
  <2>1. ASSUME NEW o \in Owners
        PROVE  /\ o \in W => o \notin Counted
               /\ (o \in Counted)' <=> o \in Counted \cup W
    <3>1. CASE o \in W /\ request[o] = "shared"
      <4>1. held'[o] = 1 /\ o \notin Counted
        BY <1>1, <3>1 DEF PicksUp, Counted, At
      <4> QED BY <3>1, <4>1 DEF Counted
    <3>2. CASE o \in W /\ request[o] # "shared"
      <4>1. pc'[o] = "relock" /\ o \notin Counted
        BY <1>1, <3>2 DEF PicksUp, Counted, At
      <4> QED BY <1>1, <3>2, <4>1 DEF Counted, At
    <3>3. CASE o \notin W
      <4>1. held'[o] = held[o]
            /\ (o \in Threads => (pc'[o] \in {"relock", "store"} <=> pc[o] \in {"relock", "store"}))
        BY <3>3 DEF PicksUp
      <4> QED BY <3>3, <4>1 DEF Counted, At
    <3> QED BY <3>1, <3>2, <3>3
  <2>2. Counted \subseteq Owners /\ Counted' \subseteq Owners /\ W \subseteq Owners
    BY <1>1 DEF Counted, At, Owners
  <2> QED BY <2>1, <2>2
<1>7. /\ Cardinality(W) \in Nat /\ IsFiniteSet(W)
      /\ IsFiniteSet(Counted) /\ Cardinality(Counted) \in Nat
      /\ IsFiniteSet(Waiting({"shared", "late"})) /\ Cardinality(Waiting({"shared", "late"})) \in Nat
  <2>1. /\ Counted \subseteq Owners /\ W \subseteq Owners
        /\ Waiting({"shared", "late"}) \subseteq Owners
    BY <1>1 DEF Counted, At, Owners, Waiting
  <2> QED BY <2>1, Finite
<1>8. Cardinality(Counted') = Cardinality(Counted) + Cardinality(W)
  <2>1. Cardinality(Counted \cup W) =
          Cardinality(Counted) + Cardinality(W) - Cardinality(Counted \cap W)
    BY <1>7, FS_Union
  <2>2. Cardinality(Counted \cap W) = 0
    BY <1>6, FS_EmptySet
  <2> QED BY <1>6, <1>7, <2>1, <2>2
<1>9. Cardinality(Waiting({"shared", "late"})') =
        Cardinality(Waiting({"shared", "late"})) - Cardinality(W)
  <2>1. Waiting({"shared", "late"}) \cap W = W
    OBVIOUS
  <2> QED BY <1>2, <1>7, <2>1, FS_Difference
<1>10. InFlightExclusive' = InFlightExclusive /\ InFlightExclusive \in Nat /\ InFlightShared \in Nat
       /\ sharedWaiters \in Nat
  BY <1>2, FlightTypes DEF InFlightExclusive, TypeOK
<1>11. active' = Cardinality(Counted') + InFlightShared' + InFlightExclusive'
  <2>1. active = Cardinality(Counted) + InFlightShared + InFlightExclusive
    BY DEF CountsOK
  <2>2. \A c, w, f, g, x \in Nat : f + w = g => c + g + x = (c + w) + f + x
    OBVIOUS
  <2>3. active = (Cardinality(Counted) + Cardinality(W)) + InFlightShared' + InFlightExclusive
    BY <1>7, <1>10, <2>1, <2>2
  <2> QED BY <1>8, <1>10, <2>3
<1>12. Cardinality(Waiting({"shared", "late"})') = sharedWaiters' + InFlightShared'
  <2>1. Cardinality(Waiting({"shared", "late"})) = sharedWaiters + InFlightShared
    BY DEF CountsOK
  <2>2. \A s, w, f, g \in Nat : f + w = g => (s + g) - w = s + f
    OBVIOUS
  <2>3. (sharedWaiters + InFlightShared) - Cardinality(W) = sharedWaiters + InFlightShared'
    BY <1>7, <1>10, <2>2
  <2> QED BY <1>9, <2>1, <2>3
<1>13. Cardinality(Waiting({"exclusive"})') = exclusiveWaiters' + InFlightExclusive'
  BY <1>2, <1>10 DEF CountsOK
<1>14. CountsOK'
  BY <1>11, <1>12, <1>13 DEF CountsOK
<1> QED BY <1>4, <1>5, <1>14

(* A wait: the thread that owned the dispatcher lock has given it up.         *)
LEMMA WaitBlocksInv ==
  ASSUME Inv, NEW t \in Threads, pc[t] = "call", dlock \in {NoOwner, t}, dlock' = NoOwner,
         waitList' = [waitList EXCEPT ![ListOf(request[t])] = Append(@, t)],
         pc' = [pc EXCEPT ![t] = "blocked"],
         UNCHANGED <<semaphore, event, request, held, exists, active, exclusive, boostAllowed,
                     sharedWaiters, exclusiveWaiters, owners, number, walk>>
  PROVE  Inv'
<1> USE DEF Inv
<1> DEFINE l == ListOf(request[t])
<1>1. Moves(t, "blocked")
  BY DEF Moves, WaitPcs, Pcs
<1>2. TableOK' /\ EntriesOK' /\ EntriesOnce' /\ EntriesListed' /\ FirstOK' /\ CountsOK'
  BY <1>1, MovesKeeps
<1>3. /\ l \in {"semaphore", "event"} /\ waitList[l] \in Seq(Threads) /\ Once(waitList[l])
      /\ t \notin Items(waitList[l])
  BY DEF ListOf, TypeOK, ListsOK
<1>4. /\ pc' \in [Threads -> Pcs] /\ pc'[t] = "blocked" /\ \A v \in Threads \ {t} : pc'[v] = pc[v]
  BY DEF TypeOK, Pcs
<1> HIDE DEF l
<1>5. /\ waitList'[l] \in Seq(Threads) /\ Once(waitList'[l])
      /\ Items(waitList'[l]) = Items(waitList[l]) \cup {t}
  BY <1>3, AppendItems DEF TypeOK, l
<1>6. \A m \in {"semaphore", "event"} \ {l} : waitList'[m] = waitList[m]
  BY DEF TypeOK, l
<1>7. waitList' \in [{"semaphore", "event"} -> Seq(Threads)]
  BY <1>3, <1>5 DEF TypeOK, l
<1>8. TypeOK'
  BY <1>4, <1>7 DEF TypeOK
<1>9. Placed'
  BY <1>4, ResourceAssumption DEF Placed, Resting, Owners
<1>10. ListsOK'
  BY <1>4, <1>5, <1>6 DEF ListsOK, l
<1>11. WalkOK'
  BY <1>4, WalkKept
<1> QED BY <1>2, <1>8, <1>9, <1>10, <1>11

(* A shared waiter finds the semaphore signalled.                             *)
LEMMA WaitSharedInv ==
  ASSUME Inv, NEW t \in Threads, pc[t] = "call", dlock \in {NoOwner, t}, dlock' = NoOwner,
         request[t] # "exclusive", semaphore > 0, semaphore' = semaphore - 1, Satisfied({t}, pc),
         UNCHANGED <<event, waitList, exists, active, exclusive, boostAllowed,
                     sharedWaiters, exclusiveWaiters, owners, number, walk>>
  PROVE  Inv'
<1> USE DEF Inv
<1>1. request[t] \in {"shared", "late"} /\ held[t] = 0 /\ t \in Owners
  BY DEF TypeOK, Placed, Resting, Requests, Owners
<1>2. semaphore \in Nat /\ semaphore' \in Nat /\ semaphore' + 1 = semaphore
  BY DEF TypeOK
<1>3. PICK W : W = {t}
  OBVIOUS
<1>4. W \in SUBSET Waiting({"shared", "late"})
  BY <1>1, <1>3 DEF Waiting, At
<1>5. /\ pc'[t] = IF request[t] = "shared" THEN "idle" ELSE "relock"
      /\ request'[t] = IF request[t] = "shared" THEN "none" ELSE request[t]
      /\ held'[t] = IF request[t] = "shared" THEN 1 ELSE 0
      /\ \A v \in Threads \ {t} : pc'[v] = pc[v] /\ request'[v] = request[v]
      /\ \A o \in Owners \ {t} : held'[o] = held[o]
      /\ DOMAIN pc' = Threads /\ DOMAIN request' = Threads /\ DOMAIN held' = Owners
      /\ pc' = [v \in Threads |-> pc'[v]] /\ request' = [v \in Threads |-> request'[v]]
      /\ held' = [o \in Owners |-> held'[o]]
  BY <1>1 DEF Satisfied
<1>6. /\ pc' \in [Threads -> Pcs] /\ request' \in [Threads -> Requests] /\ held' \in [Owners -> Nat]
  <2>1. \A v \in Threads : pc'[v] \in Pcs
    BY <1>5 DEF TypeOK, Pcs
  <2>2. \A v \in Threads : request'[v] \in Requests
    BY <1>5 DEF TypeOK, Requests
  <2>3. \A o \in Owners : held'[o] \in Nat
    <3>1. held'[t] \in Nat
      BY <1>5
    <3>2. \A o \in Owners \ {t} : held'[o] \in Nat
      BY <1>5 DEF TypeOK
    <3> QED BY <3>1, <3>2
  <2> QED BY <1>5, <2>1, <2>2, <2>3
<1>7. PicksUp(W)
  <2>1. \A v \in Threads : pc[v] = "semaphore" => number'[v] # 0
    BY DEF Placed, TypeOK
  <2>2. \A v \in Threads \ {t} : pc'[v] = IF pc[v] = "semaphore" /\ number'[v] = 0 THEN "idle" ELSE pc[v]
    BY <1>5, <2>1
  <2> QED BY <1>1, <1>3, <1>5, <2>2 DEF PicksUp
<1>8. Signals' = Signals /\ Cardinality(Signals) \in Nat
  BY CountTypes DEF Signals
<1>9. /\ InFlightShared' \in Nat /\ InFlightShared' + Cardinality(W) = InFlightShared
      /\ InFlightShared # 0
  <2>1. Cardinality(W) = 1
    BY <1>3, FS_Singleton
  <2>2. InFlightShared = semaphore + Cardinality(Signals)
        /\ InFlightShared' = semaphore' + Cardinality(Signals)
    BY <1>8 DEF InFlightShared
  <2> QED BY <1>2, <1>8, <2>1, <2>2
<1>10. ~exclusive
  BY <1>9 DEF CountsOK
<1>11. TableOK' /\ EntriesOK' /\ EntriesOnce' /\ EntriesListed' /\ FirstOK' /\ CountsOK'
  BY <1>4, <1>7, <1>9, <1>10, PicksUpKeeps
<1>12. TypeOK'
  BY <1>2, <1>6 DEF TypeOK
<1>13. Placed'
  BY <1>1, <1>5, ResourceAssumption DEF Placed, Resting, Owners
<1>14. ListsOK'
  BY <1>5, ListsKept
<1>15. WalkOK'
  BY <1>5, WalkKept
<1> QED BY <1>11, <1>12, <1>13, <1>14, <1>15

(* An exclusive waiter finds the event signalled.                             *)
LEMMA WaitExclusiveInv ==
  ASSUME Inv, NEW t \in Threads, pc[t] = "call", dlock \in {NoOwner, t}, dlock' = NoOwner,
         request[t] = "exclusive", event, event' = FALSE, Satisfied({t}, pc),
         UNCHANGED <<semaphore, waitList, exists, active, exclusive, boostAllowed,
                     sharedWaiters, exclusiveWaiters, owners, number, walk>>
  PROVE  Inv'
<1> USE DEF Inv
<1>1. /\ pc'[t] = "store" /\ (\A v \in Threads \ {t} : pc'[v] = pc[v]) /\ pc' \in [Threads -> Pcs]
  <2>1. /\ pc' = [v \in Threads |-> pc'[v]] /\ pc'[t] = "store"
        /\ \A v \in Threads \ {t} : pc'[v] = pc[v]
    BY DEF Satisfied
  <2>2. \A v \in Threads : pc'[v] \in Pcs
    BY <2>1 DEF TypeOK, Pcs
  <2> QED BY <2>1, <2>2
<1>2. UNCHANGED <<held, request>>
  <2>1. {v \in {t} : request[v] = "shared"} = {}
    OBVIOUS
  <2> QED BY <2>1 DEF Satisfied, TypeOK
<1>3. held[t] = 0 /\ t \in Owners
  BY DEF Placed, Owners
<1>4. exclusive /\ owners[0].thread = Granted
  BY DEF FirstOK
<1>5. /\ At({"store"})' = At({"store"}) \cup {t} /\ At({"event"})' = At({"event"})
      /\ At({"relock"})' = At({"relock"}) /\ t \notin At({"relock", "store"})
      /\ At({"relock", "store"})' = At({"relock", "store"}) \cup {t}
  BY <1>1 DEF At
<1>6. /\ Waiting({"exclusive"})' = Waiting({"exclusive"}) \ {t} /\ t \in Waiting({"exclusive"})
      /\ Waiting({"shared", "late"})' = Waiting({"shared", "late"})
      /\ Waiting({"shared"})' = Waiting({"shared"})
  BY <1>1, <1>2 DEF Waiting, At
<1>7. \A o \in Owners : Due(o)' = Due(o)
  BY <1>2, <1>6 DEF Due
<1>8. TableOK' /\ EntriesOnce' /\ EntriesListed'
  BY <1>7 DEF TableOK, EntriesOnce, EntriesListed
<1>9. EntriesOK'
  BY <1>5, <1>7 DEF EntriesOK
<1>10. FirstOK'
  BY <1>2, <1>4, <1>5, <1>6 DEF FirstOK
<1>11. Cardinality(Counted') = Cardinality(Counted) + 1 /\ Cardinality(Counted) \in Nat
  <2>1. Counted' = Counted \cup {t} /\ t \notin Counted /\ Counted \subseteq Owners
    BY <1>2, <1>3, <1>5 DEF Counted, At, Owners
  <2> QED BY <1>3, <2>1, OneMore, Finite
<1>12. Cardinality(Waiting({"exclusive"})') = Cardinality(Waiting({"exclusive"})) - 1
  <2>1. Waiting({"exclusive"}) \subseteq Owners
    BY DEF Waiting, At, Owners
  <2> QED BY <1>3, <1>6, <2>1, OneMore
<1>13. /\ InFlightExclusive' = Cardinality(At({"event"}))
       /\ InFlightExclusive = 1 + Cardinality(At({"event"}))
       /\ Cardinality(At({"event"})) \in Nat
  BY <1>5, CountTypes DEF InFlightExclusive
<1>14. InFlightShared' = InFlightShared /\ InFlightShared \in Nat /\ exclusiveWaiters \in Nat
  BY FlightTypes DEF InFlightShared, Signals, TypeOK
<1>15. active' = Cardinality(Counted') + InFlightShared' + InFlightExclusive'
  <2>1. active = Cardinality(Counted) + InFlightShared + InFlightExclusive
    BY DEF CountsOK
  <2>2. \A c, s, x \in Nat : c + s + (1 + x) = (c + 1) + s + x
    OBVIOUS
  <2> QED BY <1>11, <1>13, <1>14, <2>1, <2>2
<1>16. Cardinality(Waiting({"exclusive"})') = exclusiveWaiters' + InFlightExclusive'
  <2>1. Cardinality(Waiting({"exclusive"})) = exclusiveWaiters + InFlightExclusive
    BY DEF CountsOK
  <2>2. \A c, x \in Nat : (c + (1 + x)) - 1 = c + x
    OBVIOUS
  <2> QED BY <1>12, <1>13, <1>14, <2>1, <2>2
<1>17. CountsOK'
  BY <1>5, <1>6, <1>14, <1>15, <1>16 DEF CountsOK
<1>18. TypeOK'
  BY <1>1, <1>2 DEF TypeOK
<1>19. Placed'
  BY <1>1, <1>2, <1>3, ResourceAssumption DEF Placed, Resting, Owners
<1>20. ListsOK'
  BY <1>1, <1>2, ListsKept
<1>21. WalkOK'
  BY <1>1, WalkKept
<1> QED BY <1>8, <1>9, <1>10, <1>17, <1>18, <1>19, <1>20, <1>21

(* Every wait.                                                                *)
LEMMA KeWaitForSingleObjectInv ==
  ASSUME Inv, NEW t \in Threads, KeWaitForSingleObject(t)
  PROVE  Inv'
<1> DEFINE shared == request[t] # "exclusive"
<1>1. /\ pc[t] = "call" /\ dlock \in {NoOwner, t} /\ dlock' = NoOwner
      /\ UNCHANGED <<exists, active, exclusive, boostAllowed, sharedWaiters, exclusiveWaiters,
                     owners, number, walk>>
  BY DEF KeWaitForSingleObject, Untouched
<1>2. CASE /\ IF shared THEN semaphore > 0 ELSE event
           /\ IF shared THEN semaphore' = semaphore - 1 /\ UNCHANGED event
                        ELSE event' = FALSE /\ UNCHANGED semaphore
           /\ Satisfied({t}, pc) /\ UNCHANGED waitList
  <2>1. CASE shared
    BY <1>1, <1>2, <2>1, WaitSharedInv
  <2>2. CASE ~shared
    BY <1>1, <1>2, <2>2, WaitExclusiveInv
  <2> QED BY <2>1, <2>2
<1>3. CASE /\ waitList' = [waitList EXCEPT ![ListOf(request[t])] = Append(@, t)]
           /\ pc' = [pc EXCEPT ![t] = "blocked"]
           /\ UNCHANGED <<semaphore, event, request, held>>
  BY <1>1, <1>3, WaitBlocksInv
<1> QED BY <1>2, <1>3 DEF KeWaitForSingleObject

(* The first n elements of the list s, those of W, are unlinked, which leaves *)
(* the list r.                                                                *)
Drops(s, n, W, r) == W = {s[i] : i \in 1..n} /\ r = SubSeq(s, n + 1, Len(s))

(* What the elements of the two are.                                          *)
LEMMA DropItems ==
  ASSUME NEW T, NEW s \in Seq(T), Once(s), NEW n \in 0..Len(s), NEW W, NEW r, Drops(s, n, W, r)
  PROVE  /\ W \in SUBSET Items(s) /\ IsFiniteSet(W) /\ Cardinality(W) = n
         /\ r \in Seq(T) /\ Once(r) /\ Items(r) = Items(s) \ W
<1>0. W = {s[i] : i \in 1..n} /\ r = SubSeq(s, n + 1, Len(s))
  BY DEF Drops
<1>1. Len(s) \in Nat /\ n \in Nat /\ n <= Len(s) /\ \A i \in 1..n : i \in 1..Len(s)
  BY LenProperties
<1>2. W \in SUBSET Items(s)
  BY <1>0, <1>1 DEF Items
<1>3. IsFiniteSet(W) /\ Cardinality(W) = n
  <2> DEFINE f == [i \in 1..n |-> s[i]]
  <2>1. IsFiniteSet(1..n) /\ Cardinality(1..n) = n
    BY <1>1, FS_Interval
  <2>2. f \in Surjection(1..n, W)
    BY <1>0 DEF Surjection
  <2>3. f \in Injection(1..n, W)
    <3>1. f \in [1..n -> W]
      BY <1>0
    <3>2. \A i, j \in 1..n : f[i] = f[j] => i = j
      BY <1>1 DEF Once
    <3> QED BY <3>1, <3>2 DEF Injection, IsInjective
  <2> QED BY <2>1, <2>2, <2>3, FS_Surjection
<1>4. /\ r \in Seq(T) /\ Len(r) = Len(s) - n
      /\ \A i \in 1..(Len(s) - n) : n + i \in 1..Len(s) /\ r[i] = s[n + i]
  <2>1. \A i \in (n + 1)..Len(s) : s[i] \in T
    BY <1>1, ElementOfSeq
  <2>2. /\ r \in Seq(T) /\ Len(r) = IF n + 1 <= Len(s) THEN Len(s) - (n + 1) + 1 ELSE 0
        /\ \A i \in 1..(Len(s) - (n + 1) + 1) : r[i] = s[(n + 1) + i - 1]
    BY <1>0, <1>1, <2>1, SubSeqProperties
  <2>3. Len(s) - (n + 1) + 1 = Len(s) - n /\ \A i \in 1..(Len(s) - n) : (n + 1) + i - 1 = n + i
    BY <1>1
  <2>4. Len(r) = Len(s) - n
    BY <1>1, <2>2
  <2>5. \A i \in 1..(Len(s) - n) : r[i] = s[n + i]
    BY <2>2, <2>3
  <2>6. \A i \in 1..(Len(s) - n) : n + i \in 1..Len(s)
    BY <1>1
  <2> QED BY <2>2, <2>4, <2>5, <2>6
<1>5. Once(r)
  <2> SUFFICES ASSUME NEW i \in 1..Len(r), NEW j \in 1..Len(r), r[i] = r[j] PROVE i = j
    BY DEF Once
  <2>1. n + i = n + j
    BY <1>4 DEF Once
  <2> QED BY <1>1, <1>4, <2>1
<1>6. Items(r) = Items(s) \ W
  <2>1. \A i \in 1..Len(r) : r[i] \in Items(s) /\ r[i] \notin W
    <3> SUFFICES ASSUME NEW i \in 1..Len(r) PROVE r[i] \in Items(s) /\ r[i] \notin W
      OBVIOUS
    <3>1. r[i] = s[n + i] /\ n + i \in 1..Len(s)
      BY <1>4
    <3>2. \A j \in 1..n : j # n + i /\ j \in 1..Len(s)
      BY <1>1, <1>4
    <3> QED BY <1>0, <3>1, <3>2 DEF Items, Once
  <2>2. \A j \in 1..Len(s) : s[j] \notin W => s[j] \in Items(r)
    <3> SUFFICES ASSUME NEW j \in 1..Len(s), s[j] \notin W PROVE s[j] \in Items(r)
      OBVIOUS
    <3>1. j \notin 1..n
      BY <1>0
    <3>2. PICK i : i = j - n
      OBVIOUS
    <3>3. i \in 1..(Len(s) - n) /\ n + i = j
      BY <1>1, <3>1, <3>2
    <3>4. r[i] = s[j] /\ i \in 1..Len(r)
      BY <1>4, <3>3
    <3> QED BY <3>4 DEF Items
  <2>3. ASSUME NEW x \in Items(s), x \notin W PROVE x \in Items(r)
    <3>1. PICK j \in 1..Len(s) : x = s[j]
      BY DEF Items
    <3> QED BY <2>2, <2>3, <3>1
  <2>4. ASSUME NEW x \in Items(r) PROVE x \in Items(s) /\ x \notin W
    <3>1. PICK i \in 1..Len(r) : x = r[i]
      BY DEF Items
    <3> QED BY <2>1, <3>1
  <2> QED BY <2>3, <2>4
<1> QED BY <1>2, <1>3, <1>4, <1>5, <1>6

(* The semaphore is signalled: waiters and late comers pick the grants up.    *)
LEMMA KeReleaseSemaphoreInv ==
  ASSUME Inv, NEW t \in Threads, KeReleaseSemaphore(t)
  PROVE  Inv'
<1> USE DEF Inv
<1> DEFINE list == waitList["semaphore"]
           count == semaphore + number[t]
           n == IF count < Len(list) THEN count ELSE Len(list)
           W == {list[i] : i \in 1..n}
           r == SubSeq(list, n + 1, Len(list))
<1>1. /\ pc[t] = "semaphore" /\ dlock = NoOwner /\ semaphore' = count - n
      /\ waitList' = [waitList EXCEPT !["semaphore"] = r]
      /\ number' = [number EXCEPT ![t] = 0]
      /\ Satisfied(W, [pc EXCEPT ![t] = "idle"])
      /\ UNCHANGED <<exists, active, exclusive, boostAllowed, sharedWaiters, exclusiveWaiters,
                     owners, event, dlock, walk>>
  BY DEF KeReleaseSemaphore, Untouched
<1>2. list \in Seq(Threads) /\ Once(list)
  BY DEF TypeOK, ListsOK
<1>3. /\ semaphore \in Nat /\ number[t] \in Nat /\ number[t] > 0 /\ Len(list) \in Nat /\ count \in Nat
      /\ number[t] <= Cardinality(Threads)
  <2>1. semaphore \in Nat /\ number[t] \in Nat
    BY DEF TypeOK
  <2>2. number[t] > 0 /\ number[t] <= Cardinality(Threads)
    BY <1>1 DEF Placed
  <2>3. Len(list) \in Nat
    BY <1>2, LenProperties
  <2> QED BY <2>1, <2>2, <2>3
<1>4. n \in 0..Len(list) /\ n <= count /\ n \in Nat /\ semaphore' \in Nat /\ semaphore' + n = count
  <2>1. \A a, b \in Nat : LET m == IF a < b THEN a ELSE b
                          IN  m \in 0..b /\ m <= a /\ m \in Nat /\ a - m \in Nat /\ (a - m) + m = a
    OBVIOUS
  <2> HIDE DEF count, list
  <2> QED BY <1>1, <1>3, <2>1
<1> HIDE DEF n, count
<1>5. /\ W \in SUBSET Items(list) /\ IsFiniteSet(W) /\ Cardinality(W) = n
      /\ r \in Seq(Threads) /\ Once(r) /\ Items(r) = Items(list) \ W
  <2>1. PICK s, m, V, q : s = list /\ m = n /\ V = W /\ q = r
    OBVIOUS
  <2>2. /\ s \in Seq(Threads) /\ Once(s) /\ m \in 0..Len(s)
        /\ Drops(s, m, V, q)
    BY <1>2, <1>4, <2>1 DEF Drops
  <2>3. /\ V \in SUBSET Items(s) /\ IsFiniteSet(V) /\ Cardinality(V) = m
        /\ q \in Seq(Threads) /\ Once(q) /\ Items(q) = Items(s) \ V
    BY ONLY <2>2, DropItems
  <2> HIDE DEF W, r
  <2> QED BY <2>1, <2>3
<1> HIDE DEF W, r
<1>6. W \subseteq Threads /\ \A v \in W : pc[v] = "blocked" /\ request[v] \in {"shared", "late"}
                                          /\ v \in Owners /\ held[v] = 0 /\ v # t
  <2>1. Items(list) \subseteq Threads
    BY <1>2, ElementOfSeq DEF Items
  <2>2. \A v \in W : v \in Threads /\ pc[v] = "blocked" /\ ListOf(request[v]) = "semaphore"
    BY <1>5, <2>1 DEF ListsOK
  <2>3. \A v \in W : request[v] \in {"shared", "late"}
    BY <2>2 DEF ListOf, Placed, Resting, TypeOK, Requests
  <2> QED BY <1>1, <2>2, <2>3 DEF Placed, Owners
<1>7. /\ number' \in [Threads -> Nat] /\ number'[t] = 0
      /\ \A v \in Threads \ {t} : number'[v] = number[v]
  BY <1>1 DEF TypeOK
<1>8. /\ \A v \in W : pc'[v] = IF request[v] = "shared" THEN "idle" ELSE "relock"
      /\ pc'[t] = "idle" /\ \A v \in Threads : v \notin W /\ v # t => pc'[v] = pc[v]
      /\ pc' = [v \in Threads |-> pc'[v]]
  <2>1. pc' = [v \in Threads |->
          IF v \notin W THEN [pc EXCEPT ![t] = "idle"][v]
          ELSE CASE request[v] = "shared" -> "idle"
                 [] request[v] = "late" -> "relock"
                 [] request[v] = "exclusive" -> "store"]
    BY <1>1 DEF Satisfied
  <2>2. \A v \in Threads : [pc EXCEPT ![t] = "idle"][v] = IF v = t THEN "idle" ELSE pc[v]
    BY DEF TypeOK
  <2> QED BY <1>6, <2>1, <2>2
<1>9. /\ \A v \in Threads : request'[v] = IF v \in W /\ request[v] = "shared" THEN "none" ELSE request[v]
      /\ \A o \in Owners : held'[o] = IF o \in W /\ request[o] = "shared" THEN 1 ELSE held[o]
      /\ request' = [v \in Threads |-> request'[v]] /\ held' = [o \in Owners |-> held'[o]]
  <2>1. LET R == {v \in W : request[v] = "shared"} IN
        /\ held' = [o \in Owners |-> IF o \in R THEN held[o] + 1 ELSE held[o]]
        /\ request' = [v \in Threads |-> IF v \in R THEN "none" ELSE request[v]]
    BY <1>1 DEF Satisfied
  <2> QED BY <1>6, <2>1
<1>10. /\ pc' \in [Threads -> Pcs] /\ request' \in [Threads -> Requests] /\ held' \in [Owners -> Nat]
  <2>1. \A v \in Threads : pc'[v] \in Pcs
    <3> SUFFICES ASSUME NEW v \in Threads PROVE pc'[v] \in Pcs
      OBVIOUS
    <3>1. CASE v \in W
      BY <1>8, <3>1 DEF Pcs
    <3>2. CASE v \notin W /\ v # t
      BY <1>8, <3>2 DEF TypeOK
    <3>3. CASE v = t
      BY <1>8, <3>3 DEF Pcs
    <3> QED BY <3>1, <3>2, <3>3
  <2>2. \A v \in Threads : request'[v] \in Requests
    BY <1>9 DEF TypeOK, Requests
  <2>3. \A o \in Owners : held'[o] \in Nat
    <3> SUFFICES ASSUME NEW o \in Owners PROVE held'[o] \in Nat
      OBVIOUS
    <3>1. CASE o \in W /\ request[o] = "shared"
      BY <1>9, <3>1
    <3>2. CASE ~(o \in W /\ request[o] = "shared")
      BY <1>9, <3>2 DEF TypeOK
    <3> QED BY <3>1, <3>2
  <2> QED BY <1>8, <1>9, <2>1, <2>2, <2>3
<1>11. PicksUp(W)
  <2>1. \A v \in Threads \ {t} : pc[v] = "semaphore" => number'[v] # 0
    BY <1>7 DEF Placed, TypeOK
  <2>2. \A v \in Threads : pc'[v] = IF v \in W THEN (IF request[v] = "shared" THEN "idle" ELSE "relock")
                   ELSE IF pc[v] = "semaphore" /\ number'[v] = 0 THEN "idle" ELSE pc[v]
    BY <1>1, <1>6, <1>7, <1>8, <2>1
  <2> QED BY <1>9, <2>2 DEF PicksUp
<1>12. W \in SUBSET Waiting({"shared", "late"})
  BY <1>6 DEF Waiting, At
<1>13. /\ InFlightShared' \in Nat /\ InFlightShared' + Cardinality(W) = InFlightShared
       /\ InFlightShared # 0
  <2>1. Cardinality(Signals) = Cardinality(Signals') + number[t]
    <3>1. Signals' = SignalsIn(number') /\ Signals = SignalsIn(number)
      BY DEF Signals, SignalsIn
    <3>2. number \in [Threads -> Nat]
      BY DEF TypeOK
    <3> QED BY <1>3, <1>7, <3>1, <3>2, SignalsOf
  <2>2. Cardinality(Signals') \in Nat
    <3>1. Signals' = SignalsIn(number')
      BY DEF Signals, SignalsIn
    <3>2. Signals' \subseteq Threads \X (1..Cardinality(Threads))
      BY DEF Signals
    <3>3. IsFiniteSet(Threads \X (1..Cardinality(Threads)))
      <4>1. Cardinality(Threads) \in Nat /\ IsFiniteSet(Threads)
        BY ResourceAssumption, FS_CardinalityType
      <4>2. IsFiniteSet(1..Cardinality(Threads))
        BY <4>1, FS_Interval
      <4> QED BY <4>1, <4>2, FS_Product
    <3> QED BY <3>2, <3>3, FS_Subset, FS_CardinalityType
  <2>3. InFlightShared' = semaphore' + Cardinality(Signals')
        /\ InFlightShared = semaphore + Cardinality(Signals)
    BY DEF InFlightShared
  <2>4. count = semaphore + number[t]
    BY DEF count
  <2>5. PICK k, m, e, f, x \in Nat :
          k = number[t] /\ m = n /\ e = semaphore /\ f = semaphore' /\ x = Cardinality(Signals')
    BY <1>3, <1>4, <2>2
  <2>6. f + m = e + k /\ k > 0
    BY <1>3, <1>4, <2>4, <2>5
  <2>7. f + x \in Nat /\ (f + x) + m = e + (x + k) /\ e + (x + k) # 0
    BY ONLY <2>5, <2>6
  <2> QED BY <1>5, <2>1, <2>3, <2>5, <2>7
<1>14. ~exclusive
  BY <1>13 DEF CountsOK
<1>15. TableOK' /\ EntriesOK' /\ EntriesOnce' /\ EntriesListed' /\ FirstOK' /\ CountsOK'
  BY <1>1, <1>11, <1>12, <1>13, <1>14, PicksUpKeeps
<1>16. waitList'["semaphore"] = r /\ waitList'["event"] = waitList["event"]
       /\ waitList' \in [{"semaphore", "event"} -> Seq(Threads)]
  BY <1>1, <1>5 DEF TypeOK
<1>17. TypeOK'
  BY <1>1, <1>4, <1>7, <1>10, <1>16 DEF TypeOK
<1>18. Placed'
  <2> SUFFICES ASSUME NEW v \in Threads
               PROVE  /\ request'[v] = "none" <=> pc'[v] \in Resting
                      /\ pc'[v] = "store" => request'[v] = "exclusive"
                      /\ pc'[v] = "relock" => request'[v] = "late"
                      /\ pc'[v] \notin {"idle", "semaphore", "event"} => held'[v] = 0
                      /\ number'[v] > 0 <=> pc'[v] = "semaphore"
                      /\ number'[v] <= Cardinality(Threads)
                      /\ pc'[v] = "boost" => dlock' = v
                      /\ dlock' = v => pc'[v] \in {"boost", "call"}
    BY DEF Placed
  <2>1. v \in Owners /\ v # NoOwner
    BY ResourceAssumption DEF Owners
  <2>2. CASE v \in W
    <3>1. pc'[v] = (IF request[v] = "shared" THEN "idle" ELSE "relock") /\ v # t
          /\ request'[v] = IF request[v] = "shared" THEN "none" ELSE request[v]
      BY <1>6, <1>8, <1>9, <2>2
    <3>2. number'[v] = number[v] /\ ~(number[v] > 0) /\ number[v] <= Cardinality(Threads)
      BY <1>6, <1>7, <2>2 DEF Placed
    <3> QED BY <1>1, <1>6, <1>9, <2>1, <2>2, <3>1, <3>2 DEF Resting
  <2>3. CASE v = t
    <3>1. v \notin W /\ request'[v] = request[v] /\ request[v] = "none" /\ pc'[v] = "idle"
      BY <1>1, <1>6, <1>8, <1>9, <2>3 DEF Placed, Resting
    <3>2. number'[v] = 0 /\ 0 <= Cardinality(Threads)
      BY <1>3, <1>7, <2>3, ResourceAssumption, FS_CardinalityType
    <3> QED BY <1>1, <2>1, <3>1, <3>2 DEF Resting
  <2>4. CASE v \notin W /\ v # t
    <3>1. pc'[v] = pc[v] /\ request'[v] = request[v] /\ number'[v] = number[v] /\ held'[v] = held[v]
      BY <1>7, <1>8, <1>9, <2>1, <2>4
    <3> QED BY <1>1, <3>1 DEF Placed
  <2> QED BY <2>2, <2>3, <2>4
<1>19. ListsOK'
  <2>1. \A v \in Threads : pc'[v] = "blocked" <=> pc[v] = "blocked" /\ v \notin W
    BY <1>1, <1>8
  <2>2. \A v \in Threads : v \notin W => request'[v] = request[v]
    BY <1>9
  <2>3. \A v \in Threads : v \in W => ListOf(request[v]) = "semaphore"
    BY <1>6 DEF ListOf
  <2>4. Once(waitList'["semaphore"]) /\ Once(waitList'["event"])
    BY <1>5, <1>16 DEF ListsOK
  <2>5. \A v \in Threads : v \in Items(waitList'["semaphore"]) <=>
                             pc'[v] = "blocked" /\ ListOf(request'[v]) = "semaphore"
    BY <1>5, <1>16, <2>1, <2>2 DEF ListsOK
  <2>6. \A v \in Threads : v \in Items(waitList'["event"]) <=>
                             pc'[v] = "blocked" /\ ListOf(request'[v]) = "event"
    BY <1>16, <2>1, <2>2, <2>3 DEF ListsOK
  <2> QED BY <2>4, <2>5, <2>6 DEF ListsOK
<1>20. WalkOK'
  <2>1. \A v \in Threads : pc'[v] = pc[v] \/ pc'[v] \notin {"boost", "dead"}
    BY <1>8
  <2> QED BY <1>1, <2>1, WalkKept
<1> QED BY <1>15, <1>17, <1>18, <1>19, <1>20

(* The only one that is to signal the event is that of the only grant.        *)
LEMMA EventAlone ==
  ASSUME Inv, NEW t \in Threads, pc[t] = "event"
  PROVE  /\ ~event /\ At({"event"}) = {t} /\ Counted = {} /\ InFlightExclusive = 1
         /\ exclusive /\ owners[0].thread = Granted /\ active = 1
<1> USE DEF Inv
<1>1. /\ t \in At({"event"}) /\ t \in Owners
      /\ At({"event"}) \subseteq Owners /\ Counted \subseteq Owners
  BY DEF At, Owners, Counted
<1>2. exclusive /\ owners[0].thread = Granted
  BY <1>1 DEF FirstOK
<1>3. active = 1 /\ active = Cardinality(Counted) + InFlightShared + InFlightExclusive
  BY <1>2 DEF CountsOK
<1>4. PICK R : R = At({"event"}) \ {t}
  OBVIOUS
<1>5. /\ Cardinality(R) = Cardinality(At({"event"})) - 1 /\ R \subseteq Owners /\ Cardinality(R) \in Nat
      /\ Cardinality(At({"event"})) \in Nat /\ Cardinality(Counted) \in Nat
  BY <1>1, <1>4, OneMore, Finite
<1>6. InFlightShared \in Nat
  BY FlightTypes
<1>7. CASE event
  <2>1. InFlightExclusive = 1 + Cardinality(At({"event"}))
    BY <1>7 DEF InFlightExclusive
  <2> QED BY <1>3, <1>5, <1>6, <2>1
<1>8. CASE ~event
  <2>1. InFlightExclusive = 0 + Cardinality(At({"event"}))
    BY <1>8 DEF InFlightExclusive
  <2>2. Cardinality(R) = 0 /\ Cardinality(Counted) = 0 /\ InFlightExclusive = 1
    BY <1>3, <1>5, <1>6, <2>1
  <2>3. R = {} /\ Counted = {}
    BY <1>1, <1>5, <2>2, Empty
  <2> QED BY <1>1, <1>2, <1>3, <1>4, <1>8, <2>2, <2>3
<1> QED BY <1>7, <1>8

(* The event is signalled: a blocked waiter is made the owner, or the first   *)
(* that comes will be.                                                        *)
LEMMA KeSetEventBoostPriorityInv ==
  ASSUME Inv, NEW t \in Threads, KeSetEventBoostPriority(t)
  PROVE  Inv'
<1> USE DEF Inv
<1> DEFINE list == waitList["event"]
<1>1. /\ pc[t] = "event" /\ dlock = NoOwner
      /\ UNCHANGED <<exists, active, exclusive, boostAllowed, sharedWaiters, exclusiveWaiters,
                     semaphore, dlock, number, walk>>
  BY DEF KeSetEventBoostPriority, Untouched
<1>2. /\ ~event /\ At({"event"}) = {t} /\ Counted = {} /\ InFlightExclusive = 1
      /\ exclusive /\ owners[0].thread = Granted /\ active = 1
  BY <1>1, EventAlone
<1>3. /\ (\A o \in Owners : held[o] = 0) /\ \A v \in Threads : pc[v] \notin {"relock", "store"}
      /\ \A v \in Threads \ {t} : pc[v] # "event"
  BY <1>2 DEF Counted, At, TypeOK
<1>4. InFlightShared' = InFlightShared /\ request[t] = "none" /\ number[t] = 0
  <2>1. InFlightShared' = InFlightShared
    BY <1>1 DEF InFlightShared, Signals
  <2>2. request[t] = "none"
    BY <1>1 DEF Placed, Resting
  <2>3. number[t] = 0
    BY <1>1 DEF Placed, TypeOK
  <2> QED BY <2>1, <2>2, <2>3
<1>5. Cardinality({}) = 0
  BY FS_EmptySet
<1>6. CASE /\ event' = TRUE /\ pc' = [pc EXCEPT ![t] = "idle"]
           /\ UNCHANGED <<owners, waitList, request, held>>
  <2>1. pc' \in [Threads -> Pcs] /\ pc'[t] = "idle" /\ \A v \in Threads \ {t} : pc'[v] = pc[v]
    BY <1>6 DEF TypeOK, Pcs
  <2>2. /\ At({"event"})' = {} /\ At({"store"})' = At({"store"}) /\ At({"relock"})' = At({"relock"})
        /\ At({"relock", "store"})' = At({"relock", "store"}) /\ \A S : Waiting(S)' = Waiting(S)
    BY <1>1, <1>2, <1>3, <1>6, <2>1 DEF At, Waiting
  <2>3. \A o \in Owners : Due(o)' = Due(o)
    BY <1>6, <2>2 DEF Due
  <2>4. TableOK' /\ EntriesOK' /\ EntriesOnce' /\ EntriesListed'
    BY <1>1, <1>6, <2>2, <2>3 DEF TableOK, EntriesOK, EntriesOnce, EntriesListed
  <2>5. FirstOK'
    BY <1>1, <1>2, <1>6, <2>2 DEF FirstOK
  <2>6. InFlightExclusive' = InFlightExclusive
    BY <1>2, <1>5, <1>6, <2>2 DEF InFlightExclusive
  <2>7. Counted' = Counted
    BY <1>6, <2>2 DEF Counted
  <2>8. CountsOK'
    BY <1>1, <1>4, <2>2, <2>6, <2>7 DEF CountsOK
  <2>9. TypeOK'
    BY <1>1, <1>6, <2>1 DEF TypeOK
  <2>10. Placed'
    BY <1>1, <1>4, <1>6, <2>1 DEF Placed, Resting
  <2>11. ListsOK'
    BY <1>1, <1>6, <2>1, ListsKept
  <2>12. WalkOK'
    BY <1>1, <1>6, <2>1, WalkKept
  <2> QED BY <2>4, <2>5, <2>8, <2>9, <2>10, <2>11, <2>12
<1>7. CASE /\ list # <<>> /\ owners' = [owners EXCEPT ![0].thread = Head(list)]
           /\ waitList' = [waitList EXCEPT !["event"] = Tail(list)]
           /\ Satisfied({Head(list)}, [pc EXCEPT ![t] = "idle"]) /\ UNCHANGED event
  <2>1. list \in Seq(Threads) /\ Once(list)
    BY DEF TypeOK, ListsOK
  <2>2. PICK h \in Threads : h = Head(list)
    BY <1>7, <2>1, TailItems
  <2>3. /\ h \in Items(list) /\ Tail(list) \in Seq(Threads) /\ Once(Tail(list))
        /\ Items(Tail(list)) = Items(list) \ {h}
    BY <1>7, <2>1, <2>2, TailItems
  <2>4. pc[h] = "blocked" /\ request[h] = "exclusive" /\ h \in Owners /\ h # t /\ held[h] = 0
        /\ number[h] = 0 /\ h # Granted /\ h # NoOwner
    <3>1. pc[h] = "blocked" /\ ListOf(request[h]) = "event"
      BY <2>3 DEF ListsOK
    <3>2. number[h] = 0
      BY <3>1 DEF Placed, TypeOK
    <3> QED BY <1>1, <3>1, <3>2, ResourceAssumption DEF ListOf, Placed, Owners
  <2>5. Satisfied({h}, [pc EXCEPT ![t] = "idle"])
    BY <1>7, <2>2
  <2>6. UNCHANGED <<held, request>>
    <3>1. {v \in {h} : request[v] = "shared"} = {}
      BY <2>4
    <3> QED BY <2>5, <3>1 DEF Satisfied, TypeOK
  <2>7. /\ pc' \in [Threads -> Pcs] /\ pc'[h] = "store" /\ pc'[t] = "idle"
        /\ \A v \in Threads \ {t, h} : pc'[v] = pc[v]
    <3>1. pc' = [v \in Threads |->
            IF v \notin {h} THEN [pc EXCEPT ![t] = "idle"][v]
            ELSE CASE request[v] = "shared" -> "idle"
                   [] request[v] = "late" -> "relock"
                   [] request[v] = "exclusive" -> "store"]
      BY <2>5 DEF Satisfied
    <3>2. \A v \in Threads : [pc EXCEPT ![t] = "idle"][v] = IF v = t THEN "idle" ELSE pc[v]
      BY DEF TypeOK
    <3>3. /\ pc'[h] = "store" /\ pc'[t] = "idle" /\ \A v \in Threads \ {t, h} : pc'[v] = pc[v]
      BY <2>4, <3>1, <3>2
    <3>4. \A v \in Threads : pc'[v] \in Pcs
      BY <3>3 DEF TypeOK, Pcs
    <3> QED BY <3>1, <3>3, <3>4
  <2>8. /\ LastEntry \in Nat \ {0} /\ DOMAIN owners = 0..LastEntry /\ 0 \in DOMAIN owners
        /\ owners \in [0..LastEntry -> EntryType]
    BY TableFacts
  <2>9. owners[0].count = 1
    BY <1>2, <2>8 DEF EntriesOK
  <2>10. /\ DOMAIN owners' = DOMAIN owners /\ owners'[0].thread = h /\ owners'[0].count = 1
         /\ owners'[0] \in EntryType /\ \A j \in DOMAIN owners \ {0} : owners'[j] = owners[j]
    BY <1>7, <2>2, <2>4, <2>8, <2>9 DEF EntryType
  <2>11. TableOK'
    BY <1>7, <2>2, <2>8, <2>10 DEF TableOK
  <2>12. /\ At({"store"})' = {h} /\ At({"event"})' = {} /\ At({"relock"})' = At({"relock"})
         /\ At({"relock", "store"})' = {h} /\ At({"store"}) = {}
    BY <1>1, <1>3, <2>4, <2>7 DEF At
  <2>13. /\ Waiting({"shared", "late"})' = Waiting({"shared", "late"})
         /\ Waiting({"shared"})' = Waiting({"shared"}) /\ h \notin Waiting({"shared"})
         /\ Waiting({"exclusive"})' = Waiting({"exclusive"}) \ {h} /\ h \in Waiting({"exclusive"})
    BY <1>1, <2>4, <2>6, <2>7 DEF Waiting, At
  <2>14. (\A o \in Owners : Due(o)' = Due(o)) /\ Due(h) = 0
    BY <2>4, <2>6, <2>13 DEF Due
  <2>15. \A j \in DOMAIN owners : owners[j].thread # h
    BY <2>4, <2>12, <2>14 DEF EntriesOK
  <2>16. EntriesOK'
    BY <1>1, <2>4, <2>10, <2>12, <2>14 DEF EntriesOK
  <2>17. EntriesOnce'
    BY <2>10, <2>15 DEF EntriesOnce
  <2>18. EntriesListed'
    <3> SUFFICES ASSUME NEW o \in Owners, Due(o)' > 0
                 PROVE  \E j \in DOMAIN owners' : owners'[j].thread = o
      BY DEF EntriesListed
    <3>1. PICK j \in DOMAIN owners : owners[j].thread = o
      BY <2>14 DEF EntriesListed
    <3>2. j # 0
      BY <1>2, <3>1, ResourceAssumption
    <3> QED BY <2>10, <3>1, <3>2
  <2>19. FirstOK'
    <3>1. ~event' /\ exclusive' /\ \A o \in Owners : ~(held'[o] > 0)
      BY <1>1, <1>2, <1>3, <1>7, <2>6
    <3> QED BY <2>4, <2>10, <2>12, <2>13, <3>1 DEF FirstOK
  <2>20. Counted' = {h}
    BY <1>3, <2>6, <2>12 DEF Counted
  <2>21. InFlightExclusive' = 0
    <3>1. ~event'
      BY <1>2, <1>7
    <3>2. Cardinality(At({"event"})') = 0
      BY <1>5, <2>12
    <3> QED BY <3>1, <3>2 DEF InFlightExclusive
  <2>22. active' = Cardinality(Counted') + InFlightShared' + InFlightExclusive'
    <3>1. Cardinality(Counted') = 1
      BY <2>20, FS_Singleton
    <3>2. InFlightShared = 0
      BY <1>2 DEF CountsOK
    <3> QED BY <1>1, <1>2, <1>4, <2>21, <3>1, <3>2
  <2>23. Cardinality(Waiting({"exclusive"})') = exclusiveWaiters' + InFlightExclusive'
    <3>1. Cardinality(Waiting({"exclusive"})) = exclusiveWaiters + InFlightExclusive
          /\ exclusiveWaiters \in Nat
      BY DEF CountsOK, TypeOK
    <3>2. Waiting({"exclusive"}) \subseteq Owners
      BY DEF Waiting, At, Owners
    <3>3. Cardinality(Waiting({"exclusive"})') = Cardinality(Waiting({"exclusive"})) - 1
      BY <2>4, <2>13, <3>2, OneMore
    <3>4. \A a \in Nat : (a + 1) - 1 = a + 0
      OBVIOUS
    <3> QED BY <1>1, <1>2, <2>21, <3>1, <3>3, <3>4
  <2>24. CountsOK'
    BY <1>1, <1>4, <2>12, <2>13, <2>22, <2>23 DEF CountsOK
  <2>25. waitList'["event"] = Tail(list) /\ waitList'["semaphore"] = waitList["semaphore"]
         /\ waitList' \in [{"semaphore", "event"} -> Seq(Threads)]
    BY <1>7, <2>3 DEF TypeOK
  <2>26. TypeOK'
    BY <1>1, <1>7, <2>6, <2>7, <2>10, <2>25 DEF TypeOK, EntryType
  <2>27. Placed'
    <3>1. /\ request'[h] = "exclusive" /\ request'[t] = "none" /\ held'[h] = 0 /\ number' = number
          /\ dlock' = NoOwner
      BY <1>1, <1>4, <2>4, <2>6
    <3>2. h # NoOwner /\ t # NoOwner
      BY <2>4, ResourceAssumption DEF Owners
    <3>3. \A v \in Threads \ {t, h} : pc'[v] = pc[v] /\ request'[v] = request[v] /\ held'[v] = held[v]
      BY <2>6, <2>7
    <3> QED BY <1>1, <1>4, <2>4, <2>7, <3>1, <3>2, <3>3 DEF Placed, Resting
  <2>28. ListsOK'
    <3>1. \A v \in Threads : pc'[v] = "blocked" <=> pc[v] = "blocked" /\ v # h
      BY <1>1, <2>4, <2>7
    <3>2. ListOf(request[h]) = "event"
      BY <2>4 DEF ListOf
    <3>3. \A v \in Threads : v \in Items(waitList'["semaphore"]) <=>
                               pc'[v] = "blocked" /\ ListOf(request'[v]) = "semaphore"
      BY <2>6, <2>25, <3>1, <3>2 DEF ListsOK
    <3>4. \A v \in Threads : v \in Items(waitList'["event"]) <=>
                               pc'[v] = "blocked" /\ ListOf(request'[v]) = "event"
      BY <2>3, <2>6, <2>25, <3>1 DEF ListsOK
    <3>5. Once(waitList'["semaphore"]) /\ Once(waitList'["event"])
      BY <2>3, <2>25 DEF ListsOK
    <3> QED BY <3>3, <3>4, <3>5 DEF ListsOK
  <2>29. WalkOK'
    <3>1. \A v \in Threads : pc'[v] = pc[v] \/ pc'[v] \notin {"boost", "dead"}
      BY <2>7
    <3> QED BY <1>1, <2>10, <3>1, WalkDomain
  <2> QED BY <2>11, <2>16, <2>17, <2>18, <2>19, <2>24, <2>26, <2>27, <2>28, <2>29
<1> QED BY <1>6, <1>7 DEF KeSetEventBoostPriority

-----------------------------------------------------------------------------
(* Every step.                                                                *)

(* The invariant holds before the first resource is initialised.              *)
LEMMA InitInv == Init => Inv
<1> SUFFICES ASSUME Init PROVE Inv
  OBVIOUS
<1>1. Free \in EntryType /\ Free.thread = NoOwner /\ Free.count = 0
  BY DEF Free, Entry, EntryType
<1>2. /\ exists = TRUE /\ active = 0 /\ exclusive = FALSE /\ boostAllowed = TRUE
      /\ owners = [i \in 0..1 |-> Free] /\ sharedWaiters = 0 /\ exclusiveWaiters = 0
      /\ semaphore = 0 /\ event = FALSE /\ waitList = [l \in {"semaphore", "event"} |-> <<>>]
      /\ dlock = NoOwner /\ pc = [t \in Threads |-> "idle"] /\ request = [t \in Threads |-> "none"]
      /\ number = [t \in Threads |-> 0] /\ walk = [t \in Threads |-> NoWalk]
      /\ held = [o \in Owners |-> 0]
  BY DEF Init
<1>3. TableOK /\ DOMAIN owners = 0..1 /\ \A i \in 0..1 : owners[i] = Free
  BY <1>1, <1>2 DEF TableOK
<1>4. TypeOK
  <2>1. <<>> \in Seq(Threads)
    OBVIOUS
  <2>2. waitList \in [{"semaphore", "event"} -> Seq(Threads)]
    BY <1>2, <2>1
  <2>3. \A i \in DOMAIN owners : owners[i] \in [thread: Owners \cup {NoOwner, Granted}, count: Nat]
    BY <1>1, <1>3 DEF EntryType
  <2>4. walk \in [Threads -> [entry: Nat, thread: Owners \cup {NoOwner, Granted}, size: Nat]]
    BY <1>2 DEF NoWalk
  <2>5. pc \in [Threads -> Pcs] /\ request \in [Threads -> Requests]
        /\ number \in [Threads -> Nat] /\ held \in [Owners -> Nat]
    BY <1>2 DEF Pcs, Requests
  <2> QED BY <1>2, <2>2, <2>3, <2>4, <2>5 DEF TypeOK
<1>5. Cardinality(Threads) \in Nat
  BY ResourceAssumption, FS_CardinalityType
<1>6. Placed
  <2> SUFFICES ASSUME NEW t \in Threads
               PROVE  /\ request[t] = "none" /\ pc[t] = "idle" /\ number[t] = 0 /\ dlock # t
    BY <1>5 DEF Placed, Resting
  <2> QED BY <1>2, ResourceAssumption DEF Owners
<1>7. ListsOK
  BY <1>2 DEF ListsOK, Items, Once
<1>8. \A t \in Threads : pc[t] = "idle"
  BY <1>2
<1>9. \A o \in Owners : Due(o) = 0
  BY <1>2, <1>8 DEF Due, Waiting, At
<1>10. EntriesOK /\ EntriesOnce /\ EntriesListed
  BY <1>1, <1>3, <1>9, ResourceAssumption DEF EntriesOK, EntriesOnce, EntriesListed
<1>11. FirstOK /\ WalkOK
  BY <1>2, <1>8 DEF FirstOK, WalkOK, At, Waiting
<1>12. CountsOK
  <2>1. Counted = {} /\ At({"event"}) = {} /\ \A S : Waiting(S) = {}
    BY <1>2, <1>8 DEF Counted, At, Waiting
  <2>2. Signals = {}
    BY <1>2, <1>5 DEF Signals
  <2>3. Cardinality({}) = 0
    BY FS_EmptySet
  <2>4. InFlightShared = 0 /\ InFlightExclusive = 0
    <3>1. semaphore = 0 /\ ~event
      BY <1>2
    <3>2. Cardinality(Signals) = 0 /\ Cardinality(At({"event"})) = 0
      BY <2>1, <2>2, <2>3
    <3> QED BY <3>1, <3>2 DEF InFlightShared, InFlightExclusive
  <2>5. /\ Cardinality(Counted) = 0 /\ Cardinality(Waiting({"shared", "late"})) = 0
        /\ Cardinality(Waiting({"exclusive"})) = 0
    BY <2>1, <2>3
  <2>6. active = 0 /\ sharedWaiters = 0 /\ exclusiveWaiters = 0 /\ ~exclusive
    BY <1>2
  <2> QED BY <2>4, <2>5, <2>6 DEF CountsOK
<1> QED BY <1>3, <1>4, <1>6, <1>7, <1>10, <1>11, <1>12 DEF Inv

(* Every step preserves the invariant.                                        *)
LEMMA NextInv == Inv /\ [Next]_vars => Inv'
<1> SUFFICES ASSUME Inv, [Next]_vars PROVE Inv'
  OBVIOUS
<1>1. ASSUME NEW t \in Threads, NEW Wait \in Waits,
             \/ ExAcquireResourceExclusiveLite(t, Wait) \/ ExAcquireResourceSharedLite(t, Wait)
             \/ ExAcquireSharedStarveExclusive(t, Wait) \/ ExAcquireSharedWaitForExclusive(t, Wait)
      PROVE  Inv'
  BY <1>1, ExAcquireResourceExclusiveLiteInv, ExAcquireResourceSharedLiteInv,
     ExAcquireSharedStarveExclusiveInv, ExAcquireSharedWaitForExclusiveInv
<1>2. ASSUME NEW t \in Threads, ExReleaseResourceLite(t) PROVE Inv'
  BY <1>2, ReleasesInv DEF Owners
<1>3. ASSUME NEW t \in Threads, NEW o \in Owners, ExReleaseResourceForThreadLite(t, o) PROVE Inv'
  BY <1>3, ReleasesInv
<1>4. ASSUME NEW t \in Threads, NEW p \in Pointers, ExSetResourceOwnerPointer(t, p) PROVE Inv'
  BY <1>4, ExSetResourceOwnerPointerInv
<1>5. ASSUME NEW t \in Threads,
             \/ ExConvertExclusiveToSharedLite(t) \/ KeWaitForSingleObject(t) \/ Timeout(t)
             \/ BoostOwners(t) \/ ExpBoostOwnerThread(t)
      PROVE  Inv'
  BY <1>5, ExConvertExclusiveToSharedLiteInv, KeWaitForSingleObjectInv, TimeoutInv,
     BoostOwnersInv, ExpBoostOwnerThreadInv
<1>6. ASSUME NEW t \in Threads,
             \/ KeReleaseSemaphore(t) \/ KeSetEventBoostPriority(t)
             \/ StoreOwner(t) \/ Relock(t) \/ KeTerminateThread(t)
      PROVE  Inv'
  BY <1>6, KeReleaseSemaphoreInv, KeSetEventBoostPriorityInv, StoreOwnerInv, RelockInv,
     KeTerminateThreadInv
<1>7. CASE \/ ExDisableResourceBoostLite \/ ExDeleteResourceLite
           \/ ExInitializeResourceLite \/ ExReinitializeResourceLite
  BY <1>7, ExDisableResourceBoostLiteInv, ExDeleteResourceLiteInv, ExInitializeResourceLiteInv,
     ExReinitializeResourceLiteInv
<1>8. CASE UNCHANGED vars
  <2> USE <1>8 DEF Inv, vars
  <2>1. TypeOK' /\ Placed' /\ ListsOK'
    BY DEF TypeOK, Placed, ListsOK, Resting
  <2>2. TableOK' /\ EntriesOK' /\ EntriesOnce' /\ EntriesListed'
    BY DEF TableOK, EntriesOK, EntriesOnce, EntriesListed, Due, At, Waiting
  <2>3. FirstOK' /\ WalkOK'
    BY DEF FirstOK, WalkOK, At, Waiting, TableSize, LastEntry
  <2>4. CountsOK'
    BY DEF CountsOK, Counted, InFlightShared, InFlightExclusive, Signals, At, Waiting
  <2> QED BY <2>1, <2>2, <2>3, <2>4
<1> QED BY <1>1, <1>2, <1>3, <1>4, <1>5, <1>6, <1>7, <1>8 DEF Next

(* The invariant holds of every behaviour.                                    *)
THEOREM Invariance == Spec => []Inv
BY InitInv, NextInv, PTL DEF Spec

(* TypeOK: the counters of the resource never go below zero, for any number   *)
(* of threads.                                                                *)
THEOREM TypeCorrect == Spec => []TypeOK
<1>1. Inv => TypeOK
  BY DEF Inv
<1> QED BY <1>1, Invariance, PTL

(* OwnersExact: ExpFindCurrentThread and the writes to entries 0 and 1 that   *)
(* do without it keep one entry, with its count, for every owner and every    *)
(* shared waiter, and none for anybody else.                                  *)
THEOREM OwnersCorrect == Spec => []OwnersExact
<1>1. Inv => OwnersExact
  <2> SUFFICES ASSUME Inv PROVE OwnersExact
    OBVIOUS
  <2> USE DEF Inv
  <2>1. ASSUME NEW o \in Owners, Due(o) = 0
        PROVE  With(o) \subseteq (IF o \in At({"store"}) THEN {0} ELSE {})
    <3>1. \A i \in DOMAIN owners : owners[i].thread = o => o \in At({"store"}) /\ i = 0
      BY <2>1 DEF EntriesOK
    <3> QED BY <3>1 DEF With
  <2>2. ASSUME NEW o \in Owners, Due(o) > 0
        PROVE  \E i \in DOMAIN owners :
                 With(o) = {i} /\ owners[i].count = Due(o) /\ (exclusive /\ held[o] > 0 => i = 0)
    <3>1. PICK i \in DOMAIN owners : owners[i].thread = o
      BY <2>2 DEF EntriesListed
    <3>2. o \notin At({"store"})
      <4>1. ASSUME o \in At({"store"}) PROVE FALSE
        <5>1. held[o] = 0 /\ o \notin Waiting({"shared"})
          BY <4>1 DEF At, Placed, Waiting
        <5> QED BY <2>2, <5>1 DEF Due
      <4> QED BY <4>1
    <3>3. owners[i].count = Due(o)
      BY <3>1, <3>2 DEF EntriesOK
    <3>4. With(o) = {i}
      BY <3>1, Found
    <3>5. 0 \in DOMAIN owners
      BY TableFacts
    <3>6. exclusive /\ held[o] > 0 => i = 0
      BY <3>1, <3>5 DEF FirstOK, EntriesOnce
    <3> QED BY <3>3, <3>4, <3>6
  <2>3. \A i \in DOMAIN owners : (owners[i].count = 0) = (owners[i].thread = NoOwner)
    BY DEF EntriesOK
  <2>4. ASSUME NEW t \in At({"store"})
        PROVE exclusive /\ owners[0] \in {Entry(t, 1), Entry(Granted, 1)}
    <3>1. exclusive /\ owners[0].thread \in {t, Granted} /\ t \in Threads /\ t \in Owners
      BY DEF FirstOK, At, Owners
    <3>2. owners[0] \in EntryType /\ 0 \in DOMAIN owners
      BY TableFacts
    <3>3. Due(t) = 0
      <4>1. held[t] = 0 /\ t \notin Waiting({"shared"})
        BY DEF At, Placed, Waiting
      <4> QED BY <4>1 DEF Due
    <3>4. owners[0].count = 1
      BY <3>1, <3>2, <3>3 DEF EntriesOK
    <3>5. owners[0] = [thread |-> owners[0].thread, count |-> owners[0].count]
      BY <3>2 DEF EntryType
    <3> QED BY <3>1, <3>4, <3>5 DEF Entry
  <2> QED BY <2>1, <2>2, <2>3, <2>4 DEF OwnersExact
<1> QED BY <1>1, Invariance, PTL

(* GrantsExact: ActiveCount and the numbers of waiters count every grant once *)
(* from the release that makes it to the one that gives it up, whatever is    *)
(* between a grant and its signal.                                            *)
THEOREM GrantsCorrect == Spec => []GrantsExact
<1>1. Inv => GrantsExact
  <2> SUFFICES ASSUME Inv PROVE GrantsExact
    OBVIOUS
  <2> DEFINE H == {o \in Owners : held[o] > 0}
             P == At({"relock", "store"})
  <2>1. H \subseteq Owners /\ P \subseteq Owners /\ H \cap P = {} /\ Counted = H \cup P
    BY DEF At, Owners, Inv, Placed, Counted
  <2> HIDE DEF H, P
  <2>2. Cardinality(Counted) = Cardinality(H) + Cardinality(P)
    <3>1. IsFiniteSet(H) /\ IsFiniteSet(P) /\ Cardinality(H) \in Nat /\ Cardinality(P) \in Nat
      BY <2>1, Finite
    <3>2. Cardinality(H \cup P) = Cardinality(H) + Cardinality(P) - Cardinality(H \cap P)
      BY <3>1, FS_Union
    <3>3. Cardinality(H \cap P) = 0
      BY <2>1, FS_EmptySet
    <3> QED BY <2>1, <3>1, <3>2, <3>3
  <2>3. active = Cardinality(H) + Cardinality(P) + InFlightShared + InFlightExclusive
    BY <2>2 DEF Inv, CountsOK
  <2> QED BY <2>3 DEF Inv, CountsOK, GrantsExact, H, P, IsSharedWaiting, IsExclusiveWaiting
<1> QED BY <1>1, Invariance, PTL

(* BoostSafe: the walk of ExpWaitForResource over the owners, under the       *)
(* dispatcher lock only, follows no thread that has exited and no table that  *)
(* has been freed.                                                            *)
THEOREM BoostCorrect == Spec => []BoostSafe
<1>1. Inv => BoostSafe
  BY DEF Inv, BoostSafe, Placed, WalkOK, At
<1> QED BY <1>1, Invariance, PTL

-----------------------------------------------------------------------------
(* The refinement of RWLock.                                                  *)

(* Who the writer is, before and after a step.                                *)
LEMMA WriterNow ==
  /\ ~exclusive \/ (\A o \in Owners : ~(held[o] > 0)) => Writer = NoOwner
  /\ \A o \in Owners :
       exclusive /\ held[o] > 0 /\ (\A p \in Owners : held[p] > 0 => p = o) => Writer = o
<1>1. ASSUME ~exclusive \/ (\A o \in Owners : ~(held[o] > 0)) PROVE Writer = NoOwner
  BY <1>1 DEF Writer
<1>2. ASSUME NEW o \in Owners, exclusive, held[o] > 0, \A p \in Owners : held[p] > 0 => p = o
      PROVE  Writer = o
  <2>1. {p \in Owners : held[p] > 0} = {o}
    BY <1>2
  <2> QED BY <1>2, <2>1 DEF Writer
<1> QED BY <1>1, <1>2

(* The same after the step.                                                   *)
LEMMA WriterThen ==
  /\ ~exclusive' \/ (\A o \in Owners : ~(held'[o] > 0)) => Writer' = NoOwner
  /\ \A o \in Owners :
       exclusive' /\ held'[o] > 0 /\ (\A p \in Owners : held'[p] > 0 => p = o) => Writer' = o
<1>1. ASSUME ~exclusive' \/ (\A o \in Owners : ~(held'[o] > 0)) PROVE Writer' = NoOwner
  BY <1>1 DEF Writer
<1>2. ASSUME NEW o \in Owners, exclusive', held'[o] > 0, \A p \in Owners : held'[p] > 0 => p = o
      PROVE  Writer' = o
  <2>1. {p \in Owners : held'[p] > 0} = {o}
    BY <1>2
  <2> QED BY <1>2, <2>1 DEF Writer
<1> QED BY <1>1, <1>2

(* What a step of the resource is to its callers.                             *)
RWStep == RW!RWNext \/ UNCHANGED <<held, Writer>>

Admits(R) == held' = [o \in Owners |-> IF o \in R THEN held[o] + 1 ELSE held[o]]

(* Nothing happens.                                                           *)
LEMMA SilentStep ==
  ASSUME UNCHANGED <<held, exclusive>> \/ (UNCHANGED held /\ \A o \in Owners : ~(held[o] > 0))
  PROVE  RWStep
<1>1. CASE UNCHANGED <<held, exclusive>>
  BY <1>1 DEF RWStep, Writer
<1>2. CASE UNCHANGED held /\ \A o \in Owners : ~(held[o] > 0)
  BY <1>2, WriterNow, WriterThen DEF RWStep
<1> QED BY <1>1, <1>2

(* The admission of readers.                                                  *)
LEMMA ReaderStep ==
  ASSUME NEW R \in SUBSET Owners, R # {}, Admits(R), ~exclusive, UNCHANGED exclusive
  PROVE  RWStep
<1>1. Writer = NoOwner /\ Writer' = NoOwner
  BY WriterNow, WriterThen
<1> QED BY <1>1 DEF RWStep, RW!RWNext, RW!AcquireShared, RW!Acquire, Admits

(* The admission of the writer, or of the writer once more.                   *)
LEMMA WriterStep ==
  ASSUME Inv, NEW t \in Owners, Admits({t}), exclusive',
         \/ \A o \in Owners : held[o] = 0
         \/ exclusive /\ held[t] > 0
  PROVE  RWStep
<1>1. held \in [Owners -> Nat]
  BY DEF Inv, TypeOK
<1>2. \A o \in Owners : held[o] > 0 => o = t
  BY ExclusiveAlone
<1>3. held'[t] > 0 /\ \A o \in Owners : held'[o] > 0 => o = t
  BY <1>1, <1>2 DEF Admits
<1>4. Writer' = t
  BY <1>3, WriterThen
<1>5. Writer = t \/ \A o \in Owners : held[o] = 0
  BY <1>2, WriterNow
<1> QED BY <1>4, <1>5 DEF RWStep, RW!RWNext, RW!AcquireExclusive, RW!Acquire, Admits

(* Who has acquired access is admitted.                                       *)
LEMMA AdmitsOne ==
  ASSUME Inv, NEW t \in Threads, Acquired(t)
  PROVE  Admits({t}) /\ t \in Owners
BY DEF Inv, TypeOK, Acquired, Admits, Owners

(* The release of one access.                                                 *)
LEMMA ReleaseStep ==
  ASSUME Inv, NEW o \in Owners, held[o] > 0, held' = [held EXCEPT ![o] = @ - 1],
         NEW i \in DOMAIN owners, owners[i].count = held[o],
         \/ ReleaseRecursive(i)
         \/ owners[i].count = 1 /\ (~exclusive' \/ active = 1)
  PROVE  RWStep
<1>1. /\ held \in [Owners -> Nat] /\ held[o] \in Nat \ {0} /\ held' \in [Owners -> Nat]
      /\ held'[o] = held[o] - 1 /\ \A p \in Owners \ {o} : held'[p] = held[p]
  BY DEF Inv, TypeOK
<1>2. o \in Counted
  BY DEF Counted
<1>3. CASE owners[i].count = 1 /\ (~exclusive' \/ active = 1)
  <2>1. active = 1 => \A p \in Owners : held[p] > 0 => p = o
    <3>1. active = 1 => Counted = {o}
      BY <1>2, Alone
    <3> QED BY <3>1 DEF Counted
  <2>2. active = 1 => \A p \in Owners : ~(held'[p] > 0)
    <3>1. ASSUME active = 1, NEW p \in Owners PROVE ~(held'[p] > 0)
      <4>1. CASE p = o
        BY <1>1, <1>3, <4>1
      <4>2. CASE p # o
        BY <1>1, <2>1, <3>1, <4>2
      <4> QED BY <4>1, <4>2
    <3> QED BY <3>1
  <2>3. Writer' = NoOwner
    BY <1>3, <2>2, WriterThen
  <2> QED BY <1>3, <2>3 DEF RWStep, RW!RWNext, RW!Release
<1>4. CASE ReleaseRecursive(i)
  <2>1. held[o] # 1 /\ exclusive' = exclusive /\ held'[o] > 0
    BY <1>1, <1>4 DEF ReleaseRecursive
  <2>2. CASE ~exclusive
    BY <2>1, <2>2, WriterNow, WriterThen DEF RWStep, RW!RWNext, RW!Release
  <2>3. CASE exclusive
    <3>1. \A p \in Owners : held[p] > 0 => p = o
      BY <2>3, ExclusiveAlone
    <3>2. \A p \in Owners : held'[p] > 0 => p = o
      BY <1>1, <3>1
    <3>3. Writer = o /\ Writer' = o
      BY <2>1, <2>3, <3>1, <3>2, WriterNow, WriterThen
    <3> QED BY <2>1, <3>3 DEF RWStep, RW!RWNext, RW!Release
  <2> QED BY <2>2, <2>3
<1> QED BY <1>3, <1>4

(* The acquisitions.                                                          *)
LEMMA SharedStep ==
  ASSUME Inv, NEW t \in Threads, Caller(t), NEW Wait, NEW o,
         \/ SharedUnowned(t) \/ SharedByExclusiveOwner(t) \/ SharedBehindExclusive(t, Wait)
         \/ OwnedShared /\ (SharedRecursive(t) \/ SharedGranted(t))
         \/ SharedWait(t, o, Wait)
  PROVE  RWStep
<1>1. CASE SharedUnowned(t)
  <2>1. ~exclusive /\ Acquired(t) /\ UNCHANGED exclusive
    BY <1>1, Nobody DEF SharedUnowned
  <2>2. Admits({t}) /\ t \in Owners
    BY <2>1, AdmitsOne
  <2>3. PICK R : R = {t}
    OBVIOUS
  <2> QED BY <2>1, <2>2, <2>3, ReaderStep
<1>2. CASE SharedByExclusiveOwner(t)
  <2>1. exclusive /\ owners[0].thread = t /\ Acquired(t) /\ UNCHANGED exclusive /\ pc[t] = "idle"
    BY <1>2 DEF SharedByExclusiveOwner, OwnedBy, Caller
  <2>2. Admits({t}) /\ t \in Owners
    BY <2>1, AdmitsOne
  <2>3. held[t] > 0
    <3>1. 0 \in DOMAIN owners /\ held[t] \in Nat
      BY <2>2, TableFacts DEF Inv, TypeOK
    <3>2. held[t] # 0
      BY <2>1, <3>1, HasNoEntry
    <3> QED BY <3>1, <3>2
  <2> QED BY <2>1, <2>2, <2>3, WriterStep
<1>3. CASE SharedBehindExclusive(t, Wait)
  BY <1>3, SilentStep DEF SharedBehindExclusive, SharedWait, WaitFor
<1>4. CASE OwnedShared /\ (SharedRecursive(t) \/ SharedGranted(t))
  <2>1. ~exclusive /\ Acquired(t) /\ UNCHANGED exclusive
    BY <1>4 DEF OwnedShared, SharedRecursive, SharedGranted
  <2>2. Admits({t}) /\ t \in Owners
    BY <2>1, AdmitsOne
  <2>3. PICK R : R = {t}
    OBVIOUS
  <2> QED BY <2>1, <2>2, <2>3, ReaderStep
<1>5. CASE SharedWait(t, o, Wait)
  BY <1>5, SilentStep DEF SharedWait, WaitFor
<1> QED BY <1>1, <1>2, <1>3, <1>4, <1>5

(* All of them.                                                               *)
LEMMA AcquireStep ==
  ASSUME Inv, NEW t \in Threads, NEW Wait,
         \/ ExAcquireResourceExclusiveLite(t, Wait) \/ ExAcquireResourceSharedLite(t, Wait)
         \/ ExAcquireSharedStarveExclusive(t, Wait) \/ ExAcquireSharedWaitForExclusive(t, Wait)
  PROVE  RWStep
<1>1. CASE ExAcquireResourceExclusiveLite(t, Wait)
  <2>1. Caller(t)
    BY <1>1 DEF ExAcquireResourceExclusiveLite
  <2>2. CASE active = 0 /\ exclusive' = TRUE /\ Acquired(t)
    <3>1. Admits({t}) /\ t \in Owners /\ \A o \in Owners : held[o] = 0
      BY <2>2, AdmitsOne, Nobody
    <3> QED BY <2>2, <3>1, WriterStep
  <2>3. CASE SharedByExclusiveOwner(t)
    BY <2>1, <2>3, SharedStep
  <2>4. CASE WaitFor(t, "exclusive")
    BY <2>4, SilentStep DEF WaitFor
  <2> QED BY <1>1, <2>2, <2>3, <2>4 DEF ExAcquireResourceExclusiveLite, SharedByExclusiveOwner
<1>2. CASE ExAcquireResourceSharedLite(t, Wait)
  BY <1>2, SharedStep DEF ExAcquireResourceSharedLite
<1>3. CASE ExAcquireSharedStarveExclusive(t, Wait)
  BY <1>3, SharedStep DEF ExAcquireSharedStarveExclusive
<1>4. CASE ExAcquireSharedWaitForExclusive(t, Wait)
  <2>1. CASE WaitFor(t, "late")
    BY <2>1, SilentStep DEF WaitFor
  <2> QED BY <1>4, <2>1, SharedStep DEF ExAcquireSharedWaitForExclusive
<1> QED BY <1>1, <1>2, <1>3, <1>4

(* The releases.                                                              *)
LEMMA ReleasesStep ==
  ASSUME Inv, NEW t \in Threads, NEW o \in Owners, held[o] > 0,
         held' = [held EXCEPT ![o] = @ - 1], ReleaseExclusive(t) \/ ReleaseShared(t, o)
  PROVE  RWStep
<1>1. CASE ReleaseExclusive(t)
  <2>1. active = 1 /\ owners[0].count = held[o]
    BY <1>1, ExclusiveAlone DEF ReleaseExclusive
  <2>2. 0 \in DOMAIN owners
    BY TableFacts DEF Inv
  <2>3. ReleaseRecursive(0) \/ owners[0].count = 1
    BY <1>1 DEF ReleaseExclusive
  <2> QED BY <2>1, <2>2, <2>3, ReleaseStep
<1>2. CASE ReleaseShared(t, o)
  <2>1. PICK i \in DOMAIN owners : owners[i].thread = o /\ owners[i].count = held[o]
    BY HasEntry
  <2>2. Slot(o) = i
    BY <2>1, Found DEF Inv
  <2>3. ReleaseRecursive(i) \/ (owners[i].count = 1 /\ (~exclusive' \/ active = 1))
    BY <1>2, <2>2 DEF ReleaseShared
  <2> QED BY <2>1, <2>3, ReleaseStep
<1> QED BY <1>1, <1>2

(* Conversion and the change of owner.                                        *)
LEMMA ConvertStep ==
  ASSUME Inv, NEW t \in Threads, ExConvertExclusiveToSharedLite(t)
  PROVE  RWStep
<1>1. /\ pc[t] = "idle" /\ exclusive /\ owners[0].thread = t /\ ~exclusive' /\ UNCHANGED held
  BY DEF ExConvertExclusiveToSharedLite, GrantShared, OwnedBy
<1>2. t \in Owners /\ held[t] > 0
  <2>1. 0 \in DOMAIN owners /\ t \in Owners /\ held[t] \in Nat
    BY TableFacts DEF Inv, TypeOK, Owners
  <2>2. held[t] # 0
    BY <1>1, <2>1, HasNoEntry
  <2> QED BY <2>1, <2>2
<1>3. \A o \in Owners : held[o] > 0 => o = t
  BY <1>1, <1>2, ExclusiveAlone
<1>4. Writer = t /\ Writer' = NoOwner
  BY <1>1, <1>2, <1>3, WriterNow, WriterThen
<1> QED BY <1>1, <1>2, <1>4 DEF RWStep, RW!RWNext, RW!Convert

(* The pointer takes the place of the thread.                                 *)
LEMMA TransferStep ==
  ASSUME Inv, NEW t \in Threads, NEW p \in Pointers, ExSetResourceOwnerPointer(t, p)
  PROVE  RWStep
<1>1. /\ held[t] > 0 /\ held[p] = 0 /\ held' = [held EXCEPT ![t] = 0, ![p] = held[t]]
      /\ exclusive' = exclusive
  BY DEF ExSetResourceOwnerPointer
<1>2. t \in Owners /\ p \in Owners /\ t # p /\ t # NoOwner
  BY ResourceAssumption DEF Owners
<1>3. /\ held'[t] = 0 /\ held'[p] = held[t] /\ \A o \in Owners \ {t, p} : held'[o] = held[o]
  BY <1>1, <1>2 DEF Inv, TypeOK
<1>4. Writer' = IF Writer = t THEN p ELSE Writer
  <2>1. CASE exclusive
    <3>1. \A o \in Owners : held[o] > 0 => o = t
      BY <1>1, <1>2, <2>1, ExclusiveAlone
    <3>2. \A o \in Owners : held'[o] > 0 => o = p
      BY <1>3, <3>1
    <3> QED BY <1>1, <1>2, <1>3, <2>1, <3>1, <3>2, WriterNow, WriterThen
  <2>2. CASE ~exclusive
    BY <1>1, <1>2, <2>2, WriterNow, WriterThen
  <2> QED BY <2>1, <2>2
<1> QED BY <1>1, <1>2, <1>4 DEF RWStep, RW!RWNext, RW!Transfer

(* The threads of W return from their waits.                                  *)
LEMMA SatisfiedStep ==
  ASSUME Inv, NEW W \in SUBSET Threads, NEW at, Satisfied(W, at), UNCHANGED exclusive,
         (\E v \in W : request[v] = "shared") => ~exclusive
  PROVE  RWStep
<1>1. PICK R : R = {v \in W : request[v] = "shared"}
  OBVIOUS
<1>2. held' = [o \in Owners |-> IF o \in R THEN held[o] + 1 ELSE held[o]]
  BY <1>1 DEF Satisfied
<1>3. CASE R = {}
  <2>1. UNCHANGED held
    BY <1>2, <1>3 DEF Inv, TypeOK
  <2> QED BY <2>1, SilentStep
<1>4. CASE R # {}
  <2>1. R \in SUBSET Owners /\ ~exclusive
    BY <1>1, <1>4 DEF Owners
  <2> QED BY <1>2, <1>4, <2>1, ReaderStep DEF Admits
<1> QED BY <1>3, <1>4

(* A shared grant is in flight only while the access is shared.               *)
LEMMA FlightShared ==
  ASSUME Inv, semaphore > 0 \/ \E t \in Threads : pc[t] = "semaphore"
  PROVE  ~exclusive
<1> SUFFICES ASSUME exclusive PROVE FALSE
  OBVIOUS
<1>1. InFlightShared = 0 /\ semaphore \in Nat /\ Cardinality(Signals) \in Nat
  BY CountTypes DEF Inv, CountsOK, TypeOK
<1>2. semaphore = 0 /\ Cardinality(Signals) = 0
  BY <1>1 DEF InFlightShared
<1>3. PICK t \in Threads : pc[t] = "semaphore"
  BY <1>2
<1>4. number[t] \in Nat /\ number[t] > 0 /\ number[t] <= Cardinality(Threads)
  BY <1>3 DEF Inv, TypeOK, Placed
<1>5. Cardinality(Threads) \in Nat
  BY ResourceAssumption, FS_CardinalityType
<1>6. 1 \in 1..Cardinality(Threads) /\ 1 <= number[t]
  BY <1>4, <1>5
<1>7. <<t, 1>> \in Signals
  BY <1>6 DEF Signals
<1>8. Signals = {}
  BY <1>2, FiniteSignals, FS_EmptySet
<1> QED BY <1>7, <1>8

(* The waits and the signals that end them.                                   *)
LEMMA WaitStep ==
  ASSUME Inv, NEW t \in Threads,
         \/ KeWaitForSingleObject(t) \/ KeReleaseSemaphore(t) \/ KeSetEventBoostPriority(t)
  PROVE  RWStep
<1>1. CASE KeWaitForSingleObject(t)
  <2>1. UNCHANGED exclusive
    BY <1>1 DEF KeWaitForSingleObject, Untouched
  <2>2. PICK W : W = {t}
    OBVIOUS
  <2>3. CASE Satisfied({t}, pc)
    <3>1. (request[t] = "shared" /\ UNCHANGED held) \/ request[t] # "shared" \/ semaphore > 0
      BY <1>1 DEF KeWaitForSingleObject
    <3>2. CASE UNCHANGED held
      BY <2>1, <3>2, SilentStep
    <3>3. CASE request[t] # "shared" \/ semaphore > 0
      <4>1. (\E v \in W : request[v] = "shared") => ~exclusive
        BY <2>2, <3>3, FlightShared
      <4> QED BY <2>1, <2>2, <2>3, <4>1, SatisfiedStep
    <3> QED BY <3>1, <3>2, <3>3
  <2>4. CASE UNCHANGED held
    BY <2>1, <2>4, SilentStep
  <2> QED BY <1>1, <2>3, <2>4 DEF KeWaitForSingleObject
<1>2. CASE KeReleaseSemaphore(t)
  <2> DEFINE list == waitList["semaphore"]
             count == semaphore + number[t]
             n == IF count < Len(list) THEN count ELSE Len(list)
  <2>1. /\ pc[t] = "semaphore" /\ Satisfied({list[i] : i \in 1..n}, [pc EXCEPT ![t] = "idle"])
        /\ UNCHANGED exclusive
    BY <1>2 DEF KeReleaseSemaphore, Untouched
  <2>2. ~exclusive
    BY <2>1, FlightShared
  <2>3. list \in Seq(Threads) /\ semaphore \in Nat /\ number[t] \in Nat
    BY DEF Inv, TypeOK
  <2>4. \A i \in 1..n : i \in 1..Len(list)
    BY <2>3, LenProperties
  <2>5. {list[i] : i \in 1..n} \in SUBSET Threads
    BY <2>3, <2>4, ElementOfSeq
  <2>6. PICK W, at : W = {list[i] : i \in 1..n} /\ at = [pc EXCEPT ![t] = "idle"]
    OBVIOUS
  <2> HIDE DEF list, n
  <2> QED BY <2>1, <2>2, <2>5, <2>6, SatisfiedStep
<1>3. CASE KeSetEventBoostPriority(t)
  <2> DEFINE list == waitList["event"]
  <2>1. UNCHANGED exclusive
    BY <1>3 DEF KeSetEventBoostPriority, Untouched
  <2>2. CASE UNCHANGED held
    BY <2>1, <2>2, SilentStep
  <2>3. CASE list # <<>> /\ Satisfied({Head(list)}, [pc EXCEPT ![t] = "idle"])
    <3>1. list \in Seq(Threads) /\ Once(list)
      BY DEF Inv, TypeOK, ListsOK
    <3>2. Head(list) \in Threads /\ Head(list) \in Items(list)
      BY <2>3, <3>1, TailItems
    <3>3. request[Head(list)] # "shared"
      BY <3>2 DEF Inv, ListsOK, ListOf
    <3>4. PICK W, at : W = {Head(list)} /\ at = [pc EXCEPT ![t] = "idle"]
      OBVIOUS
    <3> HIDE DEF list
    <3> QED BY <2>1, <2>3, <3>2, <3>3, <3>4, SatisfiedStep
  <2> QED BY <1>3, <2>2, <2>3 DEF KeSetEventBoostPriority
<1> QED BY <1>1, <1>2, <1>3

(* A waiter completes its acquisition after its wait.                         *)
LEMMA FinishStep ==
  ASSUME Inv, NEW t \in Threads, StoreOwner(t) \/ Relock(t)
  PROVE  RWStep
<1>1. Acquired(t) /\ UNCHANGED exclusive
  BY DEF StoreOwner, Relock, Untouched
<1>2. Admits({t}) /\ t \in Owners
  BY <1>1, AdmitsOne
<1>3. CASE StoreOwner(t)
  <2>1. t \in At({"store"}) /\ t \in Counted
    BY <1>3 DEF StoreOwner, At, Counted
  <2>2. exclusive /\ active = 1 /\ held[t] = 0
    BY <1>3, <2>1 DEF Inv, FirstOK, CountsOK, Placed, StoreOwner
  <2>3. Counted = {t}
    BY <2>1, <2>2, Alone
  <2>4. \A o \in Owners : held[o] = 0
    <3>1. held \in [Owners -> Nat]
      BY DEF Inv, TypeOK
    <3>2. \A o \in Owners : held[o] > 0 => o = t
      BY <2>3 DEF Counted
    <3> QED BY <2>2, <3>1, <3>2
  <2> QED BY <1>1, <1>2, <2>2, <2>4, WriterStep
<1>4. CASE Relock(t)
  <2>1. t \in At({"relock"})
    BY <1>4 DEF Relock, At
  <2>2. ~exclusive
    BY <2>1 DEF Inv, CountsOK
  <2>3. PICK R : R = {t}
    OBVIOUS
  <2> QED BY <1>1, <1>2, <2>2, <2>3, ReaderStep
<1> QED BY <1>3, <1>4

(* Whatever the resource does is a step of a reader/writer lock, or none.     *)
LEMMA NextStep == Inv /\ [Next]_vars => [RW!RWNext]_<<held, Writer>>
<1> SUFFICES ASSUME Inv, [Next]_vars PROVE RWStep
  BY DEF RWStep
<1>1. ASSUME NEW t \in Threads, NEW Wait \in Waits,
             \/ ExAcquireResourceExclusiveLite(t, Wait) \/ ExAcquireResourceSharedLite(t, Wait)
             \/ ExAcquireSharedStarveExclusive(t, Wait) \/ ExAcquireSharedWaitForExclusive(t, Wait)
      PROVE  RWStep
  BY <1>1, AcquireStep
<1>2. ASSUME NEW t \in Threads, ExReleaseResourceLite(t) PROVE RWStep
  BY <1>2, ReleasesStep DEF ExReleaseResourceLite, Owners
<1>3. ASSUME NEW t \in Threads, NEW o \in Owners, ExReleaseResourceForThreadLite(t, o) PROVE RWStep
  BY <1>3, ReleasesStep DEF ExReleaseResourceForThreadLite
<1>4. ASSUME NEW t \in Threads, NEW p \in Pointers, ExSetResourceOwnerPointer(t, p) PROVE RWStep
  BY <1>4, TransferStep
<1>5. ASSUME NEW t \in Threads,
             \/ ExConvertExclusiveToSharedLite(t) \/ KeWaitForSingleObject(t)
             \/ KeReleaseSemaphore(t) \/ KeSetEventBoostPriority(t)
             \/ StoreOwner(t) \/ Relock(t)
      PROVE  RWStep
  BY <1>5, ConvertStep, WaitStep, FinishStep
<1>6. ASSUME NEW t \in Threads,
             Timeout(t) \/ BoostOwners(t) \/ ExpBoostOwnerThread(t) \/ KeTerminateThread(t)
      PROVE  RWStep
  <2>1. UNCHANGED <<held, exclusive>>
    BY <1>6 DEF Timeout, BoostOwners, ExpBoostOwnerThread, KeTerminateThread, Untouched
  <2> QED BY <2>1, SilentStep
<1>7. CASE ExDisableResourceBoostLite \/ ExDeleteResourceLite \/ UNCHANGED vars
  <2>1. UNCHANGED <<held, exclusive>>
    BY <1>7 DEF ExDisableResourceBoostLite, ExDeleteResourceLite, resource, vars
  <2> QED BY <2>1, SilentStep
<1>8. CASE ExInitializeResourceLite \/ ExReinitializeResourceLite
  <2>1. active = 0 /\ UNCHANGED held
    BY <1>8 DEF ExInitializeResourceLite, ExReinitializeResourceLite, Reset, Unused, Inv, CountsOK
  <2>2. \A o \in Owners : ~(held[o] > 0)
    BY <2>1, Nobody
  <2> QED BY <2>1, <2>2, SilentStep
<1> QED BY <1>1, <1>2, <1>3, <1>4, <1>5, <1>6, <1>7, <1>8 DEF Next

(* ImplementsRWLock: the callers of the acquire, release, convert and         *)
(* transfer routines see a reader/writer lock, whatever is in flight.         *)
THEOREM Refinement == Spec => ImplementsRWLock
<1>1. Init => RW!RWInit
  <2> SUFFICES ASSUME Init PROVE RW!RWInit
    OBVIOUS
  <2>1. ~exclusive /\ held = [o \in Owners |-> 0]
    BY DEF Init
  <2> QED BY <2>1, WriterNow DEF RW!RWInit
<1> QED BY <1>1, NextStep, Invariance, PTL DEF Spec, ImplementsRWLock, RW!RWSpec
=============================================================================
