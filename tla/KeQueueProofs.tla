--------------------------- MODULE KeQueueProofs ---------------------------
(* Theorems about KeQueue for any number of threads, queues and entries.      *)
EXTENDS KeQueue, TLAPS, FiniteSetTheorems, SequenceTheorems

-----------------------------------------------------------------------------
(* The operators on wait lists.                                               *)

Injective(s) == \A i, j \in 1..Len(s) : s[i] = s[j] => i = j

(* The newest waiter is one of the list, and Front is the list without it.    *)
LEMMA FrontLast ==
  ASSUME NEW T, NEW s \in Seq(T), s # <<>>
  PROVE  /\ Last(s) \in T
         /\ Len(s) \in Nat \ {0} /\ Last(s) = s[Len(s)]
         /\ Front(s) \in Seq(T)
         /\ Len(Front(s)) = Len(s) - 1
         /\ \A i \in 1..Len(Front(s)) : Front(s)[i] = s[i]
<1>1. Len(s) \in Nat \ {0} /\ s \in [1..Len(s) -> T]
  BY EmptySeq, LenProperties
<1>2. \A i \in 1..(Len(s) - 1) : s[i] \in T
  BY <1>1
<1>3. /\ SubSeq(s, 1, Len(s) - 1) \in Seq(T)
      /\ Len(SubSeq(s, 1, Len(s) - 1)) = IF 1 <= Len(s) - 1 THEN (Len(s) - 1) - 1 + 1 ELSE 0
      /\ \A i \in 1..((Len(s) - 1) - 1 + 1) : SubSeq(s, 1, Len(s) - 1)[i] = s[1 + i - 1]
  <2>1. Len(s) - 1 \in Int /\ 1 \in Int
    BY <1>1
  <2> QED BY <2>1, <1>2, SubSeqProperties
<1> QED BY <1>1, <1>3 DEF Front, Last

(* Removing a wait block leaves the others, in their order.                   *)
LEMMA WithoutProperties ==
  ASSUME NEW T, NEW s \in Seq(T), NEW u, Injective(s)
  PROVE  /\ Without(s, u) \in Seq(T)
         /\ Len(Without(s, u)) <= Len(s)
         /\ Injective(Without(s, u))
         /\ \A i \in 1..Len(Without(s, u)) :
              Without(s, u)[i] # u /\ \E j \in 1..Len(s) : Without(s, u)[i] = s[j]
<1>1. Len(s) \in Nat /\ s \in [1..Len(s) -> T]
  BY LenProperties
<1>2. CASE \E i \in 1..Len(s) : s[i] = u
  <2> DEFINE k == CHOOSE i \in 1..Len(s) : s[i] = u
             n == Len(s) - 1
             r == [j \in 1..n |-> IF j < k THEN s[j] ELSE s[j + 1]]
  <2>1. k \in 1..Len(s) /\ s[k] = u
    BY <1>2
  <2>0. Without(s, u) = RemoveAt(s, k)
    BY <1>2 DEF Without
  <2> HIDE DEF k
  <2>3. n \in Nat
    BY <1>1, <2>1
  <2>4. \A j \in 1..n : IF j < k THEN j \in 1..Len(s) ELSE j + 1 \in 1..Len(s)
    BY <1>1, <2>1
  <2>5. r \in [1..n -> T]
    BY <1>1, <2>4
  <2>6. r \in Seq(T) /\ Len(r) = n
    BY <2>3, <2>5, SeqDef
  <2>7. \A j \in 1..n : r[j] = IF j < k THEN s[j] ELSE s[j + 1]
    BY DEF r
  <2> HIDE DEF r
  <2>2. Without(s, u) = r
    <3> DEFINE a == SubSeq(s, 1, k - 1)
               b == SubSeq(s, k + 1, Len(s))
    <3>1. k - 1 \in Int /\ k + 1 \in Int /\ Len(s) \in Int /\ 1 \in Int
      BY <1>1, <2>1
    <3>2. /\ \A i \in 1..(k - 1) : s[i] \in T
          /\ \A i \in (k + 1)..Len(s) : s[i] \in T
      BY <1>1, <2>1
    <3>3. /\ a \in Seq(T)
          /\ Len(a) = IF 1 <= k - 1 THEN (k - 1) - 1 + 1 ELSE 0
          /\ \A i \in 1..((k - 1) - 1 + 1) : a[i] = s[1 + i - 1]
      BY <3>1, <3>2, SubSeqProperties
    <3>4. /\ b \in Seq(T)
          /\ Len(b) = IF k + 1 <= Len(s) THEN Len(s) - (k + 1) + 1 ELSE 0
          /\ \A i \in 1..(Len(s) - (k + 1) + 1) : b[i] = s[(k + 1) + i - 1]
      BY <3>1, <3>2, SubSeqProperties
    <3>5. RemoveAt(s, k) = a \o b
      BY DEF RemoveAt
    <3> HIDE DEF a, b
    <3>6. /\ a \o b \in Seq(T)
          /\ Len(a \o b) = Len(a) + Len(b)
          /\ \A i \in 1..(Len(a) + Len(b)) :
               (a \o b)[i] = IF i <= Len(a) THEN a[i] ELSE b[i - Len(a)]
      BY <3>3, <3>4, ConcatProperties
    <3>7. Len(a) = k - 1 /\ Len(b) = Len(s) - k
      <4>1. Len(a) = IF 1 <= k - 1 THEN (k - 1) - 1 + 1 ELSE 0
        BY <3>3
      <4>2. Len(b) = IF k + 1 <= Len(s) THEN Len(s) - (k + 1) + 1 ELSE 0
        BY <3>4
      <4>3. k \in Int /\ 1 <= k /\ k <= Len(s) /\ Len(s) \in Int
        BY <1>1, <2>1
      <4> QED BY <4>1, <4>2, <4>3
    <3>8. ASSUME NEW i \in 1..n PROVE (a \o b)[i] = r[i]
      <4>1. /\ k \in Int /\ 1 <= k /\ k <= Len(s) /\ Len(s) \in Int
            /\ i \in Int /\ 1 <= i /\ i <= Len(s) - 1
        BY <1>1, <2>1
      <4>2. i \in 1..(Len(a) + Len(b))
        BY <3>7, <4>1
      <4>3. (a \o b)[i] = IF i <= Len(a) THEN a[i] ELSE b[i - Len(a)]
        BY <3>6, <4>2
      <4>4. CASE i < k
        <5>1. i \in 1..((k - 1) - 1 + 1) /\ 1 + i - 1 = i /\ i <= k - 1
          BY <4>1, <4>4
        <5>2. a[i] = s[1 + i - 1]
          BY <3>3, <5>1
        <5> QED BY <2>7, <3>7, <4>3, <4>4, <5>1, <5>2
      <4>5. CASE ~(i < k)
        <5>1. /\ i - (k - 1) \in 1..(Len(s) - (k + 1) + 1)
              /\ (k + 1) + (i - (k - 1)) - 1 = i + 1 /\ ~(i <= k - 1)
          BY <4>1, <4>5
        <5>2. b[i - (k - 1)] = s[(k + 1) + (i - (k - 1)) - 1]
          BY <3>4, <5>1
        <5> QED BY <2>7, <3>7, <4>3, <4>5, <5>1, <5>2
      <4> QED BY <4>4, <4>5
    <3>9. Len(a \o b) = Len(r)
      BY <1>1, <2>1, <2>6, <3>6, <3>7
    <3> QED BY <2>0, <2>6, <3>5, <3>6, <3>8, <3>9, SeqEqual
  <2> DEFINE at(j) == IF j < k THEN j ELSE j + 1
  <2>10. ASSUME NEW j \in 1..n
         PROVE  at(j) \in 1..Len(s) /\ at(j) # k /\ r[j] = s[at(j)]
    <3>1. r[j] = s[at(j)]
      BY <2>7
    <3>2. /\ k \in Int /\ 1 <= k /\ k <= Len(s) /\ Len(s) \in Int
          /\ j \in Int /\ 1 <= j /\ j <= Len(s) - 1
      BY <1>1, <2>1
    <3>3. at(j) \in 1..Len(s) /\ at(j) # k
      BY <3>2
    <3> QED BY <3>1, <3>3
  <2>11. ASSUME NEW i \in 1..n, NEW j \in 1..n, at(i) = at(j) PROVE i = j
    <3>1. k \in Int /\ i \in Int /\ j \in Int
      BY <2>1
    <3> QED BY <2>11, <3>1
  <2> HIDE DEF at
  <2>12. \A i, j \in 1..Len(s) : s[i] = s[j] => i = j
    BY DEF Injective
  <2>8. \A i, j \in 1..n : r[i] = r[j] => i = j
    BY <2>10, <2>11, <2>12
  <2>9. ASSUME NEW i \in 1..n PROVE r[i] # u /\ \E j \in 1..Len(s) : r[i] = s[j]
    <3>1. at(i) \in 1..Len(s) /\ at(i) # k /\ r[i] = s[at(i)]
      BY <2>10
    <3>2. s[at(i)] # s[k]
      BY <2>1, <2>12, <3>1
    <3> QED BY <2>1, <3>1, <3>2
  <2>13. /\ r \in Seq(T) /\ Len(r) <= Len(s) /\ Injective(r)
         /\ \A i \in 1..Len(r) : r[i] # u /\ \E j \in 1..Len(s) : r[i] = s[j]
    <3>1. Len(r) = n /\ r \in Seq(T)
      BY <2>6
    <3>2. n <= Len(s)
      BY <1>1
    <3> HIDE DEF n
    <3>3. Injective(r)
      BY <2>8, <3>1 DEF Injective
    <3> QED BY <2>9, <3>1, <3>2, <3>3
  <2> HIDE DEF n
  <2> QED BY <2>2, <2>13
<1>3. CASE ~\E i \in 1..Len(s) : s[i] = u
  BY <1>1, <1>3 DEF Without
<1> QED BY <1>2, <1>3

-----------------------------------------------------------------------------
(* The inductive invariant.                                                   *)

(* A thread inside KeRemoveQueue is associated with a queue; only a thread    *)
(* that runs an APC, or waits in one, has to return anywhere.                 *)
Located ==
  \A t \in Threads :
    /\ InRemove(t) => queue[t] # NoQueue
    /\ pc[t] \notin {"apc", "block"} => resume[t] = "run"
    /\ pc[t] = "apc" => resume[t] # "run"

(* The member lists name live threads and agree with Thread->Queue, and no    *)
(* live thread refers to a queue that was run down.                           *)
Associated ==
  /\ \A q \in Queues : \A t \in members[q] :
       queue[t] = q /\ pc[t] \notin {"dead", "none"}
  /\ \A t \in Threads : pc[t] \notin {"dead", "none"} /\ queue[t] # NoQueue
                          => live[queue[t]] /\ t \in members[queue[t]]

(* Who is in a wait list waits on that queue, once.                           *)
WaitListsOK ==
  \A q \in Queues :
    /\ \A i \in 1..Len(waiters[q]) : pc[waiters[q][i]] = "wait" /\ queue[waiters[q][i]] = q
    /\ Injective(waiters[q])

(* The reaper's list holds dead or dying threads, once each.                  *)
ReaperListOK ==
  /\ \A i \in 1..Len(reaperList) : pc[reaperList[i]] \in {"term", "dead"}
  /\ Injective(reaperList)

(* NoStrandedWork for every queue whose own thread does not have the lock, so *)
(* that it can be carried through a locked section of several steps.          *)
Settled(q) == \A t \in Threads : ~(pc[t] \in {"loop", "term"} /\ queue[t] = q)
NotStranded ==
  \A q \in Queues :
    live[q] /\ Settled(q) /\ entries[q] # <<>> /\ waiters[q] # <<>> => count[q] > 0

Shape == Located /\ Associated /\ WaitListsOK /\ TimerOnlyInWait /\ ReaperListOK
Inv == TypeOK /\ Shape /\ CountExact /\ NotStranded

-----------------------------------------------------------------------------
(* Counting the active threads of a queue.                                    *)

(* A thread more or less in a set of threads changes its size by one.         *)
LEMMA OneThread ==
  ASSUME NEW S \in SUBSET Threads, NEW t \in Threads
  PROVE  /\ Cardinality(S) \in Nat
         /\ t \notin S => Cardinality(S \cup {t}) = Cardinality(S) + 1
         /\ t \in S => Cardinality(S \ {t}) = Cardinality(S) - 1 /\ Cardinality(S) > 0
<1>1. IsFiniteSet(S) /\ Cardinality(S) \in Nat
  BY ConstantsAssumption, FS_Subset, FS_CardinalityType
<1>2. t \in S => Cardinality(S) # 0
  BY <1>1, FS_EmptySet
<1>3. t \notin S => Cardinality(S \cup {t}) = Cardinality(S) + 1
  BY <1>1, FS_AddElement
<1>4. t \in S => Cardinality(S \ {t}) = Cardinality(S) - 1
  BY <1>1, FS_RemoveElement
<1> QED BY <1>1, <1>2, <1>3, <1>4

(* An active thread is counted.                                               *)
LEMMA ActiveCounted ==
  ASSUME TypeOK, CountExact, NEW t \in Threads, NEW q \in Queues,
         live[q], queue[t] = q, Active(t)
  PROVE  count[q] > 0
<1>1. ActiveIn(q) \in SUBSET Threads /\ t \in ActiveIn(q)
  BY DEF ActiveIn
<1>2. count[q] = Cardinality(ActiveIn(q))
  BY DEF CountExact
<1> QED BY <1>1, <1>2, OneThread

(* CurrentCount of a queue that exists is never negative.                     *)
LEMMA CountNotNegative ==
  ASSUME CountExact, NEW q \in Queues, live[q]
  PROVE  count[q] \in Nat
<1>1. ActiveIn(q) \in SUBSET Threads
  BY DEF ActiveIn
<1>2. IsFiniteSet(ActiveIn(q))
  BY <1>1, ConstantsAssumption, FS_Subset
<1> QED BY <1>2, FS_CardinalityType DEF CountExact

ActivePcs == {"run", "ready", "apc", "retry", "term"}

(* Every other thread stays where it is, as far as the counts can see.        *)
Undisturbed(t) == \A u \in Threads \ {t} :
                    queue'[u] = queue[u] /\ (pc'[u] \in ActivePcs <=> pc[u] \in ActivePcs)

(* A step in which no thread stops or starts to be active leaves the counts   *)
(* right.                                                                     *)
LEMMA CountSame ==
  ASSUME CountExact, NEW t \in Threads, Undisturbed(t),
         pc'[t] \in ActivePcs <=> pc[t] \in ActivePcs,
         queue'[t] = queue[t] \/ pc'[t] \notin ActivePcs,
         UNCHANGED <<live, count>>
  PROVE  CountExact'
<1>1. ASSUME NEW q \in Queues PROVE ActiveIn(q)' = ActiveIn(q)
  BY DEF ActiveIn, Active, ActivePcs, Undisturbed
<1> QED BY <1>1 DEF CountExact

(* A thread becomes active and its queue's count rises.                       *)
LEMMA CountUp ==
  ASSUME TypeOK, CountExact, NEW t \in Threads, NEW p \in Queues, Undisturbed(t),
         pc[t] \notin ActivePcs, pc'[t] \in ActivePcs,
         queue'[t] = p, count' = [count EXCEPT ![p] = @ + 1], live' = live
  PROVE  CountExact'
<1>1. ASSUME NEW q \in Queues PROVE ActiveIn(q) \in SUBSET Threads /\ t \notin ActiveIn(q)
  BY DEF ActiveIn, Active, ActivePcs
<1>2. ASSUME NEW q \in Queues, q # p PROVE ActiveIn(q)' = ActiveIn(q)
  BY <1>2 DEF ActiveIn, Active, ActivePcs, Undisturbed
<1>3. ActiveIn(p)' = ActiveIn(p) \cup {t}
  BY DEF ActiveIn, Active, ActivePcs, Undisturbed
<1>4. Cardinality(ActiveIn(p)') = Cardinality(ActiveIn(p)) + 1
  BY <1>1, <1>3, OneThread
<1>5. ASSUME NEW q \in Queues
      PROVE  count'[q] = IF q = p THEN count[q] + 1 ELSE count[q]
  BY DEF TypeOK
<1> QED BY <1>2, <1>4, <1>5 DEF CountExact

(* An active thread stops and its queue's count falls.                        *)
LEMMA CountDown ==
  ASSUME TypeOK, CountExact, NEW t \in Threads, NEW p \in Queues, Undisturbed(t),
         pc[t] \in ActivePcs, pc'[t] \notin ActivePcs, queue[t] = p,
         count' = [count EXCEPT ![p] = @ - 1], live' = live
  PROVE  CountExact'
<1>1. ActiveIn(p) \in SUBSET Threads /\ t \in ActiveIn(p)
  BY DEF ActiveIn, Active, ActivePcs
<1>2. ASSUME NEW q \in Queues, q # p PROVE ActiveIn(q)' = ActiveIn(q)
  BY <1>2 DEF ActiveIn, Active, ActivePcs, Undisturbed
<1>3. ActiveIn(p)' = ActiveIn(p) \ {t}
  BY DEF ActiveIn, Active, ActivePcs, Undisturbed
<1>4. Cardinality(ActiveIn(p)') = Cardinality(ActiveIn(p)) - 1
  BY <1>1, <1>3, OneThread
<1>5. ASSUME NEW q \in Queues
      PROVE  count'[q] = IF q = p THEN count[q] - 1 ELSE count[q]
  BY DEF TypeOK
<1> QED BY <1>2, <1>4, <1>5 DEF CountExact

(* One thread of the queue stops and another one goes on in its place.        *)
LEMMA CountSwap ==
  ASSUME TypeOK, CountExact, NEW t \in Threads, NEW u \in Threads, NEW p \in Queues,
         t # u, pc[t] \in ActivePcs, pc'[t] \notin ActivePcs, queue[t] = p,
         pc[u] \notin ActivePcs, pc'[u] \in ActivePcs, queue[u] = p, queue'[u] = p,
         \A v \in Threads \ {t, u} : queue'[v] = queue[v] /\ pc'[v] = pc[v],
         UNCHANGED <<count, live>>
  PROVE  CountExact'
<1>1. /\ ActiveIn(p) \in SUBSET Threads /\ t \in ActiveIn(p) /\ u \notin ActiveIn(p)
      /\ ActiveIn(p) \ {t} \in SUBSET Threads /\ u \notin ActiveIn(p) \ {t}
  BY DEF ActiveIn, Active, ActivePcs
<1>2. ASSUME NEW q \in Queues, q # p PROVE ActiveIn(q)' = ActiveIn(q)
  BY <1>2 DEF ActiveIn, Active, ActivePcs
<1>3. ActiveIn(p)' = (ActiveIn(p) \ {t}) \cup {u}
  BY DEF ActiveIn, Active, ActivePcs
<1>4. /\ Cardinality(ActiveIn(p)) \in Nat
      /\ Cardinality(ActiveIn(p) \ {t}) = Cardinality(ActiveIn(p)) - 1
  BY <1>1, OneThread
<1>5. Cardinality(ActiveIn(p)') = Cardinality(ActiveIn(p) \ {t}) + 1
  BY <1>1, <1>3, OneThread
<1> QED BY <1>2, <1>4, <1>5 DEF CountExact

-----------------------------------------------------------------------------
(* What the services of the dispatcher do to the lists.                       *)

(* No list gains a thread and u is in none.                                   *)
Shrinks(u) ==
  \A q \in Queues :
    /\ Injective(waiters'[q])
    /\ waiters'[q] # <<>> => waiters[q] # <<>>
    /\ \A i \in 1..Len(waiters'[q]) :
         waiters'[q][i] # u /\ \E j \in 1..Len(waiters[q]) : waiters'[q][i] = waiters[q][j]

(* u, which waited on q, is ready.                                            *)
Woken(at, u, q) ==
  /\ u \in Threads /\ pc[u] = "wait" /\ queue[u] = q
  /\ pc' = [at EXCEPT ![u] = "ready"]
  /\ timer' = [timer EXCEPT ![u] = FALSE]
  /\ Shrinks(u)

ServiceTypes ==
  /\ entries' \in [Queues -> Seq(Entries)]
  /\ signal' \in [Queues -> Int]
  /\ count' \in [Queues -> Int]
  /\ waiters' \in [Queues -> Seq(Threads)]
  /\ status' \in [Threads -> Statuses]
  /\ timer' \in [Threads -> BOOLEAN]

(* The thread that is activated, the last of a wait list, waits on that       *)
(* queue.                                                                     *)
LEMMA NewestWaiter ==
  ASSUME TypeOK, WaitListsOK, NEW q \in Queues, waiters[q] # <<>>
  PROVE  /\ Last(waiters[q]) \in Threads
         /\ pc[Last(waiters[q])] = "wait" /\ queue[Last(waiters[q])] = q
<1>1. waiters[q] \in Seq(Threads)
  BY DEF TypeOK
<1>2. /\ Last(waiters[q]) \in Threads
      /\ Len(waiters[q]) \in Nat \ {0} /\ Last(waiters[q]) = waiters[q][Len(waiters[q])]
  BY <1>1, FrontLast
<1>3. Len(waiters[q]) \in 1..Len(waiters[q])
  BY <1>2
<1> QED BY <1>2, <1>3 DEF WaitListsOK

(* The wait lists after KiUnwaitThread has removed the wait block of u.       *)
LEMMA ListsWithout ==
  ASSUME TypeOK, WaitListsOK, NEW u \in Threads,
         waiters' = [q \in Queues |-> Without(waiters[q], u)]
  PROVE  waiters' \in [Queues -> Seq(Threads)] /\ Shrinks(u)
<1>1. ASSUME NEW q \in Queues
      PROVE  /\ waiters'[q] \in Seq(Threads)
             /\ Injective(waiters'[q])
             /\ waiters'[q] # <<>> => waiters[q] # <<>>
             /\ \A i \in 1..Len(waiters'[q]) :
                  waiters'[q][i] # u
                  /\ \E j \in 1..Len(waiters[q]) : waiters'[q][i] = waiters[q][j]
  <2> DEFINE s == waiters[q]
             r == Without(s, u)
  <2>1. s \in Seq(Threads) /\ Injective(s)
    BY DEF TypeOK, WaitListsOK
  <2>2. waiters'[q] = r
    OBVIOUS
  <2>3. /\ r \in Seq(Threads) /\ Len(r) <= Len(s) /\ Injective(r)
        /\ \A i \in 1..Len(r) : r[i] # u /\ \E j \in 1..Len(s) : r[i] = s[j]
    BY <2>1, WithoutProperties
  <2>4. r # <<>> => s # <<>>
    <3>1. Len(r) \in Nat /\ Len(s) \in Nat
      BY <2>1, <2>3, LenProperties
    <3>2. r # <<>> => Len(r) # 0
      BY <2>3, EmptySeq
    <3>3. s = <<>> => Len(s) = 0
      BY EmptySeq
    <3> QED BY <2>3, <3>1, <3>2, <3>3
  <2> QED BY <2>2, <2>3, <2>4
<1>2. waiters' \in [Queues -> Seq(Threads)]
  BY <1>1
<1> QED BY <1>1, <1>2 DEF Shrinks

(* The wait lists after KiInsertQueue has removed the newest waiter.          *)
LEMMA ListsFront ==
  ASSUME TypeOK, WaitListsOK, NEW p \in Queues, waiters[p] # <<>>,
         waiters' = [waiters EXCEPT ![p] = Front(@)]
  PROVE  waiters' \in [Queues -> Seq(Threads)] /\ Shrinks(Last(waiters[p]))
<1> DEFINE s == waiters[p]
           u == Last(s)
<1>1. s \in Seq(Threads) /\ Injective(s) /\ Len(s) \in Nat
  BY LenProperties DEF TypeOK, WaitListsOK
<1>2. /\ u \in Threads /\ u = s[Len(s)]
      /\ Len(s) \in Nat \ {0} /\ Front(s) \in Seq(Threads) /\ Len(Front(s)) = Len(s) - 1
      /\ \A i \in 1..Len(Front(s)) : Front(s)[i] = s[i]
  BY <1>1, FrontLast
<1>3. \A i \in 1..Len(Front(s)) : i \in 1..Len(s) /\ i # Len(s)
  BY <1>2
<1>4. \A i \in 1..Len(Front(s)) : Front(s)[i] # u
  <2> SUFFICES ASSUME NEW i \in 1..Len(Front(s)) PROVE s[i] # s[Len(s)]
    BY <1>2
  <2>1. i \in 1..Len(s) /\ i # Len(s)
    BY <1>3
  <2>2. Len(s) \in 1..Len(s)
    BY <1>2
  <2> QED BY <1>1, <2>1, <2>2 DEF Injective
<1>5. Injective(Front(s))
  BY <1>1, <1>2, <1>3 DEF Injective
<1>6. ASSUME NEW q \in Queues, q # p
      PROVE  /\ waiters'[q] = waiters[q] /\ waiters[q] \in Seq(Threads)
             /\ Injective(waiters[q])
             /\ \A i \in 1..Len(waiters[q]) : waiters[q][i] # u
  <2>1. waiters'[q] = waiters[q] /\ waiters[q] \in Seq(Threads)
    BY <1>6 DEF TypeOK
  <2>2. \A i \in 1..Len(waiters[q]) : queue[waiters[q][i]] = q
    BY DEF WaitListsOK
  <2>3. queue[u] = p
    BY NewestWaiter
  <2> QED BY <1>6, <2>1, <2>2, <2>3 DEF WaitListsOK
<1>7. waiters'[p] = Front(s)
  BY DEF TypeOK
<1> HIDE DEF s, u
<1>8. waiters' \in [Queues -> Seq(Threads)]
  <2>1. waiters' = [q \in Queues |-> waiters'[q]]
    BY DEF TypeOK
  <2> QED BY <1>2, <1>6, <1>7, <2>1
<1>9. ASSUME NEW q \in Queues
      PROVE  /\ Injective(waiters'[q])
             /\ waiters'[q] # <<>> => waiters[q] # <<>>
             /\ \A i \in 1..Len(waiters'[q]) :
                  waiters'[q][i] # u
                  /\ \E j \in 1..Len(waiters[q]) : waiters'[q][i] = waiters[q][j]
  <2>1. CASE q = p
    BY <1>2, <1>3, <1>4, <1>5, <1>7, <2>1 DEF s
  <2>2. CASE q # p
    BY <1>6, <2>2
  <2> QED BY <2>1, <2>2
<1> QED BY <1>8, <1>9 DEF Shrinks, s, u

(* KiUnwaitThread on a thread that waits on a queue.                          *)
LEMMA KiUnwaitThreadFacts ==
  ASSUME TypeOK, WaitListsOK, NEW u \in Threads, NEW s \in Statuses,
         NEW q \in Queues, pc[u] = "wait", queue[u] = q,
         KiUnwaitThread(pc, count, u, s), UNCHANGED <<entries, signal>>
  PROVE  /\ ServiceTypes /\ Woken(pc, u, q)
         /\ count' = [count EXCEPT ![q] = @ + 1]
<1>1. waiters' \in [Queues -> Seq(Threads)] /\ Shrinks(u)
  BY ListsWithout DEF KiUnwaitThread
<1>2. count' = [count EXCEPT ![q] = @ + 1]
  BY ConstantsAssumption DEF KiUnwaitThread
<1>3. /\ entries' \in [Queues -> Seq(Entries)] /\ signal' \in [Queues -> Int]
      /\ count' \in [Queues -> Int] /\ status' \in [Threads -> Statuses]
      /\ timer' \in [Threads -> BOOLEAN]
  BY <1>2 DEF KiUnwaitThread, TypeOK
<1> QED BY <1>1, <1>2, <1>3 DEF KiUnwaitThread, Woken, ServiceTypes

(* KiActivateWaiterQueue wakes a thread in place of the caller, or counts     *)
(* one less.                                                                  *)
LEMMA KiActivateWaiterQueueFacts ==
  ASSUME TypeOK, WaitListsOK, NEW at, NEW q \in Queues, KiActivateWaiterQueue(at, q)
  PROVE  /\ ServiceTypes
         /\ \A p \in Queues \ {q} : entries'[p] = entries[p]
         /\ \/ /\ \E u \in Threads : Woken(at, u, q)
               /\ count' = count
            \/ /\ pc' = at
               /\ count' = [count EXCEPT ![q] = @ - 1]
               /\ count'[q] >= maximum[q] \/ entries[q] = <<>> \/ waiters[q] = <<>>
               /\ UNCHANGED <<entries, signal, waiters, status, timer>>
<1> DEFINE cnt == [count EXCEPT ![q] = @ - 1]
<1>1. cnt \in [Queues -> Int] /\ cnt[q] = count[q] - 1
  BY DEF TypeOK
<1>2. CASE cnt[q] < maximum[q] /\ entries[q] # <<>> /\ waiters[q] # <<>>
  <2> DEFINE u == Last(waiters[q])
             e == Head(entries[q])
  <2>1. u \in Threads /\ pc[u] = "wait" /\ queue[u] = q
    BY <1>2, NewestWaiter
  <2>2. entries[q] \in Seq(Entries)
    BY DEF TypeOK
  <2>3. e \in Entries /\ Tail(entries[q]) \in Seq(Entries)
    BY <1>2, <2>2, HeadTailProperties
  <2>4. /\ entries' = [entries EXCEPT ![q] = Tail(@)]
        /\ signal' = [signal EXCEPT ![q] = @ - 1]
        /\ KiUnwaitThread(at, cnt, u, e)
    BY <1>2 DEF KiActivateWaiterQueue
  <2>5. waiters' \in [Queues -> Seq(Threads)] /\ Shrinks(u)
    BY <2>1, <2>4, ListsWithout DEF KiUnwaitThread
  <2>6. count' = [cnt EXCEPT ![q] = @ + 1]
    BY <2>1, <2>4, ConstantsAssumption DEF KiUnwaitThread
  <2>7. count' = count
    BY <1>1, <2>6 DEF TypeOK
  <2> HIDE DEF u, e
  <2>8. /\ entries' \in [Queues -> Seq(Entries)] /\ signal' \in [Queues -> Int]
        /\ \A p \in Queues \ {q} : entries'[p] = entries[p]
    BY <2>3, <2>4 DEF TypeOK
  <2>9. status' \in [Threads -> Statuses] /\ timer' \in [Threads -> BOOLEAN]
    BY <2>1, <2>3, <2>4 DEF TypeOK, KiUnwaitThread, Statuses
  <2>10. count' \in [Queues -> Int]
    BY <2>7 DEF TypeOK
  <2>11. Woken(at, u, q)
    BY <2>1, <2>4, <2>5 DEF Woken, KiUnwaitThread
  <2> QED BY <2>1, <2>5, <2>7, <2>8, <2>9, <2>10, <2>11 DEF ServiceTypes
<1>3. CASE ~(cnt[q] < maximum[q] /\ entries[q] # <<>> /\ waiters[q] # <<>>)
  <2>1. /\ count' = cnt /\ pc' = at
        /\ UNCHANGED <<entries, signal, waiters, status, timer>>
    BY <1>3 DEF KiActivateWaiterQueue
  <2>2. cnt[q] >= maximum[q] \/ entries[q] = <<>> \/ waiters[q] = <<>>
    BY <1>1, <1>3 DEF TypeOK
  <2> QED BY <1>1, <2>1, <2>2 DEF ServiceTypes, TypeOK
<1> QED BY <1>2, <1>3

(* KiInsertQueue wakes a thread, or has a reason to leave the entry queued.   *)
LEMMA KiInsertQueueFacts ==
  ASSUME TypeOK, WaitListsOK, NEW at, NEW c, NEW q \in Queues, NEW e \in Entries,
         NEW head, KiInsertQueue(at, c, q, e, head)
  PROVE  /\ ServiceTypes /\ reason' \in [Threads -> BOOLEAN]
         /\ \A p \in Queues \ {q} : entries'[p] = entries[p]
         /\ \/ /\ \E u \in Threads : Woken(at, u, q)
               /\ count' = [count EXCEPT ![q] = @ + 1]
            \/ /\ pc' = at
               /\ waiters[q] = <<>> \/ count[q] >= maximum[q] \/ (c # Idle /\ queue[c] = q)
               /\ UNCHANGED <<waiters, status, count, reason, timer>>
<1> DEFINE hand == /\ waiters[q] # <<>>
                   /\ count[q] < maximum[q]
                   /\ IF c = Idle THEN TRUE ELSE queue[c] # q \/ ~reason[c]
<1>1. CASE hand
  <2> DEFINE u == Last(waiters[q])
  <2>1. u \in Threads /\ pc[u] = "wait" /\ queue[u] = q
    BY <1>1, NewestWaiter
  <2>2. /\ waiters' = [waiters EXCEPT ![q] = Front(@)]
        /\ status' = [status EXCEPT ![u] = e]
        /\ count' = [count EXCEPT ![q] = @ + 1]
        /\ reason' = [reason EXCEPT ![u] = FALSE]
        /\ timer' = [timer EXCEPT ![u] = FALSE]
        /\ pc' = [at EXCEPT ![u] = "ready"]
        /\ UNCHANGED <<entries, signal>>
    BY <1>1 DEF KiInsertQueue
  <2>3. waiters' \in [Queues -> Seq(Threads)] /\ Shrinks(u)
    BY <1>1, <2>2, ListsFront
  <2> HIDE DEF u
  <2>4. Woken(at, u, q)
    BY <2>1, <2>2, <2>3 DEF Woken
  <2>5. /\ entries' \in [Queues -> Seq(Entries)] /\ signal' \in [Queues -> Int]
        /\ count' \in [Queues -> Int] /\ status' \in [Threads -> Statuses]
        /\ timer' \in [Threads -> BOOLEAN] /\ reason' \in [Threads -> BOOLEAN]
    BY <2>1, <2>2 DEF TypeOK, Statuses
  <2> QED BY <2>1, <2>2, <2>3, <2>4, <2>5 DEF ServiceTypes
<1>2. CASE ~hand
  <2>1. /\ signal' = [signal EXCEPT ![q] = @ + 1]
        /\ entries' = [entries EXCEPT ![q] = IF head THEN <<e>> \o @ ELSE Append(@, e)]
        /\ pc' = at
        /\ UNCHANGED <<waiters, status, count, reason, timer>>
    BY <1>2 DEF KiInsertQueue
  <2>2. entries[q] \in Seq(Entries) /\ <<e>> \in Seq(Entries)
    BY DEF TypeOK
  <2>3. <<e>> \o entries[q] \in Seq(Entries) /\ Append(entries[q], e) \in Seq(Entries)
    BY <2>2, ConcatProperties, AppendProperties
  <2>4. /\ entries' \in [Queues -> Seq(Entries)]
        /\ \A p \in Queues \ {q} : entries'[p] = entries[p]
    BY <2>1, <2>3 DEF TypeOK
  <2>5. waiters[q] = <<>> \/ count[q] >= maximum[q] \/ (c # Idle /\ queue[c] = q)
    BY <1>2 DEF TypeOK
  <2> QED BY <2>1, <2>4, <2>5 DEF TypeOK, ServiceTypes
<1> QED BY <1>1, <1>2

-----------------------------------------------------------------------------
(* Each action preserves the invariant.                                       *)

(* A step that leaves the lists and the waiting threads alone.                *)
LEMMA WaitListsKept ==
  ASSUME TypeOK, WaitListsOK, waiters' = waiters,
         \A v \in Threads : pc[v] = "wait" => pc'[v] = "wait" /\ queue'[v] = queue[v]
  PROVE  WaitListsOK'
<1>1. ASSUME NEW q \in Queues, NEW i \in 1..Len(waiters[q]) PROVE waiters[q][i] \in Threads
  <2>1. waiters[q] \in Seq(Threads)
    BY DEF TypeOK
  <2> QED BY <2>1, ElementOfSeq
<1> QED BY <1>1 DEF WaitListsOK, Injective

(* A step that only removes u from the wait lists.                            *)
LEMMA WaitListsShrink ==
  ASSUME TypeOK, WaitListsOK, NEW u, Shrinks(u),
         \A v \in Threads \ {u} :
           pc[v] = "wait" => pc'[v] = "wait" /\ queue'[v] = queue[v]
  PROVE  WaitListsOK'
<1>1. ASSUME NEW q \in Queues, NEW i \in 1..Len(waiters'[q])
      PROVE  pc'[waiters'[q][i]] = "wait" /\ queue'[waiters'[q][i]] = q
  <2>1. waiters[q] \in Seq(Threads)
    BY DEF TypeOK
  <2>2. /\ waiters'[q][i] # u
        /\ \E j \in 1..Len(waiters[q]) : waiters'[q][i] = waiters[q][j]
    BY DEF Shrinks
  <2>3. PICK j \in 1..Len(waiters[q]) : waiters'[q][i] = waiters[q][j]
    BY <2>2
  <2>4. waiters[q][j] \in Threads \ {u}
    BY <2>1, <2>2, <2>3, ElementOfSeq
  <2>5. pc[waiters[q][j]] = "wait" /\ queue[waiters[q][j]] = q
    BY DEF WaitListsOK
  <2> QED BY <2>3, <2>4, <2>5
<1>2. ASSUME NEW q \in Queues PROVE Injective(waiters[q])'
  BY DEF Shrinks, Injective
<1> QED BY <1>1, <1>2 DEF WaitListsOK

(* A step that leaves the reaper's list alone and revives no dead thread.     *)
LEMMA ReaperListKept ==
  ASSUME TypeOK, ReaperListOK, reaperList' = reaperList,
         \A v \in Threads : pc[v] \in {"term", "dead"} => pc'[v] \in {"term", "dead"}
  PROVE  ReaperListOK'
<1>1. ASSUME NEW i \in 1..Len(reaperList) PROVE reaperList[i] \in Threads
  BY ElementOfSeq DEF TypeOK
<1> QED BY <1>1 DEF ReaperListOK, Injective

(* A thread inside KeRemoveQueue has a queue, which exists.                   *)
LEMMA Inside ==
  ASSUME TypeOK, Located, Associated, NEW t \in Threads,
         pc[t] \in {"loop", "wait", "ready", "retry", "apc"}
  PROVE  /\ queue[t] \in Queues /\ live[queue[t]]
         /\ pc[t] # "apc" => resume[t] = "run"
         /\ pc[t] = "apc" => resume[t] \in {"ready", "retry"}
<1>1. pc[t] = "apc" => resume[t] \in {"ready", "retry"}
  BY DEF TypeOK, Located
<1>2. pc[t] # "apc" => resume[t] = "run"
  BY DEF Located
<1>3. queue[t] # NoQueue
  BY <1>1 DEF Located, InRemove
<1>4. queue[t] \in Queues
  BY <1>3 DEF TypeOK
<1>5. live[queue[t]]
  BY <1>3 DEF Associated
<1> QED BY <1>1, <1>2, <1>4, <1>5

(* The arguments of a thread outside KeRemoveQueue have their type too.       *)
LEMMA Arguments == NoArgs \in AllWaitArgs /\ WaitArgs \subseteq AllWaitArgs
BY ConstantsAssumption DEF NoArgs, AllWaitArgs

-----------------------------------------------------------------------------
(* The actions that may wake a waiting thread.  at differs from pc for the    *)
(* threads in S at most: the caller's own move.                               *)
Moves(S, at) ==
  /\ pc' \in [Threads -> Locations]
  /\ \A v \in S : pc'[v] = at[v]
  /\ \A v \in Threads \ S : pc'[v] = pc[v] \/ (pc[v] = "wait" /\ pc'[v] = "ready")

(* Where the threads and the wait lists are after KiUnwaitThread,             *)
(* KiActivateWaiterQueue or KiInsertQueue.                                    *)
LEMMA AfterService ==
  ASSUME TypeOK, WaitListsOK, TimerOnlyInWait,
         NEW S \in SUBSET Threads, NEW at \in [Threads -> Locations], NEW q,
         \A v \in S : pc[v] # "wait", \A v \in Threads \ S : at[v] = pc[v],
         \A v \in Threads \ S : queue'[v] = queue[v],
         \/ \E u \in Threads : Woken(at, u, q)
         \/ pc' = at /\ UNCHANGED <<waiters, timer>>
  PROVE  /\ Moves(S, at) /\ TimerOnlyInWait' /\ WaitListsOK'
         /\ \A p \in Queues : waiters'[p] # <<>> => waiters[p] # <<>>
<1>1. CASE \E u \in Threads : Woken(at, u, q)
  <2>1. PICK u \in Threads : Woken(at, u, q)
    BY <1>1
  <2>2. u \notin S /\ pc[u] = "wait" /\ pc' = [at EXCEPT ![u] = "ready"] /\ Shrinks(u)
    BY <2>1 DEF Woken
  <2>3. Moves(S, at)
    BY <2>2 DEF Moves, Locations
  <2>4. \A v \in Threads \ {u} : pc[v] = "wait" => pc'[v] = "wait" /\ queue'[v] = queue[v]
    BY <2>2
  <2>5. WaitListsOK'
    BY <2>2, <2>4, WaitListsShrink
  <2>6. TimerOnlyInWait'
    <3>1. timer' = [timer EXCEPT ![u] = FALSE]
      BY <2>1 DEF Woken
    <3> QED BY <2>4, <3>1 DEF TimerOnlyInWait, TypeOK
  <2> QED BY <2>2, <2>3, <2>5, <2>6 DEF Shrinks
<1>2. CASE pc' = at /\ UNCHANGED <<waiters, timer>>
  <2>1. Moves(S, at)
    BY <1>2 DEF Moves
  <2>2. \A v \in Threads : pc[v] = "wait" => pc'[v] = "wait" /\ queue'[v] = queue[v]
    BY <1>2
  <2>3. WaitListsOK'
    BY <1>2, <2>2, WaitListsKept
  <2>4. TimerOnlyInWait'
    BY <1>2, <2>2 DEF TimerOnlyInWait, TypeOK
  <2> QED BY <1>2, <2>1, <2>3, <2>4
<1> QED BY <1>1, <1>2

(* A woken thread is counted once more ...                                    *)
LEMMA WokenUp ==
  ASSUME TypeOK, CountExact, NEW at, NEW q \in Queues, NEW u \in Threads, Woken(at, u, q),
         \A v \in Threads \ {u} : at[v] \in ActivePcs <=> pc[v] \in ActivePcs,
         at \in [Threads -> Locations], UNCHANGED <<live, queue>>,
         count' = [count EXCEPT ![q] = @ + 1]
  PROVE  CountExact'
<1>1. pc' = [at EXCEPT ![u] = "ready"] /\ pc[u] = "wait" /\ queue[u] = q
  BY DEF Woken
<1>2. Undisturbed(u)
  BY <1>1 DEF Undisturbed
<1>3. pc[u] \notin ActivePcs /\ pc'[u] \in ActivePcs
  BY <1>1 DEF ActivePcs
<1> QED BY <1>1, <1>2, <1>3, CountUp

(* ... and takes the place of the thread that leaves the processor.           *)
LEMMA ActivateCounts ==
  ASSUME TypeOK, CountExact, WaitListsOK, NEW t \in Threads, NEW q \in Queues,
         NEW x \in Locations \ ActivePcs, pc[t] \in ActivePcs, queue[t] = q,
         \A v \in Threads \ {t} : queue'[v] = queue[v], live' = live,
         KiActivateWaiterQueue([pc EXCEPT ![t] = x], q)
  PROVE  CountExact'
<1> DEFINE at == [pc EXCEPT ![t] = x]
<1>0. at \in [Threads -> Locations] /\ at[t] = x /\ \A v \in Threads \ {t} : at[v] = pc[v]
  BY DEF TypeOK
<1>1. \/ /\ \E u \in Threads : Woken(at, u, q)
         /\ count' = count
      \/ pc' = at /\ count' = [count EXCEPT ![q] = @ - 1]
  BY KiActivateWaiterQueueFacts
<1> HIDE DEF at
<1>2. CASE (\E u \in Threads : Woken(at, u, q)) /\ count' = count
  <2>1. PICK u \in Threads : Woken(at, u, q)
    BY <1>2
  <2>2. pc[u] = "wait" /\ queue[u] = q /\ pc' = [at EXCEPT ![u] = "ready"]
    BY <2>1 DEF Woken
  <2>3. t # u /\ pc[u] \notin ActivePcs /\ pc'[u] \in ActivePcs /\ queue'[u] = q
    BY <1>0, <2>2 DEF ActivePcs
  <2>4. pc'[t] \notin ActivePcs
    BY <1>0, <2>2, <2>3
  <2>5. \A v \in Threads \ {t, u} : queue'[v] = queue[v] /\ pc'[v] = pc[v]
    BY <1>0, <2>2
  <2> QED BY <1>2, <2>2, <2>3, <2>4, <2>5, CountSwap
<1>3. CASE pc' = at /\ count' = [count EXCEPT ![q] = @ - 1]
  <2>1. Undisturbed(t)
    BY <1>0, <1>3 DEF Undisturbed
  <2> QED BY <1>0, <1>3, <2>1, CountDown
<1> QED BY <1>1, <1>2, <1>3

(* An active thread that leaves the processor strands no work in its queue.   *)
LEMMA ActivateNotStranded ==
  ASSUME TypeOK, CountExact, WaitListsOK, NEW t \in Threads, NEW q \in Queues,
         live[q], NEW at, pc[t] \in ActivePcs, queue[t] = q,
         maximum' = maximum, KiActivateWaiterQueue(at, q)
  PROVE  /\ entries'[q] # <<>> /\ waiters'[q] # <<>> => count'[q] > 0
         /\ \A p \in Queues \ {q} : entries'[p] = entries[p] /\ count'[p] = count[p]
<1>1. /\ \A p \in Queues \ {q} : entries'[p] = entries[p]
      /\ \/ count' = count
         \/ /\ count' = [count EXCEPT ![q] = @ - 1]
            /\ count'[q] >= maximum[q] \/ entries[q] = <<>> \/ waiters[q] = <<>>
            /\ UNCHANGED <<entries, waiters>>
  BY KiActivateWaiterQueueFacts
<1>2. count[q] > 0
  BY ActiveCounted DEF Active, ActivePcs
<1>3. \A p \in Queues \ {q} : count'[p] = count[p]
  BY <1>1 DEF TypeOK
<1>4. maximum[q] \in Nat \ {0} /\ count[q] \in Int
  BY DEF TypeOK
<1>5. CASE count' = count
  BY <1>1, <1>2, <1>3, <1>5
<1>6. CASE /\ count' = [count EXCEPT ![q] = @ - 1]
           /\ count'[q] >= maximum[q] \/ entries[q] = <<>> \/ waiters[q] = <<>>
           /\ UNCHANGED <<entries, waiters>>
  <2>1. count'[q] \in Int
    BY <1>4, <1>6 DEF TypeOK
  <2>2. count'[q] >= maximum[q] => count'[q] > 0
    BY <1>4, <2>1
  <2> QED BY <1>1, <1>3, <1>6, <2>2
<1> QED BY <1>1, <1>5, <1>6

(* The queues that a step leaves alone stay as they were.                     *)
LEMMA StrandedElsewhere ==
  ASSUME TypeOK, NotStranded, NEW p \in Queues, Settled(p), live[p],
         entries'[p] = entries[p], waiters'[p] # <<>> => waiters[p] # <<>>,
         count'[p] = count[p]
  PROVE  entries'[p] # <<>> /\ waiters'[p] # <<>> => count'[p] > 0
BY DEF NotStranded

(* KeRemoveQueue returns an entry at once: the count rises with the thread.   *)
LEMMA KeRemoveQueueTakeInv ==
  ASSUME Inv, NEW t \in Threads, KeRemoveQueueTake(t)
  PROVE  Inv'
<1>1. /\ TypeOK /\ Located /\ Associated /\ WaitListsOK /\ TimerOnlyInWait
      /\ ReaperListOK /\ CountExact /\ NotStranded
  BY DEF Inv, Shape
<1>2. /\ pc[t] = "loop" /\ queue[t] \in Queues /\ live[queue[t]]
      /\ resume[t] = "run"
      /\ Head(entries[queue[t]]) \in Entries /\ Tail(entries[queue[t]]) \in Seq(Entries)
      /\ entries[queue[t]] # <<>>
  <2>1. pc[t] = "loop"
    BY DEF KeRemoveQueueTake
  <2>2. queue[t] \in Queues /\ live[queue[t]] /\ resume[t] = "run"
    BY <1>1, <2>1, Inside
  <2>3. entries[queue[t]] \in Seq(Entries) /\ entries[queue[t]] # <<>>
    BY <1>1, <2>2 DEF TypeOK, CanTake, KeRemoveQueueTake
  <2> QED BY <2>1, <2>2, <2>3, HeadTailProperties
<1>3. TypeOK'
  BY <1>1, <1>2, Arguments DEF TypeOK, Statuses, Locations, KeRemoveQueueTake, apcVars, reaperVars
<1>4. Located'
  BY <1>1, <1>2 DEF TypeOK, Located, InRemove, KeRemoveQueueTake, apcVars, reaperVars
<1>5. Associated'
  BY <1>1, <1>2 DEF TypeOK, Associated, KeRemoveQueueTake, apcVars, reaperVars
<1>6. WaitListsOK'
  BY <1>1, <1>2, WaitListsKept DEF TypeOK, KeRemoveQueueTake, apcVars, reaperVars
<1>7. TimerOnlyInWait'
  BY <1>1, <1>2 DEF TypeOK, TimerOnlyInWait, KeRemoveQueueTake, apcVars, reaperVars
<1>8. ReaperListOK'
  BY <1>1, <1>2, ReaperListKept DEF TypeOK, KeRemoveQueueTake, apcVars, reaperVars
<1>9. CountExact'
  <2>1. Undisturbed(t)
    BY <1>1, <1>2 DEF TypeOK, Undisturbed, KeRemoveQueueTake, apcVars, reaperVars
  <2> QED BY <1>1, <1>2, <2>1, CountUp DEF TypeOK, ActivePcs, KeRemoveQueueTake, apcVars, reaperVars
<1>10. NotStranded'
  <2>1. count[queue[t]] \in Nat
    BY <1>1, <1>2, CountNotNegative
  <2>2. count'[queue[t]] > 0
    BY <1>1, <1>2, <2>1 DEF TypeOK, KeRemoveQueueTake, apcVars, reaperVars
  <2> QED BY <1>1, <1>2, <2>2 DEF TypeOK, NotStranded, Settled, KeRemoveQueueTake, apcVars, reaperVars
<1> QED BY <1>3, <1>4, <1>5, <1>6, <1>7, <1>8, <1>9, <1>10 DEF Inv, Shape

(* KeRemoveQueue lets a kernel APC in: the thread counts as active            *)
(* meanwhile.                                                                 *)
LEMMA KeRemoveQueueApcInv ==
  ASSUME Inv, NEW t \in Threads, KeRemoveQueueApc(t)
  PROVE  Inv'
<1>1. /\ TypeOK /\ Located /\ Associated /\ WaitListsOK /\ TimerOnlyInWait
      /\ ReaperListOK /\ CountExact /\ NotStranded
  BY DEF Inv, Shape
<1>2. /\ pc[t] = "loop" /\ queue[t] \in Queues /\ live[queue[t]]
      /\ resume[t] = "run"
  <2>1. pc[t] = "loop"
    BY DEF KeRemoveQueueApc
  <2> QED BY <1>1, <2>1, Inside
<1>3. TypeOK'
  BY <1>1, <1>2, Arguments DEF TypeOK, Statuses, Locations, KeRemoveQueueApc, apcVars, reaperVars
<1>4. Located'
  BY <1>1, <1>2 DEF TypeOK, Located, InRemove, KeRemoveQueueApc, apcVars, reaperVars
<1>5. Associated'
  BY <1>1, <1>2 DEF TypeOK, Associated, KeRemoveQueueApc, apcVars, reaperVars
<1>6. WaitListsOK'
  BY <1>1, <1>2, WaitListsKept DEF TypeOK, KeRemoveQueueApc, apcVars, reaperVars
<1>7. TimerOnlyInWait'
  BY <1>1, <1>2 DEF TypeOK, TimerOnlyInWait, KeRemoveQueueApc, apcVars, reaperVars
<1>8. ReaperListOK'
  BY <1>1, <1>2, ReaperListKept DEF TypeOK, KeRemoveQueueApc, apcVars, reaperVars
<1>9. CountExact'
  <2>1. Undisturbed(t)
    BY <1>1, <1>2 DEF TypeOK, Undisturbed, KeRemoveQueueApc, apcVars, reaperVars
  <2> QED BY <1>1, <1>2, <2>1, CountUp DEF TypeOK, ActivePcs, KeRemoveQueueApc, apcVars, reaperVars
<1>10. NotStranded'
  <2>1. count[queue[t]] \in Nat
    BY <1>1, <1>2, CountNotNegative
  <2>2. count'[queue[t]] > 0
    BY <1>1, <1>2, <2>1 DEF TypeOK, KeRemoveQueueApc, apcVars, reaperVars
  <2> QED BY <1>1, <1>2, <2>2 DEF TypeOK, NotStranded, Settled, KeRemoveQueueApc, apcVars, reaperVars
<1> QED BY <1>3, <1>4, <1>5, <1>6, <1>7, <1>8, <1>9, <1>10 DEF Inv, Shape

(* KeRemoveQueue returns without an entry, counted as active again.           *)
LEMMA KeRemoveQueueReturnInv ==
  ASSUME Inv, NEW t \in Threads, KeRemoveQueueReturn(t)
  PROVE  Inv'
<1>1. /\ TypeOK /\ Located /\ Associated /\ WaitListsOK /\ TimerOnlyInWait
      /\ ReaperListOK /\ CountExact /\ NotStranded
  BY DEF Inv, Shape
<1>2. /\ pc[t] = "loop" /\ queue[t] \in Queues /\ live[queue[t]]
      /\ resume[t] = "run"
  <2>1. pc[t] = "loop"
    BY DEF KeRemoveQueueReturn
  <2> QED BY <1>1, <2>1, Inside
<1>3. TypeOK'
  BY <1>1, <1>2, Arguments DEF TypeOK, Statuses, Locations, KeRemoveQueueReturn, apcVars, reaperVars
<1>4. Located'
  BY <1>1, <1>2 DEF TypeOK, Located, InRemove, KeRemoveQueueReturn, apcVars, reaperVars
<1>5. Associated'
  BY <1>1, <1>2 DEF TypeOK, Associated, KeRemoveQueueReturn, apcVars, reaperVars
<1>6. WaitListsOK'
  BY <1>1, <1>2, WaitListsKept DEF TypeOK, KeRemoveQueueReturn, apcVars, reaperVars
<1>7. TimerOnlyInWait'
  BY <1>1, <1>2 DEF TypeOK, TimerOnlyInWait, KeRemoveQueueReturn, apcVars, reaperVars
<1>8. ReaperListOK'
  BY <1>1, <1>2, ReaperListKept DEF TypeOK, KeRemoveQueueReturn, apcVars, reaperVars
<1>9. CountExact'
  <2>1. Undisturbed(t)
    BY <1>1, <1>2 DEF TypeOK, Undisturbed, KeRemoveQueueReturn, apcVars, reaperVars
  <2> QED BY <1>1, <1>2, <2>1, CountUp DEF TypeOK, ActivePcs, KeRemoveQueueReturn, apcVars, reaperVars
<1>10. NotStranded'
  <2>1. count[queue[t]] \in Nat
    BY <1>1, <1>2, CountNotNegative
  <2>2. count'[queue[t]] > 0
    BY <1>1, <1>2, <2>1 DEF TypeOK, KeRemoveQueueReturn, apcVars, reaperVars
  <2> QED BY <1>1, <1>2, <2>2 DEF TypeOK, NotStranded, Settled, KeRemoveQueueReturn, apcVars, reaperVars
<1> QED BY <1>3, <1>4, <1>5, <1>6, <1>7, <1>8, <1>9, <1>10 DEF Inv, Shape

(* An APC runs in KiSwapThread before the wait status is looked at.           *)
LEMMA KiSwapThreadApcInv ==
  ASSUME Inv, NEW t \in Threads, KiSwapThreadApc(t)
  PROVE  Inv'
<1>1. /\ TypeOK /\ Located /\ Associated /\ WaitListsOK /\ TimerOnlyInWait
      /\ ReaperListOK /\ CountExact /\ NotStranded
  BY DEF Inv, Shape
<1>2. /\ pc[t] = "ready" /\ queue[t] \in Queues /\ live[queue[t]]
      /\ resume[t] = "run"
  <2>1. pc[t] = "ready"
    BY DEF KiSwapThreadApc
  <2> QED BY <1>1, <2>1, Inside
<1>3. TypeOK'
  BY <1>1, <1>2, Arguments DEF TypeOK, Statuses, Locations, KiSwapThreadApc, apcVars, reaperVars, queueVars
<1>4. Located'
  BY <1>1, <1>2 DEF TypeOK, Located, InRemove, KiSwapThreadApc, apcVars, reaperVars, queueVars
<1>5. Associated'
  BY <1>1, <1>2 DEF TypeOK, Associated, KiSwapThreadApc, apcVars, reaperVars, queueVars
<1>6. WaitListsOK'
  BY <1>1, <1>2, WaitListsKept DEF TypeOK, KiSwapThreadApc, apcVars, reaperVars, queueVars
<1>7. TimerOnlyInWait'
  BY <1>1, <1>2 DEF TypeOK, TimerOnlyInWait, KiSwapThreadApc, apcVars, reaperVars, queueVars
<1>8. ReaperListOK'
  BY <1>1, <1>2, ReaperListKept DEF TypeOK, KiSwapThreadApc, apcVars, reaperVars, queueVars
<1>9. CountExact'
  <2>1. Undisturbed(t)
    BY <1>1, <1>2 DEF TypeOK, Undisturbed, KiSwapThreadApc, apcVars, reaperVars, queueVars
  <2>2. pc'[t] \in ActivePcs <=> pc[t] \in ActivePcs
    BY <1>1, <1>2 DEF TypeOK, ActivePcs, KiSwapThreadApc, apcVars, reaperVars, queueVars
  <2> QED BY <1>1, <1>2, <2>1, <2>2, CountSame DEF TypeOK, KiSwapThreadApc, apcVars, reaperVars, queueVars
<1>10. NotStranded'
  BY <1>1, <1>2 DEF TypeOK, NotStranded, Settled, KiSwapThreadApc, apcVars, reaperVars, queueVars
<1> QED BY <1>3, <1>4, <1>5, <1>6, <1>7, <1>8, <1>9, <1>10 DEF Inv, Shape

(* The thread goes on after its wait; KiUnwaitThread has counted it           *)
(* already.                                                                   *)
LEMMA KeRemoveQueueWokenInv ==
  ASSUME Inv, NEW t \in Threads, KeRemoveQueueWoken(t)
  PROVE  Inv'
<1>1. /\ TypeOK /\ Located /\ Associated /\ WaitListsOK /\ TimerOnlyInWait
      /\ ReaperListOK /\ CountExact /\ NotStranded
  BY DEF Inv, Shape
<1>2. /\ pc[t] = "ready" /\ queue[t] \in Queues /\ live[queue[t]]
      /\ resume[t] = "run"
      /\ \E x \in {"retry", "run"} : pc' = [pc EXCEPT ![t] = x]
      /\ args' \in [Threads -> AllWaitArgs]
  <2>1. pc[t] = "ready"
    BY DEF KeRemoveQueueWoken
  <2>2. queue[t] \in Queues /\ live[queue[t]] /\ resume[t] = "run"
    BY <1>1, <2>1, Inside
  <2>3. \E x \in {"retry", "run"} : pc' = [pc EXCEPT ![t] = x]
    BY DEF KeRemoveQueueWoken
  <2>4. args' \in [Threads -> AllWaitArgs]
    BY <1>1, Arguments DEF TypeOK, KeRemoveQueueWoken
  <2> QED BY <2>1, <2>2, <2>3, <2>4
<1>3. TypeOK'
  BY <1>1, <1>2, Arguments DEF TypeOK, Statuses, Locations, KeRemoveQueueWoken, apcVars, reaperVars, queueVars
<1>4. Located'
  BY <1>1, <1>2 DEF TypeOK, Located, InRemove, KeRemoveQueueWoken, apcVars, reaperVars, queueVars
<1>5. Associated'
  BY <1>1, <1>2 DEF TypeOK, Associated, KeRemoveQueueWoken, apcVars, reaperVars, queueVars
<1>6. WaitListsOK'
  BY <1>1, <1>2, WaitListsKept DEF TypeOK, KeRemoveQueueWoken, apcVars, reaperVars, queueVars
<1>7. TimerOnlyInWait'
  BY <1>1, <1>2 DEF TypeOK, TimerOnlyInWait, KeRemoveQueueWoken, apcVars, reaperVars, queueVars
<1>8. ReaperListOK'
  BY <1>1, <1>2, ReaperListKept DEF TypeOK, KeRemoveQueueWoken, apcVars, reaperVars, queueVars
<1>9. CountExact'
  <2>1. Undisturbed(t)
    BY <1>1, <1>2 DEF TypeOK, Undisturbed, KeRemoveQueueWoken, apcVars, reaperVars, queueVars
  <2>2. pc'[t] \in ActivePcs <=> pc[t] \in ActivePcs
    BY <1>1, <1>2 DEF TypeOK, ActivePcs, KeRemoveQueueWoken, apcVars, reaperVars, queueVars
  <2> QED BY <1>1, <1>2, <2>1, <2>2, CountSame DEF TypeOK, KeRemoveQueueWoken, apcVars, reaperVars, queueVars
<1>10. NotStranded'
  BY <1>1, <1>2 DEF TypeOK, NotStranded, Settled, KeRemoveQueueWoken, apcVars, reaperVars, queueVars
<1> QED BY <1>3, <1>4, <1>5, <1>6, <1>7, <1>8, <1>9, <1>10 DEF Inv, Shape

(* The thread goes round the loop and is not counted any more.  It holds      *)
(* the lock.                                                                  *)
LEMMA KeRemoveQueueRelockInv ==
  ASSUME Inv, NEW t \in Threads, KeRemoveQueueRelock(t)
  PROVE  Inv'
<1>1. /\ TypeOK /\ Located /\ Associated /\ WaitListsOK /\ TimerOnlyInWait
      /\ ReaperListOK /\ CountExact /\ NotStranded
  BY DEF Inv, Shape
<1>2. /\ pc[t] = "retry" /\ queue[t] \in Queues /\ live[queue[t]]
      /\ resume[t] = "run"
  <2>1. pc[t] = "retry"
    BY DEF KeRemoveQueueRelock
  <2> QED BY <1>1, <2>1, Inside
<1>3. TypeOK'
  BY <1>1, <1>2, Arguments DEF TypeOK, Statuses, Locations, KeRemoveQueueRelock, apcVars, reaperVars
<1>4. Located'
  BY <1>1, <1>2 DEF TypeOK, Located, InRemove, KeRemoveQueueRelock, apcVars, reaperVars
<1>5. Associated'
  BY <1>1, <1>2 DEF TypeOK, Associated, KeRemoveQueueRelock, apcVars, reaperVars
<1>6. WaitListsOK'
  BY <1>1, <1>2, WaitListsKept DEF TypeOK, KeRemoveQueueRelock, apcVars, reaperVars
<1>7. TimerOnlyInWait'
  BY <1>1, <1>2 DEF TypeOK, TimerOnlyInWait, KeRemoveQueueRelock, apcVars, reaperVars
<1>8. ReaperListOK'
  BY <1>1, <1>2, ReaperListKept DEF TypeOK, KeRemoveQueueRelock, apcVars, reaperVars
<1>9. CountExact'
  <2>1. Undisturbed(t)
    BY <1>1, <1>2 DEF TypeOK, Undisturbed, KeRemoveQueueRelock, apcVars, reaperVars
  <2> QED BY <1>1, <1>2, <2>1, CountDown DEF TypeOK, ActivePcs, KeRemoveQueueRelock, apcVars, reaperVars
<1>10. NotStranded'
  BY <1>1, <1>2 DEF TypeOK, NotStranded, Settled, KeRemoveQueueRelock, apcVars, reaperVars
<1> QED BY <1>3, <1>4, <1>5, <1>6, <1>7, <1>8, <1>9, <1>10 DEF Inv, Shape

(* The thread joins the wait list: no entry is there, or enough threads are   *)
(* active.                                                                    *)
LEMMA KeRemoveQueueWaitInv ==
  ASSUME Inv, NEW t \in Threads, KeRemoveQueueWait(t)
  PROVE  Inv'
<1>1. /\ TypeOK /\ Located /\ Associated /\ WaitListsOK /\ TimerOnlyInWait
      /\ ReaperListOK /\ CountExact /\ NotStranded
  BY DEF Inv, Shape
<1>2. /\ pc[t] = "loop" /\ queue[t] \in Queues /\ live[queue[t]]
      /\ resume[t] = "run"
      /\ waiters' = [waiters EXCEPT ![queue[t]] = Append(waiters[queue[t]], t)]
      /\ pc' = [pc EXCEPT ![t] = "wait"]
  <2>1. pc[t] = "loop"
    BY DEF KeRemoveQueueWait
  <2>2. queue[t] \in Queues /\ live[queue[t]] /\ resume[t] = "run"
    BY <1>1, <2>1, Inside
  <2> QED BY <2>1, <2>2 DEF KeRemoveQueueWait
<1>3. TypeOK'
  <2>1. waiters[queue[t]] \in Seq(Threads)
    BY <1>1, <1>2 DEF TypeOK
  <2>2. Append(waiters[queue[t]], t) \in Seq(Threads)
    BY <2>1, AppendProperties
  <2> QED BY <1>1, <1>2, <2>2 DEF TypeOK, Statuses, Locations, KeRemoveQueueWait, apcVars, reaperVars
<1>4. Located'
  BY <1>1, <1>2 DEF TypeOK, Located, InRemove, KeRemoveQueueWait, apcVars, reaperVars
<1>5. Associated'
  BY <1>1, <1>2 DEF TypeOK, Associated, KeRemoveQueueWait, apcVars, reaperVars
<1>6. WaitListsOK'
  <2>1. ASSUME NEW q \in Queues, NEW i \in 1..Len(waiters[q])
        PROVE  waiters[q][i] \in Threads /\ waiters[q][i] # t
    <3>1. waiters[q] \in Seq(Threads) /\ pc[waiters[q][i]] = "wait"
      BY <1>1 DEF TypeOK, WaitListsOK
    <3> QED BY <1>2, <3>1, ElementOfSeq
  <2>2. ASSUME NEW q \in Queues, q # queue[t]
        PROVE  /\ \A i \in 1..Len(waiters'[q]) :
                    pc'[waiters'[q][i]] = "wait" /\ queue'[waiters'[q][i]] = q
               /\ Injective(waiters[q])'
    <3>1. waiters'[q] = waiters[q]
      BY <1>1, <1>2, <2>2 DEF TypeOK
    <3>2. queue' = queue
      BY DEF KeRemoveQueueWait
    <3>3. \A i \in 1..Len(waiters[q]) : pc'[waiters[q][i]] = "wait" /\ queue'[waiters[q][i]] = q
      BY <1>1, <1>2, <2>1, <3>2 DEF TypeOK, WaitListsOK
    <3>4. Injective(waiters[q])'
      BY <1>1, <3>1 DEF WaitListsOK, Injective
    <3> QED BY <3>1, <3>3, <3>4
  <2>3. ASSUME NEW q \in Queues, q = queue[t]
        PROVE  /\ \A i \in 1..Len(waiters'[q]) :
                    pc'[waiters'[q][i]] = "wait" /\ queue'[waiters'[q][i]] = q
               /\ Injective(waiters[q])'
    <3> DEFINE s == waiters[q]
               r == Append(s, t)
    <3>1. s \in Seq(Threads) /\ Len(s) \in Nat
      BY <1>1, LenProperties DEF TypeOK
    <3>2. waiters'[q] = r /\ queue' = queue /\ queue[t] = q
      BY <1>1, <1>2, <2>3 DEF TypeOK, KeRemoveQueueWait
    <3>3. /\ Len(r) = Len(s) + 1 /\ r[Len(s) + 1] = t
          /\ \A i \in 1..Len(s) : r[i] = s[i]
      BY <3>1, AppendProperties
    <3>4. \A i \in 1..Len(s) : /\ s[i] \in Threads /\ s[i] # t
                               /\ pc[s[i]] = "wait" /\ queue[s[i]] = q
      BY <1>1, <2>1 DEF WaitListsOK
    <3>5. \A i, j \in 1..Len(s) : s[i] = s[j] => i = j
      BY <1>1 DEF WaitListsOK, Injective
    <3> HIDE DEF s, r
    <3>6. ASSUME NEW i \in 1..Len(r) PROVE i \in 1..Len(s) \/ i = Len(s) + 1
      BY <3>1, <3>3
    <3>7. ASSUME NEW i \in 1..Len(r) PROVE pc'[r[i]] = "wait" /\ queue'[r[i]] = q
      <4>1. pc'[t] = "wait" /\ \A u \in Threads \ {t} : pc'[u] = pc[u]
        BY <1>1, <1>2 DEF TypeOK
      <4>2. CASE i \in 1..Len(s)
        <5>1. r[i] = s[i] /\ s[i] \in Threads \ {t} /\ pc[s[i]] = "wait" /\ queue[s[i]] = q
          BY <3>3, <3>4, <4>2
        <5> QED BY <3>2, <4>1, <5>1
      <4>3. CASE i = Len(s) + 1
        BY <3>2, <3>3, <4>1, <4>3
      <4> QED BY <3>6, <4>2, <4>3
    <3>8. ASSUME NEW i \in 1..Len(r), NEW j \in 1..Len(r), r[i] = r[j] PROVE i = j
      BY <3>3, <3>4, <3>5, <3>6, <3>8
    <3> QED BY <3>2, <3>7, <3>8 DEF Injective
  <2> QED BY <2>2, <2>3 DEF WaitListsOK
<1>7. TimerOnlyInWait'
  BY <1>1, <1>2 DEF TypeOK, TimerOnlyInWait, KeRemoveQueueWait, apcVars, reaperVars
<1>8. ReaperListOK'
  BY <1>1, <1>2, ReaperListKept DEF TypeOK, KeRemoveQueueWait, apcVars, reaperVars
<1>9. CountExact'
  <2>1. Undisturbed(t)
    BY <1>1, <1>2 DEF TypeOK, Undisturbed, KeRemoveQueueWait, apcVars, reaperVars
  <2>2. pc'[t] \in ActivePcs <=> pc[t] \in ActivePcs
    BY <1>1, <1>2 DEF TypeOK, ActivePcs, KeRemoveQueueWait, apcVars, reaperVars
  <2> QED BY <1>1, <1>2, <2>1, <2>2, CountSame DEF TypeOK, KeRemoveQueueWait, apcVars, reaperVars
<1>10. NotStranded'
  <2>1. entries[queue[t]] = <<>> \/ count[queue[t]] > 0
    BY <1>1, <1>2 DEF TypeOK, CanTake, KeRemoveQueueWait
  <2>2. ASSUME NEW q \in Queues, q # queue[t] PROVE Settled(q)' => Settled(q)
    BY <1>1, <1>2, <2>2 DEF TypeOK, Settled, KeRemoveQueueWait
  <2> QED BY <1>1, <1>2, <2>1, <2>2 DEF TypeOK, NotStranded, KeRemoveQueueWait, apcVars, reaperVars
<1> QED BY <1>3, <1>4, <1>5, <1>6, <1>7, <1>8, <1>9, <1>10 DEF Inv, Shape

(* A thread is done with its entry.                                           *)
LEMMA FinishEntryInv ==
  ASSUME Inv, NEW t \in Threads, FinishEntry(t)
  PROVE  Inv'
<1>1. /\ TypeOK /\ Located /\ Associated /\ WaitListsOK /\ TimerOnlyInWait
      /\ ReaperListOK /\ CountExact /\ NotStranded
  BY DEF Inv, Shape
<1>2. pc[t] = "run"
  BY DEF FinishEntry
<1>3. TypeOK'
  BY <1>1, <1>2, Arguments DEF TypeOK, Statuses, Locations, FinishEntry, apcVars, reaperVars, queueVars
<1>4. Located'
  BY <1>1, <1>2 DEF TypeOK, Located, InRemove, FinishEntry, apcVars, reaperVars, queueVars
<1>5. Associated'
  BY <1>1, <1>2 DEF TypeOK, Associated, FinishEntry, apcVars, reaperVars, queueVars
<1>6. WaitListsOK'
  BY <1>1, <1>2, WaitListsKept DEF TypeOK, FinishEntry, apcVars, reaperVars, queueVars
<1>7. TimerOnlyInWait'
  BY <1>1, <1>2 DEF TypeOK, TimerOnlyInWait, FinishEntry, apcVars, reaperVars, queueVars
<1>8. ReaperListOK'
  BY <1>1, <1>2, ReaperListKept DEF TypeOK, FinishEntry, apcVars, reaperVars, queueVars
<1>9. CountExact'
  <2>1. Undisturbed(t)
    BY <1>1, <1>2 DEF TypeOK, Undisturbed, FinishEntry, apcVars, reaperVars, queueVars
  <2>2. pc'[t] \in ActivePcs <=> pc[t] \in ActivePcs
    BY <1>1, <1>2 DEF TypeOK, ActivePcs, FinishEntry, apcVars, reaperVars, queueVars
  <2> QED BY <1>1, <1>2, <2>1, <2>2, CountSame DEF TypeOK, FinishEntry, apcVars, reaperVars, queueVars
<1>10. NotStranded'
  BY <1>1, <1>2 DEF TypeOK, NotStranded, Settled, FinishEntry, apcVars, reaperVars, queueVars
<1> QED BY <1>3, <1>4, <1>5, <1>6, <1>7, <1>8, <1>9, <1>10 DEF Inv, Shape

(* The reaper becomes inactive.                                               *)
LEMMA PspReaperDoneInv ==
  ASSUME Inv, NEW t \in Threads, PspReaperDone(t)
  PROVE  Inv'
<1>1. /\ TypeOK /\ Located /\ Associated /\ WaitListsOK /\ TimerOnlyInWait
      /\ ReaperListOK /\ CountExact /\ NotStranded
  BY DEF Inv, Shape
<1>2. pc[t] = "run"
  BY DEF PspReaperDone
<1>3. TypeOK'
  BY <1>1, <1>2, Arguments DEF TypeOK, Statuses, Locations, PspReaperDone, apcVars, reaperVars, queueVars
<1>4. Located'
  BY <1>1, <1>2 DEF TypeOK, Located, InRemove, PspReaperDone, apcVars, reaperVars, queueVars
<1>5. Associated'
  BY <1>1, <1>2 DEF TypeOK, Associated, PspReaperDone, apcVars, reaperVars, queueVars
<1>6. WaitListsOK'
  BY <1>1, <1>2, WaitListsKept DEF TypeOK, PspReaperDone, apcVars, reaperVars, queueVars
<1>7. TimerOnlyInWait'
  BY <1>1, <1>2 DEF TypeOK, TimerOnlyInWait, PspReaperDone, apcVars, reaperVars, queueVars
<1>8. ReaperListOK'
  BY <1>1, <1>2, ReaperListKept DEF TypeOK, PspReaperDone, apcVars, reaperVars, queueVars
<1>9. CountExact'
  <2>1. Undisturbed(t)
    BY <1>1, <1>2 DEF TypeOK, Undisturbed, PspReaperDone, apcVars, reaperVars, queueVars
  <2>2. pc'[t] \in ActivePcs <=> pc[t] \in ActivePcs
    BY <1>1, <1>2 DEF TypeOK, ActivePcs, PspReaperDone, apcVars, reaperVars, queueVars
  <2> QED BY <1>1, <1>2, <2>1, <2>2, CountSame DEF TypeOK, PspReaperDone, apcVars, reaperVars, queueVars
<1>10. NotStranded'
  BY <1>1, <1>2 DEF TypeOK, NotStranded, Settled, PspReaperDone, apcVars, reaperVars, queueVars
<1> QED BY <1>3, <1>4, <1>5, <1>6, <1>7, <1>8, <1>9, <1>10 DEF Inv, Shape

(* The exit APC is queued.                                                    *)
LEMMA KiInsertQueueApcExitInv ==
  ASSUME Inv, NEW t \in Threads, KiInsertQueueApcExit(t)
  PROVE  Inv'
<1>1. /\ TypeOK /\ Located /\ Associated /\ WaitListsOK /\ TimerOnlyInWait
      /\ ReaperListOK /\ CountExact /\ NotStranded
  BY DEF Inv, Shape
<1>2. pc' = pc /\ queue' = queue
  BY DEF KiInsertQueueApcExit
<1>3. TypeOK'
  BY <1>1, <1>2, Arguments DEF TypeOK, Statuses, Locations, KiInsertQueueApcExit, apcVars, reaperVars, queueVars
<1>4. Located'
  BY <1>1, <1>2 DEF TypeOK, Located, InRemove, KiInsertQueueApcExit, apcVars, reaperVars, queueVars
<1>5. Associated'
  BY <1>1, <1>2 DEF TypeOK, Associated, KiInsertQueueApcExit, apcVars, reaperVars, queueVars
<1>6. WaitListsOK'
  BY <1>1, <1>2, WaitListsKept DEF TypeOK, KiInsertQueueApcExit, apcVars, reaperVars, queueVars
<1>7. TimerOnlyInWait'
  BY <1>1, <1>2 DEF TypeOK, TimerOnlyInWait, KiInsertQueueApcExit, apcVars, reaperVars, queueVars
<1>8. ReaperListOK'
  BY <1>1, <1>2, ReaperListKept DEF TypeOK, KiInsertQueueApcExit, apcVars, reaperVars, queueVars
<1>9. CountExact'
  <2>1. Undisturbed(t)
    BY <1>1, <1>2 DEF TypeOK, Undisturbed, KiInsertQueueApcExit, apcVars, reaperVars, queueVars
  <2>2. pc'[t] \in ActivePcs <=> pc[t] \in ActivePcs
    BY <1>1, <1>2 DEF TypeOK, ActivePcs, KiInsertQueueApcExit, apcVars, reaperVars, queueVars
  <2> QED BY <1>1, <1>2, <2>1, <2>2, CountSame DEF TypeOK, KiInsertQueueApcExit, apcVars, reaperVars, queueVars
<1>10. NotStranded'
  BY <1>1, <1>2 DEF TypeOK, NotStranded, Settled, KiInsertQueueApcExit, apcVars, reaperVars, queueVars
<1> QED BY <1>3, <1>4, <1>5, <1>6, <1>7, <1>8, <1>9, <1>10 DEF Inv, Shape

(* An APC routine returns to where it interrupted KeRemoveQueue.              *)
LEMMA KiDeliverApcReturnInv ==
  ASSUME Inv, NEW t \in Threads, KiDeliverApcReturn(t)
  PROVE  Inv'
<1>1. /\ TypeOK /\ Located /\ Associated /\ WaitListsOK /\ TimerOnlyInWait
      /\ ReaperListOK /\ CountExact /\ NotStranded
  BY DEF Inv, Shape
<1>2. /\ pc[t] = "apc" /\ queue[t] \in Queues /\ live[queue[t]]
      /\ resume[t] \in {"ready", "retry"}
  <2>1. pc[t] = "apc"
    BY DEF KiDeliverApcReturn
  <2> QED BY <1>1, <2>1, Inside
<1>3. TypeOK'
  BY <1>1, <1>2, Arguments DEF TypeOK, Statuses, Locations, KiDeliverApcReturn, apcVars, reaperVars, queueVars
<1>4. Located'
  BY <1>1, <1>2 DEF TypeOK, Located, InRemove, KiDeliverApcReturn, apcVars, reaperVars, queueVars
<1>5. Associated'
  BY <1>1, <1>2 DEF TypeOK, Associated, KiDeliverApcReturn, apcVars, reaperVars, queueVars
<1>6. WaitListsOK'
  BY <1>1, <1>2, WaitListsKept DEF TypeOK, KiDeliverApcReturn, apcVars, reaperVars, queueVars
<1>7. TimerOnlyInWait'
  BY <1>1, <1>2 DEF TypeOK, TimerOnlyInWait, KiDeliverApcReturn, apcVars, reaperVars, queueVars
<1>8. ReaperListOK'
  BY <1>1, <1>2, ReaperListKept DEF TypeOK, KiDeliverApcReturn, apcVars, reaperVars, queueVars
<1>9. CountExact'
  <2>1. Undisturbed(t)
    BY <1>1, <1>2 DEF TypeOK, Undisturbed, KiDeliverApcReturn, apcVars, reaperVars, queueVars
  <2>2. pc'[t] \in ActivePcs <=> pc[t] \in ActivePcs
    BY <1>1, <1>2 DEF TypeOK, ActivePcs, KiDeliverApcReturn, apcVars, reaperVars, queueVars
  <2> QED BY <1>1, <1>2, <2>1, <2>2, CountSame DEF TypeOK, KiDeliverApcReturn, apcVars, reaperVars, queueVars
<1>10. NotStranded'
  BY <1>1, <1>2 DEF TypeOK, NotStranded, Settled, KiDeliverApcReturn, apcVars, reaperVars, queueVars
<1> QED BY <1>3, <1>4, <1>5, <1>6, <1>7, <1>8, <1>9, <1>10 DEF Inv, Shape

(* An APC interrupt.                                                          *)
LEMMA KiDeliverApcInv ==
  ASSUME Inv, NEW t \in Threads, KiDeliverApc(t)
  PROVE  Inv'
<1>1. /\ TypeOK /\ Located /\ Associated /\ WaitListsOK /\ TimerOnlyInWait
      /\ ReaperListOK /\ CountExact /\ NotStranded
  BY DEF Inv, Shape
<1>2. \/ /\ pc[t] = "run" /\ UNCHANGED <<pc, resume>>
         /\ userApc' = userApc \/ userApc' = [userApc EXCEPT ![t] = FALSE]
      \/ /\ pc[t] = "retry" /\ queue[t] \in Queues /\ live[queue[t]] /\ userApc' = userApc
         /\ pc' = [pc EXCEPT ![t] = "apc"] /\ resume' = [resume EXCEPT ![t] = "retry"]
  <2>1. pc[t] = "retry" => queue[t] \in Queues /\ live[queue[t]]
    BY <1>1, Inside
  <2> QED BY <2>1 DEF KiDeliverApc
<1>3. TypeOK'
  <2>1. /\ pc' \in [Threads -> Locations] /\ resume' \in [Threads -> {"run", "ready", "retry"}]
        /\ userApc' \in [Threads -> BOOLEAN]
    <3>1. CASE /\ UNCHANGED <<pc, resume>>
               /\ userApc' = userApc \/ userApc' = [userApc EXCEPT ![t] = FALSE]
      BY <1>1, <3>1 DEF TypeOK
    <3>2. CASE /\ userApc' = userApc /\ pc' = [pc EXCEPT ![t] = "apc"]
               /\ resume' = [resume EXCEPT ![t] = "retry"]
      BY <1>1, <3>2 DEF TypeOK, Locations
    <3> QED BY <1>2, <3>1, <3>2
  <2>2. kernelApc' \in [Threads -> BOOLEAN]
    BY <1>1 DEF TypeOK, KiDeliverApc
  <2> QED BY <1>1, <2>1, <2>2 DEF TypeOK, KiDeliverApc, apcVars, reaperVars, queueVars
<1>4. Located'
  BY <1>1, <1>2 DEF TypeOK, Located, InRemove, KiDeliverApc, apcVars, reaperVars, queueVars
<1>5. Associated'
  <2>1. \A u \in Threads : pc'[u] \in {"dead", "none"} <=> pc[u] \in {"dead", "none"}
    BY <1>1, <1>2 DEF TypeOK
  <2>2. UNCHANGED <<queue, members, live>>
    BY DEF KiDeliverApc, queueVars
  <2>3. \A q \in Queues : members[q] \subseteq Threads
    BY <1>1 DEF TypeOK
  <2> QED BY <1>1, <2>1, <2>2, <2>3 DEF Associated
<1>6. WaitListsOK'
  BY <1>1, <1>2, WaitListsKept DEF TypeOK, KiDeliverApc, apcVars, reaperVars, queueVars
<1>7. TimerOnlyInWait'
  BY <1>1, <1>2 DEF TypeOK, TimerOnlyInWait, KiDeliverApc, apcVars, reaperVars, queueVars
<1>8. ReaperListOK'
  BY <1>1, <1>2, ReaperListKept DEF TypeOK, KiDeliverApc, apcVars, reaperVars, queueVars
<1>9. CountExact'
  <2>1. Undisturbed(t)
    BY <1>1, <1>2 DEF TypeOK, Undisturbed, KiDeliverApc, apcVars, reaperVars, queueVars
  <2>2. pc'[t] \in ActivePcs <=> pc[t] \in ActivePcs
    BY <1>1, <1>2 DEF TypeOK, ActivePcs, KiDeliverApc, apcVars, reaperVars, queueVars
  <2> QED BY <1>1, <1>2, <2>1, <2>2, CountSame DEF TypeOK, KiDeliverApc, apcVars, reaperVars, queueVars
<1>10. NotStranded'
  BY <1>1, <1>2 DEF TypeOK, NotStranded, Settled, KiDeliverApc, apcVars, reaperVars, queueVars
<1> QED BY <1>3, <1>4, <1>5, <1>6, <1>7, <1>8, <1>9, <1>10 DEF Inv, Shape

(* A new thread belongs to no queue.                                          *)
LEMMA KeInitializeThreadInv ==
  ASSUME Inv, NEW t \in Threads, KeInitializeThread(t)
  PROVE  Inv'
<1>1. /\ TypeOK /\ Located /\ Associated /\ WaitListsOK /\ TimerOnlyInWait
      /\ ReaperListOK /\ CountExact /\ NotStranded
  BY DEF Inv, Shape
<1>2. pc[t] = "none" /\ resume[t] = "run"
  BY <1>1 DEF Located, KeInitializeThread
<1>3. TypeOK'
  BY <1>1, <1>2, Arguments DEF TypeOK, Statuses, Locations, KeInitializeThread, apcVars, reaperVars, queueVars
<1>4. Located'
  BY <1>1, <1>2 DEF TypeOK, Located, InRemove, KeInitializeThread, apcVars, reaperVars, queueVars
<1>5. Associated'
  <2>1. \A q \in Queues : t \notin members[q]
    BY <1>1, <1>2 DEF Associated
  <2> QED BY <1>1, <1>2, <2>1 DEF TypeOK, Associated, KeInitializeThread, apcVars, reaperVars, queueVars
<1>6. WaitListsOK'
  BY <1>1, <1>2, WaitListsKept DEF TypeOK, KeInitializeThread, apcVars, reaperVars, queueVars
<1>7. TimerOnlyInWait'
  BY <1>1, <1>2 DEF TypeOK, TimerOnlyInWait, KeInitializeThread, apcVars, reaperVars, queueVars
<1>8. ReaperListOK'
  BY <1>1, <1>2, ReaperListKept DEF TypeOK, KeInitializeThread, apcVars, reaperVars, queueVars
<1>9. CountExact'
  <2>1. ASSUME NEW q \in Queues PROVE ActiveIn(q)' = ActiveIn(q)
    BY <1>1, <1>2, ConstantsAssumption DEF TypeOK, ActiveIn, Active, KeInitializeThread, apcVars, reaperVars, queueVars
  <2> QED BY <1>1, <2>1 DEF CountExact, KeInitializeThread, apcVars, reaperVars, queueVars
<1>10. NotStranded'
  BY <1>1, <1>2 DEF TypeOK, NotStranded, Settled, KeInitializeThread, apcVars, reaperVars, queueVars
<1> QED BY <1>3, <1>4, <1>5, <1>6, <1>7, <1>8, <1>9, <1>10 DEF Inv, Shape

(* A wait on another object ends and the thread is counted again.             *)
LEMMA KeWaitDoneInv ==
  ASSUME Inv, NEW t \in Threads, KeWaitDone(t)
  PROVE  Inv'
<1>1. /\ TypeOK /\ Located /\ Associated /\ WaitListsOK /\ TimerOnlyInWait
      /\ ReaperListOK /\ CountExact /\ NotStranded
  BY DEF Inv, Shape
<1>2. /\ pc[t] = "block"
      /\ \E x \in {"run", "apc"} : /\ pc' = [pc EXCEPT ![t] = x]
                                  /\ x = "run" <=> resume[t] = "run"
      /\ queue[t] # NoQueue => /\ queue[t] \in Queues /\ live[queue[t]]
                               /\ count' = [count EXCEPT ![queue[t]] = @ + 1]
      /\ queue[t] = NoQueue => count' = count
  <2>1. pc[t] = "block"
    BY DEF KeWaitDone
  <2>2. queue[t] # NoQueue => queue[t] \in Queues /\ live[queue[t]]
    <3>1. queue[t] # NoQueue => queue[t] \in Queues
      BY <1>1 DEF TypeOK
    <3>2. queue[t] # NoQueue => live[queue[t]]
      BY <1>1, <2>1 DEF Associated
    <3> QED BY <3>1, <3>2
  <2>3. \E x \in {"run", "apc"} : pc' = [pc EXCEPT ![t] = x] /\ (x = "run" <=> resume[t] = "run")
    BY DEF KeWaitDone
  <2> QED BY <2>1, <2>2, <2>3 DEF KeWaitDone
<1>3. TypeOK'
  <2>1. count' \in [Queues -> Int]
    BY <1>1, <1>2 DEF TypeOK
  <2> QED BY <1>1, <1>2, <2>1 DEF TypeOK, Locations, KeWaitDone, apcVars, reaperVars
<1>4. Located'
  BY <1>1, <1>2 DEF TypeOK, Located, InRemove, KeWaitDone, apcVars, reaperVars
<1>5. Associated'
  BY <1>1, <1>2 DEF TypeOK, Associated, KeWaitDone, apcVars, reaperVars
<1>6. WaitListsOK'
  BY <1>1, <1>2, WaitListsKept DEF TypeOK, KeWaitDone, apcVars, reaperVars
<1>7. TimerOnlyInWait'
  BY <1>1, <1>2 DEF TypeOK, TimerOnlyInWait, KeWaitDone, apcVars, reaperVars
<1>8. ReaperListOK'
  BY <1>1, <1>2, ReaperListKept DEF TypeOK, KeWaitDone, apcVars, reaperVars
<1>9. CountExact'
  <2>1. Undisturbed(t)
    BY <1>1, <1>2 DEF TypeOK, Undisturbed, KeWaitDone, apcVars, reaperVars
  <2>2. pc[t] \notin ActivePcs /\ pc'[t] \in ActivePcs /\ queue' = queue /\ live' = live
    BY <1>1, <1>2 DEF TypeOK, ActivePcs, KeWaitDone, apcVars, reaperVars
  <2>3. CASE queue[t] # NoQueue
    BY <1>1, <1>2, <2>1, <2>2, <2>3, CountUp
  <2>4. CASE queue[t] = NoQueue
    <3>1. ASSUME NEW q \in Queues PROVE ActiveIn(q)' = ActiveIn(q)
      BY <2>1, <2>2, <2>4, ConstantsAssumption DEF ActiveIn, Active, ActivePcs, Undisturbed
    <3> QED BY <1>1, <1>2, <2>2, <2>4, <3>1 DEF CountExact
  <2> QED BY <2>3, <2>4
<1>10. NotStranded'
  <2>1. CASE queue[t] # NoQueue
    <3>1. count[queue[t]] \in Nat
      BY <1>1, <1>2, <2>1, CountNotNegative
    <3>2. count'[queue[t]] > 0
      BY <1>1, <1>2, <2>1, <3>1 DEF TypeOK
    <3> QED BY <1>1, <1>2, <2>1, <3>2 DEF TypeOK, NotStranded, Settled, KeWaitDone, apcVars, reaperVars
  <2>2. CASE queue[t] = NoQueue
    BY <1>1, <1>2, <2>2 DEF TypeOK, NotStranded, Settled, KeWaitDone, apcVars, reaperVars
  <2> QED BY <2>1, <2>2
<1> QED BY <1>3, <1>4, <1>5, <1>6, <1>7, <1>8, <1>9, <1>10 DEF Inv, Shape

(* The reaper deletes the first thread of its list, which is dead.            *)
LEMMA PspReaperInv ==
  ASSUME Inv, NEW t \in Threads, PspReaper(t)
  PROVE  Inv'
<1>1. /\ TypeOK /\ Located /\ Associated /\ WaitListsOK /\ TimerOnlyInWait
      /\ ReaperListOK /\ CountExact /\ NotStranded
  BY DEF Inv, Shape
<1>2. /\ Head(reaperList) \in Threads /\ pc[Head(reaperList)] = "dead"
      /\ pc' = [pc EXCEPT ![Head(reaperList)] = "none"]
      /\ Tail(reaperList) \in Seq(Threads) /\ reaperList' = Tail(reaperList)
      /\ Len(Tail(reaperList)) = Len(reaperList) - 1 /\ Len(reaperList) \in Nat \ {0}
      /\ \A i \in 1..Len(Tail(reaperList)) : Tail(reaperList)[i] = reaperList[i + 1]
      /\ Head(reaperList) = reaperList[1]
  <2>1. reaperList \in Seq(Threads) /\ reaperList # <<>>
    BY <1>1 DEF TypeOK, PspReaper
  <2>2. /\ Head(reaperList) \in Threads /\ Tail(reaperList) \in Seq(Threads)
        /\ Len(Tail(reaperList)) = Len(reaperList) - 1
        /\ \A i \in 1..Len(Tail(reaperList)) : Tail(reaperList)[i] = reaperList[i + 1]
    BY <2>1, HeadTailProperties
  <2>3. Len(reaperList) \in Nat \ {0} /\ Head(reaperList) = reaperList[1]
    BY <2>1, EmptySeq, LenProperties
  <2>4. pc[reaperList[1]] \in {"term", "dead"}
    BY <1>1, <2>3 DEF ReaperListOK
  <2>5. pc[Head(reaperList)] = "dead"
    BY <2>2, <2>3, <2>4 DEF Unlocked, PspReaper
  <2> QED BY <2>2, <2>3, <2>5 DEF PspReaper
<1>3. TypeOK'
  BY <1>1, <1>2, Arguments DEF TypeOK, Statuses, Locations, PspReaper, apcVars, reaperVars, queueVars
<1>4. Located'
  BY <1>1, <1>2 DEF TypeOK, Located, InRemove, PspReaper, apcVars, reaperVars, queueVars
<1>5. Associated'
  BY <1>1, <1>2 DEF TypeOK, Associated, PspReaper, apcVars, reaperVars, queueVars
<1>6. WaitListsOK'
  BY <1>1, <1>2, WaitListsKept DEF TypeOK, PspReaper, apcVars, reaperVars, queueVars
<1>7. TimerOnlyInWait'
  BY <1>1, <1>2 DEF TypeOK, TimerOnlyInWait, PspReaper, apcVars, reaperVars, queueVars
<1>8. ReaperListOK'
  <2>1. \A i \in 1..Len(reaperList') : i + 1 \in 1..Len(reaperList) /\ 1 \in 1..Len(reaperList)
    BY <1>2
  <2>2. \A i \in 1..Len(reaperList') : /\ reaperList'[i] = reaperList[i + 1]
                                       /\ reaperList[i + 1] # Head(reaperList)
                                       /\ reaperList[i + 1] \in Threads
    <3> SUFFICES ASSUME NEW i \in 1..Len(reaperList')
                 PROVE  /\ reaperList'[i] = reaperList[i + 1]
                        /\ reaperList[i + 1] # reaperList[1]
                        /\ reaperList[i + 1] \in Threads
      BY <1>2
    <3>1. reaperList[i + 1] \in Threads
      BY <1>1, <2>1, ElementOfSeq DEF TypeOK
    <3>2. reaperList[i + 1] = reaperList[1] => i + 1 = 1
      BY <1>1, <2>1 DEF ReaperListOK, Injective
    <3> QED BY <1>2, <3>1, <3>2
  <2>3. \A i \in 1..Len(reaperList') : pc'[reaperList'[i]] \in {"term", "dead"}
    BY <1>1, <1>2, <2>1, <2>2 DEF TypeOK, ReaperListOK
  <2>4. ASSUME NEW i \in 1..Len(reaperList'), NEW j \in 1..Len(reaperList'),
               reaperList'[i] = reaperList'[j]
        PROVE  i = j
    <3>1. i + 1 = j + 1
      BY <1>1, <2>1, <2>2, <2>4 DEF ReaperListOK, Injective
    <3> QED BY <3>1
  <2> QED BY <2>3, <2>4 DEF ReaperListOK, Injective
<1>9. CountExact'
  <2>1. Undisturbed(Head(reaperList))
    BY <1>1, <1>2 DEF TypeOK, Undisturbed, PspReaper, apcVars, reaperVars, queueVars
  <2>2. UNCHANGED <<queue, live, count>>
    BY DEF PspReaper, apcVars, reaperVars, queueVars
  <2>3. pc'[Head(reaperList)] \notin ActivePcs /\ pc[Head(reaperList)] \notin ActivePcs
    BY <1>1, <1>2 DEF TypeOK, ActivePcs
  <2> QED BY <1>1, <1>2, <2>1, <2>2, <2>3, CountSame
<1>10. NotStranded'
  BY <1>1, <1>2 DEF TypeOK, NotStranded, Settled, PspReaper, apcVars, reaperVars, queueVars
<1> QED BY <1>3, <1>4, <1>5, <1>6, <1>7, <1>8, <1>9, <1>10 DEF Inv, Shape

(* A timed out wait is broken by KiUnwaitThread.                              *)
LEMMA KiTimerExpireInv ==
  ASSUME Inv, NEW t \in Threads, KiTimerExpire(t)
  PROVE  Inv'
<1>1. /\ TypeOK /\ Located /\ Associated /\ WaitListsOK /\ TimerOnlyInWait
      /\ ReaperListOK /\ CountExact /\ NotStranded
  BY DEF Inv, Shape
<1>2. /\ pc[t] = "wait" /\ queue[t] \in Queues /\ live[queue[t]]
      /\ ServiceTypes /\ Woken(pc, t, queue[t])
      /\ count' = [count EXCEPT ![queue[t]] = @ + 1]
      /\ UNCHANGED <<live, entries, members, queue, resume, reaperList>>
      /\ Moves({}, pc) /\ TimerOnlyInWait' /\ WaitListsOK'
      /\ \A p \in Queues : waiters'[p] # <<>> => waiters[p] # <<>>
  <2>1. pc[t] = "wait"
    BY <1>1 DEF TimerOnlyInWait, KiTimerExpire
  <2>2. queue[t] \in Queues /\ live[queue[t]]
    BY <1>1, <2>1, Inside
  <2>3. "TIMEOUT" \in Statuses /\ KiUnwaitThread(pc, count, t, "TIMEOUT")
    BY DEF Statuses, KiTimerExpire
  <2>4. UNCHANGED <<live, entries, signal, members, queue, resume, reaperList>>
    BY DEF KiTimerExpire, reaperVars
  <2>5. /\ ServiceTypes /\ Woken(pc, t, queue[t])
        /\ count' = [count EXCEPT ![queue[t]] = @ + 1]
    BY <1>1, <2>1, <2>2, <2>3, <2>4, KiUnwaitThreadFacts
  <2>6. pc \in [Threads -> Locations]
    BY <1>1 DEF TypeOK
  <2>7. /\ Moves({}, pc) /\ TimerOnlyInWait' /\ WaitListsOK'
        /\ \A p \in Queues : waiters'[p] # <<>> => waiters[p] # <<>>
    <3>1. /\ {} \in SUBSET Threads /\ \A v \in {} : pc[v] # "wait"
          /\ \A v \in Threads \ {} : pc[v] = pc[v] /\ queue'[v] = queue[v]
      BY <2>4
    <3>2. \E u \in Threads : Woken(pc, u, queue[t])
      BY <2>5
    <3> QED BY <1>1, <2>6, <3>1, <3>2, AfterService
  <2> QED BY <2>1, <2>2, <2>4, <2>5, <2>7
<1>3. TypeOK'
  BY <1>1, <1>2 DEF TypeOK, ServiceTypes, Moves, KiTimerExpire, apcVars, reaperVars
<1>4. Located'
  BY <1>1, <1>2 DEF Located, InRemove, Moves
<1>5. Associated'
  <2>1. \A v \in Threads : pc'[v] \in {"dead", "none"} <=> pc[v] \in {"dead", "none"}
    BY <1>2 DEF Moves
  <2>2. \A q \in Queues : members[q] \subseteq Threads
    BY <1>1 DEF TypeOK
  <2> QED BY <1>1, <1>2, <2>1, <2>2 DEF Associated
<1>6. WaitListsOK'
  BY <1>2
<1>7. TimerOnlyInWait'
  BY <1>2
<1>8. ReaperListOK'
  <2>1. \A v \in Threads : pc[v] \in {"term", "dead"} => pc'[v] \in {"term", "dead"}
    BY <1>2 DEF Moves
  <2> QED BY <1>1, <1>2, <2>1, ReaperListKept
<1>9. CountExact'
  <2>1. pc \in [Threads -> Locations]
    BY <1>1 DEF TypeOK
  <2> QED BY <1>1, <1>2, <2>1, WokenUp
<1>10. NotStranded'
  <2>1. \A p \in Queues : Settled(p)' => Settled(p)
    BY <1>2 DEF Moves, Settled
  <2>2. count[queue[t]] \in Nat
    BY <1>1, <1>2, CountNotNegative
  <2>3. count'[queue[t]] > 0 /\ \A p \in Queues \ {queue[t]} : count'[p] = count[p]
    BY <1>1, <1>2, <2>2 DEF TypeOK
  <2>4. \A p \in Queues \ {queue[t]} :
          live[p] /\ Settled(p) /\ entries'[p] # <<>> /\ waiters'[p] # <<>> => count'[p] > 0
    BY <1>1, <1>2, <2>3, StrandedElsewhere
  <2> QED BY <1>2, <2>1, <2>3, <2>4 DEF NotStranded
<1> QED BY <1>3, <1>4, <1>5, <1>6, <1>7, <1>8, <1>9, <1>10 DEF Inv, Shape

(* A kernel APC breaks a wait on a queue.                                     *)
LEMMA KiInsertQueueApcWakesInv ==
  ASSUME Inv, NEW t \in Threads, NEW special, KiInsertQueueApc(t, special),
         pc[t] = "wait", args[t].irql0, special
  PROVE  Inv'
<1>1. /\ TypeOK /\ Located /\ Associated /\ WaitListsOK /\ TimerOnlyInWait
      /\ ReaperListOK /\ CountExact /\ NotStranded
  BY DEF Inv, Shape
<1>2. /\ pc[t] = "wait" /\ queue[t] \in Queues /\ live[queue[t]]
      /\ ServiceTypes /\ Woken(pc, t, queue[t])
      /\ count' = [count EXCEPT ![queue[t]] = @ + 1]
      /\ UNCHANGED <<live, entries, members, queue, resume, reaperList>>
      /\ Moves({}, pc) /\ TimerOnlyInWait' /\ WaitListsOK'
      /\ \A p \in Queues : waiters'[p] # <<>> => waiters[p] # <<>>
  <2>1. pc[t] = "wait"
    OBVIOUS
  <2>2. queue[t] \in Queues /\ live[queue[t]]
    BY <1>1, <2>1, Inside
  <2>3. "KERNEL_APC" \in Statuses /\ KiUnwaitThread(pc, count, t, "KERNEL_APC")
    BY DEF Statuses, KiInsertQueueApc
  <2>4. UNCHANGED <<live, entries, signal, members, queue, resume, reaperList>>
    BY DEF KiInsertQueueApc, reaperVars
  <2>5. /\ ServiceTypes /\ Woken(pc, t, queue[t])
        /\ count' = [count EXCEPT ![queue[t]] = @ + 1]
    BY <1>1, <2>1, <2>2, <2>3, <2>4, KiUnwaitThreadFacts
  <2>6. pc \in [Threads -> Locations]
    BY <1>1 DEF TypeOK
  <2>7. /\ Moves({}, pc) /\ TimerOnlyInWait' /\ WaitListsOK'
        /\ \A p \in Queues : waiters'[p] # <<>> => waiters[p] # <<>>
    <3>1. /\ {} \in SUBSET Threads /\ \A v \in {} : pc[v] # "wait"
          /\ \A v \in Threads \ {} : pc[v] = pc[v] /\ queue'[v] = queue[v]
      BY <2>4
    <3>2. \E u \in Threads : Woken(pc, u, queue[t])
      BY <2>5
    <3> QED BY <1>1, <2>6, <3>1, <3>2, AfterService
  <2> QED BY <2>1, <2>2, <2>4, <2>5, <2>7
<1>3. TypeOK'
  BY <1>1, <1>2 DEF TypeOK, ServiceTypes, Moves, KiInsertQueueApc, apcVars, reaperVars
<1>4. Located'
  BY <1>1, <1>2 DEF Located, InRemove, Moves
<1>5. Associated'
  <2>1. \A v \in Threads : pc'[v] \in {"dead", "none"} <=> pc[v] \in {"dead", "none"}
    BY <1>2 DEF Moves
  <2>2. \A q \in Queues : members[q] \subseteq Threads
    BY <1>1 DEF TypeOK
  <2> QED BY <1>1, <1>2, <2>1, <2>2 DEF Associated
<1>6. WaitListsOK'
  BY <1>2
<1>7. TimerOnlyInWait'
  BY <1>2
<1>8. ReaperListOK'
  <2>1. \A v \in Threads : pc[v] \in {"term", "dead"} => pc'[v] \in {"term", "dead"}
    BY <1>2 DEF Moves
  <2> QED BY <1>1, <1>2, <2>1, ReaperListKept
<1>9. CountExact'
  <2>1. pc \in [Threads -> Locations]
    BY <1>1 DEF TypeOK
  <2> QED BY <1>1, <1>2, <2>1, WokenUp
<1>10. NotStranded'
  <2>1. \A p \in Queues : Settled(p)' => Settled(p)
    BY <1>2 DEF Moves, Settled
  <2>2. count[queue[t]] \in Nat
    BY <1>1, <1>2, CountNotNegative
  <2>3. count'[queue[t]] > 0 /\ \A p \in Queues \ {queue[t]} : count'[p] = count[p]
    BY <1>1, <1>2, <2>2 DEF TypeOK
  <2>4. \A p \in Queues \ {queue[t]} :
          live[p] /\ Settled(p) /\ entries'[p] # <<>> /\ waiters'[p] # <<>> => count'[p] > 0
    BY <1>1, <1>2, <2>3, StrandedElsewhere
  <2> QED BY <1>2, <2>1, <2>3, <2>4 DEF NotStranded
<1> QED BY <1>3, <1>4, <1>5, <1>6, <1>7, <1>8, <1>9, <1>10 DEF Inv, Shape

(* A kernel APC is only marked pending.                                       *)
LEMMA KiInsertQueueApcQueuesInv ==
  ASSUME Inv, NEW t \in Threads, NEW special, KiInsertQueueApc(t, special),
         ~(pc[t] = "wait" /\ args[t].irql0 /\ special)
  PROVE  Inv'
<1>1. /\ TypeOK /\ Located /\ Associated /\ WaitListsOK /\ TimerOnlyInWait
      /\ ReaperListOK /\ CountExact /\ NotStranded
  BY DEF Inv, Shape
<1>2. UNCHANGED <<status, waiters, timer, count, pc>>
  BY DEF KiInsertQueueApc
<1>3. TypeOK'
  BY <1>1, <1>2, Arguments DEF TypeOK, Statuses, Locations, KiInsertQueueApc, apcVars, reaperVars
<1>4. Located'
  BY <1>1, <1>2 DEF TypeOK, Located, InRemove, KiInsertQueueApc, apcVars, reaperVars
<1>5. Associated'
  BY <1>1, <1>2 DEF TypeOK, Associated, KiInsertQueueApc, apcVars, reaperVars
<1>6. WaitListsOK'
  BY <1>1, <1>2, WaitListsKept DEF TypeOK, KiInsertQueueApc, apcVars, reaperVars
<1>7. TimerOnlyInWait'
  BY <1>1, <1>2 DEF TypeOK, TimerOnlyInWait, KiInsertQueueApc, apcVars, reaperVars
<1>8. ReaperListOK'
  BY <1>1, <1>2, ReaperListKept DEF TypeOK, KiInsertQueueApc, apcVars, reaperVars
<1>9. CountExact'
  <2>1. Undisturbed(t)
    BY <1>1, <1>2 DEF TypeOK, Undisturbed, KiInsertQueueApc, apcVars, reaperVars
  <2>2. pc'[t] \in ActivePcs <=> pc[t] \in ActivePcs
    BY <1>1, <1>2 DEF TypeOK, ActivePcs, KiInsertQueueApc, apcVars, reaperVars
  <2> QED BY <1>1, <1>2, <2>1, <2>2, CountSame DEF TypeOK, KiInsertQueueApc, apcVars, reaperVars
<1>10. NotStranded'
  BY <1>1, <1>2 DEF TypeOK, NotStranded, Settled, KiInsertQueueApc, apcVars, reaperVars
<1> QED BY <1>3, <1>4, <1>5, <1>6, <1>7, <1>8, <1>9, <1>10 DEF Inv, Shape

(* A wait on another object lets another thread of the queue run.             *)
LEMMA KeWaitInv ==
  ASSUME Inv, NEW t \in Threads, KeWait(t)
  PROVE  Inv'
<1>1. /\ TypeOK /\ Located /\ Associated /\ WaitListsOK /\ TimerOnlyInWait
      /\ ReaperListOK /\ CountExact /\ NotStranded
  BY DEF Inv, Shape
<1> DEFINE at == [pc EXCEPT ![t] = "block"]
<1>2. /\ pc[t] \in {"run", "apc"} /\ UNCHANGED <<live, maximum, queue, resume, reaperList>>
      /\ at \in [Threads -> Locations] /\ at[t] = "block"
      /\ \A v \in Threads \ {t} : at[v] = pc[v]
  BY <1>1 DEF TypeOK, Locations, reaperVars, KeWait
<1>a. queue[t] # NoQueue => /\ queue[t] \in Queues /\ live[queue[t]]
                            /\ KiActivateWaiterQueue(at, queue[t])
  <2>1. queue[t] # NoQueue => queue[t] \in Queues
    BY <1>1 DEF TypeOK
  <2>2. queue[t] # NoQueue => live[queue[t]]
    BY <1>1, <1>2 DEF Associated
  <2> QED BY <2>1, <2>2 DEF KeWait
<1>b. queue[t] = NoQueue => /\ pc' = at
                            /\ UNCHANGED <<entries, signal, count, waiters, status, timer>>
  BY DEF KeWait
<1>c. /\ ServiceTypes
      /\ \/ \E u \in Threads : Woken(at, u, queue[t])
         \/ pc' = at /\ UNCHANGED <<waiters, timer>>
  <2>1. CASE queue[t] # NoQueue
    BY <1>1, <1>a, <2>1, KiActivateWaiterQueueFacts
  <2>2. CASE queue[t] = NoQueue
    BY <1>1, <1>b, <2>2 DEF TypeOK, ServiceTypes
  <2> QED BY <2>1, <2>2
<1>d. /\ Moves({t}, at) /\ TimerOnlyInWait' /\ WaitListsOK'
      /\ \A p \in Queues : waiters'[p] # <<>> => waiters[p] # <<>>
  <2>1. /\ {t} \in SUBSET Threads /\ \A v \in {t} : pc[v] # "wait"
        /\ \A v \in Threads \ {t} : at[v] = pc[v]
        /\ \A v \in Threads \ {t} : queue'[v] = queue[v]
    BY <1>2
  <2>2. at \in [Threads -> Locations]
    BY <1>2
  <2> HIDE DEF at
  <2> QED BY <1>1, <1>c, <2>1, <2>2, AfterService
<1>3. TypeOK'
  BY <1>1, <1>c, <1>d DEF TypeOK, ServiceTypes, Moves, KeWait, apcVars, reaperVars
<1>4. Located'
  <2>1. InRemove(t)' => queue[t] # NoQueue
    <3>1. InRemove(t)' => resume[t] # "run"
      BY <1>2, <1>d DEF InRemove, Moves
    <3>2. resume[t] # "run" => pc[t] = "apc"
      BY <1>1, <1>2 DEF Located
    <3> QED BY <1>1, <3>1, <3>2, Inside, ConstantsAssumption
  <2>2. \A v \in Threads \ {t} : InRemove(v)' => InRemove(v)
    BY <1>2, <1>d DEF InRemove, Moves
  <2>3. \A v \in Threads : /\ pc'[v] \notin {"apc", "block"} => resume'[v] = "run"
                           /\ pc'[v] = "apc" => resume'[v] # "run"
    BY <1>1, <1>2, <1>d DEF Located, Moves
  <2> QED BY <1>1, <1>2, <2>1, <2>2, <2>3 DEF Located
<1>5. Associated'
  <2>1. \A v \in Threads : pc'[v] \in {"dead", "none"} <=> pc[v] \in {"dead", "none"}
    BY <1>2, <1>d DEF Moves
  <2>2. members' = members /\ \A q \in Queues : members[q] \subseteq Threads
    BY <1>1 DEF TypeOK, KeWait
  <2> QED BY <1>1, <1>2, <2>1, <2>2 DEF Associated
<1>6. WaitListsOK'
  BY <1>d
<1>7. TimerOnlyInWait'
  BY <1>d
<1>8. ReaperListOK'
  <2>1. \A v \in Threads : pc[v] \in {"term", "dead"} => pc'[v] \in {"term", "dead"}
    BY <1>2, <1>d DEF Moves
  <2> QED BY <1>1, <1>2, <2>1, ReaperListKept
<1>9. CountExact'
  <2>1. CASE queue[t] # NoQueue
    <3>1. pc[t] \in ActivePcs /\ "block" \in Locations \ ActivePcs
      BY <1>2 DEF ActivePcs, Locations
    <3> QED BY <1>1, <1>2, <1>a, <2>1, <3>1, ActivateCounts DEF at
  <2>2. CASE queue[t] = NoQueue
    <3>1. ASSUME NEW q \in Queues PROVE ActiveIn(q)' = ActiveIn(q)
      <4>1. q # queue[t]
        BY <2>2, ConstantsAssumption
      <4>2. \A v \in Threads \ {t} : pc'[v] = pc[v]
        BY <1>2, <1>b, <2>2
      <4> QED BY <1>2, <4>1, <4>2 DEF ActiveIn, Active
    <3> QED BY <1>1, <1>2, <1>b, <2>2, <3>1 DEF CountExact
  <2> QED BY <2>1, <2>2
<1>10. NotStranded'
  <2>1. ASSUME NEW p \in Queues, p # queue[t], Settled(p)' PROVE Settled(p)
    BY <1>2, <1>d, <2>1 DEF Moves, Settled
  <2>2. CASE queue[t] # NoQueue
    <3>1. pc[t] \in ActivePcs
      BY <1>2 DEF ActivePcs
    <3>2. /\ entries'[queue[t]] # <<>> /\ waiters'[queue[t]] # <<>> => count'[queue[t]] > 0
          /\ \A p \in Queues \ {queue[t]} : entries'[p] = entries[p] /\ count'[p] = count[p]
      BY <1>1, <1>2, <1>a, <2>2, <3>1, ActivateNotStranded
    <3>3. ASSUME NEW p \in Queues, p # queue[t], live[p], Settled(p)
          PROVE  entries'[p] # <<>> /\ waiters'[p] # <<>> => count'[p] > 0
      BY <1>1, <1>d, <3>2, <3>3, StrandedElsewhere
    <3> QED BY <1>2, <1>a, <2>1, <2>2, <3>2, <3>3 DEF NotStranded
  <2>3. CASE queue[t] = NoQueue
    <3>1. ASSUME NEW p \in Queues PROVE p # queue[t]
      BY <2>3, ConstantsAssumption
    <3> QED BY <1>1, <1>2, <1>b, <2>1, <2>3, <3>1 DEF NotStranded
  <2> QED BY <2>2, <2>3
<1> QED BY <1>3, <1>4, <1>5, <1>6, <1>7, <1>8, <1>9, <1>10 DEF Inv, Shape

(* A dying thread leaves its queue to the next thread.                        *)
LEMMA KeTerminateThreadLeaveInv ==
  ASSUME Inv, NEW t \in Threads, KeTerminateThreadLeave(t)
  PROVE  Inv'
<1>1. /\ TypeOK /\ Located /\ Associated /\ WaitListsOK /\ TimerOnlyInWait
      /\ ReaperListOK /\ CountExact /\ NotStranded
  BY DEF Inv, Shape
<1> DEFINE at == [pc EXCEPT ![t] = "dead"]
<1>2. /\ pc[t] = "term" /\ UNCHANGED <<live, maximum, queue, resume, reaperList>>
      /\ at \in [Threads -> Locations] /\ at[t] = "dead"
      /\ \A v \in Threads \ {t} : at[v] = pc[v]
  BY <1>1 DEF TypeOK, Locations, reaperVars, KeTerminateThreadLeave
<1>a. queue[t] # NoQueue => /\ queue[t] \in Queues /\ live[queue[t]]
                            /\ KiActivateWaiterQueue(at, queue[t])
  <2>1. queue[t] # NoQueue => queue[t] \in Queues
    BY <1>1 DEF TypeOK
  <2>2. queue[t] # NoQueue => live[queue[t]]
    BY <1>1, <1>2 DEF Associated
  <2> QED BY <2>1, <2>2 DEF KeTerminateThreadLeave
<1>b. queue[t] = NoQueue => /\ pc' = at
                            /\ UNCHANGED <<entries, signal, count, waiters, status, timer>>
  BY DEF KeTerminateThreadLeave
<1>c. /\ ServiceTypes
      /\ \/ \E u \in Threads : Woken(at, u, queue[t])
         \/ pc' = at /\ UNCHANGED <<waiters, timer>>
  <2>1. CASE queue[t] # NoQueue
    BY <1>1, <1>a, <2>1, KiActivateWaiterQueueFacts
  <2>2. CASE queue[t] = NoQueue
    BY <1>1, <1>b, <2>2 DEF TypeOK, ServiceTypes
  <2> QED BY <2>1, <2>2
<1>d. /\ Moves({t}, at) /\ TimerOnlyInWait' /\ WaitListsOK'
      /\ \A p \in Queues : waiters'[p] # <<>> => waiters[p] # <<>>
  <2>1. /\ {t} \in SUBSET Threads /\ \A v \in {t} : pc[v] # "wait"
        /\ \A v \in Threads \ {t} : at[v] = pc[v]
        /\ \A v \in Threads \ {t} : queue'[v] = queue[v]
    BY <1>2
  <2>2. at \in [Threads -> Locations]
    BY <1>2
  <2> HIDE DEF at
  <2> QED BY <1>1, <1>c, <2>1, <2>2, AfterService
<1>3. TypeOK'
  <2>1. members' \in [Queues -> SUBSET Threads]
    <3>1. queue[t] # NoQueue => members' = [members EXCEPT ![queue[t]] = @ \ {t}]
      BY DEF KeTerminateThreadLeave
    <3>2. queue[t] = NoQueue => members' = members
      BY DEF KeTerminateThreadLeave
    <3>3. members \in [Queues -> SUBSET Threads]
      BY <1>1 DEF TypeOK
    <3> QED BY <3>1, <3>2, <3>3
  <2> QED BY <1>1, <1>c, <1>d, <2>1 DEF TypeOK, ServiceTypes, Moves, KeTerminateThreadLeave, apcVars, reaperVars
<1>4. Located'
  <2>1. ~InRemove(t)' /\ \A v \in Threads \ {t} : InRemove(v)' => InRemove(v)
    BY <1>2, <1>d DEF InRemove, Moves
  <2>2. \A v \in Threads : /\ pc'[v] \notin {"apc", "block"} => resume'[v] = "run"
                           /\ pc'[v] = "apc" => resume'[v] # "run"
    BY <1>1, <1>2, <1>d DEF Located, Moves
  <2> QED BY <1>1, <1>2, <2>1, <2>2 DEF Located
<1>5. Associated'
  <2>1. /\ \A v \in Threads \ {t} : pc'[v] \in {"dead", "none"} <=> pc[v] \in {"dead", "none"}
        /\ pc'[t] = "dead"
    BY <1>2, <1>d DEF Moves
  <2>2. \A q \in Queues : members[q] \subseteq Threads
    BY <1>1 DEF TypeOK
  <2>3. /\ \A q \in Queues : members'[q] \subseteq members[q] \ {t}
        /\ \A q \in Queues : members[q] \ {t} \subseteq members'[q]
    <3>1. CASE queue[t] # NoQueue
      <4>1. members' = [members EXCEPT ![queue[t]] = @ \ {t}]
        BY <3>1 DEF KeTerminateThreadLeave
      <4>2. \A q \in Queues \ {queue[t]} : t \notin members[q]
        BY <1>1 DEF Associated
      <4> QED BY <1>1, <4>1, <4>2 DEF TypeOK
    <3>2. CASE queue[t] = NoQueue
      <4>1. members' = members
        BY <3>2 DEF KeTerminateThreadLeave
      <4>2. \A q \in Queues : t \notin members[q]
        BY <1>1, <3>2, ConstantsAssumption DEF Associated
      <4> QED BY <4>1, <4>2
    <3> QED BY <3>1, <3>2
  <2>4. \A v \in Threads : queue[v] # NoQueue => queue[v] \in Queues
    BY <1>1 DEF TypeOK
  <2> QED BY <1>1, <1>2, <2>1, <2>2, <2>3, <2>4 DEF Associated
<1>6. WaitListsOK'
  BY <1>d
<1>7. TimerOnlyInWait'
  BY <1>d
<1>8. ReaperListOK'
  <2>1. \A v \in Threads : pc[v] \in {"term", "dead"} => pc'[v] \in {"term", "dead"}
    BY <1>2, <1>d DEF Moves
  <2> QED BY <1>1, <1>2, <2>1, ReaperListKept
<1>9. CountExact'
  <2>1. CASE queue[t] # NoQueue
    <3>1. pc[t] \in ActivePcs /\ "dead" \in Locations \ ActivePcs
      BY <1>2 DEF ActivePcs, Locations
    <3> QED BY <1>1, <1>2, <1>a, <2>1, <3>1, ActivateCounts DEF at
  <2>2. CASE queue[t] = NoQueue
    <3>1. ASSUME NEW q \in Queues PROVE ActiveIn(q)' = ActiveIn(q)
      <4>1. q # queue[t]
        BY <2>2, ConstantsAssumption
      <4>2. \A v \in Threads \ {t} : pc'[v] = pc[v]
        BY <1>2, <1>b, <2>2
      <4> QED BY <1>2, <4>1, <4>2 DEF ActiveIn, Active
    <3> QED BY <1>1, <1>2, <1>b, <2>2, <3>1 DEF CountExact
  <2> QED BY <2>1, <2>2
<1>10. NotStranded'
  <2>1. ASSUME NEW p \in Queues, p # queue[t], Settled(p)' PROVE Settled(p)
    BY <1>2, <1>d, <2>1 DEF Moves, Settled
  <2>2. CASE queue[t] # NoQueue
    <3>1. pc[t] \in ActivePcs
      BY <1>2 DEF ActivePcs
    <3>2. /\ entries'[queue[t]] # <<>> /\ waiters'[queue[t]] # <<>> => count'[queue[t]] > 0
          /\ \A p \in Queues \ {queue[t]} : entries'[p] = entries[p] /\ count'[p] = count[p]
      BY <1>1, <1>2, <1>a, <2>2, <3>1, ActivateNotStranded
    <3>3. ASSUME NEW p \in Queues, p # queue[t], live[p], Settled(p)
          PROVE  entries'[p] # <<>> /\ waiters'[p] # <<>> => count'[p] > 0
      BY <1>1, <1>d, <3>2, <3>3, StrandedElsewhere
    <3> QED BY <1>2, <1>a, <2>1, <2>2, <3>2, <3>3 DEF NotStranded
  <2>3. CASE queue[t] = NoQueue
    <3>1. ASSUME NEW p \in Queues PROVE p # queue[t]
      BY <2>3, ConstantsAssumption
    <3> QED BY <1>1, <1>2, <1>b, <2>1, <2>3, <3>1 DEF NotStranded
  <2> QED BY <2>2, <2>3
<1> QED BY <1>3, <1>4, <1>5, <1>6, <1>7, <1>8, <1>9, <1>10 DEF Inv, Shape

(* Joining a queue: the old queue, if any, activates another thread; the      *)
(* new one is looked at before the lock is released, so that it may be        *)
(* stranded until then.                                                       *)
LEMMA KeRemoveQueueInv ==
  ASSUME Inv, NEW t \in Threads, NEW q \in Queues, NEW a \in WaitArgs,
         KeRemoveQueue(t, q, a)
  PROVE  Inv'
<1>1. /\ TypeOK /\ Located /\ Associated /\ WaitListsOK /\ TimerOnlyInWait
      /\ ReaperListOK /\ CountExact /\ NotStranded
  BY DEF Inv, Shape
<1> DEFINE at == [pc EXCEPT ![t] = "loop"]
<1>2. /\ pc[t] = "run" /\ resume[t] = "run" /\ live[q]
      /\ UNCHANGED <<live, maximum, resume, reaperList>>
      /\ queue' = [queue EXCEPT ![t] = q]
      /\ at \in [Threads -> Locations] /\ at[t] = "loop"
      /\ \A v \in Threads \ {t} : at[v] = pc[v]
  BY <1>1 DEF TypeOK, Located, Locations, reaperVars, KeRemoveQueue
<1>a. queue'[t] = q /\ \A v \in Threads \ {t} : queue'[v] = queue[v]
  BY <1>1, <1>2 DEF TypeOK
<1>b. \/ /\ queue[t] = q
         /\ count' = [count EXCEPT ![q] = @ - 1] /\ pc' = at
         /\ UNCHANGED <<entries, signal, waiters, members, status, timer>>
      \/ /\ queue[t] = NoQueue
         /\ members' = [members EXCEPT ![q] = @ \cup {t}] /\ pc' = at
         /\ UNCHANGED <<entries, signal, count, waiters, status, timer>>
      \/ /\ queue[t] \in Queues \ {q} /\ live[queue[t]]
         /\ members' = [members EXCEPT ![queue[t]] = @ \ {t}, ![q] = @ \cup {t}]
         /\ KiActivateWaiterQueue(at, queue[t])
  <2>1. queue[t] \notin {q, NoQueue} => queue[t] \in Queues \ {q}
    BY <1>1 DEF TypeOK
  <2>2. queue[t] # NoQueue => live[queue[t]]
    BY <1>1, <1>2 DEF Associated
  <2> QED BY <2>1, <2>2 DEF KeRemoveQueue
<1> HIDE DEF at
<1>c. /\ ServiceTypes
      /\ \/ \E u \in Threads : Woken(at, u, queue[t])
         \/ pc' = at /\ UNCHANGED <<waiters, timer>>
  <2>1. CASE queue[t] = q /\ count' = [count EXCEPT ![q] = @ - 1] /\ pc' = at
             /\ UNCHANGED <<entries, signal, waiters, members, status, timer>>
    BY <1>1, <2>1 DEF TypeOK, ServiceTypes
  <2>2. CASE pc' = at /\ UNCHANGED <<entries, signal, count, waiters, status, timer>>
    BY <1>1, <2>2 DEF TypeOK, ServiceTypes
  <2>3. CASE queue[t] \in Queues \ {q} /\ KiActivateWaiterQueue(at, queue[t])
    BY <1>1, <2>3, KiActivateWaiterQueueFacts
  <2> QED BY <1>b, <2>1, <2>2, <2>3
<1>d. /\ Moves({t}, at) /\ TimerOnlyInWait' /\ WaitListsOK'
      /\ \A p \in Queues : waiters'[p] # <<>> => waiters[p] # <<>>
  <2>1. {t} \in SUBSET Threads /\ \A v \in {t} : pc[v] # "wait"
    BY <1>2
  <2> QED BY <1>1, <1>2, <1>a, <1>c, <2>1, AfterService
<1>3. TypeOK'
  <2>1. members' \in [Queues -> SUBSET Threads]
    <3>1. members \in [Queues -> SUBSET Threads]
      BY <1>1 DEF TypeOK
    <3> QED BY <1>b, <3>1
  <2>2. args' \in [Threads -> AllWaitArgs] /\ queue' \in [Threads -> Queues \cup {NoQueue}]
    BY <1>1, <1>2, Arguments DEF TypeOK, KeRemoveQueue
  <2> QED BY <1>1, <1>c, <1>d, <2>1, <2>2
          DEF TypeOK, ServiceTypes, Moves, KeRemoveQueue, apcVars, reaperVars
<1>4. Located'
  <2>1. \A v \in Threads \ {t} : InRemove(v)' => InRemove(v)
    BY <1>2, <1>d DEF InRemove, Moves
  <2>2. \A v \in Threads : /\ pc'[v] \notin {"apc", "block"} => resume'[v] = "run"
                           /\ pc'[v] = "apc" => resume'[v] # "run"
    BY <1>1, <1>2, <1>d DEF Located, Moves
  <2> QED BY <1>1, <1>2, <1>a, <2>1, <2>2, ConstantsAssumption DEF Located
<1>5. Associated'
  <2>1. /\ \A v \in Threads \ {t} : pc'[v] \in {"dead", "none"} <=> pc[v] \in {"dead", "none"}
        /\ pc'[t] = "loop"
    BY <1>2, <1>d DEF Moves
  <2>2. /\ \A p \in Queues : members[p] \subseteq Threads
        /\ \A p \in Queues \ {queue[t]} : t \notin members[p]
    BY <1>1 DEF TypeOK, Associated
  <2>3. \A p \in Queues : members'[p] = IF p = q THEN members[p] \cup {t} ELSE members[p] \ {t}
    <3>1. members \in [Queues -> SUBSET Threads]
      BY <1>1 DEF TypeOK
    <3>2. CASE queue[t] = q /\ members' = members
      <4>1. t \in members[q]
        BY <1>1, <1>2, <3>2, ConstantsAssumption DEF Associated
      <4> QED BY <2>2, <3>2, <4>1
    <3>3. CASE queue[t] = NoQueue /\ members' = [members EXCEPT ![q] = @ \cup {t}]
      BY <2>2, <3>1, <3>3, ConstantsAssumption
    <3>4. CASE /\ queue[t] \in Queues \ {q}
               /\ members' = [members EXCEPT ![queue[t]] = @ \ {t}, ![q] = @ \cup {t}]
      BY <2>2, <3>1, <3>4
    <3> QED BY <1>b, <3>2, <3>3, <3>4
  <2>4. \A v \in Threads : queue[v] # NoQueue => queue[v] \in Queues
    BY <1>1 DEF TypeOK
  <2>5. ASSUME NEW p \in Queues, NEW v \in members'[p]
        PROVE  queue'[v] = p /\ pc'[v] \notin {"dead", "none"}
    <3>1. CASE v = t
      <4>1. p = q
        BY <2>3, <3>1
      <4> QED BY <1>a, <2>1, <3>1, <4>1
    <3>2. CASE v # t
      <4>1. v \in members[p] /\ v \in Threads \ {t}
        BY <2>2, <2>3, <3>2
      <4>2. queue[v] = p /\ pc[v] \notin {"dead", "none"}
        BY <1>1, <4>1 DEF Associated
      <4> QED BY <1>a, <2>1, <4>1, <4>2
    <3> QED BY <3>1, <3>2
  <2>6. ASSUME NEW v \in Threads, pc'[v] \notin {"dead", "none"}, queue'[v] # NoQueue
        PROVE  live'[queue'[v]] /\ v \in members'[queue'[v]]
    <3>1. CASE v = t
      <4>1. members'[q] = members[q] \cup {t}
        BY <2>3
      <4> QED BY <1>2, <1>a, <3>1, <4>1
    <3>2. CASE v # t
      <4>1. queue'[v] = queue[v] /\ pc[v] \notin {"dead", "none"} /\ queue[v] \in Queues
        BY <1>a, <2>1, <2>4, <2>6, <3>2
      <4>2. live[queue[v]] /\ v \in members[queue[v]]
        BY <1>1, <2>6, <4>1 DEF Associated
      <4> QED BY <1>2, <2>3, <3>2, <4>1, <4>2
    <3> QED BY <3>1, <3>2
  <2> QED BY <2>5, <2>6 DEF Associated
<1>6. WaitListsOK'
  BY <1>d
<1>7. TimerOnlyInWait'
  BY <1>d
<1>8. ReaperListOK'
  <2>1. \A v \in Threads : pc[v] \in {"term", "dead"} => pc'[v] \in {"term", "dead"}
    BY <1>2, <1>d DEF Moves
  <2> QED BY <1>1, <1>2, <2>1, ReaperListKept
<1>9. CountExact'
  <2>1. pc[t] \in ActivePcs /\ "loop" \in Locations \ ActivePcs
    BY <1>2 DEF ActivePcs, Locations
  <2>2. CASE queue[t] = q /\ count' = [count EXCEPT ![q] = @ - 1] /\ pc' = at
    <3>1. Undisturbed(t)
      BY <1>2, <1>a, <2>2 DEF Undisturbed
    <3> QED BY <1>1, <1>2, <2>1, <2>2, <3>1, CountDown
  <2>3. CASE queue[t] = NoQueue /\ pc' = at /\ count' = count
    <3>1. ASSUME NEW p \in Queues PROVE ActiveIn(p)' = ActiveIn(p)
      <4>1. p # queue[t]
        BY <2>3, ConstantsAssumption
      <4>2. pc'[t] = "loop" /\ \A v \in Threads \ {t} : pc'[v] = pc[v]
        BY <1>2, <2>3
      <4> QED BY <1>a, <4>1, <4>2 DEF ActiveIn, Active
    <3> QED BY <1>1, <1>2, <2>3, <3>1 DEF CountExact
  <2>4. CASE queue[t] \in Queues \ {q} /\ KiActivateWaiterQueue(at, queue[t])
    BY <1>1, <1>2, <1>a, <2>1, <2>4, ActivateCounts DEF at
  <2> QED BY <1>b, <2>2, <2>3, <2>4
<1>10. NotStranded'
  <2>1. ~Settled(q)'
    <3>1. pc'[t] = "loop"
      BY <1>2, <1>d DEF Moves
    <3> QED BY <1>a, <3>1 DEF Settled
  <2>2. ASSUME NEW p \in Queues, p # q, Settled(p)' PROVE Settled(p)
    BY <1>2, <1>a, <1>d, <2>2 DEF Moves, Settled
  <2>3. ASSUME NEW p \in Queues, p # q, live[p], Settled(p)
        PROVE  entries'[p] # <<>> /\ waiters'[p] # <<>> => count'[p] > 0
    <3>1. CASE count' = [count EXCEPT ![q] = @ - 1] /\ UNCHANGED <<entries, waiters>>
      <4>1. count'[p] = count[p]
        BY <1>1, <2>3, <3>1 DEF TypeOK
      <4> QED BY <1>1, <2>3, <3>1, <4>1, StrandedElsewhere
    <3>2. CASE UNCHANGED <<entries, waiters, count>>
      BY <1>1, <2>3, <3>2, StrandedElsewhere
    <3>3. CASE /\ queue[t] \in Queues \ {q} /\ live[queue[t]]
               /\ KiActivateWaiterQueue(at, queue[t])
      <4>1. pc[t] \in ActivePcs
        BY <1>2 DEF ActivePcs
      <4>2. /\ entries'[queue[t]] # <<>> /\ waiters'[queue[t]] # <<>> => count'[queue[t]] > 0
            /\ \A r \in Queues \ {queue[t]} : entries'[r] = entries[r] /\ count'[r] = count[r]
        BY <1>1, <1>2, <3>3, <4>1, ActivateNotStranded
      <4>3. CASE p = queue[t]
        BY <4>2, <4>3
      <4>4. CASE p # queue[t]
        BY <1>1, <1>d, <2>3, <4>2, <4>4, StrandedElsewhere
      <4> QED BY <4>3, <4>4
    <3> QED BY <1>b, <3>1, <3>2, <3>3
  <2> QED BY <1>2, <2>1, <2>2, <2>3 DEF NotStranded
<1> QED BY <1>3, <1>4, <1>5, <1>6, <1>7, <1>8, <1>9, <1>10 DEF Inv, Shape

(* Queueing an entry: if no waiter takes it, a thread of the queue is         *)
(* active.                                                                    *)
LEMMA KeInsertQueueInv ==
  ASSUME Inv, NEW c \in Threads \cup {Idle}, NEW q \in Queues, NEW e \in Entries, NEW head,
         KeInsertQueue(c, q, e, head)
  PROVE  Inv'
<1>1. /\ TypeOK /\ Located /\ Associated /\ WaitListsOK /\ TimerOnlyInWait
      /\ ReaperListOK /\ CountExact /\ NotStranded
  BY DEF Inv, Shape
<1>2. /\ live[q] /\ UNCHANGED <<live, maximum, members, queue, resume, reaperList>>
      /\ KiInsertQueue(pc, c, q, e, head) /\ pc \in [Threads -> Locations]
      /\ c # Idle => c \in Threads /\ Active(c)
  BY <1>1 DEF TypeOK, Active, reaperVars, KeInsertQueue
<1>a. /\ ServiceTypes /\ reason' \in [Threads -> BOOLEAN]
      /\ \A p \in Queues \ {q} : entries'[p] = entries[p]
      /\ \/ /\ \E u \in Threads : Woken(pc, u, q)
            /\ count' = [count EXCEPT ![q] = @ + 1]
         \/ /\ pc' = pc
            /\ waiters[q] = <<>> \/ count[q] >= maximum[q] \/ (c # Idle /\ queue[c] = q)
            /\ UNCHANGED <<waiters, status, count, reason, timer>>
  BY <1>1, <1>2, KiInsertQueueFacts
<1>b. /\ Moves({}, pc) /\ TimerOnlyInWait' /\ WaitListsOK'
      /\ \A p \in Queues : waiters'[p] # <<>> => waiters[p] # <<>>
  <2>1. /\ {} \in SUBSET Threads /\ \A v \in {} : pc[v] # "wait"
        /\ \A v \in Threads \ {} : pc[v] = pc[v] /\ queue'[v] = queue[v]
    BY <1>2
  <2>2. (\E u \in Threads : Woken(pc, u, q)) \/ (pc' = pc /\ UNCHANGED <<waiters, timer>>)
    BY <1>a
  <2> QED BY <1>1, <1>2, <2>1, <2>2, AfterService
<1>3. TypeOK'
  BY <1>1, <1>a, <1>b DEF TypeOK, ServiceTypes, Moves, KeInsertQueue, apcVars, reaperVars
<1>4. Located'
  BY <1>1, <1>2, <1>b DEF Located, InRemove, Moves
<1>5. Associated'
  <2>1. \A v \in Threads : pc'[v] \in {"dead", "none"} <=> pc[v] \in {"dead", "none"}
    BY <1>b DEF Moves
  <2>2. \A p \in Queues : members[p] \subseteq Threads
    BY <1>1 DEF TypeOK
  <2> QED BY <1>1, <1>2, <2>1, <2>2 DEF Associated
<1>6. WaitListsOK'
  BY <1>b
<1>7. TimerOnlyInWait'
  BY <1>b
<1>8. ReaperListOK'
  <2>1. \A v \in Threads : pc[v] \in {"term", "dead"} => pc'[v] \in {"term", "dead"}
    BY <1>b DEF Moves
  <2> QED BY <1>1, <1>2, <2>1, ReaperListKept
<1>9. CountExact'
  <2>1. CASE (\E u \in Threads : Woken(pc, u, q)) /\ count' = [count EXCEPT ![q] = @ + 1]
    BY <1>1, <1>2, <2>1, WokenUp
  <2>2. CASE pc' = pc /\ count' = count
    <3>1. ASSUME NEW p \in Queues PROVE ActiveIn(p)' = ActiveIn(p)
      BY <1>2, <2>2 DEF ActiveIn, Active
    <3> QED BY <1>1, <1>2, <2>2, <3>1 DEF CountExact
  <2> QED BY <1>a, <2>1, <2>2
<1>10. NotStranded'
  <2>1. \A p \in Queues : Settled(p)' => Settled(p)
    BY <1>2, <1>b DEF Moves, Settled
  <2>2. count[q] \in Nat /\ maximum[q] \in Nat \ {0} /\ \A p \in Queues : count[p] \in Int
    BY <1>1, <1>2, CountNotNegative DEF TypeOK
  <2>3. \A p \in Queues \ {q} : count'[p] = count[p]
    BY <1>1, <1>a DEF TypeOK
  <2>4. \A p \in Queues \ {q} :
          live[p] /\ Settled(p) /\ entries'[p] # <<>> /\ waiters'[p] # <<>> => count'[p] > 0
    BY <1>1, <1>a, <1>b, <2>3, StrandedElsewhere
  <2>5. waiters'[q] # <<>> => count'[q] > 0
    <3>1. CASE count' = [count EXCEPT ![q] = @ + 1]
      BY <1>1, <2>2, <3>1 DEF TypeOK
    <3>2. CASE count[q] >= maximum[q] /\ count' = count
      BY <2>2, <3>2
    <3>3. CASE c # Idle /\ queue[c] = q /\ count' = count
      BY <1>1, <1>2, <3>3, ActiveCounted
    <3> QED BY <1>a, <3>1, <3>2, <3>3
  <2> QED BY <1>2, <2>1, <2>4, <2>5 DEF NotStranded
<1> QED BY <1>3, <1>4, <1>5, <1>6, <1>7, <1>8, <1>9, <1>10 DEF Inv, Shape

(* Thread exit: the reaper's work item is queued by a thread that may be of   *)
(* that queue.                                                                *)
LEMMA KeTerminateThreadInv ==
  ASSUME Inv, NEW t \in Threads,
         KeTerminateThread(t)
  PROVE  Inv'
<1>1. /\ TypeOK /\ Located /\ Associated /\ WaitListsOK /\ TimerOnlyInWait
      /\ ReaperListOK /\ CountExact /\ NotStranded
  BY DEF Inv, Shape
<1> DEFINE at == [pc EXCEPT ![t] = "term"]
           q == ReaperQueue
<1>2. /\ pc[t] = "run" /\ live[q] /\ q \in Queues /\ ReaperItem \in Entries
      /\ UNCHANGED <<live, maximum, members, queue, resume>>
      /\ reaperList' = Append(reaperList, t)
      /\ at \in [Threads -> Locations] /\ at[t] = "term"
      /\ \A v \in Threads \ {t} : at[v] = pc[v]
  BY <1>1, ConstantsAssumption DEF TypeOK, Locations, KeTerminateThread
<1>a. \/ pc' = at /\ UNCHANGED <<entries, signal, waiters, status, count, reason, timer>>
      \/ KiInsertQueue(at, t, q, ReaperItem, FALSE)
  BY DEF KeTerminateThread
<1> HIDE DEF at, q
<1>b. /\ ServiceTypes /\ reason' \in [Threads -> BOOLEAN]
      /\ \A p \in Queues \ {q} : entries'[p] = entries[p]
      /\ \/ /\ \E u \in Threads : Woken(at, u, q)
            /\ count' = [count EXCEPT ![q] = @ + 1]
         \/ /\ pc' = at
            /\ \/ entries' = entries
               \/ waiters[q] = <<>> \/ count[q] >= maximum[q] \/ queue[t] = q
            /\ UNCHANGED <<waiters, status, count, reason, timer>>
  <2>1. CASE pc' = at /\ UNCHANGED <<entries, signal, waiters, status, count, reason, timer>>
    BY <1>1, <2>1 DEF TypeOK, ServiceTypes
  <2>2. CASE KiInsertQueue(at, t, q, ReaperItem, FALSE)
    <3>1. /\ ServiceTypes /\ reason' \in [Threads -> BOOLEAN]
          /\ \A p \in Queues \ {q} : entries'[p] = entries[p]
          /\ \/ /\ \E u \in Threads : Woken(at, u, q)
                /\ count' = [count EXCEPT ![q] = @ + 1]
             \/ /\ pc' = at
                /\ waiters[q] = <<>> \/ count[q] >= maximum[q] \/ (t # Idle /\ queue[t] = q)
                /\ UNCHANGED <<waiters, status, count, reason, timer>>
      BY <1>1, <1>2, <2>2, KiInsertQueueFacts
    <3> QED BY <3>1
  <2> QED BY <1>a, <2>1, <2>2
<1>c. /\ Moves({t}, at) /\ TimerOnlyInWait' /\ WaitListsOK'
      /\ \A p \in Queues : waiters'[p] # <<>> => waiters[p] # <<>>
  <2>1. /\ {t} \in SUBSET Threads /\ \A v \in {t} : pc[v] # "wait"
        /\ \A v \in Threads \ {t} : queue'[v] = queue[v]
    BY <1>2
  <2>2. (\E u \in Threads : Woken(at, u, q)) \/ (pc' = at /\ UNCHANGED <<waiters, timer>>)
    BY <1>b
  <2> QED BY <1>1, <1>2, <2>1, <2>2, AfterService
<1>3. TypeOK'
  <2>1. reaperList' \in Seq(Threads) /\ reaperActive' \in BOOLEAN
    <3>1. reaperList \in Seq(Threads)
      BY <1>1 DEF TypeOK
    <3> QED BY <1>2, <3>1, AppendProperties DEF KeTerminateThread
  <2> QED BY <1>1, <1>b, <1>c, <2>1 DEF TypeOK, ServiceTypes, Moves, KeTerminateThread, apcVars
<1>4. Located'
  <2>1. \A v \in Threads : InRemove(v)' => InRemove(v)
    BY <1>2, <1>c DEF InRemove, Moves
  <2>2. \A v \in Threads : /\ pc'[v] \notin {"apc", "block"} => resume'[v] = "run"
                           /\ pc'[v] = "apc" => resume'[v] # "run"
    BY <1>1, <1>2, <1>c DEF Located, Moves
  <2> QED BY <1>1, <1>2, <2>1, <2>2 DEF Located
<1>5. Associated'
  <2>1. \A v \in Threads : pc'[v] \in {"dead", "none"} <=> pc[v] \in {"dead", "none"}
    BY <1>2, <1>c DEF Moves
  <2>2. \A p \in Queues : members[p] \subseteq Threads
    BY <1>1 DEF TypeOK
  <2> QED BY <1>1, <1>2, <2>1, <2>2 DEF Associated
<1>6. WaitListsOK'
  BY <1>c
<1>7. TimerOnlyInWait'
  BY <1>c
<1>8. ReaperListOK'
  <2> DEFINE s == reaperList
             r == reaperList'
  <2>1. s \in Seq(Threads) /\ Len(s) \in Nat
    BY <1>1, LenProperties DEF TypeOK
  <2>2. /\ Len(r) = Len(s) + 1 /\ r[Len(s) + 1] = t
        /\ \A i \in 1..Len(s) : r[i] = s[i]
    BY <1>2, <2>1, AppendProperties
  <2>3. \A i \in 1..Len(s) : s[i] \in Threads /\ pc[s[i]] \in {"term", "dead"} /\ s[i] # t
    BY <1>1, <1>2, <2>1, ElementOfSeq DEF ReaperListOK
  <2>4. \A i, j \in 1..Len(s) : s[i] = s[j] => i = j
    BY <1>1 DEF ReaperListOK, Injective
  <2>5. pc'[t] = "term" /\ \A v \in Threads \ {t} : pc[v] \in {"term", "dead"} => pc'[v] = pc[v]
    BY <1>2, <1>c DEF Moves
  <2> HIDE DEF s, r
  <2>6. \A i \in 1..Len(r) : i \in 1..Len(s) \/ i = Len(s) + 1
    BY <2>1, <2>2
  <2>7. \A i \in 1..Len(r) : pc'[r[i]] \in {"term", "dead"}
    BY <2>2, <2>3, <2>5, <2>6
  <2>8. ASSUME NEW i \in 1..Len(r), NEW j \in 1..Len(r), r[i] = r[j] PROVE i = j
    BY <2>2, <2>3, <2>4, <2>6, <2>8
  <2> QED BY <2>7, <2>8 DEF ReaperListOK, Injective, r
<1>9. CountExact'
  <2>1. \A v \in Threads : at[v] \in ActivePcs <=> pc[v] \in ActivePcs
    BY <1>2 DEF ActivePcs
  <2>2. CASE (\E u \in Threads : Woken(at, u, q)) /\ count' = [count EXCEPT ![q] = @ + 1]
    BY <1>1, <1>2, <2>1, <2>2, WokenUp
  <2>3. CASE pc' = at /\ count' = count
    <3>1. Undisturbed(t)
      BY <1>2, <2>1, <2>3 DEF Undisturbed
    <3> QED BY <1>1, <1>2, <2>1, <2>3, <3>1, CountSame
  <2> QED BY <1>b, <2>2, <2>3
<1>10. NotStranded'
  <2>1. ~Settled(queue[t])'
    BY <1>2, <1>c DEF Moves, Settled
  <2>2. ASSUME NEW p \in Queues, Settled(p)' PROVE Settled(p)
    BY <1>2, <1>c, <2>2 DEF Moves, Settled
  <2>3. count[q] \in Nat /\ maximum[q] \in Nat \ {0}
    BY <1>1, <1>2, CountNotNegative DEF TypeOK
  <2>4. \A p \in Queues \ {q} : count'[p] = count[p]
    BY <1>1, <1>b DEF TypeOK
  <2>5. \A p \in Queues \ {q} :
          live[p] /\ Settled(p) /\ entries'[p] # <<>> /\ waiters'[p] # <<>> => count'[p] > 0
    BY <1>1, <1>b, <1>c, <2>4, StrandedElsewhere
  <2>6. Settled(q) /\ entries'[q] # <<>> /\ waiters'[q] # <<>> => count'[q] > 0 \/ queue[t] = q
    <3>1. CASE count' = [count EXCEPT ![q] = @ + 1]
      BY <1>1, <1>2, <2>3, <3>1 DEF TypeOK
    <3>2. CASE count[q] >= maximum[q] /\ count' = count
      BY <2>3, <3>2
    <3>3. CASE UNCHANGED <<entries, waiters, count>>
      BY <1>1, <1>2, <3>3, StrandedElsewhere
    <3>4. CASE waiters' = waiters /\ waiters[q] = <<>>
      BY <3>4
    <3> QED BY <1>b, <3>1, <3>2, <3>3, <3>4
  <2>7. ASSUME NEW p \in Queues, live'[p], Settled(p)', entries'[p] # <<>>, waiters'[p] # <<>>
        PROVE  count'[p] > 0
    <3>1. Settled(p) /\ live[p] /\ queue[t] # p
      BY <1>2, <2>1, <2>2, <2>7
    <3>2. CASE p = q
      BY <2>6, <2>7, <3>1, <3>2
    <3>3. CASE p # q
      BY <2>5, <2>7, <3>1, <3>3
    <3> QED BY <3>2, <3>3
  <2> QED BY <2>7 DEF NotStranded
<1> QED BY <1>3, <1>4, <1>5, <1>6, <1>7, <1>8, <1>9, <1>10 DEF Inv, Shape

(* A new queue object: no live thread refers to its memory.                   *)
LEMMA KeInitializeQueueInv ==
  ASSUME Inv, NEW q \in Queues, NEW max \in MaximumCounts,
         KeInitializeQueue(q, max)
  PROVE  Inv'
<1>1. /\ TypeOK /\ Located /\ Associated /\ WaitListsOK /\ TimerOnlyInWait
      /\ ReaperListOK /\ CountExact /\ NotStranded
  BY DEF Inv, Shape
<1>2. /\ ~live[q] /\ live' = [live EXCEPT ![q] = TRUE]
      /\ waiters' = [waiters EXCEPT ![q] = <<>>] /\ members' = [members EXCEPT ![q] = {}]
      /\ entries' = [entries EXCEPT ![q] = <<>>] /\ count' = [count EXCEPT ![q] = 0]
      /\ UNCHANGED <<queue, pc, resume, timer, reaperList>>
  BY DEF KeInitializeQueue, reaperVars
<1>a. \A v \in Threads : queue[v] = q => pc[v] \in {"dead", "none"}
  BY <1>1, <1>2, ConstantsAssumption DEF Associated
<1>b. Len(<<>>) = 0 /\ <<>> \in Seq(Threads) /\ <<>> \in Seq(Entries) /\ 0 \in Int
  BY EmptySeq
<1>3. TypeOK'
  <2>1. max \in Nat \ {0}
    BY ConstantsAssumption
  <2>2. /\ waiters' \in [Queues -> Seq(Threads)] /\ entries' \in [Queues -> Seq(Entries)]
        /\ count' \in [Queues -> Int] /\ members' \in [Queues -> SUBSET Threads]
        /\ live' \in [Queues -> BOOLEAN]
    BY <1>1, <1>2, <1>b DEF TypeOK
  <2>3. signal' \in [Queues -> Int] /\ maximum' \in [Queues -> Nat \ {0}]
    BY <1>1, <1>b, <2>1 DEF TypeOK, KeInitializeQueue
  <2> QED BY <1>1, <2>2, <2>3 DEF TypeOK, KeInitializeQueue, apcVars, reaperVars
<1>4. Located'
  BY <1>1, <1>2 DEF Located, InRemove
<1>5. Associated'
  <2>1. \A p \in Queues : members'[p] = IF p = q THEN {} ELSE members[p]
    BY <1>1, <1>2 DEF TypeOK
  <2>2. \A p \in Queues : live[p] => live'[p]
    BY <1>1, <1>2 DEF TypeOK
  <2>3. ASSUME NEW p \in Queues, NEW v \in members'[p]
        PROVE  queue'[v] = p /\ pc'[v] \notin {"dead", "none"}
    <3>1. v \in members[p]
      BY <2>1
    <3> QED BY <1>1, <1>2, <3>1 DEF Associated
  <2>4. ASSUME NEW v \in Threads, pc'[v] \notin {"dead", "none"}, queue'[v] # NoQueue
        PROVE  live'[queue'[v]] /\ v \in members'[queue'[v]]
    <3>1. queue' = queue /\ queue[v] \in Queues /\ queue[v] # q
      BY <1>1, <1>2, <1>a, <2>4 DEF TypeOK
    <3>2. live[queue[v]] /\ v \in members[queue[v]]
      BY <1>1, <1>2, <2>4 DEF Associated
    <3> QED BY <2>1, <2>2, <3>1, <3>2
  <2> QED BY <2>3, <2>4 DEF Associated
<1>6. WaitListsOK'
  <2>1. ASSUME NEW p \in Queues
        PROVE  /\ \A i \in 1..Len(waiters'[p]) :
                    pc'[waiters'[p][i]] = "wait" /\ queue'[waiters'[p][i]] = p
               /\ Injective(waiters[p])'
    <3>1. CASE p = q
      <4>1. waiters'[p] = <<>> /\ ~\E i \in 1..Len(<<>>) : TRUE
        BY <1>1, <1>2, <1>b, <3>1 DEF TypeOK
      <4> QED BY <4>1 DEF Injective
    <3>2. CASE p # q
      <4>1. waiters'[p] = waiters[p]
        BY <1>1, <1>2, <3>2 DEF TypeOK
      <4> QED BY <1>1, <1>2, <4>1 DEF WaitListsOK, Injective
    <3> QED BY <3>1, <3>2
  <2> QED BY <2>1 DEF WaitListsOK
<1>7. TimerOnlyInWait'
  BY <1>1, <1>2 DEF TimerOnlyInWait
<1>8. ReaperListOK'
  BY <1>1, <1>2, ReaperListKept
<1>9. CountExact'
  <2>1. \A p \in Queues : ActiveIn(p)' = ActiveIn(p)
    BY <1>2 DEF ActiveIn, Active
  <2>2. Cardinality(ActiveIn(q)) = 0
    <3>1. ActiveIn(q) = {}
      BY <1>a DEF ActiveIn, Active
    <3> QED BY <3>1, FS_EmptySet
  <2>3. ASSUME NEW p \in Queues
        PROVE  /\ count'[p] = IF p = q THEN 0 ELSE count[p]
               /\ p # q => live'[p] = live[p]
    BY <1>1, <1>2 DEF TypeOK
  <2> QED BY <1>1, <2>1, <2>2, <2>3 DEF CountExact
<1>10. NotStranded'
  <2>1. ASSUME NEW p \in Queues PROVE Settled(p)' => Settled(p)
    BY <1>2 DEF Settled
  <2>2. ASSUME NEW p \in Queues
        PROVE  IF p = q THEN entries'[p] = <<>>
               ELSE /\ live'[p] = live[p] /\ count'[p] = count[p]
                    /\ entries'[p] = entries[p] /\ waiters'[p] = waiters[p]
    BY <1>1, <1>2 DEF TypeOK
  <2> QED BY <1>1, <2>1, <2>2 DEF NotStranded
<1> QED BY <1>3, <1>4, <1>5, <1>6, <1>7, <1>8, <1>9, <1>10 DEF Inv, Shape

(* Rundown: no thread waits on the queue, and its members forget it.          *)
LEMMA KeRundownQueueInv ==
  ASSUME Inv, NEW q \in Queues,
         KeRundownQueue(q)
  PROVE  Inv'
<1>1. /\ TypeOK /\ Located /\ Associated /\ WaitListsOK /\ TimerOnlyInWait
      /\ ReaperListOK /\ CountExact /\ NotStranded
  BY DEF Inv, Shape
<1>2. /\ live[q] /\ live' = [live EXCEPT ![q] = FALSE]
      /\ members' = [members EXCEPT ![q] = {}] /\ entries' = [entries EXCEPT ![q] = <<>>]
      /\ queue' = [v \in Threads |-> IF v \in members[q] THEN NoQueue ELSE queue[v]]
      /\ UNCHANGED <<count, waiters, pc, resume, timer, reaperList>>
      /\ \A v \in Threads : queue[v] = q => ~InRemove(v)
  BY DEF KeRundownQueue, reaperVars
<1>a. \A v \in Threads : queue[v] # q => queue'[v] = queue[v]
  BY <1>1, <1>2 DEF Associated
<1>b. \A v \in Threads : queue[v] = q => \/ queue'[v] = NoQueue
                                         \/ pc[v] \in {"dead", "none"} /\ queue'[v] = q
  <2>1. \A v \in Threads : queue[v] = q /\ pc[v] \notin {"dead", "none"} => v \in members[q]
    BY <1>1, ConstantsAssumption DEF Associated
  <2>2. \A v \in Threads : queue'[v] = IF v \in members[q] THEN NoQueue ELSE queue[v]
    BY <1>2
  <2> QED BY <2>1, <2>2
<1>3. TypeOK'
  <2>1. <<>> \in Seq(Entries)
    BY EmptySeq
  <2>2. queue' \in [Threads -> Queues \cup {NoQueue}]
    BY <1>1, <1>2 DEF TypeOK
  <2>3. /\ live' \in [Queues -> BOOLEAN] /\ members' \in [Queues -> SUBSET Threads]
        /\ entries' \in [Queues -> Seq(Entries)]
    BY <1>1, <1>2, <2>1 DEF TypeOK
  <2> QED BY <1>1, <2>2, <2>3 DEF TypeOK, KeRundownQueue, apcVars, reaperVars
<1>4. Located'
  <2>1. \A v \in Threads : InRemove(v)' => InRemove(v)
    BY <1>2 DEF InRemove
  <2>2. \A v \in Threads : InRemove(v)' => queue'[v] # NoQueue
    BY <1>1, <1>2, <1>a, <2>1 DEF Located
  <2> QED BY <1>1, <1>2, <2>2 DEF Located
<1>5. Associated'
  <2>1. \A p \in Queues : /\ members'[p] = IF p = q THEN {} ELSE members[p]
                          /\ p # q => live'[p] = live[p]
    BY <1>1, <1>2 DEF TypeOK
  <2>2. ASSUME NEW p \in Queues, NEW v \in members'[p]
        PROVE  queue'[v] = p /\ pc'[v] \notin {"dead", "none"}
    <3>1. v \in members[p] /\ p # q /\ v \in Threads
      BY <1>1, <2>1 DEF TypeOK
    <3>2. queue[v] = p /\ pc[v] \notin {"dead", "none"}
      BY <1>1, <3>1 DEF Associated
    <3> QED BY <1>2, <1>a, <3>1, <3>2
  <2>3. ASSUME NEW v \in Threads, pc'[v] \notin {"dead", "none"}, queue'[v] # NoQueue
        PROVE  live'[queue'[v]] /\ v \in members'[queue'[v]]
    <3>1. queue'[v] = queue[v] /\ queue[v] \in Queues /\ queue[v] # q
      <4>1. queue[v] # q
        BY <1>2, <1>b, <2>3
      <4>2. queue'[v] = queue[v]
        BY <1>a, <4>1
      <4> QED BY <1>1, <2>3, <4>1, <4>2 DEF TypeOK
    <3>2. live[queue[v]] /\ v \in members[queue[v]]
      BY <1>1, <1>2, <2>3, <3>1 DEF Associated
    <3> QED BY <2>1, <3>1, <3>2
  <2> QED BY <2>2, <2>3 DEF Associated
<1>6. WaitListsOK'
  <2>1. \A v \in Threads : pc[v] = "wait" => queue[v] # q
    BY <1>2 DEF InRemove
  <2> QED BY <1>1, <1>2, <1>a, <2>1, WaitListsKept
<1>7. TimerOnlyInWait'
  BY <1>1, <1>2 DEF TimerOnlyInWait
<1>8. ReaperListOK'
  BY <1>1, <1>2, ReaperListKept
<1>9. CountExact'
  <2>1. ASSUME NEW p \in Queues, p # q PROVE ActiveIn(p)' = ActiveIn(p)
    <3>1. \A v \in Threads : queue'[v] = p <=> queue[v] = p
      BY <1>a, <1>b, <2>1, ConstantsAssumption
    <3> QED BY <1>2, <3>1 DEF ActiveIn, Active
  <2>2. ASSUME NEW p \in Queues PROVE live'[p] => p # q /\ live[p]
    BY <1>1, <1>2 DEF TypeOK
  <2> QED BY <1>1, <1>2, <2>1, <2>2 DEF CountExact
<1>10. NotStranded'
  <2>1. ASSUME NEW p \in Queues PROVE live'[p] => p # q /\ live[p] /\ entries'[p] = entries[p]
    BY <1>1, <1>2 DEF TypeOK
  <2>2. ASSUME NEW p \in Queues, p # q, Settled(p)' PROVE Settled(p)
    BY <1>2, <1>a, <2>2 DEF Settled
  <2> QED BY <1>1, <1>2, <2>1, <2>2 DEF NotStranded
<1> QED BY <1>3, <1>4, <1>5, <1>6, <1>7, <1>8, <1>9, <1>10 DEF Inv, Shape

-----------------------------------------------------------------------------
(* The invariant holds initially.                                             *)
LEMMA InitInv == Init => Inv
<1> SUFFICES ASSUME Init PROVE Inv
  OBVIOUS
<1>1. /\ \A S : <<>> \in Seq(S)
      /\ Len(<<>>) = 0 /\ ~\E i \in 1..0 : TRUE
  BY EmptySeq
<1>2. /\ \A v \in Threads : pc[v] = "run" /\ resume[v] = "run" /\ queue[v] = NoQueue /\ ~timer[v]
      /\ \A q \in Queues : /\ waiters[q] = <<>> /\ entries[q] = <<>>
                           /\ members[q] = {} /\ count[q] = 0
      /\ reaperList = <<>>
  BY DEF Init
<1>3. TypeOK
  <2>1. MaximumCounts \subseteq Nat \ {0} /\ NoArgs \in AllWaitArgs
    BY ConstantsAssumption, Arguments
  <2>2. maximum \in [Queues -> Nat \ {0}]
    BY <2>1 DEF Init
  <2>3. /\ entries \in [Queues -> Seq(Entries)] /\ waiters \in [Queues -> Seq(Threads)]
        /\ reaperList \in Seq(Threads)
    BY <1>1 DEF Init
  <2>4. live \in [Queues -> BOOLEAN] /\ reaperActive \in BOOLEAN
    BY DEF Init
  <2>5. /\ reason \in [Threads -> BOOLEAN] /\ timer \in [Threads -> BOOLEAN]
        /\ kernelApc \in [Threads -> BOOLEAN] /\ userApc \in [Threads -> BOOLEAN]
    BY DEF Init
  <2>6. /\ signal \in [Queues -> Int] /\ count \in [Queues -> Int]
        /\ members \in [Queues -> SUBSET Threads]
    BY DEF Init
  <2>7. /\ queue \in [Threads -> Queues \cup {NoQueue}] /\ pc \in [Threads -> Locations]
        /\ resume \in [Threads -> {"run", "ready", "retry"}]
        /\ status \in [Threads -> Statuses] /\ args \in [Threads -> AllWaitArgs]
    BY <2>1 DEF Init, Locations, Statuses
  <2> QED BY <2>2, <2>3, <2>4, <2>5, <2>6, <2>7 DEF TypeOK
<1>4. Located /\ Associated /\ TimerOnlyInWait
  BY <1>2 DEF Located, InRemove, Associated, TimerOnlyInWait
<1>5. WaitListsOK /\ ReaperListOK
  BY <1>1, <1>2 DEF WaitListsOK, ReaperListOK, Injective
<1>6. CountExact
  <2>1. \A q \in Queues : ActiveIn(q) = {}
    BY <1>2, ConstantsAssumption DEF ActiveIn
  <2> QED BY <1>2, <2>1, FS_EmptySet DEF CountExact
<1>7. NotStranded
  BY <1>2 DEF NotStranded
<1> QED BY <1>3, <1>4, <1>5, <1>6, <1>7 DEF Inv, Shape

(* A step that changes nothing preserves the invariant.                       *)
LEMMA StutterInv == Inv /\ UNCHANGED vars => Inv'
<1> SUFFICES ASSUME Inv, UNCHANGED vars PROVE Inv'
  OBVIOUS
<1>1. TypeOK'
  BY DEF Inv, TypeOK, vars
<1>2. Shape'
  BY DEF Inv, Shape, Located, InRemove, Associated, WaitListsOK, Injective, TimerOnlyInWait,
         ReaperListOK, vars
<1>3. CountExact'
  <2>1. \A q \in Queues : ActiveIn(q)' = ActiveIn(q)
    BY DEF ActiveIn, Active, vars
  <2> QED BY <2>1 DEF Inv, CountExact, vars
<1>4. NotStranded'
  BY DEF Inv, NotStranded, Settled, vars
<1> QED BY <1>1, <1>2, <1>3, <1>4 DEF Inv

(* Every step of a thread preserves the invariant.                            *)
LEMMA ThreadStepInv ==
  ASSUME Inv, NEW t \in Threads, ThreadStep(t)
  PROVE  Inv'
<1>1. CASE \E q \in Queues, a \in WaitArgs : KeRemoveQueue(t, q, a)
  BY <1>1, KeRemoveQueueInv
<1>2. CASE KeRemoveQueueTake(t)
  BY <1>2, KeRemoveQueueTakeInv
<1>3. CASE KeRemoveQueueApc(t)
  BY <1>3, KeRemoveQueueApcInv
<1>4. CASE KeRemoveQueueReturn(t)
  BY <1>4, KeRemoveQueueReturnInv
<1>5. CASE KeRemoveQueueWait(t)
  BY <1>5, KeRemoveQueueWaitInv
<1>6. CASE KiSwapThreadApc(t)
  BY <1>6, KiSwapThreadApcInv
<1>7. CASE KeRemoveQueueWoken(t)
  BY <1>7, KeRemoveQueueWokenInv
<1>8. CASE KeRemoveQueueRelock(t)
  BY <1>8, KeRemoveQueueRelockInv
<1>9. CASE KeWait(t)
  BY <1>9, KeWaitInv
<1>10. CASE KeWaitDone(t)
  BY <1>10, KeWaitDoneInv
<1>11. CASE KiTimerExpire(t)
  BY <1>11, KiTimerExpireInv
<1>12. CASE KiDeliverApc(t)
  BY <1>12, KiDeliverApcInv
<1>13. CASE KiDeliverApcReturn(t)
  BY <1>13, KiDeliverApcReturnInv
<1>14. CASE FinishEntry(t)
  BY <1>14, FinishEntryInv
<1>15. CASE KeTerminateThread(t)
  BY <1>15, KeTerminateThreadInv
<1>16. CASE KeTerminateThreadLeave(t)
  BY <1>16, KeTerminateThreadLeaveInv
<1>17. CASE PspReaper(t)
  BY <1>17, PspReaperInv
<1>18. CASE PspReaperDone(t)
  BY <1>18, PspReaperDoneInv
<1>19. CASE KeInitializeThread(t)
  BY <1>19, KeInitializeThreadInv
<1>20. CASE \E special \in BOOLEAN : KiInsertQueueApc(t, special)
  <2>1. PICK special \in BOOLEAN : KiInsertQueueApc(t, special)
    BY <1>20
  <2>2. CASE pc[t] = "wait" /\ args[t].irql0 /\ special
    BY <2>1, <2>2, KiInsertQueueApcWakesInv
  <2>3. CASE ~(pc[t] = "wait" /\ args[t].irql0 /\ special)
    BY <2>1, <2>3, KiInsertQueueApcQueuesInv
  <2> QED BY <2>2, <2>3
<1>21. CASE KiInsertQueueApcExit(t)
  BY <1>21, KiInsertQueueApcExitInv
<1> QED BY <1>1, <1>2, <1>3, <1>4, <1>5, <1>6, <1>7, <1>8, <1>9, <1>10, <1>11, <1>12, <1>13,
           <1>14, <1>15, <1>16, <1>17, <1>18, <1>19, <1>20, <1>21 DEF ThreadStep

(* Every step preserves the invariant.                                        *)
LEMMA NextInv == Inv /\ [Next]_vars => Inv'
<1> SUFFICES ASSUME Inv, [Next]_vars PROVE Inv'
  OBVIOUS
<1>1. CASE \E t \in Threads : ThreadStep(t)
  BY <1>1, ThreadStepInv
<1>2. CASE Insert
  BY <1>2, KeInsertQueueInv DEF Insert
<1>3. ASSUME NEW q \in Queues, QueueStep(q) PROVE Inv'
  <2>1. CASE KeRundownQueue(q)
    BY <2>1, KeRundownQueueInv
  <2>2. CASE \E max \in MaximumCounts : KeInitializeQueue(q, max)
    BY <2>2, KeInitializeQueueInv
  <2> QED BY <1>3, <2>1, <2>2 DEF QueueStep
<1>4. CASE UNCHANGED vars
  BY <1>4, StutterInv
<1> QED BY <1>1, <1>2, <1>3, <1>4 DEF Next

(* The invariant holds throughout every execution: whatever the threads do,   *)
(* the lists, the counts and the wait timers of the queues stay consistent.   *)
THEOREM Invariance == Spec => []Inv
<1>1. Init => Inv
  BY InitInv
<1>2. Inv /\ [Next]_vars => Inv'
  BY NextInv
<1> QED BY <1>1, <1>2, PTL DEF Spec

(* Every variable keeps its type: KeInitializeQueue, KeRemoveQueue and the    *)
(* rest never store a value outside the ranges the structures allow.          *)
THEOREM TypeCorrect == Spec => []TypeOK
<1>1. Inv => TypeOK
  BY DEF Inv
<1> QED BY <1>1, Invariance, PTL

(* CurrentCount of every queue is the number of its active threads, for any   *)
(* number of threads and queues, through waits, wakeups, timeouts, APCs,      *)
(* switches of queue, rundown and thread exit.                                *)
THEOREM CountCorrect == Spec => []CountExact
<1>1. Inv => CountExact
  BY DEF Inv
<1> QED BY <1>1, Invariance, PTL

(* Work never waits beside a waiting thread in a queue without an active      *)
(* thread, although KiInsertQueue may leave an entry queued on purpose.       *)
THEOREM NoWorkStranded == Spec => []NoStrandedWork
<1>1. Inv => NoStrandedWork
  <2>1. ASSUME NEW q \in Queues, Unlocked PROVE Settled(q)
    BY <2>1 DEF Unlocked, Settled
  <2> QED BY <2>1 DEF Inv, NotStranded, NoStrandedWork
<1> QED BY <1>1, Invariance, PTL

(* The timer of a wait in KeRemoveQueue never outlives the wait: every wakeup *)
(* cancels it (KiUnwaitThread, KiInsertQueue).                                *)
THEOREM TimerCancelled == Spec => []TimerOnlyInWait
<1>1. Inv => TimerOnlyInWait
  BY DEF Inv, Shape
<1> QED BY <1>1, Invariance, PTL
=============================================================================
