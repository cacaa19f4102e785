--------------------------- MODULE KeWaitProofs ----------------------------
(* Theorems about KeWait for any threads, objects, waits, APCs and alerts and *)
(* any width of a LONG: no wakeup is lost, a satisfied wait takes all that it *)
(* waited for, and mutants and the APCs they disable are accounted for.       *)
EXTENDS KeWait, ListProofs, FiniteSetTheorems

-----------------------------------------------------------------------------
(* The inductive invariant.                                                   *)

(* Who holds the dispatcher lock: one thread that is in its wait routine or   *)
(* about to be, or in its rundown; or a scan, with the thread on whose behalf *)
(* it is made.                                                                *)
Holding(t) == pc[t] \in {"loop", "next", "rundown"}
LockOK ==
  /\ \A t, u \in Threads : Holding(t) /\ Holding(u) => t = u
  /\ scan.obj # NoObject =>
       /\ \A t \in Threads : Holding(t) => scan.then = "rundown" /\ t = scan.by
       /\ scan.then = "rundown" => scan.by \in Threads /\ pc[scan.by] = "rundown"
       /\ scan.then # "rundown" => (scan.by \in Threads => pc[scan.by] = "run")
       /\ scan.then = "pulse" => scan.obj \in Events

(* Wait blocks are where they belong.                                         *)
Waiting(t) == pc[t] = "wait"
BlocksOK ==
  /\ \A t \in Threads : timer[t] => Waiting(t)
  /\ \A o \in Objects : Once(waitList[o])
  /\ \A o \in Objects, t \in Threads :
       t \in Items(waitList[o]) <=> (Waiting(t) /\ o \in Objs(t))

(* Mutants and their owners.                                                  *)
OwnersOK ==
  /\ MutantOwned
  /\ \A t \in Threads : Waiting(t) => \A o \in Objs(t) : ~AtLimit(t, o)
  /\ \A t \in Threads : pc[t] = "rundown" => \A o \in Mutexes : owner[o] # t

(* The status of a wait that is not over is not an object.                    *)
StatusOK == \A t \in Threads : pc[t] \in {"loop", "retry", "wait"} =>
              result[t].key \notin Objects

(* The wait blocks of a list that a scan has not yet reached.                 *)
Rest(list, k) == {list[i] : i \in k..Len(list)}

(* No wait is over, but those that the scan in progress is still to find: it  *)
(* is going to look at every wait that the scanned object can satisfy.        *)
Unreached(t) == scan.obj \in Objs(t) /\ t \in Rest(waitList[scan.obj], scan.pos)
NotOver(t) ==
  IF call[t].type = "WaitAll"
  THEN (\E p \in Objs(t) : p # scan.obj /\ ~Satisfiable(t, p)) \/ Unreached(t)
  ELSE /\ \A p \in Objs(t) : p # scan.obj => ~Satisfiable(t, p)
       /\ scan.obj \in Objs(t) => Unreached(t)
NoneOver == \A t \in Threads : Waiting(t) => NotOver(t)
ScanOwner == scan.obj \in Mutants =>
  \A t \in Threads : Waiting(t) /\ scan.obj \in Objs(t) => owner[scan.obj] # t

Inv == /\ TypeOK /\ LockOK /\ BlocksOK /\ OwnersOK /\ StatusOK /\ NoneOver /\ ScanOwner
       /\ ApcDisableExact /\ ApcNotLost /\ AlertNotLost

-----------------------------------------------------------------------------
(* Lists of wait blocks.                                                      *)

(* RemoveEntryList takes a thread's wait block out, and no other.             *)
LEMMA RemoveEntryItems ==
  ASSUME NEW T, NEW s \in Seq(T), Once(s), NEW t
  PROVE  /\ RemoveEntryList(s, t) \in Seq(T) /\ Once(RemoveEntryList(s, t))
         /\ Items(RemoveEntryList(s, t)) = Items(s) \ {t}
<1>1. CASE \E i \in 1..Len(s) : s[i] = t
  <2>1. PICK k : k = CHOOSE i \in 1..Len(s) : s[i] = t
    OBVIOUS
  <2>2. k \in 1..Len(s) /\ s[k] = t
    BY <1>1, <2>1
  <2>3. RemoveEntryList(s, t) = RemoveAt(s, k)
    BY <1>1, <2>1 DEF RemoveEntryList
  <2> QED BY <2>2, <2>3, RemoveAtItems
<1>2. CASE ~\E i \in 1..Len(s) : s[i] = t
  <2>1. RemoveEntryList(s, t) = s
    BY <1>2 DEF RemoveEntryList
  <2>2. t \notin Items(s)
    BY <1>2 DEF Items
  <2> QED BY <2>1, <2>2
<1> QED BY <1>1, <1>2

(* A scan that takes out the wait block at its position is at the next one.   *)
LEMMA RemoveEntryRest ==
  ASSUME NEW T, NEW s \in Seq(T), Once(s), NEW k \in 1..Len(s), NEW x \in Rest(s, k), x # s[k]
  PROVE  x \in Rest(RemoveEntryList(s, s[k]), k)
<1>1. /\ Len(s) \in Nat /\ k \in Int /\ 1 <= k /\ k <= Len(s)
  BY LenProperties
<1>2. PICK j : j = CHOOSE i \in 1..Len(s) : s[i] = s[k]
  OBVIOUS
<1>3. j \in 1..Len(s) /\ s[j] = s[k]
  BY <1>2
<1>4. j = k
  BY <1>3 DEF Once
<1>5. RemoveEntryList(s, s[k]) = RemoveAt(s, k)
  BY <1>2, <1>4 DEF RemoveEntryList
<1>6. PICK i \in k..Len(s) : x = s[i]
  BY DEF Rest
<1>7. i \in Int /\ k < i /\ i <= Len(s)
  BY <1>1, <1>6
<1>8. i - 1 \in 1..(Len(s) - 1) /\ i - 1 \in k..(Len(s) - 1) /\ ~(i - 1 < k) /\ (i - 1) + 1 = i
  BY <1>1, <1>7
<1>9. Len(RemoveAt(s, k)) = Len(s) - 1 /\ RemoveAt(s, k)[i - 1] = s[i]
  BY <1>8, RemoveAtSeq
<1> QED BY <1>5, <1>6, <1>8, <1>9 DEF Rest

(* A scan begins before the first wait block, passes one at a time and ends   *)
(* behind the last.                                                           *)
LEMMA RestFacts ==
  ASSUME NEW T, NEW s \in Seq(T)
  PROVE  /\ Rest(s, 1) = Items(s)
         /\ \A k \in Nat : k > Len(s) => Rest(s, k) = {}
         /\ \A k \in Nat : \A x \in Rest(s, k) : x # s[k] => x \in Rest(s, k + 1)
<1>1. Len(s) \in Nat
  BY LenProperties
<1>2. Rest(s, 1) = Items(s)
  BY DEF Rest, Items
<1>3. ASSUME NEW k \in Nat, k > Len(s)
      PROVE  Rest(s, k) = {}
  <2>1. k..Len(s) = {}
    BY <1>1, <1>3
  <2> QED BY <2>1 DEF Rest
<1>4. ASSUME NEW k \in Nat, NEW x \in Rest(s, k), x # s[k]
      PROVE  x \in Rest(s, k + 1)
  <2>1. PICK i \in k..Len(s) : x = s[i]
    BY <1>4 DEF Rest
  <2>2. i # k
    BY <1>4, <2>1
  <2>3. i \in (k + 1)..Len(s)
    BY <1>1, <2>2
  <2> QED BY <2>1, <2>3 DEF Rest
<1> QED BY <1>2, <1>3, <1>4

-----------------------------------------------------------------------------
(* Waits and objects.                                                         *)

(* What the arguments of a wait are.                                          *)
LEMMA CallFacts ==
  ASSUME NEW c \in Calls \cup {NoCall}
  PROVE  /\ c \in AllCalls /\ c.objs \in Seq(Objects) /\ c.type \in {"WaitAny", "WaitAll"}
         /\ c.mode \in Modes /\ c.alertable \in BOOLEAN /\ c.irql0 \in BOOLEAN
         /\ Len(c.objs) \in Nat
         /\ \A i \in 1..Len(c.objs) : c.objs[i] \in Objects
         /\ \A i, j \in 1..Len(c.objs) : c.objs[i] = c.objs[j] => i = j
         /\ c.objs = <<>> => c.type = "WaitAny"
<1>1. CASE c \in Calls
  <2>1. c \in AllCalls
    BY <1>1, CallsAssumption
  <2>2. /\ c.objs \in Seq(Objects) /\ c.type \in {"WaitAny", "WaitAll"}
        /\ c.mode \in Modes /\ c.alertable \in BOOLEAN /\ c.irql0 \in BOOLEAN
    BY <2>1 DEF AllCalls
  <2>3. Len(c.objs) \in Nat /\ \A i \in 1..Len(c.objs) : c.objs[i] \in Objects
    BY <2>2, LenProperties, ElementOfSeq
  <2> QED BY <1>1, <2>1, <2>2, <2>3, CallsAssumption
<1>2. CASE c = NoCall
  <2>1. /\ c.objs = <<>> /\ c.type = "WaitAny" /\ c.mode = "KernelMode"
        /\ c.alertable = FALSE /\ c.irql0 = FALSE /\ c \in AllCalls
    BY <1>2 DEF NoCall, AllCalls, Modes
  <2>2. Len(c.objs) = 0 /\ c.objs \in Seq(Objects) /\ 1..0 = {}
    BY <2>1
  <2> QED BY <2>1, <2>2 DEF Modes
<1> QED BY <1>1, <1>2

(* The same for the wait of a thread.                                         *)
LEMMA WaitFacts ==
  ASSUME TypeOK, NEW t \in Threads
  PROVE  /\ Objs(t) \subseteq Objects /\ call[t].type \in {"WaitAny", "WaitAll"}
         /\ call[t].objs \in Seq(Objects) /\ Len(call[t].objs) \in Nat
         /\ \A i, j \in 1..Len(call[t].objs) : call[t].objs[i] = call[t].objs[j] => i = j
         /\ Objs(t) = {} => call[t].type = "WaitAny"
<1>1. call[t] \in Calls \cup {NoCall}
  BY DEF TypeOK
<1>2. /\ Len(call[t].objs) \in Nat
      /\ \A i \in 1..Len(call[t].objs) : call[t].objs[i] \in Objects
      /\ call[t].objs = <<>> => call[t].type = "WaitAny"
  BY <1>1, CallFacts
<1>3. Objs(t) = {} => call[t].objs = <<>>
  <2>1. call[t].objs \in Seq(Objects)
    BY <1>1, CallFacts
  <2>2. Len(call[t].objs) # 0 => 1 \in 1..Len(call[t].objs)
    BY <1>2
  <2>3. Len(call[t].objs) # 0 => call[t].objs[1] \in Objs(t)
    BY <2>2 DEF Objs
  <2> QED BY <2>1, <2>3, EmptySeq
<1>4. Objs(t) \subseteq Objects
  BY <1>2 DEF Objs
<1> QED BY <1>1, <1>2, <1>3, <1>4, CallFacts

(* The kinds of objects.                                                      *)
LEMMA KindFacts ==
  ASSUME NEW o \in Objects
  PROVE  /\ Kind[o] \in Kinds
         /\ o \in Events <=> Kind[o] \in {"NotificationEvent", "SynchronizationEvent"}
         /\ o \in Semaphores <=> Kind[o] = "Semaphore"
         /\ o \in Mutants <=> Kind[o] = "Mutant"
         /\ o \in Mutexes => o \in Mutants
         /\ o # NoObject /\ o \notin Statuses
         /\ Limit[o] \in 1..MAXLONG
BY KindAssumption DEF Events, Semaphores, Mutants, Kinds

(* The numbers that fit into a LONG.                                          *)
LEMMA LongFacts ==
  /\ MINLONG \in Int /\ MAXLONG \in Int /\ MINLONG < -1 /\ MAXLONG >= 1
  /\ MAXLONG = -MINLONG - 1
  /\ Objects \cap Statuses = {} /\ NoObject \notin Objects /\ NoThread \notin Threads
BY KindAssumption DEF MAXLONG

-----------------------------------------------------------------------------
(* What keeps the parts of the invariant.                                     *)

(* The same threads wait, for the same; or some of them do.                   *)
LessWaits == \A u \in Threads : pc'[u] = "wait" => pc[u] = "wait" /\ call'[u] = call[u]
SameWaits == \A u \in Threads : /\ pc'[u] = "wait" <=> pc[u] = "wait"
                                /\ pc[u] = "wait" => call'[u] = call[u]

(* Wait blocks stay when the waits do.                                        *)
LEMMA KeepBlocks ==
  ASSUME BlocksOK, SameWaits, waitList' = waitList, timer' = timer
  PROVE  BlocksOK'
<1>1. \A u \in Threads : pc[u] = "wait" => Objs(u)' = Objs(u)
  BY DEF SameWaits, Objs
<1>2. \A u \in Threads : Waiting(u)' <=> Waiting(u)
  BY DEF SameWaits, Waiting
<1>3. ASSUME NEW o \in Objects, NEW u \in Threads
      PROVE  u \in Items(waitList'[o]) <=> (Waiting(u)' /\ o \in Objs(u)')
  <2>1. u \in Items(waitList[o]) <=> (Waiting(u) /\ o \in Objs(u))
    BY DEF BlocksOK
  <2> QED BY <1>1, <1>2, <2>1 DEF Waiting
<1>4. \A u \in Threads : timer'[u] => Waiting(u)'
  BY <1>2 DEF BlocksOK
<1> QED BY <1>3, <1>4 DEF BlocksOK

(* No wait becomes over when objects only become less satisfying.             *)
LEMMA KeepNone ==
  ASSUME TypeOK, NoneOver, ScanOwner, LessWaits, scan' = scan,
         scan.obj # NoObject => waitList' = waitList /\ owner' = owner,
         \A u \in Threads : Waiting(u)' => \A p \in Objs(u) :
           Satisfiable(u, p)' => Satisfiable(u, p)
  PROVE  NoneOver' /\ ScanOwner'
<1>1. ASSUME NEW u \in Threads, Waiting(u)'
      PROVE  /\ Waiting(u) /\ Objs(u)' = Objs(u) /\ call'[u] = call[u]
             /\ scan.obj \in Objs(u) => waitList' = waitList
             /\ NotOver(u)'
  <2>1. Waiting(u) /\ call'[u] = call[u]
    BY <1>1 DEF LessWaits, Waiting
  <2>2. Objs(u)' = Objs(u)
    BY <2>1 DEF Objs
  <2>3. scan.obj \in Objs(u) => waitList' = waitList
    BY WaitFacts, LongFacts
  <2>4. Unreached(u) => Unreached(u)'
    BY <2>2, <2>3 DEF Unreached
  <2>5. NotOver(u)
    BY <2>1 DEF NoneOver
  <2>6. \A p \in Objs(u) : Satisfiable(u, p)' => Satisfiable(u, p)
    BY <1>1
  <2>7. NotOver(u)'
    <3>1. CASE call[u].type = "WaitAll"
      BY <2>1, <2>2, <2>4, <2>5, <2>6, <3>1 DEF NotOver
    <3>2. CASE call[u].type # "WaitAll"
      BY <2>1, <2>2, <2>4, <2>5, <2>6, <3>2 DEF NotOver
    <3> QED BY <3>1, <3>2
  <2> QED BY <2>1, <2>2, <2>3, <2>7
<1>2. NoneOver'
  BY <1>1 DEF NoneOver
<1>3. ASSUME scan.obj \in Mutants, NEW u \in Threads, Waiting(u)', scan.obj \in Objs(u)'
      PROVE  owner'[scan.obj] # u
  <2>1. scan.obj # NoObject
    BY <1>3, LongFacts DEF Mutants
  <2> QED BY <1>1, <1>3, <2>1 DEF ScanOwner
<1>4. ScanOwner'
  BY <1>3 DEF ScanOwner
<1> QED BY <1>2, <1>4

(* Owners stay when the mutants do and no owner dies.                         *)
LEMMA KeepOwners ==
  ASSUME OwnersOK, LessWaits, \A o \in Mutants : signal'[o] = signal[o] /\ owner'[o] = owner[o],
         \A u \in Threads : pc'[u] = "dead" => pc[u] = "dead" \/ \A o \in Mutants : owner[o] # u,
         \A u \in Threads : pc'[u] = "rundown" =>
           pc[u] = "rundown" \/ \A o \in Mutexes : owner[o] # u
  PROVE  OwnersOK'
<1>1. MutantOwned'
  BY DEF OwnersOK, MutantOwned
<1>2. ASSUME NEW u \in Threads, Waiting(u)', NEW o \in Objs(u)'
      PROVE  ~AtLimit(u, o)'
  <2>1. Waiting(u) /\ call'[u] = call[u]
    BY <1>2 DEF LessWaits, Waiting
  <2>2. o \in Objs(u)
    BY <1>2, <2>1 DEF Objs
  <2>3. ~AtLimit(u, o)
    BY <2>1, <2>2 DEF OwnersOK
  <2> QED BY <2>3 DEF AtLimit
<1>3. \A u \in Threads : pc'[u] = "rundown" => \A o \in Mutexes : owner'[o] # u
  BY KindAssumption DEF OwnersOK
<1> QED BY <1>1, <1>2, <1>3 DEF OwnersOK

(* A step of a thread that is not waiting: from one location to another,      *)
(* perhaps with another call, status or set of APCs, but none of the objects. *)
LEMMA LocalStep ==
  ASSUME Inv, NEW t \in Threads, pc[t] # "wait", pc'[t] # "wait",
         UNCHANGED <<signal, waitList, owner, abandoned, timer, apcDisable, scan>>,
         \A u \in Threads \ {t} :
           /\ pc'[u] = pc[u] /\ call'[u] = call[u] /\ result'[u] = result[u]
           /\ pending'[u] = pending[u] /\ normalApc'[u] = normalApc[u]
           /\ alerted'[u] = alerted[u] /\ userApc'[u] = userApc[u]
           /\ userPending'[u] = userPending[u],
         pc'[t] = "dead" => pc[t] = "dead" \/ \A o \in Mutants : owner[o] # t,
         pc'[t] = "rundown" => pc[t] = "rundown" \/ \A o \in Mutexes : owner[o] # t,
         pc'[t] \in {"loop", "retry"} => result'[t].key \notin Objects,
         normalApc'[t] /\ apcDisable[t] = 0 /\ pc'[t] # "dead" => pending'[t],
         \/ pc'[t] = pc[t]
         \/ pc[t] = "ready" /\ pc'[t] \in {"run", "retry"}
         \/ scan.obj = NoObject /\ (Holding(t) \/ Unlocked)
  PROVE  /\ LockOK' /\ BlocksOK' /\ OwnersOK' /\ StatusOK' /\ NoneOver' /\ ScanOwner'
         /\ ApcDisableExact' /\ ApcNotLost' /\ AlertNotLost'
<1>1. SameWaits /\ LessWaits
  BY DEF SameWaits, LessWaits
<1>2. BlocksOK'
  BY <1>1, KeepBlocks DEF Inv
<1>3. OwnersOK'
  BY <1>1, KeepOwners DEF Inv
<1>4. NoneOver' /\ ScanOwner'
  BY <1>1, KeepNone DEF Inv, Satisfiable
<1>5. StatusOK'
  <2>1. ASSUME NEW u \in Threads, pc'[u] \in {"loop", "retry", "wait"}
        PROVE  result'[u].key \notin Objects
    BY <2>1 DEF Inv, StatusOK
  <2> QED BY <2>1 DEF StatusOK
<1>6. ApcDisableExact'
  BY DEF Inv, ApcDisableExact
<1>7. ApcNotLost'
  <2>1. ASSUME NEW u \in Threads
        PROVE  /\ normalApc'[u] /\ apcDisable'[u] = 0 /\ pc'[u] # "dead" => pending'[u]
               /\ pc'[u] = "wait" /\ call'[u].irql0 /\ pending'[u] => apcDisable'[u] # 0
    BY DEF Inv, ApcNotLost
  <2> QED BY <2>1 DEF ApcNotLost
<1>8. AlertNotLost'
  <2>1. ASSUME NEW u \in Threads, pc'[u] = "wait"
        PROVE  ~AlertReady(u)' /\ ~UserApcReady(u)'
    <3>1. u # t
      BY <2>1
    <3>2. ~AlertReady(u) /\ ~UserApcReady(u)
      BY <2>1, <3>1 DEF Inv, AlertNotLost
    <3> QED BY <3>1, <3>2 DEF AlertReady, UserApcReady
  <2> QED BY <2>1 DEF AlertNotLost
<1>9. LockOK'
  <2>1. LockOK
    BY DEF Inv
  <2>2. CASE pc'[t] = pc[t]
    <3>1. \A u \in Threads : pc'[u] = pc[u]
      BY <2>2
    <3> QED BY <2>1, <3>1 DEF LockOK, Holding
  <2>3. CASE pc[t] = "ready" /\ pc'[t] \in {"run", "retry"}
    BY <2>1, <2>3 DEF LockOK, Holding
  <2>4. CASE scan.obj = NoObject /\ (Holding(t) \/ Unlocked)
    <3>1. \A u \in Threads : Holding(u) => u = t
      BY <2>1, <2>4 DEF LockOK, Holding, Unlocked
    <3>2. \A u \in Threads : Holding(u)' => u = t
      BY <3>1 DEF Holding
    <3> QED BY <2>4, <3>2 DEF LockOK
  <2> QED BY <2>2, <2>3, <2>4
<1> QED BY <1>2, <1>3, <1>4, <1>5, <1>6, <1>7, <1>8, <1>9

(* A step that satisfies no wait with objects takes nothing.                  *)
LEMMA QuietStep ==
  ASSUME \A u \in Threads : result'[u] # result[u] => result'[u].key \notin Objects,
         \A o \in Objects : /\ Kind[o] = "Semaphore" => ~(signal'[o] < signal[o])
                            /\ Kind[o] = "Mutant" => owner'[o] \in {owner[o], NoThread}
  PROVE  TakesAll /\ TakesNothingElse /\ ReportsAbandoned
BY DEF TakesAll, TakesNothingElse, ReportsAbandoned, Completes

(* What becomes of the locations when a signal is made.                       *)
LEMMA KeepLockFacts ==
  ASSUME TypeOK, NEW c \in Threads \cup {NoThread}, c \in Threads => pc[c] = "run"
  PROVE  /\ KeepLock(c) \in [Threads -> {"run", "next", "loop", "retry", "wait", "ready",
                                         "rundown", "dead"}]
         /\ \A u \in Threads : KeepLock(c)[u] = IF u = c THEN "next" ELSE pc[u]
         /\ c = NoThread => KeepLock(c) = pc
BY LongFacts DEF KeepLock, TypeOK

(* KiUnwaitThread takes every wait block of the thread out of its list.       *)
LEMMA UnwaitBlocks ==
  ASSUME TypeOK, BlocksOK, NEW t \in Threads, call' = call, pc'[t] # "wait",
         \A u \in Threads \ {t} : pc'[u] = "wait" <=> pc[u] = "wait",
         waitList' = [o \in Objects |-> RemoveEntryList(waitList[o], t)],
         timer' = [timer EXCEPT ![t] = FALSE]
  PROVE  /\ BlocksOK' /\ LessWaits
         /\ waitList' \in [Objects -> Seq(Threads)] /\ timer' \in [Threads -> BOOLEAN]
<1>1. /\ timer' \in [Threads -> BOOLEAN]
      /\ \A u \in Threads : timer'[u] => timer[u] /\ u # t
  BY DEF TypeOK
<1>2. \A o \in Objects : /\ waitList'[o] \in Seq(Threads) /\ Once(waitList'[o])
                         /\ Items(waitList'[o]) = Items(waitList[o]) \ {t}
  BY RemoveEntryItems DEF TypeOK, BlocksOK
<1>3. waitList' \in [Objects -> Seq(Threads)]
  BY <1>2
<1>4. LessWaits /\ \A u \in Threads : Waiting(u)' <=> (Waiting(u) /\ u # t)
  BY DEF LessWaits, Waiting
<1>5. \A u \in Threads : Objs(u)' = Objs(u)
  BY DEF Objs
<1>6. ASSUME NEW o \in Objects, NEW u \in Threads
      PROVE  u \in Items(waitList'[o]) <=> (Waiting(u)' /\ o \in Objs(u)')
  BY <1>2, <1>4, <1>5 DEF BlocksOK
<1>7. \A u \in Threads : timer'[u] => Waiting(u)'
  BY <1>1, <1>4 DEF BlocksOK
<1>8. BlocksOK'
  BY <1>2, <1>6, <1>7 DEF BlocksOK
<1> QED BY <1>1, <1>3, <1>4, <1>8

(* KiUnwaitThread, called with the lock held and no scan going on, by a       *)
(* signal (key an object) or by a timer, an alert or an APC.                  *)
LEMMA UnwaitStep ==
  ASSUME Inv, Unlocked, NEW t \in Threads, Waiting(t), NEW key \in Objects \cup Statuses,
         NEW c \in Threads \cup {NoThread}, c \in Threads => pc[c] = "run",
         KiUnwaitThread(KeepLock(c), t, key, FALSE),
         UNCHANGED <<signal, owner, abandoned, call, apcDisable, scan>>,
         \A u \in Threads \ {t} :
           /\ pending'[u] = pending[u] /\ normalApc'[u] = normalApc[u]
           /\ alerted'[u] = alerted[u] /\ userApc'[u] = userApc[u]
           /\ userPending'[u] = userPending[u],
         normalApc'[t] /\ apcDisable[t] = 0 => pending'[t]
  PROVE  /\ LockOK' /\ BlocksOK' /\ OwnersOK' /\ StatusOK' /\ NoneOver' /\ ScanOwner'
         /\ ApcDisableExact' /\ ApcNotLost' /\ AlertNotLost'
         /\ waitList' \in [Objects -> Seq(Threads)] /\ timer' \in [Threads -> BOOLEAN]
         /\ pc' \in [Threads -> {"run", "next", "loop", "retry", "wait", "ready",
                                 "rundown", "dead"}]
         /\ result' \in [Threads -> [key: Objects \cup Statuses, abandoned: BOOLEAN]]
         /\ \A u \in Threads : result'[u] = IF u = t THEN Status(key, FALSE) ELSE result[u]
<1>1. /\ TypeOK /\ BlocksOK /\ scan.obj = NoObject
      /\ \A u \in Threads : ~Holding(u)
  BY DEF Inv, Unlocked, Holding
<1>2. /\ waitList' = [o \in Objects |-> RemoveEntryList(waitList[o], t)]
      /\ timer' = [timer EXCEPT ![t] = FALSE]
      /\ pc' = [KeepLock(c) EXCEPT ![t] = "ready"]
      /\ result' = [result EXCEPT ![t] = Status(key, FALSE)]
  BY DEF KiUnwaitThread
<1>3. /\ pc' \in [Threads -> {"run", "next", "loop", "retry", "wait", "ready",
                              "rundown", "dead"}]
      /\ \A u \in Threads : pc'[u] = IF u = t THEN "ready" ELSE IF u = c THEN "next" ELSE pc[u]
  BY <1>1, <1>2, KeepLockFacts
<1>4. /\ result' \in [Threads -> [key: Objects \cup Statuses, abandoned: BOOLEAN]]
      /\ \A u \in Threads : result'[u] = IF u = t THEN Status(key, FALSE) ELSE result[u]
  BY <1>1, <1>2 DEF TypeOK, Status
<1>5. /\ BlocksOK' /\ LessWaits
      /\ waitList' \in [Objects -> Seq(Threads)] /\ timer' \in [Threads -> BOOLEAN]
  BY <1>1, <1>2, <1>3, UnwaitBlocks
<1>6. OwnersOK'
  BY <1>3, <1>5, KeepOwners DEF Inv
<1>7. NoneOver' /\ ScanOwner'
  BY <1>1, <1>5, KeepNone DEF Inv, Satisfiable
<1>8. StatusOK'
  <2>1. ASSUME NEW u \in Threads, pc'[u] \in {"loop", "retry", "wait"}
        PROVE  result'[u].key \notin Objects
    <3>1. u # t /\ u # c /\ pc[u] = pc'[u] /\ result'[u] = result[u]
      BY <1>3, <1>4, <2>1
    <3> QED BY <2>1, <3>1 DEF Inv, StatusOK
  <2> QED BY <2>1 DEF StatusOK
<1>9. ApcDisableExact'
  BY DEF Inv, ApcDisableExact
<1>10. ApcNotLost'
  <2>1. ASSUME NEW u \in Threads
        PROVE  /\ normalApc'[u] /\ apcDisable'[u] = 0 /\ pc'[u] # "dead" => pending'[u]
               /\ pc'[u] = "wait" /\ call'[u].irql0 /\ pending'[u] => apcDisable'[u] # 0
    <3>1. CASE u = t
      BY <1>3, <3>1
    <3>2. CASE u # t
      <4>1. pc'[u] = "wait" => pc[u] = "wait"
        BY <1>3, <3>2
      <4>2. pc[u] = "dead" => pc'[u] = "dead"
        BY <1>3, <3>2
      <4> QED BY <3>2, <4>1, <4>2 DEF Inv, ApcNotLost
    <3> QED BY <3>1, <3>2
  <2> QED BY <2>1 DEF ApcNotLost
<1>11. AlertNotLost'
  <2>1. ASSUME NEW u \in Threads, pc'[u] = "wait"
        PROVE  ~AlertReady(u)' /\ ~UserApcReady(u)'
    <3>1. u # t /\ pc[u] = "wait"
      BY <1>3, <2>1
    <3>2. ~AlertReady(u) /\ ~UserApcReady(u)
      BY <3>1 DEF Inv, AlertNotLost
    <3> QED BY <3>1, <3>2 DEF AlertReady, UserApcReady
  <2> QED BY <2>1 DEF AlertNotLost
<1>12. LockOK'
  <2>1. \A u \in Threads : Holding(u)' => u = c
    BY <1>1, <1>3 DEF Holding
  <2> QED BY <1>1, <2>1 DEF LockOK
<1> QED BY <1>3, <1>4, <1>5, <1>6, <1>7, <1>8, <1>9, <1>10, <1>11, <1>12

(* A change of one object's state that wakes no thread by itself.  Either no  *)
(* waiting thread can gain from it, or a scan of the object's list begins.    *)
LEMMA ChangeStep ==
  ASSUME Inv, NEW o \in Objects, scan.obj = NoObject, NEW c \in Threads \cup {NoThread},
         UNCHANGED <<waitList, call, timer>>,
         \A p \in Objects \ {o} : signal'[p] = signal[p] /\ owner'[p] = owner[p],
         owner'[o] \in {owner[o], NoThread},
         \/ /\ scan' = scan /\ SameWaits
            /\ signal'[o] > 0 => signal[o] > 0 \/ waitList[o] = <<>>
         \/ /\ scan'.obj = o /\ scan'.pos = 1 /\ pc' = pc
            /\ o \in Mutants => owner'[o] = NoThread
  PROVE  BlocksOK' /\ NoneOver' /\ ScanOwner'
<1>1. TypeOK /\ BlocksOK /\ NoneOver /\ ScanOwner
  BY DEF Inv
<1>2. SameWaits /\ LessWaits
  BY DEF SameWaits, LessWaits
<1>3. BlocksOK'
  BY <1>1, <1>2, KeepBlocks
<1>4. \A u \in Threads : /\ Waiting(u)' <=> Waiting(u)
                         /\ Objs(u)' = Objs(u) /\ Objs(u) \subseteq Objects
  BY <1>1, <1>2, WaitFacts DEF Waiting, SameWaits, Objs
<1>5. NoThread \notin Threads /\ NoObject \notin Objects
  BY LongFacts
<1>6. CASE scan' = scan /\ (signal'[o] > 0 => signal[o] > 0 \/ waitList[o] = <<>>)
  <2>1. ASSUME NEW u \in Threads, Waiting(u)', NEW p \in Objs(u), Satisfiable(u, p)'
        PROVE  Satisfiable(u, p)
    <3>1. CASE p # o
      BY <1>4, <2>1, <3>1 DEF Satisfiable
    <3>2. CASE p = o
      <4>1. u \in Items(waitList[o])
        BY <1>1, <1>4, <2>1, <3>2 DEF BlocksOK
      <4>2. waitList[o] # <<>>
        BY <4>1 DEF Items
      <4> QED BY <1>5, <1>6, <2>1, <3>2, <4>2 DEF Satisfiable
    <3> QED BY <3>1, <3>2
  <2> QED BY <1>1, <1>2, <1>3, <1>6, <2>1, KeepNone
<1>7. CASE scan'.obj = o /\ scan'.pos = 1 /\ (o \in Mutants => owner'[o] = NoThread)
  <2>1. ASSUME NEW u \in Threads, Waiting(u)'
        PROVE  NotOver(u)'
    <3>1. NotOver(u) /\ Waiting(u)
      BY <1>1, <1>4, <2>1 DEF NoneOver
    <3>2. \A p \in Objs(u) : p # o => (Satisfiable(u, p)' <=> Satisfiable(u, p))
      BY <1>4 DEF Satisfiable
    <3>3. o \in Objs(u) => Unreached(u)'
      <4>1. SUFFICES ASSUME o \in Objs(u)
                     PROVE  o \in Objs(u)' /\ u \in Rest(waitList[o], 1)
        BY <1>7 DEF Unreached
      <4>2. u \in Items(waitList[o])
        BY <1>1, <3>1, <4>1 DEF BlocksOK
      <4> QED BY <1>1, <1>4, <4>1, <4>2, RestFacts DEF TypeOK
    <3>4. scan.obj \notin Objs(u) /\ ~Unreached(u)
      BY <1>4, <1>5 DEF Unreached
    <3>5. CASE call[u].type = "WaitAll"
      BY <1>4, <1>7, <3>1, <3>2, <3>3, <3>4, <3>5 DEF NotOver
    <3>6. CASE call[u].type # "WaitAll"
      BY <1>4, <1>7, <3>1, <3>2, <3>3, <3>4, <3>6 DEF NotOver
    <3> QED BY <3>5, <3>6
  <2>2. NoneOver'
    BY <2>1 DEF NoneOver
  <2>3. ScanOwner'
    BY <1>5, <1>7 DEF ScanOwner
  <2> QED BY <1>3, <2>2, <2>3
<1> QED BY <1>6, <1>7

-----------------------------------------------------------------------------
(* Steps of one thread that wake no other and touch no object.                *)

(* What every step does: it keeps the invariant, and has the two properties   *)
(* of steps.                                                                  *)
StepOK == Inv' /\ TakesAll /\ TakesNothingElse /\ ReportsAbandoned

(* LocalStep, when no status becomes an object.                               *)
LEMMA LocalStepOK ==
  ASSUME Inv, TypeOK', NEW t \in Threads, pc[t] # "wait", pc'[t] # "wait",
         UNCHANGED <<signal, waitList, owner, abandoned, timer, apcDisable, scan>>,
         \A u \in Threads \ {t} :
           /\ pc'[u] = pc[u] /\ call'[u] = call[u] /\ result'[u] = result[u]
           /\ pending'[u] = pending[u] /\ normalApc'[u] = normalApc[u]
           /\ alerted'[u] = alerted[u] /\ userApc'[u] = userApc[u]
           /\ userPending'[u] = userPending[u],
         pc'[t] = "dead" => pc[t] = "dead" \/ \A o \in Mutants : owner[o] # t,
         pc'[t] = "rundown" => pc[t] = "rundown" \/ \A o \in Mutexes : owner[o] # t,
         pc'[t] \in {"loop", "retry"} => result'[t].key \notin Objects,
         normalApc'[t] /\ apcDisable[t] = 0 /\ pc'[t] # "dead" => pending'[t],
         \/ pc'[t] = pc[t]
         \/ pc[t] = "ready" /\ pc'[t] \in {"run", "retry"}
         \/ scan.obj = NoObject /\ (Holding(t) \/ Unlocked),
         result'[t] # result[t] => result'[t].key \notin Objects
  PROVE  StepOK
<1>1. \A o \in Objects : ~(signal[o] < signal[o])
  BY DEF Inv, TypeOK
<1>2. TakesAll /\ TakesNothingElse /\ ReportsAbandoned
  <2>1. \A u \in Threads : result'[u] # result[u] => result'[u].key \notin Objects
    OBVIOUS
  <2> QED BY <1>1, <2>1, QuietStep
<1>3. /\ LockOK' /\ BlocksOK' /\ OwnersOK' /\ StatusOK' /\ NoneOver' /\ ScanOwner'
      /\ ApcDisableExact' /\ ApcNotLost' /\ AlertNotLost'
  BY LocalStep
<1> QED BY <1>2, <1>3 DEF StepOK, Inv

(* A thread in the loop has the lock, and nothing is being scanned.           *)
LEMMA LoopFacts ==
  ASSUME LockOK, NEW t \in Threads, pc[t] \in {"loop", "next"}
  PROVE  scan.obj = NoObject /\ Holding(t)
BY DEF LockOK, Holding

(* No status is an object.                                                    *)
LEMMA StatusFacts ==
  ASSUME NEW k \in Statuses, NEW ab \in BOOLEAN
  PROVE  /\ Status(k, ab).key \notin Objects
         /\ Status(k, ab) \in [key: Objects \cup Statuses, abandoned: BOOLEAN]
BY LongFacts DEF Status

(* KeRundownThread keeps the invariant.                                       *)
LEMMA RundownOK ==
  ASSUME Inv, NEW t \in Threads, KeRundownThread(t)
  PROVE  StepOK
<1>1. /\ pc[t] = "run" /\ Unlocked /\ \A o \in Mutexes : owner[o] # t
      /\ pc' = [pc EXCEPT ![t] = "rundown"]
      /\ UNCHANGED <<signal, waitList, owner, abandoned, call, result, timer, apcDisable,
                     alerted, pending, normalApc, userApc, userPending, scan>>
  BY DEF KeRundownThread, Signaller, objectVars, apcVars
<1>2. TypeOK'
  BY <1>1 DEF Inv, TypeOK
<1>3. pc'[t] = "rundown" /\ \A u \in Threads \ {t} : pc'[u] = pc[u]
  BY <1>1 DEF Inv, TypeOK
<1>4. normalApc[t] /\ apcDisable[t] = 0 => pending[t]
  BY <1>1 DEF Inv, ApcNotLost
<1> QED BY <1>1, <1>2, <1>3, <1>4, LocalStepOK DEF Unlocked

(* KeRundownThreadEnd keeps the invariant.                                    *)
LEMMA RundownEndOK ==
  ASSUME Inv, NEW t \in Threads, KeRundownThreadEnd(t)
  PROVE  StepOK
<1>1. /\ pc[t] = "rundown" /\ scan.obj = NoObject /\ \A o \in Mutants : owner[o] # t
      /\ pc' = [pc EXCEPT ![t] = "dead"]
      /\ UNCHANGED <<signal, waitList, owner, abandoned, call, result, timer, apcDisable,
                     alerted, pending, normalApc, userApc, userPending, scan>>
  BY DEF KeRundownThreadEnd, objectVars, apcVars
<1>2. TypeOK'
  BY <1>1 DEF Inv, TypeOK
<1>3. pc'[t] = "dead" /\ \A u \in Threads \ {t} : pc'[u] = pc[u]
  BY <1>1 DEF Inv, TypeOK
<1> QED BY <1>1, <1>2, <1>3, LocalStepOK DEF Holding

(* Entering a wait keeps the invariant.                                       *)
LEMMA EnterOK ==
  ASSUME Inv, NEW t \in Threads, NEW c \in Calls, KeWait(t, c)
  PROVE  StepOK
<1>1. /\ pc[t] = "next" \/ (pc[t] = "run" /\ Unlocked)
      /\ call' = [call EXCEPT ![t] = c]
      /\ pc' = [pc EXCEPT ![t] = "loop"]
      /\ result' = [result EXCEPT ![t] = NoStatus]
      /\ UNCHANGED <<signal, waitList, owner, abandoned, timer, apcDisable,
                     alerted, pending, normalApc, userApc, userPending, scan>>
  BY DEF KeWait, objectVars, apcVars
<1>2. /\ NoStatus.key \notin Objects
      /\ NoStatus \in [key: Objects \cup Statuses, abandoned: BOOLEAN]
  BY StatusFacts DEF NoStatus, Statuses
<1>3. TypeOK'
  BY <1>1, <1>2 DEF Inv, TypeOK
<1>4. /\ pc'[t] = "loop" /\ result'[t] = NoStatus
      /\ \A u \in Threads \ {t} : pc'[u] = pc[u] /\ call'[u] = call[u] /\ result'[u] = result[u]
  BY <1>1 DEF Inv, TypeOK
<1>5. scan.obj = NoObject /\ (Holding(t) \/ Unlocked)
  BY <1>1, LoopFacts DEF Inv, Unlocked
<1>6. normalApc[t] /\ apcDisable[t] = 0 => pending[t]
  BY <1>1 DEF Inv, ApcNotLost
<1> QED BY <1>1, <1>2, <1>3, <1>4, <1>5, <1>6, LocalStepOK

(* Kernel APCs that may be delivered are.                                     *)
LEMMA DeliverFacts ==
  ASSUME TypeOK, NEW t \in Threads, DeliverKernel(t)
  PROVE  /\ pending' \in [Threads -> BOOLEAN] /\ normalApc' \in [Threads -> BOOLEAN]
         /\ ~(normalApc'[t] /\ apcDisable[t] = 0)
         /\ \A u \in Threads \ {t} : pending'[u] = pending[u] /\ normalApc'[u] = normalApc[u]
<1>1. /\ pending \in [Threads -> BOOLEAN] /\ normalApc \in [Threads -> BOOLEAN]
      /\ pending' = [pending EXCEPT ![t] = FALSE]
      /\ normalApc' = [normalApc EXCEPT ![t] = normalApc[t] /\ apcDisable[t] # 0]
  BY DEF TypeOK, DeliverKernel
<1> QED BY <1>1

(* Going round the loop for an APC keeps the invariant.                       *)
LEMMA WaitApcOK ==
  ASSUME Inv, NEW t \in Threads, KeWaitApc(t)
  PROVE  StepOK
<1>1. /\ pc[t] = "loop" /\ DeliverKernel(t)
      /\ pc' = [pc EXCEPT ![t] = "retry"]
      /\ UNCHANGED <<signal, waitList, owner, abandoned, call, result, timer, apcDisable,
                     alerted, userApc, userPending, scan>>
  BY DEF KeWaitApc, objectVars
<1>2. /\ pending' \in [Threads -> BOOLEAN] /\ normalApc' \in [Threads -> BOOLEAN]
      /\ ~(normalApc'[t] /\ apcDisable[t] = 0)
      /\ \A u \in Threads \ {t} : pending'[u] = pending[u] /\ normalApc'[u] = normalApc[u]
  BY <1>1, DeliverFacts DEF Inv
<1>3. TypeOK'
  BY <1>1, <1>2 DEF Inv, TypeOK
<1>4. /\ pc'[t] = "retry" /\ \A u \in Threads \ {t} : pc'[u] = pc[u]
  BY <1>1 DEF Inv, TypeOK
<1>5. scan.obj = NoObject /\ Holding(t)
  BY <1>1, LoopFacts DEF Inv
<1>6. result[t].key \notin Objects
  BY <1>1 DEF Inv, StatusOK
<1> QED BY <1>1, <1>2, <1>3, <1>4, <1>5, <1>6, LocalStepOK

(* Returning from the loop with a status that is no object keeps the          *)
(* invariant.                                                                 *)
LEMMA ReturnOK ==
  ASSUME Inv, NEW t \in Threads, pc[t] = "loop", NEW k \in Statuses,
         Return(t, Status(k, FALSE)),
         UNCHANGED <<signal, waitList, owner, abandoned, timer, apcDisable, pending,
                     normalApc, userApc, scan>>,
         alerted' \in [Threads -> SUBSET Modes], userPending' \in [Threads -> BOOLEAN],
         \A u \in Threads \ {t} : alerted'[u] = alerted[u] /\ userPending'[u] = userPending[u]
  PROVE  StepOK
<1>1. /\ pc' = [pc EXCEPT ![t] = "run"]
      /\ call' = [call EXCEPT ![t] = NoCall]
      /\ result' = [result EXCEPT ![t] = Status(k, FALSE)]
  BY DEF Return
<1>2. /\ Status(k, FALSE).key \notin Objects
      /\ Status(k, FALSE) \in [key: Objects \cup Statuses, abandoned: BOOLEAN]
  BY StatusFacts
<1>3. TypeOK'
  BY <1>1, <1>2 DEF Inv, TypeOK
<1>4. /\ pc'[t] = "run" /\ result'[t] = Status(k, FALSE)
      /\ \A u \in Threads \ {t} : pc'[u] = pc[u] /\ call'[u] = call[u] /\ result'[u] = result[u]
  BY <1>1 DEF Inv, TypeOK
<1>5. scan.obj = NoObject /\ Holding(t)
  BY LoopFacts DEF Inv
<1>6. normalApc[t] /\ apcDisable[t] = 0 => pending[t]
  BY DEF Inv, ApcNotLost
<1> QED BY <1>2, <1>3, <1>4, <1>5, <1>6, LocalStepOK

(* The ways to return without an object keep the invariant.                   *)
LEMMA WaitReturnOK ==
  ASSUME Inv, NEW t \in Threads,
         KeWaitRaise(t) \/ KeWaitAlerted(t) \/ KeWaitTimeout(t)
  PROVE  StepOK
<1>1. TypeOK
  BY DEF Inv
<1>2. CASE KeWaitRaise(t)
  <2>1. "LIMIT" \in Statuses
    BY DEF Statuses
  <2> QED BY <1>1, <1>2, <2>1, ReturnOK DEF KeWaitRaise, objectVars, apcVars, TypeOK
<1>3. CASE KeWaitTimeout(t)
  <2>1. "TIMEOUT" \in Statuses
    BY DEF Statuses
  <2> QED BY <1>1, <1>3, <2>1, ReturnOK DEF KeWaitTimeout, NotReady, objectVars, apcVars, TypeOK
<1>4. CASE KeWaitAlerted(t)
  <2>1. "ALERTED" \in Statuses /\ "USER_APC" \in Statuses
    BY DEF Statuses
  <2>2. /\ pc[t] = "loop"
        /\ UNCHANGED <<signal, waitList, owner, abandoned, timer, apcDisable, pending,
                       normalApc, userApc, scan>>
    BY <1>4 DEF KeWaitAlerted, NotReady, objectVars
  <2>3. \/ /\ \E m : alerted' = [alerted EXCEPT ![t] = alerted[t] \ {m}]
           /\ Return(t, Status("ALERTED", FALSE))
           /\ UNCHANGED userPending
        \/ /\ userPending' = [userPending EXCEPT ![t] = TRUE]
           /\ Return(t, Status("USER_APC", FALSE))
           /\ UNCHANGED alerted
    BY <1>4 DEF KeWaitAlerted
  <2>4. CASE /\ \E m : alerted' = [alerted EXCEPT ![t] = alerted[t] \ {m}]
             /\ Return(t, Status("ALERTED", FALSE))
             /\ UNCHANGED userPending
    <3>1. /\ alerted' \in [Threads -> SUBSET Modes] /\ userPending' \in [Threads -> BOOLEAN]
          /\ \A u \in Threads \ {t} : alerted'[u] = alerted[u] /\ userPending'[u] = userPending[u]
      BY <1>1, <2>4 DEF TypeOK
    <3> QED BY <2>1, <2>2, <2>4, <3>1, ReturnOK
  <2>5. CASE /\ userPending' = [userPending EXCEPT ![t] = TRUE]
             /\ Return(t, Status("USER_APC", FALSE))
             /\ UNCHANGED alerted
    <3>1. /\ alerted' \in [Threads -> SUBSET Modes] /\ userPending' \in [Threads -> BOOLEAN]
          /\ \A u \in Threads \ {t} : alerted'[u] = alerted[u] /\ userPending'[u] = userPending[u]
      BY <1>1, <2>5 DEF TypeOK
    <3> QED BY <2>1, <2>2, <2>5, <3>1, ReturnOK
  <2> QED BY <2>3, <2>4, <2>5
<1> QED BY <1>2, <1>3, <1>4

(* Coming back from KiSwapThread keeps the invariant.                         *)
LEMMA ResumeOK ==
  ASSUME Inv, NEW t \in Threads, KeWaitResume(t)
  PROVE  StepOK
<1>1. /\ pc[t] = "ready" /\ TypeOK
      /\ UNCHANGED <<signal, waitList, owner, abandoned, timer, alerted, apcDisable,
                     userApc, userPending, scan>>
  BY DEF KeWaitResume, objectVars, Inv
<1>2. /\ pending' \in [Threads -> BOOLEAN] /\ normalApc' \in [Threads -> BOOLEAN]
      /\ normalApc'[t] /\ apcDisable[t] = 0 => pending'[t]
      /\ \A u \in Threads \ {t} : pending'[u] = pending[u] /\ normalApc'[u] = normalApc[u]
  <2>1. CASE DeliverKernel(t)
    BY <1>1, <2>1, DeliverFacts
  <2>2. CASE UNCHANGED <<pending, normalApc>>
    <3>1. normalApc[t] /\ apcDisable[t] = 0 => pending[t]
      BY <1>1 DEF Inv, ApcNotLost
    <3> QED BY <1>1, <2>2, <3>1 DEF TypeOK
  <2> QED BY <2>1, <2>2 DEF KeWaitResume
<1>3. CASE result[t].key = "KERNEL_APC"
  <2>1. pc' = [pc EXCEPT ![t] = "retry"] /\ UNCHANGED <<call, result>>
    BY <1>3 DEF KeWaitResume
  <2>2. pc'[t] = "retry" /\ \A u \in Threads \ {t} : pc'[u] = pc[u]
    BY <1>1, <2>1 DEF TypeOK
  <2>3. TypeOK'
    BY <1>1, <1>2, <2>1 DEF TypeOK
  <2>4. result'[t].key \notin Objects
    BY <1>3, <2>1, LongFacts DEF Statuses
  <2> QED BY <1>1, <1>2, <2>1, <2>2, <2>3, <2>4, LocalStepOK
<1>4. CASE result[t].key # "KERNEL_APC"
  <2>1. /\ pc' = [pc EXCEPT ![t] = "run"] /\ call' = [call EXCEPT ![t] = NoCall]
        /\ result' = [result EXCEPT ![t] = result[t]]
    BY <1>4 DEF KeWaitResume, Return
  <2>2. /\ pc'[t] = "run" /\ result' = result
        /\ \A u \in Threads \ {t} : pc'[u] = pc[u] /\ call'[u] = call[u]
    BY <1>1, <2>1 DEF TypeOK
  <2>3. TypeOK'
    BY <1>1, <1>2, <2>1, <2>2 DEF TypeOK
  <2> QED BY <1>1, <1>2, <2>2, <2>3, LocalStepOK
<1> QED BY <1>3, <1>4

(* Taking the lock for another round keeps the invariant.                     *)
LEMMA RelockOK ==
  ASSUME Inv, NEW t \in Threads, KeWaitRelock(t)
  PROVE  StepOK
<1>1. /\ pc[t] = "retry" /\ Unlocked /\ pc' = [pc EXCEPT ![t] = "loop"]
      /\ UNCHANGED <<signal, waitList, owner, abandoned, call, result, timer, apcDisable,
                     alerted, pending, normalApc, userApc, userPending, scan>>
  BY DEF KeWaitRelock, objectVars, apcVars
<1>2. TypeOK'
  BY <1>1 DEF Inv, TypeOK
<1>3. pc'[t] = "loop" /\ \A u \in Threads \ {t} : pc'[u] = pc[u]
  BY <1>1 DEF Inv, TypeOK
<1>4. normalApc[t] /\ apcDisable[t] = 0 => pending[t]
  BY <1>1 DEF Inv, ApcNotLost
<1>5. result[t].key \notin Objects
  BY <1>1 DEF Inv, StatusOK
<1> QED BY <1>1, <1>2, <1>3, <1>4, <1>5, LocalStepOK DEF Unlocked

(* KeTestAlertThread keeps the invariant.                                     *)
LEMMA TestAlertOK ==
  ASSUME Inv, NEW t \in Threads, NEW mode, KeTestAlertThread(t, mode)
  PROVE  StepOK
<1>1. /\ pc[t] = "run" /\ TypeOK
      /\ UNCHANGED <<signal, waitList, owner, abandoned, pc, call, result, timer, apcDisable,
                     pending, normalApc, userApc, scan>>
  BY DEF KeTestAlertThread, objectVars, Inv
<1>2. \/ alerted' = [alerted EXCEPT ![t] = alerted[t] \ {mode}] /\ UNCHANGED userPending
      \/ /\ \E b \in BOOLEAN : userPending' = [userPending EXCEPT ![t] = b]
         /\ UNCHANGED alerted
  <2>1. \/ alerted' = [alerted EXCEPT ![t] = alerted[t] \ {mode}] /\ UNCHANGED userPending
        \/ /\ userPending' = [userPending EXCEPT ![t] =
                                userPending[t] \/ (mode = "UserMode" /\ userApc[t])]
           /\ UNCHANGED alerted
    BY DEF KeTestAlertThread
  <2>2. (userPending[t] \/ (mode = "UserMode" /\ userApc[t])) \in BOOLEAN
    OBVIOUS
  <2> QED BY <2>1, <2>2, Zenon
<1>3. /\ alerted' \in [Threads -> SUBSET Modes] /\ userPending' \in [Threads -> BOOLEAN]
      /\ \A u \in Threads \ {t} : alerted'[u] = alerted[u] /\ userPending'[u] = userPending[u]
  <2>1. CASE alerted' = [alerted EXCEPT ![t] = alerted[t] \ {mode}] /\ UNCHANGED userPending
    BY <1>1, <2>1 DEF TypeOK
  <2>2. CASE /\ \E b \in BOOLEAN : userPending' = [userPending EXCEPT ![t] = b]
             /\ UNCHANGED alerted
    BY <1>1, <2>2 DEF TypeOK
  <2> QED BY <1>2, <2>1, <2>2
<1>4. TypeOK'
  BY <1>1, <1>3 DEF TypeOK
<1>5. normalApc[t] /\ apcDisable[t] = 0 => pending[t]
  BY <1>1 DEF Inv, ApcNotLost
<1> QED BY <1>1, <1>3, <1>4, <1>5, LocalStepOK

(* KiDeliverApc keeps the invariant.                                          *)
LEMMA DeliverApcOK ==
  ASSUME Inv, NEW t \in Threads, KiDeliverApc(t)
  PROVE  StepOK
<1>1. /\ pc[t] \in {"run", "retry"} /\ TypeOK /\ DeliverKernel(t)
      /\ UNCHANGED <<signal, waitList, owner, abandoned, pc, call, result, timer, alerted,
                     apcDisable, scan>>
  BY DEF KiDeliverApc, objectVars, Inv
<1>2. /\ pending' \in [Threads -> BOOLEAN] /\ normalApc' \in [Threads -> BOOLEAN]
      /\ ~(normalApc'[t] /\ apcDisable[t] = 0)
      /\ \A u \in Threads \ {t} : pending'[u] = pending[u] /\ normalApc'[u] = normalApc[u]
  BY <1>1, DeliverFacts
<1>3. /\ userApc' \in [Threads -> BOOLEAN] /\ userPending' \in [Threads -> BOOLEAN]
      /\ \A u \in Threads \ {t} : userApc'[u] = userApc[u] /\ userPending'[u] = userPending[u]
  <2>1. CASE UNCHANGED <<userApc, userPending>>
    BY <1>1, <2>1 DEF TypeOK
  <2>2. CASE /\ userPending' = [userPending EXCEPT ![t] = FALSE]
             /\ \E more \in BOOLEAN : userApc' = [userApc EXCEPT ![t] = more]
    BY <1>1, <2>2 DEF TypeOK
  <2> QED BY <2>1, <2>2 DEF KiDeliverApc
<1>4. TypeOK'
  BY <1>1, <1>2, <1>3 DEF TypeOK
<1>5. pc[t] = "retry" => result[t].key \notin Objects
  BY DEF Inv, StatusOK
<1> QED BY <1>1, <1>2, <1>3, <1>4, <1>5, LocalStepOK

-----------------------------------------------------------------------------
(* Steps that end a wait with no object: timers, alerts and APCs.             *)

(* UnwaitStep, with a status that is no object.                               *)
LEMMA UnwaitStepOK ==
  ASSUME Inv, Unlocked, NEW t \in Threads, Waiting(t), NEW key \in Statuses,
         KiUnwaitThread(pc, t, key, FALSE),
         UNCHANGED <<signal, owner, abandoned, call, apcDisable, scan>>,
         pending' \in [Threads -> BOOLEAN], normalApc' \in [Threads -> BOOLEAN],
         alerted' \in [Threads -> SUBSET Modes], userApc' \in [Threads -> BOOLEAN],
         userPending' \in [Threads -> BOOLEAN],
         \A u \in Threads \ {t} :
           /\ pending'[u] = pending[u] /\ normalApc'[u] = normalApc[u]
           /\ alerted'[u] = alerted[u] /\ userApc'[u] = userApc[u]
           /\ userPending'[u] = userPending[u],
         normalApc'[t] /\ apcDisable[t] = 0 => pending'[t]
  PROVE  StepOK
<1>1. TypeOK /\ NoThread \notin Threads
  BY LongFacts DEF Inv
<1>2. KeepLock(NoThread) = pc
  BY DEF KeepLock
<1>3. /\ LockOK' /\ BlocksOK' /\ OwnersOK' /\ StatusOK' /\ NoneOver' /\ ScanOwner'
      /\ ApcDisableExact' /\ ApcNotLost' /\ AlertNotLost'
      /\ waitList' \in [Objects -> Seq(Threads)] /\ timer' \in [Threads -> BOOLEAN]
      /\ pc' \in [Threads -> {"run", "next", "loop", "retry", "wait", "ready",
                              "rundown", "dead"}]
      /\ result' \in [Threads -> [key: Objects \cup Statuses, abandoned: BOOLEAN]]
      /\ \A u \in Threads : result'[u] = IF u = t THEN Status(key, FALSE) ELSE result[u]
  BY <1>1, <1>2, UnwaitStep
<1>4. TypeOK'
  BY <1>1, <1>3 DEF TypeOK
<1>5. TakesAll /\ TakesNothingElse /\ ReportsAbandoned
  <2>1. \A u \in Threads : result'[u] # result[u] => result'[u].key \notin Objects
    BY <1>3, StatusFacts
  <2>2. \A o \in Objects : ~(signal[o] < signal[o])
    BY <1>1 DEF TypeOK
  <2> QED BY <2>1, <2>2, QuietStep
<1> QED BY <1>3, <1>4, <1>5 DEF StepOK, Inv

(* The expiry of a wait timer keeps the invariant.                            *)
LEMMA TimerExpireOK ==
  ASSUME Inv, NEW t \in Threads, KiTimerExpire(t)
  PROVE  StepOK
<1>1. /\ Unlocked /\ timer[t] /\ KiUnwaitThread(pc, t, "TIMEOUT", FALSE)
      /\ UNCHANGED <<signal, owner, abandoned, call, apcDisable, alerted, pending, normalApc,
                     userApc, userPending, scan>>
  BY DEF KiTimerExpire, apcVars
<1>2. Waiting(t) /\ TypeOK
  BY <1>1 DEF Inv, BlocksOK
<1>3. normalApc[t] /\ apcDisable[t] = 0 => pending[t]
  BY <1>2 DEF Inv, ApcNotLost, Waiting
<1>4. "TIMEOUT" \in Statuses
  BY DEF Statuses
<1> QED BY <1>1, <1>2, <1>3, <1>4, UnwaitStepOK DEF TypeOK

(* What the wakers have in common when they do not wake the thread: locations *)
(* and objects stay, some of the thread's APC state changes.                  *)
LEMMA NoWakeOK ==
  ASSUME Inv, NEW t \in Threads,
         UNCHANGED <<signal, waitList, owner, abandoned, pc, call, result, timer, apcDisable,
                     scan>>,
         pending' \in [Threads -> BOOLEAN], normalApc' \in [Threads -> BOOLEAN],
         alerted' \in [Threads -> SUBSET Modes], userApc' \in [Threads -> BOOLEAN],
         userPending' \in [Threads -> BOOLEAN],
         \A u \in Threads \ {t} :
           /\ pending'[u] = pending[u] /\ normalApc'[u] = normalApc[u]
           /\ alerted'[u] = alerted[u] /\ userApc'[u] = userApc[u]
           /\ userPending'[u] = userPending[u],
         normalApc'[t] /\ apcDisable[t] = 0 /\ pc[t] # "dead" => pending'[t],
         pc[t] = "wait" /\ call[t].irql0 /\ pending'[t] => apcDisable[t] # 0,
         pc[t] = "wait" => ~AlertReady(t)' /\ ~UserApcReady(t)'
  PROVE  StepOK
<1>1. TypeOK /\ TypeOK'
  BY DEF Inv, TypeOK
<1>2. TakesAll /\ TakesNothingElse /\ ReportsAbandoned
  <2>1. \A o \in Objects : ~(signal[o] < signal[o])
    BY <1>1 DEF TypeOK
  <2> QED BY <2>1, QuietStep
<1>3. SameWaits /\ LessWaits
  BY DEF SameWaits, LessWaits
<1>4. LockOK' /\ StatusOK' /\ ApcDisableExact'
  BY DEF Inv, LockOK, Holding, StatusOK, ApcDisableExact
<1>5. BlocksOK'
  BY <1>3, KeepBlocks DEF Inv
<1>6. OwnersOK'
  BY <1>3, KeepOwners DEF Inv
<1>7. NoneOver' /\ ScanOwner'
  BY <1>3, KeepNone DEF Inv, Satisfiable
<1>8. ApcNotLost'
  <2>1. ASSUME NEW u \in Threads
        PROVE  /\ normalApc'[u] /\ apcDisable'[u] = 0 /\ pc'[u] # "dead" => pending'[u]
               /\ pc'[u] = "wait" /\ call'[u].irql0 /\ pending'[u] => apcDisable'[u] # 0
    <3>1. CASE u = t
      BY <3>1
    <3>2. CASE u # t
      BY <3>2 DEF Inv, ApcNotLost
    <3> QED BY <3>1, <3>2
  <2> QED BY <2>1 DEF ApcNotLost
<1>9. AlertNotLost'
  <2>1. ASSUME NEW u \in Threads, pc[u] = "wait", u # t
        PROVE  ~AlertReady(u)' /\ ~UserApcReady(u)'
    BY <2>1 DEF Inv, AlertNotLost, AlertReady, UserApcReady
  <2> QED BY <2>1 DEF AlertNotLost
<1> QED BY <1>1, <1>2, <1>4, <1>5, <1>6, <1>7, <1>8, <1>9 DEF StepOK, Inv

(* KeAlertThread keeps the invariant: a wait that goes on is not alertable,   *)
(* or only in the other mode.                                                 *)
LEMMA AlertOK ==
  ASSUME Inv, NEW t \in Threads, NEW mode \in AlertModes, KeAlertThread(t, mode)
  PROVE  StepOK
<1>1. /\ Unlocked /\ pc[t] # "dead" /\ TypeOK /\ mode \in Modes
      /\ UNCHANGED <<signal, owner, abandoned, call, apcDisable, pending, normalApc,
                     userApc, userPending, scan>>
  BY CallsAssumption DEF KeAlertThread, Inv
<1>2. normalApc[t] /\ apcDisable[t] = 0 => pending[t]
  BY <1>1 DEF Inv, ApcNotLost
<1>3. CASE pc[t] = "wait" /\ call[t].alertable /\ mode \in {"KernelMode", call[t].mode}
  <2>1. KiUnwaitThread(pc, t, "ALERTED", FALSE) /\ UNCHANGED alerted
    BY <1>3 DEF KeAlertThread
  <2>2. "ALERTED" \in Statuses /\ Waiting(t)
    BY <1>3 DEF Statuses, Waiting
  <2> QED BY <1>1, <1>2, <2>1, <2>2, UnwaitStepOK DEF TypeOK
<1>4. CASE ~(pc[t] = "wait" /\ call[t].alertable /\ mode \in {"KernelMode", call[t].mode})
  <2>1. /\ alerted' = [alerted EXCEPT ![t] = alerted[t] \cup {mode}]
        /\ UNCHANGED <<result, waitList, timer, pc>>
    BY <1>4 DEF KeAlertThread
  <2>2. /\ alerted' \in [Threads -> SUBSET Modes] /\ alerted'[t] = alerted[t] \cup {mode}
        /\ \A u \in Threads \ {t} : alerted'[u] = alerted[u]
    BY <1>1, <2>1 DEF TypeOK
  <2>3. pc[t] = "wait" => ~AlertReady(t)' /\ ~UserApcReady(t)'
    <3>1. pc[t] = "wait" => ~AlertReady(t) /\ ~UserApcReady(t)
      BY DEF Inv, AlertNotLost
    <3>2. pc[t] = "wait" => ~AlertReady(t)'
      BY <1>1, <1>4, <2>2, <3>1 DEF AlertReady
    <3> QED BY <1>1, <3>1, <3>2 DEF UserApcReady
  <2>4. pc[t] = "wait" /\ call[t].irql0 /\ pending[t] => apcDisable[t] # 0
    BY DEF Inv, ApcNotLost
  <2> QED BY <1>1, <1>2, <2>1, <2>2, <2>3, <2>4, NoWakeOK DEF TypeOK
<1> QED BY <1>3, <1>4

(* KiInsertQueueApc with a kernel APC keeps the invariant: a wait that goes   *)
(* on is at APC_LEVEL, or has normal APCs disabled.                           *)
LEMMA InsertKernelApcOK ==
  ASSUME Inv, NEW t \in Threads, NEW kind, KiInsertQueueApcKernel(t, kind)
  PROVE  StepOK
<1>1. /\ Unlocked /\ pc[t] # "dead" /\ TypeOK /\ kind \in {"special", "normal"}
      /\ UNCHANGED <<signal, owner, abandoned, call, apcDisable, alerted,
                     userApc, userPending, scan>>
  BY DEF KiInsertQueueApcKernel, Inv
<1>2. /\ pending' \in [Threads -> BOOLEAN] /\ normalApc' \in [Threads -> BOOLEAN] /\ pending'[t]
      /\ \A u \in Threads \ {t} : pending'[u] = pending[u] /\ normalApc'[u] = normalApc[u]
  <2>1. /\ pending' = [pending EXCEPT ![t] = TRUE]
        /\ normalApc' = [normalApc EXCEPT ![t] = normalApc[t] \/ kind = "normal"]
    BY DEF KiInsertQueueApcKernel
  <2>2. pending \in [Threads -> BOOLEAN] /\ normalApc \in [Threads -> BOOLEAN]
    BY <1>1 DEF TypeOK
  <2>3. PICK b \in BOOLEAN : b <=> (normalApc[t] \/ kind = "normal")
    OBVIOUS
  <2>4. b = (normalApc[t] \/ kind = "normal")
    BY <2>3
  <2>5. normalApc' = [normalApc EXCEPT ![t] = b]
    BY <2>1, <2>4, Zenon
  <2> QED BY <2>1, <2>2, <2>5
<1>3. CASE pc[t] = "wait" /\ call[t].irql0 /\ (kind = "special" \/ apcDisable[t] = 0)
  <2>1. KiUnwaitThread(pc, t, "KERNEL_APC", FALSE)
    BY <1>3 DEF KiInsertQueueApcKernel
  <2>2. "KERNEL_APC" \in Statuses /\ Waiting(t)
    BY <1>3 DEF Statuses, Waiting
  <2> QED BY <1>1, <1>2, <2>1, <2>2, UnwaitStepOK DEF TypeOK
<1>4. CASE ~(pc[t] = "wait" /\ call[t].irql0 /\ (kind = "special" \/ apcDisable[t] = 0))
  <2>1. UNCHANGED <<result, waitList, timer, pc>>
    BY <1>4 DEF KiInsertQueueApcKernel
  <2>2. pc[t] = "wait" => ~AlertReady(t)' /\ ~UserApcReady(t)'
    BY <1>1 DEF Inv, AlertNotLost, AlertReady, UserApcReady
  <2>3. pc[t] = "wait" /\ call[t].irql0 => apcDisable[t] # 0
    BY <1>4
  <2> QED BY <1>1, <1>2, <2>1, <2>2, <2>3, NoWakeOK DEF TypeOK
<1> QED BY <1>3, <1>4

(* KiInsertQueueApc with a user APC keeps the invariant: a wait that goes on  *)
(* is in kernel mode or not alertable.                                        *)
LEMMA InsertUserApcOK ==
  ASSUME Inv, NEW t \in Threads, NEW kind, KiInsertQueueApcUser(t, kind)
  PROVE  StepOK
<1>1. /\ Unlocked /\ pc[t] # "dead" /\ TypeOK
      /\ kind = "exit" => pc[t] \in {"run", "retry"}
      /\ userApc' = [userApc EXCEPT ![t] = TRUE]
      /\ UNCHANGED <<signal, owner, abandoned, call, apcDisable, alerted,
                     pending, normalApc, scan>>
  BY DEF KiInsertQueueApcUser, Inv
<1>2. PICK wake \in BOOLEAN :
        wake <=> (pc[t] = "wait" /\ call[t].mode = "UserMode" /\ call[t].alertable)
  OBVIOUS
<1>3. /\ userApc' \in [Threads -> BOOLEAN] /\ userPending' \in [Threads -> BOOLEAN]
      /\ \A u \in Threads \ {t} : userApc'[u] = userApc[u] /\ userPending'[u] = userPending[u]
      /\ userPending'[t] <=> (userPending[t] \/ kind = "exit" \/ wake)
  <2>1. PICK b \in BOOLEAN : b <=> (userPending[t] \/ kind = "exit" \/ wake)
    OBVIOUS
  <2>2. b = (userPending[t] \/ kind = "exit"
               \/ (pc[t] = "wait" /\ call[t].mode = "UserMode" /\ call[t].alertable))
    BY <1>2, <2>1
  <2>3. userPending' = [userPending EXCEPT ![t] = b]
    BY <2>2, Zenon DEF KiInsertQueueApcUser
  <2>4. userApc \in [Threads -> BOOLEAN] /\ userPending \in [Threads -> BOOLEAN]
    BY <1>1 DEF TypeOK
  <2> QED BY <1>1, <2>1, <2>3, <2>4
<1>4. normalApc[t] /\ apcDisable[t] = 0 => pending[t]
  BY <1>1 DEF Inv, ApcNotLost
<1>5. CASE wake
  <2>1. KiUnwaitThread(pc, t, "USER_APC", FALSE)
    BY <1>2, <1>5 DEF KiInsertQueueApcUser
  <2>2. "USER_APC" \in Statuses /\ Waiting(t)
    BY <1>2, <1>5 DEF Statuses, Waiting
  <2> QED BY <1>1, <1>3, <1>4, <2>1, <2>2, UnwaitStepOK DEF TypeOK
<1>6. CASE ~wake
  <2>1. UNCHANGED <<result, waitList, timer, pc>>
    BY <1>2, <1>6 DEF KiInsertQueueApcUser
  <2>2. pc[t] = "wait" => ~AlertReady(t)' /\ ~UserApcReady(t)'
    <3>1. SUFFICES ASSUME pc[t] = "wait" PROVE ~AlertReady(t)' /\ ~UserApcReady(t)'
      OBVIOUS
    <3>2. ~AlertReady(t) /\ ~UserApcReady(t)
      BY <3>1 DEF Inv, AlertNotLost
    <3>3. ~AlertReady(t)'
      BY <1>1, <3>2 DEF AlertReady
    <3>4. userPending'[t] <=> userPending[t]
      BY <1>1, <1>3, <1>6, <3>1
    <3>5. ~UserApcReady(t)'
      BY <1>1, <1>2, <1>6, <3>1, <3>2, <3>4 DEF UserApcReady
    <3> QED BY <3>3, <3>5
  <2>3. pc[t] = "wait" /\ call[t].irql0 /\ pending[t] => apcDisable[t] # 0
    BY DEF Inv, ApcNotLost
  <2> QED BY <1>1, <1>3, <1>4, <2>1, <2>2, <2>3, NoWakeOK DEF TypeOK
<1> QED BY <1>5, <1>6

-----------------------------------------------------------------------------
(* Events and semaphores.                                                     *)

(* The lock is kept after a signal, or a scan begins.                         *)
LEMMA KeepLockOK ==
  ASSUME TypeOK, Unlocked, NEW c \in Threads \cup {NoThread}, c \in Threads => pc[c] = "run",
         call' = call,
         \/ pc' = KeepLock(c) /\ scan' = scan
         \/ /\ pc' = pc /\ scan'.by = c /\ scan'.then \in {"unlock", "pulse"}
            /\ scan'.then = "pulse" => scan'.obj \in Events
  PROVE  LockOK' /\ SameWaits
<1>1. \A u \in Threads : ~Holding(u)
  BY DEF Unlocked, Holding
<1>2. CASE pc' = KeepLock(c) /\ scan' = scan
  <2>1. \A u \in Threads : pc'[u] = IF u = c THEN "next" ELSE pc[u]
    BY <1>2, KeepLockFacts
  <2>2. \A u \in Threads : Holding(u)' => u = c
    BY <1>1, <2>1 DEF Holding
  <2> QED BY <1>2, <2>1, <2>2 DEF LockOK, Unlocked, SameWaits
<1>3. CASE /\ pc' = pc /\ scan'.by = c /\ scan'.then \in {"unlock", "pulse"}
           /\ scan'.then = "pulse" => scan'.obj \in Events
  <2>1. \A u \in Threads : ~Holding(u)'
    BY <1>1, <1>3 DEF Holding
  <2> QED BY <1>3, <2>1 DEF LockOK, SameWaits
<1> QED BY <1>2, <1>3

(* A change of an event or a semaphore that wakes nobody by itself.           *)
LEMMA SignalStepOK ==
  ASSUME Inv, Unlocked, NEW c \in Threads \cup {NoThread}, c \in Threads => pc[c] = "run",
         NEW o \in Events \cup Semaphores, NEW v,
         o \in Events => v \in {0, 1},
         o \in Semaphores => v \in 0..Limit[o] /\ v >= signal[o],
         signal' = [signal EXCEPT ![o] = v],
         UNCHANGED <<waitList, owner, abandoned, call, result, timer, apcDisable, alerted,
                     pending, normalApc, userApc, userPending>>,
         \/ /\ pc' = KeepLock(c) /\ scan' = scan
            /\ v > 0 => signal[o] > 0 \/ waitList[o] = <<>>
         \/ /\ pc' = pc
            /\ KiWaitTest(o, c, "unlock") \/ (o \in Events /\ KiWaitTest(o, c, "pulse"))
  PROVE  StepOK
<1>1. TypeOK /\ o \in Objects /\ scan.obj = NoObject /\ o \notin Mutants
  BY DEF Inv, Events, Semaphores, Mutants, Unlocked
<1>2. /\ \A p \in Objects : signal'[p] = IF p = o THEN v ELSE signal[p]
      /\ \A p \in Mutants : signal'[p] = signal[p] /\ owner'[p] = owner[p]
  BY <1>1 DEF TypeOK, Mutants
<1>3. \/ pc' = KeepLock(c) /\ scan' = scan /\ (v > 0 => signal[o] > 0 \/ waitList[o] = <<>>)
      \/ /\ pc' = pc /\ scan'.obj = o /\ scan'.pos = 1 /\ scan'.by = c
         /\ scan'.then \in {"unlock", "pulse"} /\ (scan'.then = "pulse" => scan'.obj \in Events)
         /\ scan' \in [obj: Objects \cup {NoObject}, pos: Nat \ {0},
                       by: Threads \cup {NoThread}, then: {"unlock", "pulse", "rundown"}]
  BY <1>1 DEF KiWaitTest
<1>4. LockOK' /\ SameWaits /\ LessWaits
  <2>1. LockOK' /\ SameWaits
    BY <1>1, <1>3, KeepLockOK
  <2> QED BY <2>1 DEF SameWaits, LessWaits
<1>5. BlocksOK' /\ NoneOver' /\ ScanOwner'
  <2>1. v = signal'[o] /\ \A p \in Objects \ {o} : signal'[p] = signal[p]
    BY <1>1, <1>2
  <2> QED BY <1>1, <1>3, <1>4, <2>1, ChangeStep
<1>6. \A u \in Threads : pc'[u] = pc[u] \/ (pc[u] = "run" /\ pc'[u] = "next")
  BY <1>1, <1>3, KeepLockFacts
<1>7. OwnersOK'
  BY <1>2, <1>4, <1>6, KeepOwners DEF Inv
<1>8. StatusOK'
  BY <1>6 DEF Inv, StatusOK
<1>9. ApcDisableExact'
  BY DEF Inv, ApcDisableExact
<1>10. ApcNotLost'
  BY <1>6 DEF Inv, ApcNotLost
<1>11. AlertNotLost'
  <2>1. ASSUME NEW u \in Threads, pc'[u] = "wait"
        PROVE  ~AlertReady(u)' /\ ~UserApcReady(u)'
    BY <1>6, <2>1 DEF Inv, AlertNotLost, AlertReady, UserApcReady
  <2> QED BY <2>1 DEF AlertNotLost
<1>12. signal' \in [Objects -> MINLONG..MAXLONG]
  <2>1. v \in MINLONG..MAXLONG
    <3>1. CASE o \in Events
      BY <3>1, LongFacts
    <3>2. CASE o \in Semaphores
      BY <1>1, <3>2, LongFacts, KindFacts
    <3> QED BY <3>1, <3>2
  <2> QED BY <1>1, <2>1 DEF TypeOK
<1>13. /\ \A p \in Events : signal'[p] \in {0, 1}
       /\ \A p \in Semaphores : signal'[p] \in 0..Limit[p]
  BY <1>1, <1>2 DEF TypeOK, Events, Semaphores
<1>14. pc' \in [Threads -> {"run", "next", "loop", "retry", "wait", "ready", "rundown", "dead"}]
  BY <1>1, <1>3, KeepLockFacts DEF TypeOK
<1>15. TypeOK'
  BY <1>1, <1>3, <1>12, <1>13, <1>14 DEF TypeOK
<1>16. TakesAll /\ TakesNothingElse /\ ReportsAbandoned
  <2>1. \A p \in Objects : Kind[p] = "Semaphore" => ~(signal'[p] < signal[p])
    <3>1. \A p \in Objects : signal[p] \in Int
      BY <1>1, LongFacts DEF TypeOK
    <3>2. Kind[o] = "Semaphore" => v \in Int /\ v >= signal[o]
      BY <1>1, KindFacts
    <3> QED BY <1>1, <1>2, <3>1, <3>2
  <2> QED BY <2>1, QuietStep
<1> QED BY <1>4, <1>5, <1>7, <1>8, <1>9, <1>10, <1>11, <1>15, <1>16 DEF StepOK, Inv

(* KeResetEvent and KeClearEvent keep the invariant, also the latter in the   *)
(* middle of a scan: an event that goes away satisfies nobody.                *)
LEMMA ClearOK ==
  ASSUME Inv, NEW o \in Events, KeResetEvent(o) \/ KeClearEvent(o)
  PROVE  StepOK
<1>1. /\ TypeOK /\ signal' = [signal EXCEPT ![o] = 0]
      /\ UNCHANGED <<waitList, owner, abandoned, pc, call, result, timer, apcDisable, alerted,
                     pending, normalApc, userApc, userPending, scan>>
  BY DEF Inv, KeResetEvent, KeClearEvent, apcVars
<1>2. o \in Objects /\ o \notin Mutants /\ o \notin Semaphores
  BY DEF Events, Mutants, Semaphores
<1>3. /\ \A p \in Objects : signal'[p] = IF p = o THEN 0 ELSE signal[p]
      /\ \A p \in Mutants : signal'[p] = signal[p] /\ owner'[p] = owner[p]
  BY <1>1, <1>2 DEF TypeOK, Mutants
<1>4. SameWaits /\ LessWaits
  BY <1>1 DEF SameWaits, LessWaits
<1>5. LockOK' /\ StatusOK' /\ ApcDisableExact' /\ ApcNotLost'
  BY <1>1 DEF Inv, LockOK, Holding, StatusOK, ApcDisableExact, ApcNotLost
<1>6. AlertNotLost'
  BY <1>1 DEF Inv, AlertNotLost, AlertReady, UserApcReady
<1>7. BlocksOK'
  BY <1>1, <1>4, KeepBlocks DEF Inv
<1>8. OwnersOK'
  BY <1>1, <1>3, <1>4, KeepOwners DEF Inv
<1>9. NoneOver' /\ ScanOwner'
  <2>1. ASSUME NEW u \in Threads, NEW p \in Objs(u), Satisfiable(u, p)'
        PROVE  Satisfiable(u, p)
    <3>1. p \in Objects
      BY <1>1, WaitFacts
    <3> QED BY <1>1, <1>2, <1>3, <2>1, <3>1 DEF Satisfiable
  <2> QED BY <1>1, <1>4, <2>1, KeepNone DEF Inv
<1>10. TypeOK'
  <2>1. 0 \in MINLONG..MAXLONG
    BY LongFacts
  <2>2. signal' \in [Objects -> MINLONG..MAXLONG]
    BY <1>1, <2>1 DEF TypeOK
  <2>3. /\ \A p \in Events : signal'[p] \in {0, 1}
        /\ \A p \in Semaphores : signal'[p] \in 0..Limit[p]
    BY <1>1, <1>2, <1>3 DEF TypeOK, Events, Semaphores
  <2> QED BY <1>1, <2>2, <2>3 DEF TypeOK
<1>11. TakesAll /\ TakesNothingElse /\ ReportsAbandoned
  <2>1. \A p \in Objects : Kind[p] = "Semaphore" => ~(signal'[p] < signal[p])
    BY <1>1, <1>2, <1>3, LongFacts DEF TypeOK, Semaphores
  <2> QED BY <1>1, <2>1, QuietStep
<1> QED BY <1>5, <1>6, <1>7, <1>8, <1>9, <1>10, <1>11 DEF StepOK, Inv

(* A satisfied waiter of a SynchronizationEvent is the oldest one, and it did *)
(* not have the event already.                                                *)
LEMMA EventWakeOK ==
  ASSUME Inv, Unlocked, NEW o \in Events, waitList[o] # <<>>,
         NEW c \in Threads \cup {NoThread}, c \in Threads => pc[c] = "run",
         LET t == Head(waitList[o]) IN call[t].type = "WaitAny" \/ call[t].objs = <<o>>,
         KiUnwaitThread(KeepLock(c), Head(waitList[o]), o, FALSE),
         UNCHANGED <<signal, owner, abandoned, call, apcDisable, alerted, pending, normalApc,
                     userApc, userPending, scan>>
  PROVE  StepOK
<1>1. TypeOK /\ BlocksOK /\ o \in Objects /\ scan.obj = NoObject /\ Kind[o] # "Mutant"
      /\ Kind[o] # "Semaphore"
  BY DEF Inv, Events, Unlocked
<1>2. PICK t : t = Head(waitList[o])
  OBVIOUS
<1>3. t \in Threads /\ t \in Items(waitList[o])
  BY <1>1, <1>2, TailItems DEF TypeOK, BlocksOK
<1>4. Waiting(t) /\ o \in Objs(t)
  BY <1>1, <1>3 DEF BlocksOK
<1>5. call[t].type = "WaitAny" \/ Objs(t) = {o}
  <2>1. call[t].objs = <<o>> => Objs(t) = {o}
    BY DEF Objs
  <2> QED BY <1>2, <2>1
<1>6. signal[o] = 0
  <2>1. NotOver(t)
    BY <1>3, <1>4 DEF Inv, NoneOver
  <2>2. \A p \in Objs(t) : p # scan.obj
    BY <1>1, <1>3, WaitFacts, LongFacts
  <2>3. ~Satisfiable(t, o)
    BY <1>4, <1>5, <2>1, <2>2 DEF NotOver, Unreached
  <2> QED BY <1>1, <2>3 DEF TypeOK, Satisfiable
<1>7. normalApc[t] /\ apcDisable[t] = 0 => pending[t]
  BY <1>3, <1>4 DEF Inv, ApcNotLost, Waiting
<1>8. /\ LockOK' /\ BlocksOK' /\ OwnersOK' /\ StatusOK' /\ NoneOver' /\ ScanOwner'
      /\ ApcDisableExact' /\ ApcNotLost' /\ AlertNotLost'
      /\ waitList' \in [Objects -> Seq(Threads)] /\ timer' \in [Threads -> BOOLEAN]
      /\ pc' \in [Threads -> {"run", "next", "loop", "retry", "wait", "ready",
                              "rundown", "dead"}]
      /\ result' \in [Threads -> [key: Objects \cup Statuses, abandoned: BOOLEAN]]
      /\ \A u \in Threads : result'[u] = IF u = t THEN Status(o, FALSE) ELSE result[u]
  BY <1>1, <1>2, <1>3, <1>4, <1>7, UnwaitStep
<1>9. TypeOK'
  BY <1>1, <1>8 DEF TypeOK
<1>10. \A u \in Threads : Completes(u) => u = t /\ TakenBy(u) = {o}
  BY <1>5, <1>8 DEF Completes, TakenBy, Status
<1>11. TakesAll
  BY <1>1, <1>6, <1>10 DEF TakesAll
<1>12. TakesNothingElse
  <2>1. \A p \in Objects : ~(signal[p] < signal[p])
    BY <1>1 DEF TypeOK
  <2> QED BY <2>1 DEF TakesNothingElse
<1>13. ReportsAbandoned
  BY <1>8, <1>10 DEF ReportsAbandoned, Status
<1> QED BY <1>8, <1>9, <1>11, <1>12, <1>13 DEF StepOK, Inv

(* KeSetEvent keeps the invariant.                                            *)
LEMMA SetEventOK ==
  ASSUME Inv, NEW c \in Threads \cup {NoThread}, NEW o \in Events, KeSetEvent(c, o)
  PROVE  StepOK
<1>1. /\ Unlocked /\ (c \in Threads => pc[c] = "run") /\ TypeOK
      /\ o \in Objects /\ o \notin Semaphores /\ signal[o] \in {0, 1}
      /\ UNCHANGED <<owner, abandoned, call, apcDisable, alerted, pending, normalApc,
                     userApc, userPending>>
  BY DEF KeSetEvent, Signaller, Inv, TypeOK, apcVars, Events, Semaphores
<1>2. CASE /\ waitList[o] = <<>>
           /\ signal' = [signal EXCEPT ![o] = 1]
           /\ pc' = KeepLock(c)
           /\ UNCHANGED <<waitList, result, timer, scan>>
  BY <1>1, <1>2, SignalStepOK
<1>3. CASE /\ waitList[o] # <<>>
           /\ Kind[o] = "NotificationEvent" \/ call[Head(waitList[o])].type = "WaitAll"
           /\ IF signal[o] = 0
              THEN /\ signal' = [signal EXCEPT ![o] = 1]
                   /\ KiWaitTest(o, c, "unlock") /\ UNCHANGED pc
              ELSE pc' = KeepLock(c) /\ UNCHANGED <<signal, scan>>
           /\ UNCHANGED <<waitList, result, timer>>
  <2>1. CASE signal[o] = 0
    BY <1>1, <1>3, <2>1, SignalStepOK
  <2>2. CASE signal[o] # 0
    <3>1. signal[o] = 1 /\ signal' = [signal EXCEPT ![o] = 1]
      BY <1>1, <1>3, <2>2 DEF TypeOK
    <3> QED BY <1>1, <1>3, <2>2, <3>1, SignalStepOK
  <2> QED BY <2>1, <2>2
<1>4. CASE /\ waitList[o] # <<>>
           /\ Kind[o] = "SynchronizationEvent" /\ call[Head(waitList[o])].type = "WaitAny"
           /\ KiUnwaitThread(KeepLock(c), Head(waitList[o]), o, FALSE)
           /\ UNCHANGED <<signal, scan>>
  BY <1>1, <1>4, EventWakeOK
<1> QED BY <1>2, <1>3, <1>4 DEF KeSetEvent

(* KeSetEventBoostPriority keeps the invariant.                               *)
LEMMA BoostOK ==
  ASSUME Inv, NEW o \in Events, KeSetEventBoostPriority(o)
  PROVE  StepOK
<1>1. /\ Unlocked /\ TypeOK /\ o \in Objects /\ o \notin Semaphores
      /\ \A i \in 1..Len(waitList[o]) : call[waitList[o][i]].objs = <<o>>
      /\ UNCHANGED <<owner, abandoned, call, apcDisable, alerted, pending, normalApc,
                     userApc, userPending, scan>>
      /\ NoThread \notin Threads /\ KeepLock(NoThread) = pc
  BY LongFacts DEF KeSetEventBoostPriority, Inv, apcVars, KeepLock, Events, Semaphores
<1>2. CASE waitList[o] = <<>>
  <2>1. /\ signal' = [signal EXCEPT ![o] = 1]
        /\ UNCHANGED <<waitList, result, timer, pc>>
    BY <1>2 DEF KeSetEventBoostPriority
  <2> QED BY <1>1, <1>2, <2>1, SignalStepOK
<1>3. CASE waitList[o] # <<>>
  <2>1. KiUnwaitThread(pc, Head(waitList[o]), o, FALSE) /\ UNCHANGED signal
    BY <1>3 DEF KeSetEventBoostPriority
  <2>2. Head(waitList[o]) = waitList[o][1] /\ 1 \in 1..Len(waitList[o])
    <3>1. waitList[o] \in Seq(Threads)
      BY <1>1 DEF TypeOK
    <3>2. Len(waitList[o]) \in Nat /\ Len(waitList[o]) # 0
      BY <1>3, <3>1, LenProperties, EmptySeq
    <3> QED BY <1>3, <3>1, <3>2, HeadTailProperties
  <2>3. call[Head(waitList[o])].objs = <<o>>
    BY <1>1, <2>2
  <2> QED BY <1>1, <1>3, <2>1, <2>3, EventWakeOK
<1> QED BY <1>2, <1>3

(* KePulseEvent keeps the invariant.                                          *)
LEMMA PulseOK ==
  ASSUME Inv, NEW c \in Threads \cup {NoThread}, NEW o \in Events, KePulseEvent(c, o)
  PROVE  StepOK
<1>1. /\ Unlocked /\ (c \in Threads => pc[c] = "run") /\ TypeOK
      /\ o \in Objects /\ o \notin Semaphores
      /\ UNCHANGED <<waitList, owner, abandoned, call, result, timer, apcDisable, alerted,
                     pending, normalApc, userApc, userPending>>
  BY DEF KePulseEvent, Signaller, Inv, apcVars, Events, Semaphores
<1>2. CASE signal[o] = 0 /\ waitList[o] # <<>>
  <2>1. /\ signal' = [signal EXCEPT ![o] = 1]
        /\ KiWaitTest(o, c, "pulse") /\ pc' = pc
    BY <1>2 DEF KePulseEvent
  <2> QED BY <1>1, <2>1, SignalStepOK
<1>3. CASE ~(signal[o] = 0 /\ waitList[o] # <<>>)
  <2>1. /\ signal' = [signal EXCEPT ![o] = 0]
        /\ pc' = KeepLock(c) /\ scan' = scan
    BY <1>3 DEF KePulseEvent
  <2>2. ~(0 > 0)
    OBVIOUS
  <2> QED BY <1>1, <2>1, <2>2, SignalStepOK
<1> QED BY <1>2, <1>3

(* KeReleaseSemaphore keeps the invariant: the sum is within the limit, and   *)
(* did not wrap around.                                                       *)
LEMMA SemaphoreOK ==
  ASSUME Inv, NEW c \in Threads \cup {NoThread}, NEW o \in Semaphores, NEW n \in Adjustments,
         KeReleaseSemaphore(c, o, n)
  PROVE  StepOK
<1>1. /\ Unlocked /\ (c \in Threads => pc[c] = "run") /\ TypeOK
      /\ o \in Objects /\ o \notin Events
      /\ UNCHANGED <<waitList, owner, abandoned, call, result, timer, apcDisable, alerted,
                     pending, normalApc, userApc, userPending>>
  BY DEF KeReleaseSemaphore, Signaller, Inv, apcVars, Events, Semaphores
<1>2. PICK v : v = Wrap(signal[o] + n)
  OBVIOUS
<1>3. signal' = [signal EXCEPT ![o] = v]
  BY <1>2 DEF KeReleaseSemaphore
<1>4. v \in 0..Limit[o] /\ v >= signal[o]
  <2>1. ~(v > Limit[o]) /\ ~(v < signal[o])
    BY <1>2 DEF KeReleaseSemaphore, LimitExceeded
  <2>2. signal[o] \in 0..Limit[o] /\ Limit[o] \in 1..MAXLONG /\ n \in MINLONG..MAXLONG
    BY <1>1, KindFacts, CallsAssumption DEF TypeOK
  <2>3. v \in Int
    BY <1>2, <2>2, LongFacts DEF Wrap
  <2> QED BY <2>1, <2>2, <2>3, LongFacts
<1>5. CASE signal[o] = 0 /\ waitList[o] # <<>>
  <2>1. KiWaitTest(o, c, "unlock") /\ pc' = pc
    BY <1>5 DEF KeReleaseSemaphore
  <2> QED BY <1>1, <1>3, <1>4, <2>1, SignalStepOK
<1>6. CASE ~(signal[o] = 0 /\ waitList[o] # <<>>)
  <2>1. pc' = KeepLock(c) /\ scan' = scan
    BY <1>6 DEF KeReleaseSemaphore
  <2>2. signal[o] > 0 \/ waitList[o] = <<>>
    BY <1>1, <1>6, KindFacts, LongFacts DEF TypeOK
  <2> QED BY <1>1, <1>3, <1>4, <2>1, <2>2, SignalStepOK
<1> QED BY <1>5, <1>6

-----------------------------------------------------------------------------
(* Mutants.                                                                   *)

(* Sets of mutexes can be counted.                                            *)
LEMMA MutexSets ==
  \A S : S \subseteq Mutexes => IsFiniteSet(S) /\ Cardinality(S) \in Nat
<1>1. IsFiniteSet(Objects) /\ Mutexes \subseteq Objects
  BY KindAssumption DEF Mutants
<1> QED BY <1>1, FS_Subset, FS_CardinalityType

(* The mutexes of a thread, which are counted in its KernelApcDisable.        *)
MutexesOf(t) == {o \in Mutexes : owner[o] = t}

(* Giving up a mutant, or having it abandoned, leaves the others as they are. *)
LEMMA GiveUpFacts ==
  ASSUME TypeOK, NEW o \in Mutants, owner' = [owner EXCEPT ![o] = NoThread]
  PROVE  /\ o \in Objects /\ owner'[o] = NoThread
         /\ \A p \in Objects \ {o} : owner'[p] = owner[p]
         /\ \A u \in Threads : MutexesOf(u)' = MutexesOf(u) \ {o}
         /\ owner' \in [Objects -> Threads \cup {NoThread}]
<1>1. o \in Objects /\ owner \in [Objects -> Threads \cup {NoThread}] /\ NoThread \notin Threads
      /\ Mutexes \subseteq Objects
  BY LongFacts, KindAssumption DEF TypeOK, Mutants
<1>2. owner'[o] = NoThread /\ \A p \in Objects \ {o} : owner'[p] = owner[p]
  BY <1>1
<1>3. ASSUME NEW u \in Threads
      PROVE  MutexesOf(u)' = MutexesOf(u) \ {o}
  BY <1>1, <1>2 DEF MutexesOf
<1> QED BY <1>1, <1>2, <1>3

(* A change of a mutant's state that hands it to nobody by itself.            *)
LEMMA MutantStepOK ==
  ASSUME Inv, scan.obj = NoObject, NEW o \in Mutants, NEW v \in MINLONG..1,
         v >= signal[o], v # 1 => v <= 0 /\ owner[o] # NoThread,
         signal' = [signal EXCEPT ![o] = v],
         owner' = [owner EXCEPT ![o] = IF v = 1 THEN NoThread ELSE @],
         abandoned' \in [Objects -> BOOLEAN],
         UNCHANGED <<waitList, call, result, timer, alerted, normalApc, userApc, userPending>>,
         apcDisable' \in [Threads -> Int], ApcDisableExact',
         pending' \in [Threads -> BOOLEAN], ApcNotLost', LockOK',
         pc' \in [Threads -> {"run", "next", "loop", "retry", "wait", "ready", "rundown",
                              "dead"}],
         \A u \in Threads : pc'[u] = pc[u] \/ (pc[u] = "run" /\ pc'[u] = "next"),
         \/ scan' = scan /\ (v = 1 => waitList[o] = <<>>)
         \/ /\ v = 1 /\ pc' = pc
            /\ \E c \in Threads \cup {NoThread}, then \in {"unlock", "rundown"} :
                 KiWaitTest(o, c, then)
  PROVE  StepOK
<1>1. /\ TypeOK /\ OwnersOK /\ MutantOwned /\ o \in Objects /\ NoThread \notin Threads
      /\ o \notin Events /\ o \notin Semaphores /\ v \in Int /\ MINLONG \in Int
      /\ Mutexes \subseteq Mutants /\ Mutants \subseteq Objects
  BY LongFacts, KindAssumption DEF Inv, OwnersOK, Mutants, Events, Semaphores
<1>2. \A p \in Objects : /\ signal'[p] = IF p = o THEN v ELSE signal[p]
                         /\ owner'[p] = IF p = o /\ v = 1 THEN NoThread ELSE owner[p]
  BY <1>1 DEF TypeOK
<1>3. \/ scan' = scan /\ (v = 1 => waitList[o] = <<>>)
      \/ /\ v = 1 /\ pc' = pc /\ scan'.obj = o /\ scan'.pos = 1
         /\ scan' \in [obj: Objects \cup {NoObject}, pos: Nat \ {0},
                       by: Threads \cup {NoThread}, then: {"unlock", "pulse", "rundown"}]
  BY <1>1 DEF KiWaitTest
<1>4. SameWaits /\ LessWaits
  BY DEF SameWaits, LessWaits
<1>5. BlocksOK' /\ NoneOver' /\ ScanOwner'
  <2>1. \A p \in Objects \ {o} : signal'[p] = signal[p] /\ owner'[p] = owner[p]
    BY <1>2
  <2>2. owner'[o] \in {owner[o], NoThread} /\ (v = 1 => owner'[o] = NoThread)
    BY <1>1, <1>2
  <2>3. v # 1 => ~(signal'[o] > 0)
    BY <1>1, <1>2
  <2> QED BY <1>1, <1>3, <1>4, <2>1, <2>2, <2>3, ChangeStep
<1>6. OwnersOK'
  <2>1. ASSUME NEW p \in Mutants
        PROVE  /\ signal'[p] <= 0 <=> owner'[p] # NoThread
               /\ signal'[p] \in MINLONG..1
               /\ owner'[p] \in Threads => pc'[owner'[p]] # "dead"
    <3>1. /\ signal[p] <= 0 <=> owner[p] # NoThread
          /\ signal[p] \in MINLONG..1
          /\ owner[p] \in Threads => pc[owner[p]] # "dead"
      BY <1>1 DEF MutantOwned
    <3>2. owner'[p] \in Threads => owner'[p] = owner[p]
      BY <1>1, <1>2
    <3>3. owner'[p] \in Threads => pc'[owner'[p]] # "dead"
      BY <3>1, <3>2
    <3>4. CASE p # o
      BY <1>1, <1>2, <3>1, <3>3, <3>4
    <3>5. CASE p = o
      BY <1>1, <1>2, <3>1, <3>3, <3>5
    <3> QED BY <3>4, <3>5
  <2>2. ASSUME NEW u \in Threads, Waiting(u)', NEW p \in Objs(u)'
        PROVE  ~AtLimit(u, p)'
    <3>1. Waiting(u) /\ p \in Objs(u)
      BY <1>4, <2>2 DEF SameWaits, Waiting, Objs
    <3>2. ~AtLimit(u, p)
      BY <1>1, <3>1 DEF OwnersOK
    <3>3. SUFFICES ASSUME p \in Mutants, owner'[p] = u
                   PROVE  signal'[p] # MINLONG
      BY DEF AtLimit
    <3>4. owner[p] = u /\ signal[p] # MINLONG /\ signal[p] \in MINLONG..1
      BY <1>1, <1>2, <3>2, <3>3 DEF AtLimit, MutantOwned
    <3> QED BY <1>1, <1>2, <3>3, <3>4
  <2>3. \A u \in Threads : pc'[u] = "rundown" => \A p \in Mutexes : owner'[p] # u
    BY <1>1, <1>2 DEF OwnersOK
  <2> QED BY <2>1, <2>2, <2>3 DEF OwnersOK, MutantOwned
<1>7. StatusOK'
  BY DEF Inv, StatusOK
<1>8. AlertNotLost'
  <2>1. ASSUME NEW u \in Threads, pc'[u] = "wait"
        PROVE  ~AlertReady(u)' /\ ~UserApcReady(u)'
    BY <2>1 DEF Inv, AlertNotLost, AlertReady, UserApcReady
  <2> QED BY <2>1 DEF AlertNotLost
<1>9. TypeOK'
  <2>1. v \in MINLONG..MAXLONG
    BY LongFacts
  <2>2. signal' \in [Objects -> MINLONG..MAXLONG]
    BY <1>1, <2>1 DEF TypeOK
  <2>3. /\ \A p \in Events : signal'[p] \in {0, 1}
        /\ \A p \in Semaphores : signal'[p] \in 0..Limit[p]
    BY <1>1, <1>2 DEF TypeOK, Events, Semaphores
  <2>4. owner' \in [Objects -> Threads \cup {NoThread}]
    BY <1>1 DEF TypeOK
  <2> QED BY <1>1, <1>3, <2>2, <2>3, <2>4 DEF TypeOK
<1>10. TakesAll /\ TakesNothingElse /\ ReportsAbandoned
  <2>1. \A p \in Objects : Kind[p] = "Semaphore" => ~(signal'[p] < signal[p])
    <3>1. \A p \in Objects : Kind[p] = "Semaphore" => signal'[p] = signal[p]
      BY <1>1, <1>2 DEF Semaphores
    <3>2. \A p \in Objects : ~(signal[p] < signal[p])
      BY <1>1 DEF TypeOK
    <3> QED BY <3>1, <3>2
  <2>2. \A p \in Objects : owner'[p] \in {owner[p], NoThread}
    BY <1>2
  <2> QED BY <2>1, <2>2, QuietStep
<1> QED BY <1>5, <1>6, <1>7, <1>8, <1>9, <1>10 DEF StepOK, Inv

(* A mutant abandoned by the rundown of its owner keeps the invariant.        *)
LEMMA RundownMutantOK ==
  ASSUME Inv, NEW t \in Threads, NEW o \in Mutants, KeRundownThreadMutant(t, o)
  PROVE  StepOK
<1>1. /\ pc[t] = "rundown" /\ scan.obj = NoObject /\ owner[o] = t
      /\ signal' = [signal EXCEPT ![o] = 1]
      /\ abandoned' = [abandoned EXCEPT ![o] = TRUE]
      /\ owner' = [owner EXCEPT ![o] = NoThread]
      /\ UNCHANGED <<waitList, pc, call, result, timer, apcDisable, alerted, pending,
                     normalApc, userApc, userPending>>
      /\ TypeOK /\ OwnersOK /\ MutantOwned /\ LockOK
  BY DEF KeRundownThreadMutant, apcVars, Inv, OwnersOK
<1>2. /\ \A u \in Threads : MutexesOf(u)' = MutexesOf(u) \ {o}
      /\ o \in Objects
  BY <1>1, GiveUpFacts
<1>3. o \notin Mutexes
  BY <1>1 DEF OwnersOK
<1>4. \A u \in Threads : MutexesOf(u)' = MutexesOf(u)
  BY <1>2, <1>3 DEF MutexesOf
<1>5. ApcDisableExact'
  BY <1>1, <1>4 DEF Inv, ApcDisableExact, MutexesOf
<1>6. ApcNotLost'
  BY <1>1 DEF Inv, ApcNotLost
<1>7. signal[o] \in MINLONG..1 /\ MINLONG \in Int /\ 1 \in MINLONG..1 /\ 1 >= signal[o]
  BY <1>1, LongFacts DEF MutantOwned
<1>8. CASE waitList[o] # <<>>
  <2>1. KiWaitTest(o, t, "rundown")
    BY <1>8 DEF KeRundownThreadMutant
  <2>2. scan'.obj = o /\ scan'.by = t /\ scan'.then = "rundown"
    BY <2>1 DEF KiWaitTest
  <2>3. \A u \in Threads : Holding(u)' => u = t
    BY <1>1 DEF LockOK, Holding
  <2>4. LockOK'
    BY <1>1, <2>2, <2>3 DEF LockOK
  <2> QED BY <1>1, <1>2, <1>5, <1>6, <1>7, <2>1, <2>4, MutantStepOK DEF TypeOK
<1>9. CASE waitList[o] = <<>>
  <2>1. scan' = scan
    BY <1>9 DEF KeRundownThreadMutant
  <2>2. LockOK'
    BY <1>1, <2>1 DEF LockOK, Holding
  <2> QED BY <1>1, <1>2, <1>5, <1>6, <1>7, <1>9, <2>1, <2>2, MutantStepOK DEF TypeOK
<1> QED BY <1>8, <1>9

(* KeReleaseMutant keeps the invariant.                                       *)
LEMMA ReleaseMutantOK ==
  ASSUME Inv, NEW t \in Threads, NEW c \in {t, NoThread}, NEW o \in Mutants,
         NEW abandon \in BOOLEAN, KeReleaseMutant(t, c, o, abandon)
  PROVE  StepOK
<1>1. PICK v : v = IF abandon THEN 1 ELSE signal[o] + 1
  OBVIOUS
<1>2. PICK leaves \in BOOLEAN : leaves <=> (v = 1 /\ signal[o] <= 0 /\ o \in Mutexes)
  OBVIOUS
<1>3. /\ Unlocked /\ pc[t] = "run" /\ scan.obj = NoObject
      /\ IF abandon THEN o \notin Mutexes ELSE owner[o] = t
      /\ signal' = [signal EXCEPT ![o] = v]
      /\ owner' = [owner EXCEPT ![o] = IF v = 1 THEN NoThread ELSE @]
      /\ UNCHANGED <<waitList, call, result, timer, alerted, normalApc, userApc, userPending>>
      /\ TypeOK /\ OwnersOK /\ MutantOwned /\ o \in Objects /\ c \in Threads \cup {NoThread}
  BY <1>1 DEF KeReleaseMutant, Signaller, Unlocked, Inv, OwnersOK, Mutants
<1>4. apcDisable' = [apcDisable EXCEPT ![t] = IF leaves THEN apcDisable[t] + 1 ELSE apcDisable[t]]
  BY <1>1, <1>2 DEF KeReleaseMutant
<1>5. /\ apcDisable' \in [Threads -> Int]
      /\ apcDisable'[t] = IF leaves THEN apcDisable[t] + 1 ELSE apcDisable[t]
      /\ \A u \in Threads \ {t} : apcDisable'[u] = apcDisable[u]
  BY <1>3, <1>4 DEF TypeOK
<1>6. /\ signal[o] \in MINLONG..1 /\ MINLONG \in Int /\ MINLONG < -1
      /\ ~abandon => signal[o] <= 0
  BY <1>3, LongFacts DEF MutantOwned
<1>7. v \in MINLONG..1 /\ v >= signal[o] /\ (v # 1 => v <= 0 /\ ~abandon)
  BY <1>1, <1>6
<1>8. abandoned' \in [Objects -> BOOLEAN]
  <2>1. PICK b \in BOOLEAN : b <=> (abandoned[o] \/ abandon)
    OBVIOUS
  <2>2. b = (abandoned[o] \/ abandon)
    BY <1>3, <2>1 DEF TypeOK
  <2>3. abandoned' = [abandoned EXCEPT ![o] = b]
    BY <2>2, Zenon DEF KeReleaseMutant
  <2> QED BY <1>3, <2>3 DEF TypeOK
<1>9. PICK pend \in BOOLEAN :
        pend <=> (pending[t] \/ (v = 1 /\ signal[o] <= 0 /\ apcDisable'[t] = 0 /\ normalApc[t]))
  OBVIOUS
<1>10. /\ pending' \in [Threads -> BOOLEAN] /\ pending'[t] = pend
       /\ \A u \in Threads \ {t} : pending'[u] = pending[u]
  <2>1. pending' = [pending EXCEPT ![t] =
            pending[t] \/ (v = 1 /\ signal[o] <= 0 /\ apcDisable'[t] = 0 /\ normalApc[t])]
    BY <1>1, Zenon DEF KeReleaseMutant
  <2>2. pend = (pending[t] \/ (v = 1 /\ signal[o] <= 0 /\ apcDisable'[t] = 0 /\ normalApc[t]))
    BY <1>3, <1>9 DEF TypeOK
  <2>3. pending' = [pending EXCEPT ![t] = pend]
    BY <2>1, <2>2, Zenon
  <2> QED BY <1>3, <2>3 DEF TypeOK
<1>11. ApcDisableExact'
  <2>1. ApcDisableExact
    BY DEF Inv
  <2>2. CASE v # 1
    <3>1. owner' = owner /\ ~leaves
      BY <1>2, <1>3, <2>2 DEF TypeOK
    <3>2. \A u \in Threads : apcDisable'[u] = apcDisable[u]
      BY <1>5, <3>1
    <3> QED BY <2>1, <3>1, <3>2 DEF ApcDisableExact
  <2>3. CASE v = 1
    <3>1. owner' = [owner EXCEPT ![o] = NoThread]
      BY <1>3, <2>3
    <3>2. \A u \in Threads : MutexesOf(u)' = MutexesOf(u) \ {o}
      BY <1>3, <3>1, GiveUpFacts
    <3>3. CASE ~leaves
      <4>1. o \notin Mutexes
        BY <1>2, <1>3, <1>6, <2>3, <3>3
      <4>2. \A u \in Threads : MutexesOf(u)' = MutexesOf(u) /\ apcDisable'[u] = apcDisable[u]
        BY <1>5, <3>2, <3>3, <4>1 DEF MutexesOf
      <4> QED BY <2>1, <4>2 DEF ApcDisableExact, MutexesOf
    <3>4. CASE leaves
      <4>1. o \in MutexesOf(t) /\ \A u \in Threads \ {t} : o \notin MutexesOf(u)
        BY <1>2, <1>3, <3>4 DEF MutexesOf
      <4>2. \A u \in Threads \ {t} : MutexesOf(u)' = MutexesOf(u) /\ apcDisable'[u] = apcDisable[u]
        BY <1>5, <3>2, <4>1
      <4>3. Cardinality(MutexesOf(t) \ {o}) = Cardinality(MutexesOf(t)) - 1
        <5>1. MutexesOf(t) \subseteq Mutexes
          BY DEF MutexesOf
        <5> QED BY <4>1, <5>1, MutexSets, FS_RemoveElement
      <4>4. apcDisable[t] = -Cardinality(MutexesOf(t)) /\ Cardinality(MutexesOf(t)) \in Nat
        BY <2>1, MutexSets DEF ApcDisableExact, MutexesOf
      <4>5. apcDisable'[t] = -Cardinality(MutexesOf(t) \ {o})
        BY <1>5, <3>4, <4>3, <4>4
      <4>6. \A u \in Threads : apcDisable'[u] = -Cardinality(MutexesOf(u)')
        BY <2>1, <3>2, <4>2, <4>5 DEF ApcDisableExact, MutexesOf
      <4> QED BY <4>6 DEF ApcDisableExact, MutexesOf
    <3> QED BY <3>3, <3>4
  <2> QED BY <2>2, <2>3
<1>12. CASE v = 1 /\ waitList[o] # <<>>
  <2>1. KiWaitTest(o, c, "unlock") /\ pc' = pc
    BY <1>1, <1>12 DEF KeReleaseMutant
  <2>2. scan'.by = c /\ scan'.then = "unlock"
    BY <2>1 DEF KiWaitTest
  <2>3. LockOK'
    <3>1. c \in Threads => pc[c] = "run"
      BY <1>3, LongFacts
    <3> QED BY <1>3, <2>1, <2>2, <3>1, KeepLockOK
  <2>4. ApcNotLost'
    <3>1. ASSUME NEW u \in Threads
          PROVE  /\ normalApc'[u] /\ apcDisable'[u] = 0 /\ pc'[u] # "dead" => pending'[u]
                 /\ pc'[u] = "wait" /\ call'[u].irql0 /\ pending'[u] => apcDisable'[u] # 0
      <4>1. CASE u = t
        BY <1>2, <1>3, <1>5, <1>9, <1>10, <2>1, <4>1 DEF Inv, ApcNotLost
      <4>2. CASE u # t
        BY <1>3, <1>5, <1>10, <2>1, <4>2 DEF Inv, ApcNotLost
      <4> QED BY <4>1, <4>2
    <3> QED BY <3>1 DEF ApcNotLost
  <2> QED BY <1>3, <1>5, <1>7, <1>8, <1>10, <1>11, <1>12, <2>1, <2>3, <2>4, MutantStepOK
          DEF TypeOK
<1>13. CASE ~(v = 1 /\ waitList[o] # <<>>)
  <2>1. pc' = KeepLock(c) /\ scan' = scan
    BY <1>1, <1>13 DEF KeReleaseMutant
  <2>2. c \in Threads => pc[c] = "run"
    BY <1>3, LongFacts
  <2>3. LockOK'
    BY <1>3, <2>1, <2>2, KeepLockOK
  <2>4. /\ pc' \in [Threads -> {"run", "next", "loop", "retry", "wait", "ready", "rundown",
                                "dead"}]
        /\ \A u \in Threads : pc'[u] = IF u = c THEN "next" ELSE pc[u]
    BY <1>3, <2>1, <2>2, KeepLockFacts
  <2>5. ApcNotLost'
    <3>1. ASSUME NEW u \in Threads
          PROVE  /\ normalApc'[u] /\ apcDisable'[u] = 0 /\ pc'[u] # "dead" => pending'[u]
                 /\ pc'[u] = "wait" /\ call'[u].irql0 /\ pending'[u] => apcDisable'[u] # 0
      <4>1. CASE u = t
        <5>1. pc'[t] # "wait" /\ pc[t] # "dead"
          BY <1>3, <2>4
        <5>2. normalApc[t] /\ apcDisable[t] = 0 => pending[t]
          BY <5>1 DEF Inv, ApcNotLost
        <5> QED BY <1>2, <1>3, <1>5, <1>9, <1>10, <4>1, <5>1, <5>2
      <4>2. CASE u # t
        <5>1. pc'[u] = pc[u]
          BY <2>4, <4>2, LongFacts
        <5> QED BY <1>3, <1>5, <1>10, <4>2, <5>1 DEF Inv, ApcNotLost
      <4> QED BY <4>1, <4>2
    <3> QED BY <3>1 DEF ApcNotLost
  <2>6. \A u \in Threads : pc'[u] = pc[u] \/ (pc[u] = "run" /\ pc'[u] = "next")
    BY <2>2, <2>4
  <2>7. v # 1 => owner[o] # NoThread
    BY <1>3, <1>7, LongFacts
  <2> QED BY <1>3, <1>5, <1>7, <1>8, <1>10, <1>11, <1>13, <2>1, <2>3, <2>4, <2>5, <2>6, <2>7,
             MutantStepOK DEF TypeOK
<1> QED BY <1>12, <1>13

-----------------------------------------------------------------------------
(* Satisfied waits.                                                           *)

(* What a satisfied wait on S does to the objects.                            *)
LEMMA SatisfyObjects ==
  ASSUME TypeOK, OwnersOK, NEW t \in Threads, NEW S \in SUBSET Objects,
         \A o \in S : Satisfiable(t, o) /\ ~AtLimit(t, o), KiWaitSatisfy(S, t)
  PROVE  /\ signal' \in [Objects -> MINLONG..MAXLONG]
         /\ \A o \in Events : signal'[o] \in {0, 1}
         /\ \A o \in Semaphores : signal'[o] \in 0..Limit[o]
         /\ owner' \in [Objects -> Threads \cup {NoThread}]
         /\ \A o \in Mutants : /\ signal'[o] <= 0 <=> owner'[o] # NoThread
                               /\ signal'[o] \in MINLONG..1
                               /\ owner'[o] # owner[o] => owner[o] = NoThread /\ owner'[o] = t
         /\ \A o \in Objects \ S : signal'[o] = signal[o] /\ owner'[o] = owner[o]
         /\ \A o \in S :
              /\ Kind[o] = "Semaphore" => signal[o] > 0 /\ signal'[o] = signal[o] - 1
              /\ Kind[o] = "SynchronizationEvent" => signal'[o] = 0
              /\ Kind[o] = "NotificationEvent" => signal'[o] = signal[o]
              /\ Kind[o] = "Mutant" => owner'[o] = t /\ owner[o] \in {t, NoThread}
         /\ \A o \in Objects : Kind[o] # "Mutant" => owner'[o] = owner[o]
         /\ \A o \in Objects : signal'[o] > 0 => signal[o] > 0
<1>1. /\ MutantOwned /\ MINLONG \in Int /\ MAXLONG \in Int /\ MINLONG < -1 /\ MAXLONG >= 1
      /\ NoThread \notin Threads
      /\ \A o \in Objects : signal[o] \in MINLONG..MAXLONG /\ signal[o] \in Int
  BY LongFacts DEF OwnersOK, TypeOK
<1>2. ASSUME NEW o \in Objects
      PROVE  /\ signal'[o] = IF o \in S /\ Kind[o] = "SynchronizationEvent" THEN 0
                             ELSE IF o \in S /\ Kind[o] \in {"Semaphore", "Mutant"}
                                  THEN signal[o] - 1 ELSE signal[o]
             /\ owner'[o] = IF o \in S /\ Kind[o] = "Mutant" /\ signal[o] = 1 THEN t ELSE owner[o]
  <2>1. signal' = [p \in Objects |->
          CASE p \in S /\ Kind[p] = "SynchronizationEvent" -> 0
            [] p \in S /\ Kind[p] \in {"Semaphore", "Mutant"} -> signal[p] - 1
            [] OTHER -> signal[p]]
    BY DEF KiWaitSatisfy
  <2>2. signal'[o] = CASE o \in S /\ Kind[o] = "SynchronizationEvent" -> 0
                       [] o \in S /\ Kind[o] \in {"Semaphore", "Mutant"} -> signal[o] - 1
                       [] OTHER -> signal[o]
    BY <2>1
  <2>3. o \in Acquired(S) <=> (o \in S /\ Kind[o] = "Mutant" /\ signal[o] = 1)
    BY DEF Acquired, Mutants
  <2> QED BY <2>2, <2>3 DEF KiWaitSatisfy
<1>3. ASSUME NEW o \in Mutants
      PROVE  /\ o \in Objects
             /\ signal'[o] <= 0 <=> owner'[o] # NoThread
             /\ signal'[o] \in MINLONG..1
             /\ owner'[o] # owner[o] => owner[o] = NoThread /\ owner'[o] = t
             /\ o \in S => owner'[o] = t /\ owner[o] \in {t, NoThread}
             /\ signal'[o] > 0 => signal[o] > 0
  <2>1. o \in Objects /\ Kind[o] = "Mutant" /\ signal[o] \in MINLONG..1
        /\ (signal[o] <= 0 <=> owner[o] # NoThread)
    BY <1>1 DEF MutantOwned, Mutants
  <2>2. CASE o \notin S
    BY <1>2, <2>1, <2>2
  <2>3. CASE o \in S /\ signal[o] = 1
    <3>1. signal'[o] = 0 /\ owner'[o] = t
      BY <1>2, <2>1, <2>3
    <3> QED BY <1>1, <2>1, <2>3, <3>1
  <2>4. CASE o \in S /\ signal[o] # 1
    <3>1. signal[o] <= 0
      BY <1>1, <2>1, <2>4
    <3>2. owner[o] = t /\ signal[o] # MINLONG
      BY <2>1, <2>4, <3>1, <1>1 DEF Satisfiable, AtLimit
    <3>3. signal'[o] = signal[o] - 1 /\ owner'[o] = t
      BY <1>2, <2>1, <2>4, <3>2
    <3> QED BY <1>1, <2>1, <3>1, <3>2, <3>3
  <2> QED BY <2>2, <2>3, <2>4
<1>4. ASSUME NEW o \in Semaphores
      PROVE  /\ o \in Objects /\ signal'[o] \in 0..Limit[o]
             /\ o \in S => signal[o] > 0 /\ signal'[o] = signal[o] - 1
             /\ signal'[o] > 0 => signal[o] > 0
  <2>1. o \in Objects /\ Kind[o] = "Semaphore" /\ signal[o] \in 0..Limit[o] /\ o \notin Mutants
        /\ Limit[o] \in 1..MAXLONG
    BY KindFacts DEF TypeOK, Semaphores, Mutants
  <2>2. o \in S => signal[o] > 0
    BY <2>1 DEF Satisfiable
  <2> QED BY <1>1, <1>2, <2>1, <2>2
<1>5. ASSUME NEW o \in Events
      PROVE  /\ o \in Objects /\ signal'[o] \in {0, 1}
             /\ o \in S /\ Kind[o] = "SynchronizationEvent" => signal'[o] = 0
             /\ Kind[o] = "NotificationEvent" => signal'[o] = signal[o]
             /\ signal'[o] > 0 => signal[o] > 0
  <2>1. o \in Objects /\ signal[o] \in {0, 1}
        /\ Kind[o] \in {"NotificationEvent", "SynchronizationEvent"}
    BY DEF TypeOK, Events
  <2> QED BY <1>2, <2>1
<1>6. \A o \in Objects : o \in Mutants \/ o \in Semaphores \/ o \in Events
  BY KindFacts DEF Kinds
<1>7. \A o \in Objects : signal'[o] \in MINLONG..MAXLONG
  <2>1. \A o \in Mutants : signal'[o] \in MINLONG..MAXLONG
    BY <1>1, <1>3
  <2>2. \A o \in Semaphores : signal'[o] \in MINLONG..MAXLONG
    <3>1. ASSUME NEW o \in Semaphores PROVE signal'[o] \in MINLONG..MAXLONG
      BY <1>1, <1>4, KindFacts
    <3> QED BY <3>1
  <2>3. \A o \in Events : signal'[o] \in MINLONG..MAXLONG
    BY <1>1, <1>5
  <2> QED BY <1>6, <2>1, <2>2, <2>3
<1>8. signal' \in [Objects -> MINLONG..MAXLONG]
  BY <1>7 DEF KiWaitSatisfy
<1>9. owner' \in [Objects -> Threads \cup {NoThread}]
  BY DEF KiWaitSatisfy, TypeOK
<1>10. \A o \in Objects \ S : signal'[o] = signal[o] /\ owner'[o] = owner[o]
  BY <1>2
<1>11. ASSUME NEW o \in S
       PROVE  /\ Kind[o] = "Semaphore" => signal[o] > 0 /\ signal'[o] = signal[o] - 1
              /\ Kind[o] = "SynchronizationEvent" => signal'[o] = 0
              /\ Kind[o] = "NotificationEvent" => signal'[o] = signal[o]
              /\ Kind[o] = "Mutant" => owner'[o] = t /\ owner[o] \in {t, NoThread}
  BY <1>3, <1>4, <1>5, KindFacts
<1>12. \A o \in Objects : Kind[o] # "Mutant" => owner'[o] = owner[o]
  BY <1>2
<1>13. \A o \in Objects : signal'[o] > 0 => signal[o] > 0
  BY <1>3, <1>4, <1>5, <1>6
<1>14. /\ \A o \in Mutants : /\ signal'[o] <= 0 <=> owner'[o] # NoThread
                             /\ signal'[o] \in MINLONG..1
                             /\ owner'[o] # owner[o] => owner[o] = NoThread /\ owner'[o] = t
       /\ \A o \in Semaphores : signal'[o] \in 0..Limit[o]
       /\ \A o \in Events : signal'[o] \in {0, 1}
  BY <1>3, <1>4, <1>5
<1> QED BY <1>8, <1>9, <1>10, <1>11, <1>12, <1>13, <1>14

(* What it does to KernelApcDisable and to the abandoned mutants.             *)
LEMMA SatisfyThread ==
  ASSUME TypeOK, OwnersOK, ApcDisableExact, NEW t \in Threads, NEW S \in SUBSET Objects,
         KiWaitSatisfy(S, t)
  PROVE  /\ abandoned' \in [Objects -> BOOLEAN] /\ apcDisable' \in [Threads -> Int]
         /\ ApcDisableExact'
         /\ \A u \in Threads \ {t} : apcDisable'[u] = apcDisable[u]
         /\ apcDisable'[t] = 0 => apcDisable[t] = 0
         /\ AcquiresAbandoned(S) <=> \E o \in Mutants : abandoned[o] /\ ~abandoned'[o]
<1> DEFINE A == Acquired(S) \cap Mutexes
<1>1. /\ owner' = [o \in Objects |-> IF o \in Acquired(S) THEN t ELSE owner[o]]
      /\ abandoned' = [o \in Objects |-> abandoned[o] /\ o \notin Acquired(S)]
      /\ apcDisable' = [apcDisable EXCEPT ![t] = apcDisable[t] - Cardinality(A)]
  BY DEF KiWaitSatisfy
<1>2. /\ Acquired(S) \subseteq Mutants /\ Mutants \subseteq Objects /\ Mutexes \subseteq Objects
      /\ NoThread \notin Threads /\ \A o \in Acquired(S) : owner[o] = NoThread
  <2>1. \A o \in Acquired(S) : o \in Mutants /\ signal[o] = 1
    BY DEF Acquired
  <2>2. \A o \in Mutants : signal[o] = 1 => owner[o] = NoThread
    BY DEF OwnersOK, MutantOwned
  <2> QED BY <2>1, <2>2, KindAssumption DEF Mutants
<1>3. /\ A \subseteq Mutexes /\ IsFiniteSet(A) /\ Cardinality(A) \in Nat
      /\ MutexesOf(t) \subseteq Mutexes
      /\ IsFiniteSet(MutexesOf(t)) /\ Cardinality(MutexesOf(t)) \in Nat
  BY MutexSets DEF MutexesOf
<1>4. MutexesOf(t)' = MutexesOf(t) \cup A /\ MutexesOf(t) \cap A = {}
  BY <1>1, <1>2 DEF MutexesOf
<1>5. \A u \in Threads \ {t} : MutexesOf(u)' = MutexesOf(u)
  BY <1>1, <1>2 DEF MutexesOf
<1> HIDE DEF A
<1>6. Cardinality(MutexesOf(t) \cup A) = Cardinality(MutexesOf(t)) + Cardinality(A)
  <2>1. Cardinality(MutexesOf(t) \cap A) = 0
    BY <1>4, FS_EmptySet
  <2>2. Cardinality(MutexesOf(t) \cup A)
          = Cardinality(MutexesOf(t)) + Cardinality(A) - Cardinality(MutexesOf(t) \cap A)
    BY <1>3, FS_Union
  <2> QED BY <1>3, <2>1, <2>2
<1>7. apcDisable[t] = -Cardinality(MutexesOf(t)) /\ apcDisable \in [Threads -> Int]
  BY DEF TypeOK, ApcDisableExact, MutexesOf
<1>8. /\ apcDisable' \in [Threads -> Int]
      /\ apcDisable'[t] = apcDisable[t] - Cardinality(A)
      /\ \A u \in Threads \ {t} : apcDisable'[u] = apcDisable[u]
  BY <1>1, <1>3, <1>7
<1>9. apcDisable'[t] = -Cardinality(MutexesOf(t)')
  BY <1>3, <1>4, <1>6, <1>7, <1>8
<1>10. \A u \in Threads : apcDisable'[u] = -Cardinality(MutexesOf(u)')
  BY <1>5, <1>8, <1>9 DEF ApcDisableExact, MutexesOf
<1>11. ApcDisableExact'
  BY <1>10 DEF ApcDisableExact, MutexesOf
<1>12. apcDisable'[t] = 0 => apcDisable[t] = 0
  BY <1>3, <1>7, <1>8
<1>13. abandoned' \in [Objects -> BOOLEAN]
  <2>1. \A o \in Objects : (abandoned[o] /\ o \notin Acquired(S)) \in BOOLEAN
    OBVIOUS
  <2> QED BY <1>1, <2>1, Zenon
<1>14. \A o \in Objects : abandoned'[o] <=> (abandoned[o] /\ o \notin Acquired(S))
  BY <1>1, Zenon
<1>15. AcquiresAbandoned(S) <=> \E o \in Mutants : abandoned[o] /\ ~abandoned'[o]
  BY <1>2, <1>14 DEF AcquiresAbandoned
<1> QED BY <1>8, <1>11, <1>12, <1>13, <1>15

(* What a step in which t's wait on S is satisfied keeps.                     *)
LEMMA SatisfyStep ==
  ASSUME Inv, NEW t \in Threads, pc[t] \in {"loop", "wait"}, pc'[t] \in {"run", "ready"},
         \A u \in Threads \ {t} : pc'[u] = pc[u] /\ call'[u] = call[u],
         NEW S \in SUBSET Objects, NEW o \in S,
         IF call[t].type = "WaitAll" THEN S = Objs(t) ELSE S = {o},
         \A p \in S : Satisfiable(t, p) /\ ~AtLimit(t, p), KiWaitSatisfy(S, t),
         result' = [result EXCEPT ![t] = Status(o, AcquiresAbandoned(S))],
         UNCHANGED <<alerted, pending, normalApc, userApc, userPending, scan>>
  PROVE  /\ OwnersOK' /\ StatusOK' /\ ApcDisableExact' /\ ApcNotLost' /\ AlertNotLost'
         /\ signal' \in [Objects -> MINLONG..MAXLONG]
         /\ \A p \in Events : signal'[p] \in {0, 1}
         /\ \A p \in Semaphores : signal'[p] \in 0..Limit[p]
         /\ owner' \in [Objects -> Threads \cup {NoThread}]
         /\ abandoned' \in [Objects -> BOOLEAN] /\ apcDisable' \in [Threads -> Int]
         /\ result' \in [Threads -> [key: Objects \cup Statuses, abandoned: BOOLEAN]]
         /\ LessWaits
         /\ \A u \in Threads \ {t}, p \in Objects : Satisfiable(u, p)' => Satisfiable(u, p)
         /\ \A u \in Threads \ {t}, p \in Mutants : owner'[p] = u => owner[p] = u
         /\ TakesAll /\ TakesNothingElse /\ ReportsAbandoned
<1>1. TypeOK /\ OwnersOK /\ MutantOwned /\ ApcDisableExact /\ NoThread \notin Threads
      /\ Mutants \subseteq Objects /\ Mutexes \subseteq Mutants
  BY LongFacts, KindAssumption DEF Inv, OwnersOK, Mutants
<1>2. /\ signal' \in [Objects -> MINLONG..MAXLONG]
      /\ \A p \in Events : signal'[p] \in {0, 1}
      /\ \A p \in Semaphores : signal'[p] \in 0..Limit[p]
      /\ owner' \in [Objects -> Threads \cup {NoThread}]
  BY <1>1, SatisfyObjects
<1>3. \A p \in Mutants : /\ signal'[p] <= 0 <=> owner'[p] # NoThread
                         /\ signal'[p] \in MINLONG..1
                         /\ owner'[p] # owner[p] => owner[p] = NoThread /\ owner'[p] = t
  BY <1>1, SatisfyObjects
<1>4. /\ \A p \in Objects \ S : signal'[p] = signal[p] /\ owner'[p] = owner[p]
      /\ \A p \in S :
           /\ Kind[p] = "Semaphore" => signal[p] > 0 /\ signal'[p] = signal[p] - 1
           /\ Kind[p] = "SynchronizationEvent" => signal'[p] = 0
           /\ Kind[p] = "Mutant" => owner'[p] = t /\ owner[p] \in {t, NoThread}
      /\ \A p \in Objects : signal'[p] > 0 => signal[p] > 0
  BY <1>1, SatisfyObjects
<1>5. /\ abandoned' \in [Objects -> BOOLEAN] /\ apcDisable' \in [Threads -> Int]
      /\ ApcDisableExact'
      /\ \A u \in Threads \ {t} : apcDisable'[u] = apcDisable[u]
      /\ apcDisable'[t] = 0 => apcDisable[t] = 0
      /\ AcquiresAbandoned(S) <=> \E p \in Mutants : abandoned[p] /\ ~abandoned'[p]
  BY <1>1, SatisfyThread
<1>6. PICK ab \in BOOLEAN : ab = AcquiresAbandoned(S)
  BY DEF AcquiresAbandoned
<1>7. /\ result' \in [Threads -> [key: Objects \cup Statuses, abandoned: BOOLEAN]]
      /\ result'[t].key = o /\ result'[t].abandoned = ab
      /\ \A u \in Threads \ {t} : result'[u] = result[u]
  <2>1. result' = [result EXCEPT ![t] = [key |-> o, abandoned |-> ab]]
    BY <1>6 DEF Status
  <2> QED BY <1>1, <2>1 DEF TypeOK
<1>8. LessWaits
  BY DEF LessWaits
<1>9. \A u \in Threads \ {t}, p \in Mutants : owner'[p] = u => owner[p] = u
  BY <1>3
<1>10. \A u \in Threads \ {t}, p \in Objects : Satisfiable(u, p)' => Satisfiable(u, p)
  BY <1>4, <1>9 DEF Satisfiable
<1>11. OwnersOK'
  <2>1. MutantOwned'
    <3>1. ASSUME NEW p \in Mutants, owner'[p] \in Threads
          PROVE  pc'[owner'[p]] # "dead"
      <4>1. CASE owner'[p] = t
        BY <4>1
      <4>2. CASE owner'[p] # t
        BY <1>1, <1>9, <3>1, <4>2 DEF MutantOwned
      <4> QED BY <4>1, <4>2
    <3> QED BY <1>3, <3>1 DEF MutantOwned
  <2>2. ASSUME NEW u \in Threads, Waiting(u)', NEW p \in Objs(u)'
        PROVE  ~AtLimit(u, p)'
    <3>1. u # t /\ Waiting(u) /\ p \in Objs(u)
      BY <2>2 DEF Waiting, Objs
    <3>2. ~AtLimit(u, p)
      BY <1>1, <3>1 DEF OwnersOK
    <3>3. SUFFICES ASSUME p \in Mutants, owner'[p] = u
                   PROVE  signal'[p] # MINLONG
      BY DEF AtLimit
    <3>4. owner[p] = u /\ signal[p] # MINLONG
      BY <1>9, <3>1, <3>2, <3>3 DEF AtLimit
    <3>5. p \notin S
      <4>1. Kind[p] = "Mutant"
        BY <3>3 DEF Mutants
      <4> QED BY <1>1, <1>4, <3>1, <3>3, <4>1
    <3> QED BY <1>1, <1>4, <3>3, <3>4, <3>5
  <2>3. ASSUME NEW u \in Threads, pc'[u] = "rundown", NEW p \in Mutexes
        PROVE  owner'[p] # u
    <3>1. u # t /\ pc[u] = "rundown" /\ p \in Mutants
      BY <1>1, <2>3
    <3> QED BY <1>1, <1>9, <3>1 DEF OwnersOK
  <2> QED BY <2>1, <2>2, <2>3 DEF OwnersOK
<1>12. StatusOK'
  BY <1>7 DEF Inv, StatusOK
<1>13. ApcNotLost'
  <2>1. ASSUME NEW u \in Threads
        PROVE  /\ normalApc'[u] /\ apcDisable'[u] = 0 /\ pc'[u] # "dead" => pending'[u]
               /\ pc'[u] = "wait" /\ call'[u].irql0 /\ pending'[u] => apcDisable'[u] # 0
    <3>1. CASE u = t
      <4>1. normalApc[t] /\ apcDisable[t] = 0 => pending[t]
        BY DEF Inv, ApcNotLost
      <4> QED BY <1>5, <3>1, <4>1
    <3>2. CASE u # t
      BY <1>5, <3>2 DEF Inv, ApcNotLost
    <3> QED BY <3>1, <3>2
  <2> QED BY <2>1 DEF ApcNotLost
<1>14. AlertNotLost'
  <2>1. ASSUME NEW u \in Threads, pc'[u] = "wait"
        PROVE  ~AlertReady(u)' /\ ~UserApcReady(u)'
    <3>1. u # t /\ pc[u] = "wait" /\ call'[u] = call[u]
      BY <2>1
    <3>2. ~AlertReady(u) /\ ~UserApcReady(u)
      BY <3>1 DEF Inv, AlertNotLost
    <3> QED BY <3>1, <3>2 DEF AlertReady, UserApcReady
  <2> QED BY <2>1 DEF AlertNotLost
<1>15. /\ \A u \in Threads : Completes(u) => u = t
       /\ Completes(t) /\ TakenBy(t) = S
  <2>1. result[t].key \notin Objects /\ o \in Objects
    BY DEF Inv, StatusOK
  <2>2. result'[t] # result[t]
    BY <1>7, <2>1
  <2>3. \A u \in Threads : Completes(u) => u = t
    BY <1>7 DEF Completes
  <2> QED BY <1>7, <2>1, <2>2, <2>3 DEF Completes, TakenBy
<1>16. TakesAll
  BY <1>4, <1>15 DEF TakesAll
<1>17. TakesNothingElse
  <2>1. ASSUME NEW p \in Objects, p \notin S
        PROVE  ~(signal'[p] < signal[p]) /\ owner'[p] = owner[p]
    BY <1>1, <1>4, <2>1 DEF TypeOK
  <2> QED BY <1>15, <2>1 DEF TakesNothingElse
<1>18. ReportsAbandoned
  BY <1>5, <1>6, <1>7, <1>15 DEF ReportsAbandoned
<1> QED BY <1>2, <1>5, <1>7, <1>8, <1>9, <1>10, <1>11, <1>12, <1>13, <1>14, <1>16, <1>17, <1>18

(* The objects that satisfy a wait at once: none, if it is not over; else all *)
(* of a WaitAll, and one of a WaitAny.                                        *)
LEMMA ReadyFacts ==
  ASSUME TypeOK, NEW t \in Threads
  PROVE  /\ Ready(t) \subseteq Objs(t) /\ \A o \in Ready(t) : Satisfiable(t, o)
         /\ Ready(t) = {} => ~WaitOver(t)
         /\ Ready(t) # {} /\ call[t].type = "WaitAll" => Ready(t) = Objs(t)
         /\ call[t].type # "WaitAll" => \A o, p \in Ready(t) : o = p
<1>1. /\ Len(call[t].objs) \in Nat /\ (Objs(t) = {} => call[t].type = "WaitAny")
  BY WaitFacts
<1>2. CASE call[t].type = "WaitAll"
  <2>1. Ready(t) = IF \A o \in Objs(t) : Satisfiable(t, o) THEN Objs(t) ELSE {}
    BY <1>2 DEF Ready
  <2>2. Objs(t) # {}
    BY <1>1, <1>2
  <2> QED BY <1>2, <2>1, <2>2 DEF WaitOver
<1>3. CASE call[t].type # "WaitAll"
  <2> DEFINE objs == call[t].objs
             K == {k \in 1..Len(objs) : Satisfiable(t, objs[k])}
             First(k) == /\ k \in 1..Len(objs) /\ Satisfiable(t, objs[k])
                         /\ \A j \in 1..(k - 1) : ~Satisfiable(t, objs[j])
  <2>1. \A o : o \in Ready(t) <=> \E k \in 1..Len(objs) : First(k) /\ o = objs[k]
    BY <1>3 DEF Ready
  <2>2. \A o : o \in Objs(t) <=> \E k \in 1..Len(objs) : o = objs[k]
    BY DEF Objs
  <2>3. Ready(t) \subseteq Objs(t) /\ \A o \in Ready(t) : Satisfiable(t, o)
    BY <2>1, <2>2
  <2>4. \A k, l \in 1..Len(objs) : First(k) /\ First(l) => k = l
    <3>1. ASSUME NEW k \in 1..Len(objs), NEW l \in 1..Len(objs), First(k), First(l)
          PROVE  ~(k < l)
      <4>1. k < l => k \in 1..(l - 1)
        BY <1>1
      <4> QED BY <3>1, <4>1
    <3> QED BY <1>1, <3>1
  <2>5. \A o, p \in Ready(t) : o = p
    BY <2>1, <2>4
  <2>6. WaitOver(t) => Ready(t) # {}
    <3>1. SUFFICES ASSUME WaitOver(t) PROVE Ready(t) # {}
      OBVIOUS
    <3>2. PICK k \in 1..Len(objs) : Satisfiable(t, objs[k])
      BY <1>3, <2>2, <3>1 DEF WaitOver
    <3>3. K # {} /\ K \in SUBSET Nat
      BY <1>1, <3>2
    <3>4. PICK n \in K : \A m \in K : n <= m
      BY <3>3, LeastNatural
    <3>5. ASSUME NEW j \in 1..(n - 1)
          PROVE  ~Satisfiable(t, objs[j])
      <4>1. j \in 1..Len(objs) /\ ~(n <= j)
        BY <1>1, <3>4
      <4> QED BY <3>4, <4>1
    <3>6. First(n) /\ n \in 1..Len(objs)
      BY <3>4, <3>5
    <3> QED BY <2>1, <3>6
  <2> QED BY <1>3, <2>3, <2>5, <2>6
<1> QED BY <1>2, <1>3

(* A wait that is satisfied at once keeps the invariant.                      *)
LEMMA SatisfiedOK ==
  ASSUME Inv, NEW t \in Threads, KeWaitSatisfied(t)
  PROVE  StepOK
<1>1. /\ TypeOK /\ pc[t] = "loop" /\ ~Raises(t) /\ Ready(t) # {}
      /\ KiWaitSatisfy(Ready(t), t)
      /\ UNCHANGED <<waitList, timer, alerted, pending, normalApc, userApc, userPending, scan>>
  BY DEF KeWaitSatisfied, apcVars, Inv
<1>2. PICK o \in Ready(t) : Return(t, Status(o, AcquiresAbandoned(Ready(t))))
  BY DEF KeWaitSatisfied
<1>3. /\ pc' = [pc EXCEPT ![t] = "run"]
      /\ call' = [call EXCEPT ![t] = NoCall]
      /\ result' = [result EXCEPT ![t] = Status(o, AcquiresAbandoned(Ready(t)))]
  BY <1>2 DEF Return
<1>4. /\ pc'[t] = "run" /\ \A u \in Threads \ {t} : pc'[u] = pc[u] /\ call'[u] = call[u]
  BY <1>1, <1>3 DEF TypeOK
<1>5. /\ Ready(t) \subseteq Objs(t) /\ Objs(t) \subseteq Objects
      /\ \A p \in Ready(t) : Satisfiable(t, p)
      /\ call[t].type = "WaitAll" => Ready(t) = Objs(t)
      /\ call[t].type # "WaitAll" => Ready(t) = {o}
  BY <1>1, ReadyFacts, WaitFacts
<1>6. \A p \in Ready(t) : ~AtLimit(t, p)
  BY <1>1, <1>5 DEF Raises
<1>7. scan.obj = NoObject /\ Holding(t)
  BY <1>1, LoopFacts DEF Inv
<1>8. PICK S \in SUBSET Objects : S = Ready(t)
  BY <1>5
<1>9. /\ OwnersOK' /\ StatusOK' /\ ApcDisableExact' /\ ApcNotLost' /\ AlertNotLost'
      /\ signal' \in [Objects -> MINLONG..MAXLONG]
      /\ \A p \in Events : signal'[p] \in {0, 1}
      /\ \A p \in Semaphores : signal'[p] \in 0..Limit[p]
      /\ owner' \in [Objects -> Threads \cup {NoThread}]
      /\ abandoned' \in [Objects -> BOOLEAN] /\ apcDisable' \in [Threads -> Int]
      /\ result' \in [Threads -> [key: Objects \cup Statuses, abandoned: BOOLEAN]]
      /\ LessWaits
      /\ \A u \in Threads \ {t}, p \in Objects : Satisfiable(u, p)' => Satisfiable(u, p)
      /\ TakesAll /\ TakesNothingElse /\ ReportsAbandoned
  <2>1. o \in S /\ IF call[t].type = "WaitAll" THEN S = Objs(t) ELSE S = {o}
    BY <1>5, <1>8
  <2>2. /\ KiWaitSatisfy(S, t) /\ \A p \in S : Satisfiable(t, p) /\ ~AtLimit(t, p)
        /\ result' = [result EXCEPT ![t] = Status(o, AcquiresAbandoned(S))]
    BY <1>1, <1>3, <1>5, <1>6, <1>8
  <2> QED BY <1>1, <1>4, <2>1, <2>2, SatisfyStep
<1>10. NoneOver' /\ ScanOwner'
  <2>1. ASSUME NEW u \in Threads, Waiting(u)', NEW p \in Objs(u), Satisfiable(u, p)'
        PROVE  Satisfiable(u, p)
    <3>1. u # t /\ p \in Objects
      BY <1>1, <1>4, <2>1, WaitFacts DEF Waiting
    <3> QED BY <1>9, <2>1, <3>1
  <2> QED BY <1>1, <1>7, <1>9, <2>1, KeepNone DEF Inv
<1>11. BlocksOK'
  <2>1. SameWaits
    BY <1>1, <1>4 DEF SameWaits
  <2> QED BY <1>1, <2>1, KeepBlocks DEF Inv
<1>12. LockOK'
  <2>1. \A u \in Threads : ~Holding(u)'
    BY <1>4, <1>7 DEF Inv, LockOK, Holding
  <2> QED BY <1>1, <1>7, <2>1 DEF LockOK
<1>13. TypeOK'
  BY <1>1, <1>3, <1>9 DEF TypeOK
<1> QED BY <1>9, <1>10, <1>11, <1>12, <1>13 DEF StepOK, Inv

(* Beginning to wait keeps the invariant: the wait is not over, and nothing   *)
(* that should end it is pending.                                             *)
LEMMA BlockOK ==
  ASSUME Inv, NEW t \in Threads, KeWaitBlock(t)
  PROVE  StepOK
<1>1. /\ TypeOK /\ pc[t] = "loop" /\ ~MustRetry(t) /\ ~Raises(t) /\ Ready(t) = {}
      /\ ~AlertReady(t) /\ ~UserApcReady(t)
      /\ waitList' = [o \in Objects |-> IF o \in Objs(t) THEN Append(waitList[o], t)
                                       ELSE waitList[o]]
      /\ pc' = [pc EXCEPT ![t] = "wait"]
      /\ result' = [result EXCEPT ![t] = NoStatus]
      /\ UNCHANGED <<signal, owner, abandoned, call, apcDisable, alerted, pending, normalApc,
                     userApc, userPending, scan>>
  BY DEF KeWaitBlock, NotReady, apcVars, Inv, InsertTailList
<1>2. timer' \in [Threads -> BOOLEAN] /\ \A u \in Threads \ {t} : timer'[u] = timer[u]
  <2>1. PICK b \in BOOLEAN : b = (call[t].timeout = "time")
    OBVIOUS
  <2>2. timer' = [timer EXCEPT ![t] = b]
    BY <2>1 DEF KeWaitBlock
  <2> QED BY <1>1, <2>2 DEF TypeOK
<1>3. pc'[t] = "wait" /\ \A u \in Threads \ {t} : pc'[u] = pc[u]
  BY <1>1 DEF TypeOK
<1>4. /\ NoStatus.key \notin Objects
      /\ NoStatus \in [key: Objects \cup Statuses, abandoned: BOOLEAN]
  BY StatusFacts DEF NoStatus, Statuses
<1>5. /\ result'[t] = NoStatus /\ \A u \in Threads \ {t} : result'[u] = result[u]
      /\ result' \in [Threads -> [key: Objects \cup Statuses, abandoned: BOOLEAN]]
  BY <1>1, <1>4 DEF TypeOK
<1>6. scan.obj = NoObject /\ Holding(t)
  BY <1>1, LoopFacts DEF Inv
<1>7. \A u \in Threads : Objs(u)' = Objs(u) /\ Objs(u) \subseteq Objects
  <2>1. \A u \in Threads : Objs(u)' = Objs(u)
    BY <1>1 DEF Objs
  <2> QED BY <1>1, <2>1, WaitFacts
<1>8. ~WaitOver(t)
  BY <1>1, ReadyFacts
<1>9. ASSUME NEW o \in Objects
      PROVE  /\ waitList'[o] \in Seq(Threads) /\ Once(waitList'[o])
             /\ Items(waitList'[o]) = IF o \in Objs(t) THEN Items(waitList[o]) \cup {t}
                                      ELSE Items(waitList[o])
  <2>1. waitList[o] \in Seq(Threads) /\ Once(waitList[o]) /\ t \notin Items(waitList[o])
    BY <1>1 DEF Inv, TypeOK, BlocksOK, Waiting
  <2>2. waitList'[o] = IF o \in Objs(t) THEN Append(waitList[o], t) ELSE waitList[o]
    BY <1>1
  <2>3. CASE o \in Objs(t)
    <3>1. Append(waitList[o], t) \in Seq(Threads) /\ Once(Append(waitList[o], t))
          /\ Items(Append(waitList[o], t)) = Items(waitList[o]) \cup {t}
      BY <2>1, AppendItems
    <3> QED BY <2>2, <2>3, <3>1
  <2>4. CASE o \notin Objs(t)
    BY <2>1, <2>2, <2>4
  <2> QED BY <2>3, <2>4
<1>10. waitList' \in [Objects -> Seq(Threads)]
  BY <1>1, <1>9
<1>11. BlocksOK'
  <2>1. ASSUME NEW o \in Objects, NEW u \in Threads
        PROVE  u \in Items(waitList'[o]) <=> (Waiting(u)' /\ o \in Objs(u)')
    <3>1. u \in Items(waitList[o]) <=> (Waiting(u) /\ o \in Objs(u))
      BY DEF Inv, BlocksOK
    <3>2. CASE u = t
      BY <1>1, <1>3, <1>7, <1>9, <3>1, <3>2 DEF Waiting
    <3>3. CASE u # t
      BY <1>3, <1>7, <1>9, <3>1, <3>3 DEF Waiting
    <3> QED BY <3>2, <3>3
  <2>2. \A u \in Threads : timer'[u] => Waiting(u)'
    BY <1>2, <1>3 DEF Inv, BlocksOK, Waiting
  <2> QED BY <1>9, <2>1, <2>2 DEF BlocksOK
<1>12. OwnersOK'
  <2>1. MutantOwned'
    BY <1>1, <1>3 DEF Inv, OwnersOK, MutantOwned
  <2>2. ASSUME NEW u \in Threads, Waiting(u)', NEW o \in Objs(u)'
        PROVE  ~AtLimit(u, o)'
    <3>1. ~AtLimit(u, o)
      <4>1. CASE u = t
        <5>1. o \in Objs(t)
          BY <1>7, <2>2, <4>1
        <5>2. CASE call[t].type = "WaitAll"
          BY <1>1, <4>1, <5>1, <5>2 DEF Raises
        <5>3. CASE call[t].type # "WaitAll"
          BY <1>8, <4>1, <5>1, <5>3 DEF WaitOver, Satisfiable, AtLimit
        <5> QED BY <5>2, <5>3
      <4>2. CASE u # t
        BY <1>3, <1>7, <2>2, <4>2 DEF Inv, OwnersOK, Waiting
      <4> QED BY <4>1, <4>2
    <3> QED BY <1>1, <3>1 DEF AtLimit
  <2>3. \A u \in Threads : pc'[u] = "rundown" => \A o \in Mutexes : owner'[o] # u
    BY <1>1, <1>3 DEF Inv, OwnersOK
  <2> QED BY <2>1, <2>2, <2>3 DEF OwnersOK
<1>13. StatusOK'
  <2>1. ASSUME NEW u \in Threads, pc'[u] \in {"loop", "retry", "wait"}
        PROVE  result'[u].key \notin Objects
    BY <1>3, <1>4, <1>5, <2>1 DEF Inv, StatusOK
  <2> QED BY <2>1 DEF StatusOK
<1>14. NoneOver'
  <2>1. ASSUME NEW u \in Threads, Waiting(u)'
        PROVE  NotOver(u)'
    <3>1. NoObject \notin Objs(u)
      BY <1>7, LongFacts
    <3>2. ~WaitOver(u)
      <4>1. CASE u = t
        BY <1>8, <4>1
      <4>2. CASE u # t
        <5>1. NotOver(u)
          BY <1>3, <2>1, <4>2 DEF Inv, NoneOver, Waiting
        <5> QED BY <1>6, <3>1, <5>1 DEF NotOver, Unreached, WaitOver
      <4> QED BY <4>1, <4>2
    <3>3. \A p : Satisfiable(u, p)' <=> Satisfiable(u, p)
      BY <1>1 DEF Satisfiable
    <3> QED BY <1>1, <1>6, <1>7, <3>1, <3>2, <3>3 DEF NotOver, WaitOver
  <2> QED BY <2>1 DEF NoneOver
<1>15. ScanOwner'
  BY <1>1, <1>6, LongFacts DEF ScanOwner, Mutants
<1>16. ApcDisableExact'
  BY <1>1 DEF Inv, ApcDisableExact
<1>17. ApcNotLost'
  <2>1. ASSUME NEW u \in Threads
        PROVE  /\ normalApc'[u] /\ apcDisable'[u] = 0 /\ pc'[u] # "dead" => pending'[u]
               /\ pc'[u] = "wait" /\ call'[u].irql0 /\ pending'[u] => apcDisable'[u] # 0
    <3>1. CASE u = t
      BY <1>1, <3>1 DEF Inv, ApcNotLost, MustRetry
    <3>2. CASE u # t
      BY <1>1, <1>3, <3>2 DEF Inv, ApcNotLost
    <3> QED BY <3>1, <3>2
  <2> QED BY <2>1 DEF ApcNotLost
<1>18. AlertNotLost'
  <2>1. ASSUME NEW u \in Threads, pc'[u] = "wait"
        PROVE  ~AlertReady(u)' /\ ~UserApcReady(u)'
    <3>1. ~AlertReady(u) /\ ~UserApcReady(u)
      BY <1>1, <1>3, <2>1 DEF Inv, AlertNotLost
    <3> QED BY <1>1, <3>1 DEF AlertReady, UserApcReady
  <2> QED BY <2>1 DEF AlertNotLost
<1>19. LockOK'
  <2>1. \A u \in Threads : ~Holding(u)'
    BY <1>3, <1>6 DEF Inv, LockOK, Holding
  <2> QED BY <1>1, <1>6, <2>1 DEF LockOK
<1>20. TypeOK'
  BY <1>1, <1>2, <1>5, <1>10 DEF TypeOK
<1>21. TakesAll /\ TakesNothingElse /\ ReportsAbandoned
  <2>1. \A o \in Objects : ~(signal[o] < signal[o])
    BY <1>1 DEF TypeOK
  <2>2. \A u \in Threads : result'[u] # result[u] => result'[u].key \notin Objects
    BY <1>4, <1>5
  <2> QED BY <1>1, <2>1, <2>2, QuietStep
<1> QED BY <1>11, <1>12, <1>13, <1>14, <1>15, <1>16, <1>17, <1>18, <1>19, <1>20, <1>21
        DEF StepOK, Inv

-----------------------------------------------------------------------------
(* The scan of a wait list.                                                   *)

(* The wait block that a scan looks at.                                       *)
LEMMA ScanFacts ==
  ASSUME Inv, scan.obj # NoObject, ScanGoesOn,
         NEW o, o = scan.obj, NEW t, t = waitList[o][scan.pos]
  PROVE  /\ o \in Objects /\ signal[o] > 0 /\ scan.pos \in 1..Len(waitList[o])
         /\ waitList[o] \in Seq(Threads) /\ Once(waitList[o]) /\ scan.pos \in Nat
         /\ t \in Threads /\ Waiting(t) /\ o \in Objs(t) /\ Objs(t) \subseteq Objects
         /\ call[t].type \in {"WaitAny", "WaitAll"}
<1>1. TypeOK /\ BlocksOK
  BY DEF Inv
<1>2. /\ o \in Objects /\ scan.pos \in Nat \ {0} /\ waitList[o] \in Seq(Threads)
      /\ signal[o] > 0 /\ scan.pos <= Len(waitList[o])
  BY <1>1 DEF TypeOK, ScanGoesOn
<1>3. Len(waitList[o]) \in Nat /\ scan.pos \in 1..Len(waitList[o])
  BY <1>2, LenProperties
<1>4. t \in Threads /\ t \in Items(waitList[o])
  BY <1>2, <1>3, ElementOfSeq DEF Items
<1>5. Waiting(t) /\ o \in Objs(t) /\ Once(waitList[o])
  BY <1>1, <1>2, <1>4 DEF BlocksOK
<1> QED BY <1>1, <1>2, <1>3, <1>4, <1>5, WaitFacts

(* A scan that satisfies a wait keeps the invariant.                          *)
LEMMA ScanSatisfiesOK ==
  ASSUME Inv, scan.obj # NoObject, ScanGoesOn,
         NEW o, o = scan.obj, NEW t, t = waitList[o][scan.pos],
         NEW S, S = IF call[t].type = "WaitAny" THEN {o} ELSE Objs(t),
         CanSatisfy(t, o), KiWaitSatisfy(S, t),
         KiUnwaitThread(pc, t, o, AcquiresAbandoned(S)),
         UNCHANGED <<call, alerted, pending, normalApc, userApc, userPending, scan>>
  PROVE  StepOK
<1>1. /\ o \in Objects /\ signal[o] > 0 /\ scan.pos \in 1..Len(waitList[o])
      /\ waitList[o] \in Seq(Threads) /\ Once(waitList[o])
      /\ t \in Threads /\ Waiting(t) /\ o \in Objs(t) /\ Objs(t) \subseteq Objects
      /\ call[t].type \in {"WaitAny", "WaitAll"} /\ TypeOK
  BY ScanFacts DEF Inv
<1>2. /\ waitList' = [p \in Objects |-> RemoveEntryList(waitList[p], t)]
      /\ timer' = [timer EXCEPT ![t] = FALSE]
      /\ pc' = [pc EXCEPT ![t] = "ready"]
      /\ result' = [result EXCEPT ![t] = Status(o, AcquiresAbandoned(S))]
  BY DEF KiUnwaitThread
<1>3. pc'[t] = "ready" /\ pc[t] = "wait" /\ \A u \in Threads \ {t} : pc'[u] = pc[u]
  BY <1>1, <1>2 DEF TypeOK, Waiting
<1>4. /\ S \in SUBSET Objects /\ o \in S /\ S \subseteq Objs(t)
      /\ IF call[t].type = "WaitAll" THEN S = Objs(t) ELSE S = {o}
  BY <1>1
<1>5. \A p \in S : Satisfiable(t, p) /\ ~AtLimit(t, p)
  <2>1. Satisfiable(t, o)
    BY <1>1 DEF Satisfiable
  <2>2. \A p \in S : Satisfiable(t, p)
    BY <1>1, <2>1 DEF CanSatisfy
  <2>3. \A p \in Objs(t) : ~AtLimit(t, p)
    BY <1>1 DEF Inv, OwnersOK
  <2> QED BY <1>4, <2>2, <2>3
<1>6. /\ OwnersOK' /\ StatusOK' /\ ApcDisableExact' /\ ApcNotLost' /\ AlertNotLost'
      /\ signal' \in [Objects -> MINLONG..MAXLONG]
      /\ \A p \in Events : signal'[p] \in {0, 1}
      /\ \A p \in Semaphores : signal'[p] \in 0..Limit[p]
      /\ owner' \in [Objects -> Threads \cup {NoThread}]
      /\ abandoned' \in [Objects -> BOOLEAN] /\ apcDisable' \in [Threads -> Int]
      /\ result' \in [Threads -> [key: Objects \cup Statuses, abandoned: BOOLEAN]]
      /\ \A u \in Threads \ {t}, p \in Objects : Satisfiable(u, p)' => Satisfiable(u, p)
      /\ \A u \in Threads \ {t}, p \in Mutants : owner'[p] = u => owner[p] = u
      /\ TakesAll /\ TakesNothingElse /\ ReportsAbandoned
  BY <1>1, <1>2, <1>3, <1>4, <1>5, SatisfyStep
<1>7. /\ BlocksOK' /\ waitList' \in [Objects -> Seq(Threads)] /\ timer' \in [Threads -> BOOLEAN]
  BY <1>1, <1>2, <1>3, UnwaitBlocks DEF Inv
<1>8. TypeOK'
  BY <1>1, <1>2, <1>6, <1>7 DEF TypeOK
<1>9. \A u \in Threads : Waiting(u)' => Waiting(u) /\ u # t
  BY <1>3 DEF Waiting
<1>10. \A u \in Threads : Objs(u)' = Objs(u) /\ Objs(u) \subseteq Objects
  <2>1. \A u \in Threads : Objs(u)' = Objs(u)
    BY DEF Objs
  <2> QED BY <1>1, <2>1, WaitFacts
<1>11. NoneOver'
  <2>1. ASSUME NEW u \in Threads, Waiting(u)'
        PROVE  NotOver(u)'
    <3>1. NotOver(u) /\ u # t
      BY <1>9, <2>1 DEF Inv, NoneOver
    <3>2. \A p \in Objs(u) : Satisfiable(u, p)' => Satisfiable(u, p)
      BY <1>6, <1>10, <3>1
    <3>3. Unreached(u) => Unreached(u)'
      <4>1. SUFFICES ASSUME Unreached(u)
                     PROVE  u \in Rest(waitList'[o], scan.pos)
        BY <1>10 DEF Unreached
      <4>2. u \in Rest(waitList[o], scan.pos)
        BY <4>1 DEF Unreached
      <4>3. u \in Rest(RemoveEntryList(waitList[o], waitList[o][scan.pos]), scan.pos)
        BY <1>1, <3>1, <4>2, RemoveEntryRest
      <4> QED BY <1>1, <1>2, <4>3
    <3>4. CASE call[u].type = "WaitAll"
      BY <1>10, <3>1, <3>2, <3>3, <3>4 DEF NotOver
    <3>5. CASE call[u].type # "WaitAll"
      BY <1>10, <3>1, <3>2, <3>3, <3>5 DEF NotOver
    <3> QED BY <3>4, <3>5
  <2> QED BY <2>1 DEF NoneOver
<1>12. ScanOwner'
  BY <1>6, <1>9, <1>10 DEF Inv, ScanOwner
<1>13. LockOK'
  <2>1. \A u \in Threads : Holding(u)' <=> Holding(u)
    BY <1>3 DEF Holding
  <2>2. scan.by \in Threads /\ pc[scan.by] \in {"run", "rundown"} => pc'[scan.by] = pc[scan.by]
    BY <1>3
  <2> QED BY <2>1, <2>2 DEF Inv, LockOK
<1> QED BY <1>6, <1>7, <1>8, <1>11, <1>12, <1>13 DEF StepOK, Inv

(* A scan that passes a wait block keeps the invariant: another object of the *)
(* wait is missing.                                                           *)
LEMMA ScanPassesOK ==
  ASSUME Inv, scan.obj # NoObject, ScanGoesOn,
         NEW o, o = scan.obj, NEW t, t = waitList[o][scan.pos], ~CanSatisfy(t, o),
         scan' = [scan EXCEPT !.pos = @ + 1],
         UNCHANGED <<signal, waitList, owner, abandoned, pc, call, result, timer, apcDisable,
                     alerted, pending, normalApc, userApc, userPending>>
  PROVE  StepOK
<1>1. /\ o \in Objects /\ scan.pos \in 1..Len(waitList[o]) /\ scan.pos \in Nat
      /\ waitList[o] \in Seq(Threads)
      /\ t \in Threads /\ Waiting(t) /\ o \in Objs(t)
      /\ call[t].type \in {"WaitAny", "WaitAll"} /\ TypeOK
  BY ScanFacts DEF Inv
<1>2. /\ scan' \in [obj: Objects \cup {NoObject}, pos: Nat \ {0},
                    by: Threads \cup {NoThread}, then: {"unlock", "pulse", "rundown"}]
      /\ scan'.obj = scan.obj /\ scan'.pos = scan.pos + 1
      /\ scan'.by = scan.by /\ scan'.then = scan.then
  <2>1. scan \in [obj: Objects \cup {NoObject}, pos: Nat \ {0},
                  by: Threads \cup {NoThread}, then: {"unlock", "pulse", "rundown"}]
    BY <1>1 DEF TypeOK
  <2>2. PICK n \in Nat \ {0} : n = scan.pos + 1
    BY <1>1
  <2>3. scan' = [scan EXCEPT !.pos = n]
    BY <2>2
  <2> QED BY <2>1, <2>2, <2>3
<1>3. TypeOK'
  BY <1>1, <1>2 DEF TypeOK
<1>4. SameWaits
  BY DEF SameWaits
<1>5. BlocksOK'
  BY <1>4, KeepBlocks DEF Inv
<1>6. LockOK'
  BY <1>2 DEF Inv, LockOK, Holding
<1>7. OwnersOK'
  BY KeepOwners DEF Inv, LessWaits
<1>8. StatusOK' /\ ApcDisableExact' /\ ApcNotLost'
  BY DEF Inv, StatusOK, ApcDisableExact, ApcNotLost
<1>9. AlertNotLost'
  BY DEF Inv, AlertNotLost, AlertReady, UserApcReady
<1>10. ScanOwner'
  BY <1>2 DEF Inv, ScanOwner, Waiting, Objs
<1>11. \A u \in Threads : Objs(u)' = Objs(u) /\ (Waiting(u)' <=> Waiting(u))
  BY DEF Objs, Waiting
<1>12. \A u, p : Satisfiable(u, p)' <=> Satisfiable(u, p)
  BY DEF Satisfiable
<1>13. NoneOver'
  <2>1. ASSUME NEW u \in Threads, Waiting(u)
        PROVE  NotOver(u)'
    <3>1. NotOver(u)
      BY <2>1 DEF Inv, NoneOver
    <3>2. CASE u = t
      <4>1. call[t].type = "WaitAll" /\ \E p \in Objs(t) : p # o /\ ~Satisfiable(t, p)
        BY <1>1 DEF CanSatisfy
      <4> QED BY <1>2, <1>11, <1>12, <3>2, <4>1 DEF NotOver
    <3>3. CASE u # t
      <4>1. Unreached(u) => Unreached(u)'
        <5>1. SUFFICES ASSUME Unreached(u)
                       PROVE  u \in Rest(waitList[o], scan.pos + 1)
          BY <1>2, <1>11 DEF Unreached
        <5>2. u \in Rest(waitList[o], scan.pos)
          BY <5>1 DEF Unreached
        <5> QED BY <1>1, <3>3, <5>2, RestFacts
      <4>2. CASE call[u].type = "WaitAll"
        BY <1>2, <1>11, <1>12, <3>1, <4>1, <4>2 DEF NotOver
      <4>3. CASE call[u].type # "WaitAll"
        BY <1>2, <1>11, <1>12, <3>1, <4>1, <4>3 DEF NotOver
      <4> QED BY <4>2, <4>3
    <3> QED BY <3>2, <3>3
  <2> QED BY <1>11, <2>1 DEF NoneOver
<1>14. TakesAll /\ TakesNothingElse /\ ReportsAbandoned
  <2>1. \A p \in Objects : ~(signal[p] < signal[p])
    BY <1>1 DEF TypeOK
  <2> QED BY <2>1, QuietStep
<1> QED BY <1>3, <1>5, <1>6, <1>7, <1>8, <1>9, <1>10, <1>13, <1>14 DEF StepOK, Inv

(* KiWaitTestStep keeps the invariant.                                        *)
LEMMA ScanStepOK ==
  ASSUME Inv, KiWaitTestStep
  PROVE  StepOK
<1>1. PICK o, t : o = scan.obj /\ t = waitList[o][scan.pos]
  OBVIOUS
<1>2. PICK S : S = IF call[t].type = "WaitAny" THEN {o} ELSE Objs(t)
  OBVIOUS
<1>3. /\ scan.obj # NoObject /\ ScanGoesOn
      /\ UNCHANGED <<call, alerted, pending, normalApc, userApc, userPending>>
      /\ \/ /\ CanSatisfy(t, o) /\ KiWaitSatisfy(S, t)
            /\ KiUnwaitThread(pc, t, o, AcquiresAbandoned(S)) /\ scan' = scan
         \/ /\ ~CanSatisfy(t, o) /\ scan' = [scan EXCEPT !.pos = @ + 1]
            /\ UNCHANGED <<signal, waitList, owner, abandoned, apcDisable, pc, result, timer>>
  BY <1>1, <1>2, Zenon DEF KiWaitTestStep, objectVars, apcVars
<1>4. CASE CanSatisfy(t, o)
  BY <1>1, <1>2, <1>3, <1>4, ScanSatisfiesOK
<1>5. CASE ~CanSatisfy(t, o)
  BY <1>1, <1>3, <1>5, ScanPassesOK
<1> QED BY <1>4, <1>5

(* KiWaitTestEnd keeps the invariant: the scan has seen every wait, or the    *)
(* object is gone.                                                            *)
LEMMA ScanEndOK ==
  ASSUME Inv, KiWaitTestEnd
  PROVE  StepOK
<1>1. /\ TypeOK /\ LockOK /\ scan.obj # NoObject /\ ~ScanGoesOn
      /\ pc' = IF scan.then = "rundown" THEN pc ELSE KeepLock(scan.by)
      /\ signal' = [signal EXCEPT ![scan.obj] = IF scan.then = "pulse" THEN 0 ELSE @]
      /\ scan' = NoScan
      /\ UNCHANGED <<waitList, owner, abandoned, call, result, timer, apcDisable, alerted,
                     pending, normalApc, userApc, userPending>>
  BY DEF KiWaitTestEnd, Inv, apcVars
<1>2. PICK o \in Objects : o = scan.obj
  BY <1>1 DEF TypeOK
<1>3. /\ scan.by \in Threads \cup {NoThread} /\ scan.pos \in Nat
      /\ waitList[o] \in Seq(Threads) /\ Len(waitList[o]) \in Nat
  BY <1>1, LenProperties DEF TypeOK
<1>4. scan'.obj = NoObject
  BY <1>1 DEF NoScan
<1>5. /\ pc' \in [Threads -> {"run", "next", "loop", "retry", "wait", "ready", "rundown", "dead"}]
      /\ \A u \in Threads : pc'[u] = IF scan.then # "rundown" /\ u = scan.by
                                     THEN "next" ELSE pc[u]
      /\ scan.then # "rundown" /\ scan.by \in Threads => pc[scan.by] = "run"
  <2>1. scan.then # "rundown" /\ scan.by \in Threads => pc[scan.by] = "run"
    BY <1>1 DEF LockOK
  <2>2. CASE scan.then = "rundown"
    BY <1>1, <2>2 DEF TypeOK
  <2>3. CASE scan.then # "rundown"
    BY <1>1, <1>3, <2>1, <2>3, KeepLockFacts
  <2> QED BY <2>2, <2>3
<1>6. \A u \in Threads : pc'[u] = pc[u] \/ (pc[u] = "run" /\ pc'[u] = "next")
  BY <1>5
<1>7. LockOK'
  <2>1. \A u, w \in Threads : Holding(u)' /\ Holding(w)' => u = w
    BY <1>1, <1>5 DEF LockOK, Holding
  <2> QED BY <1>4, <2>1 DEF LockOK
<1>8. SameWaits /\ LessWaits
  BY <1>1, <1>6 DEF SameWaits, LessWaits
<1>9. BlocksOK'
  BY <1>1, <1>8, KeepBlocks DEF Inv
<1>10. /\ \A p \in Objects : signal'[p] = signal[p] \/ (p = o /\ o \in Events /\ signal'[p] = 0)
       /\ signal' \in [Objects -> MINLONG..MAXLONG]
  <2>1. 0 \in MINLONG..MAXLONG
    BY LongFacts
  <2>2. scan.then = "pulse" => o \in Events
    BY <1>1, <1>2 DEF LockOK
  <2> QED BY <1>1, <1>2, <2>1, <2>2 DEF TypeOK
<1>11. \A p \in Mutants : signal'[p] = signal[p] /\ owner'[p] = owner[p]
  BY <1>1, <1>10 DEF Mutants, Events
<1>12. OwnersOK'
  BY <1>6, <1>8, <1>11, KeepOwners DEF Inv
<1>13. NoneOver'
  <2>1. ASSUME NEW u \in Threads, Waiting(u)'
        PROVE  NotOver(u)'
    <3>1. Waiting(u) /\ NotOver(u) /\ Objs(u)' = Objs(u) /\ Objs(u) \subseteq Objects
      BY <1>1, <1>8, <2>1, WaitFacts DEF Inv, NoneOver, LessWaits, Waiting, Objs
    <3>2. \A p \in Objs(u) : Satisfiable(u, p)' => Satisfiable(u, p)
      BY <1>1, <1>10, <3>1 DEF Satisfiable
    <3>3. Unreached(u) => ~Satisfiable(u, o)
      <4>1. SUFFICES ASSUME Unreached(u) PROVE ~Satisfiable(u, o)
        OBVIOUS
      <4>2. Rest(waitList[o], scan.pos) # {} /\ o \in Objs(u)
        BY <1>2, <4>1 DEF Unreached
      <4>3. ~(scan.pos > Len(waitList[o]))
        BY <1>3, <4>2, RestFacts
      <4>4. ~(signal[o] > 0)
        BY <1>1, <1>2, <1>3, <4>3 DEF ScanGoesOn
      <4>5. o \in Mutants => owner[o] # u
        BY <1>2, <3>1, <4>2 DEF Inv, ScanOwner
      <4> QED BY <4>4, <4>5 DEF Satisfiable
    <3>4. ~WaitOver(u)
      <4>1. CASE call[u].type = "WaitAll"
        BY <1>2, <3>1, <3>3, <4>1 DEF NotOver, WaitOver, Unreached
      <4>2. CASE call[u].type # "WaitAll"
        BY <1>2, <3>1, <3>3, <4>2 DEF NotOver, WaitOver
      <4> QED BY <4>1, <4>2
    <3>5. \A p \in Objs(u) : p # scan'.obj
      BY <1>4, <3>1, LongFacts
    <3>6. CASE call[u].type = "WaitAll"
      BY <1>1, <3>1, <3>2, <3>4, <3>5, <3>6 DEF NotOver, WaitOver
    <3>7. CASE call[u].type # "WaitAll"
      BY <1>1, <3>1, <3>2, <3>4, <3>5, <3>7 DEF NotOver, WaitOver
    <3> QED BY <3>6, <3>7
  <2> QED BY <2>1 DEF NoneOver
<1>14. ScanOwner'
  BY <1>4, LongFacts DEF ScanOwner, Mutants
<1>15. StatusOK'
  BY <1>1, <1>6 DEF Inv, StatusOK
<1>16. ApcDisableExact'
  BY <1>1 DEF Inv, ApcDisableExact
<1>17. ApcNotLost'
  BY <1>1, <1>6 DEF Inv, ApcNotLost
<1>18. AlertNotLost'
  <2>1. ASSUME NEW u \in Threads, pc'[u] = "wait"
        PROVE  ~AlertReady(u)' /\ ~UserApcReady(u)'
    BY <1>1, <1>6, <2>1 DEF Inv, AlertNotLost, AlertReady, UserApcReady
  <2> QED BY <2>1 DEF AlertNotLost
<1>19. TypeOK'
  <2>1. /\ \A p \in Events : signal'[p] \in {0, 1}
        /\ \A p \in Semaphores : signal'[p] \in 0..Limit[p]
    BY <1>1, <1>10 DEF TypeOK, Events, Semaphores
  <2>2. scan' \in [obj: Objects \cup {NoObject}, pos: Nat \ {0},
                   by: Threads \cup {NoThread}, then: {"unlock", "pulse", "rundown"}]
    BY <1>1 DEF NoScan
  <2> QED BY <1>1, <1>5, <1>10, <2>1, <2>2 DEF TypeOK
<1>20. TakesAll /\ TakesNothingElse /\ ReportsAbandoned
  <2>1. \A p \in Objects : Kind[p] = "Semaphore" => ~(signal'[p] < signal[p])
    <3>1. \A p \in Objects : Kind[p] = "Semaphore" => signal'[p] = signal[p]
      BY <1>10 DEF Events
    <3>2. \A p \in Objects : ~(signal[p] < signal[p])
      BY <1>1 DEF TypeOK
    <3> QED BY <3>1, <3>2
  <2> QED BY <1>1, <2>1, QuietStep
<1> QED BY <1>7, <1>9, <1>12, <1>13, <1>14, <1>15, <1>16, <1>17, <1>18, <1>19, <1>20
        DEF StepOK, Inv

-----------------------------------------------------------------------------
(* The theorems.                                                              *)

(* The invariant holds when the objects have been initialised.                *)
LEMMA InitOK ==
  ASSUME Init
  PROVE  Inv
<1>1. /\ owner \in [Objects -> Threads \cup {NoThread}]
      /\ signal \in [Objects -> 0..MAXLONG]
      /\ \A o \in Events : signal[o] \in {0, 1}
      /\ \A o \in Semaphores : signal[o] \in 0..Limit[o]
      /\ \A o \in Mutants : /\ signal[o] = IF owner[o] = NoThread THEN 1 ELSE 0
                            /\ o \in Mutexes => owner[o] = NoThread
  BY DEF Init, KeInitializeEvent, KeInitializeSemaphore, KeInitializeMutant
<1>2. /\ waitList = [o \in Objects |-> <<>>]
      /\ abandoned = [o \in Objects |-> FALSE]
      /\ pc = [t \in Threads |-> "run"]
      /\ call = [t \in Threads |-> NoCall]
      /\ result = [t \in Threads |-> NoStatus]
      /\ timer = [t \in Threads |-> FALSE]
      /\ alerted = [t \in Threads |-> {}]
      /\ apcDisable = [t \in Threads |-> 0]
      /\ pending = [t \in Threads |-> FALSE]
      /\ normalApc = [t \in Threads |-> FALSE]
      /\ userApc = [t \in Threads |-> FALSE]
      /\ userPending = [t \in Threads |-> FALSE]
      /\ scan = NoScan
  BY DEF Init
<1>3. NoStatus \in [key: Objects \cup Statuses, abandoned: BOOLEAN]
  BY StatusFacts DEF NoStatus, Statuses
<1>4. TypeOK
  <2>1. signal \in [Objects -> MINLONG..MAXLONG]
    BY <1>1, LongFacts
  <2>2. scan \in [obj: Objects \cup {NoObject}, pos: Nat \ {0},
                  by: Threads \cup {NoThread}, then: {"unlock", "pulse", "rundown"}]
    BY <1>2 DEF NoScan
  <2>3. waitList \in [Objects -> Seq(Threads)]
    BY <1>2
  <2> QED BY <1>1, <1>2, <1>3, <2>1, <2>2, <2>3 DEF TypeOK
<1>5. scan.obj = NoObject /\ \A t \in Threads : pc[t] = "run" /\ ~timer[t]
  BY <1>2 DEF NoScan
<1>6. LockOK
  BY <1>5 DEF LockOK, Holding
<1>7. BlocksOK
  <2>1. \A o \in Objects : Once(waitList[o]) /\ Items(waitList[o]) = {}
    BY <1>2 DEF Once, Items
  <2> QED BY <1>5, <2>1 DEF BlocksOK, Waiting
<1>8. OwnersOK
  BY <1>1, <1>5, LongFacts, KindAssumption DEF OwnersOK, MutantOwned, Waiting
<1>9. StatusOK
  BY <1>5 DEF StatusOK
<1>10. NoneOver /\ ScanOwner
  BY <1>5 DEF NoneOver, ScanOwner, Waiting
<1>11. ApcDisableExact
  <2>1. \A t \in Threads, o \in Mutexes : owner[o] # t
    BY <1>1, LongFacts, KindAssumption
  <2>2. \A t \in Threads : {o \in Mutexes : owner[o] = t} = {}
    BY <2>1
  <2>3. Cardinality({}) = 0
    BY FS_EmptySet
  <2>4. ASSUME NEW t \in Threads
        PROVE  apcDisable[t] = -Cardinality({o \in Mutexes : owner[o] = t})
    <3>1. apcDisable[t] = 0
      BY <1>2
    <3>2. Cardinality({o \in Mutexes : owner[o] = t}) = 0
      BY <2>2, <2>3
    <3>3. /\ apcDisable[t] \in Int /\ Cardinality({o \in Mutexes : owner[o] = t}) \in Int
          /\ apcDisable[t] + Cardinality({o \in Mutexes : owner[o] = t}) = 0
      BY <3>1, <3>2
    <3> QED BY <3>3
  <2> QED BY <2>4 DEF ApcDisableExact
<1>12. ApcNotLost /\ AlertNotLost
  BY <1>2 DEF ApcNotLost, AlertNotLost
<1> QED BY <1>4, <1>6, <1>7, <1>8, <1>9, <1>10, <1>11, <1>12 DEF Inv

(* Every step keeps the invariant and has the properties of steps.            *)
LEMMA NextOK ==
  ASSUME Inv, [Next]_vars
  PROVE  Inv' /\ [TakesAll /\ TakesNothingElse]_vars /\ [ReportsAbandoned]_vars
<1>1. CASE UNCHANGED vars
  <2>1. Inv'
    BY <1>1 DEF vars, Inv, TypeOK, LockOK, Holding, BlocksOK, Waiting, Objs, OwnersOK,
             MutantOwned, AtLimit, StatusOK, NoneOver, NotOver, Unreached, Satisfiable,
             ScanOwner, ApcDisableExact, ApcNotLost, AlertNotLost, AlertReady, UserApcReady
  <2> QED BY <1>1, <2>1
<1>2. CASE Next
  <2>1. ASSUME NEW t \in Threads, ThreadStep(t) PROVE StepOK
    <3>1. ASSUME NEW o \in Mutants, NEW c \in {t, NoThread}, NEW abandon \in BOOLEAN,
                 KeReleaseMutant(t, c, o, abandon)
          PROVE  StepOK
      BY <3>1, ReleaseMutantOK
    <3>2. CASE KeRundownThread(t)
      BY <3>2, RundownOK
    <3>3. CASE KeRundownThreadEnd(t)
      BY <3>3, RundownEndOK
    <3>4. ASSUME NEW o \in Mutants, KeRundownThreadMutant(t, o)
          PROVE  StepOK
      BY <3>4, RundownMutantOK
    <3>5. ASSUME NEW c \in Calls, KeWait(t, c)
          PROVE  StepOK
      BY <3>5, EnterOK
    <3>6. CASE KeWaitApc(t)
      BY <3>6, WaitApcOK
    <3>7. CASE KeWaitRaise(t) \/ KeWaitAlerted(t) \/ KeWaitTimeout(t)
      BY <3>7, WaitReturnOK
    <3>8. CASE KeWaitSatisfied(t)
      BY <3>8, SatisfiedOK
    <3>9. CASE KeWaitBlock(t)
      BY <3>9, BlockOK
    <3>10. CASE KeWaitResume(t)
      BY <3>10, ResumeOK
    <3>11. CASE KeWaitRelock(t)
      BY <3>11, RelockOK
    <3>12. CASE KiTimerExpire(t)
      BY <3>12, TimerExpireOK
    <3>13. CASE KiDeliverApc(t)
      BY <3>13, DeliverApcOK
    <3>14. ASSUME NEW mode \in AlertModes, KeAlertThread(t, mode)
           PROVE  StepOK
      BY <3>14, AlertOK
    <3>15. ASSUME NEW mode \in AlertModes, KeTestAlertThread(t, mode)
           PROVE  StepOK
      BY <3>15, TestAlertOK
    <3>16. ASSUME NEW kind \in Apcs, KiInsertQueueApcKernel(t, kind)
           PROVE  StepOK
      BY <3>16, InsertKernelApcOK
    <3>17. ASSUME NEW kind \in Apcs, KiInsertQueueApcUser(t, kind)
           PROVE  StepOK
      BY <3>17, InsertUserApcOK
    <3> QED BY <2>1, <3>1, <3>2, <3>3, <3>4, <3>5, <3>6, <3>7, <3>8, <3>9, <3>10, <3>11,
               <3>12, <3>13, <3>14, <3>15, <3>16, <3>17 DEF ThreadStep
  <2>2. ASSUME NEW c \in Threads \cup {NoThread}, SignalStep(c) PROVE StepOK
    BY <2>2, SetEventOK, PulseOK, SemaphoreOK DEF SignalStep
  <2>3. ASSUME NEW o \in Events, KeSetEventBoostPriority(o) \/ KeResetEvent(o) \/ KeClearEvent(o)
        PROVE  StepOK
    BY <2>3, BoostOK, ClearOK
  <2>4. ASSUME KiWaitTestStep \/ KiWaitTestEnd PROVE StepOK
    BY <2>4, ScanStepOK, ScanEndOK
  <2>5. StepOK
    BY <1>2, <2>1, <2>2, <2>3, <2>4 DEF Next
  <2> QED BY <2>5 DEF StepOK
<1> QED BY <1>1, <1>2

(* The inductive invariant holds in every state: the lists of wait blocks,    *)
(* the owners of the mutants and the lock agree with where the threads are,   *)
(* and no wait is over that a scan is not going to find.                      *)
THEOREM Invariance == Spec => []Inv
<1>1. Init => Inv
  BY InitOK
<1>2. Inv /\ [Next]_vars => Inv'
  BY NextOK
<1> QED BY <1>1, <1>2, PTL DEF Spec

(* Every variable keeps its type; SignalState never leaves its range, whether *)
(* by a release or by a satisfied wait.                                       *)
THEOREM TypeCorrect == Spec => []TypeOK
<1>1. Inv => TypeOK
  BY DEF Inv
<1> QED BY <1>1, Invariance, PTL

(* No wakeup is lost: whenever the lock is free, no waiting thread has what   *)
(* it waits for.                                                              *)
THEOREM NoneOverslept == Spec => []NoLostWakeup
<1>1. Inv => NoLostWakeup
  <2>1. SUFFICES ASSUME Inv, Unlocked, NEW t \in Threads, pc[t] = "wait"
                 PROVE  ~WaitOver(t)
    BY DEF NoLostWakeup
  <2>2. NotOver(t) /\ scan.obj = NoObject /\ NoObject \notin Objs(t)
    BY <2>1, WaitFacts, LongFacts DEF Inv, NoneOver, Waiting, Unlocked
  <2>3. CASE call[t].type = "WaitAll"
    BY <2>2, <2>3 DEF NotOver, Unreached, WaitOver
  <2>4. CASE call[t].type # "WaitAll"
    BY <2>2, <2>4 DEF NotOver, WaitOver
  <2> QED BY <2>3, <2>4
<1> QED BY <1>1, Invariance, PTL

(* A thread has one wait block on each object of its wait, exactly while it   *)
(* waits; its timer runs only then.                                           *)
THEOREM WaitBlocksCorrect == Spec => []WaitBlocksExact
<1>1. Inv => WaitBlocksExact
  <2>1. SUFFICES ASSUME Inv, NEW o \in Objects, NEW t \in Threads
                 PROVE  Cardinality({i \in 1..Len(waitList[o]) : waitList[o][i] = t})
                          = IF pc[t] = "wait" /\ o \in Objs(t) THEN 1 ELSE 0
    BY DEF WaitBlocksExact, Inv, BlocksOK, Waiting
  <2> DEFINE L == {i \in 1..Len(waitList[o]) : waitList[o][i] = t}
  <2>2. Once(waitList[o]) /\ (t \in Items(waitList[o]) <=> (pc[t] = "wait" /\ o \in Objs(t)))
    BY <2>1 DEF Inv, BlocksOK, Waiting
  <2>3. CASE t \in Items(waitList[o])
    <3>1. PICK i \in 1..Len(waitList[o]) : waitList[o][i] = t
      BY <2>3 DEF Items
    <3>2. L = {i}
      BY <2>2, <3>1 DEF Once
    <3>3. Cardinality({i}) = 1
      BY FS_Singleton
    <3> QED BY <2>2, <2>3, <3>2, <3>3
  <2>4. CASE t \notin Items(waitList[o])
    <3>1. L = {}
      BY <2>4 DEF Items
    <3>2. Cardinality({}) = 0
      BY FS_EmptySet
    <3> QED BY <2>2, <2>4, <3>1, <3>2
  <2> QED BY <2>3, <2>4
<1> QED BY <1>1, Invariance, PTL

(* A mutant is owned exactly while its SignalState is not positive, by a live *)
(* thread, and its recursion count never passes MINLONG.                      *)
THEOREM OwnersCorrect == Spec => []MutantOwned
<1>1. Inv => MutantOwned
  BY DEF Inv, OwnersOK
<1> QED BY <1>1, Invariance, PTL

(* KernelApcDisable counts the mutexes that a thread owns.                    *)
THEOREM ApcDisableCorrect == Spec => []ApcDisableExact
<1>1. Inv => ApcDisableExact
  BY DEF Inv
<1> QED BY <1>1, Invariance, PTL

(* No kernel APC is forgotten, by a release, by a wait or by its end.         *)
THEOREM ApcsDelivered == Spec => []ApcNotLost
<1>1. Inv => ApcNotLost
  BY DEF Inv
<1> QED BY <1>1, Invariance, PTL

(* No wait goes on with an alert or a user APC that should end it.            *)
THEOREM AlertsHeeded == Spec => []AlertNotLost
<1>1. Inv => AlertNotLost
  BY DEF Inv
<1> QED BY <1>1, Invariance, PTL

(* A satisfied wait takes all that it waited for, once, and nothing is taken  *)
(* but by a satisfied wait.                                                   *)
THEOREM AllTaken == Spec => AllOrNothing
<1>1. Inv /\ [Next]_vars => [TakesAll /\ TakesNothingElse]_vars
  BY NextOK
<1> QED BY <1>1, Invariance, PTL DEF Spec, AllOrNothing

(* STATUS_ABANDONED is reported to the thread that acquires an abandoned      *)
(* mutant, and to no other.                                                   *)
THEOREM AbandonCorrect == Spec => AbandonReported
<1>1. Inv /\ [Next]_vars => [ReportsAbandoned]_vars
  BY NextOK
<1> QED BY <1>1, Invariance, PTL DEF Spec, AbandonReported
=============================================================================
