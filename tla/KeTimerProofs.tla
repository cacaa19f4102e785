--------------------------- MODULE KeTimerProofs ---------------------------
(* Theorems about KeTimer for any number of timers, any size of the table and *)
(* any length of a tick: a timer is in one list, no DPC is lost, and an       *)
(* expiry is missed by a stale look of the clock interrupt or not at all.     *)
EXTENDS KeTimer, ListProofs, FiniteSetTheorems

-----------------------------------------------------------------------------
(* The inductive invariant.                                                   *)

(* The interrupt time is within the current tick, which ends after offset.    *)
(* The clock interrupt looks at the list of the last tick, if it has just     *)
(* passed, and at that of the current one; it looks at a timer only then.     *)
ClockOK ==
  /\ time + offset = tick * MaxIncrement + MaxIncrement
  /\ clock \in {<<>>, <<tick>>} \/ (tick > 0 /\ clock = <<tick - 1, tick>>)
  /\ (look.equal => look.first # None) /\ (look.first # None => clock # <<>>)

(* The hands that the expiration DPC was given are behind the clock.          *)
HandsOK ==
  /\ expireDpc # None => expireDpc <= tick /\ (clock # <<>> => expireDpc <= Head(clock))
  /\ exp.pc \in {"dpc", "hand"} => exp.arg <= tick
  /\ exp.pc = "scan" => exp.arg <= exp.limit
  /\ exp.pc \in {"hand", "scan"} => exp.now <= time

(* Who holds the dispatcher lock, and who inserts a timer under it.           *)
LockOK ==
  /\ lock = "free" => ins = NoInsertion /\ exp.pc \in {"idle", "dpc", "run"}
  /\ lock = "setter" =>
       ins.then \in {"set", "period"} /\ exp.pc \in {"idle", "dpc", "run"}
  /\ lock = "expirer" =>
       /\ exp.pc \in {"hand", "scan", "list", "insert", "remove", "system"}
       /\ IF exp.pc = "insert" THEN ins.then \in {"expire", "system"} ELSE ins = NoInsertion
  /\ ins.then # "none" => ins.timer \in Timers /\ ins.stage # "none"

(* A list in the order of the due times.                                      *)
Sorted(list) == \A i, j \in 1..Len(list) : i < j => due[list[i]] <= due[list[j]]

(* Each list of the table is in order, and holds the timers of its own ticks. *)
TableOK == \A b \in Buckets :
  /\ Once(table[b]) /\ Sorted(table[b])
  /\ \A x \in Items(table[b]) : Index(due[x]) = b

(* No timer is in two lists; one that is being looked at again is in the      *)
(* table.                                                                     *)
Tabled(x) == \E b \in Buckets : x \in Items(table[b])
ListsOK ==
  /\ Once(exp.expired) /\ Once(exp.absolutes)
  /\ \A x \in Items(exp.expired) : ~Tabled(x) /\ x \notin Items(exp.absolutes) /\ due[x] <= time
  /\ \A x \in Items(exp.absolutes) : ~Tabled(x)
  /\ ins.stage = "recheck" => Tabled(ins.timer)

(* What is left on the local lists when KiTimerExpiration or KeSetSystemTime  *)
(* returns, or begins: nothing.                                               *)
LocalOK ==
  /\ exp.pc = "idle" \/ (exp.pc = "run" /\ ~exp.full) => exp.expired = <<>>
  /\ exp.pc \in {"remove", "system"} \/ ins.then = "system" \/ exp.absolutes = <<>>
  /\ exp.pc \in {"idle", "dpc", "hand", "scan"} => exp.dpcs = <<>>

(* The timers that are Inserted are those in a list, and the one about to be. *)
Linked(x) == Tabled(x) \/ x \in Items(exp.expired) \/ x \in Items(exp.absolutes)
Linking(x) == ins.timer = x /\ ins.stage = "link"
InsertedOK == \A x \in Timers : inserted[x] <=> Linked(x) \/ Linking(x)
LinkingOK == \A x \in Timers : Linking(x) => ~Linked(x)

(* Somebody will look at list b: the clock interrupt, or the expiration DPC   *)
(* with a hand that covers it; or KiTimerExpiration has read the time and is  *)
(* going to look at it.                                                       *)
Coming(b) ==
  \/ \E h \in Items(clock) : h % TableSize = b
  \/ expireDpc # None /\ b \in Cover(expireDpc)
  \/ exp.pc = "dpc" /\ b \in Cover(exp.arg)
Scanning(b) ==
  \/ exp.pc = "hand" /\ b \in Cover(exp.arg)
  \/ exp.pc = "scan" /\ b \in Lists(exp.arg, exp.limit)
Rechecked(x) == ins.timer = x /\ ins.stage = "recheck"

(* No timer of list b that is due is missed: Missed, denied.                  *)
NoneMissed(b) == \A x \in Items(table[b]) : due[x] <= time =>
  Coming(b) \/ (Scanning(b) /\ due[x] <= exp.now) \/ Rechecked(x)

(* A step keeps this of every list.  It is no part of the invariant: the      *)
(* clock interrupt may break it.                                              *)
Keeps == \A b \in Buckets : NoneMissed(b) => NoneMissed(b)'

(* DpcNotLost.                                                                *)
NoneLost == \A x \in owed :
  x \in queued \/ x \in Items(exp.dpcs) \/ (ins.then = "expire" /\ ins.timer = x)

Inv == /\ TypeOK /\ ClockOK /\ HandsOK /\ LockOK /\ TableOK /\ ListsOK
       /\ LocalOK /\ InsertedOK /\ LinkingOK /\ NoneLost

-----------------------------------------------------------------------------
(* Lists.                                                                     *)

(* What the elements of a list are.                                           *)
LEMMA ItemsOf ==
  ASSUME NEW T, NEW s \in Seq(T)
  PROVE  Items(s) \subseteq T
BY ElementOfSeq DEF Items

(* The timers in the table are timers.                                        *)
LEMMA TabledTimers ==
  ASSUME TypeOK
  PROVE  \A b \in Buckets : \A x \in Items(table[b]) : x \in Timers /\ Tabled(x)
<1>1. \A b \in Buckets : Items(table[b]) \subseteq Timers
  BY ItemsOf DEF TypeOK
<1> QED BY <1>1 DEF Tabled

(* The elements of r are in the order of s.                                   *)
Within(r, s) == \A i, j \in 1..Len(r) : i < j =>
  \E k, l \in 1..Len(s) : k < l /\ r[i] = s[k] /\ r[j] = s[l]

(* Unlinking an element keeps the others in order.                            *)
LEMMA RemoveAtWithin ==
  ASSUME NEW T, NEW s \in Seq(T), NEW k \in 1..Len(s)
  PROVE  Within(RemoveAt(s, k), s)
<1> DEFINE r == RemoveAt(s, k)
<1>1. Len(s) \in Nat /\ Len(r) = Len(s) - 1
      /\ \A j \in 1..(Len(s) - 1) : r[j] = IF j < k THEN s[j] ELSE s[j + 1]
  BY RemoveAtSeq, LenProperties
<1> HIDE DEF r
<1>2. ASSUME NEW i \in 1..Len(r), NEW j \in 1..Len(r), i < j
      PROVE  \E m, l \in 1..Len(s) : m < l /\ r[i] = s[m] /\ r[j] = s[l]
  <2>1. PICK m, l : m = (IF i < k THEN i ELSE i + 1) /\ l = (IF j < k THEN j ELSE j + 1)
    OBVIOUS
  <2>2. m \in 1..Len(s) /\ l \in 1..Len(s) /\ m < l
    BY <1>1, <1>2, <2>1
  <2>3. r[i] = s[m] /\ r[j] = s[l]
    BY <1>1, <1>2, <2>1
  <2> QED BY <2>2, <2>3
<1> QED BY <1>2 DEF Within, r

(* So does taking the first one away.                                         *)
LEMMA TailWithin ==
  ASSUME NEW T, NEW s \in Seq(T), s # <<>>
  PROVE  Within(Tail(s), s)
<1> DEFINE r == Tail(s)
<1>1. Len(s) \in Nat /\ Len(r) = Len(s) - 1 /\ \A i \in 1..Len(r) : r[i] = s[i + 1]
  BY HeadTailProperties, LenProperties
<1> HIDE DEF r
<1>2. ASSUME NEW i \in 1..Len(r), NEW j \in 1..Len(r), i < j
      PROVE  \E m, l \in 1..Len(s) : m < l /\ r[i] = s[m] /\ r[j] = s[l]
  <2>1. i + 1 \in 1..Len(s) /\ j + 1 \in 1..Len(s) /\ i + 1 < j + 1
    BY <1>1, <1>2
  <2> QED BY <1>1, <2>1
<1> QED BY <1>2 DEF Within, r

(* RemoveEntryList of x, if it is in the list.                                *)
LEMMA WithoutFacts ==
  ASSUME NEW T, NEW s \in Seq(T), Once(s), NEW x
  PROVE  /\ Without(s, x) \in Seq(T) /\ Once(Without(s, x))
         /\ Items(Without(s, x)) = Items(s) \ {x} /\ Within(Without(s, x), s)
<1>1. Members(s) = Items(s)
  BY DEF Members, Items
<1>2. CASE x \in Items(s)
  <2> DEFINE k == CHOOSE i \in 1..Len(s) : s[i] = x
  <2>1. k \in 1..Len(s) /\ s[k] = x
    BY <1>2 DEF Items
  <2>2. Without(s, x) = RemoveAt(s, k)
    BY <1>1, <1>2 DEF Without
  <2> HIDE DEF k
  <2> QED BY <2>1, <2>2, RemoveAtItems, RemoveAtWithin
<1>3. CASE x \notin Items(s)
  <2>1. Without(s, x) = s
    BY <1>1, <1>3 DEF Without
  <2>2. Within(s, s)
    BY DEF Within
  <2> QED BY <1>3, <2>1, <2>2
<1> QED BY <1>2, <1>3

-----------------------------------------------------------------------------
(* The table.                                                                 *)

(* Timers leave the table, and no due time in it changes.                     *)
Shrunk ==
  /\ table' \in [Buckets -> Seq(Timers)]
  /\ \A b \in Buckets :
       /\ Once(table'[b]) /\ Within(table'[b], table[b])
       /\ Items(table'[b]) \subseteq Items(table[b])
       /\ \A x \in Items(table'[b]) : due'[x] = due[x]

(* Each list stays in order.                                                  *)
LEMMA TableShrunk ==
  ASSUME TypeOK, TableOK, Shrunk
  PROVE  TableOK'
<1> SUFFICES ASSUME NEW b \in Buckets
             PROVE  /\ Once(table'[b]) /\ Sorted(table[b])'
                    /\ \A x \in Items(table'[b]) : Index(due'[x]) = b
  BY DEF TableOK, Index
<1>1. ASSUME NEW i \in 1..Len(table'[b]), NEW j \in 1..Len(table'[b]), i < j
      PROVE  due'[table'[b][i]] <= due'[table'[b][j]]
  <2>1. PICK k, l \in 1..Len(table[b]) :
          k < l /\ table'[b][i] = table[b][k] /\ table'[b][j] = table[b][l]
    BY <1>1 DEF Shrunk, Within
  <2>2. due[table[b][k]] <= due[table[b][l]]
    BY <2>1 DEF TableOK, Sorted
  <2>3. table'[b][i] \in Items(table'[b]) /\ table'[b][j] \in Items(table'[b])
    BY DEF Items
  <2> QED BY <2>1, <2>2, <2>3 DEF Shrunk
<1>2. Sorted(table[b])'
  BY <1>1 DEF Sorted
<1> QED BY <1>2 DEF TableOK, Shrunk

(* Nothing is unlinked.                                                       *)
LEMMA TableSame ==
  ASSUME TypeOK, TableOK, UNCHANGED table, \A x \in Timers : Tabled(x) => due'[x] = due[x]
  PROVE  Shrunk
<1>1. \A b \in Buckets : \A x \in Items(table[b]) : x \in Timers /\ due'[x] = due[x]
  BY TabledTimers
<1> QED BY <1>1 DEF Shrunk, TableOK, TypeOK, Within

(* KiRemoveTreeTimer of x, wherever it is.                                    *)
LEMMA TableUnlinked ==
  ASSUME TypeOK, TableOK, NEW x, table' = Unlinked(x), \A y \in Timers \ {x} : due'[y] = due[y]
  PROVE  /\ Shrunk
         /\ \A y : Tabled(y)' <=> Tabled(y) /\ y # x
<1>1. ASSUME NEW b \in Buckets
      PROVE  /\ table'[b] \in Seq(Timers) /\ Once(table'[b])
             /\ Items(table'[b]) = Items(table[b]) \ {x} /\ Within(table'[b], table[b])
  <2>1. table[b] \in Seq(Timers) /\ Once(table[b]) /\ table'[b] = Without(table[b], x)
    BY DEF TypeOK, TableOK, Unlinked
  <2> QED BY <2>1, WithoutFacts
<1>2. \A b \in Buckets : \A y \in Items(table'[b]) : y \in Timers \ {x}
  BY <1>1, TabledTimers
<1>3. table' \in [Buckets -> Seq(Timers)]
  BY <1>1 DEF Unlinked
<1>4. Shrunk
  BY <1>1, <1>2, <1>3 DEF Shrunk
<1>5. \A y : Tabled(y)' <=> Tabled(y) /\ y # x
  BY <1>1 DEF Tabled
<1> QED BY <1>4, <1>5

(* The first timer of a list is the first to expire.                          *)
LEMMA HeadFirst ==
  ASSUME TypeOK, TableOK, NEW b \in Buckets, NEW x \in Items(table[b])
  PROVE  table[b] # <<>> /\ Head(table[b]) \in Timers /\ due[Head(table[b])] <= due[x]
<1>1. PICK i \in 1..Len(table[b]) : table[b][i] = x
  BY DEF Items
<1>2. table[b] \in Seq(Timers) /\ Len(table[b]) \in Nat
  BY LenProperties DEF TypeOK
<1>3. table[b] # <<>> /\ Head(table[b]) = table[b][1] /\ 1 \in 1..Len(table[b])
  BY <1>1, <1>2
<1>4. table[b][1] \in Timers
  BY <1>2, <1>3, ElementOfSeq
<1>5. due[table[b][1]] <= due[table[b][i]]
  <2>1. CASE i = 1
    BY <1>4, <2>1 DEF TypeOK
  <2>2. CASE i # 1
    BY <1>2, <1>3, <2>2 DEF TableOK, Sorted
  <2> QED BY <2>1, <2>2
<1> QED BY <1>1, <1>3, <1>4, <1>5

-----------------------------------------------------------------------------
(* The clock.                                                                 *)

(* The tick that a due time is in.                                            *)
LEMMA TickOf ==
  ASSUME NEW M \in Nat \ {0}, NEW k \in Nat, NEW d \in Int, k * M <= d, d < k * M + M
  PROVE  d \div M = k
OBVIOUS

(* The lists of the table, in the order of the scan.                          *)
LEMMA ListOfHand ==
  /\ \A h \in Int : h % TableSize \in Buckets
  /\ \A b \in Buckets : b % TableSize = b
BY TimerAssumption DEF Buckets

(* A hand covers no less after the clock has ticked.                          *)
LEMMA CoverGrows ==
  ASSUME tick \in Nat, NEW arg \in Nat, tick' \in {tick, tick + 1}, NEW b \in Cover(arg)
  PROVE  b \in Cover(arg)'
<1>1. TableSize \in Nat \ {0}
  BY TimerAssumption
<1>2. CASE tick - arg >= TableSize
  <2>1. tick' = tick \/ tick' = tick + 1
    OBVIOUS
  <2>2. \A m, n, a, t \in Nat : (m = n \/ m = n + 1) /\ n - a >= t => m - a >= t
    OBVIOUS
  <2>3. tick' \in Nat /\ tick \in Nat
    BY <2>1
  <2>4. tick' - arg >= TableSize
    BY <1>1, <1>2, <2>1, <2>2, <2>3
  <2> QED BY <1>2, <2>4 DEF Cover
<1>3. CASE ~(tick - arg >= TableSize)
  <2>1. PICK h \in arg..tick : b = h % TableSize
    BY <1>3 DEF Cover, Lists
  <2>2. h \in arg..tick' /\ b \in Buckets
    BY <2>1, ListOfHand
  <2> QED BY <2>1, <2>2 DEF Cover, Lists
<1> QED BY <1>2, <1>3

(* The hands that the clock interrupt looks at.                               *)
LEMMA ShortLists ==
  ASSUME NEW a \in Nat, NEW c \in Nat
  PROVE  /\ Tail(<<a>>) = <<>> /\ Head(<<a>>) = a /\ <<a>> # <<>> /\ Items(<<a>>) = {a}
         /\ Tail(<<a, c>>) = <<c>> /\ Head(<<a, c>>) = a /\ Items(<<a, c>>) = {a, c}
<1>1. /\ Tail(<<a>>) = <<>> /\ Head(<<a>>) = a /\ <<a>> # <<>>
      /\ Tail(<<a, c>>) = <<c>> /\ Head(<<a, c>>) = a
  OBVIOUS
<1>2. Items(<<a>>) = {a}
  BY DEF Items
<1>3. Items(<<a, c>>) = {a, c}
  <2>1. 1..2 = {1, 2} /\ Len(<<a, c>>) = 2 /\ <<a, c>>[1] = a /\ <<a, c>>[2] = c
    OBVIOUS
  <2> QED BY <2>1 DEF Items
<1> QED BY <1>1, <1>2, <1>3

(* Nothing but the clock moves.                                               *)
OnlyClock == UNCHANGED <<table, due, inserted, absolute, period, lock, ins, exp, queued, owed>>

(* Types and what is said of the timers do not change.                        *)
LEMMA OnlyClockTypes ==
  ASSUME TypeOK, OnlyClock, time' \in 0..MaxTime, tick' \in Nat, offset' \in 1..MaxIncrement,
         clock' \in Seq(Nat), expireDpc' \in Nat \cup {None},
         look' \in [first: Timers \cup {None}, equal: BOOLEAN]
  PROVE  TypeOK'
BY DEF TypeOK, OnlyClock

(* What is said of the timers and their lists survives the passing of time.   *)
LEMMA OnlyClockKeeps ==
  ASSUME Inv, OnlyClock, time' \in Int, time <= time'
  PROVE  TableOK' /\ ListsOK' /\ LocalOK' /\ InsertedOK' /\ LinkingOK' /\ LockOK' /\ NoneLost'
<1>1. TableOK' /\ LocalOK' /\ InsertedOK' /\ LinkingOK' /\ LockOK' /\ NoneLost'
  BY DEF Inv, OnlyClock, TableOK, Sorted, Index, InsertedOK, LinkingOK, Linked, Linking, Tabled,
     LocalOK, LockOK, NoneLost
<1>2. \A x \in Items(exp.expired) : x \in Timers /\ due[x] \in Int
  BY ItemsOf DEF Inv, TypeOK, Expirations
<1>3. time \in Int /\ \A x \in Items(exp.expired) : due[x] <= time
  BY DEF Inv, TypeOK, ListsOK
<1>4. \A x \in Items(exp.expired) : due[x] <= time'
  BY <1>2, <1>3
<1>5. ListsOK'
  BY <1>4 DEF Inv, OnlyClock, ListsOK, Tabled
<1> QED BY <1>1, <1>5

(* The clock ticks: what becomes due is in the lists that it looks at.        *)
LEMMA KeUpdateSystemTimeInv ==
  ASSUME Inv, NEW inc \in Increments, KeUpdateSystemTime(inc)
  PROVE  Inv' /\ Keeps
<1> DEFINE full == offset - inc <= 0
<1>1. /\ clock = <<>> /\ time + inc <= MaxTime /\ time' = time + inc
      /\ tick' = (IF full THEN tick + 1 ELSE tick)
      /\ offset' = (IF full THEN offset - inc + MaxIncrement ELSE offset - inc)
      /\ clock' = (IF full THEN <<tick, tick + 1>> ELSE <<tick>>)
      /\ OnlyClock /\ UNCHANGED <<look, expireDpc>>
  BY DEF KeUpdateSystemTime, Hands, OnlyClock, fields
<1>2. /\ inc \in 1..MaxIncrement /\ MaxIncrement \in Nat \ {0} /\ MaxTime \in Nat
      /\ time \in 0..MaxTime /\ tick \in Nat /\ offset \in 1..MaxIncrement
      /\ time + offset = tick * MaxIncrement + MaxIncrement
  BY TimerAssumption DEF Inv, TypeOK, ClockOK
<1>3. PICK P \in Nat : P = tick * MaxIncrement /\ (tick + 1) * MaxIncrement = P + MaxIncrement
  BY <1>2
<1>4. /\ time' \in 0..MaxTime /\ time <= time' /\ tick' \in Nat /\ offset' \in 1..MaxIncrement
      /\ tick' \in {tick, tick + 1}
  BY <1>1, <1>2
<1>5. time' + offset' = tick' * MaxIncrement + MaxIncrement
  <2>1. CASE full
    BY <1>1, <1>2, <1>3, <2>1
  <2>2. CASE ~full
    BY <1>1, <1>2, <1>3, <2>2
  <2> QED BY <2>1, <2>2
<1>6. clock' \in Seq(Nat)
  BY <1>1, <1>2
<1>7. TypeOK'
  <2>1. expireDpc' \in Nat \cup {None} /\ look' \in [first: Timers \cup {None}, equal: BOOLEAN]
    BY <1>1 DEF Inv, TypeOK
  <2> QED BY <1>1, <1>4, <1>6, <2>1, OnlyClockTypes DEF Inv
<1>8. ClockOK'
  <2>1. clock' \in {<<>>, <<tick'>>} \/ (tick' > 0 /\ clock' = <<tick' - 1, tick'>>)
    BY <1>1, <1>2
  <2>2. (look'.equal => look'.first # None) /\ (look'.first # None => clock' # <<>>)
    BY <1>1 DEF Inv, ClockOK
  <2> QED BY <1>5, <2>1, <2>2 DEF ClockOK
<1>9. Head(clock') = tick
  BY <1>1
<1>10. HandsOK'
  <2>1. /\ expireDpc # None => expireDpc \in Nat /\ expireDpc <= tick
        /\ exp.pc \in {"dpc", "hand"} => exp.arg <= tick
        /\ exp.pc \in {"hand", "scan"} => exp.now <= time
        /\ exp.pc = "scan" => exp.arg <= exp.limit
        /\ exp.arg \in Nat /\ exp.now \in Nat
    BY DEF Inv, HandsOK, TypeOK, Expirations
  <2>2. expireDpc # None => expireDpc <= tick'
    BY <1>2, <1>4, <2>1
  <2>3. exp.pc \in {"dpc", "hand"} => exp.arg <= tick'
    BY <1>2, <1>4, <2>1
  <2>4. exp.pc \in {"hand", "scan"} => exp.now <= time'
    BY <1>2, <1>4, <2>1
  <2> QED BY <1>1, <1>9, <2>1, <2>2, <2>3, <2>4 DEF HandsOK, OnlyClock
<1>11. TableOK' /\ ListsOK' /\ LocalOK' /\ InsertedOK' /\ LinkingOK' /\ LockOK' /\ NoneLost'
  BY <1>1, <1>4, OnlyClockKeeps
<1>12. Keeps
  <2> SUFFICES ASSUME NEW b \in Buckets, NoneMissed(b), NEW x \in Items(table[b]), due[x] <= time'
               PROVE  Coming(b)' \/ (Scanning(b)' /\ due[x] <= exp.now) \/ Rechecked(x)
    BY <1>1 DEF Keeps, NoneMissed, OnlyClock, Rechecked
  <2>1. x \in Timers /\ due[x] \in Int /\ Index(due[x]) = b
    BY TabledTimers DEF Inv, TypeOK, TableOK
  <2>2. CASE due[x] <= time
    <3>1. Coming(b) \/ (Scanning(b) /\ due[x] <= exp.now) \/ Rechecked(x)
      BY <2>2 DEF NoneMissed
    <3>2. \A arg \in Nat : b \in Cover(arg) => b \in Cover(arg)'
      BY <1>2, <1>4, CoverGrows
    <3>3. Items(clock) = {}
      BY <1>1 DEF Items
    <3>4. expireDpc \in Nat \cup {None} /\ exp.arg \in Nat
      BY DEF Inv, TypeOK, Expirations
    <3>5. Coming(b) => Coming(b)'
      BY <1>1, <3>2, <3>3, <3>4 DEF Coming, OnlyClock
    <3>6. Scanning(b) => Scanning(b)'
      BY <1>1, <3>2, <3>4 DEF Scanning, OnlyClock, Lists
    <3> QED BY <3>1, <3>5, <3>6
  <2>3. CASE due[x] > time
    <3>1. PICK d \in Int : d = due[x]
      BY <2>1
    <3>2. CASE d < P + MaxIncrement
      <4>1. P <= d
        BY <1>2, <1>3, <2>1, <2>3, <3>1
      <4>2. d \div MaxIncrement = tick
        BY <1>2, <1>3, <3>2, <4>1, TickOf
      <4>3. b = tick % TableSize
        BY <2>1, <3>1, <4>2 DEF Index
      <4>4. tick \in Items(clock')
        BY <1>1 DEF Items
      <4> QED BY <4>3, <4>4 DEF Coming
    <3>3. CASE ~(d < P + MaxIncrement)
      <4>1. full
        BY <1>1, <1>2, <1>3, <3>1, <3>3
      <4>2. P + MaxIncrement <= d /\ d < P + MaxIncrement + MaxIncrement
        BY <1>1, <1>2, <1>3, <3>1, <3>3
      <4>3. d \div MaxIncrement = tick + 1
        <5>1. PICK n \in Nat : n = tick + 1
          BY <1>2
        <5> QED BY <1>2, <1>3, <4>2, <5>1, TickOf
      <4>4. b = (tick + 1) % TableSize
        BY <2>1, <3>1, <4>3 DEF Index
      <4>5. tick + 1 \in Items(clock')
        BY <1>1, <4>1 DEF Items
      <4> QED BY <4>4, <4>5 DEF Coming
    <3> QED BY <3>2, <3>3
  <2>4. due[x] <= time \/ due[x] > time
    BY <1>2, <2>1
  <2> QED BY <2>2, <2>3, <2>4
<1> QED BY <1>7, <1>8, <1>10, <1>11, <1>12 DEF Inv

(* The clock has looked at a list, or goes on looking at it.  If it has found *)
(* a timer that has expired, the expiration DPC is on its way with a hand no  *)
(* later than this one.  If not, the list may hold a timer that is missed.    *)
Looking == UNCHANGED <<clock, expireDpc>>
Found == clock' = <<>> /\ expireDpc' = IF expireDpc = None THEN Head(clock) ELSE expireDpc
Looks ==
  /\ clock # <<>> /\ OnlyClock /\ UNCHANGED <<time, tick, offset>>
  /\ look' \in [first: Timers \cup {None}, equal: BOOLEAN]
  /\ (look'.equal => look'.first # None) /\ (look'.first # None => clock' # <<>>)
  /\ \/ Found
     \/ clock' = Tail(clock) /\ UNCHANGED expireDpc
     \/ Looking

(* What a step of the interrupt keeps.                                        *)
LEMMA LooksInv ==
  ASSUME Inv, Looks
  PROVE  /\ Inv'
         /\ \A b \in Buckets : NoneMissed(b) =>
              NoneMissed(b)' \/ (~Found /\ clock' = Tail(clock) /\ Head(clock) % TableSize = b)
<1> DEFINE h == Head(clock)
<1>1. /\ clock # <<>> /\ OnlyClock /\ UNCHANGED <<time, tick, offset>>
      /\ \/ clock' = <<>> /\ expireDpc' = (IF expireDpc = None THEN h ELSE expireDpc)
         \/ clock' = Tail(clock) /\ UNCHANGED expireDpc
         \/ Looking
  BY DEF Looks, Found
<1>2. /\ tick \in Nat /\ time \in Int /\ TableSize \in Nat \ {0}
      /\ expireDpc \in Nat \cup {None} /\ None \notin Nat
      /\ exp.arg \in Nat /\ clock \in Seq(Nat)
  BY TimerAssumption DEF Inv, TypeOK, Expirations
<1>3. \/ clock = <<tick>> /\ Tail(clock) = <<>> /\ h = tick
      \/ tick > 0 /\ clock = <<tick - 1, tick>> /\ Tail(clock) = <<tick>> /\ h = tick - 1
  <2>1. CASE clock = <<tick>>
    BY <1>2, <2>1, ShortLists
  <2>2. CASE tick > 0 /\ clock = <<tick - 1, tick>>
    <3>1. tick - 1 \in Nat
      BY <1>2, <2>2
    <3> QED BY <1>2, <2>2, <3>1, ShortLists
  <2> QED BY <1>1, <2>1, <2>2 DEF Inv, ClockOK
<1>4. h \in Nat /\ h <= tick /\ tick - h <= 1
  BY <1>2, <1>3
<1>5. expireDpc # None => expireDpc <= h
  BY <1>1 DEF Inv, HandsOK
<1>6. clock' \in Seq(Nat) /\ (clock' \in {<<>>, <<tick>>} \/ clock' = clock)
  <2>1. <<>> \in Seq(Nat) /\ <<tick>> \in Seq(Nat)
    BY <1>2
  <2> QED BY <1>1, <1>2, <1>3, <2>1 DEF Looking
<1>7. expireDpc' \in Nat \cup {None}
  BY <1>1, <1>2, <1>4 DEF Looking
<1>8. TypeOK'
  <2>1. /\ time' \in 0..MaxTime /\ tick' \in Nat /\ offset' \in 1..MaxIncrement
        /\ look' \in [first: Timers \cup {None}, equal: BOOLEAN]
    BY <1>1 DEF Inv, TypeOK, Looks
  <2> QED BY <1>1, <1>6, <1>7, <2>1, OnlyClockTypes DEF Inv
<1>9. ClockOK'
  BY <1>1, <1>6 DEF Inv, ClockOK, Looks
<1>10. HandsOK'
  <2>1. expireDpc' # None => expireDpc' <= h /\ expireDpc' <= tick
    BY <1>1, <1>2, <1>4, <1>5 DEF Looking
  <2>2. clock' # <<>> => Head(clock') = tick \/ Head(clock') = h
    BY <1>6
  <2>3. expireDpc' # None /\ clock' # <<>> => expireDpc' <= Head(clock')
    BY <2>1, <2>2
  <2> QED BY <1>1, <1>2, <2>1, <2>3 DEF Inv, HandsOK, OnlyClock
<1>11. TableOK' /\ ListsOK' /\ LocalOK' /\ InsertedOK' /\ LinkingOK' /\ LockOK' /\ NoneLost'
  BY <1>1, <1>2, OnlyClockKeeps
<1>12. ASSUME NEW b \in Buckets, NoneMissed(b), Found \/ ~(clock' = Tail(clock) /\ h % TableSize = b)
       PROVE  NoneMissed(b)'
  <2> SUFFICES ASSUME NEW x \in Items(table[b]), due[x] <= time
               PROVE  Coming(b)' \/ (Scanning(b)' /\ due[x] <= exp.now) \/ Rechecked(x)
    BY <1>1 DEF NoneMissed, OnlyClock, Rechecked
  <2>1. Coming(b) \/ (Scanning(b) /\ due[x] <= exp.now) \/ Rechecked(x)
    BY <1>12 DEF NoneMissed
  <2>2. \A arg : Cover(arg)' = Cover(arg)
    BY <1>1 DEF Cover, Lists
  <2>3. Scanning(b)' = Scanning(b)
    BY <1>1, <2>2 DEF Scanning, OnlyClock, Lists
  <2>4. CASE exp.pc = "dpc" /\ b \in Cover(exp.arg)
    <3>1. UNCHANGED exp
      BY <1>1 DEF OnlyClock
    <3>2. Cover(exp.arg)' = Cover(exp.arg)
      BY <1>1, <3>1 DEF Cover, Lists
    <3> QED BY <2>4, <3>1, <3>2 DEF Coming
  <2>5. CASE expireDpc # None /\ b \in Cover(expireDpc)
    <3>1. UNCHANGED expireDpc
      BY <1>1, <2>5 DEF Looking
    <3> QED BY <2>2, <2>5, <3>1 DEF Coming
  <2>6. CASE \E g \in Items(clock) : g % TableSize = b
    <3>1. PICK g \in Items(clock) : g % TableSize = b
      BY <2>6
    <3>2. g \in h..tick
      <4>1. tick > 0 => tick - 1 \in Nat
        BY <1>2
      <4>2. g = tick \/ (g = tick - 1 /\ h = tick - 1)
        <5>1. CASE clock = <<tick>>
          <6>1. Items(clock) = {tick}
            BY <1>2, <5>1, ShortLists
          <6> QED BY <3>1, <6>1
        <5>2. CASE tick > 0 /\ clock = <<tick - 1, tick>> /\ h = tick - 1
          <6>1. Items(clock) = {tick - 1, tick}
            BY <1>2, <4>1, <5>2, ShortLists
          <6> QED BY <3>1, <5>2, <6>1
        <5> QED BY <1>3, <5>1, <5>2
      <4> QED BY <1>2, <1>4, <4>2
    <3>3. CASE clock' = <<>> /\ expireDpc' = (IF expireDpc = None THEN h ELSE expireDpc)
      <4>1. PICK a \in Nat : a = expireDpc' /\ a <= h /\ expireDpc' # None
        BY <1>2, <1>4, <1>5, <3>3
      <4>2. g \in a..tick
        BY <1>2, <1>4, <3>2, <4>1
      <4>3. b \in Cover(a)
        BY <3>1, <4>2 DEF Cover, Lists
      <4> QED BY <2>2, <4>1, <4>3 DEF Coming
    <3>4. CASE ~Found /\ clock' = Tail(clock) /\ UNCHANGED expireDpc
      <4>1. g # h
        BY <1>12, <3>1, <3>4
      <4>2. clock' = <<tick>> /\ g = tick
        <5>1. h # tick
          BY <1>2, <3>2, <4>1
        <5>2. clock' = <<tick>> /\ h = tick - 1
          BY <1>3, <3>4, <5>1
        <5> QED BY <1>2, <3>2, <4>1, <5>2
      <4>3. tick \in Items(clock')
        BY <4>2 DEF Items
      <4> QED BY <3>1, <4>2, <4>3 DEF Coming
    <3>5. CASE Looking
      BY <3>1, <3>5 DEF Coming, Looking
    <3> QED BY <1>1, <3>3, <3>4, <3>5 DEF Found
  <2> QED BY <2>1, <2>3, <2>4, <2>5, <2>6 DEF Coming
<1> QED BY <1>8, <1>9, <1>10, <1>11, <1>12 DEF Inv

(* The three steps of a look.                                                 *)
LEMMA LookSteps ==
  ASSUME Inv, ReadFirst \/ CompareHigh \/ CompareLow
  PROVE  Looks
<1>1. /\ look \in [first: Timers \cup {None}, equal: BOOLEAN]
      /\ NoLook \in [first: Timers \cup {None}, equal: BOOLEAN]
      /\ table \in [Buckets -> Seq(Timers)] /\ clock \in Seq(Nat)
      /\ None \notin Timers /\ NoLook.first = None /\ NoLook.equal = FALSE
      /\ (look.equal => look.first # None) /\ (look.first # None => clock # <<>>)
  BY TimerAssumption DEF Inv, TypeOK, NoLook, ClockOK
<1>2. OnlyClock /\ UNCHANGED <<time, tick, offset>>
  BY DEF ReadFirst, CompareHigh, CompareLow, others, OnlyClock
<1>3. ASSUME NotExpired \/ HasExpired, clock # <<>>
      PROVE  Looks
  BY <1>1, <1>2, <1>3 DEF NotExpired, HasExpired, Looks, Found
<1>4. CASE ReadFirst
  <2>1. CASE NotExpired
    BY <1>3, <1>4, <2>1 DEF ReadFirst
  <2>2. CASE ~NotExpired
    <3>1. PICK list : list = table[Head(clock) % TableSize]
      OBVIOUS
    <3>2. /\ clock # <<>> /\ list # <<>> /\ look' = [look EXCEPT !.first = Head(list)]
          /\ UNCHANGED <<clock, expireDpc>>
      BY <1>4, <2>2, <3>1 DEF ReadFirst
    <3>3. Head(clock) \in Nat
      BY <1>1, <3>2
    <3>4. Head(clock) % TableSize \in Buckets
      BY <3>3, ListOfHand
    <3>5. Head(list) \in Timers
      BY <1>1, <3>1, <3>2, <3>4
    <3>6. look' \in [first: Timers \cup {None}, equal: BOOLEAN] /\ look'.first # None
      BY <1>1, <3>2, <3>5
    <3> QED BY <1>2, <3>2, <3>6 DEF Looks, Looking
  <2> QED BY <2>1, <2>2
<1>5. CASE CompareHigh
  <2>1. clock # <<>>
    BY <1>1, <1>5 DEF CompareHigh
  <2>2. CASE NotExpired \/ HasExpired
    BY <1>3, <2>1, <2>2
  <2>3. CASE look' = [look EXCEPT !.equal = TRUE] /\ UNCHANGED <<clock, expireDpc>>
    <3>1. look' \in [first: Timers \cup {None}, equal: BOOLEAN] /\ look'.first # None
      BY <1>1, <1>5, <2>3 DEF CompareHigh
    <3> QED BY <1>2, <2>1, <2>3, <3>1 DEF Looks, Looking
  <2> QED BY <1>5, <2>2, <2>3 DEF CompareHigh
<1>6. CASE CompareLow
  <2>1. clock # <<>> /\ (NotExpired \/ HasExpired)
    BY <1>1, <1>6 DEF CompareLow
  <2> QED BY <1>3, <2>1
<1> QED BY <1>4, <1>5, <1>6

-----------------------------------------------------------------------------
(* Steps that are not the clock's.                                            *)

Still == UNCHANGED <<time, tick, offset, clock, look, expireDpc>>

(* KiTimerExpiration does not go on, if it is under way.                      *)
Searches == {"dpc", "hand", "scan"}
SameSearch ==
  \/ exp'.pc = exp.pc /\ exp'.arg = exp.arg /\ exp'.limit = exp.limit /\ exp'.now = exp.now
  \/ exp.pc \notin Searches /\ exp'.pc \notin Searches

(* What is to be looked at still is.                                          *)
LEMMA SearchKept ==
  ASSUME Still, SameSearch, NEW b
  PROVE  /\ Coming(b)' <=> Coming(b)
         /\ Scanning(b) => Scanning(b)' /\ exp'.now = exp.now
<1>1. \A arg : Cover(arg)' = Cover(arg)
  BY DEF Still, Cover, Lists
<1>2. CASE exp.pc \notin Searches /\ exp'.pc \notin Searches
  <2>1. ~Scanning(b)
    BY <1>2 DEF Scanning, Searches
  <2>2. Coming(b)' <=> Coming(b)
    BY <1>2 DEF Coming, Searches, Still, Cover, Lists
  <2> QED BY <2>1, <2>2
<1>3. CASE exp'.pc = exp.pc /\ exp'.arg = exp.arg /\ exp'.limit = exp.limit /\ exp'.now = exp.now
  <2>1. Coming(b)' <=> Coming(b)
    BY <1>3 DEF Coming, Still, Cover, Lists
  <2>2. Scanning(b)' <=> Scanning(b)
    BY <1>3 DEF Scanning, Still, Cover, Lists
  <2> QED BY <1>3, <2>1, <2>2
<1> QED BY <1>2, <1>3 DEF SameSearch

(* The clock and the hands stay if no search goes on.                         *)
LEMMA StillKeeps ==
  ASSUME Inv, Still, SameSearch
  PROVE  ClockOK' /\ HandsOK'
<1>1. ClockOK'
  BY DEF Inv, Still, ClockOK
<1>2. HandsOK'
  BY DEF Inv, Still, HandsOK, SameSearch, Searches
<1> QED BY <1>1, <1>2

(* Nothing is missed if only timers that are due leave the table.             *)
LEMMA MissedShrunk ==
  ASSUME Inv, Still, SameSearch, Shrunk,
         \A x : Rechecked(x) => Rechecked(x)' \/ ~Tabled(x)' \/ ~(due[x] <= time)
  PROVE  Keeps
<1> SUFFICES ASSUME NEW b \in Buckets, NoneMissed(b), NEW x \in Items(table'[b]), due'[x] <= time'
             PROVE  Coming(b)' \/ (Scanning(b)' /\ due'[x] <= exp'.now) \/ Rechecked(x)'
  BY DEF Keeps, NoneMissed
<1>1. x \in Items(table[b]) /\ due'[x] = due[x] /\ Tabled(x)'
  BY DEF Shrunk, Tabled
<1>2. due[x] <= time
  BY <1>1 DEF Still
<1>3. Coming(b) \/ (Scanning(b) /\ due[x] <= exp.now) \/ Rechecked(x)
  BY <1>1, <1>2 DEF NoneMissed
<1> QED BY <1>1, <1>2, <1>3, SearchKept

(* Who inserts a timer.                                                       *)
LEMMA Inserting ==
  ASSUME Inv, ins.stage # "none"
  PROVE  /\ ins.timer \in Timers
         /\ \/ lock = "setter" /\ ins.then \in {"set", "period"} /\ exp.pc \in {"idle", "dpc", "run"}
            \/ lock = "expirer" /\ ins.then \in {"expire", "system"} /\ exp.pc = "insert"
<1>1. ins # NoInsertion
  BY DEF NoInsertion
<1>2. lock \in {"free", "setter", "expirer"}
  BY DEF Inv, TypeOK
<1> QED BY <1>1, <1>2 DEF Inv, LockOK

(* The list of a due time is one of the table.                                *)
LEMMA IndexOf ==
  ASSUME NEW d \in Int
  PROVE  Index(d) \in Buckets
<1>1. d \div MaxIncrement \in Int
  BY TimerAssumption
<1> QED BY <1>1, ListOfHand DEF Index

(* KiTimerListExpire captures the DPC of x.                                   *)
LEMMA CaptureFacts ==
  ASSUME Inv, NEW x \in Timers, NEW e \in Expirations, Capture(x, e)
  PROVE  /\ exp' \in Expirations /\ exp'.pc \in {"list", "run"} /\ (exp'.pc = "run" => exp'.full)
         /\ exp'.expired = e.expired /\ exp'.absolutes = e.absolutes
         /\ lock' = IF exp'.pc = "run" THEN "free" ELSE "expirer"
         /\ queued \subseteq queued' /\ queued' \subseteq WithDpc
         /\ Items(e.dpcs) \subseteq Items(exp'.dpcs)
         /\ x \in WithDpc => x \in queued' \/ x \in Items(exp'.dpcs)
<1>1. e.dpcs \in Seq(Timers) /\ Len(e.dpcs) \in Nat
  BY LenProperties DEF Expirations
<1>2. queued \subseteq queued' /\ queued' \subseteq WithDpc /\ (x \in Targeted => x \in queued')
  <2>1. queued \subseteq WithDpc /\ Targeted \subseteq WithDpc
    BY TimerAssumption DEF Inv, TypeOK
  <2> QED BY <2>1 DEF Capture, KeInsertQueueDpc
<1>3. CASE x \in WithDpc \ Targeted
  <2>1. /\ exp' = [e EXCEPT !.dpcs = Append(@, x), !.full = Len(e.dpcs) + 1 = BatchSize,
                            !.pc = IF Len(e.dpcs) + 1 = BatchSize THEN "run" ELSE "list"]
        /\ lock' = IF Len(e.dpcs) + 1 = BatchSize THEN "free" ELSE "expirer"
    BY <1>3 DEF Capture
  <2>2. PICK f \in BOOLEAN : f = (Len(e.dpcs) + 1 = BatchSize)
    OBVIOUS
  <2>3. PICK d \in Seq(Timers) : d = Append(e.dpcs, x)
    BY <1>1, AppendProperties
  <2>4. /\ exp' = [e EXCEPT !.dpcs = d, !.full = f, !.pc = IF f THEN "run" ELSE "list"]
        /\ lock' = IF f THEN "free" ELSE "expirer"
    BY <2>1, <2>2, <2>3
  <2>5. /\ exp' \in Expirations /\ exp'.pc = (IF f THEN "run" ELSE "list") /\ exp'.dpcs = d
        /\ exp'.full = f
        /\ exp'.expired = e.expired /\ exp'.absolutes = e.absolutes
    BY <2>4 DEF Expirations
  <2>6. Items(e.dpcs) \subseteq Items(d) /\ x \in Items(d)
    <3>1. /\ Len(d) = Len(e.dpcs) + 1 /\ d[Len(e.dpcs) + 1] = x
          /\ \A i \in 1..Len(e.dpcs) : d[i] = e.dpcs[i]
      BY <1>1, <2>3, AppendProperties
    <3> QED BY <1>1, <3>1 DEF Items
  <2> QED BY <1>2, <2>4, <2>5, <2>6
<1>4. CASE x \notin WithDpc \ Targeted
  <2>1. exp' = [e EXCEPT !.pc = "list"] /\ lock' = "expirer"
    BY <1>4 DEF Capture
  <2>2. /\ exp' \in Expirations /\ exp'.pc = "list" /\ exp'.dpcs = e.dpcs
        /\ exp'.expired = e.expired /\ exp'.absolutes = e.absolutes
    BY <2>1 DEF Expirations
  <2> QED BY <1>2, <1>4, <2>1, <2>2
<1> QED BY <1>3, <1>4

-----------------------------------------------------------------------------
(* Setting and cancelling.                                                    *)

(* The fields of a timer that is set, and of one that no longer is.           *)
OnlyFieldsOf(x) ==
  /\ due' \in [Timers -> Int] /\ period' \in [Timers -> Nat]
  /\ inserted' \in [Timers -> BOOLEAN] /\ absolute' \in [Timers -> BOOLEAN]
  /\ \A y \in Timers \ {x} : due'[y] = due[y] /\ inserted'[y] = inserted[y]

(* KiInsertTreeTimer writes the fields of x, and begins its insertion.        *)
LEMMA KiInsertTreeTimerFacts ==
  ASSUME TypeOK, NEW x \in Timers, NEW k \in Int, NEW abs \in BOOLEAN, NEW p \in Nat, NEW then,
         KiInsertTreeTimer(x, k, abs, p, then)
  PROVE  /\ OnlyFieldsOf(x) /\ inserted'[x] = TRUE
         /\ ins' = [timer |-> x, stage |-> "link", then |-> then]
<1>1. time + k \in Int
  BY TimerAssumption DEF TypeOK
<1>2. due' \in [Timers -> Int] /\ \A y \in Timers \ {x} : due'[y] = due[y]
  BY <1>1 DEF TypeOK, KiInsertTreeTimer
<1>3. /\ inserted' \in [Timers -> BOOLEAN] /\ inserted'[x] = TRUE
      /\ \A y \in Timers \ {x} : inserted'[y] = inserted[y]
  BY DEF TypeOK, KiInsertTreeTimer
<1>4. period' \in [Timers -> Nat] /\ absolute' \in [Timers -> BOOLEAN]
  BY DEF TypeOK, KiInsertTreeTimer
<1> QED BY <1>2, <1>3, <1>4 DEF OnlyFieldsOf, KiInsertTreeTimer

(* NotSet writes the fields of x.                                             *)
LEMMA NotSetFacts ==
  ASSUME TypeOK, NEW x \in Timers, NotSet(x)
  PROVE  OnlyFieldsOf(x) /\ inserted'[x] = FALSE
<1>1. due' \in [Timers -> Int] /\ \A y \in Timers \ {x} : due'[y] = due[y]
  BY DEF TypeOK, NotSet
<1>2. /\ inserted' \in [Timers -> BOOLEAN] /\ inserted'[x] = FALSE
      /\ \A y \in Timers \ {x} : inserted'[y] = inserted[y]
  BY DEF TypeOK, NotSet
<1>3. period' \in [Timers -> Nat] /\ absolute' \in [Timers -> BOOLEAN]
  BY DEF TypeOK, NotSet
<1> QED BY <1>1, <1>2, <1>3 DEF OnlyFieldsOf

(* A timer that leaves its list is no longer Inserted, or inserted again.     *)
LEMMA Leaves ==
  ASSUME Inv, NEW x \in Timers, \A y \in Timers : Linked(y)' <=> Linked(y) /\ y # x,
         \A y \in Timers \ {x} : ~Linking(y) /\ ~Linking(y)' /\ inserted'[y] = inserted[y],
         inserted'[x] <=> Linking(x)'
  PROVE  InsertedOK' /\ LinkingOK'
<1>1. ASSUME NEW y \in Timers
      PROVE  (inserted'[y] <=> Linked(y)' \/ Linking(y)') /\ (Linking(y)' => ~Linked(y)')
  <2>1. CASE y = x
    BY <2>1
  <2>2. CASE y # x
    <3>1. inserted[y] <=> Linked(y) \/ Linking(y)
      BY DEF Inv, InsertedOK
    <3>2. inserted'[y] = inserted[y]
      BY <2>2
    <3> QED BY <2>2, <3>1, <3>2
  <2> QED BY <2>1, <2>2
<1> QED BY <1>1 DEF InsertedOK, LinkingOK

(* A timer that changes lists stays Inserted.                                 *)
LEMMA Moves ==
  ASSUME Inv, \A y \in Timers : Linked(y)' <=> Linked(y),
         \A y \in Timers : Linking(y)' <=> Linking(y), UNCHANGED inserted
  PROVE  InsertedOK' /\ LinkingOK'
BY DEF Inv, InsertedOK, LinkingOK

(* KiRemoveTreeTimer: x leaves whatever list it is in, and no search stops.   *)
LEMMA KiRemoveTreeTimerFacts ==
  ASSUME Inv, NEW x \in Timers, table' = Unlinked(x), exp' = Unexpired(x), OnlyFieldsOf(x)
  PROVE  /\ Shrunk /\ TableOK' /\ exp' \in Expirations /\ SameSearch
         /\ exp'.pc = exp.pc /\ exp'.dpcs = exp.dpcs /\ exp'.full = exp.full
         /\ (exp.expired = <<>> => exp'.expired = <<>>) /\ (exp.absolutes = <<>> => exp'.absolutes = <<>>)
         /\ Once(exp'.expired) /\ Items(exp'.expired) = Items(exp.expired) \ {x}
         /\ Once(exp'.absolutes) /\ Items(exp'.absolutes) = Items(exp.absolutes) \ {x}
         /\ \A y : Tabled(y)' <=> Tabled(y) /\ y # x
         /\ \A y : Linked(y)' <=> Linked(y) /\ y # x
<1>1. Shrunk /\ \A y : Tabled(y)' <=> Tabled(y) /\ y # x
  BY TableUnlinked DEF Inv, OnlyFieldsOf
<1>2. TableOK'
  BY <1>1, TableShrunk DEF Inv
<1>3. /\ exp.expired \in Seq(Timers) /\ exp.absolutes \in Seq(Timers) /\ exp \in Expirations
      /\ Once(exp.expired) /\ Once(exp.absolutes)
  BY DEF Inv, TypeOK, Expirations, ListsOK
<1>4. PICK q : q = Without(exp.expired, x)
  OBVIOUS
<1>5. PICK r : r = Without(exp.absolutes, x)
  OBVIOUS
<1>6. /\ q \in Seq(Timers) /\ Once(q) /\ Items(q) = Items(exp.expired) \ {x}
      /\ r \in Seq(Timers) /\ Once(r) /\ Items(r) = Items(exp.absolutes) \ {x}
  BY <1>3, <1>4, <1>5, WithoutFacts
<1>7. exp' = [exp EXCEPT !.expired = q, !.absolutes = r]
  BY <1>4, <1>5 DEF Unexpired
<1>8. /\ exp' \in Expirations /\ exp'.expired = q /\ exp'.absolutes = r
      /\ exp'.pc = exp.pc /\ exp'.dpcs = exp.dpcs /\ exp'.arg = exp.arg /\ exp'.limit = exp.limit
      /\ exp'.now = exp.now /\ exp'.full = exp.full
  BY <1>3, <1>6, <1>7 DEF Expirations
<1>9. \A y : Linked(y)' <=> Linked(y) /\ y # x
  BY <1>1, <1>6, <1>8 DEF Linked
<1>10. Without(<<>>, x) = <<>>
  BY DEF Without, Members
<1> QED BY <1>1, <1>2, <1>4, <1>5, <1>6, <1>8, <1>9, <1>10 DEF SameSearch

(* Nobody inserts a timer while the dispatcher lock is free.                  *)
LEMMA FreeLock ==
  ASSUME Inv, lock = "free"
  PROVE  /\ ins = NoInsertion /\ exp.pc \in {"idle", "dpc", "run"}
         /\ \A y : ~Linking(y) /\ ~Rechecked(y)
<1>1. ins = NoInsertion /\ exp.pc \in {"idle", "dpc", "run"}
  BY DEF Inv, LockOK
<1> QED BY <1>1 DEF NoInsertion, Linking, Rechecked

(* What SetExpired leaves to do.                                              *)
LEMMA SetExpiredFacts ==
  ASSUME TypeOK, NEW x \in Timers, NEW p \in Nat, SetExpired(x, p)
  PROVE  /\ OnlyFieldsOf(x)
         /\ queued \subseteq queued' /\ queued' \subseteq WithDpc /\ owed' \subseteq WithDpc
         /\ owed' \subseteq owed \cup {x} /\ (x \in WithDpc => x \in queued')
         /\ \/ lock' = "free" /\ ins' = NoInsertion /\ inserted'[x] = FALSE
            \/ /\ lock' = "setter" /\ inserted'[x] = TRUE
               /\ ins' = [timer |-> x, stage |-> "link", then |-> "period"]
<1>1. /\ queued \subseteq queued' /\ queued' \subseteq WithDpc /\ owed' \subseteq WithDpc
      /\ owed' \subseteq owed \cup {x} /\ (x \in WithDpc => x \in queued')
  BY DEF SetExpired, KeInsertQueueDpc, Expires, TypeOK
<1>2. CASE p = 0 /\ lock' = "free" /\ ins' = NoInsertion /\ NotSet(x)
  BY <1>1, <1>2, NotSetFacts
<1>3. CASE p # 0 /\ lock' = "setter" /\ KiInsertTreeTimer(x, p, FALSE, p, "period")
  <2>1. p \in Int
    OBVIOUS
  <2> QED BY <1>1, <1>3, <2>1, KiInsertTreeTimerFacts
<1> QED BY <1>2, <1>3 DEF SetExpired

(* A step of KeSetTimerEx or KeCancelTimer.                                   *)
LEMMA SetterStep ==
  ASSUME Inv, NEW x \in Timers, lock = "free", Still, OnlyFieldsOf(x),
         table' = Unlinked(x), exp' = Unexpired(x),
         queued \subseteq queued', queued' \subseteq WithDpc, owed' \subseteq WithDpc,
         \A y \in owed' : y \in owed \/ y \in queued',
         \/ lock' = "free" /\ ins' = NoInsertion /\ inserted'[x] = FALSE
         \/ /\ lock' = "setter" /\ inserted'[x] = TRUE
            /\ \E then \in {"set", "period"} : ins' = [timer |-> x, stage |-> "link", then |-> then]
  PROVE  Inv' /\ Keeps
<1>1. /\ Shrunk /\ TableOK' /\ exp' \in Expirations /\ SameSearch
      /\ exp'.pc = exp.pc /\ exp'.dpcs = exp.dpcs /\ exp'.full = exp.full
      /\ (exp.expired = <<>> => exp'.expired = <<>>) /\ (exp.absolutes = <<>> => exp'.absolutes = <<>>)
      /\ Once(exp'.expired) /\ Items(exp'.expired) = Items(exp.expired) \ {x}
      /\ Once(exp'.absolutes) /\ Items(exp'.absolutes) = Items(exp.absolutes) \ {x}
      /\ \A y : Tabled(y)' <=> Tabled(y) /\ y # x
      /\ \A y : Linked(y)' <=> Linked(y) /\ y # x
  BY KiRemoveTreeTimerFacts
<1>2. ins = NoInsertion /\ exp.pc \in {"idle", "dpc", "run"} /\ \A y : ~Linking(y) /\ ~Rechecked(y)
  BY FreeLock
<1>3. /\ ins' \in [timer: Timers \cup {None}, stage: {"none", "link", "recheck"},
                   then: {"none", "set", "period", "expire", "system"}]
      /\ ins'.stage # "recheck" /\ (\A y : Linking(y)' => y = x)
      /\ (inserted'[x] <=> Linking(x)')
  <2>1. CASE lock' = "free" /\ ins' = NoInsertion /\ inserted'[x] = FALSE
    BY <2>1 DEF NoInsertion, Linking
  <2>2. CASE /\ lock' = "setter" /\ inserted'[x] = TRUE
             /\ \E then \in {"set", "period"} : ins' = [timer |-> x, stage |-> "link", then |-> then]
    BY <2>2 DEF Linking
  <2> QED BY <2>1, <2>2
<1>4. TypeOK'
  <2>1. lock' \in {"free", "setter", "expirer"} /\ table' \in [Buckets -> Seq(Timers)]
    BY <1>1 DEF Shrunk
  <2>2. /\ time' \in 0..MaxTime /\ tick' \in Nat /\ offset' \in 1..MaxIncrement /\ clock' \in Seq(Nat)
        /\ expireDpc' \in Nat \cup {None} /\ look' \in [first: Timers \cup {None}, equal: BOOLEAN]
    BY DEF Still, Inv, TypeOK
  <2> QED BY <1>1, <1>3, <2>1, <2>2 DEF TypeOK, OnlyFieldsOf
<1>5. ClockOK' /\ HandsOK'
  BY <1>1, StillKeeps
<1>6. LockOK'
  <2>1. CASE lock' = "free" /\ ins' = NoInsertion
    BY <1>1, <1>2, <2>1 DEF LockOK, NoInsertion
  <2>2. CASE /\ lock' = "setter"
             /\ \E then \in {"set", "period"} : ins' = [timer |-> x, stage |-> "link", then |-> then]
    BY <1>1, <1>2, <2>2 DEF LockOK
  <2> QED BY <2>1, <2>2
<1>7. ListsOK'
  <2>1. \A y \in Items(exp'.expired) :
          /\ y \in Items(exp.expired) /\ y \in Timers \ {x}
          /\ due'[y] = due[y] /\ ~Tabled(y) /\ y \notin Items(exp.absolutes) /\ due[y] <= time
    <3>1. Items(exp.expired) \subseteq Timers
      BY ItemsOf DEF Inv, TypeOK, Expirations
    <3> QED BY <1>1, <3>1 DEF Inv, ListsOK, OnlyFieldsOf
  <2>2. \A y \in Items(exp'.expired) : due'[y] <= time'
    BY <2>1 DEF Still
  <2>3. \A y \in Items(exp'.absolutes) : ~Tabled(y)
    BY <1>1 DEF Inv, ListsOK
  <2> QED BY <1>1, <1>3, <2>1, <2>2, <2>3 DEF ListsOK
<1>8. InsertedOK' /\ LinkingOK'
  <2>1. \A y \in Timers \ {x} : ~Linking(y) /\ ~Linking(y)' /\ inserted'[y] = inserted[y]
    BY <1>2, <1>3 DEF OnlyFieldsOf
  <2> QED BY <1>1, <1>3, <2>1, Leaves
<1>9. Keeps
  BY <1>1, <1>2, MissedShrunk
<1>10. NoneLost'
  <2>1. \A y \in owed : y \in queued \/ y \in Items(exp.dpcs)
    BY <1>2 DEF Inv, NoneLost, NoInsertion
  <2> QED BY <1>1, <2>1 DEF NoneLost
<1>11. LocalOK'
  <2>1. /\ exp.pc = "idle" \/ (exp.pc = "run" /\ ~exp.full) => exp.expired = <<>>
        /\ exp.absolutes = <<>> /\ (exp.pc \in {"idle", "dpc", "hand", "scan"} => exp.dpcs = <<>>)
    BY <1>2 DEF Inv, LocalOK, NoInsertion
  <2> QED BY <1>1, <2>1 DEF LocalOK
<1> QED BY <1>1, <1>4, <1>5, <1>6, <1>7, <1>8, <1>9, <1>10, <1>11 DEF Inv

(* KeSetTimerEx, whether the timer is still to come or has expired already.   *)
LEMMA KeSetTimerExInv ==
  ASSUME Inv, NEW x \in Timers, NEW k \in Int, NEW abs \in BOOLEAN, NEW p \in Nat,
         KeSetTimerEx(x, k, abs, p)
  PROVE  Inv' /\ Keeps
<1>1. lock = "free" /\ table' = Unlinked(x) /\ exp' = Unexpired(x) /\ Still
  BY DEF KeSetTimerEx, Still, clockVars
<1>2. TypeOK /\ queued \subseteq WithDpc /\ owed \subseteq WithDpc
  BY DEF Inv, TypeOK
<1>3. CASE lock' = "setter" /\ KiInsertTreeTimer(x, k, abs, p, "set") /\ UNCHANGED <<queued, owed>>
  <2>1. /\ OnlyFieldsOf(x) /\ inserted'[x] = TRUE
        /\ ins' = [timer |-> x, stage |-> "link", then |-> "set"]
    BY <1>2, <1>3, KiInsertTreeTimerFacts
  <2> QED BY <1>1, <1>2, <1>3, <2>1, SetterStep
<1>4. CASE SetExpired(x, p)
  <2>1. /\ OnlyFieldsOf(x)
        /\ queued \subseteq queued' /\ queued' \subseteq WithDpc /\ owed' \subseteq WithDpc
        /\ owed' \subseteq owed \cup {x} /\ (x \in WithDpc => x \in queued')
        /\ \/ lock' = "free" /\ ins' = NoInsertion /\ inserted'[x] = FALSE
           \/ /\ lock' = "setter" /\ inserted'[x] = TRUE
              /\ ins' = [timer |-> x, stage |-> "link", then |-> "period"]
    BY <1>2, <1>4, SetExpiredFacts
  <2>2. \A y \in owed' : y \in owed \/ y \in queued'
    BY <2>1
  <2>3. \/ lock' = "free" /\ ins' = NoInsertion /\ inserted'[x] = FALSE
        \/ /\ lock' = "setter" /\ inserted'[x] = TRUE
           /\ \E then \in {"set", "period"} : ins' = [timer |-> x, stage |-> "link", then |-> then]
    BY <2>1
  <2> QED BY <1>1, <2>1, <2>2, <2>3, SetterStep
<1> QED BY <1>3, <1>4 DEF KeSetTimerEx

(* KeCancelTimer, while nobody holds the lock.                                *)
LEMMA KeCancelTimerInv ==
  ASSUME Inv, NEW x \in Timers, KeCancelTimer(x)
  PROVE  Inv' /\ Keeps
<1>1. /\ lock = "free" /\ table' = Unlinked(x) /\ exp' = Unexpired(x) /\ Still
      /\ UNCHANGED <<lock, ins, queued, owed>> /\ NotSet(x)
  BY DEF KeCancelTimer, Still, clockVars
<1>2. OnlyFieldsOf(x) /\ inserted'[x] = FALSE
  BY <1>1, NotSetFacts DEF Inv
<1>3. ins = NoInsertion
  BY <1>1, FreeLock
<1>4. queued \subseteq WithDpc /\ owed \subseteq WithDpc
  BY DEF Inv, TypeOK
<1> QED BY <1>1, <1>2, <1>3, <1>4, SetterStep

(* Nothing but the DPC queue and what is owed changes.                        *)
LEMMA KeRemoveQueueDpcInv ==
  ASSUME Inv, NEW x \in Timers, KeRemoveQueueDpc(x)
  PROVE  Inv' /\ Keeps
<1>1. /\ UNCHANGED <<time, tick, offset, clock, look, table, due, inserted, absolute, period, expireDpc,
                     lock, ins, exp>>
      /\ queued' = queued \ {x} /\ owed' = owed \ {x}
  BY DEF KeRemoveQueueDpc, clockVars, fields
<1>2. TypeOK'
  BY <1>1 DEF Inv, TypeOK
<1>3. ClockOK' /\ HandsOK' /\ LockOK' /\ LocalOK'
  BY <1>1 DEF Inv, ClockOK, HandsOK, LockOK, LocalOK
<1>4. TableOK' /\ ListsOK' /\ InsertedOK' /\ LinkingOK'
  BY <1>1 DEF Inv, TableOK, Sorted, Index, ListsOK, InsertedOK, LinkingOK, Linked, Linking, Tabled
<1>5. Keeps
  BY <1>1 DEF Keeps, NoneMissed, Coming, Scanning, Cover, Lists, Rechecked
<1>6. NoneLost'
  BY <1>1 DEF Inv, NoneLost
<1> QED BY <1>2, <1>3, <1>4, <1>5, <1>6 DEF Inv

-----------------------------------------------------------------------------
(* KiInsertTimerTable.                                                        *)

(* Where the search from the back of the list stops.                          *)
LEMMA PositionFacts ==
  ASSUME TypeOK, NEW x \in Timers, NEW s \in Seq(Timers)
  PROVE  /\ Position(x, s) \in 1..(Len(s) + 1)
         /\ \A j \in Position(x, s)..Len(s) : due[x] < due[s[j]]
         /\ Position(x, s) > 1 => due[s[Position(x, s) - 1]] <= due[x]
<1> DEFINE Ends(i) == /\ \A j \in i..Len(s) : due[x] < due[s[j]]
                      /\ i > 1 => due[s[i - 1]] <= due[x]
           S == {i \in 1..(Len(s) + 1) : \A j \in i..Len(s) : due[x] < due[s[j]]}
<1>1. Len(s) \in Nat
  BY LenProperties
<1>2. Len(s) + 1 \in S /\ S \in SUBSET Nat
  BY <1>1
<1> HIDE DEF S
<1>3. PICK i \in S : \A m \in S : i <= m
  BY <1>2, LeastNatural
<1>4. i \in 1..(Len(s) + 1) /\ \A j \in i..Len(s) : due[x] < due[s[j]]
  BY <1>3 DEF S
<1>5. ASSUME i > 1 PROVE due[s[i - 1]] <= due[x]
  <2>1. i - 1 \in 1..Len(s) /\ i - 1 \in 1..(Len(s) + 1) /\ i - 1 < i
    BY <1>1, <1>4, <1>5
  <2>2. i - 1 \notin S
    BY <1>3, <1>4, <2>1
  <2>3. PICK j \in (i - 1)..Len(s) : ~(due[x] < due[s[j]])
    BY <2>1, <2>2 DEF S
  <2>4. j = i - 1
    BY <1>1, <1>4, <2>1, <2>3
  <2>5. s[i - 1] \in Timers
    BY <2>1, ElementOfSeq
  <2> QED BY <2>3, <2>4, <2>5 DEF TypeOK
<1>6. \E m \in 1..(Len(s) + 1) : Ends(m)
  BY <1>4, <1>5
<1>7. Position(x, s) = CHOOSE m \in 1..(Len(s) + 1) : Ends(m)
  BY DEF Position
<1> HIDE DEF Ends
<1>8. Position(x, s) \in 1..(Len(s) + 1) /\ Ends(Position(x, s))
  BY <1>6, <1>7
<1> QED BY <1>8 DEF Ends

(* The list stays in order if x is put there.                                 *)
LEMMA InsertSorted ==
  ASSUME TypeOK, NEW x \in Timers, NEW s \in Seq(Timers), Sorted(s)
  PROVE  Sorted(InsertAt(s, Position(x, s), x))
<1> DEFINE k == Position(x, s)
           r == InsertAt(s, k, x)
           at(j) == IF j < k THEN j ELSE j - 1
<1>1. /\ k \in 1..(Len(s) + 1) /\ \A j \in k..Len(s) : due[x] < due[s[j]]
      /\ k > 1 => due[s[k - 1]] <= due[x]
  BY PositionFacts
<1> HIDE DEF k
<1>2. Len(s) \in Nat /\ k \in Int /\ 1 <= k /\ k <= Len(s) + 1
  BY <1>1, LenProperties
<1>3. \A j \in 1..Len(s) : s[j] \in Timers /\ due[s[j]] \in Int
  BY ElementOfSeq DEF TypeOK
<1>4. due[x] \in Int
  BY DEF TypeOK
<1>5. ASSUME NEW j \in 1..Len(s), j < k PROVE due[s[j]] <= due[x]
  <2>1. k - 1 \in 1..Len(s) /\ k > 1 /\ j <= k - 1
    BY <1>2, <1>5
  <2>2. CASE j = k - 1
    BY <1>1, <2>1, <2>2
  <2>3. CASE j # k - 1
    <3>1. j < k - 1
      BY <1>2, <2>1, <2>3
    <3>2. due[s[j]] <= due[s[k - 1]]
      BY <2>1, <3>1 DEF Sorted
    <3>3. due[s[k - 1]] <= due[x]
      BY <1>1, <2>1
    <3> QED BY <1>3, <1>4, <2>1, <3>2, <3>3
  <2> QED BY <2>2, <2>3
<1>6. ASSUME NEW j \in 1..Len(s), j >= k PROVE due[x] <= due[s[j]]
  <2>1. j \in k..Len(s)
    BY <1>2, <1>6
  <2> QED BY <1>1, <1>3, <1>4, <2>1
<1>7. /\ Len(r) = Len(s) + 1
      /\ \A j \in 1..Len(r) : r[j] = IF j < k THEN s[j] ELSE IF j = k THEN x ELSE s[j - 1]
  <2>1. PICK n \in 1..(Len(s) + 1) : n = k
    BY <1>1
  <2>2. /\ Len(InsertAt(s, n, x)) = Len(s) + 1
        /\ \A j \in 1..(Len(s) + 1) :
             InsertAt(s, n, x)[j] = IF j < n THEN s[j] ELSE IF j = n THEN x ELSE s[j - 1]
    BY InsertAtSeq
  <2> QED BY <2>1, <2>2
<1> HIDE DEF r
<1>8. r[k] = x /\ \A j \in 1..Len(r) : j # k => r[j] = s[at(j)]
  BY <1>2, <1>7
<1>9. ASSUME NEW p \in 1..Len(r), p # k
      PROVE  at(p) \in 1..Len(s) /\ (p < k => at(p) < k) /\ (p > k => at(p) >= k)
  BY <1>2, <1>7, <1>9
<1>10. ASSUME NEW p \in 1..Len(r), NEW q \in 1..Len(r), p < q, p # k, q # k PROVE at(p) < at(q)
  BY <1>2, <1>7, <1>10
<1> HIDE DEF at
<1>11. ASSUME NEW p \in 1..Len(r), NEW q \in 1..Len(r), p < q PROVE due[r[p]] <= due[r[q]]
  <2>1. CASE p = k
    <3>1. q # k /\ q > k
      BY <1>2, <1>7, <1>11, <2>1
    <3> QED BY <1>6, <1>8, <1>9, <2>1, <3>1
  <2>2. CASE q = k
    <3>1. p # k /\ p < k
      BY <1>2, <1>7, <1>11, <2>2
    <3> QED BY <1>5, <1>8, <1>9, <2>2, <3>1
  <2>3. CASE p # k /\ q # k
    BY <1>8, <1>9, <1>10, <1>11, <2>3 DEF Sorted
  <2> QED BY <2>1, <2>2, <2>3
<1>12. Sorted(r)
  BY <1>11 DEF Sorted
<1> QED BY <1>12 DEF r, k

(* The caller goes on, and captures the DPC if the timer has just expired.    *)
LEMMA InsertedFacts ==
  ASSUME Inv, ins.stage # "none", Inserted(ins.timer), Still, UNCHANGED owed
  PROVE  /\ exp' \in Expirations /\ SameSearch /\ ins' = NoInsertion /\ LockOK'
         /\ lock' \in {"free", "setter", "expirer"} /\ LocalOK'
         /\ exp'.expired = exp.expired /\ exp'.absolutes = exp.absolutes
         /\ queued' \subseteq WithDpc /\ NoneLost'
<1>1. /\ ins.timer \in Timers
      /\ \/ lock = "setter" /\ ins.then \in {"set", "period"} /\ exp.pc \in {"idle", "dpc", "run"}
         \/ lock = "expirer" /\ ins.then \in {"expire", "system"} /\ exp.pc = "insert"
  BY Inserting
<1>2. ins' = NoInsertion /\ NoInsertion.then = "none"
  BY DEF Inserted, NoInsertion
<1>3. /\ exp \in Expirations /\ queued \subseteq WithDpc /\ owed \subseteq WithDpc
      /\ \A y \in owed : y \in queued \/ y \in Items(exp.dpcs) \/ (ins.then = "expire" /\ ins.timer = y)
  BY DEF Inv, TypeOK, NoneLost
<1>30. /\ exp.pc = "idle" \/ (exp.pc = "run" /\ ~exp.full) => exp.expired = <<>>
       /\ ins.then = "system" \/ exp.absolutes = <<>>
       /\ exp.pc \in {"idle", "dpc", "hand", "scan"} => exp.dpcs = <<>>
  BY <1>1 DEF Inv, LocalOK
<1>4. CASE ins.then \in {"set", "period"} /\ lock' = "free" /\ UNCHANGED <<exp, queued>>
  <2>1. exp.pc \in {"idle", "dpc", "run"}
    BY <1>1, <1>4
  <2>2. LockOK'
    BY <1>2, <1>4, <2>1 DEF LockOK
  <2>3. NoneLost'
    BY <1>3, <1>4 DEF NoneLost
  <2>4. LocalOK'
    BY <1>4, <1>30 DEF LocalOK
  <2> QED BY <1>2, <1>3, <1>4, <2>2, <2>3, <2>4 DEF SameSearch
<1>5. CASE ins.then = "expire" /\ Capture(ins.timer, exp)
  <2>1. /\ exp' \in Expirations /\ exp'.pc \in {"list", "run"} /\ (exp'.pc = "run" => exp'.full)
        /\ exp'.expired = exp.expired /\ exp'.absolutes = exp.absolutes
        /\ lock' = IF exp'.pc = "run" THEN "free" ELSE "expirer"
        /\ queued \subseteq queued' /\ queued' \subseteq WithDpc
        /\ Items(exp.dpcs) \subseteq Items(exp'.dpcs)
        /\ ins.timer \in WithDpc => ins.timer \in queued' \/ ins.timer \in Items(exp'.dpcs)
    BY <1>1, <1>3, <1>5, CaptureFacts
  <2>2. LockOK'
    BY <1>2, <2>1 DEF LockOK
  <2>3. NoneLost'
    BY <1>3, <2>1 DEF NoneLost
  <2>4. SameSearch
    BY <1>1, <1>5, <2>1 DEF SameSearch, Searches
  <2>5. LocalOK'
    BY <1>5, <1>30, <2>1 DEF LocalOK
  <2> QED BY <1>2, <2>1, <2>2, <2>3, <2>4, <2>5
<1>6. CASE ins.then = "system" /\ exp' = [exp EXCEPT !.pc = "system"] /\ UNCHANGED <<lock, queued>>
  <2>1. /\ exp' \in Expirations /\ exp'.pc = "system" /\ exp'.dpcs = exp.dpcs
        /\ exp'.expired = exp.expired /\ exp'.absolutes = exp.absolutes
    BY <1>3, <1>6 DEF Expirations
  <2>2. lock = "expirer" /\ exp.pc = "insert"
    BY <1>1, <1>6
  <2>3. LockOK'
    BY <1>2, <1>6, <2>1, <2>2 DEF LockOK
  <2>4. NoneLost'
    BY <1>3, <1>6, <2>1 DEF NoneLost
  <2>5. SameSearch
    BY <2>1, <2>2 DEF SameSearch, Searches
  <2>6. LocalOK'
    BY <2>1 DEF LocalOK
  <2> QED BY <1>2, <1>3, <1>6, <2>1, <2>2, <2>3, <2>4, <2>5, <2>6
<1> QED BY <1>4, <1>5, <1>6 DEF Inserted

(* x is in the table; if it is due, so is the timer before it, which somebody *)
(* is going to look at, or there is none and the time is read again.          *)
LEMMA LinkInv ==
  ASSUME Inv, Link
  PROVE  Inv' /\ Keeps
<1>1. PICK x : x = ins.timer
  OBVIOUS
<1>2. PICK b : b = Index(due[x])
  OBVIOUS
<1>3. PICK i : i = Position(x, table[b])
  OBVIOUS
<1>4. /\ ins.stage = "link" /\ table' = [table EXCEPT ![b] = InsertAt(table[b], i, x)]
      /\ Still /\ UNCHANGED <<due, inserted, absolute, period, owed>>
      /\ \/ i > 1 /\ Inserted(x)
         \/ i = 1 /\ ins' = [ins EXCEPT !.stage = "recheck"] /\ UNCHANGED <<lock, exp, queued>>
  BY <1>1, <1>2, <1>3 DEF Link, Still, clockVars, fields
<1>5. /\ x \in Timers
      /\ \/ lock = "setter" /\ ins.then \in {"set", "period"} /\ exp.pc \in {"idle", "dpc", "run"}
         \/ lock = "expirer" /\ ins.then \in {"expire", "system"} /\ exp.pc = "insert"
  BY <1>1, <1>4, Inserting
<1>6. /\ due[x] \in Int /\ b \in Buckets /\ table[b] \in Seq(Timers) /\ Once(table[b])
      /\ Sorted(table[b])
  BY <1>2, <1>5, IndexOf DEF Inv, TypeOK, TableOK
<1>7. /\ Linking(x) /\ ~Linked(x) /\ x \notin Items(table[b]) /\ (\A y : Linking(y) => y = x)
      /\ \A y : ~Rechecked(y)
  <2>1. Linking(x) /\ (\A y : Linking(y) => y = x) /\ \A y : ~Rechecked(y)
    BY <1>1, <1>4 DEF Linking, Rechecked
  <2>2. ~Linked(x)
    BY <1>5, <2>1 DEF Inv, LinkingOK
  <2> QED BY <1>6, <2>1, <2>2 DEF Linked, Tabled
<1>8. /\ i \in 1..(Len(table[b]) + 1)
      /\ i > 1 => due[table[b][i - 1]] <= due[x]
  BY <1>3, <1>5, <1>6, PositionFacts DEF Inv
<1>9. PICK r : r = InsertAt(table[b], i, x)
  OBVIOUS
<1>10. r \in Seq(Timers) /\ Once(r) /\ Items(r) = Items(table[b]) \cup {x}
  BY <1>5, <1>6, <1>7, <1>8, <1>9, InsertAtItems
<1>11. Sorted(r)
  BY <1>3, <1>5, <1>6, <1>9, InsertSorted DEF Inv
<1>12. /\ table \in [Buckets -> Seq(Timers)] /\ table' \in [Buckets -> Seq(Timers)] /\ table'[b] = r
       /\ \A c \in Buckets \ {b} : table'[c] = table[c]
  BY <1>4, <1>6, <1>9, <1>10 DEF Inv, TypeOK
<1>13. \A y : Tabled(y)' <=> Tabled(y) \/ y = x
  BY <1>6, <1>10, <1>12 DEF Tabled
<1>14. TableOK'
  <2> SUFFICES ASSUME NEW c \in Buckets
               PROVE  /\ Once(table'[c]) /\ Sorted(table[c])'
                      /\ \A y \in Items(table'[c]) : Index(due'[y]) = c
    BY DEF TableOK, Index
  <2>1. CASE c = b
    <3>1. Sorted(table[c])'
      BY <1>4, <1>11, <1>12, <2>1 DEF Sorted
    <3>2. \A y \in Items(table[b]) : Index(due[y]) = b
      BY <1>6 DEF Inv, TableOK
    <3> QED BY <1>2, <1>4, <1>10, <1>12, <2>1, <3>1, <3>2
  <2>2. CASE c # b
    <3>1. Once(table[c]) /\ Sorted(table[c]) /\ \A y \in Items(table[c]) : Index(due[y]) = c
      BY DEF Inv, TableOK
    <3>2. table'[c] = table[c] /\ due' = due
      BY <1>4, <1>12, <2>2
    <3> QED BY <3>1, <3>2 DEF Sorted
  <2> QED BY <2>1, <2>2
<1>15. /\ exp' \in Expirations /\ SameSearch /\ LockOK' /\ LocalOK' /\ lock' \in {"free", "setter", "expirer"}
       /\ ins' \in [timer: Timers \cup {None}, stage: {"none", "link", "recheck"},
                    then: {"none", "set", "period", "expire", "system"}]
       /\ exp'.expired = exp.expired /\ exp'.absolutes = exp.absolutes
       /\ queued' \subseteq WithDpc /\ NoneLost'
       /\ ins'.stage # "link" /\ (ins'.stage = "recheck" => ins'.timer = x)
  <2>1. CASE i > 1 /\ Inserted(x)
    <3>1. ins.stage # "none" /\ Inserted(ins.timer) /\ UNCHANGED owed
      BY <1>1, <1>4, <2>1
    <3>2. /\ exp' \in Expirations /\ SameSearch /\ ins' = NoInsertion /\ LockOK'
          /\ lock' \in {"free", "setter", "expirer"} /\ LocalOK'
          /\ exp'.expired = exp.expired /\ exp'.absolutes = exp.absolutes
          /\ queued' \subseteq WithDpc /\ NoneLost'
      BY <1>4, <3>1, InsertedFacts
    <3> QED BY <3>2 DEF NoInsertion
  <2>2. CASE i = 1 /\ ins' = [ins EXCEPT !.stage = "recheck"] /\ UNCHANGED <<lock, exp, queued>>
    <3>1. /\ exp \in Expirations /\ queued \subseteq WithDpc /\ lock \in {"free", "setter", "expirer"}
          /\ ins \in [timer: Timers \cup {None}, stage: {"none", "link", "recheck"},
                      then: {"none", "set", "period", "expire", "system"}]
      BY DEF Inv, TypeOK
    <3>2. /\ ins'.timer = x /\ ins'.stage = "recheck" /\ ins'.then = ins.then
          /\ ins' \in [timer: Timers \cup {None}, stage: {"none", "link", "recheck"},
                       then: {"none", "set", "period", "expire", "system"}]
      BY <1>1, <2>2, <3>1
    <3>3. LockOK'
      BY <1>5, <2>2, <3>2 DEF LockOK
    <3>4. NoneLost'
      BY <1>1, <1>4, <2>2, <3>2 DEF Inv, NoneLost
    <3>5. LocalOK'
      BY <2>2, <3>2 DEF Inv, LocalOK
    <3> QED BY <2>2, <3>1, <3>2, <3>3, <3>4, <3>5 DEF SameSearch
  <2> QED BY <1>4, <2>1, <2>2
<1>16. TypeOK'
  BY <1>4, <1>12, <1>15 DEF Inv, TypeOK, Still
<1>17. ClockOK' /\ HandsOK'
  BY <1>4, <1>15, StillKeeps
<1>18. ListsOK'
  <2>1. \A y \in Items(exp.expired) : ~Tabled(y) /\ y \notin Items(exp.absolutes) /\ due[y] <= time /\ y # x
    BY <1>7 DEF Inv, ListsOK, Linked
  <2>2. \A y \in Items(exp.absolutes) : ~Tabled(y) /\ y # x
    BY <1>7 DEF Inv, ListsOK, Linked
  <2>3. ins'.stage = "recheck" => Tabled(ins.timer)'
    BY <1>13, <1>15
  <2>4. UNCHANGED <<due, time>>
    BY <1>4 DEF Still
  <2> QED BY <1>13, <1>15, <2>1, <2>2, <2>3, <2>4 DEF Inv, ListsOK
<1>19. InsertedOK' /\ LinkingOK'
  <2>1. \A y : ~Linking(y)'
    BY <1>15 DEF Linking
  <2>2. \A y : Linked(y)' <=> Linked(y) \/ y = x
    BY <1>13, <1>15 DEF Linked
  <2>3. \A y \in Timers : inserted[y] <=> Linked(y) \/ y = x
    BY <1>7 DEF Inv, InsertedOK
  <2> QED BY <1>4, <2>1, <2>2, <2>3 DEF InsertedOK, LinkingOK
<1>20. Keeps
  <2> SUFFICES ASSUME NEW c \in Buckets, NoneMissed(c), NEW y \in Items(table'[c]), due'[y] <= time'
               PROVE  Coming(c)' \/ (Scanning(c)' /\ due'[y] <= exp'.now) \/ Rechecked(y)'
    BY DEF Keeps, NoneMissed
  <2>1. due' = due /\ due[y] <= time
    BY <1>4 DEF Still
  <2>2. ~Scanning(c)
    BY <1>5 DEF Scanning
  <2>3. \A z \in Items(table[c]) : due[z] <= time => Coming(c)
    BY <1>7, <2>2 DEF NoneMissed
  <2>4. Coming(c) => Coming(c)'
    BY <1>4, <1>15, SearchKept
  <2>5. CASE y \in Items(table[c])
    BY <2>1, <2>3, <2>4, <2>5
  <2>6. CASE y \notin Items(table[c])
    <3>1. y = x /\ c = b
      BY <1>10, <1>12, <2>6
    <3>2. CASE i > 1
      <4>1. Len(table[b]) \in Nat
        BY <1>6, LenProperties
      <4>2. i - 1 \in 1..Len(table[b])
        BY <1>8, <3>2, <4>1
      <4>3. table[b][i - 1] \in Items(table[b]) /\ table[b][i - 1] \in Timers
        BY <1>6, <4>2, ElementOfSeq DEF Items
      <4>4. due[table[b][i - 1]] \in Int /\ time \in Int
        BY <4>3 DEF Inv, TypeOK
      <4>5. due[table[b][i - 1]] <= time
        BY <1>6, <1>8, <2>1, <3>1, <3>2, <4>4
      <4> QED BY <2>3, <2>4, <3>1, <4>3, <4>5
    <3>3. CASE i = 1
      <4>1. ins' = [ins EXCEPT !.stage = "recheck"]
        BY <1>4, <3>3
      <4>2. ins'.timer = x /\ ins'.stage = "recheck"
        <5>1. ins \in [timer: Timers \cup {None}, stage: {"none", "link", "recheck"},
                       then: {"none", "set", "period", "expire", "system"}]
          BY DEF Inv, TypeOK
        <5> QED BY <1>1, <4>1, <5>1
      <4> QED BY <3>1, <4>2 DEF Rechecked
    <3> QED BY <1>4, <3>2, <3>3
  <2> QED BY <2>5, <2>6
<1> QED BY <1>14, <1>15, <1>16, <1>17, <1>18, <1>19, <1>20 DEF Inv

(* The time is read again: x is not due, or it leaves the table.              *)
LEMMA RecheckInv ==
  ASSUME Inv, Recheck
  PROVE  Inv' /\ Keeps
<1>1. PICK x : x = ins.timer
  OBVIOUS
<1>2. /\ ins.stage = "recheck" /\ Still
      /\ \/ /\ due[x] > time /\ Inserted(x) /\ UNCHANGED <<table, due, inserted, absolute, period, owed>>
         \/ /\ due[x] <= time /\ table' = Unlinked(x)
            /\ \/ ins.then = "set" /\ SetExpired(x, period[x]) /\ UNCHANGED exp
               \/ /\ ins.then \in {"period", "expire"}
                  /\ KiInsertTreeTimer(x, period[x], FALSE, period[x], ins.then)
                  /\ UNCHANGED <<lock, exp, queued, owed>>
               \/ /\ ins.then = "system"
                  /\ exp' = [exp EXCEPT !.expired = Append(exp.expired, x), !.pc = "system"]
                  /\ ins' = NoInsertion
                  /\ UNCHANGED <<due, inserted, absolute, period, lock, queued, owed>>
  BY <1>1 DEF Recheck, Still, clockVars, fields
<1>3. /\ x \in Timers
      /\ \/ lock = "setter" /\ ins.then \in {"set", "period"} /\ exp.pc \in {"idle", "dpc", "run"}
         \/ lock = "expirer" /\ ins.then \in {"expire", "system"} /\ exp.pc = "insert"
  BY <1>1, <1>2, Inserting
<1>4. /\ Tabled(x) /\ x \notin Items(exp.expired) /\ x \notin Items(exp.absolutes)
      /\ (\A y : ~Linking(y)) /\ (\A y : Rechecked(y) => y = x)
  BY <1>1, <1>2 DEF Inv, ListsOK, Linking, Rechecked
<1>5. /\ exp \in Expirations /\ queued \subseteq WithDpc /\ owed \subseteq WithDpc
      /\ period[x] \in Nat /\ period[x] \in Int /\ due[x] \in Int /\ time \in Int
  BY <1>3 DEF Inv, TypeOK
<1>6. CASE /\ due[x] > time /\ Inserted(x)
           /\ UNCHANGED <<table, due, inserted, absolute, period, owed>>
  <2>1. ins.stage # "none" /\ Inserted(ins.timer) /\ UNCHANGED owed
    BY <1>1, <1>2, <1>6
  <2>2. /\ exp' \in Expirations /\ SameSearch /\ ins' = NoInsertion /\ LockOK'
        /\ lock' \in {"free", "setter", "expirer"} /\ LocalOK'
        /\ exp'.expired = exp.expired /\ exp'.absolutes = exp.absolutes
        /\ queued' \subseteq WithDpc /\ NoneLost'
    BY <1>2, <2>1, InsertedFacts
  <2>3. /\ \A y : (Tabled(y)' <=> Tabled(y)) /\ (Linked(y)' <=> Linked(y)) /\ ~Linking(y)'
        /\ ins'.stage = "none"
    BY <1>6, <2>2 DEF Tabled, Linked, Linking, NoInsertion
  <2>4. TypeOK'
    <3>1. ins' \in [timer: Timers \cup {None}, stage: {"none", "link", "recheck"},
                    then: {"none", "set", "period", "expire", "system"}]
      BY <2>2 DEF NoInsertion
    <3> QED BY <1>2, <1>6, <2>2, <3>1 DEF Inv, TypeOK, Still
  <2>5. Shrunk
    BY <1>6, TableSame DEF Inv
  <2>6. TableOK'
    BY <2>5, TableShrunk DEF Inv
  <2>7. ClockOK' /\ HandsOK'
    BY <1>2, <2>2, StillKeeps
  <2>8. ListsOK'
    BY <1>2, <1>6, <2>2, <2>3 DEF Inv, ListsOK, Still
  <2>9. InsertedOK' /\ LinkingOK'
    BY <1>4, <1>6, <2>3, Moves
  <2>10. Keeps
    <3>1. \A y : Rechecked(y) => ~(due[y] <= time)
      BY <1>4, <1>5, <1>6
    <3> QED BY <1>2, <2>2, <2>5, <3>1, MissedShrunk
  <2> QED BY <2>2, <2>4, <2>6, <2>7, <2>8, <2>9, <2>10 DEF Inv
<1>7. CASE /\ due[x] <= time /\ table' = Unlinked(x)
           /\ \/ ins.then = "set" /\ SetExpired(x, period[x]) /\ UNCHANGED exp
              \/ /\ ins.then \in {"period", "expire"}
                 /\ KiInsertTreeTimer(x, period[x], FALSE, period[x], ins.then)
                 /\ UNCHANGED <<lock, exp, queued, owed>>
  <2>1. /\ OnlyFieldsOf(x) /\ UNCHANGED exp
        /\ queued' \subseteq WithDpc /\ owed' \subseteq WithDpc /\ NoneLost'
        /\ \/ lock' = "free" /\ ins' = NoInsertion /\ inserted'[x] = FALSE /\ lock = "setter"
           \/ /\ lock' = lock /\ inserted'[x] = TRUE
              /\ \E then \in {"period", "expire"} :
                   /\ ins' = [timer |-> x, stage |-> "link", then |-> then]
                   /\ then = "expire" <=> lock = "expirer"
    <3>1. CASE ins.then = "set" /\ SetExpired(x, period[x]) /\ UNCHANGED exp
      <4>1. /\ OnlyFieldsOf(x)
            /\ queued \subseteq queued' /\ queued' \subseteq WithDpc /\ owed' \subseteq WithDpc
            /\ owed' \subseteq owed \cup {x} /\ (x \in WithDpc => x \in queued')
            /\ \/ lock' = "free" /\ ins' = NoInsertion /\ inserted'[x] = FALSE
               \/ /\ lock' = "setter" /\ inserted'[x] = TRUE
                  /\ ins' = [timer |-> x, stage |-> "link", then |-> "period"]
        BY <1>3, <1>5, <3>1, SetExpiredFacts DEF Inv
      <4>2. lock = "setter"
        BY <1>3, <3>1
      <4>3. NoneLost'
        <5>1. \A y \in owed : y \in queued \/ y \in Items(exp.dpcs)
          BY <3>1 DEF Inv, NoneLost
        <5> QED BY <3>1, <4>1, <5>1 DEF NoneLost
      <4> QED BY <3>1, <4>1, <4>2, <4>3
    <3>2. CASE /\ ins.then \in {"period", "expire"}
               /\ KiInsertTreeTimer(x, period[x], FALSE, period[x], ins.then)
               /\ UNCHANGED <<lock, exp, queued, owed>>
      <4>1. /\ OnlyFieldsOf(x) /\ inserted'[x] = TRUE
            /\ ins' = [timer |-> x, stage |-> "link", then |-> ins.then]
        BY <1>3, <1>5, <3>2, KiInsertTreeTimerFacts DEF Inv
      <4>2. ins'.timer = ins.timer /\ ins'.then = ins.then
        BY <1>1, <4>1
      <4>3. NoneLost'
        BY <3>2, <4>2 DEF Inv, NoneLost
      <4>4. ins.then = "expire" <=> lock = "expirer"
        BY <1>3, <3>2
      <4> QED BY <1>5, <3>2, <4>1, <4>3, <4>4
    <3> QED BY <1>7, <3>1, <3>2
  <2>2. Shrunk /\ \A y : Tabled(y)' <=> Tabled(y) /\ y # x
    BY <1>7, <2>1, TableUnlinked DEF Inv, OnlyFieldsOf
  <2>3. \A y : Linked(y)' <=> Linked(y) /\ y # x
    BY <1>4, <2>1, <2>2 DEF Linked
  <2>4. SameSearch
    BY <2>1 DEF SameSearch
  <2>5. /\ ins' \in [timer: Timers \cup {None}, stage: {"none", "link", "recheck"},
                     then: {"none", "set", "period", "expire", "system"}]
        /\ ins'.stage # "recheck" /\ (\A y : Linking(y)' => y = x)
        /\ (inserted'[x] <=> Linking(x)')
    <3>1. CASE ins' = NoInsertion /\ inserted'[x] = FALSE
      BY <3>1 DEF NoInsertion, Linking
    <3>2. CASE /\ inserted'[x] = TRUE
               /\ \E then \in {"period", "expire"} : ins' = [timer |-> x, stage |-> "link", then |-> then]
      BY <1>3, <3>2 DEF Linking
    <3> QED BY <2>1, <3>1, <3>2
  <2>6. TypeOK'
    <3>1. table' \in [Buckets -> Seq(Timers)] /\ lock' \in {"free", "setter", "expirer"}
      BY <1>3, <2>1, <2>2 DEF Shrunk
    <3> QED BY <1>2, <2>1, <2>5, <3>1 DEF Inv, TypeOK, Still, OnlyFieldsOf
  <2>7. TableOK'
    BY <2>2, TableShrunk DEF Inv
  <2>8. ClockOK' /\ HandsOK'
    BY <1>2, <2>4, StillKeeps
  <2>9. LockOK'
    <3>1. CASE lock' = "free" /\ ins' = NoInsertion /\ lock = "setter"
      BY <1>3, <2>1, <3>1 DEF LockOK, NoInsertion
    <3>2. CASE /\ lock' = lock
               /\ \E then \in {"period", "expire"} :
                    /\ ins' = [timer |-> x, stage |-> "link", then |-> then]
                    /\ then = "expire" <=> lock = "expirer"
      <4>1. PICK then \in {"period", "expire"} :
              /\ ins' = [timer |-> x, stage |-> "link", then |-> then]
              /\ then = "expire" <=> lock = "expirer"
        BY <3>2
      <4>2. ins'.timer = x /\ ins'.stage = "link" /\ ins'.then = then
        BY <4>1
      <4> QED BY <1>3, <2>1, <3>2, <4>1, <4>2 DEF LockOK
    <3> QED BY <2>1, <3>1, <3>2
  <2>10. ListsOK'
    <3>1. \A y \in Items(exp.expired) : y \in Timers \ {x} /\ due'[y] = due[y]
      <4>1. Items(exp.expired) \subseteq Timers
        BY <1>5, ItemsOf DEF Expirations
      <4> QED BY <1>4, <2>1, <4>1 DEF OnlyFieldsOf
    <3>2. time' = time /\ exp' = exp
      BY <1>2, <2>1 DEF Still
    <3> QED BY <2>2, <2>5, <3>1, <3>2 DEF Inv, ListsOK
  <2>11. InsertedOK' /\ LinkingOK'
    <3>1. \A y \in Timers \ {x} : ~Linking(y) /\ ~Linking(y)' /\ inserted'[y] = inserted[y]
      BY <1>4, <2>1, <2>5 DEF OnlyFieldsOf
    <3> QED BY <1>3, <2>3, <2>5, <3>1, Leaves
  <2>12. Keeps
    <3>1. \A y : Rechecked(y) => ~Tabled(y)'
      BY <1>4, <2>2
    <3> QED BY <1>2, <2>2, <2>4, <3>1, MissedShrunk
  <2>13. LocalOK'
    <3>1. exp.pc \in {"remove", "system"} \/ exp.absolutes = <<>>
      BY <1>7 DEF Inv, LocalOK
    <3> QED BY <2>1, <3>1 DEF Inv, LocalOK
  <2> QED BY <2>1, <2>6, <2>7, <2>8, <2>9, <2>10, <2>11, <2>12, <2>13 DEF Inv
<1>8. CASE /\ due[x] <= time /\ table' = Unlinked(x) /\ ins.then = "system"
           /\ exp' = [exp EXCEPT !.expired = Append(exp.expired, x), !.pc = "system"]
           /\ ins' = NoInsertion
           /\ UNCHANGED <<due, inserted, absolute, period, lock, queued, owed>>
  <2>1. lock = "expirer" /\ exp.pc = "insert"
    BY <1>3, <1>8
  <2>2. Shrunk /\ \A y : Tabled(y)' <=> Tabled(y) /\ y # x
    BY <1>8, TableUnlinked DEF Inv
  <2>3. PICK q : q = Append(exp.expired, x)
    OBVIOUS
  <2>4. q \in Seq(Timers) /\ Once(q) /\ Items(q) = Items(exp.expired) \cup {x}
    <3>1. exp.expired \in Seq(Timers) /\ Once(exp.expired)
      BY <1>5 DEF Inv, ListsOK, Expirations
    <3> QED BY <1>3, <1>4, <2>3, <3>1, AppendItems
  <2>5. /\ exp' \in Expirations /\ exp'.expired = q /\ exp'.absolutes = exp.absolutes
        /\ exp'.dpcs = exp.dpcs /\ exp'.pc = "system"
    BY <1>5, <1>8, <2>3, <2>4 DEF Expirations
  <2>6. SameSearch
    BY <2>1, <2>5 DEF SameSearch, Searches
  <2>7. \A y : (Linked(y)' <=> Linked(y)) /\ ~Linking(y)'
    BY <1>4, <1>8, <2>2, <2>4, <2>5 DEF Linked, Linking, NoInsertion
  <2>8. TypeOK'
    <3>1. ins' \in [timer: Timers \cup {None}, stage: {"none", "link", "recheck"},
                    then: {"none", "set", "period", "expire", "system"}]
      BY <1>8 DEF NoInsertion
    <3> QED BY <1>2, <1>8, <2>2, <2>5, <3>1 DEF Inv, TypeOK, Still, Shrunk
  <2>9. TableOK'
    BY <2>2, TableShrunk DEF Inv
  <2>10. ClockOK' /\ HandsOK'
    BY <1>2, <2>6, StillKeeps
  <2>11. LockOK'
    BY <1>8, <2>1, <2>5 DEF LockOK, NoInsertion
  <2>12. ListsOK'
    <3>1. \A y \in Items(q) : due[y] <= time /\ y \notin Items(exp.absolutes) /\ (Tabled(y) => y = x)
      BY <1>4, <1>8, <2>4 DEF Inv, ListsOK
    <3>2. Once(exp.absolutes) /\ \A y \in Items(exp.absolutes) : ~Tabled(y)
      BY DEF Inv, ListsOK
    <3>3. time' = time /\ due' = due /\ ins'.stage = "none"
      BY <1>2, <1>8 DEF Still, NoInsertion
    <3> QED BY <2>2, <2>4, <2>5, <3>1, <3>2, <3>3 DEF ListsOK
  <2>13. InsertedOK' /\ LinkingOK'
    BY <1>4, <1>8, <2>7, Moves
  <2>14. Keeps
    <3>1. \A y : Rechecked(y) => ~Tabled(y)'
      BY <1>4, <2>2
    <3> QED BY <1>2, <2>2, <2>6, <3>1, MissedShrunk
  <2>15. NoneLost'
    <3>1. \A y \in owed : y \in queued \/ y \in Items(exp.dpcs)
      BY <1>8 DEF Inv, NoneLost
    <3> QED BY <1>8, <2>5, <3>1 DEF NoneLost
  <2>16. LocalOK'
    BY <2>5 DEF LocalOK
  <2> QED BY <2>8, <2>9, <2>10, <2>11, <2>12, <2>13, <2>14, <2>15, <2>16 DEF Inv
<1> QED BY <1>2, <1>6, <1>7, <1>8

-----------------------------------------------------------------------------
(* KiTimerExpiration.                                                         *)

(* A step of processor 0 that moves no timer.                                 *)
OnlySearch ==
  /\ UNCHANGED <<time, tick, offset, clock, look, table, due, inserted, absolute, period, ins, queued, owed>>
  /\ exp' \in Expirations /\ lock' \in {"free", "setter", "expirer"} /\ expireDpc' \in Nat \cup {None}
  /\ exp'.expired = exp.expired /\ exp'.absolutes = exp.absolutes /\ exp'.dpcs = exp.dpcs

(* It changes nothing that is said of the timers and their DPCs.              *)
LEMMA OnlySearchKeeps ==
  ASSUME Inv, OnlySearch
  PROVE  TypeOK' /\ ClockOK' /\ TableOK' /\ ListsOK' /\ InsertedOK' /\ LinkingOK' /\ NoneLost'
<1>1. TypeOK'
  BY DEF Inv, TypeOK, OnlySearch
<1>2. ClockOK' /\ TableOK'
  BY DEF Inv, OnlySearch, ClockOK, TableOK, Sorted, Index
<1>3. ListsOK' /\ InsertedOK' /\ LinkingOK'
  BY DEF Inv, OnlySearch, ListsOK, InsertedOK, LinkingOK, Linked, Linking, Tabled
<1>4. NoneLost'
  BY DEF Inv, OnlySearch, NoneLost
<1> QED BY <1>1, <1>2, <1>3, <1>4

(* Processor 0 inserts no timer, except where it says so.                     *)
LEMMA NotInserting ==
  ASSUME Inv, exp.pc \in {"hand", "scan", "list", "remove", "system"}
  PROVE  /\ lock = "expirer" /\ ins = NoInsertion /\ ins.then = "none" /\ ins.stage = "none"
         /\ \A y : ~Linking(y) /\ ~Rechecked(y)
<1>1. lock \in {"free", "setter", "expirer"}
  BY DEF Inv, TypeOK
<1>2. lock = "expirer" /\ ins = NoInsertion
  BY <1>1 DEF Inv, LockOK
<1> QED BY <1>2 DEF NoInsertion, Linking, Rechecked

(* What is known of a timer in the table that is due.                         *)
LEMMA Overdue ==
  ASSUME Inv, NEW b \in Buckets, NoneMissed(b), NEW x \in Items(table[b]), due[x] <= time
  PROVE  /\ Coming(b) \/ (Scanning(b) /\ due[x] <= exp.now) \/ Rechecked(x)
         /\ x \in Timers /\ due[x] \in Int
BY TabledTimers DEF Inv, NoneMissed, TypeOK

(* The hand passes from the queued DPC to the one that runs.                  *)
LEMMA KiRetireDpcListInv ==
  ASSUME Inv, KiRetireDpcList
  PROVE  Inv' /\ Keeps
<1>1. /\ exp.pc = "idle" /\ clock = <<>> /\ expireDpc # None /\ expireDpc' = None
      /\ exp' = [NoExpiration EXCEPT !.pc = "dpc", !.arg = expireDpc]
      /\ UNCHANGED <<time, tick, offset, clock, look, table, due, inserted, absolute, period, lock, ins,
                     queued, owed>>
  BY DEF KiRetireDpcList, Processor0, clockVars, fields
<1>2. expireDpc \in Nat /\ expireDpc <= tick /\ lock \in {"free", "setter", "expirer"} /\ MaxTime \in Nat
  BY <1>1, TimerAssumption DEF Inv, TypeOK, HandsOK
<1>3. lock # "expirer"
  BY <1>1 DEF Inv, LockOK
<1>4. exp.expired = <<>> /\ exp.dpcs = <<>> /\ exp.absolutes = <<>>
  <2>1. ins.then # "system"
    BY <1>1, <1>2, <1>3 DEF Inv, LockOK, NoInsertion
  <2> QED BY <1>1, <2>1 DEF Inv, LocalOK
<1>5. /\ exp' \in Expirations /\ exp'.pc = "dpc" /\ exp'.arg = expireDpc
      /\ exp'.expired = <<>> /\ exp'.absolutes = <<>> /\ exp'.dpcs = <<>>
  <2>1. exp' = [pc |-> "dpc", arg |-> expireDpc, limit |-> 0, now |-> 0, expired |-> <<>>,
                absolutes |-> <<>>, dpcs |-> <<>>, full |-> FALSE, delta |-> 0]
    BY <1>1 DEF NoExpiration
  <2>2. <<>> \in Seq(Timers) /\ 0 \in 0..MaxTime /\ 0 \in Nat /\ 0 \in Int
    BY <1>2
  <2>3. exp' \in Expirations
    BY <1>2, <2>1, <2>2 DEF Expirations
  <2> QED BY <2>1, <2>3
<1>6. OnlySearch
  BY <1>1, <1>2, <1>4, <1>5 DEF OnlySearch
<1>7. TypeOK' /\ ClockOK' /\ TableOK' /\ ListsOK' /\ InsertedOK' /\ LinkingOK' /\ NoneLost'
  BY <1>6, OnlySearchKeeps
<1>8. HandsOK'
  BY <1>1, <1>2, <1>5 DEF HandsOK
<1>9. LockOK'
  BY <1>1, <1>2, <1>3, <1>5 DEF Inv, LockOK
<1>10. LocalOK'
  BY <1>5 DEF LocalOK
<1>11. Keeps
  <2> SUFFICES ASSUME NEW b \in Buckets, NoneMissed(b), NEW x \in Items(table[b]), due[x] <= time
               PROVE  Coming(b)' \/ Rechecked(x)'
    BY <1>1 DEF Keeps, NoneMissed
  <2>1. Coming(b) \/ Rechecked(x)
    BY <1>1, Overdue DEF Scanning
  <2>2. Rechecked(x) => Rechecked(x)'
    BY <1>1 DEF Rechecked
  <2>3. Items(clock) = {}
    BY <1>1 DEF Items
  <2>4. Coming(b) => b \in Cover(expireDpc)
    BY <1>1, <2>3 DEF Coming
  <2>5. Cover(exp.arg)' = Cover(expireDpc)
    BY <1>1, <1>5 DEF Cover, Lists
  <2> QED BY <1>5, <2>1, <2>2, <2>4, <2>5 DEF Coming
<1> QED BY <1>7, <1>8, <1>9, <1>10, <1>11 DEF Inv

(* The interrupt time is read after the lock was taken: what is due is due.   *)
LEMMA KiTimerExpirationInv ==
  ASSUME Inv, KiTimerExpiration
  PROVE  Inv' /\ Keeps
<1>1. /\ exp.pc = "dpc" /\ lock = "free" /\ lock' = "expirer"
      /\ exp' = [exp EXCEPT !.pc = "hand", !.now = time]
      /\ UNCHANGED <<time, tick, offset, clock, look, table, due, inserted, absolute, period, expireDpc, ins,
                     queued, owed>>
  BY DEF KiTimerExpiration, Processor0, clockVars, fields
<1>2. exp \in Expirations /\ time \in 0..MaxTime /\ MaxTime \in Nat /\ expireDpc \in Nat \cup {None}
  BY TimerAssumption DEF Inv, TypeOK
<1>3. /\ exp' \in Expirations /\ exp'.pc = "hand" /\ exp'.now = time /\ exp'.arg = exp.arg
      /\ exp'.expired = exp.expired /\ exp'.absolutes = exp.absolutes /\ exp'.dpcs = exp.dpcs
  BY <1>1, <1>2 DEF Expirations
<1>4. OnlySearch
  BY <1>1, <1>2, <1>3 DEF OnlySearch
<1>5. TypeOK' /\ ClockOK' /\ TableOK' /\ ListsOK' /\ InsertedOK' /\ LinkingOK' /\ NoneLost'
  BY <1>4, OnlySearchKeeps
<1>6. ins = NoInsertion /\ \A y : ~Rechecked(y)
  BY <1>1, FreeLock
<1>7. HandsOK'
  <2>1. exp'.now <= time'
    BY <1>1, <1>2, <1>3
  <2> QED BY <1>1, <1>3, <2>1 DEF Inv, HandsOK
<1>8. LockOK'
  BY <1>1, <1>3, <1>6 DEF LockOK, NoInsertion
<1>9. LocalOK'
  BY <1>1, <1>3, <1>6 DEF Inv, LocalOK
<1>10. Keeps
  <2> SUFFICES ASSUME NEW b \in Buckets, NoneMissed(b), NEW x \in Items(table[b]), due[x] <= time
               PROVE  Coming(b)' \/ Scanning(b)'
    BY <1>1, <1>3 DEF Keeps, NoneMissed
  <2>1. Coming(b)
    BY <1>1, <1>6, Overdue DEF Scanning
  <2>2. Cover(exp.arg)' = Cover(exp.arg) /\ Cover(expireDpc)' = Cover(expireDpc)
    BY <1>1, <1>3 DEF Cover, Lists
  <2>3. CASE exp.pc = "dpc" /\ b \in Cover(exp.arg)
    BY <1>3, <2>2, <2>3 DEF Scanning
  <2>4. CASE \/ \E h \in Items(clock) : h % TableSize = b
             \/ expireDpc # None /\ b \in Cover(expireDpc)
    BY <1>1, <2>2, <2>4 DEF Coming
  <2> QED BY <2>1, <2>3, <2>4 DEF Coming
<1> QED BY <1>5, <1>7, <1>8, <1>9, <1>10 DEF Inv

(* The lists of the hand up to the tick count, or all, are those it covers.   *)
LEMMA HandLimitInv ==
  ASSUME Inv, HandLimit
  PROVE  Inv' /\ Keeps
<1>1. PICK late \in BOOLEAN : late <=> tick - exp.arg >= TableSize
  OBVIOUS
<1>2. PICK a : a = IF late THEN 0 ELSE exp.arg
  OBVIOUS
<1>3. PICK l : l = IF late THEN TableSize - 1 ELSE tick
  OBVIOUS
<1>4. /\ exp.pc = "hand" /\ exp' = [exp EXCEPT !.pc = "scan", !.arg = a, !.limit = l]
      /\ UNCHANGED <<time, tick, offset, clock, look, table, due, inserted, absolute, period, expireDpc, lock,
                     ins, queued, owed>>
  BY <1>1, <1>2, <1>3 DEF HandLimit, Processor0, clockVars, fields
<1>5. /\ exp \in Expirations /\ tick \in Nat /\ TableSize \in Nat \ {0} /\ exp.arg <= tick
      /\ exp.now <= time /\ expireDpc \in Nat \cup {None} /\ exp.arg \in Nat
  BY <1>4, TimerAssumption DEF Inv, TypeOK, HandsOK, Expirations
<1>6. a \in Nat /\ l \in Nat /\ a <= l
  BY <1>2, <1>3, <1>5
<1>7. /\ exp' \in Expirations /\ exp'.pc = "scan" /\ exp'.arg = a /\ exp'.limit = l /\ exp'.now = exp.now
      /\ exp'.expired = exp.expired /\ exp'.absolutes = exp.absolutes /\ exp'.dpcs = exp.dpcs
  BY <1>4, <1>5, <1>6 DEF Expirations
<1>8. lock = "expirer" /\ ins = NoInsertion /\ ins.then = "none" /\ \A y : ~Rechecked(y)
  BY <1>4, NotInserting
<1>9. OnlySearch
  BY <1>4, <1>5, <1>7, <1>8 DEF OnlySearch
<1>10. TypeOK' /\ ClockOK' /\ TableOK' /\ ListsOK' /\ InsertedOK' /\ LinkingOK' /\ NoneLost'
  BY <1>9, OnlySearchKeeps
<1>11. HandsOK'
  BY <1>4, <1>5, <1>6, <1>7 DEF Inv, HandsOK
<1>12. LockOK'
  BY <1>4, <1>7, <1>8 DEF LockOK
<1>13. LocalOK'
  BY <1>4, <1>7, <1>8 DEF Inv, LocalOK
<1>14. Cover(exp.arg) \subseteq Lists(a, l)
  <2>1. CASE late
    <3>1. \A b \in Buckets : b \in a..l /\ b % TableSize = b
      BY <1>2, <1>3, <1>5, <2>1, ListOfHand DEF Buckets
    <3>2. Cover(exp.arg) = Buckets
      BY <1>1, <2>1 DEF Cover
    <3> QED BY <3>1, <3>2 DEF Lists
  <2>2. CASE ~late
    BY <1>1, <1>2, <1>3, <2>2 DEF Cover
  <2> QED BY <2>1, <2>2
<1>15. Keeps
  <2> SUFFICES ASSUME NEW b \in Buckets, NoneMissed(b), NEW x \in Items(table[b]), due[x] <= time
               PROVE  Coming(b)' \/ (Scanning(b)' /\ due[x] <= exp.now)
    BY <1>4, <1>7 DEF Keeps, NoneMissed
  <2>1. Coming(b) \/ (Scanning(b) /\ due[x] <= exp.now)
    BY <1>8, Overdue
  <2>2. Coming(b) => Coming(b)'
    <3>1. Cover(expireDpc)' = Cover(expireDpc)
      BY <1>4 DEF Cover, Lists
    <3> QED BY <1>4, <3>1 DEF Coming
  <2>3. Scanning(b) => Scanning(b)'
    <3>1. Scanning(b) => b \in Lists(a, l)
      BY <1>4, <1>14 DEF Scanning
    <3>2. Lists(exp.arg, exp.limit)' = Lists(a, l)
      BY <1>7 DEF Lists
    <3> QED BY <1>7, <3>1, <3>2 DEF Scanning
  <2> QED BY <2>1, <2>2, <2>3
<1> QED BY <1>10, <1>11, <1>12, <1>13, <1>15 DEF Inv

(* One timer leaves one list of the table.                                    *)
LEMMA OneUnlinked ==
  ASSUME Inv, NEW b \in Buckets, NEW x \in Items(table[b]), NEW r \in Seq(Timers), Once(r),
         Items(r) = Items(table[b]) \ {x}, Within(r, table[b]), table' = [table EXCEPT ![b] = r],
         UNCHANGED due
  PROVE  Shrunk /\ \A y : Tabled(y)' <=> Tabled(y) /\ y # x
<1>1. /\ table' \in [Buckets -> Seq(Timers)] /\ table'[b] = r
      /\ \A c \in Buckets \ {b} : table'[c] = table[c]
  BY DEF Inv, TypeOK
<1>2. \A c \in Buckets \ {b} : x \notin Items(table[c])
  BY DEF Inv, TableOK
<1>3. \A c \in Buckets : Once(table'[c]) /\ Within(table'[c], table[c])
  <2>1. \A c \in Buckets : Once(table[c]) /\ Within(table[c], table[c])
    BY DEF Inv, TableOK, Within
  <2> QED BY <1>1, <2>1
<1>4. \A c \in Buckets : Items(table'[c]) = Items(table[c]) \ {x}
  BY <1>1, <1>2
<1>5. Shrunk
  BY <1>1, <1>3, <1>4 DEF Shrunk
<1> QED BY <1>4, <1>5 DEF Tabled

(* The state of processor 0 when it has just begun, or is done.               *)
LEMMA NoExpirationType ==
  /\ NoExpiration \in Expirations /\ NoExpiration.pc = "idle" /\ NoExpiration.expired = <<>>
  /\ NoExpiration.absolutes = <<>> /\ NoExpiration.dpcs = <<>>
<1>1. <<>> \in Seq(Timers) /\ 0 \in 0..MaxTime /\ 0 \in Nat /\ 0 \in Int
  BY TimerAssumption
<1> QED BY <1>1 DEF NoExpiration, Expirations

(* The first timer of a list that is due moves; if it is not due, none is.    *)
LEMMA ScanInv ==
  ASSUME Inv, Scan
  PROVE  Inv' /\ Keeps
<1>1. PICK b : b = exp.arg % TableSize
  OBVIOUS
<1>2. PICK expires \in BOOLEAN : expires <=> table[b] # <<>> /\ due[Head(table[b])] <= exp.now
  OBVIOUS
<1>3. /\ exp.pc = "scan"
      /\ UNCHANGED <<time, tick, offset, clock, look, due, inserted, absolute, period, expireDpc, lock, ins,
                     queued, owed>>
      /\ \/ /\ expires /\ table' = [table EXCEPT ![b] = Tail(table[b])]
            /\ exp' = [exp EXCEPT !.expired = Append(exp.expired, Head(table[b]))]
         \/ /\ ~expires /\ exp.arg # exp.limit
            /\ exp' = [exp EXCEPT !.arg = exp.arg + 1] /\ UNCHANGED table
         \/ /\ ~expires /\ exp.arg = exp.limit
            /\ exp' = [NoExpiration EXCEPT !.pc = "list", !.expired = exp.expired] /\ UNCHANGED table
  BY <1>1, <1>2 DEF Scan, Processor0, clockVars, fields
<1>4. /\ exp \in Expirations /\ exp.arg \in Nat /\ exp.limit \in Nat /\ exp.now \in Int /\ time \in Int
      /\ exp.expired \in Seq(Timers) /\ exp.now <= time /\ exp.arg <= exp.limit
      /\ expireDpc \in Nat \cup {None} /\ table \in [Buckets -> Seq(Timers)]
  BY <1>3, TimerAssumption DEF Inv, TypeOK, HandsOK, Expirations
<1>5. b \in Buckets /\ table[b] \in Seq(Timers) /\ Once(table[b])
  <2>1. exp.arg \in Int
    BY <1>4
  <2>2. b \in Buckets
    BY <1>1, <2>1, ListOfHand
  <2> QED BY <1>4, <2>2 DEF Inv, TableOK
<1>6. lock = "expirer" /\ ins = NoInsertion /\ ins.then = "none" /\ \A y : ~Linking(y) /\ ~Rechecked(y)
  BY <1>3, NotInserting
<1>7. exp.dpcs = <<>> /\ exp.absolutes = <<>>
  BY <1>3, <1>6 DEF Inv, LocalOK
<1>8. CASE /\ expires /\ table' = [table EXCEPT ![b] = Tail(table[b])]
           /\ exp' = [exp EXCEPT !.expired = Append(exp.expired, Head(table[b]))]
  <2>1. table[b] # <<>> /\ due[Head(table[b])] <= exp.now
    BY <1>2, <1>8
  <2>2. PICK x : x = Head(table[b])
    OBVIOUS
  <2>3. PICK r : r = Tail(table[b])
    OBVIOUS
  <2>4. /\ x \in Timers /\ x \in Items(table[b]) /\ r \in Seq(Timers) /\ Once(r)
        /\ Items(r) = Items(table[b]) \ {x} /\ Within(r, table[b])
    BY <1>5, <2>1, <2>2, <2>3, TailItems, TailWithin
  <2>5. Shrunk /\ \A y : Tabled(y)' <=> Tabled(y) /\ y # x
    BY <1>3, <1>5, <1>8, <2>3, <2>4, OneUnlinked
  <2>6. Tabled(x) /\ x \notin Items(exp.expired) /\ Once(exp.expired)
    BY <1>5, <2>4 DEF Inv, ListsOK, Tabled
  <2>7. PICK q : q = Append(exp.expired, x)
    OBVIOUS
  <2>8. q \in Seq(Timers) /\ Once(q) /\ Items(q) = Items(exp.expired) \cup {x}
    BY <1>4, <2>4, <2>6, <2>7, AppendItems
  <2>9. exp' = [exp EXCEPT !.expired = q]
    BY <1>8, <2>2, <2>7
  <2>10. /\ exp' \in Expirations /\ exp'.pc = "scan" /\ exp'.arg = exp.arg /\ exp'.limit = exp.limit
         /\ exp'.now = exp.now /\ exp'.expired = q /\ exp'.absolutes = <<>> /\ exp'.dpcs = <<>>
    BY <1>3, <1>4, <1>7, <2>8, <2>9 DEF Expirations
  <2>11. Still /\ SameSearch
    BY <1>3, <2>10 DEF Still, SameSearch
  <2>12. due[x] <= time
    <3>1. due[x] \in Int
      BY <2>4 DEF Inv, TypeOK
    <3> QED BY <1>4, <2>1, <2>2, <3>1
  <2>13. TypeOK'
    BY <1>3, <2>5, <2>10 DEF Inv, TypeOK, Shrunk
  <2>14. ClockOK' /\ HandsOK' /\ TableOK'
    BY <2>5, <2>11, StillKeeps, TableShrunk DEF Inv
  <2>15. LockOK' /\ LocalOK'
    BY <1>3, <1>6, <2>10 DEF LockOK, LocalOK
  <2>16. ListsOK'
    <3>1. \A y \in Items(q) : due[y] <= time /\ (Tabled(y) => y = x)
      BY <2>8, <2>12 DEF Inv, ListsOK
    <3>2. Items(<<>>) = {} /\ Once(<<>>)
      BY <1>7 DEF Items, Inv, ListsOK
    <3>3. ins'.stage # "recheck"
      BY <1>3, <1>6 DEF NoInsertion
    <3> QED BY <1>3, <2>5, <2>8, <2>10, <3>1, <3>2, <3>3 DEF ListsOK
  <2>17. InsertedOK' /\ LinkingOK'
    <3>1. \A y : Linked(y)' <=> Linked(y)
      BY <1>7, <2>5, <2>6, <2>8, <2>10 DEF Linked
    <3>2. \A y : Linking(y)' <=> Linking(y)
      BY <1>3 DEF Linking
    <3> QED BY <1>3, <3>1, <3>2, Moves
  <2>18. Keeps
    BY <1>6, <2>5, <2>11, MissedShrunk
  <2>19. NoneLost'
    BY <1>3, <1>7, <2>10 DEF Inv, NoneLost
  <2> QED BY <2>13, <2>14, <2>15, <2>16, <2>17, <2>18, <2>19 DEF Inv
<1>9. ASSUME ~expires, NEW c \in Buckets, NoneMissed(c), NEW x \in Items(table[c]), due[x] <= time
      PROVE  Coming(c) \/ (due[x] <= exp.now /\ \E h \in exp.arg..exp.limit : h # exp.arg /\ c = h % TableSize)
  <2>1. (Coming(c) \/ (Scanning(c) /\ due[x] <= exp.now)) /\ x \in Timers /\ due[x] \in Int
    BY <1>6, <1>9, Overdue
  <2>2. CASE Scanning(c) /\ due[x] <= exp.now
    <3>1. PICK h \in exp.arg..exp.limit : c = h % TableSize
      BY <1>3, <2>2 DEF Scanning, Lists
    <3>2. h # exp.arg
      <4> SUFFICES ASSUME h = exp.arg PROVE FALSE
        OBVIOUS
      <4>1. c = b
        BY <1>1, <3>1
      <4>2. table[b] # <<>> /\ Head(table[b]) \in Timers /\ due[Head(table[b])] <= due[x]
        BY <1>9, <4>1, HeadFirst DEF Inv
      <4>3. due[Head(table[b])] \in Int
        BY <4>2 DEF Inv, TypeOK
      <4>4. due[Head(table[b])] <= exp.now
        BY <1>4, <2>1, <2>2, <4>2, <4>3
      <4> QED BY <1>2, <1>9, <4>2, <4>4
    <3> QED BY <2>2, <3>1, <3>2
  <2> QED BY <2>1, <2>2
<1>10. ASSUME NEW c, Coming(c), exp'.pc # "dpc"
       PROVE  Coming(c)'
  <2>1. Cover(expireDpc)' = Cover(expireDpc)
    BY <1>3 DEF Cover, Lists
  <2> QED BY <1>3, <1>10, <2>1 DEF Coming
<1>11. CASE /\ ~expires /\ exp.arg # exp.limit
            /\ exp' = [exp EXCEPT !.arg = exp.arg + 1] /\ UNCHANGED table
  <2>1. exp.arg + 1 \in Nat /\ exp.arg + 1 <= exp.limit
    BY <1>4, <1>11
  <2>2. /\ exp' \in Expirations /\ exp'.pc = "scan" /\ exp'.arg = exp.arg + 1 /\ exp'.limit = exp.limit
        /\ exp'.now = exp.now /\ exp'.expired = exp.expired /\ exp'.absolutes = exp.absolutes
        /\ exp'.dpcs = exp.dpcs
    BY <1>3, <1>4, <1>11, <2>1 DEF Expirations
  <2>3. OnlySearch
    BY <1>3, <1>4, <1>6, <1>11, <2>2 DEF OnlySearch
  <2>4. TypeOK' /\ ClockOK' /\ TableOK' /\ ListsOK' /\ InsertedOK' /\ LinkingOK' /\ NoneLost'
    BY <2>3, OnlySearchKeeps
  <2>5. HandsOK'
    BY <1>3, <1>4, <2>1, <2>2 DEF Inv, HandsOK
  <2>6. LockOK' /\ LocalOK'
    BY <1>3, <1>6, <1>7, <2>2 DEF LockOK, LocalOK
  <2>7. Keeps
    <3> SUFFICES ASSUME NEW c \in Buckets, NoneMissed(c), NEW x \in Items(table[c]), due[x] <= time
                 PROVE  Coming(c)' \/ (Scanning(c)' /\ due[x] <= exp.now)
      BY <1>3, <1>11, <2>2 DEF Keeps, NoneMissed
    <3>1. CASE Coming(c)
      BY <1>10, <2>2, <3>1
    <3>2. CASE due[x] <= exp.now /\ \E h \in exp.arg..exp.limit : h # exp.arg /\ c = h % TableSize
      <4>1. PICK h \in exp.arg..exp.limit : h # exp.arg /\ c = h % TableSize
        BY <3>2
      <4>2. h \in (exp.arg + 1)..exp.limit
        BY <1>4, <4>1
      <4>3. c \in Lists(exp.arg, exp.limit)'
        BY <2>2, <4>1, <4>2 DEF Lists
      <4> QED BY <2>2, <3>2, <4>3 DEF Scanning
    <3> QED BY <1>9, <1>11, <3>1, <3>2
  <2> QED BY <2>4, <2>5, <2>6, <2>7 DEF Inv
<1>12. CASE /\ ~expires /\ exp.arg = exp.limit
            /\ exp' = [NoExpiration EXCEPT !.pc = "list", !.expired = exp.expired] /\ UNCHANGED table
  <2>1. /\ exp' \in Expirations /\ exp'.pc = "list" /\ exp'.expired = exp.expired
        /\ exp'.absolutes = <<>> /\ exp'.dpcs = <<>>
    BY <1>4, <1>12, NoExpirationType DEF Expirations
  <2>2. OnlySearch
    BY <1>3, <1>4, <1>6, <1>7, <1>12, <2>1 DEF OnlySearch
  <2>3. TypeOK' /\ ClockOK' /\ TableOK' /\ ListsOK' /\ InsertedOK' /\ LinkingOK' /\ NoneLost'
    BY <2>2, OnlySearchKeeps
  <2>4. HandsOK'
    BY <1>3, <2>1 DEF Inv, HandsOK
  <2>5. LockOK' /\ LocalOK'
    BY <1>3, <1>6, <2>1 DEF LockOK, LocalOK
  <2>6. Keeps
    <3> SUFFICES ASSUME NEW c \in Buckets, NoneMissed(c), NEW x \in Items(table[c]), due[x] <= time
                 PROVE  Coming(c)'
      BY <1>3, <1>12, <2>1 DEF Keeps, NoneMissed
    <3>1. ~\E h \in exp.arg..exp.limit : h # exp.arg
      BY <1>4, <1>12
    <3>2. Coming(c)
      BY <1>9, <1>12, <3>1
    <3> QED BY <1>10, <2>1, <3>2
  <2> QED BY <2>3, <2>4, <2>5, <2>6 DEF Inv
<1> QED BY <1>3, <1>8, <1>11, <1>12

-----------------------------------------------------------------------------
(* KiTimerListExpire.                                                         *)

(* The next timer leaves the local list; its DPC is captured or queued, at    *)
(* once or when the timer has been inserted again.                            *)
LEMMA ExpireNextInv ==
  ASSUME Inv, ExpireNext
  PROVE  Inv' /\ Keeps
<1>1. PICK x : x = Head(exp.expired)
  OBVIOUS
<1>2. PICK q : q = Tail(exp.expired)
  OBVIOUS
<1>3. PICK e : e = [exp EXCEPT !.expired = q]
  OBVIOUS
<1>4. /\ exp.pc = "list" /\ exp.expired # <<>> /\ Expires(x)
      /\ UNCHANGED <<time, tick, offset, clock, look, table, expireDpc>>
      /\ \/ period[x] = 0 /\ NotSet(x) /\ Capture(x, e) /\ UNCHANGED ins
         \/ /\ period[x] # 0 /\ KiInsertTreeTimer(x, period[x], FALSE, period[x], "expire")
            /\ exp' = [e EXCEPT !.pc = "insert"] /\ UNCHANGED <<lock, queued>>
  BY <1>1, <1>2, <1>3 DEF ExpireNext, Processor0, clockVars
<1>5. /\ lock = "expirer" /\ ins = NoInsertion /\ ins.then = "none" /\ ins.stage = "none"
      /\ \A y : ~Linking(y) /\ ~Rechecked(y)
  BY <1>4, NotInserting
<1>6. /\ exp \in Expirations /\ exp.expired \in Seq(Timers) /\ Once(exp.expired)
      /\ queued \subseteq WithDpc /\ owed \subseteq WithDpc
  BY DEF Inv, TypeOK, Expirations, ListsOK
<1>7. /\ x \in Timers /\ x \in Items(exp.expired) /\ q \in Seq(Timers) /\ Once(q)
      /\ Items(q) = Items(exp.expired) \ {x}
  BY <1>1, <1>2, <1>4, <1>6, TailItems
<1>8. /\ e \in Expirations /\ e.expired = q /\ e.absolutes = exp.absolutes /\ e.dpcs = exp.dpcs
      /\ exp.absolutes = <<>>
  <2>1. exp.absolutes = <<>>
    BY <1>4, <1>5 DEF Inv, LocalOK
  <2> QED BY <1>3, <1>6, <1>7, <2>1 DEF Expirations
<1>9. owed' \subseteq WithDpc /\ owed' \subseteq owed \cup {x}
  BY <1>4, <1>6 DEF Expires
<1>10. period[x] \in Nat /\ period[x] \in Int
  BY <1>7 DEF Inv, TypeOK
<1>11. /\ OnlyFieldsOf(x) /\ exp' \in Expirations /\ exp'.expired = q /\ exp'.absolutes = <<>>
       /\ exp'.pc \in {"list", "run", "insert"} /\ (exp'.pc = "run" => exp'.full)
       /\ queued' \subseteq WithDpc /\ NoneLost' /\ LockOK' /\ lock' \in {"free", "setter", "expirer"}
       /\ ins' \in [timer: Timers \cup {None}, stage: {"none", "link", "recheck"},
                    then: {"none", "set", "period", "expire", "system"}]
       /\ ins'.stage # "recheck" /\ (\A y : Linking(y)' => y = x)
       /\ (inserted'[x] <=> Linking(x)')
  <2>1. \A y \in owed : y \in queued \/ y \in Items(exp.dpcs)
    BY <1>5 DEF Inv, NoneLost
  <2>2. CASE period[x] = 0 /\ NotSet(x) /\ Capture(x, e) /\ UNCHANGED ins
    <3>1. OnlyFieldsOf(x) /\ inserted'[x] = FALSE
      BY <1>7, <2>2, NotSetFacts DEF Inv
    <3>2. /\ exp' \in Expirations /\ exp'.pc \in {"list", "run"} /\ (exp'.pc = "run" => exp'.full)
          /\ exp'.expired = e.expired /\ exp'.absolutes = e.absolutes
          /\ lock' = IF exp'.pc = "run" THEN "free" ELSE "expirer"
          /\ queued \subseteq queued' /\ queued' \subseteq WithDpc
          /\ Items(e.dpcs) \subseteq Items(exp'.dpcs)
          /\ x \in WithDpc => x \in queued' \/ x \in Items(exp'.dpcs)
      BY <1>7, <1>8, <2>2, CaptureFacts
    <3>3. NoneLost'
      BY <1>8, <1>9, <2>1, <3>2 DEF NoneLost
    <3>4. ins' = NoInsertion
      BY <1>5, <2>2
    <3>5. LockOK'
      BY <3>2, <3>4 DEF LockOK, NoInsertion
    <3>6. /\ ins' \in [timer: Timers \cup {None}, stage: {"none", "link", "recheck"},
                       then: {"none", "set", "period", "expire", "system"}]
          /\ ins'.stage # "recheck" /\ \A y : ~Linking(y)'
      BY <3>4 DEF NoInsertion, Linking
    <3> QED BY <1>8, <3>1, <3>2, <3>3, <3>5, <3>6
  <2>3. CASE /\ KiInsertTreeTimer(x, period[x], FALSE, period[x], "expire")
             /\ exp' = [e EXCEPT !.pc = "insert"] /\ UNCHANGED <<lock, queued>>
    <3>1. /\ OnlyFieldsOf(x) /\ inserted'[x] = TRUE
          /\ ins' = [timer |-> x, stage |-> "link", then |-> "expire"]
      BY <1>7, <1>10, <2>3, KiInsertTreeTimerFacts DEF Inv
    <3>2. /\ exp' \in Expirations /\ exp'.pc = "insert" /\ exp'.expired = q /\ exp'.absolutes = <<>>
          /\ exp'.dpcs = exp.dpcs
      BY <1>8, <2>3 DEF Expirations
    <3>3. ins'.timer = x /\ ins'.stage = "link" /\ ins'.then = "expire"
      BY <3>1
    <3>4. NoneLost'
      BY <1>9, <2>1, <2>3, <3>2, <3>3 DEF NoneLost
    <3>5. LockOK'
      BY <1>5, <1>7, <2>3, <3>2, <3>3 DEF LockOK
    <3>6. /\ ins' \in [timer: Timers \cup {None}, stage: {"none", "link", "recheck"},
                       then: {"none", "set", "period", "expire", "system"}]
          /\ ins'.stage # "recheck" /\ (\A y : Linking(y)' => y = x) /\ Linking(x)'
      BY <1>7, <3>1 DEF Linking
    <3> QED BY <1>5, <1>6, <2>3, <3>1, <3>2, <3>4, <3>5, <3>6
  <2> QED BY <1>4, <2>2, <2>3
<1>12. Still /\ SameSearch
  BY <1>4, <1>11 DEF Still, SameSearch, Searches
<1>13. ~Tabled(x) /\ Linked(x) /\ Shrunk
  <2>1. ~Tabled(x) /\ Linked(x)
    BY <1>7 DEF Inv, ListsOK, Linked
  <2>2. \A y \in Timers : Tabled(y) => due'[y] = due[y]
    BY <1>11, <2>1 DEF OnlyFieldsOf
  <2> QED BY <1>4, <2>1, <2>2, TableSame DEF Inv
<1>14. TypeOK'
  BY <1>4, <1>9, <1>11 DEF Inv, TypeOK, OnlyFieldsOf
<1>15. ClockOK' /\ HandsOK' /\ TableOK'
  BY <1>12, <1>13, StillKeeps, TableShrunk DEF Inv
<1>16. LocalOK'
  BY <1>11 DEF LocalOK
<1>17. \A y : Tabled(y)' <=> Tabled(y)
  BY <1>4 DEF Tabled
<1>18. ListsOK'
  <2>1. \A y \in Items(q) : ~Tabled(y) /\ due'[y] <= time'
    <3>1. Items(q) \subseteq Timers
      BY <1>7, ItemsOf
    <3>2. \A y \in Items(q) : ~Tabled(y) /\ due[y] <= time /\ due'[y] = due[y]
      BY <1>7, <1>11, <3>1 DEF Inv, ListsOK, OnlyFieldsOf
    <3> QED BY <1>4, <3>2
  <2>2. Items(<<>>) = {} /\ Once(<<>>)
    BY <1>8 DEF Items, Inv, ListsOK
  <2> QED BY <1>7, <1>11, <1>17, <2>1, <2>2 DEF ListsOK
<1>19. InsertedOK' /\ LinkingOK'
  <2>1. \A y : Linked(y)' <=> Linked(y) /\ y # x
    <3>1. Items(<<>>) = {}
      BY DEF Items
    <3> QED BY <1>7, <1>8, <1>11, <1>13, <1>17, <3>1 DEF Linked
  <2>2. \A y \in Timers \ {x} : ~Linking(y) /\ ~Linking(y)' /\ inserted'[y] = inserted[y]
    BY <1>5, <1>11 DEF OnlyFieldsOf
  <2> QED BY <1>7, <1>11, <2>1, <2>2, Leaves
<1>20. Keeps
  BY <1>5, <1>12, <1>13, MissedShrunk
<1> QED BY <1>11, <1>14, <1>15, <1>16, <1>18, <1>19, <1>20 DEF Inv

(* A step of processor 0 that is no part of a search and moves no timer.      *)
LEMMA OnlySearchStep ==
  ASSUME Inv, OnlySearch, UNCHANGED expireDpc, exp.pc \notin Searches, exp'.pc \notin Searches,
         LockOK', LocalOK'
  PROVE  Inv' /\ Keeps
<1>1. TypeOK' /\ ClockOK' /\ TableOK' /\ ListsOK' /\ InsertedOK' /\ LinkingOK' /\ NoneLost'
  BY OnlySearchKeeps
<1>2. Still /\ SameSearch
  BY DEF OnlySearch, Still, SameSearch
<1>3. HandsOK'
  BY <1>2, StillKeeps
<1>4. Shrunk
  BY TableSame DEF Inv, OnlySearch
<1>5. \A y : Rechecked(y) => Rechecked(y)'
  BY DEF OnlySearch, Rechecked
<1>6. Keeps
  BY <1>2, <1>4, <1>5, MissedShrunk
<1> QED BY <1>1, <1>3, <1>6 DEF Inv

(* The list is empty when the lock is given up.                               *)
LEMMA ListDoneInv ==
  ASSUME Inv, ListDone
  PROVE  Inv' /\ Keeps
<1>1. /\ exp.pc = "list" /\ exp.expired = <<>> /\ lock' = "free" /\ exp' = [exp EXCEPT !.pc = "run"]
      /\ UNCHANGED <<time, tick, offset, clock, look, table, due, inserted, absolute, period, expireDpc, ins,
                     queued, owed>>
  BY DEF ListDone, Processor0, clockVars, fields
<1>2. ins = NoInsertion /\ ins.then = "none" /\ exp \in Expirations /\ expireDpc \in Nat \cup {None}
  BY <1>1, NotInserting DEF Inv, TypeOK
<1>3. /\ exp' \in Expirations /\ exp'.pc = "run" /\ exp'.expired = exp.expired
      /\ exp'.absolutes = exp.absolutes /\ exp'.dpcs = exp.dpcs
  BY <1>1, <1>2 DEF Expirations
<1>4. exp.absolutes = <<>>
  BY <1>1, <1>2 DEF Inv, LocalOK
<1>5. LockOK' /\ LocalOK'
  BY <1>1, <1>2, <1>3, <1>4 DEF LockOK, LocalOK
<1>6. OnlySearch
  BY <1>1, <1>2, <1>3 DEF OnlySearch
<1> QED BY <1>1, <1>3, <1>5, <1>6, OnlySearchStep DEF Searches

(* A captured DPC runs.                                                       *)
LEMMA RunDpcInv ==
  ASSUME Inv, RunDpc
  PROVE  Inv' /\ Keeps
<1>1. PICK x, q : x = Head(exp.dpcs) /\ q = Tail(exp.dpcs)
  OBVIOUS
<1>2. /\ exp.pc = "run" /\ exp.dpcs # <<>> /\ owed' = owed \ {x} /\ exp' = [exp EXCEPT !.dpcs = q]
      /\ UNCHANGED <<time, tick, offset, clock, look, table, due, inserted, absolute, period, expireDpc, lock,
                     ins, queued>>
  BY <1>1 DEF RunDpc, Processor0, clockVars, fields
<1>3. exp \in Expirations /\ exp.dpcs \in Seq(Timers)
  BY DEF Inv, TypeOK, Expirations
<1>4. q \in Seq(Timers) /\ Items(exp.dpcs) \subseteq Items(q) \cup {x}
  <2>1. /\ Len(exp.dpcs) \in Nat /\ q \in Seq(Timers) /\ x = exp.dpcs[1] /\ Len(q) = Len(exp.dpcs) - 1
        /\ \A i \in 1..Len(q) : q[i] = exp.dpcs[i + 1]
    BY <1>1, <1>2, <1>3, HeadTailProperties, LenProperties
  <2>2. ASSUME NEW i \in 1..Len(exp.dpcs), i # 1
        PROVE  i - 1 \in 1..Len(q) /\ q[i - 1] = exp.dpcs[i]
    BY <2>1, <2>2
  <2>3. ASSUME NEW y \in Items(exp.dpcs), y # x PROVE y \in Items(q)
    <3>1. PICK i \in 1..Len(exp.dpcs) : y = exp.dpcs[i]
      BY DEF Items
    <3>2. i # 1
      BY <2>1, <2>3, <3>1
    <3> QED BY <2>2, <3>1, <3>2 DEF Items
  <2> QED BY <2>1, <2>3
<1>5. /\ exp' \in Expirations /\ exp'.pc = "run" /\ exp'.full = exp.full /\ exp'.expired = exp.expired
      /\ exp'.absolutes = exp.absolutes /\ exp'.dpcs = q
  BY <1>2, <1>3, <1>4 DEF Expirations
<1>6. TypeOK'
  BY <1>2, <1>5 DEF Inv, TypeOK
<1>7. Still /\ SameSearch
  BY <1>2, <1>5 DEF Still, SameSearch, Searches
<1>8. Shrunk
  BY <1>2, TableSame DEF Inv
<1>9. ClockOK' /\ HandsOK' /\ TableOK'
  BY <1>7, <1>8, StillKeeps, TableShrunk DEF Inv
<1>10. LockOK' /\ LocalOK'
  BY <1>2, <1>5 DEF Inv, LockOK, LocalOK
<1>11. ListsOK' /\ InsertedOK' /\ LinkingOK'
  BY <1>2, <1>5 DEF Inv, ListsOK, InsertedOK, LinkingOK, Linked, Linking, Tabled
<1>12. Keeps
  <2>1. \A y : Rechecked(y) => Rechecked(y)'
    BY <1>2 DEF Rechecked
  <2> QED BY <1>7, <1>8, <2>1, MissedShrunk
<1>13. NoneLost'
  BY <1>2, <1>4, <1>5 DEF Inv, NoneLost
<1> QED BY <1>6, <1>9, <1>10, <1>11, <1>12, <1>13 DEF Inv

(* Nothing is left behind when the expiration ends; after a batch it goes on. *)
LEMMA RestartScanInv ==
  ASSUME Inv, RestartScan
  PROVE  Inv' /\ Keeps
<1>1. /\ exp.pc = "run" /\ exp.dpcs = <<>>
      /\ \/ exp.full /\ lock = "free" /\ lock' = "expirer" /\ exp' = [exp EXCEPT !.pc = "list", !.full = FALSE]
         \/ ~exp.full /\ exp' = NoExpiration /\ UNCHANGED lock
      /\ UNCHANGED <<time, tick, offset, clock, look, table, due, inserted, absolute, period, expireDpc, ins,
                     queued, owed>>
  BY DEF RestartScan, Processor0, clockVars, fields
<1>2. /\ exp \in Expirations /\ expireDpc \in Nat \cup {None} /\ lock \in {"free", "setter", "expirer"}
      /\ lock # "expirer" /\ ins.then # "system"
  BY <1>1 DEF Inv, TypeOK, LockOK, NoInsertion
<1>3. exp.absolutes = <<>> /\ (~exp.full => exp.expired = <<>>)
  BY <1>1, <1>2 DEF Inv, LocalOK
<1>4. CASE /\ exp.full /\ lock = "free" /\ lock' = "expirer"
           /\ exp' = [exp EXCEPT !.pc = "list", !.full = FALSE]
  <2>1. /\ exp' \in Expirations /\ exp'.pc = "list" /\ exp'.expired = exp.expired
        /\ exp'.absolutes = exp.absolutes /\ exp'.dpcs = exp.dpcs
    BY <1>2, <1>4 DEF Expirations
  <2>2. ins = NoInsertion
    BY <1>4, FreeLock
  <2>3. LockOK' /\ LocalOK'
    BY <1>1, <1>3, <1>4, <2>1, <2>2 DEF LockOK, LocalOK, NoInsertion
  <2>4. OnlySearch
    BY <1>1, <1>2, <1>4, <2>1 DEF OnlySearch
  <2> QED BY <1>1, <2>1, <2>3, <2>4, OnlySearchStep DEF Searches
<1>5. CASE ~exp.full /\ exp' = NoExpiration /\ UNCHANGED lock
  <2>1. /\ exp' \in Expirations /\ exp'.pc = "idle" /\ exp'.expired = <<>>
        /\ exp'.absolutes = <<>> /\ exp'.dpcs = <<>>
    BY <1>5, NoExpirationType
  <2>2. LockOK'
    BY <1>1, <1>2, <1>5, <2>1 DEF Inv, LockOK
  <2>3. LocalOK'
    BY <2>1 DEF LocalOK
  <2>4. OnlySearch
    BY <1>1, <1>2, <1>3, <1>5, <2>1 DEF OnlySearch
  <2> QED BY <1>1, <2>1, <2>2, <2>3, <2>4, OnlySearchStep DEF Searches
<1> QED BY <1>1, <1>4, <1>5

-----------------------------------------------------------------------------
(* KeSetSystemTime.                                                           *)

(* KeSetSystemTime takes the lock, with empty local lists.                    *)
LEMMA KeSetSystemTimeInv ==
  ASSUME Inv, NEW delta \in Deltas, KeSetSystemTime(delta)
  PROVE  Inv' /\ Keeps
<1>1. /\ exp.pc = "idle" /\ lock = "free" /\ lock' = "expirer"
      /\ exp' = [NoExpiration EXCEPT !.pc = "remove", !.delta = delta]
      /\ UNCHANGED <<time, tick, offset, clock, look, table, due, inserted, absolute, period, expireDpc, ins,
                     queued, owed>>
  BY DEF KeSetSystemTime, Processor0, clockVars, fields
<1>2. ins = NoInsertion /\ delta \in Int /\ expireDpc \in Nat \cup {None}
  BY <1>1, FreeLock, TimerAssumption DEF Inv, TypeOK
<1>3. exp.expired = <<>> /\ exp.absolutes = <<>> /\ exp.dpcs = <<>>
  BY <1>1, <1>2 DEF Inv, LocalOK, NoInsertion
<1>4. /\ exp' \in Expirations /\ exp'.pc = "remove" /\ exp'.expired = <<>>
      /\ exp'.absolutes = <<>> /\ exp'.dpcs = <<>>
  BY <1>1, <1>2, NoExpirationType DEF Expirations
<1>5. LockOK' /\ LocalOK'
  BY <1>1, <1>2, <1>4 DEF LockOK, LocalOK, NoInsertion
<1>6. OnlySearch
  BY <1>1, <1>2, <1>3, <1>4 DEF OnlySearch
<1> QED BY <1>1, <1>4, <1>5, <1>6, OnlySearchStep DEF Searches

(* An absolute timer moves from the table to the local list.                  *)
LEMMA RemoveAbsoluteInv ==
  ASSUME Inv, RemoveAbsolute
  PROVE  Inv' /\ Keeps
<1>1. /\ exp.pc = "remove"
      /\ UNCHANGED <<time, tick, offset, clock, look, due, inserted, absolute, period, expireDpc, lock, ins,
                     queued, owed>>
      /\ \/ \E b \in Buckets : \E i \in Absolute(b) :
              /\ table' = [table EXCEPT ![b] = RemoveAt(table[b], i)]
              /\ exp' = [exp EXCEPT !.absolutes = Append(exp.absolutes, table[b][i])]
         \/ exp' = [exp EXCEPT !.pc = "system"] /\ UNCHANGED table
  BY DEF RemoveAbsolute, Processor0, clockVars, fields
<1>2. /\ lock = "expirer" /\ ins = NoInsertion /\ ins.then = "none" /\ ins.stage = "none"
      /\ \A y : ~Linking(y) /\ ~Rechecked(y)
  BY <1>1, NotInserting
<1>3. exp \in Expirations /\ expireDpc \in Nat \cup {None}
  BY DEF Inv, TypeOK
<1>4. CASE exp' = [exp EXCEPT !.pc = "system"] /\ UNCHANGED table
  <2>1. /\ exp' \in Expirations /\ exp'.pc = "system" /\ exp'.expired = exp.expired
        /\ exp'.absolutes = exp.absolutes /\ exp'.dpcs = exp.dpcs
    BY <1>3, <1>4 DEF Expirations
  <2>2. LockOK' /\ LocalOK'
    BY <1>1, <1>2, <2>1 DEF LockOK, LocalOK
  <2>3. OnlySearch
    BY <1>1, <1>2, <1>3, <1>4, <2>1 DEF OnlySearch
  <2> QED BY <1>1, <2>1, <2>2, <2>3, OnlySearchStep DEF Searches
<1>5. ASSUME NEW b \in Buckets, NEW i \in Absolute(b),
             table' = [table EXCEPT ![b] = RemoveAt(table[b], i)],
             exp' = [exp EXCEPT !.absolutes = Append(exp.absolutes, table[b][i])]
      PROVE  Inv' /\ Keeps
  <2>1. i \in 1..Len(table[b]) /\ table[b] \in Seq(Timers) /\ Once(table[b])
    BY DEF Absolute, Inv, TypeOK, TableOK
  <2>2. PICK x, r : x = table[b][i] /\ r = RemoveAt(table[b], i)
    OBVIOUS
  <2>3. /\ x \in Timers /\ x \in Items(table[b]) /\ r \in Seq(Timers) /\ Once(r)
        /\ Items(r) = Items(table[b]) \ {x} /\ Within(r, table[b])
    <3>1. x \in Timers /\ x \in Items(table[b])
      BY <2>1, <2>2, ElementOfSeq DEF Items
    <3> QED BY <2>1, <2>2, <3>1, RemoveAtItems, RemoveAtWithin
  <2>4. Shrunk /\ \A y : Tabled(y)' <=> Tabled(y) /\ y # x
    BY <1>1, <1>5, <2>2, <2>3, OneUnlinked
  <2>5. /\ Tabled(x) /\ x \notin Items(exp.expired) /\ x \notin Items(exp.absolutes)
        /\ exp.absolutes \in Seq(Timers) /\ Once(exp.absolutes)
    BY <1>3, <2>3 DEF Inv, ListsOK, Tabled, Expirations
  <2>6. PICK q : q = Append(exp.absolutes, x)
    OBVIOUS
  <2>7. q \in Seq(Timers) /\ Once(q) /\ Items(q) = Items(exp.absolutes) \cup {x}
    BY <2>3, <2>5, <2>6, AppendItems
  <2>8. /\ exp' \in Expirations /\ exp'.pc = "remove" /\ exp'.expired = exp.expired
        /\ exp'.absolutes = q /\ exp'.dpcs = exp.dpcs
    BY <1>1, <1>3, <1>5, <2>2, <2>6, <2>7 DEF Expirations
  <2>9. Still /\ SameSearch
    BY <1>1, <2>8 DEF Still, SameSearch, Searches
  <2>10. TypeOK'
    BY <1>1, <2>4, <2>8 DEF Inv, TypeOK, Shrunk
  <2>11. ClockOK' /\ HandsOK' /\ TableOK'
    BY <2>4, <2>9, StillKeeps, TableShrunk DEF Inv
  <2>12. LockOK' /\ LocalOK'
    BY <1>1, <1>2, <2>8 DEF LockOK, LocalOK
  <2>13. ListsOK'
    <3>1. /\ Once(exp.expired)
          /\ \A y \in Items(exp.expired) : ~Tabled(y) /\ y \notin Items(exp.absolutes) /\ due[y] <= time
          /\ \A y \in Items(exp.absolutes) : ~Tabled(y)
      BY DEF Inv, ListsOK
    <3>2. time' = time /\ due' = due /\ ins'.stage # "recheck"
      BY <1>1, <1>2
    <3> QED BY <2>4, <2>5, <2>7, <2>8, <3>1, <3>2 DEF ListsOK
  <2>14. InsertedOK' /\ LinkingOK'
    <3>1. \A y : Linked(y)' <=> Linked(y)
      BY <2>4, <2>5, <2>7, <2>8 DEF Linked
    <3>2. \A y : Linking(y)' <=> Linking(y)
      BY <1>1 DEF Linking
    <3> QED BY <1>1, <3>1, <3>2, Moves
  <2>15. Keeps
    BY <1>2, <2>4, <2>9, MissedShrunk
  <2>16. NoneLost'
    BY <1>1, <2>8 DEF Inv, NoneLost
  <2> QED BY <2>10, <2>11, <2>12, <2>13, <2>14, <2>15, <2>16 DEF Inv
<1> QED BY <1>1, <1>4, <1>5

(* The next absolute timer gets its new due time: it moves to the list of     *)
(* those that have expired, or is inserted again.                             *)
LEMMA ReinsertAbsoluteInv ==
  ASSUME Inv, ReinsertAbsolute
  PROVE  Inv' /\ Keeps
<1>1. PICK x, q : x = Head(exp.absolutes) /\ q = Tail(exp.absolutes)
  OBVIOUS
<1>2. PICK d, e : d = due[x] - exp.delta /\ e = [exp EXCEPT !.absolutes = q]
  OBVIOUS
<1>3. /\ exp.pc = "system" /\ exp.absolutes # <<>> /\ due' = [due EXCEPT ![x] = d]
      /\ \/ d <= time /\ exp' = [e EXCEPT !.expired = Append(e.expired, x)] /\ UNCHANGED ins
         \/ /\ d > time /\ ins' = [timer |-> x, stage |-> "link", then |-> "system"]
            /\ exp' = [e EXCEPT !.pc = "insert"]
      /\ UNCHANGED <<time, tick, offset, clock, look, table, inserted, absolute, period, expireDpc, lock,
                     queued, owed>>
  BY <1>1, <1>2 DEF ReinsertAbsolute, Processor0, clockVars
<1>4. /\ lock = "expirer" /\ ins = NoInsertion /\ ins.then = "none" /\ ins.stage = "none"
      /\ \A y : ~Linking(y) /\ ~Rechecked(y)
  BY <1>3, NotInserting
<1>5. /\ exp \in Expirations /\ exp.absolutes \in Seq(Timers) /\ Once(exp.absolutes)
      /\ exp.expired \in Seq(Timers) /\ Once(exp.expired) /\ exp.delta \in Int
  BY DEF Inv, TypeOK, Expirations, ListsOK
<1>6. /\ x \in Timers /\ x \in Items(exp.absolutes) /\ q \in Seq(Timers) /\ Once(q)
      /\ Items(q) = Items(exp.absolutes) \ {x}
  BY <1>1, <1>3, <1>5, TailItems
<1>7. /\ e \in Expirations /\ e.absolutes = q /\ e.expired = exp.expired /\ e.dpcs = exp.dpcs
      /\ e.pc = "system"
  BY <1>2, <1>3, <1>5, <1>6 DEF Expirations
<1>8. d \in Int /\ due' \in [Timers -> Int] /\ due'[x] = d /\ \A y \in Timers \ {x} : due'[y] = due[y]
  <2>1. due[x] \in Int
    BY <1>6 DEF Inv, TypeOK
  <2>2. d \in Int
    BY <1>2, <1>5, <2>1
  <2> QED BY <1>3, <1>6, <2>2 DEF Inv, TypeOK
<1>9. ~Tabled(x) /\ x \notin Items(exp.expired) /\ Linked(x)
  BY <1>6 DEF Inv, ListsOK, Linked
<1>10. Shrunk /\ \A y : Tabled(y)' <=> Tabled(y)
  <2>1. \A y \in Timers : Tabled(y) => due'[y] = due[y]
    BY <1>8, <1>9
  <2>2. Shrunk
    BY <1>3, <2>1, TableSame DEF Inv
  <2> QED BY <1>3, <2>2 DEF Tabled
<1>11. \A y \in Items(exp.expired) : ~Tabled(y) /\ y \notin Items(exp.absolutes) /\ due'[y] <= time
  <2>1. Items(exp.expired) \subseteq Timers
    BY <1>5, ItemsOf
  <2>2. \A y \in Items(exp.expired) : due'[y] = due[y]
    BY <1>8, <1>9, <2>1
  <2> QED BY <2>2 DEF Inv, ListsOK
<1>12. \A y \in Items(exp.absolutes) : ~Tabled(y)
  BY DEF Inv, ListsOK
<1>13. \A y \in owed : y \in queued \/ y \in Items(exp.dpcs)
  BY <1>4 DEF Inv, NoneLost
<1>14. CASE d <= time /\ exp' = [e EXCEPT !.expired = Append(e.expired, x)] /\ UNCHANGED ins
  <2>1. PICK p : p = Append(e.expired, x)
    OBVIOUS
  <2>2. p \in Seq(Timers) /\ Once(p) /\ Items(p) = Items(exp.expired) \cup {x}
    BY <1>5, <1>6, <1>7, <1>9, <2>1, AppendItems
  <2>3. /\ exp' \in Expirations /\ exp'.pc = "system" /\ exp'.expired = p /\ exp'.absolutes = q
        /\ exp'.dpcs = exp.dpcs
    BY <1>7, <1>14, <2>1, <2>2 DEF Expirations
  <2>4. Still /\ SameSearch
    BY <1>3, <2>3 DEF Still, SameSearch, Searches
  <2>5. TypeOK'
    BY <1>3, <1>8, <1>14, <2>3 DEF Inv, TypeOK
  <2>6. ClockOK' /\ HandsOK' /\ TableOK'
    BY <1>10, <2>4, StillKeeps, TableShrunk DEF Inv
  <2>7. LockOK' /\ LocalOK'
    BY <1>3, <1>4, <1>14, <2>3 DEF LockOK, LocalOK
  <2>8. ListsOK'
    <3>1. \A y \in Items(p) : ~Tabled(y) /\ y \notin Items(q) /\ due'[y] <= time
      BY <1>6, <1>8, <1>9, <1>11, <1>14, <2>2
    <3>2. \A y \in Items(q) : ~Tabled(y)
      BY <1>6, <1>12
    <3>3. time' = time /\ ins'.stage # "recheck"
      BY <1>3, <1>4, <1>14
    <3> QED BY <1>6, <1>10, <2>2, <2>3, <3>1, <3>2, <3>3 DEF ListsOK
  <2>9. InsertedOK' /\ LinkingOK'
    <3>1. \A y : Linked(y)' <=> Linked(y)
      BY <1>6, <1>10, <2>2, <2>3 DEF Linked
    <3>2. \A y : Linking(y)' <=> Linking(y)
      BY <1>14 DEF Linking
    <3> QED BY <1>3, <3>1, <3>2, Moves
  <2>10. Keeps
    BY <1>4, <1>10, <2>4, MissedShrunk
  <2>11. NoneLost'
    BY <1>3, <1>13, <2>3 DEF NoneLost
  <2> QED BY <2>5, <2>6, <2>7, <2>8, <2>9, <2>10, <2>11 DEF Inv
<1>15. CASE /\ ins' = [timer |-> x, stage |-> "link", then |-> "system"]
            /\ exp' = [e EXCEPT !.pc = "insert"]
  <2>1. /\ exp' \in Expirations /\ exp'.pc = "insert" /\ exp'.expired = exp.expired
        /\ exp'.absolutes = q /\ exp'.dpcs = exp.dpcs
    BY <1>7, <1>15 DEF Expirations
  <2>2. /\ ins'.timer = x /\ ins'.stage = "link" /\ ins'.then = "system"
        /\ ins' \in [timer: Timers \cup {None}, stage: {"none", "link", "recheck"},
                     then: {"none", "set", "period", "expire", "system"}]
    BY <1>6, <1>15
  <2>3. Still /\ SameSearch
    BY <1>3, <2>1 DEF Still, SameSearch, Searches
  <2>4. TypeOK'
    BY <1>3, <1>8, <2>1, <2>2 DEF Inv, TypeOK
  <2>5. ClockOK' /\ HandsOK' /\ TableOK'
    BY <1>10, <2>3, StillKeeps, TableShrunk DEF Inv
  <2>6. LockOK' /\ LocalOK'
    BY <1>3, <1>4, <1>6, <2>1, <2>2 DEF LockOK, LocalOK
  <2>7. ListsOK'
    <3>1. \A y \in Items(q) : y \in Items(exp.absolutes)
      BY <1>6
    <3> QED BY <1>3, <1>5, <1>6, <1>10, <1>11, <1>12, <2>1, <2>2, <3>1 DEF ListsOK
  <2>8. InsertedOK' /\ LinkingOK'
    <3>1. \A y : Linked(y)' <=> Linked(y) /\ y # x
      BY <1>6, <1>9, <1>10, <2>1 DEF Linked
    <3>2. \A y \in Timers \ {x} : ~Linking(y) /\ ~Linking(y)' /\ inserted'[y] = inserted[y]
      BY <1>3, <1>4, <2>2 DEF Linking
    <3>3. inserted[x]
      BY <1>6, <1>9 DEF Inv, InsertedOK
    <3>4. inserted'[x] <=> Linking(x)'
      BY <1>3, <2>2, <3>3 DEF Linking
    <3> QED BY <1>6, <3>1, <3>2, <3>4, Leaves
  <2>9. Keeps
    BY <1>4, <1>10, <2>3, MissedShrunk
  <2>10. NoneLost'
    BY <1>3, <1>13, <2>1 DEF NoneLost
  <2> QED BY <2>4, <2>5, <2>6, <2>7, <2>8, <2>9, <2>10 DEF Inv
<1> QED BY <1>3, <1>14, <1>15

(* All absolute timers have been looked at.                                   *)
LEMMA SystemDoneInv ==
  ASSUME Inv, SystemDone
  PROVE  Inv' /\ Keeps
<1>1. /\ exp.pc = "system" /\ exp.absolutes = <<>> /\ exp' = [exp EXCEPT !.pc = "list", !.delta = 0]
      /\ UNCHANGED <<time, tick, offset, clock, look, table, due, inserted, absolute, period, expireDpc, lock,
                     ins, queued, owed>>
  BY DEF SystemDone, Processor0, clockVars, fields
<1>2. /\ lock = "expirer" /\ ins = NoInsertion /\ ins.then = "none" /\ exp \in Expirations
      /\ expireDpc \in Nat \cup {None}
  BY <1>1, NotInserting DEF Inv, TypeOK
<1>3. /\ exp' \in Expirations /\ exp'.pc = "list" /\ exp'.expired = exp.expired
      /\ exp'.absolutes = exp.absolutes /\ exp'.dpcs = exp.dpcs
  <2>1. 0 \in Int
    OBVIOUS
  <2> QED BY <1>1, <1>2, <2>1 DEF Expirations
<1>4. LockOK' /\ LocalOK'
  BY <1>1, <1>2, <1>3 DEF LockOK, LocalOK
<1>5. OnlySearch
  BY <1>1, <1>2, <1>3 DEF OnlySearch
<1> QED BY <1>1, <1>3, <1>4, <1>5, OnlySearchStep DEF Searches

-----------------------------------------------------------------------------
(* The theorems.                                                              *)

(* The initial state.                                                         *)
LEMMA InitInv ==
  ASSUME Init
  PROVE  Inv
<1>1. /\ time = 0 /\ tick = 0 /\ offset = MaxIncrement /\ clock = <<>> /\ expireDpc = None /\ look = NoLook
      /\ lock = "free" /\ ins = NoInsertion /\ exp = NoExpiration /\ queued = {} /\ owed = {}
      /\ table = [b \in Buckets |-> <<>>] /\ inserted = [x \in Timers |-> FALSE]
  BY DEF Init
<1>2. MaxIncrement \in Nat \ {0} /\ MaxTime \in Nat
  BY TimerAssumption
<1>3. \A T : <<>> \in Seq(T)
  OBVIOUS
<1>4. Items(<<>>) = {} /\ Once(<<>>)
  BY DEF Items, Once
<1>5. \A b \in Buckets : table[b] = <<>>
  BY <1>1
<1>6. \A y : ~Tabled(y) /\ ~Linked(y) /\ ~Linking(y)
  BY <1>1, <1>4, <1>5, NoExpirationType DEF Tabled, Linked, Linking, NoInsertion
<1>7. TypeOK
  <2>1. table \in [Buckets -> Seq(Timers)]
    BY <1>1, <1>3
  <2>2. /\ due \in [Timers -> Int] /\ period \in [Timers -> Nat]
        /\ inserted \in [Timers -> BOOLEAN] /\ absolute \in [Timers -> BOOLEAN]
    BY DEF Init
  <2>3. ins \in [timer: Timers \cup {None}, stage: {"none", "link", "recheck"},
                 then: {"none", "set", "period", "expire", "system"}]
    BY <1>1 DEF NoInsertion
  <2>4. look \in [first: Timers \cup {None}, equal: BOOLEAN]
    BY <1>1 DEF NoLook
  <2>5. clock \in Seq(Nat) /\ time \in 0..MaxTime /\ offset \in 1..MaxIncrement
    BY <1>1, <1>2, <1>3
  <2> QED BY <1>1, <2>1, <2>2, <2>3, <2>4, <2>5, NoExpirationType DEF TypeOK
<1>8. ClockOK
  BY <1>1, <1>2 DEF ClockOK, NoLook
<1>9. HandsOK /\ LockOK /\ LocalOK
  BY <1>1, NoExpirationType DEF HandsOK, LockOK, LocalOK, NoInsertion
<1>10. TableOK /\ ListsOK
  <2>1. Sorted(<<>>)
    BY DEF Sorted
  <2>2. ins.stage # "recheck" /\ exp.expired = <<>> /\ exp.absolutes = <<>>
    BY <1>1, NoExpirationType DEF NoInsertion
  <2> QED BY <1>4, <1>5, <2>1, <2>2 DEF TableOK, ListsOK
<1>11. InsertedOK /\ LinkingOK
  BY <1>1, <1>6 DEF InsertedOK, LinkingOK
<1>12. NoneLost
  BY <1>1 DEF NoneLost
<1> QED BY <1>7, <1>8, <1>9, <1>10, <1>11, <1>12 DEF Inv

(* A step of the specification keeps the invariant, and no list comes to hold *)
(* a timer that is missed, except one that the clock interrupt passes.  One   *)
(* case per action.                                                           *)
LEMMA NextStep ==
  ASSUME Inv, [Next]_vars
  PROVE  /\ Inv'
         /\ Keeps \/ (Looks /\ (ReadFirst \/ CompareHigh \/ CompareLow))
<1>1. CASE UNCHANGED vars
  <2>1. /\ UNCHANGED <<time, tick, offset, clock, look, table, due, inserted, absolute, period,
                       expireDpc, lock, ins, exp, queued, owed>>
    BY <1>1 DEF vars
  <2>2. Inv'
    BY <2>1 DEF Inv, TypeOK, ClockOK, HandsOK, LockOK, TableOK, Sorted, Index, ListsOK, LocalOK,
             InsertedOK, LinkingOK, Linked, Linking, Tabled, NoneLost
  <2>3. Keeps
    BY <2>1 DEF Keeps, NoneMissed, Coming, Scanning, Cover, Lists, Rechecked
  <2> QED BY <2>2, <2>3
<1>2. CASE \E inc \in Increments : KeUpdateSystemTime(inc)
  BY <1>2, KeUpdateSystemTimeInv
<1>3. CASE ReadFirst \/ CompareHigh \/ CompareLow
  BY <1>3, LookSteps, LooksInv
<1>4. \A c \in Settings : c.k \in Int /\ c.abs \in BOOLEAN /\ c.period \in Nat
  BY TimerAssumption DEF AllSettings
<1>5. ASSUME NEW x \in Timers, NEW c \in Settings, KeSetTimerEx(x, c.k, c.abs, c.period)
      PROVE  Inv' /\ Keeps
  BY <1>4, <1>5, KeSetTimerExInv
<1>6. ASSUME NEW x \in Timers, KeCancelTimer(x) \/ KeRemoveQueueDpc(x)
      PROVE  Inv' /\ Keeps
  BY <1>6, KeCancelTimerInv, KeRemoveQueueDpcInv
<1>7. CASE Link \/ Recheck
  BY <1>7, LinkInv, RecheckInv
<1>8. CASE KiRetireDpcList \/ KiTimerExpiration \/ HandLimit \/ Scan
  BY <1>8, KiRetireDpcListInv, KiTimerExpirationInv, HandLimitInv, ScanInv
<1>9. CASE ExpireNext \/ ListDone \/ RunDpc \/ RestartScan
  BY <1>9, ExpireNextInv, ListDoneInv, RunDpcInv, RestartScanInv
<1>10. CASE \E delta \in Deltas : KeSetSystemTime(delta)
  BY <1>10, KeSetSystemTimeInv
<1>11. CASE RemoveAbsolute \/ ReinsertAbsolute \/ SystemDone
  BY <1>11, RemoveAbsoluteInv, ReinsertAbsoluteInv, SystemDoneInv
<1> QED BY <1>1, <1>2, <1>3, <1>4, <1>5, <1>6, <1>7, <1>8, <1>9, <1>10, <1>11 DEF Next

(* The clock, the hands, the lock and the lists agree in every reachable      *)
(* state, whatever the interrupt, the expiration DPC and the callers of       *)
(* KeSetTimerEx do in between.                                                *)
THEOREM Invariance == Spec => []Inv
<1>1. Init => Inv
  BY InitInv
<1>2. Inv /\ [Next]_vars => Inv'
  BY NextStep
<1> QED BY <1>1, <1>2, PTL DEF Spec

(* The types of the state.                                                    *)
THEOREM TypeCorrect == Spec => []TypeOK
<1>1. Inv => TypeOK
  BY DEF Inv
<1> QED BY <1>1, Invariance, PTL

(* What List and Places are.                                                  *)
LEMMA ListIs ==
  /\ \A b \in Buckets : b \in 0..(TableSize + 1) /\ List(b) = table[b]
  /\ TableSize \in 0..(TableSize + 1) /\ List(TableSize) = exp.expired
  /\ TableSize + 1 \in 0..(TableSize + 1) /\ List(TableSize + 1) = exp.absolutes
  /\ \A b \in 0..(TableSize + 1) : b \in Buckets \/ b = TableSize \/ b = TableSize + 1
<1>1. TableSize \in Nat \ {0}
  BY TimerAssumption
<1>2. /\ TableSize \notin Buckets /\ TableSize + 1 \notin Buckets /\ TableSize + 1 # TableSize
      /\ \A b \in Buckets : b # TableSize /\ b # TableSize + 1 /\ b \in 0..(TableSize + 1)
  BY <1>1 DEF Buckets
<1>3. /\ \A b \in Buckets : List(b) = table[b]
      /\ List(TableSize) = exp.expired /\ List(TableSize + 1) = exp.absolutes
  BY <1>2 DEF List
<1>4. \A b \in 0..(TableSize + 1) : b \in Buckets \/ b = TableSize \/ b = TableSize + 1
  BY <1>1 DEF Buckets
<1> QED BY <1>1, <1>2, <1>3, <1>4

(* The lists that a timer can be in, and those it can be in together.         *)
LEMMA InOneList ==
  ASSUME Inv, NEW x \in Timers
  PROVE  /\ Linked(x) <=> \E b \in 0..(TableSize + 1) : x \in Items(List(b))
         /\ \A b, c \in 0..(TableSize + 1) : x \in Items(List(b)) /\ x \in Items(List(c)) => b = c
         /\ \A b \in 0..(TableSize + 1) : Once(List(b))
<1>1. Linked(x) <=> \E b \in 0..(TableSize + 1) : x \in Items(List(b))
  BY ListIs DEF Linked, Tabled
<1>2. \A b \in 0..(TableSize + 1) : Once(List(b))
  BY ListIs DEF Inv, TableOK, ListsOK
<1>3. ASSUME NEW b \in 0..(TableSize + 1), NEW c \in 0..(TableSize + 1),
             x \in Items(List(b)), x \in Items(List(c))
      PROVE  b = c
  <2>1. /\ b \in Buckets => x \in Items(table[b]) /\ Index(due[x]) = b /\ Tabled(x)
        /\ c \in Buckets => x \in Items(table[c]) /\ Index(due[x]) = c /\ Tabled(x)
    BY <1>3, ListIs DEF Inv, TableOK, Tabled
  <2>2. /\ b = TableSize \/ c = TableSize => ~Tabled(x) /\ x \notin Items(exp.absolutes)
        /\ b = TableSize + 1 \/ c = TableSize + 1 => ~Tabled(x) /\ x \in Items(exp.absolutes)
    BY <1>3, ListIs DEF Inv, ListsOK
  <2> QED BY <2>1, <2>2, ListIs
<1> QED BY <1>1, <1>2, <1>3

(* The places of a timer: one if it is in a list, none otherwise.             *)
LEMMA PlacesCount ==
  ASSUME Inv, NEW x \in Timers
  PROVE  Cardinality(Places(x)) = IF Linked(x) THEN 1 ELSE 0
<1>1. /\ Linked(x) <=> \E b \in 0..(TableSize + 1) : x \in Items(List(b))
      /\ \A b, c \in 0..(TableSize + 1) : x \in Items(List(b)) /\ x \in Items(List(c)) => b = c
      /\ \A b \in 0..(TableSize + 1) : Once(List(b))
  BY InOneList
<1>2. \A u : u \in Places(x) <=>
        \E b \in 0..(TableSize + 1) : \E i \in 1..Len(List(b)) : List(b)[i] = x /\ u = <<b, i>>
  BY DEF Places
<1>3. CASE Linked(x)
  <2>1. PICK b \in 0..(TableSize + 1) : x \in Items(List(b))
    BY <1>1, <1>3
  <2>2. PICK i \in 1..Len(List(b)) : List(b)[i] = x
    BY <2>1 DEF Items
  <2>3. ASSUME NEW u \in Places(x) PROVE u = <<b, i>>
    <3>1. PICK c \in 0..(TableSize + 1) : \E j \in 1..Len(List(c)) : List(c)[j] = x /\ u = <<c, j>>
      BY <1>2
    <3>2. PICK j \in 1..Len(List(c)) : List(c)[j] = x /\ u = <<c, j>>
      BY <3>1
    <3>3. x \in Items(List(c))
      BY <3>2 DEF Items
    <3>4. c = b
      BY <1>1, <2>1, <3>3
    <3>5. j = i
      BY <1>1, <2>2, <3>2, <3>4 DEF Once
    <3> QED BY <3>2, <3>4, <3>5
  <2>4. <<b, i>> \in Places(x)
    BY <1>2, <2>2
  <2>5. Places(x) = {<<b, i>>}
    BY <2>3, <2>4
  <2>6. Cardinality({<<b, i>>}) = 1
    BY FS_Singleton
  <2> QED BY <1>3, <2>5, <2>6
<1>4. CASE ~Linked(x)
  <2>1. \A b \in 0..(TableSize + 1) : \A i \in 1..Len(List(b)) : List(b)[i] # x
    BY <1>1, <1>4 DEF Items
  <2>2. Places(x) = {}
    BY <1>2, <2>1
  <2>3. Cardinality({}) = 0
    BY FS_EmptySet
  <2> QED BY <1>4, <2>2, <2>3
<1> QED BY <1>3, <1>4

(* A timer is Inserted exactly if it is in one list, or about to be linked;   *)
(* the table is in order, and what is on the local list is due: whatever is   *)
(* set and cancelled while KiTimerListExpire runs DPCs without the lock.      *)
THEOREM TimersCorrect == Spec => []TimersExact
<1>1. ASSUME Inv PROVE TimersExact
  <2>1. ASSUME NEW x \in Timers
        PROVE  Cardinality(Places(x)) =
                 IF inserted[x] /\ ~(ins.timer = x /\ ins.stage = "link") THEN 1 ELSE 0
    <3>1. Linked(x) <=> inserted[x] /\ ~(ins.timer = x /\ ins.stage = "link")
      BY <1>1 DEF Inv, InsertedOK, LinkingOK, Linking
    <3> QED BY <1>1, <3>1, PlacesCount
  <2>2. ASSUME NEW b \in Buckets, NEW i \in 1..Len(table[b])
        PROVE  /\ Index(due[table[b][i]]) = b
               /\ i > 1 => due[table[b][i - 1]] <= due[table[b][i]]
    <3>1. Len(table[b]) \in Nat /\ table[b][i] \in Items(table[b])
      BY <1>1, LenProperties DEF Inv, TypeOK, Items
    <3>2. i > 1 => i - 1 \in 1..Len(table[b]) /\ i - 1 < i
      BY <3>1
    <3> QED BY <1>1, <3>1, <3>2 DEF Inv, TableOK, Sorted
  <2>3. \A x \in Members(exp.expired) : due[x] <= time
    BY <1>1 DEF Inv, ListsOK, Members, Items
  <2> QED BY <2>1, <2>2, <2>3 DEF TimersExact
<1>2. Inv => TimersExact
  BY <1>1
<1> QED BY <1>2, Invariance, PTL

-----------------------------------------------------------------------------
(* What the clock interrupt sees.                                             *)

(* The timer whose high half was equal to that of the time still has this due *)
(* time, or it has been set again and is due later.  On a uniprocessor it is  *)
(* still the first of its list.                                               *)
LookOK ==
  /\ look.equal => High(due[look.first]) = High(time) \/ due[look.first] > time
  /\ ~Multiprocessor /\ look.first # None =>
       /\ table[Head(clock) % TableSize] # <<>>
       /\ look.first = Head(table[Head(clock) % TableSize])

(* The halves of a time decide.                                               *)
LEMMA Halves ==
  ASSUME NEW s \in Nat, NEW d \in Int
  PROVE  /\ High(s) \in Int /\ High(d) \in Int
         /\ High(s) < High(d) => s < d
         /\ High(s) = High(d) /\ Low(s) < Low(d) => s < d
<1>1. LowSize \in Nat \ {0}
  BY TimerAssumption
<1>2. /\ High(s) \in Int /\ High(d) \in Int /\ Low(s) \in 0..(LowSize - 1) /\ Low(d) \in 0..(LowSize - 1)
      /\ s = LowSize * High(s) + Low(s) /\ d = LowSize * High(d) + Low(d)
  BY <1>1 DEF High, Low
<1>3. \A m \in Nat \ {0} : \A i, j \in Int : i < j => m * i + m <= m * j
  OBVIOUS
<1>4. ASSUME High(s) < High(d) PROVE s < d
  <2>1. LowSize * High(s) + LowSize <= LowSize * High(d)
    BY <1>1, <1>2, <1>3, <1>4
  <2>2. PICK u, v \in Int : u = LowSize * High(s) /\ v = LowSize * High(d)
    BY <1>1, <1>2
  <2> QED BY <1>1, <1>2, <2>1, <2>2
<1>5. ASSUME High(s) = High(d), Low(s) < Low(d) PROVE s < d
  <2>1. PICK u \in Int : u = LowSize * High(s)
    BY <1>1, <1>2
  <2> QED BY <1>2, <1>5, <2>1
<1> QED BY <1>2, <1>4, <1>5

(* A due time that another processor writes while the interrupt looks at the  *)
(* timer is later than the time, which stands still.                          *)
Rewritten == look.first # None => due'[look.first] = due[look.first] \/ due'[look.first] > time

(* A step that does not belong to the clock.                                  *)
LEMMA LookKept ==
  ASSUME Inv, LookOK, Still, Rewritten, UNCHANGED table \/ Multiprocessor \/ clock = <<>>
  PROVE  LookOK'
<1>1. UNCHANGED <<time, clock, look>>
  BY DEF Still
<1>2. clock = <<>> => look.first = None
  BY DEF Inv, ClockOK
<1>3. ASSUME look.equal
      PROVE  High(due[look.first])' = High(time)' \/ due'[look.first] > time
  <2>1. look.first # None /\ (High(due[look.first]) = High(time) \/ due[look.first] > time)
    BY <1>3 DEF Inv, ClockOK, LookOK
  <2> QED BY <1>1, <2>1 DEF Rewritten, High
<1>4. ASSUME ~Multiprocessor, look.first # None
      PROVE  /\ table'[Head(clock) % TableSize] # <<>>
             /\ look.first = Head(table'[Head(clock) % TableSize])
  BY <1>2, <1>4 DEF LookOK
<1> QED BY <1>1, <1>3, <1>4 DEF LookOK

(* The due time that KiInsertTreeTimer writes is later than the time.         *)
LEMMA SetLater ==
  ASSUME TypeOK, NEW x \in Timers, NEW k \in Int, k > 0, NEW abs, NEW p, NEW then,
         KiInsertTreeTimer(x, k, abs, p, then)
  PROVE  Rewritten
<1>1. time \in Int /\ due \in [Timers -> Int] /\ due' = [due EXCEPT ![x] = time + k]
  BY TimerAssumption DEF TypeOK, KiInsertTreeTimer
<1>2. time + k > time
  BY <1>1
<1>3. look.first \in Timers \cup {None}
  BY DEF TypeOK
<1> QED BY <1>1, <1>2, <1>3 DEF Rewritten

(* NotSet does not touch the due time that the interrupt is to compare.       *)
LEMMA NotSetKeeps ==
  ASSUME TypeOK, NEW x \in Timers, NotSet(x)
  PROVE  Rewritten
<1>1. due \in [Timers -> Int] /\ due' = [due EXCEPT ![x] = IF look.first = x THEN due[x] ELSE 0]
  BY DEF TypeOK, NotSet
<1>2. look.first \in Timers \cup {None}
  BY DEF TypeOK
<1> QED BY <1>1, <1>2 DEF Rewritten

(* Nor does SetExpired, unless the timer is set again for its period.         *)
LEMMA SetExpiredLater ==
  ASSUME TypeOK, NEW x \in Timers, NEW p \in Nat, SetExpired(x, p)
  PROVE  Rewritten
<1>1. p # 0 => p \in Int /\ p > 0
  OBVIOUS
<1> QED BY <1>1, SetLater, NotSetKeeps DEF SetExpired

(* A timer that is inserted again for its period has one.                     *)
PeriodOK == ins.then \in {"period", "expire"} => period[ins.timer] # 0

(* Every step keeps this: SetExpired and ExpireNext look at the period first. *)
LEMMA PeriodStep ==
  ASSUME Inv, PeriodOK, [Next]_vars
  PROVE  PeriodOK'
<1>1. TypeOK /\ period \in [Timers -> Nat] /\ NoInsertion.then = "none"
  BY DEF Inv, TypeOK, NoInsertion
<1>2. ASSUME UNCHANGED <<ins, period>> \/ ins' = NoInsertion
      PROVE  PeriodOK'
  BY <1>1, <1>2 DEF PeriodOK
<1>3. ASSUME NEW x \in Timers, NEW k, NEW abs, NEW p, NEW then,
             p # 0 \/ then \in {"set", "system"}, KiInsertTreeTimer(x, k, abs, p, then)
      PROVE  PeriodOK'
  <2>1. ins'.timer = x /\ ins'.then = then /\ period'[x] = p
    BY <1>1, <1>3 DEF KiInsertTreeTimer
  <2> QED BY <1>3, <2>1 DEF PeriodOK
<1>4. ASSUME NEW x \in Timers, NEW p, SetExpired(x, p)
      PROVE  PeriodOK'
  BY <1>2, <1>3, <1>4 DEF SetExpired
<1>5. CASE UNCHANGED vars
  BY <1>2, <1>5 DEF vars
<1>6. CASE \/ \E inc \in Increments : KeUpdateSystemTime(inc)
           \/ ReadFirst \/ CompareHigh \/ CompareLow
  <2>1. UNCHANGED <<ins, period>>
    BY <1>6 DEF KeUpdateSystemTime, ReadFirst, CompareHigh, CompareLow, others, fields
  <2> QED BY <1>2, <2>1
<1>7. ASSUME NEW x \in Timers, NEW p, NEW k, NEW abs, KeSetTimerEx(x, k, abs, p)
      PROVE  PeriodOK'
  BY <1>3, <1>4, <1>7 DEF KeSetTimerEx
<1>8. ASSUME NEW x \in Timers, KeCancelTimer(x)
      PROVE  PeriodOK'
  <2>1. lock = "free" /\ ins' = ins
    BY <1>8 DEF KeCancelTimer
  <2>2. ins' = NoInsertion
    BY <2>1, FreeLock
  <2> QED BY <1>2, <2>2
<1>9. ASSUME NEW x \in Timers, KeRemoveQueueDpc(x)
      PROVE  PeriodOK'
  BY <1>2, <1>9 DEF KeRemoveQueueDpc, fields
<1>10. CASE Link
  <2>1. UNCHANGED period /\ (ins' = NoInsertion \/ ins' = [ins EXCEPT !.stage = "recheck"])
    BY <1>10 DEF Link, fields, Inserted
  <2>2. ins \in [timer: Timers \cup {None}, stage: {"none", "link", "recheck"},
                then: {"none", "set", "period", "expire", "system"}]
    BY <1>1 DEF TypeOK
  <2>3. ins' = NoInsertion \/ (ins'.then = ins.then /\ ins'.timer = ins.timer)
    BY <2>1, <2>2
  <2> QED BY <1>2, <2>1, <2>3 DEF PeriodOK
<1>11. CASE Recheck
  <2>1. ins.timer \in Timers
    BY <1>11, Inserting DEF Recheck
  <2>2. \/ ins' = NoInsertion \/ SetExpired(ins.timer, period[ins.timer])
        \/ /\ ins.then \in {"period", "expire"}
           /\ KiInsertTreeTimer(ins.timer, period[ins.timer], FALSE, period[ins.timer], ins.then)
    BY <1>11 DEF Recheck, Inserted
  <2>3. ins.then \in {"period", "expire"} => period[ins.timer] # 0
    BY DEF PeriodOK
  <2> QED BY <1>2, <1>3, <1>4, <2>1, <2>2, <2>3
<1>12. CASE KiRetireDpcList \/ KiTimerExpiration \/ HandLimit \/ Scan
  BY <1>2, <1>12 DEF KiRetireDpcList, KiTimerExpiration, HandLimit, Scan, fields
<1>13. CASE ListDone \/ RunDpc \/ RestartScan
  BY <1>2, <1>13 DEF ListDone, RunDpc, RestartScan, fields
<1>14. CASE ExpireNext
  <2>1. PICK x : x = Head(exp.expired)
    OBVIOUS
  <2>2. /\ exp.pc = "list" /\ exp.expired # <<>>
        /\ \/ UNCHANGED ins
           \/ period[x] # 0 /\ KiInsertTreeTimer(x, period[x], FALSE, period[x], "expire")
    BY <1>14, <2>1 DEF ExpireNext, Processor0
  <2>3. x \in Timers
    <3>1. exp.expired \in Seq(Timers)
      BY <1>1 DEF TypeOK, Expirations
    <3> QED BY <2>1, <2>2, <3>1
  <2>4. ins = NoInsertion
    BY <2>2, NotInserting
  <2> QED BY <1>2, <1>3, <2>2, <2>3, <2>4
<1>15. CASE \E delta \in Deltas : KeSetSystemTime(delta)
  BY <1>2, <1>15 DEF KeSetSystemTime, fields
<1>16. CASE RemoveAbsolute \/ SystemDone
  BY <1>2, <1>16 DEF RemoveAbsolute, SystemDone, fields
<1>17. CASE ReinsertAbsolute
  <2>1. UNCHANGED <<ins, period>> \/ ins'.then = "system"
    BY <1>17 DEF ReinsertAbsolute
  <2> QED BY <1>2, <2>1 DEF PeriodOK
<1> QED BY <1>5, <1>6, <1>7, <1>8, <1>9, <1>10, <1>11, <1>12, <1>13, <1>14, <1>15, <1>16, <1>17 DEF Next

(* Every step keeps what is known of the look.                                *)
LEMMA LookStep ==
  ASSUME Inv, PeriodOK, LookOK, [Next]_vars
  PROVE  LookOK'
<1>1. /\ TypeOK /\ look.first \in Timers \cup {None} /\ time \in Nat /\ None \notin Timers
      /\ due \in [Timers -> Int] /\ period \in [Timers -> Nat]
      /\ clock = <<>> => look.first = None
      /\ look.equal => look.first # None
      /\ look \in [first: Timers \cup {None}, equal: BOOLEAN]
  BY TimerAssumption DEF Inv, TypeOK, ClockOK
<1>2. CASE UNCHANGED vars
  BY <1>2 DEF vars, LookOK, High
<1>3. ASSUME NEW inc \in Increments, KeUpdateSystemTime(inc)
      PROVE  LookOK'
  <2>1. look.first = None /\ UNCHANGED look
    BY <1>1, <1>3 DEF KeUpdateSystemTime
  <2> QED BY <1>1, <2>1 DEF LookOK
<1>4. ASSUME look' = NoLook
      PROVE  LookOK'
  BY <1>4 DEF LookOK, NoLook
<1>5. CASE ReadFirst
  <2>1. PICK list : list = table[Head(clock) % TableSize]
    OBVIOUS
  <2>2. CASE list # <<>> /\ look' = [look EXCEPT !.first = Head(list)] /\ UNCHANGED <<clock, expireDpc>>
    <3>1. look'.first = Head(list) /\ look'.equal = look.equal /\ ~look.equal
      BY <1>1, <1>5, <2>2 DEF ReadFirst
    <3>2. UNCHANGED <<clock, table>>
      BY <1>5, <2>2 DEF ReadFirst, others
    <3> QED BY <2>1, <2>2, <3>1, <3>2 DEF LookOK
  <2> QED BY <1>4, <1>5, <2>1, <2>2 DEF ReadFirst, NotExpired
<1>6. CASE CompareHigh
  <2>1. CASE /\ High(time) = High(due[look.first])
             /\ look' = [look EXCEPT !.equal = TRUE] /\ UNCHANGED <<clock, expireDpc>>
    <3>1. look'.first = look.first /\ UNCHANGED <<time, clock, table, due>>
      BY <1>1, <1>6, <2>1 DEF CompareHigh, others
    <3> QED BY <2>1, <3>1 DEF LookOK, High
  <2> QED BY <1>4, <1>6, <2>1 DEF CompareHigh, NotExpired, HasExpired
<1>7. CASE CompareLow
  BY <1>4, <1>7 DEF CompareLow, NotExpired, HasExpired
<1>8. ASSUME NEW x \in Timers, NEW p \in Nat, NEW k \in Int, NEW abs, KeSetTimerEx(x, k, abs, p)
      PROVE  LookOK'
  <2>1. Still /\ (Multiprocessor \/ clock = <<>>)
    BY <1>8 DEF KeSetTimerEx, Still, clockVars, Interruptible
  <2>2. CASE k > 0 /\ KiInsertTreeTimer(x, k, abs, p, "set")
    BY <1>1, <2>1, <2>2, SetLater, LookKept
  <2>3. CASE SetExpired(x, p)
    BY <1>1, <2>1, <2>3, SetExpiredLater, LookKept
  <2> QED BY <1>8, <2>2, <2>3 DEF KeSetTimerEx
<1>9. ASSUME NEW x \in Timers, KeCancelTimer(x)
      PROVE  LookOK'
  <2>1. Still /\ (Multiprocessor \/ clock = <<>>) /\ NotSet(x)
    BY <1>9 DEF KeCancelTimer, Still, clockVars, Interruptible
  <2> QED BY <1>1, <2>1, NotSetKeeps, LookKept
<1>10. CASE Link
  <2>1. Still /\ (Multiprocessor \/ clock = <<>>) /\ UNCHANGED due
    BY <1>10 DEF Link, Still, clockVars, fields, Undisturbed, Interruptible
  <2>2. Rewritten
    BY <2>1 DEF Rewritten
  <2> QED BY <2>1, <2>2, LookKept
<1>11. CASE Recheck
  <2>1. PICK x : x = ins.timer
    OBVIOUS
  <2>2. /\ Still /\ (Multiprocessor \/ clock = <<>>) /\ ins.stage = "recheck"
        /\ \/ UNCHANGED due
           \/ SetExpired(x, period[x])
           \/ /\ ins.then \in {"period", "expire"}
              /\ KiInsertTreeTimer(x, period[x], FALSE, period[x], ins.then)
    BY <1>11, <2>1 DEF Recheck, Still, clockVars, fields, Undisturbed, Interruptible
  <2>3. x \in Timers /\ period[x] \in Nat /\ period[x] \in Int
    BY <1>1, <2>1, <2>2, Inserting
  <2>4. ins.then \in {"period", "expire"} => period[x] # 0
    BY <2>1 DEF PeriodOK
  <2>5. CASE UNCHANGED due
    <3>1. Rewritten
      BY <2>5 DEF Rewritten
    <3> QED BY <2>2, <3>1, LookKept
  <2>6. CASE SetExpired(x, period[x])
    BY <1>1, <2>2, <2>3, <2>6, SetExpiredLater, LookKept
  <2>7. CASE /\ ins.then \in {"period", "expire"}
             /\ KiInsertTreeTimer(x, period[x], FALSE, period[x], ins.then)
    <3>1. period[x] > 0
      BY <2>3, <2>4, <2>7
    <3> QED BY <1>1, <2>2, <2>3, <2>7, <3>1, SetLater, LookKept
  <2> QED BY <2>2, <2>5, <2>6, <2>7
<1>12. ASSUME clock = <<>>, UNCHANGED clockVars
       PROVE  LookOK'
  BY <1>1, <1>12 DEF LookOK, clockVars
<1>13. ASSUME NEW x \in Timers, KeRemoveQueueDpc(x)
       PROVE  LookOK'
  <2>1. UNCHANGED <<time, clock, look, table, due>>
    BY <1>13 DEF KeRemoveQueueDpc, clockVars, fields
  <2> QED BY <2>1 DEF LookOK, High
<1>14. CASE KiRetireDpcList \/ KiTimerExpiration \/ HandLimit \/ Scan
  BY <1>12, <1>14 DEF KiRetireDpcList, KiTimerExpiration, HandLimit, Scan, Processor0
<1>15. CASE ExpireNext \/ ListDone \/ RunDpc \/ RestartScan
  BY <1>12, <1>15 DEF ExpireNext, ListDone, RunDpc, RestartScan, Processor0
<1>16. CASE \E delta \in Deltas : KeSetSystemTime(delta)
  BY <1>12, <1>16 DEF KeSetSystemTime, Processor0
<1>17. CASE RemoveAbsolute \/ ReinsertAbsolute \/ SystemDone
  BY <1>12, <1>17 DEF RemoveAbsolute, ReinsertAbsolute, SystemDone, Processor0
<1>18. \A c \in Settings : c.k \in Int /\ c.period \in Nat
  BY TimerAssumption DEF AllSettings
<1>19. ASSUME NEW x \in Timers, NEW c \in Settings, KeSetTimerEx(x, c.k, c.abs, c.period)
       PROVE  LookOK'
  BY <1>8, <1>18, <1>19
<1> QED BY <1>2, <1>3, <1>5, <1>6, <1>7, <1>9, <1>10, <1>11, <1>13, <1>14, <1>15, <1>16, <1>17, <1>19
        DEF Next

(* It is so in every reachable state.                                         *)
LEMMA LookCorrect == Spec => [](Inv /\ PeriodOK /\ LookOK)
<1>1. Init => LookOK /\ PeriodOK
  BY DEF Init, LookOK, PeriodOK, NoLook, NoInsertion
<1>2. Inv /\ PeriodOK /\ LookOK /\ [Next]_vars => LookOK' /\ PeriodOK'
  BY LookStep, PeriodStep
<1> QED BY <1>1, <1>2, Invariance, PTL DEF Spec

(* What Missed says.                                                          *)
LEMMA MissedIs ==
  ASSUME NEW b \in Buckets
  PROVE  /\ Missed(b) <=> ~NoneMissed(b)
         /\ Missed(b)' <=> ~NoneMissed(b)'
<1>1. ASSUME NEW x
      PROVE  UnderWay(b, x) <=> Coming(b) \/ (Scanning(b) /\ due[x] <= exp.now) \/ Rechecked(x)
  BY DEF UnderWay, Coming, Scanning, Rechecked, Members, Items
<1>2. ASSUME NEW x
      PROVE  UnderWay(b, x)' <=> Coming(b)' \/ (Scanning(b)' /\ due'[x] <= exp'.now) \/ Rechecked(x)'
  BY DEF UnderWay, Coming, Scanning, Rechecked, Members, Items
<1>3. Missed(b) <=> ~NoneMissed(b)
  BY <1>1 DEF Missed, NoneMissed, Members, Items
<1>4. Missed(b)' <=> ~NoneMissed(b)'
  BY <1>2 DEF Missed, NoneMissed, Members, Items
<1> QED BY <1>3, <1>4

(* A list comes to hold a timer that is missed only on a stale look.          *)
LEMMA MissedStep ==
  ASSUME Inv, LookOK, [Next]_vars, NEW b \in Buckets, NoneMissed(b), ~NoneMissed(b)'
  PROVE  StaleLook(b) /\ clock' = Tail(clock)
<1>1. Looks /\ (ReadFirst \/ CompareHigh \/ CompareLow)
  BY NextStep DEF Keeps
<1>2. clock' = Tail(clock) /\ Head(clock) % TableSize = b /\ clock # <<>> /\ ~Found
  BY <1>1, LooksInv DEF Looks
<1>3. UNCHANGED <<time, tick, table, due, exp, ins>>
  BY <1>1 DEF Looks, OnlyClock
<1>4. /\ clock \in Seq(Nat) /\ time \in Nat /\ due \in [Timers -> Int]
      /\ look.first \in Timers \cup {None} /\ (look.equal => look.first # None)
  BY TimerAssumption DEF Inv, TypeOK, ClockOK
<1>5. PICK x \in Items(table[b]) : due[x] <= time
  BY <1>3 DEF NoneMissed
<1>6. /\ table[b] # <<>> /\ Head(table[b]) \in Timers /\ due[Head(table[b])] <= due[x]
      /\ x \in Timers
  BY HeadFirst, TabledTimers DEF Inv
<1>7. due[Head(table[b])] <= time
  <2>1. due[Head(table[b])] \in Int /\ due[x] \in Int
    BY <1>4, <1>6
  <2> QED BY <1>4, <1>5, <1>6, <2>1
<1>8. NotExpired /\ look.first # None
  <2>1. clock' # clock
    <3>1. Len(clock) \in Nat /\ Len(Tail(clock)) = Len(clock) - 1
      BY <1>2, <1>4, HeadTailProperties, LenProperties
    <3>2. \A n \in Nat : n - 1 # n
      OBVIOUS
    <3>3. Len(Tail(clock)) # Len(clock)
      BY <3>1, <3>2
    <3> QED BY <1>2, <3>3
  <2>2. ~HasExpired
    BY <1>2 DEF HasExpired, Found
  <2>3. look.first = None => ReadFirst
    BY <1>1, <1>4 DEF CompareHigh, CompareLow
  <2>4. ReadFirst => FALSE
    BY <1>2, <1>6, <2>1 DEF ReadFirst
  <2> QED BY <1>1, <2>1, <2>2, <2>3, <2>4 DEF CompareHigh, CompareLow
<1>9. due[look.first] > time
  <2>1. due[look.first] \in Int
    BY <1>4, <1>8
  <2>2. CASE High(time) < High(due[look.first])
    BY <1>4, <2>1, <2>2, Halves
  <2>3. CASE look.equal /\ Low(time) < Low(due[look.first])
    BY <1>4, <2>1, <2>3, Halves DEF LookOK
  <2>4. ~ReadFirst /\ ~HasExpired /\ ~(look' = [look EXCEPT !.equal = TRUE])
    <3>1. look'.first = None
      BY <1>8 DEF NotExpired, NoLook
    <3>2. [look EXCEPT !.equal = TRUE].first = look.first
      BY <1>4
    <3> QED BY <1>2, <1>8, <3>1, <3>2 DEF ReadFirst, HasExpired, Found
  <2> QED BY <1>1, <2>2, <2>3, <2>4 DEF CompareHigh, CompareLow
<1>10. look.first # Head(table[b])
  <2>1. due[look.first] \in Int
    BY <1>4, <1>8
  <2> QED BY <1>4, <1>7, <1>9, <2>1
<1> QED BY <1>2, <1>6, <1>8, <1>9, <1>10 DEF StaleLook

(* The race is the only one: a list comes to hold a due timer that no         *)
(* expiration will find only when the clock interrupt passes it having looked *)
(* at a timer that in the meantime is not its first and is due later, as one  *)
(* that was set again; for any number of timers and however late the          *)
(* expiration DPC runs.                                                       *)
THEOREM RaceCorrect == Spec => MissedOnlyByReset
<1>1. ASSUME Inv, LookOK, [Next]_vars
      PROVE  \A b \in Buckets : ~Missed(b) /\ Missed(b)' => StaleLook(b) /\ clock' = Tail(clock)
  BY <1>1, MissedIs, MissedStep
<1>2. Inv /\ LookOK /\ [Next]_vars =>
        [\A b \in Buckets : ~Missed(b) /\ Missed(b)' => StaleLook(b) /\ clock' = Tail(clock)]_vars
  BY <1>1
<1> QED BY <1>2, LookCorrect, PTL DEF Spec, MissedOnlyByReset

(* On a uniprocessor no look is stale, and no expiry is missed: a timer in    *)
(* the table that is due has an expiration under way that will find it,       *)
(* although the clock interrupt comes between any two steps of an insertion   *)
(* and the expiration DPC may be late by any number of ticks.                 *)
THEOREM ExpiryCorrect == ~Multiprocessor => (Spec => []NoMissedExpiry)
<1> SUFFICES ASSUME ~Multiprocessor
             PROVE  Spec => []NoMissedExpiry
  OBVIOUS
<1>1. Init => NoMissedExpiry
  <2> SUFFICES ASSUME Init, NEW b \in Buckets
               PROVE  ~Missed(b)
    BY DEF NoMissedExpiry
  <2>1. table[b] = <<>>
    BY DEF Init
  <2>2. Members(<<>>) = {}
    BY DEF Members
  <2> QED BY <2>1, <2>2 DEF Missed
<1>2. Inv /\ LookOK /\ NoMissedExpiry /\ [Next]_vars => NoMissedExpiry'
  <2> SUFFICES ASSUME Inv, LookOK, NoMissedExpiry, [Next]_vars, NEW b \in Buckets
               PROVE  ~Missed(b)'
    BY DEF NoMissedExpiry
  <2>1. NoneMissed(b)
    BY MissedIs DEF NoMissedExpiry
  <2>2. ~StaleLook(b)
    BY DEF StaleLook, LookOK
  <2>3. NoneMissed(b)'
    BY <2>1, <2>2, MissedStep
  <2> QED BY <2>3, MissedIs
<1> QED BY <1>1, <1>2, LookCorrect, PTL DEF Spec

(* The DPC of a timer that has expired is captured or queued until it runs,   *)
(* for any size of the batch and whatever is done to the timer meanwhile.     *)
THEOREM DpcCorrect == Spec => []DpcNotLost
<1>1. Inv => DpcNotLost
  BY DEF Inv, NoneLost, DpcNotLost, Members, Items
<1> QED BY <1>1, Invariance, PTL
=============================================================================
