------------------------------ MODULE KeTimer ------------------------------
(* Timer objects and the timer table: ntos/ke/timerobj.c and timersup.c, the  *)
(* clock interrupt (i386/clockint.asm), timer expiration (dpcsup.c), setting  *)
(* the system time (miscc.c) and the queueing of timer DPCs (dpcobj.c).       *)
(*                                                                            *)
(* The table is a wheel of lists ordered by due time.  The clock interrupt    *)
(* looks at the first timer of the list or lists its hand passes, and queues  *)
(* the expiration DPC with the hand.  It takes no lock: it reads the first    *)
(* entry of the list, the high half of that timer's due time and the low      *)
(* half, one action each.  Processor 0 takes the interrupt, runs that DPC and *)
(* sets the system time; other processors set and cancel timers under the     *)
(* dispatcher lock.  An insertion reads the time, links the timer and reads   *)
(* the time again, one action each, and a scan of the table is one action per *)
(* timer or list, so that the clock may come between any two.                 *)
(*                                                                            *)
(* Memory is sequentially consistent.  KiComputeTimerTableIndex stores the    *)
(* low half of the due time before the high one, and the interrupt reads them *)
(* in the other order, so that whoever sees the new high half sees the new    *)
(* low half too: the outcomes are those of storing both at once.  The memory  *)
(* of a cancelled timer is not freed while the interrupt looks at it.         *)
(* SignalState and the waiters of a timer (KiWaitTest, KeClearTimer) are left *)
(* out: nothing here reads them, and waits are the subject of KeWait.         *)
EXTENDS Integers, Sequences, FiniteSets, SequencesExt

CONSTANTS
  Timers,
  WithDpc,      \* the timers that are set with a DPC
  Targeted,     \* those whose DPC is targeted to another processor
  TableSize,    \* TIMER_TABLE_SIZE
  MaxIncrement, \* KeMaximumIncrement: units of time in a tick
  Increments,   \* units of time the clock interrupt may add
  Settings,     \* the arguments of KeSetTimerEx: see AllSettings
  Deltas,       \* changes of the system time
  BatchSize,    \* MAXIMUM_DPC_LIST_SIZE
  LowSize,      \* 2^32: the values of the low half of a time
  Multiprocessor, \* FALSE for the uniprocessor build (NT_UP)
  MaxTime,      \* bound on the interrupt time
  None

(* How a timer is set: k is the time to the due time, given as a relative or  *)
(* as an absolute time, which may have passed; the period is 0 for none.      *)
AllSettings == {c \in [timer: Timers, k: Int, abs: BOOLEAN, period: Nat] : c.abs \/ c.k > 0}

ASSUME TimerAssumption ==
  /\ IsFiniteSet(Timers) /\ Targeted \subseteq WithDpc /\ WithDpc \subseteq Timers
  /\ TableSize \in Nat \ {0} /\ MaxIncrement \in Nat \ {0} /\ BatchSize \in Nat \ {0}
  /\ LowSize \in Nat \ {0} /\ Multiprocessor \in BOOLEAN
  /\ Increments \subseteq 1..MaxIncrement
  /\ Settings \subseteq AllSettings /\ Deltas \subseteq Int /\ MaxTime \in Nat
  /\ None \notin Timers \cup Int

VARIABLES
  time,       \* InterruptTime
  tick,       \* KeTickCount
  offset,     \* KiTickOffset
  clock,      \* hands the interrupt has still to look at
  look,       \* the first timer it has read, and whether the high halves were equal
  table,      \* KiTimerTableListHead
  due, inserted, absolute, period, \* fields of the timers
  expireDpc,  \* SystemArgument1 of KiTimerExpireDpc while it is queued
  lock,       \* the dispatcher lock: free, setter or expirer
  ins,        \* the insertion in progress
  exp,        \* processor 0 in KiTimerExpiration or KeSetSystemTime
  queued,     \* timers whose DPC is in a DPC queue
  owed        \* timers that expired and whose DPC has not run since

clockVars == <<time, tick, offset, clock, look>>
fields == <<due, inserted, absolute, period>>
vars == <<time, tick, offset, clock, look, table, due, inserted, absolute, period, expireDpc,
          lock, ins, exp, queued, owed>>

Buckets == 0..(TableSize - 1)
NoLook == [first |-> None, equal |-> FALSE]
NoInsertion == [timer |-> None, stage |-> "none", then |-> "none"]

(* pc: idle; dpc (dequeued, waiting for the lock); hand (about to read the    *)
(* tick count); scan (the lists from arg to limit); list (in                  *)
(* KiTimerListExpire, locked); insert (a timer is being reinserted); run (DPC *)
(* routines, unlocked); remove and system (KeSetSystemTime).                  *)
NoExpiration == [pc |-> "idle", arg |-> 0, limit |-> 0, now |-> 0, expired |-> <<>>,
                 absolutes |-> <<>>, dpcs |-> <<>>, full |-> FALSE, delta |-> 0]

Init ==
  /\ time = 0 /\ tick = 0 /\ offset = MaxIncrement /\ clock = <<>> /\ look = NoLook
  /\ table = [b \in Buckets |-> <<>>]
  /\ due = [x \in Timers |-> 0] /\ inserted = [x \in Timers |-> FALSE]
  /\ absolute = [x \in Timers |-> FALSE] /\ period = [x \in Timers |-> 0]
  /\ expireDpc = None /\ lock = "free" /\ ins = NoInsertion /\ exp = NoExpiration
  /\ queued = {} /\ owed = {}

-----------------------------------------------------------------------------
(* The clock interrupt.                                                       *)

(* A full tick looks at the list it leaves and at the one it enters.          *)
Hands(full) == IF full THEN <<tick, tick + 1>> ELSE <<tick>>

(* Mutant: KiTickOffset is not set again after a full tick.                   *)
KeUpdateSystemTimeNoReset(inc) ==
  LET full == offset - inc <= 0 IN
  /\ clock = <<>> /\ time + inc <= MaxTime
  /\ time' = time + inc
  /\ tick' = IF full THEN tick + 1 ELSE tick
  /\ offset' = offset - inc
  /\ clock' = Hands(full)
  /\ UNCHANGED <<look, table, fields, expireDpc, lock, ins, exp, queued, owed>>

(* KeUpdateSystemTime: advance the interrupt time and the tick count.         *)
KeUpdateSystemTime(inc) ==
  LET full == offset - inc <= 0 IN
  /\ clock = <<>> /\ time + inc <= MaxTime
  /\ time' = time + inc
  /\ tick' = IF full THEN tick + 1 ELSE tick
  /\ offset' = IF full THEN offset - inc + MaxIncrement ELSE offset - inc
  /\ clock' = Hands(full)
  /\ UNCHANGED <<look, table, fields, expireDpc, lock, ins, exp, queued, owed>>

(* What the clock interrupt leaves alone.                                     *)
others == <<table, due, inserted, absolute, period, lock, ins, exp, queued, owed>>

(* KeUpdateSystemTime: the timer has not expired, or there is none; the next  *)
(* list is looked at, if any.                                                 *)
NotExpired == clock' = Tail(clock) /\ look' = NoLook /\ UNCHANGED expireDpc

(* KeUpdateSystemTime: the timer has expired; the expiration DPC is queued,   *)
(* unless it is queued already.                                               *)
HasExpired ==
  /\ clock' = <<>> /\ look' = NoLook
  /\ expireDpc' = IF expireDpc = None THEN Head(clock) ELSE expireDpc

(* KeUpdateSystemTime: read the first entry of the next list.                 *)
ReadFirst ==
  LET list == table[Head(clock) % TableSize] IN
  /\ clock # <<>> /\ look.first = None
  /\ \/ list = <<>> /\ NotExpired
     \/ list # <<>> /\ look' = [look EXCEPT !.first = Head(list)] /\ UNCHANGED <<clock, expireDpc>>
  /\ UNCHANGED <<time, tick, offset, others>>

High(t) == t \div LowSize
Low(t) == t % LowSize

(* KeUpdateSystemTime: compare the high half of the time with that of the due *)
(* time which this timer, first in its list or not any longer, has now.       *)
CompareHigh ==
  /\ look.first # None /\ ~look.equal
  /\ \/ High(time) < High(due[look.first]) /\ NotExpired
     \/ High(time) > High(due[look.first]) /\ HasExpired
     \/ /\ High(time) = High(due[look.first])
        /\ look' = [look EXCEPT !.equal = TRUE] /\ UNCHANGED <<clock, expireDpc>>
  /\ UNCHANGED <<time, tick, offset, others>>

(* KeUpdateSystemTime: compare the low halves.                                *)
CompareLow ==
  /\ look.equal
  /\ \/ Low(time) < Low(due[look.first]) /\ NotExpired
     \/ Low(time) >= Low(due[look.first]) /\ HasExpired
  /\ UNCHANGED <<time, tick, offset, others>>

-----------------------------------------------------------------------------
(* Inserting a timer.                                                         *)

(* A uniprocessor does nothing else while it is in the clock interrupt.       *)
Interruptible == Multiprocessor \/ clock = <<>>

Index(d) == (d \div MaxIncrement) % TableSize

(* Mutant: a timer is only looked for in the table.                           *)
UnexpiredNot(x) == exp

Members(list) == {list[i] : i \in 1..Len(list)}

(* RemoveEntryList: a timer is unlinked from whatever list it is in.          *)
Without(list, x) ==
  IF x \in Members(list) THEN RemoveAt(list, CHOOSE i \in 1..Len(list) : list[i] = x) ELSE list
Unlinked(x) == [b \in Buckets |-> Without(table[b], x)]
Unexpired(x) == [exp EXCEPT !.expired = Without(@, x), !.absolutes = Without(@, x)]

(* KiInsertTreeTimer with a relative time: the due time is computed and       *)
(* insertion begins; then: what its caller does afterwards.                   *)
KiInsertTreeTimer(x, k, abs, p, then) ==
  /\ period' = [period EXCEPT ![x] = p]
  /\ absolute' = [absolute EXCEPT ![x] = abs]
  /\ inserted' = [inserted EXCEPT ![x] = TRUE]
  /\ due' = [due EXCEPT ![x] = time + k]
  /\ ins' = [timer |-> x, stage |-> "link", then |-> then]

(* Inserted is cleared.  The other fields keep their values, which nobody     *)
(* but the interrupt that is looking at the timer reads until it is set       *)
(* again: here they are reset.                                                *)
NotSet(x) ==
  /\ inserted' = [inserted EXCEPT ![x] = FALSE]
  /\ due' = [due EXCEPT ![x] = IF look.first = x THEN @ ELSE 0]
  /\ absolute' = [absolute EXCEPT ![x] = FALSE] /\ period' = [period EXCEPT ![x] = 0]

(* Where x goes in the list, which is searched from the back: behind the last *)
(* timer that is not due later.                                               *)
Position(x, list) ==
  CHOOSE i \in 1..(Len(list) + 1) :
    /\ \A j \in i..Len(list) : due[x] < due[list[j]]
    /\ i > 1 => due[list[i - 1]] <= due[x]

(* KeInsertQueueDpc: a DPC that is queued already is not queued again.        *)
KeInsertQueueDpc(x) == queued' = queued \cup {x}

Expires(x) == owed' = IF x \in WithDpc THEN owed \cup {x} ELSE owed

(* Mutant: the entry that fills the batch is not stored.                      *)
CaptureDropsLast(x, e) ==
  /\ exp' = IF x \in WithDpc \ Targeted
            THEN [e EXCEPT !.dpcs = IF Len(@) + 1 = BatchSize THEN @ ELSE Append(@, x),
                           !.full = Len(e.dpcs) + 1 = BatchSize,
                           !.pc = IF Len(e.dpcs) + 1 = BatchSize THEN "run" ELSE "list"]
            ELSE [e EXCEPT !.pc = "list"]
  /\ IF x \in Targeted THEN KeInsertQueueDpc(x) ELSE UNCHANGED queued
  /\ lock' = IF x \in WithDpc \ Targeted /\ Len(e.dpcs) + 1 = BatchSize THEN "free" ELSE "expirer"

(* KiTimerListExpire: capture the DPC of x, which has just expired, or queue  *)
(* it to its target processor; a full batch ends the scan.                    *)
Capture(x, e) ==
  /\ exp' = IF x \in WithDpc \ Targeted
            THEN [e EXCEPT !.dpcs = Append(@, x), !.full = Len(e.dpcs) + 1 = BatchSize,
                           !.pc = IF Len(e.dpcs) + 1 = BatchSize THEN "run" ELSE "list"]
            ELSE [e EXCEPT !.pc = "list"]
  /\ IF x \in Targeted THEN KeInsertQueueDpc(x) ELSE UNCHANGED queued
  /\ lock' = IF x \in WithDpc \ Targeted /\ Len(e.dpcs) + 1 = BatchSize THEN "free" ELSE "expirer"

(* The insertion succeeded; its caller goes on.                               *)
Inserted(x) ==
  /\ ins' = NoInsertion
  /\ \/ ins.then \in {"set", "period"} /\ lock' = "free" /\ UNCHANGED <<exp, queued>>
     \/ ins.then = "expire" /\ Capture(x, exp)
     \/ ins.then = "system" /\ exp' = [exp EXCEPT !.pc = "system"] /\ UNCHANGED <<lock, queued>>

(* Processor 0 does not go on with an insertion inside the clock interrupt.   *)
Undisturbed == Interruptible /\ (ins.then \in {"expire", "system"} => clock = <<>>)

(* KiInsertTimerTable: link the timer.  It is looked at again only if it is   *)
(* the first of its list.                                                     *)
Link ==
  LET x == ins.timer
      b == Index(due[x])
      i == Position(x, table[b]) IN
  /\ ins.stage = "link" /\ Undisturbed
  /\ table' = [table EXCEPT ![b] = InsertAt(@, i, x)]
  /\ \/ i > 1 /\ Inserted(x)
     \/ i = 1 /\ ins' = [ins EXCEPT !.stage = "recheck"] /\ UNCHANGED <<lock, exp, queued>>
  /\ UNCHANGED <<clockVars, fields, expireDpc, owed>>

(* KeSetTimerEx, when the timer has expired before it could be inserted: its  *)
(* DPC is queued, and a periodic timer is inserted again.                     *)
SetExpired(x, p) ==
  /\ IF x \in WithDpc THEN KeInsertQueueDpc(x) ELSE UNCHANGED queued
  /\ Expires(x)
  /\ \/ /\ p = 0 /\ lock' = "free" /\ ins' = NoInsertion
        /\ NotSet(x)
     \/ /\ p # 0 /\ lock' = "setter" /\ KiInsertTreeTimer(x, p, FALSE, p, "period")

(* Mutant: the time is not read again after the timer was linked.             *)
RecheckSkipped ==
  LET x == ins.timer IN
  /\ ins.stage = "recheck" /\ Undisturbed
  /\ Inserted(x) /\ UNCHANGED <<table, fields, owed>>
  /\ UNCHANGED <<clockVars, expireDpc>>

(* KiInsertTimerTable: if time has passed the due time meanwhile, the timer   *)
(* is removed and has expired.                                                *)
Recheck ==
  LET x == ins.timer IN
  /\ ins.stage = "recheck" /\ Undisturbed
  /\ \/ /\ due[x] > time
        /\ Inserted(x) /\ UNCHANGED <<table, fields, owed>>
     \/ /\ due[x] <= time
        /\ table' = Unlinked(x)
        /\ \/ ins.then = "set" /\ SetExpired(x, period[x]) /\ UNCHANGED exp
           \/ /\ ins.then \in {"period", "expire"}
              /\ KiInsertTreeTimer(x, period[x], FALSE, period[x], ins.then)
              /\ UNCHANGED <<lock, exp, queued, owed>>
           \/ /\ ins.then = "system"
              /\ exp' = [exp EXCEPT !.expired = Append(@, x), !.pc = "system"]
              /\ ins' = NoInsertion
              /\ UNCHANGED <<due, inserted, absolute, period, lock, queued, owed>>
  /\ UNCHANGED <<clockVars, expireDpc>>

-----------------------------------------------------------------------------
(* Setting and cancelling.                                                    *)

(* KeSetTimerEx.                                                              *)
KeSetTimerEx(x, k, abs, p) ==
  /\ lock = "free" /\ Interruptible /\ time + k + p <= 2 * MaxTime
  /\ table' = Unlinked(x) /\ exp' = Unexpired(x)
  /\ \/ /\ k > 0
        /\ lock' = "setter" /\ KiInsertTreeTimer(x, k, abs, p, "set")
        /\ UNCHANGED <<queued, owed>>
     \/ k <= 0 /\ abs /\ SetExpired(x, p)
  /\ UNCHANGED <<clockVars, expireDpc>>

(* KeCancelTimer of a timer that is set.                                      *)
KeCancelTimer(x) ==
  /\ lock = "free" /\ Interruptible /\ inserted[x]
  /\ NotSet(x)
  /\ table' = Unlinked(x) /\ exp' = Unexpired(x)
  /\ UNCHANGED <<clockVars, expireDpc, lock, ins, queued, owed>>

(* KeRemoveQueueDpc, and KiRetireDpcList: the DPC of x leaves its queue,      *)
(* removed or run.                                                            *)
KeRemoveQueueDpc(x) ==
  /\ x \in queued /\ Interruptible
  /\ queued' = queued \ {x} /\ owed' = owed \ {x}
  /\ UNCHANGED <<clockVars, table, fields, expireDpc, lock, ins, exp>>

-----------------------------------------------------------------------------
(* Processor 0: it does nothing of this while it is in the clock interrupt.   *)

Processor0(pc) == exp.pc = pc /\ clock = <<>>

(* The expiration DPC is taken from the DPC queue.                            *)
KiRetireDpcList ==
  /\ Processor0("idle") /\ expireDpc # None
  /\ exp' = [NoExpiration EXCEPT !.pc = "dpc", !.arg = expireDpc]
  /\ expireDpc' = None
  /\ UNCHANGED <<clockVars, table, fields, lock, ins, queued, owed>>

(* KiTimerExpiration: lock, and read the interrupt time.                      *)
KiTimerExpiration ==
  /\ Processor0("dpc") /\ lock = "free"
  /\ lock' = "expirer"
  /\ exp' = [exp EXCEPT !.pc = "hand", !.now = time]
  /\ UNCHANGED <<clockVars, table, fields, expireDpc, ins, queued, owed>>

(* KiTimerExpiration: read the tick count.  The lists from the hand of the    *)
(* DPC to the current tick are scanned, or all of them if the DPC is a        *)
(* revolution late.                                                           *)
HandLimit ==
  LET late == tick - exp.arg >= TableSize IN
  /\ Processor0("hand")
  /\ exp' = [exp EXCEPT !.pc = "scan", !.arg = IF late THEN 0 ELSE @,
                        !.limit = IF late THEN TableSize - 1 ELSE tick]
  /\ UNCHANGED <<clockVars, table, fields, expireDpc, lock, ins, queued, owed>>

(* KiTimerExpiration: the first timer of the list moves to the local list if  *)
(* it has expired, and stays Inserted; otherwise the list is done.            *)
Scan ==
  LET b == exp.arg % TableSize
      expires == table[b] # <<>> /\ due[Head(table[b])] <= exp.now IN
  /\ Processor0("scan")
  /\ \/ /\ expires
        /\ table' = [table EXCEPT ![b] = Tail(@)]
        /\ exp' = [exp EXCEPT !.expired = Append(@, Head(table[b]))]
     \/ /\ ~expires /\ exp.arg # exp.limit
        /\ exp' = [exp EXCEPT !.arg = @ + 1] /\ UNCHANGED table
     \/ /\ ~expires /\ exp.arg = exp.limit
        /\ exp' = [NoExpiration EXCEPT !.pc = "list", !.expired = exp.expired] /\ UNCHANGED table
  /\ UNCHANGED <<clockVars, fields, expireDpc, lock, ins, queued, owed>>

(* KiTimerListExpire: the next timer of the list expires.                     *)
ExpireNext ==
  LET x == Head(exp.expired)
      e == [exp EXCEPT !.expired = Tail(@)] IN
  /\ Processor0("list") /\ exp.expired # <<>>
  /\ Expires(x)
  /\ \/ /\ period[x] = 0
        /\ NotSet(x)
        /\ Capture(x, e) /\ UNCHANGED ins
     \/ /\ period[x] # 0
        /\ KiInsertTreeTimer(x, period[x], FALSE, period[x], "expire")
        /\ exp' = [e EXCEPT !.pc = "insert"]
        /\ UNCHANGED <<lock, queued>>
  /\ UNCHANGED <<clockVars, table, expireDpc>>

(* KiTimerListExpire: the list is empty; unlock, and run the captured DPCs.   *)
ListDone ==
  /\ Processor0("list") /\ exp.expired = <<>>
  /\ lock' = "free"
  /\ exp' = [exp EXCEPT !.pc = "run"]
  /\ UNCHANGED <<clockVars, table, fields, expireDpc, ins, queued, owed>>

(* The next captured DPC routine runs.                                        *)
RunDpc ==
  /\ Processor0("run") /\ exp.dpcs # <<>>
  /\ owed' = owed \ {Head(exp.dpcs)}
  /\ exp' = [exp EXCEPT !.dpcs = Tail(@)]
  /\ UNCHANGED <<clockVars, table, fields, expireDpc, lock, ins, queued>>

(* All have run: after a full batch lock and go on with the list.             *)
RestartScan ==
  /\ Processor0("run") /\ exp.dpcs = <<>>
  /\ \/ /\ exp.full /\ lock = "free"
        /\ lock' = "expirer"
        /\ exp' = [exp EXCEPT !.pc = "list", !.full = FALSE]
     \/ ~exp.full /\ exp' = NoExpiration /\ UNCHANGED lock
  /\ UNCHANGED <<clockVars, table, fields, expireDpc, ins, queued, owed>>

(* KeSetSystemTime: lock.                                                     *)
KeSetSystemTime(delta) ==
  /\ Processor0("idle") /\ lock = "free"
  /\ \A x \in Timers : absolute[x] /\ inserted[x] => due[x] - delta <= 2 * MaxTime
  /\ lock' = "expirer"
  /\ exp' = [NoExpiration EXCEPT !.pc = "remove", !.delta = delta]
  /\ UNCHANGED <<clockVars, table, fields, expireDpc, ins, queued, owed>>

(* KeSetSystemTime: all absolute timers leave the table, list after list.     *)
Absolute(b) == {i \in 1..Len(table[b]) : absolute[table[b][i]]}
RemoveAbsolute ==
  /\ Processor0("remove")
  /\ \/ \E b \in Buckets : \E i \in Absolute(b) :
          /\ \A c \in Buckets : c < b => Absolute(c) = {}
          /\ \A j \in Absolute(b) : i <= j
          /\ table' = [table EXCEPT ![b] = RemoveAt(@, i)]
          /\ exp' = [exp EXCEPT !.absolutes = Append(@, table[b][i])]
     \/ /\ \A b \in Buckets : Absolute(b) = {}
        /\ exp' = [exp EXCEPT !.pc = "system"] /\ UNCHANGED table
  /\ UNCHANGED <<clockVars, fields, expireDpc, lock, ins, queued, owed>>

(* KeSetSystemTime and KiReinsertTreeTimer: the next absolute timer gets its  *)
(* new due time; it is inserted again, or has expired.                        *)
ReinsertAbsolute ==
  LET x == Head(exp.absolutes)
      d == due[x] - exp.delta
      e == [exp EXCEPT !.absolutes = Tail(@)] IN
  /\ Processor0("system") /\ exp.absolutes # <<>>
  /\ due' = [due EXCEPT ![x] = d]
  /\ \/ /\ d <= time
        /\ exp' = [e EXCEPT !.expired = Append(@, x)] /\ UNCHANGED ins
     \/ /\ d > time
        /\ ins' = [timer |-> x, stage |-> "link", then |-> "system"]
        /\ exp' = [e EXCEPT !.pc = "insert"]
  /\ UNCHANGED <<clockVars, table, inserted, absolute, period, expireDpc, lock, queued, owed>>

(* KeSetSystemTime: expire the timers that are due at the new time.           *)
SystemDone ==
  /\ Processor0("system") /\ exp.absolutes = <<>>
  /\ exp' = [exp EXCEPT !.pc = "list", !.delta = 0]
  /\ UNCHANGED <<clockVars, table, fields, expireDpc, lock, ins, queued, owed>>

-----------------------------------------------------------------------------
Next ==
  \/ \E inc \in Increments : KeUpdateSystemTime(inc)
  \/ ReadFirst \/ CompareHigh \/ CompareLow
  \/ \E x \in Timers :
       \/ \E c \in Settings : c.timer = x /\ KeSetTimerEx(x, c.k, c.abs, c.period)
       \/ KeCancelTimer(x) \/ KeRemoveQueueDpc(x)
  \/ Link \/ Recheck
  \/ KiRetireDpcList \/ KiTimerExpiration \/ HandLimit \/ Scan
  \/ ExpireNext \/ ListDone \/ RunDpc \/ RestartScan
  \/ \E delta \in Deltas : KeSetSystemTime(delta)
  \/ RemoveAbsolute \/ ReinsertAbsolute \/ SystemDone

Spec == Init /\ [][Next]_vars
-----------------------------------------------------------------------------
(* Properties.                                                                *)

Expirations ==
  [pc: {"idle", "dpc", "hand", "scan", "list", "insert", "run", "remove", "system"},
   arg: Nat, limit: Nat, now: 0..MaxTime, full: BOOLEAN, delta: Int,
   expired: Seq(Timers), absolutes: Seq(Timers), dpcs: Seq(Timers)]

(* Types: in particular KiTickOffset stays within a tick.                     *)
TypeOK ==
  /\ time \in 0..MaxTime /\ tick \in Nat /\ offset \in 1..MaxIncrement /\ clock \in Seq(Nat)
  /\ look \in [first: Timers \cup {None}, equal: BOOLEAN]
  /\ table \in [Buckets -> Seq(Timers)]
  /\ due \in [Timers -> Int] /\ period \in [Timers -> Nat]
  /\ inserted \in [Timers -> BOOLEAN] /\ absolute \in [Timers -> BOOLEAN]
  /\ expireDpc \in Nat \cup {None} /\ lock \in {"free", "setter", "expirer"}
  /\ ins \in [timer: Timers \cup {None}, stage: {"none", "link", "recheck"},
              then: {"none", "set", "period", "expire", "system"}]
  /\ exp \in Expirations
  /\ queued \subseteq WithDpc /\ owed \subseteq WithDpc

(* The places a timer can be linked in: the table and the two local lists.    *)
List(b) == CASE b \in Buckets -> table[b]
             [] b = TableSize -> exp.expired
             [] b = TableSize + 1 -> exp.absolutes
Places(x) == UNION {{<<b, i>> : i \in {j \in 1..Len(List(b)) : List(b)[j] = x}} : b \in 0..(TableSize + 1)}

(* A timer is Inserted exactly if it is linked in one list, or about to be,   *)
(* although KiTimerListExpire drops the lock with timers on its local list    *)
(* that KeSetTimerEx and KeCancelTimer can reach; in the table it is in the   *)
(* list of its due time, in order; on the local list it is due.               *)
TimersExact ==
  /\ \A x \in Timers :
       Cardinality(Places(x)) =
         IF inserted[x] /\ ~(ins.timer = x /\ ins.stage = "link") THEN 1 ELSE 0
  /\ \A b \in Buckets : \A i \in 1..Len(table[b]) :
       /\ Index(due[table[b][i]]) = b
       /\ i > 1 => due[table[b][i - 1]] <= due[table[b][i]]
  /\ \A x \in Members(exp.expired) : due[x] <= time

(* The lists a scan that starts now with this hand would cover.               *)
Lists(first, last) == {h % TableSize : h \in first..last}
Cover(arg) == IF tick - arg >= TableSize THEN Buckets ELSE Lists(arg, tick)

(* An expiration is under way that will find timer x of list b, which is due: *)
(* the interrupt still has to look at the list, the DPC is queued or running  *)
(* with a hand that covers it, or the insertion of x is about to look at the  *)
(* time again.                                                                *)
UnderWay(b, x) ==
  \/ \E h \in Members(clock) : h % TableSize = b
  \/ expireDpc # None /\ b \in Cover(expireDpc)
  \/ exp.pc = "dpc" /\ b \in Cover(exp.arg)
  \/ exp.pc = "hand" /\ b \in Cover(exp.arg) /\ due[x] <= exp.now
  \/ exp.pc = "scan" /\ b \in Lists(exp.arg, exp.limit) /\ due[x] <= exp.now
  \/ ins.timer = x /\ ins.stage = "recheck"
Missed(b) == \E x \in Members(table[b]) : due[x] <= time /\ ~UnderWay(b, x)

(* The comment in KiInsertTimerTable: no timer slips between an insertion and *)
(* the clock interrupt, nor out of the range of lists that KiTimerExpiration  *)
(* scans: a timer in the table that is due has an expiration under way.       *)
(* Other processors break it: they may set the timer again that the interrupt *)
(* has read and is about to compare.                                          *)
NoMissedExpiry == \A b \in Buckets : ~Missed(b)

(* The interrupt is about to go on to the next list although it has looked at *)
(* a timer that, in the meantime, is not the first of this list and is due    *)
(* later.                                                                     *)
StaleLook(b) ==
  /\ look.first # None /\ Head(clock) % TableSize = b
  /\ table[b] # <<>> /\ look.first # Head(table[b]) /\ due[look.first] > time

(* The race of NoMissedExpiry is the only one: on any number of processors,   *)
(* a list comes to hold a due timer that no expiration will find only when    *)
(* the interrupt passes it on such a look; never by an insertion, by a tick,  *)
(* by a late DPC or by the end of a scan.                                     *)
MissedOnlyByReset ==
  [][\A b \in Buckets : ~Missed(b) /\ Missed(b)' => StaleLook(b) /\ clock' = Tail(clock)]_vars

(* The DPC of a timer that expired runs, once for all expiries since it ran   *)
(* last: it is in the batch of KiTimerListExpire, full or not, or in a queue, *)
(* whatever is done to the timer meanwhile.                                   *)
DpcNotLost == \A x \in owed :
  x \in queued \/ x \in Members(exp.dpcs) \/ (ins.then = "expire" /\ ins.timer = x)
=============================================================================
