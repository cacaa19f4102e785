----------------------------- MODULE WorkQueue -----------------------------
(* What a set of kernel queues promises to those who queue work: an entry is  *)
(* in one queue, or with one thread, or free, and nowhere else.  A queue is   *)
(* taken from at its head; new work may also go straight to a thread.         *)
EXTENDS Sequences, Naturals

CONSTANTS Queues, Entries, Threads
VARIABLES list,   \* the entries of each queue
          holder  \* the entry each thread works on, or "none"

workVars == <<list, holder>>

Free(e) == /\ \A q \in Queues : \A i \in 1..Len(list[q]) : list[q][i] # e
           /\ \A t \in Threads : holder[t] # e

Post(q, e) ==
  /\ Free(e)
  /\ \/ list' = [list EXCEPT ![q] = Append(@, e)]
     \/ list' = [list EXCEPT ![q] = <<e>> \o @]
  /\ UNCHANGED holder

Handoff(t, e) ==
  /\ Free(e) /\ holder[t] = "none"
  /\ holder' = [holder EXCEPT ![t] = e]
  /\ UNCHANGED list

Take(t, q) ==
  /\ list[q] # <<>> /\ holder[t] = "none"
  /\ holder' = [holder EXCEPT ![t] = Head(list[q])]
  /\ list' = [list EXCEPT ![q] = Tail(@)]

Finish(t) ==
  /\ holder[t] # "none"
  /\ holder' = [holder EXCEPT ![t] = "none"]
  /\ UNCHANGED list

Discard(q) ==
  /\ list' = [list EXCEPT ![q] = <<>>]
  /\ UNCHANGED holder

Init == /\ list = [q \in Queues |-> <<>>]
        /\ holder = [t \in Threads |-> "none"]

Next == \/ \E q \in Queues, e \in Entries : Post(q, e)
        \/ \E t \in Threads, e \in Entries : Handoff(t, e)
        \/ \E t \in Threads, q \in Queues : Take(t, q)
        \/ \E t \in Threads : Finish(t)
        \/ \E q \in Queues : Discard(q)

Spec == Init /\ [][Next]_workVars
=============================================================================
