----------------------------- MODULE LpcProofs -----------------------------
(* Theorems about Lpc for any number of threads, whatever ports each of them  *)
(* has open, and any bound on the message ids.                                *)
EXTENDS Lpc, TLAPS, FiniteSetTheorems

-----------------------------------------------------------------------------
(* The inductive invariant.                                                   *)

(* Thread s is about to signal u.                                             *)
Signals(s, u) == pc[s] = "signal" /\ call[s].target = u

(* The thread's wait is over, or is about to be.                              *)
Woken(t) == LpcReplySemaphore[t] # 0 \/ \E s \in Threads : Signals(s, t)

(* The thread expects no reply: it has not asked for one, or it has had it.   *)
Expectless(t) ==
  \/ pc[t] \in {"user", "entered", "receive", "dequeue"}
  \/ pc[t] = "signal" /\ call[t].then \in {"user", "receive"}

(* Where the thread is agrees with the call it is in.                         *)
Placed ==
  \A t \in Threads :
    /\ pc[t] = "entered" => call[t].port \in Ports
    /\ pc[t] = "wait" => call[t].then = "wait"
    /\ pc[t] = "waitreply" => call[t].then = "waitreply"
    /\ pc[t] \in {"broken", "pickup"} => call[t].then \in {"wait", "waitreply"}

(* A thread is woken once: by one thread only, and only when its semaphore is *)
(* not signalled already.                                                     *)
WokenOnce ==
  \A t, s \in Threads : Signals(s, t) =>
    /\ LpcReplySemaphore[t] = 0
    /\ \A r \in Threads : Signals(r, t) => r = s

(* Who still waits for a reply has not been woken, and waits for the reply to *)
(* its own request.                                                           *)
Unanswered ==
  \A t \in Threads : LpcReplyMessageId[t] # 0 =>
    ~Woken(t) /\ LpcReplyMessageId[t] = req[t]

(* A thread that expects no reply waits for none, and nobody wakes it.        *)
AtRest ==
  \A t \in Threads :
    /\ Expectless(t) \/ (pc[t] = "pickup" /\ call[t].status = "success") =>
         LpcReplyMessageId[t] = 0 /\ ~Woken(t)
    /\ pc[t] = "exited" => LpcReplyMessageId[t] = 0

(* A message is given to a thread that asked for it.                          *)
MessageDue ==
  \A t \in Threads : LpcReplyMessage[t] # None =>
    LpcReplyMessage[t].id = req[t] /\ ~Expectless(t) /\ pc[t] # "exited"

(* The chains hold the unanswered threads of NtRequestWaitReplyPort, each in  *)
(* the chain of the port at the other end, or of the connection port.         *)
Chained ==
  \A p \in Ports : \A t \in chain[p] :
    /\ p = RundownPort(call[t].port) /\ LpcReplyMessageId[t] # 0
    /\ call[t].then = "wait" /\ pc[t] \in {"signal", "wait", "broken", "pickup"}

(* A thread of NtRequestWaitReplyPort whose wait has not ended has been       *)
(* woken, or the rundown of the port whose chain it is on will wake it.       *)
Awaited ==
  \A t \in Threads : call[t].then = "wait" /\ pc[t] \in {"signal", "wait", "broken"} =>
    \/ Woken(t)
    \/ /\ LpcReplyMessageId[t] = req[t] /\ t \in chain[RundownPort(call[t].port)]
       /\ port[RundownPort(call[t].port)] # "gone"

(* A communication port that is connected has another end.  The connection    *)
(* port outlives both.                                                        *)
PortsPaired ==
  /\ ~ConnectedPort["conn"]
  /\ \A p \in Ports \ {"conn"} :
       /\ port[RundownPort(p)] = "gone" => ~ConnectedPort[p] \/ port[p] = "gone"
       /\ ~ConnectedPort[p] => port[RundownPort(p)] = "gone"
       /\ port["conn"] \notin {"open", "closed"} => port[p] = "gone"

(* Every message in a queue has a unit of the semaphore, or somebody is about *)
(* to release one, or has taken one and comes for the message.                *)
Closing(q) == IF q = "conn" /\ port["client"] = "signal" THEN 1 ELSE 0
Covered(q) == queue[q] <= qsem[q] + Cardinality(Dequeuing(q)) + Cardinality(Queueing(q)) + Closing(q)
QueuesCovered == \A q \in Queues : Covered(q)

WaitInv == Placed /\ WokenOnce /\ Unanswered /\ AtRest /\ MessageDue /\ Chained /\ Awaited
PortInv == PortsPaired /\ NotDeletedInUse
Inv == TypeOK /\ WaitInv /\ PortInv /\ QueuesCovered

-----------------------------------------------------------------------------
(* One lemma for each action: it preserves the types and what is said of      *)
(* waits and of ports.                                                        *)

(* A call begins.                                                             *)
LEMMA LpcpReferencePortObjectStep ==
  ASSUME TypeOK, WaitInv, PortInv, NEW t \in Threads, NEW p \in Ports,
         LpcpReferencePortObject(t, p)
  PROVE  TypeOK' /\ WaitInv' /\ PortInv'
<1> USE DEF LpcpReferencePortObject, waits, queues, ports
<1>3. TypeOK'
  BY LpcAssumption DEF TypeOK, Ports, Queues, RundownPort
<1>4. ASSUME NEW s \in Threads, NEW u \in Threads
      PROVE  Signals(s, u)' <=> Signals(s, u)
  BY LpcAssumption DEF TypeOK, Signals, Ports, Queues
<1>5. ASSUME NEW u \in Threads PROVE Woken(u)' <=> Woken(u)
  BY <1>4 DEF TypeOK, Woken
<1>6. Placed'
  BY DEF TypeOK, WaitInv, Placed
<1>7. WokenOnce'
  BY <1>4 DEF TypeOK, WaitInv, WokenOnce, Woken
<1>8. Unanswered'
  BY <1>5 DEF TypeOK, WaitInv, Unanswered, AtRest, Expectless
<1>9. AtRest'
  BY <1>5 DEF TypeOK, WaitInv, AtRest, Expectless, Placed
<1>10. MessageDue'
  BY DEF TypeOK, WaitInv, MessageDue, Unanswered, AtRest, Expectless, Placed
<1>11. Chained'
  BY DEF TypeOK, WaitInv, Chained, Placed, AtRest, Expectless, Ports, RundownPort
<1>12. Awaited'
  BY <1>5 DEF TypeOK, WaitInv, Awaited, Placed, Ports, RundownPort
<1>13. PortsPaired'
  BY DEF TypeOK, PortInv, PortsPaired, Ports, RundownPort
<1>14. NotDeletedInUse'
  BY LpcAssumption DEF TypeOK, PortInv, NotDeletedInUse, Datagram, Ports, Queues
<1> QED BY <1>3, <1>6, <1>7, <1>8, <1>9, <1>10, <1>11, <1>12, <1>13, <1>14 DEF WaitInv, PortInv

(* A call that fails wakes nobody.                                            *)
LEMMA CallFailsStep ==
  ASSUME TypeOK, WaitInv, PortInv, NEW t \in Threads,
         CallFails(t)
  PROVE  TypeOK' /\ WaitInv' /\ PortInv'
<1> USE DEF CallFails, NoCall, waits, queues, ports
<1>3. TypeOK'
  BY LpcAssumption DEF TypeOK, Ports, Queues, RundownPort
<1>4. ASSUME NEW s \in Threads, NEW u \in Threads
      PROVE  Signals(s, u)' <=> Signals(s, u)
  BY LpcAssumption DEF TypeOK, Signals, Ports, Queues
<1>5. ASSUME NEW u \in Threads PROVE Woken(u)' <=> Woken(u)
  BY <1>4 DEF TypeOK, Woken
<1>6. Placed'
  BY DEF TypeOK, WaitInv, Placed
<1>7. WokenOnce'
  BY <1>4 DEF TypeOK, WaitInv, WokenOnce, Woken
<1>8. Unanswered'
  BY <1>5 DEF TypeOK, WaitInv, Unanswered, AtRest, Expectless
<1>9. AtRest'
  BY <1>5 DEF TypeOK, WaitInv, AtRest, Expectless, Placed
<1>10. MessageDue'
  BY DEF TypeOK, WaitInv, MessageDue, Unanswered, AtRest, Expectless, Placed
<1>11. Chained'
  BY DEF TypeOK, WaitInv, Chained, Placed, AtRest, Expectless, Ports, RundownPort
<1>12. Awaited'
  BY <1>5 DEF TypeOK, WaitInv, Awaited, Placed, Ports, RundownPort
<1>13. PortsPaired'
  BY DEF TypeOK, PortInv, PortsPaired, Ports, RundownPort
<1>14. NotDeletedInUse'
  BY LpcAssumption DEF TypeOK, PortInv, NotDeletedInUse, Datagram, Ports, Queues
<1> QED BY <1>3, <1>6, <1>7, <1>8, <1>9, <1>10, <1>11, <1>12, <1>13, <1>14 DEF WaitInv, PortInv

(* A datagram wakes nobody and is not waited for.                             *)
LEMMA NtRequestPortStep ==
  ASSUME TypeOK, WaitInv, PortInv, NEW t \in Threads,
         NtRequestPort(t)
  PROVE  TypeOK' /\ WaitInv' /\ PortInv'
<1> USE DEF NtRequestPort, GenerateMessageId, Enqueue, ThenSignal, ports
<1>1. QueuePort(call[t].port) \in Queues /\ port[QueuePort(call[t].port)] \in {"open", "closed"}
  BY DEF TypeOK, WaitInv, PortInv, Placed, PortsPaired, NotDeletedInUse, Connected, RundownPort, QueuePort, Ports, Queues
<1>3. TypeOK'
  BY <1>1, LpcAssumption DEF TypeOK, Ports, Queues, QueuePort, RundownPort
<1>4. ASSUME NEW s \in Threads, NEW u \in Threads
      PROVE  Signals(s, u)' <=> Signals(s, u)
  BY <1>1, LpcAssumption DEF TypeOK, Signals, Ports, Queues, QueuePort
<1>5. ASSUME NEW u \in Threads PROVE Woken(u)' <=> Woken(u)
  BY <1>1, <1>4 DEF TypeOK, Woken
<1>6. Placed'
  BY <1>1 DEF TypeOK, WaitInv, Placed
<1>7. WokenOnce'
  BY <1>1, <1>4 DEF TypeOK, WaitInv, WokenOnce, Woken
<1>8. Unanswered'
  BY <1>1, <1>5 DEF TypeOK, WaitInv, Unanswered, AtRest, Expectless
<1>9. AtRest'
  BY <1>1, <1>5 DEF TypeOK, WaitInv, AtRest, Expectless, Placed
<1>10. MessageDue'
  BY <1>1 DEF TypeOK, WaitInv, MessageDue, Unanswered, AtRest, Expectless, Placed
<1>11. Chained'
  BY <1>1 DEF TypeOK, WaitInv, Chained, Placed, AtRest, Expectless, Ports, RundownPort
<1>12. Awaited'
  BY <1>1, <1>5 DEF TypeOK, WaitInv, Awaited, Placed, Ports, RundownPort
<1>13. PortsPaired'
  BY <1>1 DEF TypeOK, PortInv, PortsPaired, Ports, RundownPort
<1>14. NotDeletedInUse'
  BY <1>1, LpcAssumption DEF TypeOK, PortInv, NotDeletedInUse, Datagram, Ports, Queues
<1> QED BY <1>3, <1>6, <1>7, <1>8, <1>9, <1>10, <1>11, <1>12, <1>13, <1>14 DEF WaitInv, PortInv

(* A request: the caller becomes an unanswered thread on a chain.             *)
LEMMA NtRequestWaitReplyPortStep ==
  ASSUME TypeOK, WaitInv, PortInv, NEW t \in Threads,
         NtRequestWaitReplyPort(t)
  PROVE  TypeOK' /\ WaitInv' /\ PortInv'
<1> USE DEF NtRequestWaitReplyPort, GenerateMessageId, Enqueue, ThenSignal, ports
<1>1. LpcReplyMessageId[t] = 0 /\ ~Woken(t)
  BY DEF TypeOK, WaitInv, AtRest, Expectless
<1>2. LET r == RundownPort(call[t].port) IN r \in Ports /\ port[r] # "gone"
  BY DEF TypeOK, WaitInv, PortInv, Placed, PortsPaired, NotDeletedInUse, Connected, RundownPort, Ports
<1>3. TypeOK'
  BY <1>1, <1>2, LpcAssumption DEF TypeOK, Ports, Queues, QueuePort, RundownPort
<1>4. ASSUME NEW s \in Threads, NEW u \in Threads
      PROVE  Signals(s, u)' <=> Signals(s, u)
  BY <1>1, <1>2, LpcAssumption DEF TypeOK, Signals, Ports, Queues, QueuePort
<1>5. ASSUME NEW u \in Threads PROVE Woken(u)' <=> Woken(u)
  BY <1>1, <1>2, <1>4 DEF TypeOK, Woken
<1>6. Placed'
  BY <1>1, <1>2 DEF TypeOK, WaitInv, Placed
<1>7. WokenOnce'
  BY <1>1, <1>2, <1>4 DEF TypeOK, WaitInv, WokenOnce, Woken
<1>8. Unanswered'
  BY <1>1, <1>2, <1>5 DEF TypeOK, WaitInv, Unanswered, AtRest, Expectless
<1>9. AtRest'
  BY <1>1, <1>2, <1>5 DEF TypeOK, WaitInv, AtRest, Expectless, Placed
<1>10. MessageDue'
  BY <1>1, <1>2 DEF TypeOK, WaitInv, MessageDue, Unanswered, AtRest, Expectless, Placed
<1>11. Chained'
  BY <1>1, <1>2 DEF TypeOK, WaitInv, Chained, Placed, AtRest, Expectless, Ports, RundownPort
<1>12. Awaited'
  BY <1>1, <1>2, <1>5 DEF TypeOK, WaitInv, Awaited, Placed, Ports, RundownPort
<1>13. PortsPaired'
  BY <1>1, <1>2 DEF TypeOK, PortInv, PortsPaired, Ports, RundownPort
<1>14. NotDeletedInUse'
  BY <1>1, <1>2, LpcAssumption DEF TypeOK, PortInv, NotDeletedInUse, Datagram, Ports, Queues
<1> QED BY <1>3, <1>6, <1>7, <1>8, <1>9, <1>10, <1>11, <1>12, <1>13, <1>14 DEF WaitInv, PortInv

(* A callback answers a waiting thread, and the caller waits in its place.    *)
LEMMA CallbackStep ==
  ASSUME TypeOK, WaitInv, PortInv, NEW t \in Threads, NEW w \in Threads, NEW id \in 1..MaxId,
         Callback(t, w, id)
  PROVE  TypeOK' /\ WaitInv' /\ PortInv'
<1> USE DEF Callback, ThenSignal, queues, ports
<1>1. LpcReplyMessageId[w] = id /\ id # 0 /\ w # t /\ ~Woken(w) /\ LpcReplyMessageId[t] = 0 /\ ~Woken(t)
  BY LpcAssumption DEF TypeOK, WaitInv, IsWaitingFor, AtRest, Expectless, Unanswered
<1>2. LET r == RundownPort(call[t].port) IN r \in Ports /\ port[r] # "gone"
  BY DEF TypeOK, WaitInv, PortInv, Placed, PortsPaired, NotDeletedInUse, Connected, RundownPort, Ports
<1>3. TypeOK'
  BY <1>1, <1>2, LpcAssumption DEF TypeOK, Ports, Queues, RundownPort
<1>4. ASSUME NEW s \in Threads, NEW u \in Threads
      PROVE  Signals(s, u)' <=> Signals(s, u) \/ (s = t /\ u = w)
  BY <1>1, <1>2, LpcAssumption DEF TypeOK, Signals, Ports, Queues
<1>5. ASSUME NEW u \in Threads PROVE Woken(u)' <=> Woken(u) \/ u = w
  BY <1>1, <1>2, <1>4 DEF TypeOK, Woken
<1>6. Placed'
  BY <1>1, <1>2 DEF TypeOK, WaitInv, Placed
<1>7. WokenOnce'
  BY <1>1, <1>2, <1>4 DEF TypeOK, WaitInv, WokenOnce, Woken
<1>8. Unanswered'
  BY <1>1, <1>2, <1>5 DEF TypeOK, WaitInv, Unanswered, AtRest, Expectless
<1>9. AtRest'
  BY <1>1, <1>2, <1>5 DEF TypeOK, WaitInv, AtRest, Expectless, Placed
<1>10. MessageDue'
  BY <1>1, <1>2 DEF TypeOK, WaitInv, MessageDue, Unanswered, AtRest, Expectless, Placed
<1>11. Chained'
  BY <1>1, <1>2 DEF TypeOK, WaitInv, Chained, Placed, AtRest, Expectless, Ports, RundownPort
<1>12. Awaited'
  BY <1>1, <1>2, <1>5 DEF TypeOK, WaitInv, Awaited, Placed, Ports, RundownPort
<1>13. PortsPaired'
  BY <1>1, <1>2 DEF TypeOK, PortInv, PortsPaired, Ports, RundownPort
<1>14. NotDeletedInUse'
  BY <1>1, <1>2, LpcAssumption DEF TypeOK, PortInv, NotDeletedInUse, Datagram, Ports, Queues
<1> QED BY <1>3, <1>6, <1>7, <1>8, <1>9, <1>10, <1>11, <1>12, <1>13, <1>14 DEF WaitInv, PortInv

(* A reply answers a thread that waits for it.                                *)
LEMMA NtReplyPortStep ==
  ASSUME TypeOK, WaitInv, PortInv, NEW t \in Threads, NEW w \in Threads, NEW id \in 1..MaxId,
         NEW then \in {"user", "receive"},
         NtReplyPort(t, w, id, then)
  PROVE  TypeOK' /\ WaitInv' /\ PortInv'
<1> USE DEF NtReplyPort, ThenSignal, ReplyTo, OffChain, queues, ports
<1>1. LpcReplyMessageId[w] = id /\ id # 0 /\ w # t /\ ~Woken(w) /\ LpcReplyMessageId[t] = 0 /\ ~Woken(t)
  BY LpcAssumption DEF TypeOK, WaitInv, IsWaitingFor, AtRest, Expectless, Unanswered
<1>3. TypeOK'
  BY <1>1, LpcAssumption DEF TypeOK, Ports, Queues, RundownPort
<1>4. ASSUME NEW s \in Threads, NEW u \in Threads
      PROVE  Signals(s, u)' <=> Signals(s, u) \/ (s = t /\ u = w)
  BY <1>1, LpcAssumption DEF TypeOK, Signals, Ports, Queues
<1>5. ASSUME NEW u \in Threads PROVE Woken(u)' <=> Woken(u) \/ u = w
  BY <1>1, <1>4 DEF TypeOK, Woken
<1>6. Placed'
  BY <1>1 DEF TypeOK, WaitInv, Placed
<1>7. WokenOnce'
  BY <1>1, <1>4 DEF TypeOK, WaitInv, WokenOnce, Woken
<1>8. Unanswered'
  BY <1>1, <1>5 DEF TypeOK, WaitInv, Unanswered, AtRest, Expectless
<1>9. AtRest'
  BY <1>1, <1>5 DEF TypeOK, WaitInv, AtRest, Expectless, Placed
<1>10. MessageDue'
  BY <1>1 DEF TypeOK, WaitInv, MessageDue, Unanswered, AtRest, Expectless, Placed
<1>11. Chained'
  BY <1>1 DEF TypeOK, WaitInv, Chained, Placed, AtRest, Expectless, Ports, RundownPort
<1>12. Awaited'
  BY <1>1, <1>5 DEF TypeOK, WaitInv, Awaited, Placed, Ports, RundownPort
<1>13. PortsPaired'
  BY <1>1 DEF TypeOK, PortInv, PortsPaired, Ports, RundownPort
<1>14. NotDeletedInUse'
  BY <1>1, LpcAssumption DEF TypeOK, PortInv, NotDeletedInUse, Datagram, Ports, Queues
<1> QED BY <1>3, <1>6, <1>7, <1>8, <1>9, <1>10, <1>11, <1>12, <1>13, <1>14 DEF WaitInv, PortInv

(* The caller answers and waits, on no chain.                                 *)
LEMMA NtReplyWaitReplyPortStep ==
  ASSUME TypeOK, WaitInv, PortInv, NEW t \in Threads, NEW w \in Threads, NEW id \in 1..MaxId,
         NtReplyWaitReplyPort(t, w, id)
  PROVE  TypeOK' /\ WaitInv' /\ PortInv'
<1> USE DEF NtReplyWaitReplyPort, ThenSignal, OffChain, queues, ports
<1>1. LpcReplyMessageId[w] = id /\ id # 0 /\ w # t /\ ~Woken(w) /\ LpcReplyMessageId[t] = 0 /\ ~Woken(t)
  BY LpcAssumption DEF TypeOK, WaitInv, IsWaitingFor, AtRest, Expectless, Unanswered
<1>3. TypeOK'
  BY <1>1, LpcAssumption DEF TypeOK, Ports, Queues, RundownPort
<1>4. ASSUME NEW s \in Threads, NEW u \in Threads
      PROVE  Signals(s, u)' <=> Signals(s, u) \/ (s = t /\ u = w)
  BY <1>1, LpcAssumption DEF TypeOK, Signals, Ports, Queues
<1>5. ASSUME NEW u \in Threads PROVE Woken(u)' <=> Woken(u) \/ u = w
  BY <1>1, <1>4 DEF TypeOK, Woken
<1>6. Placed'
  BY <1>1 DEF TypeOK, WaitInv, Placed
<1>7. WokenOnce'
  BY <1>1, <1>4 DEF TypeOK, WaitInv, WokenOnce, Woken
<1>8. Unanswered'
  BY <1>1, <1>5 DEF TypeOK, WaitInv, Unanswered, AtRest, Expectless
<1>9. AtRest'
  BY <1>1, <1>5 DEF TypeOK, WaitInv, AtRest, Expectless, Placed
<1>10. MessageDue'
  BY <1>1 DEF TypeOK, WaitInv, MessageDue, Unanswered, AtRest, Expectless, Placed
<1>11. Chained'
  BY <1>1 DEF TypeOK, WaitInv, Chained, Placed, AtRest, Expectless, Ports, RundownPort
<1>12. Awaited'
  BY <1>1, <1>5 DEF TypeOK, WaitInv, Awaited, Placed, Ports, RundownPort
<1>13. PortsPaired'
  BY <1>1 DEF TypeOK, PortInv, PortsPaired, Ports, RundownPort
<1>14. NotDeletedInUse'
  BY <1>1, LpcAssumption DEF TypeOK, PortInv, NotDeletedInUse, Datagram, Ports, Queues
<1> QED BY <1>3, <1>6, <1>7, <1>8, <1>9, <1>10, <1>11, <1>12, <1>13, <1>14 DEF WaitInv, PortInv

(* The thread that was about to be woken is woken.                            *)
LEMMA KeReleaseSemaphoreStep ==
  ASSUME TypeOK, WaitInv, PortInv, NEW t \in Threads,
         KeReleaseSemaphore(t)
  PROVE  TypeOK' /\ WaitInv' /\ PortInv'
<1> USE DEF KeReleaseSemaphore, NoCall, ports
<1>1. call[t].target \in Threads => Signals(t, call[t].target) /\ LpcReplySemaphore[call[t].target] = 0
  BY LpcAssumption DEF TypeOK, WaitInv, WokenOnce, Signals
<1>3. TypeOK'
  BY <1>1, LpcAssumption DEF TypeOK, Ports, Queues, RundownPort
<1>4. ASSUME NEW s \in Threads, NEW u \in Threads
      PROVE  Signals(s, u)' <=> Signals(s, u) /\ s # t
  BY <1>1, LpcAssumption DEF TypeOK, Signals, Ports, Queues
<1>5. ASSUME NEW u \in Threads PROVE Woken(u)' <=> Woken(u)
  <2>1. CASE call[t].target = u
    <3>1. Woken(u)
      BY <1>1, <2>1 DEF Woken
    <3>2. LpcReplySemaphore'[u] = 1
      BY <1>1, <2>1, LpcAssumption DEF TypeOK, Ports, Queues
    <3> QED BY <3>1, <3>2 DEF Woken
  <2>2. CASE call[t].target # u
    <3>1. ~Signals(t, u) /\ LpcReplySemaphore'[u] = LpcReplySemaphore[u]
      BY <2>2 DEF TypeOK, Signals
    <3> QED BY <1>4, <3>1 DEF Woken
  <2> QED BY <2>1, <2>2
<1>6. Placed'
  BY <1>1 DEF TypeOK, WaitInv, Placed
<1>7. WokenOnce'
  BY <1>1, <1>4 DEF TypeOK, WaitInv, WokenOnce, Woken
<1>8. Unanswered'
  BY <1>1, <1>5 DEF TypeOK, WaitInv, Unanswered, AtRest, Expectless
<1>9. AtRest'
  BY <1>1, <1>5 DEF TypeOK, WaitInv, AtRest, Expectless, Placed
<1>10. MessageDue'
  BY <1>1 DEF TypeOK, WaitInv, MessageDue, Unanswered, AtRest, Expectless, Placed
<1>11. Chained'
  BY <1>1 DEF TypeOK, WaitInv, Chained, Placed, AtRest, Expectless, Ports, RundownPort
<1>12. Awaited'
  BY <1>1, <1>5 DEF TypeOK, WaitInv, Awaited, Placed, Ports, RundownPort
<1>13. PortsPaired'
  BY <1>1 DEF TypeOK, PortInv, PortsPaired, Ports, RundownPort
<1>14. NotDeletedInUse'
  BY <1>1, LpcAssumption DEF TypeOK, PortInv, NotDeletedInUse, Datagram, Ports, Queues
<1> QED BY <1>3, <1>6, <1>7, <1>8, <1>9, <1>10, <1>11, <1>12, <1>13, <1>14 DEF WaitInv, PortInv

(* The woken thread takes its unit: nobody wakes it again, and it has been    *)
(* answered.                                                                  *)
LEMMA WaitSatisfiedStep ==
  ASSUME TypeOK, WaitInv, PortInv, NEW t \in Threads,
         WaitSatisfied(t)
  PROVE  TypeOK' /\ WaitInv' /\ PortInv'
<1> USE DEF WaitSatisfied, Waits, queues, ports
<1>1. Woken(t) /\ LpcReplyMessageId[t] = 0 /\ \A s \in Threads : ~Signals(s, t)
  BY LpcAssumption DEF TypeOK, WaitInv, Woken, Unanswered, WokenOnce
<1>3. TypeOK'
  BY <1>1, LpcAssumption DEF TypeOK, Ports, Queues, RundownPort
<1>4. ASSUME NEW s \in Threads, NEW u \in Threads
      PROVE  Signals(s, u)' <=> Signals(s, u)
  BY <1>1, LpcAssumption DEF TypeOK, Signals, Ports, Queues
<1>5. ASSUME NEW u \in Threads PROVE Woken(u)' <=> Woken(u) /\ u # t
  BY <1>1, <1>4 DEF TypeOK, Woken
<1>6. Placed'
  BY <1>1 DEF TypeOK, WaitInv, Placed
<1>7. WokenOnce'
  BY <1>1, <1>4 DEF TypeOK, WaitInv, WokenOnce, Woken
<1>8. Unanswered'
  BY <1>1, <1>5 DEF TypeOK, WaitInv, Unanswered, AtRest, Expectless
<1>9. AtRest'
  BY <1>1, <1>5 DEF TypeOK, WaitInv, AtRest, Expectless, Placed
<1>10. MessageDue'
  BY <1>1 DEF TypeOK, WaitInv, MessageDue, Unanswered, AtRest, Expectless, Placed
<1>11. Chained'
  BY <1>1 DEF TypeOK, WaitInv, Chained, Placed, AtRest, Expectless, Ports, RundownPort
<1>12. Awaited'
  BY <1>1, <1>5 DEF TypeOK, WaitInv, Awaited, Placed, Ports, RundownPort
<1>13. PortsPaired'
  BY <1>1 DEF TypeOK, PortInv, PortsPaired, Ports, RundownPort
<1>14. NotDeletedInUse'
  BY <1>1, LpcAssumption DEF TypeOK, PortInv, NotDeletedInUse, Datagram, Ports, Queues
<1> QED BY <1>3, <1>6, <1>7, <1>8, <1>9, <1>10, <1>11, <1>12, <1>13, <1>14 DEF WaitInv, PortInv

(* The wait ends, what was waited for stays.                                  *)
LEMMA WaitBrokenStep ==
  ASSUME TypeOK, WaitInv, PortInv, NEW t \in Threads,
         WaitBroken(t)
  PROVE  TypeOK' /\ WaitInv' /\ PortInv'
<1> USE DEF WaitBroken, Waits, waits, queues, ports
<1>3. TypeOK'
  BY LpcAssumption DEF TypeOK, Ports, Queues, RundownPort
<1>4. ASSUME NEW s \in Threads, NEW u \in Threads
      PROVE  Signals(s, u)' <=> Signals(s, u)
  BY LpcAssumption DEF TypeOK, Signals, Ports, Queues
<1>5. ASSUME NEW u \in Threads PROVE Woken(u)' <=> Woken(u)
  BY <1>4 DEF TypeOK, Woken
<1>6. Placed'
  BY DEF TypeOK, WaitInv, Placed
<1>7. WokenOnce'
  BY <1>4 DEF TypeOK, WaitInv, WokenOnce, Woken
<1>8. Unanswered'
  BY <1>5 DEF TypeOK, WaitInv, Unanswered, AtRest, Expectless
<1>9. AtRest'
  BY <1>5 DEF TypeOK, WaitInv, AtRest, Expectless, Placed
<1>10. MessageDue'
  BY DEF TypeOK, WaitInv, MessageDue, Unanswered, AtRest, Expectless, Placed
<1>11. Chained'
  BY DEF TypeOK, WaitInv, Chained, Placed, AtRest, Expectless, Ports, RundownPort
<1>12. Awaited'
  BY <1>5 DEF TypeOK, WaitInv, Awaited, Placed, Ports, RundownPort
<1>13. PortsPaired'
  BY DEF TypeOK, PortInv, PortsPaired, Ports, RundownPort
<1>14. NotDeletedInUse'
  BY LpcAssumption DEF TypeOK, PortInv, NotDeletedInUse, Datagram, Ports, Queues
<1> QED BY <1>3, <1>6, <1>7, <1>8, <1>9, <1>10, <1>11, <1>12, <1>13, <1>14 DEF WaitInv, PortInv

(* A unit that came meanwhile is taken.                                       *)
LEMMA ReadStateSemaphoreStep ==
  ASSUME TypeOK, WaitInv, PortInv, NEW t \in Threads,
         ReadStateSemaphore(t)
  PROVE  TypeOK' /\ WaitInv' /\ PortInv'
<1> USE DEF ReadStateSemaphore, queues, ports
<1>1. LpcReplySemaphore[t] # 0 => LpcReplyMessageId[t] = 0 /\ \A s \in Threads : ~Signals(s, t)
  BY LpcAssumption DEF TypeOK, WaitInv, Woken, Unanswered, WokenOnce
<1>3. TypeOK'
  BY <1>1, LpcAssumption DEF TypeOK, Ports, Queues, RundownPort
<1>4. ASSUME NEW s \in Threads, NEW u \in Threads
      PROVE  Signals(s, u)' <=> Signals(s, u)
  BY <1>1, LpcAssumption DEF TypeOK, Signals, Ports, Queues
<1>5. ASSUME NEW u \in Threads PROVE Woken(u)' <=> Woken(u) /\ ~(u = t /\ LpcReplySemaphore[t] # 0)
  BY <1>1, <1>4 DEF TypeOK, Woken
<1>6. Placed'
  BY <1>1 DEF TypeOK, WaitInv, Placed
<1>7. WokenOnce'
  BY <1>1, <1>4 DEF TypeOK, WaitInv, WokenOnce, Woken
<1>8. Unanswered'
  BY <1>1, <1>5 DEF TypeOK, WaitInv, Unanswered, AtRest, Expectless
<1>9. AtRest'
  BY <1>1, <1>5 DEF TypeOK, WaitInv, AtRest, Expectless, Placed
<1>10. MessageDue'
  BY <1>1 DEF TypeOK, WaitInv, MessageDue, Unanswered, AtRest, Expectless, Placed
<1>11. Chained'
  BY <1>1 DEF TypeOK, WaitInv, Chained, Placed, AtRest, Expectless, Ports, RundownPort
<1>12. Awaited'
  BY <1>1, <1>5 DEF TypeOK, WaitInv, Awaited, Placed, Ports, RundownPort
<1>13. PortsPaired'
  BY <1>1 DEF TypeOK, PortInv, PortsPaired, Ports, RundownPort
<1>14. NotDeletedInUse'
  BY <1>1, LpcAssumption DEF TypeOK, PortInv, NotDeletedInUse, Datagram, Ports, Queues
<1> QED BY <1>3, <1>6, <1>7, <1>8, <1>9, <1>10, <1>11, <1>12, <1>13, <1>14 DEF WaitInv, PortInv

(* The caller returns, off every chain.                                       *)
LEMMA PickupStep ==
  ASSUME TypeOK, WaitInv, PortInv, NEW t \in Threads,
         Pickup(t)
  PROVE  TypeOK' /\ WaitInv' /\ PortInv'
<1> USE DEF Pickup, OffChain, NoCall, queues, ports
<1>3. TypeOK'
  BY LpcAssumption DEF TypeOK, Ports, Queues, RundownPort
<1>4. ASSUME NEW s \in Threads, NEW u \in Threads
      PROVE  Signals(s, u)' <=> Signals(s, u)
  BY LpcAssumption DEF TypeOK, Signals, Ports, Queues
<1>5. ASSUME NEW u \in Threads PROVE Woken(u)' <=> Woken(u)
  BY <1>4 DEF TypeOK, Woken
<1>6. Placed'
  BY DEF TypeOK, WaitInv, Placed
<1>7. WokenOnce'
  BY <1>4 DEF TypeOK, WaitInv, WokenOnce, Woken
<1>8. Unanswered'
  BY <1>5 DEF TypeOK, WaitInv, Unanswered, AtRest, Expectless
<1>9. AtRest'
  BY <1>5 DEF TypeOK, WaitInv, AtRest, Expectless, Placed
<1>10. MessageDue'
  BY DEF TypeOK, WaitInv, MessageDue, Unanswered, AtRest, Expectless, Placed
<1>11. Chained'
  BY DEF TypeOK, WaitInv, Chained, Placed, AtRest, Expectless, Ports, RundownPort
<1>12. Awaited'
  BY <1>5 DEF TypeOK, WaitInv, Awaited, Placed, Ports, RundownPort
<1>13. PortsPaired'
  BY DEF TypeOK, PortInv, PortsPaired, Ports, RundownPort
<1>14. NotDeletedInUse'
  BY LpcAssumption DEF TypeOK, PortInv, NotDeletedInUse, Datagram, Ports, Queues
<1> QED BY <1>3, <1>6, <1>7, <1>8, <1>9, <1>10, <1>11, <1>12, <1>13, <1>14 DEF WaitInv, PortInv

(* The thread goes to wait for a message.                                     *)
LEMMA NtReplyWaitReceivePortStep ==
  ASSUME TypeOK, WaitInv, PortInv, NEW t \in Threads,
         NtReplyWaitReceivePort(t)
  PROVE  TypeOK' /\ WaitInv' /\ PortInv'
<1> USE DEF NtReplyWaitReceivePort, waits, queues, ports
<1>3. TypeOK'
  BY LpcAssumption DEF TypeOK, Ports, Queues, RundownPort
<1>4. ASSUME NEW s \in Threads, NEW u \in Threads
      PROVE  Signals(s, u)' <=> Signals(s, u)
  BY LpcAssumption DEF TypeOK, Signals, Ports, Queues
<1>5. ASSUME NEW u \in Threads PROVE Woken(u)' <=> Woken(u)
  BY <1>4 DEF TypeOK, Woken
<1>6. Placed'
  BY DEF TypeOK, WaitInv, Placed
<1>7. WokenOnce'
  BY <1>4 DEF TypeOK, WaitInv, WokenOnce, Woken
<1>8. Unanswered'
  BY <1>5 DEF TypeOK, WaitInv, Unanswered, AtRest, Expectless
<1>9. AtRest'
  BY <1>5 DEF TypeOK, WaitInv, AtRest, Expectless, Placed
<1>10. MessageDue'
  BY DEF TypeOK, WaitInv, MessageDue, Unanswered, AtRest, Expectless, Placed
<1>11. Chained'
  BY DEF TypeOK, WaitInv, Chained, Placed, AtRest, Expectless, Ports, RundownPort
<1>12. Awaited'
  BY <1>5 DEF TypeOK, WaitInv, Awaited, Placed, Ports, RundownPort
<1>13. PortsPaired'
  BY DEF TypeOK, PortInv, PortsPaired, Ports, RundownPort
<1>14. NotDeletedInUse'
  BY LpcAssumption DEF TypeOK, PortInv, NotDeletedInUse, Datagram, Ports, Queues
<1> QED BY <1>3, <1>6, <1>7, <1>8, <1>9, <1>10, <1>11, <1>12, <1>13, <1>14 DEF WaitInv, PortInv

(* The wait for a message ends.                                               *)
LEMMA ReceiveWaitStep ==
  ASSUME TypeOK, WaitInv, PortInv, NEW t \in Threads,
         ReceiveWait(t)
  PROVE  TypeOK' /\ WaitInv' /\ PortInv'
<1> USE DEF ReceiveWait, waits, NoCall, ports
<1>3. TypeOK'
  BY LpcAssumption DEF TypeOK, Ports, Queues, RundownPort
<1>4. ASSUME NEW s \in Threads, NEW u \in Threads
      PROVE  Signals(s, u)' <=> Signals(s, u)
  BY LpcAssumption DEF TypeOK, Signals, Ports, Queues
<1>5. ASSUME NEW u \in Threads PROVE Woken(u)' <=> Woken(u)
  BY <1>4 DEF TypeOK, Woken
<1>6. Placed'
  BY DEF TypeOK, WaitInv, Placed
<1>7. WokenOnce'
  BY <1>4 DEF TypeOK, WaitInv, WokenOnce, Woken
<1>8. Unanswered'
  BY <1>5 DEF TypeOK, WaitInv, Unanswered, AtRest, Expectless
<1>9. AtRest'
  BY <1>5 DEF TypeOK, WaitInv, AtRest, Expectless, Placed
<1>10. MessageDue'
  BY DEF TypeOK, WaitInv, MessageDue, Unanswered, AtRest, Expectless, Placed
<1>11. Chained'
  BY DEF TypeOK, WaitInv, Chained, Placed, AtRest, Expectless, Ports, RundownPort
<1>12. Awaited'
  BY <1>5 DEF TypeOK, WaitInv, Awaited, Placed, Ports, RundownPort
<1>13. PortsPaired'
  BY DEF TypeOK, PortInv, PortsPaired, Ports, RundownPort
<1>14. NotDeletedInUse'
  BY LpcAssumption DEF TypeOK, PortInv, NotDeletedInUse, Datagram, Ports, Queues
<1> QED BY <1>3, <1>6, <1>7, <1>8, <1>9, <1>10, <1>11, <1>12, <1>13, <1>14 DEF WaitInv, PortInv

(* The message, if any, is received.                                          *)
LEMMA DequeueStep ==
  ASSUME TypeOK, WaitInv, PortInv, NEW t \in Threads,
         Dequeue(t)
  PROVE  TypeOK' /\ WaitInv' /\ PortInv'
<1> USE DEF Dequeue, waits, NoCall, ports
<1>3. TypeOK'
  BY LpcAssumption DEF TypeOK, Ports, Queues, RundownPort
<1>4. ASSUME NEW s \in Threads, NEW u \in Threads
      PROVE  Signals(s, u)' <=> Signals(s, u)
  BY LpcAssumption DEF TypeOK, Signals, Ports, Queues
<1>5. ASSUME NEW u \in Threads PROVE Woken(u)' <=> Woken(u)
  BY <1>4 DEF TypeOK, Woken
<1>6. Placed'
  BY DEF TypeOK, WaitInv, Placed
<1>7. WokenOnce'
  BY <1>4 DEF TypeOK, WaitInv, WokenOnce, Woken
<1>8. Unanswered'
  BY <1>5 DEF TypeOK, WaitInv, Unanswered, AtRest, Expectless
<1>9. AtRest'
  BY <1>5 DEF TypeOK, WaitInv, AtRest, Expectless, Placed
<1>10. MessageDue'
  BY DEF TypeOK, WaitInv, MessageDue, Unanswered, AtRest, Expectless, Placed
<1>11. Chained'
  BY DEF TypeOK, WaitInv, Chained, Placed, AtRest, Expectless, Ports, RundownPort
<1>12. Awaited'
  BY <1>5 DEF TypeOK, WaitInv, Awaited, Placed, Ports, RundownPort
<1>13. PortsPaired'
  BY DEF TypeOK, PortInv, PortsPaired, Ports, RundownPort
<1>14. NotDeletedInUse'
  BY LpcAssumption DEF TypeOK, PortInv, NotDeletedInUse, Datagram, Ports, Queues
<1> QED BY <1>3, <1>6, <1>7, <1>8, <1>9, <1>10, <1>11, <1>12, <1>13, <1>14 DEF WaitInv, PortInv

(* The thread leaves the chains and waits for nothing.                        *)
LEMMA LpcExitThreadStep ==
  ASSUME TypeOK, WaitInv, PortInv, NEW t \in Threads,
         LpcExitThread(t)
  PROVE  TypeOK' /\ WaitInv' /\ PortInv'
<1> USE DEF LpcExitThread, OffChain, queues, ports
<1>3. TypeOK'
  BY LpcAssumption DEF TypeOK, Ports, Queues, RundownPort
<1>4. ASSUME NEW s \in Threads, NEW u \in Threads
      PROVE  Signals(s, u)' <=> Signals(s, u)
  BY LpcAssumption DEF TypeOK, Signals, Ports, Queues
<1>5. ASSUME NEW u \in Threads PROVE Woken(u)' <=> Woken(u)
  BY <1>4 DEF TypeOK, Woken
<1>6. Placed'
  BY DEF TypeOK, WaitInv, Placed
<1>7. WokenOnce'
  BY <1>4 DEF TypeOK, WaitInv, WokenOnce, Woken
<1>8. Unanswered'
  BY <1>5 DEF TypeOK, WaitInv, Unanswered, AtRest, Expectless
<1>9. AtRest'
  BY <1>5 DEF TypeOK, WaitInv, AtRest, Expectless, Placed
<1>10. MessageDue'
  BY DEF TypeOK, WaitInv, MessageDue, Unanswered, AtRest, Expectless, Placed
<1>11. Chained'
  BY DEF TypeOK, WaitInv, Chained, Placed, AtRest, Expectless, Ports, RundownPort
<1>12. Awaited'
  BY <1>5 DEF TypeOK, WaitInv, Awaited, Placed, Ports, RundownPort
<1>13. PortsPaired'
  BY DEF TypeOK, PortInv, PortsPaired, Ports, RundownPort
<1>14. NotDeletedInUse'
  BY LpcAssumption DEF TypeOK, PortInv, NotDeletedInUse, Datagram, Ports, Queues
<1> QED BY <1>3, <1>6, <1>7, <1>8, <1>9, <1>10, <1>11, <1>12, <1>13, <1>14 DEF WaitInv, PortInv

(* The last handle of the connection port is closed: the threads on its chain *)
(* are woken.                                                                 *)
LEMMA LpcpClosePortStep ==
  ASSUME TypeOK, WaitInv, PortInv, LpcpClosePort
  PROVE  TypeOK' /\ WaitInv' /\ PortInv'
<1> USE DEF LpcpClosePort, LpcpDestroyPortQueue, ports
<1>1. \A u \in chain["conn"] : u \in Threads /\ LpcReplySemaphore[u] = 0 /\ LpcReplyMessageId[u] # 0
                        /\ \A s \in Threads : ~Signals(s, u)
  BY LpcAssumption DEF TypeOK, WaitInv, Woken, Unanswered, Chained, Ports
<1>3. TypeOK'
  BY <1>1, LpcAssumption DEF TypeOK, Ports, Queues, RundownPort
<1>4. ASSUME NEW s \in Threads, NEW u \in Threads
      PROVE  Signals(s, u)' <=> Signals(s, u)
  BY <1>1, LpcAssumption DEF TypeOK, Signals, Ports, Queues
<1>5. ASSUME NEW u \in Threads PROVE Woken(u)' <=> Woken(u) \/ u \in chain["conn"]
  BY <1>1, <1>4 DEF TypeOK, Woken
<1>6. Placed'
  BY <1>1 DEF TypeOK, WaitInv, Placed
<1>7. WokenOnce'
  BY <1>1, <1>4 DEF TypeOK, WaitInv, WokenOnce, Woken
<1>8. Unanswered'
  BY <1>1, <1>5 DEF TypeOK, WaitInv, Unanswered, AtRest, Expectless
<1>9. AtRest'
  BY <1>1, <1>5 DEF TypeOK, WaitInv, AtRest, Expectless, Placed
<1>10. MessageDue'
  BY <1>1 DEF TypeOK, WaitInv, MessageDue, Unanswered, AtRest, Expectless, Placed
<1>11. Chained'
  BY <1>1 DEF TypeOK, WaitInv, Chained, Placed, AtRest, Expectless, Ports, RundownPort
<1>12. Awaited'
  BY <1>1, <1>5 DEF TypeOK, WaitInv, Awaited, Placed, Ports, RundownPort
<1>13. PortsPaired'
  BY <1>1 DEF TypeOK, PortInv, PortsPaired, Ports, RundownPort
<1>14. NotDeletedInUse'
  BY <1>1, LpcAssumption DEF TypeOK, PortInv, NotDeletedInUse, Datagram, Ports, Queues
<1> QED BY <1>3, <1>6, <1>7, <1>8, <1>9, <1>10, <1>11, <1>12, <1>13, <1>14 DEF WaitInv, PortInv

(* A port that nobody references begins to go away.                           *)
LEMMA ObDereferenceObjectStep ==
  ASSUME TypeOK, WaitInv, PortInv, NEW p \in Ports,
         ObDereferenceObject(p)
  PROVE  TypeOK' /\ WaitInv' /\ PortInv'
<1> USE DEF ObDereferenceObject, Unreferenced, waits, queues, ports
<1>3. TypeOK'
  BY LpcAssumption DEF TypeOK, Ports, Queues, RundownPort
<1>4. ASSUME NEW s \in Threads, NEW u \in Threads
      PROVE  Signals(s, u)' <=> Signals(s, u)
  BY LpcAssumption DEF TypeOK, Signals, Ports, Queues
<1>5. ASSUME NEW u \in Threads PROVE Woken(u)' <=> Woken(u)
  BY <1>4 DEF TypeOK, Woken
<1>6. Placed'
  BY DEF TypeOK, WaitInv, Placed
<1>7. WokenOnce'
  BY <1>4 DEF TypeOK, WaitInv, WokenOnce, Woken
<1>8. Unanswered'
  BY <1>5 DEF TypeOK, WaitInv, Unanswered, AtRest, Expectless
<1>9. AtRest'
  BY <1>5 DEF TypeOK, WaitInv, AtRest, Expectless, Placed
<1>10. MessageDue'
  BY DEF TypeOK, WaitInv, MessageDue, Unanswered, AtRest, Expectless, Placed
<1>11. Chained'
  BY DEF TypeOK, WaitInv, Chained, Placed, AtRest, Expectless, Ports, RundownPort
<1>12. Awaited'
  BY <1>5 DEF TypeOK, WaitInv, Awaited, Placed, Ports, RundownPort
<1>13. PortsPaired'
  BY DEF TypeOK, PortInv, PortsPaired, Ports, RundownPort
<1>14. NotDeletedInUse'
  BY LpcAssumption DEF TypeOK, PortInv, NotDeletedInUse, Datagram, Ports, Queues
<1> QED BY <1>3, <1>6, <1>7, <1>8, <1>9, <1>10, <1>11, <1>12, <1>13, <1>14 DEF WaitInv, PortInv

(* The server is told of the client port's end.                               *)
LEMMA SendPortClosedStep ==
  ASSUME TypeOK, WaitInv, PortInv, SendPortClosed
  PROVE  TypeOK' /\ WaitInv' /\ PortInv'
<1> USE DEF SendPortClosed, waits, GenerateMessageId, Enqueue, ports
<1>3. TypeOK'
  BY LpcAssumption DEF TypeOK, Ports, Queues, RundownPort
<1>4. ASSUME NEW s \in Threads, NEW u \in Threads
      PROVE  Signals(s, u)' <=> Signals(s, u)
  BY LpcAssumption DEF TypeOK, Signals, Ports, Queues
<1>5. ASSUME NEW u \in Threads PROVE Woken(u)' <=> Woken(u)
  BY <1>4 DEF TypeOK, Woken
<1>6. Placed'
  BY DEF TypeOK, WaitInv, Placed
<1>7. WokenOnce'
  BY <1>4 DEF TypeOK, WaitInv, WokenOnce, Woken
<1>8. Unanswered'
  BY <1>5 DEF TypeOK, WaitInv, Unanswered, AtRest, Expectless
<1>9. AtRest'
  BY <1>5 DEF TypeOK, WaitInv, AtRest, Expectless, Placed
<1>10. MessageDue'
  BY DEF TypeOK, WaitInv, MessageDue, Unanswered, AtRest, Expectless, Placed
<1>11. Chained'
  BY DEF TypeOK, WaitInv, Chained, Placed, AtRest, Expectless, Ports, RundownPort
<1>12. Awaited'
  BY <1>5 DEF TypeOK, WaitInv, Awaited, Placed, Ports, RundownPort
<1>13. PortsPaired'
  BY DEF TypeOK, PortInv, PortsPaired, Ports, RundownPort
<1>14. NotDeletedInUse'
  BY LpcAssumption DEF TypeOK, PortInv, NotDeletedInUse, Datagram, Ports, Queues
<1> QED BY <1>3, <1>6, <1>7, <1>8, <1>9, <1>10, <1>11, <1>12, <1>13, <1>14 DEF WaitInv, PortInv

(* The notice is signalled.                                                   *)
LEMMA SignalPortClosedStep ==
  ASSUME TypeOK, WaitInv, PortInv, SignalPortClosed
  PROVE  TypeOK' /\ WaitInv' /\ PortInv'
<1> USE DEF SignalPortClosed, waits, ports
<1>3. TypeOK'
  BY LpcAssumption DEF TypeOK, Ports, Queues, RundownPort
<1>4. ASSUME NEW s \in Threads, NEW u \in Threads
      PROVE  Signals(s, u)' <=> Signals(s, u)
  BY LpcAssumption DEF TypeOK, Signals, Ports, Queues
<1>5. ASSUME NEW u \in Threads PROVE Woken(u)' <=> Woken(u)
  BY <1>4 DEF TypeOK, Woken
<1>6. Placed'
  BY DEF TypeOK, WaitInv, Placed
<1>7. WokenOnce'
  BY <1>4 DEF TypeOK, WaitInv, WokenOnce, Woken
<1>8. Unanswered'
  BY <1>5 DEF TypeOK, WaitInv, Unanswered, AtRest, Expectless
<1>9. AtRest'
  BY <1>5 DEF TypeOK, WaitInv, AtRest, Expectless, Placed
<1>10. MessageDue'
  BY DEF TypeOK, WaitInv, MessageDue, Unanswered, AtRest, Expectless, Placed
<1>11. Chained'
  BY DEF TypeOK, WaitInv, Chained, Placed, AtRest, Expectless, Ports, RundownPort
<1>12. Awaited'
  BY <1>5 DEF TypeOK, WaitInv, Awaited, Placed, Ports, RundownPort
<1>13. PortsPaired'
  BY DEF TypeOK, PortInv, PortsPaired, Ports, RundownPort
<1>14. NotDeletedInUse'
  BY LpcAssumption DEF TypeOK, PortInv, NotDeletedInUse, Datagram, Ports, Queues
<1> QED BY <1>3, <1>6, <1>7, <1>8, <1>9, <1>10, <1>11, <1>12, <1>13, <1>14 DEF WaitInv, PortInv

(* The threads on the port's chain are woken, and the other port is           *)
(* disconnected.                                                              *)
LEMMA LpcpDeletePortStep ==
  ASSUME TypeOK, WaitInv, PortInv, NEW p \in Ports,
         LpcpDeletePort(p)
  PROVE  TypeOK' /\ WaitInv' /\ PortInv'
<1> USE DEF LpcpDeletePort, LpcpDestroyPortQueue, ports
<1>1. \A u \in chain[p] : u \in Threads /\ LpcReplySemaphore[u] = 0 /\ LpcReplyMessageId[u] # 0
                        /\ \A s \in Threads : ~Signals(s, u)
  BY LpcAssumption DEF TypeOK, WaitInv, Woken, Unanswered, Chained, Ports
<1>3. TypeOK'
  BY <1>1, LpcAssumption DEF TypeOK, Ports, Queues, RundownPort
<1>4. ASSUME NEW s \in Threads, NEW u \in Threads
      PROVE  Signals(s, u)' <=> Signals(s, u)
  BY <1>1, LpcAssumption DEF TypeOK, Signals, Ports, Queues
<1>5. ASSUME NEW u \in Threads PROVE Woken(u)' <=> Woken(u) \/ u \in chain[p]
  BY <1>1, <1>4 DEF TypeOK, Woken
<1>6. Placed'
  BY <1>1 DEF TypeOK, WaitInv, Placed
<1>7. WokenOnce'
  BY <1>1, <1>4 DEF TypeOK, WaitInv, WokenOnce, Woken
<1>8. Unanswered'
  BY <1>1, <1>5 DEF TypeOK, WaitInv, Unanswered, AtRest, Expectless
<1>9. AtRest'
  BY <1>1, <1>5 DEF TypeOK, WaitInv, AtRest, Expectless, Placed
<1>10. MessageDue'
  BY <1>1 DEF TypeOK, WaitInv, MessageDue, Unanswered, AtRest, Expectless, Placed
<1>11. Chained'
  BY <1>1 DEF TypeOK, WaitInv, Chained, Placed, AtRest, Expectless, Ports, RundownPort
<1>12. Awaited'
  BY <1>1, <1>5 DEF TypeOK, WaitInv, Awaited, Placed, Ports, RundownPort
<1>13. PortsPaired'
  BY <1>1 DEF TypeOK, PortInv, PortsPaired, Ports, RundownPort
<1>14. NotDeletedInUse'
  BY <1>1, LpcAssumption DEF TypeOK, PortInv, NotDeletedInUse, Datagram, Ports, Queues
<1> QED BY <1>3, <1>6, <1>7, <1>8, <1>9, <1>10, <1>11, <1>12, <1>13, <1>14 DEF WaitInv, PortInv

-----------------------------------------------------------------------------
(* The queue and its semaphore.                                               *)

(* A thread more or less in a set of threads changes its size by one.         *)
LEMMA OneThread ==
  ASSUME NEW S \in SUBSET Threads, NEW t \in Threads
  PROVE  /\ Cardinality(S) \in Nat
         /\ t \notin S => Cardinality(S \cup {t}) = Cardinality(S) + 1
         /\ t \in S => Cardinality(S \ {t}) = Cardinality(S) - 1
<1>1. IsFiniteSet(Threads)
  BY LpcAssumption
<1>2. IsFiniteSet(S) /\ Cardinality(S) \in Nat
  BY <1>1, FS_Subset, FS_CardinalityType
<1>3. t \notin S => Cardinality(S \cup {t}) = Cardinality(S) + 1
  BY <1>2, FS_AddElement
<1>4. t \in S => Cardinality(S \ {t}) = Cardinality(S) - 1
  BY <1>2, FS_RemoveElement
<1> QED BY <1>2, <1>3, <1>4

(* Who queues a message releases the semaphore, and who takes a unit of it    *)
(* takes a message, if there is one.                                          *)
LEMMA QueueStep ==
  ASSUME TypeOK, WaitInv, TypeOK', QueuesCovered, Next, NEW q \in Queues
  PROVE  Covered(q)'
<1> USE DEF ports, waits, queues
<1>1. /\ Dequeuing(q) \in SUBSET Threads /\ Queueing(q) \in SUBSET Threads
      /\ Cardinality(Dequeuing(q)) \in Nat /\ Cardinality(Queueing(q)) \in Nat
  <2>1. Dequeuing(q) \in SUBSET Threads /\ Queueing(q) \in SUBSET Threads
    BY DEF Dequeuing, Queueing
  <2>2. Dequeuing(q) = {} => Cardinality(Dequeuing(q)) \in Nat
    BY FS_EmptySet
  <2>3. Queueing(q) = {} => Cardinality(Queueing(q)) \in Nat
    BY FS_EmptySet
  <2> QED BY <2>1, <2>2, <2>3, OneThread
<1>2. queue[q] \in Nat /\ qsem[q] \in Nat /\ Closing(q) \in Nat
  BY DEF TypeOK, Closing
<1>3. queue[q] <= qsem[q] + Cardinality(Dequeuing(q)) + Cardinality(Queueing(q)) + Closing(q)
  BY DEF QueuesCovered, Covered
<1>4. ASSUME Dequeuing(q)' = Dequeuing(q), Queueing(q)' = Queueing(q), Closing(q)' = Closing(q),
             queue'[q] = queue[q], qsem'[q] = qsem[q]
      PROVE  Covered(q)'
  BY <1>3, <1>4 DEF Covered
<1>5. ASSUME NEW t \in Threads, NtRequestPort(t) \/ NtRequestWaitReplyPort(t)
      PROVE  Covered(q)'
  <2> DEFINE here == QueuePort(call[t].port)
  <2>0. Dequeuing(q)' = Dequeuing(q)
    BY <1>5 DEF NtRequestPort, NtRequestWaitReplyPort, ThenSignal, TypeOK, Dequeuing
  <2>1. Dequeuing(q)' = Dequeuing(q) /\ Closing(q)' = Closing(q) /\ qsem' = qsem /\ here \in Queues
    BY <1>5, <2>0 DEF NtRequestPort, NtRequestWaitReplyPort, Closing, QueuePort, Queues
  <2>2. CASE q = here
    <3>1. Queueing(q)' = Queueing(q) \cup {t} /\ t \notin Queueing(q) /\ queue'[q] = queue[q] + 1
      BY <1>5, <2>1, <2>2 DEF NtRequestPort, NtRequestWaitReplyPort, Enqueue, ThenSignal, TypeOK, Queueing
    <3>2. Cardinality(Queueing(q)') = Cardinality(Queueing(q)) + 1
      BY <1>1, <3>1, OneThread
    <3> QED BY <1>1, <1>2, <1>3, <2>1, <3>1, <3>2 DEF Covered
  <2>3. CASE q # here
    <3>1. Queueing(q)' = Queueing(q) /\ queue'[q] = queue[q]
      BY <1>5, <2>1, <2>3 DEF NtRequestPort, NtRequestWaitReplyPort, Enqueue, ThenSignal, TypeOK, Queueing
    <3> QED BY <1>4, <2>1, <3>1
  <2> QED BY <2>2, <2>3
<1>6. ASSUME NEW t \in Threads, NEW w \in Threads, NEW id \in 1..MaxId,
             \/ Callback(t, w, id) \/ NtReplyWaitReplyPort(t, w, id)
             \/ \E then \in {"user", "receive"} : NtReplyPort(t, w, id, then)
      PROVE  Covered(q)'
  <2>1. Dequeuing(q)' = Dequeuing(q)
    BY <1>6 DEF Callback, NtReplyWaitReplyPort, NtReplyPort, ThenSignal, TypeOK, Dequeuing
  <2>2. Queueing(q)' = Queueing(q)
    BY <1>6, LpcAssumption DEF Callback, NtReplyWaitReplyPort, NtReplyPort, ThenSignal, TypeOK, Queueing,
       Queues, Ports
  <2>3. UNCHANGED <<queue, qsem, port>>
    BY <1>6 DEF Callback, NtReplyWaitReplyPort, NtReplyPort
  <2> QED BY <1>4, <2>1, <2>2, <2>3 DEF Closing
<1>7. ASSUME NEW t \in Threads, KeReleaseSemaphore(t)
      PROVE  Covered(q)'
  <2>1. Dequeuing(q)' = Dequeuing(q) /\ Closing(q)' = Closing(q) /\ UNCHANGED queue
    BY <1>7 DEF KeReleaseSemaphore, NoCall, TypeOK, Dequeuing, Closing
  <2>2. CASE call[t].target = q
    <3>1. Queueing(q)' = Queueing(q) \ {t} /\ t \in Queueing(q)
      BY <1>7, <2>2, LpcAssumption DEF KeReleaseSemaphore, NoCall, TypeOK, Queueing, Queues, Ports
    <3>2. qsem'[q] = qsem[q] + 1
      BY <1>7, <2>2, LpcAssumption DEF KeReleaseSemaphore, TypeOK, Queues, Ports
    <3>3. Cardinality(Queueing(q)') = Cardinality(Queueing(q)) - 1
      BY <1>1, <3>1, OneThread
    <3> QED BY <1>1, <1>2, <1>3, <2>1, <3>1, <3>2, <3>3 DEF Covered
  <2>3. CASE call[t].target # q
    <3>1. Queueing(q)' = Queueing(q) /\ qsem'[q] = qsem[q]
      BY <1>7, <2>3 DEF KeReleaseSemaphore, NoCall, TypeOK, Queueing
    <3> QED BY <1>4, <2>1, <3>1
  <2> QED BY <2>2, <2>3
<1>8. ASSUME NEW t \in Threads,
             \/ WaitSatisfied(t) \/ WaitBroken(t) \/ ReadStateSemaphore(t) \/ Pickup(t)
             \/ NtReplyWaitReceivePort(t) \/ LpcExitThread(t) \/ CallFails(t)
             \/ \E p \in Ports : LpcpReferencePortObject(t, p)
      PROVE  Covered(q)'
  <2>1. Dequeuing(q)' = Dequeuing(q) /\ Queueing(q)' = Queueing(q)
    BY <1>8 DEF WaitSatisfied, WaitBroken, ReadStateSemaphore, Pickup, NtReplyWaitReceivePort,
       LpcExitThread, CallFails, LpcpReferencePortObject, NoCall, Waits, TypeOK, Dequeuing, Queueing
  <2>2. UNCHANGED <<queue, qsem, port>>
    BY <1>8 DEF WaitSatisfied, WaitBroken, ReadStateSemaphore, Pickup, NtReplyWaitReceivePort,
       LpcExitThread, CallFails, LpcpReferencePortObject
  <2> QED BY <1>4, <2>1, <2>2 DEF Closing
<1>9. ASSUME NEW t \in Threads, ReceiveWait(t)
      PROVE  Covered(q)'
  <2> DEFINE here == ReceivePort(call[t].port)
  <2>1. Queueing(q)' = Queueing(q) /\ Closing(q)' = Closing(q) /\ UNCHANGED queue /\ here \in Queues
    BY <1>9 DEF ReceiveWait, NoCall, TypeOK, Queueing, Closing, ReceivePort, Queues
  <2>2. CASE q = here /\ qsem[q] > 0
    <3>1. Dequeuing(q)' = Dequeuing(q) \cup {t} /\ t \notin Dequeuing(q)
      BY <1>9, <2>2 DEF ReceiveWait, TypeOK, Dequeuing
    <3>2. qsem'[q] = qsem[q] - 1
      BY <1>9, <2>1, <2>2 DEF ReceiveWait, TypeOK
    <3>3. Cardinality(Dequeuing(q)') = Cardinality(Dequeuing(q)) + 1
      BY <1>1, <3>1, OneThread
    <3> QED BY <1>1, <1>2, <1>3, <2>1, <3>1, <3>2, <3>3 DEF Covered
  <2>3. CASE ~(q = here /\ qsem[q] > 0)
    <3>1. Dequeuing(q)' = Dequeuing(q) /\ qsem'[q] = qsem[q]
      BY <1>9, <2>1, <2>3 DEF ReceiveWait, NoCall, TypeOK, Dequeuing
    <3> QED BY <1>4, <2>1, <3>1
  <2> QED BY <2>2, <2>3
<1>10. ASSUME NEW t \in Threads, Dequeue(t)
       PROVE  Covered(q)'
  <2> DEFINE here == ReceivePort(call[t].port)
  <2>1. Queueing(q)' = Queueing(q) /\ Closing(q)' = Closing(q) /\ UNCHANGED qsem /\ here \in Queues
    BY <1>10 DEF Dequeue, NoCall, TypeOK, Queueing, Closing, ReceivePort, Queues
  <2>2. CASE q = here
    <3>1. Dequeuing(q)' = Dequeuing(q) \ {t} /\ t \in Dequeuing(q)
      BY <1>10, <2>2 DEF Dequeue, NoCall, TypeOK, Dequeuing
    <3>2. queue'[q] = IF queue[q] = 0 THEN 0 ELSE queue[q] - 1
      BY <1>10, <2>1, <2>2 DEF Dequeue, TypeOK
    <3>3. Cardinality(Dequeuing(q)') = Cardinality(Dequeuing(q)) - 1
      BY <1>1, <3>1, OneThread
    <3>4. Cardinality(Dequeuing(q)') \in Nat
      BY <1>1, <3>1, OneThread
    <3> QED BY <1>1, <1>2, <1>3, <2>1, <3>2, <3>3, <3>4 DEF Covered
  <2>3. CASE q # here
    <3>1. Dequeuing(q)' = Dequeuing(q) /\ queue'[q] = queue[q]
      BY <1>10, <2>1, <2>3 DEF Dequeue, NoCall, TypeOK, Dequeuing
    <3> QED BY <1>4, <2>1, <3>1
  <2> QED BY <2>2, <2>3
<1>11. ASSUME UNCHANGED <<pc, call>>
       PROVE  Dequeuing(q)' = Dequeuing(q) /\ Queueing(q)' = Queueing(q)
  BY <1>11 DEF Dequeuing, Queueing
<1>12. CASE SendPortClosed
  <2>1. \/ queue'[q] = queue[q] + 1 /\ qsem' = qsem /\ Closing(q) = 0 /\ Closing(q)' = 1
        \/ queue'[q] = queue[q] /\ qsem' = qsem /\ Closing(q) = 0 /\ Closing(q)' = 0
    BY <1>12 DEF SendPortClosed, Enqueue, TypeOK, Ports, Queues, Closing
  <2>2. UNCHANGED <<pc, call>>
    BY <1>12 DEF SendPortClosed
  <2> QED BY <1>1, <1>2, <1>3, <1>11, <2>1, <2>2 DEF Covered
<1>13. CASE SignalPortClosed
  <2>1. \/ queue' = queue /\ qsem'[q] = qsem[q] + 1 /\ Closing(q) = 1 /\ Closing(q)' = 0
        \/ queue' = queue /\ qsem'[q] = qsem[q] /\ Closing(q) = 0 /\ Closing(q)' = 0
    BY <1>13 DEF SignalPortClosed, TypeOK, Ports, Queues, Closing
  <2>2. UNCHANGED <<pc, call>>
    BY <1>13 DEF SignalPortClosed
  <2> QED BY <1>1, <1>2, <1>3, <1>11, <2>1, <2>2 DEF Covered
<1>14. ASSUME NEW p \in Ports, ObDereferenceObject(p) \/ LpcpDeletePort(p) \/ LpcpClosePort
       PROVE  Covered(q)'
  <2>1. queue'[q] <= queue[q] /\ queue'[q] \in Nat /\ qsem' = qsem /\ UNCHANGED <<pc, call>>
    BY <1>14, <1>2 DEF ObDereferenceObject, LpcpDeletePort, LpcpClosePort, LpcpDestroyPortQueue, TypeOK
  <2>2. Closing(q)' = Closing(q)
    BY <1>14 DEF ObDereferenceObject, LpcpDeletePort, LpcpClosePort, TypeOK, Ports, Closing
  <2> QED BY <1>1, <1>2, <1>3, <1>11, <2>1, <2>2 DEF Covered
<1> QED BY <1>5, <1>6, <1>7, <1>8, <1>9, <1>10, <1>12, <1>13, <1>14 DEF Next, Ports

-----------------------------------------------------------------------------
(* The theorems.                                                              *)

(* No message exists at the start.                                            *)
LEMMA InitInv == Init => Inv
<1> SUFFICES ASSUME Init PROVE Inv
  OBVIOUS
<1>1. TypeOK
  BY LpcAssumption DEF Init, TypeOK, NoCall
<1>2. \A s, u \in Threads : ~Signals(s, u)
  BY DEF Init, Signals
<1>3. \A u \in Threads : ~Woken(u)
  BY <1>2 DEF Init, Woken
<1>4. WaitInv
  BY <1>2, <1>3 DEF Init, NoCall, WaitInv, Placed, WokenOnce, Unanswered, AtRest, MessageDue, Chained,
     Awaited, Expectless, Ports
<1>5. PortInv
  BY LpcAssumption DEF Init, NoCall, PortInv, PortsPaired, NotDeletedInUse, Datagram, Ports, RundownPort
<1>6. ASSUME NEW q \in Queues PROVE Covered(q)
  <2>1. Dequeuing(q) = {} /\ Queueing(q) = {}
    BY DEF Init, Dequeuing, Queueing
  <2>2. queue[q] = 0 /\ qsem[q] = 0 /\ Closing(q) = 0
    BY DEF Init, Ports, Closing
  <2> QED BY <2>1, <2>2, FS_EmptySet DEF Covered
<1> QED BY <1>1, <1>4, <1>5, <1>6 DEF Inv, QueuesCovered

(* Every step preserves the invariant.                                        *)
LEMMA NextInv == Inv /\ [Next]_vars => Inv'
<1>1. ASSUME Inv, Next PROVE Inv'
  <2>1. TypeOK /\ WaitInv /\ PortInv /\ QueuesCovered
    BY <1>1 DEF Inv
  <2>2. TypeOK' /\ WaitInv' /\ PortInv'
    BY <1>1, <2>1, LpcpReferencePortObjectStep, CallFailsStep, NtRequestPortStep,
       NtRequestWaitReplyPortStep, CallbackStep, NtReplyPortStep, NtReplyWaitReplyPortStep,
       KeReleaseSemaphoreStep, WaitSatisfiedStep, WaitBrokenStep, ReadStateSemaphoreStep, PickupStep,
       NtReplyWaitReceivePortStep, ReceiveWaitStep, DequeueStep, LpcExitThreadStep, SendPortClosedStep,
       SignalPortClosedStep, LpcpClosePortStep, ObDereferenceObjectStep, LpcpDeletePortStep DEF Next
  <2>3. QueuesCovered'
    BY <1>1, <2>1, <2>2, QueueStep DEF QueuesCovered
  <2> QED BY <2>2, <2>3 DEF Inv
<1>2. ASSUME Inv, UNCHANGED vars PROVE Inv'
  <2>1. TypeOK' /\ QueuesCovered'
    BY <1>2 DEF Inv, vars, TypeOK, QueuesCovered, Covered, Closing, Dequeuing, Queueing
  <2>2. Placed' /\ MessageDue' /\ Chained' /\ PortInv'
    BY <1>2 DEF Inv, vars, WaitInv, Placed, MessageDue, Chained, Expectless, PortInv, PortsPaired,
       NotDeletedInUse, Datagram
  <2>3. WokenOnce' /\ Unanswered' /\ AtRest' /\ Awaited'
    BY <1>2 DEF Inv, vars, WaitInv, WokenOnce, Unanswered, AtRest, Awaited, Expectless, Woken, Signals
  <2> QED BY <2>1, <2>2, <2>3 DEF Inv, WaitInv
<1> QED BY <1>1, <1>2

(* The invariant from which the other results follow.                         *)
THEOREM Invariance == Spec => []Inv
BY InitInv, NextInv, PTL DEF Spec

(* Types; in particular the semaphore of a thread never exceeds its limit of  *)
(* one: KeReleaseSemaphore in NtReplyPort and NtRequestWaitReplyPort does not *)
(* raise STATUS_SEMAPHORE_LIMIT_EXCEEDED.                                     *)
THEOREM TypeCorrect == Spec => []TypeOK
<1>1. Inv => TypeOK
  BY DEF Inv
<1> QED BY <1>1, Invariance, PTL

(* The reply a thread is given is to its own last request, whatever the other *)
(* threads answer, and is left with nobody who is not about to take it.       *)
THEOREM RepliesMatch == Spec => []ReplyMatches
<1>1. Inv => ReplyMatches
  BY DEF Inv, WaitInv, MessageDue, Expectless, ReplyMatches, InCall, TypeOK
<1> QED BY <1>1, Invariance, PTL

(* A thread that waits for a reply has been woken, or a reply or the rundown  *)
(* of the port whose chain it is on will wake it, over whichever port it      *)
(* called; every queued message has a unit of the semaphore.                  *)
THEOREM NoneStranded == Spec => []NobodyStranded
<1>1. ASSUME Inv PROVE NobodyStranded
  <2>1. ASSUME NEW t \in Threads, pc[t] = "wait", LpcReplySemaphore[t] = 0
        PROVE  \/ Signalling(t)
               \/ /\ LpcReplyMessageId[t] = req[t] /\ t \in chain[RundownPort(call[t].port)]
                  /\ port[RundownPort(call[t].port)] # "gone"
    BY <1>1, <2>1 DEF Inv, WaitInv, Placed, Awaited, Woken, Signals, Signalling
  <2>2. \A q \in Queues : Covered(q)
    BY <1>1 DEF Inv, QueuesCovered
  <2> QED BY <2>1, <2>2 DEF NobodyStranded, Covered, Closing
<1> QED BY <1>1, Invariance, PTL

(* The deletion of a port begins when no call and no datagram uses it, and    *)
(* none comes to use it any more: the test of PORT_DELETED in NtRequestPort   *)
(* and the reference it takes suffice.                                        *)
THEOREM PortsHeld == Spec => []NotDeletedInUse
<1>1. Inv => NotDeletedInUse
  BY DEF Inv, PortInv
<1> QED BY <1>1, Invariance, PTL
=============================================================================
