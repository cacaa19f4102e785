-------------------------------- MODULE Lpc --------------------------------
(* Requests and replies over an LPC connection: ntos/lpc/lpcsend.c,           *)
(* lpcreply.c, lpcrecv.c, lpcqueue.c and lpcclose.c.                          *)
(*                                                                            *)
(* One connection: the client port and the server port, which are connected   *)
(* to each other, and the connection port.  The client port and the           *)
(* connection port have a queue.  A thread sends over a port it has a handle  *)
(* of: its message is queued, and it waits on its own semaphore; any thread   *)
(* may answer it, or call it back, naming the thread and the message id.      *)
(* LpcpLock makes an action of each section under it; every                   *)
(* KeReleaseSemaphore comes after it and is one of its own.                   *)
(*                                                                            *)
(* The programs choose the thread and the message id they answer: any thread  *)
(* of either side may answer any message, again and again, or one it never    *)
(* received. Left out: connecting, unconnected ports, data information, the   *)
(* zone messages are allocated from, impersonation, the event of a waitable   *)
(* port, LpcReceivedMessageId, kept for debuggers. A thread whose wait is     *)
(* broken terminates and makes no other request: its process has no debug     *)
(* port (DbgkExitThread).  A semaphore that is released after it was freed    *)
(* (see SignalExists) is only counted; what its memory has become is left     *)
(* out.                                                                       *)
EXTENDS Naturals, FiniteSets

CONSTANTS
  Threads,
  Handles,   \* the ports each thread has a handle of
  MaxId,     \* bound on LpcpNextMessageId
  None

Ports == {"client", "server", "conn"}
Queues == {"client", "conn"}                  \* the ports with a MsgQueue

ASSUME LpcAssumption ==
  /\ IsFiniteSet(Threads) /\ Handles \in [Threads -> SUBSET Ports] /\ MaxId \in Nat
  /\ Ports \cap Threads = {} /\ None \notin Ports \cup Threads

(* Of a message sent over a port: the port it is queued at, and the port on   *)
(* whose chain its sender waits: the one at the other end; the connection     *)
(* port itself.                                                               *)
QueuePort(p) == IF p = "server" THEN "client" ELSE "conn"
RundownPortOther(p) == IF p = "server" THEN "client" ELSE "server" \* mutant: the other end, always
RundownPort(p) == CASE p = "client" -> "server" [] p = "server" -> "client" [] OTHER -> "conn"

(* Where a thread receives.                                                   *)
ReceivePort(p) == IF p = "client" THEN "client" ELSE "conn"

VARIABLES
  queue, qsem,    \* MsgQueue of a port: length of ReceiveHead; Semaphore
  ConnectedPort,  \* of each port: is it not NULL?
  port,           \* how far the deletion of each port is; past "closed" it has PORT_DELETED
  chain,          \* LpcReplyChainHead of each port
  LpcReplyMessageId, LpcReplyMessage, LpcReplySemaphore, \* of each thread
  pc,             \* where each thread is
  call,           \* its call: PortObject, whom it will signal, what it does then, how its wait ended
  req,            \* the id of its request, until it returns
  LpcpNextMessageId

queues == <<queue, qsem>>
waits == <<LpcReplyMessageId, LpcReplyMessage, LpcReplySemaphore>>
ports == <<ConnectedPort, port>>
vars == <<queue, qsem, ConnectedPort, port, chain, LpcReplyMessageId, LpcReplyMessage,
          LpcReplySemaphore, pc, call, req, LpcpNextMessageId>>

NoCall == [port |-> None, target |-> None, then |-> "user", status |-> "success"]

(* A new connection; all threads are in user mode.                            *)
Init ==
  /\ queue = [q \in Queues |-> 0] /\ qsem = [q \in Queues |-> 0]
  /\ ConnectedPort = [p \in Ports |-> p # "conn"]
  /\ port = [p \in Ports |-> "open"] /\ chain = [p \in Ports |-> {}]
  /\ LpcReplyMessageId = [t \in Threads |-> 0] /\ LpcReplyMessage = [t \in Threads |-> None]
  /\ LpcReplySemaphore = [t \in Threads |-> 0]
  /\ pc = [t \in Threads |-> "user"] /\ call = [t \in Threads |-> NoCall]
  /\ req = [t \in Threads |-> 0]
  /\ LpcpNextMessageId = 1

-----------------------------------------------------------------------------
(* A call begins: the port is referenced through its handle.                  *)
LpcpReferencePortObject(t, p) ==
  /\ pc[t] = "user" /\ p \in Handles[t] /\ port[p] = "open"
  /\ pc' = [pc EXCEPT ![t] = "entered"] /\ call' = [call EXCEPT ![t].port = p]
  /\ UNCHANGED <<queues, ports, chain, waits, req, LpcpNextMessageId>>

(* The call returns an error: a message too long, no memory, a thread or a    *)
(* message id that is not there, a port that is disconnected.                 *)
CallFails(t) ==
  /\ pc[t] = "entered"
  /\ pc' = [pc EXCEPT ![t] = "user"] /\ call' = [call EXCEPT ![t] = NoCall]
  /\ UNCHANGED <<queues, ports, chain, waits, req, LpcpNextMessageId>>

(* After the lock is released: signal somebody, then go on.                   *)
ThenSignal(t, target, then) ==
  /\ pc' = [pc EXCEPT ![t] = "signal"]
  /\ call' = [call EXCEPT ![t] = [port |-> @.port, target |-> target, then |-> then, status |-> "success"]]

OffChain(t) == chain' = [p \in Ports |-> chain[p] \ {t}]

-----------------------------------------------------------------------------
(* Sending.                                                                   *)

(* LpcpGenerateMessageId.                                                     *)
GenerateMessageId ==
  /\ LpcpNextMessageId <= MaxId
  /\ LpcpNextMessageId' = LpcpNextMessageId + 1

(* The connection port is not connected, and is sent over all the same.       *)
Connected(p) == p = "conn" \/ ConnectedPort[p]

Enqueue(q) == queue' = [queue EXCEPT ![q] = @ + 1]

(* Mutant: a port that is going away is referenced again.                     *)
NtRequestPortDeleted(t) ==
  LET p == call[t].port IN
  /\ pc[t] = "entered" /\ Connected(p)
  /\ GenerateMessageId /\ Enqueue(QueuePort(p))
  /\ LpcReplyMessageId' = [LpcReplyMessageId EXCEPT ![t] = 0]
  /\ ThenSignal(t, QueuePort(p), "user")
  /\ UNCHANGED <<qsem, ports, chain, LpcReplyMessage, LpcReplySemaphore, req>>

(* NtRequestPort: a datagram; nobody waits for a reply.  The connected port   *)
(* must not be going away.  The port it is queued at is referenced until the  *)
(* call returns.                                                              *)
NtRequestPort(t) ==
  LET p == call[t].port IN
  /\ pc[t] = "entered" /\ Connected(p) /\ (p # "conn" => port[RundownPort(p)] = "open")
  /\ GenerateMessageId /\ Enqueue(QueuePort(p))
  /\ LpcReplyMessageId' = [LpcReplyMessageId EXCEPT ![t] = 0]
  /\ ThenSignal(t, QueuePort(p), "user")
  /\ UNCHANGED <<qsem, ports, chain, LpcReplyMessage, LpcReplySemaphore, req>>

(* NtRequestWaitReplyPort: queue a request, and be found by the rundown of    *)
(* the port at the other end.  The port it is queued at is not referenced.    *)
NtRequestWaitReplyPort(t) ==
  LET p == call[t].port  id == LpcpNextMessageId IN
  /\ pc[t] = "entered" /\ Connected(p)
  /\ GenerateMessageId /\ Enqueue(QueuePort(p))
  /\ LpcReplyMessageId' = [LpcReplyMessageId EXCEPT ![t] = id]
  /\ LpcReplyMessage' = [LpcReplyMessage EXCEPT ![t] = None]
  /\ chain' = [chain EXCEPT ![RundownPort(p)] = @ \cup {t}]
  /\ req' = [req EXCEPT ![t] = id]
  /\ ThenSignal(t, QueuePort(p), "wait")
  /\ UNCHANGED <<qsem, ports, LpcReplySemaphore>>

(* Mutant: the message id is not looked at.                                   *)
IsWaitingForAny(w, id) == LpcReplyMessageId[w] # 0

(* Is the thread waiting for a reply to this message?                         *)
IsWaitingFor(w, id) ==
  /\ LpcReplyMessageId[w] = id
  /\ LpcReplyMessage[w] # None => LpcReplyMessage[w].type = "request"

(* Mutant: the thread waits on, for the same reply.                           *)
ReplyToKeepsId(w, id) ==
  /\ LpcReplyMessageId' = LpcReplyMessageId
  /\ LpcReplyMessage' = [LpcReplyMessage EXCEPT ![w] = [id |-> id, type |-> "reply"]]

(* The message goes to the thread, which no longer waits for one.             *)
ReplyTo(w, id) ==
  /\ LpcReplyMessageId' = [LpcReplyMessageId EXCEPT ![w] = 0]
  /\ LpcReplyMessage' = [LpcReplyMessage EXCEPT ![w] = [id |-> id, type |-> "reply"]]

(* NtRequestWaitReplyPort with a message of type LPC_REQUEST: call back the   *)
(* thread that waits for a reply to this message, under its message id.       *)
Callback(t, w, id) ==
  LET p == call[t].port IN
  /\ pc[t] = "entered" /\ IsWaitingFor(w, id) /\ Connected(p)
  /\ LpcReplyMessageId' = [LpcReplyMessageId EXCEPT ![w] = 0, ![t] = id]
  /\ LpcReplyMessage' = [LpcReplyMessage EXCEPT ![w] = [id |-> id, type |-> "request"],
                                                ![t] = None]
  /\ chain' = [r \in Ports |-> (chain[r] \ {w}) \cup (IF r = RundownPort(p) THEN {t} ELSE {})]
  /\ req' = [req EXCEPT ![t] = id]
  /\ ThenSignal(t, w, "wait")
  /\ UNCHANGED <<queues, ports, LpcReplySemaphore, LpcpNextMessageId>>

-----------------------------------------------------------------------------
(* Replying.  then: NtReplyPort returns; NtReplyWaitReceivePort receives.     *)

NtReplyPort(t, w, id, then) ==
  /\ pc[t] = "entered" /\ IsWaitingFor(w, id) /\ ReplyTo(w, id)
  /\ OffChain(w)
  /\ ThenSignal(t, w, then)
  /\ UNCHANGED <<queues, ports, LpcReplySemaphore, req, LpcpNextMessageId>>

(* NtReplyWaitReplyPort: reply, and wait for the reply to the message that    *)
(* was being answered.  The caller is on no chain.                            *)
NtReplyWaitReplyPort(t, w, id) ==
  /\ pc[t] = "entered" /\ IsWaitingFor(w, id)
  /\ LpcReplyMessageId' = [LpcReplyMessageId EXCEPT ![w] = 0, ![t] = id]
  /\ LpcReplyMessage' = [LpcReplyMessage EXCEPT ![w] = [id |-> id, type |-> "reply"],
                                                ![t] = None]
  /\ OffChain(w)
  /\ req' = [req EXCEPT ![t] = id]
  /\ ThenSignal(t, w, "waitreply")
  /\ UNCHANGED <<queues, ports, LpcReplySemaphore, LpcpNextMessageId>>

(* KeReleaseSemaphore; then return, or wait.                                  *)
KeReleaseSemaphore(t) ==
  LET w == call[t].target IN
  /\ pc[t] = "signal"
  /\ \/ w \in Queues /\ qsem' = [qsem EXCEPT ![w] = @ + 1] /\ UNCHANGED LpcReplySemaphore
     \/ /\ w \in Threads /\ UNCHANGED qsem
        /\ LpcReplySemaphore' = [LpcReplySemaphore EXCEPT ![w] = @ + 1]
  /\ pc' = [pc EXCEPT ![t] = call[t].then]
  /\ call' = [call EXCEPT ![t] = IF call[t].then = "user" THEN NoCall ELSE [call[t] EXCEPT !.target = None]]
  /\ UNCHANGED <<queue, ports, chain, LpcReplyMessageId, LpcReplyMessage, req,
                 LpcpNextMessageId>>

-----------------------------------------------------------------------------
(* Waiting for the reply.                                                     *)

Waits(t) == pc[t] \in {"wait", "waitreply"}

(* KeWaitForSingleObject succeeds.                                            *)
WaitSatisfied(t) ==
  /\ Waits(t) /\ LpcReplySemaphore[t] > 0
  /\ LpcReplySemaphore' = [LpcReplySemaphore EXCEPT ![t] = @ - 1]
  /\ pc' = [pc EXCEPT ![t] = "pickup"]
  /\ UNCHANGED <<queues, ports, chain, LpcReplyMessageId, LpcReplyMessage, call, req,
                 LpcpNextMessageId>>

(* KeWaitForSingleObject ends with STATUS_USER_APC: somebody has terminated   *)
(* the thread.                                                                *)
WaitBroken(t) ==
  /\ Waits(t) /\ LpcReplySemaphore[t] = 0
  /\ pc' = [pc EXCEPT ![t] = "broken"]
  /\ UNCHANGED <<queues, ports, chain, waits, call, req, LpcpNextMessageId>>

(* If the semaphore has been signalled meanwhile the wait has succeeded.      *)
ReadStateSemaphore(t) ==
  /\ pc[t] = "broken"
  /\ pc' = [pc EXCEPT ![t] = "pickup"]
  /\ \/ /\ LpcReplySemaphore[t] > 0 /\ UNCHANGED call
        /\ LpcReplySemaphore' = [LpcReplySemaphore EXCEPT ![t] = @ - 1]
     \/ /\ LpcReplySemaphore[t] = 0 /\ UNCHANGED LpcReplySemaphore
        /\ call' = [call EXCEPT ![t].status = "apc"]
  /\ UNCHANGED <<queues, ports, chain, LpcReplyMessageId, LpcReplyMessage, req,
                 LpcpNextMessageId>>

(* Take the reply, or the callback, whichever came; if there is none it is    *)
(* lost.  NtReplyWaitReplyPort takes it only if the wait succeeded.           *)
Pickup(t) ==
  /\ pc[t] = "pickup"
  /\ \/ /\ call[t].then = "wait"
        /\ LpcReplyMessage' = [LpcReplyMessage EXCEPT ![t] = None]
        /\ LpcReplyMessageId' = [LpcReplyMessageId EXCEPT ![t] = 0]
        /\ OffChain(t)
     \/ /\ call[t].then = "waitreply" /\ UNCHANGED <<LpcReplyMessageId, chain>>
        /\ LpcReplyMessage' = [LpcReplyMessage EXCEPT ![t] = IF call[t].status = "success" THEN None ELSE @]
  /\ pc' = [pc EXCEPT ![t] = IF call[t].status = "apc" THEN "exiting" ELSE "user"]
  /\ call' = [call EXCEPT ![t] = NoCall]
  /\ req' = [req EXCEPT ![t] = IF call[t].status = "apc" THEN @ ELSE 0]
  /\ UNCHANGED <<queues, ports, LpcReplySemaphore, LpcpNextMessageId>>

-----------------------------------------------------------------------------
(* Receiving: NtReplyWaitReceivePort and NtReplyWaitReceivePortEx.            *)

(* Called without a reply.                                                    *)
NtReplyWaitReceivePort(t) ==
  /\ pc[t] = "entered"
  /\ pc' = [pc EXCEPT ![t] = "receive"] /\ call' = [call EXCEPT ![t].then = "receive"]
  /\ UNCHANGED <<queues, ports, chain, waits, req, LpcpNextMessageId>>

(* The wait for a message succeeds, times out or is broken.                   *)
ReceiveWait(t) ==
  LET q == ReceivePort(call[t].port) IN
  /\ pc[t] = "receive"
  /\ \/ /\ qsem[q] > 0 /\ qsem' = [qsem EXCEPT ![q] = @ - 1]
        /\ pc' = [pc EXCEPT ![t] = "dequeue"] /\ UNCHANGED call
     \/ /\ qsem[q] = 0 /\ UNCHANGED qsem
        /\ pc' = [pc EXCEPT ![t] = "user"] /\ call' = [call EXCEPT ![t] = NoCall]
  /\ UNCHANGED <<queue, ports, chain, waits, req, LpcpNextMessageId>>

(* Take the first message, if there still is one.                             *)
Dequeue(t) ==
  LET q == ReceivePort(call[t].port) IN
  /\ pc[t] = "dequeue"
  /\ pc' = [pc EXCEPT ![t] = "user"] /\ call' = [call EXCEPT ![t] = NoCall]
  /\ \/ queue[q] = 0 /\ UNCHANGED queue
     \/ queue[q] > 0 /\ queue' = [queue EXCEPT ![q] = @ - 1]
  /\ UNCHANGED <<qsem, ports, chain, waits, req, LpcpNextMessageId>>

-----------------------------------------------------------------------------
(* Threads and ports go away.                                                 *)

(* LpcExitThread.                                                             *)
LpcExitThread(t) ==
  /\ pc[t] \in {"user", "exiting"}
  /\ pc' = [pc EXCEPT ![t] = "exited"] /\ OffChain(t)
  /\ LpcReplyMessageId' = [LpcReplyMessageId EXCEPT ![t] = 0]
  /\ LpcReplyMessage' = [LpcReplyMessage EXCEPT ![t] = None]
  /\ req' = [req EXCEPT ![t] = 0]
  /\ UNCHANGED <<queues, ports, LpcReplySemaphore, call, LpcpNextMessageId>>

(* LpcpDestroyPortQueue: disconnect the port at the other end, wake the       *)
(* threads on this port's chain, and free its messages.  The semaphore keeps  *)
(* its count.                                                                 *)
LpcpDestroyPortQueue(p) ==
  LET rundown == {t \in chain[p] : LpcReplySemaphore[t] = 0} IN
  /\ ConnectedPort' = [r \in Ports |-> ConnectedPort[r] /\ ~(r = RundownPort(p) /\ ConnectedPort[p])]
  /\ chain' = [chain EXCEPT ![p] = {}]
  /\ LpcReplyMessage' = [t \in Threads |-> IF t \in rundown THEN None ELSE LpcReplyMessage[t]]
  /\ LpcReplyMessageId' = [t \in Threads |-> IF t \in rundown THEN 0 ELSE LpcReplyMessageId[t]]
  /\ LpcReplySemaphore' = [t \in Threads |-> IF t \in rundown THEN 1 ELSE LpcReplySemaphore[t]]
  /\ queue' = [q \in Queues |-> IF q = p THEN 0 ELSE queue[q]]

(* LpcpClosePort of the connection port's last handle.                        *)
LpcpClosePort ==
  /\ port["conn"] = "open" /\ port' = [port EXCEPT !["conn"] = "closed"]
  /\ LpcpDestroyPortQueue("conn")
  /\ UNCHANGED <<qsem, pc, call, req, LpcpNextMessageId>>

(* A datagram under way holds a reference to the port it is queued at.        *)
Datagram(t, q) == call[t].target = q /\ call[t].then = "user"

(* Nobody has a reference to the port: no call, no port that it connected.    *)
Unreferenced(p) ==
  /\ \A t \in Threads : call[t].port # p /\ ~Datagram(t, p)
  /\ p = "conn" => port["client"] = "gone" /\ port["server"] = "gone"

(* ObDereferenceObject: the last reference goes, with the last handle.        *)
ObDereferenceObject(p) ==
  /\ port[p] = (IF p = "conn" THEN "closed" ELSE "open") /\ Unreferenced(p)
  /\ port' = [port EXCEPT ![p] = "deleted"]
  /\ UNCHANGED <<queues, ConnectedPort, chain, waits, pc, call, req, LpcpNextMessageId>>

(* LpcpDeletePort of the client port: first the server is told.               *)
SendPortClosed ==
  /\ port["client"] = "deleted"
  /\ \/ /\ ConnectedPort["client"] /\ GenerateMessageId /\ Enqueue("conn")
        /\ port' = [port EXCEPT !["client"] = "signal"]
     \/ /\ ~ConnectedPort["client"]
        /\ port' = [port EXCEPT !["client"] = "destroy"] /\ UNCHANGED <<queue, LpcpNextMessageId>>
  /\ UNCHANGED <<qsem, ConnectedPort, chain, waits, pc, call, req>>

SignalPortClosed ==
  /\ port["client"] = "signal"
  /\ port' = [port EXCEPT !["client"] = "destroy"] /\ qsem' = [qsem EXCEPT !["conn"] = @ + 1]
  /\ UNCHANGED <<queue, ConnectedPort, chain, waits, pc, call, req, LpcpNextMessageId>>

(* LpcpDeletePort.                                                            *)
LpcpDeletePort(p) ==
  /\ port[p] = IF p = "client" THEN "destroy" ELSE "deleted"
  /\ port' = [port EXCEPT ![p] = "gone"]
  /\ LpcpDestroyPortQueue(p)
  /\ UNCHANGED <<qsem, pc, call, req, LpcpNextMessageId>>

-----------------------------------------------------------------------------
Next ==
  \/ \E t \in Threads :
       \/ \E p \in Ports : LpcpReferencePortObject(t, p)
       \/ CallFails(t) \/ NtRequestPort(t) \/ NtRequestWaitReplyPort(t)
       \/ KeReleaseSemaphore(t) \/ WaitSatisfied(t) \/ WaitBroken(t) \/ ReadStateSemaphore(t) \/ Pickup(t)
       \/ NtReplyWaitReceivePort(t) \/ ReceiveWait(t) \/ Dequeue(t)
       \/ LpcExitThread(t)
       \/ \E w \in Threads, id \in 1..MaxId :
            \/ Callback(t, w, id) \/ NtReplyWaitReplyPort(t, w, id)
            \/ \E then \in {"user", "receive"} : NtReplyPort(t, w, id, then)
  \/ SendPortClosed \/ SignalPortClosed \/ LpcpClosePort
  \/ \E p \in Ports : ObDereferenceObject(p) \/ LpcpDeletePort(p)

Spec == Init /\ [][Next]_vars
-----------------------------------------------------------------------------
(* Properties.                                                                *)

(* Types.  The limit of LpcReplySemaphore is one: if a thread were woken      *)
(* twice for one request KeReleaseSemaphore would raise an exception.         *)
TypeOK ==
  /\ queue \in [Queues -> Nat] /\ qsem \in [Queues -> Nat]
  /\ ConnectedPort \in [Ports -> BOOLEAN]
  /\ port \in [Ports -> {"open", "closed", "deleted", "signal", "destroy", "gone"}]
  /\ chain \in [Ports -> SUBSET Threads]
  /\ LpcReplyMessageId \in [Threads -> 0..MaxId] /\ LpcReplySemaphore \in [Threads -> 0..1]
  /\ LpcReplyMessage \in [Threads -> {None} \cup [id: 1..MaxId, type: {"request", "reply"}]]
  /\ pc \in [Threads -> {"user", "entered", "signal", "wait", "waitreply", "broken", "pickup", "receive",
                         "dequeue", "exiting", "exited"}]
  /\ call \in [Threads -> [port: Ports \cup {None}, target: Threads \cup Queues \cup {None},
                           then: {"user", "wait", "waitreply", "receive"}, status: {"success", "apc"}]]
  /\ req \in [Threads -> 0..MaxId]
  /\ LpcpNextMessageId \in 1..(MaxId + 1)

InCall(t) == pc[t] \in {"signal", "wait", "waitreply", "broken", "pickup"}

(* The reply a thread is given is to its own last request, however late, from *)
(* whatever thread and however often the other side replies: the comparison   *)
(* in NtReplyPort is made under LpcpLock against the thread's present wait.   *)
(* No reply is left with a thread that is not about to take it or to exit.    *)
ReplyMatches == \A t \in Threads : LpcReplyMessage[t] # None =>
  /\ LpcReplyMessage[t].id = req[t]
  /\ InCall(t) \/ pc[t] = "exiting"

(* Who will signal the thread.                                                *)
Signalling(t) == \E s \in Threads : pc[s] = "signal" /\ call[s].target = t

(* Who will signal the queue, and who has taken a unit of its semaphore and   *)
(* comes for the message.                                                     *)
Queueing(q) == {t \in Threads : pc[t] = "signal" /\ call[t].target = q}
Dequeuing(q) == {t \in Threads : pc[t] = "dequeue" /\ ReceivePort(call[t].port) = q}

(* Nobody waits in vain.  A thread in NtRequestWaitReplyPort that has not     *)
(* been woken waits for the reply to its own request, so that a reply reaches *)
(* it, and is on the chain of a port that exists: over a communication port   *)
(* the one at the other end, whose deletion wakes it, over the connection     *)
(* port that port itself, which LpcpClosePort wakes; or somebody who answered *)
(* it is about to signal it.  (Who referenced the connection port before its  *)
(* last handle was closed and sends after that has only the reply to wait     *)
(* for: no second close comes.)                                               *)
(* A message in a queue has a unit of the port's semaphore, which a receiver  *)
(* takes before it takes the message.                                         *)
NobodyStranded ==
  /\ \A t \in Threads : pc[t] = "wait" /\ LpcReplySemaphore[t] = 0 =>
       \/ Signalling(t)
       \/ LET r == RundownPort(call[t].port) IN
          LpcReplyMessageId[t] = req[t] /\ t \in chain[r] /\ port[r] # "gone"
  /\ \A q \in Queues :
       queue[q] <= qsem[q] + Cardinality(Dequeuing(q)) + Cardinality(Queueing(q))
                     + (IF q = "conn" /\ port["client"] = "signal" THEN 1 ELSE 0)

(* The deletion of a port begins when nobody uses it, and nobody comes to use *)
(* it any more: not a call over the port, and not a datagram queued at it,    *)
(* whose sender found it through ConnectedPort and references it under        *)
(* LpcpLock, where ObDereferenceObject sets PORT_DELETED.  So the semaphore a *)
(* datagram releases exists.                                                  *)
NotDeletedInUse ==
  \A t \in Threads, p \in Ports :
    call[t].port = p \/ Datagram(t, p) => port[p] \in {"open", "closed"}

(* "Reference the QueuePort to prevent this port evaporating under us"        *)
(* (NtRequestPort): the queue a thread is about to signal exists.             *)
SignalExists ==
  \A t \in Threads, q \in Queues : t \in Queueing(q) => port[q] # "gone"
=============================================================================
