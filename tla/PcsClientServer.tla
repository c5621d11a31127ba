--------------------------- MODULE PcsClientServer ---------------------------
(***************************************************************************)
(* Requests to the PCS (PCS::Client, PCS::Server) over a TwoWayCommunication: *)
(* one global vc for the requests, whose only reader is the PCS, and one   *)
(* for the replies, whose only writer is the PCS.                          *)
(*                                                                         *)
(* A global vc has one writing local vc.  A client that is not the sender  *)
(* of the request vc removes whoever is and attaches itself                *)
(* (OneWayCommunication), so clients take the sender's slot from each      *)
(* other.  As reader of the reply vc a client stays attached after its     *)
(* first call and gets every reply, also those to other clients, which it  *)
(* skips when it waits for one of its own.                                 *)
(*                                                                         *)
(* Removing and attaching a local vc is one step each (GlobalVcMapping.tla *)
(* takes them apart); the command to the removed client times out *)
(* only when that client's main loop is blocked.  The sender's slot is     *)
(* always the same one: the PCS is attached first and there is one writer. *)
(* Transfer ids are unique.                                                *)
(* The clients are processes with one thread that uses the PCS, fewer than *)
(* the reply vc has slots for; all calls have a timeout.                   *)
(***************************************************************************)
EXTENDS Naturals, Sequences

CONSTANTS
  Clients,
  Cells,      \* number_of_message_buffers of every local vc
  MaxCalls,   \* bound: MaxCalls[c] calls are made by client c
  None

ASSUME ClientAssumption ==
  /\ Cells \in Nat \ {0}
  /\ MaxCalls \in [Clients -> Nat]
  /\ None \notin Clients
  /\ Clients /= {}

VARIABLES
  sender,      \* the client in the sender's slot of the request vc
  desc,        \* the client named in that slot's memory, also after it has gone
  object,      \* the clients whose own LocalVc object of that slot is initialised
  slotLost,    \* the slot is in no table and still counts as the sender's (SenderVcIndex)
  requestLock, replyLock,  \* the action semaphores: None or the holder
  requests,    \* queue of the PCS
  listening,   \* the clients attached to the reply vc
  replies,     \* per client: its queue
  spc,         \* server: where in handleOneRequest()
  current,     \* server: the request it works on
  served,      \* the requests whose handler succeeded ...
  unanswered,  \* ... and failed
  pc,          \* per client
  victim,      \* per client: the sender it is going to remove
  calls,       \* per client: calls made
  result       \* per client: how the last call ended

slotVars   == <<sender, desc, object, slotLost>>
lockVars   == <<requestLock, replyLock>>
queueVars  == <<requests, listening, replies>>
serverVars == <<spc, current, served, unanswered>>
clientVars == <<pc, victim, calls, result>>
vars       == <<slotVars, lockVars, queueVars, serverVars, clientVars>>

Server == "PCS"
NoCall == <<>>

\* The PCS has been attached to both global vcs (configurePCS).
Init ==
  /\ sender = None /\ desc = None /\ object = {} /\ slotLost = FALSE
  /\ requestLock = None /\ replyLock = None
  /\ requests = <<>> /\ listening = {} /\ replies = [c \in Clients |-> <<>>]
  /\ spc = "receive" /\ current = NoCall /\ served = {} /\ unanswered = {}
  /\ pc = [c \in Clients |-> "idle"]
  /\ victim = [c \in Clients |-> None]
  /\ calls = [c \in Clients |-> 0]
  /\ result = [c \in Clients |-> "none"]

Goto(c, from, to) == pc[c] = from /\ pc' = [pc EXCEPT ![c] = to]
Return(c, from, r) == Goto(c, from, "idle") /\ result' = [result EXCEPT ![c] = r]

ThisCall(c) == <<c, calls[c]>>

----------------------------------------------------------------------------
(* establishCommunication() *)

Call(c) ==
  /\ Goto(c, "idle", "request")
  /\ calls[c] < MaxCalls[c]
  /\ calls' = [calls EXCEPT ![c] = @ + 1]
  /\ result' = [result EXCEPT ![c] = "open"]
  /\ UNCHANGED <<slotVars, lockVars, queueVars, serverVars, victim>>

\* assureSenderConnection() looks at the sender's slot without a lock, and with
\* that initialises the client's own object of the slot if it is in use.
FindSender(c) ==
  /\ \/ sender = c /\ Goto(c, "request", "reply")
     \/ sender \notin {c, None} /\ Goto(c, "request", "detach")
     \/ sender = None /\ ~slotLost /\ Goto(c, "request", "attach")
  /\ victim' = [victim EXCEPT ![c] = IF sender = c THEN None ELSE sender]
  /\ object' = IF sender = None THEN object ELSE object \cup {c}
  /\ UNCHANGED <<sender, desc, slotLost, lockVars, queueVars, serverVars, calls, result>>

\* The sender index names a slot that no process has: its object or its table entry
\* is missing, and either makes the call fail.
FindLostSender(c) ==
  /\ Return(c, "request", "failed")
  /\ slotLost /\ sender /= c
  /\ UNCHANGED <<slotVars, lockVars, queueVars, serverVars, victim, calls>>

\* The main loop of d is in the OS scope, where createLocalVc() waits for the reply vc.
MainLoopBlocked(d) == pc[d] = "reply" /\ d \notin listening /\ replyLock /= None

\* removeLocalVcsFromProcess() looks for the victim's name, without the semaphore.
\* If another client has taken the slot there is nothing to remove.
FindVictim(c) ==
  /\ \/ desc = victim[c] /\ Goto(c, "detach", "remove") /\ UNCHANGED victim
     \/ /\ desc /= victim[c] /\ Goto(c, "detach", "attach")
        /\ victim' = [victim EXCEPT ![c] = None]
  /\ UNCHANGED <<slotVars, lockVars, queueVars, serverVars, calls, result>>

\* (Bug: the object of the removed local vc stays initialised in the process that removes it.)
Bug_RemoveKeepsObject(c) ==
  /\ Goto(c, "remove", "attach")
  /\ requestLock = None
  /\ sender = victim[c] /\ ~MainLoopBlocked(sender)
  /\ sender' = None
  /\ victim' = [victim EXCEPT ![c] = None]
  /\ UNCHANGED <<desc, object, slotLost, lockVars, queueVars, serverVars, calls, result>>

\* removeLocalVc() for the victim
RemoveSender(c) ==
  /\ Goto(c, "remove", "attach")
  /\ requestLock = None
  /\ sender = victim[c] /\ ~MainLoopBlocked(sender)
  /\ sender' = None
  /\ object' = object \ {c}
  /\ victim' = [victim EXCEPT ![c] = None]
  /\ UNCHANGED <<desc, slotLost, lockVars, queueVars, serverVars, calls, result>>

\* The victim does not answer the command in time.  The slot has left the table
\* before, and the sender index is not reset any more.
RemoveTimeout(c) ==
  /\ Return(c, "remove", "failed")
  /\ requestLock = None
  /\ sender = victim[c] /\ MainLoopBlocked(sender)
  /\ sender' = None
  /\ slotLost' = TRUE
  /\ victim' = [victim EXCEPT ![c] = None]
  /\ UNCHANGED <<desc, object, lockVars, queueVars, serverVars, calls>>

\* Another client has removed the victim: "LocalVc index not valid."
RemoveFails(c) ==
  /\ Return(c, "remove", "failed")
  /\ requestLock = None
  /\ sender /= victim[c]
  /\ victim' = [victim EXCEPT ![c] = None]
  /\ UNCHANGED <<slotVars, lockVars, queueVars, serverVars, calls>>

\* createLocalVc() in the client's OS scope.  It throws when the slot has been
\* taken, or when the client's object is initialised still; InvokeOSScopeHandler
\* reports success anyway.
AttachSender(c) ==
  /\ Goto(c, "attach", "reply")
  /\ requestLock = None
  /\ IF sender = None /\ ~slotLost /\ c \notin object
     THEN sender' = c /\ desc' = c /\ object' = object \cup {c} /\ UNCHANGED slotLost
     ELSE UNCHANGED slotVars
  /\ UNCHANGED <<lockVars, queueVars, serverVars, victim, calls, result>>

\* assureReceiverConnection() of the reply vc: createLocalVc() waits for the
\* action semaphore, without a timeout.
AttachReceiver(c) ==
  /\ Goto(c, "reply", "send")
  /\ c \in listening \/ replyLock = None
  /\ listening' = listening \cup {c}
  /\ UNCHANGED <<slotVars, lockVars, requests, replies, serverVars, victim, calls, result>>

----------------------------------------------------------------------------
(* sendRequest() *)

\* getAttachedVirtualChannel(): only a client that is the sender finds its vc.
FindVc(c) ==
  /\ \/ sender = c /\ Goto(c, "send", "enter") /\ UNCHANGED result
     \/ sender /= c /\ Return(c, "send", "failed")
  /\ UNCHANGED <<slotVars, lockVars, queueVars, serverVars, victim, calls>>

\* From here on nobody asks whether the client is the sender still.
SendEnter(c) ==
  /\ Goto(c, "enter", "sending")
  /\ requestLock = None
  /\ requestLock' = c
  /\ UNCHANGED <<slotVars, replyLock, queueVars, serverVars, victim, calls, result>>

\* (Bug: the sender does not wait for a free cell.)
Bug_SendAtOnce(c) ==
  /\ Goto(c, "sending", "receive")
  /\ requests' = Append(requests, ThisCall(c))
  /\ requestLock' = None
  /\ UNCHANGED <<slotVars, replyLock, listening, replies, serverVars, victim, calls, result>>

SendPush(c) ==
  /\ Goto(c, "sending", "receive")
  /\ Len(requests) < Cells
  /\ requests' = Append(requests, ThisCall(c))
  /\ requestLock' = None
  /\ UNCHANGED <<slotVars, replyLock, listening, replies, serverVars, victim, calls, result>>

\* (Bug: a send that times out keeps the action semaphore.)
Bug_SendTimeoutKeepsLock(c) ==
  /\ \/ Return(c, "enter", "timeout") /\ requestLock /= None /\ UNCHANGED requestLock
     \/ Return(c, "sending", "timeout") /\ Len(requests) = Cells /\ UNCHANGED requestLock
  /\ UNCHANGED <<slotVars, replyLock, queueVars, serverVars, victim, calls>>

\* The timeout expires while the client waits for the semaphore, or holds it and
\* waits for a free cell.
SendTimeout(c) ==
  /\ \/ Return(c, "enter", "timeout") /\ requestLock /= None /\ UNCHANGED requestLock
     \/ Return(c, "sending", "timeout") /\ Len(requests) = Cells /\ requestLock' = None
  /\ UNCHANGED <<slotVars, replyLock, queueVars, serverVars, victim, calls>>

----------------------------------------------------------------------------
(* receiveReply() *)

\* (Bug: the first reply is taken, whatever its transfer id.)
Bug_ReceiveAny(c) ==
  /\ replies[c] /= <<>>
  /\ replies' = [replies EXCEPT ![c] = Tail(@)]
  /\ Return(c, "receive", "success")
  /\ UNCHANGED <<slotVars, lockVars, requests, listening, serverVars, victim, calls>>

Receive(c) ==
  /\ replies[c] /= <<>>
  /\ replies' = [replies EXCEPT ![c] = Tail(@)]
  /\ IF Head(replies[c]) = ThisCall(c)
     THEN Return(c, "receive", "success")
     ELSE Goto(c, "receive", "receive") /\ UNCHANGED result
  /\ UNCHANGED <<slotVars, lockVars, requests, listening, serverVars, victim, calls>>

ReceiveTimeout(c) ==
  /\ Return(c, "receive", "timeout")
  /\ replies[c] = <<>>
  /\ UNCHANGED <<slotVars, lockVars, queueVars, serverVars, victim, calls>>

----------------------------------------------------------------------------
(* Server::handleOneRequest(), with infinite timeouts *)

TakeRequest ==
  /\ spc = "receive" /\ spc' = "handle"
  /\ requests /= <<>>
  /\ current' = Head(requests)
  /\ requests' = Tail(requests)
  /\ UNCHANGED <<slotVars, lockVars, listening, replies, served, unanswered, clientVars>>

\* The handler succeeds, or it fails and there is no reply.
Handle ==
  /\ spc = "handle"
  /\ \/ /\ spc' = "reply"
        /\ served' = served \cup {current}
        /\ UNCHANGED <<unanswered, current>>
     \/ /\ spc' = "receive"
        /\ unanswered' = unanswered \cup {current}
        /\ current' = NoCall
        /\ UNCHANGED served
  /\ UNCHANGED <<slotVars, lockVars, queueVars, clientVars>>

ReplyEnter ==
  /\ spc = "reply" /\ spc' = "replying"
  /\ replyLock = None
  /\ replyLock' = Server
  /\ UNCHANGED <<slotVars, requestLock, queueVars, current, served, unanswered, clientVars>>

\* Every listening client has a free cell, and gets the reply.
ReplyPush ==
  /\ spc = "replying" /\ spc' = "receive"
  /\ \A c \in listening : Len(replies[c]) < Cells
  /\ replies' = [c \in Clients |->
                   IF c \in listening THEN Append(replies[c], current) ELSE replies[c]]
  /\ replyLock' = None
  /\ current' = NoCall
  /\ UNCHANGED <<slotVars, requestLock, requests, listening, served, unanswered, clientVars>>

----------------------------------------------------------------------------
assureSenderConnection(c) ==
  \/ FindSender(c) \/ FindLostSender(c)
  \/ FindVictim(c) \/ RemoveSender(c) \/ RemoveTimeout(c) \/ RemoveFails(c)
  \/ AttachSender(c)
establishCommunication(c) == assureSenderConnection(c) \/ AttachReceiver(c)
sendRequest(c)  == FindVc(c) \/ SendEnter(c) \/ SendPush(c) \/ SendTimeout(c)
receiveReply(c) == Receive(c) \/ ReceiveTimeout(c)
sendAndReceive(c) == establishCommunication(c) \/ sendRequest(c) \/ receiveReply(c)

handleOneRequest == TakeRequest \/ Handle \/ ReplyEnter \/ ReplyPush

Next == (\E c \in Clients : Call(c) \/ sendAndReceive(c)) \/ handleOneRequest

Spec == Init /\ [][Next]_vars

\* A client inside a call goes on, and so does the PCS.  Nobody has to call.
Fairness == WF_vars(handleOneRequest) /\ \A c \in Clients : WF_vars(sendAndReceive(c))
FairSpec == Spec /\ Fairness

----------------------------------------------------------------------------
Calls == UNION {{c} \X (1 .. MaxCalls[c]) : c \in Clients}

\* The stale objects that clients keep of a slot taken from them never lock all of
\* them out: while nobody is the sender, some client still can become it, unless a
\* removal has timed out.
SlotCanBeTaken == sender = None /\ ~slotLost => object /= Clients

\* A call to the PCS is a remote call: served at most once, and successful only
\* when it was served itself, however many replies to other calls, and to calls
\* given up before, wait in the client's queue.  (A call that failed or timed out
\* may have been served or not.)
Abstract ==
  INSTANCE RemoteCall
    WITH Senders <- Clients, executed <- served, refused <- unanswered,
         result <- [c \in Clients |-> IF result[c] = "failed" THEN "timeout" ELSE result[c]]
ImplementsRemoteCall == Abstract!Spec

\* The call of a client that listens to the replies returns, also while the PCS is
\* blocked, and the PCS is blocked for good only by clients that have stopped calling
\* and whose queues are full of replies to others.  (Nobody stops listening, so this
\* says "always again" and means "leads to".)
CallsReturn ==
  /\ \A c \in Clients : []<>(c \in listening => pc[c] = "idle")
  /\ []<>(\/ spc /= "replying"
          \/ \E c \in listening : pc[c] = "idle" /\ Len(replies[c]) = Cells)
=============================================================================
