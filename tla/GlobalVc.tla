------------------------------ MODULE GlobalVc ------------------------------
(***************************************************************************)
(* Message transfer over one global virtual channel (GlobalVc, LocalVc):   *)
(* the shared buffers with their usage counters, the list of free buffers, *)
(* and the queues of the reading local vcs, used concurrently by sending   *)
(* and receiving threads of several processes.                             *)
(*                                                                         *)
(* Every access that other threads can see in between is a step of its     *)
(* own.  One step are: the sections under the allocation semaphore         *)
(* (claimBuffer, releaseBuffer), and a pop or the storing half of a push,  *)
(* as if the queues did protect their counters; CyclicQueueRace.tla shows  *)
(* what happens below that level.  The local vcs stay attached;            *)
(* GlobalVcMapping.tla attaches and removes them.                          *)
(***************************************************************************)
EXTENDS Integers, Sequences, FiniteSets

CONSTANTS
  NumberOfBuffers,  \* max_number_of_buffers
  NumberOfVcs,      \* reading local vcs; the sending one takes no messages
  QueueSize,        \* per reading vc: number_of_message_buffers
  Refusing,         \* the vcs with is_refusing_queue (BLOCKING); the others
                    \* overwrite their oldest message
  Lifo,             \* the vcs with is_lifo_queue
  Senders,          \* threads that send
  Receivers,        \* threads that receive
  VcOf,             \* VcOf[r]: the local vc receiver r reads
  Copying,          \* the senders that call sendMessage(); the others call
                    \* lockBuffer() and sendBuffer()
  Impatient,        \* the senders whose timeout can expire
  MaxMessages       \* bound: messages written in a behaviour

Buffer == 0 .. NumberOfBuffers - 1
Vc     == 0 .. NumberOfVcs - 1
Thread == Senders \cup Receivers

ASSUME SizesAssumption ==
  /\ NumberOfBuffers \in Nat \ {0}
  /\ NumberOfVcs \in Nat
  /\ MaxMessages \in Nat
  /\ QueueSize \in [Vc -> Nat \ {0}]
  /\ Refusing \subseteq Vc
  /\ Lifo \subseteq Vc
ASSUME ThreadsAssumption ==
  /\ IsFiniteSet(Senders)
  /\ IsFiniteSet(Receivers)
  /\ Senders \cap Receivers = {}
  /\ VcOf \in [Receivers -> Vc]
  /\ Copying \subseteq Senders
  /\ Impatient \subseteq Senders

VARIABLES
  UsageCount,        \* m_BufferInfo[ b ].UsageCount
  FreeBuffersQueue,  \* m_FreeBuffersQueue: buffer numbers, first out first
  content,           \* the message in each buffer, 0 before the first one
  queue,             \* m_Queue of each reading vc, the oldest first
  ReadSemaphore,     \* its m_ReadSemaphore
  ActionSemaphore,   \* m_ActionSemaphore
  pc,                \* per thread: what it does next
  buf,               \* per thread: the buffer it works with
  slot,              \* per sender: iVC, the loop index of sendBuffer()
  written,           \* messages written so far
  delivered          \* history, per vc: the messages its readers took out

poolVars  == <<UsageCount, FreeBuffersQueue>>
queueVars == <<queue, ReadSemaphore, delivered>>
msgVars   == <<content, written>>
vars      == <<poolVars, queueVars, msgVars, ActionSemaphore, pc, buf, slot>>

Init ==
  /\ UsageCount = [b \in Buffer |-> 0]
  /\ FreeBuffersQueue = [i \in 1 .. NumberOfBuffers |-> i - 1]
  /\ content = [b \in Buffer |-> 0]
  /\ queue = [v \in Vc |-> <<>>]
  /\ ReadSemaphore = [v \in Vc |-> 0]
  /\ ActionSemaphore = 1
  /\ pc = [t \in Thread |-> "idle"]
  /\ buf = [t \in Thread |-> 0]
  /\ slot = [s \in Senders |-> 0]
  /\ written = 0
  /\ delivered = [v \in Vc |-> <<>>]

Goto(t, at, next) == pc[t] = at /\ pc' = [pc EXCEPT ![t] = next]

Elements(q) == {q[i] : i \in 1 .. Len(q)}

IsFull(v) == Len(queue[v]) = QueueSize[v]

----------------------------------------------------------------------------
(* Buffer allocation *)

\* (Bug: the buffer is returned although others still use it.)
Bug_ReleaseAlways(b) ==
  IF UsageCount[b] > 0
  THEN /\ UsageCount' = [UsageCount EXCEPT ![b] = @ - 1]
       /\ FreeBuffersQueue' = Append(FreeBuffersQueue, b)
  ELSE UNCHANGED poolVars

\* releaseBuffer( b ), under the allocation semaphore
releaseBuffer(b) ==
  IF UsageCount[b] > 0
  THEN /\ UsageCount' = [UsageCount EXCEPT ![b] = @ - 1]
       /\ FreeBuffersQueue' = IF UsageCount[b] = 1
                              THEN Append(FreeBuffersQueue, b)
                              ELSE FreeBuffersQueue
  ELSE UNCHANGED poolVars

\* claimFreeBuffer(): if( m_FreeBuffersQueue.isEmpty() ) the call fails at once
ClaimTest(s) ==
  /\ Goto(s, "idle", IF FreeBuffersQueue = <<>> THEN "refused" ELSE "popFree")
  /\ UNCHANGED <<poolVars, queueVars, msgVars, ActionSemaphore, buf, slot>>

\* m_FreeBuffersQueue.pop( TimeInfinity ), which waits when another thread
\* has taken the last buffer since the test
ClaimPop(s) ==
  /\ Goto(s, "popFree", "setCount")
  /\ FreeBuffersQueue /= <<>>
  /\ buf' = [buf EXCEPT ![s] = Head(FreeBuffersQueue)]
  /\ FreeBuffersQueue' = Tail(FreeBuffersQueue)
  /\ UNCHANGED <<UsageCount, queueVars, msgVars, ActionSemaphore, slot>>

\* UsageCount = 1
ClaimSet(s) ==
  /\ Goto(s, "setCount", "locked")
  /\ UsageCount' = [UsageCount EXCEPT ![buf[s]] = 1]
  /\ UNCHANGED <<FreeBuffersQueue, queueVars, msgVars, ActionSemaphore, buf, slot>>

\* The caller got ASAAC_RESOURCE and may try again.
Refused(s) ==
  /\ Goto(s, "refused", "idle")
  /\ UNCHANGED <<poolVars, queueVars, msgVars, ActionSemaphore, buf, slot>>

\* The application writes its message, or sendMessage() copies it.
Fill(s) ==
  /\ Goto(s, "locked", "filled")
  /\ written < MaxMessages
  /\ written' = written + 1
  /\ content' = [content EXCEPT ![buf[s]] = written + 1]
  /\ UNCHANGED <<poolVars, queueVars, ActionSemaphore, buf, slot>>

\* unlockBuffer() of a buffer that has not been sent
GiveUp(s) ==
  /\ s \notin Copying
  /\ Goto(s, "filled", "idle")
  /\ releaseBuffer(buf[s])
  /\ UNCHANGED <<queueVars, msgVars, ActionSemaphore, buf, slot>>

----------------------------------------------------------------------------
(* sendBuffer() *)

\* Where an exception leaves the caller: sendMessage() returns and forgets the
\* buffer, the caller of sendBuffer() still has it.
AfterFailure(s) == IF s \in Copying THEN "idle" ELSE "filled"

\* (Bug: the sender does not wait for the others to finish.)
Bug_SendWithoutAction(s) ==
  /\ Goto(s, "filled", "waitCells")
  /\ slot' = [slot EXCEPT ![s] = 0]
  /\ UNCHANGED <<poolVars, queueVars, msgVars, ActionSemaphore, buf>>

\* UsageCount > 0, and the action semaphore is obtained
SendEnter(s) ==
  /\ Goto(s, "filled", "waitCells")
  /\ UsageCount[buf[s]] > 0
  /\ ActionSemaphore = 1
  /\ ActionSemaphore' = 0
  /\ slot' = [slot EXCEPT ![s] = 0]
  /\ UNCHANGED <<poolVars, queueVars, msgVars, buf>>

\* "Buffer has not been locked"
SendNotLocked(s) ==
  /\ UsageCount[buf[s]] = 0
  /\ Goto(s, "filled", AfterFailure(s))
  /\ UNCHANGED <<poolVars, queueVars, msgVars, ActionSemaphore, buf, slot>>

\* The timeout expires while another thread sends.
EnterTimeout(s) ==
  /\ s \in Impatient
  /\ UsageCount[buf[s]] > 0
  /\ ActionSemaphore = 0
  /\ Goto(s, "filled", AfterFailure(s))
  /\ UNCHANGED <<poolVars, queueVars, msgVars, ActionSemaphore, buf, slot>>

\* (Bug: the first loop runs one index too far.)
Bug_LoopOneTooFar(s) ==
  /\ pc[s] = "waitCells"
  /\ slot[s] <= NumberOfVcs
  /\ slot[s] \in Refusing => ~IsFull(slot[s])
  /\ slot' = [slot EXCEPT ![s] = @ + 1]
  /\ UNCHANGED <<poolVars, queueVars, msgVars, ActionSemaphore, pc, buf>>

\* (Bug: the first loop does not wait.)
Bug_SkipFirstLoop(s) ==
  /\ pc[s] = "waitCells"
  /\ slot[s] < NumberOfVcs
  /\ slot' = [slot EXCEPT ![s] = @ + 1]
  /\ UNCHANGED <<poolVars, queueVars, msgVars, ActionSemaphore, pc, buf>>

\* First loop: waitForFreeCells() of the vc in iVC returns.
WaitForFreeCells(s) ==
  /\ pc[s] = "waitCells"
  /\ slot[s] < NumberOfVcs
  /\ slot[s] \in Refusing => ~IsFull(slot[s])
  /\ slot' = [slot EXCEPT ![s] = @ + 1]
  /\ UNCHANGED <<poolVars, queueVars, msgVars, ActionSemaphore, pc, buf>>

\* ... or its timeout expires: the action semaphore is given back.
CellTimeout(s) ==
  /\ s \in Impatient
  /\ slot[s] < NumberOfVcs
  /\ slot[s] \in Refusing /\ IsFull(slot[s])
  /\ Goto(s, "waitCells", AfterFailure(s))
  /\ ActionSemaphore' = 1
  /\ UNCHANGED <<poolVars, queueVars, msgVars, buf, slot>>

StartPushing(s) ==
  /\ Goto(s, "waitCells", "push")
  /\ slot[s] = NumberOfVcs
  /\ slot' = [slot EXCEPT ![s] = 0]
  /\ UNCHANGED <<poolVars, queueVars, msgVars, ActionSemaphore, buf>>

\* (Bug: the receiver's reference is not counted.)
Bug_PushWithoutClaim(s) ==
  /\ Goto(s, "push", "enqueue")
  /\ slot[s] < NumberOfVcs
  /\ UNCHANGED <<poolVars, queueVars, msgVars, ActionSemaphore, buf, slot>>

\* Second loop: pushBuffer() of the vc in iVC calls claimBuffer() ...
PushClaim(s) ==
  /\ Goto(s, "push", "enqueue")
  /\ slot[s] < NumberOfVcs
  /\ UsageCount[buf[s]] > 0
  /\ UsageCount' = [UsageCount EXCEPT ![buf[s]] = @ + 1]
  /\ UNCHANGED <<FreeBuffersQueue, queueVars, msgVars, ActionSemaphore, buf, slot>>

\* ... which throws on a free buffer ...
PushFails(s) ==
  /\ slot[s] < NumberOfVcs
  /\ UsageCount[buf[s]] = 0
  /\ Goto(s, "push", "undo")
  /\ UNCHANGED <<poolVars, queueVars, msgVars, ActionSemaphore, buf, slot>>

\* ... and whose handler releases the buffer, "if transfer has been failed".
PushUndo(s) ==
  /\ Goto(s, "undo", AfterFailure(s))
  /\ releaseBuffer(buf[s])
  /\ ActionSemaphore' = 1
  /\ UNCHANGED <<queueVars, msgVars, buf, slot>>

\* SharedCyclicQueue::push() up to the overwrite callback, which releases the
\* oldest message of a full queue.
PushOverwrite(s) ==
  /\ Goto(s, "enqueue", "store")
  /\ slot[s] \in Refusing => ~IsFull(slot[s])
  /\ IF slot[s] \notin Refusing /\ IsFull(slot[s])
     THEN releaseBuffer(Head(queue[slot[s]]))
     ELSE UNCHANGED poolVars
  /\ UNCHANGED <<queueVars, msgVars, ActionSemaphore, buf, slot>>

\* (Bug: a full queue still posts its read semaphore.)
Bug_StorePostsAlways(s) ==
  LET v == slot[s] IN
  /\ Goto(s, "store", "push")
  /\ queue' = [queue EXCEPT ![v] = Append(IF IsFull(v) THEN Tail(@) ELSE @, buf[s])]
  /\ ReadSemaphore' = [ReadSemaphore EXCEPT ![v] = @ + 1]
  /\ slot' = [slot EXCEPT ![s] = @ + 1]
  /\ UNCHANGED <<poolVars, delivered, msgVars, ActionSemaphore, buf>>

\* The cell is written.  A queue that is still full loses its oldest message
\* and has no more to read than before.
PushStore(s) ==
  LET v == slot[s] IN
  /\ Goto(s, "store", "push")
  /\ queue' = [queue EXCEPT ![v] = Append(IF IsFull(v) THEN Tail(@) ELSE @, buf[s])]
  /\ ReadSemaphore' = [ReadSemaphore EXCEPT ![v] = IF IsFull(v) THEN @ ELSE @ + 1]
  /\ slot' = [slot EXCEPT ![s] = @ + 1]
  /\ UNCHANGED <<poolVars, delivered, msgVars, ActionSemaphore, buf>>

\* "release SourceBuffer ONE time (for the sender)"
SendRelease(s) ==
  /\ Goto(s, "push", "leave")
  /\ slot[s] = NumberOfVcs
  /\ releaseBuffer(buf[s])
  /\ UNCHANGED <<queueVars, msgVars, ActionSemaphore, buf, slot>>

\* (Bug: the action semaphore is not given back.)
Bug_LeaveLocked(s) ==
  /\ Goto(s, "leave", "idle")
  /\ UNCHANGED <<poolVars, queueVars, msgVars, ActionSemaphore, buf, slot>>

\* The update signal is triggered and the action semaphore given back.
SendLeave(s) ==
  /\ Goto(s, "leave", "idle")
  /\ ActionSemaphore' = 1
  /\ UNCHANGED <<poolVars, queueVars, msgVars, buf, slot>>

----------------------------------------------------------------------------
(* receiveBuffer(), receiveMessage() and unlockBuffer() *)

\* popBuffer(): m_ReadSemaphore.wait().  A timeout changes nothing.
ReceiveWait(r) ==
  /\ Goto(r, "idle", "pop")
  /\ ReadSemaphore[VcOf[r]] > 0
  /\ ReadSemaphore' = [ReadSemaphore EXCEPT ![VcOf[r]] = @ - 1]
  /\ UNCHANGED <<poolVars, queue, delivered, msgVars, ActionSemaphore, buf, slot>>

\* The element a pop of queue q returns, and what it leaves.
Taken(v, q) == IF v \in Lifo THEN q[Len(q)] ELSE Head(q)
Left(v, q)  == IF v \in Lifo THEN SubSeq(q, 1, Len(q) - 1) ELSE Tail(q)

ReceivePop(r) ==
  LET v == VcOf[r] IN
  /\ Goto(r, "pop", "reading")
  /\ buf' = [buf EXCEPT ![r] = Taken(v, queue[v])]
  /\ queue' = [queue EXCEPT ![v] = Left(v, @)]
  /\ delivered' = [delivered EXCEPT ![v] = Append(@, content[Taken(v, queue[v])])]
  /\ UNCHANGED <<poolVars, ReadSemaphore, msgVars, ActionSemaphore, slot>>

\* unlockBuffer(): "Buffer is not locked" when nobody uses it any more
ReceiveUnlock(r) ==
  /\ Goto(r, "reading", "idle")
  /\ releaseBuffer(buf[r])
  /\ UNCHANGED <<queueVars, msgVars, ActionSemaphore, buf, slot>>

----------------------------------------------------------------------------
claimFreeBuffer(s) == ClaimTest(s) \/ ClaimPop(s) \/ ClaimSet(s)

\* The checks at the start of sendBuffer().  A buffer that is not locked is only met
\* after the race of an overwriting push with a reader (GlobalVcOverwriteRace).
obtainAction(s) ==
  pc[s] = "filled" /\ (SendEnter(s) \/ SendNotLocked(s) \/ EnterTimeout(s))

\* LocalVc::pushBuffer(), which fails only after such a race, too
pushBuffer(s) ==
  /\ pc[s] \in {"push", "undo", "enqueue", "store"}
  /\ \/ PushClaim(s) \/ PushFails(s) \/ PushUndo(s)
     \/ PushOverwrite(s) \/ PushStore(s)

sendBuffer(s) ==
  \/ obtainAction(s)
  \/ WaitForFreeCells(s) \/ CellTimeout(s) \/ StartPushing(s)
  \/ pushBuffer(s)
  \/ SendRelease(s) \/ SendLeave(s)

receive(r) == ReceiveWait(r) \/ ReceivePop(r) \/ ReceiveUnlock(r)

Next ==
  \/ \E s \in Senders : claimFreeBuffer(s) \/ Refused(s) \/ Fill(s) \/ GiveUp(s)
                          \/ sendBuffer(s)
  \/ \E r \in Receivers : receive(r)

Spec == Init /\ [][Next]_vars

\* A thread inside sendBuffer() goes on, and the receiving applications keep
\* receiving.  Claiming, writing and giving up are the senders' own choice.
Fairness ==
  /\ \A s \in Senders : WF_vars(sendBuffer(s))
  /\ \A r \in Receivers : WF_vars(receive(r))

FairSpec == Spec /\ Fairness

----------------------------------------------------------------------------
(* Who uses a buffer *)

\* A sender owns its buffer from the moment the count is set until it has
\* released it; while it pushes it also holds the receiver's reference.
SenderPc  == {"locked", "filled", "waitCells", "push", "undo", "enqueue", "store"}
PushingPc == {"enqueue", "store"}

SenderOwners(b) == {s \in Senders   : pc[s] \in SenderPc /\ buf[s] = b}
PushOwners(b)   == {s \in Senders   : pc[s] \in PushingPc /\ buf[s] = b}
QueueOwners(b)  == {v \in Vc        : b \in Elements(queue[v])}
ReadOwners(b)   == {r \in Receivers : pc[r] = "reading" /\ buf[r] = b}

Owners(b) ==
       {<<"sender", s>> : s \in SenderOwners(b)}
  \cup {<<"push", s>>   : s \in PushOwners(b)}
  \cup {<<"queue", v>>  : v \in QueueOwners(b)}
  \cup {<<"reader", r>> : r \in ReadOwners(b)}

\* A sender has taken b from the free list and not yet set its count.
BeingClaimed(b) == \E s \in Senders : pc[s] = "setCount" /\ buf[s] = b

----------------------------------------------------------------------------
SenderStates   == SenderPc \cup {"idle", "refused", "popFree", "setCount", "leave"}
ReceiverStates == {"idle", "pop", "reading"}

TypeOK ==
  /\ UsageCount \in [Buffer -> Nat]
  /\ FreeBuffersQueue \in Seq(Buffer)
  /\ content \in [Buffer -> Nat]
  /\ queue \in [Vc -> Seq(Buffer)]
  /\ ReadSemaphore \in [Vc -> Nat]
  /\ ActionSemaphore \in {0, 1}
  /\ pc \in [Thread -> SenderStates \cup ReceiverStates]
  /\ buf \in [Thread -> Buffer]
  /\ slot \in [Senders -> 0 .. NumberOfVcs]
  /\ written \in Nat
  /\ delivered \in [Vc -> Seq(Nat)]

\* The usage counter of every buffer is exactly the number of its users: the
\* thread that writes or sends it, the reference being handed to a queue, the
\* queues it waits in and the threads that read it.
CountIsOwners == \A b \in Buffer : UsageCount[b] = Cardinality(Owners(b))

\* The free list holds every buffer nobody uses, once, and no other: none is
\* lost, handed to two senders, or handed out while a receiver still reads it.
FreeListExact ==
  /\ \A i, j \in 1 .. Len(FreeBuffersQueue) :
       FreeBuffersQueue[i] = FreeBuffersQueue[j] => i = j
  /\ \A b \in Buffer :
       b \in Elements(FreeBuffersQueue) <=> (Owners(b) = {} /\ ~BeingClaimed(b))

\* Both, and every variable in its range: the buffers of the channel are accounted for
\* at every step of every thread.
BuffersAccounted == TypeOK /\ CountIsOwners /\ FreeListExact

\* A receiver that has passed m_ReadSemaphore finds a message in the queue,
\* however many receivers and overwriting pushes there are.
Waiting(v) == {r \in Receivers : pc[r] = "pop" /\ VcOf[r] = v}
SemaphoreCountsMessages ==
  \A v \in Vc : ReadSemaphore[v] + Cardinality(Waiting(v)) = Len(queue[v])

\* assert( UsageCount == 0 ) in claimFreeBuffer: a buffer taken from the free list
\* is unused, also where overwriting and late unlocking disturb the counters.
ClaimedBufferUnused ==
  \A s \in Senders : pc[s] = "setCount" => UsageCount[buf[s]] = 0

\* "We've already made sure all buffers should be available for writing"
\* (sendBuffer): once the first loop is through, no push of the second loop
\* meets a full refusing queue, so the message reaches all receivers or none.
AllOrNothing ==
  \A s \in Senders :
    /\ pc[s] \in {"push", "enqueue", "store"} =>
         \A v \in Refusing : v >= slot[s] => ~IsFull(v)
    /\ pc[s] /= "undo"

\* Refusing FIFO vcs deliver the same messages in the same order, also when
\* several threads send: of the streams of two vcs one is a prefix of the other.
Stream(v) == delivered[v] \o [i \in 1 .. Len(queue[v]) |-> content[queue[v][i]]]
SameOrder ==
  \A u, v \in Refusing \ Lifo :
    \A i \in 1 .. Len(Stream(u)) :
      i <= Len(Stream(v)) => Stream(u)[i] = Stream(v)[i]

\* Both: what is sent is the same for every receiver that refuses rather than overwrites.
DeliveredAlike == AllOrNothing /\ SameOrder

\* Every sendBuffer() with an infinite timeout returns, and a message that waits
\* in a queue is taken out.
SendCompletes ==
  /\ \A s \in Senders \ Impatient : pc[s] = "filled" ~> pc[s] \in {"leave", "idle"}
  /\ \A v \in Vc : queue[v] /= <<>> ~> queue[v] = <<>>

\* The buffers of the channel are owned, shared and reclaimed as
\* BufferOwnership.tla promises; in particular a message does not change while
\* it waits in a queue or is being read.
Ownership ==
  INSTANCE BufferOwnership
    WITH owners <- [b \in Buffer |-> Owners(b)], Blank <- 0,
         Message <- 1 .. MaxMessages,
         Owner <- ({"sender", "push"} \X Senders) \cup ({"queue"} \X Vc)
                    \cup ({"reader"} \X Receivers)
ImplementsOwnership ==
  /\ Ownership!Init
  /\ [][ UNCHANGED Ownership!vars \/ Ownership!Next ]_vars

\* "the buffer will only be returned to the free-buffers queue once all
\* receiving local vcs have actually received and read the message" (sendBuffer)
ReadBufferNotFree ==
  \A r \in Receivers :
    pc[r] = "reading" => buf[r] \notin Elements(FreeBuffersQueue)
=============================================================================
