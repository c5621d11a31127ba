-------------------------- MODULE WaitOnMultiChannel --------------------------
(***************************************************************************)
(* CommunicationManager::waitOnMultiChannel: a thread waits until at least *)
(* min_no_vc of its receiving local vcs hold a message.                    *)
(*                                                                         *)
(* There is one Trigger for all virtual channels (VcUpdateSignal), a       *)
(* counter in shared memory that GlobalVc::sendBuffer increments when a    *)
(* message is in all its queues.  The waiting loop reads the counter,      *)
(* polls its vcs one by one, and sleeps until the counter has moved past   *)
(* the value read.  Polling takes the queue's read semaphore and posts it  *)
(* again (SharedCyclicQueue::waitForAvailableData).                        *)
(*                                                                         *)
(* Of the queues only the read semaphore is kept.  A local vc belongs to   *)
(* one global vc, whose action semaphore lets one thread send at a time:   *)
(* a global vc has one sender here.                                        *)
(***************************************************************************)
EXTENDS Naturals, Sequences, FiniteSets

CONSTANTS
  Waiters, Senders,
  Vc,             \* receiving local vcs
  Calls,          \* the calls considered: functions that give each waiter the
                  \* arguments it calls with
  Receivers,      \* Receivers[s]: the local vcs of the global vc that s sends over
  TriggerModulus, \* 2^width of the trigger counter
  MaxMessages     \* bound: messages sent by one sender

\* The vcs are polled in the order of vc_set_in.
Arguments == [vc_set_in : Seq(Vc), min_no_vc : Nat, finite : BOOLEAN]

ASSUME WaitAssumption ==
  /\ \A c \in Calls, w \in Waiters : c[w] \in Arguments
  /\ Receivers \in [Senders -> SUBSET Vc]
  /\ \A s, t \in Senders : s /= t => Receivers[s] \cap Receivers[t] = {}
  /\ TriggerModulus \in Nat \ {0}
  /\ MaxMessages \in Nat

VARIABLES
  ReadSemaphore,   \* per vc
  TriggerValue,
  spc, todo, sent, \* per sender: in sendBuffer?, queues still to be pushed to, messages
  call,            \* per waiter: the arguments of its calls
  pc,              \* per waiter
  TriggerState,    \* per waiter: the counter value it read
  Index,           \* per waiter: position in vc_set_in
  vc_set_out,      \* per waiter: vcs found available in this round
  received         \* per vc: messages taken out

senderVars == <<spc, todo, sent>>
waiterVars == <<pc, TriggerState, Index, vc_set_out>>
vars == <<ReadSemaphore, TriggerValue, senderVars, call, waiterVars, received>>

Init ==
  /\ ReadSemaphore = [v \in Vc |-> 0]
  /\ TriggerValue = 0
  /\ spc = [s \in Senders |-> "idle"]
  /\ todo = [s \in Senders |-> {}]
  /\ sent = [s \in Senders |-> 0]
  /\ call \in Calls
  /\ pc = [w \in Waiters |-> "idle"]
  /\ TriggerState = [w \in Waiters |-> 0]
  /\ Index = [w \in Waiters |-> 1]
  /\ vc_set_out = [w \in Waiters |-> {}]
  /\ received = [v \in Vc |-> 0]

----------------------------------------------------------------------------
(* The end of GlobalVc::sendBuffer, all checks passed *)

SendBegin(s) ==
  /\ spc[s] = "idle" /\ sent[s] < MaxMessages
  /\ spc' = [spc EXCEPT ![s] = "sending"]
  /\ todo' = [todo EXCEPT ![s] = Receivers[s]]
  /\ sent' = [sent EXCEPT ![s] = @ + 1]
  /\ UNCHANGED <<call, ReadSemaphore, TriggerValue, waiterVars, received>>

PushOne(s) ==
  /\ spc[s] = "sending"
  /\ \E v \in todo[s] :
       /\ todo' = [todo EXCEPT ![s] = @ \ {v}]
       /\ ReadSemaphore' = [ReadSemaphore EXCEPT ![v] = @ + 1]
  /\ UNCHANGED <<call, TriggerValue, spc, sent, waiterVars, received>>

\* Trigger::trigger()
trigger(s) ==
  /\ spc[s] = "sending" /\ todo[s] = {}
  /\ TriggerValue' = (TriggerValue + 1) % TriggerModulus
  /\ spc' = [spc EXCEPT ![s] = "idle"]
  /\ UNCHANGED <<call, ReadSemaphore, todo, sent, waiterVars, received>>

----------------------------------------------------------------------------
(* waitOnMultiChannel() *)

Goto(w, from, to) == pc[w] = from /\ pc' = [pc EXCEPT ![w] = to]
VcSetIn(w) == call[w].vc_set_in
MinNoVc(w) == call[w].min_no_vc
Polled(w)  == VcSetIn(w)[Index[w]]

Enter(w) ==
  /\ Goto(w, "idle", "round")
  /\ UNCHANGED <<call, ReadSemaphore, TriggerValue, senderVars, TriggerState, Index,
                 vc_set_out, received>>

\* A round of the waiting loop begins: getTriggerState()
StartRound(w) ==
  /\ Goto(w, "round", "poll")
  /\ TriggerState' = [TriggerState EXCEPT ![w] = TriggerValue]
  /\ Index' = [Index EXCEPT ![w] = 1]
  /\ vc_set_out' = [vc_set_out EXCEPT ![w] = {}]
  /\ UNCHANGED <<call, ReadSemaphore, TriggerValue, senderVars, received>>

\* waitForAvailableData(), which does not wait: the semaphore is taken ...
PollHit(w) ==
  /\ Index[w] <= Len(VcSetIn(w))
  /\ Goto(w, "poll", "post")
  /\ ReadSemaphore[Polled(w)] > 0
  /\ ReadSemaphore' = [ReadSemaphore EXCEPT ![Polled(w)] = @ - 1]
  /\ UNCHANGED <<call, TriggerValue, senderVars, TriggerState, Index, vc_set_out, received>>

PollMiss(w) ==
  /\ Index[w] <= Len(VcSetIn(w))
  /\ pc[w] = "poll"
  /\ ReadSemaphore[Polled(w)] = 0
  /\ Index' = [Index EXCEPT ![w] = @ + 1]
  /\ UNCHANGED <<call, ReadSemaphore, TriggerValue, senderVars, pc, TriggerState, vc_set_out, received>>

\* (Bug: the semaphore taken while polling is kept.)
Bug_PollKeeps(w) ==
  /\ Goto(w, "post", "poll")
  /\ vc_set_out' = [vc_set_out EXCEPT ![w] = @ \cup {Polled(w)}]
  /\ Index' = [Index EXCEPT ![w] = @ + 1]
  /\ UNCHANGED <<call, ReadSemaphore, TriggerValue, senderVars, TriggerState, received>>

\* ... and given back right away.
PollPost(w) ==
  /\ Goto(w, "post", "poll")
  /\ ReadSemaphore' = [ReadSemaphore EXCEPT ![Polled(w)] = @ + 1]
  /\ vc_set_out' = [vc_set_out EXCEPT ![w] = @ \cup {Polled(w)}]
  /\ Index' = [Index EXCEPT ![w] = @ + 1]
  /\ UNCHANGED <<call, TriggerValue, senderVars, TriggerState, received>>

\* (Bug: the counter is read again when the loop is about to sleep.)
Bug_DecideReadsState(w) ==
  /\ Index[w] > Len(VcSetIn(w))
  /\ Goto(w, "poll", IF Cardinality(vc_set_out[w]) >= MinNoVc(w) THEN "done" ELSE "wait")
  /\ TriggerState' = [TriggerState EXCEPT ![w] = TriggerValue]
  /\ UNCHANGED <<call, ReadSemaphore, TriggerValue, senderVars, Index, vc_set_out, received>>

Decide(w) ==
  /\ Index[w] > Len(VcSetIn(w))
  /\ Goto(w, "poll", IF Cardinality(vc_set_out[w]) >= MinNoVc(w) THEN "done" ELSE "wait")
  /\ UNCHANGED <<call, ReadSemaphore, TriggerValue, senderVars, TriggerState, Index,
                 vc_set_out, received>>

\* The condition of the loop in waitForTrigger()
Asleep(w) == pc[w] = "wait" /\ TriggerValue <= TriggerState[w]

Wake(w) ==
  /\ ~Asleep(w) /\ Goto(w, "wait", "round")
  /\ UNCHANGED <<call, ReadSemaphore, TriggerValue, senderVars, TriggerState, Index,
                 vc_set_out, received>>

\* waitForTrigger() throws a TimeoutException, also when the counter has moved.
Timeout(w) ==
  /\ call[w].finite
  /\ Goto(w, "wait", "idle")
  /\ UNCHANGED <<call, ReadSemaphore, TriggerValue, senderVars, TriggerState, Index,
                 vc_set_out, received>>

\* (Bug: the caller takes it for granted that the messages are still there.)
Bug_LeaveUnchecked(w) ==
  /\ Goto(w, "done", "idle")
  /\ \E vs \in {{}, vc_set_out[w]} :
       /\ ReadSemaphore' = [v \in Vc |-> ReadSemaphore[v] - IF v \in vs THEN 1 ELSE 0]
       /\ received' = [v \in Vc |-> received[v] + IF v \in vs THEN 1 ELSE 0]
  /\ UNCHANGED <<call, TriggerValue, senderVars, TriggerState, Index, vc_set_out>>

\* The caller receives one message from every vc of vc_set_out without waiting
\* (as VcListener::listen does), or leaves them for now.
Leave(w) ==
  /\ Goto(w, "done", "idle")
  /\ \E vs \in {{}, {v \in vc_set_out[w] : ReadSemaphore[v] > 0}} :
       /\ ReadSemaphore' = [v \in Vc |-> ReadSemaphore[v] - IF v \in vs THEN 1 ELSE 0]
       /\ received' = [v \in Vc |-> received[v] + IF v \in vs THEN 1 ELSE 0]
  /\ UNCHANGED <<call, TriggerValue, senderVars, TriggerState, Index, vc_set_out>>

----------------------------------------------------------------------------
sendBuffer(s) == SendBegin(s) \/ PushOne(s) \/ trigger(s)

Round(w) == \/ StartRound(w) \/ PollHit(w) \/ PollMiss(w) \/ PollPost(w)
            \/ Decide(w) \/ Wake(w)

waitOnMultiChannel(w) == Enter(w) \/ Round(w) \/ Timeout(w) \/ Leave(w)

Next == \/ \E s \in Senders : sendBuffer(s)
        \/ \E w \in Waiters : waitOnMultiChannel(w)

Spec == Init /\ [][Next]_vars

\* A sender finishes a message it has begun, and a thread that is awake runs.
Fairness ==
  /\ \A s \in Senders : WF_vars(PushOne(s) \/ trigger(s))
  /\ \A w \in Waiters : WF_vars(Round(w))
FairSpec == Spec /\ Fairness

----------------------------------------------------------------------------
TypeOK ==
  /\ ReadSemaphore \in [Vc -> Nat]
  /\ TriggerValue \in 0 .. TriggerModulus - 1
  /\ spc \in [Senders -> {"idle", "sending"}]
  /\ todo \in [Senders -> SUBSET Vc]
  /\ sent \in [Senders -> 0 .. MaxMessages]
  /\ pc \in [Waiters -> {"idle", "round", "poll", "post", "wait", "done"}]
  /\ TriggerState \in [Waiters -> 0 .. TriggerModulus - 1]
  /\ Index \in [Waiters -> Nat] /\ \A w \in Waiters : Index[w] \in 1 .. Len(VcSetIn(w)) + 1
  /\ call \in Calls
  /\ vc_set_out \in [Waiters -> SUBSET Vc]
  /\ received \in [Vc -> Nat]

Watched(w) == {VcSetIn(w)[i] : i \in DOMAIN VcSetIn(w)}
Ready(w)   == {v \in Watched(w) : ReadSemaphore[v] > 0}

\* A vc is meant to have one receiving thread.
Alone(w) == \A u \in Waiters : u /= w => Watched(u) \cap Watched(w) = {}

\* No wake-up is lost: while no message is on its way into the queues and no vc
\* is being polled, a waiter whose vcs nobody else waits on sleeps only if too few
\* of them hold a message.
Quiet == /\ \A s \in Senders : spc[s] = "idle"
         /\ \A w \in Waiters : pc[w] /= "post"
SleepsForAReason ==
  Quiet => \A w \in Waiters :
             Alone(w) /\ Asleep(w) => Cardinality(Ready(w)) < MinNoVc(w)

\* "released on any write operation to a virtual channel, so waiting threads can
\* re-evaluate their list of virtual channels to wait on" (VcUpdateSignal.hh): the
\* same for every waiter, whatever the others wait on.
\* The code does not keep this where waiters share a channel: one of them
\* borrows the semaphore of the other.
AllSleepForAReason ==
  Quiet => \A w \in Waiters : Asleep(w) => Cardinality(Ready(w)) < MinNoVc(w)

\* Looking for messages neither loses nor duplicates any, however many threads
\* poll the same vc: what was sent is in the queue, in a poller's hand or received.
InHand(v) == Cardinality({w \in Waiters : pc[w] = "post" /\ Polled(w) = v})
Pushes(v) == {m \in Senders \X (1 .. MaxMessages) :
                /\ v \in Receivers[m[1]] /\ m[2] <= sent[m[1]]
                /\ m[2] < sent[m[1]] \/ v \notin todo[m[1]]}
NoMessageLost ==
  \A v \in Vc : ReadSemaphore[v] + InHand(v) + received[v] = Cardinality(Pushes(v))

\* Both, and every variable in its range: waiting neither misses a message nor takes one.
WaitersWake == TypeOK /\ SleepsForAReason /\ NoMessageLost

\* "waiting threads can re-evaluate their list of virtual channels" (VcUpdateSignal):
\* a thread in the waiting loop with enough messages waiting for it gets out of it,
\* if nobody else waits on its vcs.
WaiterReturns ==
  \A w \in Waiters :
    (Alone(w) /\ pc[w] = "wait" /\ Cardinality(Ready(w)) >= MinNoVc(w)) ~> (pc[w] \in {"done", "idle"})
===============================================================================
