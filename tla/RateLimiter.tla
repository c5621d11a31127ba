------------------------------- MODULE RateLimiter -------------------------------
(* TcRateLimiter: the thread that listens to vcs passes a message on at once or *)
(* queues it, the limiter's thread (PCS::loopRateLimiter) sends what is queued  *)
(* when its time has come.  Nothing locks the queues; the two threads meet in   *)
(* the counters and in two events.                                              *)
EXTENDS Naturals, Sequences, FiniteSets, FiniteSetsExt

CONSTANTS Tcs,
          Queues,               \* 0 .. PCS_MAX_NUMBER_OF_TCS - 1
          QueueSize,            \* PCS_MAX_SIZE_OF_MESSAGEQUEUE
          MaxMessages,          \* bounds the messages of each connection
          Unused                \* OS_UNUSED_ID

RateLimiterAssumption == QueueSize \in Nat \ {0} /\ MaxMessages \in Nat /\ Queues \subseteq Nat
                         /\ Unused \notin Tcs

VARIABLES queue,                \* m_Queues, with due for "time has come"
          changed,              \* m_ConfigurationChangedEvent
          processed,            \* m_MessageProcessedEvent
          listener,             \* where the listening thread stands
          limiter,              \* where the limiter's thread stands
          accepted,             \* messages the listener has taken, per connection
          sent                  \* messages passed to the output consumer, in order

vars == <<queue, changed, processed, listener, limiter, accepted, sent>>

Positions == 0 .. QueueSize - 1
Empty == [tc |-> Unused, counter |-> 0, position |-> 0, free |-> 0, due |-> FALSE,
          buffer |-> [k \in Positions |-> 0]]

Init ==
    /\ queue = [q \in Queues |-> Empty]
    /\ changed = FALSE /\ processed = FALSE
    /\ listener = [at |-> "listen"]
    /\ limiter = [at |-> "reset"]
    /\ accepted = [t \in Tcs |-> 0]
    /\ sent = [t \in Tcs |-> <<>>]

--------------------------------------------------------------------------------
QueuesOf(t) == {q \in Queues : queue[q].tc = t}
getQueue(t) == Min(QueuesOf(t))

(* createTransferConnection() and destroyTransferConnection() both take the     *)
(* first unused queue; one that has a connection is never given back.           *)
setRateLimit(t) ==
    /\ QueuesOf(Unused) # {}
    /\ queue' = [queue EXCEPT ![Min(QueuesOf(Unused))] = [Empty EXCEPT !.tc = t, !.due = TRUE]]
    /\ UNCHANGED <<changed, processed, listener, limiter, accepted, sent>>

(* setNextMessageTime(): the next time, or now if that has passed.              *)
NextTimeOf(q) == \E b \in BOOLEAN : queue' = [queue EXCEPT ![q].due = b]

Tick ==
    /\ \E q \in Queues : queue[q].tc # Unused /\ ~queue[q].due /\ queue' = [queue EXCEPT ![q].due = TRUE]
    /\ UNCHANGED <<changed, processed, listener, limiter, accepted, sent>>

SendsTo(t, m) == sent' = [sent EXCEPT ![t] = Append(@, m)]

--------------------------------------------------------------------------------
(* processTcMessage(): a connection without a queue is not limited.             *)
\* an implementation that sends whenever the time has come
Bug_MaySend(q) == queue[q].due

MaySend(q) == queue[q].due /\ queue[q].counter = 0

processTcMessage(t) ==
    /\ listener.at = "listen" /\ accepted[t] < MaxMessages
    /\ accepted' = [accepted EXCEPT ![t] = @ + 1]
    /\ IF QueuesOf(t) = {}
       THEN SendsTo(t, accepted[t] + 1) /\ UNCHANGED <<queue, changed, listener>>
       ELSE LET q == getQueue(t) IN
            /\ UNCHANGED sent
            /\ IF MaySend(q)
               THEN NextTimeOf(q) /\ changed' = TRUE /\ listener' = [at |-> "send", tc |-> t]
               ELSE listener' = [at |-> "enqueue", tc |-> t] /\ UNCHANGED <<queue, changed>>
    /\ UNCHANGED <<processed, limiter>>

Send ==
    /\ listener.at = "send"
    /\ SendsTo(listener.tc, accepted[listener.tc])
    /\ listener' = [at |-> "listen"]
    /\ UNCHANGED <<queue, changed, processed, limiter, accepted>>

(* enqueueMessage(): waits while the queue is full, copies, and counts.         *)
Wait ==
    /\ listener.at = "enqueue" /\ queue[getQueue(listener.tc)].counter = QueueSize /\ processed
    /\ processed' = FALSE
    /\ UNCHANGED <<queue, changed, listener, limiter, accepted, sent>>

Copy ==
    /\ listener.at = "enqueue"
    /\ LET q == getQueue(listener.tc) IN
       /\ queue[q].counter # QueueSize
       /\ queue' = [queue EXCEPT ![q].buffer[queue[q].free] = accepted[listener.tc],
                                 ![q].free = (@ + 1) % QueueSize]
       /\ listener' = [at |-> "count", tc |-> listener.tc, queue |-> q]
    /\ UNCHANGED <<changed, processed, limiter, accepted, sent>>

Count ==
    /\ listener.at = "count"
    /\ queue' = [queue EXCEPT ![listener.queue].counter = @ + 1]
    /\ changed' = TRUE
    /\ listener' = [at |-> "listen"]
    /\ UNCHANGED <<processed, limiter, accepted, sent>>

--------------------------------------------------------------------------------
(* processNextMessage(): looks for the queue that comes next and waits for its  *)
(* time; any change makes it look again.                                        *)
Nonempty == {q \in Queues : queue[q].tc # Unused /\ queue[q].counter # 0}
getNextMessageIndex ==
    IF \E q \in Nonempty : queue[q].due THEN {q \in Nonempty : queue[q].due} ELSE Nonempty

Reset ==
    /\ limiter.at = "reset"
    /\ changed' = FALSE /\ limiter' = [at |-> "look"]
    /\ UNCHANGED <<queue, processed, listener, accepted, sent>>

Look ==
    /\ limiter.at = "look"
    /\ limiter' \in (IF Nonempty = {} THEN {[at |-> "wait", queue |-> Unused]}
                     ELSE [at : {"wait"}, queue : getNextMessageIndex])
    /\ UNCHANGED <<queue, changed, processed, listener, accepted, sent>>

Woken ==
    /\ limiter.at = "wait" /\ changed
    /\ changed' = FALSE /\ limiter' = [at |-> "look"]
    /\ UNCHANGED <<queue, processed, listener, accepted, sent>>

\* an implementation that counts the message down before it is sent
Bug_Early == 1

Early == 0

TimeHasCome ==
    /\ limiter.at = "wait" /\ ~changed /\ limiter.queue # Unused /\ queue[limiter.queue].due
    /\ limiter' = [limiter EXCEPT !.at = "process"]
    /\ queue' = [queue EXCEPT ![limiter.queue].counter = @ - Early]
    /\ UNCHANGED <<changed, processed, listener, accepted, sent>>

processNextMessage ==
    /\ limiter.at = "process"
    /\ LET q == limiter.queue IN SendsTo(queue[q].tc, queue[q].buffer[queue[q].position])
    /\ limiter' = [limiter EXCEPT !.at = "advance"]
    /\ UNCHANGED <<queue, changed, processed, listener, accepted>>

Advance ==
    /\ limiter.at = "advance"
    /\ queue' = [queue EXCEPT ![limiter.queue].position = (@ + 1) % QueueSize,
                              ![limiter.queue].counter = @ - (1 - Early)]
    /\ limiter' = [limiter EXCEPT !.at = "time"]
    /\ UNCHANGED <<changed, processed, listener, accepted, sent>>

setNextMessageTime ==
    /\ limiter.at = "time"
    /\ NextTimeOf(limiter.queue)
    /\ changed' = TRUE /\ processed' = TRUE
    /\ limiter' = [at |-> "reset"]
    /\ UNCHANGED <<listener, accepted, sent>>

Next ==
    \/ \E t \in Tcs : setRateLimit(t) \/ processTcMessage(t)
    \/ Tick \/ Send \/ Wait \/ Copy \/ Count
    \/ Reset \/ Look \/ Woken \/ TimeHasCome \/ processNextMessage \/ Advance \/ setNextMessageTime

Spec == Init /\ [][Next]_vars

--------------------------------------------------------------------------------
(* Limiting keeps the order and loses nothing: the messages of a connection     *)
(* leave as they came, whether they were queued or passed on at once, and even  *)
(* when the connection was created again.                                       *)
InOrder == \A t \in Tcs : \A k \in DOMAIN sent[t] : sent[t][k] = k

================================================================================
