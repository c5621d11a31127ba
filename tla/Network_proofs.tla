------------------------------ MODULE Network_proofs ------------------------------
(* What the components of MCNetwork promise, for every value of their constants:  *)
(* the network interface keeps its sockets and buffers, the rate limiter its       *)
(* order, the tables of the PCS what is attached, the PCS forwards messages in the  *)
(* order they were sent, both nodes of the GLI compute one key, and a client of the *)
(* OLI stores the file of the server.                                              *)
(*                                                                                 *)
(* A behaviour exercises one component and the others stay: each invariant is one   *)
(* of its component alone, kept by its steps and by those of the others.            *)
EXTENDS MCNetwork, Integers, Functions, FiniteSetTheorems, SequenceTheorems, WellFoundedInduction, TLAPS

(* RateLimiter: a connection has the first queue that names it.                   *)
(*                                                                                *)
(* The ring of that queue holds the messages behind those that were sent, in      *)
(* order; one more than counted while the listener is about to count it, and one  *)
(* that was sent while the limiter is about to take it out.  The listener holds   *)
(* at most the message behind those in the ring.                                  *)
QueueRecord == [tc : Tcs \cup {None}, counter : Nat, position : 0 .. QueueSize - 1, free : 0 .. QueueSize - 1,
                due : BOOLEAN, buffer : [0 .. QueueSize - 1 -> Nat]]

LimiterType ==
    /\ queue \in [Queues -> QueueRecord]
    /\ accepted \in [Tcs -> Nat] /\ sent \in [Tcs -> Seq(Nat)]
    /\ listener.at \in {"listen", "send", "enqueue", "count"}
    /\ listener.at \in {"send", "enqueue", "count"} => listener.tc \in Tcs
    /\ listener.at = "count" => listener.queue \in Queues
    /\ limiter.at \in {"reset", "look", "wait", "process", "advance", "time"}
    /\ limiter.at \in {"wait", "process", "advance", "time"} =>
            limiter \in [at : {"wait", "process", "advance", "time"}, queue : Queues \cup {None}]

Serves(q, t) == queue[q].tc = t /\ \A p \in Queues : queue[p].tc = t => q <= p

(* Queues are taken in their order, and a second one of a connection stays empty. *)
QueuesTaken ==
    /\ \A p, q \in Queues : queue[p].tc = None /\ queue[q].tc # None => q < p
    /\ \A q \in Queues : queue[q].counter # 0 => queue[q].tc # None /\ Serves(q, queue[q].tc)

(* The queue the limiter works on has a message, which only the limiter takes.    *)
LimiterWorks ==
    /\ limiter.at = "wait" /\ limiter.queue # None => queue[limiter.queue].counter # 0
    /\ limiter.at \in {"process", "advance"} => limiter.queue \in Queues /\ queue[limiter.queue].counter # 0
    /\ limiter.at = "time" => limiter.queue \in Queues

ListenerWorks ==
    /\ listener.at \in {"send", "enqueue"} => \E q \in Queues : queue[q].tc = listener.tc
    /\ listener.at = "send" => \A q \in Queues : Serves(q, listener.tc) => queue[q].counter = 0
    /\ listener.at = "count" => Serves(listener.queue, listener.tc)

TakenOut(q) == IF limiter.at = "advance" /\ limiter.queue = q THEN 1 ELSE 0
Copied(q) == IF listener.at = "count" /\ listener.queue = q THEN 1 ELSE 0
InHand(t) == IF listener.at \in {"send", "enqueue"} /\ listener.tc = t THEN 1 ELSE 0
InRing(q) == queue[q].counter + Copied(q)
Around(n) == IF n < QueueSize THEN n ELSE n - QueueSize

RingHolds(q, t) ==
    LET n == Len(sent[t]) - TakenOut(q) IN
    /\ InRing(q) <= QueueSize
    /\ queue[q].free = Around(queue[q].position + InRing(q))
    /\ \A k \in 0 .. InRing(q) - 1 : queue[q].buffer[Around(queue[q].position + k)] = n + k + 1
    /\ accepted[t] = n + InRing(q) + InHand(t)

RingsHold == \A t \in Tcs, q \in Queues : Serves(q, t) => RingHolds(q, t)
Unlimited == \A t \in Tcs : (\A q \in Queues : queue[q].tc # t) => accepted[t] = Len(sent[t])

LimiterInv ==
    LimiterType /\ QueuesTaken /\ LimiterWorks /\ ListenerWorks /\ RingsHold /\ Unlimited /\ InOrder

LEMMA LeastIs ==
  ASSUME NEW S \in SUBSET Nat, S # {}
  PROVE  \E x \in S : \A y \in S : x <= y
  <1>1. IsWellFoundedOn(OpToRel(<, Nat), Nat)
    BY NatLessThanWellFounded
  <1>2. PICK x \in S : \A y \in S : ~ (<<y, x>> \in OpToRel(<, Nat))
    BY <1>1, WFMin
  <1>3. \A y \in S : ~ (y < x)
    BY <1>2 DEF OpToRel
  <1> QED BY <1>3

LEMMA MinIs ==
  ASSUME NEW S \in SUBSET Nat, S # {}
  PROVE  Limiter!Min(S) \in S /\ \A y \in S : Limiter!Min(S) <= y
  BY LeastIs DEF Limiter!Min

LEMMA NextIs ==
  ASSUME NEW n \in Nat \ {0}, NEW k \in 0 .. n - 1
  PROVE  (k + 1) % n = IF k + 1 < n THEN k + 1 ELSE 0
  <1>1. k + 1 < n \/ k + 1 = n
    OBVIOUS
  <1>2. k + 1 < n => (k + 1) % n = k + 1
    OBVIOUS
  <1>3. n % n = 0
    OBVIOUS
  <1> QED BY <1>1, <1>2, <1>3

LEMMA LimiterFacts ==
  ASSUME Assumptions
  PROVE  QueueSize \in Nat \ {0} /\ Queues \subseteq Nat /\ None \notin Tcs
  BY DEF Assumptions, Limiter!RateLimiterAssumption

LEMMA ServesOne ==
  ASSUME Assumptions, NEW p \in Queues, NEW q \in Queues, NEW t, Serves(p, t), Serves(q, t)
  PROVE  p = q
  <1>1. p <= q /\ q <= p /\ p \in Nat /\ q \in Nat
    BY LimiterFacts DEF Serves
  <1> QED BY <1>1

LEMMA SomeServes ==
  ASSUME Assumptions, NEW t, \E q \in Queues : queue[q].tc = t
  PROVE  Limiter!getQueue(t) \in Queues /\ Serves(Limiter!getQueue(t), t)
  <1>1. Limiter!QueuesOf(t) \in SUBSET Nat /\ Limiter!QueuesOf(t) # {}
    BY LimiterFacts DEF Limiter!QueuesOf
  <1>2. Limiter!getQueue(t) \in Limiter!QueuesOf(t) /\ \A y \in Limiter!QueuesOf(t) : Limiter!getQueue(t) <= y
    BY <1>1, MinIs DEF Limiter!getQueue
  <1> QED BY <1>2 DEF Limiter!QueuesOf, Serves

(* What a step leaves of a queue unless it is about that queue.                   *)
Kept(p) ==
    /\ queue'[p].counter = queue[p].counter /\ queue'[p].position = queue[p].position
    /\ queue'[p].free = queue[p].free /\ queue'[p].buffer = queue[p].buffer
    /\ Copied(p)' = Copied(p) /\ TakenOut(p)' = TakenOut(p)

ConnectionKept(u) == sent'[u] = sent[u] /\ accepted'[u] = accepted[u] /\ InHand(u)' = InHand(u)

LEMMA RingKept ==
  ASSUME NEW p \in Queues, NEW u \in Tcs, Kept(p), ConnectionKept(u), RingHolds(p, u)
  PROVE  RingHolds(p, u)'
  <1>1. InRing(p)' = InRing(p)
    BY DEF Kept, InRing
  <1> QED BY <1>1 DEF Kept, ConnectionKept, RingHolds, Around

LEMMA RingsKept ==
  ASSUME LimiterInv, \A p \in Queues : queue'[p].tc = queue[p].tc /\ Kept(p), \A u \in Tcs : ConnectionKept(u)
  PROVE  QueuesTaken' /\ RingsHold' /\ Unlimited' /\ InOrder'
  <1>1. \A p \in Queues : \A u : Serves(p, u)' <=> Serves(p, u)
    BY DEF Serves
  <1>2. QueuesTaken'
    BY <1>1 DEF LimiterInv, QueuesTaken, Kept
  <1>3. RingsHold'
    BY <1>1, RingKept DEF LimiterInv, RingsHold
  <1>4. Unlimited'
    BY DEF LimiterInv, Unlimited, ConnectionKept
  <1>5. InOrder'
    BY DEF LimiterInv, InOrder, Limiter!InOrder, ConnectionKept
  <1> QED BY <1>2, <1>3, <1>4, <1>5

(* A step that is about one connection and its queue.                             *)
LEMMA OneRingChanges ==
  ASSUME Assumptions, LimiterInv, NEW q \in Queues, NEW t \in Tcs, Serves(q, t),
         \A p \in Queues : queue'[p].tc = queue[p].tc,
         \A p \in Queues \ {q} : Kept(p), \A u \in Tcs \ {t} : ConnectionKept(u),
         RingHolds(q, t)', \A k \in DOMAIN sent'[t] : sent'[t][k] = k
  PROVE  QueuesTaken' /\ RingsHold' /\ Unlimited' /\ InOrder'
  <1>1. \A p \in Queues : \A u : Serves(p, u)' <=> Serves(p, u)
    BY DEF Serves
  <1>2. QueuesTaken'
    <2>1. queue[q].tc = t /\ t # None
      BY LimiterFacts DEF Serves
    <2>2. \A p, r \in Queues : queue'[r].tc = None /\ queue'[p].tc # None => p < r
      BY DEF LimiterInv, QueuesTaken
    <2>3. ASSUME NEW p \in Queues, queue'[p].counter # 0 PROVE queue'[p].tc # None /\ Serves(p, queue[p].tc)
      BY <2>1, <2>3 DEF LimiterInv, QueuesTaken, Kept
    <2> QED BY <1>1, <2>2, <2>3 DEF QueuesTaken
  <1>3. RingsHold'
    <2> SUFFICES ASSUME NEW u \in Tcs, NEW p \in Queues, Serves(p, u)' PROVE RingHolds(p, u)'
      BY DEF RingsHold
    <2>1. CASE p = q
      BY <1>1, <2>1 DEF Serves
    <2>2. CASE p # q
      <3>1. u # t /\ Serves(p, u)
        BY <1>1, <2>2, ServesOne
      <3> QED BY <2>2, <3>1, RingKept DEF LimiterInv, RingsHold
    <2> QED BY <2>1, <2>2
  <1>4. Unlimited'
    BY DEF LimiterInv, Unlimited, ConnectionKept, Serves
  <1>5. InOrder'
    BY DEF LimiterInv, InOrder, Limiter!InOrder, ConnectionKept
  <1> QED BY <1>2, <1>3, <1>4, <1>5

LEMMA LimiterInit == Assumptions /\ Limiter!Init => LimiterInv
  <1> SUFFICES ASSUME Assumptions, Limiter!Init PROVE LimiterInv
    OBVIOUS
  <1>1. /\ queue = [q \in Queues |-> Limiter!Empty] /\ listener.at = "listen" /\ limiter.at = "reset"
        /\ accepted = [t \in Tcs |-> 0] /\ sent = [t \in Tcs |-> <<>>]
    BY DEF Limiter!Init
  <1>2. Limiter!Empty \in QueueRecord /\ Limiter!Empty.counter = 0 /\ Limiter!Empty.tc = None
    <2>1. 0 \in 0 .. QueueSize - 1
      BY LimiterFacts
    <2> QED BY <2>1 DEF Limiter!Empty, Limiter!Positions, QueueRecord
  <1>3. LimiterType
    <2>1. <<>> \in Seq(Nat)
      OBVIOUS
    <2> QED BY <1>1, <1>2, <2>1 DEF LimiterType
  <1>4. QueuesTaken /\ LimiterWorks /\ ListenerWorks
    BY <1>1, <1>2 DEF QueuesTaken, LimiterWorks, ListenerWorks
  <1>5. RingsHold
    BY <1>1, <1>2, LimiterFacts DEF RingsHold, Serves
  <1>6. Unlimited /\ InOrder
    BY <1>1 DEF Unlimited, InOrder, Limiter!InOrder
  <1> QED BY <1>3, <1>4, <1>5, <1>6 DEF LimiterInv

(* A second queue of a connection comes behind the first.                         *)
LEMMA LimiterQueues ==
  ASSUME Assumptions, LimiterInv, NEW t \in Tcs, Limiter!setRateLimit(t)
  PROVE  LimiterInv'
  <1>1. PICK m \in Queues : /\ m = Limiter!Min(Limiter!QueuesOf(None)) /\ queue[m].tc = None
                            /\ \A q \in Queues : queue[q].tc = None => m <= q
    <2>1. Limiter!QueuesOf(None) \in SUBSET Nat /\ Limiter!QueuesOf(None) # {}
      BY LimiterFacts DEF Limiter!QueuesOf, Limiter!setRateLimit
    <2>2. Limiter!Min(Limiter!QueuesOf(None)) \in Limiter!QueuesOf(None)
          /\ \A q \in Limiter!QueuesOf(None) : Limiter!Min(Limiter!QueuesOf(None)) <= q
      BY <2>1, MinIs
    <2> QED BY <2>2 DEF Limiter!QueuesOf
  <1>2. /\ queue' = [queue EXCEPT ![m] = [Limiter!Empty EXCEPT !.tc = t, !.due = TRUE]]
        /\ UNCHANGED <<listener, limiter, accepted, sent>>
    BY <1>1 DEF Limiter!setRateLimit
  <1>3. PICK e \in QueueRecord : /\ e = [Limiter!Empty EXCEPT !.tc = t, !.due = TRUE]
                                 /\ e.tc = t /\ e.counter = 0 /\ e.position = 0 /\ e.free = 0
    <2>1. 0 \in 0 .. QueueSize - 1
      BY LimiterFacts
    <2>2. [Limiter!Empty EXCEPT !.tc = t, !.due = TRUE] \in QueueRecord
      BY <2>1 DEF Limiter!Empty, Limiter!Positions, QueueRecord
    <2> QED BY <2>2 DEF Limiter!Empty
  <1>4. queue' = [queue EXCEPT ![m] = e]
    BY <1>2, <1>3
  <1>5. \A q \in Queues : queue'[q] = IF q = m THEN e ELSE queue[q]
    BY <1>4 DEF LimiterInv, LimiterType
  <1>6. None \notin Tcs /\ t # None /\ Queues \subseteq Nat
    BY LimiterFacts
  <1>7. \A q \in Queues : queue[q].tc # None => q < m
    BY <1>1 DEF LimiterInv, QueuesTaken
  <1>8. \A q \in Queues, u \in Tcs : q # m => (Serves(q, u)' <=> Serves(q, u))
    <2> SUFFICES ASSUME NEW q \in Queues, NEW u \in Tcs, q # m PROVE Serves(q, u)' <=> Serves(q, u)
      OBVIOUS
    <2>1. queue[q].tc = u => q <= m
      BY <1>6, <1>7, <1>1
    <2> QED BY <1>1, <1>3, <1>5, <1>6, <2>1 DEF Serves
  <1>9. ASSUME NEW u \in Tcs, Serves(m, u)' PROVE u = t /\ \A q \in Queues : queue[q].tc # t
    <2>1. u = t
      BY <1>1, <1>3, <1>5, <1>9 DEF Serves
    <2>2. \A q \in Queues : queue[q].tc = t => m <= q
      BY <1>1, <1>5, <1>6, <1>9, <2>1 DEF Serves
    <2>3. \A q \in Queues : queue[q].tc = t => q < m
      BY <1>6, <1>7
    <2> QED BY <1>1, <1>6, <2>1, <2>2, <2>3
  <1>10. LimiterType'
    <2>1. queue' \in [Queues -> QueueRecord]
      BY <1>3, <1>4 DEF LimiterInv, LimiterType
    <2> QED BY <1>2, <2>1 DEF LimiterInv, LimiterType
  <1>11. QueuesTaken'
    <2>1. ASSUME NEW p \in Queues, NEW q \in Queues, queue'[p].tc = None, queue'[q].tc # None PROVE q < p
      <3>1. p # m /\ queue[p].tc = None
        BY <1>3, <1>5, <1>6, <2>1
      <3>2. q = m \/ queue[q].tc # None
        BY <1>5, <2>1
      <3>3. m <= p /\ (queue[q].tc # None => q < p)
        BY <1>1, <3>1 DEF LimiterInv, QueuesTaken
      <3> QED BY <1>1, <1>6, <3>1, <3>2, <3>3
    <2>2. ASSUME NEW q \in Queues, queue'[q].counter # 0 PROVE (queue[q].tc # None /\ Serves(q, queue[q].tc))'
      <3>1. q # m /\ queue'[q] = queue[q] /\ queue[q].counter # 0
        BY <1>3, <1>5, <2>2
      <3>2. queue[q].tc # None /\ Serves(q, queue[q].tc) /\ queue[q].tc \in Tcs
        BY <3>1 DEF LimiterInv, QueuesTaken, LimiterType, QueueRecord
      <3>3. PICK u \in Tcs : u = queue[q].tc
        BY <3>2
      <3>4. Serves(q, u)' /\ queue'[q].tc = u /\ u # None
        BY <1>6, <1>8, <3>1, <3>2, <3>3
      <3> QED BY <3>4
    <2> QED BY <2>1, <2>2 DEF QueuesTaken
  <1>12. LimiterWorks'
    BY <1>1, <1>2, <1>5 DEF LimiterInv, LimiterWorks, LimiterType, QueuesTaken
  <1>13. \A q \in Queues, u \in Tcs : Serves(q, u)' => queue'[q].counter = 0 \/ Serves(q, u)
    BY <1>3, <1>5, <1>8
  <1>14. ListenerWorks'
    <2>1. \A u \in Tcs : (\E q \in Queues : queue[q].tc = u) => (\E q \in Queues : queue'[q].tc = u)
      BY <1>1, <1>5, <1>6
    <2>2. listener.at = "count" => listener.queue # m /\ listener.queue \in Queues /\ listener.tc \in Tcs
      BY <1>1, <1>6 DEF LimiterInv, LimiterType, ListenerWorks, Serves
    <2>3. listener.at = "count" => Serves(listener.queue, listener.tc)'
      BY <1>2, <1>8, <2>2 DEF LimiterInv, ListenerWorks, Serves
    <2>4. listener.at = "send" => \A q \in Queues : Serves(q, listener.tc)' => queue'[q].counter = 0
      <3> SUFFICES ASSUME listener.at = "send", NEW q \in Queues, Serves(q, listener.tc)' PROVE queue'[q].counter = 0
        OBVIOUS
      <3>1. listener.tc \in Tcs /\ listener' = listener
        BY <1>2 DEF LimiterInv, LimiterType
      <3>2. CASE q = m
        BY <1>3, <1>5, <3>2
      <3>3. CASE q # m
        <4>1. Serves(q, listener.tc)
          BY <1>8, <3>1, <3>3 DEF Serves
        <4> QED BY <1>5, <3>3, <4>1 DEF LimiterInv, ListenerWorks
      <3> QED BY <3>2, <3>3
    <2>5. listener' = listener
      BY <1>2
    <2>6. listener.at \in {"send", "enqueue"} => \E q \in Queues : queue'[q].tc = listener.tc
      <3>1. listener.at \in {"send", "enqueue"} => listener.tc \in Tcs /\ \E q \in Queues : queue[q].tc = listener.tc
        BY DEF LimiterInv, LimiterType, ListenerWorks
      <3> QED BY <2>1, <3>1
    <2> QED BY <2>2, <2>3, <2>4, <2>5, <2>6 DEF ListenerWorks
  <1>15. RingsHold'
    <2> SUFFICES ASSUME NEW u \in Tcs, NEW q \in Queues, Serves(q, u)' PROVE RingHolds(q, u)'
      BY DEF RingsHold
    <2>1. CASE q # m
      <3>1. Serves(q, u) /\ queue'[q] = queue[q]
        BY <1>5, <1>8, <2>1
      <3>2. Kept(q) /\ ConnectionKept(u)
        BY <1>2, <3>1 DEF Kept, ConnectionKept, Copied, TakenOut, InHand
      <3> QED BY <3>1, <3>2, RingKept DEF LimiterInv, RingsHold
    <2>2. CASE q = m
      <3>1. u = t /\ \A p \in Queues : queue[p].tc # t
        BY <1>9, <2>2
      <3>2. accepted[u] = Len(sent[u]) /\ Len(sent[u]) \in Nat
        BY <3>1 DEF LimiterInv, Unlimited, LimiterType
      <3>3. Copied(m)' = 0 /\ TakenOut(m)' = 0 /\ InHand(u)' = 0
        <4>1. listener.at = "count" => listener.queue # m
          BY <1>1, <1>6 DEF LimiterInv, LimiterType, ListenerWorks, Serves
        <4>2. limiter.at = "advance" => limiter.queue # m
          BY <1>1 DEF LimiterInv, LimiterWorks, QueuesTaken
        <4>3. listener.at \in {"send", "enqueue"} => listener.tc # u
          BY <3>1 DEF LimiterInv, ListenerWorks
        <4> QED BY <1>2, <4>1, <4>2, <4>3 DEF Copied, TakenOut, InHand
      <3>4. queue'[m].counter = 0 /\ queue'[m].position = 0 /\ queue'[m].free = 0
        BY <1>3, <1>5
      <3>5. InRing(m)' = 0
        BY <3>3, <3>4 DEF InRing
      <3>6. Len(sent'[u]) - TakenOut(m)' = Len(sent[u]) /\ accepted'[u] = Len(sent[u])
        BY <1>2, <3>2, <3>3
      <3>7. RingHolds(m, u)'
        BY <3>2, <3>3, <3>4, <3>5, <3>6, LimiterFacts DEF RingHolds, Around
      <3> QED BY <2>2, <3>7
    <2> QED BY <2>1, <2>2
  <1>16. Unlimited'
    <2>1. \A u \in Tcs : (\A q \in Queues : queue'[q].tc # u) => \A q \in Queues : queue[q].tc # u
      BY <1>1, <1>5, <1>6
    <2> QED BY <1>2, <2>1 DEF LimiterInv, Unlimited
  <1>17. InOrder'
    BY <1>2 DEF LimiterInv, InOrder, Limiter!InOrder
  <1> QED BY <1>10, <1>11, <1>12, <1>14, <1>15, <1>16, <1>17 DEF LimiterInv

(* setNextMessageTime() and the clock touch the time of a queue only.             *)
OnlyDue ==
    /\ queue' \in [Queues -> QueueRecord]
    /\ \A p \in Queues : /\ queue'[p].tc = queue[p].tc /\ queue'[p].counter = queue[p].counter
                         /\ queue'[p].position = queue[p].position /\ queue'[p].free = queue[p].free
                         /\ queue'[p].buffer = queue[p].buffer

LEMMA DueIsOnlyDue ==
  ASSUME LimiterInv, NEW q \in Queues, NEW b \in BOOLEAN, queue' = [queue EXCEPT ![q].due = b]
  PROVE  OnlyDue
  <1>1. queue[q] \in QueueRecord
    BY DEF LimiterInv, LimiterType
  <1>2. [queue[q] EXCEPT !.due = b] \in QueueRecord
    BY <1>1 DEF QueueRecord
  <1>3. queue' = [queue EXCEPT ![q] = [queue[q] EXCEPT !.due = b]]
    OBVIOUS
  <1>4. queue' \in [Queues -> QueueRecord]
    BY <1>2, <1>3 DEF LimiterInv, LimiterType
  <1>5. \A p \in Queues : queue'[p] = IF p = q THEN [queue[q] EXCEPT !.due = b] ELSE queue[p]
    BY <1>3 DEF LimiterInv, LimiterType
  <1>6. queue'[q].tc = queue[q].tc /\ queue'[q].counter = queue[q].counter
        /\ queue'[q].position = queue[q].position /\ queue'[q].free = queue[q].free
        /\ queue'[q].buffer = queue[q].buffer
    BY <1>1, <1>5 DEF QueueRecord
  <1> QED BY <1>4, <1>5, <1>6 DEF OnlyDue

LEMMA ListenerKept ==
  ASSUME LimiterInv, UNCHANGED listener,
         \A p \in Queues : queue'[p].tc = queue[p].tc /\ queue'[p].counter = queue[p].counter
  PROVE  ListenerWorks'
  <1>1. \A p \in Queues : \A u : Serves(p, u)' <=> Serves(p, u)
    BY DEF Serves
  <1>2. listener' = listener /\ (listener.at = "count" => listener.queue \in Queues)
    BY DEF LimiterInv, LimiterType
  <1>3. listener.at = "count" => Serves(listener.queue, listener.tc)'
    BY <1>2 DEF LimiterInv, ListenerWorks, Serves
  <1> QED BY <1>1, <1>2, <1>3 DEF LimiterInv, ListenerWorks

LEMMA OnlyDueKeeps ==
  ASSUME LimiterInv, OnlyDue \/ UNCHANGED queue, UNCHANGED <<listener, accepted, sent>>, LimiterType',
         LimiterWorks', limiter.at # "advance", limiter'.at # "advance"
  PROVE  LimiterInv'
  <1>1. \A p \in Queues : queue'[p].tc = queue[p].tc /\ queue'[p].counter = queue[p].counter /\ Kept(p)
    BY DEF OnlyDue, Kept, Copied, TakenOut
  <1>2. \A u \in Tcs : ConnectionKept(u)
    BY DEF ConnectionKept, InHand
  <1>3. QueuesTaken' /\ RingsHold' /\ Unlimited' /\ InOrder'
    BY <1>1, <1>2, RingsKept
  <1>4. ListenerWorks'
    BY <1>1, ListenerKept
  <1> QED BY <1>3, <1>4 DEF LimiterInv

LEMMA LimiterLooks ==
  ASSUME Assumptions, LimiterInv,
         Limiter!Tick \/ Limiter!Wait \/ Limiter!Reset \/ Limiter!Look \/ Limiter!Woken \/ Limiter!TimeHasCome
            \/ Limiter!setNextMessageTime
  PROVE  LimiterInv'
  <1>1. CASE Limiter!Tick
    <2>1. OnlyDue /\ UNCHANGED <<listener, limiter, accepted, sent>>
      BY <1>1, DueIsOnlyDue DEF Limiter!Tick
    <2>2. LimiterType' /\ LimiterWorks'
      BY <2>1 DEF LimiterInv, OnlyDue, LimiterType, LimiterWorks
    <2>3. CASE limiter.at # "advance"
      BY <2>1, <2>2, <2>3, OnlyDueKeeps
    <2>4. CASE limiter.at = "advance"
      <3>1. \A p \in Queues : queue'[p].tc = queue[p].tc /\ queue'[p].counter = queue[p].counter /\ Kept(p)
        BY <2>1 DEF OnlyDue, Kept, Copied, TakenOut
      <3>2. \A u \in Tcs : ConnectionKept(u)
        BY <2>1 DEF ConnectionKept, InHand
      <3>3. QueuesTaken' /\ RingsHold' /\ Unlimited' /\ InOrder'
        BY <3>1, <3>2, RingsKept
      <3>4. ListenerWorks'
        BY <2>1, <3>1, ListenerKept
      <3> QED BY <2>2, <3>3, <3>4 DEF LimiterInv
    <2> QED BY <2>3, <2>4
  <1>2. CASE Limiter!Wait
    <2>1. UNCHANGED <<queue, listener, limiter, accepted, sent>>
      BY <1>2 DEF Limiter!Wait
    <2>2. LimiterType' /\ LimiterWorks' /\ ListenerWorks'
      BY <2>1 DEF LimiterInv, LimiterType, LimiterWorks, ListenerWorks, Serves
    <2>3. \A p \in Queues : queue'[p].tc = queue[p].tc /\ Kept(p)
      BY <2>1 DEF Kept, Copied, TakenOut
    <2>4. \A u \in Tcs : ConnectionKept(u)
      BY <2>1 DEF ConnectionKept, InHand
    <2> QED BY <2>2, <2>3, <2>4, RingsKept DEF LimiterInv
  <1>3. CASE Limiter!Reset \/ Limiter!Woken
    <2>1. limiter' = [at |-> "look"] /\ limiter.at # "advance" /\ UNCHANGED <<queue, listener, accepted, sent>>
      BY <1>3 DEF Limiter!Reset, Limiter!Woken
    <2>2. limiter'.at = "look"
      BY <2>1
    <2>3. LimiterType' /\ LimiterWorks'
      BY <2>1, <2>2 DEF LimiterInv, LimiterType, LimiterWorks
    <2> QED BY <2>1, <2>2, <2>3, OnlyDueKeeps
  <1>4. CASE Limiter!Look
    <2>1. limiter.at = "look" /\ UNCHANGED <<queue, listener, accepted, sent>>
      BY <1>4 DEF Limiter!Look
    <2>2. PICK q \in Queues \cup {None} :
            limiter' = [at |-> "wait", queue |-> q] /\ (q # None => queue[q].counter # 0)
      <3>1. CASE Limiter!Nonempty = {}
        BY <1>4, <3>1 DEF Limiter!Look
      <3>2. CASE Limiter!Nonempty # {}
        <4>1. limiter' \in [at : {"wait"}, queue : Limiter!getNextMessageIndex]
          BY <1>4, <3>2 DEF Limiter!Look
        <4>2. \A q \in Limiter!getNextMessageIndex : q \in Queues /\ queue[q].counter # 0
          BY DEF Limiter!getNextMessageIndex, Limiter!Nonempty
        <4>3. PICK q \in Limiter!getNextMessageIndex : limiter' = [at |-> "wait", queue |-> q]
          BY <4>1
        <4> QED BY <4>2, <4>3
      <3> QED BY <3>1, <3>2
    <2>3. limiter'.at = "wait" /\ limiter'.queue = q
      <3>1. limiter' = [at |-> "wait", queue |-> q]
        BY <2>2
      <3>2. [at |-> "wait", queue |-> q].at = "wait" /\ [at |-> "wait", queue |-> q].queue = q
        OBVIOUS
      <3> QED BY <3>1, <3>2
    <2>4. LimiterType' /\ LimiterWorks'
      BY <2>1, <2>2, <2>3 DEF LimiterInv, LimiterType, LimiterWorks
    <2> QED BY <2>1, <2>3, <2>4, OnlyDueKeeps
  <1>5. CASE Limiter!TimeHasCome
    <2>1. /\ limiter.at = "wait" /\ limiter.queue # None /\ limiter' = [limiter EXCEPT !.at = "process"]
          /\ UNCHANGED <<listener, accepted, sent>>
      BY <1>5 DEF Limiter!TimeHasCome
    <2>2. limiter.queue \in Queues /\ queue[limiter.queue].counter # 0
          /\ limiter \in [at : {"wait", "process", "advance", "time"}, queue : Queues \cup {None}]
      BY <2>1 DEF LimiterInv, LimiterType, LimiterWorks
    <2>3. limiter'.at = "process" /\ limiter'.queue = limiter.queue
          /\ limiter' \in [at : {"wait", "process", "advance", "time"}, queue : Queues \cup {None}]
      BY <2>1, <2>2
    <2>4. queue' = queue
      <3>1. queue' = [queue EXCEPT ![limiter.queue].counter = @ - 0]
        BY <1>5 DEF Limiter!TimeHasCome, Limiter!Early
      <3>2. queue[limiter.queue] \in QueueRecord
        BY <2>2 DEF LimiterInv, LimiterType
      <3>3. queue[limiter.queue].counter - 0 = queue[limiter.queue].counter
        BY <3>2 DEF QueueRecord
      <3> QED BY <2>2, <3>1, <3>2, <3>3 DEF LimiterInv, LimiterType, QueueRecord
    <2>5. LimiterType' /\ LimiterWorks'
      BY <2>1, <2>2, <2>3, <2>4 DEF LimiterInv, LimiterType, LimiterWorks
    <2> QED BY <2>1, <2>3, <2>4, <2>5, OnlyDueKeeps
  <1>6. CASE Limiter!setNextMessageTime
    <2>1. limiter.at = "time" /\ limiter' = [at |-> "reset"] /\ UNCHANGED <<listener, accepted, sent>>
      BY <1>6 DEF Limiter!setNextMessageTime
    <2>2. OnlyDue
      <3>1. limiter.queue \in Queues
        BY <2>1 DEF LimiterInv, LimiterWorks
      <3>2. PICK b \in BOOLEAN : queue' = [queue EXCEPT ![limiter.queue].due = b]
        BY <1>6 DEF Limiter!setNextMessageTime, Limiter!NextTimeOf
      <3> QED BY <3>1, <3>2, DueIsOnlyDue
    <2>3. limiter'.at = "reset"
      BY <2>1
    <2>4. LimiterType' /\ LimiterWorks'
      BY <2>1, <2>2, <2>3 DEF LimiterInv, OnlyDue, LimiterType, LimiterWorks
    <2> QED BY <2>1, <2>2, <2>3, <2>4, OnlyDueKeeps
  <1> QED BY <1>1, <1>2, <1>3, <1>4, <1>5, <1>6

(* What is known of a connection and its queue.                                   *)
LEMMA RingIs ==
  ASSUME Assumptions, LimiterInv, NEW q \in Queues, NEW t \in Tcs, Serves(q, t)
  PROVE  /\ queue[q] \in QueueRecord /\ queue[q].counter \in Nat
         /\ queue[q].position \in 0 .. QueueSize - 1 /\ queue[q].free \in 0 .. QueueSize - 1
         /\ queue[q].buffer \in [0 .. QueueSize - 1 -> Nat]
         /\ Len(sent[t]) \in Nat /\ sent[t] \in Seq(Nat) /\ DOMAIN sent[t] = 1 .. Len(sent[t])
         /\ accepted[t] \in Nat /\ \A k \in DOMAIN sent[t] : sent[t][k] = k
         /\ TakenOut(q) \in {0, 1} /\ Copied(q) \in {0, 1} /\ InHand(t) \in {0, 1} /\ InRing(q) \in Nat
         /\ QueueSize \in Nat \ {0} /\ RingHolds(q, t) /\ queue[q].tc = t /\ t # None
  <1>1. queue[q] \in QueueRecord
    BY DEF LimiterInv, LimiterType
  <1>2. /\ queue[q].counter \in Nat
        /\ queue[q].position \in 0 .. QueueSize - 1 /\ queue[q].free \in 0 .. QueueSize - 1
        /\ queue[q].buffer \in [0 .. QueueSize - 1 -> Nat]
    BY <1>1 DEF QueueRecord
  <1>3. sent[t] \in Seq(Nat) /\ accepted[t] \in Nat /\ \A k \in DOMAIN sent[t] : sent[t][k] = k
    BY DEF LimiterInv, LimiterType, InOrder, Limiter!InOrder
  <1>4. Len(sent[t]) \in Nat /\ DOMAIN sent[t] = 1 .. Len(sent[t])
    BY <1>3
  <1>5. TakenOut(q) \in {0, 1} /\ Copied(q) \in {0, 1} /\ InHand(t) \in {0, 1}
    BY DEF TakenOut, Copied, InHand
  <1>6. InRing(q) \in Nat
    BY <1>2, <1>5 DEF InRing
  <1>7. RingHolds(q, t) /\ queue[q].tc = t /\ t # None
    BY LimiterFacts DEF LimiterInv, RingsHold, Serves
  <1> QED BY <1>1, <1>2, <1>3, <1>4, <1>5, <1>6, <1>7, LimiterFacts

LEMMA InOrderAppended ==
  ASSUME NEW s \in Seq(Nat), \A k \in DOMAIN s : s[k] = k, NEW n \in Nat, n = Len(s) + 1
  PROVE  /\ Append(s, n) \in Seq(Nat) /\ Len(Append(s, n)) = n
         /\ \A k \in DOMAIN Append(s, n) : Append(s, n)[k] = k
  <1>1. DOMAIN s = 1 .. Len(s) /\ DOMAIN Append(s, n) = 1 .. n /\ Len(Append(s, n)) = n
    OBVIOUS
  <1>2. \A k \in 1 .. n : Append(s, n)[k] = IF k = n THEN n ELSE s[k]
    OBVIOUS
  <1> QED BY <1>1, <1>2

(* The listener passes on a message of a connection without a queue.              *)
LEMMA UnlimitedPassed ==
  ASSUME Assumptions, LimiterInv, NEW t \in Tcs, Limiter!processTcMessage(t), Limiter!QueuesOf(t) = {}
  PROVE  LimiterInv'
  <1>1. /\ accepted' = [accepted EXCEPT ![t] = @ + 1]
        /\ sent' = [sent EXCEPT ![t] = Append(@, accepted[t] + 1)]
        /\ UNCHANGED <<queue, listener, limiter>> /\ listener.at = "listen"
    BY DEF Limiter!processTcMessage, Limiter!SendsTo
  <1>2. \A q \in Queues : queue[q].tc # t
    BY DEF Limiter!QueuesOf
  <1>3. sent[t] \in Seq(Nat) /\ accepted[t] \in Nat /\ accepted[t] = Len(sent[t])
        /\ \A k \in DOMAIN sent[t] : sent[t][k] = k
    BY <1>2 DEF LimiterInv, LimiterType, Unlimited, InOrder, Limiter!InOrder
  <1>4. /\ sent'[t] = Append(sent[t], accepted[t] + 1) /\ accepted'[t] = accepted[t] + 1
        /\ \A u \in Tcs \ {t} : sent'[u] = sent[u] /\ accepted'[u] = accepted[u]
    BY <1>1 DEF LimiterInv, LimiterType
  <1>5. /\ sent'[t] \in Seq(Nat) /\ Len(sent'[t]) = accepted'[t]
        /\ \A k \in DOMAIN sent'[t] : sent'[t][k] = k
    BY <1>3, <1>4, InOrderAppended
  <1>6. LimiterType'
    BY <1>1, <1>3, <1>5 DEF LimiterInv, LimiterType
  <1>7. QueuesTaken' /\ LimiterWorks' /\ ListenerWorks'
    BY <1>1 DEF LimiterInv, QueuesTaken, LimiterWorks, ListenerWorks, Serves
  <1>8. RingsHold'
    <2> SUFFICES ASSUME NEW u \in Tcs, NEW p \in Queues, Serves(p, u)' PROVE RingHolds(p, u)'
      BY DEF RingsHold
    <2>1. Serves(p, u) /\ u # t
      BY <1>1, <1>2 DEF Serves
    <2>2. Kept(p) /\ ConnectionKept(u)
      BY <1>1, <1>4, <2>1 DEF Kept, ConnectionKept, Copied, TakenOut, InHand
    <2> QED BY <2>1, <2>2, RingKept DEF LimiterInv, RingsHold
  <1>9. Unlimited' /\ InOrder'
    BY <1>1, <1>4, <1>5 DEF LimiterInv, Unlimited, InOrder, Limiter!InOrder
  <1> QED BY <1>6, <1>7, <1>8, <1>9 DEF LimiterInv

(* It holds one of a connection with a queue, to send or to queue it.             *)
LEMMA LimitedHeld ==
  ASSUME Assumptions, LimiterInv, NEW t \in Tcs, Limiter!processTcMessage(t), Limiter!QueuesOf(t) # {}
  PROVE  LimiterInv'
  <1>1. PICK q \in Queues : q = Limiter!getQueue(t) /\ Serves(q, t)
    <2>1. \E q \in Queues : queue[q].tc = t
      BY DEF Limiter!QueuesOf
    <2> QED BY <2>1, SomeServes
  <1>2. /\ accepted' = [accepted EXCEPT ![t] = @ + 1] /\ UNCHANGED <<sent, limiter>>
        /\ listener.at = "listen"
        /\ \/ Limiter!MaySend(q) /\ Limiter!NextTimeOf(q) /\ listener' = [at |-> "send", tc |-> t]
           \/ UNCHANGED queue /\ listener' = [at |-> "enqueue", tc |-> t]
    BY <1>1 DEF Limiter!processTcMessage
  <1>3. /\ listener'.at \in {"send", "enqueue"} /\ listener'.tc = t
        /\ listener'.at = "send" => queue[q].counter = 0
    BY <1>2 DEF Limiter!MaySend
  <1>4. /\ queue' \in [Queues -> QueueRecord]
        /\ \A p \in Queues : /\ queue'[p].tc = queue[p].tc /\ queue'[p].counter = queue[p].counter
                             /\ queue'[p].position = queue[p].position /\ queue'[p].free = queue[p].free
                             /\ queue'[p].buffer = queue[p].buffer
    <2>1. CASE UNCHANGED queue
      BY <2>1 DEF LimiterInv, LimiterType
    <2>2. CASE Limiter!NextTimeOf(q)
      <3>1. PICK b \in BOOLEAN : queue' = [queue EXCEPT ![q].due = b]
        BY <2>2 DEF Limiter!NextTimeOf
      <3> QED BY <3>1, DueIsOnlyDue DEF OnlyDue
    <2> QED BY <1>2, <2>1, <2>2
  <1>5. accepted'[t] = accepted[t] + 1 /\ \A u \in Tcs \ {t} : accepted'[u] = accepted[u]
    BY <1>2 DEF LimiterInv, LimiterType
  <1>6. LimiterType'
    <2>1. accepted' \in [Tcs -> Nat]
      BY <1>2 DEF LimiterInv, LimiterType
    <2> QED BY <1>2, <1>3, <1>4, <2>1 DEF LimiterInv, LimiterType
  <1>7. \A p \in Queues : Kept(p)
    BY <1>2, <1>3, <1>4 DEF Kept, Copied, TakenOut
  <1>8. \A u \in Tcs \ {t} : ConnectionKept(u)
    BY <1>2, <1>3, <1>5 DEF ConnectionKept, InHand
  <1>9. RingHolds(q, t)'
    <2>1. InHand(t) = 0 /\ InHand(t)' = 1 /\ InRing(q)' = InRing(q) /\ sent'[t] = sent[t]
      BY <1>2, <1>3, <1>7 DEF InHand, InRing, Kept
    <2>2. RingHolds(q, t) /\ accepted[t] \in Nat /\ Len(sent[t]) \in Nat /\ TakenOut(q) \in {0, 1}
          /\ InRing(q) \in Nat
      BY <1>1, RingIs
    <2>3. accepted[t] = Len(sent[t]) - TakenOut(q) + InRing(q) + InHand(t)
      BY <2>2 DEF RingHolds
    <2>4. accepted[t] + 1 = Len(sent[t]) - TakenOut(q) + InRing(q) + 1
      BY <2>1, <2>2, <2>3
    <2>5. TakenOut(q)' = TakenOut(q) /\ queue'[q].position = queue[q].position
          /\ queue'[q].free = queue[q].free /\ queue'[q].buffer = queue[q].buffer
      BY <1>7 DEF Kept
    <2> QED BY <1>5, <2>1, <2>2, <2>4, <2>5 DEF RingHolds, Around
  <1>10. \A k \in DOMAIN sent'[t] : sent'[t][k] = k
    BY <1>1, <1>2, RingIs
  <1>11. QueuesTaken' /\ RingsHold' /\ Unlimited' /\ InOrder'
    BY <1>1, <1>4, <1>7, <1>8, <1>9, <1>10, OneRingChanges
  <1>12. LimiterWorks'
    BY <1>2, <1>4 DEF LimiterInv, LimiterType, LimiterWorks
  <1>13. ListenerWorks'
    <2>1. \A p \in Queues : Serves(p, t)' <=> Serves(p, t)
      BY <1>4 DEF Serves
    <2>2. \A p \in Queues : Serves(p, t)' => p = q
      BY <1>1, <2>1, ServesOne
    <2>3. queue'[q].tc = t /\ queue'[q].counter = queue[q].counter
      BY <1>1, <1>4 DEF Serves
    <2> QED BY <1>3, <2>2, <2>3 DEF ListenerWorks
  <1> QED BY <1>6, <1>11, <1>12, <1>13 DEF LimiterInv

LEMMA HeldIsSent ==
  ASSUME Assumptions, LimiterInv, Limiter!Send
  PROVE  LimiterInv'
  <1>1. PICK t \in Tcs : t = listener.tc
    BY DEF LimiterInv, LimiterType, Limiter!Send
  <1>2. /\ listener.at = "send" /\ sent' = [sent EXCEPT ![t] = Append(@, accepted[t])]
        /\ listener' = [at |-> "listen"] /\ UNCHANGED <<queue, limiter, accepted>>
    BY <1>1 DEF Limiter!Send, Limiter!SendsTo
  <1>3. listener'.at = "listen"
    BY <1>2
  <1>4. PICK q \in Queues : Serves(q, t) /\ queue[q].counter = 0
    <2>1. \E q \in Queues : queue[q].tc = t
      BY <1>1, <1>2 DEF LimiterInv, ListenerWorks
    <2> QED BY <1>1, <1>2, <2>1, SomeServes DEF LimiterInv, ListenerWorks
  <1>5. TakenOut(q) = 0 /\ Copied(q) = 0 /\ InHand(t) = 1
    BY <1>1, <1>2, <1>4 DEF LimiterInv, LimiterWorks, TakenOut, Copied, InHand
  <1>6. InRing(q) = 0 /\ accepted[t] = Len(sent[t]) + 1
    <2>1. InRing(q) = 0
      BY <1>4, <1>5 DEF InRing
    <2>2. accepted[t] = Len(sent[t]) - TakenOut(q) + InRing(q) + InHand(t) /\ Len(sent[t]) \in Nat
      BY <1>4, RingIs DEF RingHolds
    <2> QED BY <1>5, <2>1, <2>2
  <1>7. /\ sent'[t] = Append(sent[t], accepted[t]) /\ \A u \in Tcs \ {t} : sent'[u] = sent[u]
    BY <1>2 DEF LimiterInv, LimiterType
  <1>8. /\ sent'[t] \in Seq(Nat) /\ Len(sent'[t]) = accepted[t]
        /\ \A k \in DOMAIN sent'[t] : sent'[t][k] = k
    BY <1>4, <1>6, <1>7, RingIs, InOrderAppended
  <1>9. LimiterType'
    <2>1. sent' \in [Tcs -> Seq(Nat)]
      BY <1>2, <1>7, <1>8 DEF LimiterInv, LimiterType
    <2> QED BY <1>2, <1>3, <2>1 DEF LimiterInv, LimiterType
  <1>10. \A p \in Queues : Kept(p)
    BY <1>2, <1>3 DEF Kept, Copied, TakenOut
  <1>11. \A u \in Tcs \ {t} : ConnectionKept(u)
    BY <1>1, <1>2, <1>3, <1>7 DEF ConnectionKept, InHand
  <1>12. RingHolds(q, t)'
    <2>1. InHand(t)' = 0 /\ InRing(q)' = 0 /\ TakenOut(q)' = 0
      BY <1>2, <1>3, <1>4, <1>5, <1>6, <1>10 DEF InHand, InRing, Kept
    <2>2. /\ queue[q].position \in 0 .. QueueSize - 1 /\ QueueSize \in Nat \ {0}
          /\ queue[q].free = Around(queue[q].position + InRing(q))
      BY <1>4, RingIs DEF RingHolds
    <2>3. queue'[q].position = queue[q].position /\ queue'[q].free = queue[q].position
      BY <1>2, <1>6, <2>2 DEF Around
    <2>4. accepted'[t] = accepted[t] /\ accepted[t] \in Nat
      BY <1>2, <1>4, RingIs
    <2>5. queue'[q].free = Around(queue[q].position + InRing(q))'
      BY <2>1, <2>2, <2>3 DEF Around
    <2>6. InRing(q)' <= QueueSize /\ 0 .. InRing(q)' - 1 = {}
      BY <2>1, <2>2
    <2>7. accepted'[t] = Len(sent'[t]) - TakenOut(q)' + InRing(q)' + InHand(t)'
      BY <1>8, <2>1, <2>4
    <2> QED BY <2>5, <2>6, <2>7 DEF RingHolds
  <1>13. QueuesTaken' /\ RingsHold' /\ Unlimited' /\ InOrder'
    BY <1>2, <1>4, <1>8, <1>10, <1>11, <1>12, OneRingChanges
  <1>14. LimiterWorks' /\ ListenerWorks'
    BY <1>2, <1>3 DEF LimiterInv, LimiterWorks, ListenerWorks
  <1> QED BY <1>9, <1>13, <1>14 DEF LimiterInv

LEMMA Copying ==
  ASSUME Assumptions, LimiterInv, Limiter!Copy
  PROVE  LimiterInv'
  <1>1. PICK t \in Tcs : t = listener.tc
    BY DEF LimiterInv, LimiterType, Limiter!Copy
  <1>2. PICK q \in Queues : q = Limiter!getQueue(t) /\ Serves(q, t)
    <2>1. \E q \in Queues : queue[q].tc = t
      BY <1>1 DEF LimiterInv, ListenerWorks, Limiter!Copy
    <2> QED BY <2>1, SomeServes
  <1>3. /\ listener.at = "enqueue" /\ queue[q].counter # QueueSize
        /\ queue' = [queue EXCEPT ![q].buffer[queue[q].free] = accepted[t],
                                  ![q].free = (@ + 1) % QueueSize]
        /\ listener' = [at |-> "count", tc |-> t, queue |-> q]
        /\ UNCHANGED <<limiter, accepted, sent>>
    BY <1>1, <1>2 DEF Limiter!Copy
  <1>4. listener'.at = "count" /\ listener'.tc = t /\ listener'.queue = q
    BY <1>3
  <1>5. PICK f \in 0 .. QueueSize - 1, g \in 0 .. QueueSize - 1, m \in Nat :
            /\ f = queue[q].free /\ m = accepted[t]
            /\ g = IF f + 1 < QueueSize THEN f + 1 ELSE 0
    <2>1. queue[q].free \in 0 .. QueueSize - 1 /\ accepted[t] \in Nat /\ QueueSize \in Nat \ {0}
      BY <1>2, RingIs
    <2>2. PICK f \in 0 .. QueueSize - 1, m \in Nat : f = queue[q].free /\ m = accepted[t]
      BY <2>1
    <2>3. PICK g \in 0 .. QueueSize - 1 : g = IF f + 1 < QueueSize THEN f + 1 ELSE 0
      BY <2>1
    <2> QED BY <2>2, <2>3
  <1>6. queue'[q] = [[queue[q] EXCEPT !.buffer = [@ EXCEPT ![f] = m]] EXCEPT !.free = g]
        /\ \A p \in Queues \ {q} : queue'[p] = queue[p]
    <2>1. (f + 1) % QueueSize = g
      BY <1>5, LimiterFacts, NextIs
    <2>2. queue[q] \in QueueRecord
      BY <1>2, RingIs
    <2> QED BY <1>3, <1>5, <2>1, <2>2 DEF LimiterInv, LimiterType, QueueRecord
  <1>7. /\ queue'[q] \in QueueRecord
        /\ queue'[q].tc = queue[q].tc /\ queue'[q].counter = queue[q].counter
        /\ queue'[q].position = queue[q].position /\ queue'[q].free = g
        /\ queue'[q].buffer = [queue[q].buffer EXCEPT ![f] = m]
    <2>1. queue[q] \in QueueRecord /\ queue[q].buffer \in [0 .. QueueSize - 1 -> Nat]
      BY <1>2, RingIs
    <2>2. [queue[q].buffer EXCEPT ![f] = m] \in [0 .. QueueSize - 1 -> Nat]
      BY <2>1
    <2> QED BY <1>6, <2>1, <2>2 DEF QueueRecord
  <1>8. LimiterType'
    <2>1. queue' \in [Queues -> QueueRecord]
      BY <1>3, <1>6, <1>7 DEF LimiterInv, LimiterType
    <2> QED BY <1>3, <1>4, <2>1 DEF LimiterInv, LimiterType
  <1>9. \A p \in Queues \ {q} : Kept(p)
    BY <1>3, <1>4, <1>6 DEF Kept, Copied, TakenOut
  <1>10. \A u \in Tcs \ {t} : ConnectionKept(u)
    BY <1>1, <1>3, <1>4 DEF ConnectionKept, InHand
  <1>11. RingHolds(q, t)'
    <2>1. InHand(t) = 1 /\ InHand(t)' = 0 /\ Copied(q) = 0 /\ Copied(q)' = 1 /\ TakenOut(q)' = TakenOut(q)
      BY <1>1, <1>3, <1>4 DEF InHand, Copied, TakenOut
    <2>2. PICK r \in Nat, n \in Int, o \in 0 .. QueueSize - 1 :
              r = InRing(q) /\ n = Len(sent[t]) - TakenOut(q) /\ o = queue[q].position
      <3>1. InRing(q) \in Nat /\ Len(sent[t]) - TakenOut(q) \in Int /\ queue[q].position \in 0 .. QueueSize - 1
        BY <1>2, RingIs
      <3> QED BY <3>1
    <2>3. /\ r <= QueueSize /\ f = Around(o + r) /\ m = n + r + 1 /\ QueueSize \in Nat \ {0}
          /\ \A k \in 0 .. r - 1 : queue[q].buffer[Around(o + k)] = n + k + 1
      <3>1. /\ InRing(q) <= QueueSize /\ queue[q].free = Around(queue[q].position + InRing(q))
            /\ \A k \in 0 .. InRing(q) - 1 :
                    queue[q].buffer[Around(queue[q].position + k)] = Len(sent[t]) - TakenOut(q) + k + 1
            /\ accepted[t] = Len(sent[t]) - TakenOut(q) + InRing(q) + InHand(t)
        BY <1>2, RingIs DEF RingHolds
      <3>2. f = Around(o + r) /\ m = n + r + InHand(t)
        BY <1>5, <2>2, <3>1
      <3> QED BY <2>1, <2>2, <3>1, <3>2, LimiterFacts
    <2>4. InRing(q)' = r + 1 /\ r + 1 <= QueueSize
      <3>1. queue[q].counter \in Nat /\ queue'[q].counter = queue[q].counter
        BY <1>2, <1>7, RingIs
      <3>2. r = queue[q].counter /\ InRing(q)' = queue[q].counter + 1
        BY <2>1, <2>2, <3>1 DEF InRing
      <3> QED BY <1>3, <2>3, <3>2
    <2>5. g = Around(o + (r + 1))
      BY <1>5, <2>3, <2>4 DEF Around
    <2>6. \A k \in 0 .. r : queue'[q].buffer[Around(o + k)] = n + k + 1
      <3> SUFFICES ASSUME NEW k \in 0 .. r PROVE queue'[q].buffer[Around(o + k)] = n + k + 1
        OBVIOUS
      <3>1. Around(o + k) \in 0 .. QueueSize - 1
        BY <2>4, LimiterFacts DEF Around
      <3>2. queue'[q].buffer[Around(o + k)] = IF Around(o + k) = f THEN m ELSE queue[q].buffer[Around(o + k)]
        BY <1>2, <1>7, <3>1, RingIs
      <3>3. CASE k = r
        BY <2>3, <3>2, <3>3
      <3>4. CASE k # r
        <4>1. Around(o + k) # Around(o + r)
          BY <2>4, <3>4, LimiterFacts DEF Around
        <4>2. k \in 0 .. r - 1
          BY <3>4
        <4> QED BY <2>3, <3>2, <4>1, <4>2
      <3> QED BY <3>3, <3>4
    <2>7. /\ Len(sent'[t]) - TakenOut(q)' = n /\ accepted'[t] = m /\ queue'[q].position = o
          /\ queue'[q].free = g
      BY <1>3, <1>5, <1>7, <2>1, <2>2
    <2>8. /\ queue'[q].free = Around(queue'[q].position + InRing(q)')
          /\ \A k \in 0 .. InRing(q)' - 1 : queue'[q].buffer[Around(queue'[q].position + k)] = n + k + 1
          /\ accepted'[t] = n + InRing(q)' + InHand(t)'
      BY <2>1, <2>3, <2>4, <2>5, <2>6, <2>7
    <2> QED BY <2>4, <2>7, <2>8 DEF RingHolds, Around
  <1>12. \A k \in DOMAIN sent'[t] : sent'[t][k] = k
    BY <1>2, <1>3, RingIs
  <1>13. \A p \in Queues : queue'[p].tc = queue[p].tc /\ queue'[p].counter = queue[p].counter
    BY <1>6, <1>7
  <1>14. QueuesTaken' /\ RingsHold' /\ Unlimited' /\ InOrder'
    BY <1>2, <1>9, <1>10, <1>11, <1>12, <1>13, OneRingChanges
  <1>15. LimiterWorks'
    BY <1>3, <1>13 DEF LimiterInv, LimiterType, LimiterWorks
  <1>16. ListenerWorks'
    BY <1>2, <1>4, <1>13 DEF ListenerWorks, Serves
  <1> QED BY <1>8, <1>14, <1>15, <1>16 DEF LimiterInv

LEMMA Counting ==
  ASSUME Assumptions, LimiterInv, Limiter!Count
  PROVE  LimiterInv'
  <1>1. PICK t \in Tcs, q \in Queues : t = listener.tc /\ q = listener.queue /\ Serves(q, t)
    BY DEF LimiterInv, LimiterType, ListenerWorks, Limiter!Count
  <1>2. /\ listener.at = "count" /\ queue' = [queue EXCEPT ![q].counter = @ + 1]
        /\ listener' = [at |-> "listen"] /\ UNCHANGED <<limiter, accepted, sent>>
    BY <1>1 DEF Limiter!Count
  <1>3. listener'.at = "listen"
    BY <1>2
  <1>4. /\ queue'[q] \in QueueRecord
        /\ queue'[q].tc = queue[q].tc /\ queue'[q].counter = queue[q].counter + 1
        /\ queue'[q].position = queue[q].position /\ queue'[q].free = queue[q].free
        /\ queue'[q].buffer = queue[q].buffer
        /\ \A p \in Queues \ {q} : queue'[p] = queue[p]
    <2>1. queue[q] \in QueueRecord
      BY <1>1, RingIs
    <2>2. /\ queue'[q] = [queue[q] EXCEPT !.counter = @ + 1]
          /\ \A p \in Queues \ {q} : queue'[p] = queue[p]
      BY <1>2 DEF LimiterInv, LimiterType
    <2> QED BY <2>1, <2>2 DEF QueueRecord
  <1>5. LimiterType'
    <2>1. queue' \in [Queues -> QueueRecord]
      BY <1>2, <1>4 DEF LimiterInv, LimiterType
    <2> QED BY <1>2, <1>3, <2>1 DEF LimiterInv, LimiterType
  <1>6. \A p \in Queues \ {q} : Kept(p)
    BY <1>1, <1>2, <1>3, <1>4 DEF Kept, Copied, TakenOut
  <1>7. \A u \in Tcs : ConnectionKept(u)
    BY <1>2, <1>3 DEF ConnectionKept, InHand
  <1>8. RingHolds(q, t)'
    <2>1. Copied(q) = 1 /\ Copied(q)' = 0 /\ TakenOut(q)' = TakenOut(q) /\ InHand(t)' = InHand(t)
      BY <1>1, <1>2, <1>3 DEF Copied, TakenOut, InHand
    <2>2. InRing(q)' = InRing(q)
      BY <1>1, <1>4, <2>1, RingIs DEF InRing
    <2>3. RingHolds(q, t)
      BY <1>1, RingIs
    <2> QED BY <1>2, <1>4, <2>1, <2>2, <2>3 DEF RingHolds, Around
  <1>9. \A k \in DOMAIN sent'[t] : sent'[t][k] = k
    BY <1>1, <1>2, RingIs
  <1>10. QueuesTaken' /\ RingsHold' /\ Unlimited' /\ InOrder'
    BY <1>1, <1>4, <1>6, <1>7, <1>8, <1>9, OneRingChanges
  <1>11. LimiterWorks'
    <2>1. queue'[q].counter # 0 /\ \A p \in Queues : queue[p].counter # 0 => queue'[p].counter # 0
      <3>1. queue[q].counter + 1 # 0
        BY <1>1, RingIs
      <3> QED BY <1>4, <3>1
    <2> QED BY <1>2, <2>1 DEF LimiterInv, LimiterType, LimiterWorks
  <1>12. ListenerWorks'
    BY <1>3 DEF ListenerWorks
  <1> QED BY <1>5, <1>10, <1>11, <1>12 DEF LimiterInv

(* The limiter sends the first message of the ring, and then takes it out.        *)
LEMMA FirstSent ==
  ASSUME Assumptions, LimiterInv, Limiter!processNextMessage
  PROVE  LimiterInv'
  <1>1. PICK q \in Queues : q = limiter.queue /\ queue[q].counter # 0
    BY DEF LimiterInv, LimiterWorks, Limiter!processNextMessage
  <1>2. PICK t \in Tcs : t = queue[q].tc /\ Serves(q, t)
    <2>1. queue[q] \in QueueRecord /\ queue[q].tc # None /\ Serves(q, queue[q].tc)
      BY <1>1 DEF LimiterInv, LimiterType, QueuesTaken
    <2> QED BY <2>1 DEF QueueRecord
  <1>3. /\ limiter.at = "process" /\ limiter' = [limiter EXCEPT !.at = "advance"]
        /\ sent' = [sent EXCEPT ![t] = Append(@, queue[q].buffer[queue[q].position])]
        /\ UNCHANGED <<queue, listener, accepted>>
    BY <1>1, <1>2 DEF Limiter!processNextMessage, Limiter!SendsTo
  <1>4. /\ limiter' \in [at : {"wait", "process", "advance", "time"}, queue : Queues \cup {None}]
        /\ limiter'.at = "advance" /\ limiter'.queue = q
    <2>1. limiter \in [at : {"wait", "process", "advance", "time"}, queue : Queues \cup {None}]
      BY <1>3 DEF LimiterInv, LimiterType
    <2> QED BY <1>1, <1>3, <2>1
  <1>5. TakenOut(q) = 0 /\ TakenOut(q)' = 1
    BY <1>3, <1>4 DEF TakenOut
  <1>6. queue[q].buffer[queue[q].position] = Len(sent[t]) + 1
    <2>1. /\ InRing(q) \in Nat /\ InRing(q) # 0 /\ queue[q].position \in 0 .. QueueSize - 1
          /\ Len(sent[t]) \in Nat /\ QueueSize \in Nat
      BY <1>1, <1>2, RingIs DEF InRing
    <2>2. 0 \in 0 .. InRing(q) - 1
      BY <2>1
    <2>3. queue[q].buffer[Around(queue[q].position + 0)] = Len(sent[t]) - TakenOut(q) + 0 + 1
      BY <1>2, <2>2, RingIs DEF RingHolds
    <2>4. Around(queue[q].position + 0) = queue[q].position
      BY <2>1 DEF Around
    <2> QED BY <1>5, <2>1, <2>3, <2>4
  <1>7. /\ sent'[t] = Append(sent[t], Len(sent[t]) + 1) /\ \A u \in Tcs \ {t} : sent'[u] = sent[u]
    BY <1>3, <1>6 DEF LimiterInv, LimiterType
  <1>8. /\ sent'[t] \in Seq(Nat) /\ Len(sent'[t]) = Len(sent[t]) + 1
        /\ \A k \in DOMAIN sent'[t] : sent'[t][k] = k
    <2>1. Len(sent[t]) + 1 \in Nat
      BY <1>2, RingIs
    <2>2. sent[t] \in Seq(Nat) /\ \A k \in DOMAIN sent[t] : sent[t][k] = k
      BY <1>2, RingIs
    <2> DEFINE n == Len(sent[t]) + 1
    <2>3. sent'[t] = Append(sent[t], n)
      BY <1>7
    <2>4. /\ Append(sent[t], n) \in Seq(Nat) /\ Len(Append(sent[t], n)) = n
          /\ \A k \in DOMAIN Append(sent[t], n) : Append(sent[t], n)[k] = k
      BY <2>1, <2>2, InOrderAppended
    <2> HIDE DEF n
    <2>5. /\ sent'[t] \in Seq(Nat) /\ Len(sent'[t]) = n
          /\ \A k \in DOMAIN sent'[t] : sent'[t][k] = k
      BY <2>3, <2>4
    <2> QED BY <2>5 DEF n
  <1>9. LimiterType'
    <2>1. sent' \in [Tcs -> Seq(Nat)]
      BY <1>3, <1>7, <1>8 DEF LimiterInv, LimiterType
    <2> QED BY <1>3, <1>4, <2>1 DEF LimiterInv, LimiterType
  <1>10. \A p \in Queues \ {q} : Kept(p)
    BY <1>3, <1>4 DEF Kept, Copied, TakenOut
  <1>11. \A u \in Tcs \ {t} : ConnectionKept(u)
    BY <1>3, <1>7 DEF ConnectionKept, InHand
  <1>12. RingHolds(q, t)'
    <2>1. InRing(q)' = InRing(q) /\ InHand(t)' = InHand(t)
      BY <1>3 DEF InRing, Copied, InHand
    <2>2. Len(sent'[t]) - TakenOut(q)' = Len(sent[t]) - TakenOut(q)
      BY <1>2, <1>5, <1>8, RingIs
    <2>3. RingHolds(q, t)
      BY <1>2, RingIs
    <2> QED BY <1>3, <2>1, <2>2, <2>3 DEF RingHolds, Around
  <1>13. QueuesTaken' /\ RingsHold' /\ Unlimited' /\ InOrder'
    BY <1>2, <1>3, <1>8, <1>10, <1>11, <1>12, OneRingChanges
  <1>14. LimiterWorks'
    BY <1>1, <1>3, <1>4 DEF LimiterWorks
  <1>15. ListenerWorks'
    BY <1>3, ListenerKept
  <1> QED BY <1>9, <1>13, <1>14, <1>15 DEF LimiterInv

LEMMA FirstTakenOut ==
  ASSUME Assumptions, LimiterInv, Limiter!Advance
  PROVE  LimiterInv'
  <1>1. PICK q \in Queues : q = limiter.queue /\ queue[q].counter # 0
    BY DEF LimiterInv, LimiterWorks, Limiter!Advance
  <1>2. PICK t \in Tcs : t = queue[q].tc /\ Serves(q, t)
    <2>1. queue[q] \in QueueRecord /\ queue[q].tc # None /\ Serves(q, queue[q].tc)
      BY <1>1 DEF LimiterInv, LimiterType, QueuesTaken
    <2> QED BY <2>1 DEF QueueRecord
  <1>3. /\ limiter.at = "advance" /\ limiter' = [limiter EXCEPT !.at = "time"]
        /\ queue' = [queue EXCEPT ![q].position = (@ + 1) % QueueSize, ![q].counter = @ - 1]
        /\ UNCHANGED <<listener, accepted, sent>>
    BY <1>1 DEF Limiter!Advance, Limiter!Early
  <1>4. /\ limiter' \in [at : {"wait", "process", "advance", "time"}, queue : Queues \cup {None}]
        /\ limiter'.at = "time" /\ limiter'.queue = q
    <2>1. limiter \in [at : {"wait", "process", "advance", "time"}, queue : Queues \cup {None}]
      BY <1>3 DEF LimiterInv, LimiterType
    <2> QED BY <1>1, <1>3, <2>1
  <1>5. PICK c \in Nat \ {0}, o \in 0 .. QueueSize - 1 : c = queue[q].counter /\ o = queue[q].position
    <2>1. queue[q].counter \in Nat /\ queue[q].position \in 0 .. QueueSize - 1
      BY <1>2, RingIs
    <2>2. PICK o \in 0 .. QueueSize - 1 : o = queue[q].position
      BY <2>1
    <2> QED BY <1>1, <2>1, <2>2
  <1>6. PICK p \in 0 .. QueueSize - 1 : p = IF o + 1 < QueueSize THEN o + 1 ELSE 0
    BY LimiterFacts
  <1>7. /\ queue'[q] = [queue[q] EXCEPT !.position = p, !.counter = c - 1]
        /\ \A r \in Queues \ {q} : queue'[r] = queue[r]
    <2>1. (o + 1) % QueueSize = p
      BY <1>6, LimiterFacts, NextIs
    <2>2. queue[q] \in QueueRecord
      BY <1>2, RingIs
    <2> QED BY <1>3, <1>5, <2>1, <2>2 DEF LimiterInv, LimiterType, QueueRecord
  <1>8. /\ queue'[q] \in QueueRecord
        /\ queue'[q].tc = queue[q].tc /\ queue'[q].counter = c - 1
        /\ queue'[q].position = p /\ queue'[q].free = queue[q].free
        /\ queue'[q].buffer = queue[q].buffer
    <2>1. queue[q] \in QueueRecord /\ c - 1 \in Nat
      BY <1>2, RingIs
    <2> QED BY <1>7, <2>1 DEF QueueRecord
  <1>9. LimiterType'
    <2>1. queue' \in [Queues -> QueueRecord]
      BY <1>3, <1>7, <1>8 DEF LimiterInv, LimiterType
    <2> QED BY <1>3, <1>4, <2>1 DEF LimiterInv, LimiterType
  <1>10. \A r \in Queues \ {q} : Kept(r)
    BY <1>1, <1>3, <1>4, <1>7 DEF Kept, Copied, TakenOut
  <1>11. \A u \in Tcs : ConnectionKept(u)
    BY <1>3 DEF ConnectionKept, InHand
  <1>12. RingHolds(q, t)'
    <2>1. TakenOut(q) = 1 /\ TakenOut(q)' = 0 /\ Copied(q)' = Copied(q) /\ InHand(t)' = InHand(t)
      BY <1>1, <1>3, <1>4 DEF TakenOut, Copied, InHand
    <2>2. PICK r \in Nat, s \in Nat : r = InRing(q) /\ s = Len(sent[t])
      BY <1>2, RingIs
    <2>3. r # 0 /\ InRing(q)' = r - 1
      <3>1. Copied(q) \in {0, 1}
        BY DEF Copied
      <3> QED BY <1>5, <1>8, <2>1, <2>2, <3>1 DEF InRing
    <2>4. /\ r <= QueueSize /\ queue[q].free = Around(o + r)
          /\ \A k \in 0 .. r - 1 : queue[q].buffer[Around(o + k)] = s - 1 + k + 1
          /\ accepted[t] = s - 1 + r + InHand(t)
      <3>1. /\ InRing(q) <= QueueSize /\ queue[q].free = Around(queue[q].position + InRing(q))
            /\ \A k \in 0 .. InRing(q) - 1 :
                    queue[q].buffer[Around(queue[q].position + k)] = Len(sent[t]) - TakenOut(q) + k + 1
            /\ accepted[t] = Len(sent[t]) - TakenOut(q) + InRing(q) + InHand(t)
        BY <1>2, RingIs DEF RingHolds
      <3> QED BY <1>5, <2>1, <2>2, <3>1
    <2>5. queue'[q].free = Around(p + (r - 1))
      BY <1>6, <1>8, <2>3, <2>4, LimiterFacts DEF Around
    <2>6. \A k \in 0 .. (r - 1) - 1 : queue'[q].buffer[Around(p + k)] = s + k + 1
      <3> SUFFICES ASSUME NEW k \in 0 .. (r - 1) - 1 PROVE queue'[q].buffer[Around(p + k)] = s + k + 1
        OBVIOUS
      <3>1. k + 1 \in 0 .. r - 1 /\ k < QueueSize
        BY <2>3, <2>4, LimiterFacts
      <3>2. Around(p + k) = Around(o + (k + 1))
        BY <1>6, <2>3, <2>4, LimiterFacts DEF Around
      <3>3. queue[q].buffer[Around(o + (k + 1))] = s - 1 + (k + 1) + 1
        BY <2>4, <3>1
      <3> QED BY <1>8, <3>2, <3>3
    <2>7. /\ r - 1 <= QueueSize /\ accepted'[t] = s + (r - 1) + InHand(t)' /\ Len(sent'[t]) - TakenOut(q)' = s
      <3>1. InHand(t) \in {0, 1} /\ QueueSize \in Nat
        BY LimiterFacts DEF InHand
      <3> QED BY <1>3, <2>1, <2>2, <2>4, <3>1
    <2>8. /\ InRing(q)' <= QueueSize
          /\ queue'[q].free = Around(queue'[q].position + InRing(q)')
          /\ \A k \in 0 .. InRing(q)' - 1 :
                queue'[q].buffer[Around(queue'[q].position + k)] = Len(sent'[t]) - TakenOut(q)' + k + 1
          /\ accepted'[t] = Len(sent'[t]) - TakenOut(q)' + InRing(q)' + InHand(t)'
      BY <1>8, <2>3, <2>5, <2>6, <2>7
    <2> QED BY <2>8 DEF RingHolds, Around
  <1>13. \A k \in DOMAIN sent'[t] : sent'[t][k] = k
    BY <1>2, <1>3, RingIs
  <1>14. QueuesTaken' /\ RingsHold' /\ Unlimited' /\ InOrder'
    BY <1>2, <1>7, <1>8, <1>10, <1>11, <1>12, <1>13, OneRingChanges
  <1>15. LimiterWorks'
    BY <1>4 DEF LimiterWorks
  <1>16. ListenerWorks'
    <2>1. \A r \in Queues : queue'[r].tc = queue[r].tc
      BY <1>7, <1>8
    <2>2. \A r \in Queues : \A u : Serves(r, u)' <=> Serves(r, u)
      BY <2>1 DEF Serves
    <2>3. listener' = listener /\ (listener.at = "count" => listener.queue \in Queues)
      BY <1>3 DEF LimiterInv, LimiterType
    <2>4. listener.at = "send" => \A r \in Queues : Serves(r, listener.tc) => r # q /\ queue[r].counter = 0
      BY <1>1 DEF LimiterInv, ListenerWorks
    <2>5. listener.at = "send" => \A r \in Queues : Serves(r, listener.tc)' => queue'[r].counter = 0
      BY <1>7, <2>2, <2>3, <2>4
    <2>6. listener.at = "count" => Serves(listener.queue, listener.tc)'
      BY <2>1, <2>3 DEF LimiterInv, ListenerWorks, Serves
    <2> QED BY <2>1, <2>3, <2>5, <2>6 DEF LimiterInv, ListenerWorks
  <1> QED BY <1>9, <1>14, <1>15, <1>16 DEF LimiterInv

LEMMA LimiterStep ==
  ASSUME Assumptions, LimiterInv, [Limiter!Next]_limiterVars
  PROVE  LimiterInv'
  <1>1. CASE UNCHANGED limiterVars
    <2>1. UNCHANGED <<queue, listener, limiter, accepted, sent>>
      BY <1>1 DEF limiterVars
    <2>2. LimiterType' /\ LimiterWorks' /\ ListenerWorks'
      BY <2>1 DEF LimiterInv, LimiterType, LimiterWorks, ListenerWorks, Serves
    <2>3. \A p \in Queues : queue'[p].tc = queue[p].tc /\ Kept(p)
      BY <2>1 DEF Kept, Copied, TakenOut
    <2>4. \A u \in Tcs : ConnectionKept(u)
      BY <2>1 DEF ConnectionKept, InHand
    <2> QED BY <2>2, <2>3, <2>4, RingsKept DEF LimiterInv
  <1>2. CASE Limiter!Next
    <2>1. ASSUME NEW t \in Tcs, Limiter!processTcMessage(t) PROVE LimiterInv'
      BY <2>1, UnlimitedPassed, LimitedHeld
    <2> QED
      BY <1>2, <2>1, LimiterQueues, LimiterLooks, HeldIsSent, Copying, Counting, FirstSent, FirstTakenOut
      DEF Limiter!Next
  <1> QED BY <1>1, <1>2

(* RateLimiter.InOrder: the limiter sends the messages of a connection in their   *)
(* order and loses none, for any number of connections, queues and messages.      *)
THEOREM MessagesStayInOrder == Spec => []InOrder
  <1>1. Init => LimiterInv
    BY LimiterInit, Assumptions DEF Init
  <1>2. LimiterInv /\ [Next]_vars => LimiterInv'
    <2> SUFFICES ASSUME LimiterInv, [Next]_vars PROVE LimiterInv'
      OBVIOUS
    <2>1. [Limiter!Next]_limiterVars
      BY DEF Next, vars, pcs
    <2> QED BY <2>1, LimiterStep, Assumptions
  <1>3. LimiterInv => InOrder
    BY DEF LimiterInv
  <1> QED BY <1>1, <1>2, <1>3, PTL DEF Spec

--------------------------------------------------------------------------------
(* PcsConfiguration: until something is detached from a vc, the tables of the     *)
(* PCS say the same of it as the calls that returned; afterwards nothing is       *)
(* attached to it.                                                                *)
AttachedIsEntered(v) ==
    \A t \in Connections : <<v, t>> \in attachments =>
        /\ channel[v] = Tables!Direction(t)
        /\ v \in vcDescriptions /\ v \in localVcs /\ <<v, t>> \in mapping
        /\ t \in Senders => v \in listening

TablesAgree(v) ==
    /\ v \in detached => \A t \in Connections : <<v, t>> \notin attachments
    /\ v \notin detached =>
            /\ \A t \in Connections : <<v, t>> \in mapping => <<v, t>> \in attachments
            /\ v \in pcsAttached <=> \E t \in Connections : <<v, t>> \in attachments
            /\ v \in vcDescriptions => v \in localVcs
    /\ AttachedIsEntered(v)

ServedInv == channel \in [GlobalVcs -> {"reads", "writes", None}] /\ \A v \in GlobalVcs : TablesAgree(v)

LEMMA DirectionIs == \A t : Tables!Direction(t) \in {"reads", "writes"}
  BY DEF Tables!Direction

LEMMA TablesInit == Tables!Init => ServedInv
  BY DEF Tables!Init, ServedInv, TablesAgree, AttachedIsEntered

LEMMA RowKept ==
  ASSUME NEW v \in GlobalVcs, TablesAgree(v), channel'[v] = channel[v],
         v \in detached' <=> v \in detached, v \in pcsAttached' <=> v \in pcsAttached,
         v \in vcDescriptions' <=> v \in vcDescriptions, v \in localVcs' <=> v \in localVcs,
         v \in listening' <=> v \in listening,
         \A t \in Connections : /\ <<v, t>> \in attachments' <=> <<v, t>> \in attachments
                                /\ <<v, t>> \in mapping' <=> <<v, t>> \in mapping
  PROVE  TablesAgree(v)'
  <1>1. AttachedIsEntered(v)'
    BY DEF TablesAgree, AttachedIsEntered, Tables!Direction
  <1> QED BY <1>1 DEF TablesAgree

LEMMA TablesUnchanged ==
  ASSUME ServedInv, UNCHANGED <<vcDescriptions, localVcs, mapping, listening, pcsAttached, channel, attachments, detached>>
  PROVE  ServedInv'
  BY RowKept DEF ServedInv

LEMMA Attaching ==
  ASSUME ServedInv, NEW v \in GlobalVcs, NEW t \in Connections,
         Tables!attachTransferConnectionToVirtualChannel(v, t)
  PROVE  ServedInv'
  <1>1. /\ t \in descriptions /\ v \notin detached /\ Tables!Entered(v)
        /\ \A u \in Connections : <<v, u>> \in attachments => Tables!Direction(u) = Tables!Direction(t)
        /\ channel' = IF v \in pcsAttached THEN channel ELSE [channel EXCEPT ![v] = Tables!Direction(t)]
        /\ pcsAttached' = pcsAttached \cup {v} /\ detached' = detached
    BY DEF Tables!attachTransferConnectionToVirtualChannel, Tables!Ordinary, Tables!AttachedTo
  <1>2. Tables!Maps(v, t) <=> <<v, t>> \notin mapping
    BY <1>1 DEF Tables!Maps
  <1>3. /\ vcDescriptions' = vcDescriptions \cup {v}
        /\ localVcs' = IF v \notin vcDescriptions THEN localVcs \cup {v} ELSE localVcs
        /\ mapping' = mapping \cup {<<v, t>>}
        /\ listening' = IF <<v, t>> \notin mapping /\ t \in Senders THEN listening \cup {v} ELSE listening
        /\ attachments' = IF <<v, t>> \notin mapping THEN attachments \cup {<<v, t>>} ELSE attachments
    BY <1>1, <1>2 DEF Tables!attachTransferConnectionToVirtualChannel, Tables!PcsAttaches, Tables!EnterVc,
       Tables!addLocalVc, Tables!addListeningConsumer
  <1>4. channel' \in [GlobalVcs -> {"reads", "writes", None}]
    BY <1>1, DirectionIs DEF ServedInv
  <1>5. ASSUME NEW w \in GlobalVcs, w # v
        PROVE  TablesAgree(w)'
    BY <1>1, <1>3, <1>5, RowKept DEF ServedInv
  <1>6. TablesAgree(v)'
    <2>1. /\ \A u \in Connections : <<v, u>> \in mapping <=> <<v, u>> \in attachments
          /\ v \in pcsAttached <=> \E u \in Connections : <<v, u>> \in attachments
          /\ v \in vcDescriptions => v \in localVcs
          /\ AttachedIsEntered(v)
      BY <1>1 DEF ServedInv, TablesAgree, AttachedIsEntered
    <2>2. \A u \in Connections : <<v, u>> \in attachments' <=> <<v, u>> \in attachments \/ u = t
      BY <1>3, <2>1
    <2>3. channel'[v] = Tables!Direction(t)
      BY <1>1, <2>1 DEF ServedInv, AttachedIsEntered
    <2>4. \A u \in Connections : <<v, u>> \in attachments' => Tables!Direction(u) = Tables!Direction(t)
      BY <1>1, <2>2
    <2>5. v \in vcDescriptions' /\ v \in localVcs' /\ v \in pcsAttached' /\ v \notin detached'
      BY <1>1, <1>3, <2>1
    <2>6. \A u \in Connections : <<v, u>> \in attachments' => <<v, u>> \in mapping'
      BY <1>3, <2>1
    <2>7. \A u \in Connections : <<v, u>> \in attachments' /\ u \in Senders => v \in listening'
      BY <1>3, <2>1, <2>2 DEF AttachedIsEntered
    <2>8. AttachedIsEntered(v)'
      BY <2>3, <2>4, <2>5, <2>6, <2>7 DEF AttachedIsEntered, Tables!Direction
    <2> QED BY <1>3, <2>1, <2>2, <2>5, <2>8 DEF TablesAgree
  <1> QED BY <1>4, <1>5, <1>6 DEF ServedInv

LEMMA Detaching ==
  ASSUME ServedInv, NEW v \in GlobalVcs, NEW t \in Connections,
         Tables!detachTransferConnectionFromVirtualChannel(v, t)
  PROVE  ServedInv'
  <1>1. /\ \A u \in Connections : <<v, u>> \in attachments => u = t
        /\ attachments' = attachments \ {<<v, t>>} /\ detached' = detached \cup {v} /\ UNCHANGED pcsAttached
        /\ channel' = IF Tables!Detaches(v, t) THEN [channel EXCEPT ![v] = None] ELSE channel
    BY DEF Tables!detachTransferConnectionFromVirtualChannel, Tables!AttachedTo
  <1>2. /\ listening' = listening \ {v} /\ localVcs' \in {localVcs, localVcs \ {v}}
        /\ mapping' \in {mapping, mapping \ {<<v, t>>}} /\ vcDescriptions' \in {vcDescriptions, vcDescriptions \ {v}}
    BY DEF Tables!detachTransferConnectionFromVirtualChannel, Tables!PcsDetaches, Tables!removeListeningConsumer,
           Tables!removeLocalVc, Tables!removeTcMapping, Tables!removeVcDescription
  <1>3. channel' \in [GlobalVcs -> {"reads", "writes", None}]
        /\ \A w \in GlobalVcs \ {v} : channel'[w] = channel[w]
    BY <1>1 DEF ServedInv
  <1>4. ASSUME NEW w \in GlobalVcs, w # v
        PROVE  TablesAgree(w)'
    BY <1>1, <1>2, <1>3, <1>4, RowKept DEF ServedInv
  <1>5. TablesAgree(v)'
    BY <1>1 DEF TablesAgree, AttachedIsEntered
  <1> QED BY <1>3, <1>4, <1>5 DEF ServedInv

LEMMA TablesStep ==
  ASSUME ServedInv, [Tables!Next]_tableVars
  PROVE  ServedInv'
  <1>1. CASE UNCHANGED tableVars
    BY <1>1, TablesUnchanged DEF tableVars
  <1>2. ASSUME NEW t \in Connections, Tables!createTransferConnection(t) \/ Tables!destroyTransferConnection(t)
        PROVE  ServedInv'
    BY <1>2, TablesUnchanged DEF Tables!createTransferConnection, Tables!destroyTransferConnection, Tables!vars, Tables!pcs
  <1>3. ASSUME NEW v \in GlobalVcs, NEW t \in Connections, Tables!attachRefused(v, t)
        PROVE  ServedInv'
    BY <1>3, TablesUnchanged DEF Tables!attachRefused, Tables!vars, Tables!pcs
  <1> QED BY <1>1, <1>2, <1>3, Attaching, Detaching DEF Tables!Next

(* PcsConfiguration.AttachedIsServed: a connection that was attached to a vc and   *)
(* not detached is served, for any number of vcs and connections, while nothing is *)
(* attached again to a vc that something was detached from.                       *)
THEOREM AttachedStaysServed == Spec => []AttachedIsServed
  <1>1. Init => ServedInv
    BY TablesInit DEF Init
  <1>2. ServedInv /\ [Next]_vars => ServedInv'
    <2> SUFFICES ASSUME ServedInv, [Next]_vars PROVE ServedInv'
      OBVIOUS
    <2>1. [Tables!Next]_tableVars
      BY DEF Next, vars, pcs
    <2> QED BY <2>1, TablesStep
  <1>3. ServedInv => AttachedIsServed
    BY DEF ServedInv, TablesAgree, AttachedIsEntered, AttachedIsServed, Tables!AttachedIsServed, Tables!AttachedTo
  <1> QED BY <1>1, <1>2, <1>3, PTL DEF Spec

--------------------------------------------------------------------------------
(* OliTransfer: a reply is taken only by the client and for the request it        *)
(* answers; from the request until then the client does not change what it has    *)
(* stored, so the piece is the one that is missing next.                          *)
PieceRequest == [client : Clients, transfer : Nat, offset : Nat]
PieceReply == [client : Clients, transfer : Nat, result : {"ok", "no access"}, data : Seq(Nat), failed : BOOLEAN]

FilesType ==
    /\ file \in Seq(Nat) /\ \A k \in 1 .. Len(file) : file[k] = k
    /\ requests \in Seq(PieceRequest) /\ replies \in [Clients -> Seq(PieceReply)]
    /\ fetching \in [Clients -> {"idle", "request", "await", "done", "failed"}]
    /\ stored \in [Clients -> Seq(Nat)] /\ requested \in [Clients -> Nat]

\* m belongs to the piece its client waits for
Awaited(m) == fetching[m.client] = "await" /\ m.transfer = requested[m.client]
Answers(r) == r.data = IF r.failed THEN <<>> ELSE Transfer!Piece(Len(stored[r.client]))

RequestOk(q) ==
    /\ q.offset <= Len(file) /\ q.transfer <= requested[q.client]
    /\ Awaited(q) => q.offset = Len(stored[q.client])
ReplyOk(r) == r.transfer <= requested[r.client] /\ (Awaited(r) /\ r.result = "ok" => Answers(r))

PiecesOk ==
    /\ \A q \in Range(requests) : RequestOk(q)
    /\ \A d \in Clients : \A r \in Range(replies[d]) : ReplyOk(r)

StoredOk ==
    \A c \in Clients :
        /\ Len(stored[c]) <= Len(file) /\ \A k \in 1 .. Len(stored[c]) : stored[c][k] = k
        /\ (fetching[c] = "done" /\ c \notin misread) => Len(stored[c]) = Len(file)

FilesInv == FilesType /\ PiecesOk /\ StoredOk

(* What is in a sequence, and after Append and Tail. *)
LEMMA RangeProperties ==
  ASSUME NEW S, NEW s \in Seq(S)
  PROVE  /\ Range(s) \subseteq S
         /\ \A e \in S : Append(s, e) \in Seq(S) /\ Range(Append(s, e)) = Range(s) \cup {e}
         /\ s # <<>> => Tail(s) \in Seq(S) /\ Range(Tail(s)) \subseteq Range(s) /\ Head(s) \in Range(s)
  <1>1. Len(s) \in Nat /\ DOMAIN s = 1 .. Len(s) /\ \A i \in 1 .. Len(s) : s[i] \in S
    OBVIOUS
  <1>2. Range(s) \subseteq S
    BY <1>1 DEF Range
  <1>3. ASSUME NEW e \in S
        PROVE  Append(s, e) \in Seq(S) /\ Range(Append(s, e)) = Range(s) \cup {e}
    <2>1. /\ Append(s, e) \in Seq(S) /\ DOMAIN Append(s, e) = 1 .. Len(s) + 1
          /\ Append(s, e)[Len(s) + 1] = e
          /\ \A i \in 1 .. Len(s) : Append(s, e)[i] = s[i]
      BY <1>1
    <2> QED
      BY <1>1, <2>1 DEF Range
  <1>4. ASSUME s # <<>>
        PROVE  Tail(s) \in Seq(S) /\ Range(Tail(s)) \subseteq Range(s) /\ Head(s) \in Range(s)
    <2>1. /\ Tail(s) \in Seq(S) /\ DOMAIN Tail(s) = 1 .. Len(s) - 1
          /\ Len(s) >= 1 /\ Head(s) = s[1]
          /\ \A i \in 1 .. Len(s) - 1 : Tail(s)[i] = s[i + 1]
      BY <1>1, <1>4
    <2>2. \A i \in 1 .. Len(s) - 1 : i + 1 \in 1 .. Len(s)
      BY <1>1
    <2> QED
      BY <1>1, <2>1, <2>2 DEF Range
  <1> QED
    BY <1>2, <1>3, <1>4

(* What one sequence followed by another contains.                             *)
LEMMA ConcatenationProperties ==
  ASSUME NEW s \in Seq(Nat), NEW t \in Seq(Nat)
  PROVE  /\ s \o t \in Seq(Nat) /\ Len(s) \in Nat /\ Len(t) \in Nat /\ Len(s \o t) = Len(s) + Len(t)
         /\ \A k \in 1 .. Len(s) + Len(t) : (s \o t)[k] = IF k <= Len(s) THEN s[k] ELSE t[k - Len(s)]
         /\ s \o <<>> = s
  OBVIOUS

(* A piece is what follows the offset, of the full size or up to the end.       *)
LEMMA PieceProperties ==
  ASSUME FilesType, Assumptions, NEW o \in Nat, o <= Len(file)
  PROVE  /\ Transfer!Piece(o) \in Seq(Nat)
         /\ Len(Transfer!Piece(o)) = IF o + Size < Len(file) THEN Size ELSE Len(file) - o
         /\ \A k \in 1 .. Len(Transfer!Piece(o)) : Transfer!Piece(o)[k] = o + k
  <1> DEFINE n == IF o + Size < Len(file) THEN o + Size ELSE Len(file)
  <1>1. Len(file) \in Nat /\ Size \in Nat \ {0}
    BY DEF FilesType, Assumptions, Transfer!OliTransferAssumption
  <1>2. n \in Int /\ o + 1 \in Int /\ n <= Len(file)
    BY <1>1
  <1>3. \A k \in o + 1 .. n : file[k] \in Nat /\ file[k] = k
    BY <1>1, <1>2 DEF FilesType
  <1> HIDE DEF n
  <1>4. /\ SubSeq(file, o + 1, n) \in Seq(Nat)
        /\ Len(SubSeq(file, o + 1, n)) = IF o + 1 <= n THEN n - (o + 1) + 1 ELSE 0
        /\ \A k \in 1 .. n - (o + 1) + 1 : SubSeq(file, o + 1, n)[k] = file[(o + 1) + k - 1]
    BY <1>2, <1>3, SubSeqProperties
  <1>5. Transfer!Piece(o) = SubSeq(file, o + 1, n)
    BY DEF Transfer!Piece, n
  <1>6. Len(Transfer!Piece(o)) = n - o
    BY <1>1, <1>4, <1>5 DEF n
  <1>7. \A k \in 1 .. Len(Transfer!Piece(o)) : Transfer!Piece(o)[k] = o + k
    BY <1>1, <1>2, <1>3, <1>4, <1>5, <1>6
  <1>8. n - o = IF o + Size < Len(file) THEN Size ELSE Len(file) - o
    BY <1>1 DEF n
  <1> QED
    BY <1>4, <1>5, <1>6, <1>7, <1>8

LEMMA FilesInit == Assumptions /\ Transfer!Init => FilesInv
  <1> SUFFICES ASSUME Assumptions, Transfer!Init PROVE FilesInv
    OBVIOUS
  <1>1. PICK n \in Nat : file = [k \in 1 .. n |-> k]
    BY DEF Transfer!Init, Assumptions, Transfer!OliTransferAssumption
  <1>2. file \in Seq(Nat) /\ Len(file) = n /\ \A k \in 1 .. Len(file) : file[k] = k
    BY <1>1
  <1>3. /\ requests = <<>> /\ replies = [c \in Clients |-> <<>>]
        /\ fetching = [c \in Clients |-> "idle"] /\ stored = [c \in Clients |-> <<>>]
        /\ requested = [c \in Clients |-> 0]
    BY DEF Transfer!Init
  <1>4. FilesType
    BY <1>2, <1>3 DEF FilesType
  <1>5. PiecesOk
    <2>1. Range(<<>>) = {}
      BY DEF Range
    <2> QED
      BY <1>3, <2>1 DEF PiecesOk
  <1>6. StoredOk
    <2>1. \A c \in Clients : stored[c] = <<>> /\ fetching[c] = "idle"
      BY <1>3
    <2>2. Len(<<>>) = 0
      OBVIOUS
    <2> QED
      BY <1>2, <2>1, <2>2 DEF StoredOk
  <1> QED
    BY <1>4, <1>5, <1>6 DEF FilesInv

(* Beginning a file and giving one up: nobody waits for the messages under way. *)
LEMMA RestartingKeepsFiles ==
  ASSUME FilesInv, NEW c \in Clients, Transfer!storeCompleteFile(c) \/ Transfer!TimeOut(c)
  PROVE  FilesInv'
  <1> USE DEF FilesInv
  <1>1. UNCHANGED <<file, requests, replies, requested>>
    BY DEF Transfer!storeCompleteFile, Transfer!TimeOut
  <1>2. /\ fetching' \in [Clients -> {"idle", "request", "await", "done", "failed"}]
        /\ fetching'[c] \in {"request", "failed"}
        /\ \A d \in Clients \ {c} : fetching'[d] = fetching[d]
    BY DEF Transfer!storeCompleteFile, Transfer!TimeOut, Transfer!Abandon, FilesType
  <1>3. /\ stored' \in [Clients -> Seq(Nat)] /\ stored'[c] \in {stored[c], <<>>}
        /\ \A d \in Clients \ {c} : stored'[d] = stored[d] /\ (d \in misread' <=> d \in misread)
    <2>1. CASE Transfer!storeCompleteFile(c)
      BY <2>1 DEF Transfer!storeCompleteFile, FilesType
    <2>2. CASE Transfer!TimeOut(c)
      BY <2>2 DEF Transfer!TimeOut, Transfer!Abandon, FilesType
    <2> QED
      BY <2>1, <2>2
  <1>4. FilesType'
    BY <1>1, <1>2, <1>3 DEF FilesType
  <1>5. PiecesOk'
    <2>1. \A q \in PieceRequest : RequestOk(q) => RequestOk(q)'
      BY <1>1, <1>2, <1>3 DEF RequestOk, Awaited, PieceRequest
    <2>2. \A r \in PieceReply : ReplyOk(r) => ReplyOk(r)'
      BY <1>1, <1>2, <1>3 DEF ReplyOk, Awaited, Answers, Transfer!Piece, PieceReply
    <2>3. Range(requests) \subseteq PieceRequest /\ \A d \in Clients : Range(replies[d]) \subseteq PieceReply
      BY RangeProperties DEF FilesType
    <2> QED
      BY <1>1, <2>1, <2>2, <2>3 DEF PiecesOk
  <1>6. StoredOk'
    <2>1. /\ Len(stored'[c]) <= Len(file) /\ \A k \in 1 .. Len(stored'[c]) : stored'[c][k] = k
          /\ fetching'[c] # "done"
      <3>1. Len(<<>>) = 0 /\ Len(file) \in Nat
        BY DEF FilesType
      <3> QED
        BY <1>2, <1>3, <3>1 DEF StoredOk
    <2> QED
      BY <1>1, <1>2, <1>3, <2>1 DEF StoredOk
  <1> QED
    BY <1>4, <1>5, <1>6

(* A new request has a transfer id of its own and asks for the next piece.      *)
LEMMA RequestingKeepsFiles ==
  ASSUME FilesInv, NEW c \in Clients, Transfer!requestFile(c)
  PROVE  FilesInv'
  <1> USE DEF FilesInv
  <1>0. PICK q \in PieceRequest : q = [client |-> c, transfer |-> requested[c] + 1, offset |-> Len(stored[c])]
    <2>1. [client |-> c, transfer |-> requested[c] + 1, offset |-> Len(stored[c])] \in PieceRequest
      BY DEF FilesType, PieceRequest
    <2> QED
      BY <2>1
  <1>1. /\ UNCHANGED <<file, replies, stored, misread>>
        /\ requests' = Append(requests, q)
        /\ requested' = [requested EXCEPT ![c] = @ + 1]
        /\ fetching' = [fetching EXCEPT ![c] = "await"]
    BY <1>0 DEF Transfer!requestFile
  <1>2. q.client = c /\ q.transfer = requested[c] + 1 /\ q.offset = Len(stored[c]) /\ requested[c] \in Nat
    BY <1>0 DEF FilesType
  <1>3. FilesType'
    BY <1>1, <1>2 DEF FilesType
  <1>4. PiecesOk'
    <2>1. \A m \in PieceRequest : RequestOk(m) => RequestOk(m)'
      BY <1>1, <1>2 DEF RequestOk, Awaited, PieceRequest, FilesType
    <2>2. \A r \in PieceReply : ReplyOk(r) => ReplyOk(r)'
      <3>1. \A r \in PieceReply : r.client \in Clients /\ r.transfer \in Nat
        BY DEF PieceReply
      <3>2. \A r \in PieceReply : Answers(r)' <=> Answers(r)
        BY <1>1 DEF Answers, Transfer!Piece
      <3> QED
        BY <1>1, <1>2, <3>1, <3>2 DEF ReplyOk, Awaited, FilesType
    <2>3. RequestOk(q)'
      BY <1>1, <1>2 DEF RequestOk, Awaited, FilesType, StoredOk
    <2>4. Range(requests') = Range(requests) \cup {q}
      BY <1>1, <1>2, RangeProperties DEF FilesType
    <2>5. Range(requests) \subseteq PieceRequest /\ \A d \in Clients : Range(replies[d]) \subseteq PieceReply
      BY RangeProperties DEF FilesType
    <2> QED
      BY <1>1, <2>1, <2>2, <2>3, <2>4, <2>5 DEF PiecesOk
  <1>5. StoredOk'
    BY <1>1 DEF StoredOk, FilesType
  <1> QED
    BY <1>3, <1>4, <1>5

(* The reply a client takes is the next piece of the file; a short one ends it. *)
LEMMA ReceivingKeepsFiles ==
  ASSUME FilesInv, Assumptions, NEW c \in Clients, Transfer!receiveReply(c)
  PROVE  FilesInv'
  <1> USE DEF FilesInv
  <1>0. PICK r \in PieceReply : r = Head(replies[c]) /\ ReplyOk(r)
    <2>1. Head(replies[c]) \in Range(replies[c]) /\ Range(replies[c]) \subseteq PieceReply
      BY RangeProperties DEF Transfer!receiveReply, FilesType
    <2> QED
      BY <2>1 DEF PiecesOk
  <1>1. /\ UNCHANGED <<file, requests, requested>>
        /\ replies' = [replies EXCEPT ![c] = Tail(@)] /\ replies[c] # <<>>
        /\ fetching[c] = "await"
        /\ IF Transfer!Expected(c, r) /\ r.result = "ok" THEN Transfer!Store(c, r) ELSE Transfer!Abandon(c)
    BY <1>0 DEF Transfer!receiveReply
  <1>2. /\ fetching' \in [Clients -> {"idle", "request", "await", "done", "failed"}]
        /\ fetching'[c] # "await" /\ stored' \in [Clients -> Seq(Nat)]
        /\ \A d \in Clients \ {c} : fetching'[d] = fetching[d] /\ stored'[d] = stored[d]
                                    /\ (d \in misread' <=> d \in misread)
    <2>1. CASE Transfer!Store(c, r)
      <3>1. stored[c] \in Seq(Nat) /\ r.data \in Seq(Nat)
        BY DEF FilesType, PieceReply
      <3>2. stored[c] \o r.data \in Seq(Nat)
        BY <3>1, ConcatenationProperties
      <3> QED
        BY <2>1, <3>2 DEF Transfer!Store, FilesType
    <2>2. CASE Transfer!Abandon(c)
      BY <2>2 DEF Transfer!Abandon, FilesType
    <2> QED
      BY <1>1, <2>1, <2>2
  <1>3. /\ Range(replies'[c]) \subseteq Range(replies[c]) /\ replies' \in [Clients -> Seq(PieceReply)]
        /\ \A d \in Clients \ {c} : replies'[d] = replies[d]
    <2>1. Tail(replies[c]) \in Seq(PieceReply) /\ Range(Tail(replies[c])) \subseteq Range(replies[c])
      BY <1>1, RangeProperties DEF FilesType
    <2> QED
      BY <1>1, <2>1 DEF FilesType
  <1>4. FilesType'
    BY <1>1, <1>2, <1>3 DEF FilesType
  <1>5. PiecesOk'
    <2>1. \A q \in PieceRequest : RequestOk(q) => RequestOk(q)'
      BY <1>1, <1>2 DEF RequestOk, Awaited, PieceRequest
    <2>2. \A m \in PieceReply : ReplyOk(m) => ReplyOk(m)'
      BY <1>1, <1>2 DEF ReplyOk, Awaited, Answers, Transfer!Piece, PieceReply
    <2>3. Range(requests) \subseteq PieceRequest /\ \A d \in Clients : Range(replies[d]) \subseteq PieceReply
      BY RangeProperties DEF FilesType
    <2> QED
      BY <1>1, <1>3, <2>1, <2>2, <2>3 DEF PiecesOk
  <1>6. StoredOk'
    <2>1. ASSUME Transfer!Expected(c, r), r.result = "ok"
          PROVE  /\ Len(stored'[c]) <= Len(file) /\ \A k \in 1 .. Len(stored'[c]) : stored'[c][k] = k
                 /\ fetching'[c] = "done" /\ c \notin misread' => Len(stored'[c]) = Len(file)
      <3> DEFINE o == Len(stored[c])
      <3>1. o \in Nat /\ o <= Len(file) /\ Len(file) \in Nat /\ Size \in Nat \ {0}
        BY DEF FilesType, StoredOk, Assumptions, Transfer!OliTransferAssumption
      <3>2. r.data = IF r.failed THEN <<>> ELSE Transfer!Piece(o)
        BY <1>0, <1>1, <2>1 DEF Transfer!Expected, ReplyOk, Awaited, Answers
      <3>3. /\ stored'[c] = stored[c] \o r.data
            /\ fetching'[c] = IF Len(r.data) < Size THEN "done" ELSE "request"
            /\ r.failed => c \in misread'
        BY <1>1, <2>1 DEF Transfer!Store, FilesType
      <3>4. CASE r.failed
        <4>1. stored'[c] = stored[c] /\ c \in misread'
          BY <3>2, <3>3, <3>4 DEF FilesType
        <4> QED
          BY <4>1 DEF StoredOk
      <3>5. CASE ~r.failed
        <4>1. PICK p \in Seq(Nat) :
                  /\ r.data = p
                  /\ Len(p) = IF o + Size < Len(file) THEN Size ELSE Len(file) - o
                  /\ \A k \in 1 .. Len(p) : p[k] = o + k
          BY <3>1, <3>2, <3>5, PieceProperties
        <4>2. stored'[c] = stored[c] \o p /\ fetching'[c] = IF Len(p) < Size THEN "done" ELSE "request"
          BY <3>3, <4>1
        <4>3. stored[c] \in Seq(Nat)
          BY DEF FilesType
        <4>4. /\ Len(p) \in Nat /\ Len(stored[c] \o p) = o + Len(p)
              /\ \A k \in 1 .. o + Len(p) : (stored[c] \o p)[k] = IF k <= o THEN stored[c][k] ELSE p[k - o]
          BY <4>3, ConcatenationProperties
        <4>5. \A k \in 1 .. o : stored[c][k] = k
          BY DEF StoredOk
        <4> HIDE DEF o
        <4>6. o + Len(p) <= Len(file) /\ (Len(p) < Size => o + Len(p) = Len(file))
          BY <3>1, <4>1
        <4>7. \A k \in 1 .. o + Len(p) : (stored[c] \o p)[k] = k
          <5>1. ASSUME NEW k \in 1 .. o + Len(p), k <= o
                PROVE  (stored[c] \o p)[k] = k
            BY <3>1, <4>4, <4>5, <5>1
          <5>2. ASSUME NEW k \in 1 .. o + Len(p), ~(k <= o)
                PROVE  (stored[c] \o p)[k] = k
            <6>1. k - o \in 1 .. Len(p) /\ o + (k - o) = k
              BY <3>1, <4>4, <5>2
            <6> QED
              BY <4>1, <4>4, <5>2, <6>1
          <5> QED
            BY <5>1, <5>2
        <4> QED
          BY <4>2, <4>4, <4>6, <4>7
      <3> QED
        BY <3>4, <3>5
    <2>2. ASSUME ~(Transfer!Expected(c, r) /\ r.result = "ok")
          PROVE  stored'[c] = stored[c] /\ fetching'[c] # "done"
      BY <1>1, <2>2 DEF Transfer!Abandon, FilesType
    <2> QED
      BY <1>1, <1>2, <2>1, <2>2 DEF StoredOk
  <1> QED
    BY <1>4, <1>5, <1>6

(* The server answers a request, if it succeeds, with the piece asked for.      *)
LEMMA ServingKeepsFiles ==
  ASSUME FilesInv, Assumptions, Transfer!handleRequest
  PROVE  FilesInv'
  <1> USE DEF FilesInv
  <1>1. UNCHANGED <<file, fetching, stored, requested, misread>>
    BY DEF Transfer!handleRequest
  <1>2. PICK q \in PieceRequest : q = Head(requests) /\ RequestOk(q)
    <2>1. Head(requests) \in Range(requests) /\ Range(requests) \subseteq PieceRequest
      BY RangeProperties DEF Transfer!handleRequest, FilesType
    <2> QED
      BY <2>1 DEF PiecesOk
  <1>3. requests' \in Seq(PieceRequest) /\ Range(requests') \subseteq Range(requests)
    BY RangeProperties DEF Transfer!handleRequest, FilesType
  <1>4. ASSUME NEW r \in Transfer!handleRequestFileRead(q)
        PROVE  r \in PieceReply /\ ReplyOk(r)
    <2>1. q.client \in Clients /\ q.transfer \in Nat /\ q.offset \in Nat
      BY DEF PieceRequest
    <2>2. Transfer!Piece(q.offset) \in Seq(Nat) /\ <<>> \in Seq(Nat)
      BY <1>2, <2>1, PieceProperties DEF RequestOk
    <2>3. PICK result \in {"ok", "no access"}, data \in Seq(Nat), failed \in BOOLEAN :
              /\ r = [client |-> q.client, transfer |-> q.transfer, result |-> result, data |-> data, failed |-> failed]
              /\ result = "ok" => data = IF failed THEN <<>> ELSE Transfer!Piece(q.offset)
      BY <1>4, <2>2 DEF Transfer!handleRequestFileRead
    <2>4. r \in PieceReply
      BY <2>1, <2>3 DEF PieceReply
    <2>5. /\ r.client = q.client /\ r.transfer = q.transfer
          /\ r.result = "ok" => r.data = IF r.failed THEN <<>> ELSE Transfer!Piece(q.offset)
      BY <2>3
    <2> QED
      BY <1>2, <2>4, <2>5 DEF ReplyOk, RequestOk, Awaited, Answers
  <1>5. /\ replies' \in [Clients -> Seq(PieceReply)]
        /\ \A d \in Clients : \A m \in Range(replies'[d]) : m \in PieceReply /\ ReplyOk(m)
    <2>1. /\ \A d \in Clients : replies[d] \in Seq(PieceReply) /\ Range(replies[d]) \subseteq PieceReply
          /\ \A d \in Clients : \A m \in Range(replies[d]) : ReplyOk(m)
      BY RangeProperties DEF FilesType, PiecesOk
    <2>2. CASE UNCHANGED replies
      BY <2>1, <2>2 DEF FilesType
    <2>3. CASE \E r \in Transfer!handleRequestFileRead(q) : Transfer!Broadcast(r)
      <3>1. PICK r \in Transfer!handleRequestFileRead(q) : Transfer!Broadcast(r)
        BY <2>3
      <3>2. r \in PieceReply /\ ReplyOk(r)
        BY <1>4
      <3>3. \A d \in Clients : /\ Append(replies[d], r) \in Seq(PieceReply)
                               /\ Range(Append(replies[d], r)) = Range(replies[d]) \cup {r}
        BY <2>1, <3>2, RangeProperties
      <3>4. replies' = [d \in Clients |-> IF d \in attached THEN Append(replies[d], r) ELSE replies[d]]
        BY <3>1 DEF Transfer!Broadcast
      <3> QED
        BY <2>1, <3>2, <3>3, <3>4
    <2> QED
      BY <1>2, <2>2, <2>3 DEF Transfer!handleRequest
  <1>6. FilesType' /\ StoredOk'
    BY <1>1, <1>3, <1>5 DEF FilesType, StoredOk
  <1>7. PiecesOk'
    <2>1. \A m \in PieceRequest : RequestOk(m) => RequestOk(m)'
      BY <1>1 DEF RequestOk, Awaited
    <2>2. \A m \in PieceReply : ReplyOk(m) => ReplyOk(m)'
      BY <1>1 DEF ReplyOk, Awaited, Answers, Transfer!Piece
    <2>3. Range(requests) \subseteq PieceRequest
      BY RangeProperties DEF FilesType
    <2> QED
      BY <1>3, <1>5, <2>1, <2>2, <2>3 DEF PiecesOk
  <1> QED
    BY <1>6, <1>7

LEMMA FilesStep ==
  ASSUME Assumptions, FilesInv, [Transfer!Next]_oliVars
  PROVE  FilesInv'
  <1>1. CASE \E c \in Clients : Transfer!storeCompleteFile(c) \/ Transfer!requestFile(c)
                                \/ Transfer!receiveReply(c) \/ Transfer!TimeOut(c)
    BY <1>1, RestartingKeepsFiles, RequestingKeepsFiles, ReceivingKeepsFiles
  <1>2. CASE Transfer!handleRequest
    BY <1>2, ServingKeepsFiles
  <1>3. CASE UNCHANGED oliVars
    <2>1. UNCHANGED <<file, requests, replies, fetching, stored, requested, misread>>
      BY <1>3 DEF oliVars
    <2> QED BY <2>1 DEF FilesInv, FilesType, PiecesOk, StoredOk, RequestOk, ReplyOk, Awaited, Answers, Transfer!Piece
  <1> QED BY <1>1, <1>2, <1>3 DEF Transfer!Next

(* OliTransfer.TransferIsExact: whatever is lost, late or meant for others, a     *)
(* client has stored the beginning of the file, and all of it when it is done.    *)
THEOREM FilesAreExact == Spec => []TransferIsExact
  <1>0. Init => FilesInv
    BY FilesInit, Assumptions DEF Init
  <1>1. FilesInv /\ [Next]_vars => FilesInv'
    <2> SUFFICES ASSUME FilesInv, [Next]_vars PROVE FilesInv'
      OBVIOUS
    <2>1. [Transfer!Next]_oliVars
      BY DEF Next, vars, logical
    <2> QED BY <2>1, FilesStep, Assumptions
  <1>2. FilesInv => TransferIsExact
    <2> SUFFICES ASSUME FilesInv, NEW c \in Clients
                 PROVE  /\ Transfer!IsPrefix(stored[c], file)
                        /\ (fetching[c] = "done" /\ c \notin misread) => stored[c] = file
      BY DEF TransferIsExact, Transfer!TransferIsExact
    <2> DEFINE s == stored[c]
               n == Len(s)
    <2>1. /\ s \in Seq(Nat) /\ file \in Seq(Nat) /\ n \in Nat /\ n <= Len(file)
          /\ \A k \in 1 .. n : s[k] = file[k]
      <3>1. s \in Seq(Nat) /\ file \in Seq(Nat)
        BY DEF FilesInv, FilesType
      <3>2. n \in Nat /\ Len(file) \in Nat
        BY <3>1
      <3>3. n <= Len(file) /\ \A k \in 1 .. n : s[k] = k
        BY DEF FilesInv, StoredOk
      <3>4. \A k \in 1 .. Len(file) : file[k] = k
        BY DEF FilesInv, FilesType
      <3> HIDE DEF s
      <3>5. \A k \in 1 .. n : k \in 1 .. Len(file)
        BY <3>2, <3>3
      <3> QED BY <3>1, <3>2, <3>3, <3>4, <3>5
    <2> HIDE DEF s
    <2>2. SubSeq(s, 1, n) = s
      BY <2>1, SubSeqFull
    <2>3. /\ SubSeq(file, 1, n) \in Seq(Nat) /\ Len(SubSeq(file, 1, n)) = n
          /\ \A k \in 1 .. n : SubSeq(file, 1, n)[k] = file[k]
      BY <2>1
    <2>4. SubSeq(file, 1, n) = s
      BY <2>1, <2>3, SeqEqual
    <2>5. n = Len(file) => s = file
      BY <2>1, SeqEqual
    <2> QED
      BY <2>1, <2>2, <2>4, <2>5 DEF Transfer!IsPrefix, FilesInv, StoredOk, s
  <1> QED
    BY <1>0, <1>1, <1>2, PTL DEF Spec

--------------------------------------------------------------------------------
(* Nii: a connection that is received from has a socket, also in the copies of    *)
(* the network that are stored back later.  A buffer belongs to one connection    *)
(* from its packet to its reader; one that calls back is read before the service  *)
(* thread turns to the next packet, the others have one packet on their way.      *)
InService == {"callback", "taking", "broadcast"}

InterfaceType ==
    /\ nw \in [Ports -> Interface!NetworkRecord \cup {None}]
    /\ tc \in [TcIds -> Interface!Connection \cup {None}]
    /\ allocated \subseteq Buffers /\ content \in [Buffers -> TcIds \cup {None}]
    /\ pending \in [Ports -> Seq(TcIds \ Streaming)]
    /\ service.at \in {"select", "store"} \cup InService
    /\ service.at = "store" => service.id \in TcIds /\ service.copy \in Interface!Connection
    /\ service.at \in InService => service \in [at : InService, id : TcIds]
    /\ taking \in [{"service", "reader"} -> Interface!Copy \cup {None}]
    /\ reader.at \in {"idle", "taking", "waiting", "woken"}
    /\ reader.at \in {"waiting", "woken"} => reader \in [at : {"waiting", "woken"}, id : TcIds \ Calling]

Receives(i) == tc[i] # None /\ tc[i].direction = "receive"
Sends(i) == tc[i] # None /\ tc[i].direction = "send"

ConnectionsOk ==
    \A i \in TcIds : tc[i] # None =>
        /\ tc[i].type = IF i \in Streaming THEN "streaming" ELSE "message"
        /\ tc[i].direction = "receive" => nw[tc[i].port] # None /\ nw[tc[i].port].open
        /\ tc[i].buffer # None => tc[i].direction = "receive" /\ tc[i].type = "message"
        /\ i \in Calling /\ tc[i].buffer # None => service.at \in {"callback", "taking"} /\ service.id = i

BuffersOk ==
    /\ \A i \in TcIds : tc[i] # None /\ tc[i].buffer # None =>
            /\ tc[i].buffer \in allocated /\ content[tc[i].buffer] = i
            /\ \A j \in TcIds : tc[j] # None /\ tc[j].buffer = tc[i].buffer => j = i
    /\ \A b \in allocated : \/ \E i \in TcIds : tc[i] # None /\ tc[i].buffer = b
                            \/ service.at = "store" /\ service.copy.buffer = b

ServiceOk ==
    /\ service.at # "select" => Receives(service.id) /\ tc[service.id].type = "message"
    /\ service.at = "store" =>
            /\ service.copy.buffer \in allocated /\ content[service.copy.buffer] = service.id
            /\ service.copy = [tc[service.id] EXCEPT !.buffer = service.copy.buffer]
            /\ tc[service.id].buffer = None
            /\ \A i \in TcIds : tc[i] # None => tc[i].buffer # service.copy.buffer
    /\ service.at = "callback" /\ service.id \in Calling => tc[service.id].buffer # None

CopiesOk ==
    /\ \A t \in {"service", "reader"} : taking[t] # None =>
            /\ tc[taking[t].id] = taking[t].connection /\ taking[t].connection.buffer # None
            /\ taking[t].connection.direction = "receive" /\ taking[t].network.open
    /\ taking["service"] # None => service.at = "taking" /\ taking["service"].id = service.id
                                   /\ service.id \in Calling
    /\ taking["reader"] # None => reader.at = "taking" /\ taking["reader"].id \notin Calling

PacketAt(i, p, k) == p \in Ports /\ k \in DOMAIN pending[p] /\ pending[p][k] = i

PacketsOk ==
    \A i \in TcIds \ Calling :
        /\ ~Sends(i) => \A p, q \in Ports : \A k \in DOMAIN pending[p], l \in DOMAIN pending[q] :
                            pending[p][k] = i /\ pending[q][l] = i => p = q /\ k = l
        /\ \A p \in Ports : \A k \in DOMAIN pending[p] : pending[p][k] = i =>
                /\ tc[i] # None => tc[i].buffer = None
                /\ ~(service.at = "store" /\ service.id = i)

CallbacksOk == (\E i \in Calling : tc[i] # None) => callbacks # <<>> /\ Head(callbacks)

InterfaceInv ==
    /\ InterfaceType /\ ConnectionsOk /\ BuffersOk /\ ServiceOk /\ CopiesOk /\ PacketsOk /\ CallbacksOk
    /\ callbacks \in Seq(BOOLEAN)

LEMMA InterfaceFacts ==
  ASSUME Assumptions
  PROVE  /\ Calling \subseteq TcIds /\ Buffers \subseteq Nat /\ None \notin TcIds /\ None \notin Buffers
         /\ None \notin Interface!NetworkRecord /\ None \notin Interface!Connection
         /\ None \notin Interface!Copy
  BY DEF Assumptions, Interface!NiiAssumption

LEMMA LeastBuffer ==
  ASSUME NEW S \in SUBSET Nat, S # {}
  PROVE  Interface!Min(S) \in S
  BY LeastIs DEF Interface!Min

LEMMA InterfaceInit == Assumptions /\ Interface!Init => InterfaceInv
  <1> SUFFICES ASSUME Assumptions, Interface!Init PROVE InterfaceInv
    OBVIOUS
  <1>1. /\ nw = [p \in Ports |-> None] /\ tc = [i \in TcIds |-> None] /\ allocated = {}
        /\ content = [b \in Buffers |-> None] /\ pending = [p \in Ports |-> <<>>]
        /\ service.at = "select" /\ taking = [t \in {"service", "reader"} |-> None]
        /\ reader.at = "idle" /\ callbacks = <<>>
    BY DEF Interface!Init
  <1>2. InterfaceType
    <2>1. <<>> \in Seq(TcIds \ Streaming)
      OBVIOUS
    <2> QED BY <1>1, <2>1 DEF InterfaceType, InService
  <1>3. ConnectionsOk /\ BuffersOk /\ ServiceOk /\ CopiesOk /\ CallbacksOk
    BY <1>1, InterfaceFacts DEF ConnectionsOk, BuffersOk, ServiceOk, CopiesOk, CallbacksOk
  <1>4. PacketsOk
    <2>1. \A p \in Ports : DOMAIN pending[p] = {}
      BY <1>1
    <2> QED BY <2>1 DEF PacketsOk
  <1>5. callbacks \in Seq(BOOLEAN)
    BY <1>1
  <1> QED BY <1>2, <1>3, <1>4, <1>5 DEF InterfaceInv

(* What a packet and a place in the lists are.                                    *)
LEMMA ConnectionIs ==
  ASSUME InterfaceInv, NEW i \in TcIds, tc[i] # None
  PROVE  /\ tc[i] \in Interface!Connection /\ tc[i].port \in Ports /\ tc[i].direction \in {"send", "receive"}
         /\ tc[i].type \in {"message", "streaming"} /\ tc[i].buffer \in Buffers \cup {None}
  <1>1. tc[i] \in Interface!Connection
    BY DEF InterfaceInv, InterfaceType
  <1> QED BY <1>1 DEF Interface!Connection

(* What a step leaves alone.                                                      *)
LEMMA BuffersKept == InterfaceInv /\ UNCHANGED <<tc, allocated, content, service>> => BuffersOk'
  BY DEF InterfaceInv, BuffersOk

LEMMA ServiceKept == InterfaceInv /\ UNCHANGED <<tc, allocated, content, service>> => ServiceOk'
  BY DEF InterfaceInv, ServiceOk, Receives

LEMMA CopiesKept == InterfaceInv /\ UNCHANGED <<tc, service, taking, reader>> => CopiesOk'
  BY DEF InterfaceInv, CopiesOk

LEMMA PacketsKept == InterfaceInv /\ UNCHANGED <<tc, pending, service>> => PacketsOk'
  BY DEF InterfaceInv, PacketsOk, Sends

LEMMA EnabledKept ==
  ASSUME InterfaceInv, UNCHANGED <<tc, callbacks>>
  PROVE  CallbacksOk' /\ callbacks' \in Seq(BOOLEAN)
  <1>1. tc' = tc /\ callbacks' = callbacks
    OBVIOUS
  <1>2. callbacks' \in Seq(BOOLEAN)
    BY <1>1 DEF InterfaceInv
  <1>3. CallbacksOk
    BY DEF InterfaceInv
  <1>4. CallbacksOk'
    BY <1>1, <1>3 DEF CallbacksOk
  <1> QED BY <1>2, <1>4

(* What keeps a part while a connection changes.                                  *)
LEMMA BuffersSame ==
  ASSUME Assumptions, InterfaceInv, UNCHANGED <<allocated, content, service>>,
         \A j \in TcIds :
            /\ tc'[j] # None /\ tc'[j].buffer # None => tc[j] # None /\ tc[j].buffer = tc'[j].buffer
            /\ tc[j] # None /\ tc[j].buffer # None => tc'[j] # None /\ tc'[j].buffer = tc[j].buffer
  PROVE  BuffersOk'
  <1>1. ASSUME NEW j \in TcIds, tc'[j] # None, tc'[j].buffer # None
        PROVE  /\ tc'[j].buffer \in allocated' /\ content'[tc'[j].buffer] = j
               /\ \A k \in TcIds : tc'[k] # None /\ tc'[k].buffer = tc'[j].buffer => k = j
    <2>1. tc[j] # None /\ tc[j].buffer = tc'[j].buffer /\ tc[j].buffer # None
      BY <1>1
    <2>2. /\ tc[j].buffer \in allocated /\ content[tc[j].buffer] = j
          /\ \A k \in TcIds : tc[k] # None /\ tc[k].buffer = tc[j].buffer => k = j
      BY <2>1 DEF InterfaceInv, BuffersOk
    <2> QED BY <1>1, <2>1, <2>2
  <1>2. ASSUME NEW b \in allocated'
        PROVE  \/ \E j \in TcIds : tc'[j] # None /\ tc'[j].buffer = b
               \/ service'.at = "store" /\ service'.copy.buffer = b
    <2>1. b \in allocated /\ b # None
      BY InterfaceFacts DEF InterfaceInv, InterfaceType
    <2>2. \/ \E j \in TcIds : tc[j] # None /\ tc[j].buffer = b
          \/ service.at = "store" /\ service.copy.buffer = b
      BY <2>1 DEF InterfaceInv, BuffersOk
    <2> QED BY <2>1, <2>2
  <1> QED BY <1>1, <1>2 DEF BuffersOk

LEMMA ServiceSame ==
  ASSUME Assumptions, InterfaceInv, UNCHANGED <<allocated, content, service>>,
         service.at # "select" => tc'[service.id] = tc[service.id],
         \A j \in TcIds : tc'[j] # None => tc'[j].buffer = None \/ (tc[j] # None /\ tc[j].buffer = tc'[j].buffer)
  PROVE  ServiceOk'
  <1>1. service.at = "store" => service.copy.buffer # None
    BY InterfaceFacts DEF InterfaceInv, InterfaceType, ServiceOk
  <1>2. service.at = "store" => \A j \in TcIds : tc'[j] # None => tc'[j].buffer # service.copy.buffer
    BY <1>1 DEF InterfaceInv, ServiceOk
  <1> QED BY <1>2 DEF InterfaceInv, ServiceOk, Receives

LEMMA CopiesSame ==
  ASSUME InterfaceInv, UNCHANGED <<service, taking, reader>>,
         \A t \in {"service", "reader"} : taking[t] # None => tc'[taking[t].id] = tc[taking[t].id]
  PROVE  CopiesOk'
  BY DEF InterfaceInv, CopiesOk

LEMMA PacketsSame ==
  ASSUME InterfaceInv, UNCHANGED service,
         \A p \in Ports : pending'[p] = pending[p] \/ pending'[p] = <<>>,
         \A j \in TcIds \ Calling :
            \/ \A p \in Ports : \A k \in DOMAIN pending[p] : pending[p][k] # j
            \/ /\ ~Sends(j)' => ~Sends(j)
               /\ tc'[j] # None => tc'[j].buffer = None \/ (tc[j] # None /\ tc[j].buffer = tc'[j].buffer)
  PROVE  PacketsOk'
  <1> SUFFICES ASSUME NEW j \in TcIds \ Calling
               PROVE  /\ ~Sends(j)' => \A q, r \in Ports : \A k \in DOMAIN pending'[q], l \in DOMAIN pending'[r] :
                            pending'[q][k] = j /\ pending'[r][l] = j => q = r /\ k = l
                      /\ \A q \in Ports : \A k \in DOMAIN pending'[q] : pending'[q][k] = j =>
                            /\ tc'[j] # None => tc'[j].buffer = None
                            /\ ~(service'.at = "store" /\ service'.id = j)
    BY DEF PacketsOk
  <1>1. \A q \in Ports : \A k \in DOMAIN pending'[q] : k \in DOMAIN pending[q] /\ pending'[q][k] = pending[q][k]
    OBVIOUS
  <1>2. CASE \A p \in Ports : \A k \in DOMAIN pending[p] : pending[p][k] # j
    BY <1>1, <1>2
  <1>3. CASE /\ ~Sends(j)' => ~Sends(j)
             /\ tc'[j] # None => tc'[j].buffer = None \/ (tc[j] # None /\ tc[j].buffer = tc'[j].buffer)
    BY <1>1, <1>3 DEF InterfaceInv, PacketsOk
  <1> QED BY <1>2, <1>3

LEMMA EnabledSame ==
  ASSUME Assumptions, InterfaceInv, callbacks' = callbacks, \A j \in TcIds : tc'[j] # None => tc[j] # None
  PROVE  CallbacksOk' /\ callbacks' \in Seq(BOOLEAN)
  <1>1. (\E j \in Calling : tc'[j] # None) => \E j \in Calling : tc[j] # None
    BY InterfaceFacts
  <1>2. callbacks' \in Seq(BOOLEAN)
    BY DEF InterfaceInv
  <1>3. CallbacksOk
    BY DEF InterfaceInv
  <1>4. CallbacksOk'
    BY <1>1, <1>3 DEF CallbacksOk
  <1> QED BY <1>2, <1>4

LEMMA FlagsAre ==
  ASSUME NEW s \in Seq(BOOLEAN), NEW f \in BOOLEAN
  PROVE  /\ Append(s, f) \in Seq(BOOLEAN)
         /\ s # <<>> => Append(s, f) # <<>> /\ Head(Append(s, f)) = Head(s)
         /\ s # <<>> => /\ Tail(s) \in Seq(BOOLEAN) /\ <<f>> \o Tail(s) \in Seq(BOOLEAN)
                        /\ <<f>> \o Tail(s) # <<>> /\ Head(<<f>> \o Tail(s)) = f
  <1>1. /\ Append(s, f) \in Seq(BOOLEAN) /\ Append(s, f) # <<>>
        /\ \A i \in 1 .. Len(s) : Append(s, f)[i] = s[i]
    BY AppendProperties
  <1>2. ASSUME s # <<>> PROVE Head(Append(s, f)) = Head(s)
    <2>1. 1 \in 1 .. Len(s)
      BY <1>2
    <2>2. Append(s, f)[1] = s[1]
      BY <1>1, <2>1
    <2> QED BY <1>1, <1>2, <2>2
  <1>3. ASSUME s # <<>>
        PROVE  /\ Tail(s) \in Seq(BOOLEAN) /\ <<f>> \o Tail(s) \in Seq(BOOLEAN)
               /\ <<f>> \o Tail(s) # <<>> /\ Head(<<f>> \o Tail(s)) = f
    <2>1. Tail(s) \in Seq(BOOLEAN) /\ <<f>> \in Seq(BOOLEAN) /\ <<f>> # <<>>
      BY <1>3
    <2>2. <<f>> \o Tail(s) \in Seq(BOOLEAN) /\ Len(<<f>> \o Tail(s)) = Len(<<f>>) + Len(Tail(s))
      BY <2>1, ConcatProperties
    <2>3. <<f>> \o Tail(s) # <<>>
      BY <2>1, <2>2
    <2>4. (<<f>> \o Tail(s))[1] = f
      BY <2>1
    <2> QED BY <2>1, <2>2, <2>3, <2>4
  <1> QED BY <1>1, <1>2, <1>3

LEMMA CallbacksKept ==
  ASSUME Assumptions, InterfaceInv,
         Interface!ASAAC_MOS_registerCallback \/ Interface!ASAAC_MOS_enableCallback
            \/ Interface!ASAAC_MOS_disableCallback \/ Interface!ASAAC_MOS_deleteCallback
  PROVE  InterfaceInv'
  <1>1. UNCHANGED <<nw, tc, allocated, content, pending, service, taking, reader>>
    BY DEF Interface!ASAAC_MOS_registerCallback, Interface!ASAAC_MOS_enableCallback,
           Interface!ASAAC_MOS_disableCallback, Interface!ASAAC_MOS_deleteCallback, Interface!SetCallbacks,
           Interface!tables
  <1>2. InterfaceType' /\ ConnectionsOk' /\ BuffersOk'
    BY <1>1 DEF InterfaceInv, InterfaceType, ConnectionsOk, BuffersOk
  <1>3. ServiceOk' /\ CopiesOk' /\ PacketsOk'
    BY <1>1, ServiceKept, CopiesKept, PacketsKept
  <1>5. callbacks \in Seq(BOOLEAN) /\ CallbacksOk
    BY DEF InterfaceInv
  <1>6. callbacks' \in Seq(BOOLEAN)
        /\ ((\E i \in Calling : tc[i] # None) => callbacks' # <<>> /\ Head(callbacks'))
    <2>1. CASE Interface!ASAAC_MOS_registerCallback
      <3>1. callbacks' = Append(callbacks, FALSE)
        BY <2>1 DEF Interface!ASAAC_MOS_registerCallback, Interface!SetCallbacks
      <3>2. callbacks' \in Seq(BOOLEAN)
            /\ (callbacks # <<>> => callbacks' # <<>> /\ Head(callbacks') = Head(callbacks))
        BY <1>5, <3>1, FlagsAre
      <3> QED BY <1>5, <3>2 DEF CallbacksOk
    <2>2. CASE Interface!ASAAC_MOS_enableCallback
      <3>1. callbacks' = <<TRUE>> \o Tail(callbacks) /\ callbacks # <<>>
        BY <2>2 DEF Interface!ASAAC_MOS_enableCallback, Interface!SetCallbacks
      <3>2. callbacks' \in Seq(BOOLEAN) /\ callbacks' # <<>> /\ Head(callbacks') = TRUE
        BY <1>5, <3>1, FlagsAre
      <3> QED BY <3>2
    <2>3. CASE Interface!ASAAC_MOS_disableCallback \/ Interface!ASAAC_MOS_deleteCallback
      <3>1. ~(\E i \in Calling : tc[i] # None) /\ callbacks # <<>>
            /\ (callbacks' = Tail(callbacks) \/ callbacks' = <<FALSE>> \o Tail(callbacks))
        BY <2>3 DEF Interface!ASAAC_MOS_disableCallback, Interface!ASAAC_MOS_deleteCallback,
                    Interface!SetCallbacks, Interface!InUse, Interface!getTc
      <3>2. Tail(callbacks) \in Seq(BOOLEAN) /\ <<FALSE>> \o Tail(callbacks) \in Seq(BOOLEAN)
        <4>1. callbacks # <<>> => /\ Tail(callbacks) \in Seq(BOOLEAN)
                                 /\ <<FALSE>> \o Tail(callbacks) \in Seq(BOOLEAN)
          BY <1>5, FlagsAre
        <4> QED BY <3>1, <4>1
      <3>3. callbacks' \in Seq(BOOLEAN)
        BY <3>1, <3>2
      <3> QED BY <3>1, <3>3
    <2> QED BY <2>1, <2>2, <2>3
  <1>7. CallbacksOk'
    BY <1>1, <1>6 DEF CallbacksOk
  <1> QED BY <1>2, <1>3, <1>6, <1>7 DEF InterfaceInv

(* Networks are configured while nothing uses them.                               *)
LEMMA NetworkConfigured ==
  ASSUME Assumptions, InterfaceInv, Interface!NII_configureInterface
  PROVE  InterfaceInv'
  <1>1. UNCHANGED <<tc, allocated, content, pending, service, taking, reader, callbacks>>
    BY DEF Interface!NII_configureInterface, Interface!Threads
  <1>2. /\ nw' \in [Ports -> Interface!NetworkRecord \cup {None}]
        /\ \A i \in TcIds : tc[i] # None => nw'[tc[i].port] = nw[tc[i].port]
    <2>1. PICK p \in Ports :
            /\ Interface!TcsOf(p) = {}
            /\ \/ Interface!removeNw(p)
               \/ (\A i \in TcIds : ~Interface!getTc(i)) /\ Interface!removeAllNw
               \/ Interface!setNw(p, Interface!Closed)
      BY DEF Interface!NII_configureInterface
    <2>2. \A i \in TcIds : tc[i] # None => tc[i].port # p /\ tc[i].port \in Ports
      BY <2>1, ConnectionIs DEF Interface!TcsOf, Interface!getTc
    <2>3. nw \in [Ports -> Interface!NetworkRecord \cup {None}]
      BY DEF InterfaceInv, InterfaceType
    <2>4. Interface!Closed \in Interface!NetworkRecord
      BY DEF Interface!Closed, Interface!NetworkRecord
    <2>5. CASE Interface!removeNw(p)
      BY <2>2, <2>3, <2>5 DEF Interface!removeNw
    <2>6. CASE (\A i \in TcIds : ~Interface!getTc(i)) /\ Interface!removeAllNw
      BY <2>6 DEF Interface!removeAllNw, Interface!getTc
    <2>7. CASE Interface!setNw(p, Interface!Closed)
      BY <2>2, <2>3, <2>4, <2>7 DEF Interface!setNw
    <2> QED BY <2>1, <2>5, <2>6, <2>7
  <1>3. InterfaceType'
    BY <1>1, <1>2 DEF InterfaceInv, InterfaceType
  <1>4. ConnectionsOk'
    BY <1>1, <1>2 DEF InterfaceInv, ConnectionsOk
  <1>5. BuffersOk' /\ ServiceOk' /\ CopiesOk'
    BY <1>1, BuffersKept, ServiceKept, CopiesKept
  <1>6. PacketsOk' /\ CallbacksOk' /\ callbacks' \in Seq(BOOLEAN)
    BY <1>1, PacketsKept, EnabledKept
  <1> QED BY <1>3, <1>4, <1>5, <1>6 DEF InterfaceInv

(* A new connection opens its network and has neither a buffer nor a call.        *)
LEMMA ConnectionConfigured ==
  ASSUME Assumptions, InterfaceInv, NEW i \in TcIds, Interface!NII_configureTransfer(i)
  PROVE  InterfaceInv'
  <1>1. PICK p \in Ports, d \in {"send", "receive"}, y \in {"streaming", "message"} :
            /\ tc[i] = None /\ (i \in Calling => callbacks # <<>> /\ Head(callbacks)) /\ nw[p] # None
            /\ y = IF i \in Streaming THEN "streaming" ELSE "message"
            /\ nw' = [nw EXCEPT ![p] = Interface!Opened(p, y, d)]
            /\ \/ tc' = tc
               \/ tc' = [tc EXCEPT ![i] = [port |-> p, direction |-> d, type |-> y, buffer |-> None]]
            /\ UNCHANGED <<allocated, content, pending, service, taking, reader, callbacks>>
    BY DEF Interface!NII_configureTransfer, Interface!getTc, Interface!Handled, Interface!getNw, Interface!setNw,
           Interface!addTc, Interface!Threads
  <1>2. /\ nw' \in [Ports -> Interface!NetworkRecord \cup {None}] /\ nw'[p] # None
        /\ d = "receive" => nw'[p].open
        /\ nw[p].open => nw'[p].open
        /\ \A q \in Ports \ {p} : nw'[q] = nw[q]
    <2>1. nw \in [Ports -> Interface!NetworkRecord \cup {None}] /\ nw[p] \in Interface!NetworkRecord
      BY <1>1 DEF InterfaceInv, InterfaceType
    <2>2. PICK n \in Interface!NetworkRecord :
             n = Interface!Opened(p, y, d) /\ (d = "receive" => n.open) /\ (nw[p].open => n.open)
      <3>1. Interface!Opened(p, y, d) \in Interface!NetworkRecord
        BY <2>1 DEF Interface!Opened, Interface!NetworkRecord
      <3>2. d = "receive" => Interface!Opened(p, y, d).open
        BY <1>1 DEF Interface!Opened
      <3>3. nw[p].open => Interface!Opened(p, y, d).open
        BY <1>1 DEF Interface!Opened
      <3> QED BY <3>1, <3>2, <3>3
    <2>3. nw' = [nw EXCEPT ![p] = n]
      BY <1>1, <2>2
    <2> QED BY <2>1, <2>2, <2>3, InterfaceFacts
  <1>3. CASE tc' = tc
    <2>1. InterfaceType'
      BY <1>1, <1>2, <1>3 DEF InterfaceInv, InterfaceType
    <2>2. ConnectionsOk'
      <3>1. \A j \in TcIds : tc[j] # None => tc[j].port \in Ports
        BY ConnectionIs
      <3> QED BY <1>1, <1>2, <1>3, <3>1 DEF InterfaceInv, ConnectionsOk
    <2>3. BuffersOk' /\ ServiceOk' /\ CopiesOk'
      BY <1>1, <1>3, BuffersKept, ServiceKept, CopiesKept
    <2>4. PacketsOk' /\ CallbacksOk' /\ callbacks' \in Seq(BOOLEAN)
      BY <1>1, <1>3, PacketsKept, EnabledKept
    <2> QED BY <2>1, <2>2, <2>3, <2>4 DEF InterfaceInv
  <1>4. CASE tc' = [tc EXCEPT ![i] = [port |-> p, direction |-> d, type |-> y, buffer |-> None]]
    <2>1. PICK c \in Interface!Connection :
            c.port = p /\ c.direction = d /\ c.type = y /\ c.buffer = None /\ tc' = [tc EXCEPT ![i] = c]
      <3>1. [port |-> p, direction |-> d, type |-> y, buffer |-> None] \in Interface!Connection
        BY DEF Interface!Connection
      <3> QED BY <1>4, <3>1
    <2>2. tc' \in [TcIds -> Interface!Connection \cup {None}] /\ tc'[i] = c /\ c # None
          /\ \A j \in TcIds \ {i} : tc'[j] = tc[j]
      BY <2>1, InterfaceFacts DEF InterfaceInv, InterfaceType
    <2>3. InterfaceType'
      BY <1>1, <1>2, <2>2 DEF InterfaceInv, InterfaceType
    <2>4. ConnectionsOk'
      <3> SUFFICES ASSUME NEW j \in TcIds, tc'[j] # None
                   PROVE  /\ tc'[j].type = IF j \in Streaming THEN "streaming" ELSE "message"
                          /\ tc'[j].direction = "receive" => nw'[tc'[j].port] # None /\ nw'[tc'[j].port].open
                          /\ tc'[j].buffer # None => tc'[j].direction = "receive" /\ tc'[j].type = "message"
                          /\ j \in Calling /\ tc'[j].buffer # None
                                => service'.at \in {"callback", "taking"} /\ service'.id = j
        BY DEF ConnectionsOk
      <3>1. CASE j = i
        BY <1>1, <1>2, <2>1, <2>2, <3>1
      <3>2. CASE j # i
        <4>1. tc[j].port \in Ports /\ tc[j] # None /\ tc'[j] = tc[j]
          BY <2>2, <3>2, ConnectionIs
        <4>2. nw[tc[j].port].open => nw'[tc[j].port].open
          BY <1>2, <4>1
        <4>3. nw[tc[j].port] # None => nw'[tc[j].port] # None
          BY <1>2, <4>1
        <4>4. service' = service
          BY <1>1
        <4>5. ConnectionsOk
          BY DEF InterfaceInv
        <4>6. /\ tc[j].type = IF j \in Streaming THEN "streaming" ELSE "message"
              /\ tc[j].direction = "receive" => nw[tc[j].port] # None /\ nw[tc[j].port].open
              /\ tc[j].buffer # None => tc[j].direction = "receive" /\ tc[j].type = "message"
              /\ j \in Calling /\ tc[j].buffer # None => service.at \in {"callback", "taking"} /\ service.id = j
          BY <4>1, <4>5 DEF ConnectionsOk
        <4> QED BY <4>1, <4>2, <4>3, <4>4, <4>6
      <3> QED BY <3>1, <3>2
    <2>5. service.at # "select" => service.id # i /\ service.id \in TcIds
      BY <1>1 DEF InterfaceInv, ServiceOk, Receives, InterfaceType, InService
    <2>6. \A j \in TcIds :
            /\ tc'[j] # None /\ tc'[j].buffer # None => tc[j] # None /\ tc[j].buffer = tc'[j].buffer
            /\ tc[j] # None /\ tc[j].buffer # None => tc'[j] # None /\ tc'[j].buffer = tc[j].buffer
      BY <1>1, <2>1, <2>2
    <2>7. BuffersOk' /\ ServiceOk'
      <3>1. UNCHANGED <<allocated, content, service>>
        BY <1>1
      <3>2. BuffersOk'
        BY <2>6, <3>1, BuffersSame
      <3>3. service.at # "select" => tc'[service.id] = tc[service.id]
        BY <2>2, <2>5
      <3>4. ServiceOk'
        BY <2>6, <3>1, <3>3, ServiceSame
      <3> QED BY <3>2, <3>4
    <2>8. CopiesOk'
      <3>1. \A t \in {"service", "reader"} : taking[t] # None => taking[t].id \in TcIds /\ taking[t].id # i
        <4>1. \A t \in {"service", "reader"} : taking[t] # None => taking[t].id \in TcIds
          BY DEF InterfaceInv, InterfaceType, Interface!Copy
        <4>2. \A t \in {"service", "reader"} : taking[t] # None => tc[taking[t].id] # None
          <5>1. \A t \in {"service", "reader"} : taking[t] # None => tc[taking[t].id] = taking[t].connection
            BY DEF InterfaceInv, CopiesOk
          <5>2. \A t \in {"service", "reader"} : taking[t] # None => taking[t].connection \in Interface!Connection
            BY DEF InterfaceInv, InterfaceType, Interface!Copy
          <5> QED BY <5>1, <5>2, InterfaceFacts
        <4> QED BY <1>1, <4>1, <4>2
      <3> QED BY <1>1, <2>2, <3>1, CopiesSame
    <2>9. PacketsOk'
      <3>1. \A j \in TcIds : ~Sends(j)' => ~Sends(j)
        BY <1>1, <2>2 DEF Sends
      <3>2. ASSUME NEW j \in TcIds \ Calling
            PROVE  /\ ~Sends(j)' => ~Sends(j)
                   /\ tc'[j] # None => tc'[j].buffer = None \/ (tc[j] # None /\ tc[j].buffer = tc'[j].buffer)
        BY <2>6, <3>1
      <3>3. pending' = pending /\ service' = service
        BY <1>1
      <3> QED BY <3>2, <3>3, PacketsSame
    <2>10. CallbacksOk' /\ callbacks' \in Seq(BOOLEAN)
      BY <1>1, <2>2, InterfaceFacts DEF InterfaceInv, CallbacksOk
    <2> QED BY <2>3, <2>4, <2>7, <2>8, <2>9, <2>10 DEF InterfaceInv
  <1> QED BY <1>1, <1>3, <1>4

(* A connection goes while nothing of it is on its way.                           *)
LEMMA ConnectionDestroyed ==
  ASSUME Assumptions, InterfaceInv, NEW i \in TcIds, Interface!NII_destroyTransfer(i)
  PROVE  InterfaceInv'
  <1>1. /\ tc[i] # None /\ ~Interface!Served(i) /\ tc' = [tc EXCEPT ![i] = None]
        /\ nw' = IF nw[tc[i].port] # None /\ Interface!LastOf(i)
                 THEN [nw EXCEPT ![tc[i].port] = Interface!Closed] ELSE nw
        /\ pending' = IF Interface!LastOf(i) THEN [pending EXCEPT ![tc[i].port] = <<>>] ELSE pending
        /\ UNCHANGED <<allocated, content, service, taking, reader, callbacks>>
    BY DEF Interface!NII_destroyTransfer, Interface!getTc, Interface!getNw, Interface!removeTc, Interface!Threads
  <1>2. /\ service.at # "select" => service.id # i
        /\ \A t \in {"service", "reader"} : taking[t] # None => taking[t].id # i
        /\ i \notin Calling => tc[i].buffer = None /\ \A p \in Ports : \A k \in DOMAIN pending[p] : pending[p][k] # i
    <2>1. DOMAIN taking = {"service", "reader"}
      BY DEF InterfaceInv, InterfaceType
    <2> QED BY <1>1, <2>1 DEF Interface!Served, Interface!Waiting, Interface!getTc
  <1>3. tc[i].buffer = None
    BY <1>1, <1>2 DEF InterfaceInv, ConnectionsOk
  <1>4. /\ tc \in [TcIds -> Interface!Connection \cup {None}] /\ nw \in [Ports -> Interface!NetworkRecord \cup {None}]
        /\ pending \in [Ports -> Seq(TcIds \ Streaming)] /\ Interface!Closed \in Interface!NetworkRecord
    BY DEF InterfaceInv, InterfaceType, Interface!Closed, Interface!NetworkRecord
  <1>5. /\ tc' \in [TcIds -> Interface!Connection \cup {None}] /\ tc'[i] = None
        /\ \A j \in TcIds \ {i} : tc'[j] = tc[j]
    BY <1>1, <1>4
  <1>6. nw' \in [Ports -> Interface!NetworkRecord \cup {None}]
    BY <1>1, <1>4
  <1>7. \A p \in Ports : p # tc[i].port \/ ~Interface!LastOf(i) => nw'[p] = nw[p]
    BY <1>1, <1>4
  <1>8. /\ pending' \in [Ports -> Seq(TcIds \ Streaming)]
        /\ \A p \in Ports : pending'[p] = pending[p] \/ pending'[p] = <<>>
    <2>1. <<>> \in Seq(TcIds \ Streaming)
      OBVIOUS
    <2> QED BY <1>1, <1>4, <2>1
  <1>9. InterfaceType'
    BY <1>1, <1>5, <1>6, <1>8 DEF InterfaceInv, InterfaceType
  <1>10. ConnectionsOk'
    <2> SUFFICES ASSUME NEW j \in TcIds, tc'[j] # None
                 PROVE  /\ tc'[j].type = IF j \in Streaming THEN "streaming" ELSE "message"
                        /\ tc'[j].direction = "receive" => nw'[tc'[j].port] # None /\ nw'[tc'[j].port].open
                        /\ tc'[j].buffer # None => tc'[j].direction = "receive" /\ tc'[j].type = "message"
                        /\ j \in Calling /\ tc'[j].buffer # None
                              => service'.at \in {"callback", "taking"} /\ service'.id = j
      BY DEF ConnectionsOk
    <2>1. j # i /\ tc'[j] = tc[j] /\ tc[j] # None
      BY <1>5
    <2>2. tc[j].port \in Ports
      BY <2>1, ConnectionIs
    <2>3. nw'[tc[j].port] = nw[tc[j].port]
      <3>1. tc[j].port = tc[i].port => ~Interface!LastOf(i)
        BY <2>1 DEF Interface!LastOf, Interface!TcsOf, Interface!getTc
      <3> QED BY <1>7, <2>2, <3>1
    <2>4. service' = service
      BY <1>1
    <2>5. ConnectionsOk
      BY DEF InterfaceInv
    <2>6. /\ tc[j].type = IF j \in Streaming THEN "streaming" ELSE "message"
          /\ tc[j].direction = "receive" => nw[tc[j].port] # None /\ nw[tc[j].port].open
          /\ tc[j].buffer # None => tc[j].direction = "receive" /\ tc[j].type = "message"
          /\ j \in Calling /\ tc[j].buffer # None => service.at \in {"callback", "taking"} /\ service.id = j
      BY <2>1, <2>5 DEF ConnectionsOk
    <2> QED BY <2>1, <2>3, <2>4, <2>6
  <1>11. \A j \in TcIds :
            /\ tc'[j] # None /\ tc'[j].buffer # None => tc[j] # None /\ tc[j].buffer = tc'[j].buffer
            /\ tc[j] # None /\ tc[j].buffer # None => tc'[j] # None /\ tc'[j].buffer = tc[j].buffer
    BY <1>3, <1>5
  <1>12. BuffersOk'
    BY <1>1, <1>11, BuffersSame
  <1>13. ServiceOk'
    <2>1. service.at # "select" => service.id \in TcIds /\ tc'[service.id] = tc[service.id]
      BY <1>2, <1>5 DEF InterfaceInv, InterfaceType, InService
    <2> QED BY <1>1, <1>11, <2>1, ServiceSame
  <1>14. CopiesOk'
    <2>1. \A t \in {"service", "reader"} : taking[t] # None => taking[t].id \in TcIds
      BY DEF InterfaceInv, InterfaceType, Interface!Copy
    <2> QED BY <1>1, <1>2, <1>5, <2>1, CopiesSame
  <1>15. PacketsOk'
    <2>1. \A j \in TcIds : j # i => (~Sends(j)' => ~Sends(j))
      BY <1>5 DEF Sends
    <2>2. \A j \in TcIds \ Calling :
            \/ \A p \in Ports : \A k \in DOMAIN pending[p] : pending[p][k] # j
            \/ /\ ~Sends(j)' => ~Sends(j)
               /\ tc'[j] # None => tc'[j].buffer = None \/ (tc[j] # None /\ tc[j].buffer = tc'[j].buffer)
      <3> SUFFICES ASSUME NEW j \in TcIds \ Calling
                   PROVE  \/ \A p \in Ports : \A k \in DOMAIN pending[p] : pending[p][k] # j
                          \/ /\ ~Sends(j)' => ~Sends(j)
                             /\ tc'[j] # None => tc'[j].buffer = None \/ (tc[j] # None /\ tc[j].buffer = tc'[j].buffer)
        OBVIOUS
      <3>1. CASE j = i
        BY <1>2, <3>1
      <3>2. CASE j # i
        BY <1>11, <2>1, <3>2
      <3> QED BY <3>1, <3>2
    <2>3. service' = service
      BY <1>1
    <2> QED BY <1>8, <2>2, <2>3, PacketsSame
  <1>16. CallbacksOk' /\ callbacks' \in Seq(BOOLEAN)
    BY <1>1, <1>5, EnabledSame
  <1> QED BY <1>9, <1>10, <1>12, <1>13, <1>14, <1>15, <1>16 DEF InterfaceInv

(* A packet comes to a port.                                                      *)
LEMMA PacketAdded ==
  ASSUME Assumptions, InterfaceInv, NEW p \in Ports, NEW i \in TcIds \ Streaming,
         pending' = [pending EXCEPT ![p] = Append(pending[p], i)],
         UNCHANGED <<nw, tc, allocated, content, service, taking, reader, callbacks>>,
         i \notin Calling =>
            /\ tc[i] # None => tc[i].buffer = None
            /\ ~(service.at = "store" /\ service.id = i)
            /\ Sends(i) \/ \A q \in Ports : \A k \in DOMAIN pending[q] : pending[q][k] # i
  PROVE  InterfaceInv'
  <1>1. pending \in [Ports -> Seq(TcIds \ Streaming)]
    BY DEF InterfaceInv, InterfaceType
  <1>2. PICK s \in Seq(TcIds \ Streaming) : s = pending[p]
    BY <1>1
  <1>3. /\ Append(s, i) \in Seq(TcIds \ Streaming) /\ Len(Append(s, i)) = Len(s) + 1
        /\ \A k \in 1 .. Len(s) : Append(s, i)[k] = s[k]
        /\ Append(s, i)[Len(s) + 1] = i
    BY AppendProperties
  <1>4. /\ DOMAIN s = 1 .. Len(s) /\ DOMAIN Append(s, i) = 1 .. Len(s) + 1 /\ Len(s) \in Nat
    BY <1>3
  <1>5. pending' \in [Ports -> Seq(TcIds \ Streaming)] /\ pending'[p] = Append(s, i)
        /\ \A q \in Ports \ {p} : pending'[q] = pending[q]
    BY <1>1, <1>2, <1>3
  <1>6. \A q \in Ports : \A k \in DOMAIN pending'[q] :
           \/ k \in DOMAIN pending[q] /\ pending'[q][k] = pending[q][k]
           \/ q = p /\ k = Len(s) + 1 /\ pending'[q][k] = i
    <2>1. \A k \in DOMAIN Append(s, i) :
             \/ k \in DOMAIN s /\ Append(s, i)[k] = s[k]
             \/ k = Len(s) + 1 /\ Append(s, i)[k] = i
      BY <1>3, <1>4
    <2> QED BY <1>2, <1>5, <2>1
  <1>7. InterfaceType' /\ ConnectionsOk'
    BY <1>5 DEF InterfaceInv, InterfaceType, ConnectionsOk
  <1>8. BuffersOk' /\ ServiceOk' /\ CopiesOk'
    BY BuffersKept, ServiceKept, CopiesKept
  <1>9. CallbacksOk' /\ callbacks' \in Seq(BOOLEAN)
    BY EnabledKept
  <1>10. PacketsOk'
    <2> SUFFICES ASSUME NEW j \in TcIds \ Calling
                 PROVE  /\ ~Sends(j) => \A q, r \in Ports : \A k \in DOMAIN pending'[q], l \in DOMAIN pending'[r] :
                              pending'[q][k] = j /\ pending'[r][l] = j => q = r /\ k = l
                        /\ \A q \in Ports : \A k \in DOMAIN pending'[q] : pending'[q][k] = j =>
                              /\ tc[j] # None => tc[j].buffer = None
                              /\ ~(service.at = "store" /\ service.id = j)
      BY DEF PacketsOk, Sends
    <2>1. CASE j = i /\ Sends(i)
      BY <2>1
    <2>2. CASE j = i /\ ~Sends(i)
      <3>1. \A q \in Ports : \A k \in DOMAIN pending'[q] : pending'[q][k] = i => q = p /\ k = Len(s) + 1
        BY <1>6, <2>2
      <3> QED BY <2>2, <3>1
    <2>3. CASE j # i
      <3>1. \A q \in Ports : \A k \in DOMAIN pending'[q] : pending'[q][k] = j
                => k \in DOMAIN pending[q] /\ pending[q][k] = j
        BY <1>6, <2>3
      <3> QED BY <3>1 DEF InterfaceInv, PacketsOk
    <2> QED BY <2>1, <2>2, <2>3
  <1> QED BY <1>7, <1>8, <1>9, <1>10 DEF InterfaceInv

LEMMA PacketSent ==
  ASSUME Assumptions, InterfaceInv, NEW i \in TcIds, Interface!NII_sendTransfer(i)
  PROVE  InterfaceInv'
  <1>1. PICK p \in Ports :
           /\ tc[i] # None /\ tc[i].type = "message" /\ tc[i].direction = "send"
           /\ pending' = [pending EXCEPT ![p] = Append(pending[p], i)]
           /\ UNCHANGED <<nw, tc, allocated, content, service, taking, reader, callbacks>>
    BY DEF Interface!NII_sendTransfer, Interface!getTc, Interface!Threads
  <1>2. i \notin Streaming /\ tc[i].buffer = None
    <2>1. ConnectionsOk
      BY DEF InterfaceInv
    <2> QED BY <1>1, <2>1 DEF ConnectionsOk
  <1>3. ~(service.at = "store" /\ service.id = i) /\ Sends(i)
    BY <1>1 DEF InterfaceInv, ServiceOk, Receives, Sends
  <1> QED BY <1>1, <1>2, <1>3, PacketAdded

LEMMA PacketArrives ==
  ASSUME Assumptions, InterfaceInv, NEW p \in Ports, Interface!Arrives(p)
  PROVE  InterfaceInv'
  <1>1. PICK i \in TcIds \ Streaming :
           /\ i \notin Calling => ~Interface!Served(i)
           /\ pending' = [pending EXCEPT ![p] = Append(pending[p], i)]
           /\ UNCHANGED <<nw, tc, allocated, content, service, taking, reader, callbacks>>
    BY DEF Interface!Arrives, Interface!Threads
  <1>2. i \notin Calling =>
            /\ tc[i] # None => tc[i].buffer = None
            /\ ~(service.at = "store" /\ service.id = i)
            /\ \A q \in Ports : \A k \in DOMAIN pending[q] : pending[q][k] # i
    BY <1>1 DEF Interface!Served, Interface!Waiting, Interface!getTc
  <1> QED BY <1>1, <1>2, PacketAdded

(* The reader moves without a copy.                                               *)
LEMMA ReaderMoves ==
  ASSUME Assumptions, InterfaceInv, reader.at # "taking",
         reader' \in [at : {"idle"}] \cup [at : {"waiting", "woken"}, id : TcIds \ Calling],
         UNCHANGED <<nw, tc, allocated, content, pending, service, taking, callbacks>>
  PROVE  InterfaceInv'
  <1>1. InterfaceType'
    <2>1. /\ reader'.at \in {"idle", "taking", "waiting", "woken"}
          /\ reader'.at \in {"waiting", "woken"} => reader' \in [at : {"waiting", "woken"}, id : TcIds \ Calling]
      OBVIOUS
    <2> QED BY <2>1 DEF InterfaceInv, InterfaceType
  <1>2. ConnectionsOk' /\ BuffersOk' /\ ServiceOk' /\ PacketsOk'
    <2>1. ConnectionsOk'
      BY DEF InterfaceInv, ConnectionsOk
    <2> QED BY <2>1, BuffersKept, ServiceKept, PacketsKept
  <1>3. CopiesOk'
    BY DEF InterfaceInv, CopiesOk
  <1>4. CallbacksOk' /\ callbacks' \in Seq(BOOLEAN)
    BY EnabledKept
  <1> QED BY <1>1, <1>2, <1>3, <1>4 DEF InterfaceInv

(* A connection is copied to be read.                                             *)
LEMMA CopyIs ==
  ASSUME Assumptions, InterfaceInv, NEW i \in TcIds, Interface!Readable(i)
  PROVE  \E c \in Interface!Copy :
            /\ c = [id |-> i, connection |-> tc[i], network |-> nw[tc[i].port], data |-> content[tc[i].buffer]]
            /\ c.id = i /\ c.connection = tc[i] /\ c.network = nw[tc[i].port] /\ c # None
            /\ tc[i] # None /\ tc[i].buffer # None /\ tc[i].direction = "receive" /\ nw[tc[i].port].open
  <1>1. /\ tc[i] # None /\ tc[i].buffer # None /\ tc[i].direction = "receive" /\ nw[tc[i].port] # None
    BY DEF Interface!Readable, Interface!getTc, Interface!getNw
  <1>2. tc[i] \in Interface!Connection /\ tc[i].port \in Ports /\ tc[i].buffer \in Buffers
    BY <1>1, ConnectionIs
  <1>3. nw[tc[i].port] \in Interface!NetworkRecord /\ content[tc[i].buffer] \in TcIds \cup {None}
    BY <1>1, <1>2 DEF InterfaceInv, InterfaceType
  <1>4. ConnectionsOk
    BY DEF InterfaceInv
  <1>5. nw[tc[i].port].open
    BY <1>1, <1>4 DEF ConnectionsOk
  <1> DEFINE c == [id |-> i, connection |-> tc[i], network |-> nw[tc[i].port], data |-> content[tc[i].buffer]]
  <1>6. c \in Interface!Copy
    BY <1>2, <1>3 DEF Interface!Copy
  <1>7. c.id = i /\ c.connection = tc[i] /\ c.network = nw[tc[i].port]
    OBVIOUS
  <1>8. c # None
    BY InterfaceFacts, <1>6
  <1> QED BY <1>1, <1>5, <1>6, <1>7, <1>8

LEMMA ReaderCopies ==
  ASSUME Assumptions, InterfaceInv, NEW i \in TcIds \ Calling, Interface!Readable(i),
         Interface!receiveDataCopies("reader", i), reader' = [at |-> "taking"],
         UNCHANGED <<nw, tc, allocated, content, pending, service, callbacks>>
  PROVE  InterfaceInv'
  <1>1. PICK c \in Interface!Copy :
            /\ taking' = [taking EXCEPT !["reader"] = c]
            /\ c.id = i /\ c.connection = tc[i] /\ c.network = nw[tc[i].port] /\ c # None
            /\ tc[i] # None /\ tc[i].buffer # None /\ tc[i].direction = "receive" /\ nw[tc[i].port].open
    BY CopyIs DEF Interface!receiveDataCopies
  <1>2. /\ taking' \in [{"service", "reader"} -> Interface!Copy \cup {None}]
        /\ taking'["reader"] = c /\ taking'["service"] = taking["service"] /\ reader'.at = "taking"
    BY <1>1 DEF InterfaceInv, InterfaceType
  <1>3. InterfaceType'
    BY <1>2 DEF InterfaceInv, InterfaceType
  <1>4. ConnectionsOk' /\ BuffersOk' /\ ServiceOk' /\ PacketsOk'
    <2>1. ConnectionsOk'
      BY DEF InterfaceInv, ConnectionsOk
    <2> QED BY <2>1, BuffersKept, ServiceKept, PacketsKept
  <1>5. CopiesOk'
    <2>1. CopiesOk
      BY DEF InterfaceInv
    <2> QED BY <1>1, <1>2, <2>1 DEF CopiesOk
  <1>6. CallbacksOk' /\ callbacks' \in Seq(BOOLEAN)
    BY EnabledKept
  <1> QED BY <1>3, <1>4, <1>5, <1>6 DEF InterfaceInv

LEMMA ReaderSteps ==
  ASSUME Assumptions, InterfaceInv, Interface!ReadBegins \/ Interface!ReadWoken \/ Interface!ReadTimesOut
  PROVE  InterfaceInv'
  <1>1. UNCHANGED <<nw, tc, allocated, content, pending, service, callbacks>>
    BY DEF Interface!ReadBegins, Interface!ReadWoken, Interface!ReadTimesOut, Interface!tables
  <1>2. CASE Interface!ReadBegins
    <2>1. PICK i \in TcIds \ Calling :
            \/ /\ Interface!Readable(i) /\ Interface!receiveDataCopies("reader", i)
               /\ reader' = [at |-> "taking"]
            \/ reader' = [at |-> "waiting", id |-> i] /\ UNCHANGED taking
      BY <1>2 DEF Interface!ReadBegins
    <2>2. reader.at # "taking"
      BY <1>2 DEF Interface!ReadBegins
    <2>3. CASE reader' = [at |-> "waiting", id |-> i] /\ UNCHANGED taking
      <3>1. reader' \in [at : {"waiting", "woken"}, id : TcIds \ Calling]
        BY <2>3
      <3> QED BY <1>1, <2>2, <2>3, <3>1, ReaderMoves
    <2> QED BY <1>1, <2>1, <2>3, ReaderCopies
  <1>3. CASE Interface!ReadWoken
    <2>1. reader.at = "woken" /\ reader.id \in TcIds \ Calling
      BY <1>3 DEF Interface!ReadWoken, InterfaceInv, InterfaceType
    <2>2. CASE reader' = [at |-> "idle"] /\ UNCHANGED taking
      <3>1. reader' \in [at : {"idle"}]
        BY <2>2
      <3> QED BY <1>1, <2>1, <2>2, <3>1, ReaderMoves
    <2>3. CASE /\ Interface!Readable(reader.id) /\ Interface!receiveDataCopies("reader", reader.id)
               /\ reader' = [at |-> "taking"]
      BY <1>1, <2>1, <2>3, ReaderCopies
    <2> QED BY <1>3, <2>2, <2>3 DEF Interface!ReadWoken
  <1>4. CASE Interface!ReadTimesOut
    <2>1. reader.at # "taking" /\ UNCHANGED taking /\ reader' \in [at : {"idle"}]
      BY <1>4 DEF Interface!ReadTimesOut
    <2> QED BY <1>1, <2>1, ReaderMoves
  <1> QED BY <1>2, <1>3, <1>4

(* The service thread calls back, and a connection that reads there has a packet. *)
LEMMA CallbackBegins ==
  ASSUME Assumptions, InterfaceInv, Interface!ServiceThread
  PROVE  InterfaceInv'
  <1>1. /\ service.at = "callback" /\ service \in [at : InService, id : TcIds]
        /\ UNCHANGED <<nw, tc, allocated, content, pending, reader, callbacks>>
    BY DEF Interface!ServiceThread, Interface!tables, InterfaceInv, InterfaceType, InService
  <1>2. ConnectionsOk /\ ServiceOk /\ CopiesOk /\ BuffersOk /\ PacketsOk
    BY DEF InterfaceInv
  <1>3. service.id \in TcIds /\ Receives(service.id) /\ tc[service.id].type = "message"
    BY <1>1, <1>2 DEF ServiceOk
  <1>4. taking["service"] = None
    BY <1>1, <1>2 DEF CopiesOk
  <1>5. /\ service.at # "store" /\ service'.at # "store" /\ service'.at \in {"taking", "broadcast"}
        /\ service'.id = service.id /\ service' \in [at : InService, id : TcIds]
        /\ \/ /\ service.id \in Calling /\ Interface!Readable(service.id) /\ service'.at = "taking"
              /\ Interface!receiveDataCopies("service", service.id)
           \/ /\ ~(service.id \in Calling /\ Interface!Handled /\ Interface!Readable(service.id))
              /\ service'.at = "broadcast" /\ UNCHANGED taking
    BY <1>1 DEF Interface!ServiceThread, InService
  <1>6. service.id \in Calling => /\ Interface!Handled /\ Interface!Readable(service.id)
    <2>1. service.id \in Calling => tc[service.id].buffer # None
      BY <1>1, <1>2 DEF ServiceOk
    <2>2. nw[tc[service.id].port] # None
      BY <1>2, <1>3 DEF ConnectionsOk, Receives
    <2>3. service.id \in Calling => callbacks # <<>> /\ Head(callbacks)
      BY <1>3 DEF InterfaceInv, CallbacksOk, Receives
    <2> QED BY <1>3, <2>1, <2>2, <2>3
        DEF Interface!Handled, Interface!Readable, Interface!getTc, Interface!getNw, Receives
  <1>7. ConnectionsOk'
    <2>1. \A i \in TcIds : i \in Calling /\ tc[i] # None /\ tc[i].buffer # None => service'.at = "taking" /\ service'.id = i
      BY <1>2, <1>5, <1>6 DEF ConnectionsOk
    <2> QED BY <1>1, <1>2, <2>1 DEF ConnectionsOk
  <1>8. BuffersOk'
    BY <1>1, <1>2, <1>5 DEF BuffersOk
  <1>9. ServiceOk'
    BY <1>1, <1>3, <1>5 DEF ServiceOk, Receives
  <1>10. PacketsOk'
    BY <1>1, <1>2, <1>5 DEF PacketsOk, Sends
  <1>11. CallbacksOk' /\ callbacks' \in Seq(BOOLEAN)
    BY <1>1, EnabledKept
  <1>12. CASE service.id \in Calling
    <2>1. PICK c \in Interface!Copy :
            /\ taking' = [taking EXCEPT !["service"] = c]
            /\ c.id = service.id /\ c.connection = tc[service.id] /\ c.network = nw[tc[service.id].port] /\ c # None
            /\ tc[service.id] # None /\ tc[service.id].buffer # None /\ tc[service.id].direction = "receive"
            /\ nw[tc[service.id].port].open
      BY <1>3, <1>5, <1>6, <1>12, CopyIs DEF Interface!receiveDataCopies
    <2>2. /\ taking' \in [{"service", "reader"} -> Interface!Copy \cup {None}]
          /\ taking'["service"] = c /\ taking'["reader"] = taking["reader"] /\ service'.at = "taking"
      BY <1>5, <1>6, <1>12, <2>1 DEF InterfaceInv, InterfaceType
    <2>3. InterfaceType'
      BY <1>1, <1>5, <2>2 DEF InterfaceInv, InterfaceType, InService
    <2>4. CopiesOk'
      BY <1>1, <1>2, <1>5, <1>12, <2>1, <2>2 DEF CopiesOk
    <2> QED BY <1>7, <1>8, <1>9, <1>10, <1>11, <2>3, <2>4 DEF InterfaceInv
  <1>13. CASE service.id \notin Calling
    <2>1. UNCHANGED taking
      BY <1>5, <1>13
    <2>2. InterfaceType'
      BY <1>1, <1>5, <2>1 DEF InterfaceInv, InterfaceType, InService
    <2>3. CopiesOk'
      BY <1>1, <1>2, <1>4, <2>1 DEF CopiesOk
    <2> QED BY <1>7, <1>8, <1>9, <1>10, <1>11, <2>2, <2>3 DEF InterfaceInv
  <1> QED BY <1>12, <1>13

(* The reader is told.                                                            *)
LEMMA ReaderTold ==
  ASSUME Assumptions, InterfaceInv, Interface!Broadcast
  PROVE  InterfaceInv'
  <1>1. /\ service.at = "broadcast" /\ service'.at = "select"
        /\ UNCHANGED <<nw, tc, allocated, content, pending, taking, callbacks>>
    BY DEF Interface!Broadcast, Interface!tables
  <1>2. ConnectionsOk /\ ServiceOk /\ CopiesOk /\ BuffersOk /\ PacketsOk
    BY DEF InterfaceInv
  <1>3. /\ reader'.at \in {"idle", "taking", "waiting", "woken"}
        /\ reader'.at \in {"waiting", "woken"} => reader' \in [at : {"waiting", "woken"}, id : TcIds \ Calling]
        /\ reader.at = "taking" => reader'.at = "taking"
    <2>1. /\ reader.at \in {"idle", "taking", "waiting", "woken"}
          /\ reader.at \in {"waiting", "woken"} => reader \in [at : {"waiting", "woken"}, id : TcIds \ Calling]
      BY DEF InterfaceInv, InterfaceType
    <2>2. CASE reader.at = "waiting" /\ reader.id = service.id
      <3>1. reader' = [reader EXCEPT !.at = "woken"]
        BY <2>2 DEF Interface!Broadcast
      <3>2. reader' \in [at : {"waiting", "woken"}, id : TcIds \ Calling] /\ reader'.at = "woken"
        BY <2>1, <2>2, <3>1
      <3> QED BY <2>2, <3>2
    <2>3. CASE ~(reader.at = "waiting" /\ reader.id = service.id)
      <3>1. reader' = reader
        BY <2>3 DEF Interface!Broadcast
      <3> QED BY <2>1, <3>1
    <2> QED BY <2>2, <2>3
  <1>4. InterfaceType'
    BY <1>1, <1>3 DEF InterfaceInv, InterfaceType, InService
  <1>5. ConnectionsOk' /\ BuffersOk' /\ ServiceOk'
    <2>1. ConnectionsOk'
      BY <1>1, <1>2 DEF ConnectionsOk
    <2>2. BuffersOk'
      BY <1>1, <1>2 DEF BuffersOk
    <2>3. ServiceOk'
      BY <1>1 DEF ServiceOk
    <2> QED BY <2>1, <2>2, <2>3
  <1>6. CopiesOk'
    BY <1>1, <1>2, <1>3 DEF CopiesOk
  <1>7. PacketsOk'
    BY <1>1, <1>2 DEF PacketsOk, Sends
  <1>8. CallbacksOk' /\ callbacks' \in Seq(BOOLEAN)
    BY <1>1, EnabledKept
  <1> QED BY <1>4, <1>5, <1>6, <1>7, <1>8 DEF InterfaceInv

(* The buffer of a copy goes back and the copies are stored.                      *)
LEMMA CopyStored ==
  ASSUME Assumptions, InterfaceInv, NEW t \in {"service", "reader"}, Interface!receiveDataStores(t),
         UNCHANGED <<content, pending, callbacks>>,
         t = "reader" => reader.at = "taking" /\ reader' = [at |-> "idle"] /\ service' = service,
         t = "service" => /\ service.at = "taking" /\ service' = [service EXCEPT !.at = "broadcast"]
                          /\ reader' = reader
  PROVE  InterfaceInv'
  <1>0. ConnectionsOk /\ ServiceOk /\ CopiesOk /\ BuffersOk /\ PacketsOk
    BY DEF InterfaceInv
  <1>1. PICK i \in TcIds, c \in Interface!Connection, n \in Interface!NetworkRecord :
           taking[t].id = i /\ taking[t].connection = c /\ taking[t].network = n /\ taking[t] # None
    BY DEF Interface!receiveDataStores, InterfaceInv, InterfaceType, Interface!Copy
  <1>2. tc[i] = c /\ c.buffer # None /\ c.direction = "receive" /\ n.open /\ c # None /\ n # None
    BY <1>0, <1>1, InterfaceFacts DEF CopiesOk
  <1>3. PICK b \in Buffers : b = c.buffer /\ b # None
    BY <1>2 DEF Interface!Connection
  <1>4. PICK e \in Interface!Connection :
           /\ e = [c EXCEPT !.buffer = None] /\ e.port = c.port /\ e.direction = c.direction
           /\ e.type = c.type /\ e.buffer = None /\ e # None
    <2>1. [c EXCEPT !.buffer = None] \in Interface!Connection
      BY DEF Interface!Connection
    <2> DEFINE e == [c EXCEPT !.buffer = None]
    <2>2. e.port = c.port /\ e.direction = c.direction /\ e.type = c.type /\ e.buffer = None
      BY DEF Interface!Connection
    <2> QED BY <2>1, <2>2, InterfaceFacts
  <1>5. /\ allocated' = allocated \ {b} /\ tc' = [tc EXCEPT ![i] = e] /\ taking' = [taking EXCEPT ![t] = None]
        /\ nw' = nw \/ nw' = [nw EXCEPT ![c.port] = n]
    BY <1>1, <1>2, <1>3, <1>4 DEF Interface!receiveDataStores, Interface!releaseBuffer, Interface!Emptied,
       Interface!getTc, Interface!getNw
  <1>6. /\ tc \in [TcIds -> Interface!Connection \cup {None}] /\ nw \in [Ports -> Interface!NetworkRecord \cup {None}]
        /\ taking \in [{"service", "reader"} -> Interface!Copy \cup {None}] /\ allocated \subseteq Buffers
    BY DEF InterfaceInv, InterfaceType
  <1>7. /\ tc' \in [TcIds -> Interface!Connection \cup {None}] /\ tc'[i] = e /\ \A j \in TcIds \ {i} : tc'[j] = tc[j]
    BY <1>5, <1>6
  <1>8. nw' \in [Ports -> Interface!NetworkRecord \cup {None}]
        /\ \A p \in Ports : nw[p] # None /\ nw[p].open => nw'[p] # None /\ nw'[p].open
    BY <1>2, <1>5, <1>6
  <1>9. /\ taking' \in [{"service", "reader"} -> Interface!Copy \cup {None}] /\ taking'[t] = None
        /\ \A u \in {"service", "reader"} \ {t} : taking'[u] = taking[u]
    BY <1>5, <1>6
  <1>10. /\ t = "service" => service.at = "taking" /\ service.id = i /\ i \in Calling
         /\ t = "reader" => i \notin Calling
    BY <1>0, <1>1 DEF CopiesOk
  <1>11. /\ service'.at # "select" <=> service.at # "select"
         /\ service.at # "select" => service'.id = service.id /\ service.id \in TcIds
         /\ service'.at = "store" => service' = service
         /\ service'.at = "store" <=> service.at = "store"
         /\ t = "service" => service'.at = "broadcast" /\ service' \in [at : InService, id : TcIds]
    <2>1. service.at # "select" => service.id \in TcIds
      BY DEF InterfaceInv, InterfaceType, InService
    <2>2. CASE t = "reader"
      BY <2>1, <2>2
    <2>3. CASE t = "service"
      <3>1. service.at = "taking" /\ service \in [at : InService, id : TcIds]
        BY <2>3 DEF InterfaceInv, InterfaceType, InService
      <3>2. service' = [service EXCEPT !.at = "broadcast"]
        BY <2>3
      <3>3. service'.at = "broadcast" /\ service'.id = service.id /\ service' \in [at : InService, id : TcIds]
        BY <3>1, <3>2 DEF InService
      <3> QED BY <2>1, <2>3, <3>1, <3>3
    <2> QED BY <2>2, <2>3
  <1>12. InterfaceType'
    <2>1. allocated' \subseteq Buffers
      BY <1>5, <1>6
    <2>2. content' = content /\ pending' = pending
      OBVIOUS
    <2>3. /\ service'.at \in {"select", "store"} \cup InService
          /\ service'.at = "store" => service'.id \in TcIds /\ service'.copy \in Interface!Connection
          /\ service'.at \in InService => service' \in [at : InService, id : TcIds]
      BY <1>11 DEF InterfaceInv, InterfaceType, InService
    <2>4. /\ reader'.at \in {"idle", "taking", "waiting", "woken"}
          /\ reader'.at \in {"waiting", "woken"} => reader' \in [at : {"waiting", "woken"}, id : TcIds \ Calling]
      BY DEF InterfaceInv, InterfaceType
    <2> QED BY <1>7, <1>8, <1>9, <2>1, <2>2, <2>3, <2>4 DEF InterfaceInv, InterfaceType
  <1>13. ConnectionsOk'
    <2> SUFFICES ASSUME NEW j \in TcIds, tc'[j] # None
                 PROVE  /\ tc'[j].type = IF j \in Streaming THEN "streaming" ELSE "message"
                        /\ tc'[j].direction = "receive" => nw'[tc'[j].port] # None /\ nw'[tc'[j].port].open
                        /\ tc'[j].buffer # None => tc'[j].direction = "receive" /\ tc'[j].type = "message"
                        /\ j \in Calling /\ tc'[j].buffer # None
                              => service'.at \in {"callback", "taking"} /\ service'.id = j
      BY DEF ConnectionsOk
    <2>1. /\ tc[j] # None /\ tc'[j].port = tc[j].port /\ tc'[j].direction = tc[j].direction /\ tc'[j].type = tc[j].type
          /\ tc'[j].buffer # None => j # i /\ tc'[j].buffer = tc[j].buffer
      <3>1. CASE j = i
        BY <1>2, <1>4, <1>7, <3>1
      <3>2. CASE j # i
        BY <1>7, <3>2
      <3> QED BY <3>1, <3>2
    <2>2. /\ tc[j].type = IF j \in Streaming THEN "streaming" ELSE "message"
          /\ tc[j].direction = "receive" => nw[tc[j].port] # None /\ nw[tc[j].port].open
          /\ tc[j].buffer # None => tc[j].direction = "receive" /\ tc[j].type = "message"
          /\ j \in Calling /\ tc[j].buffer # None => service.at \in {"callback", "taking"} /\ service.id = j
      BY <1>0, <2>1 DEF ConnectionsOk
    <2>3. tc[j].port \in Ports
      BY <2>1, ConnectionIs
    <2>4. tc'[j].direction = "receive" => nw'[tc'[j].port] # None /\ nw'[tc'[j].port].open
      BY <1>8, <2>1, <2>2, <2>3
    <2>5. j \in Calling /\ tc'[j].buffer # None => service'.at \in {"callback", "taking"} /\ service'.id = j
      BY <1>10, <2>1, <2>2
    <2> QED BY <2>1, <2>2, <2>4, <2>5
  <1>14. \A j \in TcIds : /\ tc'[j] # None <=> tc[j] # None
                          /\ tc'[j] # None /\ tc'[j].buffer # None
                                => j # i /\ tc'[j] = tc[j]
    <2> SUFFICES ASSUME NEW j \in TcIds
                 PROVE  /\ tc'[j] # None <=> tc[j] # None
                        /\ tc'[j] # None /\ tc'[j].buffer # None => j # i /\ tc'[j] = tc[j]
      OBVIOUS
    <2>1. CASE j = i
      BY <1>2, <1>4, <1>7, <2>1
    <2>2. CASE j # i
      BY <1>7, <2>2
    <2> QED BY <2>1, <2>2
  <1>15. BuffersOk'
    <2>1. ASSUME NEW j \in TcIds, tc'[j] # None, tc'[j].buffer # None
          PROVE  /\ tc'[j].buffer \in allocated' /\ content'[tc'[j].buffer] = j
                 /\ \A k \in TcIds : tc'[k] # None /\ tc'[k].buffer = tc'[j].buffer => k = j
      <3>1. j # i /\ tc'[j] = tc[j] /\ tc[j] # None /\ tc[j].buffer # None
        BY <1>14, <2>1
      <3>2. /\ tc[j].buffer \in allocated /\ content[tc[j].buffer] = j
            /\ \A k \in TcIds : tc[k] # None /\ tc[k].buffer = tc[j].buffer => k = j
        BY <1>0, <3>1 DEF BuffersOk
      <3>3. tc[j].buffer # b
        BY <1>2, <1>3, <3>1, <3>2
      <3>4. \A k \in TcIds : tc'[k] # None /\ tc'[k].buffer = tc'[j].buffer => k = j
        BY <1>14, <3>1, <3>2
      <3> QED BY <1>5, <3>1, <3>2, <3>3, <3>4
    <2>2. ASSUME NEW x \in allocated'
          PROVE  \/ \E j \in TcIds : tc'[j] # None /\ tc'[j].buffer = x
                 \/ service'.at = "store" /\ service'.copy.buffer = x
      <3>1. x \in allocated /\ x # b
        BY <1>5
      <3>2. CASE \E j \in TcIds : tc[j] # None /\ tc[j].buffer = x
        <4>1. PICK j \in TcIds : tc[j] # None /\ tc[j].buffer = x
          BY <3>2
        <4>2. j # i
          BY <1>2, <1>3, <3>1, <4>1
        <4> QED BY <1>7, <4>1, <4>2
      <3>3. CASE service.at = "store" /\ service.copy.buffer = x
        BY <1>11, <3>3
      <3> QED BY <1>0, <3>1, <3>2, <3>3 DEF BuffersOk
    <2> QED BY <2>1, <2>2 DEF BuffersOk
  <1>16. ServiceOk'
    <2>1. service.at # "select" => Receives(service.id)' /\ tc'[service.id].type = "message"
      <3> SUFFICES ASSUME service.at # "select" PROVE Receives(service.id)' /\ tc'[service.id].type = "message"
        OBVIOUS
      <3>1. Receives(service.id) /\ tc[service.id].type = "message" /\ service.id \in TcIds
            /\ service'.id = service.id
        BY <1>0, <1>11 DEF ServiceOk
      <3>2. tc'[service.id] # None /\ tc'[service.id].direction = "receive" /\ tc'[service.id].type = "message"
        <4>1. CASE service.id = i
          BY <1>2, <1>4, <1>7, <3>1, <4>1 DEF Receives
        <4>2. CASE service.id # i
          BY <1>7, <3>1, <4>2 DEF Receives
        <4> QED BY <4>1, <4>2
      <3> QED BY <3>1, <3>2 DEF Receives
    <2>2. service.at = "store" => service.id # i /\ service.copy.buffer # b
      BY <1>0, <1>2, <1>3 DEF ServiceOk
    <2>3. service'.at = "store" =>
            /\ service'.copy.buffer \in allocated' /\ content'[service'.copy.buffer] = service'.id
            /\ service'.copy = [tc'[service'.id] EXCEPT !.buffer = service'.copy.buffer]
            /\ tc'[service'.id].buffer = None
            /\ \A j \in TcIds : tc'[j] # None => tc'[j].buffer # service'.copy.buffer
      <3> SUFFICES ASSUME service'.at = "store" PROVE
            /\ service.copy.buffer \in allocated' /\ content[service.copy.buffer] = service.id
            /\ service.copy = [tc'[service.id] EXCEPT !.buffer = service.copy.buffer]
            /\ tc'[service.id].buffer = None
            /\ \A j \in TcIds : tc'[j] # None => tc'[j].buffer # service.copy.buffer
        BY <1>11
      <3>1. /\ service.at = "store" /\ tc'[service.id] = tc[service.id]
        BY <1>7, <1>11, <2>2
      <3>2. /\ service.copy.buffer \in allocated /\ content[service.copy.buffer] = service.id
            /\ service.copy = [tc[service.id] EXCEPT !.buffer = service.copy.buffer]
            /\ tc[service.id].buffer = None
            /\ \A j \in TcIds : tc[j] # None => tc[j].buffer # service.copy.buffer
        BY <1>0, <3>1 DEF ServiceOk
      <3>3. service.copy.buffer # None
        BY <1>6, <3>2, InterfaceFacts
      <3>4. \A j \in TcIds : tc'[j] # None => tc'[j].buffer # service.copy.buffer
        BY <1>14, <3>2, <3>3
      <3> QED BY <1>5, <2>2, <3>1, <3>2, <3>4
    <2>4. service'.at = "callback" /\ service'.id \in Calling => tc'[service'.id].buffer # None
      <3>1. CASE t = "reader"
        BY <1>0, <1>7, <1>10, <1>11, <3>1 DEF ServiceOk
      <3>2. CASE t = "service"
        BY <1>11, <3>2
      <3> QED BY <3>1, <3>2
    <2> QED BY <1>11, <2>1, <2>3, <2>4 DEF ServiceOk, Receives
  <1>17. CopiesOk'
    <2>1. CASE t = "reader"
      <3>1. taking'["reader"] = None /\ taking'["service"] = taking["service"] /\ service' = service
        BY <1>9, <2>1
      <3>2. taking["service"] # None => taking["service"].id # i /\ taking["service"].id \in TcIds
        BY <1>0, <1>6, <1>10, <2>1 DEF CopiesOk, Interface!Copy
      <3> QED BY <1>0, <1>7, <3>1, <3>2 DEF CopiesOk
    <2>2. CASE t = "service"
      <3>1. taking'["service"] = None /\ taking'["reader"] = taking["reader"] /\ reader' = reader
        BY <1>9, <2>2
      <3>2. taking["reader"] # None => taking["reader"].id # i /\ taking["reader"].id \in TcIds
        BY <1>0, <1>6, <1>10, <2>2 DEF CopiesOk, Interface!Copy
      <3> QED BY <1>0, <1>7, <3>1, <3>2 DEF CopiesOk
    <2> QED BY <2>1, <2>2
  <1>18. PacketsOk'
    <2> SUFFICES ASSUME NEW j \in TcIds \ Calling
                 PROVE  /\ ~Sends(j)' => \A q, r \in Ports : \A k \in DOMAIN pending[q], l \in DOMAIN pending[r] :
                              pending[q][k] = j /\ pending[r][l] = j => q = r /\ k = l
                        /\ \A q \in Ports : \A k \in DOMAIN pending[q] : pending[q][k] = j =>
                              /\ tc'[j] # None => tc'[j].buffer = None
                              /\ ~(service'.at = "store" /\ service'.id = j)
      BY DEF PacketsOk
    <2>1. ~Sends(j)' => ~Sends(j)
      BY <1>2, <1>4, <1>7 DEF Sends
    <2>2. tc'[j] # None => tc'[j].buffer = None \/ (tc[j] # None /\ tc[j].buffer = tc'[j].buffer)
      BY <1>14
    <2>3. service'.at = "store" /\ service'.id = j => service.at = "store" /\ service.id = j
      BY <1>11
    <2> QED BY <1>0, <2>1, <2>2, <2>3 DEF PacketsOk
  <1>19. CallbacksOk' /\ callbacks' \in Seq(BOOLEAN)
    BY <1>14, EnabledSame
  <1> QED BY <1>12, <1>13, <1>15, <1>16, <1>17, <1>18, <1>19 DEF InterfaceInv

LEMMA ReadsEnd ==
  ASSUME Assumptions, InterfaceInv, Interface!ReadEnds \/ Interface!CallbackEnds
  PROVE  InterfaceInv'
  BY CopyStored DEF Interface!ReadEnds, Interface!CallbackEnds

(* The packet that is read goes into the first free buffer.                       *)
LEMMA PacketHandled ==
  ASSUME Assumptions, InterfaceInv, NEW p \in Ports, Interface!handleMessageTc(p)
  PROVE  InterfaceInv'
  <1>0. ConnectionsOk /\ ServiceOk /\ CopiesOk /\ BuffersOk /\ PacketsOk
    BY DEF InterfaceInv
  <1>1. PICK s \in Seq(TcIds \ Streaming) : s = pending[p] /\ s # <<>>
    BY DEF Interface!handleMessageTc, InterfaceInv, InterfaceType
  <1>2. /\ s[1] \in TcIds \ Streaming /\ Head(s) = s[1] /\ 1 \in DOMAIN s
        /\ Tail(s) \in Seq(TcIds \ Streaming)
        /\ \A k \in DOMAIN Tail(s) : k \in Nat \ {0} /\ k + 1 \in DOMAIN s /\ Tail(s)[k] = s[k + 1]
    BY <1>1
  <1>3. PICK i \in TcIds \ Streaming : i = s[1]
    BY <1>2
  <1>4. PICK b \in Buffers : b = Interface!Min(Interface!Free) /\ b \notin allocated /\ b # None
    <2>1. Interface!Free \in SUBSET Nat /\ Interface!Free # {} /\ Interface!Free = Buffers \ allocated
      BY InterfaceFacts DEF Interface!Free, Interface!handleMessageTc
    <2> QED BY <2>1, LeastBuffer, InterfaceFacts
  <1>5. /\ service.at = "select"
        /\ pending' = [pending EXCEPT ![p] = Tail(pending[p])]
        /\ content' = [content EXCEPT ![b] = i]
        /\ UNCHANGED <<nw, tc, taking, reader, callbacks>>
        /\ IF Receives(i)
           THEN /\ allocated' = allocated \cup {b}
                /\ service' = [at |-> "store", id |-> i, copy |-> [tc[i] EXCEPT !.buffer = b]]
           ELSE UNCHANGED <<allocated, service>>
    BY <1>1, <1>2, <1>3, <1>4 DEF Interface!handleMessageTc, Interface!Accepts, Interface!getTc, Receives
  <1>6. /\ pending' \in [Ports -> Seq(TcIds \ Streaming)] /\ pending'[p] = Tail(s)
        /\ \A q \in Ports \ {p} : pending'[q] = pending[q]
    BY <1>1, <1>2, <1>5 DEF InterfaceInv, InterfaceType
  <1>7. /\ content' \in [Buffers -> TcIds \cup {None}] /\ content'[b] = i
        /\ \A x \in Buffers \ {b} : content'[x] = content[x]
    BY <1>5 DEF InterfaceInv, InterfaceType
  <1>8. \A q \in Ports : \A k \in DOMAIN pending'[q] :
           /\ q = p => k + 1 \in DOMAIN pending[q] /\ pending'[q][k] = pending[q][k + 1] /\ k \in Nat \ {0}
           /\ q # p => k \in DOMAIN pending[q] /\ pending'[q][k] = pending[q][k]
    BY <1>1, <1>2, <1>6
  <1>9. allocated \subseteq Buffers /\ tc \in [TcIds -> Interface!Connection \cup {None}]
    BY DEF InterfaceInv, InterfaceType
  <1>10. \A j \in TcIds : tc[j] # None /\ tc[j].buffer # None => j \notin Calling /\ tc[j].buffer # b /\ tc[j].buffer \in Buffers
    BY <1>0, <1>4, <1>5, <1>9 DEF ConnectionsOk, BuffersOk
  <1>11. ConnectionsOk'
    <2>1. \A j \in TcIds : ~(tc[j] # None /\ j \in Calling /\ tc[j].buffer # None)
      BY <1>10
    <2> QED BY <1>0, <1>5, <2>1 DEF ConnectionsOk
  <1>12. CallbacksOk' /\ callbacks' \in Seq(BOOLEAN)
    BY <1>5, EnabledKept
  <1>13. ASSUME NEW j \in TcIds, tc[j] # None, tc[j].buffer # None
         PROVE  /\ tc[j].buffer \in allocated /\ content'[tc[j].buffer] = j
                /\ \A k \in TcIds : tc[k] # None /\ tc[k].buffer = tc[j].buffer => k = j
    BY <1>0, <1>7, <1>10, <1>13 DEF BuffersOk
  <1>14. taking["service"] = None
    BY <1>0, <1>5 DEF CopiesOk
  <1>15. \A j \in TcIds \ Calling : ~Sends(j) =>
             \A q, r \in Ports : \A k \in DOMAIN pending'[q], l \in DOMAIN pending'[r] :
                pending'[q][k] = j /\ pending'[r][l] = j => q = r /\ k = l
    <2> SUFFICES ASSUME NEW j \in TcIds \ Calling, ~Sends(j), NEW q \in Ports, NEW r \in Ports,
                        NEW k \in DOMAIN pending'[q], NEW l \in DOMAIN pending'[r],
                        pending'[q][k] = j, pending'[r][l] = j
                 PROVE  q = r /\ k = l
      OBVIOUS
    <2>1. \A x, y \in Ports : \A m \in DOMAIN pending[x], n \in DOMAIN pending[y] :
             pending[x][m] = j /\ pending[y][n] = j => x = y /\ m = n
      BY <1>0 DEF PacketsOk
    <2>2. /\ q = p => k + 1 \in DOMAIN pending[q] /\ pending[q][k + 1] = j /\ k \in Nat
          /\ q # p => k \in DOMAIN pending[q] /\ pending[q][k] = j
          /\ r = p => l + 1 \in DOMAIN pending[r] /\ pending[r][l + 1] = j /\ l \in Nat
          /\ r # p => l \in DOMAIN pending[r] /\ pending[r][l] = j
      BY <1>8
    <2>3. CASE q = p /\ r = p
      <3>1. k + 1 = l + 1
        BY <2>1, <2>2, <2>3
      <3> QED BY <2>2, <2>3, <3>1
    <2>4. CASE q # p /\ r # p
      BY <2>1, <2>2, <2>4
    <2>5. CASE (q = p /\ r # p) \/ (q # p /\ r = p)
      BY <2>1, <2>2, <2>5
    <2> QED BY <2>3, <2>4, <2>5
  <1>16. \A j \in TcIds \ Calling : \A q \in Ports : \A k \in DOMAIN pending'[q] : pending'[q][k] = j =>
             (tc[j] # None => tc[j].buffer = None)
    <2> SUFFICES ASSUME NEW j \in TcIds \ Calling, NEW q \in Ports, NEW k \in DOMAIN pending'[q],
                        pending'[q][k] = j
                 PROVE  tc[j] # None => tc[j].buffer = None
      OBVIOUS
    <2>1. \E m \in DOMAIN pending[q] : pending[q][m] = j
      BY <1>8
    <2> QED BY <1>0, <2>1 DEF PacketsOk
  <1>17. CASE ~Receives(i)
    <2>1. allocated' = allocated /\ service' = service
      BY <1>5, <1>17
    <2>2. InterfaceType'
      BY <1>5, <1>6, <1>7, <2>1 DEF InterfaceInv, InterfaceType
    <2>3. BuffersOk'
      BY <1>0, <1>5, <1>13, <2>1 DEF BuffersOk
    <2>4. ServiceOk' /\ CopiesOk'
      BY <1>0, <1>5, <2>1 DEF ServiceOk, CopiesOk, Receives
    <2>5. PacketsOk'
      BY <1>5, <1>15, <1>16, <2>1 DEF PacketsOk, Sends
    <2> QED BY <1>11, <1>12, <2>2, <2>3, <2>4, <2>5 DEF InterfaceInv
  <1>18. CASE Receives(i)
    <2>1. tc[i] # None /\ tc[i].direction = "receive" /\ tc[i].type = "message" /\ tc[i] \in Interface!Connection
      BY <1>0, <1>9, <1>18 DEF ConnectionsOk, Receives
    <2>2. PICK e \in Interface!Connection : e = [tc[i] EXCEPT !.buffer = b] /\ e.buffer = b
      <3>1. [tc[i] EXCEPT !.buffer = b] \in Interface!Connection
        BY <2>1 DEF Interface!Connection
      <3>2. [tc[i] EXCEPT !.buffer = b].buffer = b
        BY <2>1 DEF Interface!Connection
      <3> QED BY <3>1, <3>2
    <2>3. allocated' = allocated \cup {b} /\ service' = [at |-> "store", id |-> i, copy |-> e]
      BY <1>5, <1>18, <2>2
    <2>4. service'.at = "store" /\ service'.id = i /\ service'.copy = e
      BY <2>3
    <2>5. InterfaceType'
      BY <1>5, <1>6, <1>7, <1>9, <2>3, <2>4 DEF InterfaceInv, InterfaceType, InService
    <2>6. BuffersOk'
      <3>1. ASSUME NEW x \in allocated'
            PROVE  \/ \E j \in TcIds : tc[j] # None /\ tc[j].buffer = x
                   \/ service'.at = "store" /\ service'.copy.buffer = x
        BY <1>0, <1>5, <2>2, <2>3, <2>4 DEF BuffersOk
      <3> QED BY <1>5, <1>13, <2>3, <3>1 DEF BuffersOk
    <2>7. tc[i].buffer = None
      <3>1. CASE i \in Calling
        BY <1>10, <2>1, <3>1
      <3>2. CASE i \notin Calling
        BY <1>0, <1>1, <1>2, <1>3, <2>1, <3>2 DEF PacketsOk
      <3> QED BY <3>1, <3>2
    <2>8. ServiceOk'
      <3>1. \A j \in TcIds : tc[j] # None => tc[j].buffer # b
        BY <1>4, <1>10
      <3> QED BY <1>5, <1>7, <1>18, <2>1, <2>2, <2>3, <2>4, <2>7, <3>1 DEF ServiceOk, Receives
    <2>9. CopiesOk'
      BY <1>0, <1>5, <1>14 DEF CopiesOk
    <2>10. i \notin Calling => \A q \in Ports : \A k \in DOMAIN pending'[q] : pending'[q][k] # i
      <3> SUFFICES ASSUME i \notin Calling, NEW q \in Ports, NEW k \in DOMAIN pending'[q], pending'[q][k] = i
                   PROVE  FALSE
        OBVIOUS
      <3>1. \A x, y \in Ports : \A m \in DOMAIN pending[x], n \in DOMAIN pending[y] :
               pending[x][m] = i /\ pending[y][n] = i => x = y /\ m = n
        BY <1>0, <2>1 DEF PacketsOk, Sends
      <3>2. 1 \in DOMAIN pending[p] /\ pending[p][1] = i
        BY <1>1, <1>2, <1>3
      <3>3. CASE q = p
        <4>1. k + 1 \in DOMAIN pending[p] /\ pending[p][k + 1] = i /\ k \in Nat \ {0}
          BY <1>8, <3>3
        <4>2. k + 1 = 1
          BY <3>1, <3>2, <4>1
        <4> QED BY <4>1, <4>2
      <3>4. CASE q # p
        BY <1>8, <3>1, <3>2, <3>4
      <3> QED BY <3>3, <3>4
    <2>11. PacketsOk'
      BY <1>5, <1>15, <1>16, <2>4, <2>10 DEF PacketsOk, Sends
    <2> QED BY <1>11, <1>12, <2>5, <2>6, <2>8, <2>9, <2>11 DEF InterfaceInv
  <1> QED BY <1>17, <1>18

(* The connection gets the buffer.                                                *)
LEMMA BufferEntered ==
  ASSUME Assumptions, InterfaceInv, Interface!setTc
  PROVE  InterfaceInv'
  <1>0. ConnectionsOk /\ ServiceOk /\ CopiesOk /\ BuffersOk /\ PacketsOk
    BY DEF InterfaceInv
  <1>1. PICK i \in TcIds, c \in Interface!Connection :
           service.at = "store" /\ service.id = i /\ service.copy = c /\ c # None
    BY InterfaceFacts DEF Interface!setTc, InterfaceInv, InterfaceType
  <1>2. /\ tc[i] # None /\ tc[i].direction = "receive" /\ tc[i].type = "message" /\ tc[i].buffer = None
        /\ c = [tc[i] EXCEPT !.buffer = c.buffer] /\ c.buffer \in allocated /\ content[c.buffer] = i
        /\ \A j \in TcIds : tc[j] # None => tc[j].buffer # c.buffer
    BY <1>0, <1>1 DEF ServiceOk, Receives
  <1>3. c.port = tc[i].port /\ c.direction = "receive" /\ c.type = "message" /\ c.buffer # None
    <2>1. tc[i] \in Interface!Connection
      BY <1>2, ConnectionIs
    <2>2. [tc[i] EXCEPT !.buffer = c.buffer].port = tc[i].port
          /\ [tc[i] EXCEPT !.buffer = c.buffer].direction = tc[i].direction
          /\ [tc[i] EXCEPT !.buffer = c.buffer].type = tc[i].type
      BY <2>1 DEF Interface!Connection
    <2>3. allocated \subseteq Buffers
      BY DEF InterfaceInv, InterfaceType
    <2> QED BY <1>2, <2>2, <2>3, InterfaceFacts
  <1>4. /\ tc' = [tc EXCEPT ![i] = c] /\ service' = [at |-> "callback", id |-> i]
        /\ UNCHANGED <<nw, allocated, content, pending, taking, reader, callbacks>>
    BY <1>1, <1>2 DEF Interface!setTc, Interface!getTc
  <1>5. /\ tc' \in [TcIds -> Interface!Connection \cup {None}] /\ tc'[i] = c /\ \A j \in TcIds \ {i} : tc'[j] = tc[j]
    BY <1>4 DEF InterfaceInv, InterfaceType
  <1>6. service'.at = "callback" /\ service'.id = i /\ service' \in [at : InService, id : TcIds]
    BY <1>4 DEF InService
  <1>7. InterfaceType'
    BY <1>4, <1>5, <1>6 DEF InterfaceInv, InterfaceType, InService
  <1>8. \A j \in TcIds \ {i} : j \in Calling /\ tc[j] # None => tc[j].buffer = None
    BY <1>0, <1>1 DEF ConnectionsOk
  <1>9. ConnectionsOk'
    <2> SUFFICES ASSUME NEW j \in TcIds, tc'[j] # None
                 PROVE  /\ tc'[j].type = IF j \in Streaming THEN "streaming" ELSE "message"
                        /\ tc'[j].direction = "receive" => nw[tc'[j].port] # None /\ nw[tc'[j].port].open
                        /\ tc'[j].buffer # None => tc'[j].direction = "receive" /\ tc'[j].type = "message"
                        /\ j \in Calling /\ tc'[j].buffer # None
                              => service'.at \in {"callback", "taking"} /\ service'.id = j
      BY <1>4 DEF ConnectionsOk
    <2>1. CASE j = i
      BY <1>0, <1>2, <1>3, <1>5, <1>6, <2>1 DEF ConnectionsOk
    <2>2. CASE j # i
      BY <1>0, <1>5, <1>8, <2>2 DEF ConnectionsOk
    <2> QED BY <2>1, <2>2
  <1>10. BuffersOk'
    <2>1. ASSUME NEW j \in TcIds, tc'[j] # None, tc'[j].buffer # None
          PROVE  /\ tc'[j].buffer \in allocated /\ content[tc'[j].buffer] = j
                 /\ \A k \in TcIds : tc'[k] # None /\ tc'[k].buffer = tc'[j].buffer => k = j
      <3>1. CASE j = i
        BY <1>2, <1>5, <2>1, <3>1
      <3>2. CASE j # i
        BY <1>0, <1>2, <1>5, <2>1, <3>2 DEF BuffersOk
      <3> QED BY <3>1, <3>2
    <2>2. ASSUME NEW b \in allocated
          PROVE  \E j \in TcIds : tc'[j] # None /\ tc'[j].buffer = b
      <3>1. CASE b = c.buffer
        BY <1>1, <1>5, <3>1
      <3>2. CASE b # c.buffer
        <4>1. PICK j \in TcIds : tc[j] # None /\ tc[j].buffer = b
          BY <1>0, <1>1, <2>2, <3>2 DEF BuffersOk
        <4>2. b # None
          BY InterfaceFacts DEF InterfaceInv, InterfaceType
        <4> QED BY <1>2, <1>5, <4>1, <4>2
      <3> QED BY <3>1, <3>2
    <2> QED BY <1>4, <2>1, <2>2 DEF BuffersOk
  <1>11. ServiceOk'
    BY <1>1, <1>3, <1>5, <1>6 DEF ServiceOk, Receives
  <1>12. CopiesOk'
    <2>1. \A t \in {"service", "reader"} : taking[t] # None => taking[t].id # i
      BY <1>0, <1>2 DEF CopiesOk
    <2>2. \A t \in {"service", "reader"} : taking[t] # None => taking[t].id \in TcIds
      BY DEF InterfaceInv, InterfaceType, Interface!Copy
    <2>3. taking["service"] = None
      BY <1>0, <1>1 DEF CopiesOk
    <2>4. taking' = taking /\ reader' = reader
      BY <1>4
    <2> QED BY <1>0, <1>5, <2>1, <2>2, <2>3, <2>4 DEF CopiesOk
  <1>13. PacketsOk'
    <2> SUFFICES ASSUME NEW j \in TcIds \ Calling
                 PROVE  /\ ~Sends(j)' => \A q, r \in Ports : \A k \in DOMAIN pending[q], l \in DOMAIN pending[r] :
                              pending[q][k] = j /\ pending[r][l] = j => q = r /\ k = l
                        /\ \A q \in Ports : \A k \in DOMAIN pending[q] : pending[q][k] = j =>
                              /\ tc'[j] # None => tc'[j].buffer = None
                              /\ ~(service'.at = "store" /\ service'.id = j)
      BY <1>4 DEF PacketsOk
    <2>1. CASE j = i
      <3>1. \A q \in Ports : \A k \in DOMAIN pending[q] : pending[q][k] # j
        BY <1>0, <1>1, <2>1 DEF PacketsOk
      <3> QED BY <3>1
    <2>2. CASE j # i
      BY <1>0, <1>5, <1>6, <2>2 DEF PacketsOk, Sends
    <2> QED BY <2>1, <2>2
  <1>14. CallbacksOk' /\ callbacks' \in Seq(BOOLEAN)
    <2>1. \A j \in TcIds : tc'[j] # None => tc[j] # None
      BY <1>2, <1>5
    <2> QED BY <1>4, <2>1, EnabledSame
  <1> QED BY <1>7, <1>9, <1>10, <1>11, <1>12, <1>13, <1>14 DEF InterfaceInv

(* With fewer connections that are read without a callback than buffers the       *)
(* service thread never finds all of them in use: the others have none while it   *)
(* waits.                                                                         *)
BuffersSuffice ==
    /\ IsFiniteSet(TcIds) /\ IsFiniteSet(Buffers)
    /\ Cardinality(TcIds \ (Calling \cup Streaming)) < Cardinality(Buffers)

LEMMA BufferIsFree ==
  ASSUME Assumptions, BuffersSuffice, InterfaceInv, service.at = "select"
  PROVE  Interface!Free # {}
  <1>1. allocated \subseteq Buffers
    BY DEF InterfaceInv, InterfaceType
  <1> DEFINE Reading == TcIds \ (Calling \cup Streaming)
             Owner(b) == CHOOSE i \in TcIds : tc[i] # None /\ tc[i].buffer = b
             f == [b \in allocated |-> Owner(b)]
  <1>2. ASSUME NEW b \in allocated
        PROVE  Owner(b) \in Reading /\ tc[Owner(b)].buffer = b
    <2>1. \E i \in TcIds : tc[i] # None /\ tc[i].buffer = b
      BY DEF InterfaceInv, BuffersOk
    <2>2. Owner(b) \in TcIds /\ tc[Owner(b)] # None /\ tc[Owner(b)].buffer = b
      BY <2>1
    <2>3. b # None
      BY <1>1, InterfaceFacts
    <2> HIDE DEF Owner
    <2>4. Owner(b) \notin Calling /\ Owner(b) \notin Streaming
      BY <2>2, <2>3 DEF InterfaceInv, ConnectionsOk
    <2> QED BY <2>2, <2>4
  <1> HIDE DEF Owner, Reading
  <1>3. f \in [allocated -> Reading] /\ \A b, x \in allocated : f[b] = f[x] => b = x
    BY <1>2
  <1>4. f \in Injection(allocated, Reading)
    BY <1>3 DEF Injection, IsInjective
  <1>5. IsFiniteSet(Reading)
    BY FS_Subset DEF BuffersSuffice, Reading
  <1>6. Cardinality(allocated) <= Cardinality(Reading)
    BY <1>4, <1>5, FS_Injection
  <1>7. Cardinality(Reading) \in Nat /\ Cardinality(Buffers) \in Nat
    BY <1>5, FS_CardinalityType DEF BuffersSuffice
  <1>8. Cardinality(allocated) # Cardinality(Buffers)
    <2>1. IsFiniteSet(allocated)
      BY <1>1, FS_Subset DEF BuffersSuffice
    <2>2. Cardinality(allocated) \in Nat
      BY <2>1, FS_CardinalityType
    <2>3. Cardinality(Reading) < Cardinality(Buffers)
      BY DEF BuffersSuffice, Reading
    <2> QED BY <1>6, <1>7, <2>2, <2>3
  <1> QED BY <1>1, <1>8 DEF Interface!Free

LEMMA WakingUp ==
  ASSUME Assumptions, BuffersSuffice, InterfaceInv, Interface!Select
  PROVE  InterfaceInv'
  <1>1. service.at = "select"
    BY DEF Interface!Select
  <1>2. UNCHANGED <<nw, tc, allocated, content, pending, service, taking, reader, callbacks>>
    BY <1>1, BufferIsFree DEF Interface!Select
  <1>3. InterfaceType' /\ ConnectionsOk'
    BY <1>2 DEF InterfaceInv, InterfaceType, ConnectionsOk
  <1>4. BuffersOk' /\ ServiceOk' /\ CopiesOk' /\ PacketsOk'
    BY <1>2, BuffersKept, ServiceKept, CopiesKept, PacketsKept
  <1>5. CallbacksOk' /\ callbacks' \in Seq(BOOLEAN)
    BY <1>2, EnabledKept
  <1> QED BY <1>3, <1>4, <1>5 DEF InterfaceInv

LEMMA InterfaceStutters ==
  ASSUME InterfaceInv, UNCHANGED niiVars
  PROVE  InterfaceInv'
  <1>1. UNCHANGED <<nw, tc, allocated, content, pending, service, taking, reader, callbacks>>
    BY DEF niiVars
  <1>2. InterfaceType' /\ ConnectionsOk'
    BY <1>1 DEF InterfaceInv, InterfaceType, ConnectionsOk
  <1>3. BuffersOk' /\ ServiceOk' /\ CopiesOk' /\ PacketsOk'
    BY <1>1, BuffersKept, ServiceKept, CopiesKept, PacketsKept
  <1>4. CallbacksOk' /\ callbacks' \in Seq(BOOLEAN)
    BY <1>1, EnabledKept
  <1> QED BY <1>2, <1>3, <1>4 DEF InterfaceInv

LEMMA InterfaceStep ==
  ASSUME Assumptions, BuffersSuffice, InterfaceInv, [Interface!Next]_niiVars
  PROVE  InterfaceInv'
  <1>1. CASE UNCHANGED niiVars
    BY <1>1, InterfaceStutters
  <1>2. CASE Interface!NII_configureInterface
    BY <1>2, NetworkConfigured
  <1>3. ASSUME NEW i \in TcIds,
               Interface!NII_configureTransfer(i) \/ Interface!NII_destroyTransfer(i) \/ Interface!NII_sendTransfer(i)
        PROVE  InterfaceInv'
    BY <1>3, ConnectionConfigured, ConnectionDestroyed, PacketSent
  <1>4. ASSUME NEW p \in Ports, Interface!Arrives(p) \/ Interface!handleMessageTc(p) \/ Interface!handleStreamingTc(p)
        PROVE  InterfaceInv'
    <2>1. CASE Interface!handleStreamingTc(p)
      BY <2>1, InterfaceStutters DEF Interface!handleStreamingTc, Interface!vars, niiVars
    <2> QED BY <1>4, <2>1, PacketArrives, PacketHandled
  <1>5. CASE Interface!ASAAC_MOS_registerCallback \/ Interface!ASAAC_MOS_enableCallback
             \/ Interface!ASAAC_MOS_disableCallback \/ Interface!ASAAC_MOS_deleteCallback
    BY <1>5, CallbacksKept
  <1>6. CASE Interface!ReadBegins \/ Interface!ReadWoken \/ Interface!ReadTimesOut \/ Interface!ReadEnds
             \/ Interface!CallbackEnds
    BY <1>6, ReaderSteps, ReadsEnd
  <1>7. CASE Interface!Select \/ Interface!setTc \/ Interface!ServiceThread \/ Interface!Broadcast
    BY <1>7, WakingUp, BufferEntered, CallbackBegins, ReaderTold
  <1> QED BY <1>1, <1>2, <1>3, <1>4, <1>5, <1>6, <1>7 DEF Interface!Next

(* Nii.Listening and Nii.BuffersExact: a receiving connection has an open socket, *)
(* and every buffer in use is in the hands of one connection or of the service    *)
(* thread and holds a packet of that connection, for any number of connections    *)
(* and ports, packets and callbacks, if the buffers suffice.                      *)
THEOREM InterfaceStaysExact == BuffersSuffice => (Spec => []InterfaceIsExact)
  <1> SUFFICES ASSUME BuffersSuffice PROVE Spec => []InterfaceIsExact
    OBVIOUS
  <1>1. Init => InterfaceInv
    BY InterfaceInit, Assumptions DEF Init
  <1>2. InterfaceInv /\ [Next]_vars => InterfaceInv'
    <2> SUFFICES ASSUME InterfaceInv, [Next]_vars PROVE InterfaceInv'
      OBVIOUS
    <2>1. [Interface!Next]_niiVars
      BY DEF Next, vars
    <2> QED BY <2>1, InterfaceStep, Assumptions
  <1>3. InterfaceInv => InterfaceIsExact
    <2> SUFFICES ASSUME InterfaceInv PROVE InterfaceIsExact
      OBVIOUS
    <2>1. Interface!Listening
      BY DEF InterfaceInv, ConnectionsOk, Interface!Listening, Interface!getTc, Interface!getNw
    <2>2. \A i \in Interface!Held : i \in TcIds /\ tc[i] # None /\ tc[i].buffer # None
      BY DEF Interface!Held, Interface!getTc
    <2>3. /\ \A i \in Interface!Held : tc[i].buffer \in allocated /\ content[tc[i].buffer] = i
          /\ \A i, j \in Interface!Held : i # j => tc[i].buffer # tc[j].buffer
      BY <2>2 DEF InterfaceInv, BuffersOk
    <2>4. ASSUME NEW b \in allocated
          PROVE  \/ \E i \in Interface!Held : tc[i].buffer = b
                 \/ service.at = "store" /\ service.copy.buffer = b
      <3>1. b # None
        BY InterfaceFacts, Assumptions DEF InterfaceInv, InterfaceType
      <3> QED BY <3>1 DEF InterfaceInv, BuffersOk, Interface!Held, Interface!getTc
    <2> QED BY <2>1, <2>3, <2>4 DEF InterfaceIsExact, Interface!BuffersExact
  <1> QED BY <1>1, <1>2, <1>3, PTL DEF Spec

(* PcsPipeline: where the messages of a vc are, from the oldest to the newest.    *)
(*                                                                                *)
(* They have arrived, are on the wire, are with the security manager or about to   *)
(* be, are in the ring behind it, or in the inbox.  The ring may overflow: then    *)
(* what can be read of it is what was written last.                                *)
OneMarked == \A v, w \in Marked : v = w

Message == [from : Vcs, number : Nat]
Packet == [line : Lines, header : Vcs \cup {None}, message : Message]

PipelineType ==
    /\ inbox \in [Vcs -> Seq([number : Nat, converts : BOOLEAN])]
    /\ written \in [Vcs -> Nat] /\ locked \in [Vcs -> Nat]
    /\ pmQueue \in [Pipeline!Slot -> Message \cup {None}]
    /\ nextFree \in Pipeline!Slot /\ nextMessage \in Pipeline!Slot
    /\ reading \in [vc : Vcs, slot : Pipeline!Slot] \cup {None}
    /\ manager \in [vc : Vcs, data : Message] \cup {None}
    /\ wire \in Seq(Packet) /\ delivered \in [Vcs -> Seq(Message)]

(* What is in the inbox follows what was taken out.                               *)
Taken(v) == written[v] - Len(inbox[v])
InboxOk ==
    \A v \in Vcs :
        /\ Taken(v) \in Nat /\ locked[v] = 0
        /\ \A k \in 1 .. Len(inbox[v]) : inbox[v][k].number = Taken(v) + k /\ inbox[v][k].converts

NamedOk ==
    /\ \A k \in 1 .. Len(wire) :
        /\ wire[k].message.from \in MappedTo[wire[k].line]
        /\ wire[k].header = IF wire[k].message.from \in Raw THEN None ELSE wire[k].message.from
    /\ \A v \in Vcs : \A k \in 1 .. Len(delivered[v]) : delivered[v][k].from = v

(* Everything of v on the wire or behind it is older than n.                      *)
Behind(v, n) ==
    /\ \A k \in 1 .. Len(delivered[v]) : delivered[v][k].number < n
    /\ \A k \in 1 .. Len(wire) : wire[k].message.from = v => wire[k].message.number < n

WireInOrder ==
    \A v \in Vcs : Pipeline!Cardinality(Pipeline!getTcMapping(v)) = 1 =>
        /\ \A j, k \in 1 .. Len(delivered[v]) : j < k => delivered[v][j].number < delivered[v][k].number
        /\ \A j, k \in 1 .. Len(wire) :
            j < k /\ wire[j].message.from = v /\ wire[k].message.from = v => wire[j].message.number < wire[k].message.number
        /\ \A j \in 1 .. Len(delivered[v]), k \in 1 .. Len(wire) :
            wire[k].message.from = v => delivered[v][j].number < wire[k].message.number

AllTaken == \A v \in Vcs : Behind(v, Taken(v) + 1)

(* The ring from the oldest message to the newest; the last ones can be read.     *)
Age(k)   == IF k >= nextFree THEN k - nextFree ELSE k - nextFree + PmSize
Readable == IF nextFree >= nextMessage THEN nextFree - nextMessage ELSE nextFree - nextMessage + PmSize
CanBeRead(k) == Age(k) >= PmSize - Readable

PmRingOk ==
    /\ \A k \in Pipeline!Slot : pmQueue[k] # None =>
        pmQueue[k].from \in Marked /\ pmQueue[k].number <= Taken(pmQueue[k].from)
    /\ \A j, k \in Pipeline!Slot : Age(j) < Age(k) /\ pmQueue[j] # None =>
        pmQueue[k] # None /\ pmQueue[j].number < pmQueue[k].number
    /\ \A k \in Pipeline!Slot : CanBeRead(k) =>
        pmQueue[k] # None /\ Behind(pmQueue[k].from, pmQueue[k].number)

(* The message that is read is the one in front of those that can be.             *)
ReadingOk == reading # None =>
    /\ manager = None /\ reading.vc \in Marked /\ pmQueue[reading.slot] # None
    /\ Age(reading.slot) = PmSize - 1 - Readable
    /\ Behind(pmQueue[reading.slot].from, pmQueue[reading.slot].number)

ManagerOk == manager # None =>
    /\ manager.vc \in Marked /\ manager.data.from \in Marked
    /\ manager.data.number <= Taken(manager.data.from)
    /\ Behind(manager.data.from, manager.data.number)
    /\ \A k \in Pipeline!Slot : CanBeRead(k) => manager.data.number < pmQueue[k].number

PipelineInv == PipelineType /\ InboxOk /\ NamedOk /\ WireInOrder /\ AllTaken /\ PmRingOk /\ ReadingOk /\ ManagerOk


LEMMA PipelineFacts ==
  ASSUME Assumptions
  PROVE  /\ Raw \subseteq Vcs /\ Marked \subseteq Vcs /\ MappedTo \in [Lines -> SUBSET Vcs]
         /\ PmSize \in Nat \ {0} /\ None \notin Message
         /\ \A l \in Lines : MappedTo[l] \cap Raw # {} => \E v \in Vcs : MappedTo[l] = {v}
  BY DEF Assumptions, Pipeline!PcsPipelineAssumption, Message

LEMMA LinesAreFinite == Assumptions => IsFiniteSet(Lines)
  BY DEF Assumptions, Pipeline!PcsPipelineAssumption, Pipeline!IsFiniteSet, IsFiniteSet

LEMMA SizeIs == ASSUME NEW S PROVE Pipeline!Cardinality(S) = Cardinality(S)
  BY DEF Pipeline!Cardinality, Cardinality, Pipeline!IsFiniteSet, IsFiniteSet

LEMMA PipelineInit == Assumptions /\ Pipeline!Init => PipelineInv
  <1> SUFFICES ASSUME Assumptions, Pipeline!Init PROVE PipelineInv
    OBVIOUS
  <1> USE PipelineFacts
  <1>1. /\ inbox = [v \in Vcs |-> <<>>] /\ locked = [v \in Vcs |-> 0] /\ written = [v \in Vcs |-> 0]
        /\ pmQueue = [k \in Pipeline!Slot |-> None] /\ nextFree = 0 /\ nextMessage = 0
        /\ reading = None /\ manager = None /\ wire = <<>> /\ delivered = [v \in Vcs |-> <<>>]
    BY DEF Pipeline!Init
  <1>2. 0 \in Pipeline!Slot
    BY DEF Pipeline!Slot
  <1>3. PipelineType
    BY <1>1, <1>2 DEF PipelineType
  <1>4. InboxOk /\ AllTaken
    BY <1>1 DEF InboxOk, AllTaken, Taken, Behind
  <1>5. NamedOk /\ WireInOrder
    BY <1>1 DEF NamedOk, WireInOrder
  <1>6. \A k \in Pipeline!Slot : ~CanBeRead(k)
    BY <1>1 DEF Pipeline!Slot, CanBeRead, Readable, Age
  <1>7. PmRingOk /\ ReadingOk /\ ManagerOk
    BY <1>1, <1>6 DEF PmRingOk, ReadingOk, ManagerOk
  <1> QED BY <1>3, <1>4, <1>5, <1>7 DEF PipelineInv

LEMMA AgesAre ==
  ASSUME Assumptions, nextFree \in Pipeline!Slot, nextMessage \in Pipeline!Slot
  PROVE  /\ \A k \in Pipeline!Slot : Age(k) \in 0 .. PmSize - 1
         /\ \A j, k \in Pipeline!Slot : Age(j) = Age(k) => j = k
         /\ Age(nextFree) = 0 /\ Readable \in 0 .. PmSize - 1
  BY PipelineFacts DEF Age, Readable, Pipeline!Slot

(* A message enters the ring: all others are one older, and if the ring was full   *)
(* none can be read.                                                              *)
LEMMA AgesGrow ==
  ASSUME Assumptions, nextFree \in Pipeline!Slot, nextMessage \in Pipeline!Slot,
         nextFree' = (nextFree + 1) % PmSize, nextMessage' = nextMessage
  PROVE  /\ nextFree' \in Pipeline!Slot
         /\ \A k \in Pipeline!Slot : Age(k)' = IF k = nextFree THEN PmSize - 1 ELSE Age(k) - 1
         /\ Readable' = IF Readable = PmSize - 1 THEN 0 ELSE Readable + 1
  <1> USE PipelineFacts
  <1>1. nextFree' = IF nextFree + 1 < PmSize THEN nextFree + 1 ELSE 0
    BY NextIs DEF Pipeline!Slot
  <1>2. nextFree' \in Pipeline!Slot
    BY <1>1 DEF Pipeline!Slot
  <1>3. ASSUME NEW k \in Pipeline!Slot
        PROVE  Age(k)' = IF k = nextFree THEN PmSize - 1 ELSE Age(k) - 1
    BY <1>1, <1>3 DEF Age, Pipeline!Slot
  <1>4. Readable' = IF Readable = PmSize - 1 THEN 0 ELSE Readable + 1
    <2>1. nextFree \in 0 .. PmSize - 1 /\ nextMessage \in 0 .. PmSize - 1
      BY DEF Pipeline!Slot
    <2>2. CASE nextFree + 1 < PmSize
      BY <1>1, <2>1, <2>2 DEF Readable
    <2>3. CASE ~(nextFree + 1 < PmSize)
      BY <1>1, <2>1, <2>3 DEF Readable
    <2> QED BY <2>2, <2>3
  <1> QED BY <1>2, <1>3, <1>4

LEMMA OneIsRead ==
  ASSUME Assumptions, nextFree \in Pipeline!Slot, nextMessage \in Pipeline!Slot, nextFree # nextMessage,
         nextFree' = nextFree, nextMessage' = (nextMessage + 1) % PmSize
  PROVE  /\ nextMessage' \in Pipeline!Slot /\ Age(nextMessage) = PmSize - Readable
         /\ \A k \in Pipeline!Slot : Age(k)' = Age(k)
         /\ Readable' = Readable - 1
  <1> USE PipelineFacts
  <1>1. nextMessage' = IF nextMessage + 1 < PmSize THEN nextMessage + 1 ELSE 0
    BY NextIs DEF Pipeline!Slot
  <1>2. nextMessage' \in Pipeline!Slot /\ Age(nextMessage) = PmSize - Readable
    BY <1>1 DEF Pipeline!Slot, Age, Readable
  <1>3. \A k \in Pipeline!Slot : Age(k)' = Age(k)
    BY DEF Age
  <1>4. Readable' = Readable - 1
    <2>1. nextFree \in 0 .. PmSize - 1 /\ nextMessage \in 0 .. PmSize - 1
      BY DEF Pipeline!Slot
    <2>2. CASE nextMessage + 1 < PmSize
      BY <1>1, <2>1, <2>2 DEF Readable
    <2>3. CASE ~(nextMessage + 1 < PmSize)
      BY <1>1, <2>1, <2>3 DEF Readable
    <2> QED BY <2>2, <2>3
  <1> QED BY <1>2, <1>3, <1>4

(* The switch appends the message once for each connection of its vc.             *)
LEMMA SwitchIs ==
  ASSUME Assumptions, PipelineType, NEW v \in Vcs, NEW m \in Message, Pipeline!VcTcSwitch(v, m)
  PROVE  \E c \in Nat :
           /\ wire' \in Seq(Packet) /\ Len(wire') = Len(wire) + c
           /\ \A k \in 1 .. Len(wire) : wire'[k] = wire[k]
           /\ \A k \in Len(wire) + 1 .. Len(wire') :
                /\ wire'[k].message = m /\ v \in MappedTo[wire'[k].line]
                /\ wire'[k].header = IF v \in Raw THEN None ELSE v
           /\ Pipeline!Cardinality(Pipeline!getTcMapping(v)) = 1 => c = 1
  <1> DEFINE L == Pipeline!getTcMapping(v)
             P == {Pipeline!Packed(l, v, m) : l \in L}
             c == Cardinality(P)
  <1>1. L \subseteq Lines /\ IsFiniteSet(L)
    <2>1. L \subseteq Lines
      BY DEF Pipeline!getTcMapping
    <2> QED BY <2>1, LinesAreFinite, FS_Subset
  <1>2. \A p \in P : /\ p \in Packet /\ p.message = m /\ v \in MappedTo[p.line]
                     /\ p.header = IF v \in Raw THEN None ELSE v
    <2>1. ASSUME NEW l \in L
          PROVE  LET p == Pipeline!Packed(l, v, m)
                 IN  /\ p \in Packet /\ p.message = m /\ v \in MappedTo[p.line]
                     /\ p.header = IF v \in Raw THEN None ELSE v
      <3>1. l \in Lines /\ v \in MappedTo[l]
        BY <2>1 DEF Pipeline!getTcMapping
      <3> QED BY <3>1 DEF Pipeline!Packed, Packet
    <2> QED BY <2>1
  <1>3. IsFiniteSet(P)
    <2> DEFINE f == [l \in L |-> Pipeline!Packed(l, v, m)]
    <2>1. f \in [L -> P] /\ \A p \in P : \E l \in L : f[l] = p
      OBVIOUS
    <2>2. f \in Surjection(L, P)
      BY <2>1 DEF Surjection
    <2> QED BY <1>1, <2>2, FS_Surjection
  <1>4. c \in Nat
    BY <1>3, FS_CardinalityType
  <1>5. PICK order \in [1 .. c -> P] : wire' = wire \o order
    <2>1. Pipeline!Cardinality(P) = c
      BY SizeIs
    <2> QED BY <2>1 DEF Pipeline!VcTcSwitch
  <1>6. Pipeline!Cardinality(L) = 1 => c = 1
    <2> SUFFICES ASSUME Pipeline!Cardinality(L) = 1 PROVE c = 1
      OBVIOUS
    <2>1. Cardinality(L) = 1
      BY SizeIs
    <2>2. PICK l : L = {l}
      BY <1>1, <2>1, FS_Singleton
    <2>3. P = {Pipeline!Packed(l, v, m)}
      BY <2>2
    <2> QED BY <2>3, FS_Singleton
  <1> HIDE DEF L, P, c
  <1>7. order \in Seq(Packet) /\ Len(order) = c
    <2>1. order \in [1 .. c -> Packet]
      BY <1>2
    <2> QED BY <1>4, <2>1
  <1>8. wire \in Seq(Packet)
    BY DEF PipelineType
  <1>9. /\ wire' \in Seq(Packet) /\ Len(wire') = Len(wire) + c /\ Len(wire) \in Nat
        /\ \A k \in 1 .. Len(wire) + c : wire'[k] = IF k <= Len(wire) THEN wire[k] ELSE order[k - Len(wire)]
    BY <1>5, <1>7, <1>8, ConcatProperties, LenProperties
  <1>10. \A k \in Len(wire) + 1 .. Len(wire') : wire'[k] \in P
    <2> SUFFICES ASSUME NEW k \in Len(wire) + 1 .. Len(wire') PROVE wire'[k] \in P
      OBVIOUS
    <2>1. k - Len(wire) \in 1 .. c
      BY <1>4, <1>9
    <2>2. wire'[k] = order[k - Len(wire)]
      BY <1>4, <1>9
    <2> QED BY <2>1, <2>2
  <1>11. \A k \in 1 .. Len(wire) : wire'[k] = wire[k]
    BY <1>4, <1>9
  <1> QED BY <1>2, <1>4, <1>6, <1>9, <1>10, <1>11 DEF L

LEMMA OlderIs ==
  ASSUME PipelineType, NEW v \in Vcs, NEW n \in Nat, NEW o \in Nat, n <= o, Behind(v, n)
  PROVE  Behind(v, o)
  <1>1. \A k \in 1 .. Len(delivered[v]) : delivered[v][k].number \in Nat
    <2>1. delivered[v] \in Seq(Message)
      BY DEF PipelineType
    <2>2. \A k \in 1 .. Len(delivered[v]) : delivered[v][k] \in Message
      BY <2>1, LenProperties
    <2> QED BY <2>2 DEF Message
  <1>2. \A k \in 1 .. Len(wire) : wire[k].message.number \in Nat
    <2>1. wire \in Seq(Packet)
      BY DEF PipelineType
    <2>2. \A k \in 1 .. Len(wire) : wire[k] \in Packet
      BY <2>1, LenProperties
    <2> QED BY <2>2 DEF Message, Packet
  <1> QED BY <1>1, <1>2 DEF Behind

(* A message that is newer than what is on the wire or behind it enters the wire.  *)
LEMMA WireGrows ==
  ASSUME Assumptions, PipelineType, NamedOk, WireInOrder,
         NEW m \in Message, Behind(m.from, m.number), Pipeline!VcTcSwitch(m.from, m), delivered' = delivered
  PROVE  /\ wire' \in Seq(Packet) /\ NamedOk' /\ WireInOrder'
         /\ \A w \in Vcs, n \in Nat : Behind(w, n) /\ (w = m.from => m.number < n) => Behind(w, n)'
  <1>0. m.from \in Vcs /\ m.number \in Nat
    BY DEF Message
  <1>1. PICK c \in Nat :
           /\ wire' \in Seq(Packet) /\ Len(wire') = Len(wire) + c
           /\ \A k \in 1 .. Len(wire) : wire'[k] = wire[k]
           /\ \A k \in Len(wire) + 1 .. Len(wire') :
                /\ wire'[k].message = m /\ m.from \in MappedTo[wire'[k].line]
                /\ wire'[k].header = IF m.from \in Raw THEN None ELSE m.from
           /\ Pipeline!Cardinality(Pipeline!getTcMapping(m.from)) = 1 => c = 1
    BY <1>0, SwitchIs
  <1>2. Len(wire) \in Nat /\ Len(wire') \in Nat
    BY <1>1 DEF PipelineType
  <1>3. \A k \in 1 .. Len(wire') : k \in 1 .. Len(wire) \/ k \in Len(wire) + 1 .. Len(wire')
    BY <1>1, <1>2
  <1>4. NamedOk'
    <2>1. ASSUME NEW k \in 1 .. Len(wire')
          PROVE  /\ wire'[k].message.from \in MappedTo[wire'[k].line]
                 /\ wire'[k].header = IF wire'[k].message.from \in Raw THEN None ELSE wire'[k].message.from
      BY <1>1, <1>3, <2>1 DEF NamedOk
    <2> QED BY <2>1 DEF NamedOk
  <1>5. ASSUME NEW w \in Vcs, NEW n \in Nat, Behind(w, n), w = m.from => m.number < n
        PROVE  Behind(w, n)'
    <2>1. ASSUME NEW k \in 1 .. Len(wire'), wire'[k].message.from = w
          PROVE  wire'[k].message.number < n
      BY <1>1, <1>3, <1>5, <2>1 DEF Behind
    <2> QED BY <1>5, <2>1 DEF Behind
  <1>6. WireInOrder'
    <2> SUFFICES ASSUME NEW v \in Vcs, Pipeline!Cardinality(Pipeline!getTcMapping(v)) = 1
                 PROVE  /\ \A j, k \in 1 .. Len(wire') :
                              j < k /\ wire'[j].message.from = v /\ wire'[k].message.from = v
                                => wire'[j].message.number < wire'[k].message.number
                        /\ \A j \in 1 .. Len(delivered[v]), k \in 1 .. Len(wire') :
                              wire'[k].message.from = v => delivered[v][j].number < wire'[k].message.number
      BY DEF WireInOrder, Pipeline!Cardinality, Pipeline!getTcMapping
    <2>1. ASSUME NEW j \in 1 .. Len(wire'), NEW k \in 1 .. Len(wire'), j < k,
                 wire'[j].message.from = v, wire'[k].message.from = v
          PROVE  wire'[j].message.number < wire'[k].message.number
      <3>1. CASE k \in 1 .. Len(wire)
        <4>1. j \in 1 .. Len(wire)
          BY <1>2, <2>1, <3>1
        <4> QED BY <1>1, <2>1, <3>1, <4>1 DEF WireInOrder
      <3>2. CASE k \in Len(wire) + 1 .. Len(wire')
        <4>1. wire'[k].message = m /\ m.from = v
          BY <1>1, <2>1, <3>2
        <4>2. j \in 1 .. Len(wire)
          BY <1>1, <1>2, <2>1, <3>2, <4>1
        <4> QED BY <1>1, <2>1, <4>1, <4>2 DEF Behind
      <3> QED BY <1>3, <3>1, <3>2
    <2>2. ASSUME NEW j \in 1 .. Len(delivered[v]), NEW k \in 1 .. Len(wire'), wire'[k].message.from = v
          PROVE  delivered[v][j].number < wire'[k].message.number
      <3>1. CASE k \in 1 .. Len(wire)
        BY <1>1, <2>2, <3>1 DEF WireInOrder
      <3>2. CASE k \in Len(wire) + 1 .. Len(wire')
        BY <1>1, <2>2, <3>2 DEF Behind
      <3> QED BY <1>3, <3>1, <3>2
    <2> QED BY <2>1, <2>2
  <1> QED BY <1>1, <1>4, <1>5, <1>6

(* The oldest packet leaves the wire: it is lost, or what it carries arrives.      *)
Arrived(v) == delivered' = [delivered EXCEPT ![v] = Append(@, Head(wire).message)]

LEMMA WireShrinks ==
  ASSUME Assumptions, PipelineType, NamedOk, WireInOrder, wire # <<>>, wire' = Tail(wire),
         delivered' = delivered \/ Arrived(Head(wire).message.from)
  PROVE  /\ wire' \in Seq(Packet) /\ delivered' \in [Vcs -> Seq(Message)] /\ NamedOk' /\ WireInOrder'
         /\ \A w \in Vcs, n \in Nat : Behind(w, n) => Behind(w, n)'
  <1>1. /\ wire' \in Seq(Packet) /\ Len(wire') = Len(wire) - 1 /\ Len(wire) \in Nat
        /\ \A k \in 1 .. Len(wire') : wire'[k] = wire[k + 1]
    BY HeadTailProperties, LenProperties DEF PipelineType
  <1>2. \A k \in 1 .. Len(wire') : k + 1 \in 1 .. Len(wire)
    BY <1>1
  <1>3. Len(wire) >= 1 /\ Head(wire) = wire[1] /\ 1 \in 1 .. Len(wire)
    BY <1>1 DEF PipelineType
  <1>4. wire[1] \in Packet
    BY <1>3, LenProperties DEF PipelineType
  <1> DEFINE m == wire[1].message
  <1>5. m \in Message /\ m.from \in Vcs /\ m.number \in Nat
    BY <1>4 DEF Packet, Message
  <1>6. \A v \in Vcs : delivered[v] \in Seq(Message) /\ Len(delivered[v]) \in Nat
    BY LenProperties DEF PipelineType
  <1>7. ASSUME NEW v \in Vcs
        PROVE  \/ delivered'[v] = delivered[v]
               \/ v = m.from /\ delivered'[v] = Append(delivered[v], m)
    BY <1>3, <1>5 DEF PipelineType, Arrived
  <1>8. delivered' \in [Vcs -> Seq(Message)]
    <2>1. Append(delivered[m.from], m) \in Seq(Message)
      BY <1>5, <1>6, AppendProperties
    <2>2. delivered \in [Vcs -> Seq(Message)]
      BY DEF PipelineType
    <2>3. delivered' = delivered \/ delivered' = [delivered EXCEPT ![m.from] = Append(delivered[m.from], m)]
      BY <1>3 DEF Arrived
    <2> HIDE DEF m
    <2> QED BY <1>5, <2>1, <2>2, <2>3
  <1> HIDE DEF m
  <1>9. ASSUME NEW v \in Vcs
        PROVE  \/ delivered'[v] = delivered[v]
               \/ /\ v = m.from /\ Len(delivered'[v]) = Len(delivered[v]) + 1
                  /\ delivered'[v][Len(delivered[v]) + 1] = m
                  /\ \A k \in 1 .. Len(delivered[v]) : delivered'[v][k] = delivered[v][k]
    <2>1. CASE v = m.from /\ delivered'[v] = Append(delivered[v], m)
      <3>1. /\ Len(Append(delivered[v], m)) = Len(delivered[v]) + 1
            /\ \A k \in 1 .. Len(delivered[v]) : Append(delivered[v], m)[k] = delivered[v][k]
            /\ Append(delivered[v], m)[Len(delivered[v]) + 1] = m
        BY <1>5, <1>6, AppendProperties
      <3> QED BY <2>1, <3>1
    <2> QED BY <1>7, <2>1
  <1>10. ASSUME NEW v \in Vcs, NEW k \in 1 .. Len(delivered'[v])
         PROVE  \/ k \in 1 .. Len(delivered[v]) /\ delivered'[v][k] = delivered[v][k]
                \/ v = m.from /\ k = Len(delivered[v]) + 1 /\ delivered'[v][k] = m
    BY <1>6, <1>9
  <1>11. NamedOk'
    <2>1. ASSUME NEW v \in Vcs, NEW k \in 1 .. Len(delivered'[v])
          PROVE  delivered'[v][k].from = v
      BY <1>10 DEF NamedOk
    <2>2. ASSUME NEW k \in 1 .. Len(wire')
          PROVE  /\ wire'[k].message.from \in MappedTo[wire'[k].line]
                 /\ wire'[k].header = IF wire'[k].message.from \in Raw THEN None ELSE wire'[k].message.from
      BY <1>1, <1>2 DEF NamedOk
    <2> QED BY <2>1, <2>2 DEF NamedOk
  <1>12. ASSUME NEW w \in Vcs, NEW n \in Nat, Behind(w, n)
         PROVE  Behind(w, n)'
    <2>1. ASSUME NEW k \in 1 .. Len(delivered'[w])
          PROVE  delivered'[w][k].number < n
      BY <1>3, <1>10, <1>12 DEF Behind, m
    <2>2. ASSUME NEW k \in 1 .. Len(wire'), wire'[k].message.from = w
          PROVE  wire'[k].message.number < n
      BY <1>1, <1>2, <1>12, <2>2 DEF Behind
    <2> QED BY <2>1, <2>2 DEF Behind
  <1>13. WireInOrder'
    <2> SUFFICES ASSUME NEW v \in Vcs, Pipeline!Cardinality(Pipeline!getTcMapping(v)) = 1
                 PROVE  /\ \A j, k \in 1 .. Len(delivered'[v]) :
                              j < k => delivered'[v][j].number < delivered'[v][k].number
                        /\ \A j, k \in 1 .. Len(wire') :
                              j < k /\ wire'[j].message.from = v /\ wire'[k].message.from = v
                                => wire'[j].message.number < wire'[k].message.number
                        /\ \A j \in 1 .. Len(delivered'[v]), k \in 1 .. Len(wire') :
                              wire'[k].message.from = v => delivered'[v][j].number < wire'[k].message.number
      BY DEF WireInOrder, Pipeline!Cardinality, Pipeline!getTcMapping
    <2>1. ASSUME NEW j \in 1 .. Len(delivered'[v]), NEW k \in 1 .. Len(delivered'[v]), j < k
          PROVE  delivered'[v][j].number < delivered'[v][k].number
      <3>1. j \in 1 .. Len(delivered[v]) /\ delivered'[v][j] = delivered[v][j]
        BY <1>6, <1>10, <2>1
      <3>2. CASE k \in 1 .. Len(delivered[v]) /\ delivered'[v][k] = delivered[v][k]
        BY <2>1, <3>1, <3>2 DEF WireInOrder
      <3>3. CASE v = m.from /\ delivered'[v][k] = m
        BY <1>3, <3>1, <3>3 DEF WireInOrder, m
      <3> QED BY <1>10, <3>2, <3>3
    <2>2. ASSUME NEW j \in 1 .. Len(wire'), NEW k \in 1 .. Len(wire'), j < k,
                 wire'[j].message.from = v, wire'[k].message.from = v
          PROVE  wire'[j].message.number < wire'[k].message.number
      <3>1. j + 1 < k + 1 /\ wire'[j] = wire[j + 1] /\ wire'[k] = wire[k + 1]
        BY <1>1, <2>2
      <3> QED BY <1>2, <2>2, <3>1 DEF WireInOrder
    <2>3. ASSUME NEW j \in 1 .. Len(delivered'[v]), NEW k \in 1 .. Len(wire'), wire'[k].message.from = v
          PROVE  delivered'[v][j].number < wire'[k].message.number
      <3>1. wire'[k] = wire[k + 1] /\ k + 1 \in 1 .. Len(wire) /\ 1 < k + 1
        BY <1>1, <1>2
      <3>2. CASE j \in 1 .. Len(delivered[v]) /\ delivered'[v][j] = delivered[v][j]
        BY <2>3, <3>1, <3>2 DEF WireInOrder
      <3>3. CASE v = m.from /\ delivered'[v][j] = m
        BY <1>3, <2>3, <3>1, <3>3 DEF WireInOrder, m
      <3> QED BY <1>10, <3>2, <3>3
    <2> QED BY <2>1, <2>2, <2>3
  <1> QED BY <1>1, <1>8, <1>11, <1>12, <1>13

(* A packet names the vc of the message it carries, or its connection serves no    *)
(* other.                                                                         *)
LEMMA NamedIs ==
  ASSUME Assumptions, PipelineType, NamedOk, wire # <<>>, NEW v \in Pipeline!Named(Head(wire))
  PROVE  v = Head(wire).message.from
  <1>1. Head(wire) = wire[1] /\ 1 \in 1 .. Len(wire) /\ wire[1] \in Packet
    BY HeadTailProperties, LenProperties DEF PipelineType
  <1> DEFINE p == wire[1]
  <1>2. p.message.from \in MappedTo[p.line] /\ p.line \in Lines
    BY <1>1 DEF NamedOk, Packet
  <1>3. p.header = IF p.message.from \in Raw THEN None ELSE p.message.from
    BY <1>1 DEF NamedOk
  <1> HIDE DEF p
  <1>4. CASE \E w \in MappedTo[p.line] : w \in Raw
    <2>1. v \in MappedTo[p.line]
      BY <1>1, <1>4 DEF Pipeline!Named, Pipeline!getVcMapping, p
    <2>2. PICK w : MappedTo[p.line] = {w}
      BY <1>2, <1>4, PipelineFacts
    <2> QED BY <1>1, <1>2, <2>1, <2>2 DEF p
  <1>5. CASE ~ \E w \in MappedTo[p.line] : w \in Raw
    <2>1. v = p.header
      BY <1>1, <1>5 DEF Pipeline!Named, Pipeline!getVcMapping, p
    <2> QED BY <1>1, <1>2, <1>3, <1>5, <2>1 DEF p
  <1> QED BY <1>4, <1>5

(* The parts that a step of the sending or the receiving PCS leaves as they are.    *)
LEMMA BehindKept ==
  ASSUME UNCHANGED <<wire, delivered>>
  PROVE  \A w, n : Behind(w, n)' = Behind(w, n)
  BY DEF Behind

LEMMA WireKept ==
  ASSUME NamedOk, WireInOrder, UNCHANGED <<wire, delivered>>
  PROVE  NamedOk' /\ WireInOrder'
  BY DEF NamedOk, WireInOrder, Pipeline!Cardinality, Pipeline!getTcMapping

LEMMA RingSame ==
  ASSUME UNCHANGED <<nextFree, nextMessage>>
  PROVE  \A k : Age(k)' = Age(k) /\ Readable' = Readable /\ CanBeRead(k)' = CanBeRead(k)
  BY DEF Age, Readable, CanBeRead

(* A message that is sent on, or arrives, changes only the wire and what is behind  *)
(* it: the others are where they were, and newer.                                  *)
LEMMA OthersWait ==
  ASSUME Assumptions, PipelineInv, UNCHANGED <<pmQueue, nextFree, nextMessage, reading>>,
         inbox' \in [Vcs -> Seq([number : Nat, converts : BOOLEAN])],
         written' \in [Vcs -> Nat] /\ locked' \in [Vcs -> Nat], InboxOk',
         \A v \in Vcs : Taken(v) <= Taken(v)' /\ Behind(v, Taken(v) + 1)',
         manager' \in {manager, None}, wire' \in Seq(Packet), delivered' \in [Vcs -> Seq(Message)],
         NamedOk', WireInOrder',
         \A k \in Pipeline!Slot : LET m == pmQueue[k] IN
            CanBeRead(k) /\ m # None /\ Behind(m.from, m.number) => Behind(m.from, m.number)',
         reading # None => LET m == pmQueue[reading.slot] IN
            m # None /\ Behind(m.from, m.number) => Behind(m.from, m.number)',
         manager' # None => LET m == manager.data IN Behind(m.from, m.number) => Behind(m.from, m.number)'
  PROVE  PipelineInv'
  <1>1. PipelineType'
    BY DEF PipelineInv, PipelineType, Pipeline!Slot
  <1>2. \A v \in Vcs, n \in Nat : n <= Taken(v) => n <= Taken(v)'
    BY DEF PipelineInv, InboxOk
  <1>3. AllTaken'
    BY DEF AllTaken
  <1>4. PmRingOk'
    <2>1. ASSUME NEW k \in Pipeline!Slot, pmQueue[k] # None
          PROVE  pmQueue[k].from \in Marked /\ pmQueue[k].number <= Taken(pmQueue[k].from)'
      <3>1. /\ pmQueue[k].from \in Marked /\ pmQueue[k].from \in Vcs /\ pmQueue[k].number \in Nat
            /\ pmQueue[k].number <= Taken(pmQueue[k].from)
        BY <2>1 DEF PipelineInv, PmRingOk, PipelineType, Message
      <3> QED BY <1>2, <3>1 DEF Taken
    <2>2. ASSUME NEW k \in Pipeline!Slot, CanBeRead(k)
          PROVE  pmQueue[k] # None /\ Behind(pmQueue[k].from, pmQueue[k].number)'
      BY <2>2 DEF PipelineInv, PmRingOk
    <2>3. \A k : Age(k)' = Age(k) /\ CanBeRead(k)' = CanBeRead(k)
      BY RingSame
    <2>4. \A j, k \in Pipeline!Slot : Age(j) < Age(k) /\ pmQueue[j] # None =>
            pmQueue[k] # None /\ pmQueue[j].number < pmQueue[k].number
      BY DEF PipelineInv, PmRingOk
    <2> QED BY <2>1, <2>2, <2>3, <2>4 DEF PmRingOk, Pipeline!Slot
  <1>5. ReadingOk'
    <2> SUFFICES ASSUME reading # None
                 PROVE  /\ manager' = None /\ reading.vc \in Marked /\ pmQueue[reading.slot] # None
                        /\ Age(reading.slot)' = PmSize - 1 - Readable'
                        /\ Behind(pmQueue[reading.slot].from, pmQueue[reading.slot].number)'
      BY DEF ReadingOk
    <2>1. Age(reading.slot)' = Age(reading.slot) /\ Readable' = Readable
      BY RingSame DEF Age
    <2> QED BY <2>1 DEF PipelineInv, ReadingOk
  <1>6. ManagerOk'
    <2> SUFFICES ASSUME manager' # None PROVE ManagerOk'
      BY DEF ManagerOk
    <2>1. manager' = manager
      OBVIOUS
    <2>2. /\ manager.vc \in Marked /\ manager.data.from \in Marked
          /\ manager.data.number <= Taken(manager.data.from)
          /\ Behind(manager.data.from, manager.data.number)
          /\ \A k \in Pipeline!Slot : CanBeRead(k) => manager.data.number < pmQueue[k].number
      BY <2>1 DEF PipelineInv, ManagerOk
    <2>3. Behind(manager.data.from, manager.data.number)'
      BY <2>1, <2>2
    <2>4. manager.data.number <= Taken(manager.data.from)'
      <3>1. manager.data.from \in Vcs /\ manager.data.number \in Nat
        BY <2>1 DEF PipelineInv, PipelineType, Message
      <3> QED BY <1>2, <2>1, <2>2, <3>1 DEF Taken
    <2>5. \A k : CanBeRead(k)' = CanBeRead(k)
      BY RingSame
    <2> QED BY <2>1, <2>2, <2>3, <2>4, <2>5 DEF ManagerOk, Pipeline!Slot
  <1> QED BY <1>1, <1>3, <1>4, <1>5, <1>6 DEF PipelineInv

LEMMA PipelineStutters ==
  ASSUME Assumptions, PipelineInv,
         UNCHANGED <<inbox, written, locked, pmQueue, nextFree, nextMessage, reading, manager, wire, delivered>>
  PROVE  PipelineInv'
  <1>1. PipelineType' /\ InboxOk'
    BY DEF PipelineInv, PipelineType, InboxOk, Taken, Pipeline!Slot
  <1>2. NamedOk' /\ WireInOrder' /\ \A w, n : Behind(w, n)' = Behind(w, n)
    BY WireKept, BehindKept DEF PipelineInv
  <1>3. \A v : Taken(v)' = Taken(v)
    BY DEF Taken
  <1>4. \A v \in Vcs : Taken(v) <= Taken(v)' /\ Behind(v, Taken(v) + 1)'
    BY <1>2, <1>3 DEF PipelineInv, InboxOk, AllTaken, Behind, Taken
  <1> QED BY <1>1, <1>2, <1>4, OthersWait DEF PipelineType

LEMMA Writing ==
  ASSUME Assumptions, PipelineInv, NEW v \in Vcs, Pipeline!Write(v)
  PROVE  PipelineInv'
  <1> DEFINE m == [number |-> written[v] + 1, converts |-> TRUE]
  <1>1. /\ inbox' = [inbox EXCEPT ![v] = Append(inbox[v], m)] /\ written' = [written EXCEPT ![v] = written[v] + 1]
        /\ UNCHANGED <<locked, pmQueue, nextFree, nextMessage, reading, manager, wire, delivered>>
    BY DEF Pipeline!Write, Pipeline!pm
  <1>2. /\ inbox \in [Vcs -> Seq([number : Nat, converts : BOOLEAN])]
        /\ written \in [Vcs -> Nat] /\ locked \in [Vcs -> Nat]
    BY DEF PipelineInv, PipelineType
  <1>3. m \in [number : Nat, converts : BOOLEAN]
    BY <1>2
  <1>4. /\ Append(inbox[v], m) \in Seq([number : Nat, converts : BOOLEAN])
        /\ Len(Append(inbox[v], m)) = Len(inbox[v]) + 1 /\ Len(inbox[v]) \in Nat
        /\ \A k \in 1 .. Len(inbox[v]) : Append(inbox[v], m)[k] = inbox[v][k]
        /\ Append(inbox[v], m)[Len(inbox[v]) + 1] = m
    BY <1>2, <1>3, AppendProperties, LenProperties
  <1>5. /\ inbox' \in [Vcs -> Seq([number : Nat, converts : BOOLEAN])]
        /\ written' \in [Vcs -> Nat] /\ locked' \in [Vcs -> Nat]
    BY <1>1, <1>2, <1>4
  <1> HIDE DEF m
  <1>6. ASSUME NEW w \in Vcs PROVE Taken(w)' = Taken(w)
    <2>1. CASE w = v
      <3>1. inbox'[w] = Append(inbox[v], m) /\ written'[w] = written[v] + 1
        BY <1>1, <1>2, <2>1
      <3> QED BY <1>2, <1>4, <2>1, <3>1 DEF Taken
    <2>2. CASE w # v
      BY <1>1, <1>2, <2>2 DEF Taken
    <2> QED BY <2>1, <2>2
  <1>7. InboxOk'
    <2> SUFFICES ASSUME NEW w \in Vcs
                 PROVE  /\ Taken(w) \in Nat /\ locked'[w] = 0
                        /\ \A k \in 1 .. Len(inbox'[w]) :
                              inbox'[w][k].number = Taken(w) + k /\ inbox'[w][k].converts
      BY <1>6 DEF InboxOk
    <2>1. Taken(w) \in Nat /\ locked[w] = 0 /\ \A k \in 1 .. Len(inbox[w]) :
             inbox[w][k].number = Taken(w) + k /\ inbox[w][k].converts
      BY DEF PipelineInv, InboxOk
    <2>2. CASE w = v
      <3>1. inbox'[w] = Append(inbox[v], m)
        BY <1>1, <1>2, <2>2
      <3>2. ASSUME NEW k \in 1 .. Len(inbox'[w])
            PROVE  inbox'[w][k].number = Taken(w) + k /\ inbox'[w][k].converts
        <4>1. CASE k \in 1 .. Len(inbox[v])
          <5>1. inbox'[w][k] = inbox[v][k]
            BY <1>4, <3>1, <4>1
          <5>2. k \in 1 .. Len(inbox[w])
            BY <2>2, <4>1
          <5>3. inbox[w][k].number = Taken(w) + k /\ inbox[w][k].converts
            BY <2>1, <5>2
          <5>4. inbox'[w][k] = inbox[w][k]
            BY <2>2, <5>1
          <5> QED BY <5>3, <5>4
        <4>2. CASE k = Len(inbox[v]) + 1
          <5>1. inbox'[w][k] = m
            BY <1>4, <3>1, <4>2
          <5>2. m.number = written[v] + 1 /\ m.converts
            BY DEF m
          <5>3. Taken(w) + k = written[v] + 1
            BY <1>2, <1>4, <2>2, <4>2 DEF Taken
          <5> QED BY <5>1, <5>2, <5>3
        <4> QED BY <1>4, <3>1, <4>1, <4>2
      <3> QED BY <1>1, <2>1, <3>2
    <2>3. CASE w # v
      BY <1>1, <1>2, <2>1, <2>3
    <2> QED BY <2>2, <2>3
  <1>8. NamedOk' /\ WireInOrder' /\ \A w, n : Behind(w, n)' = Behind(w, n)
    BY <1>1, WireKept, BehindKept DEF PipelineInv
  <1>9. ASSUME NEW w \in Vcs PROVE Taken(w) <= Taken(w)' /\ Behind(w, Taken(w) + 1)'
    <2>1. Taken(w) \in Nat /\ Behind(w, Taken(w) + 1)
      BY DEF PipelineInv, InboxOk, AllTaken
    <2> QED BY <1>1, <1>6, <2>1 DEF Behind
  <1>10. LET b == pmQueue IN b' = b
    BY <1>1
  <1>11. wire' \in Seq(Packet) /\ delivered' \in [Vcs -> Seq(Message)]
    BY <1>1 DEF PipelineInv, PipelineType
  <1> QED BY <1>1, <1>5, <1>7, <1>8, <1>9, <1>11, OthersWait

(* What the listener takes out of the local vc.                                    *)
LEMMA TakenOutIs ==
  ASSUME Assumptions, PipelineInv, NEW v \in Vcs, inbox[v] # <<>>, inbox' = [inbox EXCEPT ![v] = Tail(inbox[v])],
         locked' = locked, written' = written
  PROVE  /\ inbox' \in [Vcs -> Seq([number : Nat, converts : BOOLEAN])]
         /\ InboxOk' /\ Taken(v) \in Nat /\ Taken(v)' = Taken(v) + 1
         /\ \A w \in Vcs : w # v => Taken(w)' = Taken(w)
         /\ Head(inbox[v]).number = Taken(v) + 1 /\ Head(inbox[v]).converts
  <1>1. /\ inbox \in [Vcs -> Seq([number : Nat, converts : BOOLEAN])]
        /\ written \in [Vcs -> Nat] /\ locked \in [Vcs -> Nat]
    BY DEF PipelineInv, PipelineType
  <1>2. /\ Tail(inbox[v]) \in Seq([number : Nat, converts : BOOLEAN])
        /\ Len(Tail(inbox[v])) = Len(inbox[v]) - 1 /\ Len(inbox[v]) \in Nat
        /\ \A k \in 1 .. Len(Tail(inbox[v])) : Tail(inbox[v])[k] = inbox[v][k + 1]
    BY <1>1, HeadTailProperties, LenProperties
  <1>3. Head(inbox[v]) = inbox[v][1] /\ 1 \in 1 .. Len(inbox[v])
    BY <1>1, <1>2
  <1>4. inbox'[v] = Tail(inbox[v]) /\ \A w \in Vcs : w # v => inbox'[w] = inbox[w]
    BY <1>1
  <1>5. \A w \in Vcs : /\ Taken(w) \in Nat /\ locked[w] = 0
                       /\ \A k \in 1 .. Len(inbox[w]) : inbox[w][k].number = Taken(w) + k /\ inbox[w][k].converts
    BY DEF PipelineInv, InboxOk
  <1>6. Taken(v)' = Taken(v) + 1
    BY <1>1, <1>2, <1>4 DEF Taken
  <1>7. \A w \in Vcs : w # v => Taken(w)' = Taken(w)
    BY <1>4 DEF Taken
  <1>8. InboxOk'
    <2> SUFFICES ASSUME NEW w \in Vcs
                 PROVE  /\ Taken(w)' \in Nat /\ locked'[w] = 0
                        /\ \A k \in 1 .. Len(inbox'[w]) :
                              inbox'[w][k].number = Taken(w)' + k /\ inbox'[w][k].converts
      BY DEF InboxOk
    <2>1. CASE w = v
      <3>1. ASSUME NEW k \in 1 .. Len(inbox'[w])
            PROVE  inbox'[w][k].number = Taken(w)' + k /\ inbox'[w][k].converts
        <4>1. k + 1 \in 1 .. Len(inbox[v]) /\ inbox'[w][k] = inbox[v][k + 1]
          <5>1. k \in 1 .. Len(Tail(inbox[v])) /\ inbox'[w] = Tail(inbox[v])
            BY <1>4, <2>1
          <5>2. k + 1 \in 1 .. Len(inbox[v])
            BY <1>2, <5>1
          <5> QED BY <1>2, <5>1, <5>2
        <4>2. inbox[v][k + 1].number = Taken(v) + (k + 1) /\ inbox[v][k + 1].converts
          BY <1>5, <4>1
        <4> QED BY <1>5, <1>6, <2>1, <4>1, <4>2
      <3> QED BY <1>5, <1>6, <2>1, <3>1
    <2>2. CASE w # v
      BY <1>4, <1>5, <1>7, <2>2
    <2> QED BY <2>1, <2>2
  <1> QED BY <1>1, <1>2, <1>3, <1>5, <1>6, <1>7, <1>8

LEMMA Listening ==
  ASSUME Assumptions, OneMarked, PipelineInv, NEW v \in Vcs, Pipeline!listen(v)
  PROVE  PipelineInv'
  <1> USE PipelineFacts
  <1>1. PICK m \in Message : m = [from |-> v, number |-> Taken(v) + 1]
    <2>1. Taken(v) \in Nat
      BY DEF PipelineInv, InboxOk
    <2>2. Taken(v) + 1 \in Nat
      BY <2>1
    <2>3. [from |-> v, number |-> Taken(v) + 1] \in Message
      BY <2>2 DEF Message
    <2> QED BY <2>3
  <1>2. /\ inbox[v] # <<>> /\ inbox' = [inbox EXCEPT ![v] = Tail(inbox[v])]
        /\ UNCHANGED <<written, reading, manager, delivered>>
    BY DEF Pipeline!listen
  <1>3. Head(inbox[v]).number = Taken(v) + 1 /\ Head(inbox[v]).converts
    <2>1. /\ inbox[v] \in Seq([number : Nat, converts : BOOLEAN]) /\ 1 \in 1 .. Len(inbox[v])
          /\ Head(inbox[v]) = inbox[v][1]
      BY <1>2, HeadTailProperties, LenProperties DEF PipelineInv, PipelineType
    <2> QED BY <2>1 DEF PipelineInv, InboxOk
  <1>4. locked' = locked
    BY <1>3 DEF Pipeline!listen, Pipeline!LockedAfter, Pipeline!MarshallingFilter, PipelineInv, PipelineType
  <1>5. /\ inbox' \in [Vcs -> Seq([number : Nat, converts : BOOLEAN])] /\ InboxOk'
        /\ Taken(v) \in Nat /\ Taken(v)' = Taken(v) + 1
        /\ \A w \in Vcs : w # v => Taken(w)' = Taken(w)
    BY <1>2, <1>4, TakenOutIs
  <1>6. /\ \A w \in Vcs : Taken(w) \in Nat /\ Behind(w, Taken(w) + 1)
        /\ written' \in [Vcs -> Nat] /\ locked' \in [Vcs -> Nat]
    BY <1>2, <1>4 DEF PipelineInv, PipelineType, InboxOk, AllTaken
  <1>7. Pipeline!OutgoingPmFilter(v, m)
    BY <1>1, <1>3 DEF Pipeline!listen, Pipeline!MarshallingFilter
  <1>8. CASE v \notin Marked
    <2>1. Pipeline!VcTcSwitch(m.from, m) /\ UNCHANGED <<pmQueue, nextFree, nextMessage>>
      BY <1>1, <1>7, <1>8 DEF Pipeline!OutgoingPmFilter, Pipeline!pm
    <2>2. /\ wire' \in Seq(Packet) /\ NamedOk' /\ WireInOrder'
          /\ \A w \in Vcs, n \in Nat : Behind(w, n) /\ (w = v => Taken(v) + 1 < n) => Behind(w, n)'
      BY <1>1, <1>2, <1>6, <2>1, WireGrows DEF PipelineInv
    <2>3. ASSUME NEW w \in Vcs PROVE Taken(w) <= Taken(w)' /\ Behind(w, Taken(w) + 1)'
      <3>1. PICK n \in Nat : n = Taken(w)' + 1
        <4>1. Taken(w)' \in Nat
          BY <1>5 DEF InboxOk
        <4> QED BY <4>1
      <3>2. Taken(w) <= Taken(w)' /\ Taken(w) + 1 <= n /\ (w = v => Taken(v) + 1 < n)
        <4>1. CASE w = v
          BY <1>5, <3>1, <4>1 DEF Taken
        <4>2. CASE w # v
          BY <1>5, <1>6, <3>1, <4>2
        <4> QED BY <4>1, <4>2
      <3>3. Behind(w, n)
        BY <1>6, <3>2, OlderIs DEF PipelineInv
      <3>4. Behind(w, n)'
        BY <2>2, <3>2, <3>3
      <3> QED BY <3>1, <3>2, <3>4 DEF Behind
    <2>4. \A w \in Marked, n \in Nat : Behind(w, n) => Behind(w, n)'
      BY <1>8, <2>2
    <2>5. \A k \in Pipeline!Slot : pmQueue[k] # None => pmQueue[k].from \in Marked /\ pmQueue[k].number \in Nat
      BY DEF PipelineInv, PipelineType, PmRingOk, Message
    <2>6. \A k \in Pipeline!Slot : pmQueue[k] # None =>
             (Behind(pmQueue[k].from, pmQueue[k].number) => Behind(pmQueue[k].from, pmQueue[k].number)')
      <3> SUFFICES ASSUME NEW k \in Pipeline!Slot, pmQueue[k] # None, Behind(pmQueue[k].from, pmQueue[k].number)
                   PROVE  Behind(pmQueue[k].from, pmQueue[k].number)'
        OBVIOUS
      <3>1. PICK w \in Marked, n \in Nat : w = pmQueue[k].from /\ n = pmQueue[k].number
        BY <2>5
      <3>2. Behind(w, n)'
        BY <2>4, <3>1
      <3> QED BY <2>1, <3>1, <3>2 DEF Behind
    <2>7. reading # None => LET q == pmQueue[reading.slot] IN
            q # None /\ Behind(q.from, q.number) => Behind(q.from, q.number)'
      <3>1. reading # None => reading.slot \in Pipeline!Slot
        BY DEF PipelineInv, PipelineType
      <3> QED BY <1>2, <2>1, <2>6, <3>1 DEF Behind
    <2>8. manager' # None => LET q == manager.data IN Behind(q.from, q.number) => Behind(q.from, q.number)'
      <3> SUFFICES ASSUME manager # None, Behind(manager.data.from, manager.data.number)
                   PROVE  Behind(manager.data.from, manager.data.number)'
        BY <1>2
      <3>1. PICK w \in Marked, n \in Nat : w = manager.data.from /\ n = manager.data.number
        BY DEF PipelineInv, PipelineType, ManagerOk, Message
      <3>2. Behind(w, n)'
        BY <2>4, <3>1
      <3> QED BY <1>2, <3>1, <3>2 DEF Behind
    <2>9. manager' \in {manager, None} /\ delivered' \in [Vcs -> Seq(Message)]
      BY <1>2 DEF PipelineInv, PipelineType
    <2> QED BY <1>2, <1>5, <1>6, <2>1, <2>2, <2>3, <2>6, <2>7, <2>8, <2>9, OthersWait
  <1>9. CASE v \in Marked
    <2>1. /\ pmQueue' = [pmQueue EXCEPT ![nextFree] = m] /\ nextFree' = (nextFree + 1) % PmSize
          /\ nextMessage' = nextMessage /\ wire' = wire
      BY <1>7, <1>9 DEF Pipeline!OutgoingPmFilter, Pipeline!enqueueMessage
    <2>2. PipelineType
      BY DEF PipelineInv
    <2>3. /\ pmQueue' \in [Pipeline!Slot -> Message \cup {None}] /\ pmQueue'[nextFree] = m
          /\ \A k \in Pipeline!Slot : k # nextFree => pmQueue'[k] = pmQueue[k]
      BY <2>1, <2>2 DEF PipelineType
    <2>4. /\ nextFree \in Pipeline!Slot /\ nextFree' \in Pipeline!Slot
          /\ \A k \in Pipeline!Slot : Age(k)' = IF k = nextFree THEN PmSize - 1 ELSE Age(k) - 1
          /\ Readable' = IF Readable = PmSize - 1 THEN 0 ELSE Readable + 1
      BY <2>1, <2>2, AgesGrow DEF PipelineType
    <2>5. /\ \A k \in Pipeline!Slot : Age(k) \in 0 .. PmSize - 1
          /\ \A j, k \in Pipeline!Slot : Age(j) = Age(k) => j = k
          /\ Age(nextFree) = 0 /\ Readable \in 0 .. PmSize - 1
      BY <2>2, AgesAre DEF PipelineType
    <2>6. PipelineType'
      BY <1>2, <1>5, <1>6, <2>1, <2>2, <2>3, <2>4 DEF PipelineType, Pipeline!Slot
    <2>7. NamedOk' /\ WireInOrder' /\ \A w, n : Behind(w, n)' = Behind(w, n)
      BY <1>2, <2>1, WireKept, BehindKept DEF PipelineInv
    <2>8. AllTaken'
      <3> SUFFICES ASSUME NEW w \in Vcs PROVE Behind(w, Taken(w) + 1)'
        BY DEF AllTaken
      <3>1. PICK n \in Nat : n = Taken(w)' + 1 /\ Taken(w) + 1 <= n
        <4>1. Taken(w)' \in Nat
          BY <1>5 DEF InboxOk
        <4>2. Taken(w) <= Taken(w)'
          <5>1. CASE w = v
            BY <1>5, <5>1 DEF Taken
          <5>2. CASE w # v
            BY <1>5, <1>6, <5>2
          <5> QED BY <5>1, <5>2
        <4> QED BY <1>6, <4>1, <4>2
      <3>2. Behind(w, n)
        BY <1>6, <2>2, <3>1, OlderIs
      <3>3. Behind(w, n)'
        BY <2>7, <3>2
      <3> QED BY <3>1, <3>3 DEF Behind
    <2>9. /\ m.from = v /\ m.number = Taken(v) + 1 /\ Behind(m.from, m.number)
      BY <1>1, <1>6
    <2>10. \A k \in Pipeline!Slot : pmQueue[k] # None =>
              pmQueue[k].from = v /\ pmQueue[k].number \in Nat /\ pmQueue[k].number < m.number
      <3> SUFFICES ASSUME NEW k \in Pipeline!Slot, pmQueue[k] # None
                   PROVE  pmQueue[k].from = v /\ pmQueue[k].number \in Nat /\ pmQueue[k].number < m.number
        OBVIOUS
      <3>1. pmQueue[k].number \in Nat
        BY <2>2 DEF PipelineType, Message
      <3>2. pmQueue[k].from \in Marked /\ pmQueue[k].number <= Taken(pmQueue[k].from)
        BY DEF PipelineInv, PmRingOk
      <3>3. pmQueue[k].from = v
        BY <1>9, <3>2 DEF OneMarked
      <3> QED BY <1>5, <2>9, <3>1, <3>2, <3>3
    <2>11. PmRingOk'
      <3>1. ASSUME NEW k \in Pipeline!Slot, pmQueue'[k] # None
            PROVE  pmQueue'[k].from = v /\ pmQueue'[k].number <= Taken(v)'
        <4>1. CASE k = nextFree
          BY <1>5, <2>3, <2>9, <4>1
        <4>2. CASE k # nextFree
          BY <1>5, <2>3, <2>9, <2>10, <3>1, <4>2
        <4> QED BY <4>1, <4>2
      <3>2. \A k \in Pipeline!Slot : pmQueue'[k] # None =>
              pmQueue'[k].from \in Marked /\ pmQueue'[k].number <= Taken(pmQueue[k].from)'
        BY <1>9, <3>1 DEF Taken
      <3>3. ASSUME NEW j \in Pipeline!Slot, NEW k \in Pipeline!Slot, Age(j)' < Age(k)', pmQueue'[j] # None
            PROVE  pmQueue'[k] # None /\ pmQueue'[j].number < pmQueue'[k].number
        <4>1. j # nextFree
          <5>1. Age(k)' <= PmSize - 1
            BY <2>4, <2>5
          <5>2. Age(nextFree)' = Age(nextFree)' /\ (j = nextFree => Age(j)' = PmSize - 1)
            BY <2>4
          <5> QED BY <2>4, <2>5, <3>3, <5>1, <5>2
        <4>2. pmQueue'[j] = pmQueue[j] /\ pmQueue[j] # None
          BY <2>3, <3>3, <4>1
        <4>3. CASE k = nextFree
          BY <2>3, <2>10, <4>2, <4>3
        <4>4. CASE k # nextFree
          <5>1. Age(j) < Age(k)
            BY <2>4, <2>5, <3>3, <4>1, <4>4
          <5>2. pmQueue[k] # None /\ pmQueue[j].number < pmQueue[k].number
            BY <4>2, <5>1 DEF PipelineInv, PmRingOk
          <5> QED BY <2>3, <4>2, <4>4, <5>2
        <4> QED BY <4>3, <4>4
      <3>4. ASSUME NEW k \in Pipeline!Slot, CanBeRead(k)'
            PROVE  pmQueue'[k] # None /\ Behind(pmQueue[k].from, pmQueue[k].number)'
        <4>1. pmQueue'[k] # None /\ Behind(pmQueue'[k].from, pmQueue'[k].number)
          <5>1. CASE k = nextFree
            BY <2>3, <2>9, <5>1
          <5>2. CASE k # nextFree
            <6>1. CanBeRead(k)
              BY <2>4, <2>5, <3>4, <5>2 DEF CanBeRead
            <6>2. pmQueue[k] # None /\ Behind(pmQueue[k].from, pmQueue[k].number)
              BY <6>1 DEF PipelineInv, PmRingOk
            <6> QED BY <2>3, <5>2, <6>2
          <5> QED BY <5>1, <5>2
        <4> QED BY <1>2, <2>1, <4>1 DEF Behind
      <3> QED BY <3>2, <3>3, <3>4 DEF PmRingOk, Pipeline!Slot
    <2>12. ReadingOk'
      <3> SUFFICES ASSUME reading # None
                   PROVE  /\ manager' = None /\ reading.vc \in Marked /\ pmQueue'[reading.slot] # None
                          /\ Age(reading.slot)' = PmSize - 1 - Readable'
                          /\ Behind(pmQueue[reading.slot].from, pmQueue[reading.slot].number)'
        BY <1>2 DEF ReadingOk
      <3>1. PICK k \in Pipeline!Slot : k = reading.slot
        BY <2>2 DEF PipelineType
      <3>2. /\ manager = None /\ reading.vc \in Marked /\ pmQueue[k] # None
            /\ Age(k) = PmSize - 1 - Readable /\ Behind(pmQueue[k].from, pmQueue[k].number)
        BY <3>1 DEF PipelineInv, ReadingOk
      <3>3. Age(k)' = PmSize - 1 - Readable'
        <4>1. CASE k = nextFree
          BY <2>4, <2>5, <3>2, <4>1
        <4>2. CASE k # nextFree
          BY <2>4, <2>5, <3>2, <4>2
        <4> QED BY <4>1, <4>2
      <3>4. pmQueue'[k] # None /\ Behind(pmQueue'[k].from, pmQueue'[k].number)
        BY <2>3, <2>9, <3>2
      <3>5. Age(reading.slot)' = Age(k)'
        BY <1>2, <3>1 DEF Age
      <3>6. Behind(pmQueue[reading.slot].from, pmQueue[reading.slot].number)'
        BY <1>2, <2>1, <3>1, <3>4 DEF Behind
      <3> QED BY <1>2, <3>1, <3>2, <3>3, <3>4, <3>5, <3>6
    <2>13. ManagerOk'
      <3> SUFFICES ASSUME manager # None PROVE ManagerOk'
        BY <1>2 DEF ManagerOk
      <3>1. PICK d \in Message : d = manager.data
        BY <2>2 DEF PipelineType
      <3>2. /\ manager.vc \in Marked /\ d.from = v /\ d.number \in Nat /\ d.number <= Taken(v) /\ Behind(d.from, d.number)
            /\ \A k \in Pipeline!Slot : CanBeRead(k) => d.number < pmQueue[k].number
        BY <1>9, <3>1 DEF PipelineInv, ManagerOk, OneMarked, Message
      <3>3. Behind(manager.data.from, manager.data.number)'
        BY <1>2, <2>1, <3>1, <3>2 DEF Behind
      <3>4. manager.data.number <= Taken(manager.data.from)'
        BY <1>2, <1>5, <3>1, <3>2 DEF Taken
      <3>5. ASSUME NEW k \in Pipeline!Slot, CanBeRead(k)' PROVE d.number < pmQueue'[k].number
        <4>1. CASE k = nextFree
          BY <1>5, <2>3, <2>9, <3>2, <4>1
        <4>2. CASE k # nextFree
          <5>1. CanBeRead(k)
            BY <2>4, <2>5, <3>5, <4>2 DEF CanBeRead
          <5> QED BY <2>3, <3>2, <4>2, <5>1
        <4> QED BY <4>1, <4>2
      <3> QED BY <1>2, <1>9, <3>1, <3>2, <3>3, <3>4, <3>5 DEF ManagerOk, Pipeline!Slot
    <2> QED BY <1>5, <2>6, <2>7, <2>8, <2>11, <2>12, <2>13 DEF PipelineInv
  <1> QED BY <1>8, <1>9

LEMMA MessageIsRead ==
  ASSUME Assumptions, PipelineInv, Pipeline!getMessage
  PROVE  PipelineInv'
  <1> USE PipelineFacts
  <1>1. /\ reading = None /\ manager = None /\ nextFree # nextMessage /\ nextFree' = nextFree
        /\ nextMessage' = (nextMessage + 1) % PmSize
        /\ UNCHANGED <<inbox, written, locked, pmQueue, manager, wire, delivered>>
    BY DEF Pipeline!getMessage, Pipeline!local
  <1>2. PipelineType
    BY DEF PipelineInv
  <1>3. /\ nextMessage \in Pipeline!Slot /\ nextMessage' \in Pipeline!Slot /\ Age(nextMessage) = PmSize - Readable
        /\ \A k \in Pipeline!Slot : Age(k)' = Age(k)
        /\ Readable' = Readable - 1 /\ Readable \in 0 .. PmSize - 1
        /\ \A k \in Pipeline!Slot : Age(k) \in 0 .. PmSize - 1
    BY <1>1, <1>2, OneIsRead, AgesAre DEF PipelineType
  <1>4. PICK s \in Pipeline!Slot : s = nextMessage
    BY <1>3
  <1>5. pmQueue[s] # None /\ pmQueue[s].from \in Marked /\ Behind(pmQueue[s].from, pmQueue[s].number)
    <2>1. CanBeRead(s)
      BY <1>3, <1>4 DEF CanBeRead
    <2> QED BY <2>1 DEF PipelineInv, PmRingOk
  <1>6. reading' = [vc |-> pmQueue[s].from, slot |-> s]
    BY <1>4 DEF Pipeline!getMessage
  <1>7. PipelineType'
    <2>1. reading' \in [vc : Vcs, slot : Pipeline!Slot]
      BY <1>5, <1>6
    <2> QED BY <1>1, <1>2, <1>3, <2>1 DEF PipelineType, Pipeline!Slot
  <1>8. NamedOk' /\ WireInOrder' /\ \A w, n : Behind(w, n)' = Behind(w, n)
    BY <1>1, WireKept, BehindKept DEF PipelineInv
  <1>9. InboxOk' /\ AllTaken'
    BY <1>1 DEF PipelineInv, InboxOk, AllTaken, Taken, Behind
  <1>10. \A k \in Pipeline!Slot : CanBeRead(k)' => CanBeRead(k)
    BY <1>3 DEF CanBeRead
  <1>11. PmRingOk'
    <2>1. \A k \in Pipeline!Slot : pmQueue[k] # None =>
            pmQueue[k].from \in Marked /\ pmQueue[k].number <= Taken(pmQueue[k].from)'
      BY <1>1 DEF PipelineInv, PmRingOk, Taken
    <2>2. \A k \in Pipeline!Slot : CanBeRead(k)' =>
            pmQueue[k] # None /\ Behind(pmQueue[k].from, pmQueue[k].number)'
      <3>1. \A k \in Pipeline!Slot : CanBeRead(k)' =>
              pmQueue[k] # None /\ Behind(pmQueue[k].from, pmQueue[k].number)
        BY <1>10 DEF PipelineInv, PmRingOk
      <3> QED BY <1>1, <3>1 DEF Behind
    <2>3. \A j, k \in Pipeline!Slot : Age(j) < Age(k) /\ pmQueue[j] # None =>
            pmQueue[k] # None /\ pmQueue[j].number < pmQueue[k].number
      BY DEF PipelineInv, PmRingOk
    <2> QED BY <1>1, <1>3, <2>1, <2>2, <2>3 DEF PmRingOk, Pipeline!Slot
  <1>12. ReadingOk'
    <2>1. reading'.slot = s /\ reading'.vc = pmQueue[s].from
      BY <1>6
    <2>2. Age(s)' = PmSize - 1 - Readable'
      BY <1>3, <1>4
    <2>3. Age(reading.slot)' = Age(s)'
      BY <2>1 DEF Age
    <2>4. Behind(pmQueue[reading.slot].from, pmQueue[reading.slot].number)'
      BY <1>1, <1>5, <2>1 DEF Behind
    <2> QED BY <1>1, <1>5, <2>1, <2>2, <2>3, <2>4 DEF ReadingOk
  <1>13. ManagerOk'
    BY <1>1 DEF ManagerOk
  <1> QED BY <1>7, <1>8, <1>9, <1>11, <1>12, <1>13 DEF PipelineInv

LEMMA MessageIsHandedOut ==
  ASSUME Assumptions, PipelineInv, NEW passed \in BOOLEAN, Pipeline!getPMData(passed)
  PROVE  PipelineInv'
  <1> USE PipelineFacts
  <1>1. /\ reading # None /\ reading' = None
        /\ UNCHANGED <<inbox, written, locked, pmQueue, nextFree, nextMessage, wire, delivered>>
    BY DEF Pipeline!getPMData, Pipeline!local, Pipeline!pm
  <1>2. PipelineType
    BY DEF PipelineInv
  <1>3. PICK s \in Pipeline!Slot, v \in Vcs : s = reading.slot /\ v = reading.vc
    BY <1>1, <1>2 DEF PipelineType
  <1>4. /\ manager = None /\ v \in Marked /\ pmQueue[s] # None /\ Age(s) = PmSize - 1 - Readable
        /\ Behind(pmQueue[s].from, pmQueue[s].number)
    BY <1>1, <1>3 DEF PipelineInv, ReadingOk
  <1>5. /\ pmQueue[s] \in Message /\ pmQueue[s].from \in Marked /\ pmQueue[s].number <= Taken(pmQueue[s].from)
    BY <1>2, <1>4 DEF PipelineInv, PipelineType, PmRingOk
  <1>6. manager' = [vc |-> v, data |-> pmQueue[s]] \/ manager' = None
    BY <1>3 DEF Pipeline!getPMData
  <1>7. PipelineType'
    <2>1. manager' \in [vc : Vcs, data : Message] \cup {None}
      BY <1>5, <1>6
    <2> QED BY <1>1, <1>2, <2>1 DEF PipelineType, Pipeline!Slot
  <1>8. NamedOk' /\ WireInOrder' /\ \A w, n : Behind(w, n)' = Behind(w, n)
    BY <1>1, WireKept, BehindKept DEF PipelineInv
  <1>9. InboxOk' /\ AllTaken'
    BY <1>1 DEF PipelineInv, InboxOk, AllTaken, Taken, Behind
  <1>10. PmRingOk'
    <2>1. \A k : Age(k)' = Age(k) /\ CanBeRead(k)' = CanBeRead(k)
      BY <1>1, RingSame
    <2> QED BY <1>1, <2>1 DEF PipelineInv, PmRingOk, Taken, Behind, Pipeline!Slot
  <1>11. ReadingOk'
    BY <1>1 DEF ReadingOk
  <1>12. ManagerOk'
    <2> SUFFICES ASSUME manager' # None PROVE ManagerOk'
      BY DEF ManagerOk
    <2>1. manager'.vc = v /\ manager'.data = pmQueue[s]
      BY <1>6
    <2>2. ASSUME NEW k \in Pipeline!Slot, CanBeRead(k) PROVE pmQueue[s].number < pmQueue[k].number
      <3>1. Age(s) < Age(k)
        BY <1>2, <1>4, <2>2, AgesAre DEF CanBeRead, PipelineType
      <3> QED BY <1>4, <3>1 DEF PipelineInv, PmRingOk
    <2>3. \A k : CanBeRead(k)' = CanBeRead(k)
      BY <1>1, RingSame
    <2>4. manager'.data.number <= Taken(manager.data.from)' /\ Behind(manager.data.from, manager.data.number)'
      BY <1>1, <1>4, <1>5, <2>1 DEF Taken, Behind
    <2> QED BY <1>1, <1>4, <1>5, <2>1, <2>2, <2>3, <2>4 DEF ManagerOk, Pipeline!Slot
  <1> QED BY <1>7, <1>8, <1>9, <1>10, <1>11, <1>12 DEF PipelineInv

LEMMA MessageIsReturned ==
  ASSUME Assumptions, OneMarked, PipelineInv, Pipeline!returnPMData
  PROVE  PipelineInv'
  <1> USE PipelineFacts
  <1>1. /\ manager # None /\ manager' = None
        /\ UNCHANGED <<inbox, written, locked, pmQueue, nextFree, nextMessage, reading, delivered>>
    BY DEF Pipeline!returnPMData, Pipeline!local, Pipeline!pm
  <1>2. PICK m \in Message : m = manager.data
    BY <1>1 DEF PipelineInv, PipelineType
  <1>3. /\ m.from \in Marked /\ m.from \in Vcs /\ m.number \in Nat /\ m.from = manager.vc
        /\ m.number <= Taken(m.from) /\ Behind(m.from, m.number)
        /\ \A k \in Pipeline!Slot : CanBeRead(k) => m.number < pmQueue[k].number
    BY <1>1, <1>2 DEF PipelineInv, ManagerOk, OneMarked, Message
  <1>4. Pipeline!VcTcSwitch(m.from, m)
    BY <1>2, <1>3 DEF Pipeline!returnPMData, Pipeline!putMessage
  <1>5. /\ wire' \in Seq(Packet) /\ NamedOk' /\ WireInOrder'
        /\ \A w \in Vcs, n \in Nat : Behind(w, n) /\ (w = m.from => m.number < n) => Behind(w, n)'
    BY <1>1, <1>3, <1>4, WireGrows DEF PipelineInv
  <1>6. /\ inbox' \in [Vcs -> Seq([number : Nat, converts : BOOLEAN])] /\ InboxOk'
        /\ written' \in [Vcs -> Nat] /\ locked' \in [Vcs -> Nat] /\ delivered' \in [Vcs -> Seq(Message)]
    BY <1>1 DEF PipelineInv, PipelineType, InboxOk, Taken
  <1>7. ASSUME NEW w \in Vcs PROVE Taken(w) <= Taken(w)' /\ Behind(w, Taken(w) + 1)'
    <2>1. PICK n \in Nat : n = Taken(w) + 1
      BY DEF PipelineInv, InboxOk
    <2>2. Taken(w)' = Taken(w) /\ Taken(w) \in Nat
      BY <1>1 DEF Taken, PipelineInv, InboxOk
    <2>3. Behind(w, n) /\ (w = m.from => m.number < n)
      BY <1>3, <2>1, <2>2 DEF PipelineInv, AllTaken
    <2>4. Behind(w, n)'
      BY <1>5, <2>3
    <2> QED BY <2>1, <2>2, <2>4 DEF Behind
  <1>8. ASSUME NEW k \in Pipeline!Slot, CanBeRead(k), pmQueue[k] # None,
               Behind(pmQueue[k].from, pmQueue[k].number)
        PROVE  Behind(pmQueue[k].from, pmQueue[k].number)'
    <2>1. PICK w \in Vcs, n \in Nat : w = pmQueue[k].from /\ n = pmQueue[k].number
      BY <1>8 DEF PipelineInv, PipelineType, Message
    <2>2. Behind(w, n)'
      BY <1>3, <1>5, <1>8, <2>1
    <2> QED BY <1>1, <2>1, <2>2 DEF Behind
  <1>9. reading = None
    BY <1>1 DEF PipelineInv, ReadingOk
  <1> QED BY <1>1, <1>5, <1>6, <1>7, <1>8, <1>9, OthersWait

LEMMA PacketLeavesWire ==
  ASSUME Assumptions, PipelineInv, Pipeline!Lose \/ Pipeline!TcCallback
  PROVE  PipelineInv'
  <1> USE PipelineFacts
  <1>1. /\ wire # <<>> /\ wire' = Tail(wire)
        /\ UNCHANGED <<inbox, written, locked, pmQueue, nextFree, nextMessage, reading, manager>>
    BY DEF Pipeline!Lose, Pipeline!TcCallback, Pipeline!local, Pipeline!pm
  <1>2. delivered' = delivered \/ Arrived(Head(wire).message.from)
    <2>1. CASE Pipeline!Lose
      BY <2>1 DEF Pipeline!Lose
    <2>2. CASE Pipeline!TcCallback
      <3>1. \/ delivered' = delivered
            \/ \E v \in Pipeline!Named(Head(wire)) : Pipeline!GlobalVcSender(v, Head(wire))
        BY <2>2 DEF Pipeline!TcCallback, Pipeline!TcListener
      <3> QED BY <1>1, <3>1, NamedIs DEF PipelineInv, Pipeline!GlobalVcSender, Arrived
    <2> QED BY <2>1, <2>2
  <1>3. /\ wire' \in Seq(Packet) /\ delivered' \in [Vcs -> Seq(Message)] /\ NamedOk' /\ WireInOrder'
        /\ \A w \in Vcs, n \in Nat : Behind(w, n) => Behind(w, n)'
    BY <1>1, <1>2, WireShrinks DEF PipelineInv
  <1>4. /\ inbox' \in [Vcs -> Seq([number : Nat, converts : BOOLEAN])] /\ InboxOk'
        /\ written' \in [Vcs -> Nat] /\ locked' \in [Vcs -> Nat]
    BY <1>1 DEF PipelineInv, PipelineType, InboxOk, Taken
  <1>5. ASSUME NEW w \in Vcs PROVE Taken(w) <= Taken(w)' /\ Behind(w, Taken(w) + 1)'
    <2>1. PICK n \in Nat : n = Taken(w) + 1
      BY DEF PipelineInv, InboxOk
    <2>2. Taken(w)' = Taken(w) /\ Taken(w) \in Nat
      BY <1>1 DEF Taken, PipelineInv, InboxOk
    <2>3. Behind(w, n)'
      BY <1>3, <2>1 DEF PipelineInv, AllTaken
    <2> QED BY <2>1, <2>2, <2>3 DEF Behind
  <1>6. ASSUME NEW m \in Message, Behind(m.from, m.number) PROVE Behind(m.from, m.number)'
    <2>1. m.from \in Vcs /\ m.number \in Nat
      BY DEF Message
    <2> QED BY <1>3, <1>6, <2>1
  <1>7. ASSUME NEW k \in Pipeline!Slot, pmQueue[k] # None, Behind(pmQueue[k].from, pmQueue[k].number)
        PROVE  Behind(pmQueue[k].from, pmQueue[k].number)'
    <2>1. PICK m \in Message : m = pmQueue[k]
      BY <1>7 DEF PipelineInv, PipelineType
    <2>2. Behind(m.from, m.number)'
      BY <1>6, <1>7, <2>1
    <2> QED BY <1>1, <2>1, <2>2 DEF Behind
  <1>8. reading # None => LET q == pmQueue[reading.slot] IN
          q # None /\ Behind(q.from, q.number) => Behind(q.from, q.number)'
    <2>1. reading # None => reading.slot \in Pipeline!Slot
      BY DEF PipelineInv, PipelineType
    <2> QED BY <1>1, <1>7, <2>1 DEF Behind
  <1>9. manager' # None => LET q == manager.data IN Behind(q.from, q.number) => Behind(q.from, q.number)'
    <2> SUFFICES ASSUME manager # None, Behind(manager.data.from, manager.data.number)
                 PROVE  Behind(manager.data.from, manager.data.number)'
      BY <1>1
    <2>1. PICK m \in Message : m = manager.data
      BY DEF PipelineInv, PipelineType
    <2>2. Behind(m.from, m.number)'
      BY <1>6, <2>1
    <2> QED BY <1>1, <2>1, <2>2 DEF Behind
  <1> QED BY <1>1, <1>3, <1>4, <1>5, <1>7, <1>8, <1>9, OthersWait

LEMMA PipelineStep ==
  ASSUME Assumptions, OneMarked, PipelineInv, [Pipeline!Next]_pipelineVars
  PROVE  PipelineInv'
  <1>1. CASE UNCHANGED pipelineVars
    BY <1>1, PipelineStutters DEF pipelineVars
  <1>2. CASE Pipeline!handleListenAttachedChannels
    BY <1>2, PipelineStutters DEF Pipeline!handleListenAttachedChannels, Pipeline!pm
  <1>3. ASSUME NEW v \in Vcs, Pipeline!Write(v) \/ Pipeline!listen(v) PROVE PipelineInv'
    BY <1>3, Writing, Listening
  <1>4. CASE Pipeline!getMessage \/ (\E s \in BOOLEAN : Pipeline!getPMData(s)) \/ Pipeline!returnPMData
    BY <1>4, MessageIsRead, MessageIsHandedOut, MessageIsReturned
  <1>5. CASE Pipeline!Lose \/ Pipeline!TcCallback
    BY <1>5, PacketLeavesWire
  <1> QED BY <1>1, <1>2, <1>3, <1>4, <1>5 DEF Pipeline!Next

(* PcsPipeline.ArrivesInOrder and PcsPipeline.BuffersReturned: what arrives at a   *)
(* vc was sent on it, in the order it was sent if the vc has one connection, for    *)
(* any number of vcs and connections, whatever the network loses and however often  *)
(* the ring for the security manager overflows, and the buffers of the local vcs    *)
(* are given back.  With a second marked vc this is not so: getMessage() hands out   *)
(* the vc and a pointer into the ring, where a message of the other vc may stand     *)
(* when it is sent.                                                                *)
THEOREM MessagesAreForwarded == OneMarked => (Spec => []ForwardsAll)
  <1> SUFFICES ASSUME OneMarked PROVE Spec => []ForwardsAll
    OBVIOUS
  <1>1. Init => PipelineInv
    BY PipelineInit, Assumptions DEF Init
  <1>2. PipelineInv /\ [Next]_vars => PipelineInv'
    <2> SUFFICES ASSUME PipelineInv, [Next]_vars PROVE PipelineInv'
      OBVIOUS
    <2>1. [Pipeline!Next]_pipelineVars
      BY DEF Next, vars, pcs
    <2> QED BY <2>1, PipelineStep, Assumptions
  <1>3. PipelineInv => ForwardsAll
    <2> SUFFICES ASSUME PipelineInv PROVE ForwardsAll
      OBVIOUS
    <2>1. Pipeline!BuffersReturned
      BY DEF PipelineInv, InboxOk, Pipeline!BuffersReturned
    <2>2. ASSUME NEW v \in Vcs
          PROVE  DOMAIN delivered[v] = 1 .. Len(delivered[v])
      BY LenProperties DEF PipelineInv, PipelineType
    <2>3. Pipeline!ArrivesInOrder
      BY <2>2 DEF PipelineInv, NamedOk, WireInOrder, Pipeline!ArrivesInOrder
    <2> QED BY <2>1, <2>3 DEF ForwardsAll
  <1> QED BY <1>1, <1>2, <1>3, PTL DEF Spec

(* GliNodes: how far both nodes are with the key exchange.                        *)
(*                                                                                *)
(* The operations of the exchange that a node has left, by their rank, are on its  *)
(* stack among those of other calls and of requests it answers.  The sub node has  *)
(* one exchange at a time, and the super node begins one only for a request that    *)
(* the sub node waits to have answered.                                           *)
ExchangeIds == {"Request_SC", "SC_Response", "SC_Rejected", "DH_Send_M", "DH_Send_X", "DH_Send_XimodM",
                "DH_Send_XjmodM"}
ExchangeSends(n) == IF n = "sub" THEN {"Request_SC", "DH_Send_M", "DH_Send_XimodM"}
            ELSE {"SC_Response", "SC_Rejected", "DH_Send_X", "DH_Send_XjmodM"}

(* Calls and replies have ids of their own, and the super node never sends a key.   *)
OfCalls == Nodes!OfSuper \cup Nodes!OfSub
OtherIds == {c.request : c \in OfCalls} \cup {c.reply : c \in OfCalls} \cup {"Request_Key", "Fault_Report"}
SentIds == ExchangeIds \cup OtherIds
Note == {m \in [id : SentIds, d : SentIds, from : Nodes!Node, number : Nat] : m.id \in ExchangeIds => m.d = m.id}
Operation(n) ==
    [do : {"drain", "draw", "key"}] \cup [do : {"await"}, id : SentIds \cup {"Send_Key"}]
    \cup {o \in [do : {"send"}, id : ExchangeSends(n) \cup OtherIds, d : SentIds] :
               o.id \in ExchangeSends(n) => o.d = o.id}
    \cup [do : {"catch"}, clears : BOOLEAN, rethrows : BOOLEAN]

SubRank(o) ==
    IF o.do = "send" THEN (IF o.id = "Request_SC" THEN 1 ELSE IF o.id = "DH_Send_XimodM" THEN 5 ELSE 0)
    ELSE IF o.do = "await" THEN
        (IF o.id = "SC_Response" THEN 2 ELSE IF o.id = "DH_Send_X" THEN 4
         ELSE IF o.id = "DH_Send_XjmodM" THEN 6 ELSE IF o.id = "Send_Key" THEN 8 ELSE 0)
    ELSE IF o.do = "draw" THEN 3 ELSE IF o.do = "key" THEN 7 ELSE 0

SuperRank(o) ==
    IF o.do = "send" THEN
        (IF o.id = "SC_Response" THEN 1 ELSE IF o.id = "DH_Send_XjmodM" THEN 6
         ELSE IF o.id = "SC_Rejected" THEN 7 ELSE 0)
    ELSE IF o.do = "await" THEN (IF o.id = "DH_Send_M" THEN 2 ELSE IF o.id = "DH_Send_XimodM" THEN 4 ELSE 0)
    ELSE IF o.do = "draw" THEN 3 ELSE IF o.do = "key" THEN 5 ELSE 0

Rank(n, o) == IF n = "sub" THEN SubRank(o) ELSE SuperRank(o)

(* The operations of the exchange on a stack are those of the ranks in S, in order. *)
LeftIs(n, s, S) ==
    /\ \A i \in 1 .. Len(s) : Rank(n, s[i]) # 0 => Rank(n, s[i]) \in S
    /\ \A r \in S : \E i \in 1 .. Len(s) : Rank(n, s[i]) = r
    /\ \A i, j \in 1 .. Len(s) :
        i < j /\ Rank(n, s[i]) # 0 /\ Rank(n, s[j]) # 0 => Rank(n, s[i]) < Rank(n, s[j])

(* A call is at the bottom of the stack, where all exceptions end; no handler is   *)
(* below the sub node's exchange but that of its call.                             *)
Handles(o) == o.do = "catch" /\ ~o.rethrows
End == [do |-> "catch", clears |-> FALSE, rethrows |-> FALSE]
Foreign(n, o) == o.do = "await" /\ Rank(n, o) = 0
StackOk(n, s) ==
    /\ s \in Seq(Operation(n))
    /\ s # <<>> => s[Len(s)] = End
    /\ \A i \in 1 .. Len(s) : Foreign(n, s[i]) => i = Len(s) - 1
    /\ n = "sub" => \A i, j \in 1 .. Len(s) : i < j /\ Rank(n, s[i]) # 0 /\ Handles(s[j]) => j = Len(s)

LEMMA Ranks ==
  ASSUME NEW n \in Nodes!Node, NEW o \in Operation(n)
  PROVE  /\ Rank(n, o) \in 0 .. 8
         /\ o.do \in {"drain", "draw", "key", "await", "send", "catch"}
         /\ o.do \in {"drain", "catch"} => Rank(n, o) = 0
  BY DEF Operation, Rank, SubRank, SuperRank

LEMMA IdsAre ==
  /\ OtherIds \cap (ExchangeIds \cup {"Send_Key"}) = {} /\ "Send_Key" \notin ExchangeIds
  /\ \A c \in OfCalls : c.request \in OtherIds /\ c.reply \in OtherIds
  /\ "Request_Key" \in OtherIds /\ "Fault_Report" \in OtherIds
  <1>1. ASSUME NEW c \in OfCalls
        PROVE  /\ c.request \notin ExchangeIds \cup {"Send_Key"}
               /\ c.reply \notin ExchangeIds \cup {"Send_Key"}
    BY DEF OfCalls, Nodes!OfSuper, Nodes!OfSub, ExchangeIds, Nodes!loadConfiguration, Nodes!stopConfiguration,
           Nodes!runConfiguration, Nodes!changeConfiguration, Nodes!getBITResult, Nodes!getAliveStatus,
           Nodes!allocateCFM, Nodes!deallocateCFM
  <1>2. "Request_Key" \notin ExchangeIds \cup {"Send_Key"} /\ "Fault_Report" \notin ExchangeIds \cup {"Send_Key"}
    BY DEF ExchangeIds
  <1>3. "Send_Key" \notin ExchangeIds
    BY DEF ExchangeIds
  <1> QED BY <1>1, <1>2, <1>3 DEF OtherIds

LEMMA OperationsAre ==
  ASSUME NEW n
  PROVE  /\ [do |-> "drain"] \in Operation(n) /\ [do |-> "draw"] \in Operation(n)
         /\ [do |-> "key"] \in Operation(n)
         /\ \A id \in SentIds \cup {"Send_Key"} : [do |-> "await", id |-> id] \in Operation(n)
         /\ \A id \in OtherIds, d \in SentIds :
              id \notin ExchangeSends(n) => [do |-> "send", id |-> id, d |-> d] \in Operation(n)
         /\ \A id \in ExchangeSends(n) : [do |-> "send", id |-> id, d |-> id] \in Operation(n)
         /\ \A c, r \in BOOLEAN : [do |-> "catch", clears |-> c, rethrows |-> r] \in Operation(n)
  <1>1. /\ [do |-> "drain"] \in Operation(n) /\ [do |-> "draw"] \in Operation(n)
        /\ [do |-> "key"] \in Operation(n)
    BY DEF Operation
  <1>2. \A id \in SentIds \cup {"Send_Key"} : [do |-> "await", id |-> id] \in Operation(n)
    BY DEF Operation
  <1>3. \A id \in OtherIds, d \in SentIds :
          id \notin ExchangeSends(n) => [do |-> "send", id |-> id, d |-> d] \in Operation(n)
    BY DEF Operation
  <1>4. ASSUME NEW id \in ExchangeSends(n) PROVE [do |-> "send", id |-> id, d |-> id] \in Operation(n)
    <2>1. id \in SentIds
      <3>1. CASE n = "sub"
        BY <3>1 DEF ExchangeSends, SentIds, ExchangeIds
      <3>2. CASE n # "sub"
        BY <3>2 DEF ExchangeSends, SentIds, ExchangeIds
      <3> QED BY <3>1, <3>2
    <2> QED BY <2>1 DEF Operation
  <1>5. \A c, r \in BOOLEAN : [do |-> "catch", clears |-> c, rethrows |-> r] \in Operation(n)
    BY DEF Operation
  <1> QED BY <1>1, <1>2, <1>3, <1>4, <1>5

LEMMA NothingLeft ==
  ASSUME NEW n
  PROVE  LeftIs(n, <<>>, {}) /\ StackOk(n, <<>>)
  BY DEF LeftIs, StackOk

LEMMA RestIs ==
  ASSUME NEW n \in Nodes!Node, NEW s, StackOk(n, s), s # <<>>
  PROVE  /\ Head(s) = s[1] /\ s[1] \in Operation(n) /\ Len(s) \in Nat \ {0}
         /\ Tail(s) \in Seq(Operation(n)) /\ Len(Tail(s)) = Len(s) - 1
         /\ \A i \in 1 .. Len(s) - 1 : Tail(s)[i] = s[i + 1]
  BY HeadTailProperties, LenProperties, EmptySeq DEF StackOk

LEMMA RestIsOk ==
  ASSUME NEW n \in Nodes!Node, NEW s, StackOk(n, s), s # <<>>
  PROVE  StackOk(n, Tail(s))
  <1>1. /\ Tail(s) \in Seq(Operation(n)) /\ Len(s) \in Nat \ {0} /\ Len(Tail(s)) = Len(s) - 1
        /\ \A i \in 1 .. Len(s) - 1 : Tail(s)[i] = s[i + 1]
    BY RestIs
  <1>2. Tail(s) # <<>> => Tail(s)[Len(Tail(s))] = End
    <2> SUFFICES ASSUME Tail(s) # <<>> PROVE Tail(s)[Len(Tail(s))] = End
      OBVIOUS
    <2>1. Len(Tail(s)) # 0
      BY <1>1, EmptySeq
    <2>2. Tail(s)[Len(s) - 1] = s[Len(s)]
      BY <1>1, <2>1
    <2> QED BY <1>1, <2>2 DEF StackOk
  <1>3. ASSUME NEW i \in 1 .. Len(s) - 1, Foreign(n, Tail(s)[i]) PROVE i = Len(Tail(s)) - 1
    <2>1. Len(s) \in Nat /\ Tail(s)[i] = s[i + 1] /\ Len(Tail(s)) = Len(s) - 1
      BY <1>1
    <2>2. i + 1 \in 1 .. Len(s)
      BY <2>1
    <2>3. i + 1 = Len(s) - 1
      BY <1>3, <2>1, <2>2 DEF StackOk
    <2>4. Len(s) \in Nat /\ Len(Tail(s)) = Len(s) - 1
      BY <2>1
    <2> HIDE <2>1, <2>2, <1>3
    <2> QED BY <2>3, <2>4
  <1>4. ASSUME n = "sub", NEW i \in 1 .. Len(s) - 1, NEW j \in 1 .. Len(s) - 1,
               i < j, Rank(n, s[i + 1]) # 0, Handles(s[j + 1])
        PROVE  j = Len(s) - 1
    <2>1. Len(s) \in Nat
      BY <1>1
    <2>2. i + 1 \in 1 .. Len(s) /\ j + 1 \in 1 .. Len(s) /\ i + 1 < j + 1
      BY <1>4, <2>1
    <2>3. j + 1 = Len(s)
      BY <1>4, <2>2 DEF StackOk
    <2> QED BY <2>1, <2>3
  <1> QED BY <1>1, <1>2, <1>3, <1>4 DEF StackOk

(* The next operation of the exchange has the least rank.                         *)
LEMMA RestLeft ==
  ASSUME NEW n \in Nodes!Node, NEW s, StackOk(n, s), s # <<>>, NEW S \in SUBSET (Nat \ {0}), LeftIs(n, s, S)
  PROVE  /\ Rank(n, Head(s)) = 0 => LeftIs(n, Tail(s), S)
         /\ Rank(n, Head(s)) # 0 =>
              /\ Rank(n, Head(s)) \in S /\ \A r \in S : Rank(n, Head(s)) <= r
              /\ LeftIs(n, Tail(s), S \ {Rank(n, Head(s))})
  <1>1. /\ Head(s) = s[1] /\ Len(s) \in Nat \ {0} /\ Len(Tail(s)) = Len(s) - 1
        /\ \A i \in 1 .. Len(s) - 1 : Tail(s)[i] = s[i + 1]
    BY RestIs
  <1>2. \A i \in 1 .. Len(s) : Rank(n, s[i]) \in 0 .. 8
    BY Ranks, LenProperties DEF StackOk
  <1>3. /\ \A i \in 1 .. Len(s) : Rank(n, s[i]) # 0 => Rank(n, s[i]) \in S
        /\ \A r \in S : \E i \in 1 .. Len(s) : Rank(n, s[i]) = r
        /\ \A i, j \in 1 .. Len(s) :
            i < j /\ Rank(n, s[i]) # 0 /\ Rank(n, s[j]) # 0 => Rank(n, s[i]) < Rank(n, s[j])
    BY DEF LeftIs
  <1>4. \A i, j \in 1 .. Len(s) - 1 :
          i < j /\ Rank(n, Tail(s)[i]) # 0 /\ Rank(n, Tail(s)[j]) # 0
            => Rank(n, Tail(s)[i]) < Rank(n, Tail(s)[j])
    <2> SUFFICES ASSUME NEW i \in 1 .. Len(s) - 1, NEW j \in 1 .. Len(s) - 1, i < j,
                        Rank(n, s[i + 1]) # 0, Rank(n, s[j + 1]) # 0
                 PROVE  Rank(n, s[i + 1]) < Rank(n, s[j + 1])
      BY <1>1
    <2>1. i + 1 \in 1 .. Len(s) /\ j + 1 \in 1 .. Len(s) /\ i + 1 < j + 1
      BY <1>1
    <2> QED BY <1>3, <2>1
  <1>5. ASSUME NEW i \in 1 .. Len(s) - 1, Rank(n, Tail(s)[i]) # 0
        PROVE  Rank(n, Tail(s)[i]) \in S /\ (Rank(n, s[1]) # 0 => Rank(n, s[1]) < Rank(n, Tail(s)[i]))
    <2>1. i + 1 \in 1 .. Len(s) /\ 1 \in 1 .. Len(s) /\ 1 < i + 1 /\ Tail(s)[i] = s[i + 1]
      BY <1>1
    <2> QED BY <1>3, <1>5, <2>1
  <1>6. ASSUME NEW r \in S, r # Rank(n, s[1])
        PROVE  \E i \in 1 .. Len(s) - 1 : Rank(n, Tail(s)[i]) = r
    <2>1. PICK i \in 1 .. Len(s) : Rank(n, s[i]) = r
      BY <1>3
    <2>2. i # 1
      BY <1>6, <2>1
    <2>3. i - 1 \in 1 .. Len(s) - 1 /\ Tail(s)[i - 1] = s[i]
      BY <1>1, <2>2
    <2> QED BY <2>1, <2>3
  <1>7. ASSUME Rank(n, s[1]) = 0 PROVE LeftIs(n, Tail(s), S)
    <2>1. ASSUME NEW r \in S PROVE \E i \in 1 .. Len(s) - 1 : Rank(n, Tail(s)[i]) = r
      <3>1. PICK i \in 1 .. Len(s) : Rank(n, s[i]) = r
        BY <1>3
      <3>2. i # 1
        BY <1>7, <3>1
      <3>3. i - 1 \in 1 .. Len(s) - 1 /\ Tail(s)[i - 1] = s[i]
        BY <1>1, <3>2
      <3> QED BY <3>1, <3>3
    <2> QED BY <1>1, <1>4, <1>5, <2>1 DEF LeftIs
  <1>8. ASSUME Rank(n, s[1]) # 0
        PROVE  /\ Rank(n, s[1]) \in S /\ \A r \in S : Rank(n, s[1]) <= r
               /\ LeftIs(n, Tail(s), S \ {Rank(n, s[1])})
    <2>1. Rank(n, s[1]) \in S
      BY <1>1, <1>3, <1>8
    <2>2. ASSUME NEW r \in S PROVE Rank(n, s[1]) <= r
      <3>1. CASE r = Rank(n, s[1])
        BY <1>1, <1>2, <3>1
      <3>2. CASE r # Rank(n, s[1])
        <4>1. PICK i \in 1 .. Len(s) - 1 : Rank(n, Tail(s)[i]) = r
          BY <1>6, <3>2
        <4>2. Rank(n, s[1]) < r
          BY <1>5, <1>8, <4>1
        <4>3. Rank(n, s[1]) \in Nat
          BY <1>1, <1>2
        <4> QED BY <4>2, <4>3
      <3> QED BY <3>1, <3>2
    <2>3. ASSUME NEW i \in 1 .. Len(s) - 1, Rank(n, Tail(s)[i]) # 0
          PROVE  Rank(n, Tail(s)[i]) \in S \ {Rank(n, s[1])}
      <3>1. Tail(s)[i] = s[i + 1] /\ i + 1 \in 1 .. Len(s) /\ 1 \in 1 .. Len(s)
        BY <1>1
      <3>2. Rank(n, s[1]) \in Nat /\ Rank(n, s[i + 1]) \in Nat
        BY <1>2, <3>1
      <3> QED BY <1>5, <1>8, <2>3, <3>1, <3>2
    <2> QED BY <1>1, <1>4, <1>6, <2>1, <2>2, <2>3 DEF LeftIs
  <1> QED BY <1>1, <1>7, <1>8

(* Operations that are put on a stack.                                            *)
Block(n, h, S) ==
    h \in Seq(Operation(n)) /\ LeftIs(n, h, S) /\ \A i \in 1 .. Len(h) : ~Foreign(n, h[i])
Open(h) == \A i \in 1 .. Len(h) : ~Handles(h[i])

LEMMA LeftJoins ==
  ASSUME NEW n \in Nodes!Node, NEW h \in Seq(Operation(n)), NEW s \in Seq(Operation(n)),
         NEW S, NEW T, LeftIs(n, h, S), LeftIs(n, s, T),
         \A x \in S, y \in T : x < y
  PROVE  LeftIs(n, h \o s, S \cup T)
  <1> DEFINE hs == h \o s
  <1>1. /\ hs \in Seq(Operation(n)) /\ Len(hs) = Len(h) + Len(s) /\ Len(h) \in Nat /\ Len(s) \in Nat
        /\ \A i \in 1 .. Len(h) + Len(s) : hs[i] = IF i <= Len(h) THEN h[i] ELSE s[i - Len(h)]
    BY ConcatProperties, LenProperties
  <1> HIDE DEF hs
  <1>2. ASSUME NEW i \in 1 .. Len(hs)
        PROVE  \/ i \in 1 .. Len(h) /\ hs[i] = h[i]
               \/ i - Len(h) \in 1 .. Len(s) /\ hs[i] = s[i - Len(h)] /\ i > Len(h)
    <2>1. i \in 1 .. Len(h) + Len(s)
      BY <1>1
    <2>2. CASE i <= Len(h)
      BY <1>1, <2>1, <2>2
    <2>3. CASE i > Len(h)
      <3>1. hs[i] = s[i - Len(h)]
        BY <1>1, <2>1, <2>3
      <3>2. i - Len(h) \in 1 .. Len(s)
        BY <1>1, <2>1, <2>3
      <3> QED BY <2>3, <3>1, <3>2
    <2> QED BY <1>1, <2>1, <2>2, <2>3
  <1>3. ASSUME NEW i \in 1 .. Len(hs), Rank(n, hs[i]) # 0 PROVE Rank(n, hs[i]) \in S \cup T
    BY <1>2, <1>3 DEF LeftIs
  <1>4. ASSUME NEW r \in S \cup T PROVE \E i \in 1 .. Len(hs) : Rank(n, hs[i]) = r
    <2>1. CASE r \in S
      <3>1. PICK i \in 1 .. Len(h) : Rank(n, h[i]) = r
        BY <2>1 DEF LeftIs
      <3>2. i \in 1 .. Len(h) + Len(s) /\ i <= Len(h)
        BY <1>1
      <3>3. i \in 1 .. Len(hs) /\ hs[i] = h[i]
        BY <1>1, <3>2
      <3> QED BY <3>1, <3>3
    <2>2. CASE r \in T
      <3>1. PICK i \in 1 .. Len(s) : Rank(n, s[i]) = r
        BY <2>2 DEF LeftIs
      <3>2. i + Len(h) \in 1 .. Len(h) + Len(s) /\ ~(i + Len(h) <= Len(h)) /\ (i + Len(h)) - Len(h) = i
        BY <1>1
      <3>3. i + Len(h) \in 1 .. Len(hs) /\ hs[i + Len(h)] = s[i]
        BY <1>1, <3>2
      <3> QED BY <3>1, <3>3
    <2> QED BY <2>1, <2>2
  <1>5. ASSUME NEW i \in 1 .. Len(hs), NEW j \in 1 .. Len(hs), i < j, Rank(n, hs[i]) # 0, Rank(n, hs[j]) # 0
        PROVE  Rank(n, hs[i]) < Rank(n, hs[j])
    <2>1. CASE i \in 1 .. Len(h) /\ hs[i] = h[i]
      <3>1. CASE j \in 1 .. Len(h) /\ hs[j] = h[j]
        BY <1>5, <2>1, <3>1 DEF LeftIs
      <3>2. CASE j - Len(h) \in 1 .. Len(s) /\ hs[j] = s[j - Len(h)]
        <4>1. Rank(n, h[i]) \in S
          BY <1>5, <2>1 DEF LeftIs
        <4>2. Rank(n, s[j - Len(h)]) \in T
          BY <1>5, <3>2 DEF LeftIs
        <4>3. Rank(n, h[i]) < Rank(n, s[j - Len(h)])
          BY <4>1, <4>2
        <4> QED BY <2>1, <3>2, <4>3
      <3> QED BY <1>2, <3>1, <3>2
    <2>2. CASE i - Len(h) \in 1 .. Len(s) /\ hs[i] = s[i - Len(h)] /\ i > Len(h)
      <3>1. j > Len(h)
        BY <1>1, <1>5, <2>2
      <3>2. j - Len(h) \in 1 .. Len(s) /\ hs[j] = s[j - Len(h)]
        BY <1>1, <1>2, <3>1
      <3>3. i - Len(h) < j - Len(h)
        BY <1>1, <1>5
      <3>4. \A k, l \in 1 .. Len(s) :
              k < l /\ Rank(n, s[k]) # 0 /\ Rank(n, s[l]) # 0 => Rank(n, s[k]) < Rank(n, s[l])
        BY DEF LeftIs
      <3>5. Rank(n, s[i - Len(h)]) # 0 /\ Rank(n, s[j - Len(h)]) # 0
        BY <1>5, <2>2, <3>2
      <3>6. Rank(n, s[i - Len(h)]) < Rank(n, s[j - Len(h)])
        BY <2>2, <3>2, <3>3, <3>4, <3>5
      <3> QED BY <2>2, <3>2, <3>6
    <2> QED BY <1>2, <2>1, <2>2
  <1>6. LeftIs(n, hs, S \cup T)
    BY <1>3, <1>4, <1>5 DEF LeftIs
  <1> QED BY <1>6 DEF hs

LEMMA BlocksJoin ==
  ASSUME NEW n \in Nodes!Node, NEW S, NEW T, NEW h, NEW g, Block(n, h, S), Block(n, g, T),
         \A x \in S, y \in T : x < y
  PROVE  Block(n, h \o g, S \cup T) /\ (Open(h) /\ Open(g) => Open(h \o g))
  <1>1. /\ h \o g \in Seq(Operation(n)) /\ Len(h \o g) = Len(h) + Len(g) /\ Len(h) \in Nat /\ Len(g) \in Nat
        /\ \A i \in 1 .. Len(h) + Len(g) : (h \o g)[i] = IF i <= Len(h) THEN h[i] ELSE g[i - Len(h)]
    BY ConcatProperties, LenProperties DEF Block
  <1>2. LeftIs(n, h \o g, S \cup T)
    BY LeftJoins DEF Block
  <1>3. ASSUME NEW i \in 1 .. Len(h \o g)
        PROVE  \/ \E k \in 1 .. Len(h) : (h \o g)[i] = h[k]
               \/ \E k \in 1 .. Len(g) : (h \o g)[i] = g[k]
    <2>1. i \in 1 .. Len(h) + Len(g)
      BY <1>1
    <2>2. CASE i <= Len(h)
      <3>1. i \in 1 .. Len(h) /\ (h \o g)[i] = h[i]
        BY <1>1, <2>1, <2>2
      <3> QED BY <3>1
    <2>3. CASE ~(i <= Len(h))
      <3>1. i - Len(h) \in 1 .. Len(g)
        BY <1>1, <2>1, <2>3
      <3>2. (h \o g)[i] = g[i - Len(h)]
        BY <1>1, <2>1, <2>3
      <3> QED BY <3>1, <3>2
    <2> QED BY <2>2, <2>3
  <1> QED BY <1>1, <1>2, <1>3 DEF Block, Open

LEMMA OthersJoin ==
  ASSUME NEW n \in Nodes!Node, NEW S, NEW h, NEW g, Block(n, h, S), Block(n, g, {})
  PROVE  Block(n, h \o g, S) /\ (Open(h) /\ Open(g) => Open(h \o g))
  <1>1. PICK T : T = {}
    OBVIOUS
  <1>2. Block(n, g, T) /\ \A x \in S, y \in T : x < y
    BY <1>1
  <1>3. Block(n, h \o g, S \cup T) /\ (Open(h) /\ Open(g) => Open(h \o g))
    BY <1>2, BlocksJoin
  <1>4. S \cup T = S
    BY <1>1
  <1> QED BY <1>3, <1>4

LEMMA StackJoins ==
  ASSUME NEW n \in Nodes!Node, NEW S, NEW h, Block(n, h, S), NEW s, StackOk(n, s), s # <<>>,
         n = "sub" => S = {} \/ (Open(h) /\ s = <<End>>)
  PROVE  StackOk(n, h \o s) /\ h \o s # <<>>
  <1> DEFINE hs == h \o s
  <1>1. /\ hs \in Seq(Operation(n)) /\ Len(hs) = Len(h) + Len(s) /\ Len(h) \in Nat /\ Len(s) \in Nat \ {0}
        /\ \A i \in 1 .. Len(h) + Len(s) : hs[i] = IF i <= Len(h) THEN h[i] ELSE s[i - Len(h)]
    BY ConcatProperties, LenProperties, EmptySeq DEF Block, StackOk
  <1> HIDE DEF hs
  <1>2. hs # <<>>
    BY <1>1
  <1>3. hs[Len(hs)] = End
    <2>1. Len(hs) \in 1 .. Len(h) + Len(s) /\ ~(Len(hs) <= Len(h)) /\ Len(hs) - Len(h) = Len(s)
      BY <1>1
    <2>2. hs[Len(hs)] = s[Len(s)]
      BY <1>1, <2>1
    <2> QED BY <2>2 DEF StackOk
  <1>4. ASSUME NEW i \in 1 .. Len(hs)
        PROVE  \/ i \in 1 .. Len(h) /\ hs[i] = h[i]
               \/ i - Len(h) \in 1 .. Len(s) /\ hs[i] = s[i - Len(h)] /\ i > Len(h)
    <2>1. i \in 1 .. Len(h) + Len(s)
      BY <1>1
    <2>2. CASE i <= Len(h)
      BY <1>1, <2>1, <2>2
    <2>3. CASE i > Len(h)
      <3>1. hs[i] = s[i - Len(h)]
        BY <1>1, <2>1, <2>3
      <3>2. i - Len(h) \in 1 .. Len(s)
        BY <1>1, <2>1, <2>3
      <3> QED BY <2>3, <3>1, <3>2
    <2> QED BY <1>1, <2>1, <2>2, <2>3
  <1>5. ASSUME NEW i \in 1 .. Len(hs), Foreign(n, hs[i]) PROVE i = Len(hs) - 1
    <2>1. i - Len(h) \in 1 .. Len(s) /\ Foreign(n, s[i - Len(h)])
      BY <1>4, <1>5 DEF Block
    <2>2. i - Len(h) = Len(s) - 1
      BY <2>1 DEF StackOk
    <2>3. Len(hs) = Len(h) + Len(s) /\ Len(h) \in Nat /\ Len(s) \in Nat /\ i \in Int
      BY <1>1
    <2> QED BY <2>2, <2>3
  <1>6. ASSUME n = "sub", NEW i \in 1 .. Len(hs), NEW j \in 1 .. Len(hs), i < j, Rank(n, hs[i]) # 0, Handles(hs[j])
        PROVE  j = Len(hs)
    <2>0. Len(hs) = Len(h) + Len(s) /\ Len(h) \in Nat /\ Len(s) \in Nat /\ i \in Int /\ j \in Int
      BY <1>1
    <2>1. CASE i \in 1 .. Len(h) /\ hs[i] = h[i]
      <3>1. S # {}
        BY <1>6, <2>1 DEF Block, LeftIs
      <3>2. Open(h) /\ s = <<End>> /\ Len(s) = 1
        BY <1>6, <3>1
      <3>3. j - Len(h) \in 1 .. Len(s)
        BY <1>4, <1>6, <3>2 DEF Open
      <3> QED BY <2>0, <3>2, <3>3
    <2>2. CASE i - Len(h) \in 1 .. Len(s) /\ hs[i] = s[i - Len(h)] /\ i > Len(h)
      <3>1. j - Len(h) \in 1 .. Len(s) /\ hs[j] = s[j - Len(h)] /\ i - Len(h) < j - Len(h)
        BY <1>4, <1>6, <2>0, <2>2
      <3>2. j - Len(h) = Len(s)
        BY <1>6, <2>2, <3>1 DEF StackOk
      <3> QED BY <2>0, <3>2
    <2> QED BY <1>4, <2>1, <2>2
  <1>7. StackOk(n, hs)
    BY <1>1, <1>3, <1>5, <1>6 DEF StackOk
  <1> QED BY <1>2, <1>7 DEF hs

\* the ranks of one operation
RanksOf(n, o) == {Rank(n, o)} \ {0}
RanksOfSuper(b) == IF b = 8 THEN {7} ELSE b .. 6

LEMMA OneIsBlock ==
  ASSUME NEW n \in Nodes!Node, NEW o \in Operation(n), ~Foreign(n, o)
  PROVE  Block(n, <<o>>, RanksOf(n, o)) /\ (~Handles(o) => Open(<<o>>))
  <1>1. <<o>> \in Seq(Operation(n)) /\ Len(<<o>>) = 1 /\ <<o>>[1] = o
    OBVIOUS
  <1> HIDE DEF Foreign
  <1>2. \A i \in 1 .. Len(<<o>>) : i = 1
    BY <1>1
  <1>3. LeftIs(n, <<o>>, RanksOf(n, o))
    BY <1>1, <1>2 DEF LeftIs, RanksOf
  <1> QED BY <1>1, <1>2, <1>3 DEF Block, Open

LEMMA TwoAreBlock ==
  ASSUME NEW n \in Nodes!Node, NEW p \in Operation(n), NEW o \in Operation(n), Rank(n, p) = 0,
         ~Foreign(n, p), ~Foreign(n, o), ~Handles(p), ~Handles(o)
  PROVE  Block(n, <<p, o>>, RanksOf(n, o)) /\ Open(<<p, o>>)
  <1>1. <<p, o>> \in Seq(Operation(n)) /\ Len(<<p, o>>) = 2 /\ <<p, o>>[1] = p /\ <<p, o>>[2] = o
    OBVIOUS
  <1>2. \A i \in 1 .. Len(<<p, o>>) : i = 1 \/ i = 2
    BY <1>1
  <1>3. ASSUME NEW r \in RanksOf(n, o) PROVE \E i \in 1 .. Len(<<p, o>>) : Rank(n, <<p, o>>[i]) = r
    <2>1. 2 \in 1 .. Len(<<p, o>>) /\ Rank(n, <<p, o>>[2]) = r
      BY <1>1 DEF RanksOf
    <2> QED BY <2>1
  <1>4. LeftIs(n, <<p, o>>, RanksOf(n, o))
    BY <1>1, <1>2, <1>3 DEF LeftIs, RanksOf
  <1> QED BY <1>1, <1>2, <1>4 DEF Block, Open

LEMMA RequestIsBlock ==
  ASSUME NEW n \in Nodes!Node, NEW id \in ExchangeSends(n) \cup OtherIds
  PROVE  /\ Block(n, Nodes!sendRequest(id), RanksOf(n, [do |-> "send", id |-> id]))
         /\ Open(Nodes!sendRequest(id))
  <1> DEFINE o == [do |-> "send", id |-> id, d |-> id]
  <1>1. [do |-> "drain"] \in Operation(n) /\ o \in Operation(n)
    BY OperationsAre DEF SentIds
  <1>2. /\ Rank(n, [do |-> "drain"]) = 0 /\ ~Foreign(n, [do |-> "drain"]) /\ ~Handles([do |-> "drain"])
        /\ ~Foreign(n, o) /\ ~Handles(o)
    BY <1>1, Ranks DEF Foreign, Handles
  <1>3. Rank(n, o) = Rank(n, [do |-> "send", id |-> id])
    BY DEF Rank, SubRank, SuperRank
  <1>4. Block(n, <<[do |-> "drain"], o>>, RanksOf(n, o)) /\ Open(<<[do |-> "drain"], o>>)
    BY <1>1, <1>2, TwoAreBlock
  <1> QED BY <1>3, <1>4 DEF RanksOf, Nodes!sendRequest, Nodes!Drain

LEMMA ReplyIsBlock ==
  ASSUME NEW n \in Nodes!Node, NEW id \in SentIds \cup {"Send_Key"}, Rank(n, [do |-> "await", id |-> id]) # 0
  PROVE  /\ Block(n, Nodes!receiveReply(id), RanksOf(n, [do |-> "await", id |-> id]))
         /\ Open(Nodes!receiveReply(id))
  <1> DEFINE o == [do |-> "await", id |-> id]
  <1>1. o \in Operation(n)
    BY OperationsAre
  <1>2. ~Foreign(n, o) /\ ~Handles(o)
    BY DEF Foreign, Handles
  <1>3. Block(n, <<o>>, RanksOf(n, o)) /\ Open(<<o>>)
    BY <1>1, <1>2, OneIsBlock
  <1> QED BY <1>3 DEF Nodes!receiveReply

LEMMA CatchIsBlock ==
  ASSUME NEW n \in Nodes!Node, NEW c \in BOOLEAN, NEW r \in BOOLEAN
  PROVE  Block(n, Nodes!Catch(c, r), {}) /\ (r => Open(Nodes!Catch(c, r)))
  <1> DEFINE o == [do |-> "catch", clears |-> c, rethrows |-> r]
  <1>1. o \in Operation(n)
    BY OperationsAre
  <1>2. Rank(n, o) = 0 /\ ~Foreign(n, o) /\ (r => ~Handles(o))
    BY <1>1, Ranks DEF Foreign, Handles
  <1>3. RanksOf(n, o) = {}
    BY <1>2 DEF RanksOf
  <1>4. Block(n, <<o>>, RanksOf(n, o)) /\ (r => Open(<<o>>))
    BY <1>1, <1>2, OneIsBlock
  <1> QED BY <1>3, <1>4 DEF Nodes!Catch

LEMMA EndIsOk ==
  ASSUME NEW n \in Nodes!Node
  PROVE  /\ Nodes!Catch(FALSE, FALSE) = <<End>> /\ StackOk(n, <<End>>) /\ <<End>> # <<>>
         /\ LeftIs(n, <<End>>, {})
  <1>1. Nodes!Catch(FALSE, FALSE) = <<End>>
    BY DEF Nodes!Catch, End
  <1>2. Block(n, Nodes!Catch(FALSE, FALSE), {})
    BY CatchIsBlock
  <1>3. <<End>> \in Seq(Operation(n)) /\ LeftIs(n, <<End>>, {}) /\ ~Foreign(n, End)
    <2>1. <<End>>[1] = End /\ 1 \in 1 .. Len(<<End>>)
      OBVIOUS
    <2>2. Block(n, <<End>>, {})
      BY <1>1, <1>2
    <2>3. \A i \in 1 .. Len(<<End>>) : ~Foreign(n, <<End>>[i])
      BY <2>2 DEF Block
    <2>4. ~Foreign(n, <<End>>[1])
      BY <2>1, <2>3
    <2> QED BY <2>1, <2>2, <2>4 DEF Block
  <1>4. StackOk(n, <<End>>)
    <2>1. /\ Len(<<End>>) = 1 /\ <<End>>[1] = End
          /\ \A i \in 1 .. Len(<<End>>) : i = 1
      OBVIOUS
    <2> QED BY <1>3, <2>1 DEF StackOk
  <1> QED BY <1>1, <1>3, <1>4

LEMMA SubExchangeIsBlock ==
  Block("sub", Nodes!SubExchange, 1 .. 7) /\ Open(Nodes!SubExchange)
  <1> USE DEF Nodes!Node
  <1> DEFINE A == Nodes!sendAndReceive("Request_SC", "SC_Response")
             B == Nodes!sendAndReceive("DH_Send_M", "DH_Send_X")
             C == Nodes!sendAndReceive("DH_Send_XimodM", "DH_Send_XjmodM")
  <1>1. Block("sub", A, {1, 2}) /\ Open(A)
    <2>1. Block("sub", Nodes!sendRequest("Request_SC"), {1}) /\ Open(Nodes!sendRequest("Request_SC"))
      <3>1. RanksOf("sub", [do |-> "send", id |-> "Request_SC"]) = {1}
        BY DEF RanksOf, Rank, SubRank
      <3> QED BY <3>1, RequestIsBlock DEF ExchangeSends
    <2>2. Block("sub", Nodes!receiveReply("SC_Response"), {2}) /\ Open(Nodes!receiveReply("SC_Response"))
      <3>1. RanksOf("sub", [do |-> "await", id |-> "SC_Response"]) = {2}
        BY DEF RanksOf, Rank, SubRank
      <3>2. Rank("sub", [do |-> "await", id |-> "SC_Response"]) # 0
        BY DEF Rank, SubRank
      <3> QED BY <3>1, <3>2, ReplyIsBlock DEF SentIds, ExchangeIds
    <2>3. {1} \cup {2} = {1, 2}
      OBVIOUS
    <2> QED BY <2>1, <2>2, <2>3, BlocksJoin DEF Nodes!sendAndReceive
  <1>2. Block("sub", B, {4}) /\ Open(B)
    <2>1. Block("sub", Nodes!sendRequest("DH_Send_M"), {}) /\ Open(Nodes!sendRequest("DH_Send_M"))
      <3>1. RanksOf("sub", [do |-> "send", id |-> "DH_Send_M"]) = {}
        BY DEF RanksOf, Rank, SubRank
      <3> QED BY <3>1, RequestIsBlock DEF ExchangeSends
    <2>2. Block("sub", Nodes!receiveReply("DH_Send_X"), {4}) /\ Open(Nodes!receiveReply("DH_Send_X"))
      <3>1. RanksOf("sub", [do |-> "await", id |-> "DH_Send_X"]) = {4}
        BY DEF RanksOf, Rank, SubRank
      <3>2. Rank("sub", [do |-> "await", id |-> "DH_Send_X"]) # 0
        BY DEF Rank, SubRank
      <3> QED BY <3>1, <3>2, ReplyIsBlock DEF SentIds, ExchangeIds
    <2>3. {} \cup {4} = {4}
      OBVIOUS
    <2> QED BY <2>1, <2>2, <2>3, BlocksJoin DEF Nodes!sendAndReceive
  <1>3. Block("sub", C, {5, 6}) /\ Open(C)
    <2>1. Block("sub", Nodes!sendRequest("DH_Send_XimodM"), {5}) /\ Open(Nodes!sendRequest("DH_Send_XimodM"))
      <3>1. RanksOf("sub", [do |-> "send", id |-> "DH_Send_XimodM"]) = {5}
        BY DEF RanksOf, Rank, SubRank
      <3> QED BY <3>1, RequestIsBlock DEF ExchangeSends
    <2>2. Block("sub", Nodes!receiveReply("DH_Send_XjmodM"), {6}) /\ Open(Nodes!receiveReply("DH_Send_XjmodM"))
      <3>1. RanksOf("sub", [do |-> "await", id |-> "DH_Send_XjmodM"]) = {6}
        BY DEF RanksOf, Rank, SubRank
      <3>2. Rank("sub", [do |-> "await", id |-> "DH_Send_XjmodM"]) # 0
        BY DEF Rank, SubRank
      <3> QED BY <3>1, <3>2, ReplyIsBlock DEF SentIds, ExchangeIds
    <2>3. {5} \cup {6} = {5, 6}
      OBVIOUS
    <2> QED BY <2>1, <2>2, <2>3, BlocksJoin DEF Nodes!sendAndReceive
  <1>4. Block("sub", Nodes!Draw, {3}) /\ Open(Nodes!Draw)
    <2>1. /\ [do |-> "draw"] \in Operation("sub") /\ ~Foreign("sub", [do |-> "draw"])
          /\ ~Handles([do |-> "draw"])
      BY OperationsAre DEF Foreign, Handles
    <2>2. RanksOf("sub", [do |-> "draw"]) = {3}
      BY DEF RanksOf, Rank, SubRank
    <2> QED BY <2>1, <2>2, OneIsBlock DEF Nodes!Draw
  <1>5. Block("sub", Nodes!SetKey, {7}) /\ Open(Nodes!SetKey)
    <2>1. /\ [do |-> "key"] \in Operation("sub") /\ ~Foreign("sub", [do |-> "key"])
          /\ ~Handles([do |-> "key"])
      BY OperationsAre DEF Foreign, Handles
    <2>2. RanksOf("sub", [do |-> "key"]) = {7}
      BY DEF RanksOf, Rank, SubRank
    <2> QED BY <2>1, <2>2, OneIsBlock DEF Nodes!SetKey
  <1>6. Block("sub", Nodes!Catch(TRUE, TRUE), {}) /\ Open(Nodes!Catch(TRUE, TRUE))
    BY CatchIsBlock
  <1> HIDE DEF A, B, C
  <1>7. Block("sub", A \o Nodes!Draw, {1, 2} \cup {3}) /\ Open(A \o Nodes!Draw)
    BY <1>1, <1>4, BlocksJoin
  <1>8. Block("sub", A \o Nodes!Draw \o B, {1, 2} \cup {3} \cup {4}) /\ Open(A \o Nodes!Draw \o B)
    BY <1>2, <1>7, BlocksJoin
  <1>9. /\ Block("sub", A \o Nodes!Draw \o B \o C, {1, 2} \cup {3} \cup {4} \cup {5, 6})
        /\ Open(A \o Nodes!Draw \o B \o C)
    BY <1>3, <1>8, BlocksJoin
  <1>10. /\ Block("sub", A \o Nodes!Draw \o B \o C \o Nodes!SetKey, {1, 2} \cup {3} \cup {4} \cup {5, 6} \cup {7})
         /\ Open(A \o Nodes!Draw \o B \o C \o Nodes!SetKey)
    BY <1>5, <1>9, BlocksJoin
  <1>11. /\ Block("sub", A \o Nodes!Draw \o B \o C \o Nodes!SetKey \o Nodes!Catch(TRUE, TRUE),
                  {1, 2} \cup {3} \cup {4} \cup {5, 6} \cup {7})
         /\ Open(A \o Nodes!Draw \o B \o C \o Nodes!SetKey \o Nodes!Catch(TRUE, TRUE))
    BY <1>6, <1>10, OthersJoin
  <1>12. {1, 2} \cup {3} \cup {4} \cup {5, 6} \cup {7} = 1 .. 7
    OBVIOUS
  <1> QED BY <1>11, <1>12 DEF Nodes!SubExchange, A, B, C

LEMMA requestKeyIsBlock ==
  Block("sub", Nodes!requestKey, 1 .. 8) /\ Open(Nodes!requestKey)
  <1> USE DEF Nodes!Node
  <1>1. Block("sub", Nodes!SubExchange, 1 .. 7) /\ Open(Nodes!SubExchange)
    BY SubExchangeIsBlock
  <1>2. Block("sub", Nodes!sendRequest("Request_Key"), {}) /\ Open(Nodes!sendRequest("Request_Key"))
    <2>1. RanksOf("sub", [do |-> "send", id |-> "Request_Key"]) = {}
      BY DEF RanksOf, Rank, SubRank
    <2> QED BY <2>1, RequestIsBlock, IdsAre
  <1>3. Block("sub", Nodes!receiveReply("Send_Key"), {8}) /\ Open(Nodes!receiveReply("Send_Key"))
    <2>1. RanksOf("sub", [do |-> "await", id |-> "Send_Key"]) = {8}
      BY DEF RanksOf, Rank, SubRank
    <2>2. Rank("sub", [do |-> "await", id |-> "Send_Key"]) # 0
      BY DEF Rank, SubRank
    <2> QED BY <2>1, <2>2, ReplyIsBlock
  <1>4. /\ Block("sub", Nodes!sendAndReceive("Request_Key", "Send_Key"), {8})
        /\ Open(Nodes!sendAndReceive("Request_Key", "Send_Key"))
    <2>1. {} \cup {8} = {8}
      OBVIOUS
    <2> QED BY <1>2, <1>3, <2>1, BlocksJoin DEF Nodes!sendAndReceive
  <1>5. (1 .. 7) \cup {8} = 1 .. 8
    OBVIOUS
  <1>6. /\ Block("sub", Nodes!SubExchange \o Nodes!sendAndReceive("Request_Key", "Send_Key"), (1 .. 7) \cup {8})
        /\ Open(Nodes!SubExchange \o Nodes!sendAndReceive("Request_Key", "Send_Key"))
    BY <1>1, <1>4, BlocksJoin
  <1> QED BY <1>5, <1>6 DEF Nodes!requestKey

(* What is put onto the stack of a node, and what is left of its exchange then.   *)
LEMMA PutOn ==
  ASSUME NEW n \in Nodes!Node, NEW S, NEW h, Block(n, h, S), NEW T, NEW s, StackOk(n, s), s # <<>>,
         n = "sub" => S = {} \/ (Open(h) /\ s = <<End>>),
         LeftIs(n, s, T), \A x \in S, y \in T : x < y
  PROVE  StackOk(n, h \o s) /\ h \o s # <<>> /\ LeftIs(n, h \o s, S \cup T)
  <1>1. h \in Seq(Operation(n)) /\ s \in Seq(Operation(n)) /\ LeftIs(n, h, S)
    BY DEF Block, StackOk
  <1>2. LeftIs(n, h \o s, S \cup T)
    BY <1>1, LeftJoins
  <1>3. StackOk(n, h \o s) /\ h \o s # <<>>
    BY StackJoins
  <1> QED BY <1>2, <1>3

LEMMA BlockOnEnd ==
  ASSUME NEW n \in Nodes!Node, NEW S, NEW h, Block(n, h, S), n = "sub" => Open(h)
  PROVE  StackOk(n, h \o <<End>>) /\ LeftIs(n, h \o <<End>>, S)
  <1>1. PICK T : T = {}
    OBVIOUS
  <1>2. /\ StackOk(n, <<End>>) /\ <<End>> # <<>> /\ LeftIs(n, <<End>>, T)
        /\ \A x \in S, y \in T : x < y
    BY <1>1, EndIsOk
  <1>3. StackOk(n, h \o <<End>>) /\ LeftIs(n, h \o <<End>>, S \cup T)
    BY <1>2, PutOn
  <1>4. S \cup T = S
    BY <1>1
  <1> QED BY <1>3, <1>4

LEMMA OthersOnStack ==
  ASSUME NEW n \in Nodes!Node, NEW h, Block(n, h, {}), NEW T, NEW s, StackOk(n, s), s # <<>>, LeftIs(n, s, T)
  PROVE  StackOk(n, h \o s) /\ h \o s # <<>> /\ LeftIs(n, h \o s, T)
  <1>1. PICK S : S = {}
    OBVIOUS
  <1>2. Block(n, h, S) /\ \A x \in S, y \in T : x < y
    BY <1>1
  <1>3. StackOk(n, h \o s) /\ h \o s # <<>> /\ LeftIs(n, h \o s, S \cup T)
    BY <1>1, <1>2, PutOn
  <1>4. S \cup T = T
    BY <1>1
  <1> QED BY <1>3, <1>4

(* A call that awaits a reply of its own awaits it right above the handler.       *)
LEMMA AwaitOnEnd ==
  ASSUME NEW n \in Nodes!Node, NEW o \in Operation(n), Foreign(n, o)
  PROVE  StackOk(n, <<o>> \o <<End>>) /\ LeftIs(n, <<o>> \o <<End>>, {}) /\ <<o>> \o <<End>> # <<>>
  <1> DEFINE s == <<o>> \o <<End>>
  <1>2. Rank(n, o) = 0 /\ Rank(n, End) = 0 /\ End \in Operation(n) /\ ~Foreign(n, End)
    <2>1. End \in Operation(n)
      BY OperationsAre DEF End
    <2>2. End.do = "catch"
      BY DEF End
    <2>3. Rank(n, End) = 0
      BY <2>1, <2>2, Ranks
    <2> QED BY <2>1, <2>2, <2>3 DEF Foreign
  <1>3. s \in Seq(Operation(n)) /\ Len(s) = 2 /\ s[1] = o /\ s[2] = End
    <2>1. /\ <<o>> \in Seq(Operation(n)) /\ Len(<<o>>) = 1 /\ <<o>>[1] = o
          /\ <<End>> \in Seq(Operation(n)) /\ Len(<<End>>) = 1 /\ <<End>>[1] = End
      BY <1>2
    <2>2. /\ s \in Seq(Operation(n)) /\ Len(s) = Len(<<o>>) + Len(<<End>>)
          /\ \A i \in 1 .. Len(<<o>>) + Len(<<End>>) :
                s[i] = IF i <= Len(<<o>>) THEN <<o>>[i] ELSE <<End>>[i - Len(<<o>>)]
      BY <2>1, ConcatProperties
    <2>3. Len(s) = 2 /\ 1 \in 1 .. Len(<<o>>) + Len(<<End>>) /\ 2 \in 1 .. Len(<<o>>) + Len(<<End>>)
      BY <2>1, <2>2
    <2>4. s[1] = <<o>>[1] /\ s[2] = <<End>>[2 - Len(<<o>>)]
      BY <2>1, <2>2, <2>3
    <2> QED BY <2>1, <2>2, <2>3, <2>4
  <1> HIDE DEF s
  <1>4. \A i \in 1 .. Len(s) : i = 1 \/ i = 2
    BY <1>3
  <1>5. LeftIs(n, s, {})
    BY <1>2, <1>3, <1>4 DEF LeftIs
  <1>6. ASSUME NEW i \in 1 .. Len(s), Foreign(n, s[i]) PROVE i = Len(s) - 1
    <2>1. i = 1
      BY <1>2, <1>3, <1>4, <1>6
    <2> QED BY <1>3, <2>1
  <1>7. \A i \in 1 .. Len(s) : Rank(n, s[i]) = 0
    BY <1>2, <1>3, <1>4
  <1>8. StackOk(n, s)
    BY <1>3, <1>6, <1>7 DEF StackOk
  <1>9. s # <<>>
    BY <1>3, EmptySeq
  <1> QED BY <1>5, <1>8, <1>9 DEF s

LEMMA OtherRanks ==
  ASSUME NEW n \in Nodes!Node, NEW id \in OtherIds
  PROVE  /\ RanksOf(n, [do |-> "send", id |-> id]) = {} /\ Foreign(n, [do |-> "await", id |-> id])
         /\ id \notin ExchangeSends(n)
  <1>1. id \notin ExchangeIds /\ id # "Send_Key"
    BY IdsAre
  <1>2. Rank(n, [do |-> "send", id |-> id]) = 0 /\ Rank(n, [do |-> "await", id |-> id]) = 0
    <2>1. CASE n = "sub"
      BY <1>1, <2>1 DEF Rank, SubRank, ExchangeIds
    <2>2. CASE n # "sub"
      BY <1>1, <2>2 DEF Rank, SuperRank, ExchangeIds
    <2> QED BY <2>1, <2>2
  <1>3. id \notin ExchangeSends(n)
    BY <1>1 DEF ExchangeSends, ExchangeIds
  <1> QED BY <1>2, <1>3 DEF RanksOf, Foreign

LEMMA CallIs ==
  ASSUME NEW c \in OfCalls, NEW n \in Nodes!Node
  PROVE  LET s == Nodes!sendAndReceive(c.request, c.reply) \o Nodes!Catch(FALSE, FALSE)
         IN StackOk(n, s) /\ LeftIs(n, s, {})
  <1> DEFINE q == Nodes!sendRequest(c.request)  r == Nodes!receiveReply(c.reply)  o == [do |-> "await", id |-> c.reply]
  <1>1. c.request \in OtherIds /\ c.reply \in OtherIds
    BY IdsAre
  <1>2. Block(n, q, {})
    BY <1>1, OtherRanks, RequestIsBlock
  <1>3. o \in Operation(n) /\ Foreign(n, o)
    BY <1>1, OtherRanks, OperationsAre DEF SentIds
  <1>4. r = <<o>>
    BY DEF Nodes!receiveReply
  <1> HIDE DEF q, r, o
  <1>5. StackOk(n, r \o <<End>>) /\ LeftIs(n, r \o <<End>>, {}) /\ r \o <<End>> # <<>>
    BY <1>3, <1>4, AwaitOnEnd
  <1>6. StackOk(n, q \o (r \o <<End>>)) /\ LeftIs(n, q \o (r \o <<End>>), {})
    BY <1>2, <1>5, OthersOnStack
  <1>7. (q \o r) \o <<End>> = q \o (r \o <<End>>)
    <2>1. q \in Seq(Operation(n))
      BY <1>2 DEF Block
    <2>2. r \in Seq(Operation(n))
      BY <1>3, <1>4
    <2>3. <<End>> \in Seq(Operation(n))
      BY EndIsOk DEF StackOk
    <2> QED BY <2>1, <2>2, <2>3, ConcatAssociative
  <1> QED BY <1>6, <1>7, EndIsOk DEF Nodes!sendAndReceive, q, r

LEMMA CallsAre ==
  ASSUME Assumptions, NEW n \in Nodes!Node, NEW request \in IF n = "super" THEN SuperCalls ELSE SubCalls
  PROVE  /\ StackOk(n, Nodes!Call(request))
         /\ \/ LeftIs(n, Nodes!Call(request), {})
            \/ n = "sub" /\ LeftIs(n, Nodes!Call(request), 1 .. 8)
  <1>1. \/ \E c \in OfCalls : c.request = request
        \/ n = "sub" /\ request \in {"Request_Key", "Fault_Report"}
    BY DEF Assumptions, Nodes!GliNodesAssumption, OfCalls, Nodes!Node
  <1>2. CASE \E c \in OfCalls : c.request = request
    <2> DEFINE c == CHOOSE c \in OfCalls : c.request = request
    <2>1. c \in OfCalls /\ c.request = request
      BY <1>2
    <2>2. request \notin {"Request_Key", "Fault_Report"}
      BY <1>2 DEF OfCalls, Nodes!OfSuper, Nodes!OfSub, Nodes!loadConfiguration, Nodes!stopConfiguration,
           Nodes!runConfiguration, Nodes!changeConfiguration, Nodes!getBITResult, Nodes!getAliveStatus,
           Nodes!allocateCFM, Nodes!deallocateCFM
    <2>3. Nodes!Call(request) = Nodes!sendAndReceive(c.request, c.reply) \o Nodes!Catch(FALSE, FALSE)
      BY <2>2 DEF Nodes!Call, OfCalls
    <2> HIDE DEF c
    <2> QED BY <2>1, <2>3, CallIs
  <1>3. CASE n = "sub" /\ request = "Request_Key"
    <2>1. Nodes!Call(request) = Nodes!requestKey \o Nodes!Catch(FALSE, FALSE)
      BY <1>3 DEF Nodes!Call
    <2> QED BY <1>3, <2>1, requestKeyIsBlock, BlockOnEnd, EndIsOk
  <1>4. CASE n = "sub" /\ request = "Fault_Report"
    <2>1. Nodes!Call(request) = Nodes!reportFault \o Nodes!Catch(FALSE, FALSE)
      BY <1>4 DEF Nodes!Call
    <2>2. Block(n, Nodes!reportFault, {}) /\ Open(Nodes!reportFault)
      BY IdsAre, OtherRanks, RequestIsBlock DEF Nodes!reportFault
    <2> QED BY <2>1, <2>2, BlockOnEnd, EndIsOk
  <1> QED BY <1>1, <1>2, <1>3, <1>4

LEMMA SuperExchangeIsBlock ==
  /\ Block("super", Nodes!SuperExchange("SC_Response"), RanksOfSuper(1))
  /\ Block("super", Nodes!SuperExchange("SC_Rejected"), RanksOfSuper(8))
  <1> USE DEF Nodes!Node
  <1> DEFINE A == Nodes!sendRequest("SC_Response")
             B == Nodes!receiveReply("DH_Send_M")
             C == Nodes!sendAndReceive("DH_Send_X", "DH_Send_XimodM")
             D == Nodes!sendRequest("DH_Send_XjmodM")
             R == Nodes!sendRequest("SC_Rejected")
             Z == Nodes!Catch(TRUE, FALSE)
  <1>1. Block("super", A, {1})
    <2>1. RanksOf("super", [do |-> "send", id |-> "SC_Response"]) = {1}
      BY DEF RanksOf, Rank, SuperRank
    <2> QED BY <2>1, RequestIsBlock DEF ExchangeSends
  <1>2. Block("super", B, {2})
    <2>1. RanksOf("super", [do |-> "await", id |-> "DH_Send_M"]) = {2}
      BY DEF RanksOf, Rank, SuperRank
    <2>2. Rank("super", [do |-> "await", id |-> "DH_Send_M"]) # 0
      BY DEF Rank, SuperRank
    <2> QED BY <2>1, <2>2, ReplyIsBlock DEF SentIds, ExchangeIds
  <1>3. Block("super", Nodes!Draw, {3})
    <2>1. [do |-> "draw"] \in Operation("super") /\ ~Foreign("super", [do |-> "draw"])
      BY OperationsAre DEF Foreign
    <2>2. RanksOf("super", [do |-> "draw"]) = {3}
      BY DEF RanksOf, Rank, SuperRank
    <2> QED BY <2>1, <2>2, OneIsBlock DEF Nodes!Draw
  <1>4. Block("super", C, {4})
    <2>1. Block("super", Nodes!sendRequest("DH_Send_X"), {})
      <3>1. RanksOf("super", [do |-> "send", id |-> "DH_Send_X"]) = {}
        BY DEF RanksOf, Rank, SuperRank
      <3> QED BY <3>1, RequestIsBlock DEF ExchangeSends
    <2>2. Block("super", Nodes!receiveReply("DH_Send_XimodM"), {4})
      <3>1. RanksOf("super", [do |-> "await", id |-> "DH_Send_XimodM"]) = {4}
        BY DEF RanksOf, Rank, SuperRank
      <3>2. Rank("super", [do |-> "await", id |-> "DH_Send_XimodM"]) # 0
        BY DEF Rank, SuperRank
      <3> QED BY <3>1, <3>2, ReplyIsBlock DEF SentIds, ExchangeIds
    <2>3. {} \cup {4} = {4}
      OBVIOUS
    <2> QED BY <2>1, <2>2, <2>3, BlocksJoin DEF Nodes!sendAndReceive
  <1>5. Block("super", Nodes!SetKey, {5})
    <2>1. [do |-> "key"] \in Operation("super") /\ ~Foreign("super", [do |-> "key"])
      BY OperationsAre DEF Foreign
    <2>2. RanksOf("super", [do |-> "key"]) = {5}
      BY DEF RanksOf, Rank, SuperRank
    <2> QED BY <2>1, <2>2, OneIsBlock DEF Nodes!SetKey
  <1>6. Block("super", D, {6})
    <2>1. RanksOf("super", [do |-> "send", id |-> "DH_Send_XjmodM"]) = {6}
      BY DEF RanksOf, Rank, SuperRank
    <2> QED BY <2>1, RequestIsBlock DEF ExchangeSends
  <1>7. Block("super", R, {7})
    <2>1. RanksOf("super", [do |-> "send", id |-> "SC_Rejected"]) = {7}
      BY DEF RanksOf, Rank, SuperRank
    <2> QED BY <2>1, RequestIsBlock DEF ExchangeSends
  <1>8. Block("super", Z, {})
    BY CatchIsBlock
  <1>9. Nodes!SuperExchange("SC_Response") = (A \o (B \o Nodes!Draw \o C \o Nodes!SetKey \o D)) \o Z
    BY DEF Nodes!SuperExchange
  <1>10. Nodes!SuperExchange("SC_Rejected") = (R \o <<>>) \o Z
    BY DEF Nodes!SuperExchange
  <1> HIDE DEF A, B, C, D, R, Z
  <1>11. Block("super", B \o Nodes!Draw, {2} \cup {3})
    BY <1>2, <1>3, BlocksJoin
  <1>12. Block("super", B \o Nodes!Draw \o C, {2} \cup {3} \cup {4})
    BY <1>4, <1>11, BlocksJoin
  <1>13. Block("super", B \o Nodes!Draw \o C \o Nodes!SetKey, {2} \cup {3} \cup {4} \cup {5})
    BY <1>5, <1>12, BlocksJoin
  <1>14. Block("super", B \o Nodes!Draw \o C \o Nodes!SetKey \o D, {2} \cup {3} \cup {4} \cup {5} \cup {6})
    BY <1>6, <1>13, BlocksJoin
  <1>15. {2} \cup {3} \cup {4} \cup {5} \cup {6} = 2 .. 6
    OBVIOUS
  <1>16. Block("super", A \o (B \o Nodes!Draw \o C \o Nodes!SetKey \o D), {1} \cup (2 .. 6))
    BY <1>1, <1>14, <1>15, BlocksJoin
  <1>17. {1} \cup (2 .. 6) = RanksOfSuper(1) /\ RanksOfSuper(8) = {7}
    BY DEF RanksOfSuper
  <1>18. Block("super", Nodes!SuperExchange("SC_Response"), RanksOfSuper(1))
    <2>1. Block("super", A \o (B \o Nodes!Draw \o C \o Nodes!SetKey \o D), RanksOfSuper(1))
      BY <1>16, <1>17
    <2> QED BY <1>8, <1>9, <2>1, OthersJoin
  <1>19. R \o <<>> = R
    BY <1>7, ConcatEmptySeq DEF Block
  <1> QED BY <1>7, <1>8, <1>10, <1>17, <1>18, <1>19, OthersJoin

LEMMA AnswerIsBlock ==
  ASSUME NEW n \in Nodes!Node, NEW reply \in OtherIds, NEW m \in Note
  PROVE  Block(n, Nodes!Answer(reply, m), {}) /\ Nodes!Answer(reply, m) # <<>>
  <1> DEFINE o == [do |-> "send", id |-> reply, d |-> m.d]
  <1>1. RanksOf(n, [do |-> "send", id |-> reply]) = {} /\ reply \notin ExchangeSends(n)
    BY OtherRanks
  <1>2. o \in Operation(n) /\ ~Foreign(n, o)
    BY <1>1, OperationsAre DEF Note, Foreign
  <1>3. RanksOf(n, o) = {}
    BY <1>1 DEF RanksOf, Rank, SubRank, SuperRank
  <1> HIDE DEF o
  <1>4. Block(n, <<o>>, {}) /\ <<o>> # <<>>
    BY <1>2, <1>3, OneIsBlock
  <1> QED BY <1>4 DEF Nodes!Answer, o

LEMMA HandlersAre ==
  ASSUME NEW n \in Nodes!Node, NEW m \in Note, NEW ops \in Nodes!handleMessage(n, m)
  PROVE  \/ (ops = <<>> \/ Block(n, ops, {})) /\ ~(n = "super" /\ m.id = "Request_SC")
         \/ n = "super" /\ m.id = "Request_SC" /\ ops # <<>> /\ \E b \in {1, 8} : Block(n, ops, RanksOfSuper(b))
  <1>1. ASSUME NEW c \in OfCalls PROVE c.request # "Request_SC" /\ c.reply \in OtherIds
    BY IdsAre DEF ExchangeIds
  <1>2. CASE n = "sub"
    <2>1. ops = <<>> \/ ops \in Nodes!handleSuperNodeMessage(m)
      BY <1>2 DEF Nodes!handleMessage
    <2>2. ASSUME ops \in Nodes!handleSuperNodeMessage(m) PROVE Block(n, ops, {})
      <3>1. PICK c \in OfCalls : ops = Nodes!Answer(c.reply, m)
        BY <2>2 DEF Nodes!handleSuperNodeMessage, OfCalls
      <3> QED BY <1>1, <3>1, AnswerIsBlock
    <2> QED BY <1>2, <2>1, <2>2
  <1>3. CASE n = "super" /\ m.id # "Request_SC"
    <2>1. ops = <<>> \/ ops \in Nodes!handleSubNodeMessage(m)
      BY <1>3 DEF Nodes!handleMessage
    <2>2. ASSUME ops \in Nodes!handleSubNodeMessage(m) PROVE Block(n, ops, {})
      <3>1. (\E c \in OfCalls : ops = Nodes!Answer(c.reply, m)) \/ ops = Nodes!Answer("Cfm_Allocated", m)
        BY <1>3, <2>2 DEF Nodes!handleSubNodeMessage, OfCalls
      <3>2. "Cfm_Allocated" \in OtherIds
        <4>1. Nodes!allocateCFM \in OfCalls /\ Nodes!allocateCFM.reply = "Cfm_Allocated"
          BY DEF OfCalls, Nodes!OfSub, Nodes!allocateCFM
        <4> QED BY <1>1, <4>1
      <3> QED BY <1>1, <3>1, <3>2, AnswerIsBlock
    <2> QED BY <1>3, <2>1, <2>2
  <1>4. CASE n = "super" /\ m.id = "Request_SC"
    <2>1. Nodes!SuperExchange("SC_Response") \in Nodes!handleSubNodeMessage(m)
      BY <1>4 DEF Nodes!handleSubNodeMessage
    <2>2. ops \in Nodes!handleSubNodeMessage(m)
      BY <1>4, <2>1 DEF Nodes!handleMessage
    <2>3. ops \in {Nodes!SuperExchange(r) : r \in {"SC_Response", "SC_Rejected"}}
      <3>1. \A c \in Nodes!OfSub : c.request # m.id
        BY <1>1, <1>4 DEF OfCalls
      <3> QED BY <1>4, <2>2, <3>1 DEF Nodes!handleSubNodeMessage
    <2>4. \E b \in {1, 8} : Block(n, ops, RanksOfSuper(b))
      BY <1>4, <2>3, SuperExchangeIsBlock
    <2>5. ops # <<>>
      <3>1. PICK b \in {1, 8} : LeftIs(n, ops, RanksOfSuper(b))
        BY <2>4 DEF Block
      <3>2. RanksOfSuper(b) # {}
        BY DEF RanksOfSuper
      <3>3. Len(<<>>) = 0
        OBVIOUS
      <3> QED BY <3>1, <3>2, <3>3 DEF LeftIs
    <2> QED BY <1>4, <2>4, <2>5
  <1> QED BY <1>2, <1>3, <1>4 DEF Nodes!Node

(* What a node does when it received a request.                                   *)
LEMMA ReceivedIs ==
  ASSUME NEW n \in Nodes!Node, NEW m \in Note, NEW ops \in Nodes!handleMessage(n, m),
         NEW after, StackOk(n, after), NEW S, LeftIs(n, after, S), NEW s,
         s = ops \o (IF ops = <<>> THEN <<>> ELSE Nodes!Catch(FALSE, FALSE)) \o after
  PROVE  /\ StackOk(n, s)
         /\ \/ LeftIs(n, s, S) /\ ~(n = "super" /\ m.id = "Request_SC")
            \/ n = "super" /\ m.id = "Request_SC" /\ (S = {} => \E b \in {1, 8} : LeftIs(n, s, RanksOfSuper(b)))
  <1>1. after \in Seq(Operation(n))
    BY DEF StackOk
  <1>2. CASE ops = <<>>
    <2>1. s = (<<>> \o <<>>) \o after
      BY <1>2
    <2>2. <<>> \o <<>> = <<>> /\ <<>> \o after = after
      BY <1>1, ConcatEmptySeq
    <2> QED BY <1>2, <2>1, <2>2, HandlersAre
  <1>3. CASE ops # <<>>
    <2>1. \E T : Block(n, ops, T)
      BY <1>3, HandlersAre
    <2>2. s = ops \o (<<End>> \o after)
      <3>1. ops \in Seq(Operation(n))
        BY <2>1 DEF Block
      <3>2. <<End>> \in Seq(Operation(n))
        BY EndIsOk DEF StackOk
      <3>3. s = (ops \o <<End>>) \o after
        BY <1>3, EndIsOk
      <3>4. (ops \o <<End>>) \o after = ops \o (<<End>> \o after)
        BY <1>1, <3>1, <3>2, ConcatAssociative
      <3> QED BY <3>3, <3>4
    <2>3. /\ StackOk(n, <<End>> \o after) /\ <<End>> \o after # <<>>
          /\ LeftIs(n, <<End>> \o after, S)
      <3>1. CASE after = <<>>
        <4>1. <<End>> \o <<>> = <<End>>
          <5>1. <<End>> \in Seq(Operation(n))
            BY EndIsOk DEF StackOk
          <5> QED BY <5>1, ConcatEmptySeq
        <4>2. S = {}
          <5>1. Len(<<>>) = 0
            OBVIOUS
          <5> QED BY <3>1, <5>1 DEF LeftIs
        <4> QED BY <3>1, <4>1, <4>2, EndIsOk
      <3>2. CASE after # <<>>
        <4>1. Block(n, <<End>>, {})
          BY CatchIsBlock, EndIsOk
        <4> QED BY <3>2, <4>1, OthersOnStack
      <3> QED BY <3>1, <3>2
    <2>4. CASE Block(n, ops, {}) /\ ~(n = "super" /\ m.id = "Request_SC")
      BY <2>2, <2>3, <2>4, OthersOnStack
    <2>5. CASE n = "super" /\ m.id = "Request_SC" /\ \E b \in {1, 8} : Block(n, ops, RanksOfSuper(b))
      <3>1. PICK b \in {1, 8} : Block(n, ops, RanksOfSuper(b))
        BY <2>5
      <3>2. StackOk(n, s)
        BY <2>2, <2>3, <2>5, <3>1, StackJoins
      <3>3. ASSUME S = {} PROVE LeftIs(n, s, RanksOfSuper(b))
        <4>1. \A x \in RanksOfSuper(b), y \in S : x < y
          BY <3>3
        <4>2. LeftIs(n, s, RanksOfSuper(b) \cup S)
          <5>1. Block(n, ops, RanksOfSuper(b)) /\ n # "sub"
            BY <2>5, <3>1
          <5>2. LeftIs(n, ops \o (<<End>> \o after), RanksOfSuper(b) \cup S)
            BY <2>3, <4>1, <5>1, PutOn
          <5> QED BY <2>2, <5>2
        <4>3. RanksOfSuper(b) \cup S = RanksOfSuper(b)
          BY <3>3
        <4> QED BY <4>2, <4>3
      <3> QED BY <2>5, <3>2, <3>3
    <2> QED BY <1>3, <2>4, <2>5, HandlersAre
  <1> QED BY <1>2, <1>3

NodesType ==
    /\ inQueue \in [Nodes!Node -> [{"sender", "receiver"} -> Seq(Note)]] /\ separate \in BOOLEAN
    /\ numbers \in [Nodes!Node -> [own : Nat, other : Nat]]
    /\ DOMAIN todo = Nodes!Node /\ DOMAIN keyOf = Nodes!Node
    /\ \A n \in Nodes!Node : StackOk(n, todo[n])

No(q, ids)  == \A i \in 1 .. Len(q) : q[i].id \notin ids
One(q, ids) == \A i, j \in 1 .. Len(q) : q[i].id \in ids /\ q[j].id \in ids => i = j
Numbered(q, id, k) == \A i \in 1 .. Len(q) : q[i].id = id => q[i].number = k

Requests == inQueue["super"]["sender"]
ToSuper == inQueue["super"][Nodes!ReplyVc]
ToSub == inQueue["sub"][Nodes!ReplyVc]
TheKey == <<numbers["sub"].own, numbers["super"].own>>

(* The next operation of the sub node's exchange is a, that of the super node's b;  *)
(* 9 and 7 when there is none, and 8 when the super node is about to refuse.        *)
Left(a, b) == LeftIs("sub", todo["sub"], a .. 8) /\ LeftIs("super", todo["super"], RanksOfSuper(b))

Responses == {"SC_Response", "SC_Rejected"}
Asked(b) ==
    /\ b \in {1, 2, 3, 4, 7, 8}
    /\ One(Requests, {"Request_SC"}) /\ One(ToSub, Responses)
    /\ No(Requests, {"Request_SC"}) \/ (b = 7 /\ No(ToSub, Responses))
    /\ b \in {1, 8} => No(ToSub, Responses)
    /\ b = 7 => No(ToSub, {"SC_Response"})
    /\ b \in 2 .. 4 => No(ToSub, {"SC_Rejected"})

Exchanging(b) ==
    /\ Numbered(ToSuper, "DH_Send_XimodM", numbers["sub"].own) /\ b \in 2 .. 7
    /\ b <= 6 => No(ToSub, {"DH_Send_XjmodM"})
    /\ b = 5 => numbers["super"].other = numbers["sub"].own
    /\ b \in {6, 7} => keyOf["super"] = TheKey
    /\ b = 7 => Numbered(ToSub, "DH_Send_XjmodM", numbers["super"].own)

Meets(a, b) ==
    /\ a \in {1, 9} => b = 7 /\ No(Requests, {"Request_SC"}) /\ No(ToSub, Responses)
    /\ a = 2 => Asked(b)
    /\ a \in 3 .. 8 => No(Requests, {"Request_SC"})
    /\ a \in 3 .. 5 => b \in 2 .. 4
    /\ a \in {1, 2, 3, 4, 5, 9} => No(ToSuper, {"DH_Send_XimodM"}) /\ No(ToSub, {"DH_Send_XjmodM"})
    /\ a = 6 => Exchanging(b)
    /\ a = 7 => b = 7 /\ keyOf["super"] = TheKey /\ numbers["sub"].other = numbers["super"].own
    /\ a = 8 => b = 7 /\ keyOf["sub"] = keyOf["super"]
    /\ a # 8 => keyOf["sub"] = None

KeysInv == NodesType /\ \E a \in 1 .. 9, b \in 1 .. 8 : Left(a, b) /\ Meets(a, b)

(* What queues keep when a message is taken or another is put in.                 *)
Tracked == ExchangeIds \ {"DH_Send_M", "DH_Send_X"}
Fewer(q, p) ==
    /\ \A ids \in SUBSET Tracked : (No(q, ids) => No(p, ids)) /\ (One(q, ids) => One(p, ids))
    /\ \A id \in Tracked, k \in Nat : Numbered(q, id, k) => Numbered(p, id, k)

LEMMA FewerSame ==
  ASSUME NEW q
  PROVE  Fewer(q, q)
  BY DEF Fewer

LEMMA FewerTaken ==
  ASSUME NEW q \in Seq(Note), q # <<>>
  PROVE  /\ Head(q) = q[1] /\ q[1] \in Note /\ 1 \in 1 .. Len(q) /\ Tail(q) \in Seq(Note) /\ Fewer(q, Tail(q))
         /\ \A ids : One(q, ids) /\ Head(q).id \in ids => No(Tail(q), ids)
  <1>1. Len(q) \in Nat /\ Len(q) # 0 /\ Head(q) = q[1]
    BY LenProperties, EmptySeq, HeadTailProperties
  <1>2. 1 \in 1 .. Len(q) /\ q[1] \in Note
    BY <1>1, LenProperties
  <1>3. Tail(q) \in Seq(Note) /\ Len(Tail(q)) = Len(q) - 1
    BY HeadTailProperties
  <1>4. ASSUME NEW i \in 1 .. Len(Tail(q))
        PROVE  i + 1 \in 1 .. Len(q) /\ Tail(q)[i] = q[i + 1] /\ i + 1 # 1
    <2>1. Tail(q)[i] = q[i + 1]
      BY HeadTailProperties
    <2>2. i + 1 \in 1 .. Len(q) /\ i + 1 # 1
      BY <1>1, <1>3
    <2> QED BY <2>1, <2>2
  <1>5. ASSUME NEW ids, No(q, ids) PROVE No(Tail(q), ids)
    BY <1>4, <1>5 DEF No
  <1>6. ASSUME NEW ids, One(q, ids) PROVE One(Tail(q), ids)
    <2> SUFFICES ASSUME NEW i \in 1 .. Len(Tail(q)), NEW j \in 1 .. Len(Tail(q)),
                        Tail(q)[i].id \in ids, Tail(q)[j].id \in ids
                 PROVE  i = j
      BY DEF One
    <2>1. i + 1 = j + 1
      BY <1>4, <1>6 DEF One
    <2> QED BY <2>1
  <1>7. ASSUME NEW id, NEW k, Numbered(q, id, k) PROVE Numbered(Tail(q), id, k)
    BY <1>4, <1>7 DEF Numbered
  <1>8. ASSUME NEW ids, One(q, ids), q[1].id \in ids PROVE No(Tail(q), ids)
    BY <1>2, <1>4, <1>8 DEF No, One
  <1> QED BY <1>1, <1>2, <1>3, <1>5, <1>6, <1>7, <1>8 DEF Fewer

LEMMA PutInIs ==
  ASSUME NEW q \in Seq(Note), NEW m \in Note
  PROVE  /\ Append(q, m) \in Seq(Note)
         /\ \A ids : m.id \notin ids => (No(q, ids) => No(Append(q, m), ids)) /\ (One(q, ids) => One(Append(q, m), ids))
         /\ \A ids : No(q, ids) => One(Append(q, m), ids)
         /\ \A id, k : (m.id = id => m.number = k) => (Numbered(q, id, k) => Numbered(Append(q, m), id, k))
         /\ \A id, k : No(q, {id}) => Numbered(q, id, k)
  <1> DEFINE p == Append(q, m)
  <1>1. /\ p \in Seq(Note) /\ Len(p) = Len(q) + 1 /\ Len(q) \in Nat /\ p[Len(q) + 1] = m
        /\ \A i \in 1 .. Len(q) : p[i] = q[i]
    BY AppendProperties, LenProperties
  <1> HIDE DEF p
  <1>2. ASSUME NEW i \in 1 .. Len(p)
        PROVE  (i \in 1 .. Len(q) /\ p[i] = q[i]) \/ (i = Len(q) + 1 /\ p[i] = m)
    <2>1. i \in 1 .. Len(q) \/ i = Len(q) + 1
      BY <1>1
    <2> QED BY <1>1, <2>1
  <1>3. ASSUME NEW ids, m.id \notin ids
        PROVE  (No(q, ids) => No(p, ids)) /\ (One(q, ids) => One(p, ids))
    BY <1>2, <1>3 DEF No, One
  <1>4. ASSUME NEW ids, No(q, ids) PROVE One(p, ids)
    BY <1>2, <1>4 DEF No, One
  <1>5. ASSUME NEW id, NEW k, m.id = id => m.number = k, Numbered(q, id, k) PROVE Numbered(p, id, k)
    BY <1>2, <1>5 DEF Numbered
  <1>6. ASSUME NEW id, NEW k, No(q, {id}) PROVE Numbered(q, id, k)
    BY <1>6 DEF No, Numbered
  <1> QED BY <1>1, <1>3, <1>4, <1>5, <1>6 DEF p

LEMMA FewerPutIn ==
  ASSUME NEW q \in Seq(Note), NEW m \in Note, m.id \notin Tracked
  PROVE  Append(q, m) \in Seq(Note) /\ Fewer(q, Append(q, m))
  <1>1. \A ids \in SUBSET Tracked : m.id \notin ids
    OBVIOUS
  <1>2. \A id \in Tracked : m.id # id
    OBVIOUS
  <1> QED BY <1>1, <1>2, PutInIs DEF Fewer

LEMMA QueuesAre ==
  ASSUME NodesType
  PROVE  /\ Requests \in Seq(Note) /\ ToSuper \in Seq(Note) /\ ToSub \in Seq(Note)
         /\ Nodes!ReplyVc \in {"sender", "receiver"}
  BY DEF NodesType, Requests, ToSuper, ToSub, Nodes!ReplyVc, Nodes!Node

LEMMA MeetsShrinks ==
  ASSUME NodesType, NEW a \in 1 .. 9, NEW b \in 1 .. 8, Meets(a, b),
         Fewer(Requests, Requests'), Fewer(ToSuper, ToSuper'), Fewer(ToSub, ToSub'),
         \A n \in Nodes!Node : keyOf'[n] = keyOf[n] /\ numbers'[n].own = numbers[n].own,
         b # 5 \/ numbers'["super"].other = numbers["super"].other,
         a # 7 \/ numbers'["sub"].other = numbers["sub"].other
  PROVE  Meets(a, b)'
  <1>1. /\ TheKey' = TheKey /\ numbers'["sub"].own = numbers["sub"].own
        /\ numbers'["super"].own = numbers["super"].own
        /\ keyOf'["sub"] = keyOf["sub"] /\ keyOf'["super"] = keyOf["super"]
    BY DEF TheKey, Nodes!Node
  <1>2. numbers["sub"].own \in Nat /\ numbers["super"].own \in Nat
    BY DEF NodesType, Nodes!Node
  <1>3. ASSUME NEW ids \in {{"Request_SC"}, Responses, {"SC_Response"}, {"SC_Rejected"}, {"DH_Send_XimodM"},
                            {"DH_Send_XjmodM"}}
        PROVE  /\ No(Requests, ids) => No(Requests', ids)
               /\ One(Requests, ids) => One(Requests', ids)
               /\ No(ToSuper, ids) => No(ToSuper', ids)
               /\ No(ToSub, ids) => No(ToSub', ids)
               /\ One(ToSub, ids) => One(ToSub', ids)
    <2>1. ids \in SUBSET Tracked
      BY DEF Tracked, ExchangeIds, Responses
    <2> QED BY <2>1 DEF Fewer
  <1>4. ASSUME NEW k \in Nat
        PROVE  /\ Numbered(ToSuper, "DH_Send_XimodM", k) => Numbered(ToSuper', "DH_Send_XimodM", k)
               /\ Numbered(ToSub, "DH_Send_XjmodM", k) => Numbered(ToSub', "DH_Send_XjmodM", k)
    BY DEF Fewer, Tracked, ExchangeIds
  <1>5. Asked(b) => Asked(b)'
    BY <1>3 DEF Asked
  <1>6. a = 6 => (Exchanging(b) => Exchanging(b)')
    BY <1>1, <1>2, <1>3, <1>4 DEF Exchanging
  <1> QED BY <1>1, <1>3, <1>5, <1>6 DEF Meets

LEMMA StacksAre ==
  ASSUME NodesType, NEW n \in Nodes!Node, NEW s, StackOk(n, s), todo' = [todo EXCEPT ![n] = s]
  PROVE  /\ DOMAIN todo' = Nodes!Node /\ \A x \in Nodes!Node : StackOk(x, todo'[x])
         /\ todo'[n] = s /\ \A x \in Nodes!Node : x # n => todo'[x] = todo[x]
  BY DEF NodesType

LEMMA EmptyStacks ==
  ASSUME NEW a \in 1 .. 9, NEW b \in 1 .. 8, Left(a, b)
  PROVE  (todo["sub"] = <<>> => a = 9) /\ (todo["super"] = <<>> => b = 7)
  <1>1. \A i \in 1 .. Len(<<>>) : FALSE
    OBVIOUS
  <1>2. todo["sub"] = <<>> => a .. 8 = {}
    BY <1>1 DEF Left, LeftIs
  <1>3. todo["super"] = <<>> => RanksOfSuper(b) = {}
    BY <1>1 DEF Left, LeftIs
  <1>4. a .. 8 = {} => a = 9
    OBVIOUS
  <1>5. RanksOfSuper(b) = {} => b = 7
    <2>1. b = 8 => 7 \in RanksOfSuper(b)
      BY DEF RanksOfSuper
    <2>2. b \in 1 .. 6 => b \in RanksOfSuper(b)
      BY DEF RanksOfSuper
    <2> QED BY <2>1, <2>2
  <1> QED BY <1>2, <1>3, <1>4, <1>5

(* How the exchange of a node goes on with an operation of it.                    *)
LEMMA NextIsDone ==
  ASSUME NodesType, NEW a \in 1 .. 9, NEW b \in 1 .. 8, Left(a, b), NEW n \in Nodes!Node, todo[n] # <<>>,
         todo' = [todo EXCEPT ![n] = Tail(todo[n])]
  PROVE  /\ DOMAIN todo' = Nodes!Node /\ \A x \in Nodes!Node : StackOk(x, todo'[x])
         /\ Rank(n, Head(todo[n])) = 0 => Left(a, b)'
         /\ n = "sub" /\ Rank(n, Head(todo[n])) # 0 =>
                a \in 1 .. 8 /\ Rank(n, Head(todo[n])) = a /\ Left(a + 1, b)'
         /\ n = "super" /\ Rank(n, Head(todo[n])) # 0 =>
                \/ b = 8 /\ Rank(n, Head(todo[n])) = 7 /\ Left(a, 7)'
                \/ b \in 1 .. 6 /\ Rank(n, Head(todo[n])) = b /\ Left(a, b + 1)'
  <1>1. StackOk(n, todo[n]) /\ StackOk(n, Tail(todo[n]))
    BY RestIsOk DEF NodesType
  <1>2. /\ DOMAIN todo' = Nodes!Node /\ \A x \in Nodes!Node : StackOk(x, todo'[x])
        /\ todo'[n] = Tail(todo[n]) /\ \A x \in Nodes!Node : x # n => todo'[x] = todo[x]
    BY <1>1, StacksAre
  <1>3. PICK r : r = Rank(n, Head(todo[n]))
    OBVIOUS
  <1>4. CASE n = "sub"
    <2>1. a .. 8 \in SUBSET (Nat \ {0}) /\ LeftIs(n, todo[n], a .. 8) /\ "super" # n /\ "super" \in Nodes!Node
      BY <1>4 DEF Left, Nodes!Node
    <2>2. /\ r = 0 => LeftIs(n, Tail(todo[n]), a .. 8)
          /\ r # 0 => r \in a .. 8 /\ (\A x \in a .. 8 : r <= x) /\ LeftIs(n, Tail(todo[n]), (a .. 8) \ {r})
      BY <1>1, <1>3, <2>1, RestLeft
    <2>3. LeftIs("super", todo'["super"], RanksOfSuper(b))
      BY <1>2, <2>1 DEF Left
    <2>4. ASSUME r # 0 PROVE a \in 1 .. 8 /\ r = a /\ (a .. 8) \ {r} = (a + 1) .. 8
      <3>1. a \in a .. 8 /\ r \in a .. 8 /\ r <= a
        <4>1. r \in a .. 8 /\ \A x \in a .. 8 : r <= x
          BY <2>2, <2>4
        <4>2. a \in a .. 8
          BY <4>1
        <4> QED BY <4>1, <4>2
      <3>2. r = a /\ a \in 1 .. 8
        BY <3>1
      <3>3. (a .. 8) \ {a} = (a + 1) .. 8
        BY <3>2
      <3> QED BY <3>2, <3>3
    <2>5. r = 0 => Left(a, b)'
      BY <1>2, <1>4, <2>2, <2>3 DEF Left
    <2>6. r # 0 => a \in 1 .. 8 /\ r = a /\ Left(a + 1, b)'
      <3>1. r # 0 => LeftIs("sub", todo'["sub"], (a + 1) .. 8)
        BY <1>2, <1>4, <2>2, <2>4
      <3> QED BY <2>3, <2>4, <3>1 DEF Left
    <2> QED BY <1>2, <1>3, <1>4, <2>5, <2>6
  <1>5. CASE n = "super"
    <2>1. /\ RanksOfSuper(b) \in SUBSET (Nat \ {0}) /\ LeftIs(n, todo[n], RanksOfSuper(b)) /\ "sub" # n
          /\ "sub" \in Nodes!Node
      BY <1>5 DEF Left, Nodes!Node, RanksOfSuper
    <2>2. /\ r = 0 => LeftIs(n, Tail(todo[n]), RanksOfSuper(b))
          /\ r # 0 => /\ r \in RanksOfSuper(b) /\ (\A x \in RanksOfSuper(b) : r <= x)
                      /\ LeftIs(n, Tail(todo[n]), RanksOfSuper(b) \ {r})
      BY <1>1, <1>3, <2>1, RestLeft
    <2>3. LeftIs("sub", todo'["sub"], a .. 8)
      BY <1>2, <2>1 DEF Left
    <2>4. r = 0 => Left(a, b)'
      BY <1>2, <1>5, <2>2, <2>3 DEF Left
    <2>5. ASSUME r # 0, b = 8 PROVE r = 7 /\ Left(a, 7)'
      <3>1. RanksOfSuper(b) = {7} /\ {7} \ {7} = RanksOfSuper(7)
        BY <2>5 DEF RanksOfSuper
      <3>2. r = 7 /\ LeftIs(n, Tail(todo[n]), RanksOfSuper(7))
        BY <2>2, <2>5, <3>1
      <3> QED BY <1>2, <1>5, <2>3, <3>2 DEF Left
    <2>6. ASSUME r # 0, b # 8 PROVE b \in 1 .. 6 /\ r = b /\ Left(a, b + 1)'
      <3>1. RanksOfSuper(b) = b .. 6
        BY <2>6 DEF RanksOfSuper
      <3>2. r \in b .. 6 /\ \A x \in b .. 6 : r <= x
        BY <2>2, <2>6, <3>1
      <3>3. b \in b .. 6
        BY <3>2
      <3>4. r = b /\ b \in 1 .. 6
        BY <3>2, <3>3
      <3>5. (b .. 6) \ {b} = (b + 1) .. 6 /\ RanksOfSuper(b + 1) = (b + 1) .. 6
        BY <3>4 DEF RanksOfSuper
      <3>6. LeftIs(n, Tail(todo[n]), RanksOfSuper(b + 1))
        BY <2>2, <2>6, <3>1, <3>4, <3>5
      <3> QED BY <1>2, <1>5, <2>3, <3>4, <3>6 DEF Left
    <2> QED BY <1>2, <1>3, <1>5, <2>4, <2>5, <2>6
  <1> QED BY <1>4, <1>5 DEF Nodes!Node

LEMMA QueueTaken ==
  ASSUME NodesType, NEW n \in Nodes!Node, NEW q \in {"sender", "receiver"}, inQueue[n][q] # <<>>,
         inQueue' = [inQueue EXCEPT ![n][q] = Tail(@)], separate' = separate
  PROVE  /\ inQueue' \in [Nodes!Node -> [{"sender", "receiver"} -> Seq(Note)]]
         /\ Head(inQueue[n][q]) \in Note /\ inQueue'[n][q] = Tail(inQueue[n][q])
         /\ \A x \in Nodes!Node : x # n => inQueue'[x] = inQueue[x]
         /\ Fewer(Requests, Requests') /\ Fewer(ToSuper, ToSuper') /\ Fewer(ToSub, ToSub')
  <1>1. inQueue[n][q] \in Seq(Note) /\ \A x \in Nodes!Node : DOMAIN inQueue[x] = {"sender", "receiver"}
    BY DEF NodesType
  <1>2. /\ Head(inQueue[n][q]) \in Note /\ Tail(inQueue[n][q]) \in Seq(Note)
        /\ Fewer(inQueue[n][q], Tail(inQueue[n][q]))
    BY <1>1, FewerTaken
  <1>3. /\ DOMAIN inQueue' = Nodes!Node /\ inQueue'[n][q] = Tail(inQueue[n][q])
        /\ \A x \in Nodes!Node : x # n => inQueue'[x] = inQueue[x]
        /\ \A p \in {"sender", "receiver"} : p # q => inQueue'[n][p] = inQueue[n][p]
        /\ DOMAIN inQueue'[n] = {"sender", "receiver"}
    BY <1>1 DEF NodesType
  <1>4. ASSUME NEW x \in Nodes!Node, NEW p \in {"sender", "receiver"} PROVE Fewer(inQueue[x][p], inQueue'[x][p])
    BY <1>2, <1>3, FewerSame
  <1>5. inQueue' \in [Nodes!Node -> [{"sender", "receiver"} -> Seq(Note)]]
    BY <1>2, <1>3 DEF NodesType
  <1>6. Nodes!ReplyVc' = Nodes!ReplyVc /\ Nodes!ReplyVc \in {"sender", "receiver"}
    BY DEF Nodes!ReplyVc
  <1>7. Fewer(Requests, Requests') /\ Fewer(ToSuper, ToSuper') /\ Fewer(ToSub, ToSub')
    BY <1>4, <1>6 DEF Requests, ToSuper, ToSub, Nodes!Node
  <1> QED BY <1>2, <1>3, <1>5, <1>7

LEMMA QueuesPutIn ==
  ASSUME NodesType, NEW m \in Note, separate' = separate,
         inQueue' = [x \in Nodes!Node |-> [q \in {"sender", "receiver"} |->
                        IF q = "sender" \/ separate THEN Append(inQueue[x][q], m) ELSE <<>>]]
  PROVE  /\ inQueue' \in [Nodes!Node -> [{"sender", "receiver"} -> Seq(Note)]]
         /\ Requests' = Append(Requests, m) /\ ToSuper' = Append(ToSuper, m) /\ ToSub' = Append(ToSub, m)
  <1>1. ASSUME NEW x \in Nodes!Node, NEW q \in {"sender", "receiver"}
        PROVE  inQueue[x][q] \in Seq(Note) /\ Append(inQueue[x][q], m) \in Seq(Note) /\ <<>> \in Seq(Note)
    BY AppendProperties DEF NodesType
  <1>2. inQueue' \in [Nodes!Node -> [{"sender", "receiver"} -> Seq(Note)]]
    BY <1>1
  <1>3. Nodes!ReplyVc' = Nodes!ReplyVc /\ (Nodes!ReplyVc = "sender" \/ (Nodes!ReplyVc = "receiver" /\ separate))
    BY DEF Nodes!ReplyVc, NodesType
  <1>4. \A x \in Nodes!Node : inQueue'[x]["sender"] = Append(inQueue[x]["sender"], m)
    OBVIOUS
  <1>5. separate => \A x \in Nodes!Node : inQueue'[x]["receiver"] = Append(inQueue[x]["receiver"], m)
    OBVIOUS
  <1> QED BY <1>2, <1>3, <1>4, <1>5 DEF Requests, ToSuper, ToSub, Nodes!Node

LEMMA CallStep ==
  ASSUME Assumptions, KeysInv, NEW n \in Nodes!Node, NEW request, Nodes!StartCall(n, request)
  PROVE  KeysInv'
  <1>1. PICK a \in 1 .. 9, b \in 1 .. 8 : Left(a, b) /\ Meets(a, b)
    BY DEF KeysInv
  <1>2. /\ NodesType /\ todo[n] = <<>> /\ request \in (IF n = "super" THEN SuperCalls ELSE SubCalls)
        /\ todo' = [todo EXCEPT ![n] = Nodes!Call(request)]
        /\ inQueue' = inQueue /\ separate' = separate /\ numbers' = numbers /\ keyOf' = keyOf
    BY DEF KeysInv, Nodes!StartCall
  <1>3. /\ StackOk(n, Nodes!Call(request))
        /\ \/ LeftIs(n, Nodes!Call(request), {})
           \/ n = "sub" /\ LeftIs(n, Nodes!Call(request), 1 .. 8)
    BY <1>2, CallsAre
  <1>4. /\ DOMAIN todo' = Nodes!Node /\ \A x \in Nodes!Node : StackOk(x, todo'[x])
        /\ todo'[n] = Nodes!Call(request) /\ \A x \in Nodes!Node : x # n => todo'[x] = todo[x]
    BY <1>2, <1>3, StacksAre
  <1>5. NodesType'
    BY <1>2, <1>4 DEF NodesType
  <1>6. (n = "sub" => a = 9 /\ a .. 8 = {}) /\ (n = "super" => b = 7 /\ RanksOfSuper(b) = {})
    <2>1. (n = "sub" => a = 9) /\ (n = "super" => b = 7)
      BY <1>1, <1>2, EmptyStacks
    <2>2. 9 .. 8 = {} /\ RanksOfSuper(7) = {}
      BY DEF RanksOfSuper
    <2> QED BY <2>1, <2>2
  <1>7. UNCHANGED <<Requests, ToSuper, ToSub>>
    BY <1>2 DEF Requests, ToSuper, ToSub, Nodes!ReplyVc
  <1>8. CASE LeftIs(n, Nodes!Call(request), {})
    <2>1. Left(a, b)'
      <3>1. CASE n = "sub"
        BY <1>1, <1>4, <1>6, <1>8, <3>1 DEF Left, Nodes!Node
      <3>2. CASE n = "super"
        BY <1>1, <1>4, <1>6, <1>8, <3>2 DEF Left, Nodes!Node
      <3> QED BY <3>1, <3>2 DEF Nodes!Node
    <2>2. Meets(a, b)'
      BY <1>1, <1>2, <1>7, FewerSame, MeetsShrinks
    <2> QED BY <1>5, <2>1, <2>2 DEF KeysInv
  <1>9. CASE n = "sub" /\ LeftIs(n, Nodes!Call(request), 1 .. 8)
    <2>1. Left(1, b)'
      BY <1>1, <1>4, <1>9 DEF Left, Nodes!Node
    <2>2. Meets(1, b)
      BY <1>1, <1>6, <1>9 DEF Meets
    <2>3. Meets(1, b)'
      BY <1>2, <1>7, <2>2, FewerSame, MeetsShrinks
    <2> QED BY <1>5, <2>1, <2>3 DEF KeysInv
  <1> QED BY <1>3, <1>8, <1>9

LEMMA ReceiveStep ==
  ASSUME KeysInv, NEW n \in Nodes!Node, Nodes!Receive(n, todo[n])
  PROVE  KeysInv'
  <1>1. PICK a \in 1 .. 9, b \in 1 .. 8 : Left(a, b) /\ Meets(a, b)
    BY DEF KeysInv
  <1>2. /\ NodesType /\ inQueue[n]["sender"] # <<>> /\ inQueue' = [inQueue EXCEPT ![n]["sender"] = Tail(@)]
        /\ separate' = separate /\ numbers' = numbers /\ keyOf' = keyOf
    BY DEF KeysInv, Nodes!Receive, Nodes!Unchanged
  <1>3. PICK m : m = Head(inQueue[n]["sender"])
    OBVIOUS
  <1>4. PICK ops \in Nodes!handleMessage(n, m) :
          todo' = [todo EXCEPT ![n] =
                      ops \o (IF ops = <<>> THEN <<>> ELSE Nodes!Catch(FALSE, FALSE)) \o todo[n]]
    BY <1>3 DEF Nodes!Receive
  <1>5. PICK s : s = ops \o (IF ops = <<>> THEN <<>> ELSE Nodes!Catch(FALSE, FALSE)) \o todo[n]
    OBVIOUS
  <1>6. /\ inQueue' \in [Nodes!Node -> [{"sender", "receiver"} -> Seq(Note)]] /\ m \in Note
        /\ inQueue'[n]["sender"] = Tail(inQueue[n]["sender"])
        /\ \A x \in Nodes!Node : x # n => inQueue'[x] = inQueue[x]
        /\ Fewer(Requests, Requests') /\ Fewer(ToSuper, ToSuper') /\ Fewer(ToSub, ToSub')
    BY <1>2, <1>3, QueueTaken
  <1>7. PICK S : S = (IF n = "sub" THEN a .. 8 ELSE RanksOfSuper(b))
    OBVIOUS
  <1>8. StackOk(n, todo[n]) /\ LeftIs(n, todo[n], S)
    BY <1>1, <1>2, <1>7 DEF Left, NodesType, Nodes!Node
  <1>9. /\ StackOk(n, s)
        /\ \/ LeftIs(n, s, S) /\ ~(n = "super" /\ m.id = "Request_SC")
           \/ n = "super" /\ m.id = "Request_SC" /\ (S = {} => \E c \in {1, 8} : LeftIs(n, s, RanksOfSuper(c)))
    <2>1. PICK after : after = todo[n]
      OBVIOUS
    <2>2. /\ StackOk(n, after) /\ LeftIs(n, after, S) /\ m \in Note /\ ops \in Nodes!handleMessage(n, m)
          /\ s = ops \o (IF ops = <<>> THEN <<>> ELSE Nodes!Catch(FALSE, FALSE)) \o after
      BY <1>5, <1>6, <1>8, <2>1
    <2> HIDE <1>5, <2>1
    <2> QED BY <2>2, ReceivedIs
  <1>10. /\ DOMAIN todo' = Nodes!Node /\ \A x \in Nodes!Node : StackOk(x, todo'[x])
         /\ todo'[n] = s /\ \A x \in Nodes!Node : x # n => todo'[x] = todo[x]
    BY <1>2, <1>4, <1>5, <1>9, StacksAre
  <1>11. NodesType'
    BY <1>2, <1>6, <1>10 DEF NodesType
  <1>12. CASE LeftIs(n, s, S)
    <2>1. Left(a, b)'
      <3>1. CASE n = "sub"
        BY <1>1, <1>7, <1>10, <1>12, <3>1 DEF Left, Nodes!Node
      <3>2. CASE n = "super"
        BY <1>1, <1>7, <1>10, <1>12, <3>2 DEF Left, Nodes!Node
      <3> QED BY <3>1, <3>2 DEF Nodes!Node
    <2>2. Meets(a, b)'
      BY <1>1, <1>2, <1>6, MeetsShrinks
    <2> QED BY <1>11, <2>1, <2>2 DEF KeysInv
  <1>13. CASE n = "super" /\ m.id = "Request_SC" /\ (S = {} => \E c \in {1, 8} : LeftIs(n, s, RanksOfSuper(c)))
    <2>1. Requests # <<>> /\ Head(Requests).id = "Request_SC" /\ Requests' = Tail(Requests) /\ Requests \in Seq(Note)
      BY <1>2, <1>3, <1>6, <1>13, QueuesAre DEF Requests
    <2>2. ~No(Requests, {"Request_SC"})
      BY <2>1, FewerTaken DEF No
    <2>3. a = 2 /\ Asked(b)
      BY <1>1, <2>2 DEF Meets
    <2>4. b = 7 /\ No(ToSub, Responses) /\ One(Requests, {"Request_SC"})
      BY <2>2, <2>3 DEF Asked
    <2>5. No(Requests', {"Request_SC"})
      BY <2>1, <2>4, FewerTaken
    <2>6. RanksOfSuper(7) = {}
      BY DEF RanksOfSuper
    <2>7. PICK c \in {1, 8} : LeftIs(n, s, RanksOfSuper(c))
      BY <1>7, <1>13, <2>4, <2>6
    <2>8. Left(2, c)'
      BY <1>1, <1>10, <1>13, <2>3, <2>7 DEF Left, Nodes!Node
    <2>9. Meets(2, 7)'
      BY <1>1, <1>2, <1>6, <2>3, <2>4, MeetsShrinks
    <2>10. No(ToSub, Responses)'
      <3>1. Responses \in SUBSET Tracked
        BY DEF Responses, Tracked, ExchangeIds
      <3> QED BY <1>6, <2>4, <3>1 DEF Fewer
    <2>11. Asked(c)'
      BY <2>5, <2>9, <2>10 DEF Meets, Asked
    <2>12. Meets(2, c)'
      BY <2>9, <2>11 DEF Meets
    <2> QED BY <1>11, <2>8, <2>12 DEF KeysInv
  <1> QED BY <1>9, <1>12, <1>13

(* An operation that is not of the exchange is done.                              *)
LEMMA OtherStep ==
  ASSUME NodesType, NEW a \in 1 .. 9, NEW b \in 1 .. 8, Left(a, b), Meets(a, b), NEW n \in Nodes!Node,
         todo[n] # <<>>, Rank(n, Head(todo[n])) = 0, todo' = [todo EXCEPT ![n] = Tail(todo[n])],
         inQueue' \in [Nodes!Node -> [{"sender", "receiver"} -> Seq(Note)]], separate' = separate,
         numbers' = numbers, keyOf' = keyOf,
         Fewer(Requests, Requests'), Fewer(ToSuper, ToSuper'), Fewer(ToSub, ToSub')
  PROVE  KeysInv'
  <1>1. /\ DOMAIN todo' = Nodes!Node /\ \A x \in Nodes!Node : StackOk(x, todo'[x])
        /\ Left(a, b)'
    BY NextIsDone
  <1>2. NodesType'
    BY <1>1 DEF NodesType
  <1>3. Meets(a, b)'
    BY MeetsShrinks
  <1> QED BY <1>1, <1>2, <1>3 DEF KeysInv

LEMMA HeadIs ==
  ASSUME NodesType, NEW n \in Nodes!Node, todo[n] # <<>>
  PROVE  /\ Head(todo[n]) \in Operation(n) /\ Head(todo[n]) = todo[n][1] /\ Len(todo[n]) \in Nat \ {0}
         /\ Nodes!Rest(n) = Tail(todo[n])
  <1>1. StackOk(n, todo[n])
    BY DEF NodesType
  <1> QED BY <1>1, RestIs DEF Nodes!Rest

LEMMA DrainStep ==
  ASSUME KeysInv, NEW n \in Nodes!Node, Nodes!handleBufferedRequests(n) \/ Nodes!Leave(n)
  PROVE  KeysInv'
  <1>1. PICK a \in 1 .. 9, b \in 1 .. 8 : Left(a, b) /\ Meets(a, b)
    BY DEF KeysInv
  <1>2. CASE Nodes!Receive(n, todo[n])
    BY <1>2, ReceiveStep
  <1>3. CASE ~Nodes!Receive(n, todo[n])
    <2>1. /\ NodesType /\ todo[n] # <<>> /\ Head(todo[n]).do \in {"drain", "catch"}
          /\ todo' = [todo EXCEPT ![n] = Nodes!Rest(n)]
          /\ inQueue' = inQueue /\ separate' = separate /\ numbers' = numbers /\ keyOf' = keyOf
      BY <1>3 DEF KeysInv, Nodes!handleBufferedRequests, Nodes!Leave, Nodes!Do, Nodes!Unchanged
    <2>2. Rank(n, Head(todo[n])) = 0 /\ todo' = [todo EXCEPT ![n] = Tail(todo[n])]
      BY <2>1, HeadIs, Ranks
    <2>3. UNCHANGED <<Requests, ToSuper, ToSub>>
      BY <2>1 DEF Requests, ToSuper, ToSub, Nodes!ReplyVc
    <2>4. inQueue' \in [Nodes!Node -> [{"sender", "receiver"} -> Seq(Note)]]
      BY <2>1 DEF NodesType
    <2> QED BY <1>1, <2>1, <2>2, <2>3, <2>4, FewerSame, OtherStep
  <1> QED BY <1>2, <1>3

LEMMA SendIs ==
  ASSUME NodesType, NEW n \in Nodes!Node, Nodes!Send(n)
  PROVE  /\ todo[n] # <<>> /\ todo' = [todo EXCEPT ![n] = Tail(todo[n])]
         /\ separate' = separate /\ numbers' = numbers /\ keyOf' = keyOf
         /\ inQueue' \in [Nodes!Node -> [{"sender", "receiver"} -> Seq(Note)]]
         /\ \E m \in Note :
              /\ m.id = Head(todo[n]).id /\ m.number = numbers[n].own /\ Head(todo[n]).do = "send"
              /\ m.id \in ExchangeSends(n) \cup OtherIds
              /\ Requests' = Append(Requests, m) /\ ToSuper' = Append(ToSuper, m) /\ ToSub' = Append(ToSub, m)
  <1>1. PICK o : o = Head(todo[n])
    OBVIOUS
  <1>2. /\ todo[n] # <<>> /\ o.do = "send" /\ separate' = separate /\ numbers' = numbers /\ keyOf' = keyOf
        /\ todo' = [todo EXCEPT ![n] = Nodes!Rest(n)]
    BY <1>1 DEF Nodes!Send, Nodes!Do, Nodes!Unchanged
  <1>3. PICK m : m = [id |-> o.id, d |-> o.d, from |-> n, number |-> numbers[n].own]
    OBVIOUS
  <1>4. inQueue' = [x \in Nodes!Node |-> [q \in {"sender", "receiver"} |->
                        IF q = "sender" \/ separate THEN Append(inQueue[x][q], m) ELSE <<>>]]
    BY <1>1, <1>3 DEF Nodes!Send
  <1>5. todo' = [todo EXCEPT ![n] = Tail(todo[n])] /\ o \in Operation(n)
    BY <1>1, <1>2, HeadIs
  <1>6. o.id \in ExchangeSends(n) \cup OtherIds /\ o.d \in SentIds /\ (o.id \in ExchangeSends(n) => o.d = o.id)
    BY <1>2, <1>5 DEF Operation
  <1>7. ExchangeSends(n) \subseteq ExchangeIds /\ OtherIds \cap ExchangeIds = {}
    <2>1. ExchangeSends(n) \subseteq ExchangeIds
      BY DEF ExchangeSends, ExchangeIds
    <2> QED BY <2>1, IdsAre
  <1>8. m \in Note
    <2>1. o.id \in SentIds /\ (o.id \in ExchangeIds => o.d = o.id)
      BY <1>6, <1>7 DEF SentIds
    <2>2. numbers[n].own \in Nat
      BY DEF NodesType
    <2> QED BY <1>3, <1>6, <2>1, <2>2 DEF Note
  <1>9. /\ inQueue' \in [Nodes!Node -> [{"sender", "receiver"} -> Seq(Note)]]
        /\ Requests' = Append(Requests, m) /\ ToSuper' = Append(ToSuper, m) /\ ToSub' = Append(ToSub, m)
    BY <1>2, <1>4, <1>8, QueuesPutIn
  <1>10. m.id = o.id /\ m.number = numbers[n].own
    BY <1>3
  <1> QED BY <1>1, <1>2, <1>5, <1>6, <1>8, <1>9, <1>10

LEMMA SentIdIs ==
  ASSUME NEW n \in Nodes!Node, NEW o, o.do = "send", o.id \in ExchangeSends(n) \cup OtherIds
  PROVE  /\ Rank(n, o) = 0 => o.id \notin Tracked
         /\ n = "sub" /\ Rank(n, o) # 0 =>
              (Rank(n, o) = 1 /\ o.id = "Request_SC") \/ (Rank(n, o) = 5 /\ o.id = "DH_Send_XimodM")
         /\ n = "super" /\ Rank(n, o) # 0 =>
              \/ Rank(n, o) = 1 /\ o.id = "SC_Response"
              \/ Rank(n, o) = 6 /\ o.id = "DH_Send_XjmodM"
              \/ Rank(n, o) = 7 /\ o.id = "SC_Rejected"
  <1>1. OtherIds \cap ExchangeIds = {}
    BY IdsAre
  <1>2. CASE n = "sub"
    <2>1. Rank(n, o) = (IF o.id = "Request_SC" THEN 1 ELSE IF o.id = "DH_Send_XimodM" THEN 5 ELSE 0)
      BY <1>2 DEF Rank, SubRank
    <2>2. o.id \in Tracked => o.id \in {"Request_SC", "DH_Send_XimodM"}
      BY <1>1, <1>2 DEF Tracked, ExchangeIds, ExchangeSends
    <2> QED BY <1>2, <2>1, <2>2
  <1>3. CASE n = "super"
    <2>1. Rank(n, o) = (IF o.id = "SC_Response" THEN 1 ELSE IF o.id = "DH_Send_XjmodM" THEN 6
                        ELSE IF o.id = "SC_Rejected" THEN 7 ELSE 0)
      BY <1>3 DEF Rank, SuperRank
    <2>2. o.id \in Tracked => o.id \in {"SC_Response", "SC_Rejected", "DH_Send_XjmodM"}
      BY <1>1, <1>3 DEF Tracked, ExchangeIds, ExchangeSends
    <2> QED BY <1>3, <2>1, <2>2
  <1> QED BY <1>2, <1>3 DEF Nodes!Node

(* What a message does to the stage, by its id.                                   *)
LEMMA PutIn ==
  ASSUME NodesType, NEW m \in Note,
         Requests' = Append(Requests, m), ToSuper' = Append(ToSuper, m), ToSub' = Append(ToSub, m)
  PROVE  /\ \A ids : m.id \notin ids =>
              /\ (No(Requests, ids) => No(Requests', ids)) /\ (One(Requests, ids) => One(Requests', ids))
              /\ No(ToSuper, ids) => No(ToSuper', ids)
              /\ (No(ToSub, ids) => No(ToSub', ids)) /\ (One(ToSub, ids) => One(ToSub', ids))
         /\ \A ids : (No(Requests, ids) => One(Requests', ids)) /\ (No(ToSub, ids) => One(ToSub', ids))
         /\ \A id, k : (m.id = id => m.number = k) =>
              /\ Numbered(ToSuper, id, k) => Numbered(ToSuper', id, k)
              /\ Numbered(ToSub, id, k) => Numbered(ToSub', id, k)
         /\ \A id, k : (No(ToSuper, {id}) => Numbered(ToSuper, id, k)) /\ (No(ToSub, {id}) => Numbered(ToSub, id, k))
  <1>1. Requests \in Seq(Note) /\ ToSuper \in Seq(Note) /\ ToSub \in Seq(Note)
    BY QueuesAre
  <1> QED BY <1>1, PutInIs

LEMMA SendStep ==
  ASSUME KeysInv, NEW n \in Nodes!Node, Nodes!Send(n)
  PROVE  KeysInv'
  <1>1. PICK a \in 1 .. 9, b \in 1 .. 8 : Left(a, b) /\ Meets(a, b)
    BY DEF KeysInv
  <1>2. NodesType
    BY DEF KeysInv
  <1>3. /\ todo[n] # <<>> /\ todo' = [todo EXCEPT ![n] = Tail(todo[n])]
        /\ separate' = separate /\ numbers' = numbers /\ keyOf' = keyOf
        /\ inQueue' \in [Nodes!Node -> [{"sender", "receiver"} -> Seq(Note)]]
    BY <1>2, SendIs
  <1>4. PICK m \in Note :
          /\ m.id = Head(todo[n]).id /\ m.number = numbers[n].own /\ Head(todo[n]).do = "send"
          /\ m.id \in ExchangeSends(n) \cup OtherIds
          /\ Requests' = Append(Requests, m) /\ ToSuper' = Append(ToSuper, m) /\ ToSub' = Append(ToSub, m)
    BY <1>2, SendIs
  <1>5. PICK r : r = Rank(n, Head(todo[n]))
    OBVIOUS
  <1>6. /\ r = 0 => m.id \notin Tracked
        /\ n = "sub" /\ r # 0 => (r = 1 /\ m.id = "Request_SC") \/ (r = 5 /\ m.id = "DH_Send_XimodM")
        /\ n = "super" /\ r # 0 =>
              (r = 1 /\ m.id = "SC_Response") \/ (r = 6 /\ m.id = "DH_Send_XjmodM") \/ (r = 7 /\ m.id = "SC_Rejected")
    BY <1>4, <1>5, SentIdIs
  <1>7. /\ DOMAIN todo' = Nodes!Node /\ \A x \in Nodes!Node : StackOk(x, todo'[x])
        /\ n = "sub" /\ r # 0 => a \in 1 .. 8 /\ r = a /\ Left(a + 1, b)'
        /\ n = "super" /\ r # 0 => \/ b = 8 /\ r = 7 /\ Left(a, 7)'
                                   \/ b \in 1 .. 6 /\ r = b /\ Left(a, b + 1)'
    <2>1. /\ DOMAIN todo' = Nodes!Node /\ \A x \in Nodes!Node : StackOk(x, todo'[x])
          /\ n = "sub" /\ Rank(n, Head(todo[n])) # 0 =>
                a \in 1 .. 8 /\ Rank(n, Head(todo[n])) = a /\ Left(a + 1, b)'
          /\ n = "super" /\ Rank(n, Head(todo[n])) # 0 =>
                \/ b = 8 /\ Rank(n, Head(todo[n])) = 7 /\ Left(a, 7)'
                \/ b \in 1 .. 6 /\ Rank(n, Head(todo[n])) = b /\ Left(a, b + 1)'
      BY <1>1, <1>2, <1>3, NextIsDone
    <2> QED BY <1>5, <2>1
  <1>8. NodesType'
    BY <1>2, <1>3, <1>7 DEF NodesType
  <1>9. CASE r = 0
    <2>1. Requests \in Seq(Note) /\ ToSuper \in Seq(Note) /\ ToSub \in Seq(Note)
      BY <1>2, QueuesAre
    <2>2. Fewer(Requests, Requests') /\ Fewer(ToSuper, ToSuper') /\ Fewer(ToSub, ToSub')
      BY <1>4, <1>6, <1>9, <2>1, FewerPutIn
    <2> QED BY <1>1, <1>2, <1>3, <1>5, <1>9, <2>2, OtherStep
  <1>10. TheKey' = TheKey
    BY <1>3 DEF TheKey
  <1>11. CASE n = "sub" /\ r = 1
    <2>1. a = 1 /\ m.id = "Request_SC" /\ Left(2, b)'
      BY <1>6, <1>7, <1>11
    <2>2. b = 7 /\ No(Requests, {"Request_SC"}) /\ No(ToSub, Responses)
      BY <1>1, <2>1 DEF Meets
    <2>3. /\ One(Requests', {"Request_SC"}) /\ One(ToSub', Responses) /\ No(ToSub', Responses)
          /\ No(ToSub', {"SC_Response"})
      <3>1. One(Requests', {"Request_SC"}) /\ One(ToSub', Responses)
        BY <1>2, <1>4, <2>2, PutIn
      <3>2. No(ToSub', Responses)
        BY <1>2, <1>4, <2>1, <2>2, PutIn DEF Responses
      <3> QED BY <3>1, <3>2 DEF No, Responses
    <2>4. Asked(b)'
      BY <2>2, <2>3 DEF Asked
    <2>5. No(ToSuper', {"DH_Send_XimodM"}) /\ No(ToSub', {"DH_Send_XjmodM"})
      <3>1. No(ToSuper, {"DH_Send_XimodM"}) /\ No(ToSub, {"DH_Send_XjmodM"})
        BY <1>1, <2>1 DEF Meets
      <3> QED BY <1>2, <1>4, <2>1, <3>1, PutIn
    <2>6. keyOf'["sub"] = None
      BY <1>1, <1>3, <2>1 DEF Meets
    <2>7. Meets(2, b)'
      BY <2>4, <2>5, <2>6 DEF Meets
    <2> QED BY <1>8, <2>1, <2>7 DEF KeysInv
  <1>12. CASE n = "sub" /\ r = 5
    <2>1. a = 5 /\ m.id = "DH_Send_XimodM" /\ Left(6, b)' /\ m.number = numbers["sub"].own
      BY <1>4, <1>6, <1>7, <1>12
    <2>2. /\ b \in 2 .. 4 /\ No(Requests, {"Request_SC"}) /\ No(ToSuper, {"DH_Send_XimodM"})
          /\ No(ToSub, {"DH_Send_XjmodM"}) /\ keyOf["sub"] = None
      BY <1>1, <2>1 DEF Meets
    <2>3. /\ Numbered(ToSuper', "DH_Send_XimodM", numbers["sub"].own) /\ No(ToSub', {"DH_Send_XjmodM"})
          /\ No(Requests', {"Request_SC"})
      BY <1>2, <1>4, <2>1, <2>2, PutIn
    <2>4. Exchanging(b)'
      BY <1>3, <2>2, <2>3 DEF Exchanging
    <2>5. Meets(6, b)'
      BY <1>3, <2>2, <2>3, <2>4 DEF Meets
    <2> QED BY <1>8, <2>1, <2>5 DEF KeysInv
  <1>13. CASE n = "super" /\ r = 1
    <2>1. b = 1 /\ m.id = "SC_Response" /\ Left(a, 2)'
      BY <1>6, <1>7, <1>13
    <2>2. a = 2 /\ Asked(1)
      BY <1>1, <2>1 DEF Meets, Exchanging
    <2>3. No(Requests, {"Request_SC"}) /\ No(ToSub, Responses) /\ One(Requests, {"Request_SC"})
      BY <2>2 DEF Asked
    <2>4. No(ToSub, {"SC_Rejected"})
      BY <2>3 DEF No, Responses
    <2>5. /\ No(Requests', {"Request_SC"}) /\ One(Requests', {"Request_SC"}) /\ No(ToSub', {"SC_Rejected"})
          /\ One(ToSub', Responses)
      BY <1>2, <1>4, <2>1, <2>3, <2>4, PutIn
    <2>6. Asked(2)'
      BY <2>5 DEF Asked
    <2>7. No(ToSuper', {"DH_Send_XimodM"}) /\ No(ToSub', {"DH_Send_XjmodM"})
      <3>1. No(ToSuper, {"DH_Send_XimodM"}) /\ No(ToSub, {"DH_Send_XjmodM"})
        BY <1>1, <2>2 DEF Meets
      <3> QED BY <1>2, <1>4, <2>1, <3>1, PutIn
    <2>8. keyOf'["sub"] = None
      BY <1>1, <1>3, <2>2 DEF Meets
    <2>9. Meets(a, 2)'
      BY <2>2, <2>6, <2>7, <2>8 DEF Meets
    <2> QED BY <1>8, <2>1, <2>9 DEF KeysInv
  <1>14. CASE n = "super" /\ r = 6
    <2>1. b = 6 /\ m.id = "DH_Send_XjmodM" /\ Left(a, 7)' /\ m.number = numbers["super"].own
      BY <1>4, <1>6, <1>7, <1>14
    <2>2. a = 6 /\ Exchanging(6)
      BY <1>1, <2>1 DEF Meets, Asked
    <2>3. /\ Numbered(ToSuper, "DH_Send_XimodM", numbers["sub"].own) /\ No(ToSub, {"DH_Send_XjmodM"})
          /\ keyOf["super"] = TheKey /\ No(Requests, {"Request_SC"}) /\ keyOf["sub"] = None
      BY <1>1, <2>2 DEF Meets, Exchanging
    <2>4. /\ Numbered(ToSuper', "DH_Send_XimodM", numbers["sub"].own) /\ No(Requests', {"Request_SC"})
          /\ Numbered(ToSub', "DH_Send_XjmodM", numbers["super"].own)
      BY <1>2, <1>4, <2>1, <2>3, PutIn
    <2>5. Exchanging(7)'
      BY <1>3, <1>10, <2>3, <2>4 DEF Exchanging
    <2>6. Meets(a, 7)'
      BY <1>3, <2>2, <2>3, <2>4, <2>5 DEF Meets
    <2> QED BY <1>8, <2>1, <2>6 DEF KeysInv
  <1>15. CASE n = "super" /\ r = 7
    <2>1. b = 8 /\ m.id = "SC_Rejected" /\ Left(a, 7)'
      BY <1>6, <1>7, <1>15
    <2>2. a = 2 /\ Asked(8)
      BY <1>1, <2>1 DEF Meets, Exchanging
    <2>3. No(Requests, {"Request_SC"}) /\ No(ToSub, Responses) /\ One(Requests, {"Request_SC"})
      BY <2>2 DEF Asked
    <2>4. No(ToSub, {"SC_Response"})
      BY <2>3 DEF No, Responses
    <2>5. /\ No(Requests', {"Request_SC"}) /\ One(Requests', {"Request_SC"}) /\ No(ToSub', {"SC_Response"})
          /\ One(ToSub', Responses)
      BY <1>2, <1>4, <2>1, <2>3, <2>4, PutIn
    <2>6. Asked(7)'
      BY <2>5 DEF Asked
    <2>7. No(ToSuper', {"DH_Send_XimodM"}) /\ No(ToSub', {"DH_Send_XjmodM"})
      <3>1. No(ToSuper, {"DH_Send_XimodM"}) /\ No(ToSub, {"DH_Send_XjmodM"})
        BY <1>1, <2>2 DEF Meets
      <3> QED BY <1>2, <1>4, <2>1, <3>1, PutIn
    <2>8. keyOf'["sub"] = None
      BY <1>1, <1>3, <2>2 DEF Meets
    <2>9. Meets(a, 7)'
      BY <2>2, <2>6, <2>7, <2>8 DEF Meets
    <2> QED BY <1>8, <2>1, <2>9 DEF KeysInv
  <1> QED BY <1>6, <1>9, <1>11, <1>12, <1>13, <1>14, <1>15 DEF Nodes!Node

LEMMA NextRankIs ==
  ASSUME NodesType, NEW a \in 1 .. 9, NEW b \in 1 .. 8, Left(a, b), NEW n \in Nodes!Node, todo[n] # <<>>,
         Rank(n, Head(todo[n])) # 0
  PROVE  /\ n = "sub" => Rank(n, Head(todo[n])) = a
         /\ n = "super" => Rank(n, Head(todo[n])) = b \/ b = 8
  <1>1. PICK r : r = Rank(n, Head(todo[n]))
    OBVIOUS
  <1>2. PICK S : S = (IF n = "sub" THEN a .. 8 ELSE RanksOfSuper(b))
    OBVIOUS
  <1>3. StackOk(n, todo[n]) /\ LeftIs(n, todo[n], S) /\ S \in SUBSET (Nat \ {0})
    <2>1. StackOk(n, todo[n]) /\ LeftIs(n, todo[n], S)
      BY <1>2 DEF NodesType, Left, Nodes!Node
    <2>2. S \in SUBSET (Nat \ {0})
      BY <1>2 DEF RanksOfSuper
    <2> QED BY <2>1, <2>2
  <1>4. r \in S /\ \A x \in S : r <= x
    BY <1>1, <1>3, RestLeft
  <1>5. CASE n = "sub"
    <2>1. r \in a .. 8 /\ \A x \in a .. 8 : r <= x
      BY <1>2, <1>4, <1>5
    <2>2. a \in a .. 8
      BY <2>1
    <2>3. r <= a
      BY <2>1, <2>2
    <2> QED BY <1>1, <1>5, <2>1, <2>3
  <1>6. CASE n = "super" /\ b # 8
    <2>1. r \in b .. 6 /\ \A x \in b .. 6 : r <= x
      BY <1>2, <1>4, <1>6 DEF RanksOfSuper
    <2>2. b \in b .. 6
      BY <2>1
    <2>3. r <= b
      BY <2>1, <2>2
    <2> QED BY <1>1, <1>6, <2>1, <2>3
  <1> QED BY <1>5, <1>6 DEF Nodes!Node

(* A call that awaits its reply is all that is on the stack.                      *)
LEMMA ForeignIs ==
  ASSUME NodesType, NEW a \in 1 .. 9, NEW b \in 1 .. 8, Left(a, b), NEW n \in Nodes!Node, todo[n] # <<>>,
         Foreign(n, Head(todo[n]))
  PROVE  /\ Len(todo[n]) = 2 /\ todo[n][2] = End
         /\ (n = "sub" => a = 9) /\ (n = "super" => b = 7)
  <1>1. StackOk(n, todo[n]) /\ Len(todo[n]) \in Nat \ {0} /\ Head(todo[n]) = todo[n][1]
    BY HeadIs DEF NodesType
  <1>2. Len(todo[n]) = 2
    <2>1. 1 \in 1 .. Len(todo[n])
      BY <1>1
    <2>2. 1 = Len(todo[n]) - 1
      BY <1>1, <2>1 DEF StackOk
    <2> QED BY <1>1, <2>2
  <1>3. todo[n][2] = End
    BY <1>1, <1>2 DEF StackOk
  <1>4. Rank(n, todo[n][1]) = 0 /\ Rank(n, End) = 0
    <2>1. End \in Operation(n) /\ End.do = "catch"
      BY OperationsAre DEF End
    <2> QED BY <1>1, <2>1, Ranks DEF Foreign
  <1>5. \A i \in 1 .. Len(todo[n]) : Rank(n, todo[n][i]) = 0
    <2>1. \A i \in 1 .. Len(todo[n]) : i = 1 \/ i = 2
      BY <1>2
    <2> QED BY <1>3, <1>4, <2>1
  <1>6. CASE n = "sub"
    <2>1. a .. 8 = {}
      <3>1. \A r \in a .. 8 : r # 0
        OBVIOUS
      <3> QED BY <1>5, <1>6, <3>1 DEF Left, LeftIs
    <2>2. a = 9
      <3>1. a \notin a .. 8
        BY <2>1
      <3> QED BY <3>1
    <2> QED BY <1>2, <1>3, <1>6, <2>2
  <1>7. CASE n = "super"
    <2>1. RanksOfSuper(b) = {}
      <3>1. \A r \in RanksOfSuper(b) : r # 0
        BY DEF RanksOfSuper
      <3> QED BY <1>5, <1>7, <3>1 DEF Left, LeftIs
    <2>2. b = 7
      <3>1. b = 8 => 7 \in RanksOfSuper(b)
        BY DEF RanksOfSuper
      <3>2. b \in 1 .. 6 => b \in RanksOfSuper(b)
        BY DEF RanksOfSuper
      <3> QED BY <2>1, <3>1, <3>2
    <2> QED BY <1>2, <1>3, <1>7, <2>2
  <1> QED BY <1>6, <1>7 DEF Nodes!Node

(* An exception leaves nothing on the stack when only a call handles exceptions.  *)
LEMMA ThrowIs ==
  ASSUME NodesType, NEW n \in Nodes!Node, todo[n] # <<>>, Nodes!Throw(n),
         \A j \in 1 .. Len(todo[n]) : Handles(todo[n][j]) => j = Len(todo[n])
  PROVE  /\ Nodes!Caught(n) = Len(todo[n]) /\ numbers' = numbers /\ todo' = [todo EXCEPT ![n] = <<>>]
         /\ DOMAIN keyOf' = Nodes!Node
         /\ \A x \in Nodes!Node : keyOf'[x] = keyOf[x] \/ (x = n /\ keyOf'[x] = None)
  <1>1. /\ todo[n] \in Seq(Operation(n)) /\ Len(todo[n]) \in Nat \ {0} /\ todo[n][Len(todo[n])] = End
        /\ DOMAIN todo[n] = 1 .. Len(todo[n])
    BY HeadIs, LenProperties DEF NodesType, StackOk
  <1>2. /\ Len(todo[n]) \in DOMAIN todo[n] /\ Handles(todo[n][Len(todo[n])])
        /\ \A j \in 1 .. Len(todo[n]) - 1 : ~Handles(todo[n][j])
    <2>1. Handles(End)
      BY DEF Handles, End
    <2>2. ASSUME NEW j \in 1 .. Len(todo[n]) - 1, Handles(todo[n][j]) PROVE FALSE
      <3>1. j \in 1 .. Len(todo[n]) /\ j # Len(todo[n])
        BY <1>1
      <3> QED BY <2>2, <3>1
    <2> QED BY <1>1, <2>1, <2>2
  <1>3. Nodes!Caught(n) = Len(todo[n])
    <2> DEFINE P(k) == /\ todo[n][k].do = "catch" /\ ~todo[n][k].rethrows
                       /\ \A j \in 1 .. k - 1 : todo[n][j].do = "catch" => todo[n][j].rethrows
    <2>1. P(Len(todo[n]))
      BY <1>2 DEF Handles
    <2>2. \A k \in DOMAIN todo[n] : P(k) => k = Len(todo[n])
      BY <1>1 DEF Handles
    <2> HIDE DEF P
    <2>3. (CHOOSE k \in DOMAIN todo[n] : P(k)) = Len(todo[n])
      BY <1>2, <2>1, <2>2
    <2> QED BY <2>3 DEF P, Nodes!Caught
  <1>4. SubSeq(todo[n], Len(todo[n]) + 1, Len(todo[n])) = <<>>
    BY <1>1, SubSeqEmpty
  <1>5. todo' = [todo EXCEPT ![n] = <<>>]
    BY <1>3, <1>4 DEF Nodes!Throw
  <1>6. numbers' = numbers /\ (keyOf' = keyOf \/ keyOf' = [keyOf EXCEPT ![n] = None])
    BY DEF Nodes!Throw
  <1>7. DOMAIN keyOf' = Nodes!Node /\ \A x \in Nodes!Node : keyOf'[x] = keyOf[x] \/ (x = n /\ keyOf'[x] = None)
    BY <1>6 DEF NodesType
  <1> QED BY <1>3, <1>5, <1>6, <1>7

(* A call whose reply is refused or does not come is given up.                    *)
LEMMA CallIsGivenUp ==
  ASSUME NodesType, NEW a \in 1 .. 9, NEW b \in 1 .. 8, Left(a, b), Meets(a, b), NEW n \in Nodes!Node,
         todo[n] # <<>>, Foreign(n, Head(todo[n])), Nodes!Throw(n), separate' = separate,
         inQueue' \in [Nodes!Node -> [{"sender", "receiver"} -> Seq(Note)]],
         Fewer(Requests, Requests'), Fewer(ToSuper, ToSuper'), Fewer(ToSub, ToSub')
  PROVE  KeysInv'
  <1>1. /\ Len(todo[n]) = 2 /\ todo[n][2] = End
        /\ (n = "sub" => a = 9) /\ (n = "super" => b = 7)
    BY ForeignIs
  <1>2. todo[n][1].do = "await"
    BY HeadIs DEF Foreign
  <1>3. \A j \in 1 .. Len(todo[n]) : j = 1 \/ j = 2
    BY <1>1
  <1>4. \A j \in 1 .. Len(todo[n]) : Handles(todo[n][j]) => j = Len(todo[n])
    BY <1>1, <1>2, <1>3 DEF Handles
  <1>5. /\ Nodes!Caught(n) = 2 /\ numbers' = numbers /\ todo' = [todo EXCEPT ![n] = <<>>]
        /\ DOMAIN keyOf' = Nodes!Node
    BY <1>1, <1>4, ThrowIs
  <1>6. keyOf' = keyOf
    <2>1. ~(\E k \in 1 .. 2 : todo[n][k].do = "catch" /\ todo[n][k].clears)
      <3>1. End.clears = FALSE
        BY DEF End
      <3>2. \A k \in 1 .. 2 : k = 1 \/ k = 2
        OBVIOUS
      <3> QED BY <1>1, <1>2, <3>1, <3>2
    <2> QED BY <1>5, <2>1 DEF Nodes!Throw
  <1>7. /\ DOMAIN todo' = Nodes!Node /\ \A x \in Nodes!Node : StackOk(x, todo'[x])
        /\ todo'[n] = <<>> /\ \A x \in Nodes!Node : x # n => todo'[x] = todo[x]
    BY <1>5, NothingLeft, StacksAre
  <1>8. NodesType'
    BY <1>5, <1>6, <1>7 DEF NodesType
  <1>9. Left(a, b)'
    <2>1. 9 .. 8 = {} /\ RanksOfSuper(7) = {}
      BY DEF RanksOfSuper
    <2>2. CASE n = "sub"
      BY <1>1, <1>7, <2>1, <2>2, NothingLeft DEF Left, Nodes!Node
    <2>3. CASE n = "super"
      BY <1>1, <1>7, <2>1, <2>3, NothingLeft DEF Left, Nodes!Node
    <2> QED BY <2>2, <2>3 DEF Nodes!Node
  <1>10. Meets(a, b)'
    BY <1>5, <1>6, MeetsShrinks
  <1> QED BY <1>8, <1>9, <1>10 DEF KeysInv

LEMMA AwaitedRank ==
  ASSUME NEW n \in Nodes!Node, NEW o, o.do = "await", ~Foreign(n, o)
  PROVE  /\ n = "sub" => \/ Rank(n, o) = 2 /\ o.id = "SC_Response"
                         \/ Rank(n, o) = 4 /\ o.id = "DH_Send_X"
                         \/ Rank(n, o) = 6 /\ o.id = "DH_Send_XjmodM"
                         \/ Rank(n, o) = 8 /\ o.id = "Send_Key"
         /\ n = "super" => \/ Rank(n, o) = 2 /\ o.id = "DH_Send_M"
                           \/ Rank(n, o) = 4 /\ o.id = "DH_Send_XimodM"
         /\ Rank(n, o) # 0 /\ o.id \in ExchangeIds \cup {"Send_Key"}
  BY DEF Foreign, Rank, SubRank, SuperRank, ExchangeIds, Nodes!Node

LEMMA ReplyIs ==
  ASSUME NodesType, NEW n \in Nodes!Node, Nodes!Await(n)
  PROVE  /\ todo[n] # <<>> /\ Head(todo[n]).do = "await" /\ separate' = separate
         /\ inQueue' \in [Nodes!Node -> [{"sender", "receiver"} -> Seq(Note)]]
         /\ Fewer(Requests, Requests') /\ Fewer(ToSuper, ToSuper') /\ Fewer(ToSub, ToSub')
         /\ \E m \in Note :
              /\ n = "sub" => ToSub # <<>> /\ m = Head(ToSub) /\ ToSub' = Tail(ToSub)
              /\ n = "super" => ToSuper # <<>> /\ m = Head(ToSuper)
              /\ IF ~Nodes!Awaited(m, Head(todo[n]).id) THEN UNCHANGED <<todo, numbers, keyOf>>
                 ELSE IF m.d # m.id \/ m.id = "SC_Rejected" THEN Nodes!Throw(n) ELSE Nodes!Accepted(n, m)
  <1>1. PICK q \in {"sender", "receiver"} : q = Nodes!ReplyVc
    BY QueuesAre
  <1>2. /\ todo[n] # <<>> /\ Head(todo[n]).do = "await" /\ separate' = separate /\ inQueue[n][q] # <<>>
        /\ inQueue' = [inQueue EXCEPT ![n][q] = Tail(@)]
    BY <1>1 DEF Nodes!Await, Nodes!Do, Nodes!Unchanged
  <1>3. PICK m : m = Head(inQueue[n][q])
    OBVIOUS
  <1>4. /\ inQueue' \in [Nodes!Node -> [{"sender", "receiver"} -> Seq(Note)]] /\ m \in Note
        /\ inQueue'[n][q] = Tail(inQueue[n][q])
        /\ Fewer(Requests, Requests') /\ Fewer(ToSuper, ToSuper') /\ Fewer(ToSub, ToSub')
    BY <1>2, <1>3, QueueTaken
  <1>5. Nodes!ReplyVc' = q
    BY <1>1, <1>2 DEF Nodes!ReplyVc
  <1>6. /\ n = "sub" => ToSub # <<>> /\ m = Head(ToSub) /\ ToSub' = Tail(ToSub)
        /\ n = "super" => ToSuper # <<>> /\ m = Head(ToSuper)
    BY <1>1, <1>2, <1>3, <1>4, <1>5 DEF ToSub, ToSuper
  <1>7. IF ~Nodes!Awaited(m, Head(todo[n]).id) THEN UNCHANGED <<todo, numbers, keyOf>>
        ELSE IF m.d # m.id \/ m.id = "SC_Rejected" THEN Nodes!Throw(n) ELSE Nodes!Accepted(n, m)
    BY <1>1, <1>3 DEF Nodes!Await
  <1> QED BY <1>2, <1>4, <1>6, <1>7

(* The sub node's exchange is refused: both nodes are done with it.               *)
LEMMA Refused ==
  ASSUME NodesType, NEW a \in 1 .. 9, NEW b \in 1 .. 8, Left(a, b), Meets(a, b), todo["sub"] # <<>>,
         Rank("sub", Head(todo["sub"])) = 2, Head(todo["sub"]).do = "await", Nodes!Throw("sub"), separate' = separate,
         inQueue' \in [Nodes!Node -> [{"sender", "receiver"} -> Seq(Note)]],
         Fewer(Requests, Requests'), Fewer(ToSuper, ToSuper'), Fewer(ToSub, ToSub'),
         ToSub # <<>>, Head(ToSub).id = "SC_Rejected", ToSub' = Tail(ToSub)
  PROVE  KeysInv'
  <1> USE DEF Nodes!Node
  <1>1. a = 2 /\ Asked(b) /\ keyOf["sub"] = None
    <2>1. "sub" \in Nodes!Node /\ Rank("sub", Head(todo["sub"])) # 0
      OBVIOUS
    <2>2. a = 2
      BY <2>1, NextRankIs
    <2> QED BY <2>2 DEF Meets
  <1>2. ~No(ToSub, Responses) /\ ~No(ToSub, {"SC_Rejected"})
    BY QueuesAre, FewerTaken DEF No, Responses
  <1>3. b = 7 /\ No(Requests, {"Request_SC"}) /\ One(ToSub, Responses)
    BY <1>1, <1>2 DEF Asked
  <1>4. No(ToSub', Responses)
    BY <1>3, QueuesAre, FewerTaken DEF Responses
  <1>5. \A j \in 1 .. Len(todo["sub"]) : Handles(todo["sub"][j]) => j = Len(todo["sub"])
    <2> SUFFICES ASSUME NEW j \in 1 .. Len(todo["sub"]), Handles(todo["sub"][j]) PROVE j = Len(todo["sub"])
      OBVIOUS
    <2>1. /\ Head(todo["sub"]) = todo["sub"][1] /\ Len(todo["sub"]) \in Nat \ {0} /\ StackOk("sub", todo["sub"])
      BY HeadIs DEF NodesType
    <2>2. j # 1
      BY <2>1 DEF Handles
    <2>3. 1 \in 1 .. Len(todo["sub"]) /\ 1 < j /\ Rank("sub", todo["sub"][1]) # 0
      BY <2>1, <2>2
    <2> QED BY <2>1, <2>3 DEF StackOk
  <1>6. /\ numbers' = numbers /\ todo' = [todo EXCEPT !["sub"] = <<>>] /\ DOMAIN keyOf' = Nodes!Node
        /\ \A x \in Nodes!Node : keyOf'[x] = keyOf[x]
    BY <1>1, <1>5, ThrowIs
  <1>7. /\ DOMAIN todo' = Nodes!Node /\ \A x \in Nodes!Node : StackOk(x, todo'[x])
        /\ todo'["sub"] = <<>> /\ todo'["super"] = todo["super"]
    BY <1>6, NothingLeft, StacksAre
  <1>8. NodesType'
    BY <1>6, <1>7 DEF NodesType
  <1>9. Left(9, b)'
    <2>1. 9 .. 8 = {}
      OBVIOUS
    <2> QED BY <1>7, <2>1, NothingLeft DEF Left
  <1>10. Meets(a, b)' /\ No(Requests', {"Request_SC"})
    <2>1. Meets(a, b)'
      <3>1. numbers'["super"].other = numbers["super"].other /\ numbers'["sub"].other = numbers["sub"].other
        BY <1>6
      <3>2. \A x \in Nodes!Node : keyOf'[x] = keyOf[x] /\ numbers'[x].own = numbers[x].own
        BY <1>6
      <3>3. /\ b # 5 \/ numbers'["super"].other = numbers["super"].other
            /\ a # 7 \/ numbers'["sub"].other = numbers["sub"].other
        BY <3>1
      <3> HIDE DEF Nodes!Node
      <3> QED BY <3>2, <3>3, MeetsShrinks
    <2>2. {"Request_SC"} \in SUBSET Tracked
      BY DEF Tracked, ExchangeIds
    <2> QED BY <1>3, <2>1, <2>2 DEF Fewer
  <1>11. Meets(9, b)'
    BY <1>1, <1>3, <1>4, <1>10 DEF Meets
  <1> HIDE DEF Nodes!Node
  <1>12. 9 \in 1 .. 9
    OBVIOUS
  <1> QED BY <1>8, <1>9, <1>11, <1>12 DEF KeysInv

(* The reply that is awaited comes.                                               *)
LEMMA ReplyIsAccepted ==
  ASSUME NodesType, NEW a \in 1 .. 9, NEW b \in 1 .. 8, Left(a, b), Meets(a, b), NEW n \in Nodes!Node,
         todo[n] # <<>>, Head(todo[n]).do = "await", separate' = separate,
         inQueue' \in [Nodes!Node -> [{"sender", "receiver"} -> Seq(Note)]],
         Fewer(Requests, Requests'), Fewer(ToSuper, ToSuper'), Fewer(ToSub, ToSub'),
         NEW m \in Note, m.id = Head(todo[n]).id, Nodes!Accepted(n, m),
         n = "sub" => ToSub # <<>> /\ m = Head(ToSub) /\ ToSub' = Tail(ToSub),
         n = "super" => ToSuper # <<>> /\ m = Head(ToSuper)
  PROVE  KeysInv'
  <1>1. PICK r : r = Rank(n, Head(todo[n]))
    OBVIOUS
  <1>2. /\ todo' = [todo EXCEPT ![n] = Tail(todo[n])] /\ keyOf' = keyOf
        /\ numbers' = [numbers EXCEPT ![n].other = m.number]
    BY HeadIs DEF Nodes!Accepted
  <1>3. /\ DOMAIN todo' = Nodes!Node /\ \A x \in Nodes!Node : StackOk(x, todo'[x])
        /\ r = 0 => Left(a, b)'
        /\ n = "sub" /\ r # 0 => a \in 1 .. 8 /\ r = a /\ Left(a + 1, b)'
        /\ n = "super" /\ r # 0 => \/ b = 8 /\ r = 7 /\ Left(a, 7)'
                                   \/ b \in 1 .. 6 /\ r = b /\ Left(a, b + 1)'
    <2>1. /\ DOMAIN todo' = Nodes!Node /\ \A x \in Nodes!Node : StackOk(x, todo'[x])
          /\ Rank(n, Head(todo[n])) = 0 => Left(a, b)'
          /\ n = "sub" /\ Rank(n, Head(todo[n])) # 0 =>
                a \in 1 .. 8 /\ Rank(n, Head(todo[n])) = a /\ Left(a + 1, b)'
          /\ n = "super" /\ Rank(n, Head(todo[n])) # 0 =>
                \/ b = 8 /\ Rank(n, Head(todo[n])) = 7 /\ Left(a, 7)'
                \/ b \in 1 .. 6 /\ Rank(n, Head(todo[n])) = b /\ Left(a, b + 1)'
      BY <1>2, NextIsDone
    <2> QED BY <1>1, <2>1
  <1>4. /\ numbers' \in [Nodes!Node -> [own : Nat, other : Nat]]
        /\ numbers'[n].other = m.number
        /\ \A x \in Nodes!Node : numbers'[x].own = numbers[x].own /\ (x # n => numbers'[x].other = numbers[x].other)
    BY <1>2 DEF NodesType, Note
  <1>5. NodesType'
    BY <1>2, <1>3, <1>4 DEF NodesType
  <1>6. ASSUME n = "sub" => a # 7, n = "super" => b # 5 PROVE Meets(a, b)'
    <2>1. b # 5 \/ numbers'["super"].other = numbers["super"].other
      BY <1>4, <1>6 DEF Nodes!Node
    <2>2. a # 7 \/ numbers'["sub"].other = numbers["sub"].other
      BY <1>4, <1>6 DEF Nodes!Node
    <2> QED BY <1>2, <1>4, <2>1, <2>2, MeetsShrinks
  <1>7. CASE Foreign(n, Head(todo[n]))
    <2>1. r = 0 /\ (n = "sub" => a = 9) /\ (n = "super" => b = 7)
      BY <1>1, <1>7, ForeignIs DEF Foreign
    <2>2. Meets(a, b)'
      BY <1>6, <2>1
    <2> QED BY <1>3, <1>5, <2>1, <2>2 DEF KeysInv
  <1>8. CASE n = "sub" /\ ~Foreign(n, Head(todo[n]))
    <2>1. \/ r = 2 /\ m.id = "SC_Response"
          \/ r = 4 /\ m.id = "DH_Send_X"
          \/ r = 6 /\ m.id = "DH_Send_XjmodM"
          \/ r = 8 /\ m.id = "Send_Key"
      BY <1>1, <1>8, AwaitedRank
    <2>2. a = r /\ Left(a + 1, b)'
      BY <1>3, <1>8, <2>1
    <2>3. Meets(a, b)'
      BY <1>6, <1>8, <2>1, <2>2
    <2>4. ToSub \in Seq(Note) /\ ToSub # <<>> /\ ToSub[1] = m /\ 1 \in 1 .. Len(ToSub)
      BY <1>8, QueuesAre, FewerTaken
    <2>5. CASE r = 2 /\ m.id = "SC_Response"
      <3>1. ~No(ToSub, Responses) /\ ~No(ToSub, {"SC_Response"})
        BY <2>4, <2>5 DEF No, Responses
      <3>2. Asked(b)
        BY <2>2, <2>5 DEF Meets
      <3>3. b \in 2 .. 4 /\ No(Requests, {"Request_SC"})
        BY <3>1, <3>2 DEF Asked
      <3>4. No(Requests', {"Request_SC"})
        <4>1. {"Request_SC"} \in SUBSET Tracked
          BY DEF Tracked, ExchangeIds
        <4> QED BY <3>3, <4>1 DEF Fewer
      <3>5. Meets(3, b)'
        BY <2>2, <2>3, <2>5, <3>3, <3>4 DEF Meets
      <3>6. Left(3, b)'
        BY <2>2, <2>5
      <3> QED BY <1>5, <3>5, <3>6 DEF KeysInv
    <2>6. CASE r = 4
      <3>1. Meets(5, b)'
        BY <2>2, <2>3, <2>6 DEF Meets
      <3>2. Left(5, b)'
        BY <2>2, <2>6
      <3> QED BY <1>5, <3>1, <3>2 DEF KeysInv
    <2>7. CASE r = 6 /\ m.id = "DH_Send_XjmodM"
      <3>1. Exchanging(b) /\ ~No(ToSub, {"DH_Send_XjmodM"})
        BY <2>2, <2>4, <2>7, <1>1 DEF Meets, No
      <3>2. b = 7 /\ keyOf["super"] = TheKey /\ m.number = numbers["super"].own
        <4>1. b = 7
          BY <3>1 DEF Exchanging
        <4>2. Numbered(ToSub, "DH_Send_XjmodM", numbers["super"].own) /\ keyOf["super"] = TheKey
          BY <3>1, <4>1 DEF Exchanging
        <4> QED BY <2>4, <2>7, <4>1, <4>2 DEF Numbered
      <3>3. TheKey' = TheKey /\ numbers'["super"].own = numbers["super"].own
        BY <1>4 DEF TheKey, Nodes!Node
      <3>4. numbers'["sub"].other = numbers'["super"].own /\ keyOf'["super"] = TheKey'
        BY <1>2, <1>4, <1>8, <3>2, <3>3
      <3>5. Meets(7, b)'
        BY <2>2, <2>3, <2>7, <3>2, <3>4 DEF Meets
      <3>6. Left(7, b)'
        BY <2>2, <2>7
      <3> QED BY <1>5, <3>5, <3>6 DEF KeysInv
    <2>8. CASE m.id = "Send_Key"
      BY <2>8, IdsAre DEF Note, SentIds
    <2> QED BY <2>1, <2>5, <2>6, <2>7, <2>8
  <1>9. CASE n = "super" /\ ~Foreign(n, Head(todo[n]))
    <2>1. \/ r = 2 /\ m.id = "DH_Send_M"
          \/ r = 4 /\ m.id = "DH_Send_XimodM"
      BY <1>1, <1>9, AwaitedRank
    <2>2. b = r /\ Left(a, b + 1)'
      BY <1>3, <1>9, <2>1
    <2>3. Meets(a, b)'
      BY <1>6, <1>9, <2>1, <2>2
    <2>4. ToSuper \in Seq(Note) /\ ToSuper # <<>> /\ ToSuper[1] = m /\ 1 \in 1 .. Len(ToSuper)
      BY <1>9, QueuesAre, FewerTaken
    <2>5. CASE r = 2
      <3>1. (Asked(2)' => Asked(3)') /\ (Exchanging(2)' => Exchanging(3)')
        BY DEF Asked, Exchanging
      <3>2. Meets(a, 3)'
        BY <2>2, <2>3, <2>5, <3>1 DEF Meets
      <3>3. Left(a, 3)'
        BY <2>2, <2>5
      <3> QED BY <1>5, <3>2, <3>3 DEF KeysInv
    <2>6. CASE r = 4 /\ m.id = "DH_Send_XimodM"
      <3>1. ~No(ToSuper, {"DH_Send_XimodM"})
        BY <2>4, <2>6 DEF No
      <3>2. a = 6 /\ Exchanging(4)
        BY <2>2, <2>6, <3>1 DEF Meets
      <3>3. m.number = numbers["sub"].own
        BY <2>4, <2>6, <3>2 DEF Exchanging, Numbered
      <3>4. numbers'["super"].other = numbers'["sub"].own
        BY <1>4, <1>9, <3>3 DEF Nodes!Node
      <3>5. Exchanging(5)'
        BY <2>2, <2>3, <2>6, <3>2, <3>4 DEF Meets, Exchanging
      <3>6. Meets(6, 5)'
        BY <2>2, <2>3, <2>6, <3>2, <3>5 DEF Meets
      <3>7. Left(6, 5)'
        BY <2>2, <2>6, <3>2
      <3> QED BY <1>5, <3>6, <3>7 DEF KeysInv
    <2> QED BY <2>1, <2>5, <2>6
  <1> QED BY <1>7, <1>8, <1>9 DEF Nodes!Node

LEMMA AwaitStep ==
  ASSUME KeysInv, NEW n \in Nodes!Node, Nodes!Await(n)
  PROVE  KeysInv'
  <1>1. PICK a \in 1 .. 9, b \in 1 .. 8 : Left(a, b) /\ Meets(a, b)
    BY DEF KeysInv
  <1>2. NodesType
    BY DEF KeysInv
  <1>3. /\ todo[n] # <<>> /\ Head(todo[n]).do = "await" /\ separate' = separate
        /\ inQueue' \in [Nodes!Node -> [{"sender", "receiver"} -> Seq(Note)]]
        /\ Fewer(Requests, Requests') /\ Fewer(ToSuper, ToSuper') /\ Fewer(ToSub, ToSub')
    BY <1>2, ReplyIs
  <1>4. PICK m \in Note :
          /\ n = "sub" => ToSub # <<>> /\ m = Head(ToSub) /\ ToSub' = Tail(ToSub)
          /\ n = "super" => ToSuper # <<>> /\ m = Head(ToSuper)
          /\ IF ~Nodes!Awaited(m, Head(todo[n]).id) THEN UNCHANGED <<todo, numbers, keyOf>>
             ELSE IF m.d # m.id \/ m.id = "SC_Rejected" THEN Nodes!Throw(n) ELSE Nodes!Accepted(n, m)
    BY <1>2, ReplyIs
  <1>5. CASE ~Nodes!Awaited(m, Head(todo[n]).id)
    <2>1. todo' = todo /\ numbers' = numbers /\ keyOf' = keyOf
      BY <1>4, <1>5
    <2>2. NodesType'
      BY <1>2, <1>3, <2>1 DEF NodesType
    <2>3. Left(a, b)'
      BY <1>1, <2>1 DEF Left
    <2>4. Meets(a, b)'
      BY <1>1, <1>2, <1>3, <2>1, MeetsShrinks
    <2> QED BY <2>2, <2>3, <2>4 DEF KeysInv
  <1>6. CASE Nodes!Awaited(m, Head(todo[n]).id) /\ (m.d # m.id \/ m.id = "SC_Rejected")
    <2>1. Nodes!Throw(n)
      BY <1>4, <1>6
    <2>2. m.id = Head(todo[n]).id \/ (m.id = "SC_Rejected" /\ Head(todo[n]).id = "SC_Response")
      BY <1>6 DEF Nodes!Awaited
    <2>3. CASE Foreign(n, Head(todo[n]))
      BY <1>1, <1>2, <1>3, <2>1, <2>3, CallIsGivenUp
    <2>4. CASE ~Foreign(n, Head(todo[n]))
      <3>1. m.id \in SentIds /\ m.id # "Send_Key" /\ (m.id \in ExchangeIds => m.d = m.id)
        BY IdsAre DEF Note, SentIds
      <3>2. Head(todo[n]).id \in ExchangeIds \cup {"Send_Key"}
        BY <1>3, <2>4, AwaitedRank
      <3>3. m.id = "SC_Rejected"
        BY <1>6, <2>2, <3>1, <3>2
      <3>4. n = "sub" /\ Rank(n, Head(todo[n])) = 2
        BY <1>3, <2>2, <2>4, <3>3, AwaitedRank DEF Nodes!Node
      <3>5. ToSub # <<>> /\ Head(ToSub).id = "SC_Rejected" /\ ToSub' = Tail(ToSub)
        BY <1>4, <3>3, <3>4
      <3> QED BY <1>1, <1>2, <1>3, <2>1, <3>4, <3>5, Refused
    <2> QED BY <2>3, <2>4
  <1>7. CASE Nodes!Awaited(m, Head(todo[n]).id) /\ ~(m.d # m.id \/ m.id = "SC_Rejected")
    <2>1. Nodes!Accepted(n, m)
      BY <1>4, <1>7
    <2>2. m.id = Head(todo[n]).id
      BY <1>7 DEF Nodes!Awaited
    <2> QED BY <1>1, <1>2, <1>3, <1>4, <2>1, <2>2, ReplyIsAccepted
  <1> QED BY <1>5, <1>6, <1>7

\* the replies of the exchange are awaited without a timeout
ExchangeIsPatient == TimesOut \cap (ExchangeIds \cup {"Send_Key"}) = {}

LEMMA TimeOutStep ==
  ASSUME ExchangeIsPatient, KeysInv, NEW n \in Nodes!Node, Nodes!TimeOut(n)
  PROVE  KeysInv'
  <1>1. PICK a \in 1 .. 9, b \in 1 .. 8 : Left(a, b) /\ Meets(a, b)
    BY DEF KeysInv
  <1>2. /\ NodesType /\ todo[n] # <<>> /\ Head(todo[n]).do = "await" /\ Head(todo[n]).id \in TimesOut
        /\ Nodes!Throw(n) /\ separate' = separate /\ inQueue' = inQueue
    BY DEF KeysInv, Nodes!TimeOut, Nodes!Do, Nodes!Unchanged
  <1>3. Foreign(n, Head(todo[n]))
    BY <1>2, AwaitedRank DEF ExchangeIsPatient
  <1>4. UNCHANGED <<Requests, ToSuper, ToSub>>
    BY <1>2 DEF Requests, ToSuper, ToSub, Nodes!ReplyVc
  <1>5. inQueue' \in [Nodes!Node -> [{"sender", "receiver"} -> Seq(Note)]]
    BY <1>2 DEF NodesType
  <1> QED BY <1>1, <1>2, <1>3, <1>4, <1>5, FewerSame, CallIsGivenUp

LEMMA DrawStep ==
  ASSUME KeysInv, NEW n \in Nodes!Node, Nodes!DrawNumbers(n)
  PROVE  KeysInv'
  <1>1. PICK a \in 1 .. 9, b \in 1 .. 8 : Left(a, b) /\ Meets(a, b)
    BY DEF KeysInv
  <1>2. /\ NodesType /\ todo[n] # <<>> /\ Head(todo[n]).do = "draw"
        /\ todo' = [todo EXCEPT ![n] = Tail(todo[n])] /\ numbers' = [numbers EXCEPT ![n].own = @ + 1]
        /\ separate' = separate /\ inQueue' = inQueue /\ keyOf' = keyOf
    BY HeadIs DEF KeysInv, Nodes!DrawNumbers, Nodes!Do, Nodes!Unchanged
  <1>3. Rank(n, Head(todo[n])) = 3
    BY <1>2 DEF Rank, SubRank, SuperRank
  <1>4. /\ DOMAIN todo' = Nodes!Node /\ \A x \in Nodes!Node : StackOk(x, todo'[x])
        /\ n = "sub" => a = 3 /\ Left(4, b)'
        /\ n = "super" => b = 3 /\ Left(a, 4)'
    <2>1. /\ DOMAIN todo' = Nodes!Node /\ \A x \in Nodes!Node : StackOk(x, todo'[x])
          /\ n = "sub" /\ Rank(n, Head(todo[n])) # 0 =>
                a \in 1 .. 8 /\ Rank(n, Head(todo[n])) = a /\ Left(a + 1, b)'
          /\ n = "super" /\ Rank(n, Head(todo[n])) # 0 =>
                \/ b = 8 /\ Rank(n, Head(todo[n])) = 7 /\ Left(a, 7)'
                \/ b \in 1 .. 6 /\ Rank(n, Head(todo[n])) = b /\ Left(a, b + 1)'
      BY <1>1, <1>2, NextIsDone
    <2> QED BY <1>3, <2>1
  <1>5. /\ numbers' \in [Nodes!Node -> [own : Nat, other : Nat]]
        /\ \A x \in Nodes!Node : numbers'[x].other = numbers[x].other /\ (x # n => numbers'[x].own = numbers[x].own)
    BY <1>2 DEF NodesType
  <1>6. NodesType'
    BY <1>2, <1>4, <1>5 DEF NodesType
  <1>7. UNCHANGED <<Requests, ToSuper, ToSub>>
    BY <1>2 DEF Requests, ToSuper, ToSub, Nodes!ReplyVc
  <1>8. CASE n = "sub"
    <2>1. Meets(3, b) /\ Left(4, b)'
      BY <1>1, <1>4, <1>8
    <2>2. Meets(4, b)'
      BY <1>2, <1>7, <2>1 DEF Meets
    <2> QED BY <1>6, <2>1, <2>2 DEF KeysInv
  <1>9. CASE n = "super"
    <2>1. Meets(a, 3) /\ Left(a, 4)' /\ numbers'["sub"].own = numbers["sub"].own
      BY <1>1, <1>4, <1>5, <1>9 DEF Nodes!Node
    <2>2. Asked(3) => Asked(4)'
      BY <1>7 DEF Asked
    <2>3. Exchanging(3) => Exchanging(4)'
      BY <1>7, <2>1 DEF Exchanging
    <2>4. Meets(a, 4)'
      BY <1>2, <1>7, <2>1, <2>2, <2>3 DEF Meets
    <2> QED BY <1>6, <2>1, <2>4 DEF KeysInv
  <1> QED BY <1>8, <1>9 DEF Nodes!Node

LEMMA KeyStep ==
  ASSUME KeysInv, NEW n \in Nodes!Node, Nodes!KeyIsSet(n)
  PROVE  KeysInv'
  <1>1. PICK a \in 1 .. 9, b \in 1 .. 8 : Left(a, b) /\ Meets(a, b)
    BY DEF KeysInv
  <1>2. /\ NodesType /\ todo[n] # <<>> /\ Head(todo[n]).do = "key"
        /\ todo' = [todo EXCEPT ![n] = Tail(todo[n])]
        /\ keyOf' = [keyOf EXCEPT ![n] = IF n = "sub" THEN <<numbers[n].own, numbers[n].other>>
                                         ELSE <<numbers[n].other, numbers[n].own>>]
        /\ separate' = separate /\ inQueue' = inQueue /\ numbers' = numbers
    BY HeadIs DEF KeysInv, Nodes!KeyIsSet, Nodes!Do, Nodes!Unchanged
  <1>3. Rank(n, Head(todo[n])) = IF n = "sub" THEN 7 ELSE 5
    BY <1>2 DEF Rank, SubRank, SuperRank
  <1>4. /\ DOMAIN todo' = Nodes!Node /\ \A x \in Nodes!Node : StackOk(x, todo'[x])
        /\ n = "sub" => a = 7 /\ Left(8, b)'
        /\ n = "super" => b = 5 /\ Left(a, 6)'
    <2>1. /\ DOMAIN todo' = Nodes!Node /\ \A x \in Nodes!Node : StackOk(x, todo'[x])
          /\ n = "sub" /\ Rank(n, Head(todo[n])) # 0 =>
                a \in 1 .. 8 /\ Rank(n, Head(todo[n])) = a /\ Left(a + 1, b)'
          /\ n = "super" /\ Rank(n, Head(todo[n])) # 0 =>
                \/ b = 8 /\ Rank(n, Head(todo[n])) = 7 /\ Left(a, 7)'
                \/ b \in 1 .. 6 /\ Rank(n, Head(todo[n])) = b /\ Left(a, b + 1)'
      BY <1>1, <1>2, NextIsDone
    <2> QED BY <1>3, <2>1
  <1>5. DOMAIN keyOf' = Nodes!Node
    BY <1>2 DEF NodesType
  <1>6. NodesType'
    BY <1>2, <1>4, <1>5 DEF NodesType
  <1>7. UNCHANGED <<Requests, ToSuper, ToSub, TheKey>>
    BY <1>2 DEF Requests, ToSuper, ToSub, Nodes!ReplyVc, TheKey
  <1>8. CASE n = "sub"
    <2>1. Meets(7, b) /\ Left(8, b)'
      BY <1>1, <1>4, <1>8
    <2>2. b = 7 /\ keyOf["super"] = TheKey /\ numbers["sub"].other = numbers["super"].own
      BY <2>1 DEF Meets
    <2>3. keyOf'["sub"] = <<numbers["sub"].own, numbers["sub"].other>> /\ keyOf'["super"] = keyOf["super"]
      BY <1>2, <1>8 DEF NodesType, Nodes!Node
    <2>4. keyOf'["sub"] = keyOf'["super"]
      BY <2>2, <2>3 DEF TheKey
    <2>5. Meets(8, b)'
      BY <1>7, <2>1, <2>2, <2>4 DEF Meets
    <2> QED BY <1>6, <2>1, <2>5 DEF KeysInv
  <1>9. CASE n = "super"
    <2>1. Meets(a, 5) /\ Left(a, 6)'
      BY <1>1, <1>4, <1>9
    <2>2. a = 6 /\ Exchanging(5)
      BY <2>1 DEF Meets, Asked
    <2>3. keyOf'["super"] = <<numbers["super"].other, numbers["super"].own>> /\ keyOf'["sub"] = keyOf["sub"]
      BY <1>2, <1>9 DEF NodesType, Nodes!Node
    <2>4. keyOf'["super"] = TheKey'
      BY <1>7, <2>2, <2>3 DEF Exchanging, TheKey
    <2>5. Exchanging(6)'
      BY <1>2, <1>7, <2>2, <2>4 DEF Exchanging
    <2>6. Meets(6, 6)'
      BY <1>7, <2>1, <2>2, <2>3, <2>5 DEF Meets
    <2>7. Left(6, 6)'
      BY <2>1, <2>2
    <2> QED BY <1>6, <2>6, <2>7 DEF KeysInv
  <1> QED BY <1>8, <1>9 DEF Nodes!Node

LEMMA KeysInit ==
  Init => KeysInv
  <1> SUFFICES ASSUME Init PROVE KeysInv
    OBVIOUS
  <1>1. /\ separate \in BOOLEAN
        /\ inQueue = [n \in Nodes!Node |-> [q \in {"sender", "receiver"} |-> <<>>]]
        /\ todo = [n \in Nodes!Node |-> <<>>]
        /\ numbers = [n \in Nodes!Node |-> [own |-> 0, other |-> 0]]
        /\ keyOf = [n \in Nodes!Node |-> None]
    BY DEF Init, Nodes!Init
  <1>2. NodesType
    <2>1. \A n \in Nodes!Node : StackOk(n, todo[n])
      BY <1>1, NothingLeft
    <2>2. <<>> \in Seq(Note)
      OBVIOUS
    <2> QED BY <1>1, <2>1, <2>2 DEF NodesType
  <1>3. Left(9, 7)
    <2>1. 9 .. 8 = {} /\ RanksOfSuper(7) = {}
      BY DEF RanksOfSuper
    <2> QED BY <1>1, <2>1, NothingLeft DEF Left, Nodes!Node
  <1>4. Meets(9, 7)
    <2>1. Requests = <<>> /\ ToSuper = <<>> /\ ToSub = <<>>
      BY <1>1 DEF Requests, ToSuper, ToSub, Nodes!ReplyVc, Nodes!Node
    <2>2. \A ids : No(<<>>, ids)
      BY DEF No
    <2>3. keyOf["sub"] = None
      BY <1>1 DEF Nodes!Node
    <2> QED BY <2>1, <2>2, <2>3 DEF Meets
  <1> QED BY <1>2, <1>3, <1>4 DEF KeysInv

LEMMA KeysStep ==
  ASSUME Assumptions, ExchangeIsPatient, KeysInv, [Nodes!Next]_gliVars
  PROVE  KeysInv'
  <1>1. CASE UNCHANGED gliVars
    <2>1. PICK a \in 1 .. 9, b \in 1 .. 8 : Left(a, b) /\ Meets(a, b)
      BY DEF KeysInv
    <2>2. inQueue' = inQueue /\ separate' = separate /\ todo' = todo /\ numbers' = numbers /\ keyOf' = keyOf
      BY <1>1 DEF gliVars
    <2>3. UNCHANGED <<Requests, ToSuper, ToSub>>
      BY <2>2 DEF Requests, ToSuper, ToSub, Nodes!ReplyVc
    <2>4. NodesType /\ NodesType'
      BY <2>2 DEF KeysInv, NodesType
    <2>5. Left(a, b)'
      BY <2>1, <2>2 DEF Left
    <2>6. Meets(a, b)'
      BY <2>1, <2>2, <2>3, <2>4, FewerSame, MeetsShrinks
    <2> QED BY <2>4, <2>5, <2>6 DEF KeysInv
  <1>2. ASSUME NEW n \in Nodes!Node, NEW request, Nodes!StartCall(n, request) PROVE KeysInv'
    BY <1>2, CallStep
  <1>3. ASSUME NEW n \in Nodes!Node, Nodes!handleOneRequest(n) \/ Nodes!handleBufferedRequests(n) \/ Nodes!Leave(n)
        PROVE  KeysInv'
    <2>1. Nodes!Receive(n, todo[n]) \/ Nodes!handleBufferedRequests(n) \/ Nodes!Leave(n)
      BY <1>3 DEF Nodes!handleOneRequest
    <2> QED BY <2>1, ReceiveStep, DrainStep
  <1>4. ASSUME NEW n \in Nodes!Node, Nodes!Send(n) \/ Nodes!Await(n) \/ Nodes!TimeOut(n) PROVE KeysInv'
    BY <1>4, SendStep, AwaitStep, TimeOutStep
  <1>5. ASSUME NEW n \in Nodes!Node, Nodes!DrawNumbers(n) \/ Nodes!KeyIsSet(n) PROVE KeysInv'
    BY <1>5, DrawStep, KeyStep
  <1> QED BY <1>1, <1>2, <1>3, <1>4, <1>5 DEF Nodes!Next

(* GliNodes.KeysAgree: a key of the sub node is that of the super node, whatever  *)
(* calls both nodes make meanwhile, whichever of them are given up, and whether   *)
(* replies have a local vc of their own or not. The replies of the exchange       *)
(* itself are awaited without a timeout, as all are until setTimeout() is called: *)
(* an exchange that is given up leaves its messages in the queues.                *)
THEOREM KeysStayEqual == ExchangeIsPatient => (Spec => []KeysAgree)
  <1> SUFFICES ASSUME ExchangeIsPatient PROVE Spec => []KeysAgree
    OBVIOUS
  <1>1. Init => KeysInv
    BY KeysInit
  <1>2. KeysInv /\ [Next]_vars => KeysInv'
    <2> SUFFICES ASSUME KeysInv, [Next]_vars PROVE KeysInv'
      OBVIOUS
    <2>1. [Nodes!Next]_gliVars
      BY DEF Next, vars, logical
    <2> QED BY <2>1, KeysStep, Assumptions
  <1>3. KeysInv => KeysAgree
    BY DEF KeysInv, Meets, KeysAgree, Nodes!KeysAgree
  <1> QED BY <1>1, <1>2, <1>3, PTL DEF Spec
=================================================================================
