--------------------------- MODULE CyclicQueueRace ---------------------------
(***************************************************************************)
(* The FIFO SharedCyclicQueue again, with push() and pop() cut into their  *)
(* accesses to shared memory.  pop() holds m_AccessSemaphore; in push()    *)
(* the ProtectedScope on that semaphore is commented out, so a push and a  *)
(* pop interleave freely, and the plain `Free--` and `Free++` are a load   *)
(* and a store each.                                                       *)
(*                                                                         *)
(* The callers modelled serialise their pushes with a semaphore of their   *)
(* own (pushLock).  The queue of a local vc is BLOCKING: GlobalVc pushes   *)
(* fresh values under its action semaphore, consumers pop and drop them.   *)
(* The list of free buffers is an EXCEPTION queue that starts full:        *)
(* workers pop a buffer and push it back, under the allocation semaphore.  *)
(***************************************************************************)
EXTENDS Integers, Sequences

CONSTANTS
  Size,
  Policies,     \* the uses considered: of "BLOCKING" and "EXCEPTION"
  Producers, Consumers, Workers,
  MaxPushes,    \* bound: values the producers create
  MaxPops,      \* bound: pops begun after which no further one begins
  NoValue

SizeAssumption     == Size \in Nat \ {0}
PolicyAssumption   == Policies \subseteq {"BLOCKING", "EXCEPTION"}
BoundAssumption    == MaxPushes \in Nat /\ MaxPops \in Nat
ThreadAssumption   == Workers \cap (Producers \cup Consumers) = {} /\ NoValue \notin Nat

Threads == Producers \cup Consumers \cup Workers

VARIABLES
  Blocking,  \* the policy the queue was created with
  cells, Free, NextWriteCell, NextReadCell,
  WriteSemaphore, ReadSemaphore, AccessSemaphore,
  pushLock,  \* 1 while no caller is inside its push section
  pc,        \* per thread: the access it performs next
  hand,      \* per thread: the value it pushes, or has popped
  freeReg,   \* per thread: the register that holds the loaded Free
  pushed,    \* history: values in the order they were stored
  popped     \* history: values in the order they were read

queueVars == <<Blocking, cells, Free, NextWriteCell, NextReadCell>>
semVars   == <<WriteSemaphore, ReadSemaphore, AccessSemaphore, pushLock>>
history   == <<pushed, popped>>
vars      == <<queueVars, semVars, pc, hand, freeReg, history>>

Cell == 0 .. Size - 1
NextCell(c) == (c + 1) % Size

\* The master of the free-buffers list pushes every buffer number before anyone
\* else sees the queue.
IsFreeList == Blocking = "EXCEPTION"

Init ==
  LET full == IsFreeList
  IN /\ Blocking \in Policies
     /\ cells = [c \in Cell |-> IF full THEN c + 1 ELSE NoValue]
     /\ Free = IF full THEN 0 ELSE Size
     /\ NextWriteCell = 0
     /\ NextReadCell = 0
     /\ WriteSemaphore = IF full THEN 0 ELSE Size
     /\ ReadSemaphore = IF full THEN Size ELSE 0
     /\ AccessSemaphore = 1
     /\ pushLock = 1
     /\ pc = [t \in Threads |-> "idle"]
     /\ hand = [t \in Threads |-> NoValue]
     /\ freeReg = [t \in Threads |-> 0]
     /\ pushed = IF full THEN [i \in 1 .. Size |-> i] ELSE <<>>
     /\ popped = <<>>

\* Thread t is at access `at` and goes on to `next`.
Step(t, at, next) == pc[t] = at /\ pc' = [pc EXCEPT ![t] = next]

----------------------------------------------------------------------------
(* push() *)

\* A producer takes a fresh value; a worker already has one.
PushCall(t) ==
  /\ Step(t, "idle", "pushWait")
  /\ \/ /\ t \in Producers /\ ~IsFreeList
        /\ Len(pushed) < MaxPushes
        /\ hand' = [hand EXCEPT ![t] = <<t, Len(pushed)>>]
     \/ /\ t \in Workers /\ hand[t] /= NoValue
        /\ UNCHANGED hand
  /\ pushLock = 1 /\ pushLock' = 0
  /\ UNCHANGED <<queueVars, WriteSemaphore, ReadSemaphore, AccessSemaphore,
                 freeReg, history>>

\* (Bug: a BLOCKING push does not wait for a free cell.)
Bug_PushWithoutWait(t) ==
  /\ Step(t, "pushWait", "pushStore")
  /\ UNCHANGED <<queueVars, semVars, hand, freeReg, history>>

\* m_WriteSemaphore.wait(), in BLOCKING queues only.
PushWait(t) ==
  /\ Step(t, "pushWait", "pushStore")
  /\ IF Blocking = "BLOCKING"
     THEN WriteSemaphore > 0 /\ WriteSemaphore' = WriteSemaphore - 1
     ELSE UNCHANGED WriteSemaphore
  /\ UNCHANGED <<queueVars, ReadSemaphore, AccessSemaphore, pushLock, hand,
                 freeReg, history>>

PushStore(t) ==
  /\ Step(t, "pushStore", "pushTest")
  /\ cells' = [cells EXCEPT ![NextWriteCell] = hand[t]]
  /\ pushed' = Append(pushed, hand[t])
  /\ hand' = [hand EXCEPT ![t] = NoValue]
  /\ UNCHANGED <<Blocking, Free, NextWriteCell, NextReadCell, semVars, freeReg, popped>>

\* if ( Free > 0 )
PushTest(t) ==
  /\ Step(t, "pushTest", IF Free > 0 THEN "pushLoad" ELSE "pushAdvance")
  /\ UNCHANGED <<queueVars, semVars, hand, freeReg, history>>

\* the load of Free--
PushLoad(t) ==
  /\ Step(t, "pushLoad", "pushCount")
  /\ freeReg' = [freeReg EXCEPT ![t] = Free]
  /\ UNCHANGED <<queueVars, semVars, hand, history>>

\* the store of Free--
PushCount(t) ==
  /\ Step(t, "pushCount", "pushPost")
  /\ Free' = freeReg[t] - 1
  /\ UNCHANGED <<Blocking, cells, NextWriteCell, NextReadCell, semVars, hand, freeReg, history>>

PushPost(t) ==
  /\ Step(t, "pushPost", "pushAdvance")
  /\ ReadSemaphore' = ReadSemaphore + 1
  /\ UNCHANGED <<queueVars, WriteSemaphore, AccessSemaphore, pushLock, hand,
                 freeReg, history>>

\* A BLOCKING or EXCEPTION queue advances alike whatever Free is.  The caller
\* leaves its own section.
PushAdvance(t) ==
  /\ Step(t, "pushAdvance", "idle")
  /\ NextWriteCell' = NextCell(NextWriteCell)
  /\ pushLock' = 1
  /\ UNCHANGED <<Blocking, cells, Free, NextReadCell, WriteSemaphore, ReadSemaphore,
                 AccessSemaphore, hand, freeReg, history>>

----------------------------------------------------------------------------
(* pop() *)

\* m_ReadSemaphore.wait()
PopWait(t) ==
  /\ IF IsFreeList THEN t \in Workers ELSE t \in Consumers
  /\ hand[t] = NoValue
  /\ Len(popped) < MaxPops
  /\ Step(t, "idle", "popEnter")
  /\ ReadSemaphore > 0
  /\ ReadSemaphore' = ReadSemaphore - 1
  /\ UNCHANGED <<queueVars, WriteSemaphore, AccessSemaphore, pushLock, hand,
                 freeReg, history>>

\* (Bug: the access semaphore is not taken by pop either.)
Bug_PopEnterUnprotected(t) ==
  /\ Step(t, "popEnter", "popRead")
  /\ UNCHANGED <<queueVars, semVars, hand, freeReg, history>>

\* ProtectedScope Access
PopEnter(t) ==
  /\ Step(t, "popEnter", "popRead")
  /\ AccessSemaphore > 0
  /\ AccessSemaphore' = AccessSemaphore - 1
  /\ UNCHANGED <<queueVars, WriteSemaphore, ReadSemaphore, pushLock, hand,
                 freeReg, history>>

PopRead(t) ==
  /\ Step(t, "popRead", "popTest")
  /\ hand' = [hand EXCEPT ![t] = cells[NextReadCell]]
  /\ popped' = Append(popped, cells[NextReadCell])
  /\ UNCHANGED <<queueVars, semVars, freeReg, pushed>>

\* if ( Free < Size )
PopTest(t) ==
  /\ Step(t, "popTest", IF Free < Size THEN "popLoad" ELSE "popAdvance")
  /\ UNCHANGED <<queueVars, semVars, hand, freeReg, history>>

\* the load of Free++
PopLoad(t) ==
  /\ Step(t, "popLoad", "popCount")
  /\ freeReg' = [freeReg EXCEPT ![t] = Free]
  /\ UNCHANGED <<queueVars, semVars, hand, history>>

\* the store of Free++
PopCount(t) ==
  /\ Step(t, "popCount", "popPost")
  /\ Free' = freeReg[t] + 1
  /\ UNCHANGED <<Blocking, cells, NextWriteCell, NextReadCell, semVars, hand, freeReg, history>>

PopPost(t) ==
  /\ Step(t, "popPost", "popAdvance")
  /\ WriteSemaphore' = IF Blocking = "BLOCKING" THEN WriteSemaphore + 1
                                                ELSE WriteSemaphore
  /\ UNCHANGED <<queueVars, ReadSemaphore, AccessSemaphore, pushLock, hand,
                 freeReg, history>>

\* The scope ends; a consumer drops what it got, a worker keeps it.
PopAdvance(t) ==
  /\ Step(t, "popAdvance", "idle")
  /\ NextReadCell' = NextCell(NextReadCell)
  /\ AccessSemaphore' = AccessSemaphore + 1
  /\ hand' = [hand EXCEPT ![t] = IF t \in Consumers THEN NoValue ELSE @]
  /\ UNCHANGED <<Blocking, cells, Free, NextWriteCell, WriteSemaphore, ReadSemaphore,
                 pushLock, freeReg, history>>

----------------------------------------------------------------------------
push(t) == \/ PushCall(t) \/ PushWait(t) \/ PushStore(t) \/ PushTest(t)
           \/ PushLoad(t) \/ PushCount(t) \/ PushPost(t) \/ PushAdvance(t)
pop(t)  == \/ PopWait(t) \/ PopEnter(t) \/ PopRead(t) \/ PopTest(t)
           \/ PopLoad(t) \/ PopCount(t) \/ PopPost(t) \/ PopAdvance(t)

Next == \E t \in Threads : push(t) \/ pop(t)

Spec == Init /\ [][Next]_vars

----------------------------------------------------------------------------
TypeOK ==
  /\ Blocking \in Policies
  /\ Free \in 0 .. Size
  /\ NextWriteCell \in Cell /\ NextReadCell \in Cell
  /\ WriteSemaphore \in 0 .. Size
  /\ ReadSemaphore \in 0 .. Size
  /\ AccessSemaphore \in {0, 1} /\ pushLock \in {0, 1}
  /\ \A t \in Threads : freeReg[t] \in 0 .. Size

\* While the counter race of Free goes on underneath, no reader ever sees a
\* value out of order, twice, torn or overwritten: what was read is a prefix of
\* what was stored.
ReadsFollowWrites ==
  /\ Len(popped) <= Len(pushed)
  /\ \A i \in 1 .. Len(popped) : popped[i] = pushed[i]

\* Every buffer number of the free-buffers list is in at most one hand: two
\* threads never claim the same buffer.
HandsDisjoint ==
  \A t, u \in Workers : t /= u /\ hand[t] /= NoValue => hand[t] /= hand[u]

\* "semaphores as counters for free and occupied cells": when no call is under
\* way, the elements stored and not read are counted by the read semaphore.
AtRest == \A t \in Threads : pc[t] = "idle"
RestCountsAgree ==
  AtRest => /\ ReadSemaphore = Len(pushed) - Len(popped)
            /\ Free = Size - ReadSemaphore
=============================================================================
