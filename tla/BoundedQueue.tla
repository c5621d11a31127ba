---------------------------- MODULE BoundedQueue ----------------------------
(***************************************************************************)
(* What a SharedCyclicQueue promises to one caller at a time: a queue of   *)
(* at most Size elements, delivered in FIFO or LIFO order, with a policy   *)
(* for a push that meets a full queue.  There are no cells, no pointers    *)
(* and no counters here; SharedCyclicQueue.tla is shown to implement this. *)
(***************************************************************************)
EXTENDS Naturals, Sequences

CONSTANTS
  Size,     \* number of elements the queue can hold
  Value,    \* what can be pushed
  NoValue   \* "nothing": not a Value

VARIABLES
  items,        \* the elements, the oldest first
  direction,    \* "FIFO" or "LIFO"
  blocking,     \* the policy for a full queue
  result,       \* what the last pop returned
  overwritten   \* what the last push handed to the overwrite callback

vars == <<items, direction, blocking, result, overwritten>>

\* SharedCyclicQueue.hh:22-23
Directions == {"FIFO", "LIFO"}
Policies   == {"BLOCKING", "OVERWRITE_NEWEST", "OVERWRITE_OLDEST", "EXCEPTION"}

IsFull == Len(items) = Size

Init ==
  /\ items = <<>>
  /\ direction \in Directions
  /\ blocking \in Policies
  /\ result = NoValue
  /\ overwritten = NoValue

PushIntoFreeCell(v) ==
  /\ ~IsFull
  /\ items' = Append(items, v)
  /\ overwritten' = NoValue
  /\ UNCHANGED <<direction, blocking, result>>

PushOverOldest(v) ==
  /\ IsFull
  /\ blocking = "OVERWRITE_OLDEST"
  /\ items' = Append(Tail(items), v)
  /\ overwritten' = Head(items)
  /\ UNCHANGED <<direction, blocking, result>>

PushOverNewest(v) ==
  /\ IsFull
  /\ blocking = "OVERWRITE_NEWEST"
  /\ items' = [items EXCEPT ![Size] = v]
  /\ overwritten' = items[Size]
  /\ UNCHANGED <<direction, blocking, result>>

Pop ==
  /\ items /= <<>>
  /\ IF direction = "FIFO"
     THEN /\ result' = Head(items)
          /\ items' = Tail(items)
     ELSE /\ result' = items[Len(items)]
          /\ items' = SubSeq(items, 1, Len(items) - 1)
  /\ UNCHANGED <<direction, blocking, overwritten>>

Next ==
  \/ \E v \in Value : PushIntoFreeCell(v) \/ PushOverOldest(v) \/ PushOverNewest(v)
  \/ Pop

Spec == Init /\ [][Next]_vars
=============================================================================
