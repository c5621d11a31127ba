------------------------- MODULE SharedCyclicQueue -------------------------
(***************************************************************************)
(* SharedCyclicQueue<T> (OpenOSLib, Common/Templates): the ring of cells   *)
(* in shared memory behind every local virtual channel, the free-buffers   *)
(* list of a global virtual channel and the object pools.                  *)
(*                                                                         *)
(* Here every push() and pop() is one step, as for callers that do not     *)
(* overlap.  CyclicQueueRace.tla breaks the same calls into their single   *)
(* accesses to shared memory.  An element that does not fit blocks the     *)
(* caller or times out without touching the queue, so a pop of an empty    *)
(* queue and a push into a full BLOCKING one are disabled steps.           *)
(***************************************************************************)
EXTENDS Integers, Sequences

CONSTANTS
  Size,     \* number of cells
  Value,    \* type T
  NoValue,  \* a cell never written, a callback not made
  Modes     \* the <<Direction, Blocking>> pairs a master may initialise with

ASSUME SizeAssumption  == Size \in Nat \ {0}
ASSUME ValueAssumption == NoValue \notin Value
ASSUME ModesAssumption ==
  Modes \subseteq {"FIFO", "LIFO"} \X
                  {"BLOCKING", "OVERWRITE_NEWEST", "OVERWRITE_OLDEST", "EXCEPTION"}

VARIABLES
  cells,           \* m_Buffer
  Free,            \* m_GlobalData->Free
  NextWriteCell,   \* m_GlobalData->NextWriteCell
  NextReadCell,    \* m_GlobalData->NextReadCell
  Direction,       \* m_GlobalData->Direction
  Blocking,        \* m_GlobalData->Blocking
  WriteSemaphore,  \* count of m_WriteSemaphore
  ReadSemaphore,   \* count of m_ReadSemaphore
  result,          \* what the last pop() returned
  overwritten      \* the cell the last push() gave to the overwrite callback

pointers == <<NextWriteCell, NextReadCell>>
mode     == <<Direction, Blocking>>
vars     == <<cells, Free, pointers, mode, WriteSemaphore, ReadSemaphore,
              result, overwritten>>

Cell == 0 .. Size - 1

\* (Bug for the mutation runs: the ring does not close.)
Bug_NextCellWithoutWrap(c) == c + 1

\* The cell after c.
NextCell(c) == (c + 1) % Size

\* The cell before c: ( c + Size - 1 ) % Size in unsigned arithmetic.
PreviousCell(c) == (c + Size - 1) % Size

\* initialize() of the master instance.
Init ==
  /\ cells = [c \in Cell |-> NoValue]
  /\ Free = Size
  /\ NextWriteCell = 0
  /\ NextReadCell = 0
  /\ \E m \in Modes : Direction = m[1] /\ Blocking = m[2]
  /\ WriteSemaphore = Size
  /\ ReadSemaphore = 0
  /\ result = NoValue
  /\ overwritten = NoValue

\* (Bug: a full queue still counts the new element as one more to read.)
Bug_CountAlways ==
  /\ Free' = IF Free > 0 THEN Free - 1 ELSE Free
  /\ ReadSemaphore' = ReadSemaphore + 1

\* "If a formerly empty cell was written": Free falls, one more can be read.
CountWrittenCell ==
  IF Free > 0
  THEN Free' = Free - 1 /\ ReadSemaphore' = ReadSemaphore + 1
  ELSE UNCHANGED <<Free, ReadSemaphore>>

\* (Bug: the read pointer stays behind when the oldest cell is overwritten.)
Bug_AdvanceWithoutReadPointer(left) ==
  /\ NextWriteCell' = NextCell(NextWriteCell)
  /\ NextReadCell' = IF Direction = "LIFO" THEN NextWriteCell ELSE NextReadCell

\* The pointers after a push that leaves `left` cells free.
AdvanceAfterPush(left) ==
  LET stays == left = 0 /\ Blocking = "OVERWRITE_NEWEST"
  IN /\ NextWriteCell' = IF stays THEN NextWriteCell ELSE NextCell(NextWriteCell)
     /\ NextReadCell' =
          CASE Direction = "LIFO" -> NextWriteCell
            [] Direction = "FIFO" /\ left = 0 /\ Blocking = "OVERWRITE_OLDEST"
                 -> NextCell(NextWriteCell)
            [] OTHER -> NextReadCell

\* push( Value )
push(v) ==
  /\ \/ Blocking = "BLOCKING" /\ WriteSemaphore > 0
                              /\ WriteSemaphore' = WriteSemaphore - 1
     \/ Blocking /= "BLOCKING" /\ UNCHANGED WriteSemaphore
  /\ overwritten' = IF Free = 0 THEN cells[NextWriteCell] ELSE NoValue
  /\ cells' = [cells EXCEPT ![NextWriteCell] = v]
  /\ CountWrittenCell
  /\ AdvanceAfterPush(Free')
  /\ UNCHANGED <<mode, result>>

\* pop()
pop ==
  /\ ReadSemaphore > 0
  /\ ReadSemaphore' = ReadSemaphore - 1
  /\ result' = cells[NextReadCell]
  /\ IF Free < Size
     THEN /\ Free' = Free + 1
          /\ WriteSemaphore' = IF Blocking = "BLOCKING" THEN WriteSemaphore + 1
                                                        ELSE WriteSemaphore
     ELSE UNCHANGED <<Free, WriteSemaphore>>
  /\ IF Direction = "FIFO"
     THEN NextReadCell' = NextCell(NextReadCell) /\ UNCHANGED NextWriteCell
     ELSE /\ NextReadCell' = PreviousCell(NextReadCell)
          /\ NextWriteCell' = NextCell(PreviousCell(NextReadCell))
  /\ UNCHANGED <<cells, mode, overwritten>>

Next == pop \/ \E v \in Value : push(v)

Spec == Init /\ [][Next]_vars

----------------------------------------------------------------------------
TypeOK ==
  /\ cells \in [Cell -> Value \cup {NoValue}]
  /\ Free \in 0 .. Size
  /\ NextWriteCell \in Cell
  /\ NextReadCell \in Cell
  /\ <<Direction, Blocking>> \in Modes
  /\ WriteSemaphore \in 0 .. Size
  /\ ReadSemaphore \in 0 .. Size
  /\ result \in Value \cup {NoValue}
  /\ overwritten \in Value \cup {NoValue}

\* The two semaphores count what the class comment says they count, "free and
\* occupied cells": a pop is admitted exactly while a cell is occupied, and a
\* push into a BLOCKING queue exactly while a cell is free.
SemaphoresCountCells ==
  /\ ReadSemaphore = Size - Free
  /\ Blocking = "BLOCKING" => WriteSemaphore = Free

\* The elements in the ring, oldest first: a FIFO queue is read upwards from
\* NextReadCell, a LIFO queue has its newest element in NextReadCell.
Contents ==
  LET n == Size - Free
  IN [i \in 1 .. n |->
        IF Direction = "FIFO" THEN cells[(NextReadCell + i - 1) % Size]
                              ELSE cells[(NextReadCell + Size + i - n) % Size]]

\* The ring behaves as the bounded queue it stands for, in every mode of Modes:
\* elements come out once each in FIFO or LIFO order, and a push that meets a
\* full queue replaces exactly the element its policy names and reports that one
\* to the overwrite callback.
Abstract == INSTANCE BoundedQueue
              WITH items <- Contents, direction <- Direction, blocking <- Blocking
ImplementsBoundedQueue == Abstract!Spec
=============================================================================
