----------------------------- MODULE MCSharedMemory -----------------------------
(* What several processes keep in memory they share, side by side: the memory    *)
(* itself, a map in it, the tables of global vcs, a queue of cells at the grain  *)
(* of loads and stores, and a global vc one of whose queues overwrites.  A       *)
(* behaviour exercises one of them, the others stay in an initial state.         *)
EXTENDS Naturals, TLC

CONSTANTS Processes, First, Names, MaxSegments, MaxSessions,
          MapUsers, MapIds, Capacity,
          Users, Ids, Sizes, Slots, Unused, MaxSegment,
          Producers, Consumers, Workers, RingSize, MaxPushes, MaxPops, NoValue,
          s1, s2, r1, r2, r3, MaxMessages

VARIABLES component,
          created, file, header, handle, object, process, sessionId,
          listed, count, owner, op, overtaken,
          index, vc, opened, named, segment, sessions, assuring,
          Blocking, cells, Free, NextWriteCell, NextReadCell, WriteSemaphore, ReadSemaphore,
          AccessSemaphore, pushLock, at, hand, freeReg, pushed, popped,
          UsageCount, FreeBuffersQueue, content, queue, Messages, ActionSemaphore, pc, buf, slot,
          written, delivered

Objects == INSTANCE SharedMemoryObjects
Containers == INSTANCE Containers WITH Users <- MapUsers, Ids <- MapIds, Size <- Capacity, cells <- listed
Tables == INSTANCE VcTables WITH Recreate <- FALSE
Ring == INSTANCE CyclicQueueRace WITH Size <- RingSize, Policies <- {"BLOCKING", "EXCEPTION"}, pc <- at
\* r1 and r3 read vc 0, which keeps its newest message only, r2 reads vc 1
Channel == INSTANCE GlobalVc WITH
    NumberOfBuffers <- 2, NumberOfVcs <- 2, QueueSize <- (0 :> 1) @@ (1 :> 2), Refusing <- {1}, Lifo <- {0},
    Senders <- {s1, s2}, Receivers <- {r1, r2, r3}, VcOf <- (r1 :> 0) @@ (r2 :> 1) @@ (r3 :> 0),
    Copying <- {s1}, Impatient <- {s1}, ReadSemaphore <- Messages

ASSUME Assumptions ==
    /\ Objects!SharedMemoryAssumption /\ Containers!ContainersAssumption /\ Tables!VcTablesAssumption
    /\ Ring!SizeAssumption /\ Ring!PolicyAssumption /\ Ring!BoundAssumption
    /\ Ring!ThreadAssumption
ASSUME ChannelAssumption == Channel!SizesAssumption /\ Channel!ThreadsAssumption

objectVars == <<created, file, header, handle, object, process, sessionId>>
mapVars == <<listed, count, owner, op, overtaken>>
tableVars == <<index, vc, opened, named, segment, sessions, assuring>>
ringVars == <<Blocking, cells, Free, NextWriteCell, NextReadCell, WriteSemaphore, ReadSemaphore,
              AccessSemaphore, pushLock, at, hand, freeReg, pushed, popped>>
channelVars == <<UsageCount, FreeBuffersQueue, content, queue, Messages, ActionSemaphore, pc, buf, slot,
                 written, delivered>>
vars == <<component, objectVars, mapVars, tableVars, ringVars, channelVars>>

Init ==
    /\ component \in {"objects", "map", "tables", "ring", "channel"}
    /\ Objects!Init /\ Containers!Init /\ Tables!Init /\ Channel!Init
    /\ Ring!Init /\ (component = "ring" \/ Blocking = "BLOCKING")

Next ==
    /\ UNCHANGED component
    /\ \/ component = "objects" /\ Objects!Next /\ UNCHANGED <<mapVars, tableVars, ringVars, channelVars>>
       \/ component = "map" /\ Containers!Next /\ UNCHANGED <<objectVars, tableVars, ringVars, channelVars>>
       \/ component = "tables" /\ Tables!Next /\ UNCHANGED <<objectVars, mapVars, ringVars, channelVars>>
       \/ component = "ring" /\ Ring!Next /\ UNCHANGED <<objectVars, mapVars, tableVars, channelVars>>
       \/ component = "channel" /\ Channel!Next /\ UNCHANGED <<objectVars, mapVars, tableVars, ringVars>>

Spec == Init /\ [][Next]_vars

(* The allocation counter of a shared memory counts its users, see              *)
(* SharedMemoryObjects.                                                         *)
CounterIsExact == Objects!CounterIsExact

(* A list that is searched by bisection stays sorted, see Containers.           *)
SortedUnlessOvertaken == Containers!SortedUnlessOvertaken

(* Processes that use one global vc meet in one shared memory, see VcTables.    *)
ProcessesMeet == Tables!ProcessesMeet

(* Concurrent pushes and pops never show a value twice, torn or too early, and  *)
(* no free buffer is given to two threads, see CyclicQueueRace.                 *)
RingIsSafe == Ring!ReadsFollowWrites /\ Ring!HandsDisjoint

(* With an overwriting queue whose readers race with the overwrite, semaphores  *)
(* count messages and a claimed buffer is in no queue, see GlobalVc.            *)
OverwritingIsSafe == Channel!SemaphoreCountsMessages /\ Channel!ClaimedBufferUnused

=================================================================================
