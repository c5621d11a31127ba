--------------------------- MODULE SharedMemoryObjects ---------------------------
(* Shared memory objects, their files and the handles of each process:          *)
(* Allocator/SharedMemory.cc, Managers/AllocatorManager.cc and the shared       *)
(* memory operations of Managers/FileManager.cc.                                *)
(*                                                                              *)
(* A name denotes a segment while its file is linked.  Every segment counts the *)
(* objects attached to it in its header; the last one to leave removes the      *)
(* file.  A process keeps a list of the files it has open and is given the      *)
(* handle in that list when it opens a name again.                              *)
EXTENDS Naturals, FiniteSets

CONSTANTS
    Processes,     \* processes that may exist
    First,         \* the one that exists at the beginning
    Names,         \* names of shared memory objects
    MaxSegments,   \* bound: segments created
    MaxSessions    \* bound: sessions

SharedMemoryAssumption ==
    First \in Processes /\ MaxSegments \in Nat \ {0} /\ MaxSessions \in Nat \ {0}

Segments == 1 .. MaxSegments

VARIABLES
    created,   \* segments created so far
    file,      \* the segment a name is linked to, 0 when there is none
    header,    \* magic number written, AllocationCounter and MemorySessionId of a segment
    handle,    \* the segment a process has open under a name, 0 when not listed
    object,    \* the segment the SharedMemory object of a process is mapped to
    process,   \* "none", "alive", or "init": forked and not executed yet
    sessionId  \* OpenOS::getSessionId()

vars == <<created, file, header, handle, object, process, sessionId>>

Fresh == [magic |-> FALSE, counter |-> 0, session |-> 0]

Init ==
    /\ created = 0
    /\ file = [n \in Names |-> 0]
    /\ header = [s \in Segments |-> Fresh]
    /\ handle = [p \in Processes |-> [n \in Names |-> 0]]
    /\ object = [p \in Processes |-> [n \in Names |-> 0]]
    /\ process = [p \in Processes |-> IF p = First THEN "alive" ELSE "none"]
    /\ sessionId = 1

Alive(p) == process[p] # "none"

(* createSharedMemory(): an existing file is taken as it is.                    *)
createSharedMemory(n) ==
    IF file[n] # 0 THEN UNCHANGED <<created, file>>
    ELSE /\ created < MaxSegments
         /\ created' = created + 1
         /\ file' = [file EXCEPT ![n] = created + 1]

(* openSharedMemory(): the handle listed under the name, else that of the file. *)
Opened(p, n) == IF handle[p][n] # 0 THEN handle[p][n] ELSE file'[n]
openSharedMemory(p, n) == handle' = [handle EXCEPT ![p][n] = Opened(p, n)]

Attach(p, n) == object' = [object EXCEPT ![p][n] = Opened(p, n)]

(* initialize() as master: the first allocation of a session starts the count.  *)
Master(h) ==
    [magic |-> TRUE, session |-> sessionId,
     counter |-> IF h.session # sessionId THEN 1 ELSE h.counter + 1]

InitializeMaster(p, n) ==
    /\ Alive(p) /\ object[p][n] = 0
    /\ createSharedMemory(n)
    /\ openSharedMemory(p, n)
    /\ Attach(p, n)
    /\ header' = [header EXCEPT ![Opened(p, n)] = Master(@)]
    /\ UNCHANGED <<process, sessionId>>

(* initialize() as slave: a header without magic number or of another session   *)
(* is refused, and the handle stays in the list.                                *)
InitializeSlave(p, n) ==
    /\ Alive(p) /\ object[p][n] = 0
    /\ UNCHANGED <<created, file, process, sessionId>>
    /\ Opened(p, n) # 0
    /\ openSharedMemory(p, n)
    /\ LET s == Opened(p, n) IN
       IF header[s].magic /\ header[s].session = sessionId
       THEN Attach(p, n) /\ header' = [header EXCEPT ![s].counter = @ + 1]
       ELSE UNCHANGED <<object, header>>

(* deinitialize(): closeFile() does nothing in a forked process that keeps its  *)
(* handles for the program it will execute.                                     *)
closeFile(p, n) == handle' = IF process[p] = "init" THEN handle ELSE [handle EXCEPT ![p][n] = 0]
deleteSharedMemory(n) == file' = [file EXCEPT ![n] = 0]

Deinitialize(p, n) ==
    /\ Alive(p) /\ object[p][n] # 0
    /\ object' = [object EXCEPT ![p][n] = 0]
    /\ LET s == object[p][n] IN
       IF header[s].session # sessionId \/ header[s].counter = 0
       THEN UNCHANGED <<header, file, handle>>
       ELSE /\ header' = [header EXCEPT ![s].counter = @ - 1]
            /\ IF header[s].counter = 1 THEN deleteSharedMemory(n) /\ UNCHANGED handle
               ELSE closeFile(p, n) /\ UNCHANGED file
    /\ UNCHANGED <<created, process, sessionId>>

--------------------------------------------------------------------------------
(* AllocatorManager: all objects of a process at once.                          *)
On(p) == {object[p][n] : n \in Names} \ {0}

(* A child that does not count itself (not in the code; see CounterIsExact).    *)
Bug_reallocateAllObjects(p, c) ==
    /\ process[p] = "alive" /\ process[c] = "none"
    /\ process' = [process EXCEPT ![c] = "init"]
    /\ object' = [object EXCEPT ![c] = object[p]]
    /\ handle' = [handle EXCEPT ![c] = handle[p]]
    /\ UNCHANGED <<created, file, header, sessionId>>

(* fork(): the child inherits objects and handles and counts itself.            *)
reallocateAllObjects(p, c) ==
    /\ process[p] = "alive" /\ process[c] = "none"
    /\ process' = [process EXCEPT ![c] = "init"]
    /\ object' = [object EXCEPT ![c] = object[p]]
    /\ handle' = [handle EXCEPT ![c] = handle[p]]
    /\ header' = [s \in Segments |->
          IF s \notin On(p) THEN header[s]
          ELSE IF header[s].session = sessionId THEN [header[s] EXCEPT !.counter = @ + 1]
          ELSE [header[s] EXCEPT !.counter = 1, !.session = sessionId]]
    /\ UNCHANGED <<created, file, sessionId>>

(* Before exec() and before the exit of a process starter the objects are       *)
(* counted out again: the memory of the process is about to be lost.            *)
Lost(p) ==
    /\ object' = [object EXCEPT ![p] = [n \in Names |-> 0]]
    /\ header' = [s \in Segments |->
          IF s \in On(p) THEN [header[s] EXCEPT !.counter = @ - 1] ELSE header[s]]

deallocateAllObjects(p) ==
    /\ process[p] = "init"
    /\ Lost(p)
    /\ process' = [process EXCEPT ![p] = "none"]
    /\ handle' = [handle EXCEPT ![p] = [n \in Names |-> 0]]
    /\ UNCHANGED <<created, file, sessionId>>

(* A new session, opened when a single process is left: its objects are moved   *)
(* to it.                                                                       *)
flushSession(p) ==
    /\ process[p] = "alive" /\ \A q \in Processes \ {p} : process[q] = "none"
    /\ sessionId < MaxSessions
    /\ sessionId' = sessionId + 1
    /\ header' = [s \in Segments |->
          IF s \in On(p) THEN [header[s] EXCEPT !.counter = 1, !.session = sessionId + 1]
          ELSE header[s]]
    /\ UNCHANGED <<created, file, handle, object, process>>

(* The program builds its objects anew; the list of its files survives in the   *)
(* environment.                                                                 *)
executeFile(p) ==
    /\ process[p] = "init"
    /\ Lost(p)
    /\ process' = [process EXCEPT ![p] = "alive"]
    /\ UNCHANGED <<created, file, handle, sessionId>>

Next ==
    \E p \in Processes :
        \/ \E n \in Names : InitializeMaster(p, n) \/ InitializeSlave(p, n) \/ Deinitialize(p, n)
        \/ \E c \in Processes : reallocateAllObjects(p, c)
        \/ deallocateAllObjects(p) \/ flushSession(p) \/ executeFile(p)

Spec == Init /\ [][Next]_vars

--------------------------------------------------------------------------------
(* The counter of a segment of this session counts the objects mapped to it,    *)
(* through forks, exits, new sessions and names that are created again: so the  *)
(* last object to leave removes the file and no other does.                     *)
Mapped(s) == Cardinality({m \in Processes \X Names : object[m[1]][m[2]] = s})

CounterIsExact ==
    \A s \in Segments : header[s].session = sessionId => header[s].counter = Mapped(s)

(* The object itself remains active until the last instance has closed its      *)
(* connection: a name somebody is attached by denotes the segment he maps.  The *)
(* code does not keep this: a refused object or a flush leaves a file of that   *)
(* name to somebody else.                                                       *)
NameDenotesObject ==
    \A p \in Processes, n \in Names : object[p][n] # 0 => file[n] = object[p][n]

================================================================================
