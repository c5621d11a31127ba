# Verification of ASAAC OpenOS

ASAAC OpenOS is a C++ implementation of the ASAAC operating-system layer
(STANAG 4626) on top of POSIX.  One *entity* (`OpenOSEntity`) per CPU creates a
block of shared memory, forks the application processes into it, and runs a *PCS*
that joins the virtual channels of several entities over UDP.  Most of what is hard
about it happens in the shared memory: several processes and threads keep common
queues, counters and tables there, with semaphores, events and a trigger, and no
process is the owner of any of them.  The rest is hard because parts of it fail:
commands and replies time out, processes are killed, packets and pieces are lost.

The modules in this directory model that system; TLC checks them on small
instances and TLAPS proves the main results about most of them for all instances.
Paths below are relative to `src/OpenOSLib/Source` unless they start with `src/`.

* [1. Inventory](#1-inventory)
* [2. Plan](#2-plan)
* [3. Modules](#3-modules)
* [4. Runs](#4-runs)
* [5. Proofs](#5-proofs)
* [6. What the code does that its documents do not say](#6-what-the-code-does-that-its-documents-do-not-say)
* [7. Not modelled](#7-not-modelled)

`PROJECT.json` has the list of components, the source lines behind every
definition, the runs, one mutated definition per property that the property
catches, and the hazards with the properties that watch them.

## 1. Inventory

| Component | State | Operations | Hard about it | Correct when |
|---|---|---|---|---|
| Cyclic queue `Common/Templates/SharedCyclicQueue.hh` | ring of cells, next read/write cell, counter of free cells, direction, overwrite policy, read and write semaphore | `push`, `pop`, `waitForAvailableData`, `waitForAvailableCells` | pushes and pops run unserialised against each other; four policies for a full queue | it is a bounded FIFO/LIFO; a cell is read after it is written; semaphores count what they stand for |
| Global vc, messages `Communication/GlobalVc.cc`, `LocalVc.cc`, `BufferHeader.cc` | message buffers with reference counts, list of free buffers, one queue per local vc, action semaphore | `claimFreeBuffer`, `sendBuffer`, `receiveMessage`, `releaseBuffer`, `sendMessage`, overwrite callback | a buffer passes through several processes, only a count says when it is free; a sender blocks in the middle of a broadcast | a buffer is free exactly when nobody has it; all receivers get a message or none; one order for all |
| Global vc, local vcs | slots, process tables, numbers of local vcs and promised buffers | `createLocalVc`, `removeLocalVc`, `removeAllLocalVcs`, the application's Attach/Detach handlers | the two halves of an attachment live in two processes, the command in between may time out and still be executed | limits hold, one writer, both tables agree when nothing is under way |
| Command interface `IPC/SimpleCommandInterface.cc` | one command buffer, one event, command semaphore, handler table | `sendCommand`, `sendCommandNonblocking`, `handleOneCommand` | a sender that has timed out leaves its request in the buffer that the next sender needs | an answer is the sender's own; at most one execution, in order; patient calls return |
| Waiting on several channels `Communication/CommunicationManager.cc`, `VcUpdateSignal.cc`, `IPC/Trigger.cc` | trigger counter and waiters in shared memory, read semaphores | `waitOnMultiChannel`, `VcUpdateSignal::trigger` | polling a list while senders push; polling disturbs what it polls | no waiter sleeps beside a message |
| Communication manager tables | shared table of global vcs with their sessions, objects of every process for its entries | `createVirtualChannel`, `destroyVirtualChannel`, `getVirtualChannel`, `assureGlobalVc` | the table is shared, the objects are not: an entry changes under the object of another process | users of one channel meet in one segment |
| Transfer connections `CommunicationManager.cc`, `src/PCS/Source/PcsObject.cc`, `Configuration/` | descriptions, mappings, local vcs of the PCS, listeners | create and destroy, attach and detach | four tables and a remote call change one after the other, each may fail | an attached connection is served |
| One- and two-way communication, logical interfaces `OneWayCommunication.cc`, `TwoWayCommunication.cc`, `LogicalInterfaces/` | request and reply channel, transfer ids, keys, files under way | `sendAndReceive`, `handleOneRequest`, GLI calls, `storeCompleteFile` | all clients share one sender slot and hear all replies; both GLI nodes call each other | a reply is taken by its own client; both nodes have one key; a file arrives whole |
| Processes `ProcessManagement/Process.cc`, `ProcessManager.cc`, `ProcessStarter` | state, pid, process table, command loops of starter and application | create, launch, run, stop, terminate, destroy | a process that dies or does not answer between two steps | a destroyed process does not run; applications end before services |
| Threads `Thread.cc`, `ThreadManager.cc`, `ProtectedScope.cc` | state, suspend level, lock levels, pending suspension | start, stop, suspend, resume, preemption lock | suspension by signals, asynchronous to protected scopes | a suspended thread stays put; a stopped process stands still |
| Entities `OpenOSObject.cc` | table of CPUs, session id in shared memory | register, flush, destroy all | entities die and leave memory and entries behind | a flush reaches all that live |
| Synchronisation primitives, semaphore and event managers `IPC/`, `Managers/` | POSIX semaphores and mutexes, tables of named objects | create, delete, wait, post, set, reset | an entry is used after the lookup without a lock | no object goes under its waiters |
| Allocators, shared memory `Allocator/` | allocation counter and session of a segment, handles | allocate, open, deallocate, flush | several processes count the users of a segment through fork and exec | the last user, and only it, removes the segment |
| Shared containers `SharedList`, `SharedMap`, `ObjectPool` | lists in shared memory | add, remove, indexOf | search and removal are two steps | a searched list is sorted |
| Files `Managers/FileManager.cc` | handles, descriptors, a list in the environment | open, close, delete, `prepareForkedProcess` | descriptors travel through fork and exec | a handle has its own file |
| Times and texts `Common/Asaac`, `src/AsaacCLib`, `src/AsaacCppLib` | seconds and nanoseconds; cells and a size | add, subtract, compare; append, assign, erase, find | saturation, carry, borrow; a macro without parentheses | results are exact within the range |
| Faults and logs `FaultManagement/` | one error record, two message queues, handler thread, log files | `raiseError`, `logMessage`, `activateErrorHandler`, `terminateErrorHandler`, `writeLog` | one record for all errors; late handlers | a status is that of its own run |
| PCS, messages `src/PCS` | listeners, packers, unpackers, filters, rate limiter | `listen`, `TcCallback`, `enqueueMessage`, `sendPMData` | listener and limiter share counters without a lock | messages arrive where, and in the order, they were sent |
| PCS, marshalling `src/PCS/Source/Marshalling` | formats, blocks on the network | `writeToCDR`, `readFromCDR` | alignment and sizes of two compilers and the network | the receiver finds what the sender meant |
| NII `src/NIILib` | sockets, connections, receive buffers, callbacks | configure and destroy networks and transfers, send, receive | tables without a lock, a service thread that writes stale copies back | sockets and buffers are accounted for |
| APOS, SMOS, MOS interfaces; C and C++ libraries | none | argument checks, forwarding | | |

### How they interact

* A **send** by an application is `CommunicationManager` → `LocalVc::sendBuffer` →
  `GlobalVc::sendBuffer`: wait for free cells in every receiving queue, mark the
  buffer, push its index into every queue, pull the `VcUpdateSignal` trigger.
  The **receive** is `LocalVc::receiveMessage` → queue `pop`, later
  `unlockBuffer` → `GlobalVc::releaseBuffer` → queue of free buffers.  So one
  `SharedCyclicQueue` is the free list of every channel, and another one the inbox
  of every local vc.  A queue that overwrites calls back into the channel
  (`GlobalVcQueueCallback`), which releases the buffer that fell out.
* **Attaching** a local vc is decided by one process (the manager, mostly the
  entity) in the shared slot table and carried out by another one: it sends the
  command `AttachLocalVc` or `DetachLocalVc` through the target's
  `SimpleCommandInterface`, with a timeout, while holding the channel's action
  semaphore.  A process that ends calls `removeAllLocalVcs` for itself.
* The **command interface** is the only way one process makes another one act:
  run, stop, terminate, suspend, attach, detach, flush, activate the error handler.
  The starter program serves it until it starts the application, then the
  application serves it.
* A **waiter** on several channels reads the trigger counter, polls its channels,
  and sleeps unless the counter moved.  The PCS listener is such a waiter.
* A **message to another node** is received by the PCS from a local vc of its own,
  marshalled, filtered, packed with the number of its vc and sent by the NII, at
  once or by the rate limiter; the other PCS unpacks, filters and unmarshals it and
  sends it on a local vc of its own.

## 2. Plan

The order is by how much of the system rests on a part; all four steps are done as
far as [section 7](#7-not-modelled) does not say otherwise.

1. *Core*: the queue, the message buffers of a channel, the attachment of local
   vcs, the command interface, waiting on several channels.
2. *Around the core*: the PCS client and server; threads, processes, entities;
   shared memory, containers and the tables of channels; named objects; files;
   faults; time and text.
3. *The network*: configuration and pipeline of the PCS, rate limiter, marshalling,
   NII, GLI and OLI.
4. *Proofs*: see [section 5](#5-proofs), which also says what is only model-checked.

Abstract specifications: `BoundedQueue` (what a queue promises), `BufferOwnership`
(who may touch a message buffer), `RemoteCall` (what a call by command promises, to
a process as to the PCS); each is checked as a property of the modules that
implement it.

## 3. Modules

| Module | Models | Grain of a step |
|---|---|---|
| `BoundedQueue` | what a queue promises | one call |
| `SharedCyclicQueue` | `push`, `pop` and the pointers of the ring, all directions and policies but FIFO with `OVERWRITE_NEWEST` | one call |
| `CyclicQueueRace` | the same FIFO `push` and `pop` as used by a local vc and by the free list | one access to shared memory: semaphore operation, load, store |
| `BufferOwnership` | who may use a message buffer | one change of owner |
| `GlobalVc` | claim, write, broadcast, receive, release, overwrite | one access other threads can see; a queue's `pop` and the storing half of its `push` are one |
| `GlobalVcMapping` | `createLocalVc`, `removeLocalVc`, Attach/Detach handlers, `detachAndDestroyAllLocalVcs`, the per-process `LocalVc` objects | the sections between which another process can act; a send and a receive are one |
| `VcTables` | the table of global vcs, the objects of each process, their segments and sessions | one operation under the semaphore of the table; its result is used later |
| `RemoteCall` | what a command promises | call, serve, return |
| `SimpleCommandInterface` | `sendCommand`, `sendCommandNonblocking`, `handleOneCommand`, the starter's and the application's command loops | one wait, or what happens between two |
| `PcsClientServer` | a request to the PCS: attaching to both channels, taking the sender slot, `sendRequest`, `receiveReply`, `handleOneRequest` | one section under a semaphore, one wait, or one look-up |
| `WaitOnMultiChannel` | `waitOnMultiChannel`, `VcUpdateSignal`, the pushing half of a send | one queue poll, push or trigger access |
| `SharedMemoryObjects` | segments, their files, headers and users; fork, exec, exit, flush | one call |
| `Containers` | `SharedMap::add`, `remove`, `indexOf` over `SharedList` | one probe of the binary search, one insertion or removal |
| `ThreadControl` | start, stop, suspend, resume, preemption locks, the signal handler, protected scopes | one flag, level, signal or semaphore |
| `ProcessLifecycle` | create, launch, run, stop, terminate, kill; the process table; the end of an entity | one command, fork, signal or change of the table |
| `EntityControl` | registration, flush of the session, end of all entities, entities that die | one entity asked |
| `NamedObjects` | semaphore and event managers and the objects they hold | the look-up and each part of the call after it |
| `FileHandles` | handles, descriptors and their list, from fork through exec | one system call or change of the list |
| `FaultReporting` | raising an error, the two queues, the error handler and its activation, the log file | one shared field, queue operation or file operation |
| `Times` | `TimeStamp`, `TimeInterval` and the C functions | one call |
| `CharacterSequences` | `append`, `assign`, `erase`, `find`, `convertTo` | one call |
| `PcsConfiguration` | creating, attaching and detaching connections, through `CommunicationManager` and PCS | one call with all it changes, also when it fails |
| `PcsPipeline` | a message through the consumers of two PCS and over the network | one message through all consumers that call each other |
| `RateLimiter` | `TcRateLimiter`: the listening thread and the sending thread | one access to a counter, queue or event |
| `Marshalling` | `MarshallingProcessor`, `CDRDataBlock`, `FormatString`, both filters | one message |
| `Nii` | networks, connections, buffers, callbacks, the service thread and a reader | one table access of a thread, one call of the configuring thread |
| `GliNodes` | the calls of super and sub node to each other, the key exchange | one message sent or received |
| `OliTransfer` | `storeCompleteFile` of several clients and the server | one request, reply or timeout |

`..._proofs` modules hold the theorems of section 5.  `MC...` modules instantiate
the models.  `MCSharedMemory`, `MCProcesses`, `MCNetwork` and `MCPcsClientServer`
put components side by side that do not share state: a behaviour picks one of them
and the others stay as they were, so that the states add up instead of multiplying.
`MCSimpleCommandInterface` holds the command interface and the commands that attach
local vcs (`GlobalVcMapping`), with a specification, and a run, for each.

The variables carry the names of the members they stand for (`Free`,
`UsageCount`, `m_LocalVcIndex` is `index`, ...); `pc`, `at`, `phase` or `step` says
where in its call a thread is and is the only variable without a counterpart,
beside histories that properties read and no guard does.  Definitions that start
with `Bug_` are mutations: what the neighbouring definition would be with a
plausible mistake.  No module uses them; each makes one property fail.

What the models assume of each other:

* `GlobalVc` takes a queue operation for atomic.  `CyclicQueueRace` takes it apart
  and shows what survives: no cell is read before it is written, no two threads get
  the same free buffer.  The counter of free cells does not survive
  (`QueueLostCell`), and no property of `GlobalVc` reads it: a `BLOCKING` push
  that skips the wait because the counter is wrong is outside the model.
* `GlobalVc` takes the local vcs as attached; `GlobalVcMapping` takes a message as
  a number in the queue, and the channel itself as there; `VcTables` shows that
  processes mean the same channel.
* `GlobalVcMapping` has one pending command per application; that an abandoned
  command is executed late, at most once and in order is what
  `SimpleCommandInterface` shows.  `ProcessLifecycle`, `EntityControl` and
  `FaultReporting` use commands that time out and are executed late likewise.
* `PcsClientServer` takes removing and attaching a local vc for one step each
  (`GlobalVcMapping` takes them apart), and lets the command to a removed client time
  out only when that client's main loop waits for the reply channel.  It implements
  the same `RemoteCall` as the command interface: a call that failed counts as one
  that timed out.  `PcsConfiguration` relies on it for one call at a time.
* `ProcessLifecycle` takes a process for one thread; `ThreadControl` is inside one.
* `PcsPipeline` takes the rate limiter for a queue, which `RateLimiter` shows, the
  tables as set up, which `PcsConfiguration` shows, and messages as values, which
  `Marshalling` shows; the network under it loses packets.
* Semaphores, mutexes and events are atomic everywhere but in `NamedObjects`;
  `Event`'s waits are modelled with the timeouts they report late.
* Ids drawn by `rand()` (sessions, transfers, keys) are taken to differ.

## 4. Runs

| Run | Instance | Shows |
|---|---|---|
| `SharedCyclicQueue` | 3 cells, 3 values, 5 modes | counter and semaphores agree with each other; the ring implements `BoundedQueue` |
| `GlobalVc` | 2 buffers, 2 vcs with queues of 1 and 2, a copying and an impatient sender, 2 receivers, 3 messages | exact counts and free list, all or nothing, one order, implements `BufferOwnership`, sends and receives end |
| `GlobalVcMapping` | 1 impatient manager, 2 applications, 2 writers and 1 reader for 2 slots and 4 buffers | limits, one writer, exact status, agreement of both tables at rest, shutdown ends |
| `SimpleCommandInterface` | a patient, an impatient and a one-way sender, 2 calls each, both phases of the server | own answers, stable requests, order, implements `RemoteCall`, patient calls return |
| `WaitOnMultiChannel` | 2 waiters, 2 senders, 3 vcs, shared and not shared; 2 messages each | no lost wake-up for waiters that share nothing; no message lost by polling; waiters return |
| `PcsClientServer` | 3 clients, one of which comes back; queues of 1; every format of three elements, and structures and unions between others | nobody takes another's reply, the clients do not lock each other out of the sender slot, calls return; what is marshalled arrives |
| `SharedMemory` | 3 processes and 3 segments of one name; 2 users of a map of 3; 2 users of 2 channels in 2 slots; a ring of 2 cells with 2 producers and consumers, or 2 users of a free list; a vc that overwrites, with 2 readers, beside another one | users of a segment are counted exactly; a searched map is sorted; processes meet in one segment; a reader never overtakes the writer and nobody gets a buffer twice; semaphores count messages and a claimed buffer is in no queue |
| `Processes` | 2 threads and the command loop, with five sets of calls; 1 application, 1 service, 3 processes, 4 requests; 3 CPUs, 3 sessions; 2 threads and 2 slots of named objects; 2 threads and 3 files; errors and activations; times of up to 3 seconds with 3 parts each; texts of up to 3 characters | stop and suspension are complete; the destroyed are gone, applications go first; flushes reach all; objects outlive their waiters; handles and descriptors agree; statuses are own; times and texts are exact |
| `Network` | 3 connections on 1 port and 2 buffers; 2 limited connections; 3 vcs and 3 connections to configure; 4 vcs over 2 lines in a PCS that marshals and one that does not; GLI calls both ways; 2 OLI clients and a file of 4 pieces read by 2 | see the modules of the network in section 3: sockets and buffers, order, tables, delivery, keys, files |
| `QueueLostCell` | as the ring of `SharedMemory`, free list | *violation*, see section 6 |
| `GlobalVcOverwriteRace` | as `GlobalVc`, one vc overwriting | *violation* |
| `PaddedStructure` | structures of two elements with one behind | *violation* |

**Bounds.**  A ring of 3 cells is the smallest in which the cell before, the cell
after and the own cell differ.  Two cells and two threads of each kind give every
race of two operations of the same and of different kinds; four pushes go round
the ring twice.  Three messages over two buffers make a buffer come back while the
other is still in use, and queues of 1 and 2 make one vc full while the other is
not.  Three mappings for two slots, two of them writers, and 1, 3 and 2 buffers for
a limit of 4 make each of the three refusals of `createLocalVc` happen.  With two
calls each, a sender that gave up comes back while its first request is still in
the block.  Three clients of the PCS are one that removes, one that is removed and
one that comes in between, and the one with two calls finds replies to others in
its queue; with queues of 1 the PCS soon waits for one of them.
`TriggerModulus = 8` is more than the number of triggers, so that the wrap-around of
a 32-bit counter does not occur (it is in the list of hazards).

Three processes are a parent, its child and a stranger; three segments let a name
be deleted and created again twice.  Four ids over a map of three make it refuse,
and the search take two probes.  Two threads are suspended by each other and by the
command loop; the sets of calls in `CallSets` are those that can meet (a call that
deadlocks by design with another, such as a thread that suspends itself in a
preemption lock, is in a set of its own).  Four requests create a process, destroy
it, and create and destroy another one in its slot.  Three CPUs are a master, a
client and one that is started again; three sessions two flushes.  Times of at most
three seconds reach both ends of the range and both carries from everywhere.  A
text of three characters is the shortest whose erase() moves fewer characters than
there are, as many, and one too many.  Connections are one that calls back, one
that is polled and one that streams; two buffers make them run out.  A limiter queue
of 2 gets full with 3 messages.  Enumerators are 1, 2 and 65535, the largest two
bytes hold.  A message is at most three elements long: an element depends on what
is in front of it only through an offset modulo 8, and two elements give the
offsets 0 to 7 that their sizes allow.

The error paths of `GlobalVc` that need a disturbed counter (`SendNotLocked`,
`PushFails`, `PushUndo`) cannot happen while every queue refuses, as in `GlobalVc`;
they happen in `SharedMemory`, whose channel overwrites.  The runs that compose
components make one step of the whole out of a step of any of them, so that TLC
counts only that: `tlc -coverage` counts the lines inside each component.

**Deadlock** is not checked where the bounds end a behaviour; there the liveness
properties say what must not stop.

**Fairness.**  Weak fairness is assumed of a thread that is inside a call and can
take its next step: the processes are ordinary schedulable processes.  It is never
assumed that an application begins a call, writes a message, closes, or that a
timeout passes unless the call has a timeout.  The exceptions: `GlobalVc` assumes
that receiving threads keep receiving, without which a patient sender may wait for
ever by design; `GlobalVcMapping` assumes strong fairness of a closing application
that waits for the action semaphore, because POSIX wakes a waiter of a semaphore
that is posted again and again.  A client of the PCS is fair while it is in a call,
and so is the PCS; no client has to call again, and so `CallsReturn` says that the
PCS is blocked only as long as such a client's queue is full.  The command semaphore
needs none: calls are bounded there, so nobody can take it infinitely often.  The
runs `SharedMemory`, `Processes` and `Network` check safety only.

## 5. Proofs

| Theorem | For every | By |
|---|---|---|
| `SharedCyclicQueue_proofs!TypeCorrect`, `SemaphoresAreExact` | size, value set, set of modes | `TypeOK /\ SemaphoresCountCells` is inductive; the lemmas on `NextCell` and `PreviousCell` keep pointers inside the ring |
| `SharedCyclicQueue_proofs!RingImplementsBoundedQueue` | size, value set, set of modes within `OrderedModes` (the `SoundModes` of the run) | the same and `PointersOk`: where the write cell lies, seen from the read cell |
| `SimpleCommandInterface_proofs!TypeCorrect`, `RepliesAreOwn`, `RequestsAreStable`, `CommandsInOrder`, `InterfaceImplementsRemoteCall` | senders (whatever their number), commands, handler table, number of calls | an invariant about who may touch the block |
| `SimpleCommandInterface_proofs!ResourcesStayExact` | managers, applications, mappings, slots and buffers, whoever times out | which local vcs the counters stand for |
| `SimpleCommandInterface_proofs!RecordsStayInAgreement` | the same, with one manager | where the command of the one call under way is |
| `PcsClientServer_proofs!PcsImplementsRemoteCall` | clients, queue lengths, number of calls | an invariant about where a call is |
| `PcsClientServer_proofs!SlotStaysFree` | the same | the property is inductive |
| `GlobalVc_proofs!BuffersAreAccounted`, `SemaphoreIsExact` | vcs of any length and direction, senders, receivers and buffers, under `NothingIsLost` | the users of a buffer counted by kind |
| `GlobalVc_proofs!ChannelImplementsOwnership`, `MessagesAreDeliveredAlike` | the same | the same invariant, and who is inside the locked section; how far a push has come |
| `GlobalVc_proofs!OverwritingStaysSafe` | the same without `NothingIsLost`: vcs that overwrite, senders that time out | the part of that invariant that survives the race |
| `WaitOnMultiChannel_proofs!WaitersAreWoken` | threads, vcs and lists to wait on, under `NoWrap` | an invariant about what a round has missed |
| `SharedMemory_proofs!CounterStaysExact` | processes, names, numbers of segments and sessions | where an object can come from, and a count by process and name |
| `SharedMemory_proofs!MapStaysSorted` | users, ids, capacities | the bounds of a binary search that others insert under |
| `SharedMemory_proofs!ProcessesAlwaysMeet` | users, ids, slots, sizes, segments | a current object has the session of its entry |
| `SharedMemory_proofs!RingStaysSafe` | ring sizes, producers and consumers, or users of a free list, numbers of pushes and pops | what each cell holds, counted by semaphores and threads under way |
| `SharedMemory_proofs!OverwritingStaysSafe` | messages, on the two channels of the run | the theorem of `GlobalVc_proofs`, instanced |
| `Network_proofs!MessagesStayInOrder` | connections, queues and their sizes, messages | what the rings and the two threads have in hand |
| `Network_proofs!AttachedStaysServed` | vcs, connections, senders, limits | the tables agree row by row |
| `Network_proofs!InterfaceStaysExact` | connections, ports, packets and callbacks, under `BuffersSuffice` | who has each buffer, and what the copies of the tables can still overwrite |
| `Network_proofs!MessagesAreForwarded` | vcs, connections and their mapping, messages, the ring's size, losses, with one marked vc (`OneMarked`) | where the messages of a vc are, from the oldest to the newest |
| `Network_proofs!KeysStayEqual` | calls of both nodes and their number, separate or shared vcs for replies, which calls may time out but for the exchange itself (`ExchangeIsPatient`) | the steps of the exchange each node has left, and what queues, numbers and keys hold at that stage |
| `Network_proofs!FilesAreExact` | clients, files, sizes of a piece, losses | an invariant about what an awaited reply can hold |
| `Processes_proofs!StatusStaysOwn` | raisers, loggers, queue sizes, numbers of errors | what an activation that is answered can have read |
| `Processes_proofs!DestroyedStaysGone`, `ApplicationsGoFirst` | applications, services, sizes of the process table, requests | a slot is given once, and what the walk over the slots leaves behind |
| `Processes_proofs!NamedObjectsStay` | threads, names, slots, maximum counts | the waiters an event counts |
| `Processes_proofs!EntitiesReached` | CPUs, masters, sizes of the CPU table, sessions | what the walk over the table has done to the slots behind it |
| `Processes_proofs!ThreadsAlwaysObey` | numbers of threads and calls, sets of calls (those of `Orderly` for the levels) | how often a thread waits, and how often its waits will be ended |
| `Processes_proofs!FilesAreListed` | threads and files, sizes of both tables, under `OwnFiles` | one handle for a file, one file for a thread |

*The ring.*  An element's place is a sum or difference of two cells modulo `Size`;
one lemma (`RingIndex`) replaces the modulus by a case distinction, and the places
lemmas follow by linear arithmetic.  The refinement mapping reads the cells of those
places, so each kind of push and pop becomes a lemma on sequences: writing the next
place appends, reading on from the second element is the tail, leaving out the last
place is the front, writing the place of the newest replaces it.  A push over the
oldest element is the composition of a tail and an append.  `PointersOk` is needed
because the code stores both pointers: in a FIFO queue the write cell is the occupied
length ahead of the read cell, in a LIFO queue it is the next one, or the same one
when the newest element of a full queue is to be overwritten.  FIFO with
`OVERWRITE_NEWEST` and the `EXCEPTION` policy are not in `OrderedModes`: there the
code does something else (section 6).

*The command interface.*  `ReplyIsOwn` is not inductive: it says nothing of the
moments before the answer is read.  The inductive invariant adds where the request
is at every point of the call: a sender past the semaphore is its holder
(`HolderIsInside`), it writes only while the event is reset, the server is past its
wait only while the event is set (`ServerNeedsEvent`), and so from the write on the
block holds the holder's request until the server has turned it into the holder's
answer (`RequestInBlock`).  A sender that gives up leaves its request behind with the
event set, and the next one waits for the event to be reset before it writes.  The
same invariant gives the action property `RequestsAreStable`.  For the order of
execution and for the refinement one thing is added: the request in the block is
newer than everything executed for its sender until it is executed.

*Attaching local vcs.*  The counters of a channel are changed after the command is
answered, its table before the command is sent.  `Counted` is what the counters stand
for in between: the table, without the local vc being attached and with the one being
removed.  A creation that fails takes its entry out of the table, and `Counted` stays as
it was; a removal that fails takes the local vc out of `Counted` and leaves the counters,
which are too high from then on but never too low (`CountersSuffice`).  A local vc that
is created was seen to fit under the action semaphore, and still does when it is counted
(`AddingFits`).  The writing one is known by its slot for as long as it is counted
(`SenderIsKnown`).  That holds for any number of managers.  That the records *agree* needs
that no command fails, and for this the manager must have an object of every slot in use
(`ManagerKnows`), which only its being the one manager guarantees (section 6); then an
answer is in the hands of the manager or of nobody (`CommandsPending`), and a process
has attached what is counted, but for the one command it has already carried out
(`ProcessesKnow`).  The theorem has that as its hypothesis, as the run has it.

*The PCS.*  All clients hear all replies.  A call is in one place at a time, the
request channel or the server's hands, until it is served, and every reply on its
way belongs to a call that has been served; a client that compares the id of a reply
with its own takes the answer to its call or none.

*The OLI.*  While a client awaits a reply, the offset in its request is the number
of bytes it has stored, whatever late replies are in its vc: only a reply with that
offset and its own id is stored, and it continues the file where the client stopped.
`TransferIsExact` excepts a reading that failed at the server, which the client
takes for the end of the file.

*The channel.*  `NothingIsLost` says that all vcs refuse a message when they are
full and that `sendMessage()` waits without a timeout.  Its negation names exactly
the two cases in which the code loses count: overwriting vcs (`GlobalVcOverwriteRace`)
and a copying sender that gives up (section 6).  The run `GlobalVc` is an instance
of it.  The invariant counts the users of each buffer by kind: the threads that hold
it, the queue cells that refer to it, and the claims of a send that are not queued
yet.  Their sum is `UsageCount` (`CountIsOwners`); a buffer in the free list has
none, and a thread that releases the last use is the only one to see the counter
reach zero.  A push never fails because the sender has seen, under the action
semaphore, that no queue is full, and only senders under that semaphore fill queues;
it never claims twice because the queues ahead of it lack the buffer.  The
refinement of `BufferOwnership` needs who is inside (`LockedAlone`), as its steps
speak of the owner who fills or sends.  `SameOrder` becomes inductive with the
progress of the push: the FIFO vcs it has reached have received exactly one message
more than the others and agree otherwise (`StreamsOk`).

Where vcs overwrite or senders time out, counts of references are lost, and what is
left is `RaceInv`: a read semaphore counts the messages of its queue and the
receivers that have passed it, and a claimed buffer has left the free list and is in
no other hand.  `MCSharedMemory` uses `GlobalVc` in such a configuration, and its
theorem is the one of `GlobalVc_proofs` for the instance.

*The waiters.*  A vc that was polled in vain in the present round holds nothing, or
its message is announced: pushed by a sender that has yet to increment the counter
(`MissesOk`).  So when the counter has not moved and no sender is on its way, the
vcs that hold a message are among those the round has found, and these were too few.
Between a push and its trigger the counter lags behind, which is why the counter is
tied to the messages sent (`CounterOk`) and cannot go back: `NoWrap` says that it is
wide enough for them.  Without it the code's `<=` lets a waiter sleep on (the hazard
at `IPC/Trigger.cc:157`); the run, with 4 messages and a modulus of 8, is within it.
A message a poller has borrowed counts as its own until the semaphore is posted, so
that polling neither takes nor loses one, whoever shares the vc.

*Segments.*  The counter of a segment is the number of objects mapped to it, over
all processes and names.  That is not inductive by itself: a segment of an older
session may be found by a process that still lists its handle.  `ObjectsHeld` says
that an object is mapped to what its handle names, and `OneName` that a segment is
found by one name only, so that one step changes the count of one segment by one.

*The map.*  A search keeps two bounds, and between two probes others insert.
`BoundsHold` says that what is below the lower bound is smaller and what is at or
above the upper one is larger than the wanted id, as long as nothing has been removed
under the search (`overtaken`); an insertion only moves what is above.

*The tables of channels.*  An entry of the table is current for a process whose
object has its session; the theorem needs that such an object, and every segment a
process has open, is the one of the entry's id (`SegmentsNamed`, `SessionsAgree`).

*The ring in a race.*  Where several threads push and pop at once, the two semaphores
and the threads between a semaphore and its cell add up to the size (`RingCounts`).
From this follows which cells hold an element and which one is written next
(`RingCells`), and in the free list, where any number of threads pushes and pops, that
no buffer is in two hands or in a hand and a cell (`RingBuffers`).  The counter `Free`
has no place in the invariant: nothing that is proved depends on it.

*The rate limiter.*  A connection is served by the first queue that names it.  What
was accepted and not sent yet is in that queue's ring, in the hand of the listener
(copied and not counted, or read and not copied) or of the limiter (sent and not taken
out), and in the order of acceptance (`RingHolds`).

*The tables of the PCS.*  `AttachedIsServed` names a chain of four tables; the
invariant says for each vc what the tables have to do with each other at rest, as each
operation repairs or undoes its own entries when it fails.

*The pipeline of the PCS.*  The messages of a vc have arrived, are on the network, are
with the security manager or about to be, are in its ring, or in the inbox, in this
order from the oldest to the newest.  `PmRingOk` says so of a ring that nobody checks
for being full: an entry's `Age` is its distance from where the next one goes, and when
the ring overflows all of it becomes unreadable at once, so that what can be read is
always what was written last.  A message that `getMessage()` has found and that is
overwritten before it is sent (`ReadingOk`) turns into the newest one.  With one marked
vc that is a message of the same vc, and the theorem has this as its hypothesis
(`OneMarked`); with two it may be the other one's (section 6).

*The key exchange of the GLI.*  A node's stack mixes the steps of the exchange with
those of the calls and requests around it, because each node serves the other's
requests while it waits for a reply of its own.  `Rank` numbers the steps of the
exchange on each side.  The invariant says that a stack holds the steps from some rank
on, each once and in order (`LeftIs`), so that the next steps of both nodes are the
stage the exchange is at (`Left`).  `Meets` says of each stage that can be reached
which requests, answers and numbers of the exchange the queues still hold, which
numbers each node has drawn or received, and which of them has a key.  The super node
begins an exchange only for a request whose sender waits for the answer, and so no two
exchanges overlap.  `ExchangeIsPatient` (the replies of the exchange are awaited for
ever, as in the code until `setTimeout()` is called) is a hypothesis of the theorem: an
exchange that was given up leaves messages in the queues, which the next one takes for
its own.  In the run another call times out.

*The network interface.*  `lockAccess` is empty, so the service thread and a reader
work on copies of table entries and store them later.  `CopiesOk` says that such a
copy is still true but for the buffer of its connection, and `PacketsOk` and
`BuffersOk` follow the packets of a connection: one that calls back is read before the
service thread turns to the next packet, any other has one packet at a time, in the
socket or in its buffer.
`BuffersSuffice` (more buffers than connections that are polled) is a hypothesis
of the theorem because the code needs it: with no free buffer the service thread
clears the mark of a buffer it never got, which may be another connection's.  In the
run one connection is polled, and there are two buffers.

*The slot of the PCS.*  An object of the sender slot becomes stale when another client
clears the slot and cannot reach its owner.  `SlotCanBeTaken` is inductive as it
stands: only a removal that timed out leaves such an object behind.

*The error handler.*  An activation has a number of its own, and the handler stores its
status before it triggers.  So an activation that waits for the trigger and sees it
finds the status of the run that was given its number.  After an activation that timed
out this is no longer so, and `StatusIsOwn` excepts what follows one.

*Processes.*  A slot of the table is given to one process for good (`ListedOnce`), and
while the child of a slot is alive the entity's object of it says so; so what is
deinitialised is leaving or gone, and a process that was destroyed is one of these.
For `ApplicationsFirst` the invariant follows the walk of the entity over its table:
an application in a slot the walk has passed is gone, and the walk ends early in front
of a process it could not destroy.

*Named objects.*  An event counts its waiters under its own mutex, and the count of a
slot is the number of threads that wait there (`EventsCounted`); so an event that is
deleted has no waiter, although its waiters found it without the semaphore of the
table.  A semaphore's count is unprotected, and no part of the proof: what is proved of
semaphores is that the area of a slot is free when its id is (`SemaphoresBuilt`).

*Entities.*  While a flush or a destruction walks over the table of CPUs, no entity
comes up, as entities are started one after the other.  So the walk has only to account
for the slots behind it, in which an entity can vanish but not appear (`FlushedSoFar`,
`DestroyedSoFar`).

*Files.*  `OwnFiles` says that no two threads use the same file; with a file in common,
one could close the descriptor another is about to use (the list keeps no count of
users).  Then a file has one handle at most (`OneHandle`), because only its thread
could open it again and that thread is still opening it; so two handles never share a
descriptor, and a descriptor a thread is closing is nobody else's.  `execve()` closes
nothing because all flags are clear.

*Suspended threads.*  That a suspended thread waits is not inductive: its waits pile up,
as a thread can be suspended again while it still wakes from the suspension before, and
then the wait that ends clears the switch of the new handshake.  `WaitsEnough` counts.
Each wait on the thread's stack is worth one, and so is a handshake whose switch is
still set; a level above zero costs one; a RESUME that is raised or about to be raised,
and a wait it has ended, cost two, the wait and the switch it may clear for another.  A
thread that has not begun owes the wait to `ThreadStartWrapper` (`Unborn`, `UnbornOk`).
The one case in which the count fails is `Missed`: a thread that ended while it was
being suspended is started again, resumed before it begins, and does not wait; nobody
clears the switch, and the command loop spins for ever with the semaphore in its hand.
That the command loop reports no process as stopped too early needs, besides, what it
has passed in its table (`StoppedSoFar`).  The theorem holds for any set of calls an
application keeps to; those outside `Orderly` are excepted in `LevelIsTrue` itself, and
section 6 shows why.

The theorems of `SharedMemory_proofs`, `Processes_proofs` and `Network_proofs`, and those about
`GlobalVcMapping`, are about the specifications of `MCSharedMemory`, `MCProcesses`, `MCNetwork` and `MCSimpleCommandInterface`, in which one component moves and
the others stay: the invariant is one of the component alone, kept by its own steps,
and by the others because they do not touch its variables.  Their constants are
parameters there; the few that these modules define (the kinds of the two channels,
the lines of the PCS) are fixed.

The assumptions are the named `ASSUME`s of the modules (sizes are positive, the names
do not collide, the commands include run and terminate, a node of the GLI makes the
calls its kind has, what stands for "none" or "closed" is not a record, threads of a
process are finite in number) and those in the theorems' own hypotheses.

Only model-checked: the refinements of `BufferOwnership` by channels that overwrite,
every property in a run of section 4 that has no theorem above, and all liveness,
which is beyond TLAPS.  `MessagesArrive` (`Marshalling` is defined by recursion over
formats) and `TextsAreExact` (the search of `find` is a recursive function of the
text) would need induction over data, which the installed provers cannot do, and
`TimesAreKept` products and quotients of variables.

## 6. What the code does that its documents do not say

Shown by a run, with the quotation in `PROJECT.json`:

* `QueueLostCell`: `Free--` in `push` is not under the semaphore that guards
  `Free++` in `pop`; one update can be lost, and the counter is wrong for good.
* `GlobalVcOverwriteRace`: when a full queue overwrites its oldest message while a
  receiver is past the read semaphore, both count for the same reference, and the
  buffer is free while it is read.
* `PaddedStructure`: the marshalling puts no padding at the end of a structure, and
  what follows a nested structure is read from where it is not.

Stated in a module, and broken by the code; each of these fails as an additional
invariant or property of the run named:

| Property | In | Because |
|---|---|---|
| `GlobalVcMapping!NoSendToRemoved` | `GlobalVcMapping` | a process keeps its object of a slot that another one has cleared, and goes on sending to it (GlobalVc.cc:819; GlobalVc.hh:118-119 says otherwise) |
| `WaitOnMultiChannel!AllSleepForAReason` | `WaitOnMultiChannel` | of two waiters that poll one vc, one borrows the read semaphore and the other goes to sleep beside its message (SharedCyclicQueue.hh:447, VcUpdateSignal.hh:11-13) |
| `SharedMemoryObjects!NameDenotesObject` | `SharedMemory` | a slave that is refused leaves its handle listed, and opens an old segment again later |
| `Containers!RemovesItsOwn` | `SharedMemory` | `remove(indexOf(Id))` holds no semaphore in between (SharedMap.hh:198) |
| `NamedObjects!NeverAboveMaximum` | `Processes` | two posts pass the test of the maximum together (Semaphore.cc) |
| `ThreadControl!InterruptionRepeated` | `Processes` | a scope that locks while the signal is on its way takes the switch for an old one; the suspender spins for ever (Thread.cc:698-699) |
| `FaultReporting!HandlerSeesItsError` | `Processes` | the next error or activation overwrites the one record |
| `PcsPipeline!FiltersAreConfigured` | `Network` | with marshalling, the filter for incoming messages is never given the configuration |
| `Nii!ResourcesReleased` | `Network` with `Orderly <- FALSE` | a connection that is destroyed with an unread message keeps its buffer |

And so do these, with a constant changed: `VcTables!ProcessesMeet` with `Recreate`
TRUE (a channel created again while others have their object of the entry);
`PcsConfiguration!AttachedIsServed` with `Reattaching` TRUE (`PcsAttached` is never
reset); `GlobalVc`'s counts with a copying sender that has a timeout (`sendMessage`
leaves the buffer claimed, LocalVc.cc:187-216); `ThreadControl!LevelIsTrue`
without its exception for applications that both stop and start threads, in a set of
calls with both and two calls per thread: `resume()` has lowered the level when the
thread is stopped and started again by another one, and raises its RESUME at the new
thread, which loses the next suspension to it (Thread.cc:285-292, 394-399); the same
property without its exception for threads that end, are started again and suspend
themselves, in the set of these three calls and two calls per thread: a thread that
ends while it is being suspended keeps its level, is started again and runs on when
`resume()` has lowered the level before it begins; then it suspends itself, and the
RESUME `resume()` raises last ends that suspension (Thread.cc:393-399, 440, 641); and
without its exception for `unlockThreadPreemption()`: `resume()` tests the level before
it locks (Thread.cc:388-393), so with the command loop resuming too, the unsigned level
of a thread that runs wraps;
`PcsPipeline!ArrivesInOrder` with two marked vcs: `getMessage()`
returns the vc of a ring entry and a pointer into the ring, and the message is copied
when `getPMData` sends it; if the ring has gone round in between, a message of the other
vc stands there and is later forwarded under the first one's name (PmFilter.cc:185-193,
229-284; PcsObject.cc:547-566); `WaitersWake` with a
`TriggerModulus` that wraps (`<=` in Trigger.cc:157); `GlobalVcMapping!RecordsAgree`
with a second patient manager, as the clients of one-way communication are: it still has
an object of a slot that another manager has cleared, meets the mapping the slot's memory
names in a slot of which it has no object, takes it out of the table and has it detached,
and then `getDescription()` throws before the counters are changed (GlobalVc.cc:404-424).

Seen while modelling, some of it part of the models, none of it stated as a
property.

*Queues and channels.*  FIFO with `OVERWRITE_NEWEST` writes into the cell of the
oldest element (SharedCyclicQueue.hh:299-357), against the comment at line 79; the
`EXCEPTION` policy never throws (111-112).  `ObjectPool` does not serialise its
pushes (ObjectPool.hh:91, 104).  `lockBuffer` refuses at once when there is no
buffer instead of waiting for its timeout, and having seen one waits without a
timeout (GlobalVc.cc:667).  `removeLocalVc` clears the slot before it sends the
command; when that times out the sender index stays, and nobody can become the
sender any more (GlobalVc.cc:409-424, state `slotLost`).  `getVirtualChannel`
destroys the vc it could not open.

*Requests to the PCS.*  Every client stays attached to the replies after its first
call, and the PCS sends without a timeout: a client that has stopped calling blocks
it as soon as its queue is full of replies to others (`CallsReturn` names this
case).  A client that attaches as sender while another one has just removed the
sender may find its own object of the slot initialised; the attach throws and
`InvokeOSScopeHandler` (Process.cc:1587) reports success all the same.

*Processes.*  The entity's wait for SIGCHLD takes any child's signal for the one it
waits for; a killed child never leaves its shared memory; `getProcessId` throws at
the first process whose memory has gone; a client ignores the result of
`destroyProcess`.  Concurrent `resume()`s can wrap the level of suspension, which is
tested in front of the semaphore (Thread.cc:388-393).  `FlushSessionHandler` reports
success after an error (OpenOSObject.cc:588-607), and an entity that does not answer
in time drops out of the table while it lives.

*Shared memory, named objects, files.*  The allocation counter is incremented and
decremented by several processes without a lock (SharedMemory.cc:76, 163; one step
in the model).  `deleteEvent` does not reset the area of its slot, so that creating
another event there fails and leaves an id without object.  In
`Semaphore::waitForSemaphore`, `errno = EINTR` assigns.  `deleteFile` never compares
the name.  `FLAGS &= !FD_CLOEXEC` clears all flags, which happens to do what is
wanted.

*Times and texts.*  Subtracting a longer interval may leave a fraction of a second.
`min` is a macro without parentheses: `erase(start, end)` moves as many characters
as it takes away, and with an end behind the text one too many
(CharacterSequence.cc:8, 843); from the start of a text that throws, and so does
every message with a union (`Throws`).  `find` does not look back into a partial match, and
`compareChar` assigns its flag (1210), so that no comparison ignores case.

*Faults.*  The flag that keeps errors apart is tested and set in two steps.  An
error on a full queue waits for ever with the flag set; a log message on a full
queue is lost without a word, and the queue is never read, because
`getLogReport` returns an error first.  After an activation that timed out the next
one can return the earlier handler's status.

*Marshalling.*  Floating-point elements cannot be written; a long of 8 bytes is
stored over the four bytes behind its place before these are, and a negative one
arrives positive (longs are small and positive in the runs); enumerators are cut to 16 bits; the documented padding element `x`
ends the format; the parser reads behind format strings, which are not terminated
(constant `Tails`: the runs take the memory behind them to end the format).

*PCS.*  An exception in a consumer keeps the received buffer.  The ring of the
security manager does not look whether it is full.  A getPMData message that is too
long for the caller is lost.  `removeRateLimit` is called by nothing:
destroying a connection sets the default limit instead.  Detaching one of two
connections of a vc removes the local vc of the PCS for both.

*NII.*  `lockAccess` is empty; the service thread writes old copies of table entries
back; `waitForData` can miss its wake-up; `registerCallback` allows duplicates, and
the first one counts.

*GLI and OLI.*  Requests are read from the channel a node sends on; replies keep the
discriminant of their request, so that `receiveReply` refuses them; a node
that waits for one message throws all others away.  A reading that fails at the OLI
server is answered as an empty piece with `ACK_OK`, which the client takes for the
end of the file (`misread`); replies go to every client that has ever attached.

## 7. Not modelled

* Construction and destruction of channels beyond the tables: attaching is one step
  or a few, initialisation of queues none.  The handler table of the command
  interface after its set-up.
* `EventTable`, `Mutex`, `SpinLock`, `BlockingScope`, `reopenFiles`, the Peterson
  lock of `OpenOSObject`, `insert` and `contains` of `CharacterSequence`: nothing
  calls them.
* `ObjectPool`, the per-process pools of semaphores, events and triggers: a cyclic
  queue of indexes (`SharedCyclicQueue`) each.
* The contents of messages and files, which are numbers or positions; POSIX errors
  other than timeouts; the clock where only an order of events matters; bytes and
  their order.
* Text: the formatting of other types, file names, logging; the configuration
  parser; checksums, primes and modular powers.
* The interface layers `APOS`, `SMOS` and `MOS`, which check arguments and forward
  calls; entity and example applications; `ASAAC.h` and `FastDelegate.h`, which are
  declarations and third-party code.
