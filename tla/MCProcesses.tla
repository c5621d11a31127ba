------------------------------- MODULE MCProcesses -------------------------------
(* What every process keeps for itself, and the management of processes, side by *)
(* side.  A behaviour exercises one component, the others stay in an initial      *)
(* state.                                                                         *)
EXTENDS Naturals, FiniteSets

CONSTANTS None, Main, N, CallSets, MaxCalls, MaxLevel,
          Entity, Unused, Applications, Services, MaxProcesses, MaxRequests,
          Cpus, MasterCpus, MaxCpus, MaxSessions,
          Callers, Names, NamedSlots, MaxCount, MaxIds, MaxCallsById, NoName,
          PerSecond, Infinite,
          Leader, Files, FilesOf, Regular, Closed, MaxFiles, MaxDescriptors, MaxHandles,
          Raisers, Loggers, QueueSize, MaxErrors, MaxLogs,
          Capacity, Chars, Nul, Unlimited,
          t1, t2, f1, f2, f3

VARIABLES component,
          calls, processStatus, lockLevel, semaphore, status, suspendLevel, suspendPending, code,
          scopePending, frames, signals, handler, call, budget, alive,
          processId, object, posixId, child, attached, handle, signal, job, requests,
          cpuId, memory, state, session, behind, step,
          manager, slot, nextId, at, callsById, crashed,
          library, class, value, failed, now, timeout, deadline,
          activity, existing, descriptors, files, counter, thread,
          information, fresh, executing, raising, errorQueue, logQueue, raised, activation, activations,
          errorHandler, triggered, handlerStatus, answered, logFile, position, logging,
          text, corrupted

Control == INSTANCE ThreadControl
Lifecycle == INSTANCE ProcessLifecycle
Entities == INSTANCE EntityControl
Named == INSTANCE NamedObjects WITH Slots <- NamedSlots, Threads <- Callers, MaxCalls <- MaxCallsById, calls <- callsById
Time == INSTANCE Times
Descriptors == INSTANCE FileHandles WITH
    Threads <- Callers, Main <- Leader, MaxIds <- MaxHandles, Reopening <- FALSE
Faults == INSTANCE FaultReporting WITH Nothing <- None, handler <- errorHandler
Texts == INSTANCE CharacterSequences WITH failed <- corrupted

\* FilesOf for TLC: one thread opens two files, the other one of its own
Opened == [t \in {t1, t2} |-> IF t = t1 THEN {f1, f2} ELSE {f3}]

ASSUME Assumptions ==
    /\ Control!ThreadsAssumption /\ Lifecycle!LifecycleAssumption /\ Entities!EntityAssumption
    /\ Named!NamedObjectsAssumption /\ Time!TimesAssumption /\ Descriptors!FilesAssumption
    /\ Faults!FaultsAssumption /\ Texts!TextsAssumption

threadVars == <<calls, processStatus, lockLevel, semaphore, status, suspendLevel, suspendPending,
                code, scopePending, frames, signals, handler, call, budget, alive>>
lifecycleVars == <<processId, object, posixId, child, attached, handle, signal, job, requests>>
entityVars == <<cpuId, memory, state, session, behind, step>>
namedVars == <<manager, slot, nextId, at, callsById, crashed>>
timeVars == <<library, class, value, failed, now, timeout, deadline>>
fileVars == <<activity, existing, descriptors, files, counter, thread>>
faultVars == <<information, fresh, executing, raising, errorQueue, logQueue, raised, activation, activations,
               errorHandler, triggered, handlerStatus, answered, logFile, position, logging>>
management == <<threadVars, lifecycleVars, entityVars>>
textVars == <<text, corrupted>>
services == <<namedVars, timeVars, fileVars, faultVars, textVars>>
vars == <<component, management, services>>

Init ==
    /\ component \in {"threads", "lifecycle", "entities", "named", "times", "files", "faults", "texts"}
    /\ Control!Init
    /\ component # "threads" => calls = {"stop"} /\ processStatus = "RUNNING"
    /\ Lifecycle!Init /\ Entities!Init /\ Descriptors!Init /\ Faults!Init
    /\ Named!Init /\ (component # "named" => manager = "event")
    /\ Time!Init /\ (component # "times" => library = "OpenOSLib" /\ class = "TimeStamp")
    /\ Texts!Init /\ (component # "texts" => \A i \in DOMAIN text.data : text.data[i] = Nul)

Next ==
    /\ UNCHANGED component
    /\ \/ component = "threads" /\ Control!Next /\ UNCHANGED <<lifecycleVars, entityVars, services>>
       \/ component = "lifecycle" /\ Lifecycle!Next /\ UNCHANGED <<threadVars, entityVars, services>>
       \/ component = "entities" /\ Entities!Next /\ UNCHANGED <<threadVars, lifecycleVars, services>>
       \/ component = "named" /\ Named!Next /\ UNCHANGED <<management, timeVars, fileVars, faultVars, textVars>>
       \/ component = "times" /\ Time!Next /\ UNCHANGED <<management, namedVars, fileVars, faultVars, textVars>>
       \/ component = "files" /\ Descriptors!Next /\ UNCHANGED <<management, namedVars, timeVars, faultVars, textVars>>
       \/ component = "faults" /\ Faults!Next /\ UNCHANGED <<management, namedVars, timeVars, fileVars, textVars>>
       \/ component = "texts" /\ Texts!Next /\ UNCHANGED <<management, namedVars, timeVars, fileVars, faultVars>>

Spec == Init /\ [][Next]_vars

(* A stopped process stands still and the levels of suspension tell who does,     *)
(* see ThreadControl.                                                             *)
ThreadsObey == Control!ThreadsObey

(* Destroyed processes do not go on, and applications go before services, see     *)
(* ProcessLifecycle.                                                              *)
DestroyedIsGone == Lifecycle!DestroyedIsGone
ApplicationsFirst == Lifecycle!ApplicationsFirst

(* A flush reaches every entity of the session, and destroying an entity leaves   *)
(* nothing of it, see EntityControl.                                              *)
EntitiesAreReached == Entities!FlushReachesAll /\ []Entities!NoneIsLeft

(* No event goes while a thread waits for it, and a name that is found names an   *)
(* object, see NamedObjects.                                                      *)
NamedObjectsExist == Named!EventOutlivesWaiters /\ Named!NamesAnObject

(* Times stay in their range, sums and differences are exact, comparisons agree,  *)
(* and a timeout survives its conversions, see Times.                             *)
TimesAreKept ==
    /\ [](Time!InRangeForever /\ Time!TimeoutIsKept)
    /\ [][component = "times" => Time!ExactStep]_timeVars

(* Every descriptor is listed under one handle and every handle has its file, and *)
(* a call uses the file it was called for, see FileHandles.                       *)
ListIsExact == Descriptors!ListIsExact /\ Descriptors!UsesItsFile

(* The status of the error handler is that of its own run, see FaultReporting.    *)
StatusIsOwn == Faults!StatusIsOwn

(* A text holds what was put into it, see CharacterSequences.                     *)
TextsAreExact == component = "texts" => Texts!EditsAreExact

==================================================================================
