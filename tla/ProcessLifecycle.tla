---------------------------- MODULE ProcessLifecycle ----------------------------
(* The processes of one cpu, from creation to destruction: ProcessManager.cc    *)
(* and the part of Process.cc that launches, runs, stops and destroys.          *)
(*                                                                              *)
(* The entity serves one request at a time.  It forks a child per process; the  *)
(* child waits in the process starter for CMD_RUN_PROCESS, executes the         *)
(* program and serves its command loop until CMD_TERM_PROCESS.  A command to a  *)
(* child is answered or times out, and a child that did not answer may still    *)
(* execute it later.  The shared memory of a process lives as long as the       *)
(* entity or the child is attached to it; a killed child never detaches.        *)
EXTENDS Naturals, FiniteSets

CONSTANTS
    Applications,  \* ids of the range OS_PROCESSID_APOS: getAlias() = PROC_APOS
    Services,      \* ids of the other processes: SMOS, GSM, PCS, OLI, SM
    Entity,        \* OS_PROCESSID_MASTER, the process that runs the manager
    Unused,        \* OS_UNUSED_ID
    MaxProcesses,  \* OS_MAX_NUMBER_OF_PROCESSES
    MaxRequests    \* bound: requests the entity serves

Pids == Applications \cup Services
Slots == 1 .. MaxProcesses

LifecycleAssumption ==
    /\ MaxProcesses \in Nat \ {0}
    /\ Applications \cap Services = {}
    /\ Entity \notin Pids /\ Unused \notin Pids \cup {Entity}

VARIABLES
    processId,  \* m_ProcessId, the table in shared memory
    object,     \* m_ProcessObject of the entity: "none", "master", "client", "self"
    posixId,    \* the slots whose object knows the posix id of the process
    child,      \* the posix process of an id
    attached,   \* who maps the shared memory of an id
    handle,     \* the ids whose memory the entity has an open file of
    signal,     \* the pending SIGCHLD: the id of the child and how it ended
    job,        \* the request the entity executes
    requests    \* requests served

vars == <<processId, object, posixId, child, attached, handle, signal, job, requests>>

Idle == [op |-> "none", pid |-> Unused, phase |-> "none", slot |-> 0]
NoSignal == [pid |-> Unused, end |-> "none"]
Alive(p) == child[p] \in {"starter", "running", "stopped"}

Init ==
    /\ processId = [i \in Slots |-> IF i = 1 THEN Entity ELSE Unused]
    /\ object = [i \in Slots |-> IF i = 1 THEN "self" ELSE "none"]
    /\ posixId = {}
    /\ child = [p \in Pids |-> "none"]
    /\ attached = [p \in Pids |-> {}]
    /\ handle = {}
    /\ signal = NoSignal
    /\ job = Idle
    /\ requests = 0

getProcessIndex(id) ==
    LET found == {i \in Slots : processId[i] = id}
    IN  IF found = {} THEN 0 ELSE CHOOSE i \in found : \A j \in found : i <= j

--------------------------------------------------------------------------------
(* The process objects of the entity.                                           *)

(* getProcess() attaches an object that is not initialised to the shared memory *)
(* of the process; it throws when the memory has gone and the entity has no     *)
(* open file of it.                                                             *)
Locatable(i) == object[i] # "none" \/ attached[processId[i]] # {} \/ processId[i] \in handle

getProcess(i) ==
    /\ object' = [object EXCEPT ![i] = IF @ = "none" THEN "client" ELSE @]
    /\ attached' = IF object[i] = "none"
                   THEN [attached EXCEPT ![processId[i]] = @ \cup {"entity"}] ELSE attached
    /\ handle' = handle \cup {processId[i]}

(* Process::deinitialize() forgets the posix id and leaves the shared memory;   *)
(* the last to leave removes it and does not close its own file.  The id stays  *)
(* in the table.                                                                *)
StaysOpen(p) == IF attached[p] = {"entity"} THEN handle ELSE handle \ {p}

deinitialize(i) ==
    /\ object' = [object EXCEPT ![i] = "none"]
    /\ posixId' = posixId \ {i}
    /\ attached' = [attached EXCEPT ![processId[i]] = @ \ {"entity"}]
    /\ handle' = StaysOpen(processId[i])

Finish == job' = [job EXCEPT !.phase = "done"]
Fail == job' = [job EXCEPT !.phase = "failed"]
Goto(phase) == job' = [job EXCEPT !.phase = phase]

(* The handlers of the entity and APOS/SMOS calls executed by it.               *)
Request(op, p) ==
    /\ job.phase \in {"none", "done", "failed"} /\ requests < MaxRequests
    /\ requests' = requests + 1
    /\ job' = [op |-> op, pid |-> p, slot |-> 0,
               phase |-> CASE op = "create" -> "allocate"
                           [] op = "destroy" -> "locate"
                           [] OTHER -> "applications"]
    /\ UNCHANGED <<processId, object, posixId, child, attached, signal, handle>>

(* allocateProcess(): an id is given a free slot once and for all.              *)
allocateProcess ==
    /\ job.phase = "allocate"
    /\ LET i == getProcessIndex(Unused) IN
       IF getProcessIndex(job.pid) # 0 \/ i = 0
       THEN Fail /\ UNCHANGED <<processId, object, attached, handle>>
       ELSE /\ processId' = [processId EXCEPT ![i] = job.pid]
            /\ object' = [object EXCEPT ![i] = "master"]
            /\ attached' = [attached EXCEPT ![job.pid] = {"entity"}]
            /\ handle' = handle \cup {job.pid}
            /\ job' = [job EXCEPT !.phase = "launch", !.slot = i]
    /\ UNCHANGED <<posixId, child, signal, requests>>

(* launch(): fetching the program or fork() may fail.  The child is its own     *)
(* process starter and stays attached.                                          *)
launch ==
    /\ job.phase = "launch"
    /\ \/ Fail /\ UNCHANGED <<child, attached, posixId>>
       \/ /\ Finish
          /\ child' = [child EXCEPT ![job.pid] = "starter"]
          /\ attached' = [attached EXCEPT ![job.pid] = @ \cup {"child"}]
          /\ posixId' = posixId \cup {job.slot}
    /\ UNCHANGED <<processId, object, signal, requests, handle>>

(* destroyProcess() and the two loops of destroyAllClientProcesses(): first the *)
(* applications, then every other process whose object is initialised.          *)
locateDestroyed ==
    /\ job.phase = "locate"
    /\ LET i == getProcessIndex(job.pid) IN
       IF i # 0 /\ Locatable(i)
       THEN getProcess(i) /\ job' = [job EXCEPT !.phase = "getPid", !.slot = i]
       ELSE Fail /\ UNCHANGED <<object, attached, handle>>
    /\ UNCHANGED <<processId, posixId, child, signal, requests>>

Bug_NextClientOfAnyKind(kind) ==
    {i \in Slots : object[i] \in {"master", "client"} /\ i > job.slot /\ processId[i] \in Pids}

NextClient(kind) ==
    {i \in Slots : object[i] \in {"master", "client"} /\ i > job.slot /\ processId[i] \in kind}

destroyAllClientProcesses ==
    /\ job.phase \in {"applications", "services"}
    /\ LET kind == IF job.phase = "applications" THEN Applications ELSE Pids
           next == NextClient(kind)
       IN  job' = IF next # {}
                  THEN [job EXCEPT !.slot = CHOOSE i \in next : \A j \in next : i <= j,
                                   !.op = job.phase, !.phase = "getPid"]
                  ELSE IF job.phase = "applications"
                       THEN [job EXCEPT !.phase = "services", !.slot = 0]
                       ELSE [job EXCEPT !.phase = "done"]
    /\ UNCHANGED <<processId, object, posixId, child, attached, signal, requests, handle>>

--------------------------------------------------------------------------------
(* Process::destroy(), for the process in job.slot.                             *)

Target == processId[job.slot]

(* refreshPosixId(): the answer of a live child, or a timeout.                  *)
refreshPosixId ==
    /\ job.phase = "getPid"
    /\ \/ Alive(Target) /\ posixId' = posixId \cup {job.slot} /\ Goto("term")
       \/ Goto("catch") /\ UNCHANGED posixId
    /\ UNCHANGED <<processId, object, child, attached, signal, requests, handle>>

(* CMD_TERM_PROCESS: only the master waits for SIGCHLD.  A command that timed   *)
(* out may have been executed all the same.                                     *)
Terminate ==
    /\ job.phase = "term"
    /\ \/ /\ Alive(Target)
          /\ child' = [child EXCEPT ![Target] = "leaving"]
          /\ \/ Goto(IF object[job.slot] = "master" THEN "sigchld" ELSE "deinitialize")
             \/ Goto("catch")
       \/ Goto("catch") /\ UNCHANGED child
    /\ UNCHANGED <<processId, object, posixId, attached, signal, requests, handle>>

(* waitForSignal(SIGCHLD) takes the signal of whatever child, or times out.     *)
waitForChild ==
    /\ job.phase = "sigchld"
    /\ \/ signal # NoSignal /\ signal' = NoSignal /\ Goto("deinitialize")
       \/ Goto("catch") /\ UNCHANGED signal
    /\ UNCHANGED <<processId, object, posixId, child, attached, requests, handle>>

Bug_GiveUpUnkilled ==
    /\ job.phase = "catch" /\ Goto("deinitialize")
    /\ UNCHANGED <<processId, object, posixId, child, attached, handle, signal, requests>>

(* The catch clause: SIGTERM to a process whose posix id is known.              *)
Kill ==
    /\ job.phase = "catch"
    /\ IF job.slot \in posixId
       THEN /\ child' = [child EXCEPT ![Target] = IF @ = "gone" THEN @ ELSE "gone"]
            /\ signal' = IF signal = NoSignal /\ child[Target] # "gone"
                         THEN [pid |-> Target, end |-> "killed"] ELSE signal
            /\ Goto("deinitialize")
       ELSE Fail /\ UNCHANGED <<child, signal>>
    /\ UNCHANGED <<processId, object, posixId, attached, requests, handle>>

Deinitialize ==
    /\ job.phase = "deinitialize"
    /\ deinitialize(job.slot)
    /\ Goto(IF job.op = "destroy" THEN "done" ELSE job.op)
    /\ UNCHANGED <<processId, child, signal, requests>>

--------------------------------------------------------------------------------
(* The children, on commands of whatever process of the system.                 *)

Becomes(p, from, to) ==
    /\ child[p] = from
    /\ child' = [child EXCEPT ![p] = to]
    /\ UNCHANGED <<processId, object, posixId, attached, signal, job, requests, handle>>

(* CMD_RUN_PROCESS in the starter executes the program; later it resumes the    *)
(* threads of a stopped process.                                                *)
RunHandler(p) == Becomes(p, "starter", "running") \/ Becomes(p, "stopped", "running")
StopHandler(p) == Becomes(p, "running", "stopped")

(* A second SIGCHLD is not queued behind a pending one.                         *)
Ends(p, how) ==
    /\ child' = [child EXCEPT ![p] = "gone"]
    /\ signal' = IF signal = NoSignal THEN [pid |-> p, end |-> how] ELSE signal
    /\ UNCHANGED <<processId, object, posixId, job, requests, handle>>

(* exit() after the command loop or of a starter that could not execute the     *)
(* program, both after deallocateAllObjects(); or the death by a signal.        *)
Exit(p) ==
    /\ child[p] = "leaving"
    /\ attached' = [attached EXCEPT ![p] = @ \ {"child"}]
    /\ Ends(p, "success")
StarterFails(p) ==
    /\ child[p] = "starter"
    /\ attached' = [attached EXCEPT ![p] = @ \ {"child"}]
    /\ Ends(p, "error")
Crash(p) == child[p] \in {"running", "stopped"} /\ UNCHANGED attached /\ Ends(p, "crash")

(* getProcessId() configures the object of every listed process on its way to   *)
(* the one with the posix id, and throws at the first whose memory has gone.    *)
Walked(p) ==
    LET i == getProcessIndex(p)
    IN  {j \in Slots : processId[j] \in Pids /\ (i \in posixId => j <= i)}

(* SigChildCallback(), whenever the entity is not waiting for the signal.  The  *)
(* exit of a child deinitialises its object unless the entity is destroying it.  *)
(* A child that is not found there is neither released nor raised as an error.  *)
SigChildCallback ==
    /\ signal # NoSignal
    /\ LET p == signal.pid
           i == getProcessIndex(p)
           walked == Walked(p)
           found == i \in posixId /\ \A j \in walked : Locatable(j)
           opened == {j \in walked : /\ object[j] = "none"
                                     /\ \A k \in walked : k <= j => Locatable(k)}
           closes == /\ found /\ signal.end \in {"success", "error"}
                     /\ ~(job.slot = i /\ job.phase \in {"term", "sigchld", "catch", "deinitialize"})
       IN  /\ signal' = NoSignal
           /\ object' = [j \in Slots |-> IF closes /\ j = i THEN "none"
                                         ELSE IF j \in opened THEN "client" ELSE object[j]]
           /\ attached' = [q \in Pids |->
                 IF closes /\ q = p THEN attached[q] \ {"entity"}
                 ELSE attached[q] \cup {"entity" : j \in {k \in opened : processId[k] = q}}]
           /\ handle' = (IF closes THEN StaysOpen(p) ELSE handle) \cup {processId[j] : j \in opened}
           /\ posixId' = IF closes THEN posixId \ {i} ELSE posixId
    /\ UNCHANGED <<processId, child, job, requests>>

--------------------------------------------------------------------------------
Next ==
    \/ \E p \in Pids : Request("create", p) \/ Request("destroy", p)
    \/ Request("destroyAll", Entity)
    \/ allocateProcess \/ launch \/ locateDestroyed \/ destroyAllClientProcesses
    \/ refreshPosixId \/ Terminate \/ waitForChild \/ Kill \/ Deinitialize
    \/ \E p \in Pids : RunHandler(p) \/ StopHandler(p) \/ Exit(p) \/ StarterFails(p) \/ Crash(p)
    \/ SigChildCallback

Spec == Init /\ [][Next]_vars

--------------------------------------------------------------------------------
(* A process whose destruction the entity has reported as done does not go on   *)
(* executing, whatever timed out on the way.                                    *)
DestroyedIsGone ==
    job.op = "destroy" /\ job.phase = "done" => ~Alive(job.pid)

(* While the entity goes down no service is told to terminate as long as an     *)
(* application of this cpu is executing.                                        *)
ApplicationsFirst ==
    [][Terminate /\ job.op # "destroy" /\ Target \in Services
          => \A p \in Applications : ~Alive(p)]_vars

================================================================================
