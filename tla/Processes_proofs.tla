----------------------------- MODULE Processes_proofs -----------------------------
(* What the components of MCProcesses promise, for every value of their constants: *)
(* a status of the error handler is its own, a destroyed process is gone and        *)
(* applications end before services, named objects outlive their users, every      *)
(* entity is reached, handles and descriptors agree, and suspended threads wait.    *)
(*                                                                                 *)
(* A behaviour exercises one component and the others stay: each invariant is one   *)
(* of its component alone, kept by its steps and by those of the others.            *)
EXTENDS MCProcesses, Integers, Sequences, FiniteSetTheorems, SequenceTheorems,
        WellFoundedInduction, TLAPS

LEMMA LeastIs ==
  ASSUME NEW S \in SUBSET Nat, S # {}
  PROVE  \E x \in S : \A y \in S : x <= y
  <1>1. IsWellFoundedOn(OpToRel(<, Nat), Nat)
    BY NatLessThanWellFounded
  <1>2. PICK x \in S : \A y \in S : ~ (<<y, x>> \in OpToRel(<, Nat))
    BY <1>1, WFMin
  <1>3. \A y \in S : ~ (y < x)
    BY <1>2 DEF OpToRel
  <1> QED BY <1>3

--------------------------------------------------------------------------------
(* FaultReporting: until an activation gives up waiting, the handler runs for the  *)
(* one under way, or is dormant or about to be.  The status is stored before the   *)
(* trigger is raised, so that an activation that sees the trigger raised finds its *)
(* own status.                                                                     *)
StatusType ==
    /\ activation \in Faults!Activation \cup {None}
    /\ activations \in 0 .. MaxErrors
    /\ errorHandler.at \in {"dormant", "running", "store", "trigger"} /\ errorHandler.of \in Nat
    /\ DOMAIN errorHandler = {"at", "of", "sees"}
    /\ triggered \in Nat /\ handlerStatus \in Nat
    /\ answered \in Seq(Nat)

\* answers and activations are counted alike
AnswersNumbered ==
    /\ activation = None => activations = Len(answered)
    /\ activation # None => activation.number = activations /\ activations = Len(answered) + 1

Patient == \A i \in DOMAIN answered : answered[i] # Faults!TimedOut

RunsForIt ==
    LET k == activation.number IN
    \/ /\ errorHandler.at = "running" /\ errorHandler.of = k /\ triggered = activation.trigger
    \/ /\ errorHandler.at = "store" /\ errorHandler.of = k /\ triggered = activation.trigger
       /\ handlerStatus = k
    \/ /\ errorHandler.at \in {"trigger", "dormant"} /\ handlerStatus = k

HandlerRuns ==
    Patient =>
        IF activation # None /\ activation.at = "waiting" THEN RunsForIt
        ELSE /\ errorHandler.at \in {"trigger", "dormant"}
             /\ activation # None /\ activation.at = "starting" => activation.trigger = triggered

StatusInv == StatusType /\ AnswersNumbered /\ HandlerRuns /\ StatusIsOwn

LEMMA StatusInit == Assumptions /\ Faults!Init => StatusInv
  <1> SUFFICES ASSUME Assumptions, Faults!Init PROVE StatusInv
    OBVIOUS
  <1> USE DEF Assumptions, Faults!FaultsAssumption, Faults!Init, Faults!Dormant
  <1>1. StatusType /\ AnswersNumbered /\ HandlerRuns
    BY DEF StatusType, AnswersNumbered, HandlerRuns
  <1>2. StatusIsOwn
    BY DEF StatusIsOwn, Faults!StatusIsOwn
  <1> QED BY <1>1, <1>2 DEF StatusInv

(* An answer is the status of its activation, or none.                             *)
LEMMA Answering ==
  ASSUME Assumptions, StatusInv, activation # None, NEW s \in Nat, Faults!Answer(s),
         Patient => s \in {activation.number, Faults!Refused, Faults!TimedOut},
         Patient /\ s # Faults!TimedOut => errorHandler.at \in {"trigger", "dormant"},
         UNCHANGED <<activations, errorHandler, triggered, handlerStatus>>
  PROVE  StatusInv'
  <1>1. /\ answered \in Seq(Nat) /\ Len(answered) \in Nat /\ answered' = Append(answered, s) /\ activation' = None
        /\ activation.number = Len(answered) + 1 /\ activations = Len(answered) + 1
    BY DEF StatusInv, StatusType, AnswersNumbered, Faults!Answer
  <1>2. /\ answered' \in Seq(Nat) /\ Len(answered') = Len(answered) + 1 /\ answered'[Len(answered) + 1] = s
        /\ DOMAIN answered' = 1 .. Len(answered) + 1 /\ DOMAIN answered = 1 .. Len(answered)
        /\ \A i \in 1 .. Len(answered) : answered'[i] = answered[i]
    BY <1>1
  <1>3. StatusType' /\ AnswersNumbered'
    BY <1>1, <1>2 DEF StatusInv, StatusType, AnswersNumbered
  <1>4. Patient' => Patient /\ s # Faults!TimedOut
    BY <1>1, <1>2 DEF Patient, Faults!TimedOut
  <1>5. HandlerRuns'
    BY <1>1, <1>4 DEF HandlerRuns
  <1>6. StatusIsOwn'
    <2> SUFFICES ASSUME NEW k \in DOMAIN answered', \A i \in 1 .. k - 1 : answered'[i] # Faults!TimedOut
                 PROVE  answered'[k] \in {k, Faults!Refused, Faults!TimedOut}
      BY DEF StatusIsOwn, Faults!StatusIsOwn, Faults!TimedOut, Faults!Refused
    <2>1. CASE k = Len(answered) + 1
      <3>1. Patient
        BY <1>1, <1>2, <2>1 DEF Patient
      <3> QED BY <1>1, <1>2, <2>1, <3>1
    <2>2. CASE k # Len(answered) + 1
      <3>1. k \in DOMAIN answered /\ \A i \in 1 .. k - 1 : answered[i] # Faults!TimedOut
        BY <1>1, <1>2, <2>2
      <3> QED BY <1>1, <1>2, <3>1 DEF StatusInv, StatusIsOwn, Faults!StatusIsOwn
    <2> QED BY <2>1, <2>2
  <1> QED BY <1>3, <1>5, <1>6 DEF StatusInv

(* The command thread starts the handler and waits for it.                         *)
LEMMA CommandKeepsStatus ==
  ASSUME Assumptions, StatusInv, Faults!Command
  PROVE  StatusInv'
  <1>0. /\ activations \in Nat /\ answered \in Seq(Nat) /\ MaxErrors \in Nat /\ triggered \in Nat
        /\ UNCHANGED <<activations, triggered, handlerStatus>>
    BY DEF StatusInv, StatusType, Assumptions, Faults!FaultsAssumption, Faults!Command
  <1>1. activation # None /\ activation \in Faults!Activation
    BY DEF Faults!Command, Faults!ActivateErrorHandler, Faults!Step, StatusInv, StatusType
  <1>2. activation.number = Len(answered) + 1 /\ activation.number \in Nat /\ activation.number <= MaxErrors
    BY <1>1 DEF StatusInv, StatusType, AnswersNumbered, Faults!Activation
  <1>3. None \notin Faults!Activation
    BY DEF Assumptions, Faults!FaultsAssumption
  <1>4. CASE Faults!Step("sent") /\ activation' = [activation EXCEPT !.at = "starting", !.trigger = triggered]
             /\ UNCHANGED <<errorHandler, answered>>
    <2>1. /\ activation' \in Faults!Activation /\ activation' # None /\ activation'.number = activation.number
          /\ activation'.at = "starting" /\ activation.at = "sent"
      BY <1>0, <1>1, <1>3, <1>4 DEF Faults!Activation, Faults!Step
    <2>2. StatusType' /\ AnswersNumbered'
      BY <1>0, <1>1, <1>4, <2>1 DEF StatusInv, StatusType, AnswersNumbered
    <2>3. StatusIsOwn'
      BY <1>4 DEF StatusInv, StatusIsOwn, Faults!StatusIsOwn, Faults!TimedOut, Faults!Refused
    <2>4. activation'.trigger = triggered'
      BY <1>0, <1>1, <1>4 DEF Faults!Activation
    <2>5. Patient' => errorHandler'.at \in {"trigger", "dormant"}
      BY <1>4, <2>1 DEF StatusInv, HandlerRuns, Patient, Faults!TimedOut
    <2>6. HandlerRuns'
      BY <2>1, <2>4, <2>5 DEF HandlerRuns
    <2> QED BY <2>2, <2>3, <2>6 DEF StatusInv
  <1>5. CASE /\ Faults!Step("starting") /\ errorHandler.at = "dormant"
             /\ errorHandler' = [at |-> "running", of |-> activation.number, sees |-> None]
             /\ activation' = [activation EXCEPT !.at = "waiting"] /\ UNCHANGED answered
    <2>1. /\ activation' \in Faults!Activation /\ activation' # None /\ activation'.number = activation.number
          /\ activation'.at = "waiting" /\ activation.at = "starting" /\ activation'.trigger = activation.trigger
      BY <1>0, <1>1, <1>3, <1>5 DEF Faults!Activation, Faults!Step
    <2>2. StatusType' /\ AnswersNumbered'
      BY <1>0, <1>1, <1>5, <2>1 DEF StatusInv, StatusType, AnswersNumbered
    <2>3. StatusIsOwn'
      BY <1>5 DEF StatusInv, StatusIsOwn, Faults!StatusIsOwn, Faults!TimedOut, Faults!Refused
    <2>4. errorHandler'.at = "running" /\ errorHandler'.of = activation.number
      BY <1>5
    <2>5. Patient' => triggered' = activation'.trigger
      BY <1>0, <1>1, <1>5, <2>1 DEF StatusInv, HandlerRuns, Patient, Faults!TimedOut
    <2>6. HandlerRuns'
      BY <2>1, <2>4, <2>5 DEF HandlerRuns, RunsForIt
    <2> QED BY <2>2, <2>3, <2>6 DEF StatusInv
  <1>6. CASE Faults!Step("starting") /\ Faults!Answer(Faults!Refused) /\ UNCHANGED errorHandler
    <2>1. Patient => errorHandler.at \in {"trigger", "dormant"}
      BY <1>6 DEF StatusInv, HandlerRuns, Faults!Step
    <2> QED BY <1>0, <1>1, <1>6, <2>1, Answering DEF Faults!Refused
  <1>7. CASE Faults!Step("waiting") /\ triggered > activation.trigger /\ Faults!Answer(handlerStatus) /\ UNCHANGED errorHandler
    <2>1. activation.trigger \in Nat
      BY <1>1 DEF Faults!Activation
    <2>2. Patient => errorHandler.at \in {"trigger", "dormant"} /\ handlerStatus = activation.number
      BY <1>0, <1>7, <2>1 DEF StatusInv, HandlerRuns, RunsForIt, Faults!Step
    <2>3. handlerStatus \in Nat
      BY DEF StatusInv, StatusType
    <2> QED BY <1>0, <1>1, <1>7, <2>2, <2>3, Answering
  <1>8. CASE Faults!Step("waiting") /\ Faults!Answer(Faults!TimedOut) /\ UNCHANGED errorHandler
    <2>1. Faults!TimedOut \in Nat
      BY <1>0 DEF Faults!TimedOut
    <2> QED BY <1>0, <1>1, <1>8, <2>1, Answering
  <1> QED
    BY <1>4, <1>5, <1>6, <1>7, <1>8 DEF Faults!Command, Faults!ActivateErrorHandler

(* The handler stores its status, raises the trigger and goes dormant.             *)
LEMMA TerminatingKeepsStatus ==
  ASSUME Assumptions, StatusInv, Faults!terminateErrorHandler
  PROVE  StatusInv'
  <1>1. UNCHANGED <<activation, activations, answered>>
    BY DEF Faults!terminateErrorHandler
  <1>2. PICK k \in 1 .. 3 :
           /\ errorHandler.at = IF k = 1 THEN "running" ELSE Faults!TerminateSteps[k - 1]
           /\ Faults!Done(Faults!TerminateSteps[k])
           /\ errorHandler' = IF k = 3 THEN Faults!Dormant ELSE [errorHandler EXCEPT !.at = Faults!TerminateSteps[k]]
    BY DEF Faults!terminateErrorHandler
  <1>3. /\ triggered \in Nat /\ handlerStatus \in Nat /\ errorHandler.of \in Nat
        /\ DOMAIN errorHandler = {"at", "of", "sees"}
    BY DEF StatusInv, StatusType
  <1>4. DOMAIN errorHandler' = {"at", "of", "sees"} /\ errorHandler'.of \in Nat
    BY <1>2, <1>3 DEF Faults!Dormant
  <1>5. \/ /\ errorHandler.at = "running" /\ errorHandler'.at = "store" /\ errorHandler'.of = errorHandler.of
           /\ handlerStatus' = errorHandler.of /\ triggered' = triggered
        \/ /\ errorHandler.at = "store" /\ errorHandler'.at = "trigger"
           /\ handlerStatus' = handlerStatus /\ triggered' = triggered + 1
        \/ /\ errorHandler.at = "trigger" /\ errorHandler'.at = "dormant"
           /\ handlerStatus' = handlerStatus /\ triggered' = triggered
    <2>1. CASE k = 1
      BY <1>2, <1>3, <2>1 DEF Faults!TerminateSteps, Faults!Done
    <2>2. CASE k = 2
      BY <1>2, <1>3, <2>2 DEF Faults!TerminateSteps, Faults!Done
    <2>3. CASE k = 3
      BY <1>2, <1>3, <2>3 DEF Faults!TerminateSteps, Faults!Done, Faults!Dormant
    <2> QED BY <2>1, <2>2, <2>3
  <1>6. StatusType'
    BY <1>1, <1>3, <1>4, <1>5 DEF StatusInv, StatusType
  <1>7. AnswersNumbered' /\ StatusIsOwn'
    BY <1>1 DEF StatusInv, AnswersNumbered, StatusIsOwn, Faults!StatusIsOwn, Faults!TimedOut, Faults!Refused
  <1>8. HandlerRuns'
    BY <1>1, <1>5 DEF StatusInv, HandlerRuns, RunsForIt, Patient, Faults!TimedOut
  <1> QED BY <1>6, <1>7, <1>8 DEF StatusInv

LEMMA StatusStep ==
  ASSUME Assumptions, StatusInv, Faults!Next \/ UNCHANGED faultVars
  PROVE  StatusInv'
  <1>1. CASE UNCHANGED <<activation, activations, triggered, handlerStatus, answered>>
             /\ (errorHandler' = errorHandler \/ Faults!getErrorInformation)
    <2>1. /\ errorHandler'.at = errorHandler.at /\ errorHandler'.of = errorHandler.of
          /\ DOMAIN errorHandler' = DOMAIN errorHandler
      BY <1>1 DEF StatusInv, StatusType, Faults!getErrorInformation
    <2> QED
      BY <1>1, <2>1 DEF StatusInv, StatusType, AnswersNumbered, HandlerRuns, RunsForIt, Patient,
         StatusIsOwn, Faults!StatusIsOwn, Faults!TimedOut, Faults!Refused
  <1>2. CASE Faults!activateErrorHandler
    <2>1. /\ activation = None /\ activation' = [number |-> activations + 1, at |-> "sent", trigger |-> 0]
          /\ activations' = activations + 1 /\ activations' \in 0 .. MaxErrors /\ activations \in Nat
          /\ UNCHANGED <<errorHandler, triggered, handlerStatus, answered>>
      BY <1>2 DEF Faults!activateErrorHandler, StatusInv, StatusType, Assumptions, Faults!FaultsAssumption
    <2>2. activation' \in Faults!Activation /\ activation' # None /\ activation'.at = "sent" /\ activation'.number = activations'
      BY <2>1 DEF Faults!Activation, Assumptions, Faults!FaultsAssumption
    <2>3. StatusType' /\ AnswersNumbered'
      BY <2>1, <2>2 DEF StatusInv, StatusType, AnswersNumbered
    <2>4. HandlerRuns' /\ StatusIsOwn'
      BY <2>1, <2>2 DEF StatusInv, HandlerRuns, Patient, StatusIsOwn, Faults!StatusIsOwn, Faults!TimedOut, Faults!Refused
    <2> QED BY <2>3, <2>4 DEF StatusInv
  <1> QED
    BY <1>1, <1>2, CommandKeepsStatus, TerminatingKeepsStatus
    DEF Faults!Next, Faults!Test, Faults!raiseError, Faults!sendMessage, Faults!logMessage, Faults!getErrorInformation,
        Faults!getDebugErrorInformation, Faults!getError, Faults!writeLog, Faults!writeFile, Faults!readLog,
        Faults!handling, faultVars

(* FaultReporting.StatusIsOwn: however errors, activations and their timeouts      *)
(* meet, and whatever thread the handler is late for, an activation is answered    *)
(* with the status of the run it has started, unless one before it gave up waiting *)
(* (ErrorHandler::activateErrorHandler, terminateErrorHandler).                    *)
THEOREM StatusStaysOwn == Spec => []StatusIsOwn
  <1>1. Init => StatusInv
    BY StatusInit, Assumptions DEF Init
  <1>2. StatusInv /\ [Next]_vars => StatusInv'
    <2>1. [Next]_vars => Faults!Next \/ UNCHANGED faultVars
      BY DEF Next, vars, services
    <2> QED BY <2>1, StatusStep, Assumptions
  <1>3. StatusInv => StatusIsOwn
    BY DEF StatusInv
  <1> QED BY <1>1, <1>2, <1>3, PTL DEF Spec

--------------------------------------------------------------------------------
(* ProcessLifecycle: a process is given one slot for good, and while its child     *)
(* lives the entity's object of the slot says so.  So the walk over the slots,     *)
(* which ends early when a process could not be told to end, leaves no application *)
(* behind; what it deinitialises is leaving or gone.                               *)
ChildStates == {"none", "starter", "running", "stopped", "leaving", "gone"}
Destroying == {"getPid", "term", "sigchld", "catch", "deinitialize"}
Ended(p) == child[p] \in {"leaving", "gone"}

LifeType ==
    /\ processId \in [Lifecycle!Slots -> Lifecycle!Pids \cup {Entity, Unused}]
    /\ object \in [Lifecycle!Slots -> {"none", "master", "client", "self"}]
    /\ child \in [Lifecycle!Pids -> ChildStates]
    /\ signal # Lifecycle!NoSignal => signal.pid \in Lifecycle!Pids /\ child[signal.pid] = "gone"
    /\ DOMAIN job = {"op", "pid", "phase", "slot"} /\ job.slot \in Nat

ListedOnce ==
    /\ \A i, j \in Lifecycle!Slots : processId[i] = processId[j] /\ processId[i] \in Lifecycle!Pids => i = j
    /\ \A p \in Lifecycle!Pids : child[p] # "none" => \E i \in Lifecycle!Slots : processId[i] = p
    /\ \A i \in Lifecycle!Slots : processId[i] \in Lifecycle!Pids /\ Lifecycle!Alive(processId[i]) =>
            object[i] \in {"master", "client"}

\* what the entity is executing, and for whom
JobOk ==
    /\ job.op \in {"create", "destroy"} => job.pid \in Lifecycle!Pids
    /\ job.phase = "locate" => job.op = "destroy"
    /\ job.phase = "allocate" => job.op = "create"
    /\ job.phase \in {"applications", "services"} => job.op \in {"destroyAll", "applications", "services"}
    /\ job.phase = "launch" =>
            /\ job.op = "create" /\ job.slot \in Lifecycle!Slots /\ processId[job.slot] = job.pid
            /\ child[job.pid] = "none" /\ object[job.slot] = "master"
    /\ job.phase \in Destroying =>
            /\ job.op \in {"destroy", "applications", "services"} /\ job.slot \in Lifecycle!Slots
            /\ processId[job.slot] \in Lifecycle!Pids
            /\ job.op = "destroy" => processId[job.slot] = job.pid
            /\ job.op = "applications" => processId[job.slot] \in Applications
    /\ job.phase \in {"sigchld", "deinitialize"} => Ended(processId[job.slot])
    /\ job.phase = "done" /\ job.op = "destroy" => Ended(job.pid)

\* the applications the walk has passed
Passed(i) == IF job.phase = "applications" THEN i <= job.slot ELSE i < job.slot
WalkOk ==
    /\ job.phase = "applications" \/ (job.phase \in Destroying /\ job.op = "applications") =>
            \A i \in Lifecycle!Slots : Passed(i) /\ processId[i] \in Applications => ~Lifecycle!Alive(processId[i])
    /\ job.phase = "services" \/ (job.phase \in Destroying /\ job.op = "services") =>
            \A p \in Applications : ~Lifecycle!Alive(p)

LifeInv == LifeType /\ ListedOnce /\ JobOk /\ WalkOk

LEMMA LifeFacts ==
  ASSUME Assumptions
  PROVE  /\ Applications \cap Services = {} /\ Lifecycle!Pids = Applications \cup Services
         /\ Entity \notin Lifecycle!Pids /\ Unused \notin Lifecycle!Pids /\ Unused # Entity
         /\ MaxProcesses \in Nat /\ Lifecycle!Slots = 1 .. MaxProcesses /\ 0 \notin Lifecycle!Slots
         /\ 1 \in Lifecycle!Slots
  BY DEF Assumptions, Lifecycle!LifecycleAssumption, Lifecycle!Pids, Lifecycle!Slots

LEMMA LifeInit == Assumptions /\ Lifecycle!Init => LifeInv
  <1> SUFFICES ASSUME Assumptions, Lifecycle!Init PROVE LifeInv
    OBVIOUS
  <1>1. LifeType
    BY LifeFacts DEF LifeType, Lifecycle!Init, ChildStates, Lifecycle!Idle, Lifecycle!NoSignal
  <1>2. ListedOnce
    BY LifeFacts DEF ListedOnce, Lifecycle!Init, Lifecycle!Alive
  <1>3. JobOk /\ WalkOk
    BY DEF JobOk, WalkOk, Lifecycle!Init, Lifecycle!Idle, Destroying
  <1> QED BY <1>1, <1>2, <1>3 DEF LifeInv

(* getProcessIndex() finds the slot of a process, or a free one.                   *)
LEMMA IndexIs ==
  ASSUME Assumptions, NEW id
  PROVE  LET i == Lifecycle!getProcessIndex(id) IN
         /\ i # 0 => i \in Lifecycle!Slots /\ processId[i] = id
         /\ i = 0 => \A j \in Lifecycle!Slots : processId[j] # id
  <1> DEFINE found == {i \in Lifecycle!Slots : processId[i] = id}
  <1>1. found \in SUBSET Nat /\ 0 \notin found
    BY LifeFacts
  <1>2. CASE found = {}
    BY <1>2 DEF Lifecycle!getProcessIndex
  <1>3. CASE found # {}
    <2>1. \E i \in found : \A j \in found : i <= j
      BY <1>1, <1>3, LeastIs
    <2>2. Lifecycle!getProcessIndex(id) \in found
      BY <1>3, <2>1 DEF Lifecycle!getProcessIndex
    <2> QED BY <1>1, <2>2
  <1> QED BY <1>2, <1>3

(* The entity takes the next request.                                              *)
LEMMA RequestKeepsLife ==
  ASSUME Assumptions, LifeInv, NEW op, NEW p, Lifecycle!Request(op, p),
         op \in {"create", "destroy"} => p \in Lifecycle!Pids,
         op \in {"create", "destroy", "destroyAll"}
  PROVE  LifeInv'
  <1>1. /\ UNCHANGED <<processId, object, child, signal>>
        /\ job' = [op |-> op, pid |-> p, slot |-> 0,
                   phase |-> CASE op = "create" -> "allocate" [] op = "destroy" -> "locate"
                               [] OTHER -> "applications"]
    BY DEF Lifecycle!Request
  <1>2. /\ DOMAIN job' = {"op", "pid", "phase", "slot"} /\ job'.op = op /\ job'.pid = p /\ job'.slot = 0
        /\ job'.phase = IF op = "create" THEN "allocate" ELSE IF op = "destroy" THEN "locate" ELSE "applications"
    BY <1>1
  <1>3. LifeType'
    BY <1>1, <1>2 DEF LifeInv, LifeType, Lifecycle!NoSignal
  <1>4. ListedOnce'
    BY <1>1 DEF LifeInv, ListedOnce, Lifecycle!Alive
  <1>5. JobOk'
    BY <1>2 DEF JobOk, Destroying
  <1>6. WalkOk'
    BY <1>2, LifeFacts DEF WalkOk, Destroying, Passed
  <1> QED BY <1>3, <1>4, <1>5, <1>6 DEF LifeInv

(* A new process gets a slot of its own.                                           *)
LEMMA AllocateKeepsLife ==
  ASSUME Assumptions, LifeInv, Lifecycle!allocateProcess
  PROVE  LifeInv'
  <1>1. /\ UNCHANGED <<child, signal>> /\ job.phase = "allocate" /\ job.op = "create" /\ job.pid \in Lifecycle!Pids
        /\ job.slot \in Nat
    BY DEF Lifecycle!allocateProcess, LifeInv, JobOk, LifeType
  <1>2. CASE Lifecycle!Fail /\ UNCHANGED <<processId, object>>
    <2>1. /\ job'.op = job.op /\ job'.pid = job.pid /\ job'.slot = job.slot /\ job'.phase = "failed"
          /\ DOMAIN job' = DOMAIN job
      BY <1>2 DEF Lifecycle!Fail, LifeInv, LifeType
    <2> QED
      BY <1>1, <1>2, <2>1 DEF LifeInv, LifeType, ListedOnce, JobOk, WalkOk, Destroying, Lifecycle!NoSignal, Lifecycle!Alive
  <1>3. ASSUME Lifecycle!getProcessIndex(job.pid) = 0, NEW i \in Lifecycle!Slots, processId[i] = Unused,
               processId' = [processId EXCEPT ![i] = job.pid], object' = [object EXCEPT ![i] = "master"],
               job' = [job EXCEPT !.phase = "launch", !.slot = i]
        PROVE  LifeInv'
    <2>1. /\ job'.op = job.op /\ job'.pid = job.pid /\ job'.slot = i /\ job'.phase = "launch"
          /\ DOMAIN job' = DOMAIN job
      BY <1>3 DEF LifeInv, LifeType
    <2>2. /\ \A j \in Lifecycle!Slots : processId[j] # job.pid
          /\ processId'[i] = job.pid /\ \A j \in Lifecycle!Slots \ {i} : processId'[j] = processId[j]
          /\ object'[i] = "master" /\ \A j \in Lifecycle!Slots \ {i} : object'[j] = object[j]
      BY <1>3, IndexIs DEF LifeInv, LifeType
    <2>3. child[job.pid] = "none"
      BY <1>1, <2>2 DEF LifeInv, ListedOnce
    <2>4. LifeType'
      <3>1. processId' \in [Lifecycle!Slots -> Lifecycle!Pids \cup {Entity, Unused}]
        BY <1>1, <1>3 DEF LifeInv, LifeType
      <3>2. object' \in [Lifecycle!Slots -> {"none", "master", "client", "self"}]
        BY <1>3 DEF LifeInv, LifeType
      <3> QED BY <1>1, <2>1, <3>1, <3>2, LifeFacts DEF LifeInv, LifeType, Lifecycle!NoSignal
    <2>5. ListedOnce'
      <3>1. \A j, k \in Lifecycle!Slots : processId'[j] = processId'[k] /\ processId'[j] \in Lifecycle!Pids => j = k
        BY <1>1, <2>2 DEF LifeInv, ListedOnce
      <3>2. \A p \in Lifecycle!Pids : child[p] # "none" => \E j \in Lifecycle!Slots : processId'[j] = p
        <4> SUFFICES ASSUME NEW p \in Lifecycle!Pids, child[p] # "none" PROVE \E j \in Lifecycle!Slots : processId'[j] = p
          OBVIOUS
        <4>1. PICK j \in Lifecycle!Slots : processId[j] = p
          BY DEF LifeInv, ListedOnce
        <4>2. j # i
          BY <1>3, <4>1, LifeFacts
        <4> QED BY <2>2, <4>1, <4>2
      <3>3. \A j \in Lifecycle!Slots : processId'[j] \in Lifecycle!Pids /\ Lifecycle!Alive(processId'[j]) =>
                object'[j] \in {"master", "client"}
        BY <2>2 DEF LifeInv, ListedOnce
      <3> QED BY <1>1, <3>1, <3>2, <3>3 DEF ListedOnce, Lifecycle!Alive
    <2>6. JobOk'
      BY <1>1, <2>1, <2>2, <2>3 DEF JobOk, Destroying
    <2>7. WalkOk'
      BY <2>1 DEF WalkOk, Destroying
    <2> QED BY <2>4, <2>5, <2>6, <2>7 DEF LifeInv
  <1> DEFINE i == Lifecycle!getProcessIndex(Unused)
  <1>4. i # 0 => i \in Lifecycle!Slots /\ processId[i] = Unused
    BY IndexIs
  <1>5. \/ Lifecycle!Fail /\ UNCHANGED <<processId, object>>
        \/ /\ Lifecycle!getProcessIndex(job.pid) = 0 /\ i # 0
           /\ processId' = [processId EXCEPT ![i] = job.pid] /\ object' = [object EXCEPT ![i] = "master"]
           /\ job' = [job EXCEPT !.phase = "launch", !.slot = i]
    BY DEF Lifecycle!allocateProcess
  <1> QED BY <1>2, <1>3, <1>4, <1>5

--------------------------------------------------------------------------------
LEMMA ListedKept ==
  ASSUME ListedOnce, processId' = processId,
         \A p \in Lifecycle!Pids : child'[p] # "none" =>
                child[p] # "none" \/ \E i \in Lifecycle!Slots : processId[i] = p,
         \A i \in Lifecycle!Slots : processId[i] \in Lifecycle!Pids /\ Lifecycle!Alive(processId[i])' =>
                object'[i] \in {"master", "client"}
  PROVE  ListedOnce'
  BY DEF ListedOnce, Lifecycle!Alive

(* The job goes on to another phase and nothing else happens to object or child.   *)
LEMMA GoesOn ==
  ASSUME LifeInv, UNCHANGED <<processId, object, child>>,
         signal' = signal \/ signal' = Lifecycle!NoSignal,
         NEW phase, job' = [job EXCEPT !.phase = phase]
  PROVE  /\ LifeType' /\ ListedOnce'
         /\ job'.phase = phase /\ job'.op = job.op /\ job'.pid = job.pid /\ job'.slot = job.slot
  <1>1. /\ job'.phase = phase /\ job'.op = job.op /\ job'.pid = job.pid /\ job'.slot = job.slot
        /\ DOMAIN job' = DOMAIN job
    BY DEF LifeInv, LifeType
  <1>2. LifeType'
    BY <1>1 DEF LifeInv, LifeType, Lifecycle!NoSignal
  <1>3. ListedOnce'
    BY DEF LifeInv, ListedOnce, Lifecycle!Alive
  <1> QED BY <1>1, <1>2, <1>3

LEMMA FailureKeepsLife ==
  ASSUME LifeInv, Lifecycle!Fail, UNCHANGED <<processId, object, child, signal>>
  PROVE  LifeInv'
  <1>1. /\ LifeType' /\ ListedOnce'
        /\ job'.phase = "failed" /\ job'.op = job.op /\ job'.pid = job.pid /\ job'.slot = job.slot
    BY GoesOn DEF Lifecycle!Fail
  <1>2. JobOk' /\ WalkOk'
    BY <1>1 DEF LifeInv, JobOk, WalkOk, Destroying
  <1> QED BY <1>1, <1>2 DEF LifeInv

(* A new process has its slot and no child yet.                                    *)
LEMMA LaunchKeepsLife ==
  ASSUME Assumptions, LifeInv, Lifecycle!launch
  PROVE  LifeInv'
  <1>1. UNCHANGED <<processId, object, signal>>
    BY DEF Lifecycle!launch
  <1>2. /\ job.phase = "launch" /\ job.op = "create" /\ job.slot \in Lifecycle!Slots /\ processId[job.slot] = job.pid
        /\ child[job.pid] = "none" /\ object[job.slot] = "master" /\ job.pid \in Lifecycle!Pids
    BY DEF Lifecycle!launch, LifeInv, JobOk
  <1>3. CASE Lifecycle!Fail /\ UNCHANGED child
    BY <1>1, <1>3, FailureKeepsLife
  <1>4. CASE Lifecycle!Finish /\ child' = [child EXCEPT ![job.pid] = "starter"]
    <2>1. /\ child' \in [Lifecycle!Pids -> ChildStates] /\ child'[job.pid] = "starter"
          /\ \A p \in Lifecycle!Pids \ {job.pid} : child'[p] = child[p]
      BY <1>2, <1>4 DEF LifeInv, LifeType, ChildStates
    <2>2. /\ job'.phase = "done" /\ job'.op = job.op /\ job'.pid = job.pid /\ job'.slot = job.slot
          /\ DOMAIN job' = DOMAIN job
      BY <1>4 DEF Lifecycle!Finish, LifeInv, LifeType
    <2>3. LifeType'
      BY <1>1, <1>2, <2>1, <2>2 DEF LifeInv, LifeType, Lifecycle!NoSignal
    <2>4. ListedOnce'
      <3>1. \A i, j \in Lifecycle!Slots : processId'[i] = processId'[j] /\ processId'[i] \in Lifecycle!Pids => i = j
        BY <1>1 DEF LifeInv, ListedOnce
      <3>2. \A p \in Lifecycle!Pids : child'[p] # "none" => \E i \in Lifecycle!Slots : processId'[i] = p
        BY <1>1, <1>2, <2>1 DEF LifeInv, ListedOnce
      <3>3. \A i \in Lifecycle!Slots : processId'[i] \in Lifecycle!Pids /\ Lifecycle!Alive(processId[i])' =>
                object'[i] \in {"master", "client"}
        <4> SUFFICES ASSUME NEW i \in Lifecycle!Slots, processId[i] \in Lifecycle!Pids, Lifecycle!Alive(processId[i])'
                     PROVE  object[i] \in {"master", "client"}
          BY <1>1
        <4>1. CASE i = job.slot
          BY <1>2, <4>1
        <4>2. CASE i # job.slot
          <5>1. processId[i] # job.pid
            BY <1>2, <4>2 DEF LifeInv, ListedOnce
          <5>2. Lifecycle!Alive(processId[i])
            BY <1>1, <2>1, <5>1 DEF Lifecycle!Alive
          <5> QED BY <5>2 DEF LifeInv, ListedOnce
        <4> QED BY <4>1, <4>2
      <3> QED BY <1>1, <3>1, <3>2, <3>3 DEF ListedOnce, Lifecycle!Alive
    <2>5. JobOk' /\ WalkOk'
      BY <1>2, <2>2 DEF LifeInv, JobOk, WalkOk, Destroying
    <2> QED BY <2>3, <2>4, <2>5 DEF LifeInv
  <1> QED BY <1>3, <1>4 DEF Lifecycle!launch

LEMMA LocateKeepsLife ==
  ASSUME Assumptions, LifeInv, Lifecycle!locateDestroyed
  PROVE  LifeInv'
  <1> DEFINE i == Lifecycle!getProcessIndex(job.pid)
  <1>1. /\ UNCHANGED <<processId, child, signal>> /\ job.phase = "locate" /\ job.op = "destroy"
        /\ job.pid \in Lifecycle!Pids
    BY DEF Lifecycle!locateDestroyed, LifeInv, JobOk
  <1>2. CASE Lifecycle!Fail /\ UNCHANGED object
    BY <1>1, <1>2, FailureKeepsLife
  <1>3. CASE i # 0 /\ Lifecycle!getProcess(i) /\ job' = [job EXCEPT !.phase = "getPid", !.slot = i]
    <2>1. i \in Lifecycle!Slots /\ processId[i] = job.pid /\ i \in Nat
      BY <1>3, IndexIs, LifeFacts
    <2> HIDE DEF i
    <2>2. /\ object' \in [Lifecycle!Slots -> {"none", "master", "client", "self"}]
          /\ \A j \in Lifecycle!Slots : object[j] \in {"master", "client"} => object'[j] \in {"master", "client"}
      BY <1>3, <2>1 DEF Lifecycle!getProcess, LifeInv, LifeType
    <2>3. /\ job'.phase = "getPid" /\ job'.op = "destroy" /\ job'.pid = job.pid /\ job'.slot = i
          /\ DOMAIN job' = DOMAIN job
      BY <1>1, <1>3 DEF LifeInv, LifeType
    <2>4. LifeType'
      BY <1>1, <2>1, <2>2, <2>3 DEF LifeInv, LifeType, Lifecycle!NoSignal
    <2>5. ListedOnce'
      BY <1>1, <2>2, ListedKept DEF LifeInv, ListedOnce, Lifecycle!Alive
    <2>6. JobOk' /\ WalkOk'
      BY <1>1, <2>1, <2>3 DEF JobOk, WalkOk, Destroying
    <2> QED BY <2>4, <2>5, <2>6 DEF LifeInv
  <1> QED BY <1>2, <1>3 DEF Lifecycle!locateDestroyed

(* The walk: an application in a slot that is passed over is not alive.            *)
LEMMA WalkKeepsLife ==
  ASSUME Assumptions, LifeInv, Lifecycle!destroyAllClientProcesses
  PROVE  LifeInv'
  <1> DEFINE kind == IF job.phase = "applications" THEN Applications ELSE Lifecycle!Pids
             next == Lifecycle!NextClient(kind)
             m == CHOOSE i \in next : \A j \in next : i <= j
  <1>1. /\ UNCHANGED <<processId, object, child, signal>> /\ job.phase \in {"applications", "services"}
        /\ job.slot \in Nat
        /\ job' = IF next # {} THEN [job EXCEPT !.slot = m, !.op = job.phase, !.phase = "getPid"]
                  ELSE IF job.phase = "applications" THEN [job EXCEPT !.phase = "services", !.slot = 0]
                  ELSE [job EXCEPT !.phase = "done"]
    BY DEF Lifecycle!destroyAllClientProcesses, LifeInv, LifeType
  <1>2. ListedOnce'
    BY <1>1 DEF LifeInv, ListedOnce, Lifecycle!Alive
  <1>3. Applications \subseteq Lifecycle!Pids
    BY LifeFacts
  <1>4. job.phase = "applications" =>
            \A i \in Lifecycle!Slots : processId[i] \in Applications /\ Lifecycle!Alive(processId[i]) => i \in next
    <2> SUFFICES ASSUME job.phase = "applications", NEW i \in Lifecycle!Slots, processId[i] \in Applications,
                        Lifecycle!Alive(processId[i])
                 PROVE  i \in next
      OBVIOUS
    <2>1. object[i] \in {"master", "client"}
      BY <1>3 DEF LifeInv, ListedOnce
    <2>2. ~ (i <= job.slot)
      BY DEF LifeInv, WalkOk, Passed
    <2> QED BY <1>1, <2>1, <2>2, LifeFacts DEF Lifecycle!NextClient
  <1>5. next \in SUBSET Lifecycle!Slots /\ \A i \in next : processId[i] \in kind
    BY DEF Lifecycle!NextClient
  <1>6. job.op \in {"destroyAll", "applications", "services"}
    BY <1>1 DEF LifeInv, JobOk
  <1>7. CASE next # {}
    <2>1. m \in next /\ \A j \in next : m <= j
      <3>1. next \in SUBSET Nat
        BY <1>5, LifeFacts
      <3>2. \E i \in next : \A j \in next : i <= j
        BY <1>7, <3>1, LeastIs
      <3> QED BY <3>2
    <2> HIDE DEF next, m, kind
    <2>2. m \in Lifecycle!Slots /\ m \in Nat /\ processId[m] \in kind
      BY <1>5, <2>1, LifeFacts
    <2>3. /\ job'.slot = m /\ job'.op = job.phase /\ job'.phase = "getPid" /\ job'.pid = job.pid
          /\ DOMAIN job' = DOMAIN job
      BY <1>1, <1>7 DEF LifeInv, LifeType
    <2>4. LifeType'
      BY <1>1, <2>2, <2>3 DEF LifeInv, LifeType, Lifecycle!NoSignal
    <2>5. JobOk'
      BY <1>1, <1>3, <2>2, <2>3 DEF JobOk, Destroying, kind
    <2>6. WalkOk'
      <3>1. CASE job.phase = "applications"
        <4>1. \A i \in Lifecycle!Slots : i < m /\ processId[i] \in Applications => ~Lifecycle!Alive(processId[i])
          BY <1>4, <2>1, <2>2, <3>1, LifeFacts
        <4> QED BY <1>1, <2>3, <3>1, <4>1 DEF WalkOk, Passed, Destroying, Lifecycle!Alive
      <3>2. CASE job.phase = "services"
        BY <1>1, <2>3, <3>2 DEF LifeInv, WalkOk, Passed, Destroying, Lifecycle!Alive
      <3> QED BY <1>1, <3>1, <3>2
    <2> QED BY <1>2, <2>4, <2>5, <2>6 DEF LifeInv
  <1>8. CASE next = {} /\ job.phase = "applications"
    <2> HIDE DEF next, m, kind
    <2>1. /\ job'.slot = 0 /\ job'.op = job.op /\ job'.phase = "services" /\ job'.pid = job.pid
          /\ DOMAIN job' = DOMAIN job
      BY <1>1, <1>8 DEF LifeInv, LifeType
    <2>2. \A p \in Applications : ~Lifecycle!Alive(p)
      <3> SUFFICES ASSUME NEW p \in Applications, Lifecycle!Alive(p) PROVE FALSE
        OBVIOUS
      <3>1. PICK i \in Lifecycle!Slots : processId[i] = p
        BY <1>3 DEF LifeInv, ListedOnce, Lifecycle!Alive
      <3> QED BY <1>4, <1>8, <3>1
    <2>3. LifeType' /\ JobOk'
      BY <1>1, <1>6, <2>1 DEF LifeInv, LifeType, JobOk, Destroying, Lifecycle!NoSignal
    <2>4. WalkOk'
      BY <1>1, <2>1, <2>2 DEF WalkOk, Destroying, Lifecycle!Alive
    <2> QED BY <1>2, <2>3, <2>4 DEF LifeInv
  <1>9. CASE next = {} /\ job.phase = "services"
    <2> HIDE DEF next, m, kind
    <2>1. /\ job'.slot = job.slot /\ job'.op = job.op /\ job'.phase = "done" /\ job'.pid = job.pid
          /\ DOMAIN job' = DOMAIN job
      BY <1>1, <1>9 DEF LifeInv, LifeType
    <2> QED
      BY <1>1, <1>2, <1>6, <2>1 DEF LifeInv, LifeType, JobOk, WalkOk, Destroying, Lifecycle!NoSignal
  <1> QED BY <1>1, <1>7, <1>8, <1>9

--------------------------------------------------------------------------------
(* A child ends, or lives on in another state, while the entity may go on with its *)
(* job in the slot of that child.                                                  *)
LEMMA ChildKept ==
  ASSUME Assumptions, LifeInv, UNCHANGED <<processId, object>>,
         NEW p \in Lifecycle!Pids, NEW new \in ChildStates, child' = [child EXCEPT ![p] = new],
         \E i \in Lifecycle!Slots : processId[i] = p,
         new \in {"starter", "running", "stopped"} => Lifecycle!Alive(p),
         Ended(p) => new \in {"leaving", "gone"}, child[p] = "gone" => new = "gone",
         signal' # Lifecycle!NoSignal => signal' = signal \/ (signal'.pid = p /\ new = "gone"),
         DOMAIN job' = DOMAIN job, job'.op = job.op, job'.pid = job.pid, job'.slot = job.slot
  PROVE  /\ LifeType' /\ ListedOnce'
         /\ \A q \in Lifecycle!Pids : (Lifecycle!Alive(q)' => Lifecycle!Alive(q)) /\ (Ended(q) => Ended(q)')
         /\ Ended(p)' <=> new \in {"leaving", "gone"}
  <1>1. /\ child' \in [Lifecycle!Pids -> ChildStates] /\ child'[p] = new
        /\ \A q \in Lifecycle!Pids \ {p} : child'[q] = child[q]
    BY DEF LifeInv, LifeType
  <1>2. \A q \in Lifecycle!Pids : (Lifecycle!Alive(q)' => Lifecycle!Alive(q)) /\ (Ended(q) => Ended(q)')
    <2> SUFFICES ASSUME NEW q \in Lifecycle!Pids
                 PROVE (Lifecycle!Alive(q)' => Lifecycle!Alive(q)) /\ (Ended(q) => Ended(q)')
      OBVIOUS
    <2>1. CASE q = p
      BY <1>1, <2>1 DEF Lifecycle!Alive, Ended
    <2>2. CASE q # p
      BY <1>1, <2>2 DEF Lifecycle!Alive, Ended
    <2> QED BY <2>1, <2>2
  <1>3. signal' # Lifecycle!NoSignal => signal'.pid \in Lifecycle!Pids /\ child'[signal'.pid] = "gone"
    <2>1. CASE signal' = signal /\ signal # Lifecycle!NoSignal
      <3>1. signal.pid \in Lifecycle!Pids /\ child[signal.pid] = "gone"
        BY <2>1 DEF LifeInv, LifeType
      <3> QED BY <1>1, <2>1, <3>1
    <2>2. CASE signal'.pid = p /\ new = "gone"
      BY <1>1, <2>2
    <2> QED BY <2>1, <2>2
  <1>4. LifeType'
    BY <1>1, <1>3 DEF LifeInv, LifeType, Lifecycle!NoSignal
  <1>5. ListedOnce'
    <2>1. \A q \in Lifecycle!Pids : child'[q] # "none" =>
                child[q] # "none" \/ \E i \in Lifecycle!Slots : processId[i] = q
      BY <1>1
    <2>2. \A i \in Lifecycle!Slots : processId[i] \in Lifecycle!Pids /\ Lifecycle!Alive(processId[i])' =>
                object'[i] \in {"master", "client"}
      BY <1>2 DEF LifeInv, ListedOnce
    <2> QED BY <2>1, <2>2, ListedKept DEF LifeInv
  <1> QED BY <1>1, <1>2, <1>4, <1>5 DEF Ended

LEMMA WalkKept ==
  ASSUME Assumptions, LifeInv, processId' = processId, job'.slot = job.slot, job'.op = job.op,
         job'.phase = job.phase \/ (job.phase \in Destroying /\ job'.phase \in Destroying \cup {"failed", "done"}),
         \A q \in Lifecycle!Pids : Lifecycle!Alive(q)' => Lifecycle!Alive(q)
  PROVE  WalkOk'
  <1>1. Applications \subseteq Lifecycle!Pids
    BY LifeFacts
  <1>2. ASSUME job'.phase = "applications" \/ (job'.phase \in Destroying /\ job'.op = "applications"),
               NEW i \in Lifecycle!Slots, Passed(i)', processId'[i] \in Applications
        PROVE  ~Lifecycle!Alive(processId[i])'
    <2>1. job.phase = "applications" \/ (job.phase \in Destroying /\ job.op = "applications")
      BY <1>2 DEF Destroying
    <2>2. Passed(i)
      BY <1>2 DEF Passed, Destroying
    <2> QED BY <1>1, <1>2, <2>1, <2>2 DEF LifeInv, WalkOk
  <1>3. ASSUME job'.phase = "services" \/ (job'.phase \in Destroying /\ job'.op = "services"), NEW p \in Applications
        PROVE  ~Lifecycle!Alive(p)'
    <2>1. job.phase = "services" \/ (job.phase \in Destroying /\ job.op = "services")
      BY <1>3 DEF Destroying
    <2> QED BY <1>1, <2>1 DEF LifeInv, WalkOk
  <1> QED BY <1>2, <1>3 DEF WalkOk, Lifecycle!Alive

(* Process::destroy(): the child is told to end, or killed, before its object is   *)
(* deinitialised.                                                                  *)
LEMMA DestroyingIs ==
  ASSUME Assumptions, LifeInv, job.phase \in Destroying
  PROVE  /\ job.op \in {"destroy", "applications", "services"} /\ job.slot \in Lifecycle!Slots
         /\ Lifecycle!Target \in Lifecycle!Pids
         /\ job.op = "destroy" => Lifecycle!Target = job.pid
         /\ job.op = "applications" => Lifecycle!Target \in Applications
  BY DEF LifeInv, JobOk, Lifecycle!Target

LEMMA DestroyStepKeepsLife ==
  ASSUME Assumptions, LifeInv, Lifecycle!refreshPosixId \/ Lifecycle!Terminate \/ Lifecycle!waitForChild \/ Lifecycle!Kill
  PROVE  LifeInv'
  <1> USE DEF Destroying
  <1>1. UNCHANGED <<processId, object>> /\ job.phase \in {"getPid", "term", "sigchld", "catch"}
    BY DEF Lifecycle!refreshPosixId, Lifecycle!Terminate, Lifecycle!waitForChild, Lifecycle!Kill
  <1>2. /\ job.op \in {"destroy", "applications", "services"} /\ job.slot \in Lifecycle!Slots
        /\ processId[job.slot] \in Lifecycle!Pids
        /\ job.op = "destroy" => processId[job.slot] = job.pid
        /\ job.op = "applications" => processId[job.slot] \in Applications
    BY <1>1, DestroyingIs DEF Lifecycle!Target
  <1>3. ASSUME NEW phase, job' = [job EXCEPT !.phase = phase], UNCHANGED child,
               signal' = signal \/ signal' = Lifecycle!NoSignal,
               \/ phase \in {"term", "catch", "failed"}
               \/ phase = "deinitialize" /\ job.phase = "sigchld"
        PROVE  LifeInv'
    <2>1. /\ LifeType' /\ ListedOnce'
          /\ job'.phase = phase /\ job'.op = job.op /\ job'.pid = job.pid /\ job'.slot = job.slot
      BY <1>1, <1>3, GoesOn
    <2>2. JobOk'
      BY <1>1, <1>2, <1>3, <2>1 DEF LifeInv, JobOk, Ended
    <2>3. WalkOk'
      BY <1>1, <1>3, <2>1, WalkKept DEF Lifecycle!Alive
    <2> QED BY <2>1, <2>2, <2>3 DEF LifeInv
  <1>4. ASSUME NEW phase \in {"sigchld", "deinitialize", "catch"}, job' = [job EXCEPT !.phase = phase],
               NEW new \in {"leaving", "gone"}, child' = [child EXCEPT ![processId[job.slot]] = new],
               child[processId[job.slot]] = "gone" => new = "gone",
               signal' # Lifecycle!NoSignal => signal' = signal \/ (signal'.pid = processId[job.slot] /\ new = "gone")
        PROVE  LifeInv'
    <2>1. /\ job'.phase = phase /\ job'.op = job.op /\ job'.pid = job.pid /\ job'.slot = job.slot
          /\ DOMAIN job' = DOMAIN job
      BY <1>4 DEF LifeInv, LifeType
    <2>2. new \in ChildStates
      BY DEF ChildStates
    <2>3. /\ LifeType' /\ ListedOnce'
          /\ \A q \in Lifecycle!Pids : (Lifecycle!Alive(q)' => Lifecycle!Alive(q)) /\ (Ended(q) => Ended(q)')
          /\ Ended(processId[job.slot])'
      BY <1>1, <1>2, <1>4, <2>1, <2>2, ChildKept
    <2>4. JobOk'
      BY <1>1, <1>2, <2>1, <2>3 DEF LifeInv, JobOk, Ended
    <2>5. WalkOk'
      BY <1>1, <2>1, <2>3, WalkKept
    <2> QED BY <2>3, <2>4, <2>5 DEF LifeInv
  <1>5. CASE Lifecycle!refreshPosixId
    BY <1>3, <1>5 DEF Lifecycle!refreshPosixId, Lifecycle!Goto
  <1>6. CASE Lifecycle!waitForChild
    BY <1>3, <1>6 DEF Lifecycle!waitForChild, Lifecycle!Goto
  <1>7. CASE Lifecycle!Terminate
    BY <1>3, <1>4, <1>7 DEF Lifecycle!Terminate, Lifecycle!Goto, Lifecycle!Target, Lifecycle!Alive
  <1>8. CASE Lifecycle!Kill
    BY <1>3, <1>4, <1>8 DEF Lifecycle!Kill, Lifecycle!Goto, Lifecycle!Fail, Lifecycle!Target
  <1> QED BY <1>5, <1>6, <1>7, <1>8

LEMMA DeinitializeKeepsLife ==
  ASSUME Assumptions, LifeInv, Lifecycle!Deinitialize
  PROVE  LifeInv'
  <1> USE DEF Destroying
  <1> DEFINE i == job.slot
  <1>1. /\ UNCHANGED <<processId, child, signal>> /\ job.phase = "deinitialize"
        /\ object' = [object EXCEPT ![i] = "none"]
    BY DEF Lifecycle!Deinitialize, Lifecycle!deinitialize
  <1>2. /\ job.op \in {"destroy", "applications", "services"} /\ i \in Lifecycle!Slots
        /\ processId[i] \in Lifecycle!Pids
        /\ job.op = "destroy" => processId[i] = job.pid
    BY <1>1, DestroyingIs DEF Lifecycle!Target
  <1>3. Ended(processId[i]) /\ ~Lifecycle!Alive(processId[i])
    BY <1>1 DEF LifeInv, JobOk, Ended, Lifecycle!Alive
  <1>4. /\ job'.op = job.op /\ job'.pid = job.pid /\ job'.slot = job.slot /\ DOMAIN job' = DOMAIN job
        /\ job'.phase = IF job.op = "destroy" THEN "done" ELSE job.op
    BY DEF Lifecycle!Deinitialize, Lifecycle!Goto, LifeInv, LifeType
  <1>5. /\ object' \in [Lifecycle!Slots -> {"none", "master", "client", "self"}]
        /\ \A j \in Lifecycle!Slots \ {i} : object'[j] = object[j]
    BY <1>1 DEF LifeInv, LifeType
  <1>6. LifeType'
    BY <1>1, <1>4, <1>5 DEF LifeInv, LifeType, Lifecycle!NoSignal
  <1>7. ListedOnce'
    <2>1. \A j \in Lifecycle!Slots : processId[j] \in Lifecycle!Pids /\ Lifecycle!Alive(processId[j])' =>
                object'[j] \in {"master", "client"}
      <3> SUFFICES ASSUME NEW j \in Lifecycle!Slots, processId[j] \in Lifecycle!Pids, Lifecycle!Alive(processId[j])'
                   PROVE  object'[j] \in {"master", "client"}
        OBVIOUS
      <3>1. Lifecycle!Alive(processId[j])
        BY <1>1 DEF Lifecycle!Alive
      <3>2. j # i
        BY <1>3, <3>1
      <3> QED BY <1>5, <3>1, <3>2 DEF LifeInv, ListedOnce
    <2> QED BY <1>1, <2>1, ListedKept DEF LifeInv
  <1>8. JobOk'
    BY <1>1, <1>2, <1>3, <1>4 DEF JobOk, Ended
  <1>9. WalkOk'
    <2>1. CASE job.op = "applications"
      <3>1. \A j \in Lifecycle!Slots : j <= i /\ processId[j] \in Applications => ~Lifecycle!Alive(processId[j])
        <4> SUFFICES ASSUME NEW j \in Lifecycle!Slots, j <= i, processId[j] \in Applications
                     PROVE ~Lifecycle!Alive(processId[j])
          OBVIOUS
        <4>1. CASE j = i
          BY <1>3, <4>1
        <4>2. CASE j # i
          <5>1. j < i
            BY <1>2, <4>2, LifeFacts
          <5> QED BY <1>1, <2>1, <5>1 DEF LifeInv, WalkOk, Passed
        <4> QED BY <4>1, <4>2
      <3> QED BY <1>1, <1>4, <2>1, <3>1 DEF WalkOk, Passed, Lifecycle!Alive
    <2>2. CASE job.op = "services"
      BY <1>1, <1>4, <2>2 DEF LifeInv, WalkOk, Lifecycle!Alive
    <2>3. CASE job.op = "destroy"
      BY <1>4, <2>3 DEF WalkOk
    <2> QED BY <1>2, <2>1, <2>2, <2>3
  <1> QED BY <1>6, <1>7, <1>8, <1>9 DEF LifeInv

(* What the children do, and the signal of their end.                              *)
LEMMA ChildKeepsLife ==
  ASSUME Assumptions, LifeInv, NEW p \in Lifecycle!Pids,
         \/ Lifecycle!RunHandler(p) \/ Lifecycle!StopHandler(p) \/ Lifecycle!Exit(p)
         \/ Lifecycle!StarterFails(p) \/ Lifecycle!Crash(p)
  PROVE  LifeInv'
  <1>1. PICK new \in {"running", "stopped", "gone"} :
           /\ child' = [child EXCEPT ![p] = new] /\ UNCHANGED <<processId, object, job>>
           /\ child[p] \notin {"none", "gone"}
           /\ new # "gone" => Lifecycle!Alive(p)
           /\ signal' # Lifecycle!NoSignal => signal' = signal \/ (signal'.pid = p /\ new = "gone")
    BY DEF Lifecycle!RunHandler, Lifecycle!StopHandler, Lifecycle!Exit, Lifecycle!StarterFails, Lifecycle!Crash,
           Lifecycle!Becomes, Lifecycle!Ends, Lifecycle!Alive
  <1>2. /\ new \in ChildStates /\ (Ended(p) => new \in {"leaving", "gone"})
        /\ \E i \in Lifecycle!Slots : processId[i] = p
    BY <1>1 DEF ChildStates, Ended, Lifecycle!Alive, LifeInv, ListedOnce
  <1>3. /\ LifeType' /\ ListedOnce'
        /\ \A q \in Lifecycle!Pids : (Lifecycle!Alive(q)' => Lifecycle!Alive(q)) /\ (Ended(q) => Ended(q)')
    BY <1>1, <1>2, ChildKept
  <1>4. \A q \in Lifecycle!Pids : child[q] = "none" => child'[q] = "none"
    BY <1>1
  <1>5. JobOk'
    BY <1>1, <1>3, <1>4 DEF LifeInv, JobOk, Ended, Destroying
  <1>6. WalkOk'
    BY <1>1, <1>3, WalkKept DEF Destroying
  <1> QED BY <1>3, <1>5, <1>6 DEF LifeInv

LEMMA SignalKeepsLife ==
  ASSUME Assumptions, LifeInv, Lifecycle!SigChildCallback
  PROVE  LifeInv'
  <1> DEFINE p == signal.pid
             i == Lifecycle!getProcessIndex(p)
  <1>1. UNCHANGED <<processId, child, job>> /\ signal' = Lifecycle!NoSignal /\ signal # Lifecycle!NoSignal
    BY DEF Lifecycle!SigChildCallback
  <1>2. p \in Lifecycle!Pids /\ child[p] = "gone"
    BY <1>1 DEF LifeInv, LifeType
  <1>3. /\ object' \in [Lifecycle!Slots -> {"none", "master", "client", "self"}]
        /\ \A j \in Lifecycle!Slots : j # i /\ object[j] \in {"master", "client"} => object'[j] = object[j]
    <2>1. PICK closes \in BOOLEAN, opened \in SUBSET Lifecycle!Slots :
             /\ \A j \in opened : object[j] = "none"
             /\ object' = [j \in Lifecycle!Slots |-> IF closes /\ j = i THEN "none"
                                                     ELSE IF j \in opened THEN "client" ELSE object[j]]
      <3> DEFINE walked == Lifecycle!Walked(p)
                 found == i \in posixId /\ \A j \in walked : Lifecycle!Locatable(j)
                 shown == {j \in walked : /\ object[j] = "none"
                                         /\ \A k \in walked : k <= j => Lifecycle!Locatable(k)}
                 closing == /\ found /\ signal.end \in {"success", "error"}
                            /\ ~(job.slot = i /\ job.phase \in {"term", "sigchld", "catch", "deinitialize"})
      <3>1. object' = [j \in Lifecycle!Slots |-> IF closing /\ j = i THEN "none"
                                                ELSE IF j \in shown THEN "client" ELSE object[j]]
        BY DEF Lifecycle!SigChildCallback
      <3>2. shown \in SUBSET Lifecycle!Slots /\ \A j \in shown : object[j] = "none"
        BY DEF Lifecycle!Walked
      <3>3. closing \in BOOLEAN
        OBVIOUS
      <3> HIDE DEF shown, closing
      <3> QED BY <3>1, <3>2, <3>3
    <2> QED BY <2>1 DEF LifeInv, LifeType
  <1>4. \A j \in Lifecycle!Slots : processId[j] \in Lifecycle!Pids /\ child[processId[j]] # "gone" => j # i
    <2>1. \A j \in Lifecycle!Slots : j = i => processId[j] = p
      BY IndexIs, LifeFacts
    <2> QED BY <1>2, <2>1
  <1> HIDE DEF p, i
  <1>5. LifeType'
    BY <1>1, <1>3 DEF LifeInv, LifeType
  <1>6. ListedOnce'
    <2>1. \A j \in Lifecycle!Slots : processId[j] \in Lifecycle!Pids /\ Lifecycle!Alive(processId[j])' =>
                object'[j] \in {"master", "client"}
      BY <1>1, <1>3, <1>4 DEF LifeInv, ListedOnce, Lifecycle!Alive
    <2> QED BY <1>1, <2>1, ListedKept DEF LifeInv
  <1>7. JobOk'
    <2>1. job.phase = "launch" => object'[job.slot] = "master"
      BY <1>3, <1>4 DEF LifeInv, JobOk
    <2> QED BY <1>1, <2>1 DEF LifeInv, JobOk, Ended, Destroying
  <1>8. WalkOk'
    BY <1>1 DEF LifeInv, WalkOk, Passed, Lifecycle!Alive, Destroying
  <1> QED BY <1>5, <1>6, <1>7, <1>8 DEF LifeInv

LEMMA LifeStep ==
  ASSUME Assumptions, LifeInv, Lifecycle!Next \/ UNCHANGED lifecycleVars
  PROVE  LifeInv'
  <1>1. CASE UNCHANGED lifecycleVars
    <2>1. UNCHANGED <<processId, object, child, signal, job>>
      BY <1>1 DEF lifecycleVars
    <2> QED
      BY <2>1 DEF LifeInv, LifeType, ListedOnce, JobOk, WalkOk, Passed, Ended, Lifecycle!Alive, Lifecycle!NoSignal
  <1>2. ASSUME NEW p \in Lifecycle!Pids, Lifecycle!Request("create", p) \/ Lifecycle!Request("destroy", p)
        PROVE  LifeInv'
    BY <1>2, RequestKeepsLife
  <1>3. CASE Lifecycle!Request("destroyAll", Entity)
    BY <1>3, RequestKeepsLife
  <1> QED
    BY <1>1, <1>2, <1>3, AllocateKeepsLife, LaunchKeepsLife, LocateKeepsLife, WalkKeepsLife, DestroyStepKeepsLife,
       DeinitializeKeepsLife, ChildKeepsLife, SignalKeepsLife
    DEF Lifecycle!Next

LEMMA LifeIsKept == Spec => []LifeInv
  <1>1. Init => LifeInv
    BY LifeInit, Assumptions DEF Init
  <1>2. LifeInv /\ [Next]_vars => LifeInv'
    <2>1. [Next]_vars => Lifecycle!Next \/ UNCHANGED lifecycleVars
      BY DEF Next, vars, management
    <2> QED BY <2>1, LifeStep, Assumptions
  <1> QED BY <1>1, <1>2, PTL DEF Spec

(* ProcessLifecycle.DestroyedIsGone: whatever times out, answers late or crashes,  *)
(* a process that was destroyed does not execute any more (Process::destroy).      *)
THEOREM DestroyedStaysGone == Spec => []DestroyedIsGone
  <1>1. LifeInv => DestroyedIsGone
    BY DEF LifeInv, JobOk, Ended, DestroyedIsGone, Lifecycle!DestroyedIsGone, Lifecycle!Alive
  <1> QED BY <1>1, LifeIsKept, PTL

(* ProcessLifecycle.ApplicationsFirst: when the entity goes down, it tells no      *)
(* service to end while an application of its table is alive, whatever slots they  *)
(* have (ProcessManager::destroyAllClientProcesses).                               *)
THEOREM ApplicationsGoFirst == Spec => ApplicationsFirst
  <1>1. LifeInv => (Lifecycle!Terminate /\ job.op # "destroy" /\ Lifecycle!Target \in Services
                       => \A p \in Applications : ~Lifecycle!Alive(p))
    <2> SUFFICES ASSUME LifeInv, Lifecycle!Terminate, job.op # "destroy", Lifecycle!Target \in Services
                 PROVE  \A p \in Applications : ~Lifecycle!Alive(p)
      OBVIOUS
    <2>1. job.phase = "term" /\ job.phase \in Destroying
      BY DEF Lifecycle!Terminate, Destroying
    <2>2. job.op = "services"
      BY <2>1, Assumptions, DestroyingIs, LifeFacts
    <2> QED BY <2>1, <2>2 DEF LifeInv, WalkOk
  <1>2. Spec => [](LifeInv)
    BY LifeIsKept
  <1> QED BY <1>1, <1>2, PTL DEF ApplicationsFirst, Lifecycle!ApplicationsFirst

--------------------------------------------------------------------------------
(* NamedObjects: an event counts the threads that wait for it, and only an event   *)
(* that counts none is deleted; the area of a semaphore's slot is free whenever    *)
(* its id is.                                                                      *)
Waiters(s) == {t \in Callers : at[t].pc = "waiting" /\ at[t].slot = s}

SlotRecord ==
    [name : Names \cup {NoName}, id : Nat, object : BOOLEAN, used : BOOLEAN, value : Int, waiting : Int]
ThreadRecord == [pc : {"away", "wait", "post", "reset", "counting", "waiting", "leaving", "uncounting", "posting"},
                 slot : NamedSlots \cup {Named!Away.slot}, seen : Int]

NamedType ==
    /\ manager \in {"semaphore", "event"}
    /\ slot \in [NamedSlots -> SlotRecord]
    /\ at \in [Callers -> ThreadRecord]
    /\ nextId \in Nat \ {0}

EventsCounted ==
    manager = "event" =>
        /\ \A t \in Callers : at[t].pc = "waiting" => at[t].slot \in NamedSlots /\ slot[at[t].slot].object
        /\ \A s \in NamedSlots : slot[s].waiting = Cardinality(Waiters(s))

SemaphoresBuilt ==
    manager = "semaphore" => \A s \in NamedSlots : IF slot[s].id = 0 THEN ~slot[s].used ELSE slot[s].object

\* a thread has found a slot, and a slot without id has nothing in it
Found ==
    /\ \A t \in Callers : at[t].pc # "away" => at[t].slot \in NamedSlots
    /\ \A s \in NamedSlots : slot[s].id = 0 => ~slot[s].object

NamedInv == NamedType /\ Found /\ EventsCounted /\ SemaphoresBuilt

LEMMA NamedFacts ==
  ASSUME Assumptions
  PROVE  IsFiniteSet(Callers) /\ NoName \notin Names /\ MaxCount \in Nat \ {0}
  BY DEF Assumptions, Named!NamedObjectsAssumption, IsFiniteSet, Named!IsFiniteSet

LEMMA NamedInit == Assumptions /\ Named!Init => NamedInv
  <1> SUFFICES ASSUME Assumptions, Named!Init PROVE NamedInv
    OBVIOUS
  <1>1. NamedType
    BY DEF NamedType, Named!Init, Named!Free, Named!Away, SlotRecord, ThreadRecord
  <1>2. \A s \in NamedSlots : Waiters(s) = {}
    BY DEF Named!Init, Named!Away, Waiters
  <1>3. \A s \in NamedSlots : slot[s].waiting = Cardinality(Waiters(s))
    BY <1>2, FS_EmptySet DEF Named!Init, Named!Free
  <1>4. Found /\ EventsCounted /\ SemaphoresBuilt
    BY <1>3 DEF Found, EventsCounted, SemaphoresBuilt, Named!Init, Named!Free, Named!Away
  <1> QED BY <1>1, <1>4 DEF NamedInv

LEMMA CreateKeepsNamed ==
  ASSUME Assumptions, NamedInv, NEW name \in Names, Named!create(name)
  PROVE  NamedInv'
  <1>1. PICK s \in NamedSlots : /\ slot[s].id = 0 /\ slot' = [slot EXCEPT ![s] = Named!Created(s, name)]
    BY DEF Named!create, Named!findByPrivateId
  <1>2. UNCHANGED <<manager, at>> /\ nextId' = nextId + 1 /\ nextId \in Nat \ {0}
    BY DEF Named!create, NamedInv, NamedType
  <1>3. PICK new \in SlotRecord :
           /\ slot' = [slot EXCEPT ![s] = new] /\ new.id = nextId
           /\ IF slot[s].used THEN new.object = slot[s].object /\ new.waiting = slot[s].waiting
              ELSE new.object /\ new.waiting = 0
    <2>1. slot[s] \in SlotRecord
      BY DEF NamedInv, NamedType
    <2> DEFINE new == Named!Created(s, name)
    <2>2. /\ new \in SlotRecord /\ new.id = nextId
          /\ IF slot[s].used THEN new.object = slot[s].object /\ new.waiting = slot[s].waiting
             ELSE new.object /\ new.waiting = 0
      <3>1. CASE slot[s].used
        BY <1>1, <1>2, <2>1, <3>1 DEF Named!Created, SlotRecord
      <3>2. CASE ~slot[s].used
        BY <1>1, <1>2, <2>1, <3>2 DEF Named!Created, SlotRecord
      <3> QED BY <3>1, <3>2
    <2> QED BY <1>1, <2>2
  <1>4. slot' \in [NamedSlots -> SlotRecord] /\ slot'[s] = new /\ \A r \in NamedSlots \ {s} : slot'[r] = slot[r]
    BY <1>3 DEF NamedInv, NamedType
  <1>5. NamedType' /\ Found'
    BY <1>2, <1>3, <1>4 DEF NamedInv, NamedType, Found
  <1>6. EventsCounted'
    <2> SUFFICES ASSUME manager = "event" PROVE EventsCounted'
      BY <1>2 DEF EventsCounted
    <2>1. \A t \in Callers : at[t].pc = "waiting" => at[t].slot # s
      BY <1>1 DEF NamedInv, EventsCounted, Found
    <2>2. Waiters(s) = {}
      BY <2>1 DEF Waiters
    <2>3. slot[s].waiting = 0 /\ new.waiting = 0
      BY <1>3, <2>2, FS_EmptySet DEF NamedInv, EventsCounted
    <2>4. \A r \in NamedSlots : Waiters(r)' = Waiters(r)
      BY <1>2 DEF Waiters
    <2>5. \A r \in NamedSlots : slot'[r].waiting = Cardinality(Waiters(r)')
      BY <1>4, <2>3, <2>4 DEF NamedInv, EventsCounted
    <2>6. \A t \in Callers : at[t].pc = "waiting" => at[t].slot \in NamedSlots /\ slot'[at[t].slot].object
      BY <1>4, <2>1 DEF NamedInv, EventsCounted
    <2> QED BY <1>2, <2>5, <2>6 DEF EventsCounted
  <1>7. SemaphoresBuilt'
    BY <1>1, <1>2, <1>3, <1>4 DEF NamedInv, SemaphoresBuilt
  <1> QED BY <1>5, <1>6, <1>7 DEF NamedInv

(* An object is deleted only if nobody waits for it; a semaphore leaves its area.   *)
LEMMA DeleteKeepsNamed ==
  ASSUME Assumptions, NamedInv, NEW s \in NamedSlots, Named!delete(s)
  PROVE  NamedInv'
  <1>1. UNCHANGED <<manager, at, nextId>> /\ slot[s].id # 0
    BY DEF Named!delete
  <1>2. CASE UNCHANGED slot
    BY <1>1, <1>2 DEF NamedInv, NamedType, Found, EventsCounted, SemaphoresBuilt, Waiters
  <1>3. CASE slot[s].object /\ Named!Deletable(s) /\ slot' = [slot EXCEPT ![s] = Named!Deleted(s)]
    <2>1. PICK new \in SlotRecord :
             /\ slot' = [slot EXCEPT ![s] = new] /\ new.id = 0 /\ ~new.object /\ new.waiting = slot[s].waiting
             /\ manager = "semaphore" => ~new.used
      <3>1. slot[s] \in SlotRecord
        BY DEF NamedInv, NamedType
      <3> DEFINE new == Named!Deleted(s)
      <3>2. /\ new \in SlotRecord /\ new.id = 0 /\ ~new.object /\ new.waiting = slot[s].waiting
            /\ manager = "semaphore" => ~new.used
        BY <3>1 DEF Named!Deleted, SlotRecord
      <3> QED BY <1>3, <3>2
    <2>2. slot' \in [NamedSlots -> SlotRecord] /\ slot'[s] = new /\ \A r \in NamedSlots \ {s} : slot'[r] = slot[r]
      BY <2>1 DEF NamedInv, NamedType
    <2>3. NamedType' /\ Found'
      BY <1>1, <2>1, <2>2 DEF NamedInv, NamedType, Found
    <2>4. EventsCounted'
      <3> SUFFICES ASSUME manager = "event" PROVE EventsCounted'
        BY <1>1 DEF EventsCounted
      <3>1. Cardinality(Waiters(s)) = 0
        BY <1>3 DEF NamedInv, EventsCounted, Named!Deletable
      <3>2. IsFiniteSet(Waiters(s))
        BY NamedFacts, FS_Subset DEF Waiters
      <3>3. Waiters(s) = {}
        BY <3>1, <3>2, FS_EmptySet
      <3>4. \A t \in Callers : at[t].pc = "waiting" => at[t].slot # s
        BY <3>3 DEF Waiters
      <3>5. \A r \in NamedSlots : Waiters(r)' = Waiters(r)
        BY <1>1 DEF Waiters
      <3>6. \A r \in NamedSlots : slot'[r].waiting = Cardinality(Waiters(r)')
        BY <2>1, <2>2, <3>5 DEF NamedInv, EventsCounted
      <3>7. \A t \in Callers : at[t].pc = "waiting" => at[t].slot \in NamedSlots /\ slot'[at[t].slot].object
        BY <2>2, <3>4 DEF NamedInv, EventsCounted
      <3> QED BY <1>1, <3>6, <3>7 DEF EventsCounted
    <2>5. SemaphoresBuilt'
      BY <1>1, <2>1, <2>2 DEF NamedInv, SemaphoresBuilt
    <2> QED BY <2>3, <2>4, <2>5 DEF NamedInv
  <1> QED BY <1>2, <1>3 DEF Named!delete

(* A call moves a thread and writes one field of its slot.                         *)
Written(s, field, v) == [slot EXCEPT ![s][field] = v]

LEMMA FieldWritten ==
  ASSUME NamedInv, NEW s \in NamedSlots, NEW field \in {"waiting", "value"}, NEW v \in Int,
         slot' = Written(s, field, v)
  PROVE  /\ slot' \in [NamedSlots -> SlotRecord]
         /\ \A r \in NamedSlots : /\ slot'[r].id = slot[r].id /\ slot'[r].object = slot[r].object
                                  /\ slot'[r].used = slot[r].used
         /\ \A r \in NamedSlots \ {s} : slot'[r].waiting = slot[r].waiting
         /\ slot'[s].waiting = IF field = "waiting" THEN v ELSE slot[s].waiting
  <1>1. slot[s] \in SlotRecord
    BY DEF NamedInv, NamedType
  <1>2. PICK new \in SlotRecord :
           /\ slot' = [slot EXCEPT ![s] = new]
           /\ new.id = slot[s].id /\ new.object = slot[s].object /\ new.used = slot[s].used
           /\ new.waiting = IF field = "waiting" THEN v ELSE slot[s].waiting
    <2>1. CASE field = "waiting"
      <3> DEFINE new == [slot[s] EXCEPT !.waiting = v]
      <3>1. slot' = [slot EXCEPT ![s] = new]
        BY <2>1 DEF Written
      <3>2. /\ new \in SlotRecord /\ new.waiting = v
            /\ new.id = slot[s].id /\ new.object = slot[s].object /\ new.used = slot[s].used
        BY <1>1 DEF SlotRecord
      <3> HIDE DEF new
      <3> QED BY <2>1, <3>1, <3>2
    <2>2. CASE field = "value"
      <3> DEFINE new == [slot[s] EXCEPT !.value = v]
      <3>1. slot' = [slot EXCEPT ![s] = new]
        BY <2>2 DEF Written
      <3>2. /\ new \in SlotRecord /\ new.waiting = slot[s].waiting
            /\ new.id = slot[s].id /\ new.object = slot[s].object /\ new.used = slot[s].used
        BY <1>1 DEF SlotRecord
      <3> HIDE DEF new
      <3> QED BY <2>2, <3>1, <3>2
    <2> QED BY <2>1, <2>2
  <1>3. slot' \in [NamedSlots -> SlotRecord] /\ slot'[s] = new /\ \A r \in NamedSlots \ {s} : slot'[r] = slot[r]
    BY <1>2 DEF NamedInv, NamedType
  <1> QED BY <1>2, <1>3

--------------------------------------------------------------------------------
LEMMA ThreadMoved ==
  ASSUME Assumptions, NamedInv, NEW t \in Callers, NEW new \in ThreadRecord, at' = [at EXCEPT ![t] = new],
         new.pc # "away" => new.slot \in NamedSlots, UNCHANGED <<manager, nextId>>,
         slot' \in [NamedSlots -> SlotRecord],
         \A r \in NamedSlots : /\ slot'[r].id = slot[r].id /\ slot'[r].object = slot[r].object
                               /\ slot'[r].used = slot[r].used,
         manager = "event" =>
            /\ new.pc = "waiting" => slot[new.slot].object
            /\ \A r \in NamedSlots : slot'[r].waiting = Cardinality(Waiters(r)')
  PROVE  NamedInv'
  <1>1. at' \in [Callers -> ThreadRecord] /\ at'[t] = new /\ \A u \in Callers \ {t} : at'[u] = at[u]
    BY DEF NamedInv, NamedType
  <1>2. NamedType' /\ Found'
    BY <1>1 DEF NamedInv, NamedType, Found
  <1>3. SemaphoresBuilt'
    BY DEF NamedInv, SemaphoresBuilt
  <1>4. EventsCounted'
    <2> SUFFICES ASSUME manager = "event" PROVE EventsCounted'
      BY DEF EventsCounted
    <2>1. \A u \in Callers : at'[u].pc = "waiting" => at'[u].slot \in NamedSlots /\ slot[at'[u].slot].object
      BY <1>1 DEF NamedInv, EventsCounted
    <2> QED BY <2>1 DEF EventsCounted
  <1> QED BY <1>2, <1>3, <1>4 DEF NamedInv

(* The waiters of a slot before and after a thread has moved.                      *)
LEMMA WaitersSame ==
  ASSUME NamedInv, NEW t \in Callers, NEW new \in ThreadRecord, at' = [at EXCEPT ![t] = new],
         at[t].pc # "waiting", new.pc # "waiting"
  PROVE  \A r \in NamedSlots : Waiters(r)' = Waiters(r)
  <1>1. at'[t] = new /\ \A u \in Callers \ {t} : at'[u] = at[u]
    BY DEF NamedInv, NamedType
  <1> QED BY <1>1 DEF Waiters

(* Whatever a thread does that is no waiter of an event, before or after.          *)
LEMMA CallKeepsNamed ==
  ASSUME Assumptions, NamedInv, NEW t \in Callers, NEW new \in ThreadRecord, at' = [at EXCEPT ![t] = new],
         new.pc # "away" => new.slot \in NamedSlots, UNCHANGED <<manager, nextId>>,
         manager = "event" => at[t].pc # "waiting" /\ new.pc # "waiting",
         \/ UNCHANGED slot
         \/ \E s \in NamedSlots, v \in Int : slot' = Written(s, "value", v)
         \/ manager = "semaphore" /\ \E s \in NamedSlots, v \in Int : slot' = Written(s, "waiting", v)
  PROVE  NamedInv'
  <1>1. /\ slot' \in [NamedSlots -> SlotRecord]
        /\ \A r \in NamedSlots : /\ slot'[r].id = slot[r].id /\ slot'[r].object = slot[r].object
                                 /\ slot'[r].used = slot[r].used
        /\ manager = "event" => \A r \in NamedSlots : slot'[r].waiting = slot[r].waiting
    <2>1. CASE UNCHANGED slot
      BY <2>1 DEF NamedInv, NamedType
    <2>2. ASSUME NEW s \in NamedSlots, NEW v \in Int, slot' = Written(s, "value", v)
          PROVE  /\ slot' \in [NamedSlots -> SlotRecord]
                 /\ \A r \in NamedSlots : /\ slot'[r].id = slot[r].id /\ slot'[r].object = slot[r].object
                                          /\ slot'[r].used = slot[r].used /\ slot'[r].waiting = slot[r].waiting
      BY <2>2, FieldWritten
    <2>3. ASSUME manager = "semaphore", NEW s \in NamedSlots, NEW v \in Int, slot' = Written(s, "waiting", v)
          PROVE  /\ slot' \in [NamedSlots -> SlotRecord]
                 /\ \A r \in NamedSlots : /\ slot'[r].id = slot[r].id /\ slot'[r].object = slot[r].object
                                          /\ slot'[r].used = slot[r].used
      BY <2>3, FieldWritten
    <2> QED BY <2>1, <2>2, <2>3
  <1>2. manager = "event" => /\ \A r \in NamedSlots : slot'[r].waiting = Cardinality(Waiters(r)')
                             /\ new.pc # "waiting"
    BY <1>1, WaitersSame DEF NamedInv, EventsCounted
  <1> QED BY <1>1, <1>2, ThreadMoved

LEMMA CallIs ==
  ASSUME NamedInv, NEW t \in Callers
  PROVE  /\ at[t] \in ThreadRecord /\ Named!Away \in ThreadRecord /\ Named!Away.pc = "away"
         /\ at[t].pc # "away" => at[t].slot \in NamedSlots /\ slot[at[t].slot] \in SlotRecord
         /\ \A pc \in {"away", "wait", "post", "reset", "counting", "waiting", "leaving", "uncounting", "posting"} :
               Named!To(t, pc) \in ThreadRecord /\ Named!To(t, pc).pc = pc /\ Named!To(t, pc).slot = at[t].slot
  <1>1. at[t] \in ThreadRecord
    BY DEF NamedInv, NamedType
  <1>2. Named!Away \in ThreadRecord /\ Named!Away.pc = "away"
    BY DEF Named!Away, ThreadRecord
  <1>3. at[t].pc # "away" => at[t].slot \in NamedSlots /\ slot[at[t].slot] \in SlotRecord
    BY DEF NamedInv, NamedType, Found
  <1> QED BY <1>1, <1>2, <1>3 DEF Named!To, ThreadRecord

LEMMA FindKeepsNamed ==
  ASSUME Assumptions, NamedInv, NEW t \in Callers, NEW s \in NamedSlots, NEW kind \in {"wait", "post", "reset"},
         Named!Find(t, s, kind)
  PROVE  NamedInv'
  <1> DEFINE new == [pc |-> kind, slot |-> s, seen |-> 0]
  <1>1. new \in ThreadRecord /\ new.pc \in {"wait", "post", "reset"} /\ new.slot = s
    BY DEF ThreadRecord
  <1>2. /\ at[t].pc = "away" /\ at' = [at EXCEPT ![t] = new] /\ UNCHANGED <<manager, nextId, slot>>
    BY DEF Named!Find, Named!Moves
  <1> HIDE DEF new
  <1> QED BY <1>1, <1>2, CallKeepsNamed

(* Semaphores: the count of the waiting is not relied on.                          *)
LEMMA SemaphoreKeepsNamed ==
  ASSUME Assumptions, NamedInv, NEW t \in Callers, manager = "semaphore", Named!SemaphoreCalls(t)
  PROVE  NamedInv'
  <1>1. CASE \E s \in NamedSlots, kind \in {"wait", "post"} : Named!Find(t, s, kind)
    BY <1>1, FindKeepsNamed
  <1>2. CASE \/ Named!WaitReads(t) \/ Named!WaitCounts(t) \/ Named!Take(t) \/ Named!Timeout(t) \/ Named!LeaveReads(t)
             \/ Named!LeaveCounts(t) \/ Named!PostTests(t) \/ Named!Post(t)
    <2>1. /\ at[t] \in ThreadRecord /\ at[t].pc # "away" /\ UNCHANGED <<manager, nextId>>
      BY <1>2, CallIs DEF Named!WaitReads, Named!WaitCounts, Named!Take, Named!Timeout, Named!LeaveReads, Named!LeaveCounts,
         Named!PostTests, Named!Post, Named!Moves
    <2> DEFINE s == at[t].slot
    <2>2. s \in NamedSlots /\ slot[s] \in SlotRecord /\ slot[s].waiting \in Int /\ slot[s].value \in Int /\ at[t].seen \in Int
      BY <2>1, CallIs DEF ThreadRecord, SlotRecord
    <2>3. PICK new \in ThreadRecord : at' = [at EXCEPT ![t] = new] /\ (new.pc # "away" => new.slot = s)
      <3>1. ASSUME NEW pc \in {"counting", "uncounting"}, NEW v \in Int
            PROVE  [at[t] EXCEPT !.pc = pc, !.seen = v] \in ThreadRecord
                   /\ [at[t] EXCEPT !.pc = pc, !.seen = v].slot = s
        BY <2>1 DEF ThreadRecord
      <3>2. CASE Named!WaitReads(t) \/ Named!LeaveReads(t)
        BY <2>2, <3>1, <3>2 DEF Named!WaitReads, Named!LeaveReads, Named!Moves, Named!Mine
      <3>3. CASE Named!WaitCounts(t) \/ Named!Take(t) \/ Named!Timeout(t)
        BY <3>3, CallIs DEF Named!WaitCounts, Named!Take, Named!Timeout, Named!Moves
      <3>4. CASE Named!LeaveCounts(t) \/ Named!Post(t) \/ Named!PostTests(t)
        BY <3>4, CallIs DEF Named!LeaveCounts, Named!Post, Named!PostTests, Named!Moves
      <3> QED BY <1>2, <3>2, <3>3, <3>4
    <2>4. \/ UNCHANGED slot
          \/ \E v \in Int : slot' = Written(s, "value", v)
          \/ \E v \in Int : slot' = Written(s, "waiting", v)
      <3>1. CASE Named!WaitReads(t) \/ Named!Timeout(t) \/ Named!LeaveReads(t) \/ Named!PostTests(t)
        BY <3>1 DEF Named!WaitReads, Named!Timeout, Named!LeaveReads, Named!PostTests
      <3>2. CASE Named!WaitCounts(t)
        <4>1. slot' = Written(s, "waiting", at[t].seen + 1)
          BY <3>2 DEF Named!WaitCounts, Named!Set, Written
        <4> QED BY <2>2, <4>1
      <3>3. CASE Named!LeaveCounts(t)
        <4>1. slot' = Written(s, "waiting", at[t].seen - 1)
          BY <3>3 DEF Named!LeaveCounts, Named!Set, Written
        <4> QED BY <2>2, <4>1
      <3>4. CASE Named!Take(t)
        <4>1. slot' = Written(s, "value", slot[s].value - 1)
          BY <3>4 DEF Named!Take, Named!Set, Written, Named!Mine
        <4> QED BY <2>2, <4>1
      <3>5. CASE Named!Post(t)
        <4>1. slot' = Written(s, "value", slot[s].value + 1)
          BY <3>5 DEF Named!Post, Named!Set, Written, Named!Mine
        <4> QED BY <2>2, <4>1
      <3> QED BY <1>2, <3>1, <3>2, <3>3, <3>4, <3>5
    <2> HIDE DEF s
    <2> QED BY <2>1, <2>2, <2>3, <2>4, CallKeepsNamed
  <1> QED BY <1>1, <1>2 DEF Named!SemaphoreCalls

(* A thread begins or stops to wait for an event.                                  *)
LEMMA WaiterMoved ==
  ASSUME Assumptions, NamedInv, manager = "event", UNCHANGED <<manager, nextId>>,
         NEW t \in Callers, NEW s \in NamedSlots, NEW new \in ThreadRecord, NEW v \in Int,
         at' = [at EXCEPT ![t] = new], slot' = Written(s, "waiting", v),
         new.pc # "away" => new.slot = s /\ slot[s].object,
         v = Cardinality(Waiters(s)'), \A r \in NamedSlots \ {s} : Waiters(r)' = Waiters(r)
  PROVE  NamedInv'
  <1>1. "waiting" \in {"waiting", "value"}
    OBVIOUS
  <1>2. /\ slot' \in [NamedSlots -> SlotRecord]
        /\ \A r \in NamedSlots : /\ slot'[r].id = slot[r].id /\ slot'[r].object = slot[r].object
                                 /\ slot'[r].used = slot[r].used
        /\ \A r \in NamedSlots \ {s} : slot'[r].waiting = slot[r].waiting
        /\ slot'[s].waiting = v
    BY <1>1, FieldWritten
  <1>3. \A r \in NamedSlots : slot[r].waiting = Cardinality(Waiters(r))
    BY DEF NamedInv, EventsCounted
  <1>4. \A r \in NamedSlots : slot'[r].waiting = Cardinality(Waiters(r)')
    BY <1>2, <1>3
  <1>5. new.pc # "away" => new.slot \in NamedSlots
    OBVIOUS
  <1>6. new.pc = "waiting" => slot[new.slot].object
    OBVIOUS
  <1> QED BY <1>2, <1>4, <1>5, <1>6, ThreadMoved

(* Events: a thread is counted from the moment it waits until it has stopped.       *)
LEMMA EventKeepsNamed ==
  ASSUME Assumptions, NamedInv, NEW t \in Callers, manager = "event", Named!EventCalls(t)
  PROVE  NamedInv'
  <1>s. PICK s : s = at[t].slot
    OBVIOUS
  <1>0. /\ \A r \in NamedSlots : IsFiniteSet(Waiters(r)) /\ Cardinality(Waiters(r)) \in Nat
        /\ \A r \in NamedSlots : slot[r].waiting = Cardinality(Waiters(r))
    <2>1. \A r \in NamedSlots : IsFiniteSet(Waiters(r))
      BY NamedFacts, FS_Subset DEF Waiters
    <2> QED BY <2>1, FS_CardinalityType DEF NamedInv, EventsCounted
  <1>1. CASE \E r \in NamedSlots, kind \in {"wait", "post", "reset"} : Named!Find(t, r, kind)
    BY <1>1, FindKeepsNamed
  <1>2. CASE Named!setEventStatus(t, "post", 1) \/ Named!setEventStatus(t, "reset", 0)
    <2>1. /\ at[t].pc \in {"post", "reset"} /\ at' = [at EXCEPT ![t] = Named!Away] /\ UNCHANGED <<manager, nextId>>
          /\ slot' = Written(s, "value", 1) \/ slot' = Written(s, "value", 0)
      <3>1. CASE Named!setEventStatus(t, "post", 1)
        BY <3>1, <1>s DEF Named!setEventStatus, Named!Moves, Named!Set, Written
      <3>2. CASE Named!setEventStatus(t, "reset", 0)
        BY <3>2, <1>s DEF Named!setEventStatus, Named!Moves, Named!Set, Written
      <3> QED BY <1>2, <3>1, <3>2
    <2>2. s \in NamedSlots /\ Named!Away \in ThreadRecord /\ Named!Away.pc = "away"
      BY <2>1, <1>s, CallIs
    <2>3. \E v \in Int : slot' = Written(s, "value", v)
      BY <2>1
    <2>4. \E r \in NamedSlots, v \in Int : slot' = Written(r, "value", v)
      BY <2>2, <2>3
    <2>5. at[t].pc # "waiting" /\ Named!Away.pc # "waiting"
      BY <2>1, <2>2
    <2> QED BY <2>1, <2>2, <2>4, <2>5, CallKeepsNamed
  <1>3. CASE Named!waitForEventStatus(t)
    <2> DEFINE new == Named!To(t, "waiting")
    <2>1. /\ at[t].pc = "wait" /\ at' = [at EXCEPT ![t] = new] /\ UNCHANGED <<manager, nextId>>
          /\ slot[s].object /\ slot' = Written(s, "waiting", slot[s].waiting + 1)
      BY <1>3, <1>s DEF Named!waitForEventStatus, Named!Moves, Named!Set, Written, Named!Mine, Named!There
    <2>2. new \in ThreadRecord /\ new.pc = "waiting" /\ new.slot = s /\ s \in NamedSlots
      BY <2>1, <1>s, CallIs
    <2> HIDE DEF new
    <2>3. at'[t] = new /\ \A u \in Callers \ {t} : at'[u] = at[u]
      BY <2>1 DEF NamedInv, NamedType
    <2>4. /\ Waiters(s)' = Waiters(s) \cup {t} /\ t \notin Waiters(s)
          /\ \A r \in NamedSlots \ {s} : Waiters(r)' = Waiters(r)
      BY <2>1, <2>2, <2>3, <1>s DEF Waiters
    <2>5. Cardinality(Waiters(s) \cup {t}) = Cardinality(Waiters(s)) + 1
      BY <1>0, <2>2, <2>4, FS_AddElement
    <2>6. PICK v \in Int : v = slot[s].waiting + 1
      BY <1>0, <2>2
    <2>7. slot' = Written(s, "waiting", v) /\ v = Cardinality(Waiters(s)')
      BY <1>0, <2>1, <2>2, <2>4, <2>5, <2>6
    <2>8. new.pc # "away" => new.slot = s /\ slot[s].object
      BY <2>1, <2>2
    <2> QED BY <2>1, <2>2, <2>4, <2>7, <2>8, WaiterMoved
  <1>4. CASE Named!EventOrTimeout(t)
    <2>1. /\ at[t].pc = "waiting" /\ at' = [at EXCEPT ![t] = Named!Away] /\ UNCHANGED <<manager, nextId>>
          /\ slot' = Written(s, "waiting", slot[s].waiting - 1)
      BY <1>4, <1>s DEF Named!EventOrTimeout, Named!Moves, Named!Set, Written, Named!Mine
    <2>2. Named!Away \in ThreadRecord /\ Named!Away.pc = "away" /\ s \in NamedSlots
      BY <2>1, <1>s, CallIs
    <2>3. at'[t] = Named!Away /\ \A u \in Callers \ {t} : at'[u] = at[u]
      BY <2>1 DEF NamedInv, NamedType
    <2>4. /\ Waiters(s)' = Waiters(s) \ {t} /\ t \in Waiters(s)
          /\ \A r \in NamedSlots \ {s} : Waiters(r)' = Waiters(r)
      BY <2>1, <2>2, <2>3, <1>s DEF Waiters
    <2>5. Cardinality(Waiters(s) \ {t}) = Cardinality(Waiters(s)) - 1
      BY <1>0, <2>2, <2>4, FS_RemoveElement
    <2>6. PICK v \in Int : v = slot[s].waiting - 1
      BY <1>0, <2>2
    <2>7. slot' = Written(s, "waiting", v) /\ v = Cardinality(Waiters(s)')
      BY <1>0, <2>1, <2>2, <2>4, <2>5, <2>6
    <2> QED BY <2>1, <2>2, <2>4, <2>7, WaiterMoved
  <1> QED BY <1>1, <1>2, <1>3, <1>4 DEF Named!EventCalls

LEMMA NamedStep ==
  ASSUME Assumptions, NamedInv, Named!Next \/ UNCHANGED namedVars
  PROVE  NamedInv'
  <1>1. CASE UNCHANGED <<manager, slot, nextId, at>>
    BY <1>1 DEF NamedInv, NamedType, Found, EventsCounted, SemaphoresBuilt, Waiters
  <1> QED
    BY <1>1, CreateKeepsNamed, DeleteKeepsNamed, SemaphoreKeepsNamed, EventKeepsNamed
    DEF Named!Next, Named!UseNull, namedVars

(* NamedObjects: no event is deleted under its waiters, and an id of a semaphore    *)
(* names an object, however calls of any number of threads meet creations and       *)
(* deletions (EventManager::deleteEvent, SemaphoreManager::deleteSemaphore).        *)
THEOREM NamedObjectsStay == Spec => []NamedObjectsExist
  <1>1. Init => NamedInv
    BY NamedInit, Assumptions DEF Init
  <1>2. NamedInv /\ [Next]_vars => NamedInv'
    <2>1. [Next]_vars => Named!Next \/ UNCHANGED namedVars
      BY DEF Next, vars, services
    <2> QED BY <2>1, NamedStep, Assumptions
  <1>3. NamedInv => NamedObjectsExist
    BY DEF NamedInv, EventsCounted, SemaphoresBuilt, NamedObjectsExist, Named!EventOutlivesWaiters, Named!NamesAnObject,
           Named!There
  <1> QED BY <1>1, <1>2, <1>3, PTL DEF Spec

--------------------------------------------------------------------------------
(* EntityControl: while the table is walked no entity comes up, so the slots the   *)
(* walk has passed hold nobody who is up and not in the new session, and at the    *)
(* end of a destruction nobody who is up.                                          *)
EntityStates == {"off", "starting", "up", "leaving"}
StepRecord ==
    [cpu : Cpus \cup {None}, op : {"none", "flush", "register", "destroy", "destroyed"}, slot : Nat, new : Nat]

EntityType ==
    /\ cpuId \in [Entities!Slots -> Cpus \cup {None}]
    /\ memory \in Nat
    /\ state \in [Cpus -> EntityStates]
    /\ session \in [Cpus -> Nat]
    /\ step \in StepRecord

\* the entity of the walk, if there is one, and what it has done to the slots behind it
Walking == step.op # "none" => step.cpu \in Cpus
NotUpYet == step.op = "flush" => ~Entities!Up(step.cpu)
FlushedSoFar ==
    step.op = "flush" =>
        \A i \in Entities!Slots : i < step.slot /\ cpuId[i] \in Cpus \ behind =>
            ~Entities!Up(cpuId[i]) \/ session[cpuId[i]] = step.new
DestroyedSoFar ==
    step.op \in {"destroy", "destroyed"} =>
        \A i \in Entities!Slots : i < step.slot /\ cpuId[i] \in Cpus =>
            ~Entities!Up(cpuId[i]) \/ (step.op = "destroy" /\ cpuId[i] = step.cpu)
AllPassed == step.op = "destroyed" => step.slot > MaxCpus

EntityInv == EntityType /\ Walking /\ NotUpYet /\ FlushedSoFar /\ DestroyedSoFar /\ AllPassed

LEMMA EntityFacts ==
  ASSUME Assumptions
  PROVE  /\ None \notin Cpus /\ MaxCpus \in Nat /\ MaxCpus > 0
         /\ \A i \in Entities!Slots : i \in Nat /\ 1 <= i /\ i <= MaxCpus
         /\ Entities!Idle \in StepRecord /\ Entities!Idle.op = "none"
  BY DEF Assumptions, Entities!EntityAssumption, Entities!Slots, Entities!Idle, StepRecord

LEMMA EntityInit == Assumptions /\ Entities!Init => EntityInv
  BY EntityFacts DEF Entities!Init, EntityInv, EntityType, EntityStates, Walking, NotUpYet, FlushedSoFar, DestroyedSoFar,
     AllPassed

(* A step that ends the walk, or is taken while there is none.                     *)
LEMMA NoWalkIsFine ==
  ASSUME Assumptions, EntityType', step'.op \in {"none", "register"}, step'.op = "register" => step'.cpu \in Cpus
  PROVE  EntityInv'
  <1>1. Walking' /\ NotUpYet' /\ AllPassed'
    BY DEF Walking, NotUpYet, AllPassed
  <1>2. FlushedSoFar'
    BY DEF FlushedSoFar
  <1>3. DestroyedSoFar'
    BY DEF DestroyedSoFar
  <1> QED BY <1>1, <1>2, <1>3 DEF EntityInv

(* The walk starts at the first slot.                                              *)
LEMMA FirstSlotIsFine ==
  ASSUME Assumptions, EntityType', step'.op \in {"flush", "register", "destroy"}, step'.cpu \in Cpus, step'.slot = 1,
         step'.op = "flush" => ~Entities!Up(step.cpu)'
  PROVE  EntityInv'
  <1>1. \A i \in Entities!Slots : ~(i < 1)
    BY EntityFacts
  <1>2. Walking' /\ NotUpYet' /\ AllPassed'
    BY DEF Walking, NotUpYet, AllPassed
  <1>3. FlushedSoFar'
    BY <1>1 DEF FlushedSoFar
  <1>4. DestroyedSoFar'
    BY <1>1 DEF DestroyedSoFar
  <1> QED BY <1>2, <1>3, <1>4 DEF EntityInv

LEMMA NextSlotIs ==
  ASSUME EntityType, Entities!NextSlot
  PROVE  /\ step' \in StepRecord /\ step'.slot = step.slot + 1
         /\ step'.cpu = step.cpu /\ step'.op = step.op /\ step'.new = step.new
  BY DEF EntityType, StepRecord, Entities!NextSlot

LEMMA InitializeKeepsEntities ==
  ASSUME Assumptions, EntityInv, NEW c \in Cpus, Entities!initializeThisObject(c)
  PROVE  EntityInv'
  <1>1. memory' \in Nat /\ cpuId' \in [Entities!Slots -> Cpus \cup {None}]
    BY DEF Entities!initializeThisObject, EntityInv, EntityType
  <1>2. /\ step' \in StepRecord /\ step'.cpu = c /\ step'.slot = 1 /\ step'.op \in {"flush", "register"}
    <2>1. PICK op \in {"flush", "register"} : step' = [cpu |-> c, op |-> op, slot |-> 1, new |-> memory' + 1]
      BY DEF Entities!initializeThisObject
    <2>2. PICK m \in Nat : m = memory'
      BY <1>1
    <2>3. step' = [cpu |-> c, op |-> op, slot |-> 1, new |-> m + 1]
      BY <2>1, <2>2, Zenon
    <2>4. m + 1 \in Nat
      OBVIOUS
    <2> QED BY <2>3, <2>4 DEF StepRecord
  <1>3. state' \in [Cpus -> EntityStates] /\ state'[c] = "starting" /\ session' \in [Cpus -> Nat]
    BY <1>1 DEF Entities!initializeThisObject, EntityInv, EntityType, EntityStates
  <1>4. EntityType'
    BY <1>1, <1>2, <1>3 DEF EntityType
  <1>5. ~Entities!Up(c)'
    BY <1>3 DEF Entities!Up
  <1> QED BY <1>2, <1>4, <1>5, FirstSlotIsFine

(* What a walk does to the slot it is at.                                          *)
LEMMA GiveUpKeepsEntities ==
  ASSUME Assumptions, EntityType, NEW c \in Cpus, Entities!GiveUp(c), session' \in [Cpus -> Nat], memory' \in Nat,
         UNCHANGED cpuId
  PROVE  EntityInv'
  <1>1. EntityType' /\ step'.op = "none"
    BY EntityFacts DEF Entities!GiveUp, EntityType, EntityStates
  <1> QED BY <1>1, NoWalkIsFine

LEMMA FlushKeepsEntities ==
  ASSUME Assumptions, EntityInv, NEW c \in Cpus, Entities!flushEntity(c)
  PROVE  EntityInv'
  <1>1. step.op = "flush" /\ step.cpu = c /\ step.slot <= MaxCpus
    BY DEF Entities!flushEntity, Entities!Starting
  <1>2. EntityType /\ FlushedSoFar /\ step \in StepRecord /\ step.slot \in Nat /\ ~Entities!Up(c)
    BY <1>1 DEF EntityInv, EntityType, StepRecord, NotUpYet
  <1>3. PICK k, other : k = step.slot /\ other = cpuId[k]
    OBVIOUS
  \* it goes on with the entities it has passed
  <1>4. ASSUME Entities!NextSlot, EntityType', UNCHANGED state,
               \A i \in Entities!Slots : i # k => cpuId'[i] = cpuId[i],
               \A i \in Entities!Slots : i < k /\ cpuId[i] \in Cpus \ behind' =>
                    ~Entities!Up(cpuId[i]) \/ session'[cpuId[i]] = step.new,
               k \in Entities!Slots /\ cpuId'[k] \in Cpus \ behind' =>
                    ~Entities!Up(cpuId'[k]) \/ session'[cpuId'[k]] = step.new
        PROVE  EntityInv'
    <2>1. step'.slot = k + 1 /\ step'.op = "flush" /\ step'.cpu = c /\ step'.new = step.new
      BY <1>1, <1>2, <1>3, <1>4, NextSlotIs
    <2>2. Walking' /\ NotUpYet' /\ AllPassed' /\ DestroyedSoFar'
      BY <1>2, <1>4, <2>1 DEF Walking, NotUpYet, AllPassed, DestroyedSoFar, Entities!Up
    <2>3. \A i \in Entities!Slots : i < k + 1 => i = k \/ i < k
      BY <1>2, <1>3, EntityFacts
    <2>4. FlushedSoFar'
      BY <1>4, <2>1, <2>3 DEF FlushedSoFar, Entities!Up
    <2> QED BY <1>4, <2>2, <2>4 DEF EntityInv
  <1>5. CASE other = None /\ Entities!NextSlot /\ UNCHANGED <<cpuId, memory, state, session, behind>>
    <2>1. EntityType'
      BY <1>2, <1>5, NextSlotIs DEF EntityType
    <2>2. cpuId[k] \notin Cpus
      BY <1>3, <1>5, EntityFacts
    <2> QED BY <1>1, <1>2, <1>3, <1>4, <1>5, <2>1, <2>2 DEF FlushedSoFar
  <1>6. CASE /\ other # None /\ cpuId' = [cpuId EXCEPT ![k] = None] /\ Entities!NextSlot
             /\ UNCHANGED <<memory, state, session, behind>>
    <2>1. EntityType' /\ \A i \in Entities!Slots : i # k => cpuId'[i] = cpuId[i]
      BY <1>2, <1>6, NextSlotIs DEF EntityType
    <2>2. k \in Entities!Slots => cpuId'[k] \notin Cpus
      BY <1>2, <1>6, EntityFacts DEF EntityType
    <2> QED BY <1>1, <1>2, <1>3, <1>4, <1>6, <2>1, <2>2 DEF FlushedSoFar
  <1>7. CASE /\ Entities!Up(other) /\ Entities!flushLocalSession(other, step.new)
             /\ Entities!NextSlot \/ Entities!GiveUp(c)
             /\ Entities!NextSlot => UNCHANGED state
             /\ UNCHANGED cpuId
    <2>1. step.new \in Nat
      BY <1>2 DEF StepRecord
    <2>2. /\ session' = [session EXCEPT ![other] = step.new] /\ memory' = step.new
          /\ behind' = behind \ {other}
      BY <1>7 DEF Entities!flushLocalSession
    <2>3. session' \in [Cpus -> Nat] /\ memory' \in Nat
      BY <1>2, <2>1, <2>2 DEF EntityType
    <2>4. CASE Entities!GiveUp(c)
      BY <1>2, <1>7, <2>3, <2>4, GiveUpKeepsEntities
    <2>5. CASE Entities!NextSlot /\ UNCHANGED state
      <3>1. EntityType'
        BY <1>2, <1>7, <2>3, <2>5, NextSlotIs DEF EntityType
      <3>2. \A d \in Cpus : session'[d] = IF d = other THEN step.new ELSE session[d]
        BY <1>2, <2>2 DEF EntityType
      <3>3. \A i \in Entities!Slots : i < k /\ cpuId[i] \in Cpus \ behind' =>
                ~Entities!Up(cpuId[i]) \/ session'[cpuId[i]] = step.new
        BY <1>1, <1>2, <1>3, <2>2, <3>2 DEF FlushedSoFar
      <3>4. k \in Entities!Slots /\ cpuId'[k] \in Cpus \ behind' =>
                ~Entities!Up(cpuId'[k]) \/ session'[cpuId'[k]] = step.new
        BY <1>3, <1>7, <3>2
      <3> QED BY <1>4, <1>7, <2>5, <3>1, <3>3, <3>4
    <2> QED BY <1>7, <2>4, <2>5
  <1>8. CASE /\ behind' = behind \cup {other} /\ Entities!NextSlot /\ UNCHANGED <<cpuId, memory, state, session>>
    <2>1. EntityType'
      BY <1>2, <1>8, NextSlotIs DEF EntityType
    <2> QED BY <1>1, <1>2, <1>3, <1>4, <1>8, <2>1 DEF FlushedSoFar
  <1>9. CASE Entities!GiveUp(c) /\ UNCHANGED <<cpuId, memory, session, behind>>
    BY <1>2, <1>9, GiveUpKeepsEntities DEF EntityType
  <1> QED BY <1>3, <1>5, <1>6, <1>7, <1>8, <1>9 DEF Entities!flushEntity

LEMMA FlushEndsKeepsEntities ==
  ASSUME Assumptions, EntityInv, NEW c \in Cpus, Entities!flushSessionEnds(c)
  PROVE  /\ EntityInv'
         /\ \A other \in Entities!Registered \ behind : Entities!Up(other) => session'[other] = memory'
  <1>1. /\ step.op = "flush" /\ step.cpu = c /\ step.slot > MaxCpus
        /\ step' = [step EXCEPT !.op = "register"] /\ UNCHANGED <<cpuId, state>>
        /\ session' = [session EXCEPT ![c] = step.new] /\ memory' = step.new
    BY DEF Entities!flushSessionEnds, Entities!Starting, Entities!flushLocalSession
  <1>2. EntityType /\ FlushedSoFar /\ step \in StepRecord /\ step.new \in Nat /\ step.slot \in Nat /\ ~Entities!Up(c)
    BY <1>1 DEF EntityInv, EntityType, StepRecord, NotUpYet
  <1>3. EntityInv'
    <2>1. step' \in StepRecord /\ step'.op = "register" /\ step'.cpu = c
      BY <1>1, <1>2 DEF StepRecord
    <2>2. EntityType'
      BY <1>1, <1>2, <2>1 DEF EntityType
    <2> QED BY <2>1, <2>2, NoWalkIsFine
  <1>4. ASSUME NEW other \in Entities!Registered \ behind, Entities!Up(other)
        PROVE  session'[other] = memory'
    <2>1. PICK i \in Entities!Slots : cpuId[i] = other
      BY <1>4 DEF Entities!Registered
    <2>2. other \in Cpus \ behind /\ other # c
      BY <1>2, <1>4 DEF Entities!Registered
    <2>3. i < step.slot
      BY <1>1, <1>2, EntityFacts
    <2>4. session[other] = step.new
      BY <1>1, <1>2, <1>4, <2>1, <2>2, <2>3 DEF FlushedSoFar
    <2> QED BY <1>1, <1>2, <2>2, <2>4 DEF EntityType
  <1> QED BY <1>3, <1>4

LEMMA RegisterKeepsEntities ==
  ASSUME Assumptions, EntityInv, NEW c \in Cpus, Entities!registerCpu(c)
  PROVE  EntityInv'
  <1>1. EntityType /\ UNCHANGED <<memory, session, behind>>
    BY DEF EntityInv, Entities!registerCpu
  <1>2. CASE Entities!GiveUp(c) /\ UNCHANGED cpuId
    BY <1>1, <1>2, GiveUpKeepsEntities DEF EntityType
  <1>3. CASE /\ \E i \in Entities!Slots \cup {0} : cpuId' = [cpuId EXCEPT ![i] = c]
             /\ state' = [state EXCEPT ![c] = "up"] /\ step' = Entities!Idle
    <2>1. EntityType' /\ step'.op = "none"
      BY <1>1, <1>3, EntityFacts DEF EntityType, EntityStates
    <2> QED BY <2>1, NoWalkIsFine
  <1>4. Entities!FirstWith(None) \in Entities!Slots \cup {0}
    <2> DEFINE found == {i \in Entities!Slots : cpuId[i] = None}
    <2>1. CASE found = {}
      BY <2>1 DEF Entities!FirstWith
    <2>2. CASE found # {}
      <3>1. found \in SUBSET Nat
        BY EntityFacts
      <3>2. \E i \in found : \A j \in found : i <= j
        BY <2>2, <3>1, LeastIs
      <3>3. (CHOOSE i \in found : \A j \in found : i <= j) \in found
        BY <3>2
      <3> QED BY <2>2, <3>3 DEF Entities!FirstWith
    <2> QED BY <2>1, <2>2
  <1> QED BY <1>2, <1>3, <1>4 DEF Entities!registerCpu

(* An entity leaves the table or is killed: whoever walks has one less to care for. *)
LEMMA LeaveKeepsEntities ==
  ASSUME Assumptions, EntityInv, NEW c \in Cpus, UNCHANGED <<memory, session, behind>>,
         state' = [state EXCEPT ![c] = "off"], step' = step \/ step' = Entities!Idle,
         cpuId' = cpuId \/ \E i \in Entities!Slots \cup {0} : cpuId' = [cpuId EXCEPT ![i] = None]
  PROVE  EntityInv'
  <1>1. EntityType /\ step \in StepRecord /\ state' \in [Cpus -> EntityStates] /\ cpuId' \in [Entities!Slots -> Cpus \cup {None}]
    BY DEF EntityInv, EntityType, EntityStates
  <1>2. \A d \in Cpus : Entities!Up(d)' => Entities!Up(d)
    BY <1>1 DEF Entities!Up, EntityType
  <1>3. \A i \in Entities!Slots : cpuId'[i] \in Cpus => cpuId'[i] = cpuId[i]
    BY <1>1, EntityFacts DEF EntityType
  <1>4. EntityType'
    BY <1>1, EntityFacts DEF EntityType
  <1>5. CASE step' = Entities!Idle
    BY <1>4, <1>5, EntityFacts, NoWalkIsFine
  <1>6. CASE step' = step
    <2>1. Walking' /\ NotUpYet' /\ AllPassed'
      BY <1>2, <1>6 DEF EntityInv, Walking, NotUpYet, AllPassed
    <2>2. FlushedSoFar'
      BY <1>2, <1>3, <1>6 DEF EntityInv, FlushedSoFar
    <2>3. DestroyedSoFar'
      BY <1>2, <1>3, <1>6 DEF EntityInv, DestroyedSoFar
    <2> QED BY <1>4, <2>1, <2>2, <2>3 DEF EntityInv
  <1> QED BY <1>5, <1>6

LEMMA UnregisterKeepsEntities ==
  ASSUME Assumptions, EntityInv, NEW c \in Cpus, Entities!unregisterCpu(c)
  PROVE  EntityInv'
  <1>1. cpuId' = cpuId \/ \E i \in Entities!Slots \cup {0} : cpuId' = [cpuId EXCEPT ![i] = None]
    <2> DEFINE found == {i \in Entities!Slots : cpuId[i] = c}
    <2>1. CASE found = {}
      BY <2>1 DEF Entities!FirstWith, Entities!unregisterCpu
    <2>2. CASE found # {}
      <3>1. found \in SUBSET Nat
        BY EntityFacts
      <3>2. \E i \in found : \A j \in found : i <= j
        BY <2>2, <3>1, LeastIs
      <3>3. Entities!FirstWith(c) \in found
        BY <2>2, <3>2 DEF Entities!FirstWith
      <3> QED BY <3>3 DEF Entities!unregisterCpu
    <2> QED BY <2>1, <2>2
  <1> QED BY <1>1, LeaveKeepsEntities DEF Entities!unregisterCpu

LEMMA KillKeepsEntities ==
  ASSUME Assumptions, EntityInv, NEW c \in Cpus, Entities!Kill(c)
  PROVE  EntityInv'
  BY LeaveKeepsEntities DEF Entities!Kill

(* destroyAllEntities() tells one entity of the table after the other to terminate. *)
LEMMA DestroyKeepsEntities ==
  ASSUME Assumptions, EntityInv, NEW c \in Cpus,
         Entities!destroyAllEntities(c) \/ Entities!destroyEntity(c) \/ Entities!destroyEnds(c)
  PROVE  EntityInv'
  <1>1. EntityType /\ UNCHANGED <<cpuId, memory, session, behind>> /\ step \in StepRecord /\ step.slot \in Nat
    BY DEF EntityInv, EntityType, StepRecord, Entities!destroyAllEntities, Entities!destroyEntity, Entities!destroyEnds
  <1>2. CASE Entities!destroyAllEntities(c)
    <2>1. step' \in StepRecord /\ step'.op = "destroy" /\ step'.cpu = c /\ step'.slot = 1 /\ UNCHANGED state
      BY <1>2 DEF Entities!destroyAllEntities, StepRecord
    <2>2. EntityType'
      BY <1>1, <2>1 DEF EntityType
    <2> QED BY <2>1, <2>2, FirstSlotIsFine
  <1>3. CASE Entities!destroyEntity(c)
    <2>1. step.op = "destroy" /\ step.cpu = c /\ step.slot <= MaxCpus
      BY <1>3 DEF Entities!destroyEntity, Entities!Starting
    <2>2. PICK k, other : k = step.slot /\ other = cpuId[k] /\ k \in Nat
      BY <1>1
    <2>3. CASE step' = Entities!Idle /\ UNCHANGED state
      <3>1. EntityType' /\ step'.op = "none"
        BY <1>1, <2>3, EntityFacts DEF EntityType
      <3> QED BY <3>1, NoWalkIsFine
    <2>4. CASE /\ Entities!NextSlot
               /\ \/ other \in {None, c} /\ UNCHANGED state
                  \/ other \notin {None, c} /\ Entities!Up(other) /\ state' = [state EXCEPT ![other] = "leaving"]
      <3>1. /\ step' \in StepRecord /\ step'.slot = k + 1 /\ step'.op = "destroy" /\ step'.cpu = c
        BY <1>1, <2>1, <2>2, <2>4, NextSlotIs
      <3>2. state' \in [Cpus -> EntityStates]
        BY <1>1, <2>4 DEF EntityType, EntityStates
      <3>3. EntityType' /\ Walking' /\ NotUpYet' /\ FlushedSoFar' /\ AllPassed'
        BY <1>1, <3>1, <3>2 DEF EntityType, Walking, NotUpYet, FlushedSoFar, AllPassed
      <3>4. \A d \in Cpus : Entities!Up(d)' => Entities!Up(d)
        BY <1>1, <2>4 DEF EntityType, Entities!Up
      <3>5. k \in Entities!Slots /\ cpuId[k] \in Cpus => ~Entities!Up(cpuId[k])' \/ cpuId[k] = c
        BY <1>1, <2>2, <2>4, EntityFacts DEF EntityType, Entities!Up
      <3>6. \A i \in Entities!Slots : i < k + 1 => i = k \/ i < k
        BY <2>2, EntityFacts
      <3>7. \A i \in Entities!Slots : i < k + 1 /\ cpuId[i] \in Cpus => ~Entities!Up(cpuId[i])' \/ cpuId[i] = c
        BY <1>1, <2>1, <2>2, <3>4, <3>5, <3>6 DEF EntityInv, DestroyedSoFar, Entities!Up
      <3>8. DestroyedSoFar'
        BY <1>1, <3>1, <3>7 DEF DestroyedSoFar, Entities!Up
      <3> QED BY <3>3, <3>8 DEF EntityInv
    <2> QED BY <1>3, <2>2, <2>3, <2>4 DEF Entities!destroyEntity
  <1>4. CASE Entities!destroyEnds(c)
    <2>1. /\ step.op = "destroy" /\ step.cpu = c /\ step.slot > MaxCpus
          /\ step' = [step EXCEPT !.op = "destroyed"] /\ state' = [state EXCEPT ![c] = "leaving"]
      BY <1>4 DEF Entities!destroyEnds, Entities!Starting
    <2>2. step' \in StepRecord /\ step'.op = "destroyed" /\ step'.cpu = c /\ step'.slot = step.slot
      BY <1>1, <2>1 DEF StepRecord
    <2>3. /\ state' \in [Cpus -> EntityStates] /\ ~Entities!Up(c)'
          /\ \A d \in Cpus : Entities!Up(d)' => Entities!Up(d)
      BY <1>1, <2>1 DEF EntityType, EntityStates, Entities!Up
    <2>4. EntityType' /\ Walking' /\ NotUpYet' /\ FlushedSoFar' /\ AllPassed'
      BY <1>1, <2>1, <2>2, <2>3 DEF EntityType, Walking, NotUpYet, FlushedSoFar, AllPassed
    <2>5. \A i \in Entities!Slots : i < step.slot /\ cpuId[i] \in Cpus => ~Entities!Up(cpuId[i])'
      BY <1>1, <2>1, <2>3 DEF EntityInv, DestroyedSoFar, Entities!Up
    <2>6. DestroyedSoFar'
      BY <1>1, <2>2, <2>5 DEF DestroyedSoFar, Entities!Up
    <2> QED BY <2>4, <2>6 DEF EntityInv
  <1> QED BY <1>2, <1>3, <1>4

LEMMA EntityStep ==
  ASSUME Assumptions, EntityInv, Entities!Next \/ UNCHANGED entityVars
  PROVE  EntityInv'
  <1>1. CASE UNCHANGED entityVars
    <2>1. UNCHANGED <<cpuId, memory, state, session, behind, step>>
      BY <1>1 DEF entityVars
    <2> QED
      BY <2>1 DEF EntityInv, EntityType, Walking, NotUpYet, FlushedSoFar, DestroyedSoFar, AllPassed, Entities!Up
  <1> QED
    BY <1>1, InitializeKeepsEntities, FlushKeepsEntities, FlushEndsKeepsEntities, RegisterKeepsEntities,
       UnregisterKeepsEntities, KillKeepsEntities, DestroyKeepsEntities
    DEF Entities!Next

(* EntityControl: a flush that ends has moved every registered entity that is up   *)
(* and whose handler did not fail, and a destruction that is reported left nobody, *)
(* whatever is killed, started or timed out meanwhile                              *)
(* (OpenOSObject::flushSession, destroyAllEntities).                               *)
THEOREM EntitiesReached == Spec => EntitiesAreReached
  <1>1. Init => EntityInv
    BY EntityInit, Assumptions DEF Init
  <1>2. EntityInv /\ [Next]_vars => EntityInv'
    <2>1. [Next]_vars => Entities!Next \/ UNCHANGED entityVars
      BY DEF Next, vars, management
    <2> QED BY <2>1, EntityStep, Assumptions
  <1>3. EntityInv /\ [Next]_vars =>
          [\A c \in Cpus : Entities!flushSessionEnds(c)
              => \A other \in Entities!Registered \ behind : Entities!Up(other) => session'[other] = memory']_Entities!vars
    BY FlushEndsKeepsEntities, Assumptions
  <1>4. EntityInv => Entities!NoneIsLeft
    <2> SUFFICES ASSUME EntityInv, step.op = "destroyed", NEW c \in Entities!Registered
                 PROVE  ~Entities!Up(c)
      BY DEF Entities!NoneIsLeft
    <2>1. PICK i \in Entities!Slots : cpuId[i] = c /\ c \in Cpus
      BY DEF Entities!Registered
    <2>2. i < step.slot
      BY EntityFacts, Assumptions DEF EntityInv, EntityType, StepRecord, AllPassed
    <2> QED BY <2>1, <2>2 DEF EntityInv, DestroyedSoFar
  <1> QED BY <1>1, <1>2, <1>3, <1>4, PTL DEF Spec, EntitiesAreReached, Entities!FlushReachesAll

--------------------------------------------------------------------------------
(* FileHandles: threads that keep to files of their own, and do not open again     *)
(* what they have open.  Every file has one handle at most, so no two handles share *)
(* a descriptor and nobody takes away what another thread is about to use.          *)
OwnFiles == \A t, u \in Callers : t # u => FilesOf[t] \cap FilesOf[u] = {}

Entry == [file : Files, cloexec : {FALSE}]
Calling == {"idle", "open", "idOf", "store", "use", "close", "release"}

FileType ==
    /\ activity \in {"PROCESS_INIT", "PROCESS", "END"}
    /\ descriptors \in [Descriptors!Numbers -> Entry \cup {Closed}]
    /\ files \in [Descriptors!Handles -> [file : Files, fd : Descriptors!Numbers]]
    /\ counter \in Nat /\ Descriptors!Handles \subseteq 1 .. counter
    /\ DOMAIN thread = Callers

\* the descriptor d is open for the file f
OpenFor(d, f) == d \in Descriptors!Numbers /\ descriptors[d] # Closed /\ descriptors[d].file = f

\* what a thread has found and not yet used
CallOk(t) ==
    /\ thread[t].at \in Calling
    /\ thread[t].at = "idle" => thread[t] = Descriptors!Idle
    /\ thread[t].at \in {"open", "store"} =>
            /\ thread[t].file \in FilesOf[t]
            /\ \A h \in Descriptors!Handles : files[h].file # thread[t].file
    /\ thread[t].at = "idOf" =>
            /\ activity = "PROCESS_INIT"
            /\ \E h \in Descriptors!Handles :
                  Descriptors!Sorted(h) = thread[t].index /\ files[h].file = thread[t].file
    /\ thread[t].at = "store" => OpenFor(thread[t].fd, thread[t].file)
    /\ thread[t].at \in {"use", "close"} =>
            /\ thread[t].handle \in Descriptors!Handles /\ thread[t].file \in FilesOf[t]
            /\ files[thread[t].handle].file = thread[t].file /\ files[thread[t].handle].fd = thread[t].fd
    /\ thread[t].at = "release" =>
            thread[t].handle \in Descriptors!Handles /\ files[thread[t].handle].file \in FilesOf[t]
    /\ activity = "END" \/ (activity = "PROCESS_INIT" /\ t # Leader) => thread[t].at = "idle"

OneHandle == \A g, h \in Descriptors!Handles : files[g].file = files[h].file => g = h

Listed ==
    /\ \A d \in Descriptors!Numbers : descriptors[d] # Closed =>
            d \in Descriptors!InHand \/ \E h \in Descriptors!Handles \ Descriptors!Releasing : files[h].fd = d
    /\ \A h \in Descriptors!Handles \ Descriptors!Releasing : OpenFor(files[h].fd, files[h].file)

FileInv == FileType /\ (\A t \in Callers : CallOk(t)) /\ OneHandle /\ Listed

LEMMA FileFacts ==
  ASSUME Assumptions
  PROVE  /\ Leader \in Callers /\ FilesOf \in [Callers -> SUBSET Files]
         /\ \A e \in Entry : e # Closed /\ e.cloexec = FALSE
         /\ Descriptors!Numbers \subseteq Nat
         /\ Descriptors!Idle.at = "idle"
  <1>1. Entry \subseteq [file : Files, cloexec : BOOLEAN]
    BY DEF Entry
  <1>2. MaxDescriptors \in Nat /\ Closed \notin [file : Files, cloexec : BOOLEAN] /\ Leader \in Callers
        /\ FilesOf \in [Callers -> SUBSET Files]
    BY DEF Assumptions, Descriptors!FilesAssumption
  <1>3. \A e \in Entry : e.cloexec = FALSE
    BY DEF Entry
  <1> QED BY <1>1, <1>2, <1>3 DEF Descriptors!Numbers, Descriptors!Idle

LEMMA FileInit == Assumptions /\ Descriptors!Init => FileInv
  <1> SUFFICES ASSUME Assumptions, Descriptors!Init PROVE FileInv
    OBVIOUS
  <1>1. /\ Descriptors!Handles = {} /\ activity = "PROCESS_INIT"
        /\ DOMAIN thread = Callers /\ \A t \in Callers : thread[t] = Descriptors!Idle
        /\ descriptors \in [Descriptors!Numbers -> {Closed}]
        /\ counter = 0 /\ files = <<>>
    BY DEF Descriptors!Init, Descriptors!Handles
  <1>2. FileType
    BY <1>1 DEF FileType, Descriptors!Handles
  <1>3. \A t \in Callers : CallOk(t)
    BY <1>1, FileFacts DEF CallOk, Calling
  <1>4. OneHandle /\ Listed
    BY <1>1 DEF OneHandle, Listed
  <1> QED BY <1>2, <1>3, <1>4 DEF FileInv

LEMMA GoesIs ==
  ASSUME FileType, NEW t \in Callers, NEW p, Descriptors!Goes(t, p)
  PROVE  DOMAIN thread' = Callers /\ thread'[t] = p /\ \A u \in Callers \ {t} : thread'[u] = thread[u]
  BY DEF FileType, Descriptors!Goes

(* A thread that runs is the only one before execve, and nobody runs at the end.    *)
LEMMA RunningIs ==
  ASSUME Assumptions, FileInv, NEW t \in Callers, Descriptors!Running(t)
  PROVE  /\ activity # "END" /\ (activity = "PROCESS_INIT" => t = Leader)
         /\ \A u \in Callers \ {t} : thread[u].at # "idOf"
  BY DEF Descriptors!Running, FileInv, CallOk

(* A call that neither lists nor releases anything in this step.                    *)
LEMMA CallMoves ==
  ASSUME Assumptions, FileInv, NEW t \in Callers, NEW p, Descriptors!Goes(t, p),
         UNCHANGED <<activity, descriptors, files, counter>>,
         thread[t].at \notin {"store", "release"}, p.at \notin {"store", "release"}, CallOk(t)'
  PROVE  FileInv'
  <1>1. DOMAIN thread' = Callers /\ thread'[t] = p /\ \A u \in Callers \ {t} : thread'[u] = thread[u]
    BY GoesIs DEF FileInv
  <1>2. Descriptors!Handles' = Descriptors!Handles /\ \A h : Descriptors!Sorted(h)' = Descriptors!Sorted(h)
    BY DEF Descriptors!Handles, Descriptors!Sorted
  <1>3. FileType' /\ OneHandle'
    BY <1>1, <1>2 DEF FileInv, FileType, OneHandle
  <1>4. ASSUME NEW u \in Callers, u # t PROVE CallOk(u)'
    <2>1. CallOk(u) /\ thread'[u] = thread[u]
      BY <1>1, <1>4 DEF FileInv
    <2> QED BY <1>2, <2>1 DEF CallOk, OpenFor
  <1>5. Descriptors!InHand' = Descriptors!InHand /\ Descriptors!Releasing' = Descriptors!Releasing
    BY <1>1 DEF Descriptors!InHand, Descriptors!Releasing
  <1>6. Listed'
    BY <1>2, <1>5 DEF FileInv, Listed, OpenFor
  <1> QED BY <1>3, <1>4, <1>6 DEF FileInv

--------------------------------------------------------------------------------
LEMMA SortedIsNat ==
  ASSUME FileType, NEW h \in Descriptors!Handles
  PROVE  Descriptors!Sorted(h) \in Nat
  <1>1. IsFiniteSet(1 .. counter)
    BY FS_Interval DEF FileType
  <1>2. IsFiniteSet({g \in Descriptors!Handles : g < h})
    BY <1>1, FS_Subset DEF FileType
  <1> QED BY <1>2, FS_CardinalityType DEF Descriptors!Sorted, Cardinality, Descriptors!Cardinality

LEMMA OpenKeepsFiles ==
  ASSUME Assumptions, FileInv, NEW t \in Callers, Descriptors!open(t)
  PROVE  FileInv'
  <1>1. PICK f \in FilesOf[t] :
          /\ activity = "PROCESS_INIT" \/ Descriptors!indexOf(f) = {}
          /\ Descriptors!Goes(t, IF Descriptors!indexOf(f) = {} THEN [at |-> "open", file |-> f]
                ELSE [at |-> "idOf", file |-> f, index |-> Descriptors!Min(Descriptors!indexOf(f))])
    BY DEF Descriptors!open
  <1>2. /\ Descriptors!Running(t) /\ thread[t] = Descriptors!Idle /\ UNCHANGED <<activity, existing, descriptors, files, counter>>
    BY DEF Descriptors!open, Descriptors!Starts
  <1>3. Descriptors!Handles' = Descriptors!Handles /\ \A h : Descriptors!Sorted(h)' = Descriptors!Sorted(h)
    BY <1>2 DEF Descriptors!Handles, Descriptors!Sorted
  <1>4. activity # "END" /\ (activity = "PROCESS_INIT" => t = Leader) /\ thread[t].at = "idle"
    BY <1>2, RunningIs, FileFacts
  <1>5. CASE Descriptors!indexOf(f) = {}
    <2> DEFINE p == [at |-> "open", file |-> f]
    <2>1. Descriptors!Goes(t, p) /\ p.at = "open" /\ p.file = f
      BY <1>1, <1>5
    <2>2. \A h \in Descriptors!Handles : files[h].file # f
      BY <1>5 DEF Descriptors!indexOf
    <2> HIDE DEF p
    <2>3. thread'[t] = p
      BY <2>1, GoesIs DEF FileInv
    <2>4. CallOk(t)'
      BY <1>1, <1>2, <1>3, <1>4, <2>1, <2>2, <2>3 DEF CallOk, Calling
    <2> QED BY <1>2, <1>4, <2>1, <2>4, CallMoves
  <1>6. CASE Descriptors!indexOf(f) # {}
    <2> DEFINE p == [at |-> "idOf", file |-> f, index |-> Descriptors!Min(Descriptors!indexOf(f))]
    <2>1. Descriptors!Goes(t, p) /\ p.at = "idOf" /\ p.file = f /\ p.index = Descriptors!Min(Descriptors!indexOf(f))
      BY <1>1, <1>6
    <2>2. PICK h \in Descriptors!Handles : Descriptors!Sorted(h) = p.index /\ files[h].file = f
      <3>1. Descriptors!indexOf(f) \in SUBSET Nat
        BY SortedIsNat DEF FileInv, Descriptors!indexOf
      <3>2. \E x \in Descriptors!indexOf(f) : \A y \in Descriptors!indexOf(f) : x <= y
        BY <1>6, <3>1, LeastIs
      <3>3. Descriptors!Min(Descriptors!indexOf(f)) \in Descriptors!indexOf(f)
        BY <3>2 DEF Descriptors!Min
      <3> QED BY <2>1, <3>3 DEF Descriptors!indexOf
    <2> HIDE DEF p
    <2>3. thread'[t] = p
      BY <2>1, GoesIs DEF FileInv
    <2>4. CallOk(t)'
      BY <1>1, <1>2, <1>3, <1>4, <1>6, <2>1, <2>2, <2>3 DEF CallOk, Calling
    <2> QED BY <1>2, <1>4, <2>1, <2>4, CallMoves
  <1> QED BY <1>5, <1>6

(* A call that comes to its end without an effect.                                 *)
LEMMA EndsKeepsFiles ==
  ASSUME Assumptions, FileInv, NEW t \in Callers, Descriptors!Goes(t, Descriptors!Idle),
         Descriptors!Running(t), thread[t].at \notin {"store", "release"},
         UNCHANGED <<activity, descriptors, files, counter>>
  PROVE  FileInv'
  <1>1. thread'[t] = Descriptors!Idle /\ Descriptors!Idle.at = "idle"
    BY GoesIs, FileFacts DEF FileInv
  <1>2. CallOk(t)'
    BY <1>1 DEF CallOk, Calling
  <1> QED BY <1>1, <1>2, CallMoves

LEMMA GetKeepsFiles ==
  ASSUME Assumptions, FileInv, NEW t \in Callers, Descriptors!getFileData(t)
  PROVE  FileInv'
  <1>1. PICK h \in {g \in Descriptors!Handles : files[g].file \in FilesOf[t]}, u \in {"use", "close"} :
          Descriptors!Goes(t, [at |-> u, handle |-> h, file |-> files[h].file, fd |-> files[h].fd])
    BY DEF Descriptors!getFileData
  <1>2. /\ Descriptors!Running(t) /\ thread[t] = Descriptors!Idle /\ UNCHANGED <<activity, existing, descriptors, files, counter>>
    BY DEF Descriptors!getFileData, Descriptors!Starts
  <1>3. activity # "END" /\ (activity = "PROCESS_INIT" => t = Leader) /\ thread[t].at = "idle"
    BY <1>2, RunningIs, FileFacts
  <1> DEFINE p == [at |-> u, handle |-> h, file |-> files[h].file, fd |-> files[h].fd]
  <1>4. Descriptors!Goes(t, p) /\ p.at = u /\ p.handle = h /\ p.file = files[h].file /\ p.fd = files[h].fd
    BY <1>1
  <1> HIDE DEF p
  <1>5. thread'[t] = p
    BY <1>4, GoesIs DEF FileInv
  <1>6. Descriptors!Handles' = Descriptors!Handles
    BY <1>2 DEF Descriptors!Handles
  <1>7. CallOk(t)'
    BY <1>1, <1>2, <1>3, <1>4, <1>5, <1>6 DEF CallOk, Calling
  <1> QED BY <1>1, <1>2, <1>3, <1>4, <1>7, CallMoves

(* Who lists a descriptor and who releases one are different threads, with          *)
(* different files.                                                                *)
LEMMA HandlesApart ==
  ASSUME Assumptions, OwnFiles, FileInv, NEW t \in Callers, NEW u \in Callers, t # u
  PROVE  /\ thread[t].at = "close" => thread[t].handle \notin Descriptors!Releasing
         /\ thread[t].at = "close" /\ thread[u].at \in {"use", "close", "release"} => thread[u].handle # thread[t].handle
         /\ thread[t].at = "release" /\ thread[u].at \in {"use", "close", "release"} => thread[u].handle # thread[t].handle
         /\ thread[t].at \in {"open", "store"} /\ thread[u].at \in {"open", "store"} => thread[t].file # thread[u].file
  <1>1. FilesOf[t] \cap FilesOf[u] = {}
    BY DEF OwnFiles
  <1>2. CallOk(t) /\ CallOk(u)
    BY DEF FileInv
  <1>3. ASSUME thread[t].at = "close", NEW r \in Callers, thread[r].at = "release", thread[r].handle = thread[t].handle
        PROVE  FALSE
    <2>1. r # t /\ CallOk(r)
      BY <1>3 DEF FileInv
    <2>2. FilesOf[t] \cap FilesOf[r] = {}
      BY <2>1 DEF OwnFiles
    <2> QED BY <1>2, <1>3, <2>1, <2>2 DEF CallOk
  <1> QED BY <1>1, <1>2, <1>3 DEF CallOk, Descriptors!Releasing

LEMMA OpensKeepsFiles ==
  ASSUME Assumptions, OwnFiles, FileInv, NEW t \in Callers, Descriptors!opens(t)
  PROVE  FileInv'
  <1>1. /\ Descriptors!Running(t) /\ thread[t].at = "open" /\ UNCHANGED <<activity, existing, files, counter>>
    BY DEF Descriptors!opens
  <1>2. CASE Descriptors!Goes(t, Descriptors!Idle) /\ UNCHANGED descriptors
    BY <1>1, <1>2, EndsKeepsFiles
  <1>3. CASE Descriptors!Free # {}
             /\ descriptors' = [descriptors EXCEPT ![Descriptors!Min(Descriptors!Free)] = Descriptors!setDefaultFlags(thread[t].file)]
             /\ Descriptors!Goes(t, [at |-> "store", file |-> thread[t].file, fd |-> Descriptors!Min(Descriptors!Free)])
    <2>1. PICK d \in Descriptors!Free : d = Descriptors!Min(Descriptors!Free)
      <3>1. Descriptors!Free \in SUBSET Nat
        BY FileFacts DEF Descriptors!Free
      <3>2. \E x \in Descriptors!Free : \A y \in Descriptors!Free : x <= y
        BY <1>3, <3>1, LeastIs
      <3> QED BY <3>2 DEF Descriptors!Min
    <2>2. PICK f \in FilesOf[t] : f = thread[t].file /\ f \in Files
      BY <1>1, FileFacts DEF FileInv, CallOk
    <2>3. PICK e \in Entry : e = Descriptors!setDefaultFlags(f) /\ e.file = f
      <3>1. Descriptors!setDefaultFlags(f) = [file |-> f, cloexec |-> FALSE]
        BY DEF Descriptors!setDefaultFlags
      <3>2. [file |-> f, cloexec |-> FALSE] \in Entry
        BY <2>2 DEF Entry
      <3> QED BY <3>1, <3>2
    <2>4. descriptors' = [descriptors EXCEPT ![d] = e] /\ d \in Descriptors!Numbers /\ descriptors[d] = Closed
      BY <1>3, <2>1, <2>2, <2>3 DEF Descriptors!Free
    <2> DEFINE p == [at |-> "store", file |-> f, fd |-> d]
    <2>5. Descriptors!Goes(t, p) /\ p.at = "store" /\ p.file = f /\ p.fd = d
      BY <1>3, <2>1, <2>2
    <2> HIDE DEF p
    <2>6. DOMAIN thread' = Callers /\ thread'[t] = p /\ \A u \in Callers \ {t} : thread'[u] = thread[u]
      BY <2>5, GoesIs DEF FileInv
    <2>7. /\ descriptors' \in [Descriptors!Numbers -> Entry \cup {Closed}] /\ descriptors'[d] = e
          /\ \A c \in Descriptors!Numbers \ {d} : descriptors'[c] = descriptors[c]
      BY <2>4 DEF FileInv, FileType
    <2>8. Descriptors!Handles' = Descriptors!Handles /\ \A h : Descriptors!Sorted(h)' = Descriptors!Sorted(h)
      BY <1>1 DEF Descriptors!Handles, Descriptors!Sorted
    <2>9. \A c, g : OpenFor(c, g) => OpenFor(c, g)'
      BY <2>4, <2>7 DEF OpenFor
    <2>10. OpenFor(d, f)'
      BY <2>3, <2>4, <2>7, FileFacts DEF OpenFor
    <2>11. FileType' /\ OneHandle'
      BY <1>1, <2>6, <2>7, <2>8 DEF FileInv, FileType, OneHandle
    <2>12. CallOk(t)'
      <3>1. CallOk(t)
        BY DEF FileInv
      <3>2. /\ p.file \in FilesOf[t] /\ \A h \in Descriptors!Handles : files[h].file # p.file
            /\ ~(activity = "END" \/ (activity = "PROCESS_INIT" /\ t # Leader))
        BY <1>1, <2>2, <2>5, <3>1 DEF CallOk
      <3> QED BY <1>1, <2>5, <2>6, <2>8, <2>10, <3>2 DEF CallOk, Calling
    <2>13. ASSUME NEW u \in Callers \ {t} PROVE CallOk(u)'
      <3>1. CallOk(u) /\ thread'[u] = thread[u]
        BY <2>6 DEF FileInv
      <3>2. thread[u].at = "store" => OpenFor(thread[u].fd, thread[u].file)'
        BY <2>9, <3>1 DEF CallOk
      <3> QED BY <1>1, <2>8, <3>1, <3>2 DEF CallOk, OpenFor
    <2>14. Descriptors!InHand' = Descriptors!InHand \cup {d} /\ Descriptors!Releasing' = Descriptors!Releasing
      BY <1>1, <2>5, <2>6 DEF Descriptors!InHand, Descriptors!Releasing
    <2>15. Listed'
      <3>1. ASSUME NEW h \in Descriptors!Handles \ Descriptors!Releasing PROVE OpenFor(files[h].fd, files[h].file)'
        BY <1>1, <2>9 DEF FileInv, Listed, OpenFor
      <3>2. ASSUME NEW c \in Descriptors!Numbers, descriptors'[c] # Closed
            PROVE  c \in Descriptors!InHand' \/ \E h \in Descriptors!Handles \ Descriptors!Releasing : files[h].fd = c
        BY <2>7, <2>14, <3>2 DEF FileInv, Listed
      <3> QED BY <1>1, <2>8, <2>14, <3>1, <3>2 DEF Listed
    <2> QED BY <2>11, <2>12, <2>13, <2>15 DEF FileInv
  <1> QED BY <1>2, <1>3 DEF Descriptors!opens

--------------------------------------------------------------------------------
LEMMA StoreKeepsFiles ==
  ASSUME Assumptions, OwnFiles, FileInv, NEW t \in Callers, Descriptors!storeFileData(t)
  PROVE  FileInv'
  <1>1. /\ Descriptors!Running(t) /\ thread[t].at = "store" /\ counter' = counter + 1 /\ UNCHANGED <<activity, existing>>
        /\ Descriptors!Goes(t, Descriptors!Idle)
    BY DEF Descriptors!storeFileData
  <1>2. PICK f, d : f = thread[t].file /\ d = thread[t].fd
    OBVIOUS
  <1>3. /\ f \in FilesOf[t] /\ f \in Files /\ OpenFor(d, f) /\ \A h \in Descriptors!Handles : files[h].file # f
        /\ activity # "END" /\ (activity = "PROCESS_INIT" => t = Leader) /\ counter \in Nat
    BY <1>1, <1>2, RunningIs, FileFacts DEF FileInv, FileType, CallOk
  <1>4. /\ DOMAIN thread' = Callers /\ thread'[t] = Descriptors!Idle /\ \A u \in Callers \ {t} : thread'[u] = thread[u]
        /\ Descriptors!Idle.at = "idle"
    BY <1>1, GoesIs, FileFacts DEF FileInv
  <1>5. CallOk(t)'
    BY <1>1, <1>3, <1>4 DEF CallOk, Calling
  <1>6. \A u \in Callers \ {t} : /\ CallOk(u) /\ thread[u].at # "idOf"
                                 /\ thread[u].at \in {"open", "store"} => thread[u].file # f
    BY <1>1, <1>2, RunningIs, HandlesApart DEF FileInv
  <1>7. /\ Descriptors!InHand' = {thread[u].fd : u \in {v \in Callers \ {t} : thread[v].at = "store"}}
        /\ Descriptors!Releasing' = Descriptors!Releasing
    BY <1>1, <1>4 DEF Descriptors!InHand, Descriptors!Releasing
  \* nobody else has the descriptor in hand
  <1>8. /\ \A u \in Callers \ {t} : thread[u].at = "store" => thread[u].fd # d
        /\ \A c \in Descriptors!InHand : c # d => c \in Descriptors!InHand'
        /\ \A h \in Descriptors!Handles \ Descriptors!Releasing : files[h].fd # d
    <2>1. \A u \in Callers \ {t} : thread[u].at = "store" => thread[u].fd # d
      BY <1>3, <1>6 DEF CallOk, OpenFor
    <2>2. \A c \in Descriptors!InHand : c # d => c \in Descriptors!InHand'
      BY <1>2, <1>7 DEF Descriptors!InHand
    <2>3. \A h \in Descriptors!Handles \ Descriptors!Releasing : files[h].fd # d
      BY <1>3 DEF FileInv, Listed, OpenFor
    <2> QED BY <2>1, <2>2, <2>3
  <1>9. CASE /\ files' = [h \in Descriptors!Handles \cup {counter'} |->
                             IF h = counter' THEN [file |-> thread[t].file, fd |-> thread[t].fd] ELSE files[h]]
             /\ UNCHANGED descriptors
    <2>1. PICK n \in Nat : n = counter + 1 /\ n = counter'
      BY <1>1, <1>3
    <2>2. n \notin Descriptors!Handles /\ Descriptors!Handles \subseteq 1 .. n /\ n \in 1 .. n
      BY <1>3, <2>1 DEF FileInv, FileType
    <2>3. files' = [h \in Descriptors!Handles \cup {n} |-> IF h = n THEN [file |-> f, fd |-> d] ELSE files[h]]
      BY <1>2, <1>9, <2>1
    <2>4. /\ Descriptors!Handles' = Descriptors!Handles \cup {n}
          /\ files'[n].file = f /\ files'[n].fd = d /\ \A h \in Descriptors!Handles : files'[h] = files[h]
      BY <2>2, <2>3 DEF Descriptors!Handles
    <2>5. FileType'
      <3>1. d \in Descriptors!Numbers /\ [file |-> f, fd |-> d] \in [file : Files, fd : Descriptors!Numbers]
        BY <1>3 DEF OpenFor
      <3>2. files' \in [Descriptors!Handles' -> [file : Files, fd : Descriptors!Numbers]]
        BY <2>2, <2>3, <2>4, <3>1 DEF FileInv, FileType
      <3> QED BY <1>1, <1>4, <1>9, <2>1, <2>2, <2>4, <3>2 DEF FileInv, FileType
    <2>6. OneHandle'
      BY <1>3, <2>4 DEF FileInv, OneHandle
    <2>7. ASSUME NEW u \in Callers \ {t} PROVE CallOk(u)'
      BY <1>1, <1>4, <1>6, <1>9, <2>4, <2>7 DEF CallOk, OpenFor
    <2>8. n \notin Descriptors!Releasing
      BY <2>2 DEF Descriptors!Releasing, FileInv, CallOk
    <2>9. Listed'
      <3>1. ASSUME NEW h \in Descriptors!Handles' \ Descriptors!Releasing PROVE OpenFor(files[h].fd, files[h].file)'
        <4>1. OpenFor(d, f)'
          BY <1>3, <1>9 DEF OpenFor
        <4>2. CASE h = n
          BY <2>4, <4>1, <4>2 DEF OpenFor
        <4>3. CASE h # n
          <5>1. OpenFor(files[h].fd, files[h].file) /\ files'[h] = files[h]
            BY <2>4, <3>1, <4>3 DEF FileInv, Listed
          <5> QED BY <1>9, <5>1 DEF OpenFor
        <4> QED BY <4>2, <4>3
      <3>2. ASSUME NEW c \in Descriptors!Numbers, descriptors[c] # Closed
            PROVE  c \in Descriptors!InHand' \/ \E h \in Descriptors!Handles' \ Descriptors!Releasing : files'[h].fd = c
        <4>1. CASE c = d
          BY <2>4, <2>8, <4>1
        <4>2. CASE c # d
          BY <1>8, <2>4, <3>2, <4>2 DEF FileInv, Listed
        <4> QED BY <4>1, <4>2
      <3> QED BY <1>7, <1>9, <3>1, <3>2 DEF Listed, OpenFor
    <2> QED BY <1>5, <2>5, <2>6, <2>7, <2>9 DEF FileInv
  <1>10. CASE descriptors' = Descriptors!Discarded(thread[t].fd) /\ UNCHANGED files
    <2>1. descriptors' = [descriptors EXCEPT ![d] = Closed] /\ Descriptors!Handles' = Descriptors!Handles
      BY <1>2, <1>10 DEF Descriptors!Discarded, Descriptors!Handles
    <2>2. /\ descriptors' \in [Descriptors!Numbers -> Entry \cup {Closed}]
          /\ descriptors'[d] = Closed /\ \A c \in Descriptors!Numbers \ {d} : descriptors'[c] = descriptors[c]
      BY <1>3, <2>1 DEF FileInv, FileType, OpenFor
    <2>3. counter' \in Nat /\ Descriptors!Handles \subseteq 1 .. counter'
      BY <1>1, <1>3 DEF FileInv, FileType
    <2>4. FileType' /\ OneHandle'
      BY <1>1, <1>4, <1>10, <2>1, <2>2, <2>3 DEF FileInv, FileType, OneHandle
    <2>5. \A c, g : OpenFor(c, g) /\ c # d => OpenFor(c, g)'
      BY <2>2 DEF OpenFor
    <2>6. ASSUME NEW u \in Callers \ {t} PROVE CallOk(u)'
      <3>1. thread[u].at = "store" => OpenFor(thread[u].fd, thread[u].file)'
        BY <1>4, <1>6, <1>8, <2>5 DEF CallOk, OpenFor
      <3> QED BY <1>1, <1>4, <1>6, <1>10, <2>1, <3>1 DEF CallOk, OpenFor
    <2>7. Listed'
      <3>1. ASSUME NEW h \in Descriptors!Handles \ Descriptors!Releasing PROVE OpenFor(files[h].fd, files[h].file)'
        BY <1>8, <1>10, <2>5 DEF FileInv, Listed, OpenFor
      <3>2. ASSUME NEW c \in Descriptors!Numbers, descriptors'[c] # Closed
            PROVE  c \in Descriptors!InHand' \/ \E h \in Descriptors!Handles \ Descriptors!Releasing : files[h].fd = c
        <4>1. c # d /\ descriptors[c] # Closed
          BY <2>2, <3>2
        <4> QED BY <1>8, <4>1 DEF FileInv, Listed
      <3> QED BY <1>7, <1>10, <2>1, <3>1, <3>2 DEF Listed
    <2> QED BY <1>5, <2>4, <2>6, <2>7 DEF FileInv
  <1> QED BY <1>9, <1>10 DEF Descriptors!storeFileData

--------------------------------------------------------------------------------
LEMMA CloseKeepsFiles ==
  ASSUME Assumptions, OwnFiles, FileInv, NEW t \in Callers, Descriptors!closeFile(t)
  PROVE  FileInv'
  <1>1. /\ Descriptors!Running(t) /\ thread[t].at = "close" /\ UNCHANGED <<activity, existing, files, counter>>
    BY DEF Descriptors!closeFile
  <1>2. PICK d, g : d = thread[t].fd /\ g = thread[t].handle
    OBVIOUS
  <1>3. /\ g \in Descriptors!Handles \ Descriptors!Releasing /\ files[g].fd = d /\ files[g].file \in FilesOf[t]
        /\ activity # "END" /\ (activity = "PROCESS_INIT" => t = Leader)
    <2>1. CallOk(t)
      BY DEF FileInv
    <2>2. \A u \in Callers : thread[u].at = "release" => thread[u].handle # g
      BY <1>1, <1>2, HandlesApart
    <2> QED BY <1>1, <1>2, <2>1, <2>2, RunningIs DEF CallOk, Descriptors!Releasing
  <1>4. OpenFor(d, files[g].file)
    BY <1>3 DEF FileInv, Listed
  <1>5. CASE Descriptors!Goes(t, Descriptors!Idle) /\ UNCHANGED descriptors
    BY <1>1, <1>5, EndsKeepsFiles
  <1>6. CASE /\ descriptors' = [descriptors EXCEPT ![thread[t].fd] = Closed]
             /\ Descriptors!Goes(t, [at |-> "release", handle |-> thread[t].handle])
    <2> DEFINE p == [at |-> "release", handle |-> g]
    <2>1. Descriptors!Goes(t, p) /\ p.at = "release" /\ p.handle = g /\ descriptors' = [descriptors EXCEPT ![d] = Closed]
      BY <1>2, <1>6
    <2> HIDE DEF p
    <2>2. DOMAIN thread' = Callers /\ thread'[t] = p /\ \A u \in Callers \ {t} : thread'[u] = thread[u]
      BY <2>1, GoesIs DEF FileInv
    <2>3. /\ descriptors' \in [Descriptors!Numbers -> Entry \cup {Closed}]
          /\ descriptors'[d] = Closed /\ \A c \in Descriptors!Numbers \ {d} : descriptors'[c] = descriptors[c]
      BY <1>4, <2>1 DEF FileInv, FileType, OpenFor
    <2>4. Descriptors!Handles' = Descriptors!Handles /\ \A h : Descriptors!Sorted(h)' = Descriptors!Sorted(h)
      BY <1>1 DEF Descriptors!Handles, Descriptors!Sorted
    <2>5. FileType' /\ OneHandle'
      BY <1>1, <2>2, <2>3, <2>4 DEF FileInv, FileType, OneHandle
    <2>6. CallOk(t)'
      BY <1>1, <1>3, <2>1, <2>2, <2>4 DEF CallOk, Calling
    <2>7. \A c, f : OpenFor(c, f) /\ c # d => OpenFor(c, f)'
      BY <2>3 DEF OpenFor
    \* the descriptor is nobody else's
    <2>8. \A u \in Callers \ {t} : thread[u].at = "store" => thread[u].fd # d
      <3> SUFFICES ASSUME NEW u \in Callers \ {t}, thread[u].at = "store", thread[u].fd = d PROVE FALSE
        OBVIOUS
      <3>1. CallOk(u)
        BY DEF FileInv
      <3> QED BY <1>3, <1>4, <3>1 DEF CallOk, OpenFor
    <2>9. \A h \in Descriptors!Handles \ Descriptors!Releasing : h # g => files[h].fd # d
      BY <1>3, <1>4 DEF FileInv, Listed, OpenFor, OneHandle
    <2>10. ASSUME NEW u \in Callers \ {t} PROVE CallOk(u)'
      <3>1. CallOk(u) /\ thread'[u] = thread[u]
        BY <2>2 DEF FileInv
      <3>2. thread[u].at = "store" => OpenFor(thread[u].fd, thread[u].file)'
        BY <2>2, <2>7, <2>8, <3>1 DEF CallOk, OpenFor
      <3> QED BY <1>1, <2>4, <3>1, <3>2 DEF CallOk, OpenFor
    <2>11. Descriptors!InHand' = Descriptors!InHand /\ Descriptors!Releasing' = Descriptors!Releasing \cup {g}
      BY <1>1, <2>1, <2>2 DEF Descriptors!InHand, Descriptors!Releasing
    <2>12. Listed'
      <3>1. ASSUME NEW h \in Descriptors!Handles \ (Descriptors!Releasing \cup {g})
            PROVE  OpenFor(files[h].fd, files[h].file)'
        BY <1>1, <2>7, <2>9 DEF FileInv, Listed, OpenFor
      <3>2. ASSUME NEW c \in Descriptors!Numbers, descriptors'[c] # Closed
            PROVE  c \in Descriptors!InHand \/ \E h \in Descriptors!Handles \ (Descriptors!Releasing \cup {g}) : files[h].fd = c
        <4>1. c # d /\ descriptors[c] # Closed
          BY <2>3, <3>2
        <4> QED BY <1>3, <4>1 DEF FileInv, Listed
      <3> QED BY <1>1, <2>4, <2>11, <3>1, <3>2 DEF Listed
    <2> QED BY <2>5, <2>6, <2>10, <2>12 DEF FileInv
  <1> QED BY <1>5, <1>6 DEF Descriptors!closeFile

LEMMA ReleaseKeepsFiles ==
  ASSUME Assumptions, OwnFiles, FileInv, NEW t \in Callers, Descriptors!releaseFileData(t)
  PROVE  FileInv'
  <1>1. /\ Descriptors!Running(t) /\ thread[t].at = "release" /\ UNCHANGED <<activity, existing, descriptors, counter>>
        /\ Descriptors!Goes(t, Descriptors!Idle)
    BY DEF Descriptors!releaseFileData
  <1>2. PICK g : g = thread[t].handle
    OBVIOUS
  <1>3. files' = [h \in Descriptors!Handles \ {g} |-> files[h]]
    BY <1>2 DEF Descriptors!releaseFileData
  <1>4. Descriptors!Handles' = Descriptors!Handles \ {g} /\ \A h \in Descriptors!Handles \ {g} : files'[h] = files[h]
    BY <1>3 DEF Descriptors!Handles
  <1>5. /\ DOMAIN thread' = Callers /\ thread'[t] = Descriptors!Idle /\ \A u \in Callers \ {t} : thread'[u] = thread[u]
        /\ Descriptors!Idle.at = "idle"
    BY <1>1, GoesIs, FileFacts DEF FileInv
  <1>6. FileType'
    <2>1. files' \in [Descriptors!Handles' -> [file : Files, fd : Descriptors!Numbers]]
      BY <1>3, <1>4 DEF FileInv, FileType
    <2> QED BY <1>1, <1>4, <1>5, <2>1 DEF FileInv, FileType
  <1>7. OneHandle'
    BY <1>4 DEF FileInv, OneHandle
  <1>8. CallOk(t)'
    BY <1>1, <1>5 DEF CallOk, Calling
  <1>9. ASSUME NEW u \in Callers \ {t} PROVE CallOk(u)'
    <2>1. CallOk(u) /\ thread'[u] = thread[u] /\ thread[u].at # "idOf"
      BY <1>1, <1>5, RunningIs DEF FileInv
    <2>2. thread[u].at \in {"use", "close", "release"} => thread[u].handle # g
      BY <1>1, <1>2, HandlesApart
    <2> QED BY <1>1, <1>4, <2>1, <2>2 DEF CallOk, OpenFor
  <1>10. /\ Descriptors!InHand' = Descriptors!InHand
         /\ \A h \in Descriptors!Handles' : h \in Descriptors!Releasing' <=> h \in Descriptors!Releasing
    BY <1>1, <1>2, <1>4, <1>5 DEF Descriptors!InHand, Descriptors!Releasing
  <1>11. g \in Descriptors!Releasing
    BY <1>1, <1>2 DEF Descriptors!Releasing
  <1>12. Listed'
    <2>1. ASSUME NEW h \in Descriptors!Handles' \ Descriptors!Releasing' PROVE OpenFor(files[h].fd, files[h].file)'
      <3>1. OpenFor(files[h].fd, files[h].file) /\ files'[h] = files[h]
        BY <1>4, <1>10, <2>1 DEF FileInv, Listed
      <3> QED BY <1>1, <3>1 DEF OpenFor
    <2>2. ASSUME NEW c \in Descriptors!Numbers, descriptors[c] # Closed
          PROVE  c \in Descriptors!InHand' \/ \E h \in Descriptors!Handles' \ Descriptors!Releasing' : files'[h].fd = c
      BY <1>4, <1>10, <1>11, <2>2 DEF FileInv, Listed
    <2> QED BY <1>1, <2>1, <2>2 DEF Listed
  <1> QED BY <1>6, <1>7, <1>8, <1>9, <1>12 DEF FileInv

(* execve() closes nothing, and the list goes through the environment.             *)
LEMMA ExecuteKeepsFiles ==
  ASSUME Assumptions, FileInv, Descriptors!executeFile
  PROVE  FileInv'
  <1>1. /\ activity = "PROCESS_INIT" /\ activity' \in {"PROCESS_INIT", "PROCESS"} /\ thread[Leader] = Descriptors!Idle
        /\ UNCHANGED <<existing, counter, thread>>
    BY DEF Descriptors!executeFile
  <1>2. files' = files
    <2>1. files = [h \in DOMAIN files |-> files[h]]
      BY DEF FileInv, FileType, Descriptors!Handles
    <2> QED BY <2>1 DEF Descriptors!executeFile, Descriptors!Restored, Descriptors!Written, Descriptors!Handles
  <1>3. descriptors' = descriptors
    <2>1. \A d \in Descriptors!Numbers : ~(descriptors[d] # Closed /\ descriptors[d].cloexec)
      BY FileFacts DEF FileInv, FileType
    <2>2. Descriptors!Kept = [d \in Descriptors!Numbers |-> descriptors[d]]
      BY <2>1 DEF Descriptors!Kept
    <2>3. Descriptors!Kept = descriptors
      BY <2>2 DEF FileInv, FileType
    <2> QED BY <2>3 DEF Descriptors!executeFile
  <1>4. \A t \in Callers : thread[t].at = "idle"
    BY <1>1, FileFacts DEF FileInv, CallOk
  <1>5. Descriptors!Handles' = Descriptors!Handles
    BY <1>2 DEF Descriptors!Handles
  <1>6. \A t \in Callers : CallOk(t)'
    BY <1>1, <1>4 DEF FileInv, CallOk
  <1>7. FileType' /\ OneHandle' /\ Listed'
    BY <1>1, <1>2, <1>3, <1>5
    DEF FileInv, FileType, OneHandle, Listed, OpenFor, Descriptors!InHand, Descriptors!Releasing
  <1> QED BY <1>6, <1>7 DEF FileInv

(* The end of the process: every descriptor was listed, and is closed.              *)
LEMMA CloseAllKeepsFiles ==
  ASSUME Assumptions, FileInv, Descriptors!closeAllFiles
  PROVE  FileInv'
  <1>1. /\ \A t \in Callers : thread[t] = Descriptors!Idle /\ thread[t].at = "idle"
        /\ files' = <<>> /\ activity' = "END" /\ UNCHANGED <<existing, counter, thread>>
        /\ descriptors' = [d \in Descriptors!Numbers |->
              IF \E h \in Descriptors!Handles : files[h].fd = d THEN Closed ELSE descriptors[d]]
    BY FileFacts DEF Descriptors!closeAllFiles
  <1>2. Descriptors!Handles' = {}
    BY <1>1 DEF Descriptors!Handles
  <1>3. Descriptors!InHand = {} /\ Descriptors!InHand' = {}
    BY <1>1 DEF Descriptors!InHand
  <1>4. \A d \in Descriptors!Numbers : descriptors'[d] = Closed
    BY <1>1, <1>3 DEF FileInv, Listed
  <1>5. descriptors' \in [Descriptors!Numbers -> Entry \cup {Closed}]
    BY <1>1, <1>4
  <1>6. FileType'
    BY <1>1, <1>2, <1>5 DEF FileInv, FileType
  <1>7. \A t \in Callers : CallOk(t)'
    BY <1>1 DEF CallOk, Calling
  <1>8. OneHandle' /\ Listed'
    BY <1>2, <1>4 DEF OneHandle, Listed
  <1> QED BY <1>6, <1>7, <1>8 DEF FileInv

LEMMA FileStep ==
  ASSUME Assumptions, OwnFiles, FileInv, Descriptors!Next \/ UNCHANGED fileVars
  PROVE  FileInv'
  <1>1. CASE UNCHANGED <<activity, descriptors, files, counter, thread>>
    <2>1. /\ Descriptors!Handles' = Descriptors!Handles /\ \A h : Descriptors!Sorted(h)' = Descriptors!Sorted(h)
          /\ Descriptors!InHand' = Descriptors!InHand /\ Descriptors!Releasing' = Descriptors!Releasing
      BY <1>1 DEF Descriptors!Handles, Descriptors!Sorted, Descriptors!InHand, Descriptors!Releasing
    <2> QED BY <1>1, <2>1 DEF FileInv, FileType, CallOk, OneHandle, Listed, OpenFor
  <1>2. ASSUME NEW t \in Callers, Descriptors!create(t) \/ Descriptors!delete(t) PROVE FileInv'
    BY <1>1, <1>2 DEF Descriptors!create, Descriptors!delete
  <1>3. ASSUME NEW t \in Callers, Descriptors!idOf(t) \/ Descriptors!use(t) PROVE FileInv'
    BY <1>3, EndsKeepsFiles DEF Descriptors!idOf, Descriptors!use
  <1> QED
    BY <1>1, <1>2, <1>3, OpenKeepsFiles, GetKeepsFiles, OpensKeepsFiles, StoreKeepsFiles, CloseKeepsFiles,
       ReleaseKeepsFiles, ExecuteKeepsFiles, CloseAllKeepsFiles
    DEF Descriptors!Next, Descriptors!Call, fileVars

(* FileHandles: threads that keep to their own files find them under their handles, *)
(* every open descriptor is listed or in hand, before and after execve(), and a     *)
(* call uses the file it was called for (FileManager::storeFileData, closeFile,     *)
(* releaseFileData).                                                               *)
THEOREM FilesAreListed ==
  ASSUME OwnFiles
  PROVE  Spec => []ListIsExact
  <1>1. Init => FileInv
    BY FileInit, Assumptions DEF Init
  <1>2. FileInv /\ [Next]_vars => FileInv'
    <2>1. [Next]_vars => Descriptors!Next \/ UNCHANGED fileVars
      BY DEF Next, vars, services
    <2> QED BY <2>1, FileStep, Assumptions, OwnFiles
  <1>3. FileInv => ListIsExact
    <2> SUFFICES ASSUME FileInv PROVE Descriptors!ListIsExact /\ Descriptors!UsesItsFile
      BY DEF ListIsExact
    <2>1. Descriptors!ListIsExact
      BY DEF FileInv, Listed, OpenFor, Descriptors!ListIsExact
    <2>2. ASSUME NEW t \in Callers, thread[t].at \in {"use", "close"}
          PROVE  descriptors[thread[t].fd] # Closed /\ descriptors[thread[t].fd].file = thread[t].file
      <3>1. CallOk(t) /\ \A u \in Callers : u # t => FilesOf[t] \cap FilesOf[u] = {} /\ CallOk(u)
        BY OwnFiles DEF FileInv, OwnFiles
      <3>2. thread[t].handle \in Descriptors!Handles \ Descriptors!Releasing
        BY <2>2, <3>1 DEF CallOk, Descriptors!Releasing
      <3>3. OpenFor(files[thread[t].handle].fd, files[thread[t].handle].file)
        BY <3>2 DEF FileInv, Listed
      <3> QED BY <2>2, <3>1, <3>3 DEF CallOk, OpenFor
    <2> QED BY <2>1, <2>2 DEF FileInv, CallOk, Descriptors!UsesItsFile
  <1> QED BY <1>1, <1>2, <1>3, PTL DEF Spec

--------------------------------------------------------------------------------
(* ThreadControl: the handshake of a suspension, by the one who holds the          *)
(* semaphore of the process.                                                      *)
Where == {"called", "waiting", "woken"}
Visits == {"visit", "enter", "resume", "raise", "spin"}
CallRecord == [op : {"none", "start", "stop", "suspendAll", "resumeAll"}, next : Nat,
               phase : {"none", "mark", "join"} \cup Visits]

ControlType ==
    /\ processStatus \in {"INITIALIZED", "RUNNING", "STOPPED"} /\ lockLevel \in Nat
    /\ semaphore \in Control!Agents \cup {None}
    /\ DOMAIN status = Control!Threads /\ suspendLevel \in [Control!Threads -> Nat]
    /\ suspendPending \in [Control!Threads -> BOOLEAN] /\ DOMAIN scopePending = Control!Threads
    /\ code \in [Control!Threads -> {"none", "starting", "app", "locked", "scope"}]
    /\ frames \in [Control!Threads -> Seq(Where)]
    /\ signals \in [Control!Threads -> SUBSET {"SUSPEND", "RESUME", "CANCEL"}]
    /\ call \in [Control!Agents -> CallRecord]

Speaks(a) == call[a].phase \in {"raise", "spin"}
Interrupts(a, t) == call[a].op = "suspendAll" /\ Speaks(a) /\ call[a].next = t
Wakes(t) == call[Main].op = "resumeAll" /\ Speaks(Main) /\ call[Main].next = t
Raises(t) == Wakes(t) /\ call[Main].phase = "raise"
Interrupted(t) == \E a \in Control!Agents : Interrupts(a, t)

AgentOk(a) ==
    /\ call[a].phase \in Visits <=> call[a].op \in {"suspendAll", "resumeAll"}
    /\ call[a].phase \in Visits => call[a].next # 0
    /\ call[a].phase \in Visits \ {"visit"} => call[a].next \in Control!Threads
    /\ Speaks(a) => semaphore = a
    /\ call[a].phase = "resume" => call[a].op = "resumeAll" /\ suspendLevel[call[a].next] > 0
    /\ call[a].op = "suspendAll" /\ Speaks(a) => suspendLevel[call[a].next] > 0
    /\ call[a].op = "start" => call[a].next \in Control!Threads
    /\ a # Main => call[a].op # "resumeAll" /\ (call[a].op = "suspendAll" => lockLevel > 0)

(* Before the process runs, and of applications whose threads do not end.         *)
NotYetRun ==
    processStatus = "INITIALIZED" =>
        /\ call[Main] = Control!Idle
        /\ \A t \in Control!Threads : code[t] = "none" /\ suspendLevel[t] = 0

NoneEnds ==
    "start" \in calls /\ "exit" \notin calls =>
        /\ \A t \in Control!Threads : code[t] = "none" => suspendLevel[t] = 0 /\ status[t] = "DORMANT"
        /\ \A a \in Control!Agents : call[a].op = "start" => code[call[a].next] # "none"

EndedOk(t) ==
    /\ code[t] = "none" => frames[t] = <<>> /\ signals[t] = {}
    /\ "CANCEL" \in signals[t] => "stop" \in calls
    /\ Wakes(t) /\ "suspendSelf" \notin calls => suspendLevel[t] = 0

(* A thread waits once for each suspension that nobody has begun to end.  Each    *)
(* wait under way or left counts one; a RESUME that is to come, and a wait that it  *)
(* ended, two, because it may clear the switch of the next handshake.              *)
Doomed(t) == "CANCEL" \in signals[t] \/ (code[t] = "none" /\ "start" \notin calls)
Restart == {"start", "exit"} \subseteq calls
Unborn(t) == code[t] \in {"none", "starting"} /\ frames[t] = <<>>

WokenIn(s) == {i \in 1 .. Len(s) : s[i] = "woken"}
Woken(t) == Cardinality(WokenIn(frames[t]))
Level(t) == IF suspendLevel[t] > 0 THEN 1 ELSE 0
ToCome(t) == (IF "RESUME" \in signals[t] THEN 2 ELSE 0) + (IF Raises(t) THEN 2 ELSE 0)
Unanswered(t) == IF suspendPending[t] /\ Control!Addressed(t) THEN 1 ELSE 0
Waits(t) == Len(frames[t]) + (IF Unborn(t) THEN Level(t) ELSE 0)
WaitsEnough(t) == Waits(t) + Unanswered(t) >= Level(t) + ToCome(t) + 2 * Woken(t)

(* A thread that begins again while it is resumed does not wait, and the command  *)
(* loop waits for ever.                                                           *)
Missed(t) ==
    /\ Restart /\ suspendPending[t] /\ Wakes(t) /\ frames[t] = <<>> /\ "SUSPEND" \notin signals[t]
    /\ code[t] \in {"locked", "scope"} => scopePending[t]

UnbornOk(t) ==
    Unborn(t) /\ suspendLevel[t] > 0 /\ ("SUSPEND" \in signals[t] \/ Interrupted(t) \/ ~Restart)
        => Interrupted(t) /\ suspendPending[t]

Suspended(t) == ~Doomed(t) => UnbornOk(t) /\ (WaitsEnough(t) \/ Missed(t))

(* What the command loop has passed when it stops a process.                      *)
Calm == calls \cap {"start", "stop", "unlock"} = {}
StoppedSoFar ==
    Calm =>
        /\ \A t \in Control!Threads :
              status[t] = "DORMANT" /\ code[t] # "none" => call[Main].op = "start" /\ call[Main].next = t
        /\ call[Main].op = "suspendAll" =>
              \A t \in Control!Threads :
                  t < call[Main].next => code[t] = "none" \/ (suspendLevel[t] > 0 /\ ~Control!Addressed(t))

ControlInv ==
    Control!Orderly =>
        /\ ControlType /\ NotYetRun /\ NoneEnds /\ StoppedSoFar
        /\ \A a \in Control!Agents : AgentOk(a)
        /\ \A t \in Control!Threads : EndedOk(t) /\ Suspended(t)

(* One frame more or less, and whether it was woken.                              *)
LEMMA WokenIs ==
  ASSUME NEW s \in Seq(Where)
  PROVE  /\ IsFiniteSet(WokenIn(s)) /\ Cardinality(WokenIn(s)) \in Nat
         /\ s = <<>> => Cardinality(WokenIn(s)) = 0
  <1>1. Len(s) \in Nat
    BY LenProperties
  <1>2. IsFiniteSet(1 .. Len(s))
    BY <1>1, FS_Interval
  <1>3. IsFiniteSet(WokenIn(s))
    BY <1>2, FS_Subset DEF WokenIn
  <1>4. ASSUME s = <<>> PROVE WokenIn(s) = {}
    BY <1>4 DEF WokenIn
  <1> QED BY <1>3, <1>4, FS_CardinalityType, FS_EmptySet

LEMMA PushIs ==
  ASSUME NEW s \in Seq(Where), NEW x \in Where
  PROVE  /\ Append(s, x) \in Seq(Where) /\ Append(s, x) # <<>> /\ Len(Append(s, x)) = Len(s) + 1
         /\ Append(s, x)[Len(s) + 1] = x
         /\ Cardinality(WokenIn(Append(s, x)))
              = IF x = "woken" THEN Cardinality(WokenIn(s)) + 1 ELSE Cardinality(WokenIn(s))
  <1>1. /\ Append(s, x) \in Seq(Where) /\ Append(s, x) # <<>> /\ Len(Append(s, x)) = Len(s) + 1
        /\ \A i \in 1 .. Len(s) : Append(s, x)[i] = s[i]
        /\ Append(s, x)[Len(s) + 1] = x /\ Len(s) \in Nat
    BY AppendProperties, LenProperties
  <1>2. IsFiniteSet(WokenIn(s)) /\ Len(s) + 1 \notin WokenIn(s)
    BY <1>1, WokenIs DEF WokenIn
  <1>3. CASE x = "woken"
    <2>1. WokenIn(Append(s, x)) = WokenIn(s) \cup {Len(s) + 1}
      BY <1>1, <1>3 DEF WokenIn
    <2> QED BY <1>1, <1>2, <1>3, <2>1, FS_AddElement
  <1>4. CASE x # "woken"
    <2>1. WokenIn(Append(s, x)) = WokenIn(s)
      BY <1>1, <1>4 DEF WokenIn
    <2> QED BY <1>1, <1>4, <2>1
  <1> QED BY <1>3, <1>4

LEMMA PopIs ==
  ASSUME NEW s \in Seq(Where), s # <<>>
  PROVE  LET p == SubSeq(s, 1, Len(s) - 1) IN
         /\ p \in Seq(Where) /\ Len(s) \in Nat \ {0} /\ Len(p) = Len(s) - 1
         /\ p = <<>> <=> Len(s) = 1
         /\ Cardinality(WokenIn(s))
              = IF s[Len(s)] = "woken" THEN Cardinality(WokenIn(p)) + 1 ELSE Cardinality(WokenIn(p))
  <1> DEFINE p == SubSeq(s, 1, Len(s) - 1)
  <1>1. Len(s) \in Nat \ {0} /\ s \in [1 .. Len(s) -> Where]
    BY LenProperties, EmptySeq
  <1>2. \A i \in 1 .. Len(s) - 1 : s[i] \in Where
    BY <1>1
  <1>3. /\ p \in Seq(Where) /\ Len(p) = Len(s) - 1
        /\ \A i \in 1 .. Len(s) - 1 : p[i] = s[i]
    <2>1. /\ p \in Seq(Where)
          /\ Len(p) = IF 1 <= Len(s) - 1 THEN Len(s) - 1 - 1 + 1 ELSE 0
          /\ \A i \in 1 .. Len(s) - 1 - 1 + 1 : p[i] = s[1 + i - 1]
      BY <1>1, <1>2, SubSeqProperties
    <2> QED BY <1>1, <2>1
  <1> HIDE DEF p
  <1>4. p = <<>> <=> Len(s) = 1
    <2>1. p # <<>> => Len(p) \in Nat \ {0}
      BY <1>3, EmptySeq
    <2>2. p = <<>> => Len(p) = 0
      BY EmptySeq
    <2> QED BY <1>1, <1>3, <2>1, <2>2
  <1>5. IsFiniteSet(WokenIn(p)) /\ Cardinality(WokenIn(p)) \in Nat /\ Len(s) \notin WokenIn(p)
    <2>1. IsFiniteSet(WokenIn(p)) /\ Cardinality(WokenIn(p)) \in Nat
      BY <1>3, WokenIs
    <2>2. Len(s) \notin 1 .. Len(s) - 1
      BY <1>1
    <2> QED BY <1>3, <2>1, <2>2 DEF WokenIn
  <1>6. CASE s[Len(s)] = "woken"
    <2>1. WokenIn(s) = WokenIn(p) \cup {Len(s)}
      BY <1>1, <1>3, <1>6 DEF WokenIn
    <2> QED BY <1>1, <1>3, <1>4, <1>5, <1>6, <2>1, FS_AddElement DEF p
  <1>7. CASE s[Len(s)] # "woken"
    <2>1. WokenIn(s) = WokenIn(p)
      BY <1>1, <1>3, <1>7 DEF WokenIn
    <2> QED BY <1>1, <1>3, <1>4, <1>5, <1>7, <2>1 DEF p
  <1> QED BY <1>6, <1>7

LEMMA ControlFacts ==
  ASSUME Assumptions
  PROVE  /\ N \in Nat \ {0} /\ Main \notin Control!Threads /\ None \notin Control!Agents
         /\ Main \in Control!Agents /\ Control!Threads \subseteq Control!Agents
         /\ Control!Threads = 1 .. N /\ Control!Agents = Control!Threads \cup {Main}
  BY DEF Assumptions, Control!ThreadsAssumption, Control!Threads, Control!Agents

LEMMA NumbersAre ==
  ASSUME ControlType, NEW t \in Control!Threads
  PROVE  /\ Level(t) \in {0, 1} /\ Unanswered(t) \in {0, 1} /\ ToCome(t) \in {0, 2, 4}
         /\ Woken(t) \in Nat /\ Len(frames[t]) \in Nat /\ Waits(t) \in Nat
         /\ frames[t] = <<>> => Len(frames[t]) = 0 /\ Woken(t) = 0
         /\ frames[t] # <<>> => Len(frames[t]) # 0 /\ Waits(t) = Len(frames[t])
  <1>1. frames[t] \in Seq(Where)
    BY DEF ControlType
  <1>2. /\ Woken(t) \in Nat /\ Len(frames[t]) \in Nat /\ (frames[t] = <<>> => Len(frames[t]) = 0 /\ Woken(t) = 0)
        /\ frames[t] # <<>> => Len(frames[t]) # 0
    BY <1>1, WokenIs, EmptySeq, LenProperties DEF Woken
  <1>3. Level(t) \in {0, 1} /\ Unanswered(t) \in {0, 1}
    BY DEF Level, Unanswered
  <1>4. ToCome(t) \in {0, 2, 4}
    BY DEF ToCome
  <1>5. Waits(t) \in Nat
    BY <1>2, <1>3 DEF Waits
  <1>6. frames[t] # <<>> => Waits(t) = Len(frames[t])
    BY <1>2 DEF Waits, Unborn
  <1> QED BY <1>2, <1>3, <1>4, <1>5, <1>6

(* What a thread owes does not change with what others do.                        *)
LEMMA SuspendedStays ==
  ASSUME NEW t \in Control!Threads, Suspended(t), EndedOk(t), calls' = calls,
         code'[t] = code[t], frames'[t] = frames[t], signals'[t] = signals[t],
         suspendLevel[t] \in Nat, suspendLevel'[t] \in Nat, suspendLevel'[t] = 0 <=> suspendLevel[t] = 0,
         suspendPending'[t] = suspendPending[t], scopePending'[t] = scopePending[t],
         Interrupted(t)' <=> Interrupted(t), Control!Addressed(t)' <=> Control!Addressed(t),
         Wakes(t)' <=> Wakes(t), Raises(t)' <=> Raises(t)
  PROVE  Suspended(t)' /\ EndedOk(t)'
  <1>1. suspendLevel'[t] > 0 <=> suspendLevel[t] > 0
    OBVIOUS
  <1>2. EndedOk(t)'
    BY DEF EndedOk
  <1>3. (Doomed(t)' <=> Doomed(t)) /\ (Unborn(t)' <=> Unborn(t)) /\ (Restart' <=> Restart)
    BY DEF Doomed, Unborn, Restart
  <1>4. UnbornOk(t) => UnbornOk(t)'
    BY <1>1, <1>3 DEF UnbornOk
  <1>5. Missed(t) => Missed(t)'
    BY <1>3 DEF Missed
  <1>6. Level(t)' = Level(t) /\ ToCome(t)' = ToCome(t) /\ Unanswered(t)' = Unanswered(t) /\ Woken(t)' = Woken(t)
    <2>1. Level(t)' = Level(t)
      BY <1>1 DEF Level
    <2>2. ToCome(t)' = ToCome(t)
      BY DEF ToCome
    <2>3. Unanswered(t)' = Unanswered(t)
      BY DEF Unanswered
    <2>4. Woken(t)' = Woken(t)
      BY DEF Woken, WokenIn
    <2> QED BY <2>1, <2>2, <2>3, <2>4
  <1>7. Waits(t)' = Waits(t)
    BY <1>3, <1>6 DEF Waits
  <1>8. WaitsEnough(t) => WaitsEnough(t)'
    BY <1>6, <1>7 DEF WaitsEnough
  <1> QED BY <1>2, <1>3, <1>4, <1>5, <1>8 DEF Suspended

LEMMA QuietCalls ==
  ASSUME Assumptions, NEW a \in Control!Agents, \A b \in Control!Agents : b # a => call'[b] = call[b],
         ~Speaks(a), ~Speaks(a)', NEW t
  PROVE  /\ Interrupted(t)' <=> Interrupted(t)
         /\ Control!Addressed(t)' <=> Control!Addressed(t)
         /\ Wakes(t)' <=> Wakes(t)
         /\ Raises(t)' <=> Raises(t)
  <1>1. Main \in Control!Agents
    BY ControlFacts
  <1>2. \A b \in Control!Agents : Speaks(b)' <=> Speaks(b)
    BY DEF Speaks
  <1>3. \A b \in Control!Agents : Speaks(b) => call'[b] = call[b]
    OBVIOUS
  <1>4. Interrupted(t)' <=> Interrupted(t)
    BY <1>2, <1>3 DEF Interrupted, Interrupts, Control!Agents, Control!Threads
  <1>5. Control!Addressed(t)' <=> Control!Addressed(t)
    BY <1>2, <1>3 DEF Control!Addressed, Speaks, Control!Agents, Control!Threads
  <1>6. Wakes(t)' <=> Wakes(t)
    BY <1>1, <1>2, <1>3 DEF Wakes
  <1>7. Raises(t)' <=> Raises(t)
    BY <1>1, <1>3, <1>6 DEF Raises, Wakes
  <1> QED BY <1>4, <1>5, <1>6, <1>7

(* Threads while an agent goes on that does not speak to one of them.             *)
LEMMA QuietStep ==
  ASSUME Assumptions, ControlType, NEW a \in Control!Agents,
         \A b \in Control!Agents : b # a => call'[b] = call[b], ~Speaks(a), ~Speaks(a)',
         UNCHANGED <<calls, code, frames, signals, suspendPending, scopePending>>,
         suspendLevel' \in [Control!Threads -> Nat],
         \A t \in Control!Threads : suspendLevel'[t] = 0 <=> suspendLevel[t] = 0,
         \A t \in Control!Threads : EndedOk(t) /\ Suspended(t)
  PROVE  \A t \in Control!Threads : EndedOk(t)' /\ Suspended(t)'
  <1> SUFFICES ASSUME NEW t \in Control!Threads PROVE EndedOk(t)' /\ Suspended(t)'
    OBVIOUS
  <1>1. suspendLevel[t] \in Nat /\ suspendLevel'[t] \in Nat
    BY DEF ControlType
  <1>2. /\ Interrupted(t)' <=> Interrupted(t)
        /\ Control!Addressed(t)' <=> Control!Addressed(t)
        /\ Wakes(t)' <=> Wakes(t)
        /\ Raises(t)' <=> Raises(t)
    BY QuietCalls
  <1> QED BY <1>1, <1>2, SuspendedStays

LEMMA AgentStays ==
  ASSUME Assumptions, NEW b \in Control!Agents, AgentOk(b), call'[b] = call[b],
         Speaks(b) => semaphore' = semaphore, lockLevel > 0 => lockLevel' > 0,
         Speaks(b) \/ call[b].phase = "resume" =>
            (suspendLevel[call[b].next] > 0 => suspendLevel'[call[b].next] > 0)
  PROVE  AgentOk(b)'
  <1>1. Speaks(b)' <=> Speaks(b)
    BY DEF Speaks
  <1> QED BY <1>1 DEF AgentOk

(* A thread of a process that runs does a step of its own.                        *)
LEMMA OwnStep ==
  ASSUME Assumptions, ControlInv, Control!Orderly, NEW t \in Control!Threads, code[t] # "none",
         UNCHANGED <<calls, processStatus, lockLevel, semaphore, call>>, ControlType',
         \A u \in Control!Threads \ {t} :
            /\ status'[u] = status[u] /\ code'[u] = code[u] /\ frames'[u] = frames[u] /\ signals'[u] = signals[u]
            /\ suspendLevel'[u] = suspendLevel[u] /\ suspendPending'[u] = suspendPending[u]
            /\ scopePending'[u] = scopePending[u],
         suspendLevel[t] > 0 => suspendLevel'[t] > 0,
         code'[t] = "none" => "exit" \in calls, code'[t] # "none" => status'[t] = status[t],
         EndedOk(t)', Suspended(t)'
  PROVE  ControlInv'
  <1>1. /\ ControlType /\ NotYetRun /\ NoneEnds /\ StoppedSoFar
        /\ \A a \in Control!Agents : AgentOk(a)
        /\ \A u \in Control!Threads : EndedOk(u) /\ Suspended(u)
    BY DEF ControlInv
  <1>2. /\ \A u : (Interrupted(u)' <=> Interrupted(u)) /\ (Control!Addressed(u)' <=> Control!Addressed(u))
        /\ \A u : (Wakes(u)' <=> Wakes(u)) /\ (Raises(u)' <=> Raises(u))
    BY DEF Interrupted, Interrupts, Control!Addressed, Wakes, Raises, Speaks, Control!Agents, Control!Threads
  <1>3. ASSUME NEW u \in Control!Threads PROVE EndedOk(u)' /\ Suspended(u)'
    <2>1. CASE u # t
      <3>1. suspendLevel[u] \in Nat /\ suspendLevel'[u] = suspendLevel[u]
        BY <1>1, <2>1 DEF ControlType
      <3> QED BY <1>1, <1>2, <2>1, <3>1, SuspendedStays
    <2> QED BY <2>1
  <1>4. ASSUME NEW b \in Control!Agents PROVE AgentOk(b)'
    <2>1. Speaks(b) \/ call[b].phase = "resume" => call[b].next \in Control!Threads
      BY <1>1 DEF AgentOk, Speaks, Visits
    <2>2. Speaks(b) \/ call[b].phase = "resume" =>
            (suspendLevel[call[b].next] > 0 => suspendLevel'[call[b].next] > 0)
      BY <2>1
    <2> QED BY <1>1, <2>2, AgentStays
  <1>5. NotYetRun'
    BY <1>1 DEF NotYetRun
  <1>6. NoneEnds'
    <2>1. ASSUME "start" \in calls, "exit" \notin calls
          PROVE  \A u \in Control!Threads : code'[u] = "none" =>
                    code[u] = "none" /\ suspendLevel'[u] = suspendLevel[u] /\ status'[u] = status[u]
      BY <2>1
    <2>2. ASSUME "start" \in calls, "exit" \notin calls, NEW a \in Control!Agents, call[a].op = "start"
          PROVE  code'[call[a].next] # "none"
      <3>1. call[a].next \in Control!Threads /\ code[call[a].next] # "none"
        BY <1>1, <2>2 DEF AgentOk, NoneEnds
      <3> QED BY <2>2, <3>1
    <2> QED BY <1>1, <2>1, <2>2 DEF NoneEnds, Control!Agents, Control!Threads
  <1>7. StoppedSoFar'
    <2> SUFFICES ASSUME Calm PROVE StoppedSoFar'
      BY DEF StoppedSoFar, Calm
    <2>1. \A u \in Control!Threads :
            status'[u] = "DORMANT" /\ code'[u] # "none" => status[u] = "DORMANT" /\ code[u] # "none"
      OBVIOUS
    <2>2. ASSUME NEW u \in Control!Threads, code[u] = "none" \/ suspendLevel[u] > 0
          PROVE  code'[u] = "none" \/ suspendLevel'[u] > 0
      BY <2>2
    <2>3. ASSUME call[Main].op = "suspendAll", NEW u \in Control!Threads, u < call[Main].next
          PROVE  code'[u] = "none" \/ (suspendLevel'[u] > 0 /\ ~Control!Addressed(u)')
      <3>1. code[u] = "none" \/ (suspendLevel[u] > 0 /\ ~Control!Addressed(u))
        BY <1>1, <2>3 DEF StoppedSoFar
      <3>2. CASE code[u] = "none"
        BY <3>2
      <3>3. CASE suspendLevel[u] > 0 /\ ~Control!Addressed(u)
        BY <1>2, <2>2, <3>3
      <3> QED BY <3>1, <3>2, <3>3
    <2> QED BY <1>1, <2>1, <2>3 DEF StoppedSoFar, Calm, Control!Threads
  <1> QED BY <1>3, <1>4, <1>5, <1>6, <1>7 DEF ControlInv

(* Entering and leaving scopes.                                                   *)
LEMMA ScopeKeepsControl ==
  ASSUME Assumptions, ControlInv, Control!Orderly, NEW t \in Control!Threads,
         Control!LockScope(t) \/ Control!EnterProtectedScope(t) \/ Control!ExitProtectedScope(t)
  PROVE  ControlInv'
  <1>1. ControlType /\ EndedOk(t) /\ Suspended(t)
    BY DEF ControlInv
  <1>2. /\ code[t] \in {"app", "locked", "scope"} /\ frames[t] = <<>>
        /\ UNCHANGED <<calls, processStatus, lockLevel, semaphore, call, status, suspendLevel, suspendPending, frames>>
    BY DEF Control!LockScope, Control!EnterProtectedScope, Control!ExitProtectedScope, Control!Free,
           Control!Executes
  <1>3. /\ code' = [code EXCEPT ![t] = code'[t]] /\ code'[t] \in {"app", "locked", "scope"}
        /\ signals' = signals \/ signals' = [signals EXCEPT ![t] = @ \cup {"SUSPEND"}]
        /\ scopePending' = scopePending \/ scopePending' = [scopePending EXCEPT ![t] = suspendPending[t]]
        /\ code[t] = "app" => scopePending'[t] = suspendPending[t]
        /\ code[t] # "app" => scopePending' = scopePending
        /\ signals' # signals => suspendPending[t] /\ ~scopePending[t] /\ code[t] = "scope"
    <2>1. CASE Control!LockScope(t)
      <3>1. code' = [code EXCEPT ![t] = "locked"] /\ code'[t] = "locked" /\ code[t] = "app"
        BY <1>1, <2>1 DEF ControlType, Control!LockScope, Control!Free
      <3>2. scopePending' = [scopePending EXCEPT ![t] = suspendPending[t]]
            /\ scopePending'[t] = suspendPending[t] /\ signals' = signals
        BY <1>1, <2>1 DEF ControlType, Control!LockScope
      <3> QED BY <3>1, <3>2
    <2>2. CASE Control!EnterProtectedScope(t)
      <3>1. code' = [code EXCEPT ![t] = "scope"] /\ code'[t] = "scope" /\ code[t] = "locked"
        BY <1>1, <2>2 DEF ControlType, Control!EnterProtectedScope
      <3>2. scopePending' = scopePending /\ signals' = signals
        BY <2>2 DEF Control!EnterProtectedScope
      <3> QED BY <3>1, <3>2
    <2>3. CASE Control!ExitProtectedScope(t)
      <3>1. code' = [code EXCEPT ![t] = "app"] /\ code'[t] = "app" /\ code[t] = "scope"
            /\ scopePending' = scopePending
        BY <1>1, <2>3 DEF ControlType, Control!ExitProtectedScope
      <3>2. signals' = [signals EXCEPT ![t] = @ \cup Control!RepeatedSignal(t)]
        BY <2>3 DEF Control!ExitProtectedScope
      <3>3. CASE suspendPending[t] /\ ~scopePending[t]
        <4>1. Control!RepeatedSignal(t) = {"SUSPEND"}
          BY <3>3 DEF Control!RepeatedSignal
        <4> QED BY <3>1, <3>2, <3>3, <4>1
      <3>4. CASE ~(suspendPending[t] /\ ~scopePending[t])
        <4>1. Control!RepeatedSignal(t) = {}
          BY <3>4 DEF Control!RepeatedSignal
        <4>2. signals' = signals
          BY <1>1, <3>2, <4>1 DEF ControlType
        <4> QED BY <3>1, <4>2
      <3> QED BY <3>3, <3>4
    <2> QED BY <2>1, <2>2, <2>3
  <1>4. /\ \A x \in {"RESUME", "CANCEL"} : x \in signals'[t] <=> x \in signals[t]
        /\ signals'[t] # signals[t] => suspendPending[t] /\ ~scopePending[t] /\ code[t] = "scope"
    BY <1>1, <1>3 DEF ControlType
  <1>5. ControlType'
    <2>1. code' \in [Control!Threads -> {"none", "starting", "app", "locked", "scope"}]
      BY <1>1, <1>3 DEF ControlType
    <2>2. signals' \in [Control!Threads -> SUBSET {"SUSPEND", "RESUME", "CANCEL"}]
      <3>1. signals \in [Control!Threads -> SUBSET {"SUSPEND", "RESUME", "CANCEL"}]
        BY <1>1 DEF ControlType
      <3>2. signals[t] \cup {"SUSPEND"} \in SUBSET {"SUSPEND", "RESUME", "CANCEL"}
        BY <3>1
      <3> QED BY <1>3, <3>1, <3>2
    <2>3. DOMAIN scopePending' = Control!Threads
      BY <1>1, <1>3 DEF ControlType
    <2> QED BY <1>1, <1>2, <2>1, <2>2, <2>3 DEF ControlType
  <1>6. EndedOk(t)'
    BY <1>1, <1>2, <1>3, <1>4 DEF EndedOk, Wakes, Speaks, ControlType
  <1>7. Suspended(t)'
    <2>1. (Wakes(t)' <=> Wakes(t)) /\ (Raises(t)' <=> Raises(t)) /\ (Control!Addressed(t)' <=> Control!Addressed(t))
      BY <1>2 DEF Wakes, Raises, Speaks, Control!Addressed
    <2>2. Doomed(t)' <=> Doomed(t)
      BY <1>2, <1>3, <1>4 DEF Doomed
    <2>3. UnbornOk(t)'
      BY <1>3 DEF UnbornOk, Unborn
    <2>4. Missed(t) => Missed(t)'
      BY <1>2, <1>3, <1>4, <2>1 DEF Missed, Restart
    <2>5. WaitsEnough(t) => WaitsEnough(t)'
      <3>1. /\ Level(t)' = Level(t) /\ Woken(t)' = Woken(t) /\ Unanswered(t)' = Unanswered(t)
            /\ Len(frames[t])' = Len(frames[t])
        BY <1>2, <2>1 DEF Level, Woken, WokenIn, Unanswered
      <3>2. ToCome(t)' = ToCome(t)
        BY <1>4, <2>1 DEF ToCome
      <3>3. Waits(t)' = Waits(t)
        BY <1>2, <1>3, <3>1 DEF Waits, Unborn
      <3> QED BY <3>1, <3>2, <3>3 DEF WaitsEnough
    <2> QED BY <1>1, <2>2, <2>3, <2>4, <2>5 DEF Suspended
  <1>8. \A u \in Control!Threads \ {t} :
            /\ status'[u] = status[u] /\ code'[u] = code[u] /\ frames'[u] = frames[u] /\ signals'[u] = signals[u]
            /\ suspendLevel'[u] = suspendLevel[u] /\ suspendPending'[u] = suspendPending[u]
            /\ scopePending'[u] = scopePending[u]
    BY <1>1, <1>2, <1>3 DEF ControlType
  <1> QED BY <1>2, <1>3, <1>5, <1>6, <1>7, <1>8, OwnStep

LEMMA CallsSame ==
  ASSUME call' = call, NEW u
  PROVE  /\ (Interrupted(u)' <=> Interrupted(u)) /\ (Control!Addressed(u)' <=> Control!Addressed(u))
         /\ (Wakes(u)' <=> Wakes(u)) /\ (Raises(u)' <=> Raises(u))
  BY DEF Interrupted, Interrupts, Control!Addressed, Wakes, Raises, Speaks, Control!Agents, Control!Threads

(* The handler of SUSPEND, and what begins and ends a wait.                       *)
LEMMA SuspendCallbackKeepsControl ==
  ASSUME Assumptions, ControlInv, Control!Orderly, NEW t \in Control!Threads, Control!SuspendCallback(t)
  PROVE  ControlInv'
  <1>1. ControlType /\ EndedOk(t) /\ Suspended(t)
    BY DEF ControlInv
  <1>2. /\ code[t] # "none" /\ "SUSPEND" \in signals[t]
        /\ UNCHANGED <<calls, processStatus, lockLevel, semaphore, call, status, suspendLevel, code, scopePending>>
        /\ signals' = [signals EXCEPT ![t] = @ \ {"SUSPEND"}]
    BY DEF Control!SuspendCallback
  <1>3. /\ \A x \in {"RESUME", "CANCEL"} : x \in signals'[t] <=> x \in signals[t]
        /\ "SUSPEND" \notin signals'[t]
    BY <1>1, <1>2 DEF ControlType
  <1>4. \/ code[t] = "scope" /\ UNCHANGED <<suspendPending, frames>>
        \/ /\ code[t] # "scope" /\ suspendPending' = [suspendPending EXCEPT ![t] = FALSE]
           /\ frames' = [frames EXCEPT ![t] = Append(@, "called")]
    BY DEF Control!SuspendCallback
  <1>5. /\ frames[t] \in Seq(Where) /\ "called" \in Where
        /\ Level(t) \in {0, 1} /\ Unanswered(t) \in {0, 1} /\ ToCome(t) \in {0, 2, 4}
        /\ Woken(t) \in Nat /\ Len(frames[t]) \in Nat /\ Waits(t) \in Nat
        /\ frames[t] = <<>> => Len(frames[t]) = 0 /\ Woken(t) = 0
        /\ frames[t] # <<>> => Len(frames[t]) # 0 /\ Waits(t) = Len(frames[t])
    <2>1. frames[t] \in Seq(Where) /\ "called" \in Where
      BY <1>1 DEF ControlType, Where
    <2> QED BY <1>1, <2>1, NumbersAre
  <1>6. ControlType'
    <2>1. signals' \in [Control!Threads -> SUBSET {"SUSPEND", "RESUME", "CANCEL"}]
      <3>1. signals \in [Control!Threads -> SUBSET {"SUSPEND", "RESUME", "CANCEL"}]
        BY <1>1 DEF ControlType
      <3> QED BY <1>2, <3>1
    <2>2. suspendPending' \in [Control!Threads -> BOOLEAN]
      BY <1>1, <1>4 DEF ControlType
    <2>3. frames' \in [Control!Threads -> Seq(Where)]
      <3>1. frames \in [Control!Threads -> Seq(Where)] /\ Append(frames[t], "called") \in Seq(Where)
        BY <1>1, <1>5, PushIs DEF ControlType
      <3> QED BY <1>4, <3>1
    <2> QED BY <1>1, <1>2, <2>1, <2>2, <2>3 DEF ControlType
  <1>7. EndedOk(t)'
    BY <1>1, <1>2, <1>3, CallsSame DEF EndedOk
  <1>8. Level(t)' = Level(t) /\ ToCome(t)' = ToCome(t) /\ (Doomed(t)' <=> Doomed(t))
    <2>1. Level(t)' = Level(t)
      BY <1>2 DEF Level
    <2>2. ToCome(t)' = ToCome(t)
      BY <1>2, <1>3, CallsSame DEF ToCome
    <2>3. Doomed(t)' <=> Doomed(t)
      BY <1>2, <1>3 DEF Doomed
    <2> QED BY <2>1, <2>2, <2>3
  <1>9. Suspended(t)'
    <2>1. CASE code[t] = "scope"
      <3>1. frames' = frames /\ suspendPending' = suspendPending
        BY <1>4, <2>1
      <3>2. UnbornOk(t)'
        BY <1>2, <2>1 DEF UnbornOk, Unborn
      <3>3. Missed(t) => Missed(t)'
        BY <1>2 DEF Missed
      <3>4. WaitsEnough(t) => WaitsEnough(t)'
        <4>1. Woken(t)' = Woken(t) /\ Unanswered(t)' = Unanswered(t)
          BY <1>2, <3>1, CallsSame DEF Woken, WokenIn, Unanswered
        <4>2. Waits(t)' = Waits(t)
          BY <1>2, <1>8, <3>1 DEF Waits, Unborn
        <4> QED BY <1>8, <4>1, <4>2 DEF WaitsEnough
      <3> QED BY <1>1, <1>8, <3>2, <3>3, <3>4 DEF Suspended
    <2>2. CASE code[t] # "scope"
      <3>1. frames'[t] = Append(frames[t], "called") /\ ~suspendPending'[t]
        BY <1>1, <1>4, <2>2 DEF ControlType
      <3>2. frames'[t] # <<>> /\ Len(frames'[t]) = Len(frames[t]) + 1 /\ Woken(t)' = Woken(t)
        BY <1>5, <3>1, PushIs DEF Woken, WokenIn
      <3>3. Waits(t)' = Len(frames[t]) + 1 /\ Unanswered(t)' = 0
        BY <1>5, <3>1, <3>2 DEF Waits, Unborn, Unanswered
      <3>4. UnbornOk(t)'
        BY <3>2 DEF UnbornOk, Unborn
      <3>5. ASSUME WaitsEnough(t) PROVE WaitsEnough(t)'
        <4>1. Waits(t) + Unanswered(t) >= Level(t) + ToCome(t) + 2 * Woken(t)
          BY <3>5 DEF WaitsEnough
        <4>2. Len(frames[t]) + 1 + 0 >= Level(t) + ToCome(t) + 2 * Woken(t)
          <5>1. CASE frames[t] # <<>>
            BY <1>5, <4>1, <5>1
          <5>2. CASE frames[t] = <<>>
            <6>1. Waits(t) \in {0, Level(t)} /\ Woken(t) = 0 /\ Len(frames[t]) = 0
              BY <1>5, <5>2 DEF Waits
            <6> QED BY <1>5, <4>1, <6>1
          <5> QED BY <5>1, <5>2
        <4> QED BY <1>8, <3>2, <3>3, <4>2 DEF WaitsEnough
      <3> QED BY <1>1, <1>2, <1>8, <3>4, <3>5 DEF Suspended, Missed
    <2> QED BY <2>1, <2>2
  <1>10. \A u \in Control!Threads \ {t} :
            /\ status'[u] = status[u] /\ code'[u] = code[u] /\ frames'[u] = frames[u] /\ signals'[u] = signals[u]
            /\ suspendLevel'[u] = suspendLevel[u] /\ suspendPending'[u] = suspendPending[u]
            /\ scopePending'[u] = scopePending[u]
    BY <1>1, <1>2, <1>4 DEF ControlType
  <1> QED BY <1>2, <1>6, <1>7, <1>9, <1>10, OwnStep

(* A frame of a thread takes the place of the one on top of it.                   *)
LEMMA TopIs ==
  ASSUME ControlType, NEW t \in Control!Threads, frames[t] # <<>>, NEW x \in Where
  PROVE  LET s == Append(Control!Pop(t), x) IN
         /\ s \in Seq(Where) /\ s # <<>> /\ Len(s) = Len(frames[t])
         /\ Control!Top(t) \notin {"woken"} =>
              Cardinality(WokenIn(s)) = IF x = "woken" THEN Woken(t) + 1 ELSE Woken(t)
  <1> DEFINE p == Control!Pop(t)
  <1>1. frames[t] \in Seq(Where)
    BY DEF ControlType
  <1>2. /\ p \in Seq(Where) /\ Len(frames[t]) \in Nat \ {0} /\ Len(p) = Len(frames[t]) - 1
        /\ Cardinality(WokenIn(frames[t]))
              = IF frames[t][Len(frames[t])] = "woken" THEN Cardinality(WokenIn(p)) + 1
                ELSE Cardinality(WokenIn(p))
    BY <1>1, PopIs DEF Control!Pop
  <1> HIDE DEF p
  <1>3. /\ Append(p, x) \in Seq(Where) /\ Append(p, x) # <<>> /\ Len(Append(p, x)) = Len(p) + 1
        /\ Cardinality(WokenIn(Append(p, x)))
              = IF x = "woken" THEN Cardinality(WokenIn(p)) + 1 ELSE Cardinality(WokenIn(p))
    BY <1>2, PushIs
  <1> QED BY <1>2, <1>3 DEF p, Control!Top, Woken

LEMMA WaitForSignalKeepsControl ==
  ASSUME Assumptions, ControlInv, Control!Orderly, NEW t \in Control!Threads, Control!WaitForSignal(t)
  PROVE  ControlInv'
  <1>1. ControlType /\ EndedOk(t) /\ Suspended(t)
    BY DEF ControlInv
  <1>2. /\ frames[t] # <<>> /\ Control!Top(t) = "called"
        /\ UNCHANGED <<calls, processStatus, lockLevel, semaphore, call, status, suspendLevel, suspendPending,
                       code, scopePending, signals>>
        /\ frames' = [frames EXCEPT ![t] = Append(Control!Pop(t), "waiting")]
    BY DEF Control!WaitForSignal, Control!In
  <1>3. /\ Append(Control!Pop(t), "waiting") \in Seq(Where) /\ Append(Control!Pop(t), "waiting") # <<>>
        /\ Len(Append(Control!Pop(t), "waiting")) = Len(frames[t])
        /\ Cardinality(WokenIn(Append(Control!Pop(t), "waiting"))) = Woken(t)
    BY <1>1, <1>2, TopIs DEF Where
  <1>4. frames'[t] = Append(Control!Pop(t), "waiting")
    BY <1>1, <1>2 DEF ControlType
  <1>5. ControlType'
    <2>1. frames' \in [Control!Threads -> Seq(Where)]
      <3>1. frames \in [Control!Threads -> Seq(Where)]
        BY <1>1 DEF ControlType
      <3> QED BY <1>2, <1>3, <3>1
    <2> QED BY <1>1, <1>2, <2>1 DEF ControlType
  <1>6. EndedOk(t)'
    BY <1>1, <1>2, CallsSame DEF EndedOk
  <1>7. Suspended(t)'
    <2>1. /\ Level(t)' = Level(t) /\ ToCome(t)' = ToCome(t) /\ (Doomed(t)' <=> Doomed(t))
          /\ Woken(t)' = Woken(t) /\ Unanswered(t)' = Unanswered(t)
      <3>1. Level(t)' = Level(t)
        BY <1>2 DEF Level
      <3>2. ToCome(t)' = ToCome(t)
        BY <1>2, CallsSame DEF ToCome
      <3>3. Doomed(t)' <=> Doomed(t)
        BY <1>2 DEF Doomed
      <3>4. Woken(t)' = Woken(t)
        BY <1>3, <1>4 DEF Woken, WokenIn
      <3>5. Unanswered(t)' = Unanswered(t)
        BY <1>2, CallsSame DEF Unanswered
      <3> QED BY <3>1, <3>2, <3>3, <3>4, <3>5
    <2>2. ~Unborn(t) /\ ~Unborn(t)'
      BY <1>2, <1>3, <1>4 DEF Unborn
    <2>3. Waits(t)' = Waits(t)
      BY <1>3, <1>4, <2>2 DEF Waits
    <2>4. WaitsEnough(t) => WaitsEnough(t)'
      BY <2>1, <2>3 DEF WaitsEnough
    <2> QED BY <1>1, <1>2, <2>1, <2>2, <2>4 DEF Suspended, UnbornOk, Missed
  <1>8. \A u \in Control!Threads \ {t} : frames'[u] = frames[u]
    BY <1>1, <1>2 DEF ControlType
  <1>9. code[t] # "none"
    BY <1>1, <1>2 DEF EndedOk
  <1> QED BY <1>2, <1>5, <1>6, <1>7, <1>8, <1>9, OwnStep

LEMMA ResumeDeliveredKeepsControl ==
  ASSUME Assumptions, ControlInv, Control!Orderly, NEW t \in Control!Threads, Control!ResumeDelivered(t)
  PROVE  ControlInv'
  <1>1. ControlType /\ EndedOk(t) /\ Suspended(t)
    BY DEF ControlInv
  <1>2. /\ code[t] # "none" /\ "RESUME" \in signals[t]
        /\ UNCHANGED <<calls, processStatus, lockLevel, semaphore, call, status, suspendLevel, suspendPending,
                       code, scopePending>>
        /\ signals' = [signals EXCEPT ![t] = @ \ {"RESUME"}]
        /\ \/ /\ frames[t] # <<>> /\ Control!Top(t) = "waiting"
              /\ frames' = [frames EXCEPT ![t] = Append(Control!Pop(t), "woken")]
           \/ frames' = frames
    BY DEF Control!ResumeDelivered, Control!In
  <1>3. /\ \A x \in {"SUSPEND", "CANCEL"} : x \in signals'[t] <=> x \in signals[t]
        /\ "RESUME" \notin signals'[t]
    BY <1>1, <1>2 DEF ControlType
  <1>4. /\ Level(t) \in {0, 1} /\ Unanswered(t) \in {0, 1} /\ ToCome(t) \in {0, 2, 4}
        /\ Woken(t) \in Nat /\ Len(frames[t]) \in Nat /\ Waits(t) \in Nat
    BY <1>1, NumbersAre
  <1>5. signals' \in [Control!Threads -> SUBSET {"SUSPEND", "RESUME", "CANCEL"}]
    <2>1. signals \in [Control!Threads -> SUBSET {"SUSPEND", "RESUME", "CANCEL"}]
      BY <1>1 DEF ControlType
    <2> QED BY <1>2, <2>1
  <1>6. EndedOk(t)' <=> (code[t] = "none" => frames'[t] = <<>> /\ signals'[t] = {})
                        /\ ("CANCEL" \in signals[t] => "stop" \in calls)
                        /\ (Wakes(t) /\ "suspendSelf" \notin calls => suspendLevel[t] = 0)
    BY <1>2, <1>3, CallsSame DEF EndedOk
  <1>7. EndedOk(t)'
    BY <1>1, <1>2, <1>6 DEF EndedOk
  <1>8. /\ Level(t)' = Level(t) /\ ToCome(t)' = ToCome(t) - 2 /\ (Doomed(t)' <=> Doomed(t))
        /\ Unanswered(t)' = Unanswered(t)
    <2>1. Level(t)' = Level(t)
      BY <1>2 DEF Level
    <2>2. ToCome(t)' = ToCome(t) - 2
      BY <1>2, <1>3, CallsSame DEF ToCome
    <2>3. Doomed(t)' <=> Doomed(t)
      BY <1>2, <1>3 DEF Doomed
    <2>4. Unanswered(t)' = Unanswered(t)
      BY <1>2, CallsSame DEF Unanswered
    <2> QED BY <2>1, <2>2, <2>3, <2>4
  <1>9. ControlType' /\ (\A u \in Control!Threads \ {t} : frames'[u] = frames[u]) /\ Suspended(t)'
    <2>1. CASE frames' = frames
      <3>1. ControlType'
        BY <1>1, <1>2, <1>5, <2>1 DEF ControlType
      <3>2. Woken(t)' = Woken(t) /\ (Unborn(t)' <=> Unborn(t))
        BY <1>2, <2>1 DEF Woken, WokenIn, Unborn
      <3>3. Waits(t)' = Waits(t)
        BY <1>8, <2>1, <3>2 DEF Waits
      <3>4. WaitsEnough(t) => WaitsEnough(t)'
        <4>1. ASSUME Waits(t) + Unanswered(t) >= Level(t) + ToCome(t) + 2 * Woken(t)
              PROVE  Waits(t) + Unanswered(t) >= Level(t) + ToCome(t)' + 2 * Woken(t)
          BY <1>4, <1>8, <4>1
        <4> QED BY <1>8, <3>2, <3>3, <4>1 DEF WaitsEnough
      <3>5. Missed(t) => Missed(t)'
        BY <1>2, <1>3, <2>1, CallsSame DEF Missed, Restart
      <3>6. UnbornOk(t) => UnbornOk(t)'
        BY <1>2, <1>3, <3>2, CallsSame DEF UnbornOk, Restart
      <3> QED BY <1>1, <1>8, <2>1, <3>1, <3>4, <3>5, <3>6 DEF Suspended
    <2>2. CASE /\ frames[t] # <<>> /\ Control!Top(t) = "waiting"
               /\ frames' = [frames EXCEPT ![t] = Append(Control!Pop(t), "woken")]
      <3>1. /\ Append(Control!Pop(t), "woken") \in Seq(Where) /\ Append(Control!Pop(t), "woken") # <<>>
            /\ Len(Append(Control!Pop(t), "woken")) = Len(frames[t])
            /\ Cardinality(WokenIn(Append(Control!Pop(t), "woken"))) = Woken(t) + 1
        BY <1>1, <2>2, TopIs DEF Where
      <3>2. frames'[t] = Append(Control!Pop(t), "woken") /\ \A u \in Control!Threads \ {t} : frames'[u] = frames[u]
        BY <1>1, <2>2 DEF ControlType
      <3>3. ControlType'
        <4>1. frames' \in [Control!Threads -> Seq(Where)]
          <5>1. frames \in [Control!Threads -> Seq(Where)]
            BY <1>1 DEF ControlType
          <5> QED BY <2>2, <3>1, <5>1
        <4> QED BY <1>1, <1>2, <1>5, <4>1 DEF ControlType
      <3>4. Woken(t)' = Woken(t) + 1
        BY <3>1, <3>2 DEF Woken, WokenIn
      <3>5. ~Unborn(t) /\ ~Unborn(t)'
        BY <2>2, <3>1, <3>2 DEF Unborn
      <3>6. Waits(t)' = Waits(t)
        BY <3>1, <3>2, <3>5 DEF Waits
      <3>7. WaitsEnough(t) => WaitsEnough(t)'
        <4>1. ASSUME Waits(t) + Unanswered(t) >= Level(t) + ToCome(t) + 2 * Woken(t)
              PROVE  Waits(t) + Unanswered(t) >= Level(t) + ToCome(t)' + 2 * (Woken(t) + 1)
          <5>1. ToCome(t)' \in Int /\ ToCome(t)' = ToCome(t) - 2
            BY <1>4, <1>8
          <5> QED BY <1>4, <4>1, <5>1
        <4> QED BY <1>8, <3>4, <3>6, <4>1 DEF WaitsEnough
      <3> QED BY <1>1, <1>8, <2>2, <3>2, <3>3, <3>5, <3>7 DEF Suspended, UnbornOk, Missed
    <2> QED BY <1>2, <2>1, <2>2
  <1>10. \A u \in Control!Threads \ {t} : signals'[u] = signals[u]
    BY <1>1, <1>2 DEF ControlType
  <1> QED BY <1>2, <1>7, <1>9, <1>10, OwnStep

LEMMA WakeUpKeepsControl ==
  ASSUME Assumptions, ControlInv, Control!Orderly, NEW t \in Control!Threads, Control!WakeUp(t)
  PROVE  ControlInv'
  <1>1. ControlType /\ EndedOk(t) /\ Suspended(t)
    BY DEF ControlInv
  <1>2. /\ frames[t] # <<>> /\ Control!Top(t) = "woken"
        /\ UNCHANGED <<calls, processStatus, lockLevel, semaphore, call, status, suspendLevel, code, scopePending,
                       signals>>
        /\ frames' = [frames EXCEPT ![t] = Control!Pop(t)]
        /\ suspendPending' = [suspendPending EXCEPT ![t] = FALSE]
    BY DEF Control!WakeUp, Control!In
  <1>3. /\ Level(t) \in {0, 1} /\ Unanswered(t) \in {0, 1} /\ ToCome(t) \in {0, 2, 4}
        /\ Woken(t) \in Nat /\ Len(frames[t]) \in Nat /\ Waits(t) = Len(frames[t])
    BY <1>1, <1>2, NumbersAre
  <1>4. /\ Control!Pop(t) \in Seq(Where) /\ Len(frames[t]) \in Nat \ {0}
        /\ Len(Control!Pop(t)) = Len(frames[t]) - 1
        /\ Control!Pop(t) = <<>> <=> Len(frames[t]) = 1
        /\ Woken(t) = Cardinality(WokenIn(Control!Pop(t))) + 1
        /\ Cardinality(WokenIn(Control!Pop(t))) \in Nat
    <2>1. frames[t] \in Seq(Where)
      BY <1>1 DEF ControlType
    <2> QED BY <1>2, <2>1, PopIs, WokenIs DEF Control!Pop, Control!Top, Woken
  <1>5. frames'[t] = Control!Pop(t) /\ ~suspendPending'[t]
    BY <1>1, <1>2 DEF ControlType
  <1>6. ControlType'
    <2>1. frames' \in [Control!Threads -> Seq(Where)]
      <3>1. frames \in [Control!Threads -> Seq(Where)]
        BY <1>1 DEF ControlType
      <3> QED BY <1>2, <1>4, <3>1
    <2>2. suspendPending' \in [Control!Threads -> BOOLEAN]
      BY <1>1, <1>2 DEF ControlType
    <2> QED BY <1>1, <1>2, <2>1, <2>2 DEF ControlType
  <1>7. code[t] # "none"
    BY <1>1, <1>2 DEF EndedOk
  <1>8. EndedOk(t)'
    BY <1>1, <1>2, <1>7, CallsSame DEF EndedOk
  <1>9. /\ Level(t)' = Level(t) /\ ToCome(t)' = ToCome(t) /\ (Doomed(t)' <=> Doomed(t))
        /\ Unanswered(t)' = 0 /\ Woken(t)' = Woken(t) - 1 /\ Len(frames[t])' = Len(frames[t]) - 1
    <2>1. Level(t)' = Level(t)
      BY <1>2 DEF Level
    <2>2. ToCome(t)' = ToCome(t)
      BY <1>2, CallsSame DEF ToCome
    <2>3. Doomed(t)' <=> Doomed(t)
      BY <1>2 DEF Doomed
    <2>4. Woken(t)' = Woken(t) - 1
      <3>1. Woken(t)' = Cardinality(WokenIn(Control!Pop(t)))
        BY <1>5 DEF Woken, WokenIn
      <3> QED BY <1>4, <3>1
    <2> QED BY <1>4, <1>5, <2>1, <2>2, <2>3, <2>4 DEF Unanswered
  <1>10. Suspended(t)'
    <2> SUFFICES ASSUME ~Doomed(t) PROVE UnbornOk(t)' /\ WaitsEnough(t)'
      BY <1>9 DEF Suspended
    <2>1. Len(frames[t]) + Unanswered(t) >= Level(t) + ToCome(t) + 2 * Woken(t)
      BY <1>1, <1>2, <1>3 DEF Suspended, WaitsEnough, Missed
    <2>2. Len(frames[t]) - 1 >= Level(t) + ToCome(t) + 2 * (Woken(t) - 1)
      BY <1>3, <2>1
    <2>3. WaitsEnough(t)'
      <3>1. Waits(t)' = Len(frames[t])' \/ Waits(t)' = Len(frames[t])' + Level(t)'
        BY <1>3, <1>4, <1>9 DEF Waits
      <3>2. Waits(t)' >= Len(frames[t]) - 1
        BY <1>3, <1>9, <3>1
      <3>3. Waits(t)' \in Nat
        BY <1>3, <1>4, <1>9, <3>1
      <3> QED BY <1>3, <1>9, <2>2, <3>2, <3>3 DEF WaitsEnough
    <2>4. UnbornOk(t)'
      <3>1. ASSUME Unborn(t)', suspendLevel[t] > 0 PROVE FALSE
        <4>1. Len(frames[t]) = 1
          BY <1>4, <1>5, <3>1 DEF Unborn
        <4>2. Level(t) = 1
          BY <3>1 DEF Level
        <4>3. Woken(t) >= 1
          BY <1>4
        <4> QED BY <1>3, <2>2, <4>1, <4>2, <4>3
      <3> QED BY <1>2, <3>1 DEF UnbornOk
    <2> QED BY <2>3, <2>4
  <1>11. \A u \in Control!Threads \ {t} : frames'[u] = frames[u] /\ suspendPending'[u] = suspendPending[u]
    BY <1>1, <1>2 DEF ControlType
  <1> QED BY <1>2, <1>6, <1>7, <1>8, <1>10, <1>11, OwnStep

(* A thread suspends itself, or begins with the suspension it was given before.   *)
LEMMA WaitBeginsKeepsControl ==
  ASSUME Assumptions, ControlInv, Control!Orderly, NEW t \in Control!Threads,
         (code[t] = "app" /\ "suspendSelf" \in calls) \/ (code[t] = "starting" /\ suspendLevel[t] > 0),
         frames[t] = <<>>, UNCHANGED <<calls, processStatus, lockLevel, semaphore, call, status, scopePending, signals>>,
         code' = [code EXCEPT ![t] = "app"], frames' = [frames EXCEPT ![t] = <<"called">>],
         \/ code[t] = "app" /\ suspendPending' = suspendPending
         \/ code[t] = "starting" /\ suspendPending' = [suspendPending EXCEPT ![t] = FALSE],
         suspendLevel' = [suspendLevel EXCEPT ![t] = IF code[t] = "app" THEN 1 ELSE suspendLevel[t]]
  PROVE  ControlInv'
  <1>1. ControlType /\ EndedOk(t) /\ Suspended(t)
    BY DEF ControlInv
  <1>2. /\ code'[t] = "app" /\ frames'[t] = <<"called">> /\ suspendLevel'[t] \in Nat \ {0}
        /\ code[t] = "app" => suspendPending'[t] = suspendPending[t]
        /\ code[t] = "starting" => suspendPending'[t] = FALSE
    BY <1>1 DEF ControlType
  <1>3. /\ <<"called">> \in Seq(Where) /\ Len(<<"called">>) = 1 /\ <<"called">> # <<>>
        /\ Cardinality(WokenIn(<<"called">>)) = 0
    <2>1. Append(<<>>, "called") = <<"called">> /\ <<>> \in Seq(Where) /\ "called" \in Where
      BY DEF Where
    <2>2. /\ <<"called">> \in Seq(Where) /\ <<"called">> # <<>> /\ Len(<<"called">>) = Len(<<>>) + 1
          /\ Cardinality(WokenIn(<<"called">>)) = Cardinality(WokenIn(<<>>))
      <3>1. /\ Append(<<>>, "called") \in Seq(Where) /\ Append(<<>>, "called") # <<>>
            /\ Len(Append(<<>>, "called")) = Len(<<>>) + 1
            /\ Cardinality(WokenIn(Append(<<>>, "called"))) = Cardinality(WokenIn(<<>>))
        BY <2>1, PushIs
      <3> QED BY <2>1, <3>1
    <2>3. Len(<<>>) = 0 /\ Cardinality(WokenIn(<<>>)) = 0
      BY <2>1, WokenIs, EmptySeq
    <2> QED BY <2>2, <2>3
  <1>4. ControlType'
    <2>1. frames' \in [Control!Threads -> Seq(Where)]
      BY <1>1, <1>3 DEF ControlType
    <2>2. suspendPending' \in [Control!Threads -> BOOLEAN] /\ suspendLevel' \in [Control!Threads -> Nat]
      BY <1>1 DEF ControlType
    <2>3. code' \in [Control!Threads -> {"none", "starting", "app", "locked", "scope"}]
      BY <1>1 DEF ControlType
    <2> QED BY <1>1, <2>1, <2>2, <2>3 DEF ControlType
  <1>5. EndedOk(t)'
    BY <1>1, <1>2, CallsSame DEF EndedOk, ControlType
  <1>6. Suspended(t)'
    <2> SUFFICES ASSUME ~Doomed(t)' PROVE UnbornOk(t)' /\ WaitsEnough(t)'
      BY DEF Suspended
    <2>1. ~Doomed(t)
      BY <1>2 DEF Doomed
    <2>2. ~Missed(t)
      <3>1. CASE code[t] = "app" /\ "suspendSelf" \in calls
        BY <3>1 DEF Missed, Restart, Control!Orderly
      <3>2. CASE code[t] = "starting" /\ suspendLevel[t] > 0
        <4>1. ASSUME Missed(t) PROVE FALSE
          <5>1. "suspendSelf" \notin calls /\ Wakes(t)
            BY <4>1 DEF Missed, Restart, Control!Orderly
          <5> QED BY <1>1, <3>2, <5>1 DEF EndedOk
        <4> QED BY <4>1
      <3> QED BY <3>1, <3>2
    <2>3. Waits(t) + Unanswered(t) >= Level(t) + ToCome(t) + 2 * Woken(t)
      BY <1>1, <2>1, <2>2 DEF Suspended, WaitsEnough
    <2>4. /\ Level(t) \in {0, 1} /\ Unanswered(t) \in {0, 1} /\ ToCome(t) \in {0, 2, 4}
          /\ Woken(t) = 0 /\ Len(frames[t]) = 0
      BY <1>1, NumbersAre
    <2>5. Level(t)' = 1 /\ Woken(t)' = 0 /\ Waits(t)' = 1
      <3>1. Level(t)' = 1
        BY <1>2 DEF Level
      <3>2. Woken(t)' = 0
        BY <1>2, <1>3 DEF Woken, WokenIn
      <3>3. Waits(t)' = 1
        <4>1. ~Unborn(t)' /\ Len(frames[t])' = 1
          BY <1>2, <1>3 DEF Unborn
        <4> QED BY <4>1 DEF Waits
      <3> QED BY <3>1, <3>2, <3>3
    <2>6. ToCome(t)' = ToCome(t)
      BY CallsSame DEF ToCome
    <2>7. ToCome(t) = 0 /\ Unanswered(t)' \in {0, 1}
      <3>1. Waits(t) = IF Unborn(t) THEN Level(t) ELSE 0
        BY <2>4 DEF Waits
      <3>2. ToCome(t) = 0
        BY <2>3, <2>4, <3>1
      <3> QED BY <3>2 DEF Unanswered
    <2>8. WaitsEnough(t)'
      BY <2>5, <2>6, <2>7 DEF WaitsEnough
    <2>9. UnbornOk(t)'
      BY <1>2 DEF UnbornOk, Unborn
    <2> QED BY <2>8, <2>9
  <1>7. \A u \in Control!Threads \ {t} :
            /\ code'[u] = code[u] /\ frames'[u] = frames[u]
            /\ suspendLevel'[u] = suspendLevel[u] /\ suspendPending'[u] = suspendPending[u]
    BY <1>1 DEF ControlType
  <1>8. code[t] # "none" /\ code'[t] # "none" /\ suspendLevel'[t] > 0
    BY <1>2
  <1> QED BY <1>4, <1>5, <1>6, <1>7, <1>8, OwnStep

LEMMA OwnWaitKeepsControl ==
  ASSUME Assumptions, ControlInv, Control!Orderly, NEW t \in Control!Threads,
         Control!SuspendSelf(t) \/ Control!ThreadStartWrapper(t)
  PROVE  ControlInv'
  <1>1. ControlType /\ EndedOk(t) /\ Suspended(t)
    BY DEF ControlInv
  <1>2. CASE Control!SuspendSelf(t)
    <2>1. /\ code[t] = "app" /\ frames[t] = <<>> /\ "suspendSelf" \in calls
          /\ UNCHANGED <<calls, processStatus, lockLevel, semaphore, call, status, suspendPending, code, scopePending,
                         signals>>
      BY <1>2 DEF Control!SuspendSelf, Control!Free, Control!Executes
    <2>2. CASE lockLevel > 0
      <3>1. UNCHANGED <<suspendLevel, frames>>
        BY <1>2, <2>2 DEF Control!SuspendSelf, Control!SuspendedSelf
      <3>2. ControlType'
        BY <1>1, <2>1, <3>1 DEF ControlType
      <3>3. suspendLevel[t] \in Nat
        BY <1>1 DEF ControlType
      <3>4. EndedOk(t)' /\ Suspended(t)'
        BY <1>1, <2>1, <3>1, <3>3, CallsSame, SuspendedStays
      <3>5. code[t] # "none" /\ code'[t] # "none" /\ UNCHANGED <<code, frames, signals, status, suspendLevel,
                                                               suspendPending, scopePending>>
        BY <2>1, <3>1
      <3> QED BY <2>1, <3>2, <3>4, <3>5, OwnStep
    <2>3. CASE ~(lockLevel > 0)
      <3>1. suspendLevel' = [suspendLevel EXCEPT ![t] = 1] /\ frames' = [frames EXCEPT ![t] = <<"called">>]
        BY <1>2, <2>3 DEF Control!SuspendSelf, Control!SuspendedSelf
      <3>2. code' = [code EXCEPT ![t] = "app"]
        BY <1>1, <2>1 DEF ControlType
      <3>3. suspendLevel' = [suspendLevel EXCEPT ![t] = IF code[t] = "app" THEN 1 ELSE suspendLevel[t]]
        BY <2>1, <3>1
      <3>4. \/ code[t] = "app" /\ suspendPending' = suspendPending
            \/ code[t] = "starting" /\ suspendPending' = [suspendPending EXCEPT ![t] = FALSE]
        BY <2>1
      <3>5. UNCHANGED <<calls, processStatus, lockLevel, semaphore, call, status, scopePending, signals>>
            /\ ((code[t] = "app" /\ "suspendSelf" \in calls) \/ (code[t] = "starting" /\ suspendLevel[t] > 0))
            /\ frames[t] = <<>>
        BY <2>1
      <3> QED BY <3>1, <3>2, <3>3, <3>4, <3>5, WaitBeginsKeepsControl
    <2> QED BY <2>2, <2>3
  <1>3. CASE Control!ThreadStartWrapper(t)
    <2>1. /\ code[t] = "starting" /\ frames[t] = <<>> /\ code' = [code EXCEPT ![t] = "app"]
          /\ UNCHANGED <<calls, processStatus, lockLevel, semaphore, call, status, suspendLevel, scopePending, signals>>
      BY <1>3 DEF Control!ThreadStartWrapper, Control!Executes
    <2>2. CASE suspendLevel[t] = 0
      <3>1. UNCHANGED <<suspendPending, frames>>
        BY <1>3, <2>2 DEF Control!ThreadStartWrapper
      <3>2. code'[t] = "app" /\ \A u \in Control!Threads \ {t} : code'[u] = code[u]
        BY <1>1, <2>1 DEF ControlType
      <3>3. ControlType'
        <4>1. code' \in [Control!Threads -> {"none", "starting", "app", "locked", "scope"}]
          BY <1>1, <2>1 DEF ControlType
        <4> QED BY <1>1, <2>1, <3>1, <4>1 DEF ControlType
      <3>4. EndedOk(t)'
        BY <1>1, <2>1, <3>1, <3>2, CallsSame DEF EndedOk
      <3>5. Suspended(t)'
        <4>1. UnbornOk(t)' /\ (Doomed(t)' <=> Doomed(t))
          BY <2>1, <3>2 DEF UnbornOk, Unborn, Doomed
        <4>2. Missed(t) => Missed(t)'
          BY <2>1, <3>1, <3>2, CallsSame DEF Missed, Restart
        <4>3. /\ Level(t) = 0 /\ Level(t)' = 0 /\ ToCome(t)' = ToCome(t) /\ Woken(t)' = Woken(t)
              /\ Unanswered(t)' = Unanswered(t)
          <5>1. Level(t) = 0 /\ Level(t)' = 0
            BY <2>1, <2>2 DEF Level
          <5>2. ToCome(t)' = ToCome(t)
            BY <2>1, CallsSame DEF ToCome
          <5>3. Woken(t)' = Woken(t) /\ Unanswered(t)' = Unanswered(t)
            BY <2>1, <3>1, CallsSame DEF Woken, WokenIn, Unanswered
          <5> QED BY <5>1, <5>2, <5>3
        <4>4. Waits(t)' = Waits(t)
          <5>1. Unborn(t) /\ ~Unborn(t)' /\ Len(frames[t])' = Len(frames[t]) /\ Len(frames[t]) = 0
            BY <1>1, <2>1, <3>1, <3>2, NumbersAre DEF Unborn
          <5> QED BY <4>3, <5>1 DEF Waits
        <4>5. WaitsEnough(t) => WaitsEnough(t)'
          BY <4>3, <4>4 DEF WaitsEnough
        <4> QED BY <1>1, <4>1, <4>2, <4>5 DEF Suspended
      <3> QED BY <2>1, <3>1, <3>2, <3>3, <3>4, <3>5, OwnStep
    <2>3. CASE suspendLevel[t] # 0
      <3>1. /\ suspendPending' = [suspendPending EXCEPT ![t] = FALSE] /\ frames' = [frames EXCEPT ![t] = <<"called">>]
        BY <1>3, <2>3 DEF Control!ThreadStartWrapper
      <3>2. suspendLevel[t] > 0 /\ suspendLevel' = [suspendLevel EXCEPT ![t] = suspendLevel[t]]
        BY <1>1, <2>1, <2>3 DEF ControlType
      <3>3. suspendLevel' = [suspendLevel EXCEPT ![t] = IF code[t] = "app" THEN 1 ELSE suspendLevel[t]]
        BY <2>1, <3>2
      <3> QED BY <2>1, <3>1, <3>2, <3>3, WaitBeginsKeepsControl
    <2> QED BY <2>2, <2>3
  <1> QED BY <1>2, <1>3

(* A thread that ends leaves no signal and no wait behind.                        *)
LEMMA TerminateKeepsControl ==
  ASSUME Assumptions, ControlInv, Control!Orderly, NEW t \in Control!Threads, Control!TerminateSelf(t)
  PROVE  ControlInv'
  <1>1. ControlType /\ EndedOk(t) /\ Suspended(t)
    BY DEF ControlInv
  <1>2. /\ code[t] = "app" /\ frames[t] = <<>> /\ "exit" \in calls
        /\ UNCHANGED <<calls, processStatus, lockLevel, semaphore, call, suspendLevel, suspendPending, scopePending,
                       frames>>
        /\ status' = [status EXCEPT ![t] = "DORMANT"] /\ code' = [code EXCEPT ![t] = "none"]
        /\ signals' = [signals EXCEPT ![t] = {}]
    BY DEF Control!TerminateSelf, Control!Free, Control!Executes
  <1>3. /\ code'[t] = "none" /\ signals'[t] = {}
        /\ \A u \in Control!Threads \ {t} : status'[u] = status[u] /\ code'[u] = code[u] /\ signals'[u] = signals[u]
    BY <1>1, <1>2 DEF ControlType
  <1>4. ControlType'
    <2>1. code' \in [Control!Threads -> {"none", "starting", "app", "locked", "scope"}]
      BY <1>1, <1>2 DEF ControlType
    <2>2. signals' \in [Control!Threads -> SUBSET {"SUSPEND", "RESUME", "CANCEL"}]
      BY <1>1, <1>2 DEF ControlType
    <2>3. DOMAIN status' = Control!Threads
      BY <1>1, <1>2 DEF ControlType
    <2> QED BY <1>1, <1>2, <2>1, <2>2, <2>3 DEF ControlType
  <1>5. EndedOk(t)'
    BY <1>1, <1>2, <1>3, CallsSame DEF EndedOk
  <1>6. Suspended(t)'
    <2> SUFFICES ASSUME ~Doomed(t)', "start" \in calls PROVE UnbornOk(t)' /\ (WaitsEnough(t)' \/ Missed(t)')
      BY <1>2, <1>3 DEF Suspended, Doomed
    <2>1. Restart /\ "stop" \notin calls /\ "suspendSelf" \notin calls
      BY <1>2 DEF Restart, Control!Orderly
    <2>2. "CANCEL" \notin signals[t] /\ ~Doomed(t)
      BY <1>1, <1>2, <2>1 DEF EndedOk, Doomed
    <2>3. /\ Level(t) \in {0, 1} /\ Unanswered(t) \in {0, 1} /\ ToCome(t) \in {0, 2, 4}
          /\ Woken(t) = 0 /\ Len(frames[t]) = 0
      BY <1>1, <1>2, NumbersAre
    <2>4. CASE Missed(t)
      <3>1. Missed(t)'
        BY <1>2, <1>3, <2>4, CallsSame DEF Missed, Restart
      <3>2. suspendLevel[t] = 0
        BY <1>1, <2>1, <2>4 DEF EndedOk, Missed
      <3>3. UnbornOk(t)'
        BY <1>2, <3>2 DEF UnbornOk
      <3> QED BY <3>1, <3>3
    <2>5. CASE WaitsEnough(t)
      <3>1. Waits(t) = 0
        BY <1>2, <2>3 DEF Waits, Unborn
      <3>2. 0 + Unanswered(t) >= Level(t) + ToCome(t) + 2 * 0
        BY <2>3, <2>5, <3>1 DEF WaitsEnough
      <3>3. ToCome(t) = 0 /\ (Level(t) = 1 => Unanswered(t) = 1)
        BY <2>3, <3>2
      <3>4. ToCome(t)' = 0
        BY <1>2, <1>3, <3>3, CallsSame DEF ToCome
      <3>5. Woken(t)' = 0 /\ Level(t)' = Level(t) /\ Waits(t)' = Level(t) /\ Unanswered(t)' \in {0, 1}
        <4>1. Woken(t)' = 0 /\ Level(t)' = Level(t) /\ Unborn(t)' /\ Len(frames[t])' = 0
          BY <1>2, <1>3, <2>3 DEF Woken, WokenIn, Level, Unborn
        <4> QED BY <2>3, <4>1 DEF Waits, Unanswered
      <3>6. WaitsEnough(t)'
        BY <2>3, <3>4, <3>5 DEF WaitsEnough
      <3>7. UnbornOk(t)'
        <4> SUFFICES ASSUME suspendLevel[t] > 0 PROVE Interrupted(t)' /\ suspendPending'[t]
          BY <1>2 DEF UnbornOk
        <4>1. suspendPending[t] /\ Control!Addressed(t)
          BY <3>3 DEF Level, Unanswered
        <4>2. PICK a \in Control!Agents : Speaks(a) /\ call[a].next = t
          BY <4>1 DEF Control!Addressed, Speaks
        <4>3. AgentOk(a)
          BY DEF ControlInv
        <4>4. suspendLevel[t] \in Nat
          BY <1>1 DEF ControlType
        <4>5. CASE call[a].op = "resumeAll"
          <5>1. Wakes(t)
            BY <4>2, <4>3, <4>5 DEF AgentOk, Wakes
          <5> QED BY <1>1, <2>1, <4>4, <5>1 DEF EndedOk
        <4>6. CASE call[a].op = "suspendAll"
          BY <1>2, <4>1, <4>2, <4>6, CallsSame DEF Interrupted, Interrupts
        <4>7. call[a].op \in {"suspendAll", "resumeAll"}
          BY <4>2, <4>3 DEF AgentOk, Speaks, Visits
        <4> QED BY <4>5, <4>6, <4>7
      <3> QED BY <3>6, <3>7
    <2> QED BY <1>1, <2>2, <2>4, <2>5 DEF Suspended
  <1>7. code[t] # "none" /\ "exit" \in calls
    BY <1>2
  <1> QED BY <1>2, <1>3, <1>4, <1>5, <1>6, <1>7, OwnStep

(* An agent goes on.                                                              *)
LEMMA MovesAre ==
  ASSUME Assumptions, ControlType, NEW a \in Control!Agents
  PROVE  /\ \A p \in Visits : Control!Go(a, p) =>
              /\ call' \in [Control!Agents -> CallRecord]
              /\ \A b \in Control!Agents : b # a => call'[b] = call[b]
              /\ call'[a].op = call[a].op /\ call'[a].next = call[a].next /\ call'[a].phase = p
         /\ Control!NextThread(a) =>
              /\ call' \in [Control!Agents -> CallRecord]
              /\ \A b \in Control!Agents : b # a => call'[b] = call[b]
              /\ call'[a].op = call[a].op /\ call'[a].next = call[a].next + 1 /\ call'[a].phase = "visit"
         /\ \A c \in CallRecord : call' = [call EXCEPT ![a] = c] =>
              /\ call' \in [Control!Agents -> CallRecord]
              /\ \A b \in Control!Agents : b # a => call'[b] = call[b]
              /\ call'[a] = c
         /\ Control!Idle \in CallRecord /\ \A op \in {"suspendAll", "resumeAll"} : Control!Visiting(op) \in CallRecord
  <1>1. call \in [Control!Agents -> CallRecord] /\ call[a] \in CallRecord
    BY DEF ControlType
  <1>2. ASSUME NEW p \in Visits, Control!Go(a, p)
        PROVE  /\ call' \in [Control!Agents -> CallRecord]
               /\ \A b \in Control!Agents : b # a => call'[b] = call[b]
               /\ call'[a].op = call[a].op /\ call'[a].next = call[a].next /\ call'[a].phase = p
    <2>1. call' = [call EXCEPT ![a] = [call[a] EXCEPT !.phase = p]]
      BY <1>2 DEF Control!Go
    <2>2. [call[a] EXCEPT !.phase = p] \in CallRecord
      BY <1>1 DEF CallRecord
    <2> QED BY <1>1, <2>1, <2>2 DEF CallRecord
  <1>3. ASSUME Control!NextThread(a)
        PROVE  /\ call' \in [Control!Agents -> CallRecord]
               /\ \A b \in Control!Agents : b # a => call'[b] = call[b]
               /\ call'[a].op = call[a].op /\ call'[a].next = call[a].next + 1 /\ call'[a].phase = "visit"
    <2>1. call' = [call EXCEPT ![a].next = call[a].next + 1, ![a].phase = "visit"]
      BY <1>3 DEF Control!NextThread
    <2>2. /\ call' = [call EXCEPT ![a] = call'[a]]
          /\ call'[a] = [call[a] EXCEPT !.next = call[a].next + 1, !.phase = "visit"]
      BY <1>1, <2>1 DEF CallRecord
    <2>3. [call[a] EXCEPT !.next = call[a].next + 1, !.phase = "visit"] \in CallRecord
      <3>1. call[a].next + 1 \in Nat
        BY <1>1 DEF CallRecord
      <3>2. \A n \in Nat : [call[a] EXCEPT !.next = n, !.phase = "visit"] \in CallRecord
        BY <1>1 DEF CallRecord, Visits
      <3> QED BY <3>1, <3>2
    <2> QED BY <1>1, <2>2, <2>3 DEF CallRecord
  <1>4. Control!Idle \in CallRecord /\ \A op \in {"suspendAll", "resumeAll"} : Control!Visiting(op) \in CallRecord
    BY DEF Control!Idle, Control!Visiting, CallRecord, Visits
  <1> QED BY <1>1, <1>2, <1>3, <1>4

LEMMA CallStep ==
  ASSUME Assumptions, ControlInv, Control!Orderly, NEW a \in Control!Agents,
         call' \in [Control!Agents -> CallRecord], \A b \in Control!Agents : b # a => call'[b] = call[b],
         ~Speaks(a), ~Speaks(a)', call'[a].op # "start", call[Main].op # "start" \/ a # Main,
         UNCHANGED <<calls, code, frames, signals, suspendPending, scopePending, semaphore, status>>,
         lockLevel' \in Nat, lockLevel' >= lockLevel, processStatus' \in {"INITIALIZED", "RUNNING", "STOPPED"},
         suspendLevel' \in [Control!Threads -> Nat],
         \A t \in Control!Threads : suspendLevel'[t] = 0 <=> suspendLevel[t] = 0,
         NotYetRun', AgentOk(a)',
         a = Main /\ Calm /\ call'[Main].op = "suspendAll" =>
            \A t \in Control!Threads :
                t < call'[Main].next => code[t] = "none" \/ (suspendLevel[t] > 0 /\ ~Control!Addressed(t))
  PROVE  ControlInv'
  <1>1. /\ ControlType /\ NotYetRun /\ NoneEnds /\ StoppedSoFar
        /\ \A b \in Control!Agents : AgentOk(b)
        /\ \A u \in Control!Threads : EndedOk(u) /\ Suspended(u)
    BY DEF ControlInv
  <1>2. ControlType'
    BY <1>1 DEF ControlType
  <1>3. \A t \in Control!Threads : EndedOk(t)' /\ Suspended(t)'
    BY <1>1, QuietStep
  <1>4. \A t \in Control!Threads : suspendLevel[t] \in Nat /\ suspendLevel'[t] \in Nat /\ (suspendLevel[t] > 0 <=> suspendLevel'[t] > 0)
    BY <1>1 DEF ControlType
  <1>5. \A b \in Control!Agents : AgentOk(b)'
    <2> SUFFICES ASSUME NEW b \in Control!Agents, b # a PROVE AgentOk(b)'
      OBVIOUS
    <2>1. Speaks(b) \/ call[b].phase = "resume" => call[b].next \in Control!Threads
      BY <1>1 DEF AgentOk, Speaks, Visits
    <2>2. lockLevel > 0 => lockLevel' > 0
      BY <1>1 DEF ControlType
    <2> QED BY <1>1, <1>4, <2>1, <2>2, AgentStays
  <1>6. NoneEnds'
    <2>1. \A b \in Control!Agents : call'[b].op = "start" => call'[b] = call[b]
      OBVIOUS
    <2> QED BY <1>1, <1>4, <2>1 DEF NoneEnds, ControlType, Control!Agents, Control!Threads
  <1>7. StoppedSoFar'
    <2> SUFFICES ASSUME Calm PROVE StoppedSoFar'
      BY DEF StoppedSoFar, Calm
    <2>1. \A t \in Control!Threads : status[t] = "DORMANT" /\ code[t] # "none" =>
            call'[Main].op = "start" /\ call'[Main].next = t
      BY <1>1, ControlFacts DEF StoppedSoFar
    <2>2. ASSUME call'[Main].op = "suspendAll", NEW t \in Control!Threads, t < call'[Main].next
          PROVE  code[t] = "none" \/ (suspendLevel'[t] > 0 /\ ~Control!Addressed(t)')
      <3>1. Control!Addressed(t)' <=> Control!Addressed(t)
        BY QuietCalls
      <3>2. code[t] = "none" \/ (suspendLevel[t] > 0 /\ ~Control!Addressed(t))
        BY <1>1, <2>2, ControlFacts DEF StoppedSoFar
      <3> QED BY <1>4, <3>1, <3>2
    <2> QED BY <2>1, <2>2 DEF StoppedSoFar, Control!Threads
  <1> QED BY <1>2, <1>3, <1>5, <1>6, <1>7 DEF ControlInv

LEMMA NobodySpeaks ==
  ASSUME ControlInv, Control!Orderly, semaphore = None, Assumptions
  PROVE  /\ \A a \in Control!Agents : ~Speaks(a)
         /\ \A t : ~Control!Addressed(t) /\ ~Interrupted(t) /\ ~Wakes(t) /\ ~Raises(t)
  <1>1. \A a \in Control!Agents : ~Speaks(a)
    BY ControlFacts DEF ControlInv, AgentOk
  <1>2. Main \in Control!Agents
    BY ControlFacts
  <1> QED BY <1>1, <1>2 DEF Control!Addressed, Interrupted, Interrupts, Wakes, Raises, Speaks, Control!Agents,
             Control!Threads

LEMMA ProcessRuns ==
  ASSUME Assumptions, ControlInv, Control!Orderly, NEW a \in Control!Agents, Control!Executes(a),
         a = Main => call[a] # Control!Idle
  PROVE  processStatus # "INITIALIZED"
  BY ControlFacts DEF ControlInv, NotYetRun, Control!Executes

(* An agent goes on through the threads without speaking to one.                  *)
LEMMA LoopGoesOn ==
  ASSUME Assumptions, ControlInv, Control!Orderly, NEW a \in Control!Agents, Control!Executes(a),
         call[a].op \in {"suspendAll", "resumeAll"}, ~Speaks(a),
         \/ call' = [call EXCEPT ![a] = Control!Idle]
         \/ /\ Control!Go(a, "enter") \/ Control!Go(a, "resume")
            /\ call[a].next \in Control!Threads
            /\ Control!Go(a, "resume") =>
                  call[a].op = "resumeAll" /\ suspendLevel[call[a].next] > 0 /\ suspendLevel' = suspendLevel
         \/ /\ Control!NextThread(a) /\ call[a].next \in Nat
            /\ a = Main /\ call[a].op = "suspendAll" =>
                  \/ status[call[a].next] = "DORMANT"
                  \/ suspendLevel[call[a].next] > 0 /\ ~Control!Addressed(call[a].next),
         UNCHANGED <<calls, code, frames, signals, suspendPending, scopePending, semaphore, status, lockLevel>>,
         processStatus' = processStatus \/ processStatus' \in {"STOPPED", "RUNNING"},
         suspendLevel' \in [Control!Threads -> Nat],
         \A t \in Control!Threads : suspendLevel'[t] = 0 <=> suspendLevel[t] = 0
  PROVE  ControlInv'
  <1>1. ControlType /\ AgentOk(a) /\ StoppedSoFar
    BY DEF ControlInv
  <1>2. processStatus # "INITIALIZED"
    <2>1. call[a] # Control!Idle
      BY DEF Control!Idle
    <2> QED BY <2>1, ProcessRuns
  <1>3. NotYetRun'
    BY <1>2 DEF NotYetRun
  <1>4. lockLevel' \in Nat /\ lockLevel' >= lockLevel /\ processStatus' \in {"INITIALIZED", "RUNNING", "STOPPED"}
    BY <1>1 DEF ControlType
  <1>5. call[Main].op # "start" \/ a # Main
    OBVIOUS
  <1>6. /\ call' \in [Control!Agents -> CallRecord]
        /\ \A b \in Control!Agents : b # a => call'[b] = call[b]
        /\ ~Speaks(a)' /\ call'[a].op # "start" /\ AgentOk(a)'
        /\ a = Main /\ Calm /\ call'[Main].op = "suspendAll" =>
            \A t \in Control!Threads :
                t < call'[Main].next => code[t] = "none" \/ (suspendLevel[t] > 0 /\ ~Control!Addressed(t))
    <2>1. CASE call' = [call EXCEPT ![a] = Control!Idle]
      <3>1. /\ call' \in [Control!Agents -> CallRecord]
            /\ \A b \in Control!Agents : b # a => call'[b] = call[b]
            /\ call'[a] = Control!Idle
        BY <1>1, <2>1, MovesAre
      <3>2. call'[a].op = "none" /\ call'[a].phase = "none"
        BY <3>1 DEF Control!Idle
      <3> QED BY <3>1, <3>2 DEF Speaks, AgentOk, Visits
    <2>2. CASE /\ Control!Go(a, "enter") \/ Control!Go(a, "resume")
               /\ call[a].next \in Control!Threads
               /\ Control!Go(a, "resume") =>
                     call[a].op = "resumeAll" /\ suspendLevel[call[a].next] > 0 /\ suspendLevel' = suspendLevel
      <3> PICK p \in {"enter", "resume"} :
            /\ Control!Go(a, p)
            /\ p = "resume" =>
                  call[a].op = "resumeAll" /\ suspendLevel[call[a].next] > 0 /\ suspendLevel' = suspendLevel
        BY <2>2
      <3>1. /\ call' \in [Control!Agents -> CallRecord]
            /\ \A b \in Control!Agents : b # a => call'[b] = call[b]
            /\ call'[a].op = call[a].op /\ call'[a].next = call[a].next /\ call'[a].phase = p
        BY <1>1, <2>2, MovesAre DEF Visits
      <3>2. ~Speaks(a)'
        BY <3>1 DEF Speaks
      <3>3. AgentOk(a)'
        <4>1. call'[a].phase \in Visits /\ call'[a].next # 0 /\ call'[a].next \in Control!Threads
          BY <2>2, <3>1 DEF Visits, Control!Threads
        <4>2. a # Main => call'[a].op # "resumeAll" /\ (call'[a].op = "suspendAll" => lockLevel' > 0)
          BY <1>1, <3>1 DEF AgentOk
        <4> QED BY <2>2, <3>1, <3>2, <4>1, <4>2 DEF AgentOk
      <3>4. a = Main /\ Calm /\ call'[Main].op = "suspendAll" =>
              \A t \in Control!Threads :
                t < call'[Main].next => code[t] = "none" \/ (suspendLevel[t] > 0 /\ ~Control!Addressed(t))
        BY <1>1, <3>1 DEF StoppedSoFar
      <3> QED BY <3>1, <3>2, <3>3, <3>4
    <2>3. CASE /\ Control!NextThread(a) /\ call[a].next \in Nat
               /\ a = Main /\ call[a].op = "suspendAll" =>
                  \/ status[call[a].next] = "DORMANT"
                  \/ suspendLevel[call[a].next] > 0 /\ ~Control!Addressed(call[a].next)
      <3>1. /\ call' \in [Control!Agents -> CallRecord]
            /\ \A b \in Control!Agents : b # a => call'[b] = call[b]
            /\ call'[a].op = call[a].op /\ call'[a].next = call[a].next + 1 /\ call'[a].phase = "visit"
        BY <1>1, <2>3, MovesAre
      <3>2. ~Speaks(a)'
        BY <3>1 DEF Speaks
      <3>3. AgentOk(a)'
        <4>1. call'[a].phase \in Visits /\ call'[a].next # 0
          BY <2>3, <3>1 DEF Visits
        <4>2. a # Main => call'[a].op # "resumeAll" /\ (call'[a].op = "suspendAll" => lockLevel' > 0)
          BY <1>1, <3>1 DEF AgentOk
        <4> QED BY <3>1, <3>2, <4>1, <4>2 DEF AgentOk
      <3>4. ASSUME a = Main, Calm, call'[Main].op = "suspendAll", NEW t \in Control!Threads, t < call'[Main].next
            PROVE  code[t] = "none" \/ (suspendLevel[t] > 0 /\ ~Control!Addressed(t))
        <4>1. t \in Nat
          BY ControlFacts
        <4>2. CASE t < call[a].next
          BY <1>1, <3>1, <3>4, <4>2 DEF StoppedSoFar
        <4>3. CASE t = call[a].next
          BY <1>1, <2>3, <3>1, <3>4, <4>3 DEF StoppedSoFar
        <4> QED BY <2>3, <3>1, <3>4, <4>1, <4>2, <4>3
      <3> QED BY <3>1, <3>2, <3>3, <3>4
    <2> QED BY <2>1, <2>2, <2>3
  <1> QED BY <1>3, <1>4, <1>5, <1>6, CallStep

LEMMA VisitKeepsControl ==
  ASSUME Assumptions, ControlInv, Control!Orderly, NEW a \in Control!Agents,
         Control!Visit(a) \/ Control!ResumeTests(a)
  PROVE  ControlInv'
  <1>1. ControlType /\ AgentOk(a)
    BY DEF ControlInv
  <1>2. /\ Control!Executes(a) /\ call[a].op \in {"suspendAll", "resumeAll"}
        /\ call[a].phase \in {"visit", "enter"} /\ call[a].next <= N
        /\ UNCHANGED <<calls, code, frames, signals, suspendPending, scopePending, semaphore, status, lockLevel,
                       processStatus, suspendLevel>>
    BY DEF Control!Visit, Control!ResumeTests, Control!At, Control!threadVars
  <1>3. ~Speaks(a) /\ call[a].next \in Control!Threads /\ call[a].next \in Nat
    <2>1. call[a].next \in Nat /\ call[a].next # 0
      BY <1>1, <1>2 DEF ControlType, CallRecord, AgentOk, Visits
    <2> QED BY <1>2, <2>1, ControlFacts DEF Speaks
  <1>4. /\ suspendLevel' \in [Control!Threads -> Nat]
        /\ \A t \in Control!Threads : suspendLevel'[t] = 0 <=> suspendLevel[t] = 0
        /\ processStatus' = processStatus \/ processStatus' \in {"STOPPED", "RUNNING"}
    BY <1>1, <1>2 DEF ControlType
  <1>5. \/ call' = [call EXCEPT ![a] = Control!Idle]
        \/ /\ Control!Go(a, "enter") \/ Control!Go(a, "resume")
           /\ call[a].next \in Control!Threads
           /\ Control!Go(a, "resume") =>
                  call[a].op = "resumeAll" /\ suspendLevel[call[a].next] > 0 /\ suspendLevel' = suspendLevel
        \/ /\ Control!NextThread(a) /\ call[a].next \in Nat
           /\ a = Main /\ call[a].op = "suspendAll" =>
                  \/ status[call[a].next] = "DORMANT"
                  \/ suspendLevel[call[a].next] > 0 /\ ~Control!Addressed(call[a].next)
    <2>1. CASE Control!Visit(a)
      <3>1. \/ Control!NextThread(a) /\ (status[call[a].next] = "DORMANT" \/ call[a].next = a)
            \/ Control!Throw(a)
            \/ Control!Go(a, "enter")
        BY <2>1 DEF Control!Visit
      <3>2. a = Main => call[a].next # a
        BY <1>3, ControlFacts
      <3>3. Control!Go(a, "enter") => ~Control!Go(a, "resume")
        <4>1. ASSUME Control!Go(a, "enter"), Control!Go(a, "resume") PROVE FALSE
          <5>1. call'[a].phase = "enter" /\ call'[a].phase = "resume"
            BY <1>1, <4>1, MovesAre DEF Visits
          <5> QED BY <5>1
        <4> QED BY <4>1
      <3> QED BY <1>3, <3>1, <3>2, <3>3 DEF Control!Throw
    <2>2. CASE Control!ResumeTests(a)
      <3>1. suspendLevel[call[a].next] \in Nat
        BY <1>1, <1>3 DEF ControlType
      <3>2. call[a].op = "resumeAll"
        BY <2>2 DEF Control!ResumeTests, Control!At
      <3>3. \/ Control!Throw(a)
            \/ Control!Go(a, "resume") /\ suspendLevel[call[a].next] # 0
        BY <2>2 DEF Control!ResumeTests
      <3> QED BY <1>2, <1>3, <3>1, <3>2, <3>3 DEF Control!Throw
    <2> QED BY <2>1, <2>2
  <1> QED BY <1>2, <1>3, <1>4, <1>5, LoopGoesOn

(* The loops over the threads begin and end.                                      *)
LEMMA LoopEnds ==
  ASSUME Assumptions, ControlInv, Control!Orderly, NEW a \in Control!Agents, Control!AllVisited(a)
  PROVE  ControlInv'
  <1>1. ControlType /\ AgentOk(a)
    BY DEF ControlInv
  <1>2. /\ Control!Executes(a) /\ call[a].op \in {"suspendAll", "resumeAll"} /\ call[a].next > N
        /\ call' = [call EXCEPT ![a] = Control!Idle] /\ processStatus' \in {"STOPPED", "RUNNING"}
        /\ UNCHANGED <<calls, code, signals, suspendPending, scopePending, semaphore, status, lockLevel>>
    BY DEF Control!AllVisited
  <1>3. UNCHANGED <<suspendLevel, frames>>
    <2>1. CASE call[a].op = "suspendAll" /\ a # Main
      <3>1. lockLevel > 0
        BY <1>1, <2>1 DEF AgentOk
      <3> QED BY <2>1, <3>1 DEF Control!AllVisited, Control!SuspendedSelf
    <2>2. CASE ~(call[a].op = "suspendAll" /\ a # Main)
      BY <2>2 DEF Control!AllVisited
    <2> QED BY <2>1, <2>2
  <1>4. ~Speaks(a)
    <2>1. call[a].next \notin Control!Threads
      BY <1>1, <1>2, ControlFacts DEF ControlType, CallRecord
    <2> QED BY <1>1, <2>1 DEF AgentOk, Speaks, Visits
  <1>5. /\ suspendLevel' \in [Control!Threads -> Nat]
        /\ \A t \in Control!Threads : suspendLevel'[t] = 0 <=> suspendLevel[t] = 0
    BY <1>1, <1>3 DEF ControlType
  <1> QED BY <1>2, <1>3, <1>4, <1>5, LoopGoesOn

LEMMA LoopBegins ==
  ASSUME Assumptions, ControlInv, Control!Orderly,
         \/ Control!StopProcess \/ Control!RunProcess
         \/ \E t \in Control!Threads : Control!LockThreadPreemption(t)
  PROVE  ControlInv'
  <1>1. ControlType /\ \A a \in Control!Agents : AgentOk(a)
    BY DEF ControlInv
  <1>2. PICK a \in Control!Agents, op \in {"suspendAll", "resumeAll"} :
          /\ Control!Executes(a) /\ call[a] = Control!Idle /\ call' = [call EXCEPT ![a] = Control!Visiting(op)]
          /\ UNCHANGED <<calls, code, frames, signals, suspendPending, scopePending, semaphore, status,
                         processStatus, suspendLevel>>
          /\ a = Main => processStatus # "INITIALIZED" /\ lockLevel' = lockLevel
          /\ a # Main => op = "suspendAll" /\ lockLevel' = lockLevel + 1
    <2>1. CASE Control!StopProcess
      BY <2>1, ControlFacts DEF Control!StopProcess, Control!Free, Control!threadVars
    <2>2. CASE Control!RunProcess
      BY <2>2, ControlFacts DEF Control!RunProcess, Control!Free, Control!threadVars
    <2>3. ASSUME NEW t \in Control!Threads, Control!LockThreadPreemption(t)
          PROVE  /\ t \in Control!Agents /\ t # Main
                 /\ Control!Executes(t) /\ call[t] = Control!Idle
                 /\ call' = [call EXCEPT ![t] = Control!Visiting("suspendAll")] /\ lockLevel' = lockLevel + 1
                 /\ UNCHANGED <<calls, code, frames, signals, suspendPending, scopePending, semaphore, status,
                                processStatus, suspendLevel>>
      BY <2>3, ControlFacts DEF Control!LockThreadPreemption, Control!Free, Control!threadVars
    <2> QED BY <2>1, <2>2, <2>3
  <1>3. /\ call' \in [Control!Agents -> CallRecord]
        /\ \A b \in Control!Agents : b # a => call'[b] = call[b]
        /\ call'[a] = Control!Visiting(op)
    BY <1>1, <1>2, MovesAre
  <1>4. ~Speaks(a) /\ ~Speaks(a)' /\ call'[a].op = op /\ call'[a].next = 1 /\ call'[a].phase = "visit"
        /\ call[a].op = "none"
    BY <1>2, <1>3 DEF Control!Idle, Control!Visiting, Speaks
  <1>5. processStatus # "INITIALIZED"
    <2>1. CASE a = Main
      BY <1>2, <2>1
    <2>2. CASE a # Main
      BY <1>2, <2>2, ProcessRuns
    <2> QED BY <2>1, <2>2
  <1>6. NotYetRun'
    BY <1>2, <1>5 DEF NotYetRun
  <1>7. lockLevel' \in Nat /\ lockLevel' >= lockLevel /\ (a # Main => lockLevel' > 0)
    <2>1. lockLevel \in Nat
      BY <1>1 DEF ControlType
    <2> QED BY <1>2, <2>1
  <1>8. AgentOk(a)'
    BY <1>2, <1>4, <1>7 DEF AgentOk, Visits
  <1>9. /\ suspendLevel' \in [Control!Threads -> Nat]
        /\ \A t \in Control!Threads : suspendLevel'[t] = 0 <=> suspendLevel[t] = 0
        /\ processStatus' \in {"INITIALIZED", "RUNNING", "STOPPED"}
    BY <1>1, <1>2 DEF ControlType
  <1>10. a = Main /\ Calm /\ call'[Main].op = "suspendAll" =>
            \A t \in Control!Threads :
                t < call'[Main].next => code[t] = "none" \/ (suspendLevel[t] > 0 /\ ~Control!Addressed(t))
    BY <1>4, ControlFacts
  <1>11. call'[a].op # "start" /\ (call[Main].op # "start" \/ a # Main)
    BY <1>4
  <1> QED BY <1>2, <1>3, <1>4, <1>6, <1>7, <1>8, <1>9, <1>10, <1>11, CallStep

(* Thread::start() and stop() return.                                             *)
LEMMA ReturnKeepsControl ==
  ASSUME Assumptions, ControlInv, Control!Orderly, NEW a \in Control!Agents,
         Control!StartReturns(a) \/ Control!StopReturns(a)
  PROVE  ControlInv'
  <1>1. /\ ControlType /\ NotYetRun /\ NoneEnds /\ StoppedSoFar
        /\ \A b \in Control!Agents : AgentOk(b)
        /\ \A u \in Control!Threads : EndedOk(u) /\ Suspended(u)
    BY DEF ControlInv
  <1> DEFINE t == call[a].next
  <1>2. /\ Control!Executes(a) /\ call[a].op \in {"start", "stop"} /\ call' = [call EXCEPT ![a] = Control!Idle]
        /\ status' = [status EXCEPT ![t] = IF call[a].op = "start" THEN "RUNNING" ELSE "DORMANT"]
        /\ call[a].op = "stop" => code[t] = "none"
        /\ UNCHANGED <<calls, processStatus, lockLevel, semaphore, suspendLevel, suspendPending, code, scopePending,
                       frames, signals>>
    BY DEF Control!StartReturns, Control!StopReturns
  <1>3. /\ call' \in [Control!Agents -> CallRecord]
        /\ \A b \in Control!Agents : b # a => call'[b] = call[b]
        /\ call'[a] = Control!Idle /\ call'[a].op = "none" /\ call'[a].phase = "none"
    BY <1>1, <1>2, MovesAre DEF Control!Idle
  <1>4. ~Speaks(a) /\ ~Speaks(a)'
    BY <1>1, <1>2, <1>3 DEF AgentOk, Speaks, Visits
  <1>5. ControlType'
    BY <1>1, <1>2, <1>3 DEF ControlType
  <1>6. NotYetRun'
    <2>1. call[a] # Control!Idle
      BY <1>2 DEF Control!Idle
    <2>2. processStatus # "INITIALIZED"
      BY <1>2, <2>1, ProcessRuns
    <2> QED BY <1>2, <2>2 DEF NotYetRun
  <1>7. \A u \in Control!Threads : EndedOk(u)' /\ Suspended(u)'
    <2>1. /\ suspendLevel' \in [Control!Threads -> Nat]
          /\ \A u \in Control!Threads : suspendLevel'[u] = 0 <=> suspendLevel[u] = 0
      BY <1>1, <1>2 DEF ControlType
    <2> QED BY <1>1, <1>2, <1>3, <1>4, <2>1, QuietStep
  <1>8. \A b \in Control!Agents : AgentOk(b)'
    <2>1. AgentOk(a)'
      BY <1>1, <1>3, <1>4 DEF AgentOk, Visits
    <2>2. ASSUME NEW b \in Control!Agents, b # a PROVE AgentOk(b)'
      BY <1>1, <1>2, <1>3, <2>2, AgentStays
    <2> QED BY <2>1, <2>2
  <1>9. \A u \in Control!Threads : u # t => status'[u] = status[u]
    BY <1>1, <1>2 DEF ControlType
  <1>10. t \in Control!Threads => status'[t] = IF call[a].op = "start" THEN "RUNNING" ELSE "DORMANT"
    BY <1>1, <1>2 DEF ControlType
  <1>11. NoneEnds'
    <2> SUFFICES ASSUME "start" \in calls, "exit" \notin calls PROVE NoneEnds'
      BY <1>2 DEF NoneEnds
    <2>1. ASSUME NEW u \in Control!Threads, code[u] = "none" PROVE suspendLevel[u] = 0 /\ status'[u] = "DORMANT"
      <3>1. suspendLevel[u] = 0 /\ status[u] = "DORMANT"
        BY <1>1, <2>1 DEF NoneEnds
      <3>2. call[a].op = "start" => u # t
        BY <1>1, <2>1 DEF NoneEnds
      <3> QED BY <1>2, <1>9, <1>10, <2>1, <3>1, <3>2
    <2>2. ASSUME NEW b \in Control!Agents, call'[b].op = "start" PROVE code[call'[b].next] # "none"
      <3>1. call'[b] = call[b]
        BY <1>3, <2>2
      <3> QED BY <1>1, <2>2, <3>1 DEF NoneEnds
    <2> QED BY <1>2, <2>1, <2>2 DEF NoneEnds, Control!Agents, Control!Threads
  <1>12. StoppedSoFar'
    <2> SUFFICES ASSUME Calm PROVE StoppedSoFar'
      BY <1>2 DEF StoppedSoFar, Calm
    <2>1. ASSUME NEW u \in Control!Threads, status'[u] = "DORMANT", code[u] # "none"
          PROVE  call'[Main].op = "start" /\ call'[Main].next = u
      <3>1. u # t
        BY <1>2, <1>10, <2>1
      <3>2. call[Main].op = "start" /\ call[Main].next = u
        BY <1>1, <1>9, <2>1, <3>1 DEF StoppedSoFar
      <3>3. a # Main
        BY <3>1, <3>2
      <3> QED BY <1>3, <3>2, <3>3, ControlFacts
    <2>2. ASSUME call'[Main].op = "suspendAll", NEW u \in Control!Threads, u < call'[Main].next
          PROVE  code[u] = "none" \/ (suspendLevel[u] > 0 /\ ~Control!Addressed(u)')
      <3>1. Control!Addressed(u)' <=> Control!Addressed(u)
        BY <1>3, <1>4, QuietCalls
      <3>2. a # Main /\ call'[Main] = call[Main]
        BY <1>3, <2>2, ControlFacts
      <3>3. code[u] = "none" \/ (suspendLevel[u] > 0 /\ ~Control!Addressed(u))
        BY <1>1, <2>2, <3>2 DEF StoppedSoFar
      <3> QED BY <3>1, <3>3
    <2> QED BY <1>2, <2>1, <2>2 DEF StoppedSoFar, Control!Threads
  <1> QED BY <1>5, <1>6, <1>7, <1>8, <1>11, <1>12 DEF ControlInv

(* A thread begins.                                                               *)
LEMMA StartKeepsControl ==
  ASSUME Assumptions, ControlInv, Control!Orderly, NEW a \in Control!Agents, NEW t \in Control!Threads,
         Control!Start(a, t)
  PROVE  ControlInv'
  <1>1. /\ ControlType /\ NotYetRun /\ NoneEnds /\ StoppedSoFar
        /\ \A b \in Control!Agents : AgentOk(b)
        /\ \A u \in Control!Threads : EndedOk(u) /\ Suspended(u)
    BY DEF ControlInv
  <1>2. PICK c \in CallRecord :
        /\ c.op = "start" /\ c.next = t /\ c.phase = "mark"
        /\ call' = [call EXCEPT ![a] = c]
    <2>1. t \in Nat
      BY ControlFacts
    <2>2. [op |-> "start", next |-> t, phase |-> "mark"] \in CallRecord
      BY <2>1 DEF CallRecord
    <2> QED BY <2>2 DEF Control!Start
  <1>3. /\ Control!Executes(a) /\ call[a] = Control!Idle /\ code[t] = "none"
        /\ code' = [code EXCEPT ![t] = "starting"]
        /\ \/ a = Main /\ processStatus = "INITIALIZED" /\ processStatus' = "RUNNING"
           \/ a # Main /\ "start" \in calls /\ processStatus' = processStatus
        /\ UNCHANGED <<calls, lockLevel, semaphore, status, suspendLevel, suspendPending, scopePending, frames, signals>>
    <2>1. Main \notin Control!Threads /\ (a # Main => a \in Control!Threads)
      BY ControlFacts
    <2> QED BY <2>1 DEF Control!Start, Control!Free
  <1>4. /\ call' \in [Control!Agents -> CallRecord]
        /\ \A b \in Control!Agents : b # a => call'[b] = call[b]
        /\ call'[a].op = "start" /\ call'[a].next = t /\ call'[a].phase = "mark"
    BY <1>1, <1>2, MovesAre
  <1>5. ~Speaks(a) /\ ~Speaks(a)'
    BY <1>3, <1>4 DEF Control!Idle, Speaks
  <1>6. code'[t] = "starting" /\ \A u \in Control!Threads : u # t => code'[u] = code[u]
    BY <1>1, <1>3 DEF ControlType
  <1>7. ControlType'
    <2>1. code' \in [Control!Threads -> {"none", "starting", "app", "locked", "scope"}]
      BY <1>1, <1>3 DEF ControlType
    <2> QED BY <1>1, <1>3, <1>4, <2>1 DEF ControlType
  <1>8. processStatus' # "INITIALIZED"
    BY <1>3, ProcessRuns
  <1>9. \A u : /\ (Interrupted(u)' <=> Interrupted(u)) /\ (Control!Addressed(u)' <=> Control!Addressed(u))
               /\ (Wakes(u)' <=> Wakes(u)) /\ (Raises(u)' <=> Raises(u))
    BY <1>4, <1>5, QuietCalls
  <1>10. frames[t] = <<>> /\ signals[t] = {}
    BY <1>1, <1>3 DEF EndedOk
  <1>11. EndedOk(t)' /\ Suspended(t)'
    <2>1. EndedOk(t)'
      BY <1>1, <1>3, <1>6, <1>9, <1>10 DEF EndedOk
    <2>2. CASE a = Main /\ processStatus = "INITIALIZED"
      <3>1. suspendLevel[t] = 0 /\ call[Main] = Control!Idle
        BY <1>1, <2>2 DEF NotYetRun
      <3>2. Level(t)' = 0 /\ Woken(t)' = 0 /\ ToCome(t)' = 0 /\ Waits(t)' = 0 /\ Unanswered(t)' \in {0, 1}
        <4>1. Level(t)' = 0
          BY <1>3, <3>1 DEF Level
        <4>2. Woken(t)' = 0 /\ Unanswered(t)' \in {0, 1} /\ Len(frames[t])' = 0
          <5>1. Woken(t) = 0 /\ Len(frames[t]) = 0
            BY <1>1, <1>10, NumbersAre
          <5>2. Woken(t)' = Woken(t)
            BY <1>3 DEF Woken, WokenIn
          <5> QED BY <1>3, <5>1, <5>2 DEF Unanswered
        <4>3. ToCome(t)' = 0
          <5>1. ~Raises(t)' /\ "RESUME" \notin signals'[t]
            BY <1>3, <1>5, <1>10, <2>2 DEF Raises, Wakes
          <5> QED BY <5>1 DEF ToCome
        <4> QED BY <4>1, <4>2, <4>3 DEF Waits
      <3>3. WaitsEnough(t)'
        BY <3>2 DEF WaitsEnough
      <3>4. UnbornOk(t)'
        BY <1>3, <3>1 DEF UnbornOk
      <3> QED BY <2>1, <3>3, <3>4 DEF Suspended
    <2>3. CASE a # Main /\ "start" \in calls
      <3>1. ~Doomed(t) /\ (Unborn(t)' <=> Unborn(t)) /\ (Restart' <=> Restart)
        BY <1>3, <1>6, <1>10, <2>3 DEF Doomed, Unborn, Restart
      <3>2. UnbornOk(t)'
        BY <1>1, <1>3, <1>9, <3>1 DEF Suspended, UnbornOk
      <3>3. Missed(t) => Missed(t)'
        BY <1>3, <1>6, <1>9, <3>1 DEF Missed
      <3>4. WaitsEnough(t) => WaitsEnough(t)'
        <4>1. Level(t)' = Level(t) /\ ToCome(t)' = ToCome(t)
          BY <1>3, <1>9 DEF Level, ToCome
        <4>2. Woken(t)' = Woken(t) /\ Unanswered(t)' = Unanswered(t)
          BY <1>3, <1>9 DEF Woken, WokenIn, Unanswered
        <4>3. Waits(t)' = Waits(t)
          BY <1>3, <3>1, <4>1 DEF Waits
        <4> QED BY <4>1, <4>2, <4>3 DEF WaitsEnough
      <3> QED BY <1>1, <2>1, <3>1, <3>2, <3>3, <3>4 DEF Suspended
    <2> QED BY <1>3, <2>1, <2>2, <2>3
  <1>12. ASSUME NEW u \in Control!Threads PROVE EndedOk(u)' /\ Suspended(u)'
    <2>1. CASE u # t
      <3>1. suspendLevel[u] \in Nat
        BY <1>1 DEF ControlType
      <3>2. /\ calls' = calls /\ code'[u] = code[u] /\ frames'[u] = frames[u] /\ signals'[u] = signals[u]
            /\ suspendLevel'[u] = suspendLevel[u] /\ suspendPending'[u] = suspendPending[u]
            /\ scopePending'[u] = scopePending[u]
        BY <1>3, <1>6, <2>1
      <3>3. EndedOk(u) /\ Suspended(u)
        BY <1>1
      <3> QED BY <1>9, <3>1, <3>2, <3>3, SuspendedStays
    <2> QED BY <1>11, <2>1
  <1>13. \A b \in Control!Agents : AgentOk(b)'
    <2>1. AgentOk(a)'
      BY <1>4, <1>5 DEF AgentOk, Visits
    <2>2. ASSUME NEW b \in Control!Agents, b # a PROVE AgentOk(b)'
      BY <1>1, <1>3, <1>4, <2>2, AgentStays
    <2> QED BY <2>1, <2>2
  <1>14. NoneEnds'
    <2>1. ASSUME NEW b \in Control!Agents, call'[b].op = "start", "start" \in calls, "exit" \notin calls
          PROVE  code'[call'[b].next] # "none"
      <3>1. CASE b = a
        BY <1>4, <1>6, <3>1
      <3>2. CASE b # a
        <4>1. call[b].next \in Control!Threads /\ code[call[b].next] # "none"
          BY <1>1, <1>4, <2>1, <3>2 DEF AgentOk, NoneEnds
        <4> QED BY <1>4, <1>6, <3>2, <4>1
      <3> QED BY <3>1, <3>2
    <2> QED BY <1>1, <1>3, <1>6, <2>1 DEF NoneEnds, Control!Agents, Control!Threads
  <1>15. StoppedSoFar'
    <2> SUFFICES ASSUME Calm PROVE StoppedSoFar'
      BY <1>3 DEF StoppedSoFar, Calm
    <2>1. a = Main /\ \A u \in Control!Threads : code[u] = "none"
      BY <1>1, <1>3 DEF Calm, NotYetRun
    <2> QED BY <1>4, <1>6, <2>1 DEF StoppedSoFar, Control!Threads
  <1>16. NotYetRun'
    BY <1>8 DEF NotYetRun
  <1> QED BY <1>7, <1>12, <1>13, <1>14, <1>15, <1>16 DEF ControlInv

(* A thread is stopped by another.                                                *)
LEMMA DoomKeepsControl ==
  ASSUME Assumptions, ControlInv, Control!Orderly, "stop" \in calls, processStatus # "INITIALIZED",
         NEW a \in Control!Threads, NEW t \in Control!Threads, NEW c \in CallRecord,
         c.op \in {"none", "stop"}, c.phase \in {"none", "join"}, ~Speaks(a), call' = [call EXCEPT ![a] = c],
         UNCHANGED <<calls, processStatus, lockLevel, semaphore, status, suspendLevel, suspendPending, scopePending>>,
         \A u \in Control!Threads \ {t} : code'[u] = code[u] /\ frames'[u] = frames[u] /\ signals'[u] = signals[u],
         ControlType', EndedOk(t)', Doomed(t)'
  PROVE  ControlInv'
  <1>1. /\ ControlType /\ NotYetRun /\ NoneEnds /\ StoppedSoFar
        /\ \A b \in Control!Agents : AgentOk(b)
        /\ \A u \in Control!Threads : EndedOk(u) /\ Suspended(u)
    BY DEF ControlInv
  <1>2. a \in Control!Agents /\ a # Main
    BY ControlFacts
  <1>3. /\ \A b \in Control!Agents : b # a => call'[b] = call[b]
        /\ call'[a] = c
    BY <1>1, <1>2, MovesAre
  <1>4. ~Speaks(a)'
    BY <1>3 DEF Speaks
  <1>5. \A u : /\ (Interrupted(u)' <=> Interrupted(u)) /\ (Control!Addressed(u)' <=> Control!Addressed(u))
               /\ (Wakes(u)' <=> Wakes(u)) /\ (Raises(u)' <=> Raises(u))
    BY <1>2, <1>3, <1>4, QuietCalls
  <1>6. ASSUME NEW u \in Control!Threads PROVE EndedOk(u)' /\ Suspended(u)'
    <2>1. CASE u # t
      <3>1. suspendLevel[u] \in Nat
        BY <1>1 DEF ControlType
      <3> QED BY <1>1, <1>5, <2>1, <3>1, SuspendedStays
    <2> QED BY <2>1 DEF Suspended
  <1>7. \A b \in Control!Agents : AgentOk(b)'
    <2>1. AgentOk(a)'
      BY <1>3, <1>4 DEF AgentOk, Visits
    <2>2. ASSUME NEW b \in Control!Agents, b # a PROVE AgentOk(b)'
      BY <1>1, <1>3, <2>2, AgentStays
    <2> QED BY <2>1, <2>2
  <1>8. NotYetRun' /\ NoneEnds' /\ StoppedSoFar'
    BY DEF NotYetRun, NoneEnds, StoppedSoFar, Calm, Control!Orderly
  <1> QED BY <1>6, <1>7, <1>8 DEF ControlInv

LEMMA StopKeepsControl ==
  ASSUME Assumptions, ControlInv, Control!Orderly, NEW t \in Control!Threads,
         Control!Cancelled(t) \/ \E a \in Control!Agents : Control!Stop(a, t)
  PROVE  ControlInv'
  <1>1. ControlType /\ NotYetRun /\ EndedOk(t)
    BY DEF ControlInv
  <1>2. CASE Control!Cancelled(t)
    <2>1. /\ "CANCEL" \in signals[t] /\ code[t] # "none" /\ semaphore # t
          /\ code' = [code EXCEPT ![t] = "none"] /\ frames' = [frames EXCEPT ![t] = <<>>]
          /\ signals' = [signals EXCEPT ![t] = {}] /\ call' = [call EXCEPT ![t] = Control!Idle]
          /\ UNCHANGED <<calls, processStatus, lockLevel, semaphore, status, suspendLevel, suspendPending, scopePending>>
      BY <1>2 DEF Control!Cancelled
    <2>2. /\ code'[t] = "none" /\ frames'[t] = <<>> /\ signals'[t] = {}
          /\ \A u \in Control!Threads \ {t} : code'[u] = code[u] /\ frames'[u] = frames[u] /\ signals'[u] = signals[u]
      BY <1>1, <2>1 DEF ControlType
    <2>3. "stop" \in calls /\ "start" \notin calls /\ processStatus # "INITIALIZED"
      BY <1>1, <2>1 DEF EndedOk, NotYetRun, Control!Orderly
    <2>4. t \in Control!Agents /\ t # Main /\ Control!Idle \in CallRecord
          /\ Control!Idle.op \in {"none", "stop"} /\ Control!Idle.phase \in {"none", "join"}
      BY <1>1, ControlFacts, MovesAre DEF Control!Idle
    <2>5. ~Speaks(t)
      BY <2>1, <2>4 DEF ControlInv, AgentOk
    <2>6. /\ call' \in [Control!Agents -> CallRecord]
          /\ \A b \in Control!Agents : b # t => call'[b] = call[b]
          /\ call'[t] = Control!Idle
      BY <1>1, <2>1, <2>4, MovesAre
    <2>7. ControlType'
      <3>1. code' \in [Control!Threads -> {"none", "starting", "app", "locked", "scope"}]
        BY <1>1, <2>1 DEF ControlType
      <3>2. signals' \in [Control!Threads -> SUBSET {"SUSPEND", "RESUME", "CANCEL"}]
        BY <1>1, <2>1 DEF ControlType
      <3>3. frames' \in [Control!Threads -> Seq(Where)]
        <4>1. frames \in [Control!Threads -> Seq(Where)] /\ <<>> \in Seq(Where)
          BY <1>1 DEF ControlType
        <4> QED BY <2>1, <4>1
      <3> QED BY <1>1, <2>1, <2>6, <3>1, <3>2, <3>3 DEF ControlType
    <2>8. Main \in Control!Agents /\ call'[Main] = call[Main]
      BY <2>4, <2>6, ControlFacts
    <2>9. EndedOk(t)'
      BY <1>1, <2>1, <2>2, <2>8 DEF EndedOk, Wakes, Speaks
    <2>10. Doomed(t)'
      BY <2>1, <2>2, <2>3 DEF Doomed
    <2> QED BY <2>1, <2>2, <2>3, <2>4, <2>5, <2>7, <2>9, <2>10, DoomKeepsControl
  <1>3. ASSUME NEW a \in Control!Agents, Control!Stop(a, t) PROVE ControlInv'
    <2>1. /\ a \in Control!Threads /\ "stop" \in calls /\ Control!Executes(a) /\ call[a] = Control!Idle
          /\ code[t] # "none" /\ signals' = [signals EXCEPT ![t] = @ \cup {"RESUME", "CANCEL"}]
          /\ call' = [call EXCEPT ![a] = [op |-> "stop", next |-> t, phase |-> "join"]]
          /\ UNCHANGED <<calls, processStatus, lockLevel, semaphore, status, suspendLevel, suspendPending, scopePending,
                         code, frames>>
      <3>1. a # Main => a \in Control!Threads
        BY ControlFacts
      <3> QED BY <1>3, <3>1 DEF Control!Stop, Control!Free
    <2>2. PICK c \in CallRecord : c.op = "stop" /\ c.phase = "join" /\ call' = [call EXCEPT ![a] = c]
      <3>1. t \in Nat
        BY ControlFacts
      <3>2. [op |-> "stop", next |-> t, phase |-> "join"] \in CallRecord
        BY <3>1 DEF CallRecord
      <3> QED BY <2>1, <3>2
    <2>3. "CANCEL" \in signals'[t] /\ \A u \in Control!Threads \ {t} : signals'[u] = signals[u]
      BY <1>1, <2>1 DEF ControlType
    <2>4. a # Main /\ Main \in Control!Agents
      BY <2>1, ControlFacts
    <2>5. processStatus # "INITIALIZED"
      BY <2>1, <2>4, ProcessRuns
    <2>6. ~Speaks(a)
      BY <2>1 DEF Speaks, Control!Idle
    <2>7. /\ call' \in [Control!Agents -> CallRecord]
          /\ \A b \in Control!Agents : b # a => call'[b] = call[b]
      BY <1>1, <2>2, MovesAre
    <2>8. ControlType'
      <3>1. signals' \in [Control!Threads -> SUBSET {"SUSPEND", "RESUME", "CANCEL"}]
        <4>1. signals \in [Control!Threads -> SUBSET {"SUSPEND", "RESUME", "CANCEL"}]
          BY <1>1 DEF ControlType
        <4>2. signals[t] \cup {"RESUME", "CANCEL"} \in SUBSET {"SUSPEND", "RESUME", "CANCEL"}
          BY <4>1
        <4> QED BY <2>1, <4>1, <4>2
      <3> QED BY <1>1, <2>1, <2>7, <3>1 DEF ControlType
    <2>9. call'[Main] = call[Main]
      BY <2>4, <2>7
    <2>10. EndedOk(t)'
      BY <1>1, <2>1, <2>9 DEF EndedOk, Wakes, Speaks
    <2>11. Doomed(t)'
      BY <2>3 DEF Doomed
    <2>12. c.op \in {"none", "stop"} /\ c.phase \in {"none", "join"}
      BY <2>2
    <2>13. \A u \in Control!Threads \ {t} : code'[u] = code[u] /\ frames'[u] = frames[u] /\ signals'[u] = signals[u]
      BY <2>1, <2>3
    <2> QED BY <2>1, <2>2, <2>5, <2>6, <2>8, <2>10, <2>11, <2>12, <2>13, DoomKeepsControl
  <1> QED BY <1>2, <1>3

(* An agent begins a handshake with a thread, or goes on with it.                 *)
LEMMA OthersAreNotAddressed ==
  ASSUME Assumptions, NEW a \in Control!Agents, \A b \in Control!Agents : b # a => call'[b] = call[b],
         call'[a].next = call[a].next \/ ~Speaks(a)', NEW u \in Control!Threads, u # call[a].next
  PROVE  /\ (Interrupted(u)' <=> Interrupted(u)) /\ (Control!Addressed(u)' <=> Control!Addressed(u))
         /\ (Wakes(u)' <=> Wakes(u)) /\ (Raises(u)' <=> Raises(u))
  <1>1. Main \in Control!Agents
    BY ControlFacts
  <1>2. \A b \in Control!Agents : (Speaks(b) /\ call[b].next = u <=> Speaks(b)' /\ call'[b].next = u)
                                  /\ (call'[b] = call[b] \/ ~(Speaks(b) /\ call[b].next = u))
    BY DEF Speaks
  <1>3. Interrupted(u)' <=> Interrupted(u)
    BY <1>2 DEF Interrupted, Interrupts, Control!Agents, Control!Threads
  <1>4. Control!Addressed(u)' <=> Control!Addressed(u)
    BY <1>2 DEF Control!Addressed, Speaks, Control!Agents, Control!Threads
  <1>5. Wakes(u)' <=> Wakes(u)
    BY <1>1, <1>2 DEF Wakes
  <1>6. Raises(u)' <=> Raises(u)
    BY <1>1, <1>2, <1>5 DEF Raises, Wakes
  <1> QED BY <1>3, <1>4, <1>5, <1>6

LEMMA HandshakeStep ==
  ASSUME Assumptions, ControlInv, Control!Orderly, NEW a \in Control!Agents, Control!Executes(a),
         semaphore \in {None, a}, NEW t \in Control!Threads, call[a].next = t,
         call[a].op \in {"suspendAll", "resumeAll"}, call'[a].op \in {call[a].op, "none"},
         \A b \in Control!Agents : b # a => call'[b] = call[b], call'[a].next = t \/ ~Speaks(a)',
         UNCHANGED <<calls, processStatus, lockLevel, status, code, frames, scopePending>>,
         \A u \in Control!Threads \ {t} :
            signals'[u] = signals[u] /\ suspendLevel'[u] = suspendLevel[u] /\ suspendPending'[u] = suspendPending[u],
         suspendLevel[t] = 0 /\ suspendLevel'[t] > 0 => status[t] # "DORMANT",
         a # Main /\ suspendLevel[t] > 0 =>
            suspendLevel'[t] > 0 /\ (~Control!Addressed(t) => ~Control!Addressed(t)'),
         a = Main /\ call'[Main].op = "suspendAll" =>
            \/ call'[Main].next = t
            \/ call'[Main].next = t + 1 /\ suspendLevel'[t] > 0 /\ ~Control!Addressed(t)',
         ControlType', AgentOk(a)', EndedOk(t)', Suspended(t)'
  PROVE  ControlInv'
  <1>1. /\ ControlType /\ NotYetRun /\ NoneEnds /\ StoppedSoFar
        /\ \A b \in Control!Agents : AgentOk(b)
        /\ \A u \in Control!Threads : EndedOk(u) /\ Suspended(u)
    BY DEF ControlInv
  <1>2. \A u \in Control!Threads \ {t} :
          /\ (Interrupted(u)' <=> Interrupted(u)) /\ (Control!Addressed(u)' <=> Control!Addressed(u))
          /\ (Wakes(u)' <=> Wakes(u)) /\ (Raises(u)' <=> Raises(u))
    BY OthersAreNotAddressed
  <1>3. ASSUME NEW u \in Control!Threads PROVE EndedOk(u)' /\ Suspended(u)'
    <2>1. CASE u # t
      <3>1. suspendLevel[u] \in Nat /\ suspendLevel'[u] = suspendLevel[u]
        BY <1>1, <2>1 DEF ControlType
      <3>2. /\ (Interrupted(u)' <=> Interrupted(u)) /\ (Control!Addressed(u)' <=> Control!Addressed(u))
            /\ (Wakes(u)' <=> Wakes(u)) /\ (Raises(u)' <=> Raises(u))
        BY <1>2, <2>1
      <3>3. signals'[u] = signals[u] /\ suspendPending'[u] = suspendPending[u]
        BY <2>1
      <3> QED BY <1>1, <3>1, <3>2, <3>3, SuspendedStays
    <2> QED BY <2>1
  <1>4. processStatus # "INITIALIZED"
    <2>1. call[a] # Control!Idle
      BY DEF Control!Idle
    <2> QED BY <2>1, ProcessRuns
  <1>5. ASSUME NEW b \in Control!Agents PROVE AgentOk(b)'
    <2> SUFFICES ASSUME b # a PROVE AgentOk(b)'
      OBVIOUS
    <2>1. ~Speaks(b)
      BY <1>1, ControlFacts DEF AgentOk
    <2>2. ASSUME call[b].phase = "resume"
          PROVE  suspendLevel[call[b].next] > 0 => suspendLevel'[call[b].next] > 0
      <3>1. call[b].op = "resumeAll" /\ call[b].next \in Control!Threads
        BY <1>1, <2>2 DEF AgentOk, Visits
      <3>2. a # Main
        BY <1>1, <3>1 DEF AgentOk
      <3> QED BY <3>1, <3>2
    <2> QED BY <1>1, <2>1, <2>2, AgentStays
  <1>6. NotYetRun'
    BY <1>4 DEF NotYetRun
  <1>7. NoneEnds'
    <2> SUFFICES ASSUME "start" \in calls, "exit" \notin calls PROVE NoneEnds'
      BY DEF NoneEnds
    <2>1. ASSUME NEW u \in Control!Threads, code[u] = "none" PROVE suspendLevel'[u] = 0 /\ status[u] = "DORMANT"
      <3>1. suspendLevel[u] = 0 /\ status[u] = "DORMANT"
        BY <1>1, <2>1 DEF NoneEnds
      <3>2. suspendLevel'[u] \in Nat
        BY DEF ControlType
      <3> QED BY <3>1, <3>2
    <2>2. ASSUME NEW b \in Control!Agents, call'[b].op = "start" PROVE code[call'[b].next] # "none"
      <3>1. call'[b] = call[b]
        BY <2>2
      <3> QED BY <1>1, <2>2, <3>1 DEF NoneEnds
    <2> QED BY <2>1, <2>2 DEF NoneEnds, Control!Agents, Control!Threads
  <1>8. StoppedSoFar'
    <2> SUFFICES ASSUME Calm PROVE StoppedSoFar'
      BY DEF StoppedSoFar, Calm
    <2>1. Main \in Control!Agents
      BY ControlFacts
    <2>2. ASSUME NEW u \in Control!Threads, status[u] = "DORMANT", code[u] # "none"
          PROVE  call'[Main].op = "start" /\ call'[Main].next = u
      <3>1. call[Main].op = "start" /\ call[Main].next = u
        BY <1>1, <2>2 DEF StoppedSoFar
      <3> QED BY <2>1, <3>1
    <2>3. ASSUME call'[Main].op = "suspendAll", NEW u \in Control!Threads, u < call'[Main].next
          PROVE  code[u] = "none" \/ (suspendLevel'[u] > 0 /\ ~Control!Addressed(u)')
      <3>1. CASE a # Main
        <4>1. code[u] = "none" \/ (suspendLevel[u] > 0 /\ ~Control!Addressed(u))
          BY <1>1, <2>1, <2>3, <3>1 DEF StoppedSoFar
        <4> QED BY <1>2, <3>1, <4>1
      <3>2. CASE a = Main /\ u = t
        <4>1. u \in Nat
          BY ControlFacts
        <4> QED BY <2>3, <3>2, <4>1
      <3>3. CASE a = Main /\ u # t
        <4>1. u \in Nat /\ t \in Nat
          BY ControlFacts
        <4>2. u < t /\ call[Main].op = "suspendAll"
          BY <2>3, <3>3, <4>1
        <4>3. code[u] = "none" \/ (suspendLevel[u] > 0 /\ ~Control!Addressed(u))
          BY <1>1, <3>3, <4>2 DEF StoppedSoFar
        <4> QED BY <1>2, <3>3, <4>3
      <3> QED BY <3>1, <3>2, <3>3
    <2> QED BY <2>2, <2>3 DEF StoppedSoFar, Control!Threads
  <1> QED BY <1>3, <1>5, <1>6, <1>7, <1>8 DEF ControlInv

LEMMA SuspendKeepsControl ==
  ASSUME Assumptions, ControlInv, Control!Orderly, NEW a \in Control!Agents, Control!Suspend(a)
  PROVE  ControlInv'
  <1>1. ControlType /\ AgentOk(a) /\ \A u \in Control!Threads : EndedOk(u) /\ Suspended(u)
    BY DEF ControlInv
  <1>2. PICK t \in Control!Threads : t = call[a].next
    BY <1>1 DEF Control!Suspend, Control!At, AgentOk, Visits
  <1>3. /\ Control!Executes(a) /\ call[a].op = "suspendAll" /\ call[a].phase = "enter"
        /\ UNCHANGED <<processStatus, lockLevel, status, calls, code, scopePending, frames, signals>>
        /\ ~Speaks(a) /\ t \in Nat
    BY <1>2, ControlFacts DEF Control!Suspend, Control!At, Control!threadVars, Speaks
  <1>4. suspendLevel[t] \in Nat
    BY <1>1 DEF ControlType
  <1>5. CASE status[t] = "DORMANT"
    <2>1. call' = [call EXCEPT ![a] = Control!Idle] /\ UNCHANGED <<semaphore, suspendLevel, suspendPending>>
      BY <1>2, <1>5 DEF Control!Suspend, Control!Throw
    <2>2. suspendLevel' \in [Control!Threads -> Nat]
      BY <1>1, <2>1 DEF ControlType
    <2> QED BY <1>3, <2>1, <2>2, LoopGoesOn
  <1>6. CASE status[t] # "DORMANT" /\ suspendLevel[t] # 0
    <2>1. /\ semaphore = None /\ suspendLevel' = [suspendLevel EXCEPT ![t] = suspendLevel[t] + 1]
          /\ Control!NextThread(a) /\ UNCHANGED <<suspendPending, semaphore>>
      BY <1>2, <1>6 DEF Control!Suspend
    <2>2. suspendLevel' \in [Control!Threads -> Nat] /\ suspendLevel'[t] = suspendLevel[t] + 1
          /\ \A u \in Control!Threads \ {t} : suspendLevel'[u] = suspendLevel[u]
      BY <1>1, <1>4, <2>1 DEF ControlType
    <2>3. \A u \in Control!Threads : suspendLevel'[u] = 0 <=> suspendLevel[u] = 0
      BY <1>4, <1>6, <2>2
    <2>4. ~Control!Addressed(t) /\ suspendLevel[t] > 0
      BY <1>4, <1>6, <2>1, NobodySpeaks
    <2> QED BY <1>2, <1>3, <2>1, <2>2, <2>3, <2>4, LoopGoesOn
  <1>7. CASE status[t] # "DORMANT" /\ suspendLevel[t] = 0
    <2>1. /\ semaphore = None /\ suspendLevel' = [suspendLevel EXCEPT ![t] = 0 + 1] /\ semaphore' = a
          /\ Control!Go(a, "raise") /\ suspendPending' = [suspendPending EXCEPT ![t] = TRUE]
      BY <1>2, <1>7 DEF Control!Suspend
    <2>2. /\ suspendLevel' \in [Control!Threads -> Nat] /\ suspendLevel'[t] = 1
          /\ suspendPending' \in [Control!Threads -> BOOLEAN] /\ suspendPending'[t] = TRUE
          /\ \A u \in Control!Threads \ {t} :
                suspendLevel'[u] = suspendLevel[u] /\ suspendPending'[u] = suspendPending[u] /\ signals'[u] = signals[u]
      BY <1>1, <1>3, <2>1 DEF ControlType
    <2>3. /\ call' \in [Control!Agents -> CallRecord]
          /\ \A b \in Control!Agents : b # a => call'[b] = call[b]
          /\ call'[a].op = "suspendAll" /\ call'[a].next = t /\ call'[a].phase = "raise"
      BY <1>1, <1>2, <1>3, <2>1, MovesAre DEF Visits
    <2>4. ControlType'
      BY <1>1, <1>3, <2>1, <2>2, <2>3 DEF ControlType
    <2>5. ~Control!Addressed(t) /\ ~Interrupted(t) /\ ~Wakes(t) /\ ~Raises(t) /\ \A b \in Control!Agents : ~Speaks(b)
      BY <2>1, NobodySpeaks
    <2>6. Interrupted(t)' /\ Control!Addressed(t)' /\ ~Wakes(t)' /\ ~Raises(t)'
      <3>1. Interrupts(a, t)'
        BY <2>3 DEF Interrupts, Speaks
      <3>2. Interrupted(t)'
        BY <3>1 DEF Interrupted, Control!Agents, Control!Threads
      <3>3. Control!Addressed(t)'
        BY <2>3 DEF Control!Addressed, Control!Agents, Control!Threads
      <3>4. ~Wakes(t)'
        BY <2>3, <2>5, ControlFacts DEF Wakes, Speaks
      <3> QED BY <3>2, <3>3, <3>4 DEF Raises
    <2>7. AgentOk(a)'
      <3>1. a # Main => lockLevel' > 0
        BY <1>1, <1>3 DEF AgentOk
      <3> QED BY <2>1, <2>2, <2>3, <3>1, ControlFacts DEF AgentOk, Visits
    <2>8. EndedOk(t)'
      BY <1>1, <1>3, <2>6 DEF EndedOk
    <2>9. Suspended(t)'
      <3> SUFFICES ASSUME ~Doomed(t) PROVE UnbornOk(t)' /\ WaitsEnough(t)'
        BY <1>3 DEF Suspended, Doomed
      <3>1. Waits(t) + Unanswered(t) >= Level(t) + ToCome(t) + 2 * Woken(t)
        BY <1>1, <2>5 DEF Suspended, Missed, WaitsEnough
      <3>2. /\ Unanswered(t) = 0 /\ Level(t) = 0 /\ ToCome(t) \in {0, 2, 4} /\ Woken(t) \in Nat /\ Waits(t) \in Nat
            /\ Len(frames[t]) \in Nat
        BY <1>1, <1>7, <2>5, NumbersAre DEF Unanswered, Level
      <3>3. Unanswered(t)' = 1 /\ Level(t)' = 1 /\ ToCome(t)' = ToCome(t) /\ Woken(t)' = Woken(t)
        BY <1>3, <2>2, <2>5, <2>6 DEF Unanswered, Level, ToCome, Woken, WokenIn
      <3>4. Waits(t)' \in Nat /\ Waits(t)' >= Waits(t)
        <4>1. (Unborn(t)' <=> Unborn(t)) /\ Waits(t) = Len(frames[t])
          BY <1>3, <3>2 DEF Unborn, Waits
        <4>2. Waits(t)' = IF Unborn(t) THEN Len(frames[t]) + 1 ELSE Len(frames[t])
          BY <1>3, <3>2, <3>3, <4>1 DEF Waits
        <4> QED BY <3>2, <4>1, <4>2
      <3>5. Waits(t)' + 1 >= 1 + ToCome(t) + 2 * Woken(t)
        BY <3>1, <3>2, <3>4
      <3>6. WaitsEnough(t)'
        BY <3>3, <3>5 DEF WaitsEnough
      <3>7. UnbornOk(t)'
        BY <2>2, <2>6 DEF UnbornOk
      <3> QED BY <3>6, <3>7
    <2>10. suspendLevel[t] = 0 /\ suspendLevel'[t] > 0 => status[t] # "DORMANT"
      BY <1>7
    <2>11. a = Main /\ call'[Main].op = "suspendAll" => call'[Main].next = t
      BY <2>3
    <2>12. ~(suspendLevel[t] > 0)
      BY <1>7
    <2> QED BY <1>2, <1>3, <2>1, <2>2, <2>3, <2>4, <2>7, <2>8, <2>9, <2>10, <2>11, <2>12, HandshakeStep
  <1> QED BY <1>5, <1>6, <1>7

LEMMA ResumeKeepsControl ==
  ASSUME Assumptions, ControlInv, Control!Orderly, NEW a \in Control!Agents, Control!Resume(a)
  PROVE  ControlInv'
  <1>1. ControlType /\ AgentOk(a) /\ \A u \in Control!Threads : EndedOk(u) /\ Suspended(u)
    BY DEF ControlInv
  <1>2. PICK t \in Control!Threads : t = call[a].next
    BY <1>1 DEF Control!Resume, Control!At, AgentOk, Visits
  <1>3. /\ Control!Executes(a) /\ call[a].op = "resumeAll" /\ call[a].phase = "resume"
        /\ UNCHANGED <<processStatus, lockLevel, status, calls, code, scopePending, frames, signals>>
        /\ ~Speaks(a) /\ t \in Nat /\ semaphore = None
    BY <1>2, ControlFacts DEF Control!Resume, Control!At, Control!threadVars, Speaks
  <1>4. suspendLevel[t] \in Nat \ {0} /\ a = Main
    BY <1>1, <1>2, <1>3 DEF ControlType, AgentOk
  <1>5. /\ suspendLevel' = [suspendLevel EXCEPT ![t] = suspendLevel[t] - 1]
        /\ suspendLevel' \in [Control!Threads -> Nat] /\ suspendLevel'[t] = suspendLevel[t] - 1
        /\ \A u \in Control!Threads \ {t} : suspendLevel'[u] = suspendLevel[u]
    <2>1. suspendLevel' = [suspendLevel EXCEPT ![t] = suspendLevel[t] - 1]
      BY <1>2, <1>4 DEF Control!Resume, Control!Decrement
    <2> QED BY <1>1, <1>4, <2>1 DEF ControlType
  <1>6. CASE suspendLevel'[t] # 0
    <2>1. Control!NextThread(a) /\ UNCHANGED <<suspendPending, semaphore>>
      BY <1>2, <1>6 DEF Control!Resume
    <2>2. \A u \in Control!Threads : suspendLevel'[u] = 0 <=> suspendLevel[u] = 0
      BY <1>4, <1>5, <1>6
    <2> QED BY <1>2, <1>3, <1>5, <2>1, <2>2, LoopGoesOn
  <1>7. CASE suspendLevel'[t] = 0
    <2>1. /\ suspendPending' = [suspendPending EXCEPT ![t] = TRUE] /\ semaphore' = a /\ Control!Go(a, "raise")
      BY <1>2, <1>7 DEF Control!Resume
    <2>2. /\ suspendPending' \in [Control!Threads -> BOOLEAN] /\ suspendPending'[t] = TRUE
          /\ \A u \in Control!Threads \ {t} :
                suspendLevel'[u] = suspendLevel[u] /\ suspendPending'[u] = suspendPending[u] /\ signals'[u] = signals[u]
      BY <1>1, <1>3, <1>5, <2>1 DEF ControlType
    <2>3. /\ call' \in [Control!Agents -> CallRecord]
          /\ \A b \in Control!Agents : b # a => call'[b] = call[b]
          /\ call'[a].op = "resumeAll" /\ call'[a].next = t /\ call'[a].phase = "raise"
      BY <1>1, <1>2, <1>3, <2>1, MovesAre DEF Visits
    <2>4. ControlType'
      BY <1>1, <1>3, <1>5, <2>1, <2>2, <2>3 DEF ControlType
    <2>5. ~Control!Addressed(t) /\ ~Interrupted(t) /\ ~Wakes(t) /\ ~Raises(t) /\ \A b \in Control!Agents : ~Speaks(b)
      BY <1>3, NobodySpeaks
    <2>6. Control!Addressed(t)' /\ Wakes(t)' /\ Raises(t)'
      <3>1. Control!Addressed(t)'
        BY <2>3 DEF Control!Addressed, Control!Agents, Control!Threads
      <3> QED BY <1>4, <2>3, <3>1 DEF Wakes, Raises, Speaks
    <2>7. AgentOk(a)'
      BY <1>4, <2>1, <2>3, ControlFacts DEF AgentOk, Visits
    <2>8. EndedOk(t)'
      BY <1>1, <1>3, <1>7 DEF EndedOk
    <2>9. Suspended(t)'
      <3> SUFFICES ASSUME ~Doomed(t) PROVE UnbornOk(t)' /\ (WaitsEnough(t)' \/ Missed(t)')
        BY <1>3 DEF Suspended, Doomed
      <3>1. Waits(t) + Unanswered(t) >= Level(t) + ToCome(t) + 2 * Woken(t)
        BY <1>1, <2>5 DEF Suspended, Missed, WaitsEnough
      <3>2. /\ Unanswered(t) = 0 /\ Level(t) = 1 /\ ToCome(t) \in {0, 2, 4} /\ Woken(t) \in Nat /\ Waits(t) \in Nat
            /\ Len(frames[t]) \in Nat
        BY <1>1, <1>4, <2>5, NumbersAre DEF Unanswered, Level
      <3>3. Unanswered(t)' = 1 /\ Level(t)' = 0 /\ ToCome(t)' = ToCome(t) + 2 /\ Woken(t)' = Woken(t)
        BY <1>3, <1>7, <2>2, <2>5, <2>6 DEF Unanswered, Level, ToCome, Woken, WokenIn
      <3>4. UnbornOk(t)'
        BY <1>7 DEF UnbornOk
      <3>5. CASE ~Unborn(t)
        <4>1. Waits(t) = Len(frames[t]) /\ Waits(t)' = Len(frames[t])
          <5>1. ~Unborn(t)' /\ frames'[t] = frames[t]
            BY <1>3, <3>5 DEF Unborn
          <5> QED BY <3>2, <3>5, <5>1 DEF Waits
        <4>2. Len(frames[t]) + 1 >= 0 + (ToCome(t) + 2) + 2 * Woken(t)
          BY <3>1, <3>2, <4>1
        <4>3. WaitsEnough(t)'
          BY <3>3, <4>1, <4>2 DEF WaitsEnough
        <4> QED BY <3>4, <4>3
      <3>6. CASE Unborn(t)
        <4>1. UnbornOk(t) /\ suspendLevel[t] > 0
          BY <1>1, <1>4 DEF Suspended
        <4>2. "SUSPEND" \notin signals[t] /\ Restart
          BY <2>5, <3>6, <4>1 DEF UnbornOk
        <4>3. Missed(t)'
          BY <1>3, <2>2, <2>6, <3>6, <4>2 DEF Missed, Unborn, Restart
        <4> QED BY <3>4, <4>3
      <3> QED BY <3>5, <3>6
    <2>10. ~(suspendLevel'[t] > 0) /\ call'[Main].op # "suspendAll"
      BY <1>4, <1>7, <2>3
    <2> QED BY <1>2, <1>3, <1>4, <2>2, <2>3, <2>4, <2>7, <2>8, <2>9, <2>10, HandshakeStep
  <1> QED BY <1>6, <1>7

LEMMA RaiseSignalKeepsControl ==
  ASSUME Assumptions, ControlInv, Control!Orderly, NEW a \in Control!Agents, Control!RaiseSignal(a)
  PROVE  ControlInv'
  <1>1. /\ ControlType /\ NoneEnds /\ \A b \in Control!Agents : AgentOk(b)
        /\ \A u \in Control!Threads : EndedOk(u) /\ Suspended(u)
    BY DEF ControlInv
  <1>2. PICK t \in Control!Threads : t = call[a].next
    BY <1>1 DEF Control!RaiseSignal, Control!At, AgentOk, Visits
  <1>3. /\ Control!Executes(a) /\ call[a].op \in {"suspendAll", "resumeAll"} /\ call[a].phase = "raise"
        /\ UNCHANGED <<processStatus, lockLevel, status, calls, code, scopePending, frames, suspendLevel, suspendPending>>
        /\ Speaks(a) /\ semaphore = a /\ t \in Nat
    BY <1>1, <1>2, ControlFacts DEF Control!RaiseSignal, Control!At, Speaks, AgentOk
  <1>4. \A b \in Control!Agents : b # a => ~Speaks(b)
    BY <1>1, <1>3 DEF AgentOk
  <1>5. Main \in Control!Agents /\ a # None
    BY ControlFacts
  <1>6. suspendLevel[t] \in Nat /\ (call[a].op = "suspendAll" => suspendLevel[t] > 0)
    BY <1>1, <1>2, <1>3 DEF ControlType, AgentOk
  <1>7. CASE code[t] = "none"
    <2>1. call' = [call EXCEPT ![a] = Control!Idle] /\ semaphore' = None /\ signals' = signals
      BY <1>2, <1>7 DEF Control!RaiseSignal, Control!Throw
    <2>2. /\ call' \in [Control!Agents -> CallRecord]
          /\ \A b \in Control!Agents : b # a => call'[b] = call[b]
          /\ call'[a] = Control!Idle
      BY <1>1, <2>1, MovesAre
    <2>3. call'[a].op = "none" /\ call'[a].phase = "none" /\ ~Speaks(a)'
      BY <2>2 DEF Control!Idle, Speaks
    <2>4. ControlType'
      BY <1>1, <1>3, <2>1, <2>2 DEF ControlType
    <2>5. AgentOk(a)'
      BY <2>3 DEF AgentOk, Visits
    <2>6. \A b \in Control!Agents : ~Speaks(b)'
      BY <1>4, <2>2, <2>3 DEF Speaks
    <2>7. ~Control!Addressed(t)' /\ ~Interrupted(t)' /\ ~Wakes(t)' /\ ~Raises(t)'
      BY <1>5, <2>6 DEF Control!Addressed, Interrupted, Interrupts, Wakes, Raises, Speaks, Control!Agents,
         Control!Threads
    <2>8. frames[t] = <<>> /\ signals[t] = {}
      BY <1>1, <1>7 DEF EndedOk
    <2>9. EndedOk(t)'
      BY <1>1, <1>3, <2>1, <2>7 DEF EndedOk
    <2>10. Suspended(t)'
      <3> SUFFICES ASSUME "start" \in calls PROVE UnbornOk(t)' /\ WaitsEnough(t)'
        BY <1>3, <1>7 DEF Suspended, Doomed
      <3>1. ToCome(t)' = 0 /\ Unanswered(t)' = 0 /\ Woken(t)' = Woken(t) /\ Level(t)' = Level(t)
        BY <1>3, <2>1, <2>7, <2>8 DEF ToCome, Unanswered, Woken, WokenIn, Level
      <3>2. Level(t) \in {0, 1} /\ Woken(t) = 0 /\ Len(frames[t]) = 0
        BY <1>1, <2>8, NumbersAre
      <3>3. Waits(t)' = Level(t)
        <4>1. Unborn(t)' /\ Len(frames[t])' = 0
          BY <1>3, <1>7, <2>8, <3>2 DEF Unborn
        <4> QED BY <3>1, <3>2, <4>1 DEF Waits
      <3>4. WaitsEnough(t)'
        BY <3>1, <3>2, <3>3 DEF WaitsEnough
      <3>5. UnbornOk(t)'
        <4>1. "exit" \notin calls => suspendLevel[t] = 0
          BY <1>1, <1>7 DEF NoneEnds
        <4>2. suspendLevel[t] > 0 => Restart'
          BY <1>3, <4>1 DEF Restart
        <4> QED BY <1>3, <2>1, <2>7, <2>8, <4>2 DEF UnbornOk
      <3> QED BY <3>4, <3>5
    <2>11. /\ \A u \in Control!Threads \ {t} :
                suspendLevel'[u] = suspendLevel[u] /\ suspendPending'[u] = suspendPending[u] /\ signals'[u] = signals[u]
           /\ suspendLevel[t] = 0 /\ suspendLevel'[t] > 0 => status[t] # "DORMANT"
           /\ a # Main /\ suspendLevel[t] > 0 =>
                suspendLevel'[t] > 0 /\ (~Control!Addressed(t) => ~Control!Addressed(t)')
           /\ ~(a = Main /\ call'[Main].op = "suspendAll")
      BY <1>3, <2>1, <2>3, <2>7
    <2> QED BY <1>2, <1>3, <2>2, <2>3, <2>4, <2>5, <2>9, <2>10, <2>11, HandshakeStep
  <1>8. CASE code[t] # "none"
    <2>1. PICK s \in {"SUSPEND", "RESUME"} :
            /\ signals' = [signals EXCEPT ![t] = @ \cup {s}] /\ Control!Go(a, "spin") /\ semaphore' = semaphore
            /\ s = "SUSPEND" <=> call[a].op = "suspendAll"
      <3>1. signals' = [signals EXCEPT ![t] = @ \cup {IF call[a].op = "suspendAll" THEN "SUSPEND" ELSE "RESUME"}]
            /\ Control!Go(a, "spin") /\ semaphore' = semaphore
        BY <1>2, <1>8 DEF Control!RaiseSignal
      <3> QED BY <3>1
    <2>2. /\ call' \in [Control!Agents -> CallRecord]
          /\ \A b \in Control!Agents : b # a => call'[b] = call[b]
          /\ call'[a].op = call[a].op /\ call'[a].next = t /\ call'[a].phase = "spin" /\ Speaks(a)'
      BY <1>1, <1>2, <2>1, MovesAre DEF Visits, Speaks
    <2>3. /\ signals' \in [Control!Threads -> SUBSET {"SUSPEND", "RESUME", "CANCEL"}]
          /\ signals'[t] = signals[t] \cup {s}
          /\ \A u \in Control!Threads \ {t} : signals'[u] = signals[u]
      <3>1. signals \in [Control!Threads -> SUBSET {"SUSPEND", "RESUME", "CANCEL"}]
        BY <1>1 DEF ControlType
      <3>2. signals[t] \cup {s} \in SUBSET {"SUSPEND", "RESUME", "CANCEL"}
        BY <3>1
      <3> QED BY <2>1, <3>1, <3>2
    <2>4. ControlType'
      BY <1>1, <1>3, <2>1, <2>2, <2>3 DEF ControlType
    <2>5. AgentOk(a)'
      <3>1. a # Main => call[a].op # "resumeAll" /\ (call[a].op = "suspendAll" => lockLevel > 0)
        BY <1>1 DEF AgentOk
      <3>2. t # 0 /\ suspendLevel'[t] = suspendLevel[t] /\ lockLevel' = lockLevel /\ semaphore' = a
        BY <1>3, <2>1, ControlFacts
      <3> QED BY <1>3, <1>6, <2>2, <3>1, <3>2 DEF AgentOk, Visits
    <2>6. /\ (Interrupted(t)' <=> Interrupted(t)) /\ (Control!Addressed(t)' <=> Control!Addressed(t))
          /\ (Wakes(t)' <=> Wakes(t)) /\ ~Raises(t)'
      <3>1. \A b \in Control!Agents : (Speaks(b)' <=> Speaks(b)) /\ call'[b].next = call[b].next
                                       /\ call'[b].op = call[b].op
        BY <1>2, <1>3, <2>2 DEF Speaks
      <3>2. Interrupted(t)' <=> Interrupted(t)
        BY <3>1 DEF Interrupted, Interrupts, Control!Agents, Control!Threads
      <3>3. Control!Addressed(t)' <=> Control!Addressed(t)
        BY <3>1 DEF Control!Addressed, Speaks, Control!Agents, Control!Threads
      <3>4. Wakes(t)' <=> Wakes(t)
        BY <1>5, <3>1 DEF Wakes
      <3>5. ~Raises(t)'
        BY <1>4, <1>5, <2>2 DEF Raises, Wakes, Speaks
      <3> QED BY <3>2, <3>3, <3>4, <3>5
    <2>7. EndedOk(t)'
      BY <1>1, <1>3, <1>8, <2>3, <2>6 DEF EndedOk
    <2>8. Suspended(t)'
      <3> SUFFICES ASSUME ~Doomed(t) PROVE UnbornOk(t)' /\ (WaitsEnough(t)' \/ Missed(t)')
        BY <1>3, <2>3 DEF Suspended, Doomed
      <3>1. UnbornOk(t) /\ (WaitsEnough(t) \/ Missed(t))
        BY <1>1 DEF Suspended
      <3>2. Restart' = Restart /\ (Unborn(t)' <=> Unborn(t)) /\ Woken(t)' = Woken(t) /\ Level(t)' = Level(t)
            /\ Unanswered(t)' = Unanswered(t) /\ frames'[t] = frames[t]
        BY <1>3, <2>6 DEF Restart, Unborn, Woken, WokenIn, Level, Unanswered
      <3>3. Waits(t)' = Waits(t)
        BY <3>2 DEF Waits
      <3>4. /\ Level(t) \in {0, 1} /\ Unanswered(t) \in {0, 1} /\ ToCome(t) \in {0, 2, 4} /\ Woken(t) \in Nat
            /\ Waits(t) \in Nat
        BY <1>1, NumbersAre
      <3>5. ASSUME ToCome(t)' \in Nat, ToCome(t)' <= ToCome(t), WaitsEnough(t) PROVE WaitsEnough(t)'
        <4>1. Waits(t) + Unanswered(t) >= Level(t) + ToCome(t)' + 2 * Woken(t)
          <5>1. Waits(t) + Unanswered(t) >= Level(t) + ToCome(t) + 2 * Woken(t)
            BY <3>5 DEF WaitsEnough
          <5>2. PICK x \in Nat : x = ToCome(t)'
            BY <3>5
          <5>3. x <= ToCome(t)
            BY <3>5, <5>2
          <5>4. Waits(t) + Unanswered(t) >= Level(t) + x + 2 * Woken(t)
            BY <3>4, <5>1, <5>3
          <5> QED BY <5>2, <5>4
        <4> QED BY <3>2, <3>3, <4>1 DEF WaitsEnough
      <3>6. CASE call[a].op = "suspendAll"
        <4>1. s = "SUSPEND" /\ Interrupted(t)
          <5>1. Interrupts(a, t)
            BY <1>2, <1>3, <3>6 DEF Interrupts
          <5> QED BY <2>1, <3>6, <5>1 DEF Interrupted, Control!Agents, Control!Threads
        <4>2. ~Wakes(t)
          BY <1>4, <1>5, <3>6 DEF Wakes
        <4>3. ToCome(t)' = ToCome(t)
          BY <2>3, <2>6, <4>1, <4>2 DEF ToCome, Raises
        <4>4. ToCome(t)' \in Nat /\ ToCome(t)' <= ToCome(t)
          BY <3>4, <4>3
        <4>5. WaitsEnough(t)'
          BY <3>1, <3>5, <4>2, <4>4 DEF Missed
        <4>6. UnbornOk(t)'
          BY <1>3, <2>6, <3>1, <3>2, <4>1 DEF UnbornOk
        <4> QED BY <4>5, <4>6
      <3>7. CASE call[a].op = "resumeAll"
        <4>1. s = "RESUME" /\ Raises(t)
          <5>1. a = Main
            BY <1>1, <3>7 DEF AgentOk
          <5> QED BY <1>2, <1>3, <2>1, <3>7, <5>1 DEF Raises, Wakes
        <4>2. ToCome(t)' = 2 /\ ToCome(t) >= 2
          BY <2>3, <2>6, <4>1 DEF ToCome
        <4>3. WaitsEnough(t) => WaitsEnough(t)'
          BY <3>4, <3>5, <4>2
        <4>4. "SUSPEND" \in signals'[t] <=> "SUSPEND" \in signals[t]
          BY <2>3, <4>1
        <4>5. UnbornOk(t)'
          BY <1>3, <2>6, <3>1, <3>2, <4>4 DEF UnbornOk
        <4>6. Missed(t) => Missed(t)'
          BY <1>3, <2>6, <3>2, <4>4 DEF Missed
        <4> QED BY <3>1, <4>3, <4>5, <4>6
      <3> QED BY <1>3, <3>6, <3>7
    <2>9. /\ \A u \in Control!Threads \ {t} :
                suspendLevel'[u] = suspendLevel[u] /\ suspendPending'[u] = suspendPending[u] /\ signals'[u] = signals[u]
          /\ suspendLevel[t] = 0 /\ suspendLevel'[t] > 0 => status[t] # "DORMANT"
          /\ a # Main /\ suspendLevel[t] > 0 =>
                suspendLevel'[t] > 0 /\ (~Control!Addressed(t) => ~Control!Addressed(t)')
          /\ a = Main /\ call'[Main].op = "suspendAll" => call'[Main].next = t
      BY <1>3, <2>2, <2>3, <2>6
    <2> QED BY <1>2, <1>3, <2>2, <2>4, <2>5, <2>7, <2>8, <2>9, HandshakeStep
  <1> QED BY <1>7, <1>8

LEMMA SpinEndsKeepsControl ==
  ASSUME Assumptions, ControlInv, Control!Orderly, NEW a \in Control!Agents, Control!SpinEnds(a)
  PROVE  ControlInv'
  <1>1. /\ ControlType /\ \A b \in Control!Agents : AgentOk(b)
        /\ \A u \in Control!Threads : EndedOk(u) /\ Suspended(u)
    BY DEF ControlInv
  <1>2. PICK t \in Control!Threads : t = call[a].next
    BY <1>1 DEF Control!SpinEnds, Control!At, AgentOk, Visits
  <1>3. /\ Control!Executes(a) /\ call[a].op \in {"suspendAll", "resumeAll"} /\ call[a].phase = "spin"
        /\ UNCHANGED <<processStatus, lockLevel, status, calls, code, scopePending, frames, signals, suspendLevel,
                       suspendPending>>
        /\ Speaks(a) /\ semaphore = a /\ t \in Nat /\ ~suspendPending[t] /\ semaphore' = None
        /\ Control!NextThread(a)
    BY <1>1, <1>2, ControlFacts DEF Control!SpinEnds, Control!At, Control!threadVars, Speaks, AgentOk
  <1>4. \A b \in Control!Agents : b # a => ~Speaks(b)
    BY <1>1, <1>3 DEF AgentOk
  <1>5. Main \in Control!Agents /\ a # None
    BY ControlFacts
  <1>6. suspendLevel[t] \in Nat /\ (call[a].op = "suspendAll" => suspendLevel[t] > 0)
    BY <1>1, <1>2, <1>3 DEF ControlType, AgentOk
  <1>7. /\ call' \in [Control!Agents -> CallRecord]
        /\ \A b \in Control!Agents : b # a => call'[b] = call[b]
        /\ call'[a].op = call[a].op /\ call'[a].next = t + 1 /\ call'[a].phase = "visit" /\ ~Speaks(a)'
    BY <1>1, <1>2, <1>3, MovesAre DEF Speaks
  <1>8. ControlType'
    BY <1>1, <1>3, <1>7 DEF ControlType
  <1>9. AgentOk(a)'
    <2>1. a # Main => call[a].op # "resumeAll" /\ (call[a].op = "suspendAll" => lockLevel > 0)
      BY <1>1 DEF AgentOk
    <2> QED BY <1>3, <1>7, <2>1 DEF AgentOk, Visits
  <1>10. \A b \in Control!Agents : ~Speaks(b)'
    BY <1>4, <1>7 DEF Speaks
  <1>11. ~Control!Addressed(t)' /\ ~Interrupted(t)' /\ ~Wakes(t)' /\ ~Raises(t)'
    BY <1>5, <1>10 DEF Control!Addressed, Interrupted, Interrupts, Wakes, Raises, Speaks, Control!Agents,
       Control!Threads
  <1>12. EndedOk(t)'
    BY <1>1, <1>3, <1>11 DEF EndedOk
  <1>13. Suspended(t)'
    <2> SUFFICES ASSUME ~Doomed(t) PROVE UnbornOk(t)' /\ WaitsEnough(t)'
      BY <1>3 DEF Suspended, Doomed
    <2>1. UnbornOk(t) /\ WaitsEnough(t)
      BY <1>1, <1>3 DEF Suspended, Missed
    <2>2. ~Raises(t)
      BY <1>3, <1>4, <1>5 DEF Raises, Wakes
    <2>3. /\ Level(t)' = Level(t) /\ Woken(t)' = Woken(t) /\ ToCome(t)' = ToCome(t) /\ Unanswered(t)' = Unanswered(t)
      BY <1>3, <1>11, <2>2 DEF Level, Woken, WokenIn, ToCome, Unanswered
    <2>4. Waits(t)' = Waits(t)
      <3>1. (Unborn(t)' <=> Unborn(t)) /\ frames'[t] = frames[t]
        BY <1>3 DEF Unborn
      <3> QED BY <2>3, <3>1 DEF Waits
    <2>5. WaitsEnough(t)'
      BY <2>1, <2>3, <2>4 DEF WaitsEnough
    <2>6. UnbornOk(t)'
      BY <1>3, <1>11, <2>1 DEF UnbornOk, Unborn, Restart
    <2> QED BY <2>5, <2>6
  <1>14. /\ \A u \in Control!Threads \ {t} :
                suspendLevel'[u] = suspendLevel[u] /\ suspendPending'[u] = suspendPending[u] /\ signals'[u] = signals[u]
         /\ suspendLevel[t] = 0 /\ suspendLevel'[t] > 0 => status[t] # "DORMANT"
         /\ a # Main /\ suspendLevel[t] > 0 =>
                suspendLevel'[t] > 0 /\ (~Control!Addressed(t) => ~Control!Addressed(t)')
         /\ a = Main /\ call'[Main].op = "suspendAll" =>
                call'[Main].next = t + 1 /\ suspendLevel'[t] > 0 /\ ~Control!Addressed(t)'
    BY <1>3, <1>6, <1>7, <1>11
  <1> QED BY <1>2, <1>3, <1>7, <1>8, <1>9, <1>12, <1>13, <1>14, HandshakeStep

LEMMA ControlInit == Assumptions /\ Control!Init => ControlInv
  <1> SUFFICES ASSUME Assumptions, Control!Init PROVE ControlInv
    OBVIOUS
  <1>1. /\ processStatus \in {"INITIALIZED", "RUNNING"} /\ lockLevel = 0 /\ semaphore = None
        /\ status = [t \in Control!Threads |-> IF processStatus = "RUNNING" THEN "RUNNING" ELSE "DORMANT"]
        /\ suspendLevel = [t \in Control!Threads |-> 0] /\ suspendPending = [t \in Control!Threads |-> FALSE]
        /\ code = [t \in Control!Threads |-> IF processStatus = "RUNNING" THEN "app" ELSE "none"]
        /\ scopePending = [t \in Control!Threads |-> FALSE] /\ frames = [t \in Control!Threads |-> <<>>]
        /\ signals = [t \in Control!Threads |-> {}] /\ call = [a \in Control!Agents |-> Control!Idle]
    BY DEF Control!Init
  <1>2. ControlType
    <2>1. Control!Idle \in CallRecord
      BY DEF Control!Idle, CallRecord
    <2>2. call \in [Control!Agents -> CallRecord]
      BY <1>1, <2>1
    <2>3. frames \in [Control!Threads -> Seq(Where)]
      <3>1. <<>> \in Seq(Where)
        OBVIOUS
      <3> QED BY <1>1, <3>1
    <2> QED BY <1>1, <2>2, <2>3 DEF ControlType
  <1>3. \A a \in Control!Agents : call[a].op = "none" /\ call[a].phase = "none"
    BY <1>1 DEF Control!Idle
  <1>4. \A a \in Control!Agents : ~Speaks(a) /\ AgentOk(a)
    BY <1>3 DEF Speaks, AgentOk, Visits
  <1>5. Main \in Control!Agents
    BY ControlFacts
  <1>6. NotYetRun /\ NoneEnds /\ StoppedSoFar
    BY <1>1, <1>3, <1>5 DEF NotYetRun, NoneEnds, StoppedSoFar
  <1>7. ASSUME NEW t \in Control!Threads PROVE EndedOk(t) /\ Suspended(t)
    <2>1. frames[t] = <<>> /\ signals[t] = {} /\ suspendLevel[t] = 0 /\ ~Wakes(t) /\ ~Raises(t)
      BY <1>1, <1>4, <1>5 DEF Wakes, Raises
    <2>2. EndedOk(t) /\ UnbornOk(t)
      BY <2>1 DEF EndedOk, UnbornOk
    <2>3. WaitsEnough(t)
      <3>1. Level(t) = 0 /\ ToCome(t) = 0 /\ Woken(t) = 0 /\ Waits(t) = 0 /\ Unanswered(t) \in {0, 1}
        <4>1. Level(t) = 0 /\ ToCome(t) = 0
          BY <2>1 DEF Level, ToCome
        <4>2. Woken(t) = 0 /\ Len(frames[t]) = 0 /\ Unanswered(t) \in {0, 1}
          BY <1>2, <2>1, NumbersAre
        <4> QED BY <4>1, <4>2 DEF Waits
      <3> QED BY <3>1 DEF WaitsEnough
    <2> QED BY <2>2, <2>3 DEF Suspended
  <1> QED BY <1>2, <1>4, <1>6, <1>7 DEF ControlInv

LEMMA ControlStays ==
  ASSUME Assumptions, ControlInv, Control!Orderly, UNCHANGED threadVars
  PROVE  ControlInv'
  <1>1. /\ ControlType /\ NotYetRun /\ NoneEnds /\ StoppedSoFar
        /\ \A a \in Control!Agents : AgentOk(a)
        /\ \A t \in Control!Threads : EndedOk(t) /\ Suspended(t)
    BY DEF ControlInv
  <1>2. /\ UNCHANGED <<calls, processStatus, lockLevel, semaphore, status, suspendLevel, suspendPending>>
        /\ UNCHANGED <<code, scopePending, frames, signals, call>>
    BY DEF threadVars
  <1>3. ControlType' /\ NotYetRun' /\ NoneEnds'
    BY <1>1, <1>2 DEF ControlType, NotYetRun, NoneEnds
  <1>4. StoppedSoFar'
    BY <1>1, <1>2, CallsSame DEF StoppedSoFar, Calm, Control!Threads
  <1>5. \A a \in Control!Agents : AgentOk(a)'
    BY <1>1, <1>2, AgentStays
  <1>6. ASSUME NEW t \in Control!Threads PROVE EndedOk(t)' /\ Suspended(t)'
    <2>1. suspendLevel[t] \in Nat
      BY <1>1 DEF ControlType
    <2> QED BY <1>1, <1>2, <2>1, CallsSame, SuspendedStays
  <1> QED BY <1>3, <1>4, <1>5, <1>6 DEF ControlInv

LEMMA CallsKept == Control!Next \/ UNCHANGED threadVars => calls' = calls
  <1> SUFFICES ASSUME Control!Next \/ UNCHANGED threadVars PROVE calls' = calls
    OBVIOUS
  <1> QED
    BY DEF Control!Next, threadVars, Control!threadVars, Control!LockScope, Control!EnterProtectedScope,
       Control!ExitProtectedScope, Control!SuspendCallback, Control!WaitForSignal, Control!ResumeDelivered,
       Control!WakeUp, Control!ThreadStartWrapper, Control!TerminateSelf, Control!Cancelled, Control!SuspendSelf,
       Control!LockThreadPreemption, Control!UnlockThreadPreemption, Control!Start, Control!Stop,
       Control!StartReturns, Control!StopReturns, Control!Visit, Control!Suspend, Control!ResumeTests,
       Control!Resume, Control!RaiseSignal, Control!SpinEnds, Control!AllVisited, Control!StopProcess,
       Control!RunProcess

LEMMA ControlStep ==
  ASSUME Assumptions, ControlInv, Control!Next \/ UNCHANGED threadVars
  PROVE  ControlInv'
  <1>1. calls' = calls
    BY CallsKept
  <1>2. CASE ~Control!Orderly
    BY <1>1, <1>2 DEF ControlInv, Control!Orderly
  <1>3. CASE Control!Orderly
    <2>1. ASSUME NEW t \in Control!Threads,
                 \/ Control!LockScope(t) \/ Control!EnterProtectedScope(t) \/ Control!ExitProtectedScope(t)
                 \/ Control!SuspendCallback(t) \/ Control!WaitForSignal(t) \/ Control!ResumeDelivered(t)
                 \/ Control!WakeUp(t) \/ Control!ThreadStartWrapper(t) \/ Control!TerminateSelf(t)
                 \/ Control!SuspendSelf(t)
          PROVE  ControlInv'
      BY <1>3, <2>1, ScopeKeepsControl, SuspendCallbackKeepsControl, WaitForSignalKeepsControl,
         ResumeDeliveredKeepsControl, WakeUpKeepsControl, OwnWaitKeepsControl, TerminateKeepsControl
    <2>2. ASSUME NEW t \in Control!Threads,
                 Control!Cancelled(t) \/ Control!LockThreadPreemption(t) \/ Control!UnlockThreadPreemption(t)
          PROVE  ControlInv'
      <3>1. ~Control!UnlockThreadPreemption(t)
        BY <1>3 DEF Control!UnlockThreadPreemption, Control!Free, Control!Orderly
      <3> QED BY <1>3, <2>2, <3>1, StopKeepsControl, LoopBegins
    <2>3. ASSUME NEW a \in Control!Agents, NEW t \in Control!Threads, Control!Start(a, t) \/ Control!Stop(a, t)
          PROVE  ControlInv'
      BY <1>3, <2>3, StartKeepsControl, StopKeepsControl
    <2>4. ASSUME NEW a \in Control!Agents,
                 \/ Control!StartReturns(a) \/ Control!StopReturns(a) \/ Control!Visit(a) \/ Control!Suspend(a)
                 \/ Control!ResumeTests(a) \/ Control!Resume(a) \/ Control!RaiseSignal(a) \/ Control!SpinEnds(a)
                 \/ Control!AllVisited(a)
          PROVE  ControlInv'
      BY <1>3, <2>4, ReturnKeepsControl, VisitKeepsControl, SuspendKeepsControl, ResumeKeepsControl,
         RaiseSignalKeepsControl, SpinEndsKeepsControl, LoopEnds
    <2>5. ASSUME Control!StopProcess \/ Control!RunProcess PROVE ControlInv'
      BY <1>3, <2>5, LoopBegins
    <2> QED BY <1>3, <2>1, <2>2, <2>3, <2>4, <2>5, ControlStays DEF Control!Next
  <1> QED BY <1>2, <1>3

LEMMA LevelsAreTrue ==
  ASSUME Assumptions, ControlInv
  PROVE  Control!LevelIsTrue
  <1> SUFFICES ASSUME NEW t \in Control!Threads, Control!Orderly, suspendLevel[t] > 0,
                      code[t] \in {"app", "locked", "scope"}, ~Control!Addressed(t), "CANCEL" \notin signals[t],
                      frames[t] = <<>>
               PROVE  FALSE
    BY DEF Control!LevelIsTrue
  <1>1. ControlType /\ Suspended(t) /\ ~Doomed(t)
    BY DEF ControlInv, Doomed
  <1>2. ~Missed(t)
    BY ControlFacts DEF Missed, Wakes, Speaks, Control!Addressed
  <1>3. Waits(t) + Unanswered(t) >= Level(t) + ToCome(t) + 2 * Woken(t)
    BY <1>1, <1>2 DEF Suspended, WaitsEnough
  <1>4. Waits(t) = 0 /\ Unanswered(t) = 0 /\ Level(t) = 1 /\ Woken(t) = 0 /\ ToCome(t) \in {0, 2, 4}
    <2>1. Len(frames[t]) = 0 /\ Woken(t) = 0 /\ ToCome(t) \in {0, 2, 4}
      BY <1>1, NumbersAre
    <2>2. ~Unborn(t) /\ Unanswered(t) = 0 /\ Level(t) = 1
      BY DEF Unborn, Unanswered, Level
    <2> QED BY <2>1, <2>2 DEF Waits
  <1> QED BY <1>3, <1>4

LEMMA StopsAreComplete ==
  ASSUME Assumptions, ControlInv
  PROVE  Control!StopIsComplete
  <1> SUFFICES ASSUME Control!AllVisited(Main), processStatus' = "STOPPED", Calm, NEW t \in Control!Threads,
                      code[t] # "none", frames[t] = <<>>
               PROVE  FALSE
    BY DEF Control!StopIsComplete, Control!StandsStill, Calm
  <1>1. Control!Orderly /\ "stop" \notin calls /\ ~Restart
    BY DEF Calm, Control!Orderly, Restart
  <1>2. ControlType /\ StoppedSoFar /\ EndedOk(t) /\ Suspended(t)
    BY <1>1 DEF ControlInv
  <1>3. call[Main].op = "suspendAll" /\ call[Main].next > N
    BY DEF Control!AllVisited
  <1>4. t < call[Main].next
    BY <1>2, <1>3, ControlFacts DEF ControlType, CallRecord
  <1>5. suspendLevel[t] > 0 /\ ~Control!Addressed(t)
    BY <1>2, <1>3, <1>4 DEF StoppedSoFar
  <1>6. ~Doomed(t) /\ "CANCEL" \notin signals[t]
    BY <1>1, <1>2 DEF Doomed, EndedOk
  <1>7. code[t] \in {"starting", "app", "locked", "scope"}
    BY <1>2 DEF ControlType
  <1>8. CASE code[t] = "starting"
    <2>1. Interrupted(t)
      BY <1>1, <1>2, <1>5, <1>6, <1>8 DEF Suspended, UnbornOk, Unborn
    <2> QED BY <1>5, <2>1 DEF Interrupted, Interrupts, Speaks, Control!Addressed, Control!Agents, Control!Threads
  <1>9. CASE code[t] \in {"app", "locked", "scope"}
    <2>1. alive
      BY DEF Control!AllVisited, Control!Executes
    <2> QED BY <1>1, <1>5, <1>6, <1>9, <2>1, LevelsAreTrue DEF Control!LevelIsTrue
  <1> QED BY <1>7, <1>8, <1>9

(* ThreadControl.ThreadsObey: when the command loop reports a process as stopped,  *)
(* every thread of it waits or has ended, and a thread whose level says it is       *)
(* suspended waits, unless the handshake of its suspension is under way or it is    *)
(* being stopped (Thread::suspend, resume, SuspendCallback, Process::stop).         *)
THEOREM ThreadsAlwaysObey == Spec => ThreadsObey
  <1>1. Init => ControlInv
    BY ControlInit, Assumptions DEF Init
  <1>2. ControlInv /\ [Next]_vars => ControlInv'
    <2>1. [Next]_vars => Control!Next \/ UNCHANGED threadVars
      BY DEF Next, vars, management
    <2> QED BY <2>1, ControlStep, Assumptions
  <1>3. ControlInv /\ ControlInv' => (Control!StopIsComplete /\ Control!LevelIsTrue')
    <2>1. ControlInv => Control!LevelIsTrue
      BY LevelsAreTrue, Assumptions
    <2>2. ControlInv' => Control!LevelIsTrue'
      BY <2>1, PTL
    <2> QED BY <2>2, StopsAreComplete, Assumptions
  <1> QED BY <1>1, <1>2, <1>3, PTL DEF Spec, ThreadsObey, Control!ThreadsObey

=================================================================================
