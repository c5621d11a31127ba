----------------------------- MODULE FaultReporting ----------------------------
(* Errors on their way from a thread of an application to the GSM, and back     *)
(* into the application's error handler: ErrorHandler in the application,       *)
(* FaultManager and LoggingManager in the GSM, message queues and one command   *)
(* between them.                                                                *)
(*                                                                              *)
(* m_ErrorInformation is one record of the process, written field by field by a *)
(* thread that raises an error and by the command that activates the handler;   *)
(* two fields stand for all.  An error is named by a number.                    *)
EXTENDS Naturals, Sequences

CONSTANTS Raisers,              \* threads of the application that raise errors and log
          Loggers,              \* threads of the GSM that write the log
          QueueSize,            \* OS_SIZE_OF_ERROR_QUEUE
          MaxErrors,            \* bounds the errors raised and the handler activations
          MaxLogs,              \* bounds the records written
          Nothing

Activation == [number : Nat, at : {"sent", "starting", "waiting"}, trigger : Nat]

FaultsAssumption == MaxErrors \in Nat /\ Nothing \notin Activation

VARIABLES information,          \* m_ErrorInformation: [code, thread], the error each field is of
          fresh,                \* m_HaveNewErrorInformation
          executing,            \* the static flag of raiseError()
          raising,              \* thread |-> [at, error]
          errorQueue, logQueue,
          raised,               \* errors raised so far
          activation,           \* the command under way: [number, at, state of the trigger]
          activations,
          handler,              \* thread 0: [at, of, sees, status]
          triggered,            \* m_ErrorHandlerTrigger
          handlerStatus,        \* m_ErrorHandlerReturnStatus: the activation it is the result of
          answered,             \* results returned: activation |-> whose status it is
          logFile, position,    \* records, and where the GSM's descriptor stands
          logging               \* thread of the GSM |-> the record about to be written

vars == <<information, fresh, executing, raising, errorQueue, logQueue, raised, activation, activations,
          handler, triggered, handlerStatus, answered, logFile, position, logging>>
raisers == <<executing, raising, errorQueue, logQueue, raised>>
handling == <<activation, activations, handler, triggered, handlerStatus, answered>>
logs == <<logFile, position, logging>>

Idle == [at |-> "idle", error |-> 0]
Dormant == [at |-> "dormant", of |-> 0, sees |-> Nothing]

Init ==
    /\ information = [code |-> 0, thread |-> 0] /\ fresh = FALSE
    /\ executing = FALSE /\ raising = [t \in Raisers |-> Idle]
    /\ errorQueue = <<>> /\ logQueue = <<>> /\ raised = 0
    /\ activation = Nothing /\ activations = 0 /\ handler = Dormant
    /\ triggered = 0 /\ handlerStatus = 0 /\ answered = <<>>
    /\ logFile = <<>> /\ position = 0 /\ logging = [l \in Loggers |-> Nothing]

--------------------------------------------------------------------------------
(* raiseError(): a second thread is turned away while the flag is set; testing  *)
(* and setting the flag are two steps.                                          *)
At(t, at) == raising[t].at = at
Goes(t, at, e) == raising' = [raising EXCEPT ![t] = [at |-> at, error |-> e]]

Test(t) ==
    /\ At(t, "idle") /\ raised < MaxErrors /\ ~executing
    /\ raised' = raised + 1 /\ Goes(t, "tested", raised + 1)
    /\ UNCHANGED <<information, fresh, executing, errorQueue, logQueue, handling, logs>>

Fill(t) ==
    \/ /\ At(t, "tested") /\ executing' = TRUE /\ Goes(t, "filling", raising[t].error)
       /\ information' = [information EXCEPT !.code = raising[t].error] /\ UNCHANGED fresh
    \/ /\ At(t, "filling") /\ Goes(t, "sending", raising[t].error) /\ UNCHANGED executing
       /\ information' = [information EXCEPT !.thread = raising[t].error] /\ fresh' = TRUE

raiseError(t) ==
    /\ Fill(t) /\ UNCHANGED <<errorQueue, logQueue, raised, handling, logs>>

\* the wait for a place in the queue is infinite
sendMessage(t) ==
    /\ At(t, "sending") /\ Len(errorQueue) < QueueSize
    /\ errorQueue' = Append(errorQueue, information)
    /\ executing' = FALSE /\ Goes(t, "idle", 0)
    /\ UNCHANGED <<information, fresh, logQueue, raised, handling, logs>>

(* logMessage() does not wait: at a full queue it times out, unreported.  No    *)
(* one takes messages from this queue, as getLogReport() returns an error       *)
(* before it reads it.                                                          *)
logMessage(t) ==
    /\ At(t, "idle") /\ Len(logQueue) < QueueSize /\ Len(logQueue) < MaxLogs
    /\ logQueue' = Append(logQueue, t)
    /\ UNCHANGED <<information, fresh, executing, raising, errorQueue, raised, handling, logs>>

(* getDebugErrorInformation() gives each error out once.                        *)
getDebugErrorInformation ==
    /\ fresh /\ fresh' = FALSE
    /\ UNCHANGED <<information, raisers, handling, logs>>

--------------------------------------------------------------------------------
(* The GSM takes an error from the queue, and may have it handled.  The command *)
(* is refused without a handler thread, which the application has here.         *)
getError ==
    /\ errorQueue # <<>> /\ errorQueue' = Tail(errorQueue)
    /\ UNCHANGED <<information, fresh, executing, raising, logQueue, raised, handling, logs>>

activateErrorHandler ==
    /\ activation = Nothing /\ activations < MaxErrors
    /\ activations' = activations + 1
    /\ activation' = [number |-> activations + 1, at |-> "sent", trigger |-> 0]
    /\ UNCHANGED <<information, fresh, raisers, handler, triggered, handlerStatus, answered, logs>>

\* results that are nobody's status
Refused == 0
TimedOut == MaxErrors + 1

Step(at) == activation # Nothing /\ activation.at = at
Answer(status) == answered' = Append(answered, status) /\ activation' = Nothing

(* ActivateErrorHandler(), executed by the command thread of the application.   *)
\* the error is numbered by its activation, after those raised
Stored == MaxErrors + activation.number

ActivateErrorHandler ==
    \/ /\ Step("sent") /\ information' = [code |-> Stored, thread |-> Stored] /\ fresh' = TRUE
       /\ activation' = [activation EXCEPT !.at = "starting", !.trigger = triggered]
       /\ UNCHANGED <<handler, answered>>
    \/ /\ Step("starting") /\ handler.at = "dormant"
       /\ handler' = [at |-> "running", of |-> activation.number, sees |-> Nothing]
       /\ activation' = [activation EXCEPT !.at = "waiting"]
       /\ UNCHANGED <<information, fresh, answered>>
    \/ /\ Step("starting") /\ handler.at # "dormant" /\ Answer(Refused)
       /\ UNCHANGED <<information, fresh, handler>>
    \/ /\ Step("waiting") /\ triggered > activation.trigger /\ Answer(handlerStatus)
       /\ UNCHANGED <<information, fresh, handler>>
    \/ /\ Step("waiting") /\ Answer(TimedOut)
       /\ UNCHANGED <<information, fresh, handler>>

Command == ActivateErrorHandler /\ UNCHANGED <<raisers, activations, triggered, handlerStatus, logs>>

(* The error handler reads the error and terminates with a status: the status   *)
(* is stored, the command thread woken, and only then the thread dormant.       *)
getErrorInformation ==
    /\ handler.at = "running" /\ handler.sees = Nothing
    /\ handler' = [handler EXCEPT !.sees = information]
    /\ UNCHANGED <<information, fresh, raisers, activation, activations, triggered, handlerStatus, answered, logs>>

\* an implementation that wakes the command thread before it stores the status
Bug_TerminateSteps == <<"trigger", "store", "end">>

TerminateSteps == <<"store", "trigger", "end">>

Done(step) ==
    /\ handlerStatus' = IF step = "store" THEN handler.of ELSE handlerStatus
    /\ triggered' = IF step = "trigger" THEN triggered + 1 ELSE triggered

terminateErrorHandler ==
    /\ \E k \in 1 .. 3 :
        /\ handler.at = IF k = 1 THEN "running" ELSE TerminateSteps[k - 1]
        /\ Done(TerminateSteps[k])
        /\ handler' = IF k = 3 THEN Dormant ELSE [handler EXCEPT !.at = TerminateSteps[k]]
    /\ UNCHANGED <<information, fresh, raisers, activation, activations, answered, logs>>

--------------------------------------------------------------------------------
(* The log: a record is written or read where the shared descriptor has been    *)
(* set to; record 0 stands for the end of the file.                             *)
Seek(id) == position' = IF id = 0 THEN Len(logFile) ELSE id

writeLog(l, id) ==
    /\ logging[l] = Nothing /\ Len(logFile) < MaxLogs
    /\ Seek(id) /\ logging' = [logging EXCEPT ![l] = id]
    /\ UNCHANGED <<information, fresh, raisers, handling, logFile>>

writeFile(l) ==
    /\ logging[l] # Nothing /\ position <= MaxLogs
    /\ logFile' = [k \in 1 .. (IF position + 1 > Len(logFile) THEN position + 1 ELSE Len(logFile)) |->
                     IF k = position + 1 THEN l ELSE IF k <= Len(logFile) THEN logFile[k] ELSE Nothing]
    /\ position' = position + 1 /\ logging' = [logging EXCEPT ![l] = Nothing]
    /\ UNCHANGED <<information, fresh, raisers, handling>>

\* reading at the end of the file finds nothing; otherwise the descriptor stands behind the record
readLog(id) ==
    /\ logFile # <<>>
    /\ position' = IF id = 0 THEN Len(logFile) ELSE IF id < Len(logFile) THEN id + 1 ELSE id
    /\ UNCHANGED <<information, fresh, raisers, handling, logFile, logging>>

Next ==
    \/ \E t \in Raisers : Test(t) \/ raiseError(t) \/ sendMessage(t) \/ logMessage(t)
    \/ getDebugErrorInformation \/ getError \/ activateErrorHandler
    \/ Command \/ getErrorInformation \/ terminateErrorHandler
    \/ \E l \in Loggers, id \in {0, 1} : writeLog(l, id)
    \/ \E l \in Loggers : writeFile(l)
    \/ \E id \in {0, 1} : readLog(id)

Spec == Init /\ [][Next]_vars

--------------------------------------------------------------------------------
(* What activateErrorHandler() returns as the status of the error handler is    *)
(* the status of the run this activation has started, as long as no activation  *)
(* before it gave up waiting.                                                   *)
StatusIsOwn ==
    \A k \in DOMAIN answered :
        (\A i \in 1 .. k - 1 : answered[i] # TimedOut) => answered[k] \in {k, Refused, TimedOut}

(* What the error handler reads is the error it was activated for               *)
(* (ErrorHandler::getErrorInformation).  The code does not keep this: the next  *)
(* error or activation overwrites the one record there is.                      *)
HandlerSeesItsError ==
    handler.sees # Nothing =>
        handler.sees = [code |-> MaxErrors + handler.of, thread |-> MaxErrors + handler.of]

================================================================================
