------------------------ MODULE SimpleCommandInterface ------------------------
(***************************************************************************)
(* SimpleCommandInterface: remote procedure calls through one block of     *)
(* shared memory (m_CommandData), an Event that is set while the block     *)
(* holds a request and reset when it holds the answer, and the command     *)
(* semaphore that admits one sender at a time.                             *)
(*                                                                         *)
(* The server is a process of the entity, as Process::launch and           *)
(* Process::run drive it: the process starter handles commands until it is *)
(* told to run, then executes the application's program, which handles     *)
(* commands in its own main loop until it is told to terminate.  Between   *)
(* the two nobody handles commands.                                        *)
(*                                                                         *)
(* A sender's timeout is one instant for all the waits of one call.  A     *)
(* wait whose condition holds on entry does not sleep; one that sleeps may *)
(* report a timeout also when the event has changed meanwhile              *)
(* (Event::waitForEventStatus).  The clock is abstracted: the instant may  *)
(* come at any moment for a sender that is not Patient.                    *)
(***************************************************************************)
EXTENDS Naturals, Sequences

CONSTANTS
  Senders,
  Patient,     \* senders that pass TimeInfinity
  OneWay,      \* senders that call sendCommandNonblocking
  Command,     \* command identifiers, among them "run" and "terminate"
  Handled,     \* Handled[phase]: commands the program of that phase has handlers for
  MaxCalls     \* bound: calls made by one sender

INVALID_HANDLER == "INVALID_HANDLER"
Phase == {"starter", "application"}

ASSUME CommandAssumption ==
  /\ Patient \subseteq Senders /\ OneWay \subseteq Senders
  /\ Patient \cap OneWay = {}    \* sendCommandNonblocking waits one second at most
  /\ {"run", "terminate"} \subseteq Command
  /\ INVALID_HANDLER \notin Command /\ "nobody" \notin Senders
  /\ Handled \in [Phase -> SUBSET Command]
  /\ MaxCalls \in Nat

VARIABLES
  EventSet,          \* m_SendReceiveEvent
  Identifier,        \* m_CommandData->Identifier
  Buffer,            \* m_CommandData->Buffer: the call it belongs to, and request or reply
  CommandSemaphore,  \* its holder, "nobody" if it is free
  phase,             \* what the server process runs: a Phase, "exec" or "ended"
  spc,               \* where the server is in handleOneCommand
  CommandId,         \* the identifier the server has read
  pc,                \* where each sender is
  sending,           \* the command of each sender's latest call
  calls, result, executed, refused   \* as in RemoteCall

dataVars   == <<EventSet, Identifier, Buffer>>
serverVars == <<phase, spc, CommandId>>
senderVars == <<pc, sending, calls, result>>
logVars    == <<executed, refused>>
vars == <<dataVars, CommandSemaphore, serverVars, senderVars, logVars>>

NoCall == <<>>

Init ==
  /\ EventSet = FALSE
  /\ Identifier = "none"
  /\ Buffer = [call |-> NoCall, kind |-> "reply"]
  /\ CommandSemaphore = "nobody"
  /\ phase = "starter"
  /\ spc = "wait"
  /\ CommandId = "none"
  /\ pc = [p \in Senders |-> "idle"]
  /\ sending = [p \in Senders |-> "none"]
  /\ calls = [p \in Senders |-> 0]
  /\ result = [p \in Senders |-> "none"]
  /\ executed = <<>>
  /\ refused = {}

Goto(p, from, to) == pc[p] = from /\ pc' = [pc EXCEPT ![p] = to]

----------------------------------------------------------------------------
(* sendCommand() and sendCommandNonblocking() *)

Send(p, c) ==
  /\ calls[p] < MaxCalls
  /\ Goto(p, "idle", "semaphore")
  /\ sending' = [sending EXCEPT ![p] = c]
  /\ calls' = [calls EXCEPT ![p] = @ + 1]
  /\ result' = [result EXCEPT ![p] = "open"]
  /\ UNCHANGED <<dataVars, CommandSemaphore, serverVars, logVars>>

\* ProtectedScope on m_CommandSemaphore
Claim(p) ==
  /\ Goto(p, "semaphore", "before")
  /\ CommandSemaphore = "nobody"
  /\ CommandSemaphore' = p
  /\ UNCHANGED <<dataVars, serverVars, sending, calls, result, logVars>>

\* (Bug: the request is written without waiting for the event to be reset.)
Bug_WriteAtOnce(p) ==
  /\ Goto(p, "before", "set")
  /\ Identifier' = sending[p]
  /\ Buffer' = [call |-> <<p, calls[p]>>, kind |-> "request"]
  /\ UNCHANGED <<EventSet, CommandSemaphore, serverVars, sending, calls, result, logVars>>

\* The first waitForEventReset(); then the request is written.
Write(p) ==
  /\ Goto(p, "before", "set")
  /\ ~EventSet
  /\ Identifier' = sending[p]
  /\ Buffer' = [call |-> <<p, calls[p]>>, kind |-> "request"]
  /\ UNCHANGED <<EventSet, CommandSemaphore, serverVars, sending, calls, result, logVars>>

Leave(p, r) ==
  /\ CommandSemaphore' = "nobody"
  /\ result' = [result EXCEPT ![p] = r]

\* setEvent(); a nonblocking sender leaves with it.
SetEvent(p) ==
  /\ EventSet' = TRUE
  /\ IF p \in OneWay
     THEN Goto(p, "set", "idle") /\ Leave(p, "sent")
     ELSE Goto(p, "set", "after") /\ UNCHANGED <<CommandSemaphore, result>>
  /\ UNCHANGED <<Identifier, Buffer, serverVars, sending, calls, logVars>>

\* The second waitForEventReset(): the answer is there.
Answered(p) ==
  /\ Goto(p, "after", "read")
  /\ ~EventSet
  /\ UNCHANGED <<dataVars, CommandSemaphore, serverVars, sending, calls, result, logVars>>

\* The identifier is compared and the reply copied.
Read(p) ==
  /\ Goto(p, "read", "idle")
  /\ Leave(p, IF Identifier = sending[p] THEN "success" ELSE "error")
  /\ UNCHANGED <<dataVars, serverVars, sending, calls, logVars>>

\* A wait ends in a TimeoutException; the request is not withdrawn.  The timeout
\* of sendCommandNonblocking does not cover the wait for the semaphore.
Timeout(p) ==
  /\ p \notin Patient
  /\ pc[p] \in {"semaphore", "before", "after"}
  /\ pc[p] = "semaphore" => p \notin OneWay
  /\ pc' = [pc EXCEPT ![p] = "idle"]
  /\ IF pc[p] = "semaphore"
     THEN result' = [result EXCEPT ![p] = "timeout"] /\ UNCHANGED CommandSemaphore
     ELSE Leave(p, "timeout")
  /\ UNCHANGED <<dataVars, serverVars, sending, calls, logVars>>

----------------------------------------------------------------------------
(* The server: handleOneCommand() in the loops of launch() and run() *)

\* (Bug: the server does not wait for the event.)
Bug_DoNotWait ==
  /\ phase \in Phase /\ spc = "wait"
  /\ CommandId' = Identifier
  /\ spc' = "handle"
  /\ UNCHANGED <<dataVars, CommandSemaphore, phase, senderVars, logVars>>

\* waitForEvent(), then the identifier is read.
WaitForEvent ==
  /\ phase \in Phase /\ spc = "wait"
  /\ EventSet
  /\ CommandId' = Identifier
  /\ spc' = "handle"
  /\ UNCHANGED <<dataVars, CommandSemaphore, phase, senderVars, logVars>>

\* The handler works on the shared buffer.
Handle ==
  /\ spc = "handle"
  /\ IF Identifier \in Handled[phase]
     THEN /\ executed' = Append(executed, Buffer.call)
          /\ Buffer' = [Buffer EXCEPT !.kind = "reply"]
          /\ UNCHANGED <<Identifier, refused>>
     ELSE /\ Identifier' = INVALID_HANDLER
          /\ refused' = refused \cup {Buffer.call}
          /\ UNCHANGED <<Buffer, executed>>
  /\ spc' = "reset"
  /\ UNCHANGED <<EventSet, CommandSemaphore, phase, CommandId, senderVars>>

\* What the loop around handleOneCommand does after the command.
PhaseAfter(c) ==
  CASE c = "terminate"                      -> "ended"
    [] phase = "starter" /\ c = "run"       -> "exec"
    [] OTHER                                -> phase

\* (Bug: the event is not reset when there was no handler for the command.)
Bug_ResetOnlyHandled ==
  /\ spc = "reset"
  /\ EventSet' = (Identifier = INVALID_HANDLER)
  /\ phase' = PhaseAfter(CommandId)
  /\ spc' = "wait"
  /\ UNCHANGED <<Identifier, Buffer, CommandSemaphore, CommandId, senderVars, logVars>>

ResetEvent ==
  /\ spc = "reset"
  /\ EventSet' = FALSE
  /\ phase' = PhaseAfter(CommandId)
  /\ spc' = "wait"
  /\ UNCHANGED <<Identifier, Buffer, CommandSemaphore, CommandId, senderVars, logVars>>

\* The executed program has initialised itself and entered Process::run.
EnterMainLoop ==
  /\ phase = "exec"
  /\ phase' = "application"
  /\ UNCHANGED <<dataVars, CommandSemaphore, spc, CommandId, senderVars, logVars>>

----------------------------------------------------------------------------
sendCommand(p) ==
  \/ \E c \in Command : Send(p, c)
  \/ Claim(p) \/ Write(p) \/ SetEvent(p) \/ Answered(p) \/ Read(p) \/ Timeout(p)

handleOneCommand == WaitForEvent \/ Handle \/ ResetEvent

Next == (\E p \in Senders : sendCommand(p)) \/ handleOneCommand \/ EnterMainLoop

Spec == Init /\ [][Next]_vars

\* The server's loop and a sender inside a call are threads that run, and a
\* timeout that can pass passes.  The semaphore is not fair, but the calls that
\* compete for it are finitely many (MaxCalls).
Fairness ==
  /\ WF_vars(handleOneCommand) /\ WF_vars(EnterMainLoop)
  /\ \A p \in Senders : WF_vars(pc[p] /= "idle" /\ sendCommand(p))
FairSpec == Spec /\ Fairness

----------------------------------------------------------------------------
Call == Senders \X (1 .. MaxCalls)

TypeOK ==
  /\ EventSet \in BOOLEAN
  /\ Identifier \in Command \cup {"none", INVALID_HANDLER}
  /\ Buffer \in [call : Call \cup {NoCall}, kind : {"request", "reply"}]
  /\ CommandSemaphore \in Senders \cup {"nobody"}
  /\ phase \in Phase \cup {"exec", "ended"}
  /\ spc \in {"wait", "handle", "reset"}
  /\ CommandId \in Command \cup {"none"}
  /\ pc \in [Senders -> {"idle", "semaphore", "before", "set", "after", "read"}]
  /\ sending \in [Senders -> Command \cup {"none"}]
  /\ calls \in [Senders -> 0 .. MaxCalls]
  /\ result \in [Senders -> {"none", "open", "sent", "success", "error", "timeout"}]
  /\ executed \in Seq(Call)
  /\ refused \subseteq Call

\* A sender that has its answer reads the answer to its own call, also when
\* senders before it have given up while their commands were still pending or in
\* the handler ("Error receiving reply: false CommandIdentifier" never happens).
ReplyIsOwn ==
  \A p \in Senders : pc[p] = "read" =>
    /\ Identifier \in {sending[p], INVALID_HANDLER}
    /\ Buffer.call = <<p, calls[p]>>
    /\ Identifier /= INVALID_HANDLER => Buffer.kind = "reply"

\* The data block is not written while the server uses it: the handler sees the
\* request the server was woken for.
RequestIsStable == [][ spc = "handle" /\ spc' = "handle" => UNCHANGED <<Identifier, Buffer>> ]_vars

\* No command is executed twice, and the commands of one sender are executed in
\* the order in which it sent them, also when it gave up waiting for the earlier
\* one and while the server changes over from the starter to the application.
ExecutedInOrder ==
  \A i, j \in DOMAIN executed :
    i < j /\ executed[i][1] = executed[j][1] => executed[i][2] < executed[j][2]

Abstract == INSTANCE RemoteCall WITH executed <- {executed[i] : i \in DOMAIN executed}

\* Calls through the interface behave as RemoteCall.tla describes.
ImplementsRemoteCall == Abstract!Spec

\* "The client copies the reply data back [...] and returns": every call comes
\* to an end as long as the server has not been told to terminate, also across the
\* gap between the starter and the application.
CallReturns == \A p \in Senders : pc[p] = "semaphore" ~> (pc[p] = "idle" \/ phase = "ended")
===============================================================================
