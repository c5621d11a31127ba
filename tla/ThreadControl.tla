----------------------------- MODULE ThreadControl -----------------------------
(* The threads of one process: src/OpenOSLib/Source/ProcessManagement           *)
(* Thread.cc, the thread part of Process.cc, and ProtectedScope.cc.             *)
(*                                                                              *)
(* An agent is a thread of the process, or Main, the command loop of            *)
(* Process::run(), which is no Thread object.  Suspending a thread is a         *)
(* handshake by signals: the suspender raises SUSPEND and spins on              *)
(* m_SuspendPending, the thread's signal handler clears it and waits for        *)
(* RESUME.  A thread inside a ProtectedScope cannot be interrupted and has to   *)
(* repeat the signal to itself when it leaves the scope.                        *)
EXTENDS Naturals, Sequences, FiniteSets

CONSTANTS
    N,            \* OS_MAX_NUMBER_OF_THREADS, the length of the thread table
    Main,         \* the command loop of the process
    None,         \* no agent
    CallSets,     \* the sets of calls an application may restrict itself to
    MaxCalls,     \* bound: calls each thread makes; Main makes one more
    MaxLevel      \* the unsigned levels wrap to this value below zero

Threads == 1 .. N
Agents == Threads \cup {Main}

ThreadsAssumption ==
    /\ N \in Nat \ {0}
    /\ Main \notin Threads
    /\ None \notin Agents
    /\ UNION CallSets \subseteq {"scope", "suspendSelf", "exit", "lock", "unlock", "start", "stop"}

VARIABLES
    calls,           \* the calls this application's threads make
    processStatus,   \* m_ProcessData->Status
    lockLevel,       \* m_ProcessData->LockLevel
    semaphore,       \* who holds m_Semaphore of the process
    status,          \* m_ThreadData->Status
    suspendLevel,    \* m_ThreadData->SuspendLevel
    suspendPending,  \* Thread::m_SuspendPending
    code,            \* where the posix thread is in its own code
    scopePending,    \* ProtectedScope::m_SuspendPending of its innermost scope
    frames,          \* the calls of waitForSignal(RESUME) on its stack
    signals,         \* signals raised for it and not delivered yet
    handler,         \* the thread whose wait installed the null handler of RESUME
    call,            \* the call each agent is executing
    budget,          \* calls each agent may still make
    alive            \* the process has not been killed by a signal

vars == <<calls, processStatus, lockLevel, semaphore, status, suspendLevel, suspendPending,
          code, scopePending, frames, signals, handler, call, budget, alive>>
threadVars == <<calls, code, scopePending, frames, signals, handler, alive>>

Idle == [op |-> "none", next |-> 0, phase |-> "none"]

(* A process that has not been run yet, or one whose threads are all started.   *)
Init ==
    /\ calls \in CallSets
    /\ processStatus \in {"INITIALIZED", "RUNNING"}
    /\ lockLevel = 0
    /\ semaphore = None
    /\ status = [t \in Threads |-> IF processStatus = "RUNNING" THEN "RUNNING" ELSE "DORMANT"]
    /\ suspendLevel = [t \in Threads |-> 0]
    /\ suspendPending = [t \in Threads |-> FALSE]
    /\ code = [t \in Threads |-> IF processStatus = "RUNNING" THEN "app" ELSE "none"]
    /\ scopePending = [t \in Threads |-> FALSE]
    /\ frames = [t \in Threads |-> <<>>]
    /\ signals = [t \in Threads |-> {}]
    /\ handler = None
    /\ call = [a \in Agents |-> Idle]
    /\ budget = [a \in Agents |-> IF a = Main THEN MaxCalls + 1 ELSE MaxCalls]
    /\ alive = TRUE

(* An agent executes its own code while no signal handler runs on its stack.   *)
Executes(a) == alive /\ (a \in Threads => code[a] # "none" /\ frames[a] = <<>>)
Free(a, name) ==
    /\ Executes(a) /\ call[a] = Idle /\ budget[a] > 0
    /\ a \in Threads => code[a] = "app" /\ name \in calls
Spend(a) == budget' = [budget EXCEPT ![a] = @ - 1]
Decrement(level) == IF level = 0 THEN MaxLevel ELSE level - 1

--------------------------------------------------------------------------------
(* Protected scopes around a lock other than the semaphore of the process: the *)
(* constructor locks and reads m_SuspendPending, and only then disables         *)
(* cancellation; the destructor releases, enables it again and repeats a        *)
(* suspension that was asked for in the meantime.                               *)

LockScope(t) ==
    /\ Free(t, "scope")
    /\ Spend(t)
    /\ code' = [code EXCEPT ![t] = "locked"]
    /\ scopePending' = [scopePending EXCEPT ![t] = suspendPending[t]]
    /\ UNCHANGED <<calls, processStatus, lockLevel, semaphore, status, suspendLevel,
                   suspendPending, frames, signals, handler, call, alive>>

EnterProtectedScope(t) ==
    /\ Executes(t) /\ code[t] = "locked"
    /\ code' = [code EXCEPT ![t] = "scope"]
    /\ UNCHANGED <<calls, processStatus, lockLevel, semaphore, status, suspendLevel, suspendPending,
                   scopePending, frames, signals, handler, call, budget, alive>>

RepeatedSignal(t) == IF suspendPending[t] /\ ~scopePending[t] THEN {"SUSPEND"} ELSE {}

ExitProtectedScope(t) ==
    /\ Executes(t) /\ code[t] = "scope"
    /\ code' = [code EXCEPT ![t] = "app"]
    /\ signals' = [signals EXCEPT ![t] = @ \cup RepeatedSignal(t)]
    /\ UNCHANGED <<calls, processStatus, lockLevel, semaphore, status, suspendLevel, suspendPending,
                   scopePending, frames, handler, call, budget, alive>>

--------------------------------------------------------------------------------
(* Signals.                                                                     *)

(* SuspendCallback(): nothing in a protected scope, else the switch suspend()   *)
(* waits for is cleared and the thread goes to wait for RESUME.                 *)
SuspendCallback(t) ==
    /\ alive /\ "SUSPEND" \in signals[t] /\ code[t] # "none"
    /\ signals' = [signals EXCEPT ![t] = @ \ {"SUSPEND"}]
    /\ IF code[t] = "scope" THEN UNCHANGED <<suspendPending, frames>>
       ELSE /\ suspendPending' = [suspendPending EXCEPT ![t] = FALSE]
            /\ frames' = [frames EXCEPT ![t] = Append(@, "called")]
    /\ UNCHANGED <<calls, processStatus, lockLevel, semaphore, status, suspendLevel, code,
                   scopePending, handler, call, budget, alive>>

Top(t) == frames[t][Len(frames[t])]
Pop(t) == SubSeq(frames[t], 1, Len(frames[t]) - 1)
In(t, where) == frames[t] # <<>> /\ Top(t) = where

(* waitForSignal(RESUME): a null handler is installed unless there is one.      *)
WaitForSignal(t) ==
    /\ alive /\ In(t, "called")
    /\ frames' = [frames EXCEPT ![t] = Append(Pop(t), "waiting")]
    /\ handler' = IF handler = None THEN t ELSE handler
    /\ UNCHANGED <<calls, processStatus, lockLevel, semaphore, status, suspendLevel, suspendPending,
                   code, scopePending, signals, call, budget, alive>>

(* RESUME wakes a thread that waits for it.  A thread that does not wait loses  *)
(* it to the null handler another thread's wait has installed; with no handler  *)
(* the default action of a realtime signal ends the process.                    *)
ResumeDelivered(t) ==
    /\ alive /\ "RESUME" \in signals[t] /\ code[t] # "none"
    /\ signals' = [signals EXCEPT ![t] = @ \ {"RESUME"}]
    /\ \/ /\ In(t, "waiting")
          /\ frames' = [frames EXCEPT ![t] = Append(Pop(t), "woken")]
          /\ handler' = IF handler = t THEN None ELSE handler
          /\ UNCHANGED alive
       \/ /\ ~In(t, "waiting")
          /\ alive' = (handler # None)
          /\ UNCHANGED <<frames, handler>>
    /\ UNCHANGED <<calls, processStatus, lockLevel, semaphore, status, suspendLevel, suspendPending,
                   code, scopePending, call, budget>>

(* The wait returned: the switch resume() waits for is cleared.                 *)
WakeUp(t) ==
    /\ alive /\ In(t, "woken")
    /\ frames' = [frames EXCEPT ![t] = Pop(t)]
    /\ suspendPending' = [suspendPending EXCEPT ![t] = FALSE]
    /\ UNCHANGED <<calls, processStatus, lockLevel, semaphore, status, suspendLevel, code,
                   scopePending, signals, handler, call, budget, alive>>

--------------------------------------------------------------------------------
(* The beginning and the end of a thread.                                       *)

(* Thread::start(): the posix thread exists before the status says RUNNING.     *)
(* Main starts thread 1 in run(); a thread may start a dormant one.             *)
Start(a, t) ==
    /\ IF a = Main THEN Executes(a) /\ call[a] = Idle /\ processStatus = "INITIALIZED" /\ t = 1
       ELSE Free(a, "start") /\ t # a
    /\ status[t] = "DORMANT" /\ code[t] = "none"
    /\ budget' = IF a = Main THEN budget ELSE [budget EXCEPT ![a] = @ - 1]
    /\ processStatus' = IF a = Main THEN "RUNNING" ELSE processStatus
    /\ code' = [code EXCEPT ![t] = "starting"]
    /\ call' = [call EXCEPT ![a] = [op |-> "start", next |-> t, phase |-> "mark"]]
    /\ UNCHANGED <<calls, lockLevel, semaphore, status, suspendLevel, suspendPending,
                   scopePending, frames, signals, handler, alive>>

StartReturns(a) ==
    /\ Executes(a) /\ call[a].op = "start"
    /\ status' = [status EXCEPT ![call[a].next] = "RUNNING"]
    /\ call' = [call EXCEPT ![a] = Idle]
    /\ UNCHANGED <<calls, processStatus, lockLevel, semaphore, suspendLevel, suspendPending,
                   budget, code, scopePending, frames, signals, handler, alive>>

Bug_StartSuspendedThread(t) ==
    /\ Executes(t) /\ code[t] = "starting"
    /\ code' = [code EXCEPT ![t] = "app"]
    /\ UNCHANGED <<calls, processStatus, lockLevel, semaphore, status, suspendLevel, suspendPending,
                   frames, scopePending, signals, handler, call, budget, alive>>

(* ThreadStartWrapper(): a thread that was suspended while it was dormant       *)
(* emulates the signal it did not get.                                          *)
ThreadStartWrapper(t) ==
    /\ Executes(t) /\ code[t] = "starting"
    /\ code' = [code EXCEPT ![t] = "app"]
    /\ IF suspendLevel[t] = 0 THEN UNCHANGED <<suspendPending, frames>>
       ELSE /\ suspendPending' = [suspendPending EXCEPT ![t] = FALSE]
            /\ frames' = [frames EXCEPT ![t] = <<"called">>]
    /\ UNCHANGED <<calls, processStatus, lockLevel, semaphore, status, suspendLevel, scopePending,
                   signals, handler, call, budget, alive>>

(* The entry point returns, or the thread calls terminateSelf().                *)
TerminateSelf(t) ==
    /\ Free(t, "exit")
    /\ Spend(t)
    /\ status' = [status EXCEPT ![t] = "DORMANT"]
    /\ code' = [code EXCEPT ![t] = "none"]
    /\ signals' = [signals EXCEPT ![t] = {}]
    /\ UNCHANGED <<calls, processStatus, lockLevel, semaphore, suspendLevel, suspendPending,
                   scopePending, frames, handler, call, alive>>

(* Thread::stop(): RESUME, cancel, join.                                        *)
Stop(a, t) ==
    /\ a # Main /\ t # a /\ Free(a, "stop") /\ status[t] # "DORMANT" /\ code[t] # "none"
    /\ Spend(a)
    /\ signals' = [signals EXCEPT ![t] = @ \cup {"RESUME", "CANCEL"}]
    /\ call' = [call EXCEPT ![a] = [op |-> "stop", next |-> t, phase |-> "join"]]
    /\ UNCHANGED <<calls, processStatus, lockLevel, semaphore, status, suspendLevel, suspendPending,
                   code, scopePending, frames, handler, alive>>

(* The cancellation, at a point where it is enabled.                            *)
Cancelled(t) ==
    /\ alive /\ "CANCEL" \in signals[t] /\ "RESUME" \notin signals[t]
    /\ code[t] \in {"starting", "app", "locked"} /\ semaphore # t
    /\ code' = [code EXCEPT ![t] = "none"]
    /\ frames' = [frames EXCEPT ![t] = <<>>]
    /\ signals' = [signals EXCEPT ![t] = {}]
    /\ handler' = IF handler = t THEN None ELSE handler
    /\ call' = [call EXCEPT ![t] = Idle]
    /\ UNCHANGED <<calls, processStatus, lockLevel, semaphore, status, suspendLevel, suspendPending,
                   scopePending, budget, alive>>

StopReturns(a) ==
    /\ Executes(a) /\ call[a].op = "stop"
    /\ code[call[a].next] = "none"
    /\ status' = [status EXCEPT ![call[a].next] = "DORMANT"]
    /\ call' = [call EXCEPT ![a] = Idle]
    /\ UNCHANGED <<calls, processStatus, lockLevel, semaphore, suspendLevel, suspendPending, code,
                   scopePending, frames, signals, handler, budget, alive>>

(* APOS suspendSelf(): refused while preemption is locked.                      *)
SuspendedSelf(t) ==
    IF lockLevel > 0 THEN UNCHANGED <<suspendLevel, frames>>
    ELSE /\ suspendLevel' = [suspendLevel EXCEPT ![t] = 1]
         /\ frames' = [frames EXCEPT ![t] = <<"called">>]

SuspendSelf(t) ==
    /\ Free(t, "suspendSelf")
    /\ Spend(t)
    /\ SuspendedSelf(t)
    /\ UNCHANGED <<calls, processStatus, lockLevel, semaphore, status, suspendPending, code,
                   scopePending, signals, handler, call, alive>>

--------------------------------------------------------------------------------
(* suspendAllThreads() and resumeAllThreads(), thread by thread.                *)

Visiting(op) == [op |-> op, next |-> 1, phase |-> "visit"]
Go(a, phase) == call' = [call EXCEPT ![a].phase = phase]
NextThread(a) == call' = [call EXCEPT ![a].next = @ + 1, ![a].phase = "visit"]
Throw(a) == call' = [call EXCEPT ![a] = Idle]
At(a, op, phase) == Executes(a) /\ call[a].op = op /\ call[a].phase = phase /\ call[a].next <= N

(* Process::stop() by its handler, and run() of a stopped process.              *)
StopProcess ==
    /\ Free(Main, "") /\ processStatus = "RUNNING"
    /\ Spend(Main)
    /\ call' = [call EXCEPT ![Main] = Visiting("suspendAll")]
    /\ UNCHANGED <<processStatus, lockLevel, semaphore, status, suspendLevel, suspendPending>>
    /\ UNCHANGED threadVars

RunProcess ==
    /\ Free(Main, "") /\ processStatus = "STOPPED"
    /\ Spend(Main)
    /\ call' = [call EXCEPT ![Main] = Visiting("resumeAll")]
    /\ UNCHANGED <<processStatus, lockLevel, semaphore, status, suspendLevel, suspendPending>>
    /\ UNCHANGED threadVars

LockThreadPreemption(t) ==
    /\ Free(t, "lock") /\ t # Main /\ semaphore = None
    /\ Spend(t)
    /\ lockLevel' = lockLevel + 1
    /\ call' = [call EXCEPT ![t] = Visiting("suspendAll")]
    /\ UNCHANGED <<processStatus, semaphore, status, suspendLevel, suspendPending>>
    /\ UNCHANGED threadVars

UnlockThreadPreemption(t) ==
    /\ Free(t, "unlock") /\ t # Main /\ semaphore = None
    /\ Spend(t)
    /\ lockLevel' = Decrement(lockLevel)
    /\ call' = [call EXCEPT ![t] = Visiting("resumeAll")]
    /\ UNCHANGED <<processStatus, semaphore, status, suspendLevel, suspendPending>>
    /\ UNCHANGED threadVars

(* One round of either loop: dormant threads are passed over, and the calling   *)
(* thread too when it suspends; resume() of the calling thread throws.          *)
Visit(a) ==
    /\ \E op \in {"suspendAll", "resumeAll"} : At(a, op, "visit")
    /\ LET t == call[a].next IN
       IF status[t] = "DORMANT" \/ (t = a /\ call[a].op = "suspendAll") THEN NextThread(a)
       ELSE IF t = a THEN Throw(a)
       ELSE Go(a, "enter")
    /\ UNCHANGED <<processStatus, lockLevel, semaphore, status, suspendLevel, suspendPending, budget>>
    /\ UNCHANGED threadVars

(* Thread::suspend(): the first level asks for the interruption.                *)
Suspend(a) ==
    /\ At(a, "suspendAll", "enter")
    /\ LET t == call[a].next IN
       IF status[t] = "DORMANT"
       THEN Throw(a) /\ UNCHANGED <<semaphore, suspendLevel, suspendPending>>
       ELSE /\ semaphore = None
            /\ suspendLevel' = [suspendLevel EXCEPT ![t] = @ + 1]
            /\ IF suspendLevel[t] = 0
               THEN /\ suspendPending' = [suspendPending EXCEPT ![t] = TRUE]
                    /\ semaphore' = a
                    /\ Go(a, "raise")
               ELSE NextThread(a) /\ UNCHANGED <<suspendPending, semaphore>>
    /\ UNCHANGED <<processStatus, lockLevel, status, budget>>
    /\ UNCHANGED threadVars

(* Thread::resume() tests the state and the level before it locks.              *)
ResumeTests(a) ==
    /\ At(a, "resumeAll", "enter")
    /\ LET t == call[a].next IN
       IF status[t] = "DORMANT" \/ suspendLevel[t] = 0 THEN Throw(a) ELSE Go(a, "resume")
    /\ UNCHANGED <<processStatus, lockLevel, semaphore, status, suspendLevel, suspendPending, budget>>
    /\ UNCHANGED threadVars

Resume(a) ==
    /\ At(a, "resumeAll", "resume") /\ semaphore = None
    /\ LET t == call[a].next IN
       /\ suspendLevel' = [suspendLevel EXCEPT ![t] = Decrement(@)]
       /\ IF suspendLevel'[t] = 0
          THEN /\ suspendPending' = [suspendPending EXCEPT ![t] = TRUE]
               /\ semaphore' = a
               /\ Go(a, "raise")
          ELSE NextThread(a) /\ UNCHANGED <<suspendPending, semaphore>>
    /\ UNCHANGED <<processStatus, lockLevel, status, budget>>
    /\ UNCHANGED threadVars

(* pthread_kill() fails when the posix thread has ended.                        *)
RaiseSignal(a) ==
    /\ \E op \in {"suspendAll", "resumeAll"} : At(a, op, "raise")
    /\ LET t == call[a].next IN
       IF code[t] = "none"
       THEN Throw(a) /\ semaphore' = None /\ UNCHANGED signals
       ELSE /\ signals' = [signals EXCEPT ![t] = @ \cup
                              {IF call[a].op = "suspendAll" THEN "SUSPEND" ELSE "RESUME"}]
            /\ Go(a, "spin")
            /\ UNCHANGED semaphore
    /\ UNCHANGED <<calls, processStatus, lockLevel, status, suspendLevel, suspendPending, code,
                   scopePending, frames, handler, budget, alive>>

Bug_SpinNotAwaited(a) ==
    /\ \E op \in {"suspendAll", "resumeAll"} : At(a, op, "spin")
    /\ semaphore' = None
    /\ NextThread(a)
    /\ UNCHANGED <<processStatus, lockLevel, status, suspendLevel, suspendPending, budget>>
    /\ UNCHANGED threadVars

(* while (m_SuspendPending) sched_yield(), the semaphore held.                  *)
SpinEnds(a) ==
    /\ \E op \in {"suspendAll", "resumeAll"} : At(a, op, "spin")
    /\ ~suspendPending[call[a].next]
    /\ semaphore' = None
    /\ NextThread(a)
    /\ UNCHANGED <<processStatus, lockLevel, status, suspendLevel, suspendPending, budget>>
    /\ UNCHANGED threadVars

(* After the last thread: the state of the process; suspendAllThreads() ends    *)
(* with the suspension of the calling thread.                                   *)
AllVisited(a) ==
    /\ Executes(a) /\ call[a].op \in {"suspendAll", "resumeAll"} /\ call[a].next > N
    /\ call' = [call EXCEPT ![a] = Idle]
    /\ processStatus' = IF call[a].op = "suspendAll" THEN "STOPPED" ELSE "RUNNING"
    /\ IF call[a].op = "suspendAll" /\ a # Main THEN SuspendedSelf(a)
       ELSE UNCHANGED <<suspendLevel, frames>>
    /\ UNCHANGED <<calls, lockLevel, semaphore, status, suspendPending, code, scopePending, signals,
                   handler, budget, alive>>

--------------------------------------------------------------------------------
Next ==
    \/ \E t \in Threads :
          \/ LockScope(t) \/ EnterProtectedScope(t) \/ ExitProtectedScope(t)
          \/ SuspendCallback(t) \/ WaitForSignal(t) \/ ResumeDelivered(t) \/ WakeUp(t)
          \/ ThreadStartWrapper(t) \/ TerminateSelf(t) \/ Cancelled(t) \/ SuspendSelf(t)
          \/ LockThreadPreemption(t) \/ UnlockThreadPreemption(t)
    \/ \E a \in Agents :
          \/ \E t \in Threads : Start(a, t) \/ Stop(a, t)
          \/ StartReturns(a) \/ StopReturns(a)
          \/ Visit(a) \/ Suspend(a) \/ ResumeTests(a) \/ Resume(a) \/ RaiseSignal(a)
          \/ SpinEnds(a) \/ AllVisited(a)
    \/ StopProcess \/ RunProcess

Spec == Init /\ [][Next]_vars

--------------------------------------------------------------------------------
StandsStill(t) == frames[t] # <<>> \/ code[t] = "none"

(* When the command loop reports a process as stopped, no thread of it goes on. *)
StopIsComplete ==
    AllVisited(Main) /\ processStatus' = "STOPPED"
      /\ calls \cap {"start", "stop", "unlock"} = {}
        => \A t \in Threads : StandsStill(t)

Addressed(t) == \E a \in Agents : call[a].next = t /\ call[a].phase \in {"raise", "spin"}

(* Left out are applications that unlock preemption, as resume() tests the level   *)
(* before it locks, and two of them bring it below zero; that both stop and start    *)
(* threads, as a RESUME that was meant for a stopped thread can reach the one         *)
(* started in its place and wake it too early; and whose threads end, are started    *)
(* again and suspend themselves, as a RESUME that was meant to end an old suspension  *)
(* can end their own.                                                                *)
Orderly ==
    /\ "unlock" \notin calls /\ ~({"start", "stop"} \subseteq calls)
    /\ ~({"start", "exit", "suspendSelf"} \subseteq calls)

(* A thread the levels count as suspended stands still, unless the handshake of  *)
(* its suspension is under way or it is being stopped.                           *)
LevelIsTrue ==
    \A t \in Threads :
        /\ Orderly /\ alive /\ suspendLevel[t] > 0 /\ code[t] \in {"app", "locked", "scope"}
        /\ ~Addressed(t) /\ "CANCEL" \notin signals[t]
        => frames[t] # <<>>

(* Both, at every step: what the levels and the status of the process say is what *)
(* the threads do.                                                               *)
ThreadsObey == [][StopIsComplete /\ LevelIsTrue']_vars

(* The signal handler leaves an interruption alone in a protected scope, and    *)
(* the scope repeats it: the suspender never spins for nothing.  The code does  *)
(* not keep this: a scope that locks while the signal is on its way takes the   *)
(* switch for an old one and does not repeat it.                                *)
InterruptionRepeated ==
    \A t \in Threads :
        (\E a \in Agents : At(a, "suspendAll", "spin") /\ call[a].next = t)
        /\ suspendPending[t] /\ code[t] # "none"
            => \/ "SUSPEND" \in signals[t]
               \/ code[t] = "scope" /\ ~scopePending[t]

================================================================================
