--------------------------- MODULE GlobalVcMapping ---------------------------
(***************************************************************************)
(* Attaching and removing the local vcs of a global virtual channel        *)
(* (GlobalVc::createLocalVc, removeLocalVc) while others send over it.     *)
(*                                                                         *)
(* The slot table, the counters and the queues are in shared memory; the   *)
(* LocalVc object of a slot is not: every process has one of its own,      *)
(* which it initialises when it first finds the slot in use and which only *)
(* that process can deinitialise.  A manager (the GSM) that attaches or    *)
(* removes a local vc holds the action semaphore while it sends a command  *)
(* to the application process and waits for the answer, at most one second.*)
(*                                                                         *)
(* The command interface is reduced to one pending command per             *)
(* application; SimpleCommandInterface.tla models it.  All queues refuse   *)
(* (is_refusing_queue) and count their messages only.                      *)
(***************************************************************************)
EXTENDS Integers, FiniteSets, FiniteSetsExt

CONSTANTS
  MaxAttached,   \* max_number_of_threads_attached
  MaxBuffers,    \* max_number_of_buffers
  Managers,      \* processes that attach and remove local vcs
  Apps,          \* processes that own local vcs
  Mapping,       \* the ASAAC_VcMappingDescriptions the managers use
  Pid,           \* Pid[m]: global_pid
  IsReading,     \* IsReading[m]: is_reading
  Buffers,       \* Buffers[m]: number_of_message_buffers
  Impatient,     \* managers whose command timeout can expire
  None

Slot    == 0 .. MaxAttached - 1
Process == Managers \cup Apps
LocalVcCommand == [op : {"attach", "detach"}, mapping : Mapping, caller : Managers]

MappingAssumption ==
  /\ MaxAttached \in Nat \ {0, 1}   \* checked by GlobalVc::initialize
  /\ MaxBuffers \in Nat
  /\ Managers \cap Apps = {}
  /\ Pid \in [Mapping -> Apps]
  /\ IsReading \in [Mapping -> BOOLEAN]
  /\ Buffers \in [Mapping -> Nat \ {0}]
  /\ Impatient \subseteq Managers
  /\ None \notin Mapping \cup Slot \cup LocalVcCommand \cup Process \cup {"ok", "error"}

VARIABLES
  index,                \* m_LocalVcIndex: the mapping each slot is used for
  desc,                 \* the description in each slot's memory
  waiting,              \* number of messages in each slot's queue
  NumberOfConnectedVCs, NumberOfBuffers, SenderVcIndex,  \* m_Status
  ActionSemaphore,      \* its holder
  object,               \* object[p][k]: is m_LocalVcObject[ k ] of p initialised?
  attached,             \* m_LocalVCs of each application
  command,              \* the command pending at each application
  answer,               \* per manager: the answer that arrived
  pc, slot,             \* per process: what it does next, with which slot
  commandLost           \* history: a command timeout has expired

tableVars   == <<index, desc, waiting>>
statusVars  == <<NumberOfConnectedVCs, NumberOfBuffers, SenderVcIndex>>
commandVars == <<command, answer>>
vars == <<tableVars, statusVars, ActionSemaphore, object, attached, commandVars,
          pc, slot, commandLost>>

Init ==
  /\ index = [k \in Slot |-> None]
  /\ desc = [k \in Slot |-> None]
  /\ waiting = [k \in Slot |-> 0]
  /\ NumberOfConnectedVCs = 0
  /\ NumberOfBuffers = 0
  /\ SenderVcIndex = None
  /\ ActionSemaphore = None
  /\ object = [p \in Process |-> [k \in Slot |-> FALSE]]
  /\ attached = [a \in Apps |-> {}]
  /\ command = [a \in Apps |-> None]
  /\ answer = [p \in Managers |-> None]
  /\ pc = [p \in Process |-> "idle"]
  /\ slot = [p \in Process |-> 0]
  /\ commandLost = FALSE

SlotsOf(m)  == {k \in Slot : index[k] = m}
FirstFree   == Min(SlotsOf(None))
Goto(p, at, next) == pc[p] = at /\ pc' = [pc EXCEPT ![p] = next]

\* getLocalVcByIndex() for the slots ks: p initialises its objects of those in use.
Looked(p, ks) ==
  [object EXCEPT ![p] = [k \in Slot |-> @[k] \/ (k \in ks /\ index[k] /= None)]]

----------------------------------------------------------------------------
(* createLocalVc() *)

\* (Bug: the buffers already promised to other local vcs are not counted.)
Bug_CreateOvercommits(p, m) ==
  /\ Goto(p, "idle", "attach")
  /\ ActionSemaphore = None
  /\ NumberOfConnectedVCs /= MaxAttached
  /\ Buffers[m] <= MaxBuffers
  /\ IsReading[m] \/ SenderVcIndex = None
  /\ SlotsOf(m) = {} /\ SlotsOf(None) /= {}
  /\ ~object[p][FirstFree]
  /\ ActionSemaphore' = p
  /\ slot' = [slot EXCEPT ![p] = FirstFree]
  /\ object' = [object EXCEPT ![p][FirstFree] = TRUE]
  /\ index' = [index EXCEPT ![FirstFree] = m]
  /\ desc' = [desc EXCEPT ![FirstFree] = m]
  /\ waiting' = [waiting EXCEPT ![FirstFree] = 0]
  /\ UNCHANGED <<commandLost, statusVars, attached, commandVars>>

\* (Bug: a second writing local vc is accepted.)
Bug_CreateSecondWriter(p, m) ==
  /\ Goto(p, "idle", "attach")
  /\ ActionSemaphore = None
  /\ NumberOfConnectedVCs /= MaxAttached
  /\ NumberOfBuffers + Buffers[m] <= MaxBuffers
  /\ SlotsOf(m) = {} /\ SlotsOf(None) /= {}
  /\ ~object[p][FirstFree]
  /\ ActionSemaphore' = p
  /\ slot' = [slot EXCEPT ![p] = FirstFree]
  /\ object' = [object EXCEPT ![p][FirstFree] = TRUE]
  /\ index' = [index EXCEPT ![FirstFree] = m]
  /\ desc' = [desc EXCEPT ![FirstFree] = m]
  /\ waiting' = [waiting EXCEPT ![FirstFree] = 0]
  /\ UNCHANGED <<commandLost, statusVars, attached, commandVars>>

\* The checks pass, the slot is initialised and entered into the table.  An
\* object still initialised from an earlier use of the slot makes
\* LocalVc::initialize throw before anything is changed.
CreateBegin(p, m) ==
  /\ Goto(p, "idle", "attach")
  /\ ActionSemaphore = None
  /\ NumberOfConnectedVCs /= MaxAttached
  /\ NumberOfBuffers + Buffers[m] <= MaxBuffers
  /\ IsReading[m] \/ SenderVcIndex = None
  /\ SlotsOf(m) = {} /\ SlotsOf(None) /= {}
  /\ ~object[p][FirstFree]
  /\ ActionSemaphore' = p
  /\ slot' = [slot EXCEPT ![p] = FirstFree]
  /\ object' = [object EXCEPT ![p][FirstFree] = TRUE]
  /\ index' = [index EXCEPT ![FirstFree] = m]
  /\ desc' = [desc EXCEPT ![FirstFree] = m]
  /\ waiting' = [waiting EXCEPT ![FirstFree] = 0]
  /\ UNCHANGED <<commandLost, statusVars, attached, commandVars>>

\* "LocalVc already exists.": the call is refused, after getLocalVc() made the
\* manager's own object of that slot.
CreateRefused(p, m) ==
  /\ pc[p] = "idle"
  /\ ActionSemaphore = None
  /\ NumberOfConnectedVCs /= MaxAttached
  /\ NumberOfBuffers + Buffers[m] <= MaxBuffers
  /\ IsReading[m] \/ SenderVcIndex = None
  /\ SlotsOf(m) /= {}
  /\ object' = Looked(p, {Min(SlotsOf(m))})
  /\ UNCHANGED <<commandLost, tableVars, statusVars, ActionSemaphore, attached, commandVars, pc, slot>>

\* Process::attachLocalVc at the manager: the command is sent once the
\* application's interface is idle.
AttachSend(p) ==
  LET m == desc[slot[p]] IN
  /\ Goto(p, "attach", "attaching")
  /\ m \notin attached[Pid[m]]
  /\ command[Pid[m]] = None
  /\ command' = [command EXCEPT ![Pid[m]] = [op |-> "attach", mapping |-> m, caller |-> p]]
  /\ answer' = [answer EXCEPT ![p] = None]
  /\ UNCHANGED <<commandLost, tableVars, statusVars, ActionSemaphore, object, attached, slot>>

CreateCommit(p) ==
  LET m == desc[slot[p]] IN
  /\ Goto(p, "attaching", "idle")
  /\ answer[p] = "ok"
  /\ SenderVcIndex' = IF IsReading[m] THEN SenderVcIndex ELSE slot[p]
  /\ NumberOfConnectedVCs' = NumberOfConnectedVCs + 1
  /\ NumberOfBuffers' = NumberOfBuffers + Buffers[m]
  /\ ActionSemaphore' = None
  /\ UNCHANGED <<commandLost, tableVars, object, attached, commandVars, slot>>

\* What remains to be done when attachLocalVc failed: the slot is given up again.
Rollback(p) ==
  /\ object' = [object EXCEPT ![p][slot[p]] = FALSE]
  /\ waiting' = [waiting EXCEPT ![slot[p]] = 0]
  /\ index' = [index EXCEPT ![slot[p]] = None]
  /\ ActionSemaphore' = None
  /\ UNCHANGED <<desc, statusVars, attached, commandVars, slot>>

\* The mapping is attached already, as the manager or the application finds out.
CreateRollback(p) ==
  /\ \/ Goto(p, "attach", "idle") /\ desc[slot[p]] \in attached[Pid[desc[slot[p]]]]
     \/ Goto(p, "attaching", "idle") /\ answer[p] = "error"
  /\ Rollback(p)
  /\ UNCHANGED commandLost

\* The command timeout expires, before or after the command was sent.
CommandTimeout(p, before, after) ==
  /\ p \in Impatient
  /\ Goto(p, before, "idle") \/ (Goto(p, after, "idle") /\ answer[p] = None)
  /\ commandLost' = TRUE

CreateTimeout(p) == CommandTimeout(p, "attach", "attaching") /\ Rollback(p)

----------------------------------------------------------------------------
(* removeLocalVcsFromProcess() and removeLocalVc() *)

\* The manager meets an initialised object of its own in slot k and looks for
\* the mapping its description names.  The slot leaves the table first.
RemoveBegin(p, k) ==
  /\ Goto(p, "idle", "detach")
  /\ ActionSemaphore = None
  /\ object[p][k]
  /\ SlotsOf(desc[k]) /= {}
  /\ slot' = [slot EXCEPT ![p] = Min(SlotsOf(desc[k]))]
  /\ index' = [index EXCEPT ![slot'[p]] = None]
  /\ ActionSemaphore' = p
  /\ UNCHANGED <<commandLost, desc, waiting, statusVars, object, attached, commandVars>>

\* Process::detachLocalVc at the manager
DetachSend(p) ==
  LET m == desc[slot[p]] IN
  /\ Goto(p, "detach", "detaching")
  /\ command[Pid[m]] = None
  /\ command' = [command EXCEPT ![Pid[m]] = [op |-> "detach", mapping |-> m, caller |-> p]]
  /\ answer' = [answer EXCEPT ![p] = None]
  /\ UNCHANGED <<commandLost, tableVars, statusVars, ActionSemaphore, object, attached, slot>>

\* (Bug: the channel still takes the removed local vc for its writing one.)
Bug_RemoveKeepsSender(p, k) ==
  /\ NumberOfBuffers' = NumberOfBuffers - Buffers[desc[k]]
  /\ NumberOfConnectedVCs' = NumberOfConnectedVCs - 1
  /\ object' = [object EXCEPT ![p][k] = FALSE]
  /\ waiting' = [waiting EXCEPT ![k] = 0]
  /\ UNCHANGED SenderVcIndex

\* What removeLocalVc does to slot k when the process p has let it go.
Remove(p, k) ==
  /\ NumberOfBuffers' = NumberOfBuffers - Buffers[desc[k]]
  /\ NumberOfConnectedVCs' = NumberOfConnectedVCs - 1
  /\ object' = [object EXCEPT ![p][k] = FALSE]
  /\ waiting' = [waiting EXCEPT ![k] = 0]
  /\ SenderVcIndex' = IF SenderVcIndex = k THEN None ELSE SenderVcIndex

RemoveCommit(p) ==
  /\ Goto(p, "detaching", "idle")
  /\ answer[p] = "ok"
  /\ object[p][slot[p]]
  /\ Remove(p, slot[p])
  /\ ActionSemaphore' = None
  /\ UNCHANGED <<commandLost, index, desc, attached, commandVars, slot>>

\* (Bug: a removal that times out does not give the action semaphore back.)
Bug_RemoveTimeoutKeepsSemaphore(p) ==
  /\ CommandTimeout(p, "detach", "detaching")
  /\ UNCHANGED <<tableVars, statusVars, ActionSemaphore, object, attached,
                 commandVars, slot>>

\* detachLocalVc or getDescription() threw: nothing is undone.
RemoveFail(p) ==
  /\ Goto(p, "detaching", "idle")
  /\ answer[p] = "error" \/ (answer[p] = "ok" /\ ~object[p][slot[p]])
  /\ ActionSemaphore' = None
  /\ UNCHANGED <<tableVars, statusVars, object, attached, commandVars, slot, commandLost>>

RemoveTimeout(p) ==
  /\ CommandTimeout(p, "detach", "detaching")
  /\ ActionSemaphore' = None
  /\ UNCHANGED <<tableVars, statusVars, object, attached, commandVars, slot>>

----------------------------------------------------------------------------
(* The applications *)

Reply(c, a) == answer' = [answer EXCEPT ![c.caller] =
                            IF pc[c.caller] \in {"attaching", "detaching"} THEN a ELSE @]

\* AttachLocalVcHandler: the mapping must be in the table of the channel.
AttachHandler(a) ==
  LET c == command[a]
      found == SlotsOf(c.mapping) /= {} /\ c.mapping \notin attached[a]
  IN /\ pc[a] = "idle"
     /\ c /= None /\ c.op = "attach"
     /\ attached' = [attached EXCEPT ![a] = IF found THEN @ \cup {c.mapping} ELSE @]
     /\ object' = IF found THEN Looked(a, SlotsOf(c.mapping)) ELSE object
     /\ Reply(c, IF found THEN "ok" ELSE "error")
     /\ command' = [command EXCEPT ![a] = None]
     /\ UNCHANGED <<commandLost, tableVars, statusVars, ActionSemaphore, pc, slot>>

\* (Bug: the handler answers and leaves the entry in the process's own table.)
Bug_DetachHandlerForgets(a) ==
  LET c == command[a]
  IN /\ pc[a] = "idle"
     /\ c /= None /\ c.op = "detach"
     /\ Reply(c, IF c.mapping \in attached[a] THEN "ok" ELSE "error")
     /\ command' = [command EXCEPT ![a] = None]
     /\ UNCHANGED <<commandLost, tableVars, statusVars, ActionSemaphore, object, attached, pc, slot>>

\* DetachLocalVcHandler
DetachHandler(a) ==
  LET c == command[a]
  IN /\ pc[a] = "idle"
     /\ c /= None /\ c.op = "detach"
     /\ attached' = [attached EXCEPT ![a] = @ \ {c.mapping}]
     /\ Reply(c, IF c.mapping \in attached[a] THEN "ok" ELSE "error")
     /\ command' = [command EXCEPT ![a] = None]
     /\ UNCHANGED <<commandLost, tableVars, statusVars, ActionSemaphore, object, pc, slot>>

\* The main loop has ended: no command is handled from here on.
Close(a) ==
  /\ Goto(a, "idle", "closing")
  /\ UNCHANGED <<commandLost, tableVars, statusVars, ActionSemaphore, object, attached,
                 commandVars, slot>>

StillMapped(a) == {m \in attached[a] : SlotsOf(m) /= {}}

\* detachAndDestroyAllLocalVcs(): the application removes its own local vcs.
CloseOne(a) ==
  /\ pc[a] = "closing"
  /\ ActionSemaphore = None
  /\ \E m \in StillMapped(a) :
       LET k == Min(SlotsOf(m)) IN
       /\ index' = [index EXCEPT ![k] = None]
       /\ attached' = [attached EXCEPT ![a] = @ \ {m}]
       /\ Remove(a, k)
  /\ UNCHANGED <<commandLost, desc, ActionSemaphore, commandVars, pc, slot>>

Closed(a) ==
  /\ Goto(a, "closing", "closed")
  /\ StillMapped(a) = {}
  /\ UNCHANGED <<commandLost, tableVars, statusVars, ActionSemaphore, object, attached,
                 commandVars, slot>>

\* sendBuffer() called in application a, which has a writing local vc: a
\* message goes to every slot whose object in this process is initialised.
Receiving(a) == {k \in Slot : Looked(a, Slot)[a][k] /\ k /= SenderVcIndex}

sendBuffer(a) ==
  /\ pc[a] = "idle"
  /\ ActionSemaphore = None
  /\ \E m \in attached[a] : ~IsReading[m] /\ SlotsOf(m) /= {}
  /\ \A k \in Receiving(a) : waiting[k] < Buffers[desc[k]]
  /\ waiting' = [k \in Slot |-> waiting[k] + IF k \in Receiving(a) THEN 1 ELSE 0]
  /\ object' = Looked(a, Slot)
  /\ UNCHANGED <<commandLost, index, desc, statusVars, ActionSemaphore, attached, commandVars,
                 pc, slot>>

\* receiveBuffer() over an attached reading local vc
receiveBuffer(a) ==
  /\ pc[a] = "idle"
  /\ \E m \in attached[a], k \in Slot :
       /\ IsReading[m] /\ index[k] = m
       /\ waiting[k] > 0
       /\ waiting' = [waiting EXCEPT ![k] = @ - 1]
       /\ object' = Looked(a, {k})
  /\ UNCHANGED <<commandLost, index, desc, statusVars, ActionSemaphore, attached, commandVars,
                 pc, slot>>

----------------------------------------------------------------------------
createLocalVc(p) ==
  \/ \E m \in Mapping : CreateBegin(p, m) \/ CreateRefused(p, m)
  \/ AttachSend(p) \/ CreateCommit(p) \/ CreateRollback(p) \/ CreateTimeout(p)

removeLocalVc(p) ==
  \/ \E k \in Slot : RemoveBegin(p, k)
  \/ DetachSend(p) \/ RemoveCommit(p) \/ RemoveFail(p) \/ RemoveTimeout(p)

handleOneCommand(a) == AttachHandler(a) \/ DetachHandler(a)

detachAndDestroyAllLocalVcs(a) == CloseOne(a) \/ Closed(a)

Next ==
  \/ \E p \in Managers : createLocalVc(p) \/ removeLocalVc(p)
  \/ \E a \in Apps : \/ handleOneCommand(a) \/ sendBuffer(a) \/ receiveBuffer(a)
                     \/ Close(a) \/ detachAndDestroyAllLocalVcs(a)

Spec == Init /\ [][Next]_vars

\* A manager inside a call goes on or runs into its timeout, a semaphore that is
\* free again and again is obtained, and the closing loop goes on.
Fairness ==
  /\ \A p \in Managers : WF_vars(pc[p] /= "idle" /\ (createLocalVc(p) \/ removeLocalVc(p)))
  /\ \A a \in Apps : SF_vars(detachAndDestroyAllLocalVcs(a))
FairSpec == Spec /\ Fairness

----------------------------------------------------------------------------
TypeOK ==
  /\ index \in [Slot -> Mapping \cup {None}]
  /\ desc \in [Slot -> Mapping \cup {None}]
  /\ \A k \in Slot : waiting[k] >= 0 /\ (desc[k] = None => waiting[k] = 0)
  /\ NumberOfConnectedVCs \in 0 .. MaxAttached
  /\ NumberOfBuffers \in 0 .. MaxBuffers
  /\ SenderVcIndex \in Slot \cup {None}
  /\ ActionSemaphore \in Managers \cup {None}
  /\ attached \in [Apps -> SUBSET Mapping]
  /\ command \in [Apps -> LocalVcCommand \cup {None}]

Mapped == {m \in Mapping : SlotsOf(m) /= {}}
PromisedTo(ms) == UNION {{m} \X (1 .. Buffers[m]) : m \in ms}
BuffersOf(ms) == Cardinality(PromisedTo(ms))

\* Whatever commands fail or time out halfway, the local vcs in the table never
\* use more slots or more message buffers than the channel has, and no local vc
\* is in the table twice.
NotOvercommitted ==
  /\ BuffersOf(Mapped) <= MaxBuffers
  /\ \A m \in Mapping : Cardinality(SlotsOf(m)) <= 1

\* "Only one writing LocalVC per GlobalVC is allowed." (createLocalVc), also after
\* a removal that failed halfway.
OneWriter == Cardinality({k \in Slot : index[k] /= None /\ ~IsReading[index[k]]}) <= 1

\* Both, and every variable in its range: what the channel has is promised once.
ResourcesExact == TypeOK /\ NotOvercommitted /\ OneWriter

\* The data structures are reset "[in]to a corresponding state"
\* (removeLocalVc): outside the calls the status block counts the local vcs of
\* the table, and knows the writing one, as long as every command was answered in time.
AtRest == ActionSemaphore = None
StatusExact ==
  AtRest /\ ~commandLost =>
    /\ NumberOfConnectedVCs = Cardinality(Mapped)
    /\ NumberOfBuffers = BuffersOf(Mapped)
    /\ SenderVcIndex = None <=> \A m \in Mapped : IsReading[m]

\* The table of the channel and the tables of the processes agree outside the calls,
\* as long as every command was answered in time (attachLocalVc, detachLocalVc).
TablesAgree == AtRest /\ ~commandLost => UNION {attached[a] : a \in Apps} = Mapped

\* The records of the channel and of the processes tell the same (createLocalVc,
\* removeLocalVc, attachLocalVc, detachLocalVc).
RecordsAgree == StatusExact /\ TablesAgree

\* "preventing any further sending or receiving via it" (removeLocalVc): nothing
\* is put into the queue of a slot that is not in the table.
\* The code does not keep this: other processes keep their object of the slot.
NoSendToRemoved == [][ \A k \in Slot : index[k] = None => waiting'[k] <= waiting[k] ]_vars

\* A process that shuts down gets rid of its local vcs, also when a manager holds
\* the action semaphore and waits for that same process to answer.
CloseCompletes == \A a \in Apps : pc[a] = "closing" ~> pc[a] = "closed"
===============================================================================
