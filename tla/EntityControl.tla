------------------------------ MODULE EntityControl ------------------------------
(* The entities of a system, one per cpu, and the session they share:           *)
(* src/OpenOSLib/Source/OpenOSObject.cc.                                        *)
(*                                                                              *)
(* The memory of OpenOS holds the table of cpus and the session id.  An entity  *)
(* that finds the memory attaches to it, else it creates it.  A master entity   *)
(* opens a new session, which every registered entity that answers has to       *)
(* follow.  Entities are started one after the other; they may be killed at any *)
(* time and leave the memory and their entry behind.                            *)
EXTENDS Naturals, FiniteSets

CONSTANTS
    Cpus,         \* the cpus, each with one entity
    MasterCpus,   \* cpus whose entity is started with IsMaster
    MaxCpus,      \* OS_MAX_NUMBER_OF_CPU
    None,         \* OS_UNUSED_ID
    MaxSessions   \* bound: sessions opened

EntityAssumption ==
    /\ MasterCpus \subseteq Cpus
    /\ None \notin Cpus
    /\ MaxCpus \in Nat \ {0}

Slots == 1 .. MaxCpus

VARIABLES
    cpuId,     \* m_CpuId, in the shared memory
    memory,    \* the session id in the header of that memory; 0 when it does not exist
    state,     \* what the entity of a cpu does
    session,   \* the session the allocators of an entity belong to
    behind,    \* entities whose last FlushSessionHandler() failed half-way
    step       \* the flush or destruction under way: who, at which slot, what for

vars == <<cpuId, memory, state, session, behind, step>>

Idle == [cpu |-> None, op |-> "none", slot |-> 0, new |-> 0]

Init ==
    /\ cpuId = [i \in Slots |-> None]
    /\ memory = 0
    /\ state = [c \in Cpus |-> "off"]
    /\ session = [c \in Cpus |-> 0]
    /\ behind = {}
    /\ step = Idle

Up(c) == state[c] = "up"
Starting(c, op) == step.cpu = c /\ step.op = op
FirstWith(id) ==
    LET found == {i \in Slots : cpuId[i] = id}
    IN  IF found = {} THEN 0 ELSE CHOOSE i \in found : \A j \in found : i <= j

--------------------------------------------------------------------------------
(* initializeThisObject(): the memory is found or created; its creator empties  *)
(* the table and opens a session of its own.  Then a master flushes.            *)
initializeThisObject(c) ==
    /\ state[c] = "off" /\ step = Idle /\ memory < MaxSessions
    /\ state' = [state EXCEPT ![c] = "starting"]
    /\ IF memory # 0 THEN UNCHANGED <<cpuId, memory>>
       ELSE memory' = 1 /\ cpuId' = [i \in Slots |-> None]
    /\ session' = [session EXCEPT ![c] = memory']
    /\ behind' = behind \ {c}
    /\ step' = [cpu |-> c, op |-> IF c \in MasterCpus THEN "flush" ELSE "register",
                slot |-> 1, new |-> memory' + 1]

(* One entry of the loop of flushSession().  The entity that does not tell its  *)
(* process id is taken from the table; one that does has to flush too, and a    *)
(* timeout of that command ends the initialisation.                             *)
NextSlot == step' = [step EXCEPT !.slot = @ + 1]
GiveUp(c) ==
    /\ state' = [state EXCEPT ![c] = "off"]
    /\ step' = Idle

(* FlushSessionHandler() of another entity: its processes and channels are      *)
(* destroyed and its allocators are moved to the new session.  A handler that   *)
(* fails on the way answers ASAAC_SUCCESS as well, and stays behind.            *)
flushLocalSession(c, new) ==
    /\ session' = [session EXCEPT ![c] = new]
    /\ memory' = new
    /\ behind' = behind \ {c}

Bug_flushUnanswered(c) ==
    /\ Starting(c, "flush") /\ step.slot <= MaxCpus
    /\ LET other == cpuId[step.slot] IN
       \/ NextSlot /\ UNCHANGED <<cpuId, memory, state, session, behind>>
       \/ /\ other # None /\ Up(other)
          /\ flushLocalSession(other, step.new)
          /\ NextSlot
          /\ UNCHANGED <<cpuId, state>>

flushEntity(c) ==
    /\ Starting(c, "flush") /\ step.slot <= MaxCpus
    /\ LET other == cpuId[step.slot] IN
       \/ other = None /\ NextSlot /\ UNCHANGED <<cpuId, memory, state, session, behind>>
       \/ /\ other # None
          /\ cpuId' = [cpuId EXCEPT ![step.slot] = None]
          /\ NextSlot
          /\ UNCHANGED <<memory, state, session, behind>>
       \/ /\ other # None /\ Up(other)
          /\ flushLocalSession(other, step.new)
          /\ NextSlot \/ GiveUp(c)
          /\ NextSlot => UNCHANGED state
          /\ UNCHANGED cpuId
       \/ /\ other # None /\ Up(other)
          /\ behind' = behind \cup {other}
          /\ NextSlot
          /\ UNCHANGED <<cpuId, memory, state, session>>
       \/ /\ other # None /\ Up(other)
          /\ GiveUp(c)
          /\ UNCHANGED <<cpuId, memory, session, behind>>

flushSessionEnds(c) ==
    /\ Starting(c, "flush") /\ step.slot > MaxCpus
    /\ flushLocalSession(c, step.new)
    /\ step' = [step EXCEPT !.op = "register"]
    /\ UNCHANGED <<cpuId, state>>

(* registerCpu(): refused when the cpu is in the table before the first free    *)
(* slot, or no slot is free.                                                    *)
registerCpu(c) ==
    /\ Starting(c, "register")
    /\ LET free == FirstWith(None)
           known == \E i \in Slots : cpuId[i] = c /\ (free = 0 \/ i < free)
       IN  IF known \/ free = 0 THEN GiveUp(c) /\ UNCHANGED cpuId
           ELSE /\ cpuId' = [cpuId EXCEPT ![free] = c]
                /\ state' = [state EXCEPT ![c] = "up"]
                /\ step' = Idle
    /\ UNCHANGED <<memory, session, behind>>

(* ProcessManager::deinitialize() and the end of the entity.                    *)
unregisterCpu(c) ==
    /\ Up(c) /\ ~Starting(c, "destroy")
    /\ LET i == FirstWith(c)
       IN  cpuId' = IF i = 0 THEN cpuId ELSE [cpuId EXCEPT ![i] = None]
    /\ state' = [state EXCEPT ![c] = "off"]
    /\ UNCHANGED <<memory, session, behind, step>>

Kill(c) ==
    /\ state[c] # "off"
    /\ state' = [state EXCEPT ![c] = "off"]
    /\ step' = IF step.cpu = c THEN Idle ELSE step
    /\ UNCHANGED <<cpuId, memory, session, behind>>

--------------------------------------------------------------------------------
(* destroyAllEntities(), on a request to destroy OS_PROCESSID_MASTER: every     *)
(* other registered entity is told to terminate; a timeout ends the call.       *)
destroyAllEntities(c) ==
    /\ Up(c) /\ step = Idle
    /\ step' = [cpu |-> c, op |-> "destroy", slot |-> 1, new |-> 0]
    /\ UNCHANGED <<cpuId, memory, state, session, behind>>

Bug_destroyUnanswered(c) ==
    /\ Starting(c, "destroy") /\ step.slot <= MaxCpus
    /\ NextSlot
    /\ \/ UNCHANGED state
       \/ cpuId[step.slot] \notin {None, c} /\ state' = [state EXCEPT ![cpuId[step.slot]] = "leaving"]
    /\ UNCHANGED <<cpuId, memory, session, behind>>

destroyEntity(c) ==
    /\ Starting(c, "destroy") /\ step.slot <= MaxCpus
    /\ LET other == cpuId[step.slot] IN
       IF other \in {None, c} THEN NextSlot /\ UNCHANGED state
       ELSE \/ Up(other) /\ NextSlot /\ state' = [state EXCEPT ![other] = "leaving"]
            \/ step' = Idle /\ UNCHANGED state
    /\ UNCHANGED <<cpuId, memory, session, behind>>

destroyEnds(c) ==
    /\ Starting(c, "destroy") /\ step.slot > MaxCpus
    /\ state' = [state EXCEPT ![c] = "leaving"]
    /\ step' = [step EXCEPT !.op = "destroyed"]
    /\ UNCHANGED <<cpuId, memory, session, behind>>

Next ==
    \E c \in Cpus :
        \/ initializeThisObject(c) \/ flushEntity(c) \/ flushSessionEnds(c) \/ registerCpu(c)
        \/ unregisterCpu(c) \/ Kill(c)
        \/ destroyAllEntities(c) \/ destroyEntity(c) \/ destroyEnds(c)

Spec == Init /\ [][Next]_vars

--------------------------------------------------------------------------------
Registered == {c \in Cpus : \E i \in Slots : cpuId[i] = c}

(* A flush that comes to its end leaves every registered entity that is up in   *)
(* the new session, whatever was killed, restarted or timed out before, unless  *)
(* its handler failed: an entity left in the old one could not release one      *)
(* shared object any more.                                                      *)
FlushReachesAll ==
    [][\A c \in Cpus : flushSessionEnds(c)
          => \A other \in Registered \ behind : Up(other) => session'[other] = memory']_vars

(* When the destruction of all entities is reported, none in the table is left. *)
NoneIsLeft ==
    step.op = "destroyed" => \A c \in Registered : ~Up(c)

================================================================================
