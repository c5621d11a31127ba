------------------------------- MODULE PcsPipeline -------------------------------
(* How messages pass through the PCS of two nodes: from the local vc of the     *)
(* sending PCS through the marshalling filter, the filter for messages that the *)
(* security manager must see, the switch and the packer to the network, and     *)
(* through the unpacker and the second filter to the global vc of the other     *)
(* node.  Consumers call each other, so a message passes in one step; where a   *)
(* message waits - in a local vc, in the security manager's queue, on the       *)
(* network - is state.                                                          *)
(*                                                                              *)
(* The rate limiter keeps the order of a connection (RateLimiter).  The network *)
(* loses packets and keeps the order of the others.                             *)
EXTENDS Naturals, Sequences, FiniteSets

CONSTANTS Vcs,
          Raw,                  \* vc_type = ASAAC_Application_Raw_VC
          Marked,               \* security_info = ASAAC_Marked at the sending node
          Typed,                \* is_typed_message
          Lines,                \* transfer connections
          MappedTo,             \* line |-> vcs, the same at both nodes
          MaxMessages,          \* bounds the messages of each vc
          MaxBuffers,           \* buffers of the PCS's local vc
          PmSize,               \* PCS_MAX_SIZE_OF_PMMESSAGEQUEUE
          MaxWire,              \* bounds the packets under way
          Malformed,            \* also typed messages that do not convert
          Nothing

PcsPipelineAssumption ==
    /\ Raw \subseteq Vcs /\ Marked \subseteq Vcs /\ Typed \subseteq Vcs
    /\ IsFiniteSet(Lines) /\ MappedTo \in [Lines -> SUBSET Vcs] /\ Malformed \in BOOLEAN
    /\ PmSize \in Nat \ {0} /\ Nothing \notin [from : Vcs, number : Nat]
    /\ \A l \in Lines : MappedTo[l] \cap Raw # {} => \E v \in Vcs : MappedTo[l] = {v}

VARIABLES marshalling,          \* built without DISABLE_MARSHALLING
          listens,              \* VcListenThread has been started
          inbox,                \* messages at the sending PCS's local vc of each vc
          locked,               \* buffers of that local vc received and not unlocked
          written,              \* messages the applications have sent on each vc
          pmQueue,              \* m_QueuedMessages: position |-> message with its vc
          nextFree, nextMessage,
          source,               \* PmFilter mapping: the filter that queued a vc's message first
          reading,              \* getPMData(): [vc, slot] of the message it is about to send
          manager,              \* what the security manager has got and not returned
          wire,                 \* packets under way
          delivered,            \* messages sent on the other node's vc, in order
          crashed               \* the receiving PCS has used a null pointer

vars == <<marshalling, listens, inbox, locked, written, pmQueue, nextFree, nextMessage, source, reading,
          manager, wire, delivered, crashed>>
pm == <<pmQueue, nextFree, nextMessage, source>>
local == <<marshalling, listens, inbox, locked, written>>

Slot == 0 .. PmSize - 1
Init ==
    /\ marshalling \in BOOLEAN /\ listens = FALSE
    /\ inbox = [v \in Vcs |-> <<>>] /\ locked = [v \in Vcs |-> 0] /\ written = [v \in Vcs |-> 0]
    /\ pmQueue = [k \in Slot |-> Nothing] /\ nextFree = 0 /\ nextMessage = 0
    /\ source = [v \in Vcs |-> Nothing] /\ reading = Nothing
    /\ manager = Nothing /\ wire = <<>> /\ delivered = [v \in Vcs |-> <<>>] /\ crashed = FALSE

--------------------------------------------------------------------------------
(* An application sends while the PCS's local vc has a buffer.                  *)
Write(v) ==
    /\ written[v] < MaxMessages /\ Len(inbox[v]) + locked[v] < MaxBuffers
    /\ \E ok \in (IF Malformed /\ v \in Typed THEN BOOLEAN ELSE {TRUE}) :
        inbox' = [inbox EXCEPT ![v] = Append(@, [number |-> written[v] + 1, converts |-> ok])]
    /\ written' = [written EXCEPT ![v] = @ + 1]
    /\ UNCHANGED <<marshalling, listens, locked, pm, reading, manager, wire, delivered, crashed>>

(* The server thread starts VcListenThread when the client has configured        *)
(* everything; a second request finds the thread running.                       *)
handleListenAttachedChannels ==
    /\ ~listens /\ listens' = TRUE
    /\ UNCHANGED <<marshalling, inbox, locked, written, pm, reading, manager, wire, delivered, crashed>>

getTcMapping(v) == {l \in Lines : v \in MappedTo[l]}
getVcMapping(l) == MappedTo[l]

(* The packer names the vc in front of the data, but for a raw vc.              *)
Packed(l, v, m) == [line |-> l, header |-> IF v \in Raw THEN Nothing ELSE v, message |-> m]

\* the switch hands the message to the line of each connection in turn
VcTcSwitch(v, m) ==
    LET packets == {Packed(l, v, m) : l \in getTcMapping(v)} IN
    /\ Len(wire) + Cardinality(packets) <= MaxWire
    /\ \E order \in [1 .. Cardinality(packets) -> packets] :
        /\ {order[k] : k \in DOMAIN order} = packets
        /\ wire' = wire \o order

(* PmFilter: a marked message waits in the ring for the security manager.  The  *)
(* ring is not checked for being full.                                          *)
addMapping(v, filter) == source' = [source EXCEPT ![v] = IF @ = Nothing THEN filter ELSE @]

enqueueMessage(v, m, filter) ==
    /\ pmQueue' = [pmQueue EXCEPT ![nextFree] = m]
    /\ nextFree' = (nextFree + 1) % PmSize
    /\ addMapping(v, filter) /\ UNCHANGED nextMessage

OutgoingPmFilter(v, m) ==
    IF v \in Marked THEN enqueueMessage(v, m, "outgoing") /\ UNCHANGED wire
    ELSE VcTcSwitch(v, m) /\ UNCHANGED pm

MarshallingFilter(v, m) == ~marshalling \/ v \notin Typed \/ m.converts

(* VcListener::listen(): receiveBuffer, the consumer, unlockBuffer.  An error   *)
(* the consumer returns is ignored; an exception skips the unlocking and is     *)
(* caught in loopVcListener().                                                  *)
\* an implementation that leaves the loop when the consumer fails
Bug_LockedAfter(v, m) == IF MarshallingFilter(v, m) /\ getTcMapping(v) # {} THEN locked[v] ELSE locked[v] + 1

LockedAfter(v, m) == IF MarshallingFilter(v, m) THEN locked[v] ELSE locked[v] + 1

listen(v) ==
    /\ listens /\ inbox[v] # <<>>
    /\ inbox' = [inbox EXCEPT ![v] = Tail(@)]
    /\ LET m == Head(inbox[v]) IN
       /\ IF MarshallingFilter(v, m) THEN OutgoingPmFilter(v, [from |-> v, number |-> m.number])
          ELSE UNCHANGED <<pm, wire>>
       /\ locked' = [locked EXCEPT ![v] = LockedAfter(v, m)]
    /\ UNCHANGED <<marshalling, listens, written, reading, manager, delivered, crashed>>

--------------------------------------------------------------------------------
(* getPMData() and returnPMData() of the security manager, executed by the      *)
(* server thread of the PCS.  getMessage() hands out the vc and a pointer into  *)
(* the ring; what stands there when it is sent is what the manager receives.    *)
getMessage ==
    /\ reading = Nothing /\ manager = Nothing /\ nextFree # nextMessage
    /\ reading' = [vc |-> pmQueue[nextMessage].from, slot |-> nextMessage]
    /\ nextMessage' = (nextMessage + 1) % PmSize
    /\ UNCHANGED <<local, pmQueue, nextFree, source, manager, wire, delivered, crashed>>

\* sent to the manager, or dropped: longer than the manager allows
getPMData(sent) ==
    /\ reading # Nothing /\ reading' = Nothing
    /\ manager' = IF sent THEN [vc |-> reading.vc, data |-> pmQueue[reading.slot]] ELSE Nothing
    /\ UNCHANGED <<local, pm, wire, delivered, crashed>>

(* The message passes on to the consumer of the filter that queued its vc first. *)
getMapping(v) == source[v]

putMessage(v, m) == getMapping(v) = "outgoing" /\ VcTcSwitch(v, m)

returnPMData ==
    /\ manager # Nothing /\ manager' = Nothing
    /\ putMessage(manager.vc, manager.data)
    /\ UNCHANGED <<local, pm, reading, delivered, crashed>>

--------------------------------------------------------------------------------
(* The other node.  The unpacker reads the vc from the packet unless the        *)
(* connection serves one raw vc, and refuses a vc that is not mapped.           *)
\* an implementation that takes the first vc of the connection
Bug_Named(packet) == {CHOOSE v \in MappedTo[packet.line] : TRUE}

Named(packet) ==
    LET mapped == getVcMapping(packet.line) IN
    IF \E v \in mapped : v \in Raw THEN mapped ELSE {packet.header} \cap mapped

Lose == /\ wire # <<>> /\ wire' = Tail(wire)
        /\ UNCHANGED <<local, pm, reading, manager, delivered, crashed>>

(* The filter for incoming messages is given the configuration only when        *)
(* marshalling is left out of the build; otherwise it looks into a null         *)
(* pointer (PCS::initialize).  Its consumer is the sender in both builds.       *)
IncomingPmFilter == ~marshalling

GlobalVcSender(v, packet) ==
    delivered' = [delivered EXCEPT ![v] = Append(@, packet.message)]

\* TcCallback(): a packet goes from the network through all the consumers
TcListener(packet) ==
    \/ IncomingPmFilter /\ (\E v \in Named(packet) : GlobalVcSender(v, packet)) /\ UNCHANGED crashed
    \/ ~IncomingPmFilter /\ Named(packet) # {} /\ crashed' = TRUE /\ UNCHANGED delivered

TcCallback ==
    /\ wire # <<>> /\ ~crashed
    /\ wire' = Tail(wire) /\ TcListener(Head(wire))
    /\ UNCHANGED <<local, pm, reading, manager>>

Next ==
    \/ handleListenAttachedChannels
    \/ \E v \in Vcs : Write(v) \/ listen(v)
    \/ getMessage \/ (\E sent \in BOOLEAN : getPMData(sent)) \/ returnPMData
    \/ Lose \/ TcCallback

Spec == Init /\ [][Next]_vars

--------------------------------------------------------------------------------
(* What arrives at a vc was sent on that vc, once for each connection and in    *)
(* the order it was sent, also when messages are lost, when connections are     *)
(* shared by vcs, and when the ring for the security manager overflows.         *)
ArrivesInOrder ==
    \A v \in Vcs : \A j, k \in DOMAIN delivered[v] :
        /\ delivered[v][k].from = v
        /\ (j < k /\ Cardinality(getTcMapping(v)) = 1) => delivered[v][j].number < delivered[v][k].number

(* The PCS gives every buffer back: what it has received from its local vc is   *)
(* unlocked when it listens again, whatever the consumers returned.             *)
BuffersReturned == \A v \in Vcs : locked[v] = 0

(* A filter looks only into a configuration it has been given (PmFilter.hh: the *)
(* configuration is set for the lookup of security information).  The code does *)
(* not keep this: see IncomingPmFilter.                                         *)
FiltersAreConfigured == ~crashed

================================================================================
