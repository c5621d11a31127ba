---------------------------- MODULE PcsConfiguration ----------------------------
(* Which transfer connections serve which global vcs: the calls of              *)
(* CommunicationManager, what the PCS does for them (PcsObject, its tables and   *)
(* VcListener), and the local vc of the PCS at the global vc.                    *)
(*                                                                              *)
(* PCS::Client passes one call at a time (PcsClientServer); a step here is one  *)
(* call with all it changes before it returns or fails.                          *)
EXTENDS Naturals, FiniteSets

CONSTANTS GlobalVcs, Connections,
          Senders,              \* the connections with is_receiver = ASAAC_BOOL_FALSE
          MaxVcs,               \* PCS_MAX_NUMBER_OF_VCS
          MaxTcs,               \* PCS_MAX_NUMBER_OF_TCS
          Absent,
          Reattaching           \* also: connections of both directions at one vc, detached
                                \* one by one, vcs attached again, and more vcs than fit

PcsConfigurationAssumption == Senders \subseteq Connections /\ MaxVcs \in Nat /\ MaxTcs \in Nat

VARIABLES descriptions,         \* TcDescriptionTable
          configured,           \* the connections the NII has
          limited,              \* the connections named by queues of the limiter, with how many
          vcDescriptions,       \* VcDescriptionTable
          localVcs,             \* LocalVcTable, where local and global ids are the same
          mapping,              \* MappingTable: <<vc, tc>>
          listening,            \* the vcs VcListener waits on
          pcsAttached,          \* the vcs with attachPcs() called
          channel,              \* direction of the PCS's local vc at each global vc, or Absent
          attachments,          \* <<vc, tc>> attached by a call that returned, and not detached
          detached              \* vcs something has been detached from

pcs == <<descriptions, configured, limited, vcDescriptions, localVcs, mapping, listening>>
vars == <<pcs, pcsAttached, channel, attachments, detached>>

Init ==
    /\ descriptions = {} /\ configured = {} /\ limited = [t \in Connections |-> 0]
    /\ vcDescriptions = {} /\ localVcs = {} /\ mapping = {} /\ listening = {}
    /\ pcsAttached = {} /\ channel = [v \in GlobalVcs |-> Absent]
    /\ attachments = {} /\ detached = {}

--------------------------------------------------------------------------------
(* Connections.  Creating and destroying a sender both take a queue of the      *)
(* limiter as long as there is one.                                             *)
addTcDescription(t) == IF Cardinality(descriptions) = MaxTcs THEN descriptions ELSE descriptions \cup {t}

QueuesTaken == Cardinality({m \in Connections \X (1 .. MaxTcs) : m[2] <= limited[m[1]]})
setRateLimit(t) ==
    limited' = IF t \in Senders /\ QueuesTaken < MaxTcs
               THEN [limited EXCEPT ![t] = @ + 1] ELSE limited

createTransferConnection(t) ==
    /\ t \notin configured
    /\ \/ UNCHANGED vars                                                   \* the NII refuses
       \/ /\ configured' = configured \cup {t}
          /\ descriptions' = addTcDescription(t)
          /\ setRateLimit(t)
          /\ UNCHANGED <<vcDescriptions, localVcs, mapping, listening, pcsAttached, channel, attachments, detached>>

destroyTransferConnection(t) ==
    /\ t \in descriptions
    /\ setRateLimit(t)
    /\ descriptions' = descriptions \ {t}
    /\ configured' = configured \ {t}
    /\ UNCHANGED <<vcDescriptions, localVcs, mapping, listening, pcsAttached, channel, attachments, detached>>

--------------------------------------------------------------------------------
(* PCS::attachTransferConnectionToVirtualChannel(): the vc is entered first and *)
(* stays entered when the rest fails.                                           *)
Entered(v) == v \in vcDescriptions \/ Cardinality(vcDescriptions) < MaxVcs

EnterVc(v) == IF Entered(v) THEN vcDescriptions \cup {v} ELSE vcDescriptions
addLocalVc(v) == IF v \notin vcDescriptions /\ Entered(v) THEN localVcs \cup {v} ELSE localVcs

Maps(v, t) == Entered(v) /\ t \in descriptions /\ <<v, t>> \notin mapping

addListeningConsumer(v) == listening' = listening \cup {v}

PcsAttaches(v, t) ==
    /\ vcDescriptions' = EnterVc(v)
    /\ localVcs' = addLocalVc(v)
    /\ IF Maps(v, t)
       THEN /\ mapping' = mapping \cup {<<v, t>>}
            /\ IF t \in Senders THEN addListeningConsumer(v) ELSE UNCHANGED listening
       ELSE UNCHANGED <<mapping, listening>>
    /\ UNCHANGED <<descriptions, configured, limited>>

(* CommunicationManager: the PCS gets its local vc the first time only, in the  *)
(* direction of that connection.                                                *)
Direction(t) == IF t \in Senders THEN "reads" ELSE "writes"
AttachedTo(v) == {t \in Connections : <<v, t>> \in attachments}
Ordinary(v, t) == v \notin detached /\ Entered(v) /\ \A u \in AttachedTo(v) : Direction(u) = Direction(t)

attachTransferConnectionToVirtualChannel(v, t) ==
    /\ t \in descriptions                       \* else its description is not to be had
    /\ Reattaching \/ Ordinary(v, t)
    /\ channel' = IF v \in pcsAttached THEN channel ELSE [channel EXCEPT ![v] = Direction(t)]
    /\ pcsAttached' = pcsAttached \cup {v}
    /\ PcsAttaches(v, t)
    /\ attachments' = IF Maps(v, t) THEN attachments \cup {<<v, t>>} ELSE attachments
    /\ UNCHANGED detached

\* no free buffer for the PCS, or its local vc cannot be created
attachRefused(v, t) == t \in descriptions /\ v \notin pcsAttached /\ UNCHANGED vars

--------------------------------------------------------------------------------
(* PCS::detachTransferConnectionFromVirtualChannel(): up to the first thing     *)
(* that is not there; only a vc that was listened to gets past the first.       *)
\* an implementation that empties the list of VcListener
Bug_removeListeningConsumer(v) == {}

removeListeningConsumer(v) == listening \ {v}
removeLocalVc(v) == localVcs' = localVcs \ {v}
removeTcMapping(v, t) == mapping' = mapping \ {<<v, t>>}
removeVcDescription(v) == vcDescriptions' = vcDescriptions \ {v}

Detaches(v, t) == v \in listening /\ v \in localVcs /\ <<v, t>> \in mapping /\ v \in vcDescriptions

PcsDetaches(v, t) ==
    /\ listening' = removeListeningConsumer(v)
    /\ IF v \in listening THEN removeLocalVc(v) ELSE UNCHANGED localVcs
    /\ IF v \in listening /\ v \in localVcs THEN removeTcMapping(v, t) ELSE UNCHANGED mapping
    /\ IF Detaches(v, t) THEN removeVcDescription(v) ELSE UNCHANGED vcDescriptions
    /\ UNCHANGED <<descriptions, configured, limited>>

\* the PCS's local vc goes when the PCS has agreed; attachPcs() has no opposite
detachTransferConnectionFromVirtualChannel(v, t) ==
    /\ Reattaching \/ AttachedTo(v) \subseteq {t}
    /\ v \in listening => Reattaching \/ AttachedTo(v) = {t}
    /\ PcsDetaches(v, t)
    /\ channel' = IF Detaches(v, t) THEN [channel EXCEPT ![v] = Absent] ELSE channel
    /\ attachments' = attachments \ {<<v, t>>}
    /\ detached' = detached \cup {v}
    /\ UNCHANGED pcsAttached

Next ==
    \/ \E t \in Connections : createTransferConnection(t) \/ destroyTransferConnection(t)
    \/ \E v \in GlobalVcs, t \in Connections :
        \/ attachTransferConnectionToVirtualChannel(v, t) \/ attachRefused(v, t)
        \/ detachTransferConnectionFromVirtualChannel(v, t)

Spec == Init /\ [][Next]_vars

--------------------------------------------------------------------------------
TypeOK ==
    /\ descriptions \subseteq Connections /\ vcDescriptions \subseteq GlobalVcs
    /\ limited \in [Connections -> 0 .. MaxTcs]
    /\ channel \in [GlobalVcs -> {"reads", "writes", Absent}]

(* A connection that was attached and not detached is served: the PCS has a     *)
(* local vc of the right direction at the global vc, knows the vc and maps it,  *)
(* and listens to it for a sending connection.                                  *)
AttachedIsServed ==
    \A v \in GlobalVcs : \A t \in AttachedTo(v) :
        /\ channel[v] = Direction(t)
        /\ v \in vcDescriptions /\ v \in localVcs /\ <<v, t>> \in mapping
        /\ t \in Senders => v \in listening

================================================================================
