-------------------------------- MODULE MCNetwork --------------------------------
(* The way of a message from node to node and the protocols on top of it, side by *)
(* side: the network interface, the PCS with its limiter, its tables and its       *)
(* filters, and the nodes of the GLI and the OLI.  A behaviour exercises one       *)
(* component, the others stay in an initial state.                                 *)
EXTENDS Naturals, Sequences

CONSTANTS TcIds, Streaming, Calling, Ports, Buffers, MaxConnections, MaxCallbacks, MaxPending, None,
          Tcs, Queues, QueueSize, MaxLimited,
          GlobalVcs, Connections, Senders, MaxVcs, MaxTcs,
          Vcs, Raw, Marked, Typed, Lines, MappedTo, MaxMessages, MaxBuffers, PmSize, MaxWire,
          SuperCalls, SubCalls, MaxCalls, TimesOut,
          Clients, Contents, Size, ReplyBuffers, MaxRequests,
          v1, v2, v3, l1, l2

VARIABLES component,
          nw, tc, allocated, content, pending, wake, service, taking, reader, callbacks,
          queue, changed, processed, listener, limiter, accepted, sent,
          descriptions, configured, limited, vcDescriptions, localVcs, mapping, listening, pcsAttached,
          channel, attachments, detached,
          marshalling, listens, inbox, locked, written, pmQueue, nextFree, nextMessage, source, reading,
          manager, wire, delivered, crashed,
          inQueue, separate, todo, numbers, keyOf, made,
          file, requests, replies, attached, fetching, stored, requested, misread, served

Interface == INSTANCE Nii WITH MaxTcs <- MaxConnections, Orderly <- TRUE
Limiter == INSTANCE RateLimiter WITH MaxMessages <- MaxLimited, Unused <- None
Tables == INSTANCE PcsConfiguration WITH Absent <- None, Reattaching <- FALSE
Pipeline == INSTANCE PcsPipeline WITH Malformed <- FALSE, Nothing <- None
Nodes == INSTANCE GliNodes WITH Unset <- None
Transfer == INSTANCE OliTransfer WITH content <- file, local <- stored, sent <- requested

\* MappedTo for TLC: l1 carries two vcs, l2 the raw one, and the fourth vc is not mapped
Mapping == [l \in {l1, l2} |-> IF l = l1 THEN {v1, v2} ELSE {v3}]

ASSUME Assumptions ==
    /\ Interface!NiiAssumption /\ Limiter!RateLimiterAssumption /\ Tables!PcsConfigurationAssumption
    /\ Pipeline!PcsPipelineAssumption /\ Nodes!GliNodesAssumption /\ Transfer!OliTransferAssumption

niiVars == <<nw, tc, allocated, content, pending, wake, service, taking, reader, callbacks>>
limiterVars == <<queue, changed, processed, listener, limiter, accepted, sent>>
tableVars == <<descriptions, configured, limited, vcDescriptions, localVcs, mapping, listening, pcsAttached,
               channel, attachments, detached>>
pipelineVars == <<marshalling, listens, inbox, locked, written, pmQueue, nextFree, nextMessage, source, reading,
                  manager, wire, delivered, crashed>>
gliVars == <<inQueue, separate, todo, numbers, keyOf, made>>
oliVars == <<file, requests, replies, attached, fetching, stored, requested, misread, served>>
pcs == <<limiterVars, tableVars, pipelineVars>>
logical == <<gliVars, oliVars>>
vars == <<component, niiVars, pcs, logical>>

(* one initial state of a component that stays in it *)
First ==
    /\ component # "pipeline" => marshalling = FALSE
    /\ component # "gli" => separate = FALSE

Init ==
    /\ component \in {"nii", "limiter", "tables", "pipeline", "gli", "oli"}
    /\ Interface!Init /\ Limiter!Init /\ Tables!Init /\ Pipeline!Init
    /\ Nodes!Init /\ Transfer!Init /\ First

Next ==
    /\ UNCHANGED component
    /\ \/ component = "nii" /\ Interface!Next /\ UNCHANGED <<pcs, logical>>
       \/ component = "limiter" /\ Limiter!Next /\ UNCHANGED <<niiVars, tableVars, pipelineVars, logical>>
       \/ component = "tables" /\ Tables!Next /\ UNCHANGED <<niiVars, limiterVars, pipelineVars, logical>>
       \/ component = "pipeline" /\ Pipeline!Next /\ UNCHANGED <<niiVars, limiterVars, tableVars, logical>>
       \/ component = "gli" /\ Nodes!Next /\ UNCHANGED <<niiVars, pcs, oliVars>>
       \/ component = "oli" /\ Transfer!Next /\ UNCHANGED <<niiVars, pcs, gliVars>>

Spec == Init /\ [][Next]_vars

(* Receiving connections have a socket, and every buffer one connection, see Nii.  *)
InterfaceIsExact == Interface!Listening /\ Interface!BuffersExact

(* The limiter keeps the order of a connection, see RateLimiter.                   *)
InOrder == Limiter!InOrder

(* What is attached is in all tables of the PCS, see PcsConfiguration.             *)
AttachedIsServed == Tables!AttachedIsServed

(* Messages reach the vc they were sent on in order, and the buffers of the PCS    *)
(* are returned, see PcsPipeline.                                                  *)
ForwardsAll == Pipeline!ArrivesInOrder /\ Pipeline!BuffersReturned

(* Both nodes compute one key, see GliNodes.                                       *)
KeysAgree == Nodes!KeysAgree

(* A client stores the file of the server, see OliTransfer.                        *)
TransferIsExact == Transfer!TransferIsExact

==================================================================================
