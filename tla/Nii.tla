----------------------------------- MODULE Nii -----------------------------------
(* The network independent interface (NII.c): networks, transfer connections    *)
(* and receive buffers of one process, its service thread, which receives, and   *)
(* a reader that calls NII_receiveTransfer.                                      *)
(*                                                                              *)
(* lockAccess() is empty: every table operation stands for itself, and what a   *)
(* thread copied out of a table is written back later.                          *)
EXTENDS Naturals, FiniteSets, Sequences, FiniteSetsExt

CONSTANTS TcIds, Ports,
          Streaming,            \* those of type streaming, at both ends
          Calling,              \* transfer connections configured with trigger_callback
          Buffers,              \* 0 .. NII_MAX_NUMBER_OF_TCS - 1
          MaxTcs,               \* NII_MAX_NUMBER_OF_TCS
          MaxCallbacks,         \* MOS_MAX_NUMBER_OF_CALLBACKS
          MaxPending,           \* bounds the packets waiting at a socket
          None,                 \* an unused id, an absent entry
          Orderly               \* nobody destroys a connection that is being served, and one
                                \* that is read without callback has one packet on its way

VARIABLES nw,                   \* m_NwList: port |-> [open, streaming] or None
          tc,                   \* m_TcList: id |-> [port, direction, type, buffer] or None
          allocated,            \* m_TcBufferArrayAllocated
          content,              \* the connection named in each buffer's packet
          pending,              \* the packets at the socket of each port
          wake,                 \* a packet waits at m_ServiceFileDescriptor
          service,              \* where the service thread stands
          taking,               \* receiveData() between its copies and its stores
          reader,               \* the caller of NII_receiveTransfer
          callbacks             \* CallbackArray of MOS-Callback.c, the enabled flags of the
                                \* entries for the event the connections trigger

vars == <<nw, tc, allocated, content, pending, wake, service, taking, reader, callbacks>>
tables == <<nw, tc, allocated, content, pending, wake>>

NetworkRecord == [open : BOOLEAN, streaming : BOOLEAN]
Connection == [port : Ports, direction : {"send", "receive"}, type : {"message", "streaming"},
               buffer : Buffers \cup {None}]
Copy == [id : TcIds, connection : Connection, network : NetworkRecord, data : TcIds \cup {None}]

NiiAssumption ==
    /\ Calling \subseteq TcIds /\ Buffers \subseteq Nat /\ Orderly \in BOOLEAN
    /\ None \notin TcIds \cup Buffers \cup NetworkRecord \cup Connection \cup Copy

getNw(p) == nw[p] # None
getTc(i) == tc[i] # None
TcsOf(p) == {i \in TcIds : getTc(i) /\ tc[i].port = p}
Closed == [open |-> FALSE, streaming |-> FALSE]

Init ==
    /\ nw = [p \in Ports |-> None]
    /\ tc = [i \in TcIds |-> None]
    /\ allocated = {}
    /\ content = [b \in Buffers |-> None]
    /\ pending = [p \in Ports |-> <<>>]
    /\ wake = FALSE
    /\ service = [at |-> "select"]
    /\ taking = [t \in {"service", "reader"} |-> None]
    /\ reader = [at |-> "idle"]
    /\ callbacks = <<>>

--------------------------------------------------------------------------------
(* The callbacks of MOS: an entry is found by its event and id, and the first   *)
(* one counts.  Orderly: connections come after their callback and go before.   *)
InUse == Orderly /\ \E i \in Calling : getTc(i)
Handled == callbacks # <<>> /\ Head(callbacks)

SetCallbacks(new) == callbacks' = new /\ UNCHANGED <<tables, service, taking, reader>>

ASAAC_MOS_registerCallback == Len(callbacks) < MaxCallbacks /\ SetCallbacks(Append(callbacks, FALSE))
ASAAC_MOS_enableCallback == callbacks # <<>> /\ SetCallbacks(<<TRUE>> \o Tail(callbacks))
ASAAC_MOS_disableCallback == callbacks # <<>> /\ ~InUse /\ SetCallbacks(<<FALSE>> \o Tail(callbacks))
ASAAC_MOS_deleteCallback == callbacks # <<>> /\ ~InUse /\ SetCallbacks(Tail(callbacks))

--------------------------------------------------------------------------------
(* Configuring.  configureServices() sends the service thread a packet.         *)
Threads == <<service, taking, reader, callbacks>>

addTc(i, entry) == tc' = [tc EXCEPT ![i] = entry]
removeTc(i) == tc' = [tc EXCEPT ![i] = None]
countTcs == Cardinality({i \in TcIds : getTc(i)})
removeNw(p) == nw' = [nw EXCEPT ![p] = None]
removeAllNw == nw' = [p \in Ports |-> None]
setNw(p, entry) == nw' = [nw EXCEPT ![p] = entry]

NII_configureInterface ==
    /\ \E p \in Ports :
        /\ TcsOf(p) = {}
        /\ \/ getNw(p) /\ removeNw(p)
           \/ (\A i \in TcIds : ~getTc(i)) /\ removeAllNw
           \/ setNw(p, Closed)
    /\ UNCHANGED <<tc, allocated, content, pending, wake, Threads>>

\* a streaming connection wants a network of its own, messages share the socket
Opened(p, type, direction) ==
    IF type = "streaming" THEN [open |-> TRUE, streaming |-> TRUE]
    ELSE IF nw[p].open \/ direction = "send" THEN nw[p]
    ELSE [open |-> TRUE, streaming |-> FALSE]

NII_configureTransfer(i) ==
    /\ ~getTc(i) /\ (Orderly /\ i \in Calling => Handled)
    /\ \E p \in Ports, d \in {"send", "receive"}, y \in {IF i \in Streaming THEN "streaming" ELSE "message"} :
        /\ getNw(p) /\ (y = "streaming" => ~nw[p].open)
        /\ setNw(p, Opened(p, y, d))
        /\ IF countTcs = MaxTcs
           THEN UNCHANGED <<tc, wake>>
           ELSE /\ addTc(i, [port |-> p, direction |-> d, type |-> y, buffer |-> None])
                /\ wake' = TRUE
    /\ UNCHANGED <<allocated, content, pending, Threads>>

\* an implementation that closes the socket with any of its connections
Bug_LastOf(i) == TRUE

LastOf(i) == TcsOf(tc[i].port) = {i}

Waiting(i) == \E p \in Ports : \E k \in DOMAIN pending[p] : pending[p][k] = i
Served(i) == \/ service.at # "select" /\ service.id = i
             \/ \E t \in DOMAIN taking : taking[t] # None /\ taking[t].id = i
             \/ i \notin Calling /\ (Waiting(i) \/ (getTc(i) /\ tc[i].buffer # None))

NII_destroyTransfer(i) ==
    /\ getTc(i) /\ (Orderly => ~Served(i))
    /\ removeTc(i)
    /\ nw' = IF getNw(tc[i].port) /\ LastOf(i) THEN [nw EXCEPT ![tc[i].port] = Closed] ELSE nw
    /\ pending' = IF LastOf(i) THEN [pending EXCEPT ![tc[i].port] = <<>>] ELSE pending
    /\ wake' = TRUE
    /\ UNCHANGED <<allocated, content, Threads>>

(* NII_sendTransfer() checks the connection and hands the packet to the network *)
(* of any process: it arrives at a port that listens.                           *)
NII_sendTransfer(i) ==
    /\ getTc(i) /\ tc[i].type = "message" /\ tc[i].direction = "send"
    /\ \E p \in Ports :
        /\ getNw(p) /\ nw[p].open /\ ~nw[p].streaming /\ Len(pending[p]) < MaxPending
        /\ pending' = [pending EXCEPT ![p] = Append(@, i)]
    /\ UNCHANGED <<nw, tc, allocated, content, wake, Threads>>

Arrives(p) ==
    \E i \in TcIds \ Streaming :
        /\ (Orderly /\ i \notin Calling) => ~Served(i)
        /\ getNw(p) /\ nw[p].open /\ ~nw[p].streaming /\ Len(pending[p]) < MaxPending
        /\ pending' = [pending EXCEPT ![p] = Append(@, i)]
        /\ UNCHANGED <<nw, tc, allocated, content, wake, Threads>>

--------------------------------------------------------------------------------
(* receiveData(): the entries are copied with the data, then the buffer is      *)
(* released and the copies are stored.                                          *)
Readable(i) == /\ getTc(i) /\ tc[i].type = "message" /\ tc[i].direction = "receive"
               /\ getNw(tc[i].port) /\ tc[i].buffer # None

receiveDataCopies(t, i) ==
    taking' = [taking EXCEPT ![t] = [id |-> i, connection |-> tc[i], network |-> nw[tc[i].port],
                                     data |-> content[tc[i].buffer]]]

\* an implementation that leaves the buffer with its connection
Bug_Emptied(connection) == connection

Emptied(connection) == [connection EXCEPT !.buffer = None]

releaseBuffer(b) == allocated' = allocated \ {b}

receiveDataStores(t) ==
    LET got == taking[t]
        p == got.connection.port
    IN /\ got # None
       /\ releaseBuffer(got.connection.buffer)
       /\ nw' = IF getNw(p) THEN [nw EXCEPT ![p] = got.network] ELSE nw
       /\ tc' = IF getTc(got.id) THEN [tc EXCEPT ![got.id] = Emptied(got.connection)] ELSE tc
       /\ taking' = [taking EXCEPT ![t] = None]
       /\ wake' = TRUE

(* NII_receiveTransfer(): waitForData() does not hold the mutex of its          *)
(* condition, so a broadcast before it waits is lost.                           *)
ReadBegins ==
    /\ reader.at = "idle"
    /\ \E i \in TcIds \ Calling :
        \/ Readable(i) /\ receiveDataCopies("reader", i) /\ reader' = [at |-> "taking"]
        \/ /\ getTc(i) /\ tc[i].buffer = None
           /\ reader' = [at |-> "waiting", id |-> i] /\ UNCHANGED taking
    /\ UNCHANGED <<tables, service, callbacks>>

ReadWoken ==
    /\ reader.at = "woken"
    /\ IF Readable(reader.id)
       THEN receiveDataCopies("reader", reader.id) /\ reader' = [at |-> "taking"]
       ELSE UNCHANGED taking /\ reader' = [at |-> "idle"]
    /\ UNCHANGED <<tables, service, callbacks>>

ReadTimesOut ==
    /\ reader.at = "waiting" /\ reader' = [at |-> "idle"]
    /\ UNCHANGED <<tables, service, taking, callbacks>>

ReadEnds ==
    /\ reader.at = "taking" /\ receiveDataStores("reader") /\ reader' = [at |-> "idle"]
    /\ UNCHANGED <<content, pending, service, callbacks>>

--------------------------------------------------------------------------------
(* The service thread.  A wake-up packet goes first and needs a buffer too; if  *)
(* none is free, releaseBuffer() gets a number nobody has set.                  *)
Free == Buffers \ allocated
Select ==
    /\ service.at = "select" /\ wake
    /\ wake' = FALSE
    /\ \/ Free # {} /\ UNCHANGED allocated
       \/ Free = {} /\ \E b \in Buffers : releaseBuffer(b)
    /\ UNCHANGED <<nw, tc, content, pending, service, taking, reader, callbacks>>

(* handleMessageTc(): a packet of an unknown or a sending connection is         *)
(* dropped; the connection need not belong to the port.                         *)
Accepts(i) == getTc(i) /\ tc[i].direction = "receive"

handleMessageTc(p) ==
    /\ service.at = "select" /\ ~wake /\ pending[p] # <<>> /\ Free # {}
    /\ getNw(p) /\ nw[p].open /\ ~nw[p].streaming
    /\ LET i == Head(pending[p])
           b == Min(Free)
       IN /\ pending' = [pending EXCEPT ![p] = Tail(@)]
          /\ content' = [content EXCEPT ![b] = i]
          /\ IF Accepts(i)
             THEN /\ allocated' = allocated \cup {b}
                  /\ service' = [at |-> "store", id |-> i, copy |-> [tc[i] EXCEPT !.buffer = b]]
             ELSE UNCHANGED <<allocated, service>>
    /\ UNCHANGED <<nw, tc, wake, taking, reader, callbacks>>

\* handleStreamingTc() receives from a socket that is never connected, which fails
handleStreamingTc(p) ==
    /\ service.at = "select" /\ ~wake /\ getNw(p) /\ nw[p].open /\ nw[p].streaming
    /\ UNCHANGED vars

setTc ==
    /\ service.at = "store"
    /\ tc' = IF getTc(service.id) THEN [tc EXCEPT ![service.id] = service.copy] ELSE tc
    /\ service' = [at |-> "callback", id |-> service.id]
    /\ UNCHANGED <<nw, allocated, content, pending, wake, taking, reader, callbacks>>

\* the handler of the PCS receives in the callback, see TcListener
ServiceThread ==
    /\ service.at = "callback"
    /\ IF service.id \in Calling /\ Handled /\ Readable(service.id)
       THEN receiveDataCopies("service", service.id) /\ service' = [service EXCEPT !.at = "taking"]
       ELSE UNCHANGED taking /\ service' = [service EXCEPT !.at = "broadcast"]
    /\ UNCHANGED <<tables, reader, callbacks>>

CallbackEnds ==
    /\ service.at = "taking" /\ receiveDataStores("service")
    /\ service' = [service EXCEPT !.at = "broadcast"]
    /\ UNCHANGED <<content, pending, reader, callbacks>>

\* who waits is told the last connection that got data
Broadcast ==
    /\ service.at = "broadcast" /\ service' = [at |-> "select"]
    /\ reader' = IF reader.at = "waiting" /\ reader.id = service.id
                 THEN [reader EXCEPT !.at = "woken"] ELSE reader
    /\ UNCHANGED <<tables, taking, callbacks>>

Next ==
    \/ NII_configureInterface
    \/ \E i \in TcIds : NII_configureTransfer(i) \/ NII_destroyTransfer(i) \/ NII_sendTransfer(i)
    \/ \E p \in Ports : Arrives(p) \/ handleMessageTc(p) \/ handleStreamingTc(p)
    \/ ASAAC_MOS_registerCallback \/ ASAAC_MOS_enableCallback
    \/ ASAAC_MOS_disableCallback \/ ASAAC_MOS_deleteCallback
    \/ ReadBegins \/ ReadWoken \/ ReadTimesOut \/ ReadEnds
    \/ Select \/ setTc \/ ServiceThread \/ CallbackEnds \/ Broadcast

Spec == Init /\ [][Next]_vars

--------------------------------------------------------------------------------
TypeOK ==
    /\ nw \in [Ports -> NetworkRecord \cup {None}]
    /\ tc \in [TcIds -> Connection \cup {None}]
    /\ allocated \subseteq Buffers /\ content \in [Buffers -> TcIds \cup {None}]

(* A receiving connection is heard: its network has an open socket, whatever    *)
(* connections came and went on that network (NII_destroyTransfer closes it     *)
(* with the last one only, and the stale copies of receiveData do no harm).     *)
Listening == \A i \in TcIds : getTc(i) /\ tc[i].direction = "receive"
                              => getNw(tc[i].port) /\ nw[tc[i].port].open

(* Every allocated buffer is in the hands of one connection or of the service   *)
(* thread, and holds a packet of that connection.                               *)
Held == {i \in TcIds : getTc(i) /\ tc[i].buffer # None}
BuffersExact ==
    /\ \A i \in Held : tc[i].buffer \in allocated /\ content[tc[i].buffer] = i
    /\ \A i, j \in Held : i # j => tc[i].buffer # tc[j].buffer
    /\ \A b \in allocated : (\E i \in Held : tc[i].buffer = b)
                            \/ (service.at = "store" /\ service.copy.buffer = b)

(* NII_destroyTransfer releases the "local resources previously allocated":     *)
(* without connections no buffer is in use.  The code does not keep this        *)
(* without Orderly: see README.md.                                              *)
ResourcesReleased == (service.at = "select" /\ \A i \in TcIds : ~getTc(i)) => allocated = {}

================================================================================
