------------------------------- MODULE OliTransfer ------------------------------
(* Files are fetched from the OLI server piece by piece: a client sends a       *)
(* request for the piece at its offset and waits for the reply with its         *)
(* transfer id.  All clients read the same reply vc, each through a local vc of *)
(* its own, so every client that has attached gets the replies of all.          *)
(*                                                                              *)
(* A piece of the file is a number, the file the sequence of its pieces.  The   *)
(* transfer ids drawn by rand() are taken to differ.                            *)
EXTENDS Naturals, Sequences, FiniteSets, SequencesExt

CONSTANTS Clients,
          Contents,             \* lengths the file may have
          Size,                 \* m_Size
          ReplyBuffers,         \* buffers of the reply vc
          MaxRequests           \* bounds the requests of each client

OliTransferAssumption == Size \in Nat \ {0} /\ ReplyBuffers \in Nat \ {0} /\ Contents \subseteq Nat

VARIABLES content,      \* the file at the server
          requests,     \* the request vc
          replies,      \* client |-> its local vc of the reply vc
          attached,     \* clients that have established communication
          fetching,     \* client |-> "idle", "request", "await", "done", "failed"
          local,        \* client |-> what it has stored
          sent,         \* client |-> requests sent, naming its transfer ids
          misread,      \* clients a failed reading has been reported to as an empty piece
          served        \* the server has not used a buffer it did not get

vars == <<content, requests, replies, attached, fetching, local, sent, misread, served>>

Init ==
    /\ \E n \in Contents : content = [k \in 1 .. n |-> k]
    /\ requests = <<>> /\ replies = [c \in Clients |-> <<>>] /\ attached = {}
    /\ fetching = [c \in Clients |-> "idle"] /\ local = [c \in Clients |-> <<>>]
    /\ sent = [c \in Clients |-> 0] /\ misread = {} /\ served = TRUE

--------------------------------------------------------------------------------
(* The client.  storeCompleteFile() loops over requestFile() and receiveReply() *)
(* until a piece is shorter than m_Size, or an exception ends it.               *)
storeCompleteFile(c) ==
    /\ fetching[c] \in {"idle", "done", "failed"} /\ sent[c] < MaxRequests
    /\ fetching' = [fetching EXCEPT ![c] = "request"]
    /\ local' = [local EXCEPT ![c] = <<>>] /\ misread' = misread \ {c}
    /\ UNCHANGED <<content, requests, replies, attached, sent, served>>

establishCommunication(c) == attached' = attached \cup {c}

requestFile(c) ==
    /\ fetching[c] = "request" /\ sent[c] < MaxRequests
    /\ establishCommunication(c)
    /\ sent' = [sent EXCEPT ![c] = @ + 1]
    /\ requests' = Append(requests, [client |-> c, transfer |-> sent[c] + 1, offset |-> Len(local[c])])
    /\ fetching' = [fetching EXCEPT ![c] = "await"]
    /\ UNCHANGED <<content, replies, local, misread, served>>

\* an implementation that takes any reply
Bug_Expected(c, r) == TRUE

Expected(c, r) == r.client = c /\ r.transfer = sent[c]

\* the piece is written; a short one is the last
Store(c, r) ==
    /\ local' = [local EXCEPT ![c] = @ \o r.data]
    /\ fetching' = [fetching EXCEPT ![c] = IF Len(r.data) < Size THEN "done" ELSE "request"]
    /\ misread' = IF r.failed THEN misread \cup {c} ELSE misread

Abandon(c) == fetching' = [fetching EXCEPT ![c] = "failed"] /\ UNCHANGED <<local, misread>>

\* the buffer is given back whether the reply is the expected one or not
receiveReply(c) ==
    /\ fetching[c] = "await" /\ replies[c] # <<>>
    /\ replies' = [replies EXCEPT ![c] = Tail(@)]
    /\ LET r == Head(replies[c]) IN
       IF Expected(c, r) /\ r.result = "ok" THEN Store(c, r) ELSE Abandon(c)
    /\ UNCHANGED <<content, requests, attached, sent, served>>

\* OS_COMPLEX_COMMAND_TIMEOUT for the whole file
TimeOut(c) ==
    /\ fetching[c] \in {"request", "await"} /\ Abandon(c)
    /\ UNCHANGED <<content, requests, replies, attached, sent, served>>

--------------------------------------------------------------------------------
(* The server.  A reading that fails leaves the count at 0 and is answered with *)
(* an empty piece and ASAAC_READ_FILE_ACK_OK.                                   *)
Piece(offset) == SubSeq(content, offset + 1, IF offset + Size < Len(content) THEN offset + Size ELSE Len(content))

handleRequestFileRead(q) ==
    LET reply(result, data, failed) ==
            [client |-> q.client, transfer |-> q.transfer, result |-> result, data |-> data, failed |-> failed]
    IN {reply("ok", Piece(q.offset), FALSE), reply("ok", <<>>, TRUE), reply("no access", <<>>, FALSE)}

Held == UNION {Range(replies[c]) : c \in Clients}
Broadcast(r) == replies' = [c \in Clients |-> IF c \in attached THEN Append(replies[c], r) ELSE replies[c]]

\* lockBuffer(TimeIntervalInstant): when it fails, the server logs and goes on with the pointer it has
handleRequest ==
    /\ requests # <<>> /\ served
    /\ requests' = Tail(requests)
    /\ IF Cardinality(Held) < ReplyBuffers
       THEN (\E r \in handleRequestFileRead(Head(requests)) : Broadcast(r)) /\ UNCHANGED served
       ELSE served' = FALSE /\ UNCHANGED replies
    /\ UNCHANGED <<content, attached, fetching, local, sent, misread>>

Next ==
    \/ \E c \in Clients : storeCompleteFile(c) \/ requestFile(c) \/ receiveReply(c) \/ TimeOut(c)
    \/ handleRequest

Spec == Init /\ [][Next]_vars

--------------------------------------------------------------------------------
(* What a client has stored is the beginning of the server's file, and the      *)
(* whole file when storeCompleteFile() returns, unless a reading failed at the  *)
(* server: also after timeouts, with late replies and replies to others in its  *)
(* vc.                                                                          *)
TransferIsExact ==
    \A c \in Clients :
        /\ IsPrefix(local[c], content)
        /\ (fetching[c] = "done" /\ c \notin misread) => local[c] = content

================================================================================
