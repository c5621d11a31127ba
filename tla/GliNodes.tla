-------------------------------- MODULE GliNodes -------------------------------
(* The generic logical interface (GLI): a super node and a sub node call each   *)
(* other over a global vc.  Both read requests from the local vc they send on   *)
(* and replies from the other one, which may be the same; a message sent        *)
(* reaches every local vc of the global vc that reads, the sender's own too.    *)
(*                                                                              *)
(* A node's work is a stack of operations: a call, the requests it handles      *)
(* before it sends, and the key exchange a request sets off.  Timeouts are      *)
(* infinite but for the replies in TimesOut.  The numbers of the key exchange   *)
(* are named by the exchange they were drawn for; acmodm() is not computed.     *)
EXTENDS Naturals, Sequences, SequencesExt

CONSTANTS SuperCalls, SubCalls,      \* the calls made, by the id of their request
          MaxCalls,                  \* bounds the calls of each node
          TimesOut,                  \* the replies whose wait may time out
          Unset                      \* key 0

VARIABLES inQueue,      \* node |-> local vc |-> messages
          separate,     \* replies are read from a local vc of their own
          todo,         \* node |-> operations left
          numbers,      \* node |-> [own, other]: the exchange of its numbers and of those received
          keyOf,        \* m_EncryptionKey, m_DecryptionKey
          made          \* node |-> calls made

vars == <<inQueue, separate, todo, numbers, keyOf, made>>
Node == {"super", "sub"}

loadConfiguration   == [request |-> "Load_Configuration",   reply |-> "Configuration_Loaded"]
stopConfiguration   == [request |-> "Stop_Configuration",   reply |-> "Configuration_Stopped"]
runConfiguration    == [request |-> "Run_Configuration",    reply |-> "Configuration_Running"]
changeConfiguration == [request |-> "Change_Configuration", reply |-> "Configuration_Changed"]
getBITResult        == [request |-> "Request_BIT_Result",   reply |-> "Report_BIT_Result"]
getAliveStatus      == [request |-> "Are_You_Alive",        reply |-> "I_Am_Alive"]
allocateCFM         == [request |-> "Request_New_Cfm",      reply |-> "Cfm_Allocated"]
deallocateCFM       == [request |-> "Deallocate_Cfm",       reply |-> "Cfm_Deallocated"]

OfSuper == {loadConfiguration, stopConfiguration, runConfiguration, changeConfiguration, getBITResult,
            getAliveStatus}
OfSub == {allocateCFM, deallocateCFM}

\* a super node calls what a sub node answers, and a sub node what a super node does
GliNodesAssumption ==
    /\ SuperCalls \subseteq {c.request : c \in OfSuper}
    /\ SubCalls \subseteq {c.request : c \in OfSub} \cup {"Request_Key", "Fault_Report"}

Init ==
    /\ separate \in BOOLEAN
    /\ inQueue = [n \in Node |-> [q \in {"sender", "receiver"} |-> <<>>]]
    /\ todo = [n \in Node |-> <<>>]
    /\ numbers = [n \in Node |-> [own |-> 0, other |-> 0]]
    /\ keyOf = [n \in Node |-> Unset] /\ made = [n \in Node |-> 0]

ReplyVc == IF separate THEN "receiver" ELSE "sender"

--------------------------------------------------------------------------------
(* Operations.  sendRequest() first handles what is buffered; a reply of a      *)
(* handler is sent at once and keeps the parameter id of the request.           *)
Drain == [do |-> "drain"]
sendRequest(id) == <<Drain, [do |-> "send", id |-> id, d |-> id]>>
receiveReply(id) == <<[do |-> "await", id |-> id]>>
sendAndReceive(request, reply) == sendRequest(request) \o receiveReply(reply)
Catch(clears, rethrows) == <<[do |-> "catch", clears |-> clears, rethrows |-> rethrows]>>
Draw == <<[do |-> "draw"]>>
SetKey == <<[do |-> "key"]>>

SubExchange ==
    sendAndReceive("Request_SC", "SC_Response") \o Draw
    \o sendAndReceive("DH_Send_M", "DH_Send_X") \o sendAndReceive("DH_Send_XimodM", "DH_Send_XjmodM")
    \o SetKey \o Catch(TRUE, TRUE)

SuperExchange(response) ==
    sendRequest(response)
    \o (IF response = "SC_Rejected" THEN <<>>
        ELSE receiveReply("DH_Send_M") \o Draw \o sendAndReceive("DH_Send_X", "DH_Send_XimodM")
             \o SetKey \o sendRequest("DH_Send_XjmodM"))
    \o Catch(TRUE, FALSE)

requestKey == SubExchange \o sendAndReceive("Request_Key", "Send_Key")
reportFault == sendRequest("Fault_Report")

Call(request) ==
    (IF request = "Request_Key" THEN requestKey
     ELSE IF request = "Fault_Report" THEN reportFault
     ELSE LET c == CHOOSE c \in OfSuper \cup OfSub : c.request = request
          IN sendAndReceive(c.request, c.reply))
    \o Catch(FALSE, FALSE)

Answer(reply, m) == <<[do |-> "send", id |-> reply, d |-> m.d]>>

handleSuperNodeMessage(m) ==
    {Answer(c.reply, m) : c \in {c \in OfSuper : c.request = m.id}}

handleSubNodeMessage(m) ==
    {Answer(c.reply, m) : c \in {c \in OfSub : c.request = m.id}}
    \cup (IF m.id = "Request_Key" THEN {Answer("Cfm_Allocated", m)} ELSE {})
    \cup (IF m.id = "Request_SC" THEN {SuperExchange(r) : r \in {"SC_Response", "SC_Rejected"}} ELSE {})

\* what a message sets off; nothing when it is not the other node's request
handleMessage(n, m) ==
    LET handlers == IF n = "sub" THEN handleSuperNodeMessage(m) ELSE handleSubNodeMessage(m)
    IN IF handlers = {} THEN {<<>>} ELSE handlers

--------------------------------------------------------------------------------
Unchanged == UNCHANGED <<separate, made>>
Do(n, what) == todo[n] # <<>> /\ Head(todo[n]).do = what
Rest(n) == Tail(todo[n])

StartCall(n, request) ==
    /\ todo[n] = <<>> /\ made[n] < MaxCalls
    /\ request \in (IF n = "super" THEN SuperCalls ELSE SubCalls)
    /\ made' = [made EXCEPT ![n] = @ + 1] /\ todo' = [todo EXCEPT ![n] = Call(request)]
    /\ UNCHANGED <<inQueue, separate, numbers, keyOf>>

\* receives one request and does what it sets off before `after'
Receive(n, after) ==
    /\ inQueue[n]["sender"] # <<>>
    /\ inQueue' = [inQueue EXCEPT ![n]["sender"] = Tail(@)]
    /\ \E ops \in handleMessage(n, Head(inQueue[n]["sender"])) :
        todo' = [todo EXCEPT ![n] = ops \o (IF ops = <<>> THEN <<>> ELSE Catch(FALSE, FALSE)) \o after]
    /\ Unchanged /\ UNCHANGED <<numbers, keyOf>>

handleOneRequest(n) == todo[n] = <<>> /\ Receive(n, <<>>)

handleBufferedRequests(n) ==
    /\ Do(n, "drain")
    /\ \/ Receive(n, todo[n])
       \/ /\ inQueue[n]["sender"] = <<>> /\ todo' = [todo EXCEPT ![n] = Rest(n)]
          /\ Unchanged /\ UNCHANGED <<inQueue, numbers, keyOf>>

(* ASAAC_APOS_sendMessage: the message is put into every reading local vc.      *)
Send(n) ==
    /\ Do(n, "send")
    /\ LET o == Head(todo[n])
           m == [id |-> o.id, d |-> o.d, from |-> n, number |-> numbers[n].own]
       IN inQueue' = [x \in Node |-> [q \in {"sender", "receiver"} |->
                        IF q = "sender" \/ separate THEN Append(inQueue[x][q], m) ELSE <<>>]]
    /\ todo' = [todo EXCEPT ![n] = Rest(n)]
    /\ Unchanged /\ UNCHANGED <<numbers, keyOf>>

\* an exception leaves the operations up to the handler that does not rethrow
Caught(n) == CHOOSE k \in DOMAIN todo[n] :
    /\ todo[n][k].do = "catch" /\ ~todo[n][k].rethrows
    /\ \A j \in 1 .. k - 1 : todo[n][j].do = "catch" => todo[n][j].rethrows

Throw(n) ==
    /\ todo' = [todo EXCEPT ![n] = SubSeq(@, Caught(n) + 1, Len(@))]
    /\ keyOf' = IF \E k \in 1 .. Caught(n) : todo[n][k].do = "catch" /\ todo[n][k].clears
                THEN [keyOf EXCEPT ![n] = Unset] ELSE keyOf
    /\ UNCHANGED numbers

(* receiveReply(): messages with another id are dropped; the one awaited is     *)
(* refused when its parameter has the id of another message.                    *)
\* an implementation that takes the next message for the reply
Bug_Awaited(m, id) == m.from = "sub" \/ m.id = id \/ (m.id = "SC_Rejected" /\ id = "SC_Response")

Awaited(m, id) == m.id = id \/ (m.id = "SC_Rejected" /\ id = "SC_Response")

Accepted(n, m) ==
    /\ todo' = [todo EXCEPT ![n] = Rest(n)]
    /\ numbers' = [numbers EXCEPT ![n].other = m.number]
    /\ UNCHANGED keyOf

Await(n) ==
    /\ Do(n, "await") /\ inQueue[n][ReplyVc] # <<>>
    /\ inQueue' = [inQueue EXCEPT ![n][ReplyVc] = Tail(@)]
    /\ LET m == Head(inQueue[n][ReplyVc]) IN
       IF ~Awaited(m, Head(todo[n]).id) THEN UNCHANGED <<todo, numbers, keyOf>>
       ELSE IF m.d # m.id \/ m.id = "SC_Rejected" THEN Throw(n) ELSE Accepted(n, m)
    /\ Unchanged

TimeOut(n) ==
    /\ Do(n, "await") /\ Head(todo[n]).id \in TimesOut /\ inQueue[n][ReplyVc] = <<>>
    /\ Throw(n) /\ Unchanged /\ UNCHANGED inQueue

(* rand() and prime(): the numbers of an exchange are new.                      *)
DrawNumbers(n) ==
    /\ Do(n, "draw")
    /\ numbers' = [numbers EXCEPT ![n].own = @ + 1]
    /\ todo' = [todo EXCEPT ![n] = Rest(n)]
    /\ Unchanged /\ UNCHANGED <<inQueue, keyOf>>

KeyIsSet(n) ==
    /\ Do(n, "key")
    /\ keyOf' = [keyOf EXCEPT ![n] = IF n = "sub" THEN <<numbers[n].own, numbers[n].other>>
                                     ELSE <<numbers[n].other, numbers[n].own>>]
    /\ todo' = [todo EXCEPT ![n] = Rest(n)]
    /\ Unchanged /\ UNCHANGED <<inQueue, numbers>>

Leave(n) ==
    /\ Do(n, "catch") /\ todo' = [todo EXCEPT ![n] = Rest(n)]
    /\ Unchanged /\ UNCHANGED <<inQueue, numbers, keyOf>>

Next == \E n \in Node :
    \/ \E request \in SuperCalls \cup SubCalls : StartCall(n, request)
    \/ handleOneRequest(n) \/ handleBufferedRequests(n)
    \/ Send(n) \/ Await(n) \/ TimeOut(n)
    \/ DrawNumbers(n) \/ KeyIsSet(n) \/ Leave(n)

Spec == Init /\ [][Next]_vars

--------------------------------------------------------------------------------
(* The key of the sub node is made of the numbers of the exchange the key of    *)
(* the super node was made of, whatever other calls the nodes make meanwhile.   *)
KeysAgree == keyOf["sub"] # Unset => keyOf["sub"] = keyOf["super"]

================================================================================
