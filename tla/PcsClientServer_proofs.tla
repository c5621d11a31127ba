------------------------ MODULE PcsClientServer_proofs ------------------------
(* Proof that a call to the PCS is a remote call, for every set of clients, size *)
(* of queue and number of calls.                                                 *)
(*                                                                               *)
(* A call is written once and is in one place until it is served: in nobody's    *)
(* queue before it is sent, then in the queue of the PCS, then in its hands.     *)
(* Only calls that were served are replied to.                                   *)
EXTENDS PcsClientServer, TLAPS

CallId == Clients \X (Nat \ {0})
Elements(s) == {s[i] : i \in DOMAIN s}

Unsent == {"request", "detach", "remove", "attach", "reply", "send", "enter", "sending"}

TypeOK ==
  /\ requests \in Seq(CallId)
  /\ replies \in [Clients -> Seq(CallId)]
  /\ spc \in {"receive", "handle", "reply", "replying"}
  /\ spc /= "receive" => current \in CallId
  /\ served \subseteq CallId /\ unanswered \subseteq CallId
  /\ pc \in [Clients -> Unsent \cup {"idle", "receive"}]
  /\ calls \in [Clients -> Nat]
  /\ result \in [Clients -> {"none", "open", "success", "failed", "timeout"}]

Done == served \cup unanswered
Waiting == Elements(requests) \cup (IF spc = "handle" THEN {current} ELSE {})

\* No call waits twice, is served and waits still, or has not been made.
WaitsOnce ==
  /\ \A i, j \in DOMAIN requests : i /= j => requests[i] /= requests[j]
  /\ spc = "handle" => current \notin Elements(requests)
  /\ Waiting \cap Done = {}
WereCalled == \A d \in Waiting \cup Done : d[2] <= calls[d[1]]

\* A call that its client has not sent is known to nobody.
UnsentIsUnknown == \A c \in Clients : pc[c] \in Unsent => ThisCall(c) \notin Waiting \cup Done

RepliesAreServed ==
  /\ spc \in {"reply", "replying"} => current \in served
  /\ \A c \in Clients : Elements(replies[c]) \subseteq served

\* A client inside a call has an open one.
OpenInside ==
  \A c \in Clients : /\ result[c] = "open" <=> pc[c] /= "idle"
                     /\ pc[c] /= "idle" => calls[c] > 0

IInv == TypeOK /\ WaitsOnce /\ WereCalled /\ UnsentIsUnknown /\ RepliesAreServed /\ OpenInside

(* What is in a sequence, and after Append and Tail. *)
LEMMA ElementsProperties ==
  ASSUME NEW S, NEW s \in Seq(S)
  PROVE  /\ Elements(s) \subseteq S
         /\ \A e \in S : /\ Append(s, e) \in Seq(S) /\ Elements(Append(s, e)) = Elements(s) \cup {e}
                         /\ e \notin Elements(s) /\ (\A i, j \in DOMAIN s : i /= j => s[i] /= s[j])
                              => \A i, j \in DOMAIN Append(s, e) : i /= j => Append(s, e)[i] /= Append(s, e)[j]
         /\ s /= <<>> => Tail(s) \in Seq(S) /\ Elements(s) = Elements(Tail(s)) \cup {Head(s)}
         /\ s /= <<>> /\ (\A i, j \in DOMAIN s : i /= j => s[i] /= s[j])
              => /\ Head(s) \notin Elements(Tail(s))
                 /\ \A i, j \in DOMAIN Tail(s) : i /= j => Tail(s)[i] /= Tail(s)[j]
<1>1. Len(s) \in Nat /\ DOMAIN s = 1 .. Len(s) /\ \A i \in 1 .. Len(s) : s[i] \in S
  OBVIOUS
<1>2. Elements(s) \subseteq S
  BY <1>1 DEF Elements
<1>3. ASSUME NEW e \in S
      PROVE  /\ Append(s, e) \in Seq(S) /\ Elements(Append(s, e)) = Elements(s) \cup {e}
             /\ e \notin Elements(s) /\ (\A i, j \in DOMAIN s : i /= j => s[i] /= s[j])
                  => \A i, j \in DOMAIN Append(s, e) : i /= j => Append(s, e)[i] /= Append(s, e)[j]
  <2>1. /\ Append(s, e) \in Seq(S) /\ DOMAIN Append(s, e) = 1 .. Len(s) + 1
        /\ Append(s, e)[Len(s) + 1] = e
        /\ \A i \in 1 .. Len(s) : Append(s, e)[i] = s[i]
    BY <1>1
  <2>2. \A i \in 1 .. Len(s) + 1 : i \in 1 .. Len(s) \/ i = Len(s) + 1
    BY <1>1
  <2> QED
    BY <1>1, <2>1, <2>2 DEF Elements
<1>4. ASSUME s /= <<>>
      PROVE  /\ Tail(s) \in Seq(S) /\ Elements(s) = Elements(Tail(s)) \cup {Head(s)}
             /\ (\A i, j \in DOMAIN s : i /= j => s[i] /= s[j])
                  => /\ Head(s) \notin Elements(Tail(s))
                     /\ \A i, j \in DOMAIN Tail(s) : i /= j => Tail(s)[i] /= Tail(s)[j]
  <2>1. /\ Tail(s) \in Seq(S) /\ DOMAIN Tail(s) = 1 .. Len(s) - 1
        /\ Len(s) >= 1 /\ Head(s) = s[1]
        /\ \A i \in 1 .. Len(s) - 1 : Tail(s)[i] = s[i + 1]
    BY <1>1, <1>4
  <2>2. /\ \A i \in 1 .. Len(s) - 1 : i + 1 \in 1 .. Len(s) /\ i + 1 /= 1
        /\ \A i \in 1 .. Len(s) : i = 1 \/ (i - 1 \in 1 .. Len(s) - 1 /\ (i - 1) + 1 = i)
        /\ 1 \in 1 .. Len(s)
    BY <1>1, <2>1
  <2>3. \A i, j \in 1 .. Len(s) - 1 : i /= j => i + 1 /= j + 1
    BY <1>1
  <2>4. Elements(s) = Elements(Tail(s)) \cup {Head(s)}
    <3>1. ASSUME NEW e \in Elements(s) PROVE e \in Elements(Tail(s)) \cup {Head(s)}
      <4>1. PICK i \in 1 .. Len(s) : e = s[i]
        BY <1>1, <3>1 DEF Elements
      <4>2. CASE i = 1
        BY <2>1, <4>1, <4>2
      <4>3. CASE i /= 1
        <5>1. i - 1 \in DOMAIN Tail(s) /\ Tail(s)[i - 1] = e
          BY <2>1, <2>2, <4>1, <4>3
        <5> QED
          BY <5>1 DEF Elements
      <4> QED
        BY <4>2, <4>3
    <3>2. ASSUME NEW e \in Elements(Tail(s)) \cup {Head(s)} PROVE e \in Elements(s)
      BY <1>1, <2>1, <2>2, <3>2 DEF Elements
    <3> QED
      BY <3>1, <3>2
  <2>5. ASSUME \A i, j \in DOMAIN s : i /= j => s[i] /= s[j]
        PROVE  /\ Head(s) \notin Elements(Tail(s))
               /\ \A i, j \in DOMAIN Tail(s) : i /= j => Tail(s)[i] /= Tail(s)[j]
    <3>1. \A i \in DOMAIN Tail(s) : Tail(s)[i] /= s[1]
      BY <1>1, <2>1, <2>2, <2>5
    <3>2. \A i, j \in DOMAIN Tail(s) : i /= j => Tail(s)[i] /= Tail(s)[j]
      BY <1>1, <2>1, <2>2, <2>3, <2>5
    <3> QED
      BY <2>1, <3>1, <3>2 DEF Elements
  <2> QED
    BY <2>1, <2>4, <2>5
<1> QED
  BY <1>2, <1>3, <1>4

(* Nobody has called at the start. *)
LEMMA InitEstablishesIInv == Init => IInv
<1> SUFFICES ASSUME Init PROVE IInv
  OBVIOUS
<1>1. Elements(<<>>) = {} /\ Waiting = {} /\ Done = {}
  BY DEF Init, Elements, Waiting, Done
<1>2. TypeOK
  BY DEF Init, TypeOK
<1> QED
  BY <1>1, <1>2 DEF Init, IInv, WaitsOnce, WereCalled, UnsentIsUnknown, RepliesAreServed, OpenInside, Unsent

(* The steps of a client that make nothing known to anybody. *)
QuietStep(c) ==
  \/ FindSender(c) \/ FindLostSender(c) \/ FindVictim(c) \/ RemoveSender(c) \/ RemoveTimeout(c)
  \/ RemoveFails(c) \/ AttachSender(c) \/ AttachReceiver(c) \/ FindVc(c) \/ SendEnter(c)
  \/ SendTimeout(c) \/ ReceiveTimeout(c)

\* it goes on with its call, or returns without success
GoesOn(c) ==
  /\ UNCHANGED <<requests, replies, spc, current, served, unanswered, calls>>
  /\ pc[c] /= "idle"
  /\ \/ /\ pc[c] \in Unsent /\ UNCHANGED result
        /\ \E to \in Unsent : pc' = [pc EXCEPT ![c] = to]
     \/ /\ pc' = [pc EXCEPT ![c] = "idle"]
        /\ \E r \in {"failed", "timeout"} : result' = [result EXCEPT ![c] = r]

LEMMA QuietStepsGoOn ==
  ASSUME NEW c \in Clients, QuietStep(c)
  PROVE  GoesOn(c)
<1> USE DEF GoesOn, Goto, Return, Unsent, slotVars, lockVars, queueVars, serverVars
<1>1. CASE FindSender(c) \/ FindVictim(c) \/ RemoveSender(c) \/ AttachSender(c)
  BY <1>1 DEF FindSender, FindVictim, RemoveSender, AttachSender
<1>2. CASE AttachReceiver(c) \/ SendEnter(c) \/ FindVc(c)
  BY <1>2 DEF AttachReceiver, SendEnter, FindVc
<1>3. CASE FindLostSender(c) \/ RemoveTimeout(c) \/ RemoveFails(c) \/ SendTimeout(c) \/ ReceiveTimeout(c)
  BY <1>3 DEF FindLostSender, RemoveTimeout, RemoveFails, SendTimeout, ReceiveTimeout
<1> QED
  BY <1>1, <1>2, <1>3 DEF QuietStep

LEMMA GoingOnPreservesIInv ==
  ASSUME IInv, NEW c \in Clients, GoesOn(c)
  PROVE  IInv'
<1> USE DEF IInv
<1>1. UNCHANGED <<requests, replies, spc, current, served, unanswered, calls>> /\ pc[c] /= "idle"
  BY DEF GoesOn
<1>2. Waiting' = Waiting /\ Done' = Done
  BY <1>1 DEF Waiting, Done, Elements
<1>3. TypeOK'
  BY <1>1 DEF GoesOn, TypeOK
<1>4. \A d \in Clients : pc'[d] \in Unsent => pc[d] \in Unsent
  BY DEF GoesOn, TypeOK, Unsent
<1>5. OpenInside'
  BY DEF GoesOn, OpenInside, TypeOK, Unsent
<1>6. WaitsOnce' /\ WereCalled' /\ RepliesAreServed'
  BY <1>1, <1>2 DEF WaitsOnce, WereCalled, RepliesAreServed, Elements
<1>7. UnsentIsUnknown'
  BY <1>1, <1>2, <1>4 DEF UnsentIsUnknown, ThisCall
<1> QED
  BY <1>3, <1>5, <1>6, <1>7

(* A new call is known to nobody, for its number is higher than any before. *)
LEMMA CallPreservesIInv ==
  ASSUME IInv, NEW c \in Clients, Call(c)
  PROVE  IInv'
<1> USE DEF IInv
<1>1. /\ UNCHANGED <<requests, replies, spc, current, served, unanswered>>
      /\ pc[c] = "idle" /\ pc' = [pc EXCEPT ![c] = "request"]
      /\ calls' = [calls EXCEPT ![c] = @ + 1] /\ result' = [result EXCEPT ![c] = "open"]
  BY DEF Call, Goto, queueVars, serverVars
<1>2. Waiting' = Waiting /\ Done' = Done
  BY <1>1 DEF Waiting, Done, Elements
<1>3. TypeOK'
  BY <1>1 DEF TypeOK, Unsent
<1>4. \A d \in Waiting \cup Done : d[1] \in Clients /\ d[2] \in Nat
  <2>1. Elements(requests) \subseteq CallId
    BY ElementsProperties DEF TypeOK
  <2> QED
    BY <2>1 DEF Waiting, Done, TypeOK, CallId
<1>5. \A d \in Clients : calls[d] \in Nat /\ calls'[d] = IF d = c THEN calls[d] + 1 ELSE calls[d]
  BY <1>1 DEF TypeOK
<1>6. WereCalled'
  BY <1>2, <1>4, <1>5 DEF WereCalled
<1>7. UnsentIsUnknown'
  <2>1. <<c, calls'[c]>> \notin Waiting \cup Done
    BY <1>4, <1>5 DEF WereCalled
  <2> QED
    BY <1>1, <1>2, <1>5, <2>1 DEF UnsentIsUnknown, ThisCall, TypeOK
<1>8. WaitsOnce' /\ RepliesAreServed' /\ OpenInside'
  BY <1>1, <1>2 DEF WaitsOnce, RepliesAreServed, OpenInside, Elements, TypeOK
<1> QED
  BY <1>3, <1>6, <1>7, <1>8

(* Sending makes the call known to the PCS, once. *)
LEMMA SendPushPreservesIInv ==
  ASSUME IInv, NEW c \in Clients, SendPush(c)
  PROVE  IInv'
<1> USE DEF IInv
<1> DEFINE call == ThisCall(c)
<1>1. /\ UNCHANGED <<replies, spc, current, served, unanswered, calls, result>>
      /\ pc[c] = "sending" /\ pc' = [pc EXCEPT ![c] = "receive"]
      /\ requests' = Append(requests, call)
  BY DEF SendPush, Goto, serverVars
<1>2. call \in CallId /\ call[1] = c /\ call[2] = calls[c] /\ calls[c] \in Nat
  <2>1. calls[c] \in Nat /\ calls[c] > 0
    BY <1>1 DEF TypeOK, OpenInside
  <2> QED
    BY <2>1 DEF ThisCall, CallId
<1>3. call \notin Waiting \cup Done
  BY <1>1 DEF UnsentIsUnknown, Unsent
<1>4. \A d \in Clients \ {c} : ThisCall(d) /= call
  BY DEF ThisCall
<1>5. \A d \in Clients : ThisCall(d)' = ThisCall(d)
  BY <1>1 DEF ThisCall
<1> HIDE DEF call
<1>6. /\ requests' \in Seq(CallId) /\ Elements(requests') = Elements(requests) \cup {call}
      /\ \A i, j \in DOMAIN requests' : i /= j => requests'[i] /= requests'[j]
  <2>1. call \notin Elements(requests) /\ requests \in Seq(CallId)
    BY <1>3 DEF Waiting, TypeOK
  <2>2. \A i, j \in DOMAIN requests : i /= j => requests[i] /= requests[j]
    BY DEF WaitsOnce
  <2> QED
    BY <1>1, <1>2, <2>1, <2>2, ElementsProperties
<1>7. Waiting' = Waiting \cup {call} /\ Done' = Done
  BY <1>1, <1>6 DEF Waiting, Done
<1>8. TypeOK'
  BY <1>1, <1>6 DEF TypeOK
<1>9. WaitsOnce'
  BY <1>1, <1>3, <1>6, <1>7 DEF WaitsOnce, Waiting
<1>10. WereCalled'
  BY <1>1, <1>2, <1>7 DEF WereCalled
<1>11. UnsentIsUnknown'
  BY <1>1, <1>4, <1>5, <1>7 DEF UnsentIsUnknown, TypeOK, Unsent
<1>12. RepliesAreServed' /\ OpenInside'
  BY <1>1 DEF RepliesAreServed, OpenInside, TypeOK
<1> QED
  BY <1>8, <1>9, <1>10, <1>11, <1>12

(* Taking a reply changes what waits for the client only. *)
LEMMA ReceivePreservesIInv ==
  ASSUME IInv, NEW c \in Clients, Receive(c)
  PROVE  IInv'
<1> USE DEF IInv
<1>1. /\ UNCHANGED <<requests, spc, current, served, unanswered, calls>>
      /\ replies' = [replies EXCEPT ![c] = Tail(@)] /\ replies[c] /= <<>>
      /\ pc[c] = "receive"
      /\ \/ pc' = [pc EXCEPT ![c] = "idle"] /\ result' = [result EXCEPT ![c] = "success"]
         \/ pc' = [pc EXCEPT ![c] = "receive"] /\ UNCHANGED result
  BY DEF Receive, Goto, Return, serverVars
<1>2. Waiting' = Waiting /\ Done' = Done
  BY <1>1 DEF Waiting, Done, Elements
<1>3. Tail(replies[c]) \in Seq(CallId) /\ Elements(Tail(replies[c])) \subseteq Elements(replies[c])
  <2>1. replies[c] \in Seq(CallId)
    BY DEF TypeOK
  <2> QED
    BY <1>1, <2>1, ElementsProperties
<1>4. TypeOK'
  BY <1>1, <1>3 DEF TypeOK
<1>5. RepliesAreServed'
  BY <1>1, <1>3 DEF RepliesAreServed, TypeOK
<1>6. WaitsOnce' /\ WereCalled'
  BY <1>1, <1>2 DEF WaitsOnce, WereCalled, Elements
<1>7. UnsentIsUnknown' /\ OpenInside'
  BY <1>1, <1>2 DEF UnsentIsUnknown, OpenInside, ThisCall, TypeOK, Unsent
<1> QED
  BY <1>4, <1>5, <1>6, <1>7

(* The PCS takes a call, serves it, and replies to it. *)
LEMMA TakePreservesIInv ==
  ASSUME IInv, TakeRequest
  PROVE  IInv'
<1> USE DEF IInv
<1>1. /\ UNCHANGED <<replies, served, unanswered, pc, calls, result>>
      /\ spc = "receive" /\ spc' = "handle" /\ requests /= <<>>
      /\ current' = Head(requests) /\ requests' = Tail(requests)
  BY DEF TakeRequest, clientVars
<1>2. /\ requests \in Seq(CallId) /\ Elements(requests) \subseteq CallId
      /\ requests' \in Seq(CallId) /\ Elements(requests) = Elements(requests') \cup {current'}
      /\ current' \notin Elements(requests')
      /\ \A i, j \in DOMAIN requests' : i /= j => requests'[i] /= requests'[j]
  BY <1>1, ElementsProperties DEF TypeOK, WaitsOnce
<1>3. Waiting' = Waiting /\ Done' = Done
  BY <1>1, <1>2 DEF Waiting, Done
<1>4. TypeOK'
  BY <1>1, <1>2 DEF TypeOK
<1>5. WaitsOnce' /\ WereCalled'
  BY <1>1, <1>2, <1>3 DEF WaitsOnce, WereCalled
<1>6. UnsentIsUnknown' /\ RepliesAreServed' /\ OpenInside'
  BY <1>1, <1>3 DEF UnsentIsUnknown, RepliesAreServed, OpenInside, ThisCall
<1> QED
  BY <1>4, <1>5, <1>6

LEMMA HandlePreservesIInv ==
  ASSUME IInv, Handle
  PROVE  IInv'
<1> USE DEF IInv
<1>1. /\ UNCHANGED <<requests, replies, pc, calls, result>> /\ spc = "handle"
      /\ \/ spc' = "reply" /\ served' = served \cup {current} /\ UNCHANGED <<unanswered, current>>
         \/ spc' = "receive" /\ unanswered' = unanswered \cup {current} /\ UNCHANGED served
  BY DEF Handle, queueVars, clientVars
<1>2. /\ Waiting = Elements(requests) \cup {current} /\ current \notin Elements(requests)
      /\ Waiting' = Elements(requests) /\ Done' = Done \cup {current} /\ current \in CallId
  BY <1>1 DEF Waiting, Done, Elements, WaitsOnce, TypeOK
<1>3. TypeOK'
  BY <1>1, <1>2 DEF TypeOK
<1>4. WaitsOnce' /\ WereCalled'
  BY <1>1, <1>2 DEF WaitsOnce, WereCalled
<1>5. UnsentIsUnknown'
  BY <1>1, <1>2 DEF UnsentIsUnknown, ThisCall
<1>6. RepliesAreServed' /\ OpenInside'
  BY <1>1 DEF RepliesAreServed, OpenInside
<1> QED
  BY <1>3, <1>4, <1>5, <1>6

LEMMA ReplyPreservesIInv ==
  ASSUME IInv, ReplyEnter \/ ReplyPush
  PROVE  IInv'
<1> USE DEF IInv
<1>1. /\ UNCHANGED <<requests, served, unanswered, pc, calls, result>>
      /\ spc \in {"reply", "replying"} /\ spc' \in {"receive", "replying"}
  BY DEF ReplyEnter, ReplyPush, queueVars, clientVars
<1>2. spc' /= "receive" => UNCHANGED current
  BY DEF ReplyEnter, ReplyPush
<1>3. Waiting' = Waiting /\ Done' = Done
  BY <1>1 DEF Waiting, Done
<1>4. current \in served /\ current \in CallId
  BY <1>1 DEF RepliesAreServed, TypeOK
<1>5. replies' \in [Clients -> Seq(CallId)] /\ \A c \in Clients : Elements(replies'[c]) \subseteq served
  <2>1. CASE ReplyEnter
    BY <2>1 DEF ReplyEnter, queueVars, TypeOK, RepliesAreServed
  <2>2. CASE ReplyPush
    <3>1. replies' = [c \in Clients |-> IF c \in listening THEN Append(replies[c], current) ELSE replies[c]]
      BY <2>2 DEF ReplyPush
    <3>2. \A c \in Clients : /\ replies[c] \in Seq(CallId) /\ Elements(replies[c]) \subseteq served
                             /\ Append(replies[c], current) \in Seq(CallId)
                             /\ Elements(Append(replies[c], current)) = Elements(replies[c]) \cup {current}
      BY <1>4, ElementsProperties DEF TypeOK, RepliesAreServed
    <3> QED
      BY <1>4, <3>1, <3>2
  <2> QED
    BY <2>1, <2>2
<1>6. TypeOK'
  BY <1>1, <1>2, <1>5 DEF TypeOK
<1>7. WaitsOnce' /\ WereCalled' /\ UnsentIsUnknown' /\ OpenInside'
  BY <1>1, <1>3 DEF WaitsOnce, WereCalled, UnsentIsUnknown, OpenInside, ThisCall
<1>8. RepliesAreServed'
  BY <1>1, <1>2, <1>4, <1>5 DEF RepliesAreServed
<1> QED
  BY <1>6, <1>7, <1>8

(* Clients and the PCS have these steps and no others. *)
LEMMA StepCases ==
  ASSUME [Next]_vars
  PROVE  \/ \E c \in Clients : Call(c) \/ QuietStep(c) \/ SendPush(c) \/ Receive(c)
         \/ TakeRequest \/ Handle \/ ReplyEnter \/ ReplyPush
         \/ UNCHANGED vars
  BY DEF Next, sendAndReceive, establishCommunication, assureSenderConnection, sendRequest, receiveReply,
         handleOneRequest, QuietStep

LEMMA IInvIsInvariant == Spec => []IInv
<1>1. IInv /\ [Next]_vars => IInv'
  <2> SUFFICES ASSUME IInv, [Next]_vars PROVE IInv'
    OBVIOUS
  <2>1. CASE UNCHANGED vars
    BY <2>1 DEF vars, queueVars, serverVars, clientVars, IInv, TypeOK, WaitsOnce, WereCalled, UnsentIsUnknown,
                RepliesAreServed, OpenInside, Waiting, Done, Elements, ThisCall
  <2> QED
    BY <2>1, StepCases, QuietStepsGoOn, GoingOnPreservesIInv, CallPreservesIInv, SendPushPreservesIInv,
       ReceivePreservesIInv, TakePreservesIInv, HandlePreservesIInv, ReplyPreservesIInv
<1> QED
  BY <1>1, InitEstablishesIInv, PTL DEF Spec

-------------------------------------------------------------------------------
(* A client that returns has an open call, and success means it was served. *)
LEMMA ReturnImplementsRemoteCall ==
  ASSUME IInv, NEW c \in Clients, NEW r \in {"success", "failed", "timeout"},
         pc[c] /= "idle", UNCHANGED <<calls, served, unanswered>>,
         result' = [result EXCEPT ![c] = r],
         r = "success" => ThisCall(c) \in served
  PROVE  Abstract!Next
<1>1. result[c] = "open" /\ result \in [Clients -> {"none", "open", "success", "failed", "timeout"}]
  BY DEF IInv, OpenInside, TypeOK
<1> DEFINE a == IF r = "failed" THEN "timeout" ELSE r
<1>2. a \in {"success", "timeout"}
  OBVIOUS
<1>3. Abstract!Return(c, a)
  BY <1>1, <1>2 DEF Abstract!Return, ThisCall
<1> QED
  BY <1>2, <1>3 DEF Abstract!Next

LEMMA ClientImplementsRemoteCall ==
  ASSUME IInv, NEW c \in Clients, Call(c) \/ QuietStep(c) \/ SendPush(c) \/ Receive(c)
  PROVE  Abstract!Next \/ UNCHANGED Abstract!vars
<1>1. UNCHANGED <<served, unanswered>>
  BY QuietStepsGoOn DEF Call, GoesOn, SendPush, Receive, serverVars
<1>2. CASE Call(c)
  <2>1. result[c] /= "open" /\ result \in [Clients -> {"none", "open", "success", "failed", "timeout"}]
    BY <1>2 DEF Call, Goto, IInv, OpenInside, TypeOK
  <2>2. Abstract!Call(c)
    BY <1>1, <1>2, <2>1 DEF Call, Abstract!Call
  <2> QED
    BY <2>2 DEF Abstract!Next
<1>3. CASE QuietStep(c)
  <2>1. GoesOn(c)
    BY <1>3, QuietStepsGoOn
  <2>2. CASE UNCHANGED result
    BY <2>1, <2>2 DEF GoesOn, Abstract!vars
  <2>3. CASE \E r \in {"failed", "timeout"} : result' = [result EXCEPT ![c] = r]
    BY <2>1, <2>3, ReturnImplementsRemoteCall DEF GoesOn
  <2> QED
    BY <2>1, <2>2, <2>3 DEF GoesOn
<1>4. CASE SendPush(c)
  BY <1>1, <1>4 DEF SendPush, Abstract!vars
<1>5. CASE Receive(c)
  <2>1. pc[c] = "receive" /\ UNCHANGED calls
    BY <1>5 DEF Receive, Goto, Return
  <2>2. CASE Head(replies[c]) = ThisCall(c)
    <3>1. result' = [result EXCEPT ![c] = "success"]
      BY <1>5, <2>2 DEF Receive, Return
    <3>2. replies[c] \in Seq(CallId) /\ replies[c] /= <<>> /\ Elements(replies[c]) \subseteq served
      BY <1>5 DEF Receive, IInv, TypeOK, RepliesAreServed
    <3>3. ThisCall(c) \in served
      BY <2>2, <3>2, ElementsProperties
    <3> QED
      BY <1>1, <2>1, <3>1, <3>3, ReturnImplementsRemoteCall
  <2>3. CASE Head(replies[c]) /= ThisCall(c)
    BY <1>1, <1>5, <2>1, <2>3 DEF Receive, Abstract!vars
  <2> QED
    BY <2>2, <2>3
<1> QED
  BY <1>2, <1>3, <1>4, <1>5

(* What the handler has in hand was called and not served before. *)
LEMMA HandleImplementsRemoteCall ==
  ASSUME IInv, Handle
  PROVE  Abstract!Next
<1>1. spc = "handle" /\ UNCHANGED <<calls, result>>
  BY DEF Handle, clientVars
<1>2. PICK p \in Clients, n \in Nat \ {0} : current = <<p, n>>
  BY <1>1 DEF IInv, TypeOK, CallId
<1>3. n <= calls[p] /\ current \notin Done /\ calls[p] \in Nat
  BY <1>1, <1>2 DEF IInv, WereCalled, WaitsOnce, Waiting, TypeOK
<1>4. Abstract!Serve(p, n)
  BY <1>1, <1>2, <1>3 DEF Handle, Done, Abstract!Serve
<1> QED
  BY <1>2, <1>3, <1>4 DEF Abstract!Next

(* Every step of clients and PCS is a step of the remote call or invisible to it. *)
THEOREM PcsImplementsRemoteCall == Spec => ImplementsRemoteCall
<1>1. Init => Abstract!Init
  BY DEF Init, Abstract!Init
<1>2. IInv /\ [Next]_vars => [Abstract!Next]_(Abstract!vars)
  <2> SUFFICES ASSUME IInv, [Next]_vars
               PROVE  Abstract!Next \/ UNCHANGED Abstract!vars
    OBVIOUS
  <2>1. CASE TakeRequest \/ ReplyEnter \/ ReplyPush
    BY <2>1 DEF TakeRequest, ReplyEnter, ReplyPush, clientVars, Abstract!vars
  <2>2. CASE UNCHANGED vars
    BY <2>2 DEF vars, serverVars, clientVars, Abstract!vars
  <2> QED
    BY <2>1, <2>2, StepCases, ClientImplementsRemoteCall, HandleImplementsRemoteCall
<1> QED
  BY <1>1, <1>2, IInvIsInvariant, PTL DEF Spec, ImplementsRemoteCall, Abstract!Spec

(* Whoever leaves the sender's slot empty has lost its own object of it in doing  *)
(* so; objects are initialised only while somebody is the sender.                 *)
LEMMA StepKeepsSlot ==
  ASSUME ClientAssumption, SlotCanBeTaken, [Next]_vars
  PROVE  SlotCanBeTaken'
<1>1. CASE UNCHANGED slotVars
  BY <1>1 DEF SlotCanBeTaken, slotVars
<1>2. ASSUME NEW c \in Clients, FindSender(c)
      PROVE  SlotCanBeTaken'
  BY <1>2 DEF FindSender, SlotCanBeTaken
<1>3. ASSUME NEW c \in Clients, RemoveSender(c) \/ RemoveTimeout(c)
      PROVE  SlotCanBeTaken'
  BY <1>3 DEF RemoveSender, RemoveTimeout, SlotCanBeTaken
<1>4. ASSUME NEW c \in Clients, AttachSender(c)
      PROVE  SlotCanBeTaken'
  <2>1. c /= None
    BY DEF ClientAssumption
  <2>2. sender' = c \/ UNCHANGED slotVars
    BY <1>4 DEF AttachSender
  <2> QED
    BY <2>1, <2>2 DEF SlotCanBeTaken, slotVars
<1> QED
  BY <1>1, <1>2, <1>3, <1>4
  DEF Next, vars, Call, sendAndReceive, establishCommunication, assureSenderConnection, sendRequest,
      receiveReply, handleOneRequest, FindLostSender, FindVictim, RemoveFails, AttachReceiver, FindVc,
      SendEnter, SendPush, SendTimeout, Receive, ReceiveTimeout, TakeRequest, Handle, ReplyEnter, ReplyPush

(* While nobody is the sender and no removal has timed out, the stale objects of   *)
(* the slot do not keep every client from becoming the sender.                     *)
THEOREM SlotStaysFree == Spec => []SlotCanBeTaken
<1>1. Init => SlotCanBeTaken
  BY ClientAssumption DEF ClientAssumption, Init, SlotCanBeTaken
<1> QED
  BY <1>1, StepKeepsSlot, ClientAssumption, PTL DEF Spec
===============================================================================
