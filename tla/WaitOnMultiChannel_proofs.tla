---------------------- MODULE WaitOnMultiChannel_proofs ----------------------
(* Proof that waiting on several channels neither misses a message nor takes    *)
(* one, for every number of waiters, senders and vcs, as long as the trigger    *)
(* counter does not wrap around.                                                *)
(*                                                                              *)
(* A vc that was polled in vain and holds a message now was written to by a     *)
(* sender that has not yet incremented the counter read before polling.         *)
EXTENDS WaitOnMultiChannel, FiniteSetTheorems, TLAPS

\* The counter can count all messages without wrapping around.
NoWrap ==
  /\ IsFiniteSet(Senders) /\ IsFiniteSet(Waiters)
  /\ Cardinality(Senders \X (1 .. MaxMessages)) < TriggerModulus

SendsOk ==
  \A s \in Senders :
    /\ todo[s] \subseteq Receivers[s]
    /\ spc[s] = "idle" => todo[s] = {}
    /\ spc[s] = "sending" => sent[s] > 0

\* The messages whose sender has incremented the counter.
Triggers == {m \in Senders \X (1 .. MaxMessages) :
               m[2] <= sent[m[1]] /\ (m[2] < sent[m[1]] \/ spc[m[1]] = "idle")}
CounterOk == TriggerValue = Cardinality(Triggers)

InLoop == {"poll", "post", "wait"}
RoundOk(w) ==
  /\ pc[w] = "post" => Index[w] <= Len(VcSetIn(w))
  /\ pc[w] \in InLoop => TriggerState[w] <= TriggerValue
  /\ vc_set_out[w] \subseteq Watched(w)
  /\ pc[w] = "wait" => /\ Index[w] > Len(VcSetIn(w))
                       /\ Cardinality(vc_set_out[w]) < MinNoVc(w)
RoundsOk == \A w \in Waiters : RoundOk(w)

\* A message was pushed to v, and its trigger is still to come.
Announced(v) == \E s \in Senders : spc[s] = "sending" /\ v \in Receivers[s] \ todo[s]

\* The vcs w has polled in vain in this round.
Missed(w) == {VcSetIn(w)[i] : i \in {j \in 1 .. Len(VcSetIn(w)) : j < Index[w]}} \ vc_set_out[w]

MissOk(w) ==
  Alone(w) /\ pc[w] \in InLoop /\ TriggerValue = TriggerState[w]
    => \A v \in Missed(w) : ReadSemaphore[v] = 0 \/ Announced(v)
MissesOk == \A w \in Waiters : MissOk(w)

IInv == TypeOK /\ SendsOk /\ CounterOk /\ RoundsOk /\ MissesOk /\ NoMessageLost

------------------------------------------------------------------------------
LEMMA CallTypes ==
  ASSUME call \in Calls, NEW w \in Waiters
  PROVE  /\ VcSetIn(w) \in Seq(Vc) /\ MinNoVc(w) \in Nat /\ Len(VcSetIn(w)) \in Nat
         /\ \A i \in 1 .. Len(VcSetIn(w)) : VcSetIn(w)[i] \in Vc /\ VcSetIn(w)[i] \in Watched(w)
         /\ IsFiniteSet(Watched(w)) /\ Watched(w) \subseteq Vc
<1>1. call[w] \in Arguments
  BY WaitAssumption
<1>2. VcSetIn(w) \in Seq(Vc) /\ MinNoVc(w) \in Nat
  BY <1>1 DEF Arguments, VcSetIn, MinNoVc
<1>3. PICK f \in Seq(Vc) : f = VcSetIn(w)
  BY <1>2
<1>4. Len(f) \in Nat /\ DOMAIN f = 1 .. Len(f) /\ \A i \in 1 .. Len(f) : f[i] \in Vc
  OBVIOUS
<1>5. Watched(w) = {f[i] : i \in 1 .. Len(f)}
  BY <1>3, <1>4 DEF Watched
<1>6. IsFiniteSet({f[i] : i \in 1 .. Len(f)})
  <2> DEFINE R == {f[i] : i \in 1 .. Len(f)}
  <2>1. IsFiniteSet(1 .. Len(f))
    BY <1>4, FS_Interval
  <2>2. f \in Surjection(1 .. Len(f), R)
    BY <1>4 DEF Surjection
  <2> HIDE DEF R
  <2>3. IsFiniteSet(R)
    BY <2>1, <2>2, FS_Surjection
  <2> QED
    BY <2>3 DEF R
<1> QED
  BY <1>2, <1>3, <1>4, <1>5, <1>6

\* Sets of messages are finite, before and after a step.
LEMMA MessagesAreFinite ==
  ASSUME NoWrap
  PROVE  /\ IsFiniteSet(Senders \X (1 .. MaxMessages))
         /\ \A S \in SUBSET (Senders \X (1 .. MaxMessages)) :
              IsFiniteSet(S) /\ Cardinality(S) \in Nat
<1>1. IsFiniteSet(1 .. MaxMessages)
  BY WaitAssumption, FS_Interval
<1>2. IsFiniteSet(Senders \X (1 .. MaxMessages))
  BY <1>1, FS_Product DEF NoWrap
<1> QED
  BY <1>2, FS_Subset, FS_CardinalityType

\* Those who have borrowed a message of v.
Holders(v) == {w \in Waiters : pc[w] = "post" /\ Polled(w) = v}

LEMMA HoldersAreFinite ==
  ASSUME NoWrap, NEW S \in SUBSET Waiters
  PROVE  IsFiniteSet(S) /\ Cardinality(S) \in Nat
  BY FS_Subset, FS_CardinalityType DEF NoWrap

LEMMA InitEstablishesIInv ==
  ASSUME NoWrap, Init
  PROVE  IInv
<1>1. TypeOK
  <2>1. \A w \in Waiters : Index[w] \in 1 .. Len(VcSetIn(w)) + 1
    BY CallTypes DEF Init
  <2> QED
    BY <2>1, WaitAssumption DEF Init, TypeOK
<1>2. SendsOk /\ RoundsOk /\ MissesOk
  BY DEF Init, SendsOk, RoundsOk, RoundOk, MissesOk, MissOk, InLoop
<1>3. CounterOk
  <2>1. Triggers = {}
    BY WaitAssumption DEF Init, Triggers
  <2> QED
    BY <2>1, FS_EmptySet DEF Init, CounterOk
<1>4. NoMessageLost
  <2> SUFFICES ASSUME NEW v \in Vc
               PROVE  ReadSemaphore[v] + InHand(v) + received[v] = Cardinality(Pushes(v))
    BY DEF NoMessageLost
  <2>1. Pushes(v) = {} /\ {w \in Waiters : pc[w] = "post" /\ Polled(w) = v} = {}
    BY WaitAssumption DEF Init, Pushes
  <2>2. Cardinality(Pushes(v)) = 0 /\ InHand(v) = 0
    BY <2>1, FS_EmptySet DEF InHand
  <2> QED
    BY <2>2 DEF Init
<1> QED
  BY <1>1, <1>2, <1>3, <1>4 DEF IInv

------------------------------------------------------------------------------
(* The steps of a sender.                                                       *)

\* The waiters' part of the invariant, while they do nothing: a vc that has nothing
\* for them stays so, gets a message that is announced, or the counter moves on.
LEMMA SendersKeepRounds ==
  ASSUME TypeOK, RoundsOk, MissesOk, UNCHANGED <<call, waiterVars>>,
         \/ /\ TriggerValue' = TriggerValue
            /\ \A v \in Vc : ReadSemaphore[v] = 0 \/ Announced(v) => ReadSemaphore'[v] = 0 \/ Announced(v)'
         \/ TriggerValue' = TriggerValue + 1
  PROVE  RoundsOk' /\ MissesOk'
<1>1. \A w \in Waiters :
        /\ pc'[w] = pc[w] /\ TriggerState'[w] = TriggerState[w] /\ Index'[w] = Index[w]
        /\ vc_set_out'[w] = vc_set_out[w] /\ VcSetIn(w)' = VcSetIn(w) /\ MinNoVc(w)' = MinNoVc(w)
        /\ Watched(w)' = Watched(w) /\ Alone(w)' = Alone(w) /\ Missed(w)' = Missed(w)
  BY DEF waiterVars, VcSetIn, MinNoVc, Watched, Alone, Missed
<1>2. TriggerValue \in Nat /\ TriggerValue' \in Nat /\ TriggerValue' >= TriggerValue
      /\ \A w \in Waiters : TriggerState[w] \in Nat
  BY WaitAssumption DEF TypeOK
<1>3. RoundsOk'
  BY <1>1, <1>2 DEF RoundsOk, RoundOk
<1>4. ASSUME NEW w \in Waiters, Alone(w)', pc'[w] \in InLoop, TriggerValue' = TriggerState'[w], NEW v \in Missed(w)'
      PROVE  ReadSemaphore'[v] = 0 \/ Announced(v)'
  <2>1. TriggerState[w] <= TriggerValue
    BY <1>1, <1>4 DEF RoundsOk, RoundOk
  <2>2. TriggerValue' = TriggerValue /\ TriggerValue = TriggerState[w]
    BY <1>1, <1>2, <1>4, <2>1
  <2>3. ReadSemaphore[v] = 0 \/ Announced(v)
    BY <1>1, <1>4, <2>2 DEF MissesOk, MissOk
  <2>4. v \in Vc
    BY <1>1, <1>4, CallTypes DEF Missed, TypeOK
  <2> QED
    BY <1>2, <2>2, <2>3, <2>4
<1> QED
  BY <1>3, <1>4 DEF MissesOk, MissOk

LEMMA SendBeginPreservesIInv ==
  ASSUME NoWrap, IInv, NEW s \in Senders, SendBegin(s)
  PROVE  IInv'
<1> USE DEF IInv
<1>1. /\ spc[s] = "idle" /\ spc' = [spc EXCEPT ![s] = "sending"] /\ spc \in [Senders -> {"idle", "sending"}]
      /\ todo' = [todo EXCEPT ![s] = Receivers[s]] /\ todo \in [Senders -> SUBSET Vc] /\ todo[s] = {}
      /\ sent' = [sent EXCEPT ![s] = @ + 1] /\ sent \in [Senders -> 0 .. MaxMessages] /\ sent[s] < MaxMessages
      /\ UNCHANGED <<call, ReadSemaphore, TriggerValue, pc, TriggerState, Index, vc_set_out, received>>
  BY DEF SendBegin, TypeOK, SendsOk, waiterVars
<1>2. TypeOK'
  <2>1. sent' \in [Senders -> 0 .. MaxMessages] /\ spc' \in [Senders -> {"idle", "sending"}]
    BY <1>1, WaitAssumption
  <2>2. todo' \in [Senders -> SUBSET Vc]
    BY <1>1, WaitAssumption
  <2>3. \A w \in Waiters : VcSetIn(w)' = VcSetIn(w)
    BY <1>1 DEF VcSetIn
  <2> QED
    BY <1>1, <2>1, <2>2, <2>3 DEF TypeOK
<1>3. SendsOk'
  BY <1>1 DEF SendsOk
<1>4. CounterOk'
  <2>1. \A m \in Senders \X (1 .. MaxMessages) :
          (m[2] <= sent'[m[1]] /\ (m[2] < sent'[m[1]] \/ spc'[m[1]] = "idle"))
            <=> (m[2] <= sent[m[1]] /\ (m[2] < sent[m[1]] \/ spc[m[1]] = "idle"))
    <3> TAKE m \in Senders \X (1 .. MaxMessages)
    <3>1. CASE m[1] = s
      BY <1>1, <3>1
    <3>2. CASE m[1] /= s
      BY <1>1, <3>2
    <3> QED
      BY <3>1, <3>2
  <2>2. Triggers' = Triggers
    BY <2>1 DEF Triggers
  <2> QED
    BY <1>1, <2>2 DEF CounterOk
<1>5. \A v \in Vc : Announced(v) => Announced(v)'
  BY <1>1 DEF Announced
<1>6. RoundsOk' /\ MissesOk'
  <2>1. UNCHANGED <<call, waiterVars>> /\ TriggerValue' = TriggerValue
        /\ \A v \in Vc : ReadSemaphore[v] = 0 \/ Announced(v) => ReadSemaphore'[v] = 0 \/ Announced(v)'
    BY <1>1, <1>5 DEF waiterVars
  <2> QED
    BY <2>1, SendersKeepRounds
<1>7. NoMessageLost'
  <2> SUFFICES ASSUME NEW v \in Vc
               PROVE  ReadSemaphore'[v] + InHand(v)' + received'[v] = Cardinality(Pushes(v)')
    BY DEF NoMessageLost
  <2>1. InHand(v)' = InHand(v)
    BY <1>1 DEF InHand, Polled, VcSetIn
  <2>2. \A m \in Senders \X (1 .. MaxMessages) :
          (m[2] <= sent'[m[1]] /\ (m[2] < sent'[m[1]] \/ v \notin todo'[m[1]])) /\ v \in Receivers[m[1]]
            <=> (m[2] <= sent[m[1]] /\ (m[2] < sent[m[1]] \/ v \notin todo[m[1]])) /\ v \in Receivers[m[1]]
    <3> TAKE m \in Senders \X (1 .. MaxMessages)
    <3>1. CASE m[1] = s
      BY <1>1, <3>1
    <3>2. CASE m[1] /= s
      BY <1>1, <3>2
    <3> QED
      BY <3>1, <3>2
  <2>3. Pushes(v)' = Pushes(v)
    BY <2>2 DEF Pushes
  <2> QED
    BY <1>1, <2>1, <2>3 DEF NoMessageLost
<1> QED
  BY <1>2, <1>3, <1>4, <1>6, <1>7

LEMMA PushOnePreservesIInv ==
  ASSUME NoWrap, IInv, NEW s \in Senders, PushOne(s)
  PROVE  IInv'
<1> USE DEF IInv
<1>1. PICK v \in todo[s] : /\ todo' = [todo EXCEPT ![s] = @ \ {v}]
                           /\ ReadSemaphore' = [ReadSemaphore EXCEPT ![v] = @ + 1]
  BY DEF PushOne
<1>2. /\ v \in Vc /\ v \in Receivers[s] /\ spc[s] = "sending" /\ sent[s] \in 1 .. MaxMessages
      /\ todo \in [Senders -> SUBSET Vc] /\ ReadSemaphore \in [Vc -> Nat]
      /\ UNCHANGED <<call, TriggerValue, spc, sent, pc, TriggerState, Index, vc_set_out, received>>
  BY <1>1, WaitAssumption DEF PushOne, TypeOK, SendsOk, waiterVars
<1>3. TypeOK'
  <2>1. ReadSemaphore' \in [Vc -> Nat] /\ todo' \in [Senders -> SUBSET Vc]
    BY <1>1, <1>2
  <2>2. \A w \in Waiters : VcSetIn(w)' = VcSetIn(w)
    BY <1>2 DEF VcSetIn
  <2> QED
    BY <1>2, <2>1, <2>2 DEF TypeOK
<1>4. SendsOk'
  BY <1>1, <1>2 DEF SendsOk
<1>5. CounterOk'
  BY <1>2 DEF CounterOk, Triggers
<1>6. RoundsOk' /\ MissesOk'
  <2>1. \A u \in Vc : Announced(u) => Announced(u)'
    BY <1>1, <1>2 DEF Announced
  <2>2. Announced(v)'
    BY <1>1, <1>2 DEF Announced
  <2>3. UNCHANGED <<call, waiterVars>> /\ TriggerValue' = TriggerValue
        /\ \A u \in Vc : ReadSemaphore[u] = 0 \/ Announced(u) => ReadSemaphore'[u] = 0 \/ Announced(u)'
    BY <1>1, <1>2, <2>1, <2>2 DEF waiterVars
  <2> QED
    BY <2>3, SendersKeepRounds
<1>7. NoMessageLost'
  <2> SUFFICES ASSUME NEW u \in Vc
               PROVE  ReadSemaphore'[u] + InHand(u)' + received'[u] = Cardinality(Pushes(u)')
    BY DEF NoMessageLost
  <2>1. ReadSemaphore[u] + InHand(u) + received[u] = Cardinality(Pushes(u))
    BY DEF NoMessageLost
  <2>2. InHand(u)' = InHand(u) /\ InHand(u) \in Nat
    BY <1>2, HoldersAreFinite DEF InHand, Polled, VcSetIn
  <2>3. CASE u /= v
    <3>1. \A t \in Senders : u \in todo'[t] <=> u \in todo[t]
      BY <1>1, <1>2, <2>3
    <3>2. Pushes(u)' = Pushes(u)
      BY <1>2, <3>1 DEF Pushes
    <3> QED
      BY <1>1, <1>2, <2>1, <2>2, <2>3, <3>2
  <2>4. CASE u = v
    <3> DEFINE m == <<s, sent[s]>>
               P == Pushes(v)
    <3>1. m \in Senders \X (1 .. MaxMessages) /\ m[1] = s /\ m[2] = sent[s] /\ m \notin P
      BY <1>1, <1>2 DEF Pushes
    <3>2. \A k \in Senders \X (1 .. MaxMessages) : k \in Pushes(v)' <=> k \in P \/ k = m
      <4> TAKE k \in Senders \X (1 .. MaxMessages)
      <4>0. k[1] \in Senders /\ k[2] \in Nat /\ k = <<k[1], k[2]>>
        OBVIOUS
      <4>1. CASE k[1] = s
        <5>1. k \in Pushes(v)' <=> k[2] <= sent[s]
          BY <1>1, <1>2, <4>1 DEF Pushes
        <5>2. k \in P <=> k[2] < sent[s]
          BY <1>1, <1>2, <4>0, <4>1 DEF Pushes
        <5>3. k = m <=> k[2] = sent[s]
          BY <4>0, <4>1
        <5> QED
          BY <1>2, <4>0, <5>1, <5>2, <5>3
      <4>2. CASE k[1] /= s
        <5>1. k \in Pushes(v)' <=> k \in P
          BY <1>1, <1>2, <4>0, <4>2 DEF Pushes
        <5> QED
          BY <4>2, <5>1
      <4> QED
        BY <4>1, <4>2
    <3>3. Pushes(v)' = P \cup {m}
      BY <3>1, <3>2 DEF Pushes
    <3>4. P \in SUBSET (Senders \X (1 .. MaxMessages))
      BY DEF Pushes
    <3> HIDE DEF m, P
    <3>5. IsFiniteSet(P) /\ Cardinality(P) \in Nat
      BY <3>4, MessagesAreFinite
    <3>6. Cardinality(Pushes(v)') = Cardinality(P) + 1
      <4>1. Cardinality(P \cup {m}) = Cardinality(P) + 1
        BY <3>1, <3>5, FS_AddElement
      <4> QED
        BY <3>3, <4>1
    <3>7. Cardinality(P) = ReadSemaphore[v] + InHand(v) + received[v]
      BY <2>1, <2>4 DEF P
    <3>8. ReadSemaphore'[v] = ReadSemaphore[v] + 1 /\ received' = received
          /\ ReadSemaphore[v] \in Nat /\ received[v] \in Nat
      BY <1>1, <1>2 DEF TypeOK
    <3> QED
      BY <2>2, <2>4, <3>6, <3>7, <3>8
  <2> QED
    BY <2>3, <2>4
<1> QED
  BY <1>3, <1>4, <1>5, <1>6, <1>7

\* The counter is what its senders have counted, so that it does not wrap around.
LEMMA TriggerPreservesIInv ==
  ASSUME NoWrap, IInv, NEW s \in Senders, trigger(s)
  PROVE  IInv'
<1> USE DEF IInv
<1>1. /\ spc[s] = "sending" /\ todo[s] = {} /\ sent[s] \in 1 .. MaxMessages
      /\ spc' = [spc EXCEPT ![s] = "idle"] /\ spc \in [Senders -> {"idle", "sending"}]
      /\ TriggerValue' = (TriggerValue + 1) % TriggerModulus
      /\ UNCHANGED <<call, ReadSemaphore, todo, sent, pc, TriggerState, Index, vc_set_out, received>>
  BY DEF trigger, TypeOK, SendsOk, waiterVars
<1>2. Cardinality(Triggers') = Cardinality(Triggers) + 1 /\ Cardinality(Triggers') < TriggerModulus
  <2> DEFINE m == <<s, sent[s]>>
             M == Senders \X (1 .. MaxMessages)
  <2>1. m \in M /\ m[1] = s /\ m[2] = sent[s] /\ m \notin Triggers
    BY <1>1 DEF Triggers
  <2>2. \A k \in M : k \in Triggers' <=> k \in Triggers \/ k = m
    <3> TAKE k \in M
    <3>0. k[1] \in Senders /\ k[2] \in Nat /\ k = <<k[1], k[2]>>
      OBVIOUS
    <3>1. CASE k[1] = s
      <4>1. k \in Triggers' <=> k[2] <= sent[s]
        BY <1>1, <3>1 DEF Triggers
      <4>2. k \in Triggers <=> k[2] < sent[s]
        BY <1>1, <3>0, <3>1 DEF Triggers
      <4>3. k = m <=> k[2] = sent[s]
        BY <3>0, <3>1
      <4> QED
        BY <1>1, <3>0, <4>1, <4>2, <4>3
    <3>2. CASE k[1] /= s
      <4>1. k \in Triggers' <=> k \in Triggers
        BY <1>1, <3>0, <3>2 DEF Triggers
      <4> QED
        BY <3>2, <4>1
    <3> QED
      BY <3>1, <3>2
  <2>3. Triggers' = Triggers \cup {m} /\ Triggers \in SUBSET M /\ Triggers' \in SUBSET M
    BY <2>1, <2>2 DEF Triggers
  <2> HIDE DEF m
  <2>4. IsFiniteSet(M) /\ IsFiniteSet(Triggers)
    BY <2>3, MessagesAreFinite
  <2>5. Cardinality(Triggers') = Cardinality(Triggers) + 1
    BY <2>1, <2>3, <2>4, FS_AddElement
  <2>6. Cardinality(Triggers') <= Cardinality(M)
    BY <2>3, <2>4, FS_Subset
  <2>7. Cardinality(M) \in Nat /\ Cardinality(Triggers') \in Nat /\ TriggerModulus \in Nat /\ Cardinality(M) < TriggerModulus
    <3>1. IsFiniteSet(Triggers')
      BY <2>3, MessagesAreFinite
    <3> QED
      BY <2>4, <3>1, FS_CardinalityType, WaitAssumption DEF NoWrap
  <2> QED
    BY <2>5, <2>6, <2>7
<1>3. TriggerValue' = TriggerValue + 1 /\ TriggerValue + 1 \in 0 .. TriggerModulus - 1
  <2>1. TriggerValue \in Nat /\ TriggerValue + 1 < TriggerModulus /\ TriggerModulus \in Nat \ {0}
    BY <1>2, WaitAssumption DEF CounterOk, TypeOK
  <2>2. (TriggerValue + 1) % TriggerModulus = TriggerValue + 1
    BY <2>1
  <2> QED
    BY <1>1, <2>1, <2>2
<1>4. TypeOK'
  <2>1. \A w \in Waiters : VcSetIn(w)' = VcSetIn(w)
    BY <1>1 DEF VcSetIn
  <2>2. spc' \in [Senders -> {"idle", "sending"}]
    BY <1>1
  <2> QED
    BY <1>1, <1>3, <2>1, <2>2 DEF TypeOK
<1>5. SendsOk'
  BY <1>1 DEF SendsOk
<1>6. CounterOk'
  BY <1>2, <1>3 DEF CounterOk
<1>7. RoundsOk' /\ MissesOk'
  <2>1. UNCHANGED <<call, waiterVars>>
    BY <1>1 DEF waiterVars
  <2> QED
    BY <1>3, <2>1, SendersKeepRounds
<1>8. NoMessageLost'
  BY <1>1 DEF NoMessageLost, InHand, Pushes, Polled, VcSetIn
<1> QED
  BY <1>4, <1>5, <1>6, <1>7, <1>8

------------------------------------------------------------------------------
(* The steps of a waiter.                                                       *)

\* The others' part of the invariant: they look only at vcs of their own.
LEMMA OthersKeepRounds ==
  ASSUME IInv, NEW w \in Waiters, UNCHANGED <<call, TriggerValue, senderVars>>,
         \A u \in Waiters \ {w} : /\ pc'[u] = pc[u] /\ TriggerState'[u] = TriggerState[u]
                                  /\ Index'[u] = Index[u] /\ vc_set_out'[u] = vc_set_out[u],
         \A v \in Vc \ Watched(w) : ReadSemaphore[v] = 0 => ReadSemaphore'[v] = 0,
         RoundOk(w)', MissOk(w)'
  PROVE  RoundsOk' /\ MissesOk'
<1>1. \A u \in Waiters : /\ VcSetIn(u)' = VcSetIn(u) /\ MinNoVc(u)' = MinNoVc(u)
                         /\ Watched(u)' = Watched(u) /\ Alone(u)' = Alone(u)
  BY DEF VcSetIn, MinNoVc, Watched, Alone
<1>2. \A v : Announced(v)' = Announced(v)
  BY DEF Announced, senderVars
<1>3. ASSUME NEW u \in Waiters \ {w}
      PROVE  RoundOk(u)'
  BY <1>1 DEF IInv, RoundsOk, RoundOk
<1>4. ASSUME NEW u \in Waiters \ {w}, Alone(u)', pc'[u] \in InLoop, TriggerValue' = TriggerState'[u],
             NEW v \in Missed(u)'
      PROVE  ReadSemaphore'[v] = 0 \/ Announced(v)'
  <2>1. v \in Missed(u)
    BY <1>1, <1>4 DEF Missed
  <2>2. ReadSemaphore[v] = 0 \/ Announced(v)
    BY <1>1, <1>4, <2>1 DEF IInv, MissesOk, MissOk
  <2>3. v \in Watched(u) /\ v \in Vc
    <3>1. PICK i \in 1 .. Len(VcSetIn(u)) : v = VcSetIn(u)[i]
      BY <2>1 DEF Missed
    <3>2. call \in Calls
      BY DEF IInv, TypeOK
    <3> QED
      BY <3>1, <3>2, CallTypes
  <2>4. v \in Vc \ Watched(w)
    BY <1>1, <1>4, <2>3 DEF Alone
  <2> QED
    BY <1>2, <2>2, <2>4
<1>5. \A u \in Waiters \ {w} : MissOk(u)'
  BY <1>4 DEF MissOk
<1> QED
  BY <1>3, <1>5 DEF RoundsOk, MissesOk

\* The senders' part and the counter: a waiter touches neither.
LEMMA WaitersKeepSends ==
  ASSUME IInv, UNCHANGED <<TriggerValue, senderVars>>
  PROVE  SendsOk' /\ CounterOk' /\ \A v : Pushes(v)' = Pushes(v) /\ Announced(v)' = Announced(v)
  BY DEF IInv, SendsOk, CounterOk, Triggers, Pushes, Announced, senderVars

\* A step that only moves on in the loop and touches no semaphore.
LEMMA QuietStepPreservesIInv ==
  ASSUME IInv, NEW w \in Waiters, UNCHANGED <<call, ReadSemaphore, TriggerValue, senderVars, received>>,
         \A u \in Waiters \ {w} : /\ pc'[u] = pc[u] /\ TriggerState'[u] = TriggerState[u]
                                  /\ Index'[u] = Index[u] /\ vc_set_out'[u] = vc_set_out[u],
         pc[w] /= "post", pc'[w] /= "post", TypeOK', RoundOk(w)', MissOk(w)'
  PROVE  IInv'
<1>1. RoundsOk' /\ MissesOk'
  BY OthersKeepRounds
<1>2. SendsOk' /\ CounterOk' /\ \A v : Pushes(v)' = Pushes(v)
  BY WaitersKeepSends
<1>3. ASSUME NEW v \in Vc
      PROVE  InHand(v)' = InHand(v)
  <2>1. \A u \in Waiters : pc'[u] = "post" /\ Polled(u)' = v <=> pc[u] = "post" /\ Polled(u) = v
    BY DEF Polled, VcSetIn
  <2> QED
    BY <2>1 DEF InHand
<1>4. NoMessageLost'
  BY <1>2, <1>3 DEF IInv, NoMessageLost
<1> QED
  BY <1>1, <1>2, <1>4 DEF IInv

\* Every step of a waiter leaves the others where they are.
LEMMA OneMoves ==
  ASSUME TypeOK, NEW w \in Waiters, NEW to,
         pc' = [pc EXCEPT ![w] = to],
         \/ TriggerState' = TriggerState
         \/ TriggerState' = [TriggerState EXCEPT ![w] = TriggerValue],
         \/ Index' = Index
         \/ Index' = [Index EXCEPT ![w] = 1]
         \/ Index' = [Index EXCEPT ![w] = @ + 1],
         \/ vc_set_out' = vc_set_out
         \/ vc_set_out' = [vc_set_out EXCEPT ![w] = {}]
         \/ vc_set_out' = [vc_set_out EXCEPT ![w] = @ \cup {Polled(w)}]
  PROVE  /\ pc'[w] = to
         /\ \A u \in Waiters \ {w} : /\ pc'[u] = pc[u] /\ TriggerState'[u] = TriggerState[u]
                                     /\ Index'[u] = Index[u] /\ vc_set_out'[u] = vc_set_out[u]
  BY DEF TypeOK

\* Entering the loop, going on after a wake-up, and giving up.
LEMMA RestPreservesIInv ==
  ASSUME IInv, NEW w \in Waiters, Enter(w) \/ Wake(w) \/ Timeout(w)
  PROVE  IInv'
<1>1. PICK to \in {"idle", "round"} : pc' = [pc EXCEPT ![w] = to]
  BY DEF Enter, Wake, Timeout, Goto
<1>2. /\ pc[w] /= "post"
      /\ UNCHANGED <<call, ReadSemaphore, TriggerValue, senderVars, TriggerState, Index, vc_set_out, received>>
  BY DEF Enter, Wake, Timeout, Goto
<1>3. TypeOK /\ TypeOK'
  <2>1. \A u \in Waiters : VcSetIn(u)' = VcSetIn(u)
    BY <1>2 DEF VcSetIn
  <2>2. pc' \in [Waiters -> {"idle", "round", "poll", "post", "wait", "done"}]
    BY <1>1 DEF IInv, TypeOK
  <2> QED
    BY <1>2, <2>1, <2>2 DEF IInv, TypeOK, senderVars
<1>4. pc'[w] = to /\ \A u \in Waiters \ {w} : /\ pc'[u] = pc[u] /\ TriggerState'[u] = TriggerState[u]
                                              /\ Index'[u] = Index[u] /\ vc_set_out'[u] = vc_set_out[u]
  BY <1>1, <1>2, <1>3, OneMoves
<1>5. RoundOk(w)'
  <2>1. vc_set_out[w] \subseteq Watched(w) /\ Watched(w)' = Watched(w)
    BY <1>2 DEF IInv, RoundsOk, RoundOk, Watched, VcSetIn
  <2> QED
    BY <1>1, <1>2, <1>4, <2>1 DEF RoundOk, InLoop
<1>6. MissOk(w)' /\ pc'[w] /= "post"
  BY <1>1, <1>4 DEF MissOk, InLoop
<1> QED
  BY <1>2, <1>3, <1>4, <1>5, <1>6, QuietStepPreservesIInv

\* A round begins with nothing missed.
LEMMA StartRoundPreservesIInv ==
  ASSUME IInv, NEW w \in Waiters, StartRound(w)
  PROVE  IInv'
<1>1. /\ pc[w] = "round" /\ pc' = [pc EXCEPT ![w] = "poll"]
      /\ TriggerState' = [TriggerState EXCEPT ![w] = TriggerValue]
      /\ Index' = [Index EXCEPT ![w] = 1]
      /\ vc_set_out' = [vc_set_out EXCEPT ![w] = {}]
      /\ UNCHANGED <<call, ReadSemaphore, TriggerValue, senderVars, received>>
  BY DEF StartRound, Goto
<1>2. TypeOK /\ TypeOK'
  <2>1. \A u \in Waiters : VcSetIn(u)' = VcSetIn(u) /\ Len(VcSetIn(u)) \in Nat
    BY <1>1, CallTypes DEF VcSetIn, IInv, TypeOK
  <2>2. pc' \in [Waiters -> {"idle", "round", "poll", "post", "wait", "done"}]
        /\ TriggerState' \in [Waiters -> 0 .. TriggerModulus - 1]
        /\ vc_set_out' \in [Waiters -> SUBSET Vc] /\ Index' \in [Waiters -> Nat]
    BY <1>1 DEF IInv, TypeOK
  <2>3. \A u \in Waiters : Index'[u] \in 1 .. Len(VcSetIn(u)) + 1
    BY <1>1, <2>1 DEF IInv, TypeOK
  <2> QED
    BY <1>1, <2>1, <2>2, <2>3 DEF IInv, TypeOK, senderVars
<1>3. pc'[w] = "poll" /\ \A u \in Waiters \ {w} : /\ pc'[u] = pc[u] /\ TriggerState'[u] = TriggerState[u]
                                                  /\ Index'[u] = Index[u] /\ vc_set_out'[u] = vc_set_out[u]
  BY <1>1, <1>2, OneMoves
<1>4. TriggerState'[w] = TriggerValue' /\ Index'[w] = 1 /\ vc_set_out'[w] = {} /\ TriggerValue' \in Nat
  BY <1>1, WaitAssumption DEF IInv, TypeOK
<1>5. RoundOk(w)'
  BY <1>3, <1>4 DEF RoundOk
<1>6. MissOk(w)'
  <2>1. Missed(w)' = {}
    BY <1>4 DEF Missed
  <2> QED
    BY <2>1 DEF MissOk
<1> QED
  BY <1>1, <1>2, <1>3, <1>5, <1>6, QuietStepPreservesIInv

\* A vc polled in vain is missed: it holds nothing.
LEMMA PollMissPreservesIInv ==
  ASSUME IInv, NEW w \in Waiters, PollMiss(w)
  PROVE  IInv'
<1>1. /\ pc[w] = "poll" /\ Index[w] <= Len(VcSetIn(w)) /\ ReadSemaphore[Polled(w)] = 0
      /\ Index' = [Index EXCEPT ![w] = @ + 1]
      /\ UNCHANGED <<call, ReadSemaphore, TriggerValue, senderVars, pc, TriggerState, vc_set_out, received>>
  BY DEF PollMiss
<1>2. TypeOK /\ TypeOK'
  <2>1. \A u \in Waiters : VcSetIn(u)' = VcSetIn(u) /\ Len(VcSetIn(u)) \in Nat
    BY <1>1, CallTypes DEF VcSetIn, IInv, TypeOK
  <2>2. Index' \in [Waiters -> Nat]
    BY <1>1 DEF IInv, TypeOK
  <2>3. \A u \in Waiters : Index'[u] \in 1 .. Len(VcSetIn(u)) + 1
    BY <1>1, <2>1 DEF IInv, TypeOK
  <2> QED
    BY <1>1, <2>1, <2>2, <2>3 DEF IInv, TypeOK, senderVars
<1>3. pc' = [pc EXCEPT ![w] = "poll"]
  BY <1>1, <1>2 DEF TypeOK
<1>4. pc'[w] = "poll" /\ \A u \in Waiters \ {w} : /\ pc'[u] = pc[u] /\ TriggerState'[u] = TriggerState[u]
                                                  /\ Index'[u] = Index[u] /\ vc_set_out'[u] = vc_set_out[u]
  BY <1>1, <1>2, <1>3, OneMoves
<1>5. /\ VcSetIn(w)' = VcSetIn(w) /\ Watched(w)' = Watched(w) /\ Alone(w)' = Alone(w)
      /\ Index'[w] = Index[w] + 1 /\ Index[w] \in Nat
  BY <1>1, <1>2 DEF VcSetIn, Watched, Alone, TypeOK
<1>6. RoundOk(w)'
  <2>1. TriggerState[w] <= TriggerValue /\ vc_set_out[w] \subseteq Watched(w)
    BY <1>1 DEF IInv, RoundsOk, RoundOk, InLoop
  <2> QED
    BY <1>1, <1>4, <1>5, <2>1 DEF RoundOk
<1>7. MissOk(w)'
  <2> SUFFICES ASSUME Alone(w)', TriggerValue' = TriggerState'[w], NEW v \in Missed(w)'
               PROVE  ReadSemaphore'[v] = 0 \/ Announced(v)'
    BY DEF MissOk
  <2>1. v \in Missed(w) \/ v = Polled(w)
    BY <1>1, <1>5 DEF Missed, Polled
  <2>2. v \in Missed(w) => ReadSemaphore[v] = 0 \/ Announced(v)
    BY <1>1, <1>5 DEF IInv, MissesOk, MissOk, InLoop
  <2>3. Announced(v)' = Announced(v)
    BY <1>1, WaitersKeepSends
  <2> QED
    BY <1>1, <2>1, <2>2, <2>3
<1> QED
  BY <1>1, <1>2, <1>4, <1>6, <1>7, QuietStepPreservesIInv

\* Going to sleep: too few vcs were found in this round.
LEMMA DecidePreservesIInv ==
  ASSUME IInv, NEW w \in Waiters, Decide(w)
  PROVE  IInv'
<1>1. /\ pc[w] = "poll" /\ Index[w] > Len(VcSetIn(w))
      /\ UNCHANGED <<call, ReadSemaphore, TriggerValue, senderVars, TriggerState, Index, vc_set_out, received>>
  BY DEF Decide, Goto
<1>2. PICK to \in {"done", "wait"} :
        /\ pc' = [pc EXCEPT ![w] = to]
        /\ to = "wait" => ~(Cardinality(vc_set_out[w]) >= MinNoVc(w))
  BY DEF Decide, Goto
<1>3. TypeOK /\ TypeOK'
  <2>1. \A u \in Waiters : VcSetIn(u)' = VcSetIn(u)
    BY <1>1 DEF VcSetIn
  <2>2. pc' \in [Waiters -> {"idle", "round", "poll", "post", "wait", "done"}]
    BY <1>2 DEF IInv, TypeOK
  <2> QED
    BY <1>1, <2>1, <2>2 DEF IInv, TypeOK, senderVars
<1>4. pc'[w] = to /\ \A u \in Waiters \ {w} : /\ pc'[u] = pc[u] /\ TriggerState'[u] = TriggerState[u]
                                              /\ Index'[u] = Index[u] /\ vc_set_out'[u] = vc_set_out[u]
  BY <1>1, <1>2, <1>3, OneMoves
<1>5. VcSetIn(w)' = VcSetIn(w) /\ MinNoVc(w)' = MinNoVc(w) /\ Watched(w)' = Watched(w) /\ Alone(w)' = Alone(w)
      /\ Missed(w)' = Missed(w)
  BY <1>1 DEF VcSetIn, MinNoVc, Watched, Alone, Missed
<1>6. RoundOk(w)'
  <2>1. TriggerState[w] <= TriggerValue /\ vc_set_out[w] \subseteq Watched(w)
    BY <1>1 DEF IInv, RoundsOk, RoundOk, InLoop
  <2>2. to = "wait" => Cardinality(vc_set_out[w]) < MinNoVc(w)
    <3>1. IsFiniteSet(Watched(w)) /\ MinNoVc(w) \in Nat
      BY <1>3, CallTypes DEF TypeOK
    <3>2. Cardinality(vc_set_out[w]) \in Nat
      BY <2>1, <3>1, FS_Subset, FS_CardinalityType
    <3> QED
      BY <1>2, <3>1, <3>2
  <2> QED
    BY <1>1, <1>4, <1>5, <2>1, <2>2 DEF RoundOk
<1>7. MissOk(w)'
  <2>1. MissOk(w) /\ pc[w] \in InLoop
    BY <1>1 DEF IInv, MissesOk, InLoop
  <2>2. \A v : Announced(v)' = Announced(v)
    BY <1>1, WaitersKeepSends
  <2> QED
    BY <1>1, <1>5, <2>1, <2>2 DEF MissOk
<1> QED
  BY <1>1, <1>2, <1>3, <1>4, <1>6, <1>7, QuietStepPreservesIInv

\* A semaphore is borrowed: the message is in the waiter's hand.
LEMMA PollHitPreservesIInv ==
  ASSUME NoWrap, IInv, NEW w \in Waiters, PollHit(w)
  PROVE  IInv'
<1> DEFINE p == Polled(w)
<1>1. /\ pc[w] = "poll" /\ pc' = [pc EXCEPT ![w] = "post"] /\ Index[w] <= Len(VcSetIn(w)) /\ ReadSemaphore[p] > 0
      /\ ReadSemaphore' = [ReadSemaphore EXCEPT ![p] = @ - 1]
      /\ UNCHANGED <<call, TriggerValue, senderVars, TriggerState, Index, vc_set_out, received>>
  BY DEF PollHit, Goto
<1>2. p \in Vc /\ p \in Watched(w)
  <2>1. call \in Calls /\ Index[w] \in 1 .. Len(VcSetIn(w)) + 1
    BY DEF IInv, TypeOK
  <2>2. Index[w] \in 1 .. Len(VcSetIn(w))
    BY <1>1, <2>1, CallTypes
  <2> QED
    BY <2>1, <2>2, CallTypes DEF Polled
<1>3. \A u \in Waiters : VcSetIn(u)' = VcSetIn(u) /\ Polled(u)' = Polled(u)
  BY <1>1 DEF Polled, VcSetIn
<1> HIDE DEF p
<1>4. ReadSemaphore \in [Vc -> Nat] /\ ReadSemaphore' \in [Vc -> Nat] /\ ReadSemaphore[p] = ReadSemaphore'[p] + 1
      /\ \A v \in Vc \ {p} : ReadSemaphore'[v] = ReadSemaphore[v]
  BY <1>1, <1>2 DEF IInv, TypeOK
<1>5. TypeOK /\ TypeOK'
  <2>1. pc' \in [Waiters -> {"idle", "round", "poll", "post", "wait", "done"}]
    BY <1>1 DEF IInv, TypeOK
  <2> QED
    BY <1>1, <1>3, <1>4, <2>1 DEF IInv, TypeOK, senderVars
<1>6. pc'[w] = "post" /\ \A u \in Waiters \ {w} : /\ pc'[u] = pc[u] /\ TriggerState'[u] = TriggerState[u]
                                                  /\ Index'[u] = Index[u] /\ vc_set_out'[u] = vc_set_out[u]
  BY <1>1, <1>5, OneMoves
<1>7. Watched(w)' = Watched(w) /\ Alone(w)' = Alone(w) /\ Missed(w)' = Missed(w)
  BY <1>1 DEF VcSetIn, Watched, Alone, Missed
<1>8. SendsOk' /\ CounterOk' /\ \A v : Pushes(v)' = Pushes(v) /\ Announced(v)' = Announced(v)
  BY <1>1, WaitersKeepSends
<1>9. RoundOk(w)'
  <2>1. TriggerState[w] <= TriggerValue /\ vc_set_out[w] \subseteq Watched(w)
    BY <1>1 DEF IInv, RoundsOk, RoundOk, InLoop
  <2> QED
    BY <1>1, <1>3, <1>6, <1>7, <2>1 DEF RoundOk
<1>10. MissOk(w)'
  <2> SUFFICES ASSUME Alone(w)', TriggerValue' = TriggerState'[w], NEW v \in Missed(w)'
               PROVE  ReadSemaphore'[v] = 0 \/ Announced(v)'
    BY DEF MissOk
  <2>1. ReadSemaphore[v] = 0 \/ Announced(v)
    BY <1>1, <1>7 DEF IInv, MissesOk, MissOk, InLoop
  <2>2. v \in Vc
    <3>1. PICK i \in 1 .. Len(VcSetIn(w)) : v = VcSetIn(w)[i]
      BY <1>7 DEF Missed
    <3>2. call \in Calls
      BY <1>5 DEF TypeOK
    <3> QED
      BY <3>1, <3>2, CallTypes
  <2> QED
    BY <1>1, <1>4, <1>8, <2>1, <2>2
<1>11. RoundsOk' /\ MissesOk'
  <2>1. \A v \in Vc \ Watched(w) : ReadSemaphore[v] = 0 => ReadSemaphore'[v] = 0
    BY <1>2, <1>4
  <2> QED
    BY <1>1, <1>6, <1>9, <1>10, <2>1, OthersKeepRounds
<1>12. NoMessageLost'
  <2> SUFFICES ASSUME NEW v \in Vc
               PROVE  ReadSemaphore'[v] + InHand(v)' + received'[v] = Cardinality(Pushes(v)')
    BY DEF NoMessageLost
  <2>1. ReadSemaphore[v] + Cardinality(Holders(v)) + received[v] = Cardinality(Pushes(v))
    BY DEF IInv, NoMessageLost, InHand, Holders
  <2>2. Holders(v)' = IF v = p THEN Holders(v) \cup {w} ELSE Holders(v)
    BY <1>1, <1>3, <1>6 DEF Holders, p
  <2>3. w \notin Holders(v) /\ IsFiniteSet(Holders(v)) /\ Cardinality(Holders(v)) \in Nat
    BY <1>1, HoldersAreFinite DEF Holders
  <2>4. Cardinality(Holders(v)') = IF v = p THEN Cardinality(Holders(v)) + 1 ELSE Cardinality(Holders(v))
    BY <2>2, <2>3, FS_AddElement
  <2>5. InHand(v)' = Cardinality(Holders(v)')
    BY DEF InHand, Holders
  <2>6. received' = received /\ received[v] \in Nat /\ ReadSemaphore[v] \in Nat /\ ReadSemaphore'[v] \in Nat
        /\ Pushes(v)' = Pushes(v)
    BY <1>1, <1>4, <1>5, <1>8 DEF TypeOK
  <2> QED
    BY <1>4, <2>1, <2>3, <2>4, <2>5, <2>6
<1> QED
  BY <1>5, <1>8, <1>11, <1>12 DEF IInv

\* The semaphore is given back, and the vc is among those found.
LEMMA PollPostPreservesIInv ==
  ASSUME NoWrap, IInv, NEW w \in Waiters, PollPost(w)
  PROVE  IInv'
<1> DEFINE p == Polled(w)
<1>1. /\ pc[w] = "post" /\ pc' = [pc EXCEPT ![w] = "poll"]
      /\ ReadSemaphore' = [ReadSemaphore EXCEPT ![p] = @ + 1]
      /\ vc_set_out' = [vc_set_out EXCEPT ![w] = @ \cup {Polled(w)}]
      /\ Index' = [Index EXCEPT ![w] = @ + 1]
      /\ UNCHANGED <<call, TriggerValue, senderVars, TriggerState, received>>
  BY DEF PollPost, Goto
<1>2. p \in Vc /\ p \in Watched(w) /\ Index[w] \in 1 .. Len(VcSetIn(w)) /\ p = VcSetIn(w)[Index[w]]
  <2>1. call \in Calls /\ Index[w] \in 1 .. Len(VcSetIn(w)) + 1 /\ Index[w] <= Len(VcSetIn(w))
    BY <1>1 DEF IInv, TypeOK, RoundsOk, RoundOk
  <2>2. Index[w] \in 1 .. Len(VcSetIn(w))
    BY <2>1, CallTypes
  <2> QED
    BY <2>1, <2>2, CallTypes DEF Polled
<1>3. \A u \in Waiters : VcSetIn(u)' = VcSetIn(u) /\ (u /= w => Polled(u)' = Polled(u))
  BY <1>1 DEF Polled, VcSetIn, IInv, TypeOK
<1>4. /\ ReadSemaphore \in [Vc -> Nat] /\ ReadSemaphore' \in [Vc -> Nat]
      /\ ReadSemaphore'[p] = ReadSemaphore[p] + 1
      /\ \A v \in Vc \ {p} : ReadSemaphore'[v] = ReadSemaphore[v]
  BY <1>1, <1>2 DEF IInv, TypeOK
<1>5. TypeOK /\ TypeOK'
  <2>1. pc' \in [Waiters -> {"idle", "round", "poll", "post", "wait", "done"}]
        /\ vc_set_out' \in [Waiters -> SUBSET Vc] /\ Index' \in [Waiters -> Nat]
    BY <1>1, <1>2 DEF IInv, TypeOK
  <2>2. call \in Calls /\ \A u \in Waiters : Index[u] \in 1 .. Len(VcSetIn(u)) + 1
    BY DEF IInv, TypeOK
  <2>3. \A u \in Waiters : Len(VcSetIn(u)) \in Nat
    BY <2>2, CallTypes
  <2>4. ASSUME NEW u \in Waiters
        PROVE  Index'[u] \in 1 .. Len(VcSetIn(u)) + 1
    <3>1. Index'[u] = IF u = w THEN Index[w] + 1 ELSE Index[u]
      BY <1>1 DEF IInv, TypeOK
    <3> QED
      BY <1>2, <2>2, <2>3, <3>1
  <2> QED
    BY <1>1, <1>3, <1>4, <2>1, <2>4 DEF IInv, TypeOK, senderVars
<1>6. pc'[w] = "poll" /\ \A u \in Waiters \ {w} : /\ pc'[u] = pc[u] /\ TriggerState'[u] = TriggerState[u]
                                                  /\ Index'[u] = Index[u] /\ vc_set_out'[u] = vc_set_out[u]
  BY <1>1, <1>5, OneMoves
<1>7. /\ Watched(w)' = Watched(w) /\ Alone(w)' = Alone(w)
      /\ Index'[w] = Index[w] + 1 /\ vc_set_out'[w] = vc_set_out[w] \cup {p}
  BY <1>1, <1>5 DEF VcSetIn, Watched, Alone, TypeOK
<1> HIDE DEF p
<1>8. SendsOk' /\ CounterOk' /\ \A v : Pushes(v)' = Pushes(v) /\ Announced(v)' = Announced(v)
  BY <1>1, WaitersKeepSends
<1>9. RoundOk(w)'
  <2>1. TriggerState[w] <= TriggerValue /\ vc_set_out[w] \subseteq Watched(w)
    BY <1>1 DEF IInv, RoundsOk, RoundOk, InLoop
  <2> QED
    BY <1>1, <1>2, <1>6, <1>7, <2>1 DEF RoundOk
<1>10. MissOk(w)'
  <2> SUFFICES ASSUME Alone(w)', TriggerValue' = TriggerState'[w], NEW v \in Missed(w)'
               PROVE  ReadSemaphore'[v] = 0 \/ Announced(v)'
    BY DEF MissOk
  <2>1. v \in Missed(w) /\ v /= p
    <3>1. PICK i \in 1 .. Len(VcSetIn(w)) : v = VcSetIn(w)[i] /\ i < Index[w] + 1 /\ v \notin vc_set_out[w] /\ v /= p
      BY <1>3, <1>7 DEF Missed
    <3>2. i < Index[w]
      BY <1>2, <3>1
    <3> QED
      BY <3>1, <3>2 DEF Missed
  <2>2. ReadSemaphore[v] = 0 \/ Announced(v)
    BY <1>1, <1>7, <2>1 DEF IInv, MissesOk, MissOk, InLoop
  <2>3. v \in Vc
    <3>1. PICK i \in 1 .. Len(VcSetIn(w)) : v = VcSetIn(w)[i]
      BY <2>1 DEF Missed
    <3>2. call \in Calls
      BY <1>5 DEF TypeOK
    <3> QED
      BY <3>1, <3>2, CallTypes
  <2> QED
    BY <1>4, <1>8, <2>1, <2>2, <2>3
<1>11. RoundsOk' /\ MissesOk'
  <2>1. \A v \in Vc \ Watched(w) : ReadSemaphore[v] = 0 => ReadSemaphore'[v] = 0
    BY <1>2, <1>4
  <2> QED
    BY <1>1, <1>6, <1>9, <1>10, <2>1, OthersKeepRounds
<1>12. NoMessageLost'
  <2> SUFFICES ASSUME NEW v \in Vc
               PROVE  ReadSemaphore'[v] + InHand(v)' + received'[v] = Cardinality(Pushes(v)')
    BY DEF NoMessageLost
  <2>1. ReadSemaphore[v] + Cardinality(Holders(v)) + received[v] = Cardinality(Pushes(v))
    BY DEF IInv, NoMessageLost, InHand, Holders
  <2>2. Holders(v)' = IF v = p THEN Holders(v) \ {w} ELSE Holders(v)
    BY <1>1, <1>3, <1>6 DEF Holders, p
  <2>3. w \in Holders(p) /\ IsFiniteSet(Holders(v)) /\ Cardinality(Holders(v)) \in Nat
        /\ Cardinality(Holders(v)') \in Nat
    <3>1. Holders(v)' \subseteq Holders(v) /\ Holders(v) \subseteq Waiters
      BY <2>2 DEF Holders
    <3> QED
      BY <1>1, <3>1, HoldersAreFinite DEF Holders, p
  <2>4. Cardinality(Holders(v)) = IF v = p THEN Cardinality(Holders(v)') + 1 ELSE Cardinality(Holders(v)')
    <3>1. CASE v = p
      <4>1. w \in Holders(v) /\ Holders(v)' = Holders(v) \ {w}
        BY <2>2, <2>3, <3>1
      <4>2. Cardinality(Holders(v) \ {w}) = Cardinality(Holders(v)) - 1
        BY <2>3, <4>1, FS_RemoveElement
      <4> QED
        BY <2>3, <3>1, <4>1, <4>2
    <3>2. CASE v /= p
      BY <2>2, <3>2
    <3> QED
      BY <3>1, <3>2
  <2>5. InHand(v)' = Cardinality(Holders(v)')
    BY DEF InHand, Holders
  <2>6. received' = received /\ received[v] \in Nat /\ ReadSemaphore[v] \in Nat /\ ReadSemaphore'[v] \in Nat
        /\ Pushes(v)' = Pushes(v)
    BY <1>1, <1>4, <1>5, <1>8 DEF TypeOK
  <2> QED
    BY <1>4, <2>1, <2>3, <2>4, <2>5, <2>6
<1> QED
  BY <1>5, <1>8, <1>11, <1>12 DEF IInv

\* The caller takes the messages it still finds.
LEMMA LeavePreservesIInv ==
  ASSUME NoWrap, IInv, NEW w \in Waiters, Leave(w)
  PROVE  IInv'
<1>1. PICK vs \in SUBSET vc_set_out[w] :
        /\ \A v \in vs : ReadSemaphore[v] > 0
        /\ ReadSemaphore' = [v \in Vc |-> ReadSemaphore[v] - IF v \in vs THEN 1 ELSE 0]
        /\ received' = [v \in Vc |-> received[v] + IF v \in vs THEN 1 ELSE 0]
  BY DEF Leave
<1>2. /\ pc[w] = "done" /\ pc' = [pc EXCEPT ![w] = "idle"]
      /\ UNCHANGED <<call, TriggerValue, senderVars, TriggerState, Index, vc_set_out>>
  BY DEF Leave, Goto
<1>3. \A v \in Vc : /\ ReadSemaphore[v] \in Nat /\ ReadSemaphore'[v] \in Nat
                    /\ received[v] \in Nat /\ received'[v] \in Nat
                    /\ ReadSemaphore'[v] + received'[v] = ReadSemaphore[v] + received[v]
                    /\ ReadSemaphore'[v] <= ReadSemaphore[v]
  BY <1>1 DEF IInv, TypeOK
<1>4. TypeOK /\ TypeOK'
  <2>1. \A u \in Waiters : VcSetIn(u)' = VcSetIn(u)
    BY <1>2 DEF VcSetIn
  <2>2. pc' \in [Waiters -> {"idle", "round", "poll", "post", "wait", "done"}]
    BY <1>2 DEF IInv, TypeOK
  <2>3. ReadSemaphore' \in [Vc -> Nat] /\ received' \in [Vc -> Nat]
    BY <1>1, <1>3
  <2> QED
    BY <1>2, <2>1, <2>2, <2>3 DEF IInv, TypeOK, senderVars
<1>5. pc'[w] = "idle" /\ \A u \in Waiters \ {w} : /\ pc'[u] = pc[u] /\ TriggerState'[u] = TriggerState[u]
                                                  /\ Index'[u] = Index[u] /\ vc_set_out'[u] = vc_set_out[u]
  BY <1>2, <1>4, OneMoves
<1>6. RoundOk(w)' /\ MissOk(w)'
  <2>1. vc_set_out[w] \subseteq Watched(w) /\ Watched(w)' = Watched(w)
    BY <1>2 DEF IInv, RoundsOk, RoundOk, Watched, VcSetIn
  <2> QED
    BY <1>2, <1>5, <2>1 DEF RoundOk, MissOk, InLoop
<1>7. RoundsOk' /\ MissesOk'
  <2>1. \A v \in Vc \ Watched(w) : ReadSemaphore[v] = 0 => ReadSemaphore'[v] = 0
    BY <1>3
  <2> QED
    BY <1>2, <1>5, <1>6, <2>1, OthersKeepRounds
<1>8. SendsOk' /\ CounterOk' /\ \A v : Pushes(v)' = Pushes(v)
  BY <1>2, WaitersKeepSends
<1>9. NoMessageLost'
  <2> SUFFICES ASSUME NEW v \in Vc
               PROVE  ReadSemaphore'[v] + InHand(v)' + received'[v] = Cardinality(Pushes(v)')
    BY DEF NoMessageLost
  <2>1. ReadSemaphore[v] + InHand(v) + received[v] = Cardinality(Pushes(v))
    BY DEF IInv, NoMessageLost
  <2>2. InHand(v)' = InHand(v)
    <3>1. \A u \in Waiters : pc'[u] = "post" /\ Polled(u)' = v <=> pc[u] = "post" /\ Polled(u) = v
      BY <1>2, <1>5 DEF Polled, VcSetIn
    <3> QED
      BY <3>1 DEF InHand
  <2>3. InHand(v) \in Nat
    BY HoldersAreFinite DEF InHand
  <2>4. Cardinality(Pushes(v)') = ReadSemaphore[v] + InHand(v) + received[v]
    BY <1>8, <2>1
  <2>5. ReadSemaphore[v] \in Nat /\ ReadSemaphore'[v] \in Nat /\ received[v] \in Nat /\ received'[v] \in Nat
        /\ ReadSemaphore'[v] + received'[v] = ReadSemaphore[v] + received[v]
    BY <1>3
  <2> QED
    BY <2>2, <2>3, <2>4, <2>5
<1> QED
  BY <1>4, <1>7, <1>8, <1>9 DEF IInv

------------------------------------------------------------------------------
LEMMA NextPreservesIInv ==
  ASSUME NoWrap, IInv, [Next]_vars
  PROVE  IInv'
<1>1. ASSUME NEW s \in Senders, sendBuffer(s)
      PROVE  IInv'
  BY <1>1, SendBeginPreservesIInv, PushOnePreservesIInv, TriggerPreservesIInv DEF sendBuffer
<1>2. ASSUME NEW w \in Waiters, waitOnMultiChannel(w)
      PROVE  IInv'
  <2>1. \/ Enter(w) \/ Wake(w) \/ Timeout(w)
        \/ StartRound(w) \/ PollHit(w) \/ PollMiss(w) \/ PollPost(w) \/ Decide(w) \/ Leave(w)
    BY <1>2 DEF waitOnMultiChannel, Round
  <2> QED
    BY <2>1, RestPreservesIInv, StartRoundPreservesIInv, PollHitPreservesIInv, PollMissPreservesIInv,
       PollPostPreservesIInv, DecidePreservesIInv, LeavePreservesIInv
<1>3. CASE UNCHANGED vars
  <2>1. /\ UNCHANGED <<call, ReadSemaphore, TriggerValue, spc, todo, sent, received>>
        /\ UNCHANGED <<pc, TriggerState, Index, vc_set_out>>
    BY <1>3 DEF vars, senderVars, waiterVars
  <2>2. TypeOK'
    BY <2>1 DEF IInv, TypeOK, VcSetIn
  <2>3. SendsOk' /\ CounterOk' /\ NoMessageLost'
    BY <2>1 DEF IInv, SendsOk, CounterOk, Triggers, NoMessageLost, InHand, Pushes, Polled, VcSetIn
  <2>4. RoundsOk' /\ MissesOk'
    <3>1. UNCHANGED <<call, waiterVars>> /\ TriggerValue' = TriggerValue
          /\ \A v \in Vc : ReadSemaphore[v] = 0 \/ Announced(v) => ReadSemaphore'[v] = 0 \/ Announced(v)'
      BY <2>1 DEF waiterVars, Announced
    <3> QED
      BY <3>1, SendersKeepRounds DEF IInv
  <2> QED
    BY <2>2, <2>3, <2>4 DEF IInv
<1> QED
  BY <1>1, <1>2, <1>3 DEF Next

\* Where no sender is on its way nothing is announced, so that what a sleeping waiter
\* missed holds nothing: the vcs that hold a message are among those it found.
LEMMA IInvImpliesSleepsForAReason ==
  ASSUME IInv
  PROVE  SleepsForAReason
<1> SUFFICES ASSUME Quiet, NEW w \in Waiters, Alone(w), Asleep(w)
             PROVE  Cardinality(Ready(w)) < MinNoVc(w)
  BY DEF SleepsForAReason
<1>1. /\ pc[w] = "wait" /\ TriggerValue <= TriggerState[w] /\ TriggerState[w] <= TriggerValue
      /\ Index[w] > Len(VcSetIn(w)) /\ Cardinality(vc_set_out[w]) < MinNoVc(w) /\ vc_set_out[w] \subseteq Watched(w)
  BY DEF Asleep, IInv, RoundsOk, RoundOk, InLoop
<1>2. TriggerValue = TriggerState[w]
  BY <1>1, WaitAssumption DEF IInv, TypeOK
<1>3. \A v \in Missed(w) : ReadSemaphore[v] = 0
  BY <1>1, <1>2 DEF IInv, MissesOk, MissOk, InLoop, Quiet, Announced
<1>4. call \in Calls /\ Index[w] \in Nat /\ ReadSemaphore \in [Vc -> Nat]
  BY DEF IInv, TypeOK
<1>5. /\ VcSetIn(w) \in Seq(Vc) /\ MinNoVc(w) \in Nat /\ Len(VcSetIn(w)) \in Nat
      /\ IsFiniteSet(Watched(w)) /\ Watched(w) \subseteq Vc
  BY <1>4, CallTypes
<1>6. Ready(w) \subseteq vc_set_out[w]
  <2> SUFFICES ASSUME NEW v \in Watched(w), ReadSemaphore[v] > 0, v \notin vc_set_out[w]
               PROVE  FALSE
    BY DEF Ready
  <2>1. PICK i \in 1 .. Len(VcSetIn(w)) : v = VcSetIn(w)[i]
    BY <1>5 DEF Watched
  <2>2. i < Index[w]
    BY <1>1, <1>4, <1>5
  <2>3. v \in Missed(w)
    BY <2>1, <2>2 DEF Missed
  <2> QED
    BY <1>3, <2>3
<1>7. IsFiniteSet(vc_set_out[w]) /\ Cardinality(vc_set_out[w]) \in Nat
  BY <1>1, <1>5, FS_Subset, FS_CardinalityType
<1>8. IsFiniteSet(Ready(w)) /\ Cardinality(Ready(w)) <= Cardinality(vc_set_out[w])
  BY <1>6, <1>7, FS_Subset
<1>9. Cardinality(Ready(w)) \in Nat
  BY <1>8, FS_CardinalityType
<1> QED
  BY <1>1, <1>5, <1>7, <1>8, <1>9

\* CommunicationManager::waitOnMultiChannel misses no message on a channel nobody else
\* waits on, and takes and loses none by looking, for every number of threads and vcs,
\* while the counter does not wrap around.
THEOREM WaitersAreWoken ==
  ASSUME NoWrap
  PROVE  Spec => []WaitersWake
<1>1. Init => IInv
  BY InitEstablishesIInv
<1>2. IInv /\ [Next]_vars => IInv'
  BY NextPreservesIInv
<1>3. IInv => WaitersWake
  BY IInvImpliesSleepsForAReason DEF IInv, WaitersWake
<1> QED
  BY <1>1, <1>2, <1>3, PTL DEF Spec
==============================================================================
