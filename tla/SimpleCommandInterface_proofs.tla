-------------------- MODULE SimpleCommandInterface_proofs --------------------
(***************************************************************************)
(* Proofs about SimpleCommandInterface.tla, for every set of senders and   *)
(* commands, any handlers, any number of calls, and whoever times out.     *)
(*                                                                         *)
(* A sender past the semaphore is its holder; it writes only while the     *)
(* event is reset, and the server is past waitForEvent() only while the    *)
(* event is set.  What is in the block after the write therefore stays the *)
(* holder's request, until the server turns it into the holder's answer.   *)
(*                                                                         *)
(* And about GlobalVcMapping.tla, whose commands pass through it: for any  *)
(* managers, applications and mappings the counters of a channel cover the *)
(* local vcs they stand for (ChannelInv), those in the table without the   *)
(* one being attached and with the one being removed.  Commands that fail  *)
(* or time out leave the counters too high, never too low.  With a single  *)
(* manager whose commands are all answered they are exact, and what the    *)
(* applications have attached is what the table holds (RecordsInv).        *)
(***************************************************************************)
EXTENDS MCSimpleCommandInterface, FiniteSets, Integers, SequenceTheorems, FiniteSetTheorems,
        WellFoundedInduction, TLAPS

Inside(p)  == pc[p] \in {"before", "set", "after", "read"}
Written(p) == Buffer.call = <<p, calls[p]>> /\ Identifier \in {sending[p], INVALID_HANDLER}
Served     == Identifier = INVALID_HANDLER \/ Buffer.kind = "reply"

HolderIsInside == \A p \in Senders : Inside(p) => CommandSemaphore = p

Calling == \A p \in Senders : pc[p] /= "idle" => sending[p] \in Command /\ calls[p] > 0

ServerNeedsEvent ==
  /\ spc /= "wait" => EventSet
  /\ EventSet /\ spc /= "reset" => Identifier \in Command /\ Buffer.call \in Call

RequestInBlock ==
  \A p \in Senders :
    /\ pc[p] = "set"   => Written(p) /\ Identifier = sending[p] /\ ~EventSet
    /\ pc[p] = "after" => Written(p) /\ (~EventSet \/ spc = "reset" => Served)
    /\ pc[p] = "read"  => Written(p) /\ Served /\ ~EventSet

IInv == TypeOK /\ HolderIsInside /\ Calling /\ ServerNeedsEvent /\ RequestInBlock

(* The block is empty, the event reset and every sender idle at the start. *)
LEMMA InitEstablishesIInv == Init => IInv
<1> SUFFICES ASSUME Init PROVE IInv
  OBVIOUS
<1>0. executed \in Seq(Call)
  BY DEF Init
<1>1. Buffer \in [call : Call \cup {NoCall}, kind : {"request", "reply"}]
  BY DEF Init
<1>2. /\ pc \in [Senders -> {"idle", "semaphore", "before", "set", "after", "read"}]
      /\ sending \in [Senders -> Command \cup {"none"}]
      /\ calls \in [Senders -> 0 .. MaxCalls]
      /\ result \in [Senders -> {"none", "open", "sent", "success", "error", "timeout"}]
  BY CommandAssumption DEF Init
<1>3. TypeOK
  BY <1>0, <1>1, <1>2 DEF Init, TypeOK, Phase
<1>4. HolderIsInside /\ Calling /\ RequestInBlock
  BY DEF Init, HolderIsInside, Inside, Calling, RequestInBlock
<1>5. ServerNeedsEvent
  BY DEF Init, ServerNeedsEvent
<1> QED
  BY <1>3, <1>4, <1>5 DEF IInv

(* Starting a call and claiming the semaphore touch neither block nor event. *)
LEMMA EnteringPreservesIInv ==
  ASSUME IInv, NEW p \in Senders,
         (\E c \in Command : Send(p, c)) \/ Claim(p)
  PROVE  IInv'
<1> USE CommandAssumption DEF IInv
<1>1. CASE \E c \in Command : Send(p, c)
  <2> PICK c \in Command : Send(p, c)
    BY <1>1
  <2>1. TypeOK'
    BY DEF Send, Goto, TypeOK, dataVars, serverVars, logVars
  <2>2. HolderIsInside' /\ Calling'
    BY DEF Send, Goto, TypeOK, HolderIsInside, Inside, Calling
  <2>3. ServerNeedsEvent'
    BY DEF Send, ServerNeedsEvent, dataVars, serverVars
  <2>4. RequestInBlock'
    BY DEF Send, Goto, TypeOK, RequestInBlock, Written, Served, dataVars, serverVars
  <2> QED
    BY <2>1, <2>2, <2>3, <2>4
<1>2. CASE Claim(p)
  <2>1. TypeOK'
    BY <1>2 DEF Claim, Goto, TypeOK, dataVars, serverVars, logVars
  <2>2. HolderIsInside' /\ Calling'
    BY <1>2 DEF Claim, Goto, TypeOK, HolderIsInside, Inside, Calling
  <2>3. ServerNeedsEvent'
    BY <1>2 DEF Claim, ServerNeedsEvent, dataVars, serverVars
  <2>4. RequestInBlock'
    BY <1>2 DEF Claim, Goto, TypeOK, RequestInBlock, Written, Served, dataVars, serverVars
  <2> QED
    BY <2>1, <2>2, <2>3, <2>4
<1> QED
  BY <1>1, <1>2

(* The holder writes while the server waits, and hands the block over by       *)
(* setting the event.                                                          *)
LEMMA RequestingPreservesIInv ==
  ASSUME IInv, NEW p \in Senders, Write(p) \/ SetEvent(p)
  PROVE  IInv'
<1> USE CommandAssumption DEF IInv
<1>1. CASE Write(p)
  <2>1. sending[p] \in Command /\ <<p, calls[p]>> \in Call
    BY <1>1 DEF Write, Goto, Calling, Call, TypeOK
  <2>2. TypeOK'
    BY <1>1, <2>1 DEF Write, Goto, TypeOK, serverVars, logVars
  <2>3. HolderIsInside' /\ Calling'
    BY <1>1 DEF Write, Goto, TypeOK, HolderIsInside, Inside, Calling
  <2>4. ServerNeedsEvent'
    BY <1>1 DEF Write, ServerNeedsEvent, serverVars
  <2>5. RequestInBlock'
    BY <1>1 DEF Write, Goto, TypeOK, HolderIsInside, Inside, RequestInBlock, Written, Served,
                serverVars
  <2> QED
    BY <2>2, <2>3, <2>4, <2>5
<1>2. CASE SetEvent(p)
  <2>0. pc[p] = "set" /\ CommandSemaphore = p /\ ~EventSet /\ spc = "wait"
    BY <1>2 DEF SetEvent, Goto, HolderIsInside, Inside, ServerNeedsEvent, TypeOK, RequestInBlock
  <2>1. Identifier \in Command /\ Buffer.call \in Call
    <3>1. sending[p] \in Command /\ <<p, calls[p]>> \in Call
      BY <2>0 DEF Calling, Call, TypeOK
    <3>2. Identifier = sending[p] /\ Buffer.call = <<p, calls[p]>>
      BY <2>0 DEF RequestInBlock, Written
    <3> QED
      BY <3>1, <3>2
  <2>2. TypeOK'
    BY <1>2 DEF SetEvent, Goto, Leave, TypeOK, serverVars, logVars
  <2>3. HolderIsInside' /\ Calling'
    BY <1>2, <2>0 DEF SetEvent, Goto, Leave, TypeOK, HolderIsInside, Inside, Calling
  <2>4. ServerNeedsEvent'
    BY <1>2, <2>1 DEF SetEvent, ServerNeedsEvent, serverVars
  <2>5. RequestInBlock'
    BY <1>2, <2>0 DEF SetEvent, Goto, Leave, TypeOK, HolderIsInside, Inside, RequestInBlock,
                      Written, Served, serverVars
  <2> QED
    BY <2>2, <2>3, <2>4, <2>5
<1> QED
  BY <1>1, <1>2

(* Taking the answer and leaving, with it or without, changes no data. *)
LEMMA LeavingPreservesIInv ==
  ASSUME IInv, NEW p \in Senders, Answered(p) \/ Read(p) \/ Timeout(p)
  PROVE  IInv'
<1> USE CommandAssumption DEF IInv
<1>1. UNCHANGED <<dataVars, serverVars, sending, calls, logVars>>
  BY DEF Answered, Read, Timeout
<1>2. TypeOK'
  <2>1. pc' \in [Senders -> {"idle", "semaphore", "before", "set", "after", "read"}]
    BY DEF Answered, Read, Timeout, Goto, TypeOK
  <2>2. CommandSemaphore' \in Senders \cup {"nobody"}
    BY DEF Answered, Read, Timeout, Leave, TypeOK
  <2>3. result' \in [Senders -> {"none", "open", "sent", "success", "error", "timeout"}]
    BY DEF Answered, Read, Timeout, Leave, TypeOK
  <2> QED
    BY <1>1, <2>1, <2>2, <2>3 DEF TypeOK, dataVars, serverVars, logVars
<1>3. HolderIsInside'
  BY DEF Answered, Read, Timeout, Goto, Leave, TypeOK, HolderIsInside, Inside
<1>4. Calling'
  BY DEF Answered, Read, Timeout, Goto, TypeOK, Calling
<1>5. ServerNeedsEvent'
  BY <1>1 DEF ServerNeedsEvent, dataVars, serverVars
<1>6. RequestInBlock'
  BY <1>1 DEF Answered, Read, Timeout, Goto, TypeOK, RequestInBlock, Written, Served,
              dataVars, serverVars
<1> QED
  BY <1>2, <1>3, <1>4, <1>5, <1>6

(* The server works on the block while the event is set, so that no sender is   *)
(* between its write and its setEvent(), or reading.                            *)
LEMMA ServerPreservesIInv ==
  ASSUME IInv, handleOneCommand \/ EnterMainLoop
  PROVE  IInv'
<1> USE CommandAssumption DEF IInv
<1>1. UNCHANGED <<CommandSemaphore, senderVars>>
  BY DEF handleOneCommand, WaitForEvent, Handle, ResetEvent, EnterMainLoop
<1>2. HolderIsInside' /\ Calling'
  BY <1>1 DEF HolderIsInside, Inside, Calling, senderVars
<1>3. CASE WaitForEvent
  <2>1. TypeOK'
    BY <1>1, <1>3 DEF WaitForEvent, ServerNeedsEvent, TypeOK, dataVars, senderVars, logVars
  <2>2. ServerNeedsEvent' /\ RequestInBlock'
    BY <1>1, <1>3 DEF WaitForEvent, ServerNeedsEvent, RequestInBlock, Written, Served, dataVars,
                      senderVars
  <2> QED
    BY <1>2, <2>1, <2>2
<1>4. CASE Handle
  <2>1. EventSet /\ Buffer.call \in Call
    BY <1>4 DEF Handle, ServerNeedsEvent
  <2>a. Buffer \in [call : Call \cup {NoCall}, kind : {"request", "reply"}]
    BY DEF TypeOK
  <2>b. /\ Buffer'.call = Buffer.call
        /\ Buffer' \in [call : Call \cup {NoCall}, kind : {"request", "reply"}]
        /\ Identifier' \in {Identifier, INVALID_HANDLER}
        /\ Identifier' = INVALID_HANDLER \/ Buffer'.kind = "reply"
    BY <1>4, <2>a DEF Handle
  <2>c. executed' \in Seq(Call) /\ refused' \subseteq Call
    <3>1. executed \in Seq(Call) /\ refused \subseteq Call
      BY DEF TypeOK
    <3>2. Append(executed, Buffer.call) \in Seq(Call)
      BY <2>1, <3>1, AppendProperties
    <3> QED
      BY <1>4, <2>1, <3>1, <3>2 DEF Handle
  <2>2. TypeOK'
    BY <1>1, <1>4, <2>b, <2>c DEF Handle, TypeOK, senderVars
  <2>3. ServerNeedsEvent'
    BY <1>4, <2>1 DEF Handle, ServerNeedsEvent
  <2>4. RequestInBlock'
    <3>1. \A q \in Senders : /\ pc[q] \notin {"set", "read"}
                             /\ pc[q] = "after" => Written(q)
      BY <2>1 DEF RequestInBlock
    <3>2. \A q \in Senders : Written(q) => Written(q)'
      BY <1>1, <2>b DEF Written, senderVars
    <3>3. Served'
      BY <2>b DEF Served
    <3> QED
      BY <1>1, <3>1, <3>2, <3>3 DEF RequestInBlock, senderVars
  <2> QED
    BY <1>2, <2>2, <2>3, <2>4
<1>5. CASE ResetEvent
  <2>1. TypeOK'
    BY <1>1, <1>5 DEF ResetEvent, PhaseAfter, TypeOK, senderVars, logVars
  <2>2. ServerNeedsEvent' /\ RequestInBlock'
    BY <1>1, <1>5 DEF ResetEvent, ServerNeedsEvent, RequestInBlock, Written, Served, senderVars
  <2> QED
    BY <1>2, <2>1, <2>2
<1>6. CASE EnterMainLoop
  <2>1. TypeOK'
    BY <1>1, <1>6 DEF EnterMainLoop, Phase, TypeOK, dataVars, senderVars, logVars
  <2>2. ServerNeedsEvent' /\ RequestInBlock'
    BY <1>1, <1>6 DEF EnterMainLoop, ServerNeedsEvent, RequestInBlock, Written, Served, dataVars,
                      senderVars
  <2> QED
    BY <1>2, <2>1, <2>2
<1> QED
  BY <1>3, <1>4, <1>5, <1>6 DEF handleOneCommand

(* The invariant of the whole interface. *)
LEMMA IInvIsInvariant == Spec => []IInv
<1>1. IInv /\ [Next]_vars => IInv'
  <2> SUFFICES ASSUME IInv, [Next]_vars PROVE IInv'
    OBVIOUS
  <2>1. CASE \E p \in Senders : sendCommand(p)
    BY <2>1, EnteringPreservesIInv, RequestingPreservesIInv, LeavingPreservesIInv DEF sendCommand
  <2>2. CASE handleOneCommand \/ EnterMainLoop
    BY <2>2, ServerPreservesIInv
  <2>3. CASE UNCHANGED vars
    BY <2>3 DEF vars, dataVars, serverVars, senderVars, logVars, IInv, TypeOK, HolderIsInside,
                Inside, Calling, ServerNeedsEvent, RequestInBlock, Written, Served
  <2> QED
    BY <2>1, <2>2, <2>3 DEF Next
<1> QED
  BY <1>1, InitEstablishesIInv, PTL DEF Spec

(* Type correctness of the interface. *)
THEOREM TypeCorrect == Spec => []TypeOK
  BY IInvIsInvariant, PTL DEF IInv

(* A sender that reads an answer reads the answer to its own call.              *)
THEOREM RepliesAreOwn == Spec => []ReplyIsOwn
<1>1. IInv => ReplyIsOwn
  BY DEF IInv, RequestInBlock, Written, Served, ReplyIsOwn
<1> QED
  BY <1>1, IInvIsInvariant, PTL

(* No sender, whatever timed out before, writes to the block while the server   *)
(* has a request in hand.                                                       *)
THEOREM RequestsAreStable == Spec => RequestIsStable
<1>1. IInv /\ [Next]_vars => [spc = "handle" /\ spc' = "handle" => UNCHANGED <<Identifier, Buffer>>]_vars
  BY DEF IInv, TypeOK, ServerNeedsEvent, Next, vars, dataVars, serverVars, senderVars, logVars,
         sendCommand, Send, Claim, Write, SetEvent, Answered, Read, Timeout, handleOneCommand,
         WaitForEvent, Handle, ResetEvent, EnterMainLoop
<1> QED
  BY <1>1, IInvIsInvariant, PTL DEF Spec, RequestIsStable

--------------------------------------------------------------------------------
(* Which calls have been served, and the order they were served in.  A call is   *)
(* fresh until the server has handled it: while its sender waits to write it,    *)
(* and while it waits in the block for the server.                               *)
Done == {executed[i] : i \in DOMAIN executed} \cup refused
Fresh(p, n) == \A c \in Done : c[1] = p => c[2] < n

DoneWereCalled == \A c \in Done : c[2] <= calls[c[1]]

UnwrittenIsFresh == \A p \in Senders : pc[p] \in {"semaphore", "before", "set"} => Fresh(p, calls[p])

PendingIsFresh ==
  EventSet /\ spc /= "reset" =>
    /\ Fresh(Buffer.call[1], Buffer.call[2])
    /\ Buffer.call[2] <= calls[Buffer.call[1]]
    /\ pc[Buffer.call[1]] \in {"semaphore", "before", "set"}
         => Buffer.call[2] < calls[Buffer.call[1]]

\* A call is open while its sender is inside sendCommand(), and what the sender
\* is told about it is what the server has done.
OpenInside == \A p \in Senders : result[p] = "open" <=> pc[p] /= "idle"
AnswerIsTrue ==
  \A p \in Senders : pc[p] \in {"after", "read"} /\ (~EventSet \/ spc = "reset") =>
    <<p, calls[p]>> \in IF Identifier = INVALID_HANDLER
                        THEN refused ELSE {executed[i] : i \in DOMAIN executed}

SInv == /\ ExecutedInOrder /\ DoneWereCalled /\ UnwrittenIsFresh /\ PendingIsFresh
        /\ OpenInside /\ AnswerIsTrue

(* What has been executed and refused are calls that senders can make. *)
LEMMA DoneAreCalls == TypeOK => /\ Done \subseteq Call
                                /\ \A c \in Done : c[1] \in Senders /\ c[2] \in Nat
<1> SUFFICES ASSUME TypeOK PROVE Done \subseteq Call
  BY CommandAssumption DEF Call
<1>1. \A i \in DOMAIN executed : executed[i] \in Call
  <2>1. executed \in Seq(Call)
    BY DEF TypeOK
  <2> QED
    BY <2>1, ElementOfSeq
<1> QED
  BY <1>1 DEF Done, TypeOK

(* Nothing has been called at the start. *)
LEMMA InitEstablishesSInv == Init => SInv
<1> SUFFICES ASSUME Init PROVE SInv
  OBVIOUS
<1>1. DOMAIN executed = {} /\ Done = {}
  BY DEF Init, Done
<1> QED
  BY <1>1 DEF Init, SInv, ExecutedInOrder, DoneWereCalled, UnwrittenIsFresh, Fresh,
              PendingIsFresh, OpenInside, AnswerIsTrue

(* A new call is fresh, for its number is higher than any before. *)
LEMMA SendPreservesSInv ==
  ASSUME IInv, SInv, NEW p \in Senders, NEW c \in Command, Send(p, c)
  PROVE  SInv'
<1> USE CommandAssumption DEF IInv, SInv
<1>1. /\ Done' = Done
      /\ UNCHANGED <<EventSet, Identifier, Buffer, spc, executed, refused>>
      /\ pc[p] = "idle" /\ pc' = [pc EXCEPT ![p] = "semaphore"]
      /\ calls' = [calls EXCEPT ![p] = @ + 1]
      /\ result' = [result EXCEPT ![p] = "open"]
  BY DEF Send, Goto, Done, dataVars, serverVars, logVars
<1>2. \A q \in Senders : calls[q] \in Nat /\ calls'[q] = IF q = p THEN calls[q] + 1 ELSE calls[q]
  BY <1>1 DEF TypeOK
<1>3. \A d \in Done : d[1] \in Senders /\ d[2] \in Nat
  BY DoneAreCalls
<1>4. ExecutedInOrder'
  BY <1>1 DEF ExecutedInOrder
<1>5. DoneWereCalled'
  BY <1>1, <1>2, <1>3 DEF DoneWereCalled
<1>6. UnwrittenIsFresh'
  BY <1>1, <1>2, <1>3 DEF DoneWereCalled, UnwrittenIsFresh, Fresh, TypeOK
<1>7. PendingIsFresh'
  <2> SUFFICES ASSUME EventSet, spc /= "reset"
               PROVE  /\ Fresh(Buffer.call[1], Buffer.call[2])
                      /\ Buffer.call[2] <= calls'[Buffer.call[1]]
                      /\ pc'[Buffer.call[1]] \in {"semaphore", "before", "set"}
                           => Buffer.call[2] < calls'[Buffer.call[1]]
    BY <1>1 DEF PendingIsFresh, Fresh
  <2>1. Buffer.call[1] \in Senders /\ Buffer.call[2] \in Nat
    BY DEF ServerNeedsEvent, Call
  <2> QED
    BY <2>1, <1>1, <1>2 DEF PendingIsFresh, TypeOK
<1>8. OpenInside'
  BY <1>1 DEF OpenInside, TypeOK
<1>9. AnswerIsTrue'
  <2>1. \A q \in Senders : pc'[q] \in {"after", "read"} =>
          pc[q] \in {"after", "read"} /\ calls'[q] = calls[q]
    BY <1>1, <1>2 DEF TypeOK
  <2> QED
    BY <1>1, <2>1 DEF AnswerIsTrue
<1> QED
  BY <1>4, <1>5, <1>6, <1>7, <1>8, <1>9

(* A call stays fresh until it is in the block, and is pending when the event is *)
(* set; a sender that leaves knows what the server has done, or nothing.         *)
LEMMA CallingPreservesSInv ==
  ASSUME IInv, SInv, NEW p \in Senders,
         \/ Claim(p) \/ Write(p) \/ SetEvent(p) \/ Answered(p) \/ Read(p) \/ Timeout(p)
  PROVE  SInv'
<1> USE CommandAssumption DEF IInv, SInv
<1>1. Done' = Done /\ UNCHANGED <<spc, executed, refused, calls>>
  BY DEF Claim, Write, SetEvent, Answered, Read, Timeout, Done, dataVars, serverVars, logVars
<1>2. ExecutedInOrder' /\ DoneWereCalled'
  BY <1>1 DEF ExecutedInOrder, DoneWereCalled
<1>3. UnwrittenIsFresh'
  BY <1>1 DEF Claim, Write, SetEvent, Answered, Read, Timeout, Goto, UnwrittenIsFresh, Fresh, TypeOK
<1>4. OpenInside'
  BY DEF Claim, Write, SetEvent, Answered, Read, Timeout, Goto, Leave, OpenInside, TypeOK
<1>5. PendingIsFresh'
  <2>1. CASE SetEvent(p)
    <3>1. pc[p] = "set" /\ Buffer.call = <<p, calls[p]>> /\ UNCHANGED Buffer
      BY <2>1 DEF SetEvent, Goto, RequestInBlock, Written
    <3>2. pc'[p] \in {"after", "idle"}
      BY <2>1 DEF SetEvent, Goto, TypeOK
    <3>3. calls[p] \in Nat /\ Fresh(p, calls[p])
      BY <3>1 DEF UnwrittenIsFresh, TypeOK
    <3> QED
      BY <1>1, <3>1, <3>2, <3>3 DEF PendingIsFresh, Fresh
  <2>2. CASE Write(p)
    BY <2>2 DEF Write, PendingIsFresh
  <2>3. CASE Claim(p) \/ Answered(p) \/ Read(p) \/ Timeout(p)
    <3>1. /\ UNCHANGED <<EventSet, Buffer>>
          /\ \A q \in Senders : pc'[q] \in {"semaphore", "before", "set"}
                                  => pc[q] \in {"semaphore", "before", "set"}
      BY <2>3 DEF Claim, Answered, Read, Timeout, Goto, TypeOK, dataVars
    <3>2. EventSet /\ spc /= "reset" => Buffer.call[1] \in Senders
      BY DEF ServerNeedsEvent, Call
    <3> QED
      BY <1>1, <3>1, <3>2 DEF PendingIsFresh, Fresh
  <2> QED
    BY <2>1, <2>2, <2>3
<1>6. AnswerIsTrue'
  <2>1. CASE SetEvent(p)
    <3>1. EventSet' /\ spc' /= "reset"
      BY <1>1, <2>1 DEF SetEvent, Goto, ServerNeedsEvent, TypeOK, RequestInBlock
    <3> QED
      BY <3>1 DEF AnswerIsTrue
  <2>2. CASE Write(p)
    <3>1. \A q \in Senders : pc'[q] \notin {"after", "read"}
      BY <2>2 DEF Write, Goto, HolderIsInside, Inside, TypeOK
    <3> QED
      BY <3>1 DEF AnswerIsTrue
  <2>3. CASE Claim(p) \/ Answered(p) \/ Read(p) \/ Timeout(p)
    <3>1. UNCHANGED <<EventSet, Identifier>>
      BY <2>3 DEF Claim, Answered, Read, Timeout, dataVars
    <3>2. \A q \in Senders : pc'[q] \in {"after", "read"} => pc[q] \in {"after", "read"}
      BY <2>3 DEF Claim, Answered, Read, Timeout, Goto, TypeOK
    <3> QED
      BY <1>1, <3>1, <3>2 DEF AnswerIsTrue
  <2> QED
    BY <2>1, <2>2, <2>3
<1> QED
  BY <1>2, <1>3, <1>4, <1>5, <1>6

(* The call the server has in hand is pending and therefore fresh: whatever it  *)
(* has served before, of the same sender, has a lower number.                   *)
LEMMA HandlePreservesSInv ==
  ASSUME IInv, SInv, Handle
  PROVE  SInv'
<1> USE CommandAssumption DEF IInv, SInv
<1> DEFINE b == Buffer.call
<1>1. /\ spc = "handle" /\ EventSet /\ spc' = "reset"
      /\ UNCHANGED <<EventSet, pc, calls, result>>
  BY DEF Handle, ServerNeedsEvent, senderVars
<1>2. /\ b \in Call /\ b = <<b[1], b[2]>> /\ b[1] \in Senders /\ b[2] \in Nat
      /\ Identifier \in Command
  BY <1>1 DEF ServerNeedsEvent, Call
<1>3. executed \in Seq(Call)
  BY DEF TypeOK
<1>4. Fresh(b[1], b[2]) /\ b[2] <= calls[b[1]]
  BY <1>1 DEF PendingIsFresh
<1>5. CASE Identifier \in Handled[phase]
  <2>1. executed' = Append(executed, b) /\ UNCHANGED <<Identifier, refused>> /\ Buffer'.call = b
    BY <1>5 DEF Handle, TypeOK
  <2>2. /\ DOMAIN executed' = 1 .. Len(executed) + 1 /\ DOMAIN executed = 1 .. Len(executed)
        /\ Len(executed) \in Nat
        /\ executed'[Len(executed) + 1] = b
        /\ \A i \in 1 .. Len(executed) : executed'[i] = executed[i]
    BY <1>2, <1>3, <2>1
  <2>3. {executed'[i] : i \in DOMAIN executed'} = {executed[i] : i \in DOMAIN executed} \cup {b}
    BY <2>2
  <2>4. ExecutedInOrder'
    <3> SUFFICES ASSUME NEW i \in DOMAIN executed', NEW j \in DOMAIN executed',
                        i < j, executed'[i][1] = executed'[j][1]
                 PROVE  executed'[i][2] < executed'[j][2]
      BY DEF ExecutedInOrder
    <3>1. CASE j = Len(executed) + 1
      <4>1. i \in DOMAIN executed /\ executed[i] \in Done
        BY <2>2, <3>1 DEF Done
      <4> QED
        BY <1>4, <2>2, <3>1, <4>1 DEF Fresh
    <3>2. CASE j /= Len(executed) + 1
      BY <2>2, <3>2 DEF ExecutedInOrder
    <3> QED
      BY <3>1, <3>2
  <2>5. Done' = Done \cup {b}
    BY <2>1, <2>3 DEF Done
  <2>6. AnswerIsTrue'
    <3>1. \A q \in Senders : pc[q] \in {"after", "read"} => <<q, calls[q]>> = b
      BY <1>1 DEF RequestInBlock, Written
    <3>2. b \in {executed'[i] : i \in DOMAIN executed'} /\ Identifier' /= INVALID_HANDLER
      BY <1>2, <2>1, <2>3
    <3> QED
      BY <1>1, <3>1, <3>2 DEF AnswerIsTrue
  <2> QED
    BY <1>1, <1>2, <1>4, <2>4, <2>5, <2>6 DEF DoneWereCalled, UnwrittenIsFresh, PendingIsFresh,
       OpenInside, Fresh, RequestInBlock
<1>6. CASE Identifier \notin Handled[phase]
  <2>1. /\ Identifier' = INVALID_HANDLER /\ refused' = refused \cup {b}
        /\ UNCHANGED <<Buffer, executed>>
    BY <1>6 DEF Handle
  <2>2. ExecutedInOrder' /\ Done' = Done \cup {b}
    BY <2>1 DEF ExecutedInOrder, Done
  <2>3. AnswerIsTrue'
    <3>1. \A q \in Senders : pc[q] \in {"after", "read"} => <<q, calls[q]>> = b
      BY <1>1 DEF RequestInBlock, Written
    <3> QED
      BY <1>1, <2>1, <3>1 DEF AnswerIsTrue
  <2> QED
    BY <1>1, <1>2, <1>4, <2>2, <2>3 DEF DoneWereCalled, UnwrittenIsFresh, PendingIsFresh,
       OpenInside, Fresh, RequestInBlock
<1> QED
  BY <1>5, <1>6

(* The other steps of the server serve nothing. *)
LEMMA LoopPreservesSInv ==
  ASSUME IInv, SInv, WaitForEvent \/ ResetEvent \/ EnterMainLoop
  PROVE  SInv'
<1>1. Done' = Done /\ UNCHANGED <<executed, refused, Identifier, Buffer, pc, calls, result>>
  BY DEF WaitForEvent, ResetEvent, EnterMainLoop, Done, dataVars, senderVars, logVars
<1>2. /\ EventSet' /\ spc' /= "reset" => EventSet /\ spc /= "reset"
      /\ ~EventSet' \/ spc' = "reset" => ~EventSet \/ spc = "reset"
  BY DEF WaitForEvent, ResetEvent, EnterMainLoop, IInv, TypeOK, dataVars
<1> QED
  BY <1>1, <1>2 DEF SInv, ExecutedInOrder, DoneWereCalled, UnwrittenIsFresh, PendingIsFresh,
     OpenInside, AnswerIsTrue, Fresh

(* Both invariants together. *)
LEMMA ServingIsInvariant == Spec => [](IInv /\ SInv)
<1>1. SInv /\ IInv /\ [Next]_vars => SInv'
  <2> SUFFICES ASSUME SInv, IInv, [Next]_vars PROVE SInv'
    OBVIOUS
  <2>1. CASE \E p \in Senders : sendCommand(p)
    BY <2>1, SendPreservesSInv, CallingPreservesSInv DEF sendCommand
  <2>2. CASE handleOneCommand \/ EnterMainLoop
    BY <2>2, HandlePreservesSInv, LoopPreservesSInv DEF handleOneCommand
  <2>3. CASE UNCHANGED vars
    BY <2>3 DEF vars, dataVars, serverVars, senderVars, logVars, SInv, ExecutedInOrder,
                DoneWereCalled, UnwrittenIsFresh, PendingIsFresh, OpenInside, AnswerIsTrue,
                Fresh, Done
  <2> QED
    BY <2>1, <2>2, <2>3 DEF Next
<1> QED
  BY <1>1, InitEstablishesSInv, IInvIsInvariant, PTL DEF Spec

(* No command is executed twice, and those of one sender are executed in the     *)
(* order in which it called, whoever gave up waiting.                            *)
THEOREM CommandsInOrder == Spec => []ExecutedInOrder
  BY ServingIsInvariant, PTL DEF SInv

(* What a sender does is a call, a return of that call, or invisible to both.    *)
LEMMA SenderImplementsRemoteCall ==
  ASSUME IInv, SInv, NEW p \in Senders, sendCommand(p)
  PROVE  Abstract!Next \/ UNCHANGED Abstract!vars
<1> USE DEF IInv, SInv
<1>1. UNCHANGED logVars
  BY DEF sendCommand, Send, Claim, Write, SetEvent, Answered, Read, Timeout
<1>2. CASE \E c \in Command : Send(p, c)
  <2>1. Abstract!Call(p)
    BY <1>1, <1>2 DEF Send, Goto, OpenInside, Abstract!Call, logVars
  <2> QED
    BY <2>1 DEF Abstract!Next
<1>3. CASE Claim(p) \/ Write(p) \/ Answered(p)
  BY <1>1, <1>3 DEF Claim, Write, Answered, Abstract!vars, logVars
<1>4. CASE SetEvent(p)
  <2>1. CASE p \in OneWay
    <3>1. Abstract!ReturnSent(p)
      BY <1>1, <1>4, <2>1 DEF SetEvent, Goto, Leave, OpenInside, Abstract!ReturnSent, logVars
    <3> QED
      BY <3>1 DEF Abstract!Next
  <2>2. CASE p \notin OneWay
    BY <1>1, <1>4, <2>2 DEF SetEvent, Abstract!vars, logVars
  <2> QED
    BY <2>1, <2>2
<1>5. CASE Read(p)
  <2> DEFINE r == IF Identifier = sending[p] THEN "success" ELSE "error"
  <2>1. pc[p] = "read" /\ result[p] = "open" /\ sending[p] \in Command
    BY <1>5 DEF Read, Goto, OpenInside, Calling
  <2>2. Identifier \in {sending[p], INVALID_HANDLER} /\ ~EventSet
    BY <2>1 DEF RequestInBlock, Written
  <2>3. <<p, calls[p]>> \in IF Identifier = INVALID_HANDLER
                            THEN refused ELSE {executed[i] : i \in DOMAIN executed}
    BY <2>1, <2>2 DEF AnswerIsTrue
  <2>4. Abstract!Return(p, r)
    BY <1>1, <1>5, <2>1, <2>2, <2>3, CommandAssumption DEF Read, Goto, Leave, Abstract!Return, logVars
  <2> QED
    BY <2>4 DEF Abstract!Next
<1>6. CASE Timeout(p)
  <2>1. Abstract!Return(p, "timeout")
    BY <1>1, <1>6 DEF Timeout, Leave, OpenInside, Abstract!Return, logVars
  <2> QED
    BY <2>1 DEF Abstract!Next
<1> QED
  BY <1>2, <1>3, <1>4, <1>5, <1>6 DEF sendCommand

(* The handler serves a call that was made and not served before. *)
LEMMA HandleImplementsRemoteCall ==
  ASSUME IInv, SInv, Handle
  PROVE  Abstract!Next
<1> USE DEF IInv, SInv
<1> DEFINE b == Buffer.call
<1>1. spc = "handle" /\ EventSet /\ UNCHANGED <<calls, result>>
  BY DEF Handle, ServerNeedsEvent, senderVars
<1>2. PICK p \in Senders, n \in 1 .. MaxCalls : b = <<p, n>>
  BY <1>1 DEF ServerNeedsEvent, Call
<1>3. b \notin Done /\ n <= calls[p]
  BY <1>1, <1>2, CommandAssumption DEF PendingIsFresh, Fresh
<1>4. calls[p] \in Nat
  BY CommandAssumption DEF TypeOK
<1>5. Abstract!Serve(p, n)
  <2>1. CASE Identifier \in Handled[phase]
    <3>1. executed' = Append(executed, b) /\ UNCHANGED refused
      BY <2>1 DEF Handle
    <3>2. /\ DOMAIN executed' = 1 .. Len(executed) + 1 /\ DOMAIN executed = 1 .. Len(executed)
          /\ Len(executed) \in Nat
          /\ executed'[Len(executed) + 1] = b
          /\ \A i \in 1 .. Len(executed) : executed'[i] = executed[i]
      BY <1>2, <3>1 DEF TypeOK
    <3>3. {executed'[i] : i \in DOMAIN executed'} = {executed[i] : i \in DOMAIN executed} \cup {b}
      BY <3>2
    <3> QED
      BY <1>1, <1>2, <1>3, <3>1, <3>3 DEF Abstract!Serve, Done
  <2>2. CASE Identifier \notin Handled[phase]
    <3>1. refused' = refused \cup {b} /\ UNCHANGED executed
      BY <2>2 DEF Handle
    <3> QED
      BY <1>1, <1>2, <1>3, <3>1 DEF Abstract!Serve, Done
  <2> QED
    BY <2>1, <2>2
<1>6. n \in 1 .. calls[p]
  BY <1>3, <1>4, CommandAssumption
<1> QED
  BY <1>5, <1>6 DEF Abstract!Next

(* The interface implements the abstract remote calls: each step of a sender or *)
(* of the server is one of them or changes nothing they speak of.               *)
THEOREM InterfaceImplementsRemoteCall == Spec => ImplementsRemoteCall
<1>1. Init => Abstract!Init
  <2>1. Init => {executed[i] : i \in DOMAIN executed} = {}
    BY DEF Init
  <2> QED
    BY <2>1 DEF Init, Abstract!Init
<1>2. IInv /\ SInv /\ [Next]_vars => [Abstract!Next]_(Abstract!vars)
  <2> SUFFICES ASSUME IInv, SInv, [Next]_vars PROVE Abstract!Next \/ UNCHANGED Abstract!vars
    OBVIOUS
  <2>1. CASE \E p \in Senders : sendCommand(p)
    BY <2>1, SenderImplementsRemoteCall
  <2>2. CASE Handle
    BY <2>2, HandleImplementsRemoteCall
  <2>3. CASE WaitForEvent \/ ResetEvent \/ EnterMainLoop
    BY <2>3 DEF WaitForEvent, ResetEvent, EnterMainLoop, Abstract!vars, senderVars, logVars
  <2>4. CASE UNCHANGED vars
    BY <2>4 DEF vars, senderVars, logVars, Abstract!vars
  <2> QED
    BY <2>1, <2>2, <2>3, <2>4 DEF Next, handleOneCommand
<1> QED
  BY <1>1, <1>2, ServingIsInvariant, PTL DEF Spec, ImplementsRemoteCall, Abstract!Spec

--------------------------------------------------------------------------------
(* GlobalVcMapping: the local vcs the counters stand for are those in the table     *)
(* but the one a manager is about to attach, and the one it is about to remove.     *)
Adding(p)   == doing[p] \in {"attach", "attaching"}
Removing(p) == doing[p] \in {"detach", "detaching"}
InHand(p)   == desc[slot[p]]
Counted == {m \in Mapping :
              \/ (\E k \in Attaching!Slot : index[k] = m) /\ \A p \in Managers : Adding(p) => InHand(p) /= m
              \/ \E p \in Managers : Removing(p) /\ InHand(p) = m}

AttachingType ==
  /\ index \in [Attaching!Slot -> Mapping \cup {None}]
  /\ desc \in [Attaching!Slot -> Mapping \cup {None}]
  /\ waiting \in [Attaching!Slot -> Nat]
  /\ \A k \in Attaching!Slot : desc[k] = None => waiting[k] = 0
  /\ NumberOfConnectedVCs \in 0 .. MaxAttached /\ NumberOfBuffers \in 0 .. MaxBuffers
  /\ SenderVcIndex \in Attaching!Slot \cup {None}
  /\ ActionSemaphore \in Managers \cup {None}
  /\ object \in [Attaching!Process -> [Attaching!Slot -> BOOLEAN]]
  /\ attached \in [Apps -> SUBSET Mapping]
  /\ command \in [Apps -> Attaching!LocalVcCommand \cup {None}]
  /\ answer \in [Managers -> {None, "ok", "error"}]
  /\ doing \in [Attaching!Process -> {"idle", "attach", "attaching", "detach", "detaching", "closing", "closed"}]
  /\ \A p \in Managers : doing[p] \notin {"closing", "closed"}
  /\ slot \in [Attaching!Process -> Attaching!Slot]

\* A manager inside a call holds the action semaphore.
OneAtATime == \A p \in Managers : doing[p] /= "idle" <=> ActionSemaphore = p

\* A mapping is in the table once, as the memory of its slot describes it.
TableIsExact ==
  /\ \A k \in Attaching!Slot : index[k] /= None => desc[k] = index[k]
  /\ \A j, k \in Attaching!Slot : index[j] /= None /\ index[j] = index[k] => j = k
  /\ \A p \in Attaching!Process, k \in Attaching!Slot : object[p][k] => desc[k] /= None

\* What was looked at before the slot was taken is still so.
AddingFits == \A p \in Managers : Adding(p) =>
  /\ InHand(p) \in Mapping /\ index[slot[p]] = InHand(p)
  /\ NumberOfConnectedVCs < MaxAttached
  /\ NumberOfBuffers + Buffers[InHand(p)] <= MaxBuffers
  /\ IsReading[InHand(p)] \/ SenderVcIndex = None

RemovingFits == \A p \in Managers : Removing(p) =>
  /\ InHand(p) \in Mapping
  /\ \A k \in Attaching!Slot : index[k] /= InHand(p)

\* Lost commands leave the counters above what they count, never below.
CountersSuffice ==
  /\ IsFiniteSet(Counted) /\ Cardinality(Counted) <= NumberOfConnectedVCs
  /\ IsFiniteSet(Attaching!PromisedTo(Counted)) /\ Attaching!BuffersOf(Counted) <= NumberOfBuffers

\* The slots of the counted local vcs
CountedAt(k) ==
  \/ index[k] /= None /\ \A p \in Managers : Adding(p) => slot[p] /= k
  \/ \E p \in Managers : Removing(p) /\ slot[p] = k

SenderIsKnown == \A k \in Attaching!Slot : CountedAt(k) /\ ~IsReading[desc[k]] => SenderVcIndex = k

ChannelInv == AttachingType /\ OneAtATime /\ TableIsExact /\ AddingFits /\ RemovingFits /\ CountersSuffice
              /\ SenderIsKnown

(* With one manager that has always been answered, the counters are exact, the      *)
(* manager has an object of every slot in use, the processes' tables hold what is    *)
(* in the channel's, and no command fails.                                          *)
OneManager == \A p, q \in Managers : p = q

CountersExact == Cardinality(Counted) = NumberOfConnectedVCs /\ Attaching!BuffersOf(Counted) = NumberOfBuffers
SenderExact == SenderVcIndex /= None => CountedAt(SenderVcIndex) /\ ~IsReading[desc[SenderVcIndex]]

ManagerKnows == \A p \in Managers, k \in Attaching!Slot :
  index[k] /= None \/ (Removing(p) /\ slot[p] = k) => object[p][k]

\* Processes attach what is meant for them, and have attached what is in the table
\* but for the command that is on its way.
Attached(m) ==
  \/ m \in Counted /\ \A p \in Managers : Removing(p) /\ InHand(p) = m => doing[p] = "detach" \/ answer[p] = None
  \/ \E p \in Managers : doing[p] = "attaching" /\ InHand(p) = m /\ answer[p] = "ok"
ProcessesKnow ==
  \A a \in Apps, m \in Mapping : m \in attached[a] <=> Pid[m] = a /\ Attached(m)

CommandsPending == \A a \in Apps : command[a] /= None =>
  LET c == command[a] IN
  /\ InHand(c.caller) = c.mapping /\ answer[c.caller] = None
  /\ doing[c.caller] = IF c.op = "attach" THEN "attaching" ELSE "detaching"
  /\ Pid[c.mapping] = a
NoneFails == \A p \in Managers : doing[p] \in {"attaching", "detaching"} => answer[p] /= "error"

RecordsKept == CountersExact /\ SenderExact /\ ManagerKnows /\ ProcessesKnow /\ CommandsPending /\ NoneFails
RecordsInv == ~commandLost => RecordsKept

(* The constants *)
LEMMA AttachingFacts ==
  /\ MaxAttached \in Nat \ {0, 1} /\ MaxBuffers \in Nat /\ Attaching!Slot \subseteq Nat
  /\ Managers \cap Apps = {} /\ Pid \in [Mapping -> Apps] /\ IsReading \in [Mapping -> BOOLEAN]
  /\ Buffers \in [Mapping -> Nat \ {0}]
  /\ None \notin Mapping /\ None \notin Attaching!Slot /\ None \notin Attaching!LocalVcCommand
  /\ None \notin Attaching!Process /\ None \notin {"ok", "error"}
  /\ Managers \subseteq Attaching!Process /\ Apps \subseteq Attaching!Process
  BY AttachingAssumption DEF Attaching!MappingAssumption, Attaching!Slot, Attaching!Process

LEMMA SlotIs ==
  ASSUME NEW m, Attaching!SlotsOf(m) /= {}
  PROVE  /\ Attaching!Min(Attaching!SlotsOf(m)) \in Attaching!Slot
         /\ index[Attaching!Min(Attaching!SlotsOf(m))] = m
  <1>1. Attaching!SlotsOf(m) \in SUBSET Nat
    BY AttachingFacts DEF Attaching!SlotsOf
  <1>2. IsWellFoundedOn(OpToRel(<, Nat), Nat)
    BY NatLessThanWellFounded
  <1>3. PICK k \in Attaching!SlotsOf(m) : \A j \in Attaching!SlotsOf(m) : ~ (<<j, k>> \in OpToRel(<, Nat))
    BY <1>1, <1>2, WFMin
  <1>4. \A j \in Attaching!SlotsOf(m) : ~ (j < k)
    BY <1>1, <1>3 DEF OpToRel
  <1>5. \A j \in Attaching!SlotsOf(m) : k <= j
    BY <1>1, <1>4
  <1>6. Attaching!Min(Attaching!SlotsOf(m)) \in Attaching!SlotsOf(m)
    BY <1>5 DEF Attaching!Min
  <1> QED BY <1>6 DEF Attaching!SlotsOf

(* The buffers of one mapping more. *)
LEMMA PlacesOfOne ==
  ASSUME NEW m \in Mapping
  PROVE  IsFiniteSet({m} \X (1 .. Buffers[m])) /\ Cardinality({m} \X (1 .. Buffers[m])) = Buffers[m]
  <1> DEFINE f == [i \in 1 .. Buffers[m] |-> <<m, i>>]
             S == {m} \X (1 .. Buffers[m])
  <1>1. Buffers[m] \in Nat
    BY AttachingFacts
  <1>2. f \in Bijection(1 .. Buffers[m], S)
    <2>1. f \in [1 .. Buffers[m] -> S]
      OBVIOUS
    <2>2. \A i, j \in 1 .. Buffers[m] : f[i] = f[j] => i = j
      OBVIOUS
    <2>3. \A e \in S : \E i \in 1 .. Buffers[m] : f[i] = e
      OBVIOUS
    <2> QED BY <2>1, <2>2, <2>3 DEF Bijection, Injection, Surjection, IsInjective
  <1>3. ExistsBijection(1 .. Buffers[m], S)
    BY <1>2 DEF ExistsBijection
  <1>4. Cardinality(S) = Buffers[m]
    BY <1>1, <1>3, FS_CountingElements
  <1>5. IsFiniteSet(S)
    BY <1>1, <1>3, FS_NatBijection
  <1> QED BY <1>4, <1>5

LEMMA BuffersAre ==
  ASSUME NEW s
  PROVE  Attaching!BuffersOf(s) = Cardinality(Attaching!PromisedTo(s))
  BY DEF Attaching!BuffersOf, Attaching!Cardinality, Cardinality

LEMMA OneMore ==
  ASSUME NEW ms \in SUBSET Mapping, NEW m \in Mapping \ ms, IsFiniteSet(ms), IsFiniteSet(Attaching!PromisedTo(ms))
  PROVE  /\ IsFiniteSet(ms \cup {m}) /\ Cardinality(ms \cup {m}) = Cardinality(ms) + 1
         /\ IsFiniteSet(Attaching!PromisedTo(ms \cup {m}))
         /\ Attaching!BuffersOf(ms \cup {m}) = Attaching!BuffersOf(ms) + Buffers[m]
         /\ Cardinality(ms) \in Nat /\ Attaching!BuffersOf(ms) \in Nat
  <1> DEFINE S == {m} \X (1 .. Buffers[m])
  <1>1. Attaching!PromisedTo(ms \cup {m}) = Attaching!PromisedTo(ms) \cup S /\ Attaching!PromisedTo(ms) \cap S = {}
    BY DEF Attaching!PromisedTo
  <1>2. IsFiniteSet(S) /\ Cardinality(S) = Buffers[m] /\ Buffers[m] \in Nat
    BY PlacesOfOne, AttachingFacts
  <1> HIDE DEF S
  <1>3. IsFiniteSet(Attaching!PromisedTo(ms \cup {m}))
        /\ Cardinality(Attaching!PromisedTo(ms \cup {m})) = Cardinality(Attaching!PromisedTo(ms)) + Buffers[m] - Cardinality(Attaching!PromisedTo(ms) \cap S)
    <2>1. PICK T : T = Attaching!PromisedTo(ms) /\ IsFiniteSet(T)
      OBVIOUS
    <2>2. IsFiniteSet(T \cup S) /\ Cardinality(T \cup S) = Cardinality(T) + Cardinality(S) - Cardinality(T \cap S)
      BY <1>2, <2>1, FS_Union
    <2> QED BY <1>1, <1>2, <2>1, <2>2
  <1>4. Cardinality(Attaching!PromisedTo(ms) \cap S) = 0
    BY <1>1, FS_EmptySet
  <1>5. Cardinality(Attaching!PromisedTo(ms)) \in Nat /\ Cardinality(ms) \in Nat
    BY FS_CardinalityType
  <1>6. IsFiniteSet(ms \cup {m}) /\ Cardinality(ms \cup {m}) = Cardinality(ms) + 1
    BY FS_AddElement
  <1> QED BY <1>2, <1>3, <1>4, <1>5, <1>6, BuffersAre

LEMMA OneLess ==
  ASSUME NEW ms \in SUBSET Mapping, NEW m \in ms, IsFiniteSet(ms), IsFiniteSet(Attaching!PromisedTo(ms))
  PROVE  /\ IsFiniteSet(ms \ {m}) /\ Cardinality(ms) = Cardinality(ms \ {m}) + 1
         /\ IsFiniteSet(Attaching!PromisedTo(ms \ {m}))
         /\ Attaching!BuffersOf(ms) = Attaching!BuffersOf(ms \ {m}) + Buffers[m]
         /\ Cardinality(ms \ {m}) \in Nat /\ Attaching!BuffersOf(ms \ {m}) \in Nat
  <1>1. IsFiniteSet(ms \ {m}) /\ m \in Mapping \ (ms \ {m}) /\ (ms \ {m}) \cup {m} = ms
    BY FS_RemoveElement
  <1>2. Attaching!PromisedTo(ms \ {m}) \in SUBSET Attaching!PromisedTo(ms)
    BY DEF Attaching!PromisedTo
  <1>3. IsFiniteSet(Attaching!PromisedTo(ms \ {m}))
    BY <1>2, FS_Subset
  <1> QED BY <1>1, <1>3, OneMore

--------------------------------------------------------------------------------
LEMMA ChannelInit == Attaching!Init => ChannelInv
  <1> SUFFICES ASSUME Attaching!Init PROVE ChannelInv
    OBVIOUS
  <1> USE AttachingFacts DEF Attaching!Init
  <1>1. AttachingType
    <2>1. 0 \in Attaching!Slot
      BY DEF Attaching!Slot
    <2> QED BY <2>1 DEF AttachingType, Attaching!Process
  <1>2. \A p \in Managers : ~Adding(p) /\ ~Removing(p) /\ doing[p] = "idle"
    BY DEF Adding, Removing
  <1>3. OneAtATime /\ AddingFits /\ RemovingFits
    BY <1>2 DEF OneAtATime, AddingFits, RemovingFits
  <1>4. TableIsExact
    BY DEF TableIsExact
  <1>5. Counted = {}
    BY <1>2 DEF Counted
  <1>6. Attaching!PromisedTo({}) = {}
    BY DEF Attaching!PromisedTo
  <1>7. CountersSuffice
    <2>1. Cardinality({}) = 0 /\ IsFiniteSet({})
      BY FS_EmptySet
    <2>2. IsFiniteSet(Counted) /\ Cardinality(Counted) = 0
      BY <1>5, <2>1
    <2>3. Attaching!PromisedTo(Counted) = {}
      BY <1>5, <1>6
    <2>4. IsFiniteSet(Attaching!PromisedTo(Counted)) /\ Cardinality(Attaching!PromisedTo(Counted)) = 0
      BY <2>1, <2>3
    <2>5. Attaching!BuffersOf(Counted) = 0
      BY <2>4, BuffersAre
    <2>6. NumberOfConnectedVCs = 0 /\ NumberOfBuffers = 0 /\ 0 <= 0
      OBVIOUS
    <2> HIDE DEF Attaching!Init
    <2> QED BY <2>2, <2>4, <2>5, <2>6 DEF CountersSuffice
  <1>8. SenderIsKnown
    BY <1>2 DEF SenderIsKnown, CountedAt
  <1> QED BY <1>1, <1>3, <1>4, <1>7, <1>8 DEF ChannelInv

(* Steps that leave the table and the calls where they are *)
QuietStep ==
  /\ UNCHANGED <<index, desc, NumberOfConnectedVCs, NumberOfBuffers, SenderVcIndex, ActionSemaphore, slot>>
  /\ \A p \in Managers : /\ (doing[p] = "idle") = (doing'[p] = "idle")
                         /\ Adding(p)' = Adding(p) /\ Removing(p)' = Removing(p)
  /\ \A p \in Attaching!Process, k \in Attaching!Slot : object'[p][k] => object[p][k] \/ index[k] /= None

LEMMA CountedSame ==
  ASSUME UNCHANGED <<index, desc, slot>>,
         \A p \in Managers : Adding(p)' = Adding(p) /\ Removing(p)' = Removing(p)
  PROVE  /\ Counted' = Counted
         /\ \A k \in Attaching!Slot : CountedAt(k)' = CountedAt(k)
         /\ \A p \in Managers : InHand(p)' = InHand(p)
  <1>1. \A p \in Managers : InHand(p)' = InHand(p)
    BY DEF InHand
  <1>2. \A k \in Attaching!Slot : CountedAt(k)' = CountedAt(k)
    BY DEF CountedAt
  <1>3. ASSUME NEW m \in Mapping PROVE m \in Counted <=> m \in Counted'
    BY <1>1 DEF Counted
  <1> QED BY <1>1, <1>2, <1>3 DEF Counted

LEMMA QuietKeepsChannel ==
  ASSUME ChannelInv, AttachingType', QuietStep
  PROVE  ChannelInv'
  <1> USE DEF ChannelInv, QuietStep
  <1>1. /\ Counted' = Counted
        /\ \A k \in Attaching!Slot : CountedAt(k)' = CountedAt(k)
        /\ \A p \in Managers : InHand(p)' = InHand(p)
    BY CountedSame
  <1>2. OneAtATime'
    BY DEF OneAtATime
  <1>3. TableIsExact'
    BY AttachingFacts DEF TableIsExact, AttachingType
  <1>4. AddingFits' /\ RemovingFits'
    BY <1>1 DEF AddingFits, RemovingFits
  <1>5. CountersSuffice'
    BY <1>1 DEF CountersSuffice, Attaching!BuffersOf, Attaching!PromisedTo
  <1>6. SenderIsKnown'
    BY <1>1 DEF SenderIsKnown
  <1> QED BY <1>2, <1>3, <1>4, <1>5, <1>6

(* What is counted, seen from the manager that holds the action semaphore *)
LEMMA MappedIs ==
  ASSUME NEW m
  PROVE  m \in Attaching!Mapped <=> m \in Mapping /\ \E k \in Attaching!Slot : index[k] = m
  BY DEF Attaching!Mapped, Attaching!SlotsOf

LEMMA CountedIs ==
  ASSUME OneAtATime
  PROVE  /\ ActionSemaphore = None =>
              Counted = Attaching!Mapped /\ \A k \in Attaching!Slot : CountedAt(k) <=> index[k] /= None
         /\ \A p \in Managers : Adding(p) =>
              /\ Counted = Attaching!Mapped \ {InHand(p)}
              /\ \A k \in Attaching!Slot : CountedAt(k) <=> index[k] /= None /\ k /= slot[p]
         /\ \A p \in Managers : Removing(p) /\ InHand(p) \in Mapping =>
              /\ Counted = Attaching!Mapped \cup {InHand(p)}
              /\ \A k \in Attaching!Slot : CountedAt(k) <=> index[k] /= None \/ k = slot[p]
  <1>1. \A p \in Managers : /\ Adding(p) \/ Removing(p) => ActionSemaphore = p
                            /\ ~ (Adding(p) /\ Removing(p))
    BY DEF OneAtATime, Adding, Removing
  <1>2. \A m : m \in Attaching!Mapped <=> m \in Mapping /\ \E k \in Attaching!Slot : index[k] = m
    BY MappedIs
  <1>3. None \notin Managers
    BY AttachingFacts
  <1>4. ActionSemaphore = None => Counted = Attaching!Mapped
    BY <1>1, <1>2, <1>3 DEF Counted
  <1>5. ASSUME NEW p \in Managers, Adding(p) PROVE Counted = Attaching!Mapped \ {InHand(p)}
    BY <1>1, <1>2, <1>5 DEF Counted
  <1>6. ASSUME NEW p \in Managers, Removing(p), InHand(p) \in Mapping PROVE Counted = Attaching!Mapped \cup {InHand(p)}
    BY <1>1, <1>2, <1>6 DEF Counted
  <1> QED BY <1>1, <1>3, <1>4, <1>5, <1>6 DEF CountedAt

LEMMA CountedNext ==
  ASSUME OneAtATime'
  PROVE  /\ ActionSemaphore' = None =>
              Counted' = Attaching!Mapped' /\ \A k \in Attaching!Slot : CountedAt(k)' <=> index'[k] /= None
         /\ \A p \in Managers : Adding(p)' =>
              /\ Counted' = Attaching!Mapped' \ {InHand(p)'}
              /\ \A k \in Attaching!Slot : CountedAt(k)' <=> index'[k] /= None /\ k /= slot'[p]
         /\ \A p \in Managers : Removing(p)' /\ InHand(p)' \in Mapping =>
              /\ Counted' = Attaching!Mapped' \cup {InHand(p)'}
              /\ \A k \in Attaching!Slot : CountedAt(k)' <=> index'[k] /= None \/ k = slot'[p]
  <1>1. \A p \in Managers : /\ Adding(p)' \/ Removing(p)' => ActionSemaphore' = p
                            /\ ~ (Adding(p)' /\ Removing(p)')
    BY DEF OneAtATime, Adding, Removing
  <1>2. \A m : m \in Attaching!Mapped' <=> m \in Mapping /\ \E k \in Attaching!Slot : index'[k] = m
    BY DEF Attaching!Mapped, Attaching!SlotsOf
  <1>3. None \notin Managers
    BY AttachingFacts
  <1>4. ActionSemaphore' = None => Counted' = Attaching!Mapped'
    BY <1>1, <1>2, <1>3 DEF Counted
  <1>5. ASSUME NEW p \in Managers, Adding(p)' PROVE Counted' = Attaching!Mapped' \ {InHand(p)'}
    BY <1>1, <1>2, <1>5 DEF Counted
  <1>6. ASSUME NEW p \in Managers, Removing(p)', InHand(p)' \in Mapping PROVE Counted' = Attaching!Mapped' \cup {InHand(p)'}
    BY <1>1, <1>2, <1>6 DEF Counted
  <1> QED BY <1>1, <1>3, <1>4, <1>5, <1>6 DEF CountedAt

LEMMA MappedNext ==
  ASSUME NEW m
  PROVE  m \in Attaching!Mapped' <=> m \in Mapping /\ \E k \in Attaching!Slot : index'[k] = m
  BY DEF Attaching!Mapped, Attaching!SlotsOf

--------------------------------------------------------------------------------
(* The steps of createLocalVc() *)
LEMMA CreateBeginKeepsChannel ==
  ASSUME ChannelInv, NEW p \in Managers, NEW m \in Mapping, Attaching!CreateBegin(p, m)
  PROVE  /\ ChannelInv' /\ Counted' = Counted /\ \A k \in Attaching!Slot : CountedAt(k)' = CountedAt(k)
         /\ Adding(p)' /\ doing'[p] = "attach" /\ InHand(p)' = m /\ m \notin Attaching!Mapped
  <1> USE AttachingFacts DEF ChannelInv
  <1>1. PICK j : j = Attaching!FirstFree
    OBVIOUS
  <1>2. j \in Attaching!Slot /\ index[j] = None
    BY <1>1, SlotIs DEF Attaching!CreateBegin, Attaching!FirstFree
  <1>3. /\ doing[p] = "idle" /\ doing' = [doing EXCEPT ![p] = "attach"]
        /\ ActionSemaphore = None /\ ActionSemaphore' = p
        /\ NumberOfConnectedVCs /= MaxAttached /\ NumberOfBuffers + Buffers[m] <= MaxBuffers
        /\ IsReading[m] \/ SenderVcIndex = None
        /\ \A k \in Attaching!Slot : index[k] /= m
        /\ slot' = [slot EXCEPT ![p] = j]
        /\ object' = [object EXCEPT ![p][j] = TRUE]
        /\ index' = [index EXCEPT ![j] = m] /\ desc' = [desc EXCEPT ![j] = m] /\ waiting' = [waiting EXCEPT ![j] = 0]
        /\ UNCHANGED <<NumberOfConnectedVCs, NumberOfBuffers, SenderVcIndex, attached, command, answer>>
    BY <1>1 DEF Attaching!CreateBegin, Attaching!Goto, Attaching!SlotsOf, Attaching!statusVars, Attaching!commandVars
  <1>4. AttachingType'
    BY <1>2, <1>3 DEF AttachingType
  <1>5. \A q \in Managers : doing[q] = "idle" /\ (q /= p => doing'[q] = "idle")
    BY <1>3 DEF OneAtATime, AttachingType
  <1>6. doing'[p] = "attach" /\ slot'[p] = j /\ desc'[j] = m /\ index'[j] = m
    BY <1>2, <1>3 DEF AttachingType
  <1>7. /\ Adding(p)' /\ InHand(p)' = m
        /\ \A q \in Managers : ~Removing(q)' /\ (Adding(q)' => q = p)
    BY <1>5, <1>6 DEF Adding, Removing, InHand
  <1>8. OneAtATime'
    BY <1>3, <1>5, <1>6 DEF OneAtATime
  <1>9. \A k \in Attaching!Slot : k /= j => index'[k] = index[k] /\ desc'[k] = desc[k]
    BY <1>3 DEF AttachingType
  <1>10. TableIsExact'
    <2>1. \A q \in Attaching!Process, k \in Attaching!Slot : object'[q][k] => object[q][k] \/ k = j
      BY <1>2, <1>3 DEF AttachingType
    <2> QED BY <1>2, <1>3, <1>6, <1>9, <2>1 DEF TableIsExact
  <1>11. AddingFits' /\ RemovingFits'
    BY <1>3, <1>6, <1>7 DEF AddingFits, RemovingFits, AttachingType
  <1>12. m \notin Attaching!Mapped /\ Counted = Attaching!Mapped
         /\ \A k \in Attaching!Slot : CountedAt(k) <=> index[k] /= None
    BY <1>3, CountedIs, MappedIs
  <1>13. Counted' = Attaching!Mapped' \ {m} /\ \A k \in Attaching!Slot : CountedAt(k)' <=> index'[k] /= None /\ k /= j
    BY <1>6, <1>7, <1>8, CountedNext
  <1>14. Counted' = Counted
    <2>1. \A n : n \in Attaching!Mapped' <=> n \in Attaching!Mapped \/ n = m
      BY <1>2, <1>6, <1>9, MappedIs, MappedNext
    <2> QED BY <1>12, <1>13, <2>1
  <1>15. \A k \in Attaching!Slot : CountedAt(k)' = CountedAt(k)
    BY <1>2, <1>9, <1>12, <1>13 DEF CountedAt
  <1>16. CountersSuffice'
    BY <1>3, <1>14, BuffersAre DEF CountersSuffice, Attaching!BuffersOf, Attaching!PromisedTo
  <1>17. SenderIsKnown'
    BY <1>2, <1>3, <1>9, <1>12, <1>15 DEF SenderIsKnown
  <1> QED BY <1>4, <1>6, <1>7, <1>8, <1>10, <1>11, <1>12, <1>14, <1>15, <1>16, <1>17

LEMMA LookedIs ==
  ASSUME AttachingType, NEW p \in Attaching!Process, NEW ks
  PROVE  /\ Attaching!Looked(p, ks) \in [Attaching!Process -> [Attaching!Slot -> BOOLEAN]]
         /\ \A q \in Attaching!Process, k \in Attaching!Slot :
              Attaching!Looked(p, ks)[q][k] <=> object[q][k] \/ (q = p /\ k \in ks /\ index[k] /= None)
  BY DEF AttachingType, Attaching!Looked

LEMMA CreateRefusedKeepsChannel ==
  ASSUME ChannelInv, NEW p \in Managers, NEW m \in Mapping, Attaching!CreateRefused(p, m)
  PROVE  ChannelInv' /\ QuietStep
  <1> USE AttachingFacts DEF ChannelInv
  <1>1. PICK ks : object' = Attaching!Looked(p, ks)
    BY DEF Attaching!CreateRefused
  <1>2. UNCHANGED <<commandLost, index, desc, waiting, NumberOfConnectedVCs, NumberOfBuffers, SenderVcIndex,
                    ActionSemaphore, attached, command, answer, doing, slot>>
    BY DEF Attaching!CreateRefused, Attaching!tableVars, Attaching!statusVars, Attaching!commandVars
  <1>3. /\ object' \in [Attaching!Process -> [Attaching!Slot -> BOOLEAN]]
        /\ \A q \in Attaching!Process, k \in Attaching!Slot :
             object'[q][k] <=> object[q][k] \/ (q = p /\ k \in ks /\ index[k] /= None)
    BY <1>1, LookedIs
  <1>4. AttachingType'
    BY <1>2, <1>3 DEF AttachingType
  <1>5. QuietStep
    BY <1>2, <1>3 DEF QuietStep, Adding, Removing
  <1> QED BY <1>4, <1>5, QuietKeepsChannel

LEMMA AttachSendKeepsChannel ==
  ASSUME ChannelInv, NEW p \in Managers, Attaching!AttachSend(p)
  PROVE  ChannelInv' /\ QuietStep
  <1> USE AttachingFacts DEF ChannelInv
  <1>1. /\ doing[p] = "attach" /\ doing' = [doing EXCEPT ![p] = "attaching"]
        /\ command' = [command EXCEPT ![Pid[InHand(p)]] = [op |-> "attach", mapping |-> InHand(p), caller |-> p]]
        /\ answer' = [answer EXCEPT ![p] = None]
        /\ UNCHANGED <<commandLost, index, desc, waiting, NumberOfConnectedVCs, NumberOfBuffers, SenderVcIndex,
                       ActionSemaphore, object, attached, slot>>
    BY DEF Attaching!AttachSend, Attaching!Goto, InHand, Attaching!tableVars, Attaching!statusVars
  <1>2. InHand(p) \in Mapping
    BY <1>1 DEF AddingFits, Adding
  <1>3. AttachingType'
    BY <1>1, <1>2 DEF AttachingType, Attaching!LocalVcCommand
  <1>4. QuietStep
    BY <1>1 DEF QuietStep, Adding, Removing, AttachingType
  <1> QED BY <1>3, <1>4, QuietKeepsChannel

LEMMA DetachSendKeepsChannel ==
  ASSUME ChannelInv, NEW p \in Managers, Attaching!DetachSend(p)
  PROVE  ChannelInv' /\ QuietStep
  <1> USE AttachingFacts DEF ChannelInv
  <1>1. /\ doing[p] = "detach" /\ doing' = [doing EXCEPT ![p] = "detaching"]
        /\ command' = [command EXCEPT ![Pid[InHand(p)]] = [op |-> "detach", mapping |-> InHand(p), caller |-> p]]
        /\ answer' = [answer EXCEPT ![p] = None]
        /\ UNCHANGED <<commandLost, index, desc, waiting, NumberOfConnectedVCs, NumberOfBuffers, SenderVcIndex,
                       ActionSemaphore, object, attached, slot>>
    BY DEF Attaching!DetachSend, Attaching!Goto, InHand, Attaching!tableVars, Attaching!statusVars
  <1>2. InHand(p) \in Mapping
    BY <1>1 DEF RemovingFits, Removing
  <1>3. AttachingType'
    BY <1>1, <1>2 DEF AttachingType, Attaching!LocalVcCommand
  <1>4. QuietStep
    BY <1>1 DEF QuietStep, Adding, Removing, AttachingType
  <1> QED BY <1>3, <1>4, QuietKeepsChannel

(* The handlers of the applications *)
LEMMA ReplyIs ==
  ASSUME AttachingType, NEW c \in Attaching!LocalVcCommand, NEW r \in {"ok", "error"}, Attaching!Reply(c, r)
  PROVE  /\ answer' \in [Managers -> {None, "ok", "error"}]
         /\ \A q \in Managers : answer'[q] = IF q = c.caller /\ doing[q] \in {"attaching", "detaching"} THEN r ELSE answer[q]
  <1>1. c.caller \in Managers
    BY DEF Attaching!LocalVcCommand
  <1> QED BY <1>1 DEF Attaching!Reply, AttachingType

LEMMA AttachHandlerKeepsChannel ==
  ASSUME ChannelInv, NEW a \in Apps, Attaching!AttachHandler(a)
  PROVE  ChannelInv' /\ QuietStep
  <1> USE AttachingFacts DEF ChannelInv
  <1>1. PICK c \in Attaching!LocalVcCommand : c = command[a]
    BY DEF Attaching!AttachHandler, AttachingType
  <1>2. PICK found \in BOOLEAN : found = (Attaching!SlotsOf(c.mapping) /= {} /\ c.mapping \notin attached[a])
    OBVIOUS
  <1>3. /\ attached' = [attached EXCEPT ![a] = IF found THEN @ \cup {c.mapping} ELSE @]
        /\ object' = IF found THEN Attaching!Looked(a, Attaching!SlotsOf(c.mapping)) ELSE object
        /\ command' = [command EXCEPT ![a] = None]
        /\ Attaching!Reply(c, IF found THEN "ok" ELSE "error")
        /\ UNCHANGED <<commandLost, index, desc, waiting, NumberOfConnectedVCs, NumberOfBuffers, SenderVcIndex,
                       ActionSemaphore, doing, slot>>
    BY <1>1, <1>2 DEF Attaching!AttachHandler, Attaching!tableVars, Attaching!statusVars
  <1>4. answer' \in [Managers -> {None, "ok", "error"}]
    BY <1>3, ReplyIs
  <1>5. /\ object' \in [Attaching!Process -> [Attaching!Slot -> BOOLEAN]]
        /\ \A q \in Attaching!Process, k \in Attaching!Slot : object'[q][k] => object[q][k] \/ index[k] /= None
    BY <1>3, LookedIs DEF AttachingType
  <1>6. c.mapping \in Mapping
    BY DEF Attaching!LocalVcCommand
  <1>7. attached' \in [Apps -> SUBSET Mapping] /\ command' \in [Apps -> Attaching!LocalVcCommand \cup {None}]
    BY <1>3, <1>6 DEF AttachingType
  <1>8. AttachingType'
    BY <1>3, <1>4, <1>5, <1>7 DEF AttachingType
  <1>9. QuietStep
    BY <1>3, <1>5 DEF QuietStep, Adding, Removing
  <1> QED BY <1>8, <1>9, QuietKeepsChannel

LEMMA DetachHandlerKeepsChannel ==
  ASSUME ChannelInv, NEW a \in Apps, Attaching!DetachHandler(a)
  PROVE  ChannelInv' /\ QuietStep
  <1> USE AttachingFacts DEF ChannelInv
  <1>1. PICK c \in Attaching!LocalVcCommand : c = command[a]
    BY DEF Attaching!DetachHandler, AttachingType
  <1>3. /\ attached' = [attached EXCEPT ![a] = @ \ {c.mapping}]
        /\ command' = [command EXCEPT ![a] = None]
        /\ Attaching!Reply(c, IF c.mapping \in attached[a] THEN "ok" ELSE "error")
        /\ UNCHANGED <<commandLost, index, desc, waiting, NumberOfConnectedVCs, NumberOfBuffers, SenderVcIndex,
                       ActionSemaphore, object, doing, slot>>
    BY <1>1 DEF Attaching!DetachHandler, Attaching!tableVars, Attaching!statusVars
  <1>4. answer' \in [Managers -> {None, "ok", "error"}]
    BY <1>3, ReplyIs
  <1>7. attached' \in [Apps -> SUBSET Mapping] /\ command' \in [Apps -> Attaching!LocalVcCommand \cup {None}]
    BY <1>3 DEF AttachingType
  <1>8. AttachingType'
    BY <1>3, <1>4, <1>7 DEF AttachingType
  <1>9. QuietStep
    BY <1>3 DEF QuietStep, Adding, Removing
  <1> QED BY <1>8, <1>9, QuietKeepsChannel

(* Messages that are sent and received, and processes that end *)
LEMMA MessagesKeepChannel ==
  ASSUME ChannelInv, NEW a \in Apps, Attaching!sendBuffer(a) \/ Attaching!receiveBuffer(a)
  PROVE  ChannelInv' /\ QuietStep
  <1> USE AttachingFacts DEF ChannelInv
  <1>1. PICK ks : object' = Attaching!Looked(a, ks)
    BY DEF Attaching!sendBuffer, Attaching!receiveBuffer
  <1>2. UNCHANGED <<commandLost, index, desc, NumberOfConnectedVCs, NumberOfBuffers, SenderVcIndex,
                    ActionSemaphore, attached, command, answer, doing, slot>>
    BY DEF Attaching!sendBuffer, Attaching!receiveBuffer, Attaching!statusVars, Attaching!commandVars
  <1>3. /\ object' \in [Attaching!Process -> [Attaching!Slot -> BOOLEAN]]
        /\ \A q \in Attaching!Process, k \in Attaching!Slot : object'[q][k] => object[q][k] \/ index[k] /= None
    BY <1>1, LookedIs
  <1>4. /\ waiting' \in [Attaching!Slot -> Nat]
        /\ \A k \in Attaching!Slot : desc[k] = None => waiting'[k] = 0
    <2>1. CASE Attaching!sendBuffer(a)
      <3>1. waiting' = [k \in Attaching!Slot |-> waiting[k] + IF k \in Attaching!Receiving(a) THEN 1 ELSE 0]
        BY <2>1 DEF Attaching!sendBuffer
      <3>2. \A k \in Attaching!Slot : k \in Attaching!Receiving(a) => object[a][k] \/ index[k] /= None
        BY LookedIs DEF Attaching!Receiving
      <3>3. \A k \in Attaching!Slot : k \in Attaching!Receiving(a) => desc[k] /= None
        BY <3>2 DEF TableIsExact
      <3> HIDE DEF ChannelInv
      <3>4. \A k \in Attaching!Slot : waiting[k] \in Nat /\ (desc[k] = None => waiting[k] = 0)
        BY DEF ChannelInv, AttachingType
      <3> QED BY <3>1, <3>3, <3>4
    <2>2. CASE Attaching!receiveBuffer(a)
      <3>1. PICK k \in Attaching!Slot : waiting[k] > 0 /\ waiting' = [waiting EXCEPT ![k] = @ - 1]
        BY <2>2 DEF Attaching!receiveBuffer
      <3>2. \A j \in Attaching!Slot : waiting[j] \in Nat /\ (desc[j] = None => waiting[j] = 0)
        BY DEF AttachingType
      <3>3. \A j \in Attaching!Slot : waiting'[j] = (IF j = k THEN waiting[j] - 1 ELSE waiting[j]) /\ DOMAIN waiting' = Attaching!Slot
        BY <3>1 DEF AttachingType
      <3>4. waiting' \in [Attaching!Slot -> Nat]
        <4>1. waiting[k] - 1 \in Nat
          BY <3>1, <3>2
        <4>2. waiting \in [Attaching!Slot -> Nat]
          BY DEF AttachingType
        <4> HIDE DEF ChannelInv
        <4> QED BY <3>1, <4>1, <4>2
      <3> QED BY <3>1, <3>2, <3>3, <3>4
    <2> QED BY <2>1, <2>2
  <1>5. AttachingType'
    BY <1>2, <1>3, <1>4 DEF AttachingType
  <1>6. QuietStep
    BY <1>2, <1>3 DEF QuietStep, Adding, Removing
  <1> QED BY <1>5, <1>6, QuietKeepsChannel

LEMMA ClosingKeepsChannel ==
  ASSUME ChannelInv, NEW a \in Apps, Attaching!Close(a) \/ Attaching!Closed(a)
  PROVE  ChannelInv' /\ QuietStep
  <1> USE AttachingFacts DEF ChannelInv
  <1>1. PICK to \in {"closing", "closed"} : doing' = [doing EXCEPT ![a] = to]
    BY DEF Attaching!Close, Attaching!Closed, Attaching!Goto
  <1>2. UNCHANGED <<commandLost, index, desc, waiting, NumberOfConnectedVCs, NumberOfBuffers, SenderVcIndex,
                    ActionSemaphore, object, attached, command, answer, slot>>
    BY DEF Attaching!Close, Attaching!Closed, Attaching!tableVars, Attaching!statusVars, Attaching!commandVars
  <1>3. \A p \in Managers : doing'[p] = doing[p]
    BY <1>1 DEF AttachingType
  <1>4. doing' \in [Attaching!Process -> {"idle", "attach", "attaching", "detach", "detaching", "closing", "closed"}]
    BY <1>1 DEF AttachingType
  <1>5. AttachingType'
    BY <1>2, <1>3, <1>4 DEF AttachingType
  <1>6. QuietStep
    BY <1>2, <1>3 DEF QuietStep, Adding, Removing
  <1> QED BY <1>5, <1>6, QuietKeepsChannel

LEMMA StutterKeepsChannel ==
  ASSUME ChannelInv, UNCHANGED Attaching!vars
  PROVE  ChannelInv' /\ QuietStep
  <1> USE DEF ChannelInv
  <1>1. UNCHANGED attachingVars
    BY DEF Attaching!vars, Attaching!tableVars, Attaching!statusVars, Attaching!commandVars, attachingVars
  <1>2. AttachingType'
    BY <1>1 DEF AttachingType, attachingVars
  <1>3. QuietStep
    BY <1>1 DEF QuietStep, Adding, Removing, attachingVars
  <1> QED BY <1>2, <1>3, QuietKeepsChannel

(* The steps that end a call *)
LEMMA CallEnds ==
  ASSUME ChannelInv, NEW p \in Managers, doing[p] /= "idle", doing' = [doing EXCEPT ![p] = "idle"], ActionSemaphore' = None
  PROVE  /\ OneAtATime' /\ AddingFits' /\ RemovingFits'
         /\ Counted' = Attaching!Mapped' /\ \A k \in Attaching!Slot : CountedAt(k)' <=> index'[k] /= None
         /\ \A q \in Managers : doing'[q] = "idle" /\ ~Adding(q)' /\ ~Removing(q)'
  <1> USE AttachingFacts
  <1>1. \A q \in Managers : doing'[q] = "idle"
    BY DEF ChannelInv, OneAtATime, AttachingType
  <1>2. \A q \in Managers : ~Adding(q)' /\ ~Removing(q)'
    BY <1>1 DEF Adding, Removing
  <1>3. OneAtATime'
    BY <1>1 DEF OneAtATime
  <1>4. AddingFits' /\ RemovingFits'
    BY <1>2 DEF AddingFits, RemovingFits
  <1>5. Counted' = Attaching!Mapped' /\ \A k \in Attaching!Slot : CountedAt(k)' <=> index'[k] /= None
    BY <1>3, CountedNext
  <1> QED BY <1>1, <1>2, <1>3, <1>4, <1>5

LEMMA CommandTimeoutIs ==
  ASSUME NEW p \in Managers, NEW before, NEW after, Attaching!CommandTimeout(p, before, after)
  PROVE  doing[p] \in {before, after} /\ doing' = [doing EXCEPT ![p] = "idle"] /\ commandLost' = TRUE
  BY DEF Attaching!CommandTimeout, Attaching!Goto

LEMMA CreateCommitKeepsChannel ==
  ASSUME ChannelInv, NEW p \in Managers, Attaching!CreateCommit(p)
  PROVE  /\ ChannelInv'
         /\ InHand(p) \in Mapping \ Counted /\ Counted' = Counted \cup {InHand(p)}
         /\ NumberOfConnectedVCs' = NumberOfConnectedVCs + 1
         /\ NumberOfBuffers' = NumberOfBuffers + Buffers[InHand(p)]
         /\ Attaching!BuffersOf(Counted') = Attaching!BuffersOf(Counted) + Buffers[InHand(p)]
         /\ Cardinality(Counted') = Cardinality(Counted) + 1
         /\ \A k \in Attaching!Slot : CountedAt(k)' <=> CountedAt(k) \/ k = slot[p]
  <1> USE AttachingFacts DEF ChannelInv
  <1>1. PICK m : m = InHand(p)
    OBVIOUS
  <1>2. PICK j : j = slot[p]
    OBVIOUS
  <1>3. /\ doing[p] = "attaching" /\ doing' = [doing EXCEPT ![p] = "idle"]
        /\ SenderVcIndex' = IF IsReading[m] THEN SenderVcIndex ELSE j
        /\ NumberOfConnectedVCs' = NumberOfConnectedVCs + 1
        /\ NumberOfBuffers' = NumberOfBuffers + Buffers[m]
        /\ ActionSemaphore' = None
        /\ UNCHANGED <<commandLost, index, desc, waiting, object, attached, command, answer, slot>>
    BY <1>1, <1>2 DEF Attaching!CreateCommit, Attaching!Goto, InHand, Attaching!tableVars, Attaching!commandVars
  <1>4. /\ j \in Attaching!Slot /\ m \in Mapping /\ index[j] = m /\ desc[j] = m
        /\ NumberOfConnectedVCs < MaxAttached /\ NumberOfBuffers + Buffers[m] <= MaxBuffers
        /\ IsReading[m] \/ SenderVcIndex = None
    BY <1>1, <1>2, <1>3 DEF AddingFits, Adding, AttachingType, InHand
  <1>5. /\ NumberOfConnectedVCs' \in 0 .. MaxAttached /\ NumberOfBuffers' \in 0 .. MaxBuffers
    <2>1. NumberOfConnectedVCs \in 0 .. MaxAttached /\ NumberOfBuffers \in 0 .. MaxBuffers /\ Buffers[m] \in Nat
      BY <1>4 DEF AttachingType
    <2> QED BY <1>3, <1>4, <2>1
  <1>6. SenderVcIndex' \in Attaching!Slot \cup {None}
    BY <1>3, <1>4 DEF AttachingType
  <1>7. doing' \in [Attaching!Process -> {"idle", "attach", "attaching", "detach", "detaching", "closing", "closed"}]
        /\ \A q \in Managers : doing'[q] \notin {"closing", "closed"}
    BY <1>3 DEF AttachingType
  <1>8. AttachingType'
    BY <1>3, <1>5, <1>6, <1>7 DEF AttachingType
  <1>9. /\ OneAtATime' /\ AddingFits' /\ RemovingFits'
        /\ Counted' = Attaching!Mapped' /\ \A k \in Attaching!Slot : CountedAt(k)' <=> index'[k] /= None
    BY <1>3, CallEnds
  <1>10. Counted = Attaching!Mapped \ {m} /\ \A k \in Attaching!Slot : CountedAt(k) <=> index[k] /= None /\ k /= j
    BY <1>1, <1>2, <1>3, CountedIs DEF Adding
  <1>11. m \in Attaching!Mapped /\ Attaching!Mapped' = Attaching!Mapped
    <2>1. \A n : n \in Attaching!Mapped' <=> n \in Attaching!Mapped
      BY <1>3, MappedIs, MappedNext
    <2> QED BY <1>4, <2>1, MappedIs
  <1>12. m \in Mapping \ Counted /\ Counted' = Counted \cup {m}
    BY <1>4, <1>9, <1>10, <1>11
  <1>13. \A k \in Attaching!Slot : CountedAt(k)' <=> CountedAt(k) \/ k = j
    BY <1>3, <1>4, <1>9, <1>10
  <1>14. TableIsExact'
    BY <1>3 DEF TableIsExact
  <1>15. /\ IsFiniteSet(Counted') /\ Cardinality(Counted') = Cardinality(Counted) + 1
         /\ IsFiniteSet(Attaching!PromisedTo(Counted'))
         /\ Attaching!BuffersOf(Counted') = Attaching!BuffersOf(Counted) + Buffers[m]
         /\ Cardinality(Counted) \in Nat /\ Attaching!BuffersOf(Counted) \in Nat
    <2>1. Counted \in SUBSET Mapping /\ IsFiniteSet(Counted) /\ IsFiniteSet(Attaching!PromisedTo(Counted))
      BY DEF Counted, CountersSuffice
    <2>2. PICK cs : cs = Counted
      OBVIOUS
    <2>3. /\ IsFiniteSet(cs \cup {m}) /\ Cardinality(cs \cup {m}) = Cardinality(cs) + 1
          /\ IsFiniteSet(Attaching!PromisedTo(cs \cup {m}))
          /\ Attaching!BuffersOf(cs \cup {m}) = Attaching!BuffersOf(cs) + Buffers[m]
          /\ Cardinality(cs) \in Nat /\ Attaching!BuffersOf(cs) \in Nat
      BY <1>12, <2>1, <2>2, OneMore
    <2> QED BY <1>12, <2>2, <2>3
  <1>16. CountersSuffice'
    <2>1. Cardinality(Counted) <= NumberOfConnectedVCs /\ Attaching!BuffersOf(Counted) <= NumberOfBuffers
      BY DEF CountersSuffice
    <2>2. NumberOfConnectedVCs \in Nat /\ NumberOfBuffers \in Nat /\ Buffers[m] \in Nat
      BY <1>4 DEF AttachingType
    <2>3. Cardinality(Counted') <= NumberOfConnectedVCs' /\ Attaching!BuffersOf(Counted') <= NumberOfBuffers'
      BY <1>3, <1>15, <2>1, <2>2
    <2> QED BY <1>15, <2>3 DEF CountersSuffice, Attaching!BuffersOf, Attaching!PromisedTo
  <1>17. SenderIsKnown'
    BY <1>3, <1>4, <1>13 DEF SenderIsKnown
  <1> QED BY <1>1, <1>2, <1>3, <1>8, <1>9, <1>12, <1>13, <1>14, <1>15, <1>16, <1>17

(* The slot that is given up again *)
LEMMA RollbackKeepsChannel ==
  ASSUME ChannelInv, NEW p \in Managers, Adding(p), doing' = [doing EXCEPT ![p] = "idle"], Attaching!Rollback(p)
  PROVE  /\ ChannelInv' /\ Counted' = Counted
         /\ \A k \in Attaching!Slot : CountedAt(k)' = CountedAt(k)
  <1> USE AttachingFacts DEF ChannelInv
  <1>1. PICK m : m = InHand(p)
    OBVIOUS
  <1>2. PICK j : j = slot[p]
    OBVIOUS
  <1>3. /\ object' = [object EXCEPT ![p][j] = FALSE] /\ waiting' = [waiting EXCEPT ![j] = 0]
        /\ index' = [index EXCEPT ![j] = None] /\ ActionSemaphore' = None
        /\ UNCHANGED <<desc, NumberOfConnectedVCs, NumberOfBuffers, SenderVcIndex, attached, command, answer, slot>>
    BY <1>2 DEF Attaching!Rollback, Attaching!statusVars, Attaching!commandVars
  <1>4. j \in Attaching!Slot /\ m \in Mapping /\ index[j] = m
    BY <1>1, <1>2 DEF AddingFits, AttachingType
  <1>5. index' \in [Attaching!Slot -> Mapping \cup {None}] /\ waiting' \in [Attaching!Slot -> Nat]
        /\ object' \in [Attaching!Process -> [Attaching!Slot -> BOOLEAN]]
        /\ doing' \in [Attaching!Process -> {"idle", "attach", "attaching", "detach", "detaching", "closing", "closed"}]
    BY <1>3 DEF AttachingType
  <1>6. /\ \A k \in Attaching!Slot : index'[k] = IF k = j THEN None ELSE index[k]
        /\ \A k \in Attaching!Slot : waiting'[k] = IF k = j THEN 0 ELSE waiting[k]
        /\ \A q \in Attaching!Process, k \in Attaching!Slot : object'[q][k] => object[q][k]
        /\ \A q \in Managers : doing'[q] \notin {"closing", "closed"}
    BY <1>3 DEF AttachingType
  <1>7. AttachingType'
    BY <1>3, <1>5, <1>6 DEF AttachingType
  <1>8. /\ OneAtATime' /\ AddingFits' /\ RemovingFits'
        /\ Counted' = Attaching!Mapped' /\ \A k \in Attaching!Slot : CountedAt(k)' <=> index'[k] /= None
    BY <1>3, CallEnds DEF Adding
  <1>9. Counted = Attaching!Mapped \ {m} /\ \A k \in Attaching!Slot : CountedAt(k) <=> index[k] /= None /\ k /= j
    BY <1>1, <1>2, CountedIs
  <1>10. TableIsExact'
    BY <1>3, <1>6 DEF TableIsExact
  <1>11. Counted' = Counted
    <2>1. \A n : n \in Attaching!Mapped' <=> n \in Attaching!Mapped /\ n /= m
      <3>1. \A k \in Attaching!Slot : index[k] = m => k = j
        BY <1>4 DEF TableIsExact
      <3> QED BY <1>4, <1>6, <3>1, MappedIs, MappedNext
    <2> QED BY <1>8, <1>9, <2>1
  <1>12. \A k \in Attaching!Slot : CountedAt(k)' = CountedAt(k)
    BY <1>6, <1>8, <1>9 DEF CountedAt
  <1>13. CountersSuffice'
    BY <1>3, <1>11 DEF CountersSuffice, Attaching!BuffersOf, Attaching!PromisedTo
  <1>14. SenderIsKnown'
    BY <1>3, <1>12 DEF SenderIsKnown
  <1> QED BY <1>7, <1>8, <1>10, <1>11, <1>12, <1>13, <1>14

--------------------------------------------------------------------------------
(* The steps of removeLocalVc() *)
LEMMA RemoveBeginKeepsChannel ==
  ASSUME ChannelInv, NEW p \in Managers, NEW i \in Attaching!Slot, Attaching!RemoveBegin(p, i)
  PROVE  /\ ChannelInv' /\ Counted' = Counted
         /\ \A k \in Attaching!Slot : CountedAt(k)' = CountedAt(k)
         /\ Removing(p)' /\ doing'[p] = "detach" /\ InHand(p)' = desc[i] /\ desc[i] \in Attaching!Mapped
         /\ ActionSemaphore = None
  <1> USE AttachingFacts DEF ChannelInv
  <1>1. PICK m : m = desc[i]
    OBVIOUS
  <1>2. PICK j : j = Attaching!Min(Attaching!SlotsOf(m))
    OBVIOUS
  <1>3. /\ doing[p] = "idle" /\ doing' = [doing EXCEPT ![p] = "detach"]
        /\ ActionSemaphore = None /\ ActionSemaphore' = p /\ object[p][i]
        /\ slot' = [slot EXCEPT ![p] = j]
        /\ index' = [index EXCEPT ![slot'[p]] = None]
        /\ UNCHANGED <<commandLost, desc, waiting, NumberOfConnectedVCs, NumberOfBuffers, SenderVcIndex,
                       object, attached, command, answer>>
    BY <1>1, <1>2 DEF Attaching!RemoveBegin, Attaching!Goto, Attaching!statusVars, Attaching!commandVars
  <1>4. j \in Attaching!Slot /\ index[j] = m
    BY <1>1, <1>2, SlotIs DEF Attaching!RemoveBegin
  <1>5. m \in Mapping /\ desc[j] = m
    BY <1>1, <1>3, <1>4 DEF TableIsExact, AttachingType
  <1>6. slot'[p] = j /\ index' = [index EXCEPT ![j] = None] /\ doing'[p] = "detach"
    BY <1>3 DEF AttachingType
  <1>7. /\ index' \in [Attaching!Slot -> Mapping \cup {None}] /\ slot' \in [Attaching!Process -> Attaching!Slot]
        /\ doing' \in [Attaching!Process -> {"idle", "attach", "attaching", "detach", "detaching", "closing", "closed"}]
    BY <1>3, <1>4, <1>6 DEF AttachingType
  <1>8. \A q \in Managers : doing'[q] \notin {"closing", "closed"}
    BY <1>3 DEF AttachingType
  <1>9. AttachingType'
    BY <1>3, <1>7, <1>8 DEF AttachingType
  <1>10. \A q \in Managers : doing[q] = "idle" /\ (q /= p => doing'[q] = "idle")
    BY <1>3 DEF OneAtATime, AttachingType
  <1>11. OneAtATime'
    BY <1>3, <1>6, <1>10 DEF OneAtATime
  <1>12. /\ Removing(p)' /\ InHand(p)' = m
         /\ \A q \in Managers : ~Adding(q)' /\ (Removing(q)' => q = p)
    BY <1>3, <1>5, <1>6, <1>10 DEF Adding, Removing, InHand
  <1>13. \A k \in Attaching!Slot : index'[k] = IF k = j THEN None ELSE index[k]
    BY <1>6 DEF AttachingType
  <1>14. TableIsExact'
    <2>1. TableIsExact /\ desc' = desc /\ object' = object
      BY <1>3
    <2> HIDE DEF ChannelInv
    <2>2. \A k \in Attaching!Slot : index'[k] /= None => index'[k] = index[k]
      BY <1>13
    <2> QED BY <2>1, <2>2 DEF TableIsExact
  <1>15. \A k \in Attaching!Slot : index[k] = m => k = j
    BY <1>4, <1>5 DEF TableIsExact
  <1>16. AddingFits' /\ RemovingFits'
    BY <1>5, <1>12, <1>13, <1>15 DEF AddingFits, RemovingFits
  <1>17. Counted = Attaching!Mapped /\ \A k \in Attaching!Slot : CountedAt(k) <=> index[k] /= None
    BY <1>3, CountedIs
  <1>18. Counted' = Attaching!Mapped' \cup {m} /\ \A k \in Attaching!Slot : CountedAt(k)' <=> index'[k] /= None \/ k = j
    BY <1>5, <1>6, <1>11, <1>12, CountedNext
  <1>19. m \in Attaching!Mapped
    BY <1>4, <1>5, MappedIs
  <1>20. Counted' = Counted
    <2>1. \A n : n \in Attaching!Mapped' <=> n \in Attaching!Mapped /\ n /= m
      BY <1>4, <1>13, <1>15, MappedIs, MappedNext
    <2> QED BY <1>17, <1>18, <1>19, <2>1
  <1>21. \A k \in Attaching!Slot : CountedAt(k)' = CountedAt(k)
    BY <1>4, <1>5, <1>13, <1>17, <1>18 DEF CountedAt
  <1>22. CountersSuffice'
    BY <1>3, <1>20 DEF CountersSuffice, Attaching!BuffersOf, Attaching!PromisedTo
  <1>23. SenderIsKnown'
    BY <1>3, <1>21 DEF SenderIsKnown
  <1> QED BY <1>1, <1>3, <1>6, <1>9, <1>11, <1>12, <1>14, <1>16, <1>19, <1>20, <1>21, <1>22, <1>23

(* What is counted when the local vc in hand is no longer *)
LEMMA OneLessCounted ==
  ASSUME ChannelInv, NEW m \in Counted
  PROVE  /\ IsFiniteSet(Counted \ {m}) /\ Cardinality(Counted) = Cardinality(Counted \ {m}) + 1
         /\ IsFiniteSet(Attaching!PromisedTo(Counted \ {m}))
         /\ Attaching!BuffersOf(Counted) = Attaching!BuffersOf(Counted \ {m}) + Buffers[m]
         /\ Cardinality(Counted \ {m}) \in Nat /\ Attaching!BuffersOf(Counted \ {m}) \in Nat
         /\ Cardinality(Counted) <= NumberOfConnectedVCs /\ Attaching!BuffersOf(Counted) <= NumberOfBuffers
         /\ Buffers[m] \in Nat /\ NumberOfConnectedVCs \in 0 .. MaxAttached /\ NumberOfBuffers \in 0 .. MaxBuffers
  <1>1. /\ Counted \in SUBSET Mapping /\ IsFiniteSet(Counted) /\ IsFiniteSet(Attaching!PromisedTo(Counted))
        /\ Cardinality(Counted) <= NumberOfConnectedVCs /\ Attaching!BuffersOf(Counted) <= NumberOfBuffers
    BY DEF Counted, ChannelInv, CountersSuffice
  <1>2. Buffers[m] \in Nat /\ NumberOfConnectedVCs \in 0 .. MaxAttached /\ NumberOfBuffers \in 0 .. MaxBuffers
    BY <1>1, AttachingFacts DEF ChannelInv, AttachingType
  <1> QED BY <1>1, <1>2, OneLess

LEMMA RemoveGivesBack ==
  ASSUME ChannelInv, NEW m \in Counted, Counted' = Counted \ {m},
         \/ UNCHANGED <<NumberOfConnectedVCs, NumberOfBuffers>>
         \/ /\ NumberOfConnectedVCs' = NumberOfConnectedVCs - 1
            /\ NumberOfBuffers' = NumberOfBuffers - Buffers[m]
  PROVE  /\ CountersSuffice'
         /\ NumberOfConnectedVCs' \in 0 .. MaxAttached /\ NumberOfBuffers' \in 0 .. MaxBuffers
         /\ Cardinality(Counted') = Cardinality(Counted) - 1
         /\ Attaching!BuffersOf(Counted') = Attaching!BuffersOf(Counted) - Buffers[m]
  <1>1. /\ IsFiniteSet(Counted') /\ Cardinality(Counted) = Cardinality(Counted') + 1
        /\ IsFiniteSet(Attaching!PromisedTo(Counted'))
        /\ Attaching!BuffersOf(Counted) = Attaching!BuffersOf(Counted') + Buffers[m]
        /\ Cardinality(Counted') \in Nat /\ Attaching!BuffersOf(Counted') \in Nat
        /\ Cardinality(Counted) <= NumberOfConnectedVCs /\ Attaching!BuffersOf(Counted) <= NumberOfBuffers
        /\ Buffers[m] \in Nat /\ NumberOfConnectedVCs \in 0 .. MaxAttached /\ NumberOfBuffers \in 0 .. MaxBuffers
    BY OneLessCounted
  <1>2. /\ Cardinality(Counted') <= NumberOfConnectedVCs' /\ Attaching!BuffersOf(Counted') <= NumberOfBuffers'
        /\ NumberOfConnectedVCs' \in 0 .. MaxAttached /\ NumberOfBuffers' \in 0 .. MaxBuffers
        /\ Cardinality(Counted') = Cardinality(Counted) - 1
        /\ Attaching!BuffersOf(Counted') = Attaching!BuffersOf(Counted) - Buffers[m]
    <2> HIDE DEF ChannelInv
    <2>1. MaxAttached \in Nat /\ MaxBuffers \in Nat
      BY AttachingFacts
    <2> QED BY <1>1, <2>1
  <1>3. CountersSuffice'
    BY <1>1, <1>2 DEF CountersSuffice, Attaching!BuffersOf, Attaching!PromisedTo
  <1> QED BY <1>2, <1>3

(* detachLocalVc() has returned or thrown *)
LEMMA RemoveEndKeepsChannel ==
  ASSUME ChannelInv, NEW p \in Managers, Removing(p), doing' = [doing EXCEPT ![p] = "idle"], ActionSemaphore' = None,
         UNCHANGED <<index, desc, attached, command, answer, slot>>,
         \/ UNCHANGED <<waiting, object, NumberOfConnectedVCs, NumberOfBuffers, SenderVcIndex>>
         \/ Attaching!Remove(p, slot[p])
  PROVE  /\ ChannelInv' /\ InHand(p) \in Counted /\ Counted' = Counted \ {InHand(p)} /\ index[slot[p]] = None
         /\ \A k \in Attaching!Slot : CountedAt(k)' <=> CountedAt(k) /\ k /= slot[p]
         /\ Cardinality(Counted') = Cardinality(Counted) - 1
         /\ Attaching!BuffersOf(Counted') = Attaching!BuffersOf(Counted) - Buffers[InHand(p)]
  <1> USE AttachingFacts DEF ChannelInv
  <1>1. PICK m : m = InHand(p)
    OBVIOUS
  <1>2. PICK j : j = slot[p]
    OBVIOUS
  <1>3. /\ j \in Attaching!Slot /\ desc[j] = m /\ m \in Mapping
        /\ \A k \in Attaching!Slot : index[k] /= m
    BY <1>1, <1>2 DEF RemovingFits, InHand, AttachingType
  <1>4. index[j] = None
    BY <1>3 DEF TableIsExact
  <1>5. \/ UNCHANGED <<waiting, object, NumberOfConnectedVCs, NumberOfBuffers, SenderVcIndex>>
        \/ /\ NumberOfBuffers' = NumberOfBuffers - Buffers[m] /\ NumberOfConnectedVCs' = NumberOfConnectedVCs - 1
           /\ object' = [object EXCEPT ![p][j] = FALSE] /\ waiting' = [waiting EXCEPT ![j] = 0]
           /\ SenderVcIndex' = IF SenderVcIndex = j THEN None ELSE SenderVcIndex
    BY <1>2, <1>3 DEF Attaching!Remove
  <1>6. /\ OneAtATime' /\ AddingFits' /\ RemovingFits'
        /\ Counted' = Attaching!Mapped' /\ \A k \in Attaching!Slot : CountedAt(k)' <=> index[k] /= None
    BY CallEnds DEF Removing
  <1>7. Counted = Attaching!Mapped \cup {m} /\ \A k \in Attaching!Slot : CountedAt(k) <=> index[k] /= None \/ k = j
    BY <1>1, <1>2, <1>3, CountedIs
  <1>8. m \in Counted /\ Counted' = Counted \ {m}
    <2>1. \A n : n \in Attaching!Mapped' <=> n \in Attaching!Mapped /\ n /= m
      BY <1>3, MappedIs, MappedNext
    <2> QED BY <1>6, <1>7, <2>1
  <1>9. \A k \in Attaching!Slot : CountedAt(k)' <=> CountedAt(k) /\ k /= j
    BY <1>4, <1>6, <1>7
  <1>10. /\ CountersSuffice'
         /\ NumberOfConnectedVCs' \in 0 .. MaxAttached /\ NumberOfBuffers' \in 0 .. MaxBuffers
         /\ Cardinality(Counted') = Cardinality(Counted) - 1
         /\ Attaching!BuffersOf(Counted') = Attaching!BuffersOf(Counted) - Buffers[m]
    BY <1>5, <1>8, RemoveGivesBack
  <1>11. /\ waiting' \in [Attaching!Slot -> Nat] /\ \A k \in Attaching!Slot : waiting'[k] = waiting[k] \/ waiting'[k] = 0
    BY <1>5 DEF AttachingType
  <1>12. /\ object' \in [Attaching!Process -> [Attaching!Slot -> BOOLEAN]]
         /\ \A q \in Attaching!Process, k \in Attaching!Slot : object'[q][k] => object[q][k]
    <2>1. object' = object \/ object' = [object EXCEPT ![p][j] = FALSE]
      BY <1>5
    <2>2. object \in [Attaching!Process -> [Attaching!Slot -> BOOLEAN]]
      BY DEF AttachingType
    <2> HIDE DEF ChannelInv
    <2>3. CASE object' = object
      BY <2>2, <2>3
    <2>4. CASE object' = [object EXCEPT ![p][j] = FALSE]
      <3>1. p \in Attaching!Process
        BY AttachingFacts
      <3> QED BY <1>3, <2>2, <2>4, <3>1
    <2> QED BY <2>1, <2>3, <2>4
  <1>13. SenderVcIndex' \in Attaching!Slot \cup {None}
    BY <1>5 DEF AttachingType
  <1>14. /\ doing' \in [Attaching!Process -> {"idle", "attach", "attaching", "detach", "detaching", "closing", "closed"}]
         /\ \A q \in Managers : doing'[q] \notin {"closing", "closed"}
    BY DEF AttachingType
  <1>15. AttachingType'
    BY <1>10, <1>11, <1>12, <1>13, <1>14 DEF AttachingType
  <1>16. TableIsExact'
    BY <1>12 DEF TableIsExact
  <1>17. SenderIsKnown'
    BY <1>5, <1>9 DEF SenderIsKnown
  <1> QED BY <1>1, <1>2, <1>4, <1>6, <1>8, <1>9, <1>10, <1>15, <1>16, <1>17

(* An application removes one of its own *)
LEMMA CloseOneKeepsChannel ==
  ASSUME ChannelInv, NEW a \in Apps, Attaching!CloseOne(a)
  PROVE  /\ ChannelInv' /\ ActionSemaphore = None
         /\ \E m \in Counted, j \in Attaching!Slot :
              /\ index[j] = m /\ m \in attached[a]
              /\ index' = [index EXCEPT ![j] = None]
              /\ attached' = [attached EXCEPT ![a] = @ \ {m}]
              /\ object' = [object EXCEPT ![a][j] = FALSE]
              /\ SenderVcIndex' = IF SenderVcIndex = j THEN None ELSE SenderVcIndex
              /\ NumberOfBuffers' = NumberOfBuffers - Buffers[m] /\ NumberOfConnectedVCs' = NumberOfConnectedVCs - 1
              /\ Counted' = Counted \ {m}
              /\ Cardinality(Counted') = Cardinality(Counted) - 1
              /\ Attaching!BuffersOf(Counted') = Attaching!BuffersOf(Counted) - Buffers[m]
              /\ \A k \in Attaching!Slot : CountedAt(k)' <=> CountedAt(k) /\ k /= j
              /\ \A k \in Attaching!Slot : index[k] = m => k = j
  <1> USE AttachingFacts DEF ChannelInv
  <1>1. /\ ActionSemaphore = None
        /\ UNCHANGED <<commandLost, desc, ActionSemaphore, command, answer, doing, slot>>
    BY DEF Attaching!CloseOne, Attaching!commandVars
  <1>2. PICK m \in Attaching!StillMapped(a) :
          LET k == Attaching!Min(Attaching!SlotsOf(m)) IN
          /\ index' = [index EXCEPT ![k] = None]
          /\ attached' = [attached EXCEPT ![a] = @ \ {m}]
          /\ Attaching!Remove(a, k)
    BY DEF Attaching!CloseOne
  <1>3. PICK j : j = Attaching!Min(Attaching!SlotsOf(m))
    OBVIOUS
  <1>4. m \in attached[a] /\ m \in Mapping /\ j \in Attaching!Slot /\ index[j] = m
    BY <1>3, SlotIs DEF Attaching!StillMapped, AttachingType
  <1>5. desc[j] = m /\ \A k \in Attaching!Slot : index[k] = m => k = j
    BY <1>4 DEF TableIsExact
  <1>6. /\ index' = [index EXCEPT ![j] = None] /\ attached' = [attached EXCEPT ![a] = @ \ {m}]
        /\ NumberOfBuffers' = NumberOfBuffers - Buffers[m] /\ NumberOfConnectedVCs' = NumberOfConnectedVCs - 1
        /\ object' = [object EXCEPT ![a][j] = FALSE] /\ waiting' = [waiting EXCEPT ![j] = 0]
        /\ SenderVcIndex' = IF SenderVcIndex = j THEN None ELSE SenderVcIndex
    BY <1>2, <1>3, <1>5 DEF Attaching!Remove
  <1>7. \A q \in Managers : doing[q] = "idle" /\ doing'[q] = "idle" /\ ~Adding(q)' /\ ~Removing(q)'
    BY <1>1 DEF OneAtATime, Adding, Removing
  <1>8. OneAtATime' /\ AddingFits' /\ RemovingFits'
    BY <1>1, <1>7 DEF OneAtATime, AddingFits, RemovingFits
  <1>9. Counted = Attaching!Mapped /\ \A k \in Attaching!Slot : CountedAt(k) <=> index[k] /= None
    BY <1>1, CountedIs
  <1>10. Counted' = Attaching!Mapped' /\ \A k \in Attaching!Slot : CountedAt(k)' <=> index'[k] /= None
    BY <1>1, <1>8, CountedNext
  <1>11. \A k \in Attaching!Slot : index'[k] = IF k = j THEN None ELSE index[k]
    BY <1>6 DEF AttachingType
  <1>12. m \in Counted /\ Counted' = Counted \ {m}
    <2>1. \A n : n \in Attaching!Mapped' <=> n \in Attaching!Mapped /\ n /= m
      BY <1>4, <1>5, <1>11, MappedIs, MappedNext
    <2>2. m \in Attaching!Mapped
      BY <1>4, MappedIs
    <2> QED BY <1>9, <1>10, <2>1, <2>2
  <1>13. \A k \in Attaching!Slot : CountedAt(k)' <=> CountedAt(k) /\ k /= j
    BY <1>9, <1>10, <1>11
  <1>14. /\ CountersSuffice'
         /\ NumberOfConnectedVCs' \in 0 .. MaxAttached /\ NumberOfBuffers' \in 0 .. MaxBuffers
         /\ Cardinality(Counted') = Cardinality(Counted) - 1
         /\ Attaching!BuffersOf(Counted') = Attaching!BuffersOf(Counted) - Buffers[m]
    BY <1>6, <1>12, RemoveGivesBack
  <1>15. /\ waiting' \in [Attaching!Slot -> Nat] /\ \A k \in Attaching!Slot : waiting'[k] = waiting[k] \/ waiting'[k] = 0
    BY <1>6 DEF AttachingType
  <1>16. /\ object' \in [Attaching!Process -> [Attaching!Slot -> BOOLEAN]]
         /\ \A q \in Attaching!Process, k \in Attaching!Slot : object'[q][k] => object[q][k]
    BY <1>6 DEF AttachingType
  <1>17. SenderVcIndex' \in Attaching!Slot \cup {None}
    BY <1>6 DEF AttachingType
  <1>18. index' \in [Attaching!Slot -> Mapping \cup {None}] /\ attached' \in [Apps -> SUBSET Mapping]
    BY <1>6 DEF AttachingType
  <1>19. AttachingType'
    BY <1>1, <1>14, <1>15, <1>16, <1>17, <1>18 DEF AttachingType
  <1>20. TableIsExact'
    BY <1>1, <1>11, <1>16 DEF TableIsExact
  <1>21. SenderIsKnown'
    BY <1>1, <1>6, <1>13 DEF SenderIsKnown
  <1> QED BY <1>1, <1>4, <1>5, <1>6, <1>8, <1>12, <1>13, <1>14, <1>19, <1>20, <1>21

LEMMA StepKeepsChannel ==
  ASSUME ChannelInv, [Attaching!Next /\ UNCHANGED vars]_processVars
  PROVE  ChannelInv'
  <1>1. CASE UNCHANGED processVars
    <2>1. UNCHANGED Attaching!vars
      BY <1>1 DEF processVars, attachingVars, Attaching!vars, Attaching!tableVars, Attaching!statusVars, Attaching!commandVars
    <2> QED BY <2>1, StutterKeepsChannel
  <1>2. ASSUME NEW p \in Managers, Attaching!createLocalVc(p) PROVE ChannelInv'
    <2>1. CASE \E m \in Mapping : Attaching!CreateBegin(p, m) \/ Attaching!CreateRefused(p, m)
      BY <2>1, CreateBeginKeepsChannel, CreateRefusedKeepsChannel
    <2>2. CASE Attaching!AttachSend(p)
      BY <2>2, AttachSendKeepsChannel
    <2>3. CASE Attaching!CreateCommit(p)
      BY <2>3, CreateCommitKeepsChannel
    <2>4. CASE Attaching!CreateRollback(p)
      <3>1. Adding(p) /\ doing' = [doing EXCEPT ![p] = "idle"] /\ Attaching!Rollback(p)
        BY <2>4 DEF Attaching!CreateRollback, Attaching!Goto, Adding
      <3> QED BY <3>1, RollbackKeepsChannel
    <2>5. CASE Attaching!CreateTimeout(p)
      <3>1. Adding(p) /\ doing' = [doing EXCEPT ![p] = "idle"] /\ Attaching!Rollback(p)
        BY <2>5, CommandTimeoutIs DEF Attaching!CreateTimeout, Adding
      <3> QED BY <3>1, RollbackKeepsChannel
    <2> QED BY <1>2, <2>1, <2>2, <2>3, <2>4, <2>5 DEF Attaching!createLocalVc
  <1>3. ASSUME NEW p \in Managers, Attaching!removeLocalVc(p) PROVE ChannelInv'
    <2>1. CASE \E k \in Attaching!Slot : Attaching!RemoveBegin(p, k)
      BY <2>1, RemoveBeginKeepsChannel
    <2>2. CASE Attaching!DetachSend(p)
      BY <2>2, DetachSendKeepsChannel
    <2>3. CASE Attaching!RemoveCommit(p) \/ Attaching!RemoveFail(p) \/ Attaching!RemoveTimeout(p)
      <3>1. Removing(p) /\ doing' = [doing EXCEPT ![p] = "idle"]
        BY <2>3, CommandTimeoutIs DEF Attaching!RemoveCommit, Attaching!RemoveFail, Attaching!RemoveTimeout, Attaching!Goto, Removing
      <3>2. /\ ActionSemaphore' = None
            /\ UNCHANGED <<index, desc, attached, command, answer, slot>>
            /\ \/ UNCHANGED <<waiting, object, NumberOfConnectedVCs, NumberOfBuffers, SenderVcIndex>>
               \/ Attaching!Remove(p, slot[p])
        BY <2>3 DEF Attaching!RemoveCommit, Attaching!RemoveFail, Attaching!RemoveTimeout,
             Attaching!tableVars, Attaching!statusVars, Attaching!commandVars
      <3> QED BY <3>1, <3>2, RemoveEndKeepsChannel
    <2> QED BY <1>3, <2>1, <2>2, <2>3 DEF Attaching!removeLocalVc
  <1>4. ASSUME NEW a \in Apps,
          \/ Attaching!handleOneCommand(a) \/ Attaching!sendBuffer(a) \/ Attaching!receiveBuffer(a)
          \/ Attaching!Close(a) \/ Attaching!detachAndDestroyAllLocalVcs(a)
        PROVE ChannelInv'
    BY <1>4, AttachHandlerKeepsChannel, DetachHandlerKeepsChannel, MessagesKeepChannel, ClosingKeepsChannel,
       CloseOneKeepsChannel DEF Attaching!handleOneCommand, Attaching!detachAndDestroyAllLocalVcs
  <1> QED BY <1>1, <1>2, <1>3, <1>4 DEF Attaching!Next

LEMMA SameCardinality ==
  ASSUME NEW s
  PROVE  Attaching!Cardinality(s) = Cardinality(s)
  BY DEF Attaching!Cardinality, Cardinality

(* The invariant implies what is promised. *)
LEMMA ChannelGives == ChannelInv => Attaching!ResourcesExact
  <1> SUFFICES ASSUME ChannelInv PROVE Attaching!ResourcesExact
    OBVIOUS
  <1> USE AttachingFacts DEF ChannelInv
  <1>1. Attaching!TypeOK
    BY DEF AttachingType, Attaching!TypeOK
  <1>2. ASSUME NEW m \in Mapping PROVE Attaching!Cardinality(Attaching!SlotsOf(m)) <= 1
    <2>1. CASE Attaching!SlotsOf(m) = {}
      <3>1. Cardinality(Attaching!SlotsOf(m)) = 0
        BY <2>1, FS_EmptySet
      <3> QED BY <3>1, SameCardinality
    <2>2. CASE Attaching!SlotsOf(m) /= {}
      <3>1. PICK k \in Attaching!SlotsOf(m) : TRUE
        BY <2>2
      <3>2. Attaching!SlotsOf(m) = {k}
        BY <3>1 DEF TableIsExact, Attaching!SlotsOf
      <3>3. Cardinality(Attaching!SlotsOf(m)) = 1
        BY <3>2, FS_Singleton
      <3> QED BY <3>3, SameCardinality
    <2> QED BY <2>1, <2>2
  <1>3. Attaching!BuffersOf(Attaching!Mapped) <= MaxBuffers
    <2>1. /\ IsFiniteSet(Counted) /\ IsFiniteSet(Attaching!PromisedTo(Counted))
          /\ Attaching!BuffersOf(Counted) <= NumberOfBuffers /\ NumberOfBuffers \in 0 .. MaxBuffers /\ Counted \in SUBSET Mapping
      BY DEF CountersSuffice, AttachingType, Counted
    <2>2. CASE ActionSemaphore = None
      <3>1. Counted = Attaching!Mapped
        BY <2>2, CountedIs
      <3>2. Attaching!BuffersOf(Counted) \in Nat
        BY <2>1, FS_CardinalityType, BuffersAre
      <3> HIDE DEF ChannelInv
      <3> QED BY <2>1, <3>1, <3>2
    <2>3. CASE ActionSemaphore /= None
      <3>1. PICK p \in Managers : ActionSemaphore = p
        BY <2>3 DEF AttachingType
      <3>2. Adding(p) \/ Removing(p)
        BY <3>1 DEF OneAtATime, AttachingType, Adding, Removing
      <3>3. CASE Adding(p)
        <4>1. PICK m : m = InHand(p)
          OBVIOUS
        <4>2. /\ m \in Mapping /\ NumberOfBuffers + Buffers[m] <= MaxBuffers /\ \E k \in Attaching!Slot : index[k] = m
          BY <3>3, <4>1 DEF AddingFits, AttachingType
        <4>3. Counted = Attaching!Mapped \ {m} /\ m \in Attaching!Mapped
          BY <3>3, <4>1, <4>2, CountedIs, MappedIs
        <4>4. PICK cs : cs = Counted
          OBVIOUS
        <4>5. cs \cup {m} = Attaching!Mapped
          BY <4>3, <4>4
        <4>6. Attaching!BuffersOf(cs \cup {m}) = Attaching!BuffersOf(cs) + Buffers[m] /\ Attaching!BuffersOf(cs) \in Nat
          BY <2>1, <4>2, <4>3, <4>4, OneMore
        <4>7. Attaching!BuffersOf(Attaching!Mapped) = Attaching!BuffersOf(Counted) + Buffers[m] /\ Attaching!BuffersOf(Counted) \in Nat
          BY <4>4, <4>5, <4>6
        <4>8. Buffers[m] \in Nat
          BY <4>2
        <4> HIDE DEF ChannelInv
        <4> QED BY <2>1, <4>2, <4>7, <4>8
      <3>4. CASE Removing(p)
        <4>1. PICK m : m = InHand(p)
          OBVIOUS
        <4>2. m \in Mapping /\ \A k \in Attaching!Slot : index[k] /= m
          BY <3>4, <4>1 DEF RemovingFits
        <4>3. Counted \ {m} = Attaching!Mapped /\ m \in Counted
          BY <3>4, <4>1, <4>2, CountedIs, MappedIs
        <4>4. Attaching!BuffersOf(Counted) = Attaching!BuffersOf(Attaching!Mapped) + Buffers[m]
              /\ Attaching!BuffersOf(Attaching!Mapped) \in Nat /\ Buffers[m] \in Nat
          BY <4>3, OneLessCounted
        <4> HIDE DEF ChannelInv
        <4> QED BY <2>1, <4>4
      <3> QED BY <3>2, <3>3, <3>4
    <2> QED BY <2>2, <2>3
  <1>4. Attaching!OneWriter
    <2>1. PICK S : S = {k \in Attaching!Slot : index[k] /= None /\ ~IsReading[index[k]]}
      OBVIOUS
    <2>2. \A j, k \in S : j = k
      <3> SUFFICES ASSUME NEW j \in S, NEW k \in S, j /= k PROVE FALSE
        OBVIOUS
      <3>1. /\ j \in Attaching!Slot /\ index[j] /= None /\ ~IsReading[desc[j]] /\ desc[j] = index[j]
            /\ k \in Attaching!Slot /\ index[k] /= None /\ ~IsReading[desc[k]] /\ desc[k] = index[k]
        BY <2>1 DEF TableIsExact
      <3>2. CASE CountedAt(j) /\ CountedAt(k)
        BY <3>1, <3>2 DEF SenderIsKnown
      <3>3. ASSUME NEW i \in {j, k}, NEW o \in {j, k}, i /= o, ~CountedAt(i) PROVE FALSE
        <4>1. PICK p \in Managers : Adding(p) /\ slot[p] = i
          BY <3>1, <3>3 DEF CountedAt
        <4>2. ~IsReading[InHand(p)]
          BY <3>1, <3>3, <4>1 DEF InHand
        <4>3. SenderVcIndex = None
          BY <4>1, <4>2 DEF AddingFits
        <4>4. CountedAt(o)
          BY <3>1, <3>3, <4>1, CountedIs
        <4> QED BY <3>1, <3>3, <4>3, <4>4 DEF SenderIsKnown
      <3> QED BY <3>2, <3>3
    <2>3. Cardinality(S) = 0 \/ Cardinality(S) = 1
      <3>1. CASE S = {}
        BY <3>1, FS_EmptySet
      <3>2. CASE S /= {}
        <4>1. PICK k : k \in S
          BY <3>2
        <4>2. S = {k}
          BY <2>2, <4>1
        <4> QED BY <4>2, FS_Singleton
      <3> QED BY <3>1, <3>2
    <2>4. Attaching!Cardinality(S) <= 1
      BY <2>3, SameCardinality
    <2> QED BY <2>1, <2>4 DEF Attaching!OneWriter
  <1> QED BY <1>1, <1>2, <1>3, <1>4 DEF Attaching!ResourcesExact, Attaching!NotOvercommitted

(* Whatever managers attach and remove at once, and whichever of their commands fail *)
(* or time out: a channel never promises more slots or buffers than it has, has a    *)
(* mapping once in its table and at most one writing local vc (GlobalVc.cc:          *)
(* createLocalVc, removeLocalVc).                                                    *)
THEOREM ResourcesStayExact == AttachingSpec => []ResourcesExact
  <1>1. ProcessInit => ChannelInv
    BY ChannelInit DEF ProcessInit
  <1>2. ChannelInv /\ [Attaching!Next /\ UNCHANGED vars]_processVars => ChannelInv'
    BY StepKeepsChannel
  <1>3. ChannelInv => ResourcesExact
    BY ChannelGives DEF ResourcesExact
  <1> QED BY <1>1, <1>2, <1>3, PTL DEF AttachingSpec

--------------------------------------------------------------------------------
(* With one manager that is answered, the records agree. *)
LEMMA RecordsInit == Attaching!Init => RecordsInv
  <1> SUFFICES ASSUME Attaching!Init PROVE RecordsKept
    BY DEF RecordsInv
  <1>1. \A p \in Managers : doing[p] = "idle" /\ ~Adding(p) /\ ~Removing(p)
    BY AttachingFacts DEF Attaching!Init, Adding, Removing
  <1>2. /\ \A k \in Attaching!Slot : index[k] = None
        /\ \A a \in Apps : attached[a] = {} /\ command[a] = None
        /\ SenderVcIndex = None /\ NumberOfConnectedVCs = 0 /\ NumberOfBuffers = 0
    BY DEF Attaching!Init
  <1>3. Counted = {}
    BY <1>1, <1>2, AttachingFacts DEF Counted
  <1>4. Attaching!PromisedTo(Counted) = {}
    BY <1>3 DEF Attaching!PromisedTo
  <1>5. Cardinality(Counted) = 0 /\ Attaching!BuffersOf(Counted) = 0
    BY <1>3, <1>4, FS_EmptySet, BuffersAre
  <1>6. CountersExact /\ SenderExact
    BY <1>2, <1>5 DEF CountersExact, SenderExact
  <1>7. ManagerKnows /\ CommandsPending /\ NoneFails
    BY <1>1, <1>2 DEF ManagerKnows, CommandsPending, NoneFails
  <1>8. ProcessesKnow
    BY <1>1, <1>2, <1>3 DEF ProcessesKnow, Attached
  <1> QED BY <1>6, <1>7, <1>8 DEF RecordsKept

(* Between the calls no command is pending. *)
LEMMA NothingPending ==
  ASSUME ChannelInv, CommandsPending, \A p \in Managers : doing[p] = "idle"
  PROVE  /\ \A a \in Apps : command[a] = None
         /\ \A m \in Mapping : Attached(m) <=> m \in Counted
  <1>1. ASSUME NEW a \in Apps, command[a] /= None PROVE FALSE
    <2>1. command[a].caller \in Managers
      BY <1>1 DEF ChannelInv, AttachingType, Attaching!LocalVcCommand
    <2> QED BY <1>1, <2>1 DEF CommandsPending
  <1>2. \A m \in Mapping : Attached(m) <=> m \in Counted
    BY DEF Attached, Removing
  <1> QED BY <1>1, <1>2

LEMMA AttachedNext ==
  ASSUME \A p \in Managers : doing'[p] \in {"idle", "attach", "detach"}
  PROVE  \A m \in Mapping : Attached(m)' <=> m \in Counted'
  BY DEF Attached, Removing

LEMMA QuietKeepsCounters ==
  ASSUME ChannelInv, RecordsKept, QuietStep
  PROVE  CountersExact' /\ SenderExact'
  <1>1. /\ Counted' = Counted
        /\ \A k \in Attaching!Slot : CountedAt(k)' = CountedAt(k)
        /\ UNCHANGED <<NumberOfConnectedVCs, NumberOfBuffers, SenderVcIndex, desc>>
    BY CountedSame DEF QuietStep
  <1>2. CountersExact'
    BY <1>1 DEF RecordsKept, CountersExact, Attaching!BuffersOf, Attaching!PromisedTo
  <1>3. SenderExact'
    BY <1>1 DEF RecordsKept, SenderExact, ChannelInv, AttachingType
  <1> QED BY <1>2, <1>3

(* Steps that neither the manager nor a command takes part in *)
LEMMA OthersKeepRecords ==
  ASSUME ChannelInv, RecordsKept, QuietStep, \A p \in Managers : doing'[p] = doing[p],
         UNCHANGED <<attached, command, answer>>,
         \A p \in Managers, k \in Attaching!Slot : object[p][k] => object'[p][k]
  PROVE  RecordsKept'
  <1>1. CountersExact' /\ SenderExact'
    BY QuietKeepsCounters
  <1>2. /\ Counted' = Counted /\ \A p \in Managers : InHand(p)' = InHand(p)
        /\ \A p \in Managers : Removing(p)' = Removing(p)
    BY CountedSame DEF QuietStep
  <1>3. ManagerKnows'
    BY <1>2 DEF RecordsKept, ManagerKnows, QuietStep
  <1>4. \A m \in Mapping : Attached(m)' <=> Attached(m)
    BY <1>2 DEF Attached
  <1>5. ProcessesKnow'
    BY <1>4 DEF RecordsKept, ProcessesKnow
  <1>6. CommandsPending'
    <2> SUFFICES ASSUME NEW a \in Apps, command'[a] /= None
                 PROVE  LET c == command[a] IN
                        /\ InHand(c.caller)' = c.mapping /\ answer'[c.caller] = None
                        /\ doing'[c.caller] = IF c.op = "attach" THEN "attaching" ELSE "detaching"
                        /\ Pid[c.mapping] = a
      BY DEF CommandsPending, InHand
    <2>1. PICK c \in Attaching!LocalVcCommand : c = command[a]
      BY DEF ChannelInv, AttachingType
    <2>2. c.caller \in Managers
      BY DEF Attaching!LocalVcCommand
    <2> QED BY <1>2, <2>1, <2>2 DEF RecordsKept, CommandsPending, InHand
  <1>7. NoneFails'
    BY DEF RecordsKept, NoneFails
  <1> QED BY <1>1, <1>3, <1>5, <1>6, <1>7 DEF RecordsKept

LEMMA QuietOnesKeepRecords ==
  ASSUME ChannelInv, RecordsKept,
         \/ \E p \in Managers, m \in Mapping : Attaching!CreateRefused(p, m)
         \/ \E a \in Apps : \/ Attaching!sendBuffer(a) \/ Attaching!receiveBuffer(a)
                            \/ Attaching!Close(a) \/ Attaching!Closed(a)
         \/ UNCHANGED Attaching!vars
  PROVE  RecordsKept'
  <1>1. QuietStep
    BY CreateRefusedKeepsChannel, MessagesKeepChannel, ClosingKeepsChannel, StutterKeepsChannel
  <1>2. UNCHANGED <<attached, command, answer>>
    BY DEF Attaching!CreateRefused, Attaching!sendBuffer, Attaching!receiveBuffer, Attaching!Close, Attaching!Closed,
         Attaching!vars, Attaching!commandVars
  <1>3. \A p \in Managers : doing'[p] = doing[p]
    <2>1. \A a \in Apps : a \notin Managers
      BY AttachingFacts
    <2>2. UNCHANGED doing \/ \E a \in Apps, to \in {"closing", "closed"} : doing' = [doing EXCEPT ![a] = to]
      BY DEF Attaching!CreateRefused, Attaching!sendBuffer, Attaching!receiveBuffer, Attaching!Close, Attaching!Closed,
           Attaching!Goto, Attaching!vars
    <2> QED BY <2>1, <2>2, AttachingFacts DEF ChannelInv, AttachingType
  <1>4. \A p \in Managers, k \in Attaching!Slot : object[p][k] => object'[p][k]
    <2>1. UNCHANGED object \/ \E q \in Attaching!Process : \E ks : object' = Attaching!Looked(q, ks)
      BY AttachingFacts DEF Attaching!CreateRefused, Attaching!sendBuffer, Attaching!receiveBuffer, Attaching!Close,
           Attaching!Closed, Attaching!vars
    <2>2. CASE UNCHANGED object
      BY <2>2
    <2>3. ASSUME NEW q \in Attaching!Process, NEW ks, object' = Attaching!Looked(q, ks)
          PROVE  \A p \in Managers, k \in Attaching!Slot : object[p][k] => object'[p][k]
      BY <2>3, LookedIs, AttachingFacts DEF ChannelInv
    <2> QED BY <2>1, <2>2, <2>3
  <1> QED BY <1>1, <1>2, <1>3, <1>4, OthersKeepRecords

LEMMA CreateBeginKeepsRecords ==
  ASSUME OneManager, ChannelInv, RecordsKept, NEW p \in Managers, NEW m \in Mapping, Attaching!CreateBegin(p, m)
  PROVE  RecordsKept'
  <1> USE AttachingFacts
  <1>1. \A q \in Managers : q = p
    BY DEF OneManager
  <1>2. PICK j : j = Attaching!FirstFree
    OBVIOUS
  <1>3. j \in Attaching!Slot /\ index[j] = None
    BY <1>2, SlotIs DEF Attaching!CreateBegin, Attaching!FirstFree
  <1>4. /\ doing[p] = "idle" /\ ActionSemaphore = None
        /\ object' = [object EXCEPT ![p][j] = TRUE]
        /\ index' = [index EXCEPT ![j] = m] /\ desc' = [desc EXCEPT ![j] = m]
        /\ UNCHANGED <<NumberOfConnectedVCs, NumberOfBuffers, SenderVcIndex, attached, command, answer>>
    BY <1>2 DEF Attaching!CreateBegin, Attaching!Goto, Attaching!statusVars, Attaching!commandVars
  <1>5. /\ Counted' = Counted /\ \A k \in Attaching!Slot : CountedAt(k)' = CountedAt(k)
        /\ doing'[p] = "attach"
    BY CreateBeginKeepsChannel
  <1>6. \A q \in Managers : doing[q] = "idle" /\ doing'[q] = "attach" /\ ~Removing(q)'
    BY <1>1, <1>4, <1>5 DEF Removing
  <1>7. CountersExact'
    BY <1>4, <1>5 DEF RecordsKept, CountersExact, Attaching!BuffersOf, Attaching!PromisedTo
  <1>8. SenderExact'
    <2>1. \A k \in Attaching!Slot : CountedAt(k) => index[k] /= None
      BY <1>4, CountedIs DEF ChannelInv
    <2>2. \A k \in Attaching!Slot : k /= j => desc'[k] = desc[k]
      BY <1>4 DEF ChannelInv, AttachingType
    <2>3. SenderVcIndex \in Attaching!Slot \cup {None}
      BY DEF ChannelInv, AttachingType
    <2> QED BY <1>3, <1>4, <1>5, <2>1, <2>2, <2>3 DEF RecordsKept, SenderExact
  <1>9. ManagerKnows'
    <2>1. \A k \in Attaching!Slot : /\ k = j => object'[p][k]
                                    /\ k /= j => object'[p][k] = object[p][k] /\ index'[k] = index[k]
      BY <1>3, <1>4 DEF ChannelInv, AttachingType
    <2> QED BY <1>1, <1>6, <2>1 DEF RecordsKept, ManagerKnows
  <1>10. /\ \A a \in Apps : command'[a] = None
         /\ \A n \in Mapping : Attached(n)' <=> Attached(n)
    BY <1>4, <1>5, <1>6, NothingPending, AttachedNext DEF RecordsKept
  <1>11. ProcessesKnow'
    BY <1>4, <1>10 DEF RecordsKept, ProcessesKnow
  <1>12. CommandsPending' /\ NoneFails'
    BY <1>6, <1>10 DEF CommandsPending, NoneFails
  <1> QED BY <1>7, <1>8, <1>9, <1>11, <1>12 DEF RecordsKept

(* The command is sent, and it is the only one. *)
LEMMA SendKeepsRecords ==
  ASSUME OneManager, ChannelInv, RecordsKept, NEW p \in Managers, Attaching!AttachSend(p) \/ Attaching!DetachSend(p)
  PROVE  RecordsKept'
  <1> USE AttachingFacts
  <1>1. \A q \in Managers : q = p
    BY DEF OneManager
  <1>2. PICK m : m = InHand(p)
    OBVIOUS
  <1>3. PICK op \in {"attach", "detach"} :
          /\ doing[p] = op /\ doing' = [doing EXCEPT ![p] = IF op = "attach" THEN "attaching" ELSE "detaching"]
          /\ command' = [command EXCEPT ![Pid[m]] = [op |-> op, mapping |-> m, caller |-> p]]
    BY <1>2 DEF Attaching!AttachSend, Attaching!DetachSend, Attaching!Goto, InHand
  <1>4. /\ answer' = [answer EXCEPT ![p] = None]
        /\ UNCHANGED <<index, desc, object, attached, slot>>
    BY DEF Attaching!AttachSend, Attaching!DetachSend, Attaching!tableVars
  <1>5. QuietStep
    BY AttachSendKeepsChannel, DetachSendKeepsChannel
  <1>6. CountersExact' /\ SenderExact'
    BY <1>5, QuietKeepsCounters
  <1>7. /\ Counted' = Counted /\ \A q \in Managers : InHand(q)' = InHand(q)
        /\ \A q \in Managers : Removing(q)' = Removing(q)
    BY <1>5, CountedSame DEF QuietStep
  <1>8. m \in Mapping
    BY <1>2, <1>3 DEF ChannelInv, AddingFits, RemovingFits, Adding, Removing
  <1>9. answer'[p] = None /\ doing'[p] = IF op = "attach" THEN "attaching" ELSE "detaching"
    BY <1>3, <1>4 DEF ChannelInv, AttachingType
  <1>10. ManagerKnows'
    BY <1>4, <1>7 DEF RecordsKept, ManagerKnows
  <1>11. ASSUME NEW n \in Mapping PROVE Attached(n)' <=> Attached(n)
    <2>1. Attached(n) <=> n \in Counted
      BY <1>1, <1>3 DEF Attached, Removing
    <2>2. Attached(n)' <=> n \in Counted
      BY <1>1, <1>7, <1>9 DEF Attached
    <2> QED BY <2>1, <2>2
  <1>12. ProcessesKnow'
    BY <1>4, <1>11 DEF RecordsKept, ProcessesKnow
  <1>13. CommandsPending'
    <2>1. ASSUME NEW a \in Apps, command[a] /= None PROVE FALSE
      <3>1. command[a].caller = p
        BY <1>1, <2>1 DEF ChannelInv, AttachingType, Attaching!LocalVcCommand
      <3> QED BY <1>3, <2>1, <3>1 DEF RecordsKept, CommandsPending
    <2>2. PICK c : c = [op |-> op, mapping |-> m, caller |-> p]
      OBVIOUS
    <2>3. \A a \in Apps : command'[a] /= None => a = Pid[m] /\ command'[a] = c
      BY <1>3, <1>8, <2>1, <2>2 DEF ChannelInv, AttachingType
    <2>4. c.op = op /\ c.mapping = m /\ c.caller = p
      BY <2>2
    <2>5. desc'[slot'[p]] = m
      BY <1>2, <1>4 DEF InHand
    <2> QED BY <1>9, <2>3, <2>4, <2>5 DEF CommandsPending, InHand
  <1>14. NoneFails'
    BY <1>1, <1>9, AttachingFacts DEF NoneFails
  <1> QED BY <1>6, <1>10, <1>12, <1>13, <1>14 DEF RecordsKept

(* A manager that has its answer has no command pending. *)
LEMMA AnsweredIs ==
  ASSUME OneManager, ChannelInv, RecordsKept, NEW p \in Managers, answer[p] /= None
  PROVE  \A a \in Apps : command[a] = None
  <1> SUFFICES ASSUME NEW a \in Apps, command[a] /= None PROVE FALSE
    OBVIOUS
  <1>1. command[a].caller = p
    BY DEF ChannelInv, AttachingType, Attaching!LocalVcCommand, OneManager
  <1> QED BY <1>1 DEF RecordsKept, CommandsPending

LEMMA CreateCommitKeepsRecords ==
  ASSUME OneManager, ChannelInv, RecordsKept, NEW p \in Managers, Attaching!CreateCommit(p)
  PROVE  RecordsKept'
  <1> USE AttachingFacts
  <1>1. \A q \in Managers : q = p
    BY DEF OneManager
  <1>2. PICK m : m = InHand(p)
    OBVIOUS
  <1>3. PICK j : j = slot[p]
    OBVIOUS
  <1>4. /\ doing[p] = "attaching" /\ doing' = [doing EXCEPT ![p] = "idle"] /\ answer[p] = "ok"
        /\ SenderVcIndex' = IF IsReading[m] THEN SenderVcIndex ELSE j
        /\ UNCHANGED <<index, desc, object, attached, command, answer, slot>>
    BY <1>2, <1>3 DEF Attaching!CreateCommit, Attaching!Goto, InHand, Attaching!tableVars, Attaching!commandVars
  <1>5. /\ m \in Mapping \ Counted /\ Counted' = Counted \cup {m}
        /\ NumberOfConnectedVCs' = NumberOfConnectedVCs + 1
        /\ NumberOfBuffers' = NumberOfBuffers + Buffers[m]
        /\ Attaching!BuffersOf(Counted') = Attaching!BuffersOf(Counted) + Buffers[m]
        /\ Cardinality(Counted') = Cardinality(Counted) + 1
        /\ \A k \in Attaching!Slot : CountedAt(k)' <=> CountedAt(k) \/ k = j
    BY <1>2, <1>3, CreateCommitKeepsChannel
  <1>6. CountersExact'
    BY <1>5 DEF RecordsKept, CountersExact, Attaching!BuffersOf, Attaching!PromisedTo
  <1>7. j \in Attaching!Slot /\ desc[j] = m /\ doing'[p] = "idle"
    BY <1>2, <1>3, <1>4 DEF ChannelInv, AttachingType, InHand
  <1>8. SenderExact'
    BY <1>4, <1>5, <1>7 DEF RecordsKept, SenderExact, ChannelInv, AttachingType
  <1>9. \A q \in Managers : doing'[q] = "idle" /\ ~Removing(q)' /\ ~Removing(q)
    BY <1>1, <1>4, <1>7 DEF Removing
  <1>10. ManagerKnows'
    BY <1>4, <1>9 DEF RecordsKept, ManagerKnows
  <1>11. ASSUME NEW n \in Mapping PROVE Attached(n)' <=> Attached(n)
    <2>1. Attached(n) <=> n \in Counted \/ n = m
      BY <1>1, <1>2, <1>4, <1>9 DEF Attached
    <2> QED BY <1>5, <1>9, <2>1, AttachedNext
  <1>12. ProcessesKnow'
    BY <1>4, <1>11 DEF RecordsKept, ProcessesKnow
  <1>13. CommandsPending' /\ NoneFails'
    BY <1>4, <1>9, AnsweredIs DEF CommandsPending, NoneFails
  <1> QED BY <1>6, <1>8, <1>10, <1>12, <1>13 DEF RecordsKept

LEMMA CreateIsNotUndone ==
  ASSUME OneManager, ChannelInv, RecordsKept, NEW p \in Managers
  PROVE  ~Attaching!CreateRollback(p)
  <1> SUFFICES ASSUME Attaching!CreateRollback(p) PROVE FALSE
    OBVIOUS
  <1>1. doing[p] /= "attaching" \/ answer[p] /= "error"
    BY DEF RecordsKept, NoneFails
  <1>2. doing[p] = "attach" /\ InHand(p) \in attached[Pid[InHand(p)]]
    BY <1>1 DEF Attaching!CreateRollback, Attaching!Goto, InHand
  <1>3. Adding(p) /\ InHand(p) \in Mapping
    BY <1>2 DEF Adding, ChannelInv, AddingFits
  <1>4. Attached(InHand(p))
    BY <1>2, <1>3, AttachingFacts DEF RecordsKept, ProcessesKnow
  <1>5. InHand(p) \in Counted
    BY <1>2, <1>4 DEF Attached, OneManager
  <1> QED BY <1>3, <1>5, CountedIs DEF ChannelInv

LEMMA RemoveBeginKeepsRecords ==
  ASSUME OneManager, ChannelInv, RecordsKept, NEW p \in Managers, NEW i \in Attaching!Slot, Attaching!RemoveBegin(p, i)
  PROVE  RecordsKept'
  <1> USE AttachingFacts
  <1>1. \A q \in Managers : q = p
    BY DEF OneManager
  <1>2. PICK j : j = Attaching!Min(Attaching!SlotsOf(desc[i]))
    OBVIOUS
  <1>3. j \in Attaching!Slot /\ index[j] = desc[i]
    BY <1>2, SlotIs DEF Attaching!RemoveBegin
  <1>4. /\ doing[p] = "idle" /\ object[p][i]
        /\ slot' = [slot EXCEPT ![p] = j] /\ index' = [index EXCEPT ![slot'[p]] = None]
        /\ UNCHANGED <<desc, NumberOfConnectedVCs, NumberOfBuffers, SenderVcIndex, object, attached, command, answer>>
    BY <1>2 DEF Attaching!RemoveBegin, Attaching!Goto, Attaching!statusVars, Attaching!commandVars
  <1>5. /\ Counted' = Counted /\ \A k \in Attaching!Slot : CountedAt(k)' = CountedAt(k)
        /\ doing'[p] = "detach" /\ desc[i] \in Attaching!Mapped
    BY RemoveBeginKeepsChannel
  <1>6. CountersExact'
    BY <1>4, <1>5 DEF RecordsKept, CountersExact, Attaching!BuffersOf, Attaching!PromisedTo
  <1>7. SenderExact'
    BY <1>4, <1>5 DEF RecordsKept, SenderExact, ChannelInv, AttachingType
  <1>8. slot'[p] = j /\ \A k \in Attaching!Slot : index'[k] /= None => index[k] /= None
    BY <1>4 DEF ChannelInv, AttachingType
  <1>9. index[j] /= None
    BY <1>3, <1>4 DEF ChannelInv, TableIsExact
  <1>10. ManagerKnows'
    BY <1>1, <1>4, <1>8, <1>9 DEF RecordsKept, ManagerKnows
  <1>11. \A q \in Managers : doing[q] = "idle" /\ doing'[q] = "detach"
    BY <1>1, <1>4, <1>5
  <1>12. /\ \A a \in Apps : command'[a] = None
         /\ \A n \in Mapping : Attached(n)' <=> Attached(n)
    BY <1>4, <1>5, <1>11, NothingPending, AttachedNext DEF RecordsKept
  <1>13. ProcessesKnow'
    BY <1>4, <1>12 DEF RecordsKept, ProcessesKnow
  <1>14. CommandsPending' /\ NoneFails'
    BY <1>11, <1>12 DEF CommandsPending, NoneFails
  <1> QED BY <1>6, <1>7, <1>10, <1>13, <1>14 DEF RecordsKept

LEMMA RemoveCommitKeepsRecords ==
  ASSUME OneManager, ChannelInv, RecordsKept, NEW p \in Managers, Attaching!RemoveCommit(p)
  PROVE  RecordsKept'
  <1> USE AttachingFacts
  <1>1. \A q \in Managers : q = p
    BY DEF OneManager
  <1>2. PICK m : m = InHand(p)
    OBVIOUS
  <1>3. PICK j : j = slot[p]
    OBVIOUS
  <1>4. /\ doing[p] = "detaching" /\ doing' = [doing EXCEPT ![p] = "idle"] /\ answer[p] = "ok"
        /\ Attaching!Remove(p, slot[p]) /\ ActionSemaphore' = None
        /\ UNCHANGED <<index, desc, attached, command, answer, slot>>
    BY DEF Attaching!RemoveCommit, Attaching!Goto, Attaching!commandVars
  <1>5. Removing(p)
    BY <1>4 DEF Removing
  <1>6. /\ m \in Counted /\ Counted' = Counted \ {m} /\ index[j] = None
        /\ \A k \in Attaching!Slot : CountedAt(k)' <=> CountedAt(k) /\ k /= j
        /\ Cardinality(Counted') = Cardinality(Counted) - 1
        /\ Attaching!BuffersOf(Counted') = Attaching!BuffersOf(Counted) - Buffers[m]
    BY <1>2, <1>3, <1>4, <1>5, RemoveEndKeepsChannel
  <1>7. /\ NumberOfBuffers' = NumberOfBuffers - Buffers[m] /\ NumberOfConnectedVCs' = NumberOfConnectedVCs - 1
        /\ object' = [object EXCEPT ![p][j] = FALSE]
        /\ SenderVcIndex' = IF SenderVcIndex = j THEN None ELSE SenderVcIndex
    BY <1>2, <1>3, <1>4 DEF Attaching!Remove, InHand
  <1>8. CountersExact'
    BY <1>6, <1>7 DEF RecordsKept, CountersExact, Attaching!BuffersOf, Attaching!PromisedTo
  <1>9. SenderExact'
    BY <1>4, <1>6, <1>7 DEF RecordsKept, SenderExact, ChannelInv, AttachingType
  <1>10. doing'[p] = "idle" /\ \A k \in Attaching!Slot : k /= j => object'[p][k] = object[p][k]
    BY <1>3, <1>4, <1>7 DEF ChannelInv, AttachingType
  <1>11. \A q \in Managers : doing'[q] = "idle" /\ ~Removing(q)'
    BY <1>1, <1>10 DEF Removing
  <1>12. ManagerKnows'
    BY <1>1, <1>4, <1>6, <1>10, <1>11 DEF RecordsKept, ManagerKnows
  <1>13. ASSUME NEW n \in Mapping PROVE Attached(n)' <=> Attached(n)
    <2>1. Attached(n) <=> n \in Counted /\ n /= m
      BY <1>1, <1>2, <1>4, <1>5, AttachingFacts DEF Attached
    <2> QED BY <1>6, <1>11, <2>1, AttachedNext
  <1>14. ProcessesKnow'
    BY <1>4, <1>13 DEF RecordsKept, ProcessesKnow
  <1>15. CommandsPending' /\ NoneFails'
    BY <1>4, <1>11, AnsweredIs DEF CommandsPending, NoneFails
  <1> QED BY <1>8, <1>9, <1>12, <1>14, <1>15 DEF RecordsKept

LEMMA RemoveDoesNotFail ==
  ASSUME ChannelInv, RecordsKept, NEW p \in Managers
  PROVE  ~Attaching!RemoveFail(p)
  <1> SUFFICES ASSUME Attaching!RemoveFail(p) PROVE FALSE
    OBVIOUS
  <1>1. doing[p] = "detaching" /\ (answer[p] = "error" \/ ~object[p][slot[p]])
    BY DEF Attaching!RemoveFail, Attaching!Goto
  <1>2. slot[p] \in Attaching!Slot
    BY AttachingFacts DEF ChannelInv, AttachingType
  <1>3. object[p][slot[p]] /\ answer[p] /= "error"
    BY <1>1, <1>2 DEF RecordsKept, ManagerKnows, NoneFails, Removing
  <1> QED BY <1>1, <1>3

(* The command that is handled is the one its sender waits for. *)
LEMMA HandledIs ==
  ASSUME OneManager, ChannelInv, RecordsKept, NEW a \in Apps, command[a] /= None
  PROVE  \E p \in Managers, m \in Mapping :
           /\ command[a] \in Attaching!LocalVcCommand /\ command[a].caller = p /\ command[a].mapping = m /\ InHand(p) = m
           /\ Pid[m] = a /\ answer[p] = None
           /\ doing[p] = IF command[a].op = "attach" THEN "attaching" ELSE "detaching"
           /\ command[a].op \in {"attach", "detach"}
           /\ \A q \in Managers : q = p
           /\ \A b \in Apps : b /= a => command[b] = None
  <1>1. PICK c \in Attaching!LocalVcCommand : c = command[a]
    BY DEF ChannelInv, AttachingType
  <1>2. PICK p \in Managers, m \in Mapping : c.caller = p /\ c.mapping = m /\ c.op \in {"attach", "detach"}
    BY <1>1 DEF Attaching!LocalVcCommand
  <1>3. /\ InHand(p) = m /\ answer[p] = None /\ Pid[m] = a
        /\ doing[p] = IF c.op = "attach" THEN "attaching" ELSE "detaching"
    BY <1>1, <1>2 DEF RecordsKept, CommandsPending
  <1>4. \A q \in Managers : q = p
    BY DEF OneManager
  <1>5. ASSUME NEW b \in Apps, b /= a, command[b] /= None PROVE FALSE
    <2>1. PICK d \in Attaching!LocalVcCommand : d = command[b]
      BY <1>5 DEF ChannelInv, AttachingType
    <2>2. d.caller = p
      BY <1>4, <2>1 DEF Attaching!LocalVcCommand
    <2>3. InHand(p) = d.mapping /\ Pid[d.mapping] = b
      BY <1>5, <2>1, <2>2 DEF RecordsKept, CommandsPending
    <2> QED BY <1>3, <1>5, <2>3
  <1> QED BY <1>1, <1>2, <1>3, <1>4, <1>5

LEMMA AttachHandlerKeepsRecords ==
  ASSUME OneManager, ChannelInv, RecordsKept, NEW a \in Apps, Attaching!AttachHandler(a)
  PROVE  RecordsKept'
  <1> USE AttachingFacts
  <1>1. PICK p \in Managers, m \in Mapping :
           /\ command[a] \in Attaching!LocalVcCommand /\ command[a].caller = p /\ command[a].mapping = m /\ InHand(p) = m
           /\ Pid[m] = a /\ answer[p] = None /\ doing[p] = "attaching"
           /\ \A q \in Managers : q = p
           /\ \A b \in Apps : b /= a => command[b] = None
    BY HandledIs DEF Attaching!AttachHandler
  <1>2. PICK c \in Attaching!LocalVcCommand : c = command[a] /\ c.caller = p /\ c.mapping = m
    BY <1>1
  <1>3. Adding(p) /\ index[slot[p]] = m /\ slot[p] \in Attaching!Slot
    BY <1>1 DEF ChannelInv, AddingFits, Adding, AttachingType
  <1>4. Counted = Attaching!Mapped \ {m}
    BY <1>1, <1>3, CountedIs DEF ChannelInv
  <1>5. \A n \in Mapping : Attached(n) <=> n \in Counted
    BY <1>1 DEF Attached, Removing
  <1>6. Attaching!SlotsOf(m) /= {} /\ m \notin attached[a]
    BY <1>1, <1>3, <1>4, <1>5 DEF Attaching!SlotsOf, RecordsKept, ProcessesKnow
  <1>7. /\ attached' = [attached EXCEPT ![a] = @ \cup {m}]
        /\ object' = Attaching!Looked(a, Attaching!SlotsOf(m))
        /\ command' = [command EXCEPT ![a] = None]
        /\ Attaching!Reply(c, "ok")
        /\ UNCHANGED <<index, desc, doing, slot>>
    BY <1>2, <1>6 DEF Attaching!AttachHandler, Attaching!tableVars
  <1>8. answer'[p] = "ok"
    BY <1>1, <1>2, <1>7, ReplyIs DEF ChannelInv
  <1>9. QuietStep
    BY AttachHandlerKeepsChannel
  <1>10. CountersExact' /\ SenderExact'
    BY <1>9, QuietKeepsCounters
  <1>11. Counted' = Counted /\ InHand(p)' = m /\ ~Removing(p)'
    BY <1>1, <1>7, <1>9, CountedSame DEF QuietStep, Removing
  <1>12. ManagerKnows'
    <2>1. \A k \in Attaching!Slot : object[p][k] => object'[p][k]
      BY <1>7, LookedIs DEF ChannelInv
    <2> QED BY <1>1, <1>7, <1>11, <2>1 DEF RecordsKept, ManagerKnows
  <1>13. \A n \in Mapping : Attached(n)' <=> n \in Counted \/ n = m
    BY <1>1, <1>7, <1>8, <1>11 DEF Attached
  <1>14. ProcessesKnow'
    <2>1. \A b \in Apps : attached'[b] = IF b = a THEN attached[b] \cup {m} ELSE attached[b]
      BY <1>7 DEF ChannelInv, AttachingType
    <2>2. \A b \in Apps, n \in Mapping : n \in attached[b] <=> Pid[n] = b /\ n \in Counted
      BY <1>5 DEF RecordsKept, ProcessesKnow
    <2>3. ASSUME NEW b \in Apps, NEW n \in Mapping PROVE n \in attached'[b] <=> Pid[n] = b /\ (n \in Counted \/ n = m)
      <3>1. Pid[m] = a
        BY <1>1
      <3>2. n \in attached[b] <=> Pid[n] = b /\ n \in Counted
        BY <2>2
      <3>3. CASE b = a
        <4>1. attached'[b] = attached[b] \cup {m}
          BY <2>1, <3>3
        <4> QED BY <3>1, <3>2, <3>3, <4>1
      <3>4. CASE b /= a
        <4>1. attached'[b] = attached[b]
          BY <2>1, <3>4
        <4> QED BY <3>1, <3>2, <3>4, <4>1
      <3> QED BY <3>3, <3>4
    <2>4. \A b \in Apps, n \in Mapping : n \in attached'[b] <=> Pid[n] = b /\ Attached(n)'
      BY <1>13, <2>3
    <2> QED BY <2>4 DEF ProcessesKnow
  <1>15. CommandsPending'
    <2>1. \A b \in Apps : command'[b] = None
      BY <1>1, <1>7 DEF ChannelInv, AttachingType
    <2> QED BY <2>1 DEF CommandsPending
  <1>16. NoneFails'
    BY <1>1, <1>8 DEF NoneFails
  <1> QED BY <1>10, <1>12, <1>14, <1>15, <1>16 DEF RecordsKept

LEMMA DetachHandlerKeepsRecords ==
  ASSUME OneManager, ChannelInv, RecordsKept, NEW a \in Apps, Attaching!DetachHandler(a)
  PROVE  RecordsKept'
  <1> USE AttachingFacts
  <1>1. PICK p \in Managers, m \in Mapping :
           /\ command[a] \in Attaching!LocalVcCommand /\ command[a].caller = p /\ command[a].mapping = m /\ InHand(p) = m
           /\ Pid[m] = a /\ answer[p] = None /\ doing[p] = "detaching"
           /\ \A q \in Managers : q = p
           /\ \A b \in Apps : b /= a => command[b] = None
    BY HandledIs DEF Attaching!DetachHandler
  <1>2. PICK c \in Attaching!LocalVcCommand : c = command[a] /\ c.caller = p /\ c.mapping = m
    BY <1>1
  <1>3. Removing(p)
    BY <1>1 DEF Removing
  <1>4. m \in Counted
    BY <1>1, <1>3, CountedIs DEF ChannelInv
  <1>5. \A n \in Mapping : Attached(n) <=> n \in Counted
    BY <1>1 DEF Attached
  <1>6. m \in attached[a]
    BY <1>1, <1>4, <1>5 DEF RecordsKept, ProcessesKnow
  <1>7. /\ attached' = [attached EXCEPT ![a] = @ \ {m}]
        /\ command' = [command EXCEPT ![a] = None]
        /\ Attaching!Reply(c, "ok")
        /\ UNCHANGED <<index, desc, object, doing, slot>>
    BY <1>2, <1>6 DEF Attaching!DetachHandler, Attaching!tableVars
  <1>8. answer'[p] = "ok"
    BY <1>1, <1>2, <1>7, ReplyIs DEF ChannelInv
  <1>9. QuietStep
    BY DetachHandlerKeepsChannel
  <1>10. CountersExact' /\ SenderExact'
    BY <1>9, QuietKeepsCounters
  <1>11. Counted' = Counted /\ InHand(p)' = m /\ Removing(p)'
    BY <1>1, <1>3, <1>9, CountedSame DEF QuietStep
  <1>12. ManagerKnows'
    BY <1>1, <1>3, <1>7 DEF RecordsKept, ManagerKnows, Removing
  <1>13. \A n \in Mapping : Attached(n)' <=> n \in Counted /\ n /= m
    BY <1>1, <1>7, <1>8, <1>11, AttachingFacts DEF Attached
  <1>14. ProcessesKnow'
    <2>1. \A b \in Apps : attached'[b] = IF b = a THEN attached[b] \ {m} ELSE attached[b]
      BY <1>7 DEF ChannelInv, AttachingType
    <2>2. \A b \in Apps, n \in Mapping : n \in attached[b] <=> Pid[n] = b /\ n \in Counted
      BY <1>5 DEF RecordsKept, ProcessesKnow
    <2>3. ASSUME NEW b \in Apps, NEW n \in Mapping PROVE n \in attached'[b] <=> Pid[n] = b /\ (n \in Counted /\ n /= m)
      <3>1. Pid[m] = a
        BY <1>1
      <3>2. n \in attached[b] <=> Pid[n] = b /\ n \in Counted
        BY <2>2
      <3>3. CASE b = a
        <4>1. attached'[b] = attached[b] \ {m}
          BY <2>1, <3>3
        <4> QED BY <3>1, <3>2, <3>3, <4>1
      <3>4. CASE b /= a
        <4>1. attached'[b] = attached[b]
          BY <2>1, <3>4
        <4> QED BY <3>1, <3>2, <3>4, <4>1
      <3> QED BY <3>3, <3>4
    <2>4. \A b \in Apps, n \in Mapping : n \in attached'[b] <=> Pid[n] = b /\ Attached(n)'
      BY <1>13, <2>3
    <2> QED BY <2>4 DEF ProcessesKnow
  <1>15. CommandsPending'
    <2>1. \A b \in Apps : command'[b] = None
      BY <1>1, <1>7 DEF ChannelInv, AttachingType
    <2> QED BY <2>1 DEF CommandsPending
  <1>16. NoneFails'
    BY <1>1, <1>8 DEF NoneFails
  <1> QED BY <1>10, <1>12, <1>14, <1>15, <1>16 DEF RecordsKept

LEMMA CloseOneKeepsRecords ==
  ASSUME ChannelInv, RecordsKept, NEW a \in Apps, Attaching!CloseOne(a)
  PROVE  RecordsKept'
  <1> USE AttachingFacts
  <1>1. ActionSemaphore = None /\ UNCHANGED <<desc, ActionSemaphore, command, answer, doing, slot>>
    BY DEF Attaching!CloseOne, Attaching!commandVars
  <1>2. PICK m \in Counted, j \in Attaching!Slot :
              /\ index[j] = m /\ m \in attached[a]
              /\ index' = [index EXCEPT ![j] = None]
              /\ attached' = [attached EXCEPT ![a] = @ \ {m}]
              /\ object' = [object EXCEPT ![a][j] = FALSE]
              /\ SenderVcIndex' = IF SenderVcIndex = j THEN None ELSE SenderVcIndex
              /\ NumberOfBuffers' = NumberOfBuffers - Buffers[m] /\ NumberOfConnectedVCs' = NumberOfConnectedVCs - 1
              /\ Counted' = Counted \ {m}
              /\ Cardinality(Counted') = Cardinality(Counted) - 1
              /\ Attaching!BuffersOf(Counted') = Attaching!BuffersOf(Counted) - Buffers[m]
              /\ \A k \in Attaching!Slot : CountedAt(k)' <=> CountedAt(k) /\ k /= j
    BY CloseOneKeepsChannel
  <1>3. \A q \in Managers : doing[q] = "idle" /\ doing'[q] = "idle" /\ ~Removing(q)'
    BY <1>1 DEF ChannelInv, OneAtATime, Removing
  <1>4. CountersExact'
    BY <1>2 DEF RecordsKept, CountersExact, Attaching!BuffersOf, Attaching!PromisedTo
  <1>5. SenderExact'
    BY <1>1, <1>2 DEF RecordsKept, SenderExact, ChannelInv, AttachingType
  <1>6. ManagerKnows'
    <2>1. \A q \in Managers : q /= a
      OBVIOUS
    <2>2. \A q \in Managers : object'[q] = object[q]
      BY <1>2, <2>1 DEF ChannelInv, AttachingType
    <2>3. \A k \in Attaching!Slot : index'[k] /= None => index[k] /= None
      BY <1>2 DEF ChannelInv, AttachingType
    <2> QED BY <1>3, <2>2, <2>3 DEF RecordsKept, ManagerKnows
  <1>7. /\ \A b \in Apps : command[b] = None
        /\ \A n \in Mapping : (Attached(n) <=> n \in Counted) /\ (Attached(n)' <=> n \in Counted')
    BY <1>3, NothingPending, AttachedNext DEF RecordsKept
  <1>8. CommandsPending' /\ NoneFails'
    BY <1>1, <1>3, <1>7 DEF CommandsPending, NoneFails
  <1>9. ProcessesKnow'
    <2>1. \A b \in Apps : attached'[b] = IF b = a THEN attached[b] \ {m} ELSE attached[b]
      BY <1>2 DEF ChannelInv, AttachingType
    <2>2. Pid[m] = a /\ m \in Mapping
      BY <1>2 DEF RecordsKept, ProcessesKnow, Counted
    <2>3. \A b \in Apps, n \in Mapping : n \in attached[b] <=> Pid[n] = b /\ n \in Counted
      BY <1>7 DEF RecordsKept, ProcessesKnow
    <2>4. ASSUME NEW b \in Apps, NEW n \in Mapping
          PROVE  n \in attached'[b] <=> Pid[n] = b /\ n \in Counted'
      <3>1. n \in attached[b] <=> Pid[n] = b /\ n \in Counted
        BY <2>3
      <3>2. n \in Counted' <=> n \in Counted /\ n /= m
        BY <1>2
      <3>3. CASE b = a
        <4>1. attached'[b] = attached[b] \ {m}
          BY <2>1, <3>3
        <4> QED BY <3>1, <3>2, <3>3, <4>1
      <3>4. CASE b /= a
        <4>1. attached'[b] = attached[b]
          BY <2>1, <3>4
        <4> QED BY <2>2, <3>1, <3>2, <3>4, <4>1
      <3> QED BY <3>3, <3>4
    <2>5. \A b \in Apps, n \in Mapping : n \in attached'[b] <=> Pid[n] = b /\ Attached(n)'
      BY <1>7, <2>4
    <2> QED BY <2>5 DEF ProcessesKnow
  <1> QED BY <1>4, <1>5, <1>6, <1>8, <1>9 DEF RecordsKept

LEMMA StepKeepsRecords ==
  ASSUME OneManager, ChannelInv, RecordsInv, [Attaching!Next /\ UNCHANGED vars]_processVars
  PROVE  RecordsInv'
  <1>1. CASE commandLost'
    BY <1>1 DEF RecordsInv
  <1>2. CASE UNCHANGED processVars
    <2>1. UNCHANGED Attaching!vars /\ UNCHANGED commandLost
      BY <1>2 DEF processVars, attachingVars, Attaching!vars, Attaching!tableVars, Attaching!statusVars, Attaching!commandVars
    <2> QED BY <2>1, QuietOnesKeepRecords DEF RecordsInv
  <1>3. ASSUME NEW p \in Managers, Attaching!createLocalVc(p), ~commandLost' PROVE RecordsKept'
    <2>1. ~Attaching!CreateTimeout(p)
      BY <1>3, CommandTimeoutIs DEF Attaching!CreateTimeout
    <2>2. UNCHANGED commandLost
      BY <1>3, <2>1 DEF Attaching!createLocalVc, Attaching!CreateBegin, Attaching!CreateRefused, Attaching!AttachSend,
           Attaching!CreateCommit, Attaching!CreateRollback
    <2>3. RecordsKept
      BY <1>3, <2>2 DEF RecordsInv
    <2> QED BY <1>3, <2>1, <2>3, CreateBeginKeepsRecords, QuietOnesKeepRecords, SendKeepsRecords, CreateCommitKeepsRecords,
               CreateIsNotUndone DEF Attaching!createLocalVc
  <1>4. ASSUME NEW p \in Managers, Attaching!removeLocalVc(p), ~commandLost' PROVE RecordsKept'
    <2>1. ~Attaching!RemoveTimeout(p)
      BY <1>4, CommandTimeoutIs DEF Attaching!RemoveTimeout
    <2>2. UNCHANGED commandLost
      BY <1>4, <2>1 DEF Attaching!removeLocalVc, Attaching!RemoveBegin, Attaching!DetachSend, Attaching!RemoveCommit,
           Attaching!RemoveFail
    <2>3. RecordsKept
      BY <1>4, <2>2 DEF RecordsInv
    <2> QED BY <1>4, <2>1, <2>3, RemoveBeginKeepsRecords, SendKeepsRecords, RemoveCommitKeepsRecords,
               RemoveDoesNotFail DEF Attaching!removeLocalVc
  <1>5. ASSUME NEW a \in Apps, ~commandLost',
          \/ Attaching!handleOneCommand(a) \/ Attaching!sendBuffer(a) \/ Attaching!receiveBuffer(a)
          \/ Attaching!Close(a) \/ Attaching!detachAndDestroyAllLocalVcs(a)
        PROVE RecordsKept'
    <2>1. UNCHANGED commandLost
      BY <1>5 DEF Attaching!handleOneCommand, Attaching!AttachHandler, Attaching!DetachHandler, Attaching!sendBuffer,
           Attaching!receiveBuffer, Attaching!Close, Attaching!detachAndDestroyAllLocalVcs, Attaching!CloseOne, Attaching!Closed
    <2>2. RecordsKept
      BY <1>5, <2>1 DEF RecordsInv
    <2> QED BY <1>5, <2>2, AttachHandlerKeepsRecords, DetachHandlerKeepsRecords, QuietOnesKeepRecords, CloseOneKeepsRecords
            DEF Attaching!handleOneCommand, Attaching!detachAndDestroyAllLocalVcs
  <1> QED BY <1>1, <1>2, <1>3, <1>4, <1>5 DEF Attaching!Next, RecordsInv

LEMMA RecordsGive == ChannelInv /\ RecordsInv => Attaching!RecordsAgree
  <1> SUFFICES ASSUME ChannelInv, RecordsKept, ActionSemaphore = None PROVE Attaching!StatusExact /\ Attaching!TablesAgree
    BY DEF RecordsInv, Attaching!RecordsAgree, Attaching!StatusExact, Attaching!TablesAgree, Attaching!AtRest
  <1> USE AttachingFacts
  <1>1. Counted = Attaching!Mapped /\ \A k \in Attaching!Slot : CountedAt(k) <=> index[k] /= None
    BY CountedIs DEF ChannelInv
  <1>2. \A p \in Managers : doing[p] = "idle"
    BY DEF ChannelInv, OneAtATime
  <1>3. NumberOfConnectedVCs = Attaching!Cardinality(Attaching!Mapped) /\ NumberOfBuffers = Attaching!BuffersOf(Attaching!Mapped)
    BY <1>1, SameCardinality DEF RecordsKept, CountersExact
  <1>4. SenderVcIndex = None <=> \A m \in Attaching!Mapped : IsReading[m]
    <2>1. CASE SenderVcIndex = None
      <3>1. \A k \in Attaching!Slot : index[k] /= None => IsReading[index[k]]
        BY <1>1, <2>1 DEF ChannelInv, SenderIsKnown, TableIsExact
      <3>2. \A m \in Attaching!Mapped : IsReading[m]
        BY <3>1, MappedIs
      <3> QED BY <2>1, <3>2
    <2>2. CASE SenderVcIndex /= None
      <3>1. PICK k \in Attaching!Slot : k = SenderVcIndex /\ index[k] /= None /\ ~IsReading[desc[k]] /\ desc[k] = index[k]
        BY <1>1, <2>2 DEF RecordsKept, SenderExact, ChannelInv, AttachingType, TableIsExact
      <3>2. index[k] \in Attaching!Mapped
        BY <3>1, MappedIs DEF ChannelInv, AttachingType
      <3> QED BY <2>2, <3>1, <3>2
    <2> QED BY <2>1, <2>2
  <1>5. Attaching!StatusExact
    BY <1>3, <1>4 DEF Attaching!StatusExact
  <1>6. \A a \in Apps, m \in Mapping : m \in attached[a] <=> Pid[m] = a /\ m \in Attaching!Mapped
    BY <1>1, <1>2, NothingPending DEF RecordsKept, ProcessesKnow
  <1>7. UNION {attached[a] : a \in Apps} = Attaching!Mapped
    <2>1. \A m : m \in UNION {attached[a] : a \in Apps} => m \in Attaching!Mapped
      BY <1>6 DEF ChannelInv, AttachingType
    <2>2. \A m : m \in Attaching!Mapped => m \in UNION {attached[a] : a \in Apps}
      BY <1>6, MappedIs
    <2> QED BY <2>1, <2>2
  <1>8. Attaching!TablesAgree
    BY <1>7 DEF Attaching!TablesAgree
  <1> QED BY <1>5, <1>8

(* With one manager, until a command of it times out: between the calls the counters  *)
(* and the sender of a channel are those of its table, and the processes have         *)
(* attached what the table holds (GlobalVc.cc, Process.cc: attachLocalVc,             *)
(* detachLocalVc).                                                                    *)
THEOREM RecordsStayInAgreement ==
  ASSUME OneManager
  PROVE  AttachingSpec => []RecordsAgree
  <1>1. ProcessInit => ChannelInv /\ RecordsInv
    BY ChannelInit, RecordsInit DEF ProcessInit
  <1>2. ChannelInv /\ RecordsInv /\ [Attaching!Next /\ UNCHANGED vars]_processVars => ChannelInv' /\ RecordsInv'
    BY StepKeepsChannel, StepKeepsRecords
  <1>3. ChannelInv /\ RecordsInv => RecordsAgree
    BY RecordsGive DEF RecordsAgree
  <1> QED BY <1>1, <1>2, <1>3, PTL DEF AttachingSpec
==============================================================================
