----------------------- MODULE MCSimpleCommandInterface -----------------------
(* Commands from process to process for TLC: the interface they pass through,  *)
(* where only the starter has a handler for "run", and beside it the commands   *)
(* that attach and detach local vcs, where application a1 writes, a2 reads, and *)
(* a second writer belongs to a2.  A behaviour exercises one of the two, the    *)
(* other stays in its initial state.                                            *)
EXTENDS SimpleCommandInterface, TLC

CONSTANTS MaxAttached, MaxBuffers, Managers, Apps, Mapping, Pid, IsReading, Buffers, Impatient, None,
          a1, a2, writer1, writer2, reader2

VARIABLES index, desc, waiting, NumberOfConnectedVCs, NumberOfBuffers, SenderVcIndex, ActionSemaphore,
          object, attached, command, answer, doing, slot, commandLost

HandledBy == [ph \in Phase |-> IF ph = "starter" THEN {"run", "terminate"} ELSE {"terminate"}]
PidOf     == (writer1 :> a1) @@ (writer2 :> a2) @@ (reader2 :> a2)
Reads     == (writer1 :> FALSE) @@ (writer2 :> FALSE) @@ (reader2 :> TRUE)
BuffersIn == (writer1 :> 1) @@ (writer2 :> 3) @@ (reader2 :> 2)

Attaching == INSTANCE GlobalVcMapping WITH pc <- doing

attachingVars == <<index, desc, waiting, NumberOfConnectedVCs, NumberOfBuffers, SenderVcIndex, ActionSemaphore,
                   object, attached, command, answer, doing, slot, commandLost>>
processVars == <<vars, attachingVars>>

ASSUME AttachingAssumption == Attaching!MappingAssumption

ProcessInit == Init /\ Attaching!Init

CommandsSpec  == ProcessInit /\ [][Next /\ UNCHANGED attachingVars]_processVars /\ Fairness
AttachingSpec == ProcessInit /\ [][Attaching!Next /\ UNCHANGED vars]_processVars /\ Attaching!Fairness

(* What a channel has is promised once, see GlobalVcMapping.                    *)
ResourcesExact == Attaching!ResourcesExact

(* The records of the channel and of the processes agree, see GlobalVcMapping.  *)
RecordsAgree == Attaching!RecordsAgree

(* A process that shuts down gets rid of its local vcs, see GlobalVcMapping.    *)
CloseCompletes == Attaching!CloseCompletes
===============================================================================
