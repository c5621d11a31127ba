-------------------------------- MODULE VcTables --------------------------------
(* CommunicationManager: the shared table of global vcs and the objects that    *)
(* every process keeps for its entries, with the shared memories behind them,   *)
(* and the use OneWayCommunication makes of it.                                 *)
(*                                                                              *)
(* m_Semaphore makes a step of every operation that looks into the table; what  *)
(* a caller does with the result comes later.  Sessions are numbers of rand(),  *)
(* taken to differ.  Segments are the shared memories created so far.           *)
EXTENDS Integers, FiniteSets, FiniteSetsExt

CONSTANTS Users,                \* processes
          Ids,                  \* public ids of global vcs
          Sizes,                \* what descriptions ask for
          Slots,                \* 1 .. OS_MAX_NUMBER_OF_GLOBALVCS
          Unused,               \* OS_UNUSED_ID
          MaxSegment,           \* bounds the shared memories ever created
          Recreate              \* an id is used again

VcTablesAssumption == Slots \subseteq Nat /\ Sizes \subseteq Nat /\ MaxSegment \in Nat /\ Recreate \in BOOLEAN

VARIABLES index,                \* m_GlobalVcIndex: slot |-> [id, session] or Unused
          vc,                   \* m_GlobalVcObject of each process: [id, session, segment]
          opened,               \* handles of each process: id |-> segment, 0 none
          named,                \* id |-> segment of that name, 0 none
          segment,              \* [users, size] of each segment, with size 0 before its master
          sessions,             \* sessions drawn
          assuring              \* where assureGlobalVc stands in each process

vars == <<index, vc, opened, named, segment, sessions, assuring>>

SegmentsOf(n) == 1 .. n
Live == DOMAIN segment

Init ==
    /\ index = [k \in Slots |-> Unused]
    /\ vc = [p \in Users |-> [k \in Slots |-> Unused]]
    /\ opened = [p \in Users |-> [i \in Ids |-> 0]]
    /\ named = [i \in Ids |-> 0]
    /\ segment = <<>>
    /\ sessions = 0
    /\ assuring = [p \in Users |-> [at |-> "idle"]]

getVirtualChannelIndex(i) == {k \in Slots : index[k] # Unused /\ index[k].id = i}
FreeSlots == {k \in Slots : index[k] = Unused}

--------------------------------------------------------------------------------
(* What deinitialising the object of slot k does to the shared memory: the last *)
(* user deletes it and keeps its handle, the others close theirs.               *)
Left(p, k) ==
    LET o == vc[p][k] IN
    IF o = Unused THEN [segment |-> segment, named |-> named, opened |-> opened]
    ELSE [segment |-> [segment EXCEPT ![o.segment].users = @ - 1],
          named |-> IF segment[o.segment].users = 1 THEN [named EXCEPT ![o.id] = 0] ELSE named,
          opened |-> IF segment[o.segment].users = 1 THEN opened ELSE [opened EXCEPT ![p][o.id] = 0]]

deinitialize(p, k) ==
    /\ segment' = Left(p, k).segment
    /\ named' = Left(p, k).named
    /\ opened' = Left(p, k).opened
    /\ vc' = [vc EXCEPT ![p][k] = Unused]

(* initialize() as slave: maps what the process has open under the name, else   *)
(* what is there; a memory without a master yet is refused.                     *)
Found(p, k, i) == IF Left(p, k).opened[p][i] # 0 THEN Left(p, k).opened[p][i] ELSE Left(p, k).named[i]
Attachable(p, k, i) == Found(p, k, i) # 0 /\ segment[Found(p, k, i)].size # 0

initializeSlave(p, k) ==
    LET i == index[k].id
        s == Found(p, k, i)
    IN /\ Attachable(p, k, i)
       /\ segment' = [Left(p, k).segment EXCEPT ![s].users = @ + 1]
       /\ named' = Left(p, k).named
       /\ opened' = [Left(p, k).opened EXCEPT ![p][i] = s]
       /\ vc' = [vc EXCEPT ![p][k] = [id |-> i, session |-> index[k].session, segment |-> s]]

(* The object of the slot is the one of this entry.                             *)
Current(p, k) == vc[p][k] # Unused /\ vc[p][k].session = index[k].session

(* getVirtualChannel(): the object of the entry, initialised anew when it is    *)
(* of another session.  An entry that cannot be opened is destroyed by who      *)
(* finds it.                                                                    *)
getVirtualChannel(p, k) ==
    IF Current(p, k)
    THEN UNCHANGED <<index, vc, opened, named, segment>>
    ELSE IF Attachable(p, k, index[k].id)
    THEN initializeSlave(p, k) /\ UNCHANGED index
    ELSE deinitialize(p, k) /\ index' = [index EXCEPT ![k] = Unused]

(* createVirtualChannel(): the memory of that name is created or reused, and    *)
(* opened by name; its master resets the local vcs.                             *)
\* an implementation that keeps the number it drew first
Bug_NewSession == 1

NewSession == sessions + 1
Fresh(p, k, i) == Left(p, k).named[i] = 0

createVirtualChannel(p, i, size) ==
    /\ getVirtualChannelIndex(i) = {} /\ FreeSlots # {}
    /\ Recreate \/ \A s \in Live : segment[s].id # i
    /\ LET k == Min(FreeSlots)
           n == Cardinality(Live)
           new == IF Fresh(p, k, i) THEN n + 1 ELSE Left(p, k).named[i]
           s == IF Left(p, k).opened[p][i] # 0 THEN Left(p, k).opened[p][i] ELSE new
           all == [t \in Live \cup {new} |-> IF t \in Live THEN Left(p, k).segment[t]
                                             ELSE [id |-> i, users |-> 0, size |-> 0]]
       IN /\ new <= MaxSegment
          /\ segment' = [all EXCEPT ![s] = [id |-> i, users |-> @.users + 1, size |-> size]]
          /\ named' = [Left(p, k).named EXCEPT ![i] = new]
          /\ opened' = [Left(p, k).opened EXCEPT ![p][i] = s]
          /\ sessions' = NewSession
          /\ index' = [index EXCEPT ![k] = [id |-> i, session |-> NewSession]]
          /\ vc' = [vc EXCEPT ![p][k] = [id |-> i, session |-> NewSession, segment |-> s]]

destroyVirtualChannel(p, i) ==
    \E k \in getVirtualChannelIndex(i) :
        /\ index' = [index EXCEPT ![k] = Unused]
        /\ deinitialize(p, k)
        /\ UNCHANGED sessions

--------------------------------------------------------------------------------
(* The service calls.                                                           *)
Idle(p) == assuring[p].at = "idle"

Create(p) ==
    /\ Idle(p)
    /\ \E i \in Ids, size \in Sizes : createVirtualChannel(p, i, size)
    /\ UNCHANGED assuring

(* Also a step of destroyAllVirtualChannels(), which goes through the ids of    *)
(* the table one after the other, and the end of OneWayCommunication::detach(). *)
Destroy(p) ==
    /\ Idle(p)
    /\ \E i \in Ids : destroyVirtualChannel(p, i)
    /\ UNCHANGED assuring

(* releaseVirtualChannel() lets the own object go and leaves the entry.         *)
Release(p) ==
    /\ Idle(p)
    /\ \E k \in Slots : vc[p][k] # Unused /\ deinitialize(p, k)
    /\ UNCHANGED <<index, sessions, assuring>>

(* attachChannelToProcessOrThread(), detachAllThreadsOfProcessFromVc(), and the *)
(* message calls, each of which looks the local vc up for itself.               *)
Lookup(p) ==
    /\ Idle(p)
    /\ \E k \in Slots : index[k] # Unused /\ getVirtualChannel(p, k)
    /\ UNCHANGED <<sessions, assuring>>

MessageCall(p) == Lookup(p)

--------------------------------------------------------------------------------
(* OneWayCommunication::assureGlobalVc(): several calls, between which others   *)
(* get theirs.                                                                  *)
Configuration == [id : Ids, size : Sizes]
isGlobalVcAdequate(current, wanted) == current >= wanted
Goes(p, r) == assuring' = [assuring EXCEPT ![p] = r]
TableUnchanged == UNCHANGED <<index, vc, opened, named, segment, sessions>>

\* assureGlobalVc() looks for the vc; isAttached() only looks
Assure(p) ==
    /\ Idle(p)
    /\ \E c \in Configuration :
        IF getVirtualChannelIndex(c.id) = {}
        THEN Goes(p, [at |-> "create", c |-> c]) /\ TableUnchanged
        ELSE LET k == Min(getVirtualChannelIndex(c.id)) IN
             /\ getVirtualChannel(p, k)
             /\ UNCHANGED sessions
             /\ Goes(p, IF index'[k] # Unused /\ isGlobalVcAdequate(segment'[vc'[p][k].segment].size, c.size)
                        THEN [at |-> "idle"] ELSE [at |-> "replace", c |-> c])

\* after its local vcs have been detached the vc is destroyed
Replace(p) ==
    /\ assuring[p].at = "replace"
    /\ IF getVirtualChannelIndex(assuring[p].c.id) = {}
       THEN Goes(p, [at |-> "idle"]) /\ TableUnchanged
       ELSE /\ destroyVirtualChannel(p, assuring[p].c.id)
            /\ Goes(p, [assuring[p] EXCEPT !.at = "create"])

AssureCreates(p) ==
    /\ assuring[p].at = "create"
    /\ Goes(p, [at |-> "idle"])
    /\ \/ createVirtualChannel(p, assuring[p].c.id, assuring[p].c.size)
       \/ /\ getVirtualChannelIndex(assuring[p].c.id) # {} \/ FreeSlots = {} \/ ~Recreate
          /\ TableUnchanged

Next == \E p \in Users : \/ Create(p) \/ Destroy(p) \/ Release(p) \/ MessageCall(p)
                         \/ Assure(p) \/ Replace(p) \/ AssureCreates(p)

Spec == Init /\ [][Next]_vars

--------------------------------------------------------------------------------
TypeOK ==
    /\ index \in [Slots -> [id : Ids, session : 1 .. sessions] \cup {Unused}]
    /\ opened \in [Users -> [Ids -> 0 .. MaxSegment]] /\ named \in [Ids -> 0 .. MaxSegment]
    /\ Live = SegmentsOf(Cardinality(Live))
    /\ \A s \in Live : segment[s].users \in Nat

(* Processes meet: those that have taken their object of an entry for current   *)
(* have mapped the same shared memory, the one of the vc the entry names        *)
(* (createVirtualChannel: "creates a shared memory object and required data     *)
(* structures to communicate via this shared memory object").                   *)
ProcessesMeet ==
    \A k \in Slots : index[k] # Unused =>
        \A p, q \in Users : Current(p, k) /\ Current(q, k) =>
            /\ vc[p][k].segment = vc[q][k].segment
            /\ vc[p][k].id = index[k].id

================================================================================
