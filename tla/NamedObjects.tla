------------------------------ MODULE NamedObjects ------------------------------
(* Semaphores and events of a process: Managers/SemaphoreManager.cc,            *)
(* Managers/EventManager.cc, IPC/Semaphore.cc, IPC/Event.cc and the calls of    *)
(* Interfaces/APOS-Synchronization.cc.                                          *)
(*                                                                              *)
(* Creation and deletion exclude each other.  Every other call finds its slot   *)
(* by the id without the access semaphore and uses the object it finds there in *)
(* a second step.  The objects are built in the area of their slot, which is    *)
(* only reset when a semaphore is deleted.                                      *)
EXTENDS Integers, FiniteSets

CONSTANTS
    Threads,   \* threads of the process
    Names,     \* names given to the objects
    Slots,     \* slots of a manager
    MaxCount,  \* maximum count of the semaphores
    MaxIds,    \* bound: private ids handed out
    MaxCalls,  \* bound: calls by id
    NoName     \* the empty name of a free slot

NamedObjectsAssumption ==
    /\ MaxCount \in Nat \ {0} /\ MaxIds \in Nat /\ MaxCalls \in Nat
    /\ NoName \notin Names
    /\ IsFiniteSet(Threads)

VARIABLES
    manager,   \* "semaphore" or "event": whose slots these are
    slot,      \* name, id, object, used area and the shared data of every slot
    nextId,    \* PrivateIdManager
    at,        \* where a thread is: [pc, slot, seen]
    calls,     \* calls by id so far
    crashed    \* a null pointer was used

namedVars == <<manager, slot, nextId, at, calls, crashed>>

Free == [name |-> NoName, id |-> 0, object |-> FALSE, used |-> FALSE, value |-> 0, waiting |-> 0]
Away == [pc |-> "away", slot |-> CHOOSE s \in Slots : TRUE, seen |-> 0]

Init ==
    /\ manager \in {"semaphore", "event"}
    /\ slot = [s \in Slots |-> Free]
    /\ nextId = 1
    /\ at = [t \in Threads |-> Away]
    /\ calls = 0
    /\ crashed = FALSE

findByName(name) == {s \in Slots : slot[s].name = name}
findByPrivateId(id) == {s \in Slots : slot[s].id = id}

--------------------------------------------------------------------------------
(* createSemaphore() and createEvent(): an existing name is refused.  The slot  *)
(* gets its name and id before the object is built, and keeps them when its     *)
(* area has no room for the object.                                             *)
Created(s, name) ==
    IF slot[s].used
    THEN [slot[s] EXCEPT !.name = name, !.id = nextId]
    ELSE [name |-> name, id |-> nextId, object |-> TRUE, used |-> TRUE, value |-> 0, waiting |-> 0]

create(name) ==
    /\ nextId <= MaxIds
    /\ findByName(name) = {}
    /\ \E s \in findByPrivateId(0) :
          /\ \A r \in findByPrivateId(0) : s <= r
          /\ slot' = [slot EXCEPT ![s] = Created(s, name)]
    /\ nextId' = nextId + 1
    /\ UNCHANGED <<manager, at, calls, crashed>>

(* A deletion without a look at who waits (not in the code; see                 *)
(* EventOutlivesWaiters).                                                       *)
Bug_Deletable(s) == TRUE
Deletable(s) == slot[s].waiting = 0

(* SemaphoreAllocator.reset() is missing (as it is for events; see              *)
(* NamesAnObject).                                                              *)
Bug_Deleted(s) == [slot[s] EXCEPT !.name = NoName, !.id = 0, !.object = FALSE]

Deleted(s) ==
    [slot[s] EXCEPT !.name = NoName, !.id = 0, !.object = FALSE,
                    !.used = manager = "event"]

delete(s) ==
    /\ slot[s].id # 0
    /\ IF ~slot[s].object THEN crashed' = TRUE /\ UNCHANGED slot
       ELSE /\ Deletable(s)
            /\ slot' = [slot EXCEPT ![s] = Deleted(s)]
            /\ UNCHANGED crashed
    /\ UNCHANGED <<manager, nextId, at, calls>>

--------------------------------------------------------------------------------
Moves(t, pc, new) ==
    /\ at[t].pc = pc
    /\ at' = [at EXCEPT ![t] = new]
    /\ calls' = IF pc = "away" THEN calls + 1 ELSE calls
    /\ UNCHANGED <<manager, nextId>>
To(t, pc) == [at[t] EXCEPT !.pc = pc]

(* findSemaphoreByPrivateId(), findEventByPrivateId() of a call by id.          *)
Find(t, s, call) ==
    /\ slot[s].id # 0 /\ calls < MaxCalls
    /\ Moves(t, "away", [pc |-> call, slot |-> s, seen |-> 0])
    /\ UNCHANGED <<slot, crashed>>

(* The found pointer is null by now, or was never set.                          *)
UseNull(t) ==
    /\ at[t].pc \in {"wait", "post", "reset"} /\ ~slot[at[t].slot].object
    /\ crashed' = TRUE
    /\ UNCHANGED <<manager, slot, nextId, at, calls>>

There(t) == slot[at[t].slot].object
Set(t, field, value) ==
    /\ slot' = [slot EXCEPT ![at[t].slot][field] = value]
    /\ UNCHANGED crashed
Mine(t) == slot[at[t].slot]

(* Semaphore::wait(): WaitingThreads++ reads and writes unprotected.            *)
WaitReads(t) ==
    /\ There(t)
    /\ Moves(t, "wait", [at[t] EXCEPT !.pc = "counting", !.seen = Mine(t).waiting])
    /\ UNCHANGED <<slot, crashed>>
WaitCounts(t) == Moves(t, "counting", To(t, "waiting")) /\ Set(t, "waiting", at[t].seen + 1)

(* sem_wait() takes one; a timeout leaves without.  Then WaitingThreads--.      *)
Take(t) ==
    /\ Mine(t).value > 0
    /\ Moves(t, "waiting", To(t, "leaving"))
    /\ Set(t, "value", Mine(t).value - 1)
Timeout(t) ==
    /\ Moves(t, "waiting", To(t, "leaving"))
    /\ UNCHANGED <<slot, crashed>>
LeaveReads(t) ==
    /\ Moves(t, "leaving", [at[t] EXCEPT !.pc = "uncounting", !.seen = Mine(t).waiting])
    /\ UNCHANGED <<slot, crashed>>
LeaveCounts(t) == Moves(t, "uncounting", Away) /\ Set(t, "waiting", at[t].seen - 1)

(* Semaphore::post(): the maximum is tested before the semaphore is posted.     *)
PostTests(t) ==
    /\ There(t)
    /\ Moves(t, "post", IF Mine(t).value = MaxCount THEN Away ELSE To(t, "posting"))
    /\ UNCHANGED <<slot, crashed>>
Post(t) == Moves(t, "posting", Away) /\ Set(t, "value", Mine(t).value + 1)

(* Event: waiters are counted and the flag is written under its mutex.          *)
waitForEventStatus(t) ==
    /\ There(t)
    /\ Moves(t, "wait", To(t, "waiting"))
    /\ Set(t, "waiting", Mine(t).waiting + 1)
EventOrTimeout(t) ==
    /\ Moves(t, "waiting", Away)
    /\ Set(t, "waiting", Mine(t).waiting - 1)
setEventStatus(t, call, value) ==
    /\ There(t)
    /\ Moves(t, call, Away)
    /\ Set(t, "value", value)

(* The calls a thread can make.                                                 *)
SemaphoreCalls(t) ==
    \/ \E s \in Slots, call \in {"wait", "post"} : Find(t, s, call)
    \/ WaitReads(t) \/ WaitCounts(t) \/ Take(t) \/ Timeout(t) \/ LeaveReads(t) \/ LeaveCounts(t)
    \/ PostTests(t) \/ Post(t)
EventCalls(t) ==
    \/ \E s \in Slots, call \in {"wait", "post", "reset"} : Find(t, s, call)
    \/ waitForEventStatus(t) \/ EventOrTimeout(t)
    \/ setEventStatus(t, "post", 1) \/ setEventStatus(t, "reset", 0)

Next ==
    /\ ~crashed
    /\ \/ \E name \in Names : create(name)
       \/ \E s \in Slots : delete(s)
       \/ \E t \in Threads :
             \/ manager = "semaphore" /\ SemaphoreCalls(t)
             \/ manager = "event" /\ EventCalls(t)
             \/ UseNull(t)

Spec == Init /\ [][Next]_namedVars

--------------------------------------------------------------------------------
(* An event is not deleted under a thread that waits for it, whoever creates,   *)
(* deletes and sets events meanwhile.                                           *)
EventOutlivesWaiters ==
    manager = "event" => \A t \in Threads : at[t].pc = "waiting" => There(t)

(* An id of a semaphore names an object, also in a slot that was used before:   *)
(* nothing short of a deletion between two steps of a call makes it null.       *)
NamesAnObject ==
    manager = "semaphore" => \A s \in Slots : slot[s].id # 0 => slot[s].object

(* MaximumCount is the maximum value of the semaphore.  The code does not keep  *)
(* this: the count is compared before it is raised, in two steps of every       *)
(* poster.                                                                      *)
NeverAboveMaximum == \A s \in Slots : slot[s].value <= MaxCount

================================================================================
